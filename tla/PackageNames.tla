---------------------------- MODULE PackageNames ----------------------------
(***************************************************************************)
(* normalize_name of util.rs, which turns the name in a request's path into*)
(* the key that registry and table use.  It looks the name up among the    *)
(* packages listed at that moment, so the key of a path may change when    *)
(* the listing does.                                                       *)
(***************************************************************************)
EXTENDS Naturals, Sequences, FiniteSetsExt

CONSTANTS
  Languages,    \* languages, each with its variant (the GB of en_GB)
  TwoLetter,    \* those with a code of two letters as well (iso639.tsv)
  MaxListed,    \* bound on the packages of a listing
  InvalidName   \* the error for a name of no known form

(* A code is a language in one of its spellings, of 2 or 3 letters; what   *)
(* follows an underscore is carried along by every conversion.             *)
Code == {c \in [of : Languages, letters : {2, 3}] : c.letters = 2 => c.of \in TwoLetter}

(* apertium-<code> and apertium-<code>-<code>, with the prefix that        *)
(* normalize_name supplies; <<>> is any name of another form.             *)
Name == {<<c>> : c \in Code} \cup (Code \X Code) \cup {<<>>}

ASSUME NamesAssumption ==
  /\ TwoLetter \subseteq Languages /\ IsFiniteSet(Languages)
  /\ InvalidName \notin Name
  /\ MaxListed \in Nat

VARIABLE package_names   \* the names that get_package_names collects

NamesTypeOK == package_names \subseteq Name

-----------------------------------------------------------------------------

WellFormed(name) == name # <<>>

Convertible(name) ==
  WellFormed(name) /\ \A i \in DOMAIN name : name[i].of \in TwoLetter

(* convert_language_code, to the other spelling.                           *)
ConvertCode(c) == [c EXCEPT !.letters = 5 - c.letters]

(* Both codes of a pair are converted; ConvertFirst leaves the second.     *)
ConvertFirst(name) == [name EXCEPT ![1] = ConvertCode(name[1])]
Convert(name)      == [i \in DOMAIN name |-> ConvertCode(name[i])]

(* normalize_name: a listed name as it is, else its conversion when that is*)
(* listed, else the name when it has the form of one.  ConvertedFirst tries*)
(* the two lookups in the other order.                                     *)
ConvertedFirst(name, known) ==
  IF Convertible(name) /\ Convert(name) \in known THEN Convert(name)
  ELSE IF WellFormed(name) \/ name \in known THEN name ELSE InvalidName

NormalizeName(name, known) ==
  IF name \in known THEN name
  ELSE IF Convertible(name) /\ Convert(name) \in known THEN Convert(name)
  ELSE IF WellFormed(name) THEN name ELSE InvalidName

NamesInit == package_names = {}

(* The cache is replaced by another listing, with packages added, renamed  *)
(* or removed.                                                             *)
Relist(known) == known # package_names /\ package_names' = known

NamesNext == \E n \in 0..MaxListed : \E known \in kSubset(n, Name) : Relist(known)

NamesSpec == NamesInit /\ [][NamesNext]_package_names

-----------------------------------------------------------------------------

(* The same languages, each in its other spelling.                         *)
OtherSpelling(name, other) ==
  /\ WellFormed(name) /\ Len(name) = Len(other)
  /\ \A i \in DOMAIN name :
       name[i].of = other[i].of /\ name[i].letters # other[i].letters

(* The two spellings of a package, of which one is listed, are one key: a  *)
(* client that asks for eng-spa shares tasks and rows with one that asks   *)
(* for en-es, and neither depends on which of them was asked first.        *)
SpellingsMeet ==
  \A name \in package_names : \A other \in Name \ package_names :
    OtherSpelling(name, other)
      => NormalizeName(other, package_names) = NormalizeName(name, package_names)

(* A package that a path leads to keeps it while it stays listed, whatever *)
(* else the listing gains or loses, unless a package of just that name     *)
(* appears: rows and tasks are not left behind under another key.          *)
KeyIsKept ==
  \A name \in Name :
    LET key == NormalizeName(name, package_names)
        next == NormalizeName(name, package_names')
    IN key \in package_names /\ key \in package_names' /\ next # key => next = name

KeepsItsKey == [][KeyIsKept]_package_names
=============================================================================
