--------------------------- MODULE SvnListProofs ---------------------------
(***************************************************************************)
(* The listing of a package is exactly the complete file entries of svn's  *)
(* output, for any number of entries.  The argument is the inductive       *)
(* invariant SvnInv: the flags and the five locals are a picture of the    *)
(* entry being read (LocalsFollowEntry), so that what EndEntry appends is  *)
(* that entry's own five values.                                           *)
(***************************************************************************)
EXTENDS SvnList, SequenceTheorems, TLAPS

(* What appending to a sequence does, stated once for any elements.        *)
LEMMA Appended ==
  ASSUME NEW S, NEW s \in Seq(S), NEW e \in S, NEW n \in Nat \ {0}, n = Len(s) + 1
  PROVE  /\ Append(s, e) \in Seq(S)
         /\ DOMAIN s = 1..(n - 1) /\ DOMAIN Append(s, e) = 1..n
         /\ Append(s, e)[n] = e
         /\ \A m \in 1..(n - 1) : m # n /\ Append(s, e)[m] = s[m]
<1>1. Len(s) = n - 1
  BY LenProperties
<1> QED
  BY <1>1, AppendProperties, LenProperties

LEMMA Empty == ASSUME NEW S PROVE <<>> \in Seq(S) /\ DOMAIN <<>> = {}
  OBVIOUS

LEMMA SvnInitInv == SvnInit => SvnInv
<1> SUFFICES ASSUME SvnInit PROVE SvnInv
  OBVIOUS
<1>1. SvnTypeOK
  BY Empty DEF SvnInit, SvnTypeOK, NoFields
<1>2. LocalsFollowEntry
  BY DEF SvnInit, LocalsFollowEntry, NoFields
<1>3. DOMAIN found = {} /\ DOMAIN listed = {}
  <2>1. found = <<>> /\ listed = <<>>
    BY DEF SvnInit
  <2> QED
    BY <2>1, Empty
<1>4. FilesAreWhole
  BY <1>3 DEF FilesAreWhole
<1> QED
  BY <1>1, <1>2, <1>4 DEF SvnInv

(* The steps within an entry and those that end the reading touch neither  *)
(* svn's entries nor the files found.                                      *)
LEMMA WholeStays ==
  ASSUME FilesAreWhole, UNCHANGED <<listed, found>>
  PROVE  FilesAreWhole'
  BY DEF FilesAreWhole, Whole, FileOf

(* The text of a field is a Text, and so not None.                         *)
LEMMA TextOfField ==
  ASSUME SvnTypeOK, NEW f \in Field
  PROVE  <<Current, f>> \in Text /\ <<Current, f>> # None
<1>0. listed \in Seq(Entry)
  BY DEF SvnTypeOK
<1>1. Current \in Nat
  BY <1>0, LenProperties DEF Current
<1>2. <<Current, f>> \in Text
  BY <1>1 DEF Text
<1> QED
  BY <1>2, SvnListAssumption

LEMMA SvnStep == SvnInv /\ [SvnNext]_svnVars => SvnInv'
<1> SUFFICES ASSUME SvnInv, [SvnNext]_svnVars PROVE SvnInv'
  OBVIOUS
<1> USE DEF svnVars, svn, local
<1>1. SvnTypeOK /\ LocalsFollowEntry /\ FilesAreWhole
  BY DEF SvnInv
<1>2. CASE SvnFails \/ Eof \/ SvnXmlError \/ UNCHANGED svnVars
  <2>1. UNCHANGED <<svn, local>> /\ outcome' \in {outcome, "err", "ok", "panic"}
        /\ (outcome' = "reading" => outcome = "reading")
    BY <1>2 DEF SvnFails, Eof, SvnXmlError
  <2>2. SvnTypeOK'
    BY <1>1, <2>1 DEF SvnTypeOK
  <2>3. LocalsFollowEntry'
    BY <1>1, <2>1 DEF LocalsFollowEntry, Current
  <2> QED
    BY <1>1, <2>1, <2>2, <2>3, WholeStays DEF SvnInv
<1>3. ASSUME NEW k \in {"file", "dir"}, StartEntry(k)
      PROVE  SvnInv'
  <2>1. SvnTypeOK'
    BY <1>1, <1>3 DEF StartEntry, SvnTypeOK
  <2>2. LocalsFollowEntry'
    BY <1>1, <1>3 DEF StartEntry, LocalsFollowEntry, Current
  <2> QED
    BY <1>1, <1>3, <2>1, <2>2, WholeStays DEF StartEntry, SvnInv
<1>4. CASE StartCommit
  <2>1. "revision" \in Field /\ <<Current, "revision">> \in Text
    BY <1>1, TextOfField DEF Field
  <2>2. SvnTypeOK'
    BY <1>1, <1>4, <2>1 DEF StartCommit, Assign, SvnTypeOK
  <2>3. LocalsFollowEntry'
    BY <1>1, <1>4, <2>1 DEF StartCommit, Assign, LocalsFollowEntry, Current, SvnTypeOK
  <2> QED
    BY <1>1, <1>4, <2>2, <2>3, WholeStays DEF StartCommit, SvnInv
<1>5. ASSUME NEW f \in Element, StartElement(f)
      PROVE  SvnInv'
  <2>1. SvnTypeOK'
    BY <1>1, <1>5 DEF StartElement, SvnTypeOK
  <2>2. LocalsFollowEntry'
    BY <1>1, <1>5 DEF StartElement, LocalsFollowEntry, Current, Element
  <2> QED
    BY <1>1, <1>5, <2>1, <2>2, WholeStays DEF StartElement, SvnInv
<1>6. CASE ReadText
  <2>1. CASE in_element = {}
    <3>1. SvnTypeOK'
      BY <1>1, <1>6, <2>1 DEF ReadText, SvnTypeOK, Field
    <3>2. LocalsFollowEntry'
      BY <1>1, <1>6, <2>1 DEF ReadText, LocalsFollowEntry, Current, SvnTypeOK
    <3> QED
      BY <1>1, <1>6, <3>1, <3>2, WholeStays DEF ReadText, SvnInv
  <2>2. CASE in_element # {}
    <3>1. in_file_entry /\ open \in Element /\ in_element = {open} /\ open # ""
      BY <1>1, <2>2 DEF LocalsFollowEntry, SvnTypeOK
    <3>2. open \in Field /\ <<Current, open>> \in Text
      BY <1>1, <3>1, TextOfField DEF Field
    <3>3. given' = given \cup {open} /\ Assign(open, <<Current, open>>)
          /\ UNCHANGED <<listed, entry_kind, open, in_file_entry, in_element, found>>
          /\ outcome = "reading" /\ entry_kind # ""
      BY <1>6, <2>2, <3>1 DEF ReadText
    <3>4. SvnTypeOK'
      BY <1>1, <3>2, <3>3 DEF Assign, SvnTypeOK
    <3>5. LocalsFollowEntry'
      BY <1>1, <3>1, <3>2, <3>3 DEF Assign, LocalsFollowEntry, Current, SvnTypeOK
    <3> QED
      BY <1>1, <3>3, <3>4, <3>5, WholeStays DEF SvnInv
  <2> QED
    BY <2>1, <2>2
<1>7. CASE EndElement
  <2>1. SvnTypeOK'
    BY <1>1, <1>7 DEF EndElement, LeaveElement, SvnTypeOK
  <2>2. LocalsFollowEntry'
    BY <1>1, <1>7 DEF EndElement, LeaveElement, LocalsFollowEntry, Current
  <2> QED
    BY <1>1, <1>7, <2>1, <2>2, WholeStays DEF EndElement, SvnInv
<1>8. CASE EndEntry
  <2> DEFINE entry == [kind |-> entry_kind, given |-> given]
  <2> HIDE DEF entry
  <2>0. listed \in Seq(Entry) /\ found \in Seq(File)
    BY <1>1 DEF SvnTypeOK
  <2>a. PICK n \in Nat \ {0} : n = Len(listed) + 1
    BY <2>0, LenProperties
  <2>b. entry \in Entry /\ listed' = Append(listed, entry)
    BY <1>1, <1>8 DEF EndEntry, SvnTypeOK, Entry, entry
  <2>c. entry.kind = entry_kind /\ entry.given = given
    BY DEF entry
  <2>1. /\ listed' \in Seq(Entry)
        /\ DOMAIN listed = 1..(n - 1) /\ DOMAIN listed' = 1..n
        /\ listed'[n] = entry
        /\ \A m \in 1..(n - 1) : m # n /\ listed'[m] = listed[m]
    <3>1. n = Len(listed) + 1 /\ listed \in Seq(Entry) /\ entry \in Entry
      BY <2>0, <2>a, <2>b
    <3>2. /\ Append(listed, entry) \in Seq(Entry)
          /\ DOMAIN listed = 1..(n - 1) /\ DOMAIN Append(listed, entry) = 1..n
          /\ Append(listed, entry)[n] = entry
          /\ \A m \in 1..(n - 1) :
               m # n /\ Append(listed, entry)[m] = listed[m]
      BY <3>1, <2>a, Appended
    <3> QED
      BY <2>b, <3>2
  <2>2. \A m \in DOMAIN listed : Whole(m)' <=> Whole(m)
    BY <2>1 DEF Whole
  <2>3. Whole(n)' <=> entry_kind = "file" /\ given = Field
    BY <2>1, <2>c DEF Whole
  <2>4. in_file_entry /\ Complete <=> Whole(n)'
    <3>1. in_file_entry <=> entry_kind = "file"
      BY <1>1 DEF LocalsFollowEntry
    <3>2. ASSUME in_file_entry, NEW f \in Field
          PROVE  fields[f] # None <=> f \in given
      BY <1>1, <1>8, <3>2, TextOfField DEF LocalsFollowEntry, EndEntry
    <3>3. given \subseteq Field
      BY <1>1 DEF SvnTypeOK
    <3> QED
      BY <2>3, <3>1, <3>2, <3>3 DEF Complete
  <2>5. Whole(n)' => fields = FileOf(n) /\ fields \in [Field -> Text]
    <3>1. SUFFICES ASSUME Whole(n)' PROVE fields = FileOf(n) /\ fields \in [Field -> Text]
      OBVIOUS
    <3>2. fields = [f \in Field |-> <<Current, f>>]
      BY <1>1, <1>8, <2>3, <2>4, <3>1 DEF LocalsFollowEntry, EndEntry
    <3>3. \A f \in Field : <<Current, f>> \in Text
      BY <1>1, TextOfField
    <3> QED
      BY <2>a, <3>2, <3>3 DEF FileOf, Current
  <2>6. found' = IF Whole(n)' THEN Append(found, FileOf(n)) ELSE found
    BY <1>8, <2>4, <2>5 DEF EndEntry
  <2>d. Whole(n)' => FileOf(n) \in File
    BY <2>5 DEF File
  <2>7. SvnTypeOK'
    <3>1. NoFields \in [Field -> Text \cup {None}]
      BY DEF NoFields
    <3>2. found' \in Seq(File)
      BY <2>0, <2>6, <2>d, AppendProperties
    <3>3. listed' \in Seq(Entry)
      BY <2>1
    <3> QED
      BY <1>1, <1>8, <3>1, <3>2, <3>3 DEF EndEntry, ResetFields, SvnTypeOK
  <2>8. LocalsFollowEntry'
    BY <1>1, <1>8 DEF EndEntry, ResetFields, NoFields, LocalsFollowEntry
  <2>9. FilesAreWhole'
    <3>1. \A i \in DOMAIN found :
            \E m \in DOMAIN listed : Whole(m) /\ found[i] = FileOf(m)
      BY <1>1 DEF FilesAreWhole
    <3>2. \A i \in DOMAIN found : found[i]["name"][1] \in 1..(n - 1)
      BY <2>1, <3>1 DEF FileOf, Field, Element
    <3>3. CASE ~Whole(n)'
      <4>1. found' = found
        BY <2>6, <3>3
      <4> QED
        BY <1>1, <2>1, <2>2, <3>3, <4>1 DEF FilesAreWhole, FileOf
    <3>4. CASE Whole(n)'
      <4>0. PICK k \in Nat \ {0} : k = Len(found) + 1
        BY <2>0, LenProperties
      <4>1. /\ DOMAIN found = 1..(k - 1) /\ DOMAIN found' = 1..k
            /\ found'[k] = FileOf(n)
            /\ \A i \in 1..(k - 1) : found'[i] = found[i]
        <5>1. FileOf(n) \in File /\ found' = Append(found, FileOf(n))
          BY <2>d, <2>6, <3>4
        <5>2. /\ DOMAIN found = 1..(k - 1) /\ DOMAIN Append(found, FileOf(n)) = 1..k
              /\ Append(found, FileOf(n))[k] = FileOf(n)
              /\ \A i \in 1..(k - 1) : Append(found, FileOf(n))[i] = found[i]
          BY <2>0, <4>0, <5>1, Appended
        <5> QED
          BY <5>1, <5>2
      <4>2. ASSUME NEW i \in DOMAIN found'
            PROVE  \E m \in DOMAIN listed' : Whole(m)' /\ found'[i] = FileOf(m)
        <5>1. CASE i = k
          BY <2>1, <3>4, <4>1, <5>1
        <5>2. CASE i # k
          <6>1. i \in DOMAIN found /\ found'[i] = found[i]
            BY <4>1, <5>2
          <6> QED
            BY <2>1, <2>2, <3>1, <6>1
        <5> QED
          BY <5>1, <5>2
      <4>3. ASSUME NEW m \in DOMAIN listed', Whole(m)'
            PROVE  \E i \in DOMAIN found' : found'[i] = FileOf(m)
        <5>1. CASE m = n
          BY <4>1, <5>1
        <5>2. CASE m # n
          <6>1. m \in DOMAIN listed /\ Whole(m)
            BY <2>1, <2>2, <4>3, <5>2
          <6>2. PICK i \in DOMAIN found : found[i] = FileOf(m)
            BY <1>1, <6>1 DEF FilesAreWhole
          <6> QED
            BY <4>1, <6>2
        <5> QED
          BY <5>1, <5>2
      <4>4. ASSUME NEW i \in DOMAIN found', NEW j \in DOMAIN found', i < j
            PROVE  found'[i]["name"][1] < found'[j]["name"][1]
        <5>1. i \in DOMAIN found /\ found'[i] = found[i]
          BY <4>1, <4>4
        <5>2. CASE j = k
          <6>1. found'[j]["name"][1] = n
            BY <4>1, <5>2 DEF FileOf, Field, Element
          <6> QED
            BY <2>1, <3>2, <5>1, <6>1
        <5>3. CASE j # k
          BY <1>1, <4>1, <4>4, <5>1, <5>3 DEF FilesAreWhole
        <5> QED
          BY <5>2, <5>3
      <4>5. \A m : FileOf(m)' = FileOf(m)
        BY DEF FileOf
      <4> QED
        BY <4>2, <4>3, <4>4, <4>5 DEF FilesAreWhole
    <3> QED
      BY <3>3, <3>4
  <2> QED
    BY <2>7, <2>8, <2>9 DEF SvnInv
<1> QED
  BY <1>2, <1>3, <1>4, <1>5, <1>6, <1>7, <1>8 DEF SvnNext

(* The reader's locals always are a picture of the entry it is in.         *)
THEOREM SvnInvariant == SvnSpec => []SvnInv
  BY SvnInitInv, SvnStep, PTL DEF SvnSpec

(* The listing is exactly the complete file entries of svn's output, in    *)
(* their order and with their own values.                                  *)
THEOREM ListingIsWhole == SvnSpec => []FilesAreWhole
<1>1. SvnInv => FilesAreWhole
  BY DEF SvnInv
<1> QED
  BY <1>1, SvnInvariant, PTL
=============================================================================
