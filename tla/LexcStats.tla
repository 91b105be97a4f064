----------------------------- MODULE LexcStats -----------------------------
(***************************************************************************)
(* stats/lexc.rs: the stems of a lexc file.  get_stems reads the lines     *)
(* twice, first without those that carry the comment Use/MT, and each pass *)
(* fills a map of its own from lexicons to their pointers and entries; the *)
(* stems are the entries of the lexicons that pointers lead to from Root.  *)
(*                                                                         *)
(* The two passes see the same lines, so a step here reads one line for    *)
(* both of them.                                                           *)
(***************************************************************************)
EXTENDS Naturals, Sequences, FiniteSets, FiniteSetsExt

CONSTANTS
  Lexicons,   \* names, as numbers in the order of the names
  Root,       \* the one called Root
  Words,      \* the entries a file may have, as written
  MaxLines,   \* bound on the lines of a file that begins at Root
  MaxOther,   \* bound on the lines of any other file
  Absent        \* no name, no escaped character, no surface form

(* An entry is "stem CONT ;" or "stem:surface CONT ;", where the stem may  *)
(* have a character escaped by %.                                          *)
Word == [stem : STRING, escaped : STRING \cup {Absent},
         surface : STRING \cup {Absent}, continuation : STRING]

ASSUME LexcAssumption ==
  /\ Lexicons \subseteq Nat /\ IsFiniteSet(Lexicons)
  /\ Root \in Lexicons /\ Absent \notin Lexicons /\ Absent # "\\1"
  /\ Words \subseteq Word
  /\ MaxLines \in Nat /\ MaxOther \in Nat

Pass == {"vanilla", "all"}

VARIABLES
  lines,            \* the lines so far, without blank ones and comments
  current_lexicon,  \* the locals of get_stems: the lexicon of the line
  lexicons,         \* ... and the map each pass fills
  nameless          \* a LEXICON line without a name ended the reading

lexcVars == <<lines, current_lexicon, lexicons, nameless>>

(* What update_lexicons keys an entry by.  ESCAPE_RE.replace_all puts the  *)
(* same two characters \1 for any escaped one.  Of an entry with a colon   *)
(* the "lemma" is all that ENTRY_RE matches, so two surface forms of a stem*)
(* are two entries; KeyOfStem would take its first group.                  *)
LemmaOf(w) == <<w.stem, IF w.escaped = Absent THEN Absent ELSE "\\1">>

KeyOfStem(w) == <<LemmaOf(w), Absent, w.continuation>>
KeyOf(w)     == <<LemmaOf(w), w.surface, w.continuation>>

Key  == {KeyOf(w) : w \in Words}
Line == [is : {"header"}, of : Lexicons \cup {Absent}, mt : BOOLEAN]
          \cup [is : {"pointer"}, of : Lexicons, mt : BOOLEAN]
          \cup [is : {"entry"}, of : Words, mt : BOOLEAN]
          \cup [is : {"rejected"}, of : {Absent}, mt : BOOLEAN]

LexcTypeOK ==
  /\ lines \in Seq(Line)
  /\ current_lexicon \in Lexicons \cup {Absent}
  /\ DOMAIN lexicons = Pass
  /\ \A p \in Pass :
       /\ DOMAIN lexicons[p] \subseteq Lexicons
       /\ \A l \in DOMAIN lexicons[p] :
            lexicons[p][l] \in [pointers : SUBSET Lexicons, entries : SUBSET Key]
  /\ nameless \in BOOLEAN

LexcInit ==
  /\ lines = <<>> /\ current_lexicon = Absent /\ nameless = FALSE
  /\ lexicons = [p \in Pass |-> [l \in {} |-> [pointers |-> {}, entries |-> {}]]]

-----------------------------------------------------------------------------

LineOf(is, of, mt) == [is |-> is, of |-> of, mt |-> mt]

(* With LEXICON Root and a pointer, as lexc files do.                      *)
BeginsAtRoot ==
  /\ Len(lines) >= 2
  /\ lines[1] = LineOf("header", Root, FALSE) /\ lines[2].is = "pointer"

MoreLines == ~nameless /\ Len(lines) < IF BeginsAtRoot THEN MaxLines ELSE MaxOther

Read(is, of, mt) == lines' = Append(lines, LineOf(is, of, mt))

(* LEXICON l: only the name is noted, the lexicon is not put in the map.   *)
ReadHeader(l) ==
  /\ MoreLines
  /\ Read("header", l, FALSE)
  /\ current_lexicon' = l
  /\ UNCHANGED <<lexicons, nameless>>

(* LEXICON alone is an error of the whole file.                            *)
ReadNamelessHeader ==
  /\ MoreLines
  /\ Read("header", Absent, FALSE)
  /\ nameless' = TRUE
  /\ UNCHANGED <<current_lexicon, lexicons>>

(* The lines a pass parses.  SkipsMt swaps the two sides of the condition. *)
SkipsMt(pass, mt) == pass = "vanilla" \/ ~mt
Parses(pass, mt)  == pass = "all" \/ ~mt

(* parse_line: the current lexicon gets another pointer or entry, and is   *)
(* put in the map by its first one.                                        *)
Extended(map, pointers, entries) ==
  LET old == IF current_lexicon \in DOMAIN map THEN map[current_lexicon]
             ELSE [pointers |-> {}, entries |-> {}]
  IN [l \in DOMAIN map \cup {current_lexicon} |->
        IF l = current_lexicon
          THEN [pointers |-> old.pointers \cup pointers, entries |-> old.entries \cup entries]
          ELSE map[l]]

(* Lines before the first LEXICON are not parsed.                          *)
ParseLine(pointers, entries, mt) ==
  lexicons' = [p \in Pass |->
    IF current_lexicon # Absent /\ Parses(p, mt)
      THEN Extended(lexicons[p], pointers, entries) ELSE lexicons[p]]

(* "l ;": a pointer is a line of two tokens.                               *)
ReadPointer(l, mt) ==
  /\ MoreLines
  /\ Read("pointer", l, mt) /\ ParseLine({l}, {}, mt)
  /\ UNCHANGED <<current_lexicon, nameless>>

ReadEntry(w, mt) ==
  /\ MoreLines
  /\ Read("entry", w, mt) /\ ParseLine({}, {KeyOf(w)}, mt)
  /\ UNCHANGED <<current_lexicon, nameless>>

(* A line parse_line has an error for is logged and skipped.               *)
ReadRejected ==
  /\ MoreLines
  /\ Read("rejected", Absent, FALSE)
  /\ UNCHANGED <<current_lexicon, lexicons, nameless>>

LexcNext ==
  \/ \E l \in Lexicons : ReadHeader(l)
  \/ ReadNamelessHeader
  \/ \E mt \in BOOLEAN :
       \/ \E l \in Lexicons : ReadPointer(l, mt)
       \/ \E w \in Words : ReadEntry(w, mt)
  \/ ReadRejected

LexcSpec == LexcInit /\ [][LexcNext]_lexcVars

-----------------------------------------------------------------------------
(* The end of the body *)

(* get_all_lexicons(l), when the calls it makes return what deeper says:   *)
(* the pointers of a lexicon and those of theirs, in the order of their    *)
(* names.  There is an unwrap for a lexicon that is not in the map.        *)
Call(map, l, deeper) ==
  IF l \notin DOMAIN map THEN [is |-> "panic", lexicons |-> {}]
  ELSE LET frontier == map[l].pointers
           fatal == {m \in frontier : deeper[m].is # "ok"}
       IN IF fatal # {} THEN deeper[Min(fatal)]
          ELSE [is |-> "ok",
                lexicons |-> frontier \cup UNION {deeper[m].lexicons : m \in frontier}]

(* The walk from Root.  There is no set of visited lexicons: a chain of    *)
(* more calls than there are lexicons repeats itself until the stack       *)
(* overflows.                                                              *)
Overflow == [is |-> "overflow", lexicons |-> {}]

Collect(map) ==
  LET calls == Cardinality(Lexicons) + 1
      walk[n \in 0..calls] ==
        IF n = 0 THEN [l \in Lexicons |-> Overflow]
        ELSE [l \in Lexicons |-> Call(map, l, walk[n - 1])]
  IN walk[calls][Root]

(* What get_stems makes of a pass; StemsEverywhere would take the entries  *)
(* of every lexicon in the map.                                            *)
StemsEverywhere(map, reached) == UNION {map[l].entries : l \in DOMAIN map}
StemsIn(map, reached)         == UNION {map[l].entries : l \in reached}

StemsOf(pass) ==
  LET map == lexicons[pass]
      walk == Collect(map)
  IN IF nameless \/ Root \notin DOMAIN map THEN [is |-> "err", count |-> 0]
     ELSE IF walk.is # "ok" THEN [is |-> walk.is, count |-> 0]
     ELSE [is |-> "ok", count |-> Cardinality(StemsIn(map, walk.lexicons))]

(* get_stats when the body ends here: the vanilla pass goes first, and the *)
(* other one is made only when it succeeds.                                *)
LexcResult ==
  LET vanilla == StemsOf("vanilla")
      all     == StemsOf("all")
  IN IF vanilla.is # "ok" THEN [is |-> vanilla.is, stats |-> {}]
     ELSE IF all.is # "ok" THEN [is |-> all.is, stats |-> {}]
     ELSE [is |-> "ok",
           stats |-> {<<"VanillaStems", vanilla.count>>, <<"Stems", all.count>>}]

-----------------------------------------------------------------------------
(* What the file says, read off its lines *)

(* The lexicon a line stands in.                                           *)
LexiconOf(i) ==
  LET headers == {j \in 1..(i - 1) : lines[j].is = "header"}
  IN IF headers = {} THEN Absent ELSE lines[Max(headers)].of

(* The lines that say something to a pass, in some lexicon.                *)
Said(pass) ==
  {i \in DOMAIN lines : /\ LexiconOf(i) # Absent
                        /\ lines[i].is \in {"pointer", "entry"}
                        /\ pass = "vanilla" => ~lines[i].mt}

Nonempty(pass) == {LexiconOf(i) : i \in Said(pass)}

(* The lexicons that one or more pointers lead to from a lexicon: those in *)
(* every set of lexicons that no pointer leads out of.                     *)
LeadsTo(pass, from) ==
  LET arcs == {<<LexiconOf(i), lines[i].of>> :
                 i \in {j \in Said(pass) : lines[j].is = "pointer"}}
      closed == {S \in SUBSET Lexicons :
                   \A a \in arcs : a[1] \in S \cup {from} => a[2] \in S}
  IN {l \in Lexicons : \A S \in closed : l \in S}

Reachable(pass) == LeadsTo(pass, Root)

(* The distinct entries of the reachable lexicons, where only the escaped  *)
(* character of an entry does not matter.                                  *)
ReachableWords(pass) ==
  {[lines[i].of EXCEPT !.escaped = @ # Absent] :
     i \in {j \in Said(pass) : lines[j].is = "entry" /\ LexiconOf(j) \in Reachable(pass)}}

Dangles(pass) == ~(Reachable(pass) \subseteq Nonempty(pass))
Cycles(pass)  == \E l \in Reachable(pass) \cup {Root} : l \in LeadsTo(pass, l)

(* The two statistics of a lexc file are the numbers of distinct entries in*)
(* the lexicons that pointers lead to from Root: an entry below two        *)
(* lexicons, or in a lexicon opened twice or reached twice, counts once,   *)
(* and those marked Use/MT only among the Stems.                           *)
StemsAreReachable ==
  LexcResult.is = "ok" =>
    LexcResult.stats = {<<"VanillaStems", Cardinality(ReachableWords("vanilla"))>>,
                        <<"Stems", Cardinality(ReachableWords("all"))>>}

(* When the walk over the lexicons kills its caller: the unwrap only for a *)
(* pointer to a lexicon without a line, the stack only for a cycle that    *)
(* Root leads to, and never without one of them.                           *)
FatalPass(pass) == Root \in Nonempty(pass) /\ (Dangles(pass) \/ Cycles(pass))

DeathIsExplained ==
  LET at == IF FatalPass("vanilla") THEN "vanilla" ELSE "all" IN
  /\ LexcResult.is = "panic"    => Root \in Nonempty(at) /\ Dangles(at)
  /\ LexcResult.is = "overflow" => Root \in Nonempty(at) /\ Cycles(at)
  /\ LexcResult.is \in {"panic", "overflow"} <=>
       /\ ~nameless /\ Root \in Nonempty("vanilla")
       /\ FatalPass("vanilla") \/ FatalPass("all")
=============================================================================
