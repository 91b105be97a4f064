------------------------------ MODULE MCReaders ------------------------------
(***************************************************************************)
(* Small instances of Readers: the names, words and lexicons of a run.     *)
(***************************************************************************)
EXTENDS Readers

Stem(escaped, surface) ==
  [stem |-> "a", escaped |-> escaped, surface |-> surface, continuation |-> "N1"]

(* Two entries that differ in the escaped character only, and one with a   *)
(* surface form.                                                           *)
ThreeWords == {Stem("<", Absent), Stem(">", Absent), Stem("<", "b")}

ThreeLexicons == 1..3

AnySource == {"svn list", "path", "Monodix", "Postdix", "Transfer", "Lexc",
              "Rlx", "Twol", "Lexd"}
=============================================================================
