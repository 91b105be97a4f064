------------------------------- MODULE Readers -------------------------------
(***************************************************************************)
(* Where texts from outside enter the service: svn list's output, the name *)
(* in a request's path, and the body of a file, which get_file_stats of    *)
(* stats/mod.rs hands to the reader of its kind.  Each is read by a loop   *)
(* of its own over nothing but that text, so a behaviour here is that of   *)
(* one of them.                                                            *)
(***************************************************************************)
EXTENDS SvnList, PackageNames, XmlStats, LexcStats, BlockStats

CONSTANT Sources   \* which of them a run reads

FileKind == {"Monodix", "MetaMonodix", "Bidix", "MetaBidix", "Postdix", "Transfer",
             "Rlx", "Twol", "Lexc", "Lexd"}

ASSUME ReadersAssumption == Sources \subseteq FileKind \cup {"svn list", "path"}

VARIABLE source

readersVars == <<source, svnVars, package_names, xmlVars, lexcVars, blockVars>>

(* The match over file_kind.                                               *)
XmlReaderOf(kind) ==
  CASE kind \in {"Monodix", "MetaMonodix"}        -> "monodix"
    [] kind \in {"Bidix", "MetaBidix", "Postdix"} -> "bidix"
    [] OTHER                                      -> "transfer"

XmlKinds   == {"Monodix", "MetaMonodix", "Bidix", "MetaBidix", "Postdix", "Transfer"}
BlockKinds == {"Rlx", "Twol", "Lexd"}

StatsOf(kind) ==
  CASE kind \in XmlKinds -> XmlResult
    [] kind = "Lexc"     -> LexcResult
    [] kind = "Lexd"     -> [is |-> "ok", stats |-> LexdStats]
    [] kind \in {"Rlx", "Twol"} -> [is |-> "ok", stats |-> {<<"Rules", rules[kind]>>}]

Init ==
  /\ source \in Sources
  /\ SvnInit /\ NamesInit /\ XmlInit /\ LexcInit /\ BlockInit
  /\ xml_reader = XmlReaderOf(source)

Next ==
  /\ UNCHANGED source
  /\ \/ source = "svn list" /\ SvnNext /\ UNCHANGED <<package_names, xmlVars, lexcVars, blockVars>>
     \/ source = "path" /\ NamesNext /\ UNCHANGED <<svnVars, xmlVars, lexcVars, blockVars>>
     \/ source \in XmlKinds /\ XmlNext /\ UNCHANGED <<svnVars, package_names, lexcVars, blockVars>>
     \/ source = "Lexc" /\ LexcNext /\ UNCHANGED <<svnVars, package_names, xmlVars, blockVars>>
     \/ source \in BlockKinds /\ BlockNext /\ UNCHANGED <<svnVars, package_names, xmlVars, lexcVars>>

Spec == Init /\ [][Next]_readersVars

-----------------------------------------------------------------------------

(* Every reader's locals have their types; a file of the listing has all   *)
(* five fields, which the unwrapping of the Options depends on.            *)
TypeOK == SvnTypeOK /\ NamesTypeOK /\ XmlTypeOK /\ LexcTypeOK /\ BlockTypeOK

(* models.rs on FileKind: "Lexc, // emits Stems, VanillaStems".  A lexc    *)
(* file that is sound - Root has a line without Use/MT, and leads to       *)
(* lexicons with lines only and never back to one of them - has both.      *)
SoundLexc ==
  /\ source = "Lexc" /\ ~nameless
  /\ Root \in Nonempty("vanilla") /\ ~Dangles("all") /\ ~Cycles("all")

LexcEmitsAsDocumented ==
  SoundLexc => {x[1] : x \in StatsOf("Lexc").stats} = {"Stems", "VanillaStems"}
=============================================================================
