------------------------------ MODULE XmlStats ------------------------------
(***************************************************************************)
(* stats/xml.rs: the three readers of dictionaries and transfer rules.     *)
(* Each counts start tags while it walks the events of quick_xml, and what *)
(* an <e> or a <pardef> counts for depends on flags that the tags around   *)
(* it set.                                                                 *)
(***************************************************************************)
EXTENDS Naturals, Sequences, SequencesExt, FiniteSets

CONSTANTS
  MaxElements,  \* bound on the elements of a document
  MaxDepth      \* bound on how deep they nest

ASSUME XmlAssumption == MaxElements \in Nat /\ MaxDepth \in Nat

XmlReader == {"monodix", "bidix", "transfer"}

(* The elements the readers look at.  "e lm" is an <e> with an attribute   *)
(* lm, "e" is one without.                                                 *)
Tag == {"section", "pardefs", "pardef", "e", "e lm", "rule", "def-macro"}

(* What is in a document of each sort.                                     *)
Vocabulary(reader) ==
  CASE reader = "monodix"  -> {"section", "pardefs", "pardef", "e", "e lm"}
    [] reader = "bidix"    -> {"section", "pardefs", "e"}
    [] reader = "transfer" -> {"rule", "def-macro"}

VARIABLES
  xml_reader,   \* get_monodix_stats, get_bidix_stats or get_transfer_stats
  elements,     \* the elements so far: their tags and those around them
  open_tags,    \* the elements not ended yet, innermost last
  malformed,    \* the text was found not to be XML
  in_section,   \* the locals of the reader
  in_pardefs,
  tally         \* how often each tag was counted

xmlVars == <<xml_reader, elements, open_tags, malformed, in_section, in_pardefs, tally>>

XmlTypeOK ==
  /\ xml_reader \in XmlReader
  /\ elements \in Seq([tag : Tag, around : SUBSET Tag])
  /\ open_tags \in Seq(Tag)
  /\ malformed \in BOOLEAN /\ in_section \in BOOLEAN /\ in_pardefs \in BOOLEAN
  /\ tally \in [Tag -> Nat]

XmlInit ==
  /\ xml_reader \in XmlReader
  /\ elements = <<>> /\ open_tags = <<>> /\ malformed = FALSE
  /\ in_section = FALSE /\ in_pardefs = FALSE
  /\ tally = [t \in Tag |-> 0]

-----------------------------------------------------------------------------

(* Whether a start tag is counted, by reader.                              *)
Counts(t) ==
  CASE xml_reader = "monodix"  -> \/ in_section /\ t = "e lm"
                                  \/ in_pardefs /\ t = "pardef"
    [] xml_reader = "bidix"    -> in_section /\ t = "e"
    [] xml_reader = "transfer" -> t \in {"rule", "def-macro"}

(* The formats have sections and pardefs side by side below the root.      *)
Allowed(t) ==
  /\ t \in Vocabulary(xml_reader)
  /\ t \in {"section", "pardefs"} => ToSet(open_tags) \cap {"section", "pardefs"} = {}

StartTag(t) ==
  /\ ~malformed /\ Allowed(t)
  /\ Len(elements) < MaxElements /\ Len(open_tags) < MaxDepth
  /\ elements' = Append(elements, [tag |-> t, around |-> ToSet(open_tags)])
  /\ open_tags' = Append(open_tags, t)
  /\ in_section' = (in_section \/ t = "section")
  /\ in_pardefs' = (in_pardefs \/ (xml_reader = "monodix" /\ t = "pardefs"))
  /\ tally' = [tally EXCEPT ![t] = IF Counts(t) THEN @ + 1 ELSE @]
  /\ UNCHANGED <<xml_reader, malformed>>

(* The flags after the end tag of t; KeepSection would leave in_section.   *)
KeepSection(t)  == in_section
LeaveSection(t) == in_section /\ t # "section"

EndTag ==
  /\ ~malformed /\ open_tags # <<>>
  /\ open_tags' = Front(open_tags)
  /\ in_section' = LeaveSection(Last(open_tags))
  /\ in_pardefs' = (in_pardefs /\ Last(open_tags) # "pardefs")
  /\ UNCHANGED <<xml_reader, elements, malformed, tally>>

(* quick_xml reports an error, such as an end tag that matches no start:   *)
(* what was counted is dropped with the body.                              *)
XmlError ==
  /\ ~malformed
  /\ malformed' = TRUE
  /\ UNCHANGED <<xml_reader, elements, open_tags, in_section, in_pardefs, tally>>

XmlNext == (\E t \in Tag : StartTag(t)) \/ EndTag \/ XmlError

XmlSpec == XmlInit /\ [][XmlNext]_xmlVars

(* What the reader returns when the body ends here; quick_xml does not mind*)
(* elements that are still open.                                           *)
XmlResult ==
  IF malformed THEN [is |-> "err", stats |-> {}]
  ELSE [is |-> "ok",
        stats |-> CASE xml_reader = "monodix" ->
                         {<<"Stems", tally["e lm"]>>, <<"Paradigms", tally["pardef"]>>}
                    [] xml_reader = "bidix" ->
                         {<<"Entries", tally["e"]>>}
                    [] xml_reader = "transfer" ->
                         {<<"Rules", tally["rule"]>>, <<"Macros", tally["def-macro"]>>}]

-----------------------------------------------------------------------------

NumberOf(tag, around) ==
  Cardinality({i \in DOMAIN elements :
    elements[i].tag = tag /\ around \subseteq elements[i].around})

(* What a dictionary or a rule file has, whatever the flags say: entries   *)
(* that lie in a section, paradigms that lie in the pardefs, rules and     *)
(* macros anywhere.  The entries inside a paradigm are no stems, however   *)
(* many sections and pardefs follow each other.                            *)
XmlCountsInContext ==
  XmlResult.is = "ok" =>
    XmlResult.stats =
      CASE xml_reader = "monodix"  -> {<<"Stems", NumberOf("e lm", {"section"})>>,
                                       <<"Paradigms", NumberOf("pardef", {"pardefs"})>>}
        [] xml_reader = "bidix"    -> {<<"Entries", NumberOf("e", {"section"})>>}
        [] xml_reader = "transfer" -> {<<"Rules", NumberOf("rule", {})>>,
                                       <<"Macros", NumberOf("def-macro", {})>>}
=============================================================================
