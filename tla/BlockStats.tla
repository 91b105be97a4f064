----------------------------- MODULE BlockStats -----------------------------
(***************************************************************************)
(* The readers that make one pass over the top level of a file: stats/lexd *)
(* and stats/rlx over the children of the root of a tree-sitter tree, the  *)
(* branch for twol in stats/mod over the lines.  The grammars are not part *)
(* of the service; a body is the sequence of those children.               *)
(***************************************************************************)
EXTENDS Naturals, Sequences, FiniteSets

CONSTANTS
  BlockNames,   \* identifiers of lexicons and patterns
  MaxBlocks,    \* bound on the children of the root
  MaxInBlock    \* bound on the lines of a block

(* What the patterns of a PATTERNS block go by.                            *)
Anonymous == ""

ASSUME BlockAssumption ==
  Anonymous \notin BlockNames /\ MaxBlocks \in Nat /\ MaxInBlock \in Nat

(* What may stand at the top level: a lexd block with its name and number  *)
(* of lines, where PATTERNS opens a block that goes by Anonymous; a rule   *)
(* of a constraint grammar, plain or of a kind rule_*; a line of a twol    *)
(* file that starts with a quote; anything else.                           *)
Block == [is : {"pattern_block"}, name : BlockNames \cup {Anonymous}, size : 0..MaxInBlock]
           \cup [is : {"lexicon_block"}, name : BlockNames, size : 0..MaxInBlock]
           \cup [is : {"rule", "rule_", "quoted", "other"}, name : {Anonymous}, size : {0}]

VARIABLES
  blocks,        \* the body so far
  names,         \* patterns and lexicons of lexd.rs
  block_entries, \* pat_entries and lex_entries of lexd.rs
  rules          \* rules of rlx.rs and rule_count of mod.rs

blockVars == <<blocks, names, block_entries, rules>>

LexdBlock == {"pattern_block", "lexicon_block"}

BlockTypeOK ==
  /\ blocks \in Seq(Block)
  /\ names \in [LexdBlock -> SUBSET (BlockNames \cup {Anonymous})]
  /\ block_entries \in [LexdBlock -> Nat]
  /\ rules \in [{"Rlx", "Twol"} -> Nat]

BlockInit ==
  /\ blocks = <<>>
  /\ names = [k \in LexdBlock |-> {}]
  /\ block_entries = [k \in LexdBlock |-> 0]
  /\ rules = [k \in {"Rlx", "Twol"} |-> 0]

-----------------------------------------------------------------------------

(* The names after a block; LastName would keep that of one block only.    *)
LastName(k, name) == [names EXCEPT ![k] = {name}]
AddName(k, name)  == [names EXCEPT ![k] = @ \cup {name}]

(* A pattern or lexicon block of a lexd file.                              *)
ReadLexd(b) ==
  /\ b.is \in LexdBlock
  /\ names' = AddName(b.is, b.name)
  /\ block_entries' = [block_entries EXCEPT ![b.is] = @ + b.size]
  /\ UNCHANGED rules

(* A rule, for the reader that takes it for one.                           *)
ReadRule(b) ==
  /\ b.is \in {"rule", "rule_", "quoted"}
  /\ rules' = [rules EXCEPT ![IF b.is = "quoted" THEN "Twol" ELSE "Rlx"] = @ + 1]
  /\ UNCHANGED <<names, block_entries>>

ReadOther(b) == b.is = "other" /\ UNCHANGED <<names, block_entries, rules>>

ReadBlock(b) ==
  /\ Len(blocks) < MaxBlocks
  /\ blocks' = Append(blocks, b)
  /\ ReadLexd(b) \/ ReadRule(b) \/ ReadOther(b)

BlockNext == \E b \in Block : ReadBlock(b)

BlockSpec == BlockInit /\ [][BlockNext]_blockVars

LexdStats ==
  {<<"Lexicons", Cardinality(names["lexicon_block"])>>,
   <<"LexiconEntries", block_entries["lexicon_block"]>>,
   <<"Patterns", Cardinality(names["pattern_block"])>>,
   <<"PatternEntries", block_entries["pattern_block"]>>}

-----------------------------------------------------------------------------

(* The blocks of a kind, the first one of each name, and all their lines.   *)
BlocksOf(k)    == {i \in DOMAIN blocks : blocks[i].is = k}
FirstBlocks(k) == {i \in BlocksOf(k) :
                     \A j \in BlocksOf(k) : j < i => blocks[j].name # blocks[i].name}
BlockLines(k)  == {x \in BlocksOf(k) \X (1..MaxInBlock) : x[2] <= blocks[x[1]].size}

(* lexd lets a lexicon or pattern go on in a later block: a name counts    *)
(* once however its blocks are interleaved with others, its lines all of   *)
(* them, and all anonymous PATTERNS are one pattern.                       *)
BlocksCountOnce ==
  LexdStats = {<<"Lexicons", Cardinality(FirstBlocks("lexicon_block"))>>,
               <<"LexiconEntries", Cardinality(BlockLines("lexicon_block"))>>,
               <<"Patterns", Cardinality(FirstBlocks("pattern_block"))>>,
               <<"PatternEntries", Cardinality(BlockLines("pattern_block"))>>}
=============================================================================
