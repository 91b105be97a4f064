---------------------------- MODULE ReaderProofs ----------------------------
(***************************************************************************)
(* Proofs about the readers of texts from outside: the keys of packages,   *)
(* the counts of XML files and those of lexd files, for names, documents   *)
(* and files of any size; and what these, with SvnListProofs and           *)
(* LexcProofs, say of the readers together.                                *)
(***************************************************************************)
EXTENDS Readers, SvnListProofs, LexcProofs

-----------------------------------------------------------------------------
(* PackageNames                                                            *)

LEMMA ListedAreNames == NamesSpec => []NamesTypeOK
<1>1. NamesInit => NamesTypeOK
  BY DEF NamesInit, NamesTypeOK
<1>2. NamesTypeOK /\ [NamesNext]_package_names => NamesTypeOK'
  BY DEF NamesTypeOK, NamesNext, Relist, kSubset
<1> QED
  BY <1>1, <1>2, PTL DEF NamesSpec

(* Two spellings of a language are each other's conversion.                *)
LEMMA SpellingsConvert ==
  ASSUME NEW c \in Code, NEW d \in Code, c.of = d.of, c.letters # d.letters
  PROVE  ConvertCode(d) = c /\ d.of \in TwoLetter
  BY DEF Code, ConvertCode

LEMMA NameShapes ==
  ASSUME NEW name \in Name, name # <<>>
  PROVE  \/ \E c \in Code : name = <<c>>
         \/ \E c \in Code, d \in Code : name = <<c, d>>
  BY DEF Name

LEMMA OtherConverts ==
  ASSUME NEW name \in Name, NEW other \in Name, OtherSpelling(name, other)
  PROVE  Convertible(other) /\ Convert(other) = name
<1>1. name # <<>> /\ Len(name) = Len(other)
  BY DEF OtherSpelling, WellFormed
<1>2. CASE \E c \in Code : name = <<c>>
  <2>1. PICK c \in Code : name = <<c>>
    BY <1>2
  <2>2. PICK d \in Code : other = <<d>>
    BY <1>1, <2>1, NameShapes
  <2>3. c.of = d.of /\ c.letters # d.letters
    BY <2>1, <2>2 DEF OtherSpelling
  <2>4. ConvertCode(d) = c /\ d.of \in TwoLetter
    BY <2>3, SpellingsConvert
  <2> QED
    BY <2>1, <2>2, <2>4 DEF Convertible, Convert, WellFormed
<1>3. CASE \E c \in Code, d \in Code : name = <<c, d>>
  <2>1. PICK a \in Code, b \in Code : name = <<a, b>>
    BY <1>3
  <2>2. PICK c \in Code, d \in Code : other = <<c, d>>
    <3>1. Len(other) = 2
      BY <1>1, <2>1
    <3>2. other # <<>>
      BY <3>1
    <3>3. ASSUME NEW c \in Code, other = <<c>>
          PROVE  FALSE
      BY <3>1, <3>3
    <3> QED
      BY <3>2, <3>3, NameShapes
  <2>3. a.of = c.of /\ a.letters # c.letters /\ b.of = d.of /\ b.letters # d.letters
    BY <2>1, <2>2 DEF OtherSpelling
  <2>4. /\ ConvertCode(c) = a /\ c.of \in TwoLetter
        /\ ConvertCode(d) = b /\ d.of \in TwoLetter
    BY <2>3, SpellingsConvert
  <2> QED
    BY <2>1, <2>2, <2>4 DEF Convertible, Convert, WellFormed
<1> QED
  BY <1>1, <1>2, <1>3, NameShapes

(* Whichever of its two spellings is listed, a package has one key.        *)
THEOREM SpellingsAreOneKey == NamesSpec => []SpellingsMeet
<1>1. NamesTypeOK => SpellingsMeet
  BY OtherConverts DEF NamesTypeOK, SpellingsMeet, NormalizeName
<1> QED
  BY <1>1, ListedAreNames, PTL

(* The listing may change in any way: a path moves from a listed key to    *)
(* another one only when its own name is listed.                           *)
THEOREM KeysAreKept == NamesSpec => KeepsItsKey
<1>1. NamesTypeOK /\ [NamesNext]_package_names => [KeyIsKept]_package_names
  BY NamesAssumption DEF NamesTypeOK, KeyIsKept, NormalizeName
<1> QED
  BY <1>1, ListedAreNames, PTL DEF NamesSpec, KeepsItsKey

-----------------------------------------------------------------------------
(* BlockStats                                                              *)

(* What the locals of lexd.rs are after the blocks so far.                 *)
LexdCounted(k) ==
  /\ IsFiniteSet(FirstBlocks(k)) /\ IsFiniteSet(BlockLines(k)) /\ IsFiniteSet(names[k])
  /\ names[k] = {blocks[i].name : i \in BlocksOf(k)}
  /\ Cardinality(names[k]) = Cardinality(FirstBlocks(k))
  /\ block_entries[k] = Cardinality(BlockLines(k))

BlockInv == BlockTypeOK /\ \A k \in LexdBlock : LexdCounted(k)

LEMMA FieldsOf ==
  ASSUME NEW K, NEW N, NEW S, NEW b \in [is : K, name : N, size : S]
  PROVE  b.name \in N /\ b.size \in S
  OBVIOUS

LEMMA BlockFields ==
  ASSUME NEW b \in Block
  PROVE  b.name \in BlockNames \cup {Anonymous} /\ b.size \in Nat /\ b.size <= MaxInBlock
<1>1. CASE b \in [is : {"pattern_block"}, name : BlockNames \cup {Anonymous}, size : 0..MaxInBlock]
  <2>1. b.name \in BlockNames \cup {Anonymous} /\ b.size \in 0..MaxInBlock
    BY <1>1, FieldsOf
  <2> QED
    BY <2>1, BlockAssumption
<1>2. CASE b \in [is : {"lexicon_block"}, name : BlockNames, size : 0..MaxInBlock]
  <2>1. b.name \in BlockNames /\ b.size \in 0..MaxInBlock
    BY <1>2, FieldsOf
  <2> QED
    BY <2>1, BlockAssumption
<1>3. CASE b \in [is : {"rule", "rule_", "quoted", "other"}, name : {Anonymous}, size : {0}]
  <2>1. b.name \in {Anonymous} /\ b.size \in {0}
    BY <1>3, FieldsOf
  <2> QED
    BY <2>1, BlockAssumption
<1> QED
  BY <1>1, <1>2, <1>3 DEF Block

(* A tally that is raised under one of its keys.                           *)
LEMMA Raised ==
  ASSUME NEW A, NEW count \in [A -> Nat], NEW k \in A, NEW n \in Nat
  PROVE  /\ [count EXCEPT ![k] = @ + n] \in [A -> Nat]
         /\ [count EXCEPT ![k] = @ + n][k] = count[k] + n
         /\ \A j \in A : j # k => [count EXCEPT ![k] = @ + n][j] = count[j]
  OBVIOUS

(* One more block at the end of the body.                                  *)
LEMMA BlockAppended ==
  ASSUME BlockTypeOK, NEW b \in Block, ReadBlock(b), NEW m, m = Len(blocks) + 1
  PROVE  /\ blocks' \in Seq(Block)
         /\ m \in Nat /\ m \notin DOMAIN blocks
         /\ DOMAIN blocks' = DOMAIN blocks \cup {m} /\ blocks'[m] = b
         /\ \A i \in DOMAIN blocks : i \in Nat /\ i < m /\ blocks'[i] = blocks[i]
<1>1. blocks \in Seq(Block) /\ blocks' = Append(blocks, b)
  BY DEF BlockTypeOK, ReadBlock
<1>2. /\ Append(blocks, b) \in Seq(Block)
      /\ Len(Append(blocks, b)) = Len(blocks) + 1
      /\ \A i \in 1..Len(blocks) : Append(blocks, b)[i] = blocks[i]
      /\ Append(blocks, b)[Len(blocks) + 1] = b
  BY <1>1, AppendProperties
<1>3. Len(blocks) \in Nat /\ DOMAIN blocks = 1..Len(blocks)
      /\ DOMAIN blocks' = 1..Len(blocks')
  BY <1>1, <1>2, LenProperties
<1>4. Len(blocks') = m
  BY <1>1, <1>2
<1> QED
  BY <1>1, <1>2, <1>3, <1>4

LEMMA BlockTypeStep == BlockTypeOK /\ [BlockNext]_blockVars => BlockTypeOK'
<1> SUFFICES ASSUME BlockTypeOK, [BlockNext]_blockVars PROVE BlockTypeOK'
  OBVIOUS
<1>1. ASSUME NEW b \in Block, ReadBlock(b)
      PROVE  BlockTypeOK'
  <2>1. blocks' \in Seq(Block)
    <3>1. PICK m : m = Len(blocks) + 1
      OBVIOUS
    <3> QED
      BY <1>1, <3>1, BlockAppended
  <2>2. CASE ReadLexd(b)
    <3>1. b.is \in LexdBlock /\ b.name \in BlockNames \cup {Anonymous} /\ b.size \in Nat
      BY <2>2, BlockFields DEF ReadLexd
    <3>2. PICK k : k = b.is
      OBVIOUS
    <3>3. /\ names' = [names EXCEPT ![k] = @ \cup {b.name}]
          /\ block_entries' = [block_entries EXCEPT ![k] = @ + b.size]
          /\ rules' = rules
      BY <2>2, <3>2 DEF ReadLexd, AddName
    <3>4. names' \in [LexdBlock -> SUBSET (BlockNames \cup {Anonymous})]
      BY <3>1, <3>2, <3>3 DEF BlockTypeOK
    <3>5. block_entries' \in [LexdBlock -> Nat]
      BY <3>1, <3>2, <3>3, Raised DEF BlockTypeOK
    <3> QED
      BY <2>1, <3>3, <3>4, <3>5 DEF BlockTypeOK
  <2>3. CASE ReadRule(b)
    <3>1. PICK r : r = IF b.is = "quoted" THEN "Twol" ELSE "Rlx"
      OBVIOUS
    <3>2. rules' = [rules EXCEPT ![r] = @ + 1]
      BY <2>3, <3>1 DEF ReadRule
    <3>3. rules' \in [{"Rlx", "Twol"} -> Nat]
      <4>1. r \in {"Rlx", "Twol"} /\ rules \in [{"Rlx", "Twol"} -> Nat] /\ 1 \in Nat
        BY <3>1 DEF BlockTypeOK
      <4> QED
        BY <3>2, <4>1, Raised
    <3> QED
      BY <2>1, <2>3, <3>3 DEF ReadRule, BlockTypeOK
  <2>4. CASE ReadOther(b)
    BY <2>1, <2>4 DEF ReadOther, BlockTypeOK
  <2> QED
    BY <1>1, <2>2, <2>3, <2>4 DEF ReadBlock
<1>2. CASE UNCHANGED blockVars
  BY <1>2 DEF blockVars, BlockTypeOK
<1> QED
  BY <1>1, <1>2 DEF BlockNext

(* It leaves what another kind of block is about.                          *)
LEMMA OtherBlock ==
  ASSUME BlockTypeOK, NEW b \in Block, ReadBlock(b), NEW k \in LexdBlock, b.is # k
  PROVE  /\ BlocksOf(k)' = BlocksOf(k)
         /\ FirstBlocks(k)' = FirstBlocks(k)
         /\ BlockLines(k)' = BlockLines(k)
         /\ names'[k] = names[k] /\ block_entries'[k] = block_entries[k]
<1>1. PICK m : m = Len(blocks) + 1
  OBVIOUS
<1>2. BlocksOf(k)' = BlocksOf(k)
  <2>1. /\ DOMAIN blocks' = DOMAIN blocks \cup {m} /\ blocks'[m] = b
        /\ \A i \in DOMAIN blocks : blocks'[i] = blocks[i]
    BY <1>1, BlockAppended
  <2> QED
    BY <2>1 DEF BlocksOf
<1>3. \A i \in BlocksOf(k) : blocks'[i] = blocks[i]
  BY <1>1, BlockAppended DEF BlocksOf
<1>4. FirstBlocks(k)' = FirstBlocks(k)
  BY <1>2, <1>3 DEF FirstBlocks
<1>5. BlockLines(k)' = BlockLines(k)
  BY <1>2, <1>3 DEF BlockLines
<1>6. names'[k] = names[k] /\ block_entries'[k] = block_entries[k]
  BY DEF BlockTypeOK, ReadBlock, ReadLexd, ReadRule, ReadOther, AddName
<1> QED
  BY <1>2, <1>4, <1>5, <1>6

(* What a lexicon or pattern block adds.                                   *)
LEMMA LexdBlockAdded ==
  ASSUME BlockTypeOK, NEW b \in Block, ReadBlock(b), NEW k \in LexdBlock, b.is = k,
         LexdCounted(k), NEW m, m = Len(blocks) + 1
  PROVE  /\ BlocksOf(k)' = BlocksOf(k) \cup {m}
         /\ FirstBlocks(k)' =
              IF b.name \in names[k] THEN FirstBlocks(k) ELSE FirstBlocks(k) \cup {m}
         /\ BlockLines(k)' = BlockLines(k) \cup ({m} \X (1..b.size))
         /\ names'[k] = names[k] \cup {b.name}
         /\ block_entries'[k] = block_entries[k] + b.size
<1>1. BlocksOf(k)' = BlocksOf(k) \cup {m}
  BY BlockAppended DEF BlocksOf
<1>2. /\ \A i \in BlocksOf(k) : i \in Nat /\ i < m /\ blocks'[i] = blocks[i]
      /\ blocks'[m] = b /\ m \notin BlocksOf(k) /\ m \in Nat
  BY BlockAppended DEF BlocksOf
<1>3. \A i \in BlocksOf(k) : i \in FirstBlocks(k)' <=> i \in FirstBlocks(k)
  BY <1>1, <1>2 DEF FirstBlocks
<1>4. m \in FirstBlocks(k)' <=> b.name \notin names[k]
  <2>1. names[k] = {blocks[i].name : i \in BlocksOf(k)}
    BY DEF LexdCounted
  <2> QED
    BY <1>1, <1>2, <2>1 DEF FirstBlocks
<1>5. FirstBlocks(k) \subseteq BlocksOf(k) /\ FirstBlocks(k)' \subseteq BlocksOf(k)'
  BY DEF FirstBlocks
<1>6. FirstBlocks(k)' = IF b.name \in names[k] THEN FirstBlocks(k) ELSE FirstBlocks(k) \cup {m}
  <2> DEFINE first == FirstBlocks(k)
             first_ == FirstBlocks(k)'
             of == BlocksOf(k)
  <2>1. first \subseteq of /\ first_ \subseteq of \cup {m} /\ m \notin of
    BY <1>1, <1>2, <1>5
  <2>2. \A i \in of : i \in first_ <=> i \in first
    BY <1>3
  <2>3. m \in first_ <=> b.name \notin names[k]
    BY <1>4
  <2> HIDE DEF first, first_, of
  <2>4. first_ = IF b.name \in names[k] THEN first ELSE first \cup {m}
    <3>1. CASE b.name \in names[k]
      <4>1. \A i : i \in first_ <=> i \in first
        BY <2>1, <2>2, <2>3, <3>1
      <4> QED
        BY <3>1, <4>1
    <3>2. CASE b.name \notin names[k]
      <4>1. \A i : i \in first_ <=> i \in first \cup {m}
        BY <2>1, <2>2, <2>3, <3>2
      <4> QED
        BY <3>2, <4>1
    <3> QED
      BY <3>1, <3>2
  <2> QED
    BY <2>4 DEF first, first_
<1>7. b.size \in Nat /\ b.size <= MaxInBlock /\ MaxInBlock \in Nat
  BY BlockFields, BlockAssumption
<1>8. BlockLines(k)' = BlockLines(k) \cup ({m} \X (1..b.size))
  <2>1. \A i, n : <<i, n>> \in BlockLines(k)' <=>
          i \in BlocksOf(k)' /\ n \in 1..MaxInBlock /\ n <= blocks'[i].size
    BY DEF BlockLines
  <2>2. \A i, n : <<i, n>> \in BlockLines(k) <=>
          i \in BlocksOf(k) /\ n \in 1..MaxInBlock /\ n <= blocks[i].size
    BY DEF BlockLines
  <2>3. \A i, n : <<i, n>> \in BlockLines(k)' <=>
          <<i, n>> \in BlockLines(k) \/ <<i, n>> \in {m} \X (1..b.size)
    <3> SUFFICES ASSUME NEW i, NEW n
                 PROVE  <<i, n>> \in BlockLines(k)' <=>
                          <<i, n>> \in BlockLines(k) \/ <<i, n>> \in {m} \X (1..b.size)
      OBVIOUS
    <3>1. CASE i = m
      <4>1. <<i, n>> \in BlockLines(k)' <=> n \in 1..MaxInBlock /\ n <= b.size
        BY <1>1, <1>2, <2>1, <3>1
      <4>2. <<i, n>> \notin BlockLines(k)
        BY <1>2, <2>2, <3>1
      <4>3. <<i, n>> \in {m} \X (1..b.size) <=> n \in 1..b.size
        BY <3>1
      <4> QED
        BY <1>7, <4>1, <4>2, <4>3
    <3>2. CASE i # m
      <4>1. i \in BlocksOf(k)' <=> i \in BlocksOf(k)
        BY <1>1, <3>2
      <4>2. i \in BlocksOf(k) => blocks'[i] = blocks[i]
        BY <1>2
      <4>3. <<i, n>> \notin {m} \X (1..b.size)
        BY <3>2
      <4> QED
        BY <2>1, <2>2, <4>1, <4>2, <4>3
    <3> QED
      BY <3>1, <3>2
  <2>4. /\ \A x \in BlockLines(k)' : \E i, n : x = <<i, n>>
        /\ \A x \in BlockLines(k) \cup ({m} \X (1..b.size)) : \E i, n : x = <<i, n>>
    BY DEF BlockLines
  <2> QED
    BY <2>3, <2>4
<1>9. names'[k] = names[k] \cup {b.name} /\ block_entries'[k] = block_entries[k] + b.size
  BY DEF BlockTypeOK, ReadBlock, ReadLexd, ReadRule, ReadOther, AddName, LexdBlock
<1> QED
  BY <1>1, <1>6, <1>8, <1>9

LEMMA LexdCountedStep ==
  ASSUME BlockTypeOK, NEW k \in LexdBlock, LexdCounted(k), [BlockNext]_blockVars
  PROVE  LexdCounted(k)'
<1>1. ASSUME NEW b \in Block, ReadBlock(b), b.is # k
      PROVE  LexdCounted(k)'
  <2>1. /\ BlocksOf(k)' = BlocksOf(k) /\ FirstBlocks(k)' = FirstBlocks(k)
        /\ BlockLines(k)' = BlockLines(k)
        /\ names'[k] = names[k] /\ block_entries'[k] = block_entries[k]
    BY <1>1, OtherBlock
  <2>2. \A i \in BlocksOf(k) : blocks'[i] = blocks[i]
    <3>1. PICK m : m = Len(blocks) + 1
      OBVIOUS
    <3> QED
      BY <1>1, <3>1, BlockAppended DEF BlocksOf
  <2>3. {blocks'[i].name : i \in BlocksOf(k)'} = {blocks[i].name : i \in BlocksOf(k)}
    BY <2>1, <2>2
  <2> QED
    BY <2>1, <2>3 DEF LexdCounted
<1>2. ASSUME NEW b \in Block, ReadBlock(b), b.is = k
      PROVE  LexdCounted(k)'
  <2>1. PICK m : m = Len(blocks) + 1
    OBVIOUS
  <2>2. /\ BlocksOf(k)' = BlocksOf(k) \cup {m}
        /\ FirstBlocks(k)' =
             IF b.name \in names[k] THEN FirstBlocks(k) ELSE FirstBlocks(k) \cup {m}
        /\ BlockLines(k)' = BlockLines(k) \cup ({m} \X (1..b.size))
        /\ names'[k] = names[k] \cup {b.name}
        /\ block_entries'[k] = block_entries[k] + b.size
    <3>1. BlocksOf(k)' = BlocksOf(k) \cup {m}
      BY <1>2, <2>1, LexdBlockAdded
    <3>2. FirstBlocks(k)' =
             IF b.name \in names[k] THEN FirstBlocks(k) ELSE FirstBlocks(k) \cup {m}
      BY <1>2, <2>1, LexdBlockAdded
    <3>3. BlockLines(k)' = BlockLines(k) \cup ({m} \X (1..b.size))
      BY <1>2, <2>1, LexdBlockAdded
    <3>4. names'[k] = names[k] \cup {b.name}
      BY <1>2, <2>1, LexdBlockAdded
    <3>5. block_entries'[k] = block_entries[k] + b.size
      BY <1>2, <2>1, LexdBlockAdded
    <3> QED
      BY <3>1, <3>2, <3>3, <3>4, <3>5
  <2>3. /\ m \notin BlocksOf(k) /\ blocks'[m] = b
        /\ \A i \in BlocksOf(k) : blocks'[i] = blocks[i]
    BY <1>2, <2>1, BlockAppended DEF BlocksOf
  <2>4. names'[k] = {blocks'[i].name : i \in BlocksOf(k)'}
    BY <2>2, <2>3 DEF LexdCounted
  <2>5. b.size \in Nat
    BY <1>2, BlockFields
  <2>6. /\ IsFiniteSet({m} \X (1..b.size)) /\ Cardinality({m} \X (1..b.size)) = b.size
    <3>1. /\ IsFiniteSet({m}) /\ Cardinality({m}) = 1
          /\ IsFiniteSet(1..b.size) /\ Cardinality(1..b.size) = b.size
      <4>1. IsFiniteSet({m}) /\ Cardinality({m}) = 1
        BY FS_Singleton
      <4>2. /\ IsFiniteSet(1..b.size)
            /\ Cardinality(1..b.size) = IF 1 > b.size THEN 0 ELSE b.size - 1 + 1
        BY <2>5, FS_Interval
      <4> QED
        BY <2>5, <4>1, <4>2
    <3>2. /\ IsFiniteSet({m} \X (1..b.size))
          /\ Cardinality({m} \X (1..b.size)) = Cardinality({m}) * Cardinality(1..b.size)
      BY <3>1, FS_Product
    <3> QED
      BY <2>5, <3>1, <3>2
  <2>7. BlockLines(k) \cap ({m} \X (1..b.size)) = {}
    BY <2>3 DEF BlockLines
  <2>8. /\ IsFiniteSet(BlockLines(k)')
        /\ Cardinality(BlockLines(k)') = Cardinality(BlockLines(k)) + b.size
    <3> DEFINE old == BlockLines(k)
               new == {m} \X (1..b.size)
    <3>1. IsFiniteSet(old) /\ old \cap new = {}
      BY <2>7 DEF LexdCounted
    <3>2. BlockLines(k)' = old \cup new /\ IsFiniteSet(new) /\ Cardinality(new) = b.size
      BY <2>2, <2>6
    <3> HIDE DEF old, new
    <3>3. Cardinality(old) \in Nat /\ Cardinality({}) = 0
      BY <3>1, FS_CardinalityType, FS_EmptySet
    <3>4. /\ IsFiniteSet(old \cup new)
          /\ Cardinality(old \cup new) = Cardinality(old) + Cardinality(new) - Cardinality({})
      BY <3>1, <3>2, FS_Union
    <3>5. IsFiniteSet(BlockLines(k)') /\ Cardinality(BlockLines(k)') = Cardinality(old) + b.size
      BY <2>5, <3>2, <3>3, <3>4
    <3> QED
      BY <3>5 DEF old
  <2>9. /\ IsFiniteSet(FirstBlocks(k)') /\ IsFiniteSet(names'[k])
        /\ Cardinality(names'[k]) = Cardinality(FirstBlocks(k)')
    <3>1. CASE b.name \in names[k]
      <4>1. names'[k] = names[k] /\ FirstBlocks(k)' = FirstBlocks(k)
        BY <2>2, <3>1
      <4> QED
        BY <4>1 DEF LexdCounted
    <3>2. CASE b.name \notin names[k]
      <4>1. names'[k] = names[k] \cup {b.name} /\ FirstBlocks(k)' = FirstBlocks(k) \cup {m}
        BY <2>2, <3>2
      <4>2. m \notin FirstBlocks(k)
        BY <2>3 DEF FirstBlocks
      <4>3. /\ IsFiniteSet(names'[k]) /\ Cardinality(names'[k]) = Cardinality(names[k]) + 1
            /\ IsFiniteSet(FirstBlocks(k)')
            /\ Cardinality(FirstBlocks(k)') = Cardinality(FirstBlocks(k)) + 1
        <5>1. IsFiniteSet(names[k]) /\ IsFiniteSet(FirstBlocks(k))
          BY DEF LexdCounted
        <5>2. /\ IsFiniteSet(names[k] \cup {b.name})
              /\ Cardinality(names[k] \cup {b.name}) = Cardinality(names[k]) + 1
          BY <3>2, <5>1, FS_AddElement
        <5>3. /\ IsFiniteSet(FirstBlocks(k) \cup {m})
              /\ Cardinality(FirstBlocks(k) \cup {m}) = Cardinality(FirstBlocks(k)) + 1
          BY <4>2, <5>1, FS_AddElement
        <5> QED
          BY <4>1, <5>2, <5>3
      <4> QED
        BY <4>3 DEF LexdCounted
    <3> QED
      BY <3>1, <3>2
  <2> QED
    BY <2>2, <2>4, <2>8, <2>9 DEF LexdCounted
<1>3. CASE UNCHANGED blockVars
  BY <1>3 DEF blockVars, LexdCounted, BlocksOf, FirstBlocks, BlockLines
<1> QED
  BY <1>1, <1>2, <1>3 DEF BlockNext

LEMMA BlockInitInv == BlockInit => BlockInv
<1> SUFFICES ASSUME BlockInit PROVE BlockInv
  OBVIOUS
<1>1. BlockTypeOK
  BY DEF BlockInit, BlockTypeOK
<1>2. ASSUME NEW k \in LexdBlock
      PROVE  LexdCounted(k)
  <2>1. names[k] = {} /\ block_entries[k] = 0 /\ blocks = <<>>
    BY DEF BlockInit
  <2>2. BlocksOf(k) = {} /\ FirstBlocks(k) = {} /\ BlockLines(k) = {}
    BY <2>1 DEF BlocksOf, FirstBlocks, BlockLines
  <2> QED
    BY <2>1, <2>2, FS_EmptySet DEF LexdCounted
<1> QED
  BY <1>1, <1>2 DEF BlockInv

(* The four statistics of a lexd file are the numbers of distinct names and*)
(* of lines of its blocks, however the blocks are split and interleaved.   *)
THEOREM BlocksAreCountedOnce == BlockSpec => []BlocksCountOnce
<1>1. BlockInv /\ [BlockNext]_blockVars => BlockInv'
  BY BlockTypeStep, LexdCountedStep DEF BlockInv
<1>2. BlockInv => BlocksCountOnce
  BY DEF BlockInv, LexdCounted, LexdBlock, BlocksCountOnce, LexdStats
<1> QED
  BY <1>1, <1>2, BlockInitInv, PTL DEF BlockSpec

-----------------------------------------------------------------------------
(* XmlStats                                                                *)

Sides == {"section", "pardefs"}

(* At most one section or pardefs is open.                                 *)
OneSideOpen ==
  \A i, j \in DOMAIN open_tags : open_tags[i] \in Sides /\ open_tags[j] \in Sides => i = j

(* The flags of the reader say which.                                      *)
FlagsFollowTags ==
  /\ in_section <=> "section" \in ToSet(open_tags)
  /\ in_pardefs <=> xml_reader = "monodix" /\ "pardefs" \in ToSet(open_tags)

(* What is reported for a tag is the number of its elements in context.    *)
Reports(t, around) == tally[t] = NumberOf(t, around)

TalliesInContext ==
  /\ xml_reader = "monodix"  => Reports("e lm", {"section"}) /\ Reports("pardef", {"pardefs"})
  /\ xml_reader = "bidix"    => Reports("e", {"section"})
  /\ xml_reader = "transfer" => Reports("rule", {}) /\ Reports("def-macro", {})

XmlInv == XmlTypeOK /\ OneSideOpen /\ FlagsFollowTags /\ TalliesInContext

LEMMA Pushed ==
  ASSUME NEW T, NEW s \in Seq(T), NEW t \in T
  PROVE  /\ Append(s, t) \in Seq(T)
         /\ ToSet(Append(s, t)) = ToSet(s) \cup {t}
         /\ Len(s) + 1 \notin DOMAIN s
         /\ DOMAIN Append(s, t) = DOMAIN s \cup {Len(s) + 1}
         /\ Append(s, t)[Len(s) + 1] = t
         /\ \A i \in DOMAIN s : Append(s, t)[i] = s[i]
<1>1. Len(s) \in Nat /\ DOMAIN s = 1..Len(s)
  OBVIOUS
<1>2. /\ Append(s, t) \in Seq(T)
      /\ Len(Append(s, t)) = Len(s) + 1
      /\ \A i \in 1..Len(s) : Append(s, t)[i] = s[i]
      /\ Append(s, t)[Len(s) + 1] = t
  BY AppendProperties
<1>3. DOMAIN Append(s, t) = DOMAIN s \cup {Len(s) + 1} /\ Len(s) + 1 \notin DOMAIN s
  BY <1>1, <1>2
<1>4. ToSet(Append(s, t)) = ToSet(s) \cup {t}
  BY <1>1, <1>2, <1>3 DEF ToSet
<1> QED
  BY <1>1, <1>2, <1>3, <1>4

LEMMA Popped ==
  ASSUME NEW T, NEW s \in Seq(T), s # <<>>
  PROVE  /\ Front(s) \in Seq(T) /\ Last(s) \in T
         /\ ToSet(s) = ToSet(Front(s)) \cup {Last(s)}
         /\ Len(s) \in DOMAIN s /\ Last(s) = s[Len(s)]
         /\ Len(s) \notin DOMAIN Front(s)
         /\ DOMAIN s = DOMAIN Front(s) \cup {Len(s)}
         /\ \A i \in DOMAIN Front(s) : Front(s)[i] = s[i]
<1>1. Len(s) \in Nat \ {0} /\ DOMAIN s = 1..Len(s)
  OBVIOUS
<1>2. /\ Front(s) \in Seq(T) /\ Len(Front(s)) = Len(s) - 1
      /\ \A i \in 1..(Len(s) - 1) : Front(s)[i] = s[i]
  BY <1>1 DEF Front
<1>3. DOMAIN Front(s) = 1..(Len(s) - 1)
  BY <1>1, <1>2
<1>4. Last(s) = s[Len(s)] /\ Last(s) \in T
  BY <1>1 DEF Last
<1>5. /\ Len(s) \in DOMAIN s /\ Len(s) \notin DOMAIN Front(s)
      /\ DOMAIN s = DOMAIN Front(s) \cup {Len(s)}
  BY <1>1, <1>3
<1>6. ToSet(s) = ToSet(Front(s)) \cup {Last(s)}
  BY <1>2, <1>3, <1>4, <1>5 DEF ToSet
<1> QED
  BY <1>2, <1>3, <1>4, <1>5, <1>6

LEMMA XmlInitInv == XmlInit => XmlInv
<1> SUFFICES ASSUME XmlInit PROVE XmlInv
  OBVIOUS
<1>1. XmlTypeOK
  <2>1. tally \in [Tag -> Nat]
    BY DEF XmlInit
  <2>2. elements \in Seq([tag : Tag, around : SUBSET Tag]) /\ open_tags \in Seq(Tag)
    BY DEF XmlInit
  <2> QED
    BY <2>1, <2>2 DEF XmlInit, XmlTypeOK
<1>2. OneSideOpen /\ FlagsFollowTags
  BY DEF XmlInit, OneSideOpen, FlagsFollowTags, ToSet
<1>3. \A t, around : NumberOf(t, around) = 0
  <2> SUFFICES ASSUME NEW t, NEW around PROVE NumberOf(t, around) = 0
    OBVIOUS
  <2>1. {i \in DOMAIN elements : elements[i].tag = t /\ around \subseteq elements[i].around} = {}
    BY DEF XmlInit
  <2> QED
    BY <2>1, FS_EmptySet DEF NumberOf
<1>4. \A t \in Tag : tally[t] = 0
  BY DEF XmlInit
<1> QED
  BY <1>1, <1>2, <1>3, <1>4 DEF XmlInv, TalliesInContext, Reports, Tag

(* What a start tag adds to the elements that have a tag and a context.    *)
LEMMA NumberGrows ==
  ASSUME XmlTypeOK, NEW t \in Tag, StartTag(t), NEW u, NEW around
  PROVE  /\ NumberOf(u, around) \in Nat
         /\ NumberOf(u, around)' =
              IF u = t /\ around \subseteq ToSet(open_tags)
                THEN NumberOf(u, around) + 1 ELSE NumberOf(u, around)
<1> DEFINE Fits(i) == elements[i].tag = u /\ around \subseteq elements[i].around
           fits == {i \in DOMAIN elements : Fits(i)}
<1>1. PICK e : e = [tag |-> t, around |-> ToSet(open_tags)]
  OBVIOUS
<1>2. PICK n : n = Len(elements) + 1
  OBVIOUS
<1>3. elements \in Seq([tag : Tag, around : SUBSET Tag]) /\ elements' = Append(elements, e)
  BY <1>1 DEF XmlTypeOK, StartTag
<1>4. e \in [tag : Tag, around : SUBSET Tag]
  <2>1. ToSet(open_tags) \in SUBSET Tag
    BY DEF XmlTypeOK, ToSet
  <2> QED
    BY <1>1, <2>1
<1>5. /\ n \notin DOMAIN elements /\ DOMAIN elements' = DOMAIN elements \cup {n}
      /\ elements'[n] = e /\ \A i \in DOMAIN elements : elements'[i] = elements[i]
  BY <1>2, <1>3, <1>4, Pushed
<1>6. e.tag = t /\ e.around = ToSet(open_tags)
  BY <1>1
<1>7. IsFiniteSet(fits) /\ n \notin fits /\ Cardinality(fits) \in Nat
  <2>1. DOMAIN elements = 1..Len(elements) /\ Len(elements) \in Nat
    BY <1>3
  <2>2. IsFiniteSet(DOMAIN elements)
    BY <2>1, FS_Interval
  <2>3. fits \in SUBSET DOMAIN elements
    OBVIOUS
  <2>4. IsFiniteSet(fits)
    BY <2>2, <2>3, FS_Subset
  <2> QED
    BY <1>5, <2>3, <2>4, FS_CardinalityType
<1>8. CASE u = t /\ around \subseteq ToSet(open_tags)
  <2>1. fits' = fits \cup {n}
    BY <1>5, <1>6, <1>8
  <2>2. Cardinality(fits \cup {n}) = Cardinality(fits) + 1
    BY <1>7, FS_AddElement
  <2> QED
    BY <1>7, <1>8, <2>1, <2>2 DEF NumberOf
<1>9. CASE ~(u = t /\ around \subseteq ToSet(open_tags))
  <2>1. fits' = fits
    BY <1>5, <1>6, <1>9
  <2> QED
    BY <1>7, <1>9, <2>1 DEF NumberOf
<1> QED
  BY <1>8, <1>9

(* A start tag in a sound reader: the flags stay those of the open tags,   *)
(* and it is counted just when its context is.                             *)
LEMMA StartTagFlags ==
  ASSUME XmlTypeOK, OneSideOpen, FlagsFollowTags, NEW t \in Tag, StartTag(t)
  PROVE  OneSideOpen' /\ FlagsFollowTags'
<1>1. PICK m : m = Len(open_tags) + 1
  OBVIOUS
<1>2. /\ ToSet(open_tags') = ToSet(open_tags) \cup {t}
      /\ DOMAIN open_tags' = DOMAIN open_tags \cup {m} /\ open_tags'[m] = t
      /\ \A i \in DOMAIN open_tags : open_tags'[i] = open_tags[i]
  <2>1. open_tags \in Seq(Tag) /\ open_tags' = Append(open_tags, t)
    BY DEF XmlTypeOK, StartTag
  <2> QED
    BY <1>1, <2>1, Pushed
<1>3. t \in Sides => \A i \in DOMAIN open_tags : open_tags[i] \notin Sides
  BY DEF StartTag, Allowed, Sides, ToSet
<1>4. OneSideOpen'
  BY <1>2, <1>3 DEF OneSideOpen
<1>5. FlagsFollowTags'
  BY <1>2 DEF FlagsFollowTags, StartTag
<1> QED
  BY <1>4, <1>5

LEMMA EndTagFlags ==
  ASSUME XmlTypeOK, OneSideOpen, FlagsFollowTags, EndTag
  PROVE  OneSideOpen' /\ FlagsFollowTags'
<1>1. PICK m : m = Len(open_tags)
  OBVIOUS
<1>2. PICK t : t = Last(open_tags)
  OBVIOUS
<1>3. /\ ToSet(open_tags) = ToSet(open_tags') \cup {t}
      /\ m \in DOMAIN open_tags /\ open_tags[m] = t
      /\ m \notin DOMAIN open_tags'
      /\ DOMAIN open_tags = DOMAIN open_tags' \cup {m}
      /\ \A i \in DOMAIN open_tags' : open_tags'[i] = open_tags[i]
  <2>1. open_tags \in Seq(Tag) /\ open_tags # <<>> /\ open_tags' = Front(open_tags)
    BY DEF XmlTypeOK, EndTag
  <2> QED
    BY <1>1, <1>2, <2>1, Popped
<1>4. OneSideOpen'
  BY <1>3 DEF OneSideOpen
<1>5. t \in Sides => ToSet(open_tags') \cap Sides = {}
  BY <1>3 DEF OneSideOpen, ToSet
<1>6. /\ in_section' = (in_section /\ t # "section")
      /\ in_pardefs' = (in_pardefs /\ t # "pardefs")
      /\ xml_reader' = xml_reader
  BY <1>2 DEF EndTag, LeaveSection
<1>7. "section" \in ToSet(open_tags') <=> "section" \in ToSet(open_tags) /\ t # "section"
  BY <1>3, <1>5 DEF Sides
<1>8. "pardefs" \in ToSet(open_tags') <=> "pardefs" \in ToSet(open_tags) /\ t # "pardefs"
  BY <1>3, <1>5 DEF Sides
<1>9. FlagsFollowTags'
  BY <1>6, <1>7, <1>8 DEF FlagsFollowTags
<1> QED
  BY <1>4, <1>9

LEMMA XmlTypeStep == XmlTypeOK /\ [XmlNext]_xmlVars => XmlTypeOK'
<1> SUFFICES ASSUME XmlTypeOK, [XmlNext]_xmlVars PROVE XmlTypeOK'
  OBVIOUS
<1>1. ASSUME NEW t \in Tag, StartTag(t)
      PROVE  XmlTypeOK'
  <2>1. PICK e : e = [tag |-> t, around |-> ToSet(open_tags)]
    OBVIOUS
  <2>2. e \in [tag : Tag, around : SUBSET Tag]
    <3>1. ToSet(open_tags) \in SUBSET Tag
      BY DEF XmlTypeOK, ToSet
    <3> QED
      BY <2>1, <3>1
  <2>3. elements' \in Seq([tag : Tag, around : SUBSET Tag])
    <3>1. elements \in Seq([tag : Tag, around : SUBSET Tag]) /\ elements' = Append(elements, e)
      BY <1>1, <2>1 DEF XmlTypeOK, StartTag
    <3> QED
      BY <2>2, <3>1, Pushed
  <2>4. open_tags' \in Seq(Tag)
    BY <1>1, Pushed DEF XmlTypeOK, StartTag
  <2>5. tally' \in [Tag -> Nat]
    <3>1. PICK n : n = IF Counts(t) THEN tally[t] + 1 ELSE tally[t]
      OBVIOUS
    <3>2. tally' = [tally EXCEPT ![t] = n] /\ tally \in [Tag -> Nat]
      BY <1>1, <3>1 DEF StartTag, XmlTypeOK
    <3>3. n \in Nat
      BY <3>1, <3>2
    <3> QED
      BY <3>2, <3>3
  <2>6. in_section' \in BOOLEAN /\ in_pardefs' \in BOOLEAN
    BY <1>1 DEF StartTag
  <2> QED
    BY <1>1, <2>3, <2>4, <2>5, <2>6 DEF StartTag, XmlTypeOK
<1>2. CASE EndTag
  <2>1. open_tags' \in Seq(Tag)
    BY <1>2, Popped DEF EndTag, XmlTypeOK
  <2>2. in_section' \in BOOLEAN /\ in_pardefs' \in BOOLEAN
    BY <1>2 DEF EndTag, LeaveSection
  <2> QED
    BY <1>2, <2>1, <2>2 DEF EndTag, XmlTypeOK
<1>3. CASE XmlError
  BY <1>3 DEF XmlError, XmlTypeOK
<1>4. CASE UNCHANGED xmlVars
  BY <1>4 DEF xmlVars, XmlTypeOK
<1> QED
  BY <1>1, <1>2, <1>3, <1>4 DEF XmlNext

(* What a start tag adds to the tallies.                                   *)
LEMMA StartTagTallies ==
  ASSUME XmlTypeOK, FlagsFollowTags, TalliesInContext, NEW t \in Tag, StartTag(t)
  PROVE  TalliesInContext'
<1>1. xml_reader' = xml_reader /\ xml_reader \in XmlReader
  BY DEF StartTag, XmlTypeOK
<1>2. ASSUME NEW u \in Tag, NEW around, Reports(u, around),
             u = t => (Counts(t) <=> around \subseteq ToSet(open_tags))
      PROVE  Reports(u, around)'
  <2>1. /\ NumberOf(u, around) \in Nat
        /\ NumberOf(u, around)' =
              IF u = t /\ around \subseteq ToSet(open_tags)
                THEN NumberOf(u, around) + 1 ELSE NumberOf(u, around)
    BY NumberGrows
  <2>2. tally'[u] = IF u = t /\ Counts(t) THEN tally[u] + 1 ELSE tally[u]
    BY DEF StartTag, XmlTypeOK
  <2>3. CASE u = t /\ Counts(t)
    BY <1>2, <2>1, <2>2, <2>3 DEF Reports
  <2>4. CASE ~(u = t /\ Counts(t))
    BY <1>2, <2>1, <2>2, <2>4 DEF Reports
  <2> QED
    BY <2>3, <2>4
<1>3. \A T : ({T} \subseteq ToSet(open_tags) <=> T \in ToSet(open_tags))
             /\ {} \subseteq ToSet(open_tags)
  OBVIOUS
<1>4. CASE xml_reader = "monodix"
  <2>1. t = "e lm" => (Counts(t) <=> {"section"} \subseteq ToSet(open_tags))
    BY <1>3, <1>4 DEF Counts, FlagsFollowTags
  <2>2. t = "pardef" => (Counts(t) <=> {"pardefs"} \subseteq ToSet(open_tags))
    BY <1>3, <1>4 DEF Counts, FlagsFollowTags
  <2>3. Reports("e lm", {"section"})' /\ Reports("pardef", {"pardefs"})'
    BY <1>2, <1>4, <2>1, <2>2 DEF TalliesInContext, Tag
  <2> QED
    BY <1>1, <1>4, <2>3 DEF TalliesInContext
<1>5. CASE xml_reader = "bidix"
  <2>1. t = "e" => (Counts(t) <=> {"section"} \subseteq ToSet(open_tags))
    BY <1>3, <1>5 DEF Counts, FlagsFollowTags
  <2>2. Reports("e", {"section"})'
    BY <1>2, <1>5, <2>1 DEF TalliesInContext, Tag
  <2> QED
    BY <1>1, <1>5, <2>2 DEF TalliesInContext
<1>6. CASE xml_reader = "transfer"
  <2>1. t \in {"rule", "def-macro"} => (Counts(t) <=> {} \subseteq ToSet(open_tags))
    BY <1>6 DEF Counts
  <2>2. Reports("rule", {})' /\ Reports("def-macro", {})'
    BY <1>2, <1>6, <2>1 DEF TalliesInContext, Tag
  <2> QED
    BY <1>1, <1>6, <2>2 DEF TalliesInContext
<1> QED
  BY <1>1, <1>4, <1>5, <1>6 DEF XmlReader

LEMMA XmlInvStep == XmlInv /\ [XmlNext]_xmlVars => XmlInv'
<1> SUFFICES ASSUME XmlInv, [XmlNext]_xmlVars PROVE XmlInv'
  OBVIOUS
<1>1. XmlTypeOK'
  BY XmlTypeStep DEF XmlInv
<1>2. ASSUME NEW t \in Tag, StartTag(t)
      PROVE  OneSideOpen' /\ FlagsFollowTags' /\ TalliesInContext'
  BY <1>2, StartTagFlags, StartTagTallies DEF XmlInv
<1>3. CASE EndTag
  <2>1. OneSideOpen' /\ FlagsFollowTags'
    BY <1>3, EndTagFlags DEF XmlInv
  <2>2. UNCHANGED <<xml_reader, elements, tally>>
    BY <1>3 DEF EndTag
  <2>3. TalliesInContext'
    BY <2>2 DEF XmlInv, TalliesInContext, Reports, NumberOf
  <2> QED
    BY <1>1, <2>1, <2>3 DEF XmlInv
<1>4. CASE XmlError \/ UNCHANGED xmlVars
  <2>1. UNCHANGED <<xml_reader, elements, open_tags, in_section, in_pardefs, tally>>
    BY <1>4 DEF XmlError, xmlVars
  <2> QED
    BY <1>1, <2>1 DEF XmlInv, OneSideOpen, FlagsFollowTags, TalliesInContext, Reports, NumberOf
<1> QED
  BY <1>1, <1>2, <1>3, <1>4 DEF XmlInv, XmlNext

(* Whatever sections and pardefs a document has, and however deep they and *)
(* their elements nest, the readers' flags count what lies in context.     *)
THEOREM XmlIsCountedInContext == XmlSpec => []XmlCountsInContext
<1>1. XmlInv => XmlCountsInContext
  <2> SUFFICES ASSUME XmlInv, ~malformed
               PROVE  XmlCountsInContext
    BY DEF XmlCountsInContext, XmlResult
  <2>1. XmlResult.stats =
          CASE xml_reader = "monodix" ->
                 {<<"Stems", tally["e lm"]>>, <<"Paradigms", tally["pardef"]>>}
            [] xml_reader = "bidix" -> {<<"Entries", tally["e"]>>}
            [] xml_reader = "transfer" ->
                 {<<"Rules", tally["rule"]>>, <<"Macros", tally["def-macro"]>>}
    BY DEF XmlResult
  <2>2. CASE xml_reader = "monodix"
    BY <2>1, <2>2 DEF XmlInv, TalliesInContext, Reports, XmlCountsInContext
  <2>3. CASE xml_reader = "bidix"
    BY <2>1, <2>3 DEF XmlInv, TalliesInContext, Reports, XmlCountsInContext
  <2>4. CASE xml_reader = "transfer"
    BY <2>1, <2>4 DEF XmlInv, TalliesInContext, Reports, XmlCountsInContext
  <2> QED
    BY <2>2, <2>3, <2>4 DEF XmlInv, XmlTypeOK, XmlReader
<1> QED
  BY <1>1, XmlInitInv, XmlInvStep, PTL DEF XmlSpec

-----------------------------------------------------------------------------
(* Readers                                                                 *)

(* A behaviour of the composition is one of each reader: the one that has a*)
(* source reads it, and the others stutter.                                *)
THEOREM EachReadsItsOwn ==
  Spec => SvnSpec /\ NamesSpec /\ XmlSpec /\ LexcSpec /\ BlockSpec
<1>1. Init => SvnInit /\ NamesInit /\ XmlInit /\ LexcInit /\ BlockInit
  BY DEF Init
<1>2. ASSUME Next
      PROVE  /\ [SvnNext]_svnVars /\ [NamesNext]_package_names /\ [XmlNext]_xmlVars
             /\ [LexcNext]_lexcVars /\ [BlockNext]_blockVars
  BY <1>2 DEF Next
<1>3. ASSUME UNCHANGED readersVars
      PROVE  /\ UNCHANGED svnVars /\ UNCHANGED package_names /\ UNCHANGED xmlVars
             /\ UNCHANGED lexcVars /\ UNCHANGED blockVars
  BY <1>3 DEF readersVars
<1> QED
  BY <1>1, <1>2, <1>3, PTL DEF Spec, SvnSpec, NamesSpec, XmlSpec, LexcSpec, BlockSpec

(* So what is proved of a reader alone holds of it here, the types of all  *)
(* their locals to begin with.                                             *)
THEOREM LocalsHaveTheirTypes == Spec => []TypeOK
<1>1. SvnSpec => []SvnTypeOK
  <2>1. SvnInv => SvnTypeOK
    BY DEF SvnInv
  <2> QED
    BY <2>1, SvnInvariant, PTL
<1>2. XmlSpec => []XmlTypeOK
  <2>1. XmlInit => XmlTypeOK
    BY XmlInitInv DEF XmlInv
  <2> QED
    BY <2>1, XmlTypeStep, PTL DEF XmlSpec
<1>3. LexcSpec => []LexcTypeOK
  <2>1. LexcInv => LexcTypeOK
    BY DEF LexcInv
  <2> QED
    BY <2>1, MapsHoldTheLines, PTL
<1>4. BlockSpec => []BlockTypeOK
  <2>1. BlockInit => BlockTypeOK
    BY BlockInitInv DEF BlockInv
  <2> QED
    BY <2>1, BlockTypeStep, PTL DEF BlockSpec
<1>5. SvnTypeOK /\ NamesTypeOK /\ XmlTypeOK /\ LexcTypeOK /\ BlockTypeOK => TypeOK
  BY DEF TypeOK
<1> QED
  BY <1>1, ListedAreNames, <1>2, <1>3, <1>4, <1>5, EachReadsItsOwn, PTL

(* Every text a reader may be given is read for what it says: the listing  *)
(* of svn, the names in paths, dictionaries and rules, lexc files with     *)
(* what they may die of, and lexd files.                                   *)
THEOREM TextsAreReadForWhatTheySay ==
  Spec => /\ []FilesAreWhole /\ []SpellingsMeet /\ KeepsItsKey
          /\ []XmlCountsInContext /\ []StemsAreReachable /\ []DeathIsExplained
          /\ []BlocksCountOnce
  BY EachReadsItsOwn, ListingIsWhole, SpellingsAreOneKey, KeysAreKept,
     XmlIsCountedInContext, StemsAreCounted, DeathsAreExplained, BlocksAreCountedOnce, PTL
=============================================================================
