----------------------------- MODULE LexcProofs -----------------------------
(***************************************************************************)
(* Proofs about the lexc reader: what its maps hold after any lines, what  *)
(* the walk over them returns or dies of for any pointers, and hence that  *)
(* its statistics are what the file says.                                  *)
(*                                                                         *)
(* An induction over the calls of the walk is put as a least call that     *)
(* would be wrong (Least), and each way the lexicons lead to each other as *)
(* the least set that is closed under pointers.                            *)
(***************************************************************************)
EXTENDS LexcStats, FiniteSetTheorems, SequenceTheorems, WellFoundedInduction, TLAPS

LEMMA Least ==
  ASSUME NEW T, T \subseteq Nat, T # {}
  PROVE  \E x \in T : \A y \in T : x <= y
<1>1. PICK x \in T : \A y \in T : ~(<<y, x>> \in OpToRel(<, Nat))
  BY NatLessThanWellFounded, WFMin
<1>2. \A y \in T : ~(y < x)
  BY <1>1 DEF OpToRel
<1> QED
  BY <1>2

LEMMA Greatest ==
  ASSUME NEW k \in Nat, NEW T, T \subseteq 1..k, T # {}
  PROVE  Max(T) \in T /\ \A y \in T : Max(T) >= y
<1> DEFINE U == {k - x : x \in T}
<1>1. \A y \in T : y \in Nat /\ k - y \in Nat
  OBVIOUS
<1>2. \A y \in T : k - y \in U
  OBVIOUS
<1>3. U \subseteq Nat /\ U # {}
  <2>1. PICK x : x \in T
    OBVIOUS
  <2>2. k - x \in U
    BY <1>2, <2>1
  <2> QED
    BY <1>1, <2>2
<1>4. PICK u \in U : \A v \in U : u <= v
  BY <1>3, Least
<1>5. PICK x \in T : u = k - x
  OBVIOUS
<1> HIDE DEF U
<1>6. \A y \in T : x >= y
  <2> SUFFICES ASSUME NEW y \in T PROVE x >= y
    OBVIOUS
  <2>1. x \in Nat /\ y \in Nat
    BY <1>1
  <2>2. u <= k - y
    BY <1>2, <1>4
  <2> QED
    BY <1>5, <2>1, <2>2
<1> QED
  BY <1>6 DEF Max

-----------------------------------------------------------------------------
(* Where pointers lead                                                     *)

IsMap(map) ==
  /\ DOMAIN map \subseteq Lexicons
  /\ \A l \in DOMAIN map : map[l].pointers \subseteq Lexicons

Closed(map, from, S) ==
  \A l \in DOMAIN map : l \in S \/ l = from => map[l].pointers \subseteq S

Leads(map, from) ==
  {l \in Lexicons : \A S \in SUBSET Lexicons : Closed(map, from, S) => l \in S}

LEMMA LeadsIsClosed ==
  ASSUME NEW map, IsMap(map), NEW from
  PROVE  Leads(map, from) \subseteq Lexicons /\ Closed(map, from, Leads(map, from))
  BY DEF IsMap, Closed, Leads

LEMMA LeadsIsLeast ==
  ASSUME NEW map, NEW from, NEW S \in SUBSET Lexicons, Closed(map, from, S)
  PROVE  Leads(map, from) \subseteq S
  BY DEF Leads

(* What leads on from a lexicon on the way.                                *)
LEMMA LeadsOn ==
  ASSUME NEW map, IsMap(map), NEW from, NEW m \in Leads(map, from)
  PROVE  Leads(map, m) \subseteq Leads(map, from)
<1>1. Closed(map, from, Leads(map, from)) /\ Leads(map, from) \in SUBSET Lexicons
  BY LeadsIsClosed
<1>2. Closed(map, m, Leads(map, from))
  BY <1>1 DEF Closed
<1> QED
  BY <1>1, <1>2, LeadsIsLeast

(* The lexicons of a call are its pointers and those of the calls it makes.*)
LEMMA LeadsUnfolds ==
  ASSUME NEW map, IsMap(map), NEW from \in DOMAIN map
  PROVE  /\ map[from].pointers \subseteq Leads(map, from)
         /\ Leads(map, from) =
              map[from].pointers \cup UNION {Leads(map, m) : m \in map[from].pointers}
<1> DEFINE P == map[from].pointers
           U == P \cup UNION {Leads(map, m) : m \in P}
<1>1. /\ P \subseteq Leads(map, from) /\ P \subseteq Lexicons
      /\ Leads(map, from) \subseteq Lexicons
  BY LeadsIsClosed DEF Closed, IsMap
<1>2. \A m \in P : Leads(map, m) \subseteq Leads(map, from)
  BY <1>1, LeadsOn
<1>3. U \subseteq Leads(map, from)
  BY <1>1, <1>2
<1>4. Closed(map, from, U)
  <2> SUFFICES ASSUME NEW l \in DOMAIN map, l \in U \/ l = from
               PROVE  map[l].pointers \subseteq U
    BY DEF Closed
  <2>1. CASE l = from
    BY <2>1
  <2>2. CASE l \in P
    <3>1. map[l].pointers \subseteq Leads(map, l)
      BY LeadsIsClosed DEF Closed
    <3> QED
      BY <2>2, <3>1
  <2>3. ASSUME NEW m \in P, l \in Leads(map, m)
        PROVE  map[l].pointers \subseteq U
    <3>1. map[l].pointers \subseteq Leads(map, m)
      BY <2>3, LeadsIsClosed DEF Closed
    <3> QED
      BY <3>1
  <2> QED
    BY <2>1, <2>2, <2>3
<1>5. U \in SUBSET Lexicons
  BY <1>1, <1>3
<1>6. Leads(map, from) \subseteq U
  BY <1>4, <1>5, LeadsIsLeast
<1> QED
  BY <1>1, <1>3, <1>6

Acyclic(map, from) == \A l \in Leads(map, from) \cup {from} : l \notin Leads(map, l)

(* Without cycles, fewer lexicons lie behind a pointer than before it.     *)
LEMMA FewerBehind ==
  ASSUME NEW map, IsMap(map), NEW from \in DOMAIN map, NEW m \in map[from].pointers,
         Acyclic(map, from)
  PROVE  /\ Acyclic(map, m)
         /\ Cardinality(Leads(map, m)) \in Nat /\ Cardinality(Leads(map, from)) \in Nat
         /\ Cardinality(Leads(map, m)) < Cardinality(Leads(map, from))
<1>1. m \in Leads(map, from) /\ Leads(map, m) \subseteq Leads(map, from)
  BY LeadsUnfolds, LeadsOn
<1>2. Acyclic(map, m) /\ m \notin Leads(map, m)
  BY <1>1 DEF Acyclic
<1>3. IsFiniteSet(Leads(map, from))
  <2>1. Leads(map, from) \in SUBSET Lexicons
    BY LeadsIsClosed
  <2> QED
    BY <2>1, LexcAssumption, FS_Subset
<1>4. /\ IsFiniteSet(Leads(map, m))
      /\ Cardinality(Leads(map, m)) <= Cardinality(Leads(map, from))
      /\ Cardinality(Leads(map, m)) # Cardinality(Leads(map, from))
  BY <1>1, <1>2, <1>3, FS_Subset
<1>5. Cardinality(Leads(map, m)) \in Nat /\ Cardinality(Leads(map, from)) \in Nat
  BY <1>3, <1>4, FS_CardinalityType
<1> QED
  BY <1>2, <1>4, <1>5

-----------------------------------------------------------------------------
(* The walk                                                                *)

Calls == Cardinality(Lexicons) + 1

(* The results of all calls that have n levels below them.                 *)
Level(map, n, walk) ==
  IF n = 0 THEN [l \in Lexicons |-> Overflow]
  ELSE [l \in Lexicons |-> Call(map, l, walk[n - 1])]

LEMMA CallsAreNat == Calls \in Nat
  BY LexcAssumption, FS_CardinalityType DEF Calls

(* The recursion is well founded, so it has a result.                      *)
LEMMA WalkExists ==
  ASSUME NEW map
  PROVE  \E walk : walk = [n \in 0..Calls |-> Level(map, n, walk)]
<1> DEFINE Upto(k, walk) == \A n \in 0..k : walk[n] = Level(map, n, walk)
           T == {k \in 0..Calls : ~\E walk : Upto(k, walk)}
<1>1. T = {}
  <2> SUFFICES ASSUME T # {} PROVE FALSE
    OBVIOUS
  <2>1. T \subseteq Nat
    BY CallsAreNat
  <2>2. PICK k \in T : \A j \in T : k <= j
    BY <2>1, Least
  <2>3. k \in 0..Calls /\ ~\E walk : Upto(k, walk)
    OBVIOUS
  <2>4. CASE k = 0
    <3>1. PICK walk : walk = [n \in 0..0 |-> [l \in Lexicons |-> Overflow]]
      OBVIOUS
    <3>2. Upto(k, walk)
      BY <2>4, <3>1 DEF Level
    <3> QED
      BY <2>3, <3>2
  <2>5. CASE k # 0
    <3>1. k - 1 \in 0..Calls /\ k - 1 \notin T /\ k \in Nat /\ k - 1 \in Nat
      BY <2>2, <2>3, <2>5, CallsAreNat
    <3>2. PICK walk : Upto(k - 1, walk)
      BY <3>1
    <3>3. PICK next : next = [n \in 0..k |-> IF n = k THEN Level(map, k, walk) ELSE walk[n]]
      OBVIOUS
    <3>4. \A n \in 0..k : next[n] = Level(map, n, next)
      <4> SUFFICES ASSUME NEW n \in 0..k PROVE next[n] = Level(map, n, next)
        OBVIOUS
      <4>1. n # 0 => next[n - 1] = walk[n - 1]
        BY <3>1, <3>3
      <4>2. Level(map, n, next) = Level(map, n, walk)
        BY <4>1 DEF Level
      <4>3. CASE n = k
        BY <3>3, <4>2, <4>3
      <4>4. CASE n # k
        <5>1. n \in 0..(k - 1)
          BY <3>1, <4>4
        <5>2. next[n] = walk[n]
          BY <3>3, <4>4
        <5> QED
          BY <3>2, <4>2, <5>1, <5>2
      <4> QED
        BY <4>3, <4>4
    <3> QED
      BY <2>3, <3>4
  <2> QED
    BY <2>4, <2>5
<1>2. Calls \in 0..Calls
  BY CallsAreNat
<1>3. PICK walk : Upto(Calls, walk)
  BY <1>1, <1>2
<1>4. PICK all : all = [n \in 0..Calls |-> walk[n]]
  OBVIOUS
<1>5. \A n \in 0..Calls : all[n] = Level(map, n, all)
  <2> SUFFICES ASSUME NEW n \in 0..Calls PROVE all[n] = Level(map, n, all)
    OBVIOUS
  <2>1. n # 0 => all[n - 1] = walk[n - 1]
    BY <1>4, CallsAreNat
  <2>2. Level(map, n, all) = Level(map, n, walk)
    BY <2>1 DEF Level
  <2> QED
    BY <1>3, <1>4, <2>2
<1>6. all = [n \in 0..Calls |-> Level(map, n, all)]
  <2>1. all = [n \in 0..Calls |-> all[n]]
    BY <1>4
  <2> QED
    BY <1>5, <2>1
<1> QED
  BY <1>6

LEMMA CollectIsWalk ==
  ASSUME NEW map
  PROVE  \E walk : /\ \A n \in 0..Calls : walk[n] = Level(map, n, walk)
                   /\ Collect(map) = walk[Calls][Root]
<1>1. PICK walk : walk = CHOOSE w : w = [n \in 0..Calls |-> Level(map, n, w)]
  OBVIOUS
<1>2. walk = [n \in 0..Calls |-> Level(map, n, walk)]
  BY <1>1, WalkExists
<1>3. Collect(map) = walk[Calls][Root]
  BY <1>1 DEF Collect, Calls, Level
<1>4. \A n \in 0..Calls : walk[n] = Level(map, n, walk)
  BY <1>2
<1> QED
  BY <1>3, <1>4

(* What the result r of a call for l is worth when there are n levels of   *)
(* calls below it.                                                         *)
SoundCall(map, l, n, r) ==
  /\ r.is \in {"ok", "panic", "overflow"}
  /\ r.is = "ok" => /\ l \in DOMAIN map /\ Leads(map, l) \subseteq DOMAIN map
                    /\ Acyclic(map, l)
                    /\ r.lexicons = Leads(map, l)
  /\ r.is = "panic" => ~({l} \cup Leads(map, l) \subseteq DOMAIN map)
  /\ r.is = "overflow" /\ Acyclic(map, l) => n <= Cardinality(Leads(map, l))

(* One call whose own calls are sound.                                     *)
LEMMA CallIsSound ==
  ASSUME NEW map, IsMap(map), NEW l \in Lexicons, NEW n \in Nat, NEW deeper,
         \A m \in Lexicons : SoundCall(map, m, n, deeper[m])
  PROVE  SoundCall(map, l, n + 1, Call(map, l, deeper))
<1>1. CASE l \notin DOMAIN map
  <2>1. Call(map, l, deeper) = [is |-> "panic", lexicons |-> {}]
    BY <1>1 DEF Call
  <2> QED
    BY <1>1, <2>1 DEF SoundCall
<1>2. CASE l \in DOMAIN map
  <2> DEFINE P == map[l].pointers
             fatal == {m \in P : deeper[m].is # "ok"}
  <2>1. /\ P \subseteq Lexicons /\ P \subseteq Leads(map, l)
        /\ Leads(map, l) = P \cup UNION {Leads(map, m) : m \in P}
    BY <1>2, LeadsUnfolds DEF IsMap
  <2>2. \A m \in P : Leads(map, m) \subseteq Leads(map, l)
    BY <2>1
  <2>3. CASE fatal # {}
    <3>1. PICK m : m = Min(fatal)
      OBVIOUS
    <3>2. m \in fatal
      <4>1. fatal \subseteq Nat
        BY <2>1, LexcAssumption
      <4>2. \E x \in fatal : \A y \in fatal : x <= y
        BY <2>3, <4>1, Least
      <4> QED
        BY <3>1, <4>2 DEF Min
    <3>3. Call(map, l, deeper) = deeper[m]
      BY <1>2, <2>3, <3>1 DEF Call
    <3>4. m \in P /\ m \in Lexicons /\ deeper[m].is # "ok" /\ SoundCall(map, m, n, deeper[m])
      BY <2>1, <3>2
    <3>5. deeper[m].is = "panic" => ~({l} \cup Leads(map, l) \subseteq DOMAIN map)
      BY <2>1, <2>2, <3>4 DEF SoundCall
    <3>6. deeper[m].is = "overflow" /\ Acyclic(map, l) => n + 1 <= Cardinality(Leads(map, l))
      <4> SUFFICES ASSUME deeper[m].is = "overflow", Acyclic(map, l)
                   PROVE  n + 1 <= Cardinality(Leads(map, l))
        OBVIOUS
      <4>1. /\ Acyclic(map, m)
            /\ Cardinality(Leads(map, m)) \in Nat /\ Cardinality(Leads(map, l)) \in Nat
            /\ Cardinality(Leads(map, m)) < Cardinality(Leads(map, l))
        BY <1>2, <3>4, FewerBehind
      <4>2. n <= Cardinality(Leads(map, m))
        BY <3>4, <4>1 DEF SoundCall
      <4> QED
        BY <4>1, <4>2
    <3> QED
      BY <3>3, <3>4, <3>5, <3>6 DEF SoundCall
  <2>4. CASE fatal = {}
    <3>1. \A m \in P : /\ deeper[m].is = "ok" /\ m \in DOMAIN map
                       /\ Leads(map, m) \subseteq DOMAIN map /\ Acyclic(map, m)
                       /\ deeper[m].lexicons = Leads(map, m)
      BY <2>1, <2>4 DEF SoundCall
    <3>2. Call(map, l, deeper) =
            [is |-> "ok", lexicons |-> P \cup UNION {deeper[m].lexicons : m \in P}]
      BY <1>2, <2>4 DEF Call
    <3>3. UNION {deeper[m].lexicons : m \in P} = UNION {Leads(map, m) : m \in P}
      BY <3>1
    <3>4. Leads(map, l) \subseteq DOMAIN map
      BY <2>1, <3>1
    <3>5. Acyclic(map, l)
      <4>1. \A x \in Leads(map, l) : x \notin Leads(map, x)
        BY <2>1, <3>1 DEF Acyclic
      <4>2. l \notin Leads(map, l)
        BY <4>1
      <4> QED
        BY <4>1, <4>2 DEF Acyclic
    <3> QED
      BY <1>2, <2>1, <3>2, <3>3, <3>4, <3>5 DEF SoundCall
  <2> QED
    BY <2>3, <2>4
<1> QED
  BY <1>1, <1>2

LEMMA WalkIsSound ==
  ASSUME NEW map, IsMap(map)
  PROVE  SoundCall(map, Root, Calls, Collect(map))
<1>1. PICK walk : /\ \A n \in 0..Calls : walk[n] = Level(map, n, walk)
                  /\ Collect(map) = walk[Calls][Root]
  BY CollectIsWalk
<1> DEFINE Sound(n) == \A l \in Lexicons : SoundCall(map, l, n, walk[n][l])
           T == {n \in 0..Calls : ~Sound(n)}
<1>2. T = {}
  <2> SUFFICES ASSUME T # {} PROVE FALSE
    OBVIOUS
  <2>1. T \subseteq Nat
    BY CallsAreNat
  <2>2. PICK n \in T : \A j \in T : n <= j
    BY <2>1, Least
  <2>3. n \in 0..Calls /\ ~Sound(n) /\ n \in Nat
    BY CallsAreNat
  <2>4. CASE n = 0
    <3>1. \A l \in Lexicons : walk[0][l] = Overflow
      BY <1>1, <2>3, <2>4 DEF Level
    <3>2. \A l \in Lexicons : Cardinality(Leads(map, l)) \in Nat
      <4> SUFFICES ASSUME NEW l \in Lexicons PROVE Cardinality(Leads(map, l)) \in Nat
        OBVIOUS
      <4>1. Leads(map, l) \in SUBSET Lexicons
        BY LeadsIsClosed
      <4> QED
        BY <4>1, LexcAssumption, FS_Subset, FS_CardinalityType
    <3>3. Sound(0)
      BY <3>1, <3>2 DEF SoundCall, Overflow
    <3> QED
      BY <2>3, <2>4, <3>3
  <2>5. CASE n # 0
    <3>1. n - 1 \in 0..Calls /\ n - 1 \in Nat /\ n - 1 \notin T
      BY <2>2, <2>3, <2>5, CallsAreNat
    <3>2. \A l \in Lexicons : SoundCall(map, l, n - 1, walk[n - 1][l])
      BY <3>1
    <3>3. \A l \in Lexicons : walk[n][l] = Call(map, l, walk[n - 1])
      BY <1>1, <2>3, <2>5 DEF Level
    <3>4. PICK deeper : deeper = walk[n - 1]
      OBVIOUS
    <3>5. \A l \in Lexicons : SoundCall(map, l, (n - 1) + 1, Call(map, l, deeper))
      BY <3>1, <3>2, <3>4, CallIsSound
    <3>6. (n - 1) + 1 = n
      BY <2>3
    <3> QED
      BY <2>3, <3>3, <3>4, <3>5, <3>6
  <2> QED
    BY <2>4, <2>5
<1>3. Calls \in 0..Calls
  BY CallsAreNat
<1> QED
  BY <1>1, <1>2, <1>3, LexcAssumption

(* The walk from a lexicon of the map: what it returns, and that it dies   *)
(* exactly of a pointer to no lexicon or of a cycle.                       *)
LEMMA WalkResult ==
  ASSUME NEW map, IsMap(map), Root \in DOMAIN map
  PROVE  /\ Collect(map).is \in {"ok", "panic", "overflow"}
         /\ Collect(map).is = "ok" =>
              /\ Collect(map).lexicons = Leads(map, Root)
              /\ Leads(map, Root) \subseteq DOMAIN map /\ Acyclic(map, Root)
         /\ Collect(map).is = "panic" => ~(Leads(map, Root) \subseteq DOMAIN map)
         /\ Collect(map).is = "overflow" => ~Acyclic(map, Root)
<1>1. SoundCall(map, Root, Calls, Collect(map))
  BY WalkIsSound
<1>2. ~(Calls <= Cardinality(Leads(map, Root)))
  <2>1. Leads(map, Root) \in SUBSET Lexicons
    BY LeadsIsClosed
  <2>2. Cardinality(Leads(map, Root)) <= Cardinality(Lexicons)
    BY <2>1, LexcAssumption, FS_Subset
  <2>3. IsFiniteSet(Leads(map, Root))
    BY <2>1, LexcAssumption, FS_Subset
  <2>4. Cardinality(Leads(map, Root)) \in Nat /\ Cardinality(Lexicons) \in Nat
    BY <2>3, LexcAssumption, FS_CardinalityType
  <2> QED
    BY <2>2, <2>4 DEF Calls
<1> QED
  BY <1>1, <1>2 DEF SoundCall

-----------------------------------------------------------------------------
(* What the maps hold                                                      *)

SaidIn(p, kind, l) == {i \in Said(p) : lines[i].is = kind /\ LexiconOf(i) = l}
Pointers(p, l)     == {lines[i].of : i \in SaidIn(p, "pointer", l)}
Entries(p, l)      == {KeyOf(lines[i].of) : i \in SaidIn(p, "entry", l)}

(* A pass's map has, for each lexicon with a line, what its lines say.     *)
MapSays(p) ==
  /\ DOMAIN lexicons[p] = Nonempty(p)
  /\ \A l \in Nonempty(p) : /\ lexicons[p][l].pointers = Pointers(p, l)
                            /\ lexicons[p][l].entries = Entries(p, l)

LexcInv ==
  /\ LexcTypeOK
  /\ ~nameless => current_lexicon = LexiconOf(Len(lines) + 1)
  /\ \A p \in Pass : MapSays(p)

LEMMA LineFields ==
  ASSUME NEW line \in Line
  PROVE  /\ line.is = "header" => line.of \in Lexicons \cup {Absent}
         /\ line.is = "pointer" => line.of \in Lexicons
         /\ line.is = "entry" => line.of \in Words
  BY DEF Line

(* The lines a step may read.                                              *)
Readable(is, of, mt) ==
  /\ mt \in BOOLEAN
  /\ \/ is = "header" /\ of \in Lexicons \cup {Absent}
     \/ is = "pointer" /\ of \in Lexicons
     \/ is = "entry" /\ of \in Words
     \/ is = "rejected" /\ of = Absent

LEMMA ReadableIsLine ==
  ASSUME NEW is, NEW of, NEW mt, Readable(is, of, mt)
  PROVE  /\ LineOf(is, of, mt) \in Line
         /\ LineOf(is, of, mt).is = is /\ LineOf(is, of, mt).of = of
         /\ LineOf(is, of, mt).mt = mt
  BY DEF Readable, LineOf, Line

LEMMA LineRead ==
  ASSUME LexcTypeOK, NEW is, NEW of, NEW mt, Readable(is, of, mt), Read(is, of, mt),
         NEW m, m = Len(lines) + 1
  PROVE  /\ lines' \in Seq(Line) /\ m \in Nat /\ Len(lines') = m
         /\ DOMAIN lines = 1..(m - 1)
         /\ lines'[m].is = is /\ lines'[m].of = of /\ lines'[m].mt = mt
         /\ \A i \in DOMAIN lines : lines'[i] = lines[i]
<1>1. PICK line : line = LineOf(is, of, mt)
  OBVIOUS
<1>2. line \in Line /\ line.is = is /\ line.of = of /\ line.mt = mt
  BY <1>1, ReadableIsLine
<1>3. lines \in Seq(Line) /\ lines' = Append(lines, line)
  BY <1>1 DEF LexcTypeOK, Read
<1>4. /\ Append(lines, line) \in Seq(Line)
      /\ Len(Append(lines, line)) = Len(lines) + 1
      /\ \A i \in 1..Len(lines) : Append(lines, line)[i] = lines[i]
      /\ Append(lines, line)[Len(lines) + 1] = line
  BY <1>2, <1>3, AppendProperties
<1>5. /\ Len(lines) \in Nat /\ DOMAIN lines = 1..Len(lines)
      /\ DOMAIN lines' = 1..Len(lines')
  BY <1>3, <1>4, LenProperties
<1>6. m \in Nat /\ Len(lines') = m /\ DOMAIN lines = 1..(m - 1) /\ lines'[m] = line
  BY <1>3, <1>4, <1>5
<1>7. lines'[m].is = is /\ lines'[m].of = of /\ lines'[m].mt = mt
  BY <1>2, <1>6
<1> QED
  BY <1>3, <1>4, <1>5, <1>6, <1>7

(* The lexicon of a line does not depend on the lines after it.            *)
LEMMA LexiconsStay ==
  ASSUME LexcTypeOK, NEW is, NEW of, NEW mt, Readable(is, of, mt), Read(is, of, mt),
         NEW m, m = Len(lines) + 1
  PROVE  /\ \A i \in 1..m : LexiconOf(i)' = LexiconOf(i)
         /\ LexiconOf(m + 1)' = IF is = "header" THEN of ELSE LexiconOf(m)
<1>1. /\ m \in Nat /\ DOMAIN lines = 1..(m - 1)
      /\ lines'[m].is = is /\ lines'[m].of = of
      /\ \A i \in DOMAIN lines : lines'[i] = lines[i]
  BY LineRead
<1> DEFINE headers(i)  == {j \in 1..(i - 1) : lines[j].is = "header"}
           headers_(i) == {j \in 1..(i - 1) : lines'[j].is = "header"}
<1>2. \A i \in 1..m : headers_(i) = headers(i) /\ headers(i) \subseteq DOMAIN lines
  BY <1>1
<1>3. \A i \in 1..m : \A j \in headers(i) : lines'[j] = lines[j]
  BY <1>1, <1>2
<1>4. ASSUME NEW i \in 1..m
      PROVE  LexiconOf(i)' = LexiconOf(i)
  <2>1. CASE headers(i) = {}
    <3>1. headers_(i) = {}
      BY <1>2, <2>1
    <3> QED
      BY <2>1, <3>1 DEF LexiconOf
  <2>2. CASE headers(i) # {}
    <3>1. i - 1 \in Nat
      BY <1>1
    <3>2. Max(headers(i)) \in headers(i)
      BY <2>2, <3>1, Greatest
    <3>3. lines'[Max(headers(i))] = lines[Max(headers(i))]
      BY <1>3, <3>2
    <3>4. headers_(i) = headers(i)
      BY <1>2
    <3> QED
      BY <2>2, <3>3, <3>4 DEF LexiconOf
  <2> QED
    BY <2>1, <2>2
<1>5. CASE is = "header"
  <2>1. m \in headers_(m + 1) /\ headers_(m + 1) \subseteq 1..m
    BY <1>1, <1>5
  <2>2. Max(headers_(m + 1)) \in headers_(m + 1) /\ Max(headers_(m + 1)) >= m
    BY <1>1, <2>1, Greatest
  <2>3. Max(headers_(m + 1)) = m
    BY <1>1, <2>1, <2>2
  <2>4. LexiconOf(m + 1)' = of
    BY <1>1, <2>1, <2>3 DEF LexiconOf
  <2> QED
    BY <1>4, <1>5, <2>4
<1>6. CASE is # "header"
  <2>1. headers_(m + 1) = headers_(m)
    BY <1>1, <1>6
  <2>2. LexiconOf(m + 1)' = LexiconOf(m)'
    BY <1>1, <2>1 DEF LexiconOf
  <2>3. m \in 1..m
    BY <1>1
  <2> QED
    BY <1>4, <1>6, <2>2, <2>3
<1> QED
  BY <1>5, <1>6

(* Whether a line says something to a pass.                                *)
Says(p, is, mt) ==
  /\ LexiconOf(Len(lines) + 1) # Absent
  /\ is \in {"pointer", "entry"} /\ (p = "vanilla" => ~mt)

LEMMA SaidGrows ==
  ASSUME LexcTypeOK, NEW is, NEW of, NEW mt, Readable(is, of, mt), Read(is, of, mt),
         NEW m, m = Len(lines) + 1, NEW p
  PROVE  /\ Said(p)' = IF Says(p, is, mt) THEN Said(p) \cup {m} ELSE Said(p)
         /\ m \notin Said(p) /\ Said(p) \subseteq 1..m
         /\ \A i \in Said(p) : lines'[i] = lines[i]
<1>1. /\ lines' \in Seq(Line) /\ m \in Nat /\ Len(lines') = m
      /\ DOMAIN lines = 1..(m - 1) /\ lines'[m].is = is /\ lines'[m].mt = mt
      /\ \A i \in DOMAIN lines : lines'[i] = lines[i]
  BY LineRead
<1>2. \A i \in 1..m : LexiconOf(i)' = LexiconOf(i)
  BY LexiconsStay
<1>3. DOMAIN lines' = DOMAIN lines \cup {m}
  <2>1. DOMAIN lines' = 1..m
    BY <1>1
  <2> QED
    BY <1>1, <2>1
<1>4. \A i \in DOMAIN lines : i \in Said(p)' <=> i \in Said(p)
  <2> SUFFICES ASSUME NEW i \in DOMAIN lines PROVE i \in Said(p)' <=> i \in Said(p)
    OBVIOUS
  <2>1. LexiconOf(i)' = LexiconOf(i) /\ lines'[i] = lines[i]
    BY <1>1, <1>2
  <2> QED
    BY <1>1, <2>1 DEF Said
<1>5. m \in Said(p)' <=> Says(p, is, mt)
  <2>1. LexiconOf(m)' = LexiconOf(m)
    BY <1>1, <1>2
  <2> QED
    BY <1>1, <1>3, <2>1 DEF Said, Says
<1>6. Said(p) \subseteq DOMAIN lines /\ Said(p)' \subseteq DOMAIN lines \cup {m}
  BY <1>1 DEF Said
<1>7. m \notin DOMAIN lines /\ DOMAIN lines \subseteq 1..m
  BY <1>1
<1>8. CASE Says(p, is, mt)
  <2>1. \A i : i \in Said(p)' <=> i \in Said(p) \cup {m}
    BY <1>4, <1>5, <1>6, <1>8
  <2> QED
    BY <1>1, <1>6, <1>7, <1>8, <2>1
<1>9. CASE ~Says(p, is, mt)
  <2>1. \A i : i \in Said(p)' <=> i \in Said(p)
    BY <1>4, <1>5, <1>6, <1>9
  <2> QED
    BY <1>1, <1>6, <1>7, <1>9, <2>1
<1> QED
  BY <1>8, <1>9

(* What the line adds to what the file says of a lexicon.                  *)
LEMMA SaidOfGrows ==
  ASSUME LexcTypeOK, NEW is, NEW of, NEW mt, Readable(is, of, mt), Read(is, of, mt),
         NEW p, NEW c, c = LexiconOf(Len(lines) + 1)
  PROVE  /\ Says(p, is, mt) =>
              /\ Nonempty(p)' = Nonempty(p) \cup {c}
              /\ Pointers(p, c)' = Pointers(p, c) \cup (IF is = "pointer" THEN {of} ELSE {})
              /\ Entries(p, c)' = Entries(p, c) \cup (IF is = "entry" THEN {KeyOf(of)} ELSE {})
         /\ ~Says(p, is, mt) => Nonempty(p)' = Nonempty(p)
         /\ \A l : ~Says(p, is, mt) \/ l # c =>
              Pointers(p, l)' = Pointers(p, l) /\ Entries(p, l)' = Entries(p, l)
<1>1. PICK m : m = Len(lines) + 1
  OBVIOUS
<1>2. /\ Said(p)' = IF Says(p, is, mt) THEN Said(p) \cup {m} ELSE Said(p)
      /\ m \notin Said(p) /\ Said(p) \subseteq 1..m
      /\ \A i \in Said(p) : lines'[i] = lines[i]
  BY <1>1, SaidGrows
<1>3. m \in Nat /\ lines'[m].is = is /\ lines'[m].of = of
  BY <1>1, LineRead
<1>4. /\ \A i \in Said(p) : LexiconOf(i)' = LexiconOf(i)
      /\ LexiconOf(m)' = c
  BY <1>1, <1>2, <1>3, LexiconsStay
<1>5. ASSUME NEW l, NEW kind
      PROVE  SaidIn(p, kind, l)' =
               IF Says(p, is, mt) /\ l = c /\ kind = is
                 THEN SaidIn(p, kind, l) \cup {m} ELSE SaidIn(p, kind, l)
  BY <1>2, <1>3, <1>4 DEF SaidIn
<1>6. \A l, kind : /\ SaidIn(p, kind, l) \subseteq Said(p)
                   /\ \A i \in SaidIn(p, kind, l) : lines'[i] = lines[i]
  BY <1>2 DEF SaidIn
<1>7. Says(p, is, mt) => Nonempty(p)' = Nonempty(p) \cup {c}
  BY <1>2, <1>4 DEF Nonempty
<1>8. ~Says(p, is, mt) => Nonempty(p)' = Nonempty(p)
  BY <1>2, <1>4 DEF Nonempty
<1>9. ASSUME NEW l, ~Says(p, is, mt) \/ l # c
      PROVE  Pointers(p, l)' = Pointers(p, l) /\ Entries(p, l)' = Entries(p, l)
  <2>1. \A kind : SaidIn(p, kind, l)' = SaidIn(p, kind, l)
    BY <1>5, <1>9
  <2> QED
    BY <1>6, <2>1 DEF Pointers, Entries
<1>10. ASSUME Says(p, is, mt)
       PROVE  Pointers(p, c)' = Pointers(p, c) \cup (IF is = "pointer" THEN {of} ELSE {})
  BY <1>3, <1>5, <1>6, <1>10 DEF Pointers
<1>11. ASSUME Says(p, is, mt)
       PROVE  Entries(p, c)' = Entries(p, c) \cup (IF is = "entry" THEN {KeyOf(of)} ELSE {})
  BY <1>3, <1>5, <1>6, <1>11 DEF Entries
<1> QED
  BY <1>7, <1>8, <1>9, <1>10, <1>11

-----------------------------------------------------------------------------
(* The lexc reader's invariant                                             *)

(* What a line does to the map of a pass.                                  *)
Parsed(p, is, of, mt) ==
  IF current_lexicon # Absent /\ is \in {"pointer", "entry"} /\ Parses(p, mt)
    THEN Extended(lexicons[p], IF is = "pointer" THEN {of} ELSE {},
                  IF is = "entry" THEN {KeyOf(of)} ELSE {})
    ELSE lexicons[p]

(* Every step reads a line, notes the lexicon of a header and gives each   *)
(* pass what it parses.                                                    *)
LineStep(is, of, mt) ==
  /\ ~nameless
  /\ Readable(is, of, mt) /\ Read(is, of, mt)
  /\ DOMAIN lexicons' = Pass
  /\ \A p \in Pass : lexicons'[p] = Parsed(p, is, of, mt)
  /\ nameless' = (is = "header" /\ of = Absent)
  /\ current_lexicon' = IF is = "header" /\ of # Absent THEN of ELSE current_lexicon

LEMMA StepsReadLines ==
  ASSUME LexcTypeOK, LexcNext
  PROVE  \E is, of, mt : LineStep(is, of, mt)
<1>1. ASSUME NEW l \in Lexicons, ReadHeader(l)
      PROVE  LineStep("header", l, FALSE)
  BY <1>1, LexcAssumption
     DEF ReadHeader, LineStep, MoreLines, Readable, Parsed, LexcTypeOK
<1>2. ASSUME ReadNamelessHeader
      PROVE  LineStep("header", Absent, FALSE)
  BY <1>2 DEF ReadNamelessHeader, LineStep, MoreLines, Readable, Parsed, LexcTypeOK
<1>3. ASSUME NEW mt \in BOOLEAN, NEW l \in Lexicons, ReadPointer(l, mt)
      PROVE  LineStep("pointer", l, mt)
  BY <1>3 DEF ReadPointer, ParseLine, LineStep, MoreLines, Readable, Parsed, LexcTypeOK
<1>4. ASSUME NEW mt \in BOOLEAN, NEW w \in Words, ReadEntry(w, mt)
      PROVE  LineStep("entry", w, mt)
  BY <1>4 DEF ReadEntry, ParseLine, LineStep, MoreLines, Readable, Parsed, LexcTypeOK
<1>5. ASSUME ReadRejected
      PROVE  LineStep("rejected", Absent, FALSE)
  BY <1>5 DEF ReadRejected, LineStep, MoreLines, Readable, Parsed, LexcTypeOK
<1> QED
  BY <1>1, <1>2, <1>3, <1>4, <1>5 DEF LexcNext

Pointed == [pointers : SUBSET Lexicons, entries : SUBSET Key]

(* What a map has for a lexicon that need not be in it.                    *)
PointersIn(map, l) == IF l \in DOMAIN map THEN map[l].pointers ELSE {}
EntriesIn(map, l)  == IF l \in DOMAIN map THEN map[l].entries ELSE {}

IsPointed(map) == DOMAIN map \subseteq Lexicons /\ \A l \in DOMAIN map : map[l] \in Pointed

LEMMA ExtendedIsPointed ==
  ASSUME NEW map, IsPointed(map), current_lexicon \in Lexicons,
         NEW pointers \in SUBSET Lexicons, NEW entries \in SUBSET Key
  PROVE  IsPointed(Extended(map, pointers, entries))
<1>1. PICK old : old = IF current_lexicon \in DOMAIN map THEN map[current_lexicon]
                       ELSE [pointers |-> {}, entries |-> {}]
  OBVIOUS
<1>2. PICK new : new = [pointers |-> old.pointers \cup pointers,
                        entries |-> old.entries \cup entries]
  OBVIOUS
<1>3. Extended(map, pointers, entries) =
        [l \in DOMAIN map \cup {current_lexicon} |->
                IF l = current_lexicon THEN new ELSE map[l]]
  BY <1>1, <1>2 DEF Extended
<1>4. old \in Pointed
  BY <1>1 DEF Pointed, IsPointed
<1>5. new \in Pointed
  BY <1>2, <1>4 DEF Pointed
<1> QED
  BY <1>3, <1>5 DEF IsPointed

LEMMA LexcTypeStep ==
  ASSUME LexcTypeOK, NEW is, NEW of, NEW mt, LineStep(is, of, mt)
  PROVE  LexcTypeOK'
<1>1. lines' \in Seq(Line)
  <2>1. PICK m : m = Len(lines) + 1
    OBVIOUS
  <2> QED
    BY <2>1, LineRead DEF LineStep
<1>2. current_lexicon' \in Lexicons \cup {Absent} /\ nameless' \in BOOLEAN
  BY DEF LineStep, Readable, LexcTypeOK
<1>3. ASSUME NEW p \in Pass
      PROVE  IsPointed(lexicons'[p])
  <2>1. PICK map : map = lexicons[p]
    OBVIOUS
  <2>2. IsPointed(map)
    BY <2>1 DEF LexcTypeOK, IsPointed, Pointed
  <2>3. CASE current_lexicon # Absent /\ is \in {"pointer", "entry"} /\ Parses(p, mt)
    <3>1. PICK pointers : pointers = IF is = "pointer" THEN {of} ELSE {}
      OBVIOUS
    <3>2. PICK entries : entries = IF is = "entry" THEN {KeyOf(of)} ELSE {}
      OBVIOUS
    <3>3. lexicons'[p] = Extended(map, pointers, entries)
      BY <2>1, <2>3, <3>1, <3>2 DEF LineStep, Parsed
    <3>4. pointers \in SUBSET Lexicons /\ entries \in SUBSET Key
      BY <3>1, <3>2 DEF LineStep, Readable, Key
    <3>5. current_lexicon \in Lexicons
      BY <2>3 DEF LexcTypeOK
    <3>6. IsPointed(Extended(map, pointers, entries))
      BY <2>2, <3>4, <3>5, ExtendedIsPointed
    <3> QED
      BY <3>3, <3>6
  <2>4. CASE ~(current_lexicon # Absent /\ is \in {"pointer", "entry"} /\ Parses(p, mt))
    <3>1. lexicons'[p] = map
      BY <2>1, <2>4 DEF LineStep, Parsed
    <3> QED
      BY <2>2, <3>1
  <2> QED
    BY <2>3, <2>4
<1> QED
  BY <1>1, <1>2, <1>3 DEF LexcTypeOK, LineStep, IsPointed, Pointed

LEMMA MapStep ==
  ASSUME LexcInv, NEW is, NEW of, NEW mt, LineStep(is, of, mt), NEW p \in Pass
  PROVE  MapSays(p)'
<1>1. PICK c : c = LexiconOf(Len(lines) + 1)
  OBVIOUS
<1>2. c = current_lexicon /\ LexcTypeOK /\ MapSays(p) /\ ~nameless
  BY <1>1 DEF LexcInv, LineStep
<1>3. PICK map : map = lexicons[p]
  OBVIOUS
<1>4. /\ DOMAIN map = Nonempty(p)
      /\ \A l \in Nonempty(p) : map[l].pointers = Pointers(p, l) /\ map[l].entries = Entries(p, l)
  BY <1>2, <1>3 DEF MapSays
<1>5. Readable(is, of, mt) /\ Read(is, of, mt)
  BY DEF LineStep
<1>6. /\ Says(p, is, mt) =>
              /\ Nonempty(p)' = Nonempty(p) \cup {c}
              /\ Pointers(p, c)' = Pointers(p, c) \cup (IF is = "pointer" THEN {of} ELSE {})
              /\ Entries(p, c)' = Entries(p, c) \cup (IF is = "entry" THEN {KeyOf(of)} ELSE {})
      /\ ~Says(p, is, mt) => Nonempty(p)' = Nonempty(p)
      /\ \A l : ~Says(p, is, mt) \/ l # c =>
              Pointers(p, l)' = Pointers(p, l) /\ Entries(p, l)' = Entries(p, l)
  BY <1>1, <1>2, <1>5, SaidOfGrows
<1>7. Says(p, is, mt) <=>
        current_lexicon # Absent /\ is \in {"pointer", "entry"} /\ Parses(p, mt)
  BY <1>1, <1>2, <1>5 DEF Says, Parses, Pass, Readable
<1>8. CASE ~Says(p, is, mt)
  <2>1. lexicons'[p] = map
    BY <1>3, <1>7, <1>8 DEF LineStep, Parsed
  <2> QED
    BY <1>4, <1>6, <1>8, <2>1 DEF MapSays
<1>9. CASE Says(p, is, mt)
  <2>1. PICK pointers : pointers = IF is = "pointer" THEN {of} ELSE {}
    OBVIOUS
  <2>2. PICK entries : entries = IF is = "entry" THEN {KeyOf(of)} ELSE {}
    OBVIOUS
  <2>3. PICK next : next = lexicons'[p]
    OBVIOUS
  <2>4. next = Extended(map, pointers, entries)
    BY <1>3, <1>7, <1>9, <2>1, <2>2, <2>3 DEF LineStep, Parsed
  <2>5. /\ DOMAIN next = DOMAIN map \cup {c}
        /\ \A l \in DOMAIN map : l # c => next[l] = map[l]
        /\ next[c].pointers = PointersIn(map, c) \cup pointers
        /\ next[c].entries = EntriesIn(map, c) \cup entries
    <3>1. PICK old : old = IF current_lexicon \in DOMAIN map THEN map[current_lexicon]
                           ELSE [pointers |-> {}, entries |-> {}]
      OBVIOUS
    <3>2. PICK new : new = [pointers |-> old.pointers \cup pointers,
                            entries |-> old.entries \cup entries]
      OBVIOUS
    <3>3. next = [l \in DOMAIN map \cup {c} |-> IF l = c THEN new ELSE map[l]]
      BY <1>2, <2>4, <3>1, <3>2 DEF Extended
    <3>4. new.pointers = old.pointers \cup pointers /\ new.entries = old.entries \cup entries
      BY <3>2
    <3>5. old.pointers = PointersIn(map, c) /\ old.entries = EntriesIn(map, c)
      BY <1>2, <3>1 DEF PointersIn, EntriesIn
    <3> QED
      BY <3>3, <3>4, <3>5
  <2>6. c \notin Nonempty(p) => Pointers(p, c) = {} /\ Entries(p, c) = {}
    BY DEF Pointers, Entries, SaidIn, Nonempty
  <2>7. next[c].pointers = Pointers(p, c)' /\ next[c].entries = Entries(p, c)'
    BY <1>4, <1>6, <1>9, <2>1, <2>2, <2>5, <2>6 DEF PointersIn, EntriesIn
  <2>8. DOMAIN next = Nonempty(p)'
    BY <1>4, <1>6, <1>9, <2>5
  <2>9. ASSUME NEW l \in Nonempty(p)'
         PROVE  next[l].pointers = Pointers(p, l)' /\ next[l].entries = Entries(p, l)'
    <3>1. CASE l = c
      BY <2>7, <3>1
    <3>2. CASE l # c
      <4>1. l \in Nonempty(p) /\ next[l] = map[l]
        BY <1>4, <1>6, <1>9, <2>5, <2>9, <3>2
      <4> QED
        BY <1>4, <1>6, <3>2, <4>1
    <3> QED
      BY <3>1, <3>2
  <2> QED
    BY <2>3, <2>8, <2>9 DEF MapSays
<1> QED
  BY <1>8, <1>9

(* Before the first line there is nothing said, and the maps are empty.    *)
LEMMA LexcInitially ==
  ASSUME LexcInit
  PROVE  LexcInv
<1>1. DOMAIN lines = {} /\ Len(lines) = 0 /\ lines \in Seq(Line)
  BY DEF LexcInit
<1>2. \A p : Said(p) = {}
  BY <1>1 DEF Said
<1>3. LexiconOf(1) = Absent
  <2>1. 1..(1 - 1) = {}
    OBVIOUS
  <2> QED
    BY <2>1 DEF LexiconOf
<1>4. current_lexicon = LexiconOf(Len(lines) + 1)
  BY <1>1, <1>3 DEF LexcInit
<1>5. ASSUME NEW p \in Pass
      PROVE  DOMAIN lexicons[p] = {}
  BY DEF LexcInit
<1>6. \A p \in Pass : MapSays(p)
  BY <1>2, <1>5 DEF MapSays, Nonempty
<1>7. LexcTypeOK
  BY <1>1, <1>5 DEF LexcInit, LexcTypeOK
<1> QED
  BY <1>4, <1>6, <1>7 DEF LexcInv

LEMMA LexcStep ==
  ASSUME LexcInv, LexcNext
  PROVE  LexcInv'
<1>1. LexcTypeOK
  BY DEF LexcInv
<1>2. PICK is, of, mt : LineStep(is, of, mt)
  BY <1>1, StepsReadLines
<1>3. LexcTypeOK'
  BY <1>1, <1>2, LexcTypeStep
<1>4. \A p \in Pass : MapSays(p)'
  BY <1>2, MapStep
<1>5. PICK m : m = Len(lines) + 1
  OBVIOUS
<1>6. Readable(is, of, mt) /\ Read(is, of, mt)
  BY <1>2 DEF LineStep
<1>7. Len(lines') = m
  BY <1>1, <1>5, <1>6, LineRead
<1>8. LexiconOf(m + 1)' = IF is = "header" THEN of ELSE LexiconOf(m)
  BY <1>1, <1>5, <1>6, LexiconsStay
<1>9. current_lexicon = LexiconOf(m)
  BY <1>2, <1>5 DEF LexcInv, LineStep
<1>10. ~nameless' => current_lexicon' = LexiconOf(m + 1)'
  BY <1>2, <1>8, <1>9 DEF LineStep
<1>11. ~nameless' => current_lexicon' = LexiconOf(Len(lines) + 1)'
  BY <1>7, <1>10 DEF LexiconOf
<1> QED
  BY <1>3, <1>4, <1>11 DEF LexcInv

(* After any lines, each pass's map has the lexicons with a line for the   *)
(* pass, with the pointers and the keys of the entries of their lines; and *)
(* the local current_lexicon is the lexicon of the next line.              *)
THEOREM MapsHoldTheLines == LexcSpec => []LexcInv
<1>1. ASSUME LexcInv, UNCHANGED lexcVars
      PROVE  LexcInv'
  <2>1. /\ lines' = lines /\ current_lexicon' = current_lexicon
        /\ lexicons' = lexicons /\ nameless' = nameless
    BY <1>1 DEF lexcVars
  <2>2. LexcTypeOK'
    BY <1>1, <2>1 DEF LexcInv, LexcTypeOK
  <2>3. ~nameless' => current_lexicon' = LexiconOf(Len(lines) + 1)'
    BY <1>1, <2>1 DEF LexcInv, LexiconOf
  <2>4. \A p : Said(p)' = Said(p)
    BY <2>1 DEF Said, LexiconOf
  <2>5. \A p : Nonempty(p)' = Nonempty(p)
    BY <2>1, <2>4 DEF Nonempty, LexiconOf
  <2>6. \A p, kind, l : SaidIn(p, kind, l)' = SaidIn(p, kind, l)
    BY <2>1, <2>4 DEF SaidIn, LexiconOf
  <2>7. \A p, l : Pointers(p, l)' = Pointers(p, l) /\ Entries(p, l)' = Entries(p, l)
    BY <2>1, <2>6 DEF Pointers, Entries
  <2>8. \A p \in Pass : MapSays(p)'
    BY <1>1, <2>1, <2>5, <2>7 DEF LexcInv, MapSays
  <2> QED
    BY <2>2, <2>3, <2>8 DEF LexcInv
<1> QED
  BY LexcInitially, LexcStep, <1>1, PTL DEF LexcSpec

-----------------------------------------------------------------------------
(* What the file says of the ways between its lexicons                     *)

LEMMA MapIsMap ==
  ASSUME LexcInv, NEW p \in Pass, NEW map, map = lexicons[p]
  PROVE  /\ IsMap(map) /\ DOMAIN map = Nonempty(p)
         /\ \A l \in Nonempty(p) : /\ map[l].pointers = Pointers(p, l)
                                   /\ map[l].entries = Entries(p, l)
<1>1. LexcTypeOK /\ MapSays(p)
  BY DEF LexcInv
<1>2. IsMap(map)
  BY <1>1 DEF LexcTypeOK, IsMap
<1> QED
  BY <1>1, <1>2 DEF MapSays

(* No pointer that a pass is told of leads out of the set.                 *)
Keeps(p, from, S) ==
  \A i \in Said(p) : lines[i].is = "pointer" =>
    (LexiconOf(i) \in S \/ LexiconOf(i) = from => lines[i].of \in S)

LEMMA KeepsIsClosed ==
  ASSUME LexcInv, NEW p \in Pass, NEW map, map = lexicons[p], NEW from, NEW S
  PROVE  Keeps(p, from, S) <=> Closed(map, from, S)
<1>1. /\ DOMAIN map = Nonempty(p)
      /\ \A l \in Nonempty(p) : map[l].pointers = Pointers(p, l)
  BY MapIsMap
<1>2. ASSUME Keeps(p, from, S), NEW l \in Nonempty(p), l \in S \/ l = from
      PROVE  Pointers(p, l) \subseteq S
  BY <1>2 DEF Keeps, Pointers, SaidIn
<1>3. ASSUME \A l \in Nonempty(p) : l \in S \/ l = from => Pointers(p, l) \subseteq S
      PROVE  Keeps(p, from, S)
  <2> SUFFICES ASSUME NEW i \in Said(p), lines[i].is = "pointer",
                      LexiconOf(i) \in S \/ LexiconOf(i) = from
               PROVE  lines[i].of \in S
    BY DEF Keeps
  <2>1. LexiconOf(i) \in Nonempty(p)
    BY DEF Nonempty
  <2>2. lines[i].of \in Pointers(p, LexiconOf(i))
    BY DEF Pointers, SaidIn
  <2> QED
    BY <1>3, <2>1, <2>2
<1> QED
  BY <1>1, <1>2, <1>3 DEF Closed

LEMMA LeadsToIsLeads ==
  ASSUME LexcInv, NEW p \in Pass, NEW map, map = lexicons[p], NEW from
  PROVE  LeadsTo(p, from) = Leads(map, from)
<1> DEFINE told == {j \in Said(p) : lines[j].is = "pointer"}
           arcs == {<<LexiconOf(i), lines[i].of>> : i \in told}
           follows(S) == \A a \in arcs : a[1] \in S \cup {from} => a[2] \in S
           closed == {S \in SUBSET Lexicons : follows(S)}
<1>1. ASSUME NEW S
      PROVE  follows(S) <=> Keeps(p, from, S)
  <2>1. ASSUME Keeps(p, from, S), NEW i \in told, LexiconOf(i) \in S \cup {from}
        PROVE  lines[i].of \in S
    BY <2>1 DEF Keeps
  <2>2. ASSUME follows(S), NEW i \in Said(p), lines[i].is = "pointer",
               LexiconOf(i) \in S \/ LexiconOf(i) = from
        PROVE  lines[i].of \in S
    <3>1. <<LexiconOf(i), lines[i].of>> \in arcs
      BY <2>2
    <3> QED
      BY <2>2, <3>1
  <2> QED
    BY <2>1, <2>2 DEF Keeps
<1>2. \A S : S \in closed <=> S \in SUBSET Lexicons /\ Closed(map, from, S)
  BY <1>1, KeepsIsClosed
<1>3. LeadsTo(p, from) = {l \in Lexicons : \A S \in closed : l \in S}
  BY DEF LeadsTo
<1> QED
  BY <1>2, <1>3 DEF Leads

-----------------------------------------------------------------------------
(* What becomes of the two passes                                          *)

(* Each way a pass ends tells the file it was given.                       *)
LEMMA PassEnds ==
  ASSUME LexcInv, NEW p \in Pass
  PROVE  /\ StemsOf(p).is \in {"err", "ok", "panic", "overflow"}
         /\ StemsOf(p).is = "err" <=> nameless \/ Root \notin Nonempty(p)
         /\ StemsOf(p).is = "ok" =>
              /\ ~Dangles(p) /\ ~Cycles(p)
              /\ StemsOf(p).count = Cardinality(StemsIn(lexicons[p], Reachable(p)))
         /\ StemsOf(p).is = "panic" => Dangles(p)
         /\ StemsOf(p).is = "overflow" => Cycles(p)
<1>1. PICK map : map = lexicons[p]
  OBVIOUS
<1>2. IsMap(map) /\ DOMAIN map = Nonempty(p)
  BY <1>1, MapIsMap
<1>3. PICK walk : walk = Collect(map)
  OBVIOUS
<1>4. /\ Reachable(p) = Leads(map, Root)
      /\ Cycles(p) <=> ~Acyclic(map, Root)
      /\ Dangles(p) <=> ~(Leads(map, Root) \subseteq DOMAIN map)
  <2>1. \A l : LeadsTo(p, l) = Leads(map, l)
    BY <1>1, LeadsToIsLeads
  <2>2. Reachable(p) = Leads(map, Root)
    BY <2>1 DEF Reachable
  <2> QED
    BY <1>2, <2>1, <2>2 DEF Cycles, Dangles, Acyclic
<1>5. CASE nameless \/ Root \notin DOMAIN map
  <2>1. StemsOf(p) = [is |-> "err", count |-> 0]
    BY <1>1, <1>5 DEF StemsOf
  <2> QED
    BY <1>2, <1>5, <2>1
<1>6. CASE ~nameless /\ Root \in DOMAIN map
  <2>1. /\ walk.is \in {"ok", "panic", "overflow"}
        /\ walk.is = "ok" =>
             /\ walk.lexicons = Leads(map, Root)
             /\ Leads(map, Root) \subseteq DOMAIN map /\ Acyclic(map, Root)
        /\ walk.is = "panic" => ~(Leads(map, Root) \subseteq DOMAIN map)
        /\ walk.is = "overflow" => ~Acyclic(map, Root)
    BY <1>2, <1>3, <1>6, WalkResult
  <2>2. CASE walk.is # "ok"
    <3>1. StemsOf(p) = [is |-> walk.is, count |-> 0]
      BY <1>1, <1>3, <1>6, <2>2 DEF StemsOf
    <3> QED
      BY <1>2, <1>4, <1>6, <2>1, <2>2, <3>1
  <2>3. CASE walk.is = "ok"
    <3>1. StemsOf(p) = [is |-> "ok", count |-> Cardinality(StemsIn(map, walk.lexicons))]
      BY <1>1, <1>3, <1>6, <2>3 DEF StemsOf
    <3> QED
      BY <1>1, <1>2, <1>4, <1>6, <2>1, <2>3, <3>1
  <2> QED
    BY <2>2, <2>3
<1> QED
  BY <1>5, <1>6

(* The vanilla pass decides, and the other one only when it succeeds.      *)
LEMMA ResultIs ==
  LexcResult.is = IF StemsOf("vanilla").is # "ok" THEN StemsOf("vanilla").is
                  ELSE StemsOf("all").is
  BY DEF LexcResult

LEMMA DeathExplained ==
  ASSUME LexcInv
  PROVE  DeathIsExplained
<1>1. "vanilla" \in Pass /\ "all" \in Pass
  BY DEF Pass
<1>2. PICK at : at = IF FatalPass("vanilla") THEN "vanilla" ELSE "all"
  OBVIOUS
<1>3. \A p \in Pass :
         /\ StemsOf(p).is \in {"err", "ok", "panic", "overflow"}
         /\ StemsOf(p).is = "err" <=> nameless \/ Root \notin Nonempty(p)
         /\ StemsOf(p).is = "ok" => ~Dangles(p) /\ ~Cycles(p)
         /\ StemsOf(p).is = "panic" => Dangles(p)
         /\ StemsOf(p).is = "overflow" => Cycles(p)
  BY PassEnds
<1>4. \A p \in Pass : FatalPass(p) <=> Root \in Nonempty(p) /\ (Dangles(p) \/ Cycles(p))
  BY DEF FatalPass
<1>5. /\ LexcResult.is = "panic"    => Root \in Nonempty(at) /\ Dangles(at)
      /\ LexcResult.is = "overflow" => Root \in Nonempty(at) /\ Cycles(at)
  BY <1>1, <1>2, <1>3, <1>4, ResultIs
<1>6. LexcResult.is \in {"panic", "overflow"} <=>
         /\ ~nameless /\ Root \in Nonempty("vanilla")
         /\ FatalPass("vanilla") \/ FatalPass("all")
  BY <1>1, <1>3, <1>4, ResultIs
<1> QED
  BY <1>2, <1>5, <1>6 DEF DeathIsExplained

(* The walk kills its caller exactly when Root has a line for the first    *)
(* pass and leads, in one of the two, to a lexicon without a line or into a*)
(* cycle; it dies of the unwrap only for the one, of the stack only for the*)
(* other, and in any other file it ends.                                   *)
THEOREM DeathsAreExplained == LexcSpec => []DeathIsExplained
  BY MapsHoldTheLines, DeathExplained, PTL

-----------------------------------------------------------------------------
(* The entries counted                                                     *)

(* Two functions that tell the same members of a set apart have as many    *)
(* values on it.                                                           *)
LEMMA SameImages ==
  ASSUME NEW I, IsFiniteSet(I), NEW f, NEW g,
         \A i, j \in I : f[i] = f[j] <=> g[i] = g[j],
         NEW A, NEW B, A = {f[i] : i \in I}, B = {g[i] : i \in I}
  PROVE  Cardinality(A) = Cardinality(B)
<1>1. PICK onto : onto = [i \in I |-> f[i]]
  OBVIOUS
<1>2. onto \in Surjection(I, A)
  BY <1>1 DEF Surjection
<1>3. IsFiniteSet(A)
  BY <1>2, FS_Surjection
<1>4. PICK h : h = [a \in A |-> g[CHOOSE i \in I : f[i] = a]]
  OBVIOUS
<1>5. ASSUME NEW i \in I
      PROVE  f[i] \in A /\ g[i] \in B /\ h[f[i]] = g[i]
  <2>1. PICK j : j = CHOOSE k \in I : f[k] = f[i]
    OBVIOUS
  <2>2. j \in I /\ f[j] = f[i]
    BY <2>1
  <2>3. f[i] \in A /\ g[i] \in B
    OBVIOUS
  <2>4. h[f[i]] = g[j]
    BY <1>4, <2>1, <2>3
  <2> QED
    BY <2>2, <2>3, <2>4
<1>6. \A a \in A : \E i \in I : a = f[i]
  OBVIOUS
<1>7. \A b \in B : \E i \in I : b = g[i]
  OBVIOUS
<1>8. h \in [A -> B]
  <2>1. \A a \in A : h[a] \in B
    BY <1>5, <1>6
  <2>2. PICK rule : rule = [a \in A |-> CHOOSE i \in I : f[i] = a]
    OBVIOUS
  <2>3. h = [a \in A |-> g[rule[a]]]
    BY <1>4, <2>2
  <2>4. \A a \in A : g[rule[a]] \in B
    BY <2>1, <2>3
  <2> QED
    BY <2>3, <2>4
<1>9. \A a, b \in A : h[a] = h[b] => a = b
  BY <1>5, <1>6
<1>10. \A b \in B : \E a \in A : h[a] = b
  BY <1>5, <1>7
<1>11. h \in Bijection(A, B)
  BY <1>8, <1>9, <1>10 DEF Bijection, Injection, Surjection, IsInjective
<1> QED
  BY <1>3, <1>11, FS_Bijection DEF ExistsBijection

(* An entry but for which of its characters is the escaped one.            *)
Plain(w) == [w EXCEPT !.escaped = @ # Absent]

LEMMA KeysArePlain ==
  ASSUME NEW v \in Word, NEW w \in Word
  PROVE  KeyOf(v) = KeyOf(w) <=> Plain(v) = Plain(w)
<1>1. PICK one : one = "\\1"
  OBVIOUS
<1>2. one # Absent
  BY <1>1, LexcAssumption
<1>3. KeyOf(v) = KeyOf(w) <=>
        /\ v.stem = w.stem /\ v.surface = w.surface /\ v.continuation = w.continuation
        /\ (v.escaped = Absent) <=> (w.escaped = Absent)
  BY <1>1, <1>2 DEF KeyOf, LemmaOf
<1>4. Plain(v) = Plain(w) <=>
        /\ v.stem = w.stem /\ v.surface = w.surface /\ v.continuation = w.continuation
        /\ (v.escaped = Absent) <=> (w.escaped = Absent)
  BY DEF Plain, Word
<1> QED
  BY <1>3, <1>4

(* The lines with the entries that are counted.                            *)
Counted(p) ==
  {j \in Said(p) : lines[j].is = "entry" /\ LexiconOf(j) \in Reachable(p)}

LEMMA CountIsOfWords ==
  ASSUME LexcInv, NEW p \in Pass, StemsOf(p).is = "ok"
  PROVE  StemsOf(p).count = Cardinality(ReachableWords(p))
<1>1. PICK map : map = lexicons[p]
  OBVIOUS
<1>2. /\ ~Dangles(p)
      /\ StemsOf(p).count = Cardinality(StemsIn(map, Reachable(p)))
  BY <1>1, PassEnds
<1>3. \A l \in Nonempty(p) : map[l].entries = Entries(p, l)
  BY <1>1, MapIsMap
<1>4. Reachable(p) \subseteq Nonempty(p)
  BY <1>2 DEF Dangles
<1>5. Counted(p) \subseteq DOMAIN lines /\ \A i \in Counted(p) : lines[i].of \in Word
  <2>1. \A i \in DOMAIN lines : lines[i] \in Line
    BY DEF LexcInv, LexcTypeOK
  <2>2. \A i \in Counted(p) : i \in DOMAIN lines /\ lines[i].is = "entry"
    BY DEF Counted, Said
  <2>3. \A i \in Counted(p) : lines[i].of \in Words
    BY <2>1, <2>2, LineFields
  <2> QED
    BY <2>2, <2>3, LexcAssumption
<1>6. IsFiniteSet(Counted(p))
  <2>1. DOMAIN lines = 1..Len(lines) /\ Len(lines) \in Nat
    BY DEF LexcInv, LexcTypeOK
  <2>2. IsFiniteSet(1..Len(lines))
    BY <2>1, FS_Interval
  <2> QED
    BY <1>5, <2>1, <2>2, FS_Subset
<1>7. PICK key : key = [i \in Counted(p) |-> KeyOf(lines[i].of)]
  OBVIOUS
<1>8. PICK plain : plain = [i \in Counted(p) |-> Plain(lines[i].of)]
  OBVIOUS
<1>9. \A i, j \in Counted(p) : key[i] = key[j] <=> plain[i] = plain[j]
  BY <1>5, <1>7, <1>8, KeysArePlain
<1>10. StemsIn(map, Reachable(p)) = {key[i] : i \in Counted(p)}
  <2>1. ASSUME NEW i \in Counted(p)
        PROVE  key[i] \in StemsIn(map, Reachable(p))
    <3>1. LexiconOf(i) \in Reachable(p) /\ i \in SaidIn(p, "entry", LexiconOf(i))
      BY DEF Counted, SaidIn
    <3>2. key[i] \in Entries(p, LexiconOf(i))
      BY <1>7, <3>1 DEF Entries
    <3>3. key[i] \in map[LexiconOf(i)].entries
      BY <1>3, <1>4, <3>1, <3>2
    <3> QED
      BY <3>1, <3>3 DEF StemsIn
  <2>2. ASSUME NEW x \in StemsIn(map, Reachable(p))
        PROVE  \E i \in Counted(p) : x = key[i]
    <3>1. PICK l \in Reachable(p) : x \in map[l].entries
      BY DEF StemsIn
    <3>2. x \in Entries(p, l)
      BY <1>3, <1>4, <3>1
    <3>3. PICK i \in SaidIn(p, "entry", l) : x = KeyOf(lines[i].of)
      BY <3>2 DEF Entries
    <3>4. i \in Counted(p)
      BY <3>1, <3>3 DEF SaidIn, Counted
    <3> QED
      BY <1>7, <3>3, <3>4
  <2> QED
    BY <2>1, <2>2
<1>11. ReachableWords(p) = {plain[i] : i \in Counted(p)}
  <2>1. ReachableWords(p) = {Plain(lines[i].of) : i \in Counted(p)}
    BY DEF ReachableWords, Counted, Plain
  <2> QED
    BY <1>8, <2>1
<1> QED
  BY <1>2, <1>6, <1>9, <1>10, <1>11, SameImages

LEMMA StemsReachable ==
  ASSUME LexcInv
  PROVE  StemsAreReachable
<1> SUFFICES ASSUME LexcResult.is = "ok"
             PROVE  LexcResult.stats =
                      {<<"VanillaStems", Cardinality(ReachableWords("vanilla"))>>,
                       <<"Stems", Cardinality(ReachableWords("all"))>>}
  BY DEF StemsAreReachable
<1>1. StemsOf("vanilla").is = "ok" /\ StemsOf("all").is = "ok"
  BY DEF LexcResult
<1>2. LexcResult.stats = {<<"VanillaStems", StemsOf("vanilla").count>>,
                          <<"Stems", StemsOf("all").count>>}
  BY <1>1 DEF LexcResult
<1>3. "vanilla" \in Pass /\ "all" \in Pass
  BY DEF Pass
<1> QED
  BY <1>1, <1>2, <1>3, CountIsOfWords

(* The two statistics of a lexc file are the numbers of distinct entries   *)
(* in the lexicons that pointers lead to from Root, whatever the order of  *)
(* its lines and however often a lexicon is opened or reached.             *)
THEOREM StemsAreCounted == LexcSpec => []StemsAreReachable
  BY MapsHoldTheLines, StemsReachable, PTL
=============================================================================
