--------------------------- MODULE MemWatchProofs ---------------------------
(***************************************************************************)
(* Proofs about MemWatch for every amount of memory, every set of sizes    *)
(* and limits, every length of the list of freed pointers and every bound. *)
(***************************************************************************)
EXTENDS MemWatch, FiniteSetTheorems, SequenceTheorems, NaturalsInduction, TLAPS

---------------------------------------------------------------------------
(* What holds of the checker's state between and inside of the calls *)

Names == {"mwInited", "mwNML", "mwAllocLimit", "mwChain", "mwGrabList", "mwNumCurAlloc",
          "mwStatCurAlloc", "mwNmlNumAlloc", "mwNmlCurAlloc", "mwLastFree", "mwLFcur",
          "out", "log", "ptr"}

BlockType == [at : Addresses, size : Nat, nml : BOOLEAN, torn : BOOLEAN, hit : BOOLEAN]
GrabType == [at : Addresses, type : {"grabbed", "no-mans-land"}, hit : BOOLEAN]

Blocks(s) == Range(s.mwChain)
Grabs(s) == Range(s.mwGrabList)
LiveOf(s) == {b \in Blocks(s) : ~b.nml}
DeadOf(s) == {b \in Blocks(s) : b.nml}

Place(b) == [at |-> b.at, units |-> Units(b.size)]
Kilobyte(g) == [at |-> g.at, units |-> 1]

DistinctAt(q) == \A i, j \in DOMAIN q : q[i].at = q[j].at => i = j

\* Chain and grab list are what memwatch has from the C library, each once and
\* none over another.
Lists(s) ==
  /\ DOMAIN s = Names
  /\ s.mwChain \in Seq(BlockType) /\ s.mwGrabList \in Seq(GrabType)
  /\ DistinctAt(s.mwChain) /\ DistinctAt(s.mwGrabList)
  /\ \A b \in Blocks(s), g \in Grabs(s) : b.at # g.at
  /\ s.out = {Place(b) : b \in Blocks(s)} \cup {Kilobyte(g) : g \in Grabs(s)}
  /\ \A o, p \in s.out : o.at # p.at => Span(o) \cap Span(p) = {}
  /\ \A o \in s.out : o.at + o.units - 1 <= Mem
  /\ \A b \in Blocks(s) : b.hit => b.nml

\* The counters, with what earlier mwAborts left in the block count; those of
\* no-mans-land are exact until some of it was given up.
Counters(s, left, exact) ==
  /\ s.mwStatCurAlloc \in Nat /\ s.mwNmlNumAlloc \in Int /\ s.mwNmlCurAlloc \in Int
  /\ s.mwNumCurAlloc = Cardinality(LiveOf(s)) + left
  /\ s.mwInited > 0 =>
       /\ s.mwStatCurAlloc = Bytes(LiveOf(s))
       /\ s.mwNmlNumAlloc >= Cardinality(DeadOf(s)) /\ s.mwNmlCurAlloc >= Bytes(DeadOf(s))
       /\ exact => s.mwNmlNumAlloc = Cardinality(DeadOf(s)) /\ s.mwNmlCurAlloc = Bytes(DeadOf(s))

---------------------------------------------------------------------------
(* Numbers in order *)

\* A set of natural numbers that is not empty has a smallest one.
LEMMA SmallestOf ==
  ASSUME NEW S \in SUBSET Nat, S # {}
  PROVE  Min(S) \in S /\ \A y \in S : Min(S) <= y
<1>1. IsWellFoundedOn(OpToRel(<, Nat), Nat)
  BY NatLessThanWellFounded
<1>2. PICK x \in S : \A y \in S : ~(<<y, x>> \in OpToRel(<, Nat))
  BY <1>1, WFMin
<1>3. \A y \in S : ~(y < x)
  BY <1>2 DEF OpToRel
<1>4. \A y \in S : x <= y
  BY <1>3
<1> QED BY <1>4 DEF Min

\* A set of numbers up to n is finite.
LEMMA UpTo ==
  ASSUME NEW n \in Nat, NEW I \in SUBSET (1 .. n)
  PROVE  IsFiniteSet(I) /\ Cardinality(I) \in Nat
<1>1. IsFiniteSet(1 .. n)
  BY FS_Interval
<1>2. IsFiniteSet(I)
  BY <1>1, FS_Subset
<1> QED BY <1>2, FS_CardinalityType

\* Ascending lists each number of I once.
LEMMA AscendingFacts ==
  ASSUME NEW n \in Nat, NEW I \in SUBSET (1 .. n)
  PROVE  /\ Cardinality(I) \in Nat
         /\ \A k \in 1 .. Cardinality(I) : Ascending(I)[k] \in I
         /\ \A k, l \in 1 .. Cardinality(I) : Ascending(I)[k] = Ascending(I)[l] => k = l
         /\ \A i \in I : \E k \in 1 .. Cardinality(I) : Ascending(I)[k] = i
<1> DEFINE c == Cardinality(I)
           Below(i) == {j \in I : j <= i}
           r == [i \in I |-> Cardinality(Below(i))]
<1>1. IsFiniteSet(I) /\ c \in Nat
  BY UpTo
<1>2. ASSUME NEW i \in I PROVE IsFiniteSet(Below(i)) /\ Cardinality(Below(i)) \in 1 .. c
  <2>1. Below(i) \in SUBSET I /\ i \in Below(i)
    OBVIOUS
  <2>2. IsFiniteSet(Below(i)) /\ Cardinality(Below(i)) \in Nat /\ Cardinality(Below(i)) <= c
    BY <1>1, <2>1, FS_Subset, FS_CardinalityType
  <2>3. Cardinality(Below(i)) # 0
    BY <2>1, <2>2, FS_EmptySet
  <2> QED BY <1>1, <2>2, <2>3
<1>3. ASSUME NEW i \in I, NEW j \in I, i < j PROVE Cardinality(Below(i)) < Cardinality(Below(j))
  <2>0. i \in Int /\ j \in Int /\ \A k \in I : k \in Int
    OBVIOUS
  <2>3. \A k \in I : k <= i => k <= j
    BY <1>3, <2>0
  <2>4. ~(j <= i) /\ j <= j
    BY <1>3, <2>0
  <2>1. Below(i) \in SUBSET Below(j) /\ j \in Below(j) /\ j \notin Below(i)
    BY <2>3, <2>4, Zenon
  <2>2. Below(i) # Below(j)
    BY <2>1
  <2> QED BY <1>2, <2>1, <2>2, FS_Subset
<1>4. \A i, j \in I : r[i] = r[j] => i = j
  <2> SUFFICES ASSUME NEW i \in I, NEW j \in I, i # j PROVE r[i] # r[j]
    OBVIOUS
  <2>1. r[i] = Cardinality(Below(i)) /\ r[j] = Cardinality(Below(j))
    OBVIOUS
  <2>2. r[i] \in Nat /\ r[j] \in Nat
    BY <1>2, <2>1
  <2>3. i < j \/ j < i
    OBVIOUS
  <2> QED BY <1>3, <2>1, <2>2, <2>3
<1>5. r \in [I -> 1 .. c]
  BY <1>2
<1>6. r \in Injection(I, 1 .. c)
  BY <1>4, <1>5 DEF Injection, IsInjective
<1>7. IsFiniteSet(1 .. c) /\ Cardinality(1 .. c) = c
  BY <1>1, FS_Interval
<1>8. r \in Surjection(I, 1 .. c)
  BY <1>6, <1>7, FS_Injection
<1>9. \A k \in 1 .. c : \E i \in I : r[i] = k
  BY <1>8 DEF Surjection
<1>10. ASSUME NEW k \in 1 .. c
       PROVE  Ascending(I)[k] \in I /\ r[Ascending(I)[k]] = k
  <2>1. Ascending(I)[k] = CHOOSE i \in I : Cardinality(Below(i)) = k
    BY DEF Ascending
  <2>2. \E i \in I : Cardinality(Below(i)) = k
    BY <1>9
  <2> QED BY <2>1, <2>2
<1>11. \A i \in I : \E k \in 1 .. c : Ascending(I)[k] = i
  <2> SUFFICES ASSUME NEW i \in I PROVE Ascending(I)[r[i]] = i /\ r[i] \in 1 .. c
    OBVIOUS
  <2> QED BY <1>4, <1>5, <1>10
<1> QED BY <1>1, <1>10, <1>11

\* Pick takes the elements at the places of I, each once.
LEMMA PickFacts ==
  ASSUME NEW X, NEW q \in Seq(X), NEW I \in SUBSET DOMAIN q
  PROVE  /\ Pick(q, I) \in Seq(X)
         /\ Len(Pick(q, I)) = Cardinality(I)
         /\ Range(Pick(q, I)) = {q[i] : i \in I}
         /\ \A k, l \in DOMAIN Pick(q, I) : k # l =>
              \E i, j \in I : i # j /\ Pick(q, I)[k] = q[i] /\ Pick(q, I)[l] = q[j]
<1> DEFINE a == Ascending(I)
           c == Cardinality(I)
           p == Pick(q, I)
<1>1. Len(q) \in Nat /\ DOMAIN q = 1 .. Len(q)
  OBVIOUS
<1>2. /\ c \in Nat /\ \A k \in 1 .. c : a[k] \in I
      /\ \A k, l \in 1 .. c : a[k] = a[l] => k = l
      /\ \A i \in I : \E k \in 1 .. c : a[k] = i
  BY <1>1, AscendingFacts
<1>3. p = [k \in 1 .. c |-> q[a[k]]]
  BY DEF Pick
<1> HIDE DEF a, c, p
<1>4. \A k \in 1 .. c : q[a[k]] \in X
  BY <1>1, <1>2
<1>5. p \in Seq(X) /\ Len(p) = c
  <2>1. p \in [1 .. c -> X]
    BY <1>3, <1>4
  <2> QED BY <1>2, <2>1
<1>6. DOMAIN p = 1 .. c /\ \A k \in 1 .. c : p[k] = q[a[k]]
  BY <1>3
<1>7. Range(p) = {q[i] : i \in I}
  BY <1>2, <1>6 DEF Range
<1>8. \A k, l \in DOMAIN p : k # l => \E i, j \in I : i # j /\ p[k] = q[i] /\ p[l] = q[j]
  BY <1>2, <1>6
<1> QED BY <1>5, <1>7, <1>8 DEF c, p

---------------------------------------------------------------------------
(* Lists of blocks and kilobytes *)

\* Without keeps what it does not take away, each once.
LEMMA WithoutFacts ==
  ASSUME NEW X, NEW q \in Seq(X), DistinctAt(q), NEW gone
  PROVE  /\ Without(q, gone) \in Seq(X) /\ DistinctAt(Without(q, gone))
         /\ Range(Without(q, gone)) = {b \in Range(q) : b.at \notin gone}
<1> DEFINE I == {i \in DOMAIN q : q[i].at \notin gone}
<1>1. /\ Pick(q, I) \in Seq(X)
      /\ Range(Pick(q, I)) = {q[i] : i \in I}
      /\ \A k, l \in DOMAIN Pick(q, I) : k # l =>
           \E i, j \in I : i # j /\ Pick(q, I)[k] = q[i] /\ Pick(q, I)[l] = q[j]
  <2>1. I \in SUBSET DOMAIN q
    OBVIOUS
  <2> HIDE DEF I
  <2> QED BY <2>1, PickFacts
<1>2. DistinctAt(Pick(q, I))
  <2> SUFFICES ASSUME NEW k \in DOMAIN Pick(q, I), NEW l \in DOMAIN Pick(q, I), k # l
               PROVE  Pick(q, I)[k].at # Pick(q, I)[l].at
    BY DEF DistinctAt
  <2>1. PICK i \in I, j \in I : i # j /\ Pick(q, I)[k] = q[i] /\ Pick(q, I)[l] = q[j]
    BY <1>1
  <2> QED BY <2>1 DEF DistinctAt
<1>3. {q[i] : i \in I} = {b \in Range(q) : b.at \notin gone}
  BY DEF Range
<1> QED BY <1>1, <1>2, <1>3 DEF Without

\* Two elements of such a list at one address are the same.
LEMMA SameAt ==
  ASSUME NEW q, DistinctAt(q)
  PROVE  \A b, c \in Range(q) : b.at = c.at => b = c
BY DEF DistinctAt, Range

\* What is in the lists, and that an address names one thing in each.
LEMMA ListTypes ==
  ASSUME NEW s, Lists(s)
  PROVE  /\ Blocks(s) \subseteq BlockType /\ Grabs(s) \subseteq GrabType
         /\ \A b, c \in Blocks(s) : b.at = c.at => b = c
         /\ \A b, c \in Grabs(s) : b.at = c.at => b = c
         /\ \A o \in s.out : o.at \in Addresses /\ o.units \in Nat \ {0}
<1>1. s.mwChain \in Seq(BlockType) /\ s.mwGrabList \in Seq(GrabType)
  BY DEF Lists
<1>2. Blocks(s) \subseteq BlockType /\ Grabs(s) \subseteq GrabType
  BY <1>1 DEF Blocks, Grabs, Range
<1>3. /\ \A b, c \in Blocks(s) : b.at = c.at => b = c
      /\ \A b, c \in Grabs(s) : b.at = c.at => b = c
  BY SameAt DEF Lists, Blocks, Grabs
<1>4. \A n \in Nat : Units(n) \in Nat \ {0}
  BY DEF Units
<1>5. ASSUME NEW o \in s.out PROVE o.at \in Addresses /\ o.units \in Nat \ {0}
  <2>1. (\E b \in Blocks(s) : o = Place(b)) \/ (\E g \in Grabs(s) : o = Kilobyte(g))
    BY DEF Lists
  <2>2. ASSUME NEW b \in Blocks(s), o = Place(b) PROVE o.at \in Addresses /\ o.units \in Nat \ {0}
    <3>1. b.at \in Addresses /\ b.size \in Nat
      BY <1>2 DEF BlockType
    <3> QED BY <2>2, <3>1, <1>4 DEF Place
  <2>3. ASSUME NEW g \in Grabs(s), o = Kilobyte(g) PROVE o.at \in Addresses /\ o.units \in Nat \ {0}
    <3>1. g.at \in Addresses
      BY <1>2 DEF GrabType
    <3> QED BY <2>3, <3>1 DEF Kilobyte
  <2> QED BY <2>1, <2>2, <2>3
<1> QED BY <1>2, <1>3, <1>5

\* Lists from which the same addresses are taken everywhere are lists.
LEMMA Shrunk ==
  ASSUME NEW s, Lists(s), NEW gone, NEW t, DOMAIN t = Names,
         t.mwChain \in Seq(BlockType), DistinctAt(t.mwChain),
         Blocks(t) = {b \in Blocks(s) : b.at \notin gone},
         t.mwGrabList \in Seq(GrabType), DistinctAt(t.mwGrabList),
         Grabs(t) = {g \in Grabs(s) : g.at \notin gone},
         t.out = {o \in s.out : o.at \notin gone}
  PROVE  Lists(t)
<1>1. t.out = {Place(b) : b \in Blocks(t)} \cup {Kilobyte(g) : g \in Grabs(t)}
  BY DEF Lists, Place, Kilobyte
<1>2. /\ \A b \in Blocks(t), g \in Grabs(t) : b.at # g.at
      /\ \A o, p \in t.out : o.at # p.at => Span(o) \cap Span(p) = {}
      /\ \A o \in t.out : o.at + o.units - 1 <= Mem
      /\ \A b \in Blocks(t) : b.hit => b.nml
  BY DEF Lists
<1> QED BY <1>1, <1>2 DEF Lists

\* The rest of the state does not matter to the lists.
LEMMA SameLists ==
  ASSUME NEW s, Lists(s), NEW t, DOMAIN t = Names,
         t.mwChain = s.mwChain, t.mwGrabList = s.mwGrabList, t.out = s.out
  PROVE  Lists(t) /\ Blocks(t) = Blocks(s) /\ Grabs(t) = Grabs(s)
         /\ LiveOf(t) = LiveOf(s) /\ DeadOf(t) = DeadOf(s)
BY DEF Lists, Blocks, Grabs, LiveOf, DeadOf

---------------------------------------------------------------------------
(* How many blocks and bytes there are *)

\* A sequence whose elements have different addresses has as many as its set.
LEMMA RangeFacts ==
  ASSUME NEW X, NEW q \in Seq(X)
  PROVE  /\ IsFiniteSet(Range(q)) /\ Range(q) \subseteq X
         /\ DistinctAt(q) => Cardinality(Range(q)) = Len(q)
<1>1. Len(q) \in Nat /\ DOMAIN q = 1 .. Len(q)
  OBVIOUS
<1>2. IsFiniteSet(DOMAIN q) /\ Cardinality(DOMAIN q) = Len(q)
  BY <1>1, FS_Interval
<1>3. q \in Surjection(DOMAIN q, Range(q))
  BY DEF Surjection, Range
<1>4. IsFiniteSet(Range(q)) /\ (Cardinality(Range(q)) = Len(q) <=> q \in Injection(DOMAIN q, Range(q)))
  BY <1>2, <1>3, FS_Surjection
<1>5. DistinctAt(q) => q \in Injection(DOMAIN q, Range(q))
  BY <1>3 DEF DistinctAt, Injection, Surjection, IsInjective
<1> QED BY <1>4, <1>5 DEF Range

\* Lists are finite.
LEMMA FiniteLists ==
  ASSUME NEW s, Lists(s)
  PROVE  /\ IsFiniteSet(Blocks(s)) /\ Cardinality(Blocks(s)) = Len(s.mwChain)
         /\ IsFiniteSet(Grabs(s)) /\ Cardinality(Grabs(s)) = Len(s.mwGrabList)
         /\ IsFiniteSet(LiveOf(s)) /\ IsFiniteSet(DeadOf(s))
         /\ Cardinality(LiveOf(s)) \in Nat /\ Cardinality(DeadOf(s)) \in Nat
         /\ Len(s.mwChain) = Cardinality(LiveOf(s)) + Cardinality(DeadOf(s))
<1>1. /\ IsFiniteSet(Blocks(s)) /\ Cardinality(Blocks(s)) = Len(s.mwChain)
      /\ IsFiniteSet(Grabs(s)) /\ Cardinality(Grabs(s)) = Len(s.mwGrabList)
  BY RangeFacts DEF Lists, Blocks, Grabs
<1>2. LiveOf(s) \in SUBSET Blocks(s) /\ DeadOf(s) \in SUBSET Blocks(s)
  BY DEF LiveOf, DeadOf
<1>3. IsFiniteSet(LiveOf(s)) /\ IsFiniteSet(DeadOf(s))
  BY <1>1, <1>2, FS_Subset
<1>4. LiveOf(s) \cap DeadOf(s) = {} /\ LiveOf(s) \cup DeadOf(s) = Blocks(s)
  BY DEF LiveOf, DeadOf
<1>5. Cardinality(LiveOf(s)) \in Nat /\ Cardinality(DeadOf(s)) \in Nat
  BY <1>3, FS_CardinalityType
<1>6. Cardinality(Blocks(s)) = Cardinality(LiveOf(s)) + Cardinality(DeadOf(s))
  BY <1>3, <1>4, <1>5, FS_Union, FS_EmptySet
<1> QED BY <1>1, <1>3, <1>5, <1>6

\* The bytes of blocks: numbers, more for more blocks, and one block's size
\* more for that block.
LEMMA BytesFacts ==
  ASSUME NEW B \in SUBSET BlockType, IsFiniteSet(B)
  PROVE  /\ Bytes(B) \in Nat
         /\ \A C \in SUBSET B : Bytes(C) \in Nat /\ Bytes(C) <= Bytes(B)
         /\ \A b \in BlockType :
              (\A c \in B : c.at # b.at) => Bytes(B \cup {b}) = Bytes(B) + b.size
<1> DEFINE Of(b) == {b.at} \X (1 .. b.size)
           All(C) == UNION {Of(b) : b \in C}
<1>1. ASSUME NEW b \in BlockType PROVE IsFiniteSet(Of(b)) /\ Cardinality(Of(b)) = b.size
  <2>1. b.size \in Nat
    BY DEF BlockType
  <2>2. IsFiniteSet({b.at}) /\ Cardinality({b.at}) = 1
    BY FS_Singleton
  <2>3. IsFiniteSet(1 .. b.size) /\ Cardinality(1 .. b.size) = b.size
    BY <2>1, FS_Interval
  <2>4. Cardinality(Of(b)) = 1 * b.size /\ IsFiniteSet(Of(b))
    BY <2>2, <2>3, FS_Product
  <2> QED BY <2>1, <2>4
<1>2. ASSUME NEW C \in SUBSET B PROVE IsFiniteSet(All(C)) /\ Cardinality(All(C)) \in Nat
  <2> DEFINE f == [b \in C |-> Of(b)]
  <2>1. f \in Surjection(C, {Of(b) : b \in C})
    BY DEF Surjection
  <2>2. IsFiniteSet(C)
    BY FS_Subset
  <2>3. IsFiniteSet({Of(b) : b \in C})
    BY <2>1, <2>2, FS_Surjection
  <2>4. \A T \in {Of(b) : b \in C} : IsFiniteSet(T)
    BY <1>1
  <2>5. IsFiniteSet(All(C))
    BY <2>3, <2>4, FS_UNION
  <2> QED BY <2>5, FS_CardinalityType
<1>3. \A C \in SUBSET B : Bytes(C) = Cardinality(All(C))
  BY DEF Bytes
<1>4. ASSUME NEW C \in SUBSET B PROVE Cardinality(All(C)) <= Cardinality(All(B))
  <2>1. All(C) \in SUBSET All(B)
    OBVIOUS
  <2> QED BY <1>2, <2>1, FS_Subset
<1>5. ASSUME NEW b \in BlockType, \A c \in B : c.at # b.at
      PROVE  Bytes(B \cup {b}) = Bytes(B) + b.size
  <2>1. UNION {Of(c) : c \in B \cup {b}} = All(B) \cup Of(b)
    OBVIOUS
  <2>2. All(B) \cap Of(b) = {}
    BY <1>5
  <2>3. b.size \in Nat
    BY DEF BlockType
  <2>4. B \in SUBSET B
    OBVIOUS
  <2>5. IsFiniteSet(All(B)) /\ Cardinality(All(B)) \in Nat /\ IsFiniteSet(Of(b)) /\ Cardinality(Of(b)) = b.size
    BY <1>1, <1>2, <2>4
  <2>6. Cardinality(All(B) \cup Of(b)) = Cardinality(All(B)) + b.size
    <3> HIDE DEF All, Of
    <3> QED BY <2>2, <2>3, <2>5, FS_Union, FS_EmptySet
  <2> QED BY <1>3, <2>1, <2>6 DEF Bytes
<1> QED BY <1>2, <1>3, <1>4, <1>5

\* Bytes looks at nothing but where the blocks are and how long.
LEMMA SameBytes ==
  ASSUME NEW B, NEW C,
         \A b \in B : \E c \in C : c.at = b.at /\ c.size = b.size,
         \A c \in C : \E b \in B : c.at = b.at /\ c.size = b.size
  PROVE  Bytes(B) = Bytes(C)
<1>1. UNION {{b.at} \X (1 .. b.size) : b \in B} = UNION {{b.at} \X (1 .. b.size) : b \in C}
  OBVIOUS
<1> QED BY <1>1 DEF Bytes

---------------------------------------------------------------------------
(* Memory that is given up *)

\* What giving memory up leaves alone.
SameBooks(s, t) ==
  /\ t.mwInited = s.mwInited /\ t.mwNML = s.mwNML /\ t.mwAllocLimit = s.mwAllocLimit
  /\ t.mwNumCurAlloc = s.mwNumCurAlloc /\ t.mwStatCurAlloc = s.mwStatCurAlloc
  /\ t.mwNmlNumAlloc = s.mwNmlNumAlloc /\ t.mwNmlCurAlloc = s.mwNmlCurAlloc
  /\ t.mwLastFree = s.mwLastFree /\ t.mwLFcur = s.mwLFcur /\ t.ptr = s.ptr

\* From s to t memory went back that the program does not use, and what was
\* written to is reported.
GivesUp(s, t) ==
  /\ Lists(t) /\ SameBooks(s, t)
  /\ LiveOf(t) = LiveOf(s) /\ DeadOf(t) \subseteq DeadOf(s) /\ Grabs(t) \subseteq Grabs(s)
  /\ t.out \subseteq s.out /\ s.log \subseteq t.log
  /\ \A b \in DeadOf(s) : b.hit => b \in DeadOf(t) \/ <<"wild pointer", b.at>> \in t.log
  /\ \A g \in Grabs(s) : g.hit => g \in Grabs(t) \/ <<"wild pointer", g.at>> \in t.log
  /\ \A line \in t.log : line \in s.log \/ line[1] = "wild pointer"

\* Giving up twice is giving up.
LEMMA GivesUpTwice ==
  ASSUME NEW s, NEW t, NEW u, GivesUp(s, t), GivesUp(t, u)
  PROVE  GivesUp(s, u)
BY DEF GivesUp, SameBooks

\* Where there was room there is room when less is taken.
LEMMA RoomGrows ==
  ASSUME NEW out, NEW less \in SUBSET out, NEW n
  PROVE  Room(out, n) \subseteq Room(less, n)
BY DEF Room

\* Kilobytes that are let go tell of their damage and leave the chain alone.
LEMMA DropTheseFacts ==
  ASSUME NEW s, Lists(s), NEW gone, \A g \in gone : \A b \in Blocks(s) : b.at # g
  PROVE  /\ GivesUp(s, DropThese(s, gone))
         /\ Grabs(DropThese(s, gone)) = {g \in Grabs(s) : g.at \notin gone}
         /\ DeadOf(DropThese(s, gone)) = DeadOf(s)
         /\ DropThese(s, gone).mwChain = s.mwChain
<1> DEFINE t == DropThese(s, gone)
<1>1. DOMAIN s = Names
  BY DEF Lists
<1>2. /\ DOMAIN t = Names /\ SameBooks(s, t)
      /\ t.mwChain = s.mwChain /\ t.mwGrabList = Without(s.mwGrabList, gone)
      /\ t.out = {o \in s.out : o.at \notin gone}
      /\ t.log = s.log \cup {<<"wild pointer", g.at>> : g \in {h \in Grabs(s) : h.at \in gone /\ h.hit}}
  BY <1>1 DEF Names, DropThese, LibFree, SameBooks, Grabs
<1> HIDE DEF t
<1>3. /\ t.mwGrabList \in Seq(GrabType) /\ DistinctAt(t.mwGrabList)
      /\ Grabs(t) = {g \in Grabs(s) : g.at \notin gone}
  <2>1. s.mwGrabList \in Seq(GrabType) /\ DistinctAt(s.mwGrabList)
    BY DEF Lists
  <2>2. /\ Without(s.mwGrabList, gone) \in Seq(GrabType) /\ DistinctAt(Without(s.mwGrabList, gone))
        /\ Range(Without(s.mwGrabList, gone)) = {g \in Range(s.mwGrabList) : g.at \notin gone}
    BY <2>1, WithoutFacts
  <2> QED BY <1>2, <2>2 DEF Grabs
<1>4. Blocks(t) = Blocks(s) /\ LiveOf(t) = LiveOf(s) /\ DeadOf(t) = DeadOf(s)
  BY <1>2 DEF Blocks, LiveOf, DeadOf
<1>5. /\ Blocks(t) = {b \in Blocks(s) : b.at \notin gone}
      /\ t.mwChain \in Seq(BlockType) /\ DistinctAt(t.mwChain)
  BY <1>2, <1>4 DEF Lists
<1>6. Lists(t)
  BY <1>2, <1>3, <1>5, Shrunk
<1>7. /\ \A g \in Grabs(s) : g.hit => g \in Grabs(t) \/ <<"wild pointer", g.at>> \in t.log
      /\ s.log \subseteq t.log
      /\ \A line \in t.log : line \in s.log \/ line[1] = "wild pointer"
  <2>1. \A g \in Grabs(s) : g.hit => g \in Grabs(t) \/ <<"wild pointer", g.at>> \in t.log
    BY <1>2, <1>3
  <2>2. s.log \subseteq t.log
    BY <1>2
  <2>3. ASSUME NEW line \in t.log, line \notin s.log PROVE line[1] = "wild pointer"
    <3>1. PICK g \in Grabs(s) : line = <<"wild pointer", g.at>>
      BY <1>2, <2>3
    <3> QED BY <3>1
  <2> QED BY <2>1, <2>2, <2>3
<1> QED BY <1>2, <1>3, <1>4, <1>6, <1>7 DEF GivesUp, t

\* What OfType and Dead find.
LEMMA OfTypeFacts ==
  ASSUME NEW s, Lists(s), NEW type
  PROVE  /\ OfType(s, type) \in Seq(GrabType)
         /\ Range(OfType(s, type)) = {g \in Grabs(s) : g.type = type}
<1> DEFINE I == {i \in DOMAIN s.mwGrabList : s.mwGrabList[i].type = type}
<1>1. s.mwGrabList \in Seq(GrabType) /\ I \in SUBSET DOMAIN s.mwGrabList
  BY DEF Lists
<1>2. Pick(s.mwGrabList, I) \in Seq(GrabType)
      /\ Range(Pick(s.mwGrabList, I)) = {s.mwGrabList[i] : i \in I}
  <2> HIDE DEF I
  <2> QED BY <1>1, PickFacts
<1>3. {s.mwGrabList[i] : i \in I} = {g \in Grabs(s) : g.type = type}
  BY DEF Grabs, Range
<1> QED BY <1>2, <1>3 DEF OfType

\* Dead lists the blocks of the chain that are no-mans-land.
LEMMA DeadFacts ==
  ASSUME NEW s, Lists(s)
  PROVE  /\ Dead(s) \in Seq(BlockType) /\ Range(Dead(s)) = DeadOf(s)
         /\ Len(Dead(s)) = Cardinality(DeadOf(s))
         /\ DeadOf(s) = {} => Dead(s) = <<>>
<1> DEFINE I == {i \in DOMAIN s.mwChain : s.mwChain[i].nml}
<1>1. s.mwChain \in Seq(BlockType) /\ I \in SUBSET DOMAIN s.mwChain /\ DistinctAt(s.mwChain)
  BY DEF Lists
<1>2. /\ Pick(s.mwChain, I) \in Seq(BlockType)
      /\ Range(Pick(s.mwChain, I)) = {s.mwChain[i] : i \in I}
      /\ \A k, l \in DOMAIN Pick(s.mwChain, I) : k # l =>
           \E i, j \in I : i # j /\ Pick(s.mwChain, I)[k] = s.mwChain[i] /\ Pick(s.mwChain, I)[l] = s.mwChain[j]
  <2> HIDE DEF I
  <2> QED BY <1>1, PickFacts
<1>3. {s.mwChain[i] : i \in I} = DeadOf(s)
  BY DEF DeadOf, Blocks, Range
<1>4. DistinctAt(Pick(s.mwChain, I))
  <2> SUFFICES ASSUME NEW k \in DOMAIN Pick(s.mwChain, I), NEW l \in DOMAIN Pick(s.mwChain, I), k # l
               PROVE  Pick(s.mwChain, I)[k].at # Pick(s.mwChain, I)[l].at
    BY DEF DistinctAt
  <2>1. PICK i \in I, j \in I : i # j /\ Pick(s.mwChain, I)[k] = s.mwChain[i] /\ Pick(s.mwChain, I)[l] = s.mwChain[j]
    BY <1>2
  <2>2. i \in DOMAIN s.mwChain /\ j \in DOMAIN s.mwChain
    OBVIOUS
  <2> QED BY <1>1, <2>1, <2>2 DEF DistinctAt
<1>5. Dead(s) = Pick(s.mwChain, I)
  BY DEF Dead
<1> HIDE DEF I
<1>6. Dead(s) \in Seq(BlockType) /\ Range(Dead(s)) = DeadOf(s) /\ DistinctAt(Dead(s))
  BY <1>2, <1>3, <1>4, <1>5
<1>7. Len(Dead(s)) = Cardinality(DeadOf(s))
  BY <1>6, RangeFacts
<1>8. DeadOf(s) = {} => Dead(s) = <<>>
  BY <1>6, <1>7, FS_EmptySet
<1> QED BY <1>6, <1>7, <1>8

\* mwDrop_ gives up grabbed memory of its type only, for 0 all of it.
LEMMA DropFacts ==
  ASSUME NEW s, Lists(s), NEW kb \in Nat, NEW type
  PROVE  /\ GivesUp(s, Drop(s, kb, type))
         /\ DeadOf(Drop(s, kb, type)) = DeadOf(s)
         /\ Drop(s, kb, type).mwChain = s.mwChain
         /\ kb = 0 => Grabs(Drop(s, kb, type)) = {g \in Grabs(s) : g.type # type}
<1> DEFINE held == OfType(s, type)
           n == IF kb = 0 THEN Len(held) ELSE Min({kb, Len(held)})
           gone == {held[i].at : i \in 1 .. n}
<1>1. /\ held \in Seq(GrabType) /\ Range(held) = {g \in Grabs(s) : g.type = type}
      /\ Len(held) \in Nat /\ DOMAIN held = 1 .. Len(held)
  BY OfTypeFacts
<1> HIDE DEF held
<1>2. n \in 0 .. Len(held)
  <2>1. CASE kb = 0
    BY <1>1, <2>1
  <2>2. CASE kb # 0
    <3>1. {kb, Len(held)} \in SUBSET Nat /\ {kb, Len(held)} # {}
      BY <1>1
    <3>2. Min({kb, Len(held)}) \in {kb, Len(held)} /\ Min({kb, Len(held)}) <= Len(held)
      BY <3>1, SmallestOf
    <3> QED BY <1>1, <2>2, <3>2
  <2> QED BY <2>1, <2>2
<1> HIDE DEF n
<1>3. \A i \in 1 .. n : held[i] \in Grabs(s)
  BY <1>1, <1>2 DEF Range
<1>4. \A g \in gone : \A b \in Blocks(s) : b.at # g
  BY <1>3 DEF Lists
<1>5. Drop(s, kb, type) = DropThese(s, gone)
  BY DEF Drop, held, n
<1>6. kb = 0 => {g \in Grabs(s) : g.at \notin gone} = {g \in Grabs(s) : g.type # type}
  <2> HAVE kb = 0
  <2>1. gone = {held[i].at : i \in DOMAIN held}
    BY <1>1 DEF n
  <2>2. gone = {g.at : g \in {h \in Grabs(s) : h.type = type}}
    BY <1>1, <2>1, ZenonT(40) DEF Range
  <2>3. \A g, h \in Grabs(s) : g.at = h.at => g = h
    BY ListTypes
  <2> QED BY <2>2, <2>3
<1> HIDE DEF gone
<1> QED BY <1>4, <1>5, <1>6, DropTheseFacts

\* mwFreeUp gives up no-mans-land only, and when there is still no room, none
\* is left of it.
LEMMA FreeUpFacts ==
  ASSUME NEW s, Lists(s), NEW needed
  PROVE  /\ GivesUp(s, mwFreeUp(s, needed))
         /\ Room(mwFreeUp(s, needed).out, needed) = {} =>
              /\ DeadOf(mwFreeUp(s, needed)) = {}
              /\ \A g \in Grabs(mwFreeUp(s, needed)) : g.type = "grabbed"
<1> DEFINE grabs == OfType(s, "no-mans-land")
           first == [i \in DOMAIN grabs |-> grabs[i].at]
           second == [i \in DOMAIN Dead(s) |-> Dead(s)[i].at]
           spare == first \o second
           First(k) == {spare[i] : i \in 1 .. k}
           enough == {k \in 1 .. Len(spare) : Room(LibFree(s, First(k)).out, needed) # {}}
           all == IF enough = {} THEN Len(spare) ELSE Min(enough)
           gone == First(all)
           blocks == {b \in Range(Dead(s)) : b.at \in gone}
           t == mwFreeUp(s, needed)
<1>1. /\ grabs \in Seq(GrabType) /\ Range(grabs) = {g \in Grabs(s) : g.type = "no-mans-land"}
      /\ Len(grabs) \in Nat /\ DOMAIN grabs = 1 .. Len(grabs)
  BY OfTypeFacts
<1>2. /\ Dead(s) \in Seq(BlockType) /\ Range(Dead(s)) = DeadOf(s)
      /\ Len(Dead(s)) \in Nat /\ DOMAIN Dead(s) = 1 .. Len(Dead(s))
  BY DeadFacts
<1>3. t = [mwUnlink(DropThese(s, gone), gone) EXCEPT !.log = @ \cup UNION {TestDead(b) : b \in blocks}]
  BY DEF mwFreeUp
<1> HIDE DEF t, grabs
<1>4. /\ first \in Seq(Addresses) /\ Len(first) = Len(grabs)
      /\ second \in Seq(Addresses) /\ Len(second) = Len(Dead(s))
  <2>1. ASSUME NEW i \in DOMAIN grabs PROVE grabs[i].at \in Addresses
    <3>1. grabs[i] \in GrabType
      BY <1>1
    <3> QED BY <3>1 DEF GrabType
  <2>2. ASSUME NEW i \in DOMAIN Dead(s) PROVE Dead(s)[i].at \in Addresses
    <3>1. Dead(s)[i] \in BlockType
      BY <1>2
    <3> QED BY <3>1 DEF BlockType
  <2>3. first \in Seq(Addresses) /\ Len(first) = Len(grabs)
    BY <1>1, <2>1
  <2>4. second \in Seq(Addresses) /\ Len(second) = Len(Dead(s))
    BY <1>2, <2>2
  <2> QED BY <2>3, <2>4
<1>5. /\ Len(spare) = Len(grabs) + Len(Dead(s)) /\ Len(spare) \in Nat
      /\ \A i \in 1 .. Len(grabs) : spare[i] = grabs[i].at
      /\ \A i \in 1 .. Len(Dead(s)) : spare[Len(grabs) + i] = Dead(s)[i].at
  <2>1. /\ Len(spare) = Len(first) + Len(second)
        /\ \A i \in 1 .. Len(first) : spare[i] = first[i]
        /\ \A i \in 1 .. Len(second) : spare[Len(first) + i] = second[i]
    <3> HIDE DEF first, second
    <3>1. /\ Len(spare) = Len(first) + Len(second)
          /\ \A i \in 1 .. Len(first) + Len(second) :
               spare[i] = IF i <= Len(first) THEN first[i] ELSE second[i - Len(first)]
      BY <1>4, ConcatProperties
    <3> HIDE DEF spare
    <3>2. Len(first) \in Nat /\ Len(second) \in Nat
      BY <1>4
    <3>3. \A i \in 1 .. Len(first) : spare[i] = first[i]
      BY <3>1, <3>2
    <3>4. ASSUME NEW i \in 1 .. Len(second) PROVE spare[Len(first) + i] = second[i]
      <4>1. Len(first) + i \in 1 .. Len(first) + Len(second) /\ ~(Len(first) + i <= Len(first))
            /\ Len(first) + i - Len(first) = i
        BY <3>2
      <4> QED BY <3>1, <4>1
    <3> QED BY <3>1, <3>3, <3>4
  <2> HIDE DEF spare
  <2> QED BY <1>1, <1>2, <1>4, <2>1
<1> HIDE DEF spare
<1>6. \A i \in 1 .. Len(spare) : \/ \E g \in Grabs(s) : g.type = "no-mans-land" /\ g.at = spare[i]
                                 \/ \E b \in DeadOf(s) : b.at = spare[i]
  <2> SUFFICES ASSUME NEW i \in 1 .. Len(spare)
               PROVE  \/ \E g \in Grabs(s) : g.type = "no-mans-land" /\ g.at = spare[i]
                      \/ \E b \in DeadOf(s) : b.at = spare[i]
    OBVIOUS
  <2>1. CASE i \in 1 .. Len(grabs)
    BY <1>1, <1>5, <2>1 DEF Range
  <2>2. CASE i \notin 1 .. Len(grabs)
    <3>1. PICK j \in 1 .. Len(Dead(s)) : i = Len(grabs) + j
      <4>1. i - Len(grabs) \in 1 .. Len(Dead(s)) /\ i = Len(grabs) + (i - Len(grabs))
        BY <1>1, <1>2, <1>5, <2>2
      <4> QED BY <4>1
    <3>2. spare[i] = Dead(s)[j].at /\ Dead(s)[j] \in DeadOf(s)
      BY <1>2, <1>5, <3>1 DEF Range
    <3> QED BY <3>2
  <2> QED BY <2>1, <2>2
<1>7. /\ \A g \in Grabs(s) : g.type = "no-mans-land" => g.at \in First(Len(spare))
      /\ \A b \in DeadOf(s) : b.at \in First(Len(spare))
  <2>1. ASSUME NEW g \in Grabs(s), g.type = "no-mans-land" PROVE g.at \in First(Len(spare))
    <3>1. PICK i \in 1 .. Len(grabs) : grabs[i] = g
      BY <1>1, <2>1 DEF Range
    <3>2. i \in 1 .. Len(spare) /\ spare[i] = g.at
      BY <1>1, <1>2, <1>5, <3>1
    <3> QED BY <3>2
  <2>2. ASSUME NEW b \in DeadOf(s) PROVE b.at \in First(Len(spare))
    <3>1. PICK i \in 1 .. Len(Dead(s)) : Dead(s)[i] = b
      BY <1>2, <2>2 DEF Range
    <3>2. Len(grabs) + i \in 1 .. Len(spare) /\ spare[Len(grabs) + i] = b.at
      BY <1>1, <1>2, <1>5, <3>1
    <3> QED BY <3>2
  <2> QED BY <2>1, <2>2
<1>8. all \in 0 .. Len(spare) /\ (enough # {} => all \in enough)
  <2>1. CASE enough = {}
    <3> HIDE DEF enough
    <3> QED BY <1>5, <2>1
  <2>2. CASE enough # {}
    <3>1. enough \in SUBSET Nat /\ enough \in SUBSET (1 .. Len(spare))
      OBVIOUS
    <3> HIDE DEF enough
    <3>2. Min(enough) \in enough
      BY <2>2, <3>1, SmallestOf
    <3>3. all \in enough
      BY <2>2, <3>2
    <3>4. all \in 1 .. Len(spare)
      BY <3>1, <3>3
    <3> HIDE DEF all
    <3> QED BY <1>5, <3>3, <3>4
  <2> QED BY <2>1, <2>2
<1>9. \A a \in gone : \/ \E g \in Grabs(s) : g.type = "no-mans-land" /\ g.at = a
                      \/ \E b \in DeadOf(s) : b.at = a
  <2> HIDE DEF all
  <2> QED BY <1>5, <1>6, <1>8
<1>10. enough = {} \/ Room({o \in s.out : o.at \notin gone}, needed) # {}
  <2> SUFFICES ASSUME enough # {} PROVE Room({o \in s.out : o.at \notin gone}, needed) # {}
    OBVIOUS
  <2>1. Room(LibFree(s, gone).out, needed) # {}
    <3>1. all \in enough
      BY <1>8
    <3> HIDE DEF all
    <3> QED BY <3>1
  <2>2. LibFree(s, gone).out = {o \in s.out : o.at \notin gone}
    <3>1. DOMAIN s = Names
      BY DEF Lists
    <3> HIDE DEF gone
    <3> QED BY <3>1 DEF LibFree, Names
  <2> QED BY <2>1, <2>2
<1>11. enough = {} => gone = First(Len(spare))
  OBVIOUS
<1> HIDE DEF enough, gone, First
<1>12. /\ DOMAIN t = Names /\ SameBooks(s, t)
       /\ t.mwChain = Without(s.mwChain, gone) /\ t.mwGrabList = Without(s.mwGrabList, gone)
       /\ t.out = {o \in s.out : o.at \notin gone}
       /\ t.log = s.log \cup {<<"wild pointer", g.at>> : g \in {h \in Grabs(s) : h.at \in gone /\ h.hit}}
                        \cup UNION {TestDead(b) : b \in blocks}
  <2>1. DOMAIN s = Names
    BY DEF Lists
  <2> HIDE DEF blocks
  <2> QED BY <1>3, <2>1 DEF Names, DropThese, LibFree, mwUnlink, SameBooks, Grabs
<1>13. /\ t.mwChain \in Seq(BlockType) /\ DistinctAt(t.mwChain)
       /\ Blocks(t) = {b \in Blocks(s) : b.at \notin gone}
  <2>1. s.mwChain \in Seq(BlockType) /\ DistinctAt(s.mwChain)
    BY DEF Lists
  <2>2. /\ Without(s.mwChain, gone) \in Seq(BlockType) /\ DistinctAt(Without(s.mwChain, gone))
        /\ Range(Without(s.mwChain, gone)) = {g \in Range(s.mwChain) : g.at \notin gone}
    BY <2>1, WithoutFacts
  <2> QED BY <1>12, <2>2 DEF Blocks
<1>14. /\ t.mwGrabList \in Seq(GrabType) /\ DistinctAt(t.mwGrabList)
       /\ Grabs(t) = {g \in Grabs(s) : g.at \notin gone}
  <2>1. s.mwGrabList \in Seq(GrabType) /\ DistinctAt(s.mwGrabList)
    BY DEF Lists
  <2>2. /\ Without(s.mwGrabList, gone) \in Seq(GrabType) /\ DistinctAt(Without(s.mwGrabList, gone))
        /\ Range(Without(s.mwGrabList, gone)) = {g \in Range(s.mwGrabList) : g.at \notin gone}
    BY <2>1, WithoutFacts
  <2> QED BY <1>12, <2>2 DEF Grabs
<1>15. Lists(t)
  BY <1>12, <1>13, <1>14, Shrunk
<1>16. LiveOf(t) = LiveOf(s)
  <2>1. \A b \in LiveOf(s) : b.at \notin gone
    <3> SUFFICES ASSUME NEW b \in LiveOf(s), b.at \in gone PROVE FALSE
      OBVIOUS
    <3>1. b \in Blocks(s) /\ ~b.nml
      BY DEF LiveOf
    <3>2. ASSUME NEW g \in Grabs(s), g.at = b.at PROVE FALSE
      BY <3>1, <3>2 DEF Lists
    <3>3. ASSUME NEW c \in DeadOf(s), c.at = b.at PROVE FALSE
      <4>1. c \in Blocks(s) /\ c.nml
        BY DEF DeadOf
      <4> QED BY <3>1, <3>3, <4>1, ListTypes
    <3> QED BY <1>9, <3>2, <3>3
  <2> QED BY <1>13, <2>1 DEF LiveOf
<1>17. DeadOf(t) = {b \in DeadOf(s) : b.at \notin gone}
  BY <1>13 DEF DeadOf
<1>18. \A b \in DeadOf(s) : b.hit => b \in DeadOf(t) \/ <<"wild pointer", b.at>> \in t.log
  <2> SUFFICES ASSUME NEW b \in DeadOf(s), b.hit, b.at \in gone PROVE <<"wild pointer", b.at>> \in t.log
    BY <1>17
  <2>1. b \in blocks /\ b.nml
    BY <1>2 DEF DeadOf
  <2>2. <<"wild pointer", b.at>> \in TestDead(b)
    BY <2>1 DEF TestDead
  <2> QED BY <1>12, <2>1, <2>2
<1>19. \A g \in Grabs(s) : g.hit => g \in Grabs(t) \/ <<"wild pointer", g.at>> \in t.log
  BY <1>12, <1>14
<1>20. ASSUME NEW line \in t.log, line \notin s.log PROVE line[1] = "wild pointer"
  <2>1. CASE \E g \in Grabs(s) : line = <<"wild pointer", g.at>>
    <3>1. PICK g \in Grabs(s) : line = <<"wild pointer", g.at>>
      BY <2>1
    <3> QED BY <3>1
  <2>2. CASE \E b \in blocks : line \in TestDead(b)
    <3>1. PICK b \in blocks : line \in TestDead(b)
      BY <2>2
    <3>2. line = <<"wild pointer", b.at>>
      BY <3>1 DEF TestDead
    <3> QED BY <3>2
  <2> QED BY <1>12, <1>20, <2>1, <2>2
<1>21. DeadOf(t) \subseteq DeadOf(s) /\ Grabs(t) \subseteq Grabs(s) /\ t.out \subseteq s.out /\ s.log \subseteq t.log
  BY <1>12, <1>14, <1>17
<1>22. GivesUp(s, t)
  BY <1>12, <1>15, <1>16, <1>18, <1>19, <1>20, <1>21 DEF GivesUp
<1>23. Room(t.out, needed) = {} => DeadOf(t) = {} /\ \A g \in Grabs(t) : g.type = "grabbed"
  <2> HAVE Room(t.out, needed) = {}
  <2>1. gone = First(Len(spare))
    BY <1>10, <1>11, <1>12
  <2>2. DeadOf(t) = {}
    BY <1>7, <1>17, <2>1
  <2>3. ASSUME NEW g \in Grabs(t) PROVE g.type = "grabbed"
    <3>1. g \in Grabs(s) /\ g.at \notin gone
      BY <1>14
    <3>2. g.type \in {"grabbed", "no-mans-land"}
      BY <3>1, ListTypes DEF GrabType
    <3> QED BY <1>7, <2>1, <3>1, <3>2
  <2> QED BY <2>2, <2>3
<1> QED BY <1>22, <1>23 DEF t

---------------------------------------------------------------------------
(* Memory that is taken *)

\* mwGrab_ adds kilobytes where nothing was; they are whole.
LEMMA GrabFacts ==
  ASSUME NEW s, Lists(s), s.mwAllocLimit \in Nat, s.mwStatCurAlloc \in Nat, NEW kb \in Nat,
         NEW type \in {"grabbed", "no-mans-land"}
  PROVE  LET t == Grab(s, kb, type)
         IN  /\ Lists(t) /\ SameBooks(s, t) /\ t.log = s.log /\ t.mwChain = s.mwChain
             /\ Grabs(s) \subseteq Grabs(t)
<1> DEFINE room == Room(s.out, 1)
           free == Ascending(room)
           allowed == IF s.mwAllocLimit = 0 THEN Len(free)
                      ELSE s.mwAllocLimit - s.mwStatCurAlloc - Len(s.mwGrabList)
           low == Min({Len(free), allowed} \cup (IF kb = 0 THEN {} ELSE {kb}))
           n == Max({0, low})
           new == [i \in 1 .. n |-> [at |-> free[n + 1 - i], type |-> type, hit |-> FALSE]]
           t == Grab(s, kb, type)
<1>1. room \in SUBSET (1 .. Mem) /\ Mem \in Nat
  BY MemAssumption DEF Room, Addresses
<1>2. /\ Cardinality(room) \in Nat
      /\ \A k \in 1 .. Cardinality(room) : free[k] \in room
      /\ \A k, l \in 1 .. Cardinality(room) : free[k] = free[l] => k = l
  <2> HIDE DEF room
  <2> QED BY <1>1, AscendingFacts
<1>3. Len(free) = Cardinality(room)
  <2>1. free = [k \in 1 .. Cardinality(room) |-> CHOOSE i \in room : Cardinality({j \in room : j <= i}) = k]
    BY DEF Ascending
  <2> HIDE DEF room, free
  <2> QED BY <1>2, <2>1
<1>4. t = [s EXCEPT !.mwGrabList = new \o @, !.out = @ \cup {[at |-> new[i].at, units |-> 1] : i \in 1 .. n}]
  BY DEF Grab
<1> HIDE DEF t, free
<1>5. /\ \A a \in room : a \in Addresses /\ a <= Mem
      /\ \A a \in room : \A o \in s.out : a \notin Span(o)
  <2>1. ASSUME NEW a \in room PROVE a \in Addresses /\ a <= Mem /\ \A o \in s.out : a \notin Span(o)
    <3>1. a \in 1 .. Mem /\ a .. a + 1 - 1 = {a}
      BY <1>1
    <3>2. \A o \in s.out : (a .. a + 1 - 1) \cap Span(o) = {}
      BY DEF Room
    <3> QED BY <1>1, <3>1, <3>2 DEF Addresses
  <2> QED BY <2>1
<1> HIDE DEF room
<1>6. Len(s.mwGrabList) \in Nat
  BY DEF Lists
<1>7. allowed \in Int
  BY <1>2, <1>3, <1>6
<1> HIDE DEF allowed
<1>8. low \in Int /\ low <= Len(free)
  <2>1. CASE kb = 0
    <3>1. low = Min({Len(free), allowed})
      BY <2>1
    <3> HIDE DEF low
    <3>2. low = IF Len(free) <= allowed THEN Len(free) ELSE allowed
      BY <1>2, <1>3, <1>7, <3>1 DEF Min
    <3> QED BY <1>2, <1>3, <1>7, <3>2
  <2>2. CASE kb # 0
    <3>1. low = Min({Len(free), allowed, kb})
      <4>1. {Len(free), allowed} \cup (IF kb = 0 THEN {} ELSE {kb}) = {Len(free), allowed, kb}
        BY <2>2
      <4> QED BY <4>1
    <3> HIDE DEF low
    <3>2. \E x \in {Len(free), allowed, kb} : \A y \in {Len(free), allowed, kb} : x <= y
      BY <1>2, <1>3, <1>7
    <3>3. low \in {Len(free), allowed, kb} /\ \A y \in {Len(free), allowed, kb} : low <= y
      BY <3>1, <3>2 DEF Min
    <3> QED BY <1>2, <1>3, <1>7, <3>3
  <2> QED BY <2>1, <2>2
<1> HIDE DEF low
<1>9. n \in 0 .. Len(free)
  <2>1. n = IF low <= 0 THEN 0 ELSE low
    BY <1>8 DEF Max
  <2> HIDE DEF n
  <2> QED BY <1>2, <1>3, <1>8, <2>1
<1> HIDE DEF n
<1>10. /\ new \in Seq(GrabType) /\ Len(new) = n /\ DOMAIN new = 1 .. n
       /\ \A i \in 1 .. n : new[i].at \in room /\ new[i].at \in Addresses /\ ~new[i].hit
       /\ DistinctAt(new)
  <2>1. \A i \in 1 .. n : n + 1 - i \in 1 .. Cardinality(room)
    BY <1>2, <1>3, <1>9
  <2>2. \A i \in 1 .. n : /\ new[i] = [at |-> free[n + 1 - i], type |-> type, hit |-> FALSE]
                          /\ free[n + 1 - i] \in room /\ free[n + 1 - i] \in Addresses
    BY <1>2, <1>5, <2>1
  <2>3. DOMAIN new = 1 .. n /\ n \in Nat
    BY <1>2, <1>3, <1>9
  <2>4. \A i \in 1 .. n : new[i] \in GrabType
    BY <2>2 DEF GrabType
  <2>5. new \in Seq(GrabType) /\ Len(new) = n
    <3>1. new \in [1 .. n -> GrabType]
      BY <2>4
    <3> HIDE DEF new
    <3> QED BY <2>3, <3>1
  <2>6. \A i, j \in 1 .. n : new[i].at = new[j].at => i = j
    <3> SUFFICES ASSUME NEW i \in 1 .. n, NEW j \in 1 .. n, new[i].at = new[j].at PROVE i = j
      OBVIOUS
    <3>1. n + 1 - i = n + 1 - j
      BY <1>2, <2>1, <2>2
    <3> QED BY <2>3, <3>1
  <2>7. \A i \in 1 .. n : new[i].at \in room /\ new[i].at \in Addresses /\ ~new[i].hit
    <3> SUFFICES ASSUME NEW i \in 1 .. n PROVE new[i].at \in room /\ new[i].at \in Addresses /\ ~new[i].hit
      OBVIOUS
    <3>1. new[i].at = free[n + 1 - i] /\ new[i].hit = FALSE
      OBVIOUS
    <3> HIDE DEF new
    <3> QED BY <2>2, <3>1
  <2> HIDE DEF new
  <2> QED BY <2>3, <2>5, <2>6, <2>7 DEF DistinctAt
<1> HIDE DEF new
<1>11. /\ DOMAIN t = Names /\ SameBooks(s, t) /\ t.log = s.log
       /\ t.mwChain = s.mwChain /\ t.mwGrabList = new \o s.mwGrabList
       /\ t.out = s.out \cup {[at |-> new[i].at, units |-> 1] : i \in 1 .. n}
  <2>1. DOMAIN s = Names
    BY DEF Lists
  <2> QED BY <1>4, <2>1 DEF Names, SameBooks
<1>12. /\ t.mwGrabList \in Seq(GrabType)
       /\ Len(t.mwGrabList) = n + Len(s.mwGrabList)
       /\ \A i \in 1 .. n : t.mwGrabList[i] = new[i]
       /\ \A i \in 1 .. Len(s.mwGrabList) : t.mwGrabList[n + i] = s.mwGrabList[i]
       /\ \A i \in 1 .. n + Len(s.mwGrabList) : t.mwGrabList[i] = IF i <= n THEN new[i] ELSE s.mwGrabList[i - n]
  <2>0. s.mwGrabList \in Seq(GrabType) /\ n \in Nat
    BY <1>2, <1>3, <1>9 DEF Lists
  <2>1. /\ t.mwGrabList \in Seq(GrabType) /\ Len(t.mwGrabList) = Len(new) + Len(s.mwGrabList)
        /\ \A i \in 1 .. Len(new) + Len(s.mwGrabList) :
             t.mwGrabList[i] = IF i <= Len(new) THEN new[i] ELSE s.mwGrabList[i - Len(new)]
    <3>1. new \in Seq(GrabType) /\ t.mwGrabList = new \o s.mwGrabList
      BY <1>10, <1>11
    <3> QED BY <2>0, <3>1, ConcatProperties
  <2>2. \A i \in 1 .. n : t.mwGrabList[i] = new[i]
    <3> SUFFICES ASSUME NEW i \in 1 .. n PROVE t.mwGrabList[i] = new[i]
      OBVIOUS
    <3>1. Len(new) = n
      BY <1>10
    <3>2. i \in 1 .. Len(new) + Len(s.mwGrabList) /\ i <= Len(new)
      BY <1>6, <2>0, <3>1
    <3> QED BY <2>1, <3>2
  <2>3. ASSUME NEW i \in 1 .. Len(s.mwGrabList) PROVE t.mwGrabList[n + i] = s.mwGrabList[i]
    <3>1. n + i \in 1 .. n + Len(s.mwGrabList) /\ ~(n + i <= n) /\ n + i - n = i
      BY <1>6, <2>0
    <3> QED BY <1>10, <2>1, <3>1
  <2> QED BY <1>10, <2>1, <2>2, <2>3
<1>13. Grabs(t) = Grabs(s) \cup {new[i] : i \in 1 .. n}
  <2>1. DOMAIN t.mwGrabList = 1 .. n + Len(s.mwGrabList) /\ DOMAIN s.mwGrabList = 1 .. Len(s.mwGrabList)
    BY <1>6, <1>12 DEF Lists
  <2>2. n \in Nat
    BY <1>2, <1>3, <1>9
  <2>3. \A i \in 1 .. n + Len(s.mwGrabList) : t.mwGrabList[i] \in Grabs(s) \cup {new[j] : j \in 1 .. n}
    <3> SUFFICES ASSUME NEW i \in 1 .. n + Len(s.mwGrabList), ~(i <= n) PROVE t.mwGrabList[i] \in Grabs(s)
      BY <1>6, <1>12, <2>2
    <3>1. i - n \in 1 .. Len(s.mwGrabList) /\ t.mwGrabList[i] = s.mwGrabList[i - n]
      BY <1>6, <1>12, <2>2
    <3> QED BY <2>1, <3>1 DEF Grabs, Range
  <2>4. \A g \in Grabs(s) : g \in Grabs(t)
    <3> SUFFICES ASSUME NEW i \in 1 .. Len(s.mwGrabList) PROVE s.mwGrabList[i] \in Grabs(t)
      BY <2>1 DEF Grabs, Range
    <3>1. n + i \in DOMAIN t.mwGrabList /\ t.mwGrabList[n + i] = s.mwGrabList[i]
      BY <1>6, <1>12, <2>1, <2>2
    <3> QED BY <3>1 DEF Grabs, Range
  <2>5. \A i \in 1 .. n : new[i] \in Grabs(t)
    <3> SUFFICES ASSUME NEW i \in 1 .. n PROVE new[i] \in Grabs(t)
      OBVIOUS
    <3>1. i \in DOMAIN t.mwGrabList /\ t.mwGrabList[i] = new[i]
      BY <1>6, <1>12, <2>1, <2>2
    <3> QED BY <3>1 DEF Grabs, Range
  <2>6. \A g \in Grabs(t) : g \in Grabs(s) \cup {new[j] : j \in 1 .. n}
    BY <2>1, <2>3 DEF Grabs, Range
  <2> QED BY <2>4, <2>5, <2>6
<1>14. \A i \in 1 .. n : \A o \in s.out : o.at # new[i].at /\ new[i].at \notin Span(o)
  <2> SUFFICES ASSUME NEW i \in 1 .. n, NEW o \in s.out PROVE o.at # new[i].at /\ new[i].at \notin Span(o)
    OBVIOUS
  <2>1. new[i].at \notin Span(o)
    BY <1>5, <1>10
  <2>2. o.at \in Span(o)
    <3>1. o.at \in Addresses /\ o.units \in Nat \ {0}
      BY ListTypes
    <3>2. o.at \in Int
      BY <1>1, <3>1 DEF Addresses
    <3> QED BY <3>1, <3>2 DEF Span
  <2> QED BY <2>1, <2>2
<1>15. /\ \A b \in Blocks(s) : \A i \in 1 .. n : b.at # new[i].at
       /\ \A g \in Grabs(s) : \A i \in 1 .. n : g.at # new[i].at
  <2>1. ASSUME NEW b \in Blocks(s), NEW i \in 1 .. n PROVE b.at # new[i].at
    <3>1. Place(b) \in s.out /\ Place(b).at = b.at
      BY DEF Lists, Place
    <3> QED BY <1>14, <3>1
  <2>2. ASSUME NEW g \in Grabs(s), NEW i \in 1 .. n PROVE g.at # new[i].at
    <3>1. Kilobyte(g) \in s.out /\ Kilobyte(g).at = g.at
      BY DEF Lists, Kilobyte
    <3> QED BY <1>14, <3>1
  <2> QED BY <2>1, <2>2
<1>16. DistinctAt(t.mwGrabList)
  <2> SUFFICES ASSUME NEW i \in 1 .. n + Len(s.mwGrabList), NEW j \in 1 .. n + Len(s.mwGrabList),
                      t.mwGrabList[i].at = t.mwGrabList[j].at
               PROVE  i = j
    BY <1>12 DEF DistinctAt
  <2>1. n \in Nat /\ DOMAIN s.mwGrabList = 1 .. Len(s.mwGrabList) /\ DistinctAt(s.mwGrabList)
    BY <1>2, <1>3, <1>9 DEF Lists
  <2>2. \A k \in 1 .. n + Len(s.mwGrabList) : ~(k <= n) =>
           /\ k - n \in 1 .. Len(s.mwGrabList) /\ t.mwGrabList[k] = s.mwGrabList[k - n]
           /\ t.mwGrabList[k] \in Grabs(s)
    <3> SUFFICES ASSUME NEW k \in 1 .. n + Len(s.mwGrabList), ~(k <= n)
                 PROVE  /\ k - n \in 1 .. Len(s.mwGrabList) /\ t.mwGrabList[k] = s.mwGrabList[k - n]
                        /\ t.mwGrabList[k] \in Grabs(s)
      OBVIOUS
    <3>1. k - n \in 1 .. Len(s.mwGrabList)
      BY <1>6, <2>1
    <3>2. t.mwGrabList[k] = s.mwGrabList[k - n]
      BY <1>12
    <3> QED BY <2>1, <3>1, <3>2 DEF Grabs, Range
  <2>3. \A k \in 1 .. n + Len(s.mwGrabList) : k <= n => k \in 1 .. n /\ t.mwGrabList[k] = new[k]
    BY <1>6, <1>12, <2>1
  <2>4. CASE i <= n /\ j <= n
    BY <1>10, <2>3, <2>4 DEF DistinctAt
  <2>5. CASE ~(i <= n) /\ ~(j <= n)
    <3>0. s.mwGrabList[i - n].at = s.mwGrabList[j - n].at
      BY <2>2, <2>5
    <3>1. i - n = j - n
      BY <2>1, <2>2, <2>5, <3>0 DEF DistinctAt
    <3> QED BY <1>6, <2>1, <3>1
  <2>6. CASE ~(i <= n) /\ j <= n
    BY <1>15, <2>2, <2>3, <2>6
  <2>7. CASE i <= n /\ ~(j <= n)
    BY <1>15, <2>2, <2>3, <2>7
  <2> QED BY <2>4, <2>5, <2>6, <2>7
<1>17. Blocks(t) = Blocks(s)
  BY <1>11 DEF Blocks
<1>18. t.out = {Place(b) : b \in Blocks(t)} \cup {Kilobyte(g) : g \in Grabs(t)}
  <2>1. {[at |-> new[i].at, units |-> 1] : i \in 1 .. n} = {Kilobyte(g) : g \in {new[i] : i \in 1 .. n}}
    BY DEF Kilobyte
  <2>2. s.out = {Place(b) : b \in Blocks(s)} \cup {Kilobyte(g) : g \in Grabs(s)}
    BY DEF Lists
  <2> QED BY <1>11, <1>13, <1>17, <2>1, <2>2
<1>19. \A o, p \in t.out : o.at # p.at => Span(o) \cap Span(p) = {}
  <2>1. \A i \in 1 .. n : Span([at |-> new[i].at, units |-> 1]) = {new[i].at}
    <3> SUFFICES ASSUME NEW i \in 1 .. n PROVE new[i].at .. new[i].at + 1 - 1 = {new[i].at}
      BY DEF Span
    <3>1. new[i].at \in Int
      BY <1>1, <1>10 DEF Addresses
    <3> QED BY <3>1
  <2>2. \A o, p \in s.out : o.at # p.at => Span(o) \cap Span(p) = {}
    BY DEF Lists
  <2> SUFFICES ASSUME NEW o \in t.out, NEW p \in t.out, o.at # p.at PROVE Span(o) \cap Span(p) = {}
    OBVIOUS
  <2>3. ASSUME NEW q \in t.out
        PROVE  q \in s.out \/ \E i \in 1 .. n : q = [at |-> new[i].at, units |-> 1]
    BY <1>11
  <2>4. CASE o \in s.out /\ p \in s.out
    BY <2>2, <2>4
  <2>5. ASSUME NEW i \in 1 .. n, o = [at |-> new[i].at, units |-> 1], p \in s.out PROVE Span(o) \cap Span(p) = {}
    BY <1>14, <2>1, <2>5
  <2>6. ASSUME NEW i \in 1 .. n, p = [at |-> new[i].at, units |-> 1], o \in s.out PROVE Span(o) \cap Span(p) = {}
    BY <1>14, <2>1, <2>6
  <2>7. ASSUME NEW i \in 1 .. n, o = [at |-> new[i].at, units |-> 1],
               NEW j \in 1 .. n, p = [at |-> new[j].at, units |-> 1]
        PROVE Span(o) \cap Span(p) = {}
    BY <2>1, <2>7
  <2> QED BY <2>3, <2>4, <2>5, <2>6, <2>7
<1>20. \A o \in t.out : o.at + o.units - 1 <= Mem
  <2>1. \A i \in 1 .. n : new[i].at + 1 - 1 <= Mem
    BY <1>1, <1>10 DEF Addresses
  <2>2. \A o \in s.out : o.at + o.units - 1 <= Mem
    BY DEF Lists
  <2> SUFFICES ASSUME NEW o \in t.out PROVE o.at + o.units - 1 <= Mem
    OBVIOUS
  <2>3. ASSUME NEW i \in 1 .. n, o = [at |-> new[i].at, units |-> 1] PROVE o.at + o.units - 1 <= Mem
    BY <2>1, <2>3
  <2> QED BY <1>11, <2>2, <2>3
<1>21. Lists(t)
  <2>1. /\ s.mwChain \in Seq(BlockType) /\ DistinctAt(s.mwChain)
        /\ \A b \in Blocks(s) : b.hit => b.nml
        /\ \A b \in Blocks(s), g \in Grabs(s) : b.at # g.at
    BY DEF Lists
  <2>2. ASSUME NEW b \in Blocks(t), NEW g \in Grabs(t) PROVE b.at # g.at
    <3>1. b \in Blocks(s) /\ (g \in Grabs(s) \/ \E i \in 1 .. n : g = new[i])
      BY <1>13, <1>17
    <3>2. ASSUME NEW i \in 1 .. n, g = new[i] PROVE b.at # g.at
      BY <1>15, <3>1, <3>2
    <3>3. ASSUME g \in Grabs(s) PROVE b.at # g.at
      BY <2>1, <3>1, <3>3
    <3> QED BY <3>1, <3>2, <3>3
  <2> QED BY <1>11, <1>12, <1>16, <1>17, <1>18, <1>19, <1>20, <2>1, <2>2 DEF Lists
<1> QED BY <1>11, <1>13, <1>21 DEF t

NewBlock(a, size) == [at |-> a, size |-> size, nml |-> FALSE, torn |-> FALSE, hit |-> FALSE]

\* An allocation adds one live block, apart from all that was there.
LEMMA LinkFacts ==
  ASSUME NEW s, Lists(s), NEW size \in Nat, NEW a \in Room(s.out, Units(size))
  PROVE  LET t == Link(s, a, size)
         IN  /\ Lists(t)
             /\ Blocks(t) = Blocks(s) \cup {NewBlock(a, size)}
             /\ LiveOf(t) = LiveOf(s) \cup {NewBlock(a, size)}
             /\ DeadOf(t) = DeadOf(s) /\ Grabs(t) = Grabs(s)
             /\ a \in Addresses /\ \A b \in Blocks(s) : b.at # a
             /\ \A b \in Blocks(s) : (a .. a + Units(size) - 1) \cap (b.at .. b.at + Units(b.size) - 1) = {}
             /\ t.mwInited = s.mwInited /\ t.mwNML = s.mwNML /\ t.mwAllocLimit = s.mwAllocLimit
             /\ t.mwNumCurAlloc = s.mwNumCurAlloc + 1 /\ t.mwStatCurAlloc = s.mwStatCurAlloc + size
             /\ t.mwNmlNumAlloc = s.mwNmlNumAlloc /\ t.mwNmlCurAlloc = s.mwNmlCurAlloc
             /\ t.mwLastFree = s.mwLastFree /\ t.mwLFcur = s.mwLFcur /\ t.ptr = a /\ t.log = s.log
<1> DEFINE new == NewBlock(a, size)
           t == Link(s, a, size)
           here == [at |-> a, units |-> Units(size)]
<1>1. /\ a \in Addresses /\ a + Units(size) - 1 <= Mem
      /\ \A o \in s.out : (a .. a + Units(size) - 1) \cap Span(o) = {}
  BY DEF Room
<1>2. a \in Nat /\ Mem \in Nat /\ Units(size) \in Nat \ {0}
  BY <1>1, MemAssumption DEF Addresses, Units
<1>3. \A o \in s.out : o.at # a
  <2> SUFFICES ASSUME NEW o \in s.out, o.at = a PROVE FALSE
    OBVIOUS
  <2>1. o.units \in Nat \ {0}
    BY ListTypes
  <2>2. a \in Span(o) /\ a \in a .. a + Units(size) - 1
    BY <1>2, <2>1 DEF Span
  <2> QED BY <1>1, <2>2
<1>4. /\ \A b \in Blocks(s) : b.at # a /\ (a .. a + Units(size) - 1) \cap (b.at .. b.at + Units(b.size) - 1) = {}
      /\ \A g \in Grabs(s) : g.at # a
  <2>1. ASSUME NEW b \in Blocks(s)
        PROVE  b.at # a /\ (a .. a + Units(size) - 1) \cap (b.at .. b.at + Units(b.size) - 1) = {}
    <3>1. Place(b) \in s.out /\ Place(b).at = b.at /\ Span(Place(b)) = b.at .. b.at + Units(b.size) - 1
      BY DEF Lists, Place, Span
    <3> QED BY <1>1, <1>3, <3>1
  <2>2. ASSUME NEW g \in Grabs(s) PROVE g.at # a
    <3>1. Kilobyte(g) \in s.out /\ Kilobyte(g).at = g.at
      BY DEF Lists, Kilobyte
    <3> QED BY <1>3, <3>1
  <2> QED BY <2>1, <2>2
<1>5. /\ DOMAIN t = Names /\ t.mwChain = <<new>> \o s.mwChain /\ t.mwGrabList = s.mwGrabList
      /\ t.out = s.out \cup {here}
      /\ t.mwInited = s.mwInited /\ t.mwNML = s.mwNML /\ t.mwAllocLimit = s.mwAllocLimit
      /\ t.mwNumCurAlloc = s.mwNumCurAlloc + 1 /\ t.mwStatCurAlloc = s.mwStatCurAlloc + size
      /\ t.mwNmlNumAlloc = s.mwNmlNumAlloc /\ t.mwNmlCurAlloc = s.mwNmlCurAlloc
      /\ t.mwLastFree = s.mwLastFree /\ t.mwLFcur = s.mwLFcur /\ t.ptr = a /\ t.log = s.log
  <2>1. DOMAIN s = Names
    BY DEF Lists
  <2> QED BY <2>1 DEF Link, LibMalloc, NewBlock, Names
<1>6. new \in BlockType /\ new.at = a /\ new.size = size /\ ~new.nml /\ ~new.hit
  BY <1>1 DEF NewBlock, BlockType
<1> HIDE DEF new, t
<1>7. s.mwChain \in Seq(BlockType) /\ DOMAIN s.mwChain = 1 .. Len(s.mwChain) /\ Len(s.mwChain) \in Nat
      /\ DistinctAt(s.mwChain)
  BY DEF Lists
<1>8. /\ t.mwChain \in Seq(BlockType) /\ Len(t.mwChain) = 1 + Len(s.mwChain)
      /\ \A i \in 1 .. 1 + Len(s.mwChain) : t.mwChain[i] = IF i <= 1 THEN new ELSE s.mwChain[i - 1]
  <2>1. <<new>> \in Seq(BlockType) /\ Len(<<new>>) = 1 /\ <<new>>[1] = new
    BY <1>6
  <2>2. /\ <<new>> \o s.mwChain \in Seq(BlockType)
        /\ Len(<<new>> \o s.mwChain) = Len(<<new>>) + Len(s.mwChain)
        /\ \A i \in 1 .. Len(<<new>>) + Len(s.mwChain) :
             (<<new>> \o s.mwChain)[i] = IF i <= Len(<<new>>) THEN <<new>>[i] ELSE s.mwChain[i - Len(<<new>>)]
    BY <1>7, <2>1, ConcatProperties
  <2>3. \A i \in 1 .. 1 + Len(s.mwChain) : i <= 1 => i = 1
    OBVIOUS
  <2> QED BY <1>5, <1>7, <2>1, <2>2, <2>3
<1>9. /\ t.mwChain[1] = new
      /\ \A i \in 1 .. Len(s.mwChain) : t.mwChain[i + 1] = s.mwChain[i]
      /\ \A i \in DOMAIN t.mwChain : i # 1 => i - 1 \in 1 .. Len(s.mwChain) /\ t.mwChain[i] = s.mwChain[i - 1]
  <2>1. t.mwChain[1] = new
    BY <1>7, <1>8
  <2>2. ASSUME NEW i \in 1 .. Len(s.mwChain) PROVE t.mwChain[i + 1] = s.mwChain[i]
    <3>1. i + 1 \in 1 .. 1 + Len(s.mwChain) /\ ~(i + 1 <= 1) /\ i + 1 - 1 = i
      BY <1>7
    <3> QED BY <1>8, <3>1
  <2>3. ASSUME NEW i \in DOMAIN t.mwChain, i # 1
        PROVE i - 1 \in 1 .. Len(s.mwChain) /\ t.mwChain[i] = s.mwChain[i - 1]
    <3>1. i \in 1 .. 1 + Len(s.mwChain) /\ ~(i <= 1) /\ i - 1 \in 1 .. Len(s.mwChain)
      BY <1>7, <1>8, <2>3
    <3> QED BY <1>8, <3>1
  <2> QED BY <2>1, <2>2, <2>3
<1>10. Blocks(t) = Blocks(s) \cup {new}
  <2>1. DOMAIN t.mwChain = 1 .. 1 + Len(s.mwChain)
    BY <1>7, <1>8
  <2>2. 1 \in DOMAIN t.mwChain /\ \A i \in 1 .. Len(s.mwChain) : i + 1 \in DOMAIN t.mwChain
    BY <1>7, <2>1
  <2>3. new \in Blocks(t)
    BY <1>9, <2>2 DEF Blocks, Range
  <2>4. ASSUME NEW b \in Blocks(s) PROVE b \in Blocks(t)
    <3>1. PICK i \in 1 .. Len(s.mwChain) : s.mwChain[i] = b
      BY <1>7 DEF Blocks, Range
    <3> QED BY <1>9, <2>2, <3>1 DEF Blocks, Range
  <2>5. ASSUME NEW b \in Blocks(t) PROVE b = new \/ b \in Blocks(s)
    <3>1. PICK i \in DOMAIN t.mwChain : t.mwChain[i] = b
      BY DEF Blocks, Range
    <3> QED BY <1>7, <1>9, <3>1 DEF Blocks, Range
  <2> QED BY <2>3, <2>4, <2>5
<1>11. DistinctAt(t.mwChain)
  <2> SUFFICES ASSUME NEW i \in DOMAIN t.mwChain, NEW j \in DOMAIN t.mwChain, t.mwChain[i].at = t.mwChain[j].at
               PROVE  i = j
    BY DEF DistinctAt
  <2>0. \A k \in 1 .. Len(s.mwChain) : s.mwChain[k] \in Blocks(s)
    BY <1>7 DEF Blocks, Range
  <2>1. CASE i = 1 /\ j = 1
    BY <2>1
  <2>2. CASE i = 1 /\ j # 1
    BY <1>4, <1>6, <1>9, <2>0, <2>2
  <2>3. CASE i # 1 /\ j = 1
    BY <1>4, <1>6, <1>9, <2>0, <2>3
  <2>4. CASE i # 1 /\ j # 1
    <3>1. i - 1 \in DOMAIN s.mwChain /\ j - 1 \in DOMAIN s.mwChain /\ s.mwChain[i - 1].at = s.mwChain[j - 1].at
      BY <1>7, <1>9, <2>4
    <3>2. i - 1 = j - 1
      BY <1>7, <3>1 DEF DistinctAt
    <3>3. i \in Int /\ j \in Int
      BY <1>7, <1>8
    <3> QED BY <3>2, <3>3
  <2> QED BY <2>1, <2>2, <2>3, <2>4
<1>12. Grabs(t) = Grabs(s)
  BY <1>5 DEF Grabs
<1>13. t.out = {Place(b) : b \in Blocks(t)} \cup {Kilobyte(g) : g \in Grabs(t)}
  <2>1. here = Place(new)
    BY <1>6 DEF Place
  <2>2. s.out = {Place(b) : b \in Blocks(s)} \cup {Kilobyte(g) : g \in Grabs(s)}
    BY DEF Lists
  <2> QED BY <1>5, <1>10, <1>12, <2>1, <2>2
<1>14. \A o, p \in t.out : o.at # p.at => Span(o) \cap Span(p) = {}
  <2>1. Span(here) = a .. a + Units(size) - 1
    BY DEF Span
  <2>2. \A o, p \in s.out : o.at # p.at => Span(o) \cap Span(p) = {}
    BY DEF Lists
  <2> HIDE DEF here
  <2> QED BY <1>1, <1>5, <2>1, <2>2
<1>15. \A o \in t.out : o.at + o.units - 1 <= Mem
  <2>1. \A o \in s.out : o.at + o.units - 1 <= Mem
    BY DEF Lists
  <2>2. here.at + here.units - 1 <= Mem
    BY <1>1
  <2> HIDE DEF here
  <2> QED BY <1>5, <2>1, <2>2
<1>16. Lists(t)
  <2>1. /\ s.mwGrabList \in Seq(GrabType) /\ DistinctAt(s.mwGrabList) /\ \A b \in Blocks(s) : b.hit => b.nml
        /\ \A b \in Blocks(s), g \in Grabs(s) : b.at # g.at
    BY DEF Lists
  <2>2. \A b \in Blocks(t), g \in Grabs(t) : b.at # g.at
    BY <1>4, <1>6, <1>10, <1>12, <2>1
  <2>3. \A b \in Blocks(t) : b.hit => b.nml
    BY <1>6, <1>10, <2>1
  <2> QED BY <1>5, <1>8, <1>11, <1>13, <1>14, <1>15, <2>1, <2>2, <2>3 DEF Lists
<1>17. LiveOf(t) = LiveOf(s) \cup {new} /\ DeadOf(t) = DeadOf(s)
  BY <1>6, <1>10 DEF LiveOf, DeadOf
<1> QED BY <1>1, <1>4, <1>5, <1>10, <1>12, <1>16, <1>17 DEF new, t

---------------------------------------------------------------------------
(* The counters follow the lists *)

\* Giving up leaves the counters right, exact only when no block was given up.
LEMMA GivesUpCounters ==
  ASSUME NEW s, NEW left, NEW exact, Lists(s), Counters(s, left, exact), NEW t, GivesUp(s, t),
         NEW still, still => exact /\ DeadOf(t) = DeadOf(s)
  PROVE  Counters(t, left, still)
<1>1. DeadOf(t) \in SUBSET DeadOf(s) /\ LiveOf(t) = LiveOf(s) /\ SameBooks(s, t)
  BY DEF GivesUp
<1>2. IsFiniteSet(DeadOf(s)) /\ DeadOf(s) \in SUBSET BlockType
  BY FiniteLists, ListTypes DEF DeadOf
<1>3. Bytes(DeadOf(t)) <= Bytes(DeadOf(s)) /\ Bytes(DeadOf(s)) \in Nat /\ Bytes(DeadOf(t)) \in Nat
  BY <1>1, <1>2, BytesFacts
<1>4. /\ Cardinality(DeadOf(t)) <= Cardinality(DeadOf(s))
      /\ Cardinality(DeadOf(t)) \in Nat /\ Cardinality(DeadOf(s)) \in Nat
  BY <1>1, <1>2, FS_Subset, FS_CardinalityType
<1> QED BY <1>1, <1>3, <1>4 DEF Counters, SameBooks

\* A new block is counted.
LEMMA LinkCounters ==
  ASSUME NEW s, NEW left \in Int, NEW exact, Lists(s), Counters(s, left, exact),
         NEW size \in Nat, NEW a \in Room(s.out, Units(size))
  PROVE  Counters(Link(s, a, size), left, exact)
<1> DEFINE t == Link(s, a, size)
           new == NewBlock(a, size)
<1>1. /\ LiveOf(t) = LiveOf(s) \cup {new} /\ DeadOf(t) = DeadOf(s)
      /\ a \in Addresses /\ \A b \in Blocks(s) : b.at # a
      /\ t.mwNumCurAlloc = s.mwNumCurAlloc + 1 /\ t.mwStatCurAlloc = s.mwStatCurAlloc + size
      /\ t.mwNmlNumAlloc = s.mwNmlNumAlloc /\ t.mwNmlCurAlloc = s.mwNmlCurAlloc
      /\ t.mwInited = s.mwInited
  BY LinkFacts
<1>2. new \in BlockType /\ new.at = a /\ new.size = size
  BY <1>1 DEF NewBlock, BlockType
<1> HIDE DEF t, new
<1>3. IsFiniteSet(LiveOf(s)) /\ LiveOf(s) \in SUBSET BlockType /\ Cardinality(LiveOf(s)) \in Nat
  BY FiniteLists, ListTypes DEF LiveOf
<1>4. \A b \in LiveOf(s) : b.at # new.at
  BY <1>1, <1>2 DEF LiveOf
<1>5. Bytes(LiveOf(t)) = Bytes(LiveOf(s)) + size /\ Bytes(LiveOf(s)) \in Nat
  BY <1>1, <1>2, <1>3, <1>4, BytesFacts
<1>6. Cardinality(LiveOf(t)) = Cardinality(LiveOf(s)) + 1
  <2>1. new \notin LiveOf(s)
    BY <1>4
  <2> QED BY <1>1, <1>3, <2>1, FS_AddElement, ZenonT(40)
<1> QED BY <1>1, <1>3, <1>5, <1>6 DEF Counters, t

\* A call that gets memory: what it gave up before, and what it then had.
Obtained(s, size, u, t) ==
  /\ GivesUp(s, u)
  /\ \/ /\ t = [u EXCEPT !.log = @ \cup {<<"fail", size>>}]
        /\ Room(u.out, Units(size)) = {} /\ DeadOf(u) = {} /\ \A g \in Grabs(u) : g.type = "grabbed"
     \/ \E a \in Room(u.out, Units(size)) : t = Link(u, a, size)

\* Every way an allocation can go.
LEMMA ObtainFacts ==
  ASSUME NEW s, Lists(s), NEW size, NEW t \in Obtain(s, size)
  PROVE  \E u : Obtained(s, size, u, t)
<1> DEFINE u == IF Room(s.out, Units(size)) = {} THEN mwFreeUp(s, Units(size)) ELSE s
           places == Room(u.out, Units(size))
<1>1. /\ places = {} => t = [u EXCEPT !.log = @ \cup {<<"fail", size>>}]
      /\ places # {} => \E a \in places : t = Link(u, a, size)
  BY DEF Obtain
<1>2. GivesUp(s, s)
  BY DEF GivesUp, SameBooks
<1>3. GivesUp(s, u)
  BY <1>2, FreeUpFacts
<1>4. places = {} => DeadOf(u) = {} /\ \A g \in Grabs(u) : g.type = "grabbed"
  BY FreeUpFacts
<1> HIDE DEF u
<1> QED BY <1>1, <1>3, <1>4 DEF Obtained

\* The state a failed call leaves.
LEMMA LogOnly ==
  ASSUME NEW s, Lists(s), NEW t, NEW more, t = [s EXCEPT !.log = @ \cup more]
  PROVE  /\ Lists(t) /\ SameBooks(s, t) /\ t.log = s.log \cup more
         /\ t.mwChain = s.mwChain /\ t.mwGrabList = s.mwGrabList /\ t.out = s.out
         /\ Blocks(t) = Blocks(s) /\ Grabs(t) = Grabs(s) /\ LiveOf(t) = LiveOf(s) /\ DeadOf(t) = DeadOf(s)
         /\ \A left, exact : Counters(s, left, exact) => Counters(t, left, exact)
<1>1. DOMAIN s = Names
  BY DEF Lists
<1>2. /\ DOMAIN t = Names /\ SameBooks(s, t) /\ t.log = s.log \cup more
      /\ t.mwChain = s.mwChain /\ t.mwGrabList = s.mwGrabList /\ t.out = s.out
  BY <1>1 DEF Names, SameBooks
<1>3. Lists(t) /\ Blocks(t) = Blocks(s) /\ Grabs(t) = Grabs(s) /\ LiveOf(t) = LiveOf(s) /\ DeadOf(t) = DeadOf(s)
  BY <1>2, SameLists
<1>4. \A left, exact : Counters(s, left, exact) => Counters(t, left, exact)
  BY <1>2, <1>3 DEF Counters, SameBooks
<1> QED BY <1>2, <1>3, <1>4

---------------------------------------------------------------------------
(* A block that is freed *)

\* An address the checker owns names the block at it.
LEMMA BlockFacts ==
  ASSUME NEW s, Lists(s), NEW b \in Blocks(s)
  PROVE  Owned(s, b.at) /\ Block(s, b.at) = b
<1>1. \A c \in Blocks(s) : c.at = b.at => c = b
  BY ListTypes
<1>2. Block(s, b.at) = b
  BY <1>1 DEF Block, Blocks
<1>3. Owned(s, b.at)
  BY DEF Owned, Blocks, Range
<1> QED BY <1>2, <1>3

LEMMA OwnedFacts ==
  ASSUME NEW s, Lists(s), NEW p, Owned(s, p)
  PROVE  Block(s, p) \in Blocks(s) /\ Block(s, p).at = p
BY DEF Owned, Block, Blocks, Range

Freed(b) == [b EXCEPT !.nml = TRUE]

\* Freeing a live block takes it from the chain or turns it into no-mans-land.
LEMMA FreeFacts ==
  ASSUME NEW s, Lists(s), NEW b \in LiveOf(s)
  PROVE  LET t == DoFree(s, b.at)
         IN  /\ Lists(t)
             /\ LiveOf(t) = LiveOf(s) \ {b} /\ Grabs(t) = Grabs(s)
             /\ DeadOf(t) = IF s.mwNML # NONE THEN DeadOf(s) \cup {Freed(b)} ELSE DeadOf(s)
             /\ t.log = s.log \cup mwTestBuf(b) /\ t.ptr = s.ptr
             /\ t.mwInited = s.mwInited /\ t.mwNML = s.mwNML /\ t.mwAllocLimit = s.mwAllocLimit
             /\ t.mwNumCurAlloc = s.mwNumCurAlloc - 1 /\ t.mwStatCurAlloc = s.mwStatCurAlloc - b.size
             /\ t.mwNmlNumAlloc = IF s.mwNML # NONE THEN s.mwNmlNumAlloc + 1 ELSE s.mwNmlNumAlloc
             /\ t.mwNmlCurAlloc = IF s.mwNML # NONE THEN s.mwNmlCurAlloc + b.size ELSE s.mwNmlCurAlloc
             /\ t.mwLastFree = [s.mwLastFree EXCEPT ![s.mwLFcur] = b.at]
             /\ t.mwLFcur = IF s.mwLFcur = FreeList THEN 1 ELSE s.mwLFcur + 1
<1> DEFINE p == b.at
           u == [[s EXCEPT !.log = @ \cup mwTestBuf(b)]
                   EXCEPT !.mwNumCurAlloc = @ - 1, !.mwStatCurAlloc = @ - b.size]
           t == DoFree(s, p)
<1>1. b \in Blocks(s) /\ ~b.nml
  BY DEF LiveOf
<1>2. b \in BlockType /\ p \in Addresses /\ p # NULL
  BY <1>1, ListTypes, MemAssumption DEF BlockType, Addresses, NULL
<1>3. Owned(s, p) /\ Block(s, p) = b
  BY <1>1, BlockFacts
<1>4. t = Remember(IF s.mwNML # NONE THEN Bury(u, p) ELSE mwUnlink(LibFree(u, {p}), {p}), p)
  BY <1>1, <1>2, <1>3 DEF DoFree
<1>5. DOMAIN s = Names
  BY DEF Lists
<1>6. /\ DOMAIN u = Names /\ u.mwChain = s.mwChain /\ u.mwGrabList = s.mwGrabList /\ u.out = s.out
      /\ u.log = s.log \cup mwTestBuf(b) /\ u.ptr = s.ptr
      /\ u.mwInited = s.mwInited /\ u.mwNML = s.mwNML /\ u.mwAllocLimit = s.mwAllocLimit
      /\ u.mwNumCurAlloc = s.mwNumCurAlloc - 1 /\ u.mwStatCurAlloc = s.mwStatCurAlloc - b.size
      /\ u.mwNmlNumAlloc = s.mwNmlNumAlloc /\ u.mwNmlCurAlloc = s.mwNmlCurAlloc
      /\ u.mwLastFree = s.mwLastFree /\ u.mwLFcur = s.mwLFcur
  BY <1>5 DEF Names
<1> HIDE DEF u, t
<1>7. /\ s.mwChain \in Seq(BlockType) /\ DistinctAt(s.mwChain)
      /\ DOMAIN s.mwChain = 1 .. Len(s.mwChain) /\ Len(s.mwChain) \in Nat
      /\ s.mwGrabList \in Seq(GrabType) /\ DistinctAt(s.mwGrabList)
      /\ \A c \in Blocks(s), g \in Grabs(s) : c.at # g.at
      /\ \A c \in Blocks(s) : c.hit => c.nml
      /\ Blocks(s) \subseteq BlockType
  BY ListTypes DEF Lists
<1>8. \A c \in Blocks(s) : c.at = p => c = b
  BY <1>1, ListTypes
<1>9. /\ t.log = u.log /\ t.ptr = u.ptr
      /\ t.mwInited = u.mwInited /\ t.mwNML = u.mwNML /\ t.mwAllocLimit = u.mwAllocLimit
      /\ t.mwNumCurAlloc = u.mwNumCurAlloc /\ t.mwStatCurAlloc = u.mwStatCurAlloc
      /\ t.mwLastFree = [u.mwLastFree EXCEPT ![u.mwLFcur] = p]
      /\ t.mwLFcur = IF u.mwLFcur = FreeList THEN 1 ELSE u.mwLFcur + 1
      /\ t.mwGrabList = u.mwGrabList /\ DOMAIN t = Names
  <2>1. ASSUME s.mwNML # NONE
        PROVE  /\ t.log = u.log /\ t.ptr = u.ptr
               /\ t.mwInited = u.mwInited /\ t.mwNML = u.mwNML /\ t.mwAllocLimit = u.mwAllocLimit
               /\ t.mwNumCurAlloc = u.mwNumCurAlloc /\ t.mwStatCurAlloc = u.mwStatCurAlloc
               /\ t.mwLastFree = [u.mwLastFree EXCEPT ![u.mwLFcur] = p]
               /\ t.mwLFcur = IF u.mwLFcur = FreeList THEN 1 ELSE u.mwLFcur + 1
               /\ t.mwGrabList = u.mwGrabList /\ DOMAIN t = Names
    BY <1>4, <1>6, <2>1 DEF Remember, Bury, Names
  <2>2. ASSUME ~(s.mwNML # NONE)
        PROVE  /\ t.log = u.log /\ t.ptr = u.ptr
               /\ t.mwInited = u.mwInited /\ t.mwNML = u.mwNML /\ t.mwAllocLimit = u.mwAllocLimit
               /\ t.mwNumCurAlloc = u.mwNumCurAlloc /\ t.mwStatCurAlloc = u.mwStatCurAlloc
               /\ t.mwLastFree = [u.mwLastFree EXCEPT ![u.mwLFcur] = p]
               /\ t.mwLFcur = IF u.mwLFcur = FreeList THEN 1 ELSE u.mwLFcur + 1
               /\ t.mwGrabList = u.mwGrabList /\ DOMAIN t = Names
    BY <1>4, <1>6, <2>2 DEF Remember, mwUnlink, LibFree, Names
  <2> QED BY <2>1, <2>2
<1>10. Grabs(t) = Grabs(s)
  BY <1>6, <1>9 DEF Grabs
<1>11. CASE s.mwNML # NONE
  <2> DEFINE turn(c) == IF c.at = p THEN Freed(c) ELSE c
  <2>1. /\ t.mwChain = [i \in DOMAIN s.mwChain |-> turn(s.mwChain[i])]
        /\ t.out = s.out /\ t.mwNmlNumAlloc = s.mwNmlNumAlloc + 1
        /\ t.mwNmlCurAlloc = s.mwNmlCurAlloc + b.size
    <3>1. Block(u, p) = b
      BY <1>3, <1>6 DEF Block
    <3> QED BY <1>4, <1>6, <1>11, <3>1 DEF Remember, Bury, Names, Freed
  <2>2. /\ \A c \in BlockType : turn(c) \in BlockType /\ turn(c).at = c.at /\ turn(c).size = c.size
        /\ turn(b) = Freed(b) /\ Freed(b).nml /\ Freed(b).at = p /\ Freed(b).size = b.size
        /\ Freed(b) \in BlockType
    BY <1>2 DEF Freed, BlockType
  <2>3. \A c \in Blocks(s) : c # b => turn(c) = c
    BY <1>8
  <2> HIDE DEF turn
  <2>4. DOMAIN t.mwChain = DOMAIN s.mwChain /\ \A i \in DOMAIN s.mwChain : t.mwChain[i] = turn(s.mwChain[i])
    BY <2>1
  <2>5. \A i \in DOMAIN s.mwChain : s.mwChain[i] \in BlockType /\ s.mwChain[i] \in Blocks(s)
    BY <1>7 DEF Blocks, Range
  <2>6. t.mwChain \in Seq(BlockType)
    <3>1. \A i \in 1 .. Len(s.mwChain) : turn(s.mwChain[i]) \in BlockType
      BY <1>7, <2>2, <2>5
    <3>2. t.mwChain = [i \in 1 .. Len(s.mwChain) |-> turn(s.mwChain[i])]
      BY <1>7, <2>1
    <3> QED BY <1>7, <3>1, <3>2
  <2>7. DistinctAt(t.mwChain)
    BY <1>7, <2>2, <2>4, <2>5 DEF DistinctAt
  <2>8. Blocks(t) = (Blocks(s) \ {b}) \cup {Freed(b)}
    <3>1. ASSUME NEW c \in Blocks(t) PROVE c \in (Blocks(s) \ {b}) \cup {Freed(b)}
      <4>1. PICK i \in DOMAIN s.mwChain : c = turn(s.mwChain[i])
        BY <2>4 DEF Blocks, Range
      <4>2. s.mwChain[i] \in Blocks(s)
        BY <2>5
      <4> QED BY <2>2, <2>3, <4>1, <4>2
    <3>2. ASSUME NEW c \in Blocks(s) PROVE turn(c) \in Blocks(t)
      <4>1. PICK i \in DOMAIN s.mwChain : c = s.mwChain[i]
        BY DEF Blocks, Range
      <4> QED BY <2>4, <4>1 DEF Blocks, Range
    <3>3. Freed(b) \in Blocks(t)
      BY <1>1, <2>2, <3>2
    <3>4. ASSUME NEW c \in Blocks(s) \ {b} PROVE c \in Blocks(t)
      BY <2>3, <3>2
    <3> QED BY <3>1, <3>3, <3>4
  <2>9. t.out = {Place(c) : c \in Blocks(t)} \cup {Kilobyte(g) : g \in Grabs(t)}
    <3>1. Place(Freed(b)) = Place(b)
      BY <2>2 DEF Place
    <3>2. {Place(c) : c \in Blocks(t)} = {Place(c) : c \in Blocks(s)}
      BY <1>1, <2>8, <3>1
    <3> QED BY <1>10, <2>1, <3>2 DEF Lists
  <2>10. Lists(t)
    <3>1. /\ \A o, q \in t.out : o.at # q.at => Span(o) \cap Span(q) = {}
          /\ \A o \in t.out : o.at + o.units - 1 <= Mem
      BY <2>1 DEF Lists
    <3>2. \A c \in Blocks(t), g \in Grabs(t) : c.at # g.at
      BY <1>1, <1>7, <1>10, <2>2, <2>8
    <3>3. \A c \in Blocks(t) : c.hit => c.nml
      BY <1>7, <2>2, <2>8
    <3>4. t.mwGrabList \in Seq(GrabType) /\ DistinctAt(t.mwGrabList)
      BY <1>6, <1>7, <1>9
    <3> QED BY <1>9, <2>6, <2>7, <2>9, <3>1, <3>2, <3>3, <3>4 DEF Lists
  <2>11. LiveOf(t) = LiveOf(s) \ {b} /\ DeadOf(t) = DeadOf(s) \cup {Freed(b)}
    BY <1>1, <2>2, <2>8 DEF LiveOf, DeadOf
  <2> QED BY <1>6, <1>9, <1>10, <1>11, <2>1, <2>10, <2>11 DEF t
<1>12. CASE s.mwNML = NONE
  <2>1. /\ t.mwChain = Without(s.mwChain, {p}) /\ t.out = {o \in s.out : o.at \notin {p}}
        /\ t.mwNmlNumAlloc = s.mwNmlNumAlloc /\ t.mwNmlCurAlloc = s.mwNmlCurAlloc
    BY <1>4, <1>6, <1>12 DEF Remember, mwUnlink, LibFree, Names
  <2>2. /\ t.mwChain \in Seq(BlockType) /\ DistinctAt(t.mwChain)
        /\ Blocks(t) = {c \in Blocks(s) : c.at \notin {p}}
    <3>1. /\ Without(s.mwChain, {p}) \in Seq(BlockType) /\ DistinctAt(Without(s.mwChain, {p}))
          /\ Range(Without(s.mwChain, {p})) = {c \in Range(s.mwChain) : c.at \notin {p}}
      BY <1>7, WithoutFacts
    <3> QED BY <2>1, <3>1 DEF Blocks
  <2>3. Grabs(t) = {g \in Grabs(s) : g.at \notin {p}}
    BY <1>1, <1>7, <1>10
  <2>4. Lists(t)
    <3>1. /\ t.mwGrabList \in Seq(GrabType) /\ DistinctAt(t.mwGrabList)
          /\ t.out = {o \in s.out : o.at \notin {p}} /\ DOMAIN t = Names
      BY <1>6, <1>7, <1>9, <2>1
    <3> QED BY <2>2, <2>3, <3>1, Shrunk
  <2>5. Blocks(t) = Blocks(s) \ {b}
    BY <1>8, <2>2
  <2>6. LiveOf(t) = LiveOf(s) \ {b} /\ DeadOf(t) = DeadOf(s)
    BY <1>1, <2>5 DEF LiveOf, DeadOf
  <2> QED BY <1>6, <1>9, <1>10, <1>12, <2>1, <2>4, <2>6 DEF t
<1> QED BY <1>11, <1>12

\* A block that is freed is counted off, and counted as no-mans-land if kept.
LEMMA FreeCounters ==
  ASSUME NEW s, NEW left \in Int, NEW exact, Lists(s), Counters(s, left, exact), s.mwInited > 0,
         NEW b \in LiveOf(s)
  PROVE  Counters(DoFree(s, b.at), left, exact)
<1> DEFINE t == DoFree(s, b.at)
           rest == LiveOf(s) \ {b}
<1>1. /\ LiveOf(t) = rest
      /\ DeadOf(t) = IF s.mwNML # NONE THEN DeadOf(s) \cup {Freed(b)} ELSE DeadOf(s)
      /\ t.mwInited = s.mwInited
      /\ t.mwNumCurAlloc = s.mwNumCurAlloc - 1 /\ t.mwStatCurAlloc = s.mwStatCurAlloc - b.size
      /\ t.mwNmlNumAlloc = IF s.mwNML # NONE THEN s.mwNmlNumAlloc + 1 ELSE s.mwNmlNumAlloc
      /\ t.mwNmlCurAlloc = IF s.mwNML # NONE THEN s.mwNmlCurAlloc + b.size ELSE s.mwNmlCurAlloc
  BY FreeFacts
<1> HIDE DEF t
<1>2. /\ IsFiniteSet(LiveOf(s)) /\ LiveOf(s) \in SUBSET BlockType /\ Cardinality(LiveOf(s)) \in Nat
      /\ IsFiniteSet(DeadOf(s)) /\ DeadOf(s) \in SUBSET BlockType /\ Cardinality(DeadOf(s)) \in Nat
  BY FiniteLists, ListTypes DEF LiveOf, DeadOf
<1>3. /\ b \in BlockType /\ \A c \in rest : c.at # b.at
      /\ \A c \in DeadOf(s) : c.at # b.at
  <2>1. b \in Blocks(s) /\ ~b.nml /\ \A c \in Blocks(s) : c.at = b.at => c = b
    BY ListTypes DEF LiveOf
  <2> QED BY <1>2, <2>1 DEF LiveOf, DeadOf
<1>4. Freed(b) \in BlockType /\ Freed(b).at = b.at /\ Freed(b).size = b.size /\ b.size \in Nat
  BY <1>3 DEF Freed, BlockType
<1>5. Cardinality(rest) = Cardinality(LiveOf(s)) - 1
  BY <1>2, FS_RemoveElement
<1>6. Bytes(LiveOf(s)) = Bytes(rest) + b.size /\ Bytes(rest) \in Nat /\ Bytes(DeadOf(s)) \in Nat
  <2>1. IsFiniteSet(rest) /\ rest \in SUBSET BlockType
    BY <1>2, FS_RemoveElement
  <2>2. rest \cup {b} = LiveOf(s)
    OBVIOUS
  <2> HIDE DEF rest
  <2> QED BY <1>2, <1>3, <2>1, <2>2, BytesFacts
<1>7. /\ Bytes(DeadOf(s) \cup {Freed(b)}) = Bytes(DeadOf(s)) + b.size
      /\ Cardinality(DeadOf(s) \cup {Freed(b)}) = Cardinality(DeadOf(s)) + 1
  <2>1. \A c \in DeadOf(s) : c.at # Freed(b).at
    BY <1>3, <1>4
  <2>2. Freed(b) \notin DeadOf(s)
    BY <2>1
  <2> QED BY <1>2, <1>4, <2>1, <2>2, BytesFacts, FS_AddElement
<1> HIDE DEF rest
<1>8. t.mwStatCurAlloc \in Nat /\ t.mwStatCurAlloc = Bytes(LiveOf(t))
  BY <1>1, <1>4, <1>6 DEF Counters
<1>9. t.mwNumCurAlloc = Cardinality(LiveOf(t)) + left
  BY <1>1, <1>2, <1>5 DEF Counters
<1>10. /\ t.mwNmlNumAlloc \in Int /\ t.mwNmlCurAlloc \in Int
       /\ t.mwNmlNumAlloc >= Cardinality(DeadOf(t)) /\ t.mwNmlCurAlloc >= Bytes(DeadOf(t))
       /\ exact => t.mwNmlNumAlloc = Cardinality(DeadOf(t)) /\ t.mwNmlCurAlloc = Bytes(DeadOf(t))
  BY <1>1, <1>2, <1>4, <1>6, <1>7 DEF Counters
<1> QED BY <1>8, <1>9, <1>10 DEF Counters, t

\* Only the log tells s and t apart.
Reports(s, t) ==
  /\ Lists(t) /\ SameBooks(s, t) /\ s.log \subseteq t.log
  /\ t.mwChain = s.mwChain /\ t.mwGrabList = s.mwGrabList /\ t.out = s.out
  /\ Blocks(t) = Blocks(s) /\ Grabs(t) = Grabs(s) /\ LiveOf(t) = LiveOf(s) /\ DeadOf(t) = DeadOf(s)
  /\ \A left, exact : Counters(s, left, exact) => Counters(t, left, exact)

\* What is said of a pointer that is not a live block, by the ring of s.
Judges(s, p, known, unknown, t) ==
  /\ Reports(s, t)
  /\ \A line \in t.log :
       \/ line \in s.log \/ line[1] \in {"NULL free", "overflow"}
       \/ line[1] = known /\ line[2] = p /\ p \in Range(s.mwLastFree) /\ p # NULL
       \/ line[1] = unknown /\ line[2] = p /\ p \notin Range(s.mwLastFree)

\* What check_dbl_free reports, the ring decides.
LEMMA CheckFacts ==
  ASSUME NEW s, Lists(s), NEW p, p # NULL, NEW known, NEW unknown
  PROVE  Judges(s, p, known, unknown, check_dbl_free(s, p, known, unknown))
<1> DEFINE what == IF p \in Range(s.mwLastFree) THEN known ELSE unknown
           t == check_dbl_free(s, p, known, unknown)
<1>1. t = [s EXCEPT !.log = @ \cup {<<what, p>>}]
  BY DEF check_dbl_free
<1> HIDE DEF t, what
<1>2. /\ Lists(t) /\ SameBooks(s, t) /\ t.log = s.log \cup {<<what, p>>}
      /\ t.mwChain = s.mwChain /\ t.mwGrabList = s.mwGrabList /\ t.out = s.out
      /\ Blocks(t) = Blocks(s) /\ Grabs(t) = Grabs(s) /\ LiveOf(t) = LiveOf(s) /\ DeadOf(t) = DeadOf(s)
      /\ \A left, exact : Counters(s, left, exact) => Counters(t, left, exact)
  BY <1>1, LogOnly
<1>3. Reports(s, t)
  BY <1>2 DEF Reports
<1>4. ASSUME NEW line \in t.log, line \notin s.log
      PROVE  \/ line[1] = known /\ line[2] = p /\ p \in Range(s.mwLastFree)
             \/ line[1] = unknown /\ line[2] = p /\ p \notin Range(s.mwLastFree)
  <2>1. line = <<what, p>>
    BY <1>2, <1>4
  <2> QED BY <2>1 DEF what
<1> QED BY <1>3, <1>4 DEF Judges, t

\* Freeing what is not a live block changes nothing but the log.
LEMMA MistakeFacts ==
  ASSUME NEW s, Lists(s), NEW p, \A b \in LiveOf(s) : b.at # p
  PROVE  Judges(s, p, "double-free", "WILD free", DoFree(s, p))
<1> DEFINE t == DoFree(s, p)
<1>1. CASE p = NULL
  <2>1. t = [s EXCEPT !.log = @ \cup {<<"NULL free", NULL>>}]
    BY <1>1 DEF DoFree
  <2> HIDE DEF t
  <2> DEFINE more == {<<"NULL free", NULL>>}
  <2>2. Reports(s, t) /\ t.log = s.log \cup more
    <3>1. t = [s EXCEPT !.log = @ \cup more]
      BY <2>1
    <3> HIDE DEF more
    <3>2. t.log = s.log \cup more
      BY <3>1, LogOnly
    <3> QED BY <3>1, <3>2, LogOnly DEF Reports
  <2>3. ASSUME NEW line \in t.log, line \notin s.log PROVE line[1] = "NULL free"
    <3>1. line = <<"NULL free", NULL>>
      BY <2>2, <2>3
    <3> QED BY <3>1
  <2> QED BY <2>2, <2>3 DEF Judges, t
<1>2. CASE p # NULL /\ ~Owned(s, p)
  <2>1. t = check_dbl_free(s, p, "double-free", "WILD free")
    BY <1>2 DEF DoFree
  <2> QED BY <1>2, <2>1, CheckFacts
<1>3. CASE p # NULL /\ Owned(s, p)
  <2> DEFINE b == Block(s, p)
             u == [s EXCEPT !.log = @ \cup mwTestBuf(b)]
  <2>1. b \in Blocks(s) /\ b.nml
    BY <1>3, OwnedFacts DEF LiveOf
  <2>2. t = check_dbl_free(u, p, "double-free", "WILD free")
    BY <1>3, <2>1 DEF DoFree
  <2>3. Reports(s, u) /\ u.log = s.log \cup mwTestBuf(b)
    <3> HIDE DEF b
    <3> QED BY LogOnly DEF Reports
  <2> HIDE DEF u, t, b
  <2>4. Judges(u, p, "double-free", "WILD free", t)
    BY <1>3, <2>2, <2>3, CheckFacts DEF Reports
  <2>5. Reports(s, t)
    BY <2>3, <2>4 DEF Reports, Judges, SameBooks
  <2>6. u.mwLastFree = s.mwLastFree
    BY <2>3 DEF Reports, SameBooks
  <2>7. ASSUME NEW line \in u.log PROVE line \in s.log \/ line[1] = "overflow"
    <3>1. line \in s.log \/ line = <<"overflow", b.at>>
      BY <2>3 DEF mwTestBuf
    <3> QED BY <3>1
  <2> QED BY <2>4, <2>5, <2>6, <2>7 DEF Judges, t
<1> QED BY <1>1, <1>2, <1>3

---------------------------------------------------------------------------
(* The ring of freed pointers *)

\* Where in the history h an entry of the ring stands once it is full.
Age(cur, j) == IF j >= cur THEN j - cur + 1 ELSE j + FreeList - cur + 1

Ring(s, h) ==
  /\ s.mwLastFree \in [1 .. FreeList -> Nat] /\ s.mwLFcur \in 1 .. FreeList
  /\ h \in Seq(Addresses) /\ Len(h) <= FreeList
  /\ Len(h) < FreeList =>
       /\ s.mwLFcur = Len(h) + 1
       /\ \A j \in 1 .. FreeList : s.mwLastFree[j] = IF j <= Len(h) THEN h[j] ELSE NULL
  /\ Len(h) = FreeList => \A j \in 1 .. FreeList : s.mwLastFree[j] = h[Age(s.mwLFcur, j)]

\* The ring holds exactly the last FreeList pointers freed.
LEMMA RingKnows ==
  ASSUME NEW s, NEW h, Ring(s, h), NEW p, p # NULL
  PROVE  p \in Range(s.mwLastFree) <=> p \in Range(h)
<1>1. FreeList \in Nat \ {0} /\ Len(h) \in Nat /\ DOMAIN h = 1 .. Len(h) /\ DOMAIN s.mwLastFree = 1 .. FreeList
  BY MemAssumption DEF Ring
<1>2. CASE Len(h) < FreeList
  <2>0. \A j \in 1 .. FreeList : s.mwLastFree[j] = IF j <= Len(h) THEN h[j] ELSE NULL
    BY <1>2 DEF Ring
  <2>1. \A j \in 1 .. FreeList : s.mwLastFree[j] = p => j \in 1 .. Len(h) /\ h[j] = p
    BY <1>1, <2>0
  <2>2. \A j \in 1 .. Len(h) : j \in 1 .. FreeList /\ s.mwLastFree[j] = h[j]
    BY <1>1, <1>2, <2>0
  <2> QED BY <1>1, <2>1, <2>2 DEF Range
<1>3. CASE Len(h) = FreeList
  <2> DEFINE cur == s.mwLFcur
  <2>1. cur \in 1 .. FreeList /\ \A j \in 1 .. FreeList : s.mwLastFree[j] = h[Age(cur, j)]
    BY <1>3 DEF Ring
  <2> HIDE DEF cur
  <2>2. \A j \in 1 .. FreeList : Age(cur, j) \in 1 .. FreeList
    BY <1>1, <2>1 DEF Age
  <2>3. \A i \in 1 .. FreeList : \E j \in 1 .. FreeList : Age(cur, j) = i
    <3> SUFFICES ASSUME NEW i \in 1 .. FreeList PROVE \E j \in 1 .. FreeList : Age(cur, j) = i
      OBVIOUS
    <3>1. CASE i + cur - 1 <= FreeList
      <4>1. i + cur - 1 \in 1 .. FreeList /\ Age(cur, i + cur - 1) = i
        BY <1>1, <2>1, <3>1 DEF Age
      <4> QED BY <4>1
    <3>2. CASE ~(i + cur - 1 <= FreeList)
      <4>1. i + cur - 1 - FreeList \in 1 .. FreeList /\ Age(cur, i + cur - 1 - FreeList) = i
        BY <1>1, <2>1, <3>2 DEF Age
      <4> QED BY <4>1
    <3> QED BY <3>1, <3>2
  <2>4. p \in Range(s.mwLastFree) => p \in Range(h)
    BY <1>1, <1>3, <2>1, <2>2 DEF Range
  <2>5. p \in Range(h) => p \in Range(s.mwLastFree)
    <3> HAVE p \in Range(h)
    <3>1. PICK i \in 1 .. FreeList : h[i] = p
      BY <1>1, <1>3 DEF Range
    <3>2. PICK j \in 1 .. FreeList : Age(cur, j) = i
      BY <2>3
    <3> QED BY <1>1, <2>1, <3>1, <3>2 DEF Range
  <2> QED BY <2>4, <2>5
<1>4. Len(h) <= FreeList
  BY DEF Ring
<1>5. Len(h) < FreeList \/ Len(h) = FreeList
  BY <1>1, <1>4
<1> QED BY <1>2, <1>3, <1>5

\* The history after one more block was freed.
Longer(h, p) == LET all == Append(h, p) IN IF Len(all) > FreeList THEN Tail(all) ELSE all

\* One more pointer freed: the oldest makes room, in ring and history alike.
LEMMA RingTurns ==
  ASSUME NEW s, NEW h, Ring(s, h), NEW p \in Addresses, NEW t,
         t.mwLastFree = [s.mwLastFree EXCEPT ![s.mwLFcur] = p],
         t.mwLFcur = IF s.mwLFcur = FreeList THEN 1 ELSE s.mwLFcur + 1
  PROVE  Ring(t, Longer(h, p))
<1> DEFINE n == Len(h)
           cur == s.mwLFcur
           g == Longer(h, p)
<1>1. /\ FreeList \in Nat \ {0} /\ n \in Nat /\ n <= FreeList /\ cur \in 1 .. FreeList /\ h \in Seq(Addresses)
      /\ s.mwLastFree \in [1 .. FreeList -> Nat]
  BY MemAssumption DEF Ring
<1>2. p \in Nat
  BY MemAssumption DEF Addresses
<1>3. /\ t.mwLastFree \in [1 .. FreeList -> Nat] /\ t.mwLFcur \in 1 .. FreeList
      /\ t.mwLastFree[cur] = p
      /\ \A j \in 1 .. FreeList : j # cur => t.mwLastFree[j] = s.mwLastFree[j]
  BY <1>1, <1>2
<1>4. CASE n < FreeList
  <2>1. /\ g = Append(h, p) /\ g \in Seq(Addresses) /\ Len(g) = n + 1
        /\ g[n + 1] = p /\ \A i \in 1 .. n : g[i] = h[i]
    BY <1>1, <1>4 DEF Longer
  <2>2. cur = n + 1 /\ \A j \in 1 .. FreeList : s.mwLastFree[j] = IF j <= n THEN h[j] ELSE NULL
    BY <1>4 DEF Ring
  <2> HIDE DEF g, n, cur
  <2>3. \A j \in 1 .. FreeList : t.mwLastFree[j] = IF j <= n + 1 THEN g[j] ELSE NULL
    BY <1>1, <1>3, <2>1, <2>2
  <2>4. CASE n + 1 < FreeList
    <3>1. t.mwLFcur = n + 2
      BY <1>1, <2>2, <2>4 DEF cur
    <3>2. Len(g) < FreeList /\ Len(g) <= FreeList /\ ~(Len(g) = FreeList) /\ t.mwLFcur = Len(g) + 1
      BY <1>1, <2>1, <2>4, <3>1
    <3>3. \A j \in 1 .. FreeList : t.mwLastFree[j] = IF j <= Len(g) THEN g[j] ELSE NULL
      BY <2>1, <2>3
    <3> QED BY <1>3, <2>1, <3>2, <3>3 DEF Ring, g
  <2>5. CASE n + 1 = FreeList
    <3>1. t.mwLFcur = 1
      BY <2>2, <2>5 DEF cur
    <3>2. \A j \in 1 .. FreeList : Age(1, j) = j
      BY <1>1 DEF Age
    <3>3. \A j \in 1 .. FreeList : t.mwLastFree[j] = g[Age(1, j)]
      BY <1>1, <2>3, <2>5, <3>2
    <3>4. Len(g) = FreeList /\ ~(Len(g) < FreeList) /\ Len(g) <= FreeList
      BY <1>1, <2>1, <2>5
    <3>5. \A j \in 1 .. FreeList : t.mwLastFree[j] = g[Age(t.mwLFcur, j)]
      BY <3>1, <3>3
    <3> QED BY <1>3, <2>1, <3>4, <3>5 DEF Ring, g
  <2> QED BY <1>1, <1>4, <2>4, <2>5
<1>5. CASE n = FreeList
  <2>1. /\ g \in Seq(Addresses) /\ Len(g) = FreeList
        /\ g[FreeList] = p /\ \A i \in 1 .. FreeList - 1 : g[i] = h[i + 1]
    <3>1. /\ Append(h, p) \in Seq(Addresses) /\ Len(Append(h, p)) = FreeList + 1
          /\ Append(h, p)[FreeList + 1] = p /\ \A i \in 1 .. FreeList : Append(h, p)[i] = h[i]
      BY <1>1, <1>5
    <3>2. g = Tail(Append(h, p))
      BY <1>1, <3>1 DEF Longer
    <3> HIDE DEF g
    <3>3. g \in Seq(Addresses) /\ Len(g) = FreeList /\ \A i \in 1 .. FreeList : g[i] = Append(h, p)[i + 1]
      BY <1>1, <3>1, <3>2
    <3> DEFINE all == Append(h, p)
    <3>4. /\ all[FreeList + 1] = p /\ \A i \in 1 .. FreeList : all[i] = h[i]
          /\ \A i \in 1 .. FreeList : g[i] = all[i + 1]
      BY <3>1, <3>3
    <3> HIDE DEF all
    <3>5. FreeList \in 1 .. FreeList
      BY <1>1
    <3>6. ASSUME NEW i \in 1 .. FreeList - 1 PROVE g[i] = h[i + 1]
      <4>1. i \in 1 .. FreeList /\ i + 1 \in 1 .. FreeList
        BY <1>1
      <4> QED BY <3>4, <4>1
    <3> QED BY <3>3, <3>4, <3>5, <3>6
  <2>2. \A j \in 1 .. FreeList : s.mwLastFree[j] = h[Age(cur, j)]
    BY <1>5 DEF Ring
  <2> DEFINE next == IF cur = FreeList THEN 1 ELSE cur + 1
  <2>3. t.mwLFcur = next
    OBVIOUS
  <2> HIDE DEF g, n, cur
  <2>4. \A j \in 1 .. FreeList : j # cur => /\ Age(next, j) \in 1 .. FreeList - 1
                                            /\ Age(cur, j) = Age(next, j) + 1
    BY <1>1 DEF Age
  <2>5. Age(next, cur) = FreeList
    BY <1>1 DEF Age
  <2>6. \A j \in 1 .. FreeList : t.mwLastFree[j] = g[Age(next, j)]
    <3> SUFFICES ASSUME NEW j \in 1 .. FreeList PROVE t.mwLastFree[j] = g[Age(next, j)]
      OBVIOUS
    <3>1. CASE j = cur
      BY <1>3, <2>1, <2>5, <3>1
    <3>2. CASE j # cur
      <4> DEFINE k == Age(next, j)
      <4>1. k \in 1 .. FreeList - 1 /\ Age(cur, j) = k + 1
        BY <2>4, <3>2
      <4> HIDE DEF k
      <4>2. g[k] = h[k + 1] /\ s.mwLastFree[j] = h[k + 1]
        BY <2>1, <2>2, <4>1
      <4>3. t.mwLastFree[j] = s.mwLastFree[j]
        BY <1>3, <3>2
      <4> QED BY <4>2, <4>3 DEF k
    <3> QED BY <3>1, <3>2
  <2> HIDE DEF next
  <2> QED BY <1>1, <1>3, <2>1, <2>3, <2>6 DEF Ring, g
<1> QED BY <1>1, <1>4, <1>5

---------------------------------------------------------------------------
(* The invariant *)

Base(s) ==
  /\ s.mwInited \in 1 .. MaxSpent + 1 /\ s.mwNML \in {NONE, FREE, ALL} /\ s.mwAllocLimit \in Nat

\* Between calls: lists, counters and ring are right, and a checker that was
\* not started holds nothing.
IInv ==
  /\ Lists(mw) /\ Counters(mw, leftover, ~wasLow) /\ Ring(mw, freed)
  /\ leftover \in Nat
  /\ mw.mwInited \in 0 .. MaxSpent + 1 /\ mw.mwNML \in {NONE, FREE, ALL} /\ mw.mwAllocLimit \in Nat
  /\ mw.mwInited = 0 => mw.mwChain = <<>> /\ mw.mwGrabList = <<>>

LEMMA EmptyList ==
  ASSUME NEW X, NEW q \in Seq(X)
  PROVE  q = <<>> <=> Range(q) = {}
<1>1. Len(q) \in Nat /\ DOMAIN q = 1 .. Len(q)
  OBVIOUS
<1>2. q = <<>> => Range(q) = {}
  BY DEF Range
<1>3. Range(q) = {} => q = <<>>
  <2> HAVE Range(q) = {}
  <2>1. 1 \notin DOMAIN q
    BY DEF Range
  <2>2. Len(q) = 0
    BY <1>1, <2>1
  <2> QED BY <2>2
<1> QED BY <1>2, <1>3

\* mwAutoInit starts a checker that holds no block.
LEMMA AutoInitFacts ==
  ASSUME NEW s, NEW left \in Int, NEW exact, Lists(s), Counters(s, left, exact),
         s.mwInited \in Nat, s.mwInited = 0 => Blocks(s) = {}
  PROVE  LET t == mwAutoInit(s)
         IN  /\ Lists(t) /\ Counters(t, left, exact)
             /\ t.mwInited = IF s.mwInited > 0 THEN s.mwInited ELSE 1
             /\ t.mwChain = s.mwChain /\ t.mwGrabList = s.mwGrabList /\ t.out = s.out
             /\ Blocks(t) = Blocks(s) /\ Grabs(t) = Grabs(s) /\ LiveOf(t) = LiveOf(s) /\ DeadOf(t) = DeadOf(s)
             /\ t.log = s.log /\ t.ptr = s.ptr /\ t.mwNML = s.mwNML /\ t.mwAllocLimit = s.mwAllocLimit
             /\ t.mwLastFree = s.mwLastFree /\ t.mwLFcur = s.mwLFcur
             /\ s.mwInited > 0 => t = s
<1> DEFINE t == mwAutoInit(s)
<1>1. CASE s.mwInited > 0
  <2>1. t = s
    BY <1>1 DEF mwAutoInit
  <2> QED BY <1>1, <2>1
<1>2. CASE s.mwInited = 0
  <2>1. DOMAIN s = Names
    BY DEF Lists
  <2>2. t = [s EXCEPT !.mwInited = 1, !.mwStatCurAlloc = 0, !.mwNmlCurAlloc = 0, !.mwNmlNumAlloc = 0]
    BY <1>2 DEF mwAutoInit, DoInit
  <2> HIDE DEF t
  <2>3. /\ DOMAIN t = Names /\ t.mwInited = 1 /\ t.mwStatCurAlloc = 0 /\ t.mwNmlCurAlloc = 0 /\ t.mwNmlNumAlloc = 0
        /\ t.mwNumCurAlloc = s.mwNumCurAlloc
        /\ t.mwChain = s.mwChain /\ t.mwGrabList = s.mwGrabList /\ t.out = s.out
        /\ t.log = s.log /\ t.ptr = s.ptr /\ t.mwNML = s.mwNML /\ t.mwAllocLimit = s.mwAllocLimit
        /\ t.mwLastFree = s.mwLastFree /\ t.mwLFcur = s.mwLFcur
    BY <2>1, <2>2 DEF Names
  <2>4. Lists(t) /\ Blocks(t) = Blocks(s) /\ Grabs(t) = Grabs(s) /\ LiveOf(t) = LiveOf(s) /\ DeadOf(t) = DeadOf(s)
    BY <2>3, SameLists
  <2>5. LiveOf(t) = {} /\ DeadOf(t) = {}
    BY <1>2, <2>4 DEF LiveOf, DeadOf
  <2>6. Cardinality({}) = 0 /\ Bytes({}) = 0
    BY FS_EmptySet DEF Bytes
  <2>7. Counters(t, left, exact)
    BY <2>3, <2>4, <2>5, <2>6 DEF Counters
  <2> QED BY <1>2, <2>3, <2>4, <2>7 DEF t
<1> QED BY <1>1, <1>2

\* What a call begins with.
LEMMA EnterFacts ==
  ASSUME IInv
  PROVE  /\ Lists(Enter) /\ Counters(Enter, leftover, ~wasLow) /\ Ring(Enter, freed)
         /\ Enter.mwChain = mw.mwChain /\ Enter.mwGrabList = mw.mwGrabList /\ Enter.out = mw.out
         /\ Blocks(Enter) = Blocks(mw) /\ Grabs(Enter) = Grabs(mw)
         /\ LiveOf(Enter) = LiveOf(mw) /\ DeadOf(Enter) = DeadOf(mw)
         /\ Enter.mwInited = mw.mwInited /\ Enter.mwNML = mw.mwNML /\ Enter.mwAllocLimit = mw.mwAllocLimit
         /\ Enter.mwNumCurAlloc = mw.mwNumCurAlloc /\ Enter.mwStatCurAlloc = mw.mwStatCurAlloc
         /\ Enter.mwNmlNumAlloc = mw.mwNmlNumAlloc /\ Enter.mwNmlCurAlloc = mw.mwNmlCurAlloc
         /\ Enter.mwLastFree = mw.mwLastFree /\ Enter.mwLFcur = mw.mwLFcur
         /\ Enter.log = {} /\ Enter.ptr = NULL
         /\ mw.mwInited = 0 => Blocks(mw) = {} /\ Grabs(mw) = {}
<1>1. DOMAIN mw = Names /\ Lists(mw)
  BY DEF IInv, Lists
<1>2. /\ DOMAIN Enter = Names
      /\ Enter.mwChain = mw.mwChain /\ Enter.mwGrabList = mw.mwGrabList /\ Enter.out = mw.out
      /\ Enter.mwInited = mw.mwInited /\ Enter.mwNML = mw.mwNML /\ Enter.mwAllocLimit = mw.mwAllocLimit
      /\ Enter.mwNumCurAlloc = mw.mwNumCurAlloc /\ Enter.mwStatCurAlloc = mw.mwStatCurAlloc
      /\ Enter.mwNmlNumAlloc = mw.mwNmlNumAlloc /\ Enter.mwNmlCurAlloc = mw.mwNmlCurAlloc
      /\ Enter.mwLastFree = mw.mwLastFree /\ Enter.mwLFcur = mw.mwLFcur
      /\ Enter.log = {} /\ Enter.ptr = NULL
  BY <1>1 DEF Enter, Names
<1>3. Lists(Enter) /\ Blocks(Enter) = Blocks(mw) /\ Grabs(Enter) = Grabs(mw)
      /\ LiveOf(Enter) = LiveOf(mw) /\ DeadOf(Enter) = DeadOf(mw)
  BY <1>1, <1>2, SameLists
<1>4. Counters(Enter, leftover, ~wasLow)
  BY <1>2, <1>3 DEF IInv, Counters
<1>5. Ring(Enter, freed)
  BY <1>2 DEF IInv, Ring
<1>6. mw.mwInited = 0 => Blocks(mw) = {} /\ Grabs(mw) = {}
  BY DEF IInv, Blocks, Grabs, Range
<1> QED BY <1>2, <1>3, <1>4, <1>5, <1>6

\* The state a call works on, the checker started.
LEMMA StartFacts ==
  ASSUME IInv
  PROVE  LET s == mwAutoInit(Enter)
         IN  /\ Lists(s) /\ Counters(s, leftover, ~wasLow) /\ Ring(s, freed) /\ Base(s)
             /\ s.mwChain = mw.mwChain /\ s.mwGrabList = mw.mwGrabList /\ s.out = mw.out
             /\ Blocks(s) = Blocks(mw) /\ Grabs(s) = Grabs(mw)
             /\ LiveOf(s) = LiveOf(mw) /\ DeadOf(s) = DeadOf(mw)
             /\ s.mwNML = mw.mwNML /\ s.mwAllocLimit = mw.mwAllocLimit
             /\ s.mwLastFree = mw.mwLastFree /\ s.mwLFcur = mw.mwLFcur
             /\ mw.mwInited > 0 => s.mwStatCurAlloc = mw.mwStatCurAlloc
             /\ s.log = {} /\ s.ptr = NULL
<1> DEFINE s == mwAutoInit(Enter)
<1>1. /\ mw.mwInited \in Nat /\ mw.mwInited <= MaxSpent + 1 /\ leftover \in Int /\ MaxSpent \in Nat
      /\ mw.mwNML \in {NONE, FREE, ALL} /\ mw.mwAllocLimit \in Nat
  BY MemAssumption DEF IInv
<1>2. /\ Lists(Enter) /\ Counters(Enter, leftover, ~wasLow) /\ Ring(Enter, freed)
      /\ Enter.mwInited \in Nat /\ (Enter.mwInited = 0 => Blocks(Enter) = {})
  BY <1>1, EnterFacts
<1>3. /\ Lists(s) /\ Counters(s, leftover, ~wasLow)
      /\ s.mwInited = IF Enter.mwInited > 0 THEN Enter.mwInited ELSE 1
      /\ s.mwChain = Enter.mwChain /\ s.mwGrabList = Enter.mwGrabList /\ s.out = Enter.out
      /\ Blocks(s) = Blocks(Enter) /\ Grabs(s) = Grabs(Enter)
      /\ LiveOf(s) = LiveOf(Enter) /\ DeadOf(s) = DeadOf(Enter)
      /\ s.log = Enter.log /\ s.ptr = Enter.ptr /\ s.mwNML = Enter.mwNML /\ s.mwAllocLimit = Enter.mwAllocLimit
      /\ s.mwLastFree = Enter.mwLastFree /\ s.mwLFcur = Enter.mwLFcur
      /\ Enter.mwInited > 0 => s = Enter
  BY <1>1, <1>2, AutoInitFacts
<1> HIDE DEF s
<1>4. Ring(s, freed)
  BY <1>2, <1>3 DEF Ring
<1>5. Base(s)
  <2>1. s.mwInited \in 1 .. MaxSpent + 1
    BY <1>1, <1>3, EnterFacts
  <2> QED BY <1>1, <1>3, <2>1, EnterFacts DEF Base
<1>6. mw.mwInited > 0 => s.mwStatCurAlloc = mw.mwStatCurAlloc
  BY <1>3, EnterFacts
<1> QED BY <1>3, <1>4, <1>5, <1>6, EnterFacts DEF s

---------------------------------------------------------------------------
(* What the calls do to a checker that has started *)

Good(s, left, exact, h) == Lists(s) /\ Counters(s, left, exact) /\ Ring(s, h) /\ Base(s)

LEMMA ReportsKeeps ==
  ASSUME NEW s, NEW left, NEW exact, NEW h, Good(s, left, exact, h), NEW t, Reports(s, t)
  PROVE  Good(t, left, exact, h)
BY DEF Good, Reports, SameBooks, Ring, Base

LEMMA GivesUpKeeps ==
  ASSUME NEW s, NEW left, NEW exact, NEW h, Good(s, left, exact, h), NEW t, GivesUp(s, t),
         NEW still, still => exact /\ DeadOf(t) = DeadOf(s)
  PROVE  Good(t, left, still, h)
<1>1. Counters(t, left, still)
  BY GivesUpCounters DEF Good
<1> QED BY <1>1 DEF Good, GivesUp, SameBooks, Ring, Base

LEMMA LinkKeeps ==
  ASSUME NEW s, NEW left \in Int, NEW exact, NEW h, Good(s, left, exact, h),
         NEW size \in Nat, NEW a \in Room(s.out, Units(size))
  PROVE  Good(Link(s, a, size), left, exact, h)
<1> DEFINE t == Link(s, a, size)
<1>1. Lists(s) /\ Counters(s, left, exact)
  BY DEF Good
<1>2. Counters(t, left, exact)
  BY <1>1, LinkCounters
<1>3. /\ Lists(t) /\ t.mwInited = s.mwInited /\ t.mwNML = s.mwNML /\ t.mwAllocLimit = s.mwAllocLimit
      /\ t.mwLastFree = s.mwLastFree /\ t.mwLFcur = s.mwLFcur
  BY <1>1, LinkFacts
<1> HIDE DEF t
<1> QED BY <1>2, <1>3 DEF Good, Ring, Base, t

LEMMA ObtainedLists ==
  ASSUME NEW s, NEW size \in Nat, NEW u, NEW t, Obtained(s, size, u, t)
  PROVE  Lists(u) /\ Lists(t) /\ DeadOf(t) = DeadOf(u) /\ Grabs(t) = Grabs(u) /\ u.log \subseteq t.log
<1>1. Lists(u)
  BY DEF Obtained, GivesUp
<1>2. CASE t = [u EXCEPT !.log = @ \cup {<<"fail", size>>}]
  <2> DEFINE more == {<<"fail", size>>}
  <2>1. t = [u EXCEPT !.log = @ \cup more]
    BY <1>2
  <2> HIDE DEF more
  <2> QED BY <1>1, <2>1, LogOnly
<1>3. ASSUME NEW a \in Room(u.out, Units(size)), t = Link(u, a, size)
      PROVE  Lists(t) /\ DeadOf(t) = DeadOf(u) /\ Grabs(t) = Grabs(u) /\ u.log \subseteq t.log
  <2>1. Lists(t) /\ DeadOf(t) = DeadOf(u) /\ Grabs(t) = Grabs(u) /\ t.log = u.log
    BY <1>1, <1>3, LinkFacts
  <2> QED BY <2>1
<1> QED BY <1>1, <1>2, <1>3 DEF Obtained

LEMMA ObtainKeeps ==
  ASSUME NEW s, NEW left \in Int, NEW exact, NEW h, Good(s, left, exact, h),
         NEW size \in Nat, NEW u, NEW t, Obtained(s, size, u, t),
         NEW still, still => exact /\ DeadOf(u) = DeadOf(s)
  PROVE  Good(t, left, still, h)
<1>1. GivesUp(s, u)
  BY DEF Obtained
<1>2. Good(u, left, still, h) /\ Lists(u)
  BY <1>1, GivesUpKeeps DEF GivesUp
<1>3. CASE t = [u EXCEPT !.log = @ \cup {<<"fail", size>>}]
  <2> DEFINE more == {<<"fail", size>>}
  <2>1. t = [u EXCEPT !.log = @ \cup more]
    BY <1>3
  <2> HIDE DEF more
  <2>2. t.log = u.log \cup more
    BY <1>2, <2>1, LogOnly
  <2>3. Reports(u, t)
    BY <1>2, <2>1, <2>2, LogOnly DEF Reports
  <2> QED BY <1>2, <2>3, ReportsKeeps
<1>4. ASSUME NEW a \in Room(u.out, Units(size)), t = Link(u, a, size)
      PROVE  Good(t, left, still, h)
  BY <1>2, <1>4, LinkKeeps
<1> QED BY <1>3, <1>4 DEF Obtained

LEMMA FreeKeeps ==
  ASSUME NEW s, NEW left \in Int, NEW exact, NEW h, Good(s, left, exact, h), NEW b \in LiveOf(s)
  PROVE  Good(DoFree(s, b.at), left, exact, Longer(h, b.at))
<1> DEFINE t == DoFree(s, b.at)
<1>1. Lists(s) /\ Counters(s, left, exact) /\ Ring(s, h) /\ Base(s) /\ s.mwInited > 0
  BY MemAssumption DEF Good, Base
<1>2. Counters(t, left, exact)
  BY <1>1, FreeCounters
<1>3. /\ Lists(t) /\ t.mwInited = s.mwInited /\ t.mwNML = s.mwNML /\ t.mwAllocLimit = s.mwAllocLimit
      /\ t.mwLastFree = [s.mwLastFree EXCEPT ![s.mwLFcur] = b.at]
      /\ t.mwLFcur = IF s.mwLFcur = FreeList THEN 1 ELSE s.mwLFcur + 1
  BY <1>1, FreeFacts
<1> HIDE DEF t
<1>4. b.at \in Addresses
  BY <1>1, ListTypes DEF LiveOf, BlockType
<1>5. Ring(t, Longer(h, b.at))
  BY <1>1, <1>3, <1>4, RingTurns
<1>6. Base(t)
  BY <1>1, <1>3 DEF Base
<1> QED BY <1>2, <1>3, <1>5, <1>6 DEF Good, t

---------------------------------------------------------------------------
(* History *)

\* The history counts a call as a free when the live block is gone after it.
LEMMA NewlyFreedFacts ==
  ASSUME NEW p
  PROVE  NewlyFreed(p) <=> /\ \E b \in LiveOf(mw) : b.at = p
                           /\ \A c \in LiveOf(mw') : c.at # p
BY DEF NewlyFreed, LiveOf, Blocks, Range

\* When no no-mans-land was given up, as far as the history tells, all of it
\* is still there.
LEMMA LowFacts ==
  ASSUME NEW p, Notes(p), Lists(mw), Lists(mw'), ~wasLow'
  PROVE  ~wasLow /\ \A b \in DeadOf(mw) : \E c \in DeadOf(mw') : c.at = b.at
<1>1. Range(mw'.mwChain) = Blocks(mw') /\ Range(mw.mwChain) = Blocks(mw)
  BY DEF Blocks
<1>2. ~(\E b \in Range(mw.mwChain) :
          b.nml /\ b.at \notin {c.at : c \in {d \in Range(mw'.mwChain) : d.nml}})
      /\ ~wasLow
  BY DEF Notes
<1> QED BY <1>1, <1>2 DEF DeadOf

\* A call that keeps the blocks it does not free keeps the invariant.
LEMMA CallKeeps ==
  ASSUME NEW p, Notes(p), Good(mw', leftover, ~wasLow', freed'), IInv
  PROVE  IInv'
<1>1. leftover' = leftover
  BY DEF Notes
<1>2. /\ mw'.mwInited \in 0 .. MaxSpent + 1 /\ mw'.mwInited # 0
      /\ mw'.mwNML \in {NONE, FREE, ALL} /\ mw'.mwAllocLimit \in Nat
  BY MemAssumption DEF Good, Base
<1> QED BY <1>1, <1>2 DEF Good, IInv

\* A call that gives no-mans-land up for memory keeps the counters.
LEMMA ObtainNotes ==
  ASSUME NEW s, NEW h, Good(s, leftover, ~wasLow, h), leftover \in Int, DeadOf(s) = DeadOf(mw), Lists(mw),
         NEW size \in Nat, NEW u, NEW t, Obtained(s, size, u, t),
         NEW p, Notes(p), Lists(mw'),
         \A c \in DeadOf(mw') : c \in DeadOf(u) \/ \A b \in DeadOf(s) : b.at # c.at
  PROVE  Good(t, leftover, ~wasLow', h)
<1> DEFINE exact == ~wasLow
           still == ~wasLow'
<1>1. still => exact /\ DeadOf(u) = DeadOf(s)
  <2> HAVE still
  <2>1. exact /\ \A b \in DeadOf(mw) : \E c \in DeadOf(mw') : c.at = b.at
    BY LowFacts
  <2>2. DeadOf(u) \subseteq DeadOf(s)
    BY DEF Obtained, GivesUp
  <2>3. \A b, c \in DeadOf(s) : b.at = c.at => b = c
    BY ListTypes DEF DeadOf, Good
  <2>4. ASSUME NEW b \in DeadOf(s) PROVE b \in DeadOf(u)
    <3>1. PICK c \in DeadOf(mw') : c.at = b.at
      BY <2>1
    <3>2. c \in DeadOf(u)
      BY <3>1
    <3> QED BY <2>2, <2>3, <3>1, <3>2
  <2> QED BY <2>1, <2>2, <2>4
<1>2. Good(s, leftover, exact, h)
  OBVIOUS
<1> HIDE DEF exact, still
<1>3. Good(t, leftover, still, h)
  BY <1>1, <1>2, ObtainKeeps
<1> QED BY <1>3 DEF still

\* A call that only writes to the log, or frees, keeps the counters exact or not.
LEMMA NotesKeep ==
  ASSUME NEW t, NEW h, Good(t, leftover, ~wasLow, h), NEW p, Notes(p)
  PROVE  Good(t, leftover, ~wasLow', h)
<1>1. ~wasLow' => ~wasLow
  BY DEF Notes
<1> QED BY <1>1 DEF Good, Counters

LEMMA ReportsNotes ==
  ASSUME NEW s, NEW h, Good(s, leftover, ~wasLow, h), NEW t, Reports(s, t), NEW p, Notes(p)
  PROVE  Good(t, leftover, ~wasLow', h)
<1> DEFINE exact == ~wasLow
<1>1. Good(s, leftover, exact, h)
  OBVIOUS
<1> HIDE DEF exact
<1>2. Good(t, leftover, exact, h)
  BY <1>1, ReportsKeeps
<1> QED BY <1>2, NotesKeep DEF exact

\* mwMalloc, and mwRealloc of NULL.
LEMMA MallocKeeps ==
  ASSUME IInv, NEW size \in Nat, mw' \in DoMalloc(mwAutoInit(Enter), size), Notes(NULL)
  PROVE  IInv'
<1> DEFINE s == mwAutoInit(Enter)
<1>1. /\ Good(s, leftover, ~wasLow, freed) /\ Lists(s)
      /\ LiveOf(s) = LiveOf(mw) /\ DeadOf(s) = DeadOf(mw)
  BY StartFacts DEF Good
<1>2. leftover \in Int /\ Lists(mw)
  BY DEF IInv
<1>3. Notes(NULL) /\ mw' \in DoMalloc(s, size)
  OBVIOUS
<1> HIDE DEF s
<1>4. freed' = freed
  <2>1. ~NewlyFreed(NULL)
    BY <1>2, NewlyFreedFacts, ListTypes, MemAssumption DEF LiveOf, BlockType, Addresses, NULL
  <2> QED BY <1>3, <2>1 DEF Notes
<1>5. CASE OverLimit(s, size)
  <2> DEFINE more == {<<"limit fail", size>>}
  <2>1. mw' = [s EXCEPT !.log = @ \cup more]
    BY <1>3, <1>5 DEF DoMalloc
  <2> HIDE DEF more
  <2>2. Reports(s, mw')
    BY <1>1, <2>1, LogOnly DEF Reports
  <2>3. Good(mw', leftover, ~wasLow', freed')
    BY <1>1, <1>3, <1>4, <2>2, ReportsNotes
  <2> QED BY <1>3, <2>3, CallKeeps
<1>6. CASE ~OverLimit(s, size)
  <2>1. mw' \in Obtain(s, size)
    BY <1>3, <1>6 DEF DoMalloc
  <2>2. PICK u : Obtained(s, size, u, mw')
    BY <1>1, <2>1, ObtainFacts
  <2>3. Lists(mw') /\ DeadOf(mw') = DeadOf(u)
    BY <2>2, ObtainedLists
  <2>4. Good(mw', leftover, ~wasLow', freed)
    BY <1>1, <1>2, <1>3, <2>2, <2>3, ObtainNotes
  <2> QED BY <1>3, <1>4, <2>4, CallKeeps
<1> QED BY <1>5, <1>6

\* mwFree, of a live block and of any other pointer.
LEMMA FreeKeepsInv ==
  ASSUME IInv, NEW p, mw' = DoFree(mwAutoInit(Enter), p), Notes(p)
  PROVE  IInv'
<1> DEFINE s == mwAutoInit(Enter)
           exact == ~wasLow
<1>1. /\ Good(s, leftover, ~wasLow, freed) /\ Lists(s)
      /\ LiveOf(s) = LiveOf(mw) /\ DeadOf(s) = DeadOf(mw)
  BY StartFacts DEF Good
<1>2. leftover \in Int /\ Lists(mw)
  BY DEF IInv
<1>3. mw' = DoFree(s, p)
  OBVIOUS
<1> HIDE DEF s
<1>4. ASSUME NEW b \in LiveOf(s), b.at = p PROVE IInv'
  <2>1. Good(s, leftover, exact, freed)
    BY <1>1
  <2> HIDE DEF exact
  <2>2. Good(mw', leftover, exact, Longer(freed, p))
    BY <1>2, <1>3, <1>4, <2>1, FreeKeeps
  <2>3. NewlyFreed(p)
    <3>0. LiveOf(DoFree(s, b.at)) = LiveOf(s) \ {b}
      BY <1>1, FreeFacts
    <3>1. LiveOf(mw') = LiveOf(s) \ {b}
      BY <1>3, <1>4, <3>0
    <3>2. \A c \in LiveOf(s) : c.at = b.at => c = b
      BY <1>1, ListTypes DEF LiveOf
    <3> QED BY <1>1, <1>4, <3>1, <3>2, NewlyFreedFacts
  <2>4. freed' = Longer(freed, p)
    BY <2>3 DEF Notes, Longer
  <2>5. Good(mw', leftover, ~wasLow', freed')
    BY <2>2, <2>4, NotesKeep DEF exact
  <2> QED BY <2>5, CallKeeps
<1>5. ASSUME \A b \in LiveOf(s) : b.at # p PROVE IInv'
  <2>0. Judges(s, p, "double-free", "WILD free", DoFree(s, p))
    BY <1>1, <1>5, MistakeFacts
  <2>1. Reports(s, mw')
    BY <1>3, <2>0 DEF Judges
  <2>2. freed' = freed
    BY <1>1, <1>5, NewlyFreedFacts DEF Notes
  <2>3. Good(mw', leftover, ~wasLow', freed')
    BY <1>1, <2>1, <2>2, ReportsNotes
  <2> QED BY <2>3, CallKeeps
<1> QED BY <1>4, <1>5

\* What mwRealloc can do with a pointer and a size that is not 0.
Misses(s, p, t) == (\A b \in LiveOf(s) : b.at # p) /\ Judges(s, p, "realloc", "unknown pointer", t)
Exceeds(s, b, size, t) ==
  OverLimit(s, size - b.size) /\ t = [s EXCEPT !.log = @ \cup {<<"limit fail", size>>}]
Fails(s, b, size, u, t) ==
  /\ Obtained(s, size, u, t) /\ t = [u EXCEPT !.log = @ \cup {<<"fail", size>>}]
  /\ Room(u.out, Units(size)) = {} /\ DeadOf(u) = {} /\ \A g \in Grabs(u) : g.type = "grabbed"
Moves(s, b, size, u, a, t) ==
  /\ ~OverLimit(s, size - b.size) /\ GivesUp(s, u) /\ a \in Room(u.out, Units(size))
  /\ Obtained(s, size, u, Link(u, a, size))
  /\ b \in LiveOf(Link(u, a, size)) /\ t = DoFree(Link(u, a, size), b.at)

LEMMA ReallocFacts ==
  ASSUME NEW s, Lists(s), s.ptr = NULL, NEW p, p # NULL, NEW size \in Nat \ {0}, NEW t \in DoRealloc(s, p, size)
  PROVE  \/ Misses(s, p, t)
         \/ \E b \in LiveOf(s) : b.at = p /\ \/ Exceeds(s, b, size, t)
                                             \/ \E u : Fails(s, b, size, u, t)
                                             \/ \E u, a : Moves(s, b, size, u, a, t)
<1>1. CASE ~Owned(s, p) \/ Block(s, p).nml
  <2>1. t = check_dbl_free(s, p, "realloc", "unknown pointer")
    BY <1>1 DEF DoRealloc
  <2>2. Judges(s, p, "realloc", "unknown pointer", t)
    BY <2>1, CheckFacts
  <2>3. \A b \in LiveOf(s) : b.at # p
    BY <1>1, BlockFacts DEF LiveOf
  <2> QED BY <2>2, <2>3 DEF Misses
<1>2. CASE Owned(s, p) /\ ~Block(s, p).nml
  <2> DEFINE b == Block(s, p)
  <2>1. b \in LiveOf(s) /\ b.at = p /\ b \in Blocks(s)
    BY <1>2, OwnedFacts DEF LiveOf
  <2>2. CASE OverLimit(s, size - b.size)
    <3>1. t = [s EXCEPT !.log = @ \cup {<<"limit fail", size>>}]
      BY <1>2, <2>2 DEF DoRealloc
    <3> QED BY <2>1, <2>2, <3>1 DEF Exceeds
  <2>3. CASE ~OverLimit(s, size - b.size)
    <3>1. PICK v \in Obtain(s, size) : t = IF v.ptr = NULL THEN v ELSE DoFree(v, p)
      BY <1>2, <2>3 DEF DoRealloc
    <3>2. PICK u : Obtained(s, size, u, v)
      BY <3>1, ObtainFacts
    <3>3. GivesUp(s, u) /\ Lists(u) /\ LiveOf(u) = LiveOf(s) /\ u.ptr = NULL
      BY <3>2 DEF Obtained, GivesUp, SameBooks
    <3> HIDE DEF b
    <3>4. CASE /\ v = [u EXCEPT !.log = @ \cup {<<"fail", size>>}]
               /\ Room(u.out, Units(size)) = {} /\ DeadOf(u) = {} /\ \A g \in Grabs(u) : g.type = "grabbed"
      <4> DEFINE more == {<<"fail", size>>}
      <4>1. v = [u EXCEPT !.log = @ \cup more]
        BY <3>4
      <4> HIDE DEF more
      <4>2. v.ptr = NULL
        BY <3>3, <4>1, LogOnly DEF SameBooks
      <4>3. t = v
        BY <3>1, <4>2
      <4> QED BY <2>1, <3>2, <3>4, <4>3 DEF Fails
    <3>5. ASSUME NEW a \in Room(u.out, Units(size)), v = Link(u, a, size)
          PROVE  \E w, c : Moves(s, b, size, w, c, t)
      <4>1. v.ptr = a /\ a \in Addresses /\ LiveOf(v) = LiveOf(u) \cup {NewBlock(a, size)}
        BY <3>3, <3>5, LinkFacts
      <4>2. v.ptr # NULL
        BY <4>1, MemAssumption DEF Addresses, NULL
      <4>3. t = DoFree(v, p)
        BY <3>1, <4>2
      <4>4. b \in LiveOf(v)
        BY <2>1, <3>3, <4>1
      <4>5. Moves(s, b, size, u, a, t)
        BY <2>1, <2>3, <3>2, <3>3, <3>5, <4>3, <4>4 DEF Moves
      <4> QED BY <4>5
    <3> QED BY <2>1, <3>2, <3>4, <3>5 DEF Obtained
  <2> QED BY <2>2, <2>3
<1> QED BY <1>1, <1>2

\* The blocks after a block moved.
LEMMA MovesFacts ==
  ASSUME NEW s, Lists(s), NEW b \in LiveOf(s), NEW size \in Nat, NEW u, NEW a, NEW t, Moves(s, b, size, u, a, t)
  PROVE  /\ Lists(u) /\ Lists(Link(u, a, size)) /\ Lists(t)
         /\ LiveOf(t) = (LiveOf(s) \ {b}) \cup {NewBlock(a, size)} /\ NewBlock(a, size).at = a
         /\ a \in Addresses /\ \A c \in LiveOf(s) : c.at # a
         /\ \A c \in LiveOf(s) : (a .. a + Units(size) - 1) \cap (c.at .. c.at + Units(c.size) - 1) = {}
         /\ DeadOf(t) = IF s.mwNML # NONE THEN DeadOf(u) \cup {Freed(b)} ELSE DeadOf(u)
         /\ Grabs(t) = Grabs(u) /\ t.log = u.log \cup mwTestBuf(b) /\ t.ptr = a
         /\ t.mwAllocLimit = s.mwAllocLimit /\ t.mwStatCurAlloc = (s.mwStatCurAlloc + size) - b.size
<1> DEFINE v == Link(u, a, size)
<1>1. /\ Lists(u) /\ LiveOf(u) = LiveOf(s) /\ SameBooks(s, u) /\ a \in Room(u.out, Units(size))
      /\ b \in LiveOf(v) /\ t = DoFree(v, b.at)
  BY DEF Moves, GivesUp
<1>2. /\ Lists(v) /\ LiveOf(v) = LiveOf(u) \cup {NewBlock(a, size)} /\ DeadOf(v) = DeadOf(u) /\ Grabs(v) = Grabs(u)
      /\ a \in Addresses /\ \A c \in Blocks(u) : c.at # a
      /\ \A c \in Blocks(u) : (a .. a + Units(size) - 1) \cap (c.at .. c.at + Units(c.size) - 1) = {}
      /\ v.mwNML = u.mwNML /\ v.mwAllocLimit = u.mwAllocLimit /\ v.mwStatCurAlloc = u.mwStatCurAlloc + size
      /\ v.ptr = a /\ v.log = u.log
  BY <1>1, LinkFacts
<1> HIDE DEF v
<1>3. /\ Lists(t) /\ LiveOf(t) = LiveOf(v) \ {b} /\ Grabs(t) = Grabs(v)
      /\ DeadOf(t) = IF v.mwNML # NONE THEN DeadOf(v) \cup {Freed(b)} ELSE DeadOf(v)
      /\ t.log = v.log \cup mwTestBuf(b) /\ t.ptr = v.ptr
      /\ t.mwAllocLimit = v.mwAllocLimit /\ t.mwStatCurAlloc = v.mwStatCurAlloc - b.size
  BY <1>1, <1>2, FreeFacts
<1>4. NewBlock(a, size).at = a
  BY DEF NewBlock
<1>5. \A c \in LiveOf(s) : c \in Blocks(u)
  BY <1>1 DEF LiveOf
<1>6. NewBlock(a, size) # b
  BY <1>2, <1>4, <1>5
<1>7. LiveOf(t) = (LiveOf(s) \ {b}) \cup {NewBlock(a, size)}
  BY <1>1, <1>2, <1>3, <1>6
<1>8. s.mwNML = v.mwNML /\ t.mwAllocLimit = s.mwAllocLimit
      /\ t.mwStatCurAlloc = (s.mwStatCurAlloc + size) - b.size
  <2>1. u.mwNML = s.mwNML /\ u.mwAllocLimit = s.mwAllocLimit /\ u.mwStatCurAlloc = s.mwStatCurAlloc
    BY <1>1 DEF SameBooks
  <2> QED BY <1>2, <1>3, <2>1
<1> QED BY <1>1, <1>2, <1>3, <1>4, <1>5, <1>7, <1>8 DEF v

\* mwRealloc of a pointer to a size that is not 0.
LEMMA ReallocKeeps ==
  ASSUME IInv, NEW p, p # NULL, NEW size \in Nat \ {0}, mw' \in DoRealloc(mwAutoInit(Enter), p, size), Notes(p)
  PROVE  IInv'
<1> DEFINE s == mwAutoInit(Enter)
<1>1. /\ Good(s, leftover, ~wasLow, freed) /\ Lists(s) /\ s.ptr = NULL
      /\ LiveOf(s) = LiveOf(mw) /\ DeadOf(s) = DeadOf(mw)
  BY StartFacts DEF Good
<1>2. leftover \in Int /\ Lists(mw)
  BY DEF IInv
<1>3. \/ Misses(s, p, mw')
      \/ \E b \in LiveOf(s) : b.at = p /\ \/ Exceeds(s, b, size, mw')
                                          \/ \E u : Fails(s, b, size, u, mw')
                                          \/ \E u, a : Moves(s, b, size, u, a, mw')
  BY <1>1, ReallocFacts
<1> HIDE DEF s
<1>4. CASE Misses(s, p, mw')
  <2>1. Reports(s, mw') /\ \A b \in LiveOf(s) : b.at # p
    BY <1>4 DEF Misses, Judges
  <2>2. freed' = freed
    BY <1>1, <2>1, NewlyFreedFacts DEF Notes
  <2>3. Good(mw', leftover, ~wasLow', freed')
    BY <1>1, <2>1, <2>2, ReportsNotes
  <2> QED BY <2>3, CallKeeps
<1>5. ASSUME NEW b \in LiveOf(s), b.at = p, Exceeds(s, b, size, mw') PROVE IInv'
  <2> DEFINE more == {<<"limit fail", size>>}
  <2>1. mw' = [s EXCEPT !.log = @ \cup more]
    BY <1>5 DEF Exceeds
  <2> HIDE DEF more
  <2>2. Reports(s, mw')
    BY <1>1, <2>1, LogOnly DEF Reports
  <2>3. freed' = freed
    <3>1. LiveOf(mw') = LiveOf(s)
      BY <2>2 DEF Reports
    <3> QED BY <1>1, <1>5, <3>1, NewlyFreedFacts DEF Notes
  <2>4. Good(mw', leftover, ~wasLow', freed')
    BY <1>1, <2>2, <2>3, ReportsNotes
  <2> QED BY <2>4, CallKeeps
<1>6. ASSUME NEW b \in LiveOf(s), b.at = p, NEW u, Fails(s, b, size, u, mw') PROVE IInv'
  <2>1. Obtained(s, size, u, mw') /\ GivesUp(s, u)
    BY <1>6 DEF Fails, Obtained
  <2>2. Lists(mw') /\ DeadOf(mw') = DeadOf(u) /\ Lists(u)
    BY <2>1, ObtainedLists
  <2>3. Good(mw', leftover, ~wasLow', freed)
    BY <1>1, <1>2, <2>1, <2>2, ObtainNotes
  <2>4. LiveOf(mw') = LiveOf(u)
    <3> DEFINE more == {<<"fail", size>>}
    <3>1. mw' = [u EXCEPT !.log = @ \cup more]
      BY <1>6 DEF Fails
    <3> HIDE DEF more
    <3> QED BY <2>2, <3>1, LogOnly
  <2>5. LiveOf(mw') = LiveOf(mw)
    BY <1>1, <2>1, <2>4 DEF GivesUp
  <2>6. freed' = freed
    BY <2>5, NewlyFreedFacts DEF Notes
  <2> QED BY <2>3, <2>6, CallKeeps
<1>7. ASSUME NEW b \in LiveOf(s), b.at = p, NEW u, NEW a, Moves(s, b, size, u, a, mw') PROVE IInv'
  <2> DEFINE v == Link(u, a, size)
             still == ~wasLow'
  <2>1. /\ Lists(u) /\ Lists(v) /\ Lists(mw')
        /\ LiveOf(mw') = (LiveOf(s) \ {b}) \cup {NewBlock(a, size)} /\ NewBlock(a, size).at = a
        /\ \A c \in LiveOf(s) : c.at # a
        /\ DeadOf(mw') = IF s.mwNML # NONE THEN DeadOf(u) \cup {Freed(b)} ELSE DeadOf(u)
    BY <1>1, <1>7, MovesFacts
  <2>2. Obtained(s, size, u, v) /\ b \in LiveOf(v) /\ mw' = DoFree(v, b.at)
    BY <1>7 DEF Moves
  <2> HIDE DEF v
  <2>3. \A c \in DeadOf(mw') : c \in DeadOf(u) \/ \A d \in DeadOf(s) : d.at # c.at
    <3>1. Freed(b).at = b.at /\ \A d \in DeadOf(s) : d.at # b.at
      <4>1. b \in Blocks(s) /\ b \in BlockType /\ ~b.nml /\ \A d \in Blocks(s) : d.at = b.at => d = b
        BY <1>1, ListTypes DEF LiveOf
      <4> QED BY <4>1 DEF Freed, BlockType, DeadOf
    <3> QED BY <2>1, <3>1
  <2>4. Good(v, leftover, still, freed)
    BY <1>1, <1>2, <2>1, <2>2, <2>3, ObtainNotes
  <2> HIDE DEF still
  <2>5. Good(mw', leftover, still, Longer(freed, b.at))
    BY <1>2, <2>2, <2>4, FreeKeeps
  <2>6. NewlyFreed(p)
    <3>1. \A c \in LiveOf(s) : c.at = b.at => c = b
      BY <1>1, ListTypes DEF LiveOf
    <3>2. a # p
      BY <1>7, <2>1
    <3> QED BY <1>1, <1>7, <2>1, <3>1, <3>2, NewlyFreedFacts
  <2>7. freed' = Longer(freed, b.at)
    BY <1>7, <2>6 DEF Notes, Longer
  <2>8. Good(mw', leftover, still, freed')
    BY <2>5, <2>7
  <2> QED BY <2>8, CallKeeps DEF still
<1> QED BY <1>3, <1>4, <1>5, <1>6, <1>7

---------------------------------------------------------------------------
(* The other calls *)

\* All that was grabbed goes.
LEMMA DropAllFacts ==
  ASSUME NEW s, Lists(s)
  PROVE  LET t == mwDropAll(s)
         IN  GivesUp(s, t) /\ DeadOf(t) = DeadOf(s) /\ t.mwChain = s.mwChain /\ t.mwGrabList = <<>>
<1> DEFINE u == Drop(s, 0, "grabbed")
           t == Drop(u, 0, "no-mans-land")
<1>1. GivesUp(s, u) /\ DeadOf(u) = DeadOf(s) /\ u.mwChain = s.mwChain
      /\ Grabs(u) = {g \in Grabs(s) : g.type # "grabbed"}
  BY DropFacts
<1>2. Lists(u)
  BY <1>1 DEF GivesUp
<1> HIDE DEF u
<1>3. GivesUp(u, t) /\ DeadOf(t) = DeadOf(u) /\ t.mwChain = u.mwChain
      /\ Grabs(t) = {g \in Grabs(u) : g.type # "no-mans-land"}
  BY <1>2, DropFacts
<1>4. Lists(t)
  BY <1>3 DEF GivesUp
<1> HIDE DEF t
<1>5. Grabs(t) = {}
  <2>1. \A g \in Grabs(s) : g.type \in {"grabbed", "no-mans-land"}
    BY ListTypes DEF GrabType
  <2> QED BY <1>1, <1>3, <2>1
<1>6. t.mwGrabList = <<>>
  BY <1>4, <1>5, EmptyList DEF Lists, Grabs
<1>7. GivesUp(s, t)
  BY <1>1, <1>3, GivesUpTwice
<1>8. mwDropAll(s) = t
  BY DEF mwDropAll, t, u
<1> QED BY <1>1, <1>3, <1>6, <1>7, <1>8

\* mwAbort lets everything go and reports what it finds.
LEMMA AbortFacts ==
  ASSUME NEW s, Lists(s), s.mwNmlNumAlloc \in Int, s.mwNmlCurAlloc \in Int
  PROVE  LET t == mwAbort(s)
         IN  /\ Lists(t) /\ t.mwChain = <<>> /\ t.mwGrabList = <<>> /\ t.mwInited = 0
             /\ t.mwNML = s.mwNML /\ t.mwAllocLimit = s.mwAllocLimit
             /\ t.mwNumCurAlloc = s.mwNumCurAlloc /\ t.mwStatCurAlloc = s.mwStatCurAlloc
             /\ t.mwNmlNumAlloc \in Int /\ t.mwNmlCurAlloc \in Int
             /\ t.mwLastFree = s.mwLastFree /\ t.mwLFcur = s.mwLFcur /\ t.ptr = s.ptr
             /\ \A b \in LiveOf(s) : <<"unfreed", b.at, b.torn>> \in t.log
             /\ \A b \in DeadOf(s) : b.hit => <<"wild pointer", b.at>> \in t.log
             /\ \A g \in Grabs(s) : g.hit => <<"wild pointer", g.at>> \in t.log
             /\ \A line \in t.log : line \in s.log \/ line[1] \in {"wild pointer", "unfreed"}
<1> DEFINE d == mwDropAll(s)
           ats == {b.at : b \in Range(s.mwChain)}
           deads == Dead(s)
           found == UNION {TestDead(b) : b \in Range(deads)}
           lost == {<<"unfreed", b.at, b.torn>> : b \in {c \in Range(s.mwChain) : ~c.nml}}
           t == mwAbort(s)
<1>1. GivesUp(s, d) /\ DeadOf(d) = DeadOf(s) /\ d.mwChain = s.mwChain /\ d.mwGrabList = <<>>
  BY DropAllFacts
<1>2. Lists(d) /\ SameBooks(s, d) /\ DOMAIN d = Names
  BY <1>1 DEF GivesUp, Lists
<1>3. t = [mwUnlink(LibFree(d, ats), ats) EXCEPT
            !.mwInited = 0,
            !.mwNmlNumAlloc = @ - Len(deads), !.mwNmlCurAlloc = @ - Bytes(Range(deads)),
            !.log = @ \cup lost \cup found]
  BY DEF mwAbort
<1>4. deads \in Seq(BlockType) /\ Range(deads) = DeadOf(s) /\ Len(deads) \in Nat
  BY DeadFacts
<1>5. Bytes(Range(deads)) \in Nat
  <2>1. IsFiniteSet(DeadOf(s)) /\ DeadOf(s) \in SUBSET BlockType
    BY FiniteLists, ListTypes DEF DeadOf
  <2>2. Bytes(DeadOf(s)) \in Nat
    BY <2>1, BytesFacts
  <2> QED BY <1>4, <2>2
<1> HIDE DEF d, ats, deads, found, lost, t
<1>6. /\ DOMAIN t = Names /\ t.mwInited = 0 /\ t.mwChain = Without(d.mwChain, ats) /\ t.mwGrabList = d.mwGrabList
      /\ t.out = {o \in d.out : o.at \notin ats}
      /\ t.mwNML = d.mwNML /\ t.mwAllocLimit = d.mwAllocLimit
      /\ t.mwNumCurAlloc = d.mwNumCurAlloc /\ t.mwStatCurAlloc = d.mwStatCurAlloc
      /\ t.mwNmlNumAlloc = d.mwNmlNumAlloc - Len(deads) /\ t.mwNmlCurAlloc = d.mwNmlCurAlloc - Bytes(Range(deads))
      /\ t.mwLastFree = d.mwLastFree /\ t.mwLFcur = d.mwLFcur /\ t.ptr = d.ptr
      /\ t.log = d.log \cup lost \cup found
  BY <1>2, <1>3 DEF mwUnlink, LibFree, Names
<1>7. /\ t.mwChain \in Seq(BlockType) /\ DistinctAt(t.mwChain)
      /\ Blocks(t) = {b \in Blocks(d) : b.at \notin ats}
  <2>1. d.mwChain \in Seq(BlockType) /\ DistinctAt(d.mwChain)
    BY <1>2 DEF Lists
  <2>2. /\ Without(d.mwChain, ats) \in Seq(BlockType) /\ DistinctAt(Without(d.mwChain, ats))
        /\ Range(Without(d.mwChain, ats)) = {b \in Range(d.mwChain) : b.at \notin ats}
    BY <2>1, WithoutFacts
  <2> QED BY <1>6, <2>2 DEF Blocks
<1>8. Blocks(t) = {}
  BY <1>1, <1>7 DEF Blocks, ats
<1>9. t.mwChain = <<>>
  BY <1>7, <1>8, EmptyList DEF Blocks
<1>10. Grabs(d) = {}
  BY <1>1, EmptyList DEF Grabs, Range
<1>11. Lists(t)
  <2>1. /\ t.mwGrabList \in Seq(GrabType) /\ DistinctAt(t.mwGrabList)
        /\ Grabs(t) = {g \in Grabs(d) : g.at \notin ats}
    BY <1>1, <1>2, <1>6, <1>10 DEF Lists, Grabs
  <2>2. /\ Lists(d) /\ DOMAIN t = Names /\ t.mwChain \in Seq(BlockType) /\ DistinctAt(t.mwChain)
        /\ Blocks(t) = {b \in Blocks(d) : b.at \notin ats}
        /\ t.out = {o \in d.out : o.at \notin ats}
    BY <1>2, <1>6, <1>7
  <2> QED BY <2>1, <2>2, Shrunk, ZenonT(40)
<1>12. /\ \A b \in LiveOf(s) : <<"unfreed", b.at, b.torn>> \in t.log
       /\ \A b \in DeadOf(s) : b.hit => <<"wild pointer", b.at>> \in t.log
       /\ \A g \in Grabs(s) : g.hit => <<"wild pointer", g.at>> \in t.log
  <2>1. \A b \in LiveOf(s) : <<"unfreed", b.at, b.torn>> \in lost
    BY DEF lost, LiveOf, Blocks
  <2>2. ASSUME NEW b \in DeadOf(s), b.hit PROVE <<"wild pointer", b.at>> \in found
    <3>1. b.nml /\ b \in Range(deads)
      BY <1>4 DEF DeadOf
    <3> QED BY <2>2, <3>1 DEF found, TestDead
  <2>3. \A g \in Grabs(s) : g.hit => <<"wild pointer", g.at>> \in d.log
    BY <1>1, <1>10 DEF GivesUp
  <2> QED BY <1>6, <2>1, <2>2, <2>3
<1>13. ASSUME NEW line \in t.log PROVE line \in s.log \/ line[1] \in {"wild pointer", "unfreed"}
  <2>1. CASE line \in d.log
    BY <1>1, <2>1 DEF GivesUp
  <2>2. CASE line \in found
    <3>1. PICK b \in Range(deads) : line \in TestDead(b)
      BY <2>2 DEF found
    <3>2. line = <<"wild pointer", b.at>>
      BY <3>1 DEF TestDead
    <3> QED BY <3>2
  <2>3. CASE line \in lost
    <3>1. PICK b \in Range(s.mwChain) : line = <<"unfreed", b.at, b.torn>>
      BY <2>3 DEF lost
    <3> QED BY <3>1
  <2> QED BY <1>6, <2>1, <2>2, <2>3
<1>14. t.mwNmlNumAlloc \in Int /\ t.mwNmlCurAlloc \in Int
  BY <1>2, <1>4, <1>5, <1>6 DEF SameBooks
<1> QED BY <1>1, <1>2, <1>6, <1>9, <1>11, <1>12, <1>13, <1>14 DEF SameBooks, t

\* The last mwTerm: mwAbort releases everything.
LEMMA EndsKeeps ==
  ASSUME IInv, Ends
  PROVE  IInv'
<1> DEFINE t == mwAbort(Enter)
<1>1. /\ Lists(Enter) /\ Counters(Enter, leftover, ~wasLow) /\ Ring(Enter, freed)
      /\ Enter.mwNumCurAlloc = mw.mwNumCurAlloc /\ Enter.mwStatCurAlloc = mw.mwStatCurAlloc
      /\ Enter.mwNML = mw.mwNML /\ Enter.mwAllocLimit = mw.mwAllocLimit
      /\ Enter.mwLastFree = mw.mwLastFree /\ Enter.mwLFcur = mw.mwLFcur
  BY EnterFacts
<1>2. Enter.mwNmlNumAlloc \in Int /\ Enter.mwNmlCurAlloc \in Int
  BY <1>1 DEF Counters
<1>3. /\ Lists(t) /\ t.mwChain = <<>> /\ t.mwGrabList = <<>> /\ t.mwInited = 0
      /\ t.mwNML = Enter.mwNML /\ t.mwAllocLimit = Enter.mwAllocLimit
      /\ t.mwNumCurAlloc = Enter.mwNumCurAlloc /\ t.mwStatCurAlloc = Enter.mwStatCurAlloc
      /\ t.mwNmlNumAlloc \in Int /\ t.mwNmlCurAlloc \in Int
      /\ t.mwLastFree = Enter.mwLastFree /\ t.mwLFcur = Enter.mwLFcur
  BY <1>1, <1>2, AbortFacts
<1>4. /\ mw' = t /\ freed' = freed /\ wasLow' = wasLow
      /\ leftover' = leftover + Len(mw.mwChain) - Len(Dead(mw))
  BY DEF Ends
<1> HIDE DEF t
<1>5. leftover' = leftover + Cardinality(LiveOf(mw)) /\ Cardinality(LiveOf(mw)) \in Nat
  <2>1. /\ Len(mw.mwChain) = Cardinality(LiveOf(mw)) + Cardinality(DeadOf(mw))
        /\ Cardinality(LiveOf(mw)) \in Nat /\ Cardinality(DeadOf(mw)) \in Nat
        /\ Len(Dead(mw)) = Cardinality(DeadOf(mw))
    BY FiniteLists, DeadFacts DEF IInv
  <2>2. leftover \in Nat
    BY DEF IInv
  <2> QED BY <1>4, <2>1, <2>2
<1>6. LiveOf(t) = {} /\ Cardinality({}) = 0
  BY <1>3, FS_EmptySet DEF LiveOf, Blocks, Range
<1>7. Counters(t, leftover', ~wasLow')
  <2>1. t.mwStatCurAlloc \in Nat
    BY <1>1, <1>3 DEF Counters
  <2>2. t.mwNumCurAlloc = Cardinality(LiveOf(t)) + leftover'
    <3>1. mw.mwNumCurAlloc = Cardinality(LiveOf(mw)) + leftover /\ leftover \in Nat
      BY DEF IInv, Counters
    <3> QED BY <1>1, <1>3, <1>5, <1>6, <3>1
  <2> QED BY <1>3, <2>1, <2>2 DEF Counters
<1>8. Ring(t, freed)
  BY <1>1, <1>3 DEF Ring
<1>9. leftover' \in Nat
  BY <1>5 DEF IInv
<1>10. t.mwInited \in 0 .. MaxSpent + 1 /\ t.mwNML \in {NONE, FREE, ALL} /\ t.mwAllocLimit \in Nat
  BY <1>1, <1>3, MemAssumption DEF IInv
<1> QED BY <1>3, <1>4, <1>7, <1>8, <1>9, <1>10 DEF IInv

\* As many in B as in C, when each has its like at the same address.
LEMMA SameCount ==
  ASSUME NEW B, IsFiniteSet(B), NEW C,
         \A b, c \in B : b.at = c.at => b = c, \A b, c \in C : b.at = c.at => b = c,
         \A b \in B : \E c \in C : c.at = b.at,
         \A c \in C : \E b \in B : c.at = b.at
  PROVE  IsFiniteSet(C) /\ Cardinality(B) = Cardinality(C)
<1> DEFINE f == [b \in B |-> CHOOSE c \in C : c.at = b.at]
<1>1. \A b \in B : f[b] \in C /\ f[b].at = b.at
  OBVIOUS
<1>2. f \in [B -> C] /\ DOMAIN f = B
  BY <1>1
<1> HIDE DEF f
<1>3. \A b, c \in B : f[b] = f[c] => b = c
  BY <1>1
<1>4. \A c \in C : \E b \in B : f[b] = c
  BY <1>1
<1>5. f \in Bijection(B, C)
  BY <1>2, <1>3, <1>4 DEF Bijection, Injection, Surjection, IsInjective
<1>6. ExistsBijection(B, C)
  BY <1>5 DEF ExistsBijection
<1> QED BY <1>6, FS_Bijection

\* The program writes where it should not: the lists keep their blocks.
Alike(b, c) == c.at = b.at /\ c.size = b.size /\ c.nml = b.nml

\* A block that was written to is the same block to the books.
LEMMA ScribbledChain ==
  ASSUME NEW s, Lists(s), NEW i \in DOMAIN s.mwChain, NEW c \in BlockType,
         Alike(s.mwChain[i], c), c.hit => c.nml,
         NEW t, t = [s EXCEPT !.mwChain[i] = c]
  PROVE  /\ Lists(t) /\ SameBooks(s, t) /\ t.log = s.log
         /\ Grabs(t) = Grabs(s)
         /\ \A b \in Blocks(s) : \E d \in Blocks(t) : Alike(b, d)
         /\ \A d \in Blocks(t) : \E b \in Blocks(s) : Alike(b, d)
<1>1. DOMAIN s = Names /\ s.mwChain \in Seq(BlockType) /\ DistinctAt(s.mwChain)
      /\ s.mwGrabList \in Seq(GrabType) /\ DistinctAt(s.mwGrabList)
  BY DEF Lists
<1>2. /\ DOMAIN t = Names /\ SameBooks(s, t) /\ t.log = s.log /\ t.mwGrabList = s.mwGrabList /\ t.out = s.out
      /\ t.mwChain = [s.mwChain EXCEPT ![i] = c]
  BY <1>1 DEF Names, SameBooks
<1>3. /\ t.mwChain \in Seq(BlockType) /\ DOMAIN t.mwChain = DOMAIN s.mwChain
      /\ t.mwChain[i] = c /\ \A j \in DOMAIN s.mwChain : j # i => t.mwChain[j] = s.mwChain[j]
  BY <1>1, <1>2
<1>4. \A j \in DOMAIN s.mwChain : Alike(s.mwChain[j], t.mwChain[j])
  BY <1>3 DEF Alike
<1>5. /\ \A b \in Blocks(s) : \E d \in Blocks(t) : Alike(b, d)
      /\ \A d \in Blocks(t) : \E b \in Blocks(s) : Alike(b, d)
  BY <1>3, <1>4 DEF Blocks, Range
<1>6. DistinctAt(t.mwChain)
  BY <1>1, <1>3, <1>4 DEF DistinctAt, Alike
<1>7. Grabs(t) = Grabs(s)
  BY <1>2 DEF Grabs
<1>8. t.out = {Place(b) : b \in Blocks(t)} \cup {Kilobyte(g) : g \in Grabs(t)}
  <2>1. \A b, d : Alike(b, d) => Place(b) = Place(d)
    BY DEF Alike, Place
  <2>2. {Place(b) : b \in Blocks(t)} = {Place(b) : b \in Blocks(s)}
    BY <1>5, <2>1
  <2> QED BY <1>2, <1>7, <2>2 DEF Lists
<1>9. ASSUME NEW d \in Blocks(t), NEW g \in Grabs(t) PROVE d.at # g.at
  <2>1. PICK b \in Blocks(s) : d.at = b.at
    BY <1>5 DEF Alike
  <2>2. \A e \in Blocks(s), h \in Grabs(s) : e.at # h.at
    BY DEF Lists
  <2> QED BY <1>7, <2>1, <2>2
<1>10. \A b \in Blocks(t) : b.hit => b.nml
  <2>1. \A b \in Blocks(s) : b.hit => b.nml
    BY DEF Lists
  <2>2. \A b \in Blocks(t) : b = c \/ b \in Blocks(s)
    BY <1>3 DEF Blocks, Range
  <2> QED BY <2>1, <2>2
<1>11. /\ \A o, p \in t.out : o.at # p.at => Span(o) \cap Span(p) = {}
       /\ \A o \in t.out : o.at + o.units - 1 <= Mem
  BY <1>2 DEF Lists
<1>12. Lists(t)
  BY <1>1, <1>2, <1>3, <1>6, <1>8, <1>9, <1>10, <1>11 DEF Lists
<1> QED BY <1>2, <1>5, <1>7, <1>12

\* A kilobyte that was written to is the same kilobyte to the books.
LEMMA ScribbledGrab ==
  ASSUME NEW s, Lists(s), NEW i \in DOMAIN s.mwGrabList, NEW c \in GrabType, c.at = s.mwGrabList[i].at,
         NEW t, t = [s EXCEPT !.mwGrabList[i] = c]
  PROVE  /\ Lists(t) /\ SameBooks(s, t) /\ t.log = s.log
         /\ Blocks(t) = Blocks(s)
         /\ \A g \in Grabs(s) : \E h \in Grabs(t) : h.at = g.at
<1>1. DOMAIN s = Names /\ s.mwChain \in Seq(BlockType) /\ DistinctAt(s.mwChain)
      /\ s.mwGrabList \in Seq(GrabType) /\ DistinctAt(s.mwGrabList)
  BY DEF Lists
<1>2. /\ DOMAIN t = Names /\ SameBooks(s, t) /\ t.log = s.log /\ t.mwChain = s.mwChain /\ t.out = s.out
      /\ t.mwGrabList = [s.mwGrabList EXCEPT ![i] = c]
  BY <1>1 DEF Names, SameBooks
<1>4. /\ t.mwGrabList \in Seq(GrabType) /\ DOMAIN t.mwGrabList = DOMAIN s.mwGrabList
      /\ \A j \in DOMAIN s.mwGrabList : t.mwGrabList[j].at = s.mwGrabList[j].at
  <2>1. t.mwGrabList \in Seq(GrabType) /\ DOMAIN t.mwGrabList = DOMAIN s.mwGrabList
    <3>1. s.mwGrabList \in Seq(GrabType) /\ c \in GrabType /\ t.mwGrabList = [s.mwGrabList EXCEPT ![i] = c]
      BY <1>1, <1>2
    <3> QED BY <3>1
  <2>2. ASSUME NEW j \in DOMAIN s.mwGrabList PROVE t.mwGrabList[j].at = s.mwGrabList[j].at
    <3>1. t.mwGrabList[j] = IF j = i THEN c ELSE s.mwGrabList[j]
      BY <1>1, <1>2
    <3> QED BY <3>1
  <2> QED BY <2>1, <2>2
<1>5. /\ \A g \in Grabs(s) : \E h \in Grabs(t) : h.at = g.at
      /\ \A h \in Grabs(t) : \E g \in Grabs(s) : h.at = g.at
  BY <1>4 DEF Grabs, Range
<1>6. DistinctAt(t.mwGrabList) /\ Blocks(t) = Blocks(s)
  BY <1>1, <1>2, <1>4 DEF DistinctAt, Blocks
<1>7. t.out = {Place(b) : b \in Blocks(t)} \cup {Kilobyte(g) : g \in Grabs(t)}
  <2>0. \A g, h : g.at = h.at => Kilobyte(g) = Kilobyte(h)
    BY DEF Kilobyte
  <2>1. {Kilobyte(g) : g \in Grabs(t)} = {Kilobyte(g) : g \in Grabs(s)}
    <3>1. /\ \A g \in Grabs(s) : \E h \in Grabs(t) : Kilobyte(h) = Kilobyte(g)
          /\ \A h \in Grabs(t) : \E g \in Grabs(s) : Kilobyte(h) = Kilobyte(g)
      BY <1>5, <2>0
    <3> QED BY <3>1
  <2> QED BY <1>2, <1>6, <2>1 DEF Lists
<1>8. ASSUME NEW b \in Blocks(t), NEW h \in Grabs(t) PROVE b.at # h.at
  <2>1. \A e \in Blocks(s), g \in Grabs(s) : e.at # g.at
    BY DEF Lists
  <2>2. PICK g \in Grabs(s) : h.at = g.at
    BY <1>5
  <2> QED BY <1>6, <2>1, <2>2
<1>9. /\ \A o, p \in t.out : o.at # p.at => Span(o) \cap Span(p) = {}
      /\ \A o \in t.out : o.at + o.units - 1 <= Mem
      /\ \A b \in Blocks(t) : b.hit => b.nml
  BY <1>2, <1>6 DEF Lists
<1>10. Lists(t)
  BY <1>1, <1>2, <1>4, <1>6, <1>7, <1>8, <1>9 DEF Lists
<1> QED BY <1>2, <1>5, <1>6, <1>10

\* Counters do not change when the blocks are alike.
LEMMA AlikeCounters ==
  ASSUME NEW s, NEW left, NEW exact, Lists(s), Counters(s, left, exact), NEW t, Lists(t), SameBooks(s, t),
         \A b \in Blocks(s) : \E d \in Blocks(t) : Alike(b, d),
         \A d \in Blocks(t) : \E b \in Blocks(s) : Alike(b, d)
  PROVE  Counters(t, left, exact)
<1>1. /\ \A b \in LiveOf(s) : \E d \in LiveOf(t) : Alike(b, d)
      /\ \A d \in LiveOf(t) : \E b \in LiveOf(s) : Alike(b, d)
      /\ \A b \in DeadOf(s) : \E d \in DeadOf(t) : Alike(b, d)
      /\ \A d \in DeadOf(t) : \E b \in DeadOf(s) : Alike(b, d)
  BY DEF LiveOf, DeadOf, Alike
<1>2. /\ \A b, c \in LiveOf(s) : b.at = c.at => b = c
      /\ \A b, c \in LiveOf(t) : b.at = c.at => b = c
      /\ \A b, c \in DeadOf(s) : b.at = c.at => b = c
      /\ \A b, c \in DeadOf(t) : b.at = c.at => b = c
  BY ListTypes DEF LiveOf, DeadOf
<1>3. IsFiniteSet(LiveOf(s)) /\ IsFiniteSet(DeadOf(s))
  BY FiniteLists
<1>4. Cardinality(LiveOf(s)) = Cardinality(LiveOf(t))
  BY <1>1, <1>2, <1>3, SameCount DEF Alike
<1>5. Cardinality(DeadOf(s)) = Cardinality(DeadOf(t))
  BY <1>1, <1>2, <1>3, SameCount DEF Alike
<1>6. Bytes(LiveOf(s)) = Bytes(LiveOf(t))
  BY <1>1, SameBytes DEF Alike
<1>7. Bytes(DeadOf(s)) = Bytes(DeadOf(t))
  BY <1>1, SameBytes DEF Alike
<1> QED BY <1>4, <1>5, <1>6, <1>7 DEF Counters, SameBooks

---------------------------------------------------------------------------
(* Every step keeps the invariant *)

\* From Enter, a call that neither frees nor ends.
LEMMA OtherKeeps ==
  ASSUME IInv, Good(mw', leftover, ~wasLow, freed), UNCHANGED <<freed, leftover, wasLow>>
  PROVE  IInv'
<1>1. /\ mw'.mwInited \in 0 .. MaxSpent + 1 /\ mw'.mwInited # 0
      /\ mw'.mwNML \in {NONE, FREE, ALL} /\ mw'.mwAllocLimit \in Nat
  BY MemAssumption DEF Good, Base
<1> QED BY <1>1 DEF Good, IInv

\* mwInit, the first and nested ones: the bound keeps the count of calls.
LEMMA InitKeeps ==
  ASSUME IInv, mwInit
  PROVE  IInv'
<1>1. /\ Lists(Enter) /\ Counters(Enter, leftover, ~wasLow) /\ Ring(Enter, freed)
      /\ Enter.mwInited = mw.mwInited /\ Enter.mwNML = mw.mwNML /\ Enter.mwAllocLimit = mw.mwAllocLimit
      /\ DOMAIN Enter = Names
  BY EnterFacts DEF Lists
<1>2. /\ mw' = DoInit(Enter) /\ leftover' = leftover /\ freed' = freed
      /\ wasLow' = (wasLow /\ mw.mwInited > 0)
      /\ mw.mwInited > 0 => Spent < MaxSpent
  BY DEF mwInit
<1>3. CASE mw.mwInited > 0
  <2>1. mw' = [Enter EXCEPT !.mwInited = @ + 1]
    BY <1>1, <1>2, <1>3 DEF DoInit
  <2>2. /\ DOMAIN mw' = Names /\ mw'.mwInited = mw.mwInited + 1
        /\ mw'.mwChain = Enter.mwChain /\ mw'.mwGrabList = Enter.mwGrabList /\ mw'.out = Enter.out
        /\ mw'.mwNML = mw.mwNML /\ mw'.mwAllocLimit = mw.mwAllocLimit
        /\ mw'.mwNumCurAlloc = Enter.mwNumCurAlloc /\ mw'.mwStatCurAlloc = Enter.mwStatCurAlloc
        /\ mw'.mwNmlNumAlloc = Enter.mwNmlNumAlloc /\ mw'.mwNmlCurAlloc = Enter.mwNmlCurAlloc
        /\ mw'.mwLastFree = Enter.mwLastFree /\ mw'.mwLFcur = Enter.mwLFcur
    BY <1>1, <2>1 DEF Names
  <2>3. Lists(mw') /\ LiveOf(mw') = LiveOf(Enter) /\ DeadOf(mw') = DeadOf(Enter)
    BY <1>1, <2>2, SameLists
  <2>4. mw'.mwInited \in 1 .. MaxSpent + 1
    <3>1. mw.mwInited \in Nat /\ leftover \in Nat /\ MaxSpent \in Nat
      BY MemAssumption DEF IInv
    <3>2. mw.mwNmlNumAlloc \in Nat
      <4>1. Cardinality(DeadOf(mw)) \in Nat
        BY FiniteLists DEF IInv
      <4> QED BY <1>3, <4>1 DEF IInv, Counters
    <3>3. Max({0, mw.mwInited - 1}) = mw.mwInited - 1
      BY <1>3, <3>1 DEF Max
    <3>4. mw.mwInited - 1 < MaxSpent
      BY <1>2, <1>3, <3>1, <3>2, <3>3 DEF Spent
    <3> QED BY <1>3, <2>2, <3>1, <3>4
  <2>5. Base(mw')
    BY <2>2, <2>4 DEF IInv, Base
  <2>6. Ring(mw', freed)
    BY <1>1, <2>2 DEF Ring
  <2>7. Counters(mw', leftover, ~wasLow)
    BY <1>1, <1>3, <2>2, <2>3 DEF Counters
  <2>8. ~wasLow' => ~wasLow
    BY <1>2, <1>3
  <2>9. Counters(mw', leftover, ~wasLow')
    BY <2>7, <2>8 DEF Counters
  <2>10. leftover \in Nat /\ mw'.mwInited \in 0 .. MaxSpent + 1 /\ mw'.mwInited # 0
    BY <2>4, MemAssumption DEF IInv
  <2> QED BY <1>2, <2>3, <2>5, <2>6, <2>9, <2>10 DEF IInv, Base
<1>4. CASE ~(mw.mwInited > 0)
  <2>1. mw' = mwAutoInit(Enter)
    BY <1>1, <1>2, <1>4 DEF mwAutoInit
  <2>2. Lists(mw') /\ Counters(mw', leftover, ~wasLow) /\ Ring(mw', freed) /\ Base(mw') /\ DeadOf(mw') = DeadOf(mw)
    BY <2>1, StartFacts
  <2>3. DeadOf(mw') = {}
    <3>1. mw.mwInited = 0
      BY <1>4 DEF IInv
    <3> QED BY <2>2, <3>1, EnterFacts DEF DeadOf
  <2>4. Counters(mw', leftover, ~wasLow')
    <3>1. mw'.mwNmlNumAlloc = 0 /\ mw'.mwNmlCurAlloc = 0
      BY <1>1, <1>2, <1>4 DEF DoInit, Names
    <3>2. Cardinality({}) = 0 /\ Bytes({}) = 0
      BY FS_EmptySet DEF Bytes
    <3> QED BY <2>2, <2>3, <3>1, <3>2 DEF Counters
  <2>5. leftover \in Nat /\ mw'.mwInited \in 0 .. MaxSpent + 1 /\ mw'.mwInited # 0
    BY <2>2, MemAssumption DEF IInv, Base
  <2> QED BY <1>2, <2>2, <2>4, <2>5 DEF IInv, Base
<1> QED BY <1>3, <1>4

\* mwLimit changes the limit and nothing else.
LEMMA LimitKeeps ==
  ASSUME IInv, NEW lim \in Nat, mw' = [mwAutoInit(Enter) EXCEPT !.mwAllocLimit = lim],
         UNCHANGED <<freed, leftover, wasLow>>
  PROVE  IInv'
<1> DEFINE s == mwAutoInit(Enter)
<1>1. Lists(s) /\ Counters(s, leftover, ~wasLow) /\ Ring(s, freed) /\ Base(s) /\ DOMAIN s = Names
  BY StartFacts DEF Lists
<1>2. mw' = [s EXCEPT !.mwAllocLimit = lim]
  OBVIOUS
<1> HIDE DEF s
<1>3. /\ DOMAIN mw' = Names /\ mw'.mwInited = s.mwInited /\ mw'.mwAllocLimit = lim /\ mw'.mwNML = s.mwNML
      /\ mw'.mwChain = s.mwChain /\ mw'.mwGrabList = s.mwGrabList /\ mw'.out = s.out
      /\ mw'.mwNumCurAlloc = s.mwNumCurAlloc /\ mw'.mwStatCurAlloc = s.mwStatCurAlloc
      /\ mw'.mwNmlNumAlloc = s.mwNmlNumAlloc /\ mw'.mwNmlCurAlloc = s.mwNmlCurAlloc
      /\ mw'.mwLastFree = s.mwLastFree /\ mw'.mwLFcur = s.mwLFcur
  BY <1>1, <1>2 DEF Names
<1>4. Lists(mw') /\ LiveOf(mw') = LiveOf(s) /\ DeadOf(mw') = DeadOf(s)
  BY <1>1, <1>3, SameLists
<1>5. Counters(mw', leftover, ~wasLow) /\ Ring(mw', freed) /\ Base(mw')
  BY <1>1, <1>3, <1>4 DEF Counters, Ring, Base
<1> QED BY <1>4, <1>5, OtherKeeps DEF Good

LEMMA GrabCounters ==
  ASSUME NEW s, NEW left, NEW exact, Lists(s), Counters(s, left, exact),
         s.mwAllocLimit \in Nat, NEW kb \in Nat, NEW type \in {"grabbed", "no-mans-land"}
  PROVE  LET t == Grab(s, kb, type)
         IN  /\ Lists(t) /\ Counters(t, left, exact) /\ SameBooks(s, t) /\ t.log = s.log
             /\ Blocks(t) = Blocks(s) /\ LiveOf(t) = LiveOf(s) /\ DeadOf(t) = DeadOf(s)
             /\ Grabs(s) \subseteq Grabs(t)
<1> DEFINE t == Grab(s, kb, type)
<1>1. s.mwStatCurAlloc \in Nat
  BY DEF Counters
<1>2. Lists(t) /\ SameBooks(s, t) /\ t.log = s.log /\ t.mwChain = s.mwChain /\ Grabs(s) \subseteq Grabs(t)
  BY <1>1, GrabFacts
<1> HIDE DEF t
<1>3. Blocks(t) = Blocks(s) /\ LiveOf(t) = LiveOf(s) /\ DeadOf(t) = DeadOf(s)
  BY <1>2 DEF Blocks, LiveOf, DeadOf
<1>4. Counters(t, left, exact)
  BY <1>2, <1>3 DEF Counters, SameBooks
<1> QED BY <1>2, <1>3, <1>4 DEF t

\* What mwNoMansLand does for its level.
Levelled(s, level) ==
  CASE level = NONE -> Drop(s, 0, "no-mans-land")
    [] level = FREE -> s
    [] level = ALL -> Grab(s, 0, "no-mans-land")

\* mwNoMansLand, before the new level is noted.
LEMMA LevelledFacts ==
  ASSUME NEW s, NEW left, NEW exact, NEW h, Good(s, left, exact, h), s.log = {}, NEW level \in {NONE, FREE, ALL}
  PROVE  LET t == Levelled(s, level)
         IN  /\ Good(t, left, exact, h) /\ LiveOf(t) = LiveOf(s) /\ DeadOf(t) = DeadOf(s)
             /\ t.ptr = s.ptr /\ t.mwStatCurAlloc = s.mwStatCurAlloc
             /\ \A line \in t.log : line[1] = "wild pointer"
             /\ \A g \in Grabs(s) : g.hit => g \in Grabs(t) \/ <<"wild pointer", g.at>> \in t.log
<1>1. Lists(s) /\ Counters(s, left, exact) /\ s.mwAllocLimit \in Nat
  BY DEF Good, Base
<1>2. CASE level = NONE
  <2> DEFINE t == Drop(s, 0, "no-mans-land")
  <2>1. GivesUp(s, t) /\ DeadOf(t) = DeadOf(s)
    BY <1>1, DropFacts
  <2>2. Levelled(s, level) = t
    BY <1>2 DEF Levelled, NONE, FREE, ALL
  <2> HIDE DEF t
  <2>3. Good(t, left, exact, h)
    BY <2>1, GivesUpKeeps
  <2>4. /\ LiveOf(t) = LiveOf(s) /\ t.ptr = s.ptr /\ t.mwStatCurAlloc = s.mwStatCurAlloc
        /\ \A line \in t.log : line[1] = "wild pointer"
        /\ \A g \in Grabs(s) : g.hit => g \in Grabs(t) \/ <<"wild pointer", g.at>> \in t.log
    BY <2>1 DEF GivesUp, SameBooks
  <2> QED BY <2>1, <2>2, <2>3, <2>4
<1>3. CASE level = FREE
  <2>1. Levelled(s, level) = s
    BY <1>3 DEF Levelled, NONE, FREE, ALL
  <2> QED BY <2>1
<1>4. CASE level = ALL
  <2> DEFINE t == Grab(s, 0, "no-mans-land")
  <2>1. /\ Lists(t) /\ Counters(t, left, exact) /\ SameBooks(s, t) /\ t.log = s.log
        /\ LiveOf(t) = LiveOf(s) /\ DeadOf(t) = DeadOf(s) /\ Grabs(s) \subseteq Grabs(t)
    BY <1>1, GrabCounters
  <2>2. Levelled(s, level) = t
    BY <1>4 DEF Levelled, NONE, FREE, ALL
  <2> HIDE DEF t
  <2>3. Good(t, left, exact, h)
    BY <2>1 DEF Good, Ring, Base, SameBooks
  <2> QED BY <2>1, <2>2, <2>3 DEF SameBooks
<1> QED BY <1>2, <1>3, <1>4

LEMMA NoMansLandFacts ==
  ASSUME IInv, NEW level \in {NONE, FREE, ALL}, mwNoMansLand(level)
  PROVE  LET t == Levelled(mwAutoInit(Enter), level)
         IN  /\ Good(mw', leftover, ~wasLow, freed)
             /\ LiveOf(mw') = LiveOf(t) /\ DeadOf(mw') = DeadOf(t) /\ Grabs(mw') = Grabs(t)
             /\ mw'.log = t.log /\ mw'.ptr = t.ptr /\ mw'.mwStatCurAlloc = t.mwStatCurAlloc
             /\ mw'.mwAllocLimit = t.mwAllocLimit
<1> DEFINE s == mwAutoInit(Enter)
           t == Levelled(s, level)
           exact == ~wasLow
<1>1. Good(s, leftover, exact, freed) /\ s.log = {}
  BY StartFacts DEF Good
<1> HIDE DEF exact
<1>2. Good(t, leftover, exact, freed)
  BY <1>1, LevelledFacts
<1>3. mw' = [t EXCEPT !.mwNML = level]
  BY DEF mwNoMansLand, Levelled
<1> HIDE DEF s, t
<1>4. DOMAIN t = Names
  BY <1>2 DEF Good, Lists
<1>5. /\ DOMAIN mw' = Names /\ mw'.mwInited = t.mwInited /\ mw'.mwAllocLimit = t.mwAllocLimit /\ mw'.mwNML = level
      /\ mw'.mwChain = t.mwChain /\ mw'.mwGrabList = t.mwGrabList /\ mw'.out = t.out
      /\ mw'.mwNumCurAlloc = t.mwNumCurAlloc /\ mw'.mwStatCurAlloc = t.mwStatCurAlloc
      /\ mw'.mwNmlNumAlloc = t.mwNmlNumAlloc /\ mw'.mwNmlCurAlloc = t.mwNmlCurAlloc
      /\ mw'.mwLastFree = t.mwLastFree /\ mw'.mwLFcur = t.mwLFcur
      /\ mw'.log = t.log /\ mw'.ptr = t.ptr
  BY <1>3, <1>4 DEF Names
<1>6. Lists(mw') /\ LiveOf(mw') = LiveOf(t) /\ DeadOf(mw') = DeadOf(t) /\ Grabs(mw') = Grabs(t)
  BY <1>2, <1>5, SameLists DEF Good
<1>7. Counters(mw', leftover, exact) /\ Ring(mw', freed) /\ Base(mw')
  BY <1>2, <1>5, <1>6 DEF Good, Counters, Ring, Base
<1> QED BY <1>5, <1>6, <1>7 DEF Good, exact, t, s

LEMMA GrabKeeps ==
  ASSUME IInv, NEW kb \in Nat, mwGrab(kb)
  PROVE  /\ IInv' /\ LiveOf(mw') = LiveOf(mw) /\ DeadOf(mw') = DeadOf(mw) /\ Grabs(mw) \subseteq Grabs(mw')
         /\ mw'.log = {} /\ mw'.ptr = NULL
         /\ mw.mwInited > 0 => mw'.mwStatCurAlloc = mw.mwStatCurAlloc
<1> DEFINE s == Enter
           t == Grab(s, kb, "grabbed")
           exact == ~wasLow
<1>1. /\ Lists(s) /\ Counters(s, leftover, exact) /\ Ring(s, freed)
      /\ s.mwInited = mw.mwInited /\ s.mwNML = mw.mwNML /\ s.mwAllocLimit = mw.mwAllocLimit
      /\ s.mwStatCurAlloc = mw.mwStatCurAlloc /\ s.log = {} /\ s.ptr = NULL
      /\ LiveOf(s) = LiveOf(mw) /\ DeadOf(s) = DeadOf(mw) /\ Grabs(s) = Grabs(mw) /\ Blocks(s) = Blocks(mw)
      /\ mw.mwInited = 0 => Blocks(mw) = {}
  BY EnterFacts
<1>2. /\ mw.mwInited \in Nat /\ mw.mwInited <= MaxSpent + 1 /\ MaxSpent \in Nat /\ leftover \in Int
      /\ mw.mwNML \in {NONE, FREE, ALL} /\ mw.mwAllocLimit \in Nat
  BY MemAssumption DEF IInv
<1> HIDE DEF exact, s
<1>3. /\ Lists(t) /\ Counters(t, leftover, exact) /\ SameBooks(s, t) /\ t.log = s.log
      /\ Blocks(t) = Blocks(s) /\ LiveOf(t) = LiveOf(s) /\ DeadOf(t) = DeadOf(s)
      /\ Grabs(s) \subseteq Grabs(t)
  BY <1>1, <1>2, GrabCounters
<1>4. mw' = mwAutoInit(t)
  BY DEF mwGrab, s
<1> HIDE DEF t
<1>5. t.mwInited = mw.mwInited /\ (t.mwInited = 0 => Blocks(t) = {})
  BY <1>1, <1>3 DEF SameBooks
<1>6. /\ Lists(mw') /\ Counters(mw', leftover, exact)
      /\ mw'.mwInited = IF t.mwInited > 0 THEN t.mwInited ELSE 1
      /\ Blocks(mw') = Blocks(t) /\ Grabs(mw') = Grabs(t) /\ LiveOf(mw') = LiveOf(t) /\ DeadOf(mw') = DeadOf(t)
      /\ mw'.log = t.log /\ mw'.ptr = t.ptr /\ mw'.mwNML = t.mwNML /\ mw'.mwAllocLimit = t.mwAllocLimit
      /\ mw'.mwLastFree = t.mwLastFree /\ mw'.mwLFcur = t.mwLFcur
      /\ t.mwInited > 0 => mw' = t
  <2>1. t.mwInited \in Nat
    BY <1>2, <1>5
  <2> QED BY <1>2, <1>3, <1>4, <1>5, <2>1, AutoInitFacts
<1>7. Ring(mw', freed)
  BY <1>1, <1>3, <1>6 DEF Ring, SameBooks
<1>8. Base(mw')
  <2>1. mw'.mwInited \in 1 .. MaxSpent + 1
    BY <1>2, <1>5, <1>6
  <2> QED BY <1>1, <1>2, <1>3, <1>6, <2>1 DEF Base, SameBooks
<1>9. IInv'
  <2>1. UNCHANGED <<freed, leftover, wasLow>>
    BY DEF mwGrab
  <2> QED BY <1>6, <1>7, <1>8, <2>1, OtherKeeps DEF Good, exact
<1>10. mw.mwInited > 0 => mw'.mwStatCurAlloc = mw.mwStatCurAlloc
  BY <1>1, <1>3, <1>5, <1>6 DEF SameBooks
<1> QED BY <1>1, <1>3, <1>6, <1>9, <1>10 DEF SameBooks

LEMMA DropKeeps ==
  ASSUME IInv, NEW kb \in Nat, mwDrop(kb)
  PROVE  /\ IInv' /\ GivesUp(Enter, mw') /\ DeadOf(mw') = DeadOf(Enter)
<1> DEFINE exact == ~wasLow
<1>1. /\ Lists(Enter) /\ Counters(Enter, leftover, ~wasLow) /\ Ring(Enter, freed)
      /\ Enter.mwInited = mw.mwInited /\ Enter.mwNML = mw.mwNML /\ Enter.mwAllocLimit = mw.mwAllocLimit
  BY EnterFacts
<1>2. mw.mwGrabList # <<>> /\ mw' = Drop(Enter, kb, "grabbed") /\ UNCHANGED <<freed, leftover, wasLow>>
  BY DEF mwDrop
<1>3. Base(Enter)
  <2>1. mw.mwInited \in 0 .. MaxSpent + 1 /\ mw.mwInited # 0 /\ MaxSpent \in Nat
    BY <1>2, MemAssumption DEF IInv
  <2>2. mw.mwInited \in 1 .. MaxSpent + 1
    BY <2>1
  <2> QED BY <1>1, <2>2 DEF IInv, Base
<1>4. GivesUp(Enter, mw') /\ DeadOf(mw') = DeadOf(Enter)
  BY <1>1, <1>2, DropFacts
<1>5. Good(Enter, leftover, exact, freed)
  BY <1>1, <1>3 DEF Good
<1> HIDE DEF exact
<1>6. Good(mw', leftover, exact, freed)
  BY <1>4, <1>5, GivesUpKeeps
<1> QED BY <1>2, <1>4, <1>6, OtherKeeps DEF exact

\* mwTest reads and reports.
LEMMA TestFacts ==
  ASSUME IInv, mwTest
  PROVE  /\ IInv' /\ LiveOf(mw') = LiveOf(mw) /\ DeadOf(mw') = DeadOf(mw) /\ Grabs(mw') = Grabs(mw)
         /\ mw'.ptr = NULL
         /\ mw.mwInited > 0 => mw'.mwStatCurAlloc = mw.mwStatCurAlloc
         /\ \A line \in mw'.log : line[1] \in {"overflow", "wild pointer"}
<1> DEFINE s == mwAutoInit(Enter)
           more == UNION {mwTestBuf(b) \cup TestDead(b) : b \in Range(s.mwChain)}
<1>1. /\ Lists(s) /\ Counters(s, leftover, ~wasLow) /\ Ring(s, freed) /\ Base(s) /\ DOMAIN s = Names
      /\ LiveOf(s) = LiveOf(mw) /\ DeadOf(s) = DeadOf(mw) /\ Grabs(s) = Grabs(mw) /\ s.ptr = NULL
      /\ mw.mwInited > 0 => s.mwStatCurAlloc = mw.mwStatCurAlloc
  BY StartFacts DEF Lists
<1>2. mw' = [s EXCEPT !.log = more] /\ UNCHANGED <<freed, leftover, wasLow>>
  BY DEF mwTest
<1>3. ASSUME NEW line \in more PROVE line[1] \in {"overflow", "wild pointer"}
  <2>1. PICK b \in Range(s.mwChain) : line \in mwTestBuf(b) \cup TestDead(b)
    OBVIOUS
  <2>2. line = <<"overflow", b.at>> \/ line = <<"wild pointer", b.at>>
    BY <2>1 DEF mwTestBuf, TestDead
  <2>3. CASE line = <<"overflow", b.at>>
    BY <2>3
  <2>4. CASE line = <<"wild pointer", b.at>>
    BY <2>4
  <2> QED BY <2>2, <2>3, <2>4
<1> HIDE DEF s, more
<1>4. /\ DOMAIN mw' = Names /\ SameBooks(s, mw') /\ mw'.log = more
      /\ mw'.mwChain = s.mwChain /\ mw'.mwGrabList = s.mwGrabList /\ mw'.out = s.out
  BY <1>1, <1>2 DEF Names, SameBooks
<1>5. Lists(mw') /\ LiveOf(mw') = LiveOf(s) /\ DeadOf(mw') = DeadOf(s) /\ Grabs(mw') = Grabs(s)
  BY <1>1, <1>4, SameLists
<1>6. Counters(mw', leftover, ~wasLow) /\ Ring(mw', freed) /\ Base(mw')
  BY <1>1, <1>4, <1>5 DEF Counters, Ring, Base, SameBooks
<1>7. IInv'
  BY <1>2, <1>5, <1>6, OtherKeeps DEF Good
<1> QED BY <1>1, <1>3, <1>4, <1>5, <1>7 DEF SameBooks

\* Only what is still there is written to.
LEMMA ScribbleFacts ==
  ASSUME IInv, Scribble
  PROVE  /\ IInv' /\ SameBooks(Enter, mw') /\ mw'.log = {}
         /\ \A b \in Blocks(mw) : \E d \in Blocks(mw') : Alike(b, d)
         /\ \A d \in Blocks(mw') : \E b \in Blocks(mw) : Alike(b, d)
         /\ \A g \in Grabs(mw) : \E h \in Grabs(mw') : h.at = g.at
<1>1. /\ Lists(Enter) /\ Counters(Enter, leftover, ~wasLow) /\ Ring(Enter, freed)
      /\ Enter.mwInited = mw.mwInited /\ Enter.mwNML = mw.mwNML /\ Enter.mwAllocLimit = mw.mwAllocLimit
      /\ Enter.mwChain = mw.mwChain /\ Enter.mwGrabList = mw.mwGrabList
      /\ Blocks(Enter) = Blocks(mw) /\ Grabs(Enter) = Grabs(mw) /\ Enter.log = {}
      /\ mw.mwInited = 0 => Blocks(mw) = {} /\ Grabs(mw) = {}
  BY EnterFacts
<1>2. UNCHANGED <<freed, leftover, wasLow>>
  BY DEF Scribble
<1>3. /\ Enter.mwChain \in Seq(BlockType) /\ Enter.mwGrabList \in Seq(GrabType)
      /\ \A i \in DOMAIN Enter.mwChain : Enter.mwChain[i] \in Blocks(Enter) /\ Enter.mwChain[i] \in BlockType
      /\ \A i \in DOMAIN Enter.mwGrabList : Enter.mwGrabList[i] \in Grabs(Enter) /\ Enter.mwGrabList[i] \in GrabType
      /\ DOMAIN Enter = Names
      /\ \A b \in Blocks(Enter) : b.hit => b.nml
  BY <1>1 DEF Lists, Blocks, Grabs, Range
<1> DEFINE Result == /\ Lists(mw') /\ SameBooks(Enter, mw') /\ mw'.log = {} /\ mw.mwInited # 0
                     /\ \A b \in Blocks(mw) : \E d \in Blocks(mw') : Alike(b, d)
                     /\ \A d \in Blocks(mw') : \E b \in Blocks(mw) : Alike(b, d)
                     /\ \A g \in Grabs(mw) : \E h \in Grabs(mw') : h.at = g.at
<1>4. ASSUME NEW i \in DOMAIN mw.mwChain, mw' = [Enter EXCEPT !.mwChain[i].torn = TRUE] PROVE Result
  <2> DEFINE c == [Enter.mwChain[i] EXCEPT !.torn = TRUE]
  <2>1. i \in DOMAIN Enter.mwChain
    BY <1>1
  <2>2. c \in BlockType /\ Alike(Enter.mwChain[i], c) /\ (c.hit => c.nml)
    <3>1. Enter.mwChain[i] \in BlockType /\ (Enter.mwChain[i].hit => Enter.mwChain[i].nml)
      BY <1>3, <2>1
    <3> QED BY <3>1 DEF BlockType, Alike
  <2>3. mw' = [Enter EXCEPT !.mwChain[i] = c]
    BY <1>4
  <2> HIDE DEF c
  <2>4. /\ Lists(mw') /\ SameBooks(Enter, mw') /\ mw'.log = Enter.log /\ Grabs(mw') = Grabs(Enter)
        /\ \A b \in Blocks(Enter) : \E d \in Blocks(mw') : Alike(b, d)
        /\ \A d \in Blocks(mw') : \E b \in Blocks(Enter) : Alike(b, d)
    BY <1>1, <2>1, <2>2, <2>3, ScribbledChain
  <2>5. mw.mwInited # 0
    BY <1>1, <1>3, <2>1
  <2> QED BY <1>1, <2>4, <2>5
<1>5. ASSUME NEW i \in DOMAIN mw.mwChain, mw.mwChain[i].nml, mw' = [Enter EXCEPT !.mwChain[i].hit = TRUE] PROVE Result
  <2> DEFINE c == [Enter.mwChain[i] EXCEPT !.hit = TRUE]
  <2>1. i \in DOMAIN Enter.mwChain
    BY <1>1
  <2>2. c \in BlockType /\ Alike(Enter.mwChain[i], c) /\ (c.hit => c.nml)
    <3>1. Enter.mwChain[i] \in BlockType /\ Enter.mwChain[i].nml
      BY <1>1, <1>3, <1>5, <2>1
    <3> QED BY <3>1 DEF BlockType, Alike
  <2>3. mw' = [Enter EXCEPT !.mwChain[i] = c]
    BY <1>5
  <2> HIDE DEF c
  <2>4. /\ Lists(mw') /\ SameBooks(Enter, mw') /\ mw'.log = Enter.log /\ Grabs(mw') = Grabs(Enter)
        /\ \A b \in Blocks(Enter) : \E d \in Blocks(mw') : Alike(b, d)
        /\ \A d \in Blocks(mw') : \E b \in Blocks(Enter) : Alike(b, d)
    BY <1>1, <2>1, <2>2, <2>3, ScribbledChain
  <2>5. mw.mwInited # 0
    BY <1>1, <1>3, <2>1
  <2> QED BY <1>1, <2>4, <2>5
<1>6. ASSUME NEW i \in DOMAIN mw.mwGrabList, mw' = [Enter EXCEPT !.mwGrabList[i].hit = TRUE] PROVE Result
  <2> DEFINE c == [Enter.mwGrabList[i] EXCEPT !.hit = TRUE]
  <2>1. i \in DOMAIN Enter.mwGrabList
    BY <1>1
  <2>2. c \in GrabType /\ c.at = Enter.mwGrabList[i].at
    <3>1. Enter.mwGrabList[i] \in GrabType
      BY <1>3, <2>1
    <3> QED BY <3>1 DEF GrabType
  <2>3. mw' = [Enter EXCEPT !.mwGrabList[i] = c]
    BY <1>6
  <2> HIDE DEF c
  <2>4. /\ Lists(mw') /\ SameBooks(Enter, mw') /\ mw'.log = Enter.log /\ Blocks(mw') = Blocks(Enter)
        /\ \A g \in Grabs(Enter) : \E h \in Grabs(mw') : h.at = g.at
    BY <1>1, <2>1, <2>2, <2>3, ScribbledGrab
  <2>5. mw.mwInited # 0
    BY <1>1, <1>3, <2>1
  <2>6. \A b \in Blocks(mw) : Alike(b, b)
    BY DEF Alike
  <2> QED BY <1>1, <2>4, <2>5, <2>6
<1>7. Result
  BY <1>4, <1>5, <1>6 DEF Scribble
<1>8. Counters(mw', leftover, ~wasLow)
  <2> DEFINE exact == ~wasLow
  <2>1. Counters(Enter, leftover, exact)
    BY <1>1
  <2> HIDE DEF exact
  <2>2. Counters(mw', leftover, exact)
    BY <1>1, <1>7, <2>1, AlikeCounters
  <2> QED BY <2>2 DEF exact
<1>9. Ring(mw', freed)
  BY <1>1, <1>7 DEF Ring, SameBooks
<1>10. Base(mw')
  <2>1. mw.mwInited \in 1 .. MaxSpent + 1
    BY <1>7, MemAssumption DEF IInv
  <2> QED BY <1>1, <1>7, <2>1 DEF Base, SameBooks, IInv
<1>11. IInv'
  BY <1>2, <1>7, <1>8, <1>9, <1>10, OtherKeeps DEF Good
<1> QED BY <1>7, <1>11

\* mwTerm of nested calls, and without any.
LEMMA TermFacts ==
  ASSUME IInv, mwTerm, ~Ends
  PROVE  /\ IInv' /\ LiveOf(mw') = LiveOf(mw) /\ DeadOf(mw') = DeadOf(mw) /\ Grabs(mw') = Grabs(mw)
         /\ mw'.log = {} /\ mw'.ptr = NULL
         /\ mw.mwInited > 0 => mw'.mwStatCurAlloc = mw.mwStatCurAlloc
<1>1. UNCHANGED <<freed, leftover, wasLow>>
  BY DEF mwTerm
<1>2. CASE mw.mwInited > 1 /\ mw' = [Enter EXCEPT !.mwInited = @ - 1]
  <2>1. /\ Lists(Enter) /\ Counters(Enter, leftover, ~wasLow) /\ Ring(Enter, freed) /\ DOMAIN Enter = Names
        /\ Enter.mwInited = mw.mwInited /\ Enter.mwNML = mw.mwNML /\ Enter.mwAllocLimit = mw.mwAllocLimit
        /\ Enter.mwStatCurAlloc = mw.mwStatCurAlloc
        /\ LiveOf(Enter) = LiveOf(mw) /\ DeadOf(Enter) = DeadOf(mw) /\ Grabs(Enter) = Grabs(mw)
        /\ Enter.log = {} /\ Enter.ptr = NULL
    BY EnterFacts DEF Lists
  <2>2. /\ DOMAIN mw' = Names /\ mw'.mwInited = mw.mwInited - 1
        /\ mw'.mwChain = Enter.mwChain /\ mw'.mwGrabList = Enter.mwGrabList /\ mw'.out = Enter.out
        /\ mw'.mwNML = Enter.mwNML /\ mw'.mwAllocLimit = Enter.mwAllocLimit
        /\ mw'.mwNumCurAlloc = Enter.mwNumCurAlloc /\ mw'.mwStatCurAlloc = Enter.mwStatCurAlloc
        /\ mw'.mwNmlNumAlloc = Enter.mwNmlNumAlloc /\ mw'.mwNmlCurAlloc = Enter.mwNmlCurAlloc
        /\ mw'.mwLastFree = Enter.mwLastFree /\ mw'.mwLFcur = Enter.mwLFcur
        /\ mw'.log = {} /\ mw'.ptr = NULL
    BY <1>2, <2>1 DEF Names
  <2>3. Lists(mw') /\ LiveOf(mw') = LiveOf(mw) /\ DeadOf(mw') = DeadOf(mw) /\ Grabs(mw') = Grabs(mw)
    BY <2>1, <2>2, SameLists
  <2>4. Counters(mw', leftover, ~wasLow) /\ Ring(mw', freed)
    <3>1. mw.mwInited > 0
      BY <1>2, MemAssumption DEF IInv
    <3> QED BY <2>1, <2>2, <2>3, <3>1 DEF Counters, Ring
  <2>5. Base(mw')
    <3>1. mw'.mwInited \in 1 .. MaxSpent + 1
      BY <1>2, <2>2, MemAssumption DEF IInv
    <3> QED BY <2>1, <2>2, <3>1 DEF Base, IInv
  <2>6. IInv'
    BY <1>1, <2>3, <2>4, <2>5, OtherKeeps DEF Good
  <2> QED BY <2>1, <2>2, <2>3, <2>6
<1>3. CASE mw.mwInited = 0 /\ mw' = DoInit(Enter)
  <2>1. mw' = mwAutoInit(Enter)
    BY <1>3, EnterFacts DEF mwAutoInit
  <2>2. /\ Lists(mw') /\ Counters(mw', leftover, ~wasLow) /\ Ring(mw', freed) /\ Base(mw')
        /\ LiveOf(mw') = LiveOf(mw) /\ DeadOf(mw') = DeadOf(mw) /\ Grabs(mw') = Grabs(mw)
        /\ mw'.log = {} /\ mw'.ptr = NULL
    BY <2>1, StartFacts
  <2>3. IInv'
    BY <1>1, <2>2, OtherKeeps DEF Good
  <2> QED BY <1>3, <2>2, <2>3
<1> QED BY <1>2, <1>3 DEF mwTerm

---------------------------------------------------------------------------
(* The invariant holds *)

\* What mwRealloc does with a NULL pointer and with size 0.
LEMMA ReallocCases ==
  ASSUME NEW s, NEW p, NEW size \in Nat, NEW t \in DoRealloc(s, p, size)
  PROVE  /\ p = NULL => t \in DoMalloc(s, size)
         /\ p # NULL /\ size = 0 => t = DoFree(s, p)
BY DEF DoRealloc

\* Every call keeps the invariant.
LEMMA NextKeeps ==
  ASSUME IInv, Next
  PROVE  IInv'
<1>1. CASE mwInit
  BY <1>1, InitKeeps
<1>2. CASE mwTerm
  BY <1>2, EndsKeeps, TermFacts
<1>3. CASE mwTest
  BY <1>3, TestFacts
<1>4. CASE Scribble
  BY <1>4, ScribbleFacts
<1>5. ASSUME NEW size \in Sizes, mwMalloc(size) PROVE IInv'
  BY <1>5, MallocKeeps, MemAssumption DEF mwMalloc
<1>6. ASSUME NEW p \in Addresses \cup {NULL}, mwFree(p) PROVE IInv'
  BY <1>6, FreeKeepsInv DEF mwFree
<1>7. ASSUME NEW size \in Nat, NEW p \in Addresses \cup {NULL}, mwRealloc(p, size) PROVE IInv'
  <2>1. mw' \in DoRealloc(mwAutoInit(Enter), p, size) /\ Notes(p)
    BY <1>7 DEF mwRealloc
  <2>2. CASE p = NULL
    <3>1. mw' \in DoMalloc(mwAutoInit(Enter), size) /\ Notes(NULL)
      BY <2>1, <2>2, ReallocCases
    <3> QED BY <3>1, MallocKeeps
  <2>3. CASE p # NULL /\ size = 0
    <3>1. mw' = DoFree(mwAutoInit(Enter), p)
      BY <2>1, <2>3, ReallocCases
    <3> QED BY <2>1, <3>1, FreeKeepsInv
  <2>4. CASE p # NULL /\ size # 0
    BY <2>1, <2>4, ReallocKeeps
  <2> QED BY <2>2, <2>3, <2>4
<1>8. ASSUME NEW lim \in Limits, mwLimit(lim) PROVE IInv'
  BY <1>8, LimitKeeps, MemAssumption DEF mwLimit
<1>9. ASSUME NEW level \in Levels, mwNoMansLand(level) PROVE IInv'
  <2>1. level \in {NONE, FREE, ALL}
    BY MemAssumption DEF NONE, FREE, ALL
  <2>2. Good(mw', leftover, ~wasLow, freed)
    BY <1>9, <2>1, NoMansLandFacts
  <2>3. UNCHANGED <<freed, leftover, wasLow>>
    BY <1>9 DEF mwNoMansLand
  <2> QED BY <2>2, <2>3, OtherKeeps
<1>10. ASSUME NEW kb \in {0, 1}, mwGrab(kb) PROVE IInv'
  BY <1>10, GrabKeeps
<1>11. ASSUME NEW kb \in {0, 1}, mwDrop(kb) PROVE IInv'
  BY <1>11, DropKeeps
<1>12. Sizes \subseteq Nat /\ 0 \in Nat
  BY MemAssumption
<1> QED BY <1>1, <1>2, <1>3, <1>4, <1>5, <1>6, <1>7, <1>8, <1>9, <1>10, <1>11, <1>12 DEF Next

\* The next call sees of a stutter what it saw before.
LEMMA StutterKeeps ==
  ASSUME IInv, UNCHANGED vars
  PROVE  IInv'
BY DEF IInv, vars, Lists, Counters, Ring, Blocks, Grabs, LiveOf, DeadOf

LEMMA InitHolds ==
  ASSUME Init
  PROVE  IInv
<1>1. /\ DOMAIN mw = Names /\ mw.mwChain = <<>> /\ mw.mwGrabList = <<>> /\ mw.out = {}
      /\ mw.mwInited = 0 /\ mw.mwNML = NONE /\ mw.mwAllocLimit = 0 /\ mw.mwNumCurAlloc = 0
      /\ mw.mwStatCurAlloc = 0 /\ mw.mwNmlNumAlloc = 0 /\ mw.mwNmlCurAlloc = 0
      /\ mw.mwLastFree = [i \in 1 .. FreeList |-> NULL] /\ mw.mwLFcur = 1
      /\ freed = <<>> /\ leftover = 0 /\ wasLow = FALSE
  BY DEF Init, Names
<1>2. Blocks(mw) = {} /\ Grabs(mw) = {} /\ LiveOf(mw) = {} /\ DeadOf(mw) = {}
  BY <1>1 DEF Blocks, Grabs, LiveOf, DeadOf, Range
<1>3. Lists(mw)
  BY <1>1, <1>2 DEF Lists, DistinctAt
<1>4. Counters(mw, leftover, ~wasLow)
  <2>1. Cardinality({}) = 0
    BY FS_EmptySet
  <2> QED BY <1>1, <1>2, <2>1 DEF Counters
<1>5. Ring(mw, freed)
  <2>1. FreeList \in Nat \ {0}
    BY MemAssumption
  <2>2. freed \in Seq(Addresses) /\ Len(freed) = 0
    BY <1>1
  <2> QED BY <1>1, <2>1, <2>2 DEF Ring, NULL
<1> QED BY <1>1, <1>3, <1>4, <1>5, MemAssumption DEF IInv

\* Every reachable state: lists, counters and ring agree.
THEOREM Invariance == Spec => []IInv
<1>1. Init => IInv
  BY InitHolds
<1>2. IInv /\ [Next]_vars => IInv'
  BY NextKeeps, StutterKeeps
<1> QED BY <1>1, <1>2, PTL DEF Spec

---------------------------------------------------------------------------
(* The books *)

\* Every block and every kilobyte is held as one piece.
LEMMA HeldOnce ==
  ASSUME NEW s, Lists(s)
  PROVE  Cardinality(s.out) = Len(s.mwChain) + Len(s.mwGrabList)
<1> DEFINE P == {Place(b) : b \in Blocks(s)}
           K == {Kilobyte(g) : g \in Grabs(s)}
<1>1. /\ IsFiniteSet(Blocks(s)) /\ Cardinality(Blocks(s)) = Len(s.mwChain)
      /\ IsFiniteSet(Grabs(s)) /\ Cardinality(Grabs(s)) = Len(s.mwGrabList)
  BY FiniteLists
<1>2. /\ \A b, c \in Blocks(s) : b.at = c.at => b = c
      /\ \A b, c \in Grabs(s) : b.at = c.at => b = c
  BY ListTypes
<1>3. /\ \A b \in Blocks(s) : Place(b) \in P /\ Place(b).at = b.at
      /\ \A o \in P : \E b \in Blocks(s) : o = Place(b) /\ b.at = o.at
      /\ \A g \in Grabs(s) : Kilobyte(g) \in K /\ Kilobyte(g).at = g.at
      /\ \A o \in K : \E g \in Grabs(s) : o = Kilobyte(g) /\ g.at = o.at
  BY DEF Place, Kilobyte
<1>4. s.out = P \cup K
  BY DEF Lists
<1>5. \A b \in Blocks(s), g \in Grabs(s) : b.at # g.at
  BY DEF Lists
<1> HIDE DEF P, K
<1>6. Cardinality(Blocks(s)) = Cardinality(P) /\ IsFiniteSet(P)
  BY <1>1, <1>2, <1>3, SameCount
<1>7. Cardinality(Grabs(s)) = Cardinality(K) /\ IsFiniteSet(K)
  BY <1>1, <1>2, <1>3, SameCount
<1>8. P \cap K = {}
  BY <1>3, <1>5
<1>9. /\ Cardinality(P \cup K) = Cardinality(P) + Cardinality(K) - Cardinality(P \cap K)
      /\ Cardinality(P \cap K) = 0
      /\ Cardinality(P) \in Nat /\ Cardinality(K) \in Nat
  BY <1>6, <1>7, <1>8, FS_Union, FS_EmptySet, FS_CardinalityType
<1> QED BY <1>1, <1>4, <1>6, <1>7, <1>9

\* The blocks the properties speak of.
LEMMA SameBlocks ==
  ASSUME IInv
  PROVE  Live = LiveOf(mw) /\ Buried = DeadOf(mw)
<1>1. Live = LiveOf(mw)
  BY DEF Live, LiveOf, Blocks
<1>2. Buried = DeadOf(mw)
  BY DeadFacts DEF Buried, IInv
<1> QED BY <1>1, <1>2

\* The books of memwatch are right for every memory, size, limit and bound:
\* the chain and the grab list are exactly what it holds from the C library,
\* each once, and the counters of mwMalloc, mwFree and mwAbort are the bytes
\* and blocks of the chain.
THEOREM BooksAlwaysKept == Spec => []BooksKept
<1>1. ASSUME IInv PROVE TypeOK
  <2>1. /\ Blocks(mw) \subseteq BlockType /\ Grabs(mw) \subseteq GrabType
        /\ \A b \in Blocks(mw) : Place(b) \in mw.out
        /\ \A o \in mw.out : o.at + o.units - 1 <= Mem
        /\ \A b \in Blocks(mw) : b.hit => b.nml
    BY <1>1, ListTypes DEF IInv, Lists
  <2>2. \A b \in Blocks(mw) : b.at \in Addresses /\ b.at + Units(b.size) - 1 <= Mem
    BY <2>1 DEF BlockType, Place
  <2>3. \A g \in Grabs(mw) : g.type \in {"grabbed", "no-mans-land"}
    BY <2>1 DEF GrabType
  <2>4. mw.mwLFcur \in 1 .. FreeList
    BY <1>1 DEF IInv, Ring
  <2>5. mw.mwNumCurAlloc >= 0 /\ mw.mwStatCurAlloc >= 0
    <3>1. Cardinality(LiveOf(mw)) \in Nat /\ leftover \in Nat
      BY <1>1, FiniteLists DEF IInv
    <3> QED BY <1>1, <3>1 DEF IInv, Counters
  <2> QED BY <1>1, <2>1, <2>2, <2>3, <2>4, <2>5 DEF TypeOK, IInv, Blocks, Grabs
<1>2. ASSUME IInv PROVE HoldsWhatItLists
  <2>1. mw.out = {[at |-> b.at, units |-> Units(b.size)] : b \in Range(mw.mwChain)}
                  \cup {[at |-> g.at, units |-> 1] : g \in Range(mw.mwGrabList)}
    BY <1>2 DEF IInv, Lists, Place, Kilobyte, Blocks, Grabs
  <2>2. Cardinality(mw.out) = Len(mw.mwChain) + Len(mw.mwGrabList)
    BY <1>2, HeldOnce DEF IInv
  <2> QED BY <1>2, <2>1, <2>2 DEF HoldsWhatItLists, IInv
<1>3. ASSUME IInv PROVE CountersMatchChain
  BY <1>3, SameBlocks DEF IInv, Counters, CountersMatchChain
<1>4. IInv => BooksKept
  BY <1>1, <1>2, <1>3 DEF BooksKept
<1> QED BY <1>4, Invariance, PTL

---------------------------------------------------------------------------
(* What one call may do *)

\* What the properties say of a step, of the blocks of its two states.
InLimit ==
  mw.mwInited > 0 /\ mw'.mwAllocLimit # 0 /\ mw'.mwStatCurAlloc > mw.mwStatCurAlloc
    => mw'.mwStatCurAlloc <= mw'.mwAllocLimit

FailsFull ==
  <<"fail", call'.len>> \in mw'.log =>
    /\ Room(mw'.out, Units(call'.len)) = {} /\ DeadOf(mw') = {}
    /\ \A g \in Grabs(mw') : g.type = "grabbed"

Gone(b, S) == \A c \in S : c.at # b.at

Damaging ==
  /\ \A b \in LiveOf(mw) : b.torn /\ Gone(b, LiveOf(mw')) =>
       <<"overflow", b.at>> \in mw'.log \/ <<"unfreed", b.at, TRUE>> \in mw'.log
  /\ \A b \in DeadOf(mw) \cup Grabs(mw) : b.hit /\ Gone(b, DeadOf(mw') \cup Grabs(mw')) =>
       <<"wild pointer", b.at>> \in mw'.log

Accusing ==
  \A line \in mw'.log :
    /\ line[1] \in {"double-free", "realloc"} => line[2] \in Range(freed)
    /\ line[1] \in {"WILD free", "unknown pointer"} => line[2] \notin Range(freed)

\* The blocks a caller may use, and a new one that is apart from them.
Shown(s) == {[at |-> b.at, size |-> b.size] : b \in LiveOf(s)}
Kept(p) == {b \in Shown(mw) : b.at # p}
Given(kept) ==
  \E b \in [at : Addresses, size : Sizes] :
    /\ b.at = mw'.ptr /\ b.size = call'.len
    /\ \A c \in Shown(mw) : (b.at .. b.at + Units(b.size) - 1) \cap (c.at .. c.at + Units(c.size) - 1) = {}
    /\ Shown(mw') = kept \cup {b}

Promised ==
  \/ call'.op = "other" /\ Shown(mw') = Shown(mw)
  \/ call'.op = "abort" /\ Shown(mw') = {}
  \/ call'.op \in {"malloc", "realloc"} /\ mw'.ptr = NULL /\ Shown(mw') = Shown(mw)
  \/ call'.op = "malloc" /\ Given(Shown(mw))
  \/ call'.op = "realloc" /\ Given(Kept(call'.of))
  \/ call'.op = "free" /\ mw'.ptr = NULL /\ Shown(mw') = Kept(call'.of)
  \/ call'.op = "realloc" /\ call'.len = 0 /\ mw'.ptr = NULL /\ Shown(mw') = Kept(call'.of)

Sound == InLimit /\ FailsFull /\ Damaging /\ Accusing /\ Promised

\* The state a call works on once the checker is started.
Began(s) ==
  /\ Lists(s) /\ LiveOf(s) = LiveOf(mw) /\ DeadOf(s) = DeadOf(mw) /\ Grabs(s) = Grabs(mw)
  /\ mw.mwInited > 0 => s.mwStatCurAlloc = mw.mwStatCurAlloc
  /\ s.mwStatCurAlloc \in Nat /\ s.mwAllocLimit \in Nat /\ s.log = {} /\ s.ptr = NULL
  /\ \A p : p # NULL => (p \in Range(s.mwLastFree) <=> p \in Range(freed))

LEMMA Begun ==
  ASSUME IInv
  PROVE  Began(mwAutoInit(Enter))
<1> DEFINE s == mwAutoInit(Enter)
<1>1. /\ Lists(s) /\ Counters(s, leftover, ~wasLow) /\ Ring(s, freed) /\ Base(s)
      /\ LiveOf(s) = LiveOf(mw) /\ DeadOf(s) = DeadOf(mw) /\ Grabs(s) = Grabs(mw)
      /\ mw.mwInited > 0 => s.mwStatCurAlloc = mw.mwStatCurAlloc
      /\ s.log = {} /\ s.ptr = NULL
  BY StartFacts
<1> HIDE DEF s
<1>2. \A p : p # NULL => (p \in Range(s.mwLastFree) <=> p \in Range(freed))
  BY <1>1, RingKnows
<1>3. s.mwStatCurAlloc \in Nat /\ s.mwAllocLimit \in Nat
  BY <1>1 DEF Counters, Base
<1>4. Began(s)
  BY <1>1, <1>2, <1>3 DEF Began
<1> QED BY <1>4 DEF s

\* A log that tells of damage only blames nobody.
LEMMA PlainLog ==
  ASSUME \A line \in mw'.log : line[1] \in {"overflow", "wild pointer", "unfreed"}
  PROVE  FailsFull /\ Accusing
<1>1. FailsFull
  <2>1. <<"fail", call'.len>>[1] = "fail"
    OBVIOUS
  <2> QED BY <2>1 DEF FailsFull
<1>2. Accusing
  BY DEF Accusing
<1> QED BY <1>1, <1>2

\* A call that changes no block but the program's own writing in it.
Quiet ==
  /\ call'.op = "other" /\ mw'.ptr = NULL
  /\ mw.mwInited > 0 => mw'.mwStatCurAlloc = mw.mwStatCurAlloc
  /\ \A line \in mw'.log : line[1] \in {"overflow", "wild pointer"}
  /\ \A b \in Blocks(mw) : \E d \in Blocks(mw') : Alike(b, d)
  /\ \A d \in Blocks(mw') : \E b \in Blocks(mw) : Alike(b, d)
  /\ \A g \in Grabs(mw) : g.hit => (\E h \in Grabs(mw') : h.at = g.at) \/ <<"wild pointer", g.at>> \in mw'.log

LEMMA QuietSound ==
  ASSUME IInv, Quiet
  PROVE  Sound
<1>1. InLimit
  <2>1. mw.mwStatCurAlloc \in Nat
    BY DEF IInv, Counters
  <2>2. mw.mwInited > 0 => mw'.mwStatCurAlloc = mw.mwStatCurAlloc
    BY DEF Quiet
  <2>3. mw.mwInited > 0 => ~(mw'.mwStatCurAlloc > mw.mwStatCurAlloc)
    BY <2>1, <2>2
  <2> QED BY <2>3 DEF InLimit
<1>2. FailsFull /\ Accusing
  <2>1. \A line \in mw'.log : line[1] \in {"overflow", "wild pointer", "unfreed"}
    BY DEF Quiet
  <2> QED BY <2>1, PlainLog
<1>3. /\ \A b \in LiveOf(mw) : \E d \in LiveOf(mw') : d.at = b.at /\ d.size = b.size
      /\ \A d \in LiveOf(mw') : \E b \in LiveOf(mw) : d.at = b.at /\ d.size = b.size
      /\ \A b \in DeadOf(mw) : \E d \in DeadOf(mw') : d.at = b.at
  BY DEF Quiet, Alike, LiveOf, DeadOf
<1>4. Damaging
  <2>1. \A b \in LiveOf(mw) : ~Gone(b, LiveOf(mw'))
    BY <1>3 DEF Gone
  <2>2. \A b \in DeadOf(mw) : ~Gone(b, DeadOf(mw') \cup Grabs(mw'))
    BY <1>3 DEF Gone
  <2>3. \A g \in Grabs(mw) : g.hit => ~Gone(g, DeadOf(mw') \cup Grabs(mw')) \/ <<"wild pointer", g.at>> \in mw'.log
    BY DEF Gone, Quiet
  <2> QED BY <2>1, <2>2, <2>3 DEF Damaging
<1>5. Promised
  <2>1. Shown(mw') = Shown(mw)
    BY <1>3 DEF Shown
  <2> QED BY <2>1 DEF Promised, Quiet
<1> QED BY <1>1, <1>2, <1>4, <1>5 DEF Sound

\* A call that leaves the blocks alone is quiet.
LEMMA QuietFacts ==
  ASSUME LiveOf(mw') = LiveOf(mw), DeadOf(mw') = DeadOf(mw), call'.op = "other", mw'.ptr = NULL,
         mw.mwInited > 0 => mw'.mwStatCurAlloc = mw.mwStatCurAlloc,
         \A line \in mw'.log : line[1] \in {"overflow", "wild pointer"},
         \A g \in Grabs(mw) : g.hit => g \in Grabs(mw') \/ <<"wild pointer", g.at>> \in mw'.log
  PROVE  Quiet
<1>1. Blocks(mw') = Blocks(mw)
  BY DEF LiveOf, DeadOf
<1>2. \A b \in Blocks(mw) : Alike(b, b)
  BY DEF Alike
<1> QED BY <1>1, <1>2 DEF Quiet

\* The first mwInit, and a nested one.
LEMMA InitQuiet ==
  ASSUME IInv, mwInit
  PROVE  Quiet
<1>1. mw' = DoInit(Enter) /\ call'.op = "other"
  BY DEF mwInit, Asks
<1>2. CASE mw.mwInited > 0
  <2>1. /\ DOMAIN Enter = Names /\ Enter.mwInited = mw.mwInited /\ Enter.mwChain = mw.mwChain
        /\ Enter.mwGrabList = mw.mwGrabList /\ Enter.mwStatCurAlloc = mw.mwStatCurAlloc
        /\ Enter.log = {} /\ Enter.ptr = NULL
    BY EnterFacts DEF Lists
  <2>2. mw' = [Enter EXCEPT !.mwInited = @ + 1]
    BY <1>1, <1>2, <2>1 DEF DoInit
  <2>3. /\ mw'.mwChain = mw.mwChain /\ mw'.mwGrabList = mw.mwGrabList
        /\ mw'.mwStatCurAlloc = mw.mwStatCurAlloc /\ mw'.log = {} /\ mw'.ptr = NULL
    BY <2>1, <2>2 DEF Names
  <2>4. LiveOf(mw') = LiveOf(mw) /\ DeadOf(mw') = DeadOf(mw) /\ Grabs(mw') = Grabs(mw)
    BY <2>3 DEF LiveOf, DeadOf, Blocks, Grabs
  <2> QED BY <1>1, <2>3, <2>4, QuietFacts
<1>3. CASE ~(mw.mwInited > 0)
  <2>1. mw' = mwAutoInit(Enter)
    BY <1>1, <1>3, EnterFacts DEF mwAutoInit
  <2>2. /\ LiveOf(mw') = LiveOf(mw) /\ DeadOf(mw') = DeadOf(mw) /\ Grabs(mw') = Grabs(mw)
        /\ mw'.log = {} /\ mw'.ptr = NULL
    BY <2>1, StartFacts
  <2> QED BY <1>1, <1>3, <2>2, QuietFacts
<1> QED BY <1>2, <1>3

LEMMA LimitQuiet ==
  ASSUME IInv, NEW lim, mwLimit(lim)
  PROVE  Quiet
<1> DEFINE s == mwAutoInit(Enter)
<1>1. /\ DOMAIN s = Names /\ s.log = {} /\ s.ptr = NULL
      /\ LiveOf(s) = LiveOf(mw) /\ DeadOf(s) = DeadOf(mw) /\ Grabs(s) = Grabs(mw)
      /\ mw.mwInited > 0 => s.mwStatCurAlloc = mw.mwStatCurAlloc
  BY StartFacts DEF Lists
<1>2. mw' = [s EXCEPT !.mwAllocLimit = lim] /\ call'.op = "other"
  BY DEF mwLimit, Asks
<1> HIDE DEF s
<1>3. /\ mw'.mwChain = s.mwChain /\ mw'.mwGrabList = s.mwGrabList
      /\ mw'.mwStatCurAlloc = s.mwStatCurAlloc /\ mw'.log = {} /\ mw'.ptr = NULL
  BY <1>1, <1>2 DEF Names
<1>4. LiveOf(mw') = LiveOf(mw) /\ DeadOf(mw') = DeadOf(mw) /\ Grabs(mw') = Grabs(mw)
  BY <1>1, <1>3 DEF LiveOf, DeadOf, Blocks, Grabs
<1>5. mw.mwInited > 0 => mw'.mwStatCurAlloc = mw.mwStatCurAlloc
  BY <1>1, <1>3
<1> QED BY <1>2, <1>3, <1>4, <1>5, QuietFacts

LEMMA NoMansLandQuiet ==
  ASSUME IInv, NEW level \in {NONE, FREE, ALL}, mwNoMansLand(level)
  PROVE  Quiet
<1> DEFINE s == mwAutoInit(Enter)
           t == Levelled(s, level)
           exact == ~wasLow
<1>1. /\ Good(s, leftover, exact, freed) /\ s.log = {} /\ s.ptr = NULL
      /\ LiveOf(s) = LiveOf(mw) /\ DeadOf(s) = DeadOf(mw) /\ Grabs(s) = Grabs(mw)
      /\ mw.mwInited > 0 => s.mwStatCurAlloc = mw.mwStatCurAlloc
  BY StartFacts DEF Good
<1>2. /\ LiveOf(mw') = LiveOf(t) /\ DeadOf(mw') = DeadOf(t) /\ Grabs(mw') = Grabs(t)
      /\ mw'.log = t.log /\ mw'.ptr = t.ptr /\ mw'.mwStatCurAlloc = t.mwStatCurAlloc
  BY NoMansLandFacts
<1> HIDE DEF exact, s
<1>3. /\ LiveOf(t) = LiveOf(s) /\ DeadOf(t) = DeadOf(s)
      /\ t.ptr = s.ptr /\ t.mwStatCurAlloc = s.mwStatCurAlloc
      /\ \A line \in t.log : line[1] = "wild pointer"
      /\ \A g \in Grabs(s) : g.hit => g \in Grabs(t) \/ <<"wild pointer", g.at>> \in t.log
  BY <1>1, LevelledFacts
<1> HIDE DEF t
<1>4. call'.op = "other"
  BY DEF mwNoMansLand, Asks
<1>5. /\ mw.mwInited > 0 => mw'.mwStatCurAlloc = mw.mwStatCurAlloc
      /\ LiveOf(mw') = LiveOf(mw) /\ DeadOf(mw') = DeadOf(mw) /\ mw'.ptr = NULL
  BY <1>1, <1>2, <1>3
<1>6. \A line \in mw'.log : line[1] \in {"overflow", "wild pointer"}
  BY <1>2, <1>3
<1>7. \A g \in Grabs(mw) : g.hit => g \in Grabs(mw') \/ <<"wild pointer", g.at>> \in mw'.log
  BY <1>1, <1>2, <1>3
<1> QED BY <1>4, <1>5, <1>6, <1>7, QuietFacts

LEMMA GrabQuiet ==
  ASSUME IInv, NEW kb \in Nat, mwGrab(kb)
  PROVE  Quiet
<1>1. /\ LiveOf(mw') = LiveOf(mw) /\ DeadOf(mw') = DeadOf(mw) /\ Grabs(mw) \subseteq Grabs(mw')
      /\ mw'.log = {} /\ mw'.ptr = NULL
      /\ mw.mwInited > 0 => mw'.mwStatCurAlloc = mw.mwStatCurAlloc
  BY GrabKeeps
<1>2. call'.op = "other"
  BY DEF mwGrab, Asks
<1> QED BY <1>1, <1>2, QuietFacts

LEMMA DropQuiet ==
  ASSUME IInv, NEW kb \in Nat, mwDrop(kb)
  PROVE  Quiet
<1>1. GivesUp(Enter, mw') /\ DeadOf(mw') = DeadOf(Enter)
  BY DropKeeps
<1>2. /\ LiveOf(Enter) = LiveOf(mw) /\ DeadOf(Enter) = DeadOf(mw) /\ Grabs(Enter) = Grabs(mw)
      /\ Enter.mwStatCurAlloc = mw.mwStatCurAlloc /\ Enter.log = {} /\ Enter.ptr = NULL
  BY EnterFacts
<1>3. call'.op = "other"
  BY DEF mwDrop, Asks
<1>4. /\ LiveOf(mw') = LiveOf(mw) /\ DeadOf(mw') = DeadOf(mw)
      /\ mw'.ptr = NULL /\ mw'.mwStatCurAlloc = mw.mwStatCurAlloc
  BY <1>1, <1>2 DEF GivesUp, SameBooks
<1>5. \A line \in mw'.log : line[1] \in {"overflow", "wild pointer"}
  BY <1>1, <1>2 DEF GivesUp
<1>6. \A g \in Grabs(mw) : g.hit => g \in Grabs(mw') \/ <<"wild pointer", g.at>> \in mw'.log
  BY <1>1, <1>2 DEF GivesUp
<1> QED BY <1>3, <1>4, <1>5, <1>6, QuietFacts

LEMMA TestQuiet ==
  ASSUME IInv, mwTest
  PROVE  Quiet
<1>1. call'.op = "other"
  BY DEF mwTest, Asks
<1> QED BY <1>1, TestFacts, QuietFacts

LEMMA TermQuiet ==
  ASSUME IInv, mwTerm, ~Ends
  PROVE  Quiet
<1>1. call'.op = "other"
  BY DEF mwTerm, Asks
<1> QED BY <1>1, TermFacts, QuietFacts

LEMMA ScribbleQuiet ==
  ASSUME IInv, Scribble
  PROVE  Quiet
<1>1. call'.op = "other"
  BY DEF Scribble, Asks
<1>2. mw'.ptr = NULL /\ mw'.mwStatCurAlloc = mw.mwStatCurAlloc
  BY ScribbleFacts, EnterFacts DEF SameBooks
<1> QED BY <1>1, <1>2, ScribbleFacts DEF Quiet

\* A call that is refused, or a mistake, changes nothing but the log.
Fair ==
  \A line \in mw'.log :
    \/ line[1] \in {"NULL free", "overflow", "limit fail"}
    \/ line[1] \in {"double-free", "realloc"} /\ line[2] \in Range(freed)
    \/ line[1] \in {"WILD free", "unknown pointer"} /\ line[2] \notin Range(freed)

Takes == call'.op \in {"malloc", "realloc"}
Idle == Takes \/ (call'.op = "free" /\ \A b \in LiveOf(mw) : b.at # call'.of)

LEMMA RefusedSound ==
  ASSUME NEW s, Began(s), Reports(s, mw'), Fair, Idle
  PROVE  Sound
<1>1. /\ LiveOf(mw') = LiveOf(mw) /\ DeadOf(mw') = DeadOf(mw) /\ Grabs(mw') = Grabs(mw)
      /\ mw'.mwStatCurAlloc = s.mwStatCurAlloc /\ mw'.ptr = NULL
  BY DEF Began, Reports, SameBooks
<1>2. InLimit
  <2>1. s.mwStatCurAlloc \in Nat /\ (mw.mwInited > 0 => s.mwStatCurAlloc = mw.mwStatCurAlloc)
    BY DEF Began
  <2>2. mw.mwInited > 0 => ~(mw'.mwStatCurAlloc > mw.mwStatCurAlloc)
    <3> HAVE mw.mwInited > 0
    <3>1. mw'.mwStatCurAlloc = s.mwStatCurAlloc
      BY <1>1
    <3>2. mw'.mwStatCurAlloc = mw.mwStatCurAlloc /\ mw.mwStatCurAlloc \in Nat
      BY <2>1, <3>1
    <3> QED BY <3>2
  <2> QED BY <2>2 DEF InLimit
<1>3. FailsFull
  <2>1. <<"fail", call'.len>>[1] = "fail"
    OBVIOUS
  <2> QED BY <2>1 DEF FailsFull, Fair
<1>4. Damaging
  BY <1>1 DEF Damaging, Gone
<1>5. Accusing
  BY DEF Accusing, Fair
<1>6. Promised
  <2>1. Shown(mw') = Shown(mw)
    BY <1>1 DEF Shown
  <2>2. CASE Takes
    BY <1>1, <2>1, <2>2 DEF Promised, Takes
  <2>3. CASE call'.op = "free" /\ \A b \in LiveOf(mw) : b.at # call'.of
    <3>1. ASSUME NEW c \in Shown(mw) PROVE c.at # call'.of
      <4>1. PICK b \in LiveOf(mw) : c = [at |-> b.at, size |-> b.size]
        BY DEF Shown
      <4> QED BY <2>3, <4>1
    <3>2. Shown(mw) = Kept(call'.of)
      BY <3>1 DEF Kept
    <3> QED BY <1>1, <2>1, <2>3, <3>2 DEF Promised
  <2> QED BY <2>2, <2>3 DEF Idle
<1> QED BY <1>2, <1>3, <1>4, <1>5, <1>6 DEF Sound

LEMMA NullIsNoAddress == NULL \notin Addresses
BY MemAssumption DEF Addresses, NULL

\* A wrong pointer is judged by the ring, and so by the history.
LEMMA JudgedSound ==
  ASSUME IInv, NEW s, Began(s), NEW p, NEW known, NEW unknown, Judges(s, p, known, unknown, mw'),
         known \in {"double-free", "realloc"}, unknown \in {"WILD free", "unknown pointer"},
         Idle
  PROVE  Sound
<1>1. NULL \notin Range(freed)
  <2>1. freed \in Seq(Addresses)
    BY DEF IInv, Ring
  <2>2. Range(freed) \subseteq Addresses
    BY <2>1, RangeFacts
  <2>3. NULL \notin Addresses
    BY NullIsNoAddress
  <2> QED BY <2>2, <2>3
<1>2. p \in Range(s.mwLastFree) /\ p # NULL => p \in Range(freed)
  BY DEF Began
<1>3. p \notin Range(s.mwLastFree) => p \notin Range(freed)
  BY <1>1 DEF Began
<1>4. ASSUME NEW line \in mw'.log
      PROVE  \/ line[1] \in {"NULL free", "overflow", "limit fail"}
             \/ line[1] \in {"double-free", "realloc"} /\ line[2] \in Range(freed)
             \/ line[1] \in {"WILD free", "unknown pointer"} /\ line[2] \notin Range(freed)
  <2>1. line \notin s.log
    BY DEF Began
  <2> QED BY <1>2, <1>3, <2>1 DEF Judges
<1>5. Reports(s, mw')
  BY DEF Judges
<1>6. Fair
  BY <1>4 DEF Fair
<1> QED BY <1>5, <1>6, RefusedSound

\* A request past the limit is refused.
LEMMA LimitFailSound ==
  ASSUME NEW s, Began(s), NEW size, mw' = [s EXCEPT !.log = @ \cup {<<"limit fail", size>>}], Takes
  PROVE  Sound
<1>1. Lists(s) /\ s.log = {}
  BY DEF Began
<1>2. /\ Lists(mw') /\ SameBooks(s, mw') /\ mw'.log = s.log \cup {<<"limit fail", size>>}
      /\ mw'.mwChain = s.mwChain /\ mw'.mwGrabList = s.mwGrabList /\ mw'.out = s.out
      /\ Blocks(mw') = Blocks(s) /\ Grabs(mw') = Grabs(s) /\ LiveOf(mw') = LiveOf(s) /\ DeadOf(mw') = DeadOf(s)
      /\ \A left, exact : Counters(s, left, exact) => Counters(mw', left, exact)
  BY <1>1, LogOnly, ZenonT(40)
<1>3. Reports(s, mw')
  BY <1>1, <1>2 DEF Reports
<1>4. ASSUME NEW line \in mw'.log PROVE line[1] = "limit fail"
  <2>1. line = <<"limit fail", size>>
    BY <1>1, <1>2
  <2> QED BY <2>1
<1>5. Fair /\ Idle
  BY <1>4 DEF Fair, Idle
<1> QED BY <1>3, <1>5, RefusedSound

\* An allocation that fails has given all no-mans-land up.
LEMMA FailSound ==
  ASSUME NEW s, Began(s), NEW size, NEW u, GivesUp(s, u),
         mw' = [u EXCEPT !.log = @ \cup {<<"fail", size>>}],
         Room(u.out, Units(size)) = {}, DeadOf(u) = {}, \A g \in Grabs(u) : g.type = "grabbed",
         Takes, call'.len = size
  PROVE  Sound
<1>1. Lists(u) /\ s.log = {}
  BY DEF Began, GivesUp
<1>2. /\ Lists(mw') /\ SameBooks(u, mw') /\ mw'.log = u.log \cup {<<"fail", size>>}
      /\ mw'.mwChain = u.mwChain /\ mw'.mwGrabList = u.mwGrabList /\ mw'.out = u.out
      /\ Blocks(mw') = Blocks(u) /\ Grabs(mw') = Grabs(u) /\ LiveOf(mw') = LiveOf(u) /\ DeadOf(mw') = DeadOf(u)
      /\ \A left, exact : Counters(u, left, exact) => Counters(mw', left, exact)
  <2>1. mw' = [u EXCEPT !.log = @ \cup {<<"fail", size>>}]
    OBVIOUS
  <2> QED BY <1>1, <2>1, LogOnly
<1>3. /\ LiveOf(mw') = LiveOf(mw) /\ mw'.mwStatCurAlloc = s.mwStatCurAlloc /\ mw'.ptr = NULL
      /\ \A b \in DeadOf(mw) : b.hit => b \in DeadOf(mw') \/ <<"wild pointer", b.at>> \in mw'.log
      /\ \A g \in Grabs(mw) : g.hit => g \in Grabs(mw') \/ <<"wild pointer", g.at>> \in mw'.log
  BY <1>2 DEF Began, GivesUp, SameBooks
<1>4. InLimit
  <2>1. s.mwStatCurAlloc \in Nat /\ (mw.mwInited > 0 => s.mwStatCurAlloc = mw.mwStatCurAlloc)
    BY DEF Began
  <2>2. mw.mwInited > 0 => ~(mw'.mwStatCurAlloc > mw.mwStatCurAlloc)
    <3> HAVE mw.mwInited > 0
    <3>1. mw'.mwStatCurAlloc = s.mwStatCurAlloc
      BY <1>3
    <3>2. mw'.mwStatCurAlloc = mw.mwStatCurAlloc /\ mw.mwStatCurAlloc \in Nat
      BY <2>1, <3>1
    <3> QED BY <3>2
  <2> QED BY <2>2 DEF InLimit
<1>5. FailsFull
  BY <1>2 DEF FailsFull
<1>6. Damaging
  BY <1>3 DEF Damaging, Gone
<1>7. Accusing
  <2>1. ASSUME NEW line \in mw'.log PROVE line[1] \in {"fail", "wild pointer"}
    <3>1. CASE line \in u.log
      BY <1>1, <3>1 DEF GivesUp
    <3>2. CASE line = <<"fail", size>>
      BY <3>2
    <3> QED BY <1>2, <3>1, <3>2
  <2> QED BY <2>1 DEF Accusing
<1>8. Promised
  <2>1. Shown(mw') = Shown(mw)
    BY <1>3 DEF Shown
  <2> QED BY <1>3, <2>1 DEF Promised, Takes
<1> QED BY <1>4, <1>5, <1>6, <1>7, <1>8 DEF Sound

\* No-mans-land that was given up tells of its damage.
LEMMA GivenUpTells ==
  ASSUME NEW s, Began(s), NEW u, GivesUp(s, u)
  PROVE  /\ \A line \in u.log : line[1] = "wild pointer"
         /\ \A b \in DeadOf(mw) : b.hit => b \in DeadOf(u) \/ <<"wild pointer", b.at>> \in u.log
         /\ \A g \in Grabs(mw) : g.hit => g \in Grabs(u) \/ <<"wild pointer", g.at>> \in u.log
BY DEF Began, GivesUp

\* What is shown of a new block, and of the others.
LEMMA NewIsGiven ==
  ASSUME Lists(mw), NEW size \in Sizes, NEW a \in Addresses, NEW gone,
         LiveOf(mw') = gone \cup {NewBlock(a, size)}, NEW kept, kept = {[at |-> b.at, size |-> b.size] : b \in gone},
         \A c \in LiveOf(mw) : (a .. a + Units(size) - 1) \cap (c.at .. c.at + Units(c.size) - 1) = {},
         mw'.ptr = a, call'.len = size
  PROVE  Given(kept)
<1> DEFINE b == [at |-> a, size |-> size]
<1>1. b \in [at : Addresses, size : Sizes] /\ b.at = mw'.ptr /\ b.size = call'.len
  OBVIOUS
<1>2. \A c \in Shown(mw) : (b.at .. b.at + Units(b.size) - 1) \cap (c.at .. c.at + Units(c.size) - 1) = {}
  BY DEF Shown
<1>3. Shown(mw') = kept \cup {b}
  <2>6. NewBlock(a, size).at = a /\ NewBlock(a, size).size = size
    BY DEF NewBlock
  <2>1. \A c \in LiveOf(mw') : c \in gone \/ (c.at = a /\ c.size = size)
    BY <2>6
  <2>2. gone \subseteq LiveOf(mw') /\ \E c \in LiveOf(mw') : c.at = a /\ c.size = size
    BY <2>6
  <2>3. ASSUME NEW c \in Shown(mw') PROVE c \in kept \cup {b}
    BY <2>1 DEF Shown
  <2>4. kept \subseteq Shown(mw')
    BY <2>2 DEF Shown
  <2>5. b \in Shown(mw')
    BY <2>2 DEF Shown
  <2> QED BY <2>3, <2>4, <2>5
<1> QED BY <1>1, <1>2, <1>3 DEF Given

\* Damage that is still there or was reported is not lost.
LEMMA DamageTold ==
  ASSUME \A b \in LiveOf(mw) : b.torn => \/ b \in LiveOf(mw')
                                         \/ <<"overflow", b.at>> \in mw'.log
                                         \/ <<"unfreed", b.at, TRUE>> \in mw'.log,
         \A b \in DeadOf(mw) : b.hit => b \in DeadOf(mw') \/ <<"wild pointer", b.at>> \in mw'.log,
         \A g \in Grabs(mw) : g.hit => g \in Grabs(mw') \/ <<"wild pointer", g.at>> \in mw'.log
  PROVE  Damaging
BY DEF Damaging, Gone

\* A new block, within the limit.
Obtains == call'.op = "malloc" \/ (call'.op = "realloc" /\ call'.of = NULL)

LEMMA LinkSound ==
  ASSUME Lists(mw), NEW s, Began(s), NEW size \in Sizes, ~OverLimit(s, size), NEW u, GivesUp(s, u),
         NEW a \in Room(u.out, Units(size)), mw' = Link(u, a, size), Obtains, call'.len = size
  PROVE  Sound
<1>1. size \in Nat /\ Lists(u)
  BY MemAssumption DEF GivesUp
<1>2. LET t == Link(u, a, size)
      IN  /\ LiveOf(t) = LiveOf(u) \cup {NewBlock(a, size)}
          /\ DeadOf(t) = DeadOf(u) /\ Grabs(t) = Grabs(u) /\ a \in Addresses
          /\ \A b \in Blocks(u) : (a .. a + Units(size) - 1) \cap (b.at .. b.at + Units(b.size) - 1) = {}
          /\ t.mwAllocLimit = u.mwAllocLimit /\ t.mwStatCurAlloc = u.mwStatCurAlloc + size
          /\ t.ptr = a /\ t.log = u.log
  BY <1>1, LinkFacts
<1>3. /\ LiveOf(mw') = LiveOf(u) \cup {NewBlock(a, size)}
      /\ DeadOf(mw') = DeadOf(u) /\ Grabs(mw') = Grabs(u) /\ a \in Addresses
      /\ \A b \in Blocks(u) : (a .. a + Units(size) - 1) \cap (b.at .. b.at + Units(b.size) - 1) = {}
      /\ mw'.mwAllocLimit = u.mwAllocLimit /\ mw'.mwStatCurAlloc = u.mwStatCurAlloc + size
      /\ mw'.ptr = a /\ mw'.log = u.log
  BY <1>2
<1>4. /\ LiveOf(u) = LiveOf(mw)
      /\ u.mwAllocLimit = s.mwAllocLimit /\ u.mwStatCurAlloc = s.mwStatCurAlloc
  BY DEF Began, GivesUp, SameBooks
<1>5. /\ \A line \in u.log : line[1] = "wild pointer"
      /\ \A b \in DeadOf(mw) : b.hit => b \in DeadOf(u) \/ <<"wild pointer", b.at>> \in u.log
      /\ \A g \in Grabs(mw) : g.hit => g \in Grabs(u) \/ <<"wild pointer", g.at>> \in u.log
  BY GivenUpTells
<1>6. InLimit
  <2>1. s.mwStatCurAlloc \in Nat /\ s.mwAllocLimit \in Nat
    BY DEF Began
  <2>2. s.mwAllocLimit = 0 \/ size + s.mwStatCurAlloc <= s.mwAllocLimit
    BY <1>1, <2>1 DEF OverLimit
  <2>3. mw'.mwAllocLimit # 0 => mw'.mwStatCurAlloc <= mw'.mwAllocLimit
    BY <1>1, <1>3, <1>4, <2>1, <2>2
  <2> QED BY <2>3 DEF InLimit
<1>7. FailsFull /\ Accusing
  <2>1. \A line \in mw'.log : line[1] \in {"overflow", "wild pointer", "unfreed"}
    BY <1>3, <1>5
  <2> QED BY <2>1, PlainLog
<1>8. Damaging
  <2>1. \A b \in LiveOf(mw) : b \in LiveOf(mw')
    BY <1>3, <1>4
  <2>2. /\ \A b \in DeadOf(mw) : b.hit => b \in DeadOf(mw') \/ <<"wild pointer", b.at>> \in mw'.log
        /\ \A g \in Grabs(mw) : g.hit => g \in Grabs(mw') \/ <<"wild pointer", g.at>> \in mw'.log
    BY <1>3, <1>5
  <2> QED BY <2>1, <2>2, DamageTold
<1>9. Promised
  <2>1. \A c \in LiveOf(mw) : (a .. a + Units(size) - 1) \cap (c.at .. c.at + Units(c.size) - 1) = {}
    BY <1>3, <1>4 DEF LiveOf
  <2>2. LiveOf(mw') = LiveOf(mw) \cup {NewBlock(a, size)}
    BY <1>3, <1>4
  <2>3. Shown(mw) = {[at |-> b.at, size |-> b.size] : b \in LiveOf(mw)}
    BY DEF Shown
  <2>4. Given(Shown(mw))
    BY <1>3, <2>1, <2>2, <2>3, NewIsGiven
  <2>5. Kept(NULL) = Shown(mw)
    <3>1. LiveOf(mw) \subseteq BlockType
      BY ListTypes DEF LiveOf
    <3>2. \A c \in Shown(mw) : c.at # NULL
      BY <3>1, NullIsNoAddress DEF Shown, BlockType
    <3> QED BY <3>2 DEF Kept
  <2> QED BY <2>4, <2>5 DEF Promised, Obtains
<1> QED BY <1>6, <1>7, <1>8, <1>9 DEF Sound

\* What the caller sees when one block is gone.
LEMMA OneGone ==
  ASSUME Lists(mw), NEW b \in LiveOf(mw)
  PROVE  {[at |-> c.at, size |-> c.size] : c \in LiveOf(mw) \ {b}} = Kept(b.at)
<1>1. \A c \in LiveOf(mw) : c.at = b.at => c = b
  BY ListTypes DEF LiveOf
<1>2. ASSUME NEW c \in LiveOf(mw) \ {b} PROVE [at |-> c.at, size |-> c.size] \in Kept(b.at)
  BY <1>1 DEF Kept, Shown
<1>3. ASSUME NEW d \in Kept(b.at) PROVE \E c \in LiveOf(mw) \ {b} : d = [at |-> c.at, size |-> c.size]
  <2>1. PICK c \in LiveOf(mw) : d = [at |-> c.at, size |-> c.size]
    BY DEF Kept, Shown
  <2>2. d.at # b.at
    BY DEF Kept
  <2> QED BY <2>1, <2>2
<1> QED BY <1>2, <1>3

\* A block that is freed is the only one that goes.
Releases(p) == call'.of = p /\ (call'.op = "free" \/ (call'.op = "realloc" /\ call'.len = 0))

LEMMA FreeSound ==
  ASSUME Lists(mw), NEW s, Began(s), NEW b \in LiveOf(s), mw' = DoFree(s, b.at), Releases(b.at)
  PROVE  Sound
<1>1. Lists(s) /\ LiveOf(s) = LiveOf(mw) /\ DeadOf(s) = DeadOf(mw) /\ Grabs(s) = Grabs(mw)
  BY DEF Began
<1>2. LET t == DoFree(s, b.at)
      IN  /\ LiveOf(t) = LiveOf(s) \ {b} /\ Grabs(t) = Grabs(s)
          /\ DeadOf(t) = IF s.mwNML # NONE THEN DeadOf(s) \cup {Freed(b)} ELSE DeadOf(s)
          /\ t.log = s.log \cup mwTestBuf(b) /\ t.ptr = s.ptr
          /\ t.mwStatCurAlloc = s.mwStatCurAlloc - b.size
  BY <1>1, FreeFacts, ZenonT(40)
<1>3. /\ LiveOf(mw') = LiveOf(mw) \ {b} /\ Grabs(mw') = Grabs(mw) /\ DeadOf(mw) \subseteq DeadOf(mw')
      /\ mw'.log = mwTestBuf(b) /\ mw'.ptr = NULL
      /\ mw'.mwStatCurAlloc = s.mwStatCurAlloc - b.size
  BY <1>1, <1>2 DEF Began
<1>4. InLimit
  <2>1. s.mwStatCurAlloc \in Nat /\ (mw.mwInited > 0 => s.mwStatCurAlloc = mw.mwStatCurAlloc)
    BY DEF Began
  <2>2. b.size \in Nat
    BY <1>1, ListTypes DEF LiveOf, BlockType
  <2>3. mw.mwInited > 0 => ~(mw'.mwStatCurAlloc > mw.mwStatCurAlloc)
    BY <1>3, <2>1, <2>2
  <2> QED BY <2>3 DEF InLimit
<1>5. FailsFull /\ Accusing
  <2>1. ASSUME NEW line \in mw'.log PROVE line[1] = "overflow"
    <3>1. line = <<"overflow", b.at>>
      BY <1>3 DEF mwTestBuf
    <3> QED BY <3>1
  <2> QED BY <2>1, PlainLog
<1>6. Damaging
  <2>1. \A c \in LiveOf(mw) : c.torn => c \in LiveOf(mw') \/ <<"overflow", c.at>> \in mw'.log
    BY <1>3 DEF mwTestBuf
  <2> QED BY <1>3, <2>1, DamageTold
<1>7. Promised
  <2>1. Shown(mw') = Kept(b.at)
    BY <1>1, <1>3, OneGone DEF Shown
  <2> QED BY <1>3, <2>1 DEF Promised, Releases
<1> QED BY <1>4, <1>5, <1>6, <1>7 DEF Sound

\* A block that moves keeps the limit, and what it leaves is freed.
LEMMA MovesSound ==
  ASSUME Lists(mw), NEW s, Began(s), NEW size \in Sizes, NEW b \in LiveOf(s),
         NEW u, NEW a, Moves(s, b, size, u, a, mw'),
         call'.op = "realloc", call'.of = b.at, call'.len = size
  PROVE  Sound
<1>1. /\ Lists(s) /\ LiveOf(s) = LiveOf(mw) /\ size \in Nat
      /\ s.mwStatCurAlloc \in Nat /\ s.mwAllocLimit \in Nat
  BY MemAssumption DEF Began
<1>2. /\ LiveOf(mw') = (LiveOf(s) \ {b}) \cup {NewBlock(a, size)}
      /\ a \in Addresses
      /\ \A c \in LiveOf(s) : (a .. a + Units(size) - 1) \cap (c.at .. c.at + Units(c.size) - 1) = {}
      /\ DeadOf(mw') = IF s.mwNML # NONE THEN DeadOf(u) \cup {Freed(b)} ELSE DeadOf(u)
      /\ Grabs(mw') = Grabs(u) /\ mw'.log = u.log \cup mwTestBuf(b) /\ mw'.ptr = a
      /\ mw'.mwAllocLimit = s.mwAllocLimit /\ mw'.mwStatCurAlloc = (s.mwStatCurAlloc + size) - b.size
  BY <1>1, MovesFacts
<1>3. ~OverLimit(s, size - b.size) /\ GivesUp(s, u)
  BY DEF Moves
<1>4. /\ \A line \in u.log : line[1] = "wild pointer"
      /\ \A c \in DeadOf(mw) : c.hit => c \in DeadOf(u) \/ <<"wild pointer", c.at>> \in u.log
      /\ \A g \in Grabs(mw) : g.hit => g \in Grabs(u) \/ <<"wild pointer", g.at>> \in u.log
  BY <1>3, GivenUpTells
<1>5. InLimit
  <2>1. b.size \in Nat
    BY <1>1, ListTypes DEF LiveOf, BlockType
  <2>2. s.mwAllocLimit = 0 \/ (size - b.size) + s.mwStatCurAlloc <= s.mwAllocLimit
    BY <1>1, <1>3, <2>1 DEF OverLimit
  <2>3. mw'.mwAllocLimit # 0 => mw'.mwStatCurAlloc <= mw'.mwAllocLimit
    BY <1>1, <1>2, <2>1, <2>2
  <2> QED BY <2>3 DEF InLimit
<1>6. FailsFull /\ Accusing
  <2>1. ASSUME NEW line \in mw'.log PROVE line[1] \in {"overflow", "wild pointer"}
    <3>1. line \in u.log \/ line = <<"overflow", b.at>>
      BY <1>2 DEF mwTestBuf
    <3>2. CASE line = <<"overflow", b.at>>
      BY <3>2
    <3> QED BY <1>4, <3>1, <3>2
  <2> QED BY <2>1, PlainLog
<1>7. Damaging
  <2>1. \A c \in LiveOf(mw) : c.torn => c \in LiveOf(mw') \/ <<"overflow", c.at>> \in mw'.log
    BY <1>1, <1>2 DEF mwTestBuf
  <2>2. /\ \A c \in DeadOf(mw) : c.hit => c \in DeadOf(mw') \/ <<"wild pointer", c.at>> \in mw'.log
        /\ \A g \in Grabs(mw) : g.hit => g \in Grabs(mw') \/ <<"wild pointer", g.at>> \in mw'.log
    BY <1>2, <1>4
  <2> QED BY <2>1, <2>2, DamageTold
<1>8. Promised
  <2>1. {[at |-> c.at, size |-> c.size] : c \in LiveOf(mw) \ {b}} = Kept(b.at)
    BY <1>1, OneGone
  <2>2. LiveOf(mw') = (LiveOf(mw) \ {b}) \cup {NewBlock(a, size)}
    BY <1>1, <1>2
  <2>3. Given(Kept(b.at))
    <3> DEFINE gone == LiveOf(mw) \ {b}
    <3>1. /\ LiveOf(mw') = gone \cup {NewBlock(a, size)} /\ a \in Addresses /\ mw'.ptr = a
          /\ Kept(b.at) = {[at |-> c.at, size |-> c.size] : c \in gone}
          /\ \A c \in LiveOf(mw) : (a .. a + Units(size) - 1) \cap (c.at .. c.at + Units(c.size) - 1) = {}
      BY <1>1, <1>2, <2>1, <2>2
    <3> HIDE DEF gone
    <3> QED BY <3>1, NewIsGiven
  <2> QED BY <2>3 DEF Promised
<1> QED BY <1>5, <1>6, <1>7, <1>8 DEF Sound

\* The end of the checker tells of every block that is still live.
LEMMA EndsSound ==
  ASSUME IInv, Ends
  PROVE  Sound
<1>1. /\ Lists(Enter) /\ Enter.mwNmlNumAlloc \in Int /\ Enter.mwNmlCurAlloc \in Int
      /\ LiveOf(Enter) = LiveOf(mw) /\ DeadOf(Enter) = DeadOf(mw) /\ Grabs(Enter) = Grabs(mw)
      /\ Enter.mwStatCurAlloc = mw.mwStatCurAlloc /\ Enter.log = {} /\ mw.mwStatCurAlloc \in Nat
  BY EnterFacts DEF IInv, Counters
<1>2. mw' = mwAbort(Enter) /\ call'.op = "abort"
  BY DEF Ends, Asks
<1>3. LET t == mwAbort(Enter)
      IN  /\ t.mwChain = <<>> /\ t.mwStatCurAlloc = Enter.mwStatCurAlloc
          /\ \A b \in LiveOf(Enter) : <<"unfreed", b.at, b.torn>> \in t.log
          /\ \A b \in DeadOf(Enter) : b.hit => <<"wild pointer", b.at>> \in t.log
          /\ \A g \in Grabs(Enter) : g.hit => <<"wild pointer", g.at>> \in t.log
          /\ \A line \in t.log : line \in Enter.log \/ line[1] \in {"wild pointer", "unfreed"}
  BY <1>1, AbortFacts
<1>4. /\ mw'.mwChain = <<>> /\ mw'.mwStatCurAlloc = mw.mwStatCurAlloc
      /\ \A b \in LiveOf(mw) : <<"unfreed", b.at, b.torn>> \in mw'.log
      /\ \A b \in DeadOf(mw) : b.hit => <<"wild pointer", b.at>> \in mw'.log
      /\ \A g \in Grabs(mw) : g.hit => <<"wild pointer", g.at>> \in mw'.log
      /\ \A line \in mw'.log : line[1] \in {"wild pointer", "unfreed"}
  BY <1>1, <1>2, <1>3
<1>5. InLimit
  <2>1. mw'.mwStatCurAlloc = mw.mwStatCurAlloc /\ mw.mwStatCurAlloc \in Nat
    BY <1>1, <1>4
  <2>2. ~(mw'.mwStatCurAlloc > mw.mwStatCurAlloc)
    BY <2>1
  <2> QED BY <2>2 DEF InLimit
<1>6. FailsFull /\ Accusing
  <2>1. \A line \in mw'.log : line[1] \in {"overflow", "wild pointer", "unfreed"}
    BY <1>4
  <2> QED BY <2>1, PlainLog
<1>7. Damaging
  <2>1. ASSUME NEW b \in LiveOf(mw), b.torn PROVE <<"unfreed", b.at, TRUE>> \in mw'.log
    <3>1. b.torn \in BOOLEAN
      BY <1>1, ListTypes DEF LiveOf, BlockType, IInv
    <3>2. b.torn = TRUE
      BY <2>1, <3>1
    <3>3. <<"unfreed", b.at, b.torn>> \in mw'.log
      BY <1>4
    <3> QED BY <3>2, <3>3
  <2> QED BY <1>4, <2>1, DamageTold
<1>8. Promised
  <2>2. mw'.mwChain = <<>>
    BY <1>4
  <2>3. LiveOf(mw') = {}
    BY <2>2 DEF LiveOf, Blocks, Range
  <2>1. Shown(mw') = {}
    BY <2>3 DEF Shown
  <2> QED BY <1>2, <2>1 DEF Promised
<1> QED BY <1>5, <1>6, <1>7, <1>8 DEF Sound

\* mwMalloc, and mwRealloc of NULL: refused, failed or linked.
LEMMA ObtainSound ==
  ASSUME IInv, NEW s, Began(s), NEW size \in Sizes, NEW t, t = mw', t \in DoMalloc(s, size),
         Obtains, call'.len = size
  PROVE  Sound
<1>1. Takes /\ Lists(s) /\ Lists(mw)
  BY DEF Takes, Obtains, Began, IInv
<1>2. CASE OverLimit(s, size)
  <2>1. mw' = [s EXCEPT !.log = @ \cup {<<"limit fail", size>>}]
    BY <1>2 DEF DoMalloc
  <2> QED BY <1>1, <2>1, LimitFailSound
<1>3. CASE ~OverLimit(s, size)
  <2>1. t \in Obtain(s, size)
    BY <1>3 DEF DoMalloc
  <2>2. PICK u : Obtained(s, size, u, t)
    BY <1>1, <2>1, ObtainFacts
  <2>3. GivesUp(s, u)
    BY <2>2 DEF Obtained
  <2>4. CASE /\ t = [u EXCEPT !.log = @ \cup {<<"fail", size>>}]
             /\ Room(u.out, Units(size)) = {} /\ DeadOf(u) = {} /\ \A g \in Grabs(u) : g.type = "grabbed"
    BY <1>1, <2>3, <2>4, FailSound
  <2>5. ASSUME NEW a \in Room(u.out, Units(size)), t = Link(u, a, size) PROVE Sound
    BY <1>1, <1>3, <2>3, <2>5, LinkSound
  <2> QED BY <2>2, <2>4, <2>5 DEF Obtained
<1> QED BY <1>2, <1>3

LEMMA MallocSound ==
  ASSUME IInv, NEW size \in Sizes, mwMalloc(size)
  PROVE  Sound
<1> DEFINE s == mwAutoInit(Enter)
<1>1. Began(s)
  BY Begun
<1>2. mw' \in DoMalloc(s, size) /\ call' = [op |-> "malloc", of |-> NULL, len |-> size]
  BY DEF mwMalloc, Asks
<1> HIDE DEF s
<1>3. Obtains /\ call'.len = size
  BY <1>2 DEF Obtains
<1> QED BY <1>1, <1>2, <1>3, ObtainSound

\* A free of whatever pointer, and a realloc of it to nothing.
LEMMA AnyFreeSound ==
  ASSUME IInv, NEW s, Began(s), NEW p, mw' = DoFree(s, p), Releases(p)
  PROVE  Sound
<1>1. Lists(s) /\ Lists(mw) /\ LiveOf(s) = LiveOf(mw)
  BY DEF Began, IInv
<1>2. ASSUME NEW b \in LiveOf(s), b.at = p PROVE Sound
  BY <1>1, <1>2, FreeSound
<1>3. ASSUME \A b \in LiveOf(s) : b.at # p PROVE Sound
  <2>1. Judges(s, p, "double-free", "WILD free", DoFree(s, p))
    BY <1>1, <1>3, MistakeFacts
  <2>2. Judges(s, p, "double-free", "WILD free", mw')
    BY <2>1
  <2>3. Idle
    <3>1. \A b \in LiveOf(mw) : b.at # call'.of
      BY <1>1, <1>3 DEF Releases
    <3> QED BY <3>1 DEF Idle, Takes, Releases
  <2> DEFINE known == "double-free"
             unknown == "WILD free"
  <2>4. Judges(s, p, known, unknown, mw') /\ known \in {"double-free", "realloc"}
        /\ unknown \in {"WILD free", "unknown pointer"}
    BY <2>2
  <2> HIDE DEF known, unknown
  <2> QED BY <2>3, <2>4, JudgedSound
<1> QED BY <1>2, <1>3

LEMMA FreeCallSound ==
  ASSUME IInv, NEW p, mwFree(p)
  PROVE  Sound
<1> DEFINE s == mwAutoInit(Enter)
<1>1. Began(s)
  BY Begun
<1>2. mw' = DoFree(s, p) /\ call' = [op |-> "free", of |-> p, len |-> 0]
  BY DEF mwFree, Asks
<1> HIDE DEF s
<1>3. Releases(p)
  BY <1>2 DEF Releases
<1> QED BY <1>1, <1>2, <1>3, AnyFreeSound

LEMMA ReallocSound ==
  ASSUME IInv, NEW p, NEW size \in Nat, mwRealloc(p, size), size \in Sizes \/ (p # NULL /\ size = 0)
  PROVE  Sound
<1> DEFINE s == mwAutoInit(Enter)
<1>1. Began(s)
  BY Begun
<1>2. mw' \in DoRealloc(s, p, size) /\ call' = [op |-> "realloc", of |-> p, len |-> size]
  BY DEF mwRealloc, Asks
<1> HIDE DEF s
<1>3. call'.op = "realloc" /\ call'.of = p /\ call'.len = size
  BY <1>2
<1>4. CASE p = NULL
  <2>1. mw' \in DoMalloc(s, size) /\ size \in Sizes
    BY <1>2, <1>4, ReallocCases
  <2>2. Obtains
    BY <1>3, <1>4 DEF Obtains
  <2> QED BY <1>1, <1>3, <2>1, <2>2, ObtainSound
<1>5. CASE p # NULL /\ size = 0
  <2>1. mw' = DoFree(s, p)
    BY <1>2, <1>5, ReallocCases
  <2>2. Releases(p)
    BY <1>3, <1>5 DEF Releases
  <2> QED BY <1>1, <2>1, <2>2, AnyFreeSound
<1>6. CASE p # NULL /\ size # 0
  <2>1. Lists(s) /\ s.ptr = NULL /\ Lists(mw) /\ size \in Nat \ {0} /\ LiveOf(s) = LiveOf(mw)
    BY <1>1, <1>6 DEF Began, IInv
  <2>2. Takes
    BY <1>3 DEF Takes
  <2>3. \/ Misses(s, p, mw')
        \/ \E b \in LiveOf(s) : b.at = p /\ \/ Exceeds(s, b, size, mw')
                                            \/ \E u : Fails(s, b, size, u, mw')
                                            \/ \E u, a : Moves(s, b, size, u, a, mw')
    BY <1>2, <1>6, <2>1, ReallocFacts
  <2>4. CASE Misses(s, p, mw')
    <3> DEFINE known == "realloc"
               unknown == "unknown pointer"
    <3>1. Judges(s, p, known, unknown, mw') /\ known \in {"double-free", "realloc"}
          /\ unknown \in {"WILD free", "unknown pointer"}
      BY <2>4 DEF Misses
    <3>2. Idle
      BY <2>2 DEF Idle
    <3> HIDE DEF known, unknown
    <3> QED BY <1>1, <3>1, <3>2, JudgedSound
  <2>5. ASSUME NEW b \in LiveOf(s), b.at = p, Exceeds(s, b, size, mw') PROVE Sound
    <3>1. mw' = [s EXCEPT !.log = @ \cup {<<"limit fail", size>>}]
      BY <2>5 DEF Exceeds
    <3> QED BY <1>1, <2>2, <3>1, LimitFailSound
  <2>6. ASSUME NEW b \in LiveOf(s), b.at = p, NEW u, Fails(s, b, size, u, mw') PROVE Sound
    <3>1. /\ GivesUp(s, u) /\ mw' = [u EXCEPT !.log = @ \cup {<<"fail", size>>}]
          /\ Room(u.out, Units(size)) = {} /\ DeadOf(u) = {} /\ \A g \in Grabs(u) : g.type = "grabbed"
      BY <2>6 DEF Fails, Obtained
    <3> QED BY <1>1, <1>3, <2>2, <3>1, FailSound
  <2>7. ASSUME NEW b \in LiveOf(s), b.at = p, NEW u, NEW a, Moves(s, b, size, u, a, mw') PROVE Sound
    <3>1. size \in Sizes
      BY <1>6
    <3> QED BY <1>1, <1>3, <2>1, <2>7, <3>1, MovesSound
  <2> QED BY <2>3, <2>4, <2>5, <2>6, <2>7
<1> QED BY <1>4, <1>5, <1>6

\* Every call is sound.
LEMMA NextSound ==
  ASSUME IInv, Next
  PROVE  Sound
<1>1. CASE mwInit
  BY <1>1, InitQuiet, QuietSound
<1>2. CASE mwTerm
  BY <1>2, EndsSound, TermQuiet, QuietSound
<1>3. CASE mwTest
  BY <1>3, TestQuiet, QuietSound
<1>4. CASE Scribble
  BY <1>4, ScribbleQuiet, QuietSound
<1>5. ASSUME NEW size \in Sizes, mwMalloc(size) PROVE Sound
  BY <1>5, MallocSound
<1>6. ASSUME NEW p \in Addresses \cup {NULL}, mwFree(p) PROVE Sound
  BY <1>6, FreeCallSound
<1>7. ASSUME NEW size \in Sizes, NEW p \in Addresses \cup {NULL}, mwRealloc(p, size) PROVE Sound
  <2>1. size \in Nat
    BY MemAssumption
  <2> QED BY <1>7, <2>1, ReallocSound
<1>8. ASSUME NEW p \in Addresses, mwRealloc(p, 0) PROVE Sound
  <2>1. p # NULL
    BY NullIsNoAddress
  <2> QED BY <1>8, <2>1, ReallocSound
<1>9. ASSUME NEW lim \in Limits, mwLimit(lim) PROVE Sound
  BY <1>9, LimitQuiet, QuietSound
<1>10. ASSUME NEW level \in Levels, mwNoMansLand(level) PROVE Sound
  <2>1. level \in {NONE, FREE, ALL}
    BY MemAssumption DEF NONE, FREE, ALL
  <2> QED BY <1>10, <2>1, NoMansLandQuiet, QuietSound
<1>11. ASSUME NEW kb \in {0, 1}, mwGrab(kb) PROVE Sound
  BY <1>11, GrabQuiet, QuietSound
<1>12. ASSUME NEW kb \in {0, 1}, mwDrop(kb) PROVE Sound
  BY <1>12, DropQuiet, QuietSound
<1> QED BY <1>1, <1>2, <1>3, <1>4, <1>5, <1>6, <1>7, <1>8, <1>9, <1>10, <1>11, <1>12 DEF Next

---------------------------------------------------------------------------
(* What every step of every run does *)

\* The blocks the properties speak of, after the step.
LEMMA NextBlocks ==
  ASSUME IInv'
  PROVE  /\ Live' = LiveOf(mw') /\ Buried' = DeadOf(mw')
         /\ DeadOf(mw') = {} => Dead(mw') = <<>>
<1>1. Lists(mw')
  BY DEF IInv
<1>2. Live' = LiveOf(mw')
  BY DEF Live, LiveOf, Blocks
<1>3. /\ Range(Dead(mw')) = DeadOf(mw')
      /\ DeadOf(mw') = {} => Dead(mw') = <<>>
  BY <1>1, DeadFacts
<1> QED BY <1>2, <1>3 DEF Buried

\* No call makes the bytes in use grow past the limit of mwLimit, neither
\* mwMalloc nor mwRealloc, which switches the limit off for the copy.
THEOREM LimitAlwaysRespected == Spec => LimitRespected
<1>1. IInv /\ [Next]_vars =>
        [mw.mwInited > 0 /\ mw'.mwAllocLimit # 0 /\ mw'.mwStatCurAlloc > mw.mwStatCurAlloc
           => mw'.mwStatCurAlloc <= mw'.mwAllocLimit]_vars
  BY NextSound DEF Sound, InLimit
<1> QED BY <1>1, Invariance, PTL DEF Spec, LimitRespected

\* mwMalloc and mwRealloc fail for want of memory only after mwFreeUp gave up
\* all no-mans-land, grabbed or freed, and the block still fits nowhere.
THEOREM FailsOnlyThen == Spec => FailsOnlyWhenFull
<1>1. IInv /\ [Next]_vars =>
        [(<<"fail", call'.len>> \in mw'.log) =>
           /\ Room(mw'.out, Units(call'.len)) = {} /\ Dead(mw') = <<>>
           /\ \A g \in Range(mw'.mwGrabList) : g.type = "grabbed"]_vars
  BY NextSound, NextKeeps, NextBlocks DEF Sound, FailsFull, Grabs
<1> QED BY <1>1, Invariance, PTL DEF Spec, FailsOnlyWhenFull

\* Whatever call ends the life of a block or of no-mans-land the program wrote
\* where it should not have, it reports that damage.
THEOREM DamageAlwaysReported == Spec => DamageReported
<1>1. ASSUME IInv, Next
      PROVE  /\ \A b \in Live : b.torn /\ b.at \notin {c.at : c \in Live'} =>
                  <<"overflow", b.at>> \in mw'.log \/ <<"unfreed", b.at, TRUE>> \in mw'.log
             /\ \A b \in Buried \cup Range(mw.mwGrabList) :
                  b.hit /\ b.at \notin {c.at : c \in Buried' \cup Range(mw'.mwGrabList)} =>
                    <<"wild pointer", b.at>> \in mw'.log
  <2>1. /\ Live = LiveOf(mw) /\ Buried = DeadOf(mw) /\ Range(mw.mwGrabList) = Grabs(mw)
        /\ Live' = LiveOf(mw') /\ Buried' = DeadOf(mw') /\ Range(mw'.mwGrabList) = Grabs(mw')
    BY <1>1, SameBlocks, NextKeeps, NextBlocks DEF Grabs
  <2>2. Damaging
    BY <1>1, NextSound DEF Sound
  <2>3. ASSUME NEW b, NEW S PROVE b.at \notin {c.at : c \in S} => Gone(b, S)
    BY DEF Gone
  <2>4. ASSUME NEW b \in LiveOf(mw), b.torn, b.at \notin {c.at : c \in LiveOf(mw')}
        PROVE  <<"overflow", b.at>> \in mw'.log \/ <<"unfreed", b.at, TRUE>> \in mw'.log
    BY <2>2, <2>3, <2>4 DEF Damaging
  <2>5. ASSUME NEW b \in DeadOf(mw) \cup Grabs(mw), b.hit,
               b.at \notin {c.at : c \in DeadOf(mw') \cup Grabs(mw')}
        PROVE  <<"wild pointer", b.at>> \in mw'.log
    BY <2>2, <2>3, <2>5 DEF Damaging
  <2> QED BY <2>1, <2>4, <2>5
<1>2. IInv /\ [Next]_vars =>
        [/\ \A b \in Live : b.torn /\ b.at \notin {c.at : c \in Live'} =>
              <<"overflow", b.at>> \in mw'.log \/ <<"unfreed", b.at, TRUE>> \in mw'.log
         /\ \A b \in Buried \cup Range(mw.mwGrabList) :
              b.hit /\ b.at \notin {c.at : c \in Buried' \cup Range(mw'.mwGrabList)} =>
                <<"wild pointer", b.at>> \in mw'.log]_vars
  BY <1>1
<1> QED BY <1>2, Invariance, PTL DEF Spec, DamageReported

\* mwFree and mwRealloc report a pointer as freed already exactly when it is
\* one of the last FreeList pointers freed: the ring mwLastFree forgets none
\* of them early and keeps none of them late.
THEOREM DoubleFreesKnown == Spec => DoubleFreeKnown
<1>1. IInv /\ [Next]_vars =>
        [\A line \in mw'.log :
           /\ line[1] \in {"double-free", "realloc"} => line[2] \in Range(freed)
           /\ line[1] \in {"WILD free", "unknown pointer"} => line[2] \notin Range(freed)]_vars
  BY NextSound DEF Sound, Accusing
<1> QED BY <1>1, Invariance, PTL DEF Spec, DoubleFreeKnown

---------------------------------------------------------------------------
(* The heap memwatch promises *)

\* A step that keeps the promise in the words of this module keeps it in
\* those of the abstract heap.
LEMMA PromiseKept ==
  ASSUME IInv, IInv', Promised
  PROVE  Promise!HeapNext
<1>1. Live = LiveOf(mw) /\ Live' = LiveOf(mw')
  BY SameBlocks, NextBlocks
<1>2. /\ {[at |-> b.at, size |-> b.size] : b \in Live} = Shown(mw)
      /\ {[at |-> b.at, size |-> b.size] : b \in Live'} = Shown(mw')
  BY <1>1 DEF Shown
<1>3. \A p : Promise!Without(p) = Kept(p)
  BY <1>2 DEF Promise!Without, Kept
<1>5. ASSUME mw'.ptr = NULL, Shown(mw') = Shown(mw) PROVE Promise!Refuses
  BY <1>2, <1>5 DEF Promise!Refuses, Promise!NULL, NULL
<1>6. CASE call'.op = "other" /\ Shown(mw') = Shown(mw)
  BY <1>2, <1>6 DEF Promise!HeapNext, Promise!Other
<1>7. CASE call'.op = "abort" /\ Shown(mw') = {}
  BY <1>2, <1>7 DEF Promise!HeapNext, Promise!Release
<1>8. CASE call'.op \in {"malloc", "realloc"} /\ mw'.ptr = NULL /\ Shown(mw') = Shown(mw)
  BY <1>5, <1>8 DEF Promise!HeapNext, Promise!Malloc, Promise!Realloc
<1>9. CASE call'.op = "malloc" /\ Given(Shown(mw))
  <2>1. Given({[at |-> b.at, size |-> b.size] : b \in Live})
    BY <1>2, <1>9
  <2>2. Promise!Gives({[at |-> b.at, size |-> b.size] : b \in Live})
    BY <1>2, <2>1 DEF Given, Promise!Gives, Promise!Blocks, Promise!Span
  <2> QED BY <1>9, <2>2 DEF Promise!HeapNext, Promise!Malloc
<1>10. CASE call'.op = "realloc" /\ Given(Kept(call'.of))
  <2>1. Given(Promise!Without(call'.of))
    BY <1>3, <1>10
  <2>2. Promise!Gives(Promise!Without(call'.of))
    BY <1>2, <2>1 DEF Given, Promise!Gives, Promise!Blocks, Promise!Span
  <2> QED BY <1>10, <2>2 DEF Promise!HeapNext, Promise!Realloc, Promise!Gives, Promise!Without
<1>11. CASE call'.op = "free" /\ mw'.ptr = NULL /\ Shown(mw') = Kept(call'.of)
  BY <1>2, <1>3, <1>11 DEF Promise!HeapNext, Promise!Free, Promise!NULL, NULL
<1>12. CASE call'.op = "realloc" /\ call'.len = 0 /\ mw'.ptr = NULL /\ Shown(mw') = Kept(call'.of)
  BY <1>2, <1>3, <1>12 DEF Promise!HeapNext, Promise!Realloc, Promise!NULL, NULL
<1> QED BY <1>6, <1>7, <1>8, <1>9, <1>10, <1>11, <1>12 DEF Promised

\* memwatch is a heap: what it does to find mistakes never takes a live block
\* away, never hands out memory in use and never loses a block in a realloc.
THEOREM IsAHeap == Spec => ImplementsHeap
<1>1. Init => Promise!HeapInit
  <2> SUFFICES ASSUME Init PROVE Promise!HeapInit
    OBVIOUS
  <2>1. IInv /\ mw.mwChain = <<>> /\ mw.ptr = NULL /\ call = [op |-> "other", of |-> NULL, len |-> 0]
    BY InitHolds DEF Init
  <2>2. Live = {}
    BY <2>1 DEF Live, Range
  <2> QED BY <2>1, <2>2 DEF Promise!HeapInit, Promise!NULL, NULL
<1>2. IInv /\ [Next]_vars =>
        [Promise!HeapNext]_<<{[at |-> b.at, size |-> b.size] : b \in Live},
                             [op |-> call.op, of |-> call.of, len |-> call.len, ptr |-> mw.ptr]>>
  <2>1. CASE IInv /\ Next
    BY <2>1, NextSound, NextKeeps, PromiseKept DEF Sound
  <2>2. CASE UNCHANGED vars
    BY <2>2 DEF vars, Live
  <2> QED BY <2>1, <2>2
<1> QED BY <1>1, <1>2, Invariance, PTL DEF Spec, ImplementsHeap, Promise!HeapSpec
=============================================================================
