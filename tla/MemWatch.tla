----------------------------- MODULE MemWatch -----------------------------
(* The memory checker of a build with -DEN_MEMWATCH (memwatch.cpp).  The     *)
(* calls of malloc and free in queue and depacketizer come here; they are in *)
(* constructors and destructors and never overlap: one call at a time is     *)
(* modelled.  Memory is Mem units; a block with its header and guard zones   *)
(* takes Units(size) of them, a grabbed kilobyte one.  mwCounter, mwErrors,  *)
(* the statistics by file and the repair of a trashed header (mwRelink) are  *)
(* left out.                                                                 *)
EXTENDS Integers, Sequences, FiniteSets, FiniteSetsExt, Functions

CONSTANTS Mem,        \* units of memory the C library has
          Sizes,      \* the sizes asked for
          Limits,     \* arguments of mwLimit; 0 is no limit
          Levels,     \* arguments of mwNoMansLand that are used
          FreeList,   \* MW_FREE_LIST: how many freed pointers are remembered
          MaxLeft,    \* bound: live blocks that calls of mwAbort found
          MaxSpent    \* bound: blocks turned into no-mans-land, nested calls of
                      \* mwInit and those live blocks, taken together

ASSUME MemAssumption ==
    /\ Mem \in Nat /\ FreeList \in Nat \ {0}
    /\ Sizes \subseteq Nat /\ Limits \subseteq Nat /\ Levels \subseteq 0..2
    /\ MaxLeft \in Nat /\ MaxSpent \in Nat

VARIABLES mw,        \* the static variables of memwatch.cpp and what it has from malloc
          call,      \* the last call and its arguments
          freed,     \* history: the last FreeList blocks freed, oldest first
          leftover,  \* history: blocks still live when mwAbort ran
          wasLow     \* history: no-mans-land blocks were given up for an allocation

vars == <<mw, call, freed, leftover, wasLow>>

NULL == 0
Units(size) == 1 + (size \div 2)
Addresses == 1..Mem
NONE == 0
FREE == 1
ALL == 2

\* The numbers of I in order, and the elements of q at those places: SelectSeq
\* and SetToSortSeq in a form the proofs can expand.
Ascending(I) == [k \in 1..Cardinality(I) |-> CHOOSE i \in I : Cardinality({j \in I : j <= i}) = k]
Pick(q, I) == LET a == Ascending(I) IN [k \in 1..Cardinality(I) |-> q[a[k]]]
Without(q, gone) == Pick(q, {i \in DOMAIN q : q[i].at \notin gone})

---------------------------------------------------------------------------
(* The C library *)

Span(o) == o.at .. o.at + o.units - 1

\* Where the C library can place n units.
Room(out, n) ==
    {a \in Addresses : a + n - 1 <= Mem
                       /\ \A o \in out : (a .. a + n - 1) \cap Span(o) = {}}

LibMalloc(s, a, n) ==
    [s EXCEPT !.out = @ \cup {[at |-> a, units |-> n]}]

LibFree(s, gone) == [s EXCEPT !.out = {o \in @ : o.at \notin gone}]

---------------------------------------------------------------------------
(* Start *)

\* mwInit counts its calls; the first one clears the counters, but not the
\* block count mwNumCurAlloc, the limit, the no-mans-land level or mwLastFree.
DoInit(s) ==
    IF s.mwInited > 0 THEN [s EXCEPT !.mwInited = @ + 1]
    ELSE [s EXCEPT !.mwInited = 1, !.mwStatCurAlloc = 0,
                   !.mwNmlCurAlloc = 0, !.mwNmlNumAlloc = 0]

mwAutoInit(s) == IF s.mwInited > 0 THEN s ELSE DoInit(s)

\* A call begins with nothing written to the log and nothing to return.
Enter == [mw EXCEPT !.log = {}, !.ptr = NULL]

Init ==
    /\ mw = [mwInited |-> 0, mwNML |-> NONE, mwAllocLimit |-> 0, mwChain |-> <<>>,
             mwGrabList |-> <<>>, mwNumCurAlloc |-> 0, mwStatCurAlloc |-> 0,
             mwNmlNumAlloc |-> 0, mwNmlCurAlloc |-> 0,
             mwLastFree |-> [i \in 1..FreeList |-> NULL], mwLFcur |-> 1,
             out |-> {}, log |-> {}, ptr |-> NULL]
    /\ call = [op |-> "other", of |-> NULL, len |-> 0]
    /\ freed = <<>> /\ leftover = 0 /\ wasLow = FALSE

---------------------------------------------------------------------------
(* Grabbed memory *)

\* mwGrab_: up to kb kilobytes, all there are for 0, within the limit.
Grab(s, kb, type) ==
    LET free == Ascending(Room(s.out, 1))
        allowed == IF s.mwAllocLimit = 0 THEN Len(free)
                   ELSE s.mwAllocLimit - s.mwStatCurAlloc - Len(s.mwGrabList)
        n == Max({0, Min({Len(free), allowed} \cup (IF kb = 0 THEN {} ELSE {kb}))})
        new == [i \in 1..n |-> [at |-> free[n + 1 - i], type |-> type, hit |-> FALSE]]
    IN [s EXCEPT !.mwGrabList = new \o @,
                 !.out = @ \cup {[at |-> new[i].at, units |-> 1] : i \in 1..n}]

\* Slip: grabbed memory is let go without a look at what is in it.
DropUntested(s, gone) ==
    [LibFree(s, gone) EXCEPT !.mwGrabList = Without(@, gone)]

\* Grabbed memory that was written to is reported when it is let go.
DropThese(s, gone) ==
    [LibFree(s, gone) EXCEPT
        !.mwGrabList = Without(@, gone),
        !.log = @ \cup {<<"wild pointer", g.at>> : g \in {h \in Range(s.mwGrabList) :
                                                           h.at \in gone /\ h.hit}}]

OfType(s, type) == Pick(s.mwGrabList, {i \in DOMAIN s.mwGrabList : s.mwGrabList[i].type = type})

\* mwDrop_: the newest kb kilobytes of the type, all of them for 0.
Drop(s, kb, type) ==
    LET held == OfType(s, type)
        n == IF kb = 0 THEN Len(held) ELSE Min({kb, Len(held)})
    IN DropThese(s, {held[i].at : i \in 1..n})

mwDropAll(s) == Drop(Drop(s, 0, "grabbed"), 0, "no-mans-land")

---------------------------------------------------------------------------
(* The chain of blocks *)

Owned(s, p) == \E i \in DOMAIN s.mwChain : s.mwChain[i].at = p
Block(s, p) == CHOOSE b \in Range(s.mwChain) : b.at = p
Dead(s) == Pick(s.mwChain, {i \in DOMAIN s.mwChain : s.mwChain[i].nml})

\* How many bytes the blocks have together.
Bytes(blocks) == Cardinality(UNION {{b.at} \X (1..b.size) : b \in blocks})

\* mwTestBuf: the guard zones before and behind the block.
mwTestBuf(b) == IF b.torn THEN {<<"overflow", b.at>>} ELSE {}

\* mwTestMem of a block in no-mans-land.
TestDead(b) == IF b.nml /\ b.hit THEN {<<"wild pointer", b.at>>} ELSE {}

mwUnlink(s, gone) == [s EXCEPT !.mwChain = Without(@, gone)]

\* Slip: the flag MW_NML is not looked at, the newest block is given up.
FreeUpTakesAny(s, needed) ==
    LET gone == {s.mwChain[i].at : i \in DOMAIN s.mwChain \cap {1}}
    IN mwUnlink(LibFree(s, gone), gone)

\* Slip: blocks that are given up stay in the chain.
FreeUpKeepsLinks(s, needed) == LibFree(s, {b.at : b \in Range(Dead(s))})

\* mwFreeUp: no-mans-land is given up, grabbed kilobytes before blocks, until
\* the C library can place the units needed.  The counters of no-mans-land
\* blocks are not corrected, and the headers are not wiped.
mwFreeUp(s, needed) ==
    LET grabs == OfType(s, "no-mans-land")
        spare == [i \in DOMAIN grabs |-> grabs[i].at]
                   \o [i \in DOMAIN Dead(s) |-> Dead(s)[i].at]
        First(k) == {spare[i] : i \in 1..k}
        enough == {k \in 1..Len(spare) : Room(LibFree(s, First(k)).out, needed) # {}}
        gone == First(IF enough = {} THEN Len(spare) ELSE Min(enough))
        blocks == {b \in Range(Dead(s)) : b.at \in gone}
    IN [mwUnlink(DropThese(s, gone), gone) EXCEPT
            !.log = @ \cup UNION {TestDead(b) : b \in blocks}]

---------------------------------------------------------------------------
(* malloc, free, realloc *)

Link(s, a, size) ==
    [LibMalloc(s, a, Units(size)) EXCEPT
        !.mwChain = <<[at |-> a, size |-> size, nml |-> FALSE, torn |-> FALSE, hit |-> FALSE]>> \o @,
        !.mwNumCurAlloc = @ + 1, !.mwStatCurAlloc = @ + size, !.ptr = a]

OverLimit(s, more) == s.mwAllocLimit # 0 /\ more + s.mwStatCurAlloc > s.mwAllocLimit

\* Slip: no second attempt.
ObtainOnce(s, size) ==
    IF Room(s.out, Units(size)) = {} THEN {[s EXCEPT !.log = @ \cup {<<"fail", size>>}]}
    ELSE {Link(s, a, size) : a \in Room(s.out, Units(size))}

\* An allocation the C library refuses is tried again once mwFreeUp made room.
Obtain(s, size) ==
    LET t == IF Room(s.out, Units(size)) = {} THEN mwFreeUp(s, Units(size)) ELSE s
        places == Room(t.out, Units(size))
    IN IF places = {} THEN {[t EXCEPT !.log = @ \cup {<<"fail", size>>}]}
       ELSE {Link(t, a, size) : a \in places}

\* The states mwMalloc can leave: the C library chooses the place.
DoMalloc(s, size) ==
    IF OverLimit(s, size) THEN {[s EXCEPT !.log = @ \cup {<<"limit fail", size>>}]}
    ELSE Obtain(s, size)

\* Slip: the ring is turned one entry early.
RingTooSmall(s, p) ==
    [s EXCEPT !.mwLastFree[s.mwLFcur] = p, !.mwLFcur = IF @ + 1 = FreeList THEN 1 ELSE @ + 1]

\* mwLastFree is a ring: the entry at mwLFcur is the next to be replaced.
Remember(s, p) ==
    [s EXCEPT !.mwLastFree[s.mwLFcur] = p,
              !.mwLFcur = IF @ = FreeList THEN 1 ELSE @ + 1]

\* What is reported of a pointer that is not a live block.
check_dbl_free(s, p, known, unknown) ==
    [s EXCEPT !.log = @ \cup {<<IF p \in Range(s.mwLastFree) THEN known ELSE unknown, p>>}]

Bury(s, p) ==
    [s EXCEPT !.mwChain = [i \in DOMAIN @ |-> IF @[i].at = p THEN [@[i] EXCEPT !.nml = TRUE] ELSE @[i]],
              !.mwNmlNumAlloc = @ + 1, !.mwNmlCurAlloc = @ + Block(s, p).size]

\* A live block is taken out of the chain or kept as no-mans-land; a block
\* that is no-mans-land already, or none of the chain, is a mistake.
DoFree(s, p) ==
    IF p = NULL THEN [s EXCEPT !.log = @ \cup {<<"NULL free", NULL>>}]
    ELSE IF ~Owned(s, p) THEN check_dbl_free(s, p, "double-free", "WILD free")
    ELSE LET b == Block(s, p)
             t == [s EXCEPT !.log = @ \cup mwTestBuf(b)]
             u == [t EXCEPT !.mwNumCurAlloc = @ - 1, !.mwStatCurAlloc = @ - b.size]
         IN IF b.nml THEN check_dbl_free(t, p, "double-free", "WILD free")
            ELSE Remember(IF s.mwNML # NONE THEN Bury(u, p) ELSE mwUnlink(LibFree(u, {p}), {p}), p)

\* A block that grows or shrinks is a new block, the old one freed; the limit
\* is checked for the difference and is off while both exist.
DoRealloc(s, p, size) ==
    IF p = NULL THEN DoMalloc(s, size)
    ELSE IF size = 0 THEN {DoFree(s, p)}
    ELSE IF ~Owned(s, p) \/ Block(s, p).nml
         THEN {check_dbl_free(s, p, "realloc", "unknown pointer")}
    ELSE IF OverLimit(s, size - Block(s, p).size)
         THEN {[s EXCEPT !.log = @ \cup {<<"limit fail", size>>}]}
    ELSE {IF t.ptr = NULL THEN t ELSE DoFree(t, p) : t \in Obtain(s, size)}

---------------------------------------------------------------------------
(* End *)

\* mwAbort: everything grabbed or allocated goes back to the C library, what
\* is still live is reported.  The block count keeps what it released.
mwAbort(s) ==
    LET t == mwDropAll(s)
        ats == {b.at : b \in Range(s.mwChain)}
        deads == Dead(s)
    IN [mwUnlink(LibFree(t, ats), ats) EXCEPT
            !.mwInited = 0,
            !.mwNmlNumAlloc = @ - Len(deads),
            !.mwNmlCurAlloc = @ - Bytes(Range(deads)),
            !.log = @ \cup {<<"unfreed", b.at, b.torn>> : b \in {c \in Range(s.mwChain) : ~c.nml}}
                      \cup UNION {TestDead(b) : b \in Range(deads)}]

---------------------------------------------------------------------------
(* The calls *)

Asks(op, p, size) == call' = [op |-> op, of |-> p, len |-> size]
NewlyFreed(p) == \E i \in DOMAIN mw.mwChain :
                    mw.mwChain[i].at = p /\ ~mw.mwChain[i].nml /\ ~\E j \in DOMAIN mw'.mwChain :
                        mw'.mwChain[j].at = p /\ ~mw'.mwChain[j].nml

\* History: the calls that freed, the blocks given up.
Notes(p) ==
    /\ freed' = IF ~NewlyFreed(p) THEN freed
                ELSE LET all == Append(freed, p)
                     IN IF Len(all) > FreeList THEN Tail(all) ELSE all
    /\ wasLow' = (wasLow \/ \E b \in Range(mw.mwChain) :
                              b.nml /\ b.at \notin {c.at : c \in {d \in Range(mw'.mwChain) : d.nml}})
    /\ UNCHANGED leftover

\* What has been spent of the bound MaxSpent.
Spent == mw.mwNmlNumAlloc + leftover + Max({0, mw.mwInited - 1})

mwInit ==
    /\ mw.mwInited > 0 => Spent < MaxSpent
    /\ mw' = DoInit(Enter)
    /\ wasLow' = (wasLow /\ mw.mwInited > 0)
    /\ Asks("other", NULL, 0) /\ UNCHANGED <<freed, leftover>>

mwMalloc(size) ==
    /\ mw' \in DoMalloc(mwAutoInit(Enter), size)
    /\ Asks("malloc", NULL, size) /\ Notes(NULL)

\* mwFreeUp and mwAbort give blocks back with their header readable.  A free
\* of such a pointer follows links the C library has overwritten: it is
\* reported like any other or crashes the program, which takes no step.
mwFree(p) ==
    /\ Spent < MaxSpent
    /\ mw' = DoFree(mwAutoInit(Enter), p)
    /\ Asks("free", p, 0) /\ Notes(p)

mwRealloc(p, size) ==
    /\ Spent < MaxSpent
    /\ mw' \in DoRealloc(mwAutoInit(Enter), p, size)
    /\ Asks("realloc", p, size) /\ Notes(p)

mwLimit(lim) ==
    /\ lim # mw.mwAllocLimit /\ mw' = [mwAutoInit(Enter) EXCEPT !.mwAllocLimit = lim]
    /\ Asks("other", NULL, 0) /\ UNCHANGED <<freed, leftover, wasLow>>

mwNoMansLand(level) ==
    /\ LET s == mwAutoInit(Enter)
           t == CASE level = NONE -> Drop(s, 0, "no-mans-land")
                  [] level = FREE -> s
                  [] level = ALL -> Grab(s, 0, "no-mans-land")
       IN mw' = [t EXCEPT !.mwNML = level]
    /\ Asks("other", NULL, 0) /\ UNCHANGED <<freed, leftover, wasLow>>

\* mwWrite starts the checker too: mwGrab logs what it got once it has it.
mwGrab(kb) ==
    /\ mw' = mwAutoInit(Grab(Enter, kb, "grabbed"))
    /\ Asks("other", NULL, 0) /\ UNCHANGED <<freed, leftover, wasLow>>

mwDrop(kb) ==
    /\ mw.mwGrabList # <<>> /\ mw' = Drop(Enter, kb, "grabbed")
    /\ Asks("other", NULL, 0) /\ UNCHANGED <<freed, leftover, wasLow>>

\* mwTest with all tests: guard zones and no-mans-land are read, not mended.
\* Memory grabbed as no-mans-land is not looked at.
mwTest ==
    /\ LET s == mwAutoInit(Enter)
       IN mw' = [s EXCEPT !.log = UNION {mwTestBuf(b) \cup TestDead(b) : b \in Range(s.mwChain)}]
    /\ Asks("other", NULL, 0) /\ UNCHANGED <<freed, leftover, wasLow>>

Ends ==
    /\ mw' = mwAbort(Enter)
    /\ leftover' = leftover + Len(mw.mwChain) - Len(Dead(mw))
    /\ Asks("abort", NULL, 0) /\ UNCHANGED <<freed, wasLow>>

\* mwTerm ends the checker with the last of the nested mwInit calls; without
\* one it complains to the log, and starts the checker by that.
mwTerm ==
    \/ mw.mwInited = 1 /\ leftover + mw.mwNumCurAlloc <= MaxLeft /\ Ends
    \/ /\ mw.mwInited > 1 /\ mw' = [Enter EXCEPT !.mwInited = @ - 1]
       /\ Asks("other", NULL, 0) /\ UNCHANGED <<freed, leftover, wasLow>>
    \/ /\ mw.mwInited = 0 /\ mw' = DoInit(Enter)
       /\ Asks("other", NULL, 0) /\ UNCHANGED <<freed, leftover, wasLow>>

\* The program's own mistakes: it writes past a block, or into one it freed,
\* or into memory grabbed as no-mans-land.  One place is damaged at a time.
Damaged(s) == \/ \E b \in Range(s.mwChain) : b.torn \/ b.hit
              \/ \E g \in Range(s.mwGrabList) : g.hit

Scribble ==
    /\ ~Damaged(mw)
    /\ \/ \E i \in DOMAIN mw.mwChain : mw' = [Enter EXCEPT !.mwChain[i].torn = TRUE]
       \/ \E i \in DOMAIN mw.mwChain :
            /\ mw.mwChain[i].nml /\ mw.mwChain[i].size > 0
            /\ mw' = [Enter EXCEPT !.mwChain[i].hit = TRUE]
       \/ \E i \in DOMAIN mw.mwGrabList :
            /\ mw.mwGrabList[i].type = "no-mans-land"
            /\ mw' = [Enter EXCEPT !.mwGrabList[i].hit = TRUE]
    /\ Asks("other", NULL, 0) /\ UNCHANGED <<freed, leftover, wasLow>>

Next ==
    \/ mwInit \/ mwTerm \/ mwTest \/ Scribble
    \/ \E size \in Sizes : mwMalloc(size)
    \/ \E p \in Addresses \cup {NULL} : mwFree(p)
    \/ \E size \in Sizes, p \in Addresses \cup {NULL} : mwRealloc(p, size)
    \/ \E p \in Addresses : mwRealloc(p, 0)
    \/ \E lim \in Limits : mwLimit(lim)
    \/ \E level \in Levels : mwNoMansLand(level)
    \/ \E kb \in {0, 1} : mwGrab(kb) \/ mwDrop(kb)

Spec == Init /\ [][Next]_vars

\* What the next call depends on: every call begins with an empty log, so two
\* states that differ only in the last call and its answer are one for TLC, and
\* levels FREE and ALL differ only in the call that sets them.
View == <<[Enter EXCEPT !.mwNML = Min({@, FREE})], freed, leftover, wasLow>>

---------------------------------------------------------------------------
(* Properties *)

Live == {b \in Range(mw.mwChain) : ~b.nml}
Buried == Range(Dead(mw))

\* Types: the static variables of memwatch.cpp keep their ranges.
TypeOK ==
    /\ mw.mwInited \in 0..MaxSpent + 1 /\ mw.mwNML \in {NONE, FREE, ALL}
    /\ \A b \in Range(mw.mwChain) :
          /\ b.at \in Addresses /\ b.at + Units(b.size) - 1 <= Mem
          /\ b.hit => b.nml
    /\ \A g \in Range(mw.mwGrabList) : g.type \in {"grabbed", "no-mans-land"}
    /\ mw.mwLFcur \in 1..FreeList /\ mw.mwNumCurAlloc >= 0 /\ mw.mwStatCurAlloc >= 0

\* What memwatch holds from the C library is exactly the blocks of its chain
\* and the kilobytes of its grab list, each once: none is lost by mwFree,
\* mwFreeUp, mwDrop_ or mwAbort, and none stays linked after it went back.
HoldsWhatItLists ==
    /\ mw.out = {[at |-> b.at, units |-> Units(b.size)] : b \in Range(mw.mwChain)}
                 \cup {[at |-> g.at, units |-> 1] : g \in Range(mw.mwGrabList)}
    /\ Cardinality(mw.out) = Len(mw.mwChain) + Len(mw.mwGrabList)
    /\ mw.mwInited = 0 => mw.mwChain = <<>> /\ mw.mwGrabList = <<>>

\* The counters mwFree, mwAbort and mwRelink compare with the chain: bytes in
\* use, blocks in use (with those earlier mwAborts released), and the bytes
\* and blocks of no-mans-land, which drift only when memory ran low.
CountersMatchChain ==
    /\ mw.mwNumCurAlloc = Cardinality(Live) + leftover
    /\ mw.mwInited > 0 =>
          /\ mw.mwStatCurAlloc = Bytes(Live)
          /\ mw.mwNmlNumAlloc >= Cardinality(Buried) /\ mw.mwNmlCurAlloc >= Bytes(Buried)
          /\ ~wasLow => /\ mw.mwNmlNumAlloc = Cardinality(Buried)
                        /\ mw.mwNmlCurAlloc = Bytes(Buried)

\* The books of memwatch are right: lists, counters and what it holds agree.
BooksKept == TypeOK /\ HoldsWhatItLists /\ CountersMatchChain

\* mwLimit: no call makes the bytes in use grow past the limit, not even a
\* realloc, which switches the limit off while the old block still exists.
LimitRespected ==
    [][mw.mwInited > 0 /\ mw'.mwAllocLimit # 0 /\ mw'.mwStatCurAlloc > mw.mwStatCurAlloc
         => mw'.mwStatCurAlloc <= mw'.mwAllocLimit]_vars

\* An allocation is refused for lack of memory only when all no-mans-land,
\* grabbed or freed, was given up and the units still fit nowhere.
FailsOnlyWhenFull ==
    [][(<<"fail", call'.len>> \in mw'.log) =>
         /\ Room(mw'.out, Units(call'.len)) = {} /\ Dead(mw') = <<>>
         /\ \A g \in Range(mw'.mwGrabList) : g.type = "grabbed"]_vars

\* Damage is not lost: a live block whose guard zone was written to is
\* reported by the call that ends its life, and no-mans-land that was written
\* to by the call that gives it up.
DamageReported ==
    [][/\ \A b \in Live : b.torn /\ b.at \notin {c.at : c \in Live'} =>
            <<"overflow", b.at>> \in mw'.log \/ <<"unfreed", b.at, TRUE>> \in mw'.log
       /\ \A b \in Buried \cup Range(mw.mwGrabList) :
            b.hit /\ b.at \notin {c.at : c \in Buried' \cup Range(mw'.mwGrabList)} =>
              <<"wild pointer", b.at>> \in mw'.log]_vars

\* A pointer is reported as freed twice exactly when it is one of the last
\* FreeList pointers freed, and as unknown only when it is not.
DoubleFreeKnown ==
    [][\A line \in mw'.log :
         /\ line[1] \in {"double-free", "realloc"} =>
               line[2] \in Range(freed)
         /\ line[1] \in {"WILD free", "unknown pointer"} =>
               line[2] \notin Range(freed)]_vars

\* The abstract heap: its live blocks are the blocks of the chain that are not
\* no-mans-land, its answer the last call's.
Promise == INSTANCE Heap WITH live <- {[at |-> b.at, size |-> b.size] : b \in Live},
                              answer <- [op |-> call.op, of |-> call.of, len |-> call.len,
                                         ptr |-> mw.ptr]

\* memwatch keeps the promise of a heap: what it does for its own checks
\* (no-mans-land, grabbing, giving memory up) never takes a live block away
\* and never hands out memory that is in use.
ImplementsHeap == Promise!HeapSpec
=============================================================================
