----------------------------- MODULE FreeLists ------------------------------
(***************************************************************************)
(* The custom allocator of runtime/hmboundscheck.c (useFreeLists on): one  *)
(* list of free blocks for every power of two, filled from a region of     *)
(* mmap that is cut into blocks.  Neighbours in a region share a red zone, *)
(* and every block's size is kept in the 8 bytes before it, inside its     *)
(* left red zone.  The code says why it has no mutex: "since SPEC2006 is   *)
(* executed single threaded" (:124), so a call is one step.                *)
(***************************************************************************)
EXTENDS ShadowMemory, SequencesExt

CONSTANTS
  Request,               \* the sizes the program asks for
  MEMORY_LIST,           \* the number of free lists
  standardPreAllocSize,  \* the number of blocks cut from a region
  Builds                 \* the builds of the library to consider

ASSUME ListAssumption == MEMORY_LIST \in Nat \ {0} /\ standardPreAllocSize \in Nat \ {0}

Index == 0 .. (MEMORY_LIST - 1)

\* The size of the blocks of a list: "a freelist for memory regions with a size of 8
\* bytes is stored on the first index", and each list is of the next power of two.
BlockSize[i \in Nat] == IF i = 0 THEN 8 ELSE 2 * BlockSize[i - 1]

\* There is a list for every size the program asks for (with 48, up to 2 ^ 50 bytes).
\* Dlib_malloc rounds a size up in an unsigned int, so sizes above 2 ^ 31 are left out.
ASSUME RequestAssumption ==
  \A sz \in Request : sz \in Nat \ {0} /\ \E i \in Index : sz <= BlockSize[i]

ASSUME BuildAssumption ==
  Builds \subseteq {b \in Build : b.useRegistration /\ ~b.fastCheck}

VARIABLES
  build,        \* the build in use
  shadow,       \* the shadow memory
  memoryArray,  \* the free lists
  sizeOf,       \* the sizes written before the blocks that were cut
  mapped,       \* the bytes mmap has handed out, from 0
  live,         \* the blocks the program holds, with the size it asked for
  moving,       \* the block a Dlib_realloc has yet to free, if any
  returned      \* the free blocks that were in use once

vars == <<build, shadow, memoryArray, sizeOf, mapped, live, moving, returned>>

EmptyList == [first |-> <<>>, counter |-> 0, size |-> 0]

Init ==
  /\ build \in Builds
  /\ shadow = Untouched
  /\ memoryArray = [i \in Index |-> EmptyList]
  /\ sizeOf = <<>>
  /\ mapped = 0
  /\ live = {}
  /\ moving = {}
  /\ returned = {}

\* The padding of Dlib_malloc: a multiple of 8, then a power of two.
Padded(sz) == CHOOSE p \in {BlockSize[i] : i \in Index} :
                p >= sz /\ \A q \in {BlockSize[i] : i \in Index} : q >= sz => p <= q

\* getFreeListArrayIndex of such a size.
getFreeListArrayIndex(sz) == CHOOSE i \in Index : BlockSize[i] = sz

\* Slip: the blocks cut without the red zone between them.
SlipNoGap(blockStart, sz) ==
  [n \in 1 .. standardPreAllocSize |-> blockStart + RZ + (n - 1) * sz]

\* setFreeList: where the blocks of a region begin.
setFreeList(blockStart, sz) ==
  [n \in 1 .. standardPreAllocSize |-> blockStart + RZ + (n - 1) * (sz + RZ)]

RegionSize(sz) == sz * standardPreAllocSize + RZ * (standardPreAllocSize + 1)

\* allocateFreeList and setFreeList, when mmap succeeds: the blocks are put
\* into the list one by one, so the last one comes first.
Filled(index, sz) ==
  [first   |-> Reverse(setFreeList(mapped, sz)),
   counter |-> standardPreAllocSize,
   size    |-> sz]

\* getBlockFromFreeList: the first block leaves the list.
Popped(list) == [list EXCEPT !.first = Tail(list.first), !.counter = list.counter - 1]

\* Slip: a block put into a list that is not empty replaces its first one.
SlipReplaceFirst(list, mem) ==
  [list EXCEPT !.first = <<mem>> \o (IF list.first = <<>> THEN <<>> ELSE Tail(list.first)),
               !.counter = list.counter + 1]

\* returnBlockToFreeList: the block goes to the front.
Pushed(list, mem) == [list EXCEPT !.first = <<mem>> \o list.first, !.counter = list.counter + 1]

\* A block of the given list goes to the program, its red zones marked.
HandOut(index, list, sz) ==
  LET mem == Head(list.first)
      padded == BlockSize[index]
  IN  /\ memoryArray' = [memoryArray EXCEPT ![index] = Popped(list)]
      /\ shadow' = registerAddr(shadow, build, mem - RZ, mem + padded)
      /\ live' = live \cup {[mem |-> mem, sz |-> sz]}
      /\ returned' = returned \ {mem}

\* Dlib_malloc of a size whose list has a block.
MallocFromList(sz) ==
  LET index == getFreeListArrayIndex(Padded(sz))
  IN  /\ memoryArray[index].first # <<>>
      /\ HandOut(index, memoryArray[index], sz)
      /\ UNCHANGED <<build, sizeOf, mapped>>

\* ... and of one whose list is empty: mmap gives a new region.
MallocFromRegion(sz) ==
  LET padded == Padded(sz)
      index == getFreeListArrayIndex(padded)
      list == Filled(index, padded)
  IN  /\ memoryArray[index].first = <<>>
      /\ mapped + RegionSize(padded) <= Arena
      /\ mapped' = mapped + RegionSize(padded)
      /\ sizeOf' = [a \in DOMAIN sizeOf \cup ToSet(list.first) |->
                      IF a \in DOMAIN sizeOf THEN sizeOf[a] ELSE padded]
      /\ HandOut(index, list, sz)
      /\ UNCHANGED build

\* mmap fails: Dlib_malloc returns NULL, the list was reset already.
MallocFails(sz) ==
  LET padded == Padded(sz)
      index == getFreeListArrayIndex(padded)
  IN  /\ memoryArray[index].first = <<>>
      /\ memoryArray' = [memoryArray EXCEPT ![index] = [EmptyList EXCEPT !.size = padded]]
      /\ UNCHANGED <<build, shadow, sizeOf, mapped, live, returned>>

Dlib_malloc(sz) ==
  /\ moving = {} /\ moving' = {}
  /\ MallocFromList(sz) \/ MallocFromRegion(sz) \/ MallocFails(sz)

\* Dlib_realloc: Dlib_malloc of the new block, then Dlib_free of the old one;
\* without a new block the old one stays.
Dlib_realloc(b, sz) ==
  /\ moving = {} /\ b \in live
  /\ \/ (MallocFromList(sz) \/ MallocFromRegion(sz)) /\ moving' = {b}
     \/ MallocFails(sz) /\ moving' = {}

\* Dlib_free: returnBlockToFreeList reads the size before the block, puts the
\* block into that size's list and resets the shadow memory of the block and
\* of both red zones, those it shares with its neighbours too.
Dlib_free(b) ==
  LET mem == b.mem
      index == getFreeListArrayIndex(sizeOf[mem])
  IN  /\ b \in live /\ moving \in {{}, {b}}
      /\ memoryArray' = [memoryArray EXCEPT ![index] = Pushed(memoryArray[index], mem)]
      /\ shadow' = removeAddr(shadow, mem - RZ, sizeOf[mem] + 2 * RZ)
      /\ live' = live \ {b}
      /\ moving' = {}
      /\ returned' = returned \cup {mem}
      /\ UNCHANGED <<build, sizeOf, mapped>>

Next ==
  \/ \E sz \in Request : Dlib_malloc(sz)
  \/ \E b \in live : Dlib_free(b) \/ \E sz \in Request : Dlib_realloc(b, sz)

Spec == Init /\ [][Next]_vars

-----------------------------------------------------------------------------
(***************************************************************************)
(* Properties                                                              *)
(***************************************************************************)

Block == DOMAIN sizeOf

Listed(i) == ToSet(memoryArray[i].first)

\* No block is lost and none is given out twice: every block that was cut is
\* held by the program or in the list of its size, exactly once, and the
\* counters say how many there are.
EveryBlockOnce ==
  LET held == {b.mem : b \in live}
  IN  /\ Block = held \cup UNION {Listed(i) : i \in Index}
      /\ Cardinality(held) = Cardinality(live)
      /\ \A i \in Index :
           /\ memoryArray[i].counter = Len(memoryArray[i].first)
           /\ Cardinality(Listed(i)) = Len(memoryArray[i].first)
           /\ Listed(i) \cap held = {}
           /\ \A mem \in Listed(i) : sizeOf[mem] = BlockSize[i]

check(a, sz) == checkMemoryAccess(shadow, build, {}, a, sz)

\* A block the program holds is addressable as far as the program asked for,
\* and its red zones are not, although its neighbours share them and reset
\* them when they are freed.
LiveBlockGuarded ==
  \A b \in live :
    /\ \A a \in b.mem .. (b.mem + b.sz - 1) : \A n \in 1 .. (b.mem + b.sz - a) : check(a, n) = 0
    /\ \A z \in 1 .. RZ : check(b.mem - z, 1) = 1 /\ check(b.mem + sizeOf[b.mem] + z - 1, 1) = 1

\* A block that was freed is reported as long as it is in its list, so that
\* a use after free is seen until the block is in use again.
FreedBlockReported ==
  \A mem \in returned : \A a \in mem .. (mem + sizeOf[mem] - 1) : check(a, 1) = 1

=============================================================================
