----------------------------- MODULE HMStandard -----------------------------
(***************************************************************************)
(* The allocation wrappers of runtime/hmboundscheck.c over the system's    *)
(* malloc (useFreeLists off), called by several threads.  This library has *)
(* no mutex: it relies on every thread writing only the shadow bytes of    *)
(* the block it is allocating or freeing, and on the order in which it     *)
(* does so.  A block is a chunk of the system with the bytes               *)
(*                                                                         *)
(*   M        M + RZ            R        R + RZ        M + U               *)
(*   | left zone | application .. | right zone | slack ..  |               *)
(*                                                                         *)
(* where U is what malloc_usable_size says of the chunk.                   *)
(***************************************************************************)
EXTENDS ShadowMemory

CONSTANTS
  Thread,    \* the program's threads
  Block,     \* the blocks the system's malloc may hand out
  Builds,    \* the builds of the library to consider
  MaxStores  \* bound: stores of the program

IsBlock(b) ==
  /\ b.M \in 0 .. (Arena - 1) /\ b.M % 8 = 0
  /\ b.U \in Nat /\ b.U % 8 = 0 /\ b.M + b.U <= Arena
  /\ b.R \in (b.M + RZ + 1) .. (b.M + b.U - RZ)

ASSUME BlockAssumption == \A b \in Block : IsBlock(b)

ASSUME BoundAssumption == Builds \subseteq Build /\ MaxStores \in Nat

VARIABLES
  build,    \* the build in use
  shadow,   \* the shadow memory
  pattern,  \* the addresses that hold the byte redzone
  heap,     \* the chunks the system has handed out
  live,     \* the blocks the program holds
  freed,    \* the addresses given back and not handed out again
  stores,   \* stores of the program so far
  pc,       \* where each thread is
  blk,      \* the block each thread's call allocates
  old       \* the block each thread's call frees

vars == <<build, shadow, pattern, heap, live, freed, stores, pc, blk, old>>

frames == <<blk, old>>

NoBlock == [M |-> 0, R |-> 0, U |-> 0]

PC == {"idle", "pattern", "register", "return", "move", "remove", "release"}

Bytes(from, to) == from .. (to - 1)

Chunk(b)     == Bytes(b.M, b.M + b.U)
LeftZone(b)  == Bytes(b.M, b.M + RZ)
AppBytes(b)  == Bytes(b.M + RZ, b.R)
RightZone(b) == Bytes(b.R, b.R + RZ)

Overlap(b, c) == Chunk(b) \cap Chunk(c) # {}

Init ==
  /\ build \in Builds
  /\ shadow = Untouched
  /\ pattern = {}
  /\ heap = {} /\ live = {} /\ freed = {}
  /\ stores = 0
  /\ pc = [t \in Thread |-> "idle"]
  /\ blk = [t \in Thread |-> NoBlock]
  /\ old = [t \in Thread |-> NoBlock]

At(t, here) == pc[t] = here

Goto(t, there) == pc' = [pc EXCEPT ![t] = there]

\* malloc(ac_sz): a chunk that overlaps no other one in use.
Obtain(t, b) ==
  /\ \A c \in heap : ~Overlap(b, c)
  /\ heap' = heap \cup {b}
  /\ freed' = freed \ Chunk(b)
  /\ blk' = [blk EXCEPT ![t] = b]
  /\ Goto(t, IF build.fastCheck THEN "pattern" ELSE "register")

\* Dlib_malloc, and Dlib_memalign, where posix_memalign chooses the chunk.
Dlib_malloc(t, b) ==
  /\ At(t, "idle")
  /\ Obtain(t, b)
  /\ old' = [old EXCEPT ![t] = NoBlock]
  /\ UNCHANGED <<build, shadow, pattern, live, stores>>

\* No call of another thread frees or moves the block: the program is right.  (A
\* realloc that is about to return has freed its old block, which may be in use again.)
Unshared(c) == c \in live /\ \A u \in Thread : old[u] = c => At(u, "return")

\* Dlib_realloc(c): allocates b first.
Dlib_realloc(t, c, b) ==
  /\ At(t, "idle") /\ Unshared(c)
  /\ Obtain(t, b)
  /\ old' = [old EXCEPT ![t] = c]
  /\ UNCHANGED <<build, shadow, pattern, live, stores>>

\* insertRZPattern in both zones.
insertRZPattern(t) ==
  /\ At(t, "pattern")
  /\ pattern' = pattern \cup LeftZone(blk[t]) \cup RightZone(blk[t])
  /\ Goto(t, "register")
  /\ UNCHANGED <<build, shadow, heap, live, freed, stores, frames>>

\* registerAddr, when the build has it.
Register(t) ==
  /\ At(t, "register")
  /\ shadow' = IF build.useRegistration
               THEN registerAddr(shadow, build, blk[t].M, blk[t].R) ELSE shadow
  /\ Goto(t, IF old[t] = NoBlock THEN "return" ELSE "move")
  /\ UNCHANGED <<build, pattern, heap, live, freed, stores, frames>>

\* The locals of a call that returns are gone.
Leave(t) ==
  /\ Goto(t, "idle")
  /\ blk' = [blk EXCEPT ![t] = NoBlock]
  /\ old' = [old EXCEPT ![t] = NoBlock]

\* The address of the new block goes to the program.
Return(t) ==
  /\ At(t, "return")
  /\ live' = live \cup {blk[t]}
  /\ Leave(t)
  /\ UNCHANGED <<build, shadow, pattern, heap, freed, stores>>

\* Dlib_calloc sets the block of its Dlib_malloc to 0 first.
Dlib_calloc(t) ==
  /\ At(t, "return") /\ old[t] = NoBlock
  /\ pattern' = pattern \ AppBytes(blk[t])
  /\ live' = live \cup {blk[t]}
  /\ Leave(t)
  /\ UNCHANGED <<build, shadow, heap, freed, stores>>

\* What Dlib_realloc takes for the size of the old block.
OldSize(c) == c.U - 2 * RZ

\* memmove of the smaller of both sizes, then the call of Dlib_free for the
\* old block.  malloc_usable_size counts the slack, so bytes of the old right
\* zone may be copied into the new block.
Move(t) ==
  LET b == blk[t]
      c == old[t]
      size == b.R - (b.M + RZ)
      actual == IF OldSize(c) <= size THEN OldSize(c) ELSE size
      target == Bytes(b.M + RZ, b.M + RZ + actual)
  IN  /\ At(t, "move")
      /\ pattern' = (pattern \ target) \cup {a \in target : a - b.M + c.M \in pattern}
      /\ live' = live \ {c}
      /\ Goto(t, "remove")
      /\ UNCHANGED <<build, shadow, heap, freed, stores, frames>>

\* Slip: the chunk given back before its shadow memory is reset.
SlipFreeFirst(t, b) ==
  /\ At(t, "idle") /\ Unshared(b)
  /\ live' = live \ {b}
  /\ heap' = heap \ {b}
  /\ blk' = [blk EXCEPT ![t] = NoBlock]
  /\ old' = [old EXCEPT ![t] = b]
  /\ Goto(t, "remove")
  /\ UNCHANGED <<build, shadow, pattern, freed, stores>>

Dlib_free(t, b) ==
  /\ At(t, "idle") /\ Unshared(b)
  /\ live' = live \ {b}
  /\ blk' = [blk EXCEPT ![t] = NoBlock]
  /\ old' = [old EXCEPT ![t] = b]
  /\ Goto(t, "remove")
  /\ UNCHANGED <<build, shadow, pattern, heap, freed, stores>>

\* removeAddr, of all the bytes malloc_usable_size reports.
Remove(t) ==
  /\ At(t, "remove")
  /\ shadow' = IF build.useRegistration
               THEN removeAddr(shadow, old[t].M, old[t].U) ELSE shadow
  /\ Goto(t, "release")
  /\ UNCHANGED <<build, pattern, heap, live, freed, stores, frames>>

\* free(mem): the chunk goes back to the system, its bytes as they are; a
\* realloc then returns its new block.
Release(t) ==
  /\ At(t, "release")
  /\ heap' = heap \ {old[t]}
  /\ freed' = freed \cup Chunk(old[t])
  /\ IF blk[t] = NoBlock THEN Leave(t) ELSE Goto(t, "return") /\ UNCHANGED frames
  /\ UNCHANGED <<build, shadow, pattern, live, stores>>

\* The program stores a byte, inside a block it holds or, since the pass
\* ignores the answer of the check, in its red zones: redzone or another.
Store(b, a) ==
  /\ stores < MaxStores /\ b \in live
  /\ a \in LeftZone(b) \cup AppBytes(b) \cup RightZone(b)
  /\ \/ pattern' = pattern \cup {a} /\ a \in AppBytes(b)
     \/ pattern' = pattern \ {a}
  /\ stores' = stores + 1
  /\ UNCHANGED <<build, shadow, heap, live, freed, pc, frames>>

-----------------------------------------------------------------------------

Proceed(t) == insertRZPattern(t) \/ Register(t) \/ Return(t) \/ Dlib_calloc(t) \/ Move(t) \/ Remove(t) \/ Release(t)

Call(t) ==
  \E b \in Block :
    \/ Dlib_malloc(t, b)
    \/ Dlib_free(t, b)
    \/ \E c \in Block : Dlib_realloc(t, c, b)

Next ==
  \/ \E t \in Thread : Call(t) \/ Proceed(t)
  \/ \E b \in Block, a \in 0 .. (Arena - 1) : Store(b, a)

Spec == Init /\ [][Next]_vars

-----------------------------------------------------------------------------
(***************************************************************************)
(* Properties                                                              *)
(***************************************************************************)

check(a, sz) == checkMemoryAccess(shadow, build, pattern, a, sz)

\* No access inside the application's bytes of a block the program holds is
\* reported, whatever bytes it holds and whatever the other threads allocate
\* and free: "no red-zone was accessed" (runtime/hmboundscheck.c:413).
AppAccessAccepted ==
  build.useRegistration =>
    \A b \in live : \A a \in AppBytes(b) : \A sz \in 1 .. (b.R - a) : check(a, sz) = 0

\* The words of the right zone that registerAddr writes end here.
MarkedEnd(b) == (b.R \div 8 + RZ \div 8) * 8

Intact(b) == LeftZone(b) \cup RightZone(b) \subseteq pattern

\* An access to a marked red-zone byte of a block the program holds is
\* reported, and one that runs over the end of the application's bytes; the
\* fast check hides none of them while the zones hold their pattern.
ZoneAccessReported ==
  \A b \in live :
    Intact(b) \/ ~build.fastCheck =>
      /\ \A a \in LeftZone(b) : check(a, 1) = 1
      /\ \A z \in {z \in RightZone(b) : z < MarkedEnd(b)} :
           check(z, 1) = 1 /\ \A a \in AppBytes(b) : check(a, z - a + 1) = 1

\* "Poison the entire shadow memory. This will be undone if a new memory
\* allocation will overwrite this poisoning" (:500): in the builds with ASANCheck
\* and useRegistration every byte that was given back stays reported until the system
\* hands out that byte again, whatever larger or smaller chunk takes the bytes beside
\* it.  (In the build with one bit per byte only one byte of every word is.)
FreedWordsReported ==
  build.ASANCheck /\ build.useRegistration =>
    \A a \in freed : checkRegistration(shadow, build, a, 1) = 1

\* What the program is told of an access, in every build the two together.
AccessesAnswered == AppAccessAccepted /\ ZoneAccessReported

\* The shadow memory of a block is as registerAddr leaves it.
Guarded(b) ==
  \A w \in getShadowMemoryAddress(b.M) .. getShadowMemoryAddress(b.R + RZ - 1) :
     shadow[w] = registerAddr(shadow, build, b.M, b.R)[w]

AbstractGuarded == {b \in heap : Guarded(b)}

Abstract == INSTANCE RedZones WITH guarded <- AbstractGuarded

\* The shadow-memory library, too, is the allocator RedZones describes: every step of
\* the threads, their interleavings included, is one of its steps or a stutter.
RefinesRedZones == Abstract!Spec

=============================================================================
