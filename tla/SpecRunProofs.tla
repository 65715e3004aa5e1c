---------------------------- MODULE SpecRunProofs ----------------------------
(***************************************************************************)
(* The lock of a benchmark, for any number of nodes: it is not left behind *)
(* by a job that was not killed; and, with two nodes, it excludes.  What   *)
(* was run, for any number of nodes: it is not lost, and it is listed.     *)
(* And the reports, given at any time, say what was run (ReportLogs).      *)
(***************************************************************************)
EXTENDS ReportLogs, SequenceTheorems, FiniteSetTheorems, WellFoundedInduction, TLAPS

Places == {"setup", "run", "lock", "copy", "copy all", "cut list", "merge list",
           "unlock", "exit", "done"}
PlacesOK == pc \in [Rank -> Places]

\* The lock is there only while a rank is going to remove it.
Holding == {"copy", "copy all", "cut list", "merge list", "unlock", "exit"}
LockHeld == lock /\ ~over => \E r \in Rank : pc[r] \in Holding

RInv == PlacesOK /\ LockHeld

\* A step of the script, or a command of it that fails for what is outside of it.
Moves(r) == Script(r) \/ CommandFails(r)

\* A script does not count what fails in it.
LEMMA ScriptFaults ==
  ASSUME NEW r \in Rank, Script(r)
  PROVE  faults' = faults
BY DEF Script, Setup, RunSpec, TakeLock, CopyNew, CopyAll, CopiedAll, CutList, MergeList, Unlock, Exit

LEMMA FailureCounts ==
  ASSUME NEW r \in Rank, CommandFails(r)
  PROVE  faults' = faults + 1
BY DEF CommandFails

\* It moves this rank only, and it removes the lock or keeps its own part in removing it.
LEMMA RankMoves ==
  ASSUME PlacesOK, NEW r \in Rank, Moves(r)
  PROVE  /\ over' = over
         /\ \E p \in Places : pc' = [pc EXCEPT ![r] = p]
         /\ lock' /\ (~lock \/ pc[r] \in Holding) => pc'[r] \in Holding
<1>1. CASE Setup(r)
  BY <1>1 DEF Setup, Reserve, Fails, At, Goto, PlacesOK, Places, Holding
<1>2. CASE RunSpec(r)
  BY <1>2 DEF RunSpec, At, Goto, PlacesOK, Places, Holding
<1>3. CASE TakeLock(r)
  BY <1>3 DEF TakeLock, At, Goto, PlacesOK, Places, Holding
<1>4. CASE CopyNew(r)
  BY <1>4 DEF CopyNew, Fails, At, Goto, PlacesOK, Places, Holding
<1>5. CASE CopyAll(r)
  BY <1>5 DEF CopyAll, Fails, At, Goto, PlacesOK, Places, Holding
<1>6. CASE CopiedAll(r)
  BY <1>6 DEF CopiedAll, At, Goto, PlacesOK, Places, Holding
<1>7. CASE CutList(r)
  BY <1>7 DEF CutList, Fails, At, Goto, PlacesOK, Places, Holding
<1>8. CASE MergeList(r)
  BY <1>8 DEF MergeList, At, Goto, PlacesOK, Places, Holding
<1>9. CASE Unlock(r)
  BY <1>9 DEF Unlock, Fails, At, Goto, PlacesOK, Places, Holding
<1>10. CASE Exit(r)
  BY <1>10 DEF Exit, At, Goto, PlacesOK, Places, Holding
<1>11. CASE CommandFails(r)
  <2>1. over' = over
    BY <1>11 DEF CommandFails
  <2>2. \E p \in {"done", "exit", "unlock"} : pc' = [pc EXCEPT ![r] = p]
    BY <1>11 DEF CommandFails, Fails, Goto
  <2>3. pc[r] = "setup" => (lock' => lock) /\ pc[r] \notin Holding
    <3>1. pc[r] = "setup" => lock' = lock
      BY <1>11 DEF CommandFails, At
    <3>2. pc[r] = "setup" => pc[r] \notin Holding
      BY DEF Holding
    <3> QED
      BY <3>1, <3>2
  <2>4. pc[r] # "setup" => pc'[r] \in {"exit", "unlock"}
    BY <1>11 DEF CommandFails, Fails, Goto, At, PlacesOK
  <2> QED
    BY <2>1, <2>2, <2>3, <2>4 DEF Places, Holding
<1> QED
  BY <1>1, <1>2, <1>3, <1>4, <1>5, <1>6, <1>7, <1>8, <1>9, <1>10, <1>11 DEF Moves, Script

\* A job starts without a lock.
LEMMA InitHolds == Init => RInv
BY DEF Init, RInv, PlacesOK, LockHeld, Places

\* The lock stays in the hands of a rank that will remove it.
LEMMA StepHolds == RInv /\ [Next]_specRunVars => RInv'
<1> SUFFICES ASSUME RInv, [Next]_specRunVars PROVE RInv'
  OBVIOUS
<1> USE DEF RInv
<1>1. CASE UNCHANGED specRunVars
  BY <1>1 DEF specRunVars, PlacesOK, LockHeld
<1>2. CASE TimeOver
  BY <1>2 DEF TimeOver, PlacesOK, LockHeld, Places
<1>3. ASSUME NEW r \in Rank, Moves(r) PROVE RInv'
  <2>1. PICK p \in Places : pc' = [pc EXCEPT ![r] = p]
    BY <1>3, RankMoves
  <2>2. PlacesOK'
    BY <2>1 DEF PlacesOK
  <2>3. ASSUME lock', ~over' PROVE \E s \in Rank : pc'[s] \in Holding
    <3>1. CASE ~lock \/ pc[r] \in Holding
      BY <1>3, <2>3, <3>1, RankMoves
    <3>2. CASE lock /\ pc[r] \notin Holding
      <4>1. PICK s \in Rank : pc[s] \in Holding
        BY <1>3, <2>3, <3>2, RankMoves DEF LockHeld
      <4> QED
        BY <2>1, <3>2, <4>1 DEF PlacesOK
    <3> QED
      BY <3>1, <3>2
  <2> QED
    BY <2>2, <2>3 DEF LockHeld
<1> QED
  BY <1>1, <1>2, <1>3 DEF Next, Moves

\* A job that was not killed leaves no lock behind, whatever its number of nodes and
\* whichever commands of its scripts fail (LockReleased).
THEOREM JobsLeaveNoLock == Spec => []LockReleased
<1>1. RInv => LockReleased
  BY DEF RInv, LockHeld, LockReleased, AllDone, Holding
<1> QED
  BY <1>1, InitHolds, StepHolds, PTL DEF Spec

\* Two nodes ----------------------------------------------------------------------------

\* Who is inside either still has the lock or lost it to the trap of the other, whose
\* script is then over.
Guarded ==
  \A r \in Rank : Inside(r) => lock \/ \E s \in Rank : s # r /\ pc[s] = "done"

XInv == PlacesOK /\ LockExcludes /\ Guarded

\* Inside is entered by taking the lock, and left before the lock is removed; a script
\* that is over stays so.
LEMMA RankGuards ==
  ASSUME PlacesOK, NEW r \in Rank, Moves(r)
  PROVE  /\ Inside(r)' => \/ Inside(r) /\ lock' = lock
                          \/ pc[r] = "lock" /\ ~lock /\ lock'
         /\ pc[r] # "done"
         /\ ~Inside(r)' => lock' = lock \/ Inside(r) \/ pc'[r] = "done"
<1>1. CASE Setup(r)
  BY <1>1 DEF Setup, Reserve, Fails, At, Goto, PlacesOK, Places, Inside
<1>2. CASE RunSpec(r)
  BY <1>2 DEF RunSpec, At, Goto, PlacesOK, Places, Inside
<1>3. CASE TakeLock(r)
  BY <1>3 DEF TakeLock, At, Goto, PlacesOK, Places, Inside
<1>4. CASE CopyNew(r)
  BY <1>4 DEF CopyNew, Fails, At, Goto, PlacesOK, Places, Inside
<1>5. CASE CopyAll(r)
  BY <1>5 DEF CopyAll, Fails, At, Goto, PlacesOK, Places, Inside
<1>6. CASE CopiedAll(r)
  BY <1>6 DEF CopiedAll, At, Goto, PlacesOK, Places, Inside
<1>7. CASE CutList(r)
  BY <1>7 DEF CutList, Fails, At, Goto, PlacesOK, Places, Inside
<1>8. CASE MergeList(r)
  BY <1>8 DEF MergeList, At, Goto, PlacesOK, Places, Inside
<1>9. CASE Unlock(r)
  BY <1>9 DEF Unlock, Fails, At, Goto, PlacesOK, Places, Inside
<1>10. CASE Exit(r)
  BY <1>10 DEF Exit, At, Goto, PlacesOK, Places, Inside
<1>11. CASE CommandFails(r)
  BY <1>11 DEF CommandFails, Fails, At, Goto, PlacesOK, Places, Inside, shared
<1> QED
  BY <1>1, <1>2, <1>3, <1>4, <1>5, <1>6, <1>7, <1>8, <1>9, <1>10, <1>11 DEF Moves, Script

\* Nobody is inside at first.
LEMMA InitExcludes == Init => XInv
BY DEF Init, XInv, PlacesOK, Places, LockExcludes, Guarded, Inside

\* When any three ranks are two at most, who gets in finds nobody there.
LEMMA StepExcludes ==
  ASSUME \A r, s, q \in Rank : r = s \/ q = r \/ q = s
  PROVE  XInv /\ [Next]_specRunVars => XInv'
<1> SUFFICES ASSUME XInv, [Next]_specRunVars PROVE XInv'
  OBVIOUS
<1> USE DEF XInv
<1>1. CASE UNCHANGED specRunVars
  BY <1>1 DEF specRunVars, PlacesOK, LockExcludes, Guarded, Inside
<1>2. CASE TimeOver
  BY <1>2 DEF TimeOver, PlacesOK, LockExcludes, Guarded, Inside, Places
<1>3. ASSUME NEW r \in Rank, Moves(r) PROVE XInv'
  <2>1. PICK p \in Places : pc' = [pc EXCEPT ![r] = p]
    BY <1>3, RankMoves
  <2>2. PlacesOK' /\ \A s \in Rank : s # r => pc'[s] = pc[s]
    BY <2>1 DEF PlacesOK
  <2>3. \A s \in Rank : s # r => (Inside(s)' <=> Inside(s))
    BY <2>2 DEF Inside
  <2>4. ASSUME Inside(r)', NEW s \in Rank, s # r, Inside(s)' PROVE FALSE
    <3>1. Inside(s)
      BY <2>3, <2>4
    <3>2. ~Inside(r)
      BY <2>4, <3>1 DEF LockExcludes
    <3>3. pc[r] = "lock" /\ ~lock
      BY <1>3, <2>4, <3>2, RankGuards
    <3>4. PICK q \in Rank : q # s /\ pc[q] = "done"
      BY <3>1, <3>3 DEF Guarded
    <3> QED
      BY <2>4, <3>3, <3>4
  <2>5. LockExcludes'
    <3> SUFFICES ASSUME NEW s \in Rank, NEW q \in Rank, Inside(s)', Inside(q)', s # q PROVE FALSE
      BY DEF LockExcludes, Inside
    <3>1. s # r /\ q # r
      BY <2>4
    <3> QED
      BY <2>3, <3>1 DEF LockExcludes
  <2>6. ASSUME NEW s \in Rank, Inside(s)' PROVE lock' \/ \E q \in Rank : q # s /\ pc'[q] = "done"
    <3>1. CASE s = r
      <4>1. CASE pc[r] = "lock" /\ ~lock /\ lock'
        BY <4>1
      <4>2. CASE Inside(r) /\ lock' = lock
        BY <2>2, <3>1, <4>2 DEF Guarded
      <4> QED
        BY <1>3, <2>6, <3>1, <4>1, <4>2, RankGuards
    <3>2. CASE s # r
      <4>1. Inside(s) /\ ~Inside(r) /\ ~Inside(r)'
        BY <2>3, <2>4, <2>6, <3>2 DEF LockExcludes
      <4>2. CASE lock' = lock
        BY <1>3, <2>2, <4>1, <4>2, RankGuards DEF Guarded
      <4>3. CASE pc'[r] = "done"
        BY <3>2, <4>3
      <4> QED
        BY <1>3, <4>1, <4>2, <4>3, RankGuards
    <3> QED
      BY <3>1, <3>2
  <2> QED
    BY <2>2, <2>5, <2>6 DEF Guarded, Inside
<1> QED
  BY <1>1, <1>2, <1>3 DEF Next, Moves

\* On two nodes the lock excludes (LockExcludes).  With a third this fails
\* (Spec_v_lock): its trap removes the lock another one has taken meanwhile.
THEOREM TwoRanksExclude ==
  ASSUME NEW a, NEW b, Rank = {a, b}
  PROVE  Spec => []LockExcludes
<1>1. XInv /\ [Next]_specRunVars => XInv'
  BY StepExcludes
<1>2. XInv => LockExcludes
  BY DEF XInv
<1> QED
  BY <1>1, <1>2, InitExcludes, PTL DEF Spec

\* What was run -------------------------------------------------------------------------

\* There is a shared run directory of that number.
Has(d) == runs[d] # NoOne

\* The numbers in use are those of the ranks, and the one of an earlier run.
Number(d) == d = 1 \/ \E s \in Rank : mine[s] = d

TypesRight ==
  /\ PlacesOK
  /\ status \in [Rank -> {"running", "failed", "ok"}]
  /\ names \in [Rank -> SUBSET Dir] /\ locallist \in [Rank -> SUBSET (Dir \cup {END})]
  /\ mine \in [Rank -> Dir \cup {END}]
  /\ runs \in [Dir -> Rank \cup {NoOne, Earlier}] /\ list \subseteq Dir \cup {END}
  /\ scratch \in {"no", "partly", "yes"} /\ faults \in Nat

Numbered ==
  /\ \A d \in Dir : Has(d) \/ d \in list => Number(d)
  /\ \A r \in Rank : \A d \in Dir : d \in names[r] \cup locallist[r] => Number(d)
  /\ \A r \in Rank : pc[r] \in {"setup", "run"} => mine[r] = END

\* What a rank has copied is in the run directory of its number.
Owned == \A d \in Dir : runs[d] \in Rank => mine[runs[d]] = d

\* The run directory of a rank that has copied it stays, or becomes that of another rank.
Copied(r) == pc[r] \in {"cut list", "merge list", "unlock"} \/ status[r] = "ok"
CopiesStay ==
  /\ \A r \in Rank : Copied(r) /\ mine[r] # END => runs[mine[r]] \in Rank
  /\ \A r \in Rank : status[r] = "ok" => pc[r] \in {"exit", "done"}

\* The rank's disk has no run directory but its own.
OnlyOwn(r) ==
  /\ names[r] = {mine[r]} \ {END}
  /\ locallist[r] = IF mine[r] = END THEN {} ELSE {mine[r], END}

CopiesAll(c) == pc[c] = "copy all"
First(r) == pc[r] \in {"copy", "copy all", "exit"}

\* Until one rank has copied everything, the lock does exclude, since a rank that fails
\* removes only its own; and nothing is shared.
FirstCopy ==
  /\ \A r \in Rank : pc[r] \in {"cut list", "merge list", "unlock"} => scratch = "yes"
  /\ scratch = "partly" <=> \E c \in Rank : CopiesAll(c)
  /\ \A c \in Rank : CopiesAll(c) => mine[c] # END /\ OnlyOwn(c)
  /\ scratch # "yes" =>
       /\ list = {} /\ \A d \in Dir : ~Has(d)
       /\ \A r \in Rank : First(r) => lock
       /\ \A r, s \in Rank : First(r) /\ First(s) => r = s
  /\ scratch = "no" => \A r \in Rank : OnlyOwn(r)

\* The run directory is copied and not yet in the list.
Unmerged(d) == \E r \in Rank : pc[r] \in {"cut list", "merge list"} /\ mine[r] = d

\* The shared list lacks only those; and each list names what is or will be shared, and
\* the rank's own.
Listed ==
  /\ \A d \in Dir : Has(d) <=> d \in list \/ Unmerged(d)
  /\ \A r \in Rank : \A d \in Dir :
       d \in locallist[r] => Has(d) \/ d = mine[r] \/ \E c \in Rank : CopiesAll(c) /\ mine[c] = d
  /\ \A r \in Rank : pc[r] \notin {"exit", "done"} /\ mine[r] # END => mine[r] \in locallist[r]

\* The inductive invariant of RunsListed.
LInv == TypesRight /\ Numbered /\ Owned /\ CopiesStay
        /\ (~over /\ faults = 0 => FirstCopy /\ Listed)

\* The numbers that are known leave one that is free, as long as this rank has none.
LEMMA FreeNumber ==
  ASSUME TypesRight, Numbered, NEW r \in Rank, pc[r] = "run"
  PROVE  Min(Dir \ (names[r] \cup locallist[r])) \in Dir
<1> DEFINE O == Rank \ {r}
           T == {mine[s] : s \in O}
           f == [s \in O |-> mine[s]]
           F == Dir \ (names[r] \cup locallist[r])
           n == Cardinality(Rank)
<1>1. IsFiniteSet(O) /\ Cardinality(O) = n - 1 /\ n \in Nat
  BY SpecRunAssumption, FS_RemoveElement, FS_CardinalityType
<1>2. f \in Surjection(O, T)
  BY DEF Surjection
<1>3. IsFiniteSet(T) /\ Cardinality(T) <= n - 1 /\ Cardinality(T) \in Nat
  <2> HIDE DEF O, T, f, n
  <2> QED
    BY <1>1, <1>2, FS_Surjection, FS_CardinalityType
<1>4. IsFiniteSet(T \cup {1}) /\ Cardinality(T \cup {1}) <= n /\ Cardinality(T \cup {1}) \in Nat
  <2> HIDE DEF T, n
  <2>1. /\ IsFiniteSet(T \cup {1})
        /\ Cardinality(T \cup {1}) = IF 1 \in T THEN Cardinality(T) ELSE Cardinality(T) + 1
    BY <1>3, FS_AddElement
  <2>2. Cardinality(T \cup {1}) \in Nat
    BY <2>1, FS_CardinalityType
  <2> HIDE DEF O, f
  <2> QED
    BY <1>1, <1>3, <2>1, <2>2
<1>5. IsFiniteSet(Dir) /\ Cardinality(Dir) = n + 1
  <2> HIDE DEF n
  <2>1. Dir = 1 .. n + 1
    BY DEF Dir, n
  <2>2. n + 1 \in Int /\ 1 \in Int /\ ~(1 > n + 1)
    BY <1>1
  <2> QED
    BY <1>1, <2>1, <2>2, FS_Interval
<1>6. \E d \in Dir : d \notin T \cup {1}
  <2> SUFFICES ASSUME Dir \subseteq T \cup {1} PROVE FALSE
    OBVIOUS
  <2> HIDE DEF T, n
  <2> QED
    BY <1>1, <1>4, <1>5, FS_Subset
<1>7. END \notin Dir
  BY DEF Dir, END
<1>8. \A d \in Dir : Number(d) => d \in T \cup {1}
  BY <1>7 DEF Number, Numbered
<1>9. F # {} /\ F \subseteq Nat
  BY <1>6, <1>8 DEF Numbered, Dir
<1>10. \E m \in F : \A y \in F : m <= y
  <2> DEFINE R == {p \in Nat \X Nat : p[1] < p[2]}
  <2> HIDE DEF F
  <2>1. IsWellFoundedOn(R, Nat)
    BY NatLessThanWellFounded DEF OpToRel
  <2> HIDE DEF R
  <2>2. \E m \in F : \A y \in F : ~(<<y, m>> \in R)
    BY <1>9, <2>1, WFMin
  <2>3. \A m, y \in F : ~(<<y, m>> \in R) => m <= y
    BY <1>9 DEF R
  <2> QED
    BY <2>2, <2>3
<1> HIDE DEF F
<1>11. Min(F) \in F
  BY <1>10 DEF Min
<1> QED
  BY <1>11 DEF F

\* No rank has a run directory at first.
LEMMA InitLists == Init => LInv
<1> SUFFICES ASSUME Init PROVE LInv
  OBVIOUS
<1>1. 1 \in Dir
  BY SpecRunAssumption, FS_CardinalityType DEF Dir
<1>2. NoOne # Earlier
  BY DEF NoOne, Earlier
<1>3. TypesRight
  BY <1>1 DEF Init, TypesRight, PlacesOK, Places
<1>10. Owned
  <2>1. \A d \in Dir : runs[d] \notin Rank
    BY NamesAssumption DEF Init
  <2> QED
    BY <2>1 DEF Owned
<1>7. \A d \in Dir : Has(d) <=> d \in list
  <2>1. CASE list = {} /\ runs = [d \in Dir |-> NoOne]
    BY <2>1 DEF Has
  <2>2. CASE list = {1, END} /\ runs = [d \in Dir |-> IF d = 1 THEN Earlier ELSE NoOne]
    <3>1. \A d \in Dir : d # END
      BY DEF Dir, END
    <3> QED
      BY <1>2, <2>2, <3>1 DEF Has
  <2> QED
    BY <2>1, <2>2 DEF Init
<1>8. \A d \in Dir : d \in list => d = 1
  BY DEF Init, END, Dir
<1>9. \A r \in Rank : pc[r] = "setup" /\ status[r] = "running" /\ mine[r] = END
                      /\ names[r] = {} /\ locallist[r] = {}
  BY DEF Init
<1>4. Numbered /\ CopiesStay
  BY <1>7, <1>8, <1>9 DEF Numbered, Number, CopiesStay, Copied
<1>5. FirstCopy
  BY <1>1, <1>2 DEF Init, FirstCopy, CopiesAll, First, OnlyOwn, Has
<1>6. Listed
  BY <1>7, <1>9 DEF Listed, Unmerged
<1> QED
  BY <1>3, <1>4, <1>5, <1>6, <1>10 DEF LInv

\* The types -----------------------------------------------------------------------------

\* A step of the script keeps the types; the number that runspec takes is a run directory.
LEMMA RankTypes ==
  ASSUME TypesRight, Numbered, NEW r \in Rank, Moves(r)
  PROVE  TypesRight'
<1>0. PlacesOK'
  BY RankMoves DEF TypesRight, PlacesOK
<1>1. status' \in [Rank -> {"running", "failed", "ok"}]
  BY DEF TypesRight, Moves, Script, Setup, Reserve, RunSpec, TakeLock, CopyNew, CopyAll, CopiedAll, CutList,
         MergeList, Unlock, Exit, CommandFails, Fails
<1>2. scratch' \in {"no", "partly", "yes"}
  BY DEF TypesRight, Moves, Script, Setup, RunSpec, TakeLock, CopyNew, CopyAll, CopiedAll, CutList,
         MergeList, Unlock, Exit, CommandFails, shared
<1>3. /\ mine' \in [Rank -> Dir \cup {END}]
      /\ names' \in [Rank -> SUBSET Dir] /\ locallist' \in [Rank -> SUBSET (Dir \cup {END})]
  <2>1. CASE Setup(r)
    BY <2>1 DEF TypesRight, Setup, Reserve
  <2>2. CASE RunSpec(r)
    <3> DEFINE d == Min(Dir \ (names[r] \cup locallist[r]))
    <3>1. d \in Dir
      BY <2>2, FreeNumber DEF RunSpec, At
    <3>2. \/ UNCHANGED <<names, locallist, mine>>
          \/ /\ mine' = [mine EXCEPT ![r] = d]
             /\ names' = [names EXCEPT ![r] = names[r] \cup {d}]
             /\ locallist' = [locallist EXCEPT ![r] = locallist[r] \cup {d, END}]
      BY <2>2 DEF RunSpec
    <3> HIDE DEF d
    <3> QED
      BY <3>1, <3>2 DEF TypesRight
  <2>3. CASE Unlock(r)
    BY <2>3 DEF TypesRight, Unlock
  <2>4. CASE ~Setup(r) /\ ~RunSpec(r) /\ ~Unlock(r)
    BY <2>4
    DEF TypesRight, Moves, Script, TakeLock, CopyNew, CopyAll, CopiedAll, CutList, MergeList, Exit,
        CommandFails, local
  <2> QED
    BY <2>1, <2>2, <2>3, <2>4
<1>4. runs' \in [Dir -> Rank \cup {NoOne, Earlier}] /\ list' \subseteq Dir \cup {END}
  <2>1. CASE CopyNew(r)
    BY <2>1 DEF TypesRight, CopyNew
  <2>2. CASE CopiedAll(r)
    BY <2>2 DEF TypesRight, CopiedAll
  <2>3. CASE CutList(r) \/ MergeList(r)
    BY <2>3 DEF TypesRight, CutList, MergeList
  <2>4. CASE CommandFails(r)
    <3>1. runs' = runs \/ runs' = [d \in Dir |-> IF d = mine[r] THEN r ELSE runs[d]]
      BY <2>4 DEF CommandFails, CopySome, shared
    <3>2. \/ list' = list \/ list' = locallist[r]
          \/ \E n \in {0} \cup Dir : list' = list \cup {d \in locallist[r] : 0 < d /\ d <= n}
      BY <2>4 DEF CommandFails, AppendSome, shared
    <3> QED
      BY <3>1, <3>2 DEF TypesRight
  <2>5. CASE Script(r) /\ ~CopyNew(r) /\ ~CopiedAll(r) /\ ~CutList(r) /\ ~MergeList(r)
    BY <2>5 DEF TypesRight, Script, Setup, RunSpec, TakeLock, CopyAll, Unlock, Exit, shared
  <2> QED
    BY <2>1, <2>2, <2>3, <2>4, <2>5 DEF Moves
<1>5. faults' \in Nat
  BY ScriptFaults, FailureCounts DEF Moves, TypesRight
<1> QED
  BY <1>0, <1>1, <1>2, <1>3, <1>4, <1>5 DEF TypesRight

\* A step of the script moves only this rank ...
LEMMA OthersStay ==
  ASSUME TypesRight, NEW r \in Rank, Moves(r)
  PROVE  \A s \in Rank : s # r =>
           /\ pc'[s] = pc[s] /\ status'[s] = status[s] /\ mine'[s] = mine[s]
           /\ names'[s] = names[s] /\ locallist'[s] = locallist[s]
<1>1. \A s \in Rank : s # r => pc'[s] = pc[s]
  BY RankMoves DEF TypesRight, PlacesOK
<1>2. \A s \in Rank : s # r => status'[s] = status[s]
  BY DEF TypesRight, Moves, Script, Setup, Reserve, RunSpec, TakeLock, CopyNew, CopyAll, CopiedAll, CutList,
         MergeList, Unlock, Exit, CommandFails, Fails
<1>3. \A s \in Rank : s # r =>
        mine'[s] = mine[s] /\ names'[s] = names[s] /\ locallist'[s] = locallist[s]
  BY DEF TypesRight, Moves, Script, Setup, Reserve, RunSpec, TakeLock, CopyNew, CopyAll, CopiedAll, CutList,
         MergeList, Unlock, Exit, CommandFails, local
<1> QED
  BY <1>1, <1>2, <1>3

\* What happens to the shared run directories: this rank's own may have been copied there.
LEMMA RunsBecome ==
  ASSUME TypesRight, NEW r \in Rank, Moves(r)
  PROVE  \/ runs' = runs
         \/ /\ pc[r] \in {"copy", "copy all"}
            /\ runs' = [d \in Dir |-> IF d = mine[r] THEN r ELSE runs[d]]
<1>1. CASE CopyNew(r)
  BY <1>1 DEF CopyNew, At
<1>2. CASE CopiedAll(r)
  <2>1. pc[r] = "copy all" /\ runs' = [runs EXCEPT ![mine[r]] = r]
    BY <1>2 DEF CopiedAll, At
  <2> QED
    BY <2>1 DEF TypesRight
<1>3. CASE CommandFails(r)
  BY <1>3 DEF CommandFails, CopySome, At, shared
<1>4. CASE Script(r) /\ ~CopyNew(r) /\ ~CopiedAll(r)
  BY <1>4 DEF Script, Setup, RunSpec, TakeLock, CopyAll, CutList, MergeList, Unlock, Exit, shared
<1> QED
  BY <1>1, <1>2, <1>3, <1>4 DEF Moves

\* None is taken away, and what a rank has copied becomes another rank's at most.
LEMMA RunsStay ==
  ASSUME TypesRight, NEW r \in Rank, Moves(r)
  PROVE  /\ \A d \in Dir : runs'[d] = runs[d] \/ (runs'[d] = r /\ d = mine[r])
         /\ \A d \in Dir : runs[d] \in Rank => runs'[d] \in Rank
         /\ \A d \in Dir : Has(d) => Has(d)'
<1>1. \A d \in Dir : runs'[d] = runs[d] \/ (runs'[d] = r /\ d = mine[r])
  <2>1. CASE runs' = runs
    BY <2>1
  <2>2. CASE runs' = [d \in Dir |-> IF d = mine[r] THEN r ELSE runs[d]]
    BY <2>2
  <2> QED
    BY <2>1, <2>2, RunsBecome
<1> QED
  BY <1>1, NamesAssumption DEF Has

\* The numbers ---------------------------------------------------------------------------

\* A rank that has a number keeps it ...
LEMMA NumbersStay ==
  ASSUME TypesRight, Numbered, NEW r \in Rank, Moves(r)
  PROVE  /\ \A d \in Dir : Number(d) => Number(d)'
         /\ ~RunSpec(r) => mine' = mine
<1>1. CASE RunSpec(r)
  <2>1. mine[r] = END /\ END \notin Dir
    BY <1>1 DEF RunSpec, At, Numbered, END, Dir
  <2> QED
    BY <1>1, <2>1, OthersStay DEF Number
<1>2. ~RunSpec(r) => mine' = mine
  BY DEF Moves, Script, Setup, TakeLock, CopyNew, CopyAll, CopiedAll, CutList, MergeList, Unlock, Exit,
         CommandFails, local
<1> QED
  BY <1>1, <1>2 DEF Number

\* ... and what a step adds to the lists and the run directories is of a known number.
LEMMA RankNumbers ==
  ASSUME TypesRight, Numbered, NEW r \in Rank, Moves(r)
  PROVE  Numbered'
<1> SUFFICES /\ \A d \in Dir : (Has(d) \/ d \in list)' => Number(d)'
             /\ \A d \in Dir : d \in names'[r] \cup locallist'[r] => Number(d)'
             /\ pc'[r] \in {"setup", "run"} => mine'[r] = END
  BY NumbersStay, OthersStay DEF Numbered
<1>1. \A d \in Dir : Number(d) => Number(d)'
  BY NumbersStay
<1>2. CASE RunSpec(r)
  <2> DEFINE d == Min(Dir \ (names[r] \cup locallist[r]))
  <2>1. d \in Dir /\ END \notin Dir
    BY <1>2, FreeNumber DEF RunSpec, At, END, Dir
  <2>2. pc'[r] = "lock" /\ UNCHANGED <<runs, list>>
    BY <1>2 DEF RunSpec, Goto, shared, TypesRight, PlacesOK
  <2>3. \/ UNCHANGED <<names, locallist>>
        \/ /\ mine'[r] = d /\ names'[r] = names[r] \cup {d}
           /\ locallist'[r] = locallist[r] \cup {d, END}
    BY <1>2 DEF RunSpec, TypesRight
  <2> HIDE DEF d
  <2>4. \A e \in Dir : e \in names'[r] \cup locallist'[r] =>
           e \in names[r] \cup locallist[r] \/ mine'[r] = e
    BY <2>1, <2>3
  <2>5. \A e \in Dir : mine'[r] = e => Number(e)'
    BY DEF Number
  <2> QED
    BY <1>1, <2>2, <2>4, <2>5 DEF Numbered, Has
<1>3. ASSUME ~RunSpec(r) PROVE mine' = mine
  BY <1>3, NumbersStay
<1>4. CASE Setup(r)
  <2>1. UNCHANGED <<runs, list>> /\ mine[r] = END /\ mine' = mine
    BY <1>4 DEF Setup, shared, At, Numbered
  <2>2. CASE names'[r] = {d \in Dir : Has(d)} /\ locallist'[r] = list
    BY <1>1, <2>1, <2>2 DEF Numbered, Has
  <2>3. CASE \E c \in Rank : names'[r] = names[c] /\ locallist'[r] = locallist[c]
    BY <1>1, <2>1, <2>3 DEF Numbered, Has
  <2> QED
    BY <1>4, <2>2, <2>3 DEF Setup, Reserve, Has, TypesRight
<1>5. CASE CopyNew(r)
  <2>1. mine' = mine /\ UNCHANGED <<names, locallist, list>> /\ pc'[r] \notin {"setup", "run"}
    BY <1>5 DEF CopyNew, local, Fails, Goto, At, TypesRight, PlacesOK
  <2>2. \A d \in Dir : Has(d)' => Has(d) \/ mine[r] = d
    BY <1>5 DEF CopyNew, Has, TypesRight
  <2> QED
    BY <1>1, <2>1, <2>2 DEF Numbered, Number
<1>6. CASE CopiedAll(r)
  <2>1. mine' = mine /\ UNCHANGED <<names, locallist>> /\ pc'[r] \notin {"setup", "run"}
    BY <1>6 DEF CopiedAll, local, Goto, At, TypesRight, PlacesOK
  <2>2. \A d \in Dir : (Has(d)' => Has(d) \/ mine[r] = d) /\ (d \in list' => d \in locallist[r])
    BY <1>6 DEF CopiedAll, Has, TypesRight
  <2> QED
    BY <1>1, <2>1, <2>2 DEF Numbered, Number
<1>7. CASE CutList(r) \/ MergeList(r)
  <2>1. mine' = mine /\ UNCHANGED <<names, locallist, runs>> /\ pc'[r] \notin {"setup", "run"}
    BY <1>7 DEF CutList, MergeList, local, Fails, Goto, At, TypesRight, PlacesOK
  <2>2. \A d \in Dir : d \in list' => d \in list \/ d \in locallist[r]
    BY <1>7 DEF CutList, MergeList
  <2> QED
    BY <1>1, <2>1, <2>2 DEF Numbered, Has
<1>8. CASE TakeLock(r) \/ CopyAll(r) \/ Unlock(r) \/ Exit(r)
  <2>1. UNCHANGED <<runs, list>> /\ pc'[r] \notin {"setup", "run"}
    BY <1>8 DEF TakeLock, CopyAll, Unlock, Exit, shared, Fails, Goto, At, TypesRight, PlacesOK
  <2>2. names'[r] \subseteq names[r] /\ locallist'[r] \subseteq locallist[r]
    BY <1>8 DEF TakeLock, CopyAll, Unlock, Exit, local, TypesRight
  <2> QED
    BY <1>1, <2>1, <2>2 DEF Numbered, Has
<1>9. CASE CommandFails(r)
  <2>1. UNCHANGED <<mine, names, locallist>> /\ pc'[r] \notin {"setup", "run"}
    BY <1>9 DEF CommandFails, local, Fails, Goto, At, TypesRight, PlacesOK
  <2>2. \A d \in Dir : Has(d)' => Has(d) \/ mine[r] = d
    BY RunsStay DEF Has
  <2>3. \A d \in Dir : d \in list' => d \in list \/ d \in locallist[r]
    BY <1>9 DEF CommandFails, AppendSome, shared
  <2> QED
    BY <1>1, <2>1, <2>2, <2>3 DEF Numbered, Number
<1> QED
  BY <1>2, <1>4, <1>5, <1>6, <1>7, <1>8, <1>9 DEF Moves, Script

\* A run directory belongs to a rank that took its number.
LEMMA RankOwns ==
  ASSUME TypesRight, Numbered, Owned, NEW r \in Rank, Moves(r)
  PROVE  Owned'
<1> SUFFICES ASSUME NEW d \in Dir, runs'[d] \in Rank PROVE mine'[runs'[d]] = d
  BY DEF Owned
<1>1. \A s \in Rank : mine'[s] # mine[s] => s = r /\ RunSpec(r) /\ mine[r] = END
  BY NumbersStay, OthersStay DEF RunSpec, At, Numbered
<1>2. d # END
  BY DEF Dir, END
<1>3. CASE runs'[d] = runs[d]
  BY <1>1, <1>2, <1>3 DEF Owned
<1>4. CASE runs'[d] = r /\ d = mine[r]
  BY <1>1, <1>2, <1>4
<1> QED
  BY <1>3, <1>4, RunsStay

\* What a rank has copied is there, also when it has ended well.
LEMMA RankCopies ==
  ASSUME TypesRight, Numbered, CopiesStay, NEW r \in Rank, Moves(r)
  PROVE  CopiesStay'
<1>1. TypesRight'
  BY RankTypes
<1>2. ASSUME NEW s \in Rank, s # r, Copied(s)', mine'[s] # END PROVE runs'[mine[s]] \in Rank
  <2>1. Copied(s) /\ mine[s] # END
    BY <1>2, OthersStay DEF Copied
  <2> QED
    BY <2>1, RunsStay DEF CopiesStay, TypesRight
<1>3. ASSUME Copied(r)', mine'[r] # END PROVE runs'[mine[r]] \in Rank
  <2>1. CASE CopyNew(r)
    <3>1. mine' = mine /\ mine[r] \in Dir
      BY <1>3, <2>1 DEF CopyNew, local, TypesRight
    <3>2. CASE pc'[r] = "exit"
      <4>1. status[r] = "ok" 
        BY <1>3, <2>1, <3>2 DEF CopyNew, Fails, Copied, TypesRight, Goto
      <4> QED
        BY <1>3, <3>1, <4>1, RunsStay DEF CopiesStay, Copied
    <3>3. CASE names[r] # {}
      BY <2>1, <3>1, <3>3 DEF CopyNew
    <3> QED
      BY <2>1, <3>2, <3>3 DEF CopyNew, Fails, Goto, At, TypesRight, PlacesOK
  <2>2. CASE CopiedAll(r)
    BY <1>3, <2>2 DEF CopiedAll, local, TypesRight
  <2>3. CASE Script(r) /\ ~CopyNew(r) /\ ~CopiedAll(r)
    <3>1. Copied(r) /\ ~RunSpec(r)
      BY <1>3, <2>3
      DEF Script, Setup, Reserve, RunSpec, TakeLock, CopyAll, CutList, MergeList, Unlock, Exit,
          Copied, CopiesStay, Fails, Goto, At, TypesRight, PlacesOK
    <3> QED
      BY <1>3, <3>1, RunsStay, NumbersStay DEF CopiesStay, TypesRight
  <2>4. CASE CommandFails(r)
    <3>1. Copied(r) /\ mine' = mine
      BY <1>3, <2>4 DEF CommandFails, Copied, Fails, Goto, At, TypesRight, PlacesOK, local
    <3> QED
      BY <1>3, <3>1, RunsStay DEF CopiesStay, TypesRight
  <2> QED
    BY <2>1, <2>2, <2>3, <2>4 DEF Moves
<1>4. status'[r] = "ok" => pc'[r] \in {"exit", "done"}
  BY DEF Moves, Script, Setup, Reserve, RunSpec, TakeLock, CopyNew, CopyAll, CopiedAll, CutList, MergeList,
         Unlock, Exit, CommandFails, CopiesStay, Fails, Goto, At, TypesRight, PlacesOK
<1>5. ASSUME NEW s \in Rank, Copied(s)', mine'[s] # END PROVE runs'[mine'[s]] \in Rank
  <2>1. ~RunSpec(r) \/ s # r
    BY <1>5 DEF RunSpec, Goto, Copied, CopiesStay, TypesRight, PlacesOK, At
  <2>2. mine'[s] = mine[s]
    BY <2>1, NumbersStay, OthersStay
  <2> QED
    BY <1>2, <1>3, <1>5, <2>2
<1> QED
  BY <1>4, <1>5, OthersStay DEF CopiesStay

\* The list ------------------------------------------------------------------------------

\* What a step of the script of r leaves alone.
Kept(r) ==
  \A s \in Rank : s # r =>
    /\ pc'[s] = pc[s] /\ mine'[s] = mine[s]
    /\ names'[s] = names[s] /\ locallist'[s] = locallist[s]

\* Until the shared list is there, the lock and what is on the disks is as FirstCopy says ...
LEMMA ScriptFirst ==
  ASSUME TypesRight, Numbered, CopiesStay, FirstCopy, Listed, NEW r \in Rank, Script(r)
  PROVE  FirstCopy'
<1>0. Kept(r)
  BY OthersStay DEF Kept, Moves
<1>1. ASSUME \A s \in Rank : CopiesAll(s)' <=> CopiesAll(s),
             UNCHANGED <<scratch, mine, names, locallist>>,
             pc'[r] \in {"cut list", "merge list", "unlock"} => scratch = "yes",
             scratch # "yes" => /\ UNCHANGED <<runs, list>>
                                /\ \A s \in Rank : First(s)' => lock'
                                /\ \A s, t \in Rank : First(s)' /\ First(t)' => s = t
      PROVE  FirstCopy'
  <2>1. \A s \in Rank : pc'[s] \in {"cut list", "merge list", "unlock"} => scratch' = "yes"
    BY <1>0, <1>1 DEF FirstCopy, Kept
  <2>2. scratch' = "partly" <=> \E c \in Rank : CopiesAll(c)'
    BY <1>1 DEF FirstCopy
  <2>3. \A c \in Rank : CopiesAll(c)' => mine'[c] # END /\ OnlyOwn(c)'
    BY <1>1 DEF FirstCopy, OnlyOwn
  <2>4. scratch' # "yes" =>
          /\ list' = {} /\ \A d \in Dir : ~Has(d)'
          /\ \A s \in Rank : First(s)' => lock'
          /\ \A s, t \in Rank : First(s)' /\ First(t)' => s = t
    BY <1>1 DEF FirstCopy, Has
  <2>5. scratch' = "no" => \A s \in Rank : OnlyOwn(s)'
    BY <1>1 DEF FirstCopy, OnlyOwn
  <2> QED
    BY <2>1, <2>2, <2>3, <2>4, <2>5 DEF FirstCopy
<1>2. ASSUME UNCHANGED <<shared, lock>>, pc[r] \in {"setup", "run"}, pc'[r] \in {"run", "lock", "done"},
             scratch = "no" => OnlyOwn(r)'
      PROVE  FirstCopy'
  <2>1. \A s \in Rank : (CopiesAll(s)' <=> CopiesAll(s)) /\ (First(s)' <=> First(s))
    BY <1>0, <1>2 DEF CopiesAll, First, Kept
  <2>2. \A s \in Rank : pc'[s] \in {"cut list", "merge list", "unlock"} => scratch' = "yes"
    BY <1>0, <1>2 DEF FirstCopy, Kept, shared
  <2>3. scratch' = "partly" <=> \E c \in Rank : CopiesAll(c)'
    BY <1>2, <2>1 DEF FirstCopy, shared
  <2>4. \A c \in Rank : CopiesAll(c)' => mine'[c] # END /\ OnlyOwn(c)'
    <3> SUFFICES ASSUME NEW c \in Rank, CopiesAll(c)' PROVE mine'[c] # END /\ OnlyOwn(c)'
      OBVIOUS
    <3>1. CopiesAll(c) /\ c # r
      BY <1>2, <2>1 DEF CopiesAll
    <3>2. mine[c] # END /\ OnlyOwn(c)
      BY <3>1 DEF FirstCopy
    <3>3. mine'[c] = mine[c] /\ names'[c] = names[c] /\ locallist'[c] = locallist[c]
      BY <1>0, <3>1 DEF Kept
    <3> QED
      BY <3>2, <3>3 DEF OnlyOwn
  <2>5. scratch' # "yes" =>
          /\ list' = {} /\ \A d \in Dir : ~Has(d)'
          /\ \A s \in Rank : First(s)' => lock'
          /\ \A s, t \in Rank : First(s)' /\ First(t)' => s = t
    BY <1>2, <2>1 DEF FirstCopy, Has, shared
  <2>6. scratch' = "no" => \A s \in Rank : OnlyOwn(s)'
    BY <1>0, <1>2 DEF FirstCopy, OnlyOwn, Kept, shared
  <2> QED
    BY <2>2, <2>3, <2>4, <2>5, <2>6 DEF FirstCopy
<1>3. CASE Setup(r)
  <2>1. pc[r] = "setup" /\ pc'[r] \in {"run", "done"} /\ UNCHANGED <<mine, shared, lock>>
    BY <1>3 DEF Setup, Reserve, Fails, Goto, At, TypesRight, PlacesOK
  <2>2. ASSUME scratch = "no" PROVE OnlyOwn(r)'
    <3>1. list = {} /\ {d \in Dir : runs[d] # NoOne} = {} /\ mine'[r] = END
      BY <2>1, <2>2 DEF FirstCopy, Has, Numbered
    <3>2. names'[r] = {} /\ locallist'[r] = {}
      BY <1>3, <2>2, <3>1 DEF Setup, Reserve, TypesRight
    <3> QED
      BY <3>1, <3>2 DEF OnlyOwn
  <2> QED
    BY <1>2, <2>1, <2>2
<1>4. CASE RunSpec(r)
  <2> DEFINE d == Min(Dir \ (names[r] \cup locallist[r]))
  <2>1. pc[r] = "run" /\ pc'[r] = "lock" /\ UNCHANGED <<shared, lock>>
    BY <1>4 DEF RunSpec, Goto, At, TypesRight, PlacesOK
  <2>2. d \in Dir /\ END \notin Dir
    BY <2>1, FreeNumber DEF END, Dir
  <2>3. \/ UNCHANGED <<mine, names, locallist>>
        \/ /\ mine'[r] = d /\ names'[r] = names[r] \cup {d}
           /\ locallist'[r] = locallist[r] \cup {d, END}
    BY <1>4 DEF RunSpec, TypesRight
  <2> HIDE DEF d
  <2>4. ASSUME scratch = "no" PROVE OnlyOwn(r)'
    <3>1. OnlyOwn(r) /\ mine[r] = END
      BY <2>1, <2>4 DEF FirstCopy, Numbered
    <3> QED
      BY <2>2, <2>3, <3>1 DEF OnlyOwn
  <2> QED
    BY <1>2, <2>1, <2>4
<1>5. CASE TakeLock(r)
  <2>1. pc[r] = "lock" /\ pc'[r] = "copy" /\ ~lock /\ lock' = TRUE /\ UNCHANGED <<local, shared>>
    BY <1>5 DEF TakeLock, Goto, At, TypesRight, PlacesOK
  <2>2. \A s \in Rank : CopiesAll(s)' <=> CopiesAll(s)
    BY <1>0, <2>1 DEF CopiesAll, Kept
  <2>3. ASSUME scratch # "yes" PROVE \A s \in Rank : First(s)' => s = r
    BY <1>0, <2>1, <2>3 DEF FirstCopy, First, Kept
  <2> QED
    BY <1>1, <2>1, <2>2, <2>3 DEF local, shared
<1>6. CASE CopyNew(r)
  <2>1. pc[r] = "copy" /\ pc'[r] \in {"exit", "cut list"} /\ scratch # "no"
        /\ UNCHANGED <<local, scratch>>
    BY <1>6 DEF CopyNew, Fails, Goto, At, TypesRight, PlacesOK
  <2>2. scratch = "yes"
    <3> SUFFICES ASSUME scratch = "partly" PROVE FALSE
      BY <2>1 DEF TypesRight
    <3>1. PICK c \in Rank : CopiesAll(c)
      BY DEF FirstCopy
    <3>2. c = r
      BY <2>1, <3>1 DEF FirstCopy, First, CopiesAll
    <3> QED
      BY <2>1, <3>1, <3>2 DEF CopiesAll
  <2>3. \A s \in Rank : CopiesAll(s)' <=> CopiesAll(s)
    BY <1>0, <2>1 DEF CopiesAll, Kept
  <2> QED
    BY <1>1, <2>1, <2>2, <2>3 DEF local
<1>7. CASE CopyAll(r)
  <2>1. pc[r] = "copy" /\ scratch = "no" /\ UNCHANGED <<local, runs, list, lock>>
    BY <1>7 DEF CopyAll, At
  <2>2. \A s \in Rank : ~CopiesAll(s)
    BY <2>1 DEF FirstCopy
  <2>3. CASE names[r] = {}
    <3>1. pc'[r] = "exit" /\ scratch' = scratch
      BY <1>7, <2>1, <2>3 DEF CopyAll, Fails, Goto, TypesRight, PlacesOK
    <3>2. \A s \in Rank : (CopiesAll(s)' <=> CopiesAll(s)) /\ (First(s)' <=> First(s))
      BY <1>0, <2>1, <3>1 DEF CopiesAll, First, Kept
    <3>3. /\ \A s \in Rank : First(s)' => lock'
          /\ \A s, t \in Rank : First(s)' /\ First(t)' => s = t
      BY <2>1, <3>2 DEF FirstCopy
    <3> QED
      BY <1>1, <2>1, <3>1, <3>2, <3>3 DEF local
  <2>4. CASE names[r] # {}
    <3>1. pc'[r] = "copy all" /\ scratch' = "partly"
      BY <1>7, <2>1, <2>4 DEF CopyAll, Goto, TypesRight, PlacesOK
    <3>2. \A s \in Rank : (CopiesAll(s)' <=> s = r) /\ (First(s)' <=> First(s))
      BY <1>0, <2>1, <2>2, <3>1 DEF CopiesAll, First, Kept
    <3>3. mine[r] # END /\ OnlyOwn(r)
      BY <2>1, <2>4 DEF FirstCopy, OnlyOwn
    <3>4. mine'[r] # END /\ OnlyOwn(r)'
      BY <2>1, <3>3 DEF local, OnlyOwn
    <3>5. \A s \in Rank : pc'[s] \notin {"cut list", "merge list", "unlock"}
      BY <1>0, <2>1, <3>1 DEF FirstCopy, Kept
    <3>6. /\ list' = {} /\ \A d \in Dir : ~Has(d)'
          /\ \A s \in Rank : First(s)' => lock'
          /\ \A s, t \in Rank : First(s)' /\ First(t)' => s = t
      BY <2>1, <3>2 DEF FirstCopy, Has
    <3> QED
      BY <3>1, <3>2, <3>4, <3>5, <3>6 DEF FirstCopy
  <2> QED
    BY <2>3, <2>4
<1>8. CASE CopiedAll(r)
  <2>1. pc[r] = "copy all" /\ pc'[r] = "unlock" /\ scratch' = "yes"
    BY <1>8 DEF CopiedAll, Goto, At, TypesRight, PlacesOK
  <2>2. scratch = "partly"
    BY <2>1 DEF FirstCopy, CopiesAll
  <2>3. \A s \in Rank : ~CopiesAll(s)'
    BY <1>0, <2>1, <2>2 DEF FirstCopy, First, CopiesAll, Kept
  <2> QED
    BY <2>1, <2>3 DEF FirstCopy
<1>9. CASE CutList(r) \/ MergeList(r) \/ Unlock(r)
  <2>1. /\ pc[r] \in {"cut list", "merge list", "unlock"} /\ pc'[r] \notin {"copy all"}
        /\ mine' = mine /\ scratch' = scratch
    BY <1>9 DEF CutList, MergeList, Unlock, Fails, Goto, At, local, shared, TypesRight, PlacesOK
  <2>2. scratch = "yes"
    BY <2>1 DEF FirstCopy
  <2>3. \A s \in Rank : ~CopiesAll(s)'
    BY <1>0, <2>1, <2>2 DEF FirstCopy, CopiesAll, Kept
  <2> QED
    BY <2>1, <2>2, <2>3 DEF FirstCopy
<1>10. CASE Exit(r)
  <2>1. pc[r] = "exit" /\ pc'[r] = "done" /\ UNCHANGED <<local, shared>>
    BY <1>10 DEF Exit, Goto, At, TypesRight, PlacesOK
  <2>2. \A s \in Rank : (CopiesAll(s)' <=> CopiesAll(s)) /\ (First(s)' => First(s) /\ s # r)
    BY <1>0, <2>1 DEF CopiesAll, First, Kept
  <2>3. ASSUME scratch # "yes" PROVE \A s \in Rank : ~First(s)'
    BY <2>1, <2>2, <2>3 DEF FirstCopy, First
  <2> QED
    BY <1>1, <2>1, <2>2, <2>3 DEF local, shared
<1> QED
  BY <1>3, <1>4, <1>5, <1>6, <1>7, <1>8, <1>9, <1>10 DEF Script

\* ... and from then on what is merged is a union, in whatever order the ranks merge.
LEMMA ScriptLists ==
  ASSUME TypesRight, Numbered, CopiesStay, FirstCopy, Listed, NEW r \in Rank, Script(r)
  PROVE  Listed'
<1>0. Kept(r)
  BY OthersStay DEF Kept, Moves
<1>a. END \notin Dir /\ r # NoOne
  BY NamesAssumption DEF END, Dir
<1>1. CASE Setup(r) \/ RunSpec(r) \/ TakeLock(r) \/ CopyAll(r) \/ Unlock(r) \/ Exit(r)
  <2>1. UNCHANGED <<runs, list>> /\ pc[r] \notin {"cut list", "merge list", "copy all"}
        /\ pc'[r] \notin {"cut list", "merge list"}
    BY <1>1
    DEF Setup, Reserve, RunSpec, TakeLock, CopyAll, Unlock, Exit, Fails, Goto, At, shared,
        TypesRight, PlacesOK
  <2>2. \A d \in Dir : (Has(d)' <=> Has(d)) /\ (Unmerged(d)' <=> Unmerged(d))
    BY <1>0, <2>1 DEF Has, Unmerged, Kept
  <2>3. \A d \in Dir : (\E c \in Rank : CopiesAll(c) /\ mine[c] = d)
                          => (\E c \in Rank : CopiesAll(c)' /\ mine'[c] = d)
    BY <1>0, <2>1 DEF CopiesAll, Kept
  <2>4. /\ \A d \in Dir : d \in locallist'[r] =>
              Has(d) \/ d = mine'[r] \/ \E c \in Rank : CopiesAll(c) /\ mine[c] = d
        /\ pc'[r] \notin {"exit", "done"} /\ mine'[r] # END => mine'[r] \in locallist'[r]
    <3>1. CASE Setup(r)
      <4>1. mine'[r] = END
        BY <3>1 DEF Setup, At, Numbered
      <4>2. CASE locallist'[r] = list
        BY <4>1, <4>2 DEF Listed
      <4>3. CASE \E c \in Rank : CopiesAll(c) /\ locallist'[r] = locallist[c]
        <5>1. PICK c \in Rank : CopiesAll(c) /\ locallist'[r] = locallist[c]
          BY <4>3
        <5>2. locallist[c] = {mine[c], END}
          BY <5>1 DEF FirstCopy, OnlyOwn
        <5> QED
          BY <1>a, <4>1, <5>1, <5>2
      <4>4. CASE locallist' = locallist
        <5>1. mine' = mine
          BY <3>1 DEF Setup
        <5> QED
          BY <4>1, <4>4, <5>1 DEF Listed
      <4> QED
        BY <3>1, <4>2, <4>3, <4>4 DEF Setup, Reserve, CopiesAll, At, TypesRight
    <3>2. CASE RunSpec(r)
      <4> DEFINE d == Min(Dir \ (names[r] \cup locallist[r]))
      <4>1. \/ UNCHANGED <<mine, locallist>>
            \/ mine'[r] = d /\ locallist'[r] = locallist[r] \cup {d, END}
        BY <3>2 DEF RunSpec, TypesRight
      <4> HIDE DEF d
      <4>2. mine[r] = END /\ pc[r] = "run"
        BY <3>2 DEF RunSpec, At, Numbered
      <4> QED
        BY <1>a, <4>1, <4>2 DEF Listed
    <3>3. CASE TakeLock(r) \/ CopyAll(r) \/ Unlock(r) \/ Exit(r)
      <4>1. mine' = mine /\ locallist'[r] \subseteq locallist[r]
            /\ (pc'[r] \notin {"exit", "done"}
                  => locallist' = locallist /\ pc[r] \notin {"exit", "done"})
        BY <3>3 DEF TakeLock, CopyAll, Unlock, Exit, Fails, Goto, At, local, TypesRight, PlacesOK
      <4> QED
        BY <4>1 DEF Listed, TypesRight
    <3> QED
      BY <1>1, <3>1, <3>2, <3>3
  <2>5. \A d \in Dir : Has(d)' <=> d \in list' \/ Unmerged(d)'
    BY <2>1, <2>2 DEF Listed
  <2>6. \A s \in Rank : \A d \in Dir : d \in locallist'[s] =>
          Has(d)' \/ d = mine'[s] \/ \E c \in Rank : CopiesAll(c)' /\ mine'[c] = d
    BY <1>0, <2>2, <2>3, <2>4 DEF Listed, Kept
  <2>7. \A s \in Rank : pc'[s] \notin {"exit", "done"} /\ mine'[s] # END => mine'[s] \in locallist'[s]
    BY <1>0, <2>4 DEF Listed, Kept
  <2> QED
    BY <2>5, <2>6, <2>7 DEF Listed
<1>2. CASE CopyNew(r)
  <2>1. pc[r] = "copy" /\ UNCHANGED <<local, list>>
    BY <1>2 DEF CopyNew, At
  <2>2. \/ pc'[r] = "exit" /\ runs' = runs
        \/ pc'[r] = "cut list" /\ runs' = [d \in Dir |-> IF d = mine[r] THEN r ELSE runs[d]]
    BY <1>2 DEF CopyNew, Fails, Goto, At, TypesRight, PlacesOK
  <2>3. \A d \in Dir : Has(d) => Has(d)'
    BY <1>2, RunsStay DEF Moves
  <2>4. \A d \in Dir : Has(d)' <=> d \in list' \/ Unmerged(d)'
    <3>1. CASE pc'[r] = "exit" /\ runs' = runs
      <4>1. \A d \in Dir : (Has(d)' <=> Has(d)) /\ (Unmerged(d)' <=> Unmerged(d))
        BY <1>0, <2>1, <3>1 DEF Has, Unmerged, Kept, local
      <4> QED
        BY <2>1, <4>1 DEF Listed
    <3>2. CASE pc'[r] = "cut list" /\ runs' = [d \in Dir |-> IF d = mine[r] THEN r ELSE runs[d]]
      <4>1. \A d \in Dir : /\ Has(d)' <=> Has(d) \/ mine[r] = d
                           /\ Unmerged(d)' <=> Unmerged(d) \/ mine[r] = d
        BY <1>0, <1>a, <2>1, <3>2 DEF Has, Unmerged, Kept, local
      <4> QED
        BY <2>1, <4>1 DEF Listed
    <3> QED
      BY <2>2, <3>1, <3>2
  <2>5. \A c \in Rank : CopiesAll(c) => CopiesAll(c)'
    BY <1>0, <2>1 DEF CopiesAll, Kept
  <2>6. \A s \in Rank : pc'[s] \notin {"exit", "done"} => pc[s] \notin {"exit", "done"}
    BY <1>0, <2>1 DEF Kept
  <2> QED
    BY <2>1, <2>3, <2>4, <2>5, <2>6 DEF Listed, local
<1>3. CASE CopiedAll(r)
  <2>1. /\ pc[r] = "copy all" /\ pc'[r] = "unlock" /\ UNCHANGED local
        /\ runs' = [runs EXCEPT ![mine[r]] = r] /\ list' = locallist[r]
    BY <1>3 DEF CopiedAll, Goto, At, TypesRight, PlacesOK
  <2>2. scratch = "partly" /\ mine[r] \in Dir /\ locallist[r] = {mine[r], END}
    BY <2>1 DEF FirstCopy, CopiesAll, OnlyOwn, TypesRight
  <2>3. /\ \A d \in Dir : ~Has(d)
        /\ \A c \in Rank : CopiesAll(c) => c = r
        /\ \A s \in Rank : pc[s] \notin {"cut list", "merge list"}
    BY <2>1, <2>2 DEF FirstCopy, CopiesAll, First
  <2>4. \A d \in Dir : (Has(d)' <=> d = mine[r]) /\ ~Unmerged(d)'
    BY <1>0, <1>a, <2>1, <2>2, <2>3 DEF Has, Unmerged, Kept, TypesRight
  <2>5. \A d \in Dir : d \in list' <=> d = mine[r]
    BY <1>a, <2>1, <2>2
  <2>6. \A s \in Rank : \A d \in Dir : d \in locallist'[s] => Has(d)' \/ d = mine'[s]
    BY <2>1, <2>3, <2>4 DEF Listed, local
  <2>7. \A s \in Rank : pc'[s] \notin {"exit", "done"} => pc[s] \notin {"exit", "done"}
    BY <1>0, <2>1 DEF Kept
  <2> QED
    BY <2>1, <2>4, <2>5, <2>6, <2>7 DEF Listed, local
<1>4. CASE CutList(r) \/ MergeList(r)
  <2>1. /\ pc[r] \in {"cut list", "merge list"} /\ UNCHANGED <<local, runs>>
        /\ scratch = "yes"
    BY <1>4 DEF CutList, MergeList, At, FirstCopy
  <2>2. \A d \in Dir : Has(d)' <=> Has(d)
    BY <2>1 DEF Has
  <2>3. \A d \in Dir : Has(d)' <=> d \in list' \/ Unmerged(d)'
    <3>1. CASE CutList(r)
      <4>1. pc[r] = "cut list" /\ pc'[r] = "merge list" /\ list' = list \ {END}
        BY <2>1, <3>1 DEF CutList, Goto, At, TypesRight, PlacesOK
      <4>2. \A d \in Dir : Unmerged(d)' <=> Unmerged(d)
        BY <1>0, <2>1, <4>1 DEF Unmerged, Kept, local
      <4> QED
        BY <1>a, <2>2, <4>1, <4>2 DEF Listed
    <3>2. CASE MergeList(r)
      <4>1. pc[r] = "merge list" /\ pc'[r] = "unlock" /\ list' = list \cup locallist[r]
        BY <3>2 DEF MergeList, Goto, At, TypesRight, PlacesOK
      <4>2. \A d \in Dir : Unmerged(d) <=> Unmerged(d)' \/ d = mine[r]
        BY <1>0, <2>1, <4>1 DEF Unmerged, Kept, local
      <4>3. \A d \in Dir : d \in locallist[r] => Has(d) \/ d = mine[r]
        BY <2>1 DEF Listed, FirstCopy
      <4>4. \A d \in Dir : d = mine[r] => d \in locallist[r]
        BY <1>a, <4>1 DEF Listed
      <4> QED
        BY <2>2, <4>1, <4>2, <4>3, <4>4 DEF Listed
    <3> QED
      BY <1>4, <3>1, <3>2
  <2>4. \A s \in Rank : \A d \in Dir : d \in locallist'[s] => Has(d)' \/ d = mine'[s]
    BY <2>1, <2>2 DEF Listed, local, FirstCopy
  <2>5. \A s \in Rank : pc'[s] \notin {"exit", "done"} => pc[s] \notin {"exit", "done"}
    BY <1>0, <2>1 DEF Kept
  <2> QED
    BY <2>1, <2>3, <2>4, <2>5 DEF Listed, local
<1> QED
  BY <1>1, <1>2, <1>3, <1>4 DEF Script

\* The steps -----------------------------------------------------------------------------

\* Every step keeps it; when the time is over, or a command has failed for what is outside
\* of the script, nothing is promised of the list.
LEMMA StepLists == LInv /\ [Next]_specRunVars => LInv'
<1> SUFFICES ASSUME LInv, [Next]_specRunVars PROVE LInv'
  OBVIOUS
<1>1. CASE UNCHANGED specRunVars
  <2>1. UNCHANGED <<pc, names, locallist, mine, status, scratch, runs, list, lock, over, faults>>
    BY <1>1 DEF specRunVars, local, shared
  <2>2. TypesRight' /\ Numbered' /\ Owned'
    BY <2>1 DEF LInv, TypesRight, PlacesOK, Numbered, Number, Has, Owned
  <2>3. CopiesStay'
    BY <2>1 DEF LInv, CopiesStay, Copied
  <2>4. FirstCopy => FirstCopy'
    BY <2>1 DEF FirstCopy, CopiesAll, First, OnlyOwn, Has
  <2>5. ASSUME Listed PROVE Listed'
    <3>1. \A d \in Dir : (Has(d)' <=> Has(d)) /\ (Unmerged(d)' <=> Unmerged(d))
      BY <2>1 DEF Has, Unmerged
    <3>2. \A c \in Rank : CopiesAll(c)' <=> CopiesAll(c)
      BY <2>1 DEF CopiesAll
    <3> QED
      BY <2>1, <2>5, <3>1, <3>2 DEF Listed
  <2> QED
    BY <2>1, <2>2, <2>3, <2>4, <2>5 DEF LInv
<1>2. CASE TimeOver
  <2>1. UNCHANGED <<names, locallist, mine, scratch, runs, list, lock, faults>> /\ over'
        /\ pc' = [r \in Rank |-> "done"]
        /\ status' = [r \in Rank |-> IF pc[r] = "done" THEN status[r] ELSE "failed"]
    BY <1>2 DEF TimeOver, local, shared
  <2>2. TypesRight'
    BY <2>1 DEF LInv, TypesRight, PlacesOK, Places
  <2>3. Numbered' /\ Owned'
    BY <2>1 DEF LInv, Numbered, Number, Has, Owned
  <2>4. \A r \in Rank : pc'[r] = "done" /\ (status'[r] = "ok" => status[r] = "ok")
    BY <2>1
  <2>5. CopiesStay'
    BY <2>1, <2>4 DEF LInv, CopiesStay, Copied
  <2> QED
    BY <2>1, <2>2, <2>3, <2>5 DEF LInv
<1>3. ASSUME NEW r \in Rank, Moves(r)
      PROVE  over' = over /\ TypesRight' /\ Numbered' /\ Owned' /\ CopiesStay'
  BY <1>3, RankMoves, RankTypes, RankNumbers, RankOwns, RankCopies DEF LInv, TypesRight
<1>4. ASSUME NEW r \in Rank, Script(r) PROVE LInv'
  <2>1. Moves(r)
    BY <1>4 DEF Moves
  <2>2. FirstCopy /\ Listed => FirstCopy' /\ Listed'
    BY <1>4, ScriptFirst, ScriptLists DEF LInv
  <2>3. faults' = faults
    BY <1>4, ScriptFaults
  <2> QED
    BY <1>3, <2>1, <2>2, <2>3 DEF LInv
<1>5. ASSUME NEW r \in Rank, CommandFails(r) PROVE LInv'
  <2>1. Moves(r)
    BY <1>5 DEF Moves
  <2>2. faults' # 0
    BY <1>5, FailureCounts DEF LInv, TypesRight
  <2> QED
    BY <1>3, <2>1, <2>2 DEF LInv
<1> QED
  BY <1>1, <1>2, <1>4, <1>5 DEF Next

\* Whatever the number of nodes, and although more than two of them do not exclude each
\* other (an exit trap removes the lock of another), and whichever commands fail, nothing
\* that was run is lost; and the shared list of a job that was not killed, and in which no
\* command failed for what is outside of the script, names the shared run directories
\* (RunsListed).
THEOREM NothingRunIsLost == Spec => []RunsListed
<1>1. LInv => RunsListed
  <2> SUFFICES ASSUME LInv PROVE RunsListed
    OBVIOUS
  <2>1. \A r \in Rank : status[r] = "ok" /\ mine[r] # END => runs[mine[r]] # NoOne
    BY NamesAssumption DEF LInv, CopiesStay, Copied
  <2>2. ASSUME AllDone, ~over, faults = 0 PROVE list \ {END} = {d \in Dir : runs[d] # NoOne}
    <3>1. \A d \in Dir : ~Unmerged(d)
      BY <2>2 DEF AllDone, Unmerged
    <3>2. \A d \in Dir : Has(d) <=> d \in list
      BY <2>2, <3>1 DEF LInv, Listed
    <3>3. list \subseteq Dir \cup {END} /\ END \notin Dir
      BY DEF LInv, TypesRight, END, Dir
    <3> QED
      BY <3>2, <3>3 DEF Has
  <2> QED
    BY <2>1, <2>2 DEF RunsListed
<1> QED
  BY <1>1, InitLists, StepLists, PTL DEF Spec

\* Who has ended ---------------------------------------------------------------------------

\* The places between runspec and the end of the merge.
Merging == {"lock", "copy", "copy all", "cut list", "merge list", "unlock"}

\* Until it has merged, a rank has on its disk what it ran; and afterwards, even when a
\* command failed for what the script has brought about, that is shared.
OwnKept ==
  /\ \A r \in Rank : pc[r] \in Merging /\ mine[r] # END => mine[r] \in names[r]
  /\ ~over /\ faults = 0 =>
       \A r \in Rank : pc[r] \in {"exit", "done"} /\ mine[r] # END => Has(mine[r])

\* Commands fail only where nothing was run or where it is shared already.
LEMMA ScriptKeepsOwn ==
  ASSUME LInv, OwnKept, NEW r \in Rank, Script(r)
  PROVE  OwnKept'
<1>1. TypesRight /\ Numbered /\ CopiesStay /\ Moves(r)
  BY DEF LInv, Moves
<1>2. \A s \in Rank : s # r =>
        pc'[s] = pc[s] /\ mine'[s] = mine[s] /\ names'[s] = names[s]
  BY <1>1, OthersStay
<1>3. over' = over /\ faults' = faults
  BY <1>1, RankMoves, ScriptFaults DEF TypesRight
<1>4. \A d \in Dir : Has(d) => Has(d)'
  BY <1>1, RunsStay
<1>5. ASSUME mine' = mine,
             pc'[r] \in Merging => pc[r] \in Merging /\ names'[r] = names[r],
             pc'[r] \in {"exit", "done"} /\ mine[r] # END /\ ~over /\ faults = 0 => Has(mine[r])
      PROVE  OwnKept'
  <2>1. \A s \in Rank : mine[s] # END => mine[s] \in Dir
    BY <1>1 DEF TypesRight
  <2> QED
    BY <1>2, <1>3, <1>4, <1>5, <2>1 DEF OwnKept
<1>6. CASE Setup(r)
  <2>1. pc[r] = "setup" /\ pc'[r] \in {"run", "done"} /\ mine' = mine
    BY <1>1, <1>6 DEF Setup, Reserve, Fails, Goto, At, TypesRight, PlacesOK
  <2> QED
    BY <1>1, <1>5, <2>1 DEF Numbered, Merging
<1>7. CASE RunSpec(r)
  <2> DEFINE d == Min(Dir \ (names[r] \cup locallist[r]))
  <2>1. pc[r] = "run" /\ pc'[r] = "lock"
    BY <1>1, <1>7 DEF RunSpec, Goto, At, TypesRight, PlacesOK
  <2>2. mine[r] = END
    BY <1>1, <2>1 DEF Numbered
  <2>3. \/ mine'[r] = mine[r]
        \/ mine'[r] = d /\ names'[r] = names[r] \cup {d}
    BY <1>1, <1>7 DEF RunSpec, TypesRight
  <2> HIDE DEF d
  <2>4. mine'[r] # END => mine'[r] \in names'[r]
    BY <2>2, <2>3
  <2>5. \A s \in Rank : mine[s] # END => mine[s] \in Dir
    BY <1>1 DEF TypesRight
  <2>6. \A s \in Rank : pc'[s] \in Merging /\ mine'[s] # END => mine'[s] \in names'[s]
    BY <1>2, <2>4 DEF OwnKept
  <2>7. ASSUME ~over, faults = 0, NEW s \in Rank, pc'[s] \in {"exit", "done"}, mine'[s] # END
        PROVE  Has(mine[s])'
    <3>1. s # r
      BY <2>1, <2>7
    <3>2. Has(mine[s])
      BY <1>2, <2>7, <3>1 DEF OwnKept
    <3>3. mine'[s] = mine[s] /\ mine[s] \in Dir
      BY <1>2, <2>5, <2>7, <3>1
    <3> QED
      BY <1>4, <3>2, <3>3
  <2> QED
    BY <1>3, <2>6, <2>7 DEF OwnKept
<1>8. CASE TakeLock(r) \/ CopiedAll(r) \/ MergeList(r)
  <2>1. /\ mine' = mine /\ names' = names /\ pc[r] \in Merging
        /\ pc'[r] \notin {"exit", "done"}
    BY <1>1, <1>8 DEF TakeLock, CopiedAll, MergeList, Goto, At, local, Merging, TypesRight, PlacesOK
  <2> QED
    BY <1>5, <2>1
<1>9. CASE CopyNew(r) \/ CopyAll(r)
  <2>1. /\ mine' = mine /\ names' = names /\ pc[r] = "copy"
        /\ pc'[r] \in {"exit", "done"} => names[r] = {}
    BY <1>1, <1>9 DEF CopyNew, CopyAll, Fails, Goto, At, local, TypesRight, PlacesOK
  <2>2. names[r] = {} => mine[r] = END
    BY <2>1 DEF OwnKept, Merging
  <2> QED
    BY <1>5, <2>1, <2>2 DEF Merging
<1>10. CASE CutList(r) \/ Unlock(r)
  <2>1. /\ mine' = mine /\ pc[r] \in {"cut list", "unlock"}
        /\ pc'[r] \in Merging => names' = names
    BY <1>1, <1>10 DEF CutList, Unlock, Fails, Goto, At, local, Merging, TypesRight, PlacesOK
  <2>2. mine[r] # END => Has(mine[r])
    BY <1>1, <2>1, NamesAssumption DEF CopiesStay, Copied, Has
  <2> QED
    BY <1>5, <2>1, <2>2 DEF Merging
<1>11. CASE Exit(r)
  <2>1. mine' = mine /\ pc[r] = "exit" /\ pc'[r] = "done"
    BY <1>1, <1>11 DEF Exit, Goto, At, local, TypesRight, PlacesOK
  <2> QED
    BY <1>5, <2>1 DEF OwnKept, Merging
<1> QED
  BY <1>6, <1>7, <1>8, <1>9, <1>10, <1>11 DEF Script

LEMMA StepKeepsOwn == LInv /\ OwnKept /\ [Next]_specRunVars => OwnKept'
<1> SUFFICES ASSUME LInv, OwnKept, [Next]_specRunVars PROVE OwnKept'
  OBVIOUS
<1>1. CASE UNCHANGED specRunVars
  BY <1>1 DEF OwnKept, specRunVars, local, shared, Has
<1>2. CASE TimeOver
  <2>1. over' /\ UNCHANGED local /\ \A r \in Rank : pc'[r] \notin Merging
    BY <1>2 DEF TimeOver, Merging
  <2> QED
    BY <2>1 DEF OwnKept
<1>3. ASSUME NEW r \in Rank, CommandFails(r) PROVE OwnKept'
  <2>1. faults' # 0
    BY <1>3, FailureCounts DEF LInv, TypesRight
  <2>2. UNCHANGED <<mine, names>>
    BY <1>3 DEF CommandFails, local
  <2>3. \A s \in Rank : pc'[s] \in Merging => pc[s] \in Merging
    BY <1>3 DEF CommandFails, Fails, Goto, At, Merging, LInv, TypesRight, PlacesOK
  <2> QED
    BY <2>1, <2>2, <2>3 DEF OwnKept
<1> QED
  BY <1>1, <1>2, <1>3, ScriptKeepsOwn DEF Next

\* Reading a log -----------------------------------------------------------------------------

\* The greatest of a set of numbers.
LEMMA MaxIs ==
  ASSUME NEW n \in Nat, NEW s \in SUBSET (1 .. n), n \in s
  PROVE  Max(s) = n
<1>1. n \in s /\ \A y \in s : n >= y
  OBVIOUS
<1>2. \A x \in s : (\A y \in s : x >= y) => x = n
  OBVIOUS
<1> QED
  BY <1>1, <1>2, Zenon DEF Max

\* Induction, for a set that is given.
LEMMA Induction ==
  ASSUME NEW T, 0 \in T, \A n \in Nat : n \in T => n + 1 \in T
  PROVE  Nat \subseteq T
<1> DEFINE R == {p \in Nat \X Nat : p[1] < p[2]}
<1> SUFFICES ASSUME Nat \ T # {} PROVE FALSE
  OBVIOUS
<1>1. IsWellFoundedOn(R, Nat)
  BY NatLessThanWellFounded DEF OpToRel
<1> HIDE DEF R
<1>2. PICK m \in Nat \ T : \A y \in Nat \ T : ~(<<y, m>> \in R)
  BY <1>1, WFMin
<1>3. \A y \in Nat \ T : ~(y < m)
  BY <1>2 DEF R
<1>4. m - 1 \in Nat /\ m - 1 \in T /\ m = (m - 1) + 1
  BY <1>3
<1> QED
  BY <1>4

\* What has been read of an empty log.
Unread == [open |-> FALSE, value |-> <<>>, yields |-> <<>>, none |-> FALSE]

\* it has what is read in the parts of w.
Reads(it, w, n) ==
  \A s \in SUBSET (1 .. n) :
    it[s] = IF s = {} THEN Unread ELSE ParseLine(it[s \ {Max(s)}], w[Max(s)])

LEMMA ReadsExist ==
  ASSUME NEW w, NEW n \in Nat
  PROVE  \E it : Reads(it, w, n)
<1> DEFINE T == {k \in Nat : \E it : Reads(it, w, k)}
<1>1. 0 \in T
  <2> DEFINE it == [s \in SUBSET (1 .. 0) |-> Unread]
  <2>1. \A s \in SUBSET (1 .. 0) : s = {}
    OBVIOUS
  <2>2. Reads(it, w, 0)
    BY <2>1 DEF Reads
  <2> QED
    BY <2>2
<1>2. ASSUME NEW k \in Nat, k \in T PROVE k + 1 \in T
  <2>1. PICK f : Reads(f, w, k)
    BY <1>2
  <2> DEFINE it == [s \in SUBSET (1 .. (k + 1)) |->
                     IF k + 1 \in s THEN ParseLine(f[s \ {k + 1}], w[k + 1]) ELSE f[s]]
  <2>2. ASSUME NEW s \in SUBSET (1 .. (k + 1))
        PROVE  it[s] = IF s = {} THEN Unread ELSE ParseLine(it[s \ {Max(s)}], w[Max(s)])
    <3>1. CASE k + 1 \in s
      <4>1. Max(s) = k + 1
        BY <3>1, MaxIs
      <4>2. s \ {k + 1} \in SUBSET (1 .. (k + 1)) /\ k + 1 \notin s \ {k + 1} /\ s # {}
        BY <3>1
      <4>3. it[s \ {k + 1}] = f[s \ {k + 1}]
        BY <4>2
      <4> QED
        BY <3>1, <4>1, <4>2, <4>3
    <3>2. CASE k + 1 \notin s
      <4>1. s \in SUBSET (1 .. k)
        BY <3>2
      <4>2. s \ {Max(s)} \in SUBSET (1 .. (k + 1)) /\ k + 1 \notin s \ {Max(s)}
        BY <3>2
      <4>3. it[s] = f[s] /\ it[s \ {Max(s)}] = f[s \ {Max(s)}]
        BY <3>2, <4>2
      <4> QED
        BY <2>1, <4>1, <4>3 DEF Reads
    <3> QED
      BY <3>1, <3>2
  <2> HIDE DEF it
  <2>3. Reads(it, w, k + 1)
    BY <2>2 DEF Reads
  <2> QED
    BY <2>3
<1> HIDE DEF T
<1>3. n \in T
  BY <1>1, <1>2, Induction
<1> QED
  BY <1>3 DEF T

\* h has what is read of the beginnings of w.
ReadOn(h, w) ==
  /\ h[0] = Unread
  /\ \A i \in 1 .. Len(w) : h[i] = ParseLine(h[i - 1], w[i])

\* A log is read line by line.
LEMMA ReadIs ==
  ASSUME NEW S, NEW w \in Seq(S)
  PROVE  \E h : ReadOn(h, w) /\ h[Len(w)] = parse_results(w)
<1>1. Len(w) \in Nat /\ DOMAIN w = 1 .. Len(w)
  BY LenProperties
<1> DEFINE Q(it) == it = [s \in SUBSET (1 .. Len(w)) |->
                        IF s = {} THEN Unread ELSE ParseLine(it[s \ {Max(s)}], w[Max(s)])]
           c == CHOOSE it : Q(it)
<1>2. \E it : Q(it)
  <2>1. PICK f : Reads(f, w, Len(w))
    BY <1>1, ReadsExist
  <2> DEFINE it == [s \in SUBSET (1 .. Len(w)) |-> f[s]]
  <2>2. it = [s \in SUBSET (1 .. Len(w)) |->
               IF s = {} THEN Unread ELSE ParseLine(it[s \ {Max(s)}], w[Max(s)])]
    <3>1. \A s \in SUBSET (1 .. Len(w)) : it[s] = f[s] /\ it[s \ {Max(s)}] = f[s \ {Max(s)}]
      OBVIOUS
    <3> QED
      BY <2>1, <3>1 DEF Reads
  <2> HIDE DEF it
  <2> QED
    BY <2>2
<1>3. Q(c)
  BY <1>2
<1>4. parse_results(w) = c[1 .. Len(w)]
  BY <1>1 DEF parse_results, FoldLeft, MapThenFoldSet, Unread
<1> HIDE DEF c
<1>5. \A s \in SUBSET (1 .. Len(w)) :
        c[s] = IF s = {} THEN Unread ELSE ParseLine(c[s \ {Max(s)}], w[Max(s)])
  BY <1>3
<1> DEFINE h == [i \in 0 .. Len(w) |-> c[1 .. i]]
<1>6. h[0] = Unread
  <2>1. 1 .. 0 = {} /\ 0 \in 0 .. Len(w)
    BY <1>1
  <2> QED
    BY <1>5, <2>1
<1>7. ASSUME NEW i \in 1 .. Len(w) PROVE h[i] = ParseLine(h[i - 1], w[i])
  <2>1. i \in Nat /\ i \in 1 .. i /\ 1 .. i \in SUBSET (1 .. Len(w)) /\ (1 .. i) \ {i} = 1 .. (i - 1)
    BY <1>1
  <2>2. Max(1 .. i) = i
    BY <2>1, MaxIs
  <2>3. c[1 .. i] = ParseLine(c[1 .. (i - 1)], w[i])
    BY <1>5, <2>1, <2>2
  <2>4. i \in 0 .. Len(w) /\ i - 1 \in 0 .. Len(w)
    BY <1>1
  <2> QED
    BY <2>3, <2>4
<1>8. h[Len(w)] = parse_results(w)
  BY <1>1, <1>4
<1> HIDE DEF h
<1> QED
  BY <1>6, <1>7, <1>8 DEF ReadOn

\* A line more is read after the others.
LEMMA ReadMore ==
  ASSUME NEW S, NEW w \in Seq(S), NEW t \in S
  PROVE  parse_results(Append(w, t)) = ParseLine(parse_results(w), t)
<1> DEFINE u == Append(w, t)
           n == Len(w)
<1>1. /\ u \in Seq(S) /\ n \in Nat /\ Len(u) = n + 1 /\ u[n + 1] = t
      /\ \A i \in 1 .. n : u[i] = w[i]
  BY LenProperties, AppendProperties
<1> HIDE DEF u
<1>2. PICK h : ReadOn(h, w) /\ h[n] = parse_results(w)
  BY ReadIs
<1>3. PICK g : ReadOn(g, u) /\ g[n + 1] = parse_results(u)
  BY <1>1, ReadIs
<1> HIDE DEF n
<1> DEFINE T == {k \in Nat : k <= n => g[k] = h[k]}
<1>4. 0 \in T
  BY <1>2, <1>3 DEF ReadOn
<1>5. ASSUME NEW k \in Nat, k \in T PROVE k + 1 \in T
  <2> SUFFICES ASSUME k + 1 <= n PROVE g[k + 1] = h[k + 1]
    BY <1>5
  <2>1. k + 1 \in 1 .. n /\ k + 1 \in 1 .. n + 1 /\ (k + 1) - 1 = k
    BY <1>1
  <2>2. g[k] = h[k]
    BY <1>1, <1>5
  <2>3. g[k + 1] = ParseLine(g[k], u[k + 1])
    BY <1>1, <1>3, <2>1 DEF ReadOn
  <2>4. h[k + 1] = ParseLine(h[k], w[k + 1])
    BY <1>2, <2>1 DEF ReadOn, n
  <2> QED
    BY <1>1, <2>1, <2>2, <2>3, <2>4
<1> HIDE DEF T
<1>6. n \in T
  BY <1>1, <1>4, <1>5, Induction
<1>7. g[n] = h[n]
  BY <1>1, <1>6 DEF T
<1>8. g[n + 1] = ParseLine(g[n], u[n + 1])
  <2>1. n + 1 \in 1 .. Len(u) /\ (n + 1) - 1 = n
    BY <1>1
  <2> QED
    BY <1>3, <2>1 DEF ReadOn
<1> QED
  BY <1>1, <1>2, <1>3, <1>7, <1>8 DEF u

\* What a log consists of, and what is read of it.
Value == {"timeout", "error", Earlier} \cup Rank
Token == Marks \cup Value
ReadState == [open : BOOLEAN, value : Seq(Value), yields : Seq(Value), none : BOOLEAN]

LEMMA ValuesAreNoMarks == \A v \in Value : v \notin Marks
BY TokensAssumption DEF Value, Marks, Earlier

\* What is read of a log is a sequence of results.
LEMMA ReadType ==
  ASSUME NEW w \in Seq(Token)
  PROVE  parse_results(w) \in ReadState
<1>1. Len(w) \in Nat /\ \A i \in 1 .. Len(w) : w[i] \in Token
  BY LenProperties
<1>2. PICK h : ReadOn(h, w) /\ h[Len(w)] = parse_results(w)
  BY ReadIs
<1>3. ASSUME NEW s \in ReadState, NEW t \in Token PROVE ParseLine(s, t) \in ReadState
  <2>0. s.yields \o s.value \in Seq(Value) /\ <<>> \in Seq(Value)
    BY ConcatProperties DEF ReadState
  <2>1. CASE t = "begin"
    <3>1. ParseLine(s, t) = [s EXCEPT !.open = TRUE, !.value = <<>>]
      BY <2>1 DEF ParseLine, Marks
    <3> QED
      BY <2>0, <3>1 DEF ReadState
  <2>2. CASE t = "end"
    <3>1. ParseLine(s, t) = [open |-> FALSE, value |-> <<>>, yields |-> s.yields \o s.value,
                             none |-> s.none \/ ~s.open]
      BY <2>2 DEF ParseLine, Marks
    <3>2. (s.none \/ ~s.open) \in BOOLEAN
      BY DEF ReadState
    <3> QED
      BY <2>0, <3>1, <3>2 DEF ReadState
  <2>3. CASE t \notin Marks /\ s.open
    <3>1. ParseLine(s, t) = [s EXCEPT !.value = <<t>>]
      BY <2>3 DEF ParseLine, Marks
    <3>2. <<t>> \in Seq(Value)
      BY <2>3 DEF Token
    <3> QED
      BY <3>1, <3>2 DEF ReadState
  <2>4. CASE t # "begin" /\ t # "end" /\ ~(t \notin Marks /\ s.open)
    BY <2>4 DEF ParseLine
  <2> QED
    BY <2>1, <2>2, <2>3, <2>4
<1> DEFINE T == {k \in Nat : k <= Len(w) => h[k] \in ReadState}
<1>4. 0 \in T
  <2>1. <<>> \in Seq(Value)
    OBVIOUS
  <2>2. Unread \in ReadState
    BY <2>1 DEF Unread, ReadState
  <2> QED
    BY <1>2, <2>2 DEF ReadOn
<1>5. ASSUME NEW k \in Nat, k \in T PROVE k + 1 \in T
  <2> SUFFICES ASSUME k + 1 <= Len(w) PROVE h[k + 1] \in ReadState
    BY <1>5
  <2>1. k + 1 \in 1 .. Len(w) /\ (k + 1) - 1 = k /\ k <= Len(w)
    BY <1>1
  <2>2. h[k + 1] = ParseLine(h[k], w[k + 1])
    BY <1>2, <2>1 DEF ReadOn
  <2> QED
    BY <1>1, <1>3, <1>5, <2>1, <2>2
<1> HIDE DEF T
<1>6. Len(w) \in T
  BY <1>1, <1>4, <1>5, Induction
<1> QED
  BY <1>1, <1>2, <1>6 DEF T

\* A log without results has none.
LEMMA NothingRead ==
  ASSUME NEW w \in Seq({"log", "text"})
  PROVE  parse_results(w) = Unread
<1>1. Len(w) \in Nat /\ \A i \in 1 .. Len(w) : w[i] \in {"log", "text"}
  BY LenProperties
<1>2. PICK h : ReadOn(h, w) /\ h[Len(w)] = parse_results(w)
  BY ReadIs
<1> DEFINE T == {k \in Nat : k <= Len(w) => h[k] = Unread}
<1>3. 0 \in T
  BY <1>2 DEF ReadOn
<1>4. ASSUME NEW k \in Nat, k \in T PROVE k + 1 \in T
  <2> SUFFICES ASSUME k + 1 <= Len(w) PROVE h[k + 1] = Unread
    BY <1>4
  <2>1. k + 1 \in 1 .. Len(w) /\ (k + 1) - 1 = k /\ k <= Len(w)
    BY <1>1
  <2>2. h[k + 1] = ParseLine(Unread, w[k + 1]) /\ w[k + 1] \in {"log", "text"}
    BY <1>1, <1>2, <1>4, <2>1 DEF ReadOn
  <2> QED
    BY <2>2 DEF ParseLine, Marks
<1> HIDE DEF T
<1>5. Len(w) \in T
  BY <1>1, <1>3, <1>4, Induction
<1> QED
  BY <1>1, <1>2, <1>5 DEF T

\* The beginnings of a list of three.
LEMMA ThreeElements ==
  ASSUME NEW a, NEW b, NEW c
  PROVE  LET L == <<a>> \o <<b>> \o <<c>> IN
         /\ SubSeq(L, 1, 0) = <<>> /\ SubSeq(L, 1, 1) = <<a>>
         /\ SubSeq(L, 1, 2) = <<a, b>> /\ SubSeq(L, 1, 3) = <<a, b, c>>
<1> DEFINE S == {a, b, c}
           L == <<a>> \o <<b>> \o <<c>>
<1>1. /\ <<a>> \in Seq(S) /\ <<b>> \in Seq(S) /\ <<c>> \in Seq(S)
      /\ <<a, b>> \in Seq(S) /\ <<a, b, c>> \in Seq(S)
  OBVIOUS
<1>2. /\ Len(<<a>>) = 1 /\ Len(<<b>>) = 1 /\ Len(<<c>>) = 1 /\ Len(<<a, b>>) = 2 /\ Len(<<a, b, c>>) = 3
      /\ <<a>>[1] = a /\ <<b>>[1] = b /\ <<c>>[1] = c /\ <<a, b>>[1] = a /\ <<a, b>>[2] = b
      /\ <<a, b, c>>[1] = a /\ <<a, b, c>>[2] = b /\ <<a, b, c>>[3] = c
  OBVIOUS
<1> HIDE DEF S
<1>3. /\ <<a>> \o <<b>> \in Seq(S) /\ Len(<<a>> \o <<b>>) = 2
      /\ (<<a>> \o <<b>>)[1] = a /\ (<<a>> \o <<b>>)[2] = b
  BY <1>1, <1>2, ConcatProperties
<1>4. L \in Seq(S) /\ Len(L) = 3 /\ L[1] = a /\ L[2] = b /\ L[3] = c
  BY <1>1, <1>2, <1>3, ConcatProperties
<1> HIDE DEF L
<1>5. ASSUME NEW n \in 1 .. 3
      PROVE  /\ SubSeq(L, 1, n) \in Seq(S) /\ Len(SubSeq(L, 1, n)) = n
             /\ \A i \in 1 .. n : SubSeq(L, 1, n)[i] = L[i]
  <2>1. \A i \in 1 .. n : L[i] \in S
    BY <1>4, <1>5
  <2>2. n \in Int /\ 1 <= n /\ n - 1 + 1 = n /\ \A i \in 1 .. n : 1 + i - 1 = i
    BY <1>5
  <2> QED
    BY <2>1, <2>2, SubSeqProperties
<1>6. SubSeq(L, 1, 0) = <<>>
  BY SubSeqEmpty
<1>7. SubSeq(L, 1, 1) = <<a>>
  <2>1. \A i \in 1 .. 1 : SubSeq(L, 1, 1)[i] = <<a>>[i]
    BY <1>2, <1>4, <1>5
  <2>2. SubSeq(L, 1, 1) \in Seq(S) /\ Len(SubSeq(L, 1, 1)) = 1
    BY <1>5
  <2> DEFINE s == SubSeq(L, 1, 1)
             t == <<a>>
  <2>3. t \in Seq(S) /\ Len(t) = 1
    BY <1>1, <1>2
  <2> HIDE DEF s, t
  <2>4. s = t
    <3>1. s \in Seq(S) /\ Len(s) = 1 /\ \A i \in 1 .. 1 : s[i] = t[i]
      BY <2>1, <2>2 DEF s, t
    <3> QED
      BY <2>3, <3>1, SeqEqual
  <2> QED
    BY <2>4 DEF s, t
<1>8. SubSeq(L, 1, 2) = <<a, b>>
  <2>1. \A i \in 1 .. 2 : SubSeq(L, 1, 2)[i] = <<a, b>>[i]
    BY <1>2, <1>4, <1>5
  <2>2. SubSeq(L, 1, 2) \in Seq(S) /\ Len(SubSeq(L, 1, 2)) = 2
    BY <1>5
  <2> DEFINE s == SubSeq(L, 1, 2)
             t == <<a, b>>
  <2>3. t \in Seq(S) /\ Len(t) = 2
    BY <1>1, <1>2
  <2> HIDE DEF s, t
  <2>4. s = t
    <3>1. s \in Seq(S) /\ Len(s) = 2 /\ \A i \in 1 .. 2 : s[i] = t[i]
      BY <2>1, <2>2 DEF s, t
    <3> QED
      BY <2>3, <3>1, SeqEqual
  <2> QED
    BY <2>4 DEF s, t
<1>9. SubSeq(L, 1, 3) = <<a, b, c>>
  <2>1. \A i \in 1 .. 3 : SubSeq(L, 1, 3)[i] = <<a, b, c>>[i]
    BY <1>2, <1>4, <1>5
  <2>2. SubSeq(L, 1, 3) \in Seq(S) /\ Len(SubSeq(L, 1, 3)) = 3
    BY <1>5
  <2> DEFINE s == SubSeq(L, 1, 3)
             t == <<a, b, c>>
  <2>3. t \in Seq(S) /\ Len(t) = 3
    BY <1>1, <1>2
  <2> HIDE DEF s, t
  <2>4. s = t
    <3>1. s \in Seq(S) /\ Len(s) = 3 /\ \A i \in 1 .. 3 : s[i] = t[i]
      BY <2>1, <2>2 DEF s, t
    <3> QED
      BY <2>3, <3>1, SeqEqual
  <2> QED
    BY <2>4 DEF s, t
<1> QED
  BY <1>6, <1>7, <1>8, <1>9 DEF L

\* A result that is appended is read when it is there as a whole; a part of it changes
\* nothing, nor does either make an end without a begin.
LEMMA ResultRead ==
  ASSUME NEW w \in Seq(Token), NEW v \in Value, NEW n \in 0 .. 3
  PROVE  LET u == w \o SubSeq(<<"begin">> \o <<v>> \o <<"end">>, 1, n) IN
         /\ u \in Seq(Token) /\ Len(w) <= Len(u)
         /\ parse_results(u).none = parse_results(w).none
         /\ parse_results(u).yields = IF n = 3 THEN parse_results(w).yields \o <<v>>
                                               ELSE parse_results(w).yields
         /\ Contains(u, "log") <=> Contains(w, "log")
<1> DEFINE s == parse_results(w)
           L == <<"begin">> \o <<v>> \o <<"end">>
           w1 == Append(w, "begin")
           w2 == Append(w1, v)
           w3 == Append(w2, "end")
<1>1. s \in ReadState
  BY ReadType
<1>2. {"begin", "end", v} \subseteq Token /\ v \notin Marks /\ v # "log"
  BY ValuesAreNoMarks DEF Token, Marks
<1>3. w1 \in Seq(Token) /\ w2 \in Seq(Token) /\ w3 \in Seq(Token)
  BY <1>2, AppendProperties
<1>4. /\ parse_results(w1) = ParseLine(s, "begin")
      /\ parse_results(w2) = ParseLine(parse_results(w1), v)
      /\ parse_results(w3) = ParseLine(parse_results(w2), "end")
  <2>1. parse_results(w1) = ParseLine(s, "begin")
    BY <1>2, ReadMore
  <2>2. parse_results(w2) = ParseLine(parse_results(w1), v)
    <3> HIDE DEF w1
    <3> QED
      BY <1>2, <1>3, ReadMore
  <2>3. parse_results(w3) = ParseLine(parse_results(w2), "end")
    <3> HIDE DEF w2
    <3> QED
      BY <1>2, <1>3, ReadMore
  <2> QED
    BY <2>1, <2>2, <2>3
<1>5. /\ w \o SubSeq(L, 1, 0) = w
      /\ w \o SubSeq(L, 1, 1) = w1
      /\ w \o SubSeq(L, 1, 2) = w2
      /\ w \o SubSeq(L, 1, 3) = w3
  <2>1. /\ SubSeq(L, 1, 0) = <<>> /\ SubSeq(L, 1, 1) = <<"begin">>
        /\ SubSeq(L, 1, 2) = <<"begin", v>> /\ SubSeq(L, 1, 3) = <<"begin", v, "end">>
    BY ThreeElements
  <2>2. /\ w \o <<>> = w /\ w \o <<"begin">> = w1
        /\ w \o <<"begin", v>> = w2 /\ w \o <<"begin", v, "end">> = w3
    OBVIOUS
  <2> QED
    BY <2>1, <2>2
<1>6. /\ Len(w) <= Len(w1) /\ Len(w) <= Len(w2) /\ Len(w) <= Len(w3)
      /\ Contains(w1, "log") <=> Contains(w, "log")
      /\ Contains(w2, "log") <=> Contains(w, "log")
      /\ Contains(w3, "log") <=> Contains(w, "log")
  <2>1. ASSUME NEW z \in Seq(Token), NEW t \in Token, t # "log"
        PROVE  Len(z) <= Len(Append(z, t)) /\ (Contains(Append(z, t), "log") <=> Contains(z, "log"))
    <3>1. /\ Len(z) \in Nat /\ Len(Append(z, t)) = Len(z) + 1 /\ Append(z, t)[Len(z) + 1] = t
          /\ \A i \in 1 .. Len(z) : Append(z, t)[i] = z[i]
      BY LenProperties, AppendProperties
    <3> QED
      BY <2>1, <3>1 DEF Contains
  <2>2. Len(w) \in Nat /\ Len(w1) \in Nat /\ Len(w2) \in Nat /\ Len(w3) \in Nat
    BY <1>3, LenProperties
  <2>3. Len(w) <= Len(w1) /\ (Contains(w1, "log") <=> Contains(w, "log"))
    BY <1>2, <2>1
  <2>4. Len(w1) <= Len(w2) /\ (Contains(w2, "log") <=> Contains(w1, "log"))
    <3> HIDE DEF w1
    <3> QED
      BY <1>2, <1>3, <2>1
  <2>5. Len(w2) <= Len(w3) /\ (Contains(w3, "log") <=> Contains(w2, "log"))
    <3> HIDE DEF w2
    <3> QED
      BY <1>2, <1>3, <2>1
  <2> HIDE DEF w1, w2, w3
  <2> QED
    BY <2>2, <2>3, <2>4, <2>5
<1> HIDE DEF w1, w2, w3, s
<1>7. /\ parse_results(w1) = [s EXCEPT !.open = TRUE, !.value = <<>>]
      /\ parse_results(w2) = [s EXCEPT !.open = TRUE, !.value = <<v>>]
      /\ parse_results(w3) = [open |-> FALSE, value |-> <<>>, yields |-> s.yields \o <<v>>,
                              none |-> s.none]
  <2>1. parse_results(w1) = [s EXCEPT !.open = TRUE, !.value = <<>>]
    BY <1>4 DEF ParseLine, Marks
  <2>2. parse_results(w1).open /\ [parse_results(w1) EXCEPT !.value = <<v>>]
          = [s EXCEPT !.open = TRUE, !.value = <<v>>]
    BY <1>1, <2>1 DEF ReadState
  <2>3. parse_results(w2) = [s EXCEPT !.open = TRUE, !.value = <<v>>]
    BY <1>2, <1>4, <2>2 DEF ParseLine, Marks
  <2>4. /\ parse_results(w2).open /\ parse_results(w2).value = <<v>>
        /\ parse_results(w2).yields = s.yields /\ parse_results(w2).none = s.none
    BY <1>1, <2>3 DEF ReadState
  <2>5. (s.none \/ FALSE) = s.none
    BY <1>1 DEF ReadState
  <2>6. parse_results(w3) = [open |-> FALSE, value |-> <<>>, yields |-> s.yields \o <<v>>,
                             none |-> s.none]
    BY <1>1, <1>4, <2>4, <2>5 DEF ParseLine, Marks
  <2> QED
    BY <2>1, <2>3, <2>6
<1>8. /\ parse_results(w1).none = s.none /\ parse_results(w1).yields = s.yields
      /\ parse_results(w2).none = s.none /\ parse_results(w2).yields = s.yields
      /\ parse_results(w3).none = s.none /\ parse_results(w3).yields = s.yields \o <<v>>
  BY <1>1, <1>7 DEF ReadState
<1> HIDE DEF L
<1>9. n = 0 \/ n = 1 \/ n = 2 \/ n = 3
  OBVIOUS
<1> DEFINE Fine(u, k) ==
       /\ u \in Seq(Token) /\ Len(w) <= Len(u)
       /\ parse_results(u).none = s.none
       /\ parse_results(u).yields = IF k = 3 THEN s.yields \o <<v>> ELSE s.yields
       /\ Contains(u, "log") <=> Contains(w, "log")
<1>10. Fine(w, 0)
  BY LenProperties DEF s
<1>11. Fine(w1, 1) /\ Fine(w2, 2) /\ Fine(w3, 3)
  BY <1>3, <1>6, <1>8
<1>12. Fine(w \o SubSeq(L, 1, n), n)
  <2> HIDE DEF Fine
  <2> QED
    BY <1>5, <1>9, <1>10, <1>11
<1> QED
  BY <1>12 DEF L, s

\* Reports -------------------------------------------------------------------------------

\* The results that are in a rank's log.
Cached(r) == parse_results(file[r]).yields

\* Logs consist of tokens; output goes to a place in the log; while results are being
\* appended there is one left.
LogTypes ==
  /\ file \in [Rank -> Seq(Token)] /\ offset \in [Rank -> Nat]
  /\ \A r \in Rank : offset[r] <= Len(file[r])
  /\ step \in {"idle", "parse", "append"} /\ (step = "idle" => ~late)
  /\ todo \subseteq Rank /\ got \in [Rank -> Seq(Value)] /\ rest \in Seq(Value)
  /\ step = "append" => todo # {} /\ rest # <<>>
  /\ said \subseteq [Rank -> Seq(Value)] /\ interrupts \in Nat

\* A report that starts after the job has of the logs it is done with what is cached in
\* them; and what such a report has said is cached in all of them, so that it stays.
LateReport ==
  /\ late => /\ AllDone
             /\ \A r \in Rank \ todo : got[r] = Cached(r) /\ Cached(r) # <<>>
             /\ step = "append" => Cached(Current) \o rest = got[Current]
  /\ said # {} => /\ AllDone /\ step # "append" /\ (step = "parse" => late)
                  /\ said = {[r \in Rank |-> Cached(r)]}
                  /\ \A r \in Rank : Cached(r) # <<>>

\* The rank has run the benchmark.
Ran(r) == pc[r] \in Merging \/ status[r] = "ok"

\* What is cached is nothing, the first results of the rank, or all of them.
CachedWell(r) == Cached(r) = <<>> \/ \E t \in Seq(Value) : Cached(r) \o t = parse_outfile(r)

\* Nobody has read too early, and all scripts ran as they should.
Undisturbed == ~early /\ ~over /\ faults = 0

\* Without an early report the logs are what the ranks wrote, with what late reports made
\* of them: one of them at a time has not yet got all its results, unless a report was
\* interrupted.
NotEarly ==
  Undisturbed =>
    /\ ~crashed /\ (step # "idle" => late)
    /\ ~AllDone => /\ said = {}
                   /\ \A r \in Rank : offset[r] = Len(file[r]) /\ file[r] \in Seq({"log", "text"})
    /\ \A r \in Rank : Ran(r) => Contains(file[r], "log")
    /\ \A r \in Rank : ~parse_results(file[r]).none /\ CachedWell(r)
    /\ interrupts = 0 => \A r \in Rank : \/ Cached(r) \in {<<>>, parse_outfile(r)}
                                         \/ step = "append" /\ r = Current
    /\ step = "append" => got[Current] = parse_outfile(Current)

BInv == LogTypes /\ LateReport /\ NotEarly

\* The report starts with empty logs.
LEMMA InitReports == BenchInit => BInv
<1> SUFFICES ASSUME BenchInit PROVE BInv
  OBVIOUS
<1>1. <<>> \in Seq(Token) /\ <<>> \in Seq(Value) /\ <<>> \in Seq({"log", "text"}) /\ Len(<<>>) = 0
  OBVIOUS
<1>2. \A r \in Rank : file[r] = <<>> /\ offset[r] = 0
  BY DEF BenchInit, Nothing
<1>3. \A r \in Rank : pc[r] = "setup" /\ status[r] = "running"
  BY DEF BenchInit, Init
<1>4. LogTypes
  BY <1>1, <1>2 DEF BenchInit, LogTypes, Nothing
<1>5. LateReport
  BY DEF BenchInit, LateReport
<1>6. \A r \in Rank : parse_results(file[r]) = Unread
  BY <1>1, <1>2, NothingRead
<1>7. NotEarly
  <2>1. \A r \in Rank : ~Ran(r)
    BY <1>3 DEF Ran, Merging
  <2>2. \A r \in Rank : Cached(r) = <<>> /\ parse_results(file[r]).none = FALSE
    BY <1>6 DEF Cached, Unread
  <2>3. \A r \in Rank : offset[r] = Len(file[r]) /\ file[r] \in Seq({"log", "text"})
    BY <1>1, <1>2
  <2>4. step = "idle" /\ ~crashed /\ said = {}
    BY DEF BenchInit
  <2> QED
    BY <2>1, <2>2, <2>3, <2>4 DEF NotEarly, CachedWell
<1> QED
  BY <1>4, <1>5, <1>7 DEF BInv

\* What a rank writes is put at its place in the log; at the end of it when no report has
\* appended anything.
LEMMA WriteKeepsTypes ==
  ASSUME LogTypes, NEW r \in Rank, NEW token \in {"log", "text"}, Write(r, token)
  PROVE  /\ file' \in [Rank -> Seq(Token)] /\ offset' \in [Rank -> Nat]
         /\ \A s \in Rank : s # r => file'[s] = file[s] /\ offset'[s] = offset[s]
         /\ offset'[r] <= Len(file'[r])
         /\ offset[r] = Len(file[r]) =>
              file'[r] = Append(file[r], token) /\ offset'[r] = Len(file'[r])
<1> DEFINE f == file[r]
           o == offset[r]
<1>1. f \in Seq(Token) /\ o \in Nat /\ Len(f) \in Nat /\ o <= Len(f) /\ token \in Token
  BY LenProperties DEF LogTypes, Token, Marks
<1>2. PICK damaged \in (IF Len(f) - o = 0 THEN 0 ELSE 1) .. Len(f) - o :
        /\ file' = [file EXCEPT ![r] = SubSeq(@, 1, o) \o <<token>> \o SubSeq(@, o + damaged + 1, Len(@))]
        /\ offset' = [offset EXCEPT ![r] = @ + 1]
  BY DEF Write
<1> DEFINE a == SubSeq(f, 1, o)
           b == <<token>>
           c == SubSeq(f, o + damaged + 1, Len(f))
<1>3. file' = [file EXCEPT ![r] = a \o b \o c] /\ offset' = [offset EXCEPT ![r] = o + 1]
  BY <1>2
<1>4. damaged \in Nat /\ (o = Len(f) => damaged = 0)
  BY <1>1, <1>2
<1>5. a \in Seq(Token) /\ Len(a) = o
  <2> HIDE DEF f, o
  <2>1. \A i \in 1 .. o : f[i] \in Token
    BY <1>1, LenProperties
  <2> QED
    BY <1>1, <2>1, SubSeqProperties
<1>6. b \in Seq(Token) /\ Len(b) = 1
  BY <1>1
<1>7. c \in Seq(Token) /\ Len(c) \in Nat
  <2> HIDE DEF f, o
  <2>1. \A i \in o + damaged + 1 .. Len(f) : f[i] \in Token
    BY <1>1, <1>4, LenProperties
  <2>2. c \in Seq(Token)
    BY <1>1, <1>4, <2>1, SubSeqProperties
  <2> QED
    BY <2>2, LenProperties
<1>8. ASSUME o = Len(f) PROVE a \o b \o c = Append(f, token)
  <2> HIDE DEF f, o
  <2>1. a = f
    BY <1>1, <1>8, SubSeqFull
  <2>2. c = <<>>
    <3>1. o + damaged + 1 \in Int /\ Len(f) < o + damaged + 1
      BY <1>1, <1>4, <1>8
    <3> QED
      BY <1>1, <3>1, SubSeqEmpty
  <2>3. f \o <<token>> = Append(f, token)
    BY <1>1
  <2>4. Append(f, token) \in Seq(Token)
    BY <1>1, AppendProperties
  <2>5. Append(f, token) \o <<>> = Append(f, token)
    BY <2>4, ConcatEmptySeq
  <2> QED
    BY <2>1, <2>2, <2>3, <2>5
<1> HIDE DEF a, b, c
<1>9. a \o b \o c \in Seq(Token) /\ Len(a \o b \o c) = o + 1 + Len(c)
  <2>1. a \o b \in Seq(Token) /\ Len(a \o b) = Len(a) + Len(b)
    BY <1>5, <1>6, ConcatProperties
  <2>2. a \o b \o c \in Seq(Token) /\ Len(a \o b \o c) = Len(a \o b) + Len(c)
    BY <1>7, <2>1, ConcatProperties
  <2> QED
    BY <1>5, <1>6, <2>1, <2>2
<1>10. file'[r] = a \o b \o c /\ offset'[r] = o + 1
  BY <1>3 DEF LogTypes
<1>11. o + 1 <= o + 1 + Len(c)
  BY <1>1, <1>7
<1>12. o = Len(f) => file'[r] = Append(f, token) /\ Len(file'[r]) = o + 1
  <2>1. Len(Append(f, token)) = Len(f) + 1
    BY <1>1, AppendProperties
  <2> QED
    BY <1>8, <1>10, <2>1
<1>13. file' \in [Rank -> Seq(Token)]
  BY <1>3, <1>9 DEF LogTypes
<1>14. offset' \in [Rank -> Nat]
  BY <1>1, <1>3 DEF LogTypes
<1>15. \A s \in Rank : s # r => file'[s] = file[s] /\ offset'[s] = offset[s]
  BY <1>3 DEF LogTypes
<1> QED
  BY <1>9, <1>10, <1>11, <1>12, <1>13, <1>14, <1>15 DEF o, f

\* A rank that is done has nothing to do.
LEMMA ScriptGoesOn ==
  ASSUME NEW r \in Rank, Script(r)
  PROVE  pc[r] # "done"
BY DEF Script, Setup, RunSpec, TakeLock, CopyNew, CopyAll, CopiedAll, CutList, MergeList, Unlock, Exit, At

\* A step of a rank's script: nothing a report after the job could know of, and only "log"
\* and "text" in the logs before the first report.
LEMMA JobKeeps ==
  ASSUME LInv, BInv, NEW r \in Rank, Job(r)
  PROVE  BInv'
<1>1. Script(r) /\ Moves(r) /\ UNCHANGED reportVars
  BY DEF Job, Moves
<1>2. ~AllDone /\ ~late /\ said = {}
  BY <1>1, ScriptGoesOn DEF AllDone, BInv, LateReport
<1>3. UNCHANGED <<step, todo, got, rest, late, reports, interrupts, early, crashed, said>>
  BY <1>1 DEF reportVars
<1>4. TypesRight /\ over' = over /\ faults' = faults
      /\ \A s \in Rank : s # r => pc'[s] = pc[s] /\ status'[s] = status[s]
  BY <1>1, RankMoves, ScriptFaults, OthersStay DEF LInv, TypesRight
<1>5. \/ At(r, "run") /\ Write(r, "log")
      \/ ~At(r, "run") /\ At(r, "exit") /\ Write(r, "text")
      \/ ~At(r, "run") /\ UNCHANGED logVars
  BY DEF Job
<1>6. /\ file' \in [Rank -> Seq(Token)] /\ offset' \in [Rank -> Nat]
      /\ \A s \in Rank : s # r => file'[s] = file[s] /\ offset'[s] = offset[s]
      /\ offset'[r] <= Len(file'[r])
      /\ \/ file'[r] = file[r] /\ offset'[r] = offset[r] /\ ~At(r, "run")
         \/ \E token \in {"log", "text"} :
              /\ At(r, "run") => token = "log"
              /\ offset[r] = Len(file[r]) => file'[r] = Append(file[r], token) /\ offset'[r] = Len(file'[r])
  <2>1. CASE At(r, "run") /\ Write(r, "log")
    BY <2>1, WriteKeepsTypes DEF BInv
  <2>2. CASE ~At(r, "run") /\ At(r, "exit") /\ Write(r, "text")
    BY <2>2, WriteKeepsTypes DEF BInv
  <2>3. CASE ~At(r, "run") /\ UNCHANGED logVars
    BY <2>3 DEF logVars, BInv, LogTypes
  <2> QED
    BY <1>5, <2>1, <2>2, <2>3
<1>7. LogTypes'
  <2>1. Current' = Current
    BY <1>3 DEF Current
  <2>2. \A s \in Rank : offset'[s] <= Len(file'[s])
    BY <1>6 DEF BInv, LogTypes
  <2> QED
    BY <1>3, <1>6, <2>1, <2>2 DEF BInv, LogTypes
<1>8. LateReport'
  BY <1>2, <1>3 DEF LateReport
<1>9. ASSUME Undisturbed' PROVE NotEarly'
  <2>1. Undisturbed /\ step = "idle" /\ ~crashed
    BY <1>2, <1>3, <1>4, <1>9 DEF BInv, NotEarly, Undisturbed
  <2>2. \A s \in Rank : /\ offset[s] = Len(file[s]) /\ file[s] \in Seq({"log", "text"})
                        /\ Ran(s) => Contains(file[s], "log")
    BY <1>2, <2>1 DEF BInv, NotEarly
  <2>3. ASSUME NEW token \in {"log", "text"}, file'[r] = Append(file[r], token)
        PROVE  /\ file'[r] \in Seq({"log", "text"})
               /\ Contains(file[r], "log") \/ token = "log" => Contains(file'[r], "log")
    <3> DEFINE f == file[r]
    <3>1. f \in Seq({"log", "text"})
      BY <2>2
    <3> HIDE DEF f
    <3>2. /\ Len(f) \in Nat /\ Append(f, token) \in Seq({"log", "text"})
          /\ Len(Append(f, token)) = Len(f) + 1 /\ Append(f, token)[Len(f) + 1] = token
          /\ \A i \in 1 .. Len(f) : Append(f, token)[i] = f[i]
      BY <3>1, LenProperties, AppendProperties
    <3>3. Contains(f, "log") \/ token = "log" => Contains(Append(f, token), "log")
      BY <3>2 DEF Contains
    <3> QED
      BY <2>3, <3>2, <3>3 DEF f
  <2>4. \A s \in Rank : offset'[s] = Len(file'[s]) /\ file'[s] \in Seq({"log", "text"})
    BY <1>6, <2>2, <2>3
  <2>5. /\ Contains(file[r], "log") => Contains(file'[r], "log")
        /\ At(r, "run") => Contains(file'[r], "log")
    BY <1>6, <2>2, <2>3
  <2>6. Ran(r)' => Ran(r) \/ At(r, "run")
    BY <1>1, <1>4
    DEF Ran, Merging, Script, Setup, Reserve, RunSpec, TakeLock, CopyNew, CopyAll, CopiedAll, CutList,
        MergeList, Unlock, Exit, Fails, Goto, At, TypesRight, PlacesOK
  <2>7. \A s \in Rank : Ran(s)' => Contains(file'[s], "log")
    BY <1>4, <1>6, <2>2, <2>5, <2>6 DEF Ran
  <2>8. \A s \in Rank : parse_results(file'[s]) = Unread
    BY <2>4, NothingRead
  <2> QED
    BY <1>2, <1>3, <2>1, <2>4, <2>7, <2>8 DEF NotEarly, CachedWell, Cached, Unread
<1> QED
  BY <1>7, <1>8, <1>9 DEF BInv, NotEarly

\* When a command fails for what is outside of the script, or the job is killed, nothing
\* is promised of its results, but that reports agree.
LEMMA DisturbedKeeps ==
  ASSUME BInv, ~AllDone, ~Undisturbed', UNCHANGED <<logVars, reportVars>>
  PROVE  BInv'
<1>1. UNCHANGED <<file, offset, step, todo, got, rest, late, interrupts, early, crashed, said>>
  BY DEF logVars, reportVars
<1>2. ~late /\ said = {}
  BY DEF BInv, LateReport
<1>3. LogTypes'
  BY <1>1 DEF BInv, LogTypes
<1> QED
  BY <1>1, <1>2, <1>3 DEF BInv, LateReport, NotEarly

LEMMA FailureKeeps == \A r \in Rank : LInv /\ BInv /\ JobFails(r) => BInv'
<1> SUFFICES ASSUME NEW r \in Rank, LInv, BInv, JobFails(r) PROVE BInv'
  OBVIOUS
<1>1. ~AllDone
  BY DEF JobFails, CommandFails, At, AllDone
<1>2. ~Undisturbed'
  BY FailureCounts DEF JobFails, LInv, TypesRight, Undisturbed
<1> QED
  BY <1>1, <1>2, DisturbedKeeps DEF JobFails

LEMMA KillKeeps == BInv /\ JobKilled => BInv'
<1> SUFFICES ASSUME BInv, JobKilled PROVE BInv'
  OBVIOUS
<1>1. ~AllDone /\ ~Undisturbed'
  BY DEF JobKilled, TimeOver, Undisturbed
<1> QED
  BY <1>1, DisturbedKeeps DEF JobKilled

\* The report's own steps ------------------------------------------------------------------

\* They leave the job alone, and its results.
LEMMA ReportLeavesJob ==
  ASSUME UNCHANGED specRunVars
  PROVE  /\ AllDone' = AllDone /\ over' = over /\ faults' = faults
         /\ \A r \in Rank : Ran(r)' = Ran(r)
         /\ \A r \in Rank : (Contains(file'[r], "log") <=> Contains(file[r], "log"))
              => parse_outfile(r)' = parse_outfile(r)
BY DEF specRunVars, local, shared, AllDone, Ran, parse_outfile, Figures

\* What is appended to what is cached, one result after the other.
LEMMA OneByOne ==
  ASSUME NEW c \in Seq(Value), NEW q \in Seq(Value), q # <<>>
  PROVE  /\ (c \o <<Head(q)>>) \o Tail(q) = c \o q
         /\ c \o <<Head(q)>> # <<>> /\ c \o <<Head(q)>> \in Seq(Value)
         /\ Tail(q) = <<>> => c \o <<Head(q)>> = c \o q
<1>1. Head(q) \in Value /\ Tail(q) \in Seq(Value) /\ Len(q) \in Nat /\ Len(q) # 0
  BY HeadTailProperties, EmptySeq
<1>2. <<Head(q)>> \in Seq(Value) /\ <<Head(q)>> # <<>>
  BY <1>1
<1>3. q = <<Head(q)>> \o Tail(q)
  <2>1. /\ <<Head(q)>> \o Tail(q) \in Seq(Value)
        /\ Len(<<Head(q)>> \o Tail(q)) = 1 + Len(Tail(q))
        /\ \A i \in 1 .. 1 + Len(Tail(q)) : (<<Head(q)>> \o Tail(q))[i] =
             IF i <= 1 THEN <<Head(q)>>[i] ELSE Tail(q)[i - 1]
    BY <1>1, <1>2, ConcatProperties
  <2>2. Len(Tail(q)) = Len(q) - 1 /\ \A i \in 1 .. Len(Tail(q)) : Tail(q)[i] = q[i + 1]
    BY HeadTailProperties
  <2>3. ASSUME NEW i \in 1 .. Len(q) PROVE (<<Head(q)>> \o Tail(q))[i] = q[i]
    <3>1. CASE i = 1
      BY <1>1, <2>1, <2>2, <3>1
    <3>2. CASE i # 1
      <4>1. i - 1 \in 1 .. Len(Tail(q)) /\ (i - 1) + 1 = i /\ ~(i <= 1)
        BY <1>1, <2>2, <3>2
      <4>2. (<<Head(q)>> \o Tail(q))[i] = Tail(q)[i - 1]
        BY <1>1, <2>1, <2>2, <4>1
      <4> QED
        BY <2>2, <4>1, <4>2
    <3> QED
      BY <3>1, <3>2
  <2>4. Len(<<Head(q)>> \o Tail(q)) = Len(q)
    BY <1>1, <2>1, <2>2
  <2> QED
    BY <2>1, <2>3, <2>4, SeqEqual
<1>4. (c \o <<Head(q)>>) \o Tail(q) = c \o (<<Head(q)>> \o Tail(q))
  BY <1>1, <1>2, ConcatAssociative
<1>5. c \o <<Head(q)>> \in Seq(Value) /\ c \o <<Head(q)>> # <<>>
  BY <1>2, ConcatProperties, ConcatEqualIffEmpty
<1>6. (c \o <<Head(q)>>) \o <<>> = c \o <<Head(q)>>
  BY <1>5, ConcatEmptySeq
<1> QED
  BY <1>3, <1>4, <1>5, <1>6

\* There is a result at least of every log whose run directory is there.
LEMMA ResultsParsed ==
  ASSUME TypesRight, NEW r \in Rank, ~(Contains(file[r], "log") /\ Invalid(r))
  PROVE  parse_outfile(r) \in Seq(Value) /\ parse_outfile(r) # <<>>
<1>1. CASE Contains(file[r], "log") /\ mine[r] # END
  <2>1. mine[r] \in Dir /\ runs[mine[r]] \in Value
    BY <1>1 DEF TypesRight, Invalid, Value
  <2>2. Figures(mine[r]) \in [1 .. Workloads -> Value] /\ Workloads \in Nat \ {0}
    BY <2>1, ReportLogsAssumption DEF Figures
  <2>3. Figures(mine[r]) \in Seq(Value) /\ Len(Figures(mine[r])) = Workloads
    BY <2>2, IsASeq
  <2> QED
    BY <1>1, <2>2, <2>3, EmptySeq DEF parse_outfile
<1>2. CASE ~(Contains(file[r], "log") /\ mine[r] # END)
  <2>1. parse_outfile(r) = <<"timeout">> \/ parse_outfile(r) = <<"error">>
    BY <1>2 DEF parse_outfile
  <2>2. \A v \in Value : <<v>> \in Seq(Value) /\ <<v>> # <<>>
    OBVIOUS
  <2>3. "timeout" \in Value /\ "error" \in Value
    BY DEF Value
  <2> QED
    BY <2>1, <2>2, <2>3
<1> QED
  BY <1>1, <1>2

\* A report begins with no log read.
LEMMA StartKeeps == BInv /\ StartReport => BInv'
<1> SUFFICES ASSUME BInv, StartReport PROVE BInv'
  OBVIOUS
<1>1. /\ step = "idle" /\ step' = "parse" /\ todo' = Rank /\ got' = Nothing
      /\ late' = AllDone /\ early' = (early \/ ~AllDone)
      /\ UNCHANGED <<specRunVars, file, offset, rest, interrupts, crashed, said>>
  BY DEF StartReport, logVars
<1>2. /\ AllDone' = AllDone /\ over' = over /\ faults' = faults
      /\ \A r \in Rank : Ran(r)' = Ran(r) /\ parse_outfile(r)' = parse_outfile(r)
  BY <1>1, ReportLeavesJob
<1>3. <<>> \in Seq(Value)
  OBVIOUS
<1>4. LogTypes'
  BY <1>1, <1>3 DEF BInv, LogTypes, Nothing
<1>5. LateReport'
  BY <1>1, <1>2 DEF BInv, LateReport, Cached
<1>6. NotEarly'
  BY <1>1, <1>2 DEF BInv, NotEarly, Undisturbed, CachedWell, Cached
<1> QED
  BY <1>4, <1>5, <1>6 DEF BInv

\* The log that is next.
LEMMA CurrentIs == todo # {} => Current \in todo
BY DEF Current

\* A report that is over keeps nothing.
LEMMA GoneKeeps ==
  ASSUME BInv, Gone, UNCHANGED <<specRunVars, file, offset, early, interrupts, said>>,
         step # "append", Undisturbed => ~crashed'
  PROVE  BInv'
<1>1. step' = "idle" /\ todo' = {} /\ got' = Nothing /\ rest' = <<>> /\ ~late'
  BY DEF Gone
<1>2. /\ AllDone' = AllDone /\ over' = over /\ faults' = faults
      /\ \A r \in Rank : Ran(r)' = Ran(r) /\ parse_outfile(r)' = parse_outfile(r)
  BY ReportLeavesJob
<1>3. <<>> \in Seq(Value)
  OBVIOUS
<1>4. LogTypes'
  BY <1>1, <1>3 DEF BInv, LogTypes, Nothing, Gone
<1>5. LateReport'
  BY <1>1, <1>2 DEF BInv, LateReport, Cached
<1>6. NotEarly'
  BY <1>1, <1>2 DEF BInv, NotEarly, Undisturbed, CachedWell, Cached
<1> QED
  BY <1>4, <1>5, <1>6 DEF BInv

\* The next log is read.  After the job the run directory it names is there, unless the
\* job was killed; so a report fails only then, or by what an early report left behind.
LEMMA ParseKeeps == LInv /\ OwnKept /\ BInv /\ ParseLog => BInv'
<1> SUFFICES ASSUME LInv, OwnKept, BInv, ParseLog PROVE BInv'
  OBVIOUS
<1> DEFINE r == Current
           cached == parse_results(file[r])
<1>1. /\ step = "parse" /\ todo # {} /\ r \in todo /\ r \in Rank
      /\ UNCHANGED <<specRunVars, file, offset, interrupts, early, said>>
  BY CurrentIs DEF ParseLog, logVars, BInv, LogTypes
<1>2. /\ AllDone' = AllDone /\ over' = over /\ faults' = faults
      /\ \A s \in Rank : Ran(s)' = Ran(s) /\ parse_outfile(s)' = parse_outfile(s)
  BY <1>1, ReportLeavesJob
<1>3. \/ cached.none /\ Crash
      \/ /\ ~cached.none /\ cached.yields # <<>>
         /\ got' = [got EXCEPT ![r] = cached.yields] /\ todo' = todo \ {r}
         /\ UNCHANGED <<step, rest, late, crashed>>
      \/ ~cached.none /\ Contains(file[r], "log") /\ Invalid(r) /\ Crash
      \/ /\ cached.yields = <<>> /\ ~(Contains(file[r], "log") /\ Invalid(r))
         /\ got' = [got EXCEPT ![r] = parse_outfile(r)] /\ rest' = parse_outfile(r)
             /\ step' = "append"
         /\ UNCHANGED <<todo, late, crashed>>
  BY DEF ParseLog, Current
<1>4. ASSUME Undisturbed PROVE ~cached.none /\ ~Invalid(r) /\ late
  <2>1. late /\ AllDone /\ ~cached.none
    BY <1>1, <1>4 DEF BInv, NotEarly, LateReport
  <2>2. mine[r] # END => Has(mine[r])
    BY <1>1, <1>4, <2>1 DEF OwnKept, AllDone, Undisturbed
  <2> QED
    BY <2>1, <2>2 DEF Invalid, Has
<1>5. cached \in ReadState
  BY <1>1, ReadType DEF BInv, LogTypes
<1>6. Cached(r) = cached.yields
  BY DEF Cached
<1>7. CASE Crash
  <2>1. ~Undisturbed
    BY <1>1, <1>3, <1>4, <1>7 DEF Crash, Gone
  <2> QED
    BY <1>1, <1>7, <2>1, GoneKeeps DEF Crash
<1>8. CASE /\ cached.yields # <<>>
           /\ got' = [got EXCEPT ![r] = cached.yields] /\ todo' = todo \ {r}
           /\ UNCHANGED <<step, rest, late, crashed>>
  <2> HIDE DEF r, cached
  <2>1. /\ got' \in [Rank -> Seq(Value)] /\ got'[r] = cached.yields
        /\ \A s \in Rank : s # r => got'[s] = got[s]
    BY <1>1, <1>5, <1>8 DEF ReadState, BInv, LogTypes
  <2>2. LogTypes'
    BY <1>1, <1>8, <2>1 DEF BInv, LogTypes
  <2>3. LateReport'
    BY <1>1, <1>2, <1>6, <1>8, <2>1 DEF BInv, LateReport, Cached
  <2>4. NotEarly'
    BY <1>1, <1>2, <1>8 DEF BInv, NotEarly, Undisturbed, CachedWell, Cached
  <2> QED
    BY <2>2, <2>3, <2>4 DEF BInv
<1>9. CASE /\ cached.yields = <<>> /\ ~(Contains(file[r], "log") /\ Invalid(r))
           /\ got' = [got EXCEPT ![r] = parse_outfile(r)] /\ rest' = parse_outfile(r)
             /\ step' = "append"
           /\ UNCHANGED <<todo, late, crashed>>
  <2>1. parse_outfile(r) \in Seq(Value) /\ parse_outfile(r) # <<>>
    BY <1>1, <1>9, ResultsParsed DEF LInv
  <2>2. said = {} 
    BY <1>1, <1>6, <1>9 DEF BInv, LateReport
  <2>3. Current' = r
    BY <1>9 DEF Current
  <2> HIDE DEF r, cached
  <2>4. Cached(r) \o parse_outfile(r) = parse_outfile(r)
    BY <1>6, <1>9, <2>1, ConcatEmptySeq
  <2>5. /\ got' \in [Rank -> Seq(Value)] /\ got'[r] = parse_outfile(r)
        /\ \A s \in Rank : s # r => got'[s] = got[s]
    BY <1>1, <1>9, <2>1 DEF BInv, LogTypes
  <2>6. LogTypes'
    BY <1>1, <1>9, <2>1, <2>3, <2>5 DEF BInv, LogTypes
  <2>7. LateReport'
    BY <1>1, <1>2, <1>6, <1>9, <2>2, <2>3, <2>4, <2>5 DEF BInv, LateReport, Cached
  <2>8. got'[Current'] = parse_outfile(Current)'
    BY <1>1, <1>2, <2>3, <2>5
  <2>9. NotEarly'
    BY <1>1, <1>2, <1>9, <2>8 DEF BInv, NotEarly, Undisturbed, CachedWell, Cached
  <2> QED
    BY <2>6, <2>7, <2>9 DEF BInv
<1> QED
  BY <1>3, <1>7, <1>8, <1>9

\* A result, or the beginning of one, is appended to the log that was read: of the other
\* logs nothing changes, and this one has one result more when the whole of it is written.
LEMMA LogResultKeeps ==
  ASSUME BInv, step = "append", NEW n \in 0 .. 3, LogResult(Current, n)
  PROVE  \E r \in Rank :
           /\ r = Current /\ r \in todo /\ said = {}
           /\ file' \in [Rank -> Seq(Token)]
           /\ \A s \in Rank : /\ Len(file[s]) <= Len(file'[s])
                              /\ Contains(file'[s], "log") <=> Contains(file[s], "log")
                              /\ parse_results(file'[s]).none = parse_results(file[s]).none
                              /\ s # r \/ n # 3 => Cached(s)' = Cached(s)
           /\ n = 3 => Cached(r)' = Cached(r) \o <<Head(rest)>>
<1>1. PICK r \in Rank : r = Current /\ r \in todo /\ said = {}
  BY CurrentIs DEF BInv, LogTypes, LateReport
<1> DEFINE v == Head(rest)
           w == file[r]
           u == w \o SubSeq(<<"begin">> \o <<v>> \o <<"end">>, 1, n)
<1>2. v \in Value
  BY HeadTailProperties DEF BInv, LogTypes
<1>3. file' = [file EXCEPT ![r] = u]
  BY <1>1 DEF LogResult, Logged
<1>4. w \in Seq(Token)
  BY <1>1 DEF BInv, LogTypes
<1> HIDE DEF w, v
<1>5. /\ u \in Seq(Token) /\ Len(w) <= Len(u)
      /\ parse_results(u).none = parse_results(w).none
      /\ parse_results(u).yields = IF n = 3 THEN parse_results(w).yields \o <<v>>
                                            ELSE parse_results(w).yields
      /\ Contains(u, "log") <=> Contains(w, "log")
  BY <1>2, <1>4, ResultRead
<1> HIDE DEF u
<1>6. /\ file' \in [Rank -> Seq(Token)] /\ file'[r] = u
      /\ \A s \in Rank : s # r => file'[s] = file[s]
  BY <1>1, <1>3, <1>5 DEF BInv, LogTypes
<1>7. \A s \in Rank : file[s] \in Seq(Token) /\ Len(file[s]) \in Nat
  BY LenProperties DEF BInv, LogTypes
<1>8. \A s \in Rank : /\ Len(file[s]) <= Len(file'[s])
                      /\ Contains(file'[s], "log") <=> Contains(file[s], "log")
                      /\ parse_results(file'[s]).none = parse_results(file[s]).none
                      /\ s # r \/ n # 3 => parse_results(file'[s]).yields = parse_results(file[s]).yields
  BY <1>5, <1>6, <1>7 DEF w
<1>9. n = 3 => parse_results(file'[r]).yields = parse_results(file[r]).yields \o <<v>>
  BY <1>5, <1>6 DEF w
<1>10. \A s \in Rank : Cached(s)' = parse_results(file'[s]).yields
  BY DEF Cached
<1> QED
  BY <1>1, <1>6, <1>8, <1>9, <1>10 DEF Cached, v

\* The next result is appended; after the last one all that the report has is cached.
LEMMA AppendKeeps == BInv /\ AppendResult => BInv'
<1> SUFFICES ASSUME BInv, AppendResult PROVE BInv'
  OBVIOUS
<1>1. /\ step = "append" /\ LogResult(Current, 3) /\ rest' = Tail(rest)
      /\ IF Tail(rest) = <<>> THEN step' = "parse" /\ todo' = todo \ {Current}
         ELSE UNCHANGED <<step, todo>>
      /\ UNCHANGED <<specRunVars, offset, got, late, interrupts, early, crashed, said>>
  BY DEF AppendResult
<1>2. PICK r \in Rank :
        /\ r = Current /\ r \in todo /\ said = {}
        /\ file' \in [Rank -> Seq(Token)]
        /\ \A s \in Rank : /\ Len(file[s]) <= Len(file'[s])
                           /\ Contains(file'[s], "log") <=> Contains(file[s], "log")
                           /\ parse_results(file'[s]).none = parse_results(file[s]).none
                           /\ s # r => Cached(s)' = Cached(s)
        /\ Cached(r)' = Cached(r) \o <<Head(rest)>>
  <2>1. 3 \in 0 .. 3
    OBVIOUS
  <2> QED
    BY <1>1, <2>1, LogResultKeeps
<1>3. /\ AllDone' = AllDone /\ over' = over /\ faults' = faults
      /\ \A s \in Rank : Ran(s)' = Ran(s) /\ parse_outfile(s)' = parse_outfile(s)
  BY <1>1, <1>2, ReportLeavesJob
<1>4. rest \in Seq(Value) /\ rest # <<>> /\ rest' \in Seq(Value)
  BY <1>1, HeadTailProperties DEF BInv, LogTypes
<1>5. Cached(r) \in Seq(Value)
  BY <1>2, ReadType DEF BInv, LogTypes, Cached, ReadState
<1>6. /\ Cached(r)' \o rest' = Cached(r) \o rest /\ Cached(r)' # <<>>
      /\ rest' = <<>> => Cached(r)' = Cached(r) \o rest
  <2> DEFINE c == Cached(r)
  <2>1. c \in Seq(Value) /\ rest' = Tail(rest) /\ Cached(r)' = c \o <<Head(rest)>>
    BY <1>1, <1>2, <1>5
  <2> HIDE DEF c
  <2>2. /\ (c \o <<Head(rest)>>) \o Tail(rest) = c \o rest /\ c \o <<Head(rest)>> # <<>>
        /\ Tail(rest) = <<>> => c \o <<Head(rest)>> = c \o rest
    BY <1>4, <2>1, OneByOne
  <2>3. Cached(r)' \o rest' = c \o rest /\ Cached(r)' # <<>> /\ (rest' = <<>> => Cached(r)' = c \o rest)
    BY <2>1, <2>2
  <2> QED
    BY <2>3 DEF c
<1>7. IF rest' = <<>> THEN step' = "parse" /\ todo' = todo \ {r}
      ELSE step' = "append" /\ todo' = todo /\ Current' = r
  BY <1>1, <1>2 DEF Current
<1>8. got' = got /\ (late => Cached(r) \o rest = got[r])
  BY <1>1, <1>2 DEF BInv, LateReport
<1>9. LogTypes'
  <2>1. \A s \in Rank : offset[s] <= Len(file'[s])
    <3>1. \A s \in Rank : offset[s] \in Nat /\ Len(file[s]) \in Nat /\ Len(file'[s]) \in Nat
      BY <1>2, LenProperties DEF BInv, LogTypes
    <3> QED
      BY <1>2, <3>1 DEF BInv, LogTypes
  <2> QED
    BY <1>1, <1>2, <1>4, <1>7, <2>1 DEF BInv, LogTypes
<1>10. LateReport'
  <2> SUFFICES ASSUME late
               PROVE  /\ AllDone' /\ \A s \in Rank \ todo' : got'[s] = Cached(s)' /\ Cached(s)' # <<>>
                      /\ step' = "append" => Cached(r)' \o rest' = got'[r]
    BY <1>1, <1>2, <1>7 DEF LateReport
  <2>1. AllDone /\ \A s \in Rank \ todo : got[s] = Cached(s) /\ Cached(s) # <<>>
    BY DEF BInv, LateReport
  <2>2. ASSUME NEW s \in Rank \ todo' PROVE got'[s] = Cached(s)' /\ Cached(s)' # <<>>
    <3>1. CASE s = r
      <4>1. rest' = <<>>
        BY <1>2, <1>7, <2>2, <3>1
      <4> QED
        BY <1>6, <1>8, <3>1, <4>1
    <3>2. CASE s # r
      BY <1>2, <1>7, <1>8, <2>1, <2>2, <3>2
    <3> QED
      BY <3>1, <3>2
  <2> QED
    BY <1>3, <1>6, <1>8, <2>1, <2>2
<1>11. NotEarly'
  <2> SUFFICES ASSUME Undisturbed PROVE NotEarly'
    BY <1>1, <1>3 DEF NotEarly, Undisturbed
  <2>1. late /\ AllDone /\ ~crashed
    BY <1>1 DEF BInv, NotEarly, LateReport
  <2>2. Cached(r) \o rest = parse_outfile(r) /\ got[r] = parse_outfile(r)
    BY <1>1, <1>2, <1>8, <2>1 DEF BInv, NotEarly
  <2>3. CachedWell(r)' /\ (rest' = <<>> => Cached(r)' = parse_outfile(r)')
    BY <1>3, <1>4, <1>6, <2>2 DEF CachedWell
  <2>4. \A s \in Rank : /\ Ran(s) => Contains(file[s], "log")
                        /\ ~parse_results(file[s]).none /\ CachedWell(s)
                        /\ interrupts = 0 /\ s # r => Cached(s) \in {<<>>, parse_outfile(s)}
    BY <1>2 DEF BInv, NotEarly
  <2>5. \A s \in Rank : /\ Ran(s)' => Contains(file'[s], "log")
                        /\ ~parse_results(file'[s]).none
                        /\ s # r => CachedWell(s)'
                        /\ interrupts' = 0 /\ s # r => Cached(s)' \in {<<>>, parse_outfile(s)'}
    BY <1>1, <1>2, <1>3, <2>4 DEF CachedWell
  <2>6. step' = "append" => Current' = r /\ got'[r] = parse_outfile(r)'
    BY <1>3, <1>7, <1>8, <2>2
  <2>7. \A s \in Rank : CachedWell(s)'
    BY <2>3, <2>5
  <2>8. interrupts' = 0 => \A s \in Rank : \/ Cached(s)' \in {<<>>, parse_outfile(s)'}
                                           \/ step' = "append" /\ s = Current'
    BY <1>7, <2>3, <2>5
  <2>9. late' /\ AllDone' /\ ~crashed'
    BY <1>1, <1>3, <2>1
  <2> QED
    BY <2>5, <2>6, <2>7, <2>8, <2>9 DEF NotEarly
<1> QED
  BY <1>9, <1>10, <1>11 DEF BInv

\* The report has said what is cached in the logs.
LEMMA EndKeeps == BInv /\ EndReport => BInv'
<1> SUFFICES ASSUME BInv, EndReport PROVE BInv'
  OBVIOUS
<1>1. /\ step = "parse" /\ todo = {} /\ Gone
      /\ said' = IF late THEN said \cup {got} ELSE said
      /\ UNCHANGED <<specRunVars, file, offset, interrupts, early, crashed>>
  BY DEF EndReport, logVars
<1>2. CASE ~late
  BY <1>1, <1>2, GoneKeeps DEF BInv, NotEarly, Gone
<1>3. CASE late
  <2>1. AllDone /\ \A r \in Rank : got[r] = Cached(r) /\ Cached(r) # <<>>
    BY <1>1, <1>3 DEF BInv, LateReport
  <2>2. got \in [Rank -> Seq(Value)] /\ got = [r \in Rank |-> Cached(r)]
    BY <2>1 DEF BInv, LogTypes
  <2>3. said' = {[r \in Rank |-> Cached(r)]} /\ said' \subseteq [Rank -> Seq(Value)]
    BY <1>1, <1>3, <2>2 DEF BInv, LateReport, LogTypes
  <2>4. /\ AllDone' = AllDone /\ over' = over /\ faults' = faults
        /\ \A r \in Rank : Ran(r)' = Ran(r) /\ parse_outfile(r)' = parse_outfile(r)
    BY <1>1, ReportLeavesJob
  <2>5. step' = "idle" /\ todo' = {} /\ got' = Nothing /\ rest' = <<>> /\ ~late'
        /\ \A r \in Rank : Cached(r)' = Cached(r)
    BY <1>1 DEF Gone, Cached
  <2>6. <<>> \in Seq(Value)
    OBVIOUS
  <2>7. LogTypes'
    BY <1>1, <2>3, <2>5, <2>6 DEF BInv, LogTypes, Nothing
  <2>8. LateReport'
    BY <2>1, <2>3, <2>4, <2>5 DEF LateReport
  <2>9. NotEarly'
    BY <1>1, <2>1, <2>4, <2>5 DEF BInv, NotEarly, Undisturbed, CachedWell
  <2> QED
    BY <2>7, <2>8, <2>9 DEF BInv
<1> QED
  BY <1>2, <1>3

\* Part of a result is no result.
LEMMA InterruptKeeps == BInv /\ InterruptReport => BInv'
<1> SUFFICES ASSUME BInv, InterruptReport PROVE BInv'
  OBVIOUS
<1>1. /\ Gone /\ UNCHANGED <<specRunVars, offset, early, crashed, said>>
      /\ interrupts' = interrupts + 1
      /\ IF step = "append" THEN \E n \in 0 .. 2 : LogResult(Current, n) ELSE UNCHANGED file
  BY DEF InterruptReport
<1>2. /\ file' \in [Rank -> Seq(Token)]
      /\ \A s \in Rank : /\ Len(file[s]) <= Len(file'[s])
                         /\ Contains(file'[s], "log") <=> Contains(file[s], "log")
                         /\ parse_results(file'[s]).none = parse_results(file[s]).none
                         /\ Cached(s)' = Cached(s)
      /\ said # {} => file' = file
  <2>1. CASE step # "append"
    <3>1. file' = file /\ \A s \in Rank : Len(file[s]) \in Nat
      BY <1>1, <2>1, LenProperties DEF BInv, LogTypes
    <3> QED
      BY <3>1 DEF BInv, LogTypes, Cached
  <2>2. CASE step = "append"
    <3>1. PICK n \in 0 .. 2 : LogResult(Current, n)
      BY <1>1, <2>2
    <3>2. n \in 0 .. 3 /\ n # 3
      BY <3>1
    <3> QED
      BY <2>2, <3>1, <3>2, LogResultKeeps
  <2> QED
    BY <2>1, <2>2
<1>3. /\ AllDone' = AllDone /\ over' = over /\ faults' = faults
      /\ \A s \in Rank : Ran(s)' = Ran(s) /\ parse_outfile(s)' = parse_outfile(s)
  BY <1>1, <1>2, ReportLeavesJob
<1>4. /\ step' = "idle" /\ todo' = {} /\ got' = Nothing /\ rest' = <<>> /\ ~late'
      /\ interrupts' \in Nat /\ interrupts' # 0
  BY <1>1 DEF Gone, BInv, LogTypes
<1>5. LogTypes'
  <2>1. \A s \in Rank : offset[s] <= Len(file'[s])
    <3>1. \A s \in Rank : offset[s] \in Nat /\ Len(file[s]) \in Nat /\ Len(file'[s]) \in Nat
      BY <1>2, LenProperties DEF BInv, LogTypes
    <3> QED
      BY <1>2, <3>1 DEF BInv, LogTypes
  <2>2. <<>> \in Seq(Value)
    OBVIOUS
  <2> QED
    BY <1>1, <1>2, <1>4, <2>1, <2>2 DEF BInv, LogTypes, Nothing
<1>6. LateReport'
  BY <1>1, <1>2, <1>3, <1>4 DEF BInv, LateReport
<1>7. NotEarly'
  <2> SUFFICES ASSUME Undisturbed PROVE NotEarly'
    BY <1>1, <1>3 DEF NotEarly, Undisturbed
  <2>1. CASE AllDone
    BY <1>1, <1>2, <1>3, <1>4, <2>1 DEF BInv, NotEarly, CachedWell
  <2>2. CASE ~AllDone
    <3>1. step = "idle" \/ late
      BY DEF BInv, NotEarly
    <3>2. FALSE
      BY <2>2, <3>1 DEF BInv, LateReport, InterruptReport
    <3> QED
      BY <3>2
  <2> QED
    BY <2>1, <2>2
<1> QED
  BY <1>5, <1>6, <1>7 DEF BInv

\* The job under the reports is the job.
LEMMA BenchIsJob == BenchSpec => Spec
<1>1. BenchInit => Init
  BY DEF BenchInit
<1>2. [BenchNext]_benchVars => [Next]_specRunVars
  BY DEF BenchNext, Job, JobFails, JobKilled, StartReport, Report, ParseLog, AppendResult, EndReport,
         InterruptReport, Next, benchVars
<1> QED
  BY <1>1, <1>2, PTL DEF BenchSpec, Spec

LEMMA StepReports == LInv /\ OwnKept /\ BInv /\ [BenchNext]_benchVars => BInv'
<1> SUFFICES ASSUME LInv, OwnKept, BInv, [BenchNext]_benchVars PROVE BInv'
  OBVIOUS
<1>1. CASE UNCHANGED benchVars
  <2>1. UNCHANGED <<specRunVars, file, offset, step, todo, got, rest, late, interrupts, early, crashed,
                  said>>
    BY <1>1 DEF benchVars, logVars, reportVars
  <2>2. /\ AllDone' = AllDone /\ over' = over /\ faults' = faults
        /\ \A r \in Rank : Ran(r)' = Ran(r) /\ parse_outfile(r)' = parse_outfile(r)
    BY <2>1, ReportLeavesJob
  <2>3. Current' = Current
    BY <2>1 DEF Current
  <2>4. LogTypes' /\ LateReport'
    BY <2>1, <2>2, <2>3 DEF BInv, LogTypes, LateReport, Cached
  <2>5. step = "append" => Current \in Rank
    BY CurrentIs DEF BInv, LogTypes
  <2>6. NotEarly'
    BY <2>1, <2>2, <2>3, <2>5 DEF BInv, NotEarly, Undisturbed, CachedWell, Cached
  <2> QED
    BY <2>4, <2>6 DEF BInv
<1>2. CASE BenchNext
  BY <1>2, JobKeeps, FailureKeeps, KillKeeps, StartKeeps, ParseKeeps, AppendKeeps, EndKeeps, InterruptKeeps
  DEF BenchNext, Report
<1> QED
  BY <1>1, <1>2

\* For any number of nodes and results, whenever reports are given and interrupted: those
\* given after the job agree.  And without an early report, when the job was not killed
\* and no command failed for what is outside of the script, they do not fail; and of a rank
\* that ended well they say that runspec failed, or the figures of a rank that took the same
\* name: its own, when no other one did (ReportsRight).
THEOREM ReportsSayWhatRan == BenchSpec => []ReportsRight
<1>1. LInv /\ BInv => ReportsRight
  <2> SUFFICES ASSUME LInv, BInv PROVE ReportsRight
    OBVIOUS
  <2>1. Cardinality(said) <= 1
    <3>1. CASE said = {}
      BY <3>1, FS_EmptySet
    <3>2. CASE said # {}
      <4> DEFINE g == [r \in Rank |-> Cached(r)]
      <4>1. said = {g}
        BY <3>2 DEF BInv, LateReport
      <4> HIDE DEF g
      <4> QED
        BY <4>1, FS_Singleton
    <3> QED
      BY <3>1, <3>2
  <2>2. ASSUME Undisturbed, NEW g \in said, NEW r \in Rank, status[r] = "ok"
        PROVE  IF mine[r] = END THEN g[r] = <<"error">>
               ELSE /\ \E q \in Rank : mine[q] = mine[r] /\ \A w \in 1 .. Len(g[r]) : g[r][w] = q
                    /\ IF interrupts = 0 THEN Len(g[r]) = Workloads ELSE Len(g[r]) \in 1 .. Workloads
    <3>1. g[r] = Cached(r) /\ Cached(r) # <<>> /\ step # "append"
      BY <2>2 DEF BInv, LateReport
    <3>2. Cached(r) \in Seq(Value)
      BY ReadType DEF BInv, LogTypes, Cached, ReadState
    <3>3. Contains(file[r], "log") /\ CachedWell(r) /\ (interrupts = 0 => Cached(r) = parse_outfile(r))
      BY <2>2, <3>1 DEF BInv, NotEarly, Ran
    <3>4. PICK t \in Seq(Value) : Cached(r) \o t = parse_outfile(r)
      BY <3>1, <3>3 DEF CachedWell
    <3>5. /\ Len(Cached(r)) \in Nat \ {0} /\ Len(t) \in Nat
          /\ Len(parse_outfile(r)) = Len(Cached(r)) + Len(t)
          /\ \A w \in 1 .. Len(Cached(r)) : parse_outfile(r)[w] = Cached(r)[w]
      <4>1. Len(Cached(r)) \in Nat \ {0} /\ Len(t) \in Nat
        BY <3>1, <3>2, EmptySeq, LenProperties
      <4>2. /\ Len(Cached(r) \o t) = Len(Cached(r)) + Len(t)
            /\ \A w \in 1 .. Len(Cached(r)) + Len(t) : (Cached(r) \o t)[w] =
                 IF w <= Len(Cached(r)) THEN Cached(r)[w] ELSE t[w - Len(Cached(r))]
        BY <3>2, ConcatProperties
      <4>3. \A w \in 1 .. Len(Cached(r)) : w \in 1 .. Len(Cached(r)) + Len(t) /\ w <= Len(Cached(r))
        BY <4>1
      <4> QED
        BY <3>4, <4>1, <4>2, <4>3
    <3>6. CASE mine[r] = END
      <4>1. parse_outfile(r) = <<"error">>
        BY <3>3, <3>6 DEF parse_outfile
      <4>2. Len(Cached(r)) = 1 /\ Cached(r)[1] = "error"
        <5>1. Len(<<"error">>) = 1 /\ <<"error">>[1] = "error"
          OBVIOUS
        <5>2. Len(Cached(r)) = 1
          <6>1. Len(parse_outfile(r)) = 1
            BY <4>1, <5>1
          <6>2. \A k \in Nat \ {0}, l \in Nat : 1 = k + l => k = 1
            OBVIOUS
          <6> QED
            BY <3>5, <6>1, <6>2
        <5>3. parse_outfile(r)[1] = Cached(r)[1]
          BY <3>5, <5>2
        <5> QED
          BY <4>1, <5>1, <5>2, <5>3
      <4>3. Cached(r) = <<"error">>
        BY <3>2, <4>2, SeqEqual, <<"error">> \in Seq(Value) DEF Value
      <4> QED
        BY <3>1, <3>6, <4>3
    <3>7. CASE mine[r] # END
      <4>1. mine[r] \in Dir /\ runs[mine[r]] \in Rank /\ mine[runs[mine[r]]] = mine[r]
        BY <2>2, <3>7 DEF LInv, TypesRight, CopiesStay, Copied, Owned
      <4>2. parse_outfile(r) = [w \in 1 .. Workloads |-> runs[mine[r]]] /\ Workloads \in Nat
        BY <3>3, <3>7, ReportLogsAssumption DEF parse_outfile, Figures
      <4>3. Len(parse_outfile(r)) = Workloads
        BY <4>2
      <4>4. \A w \in 1 .. Len(Cached(r)) : w \in 1 .. Workloads
        BY <3>5, <4>2, <4>3
      <4>5. \A w \in 1 .. Len(g[r]) : g[r][w] = runs[mine[r]]
        BY <3>1, <3>5, <4>2, <4>4
      <4>6. Len(g[r]) \in 1 .. Workloads /\ (interrupts = 0 => Len(g[r]) = Workloads)
        BY <3>1, <3>3, <3>5, <4>2, <4>3
      <4> QED
        BY <3>7, <4>1, <4>5, <4>6
    <3> QED
      BY <3>6, <3>7
  <2> QED
    BY <2>1, <2>2 DEF ReportsRight, BInv, NotEarly, Undisturbed
<1>2. Init => OwnKept
  BY DEF Init, OwnKept, Merging
<1>3. Spec => [](LInv /\ OwnKept)
  BY <1>2, InitLists, StepLists, StepKeepsOwn, PTL DEF Spec
<1>4. BenchSpec => [](LInv /\ OwnKept)
  BY <1>3, BenchIsJob, PTL
<1> QED
  BY <1>1, <1>4, InitReports, StepReports, PTL DEF BenchSpec
=============================================================================
