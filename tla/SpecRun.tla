------------------------------- MODULE SpecRun -------------------------------
(***************************************************************************)
(* A benchmark of SPEC2006 on several nodes at once: the script that run() *)
(* of targets/spec2006 gives to prun.  Every node (rank) prepares a copy   *)
(* of the run directories on its own disk, runs runspec there, and merges  *)
(* what is new into the shared directory under the lock copylock.          *)
(*                                                                         *)
(* A run directory is its number; its contents are the rank that wrote     *)
(* them.  The shell runs with set -e: a command that fails ends the script *)
(* through the trap of EXIT, once the trap is set.  It may fail for what   *)
(* the script has brought about (Fails, in the actions of the script), or  *)
(* for what is outside of it, as a full disk (CommandFails).               *)
(***************************************************************************)
EXTENDS Naturals, FiniteSets, FiniteSetsExt

CONSTANTS
  Rank,        \* the nodes of the job
  MaxFaults    \* bound: commands that fail for what is outside of the script
ASSUME SpecRunAssumption == IsFiniteSet(Rank) /\ MaxFaults \in Nat

Dir == 1 .. Cardinality(Rank) + 1     \* run directories there can be
END == 0                              \* the __END__ line of a list file
NoOne == "nobody"
Earlier == "an earlier run"
ASSUME NamesAssumption == Rank \cap {NoOne, Earlier} = {}

VARIABLES
  pc,        \* [Rank -> where its script is]
  names,     \* [Rank -> the run directories on its disk, empty ones included]
  locallist, \* [Rank -> the list file on its disk]
  mine,      \* [Rank -> the run directory runspec made, END if none]
  status,    \* [Rank -> how the script ended]
  scratch,   \* the shared directory of runs exists: "no", "partly", "yes"
  runs,      \* [Dir -> whose files are in the shared run directory of that number]
  list,      \* the shared list file
  lock,      \* copylock exists
  over,      \* the time reserved for the job is over
  faults     \* how many commands have failed for what is outside of the script

local == <<names, locallist, mine>>
shared == <<scratch, runs, list>>
specRunVars == <<pc, local, status, shared, lock, over, faults>>

\* The first run of the benchmark, or a later one.
Init ==
  /\ pc = [r \in Rank |-> "setup"] /\ status = [r \in Rank |-> "running"]
  /\ names = [r \in Rank |-> {}] /\ locallist = [r \in Rank |-> {}]
  /\ mine = [r \in Rank |-> END]
  /\ lock = FALSE /\ over = FALSE /\ faults = 0
  /\ \/ scratch = "no" /\ list = {} /\ runs = [d \in Dir |-> NoOne]
     \/ scratch = "yes" /\ list = {1, END} /\ runs = [d \in Dir |-> IF d = 1 THEN Earlier ELSE NoOne]

At(r, p) == pc[r] = p
Goto(r, p) == pc' = [pc EXCEPT ![r] = p]

\* set -e: the trap is set between the lock and the first copy.
Fails(r) ==
  /\ status' = [status EXCEPT ![r] = "failed"]
  /\ Goto(r, IF pc[r] = "setup" THEN "done" ELSE "exit")

\* Make the shared run directories, empty, on the own disk to reserve their names,
\* without the lock.  While another rank copies the whole, its list is there or is not
\* (sed then fails), and so are its run directories, which the list names as well.
Reserve(r, dirs, entries) ==
  /\ names' = [names EXCEPT ![r] = dirs] /\ locallist' = [locallist EXCEPT ![r] = entries]
  /\ Goto(r, "run") /\ UNCHANGED status
Setup(r) ==
  /\ At(r, "setup")
  /\ \/ scratch # "partly" /\ Reserve(r, {d \in Dir : runs[d] # NoOne}, list)
     \/ scratch = "partly" /\ \E c \in Rank : At(c, "copy all") /\ Reserve(r, names[c], locallist[c])
     \/ scratch = "partly" /\ Fails(r) /\ UNCHANGED <<names, locallist>>
  /\ UNCHANGED <<mine, shared, lock, over, faults>>

\* runspec takes the first name that is free, as far as this disk shows.  That it
\* fails does not end the script (it is not the last command of its pipeline).
RunSpec(r) ==
  /\ At(r, "run") /\ Goto(r, "lock")
  /\ \/ UNCHANGED <<names, locallist, mine>>
     \/ LET d == Min(Dir \ (names[r] \cup locallist[r])) IN
          /\ mine' = [mine EXCEPT ![r] = d]
          /\ names' = [names EXCEPT ![r] = @ \cup {d}]
          /\ locallist' = [locallist EXCEPT ![r] = @ \cup {d, END}]
  /\ UNCHANGED <<status, shared, lock, over, faults>>

\* Slip: whether there is a lock is looked at, and the lock then made in any case.
SlipTakeLock(r) ==
  /\ At(r, "lock") /\ Goto(r, "copy") /\ lock' = TRUE
  /\ UNCHANGED <<local, status, shared, over, faults>>

\* mkdir copylock, again and again, and the trap.
TakeLock(r) ==
  /\ At(r, "lock") /\ ~lock
  /\ lock' = TRUE /\ Goto(r, "copy")
  /\ UNCHANGED <<local, status, shared, over, faults>>

\* cp the new run directories to the shared ones; cp fails when there are none.
CopyNew(r) ==
  /\ At(r, "copy") /\ scratch # "no"
  /\ IF names[r] = {} THEN Fails(r) /\ UNCHANGED runs
     ELSE /\ runs' = [d \in Dir |-> IF d = mine[r] THEN r ELSE runs[d]]
          /\ Goto(r, "cut list") /\ UNCHANGED status
  /\ UNCHANGED <<local, scratch, list, lock, over, faults>>

\* There is nothing shared yet: cp everything; cp fails when this rank has nothing.
CopyAll(r) ==
  /\ At(r, "copy") /\ scratch = "no"
  /\ IF names[r] = {} THEN Fails(r) /\ UNCHANGED scratch
     ELSE scratch' = "partly" /\ Goto(r, "copy all") /\ UNCHANGED status
  /\ UNCHANGED <<local, runs, list, lock, over, faults>>
CopiedAll(r) ==
  /\ At(r, "copy all") /\ Goto(r, "unlock")
  /\ scratch' = "yes" /\ runs' = [runs EXCEPT ![mine[r]] = r] /\ list' = locallist[r]
  /\ UNCHANGED <<local, status, lock, over, faults>>

\* sed -i takes the end out of the list; while it is being copied there is no list.
CutList(r) ==
  /\ At(r, "cut list")
  /\ IF scratch = "partly" THEN Fails(r) /\ UNCHANGED list
     ELSE list' = list \ {END} /\ Goto(r, "merge list") /\ UNCHANGED status
  /\ UNCHANGED <<local, scratch, runs, lock, over, faults>>

\* Slip: what was on the disk is taken for the list.
SlipMergeList(r) ==
  /\ At(r, "merge list") /\ Goto(r, "unlock")
  /\ list' = locallist[r]
  /\ UNCHANGED <<local, status, scratch, runs, lock, over, faults>>

\* The lines diff finds only in this rank's list are appended.
MergeList(r) ==
  /\ At(r, "merge list") /\ Goto(r, "unlock")
  /\ list' = list \cup locallist[r]
  /\ UNCHANGED <<local, status, scratch, runs, lock, over, faults>>

\* rmdir fails when somebody else has removed the lock; at last, the own disk is cleared.
Unlock(r) ==
  /\ At(r, "unlock") /\ lock' = FALSE
  /\ IF lock
     THEN /\ names' = [names EXCEPT ![r] = {}] /\ locallist' = [locallist EXCEPT ![r] = {}]
          /\ Goto(r, "exit") /\ status' = [status EXCEPT ![r] = "ok"]
     ELSE Fails(r) /\ UNCHANGED <<names, locallist>>
  /\ UNCHANGED <<mine, shared, over, faults>>

\* Slip: no trap.
SlipExit(r) == At(r, "exit") /\ Goto(r, "done") /\ UNCHANGED <<local, status, shared, lock, over, faults>>

\* The trap of EXIT: rm -rf copylock, whosever it is.
Exit(r) ==
  /\ At(r, "exit") /\ Goto(r, "done") /\ lock' = FALSE
  /\ UNCHANGED <<local, status, shared, over, faults>>

Script(r) ==
  \/ Setup(r) \/ RunSpec(r) \/ TakeLock(r) \/ CopyNew(r) \/ CopyAll(r) \/ CopiedAll(r)
  \/ CutList(r) \/ MergeList(r) \/ Unlock(r) \/ Exit(r)

\* What cp has copied when it fails: all of a run directory, which other ranks then see,
\* or only some of it.
CopySome(r) == runs' = runs \/ runs' = [d \in Dir |-> IF d = mine[r] THEN r ELSE runs[d]]

\* What the last sed of the merge has appended when not all of it is: the lines are in
\* the order of their directories, the end is the last.
AppendSome(r) == \E n \in {0} \cup Dir : list' = list \cup {d \in locallist[r] : 0 < d /\ d <= n}

\* A command fails for what is outside of the script, and leaves what it has done so far:
\* one of the setup, the copy of the new run directories, or of everything, in which the
\* list may be there already; sed -i, which changes the list at its end only, also when
\* it puts the paths right in the one just copied; the append to the list; rmdir, which
\* leaves the lock to the trap, or the rm after it.  That sed or diff fails in front of
\* the append is not noticed.
CommandFails(r) ==
  /\ faults < MaxFaults /\ faults' = faults + 1
  /\ \/ /\ pc[r] \in {"setup", "cut list"}
        /\ Fails(r) /\ UNCHANGED <<shared, lock>>
     \/ /\ At(r, "copy") /\ Fails(r)
        /\ IF scratch = "no" THEN UNCHANGED runs ELSE CopySome(r)
        /\ UNCHANGED <<scratch, list, lock>>
     \/ /\ At(r, "copy all") /\ Fails(r) /\ CopySome(r)
        /\ \/ UNCHANGED <<scratch, list>>
           \/ scratch' = "yes" /\ list' = locallist[r]
        /\ UNCHANGED lock
     \/ /\ At(r, "merge list") /\ AppendSome(r)
        /\ Fails(r) \/ (Goto(r, "unlock") /\ UNCHANGED status)
        /\ UNCHANGED <<scratch, runs, lock>>
     \/ /\ At(r, "unlock") /\ Fails(r)
        /\ lock' \in {lock, FALSE} /\ UNCHANGED shared
  /\ UNCHANGED <<local, over>>

AllDone == \A r \in Rank : pc[r] = "done"

\* The time reserved with prun is over: what still runs is killed.
TimeOver ==
  /\ ~AllDone /\ over' = TRUE /\ pc' = [r \in Rank |-> "done"]
  /\ status' = [r \in Rank |-> IF pc[r] = "done" THEN status[r] ELSE "failed"]
  /\ UNCHANGED <<local, shared, lock, faults>>

Next == TimeOver \/ \E r \in Rank : Script(r) \/ CommandFails(r)
Spec == Init /\ [][Next]_specRunVars

\* Properties -------------------------------------------------------------------------

Inside(r) == pc[r] \in {"copy", "copy all", "cut list", "merge list", "unlock"}

\* The lock keeps two ranks from copying to the shared directory at the same time.
LockExcludes == \A r, s \in Rank : Inside(r) /\ Inside(s) => r = s

\* A job that was not killed leaves no lock behind, on which the next job would wait
\* for ever, whichever of its commands failed.
LockReleased == AllDone /\ ~over => ~lock

\* Nothing that was run is lost, whatever the ranks find when they merge, and whichever
\* commands fail: a rank that ended well has its run directory, or that of a rank that
\* took the same name, in the shared directory.  Unless a command has failed for what is
\* outside of the script, the shared list names exactly the run directories there.
RunsListed ==
  /\ \A r \in Rank : status[r] = "ok" /\ mine[r] # END => runs[mine[r]] # NoOne
  /\ AllDone /\ ~over /\ faults = 0 => list \ {END} = {d \in Dir : runs[d] # NoOne}
=============================================================================
