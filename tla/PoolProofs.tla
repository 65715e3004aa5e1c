----------------------------- MODULE PoolProofs -----------------------------
(***************************************************************************)
(* The process pool, for any number of jobs.                               *)
(*                                                                         *)
(* The poller thread survives as long as hang-ups are seen after the exit  *)
(* and all output is ASCII (PollerSurvives): every event it still has to   *)
(* handle is one of a registered pipe, every registered pipe is in         *)
(* self.jobs, and a job whose pipe hung up has an exit status.             *)
(*                                                                         *)
(* What a job wrote is in its outfile when it is reported, but for what    *)
(* the last read left in the pipe (NoOutputLost): the pipe of a job that   *)
(* was reported is not read again, since the job has left self.jobs.       *)
(* The jobs that run take at most --parallelmax nodes (RunningBounded),    *)
(* for which the sum of the nodes of a set is reasoned about first.        *)
(***************************************************************************)
EXTENDS Pool, FiniteSetTheorems, WellFoundedInduction, TLAPS

\* The types the argument needs.
Types ==
  /\ jobs \subseteq Job /\ registered \subseteq Job /\ current \subseteq Job
  /\ process \in [Job -> {"none", "running", "closed", "exited"}]
  /\ event.job \subseteq Job
  /\ \A e \in events : e.job \subseteq Job

\* The job being started is in self.jobs before its pipe is registered, and
\* it is a new one.
StoredFirst ==
  /\ registered \subseteq jobs
  /\ main = "register" => current \subseteq jobs
  /\ \A j \in registered : process[j] # "none"
  /\ main \in {"store", "register"} =>
       current \cap registered = {} /\ \A j \in current : process[j] # "none"
  /\ main \in {"wait", "count", "start"} => \A j \in current : process[j] = "none"

\* What is known of an event until it has been handled.
Pending(e) ==
  /\ e.job \subseteq registered
  /\ e.in \/ e.hup
  /\ e.hup => \A j \in e.job : process[j] = "exited"

EventsOK ==
  /\ \A e \in events : Pending(e)
  /\ \A e, f \in events : e # f => e.job \cap f.job = {}
  /\ poller \in {"read", "pop"} =>
       Pending(event) /\ \A e \in events : e.job \cap event.job = {}
  /\ poller = "pop" => event.hup
  /\ poller \in {"verdict", "onerror"} => \A j \in event.job : process[j] = "exited"

PInv == Types /\ StoredFirst /\ EventsOK /\ PollerAlive

\* A step of the main thread or of a process leaves the poller's variables
\* alone, and the registered pipes and exited processes stay what they are.
LEMMA OthersKeepEvents ==
  ASSUME Types, EventsOK, PollerAlive,
         UNCHANGED <<poller, events, event>>,
         registered \subseteq registered',
         \A j \in Job : process[j] = "exited" => process'[j] = "exited"
  PROVE  EventsOK' /\ PollerAlive'
BY DEF Types, EventsOK, PollerAlive, Pending

\* The poller survives every step.
LEMMA PollerStepKeeps ==
  ASSUME PInv, PollerStep, HangUpAfterExit, Undecodable = {}
  PROVE  PInv'
<1> USE DEF PInv, Types, StoredFirst, EventsOK, PollerAlive, Pending
<1>1. CASE Poll
  <2>1. UNCHANGED <<jobs, registered, main, current, size, event, process>>
    BY <1>1 DEF Poll, mainVars, procVars
  <2>2. \A e \in events' : \E j \in registered :
          /\ e = [job |-> {j}, in |-> pipe[j] > 0, hup |-> HungUp(j)]
          /\ pipe[j] > 0 \/ HungUp(j)
    BY <1>1 DEF Poll
  <2>3. \A j : HungUp(j) => process[j] = "exited"
    BY DEF HungUp
  <2>4. ASSUME NEW e \in events' PROVE Pending(e)' /\ e.job \subseteq registered
    <3>1. PICK j \in registered :
            /\ e = [job |-> {j}, in |-> pipe[j] > 0, hup |-> HungUp(j)]
            /\ pipe[j] > 0 \/ HungUp(j)
      BY <2>2
    <3>2. e.job = {j} /\ (e.in = (pipe[j] > 0)) /\ (e.hup = HungUp(j))
      BY <3>1
    <3> QED
      BY <2>1, <2>3, <3>1, <3>2
  <2>5. \A e, f \in events' : e # f => e.job \cap f.job = {}
    BY <2>2
  <2>6. poller' = "next"
    BY <1>1 DEF Poll
  <2> QED
    BY <2>1, <2>4, <2>5, <2>6
<1>2. CASE NextEvent
  BY <1>2 DEF NextEvent, mainVars, procVars
<1>3. CASE ProcessOutput
  BY <1>3 DEF ProcessOutput, mainVars
<1>4. CASE Pop
  <2>1. /\ event.job \subseteq jobs /\ poller' = "verdict"
        /\ \A j \in event.job : process[j] = "exited"
    BY <1>4 DEF Pop
  <2>2. \A e \in events : Pending(e)'
    BY <1>4 DEF Pop, procVars
  <2> QED
    BY <1>4, <2>1, <2>2 DEF Pop, mainVars, procVars
<1>5. CASE Verdict
  BY <1>5 DEF Verdict, mainVars, procVars
<1>6. CASE OnError
  BY <1>6 DEF OnError, mainVars, procVars
<1> QED
  BY PollerStep, <1>1, <1>2, <1>3, <1>4, <1>5, <1>6 DEF PollerStep

\* So does it every step of the main thread.
LEMMA MainStepKeeps ==
  ASSUME PInv, MainStep \/ \E j \in Job : MakeJob(j)
  PROVE  PInv'
<1> USE DEF PInv, Types, StoredFirst, pollVars, procVars
<1>1. CASE \E j \in Job : MakeJob(j)
  BY <1>1, OthersKeepEvents DEF MakeJob
<1>2. CASE CountBegin
  BY <1>2, OthersKeepEvents DEF CountBegin
<1>3. CASE CountEnd
  BY <1>3, OthersKeepEvents DEF CountEnd
<1>4. CASE Start
  BY <1>4, OthersKeepEvents DEF Start
<1>5. CASE Store
  BY <1>5, OthersKeepEvents DEF Store
<1>6. CASE Register
  BY <1>6, OthersKeepEvents DEF Register
<1>7. CASE WaitAll \/ WaitAllDone
  BY <1>7, OthersKeepEvents DEF WaitAll, WaitAllDone
<1> QED
  BY <1>1, <1>2, <1>3, <1>4, <1>5, <1>6, <1>7 DEF MainStep

\* With the exit status at hand when a hang-up is seen, and ASCII output, no interleaving of
\* run(), the processes and the poller ends the poller thread.
THEOREM PollerSurvives == HangUpAfterExit /\ Undecodable = {} /\ Spec => []PollerAlive
<1> SUFFICES ASSUME HangUpAfterExit, Undecodable = {} PROVE Spec => []PollerAlive
  OBVIOUS
<1>1. Init => PInv
  BY DEF Init, PInv, Types, StoredFirst, EventsOK, PollerAlive, Pending, NoJob
<1>2. PInv /\ [Next]_vars => PInv'
  <2> SUFFICES ASSUME PInv, [Next]_vars PROVE PInv'
    OBVIOUS
  <2>1. CASE PollerStep
    BY <2>1, PollerStepKeeps
  <2>2. CASE MainStep \/ \E j \in Job : MakeJob(j)
    BY <2>2, MainStepKeeps
  <2>3. ASSUME NEW j \in Job, Write(j) \/ ProcessStep(j) PROVE PInv'
    BY <2>3, OthersKeepEvents
    DEF PInv, Types, StoredFirst, Write, ProcessStep, Close, Exit, mainVars, pollVars
  <2>4. CASE UNCHANGED vars
    BY <2>4 DEF PInv, Types, StoredFirst, EventsOK, PollerAlive, Pending, vars
  <2> QED
    BY <2>1, <2>2, <2>3, <2>4 DEF Next
<1>3. PInv => PollerAlive
  BY DEF PInv
<1> QED
  BY <1>1, <1>2, <1>3, PTL DEF Spec

\* The output --------------------------------------------------------------------------

\* Units of output are counted in naturals, and those that were written are at
\* least those in the pipe and those saved.
Counted ==
  /\ written \in [Job -> Nat] /\ pipe \in [Job -> Nat] /\ saved \in [Job -> Nat]
  /\ reported \in [Job -> {"no", "finished", "error"}]
  /\ \A j \in Job : saved[j] + pipe[j] <= written[j]

\* The process of the job writes no more.
Ended(j) == process[j] \in {"closed", "exited"}

\* The job being started has no process yet.
NewOnes ==
  /\ process \in [Job -> {"none", "running", "closed", "exited"}]
  /\ current \subseteq Job /\ registered \subseteq Job
  /\ main \in {"wait", "count", "start"} => \A j \in current : process[j] = "none"

\* The last read of a pipe left nothing in it, or was a whole one.
LastRead(j) == pipe[j] = 0 \/ saved[j] >= Chunk

\* A hang-up the poller has seen tells that no more is written, and that there is
\* nothing in the pipe when there was nothing to read.
Final(e) == e.hup => \A j \in e.job : Ended(j) /\ (~e.in => pipe[j] = 0)

HangUpsFinal ==
  /\ event.job \subseteq Job
  /\ \A e \in events : e.job \subseteq Job /\ (e.in \/ e.hup) /\ Final(e)
  /\ poller = "read" => Final(event)
  /\ poller \in {"pop", "verdict", "onerror"} => \A j \in event.job : Ended(j) /\ LastRead(j)

\* Unless the poller has died, what was written is saved or in the pipe; and so is
\* what a job wrote that was reported, whose last read was final.
Accounted ==
  /\ poller # "dead" => \A j \in Job : written[j] = saved[j] + pipe[j]
  /\ \A j \in Job : reported[j] # "no" =>
       Ended(j) /\ LastRead(j) /\ saved[j] + pipe[j] = written[j]

\* The job was started before the one that is being started.
Started(j) == process[j] # "none" /\ (main \in {"store", "register"} => j \notin current)

\* The poller has only to do with such jobs, and one it has reported or is about to
\* report is in the queue no more, so that its pipe is not read again.
Settled ==
  /\ main \in {"store", "register"} => \A j \in current : process[j] # "none"
  /\ \A j \in registered : Started(j)
  /\ \A e \in events : \A j \in e.job : Started(j)
  /\ poller \in {"read", "pop", "verdict", "onerror"} => \A j \in event.job : Started(j)
  /\ poller \in {"verdict", "onerror"} => event.job \cap jobs = {}
  /\ \A j \in Job : reported[j] # "no" => Started(j) /\ j \notin jobs

OInv == Counted /\ NewOnes /\ HangUpsFinal /\ Accounted

\* A step that starts and ends no process, and reads and reports nothing, keeps the
\* account; so does one that only ends processes.
LEMMA AccountKept ==
  ASSUME Counted, Accounted,
         UNCHANGED <<saved, reported, written, pipe>>,
         poller # "dead" \/ poller' = "dead",
         \A j \in Job : Ended(j) => Ended(j)'
  PROVE  Counted' /\ Accounted'
BY DEF Counted, Accounted, LastRead

\* What the poller has reported stays settled, whatever it does next.
LEMMA PollerSettles ==
  ASSUME Settled, NewOnes, PollerStep
  PROVE  Settled'
<1> USE DEF Settled, Started
<1>1. UNCHANGED <<main, current, process>> /\ registered' \subseteq registered
  BY DEF PollerStep, Poll, NextEvent, ProcessOutput, Pop, Verdict, OnError, mainVars, procVars
<1>2. CASE Poll
  <2>1. UNCHANGED <<jobs, registered, event, reported>> /\ poller' = "next"
    BY <1>2 DEF Poll
  <2>2. \A e \in events' : \E j \in registered :
          e = [job |-> {j}, in |-> pipe[j] > 0, hup |-> HungUp(j)]
    BY <1>2 DEF Poll
  <2>3. \A e \in events' : e.job \subseteq registered
    BY <2>2
  <2> QED
    BY <1>1, <2>1, <2>3
<1>3. CASE NextEvent
  BY <1>1, <1>3 DEF NextEvent
<1>4. CASE ProcessOutput
  BY <1>1, <1>4 DEF ProcessOutput
<1>5. CASE Pop
  BY <1>1, <1>5 DEF Pop
<1>6. CASE Verdict
  <2>1. \A j \in Job : reported'[j] # reported[j] => j \in event.job
    BY <1>6 DEF Verdict
  <2>2. UNCHANGED <<jobs, events, event>> /\ poller = "verdict"
        /\ poller' \in {"next", "onerror"}
    BY <1>6 DEF Verdict
  <2> QED
    BY <1>1, <2>1, <2>2
<1>7. CASE OnError
  <2>1. \A j \in Job : reported'[j] # reported[j] => j \in event.job
    BY <1>7 DEF OnError
  <2>2. UNCHANGED <<jobs, events, event>> /\ poller = "onerror" /\ poller' \in {"next", "dead"}
    BY <1>7 DEF OnError
  <2> QED
    BY <1>1, <2>1, <2>2
<1> QED
  BY PollerStep, <1>2, <1>3, <1>4, <1>5, <1>6, <1>7 DEF PollerStep

\* The main thread starts only jobs that have not run before.
LEMMA OthersSettle ==
  ASSUME Settled, NewOnes, HangUpsFinal,
         \/ MainStep
         \/ \E j \in Job : MakeJob(j) \/ Write(j) \/ ProcessStep(j)
  PROVE  Settled'
<1> USE DEF Settled, Started
<1>1. UNCHANGED <<poller, events, event, reported>>
  BY DEF MainStep, CountBegin, CountEnd, Start, Store, Register, WaitAll, WaitAllDone,
         MakeJob, Write, ProcessStep, Close, Exit, pollVars
<1>2. CASE Start
  BY <1>1, <1>2 DEF Start, NewOnes, HangUpsFinal
<1>3. CASE Store
  BY <1>1, <1>3 DEF Store, procVars
<1>4. CASE Register
  BY <1>1, <1>4 DEF Register, procVars
<1>5. CASE CountBegin \/ CountEnd \/ WaitAll \/ WaitAllDone \/ \E j \in Job : MakeJob(j)
  BY <1>1, <1>5 DEF CountBegin, CountEnd, WaitAll, WaitAllDone, MakeJob, procVars
<1>6. ASSUME NEW j \in Job, Write(j) \/ ProcessStep(j) PROVE Settled'
  <2>1. /\ UNCHANGED <<jobs, registered, main, current>>
        /\ \A k \in Job : process[k] # "none" => process'[k] # "none"
    BY <1>6 DEF Write, ProcessStep, Close, Exit, mainVars, NewOnes
  <2> QED
    BY <1>1, <2>1 DEF NewOnes, HangUpsFinal
<1> QED
  BY <1>2, <1>3, <1>4, <1>5, <1>6 DEF MainStep

\* Every step of the poller keeps account of the output.
LEMMA PollerAccounts ==
  ASSUME OInv, Settled, PollerStep, Chunk \in Nat
  PROVE  OInv'
<1> USE DEF OInv
<1>1. CASE Poll
  <2>1. /\ UNCHANGED <<main, registered, current, event, saved, reported, process, written, pipe>>
        /\ poller = "poll" /\ poller' = "next"
    BY <1>1 DEF Poll, mainVars, procVars
  <2>2. \A j : HungUp(j) => Ended(j)
    BY DEF HungUp, Ended
  <2>3. ASSUME NEW e \in events' PROVE e.job \subseteq Job /\ (e.in \/ e.hup) /\ Final(e)'
    <3>1. PICK j \in registered :
            /\ e = [job |-> {j}, in |-> pipe[j] > 0, hup |-> HungUp(j)]
            /\ pipe[j] > 0 \/ HungUp(j)
      BY <1>1 DEF Poll
    <3>2. e.job = {j} /\ (e.in <=> pipe[j] > 0) /\ (e.hup <=> HungUp(j))
      BY <3>1
    <3>3. j \in Job /\ pipe[j] \in Nat
      BY <3>1 DEF NewOnes, Counted
    <3>4. ~e.in => pipe[j] = 0
      BY <3>2, <3>3
    <3>5. e.hup => Ended(j)
      BY <2>2, <3>2
    <3> QED
      BY <2>1, <3>1, <3>2, <3>3, <3>4, <3>5 DEF Final, Ended
  <2>4. NewOnes'
    BY <2>1 DEF NewOnes
  <2>5. Counted' /\ Accounted'
    BY <2>1, AccountKept DEF Ended
  <2>6. HangUpsFinal'
    BY <2>1, <2>3 DEF HangUpsFinal
  <2> QED
    BY <2>4, <2>5, <2>6
<1>2. CASE NextEvent
  <2>1. UNCHANGED <<main, registered, current, saved, reported, process, written, pipe>>
    BY <1>2 DEF NextEvent, mainVars, procVars
  <2>2. Counted' /\ Accounted' /\ NewOnes'
    BY <1>2, <2>1, AccountKept DEF NextEvent, Ended, NewOnes
  <2>3. HangUpsFinal'
    BY <1>2, <2>1 DEF NextEvent, HangUpsFinal, Final, Ended, LastRead
  <2> QED
    BY <2>2, <2>3
<1>3. CASE ProcessOutput
  <2>1. /\ UNCHANGED <<main, current, registered, events, event, reported, process, written>>
        /\ poller = "read" /\ poller' \in {"pop", "next", "dead"}
        /\ poller' = "pop" => event.hup
    BY <1>3 DEF ProcessOutput, mainVars
  <2>2. /\ pipe' \in [Job -> Nat] /\ saved' \in [Job -> Nat]
        /\ \A j \in Job : /\ pipe'[j] <= pipe[j] /\ saved'[j] >= saved[j]
                          /\ saved'[j] + pipe'[j] <= written[j]
    BY <1>3 DEF ProcessOutput, Units, Counted
  <2>3. ASSUME NEW j \in event.job, poller' # "dead" PROVE LastRead(j)'
    <3>1. event.job \subseteq jobs /\ j \in Job
      BY <1>3, <2>3 DEF ProcessOutput, HangUpsFinal
    <3>2. pipe'[j] = pipe[j] - Units(j) /\ saved'[j] = saved[j] + Units(j)
      BY <1>3, <3>1, <2>3 DEF ProcessOutput
    <3>3. pipe[j] \in Nat /\ saved[j] \in Nat
      BY <3>1 DEF Counted
    <3>4. Units(j) = pipe[j] \/ Units(j) = Chunk
      BY DEF Units
    <3> QED
      BY <3>2, <3>3, <3>4 DEF LastRead
  <2>4. \A j \in Job : poller' # "dead" => saved'[j] + pipe'[j] = saved[j] + pipe[j]
    BY <1>3 DEF ProcessOutput, Units, Counted
  <2>5. Counted' /\ NewOnes'
    BY <2>1, <2>2 DEF Counted, NewOnes
  <2>6. ASSUME NEW j \in Job, reported[j] # "no" PROVE pipe'[j] = pipe[j] /\ saved'[j] = saved[j]
    <3>1. j \notin jobs
      BY <2>6 DEF Settled
    <3>2. CASE event.job \subseteq jobs
      BY <1>3, <2>6, <3>1, <3>2 DEF ProcessOutput
    <3>3. CASE ~(event.job \subseteq jobs)
      BY <1>3, <2>6, <3>3 DEF ProcessOutput
    <3> QED
      BY <3>2, <3>3
  <2>7. Accounted'
    BY <2>1, <2>4, <2>6 DEF Accounted, Ended, LastRead
  <2>8. \A e : e.job \subseteq Job /\ Final(e) => Final(e)'
    BY <2>1, <2>2 DEF Final, Ended, Counted
  <2>9. HangUpsFinal'
    BY <2>1, <2>3, <2>8 DEF HangUpsFinal, Final, Ended
  <2> QED
    BY <2>5, <2>7, <2>9
<1>4. CASE Pop
  <2>1. /\ UNCHANGED <<main, current, events, event, saved, reported, process, written, pipe>>
        /\ poller = "pop" /\ poller' \in {"verdict", "dead"} /\ registered' \subseteq registered
    BY <1>4 DEF Pop, mainVars, procVars
  <2>2. Counted' /\ Accounted' /\ NewOnes'
    BY <2>1, AccountKept DEF Ended, NewOnes
  <2>3. HangUpsFinal'
    BY <2>1 DEF HangUpsFinal, Final, Ended, LastRead
  <2> QED
    BY <2>2, <2>3
<1>5. CASE Verdict \/ OnError
  <2>1. /\ UNCHANGED <<main, current, registered, events, event, saved, process, written, pipe>>
        /\ poller \in {"verdict", "onerror"} /\ poller' \in {"next", "onerror", "dead"}
    BY <1>5 DEF Verdict, OnError, mainVars, procVars
  <2>2. /\ reported' \in [Job -> {"no", "finished", "error"}]
        /\ \A j \in Job : reported'[j] # reported[j] => j \in event.job
    BY <1>5 DEF Verdict, OnError, Counted
  <2>3. Counted' /\ NewOnes'
    BY <2>1, <2>2 DEF Counted, NewOnes
  <2>4. Accounted'
    BY <2>1, <2>2 DEF Accounted, Counted, HangUpsFinal, Ended, LastRead
  <2>5. HangUpsFinal'
    BY <2>1 DEF HangUpsFinal, Final, Ended, LastRead
  <2> QED
    BY <2>3, <2>4, <2>5
<1> QED
  BY PollerStep, <1>1, <1>2, <1>3, <1>4, <1>5 DEF PollerStep

\* So does every step of the main thread and of a process.
LEMMA OthersAccount ==
  ASSUME OInv,
         \/ MainStep
         \/ \E j \in Job : MakeJob(j) \/ Write(j) \/ ProcessStep(j)
  PROVE  OInv'
<1> USE DEF OInv
<1>1. ASSUME UNCHANGED <<poller, events, event, saved, reported, written, pipe>>,
             \A j \in Job : Ended(j) => Ended(j)'
      PROVE  Counted' /\ Accounted' /\ HangUpsFinal'
  BY <1>1, AccountKept DEF HangUpsFinal, Final, LastRead
<1>2. CASE MainStep
  <2>1. UNCHANGED <<poller, events, event, saved, reported, written, pipe>>
    BY <1>2 DEF MainStep, CountBegin, CountEnd, Start, Store, Register, WaitAll, WaitAllDone,
                pollVars, procVars
  <2>2. NewOnes' /\ \A j \in Job : Ended(j) => Ended(j)'
    BY <1>2 DEF MainStep, CountBegin, CountEnd, Start, Store, Register, WaitAll, WaitAllDone,
                procVars, NewOnes, Ended
  <2> QED
    BY <1>1, <2>1, <2>2
<1>3. ASSUME NEW j \in Job, MakeJob(j) PROVE OInv'
  BY <1>1, <1>3 DEF MakeJob, pollVars, procVars, NewOnes, Ended
<1>4. ASSUME NEW j \in Job, Write(j) PROVE OInv'
  <2>1. /\ UNCHANGED <<main, current, registered, poller, events, event, saved, reported, process>>
        /\ process[j] = "running"
        /\ written' = [written EXCEPT ![j] = @ + 1] /\ pipe' = [pipe EXCEPT ![j] = @ + 1]
    BY <1>4 DEF Write, mainVars, pollVars
  <2>2. Counted' /\ Accounted'
    BY <2>1 DEF Counted, Accounted, Ended, LastRead
  <2>3. HangUpsFinal' /\ NewOnes'
    BY <2>1 DEF HangUpsFinal, NewOnes, Final, Ended, Counted, LastRead
  <2> QED
    BY <2>2, <2>3
<1>5. ASSUME NEW j \in Job, ProcessStep(j) PROVE OInv'
  <2>1. UNCHANGED <<main, current, registered, poller, events, event, saved, reported, written, pipe>>
    BY <1>5 DEF ProcessStep, Close, Exit, mainVars, pollVars
  <2>2. NewOnes' /\ \A k \in Job : Ended(k) => Ended(k)'
    BY <1>5, <2>1 DEF ProcessStep, Close, Exit, NewOnes, Ended
  <2> QED
    BY <1>1, <2>1, <2>2
<1> QED
  BY <1>2, <1>3, <1>4, <1>5

\* Of a job that is reported nothing is lost but what is in its pipe after the last read,
\* and that is nothing unless a whole read of its output was saved: whether or not its
\* process has exited when the hang-up is seen, whatever characters it writes, and
\* however much (OutputSaved).
THEOREM NoOutputLost == Spec => []OutputSaved
<1>1. Init => OInv /\ Settled
  BY PoolAssumption DEF Init, OInv, Settled, Counted, NewOnes, HangUpsFinal, Accounted, Final, NoJob
<1>2. OInv /\ Settled /\ [Next]_vars => OInv' /\ Settled'
  <2> SUFFICES ASSUME OInv, Settled, [Next]_vars PROVE OInv' /\ Settled'
    OBVIOUS
  <2>1. CASE PollerStep
    BY <2>1, PollerAccounts, PollerSettles, PoolAssumption DEF OInv
  <2>2. CASE MainStep \/ \E j \in Job : MakeJob(j) \/ Write(j) \/ ProcessStep(j)
    BY <2>2, OthersAccount, OthersSettle DEF OInv
  <2>3. CASE UNCHANGED vars
    BY <2>3 DEF OInv, Settled, Started, Counted, NewOnes, HangUpsFinal, Accounted, Final, Ended,
                LastRead, vars
  <2> QED
    BY <2>1, <2>2, <2>3 DEF Next
<1>3. OInv => OutputSaved
  BY DEF OInv, Accounted, LastRead, Counted, OutputSaved
<1> QED
  BY <1>1, <1>2, <1>3, PTL DEF Spec

\* The sum of nodes ---------------------------------------------------------------------

\* Induction, for a set that is given: one that is not all of Nat lacks a least number.
LEMMA Induction ==
  ASSUME NEW T, 0 \in T, \A n \in Nat : n \in T => n + 1 \in T
  PROVE  Nat \subseteq T
<1> DEFINE R == {p \in Nat \X Nat : p[1] < p[2]}
           U == Nat \ T
<1>1. IsWellFoundedOn(R, Nat)
  BY NatLessThanWellFounded DEF OpToRel
<1>2. \A k, m \in Nat : <<k, m>> \in R <=> k < m
  OBVIOUS
<1> HIDE DEF R
<1> SUFFICES ASSUME U # {} PROVE FALSE
  OBVIOUS
<1>3. PICK m \in U : \A k \in U : ~(<<k, m>> \in R)
  BY <1>1, WFMin
<1>4. m - 1 \in Nat /\ m - 1 < m /\ m = (m - 1) + 1
  BY <1>3
<1>5. m - 1 \in U
  BY <1>3, <1>4
<1> QED
  BY <1>2, <1>3, <1>4, <1>5

Chosen(s) == CHOOSE j \in s : TRUE

\* f adds up nodes as the fold does, one chosen job after the other, on these sets.
AddsUp(f, sets) ==
  \A s \in sets : f[s] = IF s = {} THEN 0 ELSE nnodes[Chosen(s)] + f[s \ {Chosen(s)}]

\* A finite set and the set without one of its elements.
LEMMA OneLess ==
  ASSUME NEW s, IsFiniteSet(s), s # {}, NEW x \in s
  PROVE  /\ IsFiniteSet(s \ {x}) /\ Cardinality(s) \in Nat
         /\ Cardinality(s \ {x}) \in Nat /\ Cardinality(s) = Cardinality(s \ {x}) + 1
<1>1. IsFiniteSet(s \ {x}) /\ Cardinality(s \ {x}) = Cardinality(s) - 1
  BY FS_RemoveElement
<1>2. Cardinality(s) \in Nat /\ Cardinality(s \ {x}) \in Nat
  BY <1>1, FS_CardinalityType
<1> QED
  BY <1>1, <1>2

\* The fold of a finite set is what such a function gives for it.
LEMMA FoldAddsUp ==
  ASSUME NEW S, IsFiniteSet(S)
  PROVE  \E f : AddsUp(f, SUBSET S) /\ NodesOf(S) = f[S]
<1> DEFINE Small(n) == {s \in SUBSET S : Cardinality(s) <= n}
           T == {n \in Nat : \E f : AddsUp(f, Small(n))}
<1>1. \A s \in SUBSET S : IsFiniteSet(s) /\ Cardinality(s) \in Nat
                          /\ (Cardinality(s) = 0 <=> s = {})
                          /\ Cardinality(s) <= Cardinality(S)
  BY FS_Subset, FS_CardinalityType, FS_EmptySet
<1>2. 0 \in T
  <2> DEFINE f == [s \in SUBSET S |-> 0]
  <2>1. AddsUp(f, Small(0))
    BY <1>1 DEF AddsUp
  <2> QED
    BY <2>1
<1>3. ASSUME NEW n \in Nat, n \in T PROVE n + 1 \in T
  <2>1. PICK f : AddsUp(f, Small(n))
    BY <1>3
  <2> DEFINE g == [s \in SUBSET S |-> IF s \in Small(n) THEN f[s]
                                      ELSE nnodes[Chosen(s)] + f[s \ {Chosen(s)}]]
  <2>2. ASSUME NEW s \in Small(n + 1)
        PROVE  g[s] = IF s = {} THEN 0 ELSE nnodes[Chosen(s)] + g[s \ {Chosen(s)}]
    <3>1. CASE s = {}
      <4>1. s \in Small(n)
        BY <1>1, <3>1
      <4> QED
        BY <2>1, <3>1, <4>1 DEF AddsUp
    <3>2. CASE s # {}
      <4>1. Chosen(s) \in s
        BY <3>2 DEF Chosen
      <4>2. s \ {Chosen(s)} \in Small(n) /\ s \in SUBSET S
        BY <1>1, <3>2, <4>1, OneLess
      <4>3. g[s \ {Chosen(s)}] = f[s \ {Chosen(s)}]
        BY <4>2
      <4>4. g[s] = nnodes[Chosen(s)] + f[s \ {Chosen(s)}]
        <5>1. CASE s \in Small(n)
          BY <2>1, <3>2, <5>1 DEF AddsUp
        <5>2. CASE s \notin Small(n)
          BY <4>2, <5>2
        <5> QED
          BY <5>1, <5>2
      <4> QED
        BY <3>2, <4>3, <4>4
    <3> QED
      BY <3>1, <3>2
  <2> HIDE DEF g
  <2>3. AddsUp(g, Small(n + 1))
    BY <2>2 DEF AddsUp
  <2>4. n + 1 \in Nat
    OBVIOUS
  <2> QED
    BY <2>3, <2>4
<1>4. Cardinality(S) \in T
  <2> HIDE DEF T
  <2>1. Nat \subseteq T
    BY <1>2, <1>3, Induction
  <2> QED
    BY <1>1, <2>1
<1>5. PICK f : AddsUp(f, Small(Cardinality(S)))
  BY <1>4
<1>6. Small(Cardinality(S)) = SUBSET S
  BY <1>1
<1> DEFINE h == [s \in SUBSET S |-> f[s]]
           Fold(it) == [s \in SUBSET S |-> IF s = {} THEN 0
                                          ELSE nnodes[Chosen(s)] + it[s \ {Chosen(s)}]]
<1>7. \E it : it = Fold(it)
  <2>1. \A s \in SUBSET S : s \ {Chosen(s)} \in SUBSET S
    OBVIOUS
  <2>2. h = Fold(h)
    BY <1>5, <1>6, <2>1 DEF AddsUp
  <2> HIDE DEF h
  <2> QED
    BY <2>2
<1> DEFINE sum == CHOOSE it : it = Fold(it)
<1>8. NodesOf(S) = sum[S]
  BY Zenon DEF NodesOf, MapThenSumSet, MapThenFoldSet, Chosen
<1>9. sum = Fold(sum)
  BY <1>7, Zenon
<1> HIDE DEF sum
<1>10. AddsUp(sum, SUBSET S)
  BY <1>9 DEF AddsUp
<1> QED
  BY <1>8, <1>10

\* Two such functions agree where both add up.
LEMMA SumsAgree ==
  ASSUME NEW f, NEW g, NEW S, NEW T, AddsUp(f, SUBSET S), AddsUp(g, SUBSET T),
         NEW s, s \subseteq S, s \subseteq T, IsFiniteSet(s)
  PROVE  f[s] = g[s]
<1> DEFINE N == {n \in Nat : \A r : /\ IsFiniteSet(r) /\ Cardinality(r) = n
                                    /\ r \subseteq S /\ r \subseteq T
                                    => f[r] = g[r]}
<1>1. 0 \in N
  BY FS_EmptySet DEF AddsUp
<1>2. ASSUME NEW n \in Nat, n \in N PROVE n + 1 \in N
  <2>1. ASSUME NEW r, IsFiniteSet(r), Cardinality(r) = n + 1, r \subseteq S, r \subseteq T
        PROVE  f[r] = g[r]
    <3>1. r # {}
      BY <2>1, FS_EmptySet
    <3>2. Chosen(r) \in r
      BY <3>1 DEF Chosen
    <3>3. IsFiniteSet(r \ {Chosen(r)}) /\ Cardinality(r \ {Chosen(r)}) = n
      BY <2>1, <3>1, <3>2, OneLess, SMTT(30)
    <3>4. f[r \ {Chosen(r)}] = g[r \ {Chosen(r)}]
      BY <1>2, <2>1, <3>3
    <3> QED
      BY <2>1, <3>1, <3>4 DEF AddsUp
  <2> QED
    BY <2>1
<1> HIDE DEF N
<1>3. Nat \subseteq N /\ Cardinality(s) \in Nat
  BY <1>1, <1>2, Induction, FS_CardinalityType
<1> QED
  BY <1>3 DEF N

\* The sum of a set, by one chosen job.
LEMMA SumByChosen ==
  /\ NodesOf({}) = 0
  /\ \A S : IsFiniteSet(S) /\ S # {} =>
       NodesOf(S) = nnodes[Chosen(S)] + NodesOf(S \ {Chosen(S)})
<1>1. NodesOf({}) = 0
  BY FS_EmptySet, FoldAddsUp DEF AddsUp
<1>2. ASSUME NEW S, IsFiniteSet(S), S # {}
      PROVE  NodesOf(S) = nnodes[Chosen(S)] + NodesOf(S \ {Chosen(S)})
  <2> DEFINE T == S \ {Chosen(S)}
  <2>1. IsFiniteSet(T)
    BY <1>2, FS_Subset
  <2>2. PICK f : AddsUp(f, SUBSET S) /\ NodesOf(S) = f[S]
    BY <1>2, FoldAddsUp
  <2>3. PICK g : AddsUp(g, SUBSET T) /\ NodesOf(T) = g[T]
    BY <2>1, FoldAddsUp
  <2>4. f[T] = g[T]
    <3>1. T \subseteq S /\ T \subseteq T
      OBVIOUS
    <3> HIDE DEF T
    <3> QED
      BY <2>1, <2>2, <2>3, <3>1, SumsAgree, SMTT(30)
  <2>5. f[S] = nnodes[Chosen(S)] + f[T]
    BY <1>2, <2>2 DEF AddsUp
  <2> QED
    BY <2>2, <2>3, <2>4, <2>5
<1> QED
  BY <1>1, <1>2

\* The sum of a set of jobs is a natural number.
LEMMA SumIsNat ==
  ASSUME NEW S, S \subseteq Job, IsFiniteSet(S)
  PROVE  NodesOf(S) \in Nat
<1> DEFINE N == {n \in Nat : \A r : IsFiniteSet(r) /\ Cardinality(r) = n /\ r \subseteq Job =>
                   NodesOf(r) \in Nat}
<1>1. 0 \in N
  <2>1. \A r : IsFiniteSet(r) /\ Cardinality(r) = 0 => r = {}
    BY FS_EmptySet
  <2> QED
    BY <2>1, SumByChosen
<1>2. ASSUME NEW n \in Nat, n \in N PROVE n + 1 \in N
  <2>1. ASSUME NEW r, IsFiniteSet(r), Cardinality(r) = n + 1, r \subseteq Job
        PROVE  NodesOf(r) \in Nat
    <3>1. r # {}
      BY <2>1, FS_EmptySet
    <3> DEFINE x == Chosen(r)
    <3>2. x \in r
      BY <3>1 DEF Chosen
    <3>3. NodesOf(r) = nnodes[x] + NodesOf(r \ {x})
      BY <2>1, <3>1, SumByChosen
    <3> HIDE DEF x
    <3>4. IsFiniteSet(r \ {x}) /\ Cardinality(r \ {x}) = n /\ r \ {x} \subseteq Job
      BY <2>1, <3>1, <3>2, OneLess
    <3>5. NodesOf(r \ {x}) \in Nat
      BY <1>2, <3>4
    <3>6. nnodes[x] \in Nat
      BY <2>1, <3>2, PoolAssumption
    <3> QED
      BY <3>3, <3>5, <3>6
  <2> QED
    BY <2>1
<1> HIDE DEF N
<1>3. Nat \subseteq N /\ Cardinality(S) \in Nat
  BY <1>1, <1>2, Induction, FS_CardinalityType
<1> QED
  BY <1>3 DEF N

\* It does not depend on which job is taken first.
LEMMA SumByAny ==
  ASSUME NEW S, S \subseteq Job, IsFiniteSet(S), NEW y \in S
  PROVE  NodesOf(S) = nnodes[y] + NodesOf(S \ {y})
<1> DEFINE N == {n \in Nat : \A r : IsFiniteSet(r) /\ Cardinality(r) = n /\ r \subseteq Job =>
                   \A j \in r : NodesOf(r) = nnodes[j] + NodesOf(r \ {j})}
<1>1. 0 \in N
  <2>1. \A r : IsFiniteSet(r) /\ Cardinality(r) = 0 => r = {}
    BY FS_EmptySet
  <2> QED
    BY <2>1
<1>2. ASSUME NEW n \in Nat, n \in N PROVE n + 1 \in N
  <2>1. ASSUME NEW r, IsFiniteSet(r), Cardinality(r) = n + 1, r \subseteq Job, NEW j \in r
        PROVE  NodesOf(r) = nnodes[j] + NodesOf(r \ {j})
    <3> DEFINE x == Chosen(r)
    <3>1. r # {} /\ x \in r
      BY <2>1 DEF Chosen
    <3>2. NodesOf(r) = nnodes[x] + NodesOf(r \ {x})
      BY <2>1, <3>1, SumByChosen
    <3> HIDE DEF x
    <3>3. CASE j = x
      BY <3>2, <3>3
    <3>4. CASE j # x
      <4> DEFINE u == r \ {x}
                 v == r \ {j}
                 w == r \ {x, j}
      <4>1. /\ IsFiniteSet(u) /\ Cardinality(u) = n /\ u \subseteq Job /\ j \in u
            /\ IsFiniteSet(v) /\ Cardinality(v) = n /\ v \subseteq Job /\ x \in v
            /\ u \ {j} = w /\ v \ {x} = w
        <5>1. IsFiniteSet(u) /\ Cardinality(u) = n
          BY <2>1, <3>1, OneLess
        <5>2. IsFiniteSet(v) /\ Cardinality(v) = n
          <6>1. IsFiniteSet(r) /\ Cardinality(r) = n + 1 /\ r # {}
            BY <2>1, <3>1
          <6> HIDE DEF N, u, w, x
          <6>2. /\ IsFiniteSet(r \ {j}) /\ Cardinality(r \ {j}) \in Nat
                /\ Cardinality(r) = Cardinality(r \ {j}) + 1
            BY <6>1, OneLess
          <6> QED
            BY <6>1, <6>2
        <5>3. u \subseteq Job /\ v \subseteq Job
          BY <2>1
        <5>4. j \in u /\ x \in v
          BY <2>1, <3>1, <3>4
        <5>5. u \ {j} = w /\ v \ {x} = w
          OBVIOUS
        <5> HIDE DEF u, v, w, x
        <5> QED
          BY <5>1, <5>2, <5>3, <5>4, <5>5
      <4>2. IsFiniteSet(w) /\ w \subseteq Job
        <5>1. w \subseteq r
          OBVIOUS
        <5> HIDE DEF w
        <5> QED
          BY <2>1, <5>1, FS_Subset
      <4> HIDE DEF u, v, w
      <4>3. NodesOf(u) = nnodes[j] + NodesOf(w) /\ NodesOf(v) = nnodes[x] + NodesOf(w)
        BY <1>2, <4>1
      <4>4. NodesOf(w) \in Nat /\ nnodes[x] \in Nat /\ nnodes[j] \in Nat
        BY <2>1, <3>1, <4>2, SumIsNat, PoolAssumption
      <4>5. NodesOf(r) = nnodes[x] + NodesOf(u)
        BY <3>2 DEF u
      <4>6. NodesOf(r) = nnodes[j] + NodesOf(v)
        BY <4>3, <4>4, <4>5
      <4> QED
        BY <4>6 DEF v
    <3> QED
      BY <3>3, <3>4
  <2> QED
    BY <2>1
<1> HIDE DEF N
<1>3. Nat \subseteq N /\ Cardinality(S) \in Nat
  BY <1>1, <1>2, Induction, FS_CardinalityType
<1> QED
  BY <1>3 DEF N

\* Fewer jobs take no more nodes.
LEMMA FewerTakeLess ==
  ASSUME NEW S, S \subseteq Job, IsFiniteSet(S), NEW R, R \subseteq S
  PROVE  NodesOf(R) <= NodesOf(S)
<1> DEFINE N == {n \in Nat : \A r : /\ IsFiniteSet(r) /\ Cardinality(r) = n
                                    /\ r \subseteq Job /\ R \subseteq r
                                    => NodesOf(R) <= NodesOf(r)}
<1>1. IsFiniteSet(R) /\ R \subseteq Job
  BY FS_Subset
<1>2. NodesOf(R) \in Nat
  BY <1>1, SumIsNat
<1>3. 0 \in N
  <2>1. \A r : IsFiniteSet(r) /\ Cardinality(r) = 0 /\ R \subseteq r => r = R
    BY FS_EmptySet
  <2> QED
    BY <1>2, <2>1
<1>4. ASSUME NEW n \in Nat, n \in N PROVE n + 1 \in N
  <2>1. ASSUME NEW r, IsFiniteSet(r), Cardinality(r) = n + 1, r \subseteq Job, R \subseteq r
        PROVE  NodesOf(R) <= NodesOf(r)
    <3>1. CASE r = R
      BY <1>2, <3>1
    <3>2. CASE r # R
      <4>1. PICK j \in r : j \notin R
        BY <2>1, <3>2
      <4>2. /\ IsFiniteSet(r \ {j}) /\ Cardinality(r \ {j}) = n
            /\ r \ {j} \subseteq Job /\ R \subseteq r \ {j}
        BY <2>1, <4>1, OneLess
      <4>3. NodesOf(R) <= NodesOf(r \ {j}) /\ NodesOf(r \ {j}) \in Nat
        BY <1>4, <4>2, SumIsNat
      <4>4. NodesOf(r) = nnodes[j] + NodesOf(r \ {j}) /\ nnodes[j] \in Nat
        BY <2>1, <4>1, SumByAny, PoolAssumption
      <4> QED
        BY <1>2, <4>3, <4>4
    <3> QED
      BY <3>1, <3>2
  <2> QED
    BY <2>1
<1> HIDE DEF N
<1>5. Nat \subseteq N /\ Cardinality(S) \in Nat
  BY <1>3, <1>4, Induction, FS_CardinalityType
<1> QED
  BY <1>5 DEF N

\* The maximum --------------------------------------------------------------------------

\* The job that has its space and is not yet in self.jobs.
Starting == IF main \in {"start", "store"} THEN current ELSE {}

Running == {j \in Job : process[j] \in {"running", "closed"}}

\* The main thread starts one job at a time, a new one; what runs is in self.jobs or
\* about to be; and together they have space.
Placed ==
  /\ jobs \subseteq Job /\ IsFiniteSet(jobs) /\ registered \subseteq Job
  /\ process \in [Job -> {"none", "running", "closed", "exited"}]
  /\ \A j \in jobs \cup registered : process[j] # "none"
  /\ main \in {"wait", "count", "start"} => \E j \in Job : current = {j} /\ process[j] = "none"
  /\ main \in {"store", "register"} => \E j \in Job : current = {j} /\ process[j] # "none"
  /\ Running \subseteq jobs \cup Starting

WithinMax == NodesOf(jobs \cup Starting) <= parallelmax

\* The jobs of a hang-up the poller has seen have exited.
Gone(e) == e.hup => \A j \in e.job : process[j] = "exited"

HangUpsGone ==
  /\ event.job \subseteq Job
  /\ \A e \in events : e.job \subseteq Job /\ (e.in \/ e.hup) /\ Gone(e)
  /\ poller = "read" => Gone(event)
  /\ poller = "pop" => \A j \in event.job : process[j] = "exited"

WInv == Placed /\ WithinMax /\ HangUpsGone

\* The sum stays when nothing is added to what is counted.
LEMMA SpaceKept ==
  ASSUME Placed, WithinMax, jobs' \cup Starting' \subseteq jobs \cup Starting
  PROVE  WithinMax'
<1> DEFINE S == jobs \cup Starting
           R == jobs' \cup Starting'
<1>1. IsFiniteSet(S) /\ S \subseteq Job
  <2>1. CASE Starting = {}
    BY <2>1 DEF Placed
  <2>2. CASE Starting # {}
    <3>1. PICK j \in Job : Starting = {j}
      BY <2>2 DEF Placed, Starting
    <3>2. IsFiniteSet(jobs \cup {j})
      BY FS_AddElement DEF Placed
    <3> QED
      BY <3>1, <3>2 DEF Placed
  <2> QED
    BY <2>1, <2>2
<1>2. IsFiniteSet(R) /\ R \subseteq Job
  BY <1>1, FS_Subset
<1>3. NodesOf(R) <= NodesOf(S) /\ NodesOf(R) \in Nat /\ NodesOf(S) \in Nat
  BY <1>1, <1>2, FewerTakeLess, SumIsNat
<1>4. NodesOf(S) <= parallelmax
  BY DEF WithinMax
<1>5. NodesOf(R) <= parallelmax
  <2> HIDE DEF R, S
  <2> QED
    BY <1>3, <1>4, PoolAssumption
<1>6. WithinMax' <=> NodesOf(R) <= parallelmax
  BY DEF WithinMax
<1> QED
  BY <1>5, <1>6

\* Another thread's step leaves the poller's events as they are.
LEMMA HangUpsStay ==
  ASSUME HangUpsGone, UNCHANGED <<poller, events, event>>,
         \A j \in Job : process[j] = "exited" => process'[j] = "exited"
  PROVE  HangUpsGone'
BY DEF HangUpsGone, Gone

\* The main thread starts a job only when there is space for it.
LEMMA MainWithinMax ==
  ASSUME WInv, MainStep \/ \E j \in Job : MakeJob(j)
  PROVE  WInv'
<1> USE DEF WInv
<1>1. UNCHANGED <<poller, events, event>>
      /\ \A j \in Job : process[j] = "exited" => process'[j] = "exited"
  BY DEF MainStep, CountBegin, CountEnd, Start, Store, Register, WaitAll, WaitAllDone, MakeJob,
         pollVars, procVars, Placed
<1>2. HangUpsGone'
  BY <1>1, HangUpsStay
<1>3. CASE MainStep /\ main' # "start"
  <2>1. Placed' /\ jobs' \cup Starting' \subseteq jobs \cup Starting
    <3> USE DEF Placed, Starting, Running
    <3>1. CASE CountBegin
      BY <3>1 DEF CountBegin, procVars
    <3>2. CASE CountEnd
      BY <1>3, <3>2 DEF CountEnd, procVars
    <3>3. CASE Start
      BY <3>3 DEF Start
    <3>4. CASE Store
      BY <3>4, FS_AddElement DEF Store, procVars
    <3>5. CASE Register
      BY <3>5 DEF Register, procVars
    <3>6. CASE WaitAll \/ WaitAllDone
      BY <3>6 DEF WaitAll, WaitAllDone, procVars
    <3> QED
      BY <1>3, <3>1, <3>2, <3>3, <3>4, <3>5, <3>6 DEF MainStep
  <2> QED
    BY <1>2, <2>1, SpaceKept
<1>4. CASE MainStep /\ main' = "start"
  <2>1. /\ main = "count" /\ UNCHANGED <<jobs, registered, current, process>>
        /\ \E j \in current : HasSpace(j)
    BY <1>4 DEF MainStep, CountBegin, CountEnd, Start, Store, Register, WaitAll, WaitAllDone, procVars
  <2>2. PICK j \in Job : current = {j} /\ process[j] = "none" /\ j \notin jobs
    BY <2>1 DEF Placed
  <2>3. Placed'
    BY <1>4, <2>1, <2>2 DEF Placed, Starting, Running
  <2>4. jobs' \cup Starting' = jobs \cup {j}
    BY <1>4, <2>1, <2>2 DEF Starting
  <2>5. NodesOf(jobs \cup {j}) = nnodes[j] + NodesOf(jobs)
    <3>1. /\ IsFiniteSet(jobs \cup {j}) /\ jobs \cup {j} \subseteq Job
          /\ (jobs \cup {j}) \ {j} = jobs
      BY <2>2, FS_AddElement DEF Placed
    <3> QED
      BY <3>1, SumByAny
  <2>6. NodesOf(jobs) + nnodes[j] <= parallelmax
    BY <2>1, <2>2 DEF HasSpace
  <2>7. NodesOf(jobs) \in Nat /\ nnodes[j] \in Nat
    BY SumIsNat, PoolAssumption DEF Placed
  <2>8. NodesOf(jobs \cup {j}) <= parallelmax
    BY <2>5, <2>6, <2>7, PoolAssumption
  <2>9. WithinMax' <=> NodesOf(jobs' \cup Starting') <= parallelmax
    BY DEF WithinMax
  <2> QED
    BY <1>2, <2>3, <2>4, <2>8, <2>9
<1>5. ASSUME NEW j \in Job, MakeJob(j) PROVE WInv'
  <2>1. Placed' /\ jobs' \cup Starting' \subseteq jobs \cup Starting
    BY <1>5 DEF MakeJob, Placed, Starting, Running, procVars
  <2> QED
    BY <1>2, <2>1, SpaceKept
<1> QED
  BY <1>3, <1>4, <1>5

\* The poller takes only jobs from the queue that run no more.
LEMMA PollerWithinMax ==
  ASSUME WInv, PollerStep, HangUpAfterExit
  PROVE  WInv'
<1> USE DEF WInv
<1>1. /\ UNCHANGED <<main, current, process>>
      /\ jobs' \subseteq jobs /\ registered' \subseteq registered
      /\ ~Pop => jobs' = jobs
  BY DEF PollerStep, Poll, NextEvent, ProcessOutput, Pop, Verdict, OnError, mainVars, procVars
<1>2. CASE Pop
  <2>1. jobs' = jobs \ event.job /\ \A j \in event.job : process[j] = "exited"
    BY <1>2 DEF Pop, HangUpsGone
  <2>2. Placed' /\ jobs' \cup Starting' \subseteq jobs \cup Starting
    BY <1>1, <2>1, FS_Subset DEF Placed, Starting, Running
  <2>3. HangUpsGone'
    BY <1>1, <1>2 DEF Pop, HangUpsGone, Gone
  <2> QED
    BY <2>2, <2>3, SpaceKept
<1>3. CASE ~Pop
  <2>1. Placed' /\ jobs' \cup Starting' \subseteq jobs \cup Starting
    BY <1>1, <1>3 DEF Placed, Starting, Running
  <2>2. HangUpsGone'
    <3>1. CASE Poll
      <4>1. \A e \in events' : \E j \in registered :
              /\ e = [job |-> {j}, in |-> pipe[j] > 0, hup |-> HungUp(j)]
              /\ pipe[j] > 0 \/ HungUp(j)
        BY <3>1 DEF Poll
      <4>2. ASSUME NEW e \in events' PROVE e.job \subseteq Job /\ (e.in \/ e.hup) /\ Gone(e)'
        <5>1. PICK j \in registered :
                /\ e = [job |-> {j}, in |-> pipe[j] > 0, hup |-> HungUp(j)]
                /\ pipe[j] > 0 \/ HungUp(j)
          BY <4>1
        <5>2. e.job = {j} /\ (e.in <=> pipe[j] > 0) /\ (e.hup <=> HungUp(j))
          BY <5>1
        <5>3. HungUp(j) => process[j] = "exited"
          BY HangUpAfterExit DEF HungUp
        <5> QED
          BY <1>1, <5>1, <5>2, <5>3 DEF Gone, Placed
      <4>3. event' = event /\ poller' = "next"
        BY <3>1 DEF Poll
      <4> QED
        BY <4>2, <4>3 DEF HangUpsGone
    <3>2. CASE NextEvent
      BY <1>1, <3>2 DEF NextEvent, HangUpsGone, Gone
    <3>3. CASE ProcessOutput
      <4>1. /\ UNCHANGED <<events, event>> /\ poller = "read"
            /\ poller' \in {"pop", "next", "dead"} /\ (poller' = "pop" => event.hup)
        BY <3>3 DEF ProcessOutput
      <4> QED
        BY <1>1, <4>1 DEF HangUpsGone, Gone
    <3>4. CASE Verdict \/ OnError
      BY <1>1, <3>4 DEF Verdict, OnError, HangUpsGone, Gone
    <3> QED
      BY <1>3, PollerStep, <3>1, <3>2, <3>3, <3>4 DEF PollerStep
  <2> QED
    BY <2>1, <2>2, SpaceKept
<1> QED
  BY <1>2, <1>3

\* With the exit status at hand when a hang-up is seen, the jobs that run never take more
\* than --parallelmax nodes, for any number of jobs: the main thread counts all that run,
\* whatever the poller takes from the queue meanwhile (RunningWithinMax).
THEOREM RunningBounded == HangUpAfterExit /\ Spec => []RunningWithinMax
<1> SUFFICES ASSUME HangUpAfterExit PROVE Spec => []RunningWithinMax
  OBVIOUS
<1>1. Init => WInv
  <2>1. Init => NodesOf(jobs \cup Starting) = 0
    <3>1. Init => jobs \cup Starting = {}
      BY DEF Init, Starting
    <3> QED
      BY <3>1, SumByChosen
  <2>2. Init => Placed /\ HangUpsGone
    BY FS_EmptySet DEF Init, Placed, Starting, Running, HangUpsGone, Gone, NoJob
  <2> QED
    BY <2>1, <2>2, PoolAssumption DEF WInv, WithinMax
<1>2. WInv /\ [Next]_vars => WInv'
  <2> SUFFICES ASSUME WInv, [Next]_vars PROVE WInv'
    OBVIOUS
  <2>1. CASE PollerStep
    BY <2>1, PollerWithinMax
  <2>2. CASE MainStep \/ \E j \in Job : MakeJob(j)
    BY <2>2, MainWithinMax
  <2>3. ASSUME NEW j \in Job, Write(j) \/ ProcessStep(j) PROVE WInv'
    <3>1. /\ UNCHANGED <<jobs, registered, main, current, poller, events, event>>
          /\ process' \in [Job -> {"none", "running", "closed", "exited"}]
          /\ \A k \in Job : /\ process'[k] = "none" <=> process[k] = "none"
                            /\ process[k] = "exited" => process'[k] = "exited"
                            /\ process'[k] \in {"running", "closed"} =>
                                 process[k] \in {"running", "closed"}
      BY <2>3 DEF WInv, Placed, Write, ProcessStep, Close, Exit, mainVars, pollVars
    <3>2. Starting' = Starting /\ Running' \subseteq Running
      BY <3>1 DEF Starting, Running
    <3>3. Placed'
      BY <3>1, <3>2 DEF WInv, Placed
    <3>4. WithinMax'
      BY <3>1, <3>2, <3>3, SpaceKept DEF WInv
    <3>5. HangUpsGone'
      BY <3>1, HangUpsStay DEF WInv
    <3> QED
      BY <3>3, <3>4, <3>5 DEF WInv
  <2>4. CASE UNCHANGED vars
    <3>1. Placed' /\ HangUpsGone' /\ jobs' \cup Starting' \subseteq jobs \cup Starting
      BY <2>4 DEF WInv, Placed, Starting, Running, HangUpsGone, Gone, vars
    <3> QED
      BY <3>1, SpaceKept DEF WInv
  <2> QED
    BY <2>1, <2>2, <2>3, <2>4 DEF Next
<1>3. WInv => RunningWithinMax
  <2> SUFFICES ASSUME WInv PROVE NodesOf(Running) <= parallelmax
    BY DEF RunningWithinMax, Running
  <2>1. Starting = {} \/ \E j \in Job : Starting = {j}
    BY DEF WInv, Placed, Starting
  <2>2. IsFiniteSet(jobs \cup Starting) /\ jobs \cup Starting \subseteq Job
    <3>1. CASE Starting = {}
      BY <3>1 DEF WInv, Placed
    <3>2. ASSUME NEW j \in Job, Starting = {j} PROVE IsFiniteSet(jobs \cup {j})
      BY FS_AddElement DEF WInv, Placed
    <3> QED
      BY <2>1, <3>1, <3>2 DEF WInv, Placed
  <2>3. NodesOf(Running) <= NodesOf(jobs \cup Starting)
    BY <2>2, FewerTakeLess DEF WInv, Placed
  <2>4. NodesOf(Running) \in Nat /\ NodesOf(jobs \cup Starting) \in Nat
    BY <2>2, FS_Subset, SumIsNat DEF WInv, Placed
  <2> QED
    BY <2>3, <2>4, PoolAssumption DEF WInv, WithinMax
<1> QED
  BY <1>1, <1>2, <1>3, PTL DEF Spec
=============================================================================
