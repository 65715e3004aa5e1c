-------------------------------- MODULE Pool --------------------------------
(***************************************************************************)
(* The process pool of infra/parallel.py.  The main thread starts jobs as  *)
(* long as the queue has space, and finally waits for all of them; the     *)
(* poller thread reads the jobs' output, takes finished jobs from the      *)
(* queue and reports them.  Both use the dictionary self.jobs without a    *)
(* lock, and the processes write, close their output and exit when they    *)
(* like.                                                                   *)
(*                                                                         *)
(* A process that ends closes its output before the parent can collect its *)
(* status.  HangUpAfterExit = TRUE: the poller is never fast enough to see *)
(* the hang-up in between, and no process closes its output early.         *)
(***************************************************************************)
EXTENDS Integers, FiniteSets, FiniteSetsExt

CONSTANTS
  Job,              \* the jobs the program will run
  nnodes,           \* nnodes[j]: the nodes a job takes
  parallelmax,      \* --parallelmax
  Chunk,            \* units of output one read returns at most
  MaxOutput,        \* MaxOutput[j], a bound: units of output of the job
  Undecodable,      \* the jobs whose output is not ASCII
  HangUpAfterExit   \* is a status at hand whenever a hang-up is seen?

ASSUME PoolAssumption ==
  /\ parallelmax \in Nat
  /\ nnodes \in [Job -> 1 .. parallelmax]
  /\ Chunk \in Nat \ {0} /\ MaxOutput \in [Job -> Nat]
  /\ Undecodable \subseteq Job
  /\ HangUpAfterExit \in BOOLEAN

VARIABLES
  jobs,        \* self.jobs: the jobs in the queue
  registered,  \* the jobs whose pipe is registered with epoll
  main,        \* where the main thread is
  current,     \* the job it is starting
  size,        \* the length of self.jobs when it began to add up nodes
  poller,      \* where the poller thread is
  events,      \* the events of this poll still to be handled
  event,       \* the event being handled
  process,     \* what each job's process is doing
  status,      \* its exit status: 0, or 1 for a failure
  written,     \* units of output it has written
  pipe,        \* units that are still in its pipe
  saved,       \* units read and written to its outfile
  reported     \* what the poller has logged of it

vars == <<jobs, registered, main, current, size, poller, events, event,
          process, status, written, pipe, saved, reported>>

mainVars == <<main, current, size>>
pollVars == <<poller, events, event, saved, reported>>
procVars == <<process, status, written, pipe>>

NoJob == [job |-> {}, in |-> FALSE, hup |-> FALSE]

Init ==
  /\ jobs = {} /\ registered = {}
  /\ main = "idle" /\ current = {} /\ size = 0
  /\ poller = "poll" /\ events = {} /\ event = NoJob
  /\ process = [j \in Job |-> "none"]
  /\ status = [j \in Job |-> 0]
  /\ written = [j \in Job |-> 0]
  /\ pipe = [j \in Job |-> 0]
  /\ saved = [j \in Job |-> 0]
  /\ reported = [j \in Job |-> "no"]

NodesOf(js) == MapThenSumSet(LAMBDA j : nnodes[j], js)

\* Slip: the nodes the new job needs left out of the sum.
SlipHasSpace(j) == NodesOf(jobs) < parallelmax

HasSpace(j) == NodesOf(jobs) + nnodes[j] <= parallelmax

\* The main thread --------------------------------------------------------------

\* run(): make_jobs waits for queue space first.
MakeJob(j) ==
  /\ main = "idle" /\ process[j] = "none"
  /\ current' = {j} /\ main' = "wait"
  /\ UNCHANGED <<jobs, registered, size, pollVars, procVars>>

\* _wait_for_queue_space adds up the nodes of self.jobs.values() ...
CountBegin ==
  /\ main = "wait"
  /\ size' = Cardinality(jobs)
  /\ main' = "count"
  /\ UNCHANGED <<jobs, registered, current, pollVars, procVars>>

\* ... which raises a RuntimeError when the dictionary has changed its size
\* meanwhile.  Without space for the job it sleeps and tries again.
CountEnd ==
  /\ main = "count"
  /\ \/ Cardinality(jobs) # size /\ main' = "raised"
     \/ /\ Cardinality(jobs) = size
        /\ \E j \in current : main' = IF HasSpace(j) THEN "start" ELSE "wait"
  /\ UNCHANGED <<jobs, registered, current, size, pollVars, procVars>>

\* Slip: the pipe registered before the job is in the dictionary.
SlipRegisterFirst ==
  /\ main = "start"
  /\ process' = [j \in Job |-> IF j \in current THEN "running" ELSE process[j]]
  /\ registered' = registered \cup current
  /\ main' = "store"
  /\ UNCHANGED <<jobs, current, size, pollVars, status, written, pipe>>

\* The process is started.
Start ==
  /\ main = "start"
  /\ process' = [j \in Job |-> IF j \in current THEN "running" ELSE process[j]]
  /\ main' = "store"
  /\ UNCHANGED <<jobs, registered, current, size, pollVars, status, written, pipe>>

\* self.jobs[fd] = job
Store ==
  /\ main = "store"
  /\ jobs' = jobs \cup current
  /\ main' = "register"
  /\ UNCHANGED <<registered, current, size, pollVars, procVars>>

\* self.poller.register(job.stdout); run() returns.
Register ==
  /\ main = "register"
  /\ registered' = registered \cup current
  /\ current' = {} /\ main' = "idle"
  /\ UNCHANGED <<jobs, size, pollVars, procVars>>

\* wait_all(), after the last job was started ...
WaitAll ==
  /\ main = "idle" /\ \A j \in Job : process[j] # "none"
  /\ main' = "waiting"
  /\ UNCHANGED <<jobs, registered, current, size, pollVars, procVars>>

\* ... returns when self.jobs is empty.
WaitAllDone ==
  /\ main = "waiting" /\ jobs = {}
  /\ main' = "done"
  /\ UNCHANGED <<jobs, registered, current, size, pollVars, procVars>>

\* The processes ------------------------------------------------------------------

Write(j) ==
  /\ process[j] = "running" /\ written[j] < MaxOutput[j]
  /\ written' = [written EXCEPT ![j] = @ + 1]
  /\ pipe' = [pipe EXCEPT ![j] = @ + 1]
  /\ UNCHANGED <<jobs, registered, mainVars, pollVars, process, status>>

\* The process ends, or only closes its output.
Close(j) ==
  /\ process[j] = "running"
  /\ process' = [process EXCEPT ![j] = "closed"]
  /\ \E s \in {0, 1} : status' = [status EXCEPT ![j] = s]
  /\ UNCHANGED <<jobs, registered, mainVars, pollVars, written, pipe>>

\* Its exit status can be collected.
Exit(j) ==
  /\ process[j] = "closed"
  /\ process' = [process EXCEPT ![j] = "exited"]
  /\ UNCHANGED <<jobs, registered, mainVars, pollVars, status, written, pipe>>

\* The poller thread ----------------------------------------------------------------

HungUp(j) == process[j] = "exited" \/ (process[j] = "closed" /\ ~HangUpAfterExit)

\* epoll reports every registered pipe that has data or has hung up.
Poll ==
  /\ poller = "poll"
  /\ events' = {[job |-> {j}, in |-> pipe[j] > 0, hup |-> HungUp(j)] :
                  j \in {k \in registered : pipe[k] > 0 \/ HungUp(k)}}
  /\ events' # {}
  /\ poller' = "next"
  /\ UNCHANGED <<jobs, registered, mainVars, event, saved, reported, procVars>>

\* Slip: a hang-up handled first.
SlipHangUpFirst ==
  /\ poller = "next"
  /\ \/ \E e \in events :
          /\ event' = e /\ events' = events \ {e}
          /\ poller' = IF e.hup THEN "pop" ELSE "read"
     \/ events = {} /\ poller' = "poll" /\ UNCHANGED <<events, event>>
  /\ UNCHANGED <<jobs, registered, mainVars, saved, reported, procVars>>

NextEvent ==
  /\ poller = "next"
  /\ \/ \E e \in events :
          /\ event' = e /\ events' = events \ {e}
          /\ poller' = IF e.in THEN "read" ELSE "pop"
     \/ events = {} /\ poller' = "poll" /\ UNCHANGED <<events, event>>
  /\ UNCHANGED <<jobs, registered, mainVars, saved, reported, procVars>>

Units(j) == IF pipe[j] < Chunk THEN pipe[j] ELSE Chunk

\* process_job_output of self.jobs[fd]: one read, whatever else is in the
\* pipe, decoded as ASCII and then written to the outfile.  An unknown fd is
\* a KeyError and another character a UnicodeDecodeError; both end the thread.
ProcessOutput ==
  LET known   == event.job \subseteq jobs
      decoded == known /\ event.job \cap Undecodable = {}
      next    == IF event.hup THEN "pop" ELSE "next"
  IN  /\ poller = "read"
      /\ poller' = IF decoded THEN next ELSE "dead"
      /\ pipe' = [j \in Job |-> IF known /\ j \in event.job THEN pipe[j] - Units(j) ELSE pipe[j]]
      /\ saved' = [j \in Job |-> IF decoded /\ j \in event.job THEN saved[j] + Units(j) ELSE saved[j]]
      /\ UNCHANGED <<jobs, registered, mainVars, events, event, reported, process, status, written>>

\* Slip: only a job that succeeded leaves the queue.
SlipPopSuccess ==
  /\ poller = "pop"
  /\ registered' = registered \ event.job
  /\ jobs' = {j \in jobs : j \notin event.job \/ status[j] # 0}
  /\ poller' = "verdict"
  /\ UNCHANGED <<mainVars, events, event, saved, reported, procVars>>

\* EPOLLHUP: the pipe is unregistered and the job leaves the queue ...
Pop ==
  /\ poller = "pop"
  /\ registered' = registered \ event.job
  /\ jobs' = jobs \ event.job
  /\ poller' = IF event.job \subseteq jobs THEN "verdict" ELSE "dead"
  /\ UNCHANGED <<mainVars, events, event, saved, reported, procVars>>

\* ... which is told a success when job.poll() gives 0.  None, when the process
\* has not exited yet, is taken for an error like any other status ...
Verdict ==
  LET finished == {j \in event.job : process[j] = "exited" /\ status[j] = 0}
  IN  /\ poller = "verdict"
      /\ reported' = [j \in Job |-> IF j \in finished THEN "finished" ELSE reported[j]]
      /\ poller' = IF event.job \subseteq finished THEN "next" ELSE "onerror"
      /\ UNCHANGED <<jobs, registered, mainVars, events, event, saved, procVars>>

\* ... and onerror asks job.poll() again, to format the status with %d.  When that
\* is still None a TypeError ends the thread.
OnError ==
  LET exited == {j \in event.job : process[j] = "exited"}
  IN  /\ poller = "onerror"
      /\ reported' = [j \in Job |-> IF j \in exited THEN "error" ELSE reported[j]]
      /\ poller' = IF event.job \subseteq exited THEN "next" ELSE "dead"
      /\ UNCHANGED <<jobs, registered, mainVars, events, event, saved, procVars>>

-----------------------------------------------------------------------------

MainStep == CountBegin \/ CountEnd \/ Start \/ Store \/ Register \/ WaitAll \/ WaitAllDone

PollerStep == Poll \/ NextEvent \/ ProcessOutput \/ Pop \/ Verdict \/ OnError

ProcessStep(j) == Close(j) \/ Exit(j)

Next ==
  \/ MainStep \/ \E j \in Job : MakeJob(j)
  \/ PollerStep
  \/ \E j \in Job : Write(j) \/ ProcessStep(j)

Spec == Init /\ [][Next]_vars

\* Both threads run, and every process ends some time.
FairSpec == Spec /\ WF_vars(MainStep) /\ WF_vars(PollerStep) /\ \A j \in Job : WF_vars(ProcessStep(j))

-----------------------------------------------------------------------------
(***************************************************************************)
(* Properties                                                              *)
(***************************************************************************)

\* Every variable holds a value of its type.
TypeOK ==
  /\ jobs \subseteq Job /\ registered \subseteq Job
  /\ main \in {"idle", "wait", "count", "start", "store", "register", "waiting", "done", "raised"}
  /\ current \subseteq Job /\ size \in Nat
  /\ poller \in {"poll", "next", "read", "pop", "verdict", "onerror", "dead"}
  /\ \A e \in events \cup {event} : e.job \subseteq Job /\ {e.in, e.hup} \subseteq BOOLEAN
  /\ process \in [Job -> {"none", "running", "closed", "exited"}]
  /\ status \in [Job -> {0, 1}]
  /\ \A counter \in {written, pipe, saved} :
       counter \in [Job -> Nat] /\ \A j \in Job : counter[j] <= MaxOutput[j]
  /\ reported \in [Job -> {"no", "finished", "error"}]

\* "The maximum number of parallel jobs is controlled by --parallelmax"
\* (parallel.py:35): the processes that run never take more nodes, although
\* the main thread counts while the poller takes jobs from the queue.
RunningWithinMax == NodesOf({j \in Job : process[j] \in {"running", "closed"}}) <= parallelmax

\* The outfile, "full path to target file for command output"
\* (parallel.py:122), when the job is reported: what the job wrote is there but for
\* what is still in the pipe, which nobody reads any more; and something is left in
\* the pipe only of a job of which a whole read was saved before.  All output of a
\* job that writes no more than one read takes is saved; of one that writes more the
\* end may be lost, since the read at the hang-up is the last one.
OutputSaved ==
  \A j \in Job : reported[j] # "no" =>
    /\ saved[j] + pipe[j] = written[j]
    /\ pipe[j] > 0 => saved[j] >= Chunk

\* The poller is not ended by an event of a pipe that is not in self.jobs, or
\* by a job without a status.
PollerAlive == poller # "dead"

\* "Block (busy-wait) until all jobs in the queue have been completed"
\* (parallel.py:103): wait_all returns once they have.
WaitAllReturns == main = "waiting" ~> main = "done"

=============================================================================
