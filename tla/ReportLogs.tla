----------------------------- MODULE ReportLogs -----------------------------
(***************************************************************************)
(* A benchmark on several nodes (SpecRun), its log files, and the report   *)
(* command, which may be given while the job runs: report() of             *)
(* targets/spec2006 reads each log, parses the runs it names and, as       *)
(* parse_logs() of packages/tools.py does for every target, appends what   *)
(* it found to the log itself, where the next report finds it.             *)
(*                                                                         *)
(* A log is a sequence of tokens: "log", the line that names runspec's own *)
(* log, "text", "begin", "end", and a result between them.  A result is    *)
(* "timeout", "error", or whose figures were read; of a benchmark that was *)
(* run several times, for its workloads, there are several.                *)
(***************************************************************************)
EXTENDS SpecRun, SequencesExt

CONSTANTS
  Workloads,       \* how often runspec runs the benchmark
  MaxReports,      \* bound: reports started
  MaxEvents        \* bound: those and what interferes with them and with the job (Happened)

ASSUME ReportLogsAssumption ==
  Workloads \in Nat \ {0} /\ MaxReports \in Nat /\ MaxEvents \in Nat

\* The tokens of a log that are no line of a result.
Marks == {"log", "text", "begin", "end"}
ASSUME TokensAssumption == Rank \cap Marks = {}

VARIABLES
  file,       \* [Rank -> the log of its output]
  offset,     \* [Rank -> where its next output goes]
  step,       \* of the report: "idle", "parse", "append"
  todo,       \* logs the report has not read
  got,        \* [Rank -> the results the report has]
  rest,       \* those of the log being read that it has not yet appended to it
  late,       \* no rank was running when the report started
  reports, interrupts,
  early,      \* a report has read logs while ranks were running
  crashed,    \* a report ended with an exception
  said        \* the results of the reports that started after the job

logVars == <<file, offset>>
reportVars == <<step, todo, got, rest, late, reports, interrupts, early, crashed, said>>
benchVars == <<specRunVars, logVars, reportVars>>

Nothing == [r \in Rank |-> <<>>]

BenchInit ==
  /\ Init
  /\ file = Nothing /\ offset = [r \in Rank |-> 0]
  /\ step = "idle" /\ todo = {} /\ got = Nothing /\ rest = <<>> /\ late = FALSE
  /\ reports = 0 /\ interrupts = 0 /\ early = FALSE /\ crashed = FALSE /\ said = {}

\* Output goes where the last output ended, over what a report has appended there.
Write(r, token) ==
  LET behind == Len(file[r]) - offset[r] IN
  \E damaged \in (IF behind = 0 THEN 0 ELSE 1) .. behind :
    /\ file' = [file EXCEPT ![r] = SubSeq(@, 1, offset[r]) \o <<token>>
                                     \o SubSeq(@, offset[r] + damaged + 1, Len(@))]
    /\ offset' = [offset EXCEPT ![r] = @ + 1]

\* runspec says where its log is, and set -x shows the commands of the trap.
Job(r) ==
  /\ Script(r)
  /\ IF At(r, "run") THEN Write(r, "log")
     ELSE IF At(r, "exit") THEN Write(r, "text") ELSE UNCHANGED logVars
  /\ UNCHANGED reportVars

\* Bounded by MaxEvents: reports, those interrupted, the end of the time reserved for the
\* job, and commands that fail for what is outside of the script, which count twice.
Happened == reports + interrupts + (IF over THEN 1 ELSE 0) + 2 * faults

JobFails(r) == Happened + 2 <= MaxEvents /\ CommandFails(r) /\ UNCHANGED <<logVars, reportVars>>

JobKilled == Happened < MaxEvents /\ TimeOver /\ UNCHANGED <<logVars, reportVars>>

\* An end without a begin yields None, of which the caller asks whether it is cached.
ParseLine(s, token) ==
  CASE token = "begin" -> [s EXCEPT !.open = TRUE, !.value = <<>>]
    [] token = "end" -> [open |-> FALSE, value |-> <<>>, yields |-> s.yields \o s.value,
                         none |-> s.none \/ ~s.open]
    [] token \notin Marks /\ s.open -> [s EXCEPT !.value = <<token>>]
    [] OTHER -> s

parse_results(log) ==
  FoldLeft(ParseLine, [open |-> FALSE, value |-> <<>>, yields |-> <<>>, none |-> FALSE], log)

\* The files a run's log names are looked for in the shared directory.
Invalid(r) == mine[r] # END /\ runs[mine[r]] = NoOne
Figures(d) == [w \in 1 .. Workloads |-> runs[d]]
parse_outfile(r) ==
  IF ~Contains(file[r], "log") THEN <<"timeout">>
  ELSE IF mine[r] = END THEN <<"error">> ELSE Figures(mine[r])

StartReport ==
  /\ step = "idle" /\ reports < MaxReports /\ Happened < MaxEvents
  /\ reports' = reports + 1 /\ step' = "parse" /\ todo' = Rank /\ got' = Nothing
  /\ late' = AllDone /\ early' = (early \/ ~AllDone)
  /\ UNCHANGED <<specRunVars, logVars, rest, interrupts, crashed, said>>

\* A report that ends, well or not, leaves nothing in memory.
Gone == step' = "idle" /\ todo' = {} /\ got' = Nothing /\ rest' = <<>> /\ late' = FALSE
Crash == Gone /\ crashed' = TRUE

\* The next log: what was cached in it, or else what the target makes of it.
ParseLog ==
  /\ step = "parse" /\ todo # {}
  /\ LET r == CHOOSE x \in todo : TRUE
         cached == parse_results(file[r])
     IN IF cached.none THEN Crash
        ELSE IF cached.yields # <<>>
        THEN /\ got' = [got EXCEPT ![r] = cached.yields] /\ todo' = todo \ {r}
             /\ UNCHANGED <<step, rest, late, crashed>>
        ELSE IF Contains(file[r], "log") /\ Invalid(r) THEN Crash
        ELSE /\ got' = [got EXCEPT ![r] = parse_outfile(r)] /\ rest' = parse_outfile(r)
             /\ step' = "append" /\ UNCHANGED <<todo, late, crashed>>
  /\ UNCHANGED <<specRunVars, logVars, reports, interrupts, early, said>>

Logged == <<"begin">> \o <<Head(rest)>> \o <<"end">>
\* Slip: the log is opened for writing, not for appending.
SlipLogResult(r, n) == file' = [file EXCEPT ![r] = SubSeq(Logged, 1, n)]
LogResult(r, n) == file' = [file EXCEPT ![r] = @ \o SubSeq(Logged, 1, n)]
Current == CHOOSE x \in todo : TRUE

\* One result after the other.
AppendResult ==
  /\ step = "append"
  /\ LogResult(Current, 3) /\ rest' = Tail(rest)
  /\ IF Tail(rest) = <<>> THEN step' = "parse" /\ todo' = todo \ {Current}
     ELSE UNCHANGED <<step, todo>>
  /\ UNCHANGED <<specRunVars, offset, got, late, reports, interrupts, early, crashed, said>>

EndReport ==
  /\ step = "parse" /\ todo = {} /\ Gone
  /\ said' = IF late THEN said \cup {got} ELSE said
  /\ UNCHANGED <<specRunVars, logVars, reports, interrupts, early, crashed>>

\* Ctrl-C: the log gets what was printed to it.
InterruptReport ==
  /\ step # "idle" /\ Happened < MaxEvents
  /\ interrupts' = interrupts + 1 /\ Gone
  /\ IF step = "append" THEN \E n \in 0 .. 2 : LogResult(Current, n) ELSE UNCHANGED file
  /\ UNCHANGED <<specRunVars, offset, reports, early, crashed, said>>

Report == ParseLog \/ AppendResult \/ EndReport

BenchNext ==
  JobKilled \/ StartReport \/ Report \/ InterruptReport \/ \E r \in Rank : Job(r) \/ JobFails(r)

\* Every node runs its script.
BenchSpec == BenchInit /\ [][BenchNext]_benchVars /\ \A r \in Rank : WF_benchVars(Job(r))

\* Properties -------------------------------------------------------------------------

\* All reports of a job that is over say the same, also after one that was given too
\* early or was interrupted in the middle of a result.  When none was given too early,
\* no command failed for what is outside of the script and the job was not killed, no
\* report fails, and of a rank that ended well they say what was done: that runspec
\* failed, or the figures of a rank that took the name of its run directory, which are
\* its own unless another one has taken the same; and all of them, unless a report was
\* interrupted between two results.
ReportsRight ==
  /\ Cardinality(said) <= 1
  /\ ~early /\ ~over /\ faults = 0 =>
       /\ ~crashed
       /\ \A g \in said, r \in Rank : status[r] = "ok" =>
            IF mine[r] = END THEN g[r] = <<"error">>
            ELSE /\ \E q \in Rank : mine[q] = mine[r] /\ \A w \in 1 .. Len(g[r]) : g[r][w] = q
                 /\ IF interrupts = 0 THEN Len(g[r]) = Workloads ELSE Len(g[r]) \in 1 .. Workloads

\* Every rank's script ends, in any order the ranks get the lock.
JobEnds == <>AllDone
=============================================================================
