------------------------------- MODULE RunTee --------------------------------
(***************************************************************************)
(* infra/util.py: run() starts a command of the build and _Tee copies its  *)
(* output to the run log and to a string.  A _Tee owns a pipe and a thread *)
(* that takes whole lines from it; the main thread goes on when the        *)
(* command has exited, whatever the thread has done by then.               *)
(*                                                                         *)
(* Output is a sequence of pieces: "part" does not end a line, "line" does, *)
(* and so does "latin1", which is not UTF-8.                                *)
(***************************************************************************)
EXTENDS Naturals, Sequences, SequencesExt, FiniteSetsExt

CONSTANTS
  Outputs,       \* what a command prints: sequences of pieces
  PipeSize,      \* pieces that fit into a pipe
  ReadSize,      \* pieces that one os.read returns at most
  MaxCommands,   \* bound: calls of run() that log their output
  MaxTees,       \* bound: tees made
  MaxScopes      \* bound: copies of the context

ASSUME RunAssumption ==
  /\ Outputs \subseteq Seq({"part", "line", "latin1"}) /\ {PipeSize, ReadSize} \subseteq Nat \ {0}
  /\ {MaxCommands, MaxTees, MaxScopes} \subseteq Nat

VARIABLES
  pc,        \* the main thread: idle, running, read, swapped, exited
  ran,       \* the calls so far: what the command prints, through which tee, how far
             \* it is, the string the output is to be taken from, and the result
  runtee,    \* ctx.runtee, 0 if there is none in this context
  saved,     \* ctx.runtee of the contexts to go back to
  tees,      \* the tees: pipe, buf, the line being written and where to, writers[1]
  strings,   \* the StringIO objects ever made
  log,       \* the run log
  scopes

vars == <<pc, ran, runtee, saved, tees, strings, log, scopes>>

Piece(c, n) == [of |-> c, n |-> n, kind |-> ran[c].out[n]]
\* What run() itself writes to the log, before and after the output.
Header(c) == [of |-> c, n |-> 0, kind |-> "header"]
Blank(c) == [of |-> c, n |-> 0, kind |-> "blank"]

\* A _Tee whose lines go to the tee into, or to the log and a string of its own.
Tee(into, str) ==
  [pipe |-> <<>>, buf |-> <<>>, line |-> <<>>, at |-> "poll", held |-> 0,
   into |-> into, writer1 |-> str]

Init ==
  /\ pc = "idle" /\ ran = <<>> /\ runtee = 0 /\ saved = <<>>
  /\ tees = <<>> /\ strings = <<>> /\ log = <<>> /\ scopes = 0

\* run() ----------------------------------------------------------------------------

last == Len(ran)

\* Up to subprocess.run: the tee is made on first use, and one more for teeout.
Run(out, teeout) ==
  LET new == IF runtee = 0 THEN <<Tee(Len(tees) + 1, Len(strings) + 1)>> ELSE <<>>
      t == IF runtee = 0 THEN Len(tees) + 1 ELSE runtee
      made == tees \o new
  IN
  /\ pc = "idle" /\ last < MaxCommands
  /\ Len(made) + (IF teeout THEN 1 ELSE 0) <= MaxTees
  /\ pc' = "running" /\ runtee' = t
  /\ strings' = strings \o [k \in 1 .. Len(new) |-> <<>>]
  /\ tees' = made \o (IF teeout THEN <<Tee(t, 0)>> ELSE <<>>)
  /\ ran' = Append(ran, [out |-> out, sent |-> 0, done |-> FALSE, result |-> <<>>,
                         to |-> IF teeout THEN Len(made) + 1 ELSE t,
                         strbuf |-> (made[t]).writer1])
  /\ log' = Append(log, Header(last + 1))
  /\ UNCHANGED <<saved, scopes>>

\* The command is not found: the string stays in place for the next one.
NotFound(allow_error) ==
  /\ pc = "running" /\ ran[last].sent = 0
  /\ pc' = IF allow_error THEN "idle" ELSE "exited"
  /\ UNCHANGED <<ran, runtee, saved, tees, strings, log, scopes>>

\* The command prints, unless the pipe is full.
Print1 ==
  LET r == ran[last] IN
  /\ pc = "running" /\ r.sent < Len(r.out) /\ Len(tees[r.to].pipe) < PipeSize
  /\ tees' = [tees EXCEPT ![r.to].pipe = Append(@, Piece(last, r.sent + 1))]
  /\ ran' = [ran EXCEPT ![last].sent = @ + 1]
  /\ UNCHANGED <<pc, runtee, saved, strings, log, scopes>>

\* Slip: wait until the tee has nothing left.
SlipGetValue ==
  /\ pc = "running" /\ ran[last].sent = Len(ran[last].out)
  /\ tees[ran[last].to].pipe = <<>> /\ tees[ran[last].to].buf = <<>>
  /\ pc' = "read"
  /\ ran' = [ran EXCEPT ![last].result = strings[ran[last].strbuf]]
  /\ UNCHANGED <<runtee, saved, tees, strings, log, scopes>>

\* It has exited: proc.stdout = strbuf.getvalue().
GetValue ==
  /\ pc = "running" /\ ran[last].sent = Len(ran[last].out)
  /\ pc' = "read"
  /\ ran' = [ran EXCEPT ![last].result = strings[ran[last].strbuf]]
  /\ UNCHANGED <<runtee, saved, tees, strings, log, scopes>>

\* Slip: the string is kept for the next command.
SlipSwap == pc = "read" /\ pc' = "swapped" /\ UNCHANGED <<ran, runtee, saved, tees, strings, log, scopes>>

\* ctx.runtee.writers[1] = io.StringIO()
Swap ==
  /\ pc = "read" /\ pc' = "swapped"
  /\ strings' = Append(strings, <<>>)
  /\ tees' = [tees EXCEPT ![runtee].writer1 = Len(strings) + 1]
  /\ UNCHANGED <<ran, runtee, saved, log, scopes>>

\* The newline in the log; a status that is not 0 may end the program.
Return(exits) ==
  /\ pc = "swapped" /\ pc' = IF exits THEN "exited" ELSE "idle"
  /\ log' = Append(log, Blank(last))
  /\ ran' = [ran EXCEPT ![last].done = TRUE]
  /\ UNCHANGED <<runtee, saved, tees, strings, scopes>>

\* self.ctx = oldctx: a tee made in the copy is out of reach afterwards.
Copy ==
  /\ pc = "idle" /\ scopes < MaxScopes
  /\ scopes' = scopes + 1 /\ saved' = <<runtee>> \o saved
  /\ UNCHANGED <<pc, ran, runtee, tees, strings, log>>
Back ==
  /\ pc = "idle" /\ saved # <<>>
  /\ runtee' = Head(saved) /\ saved' = Tail(saved)
  /\ UNCHANGED <<pc, ran, tees, strings, log, scopes>>

\* _Tee._flusher ---------------------------------------------------------------------

Ends(x) == x.kind # "part"
LineEnd(buf) == Min({n \in DOMAIN buf : Ends(buf[n])} \cup {Len(buf) + 1})

\* The next line to write, or back to poll(); decode() of anything but UTF-8 ends the
\* thread, with the line still in buf.
Cut(t) ==
  LET n == LineEnd(t.buf) IN
  IF n > Len(t.buf) THEN [t EXCEPT !.at = "poll", !.line = <<>>]
  ELSE IF \E i \in 1 .. n : t.buf[i].kind = "latin1" THEN [t EXCEPT !.at = "dead", !.line = <<>>]
  ELSE [t EXCEPT !.at = "log", !.line = SubSeq(t.buf, 1, n), !.buf = SubSeq(t.buf, n + 1, Len(t.buf))]

\* Slips: what was read before is dropped; only the first line of what was read is
\* written.
SlipRead(t, n) ==
  Cut([t EXCEPT !.buf = SubSeq(t.pipe, 1, n), !.pipe = SubSeq(t.pipe, n + 1, Len(t.pipe))])
SlipNextLine(t) == [t EXCEPT !.at = "poll", !.line = <<>>]

\* buf += os.read(fd), and the first line of it.
Read(t, n) ==
  Cut([t EXCEPT !.buf = @ \o SubSeq(t.pipe, 1, n), !.pipe = SubSeq(t.pipe, n + 1, Len(t.pipe))])
NextLine(t) == Cut(t)

Thread == <<pc, ran, runtee, saved, scopes>>
Alive(k, at) == pc # "exited" /\ tees[k].at = at

Poll(k) ==
  /\ Alive(k, "poll") /\ tees[k].pipe # <<>>
  /\ tees' = [tees EXCEPT ![k] = Read(@, Min({ReadSize, Len(@.pipe)}))]
  /\ UNCHANGED <<Thread, strings, log>>

\* write(): writers[0], then writers[1:] as they are by then; a tee for teeout writes
\* through ctx.runtee.  (The main thread does nothing that the order of the log's
\* line and the look at writers[1:] would make a difference to: one step.)
WriteLog(k) ==
  /\ Alive(k, "log")
  /\ log' = log \o tees[k].line
  /\ tees' = [tees EXCEPT ![k].at = "string", ![k].held = tees[tees[k].into].writer1]
  /\ UNCHANGED <<Thread, strings>>
WriteString(k) ==
  /\ Alive(k, "string")
  /\ strings' = [strings EXCEPT ![tees[k].held] = @ \o tees[k].line]
  /\ tees' = [tees EXCEPT ![k] = NextLine([@ EXCEPT !.held = 0])]
  /\ UNCHANGED <<Thread, log>>

Flusher(k) == Poll(k) \/ WriteLog(k) \/ WriteString(k)

Main == GetValue \/ Swap \/ \E exits \in BOOLEAN : Return(exits)
Scopes == Copy \/ Back
Tees == \E k \in DOMAIN tees : Flusher(k)
Calls == \E out \in Outputs, teeout \in BOOLEAN : Run(out, teeout)

Next ==
  \/ Calls \/ Main \/ Print1 \/ Scopes \/ Tees
  \/ \E allow_error \in BOOLEAN : NotFound(allow_error)

\* The operating system runs the command and every thread.
Spec ==
  /\ Init /\ [][Next]_vars /\ WF_vars(Main) /\ WF_vars(Print1)
  /\ \A k \in 1 .. MaxTees : WF_vars(k \in DOMAIN tees /\ Flusher(k))

\* Properties --------------------------------------------------------------------------

\* What the commands of a tee printed is in the log and in the tee, in the order it
\* was printed, nothing twice and nothing lost, however late the tee is.
Printed(k) ==
  FlattenSeq([c \in 1 .. last |->
    IF ran[c].to = k THEN [n \in 1 .. ran[c].sent |-> Piece(c, n)] ELSE <<>>])
Commands(k) == {c \in 1 .. last : ran[c].to = k}
PrintedBy(cs, seq) ==
  FlattenSeq([i \in DOMAIN seq |-> IF seq[i].n # 0 /\ seq[i].of \in cs THEN <<seq[i]>> ELSE <<>>])
Output(seq, k) == PrintedBy(Commands(k), seq)
NothingLost ==
  \A k \in DOMAIN tees :
    LET waiting == (IF tees[k].at = "log" THEN tees[k].line ELSE <<>>) \o tees[k].buf \o tees[k].pipe
    IN  Output(log, k) \o waiting = Printed(k)

\* Every piece of output is in one result or string at most, and the results of a
\* tee, in the order of the calls, keep the order of the output.
Ascending(s) ==
  \A i, j \in DOMAIN s : i < j => s[i].of < s[j].of \/ (s[i].of = s[j].of /\ s[i].n < s[j].n)
ResultsInOrder ==
  \A k \in DOMAIN tees :
    Ascending(FlattenSeq([c \in 1 .. last |-> Output(ran[c].result, k)]))

\* run() returns: no command waits for ever for room in its pipe, unless the thread of
\* a tee ended.
CommandsReturn ==
  pc = "running" ~> (pc # "running" \/ \E k \in DOMAIN tees : tees[k].at = "dead")

\* A line in a pipe, in the buffer of its tee's thread or about to be written gets into
\* the log, unless its thread ends or the program ends first (the thread of a tee is a
\* daemon).
WholeLine(k) ==
  /\ k \in DOMAIN tees /\ tees[k].at # "dead"
  /\ tees[k].at = "log" \/ \E x \in ToSet(tees[k].pipe \o tees[k].buf) : Ends(x)
LinesReachLog ==
  \A k \in 1 .. MaxTees : WholeLine(k) ~> (pc = "exited" \/ ~WholeLine(k))
=============================================================================
