------------------------------ MODULE JobLog -------------------------------
(***************************************************************************)
(* The telling of jobs to the panel: Job.append() and log_since() in       *)
(* mcu_updater/jobs.py, LogBatcher and EventEmitter in agent/events.py,    *)
(* _on_job_change(), emit_state() and the reconnect in agent/service.py,   *)
(* and fw.job.get.  A line is its number; the panel is what the sequence   *)
(* numbers are for, and is modelled from them.                             *)
(***************************************************************************)
EXTENDS Integers, Sequences, FiniteSets, FiniteSetsExt

CONSTANTS N,        \* how many jobs there are, one after another
          Lines,    \* how many lines each of them writes
          RING,     \* log_ring_size
          MAXLINES, \* LogBatcher.MAX_LINES
          Service,  \* the thread of run_forever()
          Reader,   \* the thread that reads the socket
          Canceller, \* the thread that serves a fw.job.cancel
          Scenarios \* the kinds of behaviours that are looked at

Jobs == 1..N
None == 0

\* Jobs name their worker threads too.
Reporters == Jobs \cup {Service, Reader, Canceller}

\* "tail_lost": a connection goes, and takes along the last line of a job, or what
\* the panel was still to learn of a job that has ended.  "reports_overlap": somebody
\* sends what he has read, and what he has read is no longer so.  "told_early": somebody
\* besides its worker tells the panel that a job is over.
Disturbance == {"tail_lost", "reports_overlap", "told_early"}

ASSUME JobLogAssumption ==
  /\ N \in Nat /\ Lines \in Nat \ {0} /\ RING \in Nat \ {0} /\ MAXLINES \in Nat \ {0}
  /\ Service \notin Jobs /\ Reader \notin Jobs /\ Canceller \notin Jobs
  /\ Service # Reader /\ Reader # Canceller /\ Canceller # Service
  /\ Scenarios \subseteq [jobs : 0..N, drops : Nat, notices : Nat, cancels : SUBSET Jobs,
                              disturbances : SUBSET Disturbance]

VARIABLES current,  \* JobRunner._current
          worker,   \* of each job: what its worker does
          over,     \* the jobs whose state is terminal
          cancelled, \* the jobs of which cancel_requested is set
          written,  \* of each job: Job._next_seq
          batch,    \* LogBatcher: _job_id, _first_seq and _pending
          up,       \* is there a connection?
          report,   \* of each thread: what fw.status or current() told it, to be sent
          drops,    \* how many connections were lost
          notices,  \* how often Klipper's service changed
          wire,     \* what is on its way to the panel
          seen,     \* the panel: the lines of each job it shows
          expected, \* the panel: the next line of each job it expects
          omitted,  \* the panel: the lines it says are omitted
          ended,    \* the panel: the jobs it knows have ended
          shows,    \* the panel: the job it shows as running
          asked,    \* the panel: its fw.job.get
          served,   \* the answer to it, to be sent
          scenario  \* what may happen in this behaviour

jobVars == <<over, cancelled>>
agentVars == <<current, worker, jobVars, written, batch>>
linkVars == <<up, report, drops, notices>>
panelVars == <<seen, expected, omitted, ended, shows, asked>>
vars == <<agentVars, linkVars, wire, panelVars, served, scenario>>

NoBatch == [job |-> None, seq |-> 0, lines |-> <<>>]
NoReport == [kind |-> "none"]
NoAsk == [job |-> None]

\* A line, wherever it is: of which job, and which.
Line == [job : Jobs, i : 0..(Lines - 1)]
Batch == [job : Jobs \cup {None}, seq : 0..Lines, lines : Seq(Line)]
Report == [kind : {"state"}, job : {None}, is : {"running"}]
          \cup [kind : {"state", "job"}, job : Jobs, is : {"running", "ended"}]
          \cup [kind : {"asks"}, job : Jobs] \cup {NoReport}
Answer == [kind : {"answer"}, job : Jobs, from : 0..Lines, next : 0..Lines,
           lines : SUBSET Line]
Ask == [job : Jobs, from : 0..Lines, again : BOOLEAN] \cup {NoAsk}

TypeOK ==
  /\ current \in Jobs \cup {None}
  /\ worker \in [Jobs -> {"none", "new", "works", "adds", "ending", "told", "done"}]
  /\ over \subseteq Jobs /\ cancelled \subseteq Jobs
  /\ written \in [Jobs -> 0..Lines]
  /\ batch \in Batch /\ Len(batch.lines) < MAXLINES
  /\ up \in BOOLEAN /\ drops \in 0..scenario.drops /\ notices \in 0..scenario.notices
  /\ report \in [Reporters -> Report]
  /\ seen \in [Jobs -> SUBSET Line] /\ expected \in [Jobs -> 0..Lines]
  /\ omitted \in [Jobs -> SUBSET (0..(Lines - 1))] /\ ended \subseteq Jobs
  /\ shows \in Jobs \cup {None}
  /\ asked \in Ask /\ served \in Answer \cup {NoReport}
  /\ scenario \in Scenarios

Init ==
  /\ current = None /\ worker = [j \in Jobs |-> "none"]
  /\ over = {} /\ cancelled = {} /\ written = [j \in Jobs |-> 0]
  /\ batch = NoBatch
  /\ up = TRUE /\ report = [x \in Reporters |-> NoReport] /\ drops = 0 /\ notices = 0
  /\ wire = <<>>
  /\ seen = [j \in Jobs |-> {}] /\ expected = [j \in Jobs |-> 0]
  /\ omitted = [j \in Jobs |-> {}] /\ ended = {}
  /\ shows = None /\ asked = NoAsk /\ served = NoReport
  /\ scenario \in Scenarios

May(kind) == kind \in scenario.disturbances

-----------------------------------------------------------------------------
(* The ring of a job, the batch, and the emitter.                           *)

\* The deque has the last RING lines: `_dropped` is the number of the others.
Dropped(j) == IF written[j] > RING THEN written[j] - RING ELSE 0

InRing(j, first) == [job : {j}, i : Max({first, Dropped(j)})..(written[j] - 1)]

\* Wrong variant: what was asked for, whatever is left of it.
LogSinceAsked(j, from) ==
  [kind |-> "answer", job |-> j, from |-> from, next |-> written[j], lines |-> InRing(j, from)]

\* Wrong variant: up to the last line, which is not the next one.
LogSinceShort(j, from) ==
  [kind |-> "answer", job |-> j, from |-> Max({from, Dropped(j)}),
   next |-> Max({0, written[j] - 1}), lines |-> InRing(j, from) \ InRing(j, written[j] - 1)]

\* log_since(): from the line asked for, or from the oldest one there is.
LogSince(j, from) ==
  [kind |-> "answer", job |-> j, from |-> Max({from, Dropped(j)}), next |-> written[j],
   lines |-> InRing(j, from)]

LogEvent(b) == [kind |-> "log", job |-> b.job, seq |-> b.seq, lines |-> b.lines]
JobEvent(j, is) == [kind |-> "job", job |-> j, is |-> is]

\* to_dict() tells the state the job has at that moment.
Live(j) == IF j \in over THEN "ended" ELSE "running"

\* _flush_locked(): nothing for an empty batch.
Flushed(b) == IF b.lines = <<>> THEN <<>> ELSE <<LogEvent(b)>>

\* The batch afterwards keeps the job it was of.
Emptied(b) == [job |-> b.job, seq |-> 0, lines |-> <<>>]

\* emit() is best effort: without a connection the events are gone.
Emit(events) == wire' = IF up THEN wire \o events ELSE wire

\* add() starts a batch when there is none, and when there is one of another job.
Started(j, i) ==
  IF batch.lines = <<>> \/ batch.job # j THEN [job |-> j, seq |-> i, lines |-> <<>>] ELSE batch

Full(b) == Len(b.lines) >= MAXLINES

\* What a thread has read and not yet sent gets old by what others send or do.
Fresh(x) ==
  \A y \in Reporters \ {x} : report[y].kind # "none" => May("reports_overlap")

-----------------------------------------------------------------------------
(* Jobs: submit() and its worker.                                           *)

\* The slot first, then "running" to the panel, then the thread.
Submit(j) ==
  /\ current = None /\ worker[j] = "none" /\ j <= scenario.jobs
  /\ \A i \in 1..(j - 1) : worker[i] # "none"
  /\ Fresh(j)
  /\ current' = j
  /\ worker' = [worker EXCEPT ![j] = "new"]
  /\ UNCHANGED <<jobVars, written, batch, linkVars, wire, panelVars, served, scenario>>

\* Wrong variant: the change is told at once, and the lines when they are due.
TellsAtOnce(j, is) == Emit(<<JobEvent(j, is)>>) /\ UNCHANGED batch

\* _on_job_change(): the pending lines, whosever they are, and then the job.
Tells(j, is) == Emit(Append(Flushed(batch), JobEvent(j, is))) /\ batch' = Emptied(batch)

TellStart(j) ==
  /\ worker[j] = "new" /\ Fresh(j)
  /\ Tells(j, "running")
  /\ worker' = [worker EXCEPT ![j] = "works"]
  /\ UNCHANGED <<current, jobVars, written, linkVars, panelVars, served, scenario>>

\* reporter(): the ring first ...
AppendLine(j) ==
  /\ worker[j] = "works" /\ written[j] < Lines
  /\ written[j] + 1 = Lines => up \/ May("tail_lost")
  /\ written' = [written EXCEPT ![j] = @ + 1]
  /\ worker' = [worker EXCEPT ![j] = "adds"]
  /\ UNCHANGED <<current, jobVars, batch, linkVars, wire, panelVars, served, scenario>>

\* ... and then the batch, which is sent first if it is of another job, and sent when
\* it is full.
AddLine(j) ==
  /\ worker[j] = "adds"
  /\ LET i == written[j] - 1
         old == IF batch.job = j THEN <<>> ELSE Flushed(batch)
         new == [Started(j, i) EXCEPT !.lines = Append(@, [job |-> j, i |-> i])]
     IN  /\ Emit(IF Full(new) THEN Append(old, LogEvent(new)) ELSE old)
         /\ batch' = IF Full(new) THEN Emptied(new) ELSE new
  /\ worker' = [worker EXCEPT ![j] = "works"]
  /\ UNCHANGED <<current, jobVars, written, linkVars, panelVars, served, scenario>>

\* step() tells of the progress after its line.
TellProgress(j) ==
  /\ worker[j] = "works" /\ j \notin over
  /\ written[j] > 0 /\ batch.job = j /\ batch.lines # <<>>
  /\ Fresh(j)
  /\ Tells(j, "running")
  /\ UNCHANGED <<current, worker, jobVars, written, linkVars, panelVars, served, scenario>>

\* fn returned, or raised: the state is terminal, and then, if it raised, the last
\* line is written.
Finish(j) ==
  /\ worker[j] = "works" /\ j \notin over /\ written[j] \in {Lines - 1, Lines}
  /\ report[Canceller].kind # "none" => May("told_early")
  /\ over' = over \cup {j}
  /\ UNCHANGED <<current, worker, cancelled, written, batch, linkVars, wire, panelVars,
                 served, scenario>>

\* The slot is free before anybody is told.
EndJob(j) ==
  /\ worker[j] = "works" /\ j \in over /\ written[j] = Lines /\ Fresh(j)
  /\ current' = None
  /\ worker' = [worker EXCEPT ![j] = "ending"]
  /\ UNCHANGED <<jobVars, written, batch, linkVars, wire, panelVars, served, scenario>>

TellEnd(j) ==
  /\ worker[j] = "ending" /\ Fresh(j)
  /\ Tells(j, "ended")
  /\ worker' = [worker EXCEPT ![j] = "told"]
  /\ UNCHANGED <<current, jobVars, written, linkVars, panelVars, served, scenario>>

\* The batcher's own thread, every FLUSH_INTERVAL.
Tick ==
  /\ batch.lines # <<>>
  /\ Emit(Flushed(batch)) /\ batch' = Emptied(batch)
  /\ UNCHANGED <<current, worker, jobVars, written, linkVars, panelVars, served, scenario>>

-----------------------------------------------------------------------------
(* The state, by whoever finds it due: fw.status is read, and then sent.    *)

Status == [kind |-> "state", job |-> current, is |-> Live(current)]

\* The job in it may be over, and its worker have lines to write or to flush.
ToldEarly == current \in over => May("told_early")

Reads(x, what) == report' = [report EXCEPT ![x] = what] /\ Fresh(x)

\* The worker of a job that ended ...
WorkerReads(j) ==
  /\ worker[j] = "told" /\ ToldEarly
  /\ Reads(j, Status)
  /\ worker' = [worker EXCEPT ![j] = "done"]
  /\ UNCHANGED <<current, jobVars, written, batch, up, drops, notices, wire, panelVars, served,
                 scenario>>

\* ... and the reader, when Klipper's service changes.
ReaderReads ==
  /\ up /\ notices < scenario.notices /\ report[Reader] = NoReport /\ ToldEarly
  /\ notices' = notices + 1
  /\ Reads(Reader, Status)
  /\ UNCHANGED <<agentVars, up, drops, wire, panelVars, served, scenario>>

\* Wrong variant: the connection is taken up without a word.
ReconnectSilently ==
  /\ ~up
  /\ up' = TRUE
  /\ Reads(Service, NoReport)
  /\ UNCHANGED <<agentVars, drops, notices, wire, panelVars, served, scenario>>

\* run_once(): after the handshake the state is read ...
Reconnect ==
  /\ ~up
  /\ up' = TRUE
  /\ Reads(Service, Status)
  /\ UNCHANGED <<agentVars, drops, notices, wire, panelVars, served, scenario>>

\* A request thread finds the job running, asks its worker to end, and flushes the batch
\* (whose own thread may do so again before the next step).
Cancel(j) ==
  /\ j \in scenario.cancels \ cancelled /\ worker[j] # "none" /\ j \notin over
  /\ report[Canceller] = NoReport
  /\ cancelled' = cancelled \cup {j}
  /\ Emit(Flushed(batch)) /\ batch' = Emptied(batch)
  /\ report' = [report EXCEPT ![Canceller] = [kind |-> "asks", job |-> j]]
  /\ UNCHANGED <<current, worker, over, written, up, drops, notices, panelVars, served,
                 scenario>>

\* By now the worker may have ended.
CancellerReads ==
  /\ report[Canceller].kind = "asks"
  /\ Reads(Canceller, JobEvent(report[Canceller].job, Live(report[Canceller].job)))
  /\ UNCHANGED <<agentVars, up, drops, notices, wire, panelVars, served, scenario>>

\* What is sent next: by run_once() the job under way after the state, by the canceller
\* the state after a job that is over.
ThenReads(x) ==
  CASE x = Service /\ report[x].kind = "state" /\ current # None ->
         JobEvent(current, Live(current))
    [] x = Canceller /\ report[x].kind = "job" /\ report[x].job \in over -> Status
    [] OTHER -> NoReport

SendReport(x) ==
  /\ report[x].kind \in {"state", "job"} /\ Fresh(x)
  /\ Emit(<<report[x]>>)
  /\ report' = [report EXCEPT ![x] = ThenReads(x)]
  /\ UNCHANGED <<agentVars, up, drops, notices, panelVars, served, scenario>>

\* What is lost besides is what the panel asks for when the next line comes.
MoreToCome ==
  /\ current # None /\ written[current] < Lines
  /\ \A j \in Jobs : worker[j] \in {"none", "done"} \/ j = current
  /\ \A j \in Jobs : worker[j] = "done" => expected[j] = Lines

\* Moonraker restarts: what was on its way is lost, with the panel's call.
Drop ==
  /\ up /\ drops < scenario.drops /\ (MoreToCome \/ May("tail_lost"))
  /\ up' = FALSE /\ drops' = drops + 1
  /\ wire' = <<>> /\ asked' = NoAsk /\ served' = NoReport
  /\ UNCHANGED <<agentVars, report, notices, seen, expected, omitted, ended, shows, scenario>>

-----------------------------------------------------------------------------
(* fw.job.get: the ring is read, and the answer is sent by and by.          *)

JobGet ==
  /\ asked # NoAsk /\ served = NoReport
  /\ \A k \in 1..Len(wire) : wire[k].kind # "answer"
  /\ served' = LogSince(asked.job, asked.from)
  /\ UNCHANGED <<agentVars, linkVars, wire, panelVars, scenario>>

SendAnswer ==
  /\ served # NoReport
  /\ Emit(<<served>>)
  /\ served' = NoReport
  /\ UNCHANGED <<agentVars, linkVars, panelVars, scenario>>

-----------------------------------------------------------------------------
(* The panel, by the contract the sequence numbers make.                    *)

\* A batch that is not the next one is a gap; so is one that comes while a gap is
\* being filled.
SeesLog(e) ==
  /\ IF e.seq = expected[e.job]
       THEN /\ seen' = [seen EXCEPT ![e.job] = @ \cup Range(e.lines)]
            /\ expected' = [expected EXCEPT ![e.job] = e.seq + Len(e.lines)]
            /\ UNCHANGED asked
       ELSE /\ asked' = IF asked = NoAsk \/ asked.job # e.job
                          THEN [job |-> e.job, from |-> expected[e.job], again |-> FALSE]
                          ELSE [asked EXCEPT !.again = TRUE]
            /\ UNCHANGED <<seen, expected>>
  /\ UNCHANGED <<omitted, ended, shows>>

\* Lines between what was asked for and what is served are omitted; lines that came
\* meanwhile stay.  An answer for a job nobody asks about any more is let go.
SeesAnswer(e) ==
  IF asked = NoAsk \/ asked.job # e.job THEN UNCHANGED panelVars
  ELSE
  /\ seen' = [seen EXCEPT ![e.job] = @ \cup e.lines]
  /\ omitted' = [omitted EXCEPT ![e.job] = @ \cup (expected[e.job]..(e.from - 1))]
  /\ expected' = [expected EXCEPT ![e.job] = Max({@, e.next})]
  /\ asked' = IF asked.again
                THEN [asked EXCEPT !.from = expected'[e.job], !.again = FALSE] ELSE NoAsk
  /\ UNCHANGED <<ended, shows>>

SeesJob(e) ==
  /\ shows' = IF e.is = "running" THEN e.job ELSE IF shows = e.job THEN None ELSE shows
  /\ ended' = IF e.is = "ended" THEN ended \cup {e.job} ELSE ended
  /\ UNCHANGED <<seen, expected, omitted, asked>>

SeesState(e) ==
  /\ shows' = IF e.is = "running" THEN e.job ELSE None
  /\ ended' = IF e.is = "ended" THEN ended \cup {e.job} ELSE ended
  /\ UNCHANGED <<seen, expected, omitted, asked>>

See ==
  /\ wire # <<>> /\ wire' = Tail(wire)
  /\ LET e == Head(wire)
     IN  \/ e.kind = "log" /\ SeesLog(e)
         \/ e.kind = "answer" /\ SeesAnswer(e)
         \/ e.kind = "job" /\ SeesJob(e)
         \/ e.kind = "state" /\ SeesState(e)
  /\ UNCHANGED <<agentVars, linkVars, served, scenario>>

-----------------------------------------------------------------------------

WorkerStep(j) ==
  TellStart(j) \/ AppendLine(j) \/ AddLine(j) \/ TellProgress(j) \/ Finish(j) \/ EndJob(j)
  \/ TellEnd(j) \/ WorkerReads(j)

AgentStep ==
  \/ \E j \in Jobs : WorkerStep(j)
  \/ \E x \in Reporters : SendReport(x)
  \/ Tick \/ CancellerReads \/ Reconnect \/ JobGet \/ SendAnswer

Next ==
  AgentStep \/ (\E j \in Jobs : Submit(j) \/ Cancel(j)) \/ ReaderReads \/ Drop \/ See

\* Threads run, run_forever() reconnects, and the panel handles what it is sent.
Fairness ==
  /\ \A j \in Jobs : WF_vars(WorkerStep(j))
  /\ \A x \in Reporters : WF_vars(SendReport(x))
  /\ WF_vars(Tick) /\ WF_vars(CancellerReads) /\ WF_vars(Reconnect)
  /\ WF_vars(JobGet) /\ WF_vars(SendAnswer) /\ WF_vars(See)

Spec == Init /\ [][Next]_vars /\ Fairness

-----------------------------------------------------------------------------
(* Properties                                                               *)

\* The log never silently lies: what the panel shows of a job is its lines up to the
\* one it expects next, without those it says are omitted, and these are lines that
\* the ring no longer has.
TheLogDoesNotLie ==
  \A j \in Jobs :
    /\ seen[j] = [job : {j}, i : (0..(expected[j] - 1)) \ omitted[j]]
    /\ expected[j] <= written[j] /\ \A i \in omitted[j] : i < Dropped(j)

\* "Pending log lines are always flushed before the `job` event that follows them, so the
\* UI never shows 'finished' above the final few lines": with the connection up all the
\* time, who hears that a job has ended has all of its lines.
NothingAfterTheEnd == scenario.drops = 0 => \A j \in ended : expected[j] = written[j]

\* The same where nobody tells that a job is over but its worker, who flushes the lines
\* first: whatever progress, cancellations and other jobs' reports come in between.
LinesComeBeforeTheEnd == ~May("told_early") => NothingAfterTheEnd

\* Nobody is about to tell, and nothing is on its way.
Quiet ==
  /\ up /\ wire = <<>> /\ \A x \in Reporters : report[x] = NoReport
  /\ \A j \in Jobs : worker[j] \notin {"new", "ending", "told"}
  /\ current \notin over

\* The panel is not left with a job that has ended, nor without one that runs, though
\* connections go when jobs start and end: unless somebody sent what he had read
\* before others told of a change.
PanelShowsTheJob == ~May("reports_overlap") /\ Quiet => shows = current

\* Whatever was lost on the way, the panel has in the end all the lines of a job that
\* ended, or knows which it has not.  The last line must not be lost: a gap is seen
\* when a later line comes.
LogsAreComplete ==
  \A j \in Jobs :
    ~May("tail_lost") /\ worker[j] = "done" ~> expected[j] = Lines
=============================================================================
