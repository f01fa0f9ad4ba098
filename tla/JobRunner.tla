----------------------------- MODULE JobRunner -----------------------------
(***************************************************************************)
(* mcu_updater/jobs.py with the shutdown of agent/service.py: one job at a *)
(* time in the agent, run by its own worker thread, submitted and          *)
(* cancelled by the request threads of the RPC pool, and holding the       *)
(* host-wide lock that the CLI competes for.                               *)
(***************************************************************************)
EXTENDS Naturals

CONSTANTS Requests,      \* threads of the RPC dispatch pool
          MaxJobs,       \* how many jobs a behaviour may contain
          MaxBoards,     \* how many boards one flash job may write
          WithShutdown,  \* does SIGTERM reach the agent?
          DisturbanceSets \* which disturbances may come together

Disturbance == {"slow_cancel",    \* cancel() is overtaken by the end of its job
                "early_cancel",   \* cancel() finds a job whose submit() has yet to clear the event
                "thread_fails",   \* thread.start() raises
                "late_submit"}    \* submit() overlaps a shutdown

ASSUME JobAssumption ==
  /\ MaxJobs \in Nat /\ MaxBoards \in Nat \ {0}
  /\ WithShutdown \in BOOLEAN
  /\ DisturbanceSets \subseteq SUBSET Disturbance

Jobs  == 1..MaxJobs
NoJob == 0

VARIABLES
  current,   \* the job in the slot, _current
  issued,    \* how many ids were given out; their jobs are in _by_id
  kind,      \* of each job: "build" or "flash"
  state,     \* of each job: "running", "succeeded", "failed", "cancelled"
  requested, \* cancel_requested of each job
  left,      \* boards each job still has to write
  worker,    \* where each worker thread is
  cancel,    \* the runner's one cancel event
  lock,      \* the job on whose behalf the agent holds the host-wide lock
  cli,       \* does a CLI process hold it?
  thread,    \* the job whose thread _thread refers to
  req,       \* where each request thread is
  target,    \* the job each request thread works for
  snapshot,  \* the job state a canceller is about to send
  told,      \* the last state of each job that clients were sent
  stopper,   \* where request_stop() is
  joined,    \* the thread wait() joined
  expired,   \* did the shutdown grace run out?
  disturbances \* what may happen besides in this behaviour; fixed

vars == <<current, issued, kind, state, requested, left, worker, cancel, lock,
          cli, thread, req, target, snapshot, told, stopper, joined, expired, disturbances>>

jobVars  == <<kind, state, requested, left, worker>>
slotVars == <<current, issued, cancel, lock, cli, thread>>
reqVars  == <<req, target, snapshot>>
stopVars == <<stopper, joined, expired>>

-----------------------------------------------------------------------------
Terminal   == {"succeeded", "failed", "cancelled"}
Cancelling == {"found", "marked", "set", "sending"}
Submitting == {"clearing", "announcing", "assigning", "starting", "unlocking", "vacating",
               "failing"}

TypeOK ==
  /\ current \in Jobs \cup {NoJob}
  /\ issued \in 0..MaxJobs
  /\ kind \in [Jobs -> {"build", "flash"}]
  /\ state \in [Jobs -> {"none", "running"} \cup Terminal]
  /\ requested \in [Jobs -> BOOLEAN]
  /\ left \in [Jobs -> 0..MaxBoards]
  /\ worker \in [Jobs -> {"unborn", "body", "writing", "ended", "unlocked",
                          "vacant", "done"}]
  /\ cancel \in BOOLEAN
  /\ lock \in Jobs \cup {NoJob}
  /\ cli \in BOOLEAN
  /\ thread \in Jobs \cup {NoJob}
  /\ req \in [Requests -> {"idle"} \cup Cancelling \cup Submitting]
  /\ target \in [Requests -> Jobs \cup {NoJob}]
  /\ snapshot \in [Requests -> {"none", "running"} \cup Terminal]
  /\ told \in [Jobs -> {"none", "running"} \cup Terminal]
  /\ stopper \in {"off", "asked", "joining", "raised", "ready", "exited"}
  /\ joined \in Jobs \cup {NoJob}
  /\ expired \in BOOLEAN
  /\ disturbances \in DisturbanceSets

Init ==
  /\ current = NoJob /\ issued = 0
  /\ kind = [j \in Jobs |-> "build"]
  /\ state = [j \in Jobs |-> "none"]
  /\ requested = [j \in Jobs |-> FALSE]
  /\ left = [j \in Jobs |-> 0]
  /\ worker = [j \in Jobs |-> "unborn"]
  /\ cancel = FALSE
  /\ lock = NoJob /\ cli = FALSE
  /\ thread = NoJob
  /\ req = [r \in Requests |-> "idle"]
  /\ target = [r \in Requests |-> NoJob]
  /\ snapshot = [r \in Requests |-> "none"]
  /\ told = [j \in Jobs |-> "none"]
  /\ stopper = "off" /\ joined = NoJob /\ expired = FALSE
  /\ disturbances \in DisturbanceSets

ReqGo(r, from, to)  == req[r] = from /\ req' = [req EXCEPT ![r] = to]
WorkGo(j, from, to) == worker[j] = from /\ worker' = [worker EXCEPT ![j] = to]

\* No cancel() is between its check and its event for a job about to end.
CancelsSettled ==
  "slow_cancel" \in disturbances \/ \A r \in Requests : req[r] \notin Cancelling

\* The job is in _by_id, and its submit() has yet to clear the event.
Clearing(j) == \E r \in Requests : req[r] = "clearing" /\ target[r] = j

-----------------------------------------------------------------------------
(* submit(): the section under _slot_lock, the announcement, the thread.   *)

\* Wrong variant: only the slot is looked at, not the host-wide lock.
TakeWithoutLock(r) ==
  /\ current = NoJob
  /\ issued < MaxJobs
  /\ LET j == issued + 1 IN
       /\ issued' = j /\ current' = j /\ lock' = j
       /\ kind' = [kind EXCEPT ![j] = "build"]
       /\ state' = [state EXCEPT ![j] = "running"]
       /\ target' = [target EXCEPT ![r] = j]
  /\ ReqGo(r, "idle", "clearing")
  /\ UNCHANGED <<requested, left, worker, cancel, cli, thread, snapshot, told, stopVars>>

\* BusyError, for the slot or for the lock, changes nothing.  With the last assignment,
\* that to _by_id, cancel() can find the job.
Take(r) ==
  /\ current = NoJob /\ lock = NoJob /\ ~cli
  /\ issued < MaxJobs
  /\ "late_submit" \in disturbances \/ stopper = "off"
  /\ LET j == issued + 1 IN
       /\ issued' = j /\ current' = j /\ lock' = j
       /\ \E k \in {"build", "flash"} : kind' = [kind EXCEPT ![j] = k]
       /\ \E n \in 0..MaxBoards :
            /\ kind'[j] = "flash" <=> n > 0
            /\ left' = [left EXCEPT ![j] = n]
       /\ state' = [state EXCEPT ![j] = "running"]
       /\ target' = [target EXCEPT ![r] = j]
  /\ ReqGo(r, "idle", "clearing")
  /\ UNCHANGED <<requested, worker, cancel, cli, thread, snapshot, told, stopVars>>

\* Wrong variant: the cancel event keeps what the last job left in it.
ClearEventNever(r) ==
  /\ ReqGo(r, "clearing", "announcing")
  /\ UNCHANGED <<jobVars, slotVars, target, snapshot, told, stopVars>>

\* Still under _slot_lock, which cancel() does not take.
ClearEvent(r) ==
  /\ ReqGo(r, "clearing", "announcing")
  /\ cancel' = FALSE
  /\ UNCHANGED <<jobVars, current, issued, lock, cli, thread, target, snapshot, told,
                 stopVars>>

\* Wrong variant: the thread is started first, then clients are told "running".
AnnounceStartLate(r) ==
  \/ /\ req[r] = "announcing"
     /\ WorkGo(target[r], "unborn", "body")
     /\ UNCHANGED <<kind, state, requested, left, slotVars, reqVars, told, stopVars>>
  \/ /\ ReqGo(r, "announcing", "idle")
     /\ worker[target[r]] # "unborn"
     /\ told' = [told EXCEPT ![target[r]] = "running"]
     /\ target' = [target EXCEPT ![r] = NoJob]
     /\ UNCHANGED <<jobVars, slotVars, snapshot, stopVars>>

AnnounceStart(r) ==
  /\ ReqGo(r, "announcing", "assigning")
  /\ told' = [told EXCEPT ![target[r]] = state[target[r]]]
  /\ UNCHANGED <<jobVars, slotVars, target, snapshot, stopVars>>

AssignThread(r) ==
  /\ ReqGo(r, "assigning", "starting")
  /\ thread' = target[r]
  /\ UNCHANGED <<jobVars, current, issued, cancel, lock, cli, target, snapshot,
                 told, stopVars>>

StartThread(r) ==
  \/ /\ ReqGo(r, "starting", "idle")
     /\ WorkGo(target[r], "unborn", "body")
     /\ target' = [target EXCEPT ![r] = NoJob]
     /\ UNCHANGED <<kind, state, requested, left, slotVars, snapshot, told, stopVars>>
  \/ /\ "thread_fails" \in disturbances
     /\ ReqGo(r, "starting", "unlocking")
     /\ UNCHANGED <<jobVars, slotVars, target, snapshot, told, stopVars>>

UnlockUnstarted(r) ==
  /\ ReqGo(r, "unlocking", "vacating")
  /\ lock' = NoJob
  /\ UNCHANGED <<jobVars, current, issued, cancel, cli, thread, target, snapshot,
                 told, stopVars>>

VacateUnstarted(r) ==
  /\ ReqGo(r, "vacating", "failing")
  /\ current' = NoJob
  /\ UNCHANGED <<jobVars, issued, cancel, lock, cli, thread, target, snapshot,
                 told, stopVars>>

FailUnstarted(r) ==
  /\ ReqGo(r, "failing", "idle")
  /\ state' = [state EXCEPT ![target[r]] = "failed"]
  /\ target' = [target EXCEPT ![r] = NoJob]
  /\ UNCHANGED <<kind, requested, left, worker, slotVars, snapshot, told, stopVars>>

-----------------------------------------------------------------------------
(* The worker thread.  A flash looks at the event between boards only; a   *)
(* build may notice it any time, or finish first.                          *)

\* Wrong variant: the event is not looked at between boards.
WriteBoardUnchecked(j) ==
  /\ left[j] > 0
  /\ WorkGo(j, "body", "writing")
  /\ left' = [left EXCEPT ![j] = @ - 1]
  /\ UNCHANGED <<kind, state, requested, slotVars, reqVars, told, stopVars>>

WriteBoard(j) ==
  /\ left[j] > 0 /\ ~cancel
  /\ WorkGo(j, "body", "writing")
  /\ left' = [left EXCEPT ![j] = @ - 1]
  /\ UNCHANGED <<kind, state, requested, slotVars, reqVars, told, stopVars>>

BoardWritten(j) ==
  /\ WorkGo(j, "writing", "body")
  /\ UNCHANGED <<kind, state, requested, left, slotVars, reqVars, told, stopVars>>

EndBody(j) ==
  /\ CancelsSettled
  /\ WorkGo(j, "body", "ended")
  /\ \/ left[j] = 0 /\ state' = [state EXCEPT ![j] = "succeeded"]
     \/ state' = [state EXCEPT ![j] = "failed"]
     \/ cancel /\ state' = [state EXCEPT ![j] = "cancelled"]
  /\ UNCHANGED <<kind, requested, left, slotVars, reqVars, told, stopVars>>

ReleaseLock(j) ==
  /\ WorkGo(j, "ended", "unlocked")
  /\ lock' = NoJob
  /\ UNCHANGED <<kind, state, requested, left, current, issued, cancel, cli,
                 thread, reqVars, told, stopVars>>

VacateSlot(j) ==
  /\ WorkGo(j, "unlocked", "vacant")
  /\ current' = NoJob
  /\ UNCHANGED <<kind, state, requested, left, issued, cancel, lock, cli, thread,
                 reqVars, told, stopVars>>

\* Wrong variant: the end is announced only while no other job is in the slot.
AnnounceEndOfCurrent(j) ==
  /\ WorkGo(j, "vacant", "done")
  /\ told' = IF current = NoJob THEN [told EXCEPT ![j] = state[j]] ELSE told
  /\ UNCHANGED <<kind, state, requested, left, slotVars, reqVars, stopVars>>

AnnounceEnd(j) ==
  /\ WorkGo(j, "vacant", "done")
  /\ told' = [told EXCEPT ![j] = state[j]]
  /\ UNCHANGED <<kind, state, requested, left, slotVars, reqVars, stopVars>>

-----------------------------------------------------------------------------
(* cancel(job_id): nothing here takes _slot_lock.                          *)

\* Bound: a job already marked is not asked again, which would repeat the same
\* assignments.
FindJob(r) ==
  /\ \E j \in 1..issued :
       /\ state[j] \notin Terminal
       /\ ~requested[j]
       /\ "early_cancel" \in disturbances \/ ~Clearing(j)
       /\ target' = [target EXCEPT ![r] = j]
  /\ ReqGo(r, "idle", "found")
  /\ UNCHANGED <<jobVars, slotVars, snapshot, told, stopVars>>

MarkJob(r) ==
  /\ ReqGo(r, "found", "marked")
  /\ requested' = [requested EXCEPT ![target[r]] = TRUE]
  /\ UNCHANGED <<kind, state, left, worker, slotVars, target, snapshot, told, stopVars>>

SetEvent(r) ==
  /\ ReqGo(r, "marked", "set")
  /\ cancel' = TRUE
  /\ UNCHANGED <<jobVars, current, issued, lock, cli, thread, target, snapshot,
                 told, stopVars>>

TakeSnapshot(r) ==
  /\ ReqGo(r, "set", "sending")
  /\ snapshot' = [snapshot EXCEPT ![r] = state[target[r]]]
  /\ UNCHANGED <<jobVars, slotVars, target, told, stopVars>>

SendSnapshot(r) ==
  /\ ReqGo(r, "sending", "idle")
  /\ told' = [told EXCEPT ![target[r]] = snapshot[r]]
  /\ snapshot' = [snapshot EXCEPT ![r] = "none"]
  /\ target' = [target EXCEPT ![r] = NoJob]
  /\ UNCHANGED <<jobVars, slotVars, stopVars>>

-----------------------------------------------------------------------------
(* request_stop(): look at the slot once, join a flash, then stop.  The     *)
(* worker is a daemon thread: it dies with the process.                    *)

\* Wrong variant: the shutdown waits for nothing.
AskedToStopAtOnce ==
  /\ WithShutdown
  /\ stopper = "off"
  /\ stopper' = "ready"
  /\ UNCHANGED <<jobVars, slotVars, reqVars, told, joined, expired>>

AskedToStop ==
  /\ WithShutdown
  /\ stopper = "off"
  /\ "late_submit" \in disturbances \/ \A r \in Requests : req[r] \notin Submitting
  /\ stopper' = IF current # NoJob /\ kind[current] = "flash" THEN "asked" ELSE "ready"
  /\ UNCHANGED <<jobVars, slotVars, reqVars, told, joined, expired>>

\* wait(): thread.join() on whatever _thread refers to by now.
JoinThread ==
  /\ stopper = "asked"
  /\ joined' = thread
  /\ stopper' = CASE thread = NoJob -> "ready"
                  [] thread # NoJob /\ worker[thread] = "unborn" -> "raised"
                  [] OTHER -> "joining"
  /\ UNCHANGED <<jobVars, slotVars, reqVars, told, expired>>

Joined ==
  /\ stopper = "joining"
  /\ \/ worker[joined] = "done" /\ UNCHANGED expired
     \/ worker[joined] # "done" /\ expired' = TRUE
  /\ stopper' = "ready"
  /\ UNCHANGED <<jobVars, slotVars, reqVars, told, joined>>

\* stop() lets the main thread return; when request_stop() itself raised it is
\* systemd that kills the process, at TimeoutStopSec.
ProcessExit ==
  /\ stopper \in {"ready", "raised"}
  /\ stopper' = "exited"
  /\ lock' = NoJob
  /\ UNCHANGED <<jobVars, current, issued, cancel, cli, thread, reqVars, told,
                 joined, expired>>

-----------------------------------------------------------------------------
CliLocks ==
  /\ lock = NoJob
  /\ cli' = ~cli
  /\ UNCHANGED <<jobVars, current, issued, cancel, lock, thread, reqVars, told, stopVars>>

SubmitStep(r) ==
  \/ ClearEvent(r) \/ AnnounceStart(r) \/ AssignThread(r) \/ StartThread(r)
  \/ UnlockUnstarted(r) \/ VacateUnstarted(r) \/ FailUnstarted(r)

CancelStep(r) == MarkJob(r) \/ SetEvent(r) \/ TakeSnapshot(r) \/ SendSnapshot(r)

WorkerStep(j) ==
  \/ WriteBoard(j) \/ BoardWritten(j) \/ EndBody(j)
  \/ ReleaseLock(j) \/ VacateSlot(j) \/ AnnounceEnd(j)

StopStep == JoinThread \/ Joined \/ ProcessExit

Running(A) == stopper # "exited" /\ A

Steady == UNCHANGED disturbances

Next ==
  /\ \/ CliLocks
     \/ \E r \in Requests :
          Running(Take(r) \/ FindJob(r) \/ SubmitStep(r) \/ CancelStep(r))
     \/ \E j \in Jobs : Running(WorkerStep(j))
     \/ Running(AskedToStop \/ StopStep)
  /\ Steady

Spec == Init /\ [][Next]_vars

\* Threads are scheduled, and every command a body runs has a time-out, so a
\* body ends.
FairSpec ==
  /\ Spec
  /\ \A r \in Requests : WF_vars(Running(SubmitStep(r) \/ CancelStep(r)) /\ Steady)
  /\ \A j \in Jobs : WF_vars(Running(WorkerStep(j)) /\ Steady)
  /\ WF_vars(Running(StopStep) /\ Steady)

-----------------------------------------------------------------------------
\* The body of a job only runs while that job owns the slot and the agent holds
\* the host-wide lock for it: neither a failed start nor an early release lets
\* two bodies, or a body and the CLI, overlap.
BodyOwnsHost ==
  \A j \in Jobs :
    stopper # "exited" /\ worker[j] \in {"body", "writing"}
      => current = j /\ lock = j /\ ~cli

\* submit() never meets its own agent's lock: when the slot is free the lock is
\* free or the CLI's, so "busy" always names a job or another process.
NeverLockedOutByItself == current = NoJob => lock = NoJob

\* Once cancel() has gone through, the job starts no further board.
CancelHonoured(j) ==
  worker[j] = "body" /\ worker'[j] = "writing" /\ requested[j]
    => \E r \in Requests : req[r] \in {"found", "marked"} /\ target[r] = j

\* Where no cancel() comes between the registration of its job and the clear() of the
\* event, which would wipe it, a job that was cancelled starts no further board.
CancelHonouredInTime ==
  [][\A j \in Jobs : "early_cancel" \notin disturbances => CancelHonoured(j)]_vars

\* A job ends cancelled only if somebody asked for that job.
CancelledWasRequested ==
  \A j \in Jobs : state[j] = "cancelled" => requested[j]

\* The same where every cancel() goes through before the job it found ends, or fails to
\* start.
CancelledWasRequestedInTime ==
  {"slow_cancel", "thread_fails"} \cap disturbances = {} => CancelledWasRequested

\* After clients were told a job is over they are never told it runs, if threads start
\* and no cancel() is overtaken by the end of its job.
ToldInOrder ==
  [][{"slow_cancel", "thread_fails"} \cap disturbances = {} =>
     \A j \in Jobs : told[j] \in Terminal => told'[j] = told[j]]_vars

\* "`job`: on every state transition": a job that clients saw start is one they
\* see end, while the agent runs, its threads start and no cancel() is overtaken.
StartedJobsAreSeenToEnd ==
  {"slow_cancel", "thread_fails"} \cap disturbances = {} =>
    \A j \in Jobs :
      told[j] = "running" ~> told[j] \in Terminal \/ stopper = "exited"

\* "Shut down, but never in the middle of a write" - unless the grace ran out.
ShutdownSparesWrites ==
  [][stopper # "exited" /\ stopper' = "exited" /\ ~expired
       => \A j \in Jobs : worker[j] # "writing"]_vars

\* The same where no submit() overlaps the shutdown.
ShutdownSparesWritesInTime ==
  [][/\ "late_submit" \notin disturbances
     /\ stopper # "exited" /\ stopper' = "exited" /\ ~expired
     => \A j \in Jobs : worker[j] # "writing"]_vars
=============================================================================
