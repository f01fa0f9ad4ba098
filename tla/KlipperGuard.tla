---------------------------- MODULE KlipperGuard ----------------------------
(***************************************************************************)
(* mcu_updater/service.py with its callers: every flash runs under the     *)
(* host-wide lock and inside klipper_stopped(), which stops Klipper, lets  *)
(* the body write to boards and starts Klipper again.  A journal file,     *)
(* reconciled whenever a process starts, and the agent's ExecStopPost       *)
(* cover the processes that die in between.                                *)
(***************************************************************************)
EXTENDS Naturals

CONSTANTS Procs,        \* the agent and the CLI processes
          Agent,        \* the one systemd restarts and runs ExecStopPost for
          NoProc,       \* nobody holds the lock
          User,         \* whoever runs systemctl by hand
          MaxCrashes,   \* how many deaths a behaviour may contain
          DisturbanceSets \* which disturbances may come together

Disturbance == {"reconcile_overlap", \* a process starts during an operation
                "agent_exit",        \* the agent dies during another's operation
                "probe_fails",       \* `systemctl is-active` fails or times out
                "start_fails",       \* the start is not carried out
                "slow_stop"}         \* the unit lingers in "deactivating"

ASSUME GuardAssumption ==
  /\ Agent \in Procs
  /\ NoProc \notin Procs /\ User \notin Procs
  /\ MaxCrashes \in Nat
  /\ DisturbanceSets \subseteq SUBSET Disturbance

VARIABLES klipper,   \* "up", "stopping" (still holding the ports) or "down"
          downBy,    \* history: who took it down last
          journal,   \* is an unfinished stop recorded in the journal file?
          lock,      \* the process that owns the exclusive lock
          pc,        \* where each process is
          stopPost,  \* has systemd yet to run the agent's ExecStopPost?
          crashes,   \* deaths so far
          disturbances \* what this environment may do besides; fixed

vars == <<klipper, downBy, journal, lock, pc, stopPost, crashes, disturbances>>

-----------------------------------------------------------------------------
Reconciling == {"starting", "checking", "reviving", "forgetting"}
Stopping    == {"recording", "stopping", "verifying"}
Writing     == {"writing", "bypassing"}
InOperation == {"entering", "restoring", "clearing", "leaving"}
                 \cup Stopping \cup Writing

TypeOK ==
  /\ klipper \in {"up", "stopping", "down"}
  /\ downBy \in Procs \cup {User}
  /\ journal \in BOOLEAN
  /\ lock \in Procs \cup {NoProc}
  /\ pc \in [Procs -> {"off", "ready"} \cup Reconciling \cup InOperation]
  /\ stopPost \in BOOLEAN
  /\ crashes \in 0..MaxCrashes
  /\ disturbances \in DisturbanceSets

Init ==
  /\ klipper = "up" /\ downBy = User
  /\ journal = FALSE
  /\ lock = NoProc
  /\ pc = [p \in Procs |-> "off"]
  /\ stopPost = FALSE
  /\ crashes = 0
  /\ disturbances \in DisturbanceSets

Go(p, from, to) == pc[p] = from /\ pc' = [pc EXCEPT ![p] = to]

\* SystemdService.is_active: only "active" counts, and a failed probe reads FALSE.
IsActive(answer) ==
  \/ answer = (klipper = "up")
  \/ "probe_fails" \in disturbances /\ answer = FALSE

\* svc.start: a failure is only a warning.
StartService ==
  \/ klipper' = "up"
  \/ "start_fails" \in disturbances /\ UNCHANGED klipper

-----------------------------------------------------------------------------
(* A process starts and reconciles.  No lock is taken for this.            *)

Start(p) ==
  /\ p = Agent => ~stopPost
  /\ "reconcile_overlap" \in disturbances \/ lock = NoProc
  /\ Go(p, "off", "starting")
  /\ UNCHANGED <<klipper, downBy, journal, lock, stopPost, crashes>>

\* Wrong variant: nobody reconciles.
ReadJournalNever(p) ==
  /\ Go(p, "starting", "ready")
  /\ UNCHANGED <<klipper, downBy, journal, lock, stopPost, crashes>>

ReadJournal(p) ==
  /\ Go(p, "starting", IF journal THEN "checking" ELSE "ready")
  /\ UNCHANGED <<klipper, downBy, journal, lock, stopPost, crashes>>

\* Wrong variant: the check is inverted.
CheckServiceInverted(p) ==
  /\ \E active \in BOOLEAN :
       IsActive(active) /\ Go(p, "checking", IF active THEN "reviving" ELSE "forgetting")
  /\ UNCHANGED <<klipper, downBy, journal, lock, stopPost, crashes>>

CheckService(p) ==
  /\ \E active \in BOOLEAN :
       IsActive(active) /\ Go(p, "checking", IF active THEN "forgetting" ELSE "reviving")
  /\ UNCHANGED <<klipper, downBy, journal, lock, stopPost, crashes>>

Revive(p) ==
  /\ Go(p, "reviving", "forgetting")
  /\ StartService
  /\ UNCHANGED <<downBy, journal, lock, stopPost, crashes>>

ForgetEntry(p) ==
  /\ Go(p, "forgetting", "ready")
  /\ journal' = FALSE
  /\ UNCHANGED <<klipper, downBy, lock, stopPost, crashes>>

-----------------------------------------------------------------------------
(* with exclusive(...): with klipper_stopped(...): write                   *)

Enter(p) ==
  /\ lock = NoProc
  /\ "reconcile_overlap" \in disturbances \/ \A q \in Procs : pc[q] \notin Reconciling
  /\ "agent_exit" \in disturbances \/ ~stopPost
  /\ Go(p, "ready", "entering")
  /\ lock' = p
  /\ UNCHANGED <<klipper, downBy, journal, stopPost, crashes>>

\* Wrong variant: whether Klipper ran is not asked.
WasActiveNotAsked(p) ==
  /\ Go(p, "entering", "recording")
  /\ UNCHANGED <<klipper, downBy, journal, lock, stopPost, crashes>>

WasActive(p) ==
  /\ \E active \in BOOLEAN :
       IsActive(active) /\ Go(p, "entering", IF active THEN "recording" ELSE "bypassing")
  /\ UNCHANGED <<klipper, downBy, journal, lock, stopPost, crashes>>

RecordStop(p) ==
  /\ Go(p, "recording", "stopping")
  /\ journal' = TRUE
  /\ UNCHANGED <<klipper, downBy, lock, stopPost, crashes>>

\* The stop may be refused (no sudo, Moonraker unreachable): only a warning.
StopService(p) ==
  /\ Go(p, "stopping", "verifying")
  /\ \/ UNCHANGED <<klipper, downBy>>
     \/ klipper' = "down" /\ downBy' = p
     \/ "slow_stop" \in disturbances /\ klipper' = "stopping" /\ downBy' = p
  /\ UNCHANGED <<journal, lock, stopPost, crashes>>

\* Wrong variant: a service that did not stop is only warned about.
VerifyWarns(p) ==
  /\ Go(p, "verifying", "writing")
  /\ UNCHANGED <<klipper, downBy, journal, lock, stopPost, crashes>>

\* Polls until the service is not active; the deadline may expire first.
Verify(p) ==
  /\ \/ \E active \in BOOLEAN :
          IsActive(active) /\ ~active /\ Go(p, "verifying", "writing")
     \/ klipper = "up" /\ Go(p, "verifying", "restoring")
  /\ UNCHANGED <<klipper, downBy, journal, lock, stopPost, crashes>>

\* The body ends: done, failed or interrupted.
EndBody(p) ==
  /\ \/ Go(p, "writing", "restoring")
     \/ Go(p, "bypassing", "leaving")
  /\ UNCHANGED <<klipper, downBy, journal, lock, stopPost, crashes>>

Restore(p) ==
  /\ Go(p, "restoring", "clearing")
  /\ StartService
  /\ UNCHANGED <<downBy, journal, lock, stopPost, crashes>>

ClearJournal(p) ==
  /\ Go(p, "clearing", "leaving")
  /\ journal' = FALSE
  /\ UNCHANGED <<klipper, downBy, lock, stopPost, crashes>>

\* The agent and the menu go on without reconciling; a command is done.
Leave(p) ==
  /\ Go(p, "leaving", "ready") \/ (p # Agent /\ Go(p, "leaving", "off"))
  /\ lock' = NoProc
  /\ UNCHANGED <<klipper, downBy, journal, stopPost, crashes>>

\* Ctrl-C before the try block is entered: neither a start nor a clear runs, and
\* the process ends.
Interrupt(p) ==
  /\ p # Agent
  /\ pc[p] \in Stopping
  /\ pc' = [pc EXCEPT ![p] = "off"]
  /\ lock' = NoProc
  /\ UNCHANGED <<klipper, downBy, journal, stopPost, crashes>>

\* A command that does not flash, or the end of the menu.
Exit(p) ==
  /\ p # Agent
  /\ Go(p, "ready", "off")
  /\ UNCHANGED <<klipper, downBy, journal, lock, stopPost, crashes>>

-----------------------------------------------------------------------------
(* The world around: deaths, systemd, the user.                            *)

Crash(p) ==
  /\ pc[p] # "off"
  /\ crashes < MaxCrashes
  /\ p = Agent => "agent_exit" \in disturbances \/ lock \in {p, NoProc}
  /\ crashes' = crashes + 1
  /\ pc' = [pc EXCEPT ![p] = "off"]
  /\ lock' = IF lock = p THEN NoProc ELSE lock
  /\ stopPost' = (stopPost \/ p = Agent)
  /\ UNCHANGED <<klipper, downBy, journal>>

ExecStopPost ==
  /\ stopPost
  /\ stopPost' = FALSE
  /\ \/ klipper = "up" /\ UNCHANGED klipper
     \/ klipper # "up" /\ StartService
  /\ UNCHANGED <<downBy, journal, lock, pc, crashes>>

StopCompletes ==
  /\ klipper = "stopping"
  /\ klipper' = "down"
  /\ UNCHANGED <<downBy, journal, lock, pc, stopPost, crashes>>

\* The user leaves the service alone while an operation is under way.
UserActs ==
  /\ lock = NoProc
  /\ \/ klipper = "up" /\ klipper' = "down" /\ downBy' = User
     \/ klipper = "down" /\ klipper' = "up" /\ UNCHANGED downBy
  /\ UNCHANGED <<journal, lock, pc, stopPost, crashes>>

-----------------------------------------------------------------------------
Progress(p) ==
  \/ ReadJournal(p) \/ CheckService(p) \/ Revive(p) \/ ForgetEntry(p)
  \/ WasActive(p) \/ RecordStop(p) \/ StopService(p) \/ Verify(p)
  \/ EndBody(p) \/ Restore(p) \/ ClearJournal(p) \/ Leave(p)

Step(p) ==
  \/ Progress(p)
  \/ Start(p) \/ Enter(p) \/ Interrupt(p) \/ Exit(p) \/ Crash(p)

Steady == UNCHANGED disturbances

Next ==
  /\ ExecStopPost \/ StopCompletes \/ UserActs \/ \E p \in Procs : Step(p)
  /\ Steady

Spec == Init /\ [][Next]_vars

\* A live process gets on with it (every external command has a time-out),
\* systemd runs ExecStopPost, and Restart=always brings the agent back: it keeps
\* being offered the chance to start however many operations the CLI runs.
FairSpec ==
  /\ Spec
  /\ WF_vars(ExecStopPost /\ Steady)
  /\ SF_vars(Start(Agent) /\ Steady)
  /\ \A p \in Procs : WF_vars(Progress(p) /\ Steady)

\* Sooner or later someone also runs the CLI again.
Rerun == \A p \in Procs : SF_vars(Start(p) /\ Steady)

-----------------------------------------------------------------------------
\* No board is written while Klipper holds the serial ports: "refusing is the
\* only safe answer".
SafeWrite == \A p \in Procs : pc[p] \in Writing => klipper = "down"

\* The same for an environment in which probes tell the truth, stops are prompt,
\* and neither a starting process nor the agent's ExecStopPost meets an operation.
SafeWriteWhenCalm == disturbances \subseteq {"start_fails"} => SafeWrite

\* No process reconciles during another's operation, and starts are carried out.
Recoverable == {"reconcile_overlap", "start_fails"} \cap disturbances = {}

\* A Klipper that the tool took down and has not brought back is in the journal,
\* so whoever starts next knows: "written before the stop and cleared after the
\* start".
NeverForgotten == Recoverable /\ klipper # "up" /\ downBy \in Procs => journal

\* An operation never starts a Klipper that the user had stopped: "the user
\* stopped it for a reason".
UserStopRespected ==
  \A p \in Procs : pc[p] = "restoring" /\ klipper # "up" => downBy # User

\* A Klipper that was taken down comes back: if the agent did it, with nobody's help
\* (the finally block, or ExecStopPost when the agent died); whoever did it, once
\* somebody starts the tool again.
KlipperComesBack ==
  /\ (Recoverable /\ klipper # "up" /\ downBy = Agent ~> klipper = "up")
  /\ Rerun => (Recoverable /\ klipper # "up" /\ downBy \in Procs ~> klipper = "up")
=============================================================================
