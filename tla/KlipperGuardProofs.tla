------------------------- MODULE KlipperGuardProofs -------------------------
(***************************************************************************)
(* What service.py guarantees for any number of processes and of deaths,   *)
(* and what each guarantee asks of the environment.                        *)
(***************************************************************************)
EXTENDS KlipperGuard, TLAPS

USE GuardAssumption

\* The lock is held exactly by the process inside an operation.
LockMatchesPc == \A p \in Procs : pc[p] \in InOperation <=> lock = p

\* Before its stop an operation has Klipper up; after it, a Klipper that is
\* not up was taken down by the operation itself.
StopIsOwn ==
  \A p \in Procs :
    /\ pc[p] \in {"recording", "stopping"} => klipper = "up"
    /\ pc[p] \in {"verifying", "writing", "restoring"} /\ klipper # "up" => downBy = p

Inv == TypeOK /\ LockMatchesPc /\ StopIsOwn

LEMMA InitInv == Init => Inv
<1> SUFFICES ASSUME Init PROVE Inv
  OBVIOUS
<1>1. TypeOK
  <2>1. pc \in [Procs -> {"off", "ready"} \cup Reconciling \cup InOperation]
    BY DEF Init
  <2>2. crashes \in 0..MaxCrashes
    BY DEF Init
  <2> QED BY <2>1, <2>2 DEF Init, TypeOK
<1>2. LockMatchesPc /\ StopIsOwn
  BY DEF Init, LockMatchesPc, StopIsOwn, InOperation, Stopping, Writing
<1> QED BY <1>1, <1>2 DEF Inv

LEMMA StepInv ==
  ASSUME Inv, NEW p \in Procs, Step(p), Steady
  PROVE  Inv'
<1> USE DEF Inv, TypeOK, LockMatchesPc, StopIsOwn, InOperation, Stopping,
            Writing, Reconciling, Go, Steady
<1>1. CASE Start(p) \/ ReadJournal(p) \/ CheckService(p)
  BY <1>1 DEF Start, ReadJournal, CheckService
<1>2. CASE Revive(p) \/ ForgetEntry(p)
  BY <1>2 DEF Revive, ForgetEntry, StartService
<1>3. CASE Enter(p)
  BY <1>3 DEF Enter
<1>4. CASE WasActive(p)
  BY <1>4 DEF WasActive, IsActive
<1>5. CASE RecordStop(p) \/ StopService(p)
  BY <1>5 DEF RecordStop, StopService
<1>6. CASE Verify(p) \/ EndBody(p)
  BY <1>6 DEF Verify, EndBody
<1>7. CASE Restore(p)
  BY <1>7 DEF Restore, StartService
<1>8. CASE ClearJournal(p) \/ Leave(p)
  BY ZenonT(40), <1>8 DEF ClearJournal, Leave
<1>9. CASE Interrupt(p) \/ Exit(p)
  BY <1>9 DEF Interrupt, Exit
<1>10. CASE Crash(p)
  BY <1>10 DEF Crash
<1> QED
  BY <1>1, <1>2, <1>3, <1>4, <1>5, <1>6, <1>7, <1>8, <1>9, <1>10
     DEF Step, Progress

LEMMA NextInv == Inv /\ [Next]_vars => Inv'
<1> SUFFICES ASSUME Inv, [Next]_vars PROVE Inv'
  OBVIOUS
<1> USE DEF Inv, TypeOK, LockMatchesPc, StopIsOwn, InOperation, Stopping,
            Writing, Reconciling, Steady
<1>0. Steady
  BY DEF Next, vars
<1>1. CASE ExecStopPost
  BY <1>0, <1>1 DEF ExecStopPost, StartService
<1>2. CASE StopCompletes
  BY <1>0, <1>2 DEF StopCompletes
<1>3. CASE UserActs
  BY <1>0, <1>3 DEF UserActs
<1>4. CASE UNCHANGED vars
  BY <1>4 DEF vars
<1> QED BY <1>0, <1>1, <1>2, <1>3, <1>4, StepInv DEF Next

\* The inductive invariant, in every environment.
THEOREM Invariance == Spec => []Inv
BY InitInv, NextInv, PTL DEF Spec

\* Every variable keeps its type, in every environment.
THEOREM TypeCorrect == Spec => []TypeOK
<1>1. Inv => TypeOK
  BY DEF Inv
<1> QED BY <1>1, Invariance, PTL

\* klipper_stopped() never starts a Klipper that the user had stopped, in every
\* environment, overlaps and failures included.
THEOREM LeavesUserStopAlone == Spec => []UserStopRespected
<1>1. Inv => UserStopRespected
  BY DEF Inv, TypeOK, StopIsOwn, UserStopRespected
<1> QED BY <1>1, Invariance, PTL

-----------------------------------------------------------------------------
(* With no reconciliation during an operation.                             *)

ReconcileApart == \A p, q \in Procs : lock = p => pc[q] \notin Reconciling

LEMMA NextReconcileApart ==
  ASSUME "reconcile_overlap" \notin disturbances, Inv, Inv', ReconcileApart,
         [Next]_vars
  PROVE  ReconcileApart'
<1> USE DEF Inv, TypeOK, LockMatchesPc, ReconcileApart, Reconciling, InOperation,
            Stopping, Writing, Go
<1>1. ASSUME NEW p \in Procs, Step(p) PROVE ReconcileApart'
  <2>1. CASE Start(p) \/ ReadJournal(p) \/ CheckService(p) \/ Revive(p)
             \/ ForgetEntry(p) \/ Exit(p)
    BY <2>1 DEF Start, ReadJournal, CheckService, Revive, ForgetEntry, Exit
  <2>2. CASE Enter(p) \/ Leave(p) \/ Crash(p) \/ Interrupt(p)
    BY <2>2 DEF Enter, Leave, Crash, Interrupt
  <2>3. CASE WasActive(p) \/ RecordStop(p) \/ StopService(p) \/ Verify(p)
             \/ EndBody(p) \/ Restore(p) \/ ClearJournal(p)
    BY <2>3 DEF WasActive, RecordStop, StopService, Verify, EndBody, Restore,
       ClearJournal
  <2> QED BY <1>1, <2>1, <2>2, <2>3 DEF Step, Progress
<1>2. CASE ExecStopPost \/ StopCompletes \/ UserActs \/ UNCHANGED vars
  BY <1>2 DEF ExecStopPost, StopCompletes, UserActs, vars
<1> QED BY <1>1, <1>2 DEF Next

Remembered == klipper # "up" /\ downBy \in Procs => journal

\* While the tool owes Klipper a start the journal says so, and whoever is
\* about to clear the journal owes nothing.
JournalInv ==
  /\ ReconcileApart
  /\ Remembered
  /\ \A p \in Procs :
       /\ pc[p] \in {"stopping", "verifying", "writing", "restoring"} => journal
       /\ pc[p] = "clearing" => klipper = "up"
       /\ pc[p] = "forgetting" => klipper = "up" \/ downBy = User

LEMMA NextJournalInv ==
  ASSUME Recoverable, Inv, Inv', JournalInv, [Next]_vars
  PROVE  JournalInv'
<1>0. ReconcileApart'
  BY NextReconcileApart DEF JournalInv, Recoverable
<1> USE <1>0 DEF Inv, TypeOK, LockMatchesPc, ReconcileApart, Reconciling, InOperation,
            Stopping, Writing, Go, JournalInv, Remembered, Recoverable
<1>1. ASSUME NEW p \in Procs, Step(p) PROVE JournalInv'
  <2>1. CASE Start(p) \/ ReadJournal(p)
    BY <2>1 DEF Start, ReadJournal
  <2>2. CASE CheckService(p)
    BY <2>2 DEF CheckService, IsActive
  <2>3. CASE Revive(p)
    BY <2>3 DEF Revive, StartService
  <2>4. CASE ForgetEntry(p)
    BY <2>4 DEF ForgetEntry
  <2>5. CASE Enter(p) \/ Leave(p) \/ Exit(p)
    BY <2>5 DEF Enter, Leave, Exit
  <2>6. CASE Crash(p) \/ Interrupt(p)
    BY <2>6 DEF Crash, Interrupt
  <2>7. CASE WasActive(p) \/ RecordStop(p)
    BY <2>7 DEF WasActive, RecordStop
  <2>8. CASE StopService(p)
    BY <2>8 DEF StopService
  <2>9. CASE Verify(p) \/ EndBody(p)
    BY <2>9 DEF Verify, EndBody
  <2>10. CASE Restore(p) \/ ClearJournal(p)
    BY <2>10 DEF Restore, ClearJournal, StartService
  <2> QED
    BY <1>1, <2>1, <2>2, <2>3, <2>4, <2>5, <2>6, <2>7, <2>8, <2>9, <2>10
       DEF Step, Progress
<1>2. CASE ExecStopPost
  BY <1>2 DEF ExecStopPost, StartService
<1>3. CASE StopCompletes
  BY <1>3 DEF StopCompletes
<1>4. CASE UserActs
  BY <1>4 DEF UserActs
<1>5. CASE UNCHANGED vars
  BY <1>5 DEF vars
<1> QED BY <1>1, <1>2, <1>3, <1>4, <1>5 DEF Next

\* A Klipper the tool took down stays in the journal until it is back, provided
\* starts are carried out and nobody reconciles during an operation; probes may
\* fail, stops may linger and the agent may die at any time.
THEOREM JournalRemembers == Spec => []NeverForgotten
<1>1. Init => (Recoverable => JournalInv)
  BY DEF Init, JournalInv, ReconcileApart, Remembered, Reconciling
<1>2. Inv /\ Inv' /\ (Recoverable => JournalInv) /\ [Next]_vars
        => (Recoverable => JournalInv)'
  <2>1. [Next]_vars => (Recoverable' <=> Recoverable)
    BY DEF Next, Steady, vars, Recoverable
  <2> QED BY <2>1, NextJournalInv
<1>3. (Recoverable => JournalInv) => NeverForgotten
  BY DEF JournalInv, Remembered, NeverForgotten
<1> QED BY <1>1, <1>2, <1>3, Invariance, PTL DEF Spec

-----------------------------------------------------------------------------
(* With, besides, an agent that does not die during somebody else's         *)
(* operation, truthful probes and prompt stops.                            *)

\* No pending ExecStopPost meets an operation, the unit never lingers, and
\* Klipper is down while boards are written.
WriteInv ==
  /\ ReconcileApart
  /\ stopPost => lock = NoProc
  /\ klipper # "stopping"
  /\ SafeWrite

LEMMA NextWriteInv ==
  ASSUME disturbances \subseteq {"start_fails"},
         Inv, Inv', WriteInv, [Next]_vars
  PROVE  WriteInv'
<1>0. ReconcileApart'
  BY NextReconcileApart DEF WriteInv
<1> USE <1>0 DEF Inv, TypeOK, LockMatchesPc, ReconcileApart, Reconciling, InOperation,
            Stopping, Writing, Go, WriteInv, SafeWrite
<1>1. ASSUME NEW p \in Procs, Step(p) PROVE WriteInv'
  <2>1. CASE Start(p) \/ ReadJournal(p) \/ CheckService(p) \/ ForgetEntry(p)
    BY <2>1 DEF Start, ReadJournal, CheckService, ForgetEntry
  <2>2. CASE Revive(p)
    BY <2>2 DEF Revive, StartService
  <2>3. CASE Enter(p) \/ Leave(p) \/ Exit(p)
    BY <2>3 DEF Enter, Leave, Exit
  <2>4. CASE Crash(p) \/ Interrupt(p)
    BY <2>4 DEF Crash, Interrupt
  <2>5. CASE WasActive(p)
    BY <2>5 DEF WasActive, IsActive
  <2>6. CASE RecordStop(p) \/ StopService(p)
    BY <2>6 DEF RecordStop, StopService
  <2>7. CASE Verify(p)
    BY <2>7 DEF Verify, IsActive
  <2>8. CASE EndBody(p) \/ ClearJournal(p)
    BY <2>8 DEF EndBody, ClearJournal
  <2>9. CASE Restore(p)
    BY <2>9 DEF Restore, StartService
  <2> QED
    BY <1>1, <2>1, <2>2, <2>3, <2>4, <2>5, <2>6, <2>7, <2>8, <2>9
       DEF Step, Progress
<1>2. CASE ExecStopPost
  BY <1>2 DEF ExecStopPost, StartService
<1>3. CASE StopCompletes \/ UserActs
  BY <1>3 DEF StopCompletes, UserActs
<1>4. CASE UNCHANGED vars
  BY <1>4 DEF vars
<1> QED BY <1>1, <1>2, <1>3, <1>4 DEF Next

\* No board is written while Klipper holds its port, however many processes
\* compete and wherever they die, even if Klipper cannot be started again.
THEOREM WritesAreSafe == Spec => []SafeWriteWhenCalm
<1> DEFINE Calm == disturbances \subseteq {"start_fails"}
<1>1. Init => (Calm => WriteInv)
  BY DEF Init, WriteInv, ReconcileApart, SafeWrite, Reconciling, Writing
<1>2. Inv /\ Inv' /\ (Calm => WriteInv) /\ [Next]_vars => (Calm => WriteInv)'
  <2>1. [Next]_vars => (Calm' <=> Calm)
    BY DEF Next, Steady, vars
  <2> QED BY <2>1, NextWriteInv
<1>3. (Calm => WriteInv) => SafeWriteWhenCalm
  BY DEF WriteInv, SafeWriteWhenCalm
<1> HIDE DEF Calm
<1> QED BY <1>1, <1>2, <1>3, Invariance, PTL DEF Spec
=============================================================================
