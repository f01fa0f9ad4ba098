-------------------------- MODULE JobRunnerProofs --------------------------
(***************************************************************************)
(* The slot, the host-wide lock and the running body belong together, for  *)
(* any number of request threads, jobs and boards, with cancels, failing   *)
(* threads, late submits and shutdowns at any moment.                      *)
(***************************************************************************)
EXTENDS JobRunner, TLAPS

USE JobAssumption

Occupying == {"clearing", "announcing", "assigning", "starting", "unlocking", "vacating"}
Alive     == stopper # "exited"

\* A submit between the slot section and the thread's life occupies the slot.
SubmitOccupies ==
  \A r \in Requests : req[r] \in Occupying =>
    /\ target[r] \in Jobs /\ current = target[r]
    /\ worker[target[r]] = "unborn"
    /\ Alive => lock = IF req[r] = "vacating" THEN NoJob ELSE target[r]
    /\ target[r] <= issued

OneSubmit ==
  \A r, s \in Requests : req[r] \in Occupying /\ req[s] \in Occupying => r = s

\* A worker that has not left the slot occupies it.
WorkerOccupies ==
  \A j \in Jobs :
    /\ worker[j] \in {"body", "writing", "ended", "unlocked"} => current = j
    /\ worker[j] \in {"body", "writing", "ended"} => (Alive => lock = j)
    /\ worker[j] = "unlocked" => (Alive => lock = NoJob)

LockFollowsSlot ==
  /\ lock # NoJob => current = lock
  /\ cli => lock = NoJob

IssuedBound == \A j \in Jobs : j > issued => worker[j] = "unborn"

TargetsAreJobs == \A r \in Requests : req[r] # "idle" => target[r] \in Jobs

Inv == /\ TypeOK /\ TargetsAreJobs /\ SubmitOccupies /\ OneSubmit /\ WorkerOccupies
       /\ LockFollowsSlot /\ IssuedBound

-----------------------------------------------------------------------------
LEMMA InitInv == Init => Inv
<1> SUFFICES ASSUME Init PROVE Inv
  OBVIOUS
<1>1. 0 \in 0..MaxJobs /\ 0 \in 0..MaxBoards
  OBVIOUS
<1>2. TypeOK
  <2>1. /\ kind \in [Jobs -> {"build", "flash"}]
        /\ state \in [Jobs -> {"none", "running"} \cup Terminal]
        /\ requested \in [Jobs -> BOOLEAN]
        /\ left \in [Jobs -> 0..MaxBoards]
        /\ worker \in [Jobs -> {"unborn", "body", "writing", "ended", "unlocked",
                                "vacant", "done"}]
        /\ told \in [Jobs -> {"none", "running"} \cup Terminal]
    BY <1>1 DEF Init
  <2>2. /\ req \in [Requests -> {"idle"} \cup Cancelling \cup Submitting]
        /\ target \in [Requests -> Jobs \cup {NoJob}]
        /\ snapshot \in [Requests -> {"none", "running"} \cup Terminal]
    BY DEF Init
  <2> QED BY <1>1, <2>1, <2>2 DEF Init, TypeOK
<1>3. /\ TargetsAreJobs /\ SubmitOccupies /\ OneSubmit /\ WorkerOccupies
      /\ LockFollowsSlot /\ IssuedBound
  BY DEF Init, TargetsAreJobs, SubmitOccupies, OneSubmit, WorkerOccupies, LockFollowsSlot,
     IssuedBound, Occupying, NoJob
<1> QED BY <1>2, <1>3 DEF Inv

\* Taking the slot: it was free, so nobody else occupies it.
LEMMA TakeInv ==
  ASSUME Inv, Alive, NEW r \in Requests, Take(r), Steady
  PROVE  Inv'
<1> DEFINE j == issued + 1
<1>1. j \in Jobs /\ j \in 0..MaxJobs /\ j # NoJob /\ worker[j] = "unborn"
  BY DEF Take, Inv, TypeOK, IssuedBound, Jobs, NoJob
<1>2. /\ issued' = j /\ current' = j /\ lock' = j /\ ~cli'
      /\ worker' = worker /\ stopper' = stopper
      /\ target' = [target EXCEPT ![r] = j]
      /\ req' = [req EXCEPT ![r] = "clearing"]
  BY DEF Take, ReqGo, stopVars
<1>3. \A s \in Requests : req[s] \notin Occupying
  BY DEF Take, Inv, SubmitOccupies, NoJob, Jobs
<1>4. \A i \in Jobs : worker[i] \notin {"body", "writing", "ended", "unlocked"}
  BY DEF Take, Inv, WorkerOccupies, NoJob, Jobs
<1>5. TypeOK'
  <2>1. /\ kind' \in [Jobs -> {"build", "flash"}]
        /\ state' \in [Jobs -> {"none", "running"} \cup Terminal]
        /\ left' \in [Jobs -> 0..MaxBoards]
    BY <1>1 DEF Take, Inv, TypeOK
  <2>2. /\ req' \in [Requests -> {"idle"} \cup Cancelling \cup Submitting]
        /\ target' \in [Requests -> Jobs \cup {NoJob}]
    BY <1>1, <1>2 DEF Inv, TypeOK, Submitting
  <2> QED BY <1>1, <1>2, <2>1, <2>2 DEF Take, Inv, TypeOK, stopVars, Steady
<1>6. TargetsAreJobs' /\ SubmitOccupies' /\ OneSubmit'
  BY <1>1, <1>2, <1>3 DEF TargetsAreJobs, SubmitOccupies, OneSubmit, Occupying, Alive, Inv, TypeOK
<1>7. WorkerOccupies' /\ LockFollowsSlot'
  BY <1>1, <1>2, <1>4 DEF WorkerOccupies, LockFollowsSlot, Alive
<1>8. IssuedBound'
  BY <1>2 DEF Inv, TypeOK, IssuedBound, Jobs
<1> QED BY <1>5, <1>6, <1>7, <1>8 DEF Inv

LEMMA SubmitInv ==
  ASSUME Inv, Alive, NEW r \in Requests, SubmitStep(r), Steady
  PROVE  Inv'
<1> USE DEF Inv, TypeOK, TargetsAreJobs, SubmitOccupies, OneSubmit, WorkerOccupies, LockFollowsSlot,
            IssuedBound, Occupying, Alive, ReqGo, WorkGo, Submitting, Cancelling,
            jobVars, slotVars, reqVars, stopVars, Steady
<1>0. CASE ClearEvent(r)
  <2>1. /\ req[r] = "clearing" /\ req' = [req EXCEPT ![r] = "announcing"] /\ cancel' = FALSE
        /\ UNCHANGED <<jobVars, current, issued, lock, cli, thread, target, snapshot, told,
                       stopVars>>
    BY <1>0 DEF ClearEvent
  <2>2. \A s \in Requests : s # r => req'[s] = req[s]
    BY <2>1
  <2>3. TypeOK' /\ TargetsAreJobs'
    BY ZenonT(40), <2>1
  <2>4. SubmitOccupies' /\ OneSubmit'
    BY <2>1, <2>2
  <2>5. WorkerOccupies' /\ LockFollowsSlot' /\ IssuedBound'
    BY <2>1
  <2> QED BY <2>3, <2>4, <2>5
<1>1. CASE AnnounceStart(r)
  <2>1. told' \in [Jobs -> {"none", "running"} \cup Terminal]
    BY <1>1 DEF AnnounceStart
  <2> QED BY <1>1, <2>1 DEF AnnounceStart
<1>2. CASE AssignThread(r)
  BY <1>2 DEF AssignThread
<1>3. CASE StartThread(r)
  <2>1. target[r] \in Jobs /\ NoJob \notin Jobs
    BY <1>3 DEF StartThread, NoJob, Jobs
  <2>2. CASE req'[r] = "idle"
    <3>1. /\ worker' = [worker EXCEPT ![target[r]] = "body"]
          /\ req' = [req EXCEPT ![r] = "idle"]
          /\ target' = [target EXCEPT ![r] = NoJob]
          /\ current' = current /\ lock' = lock /\ cli' = cli
          /\ issued' = issued /\ stopper' = stopper
      BY <1>3, <2>2 DEF StartThread
    <3>2. TypeOK'
      BY <1>3, <2>1, <3>1 DEF StartThread
    <3>3. OneSubmit' /\ TargetsAreJobs' /\ LockFollowsSlot'
      BY <3>1
    <3>4. SubmitOccupies'
      BY <1>3, <2>1, <3>1 DEF StartThread
    <3>5. WorkerOccupies'
      BY <1>3, <2>1, <3>1 DEF StartThread
    <3>6. IssuedBound'
      <4>1. target[r] <= issued
        BY <1>3, <2>1, <3>1 DEF StartThread, Jobs
      <4> QED BY <2>1, <3>1, <4>1 DEF Jobs
    <3> QED BY <3>2, <3>3, <3>4, <3>5, <3>6
  <2>3. CASE req'[r] # "idle"
    BY <1>3, <2>3 DEF StartThread
  <2> QED BY <2>2, <2>3
<1>4. CASE UnlockUnstarted(r)
  BY <1>4 DEF UnlockUnstarted, NoJob, Jobs
<1>5. CASE VacateUnstarted(r)
  BY <1>5 DEF VacateUnstarted, NoJob, Jobs
<1>6. CASE FailUnstarted(r)
  BY <1>6 DEF FailUnstarted, Terminal
<1> QED BY <1>0, <1>1, <1>2, <1>3, <1>4, <1>5, <1>6 DEF SubmitStep

LEMMA WorkerInv ==
  ASSUME Inv, Alive, NEW j \in Jobs, WorkerStep(j), Steady
  PROVE  Inv'
<1> USE DEF Inv, TypeOK, TargetsAreJobs, SubmitOccupies, OneSubmit, WorkerOccupies, LockFollowsSlot,
            IssuedBound, Occupying, Alive, WorkGo,
            jobVars, slotVars, reqVars, stopVars, Steady
<1>1. CASE WriteBoard(j)
  BY <1>1 DEF WriteBoard
<1>2. CASE BoardWritten(j)
  BY <1>2 DEF BoardWritten
<1>3. CASE EndBody(j)
  BY <1>3 DEF EndBody, Terminal
<1>4. CASE ReleaseLock(j)
  BY <1>4 DEF ReleaseLock, NoJob, Jobs
<1>5. CASE VacateSlot(j)
  BY <1>5 DEF VacateSlot, NoJob, Jobs
<1>6. CASE AnnounceEnd(j)
  BY <1>6 DEF AnnounceEnd
<1> QED BY <1>1, <1>2, <1>3, <1>4, <1>5, <1>6 DEF WorkerStep

LEMMA CancelInv ==
  ASSUME Inv, Alive, NEW r \in Requests, FindJob(r) \/ CancelStep(r), Steady
  PROVE  Inv'
<1> USE DEF Inv, TypeOK, TargetsAreJobs, SubmitOccupies, OneSubmit, WorkerOccupies, LockFollowsSlot,
            IssuedBound, Occupying, Alive, ReqGo, Submitting, Cancelling,
            jobVars, slotVars, reqVars, stopVars, Steady
<1>1. CASE FindJob(r)
  <2>1. PICK i \in 1..issued : target' = [target EXCEPT ![r] = i]
    BY <1>1 DEF FindJob
  <2>2. i \in Jobs
    BY DEF Jobs
  <2> QED BY <1>1, <2>1, <2>2 DEF FindJob
<1>2. CASE MarkJob(r)
  BY <1>2 DEF MarkJob
<1>3. CASE SetEvent(r)
  BY <1>3 DEF SetEvent
<1>4. CASE TakeSnapshot(r)
  BY <1>4 DEF TakeSnapshot, NoJob, Jobs
<1>5. CASE SendSnapshot(r)
  BY <1>5 DEF SendSnapshot
<1> QED BY <1>1, <1>2, <1>3, <1>4, <1>5 DEF CancelStep

LEMMA NextInv == Inv /\ [Next]_vars => Inv'
<1> SUFFICES ASSUME Inv, [Next]_vars PROVE Inv'
  OBVIOUS
<1> USE DEF Inv, TypeOK, TargetsAreJobs, SubmitOccupies, OneSubmit, WorkerOccupies, LockFollowsSlot,
            IssuedBound, Occupying, Alive, jobVars, slotVars, reqVars, stopVars, Steady
<1>1. ASSUME CliLocks, Steady PROVE Inv'
  BY <1>1 DEF CliLocks
<1>2. ASSUME AskedToStop, Steady PROVE Inv'
  BY <1>2 DEF AskedToStop
<1>3. ASSUME JoinThread, Steady PROVE Inv'
  BY <1>3 DEF JoinThread
<1>4. ASSUME Joined, Steady PROVE Inv'
  BY <1>4 DEF Joined
<1>5. ASSUME ProcessExit, Steady PROVE Inv'
  BY <1>5 DEF ProcessExit, NoJob
<1>6. CASE UNCHANGED vars
  BY <1>6 DEF vars
<1> QED
  BY <1>1, <1>2, <1>3, <1>4, <1>5, <1>6, TakeInv, SubmitInv, WorkerInv, CancelInv
     DEF Next, StopStep, Running

-----------------------------------------------------------------------------
\* The inductive invariant holds in every reachable state.
THEOREM Invariance == Spec => []Inv
BY InitInv, NextInv, PTL DEF Spec

\* Every variable keeps its type.
THEOREM TypeCorrect == Spec => []TypeOK
<1>1. Inv => TypeOK
  BY DEF Inv
<1> QED BY <1>1, Invariance, PTL

\* A body runs only for the job in the slot and under the host-wide lock.
THEOREM BodyOwnsHostAlways == Spec => []BodyOwnsHost
<1>1. Inv => BodyOwnsHost
  BY DEF Inv, WorkerOccupies, LockFollowsSlot, BodyOwnsHost, Alive, NoJob, Jobs
<1> QED BY <1>1, Invariance, PTL

\* A free slot means the agent itself does not hold the host-wide lock.
THEOREM FreeSlotFreesLock == Spec => []NeverLockedOutByItself
<1>1. Inv => NeverLockedOutByItself
  BY DEF Inv, TypeOK, LockFollowsSlot, NeverLockedOutByItself, NoJob, Jobs
<1> QED BY <1>1, Invariance, PTL
-----------------------------------------------------------------------------
(* Cancels.  Nobody asks for a job that does not exist yet.                 *)

AskedFor(j) == \E r \in Requests : req[r] \in {"found", "marked"} /\ target[r] = j

NoneAskedBefore == \A j \in Jobs : j > issued => ~requested[j]
TargetsAreIssued == \A r \in Requests : req[r] # "idle" => target[r] \in 1..issued

CInv == NoneAskedBefore /\ TargetsAreIssued

LEMMA InitCInv == Init => CInv
BY DEF Init, CInv, NoneAskedBefore, TargetsAreIssued

LEMMA TakeCInv ==
  ASSUME Inv, CInv, NEW r \in Requests, Take(r)
  PROVE  CInv'
<1> DEFINE j == issued + 1
<1>1. j \in Jobs /\ issued \in Nat
  BY DEF Take, Inv, TypeOK, Jobs
<1>2. /\ issued' = j /\ requested' = requested
      /\ target' = [target EXCEPT ![r] = j] /\ req' = [req EXCEPT ![r] = "clearing"]
  BY DEF Take, ReqGo
<1>3. NoneAskedBefore'
  BY <1>1, <1>2 DEF CInv, NoneAskedBefore, Jobs
<1>4. TargetsAreIssued'
  BY <1>1, <1>2 DEF CInv, TargetsAreIssued, Inv, TypeOK
<1> QED BY <1>3, <1>4 DEF CInv

LEMMA RestCInv ==
  ASSUME Inv, CInv, NEW r \in Requests, SubmitStep(r) \/ FindJob(r) \/ CancelStep(r)
  PROVE  CInv'
<1> USE DEF Inv, TypeOK, CInv, NoneAskedBefore, TargetsAreIssued,
            ReqGo, WorkGo, jobVars, slotVars, reqVars, stopVars
<1>1. CASE SubmitStep(r)
  BY <1>1 DEF SubmitStep, ClearEvent, AnnounceStart, AssignThread, StartThread, UnlockUnstarted,
     VacateUnstarted, FailUnstarted
<1>2. CASE FindJob(r)
  BY <1>2 DEF FindJob
<1>3. CASE MarkJob(r)
  BY <1>3 DEF MarkJob, Jobs
<1>4. CASE SetEvent(r) \/ TakeSnapshot(r) \/ SendSnapshot(r)
  BY <1>4 DEF SetEvent, TakeSnapshot, SendSnapshot
<1> QED BY <1>1, <1>2, <1>3, <1>4 DEF CancelStep

LEMMA NextCInv == Inv /\ CInv /\ [Next]_vars => CInv'
<1> SUFFICES ASSUME Inv, CInv, [Next]_vars PROVE CInv'
  OBVIOUS
<1> USE DEF CInv, NoneAskedBefore, TargetsAreIssued, jobVars, slotVars, reqVars, stopVars
<1>1. ASSUME CliLocks PROVE CInv'
  BY <1>1 DEF CliLocks
<1>2. ASSUME AskedToStop \/ JoinThread \/ Joined \/ ProcessExit PROVE CInv'
  BY <1>2 DEF AskedToStop, JoinThread, Joined, ProcessExit
<1>3. ASSUME NEW j \in Jobs, WorkerStep(j) PROVE CInv'
  BY <1>3 DEF WorkerStep, WriteBoard, BoardWritten, EndBody, ReleaseLock, VacateSlot, AnnounceEnd
<1>4. CASE UNCHANGED vars
  BY <1>4 DEF vars
<1> QED
  BY <1>1, <1>2, <1>3, <1>4, TakeCInv, RestCInv DEF Next, StopStep, Running

-----------------------------------------------------------------------------
(* Where no cancel() comes between the registration of a job and the clear  *)
(* of the event: a job in the slot that somebody asked to cancel has the    *)
(* event set, or the one who asked has yet to set it.  The clear comes      *)
(* before anybody asks for the job.                                         *)

NoEarlyCancel == "early_cancel" \notin disturbances

Heard ==
  \A j \in Jobs :
    requested[j] /\ current = j /\ worker[j] \in {"unborn", "body", "writing"}
      => cancel \/ AskedFor(j)

NobodyAskedYet ==
  \A r, s \in Requests : req[r] = "clearing" =>
    /\ ~requested[target[r]]
    /\ req[s] \in Cancelling => target[s] # target[r]

HInv == Heard /\ NobodyAskedYet

LEMMA InitHInv == Init => HInv
BY DEF Init, HInv, Heard, NobodyAskedYet

LEMMA TakeHInv ==
  ASSUME Inv, CInv, HInv, NEW r \in Requests, Take(r)
  PROVE  HInv'
<1> DEFINE j == issued + 1
<1>1. j \in Jobs /\ issued \in Nat /\ ~requested[j]
  BY DEF Take, Inv, CInv, NoneAskedBefore, TypeOK, Jobs
<1>2. /\ current' = j /\ requested' = requested /\ worker' = worker
      /\ target' = [target EXCEPT ![r] = j] /\ req' = [req EXCEPT ![r] = "clearing"]
  BY DEF Take, ReqGo
<1>3. Heard'
  BY <1>1, <1>2 DEF Heard
<1>4. \A s \in Requests : req[s] # "clearing"
  BY DEF Take, Inv, SubmitOccupies, Occupying, NoJob, Jobs
<1>5. \A s \in Requests : req[s] \in Cancelling => target[s] # j
  BY <1>1 DEF CInv, TargetsAreIssued, Cancelling
<1>6. NobodyAskedYet'
  BY <1>1, <1>2, <1>4, <1>5 DEF NobodyAskedYet, Cancelling, Inv, TypeOK
<1> QED BY <1>3, <1>6 DEF HInv

LEMMA SubmitHInv ==
  ASSUME Inv, HInv, NEW r \in Requests, SubmitStep(r)
  PROVE  HInv'
<1> USE DEF Inv, TypeOK, HInv, Heard, NobodyAskedYet, AskedFor, SubmitOccupies, OneSubmit,
            Occupying, Cancelling, ReqGo, WorkGo, jobVars, slotVars, reqVars, stopVars
<1>1. CASE ClearEvent(r)
  <2>1. /\ req[r] = "clearing" /\ req' = [req EXCEPT ![r] = "announcing"]
        /\ UNCHANGED <<requested, target, current, worker>>
    BY <1>1 DEF ClearEvent
  <2>2. current = target[r] /\ ~requested[target[r]]
    BY <2>1
  <2>3. Heard'
    BY <2>1, <2>2
  <2> QED BY <2>1, <2>3
<1>2. CASE AnnounceStart(r) \/ AssignThread(r) \/ UnlockUnstarted(r) \/ FailUnstarted(r)
  BY <1>2 DEF AnnounceStart, AssignThread, UnlockUnstarted, FailUnstarted
<1>3. CASE VacateUnstarted(r)
  BY <1>3 DEF VacateUnstarted, Jobs, NoJob
<1>4. CASE StartThread(r)
  <2>1. CASE UNCHANGED worker
    BY <1>4, <2>1 DEF StartThread
  <2>2. CASE worker' = [worker EXCEPT ![target[r]] = "body"]
    <3>1. /\ req[r] = "starting" /\ worker[target[r]] = "unborn"
          /\ req' = [req EXCEPT ![r] = "idle"]
          /\ UNCHANGED <<requested, current, cancel>>
      BY <1>4, <2>2 DEF StartThread
    <3>2. \A s \in Requests : s # r => req'[s] = req[s] /\ target'[s] = target[s]
      BY <1>4, <2>2 DEF StartThread
    <3> QED BY <2>2, <3>1, <3>2
  <2> QED BY <1>4, <2>1, <2>2 DEF StartThread
<1> QED BY <1>1, <1>2, <1>3, <1>4 DEF SubmitStep

\* Only those who set the event stop asking.
LEMMA CancelHInv ==
  ASSUME Inv, NoEarlyCancel, CInv, HInv, NEW r \in Requests, FindJob(r) \/ CancelStep(r)
  PROVE  HInv'
<1> USE DEF Inv, TypeOK, CInv, HInv, Heard, NobodyAskedYet, AskedFor, TargetsAreIssued,
            Cancelling, ReqGo, jobVars, slotVars, reqVars, stopVars
<1>1. CASE FindJob(r)
  <2>1. PICK i \in 1..issued : /\ target' = [target EXCEPT ![r] = i]
                               /\ ~Clearing(i)
    BY <1>1 DEF FindJob, NoEarlyCancel
  <2>2. req' = [req EXCEPT ![r] = "found"] /\ req[r] = "idle"
    BY <1>1 DEF FindJob
  <2>3. UNCHANGED <<requested, current, worker, cancel>>
    BY <1>1 DEF FindJob
  <2>4. NobodyAskedYet'
    BY <2>1, <2>2, <2>3 DEF Clearing
  <2> QED BY <2>1, <2>2, <2>3, <2>4
<1>2. CASE MarkJob(r)
  <2>1. target[r] \in 1..issued /\ issued \in Nat
    BY <1>2 DEF MarkJob
  <2>2. /\ req[r] = "found" /\ req' = [req EXCEPT ![r] = "marked"]
        /\ requested' = [requested EXCEPT ![target[r]] = TRUE]
        /\ UNCHANGED <<target, current, worker, cancel>>
    BY <1>2 DEF MarkJob
  <2>3. Heard'
    BY <2>1, <2>2
  <2>4. NobodyAskedYet'
    BY <2>1, <2>2
  <2> QED BY <2>3, <2>4
<1>3. CASE SetEvent(r) \/ TakeSnapshot(r) \/ SendSnapshot(r)
  BY <1>3 DEF SetEvent, TakeSnapshot, SendSnapshot
<1> QED BY <1>1, <1>2, <1>3 DEF CancelStep

LEMMA WorkerHInv ==
  ASSUME Inv, HInv, NEW j \in Jobs, WorkerStep(j)
  PROVE  HInv'
<1> USE DEF Inv, TypeOK, HInv, Heard, NobodyAskedYet, AskedFor,
            WorkGo, jobVars, slotVars, reqVars, stopVars
<1>1. CASE WriteBoard(j) \/ BoardWritten(j) \/ EndBody(j)
  BY <1>1 DEF WriteBoard, BoardWritten, EndBody
<1>2. CASE ReleaseLock(j) \/ AnnounceEnd(j)
  BY <1>2 DEF ReleaseLock, AnnounceEnd
<1>3. CASE VacateSlot(j)
  BY <1>3 DEF VacateSlot, NoJob, Jobs
<1> QED BY <1>1, <1>2, <1>3 DEF WorkerStep

LEMMA NextHInv == Inv /\ CInv /\ NoEarlyCancel /\ HInv /\ [Next]_vars => HInv'
<1> SUFFICES ASSUME Inv, CInv, NoEarlyCancel, HInv, [Next]_vars PROVE HInv'
  OBVIOUS
<1> USE DEF HInv, Heard, NobodyAskedYet, AskedFor, jobVars, slotVars, reqVars, stopVars
<1>1. ASSUME CliLocks PROVE HInv'
  BY <1>1 DEF CliLocks
<1>2. ASSUME AskedToStop \/ JoinThread \/ Joined \/ ProcessExit PROVE HInv'
  BY <1>2 DEF AskedToStop, JoinThread, Joined, ProcessExit
<1>3. CASE UNCHANGED vars
  BY <1>3 DEF vars
<1> QED
  BY <1>1, <1>2, <1>3, TakeHInv, SubmitHInv, CancelHInv, WorkerHInv DEF Next, StopStep, Running

LEMMA StaysInTime == [Next]_vars /\ NoEarlyCancel' => NoEarlyCancel
BY DEF Next, Steady, vars, NoEarlyCancel

\* Where no cancel() comes before the clear of its job's submit, a job that was cancelled
\* starts no further board once the canceller has set the event.
THEOREM CancelsAreHonoured == Spec => CancelHonouredInTime
<1> DEFINE All == Inv /\ CInv /\ (NoEarlyCancel => HInv)
           Obeys == \A j \in Jobs : "early_cancel" \notin disturbances => CancelHonoured(j)
<1>0. Init => All
  BY InitInv, InitCInv, InitHInv
<1>1. ASSUME All, [Next]_vars PROVE Obeys
  <2> SUFFICES ASSUME NEW j \in Jobs, HInv,
                      worker[j] = "body", worker'[j] = "writing", requested[j]
               PROVE  AskedFor(j)
    BY <1>1 DEF CancelHonoured, AskedFor, NoEarlyCancel
  <2>1. WriteBoard(j)
    <3> USE DEF Inv, TypeOK, WorkGo, jobVars, reqVars, stopVars, slotVars
    <3>1. \A r \in Requests : ~Take(r) /\ ~FindJob(r) /\ ~CancelStep(r)
      BY <1>1 DEF Take, FindJob, CancelStep, MarkJob, SetEvent, TakeSnapshot, SendSnapshot
    <3>2. \A r \in Requests : ~SubmitStep(r)
      BY <1>1 DEF SubmitStep, ClearEvent, AnnounceStart, AssignThread, StartThread,
         UnlockUnstarted, VacateUnstarted, FailUnstarted
    <3>3. ~CliLocks /\ ~AskedToStop /\ ~StopStep /\ ~UNCHANGED vars
      BY <1>1 DEF CliLocks, AskedToStop, StopStep, JoinThread, Joined, ProcessExit, vars
    <3>4. PICK i \in Jobs : WorkerStep(i)
      BY <1>1, <3>1, <3>2, <3>3 DEF Next, Running
    <3>5. WriteBoard(i)
      BY <1>1, <3>4 DEF WorkerStep, BoardWritten, EndBody, ReleaseLock, VacateSlot, AnnounceEnd
    <3> QED BY <1>1, <3>5 DEF WriteBoard
  <2>2. ~cancel /\ current = j
    BY <1>1, <2>1 DEF WriteBoard, Inv, WorkerOccupies
  <2> QED BY <1>1, <2>2 DEF HInv, Heard
<1>2. All /\ [Next]_vars => [Obeys]_vars
  BY <1>1
<1>3. All /\ [Next]_vars => All'
  BY NextInv, NextCInv, NextHInv, StaysInTime
<1> HIDE DEF All, Obeys
<1>4. Spec => [][Obeys]_vars
  BY <1>0, <1>2, <1>3, PTL DEF Spec
<1> QED BY <1>4 DEF CancelHonouredInTime, Obeys
-----------------------------------------------------------------------------
(* What clients hear of a job, and why a job ends cancelled, where threads  *)
(* start and no cancel() is overtaken by the end of its job: who cancels a  *)
(* job does so while it is in the slot and under way.                       *)

Undisturbed == {"slow_cancel", "thread_fails"} \cap disturbances = {}

UnderWay(j) == current = j /\ worker[j] \in {"unborn", "body", "writing"}

AllStart == \A r \in Requests : req[r] \notin {"unlocking", "vacating", "failing"}

RunningIsUnderWay == \A j \in Jobs : j <= issued /\ state[j] \notin Terminal => UnderWay(j)

CancelsAreInTime ==
  \A r \in Requests : req[r] \in Cancelling =>
    /\ UnderWay(target[r]) /\ state[target[r]] = "running"
    /\ req[r] # "found" => requested[target[r]]
    /\ req[r] = "sending" => snapshot[r] = "running"

EventIsForTheSlot ==
  cancel /\ current # NoJob => requested[current] \/ Clearing(current)

EndIsToldLast == \A j \in Jobs : told[j] \in Terminal => worker[j] = "done"

\* The state of a job before, while and after it is under way.
StateOfJob ==
  \A j \in Jobs :
    /\ j > issued => state[j] = "none"
    /\ worker[j] \in {"body", "writing"} => state[j] = "running"
    /\ UnderWay(j) => state[j] = "running"

TInv == /\ AllStart /\ RunningIsUnderWay /\ CancelsAreInTime /\ EventIsForTheSlot
        /\ EndIsToldLast /\ StateOfJob /\ CancelledWasRequested

LEMMA InitTInv == Init => TInv
BY DEF Init, TInv, AllStart, RunningIsUnderWay, CancelsAreInTime, EventIsForTheSlot, EndIsToldLast,
   StateOfJob, CancelledWasRequested, UnderWay, Terminal, Cancelling, Jobs, NoJob

LEMMA TakeTInv ==
  ASSUME Inv, CInv, Undisturbed, TInv, NEW r \in Requests, Take(r), Steady
  PROVE  TInv'
<1> DEFINE j == issued + 1
<1>1. /\ j \in Jobs /\ issued \in Nat /\ ~requested[j] /\ worker[j] = "unborn" /\ j # NoJob
      /\ current = NoJob
  BY DEF Take, Inv, CInv, NoneAskedBefore, IssuedBound, TypeOK, Jobs, NoJob
<1>2. /\ issued' = j /\ current' = j
      /\ requested' = requested /\ worker' = worker /\ told' = told /\ snapshot' = snapshot
      /\ state' = [state EXCEPT ![j] = "running"]
      /\ target' = [target EXCEPT ![r] = j] /\ req' = [req EXCEPT ![r] = "clearing"]
  BY DEF Take, ReqGo, stopVars
<1>3. \A s \in Requests : req[s] \notin Cancelling
  BY <1>1 DEF TInv, CancelsAreInTime, UnderWay, Inv, TargetsAreJobs, Jobs, NoJob, Cancelling
<1>4. AllStart' /\ CancelsAreInTime' /\ EventIsForTheSlot' /\ EndIsToldLast'
  BY <1>1, <1>2, <1>3 DEF TInv, AllStart, CancelsAreInTime, EventIsForTheSlot, EndIsToldLast,
     Clearing, Inv, TypeOK, Cancelling
<1>5. RunningIsUnderWay'
  <2> SUFFICES ASSUME NEW i \in Jobs, i <= j, state'[i] \notin Terminal
               PROVE  UnderWay(i)'
    BY <1>2 DEF RunningIsUnderWay
  <2>1. CASE i = j
    BY <1>1, <1>2, <2>1 DEF UnderWay
  <2>2. CASE i # j
    <3>1. i <= issued /\ state[i] \notin Terminal
      BY <1>1, <1>2, <2>2 DEF Jobs, Inv, TypeOK
    <3>2. current = i
      BY <3>1 DEF TInv, RunningIsUnderWay, UnderWay
    <3> QED BY <1>1, <3>2 DEF Jobs, NoJob
  <2> QED BY <2>1, <2>2
<1>6. StateOfJob'
  BY <1>1, <1>2 DEF TInv, StateOfJob, UnderWay, Jobs, Inv, TypeOK
<1>7. CancelledWasRequested'
  BY <1>1, <1>2 DEF TInv, CancelledWasRequested, Inv, TypeOK
<1> QED BY <1>4, <1>5, <1>6, <1>7 DEF TInv

LEMMA SubmitTInv ==
  ASSUME Inv, Undisturbed, TInv, NEW r \in Requests, SubmitStep(r), Steady
  PROVE  TInv'
<1> USE DEF Inv, TypeOK, TInv, AllStart, RunningIsUnderWay, CancelsAreInTime, EventIsForTheSlot,
            EndIsToldLast, StateOfJob, CancelledWasRequested, UnderWay, SubmitOccupies,
            TargetsAreJobs, Occupying, OneSubmit, Clearing, Terminal, Cancelling, ReqGo, WorkGo,
            jobVars, slotVars, reqVars, stopVars
<1>0. CASE ClearEvent(r)
  BY <1>0 DEF ClearEvent
<1>1. CASE AnnounceStart(r)
  BY <1>1 DEF AnnounceStart
<1>2. CASE AssignThread(r)
  BY <1>2 DEF AssignThread
<1>3. CASE StartThread(r)
  <2>1. /\ req[r] = "starting" /\ worker[target[r]] = "unborn" /\ target[r] \in Jobs
        /\ req' = [req EXCEPT ![r] = "idle"]
        /\ worker' = [worker EXCEPT ![target[r]] = "body"]
        /\ target' = [target EXCEPT ![r] = NoJob]
        /\ UNCHANGED <<requested, state, current, issued, cancel, told, snapshot>>
    BY <1>3 DEF StartThread, Undisturbed
  <2>2. \A s \in Requests : s # r => req'[s] = req[s] /\ target'[s] = target[s]
    BY <2>1
  <2>3. AllStart' /\ CancelsAreInTime' /\ EventIsForTheSlot'
    BY <2>1, <2>2
  <2>4. EndIsToldLast' /\ RunningIsUnderWay' /\ CancelledWasRequested'
    BY <2>1
  <2>5. StateOfJob'
    BY <2>1
  <2> QED BY <2>3, <2>4, <2>5
<1>4. ~UnlockUnstarted(r) /\ ~VacateUnstarted(r) /\ ~FailUnstarted(r)
  BY DEF UnlockUnstarted, VacateUnstarted, FailUnstarted
<1> QED BY <1>0, <1>1, <1>2, <1>3, <1>4 DEF SubmitStep

LEMMA CancelTInv ==
  ASSUME Inv, Undisturbed, TInv, NEW r \in Requests, FindJob(r) \/ CancelStep(r), Steady
  PROVE  TInv'
<1> USE DEF Inv, TypeOK, TInv, AllStart, RunningIsUnderWay, CancelsAreInTime, EventIsForTheSlot,
            EndIsToldLast, StateOfJob, CancelledWasRequested, UnderWay,
            TargetsAreJobs, Clearing, SubmitOccupies, Occupying, Terminal, Cancelling, ReqGo,
            jobVars, slotVars, reqVars, stopVars
<1>1. CASE FindJob(r)
  <2>1. PICK i \in 1..issued : /\ target' = [target EXCEPT ![r] = i]
                               /\ state[i] \notin Terminal
    BY <1>1 DEF FindJob
  <2>2. /\ req' = [req EXCEPT ![r] = "found"] /\ req[r] = "idle" /\ i \in Jobs
        /\ UNCHANGED <<requested, state, current, worker, cancel, issued, told, snapshot>>
    BY <1>1 DEF FindJob, Jobs
  <2>3. UnderWay(i) /\ state[i] = "running"
    BY <2>1, <2>2
  <2>4. CancelsAreInTime'
    BY <2>1, <2>2, <2>3
  <2>5. EventIsForTheSlot'
    <3>1. Clearing(current) => Clearing(current)'
      BY <2>1, <2>2
    <3> QED BY <2>2, <3>1
  <2>6. AllStart' /\ RunningIsUnderWay' /\ EndIsToldLast' /\ StateOfJob' /\ CancelledWasRequested'
    BY <2>2
  <2> QED BY <2>4, <2>5, <2>6
<1>2. CASE MarkJob(r)
  <2>1. /\ req[r] = "found" /\ req' = [req EXCEPT ![r] = "marked"] /\ target[r] \in Jobs
        /\ requested' = [requested EXCEPT ![target[r]] = TRUE]
        /\ UNCHANGED <<target, state, current, worker, cancel, issued, told, snapshot>>
    BY <1>2 DEF MarkJob
  <2>2. \A j \in Jobs : requested[j] => requested'[j]
    BY <2>1
  <2>3. CancelsAreInTime'
    BY <2>1, <2>2
  <2>4. EventIsForTheSlot' /\ CancelledWasRequested'
    BY <2>1, <2>2
  <2> QED BY <2>1, <2>3, <2>4
<1>3. CASE SetEvent(r)
  BY <1>3 DEF SetEvent
<1>4. CASE TakeSnapshot(r)
  BY <1>4 DEF TakeSnapshot
<1>5. CASE SendSnapshot(r)
  <2>1. /\ req[r] = "sending" /\ req' = [req EXCEPT ![r] = "idle"] /\ target[r] \in Jobs
        /\ told' = [told EXCEPT ![target[r]] = "running"]
        /\ target' = [target EXCEPT ![r] = NoJob]
        /\ snapshot' = [snapshot EXCEPT ![r] = "none"]
        /\ UNCHANGED <<requested, state, current, worker, cancel, issued>>
    BY <1>5 DEF SendSnapshot
  <2>2. EndIsToldLast' /\ AllStart' /\ CancelsAreInTime'
    BY <2>1
  <2> QED BY <2>1, <2>2
<1> QED BY <1>1, <1>2, <1>3, <1>4, <1>5 DEF CancelStep

LEMMA WorkerTInv ==
  ASSUME Inv, Undisturbed, TInv, NEW j \in Jobs, WorkerStep(j), Steady
  PROVE  TInv'
<1> USE DEF Inv, TypeOK, TInv, AllStart, RunningIsUnderWay, CancelsAreInTime, EventIsForTheSlot,
            EndIsToldLast, StateOfJob, CancelledWasRequested, UnderWay, WorkerOccupies,
            TargetsAreJobs, Clearing, SubmitOccupies, Occupying, Terminal, Cancelling, WorkGo,
            jobVars, slotVars, reqVars, stopVars
<1>1. CASE WriteBoard(j) \/ BoardWritten(j)
  BY <1>1 DEF WriteBoard, BoardWritten
<1>2. CASE EndBody(j)
  <2>1. \A r \in Requests : req[r] \notin Cancelling
    BY <1>2 DEF EndBody, CancelsSettled, Undisturbed
  <2>2. current = j /\ j # NoJob
    BY <1>2 DEF EndBody, NoJob, Jobs
  <2>3. state'[j] = "cancelled" => requested[j]
    BY <1>2, <2>2 DEF EndBody
  <2> QED BY <1>2, <2>1, <2>2, <2>3 DEF EndBody
<1>3. CASE ReleaseLock(j)
  BY <1>3 DEF ReleaseLock
<1>4. CASE VacateSlot(j)
  <2>1. current = j /\ \A r \in Requests : req[r] \notin Cancelling
    BY <1>4 DEF VacateSlot
  <2> QED BY <1>4, <2>1 DEF VacateSlot, NoJob, Jobs
<1>5. CASE AnnounceEnd(j)
  BY <1>5 DEF AnnounceEnd
<1> QED BY <1>1, <1>2, <1>3, <1>4, <1>5 DEF WorkerStep

LEMMA NextTInv == Inv /\ CInv /\ Undisturbed /\ TInv /\ [Next]_vars => TInv'
<1> SUFFICES ASSUME Inv, CInv, Undisturbed, TInv, [Next]_vars PROVE TInv'
  OBVIOUS
<1> USE DEF TInv, AllStart, RunningIsUnderWay, CancelsAreInTime, EventIsForTheSlot,
            EndIsToldLast, StateOfJob, CancelledWasRequested, UnderWay,
            Clearing, jobVars, slotVars, reqVars, stopVars
<1>1. ASSUME CliLocks PROVE TInv'
  BY <1>1 DEF CliLocks
<1>2. ASSUME AskedToStop \/ JoinThread \/ Joined \/ ProcessExit PROVE TInv'
  BY <1>2 DEF AskedToStop, JoinThread, Joined, ProcessExit
<1>3. CASE UNCHANGED vars
  BY <1>3 DEF vars
<1> QED
  BY <1>1, <1>2, <1>3, TakeTInv, SubmitTInv, CancelTInv, WorkerTInv DEF Next, StopStep, Running

LEMMA StaysUndisturbed == [Next]_vars /\ Undisturbed' => Undisturbed
BY DEF Next, Steady, vars, Undisturbed

LEMMA InTimeInvariance == Spec => [](Inv /\ CInv /\ (Undisturbed => TInv))
<1> DEFINE All == Inv /\ CInv /\ (Undisturbed => TInv)
<1>1. Init => All
  BY InitInv, InitCInv, InitTInv
<1>2. All /\ [Next]_vars => All'
  BY NextInv, NextCInv, NextTInv, StaysUndisturbed
<1> QED BY <1>1, <1>2, PTL DEF Spec

\* Where threads start and no cancel() is overtaken, only jobs somebody asked to cancel
\* end cancelled.
THEOREM OnlyRequestedAreCancelled == Spec => []CancelledWasRequestedInTime
<1>1. (Undisturbed => TInv) => CancelledWasRequestedInTime
  BY DEF TInv, Undisturbed, CancelledWasRequestedInTime
<1> QED BY <1>1, InTimeInvariance, PTL

\* ... and no client hears of a job after its end.
THEOREM EndsAreToldLast == Spec => ToldInOrder
<1> DEFINE InOrder == Undisturbed => \A j \in Jobs : told[j] \in Terminal => told'[j] = told[j]
<1>1. ASSUME Inv, Undisturbed => TInv, [Next]_vars PROVE InOrder
  <2> SUFFICES ASSUME Undisturbed, NEW j \in Jobs, told[j] \in Terminal
               PROVE  told'[j] = told[j]
    OBVIOUS
  <2> USE DEF Inv, TypeOK, jobVars, reqVars, stopVars, slotVars
  <2>2. worker[j] = "done"
    BY <1>1 DEF TInv, EndIsToldLast
  <2>3. \A r \in Requests : AnnounceStart(r) => told'[j] = told[j]
    BY <1>1, <2>2 DEF AnnounceStart, ReqGo, SubmitOccupies, Occupying
  <2>4. \A r \in Requests : SendSnapshot(r) => told'[j] = told[j]
    BY <1>1, <2>2 DEF SendSnapshot, ReqGo, TInv, CancelsAreInTime, UnderWay, Cancelling
  <2>5. \A i \in Jobs : WorkerStep(i) => told'[j] = told[j]
    BY <1>1, <2>2 DEF WorkerStep, WorkGo, WriteBoard, BoardWritten, EndBody, ReleaseLock,
       VacateSlot, AnnounceEnd
  <2>6. \A r \in Requests : Take(r) \/ FindJob(r) => told'[j] = told[j]
    BY DEF Take, FindJob
  <2>7. \A r \in Requests : SubmitStep(r) => told'[j] = told[j]
    BY <2>3 DEF SubmitStep, ClearEvent, AssignThread, StartThread, UnlockUnstarted, VacateUnstarted,
       FailUnstarted
  <2>8. \A r \in Requests : CancelStep(r) => told'[j] = told[j]
    BY <2>4 DEF CancelStep, MarkJob, SetEvent, TakeSnapshot
  <2>9. CliLocks \/ AskedToStop \/ StopStep \/ UNCHANGED vars => told'[j] = told[j]
    BY DEF CliLocks, AskedToStop, StopStep, JoinThread, Joined, ProcessExit, vars
  <2> QED BY <1>1, <2>5, <2>6, <2>7, <2>8, <2>9 DEF Next, Running
<1>2. Inv /\ (Undisturbed => TInv) /\ [Next]_vars => [InOrder]_vars
  BY <1>1
<1>3. Spec => [][InOrder]_vars
  BY <1>2, InTimeInvariance, PTL DEF Spec
<1> QED BY <1>3 DEF ToldInOrder, Undisturbed
-----------------------------------------------------------------------------
(* The shutdown, where no submit() overlaps it: the thread it joins is that *)
(* of the job it saw, and no other job starts.                              *)

NoLateSubmit == "late_submit" \notin disturbances

Working(j) == worker[j] \in {"body", "writing", "ended", "unlocked"}

NobodySubmitsNow == stopper # "off" => \A r \in Requests : req[r] \notin Submitting

ThreadIsOfTheSlot ==
  /\ \A j \in Jobs : Working(j) => thread = j
  /\ \A r \in Requests : req[r] = "starting" => thread = target[r]

OnlyFlashesWrite ==
  \A j \in Jobs : left[j] > 0 \/ worker[j] = "writing" => kind[j] = "flash"

FlashIsOver ==
  stopper \in {"ready", "raised"} /\ ~expired =>
    \A j \in Jobs : Working(j) => kind[j] # "flash"

JoinsTheWorking == stopper = "joining" => \A j \in Jobs : Working(j) => joined = j

SInv == /\ NobodySubmitsNow /\ ThreadIsOfTheSlot /\ OnlyFlashesWrite /\ FlashIsOver
        /\ JoinsTheWorking

LEMMA InitSInv == Init => SInv
BY DEF Init, SInv, NobodySubmitsNow, ThreadIsOfTheSlot, OnlyFlashesWrite, FlashIsOver,
   JoinsTheWorking, Working

LEMMA TakeSInv ==
  ASSUME Inv, NoLateSubmit, SInv, NEW r \in Requests, Take(r), Steady
  PROVE  SInv'
<1> DEFINE j == issued + 1
<1>1. j \in Jobs /\ worker[j] = "unborn" /\ stopper = "off"
  BY DEF Take, Inv, IssuedBound, TypeOK, Jobs, NoLateSubmit
<1>2. /\ worker' = worker /\ thread' = thread /\ stopper' = stopper
      /\ target' = [target EXCEPT ![r] = j] /\ req' = [req EXCEPT ![r] = "clearing"]
  BY DEF Take, ReqGo, stopVars
<1>3. PICK k \in {"build", "flash"}, n \in 0..MaxBoards :
        /\ kind' = [kind EXCEPT ![j] = k] /\ left' = [left EXCEPT ![j] = n]
        /\ n > 0 => k = "flash"
  BY <1>1 DEF Take, Inv, TypeOK
<1>4. OnlyFlashesWrite'
  BY <1>1, <1>2, <1>3 DEF SInv, OnlyFlashesWrite, Inv, TypeOK
<1> QED
  BY <1>1, <1>2, <1>4 DEF SInv, NobodySubmitsNow, ThreadIsOfTheSlot, FlashIsOver, JoinsTheWorking,
     Working, Inv, TypeOK

LEMMA RequestSInv ==
  ASSUME Inv, NoLateSubmit, SInv, NEW r \in Requests,
         SubmitStep(r) \/ FindJob(r) \/ CancelStep(r), Steady
  PROVE  SInv'
<1> USE DEF Inv, TypeOK, SInv, NobodySubmitsNow, ThreadIsOfTheSlot, OnlyFlashesWrite, FlashIsOver,
            JoinsTheWorking, Working, SubmitOccupies, OneSubmit, WorkerOccupies, Occupying,
            TargetsAreJobs, Submitting, ReqGo, WorkGo, jobVars, slotVars, reqVars, stopVars
<1>0. CASE ClearEvent(r)
  BY <1>0 DEF ClearEvent
<1>1. CASE AnnounceStart(r) \/ UnlockUnstarted(r) \/ VacateUnstarted(r) \/ FailUnstarted(r)
  BY <1>1 DEF AnnounceStart, UnlockUnstarted, VacateUnstarted, FailUnstarted
<1>2. CASE AssignThread(r)
  <2>1. /\ req[r] = "assigning" /\ req' = [req EXCEPT ![r] = "starting"]
        /\ thread' = target[r] /\ target[r] \in Jobs
        /\ UNCHANGED <<worker, target, stopper, kind, left, expired, joined>>
    BY <1>2 DEF AssignThread
  <2>2. \A j \in Jobs : ~Working(j)
    BY <2>1
  <2>3. \A s \in Requests : s # r => req[s] \notin Occupying
    BY <2>1
  <2> QED BY <2>1, <2>2, <2>3
<1>3. CASE StartThread(r)
  <2>1. CASE UNCHANGED worker
    BY <1>3, <2>1 DEF StartThread
  <2>2. CASE worker' = [worker EXCEPT ![target[r]] = "body"]
    <3>1. /\ req[r] = "starting" /\ req' = [req EXCEPT ![r] = "idle"]
          /\ target' = [target EXCEPT ![r] = NoJob] /\ stopper = "off"
          /\ UNCHANGED <<thread, stopper, kind, left, expired, joined>>
      BY <1>3, <2>2 DEF StartThread
    <3> QED BY <2>2, <3>1
  <2> QED BY <1>3, <2>1, <2>2 DEF StartThread
<1>4. CASE FindJob(r) \/ CancelStep(r)
  BY <1>4 DEF FindJob, CancelStep, MarkJob, SetEvent, TakeSnapshot, SendSnapshot
<1> QED BY <1>0, <1>1, <1>2, <1>3, <1>4 DEF SubmitStep

LEMMA WorkerSInv ==
  ASSUME Inv, SInv, NEW j \in Jobs, WorkerStep(j), Steady
  PROVE  SInv'
<1> USE DEF Inv, TypeOK, SInv, NobodySubmitsNow, ThreadIsOfTheSlot, OnlyFlashesWrite, FlashIsOver,
            JoinsTheWorking, Working, WorkGo, jobVars, slotVars, reqVars, stopVars
<1>1. CASE WriteBoard(j)
  <2>1. /\ left[j] > 0 /\ kind[j] = "flash" /\ left' = [left EXCEPT ![j] = @ - 1]
        /\ worker[j] = "body" /\ worker' = [worker EXCEPT ![j] = "writing"]
        /\ UNCHANGED <<kind, thread, stopper, req, target, expired, joined>>
    BY <1>1 DEF WriteBoard
  <2>2. \A i \in Jobs : left'[i] > 0 => left[i] > 0
    BY <2>1 DEF Jobs
  <2> QED BY <2>1, <2>2
<1>2. CASE BoardWritten(j) \/ EndBody(j)
  BY <1>2 DEF BoardWritten, EndBody
<1>3. CASE ReleaseLock(j) \/ VacateSlot(j) \/ AnnounceEnd(j)
  BY <1>3 DEF ReleaseLock, VacateSlot, AnnounceEnd
<1> QED BY <1>1, <1>2, <1>3 DEF WorkerStep

LEMMA NextSInv == Inv /\ NoLateSubmit /\ SInv /\ [Next]_vars => SInv'
<1> SUFFICES ASSUME Inv, NoLateSubmit, SInv, [Next]_vars PROVE SInv'
  OBVIOUS
<1> USE DEF Inv, TypeOK, SInv, NobodySubmitsNow, ThreadIsOfTheSlot, OnlyFlashesWrite, FlashIsOver,
            JoinsTheWorking, Working, jobVars, slotVars, reqVars, stopVars
<1>1. ASSUME CliLocks PROVE SInv'
  BY <1>1 DEF CliLocks
<1>2. ASSUME AskedToStop PROVE SInv'
  <2>1. \A j \in Jobs : Working(j) => current = j /\ j # NoJob
    BY DEF WorkerOccupies, Jobs, NoJob
  <2> QED BY <1>2, <2>1 DEF AskedToStop, NoLateSubmit
<1>3. ASSUME JoinThread PROVE SInv'
  BY <1>3 DEF JoinThread, Jobs, NoJob
<1>4. ASSUME Joined PROVE SInv'
  BY <1>4 DEF Joined
<1>5. ASSUME ProcessExit PROVE SInv'
  BY <1>5 DEF ProcessExit
<1>6. CASE UNCHANGED vars
  BY <1>6 DEF vars
<1> QED
  BY <1>1, <1>2, <1>3, <1>4, <1>5, <1>6, TakeSInv, RequestSInv, WorkerSInv
     DEF Next, StopStep, Running

\* A shutdown that no submit() overlaps and whose grace does not run out cuts no write.
THEOREM ShutdownsSpareWrites == Spec => ShutdownSparesWritesInTime
<1> DEFINE All == Inv /\ (NoLateSubmit => SInv)
           Spares == /\ "late_submit" \notin disturbances
                     /\ stopper # "exited" /\ stopper' = "exited" /\ ~expired
                     => \A j \in Jobs : worker[j] # "writing"
<1>1. Init => All
  BY InitInv, InitSInv
<1>2. [Next]_vars /\ NoLateSubmit' => NoLateSubmit
  BY DEF Next, Steady, vars, NoLateSubmit
<1>3. All /\ [Next]_vars => All'
  BY <1>2, NextInv, NextSInv
<1>4. All /\ [Next]_vars => [Spares]_vars
  <2> SUFFICES ASSUME All, [Next]_vars, NoLateSubmit, stopper # "exited", stopper' = "exited",
                      ~expired
               PROVE  \A j \in Jobs : worker[j] # "writing"
    BY DEF NoLateSubmit
  <2>1. stopper \in {"ready", "raised"}
    BY DEF Next, Running, CliLocks, Take, FindJob, SubmitStep, ClearEvent, AnnounceStart,
       AssignThread, StartThread, UnlockUnstarted, VacateUnstarted, FailUnstarted, CancelStep,
       MarkJob, SetEvent,
       TakeSnapshot, SendSnapshot, WorkerStep, WriteBoard, BoardWritten, EndBody, ReleaseLock,
       VacateSlot, AnnounceEnd, AskedToStop, StopStep, JoinThread, Joined, ProcessExit, stopVars,
       vars
  <2> QED BY <2>1 DEF SInv, FlashIsOver, OnlyFlashesWrite, Working
<1>5. Spec => [][Spares]_vars
  BY <1>1, <1>3, <1>4, PTL DEF Spec
<1> QED BY <1>5 DEF ShutdownSparesWritesInTime
=============================================================================
