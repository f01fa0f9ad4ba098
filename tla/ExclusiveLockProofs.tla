------------------------ MODULE ExclusiveLockProofs ------------------------
(***************************************************************************)
(* ExclusiveLock is type correct, keeps the holder's record in the file,   *)
(* gives honest answers and refusals and implements Mutex, for any set of  *)
(* callers and of processes.                                               *)
(***************************************************************************)
EXTENDS ExclusiveLock, TLAPS

\* The handles that act as owner or prober are exactly the one the kernel
\* granted: the record is only ever touched by the caller holding the flock.
FlockIsExclusive == \A c \in Callers : pc[c] \in Holding <=> flock = c

Inv == TypeOK /\ FlockIsExclusive /\ RecordNamesHolder

USE CallersAssumption

-----------------------------------------------------------------------------
\* Every moment an observer can note is well typed.
LEMMA MomentType ==
  ASSUME TypeOK
  PROVE  Moment \in [owner : Callers \cup {NoCaller}, published : BOOLEAN, crowded : BOOLEAN]
<1>1. Owner \in Callers \cup {NoCaller}
  BY DEF Owner, TypeOK
<1> QED BY <1>1 DEF Moment, Published, Crowded

\* The initial state satisfies the invariant.
LEMMA InitInv == Init => Inv
BY DEF Init, Inv, TypeOK, FlockIsExclusive, RecordNamesHolder, NoVerdict, Verdict,
       Holding, Owning, Probing

\* What a call returns is a verdict.
LEMMA VerdictType ==
  /\ NoVerdict \in Verdict
  /\ \A c \in Callers \cup {NoCaller} : Busy(c) \in Verdict /\ Answer(c) \in Verdict
BY DEF NoVerdict, Busy, Answer, Verdict

\* The part of the invariant that does not mention the history variable is
\* kept by every step a caller takes.
CoreType ==
  /\ flock \in Callers \cup {NoCaller}
  /\ record \in Callers \cup {NoCaller}
  /\ pc \in [Callers -> {"idle", "dead", "held", "withdrawn"} \cup Calling]
  /\ read \in [Callers -> Callers \cup {NoCaller}]
  /\ verdict \in [Callers -> Verdict]
Core == CoreType /\ FlockIsExclusive /\ RecordNamesHolder

LEMMA StepCore ==
  ASSUME Core, NEW c \in Callers, Step(c)
  PROVE  Core'
<1> USE DEF Core, CoreType, FlockIsExclusive, RecordNamesHolder, Go, Calling,
            Acquiring, Asking, Holding, Owning, Probing
<1>1. CASE StartAcquire(c) \/ StartHolder(c)
  BY <1>1, VerdictType DEF StartAcquire, StartHolder
<1>2. CASE FirstAttempt(c)
  BY <1>2 DEF FirstAttempt, LockWins
<1>3. CASE WakeUp(c)
  BY <1>3 DEF WakeUp
<1>4. CASE SecondAttempt(c)
  BY <1>4 DEF SecondAttempt, LockWins
<1>5. CASE RaiseBusy(c)
  BY <1>5, VerdictType DEF RaiseBusy
<1>6. CASE TruncateRecord(c) \/ WriteRecord(c)
  BY <1>6 DEF TruncateRecord, WriteRecord
<1>7. CASE WithdrawRecord(c) \/ Unlock(c)
  BY <1>7 DEF WithdrawRecord, Unlock
<1>8. CASE ReadRecord(c)
  BY <1>8, VerdictType DEF ReadRecord
<1>9. CASE Probe(c)
  BY <1>9, VerdictType DEF Probe
<1>10. CASE ClearLeftover(c) \/ EndProbe(c)
  BY <1>10, VerdictType DEF ClearLeftover, EndProbe
<1>11. CASE Restart(c)
  BY <1>11 DEF Restart
<1> QED
  BY <1>1, <1>2, <1>3, <1>4, <1>5, <1>6, <1>7, <1>8, <1>9, <1>10, <1>11
     DEF Step, Progress

LEMMA CrashCore ==
  ASSUME Core, NEW p \in Processes, Crash(p)
  PROVE  Core'
BY VerdictType DEF Crash, Core, CoreType, FlockIsExclusive, RecordNamesHolder,
   Calling, Acquiring, Asking, Holding, Owning, Probing

LEMMA NextInv == Inv /\ [Next]_vars => Inv'
<1> SUFFICES ASSUME Inv, [Next]_vars PROVE Inv'
  OBVIOUS
<1>1. Core
  BY DEF Inv, TypeOK, Core, CoreType
<1>2. CASE Next
  <2>1. Core'
    BY <1>1, <1>2, StepCore, CrashCore DEF Next
  <2>2. {Moment, Moment'} \subseteq
          [owner : Callers \cup {NoCaller}, published : BOOLEAN, crowded : BOOLEAN]
    <3>1. Moment \in [owner : Callers \cup {NoCaller}, published : BOOLEAN,
                         crowded : BOOLEAN]
      BY MomentType DEF Inv
    <3>2. Owner' \in Callers \cup {NoCaller}
      BY <2>1 DEF Owner, Core, CoreType
    <3> QED BY <3>1, <3>2 DEF Moment, Published, Crowded
  <2>3. during' \in [Callers -> SUBSET [owner : Callers \cup {NoCaller},
                                        published : BOOLEAN, crowded : BOOLEAN]]
    BY <1>2, <2>2 DEF Next, Observe, Inv, TypeOK
  <2> QED BY <2>1, <2>3 DEF Inv, TypeOK, Core, CoreType
<1>3. CASE UNCHANGED vars
  BY <1>3 DEF Inv, vars, TypeOK, FlockIsExclusive, RecordNamesHolder
<1> QED BY <1>2, <1>3

-----------------------------------------------------------------------------
\* The inductive invariant holds in every reachable state.
THEOREM Invariance == Spec => []Inv
BY InitInv, NextInv, PTL DEF Spec

\* Every variable keeps its type, whatever crashes.
THEOREM TypeCorrect == Spec => []TypeOK
<1>1. Inv => TypeOK
  BY DEF Inv
<1> QED BY <1>1, Invariance, PTL

\* While an operation runs under the lock, the file names that operation:
\* no failed acquire() and no holder() probe can erase or replace it.
THEOREM HolderKeepsItsRecord == Spec => []RecordNamesHolder
<1>1. Inv => RecordNamesHolder
  BY DEF Inv
<1> QED BY <1>1, Invariance, PTL

\* Between calls a caller has its verdict, inside one it has none yet; and a
\* probe only starts with somebody's name to check.
NoVerdictYet ==
  \A c \in Callers : /\ pc[c] # "idle" => verdict[c] = NoVerdict
                     /\ pc[c] = "probing" => read[c] # NoCaller

LEMMA StepNoVerdictYet ==
  ASSUME Inv, NoVerdictYet, NEW c \in Callers, Step(c)
  PROVE  NoVerdictYet'
<1> USE DEF Inv, TypeOK, NoVerdictYet, Go
<1>1. CASE StartAcquire(c) \/ StartHolder(c)
  BY <1>1 DEF StartAcquire, StartHolder
<1>2. CASE FirstAttempt(c) \/ SecondAttempt(c) \/ WakeUp(c)
  BY <1>2 DEF FirstAttempt, SecondAttempt, LockWins, WakeUp
<1>3. CASE RaiseBusy(c) \/ TruncateRecord(c) \/ WriteRecord(c)
  BY <1>3 DEF RaiseBusy, TruncateRecord, WriteRecord
<1>4. CASE WithdrawRecord(c) \/ Unlock(c) \/ Restart(c)
  BY <1>4 DEF WithdrawRecord, Unlock, Restart
<1>5. CASE ReadRecord(c)
  BY <1>5 DEF ReadRecord
<1>6. CASE Probe(c)
  BY <1>6 DEF Probe
<1>7. CASE ClearLeftover(c) \/ EndProbe(c)
  BY <1>7 DEF ClearLeftover, EndProbe
<1> QED BY <1>1, <1>2, <1>3, <1>4, <1>5, <1>6, <1>7 DEF Step, Progress

LEMMA NextNoVerdictYet ==
  ASSUME Inv, NoVerdictYet, [Next]_vars
  PROVE  NoVerdictYet'
<1>1. ASSUME NEW p \in Processes, Crash(p) PROVE NoVerdictYet'
  BY <1>1 DEF Crash, Inv, TypeOK, NoVerdictYet
<1>2. CASE UNCHANGED vars
  BY <1>2 DEF vars, NoVerdictYet
<1> QED BY <1>1, <1>2, StepNoVerdictYet DEF Next

\* A call in progress has noted the present moment.
NotesThePresent == \A c \in Callers : pc[c] \in Calling => Moment \in during[c]

LEMMA NotesNext ==
  ASSUME Inv, NotesThePresent, [Next]_vars
  PROVE  NotesThePresent'
<1>1. CASE UNCHANGED vars
  BY <1>1 DEF vars, NotesThePresent, Moment, Published, Owner, Crowded
<1>2. CASE Next
  <2>1. during \in [Callers -> SUBSET [owner : Callers \cup {NoCaller}, published : BOOLEAN,
                                   crowded : BOOLEAN]]
    BY DEF Inv, TypeOK
  <2> QED BY <1>2, <2>1 DEF Next, Observe, NotesThePresent
<1> QED BY <1>1, <1>2

\* holder() answers None only if at some moment of the call no operation held
\* the lock with its record written.
THEOREM HolderHonest == Spec => []NoneIsHonest
<1> DEFINE Honest == NoVerdictYet /\ NotesThePresent /\ NoneIsHonest
<1>1. Init => Honest
  BY DEF Init, NoVerdictYet, NotesThePresent, NoneIsHonest, Calling, Acquiring, Asking,
         NoVerdict, Answer
<1>2. ASSUME Inv, Inv', Honest, [Next]_vars PROVE Honest'
  <2>0. NoVerdictYet'
    BY <1>2, NextNoVerdictYet
  <2>1. CASE UNCHANGED vars
    BY <1>2, <2>0, <2>1 DEF vars, NotesThePresent, NoneIsHonest, Moment, Published, Owner,
       Crowded
  <2>2. CASE Next
    <3>1. Observe
      BY <2>2 DEF Next
    <3>2. during \in [Callers -> SUBSET [owner : Callers \cup {NoCaller},
                                         published : BOOLEAN, crowded : BOOLEAN]]
      BY <1>2 DEF Inv, TypeOK
    <3>3. NotesThePresent'
      BY <1>2, NotesNext
    <3>4. ASSUME NEW d \in Callers, pc'[d] = "idle", verdict'[d] = Answer(NoCaller)
          PROVE  \E m \in during'[d] : ~m.published
      <4>1. CASE pc[d] = "idle"
        <5>1. verdict[d] = verdict'[d] /\ during'[d] = during[d]
          <6>1. during'[d] = during[d]
            BY <3>1, <3>4, <4>1 DEF Observe, Calling, Acquiring, Asking
          <6>2. ASSUME NEW c \in Callers, Step(c) PROVE verdict[d] = verdict'[d]
            <7> USE <1>2, <3>4, <4>1, <6>2 DEF Inv, TypeOK, Go
            <7>1. CASE c = d
              BY <7>1 DEF Step, Progress, StartAcquire, StartHolder,
                 FirstAttempt, SecondAttempt, LockWins, WakeUp, RaiseBusy,
                 TruncateRecord, WriteRecord, WithdrawRecord, Unlock,
                 ReadRecord, Probe, ClearLeftover, EndProbe, Restart
            <7>2. CASE c # d
              BY <7>2 DEF Step, Progress, StartAcquire, StartHolder,
                 FirstAttempt, SecondAttempt, LockWins, WakeUp, RaiseBusy,
                 TruncateRecord, WriteRecord, WithdrawRecord, Unlock,
                 ReadRecord, Probe, ClearLeftover, EndProbe, Restart
            <7> QED BY <7>1, <7>2
          <6>3. ASSUME NEW p \in Processes, Crash(p) PROVE verdict[d] = verdict'[d]
            BY <1>2, <3>4, <6>3 DEF Crash, Inv, TypeOK
          <6> QED BY <2>2, <6>1, <6>2, <6>3 DEF Next
        <5> QED BY <1>2, <3>4, <4>1, <5>1 DEF NoneIsHonest
      <4>2. CASE pc[d] # "idle"
        <5>1. pc[d] \in Calling /\ ~Moment.published
          <6>1. ASSUME NEW c \in Callers, Step(c)
                PROVE  pc[d] \in Calling /\ ~Moment.published
            <7> USE <1>2, <3>4, <4>2, <6>1
                DEF Inv, TypeOK, FlockIsExclusive, RecordNamesHolder, Go, Calling,
                    Acquiring, Asking, Holding, Owning, Probing, Moment, Published, Owner,
                    NoVerdictYet, NoVerdict
            <7>1. c = d
              BY DEF Step, Progress, StartAcquire, StartHolder,
                 FirstAttempt, SecondAttempt, LockWins, WakeUp, RaiseBusy,
                 TruncateRecord, WriteRecord, WithdrawRecord, Unlock,
                 ReadRecord, Probe, ClearLeftover, EndProbe, Restart
            <7>2. (ReadRecord(d) /\ record = NoCaller) \/ EndProbe(d)
              <8>1. pc[d] \notin {"try", "asleep", "locked", "blank", "held", "probed"}
                BY <7>1 DEF Step, Progress, StartAcquire, StartHolder,
                   FirstAttempt, LockWins, WakeUp, TruncateRecord,
                   SecondAttempt, RaiseBusy, Unlock, ReadRecord, Probe, EndProbe,
                   WriteRecord, WithdrawRecord, ClearLeftover, Restart
              <8> QED BY <7>1, <8>1
                DEF Step, Progress, StartAcquire, StartHolder,
                   FirstAttempt, LockWins, WakeUp, TruncateRecord, Answer, Busy,
                   SecondAttempt, RaiseBusy, Unlock, ReadRecord, Probe, EndProbe,
                   WriteRecord, WithdrawRecord, ClearLeftover, Restart
            <7> QED BY <7>2 DEF ReadRecord, EndProbe
          <6>2. ASSUME NEW p \in Processes, Crash(p) PROVE FALSE
            BY <1>2, <3>4, <4>2, <6>2 DEF Crash, Inv, TypeOK, NoVerdict, Answer
          <6> QED BY <2>2, <6>1, <6>2 DEF Next
        <5>2. Moment \in during[d] /\ during[d] \subseteq during'[d]
          BY <1>2, <3>1, <5>1 DEF NotesThePresent, Observe
        <5> QED BY <5>1, <5>2
      <4> QED BY <4>1, <4>2
    <3>5. NoneIsHonest'
      BY <3>4 DEF NoneIsHonest, Answer
    <3> QED BY <2>0, <3>3, <3>5
  <2> QED BY <1>2, <2>1, <2>2
<1>3. Honest => NoneIsHonest
  OBVIOUS
<1> QED BY <1>1, <1>2, <1>3, Invariance, PTL DEF Spec

-----------------------------------------------------------------------------
(* Where probes are prompt and do not meet, a refusal means an operation.   *)

Inside == {"probing"} \cup Probing

\* Who probes is a prober, and before it lets go the record is gone.
ProbesClear ==
  \A c \in Callers : /\ pc[c] \in Asking => c \in Probers
                     /\ pc[c] = "cleared" => record = NoCaller

\* The call of c has seen no operation and no two probes at once.
Undisturbed(c) == \A m \in during[c] : m.owner = NoCaller /\ ~m.crowded

\* Nobody goes on to probe: there is no record to check, or nobody to check it.
NothingToCheck == record = NoCaller /\ \A p \in Callers : pc[p] # "probing"
NobodyToAsk == \A p \in Probers : pc[p] = "dead"

\* A first attempt that fails without an operation has met a probe, which leaves no
\* record to check, or dies together with all who could: the second attempt meets none.
ProbeMet ==
  \A c \in Callers :
    Undisturbed(c) =>
      /\ pc[c] = "asleep" =>
           NothingToCheck \/ NobodyToAsk \/ (\E p \in Callers : pc[p] = "probed")
      /\ pc[c] = "retry" =>
           NobodyToAsk \/ (NothingToCheck /\ \A p \in Callers : pc[p] \notin Probing)
      /\ pc[c] # "refused"

\* Where there is no operation, nobody acts as the owner, and at most one caller probes.
LEMMA NobodyOwns ==
  ASSUME Inv, NotesThePresent, NEW c \in Callers, pc[c] \in Calling, Undisturbed(c)
  PROVE  /\ \A d \in Callers : pc[d] \notin Owning
         /\ \A d, e \in Callers : pc[d] \in Inside /\ pc[e] \in Inside => d = e
<1>1. Owner = NoCaller /\ ~Crowded
  BY DEF NotesThePresent, Undisturbed, Moment
<1>2. \A d, e \in Callers : pc[d] \in Inside /\ pc[e] \in Inside => d = e
  BY <1>1 DEF Crowded, Inside
<1> QED BY <1>1, <1>2 DEF Owner, Inv, FlockIsExclusive, Holding

LEMMA ProbesClearNext ==
  ASSUME Inv, ProbesClear, [Next]_vars
  PROVE  ProbesClear'
<1> USE DEF Inv, TypeOK, FlockIsExclusive, Holding, Owning, Probing, ProbesClear, Asking, Go
<1>1. ASSUME NEW c \in Callers, Step(c) PROVE ProbesClear'
  <2>1. CASE StartAcquire(c) \/ StartHolder(c) \/ FirstAttempt(c) \/ SecondAttempt(c) \/ WakeUp(c)
    BY <2>1 DEF StartAcquire, StartHolder, FirstAttempt, SecondAttempt, LockWins, WakeUp
  <2>2. CASE RaiseBusy(c) \/ TruncateRecord(c) \/ WithdrawRecord(c) \/ Unlock(c)
             \/ Restart(c)
    BY <2>2 DEF RaiseBusy, TruncateRecord, WithdrawRecord, Unlock, Restart
  <2>3. CASE WriteRecord(c)
    BY <2>3 DEF WriteRecord
  <2>4. CASE ReadRecord(c) \/ Probe(c) \/ ClearLeftover(c) \/ EndProbe(c)
    BY <2>4 DEF ReadRecord, Probe, ClearLeftover, EndProbe
  <2> QED BY <1>1, <2>1, <2>2, <2>3, <2>4 DEF Step, Progress
<1>2. ASSUME NEW q \in Processes, Crash(q) PROVE ProbesClear'
  BY <1>2 DEF Crash
<1>3. CASE UNCHANGED vars
  BY <1>3 DEF vars
<1> QED BY <1>1, <1>2, <1>3 DEF Next

\* While c waits, nobody begins a probe, and one that is under way leaves no record.
LEMMA WaitingOn ==
  ASSUME PromptProbes, Inv, ProbesClear, NEW c \in Callers, Next, pc'[c] = pc[c],
         pc[c] \in {"asleep", "retry"},
         \A d \in Callers : pc[d] \notin Owning /\ pc'[d] \notin Owning,
         \A d, e \in Callers : pc'[d] \in Inside /\ pc'[e] \in Inside => d = e
  PROVE  /\ NobodyToAsk => NobodyToAsk'
         /\ NothingToCheck => NothingToCheck'
         /\ NothingToCheck /\ (\A p \in Callers : pc[p] \notin Probing)
              => \A p \in Callers : pc'[p] \notin Probing
         /\ (\E p \in Callers : pc[p] = "probed")
              => \/ NothingToCheck' \/ NobodyToAsk'
                 \/ \E p \in Callers : pc'[p] = "probed"
<1> USE DEF Go, Calling, Acquiring, Asking, Owning, Probing, Holding, Inside
<1>1. /\ pc \in [Callers -> {"idle", "dead", "held", "withdrawn"} \cup Calling]
      /\ \A d \in Callers : pc[d] \in Holding <=> flock = d
      /\ \A d \in Callers : pc[d] \in Asking => d \in Probers
      /\ Probers \subseteq Callers
  BY DEF Inv, TypeOK, FlockIsExclusive, ProbesClear
<1>2. ASSUME NEW q \in Processes, Crash(q)
      PROVE  /\ record' = record /\ \A d \in Callers : pc'[d] \in {pc[d], "dead"}
             /\ \A d \in Callers : ProcessOf[d] = q => pc'[d] = "dead"
             /\ \A d \in Callers : ProcessOf[d] # q => pc'[d] = pc[d]
  BY <1>1, <1>2 DEF Crash
<1>3. ASSUME NEW q \in Processes, Crash(q)
      PROVE  (\E p \in Callers : pc[p] = "probed")
               => NobodyToAsk' \/ \E p \in Callers : pc'[p] = "probed"
  <2> SUFFICES ASSUME NEW p \in Callers, pc[p] = "probed", pc'[p] # "probed"
               PROVE  NobodyToAsk'
    OBVIOUS
  <2>1. ProcessOf[p] = q /\ p \in Probers
    BY <1>1, <1>2, <1>3
  <2>2. \A r \in Probers : ProcessOf[r] = q
    BY <2>1, ProbersAssumption
  <2> QED BY <1>1, <1>2, <1>3, <2>2 DEF NobodyToAsk
<1>4. ASSUME NEW d \in Callers, Step(d)
      PROVE  /\ ~(TruncateRecord(d) \/ WriteRecord(d) \/ WithdrawRecord(d) \/ Unlock(d))
             /\ ~Restart(d)
  BY <1>1 DEF TruncateRecord, WriteRecord, WithdrawRecord, Unlock, Restart
<1>5. ASSUME NEW d \in Callers, Step(d)
      PROVE  /\ \A e \in Callers \ {d} : pc'[e] = pc[e]
             /\ pc[d] # "dead"
             /\ record' = record
                \/ (record' = NoCaller /\ pc[d] = "probed" /\ pc'[d] = "cleared")
             /\ pc[d] = "probed" => record' = NoCaller /\ pc'[d] = "cleared"
             /\ pc'[d] = "probing" => record # NoCaller \/ pc[d] = "probing"
             /\ pc'[d] \in Probing => pc[d] \in Inside
  <2>1. CASE StartAcquire(d) \/ StartHolder(d) \/ WakeUp(d) \/ RaiseBusy(d)
    BY <1>1, <2>1 DEF StartAcquire, StartHolder, WakeUp, RaiseBusy
  <2>2. CASE FirstAttempt(d) \/ SecondAttempt(d)
    BY <1>1, <2>2 DEF FirstAttempt, SecondAttempt, LockWins
  <2>3. CASE ReadRecord(d) \/ EndProbe(d)
    BY <1>1, <2>3 DEF ReadRecord, EndProbe
  <2>4. CASE Probe(d) \/ ClearLeftover(d)
    BY <1>1, <2>4 DEF Probe, ClearLeftover
  <2> QED BY <1>4, <1>5, <2>1, <2>2, <2>3, <2>4 DEF Step, Progress
<1>6. CASE \E q \in Processes : Crash(q)
  BY <1>1, <1>2, <1>3, <1>6 DEF NobodyToAsk, NothingToCheck
<1>7. CASE \E d \in Callers : Step(d)
  <2> PICK d \in Callers : Step(d)
    BY <1>7
  <2>1. NobodyToAsk => NobodyToAsk'
    BY <1>1, <1>5 DEF NobodyToAsk
  <2>2. NothingToCheck => NothingToCheck'
    BY <1>1, <1>5 DEF NothingToCheck
  <2>3. NothingToCheck /\ (\A p \in Callers : pc[p] \notin Probing)
          => \A p \in Callers : pc'[p] \notin Probing
    BY <1>1, <1>5 DEF NothingToCheck
  <2>4. ASSUME NEW p \in Callers, pc[p] = "probed", pc'[p] # "probed"
        PROVE  NothingToCheck'
    <3>1. d = p /\ record' = NoCaller /\ pc'[p] = "cleared"
      BY <1>5, <2>4
    <3> QED BY <2>4, <3>1 DEF NothingToCheck
  <2> QED BY <2>1, <2>2, <2>3, <2>4
<1> QED BY <1>6, <1>7 DEF Next

LEMMA ProbeMetNext ==
  ASSUME PromptProbes, Inv, Inv', NotesThePresent, NotesThePresent', ProbesClear, ProbeMet,
         [Next]_vars
  PROVE  ProbeMet'
<1>1. CASE UNCHANGED vars
  BY <1>1 DEF vars, ProbeMet, Undisturbed, NothingToCheck, NobodyToAsk
<1>2. CASE Next
  <2> SUFFICES ASSUME NEW c \in Callers, Undisturbed(c)',
                      pc'[c] \in {"asleep", "retry", "refused"}
               PROVE  /\ pc'[c] = "asleep" =>
                           NothingToCheck' \/ NobodyToAsk'
                           \/ (\E p \in Callers : pc'[p] = "probed")
                      /\ pc'[c] = "retry" =>
                           NobodyToAsk'
                           \/ (NothingToCheck' /\ \A p \in Callers : pc'[p] \notin Probing)
                      /\ pc'[c] # "refused"
    BY DEF ProbeMet
  <2>1. /\ pc \in [Callers -> {"idle", "dead", "held", "withdrawn"} \cup Calling]
        /\ \A d \in Callers : pc[d] \in Holding <=> flock = d
        /\ flock \in Callers \cup {NoCaller}
        /\ \A d \in Callers : pc[d] \in Asking => d \in Probers
        /\ \A d \in Callers : pc[d] = "cleared" => record = NoCaller
        /\ during \in [Callers -> SUBSET [owner : Callers \cup {NoCaller}, published : BOOLEAN,
                                         crowded : BOOLEAN]]
    BY DEF Inv, TypeOK, FlockIsExclusive, ProbesClear
  <2> USE DEF Go, Calling, Acquiring, Asking, Owning, Probing, Holding, Inside
  <2>2. /\ pc[c] \in {"try", "asleep", "retry", "refused"}
        /\ pc[c] = pc'[c] \/ FirstAttempt(c) \/ WakeUp(c) \/ SecondAttempt(c)
    <3>1. ASSUME NEW q \in Processes, Crash(q) PROVE pc'[c] = pc[c]
      BY <2>1, <3>1 DEF Crash
    <3>2. ASSUME NEW d \in Callers, Step(d), d # c PROVE pc'[c] = pc[c]
      BY <2>1, <3>2 DEF Step, Progress, StartAcquire, StartHolder, FirstAttempt, SecondAttempt,
         LockWins, WakeUp, RaiseBusy, TruncateRecord, WriteRecord, WithdrawRecord, Unlock,
         ReadRecord, Probe, ClearLeftover, EndProbe, Restart
    <3>3. CASE Step(c)
      BY <2>1, <3>3 DEF Step, Progress, StartAcquire, StartHolder, FirstAttempt, SecondAttempt,
         LockWins, WakeUp, RaiseBusy, TruncateRecord, WriteRecord, WithdrawRecord, Unlock,
         ReadRecord, Probe, ClearLeftover, EndProbe, Restart
    <3> QED BY <1>2, <3>1, <3>2, <3>3 DEF Next
  <2>3. Undisturbed(c)
    <3>1. during[c] \subseteq during'[c]
      BY <1>2, <2>1, <2>2 DEF Next, Observe
    <3> QED BY <3>1 DEF Undisturbed
  <2>4. /\ \A d \in Callers : pc[d] \notin Owning
        /\ \A d, e \in Callers : pc[d] \in Inside /\ pc[e] \in Inside => d = e
    BY <2>2, <2>3, NobodyOwns
  <2>5. \A d \in Callers : pc'[d] \notin Owning
    <3>1. Owner' = NoCaller
      BY DEF NotesThePresent, Undisturbed, Moment
    <3> QED BY <3>1 DEF Owner, Inv, FlockIsExclusive
  <2>a. \A d, e \in Callers : pc'[d] \in Inside /\ pc'[e] \in Inside => d = e
    <3>1. ~Crowded'
      BY DEF NotesThePresent, Undisturbed, Moment
    <3> QED BY <3>1 DEF Crowded
  <2>6. /\ pc[c] = "asleep" =>
             NothingToCheck \/ NobodyToAsk \/ (\E p \in Callers : pc[p] = "probed")
        /\ pc[c] = "retry" =>
             NobodyToAsk \/ (NothingToCheck /\ \A p \in Callers : pc[p] \notin Probing)
        /\ pc[c] # "refused"
    BY <2>3 DEF ProbeMet
  <2>7. flock # NoCaller => pc[flock] \in Probing
    BY <2>1, <2>4
  <2>8. CASE FirstAttempt(c) /\ pc'[c] # pc[c]
    <3>1. record' = record /\ pc[c] = "try" /\ pc' = [pc EXCEPT ![c] = "asleep"] /\ flock # NoCaller
      BY <2>1, <2>5, <2>8 DEF FirstAttempt, LockWins
    <3>2. CASE pc[flock] = "probed"
      BY <2>1, <3>1, <3>2
    <3>3. CASE pc[flock] = "cleared"
      BY <2>1, <2>4, <3>1, <3>3 DEF NothingToCheck
    <3> QED BY <2>1, <2>7, <3>1, <3>2, <3>3
  <2>9. CASE WakeUp(c) /\ pc'[c] # pc[c]
    <3>1. /\ record' = record /\ pc[c] = "asleep" /\ pc' = [pc EXCEPT ![c] = "retry"]
          /\ flock \in Callers => pc[flock] \notin Probing
      BY <2>9 DEF WakeUp
    <3>2. \A p \in Callers : pc[p] \notin Probing
      BY <2>1, <3>1
    <3>3. NothingToCheck \/ NobodyToAsk
      BY <2>6, <3>1, <3>2
    <3>4. (NothingToCheck => NothingToCheck') /\ (NobodyToAsk => NobodyToAsk')
      BY <2>1, <3>1, CallersAssumption DEF NothingToCheck, NobodyToAsk
    <3> QED BY <2>1, <3>1, <3>2, <3>3, <3>4
  <2>10. CASE SecondAttempt(c) /\ pc'[c] # pc[c]
    <3>1. pc[c] = "retry" /\ flock # NoCaller
      BY <2>1, <2>5, <2>10 DEF SecondAttempt, LockWins
    <3>2. NobodyToAsk /\ flock \in Probers
      BY <2>1, <2>6, <2>7, <3>1
    <3> QED BY <2>7, <3>1, <3>2 DEF NobodyToAsk
  <2>11. CASE pc'[c] = pc[c]
    BY <1>2, <2>1, <2>2, <2>4, <2>5, <2>a, <2>6, <2>11, WaitingOn
  <2> QED BY <2>2, <2>8, <2>9, <2>10, <2>11
<1> QED BY <1>1, <1>2

\* The verdict of an acquire() is kept until the next call.
LEMMA BusyNext ==
  ASSUME PromptProbes, Inv, NoVerdictYet, NotesThePresent, ProbeMet, BusyUnlessProbesMeet,
         [Next]_vars
  PROVE  BusyUnlessProbesMeet'
<1>1. CASE UNCHANGED vars
  BY <1>1 DEF vars, BusyUnlessProbesMeet
<1>2. CASE Next
  <2> SUFFICES ASSUME NEW c \in Callers, pc'[c] = "idle", verdict'[c].call = "acquire"
               PROVE  \E m \in during'[c] : m.owner # NoCaller \/ m.crowded
    BY DEF BusyUnlessProbesMeet
  <2>1. /\ pc \in [Callers -> {"idle", "dead", "held", "withdrawn"} \cup Calling]
        /\ verdict \in [Callers -> Verdict]
        /\ pc[c] # "idle" => verdict[c] = NoVerdict
        /\ during \in [Callers -> SUBSET [owner : Callers \cup {NoCaller}, published : BOOLEAN,
                                         crowded : BOOLEAN]]
    BY DEF Inv, TypeOK, NoVerdictYet
  <2> USE DEF Go, Calling, Acquiring, Asking, NoVerdict, Answer
  <2>2. (pc[c] = "idle" /\ verdict'[c] = verdict[c]) \/ pc[c] = "refused"
    <3>1. ASSUME NEW q \in Processes, Crash(q) PROVE <2>2
      BY <2>1, <3>1 DEF Crash
    <3>2. ASSUME NEW d \in Callers, Step(d), d # c PROVE pc'[c] = pc[c] /\ verdict'[c] = verdict[c]
      BY <2>1, <3>2 DEF Step, Progress, StartAcquire, StartHolder, FirstAttempt, SecondAttempt,
         LockWins, WakeUp, RaiseBusy, TruncateRecord, WriteRecord, WithdrawRecord, Unlock,
         ReadRecord, Probe, ClearLeftover, EndProbe, Restart
    <3>3. CASE Step(c)
      <4>1. CASE StartAcquire(c) \/ StartHolder(c) \/ WakeUp(c) \/ RaiseBusy(c) \/ Unlock(c)
                 \/ Restart(c)
        BY <2>1, <4>1 DEF StartAcquire, StartHolder, WakeUp, RaiseBusy, Unlock, Restart
      <4>2. CASE FirstAttempt(c) \/ SecondAttempt(c)
        BY <2>1, <4>2 DEF FirstAttempt, SecondAttempt, LockWins
      <4>3. CASE ReadRecord(c) \/ Probe(c)
        BY <2>1, <4>3 DEF ReadRecord, Probe
      <4>4. CASE ClearLeftover(c) \/ EndProbe(c)
        BY <2>1, <4>4 DEF ClearLeftover, EndProbe
      <4>5. CASE TruncateRecord(c) \/ WriteRecord(c) \/ WithdrawRecord(c)
        BY <2>1, <4>5 DEF TruncateRecord, WriteRecord, WithdrawRecord
      <4> QED BY <3>3, <4>1, <4>2, <4>3, <4>4, <4>5 DEF Step, Progress
    <3>4. pc[c] # "idle" => verdict[c].call # "acquire"
      BY <2>1
    <3> QED BY <1>2, <3>1, <3>2, <3>3, <3>4 DEF Next
  <2>3. CASE pc[c] = "idle" /\ verdict'[c] = verdict[c]
    <3>1. during'[c] = during[c]
      BY <1>2, <2>1, <2>3 DEF Next, Observe
    <3> QED BY <2>3, <3>1 DEF BusyUnlessProbesMeet
  <2>4. CASE pc[c] = "refused"
    <3>1. ~Undisturbed(c)
      BY <2>4 DEF ProbeMet
    <3>2. during[c] \subseteq during'[c]
      BY <1>2, <2>1, <2>4 DEF Next, Observe
    <3> QED BY <3>1, <3>2 DEF Undisturbed
  <2> QED BY <2>2, <2>3, <2>4
<1> QED BY <1>1, <1>2

\* BusyUnlessProbesMeet, for any number of threads that probe: where a probe ends within
\* the delay, acquire() says that another operation is running only if there was one
\* during the call, or if two callers had read a record and not ended their probes.
THEOREM BusyIsTrue ==
  ASSUME PromptProbes
  PROVE  Spec => []BusyUnlessProbesMeet
<1> DEFINE Met == NoVerdictYet /\ NotesThePresent /\ ProbesClear /\ ProbeMet
                  /\ BusyUnlessProbesMeet
<1>1. Init => Met
  BY DEF Init, NoVerdictYet, NotesThePresent, ProbesClear, ProbeMet, BusyUnlessProbesMeet,
         NothingToCheck, Calling, Acquiring, Asking, NoVerdict, Probing
<1>2. Inv /\ Inv' /\ Met /\ [Next]_vars => Met'
  BY NextNoVerdictYet, NotesNext, ProbesClearNext, ProbeMetNext, BusyNext
<1>3. Met => BusyUnlessProbesMeet
  OBVIOUS
<1> QED BY <1>1, <1>2, <1>3, Invariance, PTL DEF Spec

-----------------------------------------------------------------------------
\* lock.py gives its callers the abstract mutex: one owner at a time, whose
\* published name nobody else touches, kill -9 included.
THEOREM Refinement == Spec => ImplementsMutex
<1>1. Init => Abstract!Init
  BY DEF Init, Abstract!Init, Owner, Published
<1>2. ASSUME Inv, Inv', [Next]_vars PROVE [Abstract!Next]_(Abstract!vars)
  <2> USE DEF Abstract!Next, Abstract!vars, Abstract!Take, Abstract!Clear, Abstract!Publish,
              Abstract!Withdraw, Abstract!Lose, Abstract!Forget, Owner, Published
  <2>1. CASE UNCHANGED vars
    BY <2>1 DEF vars
  <2>2. ASSUME NEW p \in Processes, Crash(p)
        PROVE  [Abstract!Next]_(Abstract!vars)
    <3>1. record' = record /\ Owner' \in {Owner, NoCaller}
      BY <1>2, <2>2 DEF Crash, Inv, TypeOK, FlockIsExclusive, Owning, Holding
    <3>2. Owner \in Callers \cup {NoCaller}
      OBVIOUS
    <3>3. CASE Owner' = NoCaller
      BY <3>1, <3>2, <3>3
    <3>4. CASE Owner' # NoCaller
      <4>1. Owner' = Owner /\ pc'[Owner] = pc[Owner]
        BY <1>2, <2>2, <3>1, <3>4 DEF Crash, Inv, TypeOK, Owning
      <4> QED BY <3>1, <3>4, <4>1
    <3> QED BY <3>3, <3>4
  <2>3. ASSUME NEW c \in Callers, Step(c)
        PROVE  [Abstract!Next]_(Abstract!vars)
    <3> USE <1>2, <2>3 DEF Inv, TypeOK, FlockIsExclusive, Go, Calling,
              Acquiring, Asking, Holding, Owning, Probing
    <3>1. CASE StartAcquire(c) \/ StartHolder(c) \/ WakeUp(c) \/ RaiseBusy(c)
               \/ Restart(c)
      BY <3>1 DEF StartAcquire, StartHolder, WakeUp, RaiseBusy, Restart
    <3>2. CASE FirstAttempt(c)
      BY <3>2 DEF FirstAttempt, LockWins
    <3>3. CASE SecondAttempt(c)
      BY <3>3 DEF SecondAttempt, LockWins
    <3>4. CASE TruncateRecord(c) \/ WriteRecord(c) \/ WithdrawRecord(c)
      BY <3>4 DEF TruncateRecord, WriteRecord, WithdrawRecord
    <3>5. CASE Unlock(c)
      BY <3>5 DEF Unlock
    <3>6. CASE ReadRecord(c) \/ Probe(c)
      BY <3>6 DEF ReadRecord, Probe
    <3>7. CASE ClearLeftover(c) \/ EndProbe(c)
      BY <3>7 DEF ClearLeftover, EndProbe
    <3> QED
      BY <3>1, <3>2, <3>3, <3>4, <3>5, <3>6, <3>7 DEF Step, Progress
  <2> QED BY <1>2, <2>1, <2>2, <2>3 DEF Next
<1> QED
  BY <1>1, <1>2, Invariance, PTL DEF Spec, ImplementsMutex, Abstract!Spec
=============================================================================
