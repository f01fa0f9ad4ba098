--------------------------- MODULE ExclusiveLock ---------------------------
(***************************************************************************)
(* mcu_updater/lock.py: one lock file, shared by the CLI processes and by   *)
(* the threads of the agent.  The kernel's flock decides who holds it; the *)
(* {pid, label, since} record in the file only says so, and the two are    *)
(* updated by different system calls.  Each action is one system call.     *)
(***************************************************************************)
CONSTANTS Callers,    \* threads of control, each opening the file for itself
          NoCaller,   \* "nobody", and the empty record
          Acquirers,  \* the callers that run operations
          Probers,    \* the callers that ask holder()
          PromptProbes, \* timing: a probe ends within ACQUIRE_RETRY_DELAY, and
                      \* a process takes longer than that to start
          Processes,  \* the processes they live in
          ProcessOf   \* the process of each caller

ASSUME CallersAssumption ==
  /\ NoCaller \notin Callers
  /\ Acquirers \subseteq Callers
  /\ Probers \subseteq Callers
  /\ PromptProbes \in BOOLEAN
  /\ ProcessOf \in [Callers -> Processes]

\* Nobody but the agent asks holder(): its handlers, on the threads of its pool.
ASSUME ProbersAssumption == \A p, q \in Probers : ProcessOf[p] = ProcessOf[q]

VARIABLES flock,    \* the caller whose file handle the kernel granted the lock
          record,   \* whose record the file holds
          pc,       \* where each caller is in acquire, release or holder
          read,     \* the record holder() read before it probed
          verdict,  \* what the last call of each caller returned
          during    \* history: every moment there was during that call

vars == <<flock, record, pc, read, verdict, during>>

-----------------------------------------------------------------------------
Acquiring == {"try", "asleep", "retry", "refused", "locked", "blank"}
Asking    == {"asked", "probing", "probed", "cleared"}
Calling   == Acquiring \cup Asking
Owning    == {"locked", "blank", "held", "withdrawn"}
Probing   == {"probed", "cleared"}
Holding   == Owning \cup Probing

Verdict   == [call : {"none", "acquire", "holder"},
              names : Callers \cup {NoCaller}]
NoVerdict == [call |-> "none", names |-> NoCaller]
Busy(c)   == [call |-> "acquire", names |-> c]
Answer(c) == [call |-> "holder", names |-> c]

TypeOK ==
  /\ flock \in Callers \cup {NoCaller}
  /\ record \in Callers \cup {NoCaller}
  /\ pc \in [Callers -> {"idle", "dead", "held", "withdrawn"} \cup Calling]
  /\ read \in [Callers -> Callers \cup {NoCaller}]
  /\ verdict \in [Callers -> Verdict]
  /\ during \in [Callers -> SUBSET [owner : Callers \cup {NoCaller},
                                     published : BOOLEAN, crowded : BOOLEAN]]

\* The caller that owns the lock; a prober holds the flock without owning it.
Owner == IF flock \in Callers /\ pc[flock] \in Owning THEN flock ELSE NoCaller

\* Does the owner's record stand in the file?
Published == Owner # NoCaller /\ pc[Owner] = "held"

\* Two callers that read a record each, and neither has ended its probe.
Crowded == \E p, q \in Callers : p # q /\ {pc[p], pc[q]} \subseteq {"probing"} \cup Probing

\* What an observer who sees everything would note at this moment.
Moment == [owner |-> Owner, published |-> Published, crowded |-> Crowded]

Init ==
  /\ flock = NoCaller
  /\ record = NoCaller
  /\ pc = [c \in Callers |-> "idle"]
  /\ read = [c \in Callers |-> NoCaller]
  /\ verdict = [c \in Callers |-> NoVerdict]
  /\ during = [c \in Callers |-> {}]

Go(c, from, to) == pc[c] = from /\ pc' = [pc EXCEPT ![c] = to]

-----------------------------------------------------------------------------
(* acquire(label): two non-blocking attempts, 50 ms apart.                 *)

StartAcquire(c) ==
  /\ c \in Acquirers
  /\ Go(c, "idle", "try")
  /\ verdict' = [verdict EXCEPT ![c] = NoVerdict]
  /\ UNCHANGED <<flock, record, read>>

LockWins(c, from) ==
  /\ flock = NoCaller
  /\ flock' = c
  /\ Go(c, from, "locked")
  /\ UNCHANGED <<record, read, verdict>>

\* Wrong variant: the lock file is opened for writing, which empties it.
FirstAttemptOpensForWriting(c) ==
  \/ LockWins(c, "try")
  \/ /\ flock # NoCaller
     /\ Go(c, "try", "asleep")
     /\ record' = NoCaller
     /\ UNCHANGED <<flock, read, verdict>>

\* Wrong variant: no second attempt.
FirstAttemptOnly(c) ==
  \/ LockWins(c, "try")
  \/ /\ flock # NoCaller
     /\ Go(c, "try", "refused")
     /\ UNCHANGED <<flock, record, read, verdict>>

FirstAttempt(c) ==
  \/ LockWins(c, "try")
  \/ /\ flock # NoCaller
     /\ Go(c, "try", "asleep")
     /\ UNCHANGED <<flock, record, read, verdict>>

\* The 50 ms are over; when probes are prompt, so is the probe it may have met.
WakeUp(c) ==
  /\ PromptProbes /\ flock \in Callers => pc[flock] \notin Probing
  /\ Go(c, "asleep", "retry")
  /\ UNCHANGED <<flock, record, read, verdict>>

SecondAttempt(c) ==
  \/ LockWins(c, "retry")
  \/ /\ flock # NoCaller
     /\ Go(c, "retry", "refused")
     /\ UNCHANGED <<flock, record, read, verdict>>

\* _busy(): the raw record, read after the attempt failed.
RaiseBusy(c) ==
  /\ Go(c, "refused", "idle")
  /\ verdict' = [verdict EXCEPT ![c] = Busy(record)]
  /\ UNCHANGED <<flock, record, read>>

TruncateRecord(c) ==
  /\ Go(c, "locked", "blank")
  /\ record' = NoCaller
  /\ UNCHANGED <<flock, read, verdict>>

WriteRecord(c) ==
  /\ Go(c, "blank", "held")
  /\ record' = c
  /\ UNCHANGED <<flock, read, verdict>>

-----------------------------------------------------------------------------
(* release(): the record goes first, then the flock.                       *)

WithdrawRecord(c) ==
  /\ Go(c, "held", "withdrawn")
  /\ record' = NoCaller
  /\ UNCHANGED <<flock, read, verdict>>

Unlock(c) ==
  /\ Go(c, "withdrawn", "idle")
  /\ flock' = NoCaller
  /\ UNCHANGED <<record, read, verdict>>

-----------------------------------------------------------------------------
(* holder(): read the record, then probe the flock; a probe that wins       *)
(* clears the record before it lets go.                                    *)

StartHolder(c) ==
  /\ c \in Probers
  /\ Go(c, "idle", "asked")
  /\ verdict' = [verdict EXCEPT ![c] = NoVerdict]
  /\ UNCHANGED <<flock, record, read>>

ReadRecord(c) ==
  \/ /\ record = NoCaller
     /\ Go(c, "asked", "idle")
     /\ verdict' = [verdict EXCEPT ![c] = Answer(NoCaller)]
     /\ UNCHANGED <<flock, record, read>>
  \/ /\ record # NoCaller
     /\ Go(c, "asked", "probing")
     /\ read' = [read EXCEPT ![c] = record]
     /\ UNCHANGED <<flock, record, verdict>>

\* Wrong variant: a lost probe is taken for a free lock.
ProbeSaysFree(c) ==
  \/ /\ flock # NoCaller
     /\ Go(c, "probing", "idle")
     /\ verdict' = [verdict EXCEPT ![c] = Answer(NoCaller)]
     /\ read' = [read EXCEPT ![c] = NoCaller]
     /\ UNCHANGED <<flock, record>>
  \/ /\ flock = NoCaller
     /\ Go(c, "probing", "probed")
     /\ flock' = c
     /\ UNCHANGED <<record, read, verdict>>

Probe(c) ==
  \/ /\ flock # NoCaller
     /\ Go(c, "probing", "idle")
     /\ verdict' = [verdict EXCEPT ![c] = Answer(read[c])]
     /\ read' = [read EXCEPT ![c] = NoCaller]
     /\ UNCHANGED <<flock, record>>
  \/ /\ flock = NoCaller
     /\ Go(c, "probing", "probed")
     /\ flock' = c
     /\ UNCHANGED <<record, read, verdict>>

ClearLeftover(c) ==
  /\ Go(c, "probed", "cleared")
  /\ record' = NoCaller
  /\ UNCHANGED <<flock, read, verdict>>

EndProbe(c) ==
  /\ Go(c, "cleared", "idle")
  /\ flock' = NoCaller
  /\ verdict' = [verdict EXCEPT ![c] = Answer(NoCaller)]
  /\ read' = [read EXCEPT ![c] = NoCaller]
  /\ UNCHANGED record

-----------------------------------------------------------------------------
(* kill -9 of a process at any point: the kernel drops its flock, the      *)
(* record stays on disk.  A new process takes its place.                   *)

Crash(p) ==
  /\ \E c \in Callers : ProcessOf[c] = p /\ pc[c] # "dead"
  /\ pc' = [c \in Callers |-> IF ProcessOf[c] = p THEN "dead" ELSE pc[c]]
  /\ flock' = IF flock \in Callers /\ ProcessOf[flock] = p
              THEN NoCaller ELSE flock
  /\ read' = [c \in Callers |-> IF ProcessOf[c] = p THEN NoCaller ELSE read[c]]
  /\ verdict' = [c \in Callers |->
                   IF ProcessOf[c] = p THEN NoVerdict ELSE verdict[c]]
  /\ UNCHANGED record

Restart(c) ==
  /\ PromptProbes => \A d \in Callers : pc[d] \notin {"asleep", "retry"}
  /\ Go(c, "dead", "idle")
  /\ UNCHANGED <<flock, record, read, verdict>>

-----------------------------------------------------------------------------
Progress(c) ==
  \/ FirstAttempt(c) \/ WakeUp(c) \/ SecondAttempt(c) \/ RaiseBusy(c)
  \/ TruncateRecord(c) \/ WriteRecord(c)
  \/ ReadRecord(c) \/ Probe(c) \/ ClearLeftover(c) \/ EndProbe(c)
  \/ Unlock(c)

Step(c) ==
  \/ Progress(c)
  \/ StartAcquire(c) \/ StartHolder(c) \/ WithdrawRecord(c) \/ Restart(c)

\* History only: the moments each call has spanned so far, from its first state.
Observe ==
  during' = [c \in Callers |->
               IF pc[c] \in Calling THEN during[c] \cup {Moment'}
               ELSE IF pc'[c] \in Calling THEN {Moment, Moment'}
               ELSE IF pc'[c] = "idle" THEN during[c] ELSE {}]

Next ==
  /\ (\E c \in Callers : Step(c)) \/ (\E p \in Processes : Crash(p))
  /\ Observe

Spec == Init /\ [][Next]_vars

-----------------------------------------------------------------------------
\* While an operation runs under the lock the file names that operation and no
\* other: neither a competing acquire() that opened the file for append nor a
\* holder() probe that lost the race may erase or replace the record
\* (acquire opens "a+" and _probe_and_clear_if_free clears only under flock).
RecordNamesHolder == \A c \in Callers : pc[c] = "held" => record = c

\* holder() never calls a lock free that operations held, with their record in
\* the file, from before the call to its end: "claiming a held lock is free is
\* how two flashes end up running at once".
NoneIsHonest ==
  \A c \in Callers :
    pc[c] = "idle" /\ verdict[c] = Answer(NoCaller)
      => \E m \in during[c] : ~m.published

\* acquire() says "another firmware operation is already running" only if one
\* was, or if two probes met: the retry absorbs one holder() probe that happened to
\* hold the flock, however many threads probe one after the other.
BusyUnlessProbesMeet ==
  \A c \in Callers :
    pc[c] = "idle" /\ verdict[c].call = "acquire"
      => \E m \in during[c] : m.owner # NoCaller \/ m.crowded

\* The detailed lock implements the abstract one.
Abstract == INSTANCE Mutex WITH owner <- Owner, name <- record, published <- Published
ImplementsMutex == Abstract!Spec
=============================================================================
