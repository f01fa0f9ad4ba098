-------------------------- MODULE ProvenanceProofs --------------------------
(***************************************************************************)
(* For any commits, configurations and boards: Provenance is type correct, *)
(* what is not reported stale is current, and what is reported up to date  *)
(* on the strength of a record holds the staged binary. The last two need  *)
(* the sidecar to describe the binary beside it (NoteOfStaged), and the    *)
(* log to describe the boards (LogOfHeld) or a build to work for the tree  *)
(* as it is (BuildOfHere).                                                 *)
(***************************************************************************)
EXTENDS Provenance, TLAPS

USE ProvenanceAssumption

\* What each step of an operation finds prepared by the steps before it.
Prepared ==
  /\ pc \in BuildSteps \ {"make"} => work \in Sidecars
  /\ pc \in {"compile", "hash", "copy", "copying"} => work.bin \in Bins
  /\ pc = "sidecar" => staged \in Bins
  /\ pc = "write" => staged # NoFile /\ mode[board] = "katapult"

Inv == TypeOK /\ Prepared

Rewriting == {"copying", "sidecar", "dump"}

\* The sidecar describes the binary beside it, except while a build replaces both.
NoteOfStaged ==
  /\ pc \notin Rewriting /\ sidecar # NoFile => sidecar.bin \in {NoFile, staged}
  /\ pc = "sidecar" => staged = work.bin
  /\ pc = "dump" => work.bin \in {NoFile, staged}

\* The log describes what a board holds, except between a write and its record.
LogTells(b) == \/ log[b] = NoFile
               \/ log[b].bin \in {NoFile, held[b]}
               \/ held[b] = Torn
               \/ pc = "record" /\ board = b

LogOfHeld ==
  /\ \A b \in Boards : LogTells(b)
  /\ pc = "record" => held[board] = staged

Here == [commit |-> head, config |-> config]

\* What a build has put together so far is of the tree and the answers as they are.
BuildOfHere ==
  /\ pc \in {"compile", "hash", "copy", "copying", "sidecar"} => work.bin = Here
  /\ pc \in {"copy", "copying", "sidecar", "dump"} => work.config = config
  /\ pc = "dump" => work.commit = head /\ staged = Here /\ work.bin = Here
  /\ pc \notin Rewriting /\ sidecar # NoFile =>
       /\ sidecar.commit # NoFile /\ sidecar.config # NoFile
       /\ sidecar.bin = [commit |-> sidecar.commit, config |-> sidecar.config]

-----------------------------------------------------------------------------
LEMMA InitInv == Init => Inv
BY DEF Init, Inv, TypeOK, Prepared, BuildSteps, FlashSteps

\* Whatever is selected for flashing are boards.
LEMMA Selected == \A s, r : BoardsToFlash(s, r) \subseteq Boards
BY DEF BoardsToFlash

\* Deciding and starting keep the invariant.
LEMMA DecideInv ==
  ASSUME Inv,
         \/ \E s \in {"stale", "all"} : Plan(s)
         \/ \E k \in {"build", "flash", "cli_update"} : StartCli(k)
         \/ Submit \/ Refused,
         Steady
  PROVE  Inv'
<1> USE DEF Inv, Prepared, Steady, TypeOK, BuildSteps, FlashSteps, files, boards, job
<1>1. ASSUME NEW s \in {"stale", "all"}, Plan(s) PROVE Inv'
  <2>1. plan' \in Plans
    <3>1. CASE PlanBuild(s) BY <3>1, <1>1 DEF PlanBuild, Plans
    <3>2. CASE PlanFlash(s) BY <3>2, <1>1, Selected DEF PlanFlash, Plans
    <3>3. CASE PlanUpdate(s)
      <4>1. PICK b \in BOOLEAN :
              plan' = [kind |-> "update", scope |-> s, build |-> b, boards |-> {}]
        BY <3>3 DEF PlanUpdate
      <4> QED BY <4>1, <1>1 DEF Plans
    <3> QED BY <1>1, <3>1, <3>2, <3>3 DEF Plan
  <2> QED BY <2>1, <1>1 DEF Plan
<1>2. ASSUME NEW k \in {"build", "flash", "cli_update"}, StartCli(k) PROVE Inv'
  BY <1>2 DEF StartCli
<1>3. CASE Submit
  <2>1. plan \in Plans BY <1>3 DEF Submit
  <2>2. /\ kind' \in {"build", "flash", "update", "cli_update"}
        /\ scope' \in {"stale", "all"} /\ todo' \subseteq Boards
    BY <1>3, <2>1 DEF Submit, Plans
  <2>3. pc' \in {"make", "choose", "flash"} BY <1>3 DEF Submit
  <2> QED BY <1>3, <2>2, <2>3 DEF Submit
<1>4. CASE Refused BY <1>4 DEF Refused
<1> QED BY <1>1, <1>2, <1>3, <1>4

\* So do the steps of a build.
LEMMA BuildInv ==
  ASSUME Inv, Building,
         Steady
  PROVE  Inv'
<1> USE DEF Inv, Prepared, Steady, TypeOK, BuildSteps, FlashSteps, files, boards, job
<1>1. CASE StartMake BY <1>1 DEF StartMake, Sidecars, Bins
<1>2. CASE MakeDone
  <2>1. work \in Sidecars /\ work.bin \in Bins BY <1>2 DEF MakeDone
  <2>2. work' \in Sidecars /\ work'.bin \in Bins BY <1>2, <2>1 DEF MakeDone, Sidecars, Bins
  <2> QED BY <1>2, <2>2 DEF MakeDone
<1>3. CASE MakeFails BY <1>3 DEF MakeFails
<1>4. CASE HashConfig
  <2>1. work \in Sidecars /\ work.bin \in Bins BY <1>4 DEF HashConfig
  <2>2. PICK c \in Configs \cup {NoFile} : work' = [work EXCEPT !.config = c]
    BY <1>4 DEF HashConfig, Seen
  <2>3. work' \in Sidecars /\ work'.bin \in Bins BY <2>1, <2>2 DEF Sidecars
  <2> QED BY <1>4, <2>3 DEF HashConfig
<1>5. CASE OpenStaged BY <1>5 DEF OpenStaged
<1>6. CASE FillStaged
  <2>1. work \in Sidecars /\ work.bin \in Bins BY <1>6 DEF FillStaged, Sidecars
  <2> QED BY <1>6, <2>1 DEF FillStaged
<1>7. CASE OpenSidecar
  <2>1. work \in Sidecars /\ staged \in Bins BY <1>7 DEF OpenSidecar
  <2>2. PICK h \in Commits \cup {NoFile}, b \in Bins \cup {NoFile} :
          work' = [work EXCEPT !.commit = h, !.bin = b]
    BY <1>7, <2>1 DEF OpenSidecar, Seen
  <2>3. work' \in Sidecars BY <2>1, <2>2 DEF Sidecars
  <2> QED BY <1>7, <2>3 DEF OpenSidecar
<1>8. CASE WriteSidecar BY <1>8 DEF WriteSidecar, BuildReturns
<1>9. CASE SidecarFails BY <1>9 DEF SidecarFails, BuildReturns
<1> QED BY <1>1, <1>2, <1>3, <1>4, <1>5, <1>6, <1>7, <1>8, <1>9 DEF Building

\* So do the steps of a flash.
LEMMA FlashInv ==
  ASSUME Inv, Flashing,
         Steady
  PROVE  Inv'
<1> USE DEF Inv, Prepared, Steady, TypeOK, BuildSteps, FlashSteps, files, boards, job
<1>1. CASE Choose BY <1>1, Selected DEF Choose
<1>2. CASE Write
  <2>1. staged \in Bins \cup {Torn} BY <1>2 DEF Write
  <2>2. \A b \in Boards : mode'[b] = "klipper" => held'[b] \in Bins
    BY <1>2, <2>1 DEF Write
  <2> QED BY <1>2, <2>1, <2>2 DEF Write
<1>3. CASE WriteFails
  <2>1. held' \in [Boards -> Bins \cup {Torn}] BY <1>3 DEF WriteFails
  <2>2. \A b \in Boards : mode'[b] = "klipper" => held'[b] \in Bins
    BY <1>3 DEF WriteFails
  <2> QED BY <1>3, <2>1, <2>2 DEF WriteFails
<1>4. CASE Record
  <2>1. PICK h \in Commits \cup {NoFile} : log' = [log EXCEPT ![board] = Entry(h)]
    BY <1>4 DEF Record, Seen
  <2>2. Entry(h) \in Entries BY DEF Entry, Entries, Sidecars
  <2> QED BY <1>4, <2>1, <2>2 DEF Record
<1>5. CASE FlashReturns BY <1>5 DEF FlashReturns
<1>6. ASSUME NEW b \in Boards, EnterBootloader(b) PROVE Inv'
  BY <1>6 DEF EnterBootloader
<1>7. ASSUME NEW b \in Boards, CannotFlash(b) PROVE Inv'
  BY <1>7 DEF CannotFlash
<1> QED BY <1>1, <1>2, <1>3, <1>4, <1>5, <1>6, <1>7 DEF Flashing

Outside ==
  \/ Pull \/ SaveConfig \/ Menuconfig
  \/ \E b \in Boards : Unplug(b) \/ PowerOn(b)

\* So do giving up, dying, and what the user and the bus do.
LEMMA OutsideInv ==
  ASSUME Inv, GiveUp \/ Dies \/ Outside, Steady
  PROVE  Inv'
<1> USE DEF Inv, Prepared, Steady, TypeOK, BuildSteps, FlashSteps, files, boards, job
<1>1. CASE GiveUp BY <1>1 DEF GiveUp
<1>2. CASE Dies BY <1>2 DEF Dies
<1>3. CASE Pull BY <1>3 DEF Pull
<1>4. CASE SaveConfig BY <1>4 DEF SaveConfig
<1>5. CASE Menuconfig BY <1>5 DEF Menuconfig
<1>6. ASSUME NEW b \in Boards, Unplug(b) PROVE Inv'
  BY <1>6 DEF Unplug
<1>7. ASSUME NEW b \in Boards, PowerOn(b) PROVE Inv'
  BY <1>7 DEF PowerOn
<1> QED BY <1>1, <1>2, <1>3, <1>4, <1>5, <1>6, <1>7 DEF Outside

LEMMA InvStep == Inv /\ [Next]_vars => Inv'
<1> SUFFICES ASSUME Inv, [Next]_vars PROVE Inv'
  OBVIOUS
<1>1. CASE UNCHANGED vars
  BY <1>1 DEF Inv, TypeOK, Prepared, vars, files, boards, job
<1> QED BY <1>1, DecideInv, BuildInv, FlashInv, OutsideInv DEF Next, Outside

THEOREM Invariance == Spec => []Inv
BY InitInv, InvStep, PTL DEF Spec

\* Every variable keeps to its type, and a board that runs Klipper holds a whole
\* binary: flash_katapult never takes half an image for a running firmware.
THEOREM TypeCorrect == Spec => []TypeOK
<1>1. Inv => TypeOK BY DEF Inv
<1> QED BY Invariance, <1>1, PTL

-----------------------------------------------------------------------------
\* The premises of the two properties do not change during a behaviour.
LEMMA PremisesStay ==
  [Next]_vars => /\ NothingDies' <=> NothingDies
                 /\ NothingMoves' <=> NothingMoves
                 /\ AllRecorded' <=> AllRecorded
                 /\ AllReadable' <=> AllReadable
BY DEF Next, Steady, vars, NothingDies, NothingMoves, AllRecorded, AllReadable

\* The steps that neither build nor change the staged binary or its note.
LEMMA Elsewhere ==
  ASSUME [Next]_vars, ~Building, NothingDies
  PROVE  /\ UNCHANGED <<staged, sidecar>>
         /\ (pc' = pc /\ work' = work)
              \/ (pc \notin BuildSteps \ {"make", "compile"}
                    /\ pc' \notin BuildSteps \ {"make"})
<1> USE DEF files, boards, job, BuildSteps
<1>1. ASSUME NEW s \in {"stale", "all"}, Plan(s) PROVE UNCHANGED <<staged, sidecar, pc, work>>
  BY <1>1 DEF Plan
<1>2. ASSUME NEW k \in {"build", "flash", "cli_update"}, StartCli(k)
      PROVE  UNCHANGED <<staged, sidecar>> /\ pc = "idle" /\ pc' \in {"make", "flash"}
  BY <1>2 DEF StartCli
<1>3. CASE Submit
  <2>1. pc' \in {"make", "choose", "flash"} BY <1>3 DEF Submit
  <2> QED BY <1>3, <2>1 DEF Submit
<1>4. CASE Refused BY <1>4 DEF Refused
<1>5. CASE Flashing
  BY <1>5 DEF Flashing, Choose, Write, WriteFails, Record, FlashReturns, EnterBootloader,
              CannotFlash
<1>6. CASE GiveUp BY <1>6 DEF GiveUp
<1>7. CASE Dies BY <1>7 DEF Dies, NothingDies
<1>8. CASE Outside BY <1>8 DEF Outside, Pull, SaveConfig, Menuconfig, Unplug, PowerOn
<1>9. CASE UNCHANGED vars BY <1>9 DEF vars
<1> QED BY <1>1, <1>2, <1>3, <1>4, <1>5, <1>6, <1>7, <1>8, <1>9 DEF Next, Outside

\* The sidecar keeps describing the staged binary.
LEMMA NoteStep ==
  ASSUME Inv, NoteOfStaged, [Next]_vars, NothingDies
  PROVE  NoteOfStaged'
<1> USE DEF NoteOfStaged, Rewriting, files, boards, job
<1>1. CASE StartMake BY <1>1 DEF StartMake
<1>2. CASE MakeDone BY <1>2 DEF MakeDone
<1>3. CASE MakeFails BY <1>3 DEF MakeFails
<1>4. CASE HashConfig BY <1>4 DEF HashConfig
<1>5. CASE OpenStaged BY <1>5 DEF OpenStaged
<1>6. CASE FillStaged BY <1>6 DEF FillStaged
<1>7. CASE OpenSidecar
  <2>1. work \in Sidecars BY <1>7 DEF OpenSidecar, Inv, Prepared, BuildSteps
  <2>2. work'.bin \in {NoFile, staged} BY <1>7, <2>1 DEF OpenSidecar, Sidecars, Seen
  <2> QED BY <1>7, <2>2 DEF OpenSidecar
<1>8. CASE WriteSidecar
  <2>1. pc' \in {"choose", "flash", "idle"} BY <1>8 DEF WriteSidecar, BuildReturns
  <2> QED BY <1>8, <2>1 DEF WriteSidecar
<1>9. CASE SidecarFails BY <1>9 DEF SidecarFails, NothingDies
<1>10. CASE ~Building BY <1>10, Elsewhere DEF BuildSteps
<1> QED BY <1>1, <1>2, <1>3, <1>4, <1>5, <1>6, <1>7, <1>8, <1>9, <1>10 DEF Building

NoteInv == Inv /\ NoteOfStaged

LEMMA NoteInvariance == Spec => [](NothingDies => NoteInv)
<1>1. Init => (NothingDies => NoteInv)
  BY InitInv DEF Init, NoteInv, NoteOfStaged, Rewriting
<1>2. Inv /\ (NothingDies => NoteInv) /\ [Next]_vars => (NothingDies => NoteInv)'
  BY InvStep, NoteStep, PremisesStay DEF NoteInv
<1> QED BY <1>1, <1>2, Invariance, PTL DEF Spec

\* The log keeps describing what the boards hold.
LEMMA LogStep ==
  ASSUME NoteInv, LogOfHeld, [Next]_vars, AllRecorded
  PROVE  LogOfHeld'
<1> USE DEF LogOfHeld, LogTells, files, boards, job, NoteInv, Inv, TypeOK
<1>1. CASE Building
  BY <1>1 DEF Building, StartMake, MakeDone, MakeFails, HashConfig, OpenStaged, FillStaged,
              OpenSidecar, WriteSidecar, SidecarFails, BuildReturns
<1>2. ASSUME NEW s \in {"stale", "all"}, Plan(s) PROVE LogOfHeld'
  BY <1>2 DEF Plan
<1>3. ASSUME NEW k \in {"build", "flash", "cli_update"}, StartCli(k) PROVE LogOfHeld'
  BY <1>3 DEF StartCli
<1>4. CASE Submit
  <2>1. pc = "idle" /\ pc' \in {"make", "choose", "flash"} BY <1>4 DEF Submit
  <2> QED BY <1>4, <2>1 DEF Submit
<1>5. CASE Refused BY <1>5 DEF Refused
<1>6. CASE Choose BY <1>6 DEF Choose
<1>7. CASE Write BY <1>7 DEF Write, AllRecorded
<1>8. CASE WriteFails BY <1>8 DEF WriteFails
<1>9. CASE Record
  <2>1. PICK h : log' = [log EXCEPT ![board] = Entry(h)]
    BY <1>9 DEF Record
  <2>2. Entry(h).bin \in {NoFile, staged}
    BY <1>9 DEF Record, Entry, NoteOfStaged, Rewriting
  <2>3. held[board] = staged BY <1>9 DEF Record
  <2> QED BY <1>9, <2>1, <2>2, <2>3 DEF Record
<1>10. CASE FlashReturns BY <1>10 DEF FlashReturns
<1>11. ASSUME NEW b \in Boards, EnterBootloader(b) \/ CannotFlash(b) PROVE LogOfHeld'
  BY <1>11 DEF EnterBootloader, CannotFlash
<1>12. CASE GiveUp BY <1>12 DEF GiveUp
<1>13. CASE Dies BY <1>13 DEF Dies, AllRecorded, NothingDies
<1>14. CASE Outside BY <1>14 DEF Outside, Pull, SaveConfig, Menuconfig, Unplug, PowerOn
<1>15. CASE UNCHANGED vars BY <1>15 DEF vars
<1> QED BY <1>1, <1>2, <1>3, <1>4, <1>5, <1>6, <1>7, <1>8, <1>9, <1>10, <1>11, <1>12,
           <1>13, <1>14, <1>15 DEF Next, Flashing, Outside

\* As long as no operation is killed, no note fails to be written and every flash
\* is recorded, a board that flash_state reports up to date on the strength of the
\* flash log holds the staged binary.
THEOREM UpToDateIsSame == Spec => []UpToDateMeansSame
<1>1. Init => (AllRecorded => LogOfHeld)
  BY DEF Init, LogOfHeld, LogTells
<1>2. (NothingDies => NoteInv) /\ (AllRecorded => LogOfHeld) /\ [Next]_vars
        => (AllRecorded => LogOfHeld)'
  BY LogStep, PremisesStay DEF AllRecorded
<1>3. AllRecorded => NothingDies
  BY DEF AllRecorded
<1>4. ~AllRecorded => UpToDateMeansSame
  BY DEF UpToDateMeansSame
<1>5. NoteInv /\ LogOfHeld => UpToDateMeansSame
  <2> SUFFICES ASSUME NoteInv, LogOfHeld, Quiet, NEW b \in Boards, UpToDate(b),
                      Believed(b), log[b].bin # NoFile, sidecar # NoFile,
                      sidecar.bin # NoFile
               PROVE  held[b] = staged
    BY DEF UpToDateMeansSame
  <2>1. sidecar.bin = staged
    BY DEF NoteInv, NoteOfStaged, Quiet, BuildSteps, Rewriting
  <2>2. log[b].bin = staged BY <2>1 DEF UpToDate, ArtifactChanged
  <2>3. held[b] # Torn
    BY ProvenanceAssumption DEF UpToDate, NoteInv, Inv, TypeOK
  <2> QED BY <2>2, <2>3 DEF LogOfHeld, LogTells, Believed
<1> QED BY <1>1, <1>2, <1>3, <1>4, <1>5, NoteInvariance, PTL DEF Spec

-----------------------------------------------------------------------------
\* A build keeps working for the tree and the answers as they are.
LEMMA BuildStep ==
  ASSUME NoteInv, BuildOfHere, [Next]_vars, NothingDies, NothingMoves, AllReadable
  PROVE  BuildOfHere'
<1> USE DEF BuildOfHere, Here, Rewriting, files, boards, job, NoteInv, NoteOfStaged
<1>0. \A x : Seen(x) = {x}
  BY DEF Seen, AllReadable
<1>1. CASE StartMake BY <1>1 DEF StartMake
<1>2. CASE MakeDone
  <2>1. work \in Sidecars /\ work.bin = Here
    BY <1>2 DEF MakeDone, Inv, Prepared, BuildSteps
  <2>2. work'.bin = Here BY <1>2, <2>1 DEF MakeDone, Sidecars
  <2> QED BY <1>2, <2>2 DEF MakeDone
<1>3. CASE MakeFails BY <1>3 DEF MakeFails
<1>4. CASE HashConfig
  <2>1. work \in Sidecars /\ work.bin = Here
    BY <1>4 DEF HashConfig, Inv, Prepared, BuildSteps
  <2>2. work' = [work EXCEPT !.config = config]
    BY <1>0, <1>4 DEF HashConfig
  <2>3. work'.bin = Here /\ work'.config = config BY <2>1, <2>2, <1>4 DEF HashConfig, Sidecars
  <2> QED BY <1>4, <2>3 DEF HashConfig
<1>5. CASE OpenStaged BY <1>5 DEF OpenStaged
<1>6. CASE FillStaged BY <1>6 DEF FillStaged
<1>7. CASE OpenSidecar
  <2>1. work \in Sidecars /\ staged = Here /\ work.config = config
    BY <1>7 DEF OpenSidecar, Inv, Prepared, BuildSteps
  <2>2. work' = [work EXCEPT !.commit = head, !.bin = staged]
    BY <1>0, <1>7 DEF OpenSidecar
  <2>3. work'.commit = head /\ work'.config = config /\ work'.bin = staged
    BY <2>1, <2>2 DEF Sidecars
  <2> QED BY <1>7, <2>1, <2>3 DEF OpenSidecar
<1>8. CASE WriteSidecar
  <2>1. pc' \in {"choose", "flash", "idle"} BY <1>8 DEF WriteSidecar, BuildReturns
  <2>2. head # NoFile /\ config # NoFile BY ProvenanceAssumption DEF Inv, TypeOK
  <2> QED BY <1>8, <2>1, <2>2 DEF WriteSidecar
<1>9. CASE SidecarFails BY <1>9 DEF SidecarFails, NothingDies
<1>10. CASE ~Building
  <2>1. CASE pc \in BuildSteps \ {"make"} /\ pc' = pc
    <3>1. UNCHANGED <<head, config>>
      BY <1>10, <2>1 DEF NothingMoves, BuildSteps, Next, Plan, StartCli, Submit, Refused,
         Flashing, Choose, Write, WriteFails, Record, FlashReturns, EnterBootloader,
         CannotFlash, GiveUp, Dies, Pull, SaveConfig, Menuconfig, Unplug, PowerOn, vars
    <3> QED BY <1>10, <2>1, <3>1, Elsewhere DEF BuildSteps
  <2>2. CASE pc \notin BuildSteps \ {"make"} /\ pc' = pc
    BY <1>10, <2>2, Elsewhere DEF BuildSteps
  <2>3. CASE pc' # pc BY <1>10, <2>3, Elsewhere DEF BuildSteps
  <2> QED BY <2>1, <2>2, <2>3 DEF BuildSteps
<1> QED BY <1>1, <1>2, <1>3, <1>4, <1>5, <1>6, <1>7, <1>8, <1>9, <1>10 DEF Building

\* As long as the tree and the answers keep still during a build, no build is cut short,
\* and git and the files always answer, a type that staleness() does not call stale has
\* a staged binary of the commit checked out and the answers saved.
THEOREM FreshIsCurrent == Spec => []FreshMeansCurrentWhenCalm
<1> DEFINE Calm == NothingDies /\ NothingMoves /\ AllReadable
<1>1. Init => (Calm => BuildOfHere)
  BY DEF Init, BuildOfHere, Rewriting
<1>2. (NothingDies => NoteInv) /\ (Calm => BuildOfHere) /\ [Next]_vars
        => (Calm => BuildOfHere)'
  BY BuildStep, PremisesStay
<1>3. Calm => NothingDies
  OBVIOUS
<1>4. Calm /\ NoteInv /\ BuildOfHere => FreshMeansCurrent
  <2> SUFFICES ASSUME AllReadable, NoteInv, BuildOfHere, Quiet, MaySayFresh
               PROVE  staged = Here
    BY DEF FreshMeansCurrent, Here
  <2>1. Fresh(config, head)
    BY DEF MaySayFresh, Seen, AllReadable
  <2>2. pc \notin Rewriting /\ sidecar \in Sidecars /\ config # NoFile /\ head # NoFile
    BY <2>1, ProvenanceAssumption
       DEF Quiet, BuildSteps, Rewriting, Fresh, NoteInv, Inv, TypeOK
  <2>3. /\ sidecar.commit # NoFile /\ sidecar.config # NoFile
        /\ sidecar.bin = [commit |-> sidecar.commit, config |-> sidecar.config]
    BY <2>1, <2>2 DEF BuildOfHere, Fresh
  <2>4. sidecar.commit = head /\ sidecar.config = config
    BY <2>1, <2>2, <2>3 DEF Fresh, Agree
  <2>5. sidecar.bin = Here /\ Here \in Bins
    BY <2>3, <2>4 DEF Here, NoteInv, Inv, TypeOK, Bins
  <2>6. sidecar.bin \in {NoFile, staged}
    BY <2>1, <2>2 DEF NoteInv, NoteOfStaged, Fresh
  <2> QED BY <2>5, <2>6, ProvenanceAssumption
<1>5. (Calm => FreshMeansCurrent) => FreshMeansCurrentWhenCalm
  BY DEF FreshMeansCurrentWhenCalm
<1> HIDE DEF Calm
<1> QED BY <1>1, <1>2, <1>3, <1>4, <1>5, NoteInvariance, PTL DEF Spec

-----------------------------------------------------------------------------
(* What an operation did is done.                                           *)

\* The note that is put together tells of the tree and of the answers.
NoteIsOfHere ==
  NothingMoves =>
    /\ pc \in {"copy", "copying", "sidecar", "dump"} => work.config \in {NoFile, config}
    /\ pc = "dump" => work.commit \in {NoFile, head} /\ staged # NoFile /\ sidecar = NoFile

\* No board is written twice in an operation, and those that were hold the staged
\* binary and are recorded with it.
WrittenAreDone ==
  /\ pc \in BuildSteps \cup {"choose"} => flashed = {}
  /\ pc \in {"write", "record"} => board \notin flashed \cup todo
  /\ pc = "record" => held[board] = staged
  /\ pc \in {"flash", "write", "record"} =>
       /\ flashed \cap todo = {}
       /\ \A b \in flashed :
            held[b] = staged /\ (sidecar = NoFile \/ log[b] = NoFile \/ log[b].bin = sidecar.bin)

LEMMA NoteIsOfHereStep ==
  ASSUME Inv, NoteIsOfHere, [Next]_vars
  PROVE  NoteIsOfHere'
<1> SUFFICES ASSUME NothingMoves PROVE NoteIsOfHere'
  BY PremisesStay DEF NoteIsOfHere
<1> USE DEF NoteIsOfHere, files, boards, job
<1>1. CASE Building
  <2>1. CASE HashConfig
    <3>1. work \in Sidecars BY <2>1 DEF HashConfig, Inv, Prepared, BuildSteps
    <3>2. PICK c \in {NoFile, config} : work' = [work EXCEPT !.config = c]
      BY <2>1 DEF HashConfig, Seen
    <3>3. work'.config \in {NoFile, config} BY <3>1, <3>2 DEF Sidecars
    <3> QED BY <2>1, <3>3 DEF HashConfig
  <2>2. CASE OpenSidecar
    <3>1. work \in Sidecars /\ staged \in Bins
      BY <2>2 DEF OpenSidecar, Inv, Prepared, BuildSteps
    <3>2. PICK h \in {NoFile, head}, b \in {NoFile, staged} :
            work' = [work EXCEPT !.commit = h, !.bin = b]
      BY <2>2 DEF OpenSidecar, Seen
    <3>3. work'.commit \in {NoFile, head} /\ work'.config = work.config
      BY <3>1, <3>2 DEF Sidecars
    <3>4. staged # NoFile
      BY <3>1, ProvenanceAssumption
    <3> QED BY <2>2, <3>3, <3>4 DEF OpenSidecar
  <2>3. CASE StartMake \/ MakeDone \/ MakeFails \/ WriteSidecar \/ SidecarFails
    <3>1. pc' \notin {"copy", "copying", "sidecar", "dump"}
      BY <2>3 DEF StartMake, MakeDone, MakeFails, WriteSidecar, SidecarFails, BuildReturns
    <3> QED BY <3>1
  <2>4. CASE OpenStaged \/ FillStaged
    BY <2>4 DEF OpenStaged, FillStaged
  <2> QED BY <1>1, <2>1, <2>2, <2>3, <2>4 DEF Building
<1>2. CASE pc \in BuildSteps /\ pc' = pc /\ ~Building
  <2>1. UNCHANGED <<head, config, staged, sidecar, work>>
    BY <1>2 DEF NothingMoves, BuildSteps, Next, Plan, StartCli, Submit, Refused,
       Flashing, Choose, Write, WriteFails, Record, FlashReturns, EnterBootloader,
       CannotFlash, GiveUp, Dies, Pull, SaveConfig, Menuconfig, Unplug, PowerOn, vars
  <2> QED BY <1>2, <2>1
<1>3. CASE (pc \notin BuildSteps \/ pc' # pc) /\ ~Building
  <2>1. pc' \notin {"copy", "copying", "sidecar", "dump"}
    BY <1>3 DEF BuildSteps, Next, Plan, StartCli, Submit, Refused, Flashing, Choose, Write,
       WriteFails, Record, FlashReturns, EnterBootloader, CannotFlash, GiveUp, Dies, Pull,
       SaveConfig, Menuconfig, Unplug, PowerOn, vars
  <2> QED BY <2>1
<1> QED BY <1>1, <1>2, <1>3

LEMMA WrittenAreDoneStep ==
  ASSUME Inv, WrittenAreDone, [Next]_vars
  PROVE  WrittenAreDone'
<1> USE DEF WrittenAreDone, files, boards, job, BuildSteps
<1>1. ASSUME NEW s \in {"stale", "all"}, Plan(s) PROVE WrittenAreDone'
  BY <1>1 DEF Plan
<1>2. ASSUME NEW k \in {"build", "flash", "cli_update"}, StartCli(k) PROVE WrittenAreDone'
  BY <1>2 DEF StartCli
<1>3. CASE Submit
  <2>1. pc = "idle" /\ pc' \in {"make", "choose", "flash"} /\ flashed' = {}
    BY <1>3 DEF Submit
  <2> QED BY <2>1
<1>4. CASE Refused \/ Pull \/ SaveConfig \/ Menuconfig
  BY <1>4 DEF Refused, Pull, SaveConfig, Menuconfig
<1>5. CASE Building
  <2>1. pc \in BuildSteps /\ flashed' = {} /\ pc' \in BuildSteps \cup {"choose", "flash", "idle"}
    BY <1>5 DEF Building, StartMake, MakeDone, MakeFails, HashConfig, OpenStaged, FillStaged,
                OpenSidecar, WriteSidecar, SidecarFails, BuildReturns
  <2> QED BY <2>1
<1>6. CASE Choose
  BY <1>6 DEF Choose
<1>7. ASSUME NEW b \in Boards, EnterBootloader(b) PROVE WrittenAreDone'
  BY <1>7 DEF EnterBootloader
<1>8. ASSUME NEW b \in Boards, CannotFlash(b) PROVE WrittenAreDone'
  BY <1>8 DEF CannotFlash
<1>9. CASE Write \/ WriteFails
  <2>1. \A b \in Boards \ {board} : held'[b] = held[b]
    BY <1>9 DEF Write, WriteFails, Inv, TypeOK
  <2>2. flashed \subseteq Boards
    BY DEF Inv, TypeOK
  <2>3. CASE Write
    <3>1. held'[board] = staged
      BY <2>3 DEF Write, Inv, TypeOK
    <3> QED BY <2>1, <2>2, <2>3, <3>1 DEF Write
  <2>4. CASE WriteFails
    BY <2>1, <2>2, <2>4 DEF WriteFails
  <2> QED BY <1>9, <2>3, <2>4
<1>10. CASE Record
  <2>1. /\ pc = "record" /\ pc' = "flash" /\ flashed' = flashed \cup {board}
        /\ UNCHANGED <<todo, held, staged, sidecar, board>>
    BY <1>10 DEF Record
  <2>2. PICK h : log' = [log EXCEPT ![board] = Entry(h)]
    BY <1>10 DEF Record
  <2>3. /\ log'[board] = Entry(h) /\ \A b \in Boards \ {board} : log'[b] = log[b]
        /\ flashed \subseteq Boards
    BY <2>2 DEF Inv, TypeOK
  <2>4. sidecar = NoFile \/ Entry(h).bin = sidecar.bin
    BY DEF Entry
  <2> QED BY <2>1, <2>3, <2>4
<1>11. CASE FlashReturns \/ GiveUp \/ Dies
  BY <1>11 DEF FlashReturns, GiveUp, Dies
<1>12. ASSUME NEW b \in Boards, Unplug(b) \/ PowerOn(b) PROVE WrittenAreDone'
  BY <1>12 DEF Unplug, PowerOn
<1>13. CASE UNCHANGED vars
  BY <1>13 DEF vars
<1> QED BY <1>1, <1>2, <1>3, <1>4, <1>5, <1>6, <1>7, <1>8, <1>9, <1>10, <1>11, <1>12, <1>13
        DEF Next, Flashing

\* A build that runs to its end is fresh unless the tree or the answers moved under
\* it, and a batch that runs to its end leaves no board it flashed to be flashed again:
\* OperationsSettle, for any boards, commits and configurations.
THEOREM WhatIsDoneStaysDone == Spec => OperationsSettle
<1> DEFINE Settling == Inv /\ NoteIsOfHere /\ WrittenAreDone
<1>1. Init => Settling
  BY InitInv DEF Init, NoteIsOfHere, WrittenAreDone, BuildSteps
<1>2. Settling /\ [Next]_vars => Settling'
  BY InvStep, NoteIsOfHereStep, WrittenAreDoneStep
<1>3. ASSUME Settling, Next PROVE BuildSettles
  <2> SUFFICES ASSUME NothingMoves, pc = "dump", sidecar' # NoFile PROVE ~MaySayStale'
    BY DEF BuildSettles
  <2> USE DEF files, boards, job, NoteIsOfHere
  <2>1. /\ sidecar = NoFile /\ staged # NoFile
        /\ work.config \in {NoFile, config} /\ work.commit \in {NoFile, head}
    BY <1>3
  <2>2. WriteSidecar
    BY <1>3, <2>1 DEF Next, Plan, StartCli, Submit, Refused, Building, StartMake, MakeDone,
       MakeFails, HashConfig, OpenStaged, FillStaged, OpenSidecar, SidecarFails, Flashing,
       Choose, Write, WriteFails, Record, FlashReturns, EnterBootloader, CannotFlash, GiveUp,
       Dies, Pull, SaveConfig, Menuconfig, Unplug, PowerOn
  <2>3. UNCHANGED <<head, config, staged>> /\ sidecar' = work
    BY <2>2 DEF WriteSidecar
  <2>4. Seen(config)' \subseteq {NoFile, config} /\ Seen(head)' \subseteq {NoFile, head}
    BY <2>3 DEF Seen
  <2> QED BY <2>1, <2>3, <2>4, <1>3 DEF MaySayStale, Fresh, Agree
<1>4. ASSUME Settling, Next PROVE FlashSettles
  <2> SUFFICES ASSUME pc = "flash", pc' = "idle", NEW b \in flashed
               PROVE  held[b] = staged /\ ~ArtifactChanged(b)
    BY DEF FlashSettles
  <2> QED BY <1>4 DEF WrittenAreDone, ArtifactChanged, Believed
<1> HIDE DEF Settling
<1>5. Settling /\ [Next]_vars => [BuildSettles /\ FlashSettles]_vars
  BY <1>3, <1>4
<1> QED BY <1>1, <1>2, <1>5, PTL DEF Spec, OperationsSettle
=============================================================================
