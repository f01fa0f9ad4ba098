-------------------------- MODULE AdoptionProofs ---------------------------
(***************************************************************************)
(* For any number of boards, types, request threads and CLI processes:     *)
(* edits do not undo each other unless one without the lock meets another, *)
(* no board is tracked under two types, and a pairing acts once.           *)
(***************************************************************************)
EXTENDS Adoption, TLAPS, FiniteSetTheorems

USE RegistryAssumption, AdoptionAssumption

\* A registry tracks boards under its own types only.
Sound(f) == f \in Content /\ \A t \in Types \ f.types : f.tracked[t] = {}

\* Where an editor is says what its edit is, and who owns the lock.
Stage(x) ==
  /\ Sound(text[x])
  /\ pc[x] \in {"locking", "locked", "saved"} => edit[x].op \notin {"set", "none"} /\ x \notin Clis
  /\ pc[x] = "settings" => edit[x].op = "set" /\ x \in Requests
  /\ pc[x] = "loaded" => edit[x].op # "none"
  /\ pc[x] \in {"locked", "loaded", "saved"} /\ ~Unlocked(x) => lock = x
  /\ edit[x].op \in {"adopt", "keep"} <=> x = Watcher /\ edit[x].op # "none"
  /\ x = Watcher /\ Busy(x) => watch.pc = "adopting"

JobKnowsItsBoard == job.pc # "idle" => job.type \in Types /\ job.key \in Keys

WatchTypeOK ==
  /\ watch \in [pc : {"idle", "look", "next", "adopting", "forget", "forgetting", "pruning"},
                last : (SUBSET Boards) \cup {Never}, known : SUBSET Types,
                seen : SUBSET Boards, todo : SUBSET Boards, at : Boards \cup {NoBoard},
                data : Pairings]
  /\ watch.todo \subseteq watch.seen

\* What TypeOK says beyond the registry.
AdoptionTypeOK ==
  /\ bus \in [Boards -> {"away", "dfu", "katapult"}]
  /\ boot \in [Boards -> Types \cup {NoType}]
  /\ pairings \in Pairings
  /\ job \in [pc : {"idle", "writing", "record", "recording", "waiting"},
              type : Types \cup {NoType}, key : Keys \cup {NoKey}, data : Pairings]
  /\ WatchTypeOK
  /\ acted \subseteq Keys
  /\ installs \in 0..MaxInstalls /\ moves \in 0..MaxMoves
  /\ scenario \in Scenarios

RegistryInv == RegistryTypeOK /\ \A x \in Editors : Stage(x)

Inv == RegistryInv /\ AdoptionTypeOK /\ JobKnowsItsBoard

-----------------------------------------------------------------------------
LEMMA ApplySound ==
  ASSUME NEW e \in Edit, NEW f, Sound(f),
         e.op \in {"track", "untrack", "adopt", "update"} => e.type \in f.types
  PROVE  Sound(Apply(e, f))
<1> USE DEF Sound, Content
<1>1. CASE e.op \in {"track", "adopt"}
  <2>1. e.type \in Types /\ e.board \in Boards
    BY <1>1 DEF Edit
  <2> QED BY <1>1, <2>1 DEF Apply
<1>2. CASE e.op = "untrack"
  <2>1. e.type \in Types /\ e.board \in Boards
    BY <1>2 DEF Edit
  <2> QED BY <1>2, <2>1 DEF Apply
<1>3. CASE e.op = "add"
  <2>1. e.type \in Types
    BY <1>3 DEF Edit
  <2> QED BY <1>3, <2>1 DEF Apply
<1>4. CASE e.op \in {"drop", "purge"}
  <2>1. e.type \in Types
    BY <1>4 DEF Edit
  <2> QED BY <1>4, <2>1 DEF Apply
<1>5. CASE e.op = "update"
  <2>1. e.type \in Types
    BY <1>5 DEF Edit
  <2> QED BY <1>5, <2>1 DEF Apply
<1>6. CASE e.op = "set"
  <2>1. e.option \in Options
    BY <1>6 DEF Edit
  <2> QED BY <1>6, <2>1 DEF Apply
<1>7. CASE e.op \notin {"track", "adopt", "untrack", "add", "drop", "purge", "update", "set"}
  BY <1>7 DEF Apply
<1> QED BY <1>1, <1>2, <1>3, <1>4, <1>5, <1>6, <1>7

LEMMA BlankSound == Sound(Blank) /\ Sound([Blank EXCEPT !.types = Types])
BY DEF Sound, Blank, Content

LEMMA RegistryStepInv ==
  ASSUME RegistryInv, NEW x \in Editors, EditorStep(x), watch' = watch
  PROVE  RegistryInv'
<1> USE DEF RegistryInv, RegistryTypeOK, Stage, Busy, Go
<1>0. Editors = Requests \cup Clis \cup {Watcher} /\ Sound(file)
  BY DEF Editors, Sound
<1>1. CASE TakeLock(x)
  <2>1. x \in Requests \cup {Watcher} /\ edit[x].op # "set"
    BY <1>0, <1>1 DEF TakeLock
  <2> QED BY <1>0, <1>1, <2>1 DEF TakeLock, Unlocked
<1>2. CASE LockBusy(x)
  BY <1>0, <1>2 DEF LockBusy, Ended, Dropped, NoEdit, Unlocked, Edit
<1>3. CASE Load(x)
  <2> DEFINE e == WhatIsLeftToDo(edit[x], file)
  <2>1. e \in Edit /\ e.op \notin {"none", "set"}
        /\ (e.op \in {"adopt", "keep"} <=> edit[x].op \in {"adopt", "keep"})
        /\ Unlocked(x) = (x \in Clis \/ e.op = "set")
    BY <1>3 DEF Load, WhatIsLeftToDo, Edit, Unlocked
  <2>2. edit' = [edit EXCEPT ![x] = e] /\ text' = [text EXCEPT ![x] = Apply(e, file)]
    BY <1>3 DEF Load
  <2>3. e.op \in {"track", "untrack", "adopt", "update"} => e.type \in file.types
    BY <1>3 DEF Load, Accepts, PanelAccepts, WhatIsLeftToDo, Edit
  <2>4. Sound(Apply(e, file))
    BY <1>0, <2>1, <2>3, ApplySound
  <2> QED BY <1>0, <1>3, <2>1, <2>2, <2>4 DEF Load, Unlocked, Sound
<1>4. CASE Refuse(x)
  BY <1>0, <1>4 DEF Refuse, Ended, Dropped, NoEdit, Unlocked, Edit
<1>5. CASE LoadForSettings(x)
  <2>1. Apply(edit[x], text[x]).updater \in SUBSET Options
    BY <1>5 DEF LoadForSettings, Apply, Edit, Sound, Content
  <2>2. Sound([file EXCEPT !.updater = Apply(edit[x], text[x]).updater])
    BY <1>0, <2>1 DEF Sound, Content
  <2> QED BY <1>0, <1>5, <2>2 DEF LoadForSettings, Unlocked, Sound
<1>6. CASE Save(x)
  <2>1. Sound(text[x]) /\ Sound(Blank)
    BY BlankSound
  <2> QED BY <1>0, <1>6, <2>1 DEF Save, Unlocked, Dropped, NoEdit, Edit, Sound
<1>7. CASE Release(x)
  BY <1>0, <1>7 DEF Release, Dropped, NoEdit, Unlocked, Edit
<1> QED BY <1>1, <1>2, <1>3, <1>4, <1>5, <1>6, <1>7 DEF EditorStep

LEMMA InitInv == Init => Inv
<1> SUFFICES ASSUME Init PROVE Inv
  OBVIOUS
<1>1. Sound(Blank) /\ Sound(file) /\ file.types = Types
  BY BlankSound DEF Init, RegistryInit, Blank
<1>2. RegistryTypeOK
  BY <1>1 DEF Init, RegistryInit, RegistryTypeOK, Sound, NoEdit, Edit, Editors
<1>3. /\ scenario.bus \in [Boards -> {"away", "dfu"}]
      /\ scenario.boot \in [Boards -> Types \cup {NoType}]
  BY DEF Init
<1>4. AdoptionTypeOK
  <2>1. NoPairings \in Pairings
    BY DEF Pairings, NoPairings, NoPairing
  <2>2. job \in [pc : {"idle", "writing", "record", "recording", "waiting"},
                type : Types \cup {NoType}, key : Keys \cup {NoKey}, data : Pairings]
    BY <2>1 DEF Init, IdleJob
  <2>4. /\ bus \in [Boards -> {"away", "dfu", "katapult"}]
        /\ boot \in [Boards -> Types \cup {NoType}]
        /\ pairings \in Pairings /\ acted \subseteq Keys /\ scenario \in Scenarios
    BY <1>3, <2>1 DEF Init
  <2>5. installs \in 0..MaxInstalls /\ moves \in 0..MaxMoves
    BY DEF Init
  <2>6. watch = [pc |-> "idle", last |-> Never, known |-> {}, seen |-> {}, todo |-> {},
                 at |-> NoBoard, data |-> NoPairings]
    BY DEF Init, Quiet
  <2>7. /\ watch \in [pc : {"idle", "look", "next", "adopting", "forget", "forgetting", "pruning"},
                      last : (SUBSET Boards) \cup {Never}, known : SUBSET Types,
                      seen : SUBSET Boards, todo : SUBSET Boards, at : Boards \cup {NoBoard},
                      data : Pairings]
        /\ watch.todo \subseteq watch.seen
    BY <2>1, <2>6
  <2> QED BY <2>2, <2>4, <2>5, <2>7 DEF AdoptionTypeOK, WatchTypeOK
<1>5. \A x \in Editors : Stage(x)
  BY <1>1 DEF Init, RegistryInit, Stage, NoEdit, Busy
<1> QED BY <1>2, <1>4, <1>5 DEF Init, Inv, RegistryInv, JobKnowsItsBoard, IdleJob

LEMMA ScenarioBounds ==
  ASSUME scenario \in Scenarios
  PROVE  /\ scenario.edits \in 0..MaxEdits /\ scenario.installs \in 0..MaxInstalls
         /\ scenario.moves \in 0..MaxMoves /\ scenario.dfuOf \in [Boards -> Keys]
OBVIOUS

\* The users' edits, and any step of an edit.
LEMMA EditInv ==
  ASSUME Inv,
         \/ \E r \in Requests : PanelEdits(r) \/ PanelSets(r)
         \/ \E c \in Clis : CliEdits(c)
         \/ \E x \in Editors : EditStep(x)
  PROVE  Inv'
<1>0. RegistryInv /\ AdoptionTypeOK /\ JobKnowsItsBoard /\ scenario.edits \in 0..MaxEdits
  BY ScenarioBounds DEF Inv, AdoptionTypeOK
<1>a. Editors = Requests \cup Clis \cup {Watcher} /\ Sound(file) /\ edits \in 0..MaxEdits
  BY <1>0 DEF Editors, Sound, RegistryInv, RegistryTypeOK
<1>1. ASSUME NEW r \in Requests, PanelEdits(r)
      PROVE  Inv'
  <2>1. AdoptionTypeOK' /\ JobKnowsItsBoard'
    BY <1>0, <1>1 DEF PanelEdits, envVars, AdoptionTypeOK, WatchTypeOK, JobKnowsItsBoard
  <2>2. PICK e \in Edit : StartPanelEdit(r, e)
    BY <1>1 DEF PanelEdits
  <2>3. edits' \in 0..MaxEdits
    BY <1>0, <1>a, <1>1, <2>2 DEF PanelEdits, StartPanelEdit
  <2>4. r # Watcher /\ r \notin Clis
    OBVIOUS
  <2>5. /\ pc' = [pc EXCEPT ![r] = "locking"] /\ edit' = [edit EXCEPT ![r] = e]
        /\ file' = file /\ lock' = lock /\ text' = text /\ watch' = watch
        /\ pc[r] \in {"idle", "refused"}
        /\ e.op \in {"track", "untrack", "add", "drop", "purge", "update"}
    BY <1>1, <2>2 DEF PanelEdits, StartPanelEdit, Begin, Go, Busy
  <2>6. RegistryInv'
    BY <1>0, <1>a, <2>3, <2>4, <2>5 DEF Busy, RegistryInv, RegistryTypeOK, Stage, Unlocked
  <2> QED BY <2>1, <2>6 DEF Inv
<1>2. ASSUME NEW r \in Requests, PanelSets(r)
      PROVE  Inv'
  <2>1. AdoptionTypeOK' /\ JobKnowsItsBoard'
    BY <1>0, <1>2 DEF PanelSets, envVars, AdoptionTypeOK, WatchTypeOK, JobKnowsItsBoard
  <2>2. PICK option \in Options : StartSettings(r, option)
    BY <1>2 DEF PanelSets
  <2>3. edits' \in 0..MaxEdits
    BY <1>0, <1>a, <1>2, <2>2 DEF PanelSets, StartSettings
  <2>4. r # Watcher /\ r \notin Clis /\ [op |-> "set", option |-> option] \in Edit
    BY DEF Edit
  <2>5. /\ pc' = [pc EXCEPT ![r] = "settings"]
        /\ edit' = [edit EXCEPT ![r] = [op |-> "set", option |-> option]]
        /\ text' = [text EXCEPT ![r] = file]
        /\ file' = file /\ lock' = lock /\ watch' = watch
    BY <1>2, <2>2 DEF PanelSets, StartSettings, Go
  <2>6. RegistryInv'
    BY <1>0, <1>a, <2>3, <2>4, <2>5 DEF Busy, RegistryInv, RegistryTypeOK, Stage, Unlocked, Sound
  <2> QED BY <2>1, <2>6 DEF Inv
<1>3. ASSUME NEW c \in Clis, CliEdits(c)
      PROVE  Inv'
  <2>1. AdoptionTypeOK' /\ JobKnowsItsBoard'
    BY <1>0, <1>3 DEF CliEdits, envVars, AdoptionTypeOK, WatchTypeOK, JobKnowsItsBoard
  <2>2. PICK e \in Edit : StartCliEdit(c, e)
    BY <1>3 DEF CliEdits
  <2>3. edits' \in 0..MaxEdits
    BY <1>0, <1>a, <1>3, <2>2 DEF CliEdits, StartCliEdit
  <2>4. c # Watcher /\ e.op \in {"track", "untrack", "add", "drop"}
    BY <2>2 DEF StartCliEdit
  <2>5. Sound(Apply(e, file))
    BY <1>a, <2>2, ApplySound DEF StartCliEdit, CliAccepts
  <2>6. /\ pc' = [pc EXCEPT ![c] = "loaded"] /\ edit' = [edit EXCEPT ![c] = e]
        /\ text' = [text EXCEPT ![c] = Apply(e, file)]
        /\ file' = file /\ lock' = lock /\ watch' = watch
    BY <1>3, <2>2 DEF CliEdits, StartCliEdit, Go
  <2>7. RegistryInv'
    BY <1>0, <1>a, <2>3, <2>4, <2>5, <2>6
       DEF Busy, RegistryInv, RegistryTypeOK, Stage, Unlocked, Sound
  <2> QED BY <2>1, <2>7 DEF Inv
<1>4. ASSUME NEW x \in Editors, EditStep(x)
      PROVE  Inv'
  <2>1. RegistryInv'
    BY <1>0, <1>4, RegistryStepInv DEF EditStep
  <2>2. acted' \subseteq Keys
    <3>1. CASE x = Watcher /\ pc[x] = "loaded" /\ edit[x].op = "adopt"
      <4>1. edit[x] \in Edit
        BY <1>0 DEF RegistryInv, RegistryTypeOK
      <4>2. edit[x].board \in Boards
        BY <3>1, <4>1 DEF Edit
      <4>3. DfuOf(edit[x].board) \in Keys
        BY <1>0, <4>2, ScenarioBounds DEF DfuOf, AdoptionTypeOK
      <4> QED BY <1>0, <1>4, <4>3 DEF EditStep, AdoptionTypeOK
    <3> QED BY <1>0, <1>4, <3>1 DEF EditStep, AdoptionTypeOK
  <2>3. UNCHANGED <<bus, boot, pairings, job, watch, installs, moves, scenario>>
    BY <1>4 DEF EditStep, envVars
  <2>4. AdoptionTypeOK' /\ JobKnowsItsBoard'
    BY <1>0, <2>2, <2>3 DEF AdoptionTypeOK, WatchTypeOK, JobKnowsItsBoard, Pairings
  <2> QED BY <2>1, <2>4 DEF Inv
<1> QED BY <1>1, <1>2, <1>3, <1>4

\* Whoever leaves the registry and the watcher alone leaves RegistryInv alone.
LEMMA RegistryRests ==
  ASSUME RegistryInv, UNCHANGED regVars, watch'.pc = watch.pc
  PROVE  RegistryInv'
BY DEF RegistryInv, RegistryTypeOK, Stage, regVars, Busy, Unlocked, Sound

\* The watcher's steps outside an adoption: it is not Busy.
LEMMA RegistryRestsForWatcher ==
  ASSUME RegistryInv, UNCHANGED regVars, watch.pc # "adopting"
  PROVE  RegistryInv'
BY DEF RegistryInv, RegistryTypeOK, Stage, regVars, Busy, Unlocked, Sound

LEMMA PairingUpdates ==
  ASSUME NEW p \in Pairings, NEW k \in Keys, NEW t \in Types \cup {NoType}, NEW old \in BOOLEAN
  PROVE  [p EXCEPT ![k] = [type |-> t, old |-> old]] \in Pairings
BY DEF Pairings

LEMMA JobInv == Inv /\ JobStep => Inv'
<1> SUFFICES ASSUME Inv, JobStep PROVE Inv'
  OBVIOUS
<1> USE DEF Inv, AdoptionTypeOK, WatchTypeOK, JobKnowsItsBoard, JobGoes, JobOnly, envVars
<1>0. NoPairings \in Pairings
  BY DEF NoPairings, Pairings, NoPairing
<1>1. ASSUME NEW b \in Boards, WriteBootloader(b)
      PROVE  Inv'
  <2>1. RegistryInv'
    BY <1>1, RegistryRests DEF WriteBootloader
  <2> QED BY <1>1, <2>1 DEF WriteBootloader
<1>a. ASSUME NEW b \in Boards, WriteBreaksOff(b)
      PROVE  Inv'
  <2>1. RegistryInv'
    BY <1>a, RegistryRests DEF WriteBreaksOff
  <2> QED BY <1>0, <1>a, <2>1 DEF WriteBreaksOff, IdleJob
<1>2. CASE WriteRefused
  <2>1. RegistryInv'
    BY <1>2, RegistryRests DEF WriteRefused
  <2> QED BY <1>0, <1>2, <2>1 DEF WriteRefused, IdleJob
<1>3. CASE ReadToRecord
  <2>1. RegistryInv'
    BY <1>3, RegistryRests DEF ReadToRecord
  <2> QED BY <1>3, <2>1 DEF ReadToRecord
<1>4. CASE RecordPairing
  <2>1. RegistryInv'
    BY <1>4, RegistryRests DEF RecordPairing
  <2>2. pairings' \in Pairings
    BY <1>4, PairingUpdates DEF RecordPairing
  <2> QED BY <1>0, <1>4, <2>1, <2>2 DEF RecordPairing
<1>5. CASE JobEnds
  <2>1. RegistryInv'
    BY <1>5, RegistryRests DEF JobEnds
  <2> QED BY <1>0, <1>5, <2>1 DEF JobEnds, IdleJob
<1> QED BY <1>1, <1>a, <1>2, <1>3, <1>4, <1>5 DEF JobStep

\* A new job, boards that come and go, time.
LEMMA OutsideInv ==
  ASSUME Inv,
         \/ \E t \in Types, b \in Boards : AddMcuStart(t, b) \/ CliInstall(t, b)
         \/ \E b \in Boards : Arrive(b) \/ ArriveInDfu(b) \/ Leave(b)
         \/ \E k \in Keys : Expire(k)
  PROVE  Inv'
<1> USE DEF Inv, AdoptionTypeOK, WatchTypeOK, JobKnowsItsBoard, JobOnly, BoardsOnly, Moves, envVars
<1>0. /\ scenario.installs \in 0..MaxInstalls /\ scenario.moves \in 0..MaxMoves
      /\ \A b \in Boards : DfuOf(b) \in Keys /\ NoPairings \in Pairings
  BY ScenarioBounds DEF DfuOf, NoPairings, Pairings, NoPairing
<1>1. ASSUME NEW t \in Types, NEW b \in Boards, AddMcuStart(t, b)
      PROVE  Inv'
  <2>1. RegistryInv'
    BY <1>1, RegistryRests DEF AddMcuStart
  <2>2. installs' \in 0..MaxInstalls
    BY <1>0, <1>1 DEF AddMcuStart
  <2> QED BY <1>0, <1>1, <2>1, <2>2 DEF AddMcuStart
<1>2. ASSUME NEW b \in Boards,
             Arrive(b) \/ ArriveInDfu(b) \/ Leave(b) \/ \E t \in Types : CliInstall(t, b)
      PROVE  Inv'
  <2>1. RegistryInv'
    BY <1>2, RegistryRests DEF Arrive, ArriveInDfu, Leave, CliInstall
  <2>2. moves' \in 0..MaxMoves
    BY <1>0, <1>2 DEF Arrive, ArriveInDfu, Leave, CliInstall
  <2> QED BY <1>2, <2>1, <2>2 DEF Arrive, ArriveInDfu, Leave, CliInstall
<1>3. ASSUME NEW k \in Keys, Expire(k)
      PROVE  Inv'
  <2>1. RegistryInv'
    BY <1>3, RegistryRests DEF Expire
  <2>2. pairings' \in Pairings
    <3>1. pairings[k] \in [type : Types \cup {NoType}, old : BOOLEAN]
      BY DEF Pairings
    <3>2. [pairings[k] EXCEPT !.old = TRUE] \in [type : Types \cup {NoType}, old : BOOLEAN]
      BY <3>1
    <3>3. pairings' = [pairings EXCEPT ![k] = [pairings[k] EXCEPT !.old = TRUE]]
      BY <1>3 DEF Expire
    <3> QED BY <3>2, <3>3 DEF Pairings
  <2> QED BY <1>3, <2>1, <2>2 DEF Expire
<1> QED BY <1>1, <1>2, <1>3

\* All that a step of the watcher may change.
LEMMA WatchKeepsInv ==
  ASSUME Inv, RegistryInv', WatchTypeOK', pairings' \in Pairings, WatchOnly
  PROVE  Inv'
BY DEF Inv, AdoptionTypeOK, JobKnowsItsBoard, WatchOnly, envVars

LEMMA WatchInv ==
  ASSUME Inv, WatchStep \/ Reset
  PROVE  Inv'
<1>0. /\ RegistryInv /\ WatchTypeOK /\ pairings \in Pairings
      /\ NoPairings \in Pairings /\ NoPairing = [type |-> NoType, old |-> FALSE]
      /\ \A b \in Boards : DfuOf(b) \in Keys
      /\ Editors = Requests \cup Clis \cup {Watcher}
  BY ScenarioBounds
     DEF Inv, AdoptionTypeOK, WatchTypeOK, DfuOf, NoPairings, Pairings, NoPairing, Editors
<1>1. ASSUME HandlerReturns PROVE WatchTypeOK'
  BY <1>0, <1>1 DEF HandlerReturns, Quiet, WatchTypeOK
<1>2. CASE Poll
  <2>1. RegistryInv'
    BY <1>0, <1>2, RegistryRestsForWatcher DEF Poll
  <2>2. OnBus \in (SUBSET Boards) \cup {Never}
    BY DEF OnBus
  <2>3. WatchTypeOK'
    BY <1>0, <1>2, <2>2 DEF Poll, WatchTypeOK
  <2> QED BY <1>0, <1>2, <2>1, <2>3, WatchKeepsInv DEF Poll
<1>3. CASE HandlerFails
  <2>1. RegistryInv'
    BY <1>0, <1>3, RegistryRestsForWatcher DEF HandlerFails
  <2> QED BY <1>0, <1>1, <1>3, <2>1, WatchKeepsInv DEF HandlerFails
<1>4. CASE Reset
  <2>1. watch'.pc = watch.pc /\ WatchTypeOK'
    BY <1>0, <1>4 DEF Reset, WatchTypeOK
  <2>2. RegistryInv'
    BY <1>0, <1>4, <2>1, RegistryRests DEF Reset
  <2> QED BY <1>0, <1>4, <2>1, <2>2, WatchKeepsInv DEF Reset
<1>5. CASE Look
  <2>1. RegistryInv'
    BY <1>0, <1>5, RegistryRestsForWatcher DEF Look
  <2>2. /\ OnBus \ AllTracked(file) \subseteq Boards
        /\ Unique(OnBus \ AllTracked(file)) \subseteq OnBus \ AllTracked(file)
        /\ file.types \subseteq Types
    BY <1>0 DEF OnBus, Unique, RegistryInv, RegistryTypeOK, Content
  <2>3. WatchTypeOK'
    <3> DEFINE untracked == OnBus \ AllTracked(file)
    <3>1. CASE pairings = NoPairings
      BY <1>1, <1>5, <3>1 DEF Look
    <3>2. CASE pairings # NoPairings
      <4>1. watch' = [watch EXCEPT !.pc = "next", !.known = file.types, !.seen = untracked,
                                   !.todo = Unique(untracked)]
        BY <1>5, <3>2 DEF Look
      <4> HIDE DEF untracked
      <4>2. untracked \subseteq Boards /\ Unique(untracked) \subseteq untracked
        BY <2>2 DEF untracked
      <4> QED BY <1>0, <2>2, <4>1, <4>2 DEF WatchTypeOK
    <3> QED BY <3>1, <3>2
  <2> QED BY <1>0, <1>5, <2>1, <2>3, WatchKeepsInv DEF Look
<1>6. ASSUME NEW b \in Boards, AdoptNext(b)
      PROVE  Inv'
  <2> DEFINE t == TypeFor(DfuOf(b))
             e == [op |-> "adopt", type |-> t, board |-> b]
  <2>1. CASE t \in watch.known
    <3>1. t \in Types
      BY <1>0, <2>1 DEF WatchTypeOK
    <3>2. e \in Edit /\ e.op = "adopt"
      BY <3>1 DEF Edit
    <3>3. /\ pc' = [pc EXCEPT ![Watcher] = "locking"] /\ edit' = [edit EXCEPT ![Watcher] = e]
          /\ watch' = [watch EXCEPT !.pc = "adopting", !.todo = @ \ {b}, !.at = b]
          /\ file' = file /\ lock' = lock /\ text' = text /\ edits' = edits
          /\ watch.pc = "next"
      BY <1>6, <2>1 DEF AdoptNext, Begin, Go
    <3>4. WatchTypeOK' /\ watch'.pc = "adopting"
      BY <1>0, <3>3 DEF WatchTypeOK
    <3>5. RegistryInv'
      BY <1>0, <3>2, <3>3, <3>4 DEF RegistryInv, RegistryTypeOK, Stage, Busy, Unlocked, Sound
    <3> QED BY <1>0, <1>6, <3>4, <3>5, WatchKeepsInv DEF AdoptNext
  <2>2. CASE t \notin watch.known
    <3>1. RegistryInv'
      BY <1>0, <1>6, <2>2, RegistryRestsForWatcher DEF AdoptNext
    <3>2. WatchTypeOK'
      BY <1>0, <1>6, <2>2 DEF AdoptNext, WatchTypeOK
    <3> QED BY <1>0, <1>6, <3>1, <3>2, WatchKeepsInv DEF AdoptNext
  <2> QED BY <2>1, <2>2
<1>7. CASE AdoptEnds
  <2>1. /\ pc' = [pc EXCEPT ![Watcher] = "idle"] /\ edit' = [edit EXCEPT ![Watcher] = NoEdit]
        /\ file' = file /\ lock' = lock /\ text' = text /\ edits' = edits
    BY <1>7 DEF AdoptEnds
  <2>2. RegistryInv'
    BY <1>0, <2>1 DEF RegistryInv, RegistryTypeOK, Stage, Busy, Unlocked, Sound, NoEdit, Edit
  <2>3. WatchTypeOK'
    BY ZenonT(40), <1>0, <1>7 DEF AdoptEnds, WatchGoes, WatchTypeOK
  <2> QED BY <1>0, <1>7, <2>2, <2>3, WatchKeepsInv DEF AdoptEnds
<1>8. CASE ReadToForget
  <2>1. RegistryInv'
    BY <1>0, <1>8, RegistryRestsForWatcher DEF ReadToForget
  <2>2. WatchTypeOK'
    BY <1>0, <1>8 DEF ReadToForget, WatchTypeOK
  <2> QED BY <1>0, <1>8, <2>1, <2>2, WatchKeepsInv DEF ReadToForget
<1>9. CASE Forget
  <2>1. RegistryInv'
    BY <1>0, <1>9, RegistryRestsForWatcher DEF Forget
  <2>2. WatchTypeOK'
    BY <1>0, <1>9 DEF Forget, WatchTypeOK
  <2>3. watch.data \in Pairings
    BY <1>0 DEF WatchTypeOK
  <2>4. pairings' \in Pairings
    <3> DEFINE key == DfuOf(watch.at)
    <3>1. CASE key \in Keys
      BY <1>0, <1>9, <2>3, <3>1, PairingUpdates DEF Forget
    <3>2. CASE key \notin Keys
      BY <1>0, <1>9, <2>3, <3>2 DEF Forget, Pairings
    <3> QED BY <3>1, <3>2
  <2> QED BY <1>0, <1>9, <2>1, <2>2, <2>4, WatchKeepsInv DEF Forget
<1>10. CASE ReadToPrune
  <2>1. RegistryInv'
    BY <1>0, <1>10, RegistryRestsForWatcher DEF ReadToPrune
  <2>2. WatchTypeOK'
    BY <1>0, <1>10 DEF ReadToPrune, WatchTypeOK
  <2> QED BY <1>0, <1>10, <2>1, <2>2, WatchKeepsInv DEF ReadToPrune
<1>11. CASE Prune
  <2>1. RegistryInv'
    BY <1>0, <1>11, RegistryRestsForWatcher DEF Prune
  <2>2. watch.data \in Pairings
    BY <1>0 DEF WatchTypeOK
  <2>3. pairings' \in Pairings
    BY <1>0, <1>11, <2>2 DEF Prune, Pairings
  <2> QED BY <1>0, <1>1, <1>11, <2>1, <2>3, WatchKeepsInv DEF Prune
<1> QED BY <1>2, <1>3, <1>4, <1>5, <1>6, <1>7, <1>8, <1>9, <1>10, <1>11 DEF WatchStep

LEMMA DeathInv ==
  ASSUME Inv, AgentDies \/ \E c \in Clis : CliDies(c)
  PROVE  Inv'
<1> DEFINE Ends(who) == Killed(who) => RegistryTypeOK' /\ \A x \in Editors : Stage(x)'
<1>0. scenario.moves \in 0..MaxMoves /\ NoPairings \in Pairings /\ Sound(Blank) /\ NoEdit \in Edit
      /\ Editors = Requests \cup Clis \cup {Watcher}
  BY ScenarioBounds, BlankSound
     DEF Inv, AdoptionTypeOK, NoPairings, Pairings, NoPairing, NoEdit, Edit, Editors
<1>1. CASE AgentDies
  <2>1. Killed(Requests \cup {Watcher})
    BY <1>1 DEF AgentDies
  <2>2. RegistryInv'
    BY <1>0, <2>1 DEF Killed, Inv, RegistryInv, RegistryTypeOK, Stage, Busy, Unlocked, Sound, NoEdit
  <2>3. moves' \in 0..MaxMoves
    BY <1>0, <1>1 DEF AgentDies, Moves, Inv, AdoptionTypeOK
  <2> QED BY <1>0, <1>1, <2>2, <2>3
          DEF AgentDies, Inv, AdoptionTypeOK, WatchTypeOK, JobKnowsItsBoard, IdleJob, Quiet
<1>2. ASSUME NEW c \in Clis, CliDies(c)
      PROVE  Inv'
  <2>1. Killed({c}) /\ watch' = watch
    BY <1>2 DEF CliDies
  <2>2. RegistryInv'
    BY <1>0, <2>1 DEF Killed, Inv, RegistryInv, RegistryTypeOK, Stage, Busy, Unlocked, Sound, NoEdit
  <2>3. moves' \in 0..MaxMoves
    BY <1>0, <1>2 DEF CliDies, Moves, Inv, AdoptionTypeOK
  <2> QED BY <1>2, <2>2, <2>3 DEF CliDies, Inv, AdoptionTypeOK, WatchTypeOK, JobKnowsItsBoard
<1> QED BY <1>1, <1>2

LEMMA StutterInv == Inv /\ UNCHANGED vars => Inv'
BY DEF Inv, vars, regVars, envVars, RegistryInv, RegistryTypeOK, Stage, Busy, Unlocked, Sound,
   AdoptionTypeOK, WatchTypeOK, JobKnowsItsBoard

\* The registry tracks boards under its own types only, its lock goes with the editor
\* that is inside mutate(), and every value is of its type.
THEOREM Invariance == Spec => []Inv
<1>1. Inv /\ [Next]_vars => Inv'
  BY EditInv, JobInv, OutsideInv, WatchInv, DeathInv, StutterInv DEF Next
<1> QED BY InitInv, <1>1, PTL DEF Spec

\* TypeOK, for every number of boards, types and editors.
THEOREM TypeCorrect == Spec => []TypeOK
<1>1. Inv => TypeOK
  BY DEF Inv, RegistryInv, AdoptionTypeOK, WatchTypeOK, TypeOK
<1> QED BY <1>1, Invariance, PTL

-----------------------------------------------------------------------------
(* Edits do not undo each other.                                            *)

\* An edit outside the lock is alone, and a copy of the file is never stale.
Apart ==
  /\ \A x, y \in Editors : Busy(x) /\ Unlocked(x) /\ Busy(y) => x = y
  /\ \A x \in Editors : /\ pc[x] = "settings" => text[x] = file
                        /\ pc[x] = "loaded" => text[x] = Apply(edit[x], file)

LEMMA ScenarioStays == [Next]_vars => scenario' = scenario
<1> SUFFICES ASSUME [Next]_vars PROVE scenario' = scenario
  OBVIOUS
<1> USE DEF envVars, JobOnly, WatchOnly, BoardsOnly
<1>1. CASE UNCHANGED vars
  BY <1>1 DEF vars
<1>2. CASE \E r \in Requests : PanelEdits(r) \/ PanelSets(r)
  BY <1>2 DEF PanelEdits, PanelSets
<1>3. CASE \E c \in Clis : CliEdits(c) \/ CliDies(c)
  BY <1>3 DEF CliEdits, CliDies
<1>4. CASE \E x \in Editors : EditStep(x)
  BY <1>4 DEF EditStep
<1>5. CASE \E t \in Types, b \in Boards : AddMcuStart(t, b) \/ CliInstall(t, b)
  BY <1>5 DEF AddMcuStart, CliInstall
<1>6. CASE JobStep
  BY <1>6 DEF JobStep, WriteBootloader, WriteBreaksOff, WriteRefused, ReadToRecord,
     RecordPairing, JobEnds
<1>7. CASE WatchStep \/ Reset
  BY <1>7 DEF WatchStep, Reset, Poll, HandlerFails, Look, AdoptNext, AdoptEnds, ReadToForget,
     Forget, ReadToPrune, Prune
<1>8. CASE AgentDies
  BY <1>8 DEF AgentDies
<1>9. CASE \E b \in Boards : Arrive(b) \/ ArriveInDfu(b) \/ Leave(b)
  BY <1>9 DEF Arrive, ArriveInDfu, Leave
<1>10. CASE \E k \in Keys : Expire(k)
  BY <1>10 DEF Expire
<1> QED BY <1>1, <1>2, <1>3, <1>4, <1>5, <1>6, <1>7, <1>8, <1>9, <1>10 DEF Next

\* All the steps that touch the registry.
RegistryActions ==
  \/ \E r \in Requests : PanelEdits(r) \/ PanelSets(r)
  \/ \E c \in Clis : CliEdits(c) \/ CliDies(c)
  \/ \E x \in Editors : EditStep(x)
  \/ (\E b \in Boards : AdoptNext(b)) \/ AdoptEnds \/ AgentDies

LEMMA OthersLeaveTheRegistry ==
  ASSUME [Next]_vars, ~RegistryActions
  PROVE  UNCHANGED regVars
<1> USE DEF RegistryActions, JobOnly, BoardsOnly
<1>1. CASE UNCHANGED vars
  BY <1>1 DEF vars
<1>2. CASE \E t \in Types, b \in Boards : AddMcuStart(t, b) \/ CliInstall(t, b)
  BY <1>2 DEF AddMcuStart, CliInstall
<1>3. CASE JobStep
  BY <1>3 DEF JobStep, WriteBootloader, WriteBreaksOff, WriteRefused, ReadToRecord,
     RecordPairing, JobEnds
<1>4. CASE WatchStep \/ Reset
  BY <1>4 DEF WatchStep, Reset, Poll, HandlerFails, Look, ReadToForget, Forget, ReadToPrune, Prune
<1>5. CASE \E b \in Boards : Arrive(b) \/ ArriveInDfu(b) \/ Leave(b)
  BY <1>5 DEF Arrive, ArriveInDfu, Leave
<1>6. CASE \E k \in Keys : Expire(k)
  BY <1>6 DEF Expire
<1> QED BY <1>1, <1>2, <1>3, <1>4, <1>5, <1>6 DEF Next

\* What editor x may do without disturbing the others.
LEMMA ApartWhenOneMoves ==
  ASSUME Apart, NEW x \in Editors, file' = file,
         \A y \in Editors \ {x} : pc'[y] = pc[y] /\ edit'[y] = edit[y] /\ text'[y] = text[y],
         Busy(x)' => Busy(x) /\ (Unlocked(x)' => Unlocked(x)),
         pc'[x] = "settings" => text'[x] = file,
         pc'[x] = "loaded" => text'[x] = Apply(edit'[x], file)
  PROVE  Apart'
<1>1. \A y \in Editors : Busy(y)' => Busy(y) /\ (Unlocked(y)' => Unlocked(y))
  BY DEF Busy, Unlocked
<1>2. \A y, z \in Editors : Busy(y)' /\ Unlocked(y)' /\ Busy(z)' => y = z
  BY <1>1 DEF Apart
<1>3. \A y \in Editors : /\ pc'[y] = "settings" => text'[y] = file'
                         /\ pc'[y] = "loaded" => text'[y] = Apply(edit'[y], file')
  <2>1. \A y \in Editors \ {x} : Apply(edit'[y], file') = Apply(edit[y], file)
    OBVIOUS
  <2> QED BY <2>1 DEF Apart
<1> QED BY <1>2, <1>3 DEF Apart

LEMMA ApartEditStep ==
  ASSUME Inv, Apart, NEW x \in Editors, EditStep(x)
  PROVE  Apart' /\ (file' = file \/ (pc[x] = "loaded" /\ file' = Apply(edit[x], file)))
<1> USE DEF Busy, Go
<1>0. RegistryTypeOK /\ (\A y \in Editors : Stage(y))
  BY DEF Inv, RegistryInv
<1>1. CASE TakeLock(x)
  <2>1. /\ file' = file /\ edit' = edit /\ text' = text /\ pc'[x] = "locked" /\ pc[x] = "locking"
        /\ \A y \in Editors \ {x} : pc'[y] = pc[y]
    BY <1>0, <1>1 DEF TakeLock, RegistryTypeOK
  <2> QED BY <2>1, ApartWhenOneMoves DEF Unlocked
<1>2. CASE LockBusy(x)
  <2>1. /\ file' = file /\ text' = text /\ pc'[x] \in {"idle", "refused"}
        /\ \A y \in Editors \ {x} : pc'[y] = pc[y] /\ edit'[y] = edit[y]
    BY <1>0, <1>2 DEF LockBusy, Ended, Dropped, RegistryTypeOK
  <2> QED BY <2>1, ApartWhenOneMoves
<1>3. CASE Load(x)
  <2> DEFINE e == WhatIsLeftToDo(edit[x], file)
  <2>1. (e.op = "set") = (edit[x].op = "set")
    BY <1>0, <1>3 DEF Load, WhatIsLeftToDo, Edit, RegistryTypeOK
  <2>2. /\ edit'[x] = e /\ text'[x] = Apply(e, file)
        /\ pc'[x] = "loaded" /\ file' = file /\ pc[x] = "locked"
        /\ \A y \in Editors \ {x} : pc'[y] = pc[y] /\ edit'[y] = edit[y] /\ text'[y] = text[y]
    BY <1>3, <1>0 DEF Load, RegistryTypeOK
  <2> HIDE DEF e
  <2> QED BY <2>1, <2>2, ApartWhenOneMoves DEF Unlocked
<1>4. CASE Refuse(x)
  <2>1. /\ file' = file /\ text' = text /\ pc'[x] \in {"idle", "refused"}
        /\ \A y \in Editors \ {x} : pc'[y] = pc[y] /\ edit'[y] = edit[y]
    BY <1>0, <1>4 DEF Refuse, Ended, Dropped, RegistryTypeOK
  <2> QED BY <2>1, ApartWhenOneMoves
<1>5. CASE LoadForSettings(x)
  <2>1. edit[x].op = "set" /\ text[x] = file /\ file \in Content
    BY <1>0, <1>5 DEF LoadForSettings, Stage, RegistryTypeOK, Apart
  <2>2. [file EXCEPT !.updater = Apply(edit[x], text[x]).updater] = Apply(edit[x], file)
    BY <2>1 DEF Apply, Content
  <2>3. /\ text'[x] = Apply(edit[x], file) /\ edit' = edit
        /\ pc'[x] = "loaded" /\ file' = file /\ pc[x] = "settings"
        /\ \A y \in Editors \ {x} : pc'[y] = pc[y] /\ text'[y] = text[y]
    BY <1>0, <1>5, <2>2 DEF LoadForSettings, RegistryTypeOK
  <2> QED BY <2>3, ApartWhenOneMoves DEF Unlocked
<1>6. CASE Save(x)
  <2>1. pc[x] = "loaded" /\ file' = Apply(edit[x], file)
    BY <1>0, <1>6 DEF Save, Apart
  <2>2. \A y \in Editors \ {x} : pc[y] \notin {"settings", "loaded"}
    <3> SUFFICES ASSUME NEW y \in Editors \ {x}, pc[y] \in {"settings", "loaded"}
                 PROVE  FALSE
      OBVIOUS
    <3>1. ~Unlocked(x) /\ ~Unlocked(y)
      BY <2>1 DEF Apart
    <3> QED BY <1>0, <2>1, <3>1 DEF Stage, Unlocked
  <2>3. \A y \in Editors \ {x} : pc'[y] = pc[y] /\ edit'[y] = edit[y]
    BY <1>0, <1>6 DEF Save, Dropped, RegistryTypeOK
  <2>4. pc'[x] \in {"idle", "saved"} /\ (pc'[x] = "saved" => edit'[x] = edit[x] /\ ~Unlocked(x))
    BY <1>0, <1>6 DEF Save, Dropped, RegistryTypeOK
  <2>5. \A y, z \in Editors : Busy(y)' /\ Unlocked(y)' /\ Busy(z)' => y = z
    BY <2>1, <2>3, <2>4 DEF Unlocked, Apart
  <2>6. \A y \in Editors : pc'[y] \notin {"settings", "loaded"}
    BY <2>2, <2>3, <2>4
  <2> QED BY <2>1, <2>5, <2>6 DEF Apart
<1>7. CASE Release(x)
  <2>1. /\ file' = file /\ text' = text /\ pc'[x] = "idle"
        /\ \A y \in Editors \ {x} : pc'[y] = pc[y] /\ edit'[y] = edit[y]
    BY <1>0, <1>7 DEF Release, Dropped, RegistryTypeOK
  <2> QED BY <2>1, ApartWhenOneMoves
<1> QED BY <1>1, <1>2, <1>3, <1>4, <1>5, <1>6, <1>7 DEF EditStep, EditorStep

\* Who begins an edit found nobody at one that he must not meet.
LEMMA ApartWhenOneBegins ==
  ASSUME Apart, Spared({"edits_meet"}), NEW x \in Editors, file' = file,
         \A y \in Editors \ {x} : pc'[y] = pc[y] /\ edit'[y] = edit[y] /\ text'[y] = text[y],
         ~Busy(x), MayEdit(Unlocked(x)'),
         pc'[x] = "settings" => text'[x] = file,
         pc'[x] = "loaded" => text'[x] = Apply(edit'[x], file)
  PROVE  Apart'
<1>1. /\ Unlocked(x)' => \A y \in Editors : ~Busy(y)
      /\ \A y \in Editors : Busy(y) => ~Unlocked(y)
  BY DEF MayEdit, May, Spared, SomebodyEdits
<1>2. \A y \in Editors \ {x} : Busy(y)' = Busy(y) /\ Unlocked(y)' = Unlocked(y)
  BY DEF Busy, Unlocked
<1>3. \A y, z \in Editors : Busy(y)' /\ Unlocked(y)' /\ Busy(z)' => y = z
  BY <1>1, <1>2
<1>4. \A y \in Editors : /\ pc'[y] = "settings" => text'[y] = file'
                         /\ pc'[y] = "loaded" => text'[y] = Apply(edit'[y], file')
  <2>1. \A y \in Editors \ {x} : Apply(edit'[y], file') = Apply(edit[y], file)
    OBVIOUS
  <2> QED BY <2>1 DEF Apart
<1> QED BY <1>3, <1>4 DEF Apart

LEMMA ApartNext ==
  ASSUME Inv, Apart, Spared({"edits_meet"}), [Next]_vars
  PROVE  /\ Apart'
         /\ file' = file \/ \E x \in Editors : pc[x] = "loaded" /\ file' = Apply(edit[x], file)
<1> DEFINE Goal == /\ Apart'
                   /\ \/ file' = file
                      \/ \E x \in Editors : pc[x] = "loaded" /\ file' = Apply(edit[x], file)
<1>0. /\ RegistryTypeOK /\ (\A y \in Editors : Stage(y)) /\ scenario' = scenario
      /\ Editors = Requests \cup Clis \cup {Watcher}
  BY ScenarioStays DEF Inv, RegistryInv, Editors
<1>1. ASSUME NEW r \in Requests, PanelEdits(r)
      PROVE  Goal
  <2>1. PICK e \in Edit : StartPanelEdit(r, e)
    BY <1>1 DEF PanelEdits
  <2>2. /\ file' = file /\ text' = text /\ ~Busy(r) /\ pc'[r] = "locking"
        /\ edit'[r].op # "set"
        /\ \A y \in Editors \ {r} : pc'[y] = pc[y] /\ edit'[y] = edit[y]
    BY <1>0, <2>1 DEF StartPanelEdit, Begin, Go, RegistryTypeOK
  <2>3. ~Unlocked(r)' /\ MayEdit(Unlocked(r)')
    BY <1>1, <2>2 DEF Unlocked, PanelEdits, MayEdit
  <2> QED BY <1>0, <2>2, <2>3, ApartWhenOneBegins
<1>2. ASSUME NEW r \in Requests, PanelSets(r)
      PROVE  Goal
  <2>1. PICK option \in Options : StartSettings(r, option)
    BY <1>2 DEF PanelSets
  <2>2. /\ file' = file /\ text'[r] = file /\ ~Busy(r) /\ pc'[r] = "settings"
        /\ edit'[r].op = "set"
        /\ \A y \in Editors \ {r} : pc'[y] = pc[y] /\ edit'[y] = edit[y] /\ text'[y] = text[y]
    BY <1>0, <2>1 DEF StartSettings, Go, RegistryTypeOK
  <2>3. Unlocked(r)' /\ MayEdit(TRUE)
    BY <1>2, <2>2 DEF Unlocked, PanelSets
  <2> QED BY <1>0, <2>2, <2>3, ApartWhenOneBegins
<1>3. ASSUME NEW c \in Clis, CliEdits(c)
      PROVE  Goal
  <2>1. PICK e \in Edit : StartCliEdit(c, e)
    BY <1>3 DEF CliEdits
  <2>2. /\ file' = file /\ text'[c] = Apply(e, file) /\ edit'[c] = e /\ ~Busy(c)
        /\ pc'[c] = "loaded"
        /\ \A y \in Editors \ {c} : pc'[y] = pc[y] /\ edit'[y] = edit[y] /\ text'[y] = text[y]
    BY <1>0, <2>1 DEF StartCliEdit, Go, RegistryTypeOK
  <2>3. Unlocked(c)' /\ MayEdit(TRUE)
    BY <1>3 DEF Unlocked, CliEdits
  <2> QED BY <1>0, <2>2, <2>3, ApartWhenOneBegins
<1>4. ASSUME NEW x \in Editors, EditStep(x)
      PROVE  Goal
  BY <1>0, <1>4, ApartEditStep
<1>5. ASSUME NEW b \in Boards, AdoptNext(b)
      PROVE  Goal
  <2>1. CASE UNCHANGED regVars
    BY <2>1 DEF Apart, regVars, Busy, Unlocked
  <2>2. CASE ~UNCHANGED regVars
    <3>1. /\ file' = file /\ text' = text /\ ~Busy(Watcher) /\ pc'[Watcher] = "locking"
          /\ edit'[Watcher].op = "adopt"
          /\ \A y \in Editors \ {Watcher} : pc'[y] = pc[y] /\ edit'[y] = edit[y]
      BY <1>0, <1>5, <2>2 DEF AdoptNext, Begin, Go, RegistryTypeOK
    <3>2. ~Unlocked(Watcher)' /\ MayEdit(Unlocked(Watcher)')
      BY <1>0, <1>5, <3>1 DEF Unlocked, AdoptNext, MayEdit
    <3> QED BY <1>0, <3>1, <3>2, ApartWhenOneBegins
  <2> QED BY <2>1, <2>2
<1>6. CASE AdoptEnds
  <2>1. /\ file' = file /\ text' = text /\ pc'[Watcher] = "idle"
        /\ \A y \in Editors \ {Watcher} : pc'[y] = pc[y] /\ edit'[y] = edit[y]
    BY <1>0, <1>6 DEF AdoptEnds, RegistryTypeOK
  <2> QED BY <1>0, <2>1, ApartWhenOneMoves DEF Busy
<1>7. CASE AgentDies \/ \E c \in Clis : CliDies(c)
  <2>1. PICK who \in SUBSET Editors : Killed(who)
    BY <1>0, <1>7 DEF AgentDies, CliDies
  <2>2. /\ file' = file
        /\ \A y \in Editors : \/ pc'[y] = "idle"
                              \/ pc'[y] = pc[y] /\ edit'[y] = edit[y] /\ text'[y] = text[y]
    BY <2>1 DEF Killed
  <2> QED BY <2>2 DEF Apart, Busy, Unlocked
<1>8. CASE UNCHANGED regVars
  BY <1>8 DEF Apart, regVars, Busy, Unlocked
<1> QED BY <1>1, <1>2, <1>3, <1>4, <1>5, <1>6, <1>7, <1>8, OthersLeaveTheRegistry
        DEF RegistryActions

\* EditsSurviveWhenApart: as long as no edit meets one that does without the lock,
\* every write of the registry is one edit of what was there.
THEOREM EditsDoNotUndoEachOther == Spec => EditsSurviveWhenApart
<1> DEFINE Step == Spared({"edits_meet"}) =>
              file' = file \/ \E x \in Editors : pc[x] = "loaded" /\ file' = Apply(edit[x], file)
           IApart == Spared({"edits_meet"}) => Apart
<1>1. Init => IApart
  BY DEF Init, RegistryInit, Apart, Busy
<1>2. Inv /\ IApart /\ [Next]_vars => IApart' /\ Step
  BY ApartNext, ScenarioStays DEF Spared
<1>3. Spec => [](Inv /\ IApart)
  BY <1>1, <1>2, Invariance, PTL DEF Spec
<1>4. Spec => [][Step]_vars
  BY <1>2, <1>3, PTL DEF Spec
<1> QED BY <1>4 DEF EditsSurviveWhenApart

-----------------------------------------------------------------------------
(* No board is tracked under two types.                                     *)

One(f) == \A b \in Boards, t, u \in Types : b \in f.tracked[t] /\ b \in f.tracked[u] => t = u

Untracked(b, f) == \A t \in Types : b \notin f.tracked[t]

\* While the watcher adopts, it is alone with the registry, and what it has yet to
\* adopt is not in there.
Alone ==
  /\ \A x \in Editors \ {Watcher} : ~Busy(x)
  /\ \A b \in watch.todo : Untracked(b, file)
  /\ pc[Watcher] \in {"locking", "locked"} =>
       /\ Untracked(edit[Watcher].board, file) /\ edit[Watcher].board \notin watch.todo
  /\ pc[Watcher] = "loaded" => \A b \in watch.todo : Untracked(b, text[Watcher])

Once ==
  /\ One(file)
  /\ \A x \in Editors : One(text[x])
  /\ watch.pc \notin {"idle", "look"} => Alone

Calm == Spared({"edit_meets_adoption", "cli_tracks_again"})

LEMMA ApplyOne ==
  ASSUME NEW e \in Edit, NEW f, Sound(f), One(f),
         e.op \in {"track", "adopt"} => \A t \in Types : e.board \in f.tracked[t] => t = e.type
  PROVE  One(Apply(e, f))
<1> USE DEF One, Sound, Content
<1>1. CASE e.op \in {"track", "untrack", "adopt"}
  <2>1. e.type \in Types /\ e.board \in Boards
    BY <1>1 DEF Edit
  <2> QED BY <1>1, <2>1 DEF Apply
<1>2. CASE e.op \in {"add", "drop", "purge", "update"}
  <2>1. e.type \in Types
    BY <1>2 DEF Edit
  <2> QED BY <1>2, <2>1 DEF Apply
<1>3. CASE e.op = "set"
  BY <1>3 DEF Apply
<1>4. CASE e.op \notin {"track", "adopt", "untrack", "add", "drop", "purge", "update", "set"}
  BY <1>4 DEF Apply
<1> QED BY <1>1, <1>2, <1>3, <1>4

LEMMA OneSpared ==
  ASSUME One(file)
  PROVE  \A b \in Boards : Cardinality(TypesFor(file, b)) <= 1
<1> TAKE b \in Boards
<1>1. CASE TypesFor(file, b) = {}
  BY <1>1, FS_EmptySet
<1>2. CASE TypesFor(file, b) # {}
  <2>1. PICK t \in TypesFor(file, b) : TRUE
    BY <1>2
  <2>2. TypesFor(file, b) = {t}
    BY <2>1 DEF TypesFor, One
  <2>3. Cardinality({t}) = 1
    BY FS_Singleton
  <2> QED BY <2>2, <2>3
<1> QED BY <1>1, <1>2

\* The edit steps of anyone but the watcher, and those of the watcher.
LEMMA OnceEditStep ==
  ASSUME Inv, Once, NEW x \in Editors, EditStep(x)
  PROVE  Once'
<1> USE DEF Go, Busy
<1>0. /\ RegistryTypeOK /\ (\A y \in Editors : Stage(y)) /\ watch' = watch
      /\ Sound(file) /\ edit[x] \in Edit /\ watch.todo \subseteq Boards
      /\ Editors = Requests \cup Clis \cup {Watcher}
  BY DEF Inv, RegistryInv, RegistryTypeOK, Sound, EditStep, Editors, AdoptionTypeOK, WatchTypeOK
<1>1. Busy(x) /\ (watch.pc \notin {"idle", "look"} => x = Watcher)
  BY DEF EditStep, EditorStep, TakeLock, LockBusy, Load, Refuse, LoadForSettings, Save, Release,
     Once, Alone
<1>2. CASE Load(x)
  <2> DEFINE e == WhatIsLeftToDo(edit[x], file)
  <2>1. /\ e \in Edit /\ (e.op \in {"track", "adopt"} => e = edit[x])
        /\ (x = Watcher => e.op \in {"adopt", "keep"} /\ edit[x].op \in {"adopt", "keep"})
    BY <1>0, <1>2 DEF Load, WhatIsLeftToDo, Edit, Stage
  <2>2. x = Watcher => watch.pc = "adopting"
    BY <1>0, <1>1 DEF Stage
  <2>3. ASSUME e.op \in {"track", "adopt"}, NEW t \in Types, e.board \in file.tracked[t]
        PROVE  t = e.type
    <3>1. CASE x = Watcher
      BY <1>2, <2>1, <2>2, <2>3, <3>1 DEF Load, Once, Alone, Untracked
    <3>2. CASE x # Watcher
      <4>1. e.op = "track"
        BY <1>0, <2>1, <2>3, <3>2 DEF Stage
      <4> QED BY <1>2, <2>1, <2>3, <3>2, <4>1 DEF Load, Accepts, PanelAccepts, TypesFor
    <3> QED BY <3>1, <3>2
  <2>4. One(Apply(e, file))
    BY <1>0, <2>1, <2>3, ApplyOne DEF Once
  <2>5. /\ file' = file /\ text' = [text EXCEPT ![x] = Apply(e, file)]
        /\ pc' = [pc EXCEPT ![x] = "loaded"] /\ pc[x] = "locked"
    <3>1. edit'[x] = e
      BY <1>0, <1>2 DEF Load, RegistryTypeOK
    <3> QED BY <1>2, <3>1 DEF Load
  <2>6. \A y \in Editors : One(text'[y])
    BY <1>0, <2>4, <2>5 DEF RegistryTypeOK, Once
  <2>7. watch.pc \notin {"idle", "look"} => Alone'
    <3> SUFFICES ASSUME watch.pc \notin {"idle", "look"} PROVE Alone'
      OBVIOUS
    <3>1. x = Watcher /\ Alone
      BY <1>1 DEF Once
    <3>2. ASSUME NEW b \in watch.todo PROVE Untracked(b, Apply(e, file))
      <4>1. Untracked(b, file) /\ b # edit[x].board
        BY <2>5, <3>1 DEF Alone
      <4>2. CASE e.op = "keep"
        BY <4>1, <4>2 DEF Apply
      <4>3. CASE e.op = "adopt"
        <5>1. e.type \in Types /\ e.board # b
          BY <2>1, <4>1, <4>3 DEF Edit
        <5> QED BY <1>0, <4>1, <4>3, <5>1 DEF Apply, Untracked, Sound, Content
      <4> QED BY <2>1, <3>1, <4>2, <4>3
    <3> QED BY <1>0, <2>5, <3>1, <3>2 DEF Alone, RegistryTypeOK, Untracked
  <2> QED BY <1>0, <2>5, <2>6, <2>7 DEF Once
<1>3. CASE Save(x)
  <2>1. /\ file' = text[x] /\ text' = [text EXCEPT ![x] = Blank] /\ pc[x] = "loaded"
        /\ pc'[x] \in {"idle", "saved"} /\ \A y \in Editors \ {x} : pc'[y] = pc[y]
    BY <1>0, <1>3 DEF Save, RegistryTypeOK
  <2>2. One(Blank)
    BY DEF One, Blank
  <2>3. One(file') /\ \A y \in Editors : One(text'[y])
    BY <1>0, <2>1, <2>2 DEF Once, RegistryTypeOK
  <2>4. watch.pc \notin {"idle", "look"} => Alone'
    BY <1>0, <1>1, <2>1 DEF Once, Alone, Untracked
  <2> QED BY <1>0, <2>3, <2>4 DEF Once
<1>4. CASE LoadForSettings(x)
  <2>1. \A u : One([file EXCEPT !.updater = u])
    BY <1>0 DEF One, Once, Sound, Content
  <2>2. \A y \in Editors : One(text'[y])
    BY <1>0, <1>4, <2>1 DEF LoadForSettings, Once, RegistryTypeOK
  <2>3. x # Watcher
    BY <1>0, <1>4 DEF LoadForSettings, Stage
  <2> QED BY <1>0, <1>1, <1>4, <2>2, <2>3 DEF LoadForSettings, Once
<1>5. CASE TakeLock(x)
  BY <1>0, <1>1, <1>5 DEF TakeLock, Once, Alone, RegistryTypeOK, Untracked
<1>6. CASE LockBusy(x) \/ Refuse(x) \/ Release(x)
  <2>1. /\ file' = file /\ text' = text /\ pc'[x] \in {"idle", "refused"}
        /\ \A y \in Editors \ {x} : pc'[y] = pc[y]
    BY <1>0, <1>6 DEF LockBusy, Refuse, Release, Ended, RegistryTypeOK
  <2> QED BY <1>0, <1>1, <2>1 DEF Once, Alone, Untracked
<1> QED BY <1>2, <1>3, <1>4, <1>5, <1>6 DEF EditStep, EditorStep

LEMMA OnceNext ==
  ASSUME Inv, Once, Calm, [Next]_vars
  PROVE  Once'
<1>0. /\ RegistryTypeOK /\ (\A y \in Editors : Stage(y)) /\ WatchTypeOK
      /\ Sound(file) /\ Editors = Requests \cup Clis \cup {Watcher}
  BY DEF Inv, RegistryInv, RegistryTypeOK, Sound, Editors, AdoptionTypeOK
<1>1. ASSUME UNCHANGED regVars,
             watch'.pc \notin {"idle", "look"} =>
               Alone /\ watch.pc \notin {"idle", "look"} /\ watch'.todo \subseteq watch.todo
      PROVE  Once'
  BY <1>0, <1>1 DEF Once, Alone, regVars, Busy, Untracked
<1>2. ASSUME NEW r \in Requests, PanelEdits(r)
      PROVE  Once'
  <2>1. /\ file' = file /\ text' = text /\ watch' = watch /\ watch.pc = "idle"
    BY <1>2 DEF PanelEdits, StartPanelEdit, Begin, MayMeet, Calm, Spared, May
  <2> QED BY <2>1 DEF Once
<1>3. ASSUME NEW r \in Requests, PanelSets(r)
      PROVE  Once'
  <2>1. /\ file' = file /\ text' = [text EXCEPT ![r] = file] /\ watch' = watch /\ watch.pc = "idle"
    BY <1>3 DEF PanelSets, StartSettings, MayMeet, Calm, Spared, May
  <2> QED BY <1>0, <2>1 DEF Once, RegistryTypeOK
<1>4. ASSUME NEW c \in Clis, CliEdits(c)
      PROVE  Once'
  <2>1. PICK e \in Edit : /\ StartCliEdit(c, e)
                          /\ e.op = "track" => TypesFor(file, e.board) = {}
    BY <1>4 DEF CliEdits, Calm, Spared, May
  <2>2. /\ file' = file /\ text' = [text EXCEPT ![c] = Apply(e, file)] /\ e.op # "adopt"
        /\ watch' = watch /\ watch.pc = "idle"
    BY <1>4, <2>1 DEF CliEdits, StartCliEdit, MayMeet, Calm, Spared, May
  <2>3. One(Apply(e, file))
    BY <1>0, <2>1, <2>2, ApplyOne DEF Once, TypesFor
  <2> QED BY <1>0, <2>2, <2>3 DEF Once, RegistryTypeOK
<1>5. ASSUME NEW b \in Boards, AdoptNext(b)
      PROVE  Once'
  <2>1. /\ file' = file /\ text' = text /\ watch.pc = "next" /\ b \in watch.todo
    BY <1>5 DEF AdoptNext, Begin, regVars
  <2>2. /\ Alone /\ watch'.todo = watch.todo \ {b}
    BY <1>0, <1>5, <2>1 DEF AdoptNext, Once, WatchTypeOK
  <2>3. CASE UNCHANGED regVars
    BY <1>1, <2>1, <2>2, <2>3
  <2>4. CASE ~UNCHANGED regVars
    <3>1. /\ pc' = [pc EXCEPT ![Watcher] = "locking"]
          /\ edit'[Watcher].board = b
      BY <1>0, <1>5, <2>4 DEF AdoptNext, Begin, Go, RegistryTypeOK
    <3> QED BY <1>0, <2>1, <2>2, <3>1 DEF Once, Alone, Busy, RegistryTypeOK, Untracked
  <2> QED BY <2>3, <2>4
<1>6. CASE AdoptEnds
  <2>1. /\ file' = file /\ text' = text /\ pc' = [pc EXCEPT ![Watcher] = "idle"]
        /\ watch'.todo = watch.todo /\ watch.pc = "adopting"
    BY <1>0, <1>6 DEF AdoptEnds, WatchGoes, WatchTypeOK
  <2> QED BY <1>0, <2>1 DEF Once, Alone, Busy, RegistryTypeOK, Untracked
<1>7. CASE AgentDies \/ \E c \in Clis : CliDies(c)
  <2>1. PICK who \in SUBSET Editors : Killed(who)
    BY <1>0, <1>7 DEF AgentDies, CliDies
  <2>2. One(Blank)
    BY DEF One, Blank
  <2>3. /\ One(file') /\ \A y \in Editors : One(text'[y])
    BY <2>1, <2>2 DEF Killed, Once
  <2>4. CASE AgentDies
    BY <2>3, <2>4 DEF Once, AgentDies, Quiet
  <2>5. ASSUME NEW c \in Clis, CliDies(c)
        PROVE  Once'
    <3>1. Busy(c) /\ c # Watcher /\ watch' = watch
      BY <2>5 DEF CliDies
    <3> QED BY <1>0, <2>3, <3>1 DEF Once, Alone
  <2> QED BY <1>7, <2>4, <2>5
<1>8. CASE Look
  <2>1. UNCHANGED regVars /\ ~SomebodyEdits
    BY <1>8 DEF Look, Calm, Spared, May
  <2>2. CASE pairings = NoPairings
    BY <1>1, <1>8, <2>1, <2>2 DEF Look, HandlerReturns, Quiet
  <2>3. CASE pairings # NoPairings
    <3>1. watch'.todo = Unique(OnBus \ AllTracked(file))
      BY <1>0, <1>8, <2>3 DEF Look, WatchTypeOK
    <3>2. \A b \in watch'.todo : Untracked(b, file)
      BY <3>1 DEF Unique, AllTracked, Untracked
    <3>3. Alone'
      BY <1>0, <2>1, <3>2 DEF Alone, SomebodyEdits, Busy, regVars, Untracked
    <3> QED BY <2>1, <3>3 DEF Once, regVars, One
  <2> QED BY <2>2, <2>3
<1>9. CASE Poll \/ HandlerFails \/ Reset \/ ReadToForget \/ Forget \/ ReadToPrune \/ Prune
  <2>1. UNCHANGED regVars
    BY <1>9 DEF Poll, HandlerFails, Reset, ReadToForget, Forget, ReadToPrune, Prune
  <2>2. watch'.pc \notin {"idle", "look"} =>
          watch.pc \notin {"idle", "look"} /\ watch'.todo \subseteq watch.todo
    <3>1. CASE Poll \/ Reset
      BY <1>0, <3>1 DEF Poll, Reset, WatchTypeOK
    <3>2. CASE HandlerFails \/ Prune
      BY <3>2 DEF HandlerFails, Prune, HandlerReturns, Quiet
    <3>3. CASE ReadToForget \/ Forget \/ ReadToPrune
      BY <1>0, <3>3 DEF ReadToForget, Forget, ReadToPrune, WatchTypeOK
    <3> QED BY <1>9, <3>1, <3>2, <3>3
  <2> QED BY <1>1, <2>1, <2>2 DEF Once
<1>10. CASE UNCHANGED regVars /\ watch' = watch
  BY <1>1, <1>10 DEF Once
<1>11. \/ RegistryActions \/ Look
       \/ Poll \/ HandlerFails \/ Reset \/ ReadToForget \/ Forget \/ ReadToPrune \/ Prune
       \/ UNCHANGED regVars /\ watch' = watch
  <2>1. CASE UNCHANGED vars
    BY <2>1 DEF vars
  <2>2. CASE JobStep
    BY <2>2 DEF JobStep, WriteBootloader, WriteBreaksOff, WriteRefused, ReadToRecord,
       RecordPairing, JobEnds, JobOnly
  <2>3. CASE \E t \in Types, b \in Boards : AddMcuStart(t, b) \/ CliInstall(t, b)
    BY <2>3 DEF AddMcuStart, CliInstall, JobOnly, BoardsOnly
  <2>4. CASE \E b \in Boards : Arrive(b) \/ ArriveInDfu(b) \/ Leave(b)
    BY <2>4 DEF Arrive, ArriveInDfu, Leave, BoardsOnly
  <2>5. CASE \E k \in Keys : Expire(k)
    BY <2>5 DEF Expire
  <2> QED BY <2>1, <2>2, <2>3, <2>4, <2>5 DEF Next, WatchStep, RegistryActions
<1> QED BY <1>2, <1>3, <1>4, <1>5, <1>6, <1>7, <1>8, <1>9, <1>10, <1>11, OnceEditStep
        DEF RegistryActions

\* TrackedOnce: as long as nobody edits while the watcher adopts and no CLI user
\* names a tracked serial, no board is tracked under two types.
THEOREM BoardsAreTrackedOnce == Spec => []TrackedOnce
<1> DEFINE IOnce == Calm => Once
<1>1. Init => IOnce
  BY DEF Init, RegistryInit, Once, One, Blank, Quiet
<1>2. Inv /\ IOnce /\ [Next]_vars => IOnce'
  BY OnceNext, ScenarioStays DEF Calm, Spared
<1>3. IOnce => TrackedOnce
  BY OneSpared DEF Once, TrackedOnce, Calm
<1> QED BY <1>1, <1>2, <1>3, Invariance, PTL DEF Spec

-----------------------------------------------------------------------------
(* A pairing acts once.                                                     *)

Undisturbed == Spared({"pairings_meet", "dies", "early_board", "board_flickers"}) /\ NoTwins

Recording == {"record", "recording"}
AtABoard == {"adopting", "forget", "forgetting"}

\* The adoption of the board the watcher is at has been saved.
HasAdopted ==
  \/ watch.pc \in {"forget", "forgetting"}
  \/ watch.pc = "adopting" /\ pc[Watcher] \in {"saved", "idle"} /\ edit[Watcher].op = "adopt"

\* What the watcher handles is on the bus, what the job just wrote is not; so they are
\* about different pairings.
Elsewhere ==
  /\ watch.pc \notin {"idle", "look"} => \A b \in watch.todo : bus[b] = "katapult"
  /\ watch.pc \in AtABoard => watch.at \in Boards /\ bus[watch.at] = "katapult"
  /\ job.pc \in Recording => \A b \in Boards : DfuOf(b) = job.key => bus[b] # "katapult"

\* No copy of the pairings file is stale.
FreshCopies ==
  /\ job.pc = "recording" => job.data = pairings /\ watch.pc \notin {"forgetting", "pruning"}
  /\ watch.pc \in {"forgetting", "pruning"} => watch.data = pairings

\* A pairing that acted is gone, but for the one the watcher is about to forget.
ActedAreGone ==
  /\ watch.pc = "adopting" /\ pc[Watcher] \in {"locking", "locked", "loaded"} =>
       edit[Watcher].board = watch.at /\ DfuOf(watch.at) \notin acted
  /\ HasAdopted => DfuOf(watch.at) \in acted
  /\ \A k \in acted : pairings[k] = NoPairing \/ (HasAdopted /\ DfuOf(watch.at) = k)

Chain == Elsewhere /\ FreshCopies /\ ActedAreGone

PairingStep ==
  /\ AdoptionSaved => DfuOf(edit[Watcher].board) \notin acted
  /\ \A k \in Keys :
       (pairings[k].type # NoType /\ ~pairings[k].old /\ pairings'[k].type = NoType) => k \in acted

\* Steps of an edit that is not the watcher's.
LEMMA ChainRests ==
  ASSUME Chain, scenario' = scenario, pc'[Watcher] = pc[Watcher], edit'[Watcher] = edit[Watcher],
         UNCHANGED <<bus, pairings, job, watch, acted>>
  PROVE  Chain' /\ PairingStep
BY DEF Chain, Elsewhere, FreshCopies, ActedAreGone, HasAdopted, DfuOf, PairingStep, AdoptionSaved

LEMMA ChainEditStep ==
  ASSUME Inv, Chain, NEW x \in Editors, EditStep(x)
  PROVE  Chain' /\ PairingStep
<1> USE DEF Go, Busy
<1>0. /\ RegistryTypeOK /\ (\A y \in Editors : Stage(y))
      /\ Editors = Requests \cup Clis \cup {Watcher}
      /\ UNCHANGED <<bus, pairings, job, watch, scenario>>
      /\ \A b : DfuOf(b)' = DfuOf(b)
  BY DEF Inv, RegistryInv, Editors, EditStep, envVars, DfuOf
<1>1. CASE x # Watcher
  <2>1. acted' = acted
    BY <1>1 DEF EditStep
  <2>2. pc'[Watcher] = pc[Watcher] /\ edit'[Watcher] = edit[Watcher]
    BY <1>0, <1>1 DEF EditStep, EditorStep, TakeLock, LockBusy, Load, Refuse, LoadForSettings,
       Save, Release, Dropped, Ended, RegistryTypeOK
  <2> QED BY <1>0, <2>1, <2>2, ChainRests
<1>2. CASE x = Watcher
  <2>0. Busy(Watcher) /\ watch.pc = "adopting"
    <3>1. Busy(Watcher)
      BY <1>2 DEF EditStep, EditorStep, TakeLock, LockBusy, Load, Refuse, LoadForSettings, Save,
         Release
    <3> QED BY <1>0, <3>1 DEF Stage
  <2>1. Elsewhere' /\ FreshCopies'
    BY <1>0 DEF Chain, Elsewhere, FreshCopies
  <2>2. CASE TakeLock(Watcher)
    <3>1. pc[Watcher] = "locking" /\ pc'[Watcher] = "locked" /\ edit' = edit /\ acted' = acted
      BY <1>0, <1>2, <2>2 DEF TakeLock, RegistryTypeOK, EditStep
    <3> QED BY <1>0, <2>0, <2>1, <3>1
            DEF Chain, ActedAreGone, HasAdopted, PairingStep, AdoptionSaved
  <2>3. CASE LockBusy(Watcher) \/ Refuse(Watcher)
    <3>1. /\ pc[Watcher] \in {"locking", "locked"} /\ pc'[Watcher] = "refused"
          /\ acted' = acted
      BY <1>0, <1>2, <2>3 DEF LockBusy, Refuse, Ended, RegistryTypeOK, EditStep
    <3> QED BY <1>0, <2>0, <2>1, <3>1
            DEF Chain, ActedAreGone, HasAdopted, PairingStep, AdoptionSaved
  <2>4. CASE Load(Watcher)
    <3>1. edit[Watcher] \in Edit /\ edit[Watcher].op \in {"adopt", "keep"}
      BY <1>0, <2>4 DEF RegistryTypeOK, Stage, Load
    <3>2. WhatIsLeftToDo(edit[Watcher], file).board = edit[Watcher].board
      BY <3>1 DEF WhatIsLeftToDo, Edit
    <3>3. /\ pc[Watcher] = "locked" /\ pc'[Watcher] = "loaded" /\ acted' = acted
          /\ edit'[Watcher].board = edit[Watcher].board
      BY <1>0, <1>2, <2>4, <3>2 DEF Load, RegistryTypeOK, EditStep
    <3> QED BY <1>0, <2>0, <2>1, <3>3
            DEF Chain, ActedAreGone, HasAdopted, PairingStep, AdoptionSaved
  <2>5. CASE Save(Watcher)
    <3>1. /\ pc[Watcher] = "loaded" /\ pc'[Watcher] = "saved" /\ edit'[Watcher] = edit[Watcher]
          /\ acted' = IF edit[Watcher].op = "adopt" THEN acted \cup {DfuOf(edit[Watcher].board)}
                      ELSE acted
      BY <1>0, <1>2, <2>5 DEF Save, Unlocked, Dropped, Stage, RegistryTypeOK, EditStep
    <3> QED BY <1>0, <2>0, <2>1, <3>1
            DEF Chain, ActedAreGone, HasAdopted, PairingStep, AdoptionSaved
  <2>6. CASE Release(Watcher)
    <3>1. /\ pc[Watcher] = "saved" /\ pc'[Watcher] = "idle" /\ acted' = acted
          /\ edit'[Watcher] = edit[Watcher]
      BY <1>0, <1>2, <2>6 DEF Release, Dropped, RegistryTypeOK, EditStep
    <3> QED BY <1>0, <2>0, <2>1, <3>1
            DEF Chain, ActedAreGone, HasAdopted, PairingStep, AdoptionSaved
  <2>7. ~LoadForSettings(Watcher)
    BY <1>0 DEF LoadForSettings, Stage
  <2> QED BY <1>2, <2>2, <2>3, <2>4, <2>5, <2>6, <2>7 DEF EditStep, EditorStep
<1> QED BY <1>1, <1>2

\* The job, the boards, and time.
LEMMA ChainOutside ==
  ASSUME Inv, Chain, Undisturbed,
         \/ JobStep
         \/ \E t \in Types, b \in Boards : AddMcuStart(t, b) \/ CliInstall(t, b)
         \/ \E b \in Boards : Arrive(b) \/ ArriveInDfu(b) \/ Leave(b)
         \/ \E k \in Keys : Expire(k)
  PROVE  Chain' /\ PairingStep
<1> USE DEF Recording, AtABoard
<1>0. /\ WatchTypeOK /\ pairings \in Pairings /\ acted \subseteq Keys
      /\ bus \in [Boards -> {"away", "dfu", "katapult"}]
      /\ job \in [pc : {"idle", "writing", "record", "recording", "waiting"},
                  type : Types \cup {NoType}, key : Keys \cup {NoKey}, data : Pairings]
      /\ job.pc # "idle" => job.type \in Types /\ job.key \in Keys
      /\ \A b \in Boards : DfuOf(b) \in Keys
  BY ScenarioBounds DEF Inv, AdoptionTypeOK, JobKnowsItsBoard, DfuOf
<1>a. UNCHANGED <<regVars, watch, scenario>> /\ (\A b : DfuOf(b)' = DfuOf(b)) /\ ~AdoptionSaved
  <2>1. UNCHANGED <<regVars, watch, scenario>>
    <3>1. CASE JobStep
      BY <3>1 DEF JobStep, WriteBootloader, WriteBreaksOff, WriteRefused, ReadToRecord,
         RecordPairing, JobEnds, JobOnly, envVars
    <3>2. CASE \E t \in Types, b \in Boards : AddMcuStart(t, b) \/ CliInstall(t, b)
      BY <3>2 DEF AddMcuStart, CliInstall, JobOnly, BoardsOnly, envVars
    <3>3. CASE \E b \in Boards : Arrive(b) \/ ArriveInDfu(b) \/ Leave(b)
      BY <3>3 DEF Arrive, ArriveInDfu, Leave, BoardsOnly, envVars
    <3>4. CASE \E k \in Keys : Expire(k)
      BY <3>4 DEF Expire, envVars
    <3> QED BY <3>1, <3>2, <3>3, <3>4
  <2> QED BY <2>1 DEF DfuOf, AdoptionSaved, regVars
<1>b. HasAdopted' = HasAdopted /\ watch' = watch /\ pc' = pc /\ edit' = edit
  BY <1>a DEF HasAdopted, regVars
\* All but RecordPairing and Expire leave the pairings alone.
<1>1. ASSUME UNCHANGED <<pairings, acted>>, Elsewhere', FreshCopies'
      PROVE  Chain' /\ PairingStep
  BY <1>1, <1>a, <1>b DEF Chain, ActedAreGone, PairingStep
\* A board that is not on the bus, or leaves while nothing is handled.
<1>2. ASSUME NEW b \in Boards,
             bus' = [bus EXCEPT ![b] = "away"] \/ bus' = [bus EXCEPT ![b] = "dfu"],
             bus[b] # "katapult" \/ watch.pc = "idle", job' = job, UNCHANGED <<pairings, acted>>
      PROVE  Chain' /\ PairingStep
  <2>1. Elsewhere'
    BY <1>0, <1>2, <1>a DEF Chain, Elsewhere, WatchTypeOK
  <2>2. FreshCopies'
    BY <1>2, <1>a DEF Chain, FreshCopies
  <2> QED BY <1>1, <1>2, <2>1, <2>2
<1>3. ASSUME NEW b \in Boards, WriteBootloader(b)
      PROVE  Chain' /\ PairingStep
  <2>1. /\ bus' = [bus EXCEPT ![b] = "away"] /\ bus[b] = "dfu" /\ job.key = DfuOf(b)
        /\ job'.pc = "record" /\ job'.key = job.key /\ UNCHANGED <<pairings, acted>>
    BY <1>0, <1>3 DEF WriteBootloader, JobGoes
  <2>2. \A c \in Boards : DfuOf(c) = job.key => c = b
    BY <2>1 DEF Undisturbed, NoTwins
  <2>3. Elsewhere'
    BY <1>0, <1>a, <2>1, <2>2 DEF Chain, Elsewhere, WatchTypeOK
  <2>4. FreshCopies'
    BY <1>a, <2>1 DEF Chain, FreshCopies
  <2> QED BY <1>1, <2>1, <2>3, <2>4
<1>c. ASSUME NEW b \in Boards, WriteBreaksOff(b)
      PROVE  Chain' /\ PairingStep
  <2>1. /\ bus' = bus \/ bus' = [bus EXCEPT ![b] = "away"]
        /\ bus[b] = "dfu" /\ job'.pc = "idle" /\ UNCHANGED <<pairings, acted>>
    BY <1>c DEF WriteBreaksOff, IdleJob
  <2>2. \A d \in Boards : bus[d] = "katapult" => bus'[d] = "katapult"
    BY <1>0, <2>1
  <2>3. Elsewhere'
    BY <1>0, <1>a, <2>1, <2>2 DEF Chain, Elsewhere, WatchTypeOK
  <2>4. FreshCopies'
    BY <1>a, <2>1 DEF Chain, FreshCopies
  <2> QED BY <1>1, <2>1, <2>3, <2>4
<1>4. CASE WriteRefused \/ JobEnds \/ \E t \in Types, b \in Boards : AddMcuStart(t, b)
  <2>1. job'.pc \in {"idle", "writing"} /\ UNCHANGED <<bus, pairings, acted>>
    BY <1>4 DEF WriteRefused, JobEnds, AddMcuStart, IdleJob, JobOnly
  <2>2. Elsewhere' /\ FreshCopies'
    BY <1>a, <2>1 DEF Chain, Elsewhere, FreshCopies
  <2> QED BY <1>1, <2>1, <2>2
<1>5. CASE ReadToRecord
  <2>1. /\ job'.pc = "recording" /\ job'.key = job.key /\ job'.data = pairings
        /\ job.pc = "record" /\ UNCHANGED <<bus, pairings, acted>>
        /\ watch.pc \notin {"forgetting", "pruning"}
    BY <1>0, <1>5 DEF ReadToRecord, MayRead, May, Undisturbed, Spared, JobOnly
  <2>2. Elsewhere' /\ FreshCopies'
    BY <1>a, <2>1 DEF Chain, Elsewhere, FreshCopies
  <2> QED BY <1>1, <2>1, <2>2
<1>6. CASE RecordPairing
  <2>1. /\ job.pc = "recording" /\ job.data = pairings /\ job.key \in Keys /\ job.type \in Types
        /\ pairings' = [pairings EXCEPT ![job.key] = [type |-> job.type, old |-> FALSE]]
        /\ acted' = acted \ {job.key} /\ job'.pc = "waiting" /\ bus' = bus
    BY <1>0, <1>6 DEF RecordPairing, Chain, FreshCopies, JobOnly
  <2>2. Elsewhere' /\ FreshCopies'
    BY <1>a, <2>1 DEF Chain, Elsewhere, FreshCopies
  <2>3. HasAdopted => DfuOf(watch.at) # job.key
    BY <2>1 DEF HasAdopted, Chain, Elsewhere
  <2>4. \A k \in acted' : pairings'[k] = pairings[k] /\ k \in acted /\ k # job.key
    BY <1>0, <2>1 DEF Pairings
  <2>5. ActedAreGone'
    BY ZenonT(40), <1>a, <1>b, <2>1, <2>3, <2>4 DEF Chain, ActedAreGone, NoPairing
  <2>6. \A k \in Keys : pairings'[k].type = NoType => pairings[k].type = NoType
    BY <1>0, <2>1 DEF Pairings
  <2> QED BY <1>a, <2>2, <2>5, <2>6 DEF Chain, PairingStep
<1>7. ASSUME NEW k \in Keys, Expire(k)
      PROVE  Chain' /\ PairingStep
  <2>1. /\ pairings[k].type # NoType /\ job.pc \notin Recording /\ watch.pc = "idle"
        /\ pairings' = [pairings EXCEPT ![k].old = TRUE] /\ UNCHANGED <<bus, job, acted>>
    BY <1>7 DEF Expire
  <2>2. k \notin acted
    BY <2>1 DEF Chain, ActedAreGone, HasAdopted, NoPairing
  <2>3. Elsewhere' /\ FreshCopies'
    BY <1>a, <2>1 DEF Chain, Elsewhere, FreshCopies
  <2>4. \A j \in acted : pairings'[j] = pairings[j]
    BY <1>0, <2>1, <2>2 DEF Pairings
  <2>5. ActedAreGone'
    BY <1>a, <1>b, <2>1, <2>4 DEF Chain, ActedAreGone
  <2>6. \A j \in Keys : pairings'[j].type = pairings[j].type
    BY <1>0, <2>1 DEF Pairings
  <2> QED BY <1>a, <2>3, <2>5, <2>6 DEF Chain, PairingStep
<1>8. ASSUME NEW b \in Boards, Arrive(b)
      PROVE  Chain' /\ PairingStep
  <2>1. /\ bus' = [bus EXCEPT ![b] = "katapult"] /\ job.pc \notin Recording
        /\ UNCHANGED <<pairings, job, acted>>
    BY <1>8 DEF Arrive, May, Undisturbed, Spared, BoardsOnly
  <2>2. Elsewhere'
    BY <1>0, <1>a, <2>1 DEF Chain, Elsewhere, WatchTypeOK
  <2>3. FreshCopies'
    BY <1>a, <2>1 DEF Chain, FreshCopies
  <2> QED BY <1>1, <2>1, <2>2, <2>3
<1>9. ASSUME NEW b \in Boards,
             ArriveInDfu(b) \/ Leave(b) \/ \E t \in Types : CliInstall(t, b)
      PROVE  Chain' /\ PairingStep
  BY <1>2, <1>9 DEF ArriveInDfu, Leave, CliInstall, BoardsOnly, May, Undisturbed, Spared
<1> QED BY <1>3, <1>c, <1>4, <1>5, <1>6, <1>7, <1>8, <1>9 DEF JobStep

\* The watcher.
LEMMA ChainWatch ==
  ASSUME Inv, Chain, Undisturbed, WatchStep \/ Reset
  PROVE  Chain' /\ PairingStep
<1> USE DEF AtABoard
<1>0. /\ RegistryTypeOK /\ (\A y \in Editors : Stage(y)) /\ WatchTypeOK /\ pairings \in Pairings
      /\ UNCHANGED <<bus, job, acted, scenario>> /\ (\A b : DfuOf(b)' = DfuOf(b))
      /\ Watcher \in Editors /\ ~AdoptionSaved
      /\ \A b \in Boards : DfuOf(b) \in Keys
  <2>1. UNCHANGED <<bus, job, acted, scenario>>
    BY DEF WatchStep, Reset, Poll, HandlerFails, Look, AdoptNext, AdoptEnds, ReadToForget,
       Forget, ReadToPrune, Prune, WatchOnly, envVars
  <2>2. ~AdoptionSaved
    BY DEF WatchStep, Reset, Poll, HandlerFails, Look, AdoptNext, AdoptEnds, ReadToForget,
       Forget, ReadToPrune, Prune, regVars, Busy, AdoptionSaved, Begin
  <2> QED BY <2>1, <2>2, ScenarioBounds DEF Inv, RegistryInv, AdoptionTypeOK, DfuOf, Editors
\* Nothing is handled before or after.
<1>1. ASSUME watch.pc \in {"idle", "look"}, watch'.pc \in {"idle", "look"}, pairings' = pairings
      PROVE  Chain' /\ PairingStep
  BY <1>0, <1>1 DEF Chain, Elsewhere, FreshCopies, ActedAreGone, HasAdopted, PairingStep
<1>2. CASE Poll \/ HandlerFails
  <2>1. watch.pc \in {"idle", "look"} /\ pairings' = pairings
    BY <1>2 DEF Poll, HandlerFails
  <2>2. watch'.pc \in {"idle", "look"}
    <3>1. CASE Poll
      BY <1>0, <3>1 DEF Poll, WatchTypeOK
    <3>2. CASE HandlerFails
      BY <3>2 DEF HandlerFails, HandlerReturns, Quiet
    <3> QED BY <1>2, <3>1, <3>2
  <2> QED BY <1>1, <2>1, <2>2
<1>3. CASE Reset
  <2>1. /\ watch'.pc = watch.pc /\ watch'.todo = watch.todo /\ watch'.at = watch.at
        /\ watch'.data = watch.data /\ pc' = pc /\ edit' = edit /\ pairings' = pairings
    BY <1>0, <1>3 DEF Reset, WatchTypeOK, regVars
  <2> QED BY <1>0, <2>1 DEF Chain, Elsewhere, FreshCopies, ActedAreGone, HasAdopted, PairingStep
<1>4. CASE Look
  <2>1. CASE pairings = NoPairings
    BY <1>0, <1>1, <1>4, <2>1 DEF Look, HandlerReturns, Quiet
  <2>2. CASE pairings # NoPairings
    <3>1. /\ watch'.pc = "next" /\ watch'.todo = Unique(OnBus \ AllTracked(file))
          /\ watch.pc = "look" /\ pairings' = pairings
      BY <1>0, <1>4, <2>2 DEF Look, WatchTypeOK
    <3>2. \A b \in watch'.todo : bus[b] = "katapult"
      BY <3>1 DEF Unique, OnBus
    <3> QED BY <1>0, <3>1, <3>2
            DEF Chain, Elsewhere, FreshCopies, ActedAreGone, HasAdopted, PairingStep
  <2> QED BY <2>1, <2>2
<1>5. ASSUME NEW b \in Boards, AdoptNext(b)
      PROVE  Chain' /\ PairingStep
  <2> DEFINE t == TypeFor(DfuOf(b))
  <2>1. watch.pc = "next" /\ b \in watch.todo /\ bus[b] = "katapult" /\ pairings' = pairings
    BY <1>5 DEF AdoptNext, Chain, Elsewhere
  <2>2. CASE t \in watch.known
    <3>1. /\ watch'.pc = "adopting" /\ watch'.at = b /\ watch'.todo \subseteq watch.todo
          /\ pc'[Watcher] = "locking" /\ edit'[Watcher].board = b
      <4>1. /\ watch' = [watch EXCEPT !.pc = "adopting", !.todo = @ \ {b}, !.at = b]
            /\ Begin(Watcher, [op |-> "adopt", type |-> t, board |-> b])
        BY <1>5, <2>2 DEF AdoptNext
      <4> HIDE DEF t
      <4> QED BY <1>0, <4>1 DEF Begin, Go, RegistryTypeOK, WatchTypeOK
    <3>2. t # NoType
      BY <1>0, <2>2 DEF WatchTypeOK
    <3>3. pairings[DfuOf(b)] # NoPairing
      BY <3>2 DEF TypeFor, NoPairing
    <3>4. DfuOf(b) \notin acted
      BY <2>1, <3>3 DEF Chain, ActedAreGone, HasAdopted
    <3> QED BY <1>0, <2>1, <3>1, <3>4
            DEF Chain, Elsewhere, FreshCopies, ActedAreGone, HasAdopted, PairingStep
  <2>3. CASE t \notin watch.known
    <3>1. watch'.pc = "next" /\ watch'.todo \subseteq watch.todo
      BY <1>0, <1>5, <2>1, <2>3 DEF AdoptNext, WatchTypeOK
    <3> QED BY <1>0, <2>1, <3>1
            DEF Chain, Elsewhere, FreshCopies, ActedAreGone, HasAdopted, PairingStep
  <2> QED BY <2>2, <2>3
<1>6. CASE AdoptEnds
  <2>1. /\ watch.pc = "adopting" /\ pc[Watcher] \in {"idle", "refused"} /\ pairings' = pairings
        /\ pc'[Watcher] = "idle" /\ edit'[Watcher].op = "none" /\ watch'.todo = watch.todo
    BY <1>0, <1>6 DEF AdoptEnds, Busy, NoEdit, RegistryTypeOK, WatchGoes, WatchTypeOK
  <2>2. CASE pc[Watcher] = "idle" /\ edit[Watcher].op = "adopt"
    <3>1. watch'.pc = "forget" /\ watch'.at = watch.at
      BY <1>0, <1>6, <2>2 DEF AdoptEnds, WatchGoes, WatchTypeOK
    <3> QED BY <1>0, <2>1, <2>2, <3>1
            DEF Chain, Elsewhere, FreshCopies, ActedAreGone, HasAdopted, PairingStep
  <2>3. CASE ~(pc[Watcher] = "idle" /\ edit[Watcher].op = "adopt")
    <3>1. watch'.pc = "next"
      BY <1>0, <1>6, <2>3 DEF AdoptEnds, WatchTypeOK
    <3> QED BY <1>0, <2>1, <2>3, <3>1
            DEF Chain, Elsewhere, FreshCopies, ActedAreGone, HasAdopted, PairingStep
  <2> QED BY <2>2, <2>3
<1>7. CASE ReadToForget
  <2>1. /\ watch.pc = "forget" /\ watch'.pc = "forgetting" /\ watch'.at = watch.at
        /\ watch'.todo = watch.todo /\ watch'.data = pairings /\ pairings' = pairings
        /\ job.pc # "recording"
    BY <1>0, <1>7 DEF ReadToForget, MayRead, May, Undisturbed, Spared, WatchTypeOK
  <2> QED BY <1>0, <2>1
          DEF Chain, Elsewhere, FreshCopies, ActedAreGone, HasAdopted, PairingStep
<1>8. CASE Forget
  <2> DEFINE key == DfuOf(watch.at)
  <2>1. /\ watch.pc = "forgetting" /\ watch.data = pairings /\ key \in acted /\ key \in Keys
        /\ watch'.pc = "next" /\ watch'.todo = watch.todo /\ job.pc # "recording"
    BY <1>0, <1>8 DEF Forget, Chain, Elsewhere, FreshCopies, ActedAreGone, HasAdopted, WatchTypeOK
  <2> HIDE DEF key
  <2>2. pairings'[key] = NoPairing /\ \A k \in Keys \ {key} : pairings'[k] = pairings[k]
    BY <1>0, <1>8, <2>1 DEF Forget, Pairings, key
  <2>3. \A k \in acted : k \in Keys
    BY DEF Inv, AdoptionTypeOK
  <2>4. ActedAreGone'
    BY <1>0, <2>1, <2>2, <2>3 DEF Chain, ActedAreGone, HasAdopted, key
  <2>5. Elsewhere' /\ FreshCopies'
    BY <1>0, <2>1 DEF Chain, Elsewhere, FreshCopies
  <2> QED BY <1>0, <2>1, <2>2, <2>4, <2>5 DEF Chain, PairingStep
<1>9. CASE ReadToPrune
  <2>1. /\ watch.pc = "next" /\ watch'.pc = "pruning" /\ watch'.todo = watch.todo
        /\ watch'.data = pairings /\ pairings' = pairings /\ job.pc # "recording"
    BY <1>0, <1>9 DEF ReadToPrune, MayRead, May, Undisturbed, Spared, WatchTypeOK
  <2> QED BY <1>0, <2>1
          DEF Chain, Elsewhere, FreshCopies, ActedAreGone, HasAdopted, PairingStep
<1>10. CASE Prune
  <2>1. /\ watch.pc = "pruning" /\ watch.data = pairings /\ watch'.pc = "idle"
        /\ job.pc # "recording"
    BY <1>0, <1>10 DEF Prune, Chain, FreshCopies, HandlerReturns, Quiet
  <2>2. \A k \in Keys : \/ pairings'[k] = pairings[k]
                        \/ pairings'[k] = NoPairing /\ pairings[k].old
    BY <1>10, <2>1 DEF Prune
  <2>3. \A k \in acted : k \in Keys
    BY DEF Inv, AdoptionTypeOK
  <2>4. ActedAreGone'
    BY <1>0, <2>1, <2>2, <2>3 DEF Chain, ActedAreGone, HasAdopted
  <2>5. Elsewhere' /\ FreshCopies'
    BY <1>0, <2>1 DEF Chain, Elsewhere, FreshCopies
  <2> QED BY <1>0, <2>2, <2>4, <2>5 DEF Chain, PairingStep
<1> QED BY <1>2, <1>3, <1>4, <1>5, <1>6, <1>7, <1>8, <1>9, <1>10 DEF WatchStep

LEMMA ChainNext ==
  ASSUME Inv, Chain, Undisturbed, [Next]_vars
  PROVE  Chain' /\ PairingStep
<1>0. RegistryTypeOK /\ scenario' = scenario /\ Editors = Requests \cup Clis \cup {Watcher}
  BY ScenarioStays DEF Inv, RegistryInv, Editors
<1>1. ASSUME NEW r \in Requests, PanelEdits(r) \/ PanelSets(r)
      PROVE  Chain' /\ PairingStep
  <2>1. /\ pc'[Watcher] = pc[Watcher] /\ edit'[Watcher] = edit[Watcher]
        /\ UNCHANGED <<bus, pairings, job, watch, acted>>
    BY <1>0, <1>1 DEF PanelEdits, PanelSets, StartPanelEdit, StartSettings, Begin, Go,
       RegistryTypeOK
  <2> QED BY <1>0, <2>1, ChainRests
<1>2. ASSUME NEW c \in Clis, CliEdits(c)
      PROVE  Chain' /\ PairingStep
  <2>1. /\ pc'[Watcher] = pc[Watcher] /\ edit'[Watcher] = edit[Watcher]
        /\ UNCHANGED <<bus, pairings, job, watch, acted>>
    BY <1>0, <1>2 DEF CliEdits, StartCliEdit, Go, RegistryTypeOK
  <2> QED BY <1>0, <2>1, ChainRests
<1>3. CASE UNCHANGED vars
  BY <1>0, <1>3, ChainRests DEF vars, regVars
<1>4. ~AgentDies /\ \A c \in Clis : ~CliDies(c)
  BY DEF AgentDies, CliDies, May, Undisturbed, Spared
<1> QED BY <1>1, <1>2, <1>3, <1>4, ChainEditStep, ChainOutside, ChainWatch DEF Next

\* PairingsActOnce: on a quiet bus where no two boards share a DFU serial, with an
\* agent that does not die, a pairing is consumed by the adoption it led to.
THEOREM PairingsAreConsumed == Spec => PairingsActOnce
<1> DEFINE IChain == Undisturbed => Chain
           Step == Undisturbed => PairingStep
<1>1. Init => IChain
  BY DEF Init, RegistryInit, Chain, Elsewhere, FreshCopies, ActedAreGone, HasAdopted, Quiet,
     IdleJob, Recording, AtABoard
<1>2. Inv /\ IChain /\ [Next]_vars => IChain' /\ Step
  BY ChainNext, ScenarioStays DEF Undisturbed, Spared, NoTwins, DfuOf
<1>3. Spec => [](Inv /\ IChain)
  BY <1>1, <1>2, Invariance, PTL DEF Spec
<1>4. Spec => [][Step]_vars
  BY <1>2, <1>3, PTL DEF Spec
<1>5. Step => (Spared({"pairings_meet", "dies", "early_board", "board_flickers"}) /\ NoTwins =>
                 /\ AdoptionSaved => DfuOf(edit[Watcher].board) \notin acted
                 /\ \A k \in Keys :
                      /\ pairings[k].type # NoType /\ ~pairings[k].old
                      /\ pairings'[k].type = NoType
                      => k \in acted)
  BY DEF Undisturbed, PairingStep
<1> QED BY <1>4, <1>5, PTL DEF PairingsActOnce

-----------------------------------------------------------------------------
(* A board is adopted as what was written to it.                            *)

\* Some board of this DFU serial holds the Katapult of type t.
Holds(key, t) == \E c \in Boards : DfuOf(c) = key /\ boot[c] = t

\* The board that was just written is not on the bus before its pairing is noted.
WrittenIsAway ==
  job.pc \in Recording =>
    \E c \in Boards : DfuOf(c) = job.key /\ boot[c] = job.type /\ bus[c] # "katapult"

\* Some board of this DFU serial was left without a Katapult, and cannot come up.
Wiped(key) == \E c \in Boards : DfuOf(c) = key /\ boot[c] = NoType /\ bus[c] # "katapult"

\* A pairing is true, unless its successor is about to be noted or the write of that
\* broke off.
PairingsAreTrue ==
  \A k \in Keys :
    \/ pairings[k].type = NoType
    \/ Holds(k, pairings[k].type) \/ Wiped(k)
    \/ job.pc \in Recording /\ job.key = k

\* What the handler saw stays, and no two of the boards it goes through look alike.
SeenStays ==
  watch.pc \notin {"idle", "look"} =>
    /\ \A b \in watch.seen : bus[b] = "katapult"
    /\ \A b \in watch.todo, c \in watch.seen : DfuOf(c) = DfuOf(b) => c = b

TrueOrHidden(b, t) ==
  \/ boot[b] = t
  \/ \E c \in Boards \ {b} : DfuOf(c) = DfuOf(b) /\ c \notin watch.seen

\* The adoption under way is of a board that was seen, as the type that it holds.
AdoptsTrue ==
  Busy(Watcher) => /\ edit[Watcher].board \in watch.seen
                   /\ TrueOrHidden(edit[Watcher].board, edit[Watcher].type)

Truth == WrittenIsAway /\ PairingsAreTrue /\ SeenStays /\ AdoptsTrue /\ FreshCopies

NotMisled == Spared(NothingMisleads)

\* An edit changes neither a board nor a pairing.
LEMMA TruthRests ==
  ASSUME Inv, Truth, UNCHANGED <<bus, boot, pairings, job, watch, scenario>>,
         Busy(Watcher)' =>
           /\ Busy(Watcher)
           /\ edit'[Watcher].board = edit[Watcher].board /\ edit'[Watcher].type = edit[Watcher].type
  PROVE  Truth'
BY DEF Truth, WrittenIsAway, PairingsAreTrue, Holds, Wiped, SeenStays, AdoptsTrue, TrueOrHidden,
       FreshCopies, DfuOf

LEMMA TruthEditStep ==
  ASSUME Inv, Truth, NEW x \in Editors, EditStep(x)
  PROVE  Truth'
<1> USE DEF Go, Busy
<1>0. /\ RegistryTypeOK /\ (\A y \in Editors : Stage(y))
      /\ Editors = Requests \cup Clis \cup {Watcher}
      /\ UNCHANGED <<bus, boot, pairings, job, watch, scenario>>
  BY DEF Inv, RegistryInv, Editors, EditStep, envVars
<1>1. CASE x # Watcher
  <2>1. pc'[Watcher] = pc[Watcher] /\ edit'[Watcher] = edit[Watcher]
    BY <1>0, <1>1 DEF EditStep, EditorStep, TakeLock, LockBusy, Load, Refuse, LoadForSettings,
       Save, Release, Dropped, Ended, RegistryTypeOK
  <2> QED BY <1>0, <2>1, TruthRests
<1>2. CASE x = Watcher
  <2>1. CASE Load(Watcher)
    <3>1. edit[Watcher] \in Edit /\ edit[Watcher].op \in {"adopt", "keep"} /\ Busy(Watcher)
      BY <1>0, <2>1 DEF RegistryTypeOK, Stage, Load
    <3> DEFINE e == WhatIsLeftToDo(edit[Watcher], file)
    <3>2. e.board = edit[Watcher].board /\ e.type = edit[Watcher].type
      BY <3>1 DEF WhatIsLeftToDo, Edit
    <3>3. edit'[Watcher] = e
      BY <1>0, <2>1 DEF Load, RegistryTypeOK
    <3> QED BY <1>0, <3>1, <3>2, <3>3, TruthRests
  <2>2. CASE TakeLock(Watcher) \/ LockBusy(Watcher) \/ Refuse(Watcher) \/ Release(Watcher)
    <3>1. Busy(Watcher) /\ edit'[Watcher] = edit[Watcher]
      BY <1>0, <2>2 DEF TakeLock, LockBusy, Refuse, Release, Dropped, RegistryTypeOK
    <3> QED BY <1>0, <3>1, TruthRests
  <2>3. CASE Save(Watcher)
    <3>1. Busy(Watcher) /\ edit'[Watcher] = edit[Watcher]
      BY <1>0, <2>3 DEF Save, Dropped, RegistryTypeOK
    <3> QED BY <1>0, <3>1, TruthRests
  <2>4. ~LoadForSettings(Watcher)
    BY <1>0 DEF LoadForSettings, Stage
  <2> QED BY <1>2, <2>1, <2>2, <2>3, <2>4 DEF EditStep, EditorStep
<1> QED BY <1>1, <1>2

\* The job, the boards and time leave the registry and the watcher alone.
LEMMA OutsideRests ==
  ASSUME \/ JobStep
         \/ \E t \in Types, b \in Boards : AddMcuStart(t, b) \/ CliInstall(t, b)
         \/ \E b \in Boards : Arrive(b) \/ ArriveInDfu(b) \/ Leave(b)
         \/ \E k \in Keys : Expire(k)
  PROVE  UNCHANGED <<regVars, watch, scenario>> /\ \A b : DfuOf(b)' = DfuOf(b)
<1>1. CASE JobStep
  BY <1>1 DEF JobStep, WriteBootloader, WriteBreaksOff, WriteRefused, ReadToRecord,
     RecordPairing, JobEnds, JobOnly, envVars, DfuOf
<1>2. CASE \E t \in Types, b \in Boards : AddMcuStart(t, b) \/ CliInstall(t, b)
  BY <1>2 DEF AddMcuStart, CliInstall, JobOnly, BoardsOnly, envVars, DfuOf
<1>3. CASE \E b \in Boards : Arrive(b) \/ ArriveInDfu(b) \/ Leave(b)
  BY <1>3 DEF Arrive, ArriveInDfu, Leave, BoardsOnly, envVars, DfuOf
<1>4. CASE \E k \in Keys : Expire(k)
  BY <1>4 DEF Expire, envVars, DfuOf
<1> QED BY <1>1, <1>2, <1>3, <1>4

\* The job, the boards, and time.
LEMMA TruthOutside ==
  ASSUME Inv, Truth, NotMisled,
         \/ JobStep
         \/ \E t \in Types, b \in Boards : AddMcuStart(t, b) \/ CliInstall(t, b)
         \/ \E b \in Boards : Arrive(b) \/ ArriveInDfu(b) \/ Leave(b)
         \/ \E k \in Keys : Expire(k)
  PROVE  Truth'
<1> USE DEF Recording
<1>0. /\ WatchTypeOK /\ pairings \in Pairings
      /\ bus \in [Boards -> {"away", "dfu", "katapult"}]
      /\ boot \in [Boards -> Types \cup {NoType}]
      /\ job \in [pc : {"idle", "writing", "record", "recording", "waiting"},
                  type : Types \cup {NoType}, key : Keys \cup {NoKey}, data : Pairings]
      /\ job.pc # "idle" => job.type \in Types /\ job.key \in Keys
      /\ \A b \in Boards : DfuOf(b) \in Keys
      /\ Busy(Watcher) => watch.pc = "adopting"
  BY ScenarioBounds DEF Inv, RegistryInv, Stage, Editors, AdoptionTypeOK, JobKnowsItsBoard, DfuOf
<1>a. UNCHANGED <<regVars, watch, scenario>> /\ (\A b : DfuOf(b)' = DfuOf(b))
  BY OutsideRests
<1>b. pc' = pc /\ edit' = edit /\ watch' = watch
  BY <1>a DEF regVars
\* What the adoption knows holds on while the board on the bus keeps its Katapult.
<1>1. ASSUME \A b \in watch.seen : watch.pc \in {"idle", "look"} \/ boot'[b] = boot[b]
      PROVE  AdoptsTrue'
  BY <1>0, <1>1, <1>a, <1>b DEF Truth, AdoptsTrue, TrueOrHidden, Busy
<1>2. ASSUME UNCHANGED <<bus, boot>>
      PROVE  SeenStays' /\ AdoptsTrue'
  BY <1>1, <1>2, <1>a DEF Truth, SeenStays
\* A board that is not on the bus, or leaves while nothing is handled.
<1>3. ASSUME NEW b \in Boards,
             bus' = [bus EXCEPT ![b] = "away"] \/ bus' = [bus EXCEPT ![b] = "dfu"],
             bus[b] # "katapult" \/ watch.pc = "idle", UNCHANGED <<boot, job, pairings>>
      PROVE  Truth'
  <2>1. SeenStays'
    BY <1>0, <1>3, <1>a DEF Truth, SeenStays, WatchTypeOK
  <2>2. WrittenIsAway'
    <3> SUFFICES ASSUME job.pc \in Recording
                 PROVE  \E c \in Boards : DfuOf(c) = job.key /\ boot[c] = job.type
                                          /\ bus'[c] # "katapult"
      BY <1>3, <1>a DEF WrittenIsAway
    <3>1. PICK c \in Boards : DfuOf(c) = job.key /\ boot[c] = job.type /\ bus[c] # "katapult"
      BY DEF Truth, WrittenIsAway
    <3>2. bus'[c] # "katapult"
      BY <1>0, <1>3, <3>1
    <3> QED BY <3>1, <3>2
  <2>3. \A k \in Keys : Wiped(k) => Wiped(k)'
    BY <1>0, <1>3, <1>a DEF Wiped
  <2>4. PairingsAreTrue' /\ FreshCopies'
    BY <1>3, <1>a, <2>3 DEF Truth, PairingsAreTrue, Holds, FreshCopies
  <2> QED BY <1>1, <1>3, <2>1, <2>2, <2>4 DEF Truth
<1>4. ASSUME NEW b \in Boards, WriteBootloader(b)
      PROVE  Truth'
  <2>1. /\ bus' = [bus EXCEPT ![b] = "away"] /\ bus[b] = "dfu" /\ job.key = DfuOf(b)
        /\ boot' = [boot EXCEPT ![b] = job.type]
        /\ job'.pc = "record" /\ job'.key = job.key /\ job'.type = job.type
        /\ pairings' = pairings /\ job.pc = "writing"
    BY <1>0, <1>4 DEF WriteBootloader, JobGoes
  <2>2. watch.pc \notin {"idle", "look"} => b \notin watch.seen
    BY <2>1 DEF Truth, SeenStays
  <2>3. SeenStays'
    BY <1>0, <1>a, <2>1, <2>2 DEF Truth, SeenStays, WatchTypeOK
  <2>4. AdoptsTrue'
    BY <1>0, <1>1, <2>1, <2>2 DEF WatchTypeOK
  <2>5. WrittenIsAway'
    BY <1>0, <1>a, <2>1 DEF WrittenIsAway
  <2>6. PairingsAreTrue'
    <3> SUFFICES ASSUME NEW k \in Keys, k # job.key, pairings[k].type # NoType
                 PROVE  (Holds(k, pairings[k].type) \/ Wiped(k))'
      BY <2>1 DEF PairingsAreTrue
    <3>1. PICK c \in Boards :
            /\ DfuOf(c) = k
            /\ boot[c] = pairings[k].type \/ (boot[c] = NoType /\ bus[c] # "katapult")
      BY <2>1 DEF Truth, PairingsAreTrue, Holds, Wiped
    <3>2. boot'[c] = boot[c] /\ bus'[c] = bus[c]
      BY <1>0, <2>1, <3>1
    <3> QED BY <1>a, <2>1, <3>1, <3>2 DEF Holds, Wiped
  <2>7. FreshCopies'
    BY <1>a, <2>1 DEF Truth, FreshCopies
  <2> QED BY <2>3, <2>4, <2>5, <2>6, <2>7 DEF Truth
\* What the board may have held it holds no more, but it does not come up either.
<1>c. ASSUME NEW b \in Boards, WriteBreaksOff(b)
      PROVE  Truth'
  <2>1. /\ bus' = bus \/ bus' = [bus EXCEPT ![b] = "away"]
        /\ boot' = [boot EXCEPT ![b] = NoType] /\ bus[b] = "dfu"
        /\ job'.pc = "idle" /\ job.pc = "writing" /\ pairings' = pairings
    BY <1>c DEF WriteBreaksOff, IdleJob, May, NotMisled, NothingMisleads, Spared
  <2>2. bus'[b] # "katapult" /\ boot'[b] = NoType
        /\ \A c \in Boards \ {b} : bus'[c] = bus[c] /\ boot'[c] = boot[c]
    BY <1>0, <2>1
  <2>3. watch.pc \notin {"idle", "look"} => b \notin watch.seen
    BY <2>1 DEF Truth, SeenStays
  <2>4. SeenStays'
    BY <1>0, <1>a, <2>2, <2>3 DEF Truth, SeenStays, WatchTypeOK
  <2>5. AdoptsTrue'
    BY <1>0, <1>1, <2>2, <2>3 DEF WatchTypeOK
  <2>6. PairingsAreTrue'
    <3> SUFFICES ASSUME NEW k \in Keys, pairings[k].type # NoType
                 PROVE  (Holds(k, pairings[k].type) \/ Wiped(k))'
      BY <2>1 DEF PairingsAreTrue
    <3>1. PICK c \in Boards :
            /\ DfuOf(c) = k
            /\ boot[c] = pairings[k].type \/ (boot[c] = NoType /\ bus[c] # "katapult")
      BY <2>1 DEF Truth, PairingsAreTrue, Holds, Wiped, Recording
    <3>2. CASE c = b
      BY <1>a, <2>2, <3>1, <3>2 DEF Wiped
    <3>3. CASE c # b
      BY <1>a, <2>1, <2>2, <3>1, <3>3 DEF Holds, Wiped
    <3> QED BY <3>2, <3>3
  <2>7. WrittenIsAway' /\ FreshCopies'
    BY <1>a, <2>1 DEF Truth, WrittenIsAway, FreshCopies, Recording
  <2> QED BY <2>4, <2>5, <2>6, <2>7 DEF Truth
<1>5. CASE WriteRefused \/ JobEnds \/ \E t \in Types, b \in Boards : AddMcuStart(t, b)
  <2>1. /\ job'.pc \in {"idle", "writing"} /\ job.pc \notin Recording
        /\ UNCHANGED <<bus, boot, pairings>>
    BY <1>5 DEF WriteRefused, JobEnds, AddMcuStart, IdleJob, JobOnly
  <2> QED BY <1>2, <1>a, <2>1
          DEF Truth, WrittenIsAway, PairingsAreTrue, Holds, Wiped, FreshCopies
<1>6. CASE ReadToRecord
  <2>1. /\ job'.pc = "recording" /\ job'.key = job.key /\ job'.data = pairings
        /\ job'.type = job.type /\ job.pc = "record" /\ UNCHANGED <<bus, boot, pairings>>
        /\ watch.pc \notin {"forgetting", "pruning"}
    BY <1>0, <1>6 DEF ReadToRecord, MayRead, May, NotMisled, NothingMisleads, Spared, JobOnly
  <2> QED BY <1>2, <1>a, <2>1
          DEF Truth, WrittenIsAway, PairingsAreTrue, Holds, Wiped, FreshCopies
<1>7. CASE RecordPairing
  <2>1. /\ job.pc = "recording" /\ job.data = pairings /\ job.key \in Keys /\ job.type \in Types
        /\ pairings' = [pairings EXCEPT ![job.key] = [type |-> job.type, old |-> FALSE]]
        /\ job'.pc = "waiting" /\ UNCHANGED <<bus, boot>>
    BY <1>0, <1>7 DEF RecordPairing, Truth, FreshCopies, JobOnly
  <2>2. Holds(job.key, job.type)
    BY <2>1 DEF Truth, WrittenIsAway, Holds
  <2>3. PairingsAreTrue'
    <3> SUFFICES ASSUME NEW k \in Keys, pairings'[k].type # NoType
                 PROVE  Holds(k, pairings'[k].type) \/ Wiped(k)
      BY <1>a, <2>1 DEF PairingsAreTrue, Holds, Wiped
    <3>1. CASE k = job.key
      <4>1. pairings'[k].type = job.type
        BY <1>0, <2>1, <3>1 DEF Pairings
      <4> QED BY <2>2, <3>1, <4>1
    <3>2. CASE k # job.key
      <4>1. pairings'[k] = pairings[k]
        BY <1>0, <2>1, <3>2 DEF Pairings
      <4> QED BY <2>1, <3>2, <4>1 DEF Truth, PairingsAreTrue
    <3> QED BY <3>1, <3>2
  <2>4. WrittenIsAway' /\ FreshCopies'
    BY <1>a, <2>1 DEF Truth, WrittenIsAway, FreshCopies
  <2> QED BY <1>2, <2>1, <2>3, <2>4 DEF Truth
<1>8. ASSUME NEW k \in Keys, Expire(k)
      PROVE  Truth'
  <2>1. /\ job.pc \notin Recording /\ watch.pc = "idle"
        /\ pairings' = [pairings EXCEPT ![k].old = TRUE] /\ UNCHANGED <<bus, boot, job>>
    BY <1>8 DEF Expire
  <2>2. \A j \in Keys : pairings'[j].type = pairings[j].type
    BY <1>0, <2>1 DEF Pairings
  <2>3. PairingsAreTrue'
    BY <1>a, <2>1, <2>2 DEF Truth, PairingsAreTrue, Holds, Wiped
  <2>4. WrittenIsAway' /\ FreshCopies'
    BY <1>a, <2>1 DEF Truth, WrittenIsAway, FreshCopies
  <2> QED BY <1>2, <2>1, <2>3, <2>4 DEF Truth
<1>9. ASSUME NEW b \in Boards, Arrive(b)
      PROVE  Truth'
  <2>1. /\ bus' = [bus EXCEPT ![b] = "katapult"] /\ job.pc \notin Recording
        /\ boot[b] # NoType /\ UNCHANGED <<boot, pairings, job>>
    BY <1>9 DEF Arrive, May, NotMisled, NothingMisleads, Spared, BoardsOnly
  <2>2. SeenStays'
    BY <1>0, <1>a, <2>1 DEF Truth, SeenStays, WatchTypeOK
  <2>3. \A k \in Keys : Wiped(k) => Wiped(k)'
    BY <1>0, <1>a, <2>1 DEF Wiped
  <2>4. WrittenIsAway' /\ PairingsAreTrue' /\ FreshCopies'
    BY <1>a, <2>1, <2>3 DEF Truth, WrittenIsAway, PairingsAreTrue, Holds, FreshCopies
  <2> QED BY <1>1, <2>1, <2>2, <2>4 DEF Truth
<1>10. ASSUME NEW b \in Boards, ArriveInDfu(b) \/ Leave(b)
       PROVE  Truth'
  BY <1>3, <1>10 DEF ArriveInDfu, Leave, BoardsOnly, May, NotMisled, NothingMisleads, Spared
<1>11. \A t \in Types, b \in Boards : ~CliInstall(t, b)
  BY DEF CliInstall, May, NotMisled, NothingMisleads, Spared
<1> QED BY <1>4, <1>c, <1>5, <1>6, <1>7, <1>8, <1>9, <1>10, <1>11 DEF JobStep

\* The watcher.
LEMMA TruthWatch ==
  ASSUME Inv, Truth, NotMisled, WatchStep \/ Reset
  PROVE  Truth'
<1>0. /\ RegistryTypeOK /\ (\A y \in Editors : Stage(y)) /\ WatchTypeOK /\ pairings \in Pairings
      /\ UNCHANGED <<bus, boot, job, scenario>> /\ (\A b : DfuOf(b)' = DfuOf(b))
      /\ Watcher \in Editors /\ (Busy(Watcher) => watch.pc = "adopting")
      /\ \A b \in Boards : DfuOf(b) \in Keys
  <2>1. UNCHANGED <<bus, boot, job, scenario>>
    BY DEF WatchStep, Reset, Poll, HandlerFails, Look, AdoptNext, AdoptEnds, ReadToForget,
       Forget, ReadToPrune, Prune, WatchOnly, envVars
  <2> QED BY <2>1, ScenarioBounds DEF Inv, RegistryInv, AdoptionTypeOK, Stage, DfuOf, Editors
\* The watcher leaves the boards, the job and the pairings alone.
<1>1. ASSUME pairings' = pairings, SeenStays', AdoptsTrue', FreshCopies'
      PROVE  Truth'
  BY <1>0, <1>1 DEF Truth, WrittenIsAway, PairingsAreTrue, Holds, Wiped
\* It drops what a fresh copy says is to be dropped.
<1>2. ASSUME \A k \in Keys : pairings'[k] = pairings[k] \/ pairings'[k] = NoPairing,
             SeenStays', AdoptsTrue', FreshCopies'
      PROVE  Truth'
  BY <1>0, <1>2 DEF Truth, WrittenIsAway, PairingsAreTrue, Holds, Wiped, NoPairing
\* Nothing is handled before or after.
<1>3. ASSUME watch.pc \in {"idle", "look"}, watch'.pc \in {"idle", "look"}, pairings' = pairings,
             UNCHANGED regVars
      PROVE  Truth'
  <2>1. ~Busy(Watcher) /\ ~Busy(Watcher)'
    BY <1>0, <1>3 DEF regVars, Busy
  <2> QED BY <1>0, <1>1, <1>3, <2>1 DEF Truth, SeenStays, AdoptsTrue, FreshCopies
<1>4. CASE Poll \/ HandlerFails
  <2>1. watch.pc \in {"idle", "look"} /\ pairings' = pairings /\ UNCHANGED regVars
    BY <1>4 DEF Poll, HandlerFails
  <2>2. watch'.pc \in {"idle", "look"}
    <3>1. CASE Poll
      BY <1>0, <3>1 DEF Poll, WatchTypeOK
    <3>2. CASE HandlerFails
      BY <3>2 DEF HandlerFails, HandlerReturns, Quiet
    <3> QED BY <1>4, <3>1, <3>2
  <2> QED BY <1>3, <2>1, <2>2
<1>5. CASE Reset
  <2>1. /\ watch'.pc = watch.pc /\ watch'.todo = watch.todo /\ watch'.seen = watch.seen
        /\ watch'.data = watch.data /\ pc' = pc /\ edit' = edit /\ pairings' = pairings
    BY <1>0, <1>5 DEF Reset, WatchTypeOK, regVars
  <2> QED BY <1>0, <1>1, <2>1
          DEF Truth, SeenStays, AdoptsTrue, TrueOrHidden, FreshCopies, Busy
<1>6. CASE Look
  <2>1. CASE pairings = NoPairings
    BY <1>0, <1>3, <1>6, <2>1 DEF Look, HandlerReturns, Quiet
  <2>2. CASE pairings # NoPairings
    <3> DEFINE untracked == OnBus \ AllTracked(file)
    <3>1. /\ watch'.pc = "next" /\ watch'.seen = untracked /\ watch'.todo = Unique(untracked)
          /\ watch.pc = "look" /\ pairings' = pairings /\ UNCHANGED regVars
      BY <1>0, <1>6, <2>2 DEF Look, WatchTypeOK
    <3>2. /\ \A b \in untracked : bus[b] = "katapult"
          /\ \A b \in Unique(untracked), c \in untracked : DfuOf(c) = DfuOf(b) => c = b
      BY DEF OnBus, Unique
    <3> HIDE DEF untracked
    <3>3. SeenStays'
      BY <1>0, <3>1, <3>2 DEF SeenStays
    <3>4. AdoptsTrue' /\ FreshCopies'
      BY <1>0, <3>1 DEF Truth, AdoptsTrue, FreshCopies, Busy, regVars
    <3> QED BY <1>1, <3>1, <3>3, <3>4
  <2> QED BY <2>1, <2>2
<1>7. ASSUME NEW b \in Boards, AdoptNext(b)
      PROVE  Truth'
  <2> DEFINE t == TypeFor(DfuOf(b))
  <2>1. watch.pc = "next" /\ b \in watch.todo /\ b \in watch.seen /\ pairings' = pairings
    BY <1>0, <1>7 DEF AdoptNext, WatchTypeOK
  <2>2. CASE t \in watch.known
    <3>1. /\ watch' = [watch EXCEPT !.pc = "adopting", !.todo = @ \ {b}, !.at = b]
          /\ Begin(Watcher, [op |-> "adopt", type |-> t, board |-> b])
      BY <1>7, <2>2 DEF AdoptNext
    <3>2. t # NoType
      BY <1>0, <2>2 DEF WatchTypeOK
    <3>3. pairings[DfuOf(b)].type = t
      BY <3>2 DEF TypeFor
    <3>4. TrueOrHidden(b, t)
      <4>1. CASE Holds(DfuOf(b), t)
        <5>1. PICK c \in Boards : DfuOf(c) = DfuOf(b) /\ boot[c] = t
          BY <4>1 DEF Holds
        <5>2. CASE c = b
          BY <5>1, <5>2 DEF TrueOrHidden
        <5>3. CASE c # b
          <6>1. c \notin watch.seen
            BY <2>1, <5>1, <5>3 DEF Truth, SeenStays
          <6> QED BY <5>1, <5>3, <6>1 DEF TrueOrHidden
        <5> QED BY <5>2, <5>3
      <4>a. CASE Wiped(DfuOf(b))
        <5>1. PICK c \in Boards : DfuOf(c) = DfuOf(b) /\ bus[c] # "katapult"
          BY <4>a DEF Wiped
        <5>2. c \notin watch.seen
          BY <2>1, <5>1 DEF Truth, SeenStays
        <5> QED BY <2>1, <5>1, <5>2 DEF TrueOrHidden
      <4>2. CASE ~Holds(DfuOf(b), t) /\ ~Wiped(DfuOf(b))
        <5>1. job.pc \in Recording /\ job.key = DfuOf(b)
          BY <1>0, <3>2, <3>3, <4>2 DEF Truth, PairingsAreTrue
        <5>2. PICK c \in Boards : DfuOf(c) = DfuOf(b) /\ bus[c] # "katapult"
          BY <5>1 DEF Truth, WrittenIsAway
        <5>3. c \notin watch.seen
          BY <2>1, <5>2 DEF Truth, SeenStays
        <5> QED BY <2>1, <5>2, <5>3 DEF TrueOrHidden
      <4> QED BY <4>1, <4>a, <4>2
    <3> HIDE DEF t
    <3>5. /\ watch'.pc = "adopting" /\ watch'.seen = watch.seen
          /\ watch'.todo \subseteq watch.todo
      BY <1>0, <3>1 DEF WatchTypeOK
    <3>6. edit'[Watcher].board = b /\ edit'[Watcher].type = t
      BY <1>0, <3>1 DEF Begin, RegistryTypeOK
    <3>7. SeenStays'
      BY <1>0, <2>1, <3>5 DEF Truth, SeenStays
    <3>8. AdoptsTrue'
      BY <1>0, <2>1, <3>4, <3>5, <3>6 DEF AdoptsTrue, TrueOrHidden
    <3>9. FreshCopies'
      BY <1>0, <2>1, <3>5 DEF Truth, FreshCopies
    <3> QED BY <1>1, <2>1, <3>7, <3>8, <3>9
  <2>3. CASE t \notin watch.known
    <3>1. /\ watch'.pc = "next" /\ watch'.todo \subseteq watch.todo
          /\ watch'.seen = watch.seen /\ UNCHANGED regVars
      BY <1>0, <1>7, <2>1, <2>3 DEF AdoptNext, WatchTypeOK
    <3> QED BY <1>0, <1>1, <2>1, <3>1
            DEF Truth, SeenStays, AdoptsTrue, FreshCopies, Busy, regVars
  <2> QED BY <2>2, <2>3
<1>8. CASE AdoptEnds
  <2>1. /\ watch.pc = "adopting" /\ pairings' = pairings /\ pc'[Watcher] = "idle"
        /\ watch'.todo = watch.todo /\ watch'.seen = watch.seen
        /\ watch'.pc \in {"forget", "next"}
    BY ZenonT(40), <1>0, <1>8 DEF AdoptEnds, RegistryTypeOK, WatchGoes, WatchTypeOK
  <2> QED BY <1>0, <1>1, <2>1 DEF Truth, SeenStays, AdoptsTrue, FreshCopies, Busy
<1>9. CASE ReadToForget \/ ReadToPrune
  <2>1. /\ watch.pc \in {"forget", "next"} /\ watch'.pc \in {"forgetting", "pruning"}
        /\ watch'.todo = watch.todo /\ watch'.seen = watch.seen
        /\ watch'.data = pairings /\ pairings' = pairings /\ UNCHANGED regVars
        /\ job.pc # "recording"
    BY <1>0, <1>9 DEF ReadToForget, ReadToPrune, MayRead, May, NotMisled, NothingMisleads,
       Spared, WatchTypeOK
  <2> QED BY <1>0, <1>1, <2>1
          DEF Truth, SeenStays, AdoptsTrue, FreshCopies, Busy, regVars
<1>10. CASE Forget
  <2> DEFINE key == DfuOf(watch.at)
  <2>1. /\ watch.pc = "forgetting" /\ watch.data = pairings /\ watch'.seen = watch.seen
        /\ watch'.pc = "next" /\ watch'.todo = watch.todo /\ job.pc # "recording"
        /\ UNCHANGED regVars
    BY <1>0, <1>10 DEF Forget, Truth, FreshCopies, WatchTypeOK
  <2> HIDE DEF key
  <2>2. \A k \in Keys : pairings'[k] = pairings[k] \/ pairings'[k] = NoPairing
    BY <1>0, <1>10, <2>1 DEF Forget, Pairings, key
  <2>3. SeenStays' /\ AdoptsTrue' /\ FreshCopies'
    BY <1>0, <2>1 DEF Truth, SeenStays, AdoptsTrue, FreshCopies, Busy, regVars
  <2> QED BY <1>2, <2>2, <2>3
<1>11. CASE Prune
  <2>1. /\ watch.pc = "pruning" /\ watch.data = pairings /\ watch'.pc = "idle"
        /\ job.pc # "recording" /\ UNCHANGED regVars
    BY <1>0, <1>11 DEF Prune, Truth, FreshCopies, HandlerReturns, Quiet
  <2>2. \A k \in Keys : pairings'[k] = pairings[k] \/ pairings'[k] = NoPairing
    BY <1>11, <2>1 DEF Prune
  <2>3. SeenStays' /\ AdoptsTrue' /\ FreshCopies'
    BY <1>0, <2>1 DEF Truth, SeenStays, AdoptsTrue, FreshCopies, Busy, regVars
  <2> QED BY <1>2, <2>2, <2>3
<1> QED BY <1>4, <1>5, <1>6, <1>7, <1>8, <1>9, <1>10, <1>11 DEF WatchStep

LEMMA TruthNext ==
  ASSUME Inv, Truth, NotMisled, [Next]_vars
  PROVE  Truth'
<1>0. RegistryTypeOK /\ scenario' = scenario /\ Editors = Requests \cup Clis \cup {Watcher}
  BY ScenarioStays DEF Inv, RegistryInv, Editors
<1>1. ASSUME NEW r \in Requests, PanelEdits(r) \/ PanelSets(r)
      PROVE  Truth'
  <2>1. /\ pc'[Watcher] = pc[Watcher] /\ edit'[Watcher] = edit[Watcher]
        /\ UNCHANGED <<bus, boot, pairings, job, watch>>
    BY <1>0, <1>1 DEF PanelEdits, PanelSets, StartPanelEdit, StartSettings, Begin, Go,
       RegistryTypeOK
  <2> QED BY <1>0, <2>1, TruthRests DEF Busy
<1>2. ASSUME NEW c \in Clis, CliEdits(c)
      PROVE  Truth'
  <2>1. /\ pc'[Watcher] = pc[Watcher] /\ edit'[Watcher] = edit[Watcher]
        /\ UNCHANGED <<bus, boot, pairings, job, watch>>
    BY <1>0, <1>2 DEF CliEdits, StartCliEdit, Go, RegistryTypeOK
  <2> QED BY <1>0, <2>1, TruthRests DEF Busy
<1>3. CASE UNCHANGED vars
  BY <1>0, <1>3, TruthRests DEF vars, regVars, Busy
<1>4. ~AgentDies /\ \A c \in Clis : ~CliDies(c)
  BY DEF AgentDies, CliDies, May, NotMisled, NothingMisleads, Spared
<1> QED BY <1>1, <1>2, <1>3, <1>4, TruthEditStep, TruthOutside, TruthWatch DEF Next

\* AdoptsWhatWasWritten: as long as every write is noted in time, no stale copy of the
\* pairings is written and no board drops out at the wrong moment, a board without a twin
\* is adopted as what it was given, and one with a twin too unless that was away, in DFU
\* mode or tracked already when the watcher looked.
THEOREM AdoptionsAreTrue == Spec => AdoptsWhatWasWritten
<1> DEFINE ITruth == NotMisled => Truth
           Right == AdoptedAsWritten \/ ~(Twins(edit[Watcher].board) \subseteq watch.seen)
           Step == Spared(NothingMisleads) /\ AdoptionSaved => Right
<1>1. Init => ITruth
  <2> SUFFICES ASSUME Init PROVE Truth
    OBVIOUS
  <2>1. \A k \in Keys : pairings[k].type = NoType
    BY DEF Init, NoPairings, NoPairing
  <2> QED BY <2>1 DEF Init, RegistryInit, Truth, WrittenIsAway, PairingsAreTrue, SeenStays,
          AdoptsTrue, FreshCopies, Quiet, IdleJob, Recording, Busy, Editors
<1>2. Inv /\ ITruth /\ [Next]_vars => ITruth'
  BY TruthNext, ScenarioStays DEF NotMisled, Spared
<1>3. ITruth => Step
  BY DEF NotMisled, AdoptionSaved, Truth, AdoptsTrue, TrueOrHidden, Busy, AdoptedAsWritten, Twins
<1>4. Spec => [](Inv /\ ITruth)
  BY <1>1, <1>2, Invariance, PTL DEF Spec
<1>5. Spec => [][Step]_vars
  BY <1>3, <1>4, PTL DEF Spec
<1> QED BY <1>5 DEF AdoptsWhatWasWritten

-----------------------------------------------------------------------------
(* Every board that a pairing speaks for is adopted.                        *)

Settling ==
  Spared({"early_board", "board_flickers", "handler_fails", "pairings_meet"}) /\ edits = 0

\* Nobody but the watcher edits, so that it is neither refused nor kept waiting, and what
\* it is at becomes tracked.
OnlyAdoptions ==
  /\ \A x \in Editors \ {Watcher} : ~Busy(x)
  /\ file.types = Types
  /\ lock \in {Nobody, Watcher}
  /\ lock = Watcher => pc[Watcher] \in {"locked", "loaded", "saved"}
  /\ pc[Watcher] # "refused"
  /\ pc[Watcher] = "loaded" => text[Watcher] = Apply(edit[Watcher], file)
  /\ watch.pc = "adopting" =>
       /\ edit[Watcher].op \in {"adopt", "keep"}
       /\ edit[Watcher].board = watch.at /\ edit[Watcher].type \in Types
       /\ pc[Watcher] \in {"saved", "idle"} \/ edit[Watcher].op = "keep" =>
            watch.at \in AllTracked(file)
  /\ watch.pc \in {"forget", "forgetting"} => watch.at \in AllTracked(file)

\* The board that was just written is not on the bus; its twin may be.
Twinless(b) == \A c \in Boards : DfuOf(c) = DfuOf(b) => c = b
WrittenIsOff ==
  job.pc \in Recording =>
    \A b \in Boards : DfuOf(b) = job.key /\ Twinless(b) => bus[b] # "katapult"

\* Of the boards that the fingerprint holds, those that are owed an adoption are before
\* the watcher.
NoneForgotten ==
  /\ watch.pc \in {"idle", "pruning"} => watch.todo = {}
  /\ watch.pc \notin {"idle", "look", "pruning"} => watch.known = Types
  /\ watch.pc # "look" =>
       \A b \in Boards \cap watch.last :
         Owed(b) => b \in watch.todo \/ (watch.pc = "adopting" /\ b = watch.at)

Settled == OnlyAdoptions /\ FreshCopies /\ WrittenIsOff /\ NoneForgotten

\* No board comes to be owed an adoption while none comes to the bus, none is untracked
\* and no pairing is noted.
LEMMA OwedAlready ==
  ASSUME Inv, scenario' = scenario, NEW b \in Boards, Owed(b)',
         bus[b] = "katapult", file.types = Types, file'.types = Types,
         AllTracked(file) \subseteq AllTracked(file)',
         pairings'[DfuOf(b)] = pairings[DfuOf(b)] \/ pairings'[DfuOf(b)] = NoPairing
           \/ pairings'[DfuOf(b)].old
  PROVE  Owed(b)
<1> DEFINE k == DfuOf(b)
<1>1. (\A c : DfuOf(c)' = DfuOf(c)) /\ NoPairing.type \notin Types
  BY DEF DfuOf, NoPairing
<1>2. /\ b \notin AllTracked(file)' /\ \A c \in Boards : DfuOf(c) = k => c = b
      /\ pairings'[k].type \in Types /\ ~pairings'[k].old
  BY <1>1 DEF Owed
<1>3. pairings[k].type \in Types /\ ~pairings[k].old
  BY <1>1, <1>2
<1> HIDE DEF k
<1> QED BY <1>2, <1>3 DEF Owed, k

LEMMA SettledEditStep ==
  ASSUME Inv, Settled, NEW x \in Editors, EditStep(x)
  PROVE  Settled'
<1> USE DEF Go, Busy
<1>0. /\ RegistryTypeOK /\ (\A y \in Editors : Stage(y)) /\ RegistryTypeOK'
      /\ Editors = Requests \cup Clis \cup {Watcher}
      /\ UNCHANGED <<bus, pairings, job, watch, scenario>>
  BY EditInv DEF Inv, RegistryInv, Editors, EditStep, envVars, Next
<1>1. Busy(x)
  BY DEF EditStep, EditorStep, TakeLock, LockBusy, Load, Refuse, LoadForSettings, Save, Release
<1>2. x = Watcher
  BY <1>1 DEF Settled, OnlyAdoptions
<1>3. watch.pc = "adopting" /\ pc[Watcher] \notin {"idle", "refused"}
  BY <1>0, <1>1, <1>2 DEF Stage
<1>4. \A y \in Editors \ {Watcher} : pc'[y] = pc[y]
  <2>1. \E there : pc' = [pc EXCEPT ![Watcher] = there]
    BY <1>2 DEF EditStep, EditorStep, TakeLock, LockBusy, Load, Refuse, LoadForSettings, Save,
       Release
  <2> QED BY <1>0, <2>1 DEF RegistryTypeOK
\* What is left to show of a step.
<1>5. ASSUME OnlyAdoptions', AllTracked(file) \subseteq AllTracked(file')
      PROVE  Settled'
  <2>1. FreshCopies' /\ WrittenIsOff'
    BY <1>0 DEF Settled, FreshCopies, WrittenIsOff, Twinless, DfuOf
  <2>2. NoneForgotten'
    <3> SUFFICES ASSUME NEW b \in Boards \cap watch.last, Owed(b)'
                 PROVE  b \in watch.todo \/ b = watch.at
      BY <1>0, <1>3 DEF Settled, NoneForgotten
    <3>1. bus[b] = "katapult"
      BY <1>0 DEF Owed
    <3>2. Owed(b)
      BY <1>0, <1>5, <3>1, OwedAlready DEF Settled, OnlyAdoptions
    <3> QED BY <1>3, <3>2 DEF Settled, NoneForgotten
  <2> QED BY <1>5, <2>1, <2>2 DEF Settled
<1> USE <1>0, <1>3, <1>4 DEF Settled, OnlyAdoptions
<1>6. CASE TakeLock(Watcher)
  <2>1. /\ pc[Watcher] = "locking" /\ pc'[Watcher] = "locked" /\ lock' = Watcher
        /\ UNCHANGED <<file, edit, text>>
    BY <1>6 DEF TakeLock, RegistryTypeOK
  <2> QED BY <1>5, <2>1
<1>7. ~LockBusy(Watcher)
  BY DEF LockBusy
<1>8. ~Refuse(Watcher)
  BY DEF Refuse, Accepts
<1>9. CASE Load(Watcher)
  <2> DEFINE e == WhatIsLeftToDo(edit[Watcher], file)
  <2>1. edit[Watcher] \in Edit /\ edit[Watcher].op \in {"adopt", "keep"}
    BY DEF RegistryTypeOK
  <2>2. /\ e.op \in {"adopt", "keep"} /\ e.board = watch.at /\ e.type \in Types
        /\ e.op = "keep" => watch.at \in AllTracked(file)
    BY <2>1 DEF WhatIsLeftToDo, Edit, AllTracked
  <2>3. /\ pc[Watcher] = "locked" /\ pc'[Watcher] = "loaded" /\ UNCHANGED <<file, lock>>
        /\ edit'[Watcher] = e /\ text'[Watcher] = Apply(e, file)
    BY <1>9 DEF Load, RegistryTypeOK
  <2>4. lock = Watcher
    BY <2>1, <2>3 DEF Stage, Unlocked
  <2> HIDE DEF e
  <2> QED BY <1>5, <2>2, <2>3, <2>4
<1>10. CASE Save(Watcher)
  <2> DEFINE e == edit[Watcher]
  <2>1. e \in Edit /\ e.op \in {"adopt", "keep"} /\ e.board = watch.at /\ e.type \in Types
    BY DEF RegistryTypeOK
  <2>2. /\ pc[Watcher] = "loaded" /\ pc'[Watcher] = "saved" /\ lock' = lock
        /\ file' = Apply(e, file) /\ edit' = edit
    BY <1>10, <2>1 DEF Save, Unlocked, RegistryTypeOK
  <2>3. file'.types = Types /\ AllTracked(file) \subseteq AllTracked(file')
        /\ watch.at \in AllTracked(file')
    <3>1. CASE e.op = "adopt"
      <4>1. file' = [file EXCEPT !.tracked[e.type] = @ \cup {e.board}]
        BY <2>2, <3>1 DEF Apply
      <4>2. /\ file'.types = file.types
            /\ \A t \in Types : file'.tracked[t] = IF t = e.type THEN file.tracked[t] \cup {e.board}
                                                   ELSE file.tracked[t]
        BY <2>1, <4>1 DEF RegistryTypeOK, Content
      <4> HIDE DEF e
      <4>3. watch.at \in file'.tracked[e.type]
        BY <2>1, <4>2
      <4>4. \A t \in Types : file.tracked[t] \subseteq file'.tracked[t]
        BY <4>2
      <4> QED BY <2>1, <4>2, <4>3, <4>4 DEF AllTracked
    <3>2. CASE e.op = "keep"
      BY <2>2, <3>2 DEF Apply
    <3> QED BY <2>1, <3>1, <3>2
  <2>4. lock = Watcher
    BY <2>1, <2>2 DEF Stage, Unlocked
  <2> QED BY <1>5, <2>1, <2>2, <2>3, <2>4
<1>11. CASE Release(Watcher)
  <2>1. /\ pc[Watcher] = "saved" /\ pc'[Watcher] = "idle" /\ lock' = Nobody
        /\ UNCHANGED <<file, edit>>
    BY <1>11 DEF Release, Dropped, RegistryTypeOK
  <2> QED BY <1>5, <2>1
<1>12. ~LoadForSettings(Watcher)
  BY DEF LoadForSettings, Stage
<1> QED BY <1>2, <1>6, <1>7, <1>8, <1>9, <1>10, <1>11, <1>12 DEF EditStep, EditorStep

\* The job, the boards, and time.
LEMMA SettledOutside ==
  ASSUME Inv, Settled, Settling,
         \/ JobStep
         \/ \E t \in Types, b \in Boards : AddMcuStart(t, b) \/ CliInstall(t, b)
         \/ \E b \in Boards : Arrive(b) \/ ArriveInDfu(b) \/ Leave(b)
         \/ \E k \in Keys : Expire(k)
  PROVE  Settled'
<1> USE DEF Recording
<1>0. /\ WatchTypeOK /\ pairings \in Pairings
      /\ bus \in [Boards -> {"away", "dfu", "katapult"}]
      /\ job \in [pc : {"idle", "writing", "record", "recording", "waiting"},
                  type : Types \cup {NoType}, key : Keys \cup {NoKey}, data : Pairings]
      /\ job.pc # "idle" => job.type \in Types /\ job.key \in Keys
      /\ \A b \in Boards : DfuOf(b) \in Keys
      /\ Settled /\ file.types = Types
  BY ScenarioBounds
     DEF Inv, AdoptionTypeOK, JobKnowsItsBoard, DfuOf, Settled, OnlyAdoptions
<1>a. UNCHANGED <<regVars, watch, scenario>> /\ (\A b : DfuOf(b)' = DfuOf(b))
  BY OutsideRests
<1>b. OnlyAdoptions' /\ UNCHANGED file
  BY <1>a DEF Settled, OnlyAdoptions, regVars, Busy
\* No board that the fingerprint holds comes to be owed an adoption.
<1>1. ASSUME \A b \in Boards \cap watch.last : Owed(b)' =>
               /\ bus[b] = "katapult"
               /\ \/ pairings'[DfuOf(b)] = pairings[DfuOf(b)]
                  \/ pairings'[DfuOf(b)].old
      PROVE  NoneForgotten'
  <2> SUFFICES ASSUME NEW b \in Boards \cap watch.last, Owed(b)', watch.pc # "look"
               PROVE  b \in watch.todo \/ (watch.pc = "adopting" /\ b = watch.at)
    BY <1>a DEF Settled, NoneForgotten
  <2>1. Owed(b)
    BY <1>0, <1>1, <1>a, <1>b, OwedAlready
  <2> QED BY <2>1 DEF Settled, NoneForgotten
\* A board that is not on the bus, or leaves it.
<1>2. ASSUME NEW b \in Boards,
             bus' = [bus EXCEPT ![b] = "away"] \/ bus' = [bus EXCEPT ![b] = "dfu"],
             UNCHANGED <<job, pairings>>
      PROVE  Settled'
  <2>1. \A c \in Boards : bus'[c] = "katapult" => bus[c] = "katapult"
    BY <1>0, <1>2
  <2>2. NoneForgotten'
    BY <1>1, <1>2, <2>1 DEF Owed
  <2>3. WrittenIsOff' /\ FreshCopies'
    BY <1>2, <1>a, <2>1 DEF Settled, WrittenIsOff, Twinless, FreshCopies
  <2> QED BY <1>b, <2>2, <2>3 DEF Settled
<1>3. ASSUME NEW b \in Boards, WriteBootloader(b)
      PROVE  Settled'
  <2>1. /\ bus' = [bus EXCEPT ![b] = "away"] /\ job.key = DfuOf(b)
        /\ job'.pc = "record" /\ job'.key = job.key
        /\ pairings' = pairings /\ job.pc = "writing"
    BY <1>0, <1>3 DEF WriteBootloader, JobGoes
  <2>2. \A c \in Boards : bus'[c] = "katapult" => bus[c] = "katapult" /\ c # b
    BY <1>0, <2>1
  <2>3. NoneForgotten'
    BY <1>1, <2>1, <2>2 DEF Owed
  <2>4. WrittenIsOff'
    BY <1>a, <2>1, <2>2 DEF WrittenIsOff, Twinless
  <2>5. FreshCopies'
    BY <1>a, <2>1 DEF Settled, FreshCopies
  <2> QED BY <1>b, <2>3, <2>4, <2>5 DEF Settled
<1>c. ASSUME NEW b \in Boards, WriteBreaksOff(b)
      PROVE  Settled'
  <2>1. /\ bus' = bus \/ bus' = [bus EXCEPT ![b] = "away"]
        /\ job'.pc = "idle" /\ pairings' = pairings
    BY <1>c DEF WriteBreaksOff, IdleJob
  <2>2. \A d \in Boards : bus'[d] = "katapult" => bus[d] = "katapult"
    BY <1>0, <2>1
  <2>3. NoneForgotten'
    BY <1>1, <2>1, <2>2 DEF Owed
  <2>4. WrittenIsOff' /\ FreshCopies'
    BY <1>a, <2>1 DEF Settled, WrittenIsOff, FreshCopies
  <2> QED BY <1>b, <2>3, <2>4 DEF Settled
<1>4. CASE WriteRefused \/ JobEnds \/ \E t \in Types, b \in Boards : AddMcuStart(t, b)
  <2>1. job'.pc \in {"idle", "writing"} /\ UNCHANGED <<bus, pairings>>
    BY <1>4 DEF WriteRefused, JobEnds, AddMcuStart, IdleJob, JobOnly
  <2>2. NoneForgotten'
    BY <1>1, <2>1 DEF Owed
  <2> QED BY <1>a, <1>b, <2>1, <2>2 DEF Settled, WrittenIsOff, FreshCopies
<1>5. CASE ReadToRecord
  <2>1. /\ job'.pc = "recording" /\ job'.key = job.key /\ job'.data = pairings
        /\ job.pc = "record" /\ UNCHANGED <<bus, pairings>>
        /\ watch.pc \notin {"forgetting", "pruning"}
    BY <1>0, <1>5 DEF ReadToRecord, MayRead, May, Settling, Spared, JobOnly
  <2>2. NoneForgotten'
    BY <1>1, <2>1 DEF Owed
  <2> QED BY <1>a, <1>b, <2>1, <2>2 DEF Settled, WrittenIsOff, Twinless, FreshCopies
<1>6. CASE RecordPairing
  <2>1. /\ job.pc = "recording" /\ job.data = pairings /\ job.key \in Keys
        /\ pairings' = [pairings EXCEPT ![job.key] = [type |-> job.type, old |-> FALSE]]
        /\ job'.pc = "waiting" /\ bus' = bus
        /\ watch.pc \notin {"forgetting", "pruning"}
    BY <1>0, <1>6 DEF RecordPairing, Settled, FreshCopies, JobOnly
  <2>2. ASSUME NEW b \in Boards, Owed(b)'
        PROVE  bus[b] = "katapult" /\ pairings'[DfuOf(b)] = pairings[DfuOf(b)]
    <3>1. bus[b] = "katapult" /\ Twinless(b)
      BY <1>a, <2>1, <2>2 DEF Owed, Twinless
    <3>2. DfuOf(b) # job.key
      BY <2>1, <3>1 DEF Settled, WrittenIsOff
    <3> QED BY <1>0, <2>1, <3>1, <3>2 DEF Pairings
  <2>3. NoneForgotten'
    BY <1>1, <2>2
  <2> QED BY <1>a, <1>b, <2>1, <2>3 DEF Settled, WrittenIsOff, FreshCopies
<1>7. ASSUME NEW k \in Keys, Expire(k)
      PROVE  Settled'
  <2>1. /\ job.pc \notin Recording /\ watch.pc = "idle"
        /\ pairings' = [pairings EXCEPT ![k].old = TRUE] /\ UNCHANGED <<bus, job>>
    BY <1>7 DEF Expire
  <2>2. \A j \in Keys : pairings'[j] = pairings[j] \/ pairings'[j].old
    BY <1>0, <2>1 DEF Pairings
  <2>3. NoneForgotten'
    BY <1>0, <1>1, <1>a, <2>1, <2>2 DEF Owed
  <2> QED BY <1>a, <1>b, <2>1, <2>3 DEF Settled, WrittenIsOff, FreshCopies
<1>8. ASSUME NEW b \in Boards, Arrive(b)
      PROVE  Settled'
  <2>1. /\ bus' = [bus EXCEPT ![b] = "katapult"] /\ job.pc \notin Recording
        /\ UNCHANGED <<pairings, job>> /\ b \notin watch.last
    BY <1>8 DEF Arrive, May, Settling, Spared, BoardsOnly
  <2>2. NoneForgotten'
    BY <1>0, <1>1, <2>1 DEF Owed
  <2> QED BY <1>a, <1>b, <2>1, <2>2 DEF Settled, WrittenIsOff, FreshCopies
<1>9. ASSUME NEW b \in Boards,
             ArriveInDfu(b) \/ Leave(b) \/ \E t \in Types : CliInstall(t, b)
      PROVE  Settled'
  BY <1>2, <1>9 DEF ArriveInDfu, Leave, CliInstall, BoardsOnly
<1> QED BY <1>3, <1>c, <1>4, <1>5, <1>6, <1>7, <1>8, <1>9 DEF JobStep

\* The watcher.
LEMMA SettledWatch ==
  ASSUME Inv, Settled, Settling, WatchStep \/ Reset
  PROVE  Settled'
<1>0. /\ RegistryTypeOK /\ WatchTypeOK /\ pairings \in Pairings /\ Watcher \in Editors
      /\ UNCHANGED <<bus, job, scenario>> /\ (\A b : DfuOf(b)' = DfuOf(b))
      /\ (\A b \in Boards : DfuOf(b) \in Keys) /\ file.types = Types
      /\ (Busy(Watcher) => watch.pc = "adopting")
  <2>1. UNCHANGED <<bus, job, scenario>>
    BY DEF WatchStep, Reset, Poll, HandlerFails, Look, AdoptNext, AdoptEnds, ReadToForget,
       Forget, ReadToPrune, Prune, WatchOnly, envVars
  <2> QED BY <2>1, ScenarioBounds
          DEF Inv, RegistryInv, AdoptionTypeOK, Stage, DfuOf, Editors, Settled, OnlyAdoptions
<1>1. ASSUME OnlyAdoptions', FreshCopies', NoneForgotten'
      PROVE  Settled'
  BY <1>0, <1>1 DEF Settled, WrittenIsOff, Twinless
\* A step that is no step of the registry, and after which nothing is being adopted.
<1>2. ASSUME UNCHANGED regVars, watch'.pc # "adopting",
             watch'.pc \in {"forget", "forgetting"} =>
               watch'.at = watch.at /\ watch.pc \in {"forget", "forgetting"}
      PROVE  OnlyAdoptions'
  BY <1>2 DEF Settled, OnlyAdoptions, regVars, Busy
\* No pairing is noted, and boards leave the todo list when they are not owed anything.
<1>3. ASSUME watch'.last = watch.last, watch.pc # "look", file' = file,
             \A k \in Keys : pairings'[k] = pairings[k] \/ pairings'[k] = NoPairing,
             \A b \in Boards \cap watch.last :
               Owed(b) /\ (b \in watch.todo \/ (watch.pc = "adopting" /\ b = watch.at)) =>
                 b \in watch'.todo \/ (watch'.pc = "adopting" /\ b = watch'.at)
      PROVE  \A b \in Boards \cap watch'.last :
               Owed(b)' => b \in watch'.todo \/ (watch'.pc = "adopting" /\ b = watch'.at)
  <2> SUFFICES ASSUME NEW b \in Boards \cap watch.last, Owed(b)'
               PROVE  b \in watch'.todo \/ (watch'.pc = "adopting" /\ b = watch'.at)
    BY <1>3
  <2>1. bus[b] = "katapult"
    BY <1>0 DEF Owed
  <2>2. Owed(b)
    BY <1>0, <1>3, <2>1, OwedAlready
  <2> QED BY <1>3, <2>2 DEF Settled, NoneForgotten
<1>4. CASE Poll
  <2>1. /\ watch.pc = "idle" /\ watch'.pc = "look" /\ pairings' = pairings /\ UNCHANGED regVars
    BY <1>0, <1>4 DEF Poll, WatchTypeOK
  <2>2. OnlyAdoptions'
    BY <1>2, <2>1
  <2> QED BY <1>0, <1>1, <2>1, <2>2 DEF Settled, FreshCopies, NoneForgotten
<1>5. ~HandlerFails
  BY DEF HandlerFails, May, Settling, Spared
<1>6. CASE Reset
  <2>1. /\ watch'.pc = watch.pc /\ watch'.todo = watch.todo /\ watch'.known = watch.known
        /\ watch'.at = watch.at /\ watch'.data = watch.data /\ Boards \cap watch'.last = {}
        /\ UNCHANGED regVars /\ pairings' = pairings
    BY <1>0, <1>6 DEF Reset, WatchTypeOK, Never
  <2>2. OnlyAdoptions'
    BY <2>1 DEF Settled, OnlyAdoptions, regVars, Busy
  <2> QED BY <1>0, <1>1, <2>1, <2>2 DEF Settled, FreshCopies, NoneForgotten
<1>7. CASE Look
  <2>1. watch.pc = "look" /\ pairings' = pairings /\ UNCHANGED regVars
    BY <1>7 DEF Look
  <2>2. ASSUME NEW b \in Boards, Owed(b)'
        PROVE  pairings # NoPairings /\ b \in Unique(OnBus \ AllTracked(file))
    <3>1. /\ bus[b] = "katapult" /\ b \notin AllTracked(file) /\ pairings[DfuOf(b)].type \in Types
          /\ \A c \in Boards : DfuOf(c) = DfuOf(b) => c = b
      BY <1>0, <2>1, <2>2 DEF Owed, regVars
    <3>2. pairings # NoPairings
      BY <1>0, <3>1 DEF NoPairings, NoPairing
    <3>3. b \in OnBus \ AllTracked(file)
      BY <3>1 DEF OnBus
    <3> QED BY <3>1, <3>2, <3>3 DEF Unique, OnBus
  <2>3. CASE pairings = NoPairings
    <3>1. watch'.pc = "idle" /\ watch'.todo = {}
      BY <1>7, <2>3 DEF Look, HandlerReturns, Quiet
    <3>2. OnlyAdoptions'
      BY <1>2, <2>1, <3>1
    <3> QED BY <1>0, <1>1, <2>1, <2>2, <2>3, <3>1, <3>2 DEF Settled, FreshCopies, NoneForgotten
  <2>4. CASE pairings # NoPairings
    <3>1. /\ watch'.pc = "next" /\ watch'.known = Types
          /\ watch'.todo = Unique(OnBus \ AllTracked(file))
      BY <1>0, <1>7, <2>4 DEF Look, WatchTypeOK
    <3>2. OnlyAdoptions'
      BY <1>2, <2>1, <3>1
    <3> QED BY <1>0, <1>1, <2>1, <2>2, <3>1, <3>2 DEF Settled, FreshCopies, NoneForgotten
  <2> QED BY <2>3, <2>4
<1>8. ASSUME NEW b \in Boards, AdoptNext(b)
      PROVE  Settled'
  <2> DEFINE t == TypeFor(DfuOf(b))
  <2>1. watch.pc = "next" /\ watch.known = Types /\ pairings' = pairings
    BY <1>8 DEF AdoptNext, Settled, NoneForgotten
  <2>2. CASE t \in Types
    <3>1. /\ watch' = [watch EXCEPT !.pc = "adopting", !.todo = @ \ {b}, !.at = b]
          /\ Begin(Watcher, [op |-> "adopt", type |-> t, board |-> b])
      BY <1>8, <2>1, <2>2 DEF AdoptNext
    <3> HIDE DEF t
    <3>2. /\ watch'.pc = "adopting" /\ watch'.todo = watch.todo \ {b} /\ watch'.at = b
          /\ watch'.last = watch.last /\ watch'.known = watch.known
      BY <1>0, <3>1 DEF WatchTypeOK
    <3>3. /\ pc'[Watcher] = "locking" /\ edit'[Watcher] = [op |-> "adopt", type |-> t, board |-> b]
          /\ UNCHANGED <<file, lock, text>>
          /\ \A x \in Editors \ {Watcher} : pc'[x] = pc[x]
      BY <1>0, <3>1 DEF Begin, Go, RegistryTypeOK
    <3>4. lock # Watcher
      BY <1>0, <2>1 DEF Settled, OnlyAdoptions, Busy
    <3>5. OnlyAdoptions'
      BY <1>0, <2>2, <3>2, <3>3, <3>4 DEF Settled, OnlyAdoptions, Busy
    <3>6. NoneForgotten'
      BY <1>3, <2>1, <3>2, <3>3 DEF NoneForgotten
    <3>7. FreshCopies'
      BY <1>0, <2>1, <3>2 DEF Settled, FreshCopies
    <3> QED BY <1>1, <3>5, <3>6, <3>7
  <2>3. CASE t \notin Types
    <3>1. /\ watch'.pc = "next" /\ watch'.todo = watch.todo \ {b}
          /\ watch'.last = watch.last /\ watch'.known = watch.known /\ UNCHANGED regVars
      BY <1>0, <1>8, <2>1, <2>3 DEF AdoptNext, WatchTypeOK
    <3>2. ~Owed(b)
      BY <1>0, <2>3 DEF Owed, TypeFor
    <3>3. NoneForgotten'
      BY <1>3, <2>1, <3>1, <3>2 DEF NoneForgotten, regVars
    <3>4. OnlyAdoptions'
      BY <1>2, <3>1
    <3>5. FreshCopies'
      BY <1>0, <2>1, <3>1 DEF Settled, FreshCopies
    <3> QED BY <1>1, <3>3, <3>4, <3>5
  <2> QED BY <2>2, <2>3
<1>9. CASE AdoptEnds
  <2>1. /\ watch.pc = "adopting" /\ pc[Watcher] = "idle" /\ pairings' = pairings
        /\ watch.at \in AllTracked(file)
    BY <1>9 DEF AdoptEnds, Settled, OnlyAdoptions, Busy
  <2>2. /\ watch'.todo = watch.todo /\ watch'.last = watch.last /\ watch'.known = watch.known
        /\ watch'.pc = "next" \/ (watch'.pc = "forget" /\ watch'.at = watch.at)
    BY ZenonT(40), <1>0, <1>9 DEF AdoptEnds, WatchGoes, WatchTypeOK
  <2>3. /\ pc'[Watcher] = "idle" /\ UNCHANGED <<file, lock, text>>
        /\ \A x \in Editors \ {Watcher} : pc'[x] = pc[x]
    BY <1>0, <1>9 DEF AdoptEnds, RegistryTypeOK
  <2>4. OnlyAdoptions'
    BY <1>0, <2>1, <2>2, <2>3 DEF Settled, OnlyAdoptions, Busy
  <2>5. ~Owed(watch.at)
    BY <2>1 DEF Owed
  <2>6. NoneForgotten'
    BY <1>3, <2>1, <2>2, <2>3, <2>5 DEF Settled, NoneForgotten
  <2>7. FreshCopies'
    BY <1>0, <2>1, <2>2 DEF Settled, FreshCopies
  <2> QED BY <1>1, <2>4, <2>6, <2>7
<1>10. CASE ReadToForget \/ ReadToPrune
  <2>1. /\ \/ watch.pc = "forget" /\ watch'.pc = "forgetting"
           \/ watch.pc = "next" /\ watch'.pc = "pruning" /\ watch.todo = {}
        /\ watch'.todo = watch.todo /\ watch'.last = watch.last /\ watch'.known = watch.known
        /\ watch'.at = watch.at /\ watch'.data = pairings /\ pairings' = pairings
        /\ UNCHANGED regVars /\ job.pc # "recording"
    BY <1>0, <1>10 DEF ReadToForget, ReadToPrune, MayRead, May, Settling, Spared, WatchTypeOK
  <2>2. OnlyAdoptions'
    BY <1>2, <2>1
  <2>3. NoneForgotten'
    BY <1>3, <2>1 DEF Settled, NoneForgotten, regVars
  <2> QED BY <1>0, <1>1, <2>1, <2>2, <2>3 DEF FreshCopies
<1>11. CASE Forget
  <2> DEFINE key == DfuOf(watch.at)
  <2>1. /\ watch.pc = "forgetting" /\ watch.data = pairings /\ watch'.pc = "next"
        /\ watch'.todo = watch.todo /\ watch'.last = watch.last /\ watch'.known = watch.known
        /\ job.pc # "recording" /\ UNCHANGED regVars
    BY <1>0, <1>11 DEF Forget, Settled, FreshCopies, WatchTypeOK
  <2> HIDE DEF key
  <2>2. \A k \in Keys : pairings'[k] = pairings[k] \/ pairings'[k] = NoPairing
    BY <1>0, <1>11, <2>1 DEF Forget, Pairings, key
  <2>3. OnlyAdoptions'
    BY <1>2, <2>1
  <2>4. NoneForgotten'
    BY <1>3, <2>1, <2>2 DEF Settled, NoneForgotten, regVars
  <2>5. FreshCopies'
    BY <1>0, <2>1 DEF Settled, FreshCopies
  <2> QED BY <1>1, <2>3, <2>4, <2>5
<1>12. CASE Prune
  <2>1. /\ watch.pc = "pruning" /\ watch.data = pairings /\ watch'.pc = "idle"
        /\ watch'.todo = {} /\ watch'.last = watch.last /\ watch.todo = {}
        /\ job.pc # "recording" /\ UNCHANGED regVars
    BY <1>0, <1>12 DEF Prune, Settled, FreshCopies, NoneForgotten, HandlerReturns, Quiet
  <2>2. \A k \in Keys : pairings'[k] = pairings[k] \/ pairings'[k] = NoPairing
    BY <1>12, <2>1 DEF Prune
  <2>3. OnlyAdoptions'
    BY <1>2, <2>1
  <2>4. NoneForgotten'
    BY <1>3, <2>1, <2>2 DEF NoneForgotten, regVars
  <2>5. FreshCopies'
    BY <1>0, <2>1 DEF Settled, FreshCopies
  <2> QED BY <1>1, <2>3, <2>4, <2>5
<1> QED BY <1>4, <1>5, <1>6, <1>7, <1>8, <1>9, <1>10, <1>11, <1>12 DEF WatchStep

LEMMA SettledNext ==
  ASSUME Inv, Settling => Settled, [Next]_vars
  PROVE  Settling' => Settled'
<1> SUFFICES ASSUME Settling' PROVE Settled'
  OBVIOUS
<1>0. scenario' = scenario /\ RegistryTypeOK
  BY ScenarioStays DEF Inv, RegistryInv
<1>a. edits \in Nat /\ edits' = 0 /\ edits + 1 # 0
  <2>1. edits \in Nat
    BY <1>0 DEF RegistryTypeOK
  <2> QED BY <2>1 DEF Settling
\* The users begin nothing.
<1>1. /\ \A r \in Requests : ~PanelEdits(r) /\ ~PanelSets(r)
      /\ \A c \in Clis : ~CliEdits(c)
  BY <1>a DEF PanelEdits, PanelSets, CliEdits, StartPanelEdit, StartSettings, StartCliEdit
<1>2. Settling
  <2>1. edits' = edits
    <3>1. CASE RegistryActions
      BY <1>1, <3>1 DEF RegistryActions, EditStep, EditorStep, TakeLock, LockBusy, Load, Refuse,
         LoadForSettings, Save, Release, AdoptNext, AdoptEnds, AgentDies, CliDies, Killed, regVars
    <3>2. CASE ~RegistryActions
      BY <3>2, OthersLeaveTheRegistry DEF regVars
    <3> QED BY <3>1, <3>2
  <2> QED BY <1>0, <2>1 DEF Settling, Spared
<1>3. Settled
  BY <1>2
<1>4. \A c \in Clis : ~CliDies(c)
  BY <1>3 DEF CliDies, Settled, OnlyAdoptions, Editors
<1>5. CASE AgentDies
  <2>1. /\ watch' = Quiet(Never) /\ job' = IdleJob /\ file' = file
        /\ \A x \in Editors : x = Watcher \/ x \in Requests => pc'[x] = "idle"
        /\ \A x \in Clis : pc'[x] = pc[x]
        /\ lock' = IF lock \in Requests \cup {Watcher} THEN Nobody ELSE lock
    BY <1>5 DEF AgentDies, Killed, Editors
  <2>2. OnlyAdoptions'
    BY <1>3, <2>1 DEF Settled, OnlyAdoptions, Editors, Busy, Quiet
  <2>3. WrittenIsOff' /\ FreshCopies' /\ NoneForgotten'
    BY <2>1 DEF WrittenIsOff, FreshCopies, NoneForgotten, Quiet, IdleJob, Never, Recording
  <2> QED BY <2>2, <2>3 DEF Settled
<1>6. CASE UNCHANGED vars
  BY <1>3, <1>6 DEF vars, regVars, Settled, OnlyAdoptions, FreshCopies, WrittenIsOff, Twinless,
     NoneForgotten, Owed, DfuOf, Busy
<1> QED BY <1>1, <1>2, <1>3, <1>4, <1>5, <1>6, SettledEditStep, SettledOutside, SettledWatch
        DEF Next

\* PairedBoardsAreAdopted: when the watcher rests, every board on the bus that a pairing
\* speaks for is tracked, however often boards came and went and the agent died.
THEOREM PairedBoardsGetAdopted == Spec => []PairedBoardsAreAdopted
<1>1. Init => (Settling => Settled)
  <2> SUFFICES ASSUME Init PROVE Settled
    OBVIOUS
  <2>1. Boards \cap Never = {}
    BY DEF Never
  <2>2. /\ file.types = Types /\ lock = Nobody
        /\ \A x \in Editors : pc[x] = "idle"
        /\ watch = Quiet(Never) /\ job = IdleJob
    BY DEF Init, RegistryInit, Blank
  <2> QED BY <2>1, <2>2 DEF Settled, OnlyAdoptions, FreshCopies, WrittenIsOff, NoneForgotten,
          Quiet, IdleJob, Recording, Busy, Editors
<1>2. Inv /\ (Settling => Settled) => PairedBoardsAreAdopted
  BY DEF PairedBoardsAreAdopted, Settling, Settled, NoneForgotten, AtRest, BusChanged, OnBus, Owed
<1>3. Inv /\ (Settling => Settled) /\ [Next]_vars => (Settling => Settled)'
  BY SettledNext
<1> QED BY <1>1, <1>2, <1>3, Invariance, PTL DEF Spec
=============================================================================
