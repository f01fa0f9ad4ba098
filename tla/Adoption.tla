----------------------------- MODULE Adoption ------------------------------
(***************************************************************************)
(* How a board that was just given a bootloader gets into the registry:    *)
(* the add_mcu job writes it over DFU and notes in the pairings file what  *)
(* it was meant to become; the bus watcher (agent/events.py) sees it come  *)
(* back and adopt_paired() (agent/methods.py) tracks it.  Meanwhile users  *)
(* edit the registry, boards come and go, and the agent may die.           *)
(***************************************************************************)
EXTENDS Registry

CONSTANTS Keys,           \* serials that boards show in DFU mode
          NoKey,          \* no job under way
          NoType,         \* no Katapult on a board, no pairing, no job
          NoBoard,        \* the watcher is at no board
          MaxInstalls,    \* no behaviour has more add_mcu jobs,
          MaxMoves,       \* nor do boards come and go, or programs die, more often
          Scenarios       \* how much of this a behaviour has, which disturbances, and
                          \* what the boards are at its beginning

Disturbance == {"edits_meet", "edit_meets_adoption", "cli_tracks_again", "cli_install",
                "pairings_meet", "early_board", "board_flickers", "handler_fails", "dies",
                "download_unreported"}

ASSUME AdoptionAssumption ==
  /\ NoType \notin Types /\ NoKey \notin Keys /\ NoBoard \notin Boards
  /\ MaxInstalls \in Nat /\ MaxMoves \in Nat
  /\ Scenarios \subseteq [edits : 0..MaxEdits, installs : 0..MaxInstalls, moves : 0..MaxMoves,
                          disturbances : SUBSET Disturbance,
                          bus : [Boards -> {"away", "dfu"}],
                          boot : [Boards -> Types \cup {NoType}],
                          dfuOf : [Boards -> Keys]]

VARIABLES bus,       \* of each board: how it is seen on the bus
          boot,      \* of each board: the type whose Katapult it holds
          pairings,  \* the pairings file: of each key, a type and whether its TTL passed
          job,       \* the worker of add_mcu
          watch,     \* the watcher thread
          acted,     \* history: the pairings that led to an adoption
          installs, moves,
          scenario   \* what this behaviour has; fixed

envVars == <<installs, moves, scenario>>
vars == <<regVars, bus, boot, pairings, job, watch, acted, installs, moves, scenario>>

\* dfu_serial_for(): a 32-bit sum of two words of the board's id, so that two boards
\* may share a DFU serial.
DfuOf(b) == scenario.dfuOf[b]

May(kind) == kind \in scenario.disturbances

NoPairing == [type |-> NoType, old |-> FALSE]
Pairings == [Keys -> [type : Types \cup {NoType}, old : BOOLEAN]]
NoPairings == [k \in Keys |-> NoPairing]

IdleJob == [pc |-> "idle", type |-> NoType, key |-> NoKey, data |-> NoPairings]

\* `last` is the fingerprint; `known` the types of the registry that adopt_paired()
\* has read, `seen` the boards untracked in it, `todo` and `at` where its loop is.
Quiet(last) == [pc |-> "idle", last |-> last, known |-> {}, seen |-> {}, todo |-> {},
                at |-> NoBoard, data |-> NoPairings]

\* The fingerprint of a watcher that has not looked yet, or was reset.
Never == {NoBoard}

TypeOK ==
  /\ RegistryTypeOK
  /\ bus \in [Boards -> {"away", "dfu", "katapult"}]
  /\ boot \in [Boards -> Types \cup {NoType}]
  /\ pairings \in Pairings
  /\ job \in [pc : {"idle", "writing", "record", "recording", "waiting"},
              type : Types \cup {NoType}, key : Keys \cup {NoKey}, data : Pairings]
  /\ watch \in [pc : {"idle", "look", "next", "adopting", "forget", "forgetting", "pruning"},
                last : (SUBSET Boards) \cup {Never}, known : SUBSET Types,
                seen : SUBSET Boards, todo : SUBSET Boards, at : Boards \cup {NoBoard},
                data : Pairings]
  /\ watch.todo \subseteq watch.seen
  /\ acted \subseteq Keys
  /\ installs \in 0..MaxInstalls /\ moves \in 0..MaxMoves
  /\ scenario \in Scenarios

Init ==
  /\ scenario \in Scenarios
  /\ RegistryInit
  /\ bus = scenario.bus /\ boot = scenario.boot
  /\ pairings = NoPairings
  /\ job = IdleJob /\ watch = Quiet(Never)
  /\ acted = {} /\ installs = 0 /\ moves = 0

OnBus == {b \in Boards : bus[b] = "katapult"}

-----------------------------------------------------------------------------
(* The users' edits.                                                        *)

SomebodyEdits == \E x \in Editors : Busy(x)

\* Without "edits_meet", an edit outside the lock meets no other edit.
MayEdit(unlocked) ==
  May("edits_meet") \/
    /\ unlocked => ~SomebodyEdits
    /\ \A x \in Editors : Busy(x) => ~Unlocked(x)

\* Without "edit_meets_adoption", nobody edits while the watcher adopts.
MayMeet == May("edit_meets_adoption") \/ watch.pc = "idle"

PanelEdits(r) ==
  /\ edits < scenario.edits /\ MayEdit(FALSE) /\ MayMeet
  /\ \E e \in Edit : StartPanelEdit(r, e)
  /\ UNCHANGED <<bus, boot, pairings, job, watch, acted>> /\ UNCHANGED envVars

PanelSets(r) ==
  /\ edits < scenario.edits /\ MayEdit(TRUE) /\ MayMeet
  /\ \E option \in Options : StartSettings(r, option)
  /\ UNCHANGED <<bus, boot, pairings, job, watch, acted>> /\ UNCHANGED envVars

CliEdits(c) ==
  /\ edits < scenario.edits /\ MayEdit(TRUE) /\ MayMeet
  /\ \E e \in Edit :
       /\ StartCliEdit(c, e)
       /\ e.op = "track" => \/ May("cli_tracks_again")
                            \/ TypesFor(file, e.board) = {}
  /\ UNCHANGED <<bus, boot, pairings, job, watch, acted>> /\ UNCHANGED envVars

\* The steps of any edit, the watcher's too; its save is what an adoption does.
EditStep(x) ==
  /\ EditorStep(x)
  /\ acted' = IF x = Watcher /\ pc[x] = "loaded" /\ edit[x].op = "adopt"
              THEN acted \cup {DfuOf(edit[x].board)} ELSE acted
  /\ UNCHANGED <<bus, boot, pairings, job, watch>> /\ UNCHANGED envVars

-----------------------------------------------------------------------------
(* add_mcu_start() and its job.                                             *)

JobGoes(there) == job' = [job EXCEPT !.pc = there]
JobOnly == UNCHANGED <<regVars, bus, watch>> /\ UNCHANGED <<moves, scenario>>

\* The board is named by its DFU serial, or is the only one.
AddMcuStart(t, b) ==
  /\ job.pc = "idle" /\ installs < scenario.installs
  /\ t \in file.types /\ bus[b] = "dfu"
  /\ job' = [pc |-> "writing", type |-> t, key |-> DfuOf(b), data |-> NoPairings]
  /\ installs' = installs + 1
  /\ UNCHANGED <<boot, pairings, acted>> /\ JobOnly

\* dfu-util pinned with -S.  ":leave" makes the board boot what it got.
WriteBootloader(b) ==
  /\ job.pc = "writing" /\ bus[b] = "dfu" /\ DfuOf(b) = job.key
  /\ boot' = [boot EXCEPT ![b] = job.type]
  /\ bus' = [bus EXCEPT ![b] = "away"]
  /\ JobGoes("record")
  /\ UNCHANGED <<regVars, pairings, watch, acted>> /\ UNCHANGED envVars

\* The board is gone, is one of several now, or dfu-util does not get to it.
WriteRefused ==
  /\ job.pc = "writing"
  /\ job' = IdleJob
  /\ UNCHANGED <<installs, boot, pairings, acted>> /\ JobOnly

\* dfu-util fails after ":mass-erase", with anything but the noise expected of ":leave":
\* the board holds nothing or, with "download_unreported", what was written to it, and
\* the job ends without a word in the pairings.
WriteBreaksOff(b) ==
  /\ job.pc = "writing" /\ bus[b] = "dfu" /\ DfuOf(b) = job.key
  /\ \E t \in {NoType, job.type} :
       /\ t # NoType => May("download_unreported")
       /\ boot' = [boot EXCEPT ![b] = t]
  /\ bus' \in {bus, [bus EXCEPT ![b] = "away"]}
  /\ job' = IdleJob
  /\ UNCHANGED <<regVars, pairings, watch, acted>> /\ UNCHANGED envVars

\* Without "pairings_meet", the two read-modify-writes do not overlap.
MayRead == May("pairings_meet") \/
             (job.pc # "recording" /\ watch.pc \notin {"forgetting", "pruning"})

ReadToRecord ==
  /\ job.pc = "record" /\ MayRead
  /\ job' = [job EXCEPT !.pc = "recording", !.data = pairings]
  /\ UNCHANGED <<installs, boot, pairings, acted>> /\ JobOnly

\* Pairings.record(), after the write and before the wait.
RecordPairing ==
  /\ job.pc = "recording"
  /\ pairings' = [job.data EXCEPT ![job.key] = [type |-> job.type, old |-> FALSE]]
  /\ acted' = acted \ {job.key}
  /\ job' = [job EXCEPT !.pc = "waiting", !.data = NoPairings]
  /\ UNCHANGED <<installs, boot>> /\ JobOnly

\* wait_for_new_device() found it or gave up; what it found is only reported.
JobEnds ==
  /\ job.pc = "waiting"
  /\ job' = IdleJob
  /\ UNCHANGED <<installs, boot, pairings, acted>> /\ JobOnly

-----------------------------------------------------------------------------
(* BusWatcher._loop() and adopt_paired().                                   *)

WatchOnly == UNCHANGED <<bus, boot, job, acted>> /\ UNCHANGED envVars
WatchGoes(there) == watch' = [watch EXCEPT !.pc = there]
HandlerReturns == watch' = Quiet(watch.last)

\* Wrong variant: the fingerprint is the number of boards.
BusCountChanged == watch.last = Never \/ Cardinality(OnBus) # Cardinality(watch.last)

BusChanged == OnBus # watch.last

\* The fingerprint is remembered before the handler runs.
Poll ==
  /\ watch.pc = "idle" /\ BusChanged
  /\ watch' = [watch EXCEPT !.pc = "look", !.last = OnBus]
  /\ UNCHANGED <<regVars, pairings>> /\ WatchOnly

\* adopt_paired() raises, say because the registry does not parse; the watcher
\* reports it and goes on.
HandlerFails ==
  /\ watch.pc = "look" /\ May("handler_fails")
  /\ HandlerReturns
  /\ UNCHANGED <<regVars, pairings>> /\ WatchOnly

\* Wrong variant: the first board that fits is taken.
UniqueAny(boards) == boards

\* The boards that share their DFU serial with no other one of them.
Unique(boards) == {b \in boards : \A c \in boards : DfuOf(c) = DfuOf(b) => c = b}

\* The registry, and the boards on the bus that it does not track.
Look ==
  /\ watch.pc = "look"
  /\ May("edit_meets_adoption") \/ ~SomebodyEdits
  /\ LET untracked == OnBus \ AllTracked(file)
     IN  IF pairings = NoPairings THEN HandlerReturns
         ELSE watch' = [watch EXCEPT !.pc = "next", !.known = file.types,
                                     !.seen = untracked, !.todo = Unique(untracked)]
  /\ UNCHANGED <<regVars, pairings>> /\ WatchOnly

\* Pairings.type_for()
TypeFor(key) == IF pairings[key].old THEN NoType ELSE pairings[key].type

AdoptNext(b) ==
  /\ watch.pc = "next" /\ b \in watch.todo /\ MayEdit(FALSE)
  /\ LET t == TypeFor(DfuOf(b))
     IN  IF t \in watch.known
         THEN /\ watch' = [watch EXCEPT !.pc = "adopting", !.todo = @ \ {b}, !.at = b]
              /\ Begin(Watcher, [op |-> "adopt", type |-> t, board |-> b])
              /\ UNCHANGED edits
         ELSE watch' = [watch EXCEPT !.todo = @ \ {b}] /\ UNCHANGED regVars
  /\ UNCHANGED pairings /\ WatchOnly

\* Wrong variant: the pairing is left for prune() to drop.
AdoptEndsUnconsumed ==
  /\ watch.pc = "adopting" /\ ~Busy(Watcher)
  /\ watch' = [watch EXCEPT !.at = NoBoard, !.pc = "next"]
  /\ pc' = [pc EXCEPT ![Watcher] = "idle"]
  /\ edit' = [edit EXCEPT ![Watcher] = NoEdit]
  /\ UNCHANGED <<file, lock, text, edits, pairings>> /\ WatchOnly

\* Refused, busy, or there already: the pairing stays as it is.
AdoptEnds ==
  /\ watch.pc = "adopting" /\ ~Busy(Watcher)
  /\ IF pc[Watcher] = "idle" /\ edit[Watcher].op = "adopt"
     THEN WatchGoes("forget")
     ELSE watch' = [watch EXCEPT !.at = NoBoard, !.pc = "next"]
  /\ pc' = [pc EXCEPT ![Watcher] = "idle"]
  /\ edit' = [edit EXCEPT ![Watcher] = NoEdit]
  /\ UNCHANGED <<file, lock, text, edits, pairings>> /\ WatchOnly

ReadToForget ==
  /\ watch.pc = "forget" /\ MayRead
  /\ watch' = [watch EXCEPT !.pc = "forgetting", !.data = pairings]
  /\ UNCHANGED <<regVars, pairings>> /\ WatchOnly

Forget ==
  /\ watch.pc = "forgetting"
  /\ LET key == DfuOf(watch.at)
     IN  pairings' = IF watch.data[key] = NoPairing THEN pairings
                     ELSE [watch.data EXCEPT ![key] = NoPairing]
  /\ watch' = [watch EXCEPT !.pc = "next", !.at = NoBoard, !.data = NoPairings]
  /\ UNCHANGED regVars /\ WatchOnly

ReadToPrune ==
  /\ watch.pc = "next" /\ watch.todo = {} /\ MayRead
  /\ watch' = [watch EXCEPT !.pc = "pruning", !.data = pairings]
  /\ UNCHANGED <<regVars, pairings>> /\ WatchOnly

\* Only when something is past its TTL is anything written.
Prune ==
  /\ watch.pc = "pruning"
  /\ pairings' = IF \E k \in Keys : watch.data[k].old
                 THEN [k \in Keys |-> IF watch.data[k].old THEN NoPairing ELSE watch.data[k]]
                 ELSE pairings
  /\ HandlerReturns
  /\ UNCHANGED regVars /\ WatchOnly

\* After a reconnect the agent forgets the fingerprint.
Reset ==
  /\ watch.last # Never
  /\ watch' = [watch EXCEPT !.last = Never]
  /\ UNCHANGED <<regVars, pairings>> /\ WatchOnly

-----------------------------------------------------------------------------
(* Boards, time, and the end of processes.                                  *)

Moves == moves < scenario.moves /\ moves' = moves + 1
BoardsOnly == UNCHANGED <<regVars, pairings, job, watch, acted>>
              /\ UNCHANGED <<installs, scenario>>

\* The board is plugged in, or comes back by itself after a write; without
\* "early_board" that takes longer than noting the pairing, and without
\* "board_flickers" the watcher saw that it was gone.
Arrive(b) ==
  /\ bus[b] = "away" /\ boot[b] # NoType
  /\ May("board_flickers") \/ b \notin watch.last
  /\ May("early_board") \/ job.pc \notin {"record", "recording"}
  /\ Moves /\ bus' = [bus EXCEPT ![b] = "katapult"]
  /\ UNCHANGED boot /\ BoardsOnly

ArriveInDfu(b) ==
  /\ bus[b] = "away"
  /\ Moves /\ bus' = [bus EXCEPT ![b] = "dfu"]
  /\ UNCHANGED boot /\ BoardsOnly

\* Without "board_flickers", not while the watcher's handler runs.
Leave(b) ==
  /\ bus[b] # "away"
  /\ May("board_flickers") \/ watch.pc = "idle"
  /\ Moves /\ bus' = [bus EXCEPT ![b] = "away"]
  /\ UNCHANGED boot /\ BoardsOnly

\* add-mcu of the CLI, or dfu-util by hand: no pairing is noted.
CliInstall(t, b) ==
  /\ May("cli_install") /\ bus[b] = "dfu"
  /\ Moves /\ bus' = [bus EXCEPT ![b] = "away"]
  /\ boot' = [boot EXCEPT ![b] = t]
  /\ BoardsOnly

\* A day passes, which no read-modify-write lasts.
Expire(k) ==
  /\ pairings[k].type # NoType /\ ~pairings[k].old
  /\ job.pc \notin {"record", "recording"} /\ watch.pc = "idle"
  /\ pairings' = [pairings EXCEPT ![k].old = TRUE]
  /\ UNCHANGED <<regVars, bus, boot, job, watch, acted>> /\ UNCHANGED envVars

AgentDies ==
  /\ May("dies") /\ Moves
  /\ Killed(Requests \cup {Watcher})
  /\ job' = IdleJob /\ watch' = Quiet(Never)
  /\ UNCHANGED <<bus, boot, pairings, acted, installs, scenario>>

CliDies(c) ==
  /\ May("dies") /\ Busy(c) /\ Moves
  /\ Killed({c})
  /\ UNCHANGED <<bus, boot, pairings, job, watch, acted, installs, scenario>>

-----------------------------------------------------------------------------
WatchStep ==
  \/ Poll \/ HandlerFails \/ Look \/ (\E b \in Boards : AdoptNext(b))
  \/ AdoptEnds \/ ReadToForget \/ Forget \/ ReadToPrune \/ Prune

JobStep ==
  \/ \E b \in Boards : WriteBootloader(b) \/ WriteBreaksOff(b)
  \/ WriteRefused \/ ReadToRecord \/ RecordPairing \/ JobEnds

Next ==
  \/ \E r \in Requests : PanelEdits(r) \/ PanelSets(r)
  \/ \E c \in Clis : CliEdits(c) \/ CliDies(c)
  \/ \E x \in Editors : EditStep(x)
  \/ \E t \in Types, b \in Boards : AddMcuStart(t, b) \/ CliInstall(t, b)
  \/ JobStep \/ WatchStep \/ Reset \/ AgentDies
  \/ \E b \in Boards : Arrive(b) \/ ArriveInDfu(b) \/ Leave(b)
  \/ \E k \in Keys : Expire(k)

Spec == Init /\ [][Next]_vars

-----------------------------------------------------------------------------
Spared(kinds) == kinds \cap scenario.disturbances = {}

\* What replaces the file is what was in it with one edit made to it: no edit is
\* lost ("Re-reading under the lock makes that impossible rather than unlikely"),
\* and none brings back or drops what it is not about.  That is so as long as no
\* other edit falls between the read and the write of the CLI or of save_settings(),
\* which do without the lock.
EditsSurviveWhenApart ==
  [][Spared({"edits_meet"}) =>
       file' = file \/ \E x \in Editors : pc[x] = "loaded" /\ file' = Apply(edit[x], file)]_vars

\* "One board tracked under two types would get flashed twice with different
\* firmware": neither an edit nor an adoption does that, provided that nobody edits
\* while the watcher adopts and that the CLI user names no tracked serial.
TrackedOnce ==
  Spared({"edit_meets_adoption", "cli_tracks_again"}) =>
    \A b \in Boards : Cardinality(TypesFor(file, b)) <= 1

NoTwins == \A b, c \in Boards : DfuOf(b) = DfuOf(c) => b = c
AdoptionSaved == pc[Watcher] = "loaded" /\ pc'[Watcher] = "saved" /\ edit[Watcher].op = "adopt"

\* A pairing leads to one adoption at most ("consumed, so it can never act twice"),
\* and one within its time is dropped for no other reason.  Premises: a pairing for
\* the serial that is being adopted is not noted before the watcher forgot the one it
\* adopted by, which takes a board that is back before its pairing is noted, one that
\* drops out and is written again meanwhile, or a twin of the same DFU serial.
PairingsActOnce ==
  [][Spared({"pairings_meet", "dies", "early_board", "board_flickers"}) /\ NoTwins =>
       /\ AdoptionSaved => DfuOf(edit[Watcher].board) \notin acted
       /\ \A k \in Keys :
            /\ pairings[k].type # NoType /\ ~pairings[k].old
            /\ pairings'[k].type = NoType
            => k \in acted]_vars

NothingMisleads == {"pairings_meet", "early_board", "board_flickers", "cli_install", "dies",
                    "download_unreported"}
AdoptedAsWritten == boot[edit[Watcher].board] = edit[Watcher].type
Twins(b) == {c \in Boards \ {b} : DfuOf(c) = DfuOf(b)}

\* A board without a twin is adopted as the type whose bootloader it was given; one that
\* shares its DFU serial may be taken for its twin, but only while that was not among the
\* untracked boards that the watcher looked at: away, in DFU mode, or tracked already.
\* Premises: every write is noted, and before the board is back; no stale copy of the
\* pairings is written; and no board drops out and is written anew while the watcher is
\* at it.
AdoptsWhatWasWritten ==
  [][Spared(NothingMisleads) /\ AdoptionSaved =>
       AdoptedAsWritten \/ ~(Twins(edit[Watcher].board) \subseteq watch.seen)]_vars

Owed(b) ==
  /\ bus[b] = "katapult" /\ b \notin AllTracked(file)
  /\ \A c \in Boards : DfuOf(c) = DfuOf(b) => c = b
  /\ LET p == pairings[DfuOf(b)] IN p.type \in file.types /\ ~p.old

AtRest == watch.pc = "idle" /\ ~BusChanged

\* A board that came back late, after a restart of the agent or after being
\* unplugged, is adopted without another change on the bus: when the watcher has
\* nothing more to do, no board is left that a pairing speaks for.  Premises: nobody
\* edits the registry, the handler does not raise (the fingerprint is remembered
\* before it runs), no board drops out while it runs or between two polls, none is back
\* before its pairing is noted, and no stale copy brings a pairing back.
PairedBoardsAreAdopted ==
  Spared({"early_board", "board_flickers", "handler_fails", "pairings_meet"}) /\ edits = 0 =>
    (AtRest => \A b \in Boards : ~Owed(b))
=============================================================================
