----------------------------- MODULE Provenance -----------------------------
(***************************************************************************)
(* What a binary was built from and which binary a board holds, as far as  *)
(* mcu_updater records it: build.py (build, staleness, FlashLog), flash.py *)
(* (flash_katapult), and the operations of agent/methods.py and cli.py     *)
(* that decide from those records what to build and what to flash.         *)
(*                                                                         *)
(* One MCU type, its saved .config, its staged binary and its boards.      *)
(* Operations hold the host-wide lock (see ExclusiveLock), so one runs at  *)
(* a time; the decision what to flash may be taken before the lock is.     *)
(***************************************************************************)
CONSTANTS Commits, Configs, \* of the source tree, of the saved .config
          Boards,
          NoFile,           \* nothing there, nothing that parses, no answer
          Torn,             \* a binary of which only a part was written
          DisturbanceSets   \* which disturbances may come together

Disturbance == {"pull_during_build",       \* the tree moves under make
                "menuconfig_during_build", \* and the CLI's menuconfig its .config
                "dies",                    \* kill -9, or an uncaught OSError
                "sidecar_fails",           \* the note cannot be written
                "unrecorded",              \* a flash of which no record is kept
                "unreadable"}              \* git, or a file, that gives no answer

Bins == [commit : Commits, config : Configs]
Sidecars == [commit : Commits \cup {NoFile}, config : Configs \cup {NoFile},
             bin : Bins \cup {NoFile}]
Entries == [commit : Commits \cup {NoFile}, bin : Bins \cup {NoFile}]
Plans == [kind : {"build", "flash", "update"}, scope : {"stale", "all"},
          build : BOOLEAN, boards : SUBSET Boards]

ASSUME ProvenanceAssumption ==
  /\ NoFile \notin Commits \cup Configs \cup Bins \cup {Torn} \cup Sidecars \cup Entries \cup Plans
  /\ Torn \notin Bins
  /\ DisturbanceSets \subseteq SUBSET Disturbance

VARIABLES head,    \* the commit checked out in the source tree
          config,  \* the saved .config
          staged,  \* the artifact that flashing writes
          sidecar, \* build's note beside it
          held,    \* what each board really holds
          mode,    \* "klipper", "katapult", "offline": what the bus shows
          log,     \* the flash log
          plan,    \* what a handler decided before submitting its job
          pc,      \* where the running operation is
          kind,    \* "build", "flash", "update", or "cli_update"
          scope,   \* "stale" or "all"
          work,    \* of a build: the binary made and the note being put together
          todo,    \* of a flash: the boards still to be written
          board,   \* the board being written
          flashed, \* the boards written and recorded in this operation
          disturbances \* what may happen besides in this behaviour; fixed

files == <<staged, sidecar, log>>
boards == <<held, mode>>
job == <<kind, scope>>
vars == <<head, config, files, boards, plan, pc, job, work, todo, board, flashed,
          disturbances>>

BuildSteps == {"make", "compile", "hash", "copy", "copying", "sidecar", "dump"}
FlashSteps == {"choose", "flash", "write", "record"}

TypeOK ==
  /\ head \in Commits /\ config \in Configs
  /\ staged \in Bins \cup {NoFile, Torn}
  /\ sidecar \in Sidecars \cup {NoFile}
  /\ held \in [Boards -> Bins \cup {Torn}]
  /\ mode \in [Boards -> {"klipper", "katapult", "offline"}]
  /\ \A b \in Boards : mode[b] = "klipper" => held[b] \in Bins
  /\ log \in [Boards -> Entries \cup {NoFile}]
  /\ plan \in Plans \cup {NoFile}
  /\ pc \in {"idle"} \cup BuildSteps \cup FlashSteps
  /\ kind \in {"build", "flash", "update", "cli_update"}
  /\ scope \in {"stale", "all"}
  /\ work \in Sidecars \cup {NoFile}
  /\ todo \subseteq Boards /\ board \in Boards /\ flashed \subseteq Boards
  /\ disturbances \in DisturbanceSets

\* A host on which nothing was built yet; the boards came with some firmware.
Init ==
  /\ head \in Commits /\ config \in Configs
  /\ staged = NoFile /\ sidecar = NoFile
  /\ held \in [Boards -> Bins] /\ mode \in [Boards -> {"klipper", "offline"}]
  /\ log = [b \in Boards |-> NoFile]
  /\ plan = NoFile /\ pc = "idle" /\ kind = "build" /\ scope = "all"
  /\ work = NoFile /\ todo = {} /\ board \in Boards /\ flashed = {}
  /\ disturbances \in DisturbanceSets

-----------------------------------------------------------------------------
(* The questions asked of the records.                                     *)

\* What git_head() or _sha256_file() may say of x: None when git fails, or when the file
\* is away or cannot be read.
Seen(x) == {x} \cup {y \in {NoFile} : "unreadable" \in disturbances}

\* staleness() compares what it can tell now with what could be told then, ...
Agree(now, noted) == NoFile \in {now, noted} \/ now = noted

\* ... and gives none of "never_built", "config_changed", "source_changed".
Fresh(c, h) ==
  /\ staged # NoFile /\ sidecar # NoFile
  /\ Agree(c, sidecar.config) /\ Agree(h, sidecar.commit)

MaySayFresh == \E c \in Seen(config), h \in Seen(head) : Fresh(c, h)
MaySayStale == \E c \in Seen(config), h \in Seen(head) : ~Fresh(c, h)

\* entry_for(): the record stands unless the board reports another commit.
Believed(b) == log[b] # NoFile /\ log[b].commit \in {NoFile, held[b].commit}

\* artifact_changed: same commit, but another binary than the one recorded.
ArtifactChanged(b) ==
  /\ sidecar # NoFile /\ sidecar.bin # NoFile
  /\ Believed(b) /\ log[b].bin # NoFile
  /\ log[b].bin # sidecar.bin

\* flash_state() for a board whose version Klippy reports: needs_flash is True,
NeedsFlash(b) ==
  \/ mode[b] = "katapult"
  \/ mode[b] = "klipper" /\ (head # held[b].commit \/ ArtifactChanged(b))

\* or False.
UpToDate(b) ==
  mode[b] = "klipper" /\ head = held[b].commit /\ ~ArtifactChanged(b)

\* _boards_to_flash(); Klippy may be unreachable, and then reports no version, or git
\* gives no commit to compare it with.
BoardsToFlash(s, reported) ==
  IF staged = NoFile THEN {}
  ELSE {b \in Boards : mode[b] # "offline"
                         /\ (s = "all" \/ mode[b] = "katapult" \/ (reported /\ NeedsFlash(b)))}

-----------------------------------------------------------------------------
(* Deciding and starting.                                                  *)

\* build_all (fw.build: scope "all"), flash_all and flash, update_all: decided
\* on the socket's thread, while another process may be building.
PlanBuild(s) ==
  /\ s = "all" \/ MaySayStale
  /\ plan' = [kind |-> "build", scope |-> s, build |-> TRUE, boards |-> {}]

PlanFlash(s) ==
  \E reported \in BOOLEAN :
    \E bs \in {BoardsToFlash(s, reported)} \cup {{b} : b \in BoardsToFlash("all", reported)} :
      /\ bs # {}
      /\ plan' = [kind |-> "flash", scope |-> s, build |-> FALSE, boards |-> bs]

\* A type without a .config is left out of what is to be built.
PlanUpdate(s) ==
  \E b \in BOOLEAN :
    /\ b => s = "all" \/ MaySayStale
    /\ ~b => "unreadable" \in disturbances \/ (s = "stale" /\ MaySayFresh)
    /\ plan' = [kind |-> "update", scope |-> s, build |-> b, boards |-> {}]

Plan(s) ==
  /\ plan = NoFile
  /\ PlanBuild(s) \/ PlanFlash(s) \/ PlanUpdate(s)
  /\ UNCHANGED <<head, config, files, boards, pc, job, work, todo, board, flashed>>

\* submit() takes the lock and starts the job ...
Submit ==
  /\ plan # NoFile /\ pc = "idle"
  /\ plan' = NoFile
  /\ kind' = plan.kind /\ scope' = plan.scope /\ todo' = plan.boards /\ flashed' = {}
  /\ pc' = CASE plan.build -> "make"
             [] ~plan.build /\ plan.kind = "update" -> "choose"
             [] OTHER -> "flash"
  /\ UNCHANGED <<head, config, files, boards, work, board>>

\* ... or raises Busy.
Refused ==
  /\ plan # NoFile /\ pc # "idle"
  /\ plan' = NoFile
  /\ UNCHANGED <<head, config, files, boards, pc, job, work, todo, board, flashed>>

\* The CLI's build, flash and update-all, which look at no record.
StartCli(k) ==
  /\ pc = "idle"
  /\ kind' = k /\ scope' = "all" /\ flashed' = {}
  /\ IF k = "flash" THEN pc' = "flash" /\ todo' \in {Boards} \cup {{b} : b \in Boards}
                    ELSE pc' = "make" /\ todo' = {}
  /\ UNCHANGED <<head, config, files, boards, plan, work, board>>

-----------------------------------------------------------------------------
(* build()                                                                 *)

\* make starts; olddefconfig may rewrite the saved answers before it compiles.
StartMake ==
  /\ pc = "make"
  /\ config' \in Configs
  /\ work' = [commit |-> head, config |-> config,
              bin |-> [commit |-> head, config |-> config']]
  /\ pc' = "compile"
  /\ UNCHANGED <<head, files, boards, plan, job, todo, board, flashed>>

\* make read the tree and the .config as they were, or as they became.
MakeDone ==
  /\ pc = "compile"
  /\ \E c \in {work.bin.commit, head}, k \in {work.bin.config, config} :
       work' = [work EXCEPT !.bin = [commit |-> c, config |-> k]]
  /\ pc' = "hash"
  /\ UNCHANGED <<head, config, files, boards, plan, job, todo, board, flashed>>

\* A type that fails, if only for want of a .config, is reported; update_all goes on to
\* the boards all the same.
MakeFails ==
  /\ pc \in {"make", "compile", "hash"}
  /\ pc' = IF kind = "update" THEN "choose" ELSE "idle"
  /\ work' = NoFile
  /\ UNCHANGED <<head, config, files, boards, plan, job, todo, board, flashed>>

\* config_after, not what the .config was before make ran.
HashConfig ==
  /\ pc = "hash"
  /\ \E c \in Seen(config) : work' = [work EXCEPT !.config = c]
  /\ pc' = "copy"
  /\ UNCHANGED <<head, config, files, boards, plan, job, todo, board, flashed>>

\* shutil.copyfile opens the staged binary for writing, then fills it.
OpenStaged ==
  /\ pc = "copy"
  /\ staged' = Torn
  /\ pc' = "copying"
  /\ UNCHANGED <<head, config, sidecar, log, boards, plan, job, work, todo, board, flashed>>

FillStaged ==
  /\ pc = "copying"
  /\ staged' = work.bin
  /\ pc' = "sidecar"
  /\ UNCHANGED <<head, config, sidecar, log, boards, plan, job, work, todo, board, flashed>>

BuildReturns ==
  /\ pc' = CASE kind = "update" -> "choose" [] kind = "cli_update" -> "flash" [] OTHER -> "idle"
  /\ todo' = IF kind = "cli_update" THEN Boards ELSE todo
  /\ work' = NoFile

\* git_head and the hash of the staged binary are taken now.
OpenSidecar ==
  /\ pc = "sidecar"
  /\ sidecar' = NoFile
  /\ \E h \in Seen(head), b \in Seen(staged) :
       work' = [work EXCEPT !.commit = h, !.bin = b]
  /\ pc' = "dump"
  /\ UNCHANGED <<head, config, staged, log, boards, plan, job, todo, board, flashed>>

WriteSidecar ==
  /\ pc = "dump"
  /\ sidecar' = work
  /\ BuildReturns
  /\ UNCHANGED <<head, config, staged, log, boards, plan, job, board, flashed>>

\* "could not write build sidecar": at open, the old note stays.
SidecarFails ==
  /\ "sidecar_fails" \in disturbances
  /\ pc \in {"sidecar", "dump"}
  /\ BuildReturns
  /\ UNCHANGED <<head, config, files, boards, plan, job, board, flashed>>

-----------------------------------------------------------------------------
(* Flashing.                                                               *)

\* update_all selects its boards after its build.
Choose ==
  /\ pc = "choose"
  /\ \E reported \in BOOLEAN : todo' = BoardsToFlash(scope, reported)
  /\ pc' = "flash"
  /\ UNCHANGED <<head, config, files, boards, plan, job, work, board, flashed>>

\* The board is in Katapult, or is asked to reboot into it and comes back.
EnterBootloader(b) ==
  /\ pc = "flash" /\ b \in todo
  /\ staged # NoFile /\ mode[b] # "offline"
  /\ todo' = todo \ {b} /\ board' = b
  /\ mode' = [mode EXCEPT ![b] = "katapult"]
  /\ pc' = "write"
  /\ UNCHANGED <<head, config, files, held, plan, job, work, flashed>>

\* No artifact, not on the bus, or it never re-enumerated: the next board.
CannotFlash(b) ==
  /\ pc = "flash" /\ b \in todo
  /\ todo' = todo \ {b}
  /\ mode' \in {mode, [mode EXCEPT ![b] = "offline"]}
  /\ UNCHANGED <<head, config, files, held, plan, pc, job, work, board, flashed>>

\* flashtool.py wrote the artifact and the board runs it, if it is whole.
Write ==
  /\ pc = "write"
  /\ held' = [held EXCEPT ![board] = staged]
  /\ mode' = [mode EXCEPT ![board] = IF staged = Torn THEN "offline" ELSE "klipper"]
  /\ \/ pc' = "record"
     \/ "unrecorded" \in disturbances /\ pc' = "flash"
  /\ UNCHANGED <<head, config, files, plan, job, work, todo, board, flashed>>

\* Wrong variant: the exit status of flashtool.py is ignored.
WriteFailsUnnoticed ==
  /\ pc = "write"
  /\ held' \in {held, [held EXCEPT ![board] = Torn]}
  /\ flashed' = flashed \cup {board}
  /\ pc' = "flash"
  /\ UNCHANGED <<head, config, files, mode, plan, job, work, todo, board>>

\* A non-zero exit: half an image, or the old one; the bootloader keeps running.
WriteFails ==
  /\ pc = "write"
  /\ held' \in {held, [held EXCEPT ![board] = Torn]}
  /\ pc' = "flash"
  /\ UNCHANGED <<head, config, files, mode, plan, job, work, todo, board, flashed>>

\* h: what git says, should the note not say.
Entry(h) ==
  IF sidecar = NoFile THEN [commit |-> h, bin |-> NoFile]
  ELSE [commit |-> IF sidecar.commit = NoFile THEN h ELSE sidecar.commit, bin |-> sidecar.bin]

\* Wrong variant: a board recorded for this commit is not recorded again.
RecordOncePerCommit ==
  /\ pc = "record"
  /\ log' = IF log[board] # NoFile /\ log[board].commit = Entry(head).commit THEN log
            ELSE [log EXCEPT ![board] = Entry(head)]
  /\ flashed' = flashed \cup {board}
  /\ pc' = "flash"
  /\ UNCHANGED <<head, config, staged, sidecar, boards, plan, job, work, todo, board>>

Record ==
  /\ pc = "record"
  /\ \E h \in Seen(head) : log' = [log EXCEPT ![board] = Entry(h)]
  /\ flashed' = flashed \cup {board}
  /\ pc' = "flash"
  /\ UNCHANGED <<head, config, staged, sidecar, boards, plan, job, work, todo, board>>

FlashReturns ==
  /\ pc = "flash" /\ todo = {}
  /\ pc' = "idle"
  /\ UNCHANGED <<head, config, files, boards, plan, job, work, todo, board, flashed>>

\* A cancel during make or between boards, or the print gate says no.
GiveUp ==
  /\ pc \in {"make", "compile", "choose", "flash"}
  /\ pc' = "idle" /\ work' = NoFile /\ todo' = {}
  /\ UNCHANGED <<head, config, files, boards, plan, job, board, flashed>>

\* Killed, or an OSError that nothing catches: the files stay as they are.
Dies ==
  /\ "dies" \in disturbances
  /\ pc # "idle"
  /\ pc' = "idle" /\ work' = NoFile /\ todo' = {} /\ plan' = NoFile
  /\ UNCHANGED <<head, config, files, boards, job, board, flashed>>

-----------------------------------------------------------------------------
(* The user and the bus.                                                   *)

Pull ==
  /\ pc \in BuildSteps => "pull_during_build" \in disturbances
  /\ head' \in Commits
  /\ UNCHANGED <<config, files, boards, plan, pc, job, work, todo, board, flashed>>

\* Wrong variant: kconfig_save does not take the build lock.
SaveConfigUnlocked ==
  /\ config' \in Configs
  /\ UNCHANGED <<head, files, boards, plan, pc, job, work, todo, board, flashed>>

\* kconfig_save takes the build lock; "updatefw menuconfig" takes none.
SaveConfig ==
  /\ pc = "idle"
  /\ config' \in Configs
  /\ UNCHANGED <<head, files, boards, plan, pc, job, work, todo, board, flashed>>

Menuconfig ==
  /\ pc \in BuildSteps => "menuconfig_during_build" \in disturbances
  /\ config' \in Configs
  /\ UNCHANGED <<head, files, boards, plan, pc, job, work, todo, board, flashed>>

Unplug(b) ==
  /\ ~(pc \in {"write", "record"} /\ board = b)
  /\ mode' = [mode EXCEPT ![b] = "offline"]
  /\ UNCHANGED <<head, config, files, held, plan, pc, job, work, todo, board, flashed>>

\* With half an image, a board stays in the bootloader or does not come up.
PowerOn(b) ==
  /\ mode[b] # "klipper" /\ ~(pc \in {"write", "record"} /\ board = b)
  /\ mode' = [mode EXCEPT ![b] = IF held[b] = Torn THEN "katapult" ELSE "klipper"]
  /\ UNCHANGED <<head, config, files, held, plan, pc, job, work, todo, board, flashed>>

Building ==
  \/ StartMake \/ MakeDone \/ MakeFails \/ HashConfig
  \/ OpenStaged \/ FillStaged \/ OpenSidecar \/ WriteSidecar \/ SidecarFails

Flashing ==
  \/ Choose \/ Write \/ WriteFails \/ Record \/ FlashReturns
  \/ \E b \in Boards : EnterBootloader(b) \/ CannotFlash(b)

Steady == UNCHANGED disturbances

Next ==
  /\ \/ \E s \in {"stale", "all"} : Plan(s)
     \/ \E k \in {"build", "flash", "cli_update"} : StartCli(k)
     \/ Submit \/ Refused \/ Building \/ Flashing \/ GiveUp \/ Dies
     \/ Pull \/ SaveConfig \/ Menuconfig
     \/ \E b \in Boards : Unplug(b) \/ PowerOn(b)
  /\ Steady

Spec == Init /\ [][Next]_vars

-----------------------------------------------------------------------------
(* Properties                                                              *)

Quiet == pc \notin BuildSteps

NothingDies  == {"dies", "sidecar_fails"} \cap disturbances = {}
NothingMoves == {"pull_during_build", "menuconfig_during_build"} \cap disturbances = {}
AllReadable  == "unreadable" \notin disturbances
AllRecorded  == NothingDies /\ "unrecorded" \notin disturbances

\* Between builds, a type that is not reported stale has a whole binary of the
\* commit that is checked out and of the answers that are saved.
FreshMeansCurrent ==
  Quiet /\ MaySayFresh => staged = [commit |-> head, config |-> config]

\* The same where the tree and the answers keep still during a build, no build is cut
\* short, and git and the files always answer: "cannot tell" counts as fresh.
FreshMeansCurrentWhenCalm ==
  NothingDies /\ NothingMoves /\ AllReadable => FreshMeansCurrent

\* Between builds, a board that is reported up to date on the strength of a
\* record holds the very binary that is staged, as long as no operation is
\* killed, no note fails to be written and every flash is recorded.
UpToDateMeansSame ==
  AllRecorded /\ Quiet => \A b \in Boards :
    UpToDate(b) /\ Believed(b) /\ log[b].bin # NoFile /\ sidecar # NoFile
      /\ sidecar.bin # NoFile => held[b] = staged

\* A build that runs to its end is not asked for again, unless the user moved
\* the tree or the answers under it.
BuildSettles == NothingMoves /\ pc = "dump" /\ sidecar' # NoFile => ~MaySayStale'

\* A batch that runs to its end leaves no board it flashed reported as holding
\* another binary, and each of them holds the staged one: whatever went wrong
\* before or during the batch.
FlashSettles ==
  pc = "flash" /\ pc' = "idle" =>
    \A b \in flashed :
      held[b] = staged /\ (mode[b] = "klipper" => ~ArtifactChanged(b))

\* An operation that runs to its end leaves nothing of its own to be done again.
OperationsSettle == [][BuildSettles /\ FlashSettles]_vars
=============================================================================
