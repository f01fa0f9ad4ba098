----------------------------- MODULE Registry ------------------------------
(***************************************************************************)
(* mcu_updater/config.py and settings.py: the file mcu-updater.cfg, which  *)
(* the agent's request threads, its bus watcher and CLI processes edit.    *)
(* Every edit reads the whole file, changes its copy, and puts the copy in *)
(* the place of the file.  Registry.mutate() does so under a lock of its   *)
(* own; the CLI and save_settings() do so without.                         *)
(***************************************************************************)
EXTENDS Naturals, FiniteSets

CONSTANTS Types,    \* names of MCU types
          Boards,   \* serials
          Options,  \* keys of the [updater] section
          Requests, \* request threads of the agent
          Clis,     \* CLI processes
          Watcher,  \* the agent's bus watcher, which edits when it adopts
          Nobody,   \* no owner of the registry lock
          MaxEdits  \* no behaviour has more edits of users

Editors == Requests \cup Clis \cup {Watcher}

ASSUME RegistryAssumption ==
  /\ Watcher \notin Requests \cup Clis
  /\ Requests \cap Clis = {}
  /\ Nobody \notin Editors
  /\ MaxEdits \in Nat

VARIABLES file, \* what a reader of mcu-updater.cfg finds
          lock, \* owner of the registry lock
          pc,   \* of each editor: where it is in an edit
          edit, \* of each editor: the edit
          text, \* of each editor: its copy of the file
          edits \* how many edits the users began

regVars == <<file, lock, pc, edit, text, edits>>

\* `keys` stands for the other options of a type: TRUE once they were updated.
Content == [types : SUBSET Types, tracked : [Types -> SUBSET Boards],
            keys : SUBSET Types, updater : SUBSET Options]

\* No file is a registry without types and with default settings.
Blank == [types |-> {}, tracked |-> [t \in Types |-> {}], keys |-> {}, updater |-> {}]

\* A "purge" is type_remove with force: the type goes with the boards it tracks.
Edit == [op : {"track", "untrack", "adopt", "keep"}, type : Types, board : Boards]
        \cup [op : {"add", "drop", "purge", "update"}, type : Types]
        \cup [op : {"set"}, option : Options]
        \cup [op : {"none"}]

AllTracked(f) == UNION {f.tracked[t] : t \in Types}
TypesFor(f, b) == {t \in Types : b \in f.tracked[t]}

RegistryTypeOK ==
  /\ file \in Content /\ \A t \in Types \ file.types : file.tracked[t] = {}
  /\ lock \in Requests \cup {Watcher, Nobody}
  /\ pc \in [Editors -> {"idle", "refused", "locking", "locked", "settings", "loaded",
                         "saved"}]
  /\ edit \in [Editors -> Edit]
  /\ text \in [Editors -> Content]
  /\ edits \in 0..MaxEdits

NoEdit == [op |-> "none"]

RegistryInit ==
  /\ file = [Blank EXCEPT !.types = Types]
  /\ lock = Nobody /\ edits = 0
  /\ pc = [x \in Editors |-> "idle"]
  /\ edit = [x \in Editors |-> NoEdit]
  /\ text = [x \in Editors |-> Blank]

\* What an edit means: add_type, add_serial, remove_serial, remove_type and the
\* assignments of type_update() and settings_set().
Apply(e, f) ==
  CASE e.op \in {"track", "adopt"} -> [f EXCEPT !.tracked[e.type] = @ \cup {e.board}]
    [] e.op = "untrack" -> [f EXCEPT !.tracked[e.type] = @ \ {e.board}]
    [] e.op = "add"     -> [f EXCEPT !.types = @ \cup {e.type}, !.tracked[e.type] = {},
                                     !.keys = @ \ {e.type}]
    [] e.op \in {"drop", "purge"} ->
         [f EXCEPT !.types = @ \ {e.type}, !.tracked[e.type] = {}, !.keys = @ \ {e.type}]
    [] e.op = "update"  -> [f EXCEPT !.keys = @ \cup {e.type}]
    [] e.op = "set"     -> [f EXCEPT !.updater = @ \cup {e.option}]
    [] OTHER            -> f

\* Wrong variant: add_serial() alone, which looks at its own type.
PanelAcceptsAnywhere(e, f) ==
  CASE e.op = "add"   -> e.type \notin f.types
    [] e.op = "drop"  -> e.type \in f.types /\ f.tracked[e.type] = {}
    [] OTHER          -> e.type \in f.types

\* The refusals inside mutate(): an unknown type, one that exists, one that
\* still has boards unless force is given, a serial tracked elsewhere.
PanelAccepts(e, f) ==
  CASE e.op = "add"   -> e.type \notin f.types
    [] e.op = "drop"  -> e.type \in f.types /\ f.tracked[e.type] = {}
    [] e.op = "track" -> e.type \in f.types /\ TypesFor(f, e.board) \subseteq {e.type}
    [] OTHER          -> e.type \in f.types

\* The CLI overwrites and drops after a question, and does not look elsewhere.
CliAccepts(e, f) ==
  CASE e.op = "add"     -> TRUE
    [] e.op = "drop"    -> e.type \in f.types
    [] e.op = "track"   -> e.type \in f.types /\ e.board \notin f.tracked[e.type]
    [] e.op = "untrack" -> e.type \in f.types /\ e.board \in f.tracked[e.type]

Busy(x) == pc[x] \notin {"idle", "refused"}
Unlocked(x) == x \in Clis \/ edit[x].op = "set"

Go(x, there) == pc' = [pc EXCEPT ![x] = there]

\* Only the watcher looks at how its edit ended, and at what it was.
Ended(x) == IF x = Watcher THEN "refused" ELSE "idle"
Dropped(x) == IF x = Watcher THEN edit ELSE [edit EXCEPT ![x] = NoEdit]

-----------------------------------------------------------------------------
(* Registry.mutate()                                                        *)

Begin(x, e) ==
  /\ ~Busy(x)
  /\ Go(x, "locking")
  /\ edit' = [edit EXCEPT ![x] = e]
  /\ UNCHANGED <<file, lock, text>>

StartPanelEdit(r, e) ==
  /\ edits' = edits + 1
  /\ e.op \in {"track", "untrack", "add", "drop", "purge", "update"}
  /\ Begin(r, e)

\* Wrong variant: mutate() without its lock.
TakeLockAnyway(x) ==
  /\ pc[x] = "locking"
  /\ lock' = x
  /\ Go(x, "locked")
  /\ UNCHANGED <<file, edit, text, edits>>

TakeLock(x) ==
  /\ pc[x] = "locking" /\ lock = Nobody
  /\ lock' = x
  /\ Go(x, "locked")
  /\ UNCHANGED <<file, edit, text, edits>>

\* BusyError, after the second attempt.
LockBusy(x) ==
  /\ pc[x] = "locking" /\ lock # Nobody
  /\ Go(x, Ended(x)) /\ edit' = Dropped(x)
  /\ UNCHANGED <<file, lock, text, edits>>

\* adopt_paired() does not ask what serial_add() asks: add_serial() looks at its
\* own type only, and a board that is there already is saved as it was.
Accepts(x, e, f) == IF x = Watcher THEN e.type \in f.types ELSE PanelAccepts(e, f)

WhatIsLeftToDo(e, f) ==
  IF e.op = "adopt" /\ e.board \in f.tracked[e.type] THEN [e EXCEPT !.op = "keep"] ELSE e

Load(x) ==
  /\ pc[x] = "locked" /\ Accepts(x, edit[x], file)
  /\ edit' = [edit EXCEPT ![x] = WhatIsLeftToDo(@, file)]
  /\ text' = [text EXCEPT ![x] = Apply(edit'[x], file)]
  /\ Go(x, "loaded")
  /\ UNCHANGED <<file, lock, edits>>

\* The body raises: nothing is written.
Refuse(x) ==
  /\ pc[x] = "locked" /\ ~Accepts(x, edit[x], file)
  /\ lock' = Nobody
  /\ Go(x, Ended(x)) /\ edit' = Dropped(x)
  /\ UNCHANGED <<file, text, edits>>

Release(x) ==
  /\ pc[x] = "saved"
  /\ lock' = Nobody
  /\ Go(x, "idle") /\ edit' = Dropped(x)
  /\ UNCHANGED <<file, text, edits>>

-----------------------------------------------------------------------------
(* Edits without the lock.                                                  *)

\* add-serial, remove-serial, add-mcu-type, remove-mcu-type, and the questions
\* of add-mcu and flash: loaded, sometimes asked about, and saved.
StartCliEdit(c, e) ==
  /\ ~Busy(c) /\ edits' = edits + 1
  /\ e.op \in {"track", "untrack", "add", "drop"} /\ CliAccepts(e, file)
  /\ edit' = [edit EXCEPT ![c] = e]
  /\ text' = [text EXCEPT ![c] = Apply(e, file)]
  /\ Go(c, "loaded")
  /\ UNCHANGED <<file, lock>>

\* settings_set() reads all the settings and changes one ...
StartSettings(r, option) ==
  /\ ~Busy(r) /\ edits' = edits + 1
  /\ edit' = [edit EXCEPT ![r] = [op |-> "set", option |-> option]]
  /\ text' = [text EXCEPT ![r] = file]
  /\ Go(r, "settings")
  /\ UNCHANGED <<file, lock>>

\* ... and save_settings() puts all of them into the file as it is by then.
LoadForSettings(r) ==
  /\ pc[r] = "settings"
  /\ text' = [text EXCEPT ![r] = [file EXCEPT !.updater = Apply(edit[r], text[r]).updater]]
  /\ Go(r, "loaded")
  /\ UNCHANGED <<file, lock, edit, edits>>

-----------------------------------------------------------------------------
(* Registry.save() and the end of save_settings(): a temporary file takes  *)
(* the place of the registry.                                               *)

Save(x) ==
  /\ pc[x] = "loaded"
  /\ file' = text[x]
  /\ text' = [text EXCEPT ![x] = Blank]
  /\ IF Unlocked(x) THEN Go(x, "idle") /\ edit' = Dropped(x)
                    ELSE Go(x, "saved") /\ UNCHANGED edit
  /\ UNCHANGED <<lock, edits>>

EditorStep(x) ==
  TakeLock(x) \/ LockBusy(x) \/ Load(x) \/ Refuse(x) \/ LoadForSettings(x) \/ Save(x) \/ Release(x)

\* kill -9, or the power: the lock goes with the process, files stay.
Killed(who) ==
  /\ pc' = [x \in Editors |-> IF x \in who THEN "idle" ELSE pc[x]]
  /\ lock' = IF lock \in who THEN Nobody ELSE lock
  /\ edit' = [x \in Editors |-> IF x \in who THEN NoEdit ELSE edit[x]]
  /\ text' = [x \in Editors |-> IF x \in who THEN Blank ELSE text[x]]
  /\ UNCHANGED <<file, edits>>
=============================================================================
