-------------------------- MODULE KconfigSessions --------------------------
(***************************************************************************)
(* mcu_updater/kconfig.py, KconfigSession and SessionStore, and the        *)
(* fw.kconfig.* handlers of agent/methods.py: browser tabs edit the        *)
(* answers of firmware targets in parsed trees the agent keeps for them,   *)
(* a few at a time, and save them into the files that builds read.         *)
(***************************************************************************)
EXTENDS Naturals, Sequences, SequencesExt

CONSTANTS Tabs,     \* browser tabs: each has at most one call under way
          Targets,  \* pairs of a type and a firmware
          Answers,  \* what the .config of a target can hold
          Defaults, \* what the tree answers without a .config
          NoFile,   \* no file
          Nobody,   \* the build lock is free
          Other,    \* a build or a flash has the build lock
          MAX,      \* SessionStore.MAX: so many sessions are kept
          MaxOpens, \* no behaviour opens more sessions
          Scenarios \* the kinds of behaviours that are looked at

\* What can come between the steps of a session, named where it is let in.
Disturbance == {"two_tabs", "force", "opens_meet", "late_call", "menuconfig", "expires",
                "others_build", "parse_fails", "save_fails", "dies"}

ASSUME KconfigAssumption ==
  /\ Defaults \in Answers /\ NoFile \notin Answers
  /\ Nobody \notin Tabs /\ Other \notin Tabs /\ Nobody # Other
  /\ MAX \in Nat \ {0} /\ MaxOpens \in Nat
  /\ Scenarios \subseteq [opens : 0..MaxOpens, targets : SUBSET Targets,
                              disturbances : SUBSET Disturbance]

VARIABLES config,    \* of each target: its .config
          bak,       \* of each target: .config.bak
          tmp,       \* of each target: .config.tmp
          buildLock, \* owner of the host-wide lock that builds take
          sess,      \* the KconfigSession objects, by number
          store,     \* SessionStore._sessions by number, the longest untouched first
          number,    \* SessionStore._next
          pc,        \* of each tab: where its call is
          call,      \* of each tab: its call
          tab,       \* of each tab: the session it was given, or 0
          opens,     \* how many sessions were asked for
          wrote,     \* history: the answers last told to be saved
          given,     \* history: sessions with unsaved work that the design gives up
          scenario \* how many sessions, of which targets, and what may happen

disk == <<config, bak, tmp, wrote>>
kconfigVars == <<config, bak, tmp, buildLock, sess, store, number, pc, call, tab, opens, wrote,
          given, scenario>>

Ids == 1..MaxOpens
File == Answers \cup {NoFile}

\* `base` is what the file held when the session last read or wrote it.
Session == [target : Targets, answers : Answers, base : File, dirty : BOOLEAN]
NoSession == [dirty |-> FALSE]
NoCall == [op |-> "none"]
Call == [op : {"open"}, target : Targets] \cup [op : {"set"}, answers : Answers]
        \cup [op : {"look", "reset", "save", "none"}]

KconfigTypeOK ==
  /\ config \in [Targets -> File] /\ bak \in [Targets -> File] /\ tmp \in [Targets -> File]
  /\ wrote \in [Targets -> File]
  /\ buildLock \in Tabs \cup {Nobody, Other}
  /\ sess \in [Ids -> Session \cup {NoSession}]
  /\ store \in Seq(Ids) /\ \A i \in 1..Len(store) : sess[store[i]] \in Session
  /\ Len(store) <= MAX
  /\ number \in 1..(MaxOpens + 1) /\ opens \in 0..MaxOpens /\ number <= opens + 1
  /\ pc \in [Tabs -> {"idle", "opening", "parsing", "inhand", "written", "backed"}]
  /\ call \in [Tabs -> Call] /\ tab \in [Tabs -> Ids \cup {0}]
  /\ given \subseteq Ids
  /\ scenario \in Scenarios

KconfigInit ==
  /\ scenario \in Scenarios
  /\ \E a \in File : config = [t \in Targets |-> IF t \in scenario.targets THEN a ELSE NoFile]
  /\ wrote = config
  /\ bak = [t \in Targets |-> NoFile] /\ tmp = bak
  /\ buildLock = Nobody
  /\ sess = [s \in Ids |-> NoSession] /\ store = <<>> /\ number = 1 /\ opens = 0
  /\ pc = [x \in Tabs |-> "idle"] /\ call = [x \in Tabs |-> NoCall]
  /\ tab = [x \in Tabs |-> 0]
  /\ given = {}

May(kind) == kind \in scenario.disturbances

-----------------------------------------------------------------------------
(* Locks.  Those of the store and of a session are held across steps only  *)
(* while a tree is parsed and while answers are saved.                     *)

StoreFree == \A x \in Tabs : pc[x] # "parsing"
Saving(x) == pc[x] \in {"written", "backed"}
SessionFree(s) == \A x \in Tabs : Saving(x) => tab[x] # s
InHand(s) == \E x \in Tabs : tab[x] = s /\ pc[x] \in {"inhand", "written", "backed"}

Mine(x) == sess[tab[x]]
Stored == ToSet(store)
Kept(s) == s \in Stored

\* A dictionary without the session at a place, if there is one.
Without(st, place) == IF place \in DOMAIN st THEN RemoveAt(st, place) ELSE st

\* touch(): the session becomes the one touched last.
PlaceOf(s) == CHOOSE i \in DOMAIN store : store[i] = s
Touched(s) == IF Kept(s) THEN Append(Without(store, PlaceOf(s)), s) ELSE store

\* _reap() drops those that nobody touched for TTL: the first n, whatever n is.
Ages == IF May("expires") THEN 0..Len(store) ELSE {0}
Young(n) == SubSeq(store, n + 1, Len(store))

\* Whom an open() over the limit drops from st: a clean session before one with unsaved
\* answers, and the longest untouched first.  It is named by its place; 0 is nobody's.
FirstOut(st) ==
  {i \in DOMAIN st :
     \A j \in DOMAIN st : IF sess[st[i]].dirty <=> sess[st[j]].dirty THEN i <= j
                          ELSE sess[st[j]].dirty}

\* Wrong variant: when there is one too many, not when there would be.
EvictsLate(st) == IF Len(st) <= MAX THEN {0} ELSE FirstOut(st)

\* Wrong variant: the longest untouched, whatever it holds.
EvictsOldest(st) == IF Len(st) < MAX THEN {0} ELSE {1}

Evicts(st) == IF Len(st) < MAX THEN {0} ELSE FirstOut(st)

\* Unsaved work goes when it is too old, or when all the sessions hold some.
AllDirty(st) == \A s \in ToSet(st) : sess[s].dirty
GivenUp(young, left) ==
  {s \in Stored \ (IF AllDirty(young) THEN ToSet(left) ELSE ToSet(young)) : sess[s].dirty}

\* The parsed tree: the answers in the file, or the defaults without one.
Parse(t) == [target |-> t, base |-> config[t], dirty |-> FALSE,
             answers |-> IF config[t] = NoFile THEN Defaults ELSE config[t]]

-----------------------------------------------------------------------------
(* fw.kconfig.open                                                          *)

\* Wrong variant: no look for a session with unsaved answers.
DirtyForNobody(t) == FALSE

DirtyFor(t) == \E s \in Stored : sess[s].target = t /\ sess[s].dirty

\* The look and the opening are two visits to the store.
AskOpen(x, t) ==
  /\ pc[x] = "idle" /\ StoreFree /\ opens < scenario.opens /\ t \in scenario.targets
  /\ DirtyFor(t) => May("force")
  /\ (\E s \in Stored : sess[s].target = t /\ ~sess[s].dirty) => May("two_tabs")
  /\ (\E y \in Tabs : pc[y] = "opening" /\ call[y].target = t) => May("opens_meet")
  /\ pc' = [pc EXCEPT ![x] = "opening"]
  /\ call' = [call EXCEPT ![x] = [op |-> "open", target |-> t]]
  /\ opens' = opens + 1
  /\ UNCHANGED <<disk, buildLock, sess, store, number, tab, given, scenario>>

\* The reaping and the eviction come first, and the number is used up.
Open(x) ==
  /\ pc[x] = "opening" /\ StoreFree
  /\ \E n \in Ages, place \in 0..MAX :
       LET young == Young(n)
           left == Without(young, place)
       IN  /\ place \in Evicts(young)
           /\ \A s \in Stored \ ToSet(left) : InHand(s) => May("late_call")
           /\ store' = left
           /\ given' = given \cup GivenUp(young, left)
  /\ number' = number + 1
  /\ pc' = [pc EXCEPT ![x] = "parsing"]
  /\ UNCHANGED <<disk, buildLock, sess, call, tab, opens, scenario>>

\* No other call comes to the store meanwhile: the session has the last number.
Opened(x) ==
  /\ pc[x] = "parsing"
  /\ sess' = [sess EXCEPT ![number - 1] = Parse(call[x].target)]
  /\ store' = Append(store, number - 1)
  /\ tab' = [tab EXCEPT ![x] = number - 1]
  /\ pc' = [pc EXCEPT ![x] = "idle"] /\ call' = [call EXCEPT ![x] = NoCall]
  /\ UNCHANGED <<disk, buildLock, number, opens, given, scenario>>

\* The constructor raises: what was evicted for it stays evicted.
OpenFails(x) ==
  /\ pc[x] = "parsing" /\ May("parse_fails")
  /\ pc' = [pc EXCEPT ![x] = "idle"] /\ call' = [call EXCEPT ![x] = NoCall]
  /\ UNCHANGED <<disk, buildLock, sess, store, number, tab, opens, given, scenario>>

-----------------------------------------------------------------------------
(* The other calls: the session is looked up, and then used under its own  *)
(* lock.                                                                    *)

Ends(x) == pc' = [pc EXCEPT ![x] = "idle"] /\ call' = [call EXCEPT ![x] = NoCall]

\* get() reaps too.  A session that is not open any more is reopened, if at all.
Get(x, c) ==
  /\ pc[x] = "idle" /\ tab[x] # 0 /\ StoreFree
  /\ \E n \in Ages :
       /\ \A s \in Stored \ ToSet(Young(n)) : InHand(s) => May("late_call")
       /\ store' = Young(n)
       /\ given' = given \cup {s \in Stored \ ToSet(Young(n)) : sess[s].dirty}
       /\ IF tab[x] \in ToSet(Young(n))
            THEN /\ pc' = [pc EXCEPT ![x] = "inhand"] /\ call' = [call EXCEPT ![x] = c]
                 /\ UNCHANGED tab
            ELSE tab' = [tab EXCEPT ![x] = 0] /\ UNCHANGED <<pc, call>>
  /\ UNCHANGED <<disk, buildLock, sess, number, opens, scenario>>

Calls(x, op) == pc[x] = "inhand" /\ call[x].op = op /\ SessionFree(tab[x])

\* menu, enter, up, help and search.
Look(x) ==
  /\ Calls(x, "look")
  /\ store' = Touched(tab[x])
  /\ Ends(x)
  /\ UNCHANGED <<disk, buildLock, sess, number, tab, opens, given, scenario>>

\* set_value(), when the tree accepts the value.
SetValue(x) ==
  /\ Calls(x, "set")
  /\ sess' = [sess EXCEPT ![tab[x]].answers = call[x].answers, ![tab[x]].dirty = TRUE]
  /\ store' = Touched(tab[x])
  /\ Ends(x)
  /\ UNCHANGED <<disk, buildLock, number, tab, opens, given, scenario>>

\* ... and when it refuses: of the wrong shape, out of range, or not what it is after
\* the assignment.  By then a choice asked for an option that does not show may have
\* fallen back from what it was, and the session does not say that it changed.
SetRefused(x) ==
  /\ Calls(x, "set")
  /\ \E a \in Answers : sess' = [sess EXCEPT ![tab[x]].answers = a]
  /\ Ends(x)
  /\ UNCHANGED <<disk, buildLock, store, number, tab, opens, given, scenario>>

Reset(x) ==
  /\ Calls(x, "reset")
  /\ sess' = [sess EXCEPT ![tab[x]] = Parse(@.target)]
  /\ store' = Touched(tab[x])
  /\ Ends(x)
  /\ UNCHANGED <<disk, buildLock, number, tab, opens, given, scenario>>

ResetFails(x) ==
  /\ Calls(x, "reset") /\ May("parse_fails")
  /\ Ends(x)
  /\ UNCHANGED <<disk, buildLock, sess, store, number, tab, opens, given, scenario>>

\* close() does not mind a call that has the session in hand.
Close(x) ==
  /\ tab[x] # 0 /\ StoreFree /\ pc[x] # "opening" /\ Kept(tab[x])
  /\ InHand(tab[x]) => May("late_call")
  /\ store' = Without(store, PlaceOf(tab[x]))
  /\ given' = IF Mine(x).dirty THEN given \cup {tab[x]} ELSE given
  /\ tab' = IF pc[x] = "idle" THEN [tab EXCEPT ![x] = 0] ELSE tab
  /\ UNCHANGED <<disk, buildLock, sess, number, pc, call, opens, scenario>>

-----------------------------------------------------------------------------
(* fw.kconfig.save: the session's lock, then the build lock.               *)

Write(x) ==
  /\ Calls(x, "save") /\ buildLock = Nobody
  /\ buildLock' = x
  /\ tmp' = [tmp EXCEPT ![Mine(x).target] = Mine(x).answers]
  /\ pc' = [pc EXCEPT ![x] = "written"]
  /\ UNCHANGED <<config, bak, wrote, sess, store, number, call, tab, opens, given,
                 scenario>>

\* BusyError of the lock; or write_config() raises, and the temporary file goes.
SaveRefused(x) ==
  /\ Calls(x, "save")
  /\ \/ buildLock # Nobody /\ UNCHANGED tmp
     \/ /\ buildLock = Nobody /\ May("save_fails")
        /\ tmp' = [tmp EXCEPT ![Mine(x).target] = NoFile]
  /\ Ends(x)
  /\ UNCHANGED <<config, bak, wrote, buildLock, sess, store, number, tab, opens, given,
                 scenario>>

\* Wrong variant: the old answers are removed instead of renamed.
DropOld(x) ==
  /\ pc[x] = "written"
  /\ config' = [config EXCEPT ![Mine(x).target] = NoFile]
  /\ pc' = [pc EXCEPT ![x] = "backed"]
  /\ UNCHANGED <<bak, tmp, wrote, buildLock, sess, store, number, call, tab, opens, given,
                 scenario>>

\* The old answers become the backup.  A failure of that is ignored.
KeepOld(x) ==
  /\ pc[x] = "written"
  /\ LET t == Mine(x).target
     IN  \/ /\ config[t] # NoFile
            /\ bak' = [bak EXCEPT ![t] = config[t]]
            /\ config' = [config EXCEPT ![t] = NoFile]
         \/ /\ config[t] = NoFile \/ May("save_fails")
            /\ UNCHANGED <<bak, config>>
  /\ pc' = [pc EXCEPT ![x] = "backed"]
  /\ UNCHANGED <<tmp, wrote, buildLock, sess, store, number, call, tab, opens, given,
                 scenario>>

PutNew(x) ==
  /\ pc[x] = "backed"
  /\ LET t == Mine(x).target
     IN  /\ tmp[t] # NoFile
         /\ config' = [config EXCEPT ![t] = tmp[t]]
         /\ tmp' = [tmp EXCEPT ![t] = NoFile]
         /\ wrote' = [wrote EXCEPT ![t] = Mine(x).answers]
         /\ sess' = [sess EXCEPT ![tab[x]].base = Mine(x).answers, ![tab[x]].dirty = FALSE]
  /\ buildLock' = Nobody
  /\ store' = Touched(tab[x])
  /\ Ends(x)
  /\ UNCHANGED <<bak, number, tab, opens, given, scenario>>

\* os.replace() raises: there is a backup, and no .config.
PutNewFails(x) ==
  /\ pc[x] = "backed" /\ May("save_fails")
  /\ buildLock' = Nobody
  /\ Ends(x)
  /\ UNCHANGED <<disk, sess, store, number, tab, opens, given, scenario>>

-----------------------------------------------------------------------------
(* The rest of the host.                                                    *)

\* A build, a flash, or their end.
OthersBuild ==
  /\ May("others_build") /\ buildLock \in {Nobody, Other}
  /\ buildLock' = IF buildLock = Nobody THEN Other ELSE Nobody
  /\ UNCHANGED <<disk, sess, store, number, pc, call, tab, opens, given, scenario>>

\* make menuconfig of the CLI writes the file itself, and takes no lock.
Menuconfig(t, a) ==
  /\ May("menuconfig") /\ t \in scenario.targets
  /\ config' = [config EXCEPT ![t] = a] /\ wrote' = [wrote EXCEPT ![t] = a]
  /\ UNCHANGED <<bak, tmp, buildLock, sess, store, number, pc, call, tab, opens, given,
                 scenario>>

\* The sessions go with the agent, and numbers start anew; tabs know nothing of it.
AgentDies ==
  /\ May("dies")
  /\ sess' = [s \in Ids |-> NoSession] /\ store' = <<>> /\ number' = 1
  /\ pc' = [x \in Tabs |-> "idle"] /\ call' = [x \in Tabs |-> NoCall]
  /\ buildLock' = IF buildLock \in Tabs THEN Nobody ELSE buildLock
  /\ given' = {}
  /\ UNCHANGED <<disk, tab, opens, scenario>>

SaveStep(x) == Write(x) \/ SaveRefused(x) \/ KeepOld(x) \/ PutNew(x) \/ PutNewFails(x)

TabStep(x) ==
  \/ \E t \in Targets : AskOpen(x, t)
  \/ Open(x) \/ Opened(x) \/ OpenFails(x)
  \/ \E c \in Call : c.op \notin {"none", "open"} /\ Get(x, c)
  \/ Look(x) \/ SetValue(x) \/ SetRefused(x) \/ Reset(x) \/ ResetFails(x) \/ Close(x)
  \/ SaveStep(x)

KconfigNext ==
  \/ \E x \in Tabs : TabStep(x)
  \/ OthersBuild
  \/ \E t \in Targets, a \in Answers : Menuconfig(t, a)
  \/ AgentDies

KconfigSpec == KconfigInit /\ [][KconfigNext]_kconfigVars

-----------------------------------------------------------------------------
(* Properties                                                               *)

\* The answers last told to be saved can be had from the file or from its backup,
\* whatever fails, dies or meets in a save: "the saved answers are the one thing in
\* this tool that genuinely cannot be regenerated".
SavedAnswersAreKept ==
  \A t \in Targets : wrote[t] # NoFile => wrote[t] \in {config[t], bak[t]}

\* dirty_for() says why it is asked: so that no save silently discards what another
\* session saved.  A save replaces the answers that its session has seen.
SaveDiscardsNothing ==
  \A x \in Tabs : Saving(x) => Mine(x).base = wrote[Mine(x).target]

\* That is so while sessions of a target neither overlap nor outlive their place in
\* the store, and nothing leaves a target without its file.
SaveDiscardsNothingWhenApart ==
  scenario.disturbances \cap {"two_tabs", "force", "opens_meet", "late_call", "menuconfig",
                     "save_fails", "dies"} = {} => SaveDiscardsNothing

\* Answers that a tab set and did not save are in the store until the tab closes or
\* saves them, nobody touches them for long, or an open finds nothing but such
\* sessions.  A set that comes late to a session that has left goes nowhere.
UnsavedWorkIsKept ==
  ~May("late_call") => \A s \in Ids : sess[s].dirty => s \in Stored \cup given
=============================================================================
