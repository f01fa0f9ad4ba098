------------------------- MODULE EditedFilesProofs -------------------------
(***************************************************************************)
(* The files that are edited on behalf of the user, whatever is in them    *)
(* and however many there are of everything.                               *)
(*                                                                         *)
(* Makefiles: a build gives back the bytes it found and no line leaks into *)
(* another type's build, but for a Makefile to which one build adds two    *)
(* lines; no build doubles a line or misses one of its own, provided that  *)
(* no line is a part of another one.                                       *)
(*                                                                         *)
(* Answers: what was saved last is in the .config or beside it, the store  *)
(* gives up unsaved work only when it has to, and sessions that keep apart *)
(* discard nobody's answers.                                               *)
(*                                                                         *)
(* Configuration: an edit of the lines of a document is an edit of the map *)
(* of options that its readers see, and notes stay with what they are      *)
(* about.                                                                  *)
(***************************************************************************)
EXTENDS MakefilePatches, KconfigSessions, CfgDoc, TLAPS, SequenceTheorems, FiniteSetTheorems,
        WellFoundedInduction

-----------------------------------------------------------------------------
(* Makefiles.                                                               *)

\* Where a build is among its patches and its backups.
Place ==
  /\ phase # "idle" => type \in Types
  /\ next >= 1
  /\ phase = "patching" => calm
  /\ phase = "truncated" => next <= Len(backups) /\ backups[next].saved # NotSaved

Inv == TypeOK /\ Place

-----------------------------------------------------------------------------
LEMMA BackupTyped ==
  ASSUME TypeOK, NEW k \in 1..Len(backups)
  PROVE  backups[k].file \in Files /\ backups[k].saved \in Seq(Lines) \cup {NotSaved}
<1>1. ASSUME NEW S, backups \in Seq(S) PROVE backups[k] \in S
  BY <1>1
<1>2. backups[k] \in [file : Files, saved : Seq(Lines) \cup {NotSaved}]
  BY <1>1 DEF TypeOK
<1> QED BY <1>2

LEMMA InitInv == Init => Inv
BY PatchesAssumption DEF Init, Inv, TypeOK, Place

LEMMA NextInv == Inv /\ [Next]_vars => Inv'
<1> SUFFICES ASSUME Inv, [Next]_vars PROVE Inv'
  OBVIOUS
<1> USE DEF Inv, TypeOK, Place
<1>1. ASSUME NEW t \in Types, Begin(t) PROVE Inv'
  BY <1>1 DEF Begin
<1>2. CASE SkipMissing
  BY <1>2 DEF SkipMissing, MorePatches
<1>3. CASE LeaveLeftover
  <2>1. [file |-> Patch.file, saved |-> NotSaved]
          \in [file : Files, saved : Seq(Lines) \cup {NotSaved}]
    BY <1>3 DEF LeaveLeftover
  <2> QED BY <1>3, <2>1 DEF LeaveLeftover, MorePatches
<1>4. CASE ApplyPatch
  <2>1. Patch.file \in Files /\ Patch.line \in Lines
    BY <1>4, PatchesAssumption DEF ApplyPatch, Patch, MorePatches
  <2>2. [file |-> Patch.file, saved |-> content[Patch.file]]
          \in [file : Files, saved : Seq(Lines) \cup {NotSaved}]
    BY <2>1
  <2>3. Append(content[Patch.file], Patch.line) \in Seq(Lines)
    BY <2>1
  <2> QED BY <1>4, <2>1, <2>2, <2>3 DEF ApplyPatch, MorePatches
<1>5. CASE StartMake \/ EnterFinally \/ Finish
  BY <1>5 DEF StartMake, EnterFinally, Finish
<1>6. CASE RestoreNext
  <2>1. next \in 1..Len(backups)
    BY <1>6 DEF RestoreNext
  <2>2. backups[next].file \in Files /\ <<>> \in Seq(Lines)
    BY <2>1, BackupTyped
  <2>3. CASE backups[next].saved # NotSaved
    <3>1. /\ content' = [content EXCEPT ![backups[next].file] = <<>>]
          /\ phase' = "truncated" /\ next' = next
          /\ UNCHANGED <<type, backups, before, calm, accidents>>
      BY <1>6, <2>3 DEF RestoreNext
    <3>2. content' \in [Files -> Seq(Lines)]
      BY <3>1, <2>2
    <3> QED BY <1>6, <2>1, <2>3, <3>1, <3>2 DEF RestoreNext
  <2>4. CASE backups[next].saved = NotSaved
    BY <1>6, <2>4 DEF RestoreNext
  <2> QED BY <2>3, <2>4
<1>7. CASE WriteBack
  <2>1. next \in 1..Len(backups)
    BY <1>7 DEF WriteBack
  <2>2. backups[next].file \in Files /\ backups[next].saved \in Seq(Lines)
    BY <1>7, <2>1, BackupTyped DEF WriteBack
  <2>3. content' \in [Files -> Seq(Lines)]
    BY <1>7, <2>2 DEF WriteBack
  <2> QED BY <1>7, <2>1, <2>3 DEF WriteBack
<1>8. CASE RestoreFails
  <2>1. accidents' \in 0..MaxAccidents
    BY SMTT(40), <1>8, PatchesAssumption DEF RestoreFails
  <2>2. /\ phase # "idle" /\ next' = next + 1 /\ phase' = "restoring" /\ calm' = FALSE
        /\ UNCHANGED <<content, type, backups, before, spoiled>>
    BY <1>8 DEF RestoreFails
  <2>3. next' \in Nat /\ next' >= 1
    BY <2>2
  <2> QED BY <2>1, <2>2, <2>3
<1>10. CASE Crash
  <2>1. accidents' \in 0..MaxAccidents
    BY <1>10, PatchesAssumption DEF Crash
  <2> QED BY <1>10, <2>1 DEF Crash
<1>9. CASE UNCHANGED vars
  BY <1>9 DEF vars
<1> QED BY <1>1, <1>2, <1>3, <1>4, <1>5, <1>6, <1>7, <1>8, <1>9, <1>10 DEF Next

\* A build that is under way is of an MCU type, and it writes back only what it saved.
THEOREM Invariance == Spec => []Inv
BY InitInv, NextInv, PTL DEF Spec

\* TypeOK, for every number of Makefiles and types.
THEOREM TypeCorrect == Spec => []TypeOK
BY Invariance, PTL DEF Inv

-----------------------------------------------------------------------------
(* What is written back is what was there before.                           *)

\* The one backup of a file holds what the build found.
SavedIsBefore ==
  phase # "idle" =>
    \A k \in 1..Len(backups) :
      \/ backups[k].saved \in {NotSaved, before[backups[k].file]}
      \/ SavedTwice(backups[k].file)

\* A file that differs from what it was has a backup that is still to be written back.
ChangedIsBacked ==
  phase # "idle" /\ calm =>
    \A f \in Files : content[f] # before[f] /\ ~SavedTwice(f) =>
      \E k \in 1..Len(backups) :
        /\ backups[k].file = f /\ backups[k].saved # NotSaved
        /\ phase \in {"restoring", "truncated"} => k >= next

Backed == SavedIsBefore /\ ChangedIsBacked

LEMMA BackedNext ==
  ASSUME Inv, Backed, [Next]_vars
  PROVE  Backed'
<1> USE DEF Inv, TypeOK, Place, Backed, SavedIsBefore, ChangedIsBacked
<1>0. ASSUME backups' = backups PROVE \A f : SavedTwice(f)' = SavedTwice(f)
  BY <1>0 DEF SavedTwice
<1>1. ASSUME NEW t \in Types, Begin(t) PROVE Backed'
  BY <1>1 DEF Begin
<1>2. CASE SkipMissing
  BY <1>0, <1>2 DEF SkipMissing, MorePatches
<1>3. CASE LeaveLeftover \/ ApplyPatch
  <2>1. /\ phase = "patching" /\ phase' = "patching" /\ calm
        /\ Patch.file \in Files /\ UNCHANGED <<type, before, calm>>
    BY <1>3 DEF LeaveLeftover, ApplyPatch, MorePatches
  <2>2. PICK saved \in {NotSaved, content[Patch.file]} :
          /\ backups' = Append(backups, [file |-> Patch.file, saved |-> saved])
          /\ content' # content => saved = content[Patch.file]
    BY <1>3 DEF LeaveLeftover, ApplyPatch
  <2>3. /\ Len(backups') = Len(backups) + 1 /\ Len(backups) \in Nat
        /\ \A k \in 1..Len(backups) : backups'[k] = backups[k]
        /\ backups'[Len(backups) + 1] = [file |-> Patch.file, saved |-> saved]
    BY <2>2
  <2> DEFINE Twice(f) ==
        \E i, j \in 1..Len(backups') :
          /\ i # j /\ backups'[i].file = f /\ backups'[j].file = f
          /\ backups'[i].saved # NotSaved /\ backups'[j].saved # NotSaved
  <2>a. \A f : SavedTwice(f)' = Twice(f)
    BY DEF SavedTwice
  <2>4. \A f : SavedTwice(f) => Twice(f)
    <3> SUFFICES ASSUME NEW f, SavedTwice(f) PROVE Twice(f)
      OBVIOUS
    <3>1. PICK i, j \in 1..Len(backups) :
            /\ i # j /\ backups[i].file = f /\ backups[j].file = f
            /\ backups[i].saved # NotSaved /\ backups[j].saved # NotSaved
      BY DEF SavedTwice
    <3>2. /\ i \in 1..Len(backups') /\ j \in 1..Len(backups')
          /\ backups'[i] = backups[i] /\ backups'[j] = backups[j]
      BY <2>3
    <3>3. /\ i # j /\ backups'[i].file = f /\ backups'[j].file = f
          /\ backups'[i].saved # NotSaved /\ backups'[j].saved # NotSaved
      BY <3>1, <3>2
    <3> QED BY <3>2, <3>3
  <2>5. content[Patch.file] # before[Patch.file] /\ saved # NotSaved => Twice(Patch.file)
    <3> SUFFICES ASSUME content[Patch.file] # before[Patch.file], saved # NotSaved,
                        ~SavedTwice(Patch.file)
                 PROVE  Twice(Patch.file)
      <4>1. SavedTwice(Patch.file) => Twice(Patch.file)
        <5> HIDE DEF Twice
        <5> QED BY <2>4
      <4> QED BY <4>1
    <3>1. PICK k \in 1..Len(backups) :
            backups[k].file = Patch.file /\ backups[k].saved # NotSaved
      BY <2>1
    <3> DEFINE n == Len(backups) + 1
    <3>2. /\ n \in 1..Len(backups') /\ k \in 1..Len(backups') /\ k # n
          /\ backups'[n].file = Patch.file /\ backups'[n].saved # NotSaved
          /\ backups'[k] = backups[k]
      BY <2>3
    <3> HIDE DEF n
    <3>3. backups'[k].file = Patch.file /\ backups'[k].saved # NotSaved
      BY <3>1, <3>2
    <3> QED BY <3>2, <3>3
  <2> HIDE DEF Twice
  <2>6. SavedIsBefore'
    <3> SUFFICES ASSUME NEW k \in 1..Len(backups')
                 PROVE  \/ backups'[k].saved \in {NotSaved, before[backups'[k].file]}
                        \/ Twice(backups'[k].file)
      BY <2>1, <2>a
    <3>1. k = Len(backups) + 1 \/ k \in 1..Len(backups)
      BY <2>3
    <3>2. CASE k = Len(backups) + 1
      <4>1. backups'[k].file = Patch.file /\ backups'[k].saved = saved
        BY <2>3, <3>2
      <4> QED BY <2>2, <2>5, <4>1
    <3>3. CASE k \in 1..Len(backups)
      BY <2>1, <2>3, <2>4, <3>3
    <3> QED BY <3>1, <3>2, <3>3
  <2>7. ChangedIsBacked'
    <3> SUFFICES ASSUME NEW f \in Files, content'[f] # before[f], ~Twice(f)
                 PROVE  \E k \in 1..Len(backups') :
                          backups'[k].file = f /\ backups'[k].saved # NotSaved
      BY <2>1, <2>a
    <3>1. CASE content'[f] = content[f]
      <4>1. PICK k \in 1..Len(backups) : backups[k].file = f /\ backups[k].saved # NotSaved
        BY <2>1, <2>4, <3>1
      <4> QED BY <2>3, <4>1
    <3>2. CASE content'[f] # content[f]
      <4>1. f = Patch.file
        BY <1>3, <2>1, <3>2 DEF LeaveLeftover, ApplyPatch
      <4>2. saved = content[f] /\ content[f] \in Seq(Lines)
        BY <2>2, <3>2, <4>1
      <4>3. saved # NotSaved
        BY <4>2, PatchesAssumption
      <4> DEFINE n == Len(backups) + 1
      <4>4. n \in 1..Len(backups') /\ backups'[n].file = f /\ backups'[n].saved # NotSaved
        BY <2>3, <4>1, <4>3
      <4> QED BY <4>4
    <3> QED BY <3>1, <3>2
  <2> QED BY <2>6, <2>7
<1>4. CASE StartMake
  BY <1>0, <1>4 DEF StartMake
<1>9. CASE EnterFinally
  <2>1. /\ phase \in {"patching", "making"} /\ phase' = "restoring" /\ next' = 1
        /\ UNCHANGED <<content, type, backups, before, calm>>
    BY <1>9 DEF EnterFinally
  <2>2. SavedIsBefore'
    BY <1>0, <2>1
  <2>3. ChangedIsBacked'
    <3> SUFFICES ASSUME calm, NEW f \in Files, content[f] # before[f], ~SavedTwice(f)
                 PROVE  \E k \in 1..Len(backups) :
                          backups[k].file = f /\ backups[k].saved # NotSaved /\ k >= 1
      BY <1>0, <2>1
    <3>1. PICK k \in 1..Len(backups) : backups[k].file = f /\ backups[k].saved # NotSaved
      BY <2>1
    <3> QED BY <3>1
  <2> QED BY <2>2, <2>3
<1>5. CASE RestoreNext
  <2>1. /\ phase = "restoring" /\ phase' \in {"restoring", "truncated"}
        /\ next \in 1..Len(backups) /\ backups[next].file \in Files
        /\ UNCHANGED <<backups, before, calm>>
    BY <1>5, BackupTyped DEF RestoreNext
  <2>2. CASE backups[next].saved # NotSaved
    <3>1. /\ next' = next /\ \A f \in Files \ {backups[next].file} : content'[f] = content[f]
      BY <1>5, <2>1, <2>2 DEF RestoreNext
    <3>2. SavedIsBefore'
      BY <1>0, <2>1
    <3>3. ChangedIsBacked'
      <4> SUFFICES ASSUME calm, NEW f \in Files, content'[f] # before[f], ~SavedTwice(f)
                   PROVE  \E k \in 1..Len(backups) :
                            backups[k].file = f /\ backups[k].saved # NotSaved /\ k >= next
        BY <1>0, <2>1, <3>1
      <4>1. CASE f = backups[next].file
        BY <2>1, <2>2, <4>1
      <4>2. CASE f # backups[next].file
        BY <2>1, <3>1, <4>2
      <4> QED BY <4>1, <4>2
    <3> QED BY <3>2, <3>3
  <2>3. CASE backups[next].saved = NotSaved
    <3>1. content' = content /\ phase' = "restoring" /\ next' = next + 1
      BY <1>5, <2>3 DEF RestoreNext
    <3> QED BY SMTT(40), <1>0, <2>1, <2>3, <3>1
  <2> QED BY <2>2, <2>3
<1>6. CASE WriteBack
  <2>1. /\ phase = "truncated" /\ phase' = "restoring" /\ next' = next + 1
        /\ next \in 1..Len(backups) /\ backups[next].file \in Files
        /\ backups[next].saved = before[backups[next].file] \/ SavedTwice(backups[next].file)
        /\ UNCHANGED <<backups, before, calm>>
    BY <1>6, BackupTyped DEF WriteBack
  <2>2. /\ \/ content'[backups[next].file] = before[backups[next].file]
           \/ SavedTwice(backups[next].file)
        /\ \A f \in Files \ {backups[next].file} : content'[f] = content[f]
    BY <1>6, <2>1 DEF WriteBack
  <2>3. SavedIsBefore'
    BY <1>0, <2>1
  <2>4. ChangedIsBacked'
    <3> SUFFICES ASSUME calm, NEW f \in Files, content'[f] # before[f], ~SavedTwice(f)
                 PROVE  \E k \in 1..Len(backups) :
                          backups[k].file = f /\ backups[k].saved # NotSaved /\ k >= next + 1
      BY <1>0, <2>1
    <3>1. f # backups[next].file /\ content[f] # before[f]
      BY <2>2
    <3>2. PICK k \in 1..Len(backups) :
            backups[k].file = f /\ backups[k].saved # NotSaved /\ k >= next
      BY <2>1, <3>1
    <3>3. k # next /\ k \in Nat /\ next \in Nat
      BY <2>1, <3>1, <3>2
    <3> QED BY <3>2, <3>3
  <2> QED BY <2>3, <2>4
<1>7. CASE RestoreFails \/ Finish \/ Crash
  BY <1>0, <1>7 DEF RestoreFails, Finish, Crash
<1>8. CASE UNCHANGED vars
  BY <1>0, <1>8 DEF vars
<1> QED BY <1>1, <1>2, <1>3, <1>4, <1>5, <1>6, <1>7, <1>8, <1>9 DEF Next

LEMMA FinishRestores ==
  ASSUME Inv, Backed, Finish
  PROVE  calm => \A f \in Files : SavedTwice(f) \/ content[f] = before[f]
BY DEF Finish, Inv, TypeOK, Place, Backed, ChangedIsBacked

LEMMA OnlyFinishEndsCalmly ==
  ASSUME [Next]_vars, phase = "restoring", phase' = "idle", accidents' = accidents, Inv
  PROVE  Finish
<1> USE DEF Inv, TypeOK
<1>1. ~(\E t \in Types : Begin(t)) /\ ~SkipMissing /\ ~LeaveLeftover /\ ~ApplyPatch
  BY DEF Begin, SkipMissing, LeaveLeftover, ApplyPatch, MorePatches
<1>2. ~StartMake /\ ~EnterFinally /\ ~RestoreNext /\ ~WriteBack
  BY DEF StartMake, EnterFinally, RestoreNext, WriteBack
<1>3. ~RestoreFails /\ ~Crash /\ ~UNCHANGED vars
  BY DEF RestoreFails, Crash, vars
<1> QED BY <1>1, <1>2, <1>3 DEF Next

LEMMA InitBacked == Init => Backed
BY DEF Init, Backed, SavedIsBefore, ChangedIsBacked

\* BytesRestored, for every tree and every list of patches: what a calm build changed it
\* gives back, but for a Makefile to which it added two lines.
THEOREM BytesAreRestored == Spec => BytesRestored
<1>1. Init => Inv /\ Backed
  BY InitInv, InitBacked
<1>2. Inv /\ Backed /\ [Next]_vars => Inv' /\ Backed'
  BY NextInv, BackedNext
<1>3. Inv /\ Backed /\ [Next]_vars
        => [EndsCalmly => \A f \in Files : SavedTwice(f) \/ content[f] = before[f]]_vars
  BY OnlyFinishEndsCalmly, FinishRestores DEF EndsCalmly
<1> QED BY <1>1, <1>2, <1>3, PTL DEF Spec, BytesRestored

-----------------------------------------------------------------------------
(* Without accidents, no line of one type is there when another one is made. *)

Own(f, line) ==
  \/ Has(Original[f], line)
  \/ \E k \in 1..Len(PatchesOf[type]) :
       PatchesOf[type][k].file = f /\ PatchesOf[type][k].line = line

CleanBetweenBuilds ==
  accidents = 0 =>
    /\ phase # "idle" => calm
    /\ \A f \in Files \ spoiled :
         IF phase = "idle" THEN content[f] = Original[f] ELSE before[f] = Original[f]

OwnLinesOnly ==
  accidents = 0 /\ phase \in {"patching", "making"} =>
    \A f \in Files \ spoiled : \A i \in 1..Len(content[f]) : Own(f, content[f][i])

Clean == CleanBetweenBuilds /\ OwnLinesOnly

LEMMA CleanNext ==
  ASSUME Inv, Backed, Clean, [Next]_vars
  PROVE  Clean'
<1> USE DEF Inv, TypeOK, Place, Clean, CleanBetweenBuilds, OwnLinesOnly
<1>1. ASSUME NEW t \in Types, Begin(t) PROVE Clean'
  BY <1>1 DEF Begin, Own, Has
<1>2. CASE SkipMissing \/ LeaveLeftover
  <2>1. /\ phase = "patching" /\ phase' = "patching"
        /\ UNCHANGED <<content, type, before, calm, spoiled, accidents>>
    BY <1>2 DEF SkipMissing, LeaveLeftover, MorePatches
  <2>2. \A f, l : Own(f, l)' = Own(f, l)
    BY <2>1 DEF Own
  <2> QED BY <2>1, <2>2
<1>3. CASE ApplyPatch
  <2>1. /\ phase = "patching" /\ phase' = "patching" /\ calm
        /\ Patch.file \in Files /\ Patch.line \in Lines
        /\ next \in 1..Len(PatchesOf[type]) /\ Patch = PatchesOf[type][next]
        /\ content' = [content EXCEPT ![Patch.file] = Append(@, Patch.line)]
        /\ UNCHANGED <<type, before, calm, spoiled, accidents>>
    BY <1>3, PatchesAssumption DEF ApplyPatch, MorePatches, Patch
  <2>2. ASSUME accidents = 0, NEW f \in Files \ spoiled, NEW i \in 1..Len(content'[f])
        PROVE  Own(f, content'[f][i])
    <3>1. CASE f # Patch.file \/ i \in 1..Len(content[f])
      <4>1. i \in 1..Len(content[f]) /\ content'[f][i] = content[f][i]
        BY SMTT(40), <2>1, <2>2, <3>1
      <4> QED BY <2>1, <2>2, <4>1
    <3>2. CASE f = Patch.file /\ i \notin 1..Len(content[f])
      <4>1. content'[f][i] = Patch.line
        BY <2>1, <2>2, <3>2
      <4> QED BY <2>1, <3>2, <4>1 DEF Own
    <3> QED BY <3>1, <3>2
  <2>3. \A f, l : Own(f, l)' = Own(f, l)
    BY <2>1 DEF Own
  <2> QED BY <2>1, <2>2, <2>3
<1>4. CASE StartMake \/ EnterFinally
  <2>1. /\ phase \in {"patching", "making"} /\ phase' \in {"making", "restoring"}
        /\ UNCHANGED <<content, type, before, calm, spoiled, accidents>>
    BY <1>4 DEF StartMake, EnterFinally
  <2>2. \A f, l : Own(f, l)' = Own(f, l)
    BY <2>1 DEF Own
  <2> QED BY <2>1, <2>2
<1>5. CASE RestoreNext \/ WriteBack
  BY <1>5 DEF RestoreNext, WriteBack
<1>6. CASE RestoreFails \/ Crash
  <2>1. accidents \in Nat /\ accidents' = accidents + 1 /\ phase' \in {"restoring", "idle"}
    BY <1>6, PatchesAssumption DEF RestoreFails, Crash
  <2>2. accidents' # 0
    BY <2>1
  <2> QED BY <2>2
<1>7. CASE Finish
  BY <1>7, FinishRestores DEF Finish
<1>8. CASE UNCHANGED vars
  BY <1>8 DEF vars, Own
<1> QED BY <1>1, <1>2, <1>3, <1>4, <1>5, <1>6, <1>7, <1>8 DEF Next

\* NoLeak, for every tree and every list of patches: without accidents no line reaches the
\* make of another type, but in a Makefile to which some build added two lines.
THEOREM NothingLeaks == Spec => []NoLeak
<1>1. Init => Inv /\ Backed /\ Clean
  BY InitInv, InitBacked DEF Init, Clean, CleanBetweenBuilds, OwnLinesOnly
<1>2. Inv /\ Backed /\ Clean /\ [Next]_vars => Inv' /\ Backed' /\ Clean'
  BY NextInv, BackedNext, CleanNext
<1>3. Clean => NoLeak
  BY DEF Clean, OwnLinesOnly, Own, NoLeak
<1> QED BY <1>1, <1>2, <1>3, PTL DEF Spec

-----------------------------------------------------------------------------
(* Whatever was left behind, each line of the type that is made is there once. *)

Once(text, line) ==
  \A i, j \in 1..Len(text) : text[i] = line /\ text[j] = line => i = j

PatchLines(f) ==
  {PatchesOf[p[1]][p[2]].line :
     p \in {q \in Types \X Nat : q[2] \in 1..Len(PatchesOf[q[1]])
                                   /\ PatchesOf[q[1]][q[2]].file = f}}

\* A file as checked out holds no line twice that a type appends to it, and no
\* line is a part of another one.
LinesApart ==
  /\ \A f \in Files : \A line \in PatchLines(f) : Once(Original[f], line)
  /\ \A a, b \in Lines : <<a, b>> \in PartOf => a = b

NothingTwice ==
  /\ \A f \in Files : \A line \in PatchLines(f) : Once(content[f], line)
  /\ \A k \in 1..Len(backups) : backups[k].saved # NotSaved =>
       \A line \in PatchLines(backups[k].file) : Once(backups[k].saved, line)

\* The patches done so far are in their files.
AppliedAreThere ==
  \A k \in 1..Len(PatchesOf[type]) :
    /\ PatchesOf[type][k].file \in Files
    /\ phase = "making" \/ (phase = "patching" /\ k < next)
    => Has(content[PatchesOf[type][k].file], PatchesOf[type][k].line)

Patched == NothingTwice /\ AppliedAreThere

LEMMA LinesOfPatches ==
  ASSUME Inv, phase # "idle", NEW k \in 1..Len(PatchesOf[type])
  PROVE  /\ PatchesOf[type][k].line \in PatchLines(PatchesOf[type][k].file)
         /\ PatchesOf[type][k].line \in Lines
<1>1. type \in Types /\ k \in Nat
  BY PatchesAssumption DEF Inv, Place
<1>2. <<type, k>> \in Types \X Nat
  BY <1>1
<1> QED BY SMTT(40), <1>1, <1>2, PatchesAssumption DEF PatchLines

LEMMA PatchLinesAreLines == \A f : PatchLines(f) \subseteq Lines
<1> SUFFICES ASSUME NEW f, NEW line \in PatchLines(f) PROVE line \in Lines
  OBVIOUS
<1>1. PICK p \in Types \X Nat : /\ p[2] \in 1..Len(PatchesOf[p[1]])
                                /\ line = PatchesOf[p[1]][p[2]].line
  BY DEF PatchLines
<1> QED BY <1>1, PatchesAssumption

LEMMA AppendedOnce ==
  ASSUME NEW text \in Seq(Lines), NEW added \in Lines, NEW line \in Lines,
         Once(text, line), ~Has(text, added)
  PROVE  Once(Append(text, added), line)
<1> DEFINE longer == Append(text, added)
<1>1. /\ Len(longer) = Len(text) + 1 /\ Len(text) \in Nat /\ longer[Len(text) + 1] = added
      /\ \A i \in 1..Len(text) : longer[i] = text[i]
  OBVIOUS
<1> HIDE DEF longer
<1>2. \A i \in 1..Len(longer) : i \in 1..Len(text) \/ i = Len(text) + 1
  BY <1>1
<1> SUFFICES ASSUME NEW i \in 1..Len(longer), NEW j \in 1..Len(longer),
                    longer[i] = line, longer[j] = line
             PROVE  i = j
  BY DEF Once, longer
<1> QED BY <1>1, <1>2 DEF Once, Has

LEMMA PatchedNext ==
  ASSUME LinesApart, Inv, Patched, [Next]_vars
  PROVE  Patched'
<1> USE DEF Patched
<1>1. ASSUME NEW t \in Types, Begin(t) PROVE Patched'
  BY <1>1, PatchesAssumption DEF Begin, NothingTwice, AppliedAreThere
<1>2. CASE SkipMissing
  <2>1. /\ phase = "patching" /\ phase' = "patching" /\ next' = next + 1 /\ next \in Nat
        /\ PatchesOf[type][next].file \notin Files
        /\ UNCHANGED <<content, type, backups>>
    BY <1>2 DEF SkipMissing, MorePatches, Patch, Inv, TypeOK
  <2>2. NothingTwice'
    BY <2>1 DEF NothingTwice
  <2>3. AppliedAreThere'
    BY <2>1 DEF AppliedAreThere
  <2> QED BY <2>2, <2>3
<1>3. CASE LeaveLeftover
  <2>1. /\ phase = "patching" /\ phase' = "patching" /\ next' = next + 1
        /\ next \in 1..Len(PatchesOf[type]) /\ Patch = PatchesOf[type][next]
        /\ Patch.file \in Files /\ UNCHANGED <<content, type>>
        /\ backups' = Append(backups, [file |-> Patch.file, saved |-> NotSaved])
    BY <1>3, PatchesAssumption DEF LeaveLeftover, MorePatches, Patch, Inv, TypeOK, Place
  <2>2. NothingTwice'
    <3>1. /\ Len(backups') = Len(backups) + 1 /\ Len(backups) \in Nat
          /\ \A k \in 1..Len(backups) : backups'[k] = backups[k]
          /\ backups'[Len(backups) + 1].saved = NotSaved
      BY <2>1 DEF Inv, TypeOK
    <3>2. \A k \in 1..Len(backups') : k \in 1..Len(backups) \/ k = Len(backups) + 1
      BY <3>1
    <3> QED BY <2>1, <3>1, <3>2 DEF NothingTwice
  <2>3. Has(content[Patch.file], Patch.line)
    <3>1. Patch.line \in Lines /\ content[Patch.file] \in Seq(Lines)
      BY <2>1, LinesOfPatches DEF Inv, TypeOK
    <3>2. PICK i \in 1..Len(content[Patch.file]) :
            <<Patch.line, content[Patch.file][i]>> \in PartOf
      BY <1>3 DEF LeaveLeftover, AlreadyIn
    <3>3. content[Patch.file][i] \in Lines
      BY <3>1
    <3> QED BY <3>1, <3>2, <3>3 DEF LinesApart, Has
  <2>4. AppliedAreThere'
    BY <2>1, <2>3 DEF AppliedAreThere
  <2> QED BY <2>2, <2>4
<1>4. CASE ApplyPatch
  <2> DEFINE f == Patch.file
  <2>1. /\ phase = "patching" /\ phase' = "patching" /\ next' = next + 1
        /\ next \in 1..Len(PatchesOf[type]) /\ Patch = PatchesOf[type][next]
        /\ f \in Files /\ UNCHANGED <<type>>
        /\ ~AlreadyIn(content[f], Patch.line)
        /\ content' = [content EXCEPT ![f] = Append(@, Patch.line)]
        /\ backups' = Append(backups, [file |-> f, saved |-> content[f]])
    BY <1>4, PatchesAssumption DEF ApplyPatch, MorePatches, Patch, Inv, TypeOK, Place
  <2>2. Patch.line \in Lines /\ content[f] \in Seq(Lines) /\ content \in [Files -> Seq(Lines)]
    BY <2>1, LinesOfPatches DEF Inv, TypeOK
  <2>3. ~Has(content[f], Patch.line)
    BY <2>1, <2>2, PatchesAssumption DEF AlreadyIn, Has
  <2>4. content'[f] = Append(content[f], Patch.line)
        /\ \A g \in Files \ {f} : content'[g] = content[g]
    BY <2>1, <2>2
  <2>5. NothingTwice'
    <3>1. ASSUME NEW g \in Files, NEW line \in PatchLines(g) PROVE Once(content'[g], line)
      <4>1. CASE g = f
        <5>1. line \in Lines /\ Once(content[f], line)
          BY <2>1, <3>1, <4>1, PatchLinesAreLines DEF NothingTwice
        <5> QED BY <2>2, <2>3, <2>4, <4>1, <5>1, AppendedOnce
      <4>2. CASE g # f
        BY <2>4, <3>1, <4>2 DEF NothingTwice
      <4> QED BY <4>1, <4>2
    <3>2. /\ Len(backups') = Len(backups) + 1 /\ Len(backups) \in Nat
          /\ \A k \in 1..Len(backups) : backups'[k] = backups[k]
          /\ backups'[Len(backups) + 1] = [file |-> f, saved |-> content[f]]
      BY <2>1 DEF Inv, TypeOK
    <3>3. ASSUME NEW k \in 1..Len(backups'), backups'[k].saved # NotSaved,
                 NEW line \in PatchLines(backups'[k].file)
          PROVE  Once(backups'[k].saved, line)
      <4>1. k \in 1..Len(backups) \/ k = Len(backups) + 1
        BY <3>2
      <4>2. CASE k \in 1..Len(backups)
        BY <3>2, <3>3, <4>2 DEF NothingTwice
      <4>3. CASE k = Len(backups) + 1
        <5>1. backups'[k].file = f /\ backups'[k].saved = content[f]
          BY <3>2, <4>3
        <5> QED BY <2>1, <3>3, <5>1 DEF NothingTwice
      <4> QED BY <4>1, <4>2, <4>3
    <3> QED BY <3>1, <3>3 DEF NothingTwice
  <2>6. AppliedAreThere'
    <3> SUFFICES ASSUME NEW k \in 1..Len(PatchesOf[type]), PatchesOf[type][k].file \in Files,
                        k < next + 1
                 PROVE  Has(content'[PatchesOf[type][k].file], PatchesOf[type][k].line)
      BY <2>1 DEF AppliedAreThere
    <3> DEFINE g == PatchesOf[type][k].file
               line == PatchesOf[type][k].line
    <3>1. CASE k = next
      <4>1. Len(content'[f]) \in 1..Len(content'[f])
            /\ content'[f][Len(content'[f])] = Patch.line
        BY <2>2, <2>4
      <4> QED BY <2>1, <3>1, <4>1 DEF Has
    <3>2. CASE k # next
      <4>1. k < next /\ content[g] \in Seq(Lines)
        BY <2>1, <2>2, <3>2, PatchesAssumption
      <4>2. PICK i \in 1..Len(content[g]) : content[g][i] = line
        BY <2>1, <4>1 DEF AppliedAreThere, Has
      <4>3. i \in 1..Len(content'[g]) /\ content'[g][i] = line
        <5>1. CASE g = f
          BY <2>2, <2>4, <4>1, <4>2, <5>1
        <5>2. CASE g # f
          BY <2>4, <4>2, <5>2
        <5> QED BY <5>1, <5>2
      <4> QED BY <4>3 DEF Has
    <3> QED BY <3>1, <3>2
  <2> QED BY <2>5, <2>6
<1>5. CASE StartMake
  <2>1. /\ phase = "patching" /\ next > Len(PatchesOf[type]) /\ next \in Nat
        /\ Len(PatchesOf[type]) \in Nat /\ UNCHANGED <<content, type, backups>>
    BY <1>5, PatchesAssumption DEF StartMake, Inv, TypeOK, Place
  <2>2. \A k \in 1..Len(PatchesOf[type]) : k < next
    BY <2>1
  <2> QED BY <2>1, <2>2 DEF NothingTwice, AppliedAreThere
<1>6. CASE EnterFinally \/ RestoreFails \/ Finish \/ Crash
  <2>1. phase' \in {"restoring", "idle"} /\ UNCHANGED <<content, backups>>
    BY <1>6 DEF EnterFinally, RestoreFails, Finish, Crash
  <2> QED BY <2>1 DEF NothingTwice, AppliedAreThere
<1>7. CASE RestoreNext \/ WriteBack
  <2>1. /\ next \in 1..Len(backups) /\ phase' \in {"restoring", "truncated"}
        /\ UNCHANGED <<type, backups>>
    BY <1>7 DEF RestoreNext, WriteBack, Inv, TypeOK, Place
  <2>2. /\ backups[next].file \in Files
        /\ backups[next].saved = NotSaved \/ backups[next].saved \in Seq(Lines)
    BY <2>1, BackupTyped DEF Inv
  <2>3. ASSUME NEW f \in Files, NEW line \in PatchLines(f) PROVE Once(content'[f], line)
    <3>1. CASE content'[f] = content[f]
      BY <3>1 DEF NothingTwice
    <3>2. CASE content'[f] = <<>>
      BY <3>2 DEF Once
    <3>3. CASE f = backups[next].file /\ backups[next].saved # NotSaved
                 /\ content'[f] = backups[next].saved
      BY <2>1, <3>3 DEF NothingTwice
    <3>4. CASE RestoreNext
      <4>1. content' = content \/ content' = [content EXCEPT ![backups[next].file] = <<>>]
        BY <3>4 DEF RestoreNext
      <4> QED BY <2>2, <3>1, <3>2, <4>1 DEF Inv, TypeOK
    <3>5. CASE WriteBack
      <4>1. content' = [content EXCEPT ![backups[next].file] = backups[next].saved]
            /\ backups[next].saved # NotSaved
        BY <3>5 DEF WriteBack, Inv, Place
      <4> QED BY <2>2, <3>1, <3>3, <4>1 DEF Inv, TypeOK
    <3> QED BY <1>7, <3>4, <3>5
  <2>4. NothingTwice'
    BY <2>1, <2>3 DEF NothingTwice
  <2> QED BY <2>1, <2>4 DEF AppliedAreThere
<1>8. CASE UNCHANGED vars
  BY <1>8 DEF vars, NothingTwice, AppliedAreThere
<1> QED BY <1>1, <1>2, <1>3, <1>4, <1>5, <1>6, <1>7, <1>8 DEF Next

\* PatchedOnce, for every tree whose files hold no line twice and no line as a part
\* of another: with a line that contains another one, the shorter is never applied.
THEOREM EveryLineIsPatchedOnce ==
  ASSUME LinesApart
  PROVE  Spec => []PatchedOnce
<1>1. Init => Inv /\ Patched
  <2> SUFFICES ASSUME Init PROVE Patched
    BY InitInv
  <2>1. NothingTwice
    BY DEF Init, NothingTwice, LinesApart
  <2> QED BY <2>1 DEF Init, Patched, AppliedAreThere
<1>2. Inv /\ Patched /\ [Next]_vars => Inv' /\ Patched'
  BY NextInv, PatchedNext
<1>3. Inv /\ Patched => PatchedOnce
  <2> SUFFICES ASSUME Inv, Patched, phase = "making", NEW k \in 1..Len(PatchesOf[type]),
                      PatchesOf[type][k].file \in Files
               PROVE  LET p == PatchesOf[type][k]
                      IN  \E i \in 1..Len(content[p.file]) :
                            /\ content[p.file][i] = p.line
                            /\ \A j \in 1..Len(content[p.file]) :
                                 content[p.file][j] = p.line => j = i
    BY DEF PatchedOnce
  <2> DEFINE p == PatchesOf[type][k]
  <2>1. Has(content[p.file], p.line) /\ Once(content[p.file], p.line)
    <3>1. p.line \in PatchLines(p.file)
      BY LinesOfPatches
    <3>2. Once(content[p.file], p.line)
      BY <3>1 DEF Patched, NothingTwice
    <3>3. Has(content[p.file], p.line)
      BY DEF Patched, AppliedAreThere
    <3> QED BY <3>2, <3>3
  <2> QED BY <2>1 DEF Has, Once
<1> QED BY <1>1, <1>2, <1>3, PTL DEF Spec

-----------------------------------------------------------------------------
(* Sequences without repetitions.                                           *)

Distinct(st) == \A i, j \in DOMAIN st : st[i] = st[j] => i = j

LEMMA NextOrSame == \A m, n \in Nat : m <= n => m + 1 <= n \/ m = n
OBVIOUS

\* What is left of a sequence when one of its places goes.
LEMMA WithoutPlace ==
  ASSUME NEW S, NEW st \in Seq(S), Distinct(st), NEW place
  PROVE  /\ Without(st, place) \in Seq(S) /\ Distinct(Without(st, place))
         /\ place \in DOMAIN st => /\ ToSet(Without(st, place)) = ToSet(st) \ {st[place]}
                                   /\ Len(Without(st, place)) = Len(st) - 1
         /\ place \notin DOMAIN st => Without(st, place) = st
<1>1. CASE place \notin DOMAIN st
  BY <1>1 DEF Without
<1>2. CASE place \in DOMAIN st
  <2> DEFINE a == SubSeq(st, 1, place - 1)
             b == SubSeq(st, place + 1, Len(st))
             c == a \o b
  <2>0. /\ Without(st, place) = c /\ DOMAIN st = 1..Len(st) /\ Len(st) \in Nat
        /\ place \in 1..Len(st) /\ \A i \in 1..Len(st) : st[i] \in S
    <3>1. Without(st, place) = c
      BY <1>2 DEF Without, RemoveAt
    <3>2. DOMAIN st = 1..Len(st) /\ Len(st) \in Nat /\ \A i \in 1..Len(st) : st[i] \in S
      OBVIOUS
    <3> HIDE DEF c
    <3> QED BY <1>2, <3>1, <3>2
  <2>1. /\ a \in Seq(S) /\ Len(a) = place - 1
        /\ \A i \in 1..(place - 1) : a[i] = st[i]
    <3>1. place - 1 \in Int /\ \A i \in 1..(place - 1) : st[i] \in S
      BY <2>0
    <3>2. /\ a \in Seq(S) /\ Len(a) = IF 1 <= place - 1 THEN (place - 1) - 1 + 1 ELSE 0
          /\ \A i \in 1..((place - 1) - 1 + 1) : a[i] = st[1 + i - 1]
      BY <3>1, SubSeqProperties
    <3> HIDE DEF a
    <3> QED BY <2>0, <3>2
  <2>2. /\ b \in Seq(S) /\ Len(b) = Len(st) - place
        /\ \A i \in 1..(Len(st) - place) : b[i] = st[place + i]
    <3>1. place + 1 \in Int /\ Len(st) \in Int /\ \A i \in (place + 1)..Len(st) : st[i] \in S
      BY <2>0
    <3>2. /\ b \in Seq(S)
          /\ Len(b) = IF place + 1 <= Len(st) THEN Len(st) - (place + 1) + 1 ELSE 0
          /\ \A i \in 1..(Len(st) - (place + 1) + 1) : b[i] = st[(place + 1) + i - 1]
      BY <3>1, SubSeqProperties
    <3> HIDE DEF b
    <3>3. Len(b) = Len(st) - place
      <4>1. CASE place + 1 <= Len(st)
        BY <2>0, <3>2, <4>1
      <4>2. CASE place = Len(st)
        BY <2>0, <3>2, <4>2
      <4>3. place + 1 <= Len(st) \/ place = Len(st)
        <5>1. place \in Nat /\ Len(st) \in Nat /\ place <= Len(st)
          BY <2>0
        <5> QED BY <5>1, NextOrSame
      <4> QED BY <4>1, <4>2, <4>3
    <3>4. ASSUME NEW i \in 1..(Len(st) - place) PROVE b[i] = st[place + i]
      <4>1. i \in 1..(Len(st) - (place + 1) + 1) /\ (place + 1) + i - 1 = place + i
        BY <2>0
      <4> QED BY <3>2, <4>1
    <3> QED BY <3>2, <3>3, <3>4
  <2> HIDE DEF a, b
  <2>3. /\ c \in Seq(S) /\ Len(c) = Len(a) + Len(b)
        /\ \A i \in 1..(Len(a) + Len(b)) : c[i] = IF i <= Len(a) THEN a[i] ELSE b[i - Len(a)]
    BY <2>1, <2>2, ConcatProperties
  <2> HIDE DEF c
  <2>4. /\ Len(c) = Len(st) - 1 /\ DOMAIN c = 1..(Len(st) - 1)
        /\ \A i \in 1..(Len(st) - 1) : c[i] = IF i < place THEN st[i] ELSE st[i + 1]
    <3>1. Len(c) = Len(st) - 1 /\ DOMAIN c = 1..(Len(st) - 1)
      BY <2>0, <2>1, <2>2, <2>3
    <3>2. ASSUME NEW i \in 1..(Len(st) - 1)
          PROVE  c[i] = IF i < place THEN st[i] ELSE st[i + 1]
      <4>1. c[i] = IF i <= place - 1 THEN a[i] ELSE b[i - (place - 1)]
        BY <2>0, <2>1, <2>2, <2>3
      <4>2. CASE i < place
        BY <2>0, <2>1, <4>1, <4>2
      <4>3. CASE ~(i < place)
        <5>1. i - (place - 1) \in 1..(Len(st) - place) /\ place + (i - (place - 1)) = i + 1
          BY <2>0, <4>3
        <5>2. b[i - (place - 1)] = st[place + (i - (place - 1))]
          BY <2>2, <5>1
        <5> QED BY <2>0, <4>1, <4>3, <5>1, <5>2
      <4> QED BY <4>2, <4>3
    <3> QED BY <3>1, <3>2
  <2>5. Distinct(c)
    <3> SUFFICES ASSUME NEW i \in 1..(Len(st) - 1), NEW j \in 1..(Len(st) - 1), c[i] = c[j]
                 PROVE  i = j
      BY <2>4 DEF Distinct
    <3> DEFINE from(k) == IF k < place THEN k ELSE k + 1
    <3>1. from(i) \in 1..Len(st) /\ from(j) \in 1..Len(st)
      BY <2>0
    <3>2. st[from(i)] = st[from(j)]
      BY <2>4
    <3>3. from(i) = from(j)
      BY <2>0, <3>1, <3>2 DEF Distinct
    <3> QED BY <2>0, <3>3
  <2>6. ASSUME NEW s \in ToSet(c)
        PROVE  s \in ToSet(st) \ {st[place]}
    <3>1. PICK i \in 1..(Len(st) - 1) : s = c[i]
      BY <2>4 DEF ToSet
    <3>2. CASE i < place
      BY <2>0, <2>4, <3>1, <3>2 DEF Distinct, ToSet
    <3>3. CASE ~(i < place)
      BY <2>0, <2>4, <3>1, <3>3 DEF Distinct, ToSet
    <3> QED BY <3>2, <3>3
  <2>7. ASSUME NEW s \in ToSet(st), s # st[place]
        PROVE  s \in ToSet(c)
    <3>1. PICK i \in 1..Len(st) : s = st[i]
      BY <2>0 DEF ToSet
    <3>2. CASE i < place
      <4>1. i \in 1..(Len(st) - 1) /\ c[i] = s
        BY <2>0, <2>4, <3>1, <3>2
      <4> QED BY <2>4, <4>1 DEF ToSet
    <3>3. CASE ~(i < place)
      <4>1. i - 1 \in 1..(Len(st) - 1) /\ c[i - 1] = s
        BY <2>0, <2>4, <2>7, <3>1, <3>3
      <4> QED BY <2>4, <4>1 DEF ToSet
    <3> QED BY <3>2, <3>3
  <2> QED BY <1>2, <2>0, <2>3, <2>4, <2>5, <2>6, <2>7
<1> QED BY <1>1, <1>2

LEMMA AppendedElement ==
  ASSUME NEW S, NEW st \in Seq(S), Distinct(st), NEW s \in S, s \notin ToSet(st)
  PROVE  /\ Append(st, s) \in Seq(S) /\ Distinct(Append(st, s))
         /\ ToSet(Append(st, s)) = ToSet(st) \cup {s} /\ Len(Append(st, s)) = Len(st) + 1
<1> DEFINE c == Append(st, s)
<1>1. /\ c \in Seq(S) /\ Len(c) = Len(st) + 1 /\ DOMAIN c = 1..(Len(st) + 1)
      /\ DOMAIN st = 1..Len(st) /\ Len(st) \in Nat
      /\ (\A i \in 1..Len(st) : c[i] = st[i]) /\ c[Len(st) + 1] = s
  BY AppendProperties
<1> HIDE DEF c
<1>2. \A i \in 1..Len(st) : st[i] # s
  BY <1>1 DEF ToSet
<1>3. Distinct(c)
  BY <1>1, <1>2 DEF Distinct
<1>4. ToSet(c) \subseteq ToSet(st) \cup {s}
  <2> SUFFICES ASSUME NEW i \in 1..(Len(st) + 1) PROVE c[i] \in ToSet(st) \cup {s}
    BY <1>1 DEF ToSet
  <2>1. CASE i = Len(st) + 1
    BY <1>1, <2>1
  <2>2. CASE i # Len(st) + 1
    BY <1>1, <2>2 DEF ToSet
  <2> QED BY <2>1, <2>2
<1>5. ToSet(st) \cup {s} \subseteq ToSet(c)
  BY <1>1 DEF ToSet
<1> QED BY <1>1, <1>3, <1>4, <1>5 DEF c

\* Those of the store that are left when the longest untouched are reaped.
LEMMA YoungOnes ==
  ASSUME store \in Seq(Ids), Distinct(store), NEW n \in Ages
  PROVE  /\ Young(n) \in Seq(Ids) /\ Distinct(Young(n)) /\ Len(Young(n)) <= Len(store)
         /\ ToSet(Young(n)) \subseteq Stored
<1>1. /\ n \in Nat /\ n <= Len(store) /\ Len(store) \in Nat /\ DOMAIN store = 1..Len(store)
      /\ \A i \in 1..Len(store) : store[i] \in Ids
  BY DEF Ages
<1>2. n + 1 \in Int /\ Len(store) \in Int /\ \A i \in (n + 1)..Len(store) : store[i] \in Ids
  BY <1>1
<1> DEFINE y == Young(n)
<1>3. /\ y \in Seq(Ids)
      /\ Len(y) = IF n + 1 <= Len(store) THEN Len(store) - (n + 1) + 1 ELSE 0
      /\ \A i \in 1..(Len(store) - (n + 1) + 1) : y[i] = store[(n + 1) + i - 1]
  BY <1>2, SubSeqProperties DEF Young
<1> HIDE DEF y
<1>4. /\ Len(y) = Len(store) - n /\ DOMAIN y = 1..(Len(store) - n)
      /\ \A i \in 1..(Len(store) - n) : y[i] = store[n + i]
  <2>1. Len(y) = Len(store) - n
    <3>1. CASE n + 1 <= Len(store)
      BY <1>1, <1>3, <3>1
    <3>2. CASE n = Len(store)
      BY <1>1, <1>3, <3>2
    <3>3. n + 1 <= Len(store) \/ n = Len(store)
      BY <1>1, NextOrSame
    <3> QED BY <3>1, <3>2, <3>3
  <2>2. ASSUME NEW i \in 1..(Len(store) - n) PROVE y[i] = store[n + i]
    <3>1. i \in 1..(Len(store) - (n + 1) + 1) /\ (n + 1) + i - 1 = n + i
      BY <1>1
    <3> QED BY <1>3, <3>1
  <2> QED BY <1>3, <2>1, <2>2
<1>5. Distinct(y)
  BY <1>1, <1>4 DEF Distinct
<1>6. ToSet(y) \subseteq Stored
  <2> SUFFICES ASSUME NEW i \in 1..(Len(store) - n) PROVE y[i] \in Stored
    BY <1>4 DEF ToSet
  <2>1. n + i \in 1..Len(store) /\ y[i] = store[n + i]
    BY <1>1, <1>4
  <2> QED BY <1>1, <2>1 DEF Stored, ToSet
<1>7. Len(y) <= Len(store)
  BY <1>1, <1>4
<1> QED BY <1>3, <1>5, <1>6, <1>7 DEF y

\* Whom the place of a session names.
LEMMA PlaceOfKept ==
  ASSUME NEW s, Kept(s)
  PROVE  PlaceOf(s) \in DOMAIN store /\ store[PlaceOf(s)] = s
BY DEF Kept, Stored, ToSet, PlaceOf

\* A session that goes takes nobody with it.
LEMMA WithoutKept ==
  ASSUME store \in Seq(Ids), Distinct(store), NEW s, Kept(s)
  PROVE  LET rest == Without(store, PlaceOf(s))
         IN  /\ rest \in Seq(Ids) /\ Distinct(rest) /\ ToSet(rest) = Stored \ {s}
             /\ Len(rest) = Len(store) - 1
BY PlaceOfKept, WithoutPlace DEF Stored

\* A session that is touched changes its place only.
LEMMA TouchedStays ==
  ASSUME store \in Seq(Ids), Distinct(store), NEW s \in Ids
  PROVE  /\ Touched(s) \in Seq(Ids) /\ Distinct(Touched(s))
         /\ ToSet(Touched(s)) = Stored /\ Len(Touched(s)) = Len(store)
<1>1. CASE ~Kept(s)
  BY <1>1 DEF Touched, Stored
<1>2. CASE Kept(s)
  <2> DEFINE rest == Without(store, PlaceOf(s))
  <2>1. /\ rest \in Seq(Ids) /\ Distinct(rest) /\ ToSet(rest) = Stored \ {s}
        /\ Len(rest) = Len(store) - 1
    BY <1>2, WithoutKept
  <2>2. Touched(s) = Append(rest, s) /\ s \in Stored
    BY <1>2 DEF Touched, Kept
  <2> HIDE DEF rest
  <2>3. /\ Append(rest, s) \in Seq(Ids) /\ Distinct(Append(rest, s))
        /\ ToSet(Append(rest, s)) = ToSet(rest) \cup {s} /\ Len(Append(rest, s)) = Len(rest) + 1
    <3>1. s \notin ToSet(rest)
      BY <2>1
    <3> QED BY <2>1, <3>1, AppendedElement
  <2>4. Len(store) \in Nat
    OBVIOUS
  <2> QED BY <2>1, <2>2, <2>3, <2>4
<1> QED BY <1>1, <1>2

-----------------------------------------------------------------------------
(* The sessions: every variable keeps its type.                             *)

USE KconfigAssumption

InCall == {"inhand", "written", "backed"}
Opening == {x \in Tabs : pc[x] = "opening"}

\* The number of a session that is parsed is given out, but the session is not there yet.
Used(s) == s < number /\ (StoreFree \/ s < number - 1)

FilesOK ==
  /\ config \in [Targets -> File] /\ bak \in [Targets -> File] /\ tmp \in [Targets -> File]
  /\ wrote \in [Targets -> File]
  /\ buildLock \in Tabs \cup {Nobody, Other}

NumbersOK ==
  /\ number \in 1..(MaxOpens + 1) /\ opens \in 0..MaxOpens
  /\ IsFiniteSet(Opening) /\ number - 1 + Cardinality(Opening) <= opens
  /\ ~StoreFree => number > 1
  /\ \A x, y \in Tabs : pc[x] = "parsing" /\ pc[y] = "parsing" => x = y

StoreOK ==
  /\ sess \in [Ids -> Session \cup {NoSession}] /\ given \subseteq Ids
  /\ store \in Seq(Ids) /\ Distinct(store)
  /\ Len(store) <= MAX /\ (~StoreFree => Len(store) < MAX)
  /\ \A s \in Stored : sess[s] \in Session /\ Used(s)

\* A call has its session in hand, in the store or not, and a save has the build lock.
CallsOK ==
  /\ pc \in [Tabs -> {"idle", "opening", "parsing", "inhand", "written", "backed"}]
  /\ call \in [Tabs -> Call] /\ tab \in [Tabs -> Ids \cup {0}]
  /\ \A x \in Tabs :
       /\ pc[x] \in {"opening", "parsing"} => call[x].op = "open" /\ call[x].target \in Targets
       /\ pc[x] \in InCall => tab[x] \in Ids /\ sess[tab[x]] \in Session /\ Used(tab[x])
       /\ Saving(x) <=> buildLock = x

SessionsInv == FilesOK /\ NumbersOK /\ StoreOK /\ CallsOK /\ scenario \in Scenarios

LEMMA ScenarioTyped ==
  ASSUME scenario \in Scenarios
  PROVE  scenario.opens \in 0..MaxOpens /\ scenario.targets \subseteq Targets
OBVIOUS

LEMMA ParseTyped ==
  ASSUME NEW t \in Targets, config \in [Targets -> File]
  PROVE  Parse(t) \in Session /\ Parse(t).target = t /\ Parse(t).base = config[t]
         /\ Parse(t).dirty = FALSE
BY DEF Parse, Session, File

LEMMA SessionsInitInv == KconfigInit => SessionsInv
<1> SUFFICES ASSUME KconfigInit PROVE SessionsInv
  OBVIOUS
<1> USE DEF KconfigInit
<1>1. PICK a \in File : config = [t \in Targets |-> IF t \in scenario.targets THEN a ELSE NoFile]
  OBVIOUS
<1>2. FilesOK
  BY <1>1 DEF FilesOK, File
<1>3. Opening = {} /\ StoreFree /\ Stored = {} /\ \A x \in Tabs : ~Saving(x)
  BY DEF Opening, StoreFree, Stored, ToSet, Saving
<1>4. NumbersOK
  BY <1>3, FS_EmptySet DEF NumbersOK
<1>5. StoreOK
  BY <1>3 DEF StoreOK, Distinct
<1>6. CallsOK
  BY <1>3 DEF CallsOK, NoCall, Call, InCall
<1> QED BY <1>2, <1>4, <1>5, <1>6 DEF SessionsInv

\* Calls that are about no opening leave the numbers alone.
LEMMA NumbersRest ==
  ASSUME SessionsInv, NEW x \in Tabs, NEW there \in {"idle"} \cup InCall,
         pc[x] \in {"idle"} \cup InCall, pc' = [pc EXCEPT ![x] = there],
         UNCHANGED <<number, opens>>
  PROVE  NumbersOK' /\ StoreFree' = StoreFree /\ \A s : Used(s)' = Used(s)
<1>1. \A y \in Tabs : pc'[y] = IF y = x THEN there ELSE pc[y]
  BY DEF SessionsInv, CallsOK
<1>2. Opening' = Opening
  BY <1>1 DEF Opening, InCall
<1>3. StoreFree' = StoreFree
  BY <1>1 DEF StoreFree, InCall
<1>4. NumbersOK'
  BY <1>1, <1>2, <1>3 DEF SessionsInv, NumbersOK, InCall
<1> QED BY <1>3, <1>4 DEF Used

LEMMA StoredAreIds == ASSUME StoreOK PROVE Stored \subseteq Ids
BY DEF StoreOK, Stored, ToSet

\* A session that is in somebody's hand changes, or none.
LEMMA SessionUpdated ==
  ASSUME StoreOK, NEW s \in Ids, NEW v \in Session, sess' = [sess EXCEPT ![s] = v]
  PROVE  /\ sess' \in [Ids -> Session \cup {NoSession}] /\ sess'[s] = v
         /\ \A r \in Ids :
               (r # s => sess'[r] = sess[r]) /\ (sess[r] \in Session => sess'[r] \in Session)
BY DEF StoreOK

\* What is left to show of a step of a call that touches its session or does not.
LEMMA CallStepInv ==
  ASSUME SessionsInv, NEW x \in Tabs, NEW there \in {"idle"} \cup InCall,
         pc[x] \in {"idle"} \cup InCall, pc' = [pc EXCEPT ![x] = there],
         UNCHANGED <<number, opens, scenario>>, FilesOK',
         call' \in [Tabs -> Call], \A y \in Tabs \ {x} : call'[y] = call[y],
         tab' \in [Tabs -> Ids \cup {0}], \A y \in Tabs \ {x} : tab'[y] = tab[y],
         given' \subseteq Ids, sess' \in [Ids -> Session \cup {NoSession}],
         \A r \in Ids : sess[r] \in Session => sess'[r] \in Session,
         store' \in Seq(Ids), Distinct(store'), ToSet(store') \subseteq Stored,
         Len(store') <= Len(store),
         there \in InCall => tab'[x] \in Ids /\ sess[tab'[x]] \in Session /\ Used(tab'[x]),
         buildLock' = IF there \in {"written", "backed"} THEN x
                      ELSE IF pc[x] \in {"written", "backed"} THEN Nobody ELSE buildLock,
         there \in {"written", "backed"} => buildLock \in {Nobody, x}
  PROVE  SessionsInv'
<1>1. NumbersOK' /\ StoreFree' = StoreFree /\ \A s : Used(s)' = Used(s)
  BY NumbersRest
<1>2. \A y \in Tabs : pc'[y] = IF y = x THEN there ELSE pc[y]
  BY DEF SessionsInv, CallsOK
<1>3. pc' \in [Tabs -> {"idle", "opening", "parsing", "inhand", "written", "backed"}]
  BY DEF SessionsInv, CallsOK, InCall
<1>4. StoreOK'
  <2>1. Stored' \subseteq Stored /\ Len(store) \in Nat /\ Len(store') \in Nat
    BY DEF Stored, SessionsInv, StoreOK
  <2>2. Len(store') <= MAX /\ (~StoreFree => Len(store') < MAX)
    BY <2>1 DEF SessionsInv, StoreOK
  <2>3. \A s \in Stored' : s \in Ids
    BY DEF Stored, ToSet
  <2> QED BY <1>1, <2>1, <2>2, <2>3 DEF SessionsInv, StoreOK
<1>5. \A y \in Tabs : Saving(y)' <=> buildLock' = y
  BY <1>2 DEF SessionsInv, CallsOK, Saving, InCall
<1>6. CallsOK'
  BY <1>1, <1>2, <1>3, <1>5 DEF SessionsInv, CallsOK, InCall
<1> QED BY <1>1, <1>4, <1>6 DEF SessionsInv

LEMMA AskOpenInv ==
  ASSUME SessionsInv, NEW x \in Tabs, NEW t \in Targets, AskOpen(x, t)
  PROVE  SessionsInv'
<1>0. /\ pc[x] = "idle" /\ StoreFree /\ pc' = [pc EXCEPT ![x] = "opening"]
      /\ call' = [call EXCEPT ![x] = [op |-> "open", target |-> t]]
      /\ opens' = opens + 1 /\ opens < scenario.opens
      /\ UNCHANGED <<disk, buildLock, sess, store, number, tab, given, scenario>>
  BY DEF AskOpen
<1>1. \A y \in Tabs : pc'[y] = IF y = x THEN "opening" ELSE pc[y]
  BY <1>0 DEF SessionsInv, CallsOK
<1>2. StoreFree' /\ \A s : Used(s)' = Used(s)
  BY <1>0, <1>1 DEF StoreFree, Used
<1>3. Opening' = Opening \cup {x} /\ x \notin Opening
  BY <1>0, <1>1 DEF Opening
<1>4. NumbersOK'
  <2>1. IsFiniteSet(Opening') /\ Cardinality(Opening') = Cardinality(Opening) + 1
        /\ Cardinality(Opening) \in Nat
    BY <1>3, FS_AddElement, FS_CardinalityType DEF SessionsInv, NumbersOK
  <2>2. opens' \in 0..MaxOpens /\ opens \in Nat /\ number \in Nat
    BY <1>0, ScenarioTyped DEF SessionsInv, NumbersOK
  <2>3. number' - 1 + Cardinality(Opening') <= opens'
    BY <1>0, <2>1, <2>2 DEF SessionsInv, NumbersOK
  <2> QED BY <1>0, <1>1, <1>2, <2>1, <2>2, <2>3 DEF SessionsInv, NumbersOK
<1>5. StoreOK'
  BY <1>0, <1>2 DEF SessionsInv, StoreOK, Stored
<1>6. CallsOK'
  <2>1. [op |-> "open", target |-> t] \in Call
    BY DEF Call
  <2>2. call' \in [Tabs -> Call] /\ pc' \in [Tabs -> {"idle", "opening", "parsing", "inhand",
          "written", "backed"}]
    BY <1>0, <2>1 DEF SessionsInv, CallsOK
  <2>3. \A y \in Tabs : call'[y] = IF y = x THEN [op |-> "open", target |-> t] ELSE call[y]
    BY <1>0 DEF SessionsInv, CallsOK
  <2>4. \A y \in Tabs : Saving(y)' = Saving(y)
    BY <1>0, <1>1 DEF Saving
  <2> QED BY <1>0, <1>1, <1>2, <2>2, <2>3, <2>4 DEF SessionsInv, CallsOK, InCall
<1> QED BY <1>0, <1>4, <1>5, <1>6 DEF SessionsInv, FilesOK, disk

\* The one that goes was the first out, and the store is below its limit after that.
LEMMA Evicted ==
  ASSUME StoreOK, NEW n \in Ages, NEW place \in Evicts(Young(n))
  PROVE  LET kept == Without(Young(n), place)
         IN  /\ kept \in Seq(Ids) /\ Distinct(kept) /\ Len(kept) < MAX
             /\ ToSet(kept) \subseteq ToSet(Young(n)) /\ ToSet(Young(n)) \subseteq Stored
             /\ \A s \in ToSet(Young(n)) \ ToSet(kept) :
                  sess[s].dirty => \A r \in ToSet(Young(n)) : sess[r].dirty
<1> DEFINE y == Young(n)
           kept == Without(y, place)
<1>1. y \in Seq(Ids) /\ Distinct(y) /\ Len(y) <= Len(store) /\ ToSet(y) \subseteq Stored
  BY YoungOnes DEF StoreOK
<1>2. place \in Evicts(y)
  OBVIOUS
<1>3. Len(y) \in Nat /\ DOMAIN y = 1..Len(y) /\ Len(store) \in Nat /\ MAX \in Nat \ {0}
  BY <1>1 DEF StoreOK
<1> HIDE DEF y
<1>4. CASE Len(y) < MAX
  <2>1. place = 0 /\ place \notin DOMAIN y
    BY <1>2, <1>3, <1>4 DEF Evicts
  <2>2. kept = y
    BY <1>1, <2>1, WithoutPlace
  <2> HIDE DEF kept
  <2> QED BY <1>1, <1>4, <2>2 DEF y, kept
<1>5. CASE ~(Len(y) < MAX)
  <2>1. place \in FirstOut(y)
    BY <1>2, <1>5 DEF Evicts
  <2>2. place \in DOMAIN y
    BY <2>1 DEF FirstOut
  <2>3. /\ kept \in Seq(Ids) /\ Distinct(kept) /\ ToSet(kept) = ToSet(y) \ {y[place]}
        /\ Len(kept) = Len(y) - 1
    BY <1>1, <2>2, WithoutPlace
  <2>4. Len(kept) < MAX
    BY <1>1, <1>3, <2>3 DEF StoreOK
  <2>5. ASSUME sess[y[place]].dirty, NEW r \in ToSet(y)
        PROVE  sess[r].dirty
    <3>1. PICK j \in DOMAIN y : r = y[j]
      BY DEF ToSet
    <3> QED BY <2>1, <2>5, <3>1 DEF FirstOut
  <2> HIDE DEF kept
  <2> QED BY <1>1, <2>3, <2>4, <2>5 DEF y, kept
<1> QED BY <1>4, <1>5

LEMMA OpenInv ==
  ASSUME SessionsInv, NEW x \in Tabs, Open(x)
  PROVE  SessionsInv'
<1>0. /\ pc[x] = "opening" /\ StoreFree /\ pc' = [pc EXCEPT ![x] = "parsing"]
      /\ number' = number + 1
      /\ UNCHANGED <<disk, buildLock, sess, call, tab, opens, scenario>>
  BY DEF Open
<1>1. PICK n \in Ages, place \in 0..MAX :
        /\ place \in Evicts(Young(n))
        /\ store' = Without(Young(n), place)
        /\ given' = given \cup GivenUp(Young(n), Without(Young(n), place))
  BY DEF Open
<1>2. /\ store' \in Seq(Ids) /\ Distinct(store') /\ Len(store') < MAX
      /\ ToSet(store') \subseteq Stored
  BY <1>1, Evicted DEF SessionsInv
<1>3. \A y \in Tabs : pc'[y] = IF y = x THEN "parsing" ELSE pc[y]
  BY <1>0 DEF SessionsInv, CallsOK
<1>4. ~StoreFree' /\ \A s \in Ids : Used(s) => Used(s)'
  <2>1. ~StoreFree'
    BY <1>3 DEF StoreFree
  <2>2. number \in Nat
    BY DEF SessionsInv, NumbersOK
  <2> QED BY <1>0, <2>1, <2>2 DEF Used, Ids
<1>5. NumbersOK'
  <2>1. Opening' = Opening \ {x} /\ x \in Opening
    BY <1>0, <1>3 DEF Opening
  <2>2. IsFiniteSet(Opening') /\ Cardinality(Opening') = Cardinality(Opening) - 1
        /\ Cardinality(Opening) \in Nat /\ Cardinality(Opening') \in Nat
    BY <2>1, FS_RemoveElement, FS_CardinalityType DEF SessionsInv, NumbersOK
  <2>3. number \in Nat \ {0} /\ opens \in 0..MaxOpens /\ MaxOpens \in Nat
        /\ number - 1 + Cardinality(Opening) <= opens
    BY DEF SessionsInv, NumbersOK
  <2>4. number' \in 1..(MaxOpens + 1) /\ number' > 1
        /\ number' - 1 + Cardinality(Opening') <= opens
    BY <1>0, <2>2, <2>3
  <2>5. \A y, z \in Tabs : pc'[y] = "parsing" /\ pc'[z] = "parsing" => y = z
    BY <1>0, <1>3 DEF StoreFree
  <2> QED BY <1>0, <2>2, <2>3, <2>4, <2>5 DEF NumbersOK
<1>6. StoreOK'
  <2>1. given' \subseteq Ids
    BY <1>1 DEF GivenUp, Stored, ToSet, SessionsInv, StoreOK
  <2>2. \A s \in Stored' : s \in Ids /\ sess[s] \in Session /\ Used(s)'
    <3>1. Stored' \subseteq Stored
      BY <1>2 DEF Stored
    <3> QED BY <1>4, <3>1, StoredAreIds DEF SessionsInv, StoreOK
  <2>3. Len(store') <= MAX
    BY <1>2
  <2> QED BY <1>0, <1>2, <2>1, <2>2, <2>3 DEF SessionsInv, StoreOK
<1>7. CallsOK'
  <2>1. pc' \in [Tabs -> {"idle", "opening", "parsing", "inhand", "written", "backed"}]
    BY <1>0 DEF SessionsInv, CallsOK
  <2>2. \A y \in Tabs : Saving(y)' = Saving(y)
    BY <1>0, <1>3 DEF Saving
  <2> QED BY <1>0, <1>3, <1>4, <2>1, <2>2 DEF SessionsInv, CallsOK, InCall
<1> QED BY <1>0, <1>5, <1>6, <1>7 DEF SessionsInv, FilesOK, disk

LEMMA OpenedInv ==
  ASSUME SessionsInv, NEW x \in Tabs, Opened(x) \/ OpenFails(x)
  PROVE  SessionsInv'
<1> DEFINE s == number - 1
<1>0. /\ pc[x] = "parsing" /\ pc' = [pc EXCEPT ![x] = "idle"]
      /\ call' = [call EXCEPT ![x] = NoCall]
      /\ UNCHANGED <<disk, buildLock, number, opens, given, scenario>>
  BY DEF Opened, OpenFails
<1>1. \A y \in Tabs : pc'[y] = IF y = x THEN "idle" ELSE pc[y]
  BY <1>0 DEF SessionsInv, CallsOK
<1>2. ~StoreFree /\ StoreFree'
  BY <1>0, <1>1 DEF StoreFree, SessionsInv, NumbersOK
<1>3. number \in Nat /\ s \in Ids /\ ~Used(s) /\ \A r : Used(r) \/ r = s => Used(r)'
  <2>1. number \in 1..(MaxOpens + 1) /\ number > 1 /\ MaxOpens \in Nat
    BY <1>2 DEF SessionsInv, NumbersOK
  <2> QED BY <1>0, <1>2, <2>1 DEF Used, Ids
<1>4. NumbersOK'
  <2>1. Opening' = Opening
    BY <1>0, <1>1 DEF Opening
  <2> QED BY <1>0, <1>1, <1>2, <2>1 DEF SessionsInv, NumbersOK
<1>5. /\ sess' \in [Ids -> Session \cup {NoSession}]
      /\ \A r \in Ids : sess[r] \in Session => sess'[r] \in Session
      /\ tab' \in [Tabs -> Ids \cup {0}] /\ \A y \in Tabs \ {x} : tab'[y] = tab[y]
  <2>1. CASE Opened(x)
    <3>1. sess' = [sess EXCEPT ![s] = Parse(call[x].target)] /\ tab' = [tab EXCEPT ![x] = s]
      BY <2>1 DEF Opened
    <3>2. Parse(call[x].target) \in Session
      BY <1>0, ParseTyped DEF SessionsInv, CallsOK, FilesOK
    <3> HIDE DEF s
    <3>3. /\ sess' \in [Ids -> Session \cup {NoSession}]
          /\ \A r \in Ids : sess[r] \in Session => sess'[r] \in Session
      BY <1>3, <3>1, <3>2, SessionUpdated DEF SessionsInv
    <3>4. tab' \in [Tabs -> Ids \cup {0}] /\ \A y \in Tabs \ {x} : tab'[y] = tab[y]
      BY <1>3, <3>1 DEF SessionsInv, CallsOK
    <3> QED BY <3>3, <3>4
  <2>2. CASE OpenFails(x)
    BY <2>2 DEF OpenFails, SessionsInv, StoreOK, CallsOK
  <2> QED BY <2>1, <2>2
<1>6. StoreOK'
  <2>1. CASE Opened(x)
    <3>1. s \notin Stored
      BY <1>3 DEF SessionsInv, StoreOK
    <3>2. store' = Append(store, s) /\ sess' = [sess EXCEPT ![s] = Parse(call[x].target)]
      BY <2>1 DEF Opened
    <3>3. Parse(call[x].target) \in Session
      BY <1>0, ParseTyped DEF SessionsInv, CallsOK, FilesOK
    <3> HIDE DEF s
    <3>4. /\ store' \in Seq(Ids) /\ Distinct(store') /\ ToSet(store') = ToSet(store) \cup {s}
          /\ Len(store') = Len(store) + 1
      BY <1>3, <3>1, <3>2, AppendedElement DEF SessionsInv, StoreOK, Stored
    <3>5. Len(store') <= MAX
      <4>1. Len(store) < MAX /\ Len(store) \in Nat
        BY <1>2 DEF SessionsInv, StoreOK
      <4> QED BY <3>4, <4>1
    <3>6. sess'[s] \in Session
      BY <1>3, <3>2, <3>3, SessionUpdated DEF SessionsInv
    <3>7. \A r \in Stored' : sess'[r] \in Session /\ Used(r)'
      <4>1. Stored' = Stored \cup {s} /\ Stored \subseteq Ids
        BY <3>4, StoredAreIds DEF SessionsInv, Stored
      <4>2. \A r \in Stored : sess[r] \in Session /\ Used(r)
        BY DEF SessionsInv, StoreOK
      <4>3. \A r \in Stored : sess'[r] \in Session
        BY <1>5, <4>1, <4>2
      <4> QED BY <1>3, <3>6, <4>1, <4>2, <4>3
    <3> QED BY <1>0, <1>2, <1>5, <3>4, <3>5, <3>7 DEF SessionsInv, StoreOK
  <2>2. CASE OpenFails(x)
    BY <1>0, <1>2, <1>3, <2>2 DEF OpenFails, SessionsInv, StoreOK, Stored
  <2> QED BY <2>1, <2>2
<1>7. CallsOK'
  <2>1. /\ call' \in [Tabs -> Call]
        /\ pc' \in [Tabs -> {"idle", "opening", "parsing", "inhand", "written", "backed"}]
        /\ \A y \in Tabs \ {x} : call'[y] = call[y]
    BY <1>0 DEF SessionsInv, CallsOK, NoCall, Call
  <2>2. \A y \in Tabs : Saving(y)' = Saving(y)
    BY <1>0, <1>1 DEF Saving
  <2> HIDE DEF s
  <2> QED BY <1>0, <1>1, <1>3, <1>5, <2>1, <2>2 DEF SessionsInv, CallsOK, InCall
<1> QED BY <1>0, <1>4, <1>6, <1>7 DEF SessionsInv, FilesOK, disk

LEMMA GetInv ==
  ASSUME SessionsInv, NEW x \in Tabs, NEW c \in Call, Get(x, c)
  PROVE  SessionsInv'
<1>0. /\ pc[x] = "idle" /\ StoreFree
      /\ UNCHANGED <<disk, buildLock, sess, number, opens, scenario>>
  BY DEF Get
<1>1. PICK n \in Ages :
        /\ store' = Young(n)
        /\ given' = given \cup {s \in Stored \ ToSet(Young(n)) : sess[s].dirty}
        /\ IF tab[x] \in ToSet(Young(n))
             THEN /\ pc' = [pc EXCEPT ![x] = "inhand"] /\ call' = [call EXCEPT ![x] = c]
                  /\ UNCHANGED tab
             ELSE tab' = [tab EXCEPT ![x] = 0] /\ UNCHANGED <<pc, call>>
  BY DEF Get
<1>2. /\ store' \in Seq(Ids) /\ Distinct(store') /\ Len(store') <= Len(store)
      /\ ToSet(store') \subseteq Stored
  BY <1>1, YoungOnes DEF SessionsInv, StoreOK
<1>3. FilesOK' /\ given' \subseteq Ids
  BY <1>0, <1>1, StoredAreIds DEF SessionsInv, FilesOK, StoreOK, disk
<1>4. sess' \in [Ids -> Session \cup {NoSession}] /\ buildLock' = buildLock
  BY <1>0 DEF SessionsInv, StoreOK
<1>5. CASE tab[x] \in ToSet(Young(n))
  <2>1. /\ pc' = [pc EXCEPT ![x] = "inhand"] /\ call' = [call EXCEPT ![x] = c] /\ tab' = tab
        /\ tab[x] \in Stored
    BY <1>1, <1>2, <1>5
  <2>2. tab[x] \in Ids /\ sess[tab[x]] \in Session /\ Used(tab[x])
    BY <2>1, StoredAreIds DEF SessionsInv, StoreOK
  <2>3. call' \in [Tabs -> Call] /\ \A y \in Tabs \ {x} : call'[y] = call[y]
    BY <2>1 DEF SessionsInv, CallsOK
  <2>4. /\ tab' \in [Tabs -> Ids \cup {0}] /\ tab'[x] = tab[x]
        /\ \A y \in Tabs \ {x} : tab'[y] = tab[y]
    BY <2>1 DEF SessionsInv, CallsOK
  <2>5. sess' = sess /\ UNCHANGED <<number, opens, scenario>>
    BY <1>0
  <2> QED BY <1>0, <1>2, <1>3, <1>4, <2>1, <2>2, <2>3, <2>4, <2>5, CallStepInv DEF InCall
<1>6. CASE tab[x] \notin ToSet(Young(n))
  <2>1. tab' = [tab EXCEPT ![x] = 0] /\ UNCHANGED <<pc, call>>
    BY <1>1, <1>6
  <2>2. pc' = [pc EXCEPT ![x] = "idle"]
    BY <1>0, <2>1 DEF SessionsInv, CallsOK
  <2>3. tab' \in [Tabs -> Ids \cup {0}] /\ \A y \in Tabs \ {x} : tab'[y] = tab[y]
    BY <2>1 DEF SessionsInv, CallsOK
  <2>4. call' \in [Tabs -> Call] /\ \A y \in Tabs \ {x} : call'[y] = call[y]
    BY <2>1 DEF SessionsInv, CallsOK
  <2>5. sess' = sess /\ UNCHANGED <<number, opens, scenario>>
    BY <1>0
  <2> QED BY <1>0, <1>2, <1>3, <1>4, <2>2, <2>3, <2>4, <2>5, CallStepInv DEF InCall
<1> QED BY <1>5, <1>6

\* What a call has in hand.
LEMMA MineTyped ==
  ASSUME SessionsInv, NEW x \in Tabs, pc[x] \in InCall
  PROVE  /\ tab[x] \in Ids /\ Mine(x) \in Session /\ Mine(x).target \in Targets
         /\ Mine(x).answers \in Answers /\ Used(tab[x])
BY DEF SessionsInv, CallsOK, Mine, Session

\* A call that ends, with its session touched or not.
LEMMA CallEndsInv ==
  ASSUME SessionsInv, NEW x \in Tabs, pc[x] \in InCall, Ends(x), FilesOK',
         store' = store \/ store' = Touched(tab[x]),
         sess' = sess \/ \E v \in Session : sess' = [sess EXCEPT ![tab[x]] = v],
         buildLock' = IF pc[x] \in {"written", "backed"} THEN Nobody ELSE buildLock,
         UNCHANGED <<number, tab, opens, given, scenario>>
  PROVE  SessionsInv'
<1>1. tab[x] \in Ids
  BY MineTyped
<1>2. /\ store' \in Seq(Ids) /\ Distinct(store') /\ ToSet(store') \subseteq Stored
      /\ Len(store') <= Len(store)
  <2>1. CASE store' = store
    BY <2>1 DEF SessionsInv, StoreOK, Stored
  <2>2. CASE store' = Touched(tab[x])
    <3>1. Len(store') = Len(store) /\ Len(store) \in Nat
      BY <1>1, <2>2, TouchedStays DEF SessionsInv, StoreOK
    <3> QED BY <1>1, <2>2, <3>1, TouchedStays DEF SessionsInv, StoreOK
  <2> QED BY <2>1, <2>2
<1>3. /\ sess' \in [Ids -> Session \cup {NoSession}]
      /\ \A r \in Ids : sess[r] \in Session => sess'[r] \in Session
  <2>1. CASE sess' = sess
    BY <2>1 DEF SessionsInv, StoreOK
  <2>2. ASSUME NEW v \in Session, sess' = [sess EXCEPT ![tab[x]] = v]
        PROVE  <1>3!:
    BY <1>1, <2>2, SessionUpdated DEF SessionsInv
  <2> QED BY <2>1, <2>2
<1>4. call' \in [Tabs -> Call] /\ \A y \in Tabs \ {x} : call'[y] = call[y]
  BY DEF Ends, SessionsInv, CallsOK, NoCall, Call
<1>5. /\ pc' = [pc EXCEPT ![x] = "idle"] /\ tab' \in [Tabs -> Ids \cup {0}]
      /\ given' \subseteq Ids /\ \A y \in Tabs \ {x} : tab'[y] = tab[y]
  BY DEF Ends, SessionsInv, CallsOK, StoreOK
<1> QED BY <1>2, <1>3, <1>4, <1>5, CallStepInv DEF InCall

LEMMA CallInv ==
  ASSUME SessionsInv, NEW x \in Tabs,
         Look(x) \/ SetValue(x) \/ SetRefused(x) \/ Reset(x) \/ ResetFails(x)
  PROVE  SessionsInv'
<1>0. /\ pc[x] = "inhand" /\ pc[x] \in InCall /\ Ends(x)
      /\ UNCHANGED <<disk, buildLock, number, tab, opens, given, scenario>>
      /\ store' = store \/ store' = Touched(tab[x])
  BY DEF Look, SetValue, SetRefused, Reset, ResetFails, Calls, InCall
<1>1. tab[x] \in Ids /\ Mine(x) \in Session /\ Mine(x).target \in Targets /\ Mine(x) = sess[tab[x]]
  BY <1>0, MineTyped DEF Mine
<1>2. FilesOK'
  BY <1>0 DEF SessionsInv, FilesOK, disk
<1>3. sess' = sess \/ \E v \in Session : sess' = [sess EXCEPT ![tab[x]] = v]
  <2>1. CASE Look(x) \/ ResetFails(x)
    BY <2>1 DEF Look, ResetFails
  <2>4. CASE SetRefused(x)
    <3>1. PICK a \in Answers : sess' = [sess EXCEPT ![tab[x]].answers = a]
      BY <2>4 DEF SetRefused
    <3> DEFINE v == [Mine(x) EXCEPT !.answers = a]
    <3>2. v \in Session
      BY <1>1 DEF Session
    <3>3. sess' = [sess EXCEPT ![tab[x]] = v]
      BY <1>1, <3>1
    <3> QED BY <3>2, <3>3
  <2>2. CASE SetValue(x)
    <3> DEFINE v == [Mine(x) EXCEPT !.answers = call[x].answers, !.dirty = TRUE]
    <3>1. call[x].answers \in Answers
      BY <2>2 DEF SetValue, Calls, SessionsInv, CallsOK, Call
    <3>2. v \in Session
      BY <1>1, <3>1 DEF Session
    <3>3. sess' = [sess EXCEPT ![tab[x]] = v]
      BY <1>1, <2>2 DEF SetValue
    <3> QED BY <3>2, <3>3
  <2>3. CASE Reset(x)
    <3>1. Parse(Mine(x).target) \in Session
      BY <1>1, ParseTyped DEF SessionsInv, FilesOK
    <3>2. sess' = [sess EXCEPT ![tab[x]] = Parse(Mine(x).target)]
      BY <1>1, <2>3 DEF Reset
    <3> QED BY <3>1, <3>2
  <2> QED BY <2>1, <2>2, <2>3, <2>4
<1> QED BY <1>0, <1>2, <1>3, CallEndsInv

LEMMA CloseInv ==
  ASSUME SessionsInv, NEW x \in Tabs, Close(x)
  PROVE  SessionsInv'
<1>0. /\ StoreFree /\ pc[x] # "opening" /\ Kept(tab[x])
      /\ store' = Without(store, PlaceOf(tab[x]))
      /\ given' = IF Mine(x).dirty THEN given \cup {tab[x]} ELSE given
      /\ tab' = IF pc[x] = "idle" THEN [tab EXCEPT ![x] = 0] ELSE tab
      /\ UNCHANGED <<disk, buildLock, sess, number, pc, call, opens, scenario>>
  BY DEF Close
<1>1. pc[x] \in {"idle"} \cup InCall /\ pc' = [pc EXCEPT ![x] = pc[x]]
  BY <1>0 DEF StoreFree, SessionsInv, CallsOK, InCall
<1>2. /\ store' \in Seq(Ids) /\ Distinct(store') /\ ToSet(store') \subseteq Stored
      /\ Len(store') <= Len(store)
  <2>1. Len(store) \in Nat
    BY DEF SessionsInv, StoreOK
  <2> QED BY <1>0, <2>1, WithoutKept DEF SessionsInv, StoreOK
<1>3. tab[x] \in Ids
  BY <1>0, StoredAreIds DEF Kept, SessionsInv
<1>4. given' \subseteq Ids /\ FilesOK'
  BY <1>0, <1>3 DEF SessionsInv, StoreOK, FilesOK, disk
<1>5. /\ call' \in [Tabs -> Call] /\ \A y \in Tabs \ {x} : call'[y] = call[y]
      /\ sess' \in [Ids -> Session \cup {NoSession}] /\ sess' = sess
      /\ UNCHANGED <<number, opens, scenario>>
  BY <1>0 DEF SessionsInv, CallsOK, StoreOK
<1>6. /\ tab' \in [Tabs -> Ids \cup {0}] /\ \A y \in Tabs \ {x} : tab'[y] = tab[y]
      /\ pc[x] \in InCall => tab'[x] = tab[x]
  BY <1>0 DEF SessionsInv, CallsOK, InCall
<1>7. /\ pc[x] \in InCall => tab[x] \in Ids /\ sess[tab[x]] \in Session /\ Used(tab[x])
      /\ pc[x] \in {"written", "backed"} <=> buildLock = x
  BY DEF SessionsInv, CallsOK, Saving
<1>8. buildLock' = buildLock
  BY <1>0
<1> QED BY <1>1, <1>2, <1>4, <1>5, <1>6, <1>7, <1>8, CallStepInv

LEMMA SaveInv ==
  ASSUME SessionsInv, NEW x \in Tabs, SaveStep(x)
  PROVE  SessionsInv'
<1>0. /\ pc[x] \in InCall /\ UNCHANGED <<number, tab, opens, given, scenario>>
  BY DEF SaveStep, Write, SaveRefused, KeepOld, PutNew, PutNewFails, Calls, InCall
<1>1. /\ tab[x] \in Ids /\ Mine(x) \in Session /\ Mine(x) = sess[tab[x]] /\ Used(tab[x])
      /\ Mine(x).target \in Targets /\ Mine(x).answers \in Answers
  BY <1>0, MineTyped DEF Mine
<1>2. /\ FilesOK /\ (\A y \in Tabs : Saving(y) <=> buildLock = y)
      /\ pc \in [Tabs -> {"idle", "opening", "parsing", "inhand", "written", "backed"}]
  BY DEF SessionsInv, CallsOK
\* A step on the way through the save.
<1>3. ASSUME NEW there \in {"written", "backed"}, pc' = [pc EXCEPT ![x] = there], FilesOK',
             buildLock' = x, buildLock \in {Nobody, x}, UNCHANGED <<sess, store, call>>
      PROVE  SessionsInv'
  <2>1. /\ store' \in Seq(Ids) /\ Distinct(store') /\ ToSet(store') \subseteq Stored
        /\ Len(store') <= Len(store)
    BY <1>3 DEF SessionsInv, StoreOK, Stored
  <2>2. /\ call' \in [Tabs -> Call] /\ (\A y \in Tabs \ {x} : call'[y] = call[y])
        /\ tab' \in [Tabs -> Ids \cup {0}] /\ (\A y \in Tabs \ {x} : tab'[y] = tab[y])
        /\ given' \subseteq Ids /\ sess' \in [Ids -> Session \cup {NoSession}]
    BY <1>0, <1>3 DEF SessionsInv, CallsOK, StoreOK
  <2> QED BY <1>0, <1>1, <1>3, <2>1, <2>2, CallStepInv DEF InCall
<1>4. CASE Write(x)
  <2>1. FilesOK'
    BY <1>1, <1>2, <1>4 DEF Write, FilesOK, File
  <2> QED BY <1>3, <1>4, <2>1 DEF Write
<1>5. CASE SaveRefused(x)
  <2>1. FilesOK'
    BY <1>1, <1>2, <1>5 DEF SaveRefused, FilesOK, File
  <2>2. pc[x] = "inhand"
    BY <1>5 DEF SaveRefused, Calls
  <2> QED BY <1>0, <1>5, <2>1, <2>2, CallEndsInv DEF SaveRefused
<1>6. CASE KeepOld(x)
  <2>1. FilesOK'
    BY <1>1, <1>2, <1>6 DEF KeepOld, FilesOK, File
  <2>2. buildLock = x
    BY <1>2, <1>6 DEF KeepOld, Saving
  <2> QED BY <1>3, <1>6, <2>1, <2>2 DEF KeepOld
<1>7. CASE PutNew(x)
  <2>1. FilesOK'
    BY <1>1, <1>2, <1>7 DEF PutNew, FilesOK, File
  <2> DEFINE v == [Mine(x) EXCEPT !.base = Mine(x).answers, !.dirty = FALSE]
  <2>2. v \in Session
    BY <1>1 DEF Session, File
  <2>3. sess' = [sess EXCEPT ![tab[x]] = v]
    BY <1>1, <1>7 DEF PutNew
  <2> HIDE DEF v
  <2>4. pc[x] = "backed" /\ buildLock' = Nobody /\ store' = Touched(tab[x]) /\ Ends(x)
    BY <1>7 DEF PutNew
  <2> QED BY <1>0, <2>1, <2>2, <2>3, <2>4, CallEndsInv
<1>8. CASE PutNewFails(x)
  <2>1. FilesOK'
    BY <1>2, <1>8 DEF PutNewFails, FilesOK, disk
  <2> QED BY <1>0, <1>8, <2>1, CallEndsInv DEF PutNewFails
<1> QED BY <1>4, <1>5, <1>6, <1>7, <1>8 DEF SaveStep

\* The rest of the host.
LEMMA HostInv ==
  ASSUME SessionsInv,
         OthersBuild \/ (\E t \in Targets, a \in Answers : Menuconfig(t, a)) \/ AgentDies
           \/ UNCHANGED kconfigVars
  PROVE  SessionsInv'
\* Sessions and calls as they were.
<1>1. ASSUME UNCHANGED <<sess, store, number, pc, call, tab, opens, given, scenario>>, FilesOK',
             \A x \in Tabs : buildLock = x <=> buildLock' = x
      PROVE  SessionsInv'
  BY <1>1 DEF SessionsInv, NumbersOK, StoreOK, CallsOK, Opening, StoreFree, Used, Stored, Saving
<1>2. CASE OthersBuild
  <2>1. FilesOK'
    BY <1>2 DEF OthersBuild, SessionsInv, FilesOK, disk
  <2> QED BY <1>1, <1>2, <2>1 DEF OthersBuild
<1>3. CASE \E t \in Targets, a \in Answers : Menuconfig(t, a)
  <2>1. FilesOK'
    BY <1>3 DEF Menuconfig, SessionsInv, FilesOK, File
  <2> QED BY <1>1, <1>3, <2>1 DEF Menuconfig
<1>4. CASE UNCHANGED kconfigVars
  <2>1. FilesOK'
    BY <1>4 DEF SessionsInv, FilesOK, kconfigVars
  <2> QED BY <1>1, <1>4, <2>1 DEF kconfigVars
<1>5. CASE AgentDies
  <2>1. /\ pc' = [x \in Tabs |-> "idle"] /\ call' = [x \in Tabs |-> NoCall] /\ store' = <<>>
        /\ sess' = [s \in Ids |-> NoSession] /\ number' = 1 /\ given' = {}
        /\ buildLock' = (IF buildLock \in Tabs THEN Nobody ELSE buildLock)
        /\ UNCHANGED <<disk, tab, opens, scenario>>
    BY <1>5 DEF AgentDies
  <2>2. StoreFree' /\ Opening' = {} /\ Stored' = {} /\ \A x \in Tabs : ~Saving(x)'
    BY <2>1 DEF StoreFree, Opening, Stored, ToSet, Saving
  <2>3. NumbersOK'
    BY <2>1, <2>2, FS_EmptySet DEF NumbersOK, SessionsInv
  <2>4. StoreOK'
    BY <2>1, <2>2 DEF StoreOK, Distinct
  <2>5. CallsOK'
    BY <2>1, <2>2 DEF CallsOK, NoCall, Call, InCall, SessionsInv
  <2>6. FilesOK'
    BY <2>1 DEF FilesOK, SessionsInv, disk
  <2> QED BY <2>1, <2>3, <2>4, <2>5, <2>6 DEF SessionsInv
<1> QED BY <1>2, <1>3, <1>4, <1>5

LEMMA SessionsNextInv == SessionsInv /\ [KconfigNext]_kconfigVars => SessionsInv'
BY AskOpenInv, OpenInv, OpenedInv, GetInv, CallInv, CloseInv, SaveInv, HostInv
   DEF KconfigNext, TabStep

THEOREM SessionsInvariance == KconfigSpec => []SessionsInv
BY SessionsInitInv, SessionsNextInv, PTL DEF KconfigSpec

\* KconfigTypeOK: for any number of tabs and targets, every variable keeps its type and
\* the store never has more than MAX sessions.
THEOREM SessionsTypeCorrect == KconfigSpec => []KconfigTypeOK
<1>1. SessionsInv => KconfigTypeOK
  <2> SUFFICES ASSUME SessionsInv PROVE KconfigTypeOK
    OBVIOUS
  <2>1. number <= opens + 1
    <3>1. Cardinality(Opening) \in Nat /\ number \in Nat /\ opens \in Nat
          /\ number - 1 + Cardinality(Opening) <= opens
      BY FS_CardinalityType DEF SessionsInv, NumbersOK
    <3> QED BY <3>1
  <2>2. \A i \in 1..Len(store) : sess[store[i]] \in Session
    BY DEF SessionsInv, StoreOK, Stored, ToSet
  <2> QED BY <2>1, <2>2 DEF KconfigTypeOK, SessionsInv, FilesOK, NumbersOK, StoreOK, CallsOK
<1> QED BY <1>1, SessionsInvariance, PTL

-----------------------------------------------------------------------------
(* The saved answers are in the file or in its backup.                      *)

\* What a save has written is what its session answers, and the file is away only while
\* its backup has the answers.
AnswersOK ==
  /\ \A x \in Tabs : Saving(x) => tmp[Mine(x).target] = Mine(x).answers
  /\ \A t \in Targets : config[t] = wrote[t] \/ (config[t] = NoFile /\ bak[t] = wrote[t])

\* One save at a time, and only Write begins one.
LEMMA OneSave ==
  ASSUME SessionsInv, NEW x \in Tabs, NEW y \in Tabs
  PROVE  /\ Saving(x) /\ Saving(y) => x = y
         /\ Saving(x) => buildLock = x /\ buildLock # Nobody
BY DEF SessionsInv, CallsOK

LEMMA SaveBegins ==
  ASSUME SessionsInv, KconfigNext, NEW y \in Tabs, Saving(y)', ~Saving(y)
  PROVE  Write(y)
<1>0. /\ pc \in [Tabs -> {"idle", "opening", "parsing", "inhand", "written", "backed"}]
      /\ pc'[y] \in {"written", "backed"} /\ pc[y] \notin {"written", "backed"}
  BY DEF SessionsInv, CallsOK, Saving
<1>1. ASSUME NEW x \in Tabs, TabStep(x) PROVE Write(y)
  <2>1. CASE \E t \in Targets : AskOpen(x, t)
    BY <1>0, <2>1 DEF AskOpen
  <2>2. CASE Open(x) \/ Opened(x) \/ OpenFails(x)
    BY <1>0, <2>2 DEF Open, Opened, OpenFails
  <2>3. CASE \E c \in Call : c.op \notin {"none", "open"} /\ Get(x, c)
    BY <1>0, <2>3 DEF Get
  <2>4. CASE Look(x) \/ SetValue(x) \/ SetRefused(x) \/ Reset(x) \/ ResetFails(x)
    BY <1>0, <2>4 DEF Look, SetValue, SetRefused, Reset, ResetFails, Ends
  <2>5. CASE Close(x)
    BY <1>0, <2>5 DEF Close
  <2>6. CASE Write(x)
    BY <1>0, <2>6 DEF Write
  <2>7. CASE SaveRefused(x) \/ KeepOld(x) \/ PutNew(x) \/ PutNewFails(x)
    BY <1>0, <2>7 DEF SaveRefused, KeepOld, PutNew, PutNewFails, Ends
  <2> QED BY <1>1, <2>1, <2>2, <2>3, <2>4, <2>5, <2>6, <2>7 DEF TabStep, SaveStep
<1>2. CASE OthersBuild \/ \E t \in Targets, a \in Answers : Menuconfig(t, a)
  BY <1>0, <1>2 DEF OthersBuild, Menuconfig
<1>3. CASE AgentDies
  BY <1>0, <1>3 DEF AgentDies
<1> QED BY <1>1, <1>2, <1>3 DEF KconfigNext

\* Nothing comes near a session, or its temporary file, that is being saved.
LEMMA SavedStays ==
  ASSUME SessionsInv, KconfigNext, NEW y \in Tabs, Saving(y), Saving(y)'
  PROVE  tab'[y] = tab[y] /\ sess'[tab[y]] = sess[tab[y]] /\ tmp' = tmp
<1>0. /\ pc \in [Tabs -> {"idle", "opening", "parsing", "inhand", "written", "backed"}]
      /\ tab \in [Tabs -> Ids \cup {0}] /\ sess \in [Ids -> Session \cup {NoSession}]
      /\ pc'[y] \in {"written", "backed"} /\ pc[y] \in {"written", "backed"}
      /\ tab[y] \in Ids /\ Used(tab[y]) /\ buildLock = y /\ buildLock # Nobody
      /\ \A x \in Tabs : Saving(x) => x = y
  <2>1. pc[y] \in InCall
    BY DEF Saving, InCall
  <2> QED BY <2>1, OneSave DEF SessionsInv, CallsOK, StoreOK, Saving
<1>1. ASSUME NEW x \in Tabs, TabStep(x)
      PROVE  tab'[y] = tab[y] /\ sess'[tab[y]] = sess[tab[y]] /\ tmp' = tmp
  <2>1. CASE \E t \in Targets : AskOpen(x, t)
    BY <1>0, <2>1 DEF AskOpen, disk
  <2>2. CASE Open(x) \/ OpenFails(x)
    BY <1>0, <2>2 DEF Open, OpenFails, disk
  <2>3. CASE Opened(x)
    <3>1. x # y /\ tab[y] # number - 1
      <4>1. ~StoreFree
        BY <2>3 DEF Opened, StoreFree
      <4> QED BY <1>0, <2>3, <4>1 DEF Opened, Used, Ids, SessionsInv, NumbersOK
    <3> QED BY <1>0, <2>3, <3>1 DEF Opened, disk
  <2>4. CASE \E c \in Call : c.op \notin {"none", "open"} /\ Get(x, c)
    BY <1>0, <2>4 DEF Get, disk
  <2>5. CASE Look(x) \/ SetValue(x) \/ SetRefused(x) \/ Reset(x) \/ ResetFails(x)
    <3>1. tab[x] # tab[y] /\ tab' = tab /\ tmp' = tmp
      BY <2>5 DEF Look, SetValue, SetRefused, Reset, ResetFails, Calls, SessionFree, disk
    <3> QED BY <1>0, <2>5, <3>1 DEF Look, SetValue, SetRefused, Reset, ResetFails
  <2>6. CASE Close(x)
    BY <1>0, <2>6 DEF Close, disk
  <2>7. CASE Write(x) \/ SaveRefused(x)
    BY <1>0, <2>7 DEF Write, SaveRefused
  <2>8. CASE KeepOld(x)
    BY <2>8 DEF KeepOld
  <2>9. CASE PutNew(x) \/ PutNewFails(x)
    BY <1>0, <2>9 DEF PutNew, PutNewFails, Saving, Ends
  <2> QED BY <1>1, <2>1, <2>2, <2>3, <2>4, <2>5, <2>6, <2>7, <2>8, <2>9 DEF TabStep, SaveStep
<1>2. CASE OthersBuild \/ \E t \in Targets, a \in Answers : Menuconfig(t, a)
  BY <1>2 DEF OthersBuild, Menuconfig, disk
<1>3. CASE AgentDies
  BY <1>0, <1>3 DEF AgentDies
<1> QED BY <1>1, <1>2, <1>3 DEF KconfigNext

LEMMA AnswersInit == KconfigInit => AnswersOK
BY DEF KconfigInit, AnswersOK, Saving

LEMMA AnswersStep == SessionsInv /\ AnswersOK /\ [KconfigNext]_kconfigVars => AnswersOK'
<1> SUFFICES ASSUME SessionsInv, AnswersOK, [KconfigNext]_kconfigVars PROVE AnswersOK'
  OBVIOUS
<1>1. CASE UNCHANGED kconfigVars
  BY <1>1 DEF AnswersOK, Saving, Mine, kconfigVars
<1>2. CASE KconfigNext
  <2>1. ASSUME NEW y \in Tabs, Saving(y)' PROVE (tmp[Mine(y).target] = Mine(y).answers)'
    <3>1. CASE Saving(y)
      BY <1>2, <2>1, <3>1, SavedStays DEF AnswersOK, Mine
    <3>2. CASE ~Saving(y)
      <4>1. Write(y) /\ pc[y] \in InCall
        BY <1>2, <2>1, <3>2, SaveBegins DEF Write, Calls, InCall
      <4>2. Mine(y).target \in Targets /\ tmp \in [Targets -> File]
        BY <4>1, MineTyped DEF SessionsInv, FilesOK
      <4> QED BY <4>1, <4>2 DEF Write, Mine
    <3> QED BY <3>1, <3>2
  <2>2. ASSUME NEW t \in Targets
        PROVE  (config[t] = wrote[t] \/ (config[t] = NoFile /\ bak[t] = wrote[t]))'
    <3>0. /\ config \in [Targets -> File] /\ bak \in [Targets -> File]
          /\ wrote \in [Targets -> File]
          /\ config[t] = wrote[t] \/ (config[t] = NoFile /\ bak[t] = wrote[t])
      BY DEF AnswersOK, SessionsInv, FilesOK
    <3>1. CASE UNCHANGED <<config, bak, wrote>>
      BY <3>0, <3>1
    <3>2. ASSUME NEW x \in Tabs, KeepOld(x) PROVE <2>2!2
      BY <3>0, <3>2 DEF KeepOld
    <3>3. ASSUME NEW x \in Tabs, PutNew(x) PROVE <2>2!2
      <4>1. tmp[Mine(x).target] = Mine(x).answers
        BY <3>3 DEF AnswersOK, PutNew, Saving
      <4> QED BY <3>0, <3>3, <4>1 DEF PutNew
    <3>4. ASSUME NEW u \in Targets, NEW a \in Answers, Menuconfig(u, a) PROVE <2>2!2
      BY <3>0, <3>4 DEF Menuconfig
    <3>5. \/ UNCHANGED <<config, bak, wrote>>
          \/ \E x \in Tabs : KeepOld(x) \/ PutNew(x)
          \/ \E u \in Targets, a \in Answers : Menuconfig(u, a)
      <4>1. ASSUME NEW x \in Tabs, TabStep(x) PROVE <3>5!:
        <5>1. CASE SaveStep(x)
          BY <5>1 DEF SaveStep, Write, SaveRefused, PutNewFails, disk
        <5>2. CASE ~SaveStep(x)
          BY <4>1, <5>2 DEF TabStep, AskOpen, Open, Opened, OpenFails, Get, Look, SetValue,
             SetRefused, Reset, ResetFails, Close, disk
        <5> QED BY <5>1, <5>2
      <4> QED BY <1>2, <4>1 DEF KconfigNext, OthersBuild, AgentDies, disk
    <3> QED BY <3>1, <3>2, <3>3, <3>4, <3>5
  <2> QED BY <2>1, <2>2 DEF AnswersOK
<1> QED BY <1>1, <1>2

\* SavedAnswersAreKept: whatever fails, dies or meets in a save, the answers that were last
\* told to be saved are in the .config of their target or in its backup.
THEOREM AnswersAreKept == KconfigSpec => []SavedAnswersAreKept
<1>1. AnswersOK => SavedAnswersAreKept
  BY DEF AnswersOK, SavedAnswersAreKept
<1> QED BY <1>1, AnswersInit, AnswersStep, SessionsInvariance, PTL DEF KconfigSpec

-----------------------------------------------------------------------------
(* Unsaved work stays in the store.                                         *)

\* A session that a call has in hand is in the store, and so is one with unsaved answers
\* that the design does not give up.
HandsOK == \A x \in Tabs : pc[x] \in InCall => tab[x] \in Stored
UnsavedOK == ~May("late_call") => HandsOK /\ \A s \in Ids : sess[s].dirty => s \in Stored \cup given

\* A call that ends leaves the same sessions in the store.
LEMMA StoredStay ==
  ASSUME SessionsInv, NEW x \in Tabs,
         Look(x) \/ SetValue(x) \/ SetRefused(x) \/ Reset(x) \/ ResetFails(x) \/ SaveStep(x)
  PROVE  Stored' = Stored /\ pc[x] \in InCall /\ tab' = tab /\ given' = given
         /\ \E there \in {"idle"} \cup InCall : pc' = [pc EXCEPT ![x] = there]
<1>1. /\ pc[x] \in InCall /\ tab' = tab /\ given' = given
      /\ \E there \in {"idle"} \cup InCall : pc' = [pc EXCEPT ![x] = there]
  BY DEF Look, SetValue, SetRefused, Reset, ResetFails, Calls, Ends, InCall,
         SaveStep, Write, SaveRefused, KeepOld, PutNew, PutNewFails
<1>2. store' = store \/ store' = Touched(tab[x])
  BY DEF Look, SetValue, SetRefused, Reset, ResetFails,
         SaveStep, Write, SaveRefused, KeepOld, PutNew, PutNewFails
<1>3. tab[x] \in Ids /\ store \in Seq(Ids) /\ Distinct(store)
  BY <1>1, MineTyped DEF SessionsInv, StoreOK
<1>4. Stored' = Stored
  <2>1. CASE store' = store
    BY <2>1 DEF Stored
  <2>2. CASE store' = Touched(tab[x])
    BY <1>3, <2>2, TouchedStays DEF Stored
  <2> QED BY <1>2, <2>1, <2>2
<1> QED BY <1>1, <1>4

\* What else happens to the store.
LEMMA StoredByClose ==
  ASSUME SessionsInv, NEW x \in Tabs, Close(x)
  PROVE  Stored' = Stored \ {tab[x]}
<1>1. store \in Seq(Ids) /\ Distinct(store) /\ Kept(tab[x])
      /\ store' = Without(store, PlaceOf(tab[x]))
  BY DEF SessionsInv, StoreOK, Close
<1> QED BY <1>1, WithoutKept DEF Stored

LEMMA StoredByOpened ==
  ASSUME SessionsInv, NEW x \in Tabs, Opened(x)
  PROVE  /\ number - 1 \in Ids /\ number - 1 \notin Stored /\ Stored' = Stored \cup {number - 1}
         /\ sess'[number - 1] = Parse(call[x].target)
         /\ \A s \in Ids \ {number - 1} : sess'[s] = sess[s]
<1>1. ~StoreFree
  BY DEF Opened, StoreFree
<1>2. number \in Nat /\ number - 1 \in Ids /\ ~Used(number - 1)
  BY <1>1 DEF SessionsInv, NumbersOK, Used, Ids
<1>3. number - 1 \notin Stored /\ store \in Seq(Ids) /\ Distinct(store)
  BY <1>2 DEF SessionsInv, StoreOK
<1>4. ASSUME NEW s \in Ids, s \notin ToSet(store)
      PROVE  ToSet(Append(store, s)) = ToSet(store) \cup {s}
  BY <1>3, <1>4, AppendedElement
<1>5. Stored' = Stored \cup {number - 1}
  BY <1>2, <1>3, <1>4 DEF Opened, Stored
<1> QED BY <1>2, <1>3, <1>5 DEF Opened, SessionsInv, StoreOK

LEMMA StoredByGet ==
  ASSUME SessionsInv, NEW x \in Tabs, NEW c \in Call, Get(x, c)
  PROVE  /\ Stored' \subseteq Stored /\ pc[x] = "idle"
         /\ given' = given \cup {s \in Stored \ Stored' : sess[s].dirty}
         /\ \A s \in Stored \ Stored' : InHand(s) => May("late_call")
         /\ \/ /\ pc' = [pc EXCEPT ![x] = "inhand"] /\ tab' = tab
               /\ tab[x] \in Stored'
            \/ pc' = pc /\ tab' = [tab EXCEPT ![x] = 0]
<1>1. PICK n \in Ages :
        /\ \A s \in Stored \ ToSet(Young(n)) : InHand(s) => May("late_call")
        /\ store' = Young(n)
        /\ given' = given \cup {s \in Stored \ ToSet(Young(n)) : sess[s].dirty}
        /\ IF tab[x] \in ToSet(Young(n))
             THEN /\ pc' = [pc EXCEPT ![x] = "inhand"] /\ call' = [call EXCEPT ![x] = c]
                  /\ UNCHANGED tab
             ELSE tab' = [tab EXCEPT ![x] = 0] /\ UNCHANGED <<pc, call>>
  BY DEF Get
<1>2. ToSet(Young(n)) \subseteq Stored /\ Stored' = ToSet(Young(n))
  BY <1>1, YoungOnes DEF SessionsInv, StoreOK, Stored
<1>3. pc[x] = "idle"
  BY DEF Get
<1> QED BY <1>1, <1>2, <1>3

\* An open drops only what is too old or first out, and gives up what it drops unsaved.
LEMMA StoredByOpen ==
  ASSUME SessionsInv, NEW x \in Tabs, Open(x)
  PROVE  /\ Stored' \subseteq Stored /\ given \subseteq given'
         /\ \A s \in Stored \ Stored' : (sess[s].dirty => s \in given')
                                        /\ (InHand(s) => May("late_call"))
<1>1. PICK n \in Ages, place \in 0..MAX :
        /\ place \in Evicts(Young(n))
        /\ \A s \in Stored \ ToSet(Without(Young(n), place)) : InHand(s) => May("late_call")
        /\ store' = Without(Young(n), place)
        /\ given' = given \cup GivenUp(Young(n), Without(Young(n), place))
  BY DEF Open
<1>2. /\ ToSet(store') \subseteq ToSet(Young(n)) /\ ToSet(Young(n)) \subseteq Stored
      /\ \A s \in ToSet(Young(n)) \ ToSet(store') : sess[s].dirty => AllDirty(Young(n))
  BY <1>1, Evicted DEF SessionsInv, AllDirty
<1>3. Stored' = ToSet(store')
  BY DEF Stored
<1>4. ASSUME NEW s \in Stored \ Stored', sess[s].dirty PROVE s \in given'
  <2>1. CASE AllDirty(Young(n))
    BY <1>1, <1>3, <1>4, <2>1 DEF GivenUp
  <2>2. CASE ~AllDirty(Young(n))
    BY <1>1, <1>2, <1>3, <1>4, <2>2 DEF GivenUp
  <2> QED BY <2>1, <2>2
<1> QED BY <1>1, <1>2, <1>3, <1>4

\* A session with a call under way stays in the store.
LEMMA HandsStay ==
  ASSUME SessionsInv, HandsOK, ~May("late_call"), KconfigNext
  PROVE  HandsOK'
<1>0. /\ pc \in [Tabs -> {"idle", "opening", "parsing", "inhand", "written", "backed"}]
      /\ tab \in [Tabs -> Ids \cup {0}]
  BY DEF SessionsInv, CallsOK
\* Everybody else keeps what he has in hand.
<1>1. ASSUME NEW x \in Tabs, \A y \in Tabs \ {x} : pc'[y] = pc[y] /\ tab'[y] = tab[y],
             \A s \in Stored \ Stored' : ~InHand(s),
             pc'[x] \in InCall => tab'[x] \in Stored'
      PROVE  HandsOK'
  BY <1>1 DEF HandsOK, InHand, InCall
<1>2. ASSUME NEW x \in Tabs, TabStep(x) PROVE HandsOK'
  <2>1. CASE \E t \in Targets : AskOpen(x, t)
    BY <1>0, <1>1, <2>1 DEF AskOpen, Stored, InCall
  <2>2. CASE Open(x)
    BY <1>0, <1>1, <2>2, StoredByOpen DEF Open, InCall
  <2>3. CASE Opened(x)
    BY <1>0, <1>1, <2>3, StoredByOpened DEF Opened, InCall
  <2>4. CASE OpenFails(x)
    BY <1>0, <1>1, <2>4 DEF OpenFails, Stored, InCall
  <2>5. CASE \E c \in Call : c.op \notin {"none", "open"} /\ Get(x, c)
    BY <1>0, <1>1, <2>5, StoredByGet DEF InCall
  <2>6. CASE Look(x) \/ SetValue(x) \/ SetRefused(x) \/ Reset(x) \/ ResetFails(x) \/ SaveStep(x)
    BY <1>0, <1>1, <2>6, StoredStay DEF HandsOK
  <2>7. CASE Close(x)
    <3>1. Stored' = Stored \ {tab[x]} /\ ~InHand(tab[x]) /\ pc' = pc
          /\ tab' = IF pc[x] = "idle" THEN [tab EXCEPT ![x] = 0] ELSE tab
      BY <2>7, StoredByClose DEF Close
    <3>2. pc[x] \notin InCall
      BY <3>1 DEF InHand, InCall
    <3> QED BY <1>0, <1>1, <3>1, <3>2
  <2> QED BY <1>2, <2>1, <2>2, <2>3, <2>4, <2>5, <2>6, <2>7 DEF TabStep
<1>3. CASE OthersBuild \/ \E t \in Targets, a \in Answers : Menuconfig(t, a)
  BY <1>3 DEF OthersBuild, Menuconfig, HandsOK, Stored
<1>4. CASE AgentDies
  BY <1>4 DEF AgentDies, HandsOK, InCall
<1> QED BY <1>2, <1>3, <1>4 DEF KconfigNext

LEMMA ScenarioStays == [KconfigNext]_kconfigVars => scenario' = scenario
BY DEF KconfigNext, TabStep, SaveStep, AskOpen, Open, Opened, OpenFails, Get, Look, SetValue,
   SetRefused, Reset, ResetFails, Close, Write, SaveRefused, KeepOld, PutNew, PutNewFails,
   OthersBuild, Menuconfig, AgentDies, kconfigVars

LEMMA UnsavedInit == KconfigInit => UnsavedOK
BY DEF KconfigInit, UnsavedOK, HandsOK, InCall, NoSession

LEMMA UnsavedStep == SessionsInv /\ UnsavedOK /\ [KconfigNext]_kconfigVars => UnsavedOK'
<1> SUFFICES ASSUME SessionsInv, UnsavedOK, [KconfigNext]_kconfigVars, ~May("late_call")'
             PROVE  HandsOK' /\ \A s \in Ids : sess'[s].dirty => s \in Stored' \cup given'
  BY DEF UnsavedOK
<1>0. HandsOK /\ ~May("late_call") /\ \A s \in Ids : sess[s].dirty => s \in Stored \cup given
  BY ScenarioStays DEF UnsavedOK, May
<1>1. CASE UNCHANGED kconfigVars
  BY <1>0, <1>1 DEF HandsOK, Stored, kconfigVars
<1>2. CASE KconfigNext
  <2>0. sess \in [Ids -> Session \cup {NoSession}]
    BY DEF SessionsInv, StoreOK
  <2>1. ASSUME sess' = sess, Stored \cup given \subseteq Stored' \cup given'
        PROVE  \A s \in Ids : sess'[s].dirty => s \in Stored' \cup given'
    BY <1>0, <2>1
  <2>2. ASSUME NEW x \in Tabs, TabStep(x)
        PROVE  \A s \in Ids : sess'[s].dirty => s \in Stored' \cup given'
    <3>1. CASE (\E t \in Targets : AskOpen(x, t)) \/ OpenFails(x)
      BY <2>1, <3>1 DEF AskOpen, OpenFails, Stored
    <3>2. CASE Open(x)
      <4>1. sess' = sess
        BY <3>2 DEF Open
      <4> QED BY <1>0, <3>2, <4>1, StoredByOpen
    <3>3. CASE Opened(x)
      <4>1. given' = given
        BY <3>3 DEF Opened
      <4>2. Parse(call[x].target).dirty = FALSE
        BY DEF Parse
      <4> QED BY <1>0, <3>3, <4>1, <4>2, StoredByOpened
    <3>4. CASE \E c \in Call : c.op \notin {"none", "open"} /\ Get(x, c)
      <4>1. sess' = sess
        BY <3>4 DEF Get
      <4> QED BY <1>0, <3>4, <4>1, StoredByGet
    <3>5. CASE Look(x) \/ SetValue(x) \/ SetRefused(x) \/ Reset(x) \/ ResetFails(x) \/ SaveStep(x)
      <4>1. Stored' = Stored /\ given' = given /\ tab[x] \in Stored /\ tab[x] \in Ids
        BY <1>0, <3>5, StoredStay, MineTyped DEF HandsOK
      <4>2. \A s \in Ids \ {tab[x]} : sess'[s] = sess[s]
        BY <2>0, <3>5 DEF Look, SetValue, SetRefused, Reset, ResetFails, SaveStep, Write,
           SaveRefused, KeepOld, PutNew, PutNewFails
      <4> QED BY <1>0, <4>1, <4>2
    <3>6. CASE Close(x)
      <4>1. sess' = sess /\ given' = IF sess[tab[x]].dirty THEN given \cup {tab[x]} ELSE given
        BY <3>6 DEF Close, Mine
      <4> QED BY <1>0, <3>6, <4>1, StoredByClose
    <3> QED BY <2>2, <3>1, <3>2, <3>3, <3>4, <3>5, <3>6 DEF TabStep
  <2>3. CASE OthersBuild \/ \E t \in Targets, a \in Answers : Menuconfig(t, a)
    BY <1>0, <1>2, <2>1, <2>3, HandsStay DEF OthersBuild, Menuconfig, Stored
  <2>4. CASE AgentDies
    BY <1>0, <1>2, <2>4, HandsStay DEF AgentDies, NoSession
  <2> QED BY <1>0, <1>2, <2>2, <2>3, <2>4, HandsStay DEF KconfigNext
<1> QED BY <1>1, <1>2

\* UnsavedWorkIsKept: however many sessions are opened, the store drops no unsaved answers
\* but those that are too old, or that it holds when all of its sessions have some.
THEOREM UnsavedWorkStays == KconfigSpec => []UnsavedWorkIsKept
<1>1. UnsavedOK => UnsavedWorkIsKept
  BY DEF UnsavedOK, UnsavedWorkIsKept
<1> QED BY <1>1, UnsavedInit, UnsavedStep, SessionsInvariance, PTL DEF KconfigSpec

-----------------------------------------------------------------------------
(* A save replaces nothing that its session has not seen.                   *)

Apart == scenario.disturbances \cap {"two_tabs", "force", "opens_meet", "late_call",
                                     "menuconfig", "save_fails", "dies"} = {}

\* One session of a target, stored or to come, and it has seen what is saved.
Asking(x) == pc[x] \in {"opening", "parsing"}
Alone == \A r, s \in Stored : sess[r].target = sess[s].target => r = s
AskedAlone ==
  \A x \in Tabs : Asking(x) =>
    /\ \A s \in Stored : sess[s].target # call[x].target
    /\ \A y \in Tabs : Asking(y) /\ call[y].target = call[x].target => y = x
Seen == \A s \in Stored : sess[s].base = wrote[sess[s].target]

\* A file is away only between the two renames of a save of its target.
InPlace ==
  \A t \in Targets :
    config[t] = wrote[t] \/ \E y \in Tabs : pc[y] = "backed" /\ Mine(y).target = t

ApartOK == HandsOK /\ Alone /\ AskedAlone /\ Seen /\ InPlace

LEMMA ApartInit == KconfigInit => ApartOK
BY DEF KconfigInit, ApartOK, HandsOK, InCall, Alone, AskedAlone, Asking, Seen, InPlace, Stored,
       ToSet

\* Nobody asks for a target that is in the store, or that somebody asks for.
LEMMA ApartAsks ==
  ASSUME SessionsInv, ApartOK, Apart, NEW x \in Tabs, NEW t \in Targets, AskOpen(x, t)
  PROVE  Alone' /\ AskedAlone' /\ Seen' /\ InPlace'
<1>1. /\ pc[x] = "idle" /\ pc' = [pc EXCEPT ![x] = "opening"]
      /\ call' = [call EXCEPT ![x] = [op |-> "open", target |-> t]]
      /\ UNCHANGED <<disk, sess, store, tab>>
      /\ \A y \in Tabs : pc[y] # "parsing"
  BY DEF AskOpen, StoreFree
<1>2. /\ \A s \in Stored : sess[s].target # t
      /\ \A y \in Tabs : pc[y] = "opening" => call[y].target # t
  <2>1. ~May("force") /\ ~May("two_tabs") /\ ~May("opens_meet")
    BY DEF Apart, May
  <2> QED BY <2>1 DEF AskOpen, DirtyFor
<1>3. \A y \in Tabs : /\ pc'[y] = IF y = x THEN "opening" ELSE pc[y]
                      /\ call'[y] = IF y = x THEN [op |-> "open", target |-> t] ELSE call[y]
  BY <1>1 DEF SessionsInv, CallsOK
<1>4. Stored' = Stored
  BY <1>1 DEF Stored
<1>5. AskedAlone'
  BY <1>1, <1>2, <1>3, <1>4 DEF ApartOK, AskedAlone, Asking
<1>6. InPlace'
  BY <1>1, <1>3 DEF ApartOK, InPlace, Mine, disk
<1> QED BY <1>1, <1>4, <1>5, <1>6 DEF ApartOK, Alone, Seen, disk

\* Sessions that leave the store, or calls that end.
LEMMA ApartLeaves ==
  ASSUME SessionsInv, ApartOK, Stored' \subseteq Stored, UNCHANGED <<config, wrote, sess, call>>,
         \A y \in Tabs : Asking(y)' => Asking(y),
         \A y \in Tabs : pc[y] = "backed" => pc'[y] = "backed" /\ tab'[y] = tab[y]
  PROVE  Alone' /\ AskedAlone' /\ Seen' /\ InPlace'
<1>1. Alone' /\ Seen'
  BY DEF ApartOK, Alone, Seen
<1>2. AskedAlone'
  BY DEF ApartOK, AskedAlone
<1>3. InPlace'
  BY DEF ApartOK, InPlace, Mine
<1> QED BY <1>1, <1>2, <1>3

\* While a target is asked for, no session of it is being saved: its file is in place.
LEMMA ApartOpened ==
  ASSUME SessionsInv, ApartOK, NEW x \in Tabs, Opened(x)
  PROVE  Alone' /\ AskedAlone' /\ Seen' /\ InPlace'
<1> DEFINE s == number - 1
           t == call[x].target
<1>1. /\ s \in Ids /\ s \notin Stored /\ Stored' = Stored \cup {s} /\ Stored \subseteq Ids
      /\ sess'[s] = Parse(t) /\ \A r \in Ids \ {s} : sess'[r] = sess[r]
  BY StoredByOpened, StoredAreIds DEF SessionsInv
<1>2. /\ pc[x] = "parsing" /\ pc' = [pc EXCEPT ![x] = "idle"]
      /\ call' = [call EXCEPT ![x] = NoCall] /\ tab' = [tab EXCEPT ![x] = s]
      /\ UNCHANGED disk
  BY DEF Opened
<1>3. t \in Targets /\ Parse(t).target = t /\ Parse(t).base = config[t]
  BY <1>2, ParseTyped DEF SessionsInv, CallsOK, FilesOK
<1> HIDE DEF s
<1>4. \A r \in Stored : sess[r].target # t
  BY <1>2 DEF ApartOK, AskedAlone, Asking
<1>5. config[t] = wrote[t]
  BY <1>3, <1>4 DEF ApartOK, InPlace, HandsOK, InCall, Mine
<1>6. \A y \in Tabs \ {x} : pc'[y] = pc[y] /\ call'[y] = call[y] /\ tab'[y] = tab[y]
  BY <1>2 DEF SessionsInv, CallsOK
<1>7. pc'[x] = "idle"
  BY <1>2 DEF SessionsInv, CallsOK
<1>8. Alone'
  BY <1>1, <1>3, <1>4 DEF ApartOK, Alone
<1>9. AskedAlone'
  <2> SUFFICES ASSUME NEW y \in Tabs, Asking(y)'
               PROVE  /\ \A r \in Stored' : sess'[r].target # call'[y].target
                      /\ \A z \in Tabs : Asking(z)' /\ call'[z].target = call'[y].target => z = y
    BY DEF AskedAlone
  <2>1. y # x /\ Asking(y) /\ call'[y] = call[y]
    BY <1>6, <1>7 DEF Asking
  <2>2. call[y].target # t
    BY <1>2, <2>1 DEF ApartOK, AskedAlone, Asking
  <2>3. \A r \in Stored' : sess'[r].target # call'[y].target
    BY <1>1, <1>3, <2>1, <2>2 DEF ApartOK, AskedAlone
  <2>4. \A z \in Tabs : Asking(z)' /\ call'[z].target = call'[y].target => z = y
    BY <1>6, <1>7, <2>1 DEF ApartOK, AskedAlone, Asking
  <2> QED BY <2>3, <2>4
<1>10. Seen'
  BY <1>1, <1>2, <1>3, <1>5 DEF ApartOK, Seen, disk
<1>11. InPlace'
  <2>1. ASSUME NEW y \in Tabs, pc[y] = "backed"
        PROVE  pc'[y] = "backed" /\ Mine(y)' = Mine(y)
    <3>1. y # x /\ tab[y] \in Stored
      BY <1>2, <2>1 DEF ApartOK, HandsOK, InCall
    <3> QED BY <1>1, <1>6, <2>1, <3>1 DEF Mine
  <2> QED BY <1>2, <2>1 DEF ApartOK, InPlace, disk
<1> QED BY <1>8, <1>9, <1>10, <1>11

\* A session in hand that changes keeps its target, and sees what is saved.
LEMMA ApartChanges ==
  ASSUME SessionsInv, ApartOK, NEW x \in Tabs, pc[x] \in InCall, Ends(x),
         Stored' = Stored, tab' = tab,
         NEW v \in Session, sess' = [sess EXCEPT ![tab[x]] = v], v.target = Mine(x).target,
         \A t \in Targets \ {v.target} : config'[t] = config[t] /\ wrote'[t] = wrote[t],
         v.base = wrote'[v.target],
         Saving(x) => config'[v.target] = wrote'[v.target],
         ~Saving(x) => UNCHANGED <<config, wrote>>
  PROVE  Alone' /\ AskedAlone' /\ Seen' /\ InPlace'
<1>1. /\ tab[x] \in Ids /\ tab[x] \in Stored /\ Stored \subseteq Ids /\ Mine(x) = sess[tab[x]]
      /\ Mine(x).target \in Targets
  BY MineTyped, StoredAreIds DEF ApartOK, HandsOK, SessionsInv, Mine
<1>2. \A s \in Ids : sess'[s] = IF s = tab[x] THEN v ELSE sess[s]
  BY <1>1 DEF SessionsInv, StoreOK
<1>3. \A y \in Tabs : pc'[y] = (IF y = x THEN "idle" ELSE pc[y]) /\ (y # x => call'[y] = call[y])
  BY DEF Ends, SessionsInv, CallsOK
<1>4. \A s \in Ids : sess'[s].target = sess[s].target
  BY <1>1, <1>2
<1>5. Alone'
  BY <1>1, <1>4 DEF ApartOK, Alone
<1>6. AskedAlone'
  <2>1. \A y \in Tabs : Asking(y)' => Asking(y) /\ call'[y] = call[y]
    BY <1>3 DEF Asking
  <2> QED BY <1>1, <1>4, <2>1 DEF ApartOK, AskedAlone
<1>7. Seen'
  <2>1. \A s \in Stored : s # tab[x] => sess[s].target # v.target /\ sess[s].target \in Targets
    <3>1. \A s \in Stored : sess[s] \in Session
      BY DEF SessionsInv, StoreOK
    <3> QED BY <1>1, <3>1 DEF ApartOK, Alone, Session
  <2> QED BY <1>1, <1>2, <2>1 DEF ApartOK, Seen
<1>8. InPlace'
  <2> SUFFICES ASSUME NEW t \in Targets, config'[t] # wrote'[t]
               PROVE  \E y \in Tabs : pc'[y] = "backed" /\ Mine(y)'.target = t
    BY DEF InPlace
  <2>1. config[t] # wrote[t]
    BY <1>1
  <2>2. PICK y \in Tabs : pc[y] = "backed" /\ Mine(y).target = t
    BY <2>1 DEF ApartOK, InPlace
  <2>3. y # x
    BY <1>1, <2>2 DEF Saving
  <2>4. tab[y] \in Ids
    BY <2>2, MineTyped DEF InCall
  <2>5. pc'[y] = "backed" /\ Mine(y)'.target = t
    BY <1>3, <1>4, <2>2, <2>3, <2>4 DEF Mine
  <2> QED BY <2>5
<1> QED BY <1>5, <1>6, <1>7, <1>8

LEMMA ApartCalls ==
  ASSUME SessionsInv, ApartOK, NEW x \in Tabs,
         Look(x) \/ SetValue(x) \/ SetRefused(x) \/ Reset(x) \/ ResetFails(x)
  PROVE  Alone' /\ AskedAlone' /\ Seen' /\ InPlace'
<1>1. /\ pc[x] = "inhand" /\ Ends(x) /\ SessionFree(tab[x])
      /\ UNCHANGED <<config, wrote, tab>>
  BY DEF Look, SetValue, SetRefused, Reset, ResetFails, Calls, disk
<1>2. /\ tab[x] \in Ids /\ tab[x] \in Stored /\ Mine(x) = sess[tab[x]] /\ Mine(x) \in Session
      /\ Mine(x).target \in Targets /\ Stored' = Stored /\ pc[x] \in InCall /\ ~Saving(x)
  BY <1>1, MineTyped, StoredStay DEF ApartOK, HandsOK, InCall, Mine, Saving
<1>3. Mine(x).base = wrote[Mine(x).target]
  BY <1>2 DEF ApartOK, Seen
<1>4. CASE Look(x) \/ ResetFails(x)
  <2>1. /\ sess' = sess
        /\ \A y \in Tabs :
             pc'[y] = (IF y = x THEN "idle" ELSE pc[y]) /\ (y # x => call'[y] = call[y])
    BY <1>1, <1>4 DEF Look, ResetFails, Ends, SessionsInv, CallsOK
  <2>2. Alone' /\ Seen'
    BY <1>1, <1>2, <2>1 DEF ApartOK, Alone, Seen
  <2>3. AskedAlone'
    BY <1>2, <2>1 DEF ApartOK, AskedAlone, Asking
  <2>4. InPlace'
    BY <1>1, <2>1 DEF ApartOK, InPlace, Mine
  <2> QED BY <2>2, <2>3, <2>4
<1>7. CASE SetRefused(x)
  <2>1. PICK a \in Answers : sess' = [sess EXCEPT ![tab[x]].answers = a]
    BY <1>7 DEF SetRefused
  <2> DEFINE v == [Mine(x) EXCEPT !.answers = a]
  <2>2. v \in Session /\ v.target = Mine(x).target /\ v.base = Mine(x).base
    BY <1>2 DEF Session
  <2>3. sess' = [sess EXCEPT ![tab[x]] = v]
    BY <1>2, <2>1
  <2> HIDE DEF v
  <2> QED BY <1>1, <1>2, <1>3, <2>2, <2>3, ApartChanges
<1>5. CASE SetValue(x)
  <2> DEFINE v == [Mine(x) EXCEPT !.answers = call[x].answers, !.dirty = TRUE]
  <2>1. call[x].answers \in Answers
    BY <1>5 DEF SetValue, Calls, SessionsInv, CallsOK, Call
  <2>2. v \in Session /\ v.target = Mine(x).target /\ v.base = Mine(x).base
    BY <1>2, <2>1 DEF Session
  <2>3. sess' = [sess EXCEPT ![tab[x]] = v]
    BY <1>2, <1>5 DEF SetValue
  <2> HIDE DEF v
  <2> QED BY <1>1, <1>2, <1>3, <2>2, <2>3, ApartChanges
<1>6. CASE Reset(x)
  <2> DEFINE t == Mine(x).target
  <2>1. sess' = [sess EXCEPT ![tab[x]] = Parse(t)]
    BY <1>2, <1>6 DEF Reset
  <2>2. Parse(t) \in Session /\ Parse(t).target = t /\ Parse(t).base = config[t]
    BY <1>2, ParseTyped DEF SessionsInv, FilesOK
  \* The file is in place: no session of its target but this one, and nobody saves this one.
  <2>3. config[t] = wrote[t]
    <3>1. ASSUME NEW y \in Tabs, pc[y] = "backed", Mine(y).target = t PROVE FALSE
      <4>1. tab[y] \in Stored /\ tab[y] # tab[x]
        BY <1>1, <3>1 DEF ApartOK, HandsOK, InCall, SessionFree, Saving
      <4> QED BY <1>2, <3>1, <4>1 DEF ApartOK, Alone, Mine
    <3> QED BY <1>2, <3>1 DEF ApartOK, InPlace
  <2> HIDE DEF t
  <2>4. Parse(t).target = Mine(x).target /\ Parse(t).base = wrote'[Parse(t).target]
    BY <1>1, <2>2, <2>3 DEF t
  <2> QED BY <1>1, <1>2, <2>1, <2>2, <2>4, ApartChanges
<1> QED BY <1>4, <1>5, <1>6, <1>7

LEMMA ApartSaves ==
  ASSUME SessionsInv, AnswersOK, ApartOK, Apart, NEW x \in Tabs, SaveStep(x)
  PROVE  Alone' /\ AskedAlone' /\ Seen' /\ InPlace'
<1>0. /\ Stored' = Stored /\ tab' = tab /\ pc[x] \in InCall
      /\ tab[x] \in Ids /\ tab[x] \in Stored /\ Mine(x) = sess[tab[x]] /\ Mine(x) \in Session
      /\ Mine(x).target \in Targets /\ Mine(x).answers \in Answers
  BY StoredStay, MineTyped DEF ApartOK, HandsOK, Mine
<1>1. CASE Write(x) \/ SaveRefused(x)
  <2>1. /\ UNCHANGED <<config, wrote, sess>> /\ pc[x] = "inhand"
        /\ \/ pc' = [pc EXCEPT ![x] = "written"] /\ call' = call
           \/ Ends(x)
    BY <1>1 DEF Write, SaveRefused, Calls
  <2>2. \A y \in Tabs : /\ Asking(y)' => Asking(y) /\ call'[y] = call[y]
                        /\ pc[y] = "backed" => pc'[y] = "backed"
    BY <1>0, <2>1 DEF Asking, Ends, SessionsInv, CallsOK
  <2>3. Alone' /\ Seen'
    BY <1>0, <2>1 DEF ApartOK, Alone, Seen
  <2>4. AskedAlone'
    BY <1>0, <2>1, <2>2 DEF ApartOK, AskedAlone
  <2>5. InPlace'
    BY <1>0, <2>1, <2>2 DEF ApartOK, InPlace, Mine
  <2> QED BY <2>3, <2>4, <2>5
<1>2. CASE KeepOld(x)
  <2>1. /\ pc' = [pc EXCEPT ![x] = "backed"] /\ UNCHANGED <<wrote, sess, call>>
        /\ \/ config' = [config EXCEPT ![Mine(x).target] = NoFile]
           \/ config' = config
    BY <1>2 DEF KeepOld
  <2>2. \A y \in Tabs : pc'[y] = IF y = x THEN "backed" ELSE pc[y]
    BY <2>1 DEF SessionsInv, CallsOK
  <2>3. Alone' /\ Seen'
    BY <1>0, <2>1 DEF ApartOK, Alone, Seen
  <2>4. AskedAlone'
    BY <1>0, <2>1, <2>2 DEF ApartOK, AskedAlone, Asking
  <2>5. InPlace'
    <3> SUFFICES ASSUME NEW t \in Targets, config'[t] # wrote'[t]
                 PROVE  \E y \in Tabs : pc'[y] = "backed" /\ Mine(y)'.target = t
      BY DEF InPlace
    <3>1. CASE t = Mine(x).target
      BY <1>0, <2>1, <2>2, <3>1 DEF Mine
    <3>2. CASE t # Mine(x).target
      <4>1. config[t] # wrote[t]
        BY <2>1, <3>2 DEF SessionsInv, FilesOK
      <4> QED BY <1>0, <2>1, <2>2, <4>1 DEF ApartOK, InPlace, Mine
    <3> QED BY <3>1, <3>2
  <2> QED BY <2>3, <2>4, <2>5
<1>3. CASE PutNew(x)
  <2> DEFINE v == [Mine(x) EXCEPT !.base = Mine(x).answers, !.dirty = FALSE]
             t == Mine(x).target
  <2>1. tmp[t] = Mine(x).answers /\ Saving(x)
    BY <1>3 DEF AnswersOK, PutNew, Saving
  <2>2. v \in Session /\ v.target = t /\ v.base = Mine(x).answers
    BY <1>0 DEF Session, File
  <2>3. sess' = [sess EXCEPT ![tab[x]] = v]
    BY <1>0, <1>3 DEF PutNew
  <2>4. config'[t] = Mine(x).answers /\ wrote'[t] = Mine(x).answers
        /\ \A u \in Targets \ {t} : config'[u] = config[u] /\ wrote'[u] = wrote[u]
    BY <1>0, <1>3, <2>1 DEF PutNew, SessionsInv, FilesOK
  <2>5. Ends(x)
    BY <1>3 DEF PutNew
  <2> HIDE DEF v
  <2>6. /\ v.target = Mine(x).target /\ v.base = wrote'[v.target]
        /\ config'[v.target] = wrote'[v.target]
        /\ \A u \in Targets \ {v.target} : config'[u] = config[u] /\ wrote'[u] = wrote[u]
    BY <2>2, <2>4
  <2> QED BY <1>0, <2>1, <2>2, <2>3, <2>5, <2>6, ApartChanges
<1>4. CASE PutNewFails(x)
  BY <1>4 DEF PutNewFails, Apart, May
<1> QED BY <1>1, <1>2, <1>3, <1>4 DEF SaveStep

LEMMA ApartStep ==
  ASSUME SessionsInv, AnswersOK, ApartOK, Apart, [KconfigNext]_kconfigVars
  PROVE  ApartOK'
<1>1. CASE UNCHANGED kconfigVars
  <2>1. Stored' = Stored /\ UNCHANGED <<config, wrote, sess, call, pc, tab>>
    BY <1>1 DEF kconfigVars, Stored
  <2>2. HandsOK'
    BY <2>1 DEF ApartOK, HandsOK
  <2> QED BY <2>1, <2>2, ApartLeaves DEF ApartOK, Asking
<1>2. CASE KconfigNext
  <2>1. HandsOK'
    BY <1>2, HandsStay DEF ApartOK, Apart, May
  <2>2. ASSUME NEW x \in Tabs, TabStep(x)
        PROVE  Alone' /\ AskedAlone' /\ Seen' /\ InPlace'
    <3>0. pc \in [Tabs -> {"idle", "opening", "parsing", "inhand", "written", "backed"}]
          /\ tab \in [Tabs -> Ids \cup {0}]
      BY DEF SessionsInv, CallsOK
    <3>1. CASE \E t \in Targets : AskOpen(x, t)
      BY <3>1, ApartAsks
    <3>2. CASE Open(x)
      <4>1. /\ UNCHANGED <<config, wrote, sess, call, tab>> /\ pc[x] = "opening"
            /\ pc' = [pc EXCEPT ![x] = "parsing"]
        BY <3>2 DEF Open, disk
      <4> QED BY <3>0, <3>2, <4>1, StoredByOpen, ApartLeaves DEF Asking
    <3>3. CASE Opened(x)
      BY <3>3, ApartOpened
    <3>4. CASE OpenFails(x)
      <4>1. /\ UNCHANGED <<config, wrote, sess, tab>> /\ pc[x] = "parsing" /\ Stored' = Stored
            /\ \A y \in Tabs : pc'[y] = (IF y = x THEN "idle" ELSE pc[y])
                               /\ (y # x => call'[y] = call[y])
        BY <3>4 DEF OpenFails, disk, Stored, SessionsInv, CallsOK
      <4>2. Alone' /\ Seen'
        BY <4>1 DEF ApartOK, Alone, Seen
      <4>3. AskedAlone'
        BY <4>1 DEF ApartOK, AskedAlone, Asking
      <4>4. InPlace'
        BY <4>1 DEF ApartOK, InPlace, Mine
      <4> QED BY <4>2, <4>3, <4>4
    <3>5. CASE \E c \in Call : c.op \notin {"none", "open"} /\ Get(x, c)
      <4>1. PICK c \in Call : Get(x, c)
        BY <3>5
      <4>2. /\ UNCHANGED <<config, wrote, sess>> /\ pc[x] = "idle" /\ Stored' \subseteq Stored
            /\ \A y \in Tabs \ {x} : pc'[y] = pc[y] /\ tab'[y] = tab[y] /\ call'[y] = call[y]
            /\ pc'[x] \in {"idle", "inhand"}
        <5>1. UNCHANGED <<config, wrote, sess>>
          BY <4>1 DEF Get, disk
        <5>2. \A y \in Tabs \ {x} : call'[y] = call[y]
          BY <4>1 DEF Get, SessionsInv, CallsOK
        <5> QED BY <3>0, <4>1, <5>1, <5>2, StoredByGet
      <4>3. Alone' /\ Seen'
        BY <4>2 DEF ApartOK, Alone, Seen
      <4>4. AskedAlone'
        BY <4>2 DEF ApartOK, AskedAlone, Asking
      <4>5. InPlace'
        BY <4>2 DEF ApartOK, InPlace, Mine
      <4> QED BY <4>3, <4>4, <4>5
    <3>6. CASE Look(x) \/ SetValue(x) \/ SetRefused(x) \/ Reset(x) \/ ResetFails(x)
      BY <3>6, ApartCalls
    <3>7. CASE Close(x)
      <4>1. /\ UNCHANGED <<config, wrote, sess, call, pc>>
            /\ tab' = IF pc[x] = "idle" THEN [tab EXCEPT ![x] = 0] ELSE tab
        BY <3>7 DEF Close, disk
      <4> QED BY <3>0, <3>7, <4>1, StoredByClose, ApartLeaves DEF Asking
    <3>8. CASE SaveStep(x)
      BY <3>8, ApartSaves
    <3> QED BY <2>2, <3>1, <3>2, <3>3, <3>4, <3>5, <3>6, <3>7, <3>8 DEF TabStep
  <2>3. CASE OthersBuild
    <3>1. UNCHANGED <<config, wrote, sess, call, pc, tab>> /\ Stored' = Stored
      BY <2>3 DEF OthersBuild, disk, Stored
    <3> QED BY <2>1, <3>1, ApartLeaves DEF ApartOK, Asking
  <2>4. CASE AgentDies \/ \E t \in Targets, a \in Answers : Menuconfig(t, a)
    BY <2>4 DEF AgentDies, Menuconfig, Apart, May
  <2> QED BY <1>2, <2>1, <2>2, <2>3, <2>4 DEF KconfigNext, ApartOK
<1> QED BY <1>1, <1>2

\* SaveDiscardsNothingWhenApart: as long as sessions of a target neither overlap nor outlive
\* their place in the store, and nothing leaves a target without its file, a save replaces
\* the very answers that its session has seen.
THEOREM SavesDiscardNothing == KconfigSpec => []SaveDiscardsNothingWhenApart
<1>1. KconfigInit => (Apart => ApartOK)
  BY ApartInit
<1>2. SessionsInv /\ AnswersOK /\ (Apart => ApartOK) /\ [KconfigNext]_kconfigVars
        => (Apart => ApartOK)'
  <2>1. [KconfigNext]_kconfigVars => (Apart' => Apart)
    BY ScenarioStays DEF Apart
  <2> QED BY <2>1, ApartStep
<1>3. (Apart => ApartOK) => SaveDiscardsNothingWhenApart
  BY DEF Apart, ApartOK, HandsOK, Seen, InCall, Saving, Mine, SaveDiscardsNothingWhenApart,
         SaveDiscardsNothing
<1> QED BY <1>1, <1>2, <1>3, AnswersInit, AnswersStep, SessionsInvariance, PTL DEF KconfigSpec

-----------------------------------------------------------------------------
(* Least and greatest numbers, and flattened sequences.                     *)

LEMMA LessIsWellFounded == IsWellFoundedOn({p \in Nat \X Nat : p[1] < p[2]}, Nat)
BY NatLessThanWellFounded DEF OpToRel

\* What induction comes down to, for sets of numbers.
LEMMA LeastOf ==
  ASSUME NEW T, T \subseteq Nat, T # {}
  PROVE  \E x \in T : \A y \in T : x <= y
<1> DEFINE R == {p \in Nat \X Nat : p[1] < p[2]}
<1>1. PICK x \in T : \A y \in T : ~(<<y, x>> \in R)
  <2> HIDE DEF R
  <2>1. IsWellFoundedOn(R, Nat)
    BY LessIsWellFounded DEF R
  <2> QED BY <2>1, WFMin
<1>2. ASSUME NEW y \in T PROVE x <= y
  <2>1. x \in Nat /\ y \in Nat
    OBVIOUS
  <2>2. ~(y < x)
    BY <1>1, <2>1
  <2> QED BY <2>1, <2>2
<1> QED BY <1>2

LEMMA MinOf ==
  ASSUME NEW T, T \subseteq Nat, T # {}
  PROVE  Min(T) \in T /\ \A y \in T : Min(T) <= y
<1>1. \E x \in T : \A y \in T : x <= y
  BY LeastOf
<1> QED BY <1>1 DEF Min

LEMMA MinIs ==
  ASSUME NEW T, T \subseteq Nat, NEW x \in T, \A y \in T : x <= y
  PROVE  Min(T) = x
<1> DEFINE m == Min(T)
<1>1. m \in T /\ \A y \in T : m <= y
  BY MinOf
<1> HIDE DEF m
<1>2. m \in Nat /\ x \in Nat
  BY <1>1
<1>3. m <= x /\ x <= m
  BY <1>1
<1>4. m = x
  BY <1>2, <1>3
<1> QED BY <1>4 DEF m

LEMMA MaxOf ==
  ASSUME NEW T, NEW n \in Nat, T \subseteq 0..n, T # {}
  PROVE  Max(T) \in T /\ \A y \in T : y <= Max(T)
<1> DEFINE U == {n - t : t \in T}
<1>0. \A t \in T : t \in Nat /\ t <= n /\ n - t \in Nat
  <2> SUFFICES ASSUME NEW t \in T PROVE t \in Nat /\ t <= n /\ n - t \in Nat
    OBVIOUS
  <2>1. t \in 0..n
    OBVIOUS
  <2> QED BY <2>1
<1>1. U \subseteq Nat /\ U # {}
  BY <1>0
<1>2. PICK u \in U : \A y \in U : u <= y
  <2> HIDE DEF U
  <2> QED BY <1>1, LeastOf
<1>3. PICK x \in T : u = n - x
  OBVIOUS
<1>4. ASSUME NEW y \in T PROVE x >= y
  <2>1. u <= n - y
    BY <1>2
  <2>2. x \in Nat /\ y \in Nat
    BY <1>0
  <2> QED BY <1>3, <2>1, <2>2
<1>5. Max(T) \in T /\ \A y \in T : Max(T) >= y
  BY <1>4 DEF Max
<1> QED BY <1>5

LEMMA MaxIs ==
  ASSUME NEW T, NEW n \in Nat, T \subseteq 0..n, NEW x \in T, \A y \in T : y <= x
  PROVE  Max(T) = x
<1> DEFINE m == Max(T)
<1>1. m \in T /\ \A y \in T : y <= m
  BY MaxOf
<1> HIDE DEF m
<1>2. m \in Nat /\ x \in Nat
  BY <1>1
<1>3. m <= x /\ x <= m
  BY <1>1
<1>4. m = x
  BY <1>2, <1>3
<1> QED BY <1>4 DEF m

\* The function that FlattenSeq defines for a sequence of sequences.
Flattens(f, seqs) ==
  f = [i \in 1..Len(seqs) |-> IF i = 1 THEN seqs[i] ELSE f[i - 1] \o seqs[i]]

LEMMA FlattensTyped ==
  ASSUME NEW S, NEW seqs \in Seq(Seq(S)), NEW f, Flattens(f, seqs)
  PROVE  \A i \in 1..Len(seqs) : f[i] \in Seq(S)
<1> DEFINE T == {i \in 1..Len(seqs) : f[i] \notin Seq(S)}
<1>1. \A i \in 1..Len(seqs) : f[i] = IF i = 1 THEN seqs[i] ELSE f[i - 1] \o seqs[i]
  BY DEF Flattens
<1>2. \A i \in 1..Len(seqs) : seqs[i] \in Seq(S)
  OBVIOUS
<1>3. ASSUME T # {} PROVE FALSE
  <2>1. PICK i \in T : \A j \in T : i <= j
    <3>1. T \subseteq Nat
      OBVIOUS
    <3> HIDE DEF T
    <3> QED BY <1>3, <3>1, LeastOf
  <2>2. CASE i = 1
    BY <1>1, <1>2, <2>2
  <2>3. CASE i # 1
    <3>1. i - 1 \in 1..Len(seqs) /\ i - 1 \notin T
      BY <2>1, <2>3
    <3>2. f[i - 1] \in Seq(S) /\ seqs[i] \in Seq(S)
      BY <1>2, <3>1
    <3>3. f[i] = f[i - 1] \o seqs[i]
      BY <1>1, <2>3
    <3>4. f[i] \in Seq(S)
      BY <3>2, <3>3, ConcatProperties
    <3> QED BY <3>4
  <2> QED BY <2>2, <2>3
<1> QED BY <1>3

\* There is one, and only one.
LEMMA FlattensExists ==
  ASSUME NEW S, NEW seqs \in Seq(Seq(S)), Len(seqs) > 0
  PROVE  \E f : Flattens(f, seqs)
<1> DEFINE Good(n) == \E f : f = [i \in 1..n |-> IF i = 1 THEN seqs[i] ELSE f[i - 1] \o seqs[i]]
           T == {n \in 1..Len(seqs) : ~Good(n)}
<1>1. ASSUME T # {} PROVE FALSE
  <2>1. PICK n \in T : \A j \in T : n <= j
    <3>1. T \subseteq Nat
      <4> HIDE DEF Good
      <4> QED OBVIOUS
    <3> HIDE DEF T
    <3> QED BY <1>1, <3>1, LeastOf
  <2>2. CASE n = 1
    <3> DEFINE f == [i \in 1..1 |-> seqs[i]]
    <3>1. f = [i \in 1..1 |-> IF i = 1 THEN seqs[i] ELSE f[i - 1] \o seqs[i]]
      OBVIOUS
    <3>2. Good(1)
      BY <3>1
    <3> QED BY <2>1, <2>2, <3>2
  <2>3. CASE n # 1
    <3>1. n - 1 \in 1..Len(seqs) /\ n \in Nat /\ n - 1 < n
      <4> HIDE DEF Good
      <4>1. n \in 1..Len(seqs)
        OBVIOUS
      <4> QED BY <2>3, <4>1
    <3>2. Good(n - 1)
      <4> HIDE DEF Good
      <4>1. n - 1 \notin T
        BY <2>1, <3>1
      <4> QED BY <3>1, <4>1
    <3>3. PICK g : g = [i \in 1..(n - 1) |-> IF i = 1 THEN seqs[i] ELSE g[i - 1] \o seqs[i]]
      BY <3>2
    <3> DEFINE f == [i \in 1..n |-> IF i = n THEN g[n - 1] \o seqs[n] ELSE g[i]]
    <3>4. ASSUME NEW i \in 1..n PROVE f[i] = IF i = 1 THEN seqs[i] ELSE f[i - 1] \o seqs[i]
      <4>1. CASE i = n
        <5>1. n - 1 \in 1..n /\ n - 1 # n
          BY <3>1
        <5>2. f[n - 1] = g[n - 1] /\ f[n] = g[n - 1] \o seqs[n]
          BY <4>1, <5>1
        <5> QED BY <2>3, <4>1, <5>2
      <4>2. CASE i # n
        <5>1. i \in 1..(n - 1) /\ (i # 1 => i - 1 \in 1..(n - 1)) /\ i - 1 # n
          BY <3>1, <4>2
        <5>2. g[i] = IF i = 1 THEN seqs[i] ELSE g[i - 1] \o seqs[i]
          BY <3>3, <5>1
        <5> QED BY <3>1, <4>2, <5>1, <5>2
      <4> QED BY <4>1, <4>2
    <3>5. f = [i \in 1..n |-> IF i = 1 THEN seqs[i] ELSE f[i - 1] \o seqs[i]]
      BY <3>4
    <3>6. Good(n)
      <4> HIDE DEF f
      <4> QED BY <3>5
    <3> QED BY <2>1, <3>6
  <2> QED BY <2>2, <2>3
<1>2. Good(Len(seqs))
  <2> HIDE DEF Good
  <2>1. Len(seqs) \in 1..Len(seqs)
    OBVIOUS
  <2> QED BY <1>1, <2>1
<1> QED BY <1>2 DEF Flattens

LEMMA FlattensAgree ==
  ASSUME NEW a, NEW b, NEW n \in Nat, n <= Len(a), n <= Len(b), Len(a) \in Nat, Len(b) \in Nat,
         \A i \in 1..n : a[i] = b[i],
         NEW f, NEW g, Flattens(f, a), Flattens(g, b)
  PROVE  \A i \in 1..n : f[i] = g[i]
<1> DEFINE T == {i \in 1..n : f[i] # g[i]}
<1>1. ASSUME NEW i \in 1..n
      PROVE  /\ f[i] = IF i = 1 THEN a[i] ELSE f[i - 1] \o a[i]
             /\ g[i] = IF i = 1 THEN b[i] ELSE g[i - 1] \o b[i]
  <2>1. i \in 1..Len(a) /\ i \in 1..Len(b)
    OBVIOUS
  <2>2. f[i] = IF i = 1 THEN a[i] ELSE f[i - 1] \o a[i]
    BY <2>1 DEF Flattens
  <2>3. g[i] = IF i = 1 THEN b[i] ELSE g[i - 1] \o b[i]
    BY <2>1 DEF Flattens
  <2> QED BY <2>2, <2>3
<1>2. ASSUME T # {} PROVE FALSE
  <2>1. PICK i \in T : \A j \in T : i <= j
    <3>1. T \subseteq Nat
      OBVIOUS
    <3> HIDE DEF T
    <3> QED BY <1>2, <3>1, LeastOf
  <2>2. CASE i = 1
    BY <1>1, <2>1, <2>2
  <2>3. CASE i # 1
    <3>1. i - 1 \in 1..n /\ i - 1 \notin T
      BY <2>1, <2>3
    <3> QED BY <1>1, <2>1, <2>3, <3>1
  <2> QED BY <2>2, <2>3
<1> QED BY <1>2

LEMMA FlattenIs ==
  ASSUME NEW S, NEW seqs \in Seq(Seq(S)), NEW f, Flattens(f, seqs), Len(seqs) > 0
  PROVE  FlattenSeq(seqs) = f[Len(seqs)]
<1> DEFINE g == CHOOSE h : Flattens(h, seqs)
<1>1. Flattens(g, seqs)
  BY FlattensExists
<1>2. FlattenSeq(seqs) = g[Len(seqs)]
  BY DEF FlattenSeq, Flattens
<1> HIDE DEF g
<1>3. Len(seqs) \in Nat /\ Len(seqs) \in 1..Len(seqs)
  OBVIOUS
<1>4. \A i \in 1..Len(seqs) : f[i] = g[i]
  BY <1>1, <1>3, FlattensAgree
<1> QED BY <1>2, <1>3, <1>4

LEMMA FlattenEmpty == FlattenSeq(<<>>) = <<>>
BY DEF FlattenSeq

LEMMA FlattenTyped ==
  ASSUME NEW S, NEW seqs \in Seq(Seq(S))
  PROVE  FlattenSeq(seqs) \in Seq(S)
<1>1. CASE seqs = <<>>
  BY <1>1, FlattenEmpty, EmptySeq
<1>2. CASE seqs # <<>>
  <2>1. Len(seqs) \in Nat /\ Len(seqs) > 0
    BY <1>2, EmptySeq
  <2>2. PICK f : Flattens(f, seqs)
    BY <2>1, FlattensExists
  <2> QED BY <2>1, <2>2, FlattenIs, FlattensTyped
<1> QED BY <1>1, <1>2

LEMMA FlattenAppend ==
  ASSUME NEW S, NEW seqs \in Seq(Seq(S)), NEW x \in Seq(S)
  PROVE  FlattenSeq(Append(seqs, x)) = FlattenSeq(seqs) \o x
<1> DEFINE all == Append(seqs, x)
           n == Len(seqs)
<1>1. /\ all \in Seq(Seq(S)) /\ Len(all) = n + 1 /\ n \in Nat
      /\ (\A i \in 1..n : all[i] = seqs[i]) /\ all[n + 1] = x
  BY AppendProperties
<1> HIDE DEF all
<1> DEFINE m == Len(all)
<1>0. m \in Nat /\ m > 0 /\ m = n + 1
  BY <1>1
<1>2. PICK f : Flattens(f, all)
  BY <1>0, <1>1, FlattensExists
<1>3. FlattenSeq(all) = f[n + 1]
  BY <1>0, <1>1, <1>2, FlattenIs
<1>4. f[n + 1] = IF n + 1 = 1 THEN all[n + 1] ELSE f[n + 1 - 1] \o all[n + 1]
  <2>1. n + 1 \in 1..Len(all)
    BY <1>1
  <2>2. \A i \in 1..Len(all) : f[i] = IF i = 1 THEN all[i] ELSE f[i - 1] \o all[i]
    BY <1>2 DEF Flattens
  <2> QED BY <2>1, <2>2
<1>5. CASE n = 0
  <2>1. seqs = <<>>
    BY <1>5, EmptySeq
  <2>2. FlattenSeq(all) = x
    BY <1>1, <1>3, <1>4, <1>5
  <2> QED BY <2>1, <2>2, FlattenEmpty, ConcatEmptySeq DEF all
<1>6. CASE n # 0
  <2>0. n \in Nat /\ n > 0
    BY <1>1, <1>6
  <2>1. PICK g : Flattens(g, seqs)
    BY <2>0, FlattensExists
  <2>2. FlattenSeq(seqs) = g[n]
    BY <2>0, <2>1, FlattenIs
  <2>3. f[n] = g[n]
    <3>1. ASSUME NEW k \in Nat, k = n PROVE \A i \in 1..k : f[i] = g[i]
      <4>1. k <= Len(all) /\ k <= Len(seqs) /\ Len(all) \in Nat /\ Len(seqs) \in Nat
        BY <1>1, <3>1
      <4>2. \A i \in 1..k : all[i] = seqs[i]
        BY <1>1, <3>1
      <4>3. \A i \in 1..k : f[i] = g[i]
        <5> HIDE DEF n, all
        <5> QED BY SMTT(40), <1>2, <2>1, <4>1, <4>2, FlattensAgree
      <4> QED BY <4>3
    <3>2. \A i \in 1..n : f[i] = g[i]
      BY <2>0, <3>1
    <3>3. n \in 1..n
      BY <2>0
    <3> QED BY <3>2, <3>3
  <2>4. n + 1 # 1 /\ n + 1 - 1 = n
    BY <1>1, <1>6
  <2> QED BY <1>1, <1>3, <1>4, <2>2, <2>3, <2>4 DEF all
<1> QED BY <1>5, <1>6

LEMMA SeqInduction ==
  ASSUME NEW S, NEW G, <<>> \in G, \A s \in Seq(S) \cap G : \A e \in S : Append(s, e) \in G
  PROVE  Seq(S) \subseteq G
<1> DEFINE T == {Len(s) : s \in Seq(S) \ G}
<1>1. ASSUME T # {} PROVE FALSE
  <2>1. PICK n \in T : \A m \in T : n <= m
    <3>1. T \subseteq Nat
      OBVIOUS
    <3> HIDE DEF T
    <3> QED BY <1>1, <3>1, LeastOf
  <2>2. PICK s \in Seq(S) \ G : Len(s) = n
    OBVIOUS
  <2>3. PICK r \in Seq(S), e \in S : s = Append(r, e)
    BY <2>2, SequenceEmptyOrAppend
  <2>4. Len(s) = Len(r) + 1 /\ Len(r) \in Nat
    BY <2>3, AppendProperties
  <2>5. Len(r) \notin T
    BY <2>1, <2>2, <2>4
  <2>6. r \in G
    BY <2>5
  <2> QED BY <2>2, <2>3, <2>6
<1> QED BY <1>1

LEMMA FlattenConcat ==
  ASSUME NEW S, NEW a \in Seq(Seq(S)), NEW b \in Seq(Seq(S))
  PROVE  FlattenSeq(a \o b) = FlattenSeq(a) \o FlattenSeq(b)
<1> DEFINE G == {c \in Seq(Seq(S)) : FlattenSeq(a \o c) = FlattenSeq(a) \o FlattenSeq(c)}
<1>1. FlattenSeq(a) \in Seq(S)
  BY FlattenTyped
<1>2. <<>> \in G
  BY <1>1, FlattenEmpty, ConcatEmptySeq
<1>3. ASSUME NEW c \in Seq(Seq(S)) \cap G, NEW x \in Seq(S) PROVE Append(c, x) \in G
  <2>1. a \o Append(c, x) = Append(a \o c, x) /\ a \o c \in Seq(Seq(S))
    <3>1. Append(c, x) = c \o <<x>> /\ <<x>> \in Seq(Seq(S))
      BY AppendIsConcat
    <3>2. a \o c \in Seq(Seq(S))
      BY ConcatProperties
    <3>3. Append(a \o c, x) = (a \o c) \o <<x>>
      BY <3>2, AppendIsConcat
    <3>4. a \o (c \o <<x>>) = (a \o c) \o <<x>>
      BY SMTT(40), <3>1, ConcatAssociative
    <3> QED BY <3>1, <3>2, <3>3, <3>4
  <2>2. FlattenSeq(a \o Append(c, x)) = FlattenSeq(a \o c) \o x
    BY <2>1, FlattenAppend
  <2>3. FlattenSeq(a \o c) = FlattenSeq(a) \o FlattenSeq(c)
    BY <1>3
  <2>4. (FlattenSeq(a) \o FlattenSeq(c)) \o x = FlattenSeq(a) \o (FlattenSeq(c) \o x)
    <3>1. FlattenSeq(c) \in Seq(S)
      BY FlattenTyped
    <3> QED BY SMTT(40), <1>1, <3>1, ConcatAssociative
  <2>5. FlattenSeq(Append(c, x)) = FlattenSeq(c) \o x
    BY FlattenAppend
  <2>6. Append(c, x) \in Seq(Seq(S))
    BY AppendProperties
  <2> QED BY <2>2, <2>3, <2>4, <2>5, <2>6
<1> HIDE DEF G
<1>4. Seq(Seq(S)) \subseteq G
  BY <1>2, <1>3, SeqInduction
<1> QED BY <1>4 DEF G

-----------------------------------------------------------------------------
(* Where the parser finds sections, keys and options.                       *)

Names == Sections \cup Keys \cup Items \cup {NoItem}
Line ==
  {line \in [kind : {"header", "key", "item", "label", "remark", "blank"},
            name : Names, value : Names, note : Nat, sep : Separators] :
     /\ line.kind = "header" => line.name \in Sections
     /\ line.kind = "key" => line.name \in Keys
     /\ line.kind = "item" => line.name \in Items}

LEMMA LinesOf ==
  ASSUME NEW d \in Seq(Line)
  PROVE  Len(d) \in Nat /\ \A i \in 1..Len(d) : d[i] \in Line
OBVIOUS

\* The header of a section is its first one.
IsHeader(d, s, h) ==
  /\ h \in 1..Len(d) /\ d[h].kind = "header" /\ d[h].name = s
  /\ \A j \in 1..Len(d) : d[j].kind = "header" /\ d[j].name = s => h <= j

\* The section ends before the next header.
IsEnd(d, h, z) ==
  /\ z \in h..Len(d) /\ \A j \in (h + 1)..z : d[j].kind # "header"
  /\ z = Len(d) \/ d[z + 1].kind = "header"

\* The option ends before the first line that does not continue it.
IsLast(d, i, l) ==
  /\ l \in i..Len(d) /\ \A j \in (i + 1)..l : Continues(d[j])
  /\ l = Len(d) \/ ~Continues(d[l + 1])

LEMMA HeaderFacts ==
  ASSUME NEW d \in Seq(Line), NEW s
  PROVE  /\ HasSection(d, s) => IsHeader(d, s, HeaderOf(d, s))
         /\ \A h : IsHeader(d, s, h) => HasSection(d, s) /\ HeaderOf(d, s) = h
<1> DEFINE T == Are(d, "header", s)
<1>1. T \subseteq Nat
  BY DEF Are
<1>2. HasSection(d, s) <=> T # {}
  BY DEF HasSection
<1>3. HeaderOf(d, s) = Min(T)
  BY DEF HeaderOf
<1>4. \A h : IsHeader(d, s, h) <=> h \in T /\ \A j \in T : h <= j
  BY DEF IsHeader, Are
<1> HIDE DEF T
<1>5. HasSection(d, s) => IsHeader(d, s, HeaderOf(d, s))
  BY <1>1, <1>2, <1>3, <1>4, MinOf
<1>6. ASSUME NEW h, IsHeader(d, s, h) PROVE HasSection(d, s) /\ HeaderOf(d, s) = h
  <2>1. h \in T /\ \A j \in T : h <= j
    BY <1>4, <1>6
  <2>2. Min(T) = h
    BY <1>1, <2>1, MinIs
  <2> QED BY <1>2, <1>3, <2>1, <2>2
<1> QED BY <1>5, <1>6

LEMMA EndFacts ==
  ASSUME NEW d \in Seq(Line), NEW s, NEW h, IsHeader(d, s, h)
  PROVE  IsEnd(d, h, EndOf(d, s)) /\ \A z : IsEnd(d, h, z) => EndOf(d, s) = z
<1> DEFINE T == {i - 1 : i \in {j \in Headers(d) : j > h}} \cup {Len(d)}
<1>1. HeaderOf(d, s) = h /\ h \in 1..Len(d) /\ Len(d) \in Nat
  BY HeaderFacts DEF IsHeader
<1>2. EndOf(d, s) = Min(T)
  BY <1>1 DEF EndOf
<1>3. T \subseteq Nat /\ T # {}
  BY <1>1 DEF Headers
<1>4. ASSUME NEW z \in T, \A y \in T : z <= y PROVE IsEnd(d, h, z)
  <2>1. z \in h..Len(d)
    BY <1>1 DEF Headers
  <2>2. ASSUME NEW j \in (h + 1)..z, d[j].kind = "header" PROVE FALSE
    <3>1. j \in Headers(d) /\ j > h
      BY <1>1, <2>1, <2>2 DEF Headers
    <3>2. j - 1 \in T
      BY <3>1
    <3>3. z <= j - 1
      BY <1>4, <3>2
    <3> QED BY <1>1, <2>1, <3>3
  <2>3. z = Len(d) \/ d[z + 1].kind = "header"
    BY <1>1 DEF Headers
  <2> QED BY <2>1, <2>2, <2>3 DEF IsEnd
<1>5. ASSUME NEW z, IsEnd(d, h, z) PROVE z \in T /\ \A y \in T : z <= y
  <2>1. z \in h..Len(d) /\ z \in Nat /\ (\A j \in (h + 1)..z : d[j].kind # "header")
        /\ (z = Len(d) \/ d[z + 1].kind = "header")
    BY <1>1, <1>5 DEF IsEnd
  <2>2. z \in T
    <3>1. CASE z = Len(d)
      BY <3>1
    <3>2. CASE z # Len(d)
      <4>1. z + 1 \in Headers(d) /\ z + 1 > h /\ (z + 1) - 1 = z
        BY <1>1, <2>1, <3>2 DEF Headers
      <4> QED BY <4>1
    <3> QED BY <3>1, <3>2
  <2>3. ASSUME NEW y \in T PROVE z <= y
    <3>1. CASE y = Len(d)
      BY <2>1, <3>1
    <3>2. CASE y # Len(d)
      <4>1. PICK i \in Headers(d) : i > h /\ y = i - 1
        BY <3>2
      <4>2. i \in 1..Len(d) /\ d[i].kind = "header"
        BY <4>1 DEF Headers
      <4>3. i \notin (h + 1)..z
        BY <2>1, <4>2
      <4> QED BY <1>1, <2>1, <4>1, <4>2, <4>3
    <3> QED BY <3>1, <3>2
  <2> QED BY <2>2, <2>3
<1> HIDE DEF T
<1>6. IsEnd(d, h, EndOf(d, s))
  BY <1>2, <1>3, <1>4, MinOf
<1>7. ASSUME NEW z, IsEnd(d, h, z) PROVE EndOf(d, s) = z
  BY <1>2, <1>3, <1>5, <1>7, MinIs
<1> QED BY <1>6, <1>7

LEMMA LastFacts ==
  ASSUME NEW d \in Seq(Line), NEW i \in 1..Len(d)
  PROVE  IsLast(d, i, LastOf(d, i)) /\ \A l : IsLast(d, i, l) => LastOf(d, i) = l
<1> DEFINE T == {j \in i..Len(d) : \A k \in (i + 1)..j : Continues(d[k])}
           n == Len(d)
<1>1. n \in Nat /\ T \subseteq 0..n /\ i \in T /\ i \in 1..n /\ T \subseteq i..n
  OBVIOUS
<1>2. LastOf(d, i) = Max(T)
  BY DEF LastOf
<1>3. ASSUME NEW l \in T, \A j \in T : j <= l PROVE IsLast(d, i, l)
  <2>1. CASE l = Len(d)
    BY <2>1 DEF IsLast
  <2>2. CASE l # Len(d)
    <3>1. l + 1 \in i..Len(d) /\ l \in Nat /\ l + 1 \notin T
      BY <1>1, <1>3, <2>2
    <3>2. PICK k \in (i + 1)..(l + 1) : ~Continues(d[k])
      BY <3>1
    <3>3. k = l + 1
      BY <1>1, <3>1, <3>2
    <3> QED BY <3>2, <3>3 DEF IsLast
  <2> QED BY <2>1, <2>2
<1>4. ASSUME NEW l, IsLast(d, i, l) PROVE l \in T /\ \A j \in T : j <= l
  <2>1. l \in T /\ l \in i..n
    BY <1>4 DEF IsLast
  <2>2. ASSUME NEW j \in T, ~(j <= l) PROVE FALSE
    <3>1. l + 1 \in (i + 1)..j /\ l # Len(d)
      BY <1>1, <2>1, <2>2
    <3>2. Continues(d[l + 1])
      BY <3>1
    <3> QED BY <1>4, <3>1, <3>2 DEF IsLast
  <2> QED BY <2>1, <2>2
<1> HIDE DEF T, n
<1>5. IsLast(d, i, LastOf(d, i))
  BY <1>1, <1>2, <1>3, MaxOf
<1>6. ASSUME NEW l, IsLast(d, i, l) PROVE LastOf(d, i) = l
  BY <1>1, <1>2, <1>4, <1>6, MaxIs
<1> QED BY <1>5, <1>6
\* Nothing on line i goes on with what is above it.
Past(d, i) == i > Len(d) \/ ~Continues(d[i])

KeysOnce(d, s) == \A i, j \in KeyLines(d, s) : d[i].name = d[j].name => i = j

LEMMA KeyLinesAre ==
  ASSUME NEW d \in Seq(Line), NEW s, NEW h, NEW z, IsHeader(d, s, h), IsEnd(d, h, z)
  PROVE  KeyLines(d, s) = {i \in h..z : d[i].kind = "key"} /\ h \in 1..Len(d) /\ z \in h..Len(d)
<1>1. HeaderOf(d, s) = h
  BY HeaderFacts
<1>2. EndOf(d, s) = z
  BY EndFacts
<1> QED BY <1>1, <1>2 DEF KeyLines, IsHeader, IsEnd

LEMMA OptionsAre ==
  ASSUME NEW d \in Seq(Line), NEW s, HasSection(d, s), KeysOnce(d, s)
  PROVE  /\ OptionsOf(d, s) = [k \in DOMAIN OptionsOf(d, s) |-> OptionsOf(d, s)[k]]
         /\ DOMAIN OptionsOf(d, s) = {d[i].name : i \in KeyLines(d, s)}
         /\ \A i \in KeyLines(d, s) : OptionsOf(d, s)[d[i].name] = ItemsOf(Span(d, i))
<1>1. ASSUME NEW i \in KeyLines(d, s) PROVE KeyOf(d, s, d[i].name) = i
  <2> DEFINE T == KeysOf(d, s, d[i].name)
  <2>1. T = {i}
    BY DEF KeysOf, KeysOnce
  <2>2. i \in Nat
    <3>1. IsHeader(d, s, HeaderOf(d, s)) /\ IsEnd(d, HeaderOf(d, s), EndOf(d, s))
      BY HeaderFacts, EndFacts
    <3>2. HeaderOf(d, s) \in Nat
      BY <3>1 DEF IsHeader
    <3>3. EndOf(d, s) \in Nat
      BY <3>1, <3>2 DEF IsEnd
    <3> QED BY <3>2, <3>3 DEF KeyLines
  <2> HIDE DEF T
  <2>3. T \subseteq Nat /\ i \in T /\ \A y \in T : i <= y
    BY <2>1, <2>2
  <2>4. Min(T) = i
    BY <2>3, MinIs
  <2> QED BY <2>4 DEF KeyOf, T
<1> QED BY <1>1 DEF OptionsOf

LEMMA SpanIs ==
  ASSUME NEW d \in Seq(Line), NEW i \in 1..Len(d), NEW l, IsLast(d, i, l)
  PROVE  /\ Span(d, i) \in Seq(Line) /\ Len(Span(d, i)) = l - i + 1
         /\ \A j \in 1..(l - i + 1) : Span(d, i)[j] = d[i + j - 1]
<1>1. LastOf(d, i) = l
  BY LastFacts
<1>2. l \in i..Len(d)
  BY DEF IsLast
<1> QED BY <1>1, <1>2, SubSeqProperties DEF Span

LEMMA SpanCopied ==
  ASSUME NEW d \in Seq(Line), NEW e \in Seq(Line), NEW by \in Int,
         NEW i \in 1..Len(d), NEW l, IsLast(d, i, l), Past(e, l + by + 1),
         \A j \in i..l : j + by \in 1..Len(e) /\ e[j + by] = d[j]
  PROVE  Span(e, i + by) = Span(d, i)
<1>1. l \in i..Len(d) /\ Len(d) \in Nat /\ Len(e) \in Nat
  BY DEF IsLast
<1>2. i + by \in 1..Len(e) /\ l + by \in 1..Len(e)
  BY <1>1
<1>3. IsLast(e, i + by, l + by)
  <2>1. ASSUME NEW j \in (i + by + 1)..(l + by) PROVE Continues(e[j])
    <3>1. j - by \in (i + 1)..l /\ j - by \in i..l /\ (j - by) + by = j
      BY <1>1
    <3> QED BY <3>1 DEF IsLast
  <2>2. l + by = Len(e) \/ ~Continues(e[l + by + 1])
    BY <1>1, <1>2 DEF Past
  <2>3. l + by \in (i + by)..Len(e)
    BY <1>1, <1>2
  <2> QED BY <2>1, <2>2, <2>3 DEF IsLast
<1> DEFINE a == Span(d, i)
           b == Span(e, i + by)
<1>4. /\ a \in Seq(Line) /\ Len(a) = l - i + 1
      /\ \A j \in 1..(l - i + 1) : a[j] = d[i + j - 1]
  BY SpanIs
<1>5. /\ b \in Seq(Line) /\ Len(b) = (l + by) - (i + by) + 1
      /\ \A j \in 1..((l + by) - (i + by) + 1) : b[j] = e[(i + by) + j - 1]
  BY <1>2, <1>3, SpanIs
<1> HIDE DEF a, b
<1>6. Len(b) = Len(a)
  BY <1>1, <1>4, <1>5
<1>7. ASSUME NEW j \in 1..Len(a) PROVE b[j] = a[j]
  <2>1. i + j - 1 \in i..l /\ (i + by) + j - 1 = (i + j - 1) + by
        /\ j \in 1..((l + by) - (i + by) + 1)
    BY <1>1, <1>4
  <2> QED BY <1>4, <1>5, <2>1
<1>8. b = a
  BY <1>4, <1>5, <1>6, <1>7, SeqEqual
<1> QED BY <1>8 DEF a, b
\* A section that is copied as it is, with blank lines behind it, has the same options.
LEMMA SectionCopied ==
  ASSUME NEW d \in Seq(Line), NEW e \in Seq(Line), NEW s, NEW by \in Int, NEW h, NEW z, NEW y,
         IsHeader(d, s, h), IsEnd(d, h, z), KeysOnce(d, s),
         IsHeader(e, s, h + by), IsEnd(e, h + by, y), y >= z + by,
         \A i \in h..z : i + by \in 1..Len(e) /\ e[i + by] = d[i],
         \A i \in (z + by + 1)..y : e[i].kind = "blank"
  PROVE  KeysOnce(e, s) /\ OptionsOf(e, s) = OptionsOf(d, s)
<1>1. /\ KeyLines(d, s) = {i \in h..z : d[i].kind = "key"} /\ h \in 1..Len(d) /\ z \in h..Len(d)
      /\ KeyLines(e, s) = {i \in (h + by)..y : e[i].kind = "key"} /\ y \in (h + by)..Len(e)
      /\ Len(d) \in Nat /\ Len(e) \in Nat /\ h + by \in 1..Len(e)
  <2>1. KeyLines(d, s) = {i \in h..z : d[i].kind = "key"} /\ h \in 1..Len(d) /\ z \in h..Len(d)
    BY KeyLinesAre
  <2>2. ASSUME NEW k, k = h + by
        PROVE  /\ KeyLines(e, s) = {i \in k..y : e[i].kind = "key"} /\ k \in 1..Len(e)
               /\ y \in k..Len(e)
    <3>1. IsHeader(e, s, k) /\ IsEnd(e, k, y)
      BY <2>2
    <3> QED BY <3>1, KeyLinesAre
  <2> QED BY <2>1, <2>2, LinesOf
<1>2. ASSUME NEW i \in KeyLines(e, s)
      PROVE  i - by \in KeyLines(d, s) /\ e[i] = d[i - by] /\ (i - by) + by = i /\ i \in Int
  <2>1. i \in (h + by)..y /\ e[i].kind = "key"
    BY <1>1
  <2>2. i \notin (z + by + 1)..y
    BY <2>1
  <2>3. i - by \in h..z /\ (i - by) + by = i
    BY <1>1, <2>1, <2>2
  <2>4. e[i] = d[i - by]
    BY <2>3
  <2> QED BY <1>1, <2>1, <2>3, <2>4
<1>3. ASSUME NEW i \in KeyLines(d, s)
      PROVE  /\ i + by \in KeyLines(e, s) /\ e[i + by] = d[i]
             /\ Span(e, i + by) = Span(d, i)
  <2>1. i \in h..z /\ d[i].kind = "key" /\ i \in 1..Len(d)
    BY <1>1
  <2>2. e[i + by] = d[i] /\ i + by \in (h + by)..y
    BY <1>1, <2>1
  <2>3. PICK l : IsLast(d, i, l)
    BY <2>1, LastFacts
  <2>4. l \in i..z
    <3>1. l \in i..Len(d) /\ \A j \in (i + 1)..l : Continues(d[j])
      BY <2>3 DEF IsLast
    <3>2. ASSUME l > z PROVE FALSE
      <4>1. z + 1 \in (i + 1)..l /\ z # Len(d)
        BY <1>1, <2>1, <3>1, <3>2
      <4>2. d[z + 1].kind = "header"
        BY <4>1 DEF IsEnd
      <4> QED BY <3>1, <4>1, <4>2 DEF Continues
    <3> QED BY <1>1, <2>1, <3>1, <3>2
  <2>5. Past(e, l + by + 1)
    <3>1. CASE l < z
      <4>1. l + 1 \in h..z /\ (l + 1) + by = l + by + 1 /\ l # Len(d)
        BY <1>1, <2>1, <2>4, <3>1
      <4>2. ~Continues(d[l + 1]) /\ e[l + by + 1] = d[l + 1]
        BY <2>3, <4>1 DEF IsLast
      <4> QED BY <4>2 DEF Past
    <3>2. CASE l = z /\ z + by < y
      <4>1. l + by + 1 \in (z + by + 1)..y
        BY <1>1, <3>2
      <4> QED BY <4>1 DEF Past, Continues
    <3>3. CASE l = z /\ z + by = y
      <4>1. y = Len(e) \/ e[y + 1].kind = "header"
        BY DEF IsEnd
      <4>2. l + by + 1 = y + 1 /\ y \in Nat
        BY <1>1, <3>3
      <4> QED BY <1>1, <4>1, <4>2 DEF Past, Continues
    <3> QED BY <1>1, <2>4, <3>1, <3>2, <3>3
  <2>6. \A j \in i..l : j + by \in 1..Len(e) /\ e[j + by] = d[j]
    BY <1>1, <2>1, <2>4
  <2>7. Span(e, i + by) = Span(d, i)
    BY <2>1, <2>3, <2>5, <2>6, SpanCopied
  <2> QED BY <1>1, <2>1, <2>2, <2>7
<1>4. KeysOnce(e, s)
  <2> SUFFICES ASSUME NEW i \in KeyLines(e, s), NEW j \in KeyLines(e, s), e[i].name = e[j].name
               PROVE  i = j
    BY DEF KeysOnce
  <2>1. /\ i - by \in KeyLines(d, s) /\ j - by \in KeyLines(d, s)
        /\ d[i - by].name = d[j - by].name
    BY <1>2
  <2>2. i - by = j - by
    BY <2>1 DEF KeysOnce
  <2> QED BY <1>2, <2>2
<1>5. HasSection(d, s) /\ HasSection(e, s)
  BY HeaderFacts
<1> DEFINE f == OptionsOf(d, s)
           g == OptionsOf(e, s)
<1>6. /\ f = [k \in DOMAIN f |-> f[k]]
      /\ DOMAIN f = {d[i].name : i \in KeyLines(d, s)}
      /\ \A i \in KeyLines(d, s) : f[d[i].name] = ItemsOf(Span(d, i))
  BY <1>5, OptionsAre
<1>7. /\ g = [k \in DOMAIN g |-> g[k]]
      /\ DOMAIN g = {e[i].name : i \in KeyLines(e, s)}
      /\ \A i \in KeyLines(e, s) : g[e[i].name] = ItemsOf(Span(e, i))
  BY <1>4, <1>5, OptionsAre
<1> HIDE DEF f, g
<1>8. ASSUME NEW k \in DOMAIN f PROVE k \in DOMAIN g /\ g[k] = f[k]
  <2>1. PICK i \in KeyLines(d, s) : k = d[i].name
    BY <1>6
  <2>2. i + by \in KeyLines(e, s) /\ e[i + by].name = k
    BY <1>3, <2>1
  <2> QED BY <1>3, <1>6, <1>7, <2>1, <2>2
<1>9. ASSUME NEW k \in DOMAIN g PROVE k \in DOMAIN f
  BY <1>2, <1>6, <1>7
<1>10. g = f
  <2>1. DOMAIN g = DOMAIN f
    BY <1>8, <1>9
  <2>2. \A k \in DOMAIN g : g[k] = f[k]
    BY <1>8, <2>1
  <2> QED BY <1>6, <1>7, <2>1, <2>2
<1> QED BY <1>4, <1>10 DEF f, g

\* Lines p..q of d have made room for new; those behind them have moved.
Spliced(d, p, q, new, e, by) ==
  /\ p \in 1..(Len(d) + 1) /\ q \in (p - 1)..Len(d) /\ new \in Seq(Line)
  /\ by = Len(new) - (q - p + 1) /\ by \in Int /\ Len(new) \in Nat /\ Len(d) \in Nat
  /\ e \in Seq(Line) /\ Len(e) = Len(d) + by
  /\ \A i \in 1..(p - 1) : e[i] = d[i]
  /\ \A i \in 1..Len(new) : e[p + i - 1] = new[i]
  /\ \A i \in (q + 1)..Len(d) : e[i + by] = d[i]

LEMMA SpliceIs ==
  ASSUME NEW d \in Seq(Line), NEW new \in Seq(Line), NEW p \in 1..(Len(d) + 1),
         NEW q \in (p - 1)..Len(d), NEW by, by = Len(new) - (q - p + 1)
  PROVE  Spliced(d, p, q, new, Splice(d, p, q, new), by)
<1> DEFINE a == SubSeq(d, 1, p - 1)
           c == SubSeq(d, q + 1, Len(d))
           n == Len(d)
           m == Len(new)
<1>0. n \in Nat /\ m \in Nat /\ p \in 1..(n + 1) /\ q \in (p - 1)..n /\ by = m - (q - p + 1)
  OBVIOUS
<1>1. /\ a \in Seq(Line) /\ Len(a) = p - 1
      /\ \A i \in 1..(p - 1) : a[i] = d[i]
  <2>1. \A i \in 1..(p - 1) : d[i] \in Line
    OBVIOUS
  <2>2. /\ a \in Seq(Line) /\ Len(a) = IF 1 <= p - 1 THEN (p - 1) - 1 + 1 ELSE 0
        /\ \A i \in 1..((p - 1) - 1 + 1) : a[i] = d[1 + i - 1]
    BY <1>0, <2>1, SubSeqProperties
  <2> QED BY <1>0, <2>2
<1>2. /\ c \in Seq(Line) /\ Len(c) = n - q
      /\ \A i \in 1..(n - q) : c[i] = d[q + i]
  <2>1. \A i \in (q + 1)..n : d[i] \in Line
    OBVIOUS
  <2>2. /\ c \in Seq(Line) /\ Len(c) = IF q + 1 <= n THEN n - (q + 1) + 1 ELSE 0
        /\ \A i \in 1..(n - (q + 1) + 1) : c[i] = d[(q + 1) + i - 1]
    BY <1>0, <2>1, SubSeqProperties
  <2> QED BY <1>0, <2>2
<1> HIDE DEF a, c, n, m
<1> DEFINE b == a \o new
           e == b \o c
<1>3. /\ b \in Seq(Line) /\ Len(b) = (p - 1) + m
      /\ \A i \in 1..((p - 1) + m) : b[i] = IF i <= p - 1 THEN a[i] ELSE new[i - (p - 1)]
  <2>1. /\ b \in Seq(Line) /\ Len(b) = Len(a) + Len(new)
        /\ \A i \in 1..(Len(a) + Len(new)) : b[i] = IF i <= Len(a) THEN a[i] ELSE new[i - Len(a)]
    BY ZenonT(40), <1>1, ConcatProperties
  <2>2. Len(a) = p - 1 /\ Len(new) = m
    BY <1>1 DEF m
  <2> HIDE DEF b
  <2> QED BY <2>1, <2>2
<1> HIDE DEF b
<1>4. /\ e \in Seq(Line) /\ Len(e) = (p - 1) + m + (n - q)
      /\ \A i \in 1..((p - 1) + m + (n - q)) :
            e[i] = IF i <= (p - 1) + m THEN b[i] ELSE c[i - ((p - 1) + m)]
  <2>1. /\ e \in Seq(Line) /\ Len(e) = Len(b) + Len(c)
        /\ \A i \in 1..(Len(b) + Len(c)) : e[i] = IF i <= Len(b) THEN b[i] ELSE c[i - Len(b)]
    BY ZenonT(40), <1>2, <1>3, ConcatProperties
  <2>2. Len(b) = (p - 1) + m /\ Len(c) = n - q
    BY <1>2, <1>3
  <2> HIDE DEF e
  <2> QED BY <2>1, <2>2
<1> HIDE DEF e
<1>5. Splice(d, p, q, new) = e
  BY DEF Splice, e, b, a, c
<1>6. Len(e) = n + by /\ by \in Int
  <2>1. Len(e) = (p - 1) + m + (n - q)
    BY <1>4
  <2> QED BY <1>0, <2>1
<1>7. \A i \in 1..(p - 1) : e[i] = d[i]
  BY <1>0, <1>1, <1>3, <1>4
<1>8. ASSUME NEW i \in 1..m PROVE e[p + i - 1] = new[i]
  <2>1. /\ p + i - 1 \in 1..((p - 1) + m) /\ p + i - 1 \in 1..((p - 1) + m + (n - q))
        /\ p + i - 1 <= (p - 1) + m /\ ~(p + i - 1 <= p - 1) /\ p + i - 1 - (p - 1) = i
    BY <1>0
  <2>2. e[p + i - 1] = b[p + i - 1]
    BY <1>4, <2>1
  <2>3. b[p + i - 1] = new[p + i - 1 - (p - 1)]
    BY SMTT(40), <1>3, <2>1
  <2> QED BY <2>1, <2>2, <2>3
<1>9. ASSUME NEW i \in (q + 1)..n PROVE e[i + by] = d[i]
  <2> DEFINE j == i + by
  <2>1. /\ j \in 1..((p - 1) + m + (n - q)) /\ ~(j <= (p - 1) + m)
        /\ j - ((p - 1) + m) = i - q /\ i - q \in 1..(n - q) /\ q + (i - q) = i
    BY <1>0
  <2> HIDE DEF j
  <2>2. e[j] = c[j - ((p - 1) + m)]
    BY <1>4, <2>1
  <2>3. c[i - q] = d[q + (i - q)]
    BY <1>2, <2>1
  <2>4. e[j] = d[i]
    BY <2>1, <2>2, <2>3
  <2> QED BY <2>4 DEF j
<1> QED BY <1>0, <1>4, <1>5, <1>6, <1>7, <1>8, <1>9 DEF n, m, Spliced
LEMMA SplicedLines ==
  ASSUME NEW d \in Seq(Line), NEW p, NEW q, NEW new, NEW e, NEW by,
         Spliced(d, p, q, new, e, by), NEW j \in 1..Len(e)
  PROVE  \/ j \in 1..(p - 1) /\ j \in 1..Len(d) /\ e[j] = d[j]
         \/ j - p + 1 \in 1..Len(new) /\ e[j] = new[j - p + 1]
         \/ j - by \in (q + 1)..Len(d) /\ j - by \in 1..Len(d) /\ e[j] = d[j - by]
<1> DEFINE n == Len(d)
           m == Len(new)
<1>1. /\ n \in Nat /\ m \in Nat /\ p \in 1..(n + 1) /\ q \in (p - 1)..n /\ by = m - (q - p + 1)
      /\ by \in Int /\ j \in 1..(n + by)
  BY DEF Spliced
<1>2. /\ \A i \in 1..(p - 1) : e[i] = d[i]
      /\ \A i \in 1..m : e[p + i - 1] = new[i]
      /\ \A i \in (q + 1)..n : e[i + by] = d[i]
  BY DEF Spliced
<1> HIDE DEF n, m
<1>3. CASE j < p
  BY <1>1, <1>2, <1>3 DEF n
<1>4. CASE j >= p /\ j < p + m
  <2>1. j - p + 1 \in 1..m /\ p + (j - p + 1) - 1 = j
    BY <1>1, <1>4
  <2> QED BY <1>2, <2>1 DEF m
<1>5. CASE j >= p + m
  <2>1. j - by \in (q + 1)..n /\ j - by \in 1..n /\ (j - by) + by = j
    BY <1>1, <1>5
  <2> QED BY <1>2, <2>1 DEF n
<1> QED BY <1>1, <1>3, <1>4, <1>5

HeadersOnce(d) == \A i, j \in Headers(d) : d[i].name = d[j].name => i = j

LEMMA HeaderIs ==
  ASSUME NEW d \in Seq(Line), HeadersOnce(d), NEW h \in 1..Len(d), d[h].kind = "header"
  PROVE  IsHeader(d, d[h].name, h)
BY DEF HeadersOnce, Headers, IsHeader

\* Lines without a header make no section.
LEMMA SplicedHeaders ==
  ASSUME NEW d \in Seq(Line), NEW p, NEW q, NEW new, NEW e, NEW by, HeadersOnce(d),
         Spliced(d, p, q, new, e, by), \A i \in 1..Len(new) : new[i].kind # "header"
  PROVE  /\ HeadersOnce(e)
         /\ \A i \in Headers(e) : \E j \in Headers(d) \ (p..q) : d[j].name = e[i].name
         /\ \A i \in Headers(d) : i < p => IsHeader(e, d[i].name, i)
         /\ \A i \in Headers(d) : i > q => IsHeader(e, d[i].name, i + by)
<1>1. /\ Len(d) \in Nat /\ p \in 1..(Len(d) + 1) /\ q \in (p - 1)..Len(d) /\ by \in Int
      /\ Len(e) = Len(d) + by /\ by >= 0 - (q - p + 1) /\ e \in Seq(Line)
  BY DEF Spliced
<1>2. ASSUME NEW i \in Headers(e)
      PROVE  \/ i \in Headers(d) /\ i < p /\ e[i] = d[i]
             \/ i - by \in Headers(d) /\ i - by > q /\ e[i] = d[i - by]
  <2>1. i \in 1..Len(e) /\ e[i].kind = "header"
    BY DEF Headers
  <2>2. \/ i \in 1..(p - 1) /\ i \in 1..Len(d) /\ e[i] = d[i]
        \/ i - p + 1 \in 1..Len(new) /\ e[i] = new[i - p + 1]
        \/ i - by \in (q + 1)..Len(d) /\ i - by \in 1..Len(d) /\ e[i] = d[i - by]
    BY <2>1, SplicedLines
  <2>3. ~(i - p + 1 \in 1..Len(new) /\ e[i] = new[i - p + 1])
    BY <2>1
  <2>4. i \in 1..(p - 1) => i < p
    BY <1>1
  <2>5. i - by \in (q + 1)..Len(d) => i - by > q
    BY <1>1
  <2> QED BY <2>1, <2>2, <2>3, <2>4, <2>5 DEF Headers
<1>3. HeadersOnce(e)
  <2> SUFFICES ASSUME NEW i \in Headers(e), NEW j \in Headers(e), e[i].name = e[j].name
               PROVE  i = j
    BY DEF HeadersOnce
  <2>1. i \in Int /\ j \in Int
    BY DEF Headers
  <2>2. CASE i < p /\ i \in Headers(d) /\ e[i] = d[i]
    <3>1. CASE j < p /\ j \in Headers(d) /\ e[j] = d[j]
      BY <2>2, <3>1 DEF HeadersOnce
    <3>2. CASE j - by \in Headers(d) /\ j - by > q /\ e[j] = d[j - by]
      <4>1. i = j - by
        BY <2>2, <3>2 DEF HeadersOnce
      <4> QED BY <1>1, <2>1, <2>2, <3>2, <4>1
    <3> QED BY <1>2, <3>1, <3>2
  <2>3. CASE i - by \in Headers(d) /\ i - by > q /\ e[i] = d[i - by]
    <3>1. CASE j < p /\ j \in Headers(d) /\ e[j] = d[j]
      <4>1. j = i - by
        BY <2>3, <3>1 DEF HeadersOnce
      <4> QED BY <1>1, <2>1, <2>3, <3>1, <4>1
    <3>2. CASE j - by \in Headers(d) /\ j - by > q /\ e[j] = d[j - by]
      <4>1. j - by = i - by
        BY <2>3, <3>2 DEF HeadersOnce
      <4> QED BY <1>1, <2>1, <4>1
    <3> QED BY <1>2, <3>1, <3>2
  <2> QED BY <1>2, <2>2, <2>3
<1>4. ASSUME NEW i \in Headers(e) PROVE \E j \in Headers(d) \ (p..q) : d[j].name = e[i].name
  <2>1. CASE i < p /\ i \in Headers(d) /\ e[i] = d[i]
    BY <1>1, <2>1
  <2>2. CASE i - by \in Headers(d) /\ i - by > q /\ e[i] = d[i - by]
    BY <1>1, <2>2
  <2> QED BY <1>2, <2>1, <2>2
<1>5. ASSUME NEW i \in Headers(d), i < p PROVE IsHeader(e, d[i].name, i)
  <2>1. i \in 1..Len(d) /\ d[i].kind = "header"
    BY DEF Headers
  <2>2. i \in 1..(p - 1) /\ i \in 1..Len(e)
    BY <1>1, <1>5, <2>1 DEF Spliced
  <2>3. e[i] = d[i]
    BY <2>2 DEF Spliced
  <2> QED BY <1>1, <1>3, <2>1, <2>2, <2>3, HeaderIs
<1>6. ASSUME NEW i \in Headers(d), i > q PROVE IsHeader(e, d[i].name, i + by)
  <2>1. i \in 1..Len(d) /\ d[i].kind = "header"
    BY DEF Headers
  <2>2. i \in (q + 1)..Len(d) /\ i + by \in 1..Len(e)
    BY <1>1, <1>6, <2>1
  <2>3. e[i + by] = d[i]
    BY <2>2 DEF Spliced
  <2>4. e[i + by].kind = "header" /\ e[i + by].name = d[i].name
    BY <2>1, <2>3
  <2>5. IsHeader(e, e[i + by].name, i + by)
    BY <1>1, <1>3, <2>2, <2>4, HeaderIs
  <2> QED BY <2>4, <2>5
<1> QED BY <1>3, <1>4, <1>5, <1>6
\* A section that the edit is not about keeps its options: one behind the edit, one before
\* it, and one right before another that is taken out.
LEMMA SectionOutside ==
  ASSUME NEW d \in Seq(Line), NEW p, NEW q, NEW new, NEW e, NEW by, HeadersOnce(d),
         Spliced(d, p, q, new, e, by), \A i \in 1..Len(new) : new[i].kind # "header",
         NEW s, NEW h, NEW z, IsHeader(d, s, h), IsEnd(d, h, z), KeysOnce(d, s),
         \/ h > q
         \/ z + 1 < p
         \/ z + 1 = p /\ new = <<>> /\ (q = Len(d) \/ d[q + 1].kind = "header")
  PROVE  HasSection(e, s) /\ KeysOnce(e, s) /\ OptionsOf(e, s) = OptionsOf(d, s)
<1>1. /\ Len(d) \in Nat /\ p \in 1..(Len(d) + 1) /\ q \in (p - 1)..Len(d) /\ by \in Int
      /\ Len(e) = Len(d) + by /\ e \in Seq(Line) /\ Len(new) \in Nat
      /\ by = Len(new) - (q - p + 1)
  BY DEF Spliced
<1>2. /\ \A i \in 1..(p - 1) : e[i] = d[i]
      /\ \A i \in (q + 1)..Len(d) : e[i + by] = d[i]
  BY DEF Spliced
<1>3. /\ h \in Headers(d) /\ h \in 1..Len(d) /\ d[h].name = s /\ z \in h..Len(d)
      /\ \A j \in (h + 1)..z : d[j].kind # "header"
      /\ z = Len(d) \/ d[z + 1].kind = "header"
  BY DEF IsHeader, IsEnd, Headers
<1>4. CASE h > q
  <2>1. IsHeader(e, s, h + by)
    BY <1>3, <1>4, SplicedHeaders
  <2>2. ASSUME NEW i \in h..z PROVE i + by \in 1..Len(e) /\ e[i + by] = d[i]
    <3>1. i \in (q + 1)..Len(d) /\ i + by \in 1..(Len(d) + by)
      BY <1>1, <1>3, <1>4
    <3> QED BY <1>1, <1>2, <3>1
  <2>3. IsEnd(e, h + by, z + by)
    <3>1. z + by \in (h + by)..Len(e)
      BY <1>1, <1>3
    <3>2. ASSUME NEW j \in (h + by + 1)..(z + by) PROVE e[j].kind # "header"
      <4>1. j - by \in (h + 1)..z /\ j - by \in h..z /\ (j - by) + by = j
        BY SMTT(40), <1>1, <1>3
      <4>2. e[j] = d[j - by]
        BY <2>2, <4>1
      <4> QED BY <1>3, <4>1, <4>2
    <3>3. z + by = Len(e) \/ e[z + by + 1].kind = "header"
      <4>1. CASE z = Len(d)
        BY <1>1, <4>1
      <4>2. CASE z # Len(d)
        <5>1. z + 1 \in (q + 1)..Len(d) /\ (z + 1) + by = z + by + 1
          BY <1>1, <1>3, <1>4, <4>2
        <5>2. e[z + by + 1] = d[z + 1]
          BY <1>2, <5>1
        <5> QED BY <1>3, <4>2, <5>2
      <4> QED BY <4>1, <4>2
    <3> QED BY <3>1, <3>2, <3>3 DEF IsEnd
  <2>4. z + by \in Int /\ z + by >= z + by /\ (z + by + 1)..(z + by) = {}
    <3>1. z \in Int /\ by \in Int
      BY <1>1, <1>3
    <3> QED BY <3>1
  <2>5. KeysOnce(e, s) /\ OptionsOf(e, s) = OptionsOf(d, s)
    <3> DEFINE y == z + by
    <3>1. /\ IsEnd(e, h + by, y) /\ y >= z + by
          /\ \A i \in (z + by + 1)..y : e[i].kind = "blank"
      <4>1. (z + by + 1)..y = {}
        BY <2>4
      <4> QED BY <2>3, <2>4, <4>1
    <3> HIDE DEF y
    <3> QED BY <1>1, <2>1, <2>2, <3>1, SectionCopied
  <2> QED BY <1>1, <2>1, <2>5, HeaderFacts
<1>5. CASE ~(h > q)
  <2>0. h < p /\ z < p
    BY <1>1, <1>3, <1>5
  <2>1. IsHeader(e, s, h)
    BY <1>3, <2>0, SplicedHeaders
  <2>2. \A i \in h..z : i \in 1..(p - 1) /\ i \in 1..Len(e) /\ e[i] = d[i]
    BY <1>1, <1>2, <1>3, <2>0
  <2>3. z = Len(e) \/ e[z + 1].kind = "header"
    <3>1. CASE z + 1 < p
      <4>1. z + 1 \in 1..(p - 1) /\ z # Len(d)
        BY <1>1, <1>3, <3>1
      <4> QED BY <1>2, <1>3, <4>1
    <3>2. CASE z + 1 = p /\ new = <<>> /\ (q = Len(d) \/ d[q + 1].kind = "header")
      <4>1. Len(new) = 0
        BY <3>2
      <4>2. CASE q = Len(d)
        BY <1>1, <1>3, <3>2, <4>1, <4>2
      <4>3. CASE q # Len(d)
        <5>1. q + 1 \in (q + 1)..Len(d)
          BY <1>1, <3>2, <4>3
        <5>2. (q + 1) + by = z + 1
          BY <1>1, <1>3, <3>2, <4>1
        <5> QED BY <1>2, <3>2, <4>3, <5>1, <5>2
      <4> QED BY <4>2, <4>3
    <3> QED BY <1>5, <3>1, <3>2
  <2>4. IsEnd(e, h, z)
    <3>1. z \in h..Len(e) /\ \A j \in (h + 1)..z : e[j].kind # "header"
      <4>1. z \in h..z /\ z \in 1..Len(e) /\ \A j \in (h + 1)..z : j \in h..z
        BY <1>1, <1>3, <2>2
      <4>2. z \in h..Len(e)
        BY <1>1, <1>3, <4>1
      <4>3. ASSUME NEW j \in (h + 1)..z PROVE e[j].kind # "header"
        BY <1>3, <2>2, <4>1
      <4> QED BY <4>2, <4>3
    <3> QED BY <2>3, <3>1 DEF IsEnd
  <2>5. KeysOnce(e, s) /\ OptionsOf(e, s) = OptionsOf(d, s)
    <3>1. ASSUME NEW zero \in Int, zero = 0
          PROVE  /\ IsHeader(e, s, h + zero) /\ IsEnd(e, h + zero, z) /\ z >= z + zero
                 /\ \A i \in h..z : i + zero \in 1..Len(e) /\ e[i + zero] = d[i]
                 /\ \A i \in (z + zero + 1)..z : e[i].kind = "blank"
      <4>1. h + zero = h /\ z + zero = z /\ z \in Int /\ \A i \in h..z : i + zero = i
        <5>1. h \in Int /\ z \in Int
          BY <1>1, <1>3
        <5> QED BY <3>1, <5>1
      <4>2. (z + zero + 1)..z = {}
        BY <4>1
      <4> QED BY <2>1, <2>2, <2>4, <4>1, <4>2
    <3>2. ASSUME NEW zero \in Int, zero = 0
          PROVE  KeysOnce(e, s) /\ OptionsOf(e, s) = OptionsOf(d, s)
      <4>1. /\ IsHeader(e, s, h + zero) /\ IsEnd(e, h + zero, z) /\ z >= z + zero
            /\ \A i \in h..z : i + zero \in 1..Len(e) /\ e[i + zero] = d[i]
            /\ \A i \in (z + zero + 1)..z : e[i].kind = "blank"
        BY <3>1, <3>2
      <4>2. e \in Seq(Line)
        BY <1>1
      <4> QED BY <4>1, <4>2, SectionCopied
    <3> QED BY <3>2
  <2> QED BY <1>1, <2>1, <2>5, HeaderFacts
<1> QED BY <1>4, <1>5
\* Lines p..q, in the section of lines h..z, are an option k or make room for one.
InBody(d, h, z, k, p, q) ==
  /\ p \in (h + 1)..(z + 1) /\ q \in (p - 1)..z
  /\ Past(d, p) /\ Past(d, q + 1)
  /\ \A i \in p..q : d[i].kind = "key" => d[i].name = k
  /\ \A i \in h..z : d[i].kind = "key" /\ d[i].name = k => i \in p..q

\* An option k, or nothing.
OptionText(k, new) ==
  new # <<>> => /\ new[1].kind = "key" /\ new[1].name = k
                /\ \A i \in 2..Len(new) : Continues(new[i])

\* Options of which k is given another text, or taken away.
Changed(options, k, new) ==
  [j \in (DOMAIN options \ {k}) \cup (IF new = <<>> THEN {} ELSE {k}) |->
     IF j = k THEN ItemsOf(new) ELSE options[j]]

LEMMA PastTheEdit ==
  ASSUME NEW d \in Seq(Line), NEW p, NEW q, NEW new, NEW e, NEW by, NEW k,
         Spliced(d, p, q, new, e, by), Past(d, q + 1), OptionText(k, new)
  PROVE  Past(e, q + 1 + by) /\ Past(e, p)
<1>1. /\ Len(d) \in Nat /\ p \in 1..(Len(d) + 1) /\ q \in (p - 1)..Len(d) /\ by \in Int
      /\ Len(e) = Len(d) + by /\ Len(new) \in Nat /\ by = Len(new) - (q - p + 1)
  BY DEF Spliced
<1>2. Past(e, q + 1 + by)
  <2>1. CASE q = Len(d)
    <3>1. q + 1 + by > Len(e)
      BY <1>1, <2>1
    <3> QED BY <3>1 DEF Past
  <2>2. CASE q # Len(d)
    <3>1. q + 1 \in (q + 1)..Len(d) /\ ~(q + 1 > Len(d))
      BY <1>1, <2>2
    <3>2. e[q + 1 + by] = d[q + 1]
      BY <3>1 DEF Spliced
    <3> QED BY <3>1, <3>2 DEF Past
  <2> QED BY <2>1, <2>2
<1>3. CASE new = <<>>
  <2>1. q + 1 + by = p
    BY <1>1, <1>3
  <2> QED BY <1>2, <2>1
<1>4. CASE new # <<>>
  <2>1. Len(new) > 0
    BY <1>1, <1>4, EmptySeq DEF Spliced
  <2>2. 1 \in 1..Len(new) /\ p + 1 - 1 = p
    BY <1>1, <2>1
  <2>3. e[p + 1 - 1] = new[1]
    BY <2>2 DEF Spliced
  <2>4. e[p].kind = "key"
    BY <1>4, <2>2, <2>3 DEF OptionText
  <2> QED BY <1>2, <2>4 DEF Past, Continues
<1> QED BY <1>3, <1>4

\* Options before the edit, behind it, and the new one.
LEMMA SpansStay ==
  ASSUME NEW d \in Seq(Line), NEW p, NEW q, NEW new, NEW e, NEW by, NEW k,
         Spliced(d, p, q, new, e, by), Past(d, p), Past(d, q + 1), OptionText(k, new)
  PROVE  /\ \A i \in 1..(p - 1) : Span(e, i) = Span(d, i)
         /\ \A i \in (q + 1)..Len(d) : Span(e, i + by) = Span(d, i)
         /\ new # <<>> => Span(e, p) = new
<1>1. /\ Len(d) \in Nat /\ p \in 1..(Len(d) + 1) /\ q \in (p - 1)..Len(d) /\ by \in Int
      /\ Len(e) = Len(d) + by /\ Len(new) \in Nat /\ by = Len(new) - (q - p + 1)
      /\ e \in Seq(Line) /\ new \in Seq(Line)
  BY DEF Spliced
<1>2. /\ \A i \in 1..(p - 1) : e[i] = d[i]
      /\ \A i \in 1..Len(new) : e[p + i - 1] = new[i]
      /\ \A i \in (q + 1)..Len(d) : e[i + by] = d[i]
  BY DEF Spliced
<1>3. Past(e, q + 1 + by) /\ Past(e, p)
  BY PastTheEdit
<1>4. ASSUME NEW i \in 1..(p - 1) PROVE Span(e, i) = Span(d, i)
  <2>1. i \in 1..Len(d) /\ i \in Nat
    BY <1>1
  <2>2. PICK l : IsLast(d, i, l)
    BY <2>1, LastFacts
  <2>3. l \in i..Len(d) /\ l \in Nat
    BY <2>1, <2>2 DEF IsLast
  <2>4. l < p
    <3>1. ASSUME l >= p PROVE FALSE
      <4>1. p \in (i + 1)..l /\ ~(p > Len(d))
        BY <1>1, <2>3, <3>1
      <4> QED BY <2>2, <4>1 DEF IsLast, Past
    <3> QED BY <1>1, <2>3, <3>1
  <2>5. Past(e, l + 1)
    <3>1. CASE l + 1 = p
      BY <1>3, <3>1
    <3>2. CASE l + 1 # p
      <4>1. l + 1 \in 1..(p - 1) /\ l # Len(d)
        BY <1>1, <2>3, <2>4, <3>2
      <4>2. e[l + 1] = d[l + 1] /\ ~Continues(d[l + 1])
        BY <1>2, <2>2, <4>1 DEF IsLast
      <4> QED BY <4>2 DEF Past
    <3> QED BY <3>1, <3>2
  <2>6. ASSUME NEW zero \in Int, zero = 0 PROVE Span(e, i + zero) = Span(d, i)
    <3>1. l + zero + 1 = l + 1 /\ \A j \in i..l : j + zero = j
      BY <2>3, <2>6
    <3>2. Past(e, l + zero + 1)
      BY <2>5, <3>1
    <3>3. ASSUME NEW j \in i..l PROVE j + zero \in 1..Len(e) /\ e[j + zero] = d[j]
      <4>1. j \in 1..(p - 1) /\ j \in 1..Len(e) /\ j + zero = j
        BY <1>1, <2>3, <2>4, <3>1
      <4> QED BY <1>2, <4>1
    <3> QED BY <1>1, <2>1, <2>2, <3>2, <3>3, SpanCopied
  <2>7. i + 0 = i
    BY <2>1
  <2> QED BY <2>6, <2>7
<1>5. ASSUME NEW i \in (q + 1)..Len(d) PROVE Span(e, i + by) = Span(d, i)
  <2>1. i \in 1..Len(d)
    BY <1>1
  <2>2. PICK l : IsLast(d, i, l)
    BY <2>1, LastFacts
  <2>3. l \in i..Len(d) /\ l \in Nat
    BY <2>1, <2>2 DEF IsLast
  <2>4. Past(e, l + by + 1)
    <3>1. CASE l = Len(d)
      <4>1. l + by + 1 > Len(e)
        BY <1>1, <3>1
      <4> QED BY <4>1 DEF Past
    <3>2. CASE l # Len(d)
      <4>1. l + 1 \in (q + 1)..Len(d) /\ (l + 1) + by = l + by + 1
        BY <1>1, <2>3, <3>2
      <4>2. e[l + by + 1] = d[l + 1] /\ ~Continues(d[l + 1])
        BY <1>2, <2>2, <3>2, <4>1 DEF IsLast
      <4> QED BY <4>2 DEF Past
    <3> QED BY <3>1, <3>2
  <2>5. ASSUME NEW j \in i..l PROVE j + by \in 1..Len(e) /\ e[j + by] = d[j]
    <3>1. j \in (q + 1)..Len(d) /\ j + by \in 1..(Len(d) + by)
      BY <1>1, <2>3
    <3> QED BY <1>1, <1>2, <3>1
  <2> QED BY SMTT(40), <1>1, <2>1, <2>2, <2>4, <2>5, SpanCopied
<1>6. ASSUME new # <<>> PROVE Span(e, p) = new
  <2>1. Len(new) > 0
    BY <1>1, <1>6, EmptySeq
  <2> DEFINE m == Len(new)
             l == p + m - 1
  <2>2. m \in Nat /\ m > 0 /\ p \in 1..Len(e) /\ l \in p..Len(e) /\ l + 1 = q + 1 + by
        /\ l - p + 1 = m /\ l \in Int
    BY <1>1, <2>1
  <2> HIDE DEF m, l
  <2>3. IsLast(e, p, l)
    <3>1. ASSUME NEW j \in (p + 1)..l PROVE Continues(e[j])
      <4>1. j - p + 1 \in 2..m /\ j - p + 1 \in 1..m /\ p + (j - p + 1) - 1 = j
        BY <1>1, <2>2
      <4>2. e[j] = new[j - p + 1]
        BY <1>2, <4>1 DEF m
      <4>3. Continues(new[j - p + 1])
        BY <1>6, <4>1 DEF OptionText, m
      <4> QED BY <4>2, <4>3
    <3>2. l = Len(e) \/ ~Continues(e[l + 1])
      <4>1. Past(e, l + 1)
        BY <1>3, <2>2
      <4>2. l + 1 > Len(e) => l = Len(e)
        <5>1. Len(e) \in Nat /\ l \in Int /\ l <= Len(e)
          BY <1>1, <2>2
        <5> QED BY <5>1
      <4> QED BY <4>1, <4>2 DEF Past
    <3> QED BY <2>2, <3>1, <3>2 DEF IsLast
  <2> DEFINE b == Span(e, p)
  <2>4. b \in Seq(Line) /\ Len(b) = l - p + 1 /\ \A j \in 1..(l - p + 1) : b[j] = e[p + j - 1]
    BY <1>1, <2>2, <2>3, SpanIs
  <2> HIDE DEF b
  <2>5. Len(b) = Len(new)
    BY <2>2, <2>4 DEF m
  <2>6. ASSUME NEW j \in 1..Len(b) PROVE b[j] = new[j]
    <3>1. j \in 1..(l - p + 1) /\ j \in 1..Len(new)
      BY <2>4, <2>5
    <3> QED BY <1>2, <2>4, <3>1
  <2>7. b = new
    BY <1>1, <2>4, <2>5, <2>6, SeqEqual
  <2> QED BY <2>7 DEF b
<1> QED BY <1>4, <1>5, <1>6
\* The section that the edit is about has the new option, or has lost it, and keeps the rest.
LEMMA SectionInside ==
  ASSUME NEW d \in Seq(Line), NEW p, NEW q, NEW new, NEW e, NEW by, NEW s, NEW h, NEW z, NEW k,
         HeadersOnce(d), Spliced(d, p, q, new, e, by), IsHeader(d, s, h), IsEnd(d, h, z),
         KeysOnce(d, s), InBody(d, h, z, k, p, q), OptionText(k, new)
  PROVE  /\ HasSection(e, s) /\ KeysOnce(e, s)
         /\ OptionsOf(e, s) = Changed(OptionsOf(d, s), k, new)
<1>1. /\ Len(d) \in Nat /\ p \in 1..(Len(d) + 1) /\ q \in (p - 1)..Len(d) /\ by \in Int
      /\ Len(e) = Len(d) + by /\ Len(new) \in Nat /\ by = Len(new) - (q - p + 1)
      /\ e \in Seq(Line) /\ new \in Seq(Line)
  BY DEF Spliced
<1>2. /\ \A i \in 1..(p - 1) : e[i] = d[i]
      /\ \A i \in 1..Len(new) : e[p + i - 1] = new[i]
      /\ \A i \in (q + 1)..Len(d) : e[i + by] = d[i]
  BY DEF Spliced
<1>3. /\ KeyLines(d, s) = {i \in h..z : d[i].kind = "key"} /\ h \in 1..Len(d) /\ z \in h..Len(d)
      /\ p \in (h + 1)..(z + 1) /\ q \in (p - 1)..z
  BY KeyLinesAre DEF InBody
<1>4. ASSUME NEW i \in 1..Len(new)
      PROVE  new[i].kind # "header" /\ (new[i].kind = "key" => i = 1)
  <2>1. new # <<>>
    BY EmptySeq, <1>1
  <2>2. CASE i = 1
    BY <2>1, <2>2 DEF OptionText
  <2>3. CASE i # 1
    <3>1. i \in 2..Len(new)
      BY <1>1, <2>3
    <3> QED BY <2>1, <3>1 DEF OptionText, Continues
  <2> QED BY <2>2, <2>3
<1>5. /\ h \in Headers(d) /\ d[h].name = s /\ h < p
      /\ \A j \in (h + 1)..z : d[j].kind # "header"
      /\ z = Len(d) \/ d[z + 1].kind = "header"
  BY <1>3 DEF IsHeader, IsEnd, Headers
<1>6. IsHeader(e, s, h)
  BY <1>4, <1>5, SplicedHeaders
<1> DEFINE y == z + by
<1>7. y \in h..Len(e) /\ y \in Int /\ y = z + by
  BY <1>1, <1>3
<1>8. ASSUME NEW j \in h..y
      PROVE  \/ j < p /\ j \in h..z /\ e[j] = d[j]
             \/ j >= p /\ j - p + 1 \in 1..Len(new) /\ e[j] = new[j - p + 1]
             \/ j - by > q /\ j - by \in h..z /\ e[j] = d[j - by]
  <2>1. j \in 1..Len(e) /\ j \in Int
    <3>1. h \in Nat /\ h >= 1 /\ Len(e) \in Nat /\ y \in Int /\ y <= Len(e)
      BY <1>1, <1>3, <1>7
    <3> HIDE DEF y
    <3> QED BY <3>1
  <2>2. CASE j \in 1..(p - 1) /\ j \in 1..Len(d) /\ e[j] = d[j]
    BY <1>1, <1>3, <2>2
  <2>3. CASE j - p + 1 \in 1..Len(new) /\ e[j] = new[j - p + 1]
    BY <1>1, <2>1, <2>3
  <2>4. CASE j - by \in (q + 1)..Len(d) /\ j - by \in 1..Len(d) /\ e[j] = d[j - by]
    <3>1. j - by > q /\ j - by \in h..z
      <4>1. h \in Int /\ z \in Int /\ q \in Int /\ by \in Int /\ h <= q + 1 /\ j <= z + by
        BY SMTT(40), <1>1, <1>3, <1>7, <2>1
      <4>2. j - by >= q + 1
        BY <1>1, <2>4
      <4> QED BY <2>1, <4>1, <4>2
    <3> QED BY <2>4, <3>1
  <2> QED BY <2>1, <2>2, <2>3, <2>4, SplicedLines
<1> HIDE DEF y
<1>9. IsEnd(e, h, y)
  <2>1. ASSUME NEW j \in (h + 1)..y PROVE e[j].kind # "header"
    <3>1. j \in h..y /\ j \in Int
      BY <1>1, <1>3, <1>7
    <3>2. CASE j < p /\ j \in h..z /\ e[j] = d[j]
      <4>1. j \in (h + 1)..z
        BY <1>3, <3>1, <3>2
      <4> QED BY <1>5, <3>2, <4>1
    <3>3. CASE j >= p /\ j - p + 1 \in 1..Len(new) /\ e[j] = new[j - p + 1]
      BY <1>4, <3>3
    <3>4. CASE j - by > q /\ j - by \in h..z /\ e[j] = d[j - by]
      <4>1. j - by \in (h + 1)..z
        BY <1>1, <1>3, <3>1, <3>4
      <4> QED BY <1>5, <3>4, <4>1
    <3> QED BY <1>8, <3>1, <3>2, <3>3, <3>4
  <2>2. y = Len(e) \/ e[y + 1].kind = "header"
    <3>1. CASE z = Len(d)
      BY <1>1, <1>7, <3>1
    <3>2. CASE z # Len(d)
      <4>1. z + 1 \in (q + 1)..Len(d) /\ (z + 1) + by = y + 1
        BY <1>1, <1>3, <1>7, <3>2
      <4>2. e[y + 1] = d[z + 1]
        BY <1>2, <4>1
      <4> QED BY <1>5, <3>2, <4>2
    <3> QED BY <3>1, <3>2
  <2> QED BY <1>7, <2>1, <2>2 DEF IsEnd
<1>10. KeyLines(e, s) = {i \in h..y : e[i].kind = "key"}
  <2>1. e \in Seq(Line)
    BY <1>1
  <2> QED BY <2>1, <1>6, <1>9, KeyLinesAre
<1>11. ASSUME NEW i \in h..z, d[i].kind = "key" PROVE d[i].name = k <=> i \in p..q
  <2>1. i \in p..q => d[i].name = k
    BY <1>11 DEF InBody
  <2> QED BY <1>11, <2>1 DEF InBody
\* Keys of e are keys of d but k, and k.
<1>12. ASSUME NEW j \in KeyLines(e, s)
       PROVE  \/ j < p /\ j \in KeyLines(d, s) /\ e[j] = d[j] /\ d[j].name # k
              \/ j = p /\ new # <<>> /\ e[j].name = k
              \/ /\ j - by > q /\ j - by \in KeyLines(d, s) /\ e[j] = d[j - by]
                 /\ d[j - by].name # k
  <2>1. j \in h..y /\ e[j].kind = "key" /\ j \in Int
    BY <1>3, <1>7, <1>10
  <2>2. CASE j < p /\ j \in h..z /\ e[j] = d[j]
    <3>1. j \notin p..q
      BY <1>1, <1>3, <2>1, <2>2
    <3> QED BY <1>3, <1>11, <2>1, <2>2, <3>1
  <2>3. CASE j >= p /\ j - p + 1 \in 1..Len(new) /\ e[j] = new[j - p + 1]
    <3>1. j - p + 1 = 1
      BY <1>4, <2>1, <2>3
    <3>2. j = p
      BY <1>1, <2>1, <3>1
    <3>3. new # <<>>
      BY <1>1, <2>3, EmptySeq
    <3> QED BY <2>3, <3>1, <3>2, <3>3 DEF OptionText
  <2>4. CASE j - by > q /\ j - by \in h..z /\ e[j] = d[j - by]
    <3>1. j - by \notin p..q
      BY <1>1, <1>3, <2>1, <2>4
    <3> QED BY <1>3, <1>11, <2>1, <2>4, <3>1
  <2> QED BY <1>8, <2>1, <2>2, <2>3, <2>4
<1>13. ASSUME NEW i \in KeyLines(d, s), d[i].name # k
       PROVE  \/ i \in 1..(p - 1) /\ i \in KeyLines(e, s) /\ e[i].name = d[i].name
              \/ /\ i \in (q + 1)..Len(d) /\ i + by \in KeyLines(e, s)
                 /\ e[i + by].name = d[i].name
  <2>1. i \in h..z /\ d[i].kind = "key" /\ i \in Int
    BY <1>1, <1>3
  <2>2. i \notin p..q
    BY <1>11, <1>13, <2>1
  <2>3. CASE i < p
    <3>1. i \in 1..(p - 1) /\ i \in h..y
      BY <1>1, <1>3, <1>7, <2>1, <2>3
    <3>2. e[i] = d[i]
      BY <1>2, <3>1
    <3> QED BY <1>10, <2>1, <3>1, <3>2
  <2>4. CASE i > q
    <3>1. i \in (q + 1)..Len(d) /\ i + by \in h..y
      BY <1>1, <1>3, <1>7, <2>1, <2>4
    <3>2. e[i + by] = d[i]
      BY <1>2, <3>1
    <3> QED BY <1>10, <2>1, <3>1, <3>2
  <2> QED BY <1>1, <2>1, <2>2, <2>3, <2>4
<1>14. ASSUME new # <<>> PROVE p \in KeyLines(e, s) /\ e[p].name = k
  <2>1. Len(new) > 0
    BY <1>1, <1>14, EmptySeq
  <2>2. 1 \in 1..Len(new) /\ p + 1 - 1 = p /\ p \in h..y
    BY <1>1, <1>3, <1>7, <2>1
  <2>3. e[p] = new[1]
    <3>1. e[p + 1 - 1] = new[1]
      BY <1>2, <2>2
    <3> QED BY <2>2, <3>1
  <2> QED BY <1>10, <1>14, <2>2, <2>3 DEF OptionText
<1>15. KeysOnce(e, s)
  <2> SUFFICES ASSUME NEW i \in KeyLines(e, s), NEW j \in KeyLines(e, s), e[i].name = e[j].name
               PROVE  i = j
    BY DEF KeysOnce
  <2>0. i \in Int /\ j \in Int
    BY <1>3, <1>7, <1>10
  <2>1. CASE i < p /\ i \in KeyLines(d, s) /\ e[i] = d[i] /\ d[i].name # k
    <3>1. CASE j < p /\ j \in KeyLines(d, s) /\ e[j] = d[j]
      BY <2>1, <3>1 DEF KeysOnce
    <3>2. CASE j - by > q /\ j - by \in KeyLines(d, s) /\ e[j] = d[j - by]
      <4>1. i = j - by
        BY <2>1, <3>2 DEF KeysOnce
      <4> QED BY <1>1, <2>0, <2>1, <3>2, <4>1
    <3> QED BY <1>12, <2>1, <3>1, <3>2
  <2>2. CASE i = p /\ new # <<>> /\ e[i].name = k
    BY <1>12, <2>2
  <2>3. CASE /\ i - by > q /\ i - by \in KeyLines(d, s) /\ e[i] = d[i - by]
             /\ d[i - by].name # k
    <3>1. CASE j < p /\ j \in KeyLines(d, s) /\ e[j] = d[j]
      <4>1. j = i - by
        BY <2>3, <3>1 DEF KeysOnce
      <4> QED BY <1>1, <2>0, <2>3, <3>1, <4>1
    <3>2. CASE j - by > q /\ j - by \in KeyLines(d, s) /\ e[j] = d[j - by]
      <4>1. i - by = j - by
        BY <2>3, <3>2 DEF KeysOnce
      <4> QED BY <1>1, <2>0, <4>1
    <3> QED BY <1>12, <2>3, <3>1, <3>2
  <2> QED BY <1>12, <2>1, <2>2, <2>3
<1>16. HasSection(d, s) /\ HasSection(e, s)
  BY <1>1, <1>6, HeaderFacts
<1>17. /\ \A i \in 1..(p - 1) : Span(e, i) = Span(d, i)
       /\ \A i \in (q + 1)..Len(d) : Span(e, i + by) = Span(d, i)
       /\ new # <<>> => Span(e, p) = new
  BY SpansStay DEF InBody
<1> DEFINE f == OptionsOf(d, s)
           g == OptionsOf(e, s)
<1>18. /\ DOMAIN f = {d[i].name : i \in KeyLines(d, s)}
       /\ \A i \in KeyLines(d, s) : f[d[i].name] = ItemsOf(Span(d, i))
  BY <1>16, OptionsAre
<1>19. /\ g = [j \in DOMAIN g |-> g[j]]
       /\ DOMAIN g = {e[i].name : i \in KeyLines(e, s)}
       /\ \A i \in KeyLines(e, s) : g[e[i].name] = ItemsOf(Span(e, i))
  BY <1>1, <1>15, <1>16, OptionsAre
<1> HIDE DEF f, g
<1>20. ASSUME NEW j \in DOMAIN f, j # k PROVE j \in DOMAIN g /\ g[j] = f[j]
  <2>1. PICK i \in KeyLines(d, s) : j = d[i].name
    BY <1>18
  <2>2. CASE i \in 1..(p - 1) /\ i \in KeyLines(e, s) /\ e[i].name = d[i].name
    BY <1>17, <1>18, <1>19, <2>1, <2>2
  <2>3. CASE /\ i \in (q + 1)..Len(d) /\ i + by \in KeyLines(e, s)
             /\ e[i + by].name = d[i].name
    BY <1>17, <1>18, <1>19, <2>1, <2>3
  <2> QED BY <1>13, <1>20, <2>1, <2>2, <2>3
<1>21. ASSUME NEW j \in DOMAIN g, j # k PROVE j \in DOMAIN f
  BY <1>12, <1>18, <1>19, <1>21
<1>22. new # <<>> => k \in DOMAIN g /\ g[k] = ItemsOf(new)
  BY <1>14, <1>17, <1>19
<1>23. k \in DOMAIN g => new # <<>>
  BY <1>12, <1>19
<1>24. DOMAIN g = (DOMAIN f \ {k}) \cup (IF new = <<>> THEN {} ELSE {k})
  BY <1>20, <1>21, <1>22, <1>23
<1>25. ASSUME NEW j \in DOMAIN g PROVE g[j] = IF j = k THEN ItemsOf(new) ELSE f[j]
  BY <1>20, <1>21, <1>22, <1>23
<1>26. g = Changed(f, k, new)
  BY <1>19, <1>24, <1>25 DEF Changed
<1> QED BY <1>15, <1>16, <1>26 DEF f, g
-----------------------------------------------------------------------------
(* Documents in which nothing is there twice, and what the edits make of them. *)

Unique(d) == HeadersOnce(d) /\ \A i \in Headers(d) : KeysOnce(d, d[i].name)

LEMMA SectionIs ==
  ASSUME NEW d \in Seq(Line), NEW s, HasSection(d, s)
  PROVE  /\ IsHeader(d, s, HeaderOf(d, s)) /\ IsEnd(d, HeaderOf(d, s), EndOf(d, s))
         /\ HeaderOf(d, s) \in Headers(d) /\ d[HeaderOf(d, s)].name = s
         /\ Unique(d) => KeysOnce(d, s)
<1>1. IsHeader(d, s, HeaderOf(d, s))
  BY HeaderFacts
<1>2. HeaderOf(d, s) \in Headers(d) /\ d[HeaderOf(d, s)].name = s
  BY <1>1 DEF IsHeader, Headers
<1> QED BY <1>1, <1>2, EndFacts DEF Unique

LEMMA ParsedIs ==
  ASSUME NEW d \in Seq(Line)
  PROVE  /\ Parsed(d) = [s \in DOMAIN Parsed(d) |-> Parsed(d)[s]]
         /\ \A s : s \in DOMAIN Parsed(d) <=> HasSection(d, s)
         /\ \A s : HasSection(d, s) => Parsed(d)[s] = OptionsOf(d, s)
<1>1. ASSUME NEW s PROVE s \in {d[i].name : i \in Headers(d)} <=> HasSection(d, s)
  <2>1. s \in {d[i].name : i \in Headers(d)} <=> Are(d, "header", s) # {}
    BY DEF Headers, Are
  <2> QED BY <2>1 DEF HasSection
<1> QED BY <1>1 DEF Parsed

\* A section lies before or behind another one.
LEMMA SectionsApart ==
  ASSUME NEW d \in Seq(Line), NEW s, NEW r, s # r, NEW h, NEW z, NEW g, NEW y,
         IsHeader(d, s, h), IsEnd(d, h, z), IsHeader(d, r, g), IsEnd(d, g, y)
  PROVE  g > z \/ y < h
<1>1. /\ h \in 1..Len(d) /\ z \in h..Len(d) /\ g \in 1..Len(d) /\ y \in g..Len(d) /\ Len(d) \in Nat
      /\ d[h].kind = "header" /\ d[g].kind = "header" /\ d[h].name = s /\ d[g].name = r
  BY DEF IsHeader, IsEnd
<1>2. g \notin (h + 1)..z /\ h \notin (g + 1)..y
  BY <1>1 DEF IsEnd
<1>3. g # h
  BY <1>1
<1> QED BY <1>1, <1>2, <1>3

LEMMA BodyEdited ==
  ASSUME NEW d \in Seq(Line), Unique(d), NEW s, HasSection(d, s), NEW k, NEW p, NEW q,
         InBody(d, HeaderOf(d, s), EndOf(d, s), k, p, q),
         NEW new \in Seq(Line), OptionText(k, new), NEW e, e = Splice(d, p, q, new)
  PROVE  /\ e \in Seq(Line) /\ Unique(e)
         /\ Parsed(e) =
              [r \in DOMAIN Parsed(d) |->
                 IF r = s THEN Changed(Parsed(d)[s], k, new) ELSE Parsed(d)[r]]
<1> DEFINE h == HeaderOf(d, s)
           z == EndOf(d, s)
<1>1. IsHeader(d, s, h) /\ IsEnd(d, h, z) /\ KeysOnce(d, s) /\ HeadersOnce(d)
  BY SectionIs DEF Unique
<1>2. /\ h \in 1..Len(d) /\ z \in h..Len(d) /\ Len(d) \in Nat
      /\ p \in (h + 1)..(z + 1) /\ q \in (p - 1)..z
  BY <1>1 DEF IsHeader, IsEnd, InBody
<1>0. InBody(d, h, z, k, p, q)
  OBVIOUS
<1> HIDE DEF h, z
<1>3. PICK by : Spliced(d, p, q, new, e, by)
  <2>1. p \in 1..(Len(d) + 1) /\ q \in (p - 1)..Len(d)
    BY <1>2
  <2> QED BY <2>1, SpliceIs
<1>4. e \in Seq(Line)
  BY <1>3 DEF Spliced
<1>5. \A i \in 1..Len(new) : new[i].kind # "header"
  <2> SUFFICES ASSUME NEW i \in 1..Len(new) PROVE new[i].kind # "header"
    OBVIOUS
  <2>1. new # <<>> /\ Len(new) \in Nat
    BY EmptySeq
  <2>2. CASE i = 1
    BY <2>1, <2>2 DEF OptionText
  <2>3. CASE i # 1
    <3>1. i \in 2..Len(new)
      BY <2>1, <2>3
    <3> QED BY <2>1, <3>1 DEF OptionText, Continues
  <2> QED BY <2>2, <2>3
<1>6. /\ HeadersOnce(e)
      /\ \A i \in Headers(e) : \E j \in Headers(d) \ (p..q) : d[j].name = e[i].name
  BY <1>1, <1>3, <1>5, SplicedHeaders
<1> DEFINE New == Changed(OptionsOf(d, s), k, new)
<1>7. HasSection(e, s) /\ KeysOnce(e, s) /\ OptionsOf(e, s) = New
  BY <1>0, <1>1, <1>3, SectionInside
<1> HIDE DEF New
<1>8. ASSUME NEW r, r # s, HasSection(d, r)
      PROVE  HasSection(e, r) /\ KeysOnce(e, r) /\ OptionsOf(e, r) = OptionsOf(d, r)
  <2> DEFINE g == HeaderOf(d, r)
             y == EndOf(d, r)
  <2>1. IsHeader(d, r, g) /\ IsEnd(d, g, y) /\ KeysOnce(d, r)
    BY <1>8, SectionIs
  <2> HIDE DEF g, y
  <2>2. g > z \/ y < h
    BY <1>1, <1>8, <2>1, SectionsApart
  <2>3. g \in 1..Len(d) /\ y \in g..Len(d)
    BY <2>1 DEF IsHeader, IsEnd
  <2>4. g > q \/ y + 1 < p
    BY <1>2, <2>2, <2>3
  <2> QED BY <1>1, <1>3, <1>5, <2>1, <2>4, SectionOutside
<1>9. ASSUME NEW r, HasSection(e, r) PROVE HasSection(d, r)
  <2>1. PICK i \in Headers(e) : e[i].name = r
    BY <1>4, <1>9, SectionIs
  <2>2. PICK j \in Headers(d) : d[j].name = r
    BY <1>6, <2>1
  <2> QED BY <2>2 DEF HasSection, Are, Headers
<1>10. Unique(e)
  <2> SUFFICES ASSUME NEW i \in Headers(e) PROVE KeysOnce(e, e[i].name)
    BY <1>6 DEF Unique
  <2>1. HasSection(e, e[i].name)
    BY DEF HasSection, Are, Headers
  <2> QED BY <1>7, <1>8, <1>9, <2>1
<1> DEFINE P == Parsed(d)
           Q == Parsed(e)
<1>11. /\ P = [r \in DOMAIN P |-> P[r]] /\ (\A r : r \in DOMAIN P <=> HasSection(d, r))
       /\ \A r : HasSection(d, r) => P[r] = OptionsOf(d, r)
  BY ParsedIs
<1>12. /\ Q = [r \in DOMAIN Q |-> Q[r]] /\ (\A r : r \in DOMAIN Q <=> HasSection(e, r))
       /\ \A r : HasSection(e, r) => Q[r] = OptionsOf(e, r)
  BY <1>4, ParsedIs
<1> HIDE DEF P, Q
<1>13. \A r : r \in DOMAIN Q <=> r \in DOMAIN P
  BY <1>7, <1>8, <1>9, <1>11, <1>12
<1>14. \A r \in DOMAIN Q : Q[r] = IF r = s THEN New ELSE P[r]
  BY <1>7, <1>8, <1>11, <1>12, <1>13
<1>15. Q = [r \in DOMAIN P |-> IF r = s THEN New ELSE P[r]]
  <2>1. DOMAIN Q = DOMAIN P
    BY <1>13
  <2> QED BY <1>12, <1>14, <2>1
<1>16. P[s] = OptionsOf(d, s)
  BY <1>11
<1> QED BY <1>4, <1>10, <1>15, <1>16 DEF P, Q, New

LEMMA SectionTaken ==
  ASSUME NEW d \in Seq(Line), Unique(d), NEW s
  PROVE  LET e == SectionRemoved(d, s)
         IN  /\ e \in Seq(Line) /\ Unique(e)
             /\ Parsed(e) = [r \in DOMAIN Parsed(d) \ {s} |-> Parsed(d)[r]]
<1>1. CASE ~HasSection(d, s)
  <2>1. SectionRemoved(d, s) = d /\ s \notin DOMAIN Parsed(d)
    BY <1>1, ParsedIs DEF SectionRemoved
  <2>2. DOMAIN Parsed(d) \ {s} = DOMAIN Parsed(d)
    BY <2>1
  <2> QED BY <2>1, <2>2, ParsedIs
<1>2. CASE HasSection(d, s)
  <2> DEFINE h == HeaderOf(d, s)
             z == EndOf(d, s)
             e == SectionRemoved(d, s)
  <2>1. IsHeader(d, s, h) /\ IsEnd(d, h, z) /\ HeadersOnce(d)
    BY <1>2, SectionIs DEF Unique
  <2>2. /\ h \in 1..Len(d) /\ z \in h..Len(d) /\ Len(d) \in Nat
        /\ z = Len(d) \/ d[z + 1].kind = "header"
    BY <2>1 DEF IsHeader, IsEnd
  <2>3. e = Splice(d, h, z, <<>>)
    BY <1>2 DEF SectionRemoved
  <2> HIDE DEF h, z, e
  <2>4. PICK by : Spliced(d, h, z, <<>>, e, by)
    <3>1. h \in 1..(Len(d) + 1) /\ z \in (h - 1)..Len(d) /\ <<>> \in Seq(Line)
      BY <2>2
    <3> QED BY <2>3, <3>1, SpliceIs
  <2>5. e \in Seq(Line)
    BY <2>4 DEF Spliced
  <2>6. \A i \in 1..Len(<<>>) : <<>>[i].kind # "header"
    OBVIOUS
  <2>7. /\ HeadersOnce(e)
        /\ \A i \in Headers(e) : \E j \in Headers(d) \ (h..z) : d[j].name = e[i].name
    BY <2>1, <2>4, <2>6, SplicedHeaders
  <2>8. ASSUME NEW r, r # s, HasSection(d, r)
        PROVE  HasSection(e, r) /\ KeysOnce(e, r) /\ OptionsOf(e, r) = OptionsOf(d, r)
    <3> DEFINE g == HeaderOf(d, r)
               y == EndOf(d, r)
    <3>1. IsHeader(d, r, g) /\ IsEnd(d, g, y) /\ KeysOnce(d, r)
      BY <2>8, SectionIs
    <3> HIDE DEF g, y
    <3>2. g > z \/ y < h
      BY <2>1, <2>8, <3>1, SectionsApart
    <3>3. g \in 1..Len(d) /\ y \in g..Len(d)
      BY <3>1 DEF IsHeader, IsEnd
    <3>4. g > z \/ y + 1 < h \/ y + 1 = h
      BY <2>2, <3>2, <3>3
    <3> QED BY <2>1, <2>2, <2>4, <2>6, <3>1, <3>4, SectionOutside
  <2>9. ASSUME NEW r, HasSection(e, r) PROVE HasSection(d, r) /\ r # s
    <3>1. PICK i \in Headers(e) : e[i].name = r
      BY <2>5, <2>9, SectionIs
    <3>2. PICK j \in Headers(d) \ (h..z) : d[j].name = r
      BY <2>7, <3>1
    <3>3. j # h
      BY <2>2, <3>2
    <3>4. r # s
      BY <2>1, <2>2, <3>2, <3>3 DEF HeadersOnce, Headers, IsHeader
    <3> QED BY <3>2, <3>4 DEF HasSection, Are, Headers
  <2>10. Unique(e)
    <3> SUFFICES ASSUME NEW i \in Headers(e) PROVE KeysOnce(e, e[i].name)
      BY <2>7 DEF Unique
    <3>1. HasSection(e, e[i].name)
      BY DEF HasSection, Are, Headers
    <3> QED BY <2>8, <2>9, <3>1
  <2> DEFINE P == Parsed(d)
             Q == Parsed(e)
  <2>11. /\ P = [r \in DOMAIN P |-> P[r]] /\ (\A r : r \in DOMAIN P <=> HasSection(d, r))
         /\ \A r : HasSection(d, r) => P[r] = OptionsOf(d, r)
    BY ParsedIs
  <2>12. /\ Q = [r \in DOMAIN Q |-> Q[r]] /\ (\A r : r \in DOMAIN Q <=> HasSection(e, r))
         /\ \A r : HasSection(e, r) => Q[r] = OptionsOf(e, r)
    BY <2>5, ParsedIs
  <2> HIDE DEF P, Q
  <2>13. \A r : r \in DOMAIN Q <=> r \in DOMAIN P \ {s}
    BY <2>8, <2>9, <2>11, <2>12
  <2>14. \A r \in DOMAIN Q : Q[r] = P[r]
    BY <2>8, <2>9, <2>11, <2>12
  <2>15. Q = [r \in DOMAIN P \ {s} |-> P[r]]
    <3>1. DOMAIN Q = DOMAIN P \ {s}
      BY <2>13
    <3> QED BY <2>12, <2>14, <3>1
  <2> QED BY <2>5, <2>10, <2>15 DEF P, Q, e
<1> QED BY <1>1, <1>2
LEMMA NoOptions ==
  ASSUME NEW f, f = [k \in DOMAIN f |-> f[k]], DOMAIN f = {}
  PROVE  f = <<>>
<1>1. f \in [1..0 -> {}]
  <2>1. 1..0 = {}
    OBVIOUS
  <2> QED BY <2>1
<1>2. f \in Seq({})
  BY <1>1, SeqDef
<1>3. Len(f) = 0
  BY <1>1, <1>2
<1> QED BY <1>2, <1>3, EmptySeq

LEMMA NewLines ==
  /\ \A s \in Sections : Header(s) \in Line
  /\ Blank \in Line
BY DEF Header, Blank, Line, Names, NoNote, LineOf, Separators

\* What add_section() writes.
LEMMA SectionAddedLines ==
  ASSUME NEW d \in Seq(Line), NEW s \in Sections, ~HasSection(d, s), NEW e, e = SectionAdded(d, s)
  PROVE  \E n \in {Len(d) + 1, Len(d) + 2} :
           /\ e \in Seq(Line) /\ Len(e) = n
           /\ \A i \in 1..Len(d) : e[i] = d[i]
           /\ \A i \in (Len(d) + 1)..(n - 1) : e[i].kind = "blank"
           /\ e[n] = Header(s)
<1>1. Header(s) \in Line /\ Blank \in Line /\ Len(d) \in Nat
  BY NewLines
<1>2. CASE e = d \o <<>> \o <<Header(s)>>
  <2>1. d \o <<>> = d
    BY ConcatEmptySeq
  <2>2. e = Append(d, Header(s))
    BY <1>1, <1>2, <2>1, AppendIsConcat
  <2>3. /\ e \in Seq(Line) /\ Len(e) = Len(d) + 1 /\ e[Len(d) + 1] = Header(s)
        /\ \A i \in 1..Len(d) : e[i] = d[i]
    BY <1>1, <2>2, AppendProperties
  <2>4. (Len(d) + 1)..((Len(d) + 1) - 1) = {}
    BY <1>1
  <2> QED BY <2>3, <2>4
<1>3. CASE e = d \o <<Blank>> \o <<Header(s)>>
  <2> DEFINE c == Append(d, Blank)
             b == Append(c, Header(s))
             m == Len(d)
  <2>1. /\ c \in Seq(Line) /\ Len(c) = m + 1 /\ c[m + 1] = Blank
        /\ \A i \in 1..m : c[i] = d[i]
    BY <1>1, AppendProperties
  <2>2. d \o <<Blank>> = c
    BY <1>1, AppendIsConcat
  <2> HIDE DEF c
  <2>3. b = c \o <<Header(s)>>
    BY <1>1, <2>1, AppendIsConcat
  <2>4. /\ b \in Seq(Line) /\ Len(b) = (m + 1) + 1 /\ b[(m + 1) + 1] = Header(s)
        /\ \A i \in 1..(m + 1) : b[i] = c[i]
    BY <1>1, <2>1, AppendProperties
  <2>5. e = b
    BY <1>3, <2>2, <2>3
  <2> HIDE DEF b
  <2>6. m \in Nat /\ (m + 1) + 1 = m + 2
    BY <1>1
  <2>7. ASSUME NEW i \in 1..m PROVE e[i] = d[i]
    <3>1. i \in 1..(m + 1)
      BY <2>6
    <3> QED BY <2>1, <2>4, <2>5, <3>1
  <2>8. ASSUME NEW i \in (m + 1)..((m + 2) - 1) PROVE e[i].kind = "blank"
    <3>1. i = m + 1 /\ i \in 1..(m + 1)
      BY <2>6
    <3> QED BY <2>1, <2>4, <2>5, <3>1 DEF Blank, LineOf
  <2> HIDE DEF m
  <2>9. e \in Seq(Line) /\ Len(e) = m + 2 /\ e[m + 2] = Header(s)
    BY <2>4, <2>5, <2>6
  <2> QED BY <2>7, <2>8, <2>9 DEF m
<1> QED BY <1>2, <1>3 DEF SectionAdded

LEMMA SectionNew ==
  ASSUME NEW d \in Seq(Line), Unique(d), NEW s \in Sections
  PROVE  LET e == SectionAdded(d, s)
             P == Parsed(d)
         IN  /\ e \in Seq(Line) /\ Unique(e) /\ HasSection(e, s)
             /\ Parsed(e) = [r \in DOMAIN P \cup {s} |->
                               IF r \in DOMAIN P THEN P[r] ELSE <<>>]
<1> DEFINE e == SectionAdded(d, s)
           P == Parsed(d)
           Q == Parsed(e)
<1>1. /\ P = [r \in DOMAIN P |-> P[r]] /\ (\A r : r \in DOMAIN P <=> HasSection(d, r))
      /\ \A r : HasSection(d, r) => P[r] = OptionsOf(d, r)
  BY ParsedIs
<1>2. CASE HasSection(d, s)
  <2>1. e = d /\ s \in DOMAIN P
    BY <1>1, <1>2 DEF SectionAdded
  <2>2. DOMAIN P \cup {s} = DOMAIN P
    BY <2>1
  <2>3. P = [r \in DOMAIN P \cup {s} |-> IF r \in DOMAIN P THEN P[r] ELSE <<>>]
    <3> HIDE DEF P
    <3> QED BY <1>1, <2>2
  <2> QED BY <1>2, <2>1, <2>3
<1>3. CASE ~HasSection(d, s)
  <2>1. PICK n \in {Len(d) + 1, Len(d) + 2} :
           /\ e \in Seq(Line) /\ Len(e) = n
           /\ \A i \in 1..Len(d) : e[i] = d[i]
           /\ \A i \in (Len(d) + 1)..(n - 1) : e[i].kind = "blank"
           /\ e[n] = Header(s)
    BY <1>3, SectionAddedLines
  <2> HIDE DEF e
  <2>2. Len(d) \in Nat /\ n \in Nat /\ n > Len(d) /\ HeadersOnce(d)
    BY <2>1 DEF Unique
  <2>3. ASSUME NEW i \in Headers(e)
        PROVE  \/ i \in Headers(d) /\ i < n /\ e[i] = d[i]
               \/ i = n /\ e[i].name = s
    <3>1. i \in 1..n /\ e[i].kind = "header"
      BY <2>1 DEF Headers
    <3>2. i \notin (Len(d) + 1)..(n - 1)
      BY <2>1, <3>1
    <3>3. i \in 1..Len(d) \/ i = n
      BY <2>2, <3>1, <3>2
    <3>4. CASE i \in 1..Len(d)
      <4>1. e[i] = d[i] /\ i < n
        BY <2>1, <2>2, <3>4
      <4>2. d[i].kind = "header"
        BY <3>1, <4>1
      <4>3. i \in Headers(d)
        BY <3>4, <4>2 DEF Headers
      <4> QED BY <4>1, <4>3
    <3>5. CASE i = n
      BY <2>1, <3>5 DEF Header, LineOf
    <3> QED BY <3>3, <3>4, <3>5
  <2>4. \A i \in Headers(d) : d[i].name # s
    BY <1>3 DEF HasSection, Are, Headers
  <2>5. HeadersOnce(e)
    BY <2>2, <2>3, <2>4 DEF HeadersOnce
  <2>6. IsHeader(e, s, n) /\ IsEnd(e, n, n)
    <3>1. n \in 1..Len(e) /\ e[n].kind = "header" /\ e[n].name = s
      BY <2>1, <2>2 DEF Header, LineOf
    <3>2. IsHeader(e, e[n].name, n)
      BY <2>1, <2>5, <3>1, HeaderIs
    <3>3. n \in n..Len(e) /\ (n + 1)..n = {} /\ n = Len(e)
      BY <2>1, <2>2
    <3> QED BY <3>1, <3>2, <3>3 DEF IsEnd
  <2>7. HasSection(e, s) /\ KeyLines(e, s) = {} /\ KeysOnce(e, s)
    <3>1. KeyLines(e, s) = {i \in n..n : e[i].kind = "key"}
      <4>1. e \in Seq(Line)
        BY <2>1
      <4> QED BY <2>6, <4>1, KeyLinesAre
    <3>2. n..n = {n} /\ e[n].kind # "key"
      BY <2>1, <2>2 DEF Header, LineOf
    <3>3. KeyLines(e, s) = {}
      BY <3>1, <3>2
    <3> QED BY <2>1, <2>6, <3>3, HeaderFacts DEF KeysOnce
  <2>8. OptionsOf(e, s) = <<>>
    <3> DEFINE f == OptionsOf(e, s)
    <3>1. f = [k \in DOMAIN f |-> f[k]] /\ DOMAIN f = {}
      <4>1. /\ f = [k \in DOMAIN f |-> f[k]]
            /\ DOMAIN f = {e[i].name : i \in KeyLines(e, s)}
        BY <2>1, <2>7, OptionsAre
      <4> HIDE DEF f
      <4> QED BY <2>7, <4>1
    <3> HIDE DEF f
    <3>2. f = <<>>
      BY <3>1, NoOptions
    <3> QED BY <3>2 DEF f
  <2>9. ASSUME NEW r, HasSection(d, r)
        PROVE  HasSection(e, r) /\ KeysOnce(e, r) /\ OptionsOf(e, r) = OptionsOf(d, r)
    <3> DEFINE g == HeaderOf(d, r)
               y == EndOf(d, r)
    <3>1. IsHeader(d, r, g) /\ IsEnd(d, g, y) /\ KeysOnce(d, r)
      BY <2>9, SectionIs
    <3> HIDE DEF g, y
    <3>2. /\ g \in 1..Len(d) /\ y \in g..Len(d) /\ d[g].kind = "header" /\ d[g].name = r
          /\ (\A j \in (g + 1)..y : d[j].kind # "header")
          /\ (y = Len(d) \/ d[y + 1].kind = "header")
      BY <3>1 DEF IsHeader, IsEnd
    <3>3. g \in 1..Len(e) /\ e[g].kind = "header" /\ e[g].name = r
      BY <2>1, <2>2, <3>2
    <3>4. IsHeader(e, r, g)
      BY <2>1, <2>5, <3>3, HeaderIs
    <3> DEFINE x == IF y = Len(d) THEN n - 1 ELSE y
    <3>5. x \in g..Len(e) /\ x >= y /\ x \in Int /\ y \in Int /\ g \in Int
      BY <2>1, <2>2, <3>2
    <3>6. ASSUME NEW j \in (y + 1)..x PROVE e[j].kind = "blank"
      <4>1. j \in (Len(d) + 1)..(n - 1)
        BY <2>2, <3>2, <3>5
      <4> QED BY <2>1, <4>1
    <3>7. x = Len(e) \/ e[x + 1].kind = "header"
      <4>1. CASE y = Len(d)
        <5>1. x + 1 = n
          BY <2>2, <4>1
        <5> QED BY <2>1, <5>1 DEF Header, LineOf
      <4>2. CASE y # Len(d)
        <5>1. x = y /\ y + 1 \in 1..Len(d)
          BY <3>2, <2>2, <4>2
        <5> QED BY <2>1, <3>2, <4>2, <5>1
      <4> QED BY <4>1, <4>2
    <3>8. ASSUME NEW j \in (g + 1)..x PROVE e[j].kind # "header"
      <4>1. CASE j <= y
        <5>1. j \in (g + 1)..y /\ j \in 1..Len(d)
          BY <2>2, <3>2, <3>5, <4>1
        <5> QED BY <2>1, <3>2, <5>1
      <4>2. CASE ~(j <= y)
        <5>1. j \in (y + 1)..x
          BY <3>5, <4>2
        <5> QED BY <3>6, <5>1
      <4> QED BY <4>1, <4>2
    <3> HIDE DEF x
    <3>9. IsEnd(e, g, x)
      BY <3>5, <3>7, <3>8 DEF IsEnd
    <3>10. ASSUME NEW zero \in Int, zero = 0
           PROVE  KeysOnce(e, r) /\ OptionsOf(e, r) = OptionsOf(d, r)
      <4>1. g + zero = g /\ y + zero = y
        BY <3>5, <3>10
      <4>2. IsHeader(e, r, g + zero) /\ IsEnd(e, g + zero, x) /\ x >= y + zero
        BY <3>4, <3>5, <3>9, <4>1
      <4>3. ASSUME NEW i \in g..y PROVE i + zero \in 1..Len(e) /\ e[i + zero] = d[i]
        <5>1. i + zero = i /\ i \in 1..Len(d) /\ i \in 1..Len(e)
          BY <2>1, <2>2, <3>2, <3>10
        <5> QED BY <2>1, <5>1
      <4>4. \A i \in (y + zero + 1)..x : e[i].kind = "blank"
        BY <3>6, <4>1
      <4> QED BY <2>1, <3>1, <4>2, <4>3, <4>4, SectionCopied
    <3>11. HasSection(e, r)
      BY <2>1, <3>4, HeaderFacts
    <3> QED BY <3>10, <3>11
  <2>10. ASSUME NEW r, HasSection(e, r), r # s PROVE HasSection(d, r)
    <3>1. PICK i \in Headers(e) : e[i].name = r
      BY <2>1, <2>10, SectionIs
    <3>2. i \in Headers(d) /\ e[i] = d[i]
      BY <2>3, <2>10, <3>1
    <3> QED BY <3>1, <3>2 DEF HasSection, Are, Headers
  <2>11. Unique(e)
    <3> SUFFICES ASSUME NEW i \in Headers(e) PROVE KeysOnce(e, e[i].name)
      BY <2>5 DEF Unique
    <3>1. HasSection(e, e[i].name)
      BY DEF HasSection, Are, Headers
    <3> QED BY <2>7, <2>9, <2>10, <3>1
  <2>12. /\ Q = [r \in DOMAIN Q |-> Q[r]] /\ (\A r : r \in DOMAIN Q <=> HasSection(e, r))
         /\ \A r : HasSection(e, r) => Q[r] = OptionsOf(e, r)
    BY <2>1, ParsedIs
  <2> HIDE DEF P, Q
  <2>13. \A r : r \in DOMAIN Q <=> r \in DOMAIN P \cup {s}
    BY <1>1, <2>7, <2>9, <2>10, <2>12
  <2>14. \A r \in DOMAIN Q : Q[r] = IF r \in DOMAIN P THEN P[r] ELSE <<>>
    BY <1>1, <2>8, <2>9, <2>12, <2>13
  <2>15. Q = [r \in DOMAIN P \cup {s} |-> IF r \in DOMAIN P THEN P[r] ELSE <<>>]
    <3>1. DOMAIN Q = DOMAIN P \cup {s}
      BY <2>13
    <3> QED BY <2>12, <2>14, <3>1
  <2> QED BY <2>1, <2>7, <2>11, <2>15 DEF P, Q, e
<1> QED BY <1>2, <1>3
-----------------------------------------------------------------------------
(* What is written is what is read.                                         *)

LEMMA SaysTyped ==
  ASSUME NEW line \in Line
  PROVE  Says(line) \in Seq(Names)
<1>1. line.name \in Names /\ line.value \in Names
  BY DEF Line
<1>2. <<line.name>> \in Seq(Names) /\ <<line.value>> \in Seq(Names) /\ <<>> \in Seq(Names)
  BY <1>1
<1> QED BY <1>2 DEF Says

LEMMA ItemsOfEmpty == ItemsOf(<<>>) = <<>>
<1> DEFINE f == [i \in 1..0 |-> Says(<<>>[i])]
<1>1. DOMAIN f = {} /\ f = [i \in DOMAIN f |-> f[i]]
  <2>1. 1..0 = {}
    OBVIOUS
  <2> QED BY <2>1
<1>2. ItemsOf(<<>>) = FlattenSeq(f)
  <2>1. Len(<<>>) = 0
    OBVIOUS
  <2> QED BY <2>1 DEF ItemsOf
<1> HIDE DEF f
<1>3. f = <<>>
  BY <1>1, NoOptions
<1> QED BY <1>2, <1>3, FlattenEmpty

LEMMA ItemsOfAppend ==
  ASSUME NEW a \in Seq(Line), NEW line \in Line
  PROVE  ItemsOf(Append(a, line)) = ItemsOf(a) \o Says(line) /\ ItemsOf(a) \in Seq(Names)
<1> DEFINE b == Append(a, line)
           n == Len(a)
           f == [i \in 1..n |-> Says(a[i])]
           g == [i \in 1..Len(b) |-> Says(b[i])]
<1>1. /\ b \in Seq(Line) /\ Len(b) = n + 1 /\ b[n + 1] = line /\ n \in Nat
      /\ \A i \in 1..n : b[i] = a[i]
  BY AppendProperties
<1> HIDE DEF b
<1>2. f \in Seq(Seq(Names)) /\ Len(f) = n
  <2>1. \A i \in 1..n : Says(a[i]) \in Seq(Names)
    BY SaysTyped
  <2> QED BY <1>1, <2>1
<1>3. g \in Seq(Seq(Names)) /\ Len(g) = n + 1
  <2>1. \A i \in 1..Len(b) : Says(b[i]) \in Seq(Names)
    BY <1>1, SaysTyped
  <2>2. Len(b) \in Nat
    BY <1>1
  <2>3. g \in Seq(Seq(Names)) /\ Len(g) = Len(b)
    BY <2>1, <2>2
  <2> QED BY <1>1, <2>3
<1>4. Says(line) \in Seq(Names)
  BY SaysTyped
<1> DEFINE c == Append(f, Says(line))
<1>5. /\ c \in Seq(Seq(Names)) /\ Len(c) = n + 1 /\ c[n + 1] = Says(line)
      /\ \A i \in 1..n : c[i] = f[i]
  <2> HIDE DEF f
  <2> QED BY <1>2, <1>4, AppendProperties
<1>6. g = c
  <2>1. ASSUME NEW i \in 1..(n + 1) PROVE g[i] = c[i]
    <3>1. g[i] = Says(b[i])
      BY <1>1, <2>1
    <3>2. CASE i = n + 1
      BY <1>1, <1>5, <3>1, <3>2
    <3>3. CASE i # n + 1
      <4>1. i \in 1..n
        BY <1>1, <3>3
      <4>2. c[i] = f[i] /\ f[i] = Says(a[i]) /\ b[i] = a[i]
        BY <1>1, <1>5, <4>1
      <4> QED BY <3>1, <4>2
    <3> QED BY <3>2, <3>3
  <2> HIDE DEF g, c
  <2> QED BY <1>3, <1>5, <2>1, SeqEqual
<1>7. FlattenSeq(c) = FlattenSeq(f) \o Says(line) /\ FlattenSeq(f) \in Seq(Names)
  <2> HIDE DEF f
  <2> QED BY <1>2, <1>4, FlattenAppend, FlattenTyped
<1>8. ItemsOf(a) = FlattenSeq(f) /\ ItemsOf(b) = FlattenSeq(g)
  BY DEF ItemsOf
<1> QED BY <1>6, <1>7, <1>8 DEF b

LEMMA ItemsOfConcat ==
  ASSUME NEW a \in Seq(Line), NEW b \in Seq(Line)
  PROVE  ItemsOf(a \o b) = ItemsOf(a) \o ItemsOf(b)
<1> DEFINE G == {c \in Seq(Line) : ItemsOf(a \o c) = ItemsOf(a) \o ItemsOf(c)}
<1>0. \A c \in Seq(Line) : ItemsOf(c) \in Seq(Names)
  <2>1. Blank \in Line
    BY NewLines
  <2> QED BY <2>1, ItemsOfAppend
<1>1. <<>> \in G
  BY <1>0, ItemsOfEmpty, ConcatEmptySeq
<1>2. ASSUME NEW c \in Seq(Line) \cap G, NEW x \in Line PROVE Append(c, x) \in G
  <2>1. a \o Append(c, x) = Append(a \o c, x) /\ a \o c \in Seq(Line)
    <3>1. Append(c, x) = c \o <<x>> /\ <<x>> \in Seq(Line)
      BY AppendIsConcat
    <3>2. a \o c \in Seq(Line)
      BY ConcatProperties
    <3>3. Append(a \o c, x) = (a \o c) \o <<x>>
      BY <3>2, AppendIsConcat
    <3>4. a \o (c \o <<x>>) = (a \o c) \o <<x>>
      BY <3>1, ConcatAssociative
    <3> QED BY <3>1, <3>2, <3>3, <3>4
  <2>2. ItemsOf(a \o Append(c, x)) = ItemsOf(a \o c) \o Says(x)
    BY <2>1, ItemsOfAppend
  <2>3. ItemsOf(a \o c) = ItemsOf(a) \o ItemsOf(c)
    BY <1>2
  <2>4. (ItemsOf(a) \o ItemsOf(c)) \o Says(x) = ItemsOf(a) \o (ItemsOf(c) \o Says(x))
    <3> DEFINE u == ItemsOf(a)
               v == ItemsOf(c)
               w == Says(x)
    <3>1. u \in Seq(Names) /\ v \in Seq(Names) /\ w \in Seq(Names)
      BY <1>0, SaysTyped
    <3> HIDE DEF u, v, w
    <3>2. (u \o v) \o w = u \o (v \o w)
      BY SMTT(40), <3>1, ConcatAssociative
    <3> QED BY <3>2 DEF u, v, w
  <2>5. ItemsOf(Append(c, x)) = ItemsOf(c) \o Says(x)
    BY ItemsOfAppend
  <2>6. Append(c, x) \in Seq(Line)
    BY AppendProperties
  <2> QED BY <2>2, <2>3, <2>4, <2>5, <2>6
<1> HIDE DEF G
<1>3. Seq(Line) \subseteq G
  BY <1>1, <1>2, SeqInduction
<1> QED BY <1>3 DEF G

\* Labels say nothing.
Labels == {Label(n) : n \in Nat}
Below == {line \in Line : Continues(line)}

LEMMA LabelsAreBelow == Labels \subseteq Below /\ Below \subseteq Line
BY DEF Labels, Below, Label, Line, Names, Continues, LineOf, Separators

LEMMA LabelsSayNothing ==
  ASSUME NEW a \in Seq(Labels)
  PROVE  ItemsOf(a) = <<>>
<1> DEFINE G == {c \in Seq(Labels) : ItemsOf(c) = <<>>}
<1>1. <<>> \in G
  BY ItemsOfEmpty
<1>2. ASSUME NEW c \in Seq(Labels) \cap G, NEW x \in Labels PROVE Append(c, x) \in G
  <2>1. c \in Seq(Line) /\ x \in Line
    BY LabelsAreBelow, SeqMonotonic
  <2>2. Says(x) = <<>>
    BY DEF Says, Labels, Label, LineOf
  <2>3. ItemsOf(Append(c, x)) = <<>> \o <<>>
    BY <1>2, <2>1, <2>2, ItemsOfAppend
  <2>4. <<>> \o <<>> = <<>>
    BY ConcatEmptySeq
  <2> QED BY <2>3, <2>4, AppendProperties
<1> HIDE DEF G
<1>3. Seq(Labels) \subseteq G
  BY <1>1, <1>2, SeqInduction
<1> QED BY <1>3 DEF G

LEMMA LabelsAboveTyped ==
  ASSUME NEW span \in Seq(Line), NEW x
  PROVE  LabelsAbove(span, x) \in Seq(Labels)
<1> DEFINE f == [i \in 1..Len(span) |-> IF i \in LastNotesAbove(span, x)
                                          THEN <<Label(span[i].note)>> ELSE <<>>]
<1>1. ASSUME NEW i \in 1..Len(span) PROVE f[i] \in Seq(Labels)
  <2>1. span[i].note \in Nat
    BY DEF Line
  <2>2. <<Label(span[i].note)>> \in Seq(Labels) /\ <<>> \in Seq(Labels)
    BY <2>1 DEF Labels
  <2> QED BY <2>2
<1>2. f \in Seq(Seq(Labels))
  BY <1>1
<1>3. LabelsAbove(span, x) = FlattenSeq(f)
  BY DEF LabelsAbove
<1> HIDE DEF f
<1> QED BY <1>2, <1>3, FlattenTyped

LEMMA NoteBesideTyped ==
  ASSUME NEW span \in Seq(Line), NEW x
  PROVE  NoteBeside(span, x) \in Nat
<1> DEFINE T == {i \in Are(span, "item", x) : span[i].note # NoNote}
<1>1. T \subseteq 1..Len(span) /\ T \subseteq 0..Len(span) /\ Len(span) \in Nat
  BY DEF Are
<1>2. NoteBeside(span, x) = IF T = {} THEN NoNote ELSE span[Max(T)].note
  BY DEF NoteBeside
<1> HIDE DEF T
<1>3. T # {} => Max(T) \in T
  BY <1>1, MaxOf
<1>4. \A i \in 1..Len(span) : span[i].note \in Nat
  BY DEF Line
<1>5. CASE T = {}
  BY <1>2, <1>5 DEF NoNote
<1>6. CASE T # {}
  <2>1. Max(T) \in 1..Len(span)
    BY <1>1, <1>3, <1>6
  <2>2. NoteBeside(span, x) = span[Max(T)].note
    BY <1>2, <1>6
  <2> HIDE DEF T
  <2> QED BY <1>4, <2>1, <2>2
<1> QED BY <1>5, <1>6

\* An item with the notes that go with it.
Part(span, x) == Append(LabelsAbove(span, x), ItemLine(x, NoteBeside(span, x)))
Parts(span, items) == FlattenSeq([i \in 1..Len(items) |-> Part(span, items[i])])

LEMMA PartIs ==
  ASSUME NEW span \in Seq(Line), NEW x \in Items
  PROVE  Part(span, x) \in Seq(Below) /\ ItemsOf(Part(span, x)) = <<x>>
<1> DEFINE a == LabelsAbove(span, x)
           y == ItemLine(x, NoteBeside(span, x))
<1>1. a \in Seq(Labels)
  BY LabelsAboveTyped
<1>2. y \in Below
  BY NoteBesideTyped DEF ItemLine, Below, Line, Names, Continues, LineOf, Separators
<1>3. Says(y) = <<x>> /\ <<x>> \in Seq({x})
  BY DEF ItemLine, Says, LineOf
<1> HIDE DEF a, y
<1>4. a \in Seq(Below) /\ a \in Seq(Line) /\ y \in Line
  BY <1>1, <1>2, LabelsAreBelow, SeqMonotonic
<1>5. ItemsOf(Append(a, y)) = <<>> \o <<x>>
  BY <1>1, <1>3, <1>4, ItemsOfAppend, LabelsSayNothing
<1>6. <<>> \o <<x>> = <<x>>
  BY <1>3, ConcatEmptySeq
<1>7. Append(a, y) \in Seq(Below)
  BY <1>2, <1>4, AppendProperties
<1> QED BY <1>5, <1>6, <1>7 DEF Part, a, y

LEMMA PartsAre ==
  ASSUME NEW span \in Seq(Line), NEW items \in Seq(Items)
  PROVE  Parts(span, items) \in Seq(Below) /\ ItemsOf(Parts(span, items)) = items
<1> DEFINE F(c) == [i \in 1..Len(c) |-> Part(span, c[i])]
           G == {c \in Seq(Items) : ItemsOf(Parts(span, c)) = c}
<1>1. ASSUME NEW c \in Seq(Items)
      PROVE  F(c) \in Seq(Seq(Below)) /\ Len(F(c)) = Len(c) /\ Parts(span, c) \in Seq(Below)
             /\ Parts(span, c) = FlattenSeq(F(c)) /\ Len(c) \in Nat
  <2>1. \A i \in 1..Len(c) : Part(span, c[i]) \in Seq(Below)
    BY PartIs
  <2>2. F(c) \in Seq(Seq(Below)) /\ Len(F(c)) = Len(c)
    BY <2>1
  <2>3. Parts(span, c) = FlattenSeq(F(c))
    BY DEF Parts
  <2> HIDE DEF F
  <2> QED BY <2>2, <2>3, FlattenTyped
<1>2. ASSUME NEW c \in Seq(Items), c = <<>> PROVE c \in G
  <2>1. F(c) \in Seq(Seq(Below)) /\ Len(F(c)) = 0 /\ Parts(span, c) = FlattenSeq(F(c))
    <3>1. Len(c) = 0
      BY <1>2
    <3> QED BY <1>1, <3>1
  <2> HIDE DEF F
  <2>2. F(c) = <<>>
    BY <2>1, EmptySeq
  <2> QED BY <1>2, <2>1, <2>2, FlattenEmpty, ItemsOfEmpty
<1>3. ASSUME NEW c \in Seq(Items) \cap G, NEW x \in Items PROVE Append(c, x) \in G
  <2> DEFINE b == Append(c, x)
             n == Len(c)
  <2>1. /\ b \in Seq(Items) /\ Len(b) = n + 1 /\ b[n + 1] = x /\ n \in Nat
        /\ \A i \in 1..n : b[i] = c[i]
    BY AppendProperties
  <2> HIDE DEF b
  <2>2. Part(span, x) \in Seq(Below) /\ ItemsOf(Part(span, x)) = <<x>>
    BY PartIs
  <2> DEFINE A == Append(F(c), Part(span, x))
  <2>3. /\ A \in Seq(Seq(Below)) /\ Len(A) = n + 1 /\ A[n + 1] = Part(span, x)
        /\ \A i \in 1..n : A[i] = F(c)[i]
    <3>1. F(c) \in Seq(Seq(Below)) /\ Len(F(c)) = n
      BY <1>1
    <3> HIDE DEF F
    <3> QED BY <2>2, <3>1, AppendProperties
  <2>4. F(b) \in Seq(Seq(Below)) /\ Len(F(b)) = n + 1
    <3>1. F(b) \in Seq(Seq(Below)) /\ Len(F(b)) = Len(b)
      BY <1>1, <2>1
    <3> QED BY <2>1, <3>1
  <2>5. ASSUME NEW i \in 1..(n + 1) PROVE F(b)[i] = A[i]
    <3>1. F(b)[i] = Part(span, b[i])
      BY <2>1, <2>5
    <3> HIDE DEF A
    <3>2. CASE i = n + 1
      BY <2>1, <2>3, <3>1, <3>2
    <3>3. CASE i # n + 1
      <4>1. i \in 1..n
        BY <2>1, <3>3
      <4>2. A[i] = F(c)[i] /\ F(c)[i] = Part(span, c[i]) /\ b[i] = c[i]
        BY <2>1, <2>3, <4>1
      <4> QED BY <3>1, <4>2
    <3> QED BY <3>2, <3>3
  <2>6. F(b) = A
    <3> HIDE DEF F, A
    <3> QED BY <2>3, <2>4, <2>5, SeqEqual
  <2>7. Parts(span, b) = Parts(span, c) \o Part(span, x)
    <3>1. FlattenSeq(A) = FlattenSeq(F(c)) \o Part(span, x)
      <4>1. F(c) \in Seq(Seq(Below))
        BY <1>1
      <4> HIDE DEF F
      <4> QED BY <2>2, <4>1, FlattenAppend
    <3> HIDE DEF F, A
    <3> QED BY <1>1, <2>1, <2>6, <3>1
  <2>8. ItemsOf(Parts(span, b)) = ItemsOf(Parts(span, c)) \o <<x>>
    <3>1. Parts(span, c) \in Seq(Line) /\ Part(span, x) \in Seq(Line)
      BY <1>1, <2>2, LabelsAreBelow, SeqMonotonic
    <3> QED BY <2>2, <2>7, <3>1, ItemsOfConcat
  <2>9. b = c \o <<x>>
    BY AppendIsConcat DEF b
  <2> HIDE DEF F
  <2> QED BY <1>3, <2>1, <2>8, <2>9 DEF b
<1> HIDE DEF G
<1>4. Seq(Items) \subseteq G
  <2>1. <<>> \in G
    BY <1>2, EmptySeq
  <2> QED BY <1>3, <2>1, SeqInduction
<1> QED BY <1>1, <1>4 DEF G
LEMMA BlockIs ==
  ASSUME NEW k \in Lists, NEW items \in Seq(Items), NEW span \in Seq(Line)
  PROVE  /\ Block(k, items, span) \in Seq(Line) /\ Block(k, items, span) # <<>>
         /\ OptionText(k, Block(k, items, span))
         /\ ItemsOf(Block(k, items, span)) = items
<1> DEFINE key == KeyLine(k, NoItem, NoNote)
           F == Parts(span, items)
           L == LabelsAbove(span, NoItem)
           B == Block(k, items, span)
           G == F \o L
<1>1. key \in Line /\ key.kind = "key" /\ key.name = k /\ Says(key) = <<>>
  BY DEF KeyLine, Line, Keys, Names, NoNote, Says, LineOf, Separators
<1>2. F \in Seq(Below) /\ L \in Seq(Labels) /\ L \in Seq(Below) /\ ItemsOf(F) = items
  BY PartsAre, LabelsAboveTyped, LabelsAreBelow, SeqMonotonic
<1>3. items = <<>> => B = <<key>>
  BY DEF Block
<1>4. items # <<>> => B = <<key>> \o F \o L
  BY DEF Block, Parts, Part
<1> HIDE DEF key, F, L, B, G
<1>5. F \in Seq(Line) /\ L \in Seq(Line) /\ <<key>> \in Seq(Line) /\ <<>> \in Seq(Line)
  BY <1>1, <1>2, LabelsAreBelow, SeqMonotonic
<1>6. ItemsOf(<<key>>) = <<>>
  <2>1. Append(<<>>, key) = <<key>>
    OBVIOUS
  <2>2. ItemsOf(Append(<<>>, key)) = ItemsOf(<<>>) \o Says(key)
    BY <1>1, <1>5, ItemsOfAppend
  <2>3. <<>> \o <<>> = <<>>
    BY <1>5, ConcatEmptySeq
  <2> QED BY <1>1, <2>1, <2>2, <2>3, ItemsOfEmpty
<1>7. CASE items = <<>>
  <2>1. B = <<key>>
    BY <1>3, <1>7
  <2>2. B \in Seq(Line) /\ B # <<>> /\ Len(B) = 1 /\ B[1] = key
    BY <1>5, <2>1
  <2>3. OptionText(k, B)
    BY <1>1, <2>2 DEF OptionText
  <2> QED BY <1>6, <1>7, <2>1, <2>2, <2>3 DEF B
<1>8. CASE items # <<>>
  <2>1. B = <<key>> \o G
    <3>1. (<<key>> \o F) \o L = <<key>> \o (F \o L)
      BY <1>5, ConcatAssociative
    <3> QED BY <1>4, <1>8, <3>1 DEF G
  <2>2. G \in Seq(Below) /\ G \in Seq(Line) /\ ItemsOf(G) = items \o <<>>
    <3>1. G \in Seq(Below)
      BY <1>2, ConcatProperties DEF G
    <3>2. ItemsOf(G) = ItemsOf(F) \o ItemsOf(L)
      BY <1>5, ItemsOfConcat DEF G
    <3> QED BY <1>2, <3>1, <3>2, LabelsAreBelow, LabelsSayNothing, SeqMonotonic
  <2>3. ItemsOf(B) = <<>> \o (items \o <<>>)
    BY <1>5, <1>6, <2>1, <2>2, ItemsOfConcat
  <2>4. ItemsOf(B) = items
    <3>1. items \o <<>> = items /\ <<>> \o items = items
      BY ConcatEmptySeq
    <3> QED BY <2>3, <3>1
  <2>5. /\ B \in Seq(Line) /\ Len(B) = 1 + Len(G) /\ Len(G) \in Nat
        /\ \A i \in 1..(1 + Len(G)) : B[i] = IF i <= 1 THEN <<key>>[i] ELSE G[i - 1]
    <3>1. Len(<<key>>) = 1
      OBVIOUS
    <3>2. /\ B \in Seq(Line) /\ Len(B) = Len(<<key>>) + Len(G)
          /\ \A i \in 1..(Len(<<key>>) + Len(G)) :
                B[i] = IF i <= Len(<<key>>) THEN <<key>>[i] ELSE G[i - Len(<<key>>)]
      BY <1>5, <2>1, <2>2, ConcatProperties
    <3>3. Len(G) \in Nat
      BY <2>2
    <3> QED BY <3>1, <3>2, <3>3
  <2>6. B[1] = key /\ B # <<>>
    <3>1. 1 \in 1..(1 + Len(G))
      BY <2>5
    <3>2. Len(B) # 0
      BY <2>5
    <3>3. B # <<>>
      BY <3>2, EmptySeq
    <3> QED BY <2>5, <3>1, <3>3
  <2>7. ASSUME NEW i \in 2..Len(B) PROVE Continues(B[i])
    <3>1. i - 1 \in 1..Len(G) /\ i \in 1..(1 + Len(G)) /\ ~(i <= 1)
      BY <2>5
    <3>2. B[i] = G[i - 1] /\ G[i - 1] \in Below
      BY <2>2, <2>5, <3>1
    <3> QED BY <3>2 DEF Below
  <2> QED BY <1>1, <2>4, <2>5, <2>6, <2>7 DEF OptionText, B
<1> QED BY <1>7, <1>8

LEMMA SingleIs ==
  ASSUME NEW k \in Scalars, NEW x \in Items, NEW span \in Seq(Line)
  PROVE  /\ Single(k, x, span) \in Seq(Line) /\ Single(k, x, span) # <<>>
         /\ OptionText(k, Single(k, x, span))
         /\ ItemsOf(Single(k, x, span)) = <<x>>
<1> DEFINE note == IF Len(span) = 1 /\ ~Cut(span[1]) THEN span[1].note ELSE NoNote
           key == KeyLine(k, x, note)
           B == Single(k, x, span)
<1>1. note \in Nat
  <2>1. Len(span) = 1 => span[1] \in Line
    OBVIOUS
  <2> QED BY <2>1 DEF Line, NoNote
<1>2. x # NoItem
  BY CfgDocAssumption
<1>3. B = <<key>>
  BY DEF Single
<1> HIDE DEF note
<1>4. key \in Line /\ key.kind = "key" /\ key.name = k /\ Says(key) = <<x>>
  BY <1>1, <1>2 DEF KeyLine, Line, Keys, Names, Says, LineOf, Separators
<1> HIDE DEF key, B
<1>5. B \in Seq(Line) /\ B # <<>> /\ Len(B) = 1 /\ B[1] = key
  BY <1>3, <1>4
<1>6. OptionText(k, B)
  BY <1>4, <1>5 DEF OptionText
<1>7. ItemsOf(B) = <<x>>
  <2>1. Append(<<>>, key) = <<key>> /\ <<>> \in Seq(Line) /\ <<x>> \in Seq(Items)
    OBVIOUS
  <2>2. ItemsOf(Append(<<>>, key)) = ItemsOf(<<>>) \o Says(key)
    BY <1>4, <2>1, ItemsOfAppend
  <2>3. <<>> \o <<x>> = <<x>>
    BY <2>1, ConcatEmptySeq
  <2> QED BY <1>3, <1>4, <2>1, <2>2, <2>3, ItemsOfEmpty
<1> QED BY <1>5, <1>6, <1>7 DEF B

LEMMA ListValues ==
  ASSUME NEW k \in Lists, NEW value \in Values(k)
  PROVE  value \in Seq(Items) /\ k \notin Scalars
<1>1. k \notin Scalars
  BY CfgDocAssumption
<1>2. value \in Seq(Items)
  <2>1. CASE value = <<>>
    BY <2>1, EmptySeq
  <2>2. CASE \E x \in Items : value = <<x>>
    BY <2>2
  <2>3. CASE value \in [1..2 -> Items]
    <3>1. Seq(Items) = UNION {[1..n -> Items] : n \in Nat}
      BY SeqDef
    <3>2. [1..2 -> Items] \in {[1..n -> Items] : n \in Nat}
      OBVIOUS
    <3> QED BY <2>3, <3>1, <3>2
  <2> QED BY <1>1, <2>1, <2>2, <2>3 DEF Values
<1> QED BY <1>1, <1>2

\* Whatever is written under a key is read again, whatever notes go with it.
LEMMA RenderedIs ==
  ASSUME NEW k \in Keys, NEW value \in Values(k), NEW span \in Seq(Line)
  PROVE  /\ Rendered(k, value, span) \in Seq(Line) /\ Rendered(k, value, span) # <<>>
         /\ OptionText(k, Rendered(k, value, span))
         /\ ItemsOf(Rendered(k, value, span)) = value
<1>1. CASE k \in Lists
  <2>1. value \in Seq(Items)
    BY <1>1, ListValues
  <2>2. Rendered(k, value, span) = Block(k, value, span)
    BY <1>1 DEF Rendered
  <2> QED BY <1>1, <2>1, <2>2, BlockIs
<1>2. CASE k \notin Lists
  <2>1. k \in Scalars
    BY <1>2 DEF Keys
  <2>2. PICK x \in Items : value = <<x>>
    BY <2>1 DEF Values
  <2>3. Rendered(k, value, span) = Single(k, x, span)
    BY <1>2, <2>2 DEF Rendered
  <2> QED BY <2>1, <2>2, <2>3, SingleIs
<1> QED BY <1>1, <1>2
-----------------------------------------------------------------------------
(* The edits of a document, as its readers see them.                        *)

\* The lines of an option that is there.
LEMMA KeyInBody ==
  ASSUME NEW d \in Seq(Line), Unique(d), NEW s, NEW k, HasKey(d, s, k)
  PROVE  LET at == KeyOf(d, s, k)
         IN  /\ InBody(d, HeaderOf(d, s), EndOf(d, s), k, at, LastOf(d, at))
             /\ Span(d, at) \in Seq(Line)
<1> DEFINE h == HeaderOf(d, s)
           z == EndOf(d, s)
           at == KeyOf(d, s, k)
           T == KeysOf(d, s, k)
<1>1. HasSection(d, s) /\ T # {} /\ at = Min(T)
  BY DEF HasKey, KeyOf
<1>2. IsHeader(d, s, h) /\ IsEnd(d, h, z) /\ KeysOnce(d, s)
  BY <1>1, SectionIs
<1>3. /\ h \in 1..Len(d) /\ z \in h..Len(d) /\ Len(d) \in Nat /\ d[h].kind = "header"
      /\ (\A j \in (h + 1)..z : d[j].kind # "header")
      /\ KeyLines(d, s) = {i \in h..z : d[i].kind = "key"}
  BY SMTT(40), <1>2, KeyLinesAre DEF IsHeader, IsEnd
<1> HIDE DEF h, z
<1>4. T = {i \in h..z : d[i].kind = "key" /\ d[i].name = k}
  BY <1>3 DEF KeysOf
<1>5. at \in T
  <2>1. T \subseteq Nat
    BY <1>3, <1>4
  <2> HIDE DEF T, at
  <2> QED BY <1>1, <2>1, MinOf
<1>6. /\ at \in (h + 1)..z /\ d[at].kind = "key" /\ d[at].name = k /\ at \in 1..Len(d)
      /\ \A i \in T : i = at
  <2>1. at \in h..z /\ d[at].kind = "key" /\ d[at].name = k
    BY <1>4, <1>5
  <2>2. at # h
    BY <1>3, <2>1
  <2>3. \A i \in T : i = at
    BY <1>2, <1>5 DEF KeysOnce, KeysOf
  <2> HIDE DEF at
  <2> QED BY <1>3, <2>1, <2>2, <2>3
<1> HIDE DEF at, T
<1> DEFINE l == LastOf(d, at)
<1>7. IsLast(d, at, l)
  BY <1>6, LastFacts
<1>8. /\ l \in at..Len(d) /\ (\A j \in (at + 1)..l : Continues(d[j]))
      /\ l = Len(d) \/ ~Continues(d[l + 1])
  BY <1>7 DEF IsLast
<1>9. Span(d, at) \in Seq(Line)
  BY <1>6, <1>7, SpanIs
<1> HIDE DEF l
<1>10. l \in at..z
  <2>1. ASSUME l > z PROVE FALSE
    <3>1. z + 1 \in (at + 1)..l /\ z # Len(d)
      BY <1>3, <1>6, <1>8, <2>1
    <3>2. d[z + 1].kind = "header"
      BY <1>2, <3>1 DEF IsEnd
    <3> QED BY <1>8, <3>1, <3>2 DEF Continues
  <2> QED BY <1>3, <1>6, <1>8, <2>1
<1>11. at \in (h + 1)..(z + 1) /\ l \in (at - 1)..z
  BY <1>3, <1>6, <1>10
<1>12. Past(d, at) /\ Past(d, l + 1)
  <2>1. Past(d, at)
    BY <1>6 DEF Past, Continues
  <2>2. l = Len(d) => l + 1 > Len(d)
    BY <1>3
  <2> QED BY <1>8, <2>1, <2>2 DEF Past
<1>13. ASSUME NEW i \in at..l, d[i].kind = "key" PROVE d[i].name = k
  <2>1. i \notin (at + 1)..l
    BY <1>8, <1>13 DEF Continues
  <2>2. i = at
    BY <1>6, <1>10, <2>1
  <2> QED BY <1>6, <2>2
<1>14. ASSUME NEW i \in h..z, d[i].kind = "key" /\ d[i].name = k PROVE i \in at..l
  <2>1. i = at
    BY <1>4, <1>6, <1>14
  <2> QED BY <1>6, <1>10, <2>1
<1>15. InBody(d, h, z, k, at, l)
  BY <1>11, <1>12, <1>13, <1>14 DEF InBody
<1> QED BY <1>9, <1>15 DEF at, l, h, z

\* The place of an option that is not there.
LEMMA LastUsedInBody ==
  ASSUME NEW d \in Seq(Line), NEW s, NEW k, HasSection(d, s), ~HasKey(d, s, k)
  PROVE  InBody(d, HeaderOf(d, s), EndOf(d, s), k, LastUsed(d, s) + 1, LastUsed(d, s))
<1> DEFINE h == HeaderOf(d, s)
           z == EndOf(d, s)
           T == {i \in h..z : i = h \/ d[i] # Blank}
           l == LastUsed(d, s)
<1>1. IsHeader(d, s, h) /\ IsEnd(d, h, z) /\ l = Max(T)
  BY SectionIs DEF LastUsed
<1>2. /\ h \in 1..Len(d) /\ z \in h..Len(d) /\ Len(d) \in Nat
      /\ KeyLines(d, s) = {i \in h..z : d[i].kind = "key"}
      /\ z = Len(d) \/ d[z + 1].kind = "header"
  BY <1>1, KeyLinesAre DEF IsHeader, IsEnd
<1>3. \A i \in h..z : ~(d[i].kind = "key" /\ d[i].name = k)
  BY <1>2 DEF HasKey, KeysOf
<1> HIDE DEF h, z, l
<1>4. l \in T /\ \A i \in T : i <= l
  <2>1. h \in T /\ T \subseteq 0..z /\ z \in Nat
    BY <1>2
  <2> HIDE DEF T
  <2> QED BY <1>1, <2>1, MaxOf
<1>5. l \in h..z /\ l \in Nat
  BY <1>2, <1>4
<1>6. Past(d, l + 1)
  <2>1. CASE l = z
    <3>1. z = Len(d) => l + 1 > Len(d)
      BY <1>2, <2>1
    <3> QED BY <1>2, <2>1, <3>1 DEF Past, Continues
  <2>2. CASE l # z
    <3>1. l + 1 \in h..z /\ ~(l + 1 <= l) /\ l + 1 # h
      BY <1>2, <1>5, <2>2
    <3>2. d[l + 1] = Blank
      BY <1>4, <3>1
    <3> QED BY <3>2 DEF Past, Continues, Blank, LineOf
  <2> QED BY <2>1, <2>2
<1>7. l + 1 \in (h + 1)..(z + 1) /\ l \in ((l + 1) - 1)..z /\ (l + 1)..l = {}
  BY <1>2, <1>5
<1>8. InBody(d, h, z, k, l + 1, l)
  BY <1>3, <1>6, <1>7 DEF InBody
<1> QED BY <1>8 DEF h, z, l

\* A map of options with another value, and with an option less.
WithOption(P, s, k, value) ==
  LET old == IF s \in DOMAIN P THEN P[s] ELSE <<>>
  IN  [r \in DOMAIN P \cup {s} |->
         IF r = s THEN [j \in DOMAIN old \cup {k} |-> IF j = k THEN value ELSE old[j]] ELSE P[r]]

LessOption(P, s, k) ==
  [r \in DOMAIN P |-> IF r = s THEN [j \in DOMAIN P[s] \ {k} |-> P[s][j]] ELSE P[r]]

LEMMA ValueIsSet ==
  ASSUME NEW d \in Seq(Line), Unique(d), NEW s \in Sections, NEW k \in Keys, NEW value \in Values(k)
  PROVE  LET e == ValueSet(d, s, k, value)
         IN  /\ e \in Seq(Line) /\ Unique(e)
             /\ Parsed(e) = WithOption(Parsed(d), s, k, value)
<1> DEFINE P == Parsed(d)
           old == IF s \in DOMAIN P THEN P[s] ELSE <<>>
           there == SectionAdded(d, s)
           at == KeyOf(there, s, k)
           last == LastUsed(there, s)
           e == ValueSet(d, s, k, value)
           A == Parsed(there)
<1>1. /\ there \in Seq(Line) /\ Unique(there) /\ HasSection(there, s)
      /\ A = [r \in DOMAIN P \cup {s} |-> IF r \in DOMAIN P THEN P[r] ELSE <<>>]
  BY SectionNew
<1>2. DOMAIN A = DOMAIN P \cup {s} /\ A[s] = old /\ \A r \in DOMAIN P : A[r] = P[r]
  BY <1>1
<1>3. /\ HasKey(there, s, k) =>
           e = Splice(there, at, LastOf(there, at), Rendered(k, value, Span(there, at)))
      /\ ~HasKey(there, s, k) => e = Splice(there, last + 1, last, Rendered(k, value, <<>>))
  BY DEF ValueSet
<1> HIDE DEF P, old, there, at, last, e, A
<1> DEFINE Done(new) ==
             /\ e \in Seq(Line) /\ Unique(e)
             /\ Parsed(e) = [r \in DOMAIN A |-> IF r = s THEN Changed(A[s], k, new) ELSE A[r]]
<1>4. \E new : new # <<>> /\ ItemsOf(new) = value /\ Done(new)
  <2>1. CASE HasKey(there, s, k)
    <3> DEFINE new == Rendered(k, value, Span(there, at))
    <3>1. /\ InBody(there, HeaderOf(there, s), EndOf(there, s), k, at, LastOf(there, at))
          /\ Span(there, at) \in Seq(Line)
      BY <1>1, <2>1, KeyInBody DEF at
    <3>2. new \in Seq(Line) /\ new # <<>> /\ OptionText(k, new) /\ ItemsOf(new) = value
      BY <3>1, RenderedIs
    <3>3. e = Splice(there, at, LastOf(there, at), new)
      BY <1>3, <2>1
    <3> HIDE DEF new
    <3>4. Done(new)
      BY <1>1, <3>1, <3>2, <3>3, BodyEdited DEF A
    <3> QED BY <3>2, <3>4
  <2>2. CASE ~HasKey(there, s, k)
    <3> DEFINE new == Rendered(k, value, <<>>)
    <3>1. InBody(there, HeaderOf(there, s), EndOf(there, s), k, last + 1, last)
      BY <1>1, <2>2, LastUsedInBody DEF last
    <3>2. new \in Seq(Line) /\ new # <<>> /\ OptionText(k, new) /\ ItemsOf(new) = value
      <4>1. <<>> \in Seq(Line)
        BY EmptySeq
      <4> QED BY <4>1, RenderedIs
    <3>3. e = Splice(there, last + 1, last, new)
      BY <1>3, <2>2
    <3> HIDE DEF new
    <3>4. ASSUME NEW p, p = last + 1 PROVE Done(new)
      <4>1. /\ InBody(there, HeaderOf(there, s), EndOf(there, s), k, p, last)
            /\ e = Splice(there, p, last, new)
        BY <3>1, <3>3, <3>4
      <4> QED BY <1>1, <3>2, <4>1, BodyEdited DEF A
    <3> QED BY <3>2, <3>4
  <2> QED BY <2>1, <2>2
<1>5. PICK new : new # <<>> /\ ItemsOf(new) = value /\ Done(new)
  BY <1>4
<1> DEFINE Opt == [j \in DOMAIN old \cup {k} |-> IF j = k THEN value ELSE old[j]]
<1>6. Changed(A[s], k, new) = Opt
  <2>1. Changed(A[s], k, new) =
          [j \in (DOMAIN old \ {k}) \cup {k} |-> IF j = k THEN value ELSE old[j]]
    BY <1>2, <1>5 DEF Changed
  <2>2. (DOMAIN old \ {k}) \cup {k} = DOMAIN old \cup {k}
    OBVIOUS
  <2> QED BY <2>1, <2>2
<1> HIDE DEF Opt
<1>7. Parsed(e) = [r \in DOMAIN P \cup {s} |-> IF r = s THEN Opt ELSE P[r]]
  <2>1. Parsed(e) = [r \in DOMAIN P \cup {s} |-> IF r = s THEN Opt ELSE A[r]]
    BY <1>2, <1>5, <1>6
  <2>2. \A r \in DOMAIN P \cup {s} : (IF r = s THEN Opt ELSE A[r]) = (IF r = s THEN Opt ELSE P[r])
    BY <1>2
  <2> QED BY <2>1, <2>2
<1>8. Parsed(e) = WithOption(P, s, k, value)
  BY <1>7 DEF WithOption, old, Opt
<1> QED BY <1>5, <1>8 DEF P, e

LEMMA OptionIsRemoved ==
  ASSUME NEW d \in Seq(Line), Unique(d), NEW s, NEW k
  PROVE  LET e == OptionRemoved(d, s, k)
         IN  /\ e \in Seq(Line) /\ Unique(e)
             /\ Parsed(e) = LessOption(Parsed(d), s, k)
<1> DEFINE P == Parsed(d)
           e == OptionRemoved(d, s, k)
<1>1. /\ P = [r \in DOMAIN P |-> P[r]] /\ (\A r : r \in DOMAIN P <=> HasSection(d, r))
      /\ \A r : HasSection(d, r) => P[r] = OptionsOf(d, r)
  BY ParsedIs
<1> HIDE DEF P
<1>2. CASE HasKey(d, s, k)
  <2> DEFINE at == KeyOf(d, s, k)
  <2>1. e = Splice(d, at, LastOf(d, at), <<>>)
    BY <1>2 DEF OptionRemoved
  <2>2. InBody(d, HeaderOf(d, s), EndOf(d, s), k, at, LastOf(d, at)) /\ HasSection(d, s)
    BY <1>2, KeyInBody DEF HasKey
  <2>3. OptionText(k, <<>>) /\ <<>> \in Seq(Line)
    BY EmptySeq DEF OptionText
  <2> HIDE DEF e, at
  <2>4. /\ e \in Seq(Line) /\ Unique(e)
        /\ Parsed(e) = [r \in DOMAIN P |-> IF r = s THEN Changed(P[s], k, <<>>) ELSE P[r]]
    <3>1. ASSUME NEW new, new = <<>>
          PROVE  /\ e \in Seq(Line) /\ Unique(e)
                 /\ Parsed(e) = [r \in DOMAIN P |-> IF r = s THEN Changed(P[s], k, new) ELSE P[r]]
      <4>1. new \in Seq(Line) /\ OptionText(k, new) /\ e = Splice(d, at, LastOf(d, at), new)
        BY <2>1, <2>3, <3>1
      <4> QED BY <2>2, <4>1, BodyEdited DEF P
    <3> QED BY <3>1
  <2>5. Changed(P[s], k, <<>>) = [j \in DOMAIN P[s] \ {k} |-> P[s][j]]
    <3>1. (DOMAIN P[s] \ {k}) \cup {} = DOMAIN P[s] \ {k}
      OBVIOUS
    <3> QED BY <3>1 DEF Changed
  <2>6. Parsed(e) = LessOption(P, s, k)
    BY <2>4, <2>5 DEF LessOption
  <2> QED BY <2>4, <2>6 DEF e, P
<1>3. CASE ~HasKey(d, s, k)
  <2>1. e = d
    BY <1>3 DEF OptionRemoved
  <2>2. ASSUME s \in DOMAIN P PROVE [j \in DOMAIN P[s] \ {k} |-> P[s][j]] = P[s]
    <3> DEFINE f == OptionsOf(d, s)
    <3>1. HasSection(d, s) /\ P[s] = f
      BY <1>1, <2>2
    <3>2. /\ f = [j \in DOMAIN f |-> f[j]]
          /\ DOMAIN f = {d[i].name : i \in KeyLines(d, s)}
      BY <3>1, OptionsAre, SectionIs
    <3>3. \A i \in KeyLines(d, s) : d[i].name # k
      BY <1>3, <3>1 DEF HasKey, KeysOf
    <3> HIDE DEF f
    <3>4. DOMAIN f \ {k} = DOMAIN f
      BY <3>2, <3>3
    <3> QED BY <3>1, <3>2, <3>4
  <2>3. P = [r \in DOMAIN P |->
               IF r = s THEN [j \in DOMAIN P[s] \ {k} |-> P[s][j]] ELSE P[r]]
    <3> DEFINE f == [j \in DOMAIN P[s] \ {k} |-> P[s][j]]
    <3>1. s \in DOMAIN P => f = P[s]
      BY <2>2
    <3> HIDE DEF f
    <3>2. \A r \in DOMAIN P : P[r] = IF r = s THEN f ELSE P[r]
      BY <3>1
    <3>3. P = [r \in DOMAIN P |-> IF r = s THEN f ELSE P[r]]
      BY <1>1, <3>2
    <3> QED BY <3>3 DEF f
  <2>4. P = LessOption(P, s, k)
    <3> HIDE DEF P
    <3> QED BY <2>3 DEF LessOption
  <2> QED BY <2>1, <2>4 DEF P
<1> QED BY <1>2, <1>3
-----------------------------------------------------------------------------
(* Files of any length are edited as the map of their options is.           *)

DocInv == lines \in Seq(Line) /\ Unique(lines) /\ sections = Parsed(lines)

LEMMA AtMostOne ==
  ASSUME NEW T, IsFiniteSet(T), Cardinality(T) <= 1, NEW i \in T, NEW j \in T
  PROVE  i = j
<1>1. Cardinality(T) \in Nat
  BY FS_CardinalityType
<1>2. IsFiniteSet(T \ {i}) /\ Cardinality(T \ {i}) = Cardinality(T) - 1
  BY FS_RemoveElement
<1>3. Cardinality(T \ {i}) \in Nat
  BY <1>2, FS_CardinalityType
<1>4. Cardinality(T \ {i}) = 0
  BY <1>1, <1>2, <1>3
<1>5. T \ {i} = {}
  BY <1>2, <1>4, FS_EmptySet
<1> QED BY <1>5

LEMMA AcceptedIsUnique ==
  ASSUME NEW d \in Seq(Line), Accepted(d)
  PROVE  Unique(d)
<1>0. Len(d) \in Nat /\ \A i \in 1..Len(d) : d[i] \in Line
  OBVIOUS
<1>1. \A i \in Headers(d) : d[i].name \in Sections
  BY <1>0 DEF Headers, Line
<1>2. HeadersOnce(d)
  <2> SUFFICES ASSUME NEW i \in Headers(d), NEW j \in Headers(d), d[i].name = d[j].name
               PROVE  i = j
    BY DEF HeadersOnce
  <2> DEFINE T == Are(d, "header", d[i].name)
  <2>1. i \in T /\ j \in T /\ T \subseteq 1..Len(d)
    BY DEF Are, Headers
  <2>2. Cardinality(T) <= 1
    BY <1>1 DEF Accepted
  <2> HIDE DEF T
  <2>3. IsFiniteSet(1..Len(d))
    BY <1>0, FS_Interval
  <2>4. IsFiniteSet(T)
    BY <2>1, <2>3, FS_Subset
  <2> QED BY <2>1, <2>2, <2>4, AtMostOne
<1>3. ASSUME NEW h \in Headers(d) PROVE KeysOnce(d, d[h].name)
  <2> DEFINE s == d[h].name
  <2>1. HasSection(d, s) /\ s \in Sections
    BY <1>1 DEF HasSection, Are, Headers
  <2> HIDE DEF s
  <2>2. IsHeader(d, s, HeaderOf(d, s)) /\ IsEnd(d, HeaderOf(d, s), EndOf(d, s))
    BY <2>1, SectionIs
  <2>3. KeyLines(d, s) \subseteq 1..Len(d)
    <3> DEFINE a == HeaderOf(d, s)
               z == EndOf(d, s)
    <3>1. /\ KeyLines(d, s) = {i \in a..z : d[i].kind = "key"}
          /\ a \in 1..Len(d) /\ z \in a..Len(d)
      BY <2>2, KeyLinesAre
    <3> HIDE DEF a, z
    <3> QED BY <1>0, <3>1
  <2>4. ASSUME NEW i \in KeyLines(d, s), NEW j \in KeyLines(d, s), d[i].name = d[j].name
        PROVE  i = j
    <3> DEFINE T == KeysOf(d, s, d[i].name)
    <3>1. i \in T /\ j \in T /\ T \subseteq 1..Len(d)
      BY <2>3, <2>4 DEF KeysOf
    <3>2. d[i].name \in Keys
      <4>1. d[i] \in Line /\ d[i].kind = "key"
        BY <1>0, <2>3 DEF KeyLines
      <4> QED BY <4>1 DEF Line
    <3>3. Cardinality(T) <= 1
      BY <2>1, <3>2 DEF Accepted
    <3> HIDE DEF T
    <3>4. IsFiniteSet(1..Len(d))
      BY <1>0, FS_Interval
    <3>5. IsFiniteSet(T)
      BY <3>1, <3>4, FS_Subset
    <3> QED BY <3>1, <3>3, <3>5, AtMostOne
  <2>5. KeysOnce(d, s)
    BY <2>4 DEF KeysOnce
  <2> QED BY <2>5 DEF s
<1> QED BY <1>2, <1>3 DEF Unique

LEMMA ShapesAreLines == Shapes \subseteq Line
<1>1. \A x \in Sections : Header(x) \in Line
  BY DEF Header, LineOf, Line, Names, Separators, NoNote
<1>2. \A k \in Keys : \A v \in Items \cup {NoItem} : \A n \in {NoNote, 1} : KeyLine(k, v, n) \in Line
  BY DEF KeyLine, LineOf, Line, Names, Separators, NoNote
<1>3. ASSUME NEW k \in Scalars, NEW q \in Separators, NEW v \in Items, NEW n \in {NoNote, 1}
      PROVE  KeyLineBy(k, q, v, n) \in Line
  <2>1. KeyLine(k, v, n) \in Line
    BY <1>2 DEF Keys
  <2>2. \A line \in Line : [line EXCEPT !.sep = q] \in Line
    BY DEF Line
  <2> QED BY <2>1, <2>2 DEF KeyLineBy
<1>4. \A x \in Items : \A n \in {NoNote, 1} : ItemLine(x, n) \in Line
  BY DEF ItemLine, LineOf, Line, Names, Separators, NoNote
<1>5. Label(1) \in Line /\ Remark(1) \in Line /\ Blank \in Line
  BY DEF Label, Remark, Blank, LineOf, Line, Names, Separators, NoNote
<1> QED BY <1>1, <1>2, <1>3, <1>4, <1>5 DEF Shapes, Keys

LEMMA NumberedTyped ==
  ASSUME NEW d \in Seq(Line)
  PROVE  Numbered(d) \in Seq(Line)
<1>1. ASSUME NEW i \in 1..Len(d) PROVE [d[i] EXCEPT !.note = @ * i] \in Line
  <2> DEFINE line == d[i]
             by == i
  <2>1. line \in Line /\ by \in Nat
    OBVIOUS
  <2> HIDE DEF line, by
  <2>2. line.note * by \in Nat
    BY <2>1 DEF Line
  <2>3. [line EXCEPT !.note = @ * by] \in Line
    BY <2>1, <2>2 DEF Line
  <2> QED BY <2>3 DEF line, by
<1> QED BY <1>1 DEF Numbered

LEMMA DocInitInv == DocInit => DocInv
<1> SUFFICES ASSUME DocInit PROVE DocInv
  OBVIOUS
<1>1. PICK size \in Sizes : lines \in Documents(size.lines, size.shapes)
  BY DEF DocInit
<1>2. sections = Parsed(lines)
  BY DEF DocInit
<1>3. CASE lines = <<>>
  <2>1. lines \in Seq(Line) /\ Len(lines) = 0
    BY <1>3, EmptySeq
  <2>2. Headers(lines) = {}
    BY <2>1 DEF Headers
  <2> QED BY <1>2, <2>1, <2>2 DEF DocInv, Unique, HeadersOnce
<1>4. CASE lines # <<>>
  <2>1. PICK s \in Sections, rest \in [1..size.lines -> size.shapes] :
           lines = Numbered(<<Header(s)>> \o rest) /\ Accepted(lines)
    BY <1>1, <1>4 DEF Documents
  <2>2. rest \in Seq(Line)
    <3>1. size.lines \in Nat /\ size.shapes \subseteq Line
      BY SizesAssumption, ShapesAreLines
    <3>2. rest \in [1..size.lines -> Line]
      BY <2>1, <3>1
    <3> QED BY <3>1, <3>2, SeqDef
  <2>3. <<Header(s)>> \in Seq(Line)
    BY NewLines
  <2>4. <<Header(s)>> \o rest \in Seq(Line)
    BY <2>2, <2>3, ConcatProperties
  <2>5. lines \in Seq(Line)
    BY <2>1, <2>4, NumberedTyped
  <2> QED BY <1>2, <2>1, <2>5, AcceptedIsUnique DEF DocInv
<1> QED BY <1>3, <1>4

\* What an edit has to show: that the map of the new lines is the edited map of the old ones.
Meant(o, e) == e \in Seq(Line) /\ Unique(e) /\ Parsed(e) = Map!Edited(Parsed(lines), o)

LEMMA EditsAreMeant ==
  ASSUME DocInv, NEW s \in Sections
  PROVE  /\ Meant([do |-> "add_section", section |-> s], SectionAdded(lines, s))
         /\ Meant([do |-> "remove_section", section |-> s], SectionRemoved(lines, s))
         /\ \A k \in Keys :
              /\ Meant([do |-> "remove_option", section |-> s, key |-> k],
                       OptionRemoved(lines, s, k))
              /\ \A value \in Values(k) :
                   Meant([do |-> "set", section |-> s, key |-> k, value |-> value],
                         ValueSet(lines, s, k, value))
<1> DEFINE P == Parsed(lines)
<1>0. lines \in Seq(Line) /\ Unique(lines) /\ P = [r \in DOMAIN P |-> P[r]]
  BY ParsedIs DEF DocInv
<1>1. Meant([do |-> "add_section", section |-> s], SectionAdded(lines, s))
  <2> DEFINE o == [do |-> "add_section", section |-> s]
             e == SectionAdded(lines, s)
  <2>1. /\ e \in Seq(Line) /\ Unique(e)
        /\ Parsed(e) = [r \in DOMAIN P \cup {s} |-> IF r \in DOMAIN P THEN P[r] ELSE <<>>]
    BY <1>0, SectionNew
  <2>2. Map!Edited(P, o) = Map!With(P, s, Map!Options(P, s))
    BY DEF Map!Edited
  <2> HIDE DEF P, o, e
  <2>3. Map!With(P, s, Map!Options(P, s)) =
          [r \in DOMAIN P \cup {s} |-> IF r \in DOMAIN P THEN P[r] ELSE <<>>]
    BY DEF Map!With, Map!Options, Map!Has
  <2> QED BY <2>1, <2>2, <2>3 DEF Meant, P, o, e
<1>2. Meant([do |-> "remove_section", section |-> s], SectionRemoved(lines, s))
  <2> DEFINE o == [do |-> "remove_section", section |-> s]
             e == SectionRemoved(lines, s)
  <2>1. /\ e \in Seq(Line) /\ Unique(e)
        /\ Parsed(e) = [r \in DOMAIN P \ {s} |-> P[r]]
    BY <1>0, SectionTaken
  <2>2. Map!Edited(P, o) = Map!Without(P, s)
    BY DEF Map!Edited
  <2> HIDE DEF P, o, e
  <2> QED BY <2>1, <2>2 DEF Meant, P, o, e, Map!Without
<1>3. ASSUME NEW k \in Keys
      PROVE  Meant([do |-> "remove_option", section |-> s, key |-> k], OptionRemoved(lines, s, k))
  <2> DEFINE o == [do |-> "remove_option", section |-> s, key |-> k]
             e == OptionRemoved(lines, s, k)
  <2>1. /\ e \in Seq(Line) /\ Unique(e)
        /\ Parsed(e) = LessOption(P, s, k)
    BY <1>0, OptionIsRemoved
  <2>2. Map!Edited(P, o) =
          IF Map!Has(P, s) THEN Map!With(P, s, Map!Without(P[s], k)) ELSE P
    BY DEF Map!Edited
  <2> HIDE DEF P, o, e
  <2>3. CASE s \in DOMAIN P
    <3>1. DOMAIN P \cup {s} = DOMAIN P
      BY <2>3
    <3>2. Map!Edited(P, o) = LessOption(P, s, k)
      BY <2>2, <2>3, <3>1 DEF Map!Has, Map!With, Map!Without, LessOption
    <3> QED BY <2>1, <3>2 DEF Meant, P, o, e
  <2>4. CASE s \notin DOMAIN P
    <3>1. Map!Edited(P, o) = P
      BY <2>2, <2>4 DEF Map!Has
    <3>2. Parsed(e) = P
      BY <1>0, <2>1, <2>4 DEF LessOption
    <3> QED BY <2>1, <3>1, <3>2 DEF Meant, P, o, e
  <2> QED BY <2>3, <2>4
<1>4. ASSUME NEW k \in Keys, NEW value \in Values(k)
      PROVE  Meant([do |-> "set", section |-> s, key |-> k, value |-> value],
                   ValueSet(lines, s, k, value))
  <2> DEFINE o == [do |-> "set", section |-> s, key |-> k, value |-> value]
             e == ValueSet(lines, s, k, value)
             old == IF s \in DOMAIN P THEN P[s] ELSE <<>>
  <2>1. /\ e \in Seq(Line) /\ Unique(e)
        /\ Parsed(e) = WithOption(P, s, k, value)
    BY <1>0, ValueIsSet
  <2>2. Map!Edited(P, o) =
          Map!With(P, s, [j \in DOMAIN Map!Options(P, s) \cup {k} |->
                            IF j = k THEN value ELSE P[s][j]])
    BY DEF Map!Edited
  <2>3. Map!Options(P, s) = old
    BY DEF Map!Options, Map!Has
  <2> HIDE DEF P, o, e
  <2>4. \A j \in DOMAIN old : old[j] = P[s][j]
    <3>1. DOMAIN <<>> = {}
      OBVIOUS
    <3> QED BY <3>1
  <2>5. [j \in DOMAIN old \cup {k} |-> IF j = k THEN value ELSE P[s][j]]
          = [j \in DOMAIN old \cup {k} |-> IF j = k THEN value ELSE old[j]]
    BY <2>4
  <2>6. Map!Edited(P, o) = Map!With(P, s, [j \in DOMAIN old \cup {k} |->
                                            IF j = k THEN value ELSE old[j]])
    BY <2>2, <2>3, <2>5
  <2>7. Map!Edited(P, o) = WithOption(P, s, k, value)
    BY <2>6 DEF Map!With, WithOption
  <2> QED BY <2>1, <2>7 DEF Meant, P, o, e
<1> QED BY <1>1, <1>2, <1>3, <1>4

LEMMA DocNextInv == DocInv /\ [DocNext]_docVars => DocInv' /\ [Map!Next]_<<sections, op>>
<1> SUFFICES ASSUME DocInv, [DocNext]_docVars PROVE DocInv' /\ [Map!Next]_<<sections, op>>
  OBVIOUS
<1>1. ASSUME NEW o, NEW e, Does(o, e), Meant(o, e), o # [do |-> "nothing"]
      PROVE  DocInv' /\ Map!Next
  <2>1. op' = o /\ lines' = e /\ sections' = Parsed(e)
    BY <1>1 DEF Does
  <2>2. sections = Parsed(lines)
    BY DEF DocInv
  <2> QED BY <1>1, <2>1, <2>2 DEF DocInv, Meant, Map!Next, Map!NoOp
<1>2. ASSUME NEW s \in Sections, AddSection(s) PROVE DocInv' /\ Map!Next
  <2> DEFINE o == [do |-> "add_section", section |-> s]
  <2>1. o # [do |-> "nothing"]
    <3>1. o.do # "nothing"
      OBVIOUS
    <3> HIDE DEF o
    <3> QED BY <3>1
  <2>2. Does(o, SectionAdded(lines, s)) /\ Meant(o, SectionAdded(lines, s))
    BY <1>2, EditsAreMeant DEF AddSection
  <2> HIDE DEF o
  <2> QED BY <1>1, <2>1, <2>2
<1>3. ASSUME NEW s \in Sections, RemoveSection(s) PROVE DocInv' /\ Map!Next
  <2> DEFINE o == [do |-> "remove_section", section |-> s]
  <2>1. o # [do |-> "nothing"]
    <3>1. o.do # "nothing"
      OBVIOUS
    <3> HIDE DEF o
    <3> QED BY <3>1
  <2>2. Does(o, SectionRemoved(lines, s)) /\ Meant(o, SectionRemoved(lines, s))
    BY <1>3, EditsAreMeant DEF RemoveSection
  <2> HIDE DEF o
  <2> QED BY <1>1, <2>1, <2>2
<1>4. ASSUME NEW s \in Sections, NEW k \in Keys, RemoveOption(s, k) PROVE DocInv' /\ Map!Next
  <2> DEFINE o == [do |-> "remove_option", section |-> s, key |-> k]
  <2>1. o # [do |-> "nothing"]
    <3>1. o.do # "nothing"
      OBVIOUS
    <3> HIDE DEF o
    <3> QED BY <3>1
  <2>2. Does(o, OptionRemoved(lines, s, k)) /\ Meant(o, OptionRemoved(lines, s, k))
    BY <1>4, EditsAreMeant DEF RemoveOption
  <2> HIDE DEF o
  <2> QED BY <1>1, <2>1, <2>2
<1>5. ASSUME NEW s \in Sections, NEW k \in Keys, NEW value \in Values(k), Set(s, k, value)
      PROVE  DocInv' /\ Map!Next
  <2> DEFINE o == [do |-> "set", section |-> s, key |-> k, value |-> value]
  <2>1. o # [do |-> "nothing"]
    <3>1. o.do # "nothing"
      OBVIOUS
    <3> HIDE DEF o
    <3> QED BY <3>1
  <2>2. Does(o, ValueSet(lines, s, k, value)) /\ Meant(o, ValueSet(lines, s, k, value))
    BY <1>5, EditsAreMeant DEF Set
  <2> HIDE DEF o
  <2> QED BY <1>1, <2>1, <2>2
<1>6. CASE UNCHANGED docVars
  BY <1>6 DEF docVars, DocInv
<1> QED BY <1>2, <1>3, <1>4, <1>5, <1>6 DEF DocNext

\* To those who read a file, of whatever length and with whatever comments, blank lines and
\* stray lines, set(), remove_option(), add_section() and remove_section() change the option
\* or the section they name and nothing else.
THEOREM EditsChangeWhatTheyName == DocSpec => ImplementsConfigMap
<1>1. DocInit => Map!Init
  BY DEF DocInit, Map!Init, Map!NoOp
<1> QED BY <1>1, DocInitInv, DocNextInv, PTL DEF DocSpec, ImplementsConfigMap, Map!Spec

-----------------------------------------------------------------------------
(* What a line speaks for.                                                  *)

\* A document that has lines starts with a header.
Headed(d) == Len(d) > 0 => d[1].kind = "header"

\* The header above line i, and the line that line i goes on with.
IsHolder(d, i, g) ==
  /\ g \in 1..i /\ d[g].kind = "header" /\ \A j \in (g + 1)..i : d[j].kind # "header"
IsBase(d, i, b) ==
  /\ b \in 1..i /\ ~Continues(d[b]) /\ \A j \in (b + 1)..i : Continues(d[j])

LEMMA HolderAndBase ==
  ASSUME NEW d \in Seq(Line), Headed(d), NEW i \in 1..Len(d)
  PROVE  (\E g : IsHolder(d, i, g)) /\ \E b : IsBase(d, i, b)
<1>1. Len(d) \in Nat /\ i \in Nat /\ i >= 1 /\ d[1].kind = "header"
  BY DEF Headed
<1>2. \E g : IsHolder(d, i, g)
  <2> DEFINE T == {j \in 1..i : d[j].kind = "header"}
  <2>1. T \subseteq 0..i /\ 1 \in T
    BY <1>1
  <2>2. Max(T) \in T /\ \A j \in T : j <= Max(T)
    <3> HIDE DEF T
    <3> QED BY <1>1, <2>1, MaxOf
  <2>3. PICK g \in T : \A j \in T : j <= g
    BY <2>2
  <2>4. ASSUME NEW j \in (g + 1)..i PROVE d[j].kind # "header"
    BY <2>3, <1>1
  <2>5. IsHolder(d, i, g)
    BY <2>3, <2>4 DEF IsHolder
  <2> QED BY <2>5
<1>3. \E b : IsBase(d, i, b)
  <2> DEFINE T == {j \in 1..i : ~Continues(d[j])}
  <2>1. T \subseteq 0..i /\ 1 \in T
    BY <1>1 DEF Continues
  <2>2. Max(T) \in T /\ \A j \in T : j <= Max(T)
    <3> HIDE DEF T
    <3> QED BY <1>1, <2>1, MaxOf
  <2>3. PICK b \in T : \A j \in T : j <= b
    BY <2>2
  <2>4. ASSUME NEW j \in (b + 1)..i PROVE Continues(d[j])
    BY <2>3, <1>1
  <2>5. IsBase(d, i, b)
    BY <2>3, <2>4 DEF IsBase
  <2> QED BY <2>5
<1> QED BY <1>2, <1>3

LEMMA SectionAtIs ==
  ASSUME NEW d \in Seq(Line), NEW i \in 1..Len(d), NEW g, IsHolder(d, i, g)
  PROVE  SectionAt(d, i) = d[g].name
<1> DEFINE T == {j \in Headers(d) : j <= i}
<1>1. Len(d) \in Nat /\ i \in Nat
  OBVIOUS
<1>2. g \in T /\ T \subseteq 0..i
  BY <1>1 DEF IsHolder, Headers
<1>3. ASSUME NEW j \in T PROVE j <= g
  <2>1. j \in 1..i /\ d[j].kind = "header"
    BY <1>1 DEF Headers
  <2> QED BY <1>1, <2>1 DEF IsHolder
<1> HIDE DEF T
<1>4. Max(T) = g
  BY <1>1, <1>2, <1>3, MaxIs
<1> QED BY <1>4 DEF SectionAt, T

LEMMA OptionAtIs ==
  ASSUME NEW d \in Seq(Line), NEW i \in 1..Len(d), NEW b, IsBase(d, i, b)
  PROVE  OptionAt(d, i) = IF d[b].kind = "key" THEN b ELSE 0
<1> DEFINE T == {j \in 1..i : d[j].kind = "key" /\ LastOf(d, j) >= i}
<1>1. Len(d) \in Nat /\ i \in Nat /\ b \in 1..i /\ b \in 1..Len(d)
  BY DEF IsBase
<1>2. ASSUME NEW j \in T PROVE j = b
  <2>1. j \in 1..i /\ j \in 1..Len(d) /\ d[j].kind = "key" /\ LastOf(d, j) >= i
    BY <1>1
  <2>2. PICK l : IsLast(d, j, l) /\ l = LastOf(d, j)
    BY <2>1, LastFacts
  <2>3. l \in Nat /\ l >= i
    BY <1>1, <2>1, <2>2 DEF IsLast
  <2>4. \A m \in (j + 1)..i : Continues(d[m])
    BY <1>1, <2>1, <2>2, <2>3 DEF IsLast
  <2>5. ~(j < b)
    BY <1>1, <2>1, <2>4 DEF IsBase
  <2>6. ~(j > b)
    BY <1>1, <2>1 DEF IsBase, Continues
  <2> QED BY <1>1, <2>1, <2>5, <2>6
<1>3. ASSUME d[b].kind = "key" PROVE b \in T
  <2>1. PICK l : IsLast(d, b, l) /\ l = LastOf(d, b)
    BY <1>1, LastFacts
  <2>2. l \in Nat /\ l >= b /\ (l = Len(d) \/ ~Continues(d[l + 1]))
    BY <1>1, <2>1 DEF IsLast
  <2>3. ~(l < i)
    BY <1>1, <2>2 DEF IsBase
  <2> QED BY <1>1, <1>3, <2>1, <2>2, <2>3
<1>4. d[b].kind # "key" => b \notin T
  OBVIOUS
<1>5. OptionAt(d, i) = IF T = {} THEN 0 ELSE Max(T)
  BY DEF OptionAt
<1> HIDE DEF T
<1>6. CASE d[b].kind = "key"
  <2>1. b \in T /\ T \subseteq 0..i /\ \A j \in T : j <= b
    BY <1>1, <1>2, <1>3, <1>6
  <2>2. Max(T) = b
    BY <1>1, <2>1, MaxIs
  <2> QED BY <1>5, <1>6, <2>1, <2>2
<1>7. CASE d[b].kind # "key"
  <2>1. T = {}
    BY <1>2, <1>4, <1>7
  <2> QED BY <1>5, <1>7, <2>1
<1> QED BY <1>6, <1>7

\* The subject of a line, from the header above it and the line it goes on with.
SubjectOf(d, i, g, b) ==
  [section |-> d[g].name, kind |-> d[i].kind,
   key |-> IF d[b].kind = "key" THEN d[b].name ELSE NoItem,
   item |-> IF d[i].kind = "item" THEN d[i].name
            ELSE IF d[b].kind = "key" /\ i # b THEN Above(Span(d, b), i - b + 1) ELSE NoItem]

LEMMA SubjectIs ==
  ASSUME NEW d \in Seq(Line), NEW i \in 1..Len(d),
         NEW g, IsHolder(d, i, g), NEW b, IsBase(d, i, b)
  PROVE  Subject(d, i) = SubjectOf(d, i, g, b)
<1>1. SectionAt(d, i) = d[g].name
  BY SectionAtIs
<1>2. OptionAt(d, i) = IF d[b].kind = "key" THEN b ELSE 0
  BY OptionAtIs
<1>3. b # 0
  BY DEF IsBase
<1>4. CASE d[b].kind = "key"
  BY <1>1, <1>2, <1>3, <1>4 DEF Subject, SubjectOf
<1>5. CASE d[b].kind # "key"
  BY <1>1, <1>2, <1>5 DEF Subject, SubjectOf
<1> QED BY <1>4, <1>5

\* A line that is copied with all that it goes on with speaks for the same.
LEMMA SubjectCopied ==
  ASSUME NEW d \in Seq(Line), NEW e \in Seq(Line), NEW by \in Int, NEW i \in 1..Len(d),
         NEW g, IsHolder(d, i, g), NEW b, IsBase(d, i, b),
         NEW f, IsHolder(e, i + by, f), e[f].name = d[g].name,
         \A j \in b..i : j + by \in 1..Len(e) /\ e[j + by] = d[j],
         d[b].kind = "key" => Span(e, b + by) = Span(d, b)
  PROVE  /\ i + by \in 1..Len(e) /\ e[i + by] = d[i]
         /\ Subject(e, i + by) = Subject(d, i)
<1>1. i \in Nat /\ b \in 1..i /\ b \in b..i /\ i \in b..i /\ i + by - (b + by) + 1 = i - b + 1
      /\ (i + by # b + by <=> i # b)
  BY DEF IsBase
<1>2. e[i + by] = d[i] /\ e[b + by] = d[b] /\ i + by \in 1..Len(e) /\ b + by \in 1..Len(e)
  BY <1>1
<1>3. IsBase(e, i + by, b + by)
  <2>1. ASSUME NEW j \in (b + by + 1)..(i + by) PROVE Continues(e[j])
    <3>1. j - by \in (b + 1)..i /\ j - by \in b..i /\ (j - by) + by = j
      BY <1>1
    <3> QED BY <3>1 DEF IsBase
  <2>2. b + by \in 1..(i + by)
    BY <1>1, <1>2
  <2> QED BY <1>2, <2>1, <2>2 DEF IsBase
<1>4. Subject(d, i) = SubjectOf(d, i, g, b)
  BY SubjectIs
<1>5. Subject(e, i + by) = SubjectOf(e, i + by, f, b + by)
  BY <1>2, <1>3, SubjectIs
<1>6. SubjectOf(e, i + by, f, b + by) = SubjectOf(d, i, g, b)
  BY <1>1, <1>2 DEF SubjectOf
<1> QED BY <1>2, <1>4, <1>5, <1>6

\* A note that stays with what it speaks for.
Stays(d, i, e, j) ==
  j \in 1..Len(e) /\ e[j].note = d[i].note /\ Subject(e, j) = Subject(d, i)

\* The text of an option has no header.
LEMMA NoHeader ==
  ASSUME NEW new \in Seq(Line), NEW k, OptionText(k, new), NEW i \in 1..Len(new)
  PROVE  new[i].kind # "header"
<1>1. new # <<>> /\ Len(new) \in Nat
  BY EmptySeq
<1>2. CASE i = 1
  BY <1>1, <1>2 DEF OptionText
<1>3. CASE i # 1
  <2>1. i \in 2..Len(new)
    BY <1>1, <1>3
  <2> QED BY <1>1, <2>1 DEF OptionText, Continues
<1> QED BY <1>2, <1>3

\* A section that is cut ends before a header, or with the document.
Cuts(d, p, q) == (\A j \in p..q : d[j].kind # "header") \/ q = Len(d) \/ d[q + 1].kind = "header"

\* A line that is where it was, below the lines that were there.
LEMMA SameAbove ==
  ASSUME NEW d \in Seq(Line), NEW e \in Seq(Line), Headed(d), NEW i \in 1..Len(d),
         i \in 1..Len(e), \A j \in 1..i : e[j] = d[j] /\ Span(e, j) = Span(d, j)
  PROVE  Stays(d, i, e, i)
<1>1. PICK g, b : IsHolder(d, i, g) /\ IsBase(d, i, b)
  BY HolderAndBase
<1>2. i \in Nat /\ g \in 1..i /\ b \in 1..i /\ i \in 1..i
  BY <1>1 DEF IsHolder, IsBase
<1>3. e[i] = d[i] /\ e[b] = d[b] /\ e[g] = d[g] /\ Span(e, b) = Span(d, b)
  BY <1>2
<1>4. IsHolder(e, i, g)
  BY <1>1, <1>2 DEF IsHolder
<1>5. IsBase(e, i, b)
  BY <1>1, <1>2 DEF IsBase
<1>6. Subject(d, i) = SubjectOf(d, i, g, b)
  BY <1>1, SubjectIs
<1>7. Subject(e, i) = SubjectOf(e, i, g, b)
  BY <1>4, <1>5, SubjectIs
<1>8. SubjectOf(e, i, g, b) = SubjectOf(d, i, g, b)
  BY <1>3 DEF SubjectOf
<1> QED BY <1>3, <1>6, <1>7, <1>8 DEF Stays

LEMMA BeforeStays ==
  ASSUME NEW d \in Seq(Line), NEW p, NEW q, NEW new, NEW e, NEW by, NEW k,
         Spliced(d, p, q, new, e, by), Past(d, p), Past(d, q + 1), OptionText(k, new),
         Headed(d), NEW i \in 1..Len(d), i < p
  PROVE  Stays(d, i, e, i)
<1>1. /\ Len(d) \in Nat /\ p \in 1..(Len(d) + 1) /\ q \in (p - 1)..Len(d) /\ by \in Int
      /\ Len(e) = Len(d) + by /\ e \in Seq(Line) /\ by >= 0 - (q - p + 1)
      /\ \A j \in 1..(p - 1) : e[j] = d[j]
  BY DEF Spliced
<1>2. \A j \in 1..(p - 1) : Span(e, j) = Span(d, j)
  BY SpansStay
<1>3. ASSUME NEW j \in 1..i PROVE e[j] = d[j] /\ Span(e, j) = Span(d, j)
  <2>1. j \in 1..(p - 1)
    BY <1>1
  <2> QED BY <1>1, <1>2, <2>1
<1>4. e \in Seq(Line) /\ i \in 1..Len(e)
  BY <1>1
<1> QED BY <1>3, <1>4, SameAbove

LEMMA BehindStays ==
  ASSUME NEW d \in Seq(Line), NEW p, NEW q, NEW new, NEW e, NEW by, NEW k,
         Spliced(d, p, q, new, e, by), Past(d, p), Past(d, q + 1), OptionText(k, new),
         Headed(d), Cuts(d, p, q), NEW i \in 1..Len(d), i > q
  PROVE  Stays(d, i, e, i + by)
<1>1. /\ Len(d) \in Nat /\ p \in 1..(Len(d) + 1) /\ q \in (p - 1)..Len(d) /\ by \in Int
      /\ Len(e) = Len(d) + by /\ e \in Seq(Line) /\ by = Len(new) - (q - p + 1)
      /\ Len(new) \in Nat /\ new \in Seq(Line)
      /\ (\A j \in 1..(p - 1) : e[j] = d[j])
      /\ \A j \in (q + 1)..Len(d) : e[j + by] = d[j]
  BY DEF Spliced
<1>2. \A j \in (q + 1)..Len(d) : Span(e, j + by) = Span(d, j)
  BY SpansStay
<1>12. /\ Len(d) \in Nat /\ p \in Nat /\ q \in Int /\ by \in Int /\ Len(e) = Len(d) + by
       /\ p >= 1 /\ q >= p - 1 /\ q <= Len(d) /\ by >= p - 1 - q
  BY <1>1
<1>3. PICK g, b : IsHolder(d, i, g) /\ IsBase(d, i, b)
  BY HolderAndBase
<1>4. /\ i \in (q + 1)..Len(d) /\ i + by \in 1..Len(e) /\ g \in 1..i /\ b \in 1..i /\ i \in Nat
      /\ d[g].kind = "header"
  BY <1>1, <1>3 DEF IsHolder, IsBase
<1>5. b \in (q + 1)..i
  <2>1. q + 1 \in 1..i /\ ~(q + 1 > Len(d))
    BY <1>1, <1>4
  <2>2. ~Continues(d[q + 1])
    BY <2>1 DEF Past
  <2>3. ~(b < q + 1)
    BY <1>3, <1>4, <2>1, <2>2 DEF IsBase
  <2> QED BY SMTT(40), <1>1, <1>4, <2>3
<1>6. g \notin p..q
  <2>1. ASSUME g \in p..q PROVE FALSE
    <3>1. q + 1 \in (g + 1)..i /\ q # Len(d)
      BY <1>1, <1>4, <2>1
    <3>2. d[q + 1].kind = "header"
      BY <1>4, <2>1, <3>1 DEF Cuts
    <3> QED BY <1>3, <3>1, <3>2 DEF IsHolder
  <2> QED BY <2>1
<1>7. \E f : IsHolder(e, i + by, f) /\ e[f].name = d[g].name
  <2>1. CASE g > q
    <3>1. g \in (q + 1)..Len(d) /\ g + by \in 1..(i + by)
      <4>1. g \in Nat /\ g <= i /\ i <= Len(d) /\ g >= q + 1
        BY <1>4, <1>12, <2>1
      <4> QED BY <1>12, <4>1
    <3>2. e[g + by] = d[g]
      BY <1>1, <3>1
    <3>3. ASSUME NEW j \in (g + by + 1)..(i + by) PROVE e[j].kind # "header"
      <4>1. j - by \in (g + 1)..i /\ j - by \in (q + 1)..Len(d) /\ (j - by) + by = j
        BY <1>4, <1>12, <3>1
      <4>2. e[j] = d[j - by]
        BY <1>1, <4>1
      <4> QED BY <1>3, <4>1, <4>2 DEF IsHolder
    <3>4. IsHolder(e, i + by, g + by)
      BY <1>4, <3>1, <3>2, <3>3 DEF IsHolder
    <3> QED BY <3>2, <3>4
  <2>2. CASE g < p
    <3>1. g \in 1..(p - 1) /\ g \in 1..(i + by)
      BY <1>1, <1>4, <2>2
    <3>2. e[g] = d[g]
      BY <1>1, <3>1
    <3>3. ASSUME NEW j \in (g + 1)..(i + by) PROVE e[j].kind # "header"
      <4>1. j \in 1..Len(e)
        BY <1>4, <1>12, <3>1
      <4>2. \/ j \in 1..(p - 1) /\ j \in 1..Len(d) /\ e[j] = d[j]
            \/ j - p + 1 \in 1..Len(new) /\ e[j] = new[j - p + 1]
            \/ j - by \in (q + 1)..Len(d) /\ j - by \in 1..Len(d) /\ e[j] = d[j - by]
        BY <4>1, SplicedLines
      <4>3. CASE j \in 1..(p - 1) /\ j \in 1..Len(d) /\ e[j] = d[j]
        <5>1. j \in (g + 1)..i
          BY <1>1, <1>4, <4>3
        <5> QED BY <1>3, <4>3, <5>1 DEF IsHolder
      <4>4. CASE j - p + 1 \in 1..Len(new) /\ e[j] = new[j - p + 1]
        BY <1>1, <4>4, NoHeader
      <4>5. CASE j - by \in (q + 1)..Len(d) /\ j - by \in 1..Len(d) /\ e[j] = d[j - by]
        <5>1. j - by \in (g + 1)..i
          BY <1>1, <1>4, <2>2, <4>5
        <5> QED BY <1>3, <4>5, <5>1 DEF IsHolder
      <4> QED BY <4>2, <4>3, <4>4, <4>5
    <3>4. IsHolder(e, i + by, g)
      BY <1>4, <3>1, <3>2, <3>3 DEF IsHolder
    <3> QED BY <3>2, <3>4
  <2> QED BY <1>1, <1>4, <1>6, <2>1, <2>2
<1>8. PICK f : IsHolder(e, i + by, f) /\ e[f].name = d[g].name
  BY <1>7
<1>9. ASSUME NEW j \in b..i PROVE j + by \in 1..Len(e) /\ e[j + by] = d[j]
  <2>1. j \in (q + 1)..Len(d) /\ j + by \in 1..Len(e)
    BY SMTT(40), <1>1, <1>4, <1>5
  <2> QED BY <1>1, <2>1
<1>10. Span(e, b + by) = Span(d, b)
  <2>1. b \in (q + 1)..Len(d)
    BY <1>1, <1>4, <1>5
  <2> QED BY <1>2, <2>1
<1>11. i + by \in 1..Len(e) /\ e[i + by] = d[i] /\ Subject(e, i + by) = Subject(d, i)
  <2>1. e \in Seq(Line) /\ by \in Int
    BY <1>1
  <2>2. IsHolder(d, i, g) /\ IsBase(d, i, b)
    BY <1>3
  <2>3. IsHolder(e, i + by, f)
    BY <1>8
  <2>4. e[f].name = d[g].name
    BY <1>8
  <2> QED BY <1>9, <1>10, <2>1, <2>2, <2>3, <2>4, SubjectCopied
<1> QED BY <1>11 DEF Stays

\* All lines but those that are replaced stay with what they speak for, and the document
\* starts with a header.
LEMMA OutsideStays ==
  ASSUME NEW d \in Seq(Line), NEW p, NEW q, NEW new, NEW e, NEW by, NEW k,
         Spliced(d, p, q, new, e, by), Past(d, p), Past(d, q + 1), OptionText(k, new),
         Headed(d), Cuts(d, p, q), NEW i \in 1..Len(d), i \notin p..q
  PROVE  \E j : Stays(d, i, e, j)
<1>1. i \in Int /\ p \in Int /\ q \in Int
  BY DEF Spliced
<1>2. CASE i < p
  BY <1>2, BeforeStays
<1>3. CASE i > q
  BY <1>3, BehindStays
<1> QED BY <1>1, <1>2, <1>3

LEMMA SplicedHeaded ==
  ASSUME NEW d \in Seq(Line), NEW p, NEW q, NEW new, NEW e, NEW by,
         Spliced(d, p, q, new, e, by), Headed(d),
         p > 1 \/ (new = <<>> /\ (q = Len(d) \/ d[q + 1].kind = "header"))
  PROVE  Headed(e)
<1> SUFFICES ASSUME Len(e) > 0 PROVE e[1].kind = "header"
  BY DEF Headed
<1>1. /\ Len(d) \in Nat /\ p \in 1..(Len(d) + 1) /\ q \in (p - 1)..Len(d) /\ by \in Int
      /\ Len(e) = Len(d) + by /\ by = Len(new) - (q - p + 1)
      /\ (\A j \in 1..(p - 1) : e[j] = d[j])
      /\ \A j \in (q + 1)..Len(d) : e[j + by] = d[j]
  BY DEF Spliced
<1>2. CASE p > 1
  <2>1. 1 \in 1..(p - 1) /\ Len(d) > 0
    BY <1>1, <1>2
  <2> QED BY <1>1, <2>1 DEF Headed
<1>3. CASE p = 1 /\ new = <<>> /\ (q = Len(d) \/ d[q + 1].kind = "header")
  <2>1. Len(new) = 0
    BY <1>3
  <2>2. by = 0 - q /\ q # Len(d)
    BY <1>1, <1>3, <2>1
  <2>3. q + 1 \in (q + 1)..Len(d) /\ (q + 1) + by = 1
    BY <1>1, <2>2
  <2>4. e[(q + 1) + by] = d[q + 1]
    BY <1>1, <2>3
  <2> QED BY <1>3, <2>2, <2>3, <2>4
<1> QED BY <1>1, <1>2, <1>3

\* Lines below a document change nothing in it.
LEMMA DocumentGoesOn ==
  ASSUME NEW d \in Seq(Line), Headed(d), NEW e \in Seq(Line), Len(e) >= Len(d),
         \A i \in 1..Len(d) : e[i] = d[i], Past(e, Len(d) + 1)
  PROVE  \A i \in 1..Len(d) : Stays(d, i, e, i)
<1>1. Len(d) \in Nat /\ Len(e) \in Nat /\ Len(e) >= Len(d)
  OBVIOUS
<1>2. ASSUME NEW b \in 1..Len(d), NEW zero \in Int, zero = 0 PROVE Span(e, b + zero) = Span(d, b)
  <2>1. PICK l : IsLast(d, b, l)
    BY LastFacts
  <2>2. l \in b..Len(d) /\ (l = Len(d) \/ ~Continues(d[l + 1])) /\ l \in Nat
    BY <1>1, <2>1 DEF IsLast
  <2>3. Past(e, l + zero + 1)
    <3>1. l + zero + 1 = l + 1
      BY <1>2, <2>2
    <3>2. CASE l = Len(d)
      BY <3>1, <3>2
    <3>3. CASE l # Len(d)
      <4>1. l + 1 \in 1..Len(d)
        BY <1>1, <2>2, <3>3
      <4>2. e[l + 1] = d[l + 1]
        BY <4>1
      <4> QED BY <2>2, <3>1, <3>3, <4>2 DEF Past
    <3> QED BY <3>2, <3>3
  <2>4. ASSUME NEW j \in b..l PROVE j + zero \in 1..Len(e) /\ e[j + zero] = d[j]
    <3>1. j \in 1..Len(d) /\ j \in 1..Len(e) /\ j + zero = j
      BY <1>1, <1>2, <2>2
    <3> QED BY <3>1
  <2> QED BY <1>2, <2>1, <2>3, <2>4, SpanCopied
<1>3. ASSUME NEW b \in 1..Len(d) PROVE Span(e, b) = Span(d, b)
  <2>1. b + 0 = b
    BY <1>1
  <2> QED BY <1>2, <2>1
<1>4. ASSUME NEW i \in 1..Len(d) PROVE Stays(d, i, e, i)
  <2>1. i \in 1..Len(e) /\ \A j \in 1..i : j \in 1..Len(d)
    BY <1>1
  <2>2. \A j \in 1..i : e[j] = d[j] /\ Span(e, j) = Span(d, j)
    BY <1>3, <2>1
  <2> QED BY <2>1, <2>2, SameAbove
<1> QED BY <1>4

LEMMA SectionAddedStays ==
  ASSUME NEW d \in Seq(Line), Headed(d), NEW s \in Sections, NEW e, e = SectionAdded(d, s)
  PROVE  Headed(e) /\ \A i \in 1..Len(d) : Stays(d, i, e, i)
<1>1. CASE HasSection(d, s)
  <2>1. e = d
    BY <1>1 DEF SectionAdded
  <2> QED BY <2>1 DEF Stays
<1>2. CASE ~HasSection(d, s) /\ d = <<>>
  <2>1. e = <<>> \o <<>> \o <<Header(s)>>
    BY <1>2 DEF SectionAdded
  <2>2. <<Header(s)>> \in Seq(Line) /\ <<>> \in Seq(Line)
    BY NewLines
  <2>3. e = <<Header(s)>>
    BY <2>1, <2>2, ConcatEmptySeq
  <2>4. Len(d) = 0 /\ 1..0 = {}
    BY <1>2
  <2>5. e[1].kind = "header"
    BY <2>3 DEF Header, LineOf
  <2> QED BY <2>4, <2>5 DEF Headed
<1>3. CASE ~HasSection(d, s) /\ d # <<>>
  <2>1. PICK n \in {Len(d) + 1, Len(d) + 2} :
          /\ e \in Seq(Line) /\ Len(e) = n
          /\ \A i \in 1..Len(d) : e[i] = d[i]
          /\ \A i \in (Len(d) + 1)..(n - 1) : e[i].kind = "blank"
          /\ e[n] = Header(s)
    BY <1>3, SectionAddedLines
  <2>2. Len(d) \in Nat /\ Len(d) > 0 /\ n \in Nat /\ n > Len(d)
    BY <1>3, EmptySeq
  <2>3. Headed(e)
    BY <2>1, <2>2 DEF Headed
  <2>4. ~Continues(e[Len(d) + 1])
    <3>1. CASE n = Len(d) + 1
      BY <2>1, <3>1 DEF Header, Continues, LineOf
    <3>2. CASE n = Len(d) + 2
      <4>1. Len(d) + 1 \in (Len(d) + 1)..(n - 1)
        BY <2>2, <3>2
      <4> QED BY <2>1, <4>1 DEF Continues
    <3> QED BY <3>1, <3>2
  <2>5. Len(e) >= Len(d) /\ Past(e, Len(d) + 1)
    BY <2>1, <2>2, <2>4 DEF Past
  <2> QED BY <2>1, <2>3, <2>5, DocumentGoesOn
<1> QED BY <1>1, <1>2, <1>3

-----------------------------------------------------------------------------
(* Lines of one text within another one.                                   *)

\* The lines of one text within another, behind line r.
Sits(w, r, a) == r \in Nat /\ \A i \in 1..Len(a) : r + i \in 1..Len(w) /\ w[r + i] = a[i]

LEMMA SitsInConcat ==
  ASSUME NEW S, NEW a \in Seq(S), NEW b \in Seq(S)
  PROVE  Sits(a \o b, 0, a) /\ Sits(a \o b, Len(a), b)
<1> DEFINE w == a \o b
           m == Len(a)
           n == Len(b)
<1>1. /\ w \in Seq(S) /\ Len(w) = m + n /\ m \in Nat /\ n \in Nat
      /\ \A i \in 1..(m + n) : w[i] = IF i <= m THEN a[i] ELSE b[i - m]
  BY ConcatProperties
<1> HIDE DEF w, m, n
<1>2. ASSUME NEW i \in 1..m PROVE 0 + i \in 1..Len(w) /\ w[0 + i] = a[i]
  <2>1. 0 + i = i /\ i \in 1..(m + n) /\ i <= m
    BY <1>1
  <2> QED BY <1>1, <2>1
<1>3. ASSUME NEW i \in 1..n PROVE m + i \in 1..Len(w) /\ w[m + i] = b[i]
  <2>1. m + i - m = i /\ m + i \in 1..(m + n) /\ ~(m + i <= m)
    BY <1>1
  <2> QED BY <1>1, <2>1
<1>4. Sits(w, 0, a)
  BY <1>2 DEF Sits, m
<1>5. Sits(w, m, b)
  BY <1>1, <1>3 DEF Sits, n
<1> QED BY <1>4, <1>5 DEF w, m

LEMMA SitsWithin ==
  ASSUME NEW S, NEW w \in Seq(S), NEW v \in Seq(S), NEW a \in Seq(S), NEW r, NEW t,
         Sits(w, r, v), Sits(v, t, a)
  PROVE  Sits(w, r + t, a)
<1>1. r \in Nat /\ t \in Nat /\ r + t \in Nat
  BY DEF Sits
<1>2. ASSUME NEW i \in 1..Len(a) PROVE r + t + i \in 1..Len(w) /\ w[r + t + i] = a[i]
  <2>1. t + i \in 1..Len(v) /\ v[t + i] = a[i]
    BY DEF Sits
  <2>2. r + (t + i) \in 1..Len(w) /\ w[r + (t + i)] = v[t + i]
    BY <2>1 DEF Sits
  <2>3. r + (t + i) = r + t + i
    BY <1>1
  <2> QED BY <2>1, <2>2, <2>3
<1> QED BY <1>1, <1>2 DEF Sits

LEMMA FlattenSits ==
  ASSUME NEW S, NEW seqs \in Seq(Seq(S)), NEW q \in 1..Len(seqs)
  PROVE  \E r : Sits(FlattenSeq(seqs), r, seqs[q])
<1> DEFINE Good(c) == \A i \in 1..Len(c) : \E r : Sits(FlattenSeq(c), r, c[i])
           G == {c \in Seq(Seq(S)) : Good(c)}
<1>1. <<>> \in G
  OBVIOUS
<1>2. ASSUME NEW c \in Seq(Seq(S)) \cap G, NEW x \in Seq(S) PROVE Append(c, x) \in G
  <2> DEFINE b == Append(c, x)
             F == FlattenSeq(c)
             n == Len(c)
  <2>1. /\ b \in Seq(Seq(S)) /\ Len(b) = n + 1 /\ n \in Nat /\ b[n + 1] = x
        /\ \A i \in 1..n : b[i] = c[i]
    BY AppendProperties
  <2>2. F \in Seq(S) /\ FlattenSeq(b) = F \o x
    BY FlattenTyped, FlattenAppend
  <2>3. Good(c)
    BY <1>2
  <2>4. F \o x \in Seq(S)
    BY <2>2, ConcatProperties
  <2> HIDE DEF b
  <2>5. ASSUME NEW i \in 1..(n + 1) PROVE \E r : Sits(FlattenSeq(b), r, b[i])
    <3>1. CASE i = n + 1
      <4>1. Sits(F \o x, Len(F), x)
        <5> HIDE DEF F
        <5> QED BY <2>2, SitsInConcat
      <4> QED BY <2>1, <2>2, <3>1, <4>1
    <3>2. CASE i # n + 1
      <4>1. i \in 1..n /\ b[i] = c[i] /\ c[i] \in Seq(S)
        BY <2>1, <3>2
      <4>2. PICK r : Sits(F, r, c[i])
        BY <2>3, <4>1
      <4>3. Sits(F \o x, 0, F)
        <5> HIDE DEF F
        <5> QED BY <2>2, SitsInConcat
      <4> HIDE DEF F
      <4>4. Sits(F \o x, 0 + r, c[i])
        BY <2>2, <2>4, <4>1, <4>2, <4>3, SitsWithin
      <4> QED BY <2>2, <4>1, <4>4
    <3> QED BY <3>1, <3>2
  <2>6. Good(b)
    BY <2>1, <2>5
  <2> QED BY <2>1, <2>6 DEF b
<1> HIDE DEF G
<1>3. Seq(Seq(S)) \subseteq G
  BY <1>1, <1>2, SeqInduction
<1>4. Good(seqs)
  BY <1>3 DEF G
<1> QED BY <1>4

-----------------------------------------------------------------------------
(* The item that a label is above.                                          *)

LEMMA AboveIs ==
  ASSUME NEW w \in Seq(Line), NEW i \in 1..Len(w), NEW n \in i..Len(w),
         w[n].kind = "item", \A j \in i..(n - 1) : w[j].kind # "item"
  PROVE  Above(w, i) = w[n].name
<1> DEFINE T == {j \in i..Len(w) : w[j].kind = "item"}
<1>1. T \subseteq Nat /\ n \in T
  OBVIOUS
<1>2. ASSUME NEW j \in T PROVE n <= j
  <2>1. j \notin i..(n - 1) /\ j \in i..Len(w)
    OBVIOUS
  <2> QED BY <2>1
<1>3. Above(w, i) = IF T = {} THEN NoItem ELSE w[Min(T)].name
  BY DEF Above
<1> HIDE DEF T
<1>4. Min(T) = n
  BY <1>1, <1>2, MinIs
<1> QED BY <1>1, <1>3, <1>4

LEMMA AboveNone ==
  ASSUME NEW w \in Seq(Line), NEW i \in 1..Len(w), \A j \in i..Len(w) : w[j].kind # "item"
  PROVE  Above(w, i) = NoItem
BY DEF Above

\* A label above an item that is there once has no item between it and the others above it.
LEMMA LabelIsLast ==
  ASSUME NEW span \in Seq(Line), NEW m \in 1..Len(span), span[m].kind = "label",
         \/ Above(span, m) = NoItem
         \/ Cardinality(Are(span, "item", Above(span, m))) = 1
  PROVE  m \in LastNotesAbove(span, Above(span, m))
<1> DEFINE x == Above(span, m)
           After(i) == {j \in i..Len(span) : span[j].kind = "item"}
<1>1. ASSUME NEW i \in 1..Len(span)
      PROVE  /\ After(i) \subseteq Nat /\ After(i) \subseteq i..Len(span)
             /\ After(i) # {} => /\ Min(After(i)) \in After(i)
                                /\ \A k \in After(i) : Min(After(i)) <= k
                                /\ Above(span, i) = span[Min(After(i))].name
             /\ After(i) = {} => Above(span, i) = NoItem
  <2>1. After(i) \subseteq Nat /\ After(i) \subseteq i..Len(span)
    OBVIOUS
  <2>2. Above(span, i) = IF After(i) = {} THEN NoItem ELSE span[Min(After(i))].name
    BY DEF Above
  <2> DEFINE T == After(i)
  <2> HIDE DEF After
  <2>3. T # {} => Min(T) \in T /\ \A k \in T : Min(T) <= k
    BY <2>1, MinOf
  <2> QED BY <2>1, <2>2, <2>3
<1>2. SUFFICES ASSUME NEW j \in NotesAbove(span, x), NEW k \in m..j, span[k].kind = "item"
               PROVE  FALSE
  <2>1. m \in NotesAbove(span, x)
    BY DEF NotesAbove
  <2> HIDE DEF x
  <2> QED BY <1>2, <2>1 DEF LastNotesAbove, x
<1>3. j \in 1..Len(span) /\ span[j].kind = "label" /\ Above(span, j) = x /\ k \in 1..Len(span)
  BY DEF NotesAbove
<1>4. k \in After(m)
  BY <1>2, <1>3
<1> DEFINE a == Min(After(m))
           b == Min(After(j))
<1>5. a \in m..k /\ span[a].kind = "item" /\ span[a].name = x
  <2>1. a \in After(m) /\ a <= k /\ x = span[a].name
    BY <1>1, <1>4
  <2> HIDE DEF x, a
  <2> QED BY <2>1, <1>1
<1>6. a \in 1..Len(span) /\ x \in Items /\ x # NoItem
  <2>1. a \in 1..Len(span)
    <3> HIDE DEF a, x
    <3> QED BY <1>3, <1>5
  <2> HIDE DEF a, x
  <2>2. span[a] \in Line
    BY <2>1
  <2> QED BY <1>5, <2>1, <2>2, CfgDocAssumption DEF Line
<1>7. b \in j..Len(span) /\ span[b].kind = "item" /\ span[b].name = x
  <2>1. After(j) # {}
    BY <1>1, <1>3, <1>6
  <2>2. b \in After(j) /\ x = span[b].name
    BY <1>1, <1>3, <2>1
  <2> HIDE DEF x, b
  <2> QED BY <2>2
<1> HIDE DEF a, b, x, After
<1>8. a # b
  <2>1. b # j
    BY <1>3, <1>7
  <2> QED BY <1>2, <1>3, <1>5, <1>7, <2>1
<1>9. a \in Are(span, "item", x) /\ b \in Are(span, "item", x)
  <2>1. b \in 1..Len(span)
    BY <1>3, <1>7
  <2> QED BY <1>5, <1>6, <1>7, <2>1 DEF Are
<1>10. Cardinality(Are(span, "item", x)) <= 1
  BY <1>6 DEF x
<1>11. IsFiniteSet(Are(span, "item", x))
  <2>1. IsFiniteSet(1..Len(span)) /\ Are(span, "item", x) \subseteq 1..Len(span)
    BY FS_Interval DEF Are
  <2> QED BY <2>1, FS_Subset
<1> QED BY <1>8, <1>9, <1>10, <1>11, AtMostOne

\* A label above such an item is among the labels that are copied for it.
LEMMA LabelSits ==
  ASSUME NEW span \in Seq(Line), NEW m \in 1..Len(span), span[m].kind = "label",
         \/ Above(span, m) = NoItem
         \/ Cardinality(Are(span, "item", Above(span, m))) = 1
  PROVE  LET a == LabelsAbove(span, Above(span, m))
         IN  \E t \in 1..Len(a) : a[t] = Label(span[m].note)
<1> DEFINE x == Above(span, m)
           f == [i \in 1..Len(span) |-> IF i \in LastNotesAbove(span, x)
                                          THEN <<Label(span[i].note)>> ELSE <<>>]
<1>1. ASSUME NEW i \in 1..Len(span) PROVE f[i] \in Seq(Labels)
  <2>1. span[i].note \in Nat
    BY DEF Line
  <2>2. <<Label(span[i].note)>> \in Seq(Labels) /\ <<>> \in Seq(Labels)
    BY <2>1 DEF Labels
  <2> QED BY <2>2
<1>2. f \in Seq(Seq(Labels)) /\ m \in 1..Len(f)
  BY <1>1
<1>3. LabelsAbove(span, x) = FlattenSeq(f)
  BY DEF LabelsAbove
<1>4. f[m] = <<Label(span[m].note)>>
  BY LabelIsLast
<1> HIDE DEF f, x
<1>5. PICK r : Sits(FlattenSeq(f), r, f[m])
  BY <1>2, FlattenSits
<1>6. 1 \in 1..Len(f[m]) /\ f[m][1] = Label(span[m].note)
  BY <1>4
<1>7. r + 1 \in 1..Len(FlattenSeq(f)) /\ FlattenSeq(f)[r + 1] = Label(span[m].note)
  BY <1>5, <1>6 DEF Sits
<1> QED BY <1>3, <1>7 DEF x

\* The note beside an item that is there once.
LEMMA NoteBesideIs ==
  ASSUME NEW span \in Seq(Line), NEW m \in 1..Len(span), span[m].kind = "item",
         span[m].note # NoNote, Cardinality(Are(span, "item", span[m].name)) = 1
  PROVE  NoteBeside(span, span[m].name) = span[m].note
<1> DEFINE x == span[m].name
           A == Are(span, "item", x)
           T == {i \in A : span[i].note # NoNote}
<1>1. m \in A /\ A \subseteq 1..Len(span) /\ Len(span) \in Nat
  BY DEF Are
<1>2. m \in T /\ T \subseteq A
  BY <1>1
<1>3. NoteBeside(span, x) = IF T = {} THEN NoNote ELSE span[Max(T)].note
  BY DEF NoteBeside
<1>4. Cardinality(A) <= 1
  OBVIOUS
<1> HIDE DEF A, T
<1>5. IsFiniteSet(A)
  <2>1. IsFiniteSet(1..Len(span))
    BY <1>1, FS_Interval
  <2> QED BY <1>1, <2>1, FS_Subset
<1>6. \A i \in T : i = m
  BY <1>1, <1>2, <1>4, <1>5, AtMostOne
<1>7. Max(T) = m
  <2>1. T \subseteq 0..Len(span) /\ \A i \in T : i <= m
    BY <1>1, <1>2, <1>6
  <2> QED BY <1>1, <1>2, <2>1, MaxIs
<1> QED BY <1>2, <1>3, <1>7

-----------------------------------------------------------------------------
(* The notes in a block that is written anew.                               *)

LEMMA BlockBuilt ==
  ASSUME NEW k \in Lists, NEW items \in Seq(Items), items # <<>>, NEW span \in Seq(Line)
  PROVE  LET B == Block(k, items, span)
             F == Parts(span, items)
             L == LabelsAbove(span, NoItem)
         IN  /\ B \in Seq(Line) /\ F \in Seq(Line) /\ L \in Seq(Line) /\ Len(F) \in Nat
             /\ Sits(B, 1, F) /\ Sits(B, 1 + Len(F), L) /\ Len(B) = 1 + Len(F) + Len(L)
<1> DEFINE key == KeyLine(k, NoItem, NoNote)
           F == Parts(span, items)
           L == LabelsAbove(span, NoItem)
           B == Block(k, items, span)
           G == F \o L
<1>1. key \in Line
  BY DEF KeyLine, Line, Keys, Names, NoNote, LineOf, Separators
<1>2. F \in Seq(Below) /\ L \in Seq(Labels) /\ L \in Seq(Below)
  BY PartsAre, LabelsAboveTyped, LabelsAreBelow, SeqMonotonic
<1>3. B = <<key>> \o F \o L
  BY DEF Block, Parts, Part
<1> HIDE DEF key, F, L, B, G
<1>4. F \in Seq(Line) /\ L \in Seq(Line) /\ <<key>> \in Seq(Line)
  BY <1>1, <1>2, LabelsAreBelow, SeqMonotonic
<1>5. B = <<key>> \o G
  BY <1>3, <1>4, ConcatAssociative DEF G
<1>6. /\ G \in Seq(Line) /\ Len(G) = Len(F) + Len(L) /\ Len(F) \in Nat /\ Len(L) \in Nat
      /\ Sits(G, 0, F) /\ Sits(G, Len(F), L)
  <2>1. G \in Seq(Line) /\ Len(G) = Len(F) + Len(L)
    BY <1>4, ConcatProperties DEF G
  <2>2. Sits(G, 0, F) /\ Sits(G, Len(F), L)
    BY <1>4, SitsInConcat DEF G
  <2>3. Len(F) \in Nat /\ Len(L) \in Nat
    BY <1>4
  <2> QED BY <2>1, <2>2, <2>3
<1>7. B \in Seq(Line) /\ Len(B) = 1 + Len(G) /\ Sits(B, 1, G)
  <2>1. Len(<<key>>) = 1
    OBVIOUS
  <2>2. B \in Seq(Line) /\ Len(B) = Len(<<key>>) + Len(G)
    BY <1>4, <1>5, <1>6, ConcatProperties
  <2>3. Sits(B, Len(<<key>>), G)
    BY <1>4, <1>5, <1>6, SitsInConcat
  <2> QED BY <2>1, <2>2, <2>3
<1>8. Sits(B, 1 + 0, F)
  BY <1>4, <1>6, <1>7, SitsWithin
<1>9. Sits(B, 1 + Len(F), L)
  BY <1>4, <1>6, <1>7, SitsWithin
<1>10. 1 + 0 = 1 /\ Len(B) = 1 + Len(F) + Len(L)
  BY <1>6, <1>7
<1> QED BY <1>4, <1>6, <1>7, <1>8, <1>9, <1>10 DEF B, F, L

\* The lines of an item are somewhere in the block.
LEMMA PartInBlock ==
  ASSUME NEW k \in Lists, NEW items \in Seq(Items), NEW x \in ToSet(items), NEW span \in Seq(Line)
  PROVE  \E r \in Nat \ {0} : Sits(Block(k, items, span), r, Part(span, x))
<1> DEFINE f == [i \in 1..Len(items) |-> Part(span, items[i])]
           F == Parts(span, items)
           B == Block(k, items, span)
<1>1. PICK q \in 1..Len(items) : x = items[q]
  BY DEF ToSet
<1>2. \A i \in 1..Len(items) : Part(span, items[i]) \in Seq(Below)
  BY PartIs
<1>3. f \in Seq(Seq(Below)) /\ q \in 1..Len(f) /\ f[q] = Part(span, x)
  BY <1>1, <1>2
<1>4. F = FlattenSeq(f)
  BY DEF Parts
<1>5. items # <<>>
  BY <1>1
<1>6. B \in Seq(Line) /\ F \in Seq(Line) /\ Sits(B, 1, F)
  BY <1>5, BlockBuilt
<1>7. Part(span, x) \in Seq(Line)
  BY <1>1, <1>2, LabelsAreBelow, SeqMonotonic
<1> HIDE DEF f, F, B
<1>8. PICK r : Sits(F, r, f[q])
  BY <1>3, <1>4, FlattenSits
<1>9. Sits(B, 1 + r, Part(span, x))
  BY <1>3, <1>6, <1>7, <1>8, SitsWithin
<1>10. 1 + r \in Nat \ {0}
  BY <1>8 DEF Sits
<1> QED BY <1>9, <1>10 DEF B

LEMMA PartLines ==
  ASSUME NEW span \in Seq(Line), NEW x \in Items
  PROVE  LET a == LabelsAbove(span, x)
             part == Part(span, x)
         IN  /\ a \in Seq(Labels) /\ part \in Seq(Line)
             /\ Len(a) \in Nat /\ Len(part) = Len(a) + 1
             /\ \A i \in 1..Len(a) : part[i] = a[i] /\ part[i].kind = "label"
             /\ part[Len(a) + 1] = ItemLine(x, NoteBeside(span, x))
<1> DEFINE a == LabelsAbove(span, x)
           y == ItemLine(x, NoteBeside(span, x))
           part == Append(a, y)
<1>1. a \in Seq(Labels)
  BY LabelsAboveTyped
<1>2. y \in Line
  BY NoteBesideTyped DEF ItemLine, Line, Names, LineOf, Separators
<1> HIDE DEF a, y
<1>3. a \in Seq(Line)
  BY <1>1, LabelsAreBelow, SeqMonotonic
<1>4. /\ part \in Seq(Line) /\ Len(part) = Len(a) + 1 /\ part[Len(a) + 1] = y
      /\ \A i \in 1..Len(a) : part[i] = a[i]
  BY <1>2, <1>3, AppendProperties
<1>5. \A i \in 1..Len(a) : a[i].kind = "label"
  BY <1>1 DEF Labels, Label, LineOf
<1>6. part = Part(span, x)
  BY DEF Part, a, y
<1> QED BY <1>1, <1>3, <1>4, <1>5, <1>6 DEF a, y

LEMMA ItemInBlock ==
  ASSUME NEW k \in Lists, NEW items \in Seq(Items), NEW x \in ToSet(items), NEW span \in Seq(Line)
  PROVE  LET B == Block(k, items, span)
         IN  \E r \in 2..Len(B) : B[r] = ItemLine(x, NoteBeside(span, x))
<1> DEFINE B == Block(k, items, span)
           a == LabelsAbove(span, x)
           part == Part(span, x)
<1>1. PICK r \in Nat \ {0} : Sits(B, r, part)
  BY PartInBlock
<1>2. x \in Items
  BY DEF ToSet
<1>3. /\ Len(a) \in Nat /\ Len(part) = Len(a) + 1
      /\ part[Len(a) + 1] = ItemLine(x, NoteBeside(span, x))
  BY <1>2, PartLines
<1> HIDE DEF B, a, part
<1>4. Len(a) + 1 \in 1..Len(part)
  BY <1>3
<1>5. r + (Len(a) + 1) \in 1..Len(B) /\ B[r + (Len(a) + 1)] = part[Len(a) + 1]
  BY <1>1, <1>4 DEF Sits
<1>6. r + (Len(a) + 1) \in 2..Len(B)
  BY <1>3, <1>5
<1> QED BY <1>3, <1>5, <1>6 DEF B

LEMMA LabelsInBlock ==
  ASSUME NEW k \in Lists, NEW items \in Seq(Items), NEW x \in ToSet(items), NEW span \in Seq(Line),
         NEW t \in 1..Len(LabelsAbove(span, x))
  PROVE  LET B == Block(k, items, span)
         IN  \E r \in 2..Len(B) : B[r] = LabelsAbove(span, x)[t] /\ Above(B, r) = x
<1> DEFINE B == Block(k, items, span)
           a == LabelsAbove(span, x)
           part == Part(span, x)
           n == Len(a) + 1
<1>1. PICK r \in Nat \ {0} : Sits(B, r, part)
  BY PartInBlock
<1>2. x \in Items /\ items # <<>>
  BY DEF ToSet
<1>3. /\ Len(a) \in Nat /\ Len(part) = n
      /\ \A i \in 1..Len(a) : part[i] = a[i] /\ part[i].kind = "label"
      /\ part[n] = ItemLine(x, NoteBeside(span, x))
  BY <1>2, PartLines
<1>4. B \in Seq(Line)
  BY <1>2, BlockBuilt
<1>5. t \in 1..Len(a)
  OBVIOUS
<1> HIDE DEF B, a, part
<1>6. \A i \in 1..n : r + i \in 1..Len(B) /\ B[r + i] = part[i]
  BY <1>1, <1>3 DEF Sits
<1>7. r + t \in 2..Len(B) /\ B[r + t] = a[t]
  BY SMTT(40), <1>3, <1>5, <1>6
<1>8. r + n \in (r + t)..Len(B) /\ B[r + n] = ItemLine(x, NoteBeside(span, x))
  BY <1>3, <1>5, <1>6
<1>9. ASSUME NEW j \in (r + t)..(r + n - 1) PROVE B[j].kind # "item"
  <2>1. j - r \in 1..Len(a) /\ j - r \in 1..n /\ r + (j - r) = j
    BY <1>3, <1>5
  <2>2. B[j] = part[j - r]
    BY <1>6, <2>1
  <2> QED BY <1>3, <2>1, <2>2
<1>10. Above(B, r + t) = x
  <2>1. B[r + n].kind = "item" /\ B[r + n].name = x
    BY <1>8 DEF ItemLine, LineOf
  <2>2. r + t \in 1..Len(B)
    BY <1>7
  <2> QED BY <1>4, <1>8, <1>9, <2>1, <2>2, AboveIs
<1> QED BY <1>7, <1>10 DEF B, a

LEMMA LastLabelsInBlock ==
  ASSUME NEW k \in Lists, NEW items \in Seq(Items), items # <<>>, NEW span \in Seq(Line),
         NEW t \in 1..Len(LabelsAbove(span, NoItem))
  PROVE  LET B == Block(k, items, span)
         IN  \E r \in 2..Len(B) : B[r] = LabelsAbove(span, NoItem)[t] /\ Above(B, r) = NoItem
<1> DEFINE B == Block(k, items, span)
           L == LabelsAbove(span, NoItem)
           m == 1 + Len(Parts(span, items))
<1>1. B \in Seq(Line) /\ L \in Seq(Line) /\ m \in Nat \ {0} /\ Sits(B, m, L) /\ Len(B) = m + Len(L)
  BY BlockBuilt
<1>2. L \in Seq(Labels) /\ t \in 1..Len(L) /\ Len(L) \in Nat
  BY LabelsAboveTyped
<1> HIDE DEF B, L, m
<1>3. \A i \in 1..Len(L) : m + i \in 1..Len(B) /\ B[m + i] = L[i]
  BY <1>1 DEF Sits
<1>4. m + t \in 2..Len(B) /\ m + t \in 1..Len(B) /\ B[m + t] = L[t]
  BY <1>1, <1>2, <1>3
<1>5. ASSUME NEW j \in (m + t)..Len(B) PROVE B[j].kind # "item"
  <2>1. j - m \in 1..Len(L) /\ m + (j - m) = j
    BY <1>1, <1>2
  <2>2. B[j] = L[j - m]
    BY <1>3, <2>1
  <2> QED BY <1>2, <2>1, <2>2 DEF Labels, Label, LineOf
<1>6. Above(B, m + t) = NoItem
  BY <1>1, <1>4, <1>5, AboveNone
<1> QED BY <1>4, <1>6 DEF B, L

\* What line r of the text of an option speaks for.
TextSubject(s, k, text, r) ==
  [section |-> s, kind |-> text[r].kind, key |-> k,
   item |-> IF text[r].kind = "item" THEN text[r].name
            ELSE IF r # 1 THEN Above(text, r) ELSE NoItem]

\* The notes of a text that another text for the same option keeps.
KeptInText(s, k, text, r, value) ==
  LET sub == TextSubject(s, k, text, r)
  IN  IF k \in Scalars THEN Len(text) = 1 /\ ~Cut(text[1])
      ELSE \/ sub.item # NoItem /\ sub.item \in ToSet(value)
              /\ Cardinality(Are(text, "item", sub.item)) = 1
           \/ sub.kind = "label" /\ sub.item = NoItem /\ value # <<>>

\* A note in the lines of a list, by what it is beside or above.
LEMMA NoteKeptInList ==
  ASSUME NEW s, NEW k \in Lists, NEW value \in Values(k), NEW span \in Seq(Line),
         NEW m \in 2..Len(span), Continues(span[m]), span[m].note # NoNote,
         KeptInText(s, k, span, m, value)
  PROVE  LET B == Block(k, value, span)
         IN  \E r \in 2..Len(B) :
               B[r].note = span[m].note /\ TextSubject(s, k, B, r) = TextSubject(s, k, span, m)
<1> DEFINE B == Block(k, value, span)
           n == span[m].note
<1>1. value \in Seq(Items) /\ k \notin Scalars
  BY ListValues
<1>2. m \in 1..Len(span) /\ m # 1
  OBVIOUS
<1>3. CASE span[m].kind = "item"
  <2> DEFINE x == span[m].name
  <2>1. x \in ToSet(value) /\ Cardinality(Are(span, "item", x)) = 1
    BY <1>1, <1>3 DEF KeptInText, TextSubject
  <2>2. NoteBeside(span, x) = n
    BY <1>2, <1>3, <2>1, NoteBesideIs
  <2>3. PICK r \in 2..Len(B) : B[r] = ItemLine(x, NoteBeside(span, x))
    BY <1>1, <2>1, ItemInBlock
  <2> HIDE DEF B
  <2>4. B[r].kind = "item" /\ B[r].name = x /\ B[r].note = n
    BY <2>2, <2>3 DEF ItemLine, LineOf
  <2>5. TextSubject(s, k, B, r) = TextSubject(s, k, span, m)
    BY <1>3, <2>4 DEF TextSubject
  <2> QED BY <2>4, <2>5 DEF B
<1>4. CASE span[m].kind = "label"
  <2> DEFINE x == Above(span, m)
             a == LabelsAbove(span, x)
  <2>1. PICK t \in 1..Len(a) : a[t] = Label(n)
    <3>1. x = NoItem \/ Cardinality(Are(span, "item", x)) = 1
      BY <1>1, <1>2, <1>4 DEF KeptInText, TextSubject
    <3> QED BY <1>2, <1>4, <3>1, LabelSits
  <2>2. \/ x \in ToSet(value)
        \/ x = NoItem /\ value # <<>>
    BY <1>1, <1>2, <1>4 DEF KeptInText, TextSubject
  <2>3. \E r \in 2..Len(B) : B[r] = Label(n) /\ Above(B, r) = x
    <3>1. CASE x \in ToSet(value)
      <4>1. \E r \in 2..Len(B) : B[r] = a[t] /\ Above(B, r) = x
        BY <1>1, <3>1, LabelsInBlock
      <4> QED BY <2>1, <4>1
    <3>2. CASE x = NoItem /\ value # <<>>
      <4>1. t \in 1..Len(LabelsAbove(span, NoItem)) /\ LabelsAbove(span, NoItem)[t] = Label(n)
        BY <2>1, <3>2
      <4>2. \E r \in 2..Len(B) : B[r] = LabelsAbove(span, NoItem)[t] /\ Above(B, r) = NoItem
        BY <1>1, <3>2, <4>1, LastLabelsInBlock
      <4> QED BY <3>2, <4>1, <4>2
    <3> QED BY <2>2, <3>1, <3>2
  <2>4. PICK r \in 2..Len(B) : B[r] = Label(n) /\ Above(B, r) = x
    BY <2>3
  <2> HIDE DEF B
  <2>5. B[r].kind = "label" /\ B[r].note = n /\ r # 1
    BY <2>4 DEF Label, LineOf
  <2>6. TextSubject(s, k, B, r) = TextSubject(s, k, span, m)
    BY <1>2, <1>4, <2>4, <2>5 DEF TextSubject
  <2> QED BY <2>5, <2>6 DEF B
<1> QED BY <1>3, <1>4 DEF Continues

LEMMA NoteKept ==
  ASSUME NEW s, NEW k \in Keys, NEW value \in Values(k), NEW span \in Seq(Line),
         OptionText(k, span), NEW m \in 1..Len(span), span[m].note # NoNote,
         KeptInText(s, k, span, m, value)
  PROVE  LET new == Rendered(k, value, span)
         IN  \E r \in 1..Len(new) :
               new[r].note = span[m].note /\ TextSubject(s, k, new, r) = TextSubject(s, k, span, m)
<1>1. span # <<>> /\ Len(span) \in Nat
  BY EmptySeq
<1>2. span[1].kind = "key" /\ span[1].name = k /\ \A i \in 2..Len(span) : Continues(span[i])
  BY <1>1 DEF OptionText
<1>3. CASE k \in Lists
  <2>1. Rendered(k, value, span) = Block(k, value, span) /\ k \notin Scalars
    BY <1>3, ListValues DEF Rendered
  <2>2. m # 1
    BY <1>2, <2>1 DEF KeptInText, TextSubject
  <2>3. m \in 2..Len(span) /\ Continues(span[m])
    BY <1>1, <1>2, <2>2
  <2> DEFINE B == Block(k, value, span)
  <2>4. \E r \in 2..Len(B) :
          B[r].note = span[m].note /\ TextSubject(s, k, B, r) = TextSubject(s, k, span, m)
    BY <1>3, <2>3, NoteKeptInList
  <2> HIDE DEF B
  <2>5. \E r \in 1..Len(B) :
          B[r].note = span[m].note /\ TextSubject(s, k, B, r) = TextSubject(s, k, span, m)
    BY <2>4
  <2> QED BY <2>1, <2>5 DEF B
<1>4. CASE k \notin Lists
  <2>1. k \in Scalars /\ Len(span) = 1 /\ m = 1 /\ ~Cut(span[1])
    BY <1>4 DEF Keys, KeptInText
  <2>2. PICK x \in Items : value = <<x>>
    BY <2>1 DEF Values
  <2> DEFINE new == Rendered(k, value, span)
  <2>3. new = <<KeyLine(k, x, span[1].note)>>
    BY <1>4, <2>1, <2>2 DEF Rendered, Single
  <2> HIDE DEF new
  <2>4. 1 \in 1..Len(new) /\ new[1] = KeyLine(k, x, span[1].note)
    BY <2>3
  <2>5. new[1].kind = "key" /\ new[1].note = span[1].note
    BY <2>4 DEF KeyLine, LineOf
  <2>6. TextSubject(s, k, new, 1) = TextSubject(s, k, span, 1)
    BY <1>2, <2>5 DEF TextSubject
  <2> QED BY <2>1, <2>4, <2>5, <2>6 DEF new
<1> QED BY <1>3, <1>4

-----------------------------------------------------------------------------
(* The lines of an option within a document.                                *)

LEMMA TextSubjectIs ==
  ASSUME NEW d \in Seq(Line), NEW i \in 1..Len(d), NEW g, IsHolder(d, i, g),
         NEW b, IsBase(d, i, b), d[b].kind = "key", NEW r \in Nat, r = i - b + 1,
         Span(d, b)[r] = d[i]
  PROVE  Subject(d, i) = TextSubject(d[g].name, d[b].name, Span(d, b), r)
<1>1. Subject(d, i) = SubjectOf(d, i, g, b)
  BY SubjectIs
<1>2. b \in Nat /\ i \in Nat
  BY DEF IsBase
<1>3. i # b <=> r # 1
  BY <1>2
<1> QED BY <1>1, <1>3 DEF SubjectOf, TextSubject

\* The lines of an option that is there.
LEMMA OptionLines ==
  ASSUME NEW d \in Seq(Line), NEW at \in 1..Len(d), d[at].kind = "key", NEW l, IsLast(d, at, l)
  PROVE  OptionText(d[at].name, Span(d, at))
<1> DEFINE span == Span(d, at)
<1>1. l \in at..Len(d) /\ Len(d) \in Nat /\ \A j \in (at + 1)..l : Continues(d[j])
  BY DEF IsLast
<1>2. Len(span) = l - at + 1 /\ \A j \in 1..(l - at + 1) : span[j] = d[at + j - 1]
  BY SpanIs
<1> HIDE DEF span
<1>3. 1 \in 1..(l - at + 1) /\ at + 1 - 1 = at
  BY <1>1
<1>4. span[1] = d[at]
  BY <1>2, <1>3
<1>5. ASSUME NEW j \in 2..Len(span) PROVE Continues(span[j])
  <2>1. j \in 1..(l - at + 1) /\ at + j - 1 \in (at + 1)..l
    BY <1>1, <1>2
  <2> QED BY <1>1, <1>2, <2>1
<1> QED BY <1>4, <1>5 DEF OptionText, span

LEMMA OptionSubject ==
  ASSUME NEW d \in Seq(Line), NEW s, NEW h, NEW z, IsHeader(d, s, h), IsEnd(d, h, z),
         NEW at, at \in (h + 1)..z, d[at].kind = "key", NEW l, IsLast(d, at, l), l \in at..z,
         NEW i, i \in at..l, NEW m, m = i - at + 1
  PROVE  Subject(d, i) = TextSubject(s, d[at].name, Span(d, at), m) /\ OptionAt(d, i) = at
<1>1. /\ Len(d) \in Nat /\ h \in 1..Len(d) /\ z \in h..Len(d) /\ d[h].kind = "header"
      /\ d[h].name = s
      /\ \A j \in (h + 1)..z : d[j].kind # "header"
  BY DEF IsHeader, IsEnd
<1>2. at \in 1..Len(d) /\ i \in 1..Len(d) /\ m \in Nat /\ at \in Nat /\ l \in Nat /\ i \in Nat
  BY <1>1
<1>3. Span(d, at)[m] = d[i]
  <2>1. m \in 1..(l - at + 1) /\ at + m - 1 = i
    BY <1>2
  <2>2. \A j \in 1..(l - at + 1) : Span(d, at)[j] = d[at + j - 1]
    BY <1>2, SpanIs
  <2> QED BY <2>1, <2>2
<1>4. IsHolder(d, i, h)
  <2>1. h \in 1..i /\ \A j \in (h + 1)..i : j \in (h + 1)..z
    BY <1>1, <1>2
  <2> QED BY <1>1, <2>1 DEF IsHolder
<1>5. IsBase(d, i, at)
  <2>1. at \in 1..i /\ \A j \in (at + 1)..i : j \in (at + 1)..l
    BY <1>2
  <2>2. \A j \in (at + 1)..l : Continues(d[j])
    BY DEF IsLast
  <2> QED BY <2>1, <2>2 DEF IsBase, Continues
<1>6. OptionAt(d, i) = at
  BY <1>2, <1>5, OptionAtIs
<1>7. Subject(d, i) = TextSubject(d[h].name, d[at].name, Span(d, at), m)
  BY <1>2, <1>3, <1>4, <1>5, TextSubjectIs
<1> QED BY <1>1, <1>6, <1>7

\* The lines of an option that is written.
LEMMA NewSubject ==
  ASSUME NEW d \in Seq(Line), NEW s, NEW h, NEW z, IsHeader(d, s, h), IsEnd(d, h, z),
         NEW k, NEW p, NEW q, InBody(d, h, z, k, p, q), NEW new, NEW e, NEW by,
         Spliced(d, p, q, new, e, by), OptionText(k, new), NEW r \in 1..Len(new)
  PROVE  /\ p + r - 1 \in 1..Len(e) /\ e[p + r - 1] = new[r]
         /\ Subject(e, p + r - 1) = TextSubject(s, k, new, r)
<1> DEFINE i == p + r - 1
<1>1. /\ Len(d) \in Nat /\ h \in 1..Len(d) /\ z \in h..Len(d) /\ d[h].kind = "header"
      /\ d[h].name = s
      /\ \A j \in (h + 1)..z : d[j].kind # "header"
  BY DEF IsHeader, IsEnd
<1>2. /\ p \in (h + 1)..(z + 1) /\ q \in (p - 1)..z /\ by = Len(new) - (q - p + 1)
      /\ Len(new) \in Nat /\ new \in Seq(Line) /\ e \in Seq(Line) /\ Len(e) = Len(d) + by
      /\ Past(d, p) /\ Past(d, q + 1)
  BY DEF InBody, Spliced
<1>3. /\ \A j \in 1..(p - 1) : e[j] = d[j]
      /\ \A j \in 1..Len(new) : e[p + j - 1] = new[j]
  BY DEF Spliced
<1>4. new # <<>> /\ new[1].kind = "key" /\ new[1].name = k
      /\ \A j \in 2..Len(new) : Continues(new[j])
  <2>1. new # <<>>
    BY <1>2, EmptySeq
  <2> QED BY <2>1 DEF OptionText
<1>5. p \in Nat /\ h \in Nat /\ h >= 1 /\ h <= p - 1 /\ r >= 1 /\ r \in Nat /\ i \in Nat /\ i >= p
  BY <1>1, <1>2
<1>6. i \in 1..Len(e) /\ e[i] = new[r]
  BY <1>1, <1>2, <1>3
<1>7. e[p] = new[1]
  <2>1. 1 \in 1..Len(new) /\ p + 1 - 1 = p
    BY <1>2, <1>5
  <2> QED BY <1>3, <2>1
<1>8. Span(e, p) = new
  BY <1>2, <1>4, SpansStay
<1>9. ASSUME NEW j \in p..i PROVE j - p + 1 \in 1..Len(new) /\ e[j] = new[j - p + 1]
  <2>1. j - p + 1 \in 1..Len(new) /\ p + (j - p + 1) - 1 = j
    BY <1>2, <1>5
  <2> QED BY <1>3, <2>1
<1>10. IsHolder(e, i, h)
  <2>1. h \in 1..i /\ h \in 1..(p - 1)
    BY <1>5
  <2>2. e[h] = d[h]
    BY <1>3, <2>1
  <2>3. ASSUME NEW j \in (h + 1)..i PROVE e[j].kind # "header"
    <3>1. CASE j < p
      <4>1. j \in 1..(p - 1) /\ j \in (h + 1)..z
        BY <1>1, <1>2, <1>5, <3>1
      <4> QED BY <1>1, <1>3, <4>1
    <3>2. CASE j >= p
      <4>1. j \in p..i
        BY <1>5, <3>2
      <4> QED BY <1>2, <1>9, <4>1, NoHeader
    <3> QED BY <1>5, <3>1, <3>2
  <2> QED BY <1>1, <2>1, <2>2, <2>3 DEF IsHolder
<1>11. IsBase(e, i, p)
  <2>1. ASSUME NEW j \in (p + 1)..i PROVE Continues(e[j])
    <3>1. j \in p..i /\ j - p + 1 >= 2
      BY <1>5
    <3>2. j - p + 1 \in 2..Len(new) /\ e[j] = new[j - p + 1]
      BY <1>2, <1>9, <3>1
    <3> QED BY <1>4, <3>2
  <2>2. p \in 1..i /\ ~Continues(e[p])
    BY <1>4, <1>5, <1>7 DEF Continues
  <2> QED BY <2>1, <2>2 DEF IsBase
<1>12. r = i - p + 1 /\ e[h] = d[h]
  <2>1. h \in 1..(p - 1)
    BY <1>5
  <2> QED BY <1>3, <1>5, <2>1
<1>13. Subject(e, i) = TextSubject(s, k, new, r)
  <2>1. e[p].kind = "key" /\ e[p].name = k /\ e[h].name = s
    BY <1>1, <1>4, <1>7, <1>12
  <2>2. Span(e, p)[r] = e[i]
    BY <1>6, <1>8
  <2>3. Subject(e, i) = TextSubject(e[h].name, e[p].name, Span(e, p), r)
    <3>1. e \in Seq(Line) /\ i \in 1..Len(e) /\ r \in Nat /\ r = i - p + 1
      BY <1>2, <1>5, <1>6, <1>12
    <3> HIDE DEF i
    <3> QED BY <1>10, <1>11, <2>1, <2>2, <3>1, TextSubjectIs
  <2> QED BY <1>8, <2>1, <2>3
<1> QED BY <1>6, <1>13

-----------------------------------------------------------------------------
(* What each edit does to the notes of a document.                          *)

\* Outside the lines of an option that is written, removed or added, all notes stay.
LEMMA BodyStays ==
  ASSUME NEW d \in Seq(Line), Headed(d), NEW s, HasSection(d, s), NEW k, NEW p, NEW q,
         InBody(d, HeaderOf(d, s), EndOf(d, s), k, p, q),
         NEW new \in Seq(Line), OptionText(k, new), NEW e, e = Splice(d, p, q, new)
  PROVE  /\ Headed(e)
         /\ \A i \in 1..Len(d) : i \notin p..q => \E j : Stays(d, i, e, j)
         /\ \E by : Spliced(d, p, q, new, e, by)
<1> DEFINE h == HeaderOf(d, s)
           z == EndOf(d, s)
<1>1. IsHeader(d, s, h) /\ IsEnd(d, h, z)
  BY SectionIs
<1>2. InBody(d, h, z, k, p, q)
  OBVIOUS
<1> HIDE DEF h, z
<1>3. /\ h \in 1..Len(d) /\ z \in h..Len(d) /\ Len(d) \in Nat
      /\ p \in (h + 1)..(z + 1) /\ q \in (p - 1)..z /\ Past(d, p) /\ Past(d, q + 1)
      /\ \A j \in (h + 1)..z : d[j].kind # "header"
  BY <1>1, <1>2 DEF IsHeader, IsEnd, InBody
<1>4. PICK by : Spliced(d, p, q, new, e, by)
  <2>1. p \in 1..(Len(d) + 1) /\ q \in (p - 1)..Len(d)
    BY <1>3
  <2> QED BY <2>1, SpliceIs
<1>5. Cuts(d, p, q)
  <2>1. \A j \in p..q : j \in (h + 1)..z
    BY <1>3
  <2> QED BY <1>3, <2>1 DEF Cuts
<1>6. p > 1
  BY <1>3
<1>7. Headed(e)
  BY <1>4, <1>6, SplicedHeaded
<1>8. ASSUME NEW i \in 1..Len(d), i \notin p..q PROVE \E j : Stays(d, i, e, j)
  BY <1>3, <1>4, <1>5, <1>8, OutsideStays
<1> QED BY <1>4, <1>7, <1>8

LEMMA KeyIs ==
  ASSUME NEW d \in Seq(Line), NEW s, NEW k, HasKey(d, s, k)
  PROVE  LET at == KeyOf(d, s, k)
         IN  /\ at \in HeaderOf(d, s)..EndOf(d, s) /\ at \in 1..Len(d)
             /\ d[at].kind = "key" /\ d[at].name = k
<1> DEFINE h == HeaderOf(d, s)
           z == EndOf(d, s)
           T == KeysOf(d, s, k)
<1>1. HasSection(d, s) /\ T # {} /\ KeyOf(d, s, k) = Min(T)
  BY DEF HasKey, KeyOf
<1>2. IsHeader(d, s, h) /\ IsEnd(d, h, z)
  BY <1>1, SectionIs
<1>3. KeyLines(d, s) = {i \in h..z : d[i].kind = "key"} /\ h \in 1..Len(d) /\ z \in h..Len(d)
  BY <1>2, KeyLinesAre
<1> HIDE DEF h, z
<1>4. T = {i \in h..z : d[i].kind = "key" /\ d[i].name = k} /\ T \subseteq Nat
  BY <1>3 DEF KeysOf
<1> HIDE DEF T
<1>5. Min(T) \in T
  BY <1>1, <1>4, MinOf
<1>6. Min(T) \in h..z /\ d[Min(T)].kind = "key" /\ d[Min(T)].name = k
  BY <1>4, <1>5
<1>7. Min(T) \in 1..Len(d)
  BY <1>3, <1>6
<1> QED BY <1>1, <1>6, <1>7 DEF h, z

\* Where an option is in its section.
LEMMA OptionIs ==
  ASSUME NEW d \in Seq(Line), Unique(d), NEW s, NEW k, HasKey(d, s, k)
  PROVE  LET at == KeyOf(d, s, k)
             h == HeaderOf(d, s)
             z == EndOf(d, s)
         IN  /\ IsHeader(d, s, h) /\ IsEnd(d, h, z) /\ IsLast(d, at, LastOf(d, at))
             /\ at \in (h + 1)..z /\ LastOf(d, at) \in at..z
             /\ d[at].kind = "key" /\ d[at].name = k
<1> DEFINE at == KeyOf(d, s, k)
           h == HeaderOf(d, s)
           z == EndOf(d, s)
           l == LastOf(d, at)
<1>1. HasSection(d, s) /\ at \in h..z /\ at \in 1..Len(d) /\ d[at].kind = "key" /\ d[at].name = k
  BY KeyIs DEF HasKey
<1>2. IsHeader(d, s, h) /\ IsEnd(d, h, z)
  BY <1>1, SectionIs
<1>3. IsLast(d, at, l)
  BY <1>1, LastFacts
<1>4. InBody(d, h, z, k, at, l)
  BY KeyInBody
<1> HIDE DEF at, h, z, l
<1>5. at \in (h + 1)..(z + 1) /\ l \in (at - 1)..z
  BY <1>4 DEF InBody
<1>6. at \in Nat /\ h \in Nat /\ z \in Nat
  BY <1>1, <1>2 DEF IsHeader, IsEnd
<1>7. l \in at..Len(d) /\ Len(d) \in Nat
  BY <1>3 DEF IsLast
<1>8. at \in (h + 1)..z /\ l \in at..z
  BY <1>1, <1>5, <1>6, <1>7
<1> QED BY <1>1, <1>2, <1>3, <1>8 DEF at, h, z, l

\* set() of an option that is there keeps the notes that still have something to speak for.
LEMMA TextStays ==
  ASSUME NEW d \in Seq(Line), Unique(d), NEW s, NEW k \in Keys, HasKey(d, s, k),
         NEW value \in Values(k), NEW at, at = KeyOf(d, s, k), NEW l, l = LastOf(d, at),
         NEW new, new = Rendered(k, value, Span(d, at)), NEW e, NEW by,
         Spliced(d, at, l, new, e, by), NEW i \in at..l, d[i].note # NoNote,
         KeptInText(s, k, Span(d, at), i - at + 1, value)
  PROVE  \E j : Stays(d, i, e, j)
<1> DEFINE h == HeaderOf(d, s)
           z == EndOf(d, s)
<1>0. PICK span, m : span = Span(d, at) /\ m = i - at + 1
  OBVIOUS
<1>1. /\ IsHeader(d, s, h) /\ IsEnd(d, h, z) /\ IsLast(d, at, l)
      /\ at \in (h + 1)..z /\ l \in at..z /\ d[at].kind = "key" /\ d[at].name = k
  BY OptionIs
<1>2. InBody(d, h, z, k, at, l) /\ span \in Seq(Line)
  BY <1>0, KeyInBody
<1> HIDE DEF h, z
<1>3. /\ m \in 1..Len(span) /\ span[m] = d[i]
      /\ Subject(d, i) = TextSubject(s, k, span, m) /\ OptionText(k, span)
  <2>1. h \in Nat /\ z \in h..Len(d) /\ Len(d) \in Nat
    BY <1>1 DEF IsHeader, IsEnd
  <2>2. at \in 1..Len(d) /\ l \in Nat /\ i \in Nat
    BY <1>1, <2>1
  <2>3. OptionText(k, span)
    BY <1>0, <1>1, <2>2, OptionLines
  <2>4. Subject(d, i) = TextSubject(s, d[at].name, Span(d, at), m)
    <3>1. /\ IsHeader(d, s, h) /\ IsEnd(d, h, z) /\ IsLast(d, at, l)
          /\ at \in (h + 1)..z /\ l \in at..z /\ d[at].kind = "key" /\ i \in at..l
          /\ m = i - at + 1
      BY <1>0, <1>1
    <3> QED BY ONLY d \in Seq(Line), <3>1, OptionSubject
  <2>5. m \in 1..Len(span) /\ span[m] = d[i]
    <3>1. Len(Span(d, at)) = l - at + 1 /\ \A j \in 1..(l - at + 1) : Span(d, at)[j] = d[at + j - 1]
      BY SMTT(40), <1>1, <2>2, SpanIs
    <3>2. m \in 1..(l - at + 1) /\ at + m - 1 = i
      BY <1>0, <2>2
    <3> QED BY <1>0, <3>1, <3>2
  <2> QED BY <1>0, <1>1, <2>3, <2>4, <2>5
<1>4. OptionText(k, new)
  BY <1>0, <1>2, RenderedIs
<1>5. span[m].note # NoNote /\ KeptInText(s, k, span, m, value)
  BY <1>0, <1>3
<1>6. PICK r \in 1..Len(new) :
        new[r].note = span[m].note /\ TextSubject(s, k, new, r) = TextSubject(s, k, span, m)
  <2>1. new = Rendered(k, value, span)
    BY <1>0
  <2> QED BY <1>2, <1>3, <1>5, <2>1, NoteKept
<1>7. /\ at + r - 1 \in 1..Len(e) /\ e[at + r - 1] = new[r]
      /\ Subject(e, at + r - 1) = TextSubject(s, k, new, r)
  <2>1. /\ IsHeader(d, s, h) /\ IsEnd(d, h, z) /\ InBody(d, h, z, k, at, l)
        /\ OptionText(k, new) /\ Spliced(d, at, l, new, e, by) /\ r \in 1..Len(new)
    BY <1>1, <1>2, <1>4
  <2> QED BY ONLY d \in Seq(Line), <2>1, NewSubject
<1>8. Stays(d, i, e, at + r - 1)
  BY <1>3, <1>6, <1>7 DEF Stays
<1> QED BY <1>8

\* A section that was added has no keys.
LEMMA NewSectionIsEmpty ==
  ASSUME NEW d \in Seq(Line), Unique(d), NEW s \in Sections, NEW k, NEW e, e = SectionAdded(d, s),
         HasKey(e, s, k)
  PROVE  e = d
<1>1. CASE HasSection(d, s)
  BY <1>1 DEF SectionAdded
<1>2. CASE ~HasSection(d, s)
  <2> DEFINE P == Parsed(d)
             Q == Parsed(e)
  <2>1. /\ e \in Seq(Line) /\ Unique(e) /\ HasSection(e, s)
        /\ Q = [r \in DOMAIN P \cup {s} |-> IF r \in DOMAIN P THEN P[r] ELSE <<>>]
    BY SectionNew
  <2>2. s \notin DOMAIN P
    BY <1>2, ParsedIs
  <2> HIDE DEF P
  <2>3. Q[s] = <<>>
    BY <2>1, <2>2
  <2>4. Q[s] = OptionsOf(e, s)
    BY <2>1, ParsedIs
  <2> HIDE DEF Q
  <2>5. DOMAIN OptionsOf(e, s) = {}
    <3>1. DOMAIN <<>> = {}
      OBVIOUS
    <3> QED BY <2>3, <2>4, <3>1
  <2>6. DOMAIN OptionsOf(e, s) = {e[i].name : i \in KeyLines(e, s)}
    <3>1. KeysOnce(e, s)
      BY <2>1, SectionIs
    <3> QED BY <2>1, <3>1, OptionsAre
  <2>7. ASSUME NEW i \in KeyLines(e, s) PROVE FALSE
    <3>1. e[i].name \in {e[j].name : j \in KeyLines(e, s)}
      OBVIOUS
    <3> QED BY <2>5, <2>6, <3>1
  <2> QED BY <2>7 DEF HasKey, KeysOf
<1> QED BY <1>1, <1>2

\* What a note has to be for an edit to keep it.
HasToStay(d, i, o) == d[i].note # NoNote /\ (About(d, i, o) => o.do = "set" /\ KeptBySet(d, i, o))

LEMMA ValueSetStays ==
  ASSUME NEW d \in Seq(Line), Unique(d), Headed(d), NEW s \in Sections, NEW k \in Keys,
         NEW value \in Values(k), NEW e, e = ValueSet(d, s, k, value),
         NEW o, o = [do |-> "set", section |-> s, key |-> k, value |-> value]
  PROVE  Headed(e) /\ \A i \in 1..Len(d) : HasToStay(d, i, o) => \E j : Stays(d, i, e, j)
<1>1. PICK there : there = SectionAdded(d, s)
  OBVIOUS
<1>2. Headed(there) /\ \A i \in 1..Len(d) : Stays(d, i, there, i)
  BY <1>1, SectionAddedStays
<1>3. there \in Seq(Line) /\ Unique(there) /\ HasSection(there, s)
  BY <1>1, SectionNew
<1>4. CASE ~HasKey(there, s, k)
  <2>1. PICK p, q : q = LastUsed(there, s) /\ p = q + 1
    OBVIOUS
  <2>2. PICK new : new = Rendered(k, value, <<>>)
    OBVIOUS
  <2>3. InBody(there, HeaderOf(there, s), EndOf(there, s), k, p, q)
    <3>1. InBody(there, HeaderOf(there, s), EndOf(there, s), k, LastUsed(there, s) + 1,
                 LastUsed(there, s))
      BY <1>3, <1>4, LastUsedInBody
    <3> QED BY <2>1, <3>1
  <2>4. e = Splice(there, p, q, new)
    BY <1>1, <1>4, <2>1, <2>2 DEF ValueSet
  <2>5. new \in Seq(Line) /\ OptionText(k, new)
    <3>1. <<>> \in Seq(Line)
      BY EmptySeq
    <3> QED BY <2>2, <3>1, RenderedIs
  <2>6. Headed(e) /\ \A i \in 1..Len(there) : i \notin p..q => \E j : Stays(there, i, e, j)
    BY <1>2, <1>3, <2>3, <2>4, <2>5, BodyStays
  <2>7. p..q = {}
    <3>1. HeaderOf(there, s) \in Nat /\ EndOf(there, s) \in Nat
      <4>1. /\ IsHeader(there, s, HeaderOf(there, s))
            /\ IsEnd(there, HeaderOf(there, s), EndOf(there, s))
        BY <1>3, SectionIs
      <4>2. HeaderOf(there, s) \in Nat
        BY <4>1 DEF IsHeader
      <4> QED BY <4>1, <4>2 DEF IsEnd
    <3>2. p \in Int
      BY <2>3, <3>1 DEF InBody
    <3>3. q \in Int
      BY <2>3, <3>1, <3>2 DEF InBody
    <3> QED BY <2>1, <3>3
  <2>8. ASSUME NEW i \in 1..Len(d) PROVE \E j : Stays(d, i, e, j)
    <3>1. Stays(d, i, there, i)
      BY <1>2
    <3>2. i \in 1..Len(there)
      BY <3>1 DEF Stays
    <3>3. PICK j : Stays(there, i, e, j)
      BY <2>6, <2>7, <3>2
    <3>4. Stays(d, i, e, j)
      BY <3>1, <3>3 DEF Stays
    <3> QED BY <3>4
  <2> QED BY <2>6, <2>8
<1>5. CASE HasKey(there, s, k)
  <2>1. there = d /\ HasKey(d, s, k) /\ HasSection(d, s)
    BY <1>1, <1>3, <1>5, NewSectionIsEmpty
  <2>2. PICK at : at = KeyOf(d, s, k)
    OBVIOUS
  <2>3. PICK l : l = LastOf(d, at)
    OBVIOUS
  <2>4. PICK new : new = Rendered(k, value, Span(d, at))
    OBVIOUS
  <2>5. InBody(d, HeaderOf(d, s), EndOf(d, s), k, at, l) /\ Span(d, at) \in Seq(Line)
    BY <2>1, <2>2, <2>3, KeyInBody
  <2>6. e = Splice(d, at, l, new)
    BY <1>1, <2>1, <2>2, <2>3, <2>4 DEF ValueSet
  <2>7. new \in Seq(Line) /\ OptionText(k, new)
    BY <2>4, <2>5, RenderedIs
  <2>8. /\ Headed(e) /\ \A i \in 1..Len(d) : i \notin at..l => \E j : Stays(d, i, e, j)
        /\ \E by : Spliced(d, at, l, new, e, by)
    BY <2>1, <2>5, <2>6, <2>7, BodyStays
  <2>9. PICK by : Spliced(d, at, l, new, e, by)
    BY <2>8
  <2>10. /\ IsHeader(d, s, HeaderOf(d, s)) /\ IsEnd(d, HeaderOf(d, s), EndOf(d, s))
         /\ IsLast(d, at, l) /\ at \in (HeaderOf(d, s) + 1)..EndOf(d, s)
         /\ l \in at..EndOf(d, s) /\ d[at].kind = "key" /\ d[at].name = k
    BY <2>1, <2>2, <2>3, OptionIs
  <2>11. ASSUME NEW i \in 1..Len(d), i \in at..l, HasToStay(d, i, o) PROVE \E j : Stays(d, i, e, j)
    <3>1. PICK m : m = i - at + 1
      OBVIOUS
    <3>2. Subject(d, i) = TextSubject(s, k, Span(d, at), m) /\ OptionAt(d, i) = at
      <4>1. Subject(d, i) = TextSubject(s, d[at].name, Span(d, at), m) /\ OptionAt(d, i) = at
        BY ONLY d \in Seq(Line), <2>10, <2>11, <3>1, OptionSubject
      <4> QED BY <2>10, <4>1
    <3>3. About(d, i, o)
      BY <3>2 DEF About, TextSubject
    <3>4. d[i].note # NoNote /\ KeptBySet(d, i, o)
      BY <2>11, <3>3 DEF HasToStay
    <3>5. KeptInText(s, k, Span(d, at), m, value)
      BY <3>2, <3>4 DEF KeptBySet, KeptInText
    <3> QED BY <2>1, <2>2, <2>3, <2>4, <2>9, <2>11, <3>1, <3>4, <3>5, TextStays
  <2>12. ASSUME NEW i \in 1..Len(d), HasToStay(d, i, o) PROVE \E j : Stays(d, i, e, j)
    BY <2>8, <2>11, <2>12
  <2> QED BY <2>8, <2>12
<1> QED BY <1>4, <1>5

\* remove_option() takes the lines of the option only.
LEMMA OptionRemovedStays ==
  ASSUME NEW d \in Seq(Line), Unique(d), Headed(d), NEW s, NEW k,
         NEW e, e = OptionRemoved(d, s, k),
         NEW o, o = [do |-> "remove_option", section |-> s, key |-> k]
  PROVE  Headed(e) /\ \A i \in 1..Len(d) : HasToStay(d, i, o) => \E j : Stays(d, i, e, j)
<1>1. CASE ~HasKey(d, s, k)
  <2>1. e = d
    BY <1>1 DEF OptionRemoved
  <2> QED BY <2>1 DEF Stays
<1>2. CASE HasKey(d, s, k)
  <2>1. HasSection(d, s)
    BY <1>2 DEF HasKey
  <2>2. PICK at : at = KeyOf(d, s, k)
    OBVIOUS
  <2>3. PICK l : l = LastOf(d, at)
    OBVIOUS
  <2>4. PICK new : new = <<>>
    OBVIOUS
  <2>5. InBody(d, HeaderOf(d, s), EndOf(d, s), k, at, l)
    BY <1>2, <2>2, <2>3, KeyInBody
  <2>6. e = Splice(d, at, l, new)
    BY <1>2, <2>2, <2>3, <2>4 DEF OptionRemoved
  <2>7. new \in Seq(Line) /\ OptionText(k, new)
    BY <2>4, EmptySeq DEF OptionText
  <2>8. Headed(e) /\ \A i \in 1..Len(d) : i \notin at..l => \E j : Stays(d, i, e, j)
    BY <2>1, <2>5, <2>6, <2>7, BodyStays
  <2>10. /\ IsHeader(d, s, HeaderOf(d, s)) /\ IsEnd(d, HeaderOf(d, s), EndOf(d, s))
         /\ IsLast(d, at, l) /\ at \in (HeaderOf(d, s) + 1)..EndOf(d, s)
         /\ l \in at..EndOf(d, s) /\ d[at].kind = "key" /\ d[at].name = k
    BY <1>2, <2>2, <2>3, OptionIs
  <2>11. ASSUME NEW i \in 1..Len(d), i \in at..l PROVE ~HasToStay(d, i, o)
    <3>1. PICK m : m = i - at + 1
      OBVIOUS
    <3>2. Subject(d, i) = TextSubject(s, k, Span(d, at), m)
      <4>1. Subject(d, i) = TextSubject(s, d[at].name, Span(d, at), m)
        BY ONLY d \in Seq(Line), <2>10, <2>11, <3>1, OptionSubject
      <4> QED BY <2>10, <4>1
    <3>3. About(d, i, o) /\ o.do # "set"
      BY <3>2 DEF About, TextSubject
    <3> QED BY <3>3 DEF HasToStay
  <2> QED BY <2>8, <2>11
<1> QED BY <1>1, <1>2

\* remove_section() takes the lines of the section only.
LEMMA SectionRemovedStays ==
  ASSUME NEW d \in Seq(Line), Headed(d), NEW s, NEW e, e = SectionRemoved(d, s),
         NEW o, o = [do |-> "remove_section", section |-> s]
  PROVE  Headed(e) /\ \A i \in 1..Len(d) : HasToStay(d, i, o) => \E j : Stays(d, i, e, j)
<1>1. CASE ~HasSection(d, s)
  <2>1. e = d
    BY <1>1 DEF SectionRemoved
  <2> QED BY <2>1 DEF Stays
<1>2. CASE HasSection(d, s)
  <2>1. PICK h, z, new : h = HeaderOf(d, s) /\ z = EndOf(d, s) /\ new = <<>>
    OBVIOUS
  <2>2. IsHeader(d, s, h) /\ IsEnd(d, h, z)
    BY <1>2, <2>1, SectionIs
  <2>3. e = Splice(d, h, z, new)
    BY <1>2, <2>1 DEF SectionRemoved
  <2>4. /\ h \in 1..Len(d) /\ z \in h..Len(d) /\ Len(d) \in Nat /\ d[h].kind = "header"
        /\ d[h].name = s
        /\ (\A j \in (h + 1)..z : d[j].kind # "header")
        /\ (z = Len(d) \/ d[z + 1].kind = "header")
    BY <2>2 DEF IsHeader, IsEnd
  <2>5. new \in Seq(Line) /\ \A k : OptionText(k, new)
    BY <2>1, EmptySeq DEF OptionText
  <2>6. PICK by : Spliced(d, h, z, new, e, by)
    <3>1. h \in 1..(Len(d) + 1) /\ z \in (h - 1)..Len(d)
      BY <2>4
    <3> QED BY <2>3, <2>5, <3>1, SpliceIs
  <2>7. Headed(e)
    <3>1. h > 1 \/ (new = <<>> /\ (z = Len(d) \/ d[z + 1].kind = "header"))
      BY <2>1, <2>4
    <3> QED BY <2>6, <3>1, SplicedHeaded
  <2>8. Past(d, h) /\ Past(d, z + 1) /\ Cuts(d, h, z)
    <3>1. Past(d, h)
      BY <2>4 DEF Past, Continues
    <3>2. Past(d, z + 1)
      BY <2>4 DEF Past, Continues
    <3>3. Cuts(d, h, z)
      BY <2>4 DEF Cuts
    <3> QED BY <3>1, <3>2, <3>3
  <2>9. ASSUME NEW i \in 1..Len(d), i \notin h..z PROVE \E j : Stays(d, i, e, j)
    BY <2>5, <2>6, <2>8, <2>9, OutsideStays
  <2>10. ASSUME NEW i \in 1..Len(d), i \in h..z PROVE ~HasToStay(d, i, o)
    <3>1. IsHolder(d, i, h)
      <4>1. h \in 1..i /\ \A j \in (h + 1)..i : j \in (h + 1)..z
        BY <2>4, <2>10
      <4> QED BY <2>4, <4>1 DEF IsHolder
    <3>2. SectionAt(d, i) = s
      BY <2>4, <3>1, SectionAtIs
    <3>3. About(d, i, o) /\ o.do # "set"
      BY <3>2 DEF About, Subject
    <3> QED BY <3>3 DEF HasToStay
  <2> QED BY <2>7, <2>9, <2>10
<1> QED BY <1>1, <1>2

\* An edit that keeps the notes it should, in a document that still starts with a header.
KeepsNotes(o, e) ==
  Headed(e) /\ \A i \in 1..Len(lines) : HasToStay(lines, i, o) => \E j : Stays(lines, i, e, j)

LEMMA EditsKeepNotes ==
  ASSUME DocInv, Headed(lines), NEW s \in Sections
  PROVE  /\ KeepsNotes([do |-> "add_section", section |-> s], SectionAdded(lines, s))
         /\ KeepsNotes([do |-> "remove_section", section |-> s], SectionRemoved(lines, s))
         /\ \A k \in Keys :
              /\ KeepsNotes([do |-> "remove_option", section |-> s, key |-> k],
                            OptionRemoved(lines, s, k))
              /\ \A value \in Values(k) :
                   KeepsNotes([do |-> "set", section |-> s, key |-> k, value |-> value],
                              ValueSet(lines, s, k, value))
<1>0. lines \in Seq(Line) /\ Unique(lines)
  BY DEF DocInv
<1>1. KeepsNotes([do |-> "add_section", section |-> s], SectionAdded(lines, s))
  BY <1>0, SectionAddedStays DEF KeepsNotes
<1>2. KeepsNotes([do |-> "remove_section", section |-> s], SectionRemoved(lines, s))
  BY <1>0, SectionRemovedStays DEF KeepsNotes
<1>3. ASSUME NEW k \in Keys
      PROVE  KeepsNotes([do |-> "remove_option", section |-> s, key |-> k],
                        OptionRemoved(lines, s, k))
  BY <1>0, OptionRemovedStays DEF KeepsNotes
<1>4. ASSUME NEW k \in Keys, NEW value \in Values(k)
      PROVE  KeepsNotes([do |-> "set", section |-> s, key |-> k, value |-> value],
                        ValueSet(lines, s, k, value))
  BY <1>0, ValueSetStays DEF KeepsNotes
<1> QED BY <1>1, <1>2, <1>3, <1>4

LEMMA NotesNext ==
  ASSUME DocInv, Headed(lines), DocNext
  PROVE  \E o, e : op' = o /\ lines' = e /\ KeepsNotes(o, e)
<1>1. ASSUME NEW o, NEW e, Does(o, e), KeepsNotes(o, e)
      PROVE  \E p, f : op' = p /\ lines' = f /\ KeepsNotes(p, f)
  BY <1>1 DEF Does
<1>2. PICK s \in Sections :
        \/ AddSection(s) \/ RemoveSection(s)
        \/ \E k \in Keys : RemoveOption(s, k) \/ \E value \in Values(k) : Set(s, k, value)
  BY DEF DocNext
<1>3. CASE AddSection(s)
  BY <1>1, <1>3, EditsKeepNotes DEF AddSection
<1>4. CASE RemoveSection(s)
  BY <1>1, <1>4, EditsKeepNotes DEF RemoveSection
<1>5. ASSUME NEW k \in Keys, RemoveOption(s, k)
      PROVE  \E o, e : op' = o /\ lines' = e /\ KeepsNotes(o, e)
  BY <1>1, <1>5, EditsKeepNotes DEF RemoveOption
<1>6. ASSUME NEW k \in Keys, NEW value \in Values(k), Set(s, k, value)
      PROVE  \E o, e : op' = o /\ lines' = e /\ KeepsNotes(o, e)
  BY <1>1, <1>6, EditsKeepNotes DEF Set
<1> QED BY <1>2, <1>3, <1>4, <1>5, <1>6

LEMMA HeadedInit == DocInit => Headed(lines)
<1> SUFFICES ASSUME DocInit PROVE Headed(lines)
  OBVIOUS
<1>1. PICK size \in Sizes : lines \in Documents(size.lines, size.shapes)
  BY DEF DocInit
<1>2. CASE lines = <<>>
  <2>1. Len(lines) = 0
    BY <1>2
  <2> QED BY <2>1 DEF Headed
<1>3. CASE lines # <<>>
  <2>1. PICK s \in Sections, rest \in [1..size.lines -> size.shapes] :
           lines = Numbered(<<Header(s)>> \o rest)
    BY <1>1, <1>3 DEF Documents
  <2>2. size.lines \in Nat /\ size.shapes \subseteq Line
    BY SizesAssumption, ShapesAreLines
  <2>3. rest \in Seq(Line)
    <3>1. rest \in [1..size.lines -> Line]
      BY <2>2
    <3> QED BY <2>2, <3>1, SeqDef
  <2>4. PICK d : d = <<Header(s)>> \o rest
    OBVIOUS
  <2>5. <<Header(s)>> \in Seq(Line) /\ Len(<<Header(s)>>) = 1 /\ <<Header(s)>>[1] = Header(s)
    BY NewLines
  <2>6. d \in Seq(Line) /\ Len(d) = 1 + Len(rest) /\ Len(rest) \in Nat /\ d[1] = Header(s)
    <3>1. Len(rest) \in Nat
      BY <2>3
    <3>2. /\ d \in Seq(Line) /\ Len(d) = Len(<<Header(s)>>) + Len(rest)
          /\ \A i \in 1..(Len(<<Header(s)>>) + Len(rest)) :
               d[i] = IF i <= Len(<<Header(s)>>) THEN <<Header(s)>>[i]
                      ELSE rest[i - Len(<<Header(s)>>)]
      BY <2>3, <2>4, <2>5, ConcatProperties
    <3>3. 1 \in 1..(Len(<<Header(s)>>) + Len(rest)) /\ 1 <= Len(<<Header(s)>>)
      BY <2>5, <3>1
    <3> QED BY <2>5, <3>1, <3>2, <3>3
  <2>7. lines[1] = [d[1] EXCEPT !.note = @ * 1]
    <3>1. 1 \in 1..Len(d)
      BY <2>6
    <3>2. lines = [i \in 1..Len(d) |-> [d[i] EXCEPT !.note = @ * i]]
      BY <2>1, <2>4 DEF Numbered
    <3> QED BY <3>1, <3>2
  <2>8. lines[1].kind = "header"
    BY <2>6, <2>7 DEF Header, LineOf
  <2> QED BY <2>8 DEF Headed
<1> QED BY <1>2, <1>3

\* Comments are carried through untouched: in a document of any length an edit leaves every
\* note where it still speaks for what it spoke for before, but for the notes in the option
\* or section that it takes away, and but for those that set() has nothing left to put
\* beside, above or below, or finds cut by the other separator.
THEOREM NotesAreKept == DocSpec => NotesStay
<1>1. DocInv /\ Headed(lines) /\ [DocNext]_docVars => Headed(lines)'
  <2> SUFFICES ASSUME DocInv, Headed(lines), [DocNext]_docVars PROVE Headed(lines)'
    OBVIOUS
  <2>1. CASE DocNext
    BY <2>1, NotesNext DEF KeepsNotes
  <2>2. CASE UNCHANGED docVars
    BY <2>2 DEF docVars
  <2> QED BY <2>1, <2>2
<1>2. DocInv /\ Headed(lines) /\ [DocNext]_docVars
        => [\A i \in 1..Len(lines) :
              /\ lines[i].note # NoNote
              /\ About(lines, i, op') => op'.do = "set" /\ KeptBySet(lines, i, op')
              => \E j \in 1..Len(lines') :
                   /\ lines'[j].note = lines[i].note
                   /\ Subject(lines', j) = Subject(lines, i)]_docVars
  <2> SUFFICES ASSUME DocInv, Headed(lines), DocNext, NEW i \in 1..Len(lines),
                      lines[i].note # NoNote,
                      About(lines, i, op') => op'.do = "set" /\ KeptBySet(lines, i, op')
               PROVE  \E j \in 1..Len(lines') :
                        /\ lines'[j].note = lines[i].note
                        /\ Subject(lines', j) = Subject(lines, i)
    OBVIOUS
  <2>1. PICK o, e : op' = o /\ lines' = e /\ KeepsNotes(o, e)
    BY NotesNext
  <2>2. HasToStay(lines, i, o)
    BY <2>1 DEF HasToStay
  <2>3. PICK j : Stays(lines, i, e, j)
    BY <2>1, <2>2 DEF KeepsNotes
  <2> QED BY <2>1, <2>3 DEF Stays
<1> QED BY <1>1, <1>2, HeadedInit, DocInitInv, DocNextInv, PTL DEF DocSpec, NotesStay
=============================================================================
