-------------------------- MODULE MakefilePatches --------------------------
(***************************************************************************)
(* mcu_updater/build.py, makefile_patches(): each MCU type's build appends *)
(* its configured lines to Makefiles of the shared source tree, runs make  *)
(* and writes the saved bytes back.  Builds follow one another under the   *)
(* host-wide lock; a build may fail, be cancelled or be killed.            *)
(***************************************************************************)
EXTENDS Naturals, Sequences

CONSTANTS Types,         \* MCU types
          Files,         \* the Makefiles that exist in the source tree
          Lines,         \* what a Makefile is made of
          Original,      \* their contents as checked out: a sequence of lines
          PartOf,        \* <<a, b>>: the text of line a occurs in line b
          PatchesOf,     \* of each type: a sequence of [file, line]
          NoType,        \* no build in progress
          NotSaved,      \* the None of a backup that must not be written back
          MaxAccidents   \* how many kills and failed restores there may be

ASSUME PatchesAssumption ==
  /\ NoType \notin Types
  /\ NotSaved \notin Seq(Lines)
  /\ Original \in [Files -> Seq(Lines)]
  /\ \A line \in Lines : <<line, line>> \in PartOf
  /\ \A t \in Types :
       Len(PatchesOf[t]) \in Nat /\ \A i \in 1..Len(PatchesOf[t]) : PatchesOf[t][i].line \in Lines
  /\ MaxAccidents \in Nat

VARIABLES content, \* of each Makefile
          type,    \* the type being built
          phase,   \* "idle", "patching", "making", "restoring", "truncated"
          next,    \* the next patch to apply, or backup to write back
          backups, \* [file, saved], in the order the patches were applied
          before,  \* history: the contents when the build began
          calm,    \* history: no restore of this build failed
         spoiled, \* history: the Makefiles to which some build added two lines
          accidents

vars == <<content, type, phase, next, backups, before, calm, spoiled, accidents>>

TypeOK ==
  /\ content \in [Files -> Seq(Lines)]
  /\ type \in Types \cup {NoType}
  /\ phase \in {"idle", "patching", "making", "restoring", "truncated"}
  /\ next \in Nat
  /\ backups \in Seq([file : Files, saved : Seq(Lines) \cup {NotSaved}])
  /\ before \in [Files -> Seq(Lines)]
  /\ calm \in BOOLEAN /\ spoiled \subseteq Files
  /\ accidents \in 0..MaxAccidents

Init ==
  /\ content = Original /\ before = Original
  /\ type = NoType /\ phase = "idle" /\ next = 1 /\ backups = <<>>
  /\ calm = TRUE /\ spoiled = {} /\ accidents = 0

Has(text, line) == \E i \in 1..Len(text) : text[i] = line

\* line.encode() in original: a substring of the file, not a line of it.
AlreadyIn(text, line) == \E i \in 1..Len(text) : <<line, text[i]>> \in PartOf

\* This build added two lines to the file, and took a backup before each.
SavedTwice(f) ==
  \E i, j \in 1..Len(backups) :
    /\ i # j /\ backups[i].file = f /\ backups[j].file = f
    /\ backups[i].saved # NotSaved /\ backups[j].saved # NotSaved

-----------------------------------------------------------------------------
Begin(t) ==
  /\ phase = "idle"
  /\ phase' = "patching"
  /\ type' = t /\ next' = 1 /\ backups' = <<>> /\ before' = content
  /\ calm' = TRUE
  /\ UNCHANGED <<content, spoiled, accidents>>

Patch == PatchesOf[type][next]
MorePatches == phase = "patching" /\ next <= Len(PatchesOf[type])

SkipMissing ==
  /\ MorePatches /\ Patch.file \notin Files
  /\ next' = next + 1
  /\ UNCHANGED <<content, type, phase, backups, before, calm, spoiled, accidents>>

LeaveLeftover ==
  /\ MorePatches /\ Patch.file \in Files
  /\ AlreadyIn(content[Patch.file], Patch.line)
  /\ backups' = Append(backups, [file |-> Patch.file, saved |-> NotSaved])
  /\ next' = next + 1
  /\ UNCHANGED <<content, type, phase, before, calm, spoiled, accidents>>

\* Wrong variant: the backup is taken after the line was added.
ApplyPatchThenSave ==
  /\ MorePatches /\ Patch.file \in Files
  /\ ~AlreadyIn(content[Patch.file], Patch.line)
  /\ content' = [content EXCEPT ![Patch.file] = Append(@, Patch.line)]
  /\ backups' = Append(backups, [file |-> Patch.file, saved |-> content'[Patch.file]])
  /\ next' = next + 1
  /\ UNCHANGED <<type, phase, before, calm, spoiled, accidents>>

\* Wrong variant: a line that is there already is added again.
ApplyPatchAgain ==
  /\ MorePatches /\ Patch.file \in Files
  /\ backups' = Append(backups, [file |-> Patch.file, saved |-> content[Patch.file]])
  /\ content' = [content EXCEPT ![Patch.file] = Append(@, Patch.line)]
  /\ next' = next + 1
  /\ UNCHANGED <<type, phase, before, calm, spoiled, accidents>>

ApplyPatch ==
  /\ MorePatches /\ Patch.file \in Files
  /\ ~AlreadyIn(content[Patch.file], Patch.line)
  /\ backups' = Append(backups, [file |-> Patch.file, saved |-> content[Patch.file]])
  /\ content' = [content EXCEPT ![Patch.file] = Append(@, Patch.line)]
  /\ next' = next + 1
  /\ UNCHANGED <<type, phase, before, calm, spoiled, accidents>>

StartMake ==
  /\ phase = "patching" /\ next > Len(PatchesOf[type])
  /\ phase' = "making"
  /\ UNCHANGED <<content, type, next, backups, before, calm, spoiled, accidents>>

\* Wrong variant: no finally, a failed build skips the restore.
EnterFinallyOnSuccess ==
  /\ phase \in {"patching", "making"}
  /\ phase' \in (IF phase = "making" THEN {"restoring", "idle"} ELSE {"idle"})
  /\ next' = 1
  /\ UNCHANGED <<content, type, backups, before, calm, spoiled, accidents>>

\* make is done, failed or was cancelled, or patching itself raised.
EnterFinally ==
  /\ phase \in {"patching", "making"}
  /\ phase' = "restoring" /\ next' = 1
  /\ UNCHANGED <<content, type, backups, before, calm, spoiled, accidents>>

\* open(target, "wb") empties the file; a None backup is passed over.
RestoreNext ==
  /\ phase = "restoring" /\ next <= Len(backups)
  /\ IF backups[next].saved # NotSaved
     THEN /\ content' = [content EXCEPT ![backups[next].file] = <<>>]
          /\ phase' = "truncated" /\ next' = next
     ELSE next' = next + 1 /\ UNCHANGED <<content, phase>>
  /\ UNCHANGED <<type, backups, before, calm, spoiled, accidents>>

WriteBack ==
  /\ phase = "truncated"
  /\ content' = [content EXCEPT ![backups[next].file] = backups[next].saved]
  /\ phase' = "restoring" /\ next' = next + 1
  /\ UNCHANGED <<type, backups, before, calm, spoiled, accidents>>

\* An OSError of the open leaves the file, one of the write leaves it empty; it
\* is reported and the other files are restored.
RestoreFails ==
  /\ accidents < MaxAccidents
  /\ \/ phase = "restoring" /\ next <= Len(backups) /\ backups[next].saved # NotSaved
     \/ phase = "truncated"
  /\ phase' = "restoring" /\ next' = next + 1
  /\ calm' = FALSE /\ accidents' = accidents + 1
  /\ UNCHANGED <<content, type, backups, before, spoiled>>

Finish ==
  /\ phase = "restoring" /\ next > Len(backups)
  /\ phase' = "idle" /\ type' = NoType
  /\ spoiled' = spoiled \cup {f \in Files : SavedTwice(f)}
  /\ UNCHANGED <<content, next, backups, before, calm, accidents>>

\* kill -9, or the power: what is in the files stays there.
Crash ==
  /\ phase # "idle" /\ accidents < MaxAccidents
  /\ accidents' = accidents + 1
  /\ phase' = "idle" /\ type' = NoType
  /\ UNCHANGED <<content, next, backups, before, calm, spoiled>>

Next ==
  \/ \E t \in Types : Begin(t)
  \/ SkipMissing \/ LeaveLeftover \/ ApplyPatch \/ StartMake
  \/ EnterFinally \/ RestoreNext \/ WriteBack \/ RestoreFails \/ Finish \/ Crash

Spec == Init /\ [][Next]_vars

-----------------------------------------------------------------------------
EndsCalmly == phase = "restoring" /\ phase' = "idle" /\ accidents' = accidents /\ calm

\* A build that is neither killed nor refused a write leaves every Makefile as it found
\* it, whatever earlier builds left there; but for one to which it added two lines, whose
\* backups are written back in the order they were taken, the one with the first line last.
BytesRestored == [][EndsCalmly => \A f \in Files : SavedTwice(f) \/ content[f] = before[f]]_vars

\* As long as no build was killed and every restore worked, make sees the tree
\* as checked out and the lines of the type it builds, never one that "leaks into
\* every other MCU type"; but for a Makefile to which some build added two lines.
NoLeak ==
  phase = "making" /\ accidents = 0 =>
    \A f \in Files \ spoiled : \A i \in 1..Len(content[f]) :
      \/ Has(Original[f], content[f][i])
      \/ \E k \in 1..Len(PatchesOf[type]) :
           PatchesOf[type][k].file = f /\ PatchesOf[type][k].line = content[f][i]

\* Whatever killed builds and failed restores left behind, the next build
\* neither doubles a line nor misses one of its own.
PatchedOnce ==
  phase = "making" =>
    \A k \in 1..Len(PatchesOf[type]) :
      LET p == PatchesOf[type][k]
      IN  p.file \in Files =>
            \E i \in 1..Len(content[p.file]) :
              /\ content[p.file][i] = p.line
              /\ \A j \in 1..Len(content[p.file]) :
                   content[p.file][j] = p.line => j = i
=============================================================================
