------------------------------- MODULE CfgDoc -------------------------------
(***************************************************************************)
(* mcu_updater/cfgdoc.py: a .cfg file as the lines a user wrote, into      *)
(* which edits are spliced so that comments and order stay.  A line is     *)
(* what the parser takes it for; a comment is a note with a number of its  *)
(* own, on a line of its own or at the end of another.                     *)
(***************************************************************************)
EXTENDS Naturals, Sequences, SequencesExt, FiniteSetsExt

CONSTANTS Sections, \* names of sections
          Lists,    \* keys whose values are written as blocks of items
          Scalars,  \* keys whose values are written behind the key
          Items,    \* items of lists, and values of scalars
          NoItem,   \* no item, and no value behind a key
          NotesWith, \* of each separator: the numbers of the notes that have it in them
          Sizes     \* of files: so many lines after a header, of which shapes; and so many edits

Keys == Lists \cup Scalars
NoNote == 0

\* What can be between a key and its value.
Separators == {":", "="}

ASSUME CfgDocAssumption ==
  /\ Lists \cap Scalars = {} /\ NoItem \notin Items
  /\ NotesWith \in [Separators -> SUBSET Nat]

VARIABLES lines,    \* CfgDocument.lines
          sections, \* CfgDocument.sections: what _parse() made of them
          op,       \* history: the last edit
          left      \* how many more there are in this behaviour

docVars == <<lines, sections, op, left>>

-----------------------------------------------------------------------------
(* Lines.  "label" is an indented comment; "remark" is any other, and any   *)
(* line that the parser makes nothing of.  Keys are written with a ":".     *)

LineOf(kind, name, v, n) == [kind |-> kind, name |-> name, value |-> v, note |-> n, sep |-> ":"]

Header(s) == LineOf("header", s, NoItem, NoNote)
KeyLine(k, v, n) == LineOf("key", k, v, n)
KeyLineBy(k, q, v, n) == [KeyLine(k, v, n) EXCEPT !.sep = q]
ItemLine(x, n) == LineOf("item", x, NoItem, n)
Label(n) == LineOf("label", NoItem, NoItem, n)
Remark(n) == LineOf("remark", NoItem, NoItem, n)
Blank == LineOf("blank", NoItem, NoItem, NoNote)

\* What a user may write in a line; the number of a note is that of its line.
Shapes ==
  {Header(s) : s \in Sections}
  \cup {KeyLine(k, v, note) : k \in Lists, v \in Items \cup {NoItem}, note \in {NoNote, 1}}
  \cup {KeyLineBy(k, q, v, note) : k \in Scalars, q \in Separators, v \in Items,
                                  note \in {NoNote, 1}}
  \cup {ItemLine(x, note) : x \in Items, note \in {NoNote, 1}}
  \cup {Label(1), Remark(1), Blank}

ASSUME SizesAssumption ==
  \A size \in Sizes : size.lines \in Nat /\ size.edits \in Nat /\ size.shapes \subseteq Shapes

Numbered(d) == [i \in 1..Len(d) |-> [d[i] EXCEPT !.note = @ * i]]

-----------------------------------------------------------------------------
(* _parse(): where sections and options are.                                *)

Are(d, kind, name) == {i \in 1..Len(d) : d[i].kind = kind /\ d[i].name = name}
Headers(d) == {i \in 1..Len(d) : d[i].kind = "header"}

\* The first copy of a section counts.
HasSection(d, s) == Are(d, "header", s) # {}
HeaderOf(d, s) == Min(Are(d, "header", s))

\* A section goes up to the next header, comments and blank lines included.
EndOf(d, s) == Min({i - 1 : i \in {j \in Headers(d) : j > HeaderOf(d, s)}} \cup {Len(d)})

\* ... and so does the first copy of a key.
KeyLines(d, s) == {i \in HeaderOf(d, s)..EndOf(d, s) : d[i].kind = "key"}
KeysOf(d, s, k) == {i \in KeyLines(d, s) : d[i].name = k}
HasKey(d, s, k) == HasSection(d, s) /\ KeysOf(d, s, k) # {}
KeyOf(d, s, k) == Min(KeysOf(d, s, k))

\* Indented lines below an option are part of it, comments too.
Continues(line) == line.kind \in {"item", "label"}

\* The last line of the option whose key is on line i.
LastOf(d, i) == Max({j \in i..Len(d) : \A k \in (i + 1)..j : Continues(d[k])})

Span(d, i) == SubSeq(d, i, LastOf(d, i))

\* get() and get_list(): what is behind the key, and the items below it.
Says(line) ==
  CASE line.kind = "item" -> <<line.name>>
    [] line.kind = "key" /\ line.value # NoItem -> <<line.value>>
    [] OTHER -> <<>>

ItemsOf(span) == FlattenSeq([i \in 1..Len(span) |-> Says(span[i])])

\* Of each section its options, of each option its value.
OptionsOf(d, s) ==
  [k \in {d[i].name : i \in KeyLines(d, s)} |-> ItemsOf(Span(d, KeyOf(d, s, k)))]

Parsed(d) == [s \in {d[i].name : i \in Headers(d)} |-> OptionsOf(d, s)]

-----------------------------------------------------------------------------
(* _decoration() and _render()                                              *)

\* A note on a line of its own belongs to the next item of the block, if there is one.
Above(span, i) ==
  LET later == {j \in i..Len(span) : span[j].kind = "item"}
  IN  IF later = {} THEN NoItem ELSE span[Min(later)].name

NotesAbove(span, x) == {i \in 1..Len(span) : span[i].kind = "label" /\ Above(span, i) = x}

\* Of an item that is there twice, those above the last copy that has any.
LastNotesAbove(span, x) ==
  {i \in NotesAbove(span, x) :
     \A j \in NotesAbove(span, x) : \A m \in i..j : span[m].kind # "item"}

LabelsAbove(span, x) ==
  FlattenSeq([i \in 1..Len(span) |-> IF i \in LastNotesAbove(span, x)
                                       THEN <<Label(span[i].note)>> ELSE <<>>])

\* Wrong variant: the notes beside the items are not looked for.
NoteBesideNothing(span, x) == NoNote

NoteBeside(span, x) ==
  LET noted == {i \in Are(span, "item", x) : span[i].note # NoNote}
  IN  IF noted = {} THEN NoNote ELSE span[Max(noted)].note

\* A block of items with the notes that the lines it replaces have.
Block(k, items, span) ==
  IF items = <<>> THEN <<KeyLine(k, NoItem, NoNote)>>
  ELSE <<KeyLine(k, NoItem, NoNote)>>
       \o FlattenSeq([i \in 1..Len(items) |->
            Append(LabelsAbove(span, items[i]),
                   ItemLine(items[i], NoteBeside(span, items[i])))])
       \o LabelsAbove(span, NoItem)

\* The note of a value is looked for behind the first ":", and then behind the first "=":
\* if the one that is not the line's own is in the note, then that far into it.
Cut(line) == \E q \in Separators \ {line.sep} : line.note \in NotesWith[q]

\* A value behind its key, with the note that was found behind it.
Single(k, value, span) ==
  <<KeyLine(k, value, IF Len(span) = 1 /\ ~Cut(span[1]) THEN span[1].note ELSE NoNote)>>

Rendered(k, value, span) ==
  IF k \in Lists THEN Block(k, value, span) ELSE Single(k, Head(value), span)

-----------------------------------------------------------------------------
(* The edits.                                                               *)

\* _splice(): lines from..to make room for others.
Splice(d, from, to, new) == SubSeq(d, 1, from - 1) \o new \o SubSeq(d, to + 1, Len(d))

SectionAdded(d, s) ==
  IF HasSection(d, s) THEN d
  ELSE d \o (IF d = <<>> \/ Last(d) = Blank THEN <<>> ELSE <<Blank>>) \o <<Header(s)>>

\* The last line of a section that is not blank: new keys follow it.
LastUsed(d, s) ==
  Max({i \in HeaderOf(d, s)..EndOf(d, s) : i = HeaderOf(d, s) \/ d[i] # Blank})

ValueSet(d, s, k, value) ==
  LET there == SectionAdded(d, s)
      at == KeyOf(there, s, k)
      last == LastUsed(there, s)
  IN  IF HasKey(there, s, k)
        THEN Splice(there, at, LastOf(there, at), Rendered(k, value, Span(there, at)))
        ELSE Splice(there, last + 1, last, Rendered(k, value, <<>>))

OptionRemoved(d, s, k) ==
  IF HasKey(d, s, k) THEN Splice(d, KeyOf(d, s, k), LastOf(d, KeyOf(d, s, k)), <<>>) ELSE d

\* Wrong variant: a section ends with its last option.
SectionRemovedToLastKey(d, s) ==
  IF HasSection(d, s)
    THEN Splice(d, HeaderOf(d, s),
                Max({HeaderOf(d, s)} \cup {i \in HeaderOf(d, s)..EndOf(d, s) : d[i].kind = "key"}),
                <<>>)
    ELSE d

\* What follows the section is a header or nothing, so that no blank line is taken too.
SectionRemoved(d, s) ==
  IF HasSection(d, s) THEN Splice(d, HeaderOf(d, s), EndOf(d, s), <<>>) ELSE d

Values(k) ==
  IF k \in Scalars THEN {<<x>> : x \in Items}
  ELSE {<<>>} \cup {<<x>> : x \in Items}
       \cup {p \in [1..2 -> Items] : p[1] # p[2]}

Does(o, d) ==
  /\ left > 0 /\ left' = left - 1
  /\ op' = o
  /\ lines' = d /\ sections' = Parsed(d)

Set(s, k, value) ==
  Does([do |-> "set", section |-> s, key |-> k, value |-> value],
       ValueSet(lines, s, k, value))

RemoveOption(s, k) ==
  Does([do |-> "remove_option", section |-> s, key |-> k], OptionRemoved(lines, s, k))

AddSection(s) == Does([do |-> "add_section", section |-> s], SectionAdded(lines, s))

RemoveSection(s) == Does([do |-> "remove_section", section |-> s], SectionRemoved(lines, s))

-----------------------------------------------------------------------------

\* Files that Registry.load() accepts: no section twice.  A second copy of a key is dead
\* text, which comes to life when remove_option() takes the first; there is none here.
Accepted(d) ==
  /\ \A s \in Sections : Cardinality(Are(d, "header", s)) <= 1
  /\ \A s \in Sections, k \in Keys : HasSection(d, s) => Cardinality(KeysOf(d, s, k)) <= 1

\* No file, or one that starts with a header.
Documents(n, shapes) ==
  {<<>>} \cup {d \in {Numbered(<<Header(s)>> \o rest) : s \in Sections, rest \in [1..n -> shapes]} :
              Accepted(d)}

DocInit ==
  /\ \E size \in Sizes : lines \in Documents(size.lines, size.shapes) /\ left = size.edits
  /\ sections = Parsed(lines)
  /\ op = [do |-> "nothing"]

DocNext ==
  \E s \in Sections :
    \/ AddSection(s) \/ RemoveSection(s)
    \/ \E k \in Keys : RemoveOption(s, k) \/ \E value \in Values(k) : Set(s, k, value)

DocSpec == DocInit /\ [][DocNext]_docVars

-----------------------------------------------------------------------------
(* Properties                                                               *)

Map == INSTANCE ConfigMap WITH config <- sections

\* To those who read the file, an edit changes the option or the section it is about
\* and nothing else, whatever comments, blank lines and stray lines are around it.
ImplementsConfigMap == Map!Spec

SectionAt(d, i) == d[Max({j \in Headers(d) : j <= i})].name

\* Which option, and what in it, a line with a note speaks for.
OptionAt(d, i) ==
  LET at == {j \in 1..i : d[j].kind = "key" /\ LastOf(d, j) >= i}
  IN  IF at = {} THEN 0 ELSE Max(at)

Subject(d, i) ==
  LET o == OptionAt(d, i)
  IN  [section |-> SectionAt(d, i), kind |-> d[i].kind,
       key |-> IF o = 0 THEN NoItem ELSE d[o].name,
       item |-> IF d[i].kind = "item" THEN d[i].name
                ELSE IF o # 0 /\ i # o THEN Above(Span(d, o), i - o + 1) ELSE NoItem]

\* The notes a set() takes along: those beside and above items that stay, those below
\* the last item as long as there is one, and the one behind a single value unless the
\* other separator is in it.
KeptBySet(d, i, o) ==
  LET sub == Subject(d, i)
      span == Span(d, OptionAt(d, i))
  IN  IF o.key \in Scalars THEN Len(span) = 1 /\ ~Cut(span[1])
      ELSE \/ sub.item # NoItem /\ sub.item \in ToSet(o.value)
              /\ Cardinality(Are(span, "item", sub.item)) = 1
           \/ sub.kind = "label" /\ sub.item = NoItem /\ o.value # <<>>

About(d, i, o) ==
  /\ Subject(d, i).section = o.section
  /\ o.do = "remove_section" \/
       (o.do \in {"set", "remove_option"} /\ Subject(d, i).key = o.key)

\* "Comments, blank lines and keys ... carried through untouched": a note stays, and
\* stays with what it speaks for.  An edit drops notes of the option or the section it
\* is about only, and set() keeps those that still have something to speak for.
NotesStay ==
  [][\A i \in 1..Len(lines) :
       /\ lines[i].note # NoNote
       /\ About(lines, i, op') => op'.do = "set" /\ KeptBySet(lines, i, op')
       => \E j \in 1..Len(lines') :
            /\ lines'[j].note = lines[i].note
            /\ Subject(lines', j) = Subject(lines, i)]_docVars
=============================================================================
