----------------------------- MODULE ConfigMap -----------------------------
(***************************************************************************)
(* What a configuration is to those who read it (Registry.load(),          *)
(* load_settings()): sections with options, whose values are sequences of  *)
(* items.  CfgDoc keeps it as lines of text.                               *)
(***************************************************************************)
EXTENDS Naturals, Sequences

CONSTANTS Sections, Keys, Items

VARIABLES config, \* of each section that is there: the options that are, with their values
          op      \* the last edit

Option == [key : Keys, value : Seq(Items)]
NoOp == [do |-> "nothing"]

Has(c, s) == s \in DOMAIN c

With(c, s, options) == [x \in DOMAIN c \cup {s} |-> IF x = s THEN options ELSE c[x]]
Without(f, x) == [y \in DOMAIN f \ {x} |-> f[y]]
Options(c, s) == IF Has(c, s) THEN c[s] ELSE <<>>

\* What the edits mean.  Removing what is not there changes nothing.
Edited(c, o) ==
  CASE o.do = "set" ->
         With(c, o.section, [k \in DOMAIN Options(c, o.section) \cup {o.key} |->
                               IF k = o.key THEN o.value ELSE c[o.section][k]])
    [] o.do = "remove_option" ->
         IF Has(c, o.section) THEN With(c, o.section, Without(c[o.section], o.key)) ELSE c
    [] o.do = "add_section" -> With(c, o.section, Options(c, o.section))
    [] o.do = "remove_section" -> Without(c, o.section)

Init == op = NoOp

Next == op' # NoOp /\ config' = Edited(config, op')

Spec == Init /\ [][Next]_<<config, op>>
=============================================================================
