------------------------- MODULE MCMakefilePatches -------------------------
(* Two MCU types that share a source tree of two Makefiles.                 *)
EXTENDS MakefilePatches, TLC

CONSTANTS buffer, plain, top, chip, gone, core, bufA, bufB, own

MCTypes == {buffer, plain}
MCFiles == {top, chip}
MCLines == {core, bufA, bufB, own}
MCPartOf == {<<line, line>> : line \in MCLines}
MCOriginal == [f \in MCFiles |-> <<core>>]

\* One type adds two lines to one Makefile, one to another and one to a file that is
\* not there; the other type adds one to each.
MCPatchesOf ==
  (buffer :> << [file |-> top, line |-> bufA], [file |-> gone, line |-> bufB],
                [file |-> chip, line |-> bufB], [file |-> top, line |-> bufB] >>)
  @@ (plain :> << [file |-> chip, line |-> own], [file |-> top, line |-> own] >>)
=============================================================================
