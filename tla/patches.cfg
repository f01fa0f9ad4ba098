\* Builds are killed at any step, restores fail; a type adds two lines to one file.
SPECIFICATION Spec
CONSTANTS
  buffer = buffer
  plain = plain
  top = top
  chip = chip
  gone = gone
  core = core
  bufA = bufA
  bufB = bufB
  own = own
  NoType = NoType
  NotSaved = NotSaved
  Types <- MCTypes
  Files <- MCFiles
  Lines <- MCLines
  Original <- MCOriginal
  PartOf <- MCPartOf
  PatchesOf <- MCPatchesOf
  MaxAccidents = 2
INVARIANT NoLeak
PROPERTY BytesRestored
INVARIANT PatchedOnce
