\* Every edit of every short file.
SPECIFICATION DocSpec
CONSTANTS
  s1 = s1
  s2 = s2
  serials = serials
  chipset = chipset
  x1 = x1
  x2 = x2
  NoItem = NoItem
  Sections <- MCSections
  Lists <- MCLists
  Scalars <- MCScalars
  Items <- MCItems
  NotesWith <- MCNotesWith
  Sizes <- MCSizes
PROPERTY ImplementsConfigMap
PROPERTY NotesStay
CHECK_DEADLOCK FALSE
