\* Three uploads to three ids of two files, with two runs that they may share,
\* through sweeps and two crashes.
CONSTANTS
  Uploads = {u1, u2, u3}
  Ids = {"a1", "A1", "b2"}
  Names = {1, 2}
  FileFor <- LowerCase
  RunIds = {a, b}
  MaxCrashes = 2
  None = None
SYMMETRY Symmetry
SPECIFICATION Spec
INVARIANTS
  MemoryMatchesDisk
  AnsweredIsDurable
PROPERTIES
  FoundStaysFound
  ImplementsMap
CHECK_DEADLOCK FALSE
