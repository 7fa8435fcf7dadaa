SPECIFICATION Spec
CONSTANTS
  em0 = em0
  em1 = em1
  em10 = em10
  p1 = p1
  p2 = p2
  None = None
  Hole = Hole
  Procs <- MCProcs
  Names <- MCNames
  Substrings <- MCSubstrings
  Words <- MCWords
  Files <- MCFiles
  MaxCalls = 3
  MaxFailures = 1
  MaxForeign = 1
SYMMETRY Symmetry
INVARIANTS
  TypeOK
  RcConfWhole
  OtherFlagsKept
