SPECIFICATION DocumentSpec
CONSTANTS
  r1 = r1
  r2 = r2
  Replies = {r1, r2}
  Kinds = {"plain", "linear", "broken"}
  Files = {"good", "locked", "cut", "torn"}
  Units = 2
  FirstPart = 1
  PageCount = 3
SYMMETRY ReplySymmetry
INVARIANTS
  ReadyIsTheLastLoaded
  OpenReadsItsOwnData
  
CHECK_DEADLOCK FALSE
