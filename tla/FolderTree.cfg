SPECIFICATION TreeSpec
CONSTANTS
  root = root
  a = a
  b = b
  c = c
  d = d
  e = e
  t1 = t1
  t2 = t2
  t3 = t3
  Root <- root
  Folder <- SixFolders
  Txn <- ThreeTx
SYMMETRY Symmetry
INVARIANTS
  TreeRooted
  ClosureExact
