SPECIFICATION Spec
CONSTANTS
  o = o
  x = x
  y = y
  l1 = l1
  t1 = t1
  t2 = t2
  User <- Users
  Founder = o
  Link <- OneLink
  Tx <- TwoTx
SYMMETRY Symmetry
INVARIANTS
  OneOwner
  NothingLost
  ChatsHaveMembers
PROPERTIES
  JoinedByLink
CHECK_DEADLOCK FALSE
