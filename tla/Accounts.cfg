CONSTANTS
  h1 = h1
  h2 = h2
  u1 = u1
  u2 = u2
  u3 = u3
  k1 = k1
  k2 = k2
  ann = ann
  bob = bob
  old = old
  new = new
  Handlers = {h1, h2}
  Ids <- ThreeIds
  Tokens = {k1, k2}
  Names <- TwoNames
  Roles <- TwoRoles
  Passwords = {old, new}
  Created <- OneCreated
  Unused = Unused
  Removed = Removed
  NoSession = NoSession
  Scenarios <- Few
SPECIFICATION FairSpec
INVARIANTS SessionIsCurrent CopyHasRow NamesUnique
PROPERTIES RevokedEnds
CHECK_DEADLOCK FALSE
