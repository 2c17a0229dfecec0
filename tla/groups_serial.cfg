\* One request at a time, every operation, on two groups.
CONSTANTS
  g1 = g1  g2 = g2  alice = alice  bob = bob  carol = carol
  i1 = i1  i2 = i2  i3 = i3  p1 = p1
  ra = ra  rb = rb
  NoReq = NoReq
  None = None
  Reqs = {ra}
  Groups = {g1, g2}
  Users = {alice, bob}
  Invites = {i1, i2}
  Projects = {p1}
  InviteGroup <- OneHome
  ProjectOwner <- AliceOwnsAll
  InviteMax = 1
  Ops <- AllOps
SPECIFICATION Spec
INVARIANTS NoServerError
PROPERTIES InviteAdmitsOne LinkedProjectStays
CHECK_DEADLOCK TRUE
