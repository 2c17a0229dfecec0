\* One request at a time: the owner removes himself.
CONSTANTS
  g1 = g1  g2 = g2  alice = alice  bob = bob  carol = carol
  i1 = i1  i2 = i2  i3 = i3  p1 = p1
  ra = ra  rb = rb
  NoReq = NoReq
  None = None
  Reqs = {ra}
  Groups = {g1}
  Users = {alice, bob}
  Invites = {i1}
  Projects = {}
  InviteGroup <- OneHome
  ProjectOwner <- AliceOwnsAll
  InviteMax = 1
  Ops <- MemberOps
SPECIFICATION Spec
INVARIANTS NeverWithoutOwner
CHECK_DEADLOCK TRUE
