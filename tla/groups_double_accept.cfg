\* Two accepts of one invite overlap.
CONSTANTS
  g1 = g1  g2 = g2  alice = alice  bob = bob  carol = carol
  i1 = i1  i2 = i2  i3 = i3  p1 = p1
  ra = ra  rb = rb
  NoReq = NoReq
  None = None
  Reqs = {ra, rb}
  Groups = {g1}
  Users = {alice, bob, carol}
  Invites = {i1}
  Projects = {}
  InviteGroup <- OneHome
  ProjectOwner <- AliceOwnsAll
  InviteMax = 1
  Ops <- InviteOps
SPECIFICATION Spec
PROPERTIES InviteAdmitsOne
CHECK_DEADLOCK TRUE
