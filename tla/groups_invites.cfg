\* Two requests at a time on the invites of one group.
CONSTANTS
  g1 = g1  g2 = g2  alice = alice  bob = bob  carol = carol
  i1 = i1  i2 = i2  i3 = i3  p1 = p1
  ra = ra  rb = rb
  NoReq = NoReq
  None = None
  Reqs = {ra, rb}
  Groups = {g1}
  Users = {alice, bob}
  Invites = {i1, i2, i3}
  Projects = {}
  InviteGroup <- OneHome
  ProjectOwner <- AliceOwnsAll
  InviteMax = 1
  Ops <- InviteOps
SPECIFICATION Spec
SYMMETRY InviteSymmetry
INVARIANTS InviteBurstBound
PROPERTIES MarksStay JoinSpendsAnInvite SpentInviteAdmits
CHECK_DEADLOCK TRUE
