\* Two requests at a time, and the end of a group, its invite and a project.
CONSTANTS
  g1 = g1  g2 = g2  alice = alice  bob = bob  carol = carol
  i1 = i1  i2 = i2  i3 = i3  p1 = p1
  ra = ra  rb = rb
  NoReq = NoReq
  None = None
  Reqs = {ra, rb}
  Groups = {g1}
  Users = {alice, bob}
  Invites = {i1}
  Projects = {p1}
  InviteGroup <- OneHome
  ProjectOwner <- AliceOwnsAll
  InviteMax = 1
  Ops <- LifeOps
SPECIFICATION FairSpec
INVARIANTS TypeOK NothingOutlivesItsGroup
PROPERTIES EveryRequestEnds SuccessTakesEffect ImplementsRegistry
CHECK_DEADLOCK TRUE
