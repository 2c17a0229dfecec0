\* Two requests at a time, of two browsers on one account.
CONSTANTS
  laptop = laptop  phone = phone  alice = alice
  t1 = t1  t2 = t2  t3 = t3
  ra = ra  rb = rb
  NoReq = NoReq
  None = None
  Reqs = {ra, rb}
  Clients = {laptop, phone}
  Emails = {alice}
  Tokens = {t1, t2, t3}
  LoginMax = 2
SPECIFICATION Spec
SYMMETRY Symmetric
INVARIANTS TypeOK AncestorsAreSpent AccessHasSession LoginBurstBound
PROPERTIES SessionIsHandedOn OneRegistration
CHECK_DEADLOCK TRUE
