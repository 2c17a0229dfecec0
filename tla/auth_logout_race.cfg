\* A refresh and a logout of one browser overlap.
CONSTANTS
  laptop = laptop  phone = phone  alice = alice
  t1 = t1  t2 = t2  t3 = t3
  ra = ra  rb = rb
  NoReq = NoReq
  None = None
  Reqs = {ra, rb}
  Clients = {laptop}
  Emails = {alice}
  Tokens = {t1, t2, t3}
  LoginMax = 2
SPECIFICATION Spec
INVARIANTS LogoutIsFinal
CHECK_DEADLOCK TRUE
