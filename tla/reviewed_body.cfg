\* One dashboard, one action, two confirmations.
SPECIFICATION Spec
CONSTANTS
  a1 = a1
  a2 = a2
  t1 = t1
  t2 = t2
  s1 = s1
  s2 = s2
  b1 = b1
  b2 = b2
  m1 = m1
  m2 = m2
  Actions = {a1}
  Tabs = {t1}
  Bodies = {b1, b2}
  Addresses = {m1}
  Sends = {s1, s2}
  None = None
CHECK_DEADLOCK FALSE
INVARIANT ReviewedBodyIsSent
