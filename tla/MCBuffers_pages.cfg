SPECIFICATION Spec
CONSTANTS
  a1 = a1
  a2 = a2
  a3 = a3
  q1 = q1
  q2 = q2
  Secure = {s1, s2, u1}
  Timed = {u1}
  Deliveries = {d1}
  Cells = {a1, a2, a3}
  Pages = {q1, q2}
  PageOf <- PageTable
  None = None
  LockRefused = FALSE
  NewFails = FALSE
INVARIANT LivingIsLocked
