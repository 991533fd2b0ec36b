\* Commands that run at once, one of them killed and failing anywhere.
CONSTANTS
  p1 = p1
  p2 = p2
  p3 = p3
  t1 = t1
  t2 = t2
  t3 = t3
  t4 = t4
  Process = {p1, p2, p3}
  Thread = {t1, t2, t3, t4}
  Owner <- Owners
  Task <- Tasks
  Profile = {"f", "g"}
  Address = {"a", "b"}
  Initial <- TwoProfiles
  Issued = 2
  MaxToken = 4
  Faulty = {p1}
SPECIFICATION Spec
INVARIANTS TypeOK FileUsable MemoryUsable
SYMMETRY Requests
