\* One command whose requests refresh the token at the same time.
CONSTANTS
  p1 = p1
  p2 = p2
  p3 = p3
  t1 = t1
  t2 = t2
  t3 = t3
  t4 = t4
  Process = {p1}
  Thread = {t1, t2}
  Owner <- TwoRequests
  Task <- OneUser
  Profile = {"f", "g"}
  Address = {"a", "b"}
  Initial <- TwoProfiles
  Issued = 2
  MaxToken = 3
  Faulty = {}
SPECIFICATION Spec
PROPERTIES OthersPreserved
