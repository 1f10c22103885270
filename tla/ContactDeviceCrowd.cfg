SPECIFICATION Spec
CONSTANTS
  p1 = p1
  p2 = p2
  c1 = c1
  c2 = c2
  c3 = c3
  s1 = s1
  s2 = s2
  a1 = a1
  a2 = a2
  a3 = a3
  a4 = a4
  a5 = a5
  a6 = a6
  Nobody = Nobody
  NULL = NULL
  Process = {p1, p2}
  UserCount = 1
  Addr = {a1, a2, a3}
  FieldOrder <- TwoStrings
  Contacts = {c1}
  Surnames = {s1}
  SurnameOf <- Namesakes
  Ops = {"add", "get", "delete"}
  OneAtATime = FALSE
  MaxDrift = 1
  MaxRead = 1
SYMMETRY UserSymmetry
INVARIANTS
  TakenCellsHaveStrings
CHECK_DEADLOCK FALSE
