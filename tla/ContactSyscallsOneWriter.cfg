SPECIFICATION FairSpec
CONSTANTS
  w = w
  r1 = r1
  c1 = c1
  c2 = c2
  c3 = c3
  s1 = s1
  s2 = s2
  Nobody = Nobody
  Thread = {w, r1}
  UserCount = 2
  Contacts = {c1, c2, c3}
  Surnames = {s1, s2}
  SurnameOf <- Namesakes
  TooLong <- LongPhone
  Calls <- OneWriter
  BootAlone = TRUE
INVARIANTS
  TypeOK
  AddedIsStored
  RefusalIsTrue
  AnswerIsWhole
PROPERTIES
  StoredIsFound
  ImplementsContactBook
