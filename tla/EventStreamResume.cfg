CONSTANTS
  Readers = {r1, r2}
  Clients = {c1}
  Cap = 4
  MaxSeq = 4
SPECIFICATION StreamSpec
CHECK_DEADLOCK FALSE
PROPERTY ResumeIsComplete
