SPECIFICATION Spec
CONSTANTS
  Proc = {p1, p2}
  NBuf = 2
  NReq = 2
  Block = {1, 2, 3}
  Meta = {2}
  File = {1}
SYMMETRY ProcSymmetry
CHECK_DEADLOCK FALSE
INVARIANT FileCoherent
