\* Two threads, an instance and two devices whose handles are given out again, two parts that move between them.
SPECIFICATION Spec
CONSTANTS
  t1 = t1
  t2 = t2
  instance = instance
  d1 = d1
  d2 = d2
  p1 = p1
  p2 = p2
  None = None
  Thread <- MCThread
  Owner <- MCOwner
  Instance <- MCInstance
  Part <- MCPart
  MaxCreated = 4
SYMMETRY MCSymmetry
INVARIANTS
  TypeOK
  LookUpIsOwn
  NewHandleIsUnknown
  MapsAgree
CHECK_DEADLOCK FALSE
