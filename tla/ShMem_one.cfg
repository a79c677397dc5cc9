CONSTANTS
  p1 = p1
  p2 = p2
  p3 = p3
  Procs <- Three
  Keys = {1}
  Uses <- TheUses
  MaxIds = 2
  QueueSize = 1
SPECIFICATION Spec
SYMMETRY Same
INVARIANTS Shared DestructorReturns
PROPERTIES RemovedByMaker
