CONSTANTS
  p1 = p1
  p2 = p2
  p3 = p3
  Procs <- Three
  Keys = {1}
  Uses <- Overlapping
  MaxIds = 2
  QueueSize = 1
SPECIFICATION Spec
SYMMETRY Same
INVARIANTS OneQueue
