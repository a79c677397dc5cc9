CONSTANTS
  o1 = o1
  o2 = o2
  f1 = f1
  f2 = f2
  Objs = {o1, o2}
  Files = {f1, f2}
  Dims <- Sizes
  Archive <- NoFiles
  MaxY = 2
  MaxDumped = 1
  MaxHdus = 2
  IOFaults = TRUE
  Habits = {"resize_ext", "reuse_cube", "reuse_closed", "retry"}
SPECIFICATION Spec
SYMMETRY Interchangeable
CONSTRAINT Few
CHECK_DEADLOCK FALSE
INVARIANTS TypeOK InBounds NoJunkRows NoDeadHandle
PROPERTIES OwnMemory SavedWhereAsked
