SPECIFICATION Spec
CONSTANTS
  r1 = r1
  r2 = r2
  Requests = {r1, r2}
  Modules = {"Index", "Admin"}
  DefaultModule = "Index"
  ForwardLimit = 2
  MaxDispatches = 2
  MaxForwards = 2
  MaxShown = 1
SYMMETRY RequestSymmetry
INVARIANTS
  RoundsPerDispatch
  HandlerOnceForAll
  PagesTogether
  
  
CHECK_DEADLOCK FALSE
