SPECIFICATION Spec
CONSTANTS
  Parts = {"content", "footer"}
  Headers = {"h"}
  MaxCalls = 3
  MaxWrites = 2
  MaxOpens = 1
  MaxShows = 1
INVARIANTS
  PageIsItsTemplate
  FailedPageIsGone
  BuffersRestored
  NothingTwice
CHECK_DEADLOCK FALSE
