SPECIFICATION Spec
CONSTANTS
  Headers <- MCHeaders
  Keys = {"k"}
  Index <- MCIndex
  Names = {"x"}
  Wanted = {"b", "B"}
  Lower <- MCLower
  Null = Null
  MaxLines = 6
  MaxSteps = 6
PROPERTY
  LinesStayInTheirSection
CHECK_DEADLOCK FALSE
