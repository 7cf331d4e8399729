\* Two profile changes in a row, and no tool call.
CONSTANTS
  None = None
  a = a
  b = b
  rebinder = rebinder
  Homes = {a, b}
  Valid = {a, b}
  Sectionless = {}
  BootHome = a
  Callers = {}
  Rebinder = rebinder
  MaxRebinds = 2
SPECIFICATION Spec
CHECK_DEADLOCK FALSE
INVARIANT RebindsConverge
