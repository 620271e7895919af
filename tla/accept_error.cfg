SPECIFICATION Spec
CONSTANTS
  c1 = c1
  c2 = c2
  a = a
  b = b
  Conns = {c1, c2}
  Names = {a, b}
  FileMaps <- MCFileMaps
  None = None
  Earlier = Earlier
  Limits <- MCLimits
  Leftovers <- MCLeftovers
  MaxStarts = 2
PROPERTY AcceptErrorMeansStop
CHECK_DEADLOCK FALSE
