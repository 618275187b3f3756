SPECIFICATION Spec
CONSTANTS
  k = k
  w = w
  m = m
  n = n
  x = x
  Funcs <- MCFuncs
  Imported <- MCImported
  Fields <- MCFields
  Programs <- MCPrograms
INVARIANTS NoStaleCaller NoLeakIsMissed AlarmsAreReal ExportIsExact
PROPERTY Terminates
CHECK_DEADLOCK FALSE
