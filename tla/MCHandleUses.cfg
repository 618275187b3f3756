SPECIFICATION Spec
CONSTANTS
  a = a
  b = b
  c = c
  d = d
  f = f
  g = g
  Selves = {a, b, c, d}
  Opaque = Opaque
  CancelFields = {f}
  GroupFields = {g}
  MaxReceiverDepth = 3
  Programs <- MCPrograms
INVARIANTS SummariesExact ReportsAreReal CreditsAreReal
