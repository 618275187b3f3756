SPECIFICATION Spec
CONSTANTS
  f = f
  g = g
  h = h
  Helpers = {f, g, h}
  Fields = {"p", "q", "r"}
  Vars = {"x", "y", "z"}
  Pointers = {"p", "q"}
  Structs = {"s", "t"}
  Programs <- MCPrograms
CHECK_DEADLOCK FALSE
INVARIANTS YesIsReal NoIsRealOutsideCycles FieldsExact SourcesCover LateIsReal
