\* A user who presses an arrow key while typing.
SPECIFICATION Spec
CONSTANTS
  Documents = {f1, f2}
  Media = {p1}
  Texts = {x1}
  Empty = Empty
  Loads = {o1, o2}
  Saves = {s1}
  None = None
  Patient = FALSE
INVARIANT
  TypedStays
CHECK_DEADLOCK FALSE
