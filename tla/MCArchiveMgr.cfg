SPECIFICATION Spec
CONSTANTS
  Parsers = {q1, q2}
  Names = {x, y}
  Invalid = invalid
  Objects = {b1, b2, b3, b4}
  Music = {m1}
  None = None
  StashMax = 1
  MaxDisturbed = 0
SYMMETRY Interchangeable
INVARIANTS OneArchivePerFile ClientsMeet  StashBounded
CHECK_DEADLOCK FALSE
