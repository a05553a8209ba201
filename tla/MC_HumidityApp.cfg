CONSTANTS
  Readings = {r1, r2}
  Unread = Unread
SPECIFICATION Spec
INVARIANT LineReportsItsRead
