\* Three names over an array that starts with one slot: it grows, shrinks at
\* its end, gets holes in the middle and loses them at a restart.
CONSTANTS
  Names  = {t1, t2, t3}
  InitHW = 1
  Bound  = 5
SPECIFICATION Spec
INVARIANTS SlotsSafe DictAgrees
PROPERTY Implements
