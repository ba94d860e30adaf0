\* Pages of 4 bytes: page 0 unmapped (NULL), page 4 the null_seg guard,
\* page 8 mapped.  The target is gone after PIN_ExitApplication() or an
\* unhandled fault, so the run may stop.
CONSTANTS
  PAGE_SIZE = 4
  Addrs = {0, 1, 2, 3, 4, 5, 6, 7, 8, 9, 10, 11}
  Mapped = {8, 9, 10, 11}
  null_seg = 4
SPECIFICATION Spec
INVARIANTS FaultOutcome
PROPERTIES AccessCompletes
CHECK_DEADLOCK FALSE
