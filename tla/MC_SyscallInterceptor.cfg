\* Safety of the syscall interceptor and thread contexts, ret signed as the
\* spec states.  The program stops when its threads finish or it crashes.
CONSTANTS
  Threads = {t1, t2}
  CtxAddrs = {a1, a2}
  NULL = NULL
  ArgVals = {0, 1}
  VcpuSlots = {r1}
  SYSCALL_MAX = 3
  Desc <- MCDesc
  SysNrs = {0, 1, 2, 3}
  Mem = {1, 2}
  RetVals <- MCRetVals
  WordBits = 4
  RetSigned = TRUE
SPECIFICATION Spec
SYMMETRY Symm
INVARIANTS TypeOK ContextOwnership RegistersPrivate InFlightContextFaithful
PROPERTIES ExitTagEffect
CHECK_DEADLOCK FALSE
