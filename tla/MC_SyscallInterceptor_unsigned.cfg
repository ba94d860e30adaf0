\* ret held as the unsigned ADDRINT of syscall_ctx_t: a failed syscall
\* (ret < 0) passes the default policy's failure test.
CONSTANTS
  Threads = {t1, t2}
  CtxAddrs = {a1, a2}
  NULL = NULL
  ArgVals = {0, 1}
  VcpuSlots = {r1}
  SYSCALL_MAX = 3
  Desc <- MCDesc
  SysNrs = {0, 1, 2, 3}
  Mem = {1, 2}
  RetVals <- MCRetVals
  WordBits = 4
  RetSigned = FALSE
SPECIFICATION Spec
SYMMETRY Symm
PROPERTIES ExitTagEffect
CHECK_DEADLOCK FALSE
