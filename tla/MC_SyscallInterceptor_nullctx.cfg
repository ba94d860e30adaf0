\* thread_alloc()'s calloc() fails while another thread runs; the detach
\* is asynchronous, so the failing thread may run analysis code first.
CONSTANTS
  Threads = {t1, t2}
  CtxAddrs = {a1, a2}
  NULL = NULL
  ArgVals = {0, 1}
  VcpuSlots = {r1}
  SYSCALL_MAX = 3
  Desc <- MCDesc
  SysNrs = {0, 1, 2, 3}
  Mem = {1, 2}
  RetVals <- MCRetVals
  WordBits = 4
  RetSigned = TRUE
SPECIFICATION Spec
SYMMETRY Symm
INVARIANTS NoNullContextDeref
CHECK_DEADLOCK FALSE
