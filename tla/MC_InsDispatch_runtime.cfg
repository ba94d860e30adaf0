\* A tool changes a hook while the program runs: traces already in Pin's
\* code cache keep the instrumentation woven before the change.
CONSTANTS
  op1 = op1
  op2 = op2
  Opcodes = {op1, op2}
  Hooks = {h1, h2}
  NULL = NULL
  Traces <- MCTraces
  RuntimeRegistration = TRUE
SPECIFICATION Spec
SYMMETRY Symm
INVARIANTS CacheCoherent
CHECK_DEADLOCK FALSE
