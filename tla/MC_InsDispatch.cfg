\* Dispatch table set up between libdft_init() and PIN_StartProgram(), then
\* every trace compiled.  The program ends once its traces are compiled.
CONSTANTS
  op1 = op1
  op2 = op2
  Opcodes = {op1, op2}
  Hooks = {h1, h2}
  NULL = NULL
  Traces <- MCTraces
  RuntimeRegistration = FALSE
SPECIFICATION Spec
SYMMETRY Symm
INVARIANTS TypeOK InstrumentationMatchesReference RegistrationsInEffect
CHECK_DEADLOCK FALSE
