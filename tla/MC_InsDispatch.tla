--------------------------- MODULE MC_InsDispatch ---------------------------
(***************************************************************************)
(* Model of InsDispatch for TLC: two opcodes, two hooks, and two traces    *)
(* in which an opcode recurs across BBLs and within one.                   *)
(***************************************************************************)
EXTENDS InsDispatch, TLC

CONSTANTS op1, op2

MCTraces == { << <<op1, op2>>, <<op1>> >>, << <<op2, op2>> >> }

Symm == Permutations(Hooks)

=============================================================================
