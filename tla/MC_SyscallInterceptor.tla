----------------------- MODULE MC_SyscallInterceptor -----------------------
(***************************************************************************)
(* Model of SyscallInterceptor for TLC: two threads, two heap blocks (one  *)
(* per thread, so calloc() fails only when it fails on its own), two       *)
(* tracked bytes at addresses 1 and 2, and a syscall table of three        *)
(* descriptors shaped like libdft's:                                       *)
(*   0  read-like: fd, buf; buf writes back 2 bytes; retval_args only      *)
(*   1  hooked: one pointer argument writing back 1 byte; save_args,       *)
(*      pre and post callbacks                                             *)
(*   2  close-like: one argument, nothing written back, no flags           *)
(* and syscall number 3 (= SYSCALL_MAX) as the unknown one.                *)
(***************************************************************************)
EXTENDS SyscallInterceptor, TLC

NoMap == [i \in ArgIdx |-> 0]

MCDesc ==
  0 :> [nargs |-> 2, save_args |-> FALSE, retval_args |-> TRUE,
        pre |-> FALSE, post |-> FALSE, map_args |-> [NoMap EXCEPT ![1] = 2]]
  @@ 1 :> [nargs |-> 1, save_args |-> TRUE, retval_args |-> FALSE,
        pre |-> TRUE, post |-> TRUE, map_args |-> [NoMap EXCEPT ![0] = 1]]
  @@ 2 :> [nargs |-> 1, save_args |-> FALSE, retval_args |-> FALSE,
        pre |-> FALSE, post |-> FALSE, map_args |-> NoMap]

MCRetVals == {-1, 0}

Symm == Permutations(Threads) \cup Permutations(CtxAddrs)

=============================================================================
