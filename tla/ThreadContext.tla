--------------------------- MODULE ThreadContext ---------------------------
(***************************************************************************)
(* Thread Context Manager of libdft_api.c: the per-thread context          *)
(* (thread_ctx_t: VCPU plus syscall_ctx_t) allocated by thread_alloc() on  *)
(* Pin's thread-start notification and released by thread_free() on       *)
(* thread-finish.  Its address lives in the spilled tool register          *)
(* thread_ctx_ptr of that thread's CONTEXT (ctxReg here).                  *)
(*                                                                         *)
(* The heap is a set CtxAddrs of blocks; sctx[a] is the syscall_ctx_t      *)
(* stored in block a (it keeps its bytes after free(), and calloc()        *)
(* zeroes it on reuse).  vcpu[a] is the VCPU of block a, reduced to the    *)
(* set of its tainted slots (the slot mapping is the register module's).   *)
(* A failed calloc() calls libdft_die(), i.e. PIN_Detach(), which Pin      *)
(* carries out asynchronously: status goes "tracking" -> "detaching" ->    *)
(* "detached".  "crashed" is the target killed by a fault in analysis      *)
(* code.                                                                   *)
(***************************************************************************)
EXTENDS Integers

CONSTANTS
  Threads,    \* threads of the target program (model values)
  CtxAddrs,   \* heap blocks calloc() can hand out for a thread_ctx_t
  NULL,       \* the null pointer (model value)
  ArgVals,    \* raw syscall argument words a thread may pass (0 is NULL)
  VcpuSlots   \* tag slots of a VCPU

ASSUME NULL \notin CtxAddrs /\ 0 \in ArgVals

\* SYSCALL_ARG_NUM: syscall_ctx_t keeps six argument words, arg[0..5].
ArgIdx == 0..5

VARIABLES
  tstate,     \* "new" | "running" | "insys" | "finished", per thread
  ctxReg,     \* value of the spilled register thread_ctx_ptr, per thread
  allocated,  \* heap blocks currently allocated to a thread_ctx_t
  sctx,       \* syscall_ctx_t stored in each heap block
  status,     \* "tracking" | "detaching" | "detached" | "crashed"
  vcpu,       \* tainted VCPU slots stored in each heap block
  ownRegs     \* ghost: the slots each thread tainted since it started

regVars == <<vcpu, ownRegs>>
ctxVars == <<tstate, ctxReg, allocated, sctx, status, regVars>>

\* The bytes calloc() returns: nr 0, all args 0, ret 0, aux NULL.
ZeroCtx == [nr |-> 0, arg |-> [i \in ArgIdx |-> 0], ret |-> 0, aux |-> "none"]

\* Threads whose notifications libdft still receives.
Live == {t \in Threads : tstate[t] \in {"running", "insys"}}

\* Analysis code runs only while Pin is attached.
Attached == status \in {"tracking", "detaching"}

CtxInit ==
  /\ tstate = [t \in Threads |-> "new"]
  /\ ctxReg = [t \in Threads |-> NULL]
  /\ allocated = {}
  /\ sctx = [a \in CtxAddrs |-> ZeroCtx]
  /\ status = "tracking"
  /\ vcpu = [a \in CtxAddrs |-> {}]
  /\ ownRegs = [t \in Threads |-> {}]

(***************************************************************************)
(* thread_alloc(): calloc() a thread_ctx_t and store its address in the    *)
(* thread's thread_ctx_ptr.  On failure libdft_die() requests the detach   *)
(* and execution falls through: PIN_SetContextReg() stores NULL.           *)
(***************************************************************************)
\* Mutant: malloc() instead of calloc(); a reused block keeps its bytes.
thread_alloc_ok_malloc(t) ==
  /\ Attached
  /\ tstate[t] = "new"
  /\ \E a \in CtxAddrs \ allocated :
       /\ allocated' = allocated \cup {a}
       /\ ctxReg' = [ctxReg EXCEPT ![t] = a]
  /\ tstate' = [tstate EXCEPT ![t] = "running"]
  /\ ownRegs' = [ownRegs EXCEPT ![t] = {}]
  /\ UNCHANGED <<status, sctx, vcpu>>

thread_alloc_ok(t) ==
  /\ Attached
  /\ tstate[t] = "new"
  /\ \E a \in CtxAddrs \ allocated :
       /\ allocated' = allocated \cup {a}
       /\ sctx' = [sctx EXCEPT ![a] = ZeroCtx]
       /\ vcpu' = [vcpu EXCEPT ![a] = {}]
       /\ ctxReg' = [ctxReg EXCEPT ![t] = a]
  /\ tstate' = [tstate EXCEPT ![t] = "running"]
  /\ ownRegs' = [ownRegs EXCEPT ![t] = {}]
  /\ UNCHANGED status

\* libdft_die(): PIN_Detach() only requests the detach.
libdft_die == status' = IF status = "tracking" THEN "detaching" ELSE status

thread_alloc_fail(t) ==
  /\ Attached
  /\ tstate[t] = "new"
  /\ libdft_die
  /\ ctxReg' = [ctxReg EXCEPT ![t] = NULL]
  /\ tstate' = [tstate EXCEPT ![t] = "running"]
  /\ UNCHANGED <<allocated, sctx, regVars>>

\* Mutant: thread_free() forgets the free().
thread_free_leak(t) ==
  /\ Attached
  /\ t \in Live
  /\ tstate' = [tstate EXCEPT ![t] = "finished"]
  /\ UNCHANGED <<allocated, ctxReg, sctx, status, regVars>>

(***************************************************************************)
(* thread_free(): free() the block thread_ctx_ptr points to (free(NULL)    *)
(* does nothing).  Pin delivers it also for a thread killed inside a       *)
(* syscall (exit, exit_group), whose sysexit never comes.                  *)
(***************************************************************************)
thread_free(t) ==
  /\ Attached
  /\ t \in Live
  /\ allocated' = allocated \ {ctxReg[t]}
  /\ tstate' = [tstate EXCEPT ![t] = "finished"]
  /\ UNCHANGED <<ctxReg, sctx, status, regVars>>

\* Pin completes the detach requested by libdft_die(); no analysis code
\* or notification of libdft runs after it.
DetachComplete ==
  /\ status = "detaching"
  /\ status' = "detached"
  /\ UNCHANGED <<tstate, ctxReg, allocated, sctx, regVars>>

\* Analysis code of thread t sets or clears the tag of a VCPU slot, through
\* thread_ctx_ptr (the propagation rules live in libdft_core).
ins_reg_write(t) ==
  /\ Attached
  /\ tstate[t] = "running"
  /\ ctxReg[t] # NULL
  /\ \E r \in VcpuSlots, tag \in BOOLEAN :
       LET Set(S) == IF tag THEN S \cup {r} ELSE S \ {r}
       IN /\ vcpu' = [vcpu EXCEPT ![ctxReg[t]] = Set(@)]
          /\ ownRegs' = [ownRegs EXCEPT ![t] = Set(@)]
  /\ UNCHANGED <<tstate, ctxReg, allocated, sctx, status>>

=============================================================================
