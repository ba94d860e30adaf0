------------------------- MODULE SyscallInterceptor -------------------------
(***************************************************************************)
(* Syscall Boundary Interceptor of libdft_api.c (sysenter_save() and       *)
(* sysexit_save()) composed with the Thread Context Manager and with the   *)
(* process-wide tag store.  Threads run concurrently: between one thread's *)
(* sysenter and sysexit, other threads start, finish, issue syscalls and   *)
(* execute instructions whose analysis code writes tags.                   *)
(*                                                                         *)
(* syscall_desc[] is the constant Desc (it is defined outside libdft_api.c *)
(* and read-only here).  The tag store is the set of tainted bytes.        *)
(* inflight is a ghost variable: the syscall a thread really issued and,   *)
(* once it returned, the value the kernel returned (a signed long).        *)
(***************************************************************************)
EXTENDS ThreadContext, FiniteSets

CONSTANTS
  SYSCALL_MAX,  \* size of syscall_desc[]; numbers >= it are unknown
  Desc,         \* syscall_desc[]: [0..SYSCALL_MAX-1 -> descriptor record]
  SysNrs,       \* syscall numbers threads issue (some >= SYSCALL_MAX)
  Mem,          \* addresses of the bytes whose tags are tracked
  RetVals,      \* values the kernel may return (signed)
  WordBits,     \* width of ADDRINT, the type of syscall_ctx_t.ret
  RetSigned     \* TRUE iff ret is compared as a signed integer

ASSUME
  /\ SYSCALL_MAX \in Nat \ {0}
  /\ \A n \in 0..SYSCALL_MAX-1 :
       /\ Desc[n].nargs \in 0..6
       /\ Desc[n].save_args \in BOOLEAN /\ Desc[n].retval_args \in BOOLEAN
       /\ Desc[n].pre \in BOOLEAN /\ Desc[n].post \in BOOLEAN
       /\ Desc[n].map_args \in [ArgIdx -> Nat]
  /\ 0 \notin Mem /\ ArgVals \subseteq {0} \cup Mem
  /\ WordBits \in Nat \ {0} /\ RetSigned \in BOOLEAN

VARIABLES
  tainted,      \* the tag store: addresses whose tag is set
  inflight      \* ghost: [nr, args, ret] of a thread's current/last syscall

vars == <<ctxVars, tainted, inflight>>

NoCall == [nr |-> -1, args |-> <<>>, ret |-> 0]

Known(nr) == nr \in 0..SYSCALL_MAX-1

\* The test of both sysenter_save() and sysexit_save():
\* save_args | retval_args.
Saves(nr) == Desc[nr].save_args \/ Desc[nr].retval_args

\* The indices the switch's fallthrough writes: nargs 1..6 writes
\* arg[nargs-1] down to arg[0]; any other nargs hits the default.
Captured(nr) == IF Desc[nr].nargs \in 1..6 THEN 0..Desc[nr].nargs-1 ELSE {}

\* What PIN_GetSyscallReturn() leaves in the ADDRINT ret field.
AsRet(r) == IF RetSigned THEN r ELSE r % (2^WordBits)


\* The bytes tagmap_clrn(addr, n) clears: addr .. addr+n-1.
tagmap_clrn(addr, n) == {addr + k : k \in 0..n-1}

\* The bytes a syscall writes back, as the kernel sees the call: each
\* non-NULL pointer argument i with map_args[i] > 0, for map_args[i] bytes.
WriteBack(call) ==
  UNION {tagmap_clrn(call.args[i], Desc[call.nr].map_args[i]) :
           i \in {j \in DOMAIN call.args :
                    Desc[call.nr].map_args[j] > 0 /\ call.args[j] # 0}}

Init ==
  /\ CtxInit
  /\ tainted \in SUBSET Mem
  /\ inflight = [t \in Threads |-> NoCall]

-----------------------------------------------------------------------------
(***************************************************************************)
(* sysenter_save().  Every path first dereferences thread_ctx_ptr; with a  *)
(* NULL context (thread_alloc() failed, detach still pending) that is a    *)
(* fault in analysis code which excpt_hdlr() does not handle (the address  *)
(* is not in null_seg), so the target dies.                                *)
(***************************************************************************)
Issue(t, nr, args) ==
  /\ Attached
  /\ tstate[t] = "running"
  /\ tstate' = [tstate EXCEPT ![t] = "insys"]
  /\ inflight' = [inflight EXCEPT ![t] = [nr |-> nr, args |-> args, ret |-> 0]]

sysenter_nullctx(t) ==
  /\ ctxReg[t] = NULL
  /\ \E nr \in SysNrs : Issue(t, nr, <<>>)
  /\ status' = "crashed"
  /\ UNCHANGED <<ctxReg, allocated, sctx, tainted, regVars>>

\* Mutant: the unknown path returns without setting nr to -1.
sysenter_unknown_noreset(t) ==
  /\ ctxReg[t] # NULL
  /\ \E nr \in SysNrs \ (0..SYSCALL_MAX-1) : Issue(t, nr, <<>>)
  /\ UNCHANGED <<ctxReg, allocated, sctx, status, tainted, regVars>>

\* Mutant: the unknown path stores the raw number instead of -1.
sysenter_unknown_raw(t) ==
  /\ ctxReg[t] # NULL
  /\ \E nr \in SysNrs \ (0..SYSCALL_MAX-1) :
       /\ Issue(t, nr, <<>>)
       /\ sctx' = [sctx EXCEPT ![ctxReg[t]].nr = nr]
  /\ UNCHANGED <<ctxReg, allocated, status, tainted, regVars>>

\* syscall_nr >= SYSCALL_MAX: nr := -1, nothing saved, no callback.
sysenter_unknown(t) ==
  /\ ctxReg[t] # NULL
  /\ \E nr \in SysNrs \ (0..SYSCALL_MAX-1) :
       /\ Issue(t, nr, <<>>)
       /\ sctx' = [sctx EXCEPT ![ctxReg[t]].nr = -1]
  /\ UNCHANGED <<ctxReg, allocated, status, tainted, regVars>>

\* A known syscall: store nr; if save_args | retval_args, copy the
\* captured argument words, set aux to the entry CONTEXT and call the
\* pre callback (tool code; it does not touch tags).
sysenter_known(t) ==
  /\ ctxReg[t] # NULL
  /\ \E nr \in SysNrs \cap (0..SYSCALL_MAX-1) :
     \E args \in [0..Desc[nr].nargs-1 -> ArgVals] :
       LET c == sctx[ctxReg[t]]
       IN /\ Issue(t, nr, args)
          /\ sctx' = [sctx EXCEPT ![ctxReg[t]] =
                IF Saves(nr)
                THEN [c EXCEPT !.nr = nr,
                               !.arg = [i \in ArgIdx |->
                                          IF i \in Captured(nr)
                                          THEN args[i] ELSE c.arg[i]],
                               !.aux = "entry"]
                ELSE [c EXCEPT !.nr = nr]]
  /\ UNCHANGED <<ctxReg, allocated, status, tainted, regVars>>

-----------------------------------------------------------------------------
(***************************************************************************)
(* sysexit_save().  The kernel returns r; the handler reads the syscall    *)
(* number back from the thread's context.                                  *)
(***************************************************************************)
Return(t, r) ==
  /\ Attached
  /\ tstate[t] = "insys"
  /\ tstate' = [tstate EXCEPT ![t] = "running"]
  /\ inflight' = [inflight EXCEPT ![t] = [NoCall EXCEPT !.ret = r]]

\* nr < 0: the unknown-syscall early return.
sysexit_unknown(t) ==
  /\ \E r \in RetVals : Return(t, r)
  /\ sctx[ctxReg[t]].nr < 0
  /\ UNCHANGED <<ctxReg, allocated, sctx, status, tainted, regVars>>

\* A known syscall whose descriptor saves nothing: the flags test fails.
sysexit_nosave(t) ==
  /\ \E r \in RetVals : Return(t, r)
  /\ sctx[ctxReg[t]].nr >= 0
  /\ ~Saves(sctx[ctxReg[t]].nr)
  /\ UNCHANGED <<ctxReg, allocated, sctx, status, tainted, regVars>>

\* Mutant: the sanity check arg[i] != NULL dropped.
CtxWriteBack_nonull(c, nr) ==
  UNION {tagmap_clrn(c.arg[i], Desc[nr].map_args[i]) :
           i \in {j \in 0..Desc[nr].nargs-1 : Desc[nr].map_args[j] > 0}}

\* The bytes the default policy clears for context c: tagmap_clrn() of
\* every arg i < nargs with map_args[i] > 0 and arg[i] != NULL.
CtxWriteBack(c, nr) ==
  UNION {tagmap_clrn(c.arg[i], Desc[nr].map_args[i]) :
           i \in {j \in 0..Desc[nr].nargs-1 :
                    Desc[nr].map_args[j] > 0 /\ c.arg[j] # 0}}

\* Save ret and aux; with a post callback, call it (tool code; it may set
\* or clear the tags of the buffers in its context); else the default
\* policy: if ret < 0 stop, otherwise clear CtxWriteBack.
sysexit_save(t) ==
  /\ \E r \in RetVals :
       LET a  == ctxReg[t]
           nr == sctx[a].nr
           c  == [sctx[a] EXCEPT !.ret = AsRet(r), !.aux = "exit"]
       IN /\ Return(t, r)
          /\ nr >= 0 /\ Saves(nr)
          /\ sctx' = [sctx EXCEPT ![a] = c]
          /\ IF Desc[nr].post
             THEN \E set \in SUBSET (CtxWriteBack(c, nr) \cap Mem) :
                    tainted' = (tainted \ CtxWriteBack(c, nr)) \cup set
             ELSE IF c.ret < 0
             THEN UNCHANGED tainted
             ELSE tainted' = tainted \ CtxWriteBack(c, nr)
  /\ UNCHANGED <<ctxReg, allocated, status, regVars>>

-----------------------------------------------------------------------------
(***************************************************************************)
(* Analysis code of an ordinary instruction of thread t writes the tag of  *)
(* byte m (the propagation rules live in libdft_core, outside this file).  *)
(* It reads the VCPU through thread_ctx_ptr, so a NULL context faults.     *)
(***************************************************************************)
ins_tag_write(t) ==
  /\ Attached
  /\ tstate[t] = "running"
  /\ ctxReg[t] # NULL
  /\ \E m \in Mem, tag \in BOOLEAN :
       tainted' = IF tag THEN tainted \cup {m} ELSE tainted \ {m}
  /\ UNCHANGED <<ctxVars, inflight>>

ins_nullctx(t) ==
  /\ Attached
  /\ tstate[t] = "running"
  /\ ctxReg[t] = NULL
  /\ status' = "crashed"
  /\ UNCHANGED <<tstate, ctxReg, allocated, sctx, tainted, inflight, regVars>>

Next ==
  \/ \E t \in Threads :
       \/ thread_alloc_ok(t) /\ UNCHANGED <<tainted, inflight>>
       \/ thread_alloc_fail(t) /\ UNCHANGED <<tainted, inflight>>
       \/ thread_free(t) /\ UNCHANGED <<tainted, inflight>>
       \/ sysenter_nullctx(t)
       \/ sysenter_unknown(t)
       \/ sysenter_known(t)
       \/ sysexit_unknown(t)
       \/ sysexit_nosave(t)
       \/ sysexit_save(t)
       \/ ins_tag_write(t)
       \/ ins_reg_write(t) /\ UNCHANGED <<tainted, inflight>>
       \/ ins_nullctx(t)
  \/ DetachComplete /\ UNCHANGED <<tainted, inflight>>

Spec == Init /\ [][Next]_vars

-----------------------------------------------------------------------------
TypeOK ==
  /\ tstate \in [Threads -> {"new", "running", "insys", "finished"}]
  /\ ctxReg \in [Threads -> CtxAddrs \cup {NULL}]
  /\ allocated \subseteq CtxAddrs
  /\ sctx \in [CtxAddrs -> [nr : {-1} \cup (0..SYSCALL_MAX-1),
                             arg : [ArgIdx -> ArgVals],
                             ret : Int, aux : {"none", "entry", "exit"}]]
  /\ status \in {"tracking", "detaching", "detached", "crashed"}
  /\ vcpu \in [CtxAddrs -> SUBSET VcpuSlots]
  /\ tainted \subseteq Mem

(***************************************************************************)
(* Context isolation and release (thread_alloc/thread_free): while libdft  *)
(* is attached, the allocated blocks are exactly the contexts of the live  *)
(* threads, and no two live threads share one.  A leaked, freed-but-used   *)
(* or shared context breaks it.                                            *)
(***************************************************************************)
ContextOwnership ==
  Attached =>
    /\ allocated = {ctxReg[t] : t \in Live} \ {NULL}
    /\ \A t, u \in Live : t # u /\ ctxReg[t] # NULL => ctxReg[t] # ctxReg[u]

(***************************************************************************)
(* Shadow registers are private (spec 4.2 and 8): the VCPU a live thread   *)
(* reaches through thread_ctx_ptr holds exactly the taint that thread's    *)
(* own analysis code put there since it started; no tag of a thread that   *)
(* used the block before, and no write of another thread, shows through.   *)
(***************************************************************************)
RegistersPrivate ==
  \A t \in Live :
    (Attached /\ ctxReg[t] # NULL) => vcpu[ctxReg[t]] = ownRegs[t]

(***************************************************************************)
(* The context sysexit_save() will read describes the syscall the thread   *)
(* is really inside: an unknown number is marked -1 (so no stale number    *)
(* of an earlier syscall is reused), a known one is stored, and when the   *)
(* descriptor saves arguments, every captured word is the one the thread   *)
(* passed, however other threads' syscalls interleave.                     *)
(***************************************************************************)
InFlightContextFaithful ==
  \A t \in Live :
    (Attached /\ tstate[t] = "insys" /\ ctxReg[t] # NULL) =>
      LET c == sctx[ctxReg[t]]
          k == inflight[t]
      IN IF Known(k.nr)
         THEN /\ c.nr = k.nr
              /\ Saves(k.nr) => \A i \in Captured(k.nr) : c.arg[i] = k.args[i]
         ELSE c.nr = -1

(***************************************************************************)
(* Tag effect of sysexit_save() on a thread's return from a syscall:       *)
(* with a post callback only the syscall's write-back buffers may change;  *)
(* otherwise, for a descriptor that saves its arguments, a successful call *)
(* (the kernel returned >= 0) clears exactly its write-back buffers and a  *)
(* failed one changes nothing; any other syscall leaves the tags alone.    *)
(***************************************************************************)
ExitTagEffect ==
  [][\A t \in Threads :
       (tstate[t] = "insys" /\ tstate'[t] = "running") =>
         LET k == inflight[t]
             wb == WriteBack(k)
         IN IF Known(k.nr) /\ Saves(k.nr) /\ Desc[k.nr].post
            THEN tainted' \ wb = tainted \ wb
            ELSE IF Known(k.nr) /\ Saves(k.nr)
                    /\ inflight'[t].ret >= 0
            THEN tainted' = tainted \ wb
            ELSE tainted' = tainted]_vars

(***************************************************************************)
(* Fail-open shutdown (spec 4.2): when thread_alloc() cannot allocate a    *)
(* context, tracking stops and the target keeps running; analysis code     *)
(* never faults on the NULL context left in thread_ctx_ptr.                *)
(***************************************************************************)
NoNullContextDeref == status # "crashed"

=============================================================================
