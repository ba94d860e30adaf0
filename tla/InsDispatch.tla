---------------------------- MODULE InsDispatch ----------------------------
(***************************************************************************)
(* Instrumentation Dispatch Table of libdft_api.c and the set-up that      *)
(* precedes it: libdft_init() (with its two failure exits), the            *)
(* registration API (ins_set_pre, ins_set_post, ins_clr_pre, ins_clr_post, *)
(* ins_set_dflact) writing ins_desc[], and trace_inspect(), which Pin      *)
(* calls once per trace to weave the hooks into it; the result stays in    *)
(* Pin's code cache (cache) and runs every time the trace runs.            *)
(*                                                                         *)
(* A descriptor pointer argument is an opcode, or NULL.  Tools register    *)
(* between libdft_init() and PIN_StartProgram(), as libdft_init()'s       *)
(* comment requires; RuntimeRegistration lets them also do it while the    *)
(* program runs (the functions themselves do not check).                   *)
(***************************************************************************)
EXTENDS Integers, Sequences, SequencesExt

CONSTANTS
  Opcodes,             \* xed_iclass_enum_t values (model values)
  Hooks,               \* instrumentation callbacks a tool may pass
  NULL,                \* the null pointer
  Traces,              \* traces: sequences of BBLs, each a sequence of opcodes
  RuntimeRegistration  \* TRUE iff the tool registers while the program runs

\* libdft_api.h: INSDFL_ENABLE is 0, so memset() leaves every descriptor
\* with its default action enabled.
INSDFL_ENABLE == 0
INSDFL_DISABLE == 1

\* The action values a caller may pass to ins_set_dflact().
ActionArgs == 0..2

\* Hooks libdft_init() registers with Pin.
PinHooks == {"thread_start", "thread_fini", "syscall_entry", "syscall_exit",
             "trace", "internal_exception"}

ASSUME NULL \notin Opcodes \cup Hooks
ASSUME \A tr \in Traces : \A b \in DOMAIN tr : tr[b] \in Seq(Opcodes)

VARIABLES
  phase,       \* "boot" | "ready" | "failed" | "running"
  registered,  \* the Pin hooks libdft_init() has registered
  ins_desc,    \* ins_desc[]: [pre, post, dflact] per opcode
  rc,          \* return value of the last libdft API call
  compiled,    \* traces trace_inspect() has instrumented
  cache,       \* instrumentation Pin holds for each compiled trace
  compiledWith,\* ghost: ins_desc[] as trace_inspect() read it
  promised     \* ghost: ins_desc[] as the calls that returned 0 describe it

vars == <<phase, registered, ins_desc, rc, compiled, cache, compiledWith,
          promised>>

EmptyDesc == [pre |-> NULL, post |-> NULL, dflact |-> INSDFL_ENABLE]

Init ==
  /\ phase = "boot"
  /\ registered = {}
  \* ins_desc[] is a zero-initialised global
  /\ ins_desc = [op \in Opcodes |-> EmptyDesc]
  /\ rc = 0
  /\ compiled = {}
  /\ cache = [tr \in Traces |-> <<>>]
  /\ compiledWith = [tr \in Traces |-> ins_desc]
  /\ promised = ins_desc

-----------------------------------------------------------------------------
(***************************************************************************)
(* libdft_init(): thread_ctx_init() (claim a tool register, register the   *)
(* thread hooks), tagmap_alloc(), the syscall hooks, memset(ins_desc),     *)
(* the trace hook and the internal exception handler, in that order; the   *)
(* first two may fail and return 1, leaving what was registered so far.    *)
(***************************************************************************)
libdft_init ==
  /\ phase = "boot"
  /\ \/ /\ rc' = 1 /\ phase' = "failed"
        /\ UNCHANGED <<registered, ins_desc>>
     \/ /\ rc' = 1 /\ phase' = "failed"
        /\ registered' = {"thread_start", "thread_fini"}
        /\ UNCHANGED ins_desc
     \/ /\ rc' = 0 /\ phase' = "ready"
        /\ registered' = PinHooks
        /\ ins_desc' = [op \in Opcodes |-> EmptyDesc]
  /\ UNCHANGED <<compiled, cache, compiledWith, promised>>

\* The tool's main() starts the program once libdft_init() returned 0.
PIN_StartProgram ==
  /\ phase = "ready"
  /\ phase' = "running"
  /\ UNCHANGED <<registered, ins_desc, rc, compiled, cache, compiledWith,
                 promised>>

CanRegister ==
  \/ phase = "ready"
  \/ phase = "running" /\ RuntimeRegistration

\* Update field f of the descriptor desc points to; 1 if desc is NULL.
SetField(desc, f, val) ==
  IF desc = NULL
  THEN rc' = 1 /\ UNCHANGED ins_desc
  ELSE rc' = 0 /\ ins_desc' = [ins_desc EXCEPT ![desc][f] = val]

\* A registration call A asking for field f of desc to become val; a call
\* that returns 0 promises the tool that the field now holds val.
Registration(A, desc, f, val) ==
  /\ CanRegister
  /\ A
  /\ promised' = IF rc' = 0 THEN [promised EXCEPT ![desc][f] = val]
                 ELSE promised
  /\ UNCHANGED <<phase, registered, compiled, cache, compiledWith>>

\* ins_set_pre() / ins_set_post(): fail on a NULL descriptor or callback.
ins_set_pre(desc, pre) ==
  Registration(IF pre = NULL THEN rc' = 1 /\ UNCHANGED ins_desc
               ELSE SetField(desc, "pre", pre), desc, "pre", pre)

ins_set_post(desc, post) ==
  Registration(IF post = NULL THEN rc' = 1 /\ UNCHANGED ins_desc
               ELSE SetField(desc, "post", post), desc, "post", post)

ins_clr_pre(desc) == Registration(SetField(desc, "pre", NULL), desc, "pre", NULL)

\* Mutant: the body copied from ins_clr_pre() clears the pre hook.
ins_clr_post_pre(desc) ==
  Registration(SetField(desc, "pre", NULL), desc, "post", NULL)

ins_clr_post(desc) ==
  Registration(SetField(desc, "post", NULL), desc, "post", NULL)

\* Mutant: the switch on action dropped.
ins_set_dflact_nocheck(desc, action) ==
  Registration(SetField(desc, "dflact", action), desc, "dflact", action)

\* ins_set_dflact(): only INSDFL_ENABLE and INSDFL_DISABLE are accepted.
ins_set_dflact(desc, action) ==
  Registration(IF action \notin {INSDFL_ENABLE, INSDFL_DISABLE}
               THEN rc' = 1 /\ UNCHANGED ins_desc
               ELSE SetField(desc, "dflact", action), desc, "dflact", action)

-----------------------------------------------------------------------------
(***************************************************************************)
(* trace_inspect(): for every BBL, for every instruction, in order: the    *)
(* pre hook if set, ins_inspect() if dflact is INSDFL_ENABLE, the post     *)
(* hook if set.  A call is [at |-> <<bbl, ins>>, stage, fn].               *)
(***************************************************************************)
Call(p, stage, fn) == [at |-> p, stage |-> stage, fn |-> fn]

\* Mutant: the post hook woven before the pre hook.
InsCalls_swapped(D, op, p) ==
  (IF D[op].post # NULL THEN <<Call(p, "post", D[op].post)>> ELSE <<>>)
  \o (IF D[op].dflact = INSDFL_ENABLE THEN <<Call(p, "dfl", "ins_inspect")>> ELSE <<>>)
  \o (IF D[op].pre # NULL THEN <<Call(p, "pre", D[op].pre)>> ELSE <<>>)

InsCalls(D, op, p) ==
  (IF D[op].pre # NULL THEN <<Call(p, "pre", D[op].pre)>> ELSE <<>>)
  \o (IF D[op].dflact = INSDFL_ENABLE THEN <<Call(p, "dfl", "ins_inspect")>> ELSE <<>>)
  \o (IF D[op].post # NULL THEN <<Call(p, "post", D[op].post)>> ELSE <<>>)

Instrument(D, tr) ==
  FlattenSeq([b \in DOMAIN tr |->
                FlattenSeq([i \in DOMAIN tr[b] |-> InsCalls(D, tr[b][i], <<b, i>>)])])

trace_inspect(tr) ==
  /\ phase = "running"
  /\ "trace" \in registered
  /\ tr \notin compiled
  /\ compiled' = compiled \cup {tr}
  /\ cache' = [cache EXCEPT ![tr] = Instrument(ins_desc, tr)]
  /\ compiledWith' = [compiledWith EXCEPT ![tr] = ins_desc]
  /\ UNCHANGED <<phase, registered, ins_desc, rc, promised>>

Next ==
  \/ libdft_init
  \/ PIN_StartProgram
  \/ \E desc \in Opcodes \cup {NULL}, h \in Hooks \cup {NULL} :
       ins_set_pre(desc, h) \/ ins_set_post(desc, h)
  \/ \E desc \in Opcodes \cup {NULL} : ins_clr_pre(desc) \/ ins_clr_post(desc)
  \/ \E desc \in Opcodes \cup {NULL}, a \in ActionArgs : ins_set_dflact(desc, a)
  \/ \E tr \in Traces : trace_inspect(tr)

Spec == Init /\ [][Next]_vars

-----------------------------------------------------------------------------
TypeOK ==
  /\ phase \in {"boot", "ready", "failed", "running"}
  /\ registered \subseteq PinHooks
  /\ ins_desc \in [Opcodes -> [pre : Hooks \cup {NULL}, post : Hooks \cup {NULL},
                               dflact : {INSDFL_ENABLE, INSDFL_DISABLE}]]
  /\ rc \in {0, 1}
  /\ compiled \subseteq Traces

(***************************************************************************)
(* Reference for trace_inspect(), stated without its loops: the calls      *)
(* woven into trace tr under table D are exactly the registered pre hooks, *)
(* enabled default actions and registered post hooks of its instructions,  *)
(* each once, ordered by BBL, then instruction, then pre < dfl < post.     *)
(***************************************************************************)
StageRank == [pre |-> 1, dfl |-> 2, post |-> 3]

Before(x, y) ==
  \/ x.at[1] < y.at[1]
  \/ x.at[1] = y.at[1] /\ x.at[2] < y.at[2]
  \/ x.at = y.at /\ StageRank[x.stage] < StageRank[y.stage]

ExpectedCalls(D, tr) ==
  LET pos == UNION {{<<b, i>> : i \in DOMAIN tr[b]} : b \in DOMAIN tr}
      op(p) == tr[p[1]][p[2]]
  IN    {Call(p, "pre", D[op(p)].pre) : p \in {q \in pos : D[op(q)].pre # NULL}}
     \cup {Call(p, "dfl", "ins_inspect") :
             p \in {q \in pos : D[op(q)].dflact = INSDFL_ENABLE}}
     \cup {Call(p, "post", D[op(p)].post) : p \in {q \in pos : D[op(q)].post # NULL}}

MatchesReference(s, D, tr) ==
  /\ ToSet(s) = ExpectedCalls(D, tr)
  /\ \A i, j \in DOMAIN s : i < j => Before(s[i], s[j])

(***************************************************************************)
(* Three-stage dispatch (spec 4.3): the instrumentation trace_inspect()    *)
(* leaves in the code cache for every compiled trace is the reference      *)
(* weaving of the descriptor table it read.                                *)
(***************************************************************************)
InstrumentationMatchesReference ==
  \A tr \in compiled : MatchesReference(cache[tr], compiledWith[tr], tr)

(***************************************************************************)
(* A registration that returned 0 is in force (spec 4.3 and 6): once       *)
(* libdft_init() has succeeded, every field of ins_desc[] holds what the   *)
(* last successful registration call for it asked, or the reset value if  *)
(* none did.  A call on the wrong field, or a reset that discards what a   *)
(* tool registered and was told succeeded, breaks it.                      *)
(***************************************************************************)
RegistrationsInEffect ==
  phase \in {"ready", "running"} => ins_desc = promised

(***************************************************************************)
(* Registration takes effect (spec 8): what every compiled trace runs is   *)
(* the weaving of the current table, so clearing a hook or disabling a     *)
(* default action after it was registered restores the old dispatch.       *)
(***************************************************************************)
CacheCoherent ==
  \A tr \in compiled : MatchesReference(cache[tr], ins_desc, tr)

=============================================================================
