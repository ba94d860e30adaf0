# TLA+ models of libdft-dta's core API (`src/libdft/src/libdft_api.c`)

libdft is a dynamic data-flow tracking library that runs on top of Intel Pin.
`libdft_api.c` is its control plane. It connects Pin's notifications (thread
start and finish, syscall entry and exit, trace compilation, internal faults) to
libdft's per-thread state and to the tool's hooks. The tag store (`tagmap`),
the syscall descriptor table and the propagation rules (`libdft_core`) are not
under `src/`. They appear here only as the state and the effects this file
relies on.

## Parts and how they interact

| Part (code) | State | Operations | Interacts with |
|---|---|---|---|
| Thread Context Manager (`thread_alloc`, `thread_free`, `thread_ctx_ptr`) | per-thread `thread_ctx_t` on the heap; its address in a spilled tool register | alloc on thread start (calloc may fail → `libdft_die`), free on thread finish | every analysis routine and syscall handler dereferences the context |
| Syscall Boundary Interceptor (`sysenter_save`, `sysexit_save`) | `syscall_ctx_t` in the thread's context | save nr/args at entry, ret/aux at exit, post callback or default tag cleanup | reads `syscall_desc[]`, clears tags in the shared tag store |
| Dispatch Table (`ins_desc[]`, `ins_set_*`, `ins_clr_*`, `trace_inspect`) | a pre/post/dflact descriptor per opcode; Pin's code cache | registration; weaving hooks into each trace once | tools register and Pin compiles traces |
| Register Index Mapper (`REG32/16/8_INDX`) | the VCPU's tag slots | pure mapping from register names to slots | used by every propagation rule |
| Exception Remediator (`excpt_hdlr`) | EFLAGS.AC; the faulting address | handle misaligned access, the guard page, pass the rest to the target | faults raised by analysis code |
| Init/Teardown (`libdft_init`, `libdft_die`) | registered Pin hooks | ordered registration with two failure exits; detach | activates all of the above |

## Modules

- **`ThreadContext`** models the thread lifecycle, the heap blocks and the
  `thread_ctx_ptr` register per thread, plus Pin's attach status.
  - `thread_alloc_ok` and `thread_alloc_fail` are the two paths of
    `thread_alloc`. The failure path calls `libdft_die`, which only *requests*
    the detach. It then falls through and stores NULL (lines 87–99).
  - `thread_free` frees the block. Pin also delivers it for a thread killed
    inside a syscall.
  - Each heap block also holds a VCPU, `vcpu[a]`, reduced to its set of
    tainted slots. `thread_alloc_ok` zeroes it, as `calloc` does.
    `ins_reg_write` is a thread's analysis code writing a slot through
    `thread_ctx_ptr`. The ghost `ownRegs` is the taint each thread wrote
    since it started.
  - `DetachComplete` is Pin finishing the detach.
- **`SyscallInterceptor`** extends `ThreadContext` and adds the shared tag store
  `tainted` (a set of bytes) and a ghost `inflight` (the syscall each thread is
  in and the kernel's return value).
  - `Issue` and `sysenter_*` form one atomic step, the entry notification, split
    by the code's branches:
    - NULL context;
    - unknown number (`nr := -1`);
    - known number: capture under the flag, with the fallthrough switch over
      `nargs`.
  - `Return` and `sysexit_*` form the exit notification:
    - unknown;
    - flags off;
    - save, then either a post callback (which may set or clear any tag of the
      buffers it was given) or the default policy: failure test on
      `ret < 0`, then clearing `map_args[i]` bytes at each non-NULL argument.
  - `nargs` is 0..6, the bound spec §3 and §4.4 give the descriptor table.
  - `AsRet` is how `ret` is stored: signed, or modulo `2^WordBits` when the
    field is unsigned `ADDRINT`.
  - `ins_tag_write` and `ins_nullctx` stand for analysis code of other
    threads (libdft_core, not under `src/`). Such code writes tags, or
    dereferences the context, which faults if it is NULL.
- **`InsDispatch`** models `libdft_init` with both failure exits and the
  `memset` of `ins_desc`. It also has the five registration functions with
  their error returns, and `trace_inspect` writing `Instrument(ins_desc, tr)`
  into `cache[tr]` once per trace, as Pin's code cache does.
  - `Instrument` is the loop over BBLs and instructions, written with
    `FlattenSeq`.
  - The property checks it against a loop-free reference, `ExpectedCalls`
    plus the order `Before`.
  - The ghost `promised` is the table as the registration calls that
    returned 0 describe it. `RegistrationsInEffect` compares it with
    `ins_desc` once `libdft_init` has succeeded.
  - `CanRegister` is the tool's calling protocol; the functions themselves
    check nothing. Tools register after `libdft_init`, as its comment
    (line 453) requires. `RuntimeRegistration` lets them also register
    while the program runs.
- **`RegTags`** is the abstract promise: one taint tag per physical register,
  with writes and copies.
- **`VcpuRegs`** models the VCPU slots addressed through `REG32_INDX`,
  `REG16_INDX` and `REG8_INDX`. These are translated case by case, including
  the overflow slot `GRP_NUM + reg` with its assert.
  - It is shown to implement `RegTags` through the refinement mapping
    `ptag[p] = vcpu[slot of p's widest view]`.
  - `last`, in `RegTags`, names the registers a step acts on. It is mapped
    from the ghost `intent`: the physical registers of the views the
    analysis code named. A step through a view of register p may change
    p's tag only.
  - `MC_VcpuRegs` uses `VIEW vcpu`. This is sound because no action reads
    `intent`, and the abstract step reads only the new value of `intent`.
  - `MC_VcpuRegs` gives the 8 general-purpose registers, their 16- and 8-bit
    views, `EIP` as the last register before `REG_LAST`, and a segment
    register.
- **`ExcptHdlr`** models a thread alternating between target code, which may
  toggle AC, and analysis code doing shadow accesses.
  - The fault a shadow access raises is decided by the page and the alignment.
  - `excpt_hdlr` is translated from the code.

## Runs

| Run | cfg | Expect | Checks |
|---|---|---|---|
| `syscall_safety` | `MC_SyscallInterceptor.cfg` | pass | `TypeOK`; `ContextOwnership` (live threads hold distinct allocated contexts and nothing else is allocated); `RegistersPrivate` (a live thread's VCPU holds exactly the taint it wrote since it started: nothing from an earlier user of the block, nothing from another thread); `InFlightContextFaithful` (the context of a thread in a syscall describes that syscall, or nr = -1 for an unknown one); `ExitTagEffect` (action: an exit changes exactly the tags the policy names, and nothing outside the syscall's buffers) |
| `syscall_unsigned_ret` | `…_unsigned.cfg` | violation | `ExitTagEffect` with `ret` stored unsigned |
| `alloc_fail_nullctx` | `…_nullctx.cfg` | violation | `NoNullContextDeref` after a failed calloc |
| `dispatch` | `MC_InsDispatch.cfg` | pass | `TypeOK`; `InstrumentationMatchesReference`; `RegistrationsInEffect` (every registration that returned 0 is in force after `libdft_init`) |
| `dispatch_runtime` | `MC_InsDispatch_runtime.cfg` | violation | `CacheCoherent` when tools register while the program runs |
| `vcpu_regs` | `MC_VcpuRegs.cfg` | pass | `RefinesRegTags` (refinement of `RegTags`) |
| `excpt` | `MC_ExcptHdlr.cfg` | pass | `FaultOutcome`; `AccessCompletes` (liveness) |

### Findings (details in `PROJECT.json`)

1. **Failure test never true.** `ret < 0` (line 289) cannot be true if `ret`
   is an unsigned `ADDRINT`, as in upstream `libdft_api.h`. A failed `read`
   then clears its buffer's taint.
2. **NULL context after a failed calloc.** `thread_alloc` stores NULL after
   `libdft_die`, and the detach is asynchronous. The thread's next syscall or
   instrumented instruction then dereferences NULL and the target crashes.
3. **Stale cached traces.** Registration after a trace is compiled does not
   reach that trace, because of Pin's code cache. Nothing flushes it.

## Bounds

- **`MC_SyscallInterceptor`**:
  - 2 threads and 2 heap blocks, so blocks are reused after free and two
    syscalls run at once.
  - Argument words {0, 1}, where 0 is NULL.
  - Return values {-1, 0}.
  - Memory bytes {1, 2}.
  - 3 descriptors shaped like libdft's table:
    - read-like: 2 args, `retval_args`, write-back on arg 1;
    - hooked: `save_args`, pre and post callbacks;
    - close-like: no flags.
  - One unknown number (3).
  - Symmetry over threads and over heap blocks is sound: neither is ever
    compared except for equality.
  - One VCPU slot. It is enough for a dead thread's taint to survive into
    a reused block, or one thread's write to reach another's VCPU.
  - About 344k states in 1.5 minutes.
- **`MC_InsDispatch`**:
  - 2 opcodes and 2 hooks (symmetric).
  - Two traces, one with 2 BBLs and one repeating an opcode, so program
    order, BBL order and repeated descriptors are all exercised.
- **`MC_VcpuRegs`** covers all 26 named views of the eight GPRs plus two
  overflow registers, with `EIP` at `REG_LAST - 1`.
- **`MC_ExcptHdlr`**:
  - 3 pages of 4 bytes: an unmapped page, the guard page, and a mapped page.
  - Every offset in each page.

## Fairness

- **`ExcptHdlr`:** weak fairness on the access and on the handler only. Both
  run on the faulting thread with no lock or wait, so a thread that is not
  descheduled forever takes them. The target's own steps get no fairness.
- **Other modules:** no liveness is checked.
- **Deadlock checking:**
  - It is off where every thread may have finished or the tool failed to
    initialise. Those are real terminal states.
  - It stays on for `MC_VcpuRegs`.

## Not modelled, and the plan

- **Not modelled:**
  - `tagmap` (only as a set of tainted bytes);
  - `syscall_desc[]` (a constant);
  - propagation rules (abstract tag writes);
  - Pin itself.
  - Nested syscall notifications. Pin delivers a signal handler only after
    the interrupted syscall's exit notification, or restarts the syscall
    with a new entry notification. So a handler's syscall never runs inside
    another's enter/exit pair (spec 5). A syscall that never returns
    (`exit`, a thread killed inside a syscall) is modelled: its thread
    finishes from `insys`.
  - Cases the code's contract rules out, and which are therefore not
    checked:
    - descriptors with more than six arguments (the exit loop would read
      `arg[6]`/`map_args[6]` out of bounds);
    - descriptors with write-back lengths but neither capture flag (spec §9
      says this cleanup is unreachable);
    - registration before `libdft_init`, whose `memset` (line 483) would
      discard it (the comment at line 453 forbids it).
  - The comments at lines 696–699, 765–768 and 818–821 say an unknown
    register maps to "the scratch register"; the code maps it to
    `GRP_NUM + reg` after an assert, which is what `VcpuRegs` models.
  - What a tool does when `libdft_init` fails. Tool code is outside this
    repository, and the program never starts (`PIN_StartProgram` needs a
    successful init), so the hooks left registered after a `tagmap_alloc`
    failure never fire.
- **Next steps:**
  1. A composed system: `InsDispatch`'s `libdft_init` outcome gating
     `ThreadContext`'s hooks.
  2. Larger instances of `syscall_safety` (three threads).
