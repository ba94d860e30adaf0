----------------------------- MODULE ExcptHdlr -----------------------------
(***************************************************************************)
(* Exception Remediator of libdft_api.c: excpt_hdlr(), which Pin calls     *)
(* for a fault raised while analysis code of a thread runs.  The analysis  *)
(* code makes one 4-byte shadow access at a time; the address decides the  *)
(* fault: an unmapped page gives an invalid-address fault, the PROT_NONE   *)
(* page null_seg an access-denied fault, and an unaligned address, while   *)
(* EFLAGS.AC is set, a misaligned-access fault.  Analysis code runs with   *)
(* the flags the target left (appAC); the handler clears AC in the         *)
(* physical context only, so the target's own flag returns next time.      *)
(***************************************************************************)
EXTENDS Integers

CONSTANTS
  PAGE_SIZE,  \* bytes per page
  Addrs,      \* addresses analysis code may access
  Mapped,     \* addresses in readable/writable pages
  null_seg    \* start of the PROT_NONE guard page

ASSUME null_seg % PAGE_SIZE = 0 /\ Mapped \subseteq Addrs

\* Pin exception codes and handler verdicts.
EXCEPTCODE_ACCESS_MISALIGNED == "misaligned"
EXCEPTCODE_ACCESS_DENIED == "denied"
EXCEPTCODE_ACCESS_INVALID_ADDRESS == "invalid"

PAGE_ALIGN(v) == v - (v % PAGE_SIZE)

VARIABLES
  appAC,  \* EFLAGS.AC as the target program set it
  ac,     \* EFLAGS.AC in the physical context of the running analysis code
  pc,     \* "target" | "access" | "handler": what the thread executes
  vaddr,  \* address of the current shadow access
  code,   \* exception code of the pending fault
  app     \* "running" | "exited" | "signalled"

vars == <<appAC, ac, pc, vaddr, code, app>>

Init ==
  /\ appAC \in BOOLEAN
  /\ ac = appAC
  /\ pc = "target"
  /\ vaddr \in Addrs
  /\ code = "none"
  /\ app = "running"

\* The target program runs and may set or clear AC (POPF).
TargetStep ==
  /\ app = "running" /\ pc = "target"
  /\ appAC' \in BOOLEAN
  /\ UNCHANGED <<ac, pc, vaddr, code, app>>

\* Analysis code starts a shadow access at a, with the target's flags.
AnalysisStart ==
  /\ app = "running" /\ pc = "target"
  /\ \E a \in Addrs : vaddr' = a
  /\ ac' = appAC
  /\ pc' = "access"
  /\ UNCHANGED <<appAC, code, app>>

\* The fault the processor raises for the access, if any.
Fault(a) ==
  CASE PAGE_ALIGN(a) = null_seg -> EXCEPTCODE_ACCESS_DENIED
    [] a \notin Mapped -> EXCEPTCODE_ACCESS_INVALID_ADDRESS
    [] a % 4 # 0 /\ ac -> EXCEPTCODE_ACCESS_MISALIGNED
    [] OTHER -> "none"

AccessStep ==
  /\ pc = "access"
  /\ IF Fault(vaddr) = "none"
     THEN pc' = "target" /\ UNCHANGED code
     ELSE pc' = "handler" /\ code' = Fault(vaddr)
  /\ UNCHANGED <<appAC, ac, vaddr, app>>

(***************************************************************************)
(* excpt_hdlr(): a misaligned access clears EFLAGS.AC and returns          *)
(* EHR_HANDLED (the access is retried); an access-denied fault in the      *)
(* null_seg page calls PIN_ExitApplication(-1); anything else returns      *)
(* EHR_UNHANDLED and the fault is delivered to the target.                 *)
(***************************************************************************)
\* Mutant: EHR_HANDLED returned without clearing AC.
excpt_hdlr_noclear ==
  /\ pc = "handler"
  /\ IF code = EXCEPTCODE_ACCESS_MISALIGNED
     THEN pc' = "access" /\ UNCHANGED <<ac, app>>
     ELSE IF code = EXCEPTCODE_ACCESS_DENIED /\ PAGE_ALIGN(vaddr) = null_seg
     THEN app' = "exited" /\ UNCHANGED <<ac, pc>>
     ELSE app' = "signalled" /\ UNCHANGED <<ac, pc>>
  /\ UNCHANGED <<appAC, vaddr, code>>

\* Mutant: the faulting address compared without PAGE_ALIGN.
excpt_hdlr_unaligned_cmp ==
  /\ pc = "handler"
  /\ IF code = EXCEPTCODE_ACCESS_MISALIGNED
     THEN ac' = FALSE /\ pc' = "access" /\ UNCHANGED app
     ELSE IF code = EXCEPTCODE_ACCESS_DENIED /\ vaddr = null_seg
     THEN app' = "exited" /\ UNCHANGED <<ac, pc>>
     ELSE app' = "signalled" /\ UNCHANGED <<ac, pc>>
  /\ UNCHANGED <<appAC, vaddr, code>>

excpt_hdlr ==
  /\ pc = "handler"
  /\ IF code = EXCEPTCODE_ACCESS_MISALIGNED
     THEN ac' = FALSE /\ pc' = "access" /\ UNCHANGED app
     ELSE IF code = EXCEPTCODE_ACCESS_DENIED /\ PAGE_ALIGN(vaddr) = null_seg
     THEN app' = "exited" /\ UNCHANGED <<ac, pc>>
     ELSE app' = "signalled" /\ UNCHANGED <<ac, pc>>
  /\ UNCHANGED <<appAC, vaddr, code>>

Next == TargetStep \/ AnalysisStart \/ AccessStep \/ excpt_hdlr

\* Analysis code and the handler run on the faulting thread without
\* blocking; a runnable thread keeps being scheduled.
Fairness == WF_vars(AccessStep) /\ WF_vars(excpt_hdlr)

Spec == Init /\ [][Next]_vars /\ Fairness

-----------------------------------------------------------------------------
(***************************************************************************)
(* Fault outcome (spec 4.5 and 7): libdft terminates the target only for   *)
(* an access inside the null_seg guard page, and a fault the target sees   *)
(* comes from an access to a page that is not mapped, never from an        *)
(* alignment check on a mapped page.                                       *)
(***************************************************************************)
FaultOutcome ==
  /\ app = "exited" => PAGE_ALIGN(vaddr) = null_seg
  /\ app = "signalled" => vaddr \notin Mapped /\ PAGE_ALIGN(vaddr) # null_seg

(***************************************************************************)
(* Misaligned-access remediation never stalls the thread: every shadow     *)
(* access analysis code starts eventually completes, unless the target is  *)
(* gone.                                                                   *)
(***************************************************************************)
AccessCompletes == (pc = "access") ~> (pc = "target" \/ app # "running")

=============================================================================
