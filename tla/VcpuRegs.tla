------------------------------ MODULE VcpuRegs ------------------------------
(***************************************************************************)
(* Shadow Register Index Mapper of libdft_api.c (REG32_INDX, REG16_INDX,   *)
(* REG8_INDX) and the VCPU it indexes: the tag slots of one thread's       *)
(* vcpu_ctx_t, zeroed by calloc() in thread_alloc().  Analysis routines    *)
(* (libdft_core, outside this file) write a register's tag, or copy one    *)
(* register's tag to another, through the slot the mapper gives for the    *)
(* register view they name; how bytes within a slot mix is theirs and is   *)
(* not modelled.                                                           *)
(***************************************************************************)
EXTENDS Integers, TLC

CONSTANTS
  Phys,      \* physical registers
  Views,     \* [name, width, phys]: register names the analysis code passes
  RegOrd,    \* ordinal of every register name in Pin's REG enumeration
  REG_LAST,  \* REG_LAST: one past the largest ordinal
  NSLOTS     \* number of tag slots in vcpu_ctx_t

\* GRP_NUM: the eight general purpose registers.
GRP_NUM == 8

ASSUME \A v \in Views : v.width \in {8, 16, 32} /\ v.phys \in Phys
ASSUME \A v \in Views : RegOrd[v.name] \in 0..REG_LAST-1

VARIABLES
  vcpu,   \* tag of every VCPU slot
  intent  \* ghost: the physical registers the latest step names, by view

vars == <<vcpu, intent>>

\* Unknown registers go to an overflow slot past the GPRs, after
\* assert(reg < REG_LAST).
Overflow(reg) ==
  IF Assert(RegOrd[reg] < REG_LAST, "assert(reg < REG_LAST)")
  THEN GRP_NUM + RegOrd[reg] ELSE 0

REG32_INDX(reg) ==
  CASE reg = "EDI" -> 0 [] reg = "ESI" -> 1 [] reg = "EBP" -> 2
    [] reg = "ESP" -> 3 [] reg = "EBX" -> 4 [] reg = "EDX" -> 5
    [] reg = "ECX" -> 6 [] reg = "EAX" -> 7
    [] OTHER -> Overflow(reg)

\* Mutant: BH/BL mapped with DH/DL.
REG8_INDX_bx(reg) ==
  CASE reg \in {"AH", "AL"} -> 7 [] reg \in {"CH", "CL"} -> 6
    [] reg \in {"DH", "DL", "BH"} -> 5 [] reg = "BL" -> 4
    [] OTHER -> Overflow(reg)

\* 16-bit registers go to their 32-bit containers (AX -> EAX).
REG16_INDX(reg) ==
  CASE reg = "DI" -> 0 [] reg = "SI" -> 1 [] reg = "BP" -> 2
    [] reg = "SP" -> 3 [] reg = "BX" -> 4 [] reg = "DX" -> 5
    [] reg = "CX" -> 6 [] reg = "AX" -> 7
    [] OTHER -> Overflow(reg)

\* 8-bit registers go to their 32-bit containers (AH, AL -> EAX).
REG8_INDX(reg) ==
  CASE reg \in {"AH", "AL"} -> 7 [] reg \in {"CH", "CL"} -> 6
    [] reg \in {"DH", "DL"} -> 5 [] reg \in {"BH", "BL"} -> 4
    [] OTHER -> Overflow(reg)

\* The mapper the analysis code calls for a view of the given width.
Slot(v) ==
  CASE v.width = 32 -> REG32_INDX(v.name)
    [] v.width = 16 -> REG16_INDX(v.name)
    [] v.width = 8  -> REG8_INDX(v.name)

Init ==
  /\ vcpu = [i \in 0..NSLOTS-1 |-> FALSE]
  /\ intent = <<>>

\* An analysis routine sets or clears the tag of register view v.
RegWrite(v, tag) ==
  /\ vcpu' = [vcpu EXCEPT ![Slot(v)] = tag]
  /\ intent' = <<"set", v.phys>>

\* An analysis routine copies the tag of view src to view dst (MOV-like).
RegCopy(dst, src) ==
  /\ vcpu' = [vcpu EXCEPT ![Slot(dst)] = vcpu[Slot(src)]]
  /\ intent' = <<"copy", dst.phys, src.phys>>

Next ==
  \/ \E v \in Views, tag \in BOOLEAN : RegWrite(v, tag)
  \/ \E dst, src \in Views : RegCopy(dst, src)

Spec == Init /\ [][Next]_vars

-----------------------------------------------------------------------------
\* The slot of every physical register: that of its widest view.
PhysSlot == [p \in Phys |->
               Slot(CHOOSE v \in {w \in Views : w.phys = p} :
                      \A w \in Views : w.phys = p => w.width <= v.width)]

(***************************************************************************)
(* Alias consistency and no collision (spec 4.1), as a refinement: the     *)
(* VCPU, read through the slot of each physical register, behaves as one   *)
(* tag per physical register whichever view is written or read, and a     *)
(* step through a view of register p changes the tag of p alone.  A view   *)
(* mapped to another register's slot, two registers sharing a slot, or a   *)
(* slot outside the VCPU each break it.                                    *)
(***************************************************************************)
Abstract == INSTANCE RegTags WITH ptag <- [p \in Phys |-> vcpu[PhysSlot[p]]],
                                  last <- intent

RefinesRegTags == Abstract!Spec

=============================================================================
