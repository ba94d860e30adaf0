---------------------------- MODULE MC_VcpuRegs ----------------------------
(***************************************************************************)
(* Model of VcpuRegs for TLC: the IA-32 general purpose registers with     *)
(* all their 32-, 16- and 8-bit names, plus two registers the mapper does *)
(* not list (EIP, a 32-bit name, and SEG_FS, a 16-bit one), which take     *)
(* overflow slots.  RegOrd numbers the modelled part of Pin's REG          *)
(* enumeration densely; EIP comes last, at REG_LAST - 1.                  *)
(***************************************************************************)
EXTENDS VcpuRegs, Sequences

GPR == <<"EDI", "ESI", "EBP", "ESP", "EBX", "EDX", "ECX", "EAX">>
GPR16 == <<"DI", "SI", "BP", "SP", "BX", "DX", "CX", "AX">>

\* 8-bit names and the register holding them.
GPR8 == <<"AH", "AL", "CH", "CL", "DH", "DL", "BH", "BL">>
Holder8 == <<"EAX", "EAX", "ECX", "ECX", "EDX", "EDX", "EBX", "EBX">>

MCPhys == {GPR[i] : i \in 1..8} \cup {"EIP", "SEG_FS"}

MCViews ==
     {[name |-> GPR[i], width |-> 32, phys |-> GPR[i]] : i \in 1..8}
  \cup {[name |-> GPR16[i], width |-> 16, phys |-> GPR[i]] : i \in 1..8}
  \cup {[name |-> GPR8[i], width |-> 8, phys |-> Holder8[i]] : i \in 1..8}
  \cup {[name |-> "EIP", width |-> 32, phys |-> "EIP"],
        [name |-> "SEG_FS", width |-> 16, phys |-> "SEG_FS"]}

\* Order of the names in the modelled enumeration.
Names == GPR \o <<"SEG_FS">> \o GPR16 \o GPR8 \o <<"EIP">>

MCRegOrd == [n \in {Names[i] : i \in 1..Len(Names)} |->
               CHOOSE i \in 0..Len(Names)-1 : Names[i+1] = n]

MCRegLast == Len(Names)

MCSlots == GRP_NUM + MCRegLast

\* States are told apart by the VCPU alone: no action reads the ghost
\* intent, and the refinement check of a step reads only its new value.
MCView == vcpu

=============================================================================
