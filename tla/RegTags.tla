------------------------------ MODULE RegTags ------------------------------
(***************************************************************************)
(* What the shadow register file promises (spec 3 and 4.1): one tag per    *)
(* physical register of a thread, whichever of its views (32-, 16- or      *)
(* 8-bit name) an analysis routine writes or reads it through.  last names *)
(* the physical registers the latest step acted on, so that a step on      *)
(* register p may change the tag of p and of no other register.            *)
(***************************************************************************)
CONSTANTS Phys

VARIABLES
  ptag,  \* the tag of every physical register
  last   \* <<"set", p>> or <<"copy", dst, src>>: the latest step

SetTag(p, tag) ==
  /\ ptag' = [ptag EXCEPT ![p] = tag]
  /\ last' = <<"set", p>>

CopyTag(dst, src) ==
  /\ ptag' = [ptag EXCEPT ![dst] = ptag[src]]
  /\ last' = <<"copy", dst, src>>

Init ==
  /\ ptag = [p \in Phys |-> FALSE]
  /\ last = <<>>

Next ==
  \/ \E p \in Phys, tag \in BOOLEAN : SetTag(p, tag)
  \/ \E dst, src \in Phys : CopyTag(dst, src)

Spec == Init /\ [][Next]_<<ptag, last>>

=============================================================================
