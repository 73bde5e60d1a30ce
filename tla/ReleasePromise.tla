--------------------------- MODULE ReleasePromise ---------------------------
(***************************************************************************)
(* What a release bundle promises, whatever is in its files: only a claim  *)
(* that Lean has accepted is ever published.  A claim is offered by        *)
(* putting files together, may be any claim at all, and may be withdrawn;  *)
(* whoever verifies the files publishes it.                                *)
(***************************************************************************)
CONSTANT NoClaim

VARIABLES issued,       \* claims Lean has accepted
          offered,      \* the claim that lies there to be verified, or NoClaim
          published     \* claims some verifier let through

vars == <<issued, offered, published>>

Init == issued = {} /\ offered = NoClaim /\ published = {}

Issue == issued \subseteq issued' /\ UNCHANGED <<offered, published>>

Offer == UNCHANGED <<issued, published>>    \* `offered' is anything

Publish ==
    /\ offered \in issued /\ published' = published \cup {offered}
    /\ UNCHANGED <<issued, offered>>

Next == Offer \/ Issue \/ Publish

Spec == Init /\ [][Next]_vars
=============================================================================
