------------------------------ MODULE ServingPair ------------------------------
(***************************************************************************)
(* What the batch publication promises to the readers of the active A/B     *)
(* pair: at most one generation is offered at a time, two generations are    *)
(* never exchanged without an interval in which none is offered, and a       *)
(* generation that was withdrawn never comes back.  The last promise is what *)
(* lets a reader that takes no lock bracket its reads with two looks at the  *)
(* identity and compare.                                                    *)
(***************************************************************************)
CONSTANTS Generations, None

VARIABLES
    offered,   \* the generation readers may use, or None
    retired    \* generations that are no longer publishable

Init ==
    /\ offered = None
    /\ retired = {}

(* A generation is offered for the only time. *)
Offer(g) ==
    /\ offered = None
    /\ g \notin retired
    /\ offered' = g
    /\ retired' = retired \cup {g}

(* Publishers finish or give up; what is offered stays or is withdrawn. *)
Retire(G) ==
    /\ offered' \in {offered, None}
    /\ retired' = retired \cup G

Next ==
    \/ \E g \in Generations : Offer(g)
    \/ \E G \in SUBSET Generations : Retire(G)

Spec == Init /\ [][Next]_<<offered, retired>>
================================================================================
