---------------------------- MODULE PointerRegister ----------------------------
(***************************************************************************)
(* What the Hybrid publication promises about one user's serving pointer: it *)
(* appears once, and from then on it only moves to content of a strictly     *)
(* later event time, within the source generation it started from.  A reader  *)
(* that saw a version never sees an older one afterwards.                    *)
(***************************************************************************)
EXTENDS Naturals

CONSTANTS
    Versions, None,
    AsOf,        \* the event time of each version
    GenOf        \* the source generation of each version

VARIABLE current

Init == current = None

Advance(v) ==
    /\ current # None => GenOf[current] = GenOf[v] /\ AsOf[current] < AsOf[v]
    /\ current' = v

Next == \E v \in Versions : Advance(v)

Spec == Init /\ [][Next]_current
================================================================================
