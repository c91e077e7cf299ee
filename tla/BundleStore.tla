------------------------------ MODULE BundleStore ------------------------------
(***************************************************************************)
(* What the bundle collection promises to its readers: the document of a      *)
(* namespace and window is written whole, once, and is never changed; all    *)
(* that can happen to it afterwards is that its retention ends.               *)
(***************************************************************************)

CONSTANTS Windows, Documents, None

VARIABLE store

Init == store \in [Windows -> Documents \cup {None}]

Publish(w) ==
    /\ store[w] = None
    /\ \E d \in Documents : store' = [store EXCEPT ![w] = d]

Expire(w) ==
    /\ store[w] # None
    /\ store' = [store EXCEPT ![w] = None]

Next == \E w \in Windows : Publish(w) \/ Expire(w)

Spec == Init /\ [][Next]_store
================================================================================
