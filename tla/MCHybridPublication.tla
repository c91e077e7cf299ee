-------------------------- MODULE MCHybridPublication --------------------------
(***************************************************************************)
(* Two attempts at the same version (an operator's retry, or two at once), a  *)
(* third at content of a later event time, and two batch runs.  v1 has two    *)
(* rows, so that an insert_many can be interrupted or interleaved.  The       *)
(* attempts of one version pass the same run_id to the lock.                  *)
(***************************************************************************)
EXTENDS HybridPublication, TLC

CONSTANTS a1, a2, a3, a4, g1, g2, v1, v2

MCAttempts == {a1, a2, a3}
MCPublishers == {g1, g2}
MCProcs == MCAttempts \cup MCPublishers
MCOnePublisher == {g1}
MCVersions == {v1, v2}
MCVersionOf == a1 :> v1 @@ a2 :> v1 @@ a3 :> v2
MCOwners == MCVersions \cup MCPublishers
MCOwnerOf == [p \in Procs |-> IF p \in MCAttempts THEN MCVersionOf[p] ELSE p]
MCGenOf == v1 :> g1 @@ v2 :> g1
MCGenOfTwo == v1 :> g1 @@ v2 :> g2
MCSpaceOf == [v \in Versions |-> "trend"]
MCAsOf == v1 :> 1 @@ v2 :> 2
MCRowsOf == v1 :> {1, 2} @@ v2 :> {}

(* Three versions without rows, the promotions alone; the second is attempted *)
(* twice, under one run_id.                                                  *)
MCFourAttempts == MCAttempts \cup {a4}
MCFourProcs == MCFourAttempts \cup MCOnePublisher
MCThreeVersions == {1, 2, 3}
MCSecondRetried == a1 :> 1 @@ a2 :> 2 @@ a3 :> 3 @@ a4 :> 2
MCThreeOwners == MCThreeVersions \cup MCOnePublisher
MCThreeOwnerOf == [p \in Procs |-> IF p \in MCFourAttempts THEN MCSecondRetried[p] ELSE p]
MCThreeGenOf == [v \in MCThreeVersions |-> g1]
MCThreeAsOf == [v \in MCThreeVersions |-> v]
MCThreeRowsOf == [v \in MCThreeVersions |-> {}]

MCStamp == [a \in Attempts |-> CASE a = a1 -> 1 [] a = a2 -> 3 [] a = a3 -> 5 [] OTHER -> 7]
================================================================================
