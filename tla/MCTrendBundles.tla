---------------------------- MODULE MCTrendBundles -----------------------------
(***************************************************************************)
(* Two publishers of the same two windows (a stream and its restart), the      *)
(* second in chunks of one window, and a third with another content for one of *)
(* them.  They may find an identical document, or a damaged one, of an earlier *)
(* publication.                                                              *)
(***************************************************************************)
EXTENDS TrendBundles, TLC

CONSTANTS p1, p2, p3, w1, w2, x, y

MCPublishers == {p1, p2, p3}
MCWindows == {w1, w2}
MCChunksOf == p1 :> <<{w1, w2}>> @@ p2 :> <<{w1}, {w2}>> @@ p3 :> <<{w2}>>
MCContents == {x, y}
MCContentOf == [p \in MCPublishers |->
                   [w \in MCWindows |-> IF p = p3 THEN y ELSE x]]
MCDocuments == [content : MCContents, intact : BOOLEAN, expires : BOOLEAN]
MCEarlier(sound) == [content |-> x, intact |-> sound, expires |-> FALSE]
MCFound == {w1 :> d @@ w2 :> None : d \in {None, MCEarlier(TRUE), MCEarlier(FALSE)}}
================================================================================
