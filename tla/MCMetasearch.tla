--------------------------- MODULE MCMetasearch ---------------------------
EXTENDS MetasearchProps, TLC

CONSTANTS c1, c2, c3

(* Two targets, and a second client for the first one, for the searches    *)
(* that drop the cached clients.                                           *)
MCTarget == (c1 :> "t1") @@ (c2 :> "t2") @@ (c3 :> "t1")

(* Channels are alike, and so are connections.                             *)
MCSymmetry == Permutations(Chans) \cup Permutations(Conns)
=============================================================================
