--------------------------- MODULE MC_StreamCache ---------------------------
(* Model-checking instance of StreamCache: a chunk of 3 pieces, session s1 *)
(* over the whole chunk fed by two concurrent calls, and session s2 over   *)
(* pieces 1..2 (an overlapping multi-source session) fed by one call.      *)
EXTENDS StreamCache, TLC

CONSTANTS s1, s2, c1, c2, c3

MCSessions == {s1, s2}
MCCallers == {c1, c2, c3}
MCSessionOf == (c1 :> s1) @@ (c2 :> s1) @@ (c3 :> s2)
MCWinStart == (s1 :> 0) @@ (s2 :> 1)
MCWinEnd == (s1 :> 3) @@ (s2 :> 3)
=============================================================================
