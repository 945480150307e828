--------------------------- MODULE MC_ChunkStream ---------------------------
(* Model-checking instance of ChunkStream: a chunk of 3 pieces, session s1 *)
(* over the whole chunk and session s2 over pieces 1..2, each fed by one  *)
(* call (the two calls race on the shared pieces 1 and 2), while one      *)
(* encoder uploads the chunk.                                              *)
EXTENDS ChunkStream, TLC

CONSTANTS s1, s2, c1, c3

MCSessions == {s1, s2}
MCCallers == {c1, c3}
MCSessionOf == (c1 :> s1) @@ (c3 :> s2)
MCWinStart == (s1 :> 0) @@ (s2 :> 1)
MCWinEnd == (s1 :> 3) @@ (s2 :> 3)
=============================================================================
