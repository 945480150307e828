------------------------- MODULE MC_ContextManager -------------------------
(* ContextManager with one get_context and one put_context call, each     *)
(* repeated, two context versions, and a search of a path two levels     *)
(* deep.                                                                   *)
EXTENDS ContextManager
CONSTANTS g1, p1, v1, v2, a, b
MCGetters == {g1}
MCPutters == {p1}
MCVersions == {v1, v2}
MCSearchPath == <<a, b>>
=============================================================================
