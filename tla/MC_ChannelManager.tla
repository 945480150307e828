------------------------- MODULE MC_ChannelManager -------------------------
(* Model-checking instance of ChannelManager: two remotes, two concurrent *)
(* outbound create_channel calls besides the receive loop.                *)
EXTENDS ChannelManager
CONSTANTS p1, p2, cr1, cr2
MCPeers == {p1, p2}
MCCreators == {cr1, cr2}
=============================================================================
