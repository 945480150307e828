-------------------------- MODULE HotstuffProtocol --------------------------
(***************************************************************************)
(* The wire-level pieces of cyfs-group's hotstuff protocol                 *)
(* (src/.../cyfs-group/src/objects/protocol.rs), checked together: the    *)
(* ordering of SyncBound (module SyncBound, over a triple of bounds) and   *)
(* the HotstuffPackage codec (module HotstuffCodec, over one package).     *)
(* A step examines the next bound triple or the next package.              *)
(***************************************************************************)
CONSTANTS MaxValue, NVals, Kinds

VARIABLES a, b, c, pkg

vars == <<a, b, c, pkg>>

SB == INSTANCE SyncBound
HC == INSTANCE HotstuffCodec

Init == SB!Init /\ HC!Init

Next ==
  \/ SB!Next /\ UNCHANGED pkg
  \/ HC!Next /\ UNCHANGED <<a, b, c>>

Spec == Init /\ [][Next]_vars

-----------------------------------------------------------------------------
(* SyncBound::partial_cmp is a total order (Equal exactly on equal bounds, *)
(* antisymmetric, transitive), as the `<` and `>` of sync ranges assume.   *)
PartialCmpTotalOrder == SB!PartialCmpTotalOrder

(* HotstuffPackage::raw_measure counts exactly the bytes raw_encode writes, *)
(* length prefixes included, so the encode buffer is never too short.      *)
MeasureMatchesEncode == HC!MeasureMatchesEncode

(* raw_decode of raw_encode's bytes gives back the package and consumes   *)
(* them all.                                                              *)
RoundTrip == HC!RoundTrip
=============================================================================
