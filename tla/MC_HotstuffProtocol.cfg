\* Bounds 0..3 and every package of the nine variants whose codec is
\* consistent (ProposalResult(Ok) and VerifiableState are checked apart).
CONSTANTS
  MaxValue = 3
  NVals = 3
  Kinds = {"Block", "BlockVote", "TimeoutVote", "Timeout", "SyncRequest", "StateChangeNotify", "LastStateRequest", "ProposalErr", "QueryState"}
SPECIFICATION Spec
INVARIANTS
  PartialCmpTotalOrder
  MeasureMatchesEncode
  RoundTrip
