\* Round trip of an Ok ProposalResult.
CONSTANTS
  NVals = 3
  Kinds = {"ProposalOk"}
SPECIFICATION Spec
INVARIANT RoundTrip
