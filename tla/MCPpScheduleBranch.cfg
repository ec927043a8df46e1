SPECIFICATION Spec
CONSTANTS
  Chans <- MCChans
  Blocks <- BranchBlocks
  Policies = {"reg_pressure"}
INVARIANT BranchesRunLast
