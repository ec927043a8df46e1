SPECIFICATION Spec
CONSTANTS
  Chans <- MCChans
  Blocks <- MCBlocks
  Policies = {"simple", "reg_pressure"}
INVARIANTS TypeOK DepsCoverConflicts MinDepsReduced EveryInstrScheduledOnce ConflictsKeepOrder
PROPERTY Terminates
