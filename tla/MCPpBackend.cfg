CONSTANTS
    NumPhys = 2
    MaxTemps = 3
    Programs <- MCPrograms
    Shaders <- AllShaders
    CombineBlocks <- MCCombineBlocks
    PeepholeBlocks <- MCPeepholeBlocks
SPECIFICATION BackendSpec
INVARIANTS QueuesMatch LiveMovesLive NeighboursApart AllocationPreserves BeginningHonoured
           CombinePreserves EdgesFollowList ShaderMeaning
PROPERTY RoundTerminates
CHECK_DEADLOCK FALSE
