CONSTANTS
    NumPhys = 2
    MaxTemps = 3
    Programs <- IdlePrograms
    Shaders <- SwizzledPhis
    CombineBlocks <- IdleBlocks
    PeepholeBlocks <- IdleBlocks
SPECIFICATION BackendSpec
INVARIANT ShaderMeaning
CHECK_DEADLOCK FALSE
