CONSTANTS
    Fuel = 20
    NumPhys = 1
    Programs <- Shaders
    Inputs <- Uniforms
    Blocks <- AllBlocks
SPECIFICATION GpSpec
INVARIANTS DominanceExact SsaForm GraphExact MeaningKept LivenessExact
           MachineMeaning StoresHaveRoom NeverAbandoned
PROPERTY LivenessProgress
