CONSTANTS
    Fuel = 20
    NumPhys = 1
    Programs <- ReloadShaders
    Inputs <- Uniforms
    Blocks <- CrowdedBlocks
SPECIFICATION GpSpec
INVARIANT MeaningKept
