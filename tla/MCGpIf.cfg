CONSTANTS
    Fuel = 20
    NumPhys = 1
    Programs <- IfShaders
    Inputs <- Uniforms
    Blocks <- CrowdedBlocks
SPECIFICATION GpSpec
INVARIANT LivenessExact
