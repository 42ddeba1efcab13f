CONSTANTS
    local = local
    factory = factory
    LocalCA <- local
    FactoryCA <- factory
    MaxRuns <- MCMaxRuns
SPECIFICATION Spec
INVARIANT CleanExitMeansGetVerifies
