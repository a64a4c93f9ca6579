CONSTANTS
    Modules <- DeferModules
    MaxOut = 40
SPECIFICATION Spec
INVARIANTS
    DeferRuns
