SPECIFICATION RunSpec
CONSTANTS
  Sources <- AllSources
  Noise <- Slips
  TreeOf <- ParsedTokens
  Analyzed <- AcceptedBy
  Library <- LibraryOf
  Compiled <- UnitOf
  Started <- MachineOf
  Stepped <- StepOf
  WithCall <- WithMainOf
  CallingMain <- AtMainOf
CHECK_DEADLOCK FALSE
INVARIANTS ReadsBack NeverPanics RunsAsWritten
