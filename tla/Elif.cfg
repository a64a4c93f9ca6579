SPECIFICATION RunSpec
CONSTANTS
  Sources <- ElseSources
  Noise <- Slips
  TreeOf <- ParsedTokens
  Analyzed <- AcceptedBy
  Library <- LibraryOf
  Compiled <- UnitOf
  Started <- MachineOf
  Stepped <- StepOf
  WithCall <- WithMainOf
  CallingMain <- AtMainOf
CHECK_DEADLOCK FALSE
INVARIANT RunsAsWritten
