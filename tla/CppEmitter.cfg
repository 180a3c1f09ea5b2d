SPECIFICATION Spec
CONSTANTS
  Library <- SomeLibrary
  Designs <- SomeDesigns
  Payloads <- SomePayloads
  Mix <- SomeMix
CHECK_DEADLOCK FALSE
INVARIANTS
  ComputesTheDesign
  WellLinked
