SPECIFICATION Spec
CONSTANTS
  Specifications <- SomeSpecifications
  MaxProbes = 5000
INVARIANTS
  CandidatesExact
  Settled
  ResultAsSpecified
  ConditionsAsSpecified
PROPERTY
  RoundsImprove
