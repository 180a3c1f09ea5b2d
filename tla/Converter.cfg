SPECIFICATION SpecArithmetic
CONSTANTS
  Inputs <- MCInputs
  Significands <- MCSignificands
  Exponents <- MCExponents
  Operands <- MCOperands
INVARIANTS
  DesignsAsSpecified
  RoundTrip
  InputsCovered
  SpecHonoured
\* A conversion ends with its result.
CHECK_DEADLOCK FALSE
