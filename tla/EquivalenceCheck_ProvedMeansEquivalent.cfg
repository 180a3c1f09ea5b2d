CONSTANTS
    p = p
    q = q
    x = x
    one = one
    two = two
    nan = nan
    norm = norm
    Points = {p, q}
    Outputs = {one, two, nan}
    Classes = {norm, nan}
    ClassOf <- MCClassOf
    Args = {x}
    InClasses = {norm, nan}
    SpecPairs <- FallbackPairs
SPECIFICATION Spec
CHECK_DEADLOCK FALSE
INVARIANTS
    ProvedMeansEquivalent
