SPECIFICATION Spec
CONSTANTS
    Half = 8
    Second = 2
    TimeOf <- MCTimeOf
    ZeroTime <- MCZeroTime
    EscapedPaths = {"escaped.path"}
    VPrefixed = {"v1", "v"}
    LongerThanV = {"v1"}
    Numeric = {"1"}
    DNSNames = {"v1", "v", "1", "apps"}
    Namespaces = {"a", "b"}
    LabelKeys = {"app"}
    LabelValues = {"x", "y", ""}
    Padded = {" v1", " Pod"}
    Manifests <- MCManifests
    Objects <- MCObjects
    MaxTime = 5
    Setups <- MCSetups
    None = None
CHECK_DEADLOCK FALSE
PROPERTY
    PausedSkipped
