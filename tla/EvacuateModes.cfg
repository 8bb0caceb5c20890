SPECIFICATION Spec
CONSTANTS
    d1 = d1
    d2 = d2
    d3 = d3
    h1 = h1
    h2 = h2
    h3 = h3
    Domains <- ThreeDomains
    Hosts <- ThreeHosts
    Local = local
    Destinations <- ThreeDestinations
    Cpus <- ThreeCpus
    MaxLoad = 2
    MaxRounds = 2
    Modes = {"compact", "scatter", "auto", "other"}
    Overbookings = {TRUE, FALSE}
    Overlap = FALSE
SYMMETRY DomainSymmetry
INVARIANT NoOverbooking
INVARIANT RefusedOnlyWhenFull
INVARIANT ScatterEven
INVARIANT CompactFill
INVARIANT AutoLevels
CHECK_DEADLOCK FALSE
