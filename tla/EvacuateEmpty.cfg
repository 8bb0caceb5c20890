SPECIFICATION Spec
CONSTANTS
    d1 = d1
    d2 = d2
    d3 = d3
    h1 = h1
    h2 = h2
    h3 = h3
    Domains <- ThreeDomains
    Hosts <- TwoHosts
    Local = local
    Destinations <- TwoDestinations
    Cpus <- TwoCpus
    MaxLoad = 2
    MaxRounds = 1
    Modes = {"compact", "scatter"}
    Overbookings = {FALSE}
    Overlap = FALSE
SYMMETRY DomainSymmetry
INVARIANT NoUndefined
CHECK_DEADLOCK FALSE
