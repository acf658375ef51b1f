CONSTANTS
    page_size_qw = 2
    pages = 2
    Values = {v, w}
    Unknown = Unknown
    Answer = Answer
    MaxSends = 2
    MaxWrites = 2
    Listings <- MCListings
    Statuses <- MCStatuses
    Sysfs = {TRUE, FALSE}
    MaxFaults = 2
SPECIFICATION Spec
INVARIANTS UsesOnlyLive LeaksConfined SendsSnapshot DiscoveryMatchesListing
SYMMETRY MCSymmetry
CHECK_DEADLOCK FALSE
