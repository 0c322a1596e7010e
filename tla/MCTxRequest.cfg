SPECIFICATION FairSpec
CONSTANTS
    Peer = {"a", "b"}
    Tx = {"t", "u"}
    None = None
    Preferred = {"a"}
    Relay = {"b"}
    Rank <- MCRank
    MaxAnnouncements = 1
    MaxInFlight = 1
    MaxInvs = 4
    MaxBack = 1
PROPERTIES
    ImplementsHeader
    EveryCandidateLeaves
