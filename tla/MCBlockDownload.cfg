SPECIFICATION Spec
CONSTANTS
    Block <- ForkBlocks
    Genesis = "g"
    Parent <- ForkTree
    Bad = {"b2"}
    Submitted = {"a"}
    Peer = {"p1", "p2"}
    BestKnown <- ForkKnown
    Transit = 2
    MaxDrops = 2
    None = None
PROPERTIES
    DownloadCompletes
