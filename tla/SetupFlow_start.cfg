SPECIFICATION Spec
CONSTANTS
    None = None
    nas = nas
    own = own
    quick = quick
    old = old
    new = new
    ended = ended
    Hosts <- MCHosts
    TsHosts <- MCTsHosts
    QuickHosts <- MCQuickHosts
    Ports <- MCPorts
    Candidates <- MCPorts
    Nodes <- MCNodes
    Pairs <- MCPairs
    Covers <- MCCovers
    Expired <- MCExpired
    MaxEdits = 2
    Overlap = FALSE
INVARIANTS
    FlowInv
    SetupThenStart
PROPERTIES
    WritesDeliberately
    OthersKept
CHECK_DEADLOCK FALSE
