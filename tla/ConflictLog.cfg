\* Two changes from a peer on the same instance; every logging setting;
\* one transient abort and one crash restart.
CONSTANTS
    NodeIds <- MCNodeIds
    SelfNode <- MCSelfNode
    PeerNode <- MCPeerNode
    Orders = {"remote", "local", "tie"}
    Handlers = {"none", "skip"}
    MaxChanges = 2
    MaxAborts = 1
    MaxRestarts = 1
SPECIFICATION Spec
INVARIANTS
    TypeOK
    LoggingComplete
    ScanKeysFindConflicts
