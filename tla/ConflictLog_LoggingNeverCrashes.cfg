\* An InsertInsert conflict logged with include_tuples off.
CONSTANTS
    NodeIds <- MCNodeIds
    SelfNode <- MCSelfNode
    PeerNode <- MCPeerNode
    Orders = {"remote", "local", "tie"}
    Handlers = {"none", "skip"}
    MaxChanges = 2
    MaxAborts = 1
    MaxRestarts = 1
SPECIFICATION Spec
INVARIANT LoggingNeverCrashes
