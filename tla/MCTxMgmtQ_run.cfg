CONSTANTS
    MGMT_QUEUES_DEPTH = 3
SPECIFICATION FairSpec
INVARIANTS PortFollowsConn SentIsPermitted MgmtFirst
PROPERTIES EapolServed
