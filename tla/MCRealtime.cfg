\* Two visits of the dashboard, or one with a connection that breaks; a summary
\* that fails, and a fleet that changes once.
CONSTANTS
    Publisher = Publisher
    None = None
    QueueSize = 1
    MaxChanges = 1
    MaxConnections = 2
    MaxFailures = 1
SPECIFICATION FairSpec
CHECK_DEADLOCK FALSE
INVARIANTS
    TypeOK
    SlowClientBounded
PROPERTIES
    PageCatchesUp
    LoadingEnds
    GoneIsUnsubscribed
    QuietWithoutListeners
