SPECIFICATION FairSpec
CONSTANTS
    Entries = {1, 2}
    Instances = {"a", "b"}
    BatchSize = 1
    Refused = {1}
INVARIANT
    GroupTypeOK
PROPERTIES
    PendingIsServed
    WaitingIsTaken
    RestartRepairs
