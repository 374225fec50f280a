\* Anyone writes the topic: foreign records, events in any order.
CONSTANTS
    Jobs = {j1, j2}
    Consumers = {c1, c2}
    None = None
    StoryLength <- ShortStories
    MaxAttempts = 2
    MaxLog = 3
    MaxFaults = 2
SPECIFICATION FairSpec
INVARIANTS
    CommittedIsHandled
    DeadLettersAreSettled
    RefusedWasApplied
PROPERTIES
    TerminalProjectionIsFinal
    ProjectionFollowsStory
    EveryRecordHandled
CHECK_DEADLOCK FALSE
