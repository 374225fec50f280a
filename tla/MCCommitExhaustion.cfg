CONSTANTS
    Jobs = {j1}
    Consumers = {c1}
    None = None
    StoryLength <- ShortStories
    MaxAttempts = 2
    MaxLog = 2
    MaxFaults = 2
SPECIFICATION Spec
PROPERTY CommitExhaustionTerminates
CHECK_DEADLOCK FALSE
