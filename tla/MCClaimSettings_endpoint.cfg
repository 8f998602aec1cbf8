SPECIFICATION Spec
CONSTANTS
    Hosts = {"h1", "h2"}
    MaxClicks = 1
    MaxReviews = 0
    MaxLocks = 1
    MaxFaults = 0
INVARIANT EndpointIsSaved
CHECK_DEADLOCK FALSE
