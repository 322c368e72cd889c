SPECIFICATION Spec
CONSTANTS
    Workers = {w1, w2}
    Nobody = Nobody
    MaxAttempts = 2
    MaxRequests = 3
    MaxMishaps = 0
PROPERTIES
    CompletedStaysCompleted
CHECK_DEADLOCK FALSE
