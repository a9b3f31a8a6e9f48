SPECIFICATION LiveSpec
CONSTANTS
    Writer = {w1, w2}
    MaxId = 4
    ReplayLimit = 2
    ReauthPolls = 2
    MaxBackpressure = 2
INVARIANTS CutOff BoundedMemory
PROPERTIES FeedSpec Served
