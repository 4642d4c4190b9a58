\* Two shards, long enough for a wedge to be reported and cleared; a threshold
\* below an idle shard's period, one below the latest first beat, and one at it.
SPECIFICATION Spec
CONSTANTS
    Count = 2
    Heartbeat = 2
    Interval = 2
    Stales = {1, 3, 4}
    Slack = 1
    Late = 1
    StartBy = 1
    MaxTime = 11
CHECK_DEADLOCK FALSE
INVARIANTS StallsReported Recovers
PROPERTIES NoFalseAlarm
