\* A subscription, of the host or of the lab, beside the telemetry; two revisions, so
\* that an apply, and a destroy and a deploy between two scans, happen; a
\* channel of two notes, so that receivers lag.
SPECIFICATION FairSpec
CONSTANTS
    Subs = {s}
    Threads = {k1, k2}
    Telemetry = Telemetry
    CollectAll = TRUE
    Nobody = Nobody
    Cap = 2
    MaxChanges = 2
INVARIANTS FollowerIsCurrent CollectorIsWanted
PROPERTIES SubscriptionEnds
