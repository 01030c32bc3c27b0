\* One NewNode call with any outcome: the queue keeps the broadcast bound and delivers the last item of every key while its memberlist gossips.
CONSTANTS
    b1 = b1
    b2 = b2
    Nil = Nil
    Absent = Absent
    BKeys <- MCKeys
    MemberCounts <- MCMemberCounts
    Outcomes <- AllOutcomes
    MaxNewNode = 1
    MaxEnqueue = 3
    RetransmitMult = 4
SPECIFICATION Spec
\* Once the calls are spent and the queue is drained, nothing is left to do.
CHECK_DEADLOCK FALSE
INVARIANTS
    BroadcastBound
PROPERTIES
    BroadcastDelivered
