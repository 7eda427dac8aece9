\* The rows of the indexer, by either feed, restarted and reconnected.
SPECIFICATION FeedSpec
CONSTANTS
    e1 = e1
    alice = alice
    r1 = r1
    r2 = r2
    Events = {e1}
    Attendees = {alice}
    Rsvps = {r1, r2}
    Allocs = {x1, x2}
    EventOf <- MCEventOf
    AttendeeOf <- MCAttendeeOf
    Specs <- MCSpecs
    NoAlloc = NoAlloc
    NoSpec = NoSpec
    NoRow = NoRow
    None = None
    RsvpDeadline <- MCRsvpDeadline
    EventEnd <- MCEventEnd
    SettleBefore <- MCSettleBefore
    MaxTime = 0
    MaxVersion = 2
    MaxLag = 2
    MaxQueue = 3
    MaxWindow = 5
SYMMETRY Symmetry
INVARIANTS
    FeedTypeOK
    FeedRowsFaithful
    FeedSettlementsFaithful
    FeedFlagsFaithful
\* Every contract may be archived and the clock at its bound.
CHECK_DEADLOCK FALSE
