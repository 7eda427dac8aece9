\* A withdrawal candidate whose stake is not the one that was withdrawn.
SPECIFICATION FeedSpec
CONSTANTS
    e1 = e1
    alice = alice
    r1 = r1
    r2 = r2
    Events = {e1}
    Attendees = {alice}
    Rsvps = {r1, r2}
    Allocs = {x1, x2}
    EventOf <- MCEventOf
    AttendeeOf <- MCAttendeeOf
    Specs <- MCSpecs
    NoAlloc = NoAlloc
    NoSpec = NoSpec
    NoRow = NoRow
    None = None
    RsvpDeadline <- MCRsvpDeadline
    EventEnd <- MCEventEnd
    SettleBefore <- MCSettleBefore
    MaxTime = 0
    MaxVersion = 2
    MaxLag = 1
    MaxQueue = 1
    MaxWindow = 1
PROPERTY LiveStakeKept
CHECK_DEADLOCK FALSE
