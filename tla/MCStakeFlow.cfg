\* One request at a time, any of which may die anywhere.
SPECIFICATION FairStakeFlowSpec
CONSTANTS
    e1 = e1
    alice = alice
    Events = {e1}
    Attendees = {alice}
    Rsvps = {r1}
    Allocs = {x1, x2}
    EventOf <- MCEventOf
    AttendeeOf <- MCAttendeeOf
    Specs <- MCSpecs
    NoAlloc = NoAlloc
    NoSpec = NoSpec
    NoRow = NoRow
    None = None
    RsvpDeadline <- MCRsvpDeadline
    EventEnd <- MCEventEnd
    SettleBefore <- MCSettleBefore
    MaxTime = 1
    MaxVersion = 5
    MaxLag = 1
    MaxQueue = 1
    Requests = {q1}
INVARIANTS
    StakeFlowTypeOK
    OneStakePerSlot
PROPERTIES
    LockedStakeRecorded
    LostStakeMarked
\* Every contract may be archived and the clock at its bound.
CHECK_DEADLOCK FALSE
