\* Two requests at once.
SPECIFICATION StakeFlowSpec
CONSTANTS
    e1 = e1
    alice = alice
    Events = {e1}
    Attendees = {alice}
    Rsvps = {r1}
    Allocs = {x1, x2}
    EventOf <- MCEventOf
    AttendeeOf <- MCAttendeeOf
    Specs <- MCSpecs
    NoAlloc = NoAlloc
    NoSpec = NoSpec
    NoRow = NoRow
    None = None
    RsvpDeadline <- MCRsvpDeadline
    EventEnd <- MCEventEnd
    SettleBefore <- MCSettleBefore
    MaxTime = 0
    MaxVersion = 1
    MaxLag = 1
    MaxQueue = 1
    Requests = {q1, q2}
SYMMETRY Symmetry
INVARIANT OneStakePerSlot
CHECK_DEADLOCK FALSE
