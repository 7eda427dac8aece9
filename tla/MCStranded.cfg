\* A stake recorded while the event is being closed.
SPECIFICATION SettlementSpec
CONSTANTS
    E = e1
    alice = alice
    bob = bob
    r1 = r1
    r2 = r2
    Events = {e1}
    Attendees = {alice, bob}
    Rsvps = {r1, r2}
    Allocs = {x1, x2}
    Closes = {c1}
    EventOf <- MCEventOf
    AttendeeOf <- MCAttendeeOf
    Specs <- MCSpecs
    NoAlloc = NoAlloc
    NoSpec = NoSpec
    RsvpDeadline <- MCRsvpDeadline
    EventEnd <- MCEventEnd
    SettleBefore <- MCSettleBefore
    MaxTime = 0
    MaxVersion = 6
    Stake = 3
    Sequential = {}
    DemoToken = FALSE
    PayoutsMayFail = FALSE
    MaxDeaths = 0
INVARIANTS
    NoStrandedStake
\* The last request may return and nobody have anything left to do.
CHECK_DEADLOCK FALSE
