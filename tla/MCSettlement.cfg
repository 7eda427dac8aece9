\* Two concurrent requests, c2 with one CloseEvent per item, transfers that may fail.
SPECIFICATION SettlementSpec
CONSTANTS
    E = e1
    alice = alice
    bob = bob
    r1 = r1
    r2 = r2
    Events = {e1}
    Attendees = {alice, bob}
    Rsvps = {r1, r2}
    Allocs = {x1, x2}
    Closes = {c1, c2}
    EventOf <- MCEventOf
    AttendeeOf <- MCAttendeeOf
    Specs <- MCSpecs
    NoAlloc = NoAlloc
    NoSpec = NoSpec
    RsvpDeadline <- MCRsvpDeadline
    EventEnd <- MCEventEnd
    SettleBefore <- MCSettleBefore
    MaxTime = 2
    MaxVersion = 6
    Stake = 3
    Sequential = {c2}
    DemoToken = FALSE
    PayoutsMayFail = TRUE
    MaxDeaths = 1
SYMMETRY Symmetry
INVARIANTS
    SettlementTypeOK
    PotConserved
    AttendedNotSlashed
    PayoutsMatchLedger
PROPERTIES
    ActiveStakeKept
\* The last request may return and nobody have anything left to do.
CHECK_DEADLOCK FALSE
