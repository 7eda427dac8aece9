\* Requests that die and are refused, inside the settlement window; one attendee, who may stake twice.
SPECIFICATION FairSettlementSpec
CONSTANTS
    E = e1
    alice = alice
    bob = bob
    r1 = r1
    r2 = r2
    Events = {e1}
    Attendees = {alice}
    Rsvps = {r1}
    Allocs = {x1, x2}
    Closes = {c1, c2}
    EventOf <- MCEventOf
    AttendeeOf <- MCAttendeeOf
    Specs <- MCSpecs
    NoAlloc = NoAlloc
    NoSpec = NoSpec
    RsvpDeadline <- MCRsvpDeadline
    EventEnd <- MCEventEnd
    SettleBefore <- MCSettleBefore
    MaxTime = 1
    MaxVersion = 6
    Stake = 3
    Sequential = {}
    DemoToken = TRUE
    PayoutsMayFail = TRUE
    MaxDeaths = 1
PROPERTIES
    EventuallySettled
\* The last request may return and nobody have anything left to do.
CHECK_DEADLOCK FALSE
