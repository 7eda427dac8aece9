\* The page of an event in one tab.
SPECIFICATION EventPageSpec
CONSTANTS
    e1 = e1
    alice = alice
    Events = {e1}
    Attendees = {alice}
    Rsvps = {r1}
    Allocs = {x1, x2}
    EventOf <- MCEventOf
    AttendeeOf <- MCAttendeeOf
    Specs <- MCSpecs
    NoAlloc = NoAlloc
    NoSpec = NoSpec
    NoRow = NoRow
    None = None
    RsvpDeadline <- MCRsvpDeadline
    EventEnd <- MCEventEnd
    SettleBefore <- MCSettleBefore
    MaxTime = 1
    MaxVersion = 2
    MaxLag = 1
    MaxQueue = 1
    MySlot <- MCSlot
    Requests = {q1, q2}
SYMMETRY Symmetry
INVARIANTS
    EventPageTypeOK
    TabStakesOnce
    StepperShown
    VerdictTrue
    OffersTrue
    PanelTrue
CHECK_DEADLOCK FALSE
