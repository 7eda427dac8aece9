\* The escrow contracts under every interleaving of choices.
SPECIFICATION Spec
CONSTANTS
    e1 = e1
    e2 = e2
    alice = alice
    bob = bob
    r1 = r1
    r2 = r2
    Events = {e1, e2}
    Attendees = {alice, bob}
    Rsvps = {r1, r2}
    Allocs = {x1, x2}
    EventOf <- MCEventOf
    AttendeeOf <- MCAttendeeOf
    Specs <- MCSpecs
    NoAlloc = NoAlloc
    NoSpec = NoSpec
    RsvpDeadline <- MCRsvpDeadline
    EventEnd <- MCEventEnd
    SettleBefore <- MCSettleBefore
    MaxTime = 3
    MaxVersion = 4
SYMMETRY Symmetry
INVARIANTS
    TypeOK
    OwnStakeOnly
    CheckedInHoldsStake
    StakeAccounted
PROPERTY PromiseKept
\* Every contract may be archived and the clock at its bound.
CHECK_DEADLOCK FALSE
