\* Two events that close at once and share the pot, with every kind of token.
SPECIFICATION PotSpec
CONSTANTS
    e1 = e1
    e2 = e2
    alice = alice
    bob = bob
    Events = {e1, e2}
    Came <- MCCame
    Ghosts <- MCGhosts
    Stake <- MCStake
    NoPayee = NoPayee
    Deposit = Deposit
    MaxLag = 2
    MaxQueue = 4
INVARIANTS
    PotTypeOK
    NothingLost
    PotCovers
    PaidUnlessDisturbed
    PotRowsFaithful
    PayoutRowsFaithful
PROPERTIES
    AcceptedStays
\* Everybody may be paid.
CHECK_DEADLOCK FALSE
