\* One tab, two accounts, a deposit.
SPECIFICATION WebSpec
CONSTANTS
    alice = alice
    bob = bob
    p0 = p0
    mine = mine
    Emails = {alice, bob}
    Parties = {p0, p1, p2}
    Offers = {o1}
    Registers = {mine, other}
    Mine = {mine}
    Demo <- MCDemo
    None = None
CHECK_DEADLOCK FALSE
INVARIANTS
    WebTypeOK
    OwnDataOnly
    NoFalseFlash
PROPERTIES
    SessionFollows
    PartyForLife
    DepositLands
