------------------------------- MODULE Accounts -------------------------------
(***************************************************************************)
(* The accounts (backend/internal/users) and the deposit acceptor          *)
(* (settle/deposits.go).  To register is to look for the email, allocate a *)
(* party on the ledger and insert a row, three steps that a second one of  *)
(* the same email may overlap.  Tokens that are sent to a party are an     *)
(* offer; the acceptor asks for the offers of each user's party every      *)
(* fifteen seconds and accepts them as that party.  What it has done with  *)
(* it remembers in memory.                                                 *)
(***************************************************************************)
EXTENDS Naturals, FiniteSets

CONSTANTS
    Emails, Parties, Offers,
    Registers,      \* the registrations that may run at the same time
    Demo,           \* the accounts that were seeded: a function to parties
    None

ASSUME AccountsConstants == /\ None \notin Emails \cup Parties
                            /\ DOMAIN Demo \subseteq Emails
                            /\ \A e \in DOMAIN Demo : Demo[e] \in Parties
                            /\ \A e, f \in DOMAIN Demo : Demo[e] = Demo[f] => e = f

VARIABLES
    users,      \* users[e]: the party of the account of email e
    allocated,  \* the parties on the ledger
    register,   \* register[g]: how far registration g is
    offer,      \* offer[o]: whose it is, and whether a registry knows it
    seen,       \* the offers the acceptor will not try again
    visit,      \* the parties left in its sweep
    todo        \* the offers it has found for one of them

acctVars == <<users, allocated, register, offer, seen, visit, todo>>

Away == [at |-> "idle", email |-> None, party |-> None]

Gone == [at |-> "none", party |-> None, known |-> FALSE]

UserParties == {users[e] : e \in Emails} \ {None}

-------------------------------------------------------------------------------
(* Manager.register *)

StartRegister(g, e) ==
    /\ register[g] = Away
    /\ users[e] = None
    /\ register' = [register EXCEPT ![g] = [at |-> "allocate", email |-> e, party |-> None]]
    /\ UNCHANGED <<users, allocated, offer, seen, visit, todo>>

(* A fresh suffix makes a fresh party.  When the answer is lost, another one *)
(* is allocated.                                                             *)
AllocateParty(g) ==
    /\ register[g].at = "allocate"
    /\ \E p \in Parties \ allocated :
          /\ allocated' = allocated \cup {p}
          /\ \/ register' = [register EXCEPT ![g].at = "insert", ![g].party = p]
             \/ UNCHANGED register
    /\ UNCHANGED <<users, offer, seen, visit, todo>>

(* Mutant: the email is not looked at when the row is written. *)
Inserts_Replaces(g) ==
    /\ register[g].at = "insert"
    /\ users' = [users EXCEPT ![register[g].email] = register[g].party]

Inserts(g) ==
    /\ register[g].at = "insert"
    /\ users[register[g].email] = None
    /\ users' = [users EXCEPT ![register[g].email] = register[g].party]

InsertUser(g) ==
    /\ Inserts(g)
    /\ register' = [register EXCEPT ![g] = Away]
    /\ UNCHANGED <<allocated, offer, seen, visit, todo>>

(* The email was taken meanwhile, or a step failed: a party that had been    *)
(* allocated is nobody's.                                                    *)
RegisterFails(g) ==
    /\ register[g] # Away
    /\ register' = [register EXCEPT ![g] = Away]
    /\ UNCHANGED <<users, allocated, offer, seen, visit, todo>>

-------------------------------------------------------------------------------
(* Offers: TransferInstructions of a token that may or may not be configured *)

Deposit(o, p) ==
    /\ offer[o].at = "none"
    /\ p \in allocated
    /\ \E known \in BOOLEAN :
          offer' = [offer EXCEPT ![o] = [at |-> "pending", party |-> p, known |-> known]]
    /\ UNCHANGED <<users, allocated, register, seen, visit, todo>>

Takes(o) ==
    /\ offer[o].at = "pending"
    /\ offer' = [offer EXCEPT ![o].at = "accepted"]

(* The settlement accepts the payouts it sends by itself. *)
AcceptedElsewhere(o) ==
    /\ offer[o].known
    /\ Takes(o)
    /\ UNCHANGED <<users, allocated, register, seen, visit, todo>>

(* DepositAcceptor *)
Sweep ==
    /\ visit = {}
    /\ todo = {}
    /\ visit' = UserParties
    /\ UNCHANGED <<users, allocated, register, offer, seen, todo>>

SweepParty(p) ==
    /\ todo = {}
    /\ p \in visit
    /\ visit' = visit \ {p}
    /\ todo' = {o \in Offers \ seen : offer[o].at = "pending" /\ offer[o].party = p}
    /\ UNCHANGED <<users, allocated, register, offer, seen>>

(* No registry is configured for its token. *)
Ignore(o) ==
    /\ o \in todo
    /\ ~offer[o].known
    /\ seen' = seen \cup {o}
    /\ todo' = todo \ {o}
    /\ UNCHANGED <<users, allocated, register, offer, visit>>

(* The answer may be lost. *)
Accept(o) ==
    /\ o \in todo
    /\ offer[o].known
    /\ Takes(o)
    /\ \/ seen' = seen \cup {o}
       \/ UNCHANGED seen
    /\ todo' = todo \ {o}
    /\ UNCHANGED <<users, allocated, register, visit>>

(* Mutant: what failed once is not tried again. *)
AcceptFails_Seen(o) ==
    /\ o \in todo
    /\ offer[o].known
    /\ todo' = todo \ {o}
    /\ seen' = seen \cup {o}
    /\ UNCHANGED <<users, allocated, register, offer, visit>>

(* The registry or the ledger failed, or somebody else was first. *)
AcceptFails(o) ==
    /\ o \in todo
    /\ offer[o].known
    /\ todo' = todo \ {o}
    /\ UNCHANGED <<users, allocated, register, offer, seen, visit>>

ServerRestarts ==
    /\ seen \cup visit \cup todo # {} \/ \E g \in Registers : register[g] # Away
    /\ seen' = {}
    /\ visit' = {}
    /\ todo' = {}
    /\ register' = [g \in Registers |-> Away]
    /\ UNCHANGED <<users, allocated, offer>>

Acceptor ==
    \/ Sweep
    \/ \E p \in Parties : SweepParty(p)
    \/ \E o \in Offers : Ignore(o) \/ Accept(o) \/ AcceptFails(o)

-------------------------------------------------------------------------------
AccountsInit ==
    /\ users = [e \in Emails |-> IF e \in DOMAIN Demo THEN Demo[e] ELSE None]
    /\ allocated = {Demo[e] : e \in DOMAIN Demo}
    /\ register = [g \in Registers |-> Away]
    /\ offer = [o \in Offers |-> Gone]
    /\ seen = {}
    /\ visit = {}
    /\ todo = {}

RegisterStep(g) == AllocateParty(g) \/ InsertUser(g) \/ RegisterFails(g)

Deposits == \E o \in Offers : AcceptedElsewhere(o) \/ \E p \in Parties : Deposit(o, p)

-------------------------------------------------------------------------------
(* Properties *)

(* Types; the party of an account is on the ledger.                          *)
AccountsTypeOK ==
    /\ users \in [Emails -> Parties \cup {None}]
    /\ UserParties \subseteq allocated
    /\ register \in [Registers -> [at : {"idle", "allocate", "insert"},
                                   email : Emails \cup {None},
                                   party : Parties \cup {None}]]
    /\ seen \subseteq Offers /\ todo \subseteq Offers
    /\ \A o \in todo : offer[o].party \in UserParties

(* An account keeps its party for good, and shares it with no other account, *)
(* however registrations of the same email overlap, fail or lose an answer:  *)
(* whoever is signed in owns what was sent and staked under it.              *)
PartyForLife ==
    [][/\ \A e \in Emails : users[e] # None => users'[e] = users[e]
       /\ \A e, f \in Emails : users'[e] = users'[f] /\ users'[e] # None => e = f]_users

Waiting(o) == /\ offer[o].at = "pending"
              /\ offer[o].known
              /\ offer[o].party \in UserParties

(* What is sent to the party of a user lands, though the acceptor fails,     *)
(* restarts and is overtaken by a payout.                                    *)
DepositLands == \A o \in Offers : Waiting(o) ~> ~Waiting(o)
=============================================================================
