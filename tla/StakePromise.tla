----------------------------- MODULE StakePromise -----------------------------
(***************************************************************************)
(* What the escrow promises the owner of a stake, with no RSVP, check-in   *)
(* or contract id in sight.  A stake is pledged by its owner to one event. *)
(* While it is locked the owner may get it back at any moment, but it can  *)
(* be forfeited to the pot only by a settlement of the event it was        *)
(* pledged to, and only while that event is over and its settlement window *)
(* is open.  Returned and forfeited are final.                             *)
(***************************************************************************)
CONSTANTS
    Stakes,     \* identities of the stakes that may be locked
    Owners,     \* the parties that lock them
    Events,     \* the events they are pledged to
    Unpledged   \* the pledge of a stake that was never locked

VARIABLES
    money,      \* where each stake's funds are
    pledge,     \* whom each stake belongs to, and which event it is pledged to
    phase       \* how far each event has come

vars == <<money, pledge, phase>>

Pledges == [owner : Owners, event : Events]

TypeOK ==
    /\ money \in [Stakes -> {"free", "locked", "returned", "forfeited"}]
    /\ pledge \in [Stakes -> Pledges \cup {Unpledged}]
    /\ phase \in [Events -> {"running", "over", "closed"}]

Init ==
    /\ money = [s \in Stakes |-> "free"]
    /\ pledge = [s \in Stakes |-> Unpledged]
    /\ phase \in [Events -> {"running", "over", "closed"}]

(* The owner locks a stake for an event. *)
Lock(s, p) ==
    /\ money[s] = "free"
    /\ money' = [money EXCEPT ![s] = "locked"]
    /\ pledge' = [pledge EXCEPT ![s] = p]
    /\ UNCHANGED phase

(* A locked stake goes back to its owner. *)
Return(s) ==
    /\ money[s] = "locked"
    /\ money' = [money EXCEPT ![s] = "returned"]
    /\ UNCHANGED <<pledge, phase>>

(* One settlement of event e: the stakes of F go to the pot, those of B back *)
(* to their owners, all of them or none.                                     *)
Settle(e, F, B) ==
    /\ phase[e] = "over"
    /\ F \cap B = {}
    /\ \A s \in F \cup B : money[s] = "locked"
    /\ \A s \in F \cup B : pledge[s].event = e
    /\ money' = [s \in Stakes |-> CASE s \in F -> "forfeited"
                                    [] s \in B -> "returned"
                                    [] OTHER   -> money[s]]
    /\ UNCHANGED <<pledge, phase>>

(* Events only move forward; several may move in one step of the clock. *)
Advance ==
    /\ phase' \in [Events -> {"running", "over", "closed"}]
    /\ \A e \in Events : \/ phase'[e] = phase[e]
                         \/ phase[e] = "running"
                         \/ phase'[e] = "closed"
    /\ UNCHANGED <<money, pledge>>

Next ==
    \/ \E s \in Stakes, p \in Pledges : Lock(s, p)
    \/ \E s \in Stakes : Return(s)
    \/ \E e \in Events, F, B \in SUBSET Stakes : Settle(e, F, B)
    \/ Advance

Spec == Init /\ [][Next]_vars
=============================================================================
