-------------------------------- MODULE Escrow --------------------------------
(***************************************************************************)
(* The escrow contracts of daml/ShowOrSow.daml (EventProposal, Event,      *)
(* RSVPInvite, StakedRSVP) on one ledger with the CIP-56 allocations they  *)
(* move (daml-demo/DemoToken.daml).                                        *)
(*                                                                         *)
(* Every choice is an action, enabled exactly when the ledger would accept *)
(* it.  Nothing here says who submits what when: any controller may        *)
(* exercise any of its choices at any moment, so what holds here holds     *)
(* whatever the backend does.                                              *)
(*                                                                         *)
(* A contract that its choices archive and recreate (StakedRSVP, Event)    *)
(* keeps one identity here.  The contract id a client holds is the pair of *)
(* identity and version: ver[r] for a StakedRSVP, and for an Event the     *)
(* value of event[e] ("open" until EndEventEarly recreates it as "ended"). *)
(***************************************************************************)
EXTENDS Naturals

CONSTANTS
    Events, Attendees,
    Rsvps,        \* identities of the RSVPInvite / StakedRSVP contracts
    Allocs,       \* identities of the allocations
    EventOf,      \* the event an invite is for
    AttendeeOf,   \* the attendee it is for
    Specs,        \* the allocation specifications in play
    NoAlloc,      \* allocationCid = None
    NoSpec,       \* the specification of an allocation not created yet
    RsvpDeadline, EventEnd, SettleBefore,   \* per event, ledger times
    MaxTime,      \* bound on ledger time
    MaxVersion    \* bound on the times one StakedRSVP is recreated

(* The slot id of an invite is the attendee's email, so event and attendee *)
(* name the settlementRef "eventId/slotId".                                *)
Slots == Events \X Attendees

(* An allocation's specification: its settlementRef, its sender, and whether *)
(* executor, receiver, amount and instrument are those the event asks for.   *)
AllocSpecs == [slot : Slots, sender : Attendees, terms : {"stake", "other"}]

ASSUME EscrowConstants ==
    /\ EventOf \in [Rsvps -> Events]
    /\ AttendeeOf \in [Rsvps -> Attendees]
    /\ Specs \subseteq AllocSpecs
    /\ NoAlloc \notin Allocs
    /\ NoSpec \notin AllocSpecs
    /\ RsvpDeadline \in [Events -> Nat]
    /\ EventEnd \in [Events -> Nat]
    /\ SettleBefore \in [Events -> Nat]
    /\ MaxTime \in Nat
    /\ MaxVersion \in Nat

VARIABLES
    event,      \* event[e]: the EventProposal or Event contract of e
    stage,      \* stage[r]: the invite or StakedRSVP r, or how it was archived
    ver,        \* ver[r]: which recreation of StakedRSVP r is the live one
    allocOf,    \* allocOf[r]: allocationCid (kept after r is archived)
    checkedIn,  \* the StakedRSVPs with checkedIn = True (kept likewise)
    withdrawn,  \* the StakedRSVPs with withdrawn = True (kept likewise)
    astate,     \* astate[a]: whether allocation a is active, or where its funds went
    spec,       \* spec[a]: what allocation a was created for
    now         \* ledger time

eventVars == <<event>>
rsvpVars  == <<stage, ver, allocOf, checkedIn, withdrawn>>
allocVars == <<astate, spec>>
vars      == <<event, stage, ver, allocOf, checkedIn, withdrawn, astate, spec, now>>

EventStates == {"proposed", "open", "ended", "settled", "cancelled"}
Stages      == {"none", "invited", "declined", "revoked", "live",
                "refunded", "slashed", "cancelled", "rejected"}
AllocStates == {"none", "locked", "refunded", "slashed", "withdrawn"}

TypeOK ==
    /\ event \in [Events -> EventStates]
    /\ stage \in [Rsvps -> Stages]
    /\ ver \in [Rsvps -> Nat]
    /\ allocOf \in [Rsvps -> Allocs \cup {NoAlloc}]
    /\ checkedIn \subseteq Rsvps
    /\ withdrawn \subseteq Rsvps
    /\ astate \in [Allocs -> AllocStates]
    /\ spec \in [Allocs -> AllocSpecs \cup {NoSpec}]
    /\ now \in Nat

Init ==
    /\ event = [e \in Events |-> "proposed"]
    /\ stage = [r \in Rsvps |-> "none"]
    /\ ver = [r \in Rsvps |-> 0]
    /\ allocOf = [r \in Rsvps |-> NoAlloc]
    /\ checkedIn = {}
    /\ withdrawn = {}
    /\ astate = [a \in Allocs |-> "none"]
    /\ spec = [a \in Allocs |-> NoSpec]
    /\ now = 0

-------------------------------------------------------------------------------
(* Event *)

EventLive(e)  == event[e] \in {"open", "ended"}
EventOpen(e)  == event[e] = "open"          \* live and not ended
EventOver(e)  == EventLive(e) /\ (event[e] = "ended" \/ now >= EventEnd[e])
BeforeRsvpDeadline(e) == now < RsvpDeadline[e]

EP_Accept(e) ==
    /\ event[e] = "proposed"
    /\ event' = [event EXCEPT ![e] = "open"]
    /\ UNCHANGED <<rsvpVars, allocVars, now>>

EP_Cancel(e) ==
    /\ event[e] = "proposed"
    /\ event' = [event EXCEPT ![e] = "cancelled"]
    /\ UNCHANGED <<rsvpVars, allocVars, now>>

InviteAttendee(e, r) ==
    /\ EventOpen(e)
    /\ BeforeRsvpDeadline(e)
    /\ EventOf[r] = e
    /\ stage[r] = "none"
    /\ stage' = [stage EXCEPT ![r] = "invited"]
    /\ UNCHANGED <<eventVars, ver, allocOf, checkedIn, withdrawn, allocVars, now>>

EndEventEarly(e) ==
    /\ EventOpen(e)
    /\ event' = [event EXCEPT ![e] = "ended"]
    /\ UNCHANGED <<rsvpVars, allocVars, now>>

MarkSettled(e) ==
    /\ EventOver(e)
    /\ event' = [event EXCEPT ![e] = "settled"]
    /\ UNCHANGED <<rsvpVars, allocVars, now>>

-------------------------------------------------------------------------------
(* RSVPInvite *)

AcceptRSVP(r, e) ==
    /\ stage[r] = "invited"
    /\ BeforeRsvpDeadline(EventOf[r])
    /\ EventOf[r] = e
    /\ EventOpen(e)
    /\ stage' = [stage EXCEPT ![r] = "live"]
    /\ UNCHANGED <<eventVars, ver, allocOf, checkedIn, withdrawn, allocVars, now>>

DeclineRSVP(r) ==
    /\ stage[r] = "invited"
    /\ stage' = [stage EXCEPT ![r] = "declined"]
    /\ UNCHANGED <<eventVars, ver, allocOf, checkedIn, withdrawn, allocVars, now>>

RevokeInvite(r) ==
    /\ stage[r] = "invited"
    /\ stage' = [stage EXCEPT ![r] = "revoked"]
    /\ UNCHANGED <<eventVars, ver, allocOf, checkedIn, withdrawn, allocVars, now>>

-------------------------------------------------------------------------------
(* StakedRSVP *)

(* A choice that recreates the contract gives it a new contract id. *)
Recreate(r) ==
    /\ stage[r] = "live"
    /\ ver[r] < MaxVersion
    /\ ver' = [ver EXCEPT ![r] = @ + 1]

Active(a) == a \in Allocs /\ astate[a] = "locked"

(* RecordAllocation's validation of the allocation against the RSVP's leg. *)
MatchesLeg(r, a) ==
    /\ spec[a].slot = <<EventOf[r], AttendeeOf[r]>>
    /\ spec[a].sender = AttendeeOf[r]
    /\ spec[a].terms = "stake"

(* Mutant: RecordAllocation checks the settlementRef only. *)
RecordAllocation_RefOnly(r, a) ==
    /\ Recreate(r)
    /\ allocOf[r] = NoAlloc
    /\ Active(a)
    /\ spec[a].slot = <<EventOf[r], AttendeeOf[r]>>
    /\ allocOf' = [allocOf EXCEPT ![r] = a]
    /\ UNCHANGED <<eventVars, stage, checkedIn, withdrawn, allocVars, now>>

RecordAllocation(r, a) ==
    /\ Recreate(r)
    /\ allocOf[r] = NoAlloc
    /\ Active(a)
    /\ MatchesLeg(r, a)
    /\ allocOf' = [allocOf EXCEPT ![r] = a]
    /\ UNCHANGED <<eventVars, stage, checkedIn, withdrawn, allocVars, now>>

CheckIn(r, e) ==
    /\ Recreate(r)
    /\ r \notin checkedIn
    /\ allocOf[r] # NoAlloc
    /\ r \notin withdrawn
    /\ EventOf[r] = e
    /\ EventOpen(e)
    /\ checkedIn' = checkedIn \cup {r}
    /\ UNCHANGED <<eventVars, stage, allocOf, withdrawn, allocVars, now>>

(* Mutant: MarkWithdrawn leaves checkedIn as it was. *)
MarkWithdrawn_KeepsCheckIn(r) ==
    /\ Recreate(r)
    /\ allocOf[r] # NoAlloc
    /\ withdrawn' = withdrawn \cup {r}
    /\ allocOf' = [allocOf EXCEPT ![r] = NoAlloc]
    /\ UNCHANGED <<eventVars, stage, checkedIn, allocVars, now>>

MarkWithdrawn(r) ==
    /\ Recreate(r)
    /\ allocOf[r] # NoAlloc
    /\ withdrawn' = withdrawn \cup {r}
    /\ allocOf' = [allocOf EXCEPT ![r] = NoAlloc]
    /\ checkedIn' = checkedIn \ {r}
    /\ UNCHANGED <<eventVars, stage, allocVars, now>>

(* CancelRSVP releases the recorded allocation; if that is no longer active *)
(* the exercise of Allocation_Cancel, and so the whole choice, fails.       *)
CancelRSVP(r) ==
    /\ stage[r] = "live"
    /\ BeforeRsvpDeadline(EventOf[r])
    /\ r \notin checkedIn
    /\ \/ /\ allocOf[r] = NoAlloc
          /\ UNCHANGED astate
       \/ /\ Active(allocOf[r])
          /\ astate' = [astate EXCEPT ![allocOf[r]] = "refunded"]
    /\ stage' = [stage EXCEPT ![r] = "cancelled"]
    /\ UNCHANGED <<eventVars, ver, allocOf, checkedIn, withdrawn, spec, now>>

(* AllocationRequest_Reject and _Withdraw archive the RSVP and nothing else. *)
RejectRequest(r) ==
    /\ stage[r] = "live"
    /\ stage' = [stage EXCEPT ![r] = "rejected"]
    /\ UNCHANGED <<eventVars, ver, allocOf, checkedIn, withdrawn, allocVars, now>>

(* Mutants: Settle does not compare the event ids; Settle does not need the *)
(* allocation to be active still; Settle records a status nobody knows.     *)
Settleable_AnyEvent(r, e) ==
    /\ stage[r] = "live"
    /\ now < SettleBefore[EventOf[r]]
    /\ Active(allocOf[r])

Settleable_ArchivedStake(r, e) ==
    /\ stage[r] = "live"
    /\ EventOf[r] = e
    /\ now < SettleBefore[EventOf[r]]
    /\ allocOf[r] # NoAlloc

Outcome_NoShow(r) == IF r \in checkedIn THEN "refunded" ELSE "no_show"

(* What Settle asserts of one item when it is given event e's contract. *)
Settleable(r, e) ==
    /\ stage[r] = "live"
    /\ EventOf[r] = e
    /\ now < SettleBefore[EventOf[r]]
    /\ Active(allocOf[r])

Outcome(r) == IF r \in checkedIn THEN "refunded" ELSE "slashed"

(* The items of one CloseEvent settle together or not at all; two items with *)
(* the same allocation fail, for the second finds it archived.               *)
CloseEvent(e, S) ==
    /\ EventOver(e)
    /\ \A r \in S : Settleable(r, e)
    /\ \A r, q \in S : allocOf[r] = allocOf[q] => r = q
    /\ stage' = [r \in Rsvps |-> IF r \in S THEN Outcome(r) ELSE stage[r]]
    /\ astate' = [a \in Allocs |->
                    IF \E r \in S : allocOf[r] = a
                    THEN Outcome(CHOOSE r \in S : allocOf[r] = a)
                    ELSE astate[a]]
    /\ UNCHANGED <<eventVars, ver, allocOf, checkedIn, withdrawn, spec, now>>

-------------------------------------------------------------------------------
(* Allocations (the factory's Allocate, and the sender's own Withdraw) and   *)
(* the clock.  The holdings behind an allocation are consumed when it is     *)
(* created and minted again to the sender ("refunded", "withdrawn") or to    *)
(* the pot ("slashed") when it is archived, so astate says who has them.     *)

Allocate(a, s) ==
    /\ astate[a] = "none"
    /\ astate' = [astate EXCEPT ![a] = "locked"]
    /\ spec' = [spec EXCEPT ![a] = s]
    /\ UNCHANGED <<eventVars, rsvpVars, now>>

AllocationWithdraw(a) ==
    /\ Active(a)
    /\ astate' = [astate EXCEPT ![a] = "withdrawn"]
    /\ UNCHANGED <<eventVars, rsvpVars, spec, now>>

Tick ==
    /\ now < MaxTime
    /\ now' = now + 1
    /\ UNCHANGED <<eventVars, rsvpVars, allocVars>>

EventNext ==
    \E e \in Events :
        \/ EP_Accept(e)
        \/ EP_Cancel(e)
        \/ EndEventEarly(e)
        \/ MarkSettled(e)
        \/ \E r \in Rsvps : InviteAttendee(e, r)
        \/ \E S \in SUBSET Rsvps : CloseEvent(e, S)

RsvpNext ==
    \E r \in Rsvps :
        \/ DeclineRSVP(r)
        \/ RevokeInvite(r)
        \/ MarkWithdrawn(r)
        \/ CancelRSVP(r)
        \/ RejectRequest(r)
        \/ \E e \in Events : AcceptRSVP(r, e)
        \/ \E e \in Events : CheckIn(r, e)
        \/ \E a \in Allocs : RecordAllocation(r, a)

AllocNext ==
    \E a \in Allocs :
        \/ \E s \in Specs : Allocate(a, s)
        \/ AllocationWithdraw(a)

Next == EventNext \/ RsvpNext \/ AllocNext \/ Tick

Spec == Init /\ [][Next]_vars

-------------------------------------------------------------------------------
(* Properties *)

(* An allocation that was recorded on an RSVP is one its own attendee made   *)
(* for that very slot on the event's terms, whoever else made allocations    *)
(* and however often the RSVP was recreated (RecordAllocation's validation). *)
OwnStakeOnly ==
    \A r \in Rsvps : allocOf[r] # NoAlloc => MatchesLeg(r, allocOf[r])

(* An RSVP that is checked in names a stake and was never marked withdrawn:  *)
(* MarkWithdrawn takes the check-in away with the stake, and a later         *)
(* RecordAllocation does not bring it back.                                  *)
CheckedInHoldsStake ==
    \A r \in checkedIn : allocOf[r] # NoAlloc /\ r \notin withdrawn

(* How an RSVP used up its stake, if it did. *)
Spent(r) == CASE stage[r] \in {"slashed", "refunded"} -> stage[r]
              [] stage[r] = "cancelled" /\ allocOf[r] # NoAlloc -> "refunded"
              [] OTHER -> "no"

(* The books balance: every allocation in the pot or given back by a         *)
(* contract was used up by exactly one RSVP, which says the same of it, and  *)
(* no RSVP says so of an allocation that was not; slashed exactly the        *)
(* no-shows, refunded by a settlement exactly the checked-in.  In particular *)
(* two RSVPs that recorded the same allocation never both settle.            *)
StakeAccounted ==
    /\ \A r \in Rsvps : Spent(r) # "no" =>
          /\ allocOf[r] \in Allocs
          /\ astate[allocOf[r]] = Spent(r)
    /\ \A a \in Allocs : astate[a] \in {"slashed", "refunded"} =>
          \E r \in Rsvps : allocOf[r] = a /\ Spent(r) = astate[a]
    /\ \A r, q \in Rsvps :
          Spent(r) # "no" /\ Spent(q) # "no" /\ allocOf[r] = allocOf[q] => r = q
    /\ \A r \in Rsvps : /\ (stage[r] = "refunded" => r \in checkedIn)
                         /\ (stage[r] \in {"slashed", "cancelled"} => r \notin checkedIn)

(* Seen from outside: where each stake's money is, whom it is pledged to,    *)
(* and how far each event has come.                                          *)
Money(a) == CASE astate[a] = "none"    -> "free"
              [] astate[a] = "locked"  -> "locked"
              [] astate[a] = "slashed" -> "forfeited"
              [] OTHER                 -> "returned"

Pledge(a) == IF spec[a] = NoSpec
             THEN NoSpec
             ELSE [owner |-> spec[a].sender, event |-> spec[a].slot[1]]

Closed(e) == event[e] \in {"settled", "cancelled"} \/ now >= SettleBefore[e]

Phase(e) == IF Closed(e) THEN "closed" ELSE IF EventOver(e) THEN "over" ELSE "running"

Promise == INSTANCE StakePromise WITH
    Stakes   <- Allocs,
    Owners   <- Attendees,
    Events   <- Events,
    Unpledged <- NoSpec,
    money    <- [a \in Allocs |-> Money(a)],
    pledge   <- [a \in Allocs |-> Pledge(a)],
    phase    <- [e \in Events |-> Phase(e)]

(* The contracts keep the promise: a stake is forfeited only by a settlement *)
(* of the event it was locked for, while that event is over and its window   *)
(* open, all items of a settlement at once; in every other case it can only  *)
(* go back to its owner, and where it went is final.                         *)
PromiseKept == Promise!Spec
=============================================================================
