------------------------------ MODULE Settlement ------------------------------
(***************************************************************************)
(* Closing one event: settle.Runner.Close (backend/internal/settle) run by *)
(* one or more concurrent POST .../close requests against the contracts of *)
(* Escrow, while attendees and the rest of the backend go on using them.   *)
(*                                                                         *)
(* Each ledger query and each submission of Close is a step of its own, so *)
(* anything may happen between two of them.  A request may die between any *)
(* two steps (the process restarts, the client hangs up and the request's  *)
(* context is cancelled, a submission times out though the ledger accepts  *)
(* it), and the organizer may then press close again.                      *)
(*                                                                         *)
(* The stake flow records a locked allocation whenever it gets to it.  Of  *)
(* the rows the close requests and the watcher work from this keeps what   *)
(* they depend on, an RSVP's flag among it, which two RSVPs of an attendee *)
(* share (module ReadModel has the rows).                                  *)
(***************************************************************************)
EXTENDS Escrow, FiniteSets, Functions

CONSTANTS
    E,              \* the event being closed
    Closes,         \* the close requests
    Stake,          \* the stake, in the instrument's smallest unit
    Sequential,     \* the requests to a server with SETTLE_SEQUENTIAL_FALLBACK
    DemoToken,      \* payouts by Mint in one transaction, or by transfers
    PayoutsMayFail, \* whether a payout submission may be refused
    MaxDeaths       \* bound on the requests that die

ASSUME SettlementConstants ==
    /\ E \in Events
    /\ EventOf \in [Rsvps -> {E}]
    /\ IsFiniteSet(Rsvps)
    /\ Stake \in Nat \ {0}
    /\ Sequential \subseteq Closes
    /\ {DemoToken, PayoutsMayFail} \subseteq BOOLEAN
    /\ MaxDeaths \in Nat

VARIABLES
    pc,         \* pc[c]: where request c is
    row,        \* row[c]: the Event contract id in the events row it read
    items,      \* items[c]: the StakedRSVPs it read, then those it settles
    left,       \* left[c]: what is left to do of the loop it is in
    paid,       \* paid[r]: what r's attendee was paid from the pot
    readModel,  \* the Event contract id the indexer has projected, and the
                \* attendees whose row has withdrawal_detected set
    attended,   \* history: the RSVPs that were ever checked in
    deaths      \* requests that died so far

closeVars == <<pc, row, items, left, paid, deaths>>
svars     == <<vars, closeVars, readModel, attended>>

(* What preflight reads of a StakedRSVP: its contract id and the fields. *)
Item(r) == [rsvp |-> r, ver |-> ver[r], alloc |-> allocOf[r],
            checkedIn |-> r \in checkedIn]

Items == [rsvp : Rsvps, ver : Nat, alloc : Allocs, checkedIn : BOOLEAN]

SettlementTypeOK ==
    /\ TypeOK
    /\ pc \in [Closes -> {"idle", "begun", "queried", "preflight",
                          "closing", "payout", "done"}]
    /\ row \in [Closes -> {"open", "ended"}]
    /\ items \in [Closes -> SUBSET Items]
    /\ left \in [Closes -> SUBSET Items]
    /\ paid \in [Rsvps -> Nat]
    /\ readModel \in [event : {"open", "ended"}, flagged : SUBSET Attendees]
    /\ attended \subseteq Rsvps
    /\ deaths \in 0..MaxDeaths

(* The event is open, every RSVP is accepted, and the stake flows of some    *)
(* have locked an allocation that they have not recorded yet.                *)
SettlementInit ==
    /\ event = [e \in Events |-> "open"]
    /\ stage = [r \in Rsvps |-> "live"]
    /\ ver = [r \in Rsvps |-> 0]
    /\ allocOf = [r \in Rsvps |-> NoAlloc]
    /\ checkedIn = {}
    /\ withdrawn = {}
    /\ spec \in [Allocs -> Specs \cup {NoSpec}]
    /\ \A a, b \in Allocs : spec[a] = spec[b] /\ spec[a] # NoSpec => a = b
    /\ astate = [a \in Allocs |-> IF spec[a] = NoSpec THEN "none" ELSE "locked"]
    /\ now = 0
    /\ pc = [c \in Closes |-> "idle"]
    /\ row = [c \in Closes |-> "open"]
    /\ items = [c \in Closes |-> {}]
    /\ left = [c \in Closes |-> {}]
    /\ paid = [r \in Rsvps |-> 0]
    /\ readModel = [event |-> "open", flagged |-> {}]
    /\ attended = {}
    /\ deaths = 0

-------------------------------------------------------------------------------
(* One close request *)

Goto(c, from, to) == pc[c] = from /\ pc' = [pc EXCEPT ![c] = to]

Forget(c) ==
    /\ items' = [items EXCEPT ![c] = {}]
    /\ left' = [left EXCEPT ![c] = {}]

(* The handler answers with an error and may be called again. *)
Abort(c, from) ==
    /\ Goto(c, from, "idle")
    /\ Forget(c)
    /\ UNCHANGED <<vars, row, paid, deaths, readModel, attended>>

(* Mutant: the row tells the event's status instead of its contract id. *)
Begin_Status(c) ==
    /\ Goto(c, "idle", "begun")
    /\ row' = [row EXCEPT ![c] = event[E]]
    /\ UNCHANGED <<vars, items, left, paid, deaths, readModel, attended>>

(* requireOrganizer reads the events row. *)
Begin(c) ==
    /\ Goto(c, "idle", "begun")
    /\ row' = [row EXCEPT ![c] = readModel.event]
    /\ UNCHANGED <<vars, items, left, paid, deaths, readModel, attended>>

(* Mutant: preflight does not skip what is marked as withdrawn. *)
QueryRsvps_Withdrawn(c) ==
    /\ Goto(c, "begun", "queried")
    /\ items' = [items EXCEPT ![c] =
                   {Item(r) : r \in {q \in Rsvps : /\ stage[q] = "live"
                                                   /\ EventOf[q] = E
                                                   /\ allocOf[q] # NoAlloc}}]
    /\ UNCHANGED <<vars, row, left, paid, deaths, readModel, attended>>

(* preflight's first query: the active StakedRSVPs.  Those of the event that *)
(* are not withdrawn and have an allocation matter.                          *)
QueryRsvps(c) ==
    /\ Goto(c, "begun", "queried")
    /\ items' = [items EXCEPT ![c] =
                   {Item(r) : r \in {q \in Rsvps : /\ stage[q] = "live"
                                                   /\ EventOf[q] = E
                                                   /\ q \notin withdrawn
                                                   /\ allocOf[q] # NoAlloc}}]
    /\ UNCHANGED <<vars, row, left, paid, deaths, readModel, attended>>

(* Its second query: the active Allocations.  RSVPs whose allocation is not  *)
(* among them are to be marked as withdrawn, the others to be settled.       *)
QueryAllocs(c) ==
    /\ Goto(c, "queried", "preflight")
    /\ items' = [items EXCEPT ![c] = {i \in @ : Active(i.alloc)}]
    /\ left' = [left EXCEPT ![c] = {i \in items[c] : ~Active(i.alloc)}]
    /\ UNCHANGED <<vars, row, paid, deaths, readModel, attended>>

(* Mutant: MarkWithdrawn is submitted on whatever contract id is active by   *)
(* then.                                                                     *)
PreflightMark_LiveId(c, i) ==
    /\ pc[c] = "preflight"
    /\ i \in left[c]
    /\ left' = [left EXCEPT ![c] = @ \ {i}]
    /\ MarkWithdrawn(i.rsvp) \/ UNCHANGED vars
    /\ UNCHANGED <<pc, row, items, paid, deaths, readModel, attended>>

(* MarkWithdrawn on the contract id that was read.  Whatever error the ledger *)
(* answers (a stale contract id, a timeout) is only logged.                   *)
PreflightMark(c, i) ==
    /\ pc[c] = "preflight"
    /\ i \in left[c]
    /\ left' = [left EXCEPT ![c] = @ \ {i}]
    /\ \/ ver[i.rsvp] = i.ver /\ MarkWithdrawn(i.rsvp)
       \/ UNCHANGED vars
    /\ UNCHANGED <<pc, row, items, paid, deaths, readModel, attended>>

(* EndEventEarly on the contract id of the events row. *)
EndEvent(c) ==
    /\ Goto(c, "preflight", "closing")
    /\ left[c] = {}
    /\ row[c] = "open"
    /\ EndEventEarly(E)
    /\ left' = [left EXCEPT ![c] = items[c]]
    /\ UNCHANGED <<row, items, paid, deaths, readModel, attended>>

(* Mutant: an event that was ended already is an error like any other. *)
ResumeEnded_Never(c) == FALSE

(* "Event has already ended": go on with the contract id of the row. *)
ResumeEnded(c) ==
    /\ Goto(c, "preflight", "closing")
    /\ left[c] = {}
    /\ row[c] = "ended" /\ event[E] = "ended"
    /\ left' = [left EXCEPT ![c] = items[c]]
    /\ UNCHANGED <<vars, row, items, paid, deaths, readModel, attended>>

(* The row's contract id is not active any more: every other error aborts. *)
EndEventFails(c) ==
    /\ left[c] = {}
    /\ event[E] # row[c]
    /\ Abort(c, "preflight")

(* closePrimary submits all items in one CloseEvent, closeSequential one by  *)
(* one (and none at all when there is none).                                 *)
Submission(c, B) ==
    /\ B \subseteq left[c]
    /\ IF c \in Sequential THEN \E i \in left[c] : B = {i} ELSE B = left[c]

(* Mutant: CloseEvent is submitted with whatever contract ids are active. *)
Acceptable_LiveIds(B) ==
    /\ event[E] = "ended"
    /\ \A i \in B : Settleable(i.rsvp, E)
    /\ \A i, j \in B : allocOf[i.rsvp] = allocOf[j.rsvp] => i = j

Acceptable(B) ==
    /\ event[E] = "ended"
    /\ \A i \in B : ver[i.rsvp] = i.ver /\ Settleable(i.rsvp, E)
    /\ \A i, j \in B : allocOf[i.rsvp] = allocOf[j.rsvp] => i = j

Came(I)   == {i \in I : i.checkedIn}
Ghosts(I) == {i \in I : ~i.checkedIn}

Share(I) == (Stake * Cardinality(Ghosts(I))) \div Cardinality(Came(I))

(* runPayouts skips an event where nobody came, or where the share is 0. *)
Payees(I) == IF Came(I) = {} \/ Share(I) = 0 THEN {} ELSE Came(I)

(* The last submission leaves for the payouts, which are computed from the   *)
(* items of this request alone.                                              *)
SubmitClose(c, B) ==
    /\ pc[c] = "closing"
    /\ Submission(c, B)
    /\ Acceptable(B)
    /\ CloseEvent(E, {i.rsvp : i \in B})
    /\ \/ /\ B # left[c]
          /\ left' = [left EXCEPT ![c] = @ \ B]
          /\ UNCHANGED pc
       \/ /\ B = left[c]
          /\ left' = [left EXCEPT ![c] = Payees(items[c])]
          /\ pc' = [pc EXCEPT ![c] = "payout"]
    /\ UNCHANGED <<row, items, paid, deaths, readModel, attended>>

SubmitNothing(c) ==
    /\ c \in Sequential /\ left[c] = {}
    /\ Goto(c, "closing", "payout")
    /\ left' = [left EXCEPT ![c] = Payees(items[c])]
    /\ UNCHANGED <<vars, row, items, paid, deaths, readModel, attended>>

(* Mutant: the error of CloseEvent is dropped and the payouts go ahead. *)
SubmitFails_Ignored(c, B) ==
    /\ Submission(c, B)
    /\ ~Acceptable(B)
    /\ Goto(c, "closing", "payout")
    /\ left' = [left EXCEPT ![c] = Payees(items[c])]
    /\ UNCHANGED <<vars, row, items, paid, deaths, readModel, attended>>

SubmitFails(c, B) ==
    /\ Submission(c, B)
    /\ ~Acceptable(B)
    /\ Abort(c, "closing")

(* Demo tokens are minted for all recipients in one transaction, others are  *)
(* transferred one by one.                                                   *)
PayoutBatch(c, B) ==
    /\ B # {} /\ B \subseteq left[c]
    /\ IF DemoToken THEN B = left[c] ELSE \E i \in left[c] : B = {i}

PayOut(c, B) ==
    /\ pc[c] = "payout"
    /\ PayoutBatch(c, B)
    /\ left' = [left EXCEPT ![c] = @ \ B]
    /\ paid' = [r \in Rsvps |-> IF \E i \in B : i.rsvp = r
                                THEN paid[r] + Share(items[c]) ELSE paid[r]]
    /\ UNCHANGED <<vars, pc, row, items, deaths, readModel, attended>>

(* A payout that fails is logged and not repeated. *)
PayOutFails(c, B) ==
    /\ PayoutsMayFail
    /\ pc[c] = "payout"
    /\ PayoutBatch(c, B)
    /\ left' = [left EXCEPT ![c] = @ \ B]
    /\ UNCHANGED <<vars, pc, row, items, paid, deaths, readModel, attended>>

(* MarkSettled strictly last. *)
Finish(c) ==
    /\ left[c] = {}
    /\ Goto(c, "payout", "done")
    /\ event[E] = "ended"
    /\ MarkSettled(E)
    /\ Forget(c)
    /\ UNCHANGED <<row, paid, deaths, readModel, attended>>

FinishFails(c) ==
    /\ left[c] = {}
    /\ event[E] # "ended"
    /\ Abort(c, "payout")

Die(c) ==
    /\ pc[c] \notin {"idle", "done"}
    /\ deaths < MaxDeaths
    /\ deaths' = deaths + 1
    /\ pc' = [pc EXCEPT ![c] = "idle"]
    /\ Forget(c)
    /\ UNCHANGED <<vars, row, paid, readModel, attended>>

-------------------------------------------------------------------------------
(* Everybody else *)

(* The organizer checks attendees in. *)
Welcome(r) ==
    /\ CheckIn(r, E)
    /\ attended' = attended \cup {r}
    /\ UNCHANGED <<closeVars, readModel>>

(* The attendees whose row names allocation a and is staked. *)
StakedWith(a) ==
    {AttendeeOf[r] : r \in {q \in Rsvps : /\ stage[q] = "live"
                                         /\ q \notin withdrawn
                                         /\ allocOf[q] = a}}

(* An attendee takes a stake back, and the indexer flags the row that is     *)
(* staked with it (E12), for good.  However late it does so, and where it    *)
(* never does, because the row names the stake of another RSVP, is the       *)
(* watcher's coming late or never.                                           *)
TakeBack(a) ==
    /\ AllocationWithdraw(a)
    /\ readModel' = [readModel EXCEPT !.flagged = @ \cup StakedWith(a)]
    /\ UNCHANGED <<closeVars, attended>>

(* Mutant: the watcher's query does not ask for status 'staked'. *)
Watch_AnyStatus(r) ==
    /\ AttendeeOf[r] \in readModel.flagged
    /\ MarkWithdrawn(r)
    /\ UNCHANGED <<closeVars, readModel, attended>>

(* The watcher submits MarkWithdrawn on the contract id of every row that is *)
(* flagged and staked, whatever has become of the allocation by then.  That  *)
(* takes effect if the contract id is still active, and then the status is   *)
(* that of the contract: one marked before stays "withdrawn" when it is      *)
(* staked again.                                                             *)
Watch(r) ==
    /\ AttendeeOf[r] \in readModel.flagged
    /\ r \notin withdrawn
    /\ MarkWithdrawn(r)
    /\ UNCHANGED <<closeVars, readModel, attended>>

(* The attendee or the stake flow acts. *)
Attendee ==
    /\ \/ \E r \in Rsvps : CancelRSVP(r)
       \/ \E r \in Rsvps, a \in Allocs : RecordAllocation(r, a)
       \/ \E a \in Allocs, s \in Specs : Allocate(a, s)
       \/ Tick
    /\ UNCHANGED <<closeVars, readModel, attended>>

(* The indexer projects the recreated Event; MarkSettled leaves the row's    *)
(* contract id as it is.                                                     *)
Project ==
    /\ readModel.event = "open"
    /\ event[E] \in {"ended", "settled"}
    /\ readModel' = [readModel EXCEPT !.event = "ended"]
    /\ UNCHANGED <<vars, closeVars, attended>>

Request(c) ==
    \/ Begin(c)
    \/ QueryRsvps(c)
    \/ QueryAllocs(c)
    \/ \E i \in left[c] : PreflightMark(c, i)
    \/ EndEvent(c)
    \/ ResumeEnded(c)
    \/ EndEventFails(c)
    \/ \E B \in SUBSET left[c] : SubmitClose(c, B)
    \/ SubmitNothing(c)
    \/ \E B \in SUBSET left[c] : SubmitFails(c, B)
    \/ \E B \in SUBSET left[c] : PayOut(c, B)
    \/ \E B \in SUBSET left[c] : PayOutFails(c, B)
    \/ Finish(c)
    \/ FinishFails(c)

SettlementNext ==
    \/ \E c \in Closes : Request(c)
    \/ \E c \in Closes : Die(c)
    \/ \E r \in Rsvps : Welcome(r)
    \/ \E a \in Allocs : TakeBack(a)
    \/ \E r \in Rsvps : Watch(r)
    \/ Attendee
    \/ Project

SettlementSpec == SettlementInit /\ [][SettlementNext]_svars

(* Requests make progress, the organizer presses close again while the event *)
(* is not settled, and the indexer catches up.                               *)
FairSettlementSpec ==
    /\ SettlementSpec
    /\ \A c \in Closes : WF_svars(Request(c))
    /\ WF_svars(Project)

-------------------------------------------------------------------------------
(* Properties *)

SlashedRsvps  == {r \in Rsvps : stage[r] = "slashed"}
RefundedRsvps == {r \in Rsvps : stage[r] = "refunded"}

(* The payouts of an event never exceed what its no-shows forfeited, however *)
(* many requests close it, wherever they die and whatever they repeat: the   *)
(* pot of another event is never touched.                                    *)
PotConserved ==
    SumFunctionOnSet(paid, Rsvps) =< Stake * Cardinality(SlashedRsvps)

(* Show up and get it back: whoever was ever checked in is never slashed,    *)
(* even one who withdrew the stake, lost the check-in and staked again.      *)
AttendedNotSlashed == attended \cap SlashedRsvps = {}

(* What a request pays out follows what the ledger did: when it computes the *)
(* payouts every item it read is settled, and the way it read it, although   *)
(* check-ins and withdrawals went on after it read them.                     *)
PayoutsMatchLedger ==
    \A c \in Closes : pc[c] = "payout" =>
        \A i \in items[c] :
            stage[i.rsvp] = IF i.checkedIn THEN "refunded" ELSE "slashed"

Alone(r) == \A q \in Rsvps : AttendeeOf[q] = AttendeeOf[r] => q = r

(* No RSVP loses an allocation that is still active: not to preflight, which *)
(* works on two queries made at different times and races with the watcher   *)
(* and with stakes made anew; nor to the watcher, which follows a flag that  *)
(* is never reset and does not look at the allocation.  Only where another   *)
(* RSVP of the attendee shares the row may the flag be of the other's stake, *)
(* and the watcher detach this one, which is what LiveStakeKept of ReadModel *)
(* is about.                                                                 *)
ActiveStakeKept ==
    [][\A r \in Rsvps : Active(allocOf[r]) /\ allocOf'[r] # allocOf[r] =>
                          Watch(r) /\ ~Alone(r)]_svars

(* Once anybody pressed close the event ends up settled, though requests     *)
(* die half-way and are refused: a later one takes over where they stopped.  *)
EventuallySettled ==
    (\E c \in Closes : pc[c] # "idle") ~> (event[E] = "settled")

(* ShowOrSow.daml of MarkSettled: called strictly after settlement succeeds, *)
(* for otherwise it strands unsettled RSVPs.                                 *)
NoStrandedStake ==
    event[E] = "settled" =>
        \A r \in Rsvps : stage[r] = "live" => ~Active(allocOf[r])

(* README: the forfeited pot is redistributed to the attendees who came.     *)
PotRedistributed ==
    event[E] = "settled" /\ SlashedRsvps # {} =>
        \A r \in RefundedRsvps : paid[r] > 0
=============================================================================
