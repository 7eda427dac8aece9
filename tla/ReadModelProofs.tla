--------------------------- MODULE ReadModelProofs ---------------------------
(***************************************************************************)
(* The handlers work on the read model, and the read model on the ledger:  *)
(* StakeFlow implements ReadModel, which implements Escrow.  So all that   *)
(* is proved of Escrow holds of the composed system.                       *)
(*                                                                         *)
(* Then what holds of the rows at any time: each field says something that *)
(* was true once and cannot be undone, or that the update which undoes it  *)
(* is still to come.  And what holds of requests: the contract ids they    *)
(* read were the RSVP's once, and if there is one request at a time, it    *)
(* finds what the ones before it have locked (Holder).                     *)
(***************************************************************************)
EXTENDS StakeFlow, EscrowProofs, FiniteSetTheorems

(* A step of the indexer leaves the contracts alone; one of the watcher is a *)
(* MarkWithdrawn that the contracts allow (Watcher.sweep, Projector.apply).  *)
LEMMA ReadModelStep == [ReadModelNext]_rmVars => [Next]_vars
<1> SUFFICES ASSUME [ReadModelNext]_rmVars PROVE [Next]_vars
  OBVIOUS
<1>1. CASE Ledger
  BY <1>1 DEF Ledger
<1>2. CASE Project \/ Reconnect \/ Restart
  BY <1>2 DEF Project, Reconnect, Restart
<1>3. CASE WatcherQuery
  BY <1>3 DEF WatcherQuery
<1>4. ASSUME NEW c \in RsvpCids, WatcherMark(c)
      PROVE  Next
  <2>1. MarkWithdrawn(c[1]) /\ c[1] \in Rsvps
    BY <1>4 DEF WatcherMark, RsvpCids
  <2> QED
    BY <2>1 DEF Next, RsvpNext
<1>5. ASSUME NEW c \in RsvpCids, WatcherFails(c)
      PROVE  UNCHANGED vars
  BY <1>5 DEF WatcherFails
<1>6. CASE UNCHANGED rmVars
  BY <1>6 DEF rmVars
<1> QED
  BY <1>1, <1>2, <1>3, <1>4, <1>5, <1>6 DEF ReadModelNext

(* The read model and the watcher do nothing to the contracts that Escrow    *)
(* would not allow.                                                          *)
THEOREM ReadModelRefinesEscrow == ReadModelSpec => Spec
<1>1. ReadModelInit => Init
  BY DEF ReadModelInit
<1> QED
  BY <1>1, ReadModelStep, PTL DEF ReadModelSpec, Spec

-------------------------------------------------------------------------------
(* Nothing but MarkWithdrawn takes a recorded allocation off an RSVP, so a   *)
(* choice that a handler submits is a step of the ledger.                    *)
LEMMA LedgerChoice ==
    ASSUME Next, allocOf' = allocOf, Publish, UNCHANGED <<rowVars, sweep>>
    PROVE  Ledger
  BY DEF Ledger

(* A handler's step reads, or it is a choice of the contracts. *)
LEMMA HandlerStep ==
    ASSUME TypeOK, NEW q \in Requests, Begin(q) \/ Handle(q) \/ Fails(q)
    PROVE  [ReadModelNext]_rmVars
<1>1. CASE Begin(q)
  BY <1>1 DEF Begin, Join, Invite, Accept, Decline, Stake, Cancel, Checkin, Start
<1>2. CASE Fails(q)
  BY <1>2 DEF Fails
<1>3. CASE SubmitInvite(q)
  <2>1. PICK r \in Rsvps : InviteAttendee(request[q].slot[1], r)
    BY <1>3 DEF SubmitInvite
  <2>2. request[q].slot[1] \in Events
    BY <2>1, EscrowConstants DEF InviteAttendee
  <2>3. Next /\ allocOf' = allocOf
    BY <2>1, <2>2 DEF InviteAttendee, Next, EventNext
  <2> QED
    BY <1>3, <2>3, LedgerChoice DEF SubmitInvite, Submitted, ReadModelNext
<1>4. CASE SubmitAccept(q)
  <2>1. PICK r \in Rsvps :
              /\ AcceptRSVP(r, request[q].slot[1])
              /\ Publish /\ UNCHANGED <<rowVars, sweep>>
    BY <1>4 DEF SubmitAccept, Submitted
  <2>2. request[q].slot[1] \in Events
    BY <2>1, EscrowConstants DEF AcceptRSVP
  <2>3. Next /\ allocOf' = allocOf
    BY <2>1, <2>2 DEF AcceptRSVP, Next, RsvpNext
  <2> QED
    BY <2>1, <2>3, LedgerChoice DEF ReadModelNext
<1>5. CASE SubmitDecline(q)
  <2>1. PICK r \in Rsvps : DeclineRSVP(r)
    BY <1>5 DEF SubmitDecline
  <2>2. Next /\ allocOf' = allocOf
    BY <2>1 DEF DeclineRSVP, Next, RsvpNext
  <2> QED
    BY <1>5, <2>2, LedgerChoice DEF SubmitDecline, Submitted, ReadModelNext
<1>6. CASE FindAllocation(q) \/ LookupFails(q)
  BY <1>6 DEF FindAllocation, LookupFails
<1>7. CASE SubmitAllocate(q)
  <2>1. PICK a \in Allocs, s \in Slots :
              /\ Allocate(a, StakeSpec(s))
              /\ Publish /\ UNCHANGED <<rowVars, sweep>>
    BY <1>7 DEF SubmitAllocate, Submitted
  <2>2. Next /\ allocOf' = allocOf
    BY <2>1, StakeFlowConstants DEF Allocate, Next, AllocNext, rsvpVars
  <2> QED
    BY <2>1, <2>2, LedgerChoice DEF ReadModelNext
<1>8. CASE SubmitRecord(q)
  <2> DEFINE r == request[q].rsvp[1]
             a == request[q].alloc
  <2>1. r \in Rsvps
    BY <1>8 DEF SubmitRecord, RsvpCurrent, RsvpCids
  <2>2. RecordAllocation(r, a)
    BY <1>8 DEF SubmitRecord
  <2>3. a \in Allocs /\ allocOf[r] = NoAlloc /\ allocOf' = [allocOf EXCEPT ![r] = a]
    BY <2>2 DEF RecordAllocation, Active
  <2>4. Next
    BY <2>1, <2>2, <2>3 DEF Next, RsvpNext
  <2>5. \A x \in Rsvps : allocOf'[x] = NoAlloc => allocOf[x] = NoAlloc
    BY <2>3 DEF TypeOK
  <2> QED
    BY <1>8, <2>4, <2>5 DEF SubmitRecord, Submitted, Ledger, ReadModelNext
<1>9. CASE SubmitCancel(q)
  <2>1. CancelRSVP(request[q].rsvp[1]) /\ request[q].rsvp[1] \in Rsvps
    BY <1>9 DEF SubmitCancel, RsvpCurrent, RsvpCids
  <2>2. Next /\ allocOf' = allocOf
    BY <2>1 DEF CancelRSVP, Next, RsvpNext
  <2> QED
    BY <1>9, <2>2, LedgerChoice DEF SubmitCancel, Submitted, ReadModelNext
<1>10. CASE SubmitCheckin(q)
  <2>1. /\ CheckIn(request[q].rsvp[1], request[q].slot[1])
        /\ request[q].rsvp[1] \in Rsvps
    BY <1>10 DEF SubmitCheckin, RsvpCurrent, RsvpCids
  <2>2. request[q].slot[1] \in Events
    BY <2>1, EscrowConstants DEF CheckIn
  <2>3. Next /\ allocOf' = allocOf
    BY <2>1, <2>2 DEF CheckIn, Next, RsvpNext
  <2> QED
    BY <1>10, <2>3, LedgerChoice DEF SubmitCheckin, Submitted, ReadModelNext
<1> QED
  BY <1>1, <1>2, <1>3, <1>4, <1>5, <1>6, <1>7, <1>8, <1>9, <1>10 DEF Handle

(* So is what the wallet, the organizer and the clock do. *)
LEMMA ElsewhereStep == Elsewhere => ReadModelNext
<1> SUFFICES ASSUME Elsewhere PROVE Ledger
  BY DEF ReadModelNext
<1>1. Next /\ allocOf' = allocOf
  <2>1. ASSUME NEW e \in Events,
               EP_Accept(e) \/ EP_Cancel(e) \/ EndEventEarly(e) \/ MarkSettled(e)
        PROVE  Next /\ allocOf' = allocOf
    BY <2>1 DEF EP_Accept, EP_Cancel, EndEventEarly, MarkSettled,
                Next, EventNext, rsvpVars
  <2>2. ASSUME NEW e \in Events, NEW S \in SUBSET Rsvps, CloseEvent(e, S)
        PROVE  Next /\ allocOf' = allocOf
    BY <2>2 DEF CloseEvent, Next, EventNext
  <2>3. ASSUME NEW r \in Rsvps, RevokeInvite(r) \/ RejectRequest(r)
        PROVE  Next /\ allocOf' = allocOf
    BY <2>3 DEF RevokeInvite, RejectRequest, Next, RsvpNext
  <2>4. ASSUME NEW a \in Allocs, AllocationWithdraw(a)
        PROVE  Next /\ allocOf' = allocOf
    BY <2>4 DEF AllocationWithdraw, Next, AllocNext, rsvpVars
  <2>5. ASSUME Tick
        PROVE  Next /\ allocOf' = allocOf
    BY <2>5 DEF Tick, Next, rsvpVars
  <2> QED
    BY <2>1, <2>2, <2>3, <2>4, <2>5 DEF Elsewhere
<1> QED
  BY <1>1, LedgerChoice DEF Elsewhere

LEMMA StakeFlowStep ==
    TypeOK /\ [StakeFlowNext]_sfvars => TypeOK' /\ [ReadModelNext]_rmVars
<1> SUFFICES ASSUME TypeOK, [StakeFlowNext]_sfvars PROVE [ReadModelNext]_rmVars
  BY ReadModelStep, TypeStep
<1>1. ASSUME NEW q \in Requests, Begin(q) \/ Handle(q) \/ Fails(q)
      PROVE  [ReadModelNext]_rmVars
  BY <1>1, HandlerStep
<1>2. CASE Elsewhere
  BY <1>2, ElsewhereStep
<1>3. CASE Indexer
  BY <1>3 DEF Indexer, Projects, ReadModelNext
<1>4. CASE Watcher
  <2>1. CASE Looks
    BY <2>1 DEF Looks, ReadModelNext
  <2>2. ASSUME NEW c \in RsvpCids, Marks(c) \/ Misses(c)
        PROVE  ReadModelNext
    BY <2>2 DEF Marks, Misses, ReadModelNext
  <2> QED
    BY <1>4, <2>1, <2>2 DEF Watcher
<1>5. CASE UNCHANGED sfvars
  BY <1>5 DEF sfvars
<1> QED
  BY <1>1, <1>2, <1>3, <1>4, <1>5 DEF StakeFlowNext

(* The handlers, run by any number of requests that die where they like, are *)
(* a way of using the ledger and its read model.                             *)
THEOREM StakeFlowRefinesReadModel == StakeFlowSpec => ReadModelSpec
<1>1. StakeFlowInit => ReadModelInit /\ TypeOK
  BY TypeInit DEF StakeFlowInit, ReadModelInit
<1> QED
  BY <1>1, StakeFlowStep, PTL DEF StakeFlowSpec, ReadModelSpec

(* Whatever the handlers, the indexer and the watcher do, and however often  *)
(* they die, the promise to the owner of a stake is kept.                    *)
THEOREM PromiseToUsers == StakeFlowSpec => PromiseKept
  BY StakeFlowRefinesReadModel, ReadModelRefinesEscrow, PromiseHolds

-------------------------------------------------------------------------------
(* What a step does to the contracts *)

(* The stages of an RSVP before it is accepted, and after it has ended.      *)
Young   == {"none", "invited", "declined", "revoked"}
Dropped == {"declined", "revoked"}
Gone    == {"cancelled", "rejected", "refunded", "slashed"}
Paid    == {"refunded", "slashed"}

(* An RSVP that was never recreated says what it said when it was accepted,  *)
(* and one that was recreated has been staked.                               *)
Born(r) ==
    /\ ver[r] \in 0..MaxVersion
    /\ ver[r] = 0 => allocOf[r] = NoAlloc /\ r \notin checkedIn /\ r \notin withdrawn
    /\ ver[r] # 0 => stage[r] \notin Young /\ (allocOf[r] # NoAlloc \/ r \in withdrawn)

SamePaper(r) ==
    /\ ver'[r] = ver[r]
    /\ allocOf'[r] = allocOf[r]
    /\ r \in checkedIn' <=> r \in checkedIn
    /\ r \in withdrawn' <=> r \in withdrawn

Untouched(r) == stage'[r] = stage[r] /\ SamePaper(r)

Renewed(r) ==
    /\ stage[r] = "live" /\ stage'[r] = "live"
    /\ ver'[r] = ver[r] + 1 /\ ver[r] < MaxVersion
    /\ allocOf'[r] # NoAlloc \/ r \in withdrawn'
    /\ allocOf'[r] # NoAlloc /\ allocOf'[r] # allocOf[r] => Active(allocOf'[r])

Moves(r) ==
    \/ stage[r] = "none" /\ stage'[r] = "invited" /\ SamePaper(r)
    \/ stage[r] = "invited" /\ stage'[r] = "live" /\ SamePaper(r)
    \/ stage[r] = "invited" /\ stage'[r] \in Dropped /\ SamePaper(r)
    \/ Renewed(r)
    \/ stage[r] = "live" /\ stage'[r] \in {"cancelled", "rejected"} /\ SamePaper(r)

(* The kinds of steps. *)
EventMoves(e) ==
    /\ UNCHANGED <<rsvpVars, allocVars>>
    /\ \A f \in Events : f # e => event'[f] = event[f]
    /\ \/ event[e] = "proposed" /\ event'[e] \in {"open", "cancelled"}
       \/ event[e] = "open" /\ event'[e] = "ended"
       \/ event[e] \in {"open", "ended"} /\ event'[e] = "settled"

AllocMoves(a) ==
    /\ UNCHANGED <<eventVars, rsvpVars>>
    /\ \A b \in Allocs : b # a => astate'[b] = astate[b] /\ spec'[b] = spec[b]
    /\ \/ astate[a] = "none" /\ astate'[a] = "locked"
       \/ astate[a] = "locked" /\ astate'[a] = "withdrawn" /\ spec'[a] = spec[a]

RsvpMoves(r) ==
    /\ UNCHANGED <<event, spec>>
    /\ \A p \in Rsvps : p # r => Untouched(p)
    /\ Moves(r)
    /\ \/ astate' = astate
       \/ /\ stage[r] = "live" /\ stage'[r] = "cancelled"
          /\ Active(allocOf[r])
          /\ astate' = [astate EXCEPT ![allocOf[r]] = "refunded"]

Closes(S) ==
    /\ UNCHANGED <<event, spec>>
    /\ \A r \in Rsvps \ S : Untouched(r)
    /\ \A r \in S : /\ stage[r] = "live" /\ stage'[r] \in Paid /\ SamePaper(r)
                    /\ Active(allocOf[r])
    /\ \A a \in Allocs : IF \E r \in S : allocOf[r] = a
                         THEN astate'[a] \in Paid ELSE astate'[a] = astate[a]

LEMMA LedgerMoves ==
    ASSUME TypeOK, [Next]_vars
    PROVE  \/ UNCHANGED <<event, rsvpVars, allocVars>>
           \/ \E e \in Events : EventMoves(e)
           \/ \E a \in Allocs : AllocMoves(a)
           \/ \E r \in Rsvps : RsvpMoves(r)
           \/ \E S \in SUBSET Rsvps : Closes(S)
<1> USE DEF TypeOK, eventVars, rsvpVars, allocVars
<1>1. ASSUME NEW e \in Events,
             EP_Accept(e) \/ EP_Cancel(e) \/ EndEventEarly(e) \/ MarkSettled(e)
      PROVE  EventMoves(e)
  BY <1>1 DEF EP_Accept, EP_Cancel, EndEventEarly, MarkSettled, EventMoves,
              EventOpen, EventOver, EventLive
<1>2. ASSUME NEW r \in Rsvps, NEW e \in Events,
             \/ InviteAttendee(e, r) \/ AcceptRSVP(r, e) \/ DeclineRSVP(r)
             \/ RevokeInvite(r) \/ RejectRequest(r)
      PROVE  RsvpMoves(r)
  BY <1>2 DEF InviteAttendee, AcceptRSVP, DeclineRSVP, RevokeInvite, RejectRequest,
              RsvpMoves, Moves, Untouched, SamePaper, Dropped
<1>3. ASSUME NEW r \in Rsvps, NEW a \in Allocs, RecordAllocation(r, a)
      PROVE  RsvpMoves(r)
  <2>1. Renewed(r)
    BY <1>3, EscrowConstants DEF RecordAllocation, Recreate, Renewed
  <2>2. \A p \in Rsvps : p # r => Untouched(p)
    BY <1>3 DEF RecordAllocation, Recreate, Untouched, SamePaper
  <2> QED
    BY <1>3, <2>1, <2>2 DEF RecordAllocation, RsvpMoves, Moves
<1>4. ASSUME NEW r \in Rsvps, NEW e \in Events, CheckIn(r, e)
      PROVE  RsvpMoves(r)
  <2>1. Renewed(r)
    BY <1>4 DEF CheckIn, Recreate, Renewed
  <2>2. \A p \in Rsvps : p # r => Untouched(p)
    BY <1>4 DEF CheckIn, Recreate, Untouched, SamePaper
  <2> QED
    BY <1>4, <2>1, <2>2 DEF CheckIn, RsvpMoves, Moves
<1>5. ASSUME NEW r \in Rsvps, MarkWithdrawn(r)
      PROVE  RsvpMoves(r)
  <2>1. Renewed(r)
    BY <1>5 DEF MarkWithdrawn, Recreate, Renewed
  <2>2. \A p \in Rsvps : p # r => Untouched(p)
    BY <1>5 DEF MarkWithdrawn, Recreate, Untouched, SamePaper
  <2> QED
    BY <1>5, <2>1, <2>2 DEF MarkWithdrawn, RsvpMoves, Moves
<1>6. ASSUME NEW r \in Rsvps, CancelRSVP(r)
      PROVE  RsvpMoves(r)
  BY <1>6 DEF CancelRSVP, RsvpMoves, Moves, Untouched, SamePaper
<1>7. ASSUME NEW e \in Events, NEW S \in SUBSET Rsvps, CloseEvent(e, S)
      PROVE  Closes(S)
  <2>1. \A r \in S : stage'[r] \in Paid
    BY <1>7 DEF CloseEvent, Outcome, Paid
  <2>2. \A a \in Allocs : IF \E r \in S : allocOf[r] = a
                          THEN astate'[a] \in Paid ELSE astate'[a] = astate[a]
    BY <1>7 DEF CloseEvent, Outcome, Paid
  <2>3. \A r \in S : stage[r] = "live" /\ Active(allocOf[r])
    BY <1>7 DEF CloseEvent, Settleable
  <2>4. \A r \in Rsvps : SamePaper(r) /\ (r \notin S => Untouched(r))
    BY <1>7 DEF CloseEvent, SamePaper, Untouched
  <2> QED
    BY <1>7, <2>1, <2>2, <2>3, <2>4 DEF CloseEvent, Closes
<1>8. ASSUME NEW a \in Allocs, NEW s \in Specs, Allocate(a, s)
      PROVE  AllocMoves(a)
  BY <1>8 DEF Allocate, AllocMoves
<1>9. ASSUME NEW a \in Allocs, AllocationWithdraw(a)
      PROVE  AllocMoves(a)
  BY <1>9 DEF AllocationWithdraw, AllocMoves, Active
<1>10. CASE Tick
  BY <1>10 DEF Tick
<1>11. CASE UNCHANGED vars
  BY <1>11 DEF vars
<1>12. CASE EventNext
  BY <1>1, <1>2, <1>7, <1>12 DEF EventNext
<1>13. CASE RsvpNext
  <2>1. PICK r \in Rsvps :
          \/ DeclineRSVP(r) \/ RevokeInvite(r) \/ RejectRequest(r)
          \/ MarkWithdrawn(r) \/ CancelRSVP(r)
          \/ \E e \in Events : AcceptRSVP(r, e) \/ CheckIn(r, e)
          \/ \E a \in Allocs : RecordAllocation(r, a)
    BY <1>13 DEF RsvpNext
  <2>2. EventOf[r] \in Events
    BY EscrowConstants
  <2> HIDE DEF TypeOK, eventVars, rsvpVars, allocVars
  <2>3. RsvpMoves(r)
    BY <1>2, <1>3, <1>4, <1>5, <1>6, <2>1, <2>2
  <2> QED
    BY <2>3
<1>14. CASE AllocNext
  BY <1>8, <1>9, <1>14 DEF AllocNext
<1> QED
  BY <1>10, <1>11, <1>12, <1>13, <1>14 DEF Next

LEMMA BornStep ==
    ASSUME TypeOK, [Next]_vars, NEW r \in Rsvps, Born(r)
    PROVE  Born(r)'
<1> USE DEF TypeOK, Born, Young, rsvpVars
<1>1. CASE Untouched(r)
  BY <1>1 DEF Untouched, SamePaper
<1>2. CASE stage[r] = "live" /\ stage'[r] \notin Young /\ SamePaper(r)
  BY <1>2 DEF SamePaper
<1>3. CASE Moves(r)
  <2>1. CASE Renewed(r)
    BY <2>1, EscrowConstants DEF Renewed
  <2>2. CASE ~Renewed(r)
    BY <1>3, <2>2 DEF Moves, SamePaper, Dropped
  <2> QED
    BY <2>1, <2>2
<1>4. Untouched(r) \/ Moves(r) \/ (stage[r] = "live" /\ stage'[r] \notin Young /\ SamePaper(r))
  <2> HIDE DEF Born, Young
  <2>1. CASE \E p \in Rsvps : RsvpMoves(p)
    BY <2>1 DEF RsvpMoves
  <2>2. CASE \E S \in SUBSET Rsvps : Closes(S)
    BY <2>2 DEF Closes, Paid, Young
  <2>3. CASE UNCHANGED rsvpVars
    BY <2>3 DEF Untouched, SamePaper
  <2> QED
    BY <2>1, <2>2, <2>3, LedgerMoves DEF EventMoves, AllocMoves
<1> QED
  BY <1>1, <1>2, <1>3, <1>4

-------------------------------------------------------------------------------
(* What a transaction says *)

EventPaper(e, cid) == [kind |-> "event", event |-> e, cid |-> cid]
InviteOf(r)        == [kind |-> "invite", slot |-> SlotOf(r), cid |-> r]
AllocPaper(a)      == [kind |-> "alloc", cid |-> a]

(* The payload of the live RSVP r, or the last one of r when it is gone. *)
RsvpOf(r) ==
    [kind |-> "rsvp", slot |-> SlotOf(r), cid |-> <<r, ver[r]>>,
     alloc |-> IF allocOf[r] = NoAlloc THEN None ELSE allocOf[r],
     checkedIn |-> r \in checkedIn, withdrawn |-> r \in withdrawn]

EventPapers  == [kind : {"event"}, event : Events, cid : {"open", "ended"}]
InvitePapers == [kind : {"invite"}, slot : Slots, cid : Rsvps]
RsvpPapers   == [kind : {"rsvp"}, slot : Slots, cid : RsvpCids,
                 alloc : Allocs \cup {None}, checkedIn : BOOLEAN, withdrawn : BOOLEAN]
AllocPapers  == [kind : {"alloc"}, cid : Allocs]

Paper == (EventPapers \cup InvitePapers) \cup (RsvpPapers \cup AllocPapers)

Update == [created : SUBSET Paper, archived : SUBSET Paper,
           closed : BOOLEAN, settles : SUBSET RsvpCids]

(* What an update says of the RSVPs of a slot, and of an event. *)
NewOf(u, s) == {c \in u.created : c.kind \in {"invite", "rsvp"} /\ c.slot = s}
OldOf(u, s) == {c \in u.archived : c.kind \in {"invite", "rsvp"} /\ c.slot = s}
NewEvent(u, e) == {c \in u.created : c.kind = "event" /\ c.event = e}
OldEvent(u, e) == {c \in u.archived : c.kind = "event" /\ c.event = e}

(* The contract of RSVP r, if it has one. *)
Face(r) == IF stage[r] = "invited" THEN {InviteOf(r)}
           ELSE IF stage[r] = "live" THEN {RsvpOf(r)} ELSE {}

EventFace(e) == IF EventLive(e) THEN {EventPaper(e, event[e])} ELSE {}

BaseOK == TypeOK /\ \A r \in Rsvps : Born(r)

LEMMA SlotIs == \A r \in Rsvps : SlotOf(r) \in Slots
  BY EscrowConstants DEF SlotOf, Slots

LEMMA FaceTyped ==
    ASSUME BaseOK, NEW r \in Rsvps
    PROVE  InviteOf(r) \in Paper /\ RsvpOf(r) \in RsvpPapers
<1>1. SlotOf(r) \in Slots
  BY SlotIs
<1>2. <<r, ver[r]>> \in RsvpCids
  BY DEF BaseOK, Born, RsvpCids
<1>3. allocOf[r] \in Allocs \cup {NoAlloc}
  BY DEF BaseOK, TypeOK
<1> QED
  BY <1>1, <1>2, <1>3 DEF InviteOf, RsvpOf, Paper, InvitePapers, RsvpPapers

(* The contracts by kind. *)
ContractFacts ==
    /\ Contracts \subseteq Paper
    /\ \A c \in Contracts :
          /\ c.kind = "event" => \E e \in Events : c \in EventFace(e)
          /\ c.kind \in {"invite", "rsvp"} => \E r \in Rsvps : c \in Face(r)
          /\ c.kind = "alloc" => \E a \in Allocs : Active(a) /\ c = AllocPaper(a)
    /\ \A e \in Events : EventFace(e) \subseteq Contracts
    /\ \A r \in Rsvps : Face(r) \subseteq Contracts
    /\ \A a \in Allocs : Active(a) => AllocPaper(a) \in Contracts

LEMMA ContractsAre == BaseOK => ContractFacts
<1> SUFFICES ASSUME BaseOK PROVE ContractFacts
  OBVIOUS
<1> USE DEF EventFace, Face
<1>1. ASSUME NEW c \in Contracts
      PROVE  \/ \E e \in Events : EventLive(e) /\ c = EventPaper(e, event[e])
             \/ \E r \in Rsvps : stage[r] = "invited" /\ c = InviteOf(r)
             \/ \E r \in Rsvps : stage[r] = "live" /\ c = RsvpOf(r)
             \/ \E a \in Allocs : Active(a) /\ c = AllocPaper(a)
  BY <1>1 DEF Contracts, EventPaper, InviteOf, RsvpOf, AllocPaper
<1>2. \A e \in Events : EventLive(e) =>
        EventPaper(e, event[e]) \in Contracts /\ EventPaper(e, event[e]) \in Paper
  BY DEF Contracts, EventPaper, EventLive, Paper, EventPapers
<1>3. \A r \in Rsvps : stage[r] = "invited" => InviteOf(r) \in Contracts
  BY DEF Contracts, InviteOf
<1>4. \A r \in Rsvps : stage[r] = "live" => RsvpOf(r) \in Contracts
  BY DEF Contracts, RsvpOf
<1>5. \A a \in Allocs : Active(a) => AllocPaper(a) \in Contracts /\ AllocPaper(a) \in Paper
  BY DEF Contracts, AllocPaper, Paper, AllocPapers
<1>6. \A r \in Rsvps : InviteOf(r) \in Paper /\ RsvpOf(r) \in Paper
  BY FaceTyped DEF Paper
<1>7. Contracts \subseteq Paper
  BY <1>1, <1>2, <1>5, <1>6
<1>8. ASSUME NEW c \in Contracts
      PROVE  /\ c.kind = "event" => \E e \in Events : c \in EventFace(e)
             /\ c.kind \in {"invite", "rsvp"} => \E r \in Rsvps : c \in Face(r)
             /\ c.kind = "alloc" => \E a \in Allocs : Active(a) /\ c = AllocPaper(a)
  BY <1>1, <1>8 DEF EventPaper, InviteOf, RsvpOf, AllocPaper
<1> QED
  BY <1>2, <1>3, <1>4, <1>5, <1>7, <1>8 DEF ContractFacts

LEMMA ContractsNext == BaseOK' => ContractFacts'
  BY ContractsAre, PTL

(* A contract tells whose it is. *)
LEMMA FaceIs ==
    ASSUME NEW r \in Rsvps, NEW c \in Face(r)
    PROVE  /\ c.kind \in {"invite", "rsvp"} /\ c.slot = SlotOf(r)
           /\ c.kind = "invite" => c = InviteOf(r) /\ c.cid = r /\ stage[r] = "invited"
           /\ c.kind = "rsvp" => c = RsvpOf(r) /\ c.cid[1] = r /\ c.cid[2] = ver[r] /\ stage[r] = "live"
  BY DEF Face, InviteOf, RsvpOf

LEMMA FaceOwn ==
    ASSUME NEW r \in Rsvps, NEW p \in Rsvps, NEW c, c \in Face(r), c \in Face(p) \/ c \in Face(p)'
    PROVE  p = r
  BY DEF Face, InviteOf, RsvpOf

LEMMA FaceStays ==
    ASSUME NEW r \in Rsvps, Untouched(r)
    PROVE  Face(r)' = Face(r)
  BY DEF Untouched, SamePaper, Face, RsvpOf, InviteOf, SlotOf

(* In a transaction, the contracts of an RSVP that changes are exchanged.    *)
LEMMA TellsNew ==
    ASSUME BaseOK, BaseOK', NEW c
    PROVE  /\ c \in Created <=> c \in Contracts' \ Contracts /\ c.kind # "alloc"
           /\ c \in Archived <=> c \in Contracts \ Contracts'
           /\ c \in Created \cup Archived => c \in Paper
  BY ContractsAre, ContractsNext DEF Created, Archived, Creates, ContractFacts

LEMMA TellsFace ==
    ASSUME BaseOK, BaseOK', NEW r \in Rsvps, NEW c
    PROVE  /\ c \in Face(r)' \ Face(r) => c \in Created /\ c \notin Contracts
           /\ c \in Face(r) \ Face(r)' => c \in Archived
<1>1. ContractFacts /\ ContractFacts'
  BY ContractsAre, ContractsNext
<1>2. ASSUME c \in Face(r)', c \notin Face(r)
      PROVE  c \in Created /\ c \notin Contracts
  <2>1. c.kind \in {"invite", "rsvp"}
    BY <1>2 DEF Face, InviteOf, RsvpOf
  <2>2. c \notin Contracts
    <3>1. SUFFICES ASSUME c \in Contracts PROVE FALSE
      OBVIOUS
    <3>2. PICK p \in Rsvps : c \in Face(p)
      BY <1>1, <2>1, <3>1 DEF ContractFacts
    <3>3. p = r
      BY <1>2, <3>2, FaceOwn
    <3> QED
      BY <1>2, <3>2, <3>3
  <2>3. c \in Contracts'
    BY <1>1, <1>2 DEF ContractFacts
  <2> QED
    BY <2>1, <2>2, <2>3, TellsNew
<1>3. ASSUME c \in Face(r), c \notin Face(r)'
      PROVE  c \in Archived
  <2>1. c.kind \in {"invite", "rsvp"} /\ c \in Contracts
    BY <1>1, <1>3, FaceIs DEF ContractFacts
  <2>2. c \notin Contracts'
    <3>1. SUFFICES ASSUME c \in Contracts' PROVE FALSE
      OBVIOUS
    <3>2. PICK p \in Rsvps : c \in Face(p)'
      BY <1>1, <2>1, <3>1 DEF ContractFacts
    <3>3. p = r
      BY <1>3, <3>2, FaceOwn
    <3> QED
      BY <1>3, <3>2, <3>3
  <2> QED
    BY <2>1, <2>2, TellsNew
<1> QED
  BY <1>2, <1>3

LEMMA FaceTells ==
    ASSUME BaseOK, BaseOK', NEW c, c.kind \in {"invite", "rsvp"}
    PROVE  /\ c \in Created => \E r \in Rsvps : c \in Face(r)' /\ c \notin Face(r)
           /\ c \in Archived => \E r \in Rsvps : c \in Face(r) /\ c \notin Face(r)'
<1>1. ContractFacts /\ ContractFacts'
  BY ContractsAre, ContractsNext
<1>2. ASSUME c \in Created
      PROVE  \E r \in Rsvps : c \in Face(r)' /\ c \notin Face(r)
  <2>1. c \in Contracts' /\ c \notin Contracts
    BY <1>2, TellsNew
  <2>2. PICK r \in Rsvps : c \in Face(r)'
    BY <1>1, <2>1 DEF ContractFacts
  <2> QED
    BY <1>1, <2>1, <2>2 DEF ContractFacts
<1>3. ASSUME c \in Archived
      PROVE  \E r \in Rsvps : c \in Face(r) /\ c \notin Face(r)'
  <2>1. c \in Contracts /\ c \notin Contracts'
    BY <1>3, TellsNew
  <2>2. PICK r \in Rsvps : c \in Face(r)
    BY <1>1, <2>1 DEF ContractFacts
  <2> QED
    BY <1>1, <2>1, <2>2 DEF ContractFacts
<1> QED
  BY <1>2, <1>3

LEMMA TransactionTyped == BaseOK /\ BaseOK' => Transaction \in Update
<1> SUFFICES ASSUME BaseOK, BaseOK' PROVE Transaction \in Update
  OBVIOUS
<1>1. Created \subseteq Paper /\ Archived \subseteq Paper
  BY TellsNew
<1>2. \A r \in Rsvps : <<r, ver[r]>> \in RsvpCids
  BY DEF BaseOK, Born, RsvpCids
<1>3. {<<r, ver[r]>> : r \in {q \in Rsvps : SettledNow(q)}} \subseteq RsvpCids
  BY <1>2
<1> QED
  BY <1>1, <1>3 DEF Transaction, Update

(* What it says of a slot of which at most one RSVP changes. *)
LEMMA TellsSlot ==
    ASSUME BaseOK, BaseOK', NEW r \in Rsvps,
           \A p \in Rsvps : SlotOf(p) = SlotOf(r) /\ p # r => Untouched(p)
    PROVE  /\ NewOf(Transaction, SlotOf(r)) = Face(r)' \ Face(r)
           /\ OldOf(Transaction, SlotOf(r)) = Face(r) \ Face(r)'
<1>1. Transaction.created = Created /\ Transaction.archived = Archived
  BY DEF Transaction
<1>2. ASSUME NEW c \in NewOf(Transaction, SlotOf(r))
      PROVE  c \in Face(r)' \ Face(r)
  <2>1. c \in Created /\ c.kind \in {"invite", "rsvp"} /\ c.slot = SlotOf(r)
    BY <1>1, <1>2 DEF NewOf
  <2>2. PICK p \in Rsvps : c \in Face(p)' /\ c \notin Face(p)
    BY <2>1, FaceTells
  <2>3. c.slot = SlotOf(p)
    BY <2>2 DEF Face, InviteOf, RsvpOf, SlotOf
  <2>4. ~Untouched(p)
    BY <2>2, FaceStays
  <2> QED
    BY <2>1, <2>2, <2>3, <2>4
<1>3. ASSUME NEW c \in OldOf(Transaction, SlotOf(r))
      PROVE  c \in Face(r) \ Face(r)'
  <2>1. c \in Archived /\ c.kind \in {"invite", "rsvp"} /\ c.slot = SlotOf(r)
    BY <1>1, <1>3 DEF OldOf
  <2>2. PICK p \in Rsvps : c \in Face(p) /\ c \notin Face(p)'
    BY <2>1, FaceTells
  <2>3. c.slot = SlotOf(p)
    BY <2>2 DEF Face, InviteOf, RsvpOf, SlotOf
  <2>4. ~Untouched(p)
    BY <2>2, FaceStays
  <2> QED
    BY <2>1, <2>2, <2>3, <2>4
<1>4. ASSUME NEW c, c \in Face(r)' \ Face(r)
      PROVE  c \in NewOf(Transaction, SlotOf(r))
  <2>1. c \in Created
    BY <1>4, TellsFace
  <2>2. c.kind \in {"invite", "rsvp"} /\ c.slot = SlotOf(r)
    BY <1>4 DEF Face, InviteOf, RsvpOf, SlotOf
  <2> QED
    BY <1>1, <2>1, <2>2 DEF NewOf
<1>5. ASSUME NEW c, c \in Face(r) \ Face(r)'
      PROVE  c \in OldOf(Transaction, SlotOf(r))
  <2>1. c \in Archived
    BY <1>5, TellsFace
  <2>2. c.kind \in {"invite", "rsvp"} /\ c.slot = SlotOf(r)
    BY <1>5 DEF Face, InviteOf, RsvpOf, SlotOf
  <2> QED
    BY <1>1, <2>1, <2>2 DEF OldOf
<1> QED
  BY <1>2, <1>3, <1>4, <1>5

LEMMA TellsNothing ==
    ASSUME BaseOK, BaseOK', NEW s, \A p \in Rsvps : SlotOf(p) = s => Untouched(p)
    PROVE  NewOf(Transaction, s) = {} /\ OldOf(Transaction, s) = {}
<1>1. Transaction.created = Created /\ Transaction.archived = Archived
  BY DEF Transaction
<1>2. ASSUME NEW c, c \in Created \/ c \in Archived, c.kind \in {"invite", "rsvp"}, c.slot = s
      PROVE  FALSE
  <2>1. PICK p \in Rsvps : (c \in Face(p)' /\ c \notin Face(p)) \/ (c \in Face(p) /\ c \notin Face(p)')
    BY <1>2, FaceTells
  <2>2. c.slot = SlotOf(p)
    BY <2>1 DEF Face, InviteOf, RsvpOf, SlotOf
  <2> QED
    BY <1>2, <2>1, <2>2, FaceStays
<1> QED
  BY <1>1, <1>2 DEF NewOf, OldOf

-------------------------------------------------------------------------------
(* Queues of updates *)

(* q2 is q without its first update, with one more, and twice. *)
Behead(q, q2) ==
    /\ Len(q) \in Nat \ {0} /\ Len(q2) = Len(q) - 1
    /\ \A k \in 1..Len(q2) : q2[k] = q[k+1]

Extend(q, u, q2) ==
    /\ Len(q) \in Nat /\ Len(q2) = Len(q) + 1
    /\ \A k \in 1..Len(q) : q2[k] = q[k]
    /\ q2[Len(q) + 1] = u

Repeat(q, q2) ==
    /\ Len(q) \in Nat /\ Len(q2) = Len(q) + Len(q)
    /\ \A k \in 1..Len(q) : q2[k] = q[k] /\ q2[Len(q) + k] = q[k]

LEMMA TailIs ==
    ASSUME NEW S, NEW q \in Seq(S), q # <<>>
    PROVE  Tail(q) \in Seq(S) /\ Behead(q, Tail(q)) /\ Head(q) = q[1] /\ q[1] \in S
BY DEF Behead

LEMMA AppendIs ==
    ASSUME NEW S, NEW q \in Seq(S), NEW u \in S
    PROVE  Append(q, u) \in Seq(S) /\ Extend(q, u, Append(q, u))
BY DEF Extend

LEMMA RepeatIs ==
    ASSUME NEW S, NEW q \in Seq(S)
    PROVE  q \o q \in Seq(S) /\ Repeat(q, q \o q)
BY DEF Repeat

(* Of the first n updates of q, those in G bring about what ok says, those   *)
(* in B may undo it, and all others leave it; and the last word is not B's.  *)
(* So ok will hold after them, even if these updates are handled once more.  *)
Tends(q, n, G, B, ok) ==
    /\ ok \/ \E j \in 1..n : q[j] \in G
    /\ \A i \in 1..n : q[i] \in B => \E j \in (i+1)..n : q[j] \in G

LEMMA TendsDone ==
    ASSUME NEW q, NEW G, NEW B, NEW ok, Tends(q, 0, G, B, ok)
    PROVE  ok
  BY DEF Tends

LEMMA TendsBehead ==
    ASSUME NEW q, NEW q2, Behead(q, q2), NEW n \in 1..Len(q), NEW G, NEW B,
           NEW ok, NEW ok2, Tends(q, n, G, B, ok),
           q[1] \in G => ok2, q[1] \notin G /\ q[1] \notin B /\ ok => ok2
    PROVE  Tends(q2, n - 1, G, B, ok2)
<1>1. /\ Len(q) \in Nat \ {0} /\ Len(q2) = Len(q) - 1 /\ 1 \in 1..n /\ n \in Nat
      /\ \A k \in 1..(n-1) : k + 1 \in 1..n /\ q2[k] = q[k+1]
      /\ \A k \in 1..n : k # 1 => k - 1 \in 1..(n-1) /\ q2[k-1] = q[k]
  BY DEF Behead
<1>2. ok2 \/ \E j \in 1..(n-1) : q2[j] \in G
  <2>1. CASE q[1] \in B /\ q[1] \notin G
    <3>1. PICK j \in 2..n : q[j] \in G
      BY <1>1, <2>1 DEF Tends
    <3>2. j \in 1..n /\ j # 1
      BY <1>1, <3>1
    <3>3. j - 1 \in 1..(n-1) /\ q2[j-1] = q[j]
      BY <1>1, <3>2
    <3> QED
      BY <3>1, <3>3
  <2>2. CASE q[1] \notin B /\ q[1] \notin G
    BY <1>1, <2>2 DEF Tends
  <2> QED
    BY <2>1, <2>2
<1>3. ASSUME NEW i \in 1..(n-1), q2[i] \in B
      PROVE  \E j \in (i+1)..(n-1) : q2[j] \in G
  <2>1. PICK j \in (i+1+1)..n : q[j] \in G
    BY <1>1, <1>3 DEF Tends
  <2>2. j - 1 \in (i+1)..(n-1) /\ j \in 1..n /\ j # 1
    BY <1>1
  <2> QED
    BY <1>1, <2>1, <2>2
<1> QED
  BY <1>2, <1>3 DEF Tends

(* Whatever happened before, the last update settles it. *)
LEMMA TendsGood ==
    ASSUME NEW q, NEW u, NEW q2, Extend(q, u, q2), NEW G, NEW B, NEW ok,
           u \in G, u \notin B
    PROVE  Tends(q2, Len(q2), G, B, ok)
<1>1. /\ Len(q) \in Nat /\ Len(q2) = Len(q) + 1 /\ q2[Len(q2)] = u
      /\ Len(q2) \in 1..Len(q2)
  BY DEF Extend
<1>2. \A i \in 1..Len(q2) : i # Len(q2) => Len(q2) \in (i+1)..Len(q2)
  BY <1>1
<1> QED
  BY <1>1, <1>2 DEF Tends

LEMMA TendsKeep ==
    ASSUME NEW q, NEW u, NEW q2, Extend(q, u, q2), NEW n \in 0..Len(q),
           NEW G, NEW B, NEW ok, Tends(q, n, G, B, ok)
    PROVE  Tends(q2, n, G, B, ok)
<1>1. \A i \in 1..n : q2[i] = q[i]
  BY DEF Extend
<1>2. \A i \in 1..n : \A j \in (i+1)..n : q2[j] = q[j]
  BY DEF Extend
<1> QED
  BY <1>1, <1>2 DEF Tends

LEMMA TendsNeutral ==
    ASSUME NEW q, NEW u, NEW q2, Extend(q, u, q2),
           NEW G, NEW B, NEW ok, Tends(q, Len(q), G, B, ok), u \notin B
    PROVE  Tends(q2, Len(q2), G, B, ok)
<1> DEFINE n == Len(q)
           m == Len(q2)
<1>1. /\ n \in Nat /\ m = n + 1 /\ q2[m] = u
      /\ \A i \in 1..n : i \in 1..m /\ q2[i] = q[i]
      /\ \A i \in 1..m : i = m \/ i \in 1..n
  BY DEF Extend
<1>2. ok \/ \E j \in 1..m : q2[j] \in G
  BY <1>1 DEF Tends
<1>3. ASSUME NEW i \in 1..m, q2[i] \in B
      PROVE  \E j \in (i+1)..m : q2[j] \in G
  <2>1. i \in 1..n /\ q[i] \in B
    BY <1>1, <1>3
  <2>2. PICK j \in (i+1)..n : q[j] \in G
    BY <2>1 DEF Tends
  <2>3. j \in 1..n /\ j \in (i+1)..m
    BY <1>1, <2>1
  <2> QED
    BY <1>1, <2>2, <2>3
<1> QED
  BY <1>2, <1>3 DEF Tends

LEMMA TendsRepeat ==
    ASSUME NEW q, NEW q2, Repeat(q, q2), NEW G, NEW B, NEW ok, NEW k \in 0..Len(q),
           Tends(q, Len(q), G, B, ok), Tends(q, k, G, B, ok)
    PROVE  Tends(q2, Len(q) + k, G, B, ok)
<1> DEFINE n == Len(q)
<1>1. /\ n \in Nat /\ k \in Nat /\ k =< n
      /\ \A i \in 1..n : i \in 1..(n+k) /\ q2[i] = q[i]
      /\ \A i \in 1..k : n + i \in 1..(n+k) /\ q2[n+i] = q[i]
      /\ \A i \in 1..(n+k) : i \notin 1..n => i - n \in 1..k /\ i = n + (i - n)
  BY DEF Repeat
<1>2. ok \/ \E j \in 1..(n+k) : q2[j] \in G
  BY <1>1 DEF Tends
<1>3. ASSUME NEW i \in 1..(n+k), q2[i] \in B
      PROVE  \E j \in (i+1)..(n+k) : q2[j] \in G
  <2>1. CASE i \in 1..n
    <3>1. PICK j \in (i+1)..n : q[j] \in G
      BY <1>1, <1>3, <2>1 DEF Tends
    <3>2. j \in 1..n /\ j \in (i+1)..(n+k)
      BY <1>1, <2>1
    <3> QED
      BY <1>1, <3>1, <3>2
  <2>2. CASE i \notin 1..n
    <3>1. PICK m \in 1..k : i = n + m /\ q2[i] = q[m]
      BY <1>1, <2>2
    <3>2. PICK j \in (m+1)..k : q[j] \in G
      BY <1>3, <3>1 DEF Tends
    <3>3. j \in 1..k /\ n + j \in (i+1)..(n+k)
      BY <1>1, <3>1
    <3> QED
      BY <1>1, <3>2, <3>3
  <2> QED
    BY <2>1, <2>2
<1> QED
  BY <1>2, <1>3 DEF Tends

LEMMA TendsTwice ==
    ASSUME NEW q, NEW q2, Repeat(q, q2), NEW G, NEW B, NEW ok,
           Tends(q, Len(q), G, B, ok)
    PROVE  Tends(q2, Len(q2), G, B, ok)
<1>1. Len(q) \in 0..Len(q) /\ Len(q2) = Len(q) + Len(q)
  BY DEF Repeat
<1> QED
  BY <1>1, TendsRepeat

LEMMA TendsWeaker ==
    ASSUME NEW q, NEW n, NEW G, NEW B, NEW ok, Tends(q, n, G, B, ok),
           NEW H, NEW C, NEW ok2,
           \A j : j \in DOMAIN q => (q[j] \in G => q[j] \in H) /\ (q[j] \in C => q[j] \in B),
           1..n \subseteq DOMAIN q, n \in Nat, ok => ok2
    PROVE  Tends(q, n, H, C, ok2)
<1>1. \A j \in 1..n : (q[j] \in G => q[j] \in H) /\ (q[j] \in C => q[j] \in B)
  OBVIOUS
<1>2. \A i \in 1..n : \A j \in (i+1)..n : j \in 1..n
  OBVIOUS
<1> QED
  BY <1>1, <1>2 DEF Tends

-------------------------------------------------------------------------------
(* What a handler writes into a row *)

Base(prior) == IF prior = NoRow THEN BlankRow ELSE prior

TheInvite(u, s) == CHOOSE c \in CreatedFor(u, "invite", s) : TRUE
TheRsvp(u, s)   == CHOOSE c \in CreatedFor(u, "rsvp", s) : TRUE

(* The row after its creates were written names an invite, and it may be one *)
(* that the update archives.                                                 *)
NewInvite(prior, s, u) ==
    IF CreatedFor(u, "invite", s) = {} THEN Base(prior).invite ELSE TheInvite(u, s).cid

InviteEnds(prior, s, u) ==
    /\ prior # NoRow
    /\ Archives(u, "invite", prior.invite)
    /\ NewInvite(prior, s, u) = prior.invite

RsvpEnds(prior, u) == prior # NoRow /\ Archives(u, "rsvp", prior.rsvp)

NewStatus(prior, s, u) ==
    IF CreatedFor(u, "rsvp", s) # {} THEN RsvpStatus(Base(prior), TheRsvp(u, s))
    ELSE IF RsvpEnds(prior, u)
         THEN IF IsSettled(u, prior.rsvp) THEN "settled" ELSE "cancelled"
    ELSE IF InviteEnds(prior, s, u) THEN "declined"
    ELSE IF CreatedFor(u, "invite", s) # {} THEN "invited"
    ELSE Base(prior).status

NewRow(row, prior, s, u) ==
    /\ row \in Row
    /\ row.status = NewStatus(prior, s, u)
    /\ row.invite = IF InviteEnds(prior, s, u) /\ CreatedFor(u, "rsvp", s) # {}
                    THEN None ELSE NewInvite(prior, s, u)
    /\ row.detected = (Base(prior).detected \/ (prior # NoRow /\ Lost(prior, s, u)))
    /\ CreatedFor(u, "rsvp", s) = {} =>
          /\ row.rsvp = Base(prior).rsvp
          /\ row.alloc = Base(prior).alloc
          /\ row.checkedIn = Base(prior).checkedIn
    /\ CreatedFor(u, "rsvp", s) # {} =>
          /\ row.rsvp = TheRsvp(u, s).cid
          /\ row.alloc = IF TheRsvp(u, s).withdrawn THEN None ELSE TheRsvp(u, s).alloc
          /\ row.checkedIn = (TheRsvp(u, s).checkedIn /\ ~TheRsvp(u, s).withdrawn)

LEMMA BlankTyped == BlankRow \in Row
  BY DEF BlankRow, Row, RowStates

LEMMA PaperKinds ==
    ASSUME NEW c \in Paper
    PROVE  /\ c.kind = "event" => c \in EventPapers
           /\ c.kind = "invite" => c \in InvitePapers
           /\ c.kind = "rsvp" => c \in RsvpPapers
           /\ c.kind = "alloc" => c \in AllocPapers
  BY DEF Paper, EventPapers, InvitePapers, RsvpPapers, AllocPapers

LEMMA CreatesTyped ==
    ASSUME NEW u \in Update, NEW s
    PROVE  /\ CreatedFor(u, "invite", s) # {} => TheInvite(u, s) \in CreatedFor(u, "invite", s)
           /\ CreatedFor(u, "rsvp", s) # {} => TheRsvp(u, s) \in CreatedFor(u, "rsvp", s)
           /\ CreatedFor(u, "invite", s) \subseteq InvitePapers
           /\ CreatedFor(u, "rsvp", s) \subseteq RsvpPapers
<1>1. u.created \subseteq Paper
  BY DEF Update
<1> QED
  BY <1>1, PaperKinds DEF TheInvite, TheRsvp, CreatedFor

LEMMA HandledIs ==
    ASSUME NEW u \in Update, NEW s \in Slots, NEW prior \in Row \cup {NoRow}
    PROVE  \/ HandleRsvp(prior, s, u) = NoRow /\ prior = NoRow /\ CreatedFor(u, "invite", s) = {}
           \/ /\ prior # NoRow \/ CreatedFor(u, "invite", s) # {}
              /\ NewRow(HandleRsvp(prior, s, u), prior, s, u)
<1> DEFINE invites == CreatedFor(u, "invite", s)
           rsvps   == CreatedFor(u, "rsvp", s)
           I == TheInvite(u, s)
           C == TheRsvp(u, s)
           base == Base(prior)
           invited == IF invites = {} THEN prior ELSE Invited(prior, I)
           row1 == AfterCreates(prior, s, u)
<1>1. base \in Row /\ NoRow \notin Row
  BY BlankTyped, ReadModelConstants DEF Base
<1>2. /\ invites # {} => I.cid \in Rsvps
      /\ rsvps # {} => /\ C.cid \in RsvpCids /\ C.alloc \in Allocs \cup {None}
                       /\ C.checkedIn \in BOOLEAN /\ C.withdrawn \in BOOLEAN
  BY CreatesTyped DEF InvitePapers, RsvpPapers
<1>3. row1 = IF rsvps = {} \/ invited = NoRow THEN invited ELSE Refreshed(invited, base, C)
  BY DEF AfterCreates, TheInvite, TheRsvp, Base
<1>4. CASE prior = NoRow /\ invites = {}
  BY <1>3, <1>4 DEF HandleRsvp
<1>5. ASSUME prior # NoRow \/ invites # {}
      PROVE  NewRow(HandleRsvp(prior, s, u), prior, s, u)
  <2>0. invited = IF invites = {} THEN base
                  ELSE [base EXCEPT !.invite = I.cid, !.status = "invited"]
    BY <1>5 DEF Invited, Base
  <2>1. invited \in Row
    <3> HIDE DEF base, invited
    <3> QED
      BY <1>1, <1>2, <2>0 DEF Row, RowStates
  <2>2. invited # NoRow
    BY <1>1, <2>1
  <2>3. /\ invited.status = IF invites = {} THEN base.status ELSE "invited"
        /\ invited.invite = NewInvite(prior, s, u)
        /\ invited.detected = base.detected /\ invited.rsvp = base.rsvp
        /\ invited.alloc = base.alloc /\ invited.checkedIn = base.checkedIn
    BY <1>1, <2>0, <2>1 DEF Row, NewInvite
  <2>4. rsvps # {} => RsvpStatus(base, C) \in RowStates
    BY <1>1, <1>2 DEF RsvpStatus, RowStates, Row
  <2>5. /\ row1 \in Row
        /\ row1.status = IF rsvps = {} THEN invited.status ELSE RsvpStatus(base, C)
        /\ row1.invite = NewInvite(prior, s, u)
        /\ row1.detected = base.detected
        /\ rsvps = {} => row1.rsvp = base.rsvp /\ row1.alloc = base.alloc /\ row1.checkedIn = base.checkedIn
        /\ rsvps # {} =>
              /\ row1.rsvp = C.cid
              /\ row1.alloc = IF C.withdrawn THEN None ELSE C.alloc
              /\ row1.checkedIn = (C.checkedIn /\ ~C.withdrawn)
    <3>1. CASE rsvps = {}
      BY <1>3, <2>1, <2>3, <3>1
    <3>2. CASE rsvps # {}
      <4> DEFINE st == RsvpStatus(base, C)
                 al == IF C.withdrawn THEN None ELSE C.alloc
                 ci == C.checkedIn /\ ~C.withdrawn
                 id == C.cid
      <4>1. row1 = [invited EXCEPT !.rsvp = id, !.status = st, !.alloc = al, !.checkedIn = ci]
        BY <1>3, <2>2, <3>2 DEF Refreshed
      <4>2. st \in RowStates /\ al \in Allocs \cup {None} /\ ci \in BOOLEAN /\ id \in RsvpCids
        BY <1>2, <2>4, <3>2
      <4> HIDE DEF st, al, ci, id, row1, invited
      <4>3. /\ row1 \in Row /\ row1.rsvp = id /\ row1.status = st /\ row1.alloc = al
            /\ row1.checkedIn = ci /\ row1.invite = invited.invite /\ row1.detected = invited.detected
        BY <2>1, <4>1, <4>2 DEF Row
      <4> QED
        BY <2>3, <3>2, <4>3 DEF st, al, ci, id
    <3> QED
      BY <3>1, <3>2
  <2> HIDE DEF row1, invited
  <2>6. CASE prior = NoRow
    <3>1. HandleRsvp(prior, s, u) = row1
      BY <2>6 DEF HandleRsvp, row1
    <3>2. NewStatus(prior, s, u) = row1.status /\ ~InviteEnds(prior, s, u)
      BY <1>5, <2>3, <2>5, <2>6 DEF NewStatus, RsvpEnds, InviteEnds
    <3>3. row1.detected \in BOOLEAN
      BY <2>5 DEF Row
    <3> QED
      BY <2>5, <2>6, <3>1, <3>2, <3>3 DEF NewRow
  <2>7. CASE prior # NoRow
    <3> DEFINE row2 == AfterInvite(row1, prior, s, u)
               row3 == AfterRsvp(row2, prior, s, u)
    <3>1. base = prior
      BY <2>7 DEF Base
    <3>2. row2 = IF ~InviteEnds(prior, s, u) THEN row1
                 ELSE IF rsvps # {} THEN [row1 EXCEPT !.invite = None]
                 ELSE [row1 EXCEPT !.status = "declined"]
      BY <2>5, <2>7 DEF AfterInvite, InviteEnds
    <3>3. row3 = IF ~RsvpEnds(prior, u) \/ rsvps # {} THEN row2
                 ELSE [row2 EXCEPT !.status = IF IsSettled(u, prior.rsvp) THEN "settled" ELSE "cancelled"]
      BY <2>7 DEF AfterRsvp, RsvpEnds
    <3>4. HandleRsvp(prior, s, u) = [row3 EXCEPT !.detected = @ \/ Lost(prior, s, u)]
      BY <2>7 DEF HandleRsvp, row1
    <3> HIDE DEF row2, row3
    <3>5. /\ row2 \in Row
          /\ row2.status = IF InviteEnds(prior, s, u) /\ rsvps = {} THEN "declined" ELSE row1.status
          /\ row2.invite = IF InviteEnds(prior, s, u) /\ rsvps # {} THEN None ELSE row1.invite
          /\ row2.detected = row1.detected /\ row2.rsvp = row1.rsvp
          /\ row2.alloc = row1.alloc /\ row2.checkedIn = row1.checkedIn
      BY <2>5, <3>2 DEF Row, RowStates
    <3>6. /\ row3 \in Row
          /\ row3.status = IF ~RsvpEnds(prior, u) \/ rsvps # {} THEN row2.status
                           ELSE IF IsSettled(u, prior.rsvp) THEN "settled" ELSE "cancelled"
          /\ row3.invite = row2.invite
          /\ row3.detected = row2.detected /\ row3.rsvp = row2.rsvp
          /\ row3.alloc = row2.alloc /\ row3.checkedIn = row2.checkedIn
      BY <3>3, <3>5 DEF Row, RowStates
    <3> DEFINE row == HandleRsvp(prior, s, u)
    <3> HIDE DEF row
    <3>7. row = [row3 EXCEPT !.detected = @ \/ Lost(prior, s, u)]
      BY <3>4 DEF row
    <3>8. Lost(prior, s, u) \in BOOLEAN
      BY DEF Lost
    <3>9. /\ row \in Row /\ row.status = row3.status /\ row.invite = row3.invite
          /\ row.rsvp = row3.rsvp /\ row.alloc = row3.alloc /\ row.checkedIn = row3.checkedIn
          /\ row.detected = (row3.detected \/ Lost(prior, s, u))
      BY <3>6, <3>7, <3>8 DEF Row
    <3>10. row.status = NewStatus(prior, s, u)
      BY <2>3, <2>5, <3>1, <3>5, <3>6, <3>9 DEF NewStatus
    <3>11. NewRow(row, prior, s, u)
      BY <2>5, <2>7, <3>1, <3>5, <3>6, <3>9, <3>10 DEF NewRow
    <3> QED
      BY <3>11 DEF row
  <2> QED
    BY <2>6, <2>7
<1> QED
  BY <1>4, <1>5

-------------------------------------------------------------------------------
(* What was said stays true *)

Late == {"live"} \cup Gone

LedgerOK == BaseOK /\ Books /\ CheckedInHoldsStake

LEMMA LedgerInit == Init => LedgerOK
<1>1. Init => Books /\ CheckedInHoldsStake
  BY BooksInit, CheckInInit
<1>2. Init => \A r \in Rsvps : Born(r)
  BY EscrowConstants DEF Init, Born, Young
<1> QED
  BY <1>1, <1>2 DEF LedgerOK, BaseOK, Books

LEMMA LedgerStep == LedgerOK /\ [Next]_vars => LedgerOK'
<1> SUFFICES ASSUME LedgerOK, [Next]_vars PROVE LedgerOK'
  OBVIOUS
<1>1. TypeOK' /\ Books' /\ CheckedInHoldsStake'
  BY BooksStep, CheckInStep DEF LedgerOK, Books
<1>2. ASSUME NEW r \in Rsvps PROVE Born(r)'
  BY BornStep DEF LedgerOK, BaseOK
<1> QED
  BY <1>1, <1>2 DEF LedgerOK, BaseOK

(* The ledger goes forward only. *)
Onward(r) ==
    /\ stage[r] # "none" => stage'[r] # "none"
    /\ stage[r] \notin {"none", "invited"} => stage'[r] \notin {"none", "invited"}
    /\ stage[r] \in Late => stage'[r] \in Late
    /\ stage[r] \in Gone \cup Dropped => Untouched(r)
    /\ ver[r] <= ver'[r] /\ ver[r] \in Nat /\ ver'[r] \in Nat
    /\ ver'[r] = ver[r] => SamePaper(r)
    /\ ver'[r] # ver[r] => stage[r] = "live" /\ stage'[r] = "live"

LEMMA Forward ==
    ASSUME TypeOK, [Next]_vars
    PROVE  /\ \A r \in Rsvps : Onward(r)
           /\ \A a \in Allocs : /\ astate[a] # "none" => astate'[a] # "none" /\ spec'[a] = spec[a]
                                /\ astate[a] \notin {"none", "locked"} => astate'[a] = astate[a]
                                /\ astate'[a] = "locked" => astate[a] \in {"none", "locked"}
<1>1. \A r \in Rsvps : stage[r] \in Stages /\ ver[r] \in Nat
  BY DEF TypeOK
<1>2. ASSUME NEW r \in Rsvps, Untouched(r) PROVE Onward(r)
  BY <1>1, <1>2 DEF Untouched, Onward, SamePaper
<1>3. ASSUME NEW r \in Rsvps, Moves(r) PROVE Onward(r)
  <2>1. CASE Renewed(r)
    BY <1>1, <2>1 DEF Renewed, Onward, Late, Gone, Dropped
  <2>2. CASE ~Renewed(r)
    BY <1>1, <1>3, <2>2 DEF Moves, SamePaper, Onward, Late, Gone, Dropped
  <2> QED
    BY <2>1, <2>2
<1>4. ASSUME NEW r \in Rsvps, stage[r] = "live", stage'[r] \in Paid, SamePaper(r)
      PROVE  Onward(r)
  BY <1>1, <1>4 DEF SamePaper, Onward, Late, Gone, Dropped, Paid
<1>5. CASE UNCHANGED <<event, rsvpVars, allocVars>>
  BY <1>2, <1>5 DEF rsvpVars, allocVars, Untouched, SamePaper
<1>6. CASE \E e \in Events : EventMoves(e)
  BY <1>2, <1>6 DEF rsvpVars, allocVars, Untouched, SamePaper, EventMoves
<1>7. ASSUME NEW a \in Allocs, AllocMoves(a)
      PROVE  /\ \A r \in Rsvps : Untouched(r)
             /\ \A b \in Allocs : /\ astate[b] # "none" => astate'[b] # "none" /\ spec'[b] = spec[b]
                                  /\ astate[b] \notin {"none", "locked"} => astate'[b] = astate[b]
                                  /\ astate'[b] = "locked" => astate[b] \in {"none", "locked"}
  BY <1>7 DEF rsvpVars, Untouched, SamePaper, AllocMoves
<1>8. ASSUME NEW r \in Rsvps, RsvpMoves(r)
      PROVE  /\ \A p \in Rsvps : Onward(p)
             /\ \A b \in Allocs : /\ astate[b] # "none" => astate'[b] # "none" /\ spec'[b] = spec[b]
                                  /\ astate[b] \notin {"none", "locked"} => astate'[b] = astate[b]
                                  /\ astate'[b] = "locked" => astate[b] \in {"none", "locked"}
  BY <1>2, <1>3, <1>8 DEF RsvpMoves, Active, TypeOK
<1>9. ASSUME NEW S \in SUBSET Rsvps, Closes(S)
      PROVE  /\ \A p \in Rsvps : Onward(p)
             /\ \A b \in Allocs : /\ astate[b] # "none" => astate'[b] # "none" /\ spec'[b] = spec[b]
                                  /\ astate[b] \notin {"none", "locked"} => astate'[b] = astate[b]
                                  /\ astate'[b] = "locked" => astate[b] \in {"none", "locked"}
  <2>1. \A b \in Allocs : astate'[b] = astate[b] \/ (astate[b] = "locked" /\ astate'[b] \in Paid)
    BY <1>9 DEF Closes, Active
  <2>2. \A p \in Rsvps : Onward(p)
    BY <1>2, <1>4, <1>9 DEF Closes
  <2> QED
    BY <1>9, <2>1, <2>2 DEF Closes, Paid
<1> QED
  BY <1>2, <1>5, <1>6, <1>7, <1>8, <1>9, LedgerMoves

(* What the create of an RSVP says of r, whose contract it was. *)
RsvpSays(c, r) ==
    /\ c.slot = SlotOf(r) /\ c.cid[1] = r
    /\ stage[r] \in Late
    /\ c.cid[2] <= ver[r]
    /\ c.cid[2] = ver[r] => c = RsvpOf(r)
    /\ c.cid[2] = 0 => c.alloc = None /\ ~c.checkedIn /\ ~c.withdrawn
    /\ c.cid[2] # 0 => c.withdrawn \/ c.alloc # None
    /\ c.checkedIn => ~c.withdrawn
    /\ c.alloc # None => astate[c.alloc] # "none" /\ spec[c.alloc].slot = c.slot

InviteSays(c) == c = InviteOf(c.cid) /\ stage[c.cid] # "none"

Says(c) ==
    /\ c.kind = "invite" => InviteSays(c)
    /\ c.kind = "rsvp" => RsvpSays(c, c.cid[1])

(* What the archive of a contract says besides. *)
EndSays(c) ==
    /\ c.kind = "invite" => stage[c.cid] \notin {"none", "invited"}
    /\ c.kind = "rsvp" /\ c.cid[2] = ver[c.cid[1]] => stage[c.cid[1]] \in Gone
    /\ c.kind = "alloc" => astate[c.cid] \notin {"none", "locked"}

Honest(u) ==
    /\ \A c \in u.created : Says(c)
    /\ \A c \in u.archived : Says(c) /\ EndSays(c)

(* And what its exercises say of the RSVPs that it archives. *)
TellsEnds(u) ==
    \A c \in u.archived : c.kind = "rsvp" /\ IsSettled(u, c.cid) =>
        stage[c.cid[1]] \in Paid /\ c.cid[2] = ver[c.cid[1]]

LEMMA RsvpOfSays ==
    ASSUME LedgerOK, NEW r \in Rsvps, stage[r] \in Late
    PROVE  RsvpSays(RsvpOf(r), r)
<1>1. ver[r] \in Nat /\ Born(r)
  BY DEF LedgerOK, BaseOK, TypeOK
<1>2. allocOf[r] # NoAlloc =>
        allocOf[r] \in Allocs /\ astate[allocOf[r]] # "none" /\ spec[allocOf[r]].slot = SlotOf(r)
  BY DEF LedgerOK, BaseOK, TypeOK, Books, RecordedExists, OwnStakeOnly, MatchesLeg, SlotOf
<1>3. r \in checkedIn => r \notin withdrawn
  BY DEF LedgerOK, CheckedInHoldsStake
<1>4. allocOf[r] \in Allocs => allocOf[r] # None
  BY ReadModelConstants
<1> DEFINE c == RsvpOf(r)
<1>5. /\ c.slot = SlotOf(r) /\ c.cid[1] = r /\ c.cid[2] = ver[r]
      /\ c.alloc = IF allocOf[r] = NoAlloc THEN None ELSE allocOf[r]
      /\ c.checkedIn = (r \in checkedIn) /\ c.withdrawn = (r \in withdrawn)
  BY DEF RsvpOf
<1>6. c = RsvpOf(r)
  OBVIOUS
<1> HIDE DEF c
<1>7. /\ c.cid[2] = 0 => c.alloc = None /\ ~c.checkedIn /\ ~c.withdrawn
      /\ c.cid[2] # 0 => c.withdrawn \/ c.alloc # None
      /\ c.checkedIn => ~c.withdrawn
      /\ c.alloc # None => astate[c.alloc] # "none" /\ spec[c.alloc].slot = c.slot
  BY <1>1, <1>2, <1>3, <1>4, <1>5 DEF Born, LedgerOK, BaseOK, TypeOK
<1>8. RsvpSays(c, r)
  BY <1>1, <1>5, <1>6, <1>7 DEF RsvpSays
<1> QED
  BY <1>8 DEF c

LEMMA SaysKept ==
    ASSUME LedgerOK, [Next]_vars, NEW c \in Paper, Says(c)
    PROVE  Says(c)'
<1>1. TypeOK
  BY DEF LedgerOK, BaseOK
<1>2. ASSUME c.kind = "rsvp" PROVE RsvpSays(c, c.cid[1])'
  <2> DEFINE r == c.cid[1]
  <2>1. r \in Rsvps /\ c.cid[2] \in Nat /\ c.alloc \in Allocs \cup {None}
    BY <1>2, PaperKinds DEF RsvpPapers, RsvpCids
  <2>2. RsvpSays(c, r)
    BY <1>2 DEF Says
  <2>3. Onward(r)
    BY <1>1, <2>1, Forward
  <2>4. c.alloc # None => astate'[c.alloc] # "none" /\ spec'[c.alloc] = spec[c.alloc]
    BY <1>1, <2>1, <2>2, Forward DEF RsvpSays
  <2>5. c.cid[2] <= ver'[r] /\ stage'[r] \in Late
    BY <2>1, <2>2, <2>3 DEF RsvpSays, Onward
  <2>6. c.cid[2] = ver'[r] => c = RsvpOf(r)'
    <3>1. SUFFICES ASSUME c.cid[2] = ver'[r] PROVE c = RsvpOf(r)'
      OBVIOUS
    <3>2. ver'[r] = ver[r]
      BY <2>1, <2>2, <2>3, <3>1 DEF RsvpSays, Onward
    <3>3. SamePaper(r)
      BY <2>3, <3>2 DEF Onward
    <3> QED
      BY <2>2, <3>1, <3>2, <3>3 DEF RsvpSays, RsvpOf, SamePaper, SlotOf
  <2> QED
    BY <2>2, <2>4, <2>5, <2>6 DEF RsvpSays, SlotOf
<1>3. ASSUME c.kind = "invite" PROVE InviteSays(c)'
  <2>1. c.cid \in Rsvps /\ InviteSays(c)
    BY <1>3, PaperKinds DEF InvitePapers, Says
  <2>2. Onward(c.cid)
    BY <1>1, <2>1, Forward
  <2> QED
    BY <2>1, <2>2 DEF Onward, InviteSays, InviteOf, SlotOf
<1> QED
  BY <1>2, <1>3 DEF Says

LEMMA EndKept ==
    ASSUME LedgerOK, [Next]_vars, NEW c \in Paper, Says(c), EndSays(c)
    PROVE  EndSays(c)'
<1>1. TypeOK
  BY DEF LedgerOK, BaseOK
<1>2. ASSUME c.kind = "rsvp" PROVE c.cid[2] = ver'[c.cid[1]] => stage'[c.cid[1]] \in Gone
  <2>1. c.cid[1] \in Rsvps /\ c.cid[2] \in Nat
    BY <1>2, PaperKinds DEF RsvpPapers, RsvpCids
  <2>2. RsvpSays(c, c.cid[1]) /\ Onward(c.cid[1])
    BY <1>1, <1>2, <2>1, Forward DEF Says
  <2> QED
    BY <1>2, <2>1, <2>2 DEF RsvpSays, Onward, EndSays, Untouched
<1>3. ASSUME c.kind = "invite" PROVE stage'[c.cid] \notin {"none", "invited"}
  <2>1. c.cid \in Rsvps
    BY <1>3, PaperKinds DEF InvitePapers
  <2> QED
    BY <1>1, <1>3, <2>1, Forward DEF Onward, EndSays
<1>4. ASSUME c.kind = "alloc" PROVE astate'[c.cid] \notin {"none", "locked"}
  <2>1. c.cid \in Allocs
    BY <1>4, PaperKinds DEF AllocPapers
  <2> QED
    BY <1>1, <1>4, <2>1, Forward DEF EndSays
<1> QED
  BY <1>2, <1>3, <1>4 DEF EndSays

LEMMA HonestKept ==
    ASSUME LedgerOK, [Next]_vars, NEW u \in Update
    PROVE  /\ Honest(u) => Honest(u)'
           /\ Honest(u) /\ TellsEnds(u) => TellsEnds(u)'
<1>1. u.created \subseteq Paper /\ u.archived \subseteq Paper
  BY DEF Update
<1>2. Honest(u) => Honest(u)'
  BY <1>1, SaysKept, EndKept DEF Honest
<1>3. ASSUME Honest(u), TellsEnds(u), NEW c \in u.archived, c.kind = "rsvp", IsSettled(u, c.cid)
      PROVE  stage'[c.cid[1]] \in Paid /\ c.cid[2] = ver'[c.cid[1]]
  <2>1. c.cid[1] \in Rsvps
    BY <1>1, <1>3, PaperKinds DEF RsvpPapers, RsvpCids
  <2>2. stage[c.cid[1]] \in Paid /\ c.cid[2] = ver[c.cid[1]]
    BY <1>3 DEF TellsEnds
  <2>3. Untouched(c.cid[1])
    BY <2>1, <2>2, Forward DEF Onward, Gone, Paid, LedgerOK, BaseOK
  <2> QED
    BY <2>2, <2>3 DEF Untouched, SamePaper
<1> QED
  BY <1>2, <1>3 DEF TellsEnds, IsSettled

LEMMA RsvpsSay == LedgerOK => \A r \in Rsvps : stage[r] \in Late => RsvpSays(RsvpOf(r), r)
  BY RsvpOfSays

LEMMA RsvpsSayNext ==
    LedgerOK' => (\A r \in Rsvps : stage[r] \in Late => RsvpSays(RsvpOf(r), r))'
  BY RsvpsSay, PTL

LEMMA ClosingStep ==
    ASSUME TypeOK, [Next]_vars, NEW r \in Rsvps, SettledNow(r)
    PROVE  \E S \in SUBSET Rsvps : Closes(S)
<1>1. stage[r] = "live" /\ stage'[r] \in Paid
  BY DEF SettledNow, Paid
<1>2. ~Untouched(r) /\ ~Moves(r)
  BY <1>1 DEF Untouched, Moves, Renewed, Paid, Dropped
<1> QED
  BY <1>2, LedgerMoves DEF EventMoves, AllocMoves, RsvpMoves, rsvpVars, Untouched, SamePaper

(* What a contract that is there says is true. *)
LEMMA ThereSays == LedgerOK => \A c \in Contracts : Says(c)
<1> SUFFICES ASSUME LedgerOK, NEW c \in Contracts PROVE Says(c)
  OBVIOUS
<1>1. ContractFacts
  BY ContractsAre DEF LedgerOK
<1>2. ASSUME c.kind = "invite" PROVE InviteSays(c)
  <2>1. PICK r \in Rsvps : c \in Face(r)
    BY <1>1, <1>2 DEF ContractFacts
  <2> QED
    BY <1>2, <2>1, FaceIs DEF InviteSays
<1>3. ASSUME c.kind = "rsvp" PROVE RsvpSays(c, c.cid[1])
  <2>1. PICK r \in Rsvps : c \in Face(r)
    BY <1>1, <1>3 DEF ContractFacts
  <2>2. c = RsvpOf(r) /\ c.cid[1] = r /\ stage[r] \in Late
    BY <1>3, <2>1, FaceIs DEF Late
  <2>3. RsvpSays(RsvpOf(r), r)
    BY <2>2, RsvpOfSays
  <2> QED
    BY <2>2, <2>3
<1> QED
  BY <1>2, <1>3 DEF Says

LEMMA ThereSaysNext == LedgerOK' => (\A c \in Contracts : Says(c))'
  BY ThereSays, PTL

(* What is archived has ended, or goes on under another contract id. *)
LEMMA GoneSays ==
    ASSUME LedgerOK, LedgerOK', [Next]_vars, NEW c \in Contracts, c \notin Contracts'
    PROVE  EndSays(c)'
<1>1. ContractFacts /\ ContractFacts'
  BY ContractsAre, ContractsNext DEF LedgerOK
<1>2. TypeOK
  BY DEF LedgerOK, BaseOK
<1>3. ASSUME c.kind = "invite" PROVE stage'[c.cid] \notin {"none", "invited"}
  <2>1. PICK r \in Rsvps : c \in Face(r)
    BY <1>1, <1>3 DEF ContractFacts
  <2>2. c = InviteOf(r) /\ c.cid = r /\ stage[r] = "invited"
    BY <1>3, <2>1, FaceIs
  <2>3. stage'[r] # "invited"
    <3>1. SUFFICES ASSUME stage'[r] = "invited" PROVE FALSE
      OBVIOUS
    <3>2. c \in Face(r)'
      BY <2>2, <3>1 DEF Face, InviteOf, SlotOf
    <3> QED
      BY <1>1, <3>2 DEF ContractFacts
  <2> QED
    BY <1>2, <2>2, <2>3, Forward DEF Onward
<1>4. ASSUME c.kind = "rsvp", c.cid[2] = ver'[c.cid[1]] PROVE stage'[c.cid[1]] \in Gone
  <2>1. PICK r \in Rsvps : c \in Face(r)
    BY <1>1, <1>4 DEF ContractFacts
  <2>2. c = RsvpOf(r) /\ c.cid[1] = r /\ c.cid[2] = ver[r] /\ stage[r] = "live"
    BY <1>4, <2>1, FaceIs
  <2>3. Onward(r) /\ ver'[r] = ver[r]
    BY <1>2, <1>4, <2>2, Forward
  <2>4. stage'[r] # "live"
    <3>1. SUFFICES ASSUME stage'[r] = "live" PROVE FALSE
      OBVIOUS
    <3>2. c \in Face(r)'
      BY <2>2, <2>3, <3>1 DEF Face, RsvpOf, SlotOf, Onward, SamePaper
    <3> QED
      BY <1>1, <3>2 DEF ContractFacts
  <2> QED
    BY <2>2, <2>3, <2>4 DEF Onward, Late
<1>5. ASSUME c.kind = "alloc" PROVE astate'[c.cid] \notin {"none", "locked"}
  <2>1. PICK a \in Allocs : Active(a) /\ c = AllocPaper(a)
    BY <1>1, <1>5 DEF ContractFacts
  <2>2. ~Active(a)'
    BY <1>1, <2>1 DEF ContractFacts, AllocPaper
  <2> QED
    BY <1>2, <2>1, <2>2, Forward DEF Active, AllocPaper
<1> QED
  BY <1>3, <1>4, <1>5 DEF EndSays

LEMMA HonestNew ==
    ASSUME LedgerOK, LedgerOK', [Next]_vars, NEW u \in Update, u = Transaction
    PROVE  Honest(u)' /\ TellsEnds(u)'
<1>1. u.created = Created /\ u.archived = Archived
  BY DEF Transaction
<1>2. BaseOK /\ BaseOK'
  BY DEF LedgerOK
<1>3. ASSUME NEW c \in u.created PROVE Says(c)'
  BY <1>1, <1>2, <1>3, TellsNew, ThereSaysNext
<1>4. ASSUME NEW c \in u.archived PROVE Says(c)' /\ EndSays(c)'
  <2>1. c \in Contracts /\ c \notin Contracts' /\ c \in Paper
    BY <1>1, <1>2, <1>4, TellsNew
  <2>2. Says(c)
    BY <2>1, ThereSays
  <2> QED
    BY <2>1, <2>2, SaysKept, GoneSays
<1>5. ASSUME NEW c \in u.archived, c.kind = "rsvp", IsSettled(u, c.cid)
      PROVE  stage'[c.cid[1]] \in Paid /\ c.cid[2] = ver'[c.cid[1]]
  <2>1. PICK r \in Rsvps : c \in Face(r) /\ c \notin Face(r)'
    BY <1>1, <1>2, <1>5, FaceTells
  <2>2. c.cid[1] = r /\ c.cid[2] = ver[r]
    BY <1>5, <2>1, FaceIs
  <2>3. \E q \in Rsvps : SettledNow(q)
    BY <1>5 DEF IsSettled, Transaction
  <2>4. PICK S \in SUBSET Rsvps : Closes(S)
    BY <1>2, <2>3, ClosingStep DEF BaseOK
  <2>5. r \in S
    BY <2>1, <2>4, FaceStays DEF Closes
  <2> QED
    BY <2>2, <2>4, <2>5 DEF Closes, SamePaper
<1> QED
  BY <1>3, <1>4, <1>5 DEF Honest, TellsEnds, IsSettled

-------------------------------------------------------------------------------
(* What a row says was true once *)

RowSays(row, s) ==
    row # NoRow =>
        /\ row.invite # None => SlotOf(row.invite) = s
        /\ row.rsvp # None =>
              /\ SlotOf(row.rsvp[1]) = s
              /\ stage[row.rsvp[1]] \in Late
              /\ row.rsvp[2] <= ver[row.rsvp[1]]
              /\ row.rsvp[2] = ver[row.rsvp[1]] =>
                    row.checkedIn = (row.rsvp[1] \in checkedIn)
        /\ row.alloc # None => astate[row.alloc] # "none" /\ spec[row.alloc].slot = s

(* A row that says "settled" is of a slot with a settled RSVP.  It tells by  *)
(* the check-in how, unless it is back at an RSVP without a stake.           *)
Verdicts(row, s) ==
    row # NoRow /\ row.status = "settled" =>
        /\ Settled(s, "refunded") \/ Settled(s, "slashed")
        /\ row.checkedIn => Settled(s, "refunded")
        /\ ~row.checkedIn => Settled(s, "slashed") \/ row.rsvp \in Rsvps \X {0}

LEMMA SettledStays ==
    ASSUME TypeOK, [Next]_vars, NEW s, NEW how \in Paid, Settled(s, how)
    PROVE  Settled(s, how)'
<1>1. PICK r \in Rsvps : SlotOf(r) = s /\ stage[r] = how
  BY DEF Settled
<1>2. stage'[r] = how
  BY <1>1, Forward DEF Onward, Untouched, Gone, Paid
<1> QED
  BY <1>1, <1>2 DEF Settled, SlotOf

LEMMA RowSaysKept ==
    ASSUME LedgerOK, [Next]_vars, NEW s, NEW row \in Row \cup {NoRow}
    PROVE  /\ RowSays(row, s) => RowSays(row, s)'
           /\ Verdicts(row, s) => Verdicts(row, s)'
<1>1. TypeOK
  BY DEF LedgerOK, BaseOK
<1>2. ASSUME RowSays(row, s), row # NoRow PROVE RowSays(row, s)'
  <2>1. row.rsvp # None => row.rsvp[1] \in Rsvps /\ row.rsvp[2] \in Nat
    BY <1>2 DEF Row, RsvpCids
  <2>2. row.alloc # None => row.alloc \in Allocs
    BY <1>2 DEF Row
  <2>3. row.rsvp # None =>
              /\ stage'[row.rsvp[1]] \in Late
              /\ row.rsvp[2] <= ver'[row.rsvp[1]]
              /\ row.rsvp[2] = ver'[row.rsvp[1]] =>
                    row.checkedIn = (row.rsvp[1] \in checkedIn')
    <3>1. SUFFICES ASSUME row.rsvp # None
                   PROVE  /\ stage'[row.rsvp[1]] \in Late
                          /\ row.rsvp[2] <= ver'[row.rsvp[1]]
                          /\ row.rsvp[2] = ver'[row.rsvp[1]] =>
                                row.checkedIn = (row.rsvp[1] \in checkedIn')
      OBVIOUS
    <3>2. Onward(row.rsvp[1])
      BY <1>1, <2>1, <3>1, Forward
    <3>3. row.checkedIn \in BOOLEAN
      BY <1>2 DEF Row
    <3> QED
      BY <1>2, <2>1, <3>1, <3>2, <3>3 DEF RowSays, Onward, SamePaper
  <2>4. row.alloc # None => astate'[row.alloc] # "none" /\ spec'[row.alloc] = spec[row.alloc]
    BY <1>1, <1>2, <2>2, Forward DEF RowSays
  <2> QED
    BY <1>2, <2>3, <2>4 DEF RowSays, SlotOf
<1>3. ASSUME NEW how \in Paid, Settled(s, how) PROVE Settled(s, how)'
  BY <1>1, <1>3, SettledStays
<1>4. /\ Settled(s, "refunded") => Settled(s, "refunded")'
      /\ Settled(s, "slashed") => Settled(s, "slashed")'
  BY <1>3 DEF Paid
<1> QED
  BY <1>2, <1>4 DEF RowSays, Verdicts

(* The handlers keep it, if the update is honest. *)
LEMMA RowSaysHandled ==
    ASSUME LedgerOK, NEW u \in Update, Honest(u), NEW s \in Slots,
           NEW row \in Row \cup {NoRow}, RowSays(row, s)
    PROVE  RowSays(HandleRsvp(row, s, u), s)
<1> DEFINE row2 == HandleRsvp(row, s, u)
           I == TheInvite(u, s)
           C == TheRsvp(u, s)
<1> HIDE DEF row2, I, C
<1>1. SUFFICES ASSUME row2 # NoRow PROVE RowSays(row2, s)
  BY DEF RowSays, row2
<1>2. NewRow(row2, row, s, u)
  BY <1>1, HandledIs DEF row2
<1>3. Base(row) \in Row /\ RowSays(Base(row), s)
  BY BlankTyped DEF Base, BlankRow, RowSays
<1>4. CreatedFor(u, "invite", s) # {} => I.cid \in Rsvps /\ SlotOf(I.cid) = s
  <2>1. SUFFICES ASSUME CreatedFor(u, "invite", s) # {} PROVE I.cid \in Rsvps /\ SlotOf(I.cid) = s
    OBVIOUS
  <2>2. I \in CreatedFor(u, "invite", s) /\ I \in InvitePapers
    BY <2>1, CreatesTyped DEF I
  <2>3. I \in u.created /\ I.kind = "invite" /\ I.slot = s
    BY <2>2 DEF CreatedFor
  <2>4. I.cid \in Rsvps /\ I = InviteOf(I.cid)
    BY <2>2, <2>3 DEF InvitePapers, Honest, Says, InviteSays
  <2>5. I.slot = SlotOf(I.cid)
    BY <2>4 DEF InviteOf
  <2> QED
    BY <2>3, <2>4, <2>5
<1>5. ASSUME CreatedFor(u, "rsvp", s) # {}
      PROVE  /\ C \in RsvpPapers /\ C.slot = s /\ RsvpSays(C, C.cid[1])
  BY <1>5, CreatesTyped DEF C, CreatedFor, Honest, Says
<1>6. row2.invite # None => SlotOf(row2.invite) = s
  BY <1>1, <1>2, <1>3, <1>4, ReadModelConstants DEF NewRow, NewInvite, RowSays, Row, I
<1>7. CASE CreatedFor(u, "rsvp", s) = {}
  <2>1. /\ row2.rsvp = Base(row).rsvp /\ row2.alloc = Base(row).alloc
        /\ row2.checkedIn = Base(row).checkedIn
    BY <1>2, <1>7 DEF NewRow
  <2>2. Base(row) # NoRow
    BY <1>3, ReadModelConstants
  <2> QED
    BY <1>3, <1>6, <2>1, <2>2 DEF RowSays
<1>8. CASE CreatedFor(u, "rsvp", s) # {}
  <2>1. /\ row2.rsvp = C.cid /\ row2.alloc = (IF C.withdrawn THEN None ELSE C.alloc)
        /\ row2.checkedIn = (C.checkedIn /\ ~C.withdrawn)
    BY <1>2, <1>8 DEF NewRow, C
  <2>2. C \in RsvpPapers /\ C.slot = s /\ RsvpSays(C, C.cid[1])
    BY <1>5, <1>8
  <2>3. C.cid[1] \in Rsvps /\ C.checkedIn \in BOOLEAN /\ C.withdrawn \in BOOLEAN
    BY <2>2 DEF RsvpPapers, RsvpCids
  <2>4. C.cid[2] = ver[C.cid[1]] => C.checkedIn = (C.cid[1] \in checkedIn)
    BY <2>2 DEF RsvpSays, RsvpOf
  <2>5. row2.checkedIn = C.checkedIn
    BY <2>1, <2>2, <2>3 DEF RsvpSays
  <2>6. row2.rsvp # None =>
              /\ SlotOf(row2.rsvp[1]) = s
              /\ stage[row2.rsvp[1]] \in Late
              /\ row2.rsvp[2] <= ver[row2.rsvp[1]]
              /\ row2.rsvp[2] = ver[row2.rsvp[1]] =>
                    row2.checkedIn = (row2.rsvp[1] \in checkedIn)
    BY <2>1, <2>2, <2>4, <2>5 DEF RsvpSays
  <2>7. row2.alloc # None => astate[row2.alloc] # "none" /\ spec[row2.alloc].slot = s
    BY <2>1, <2>2 DEF RsvpSays
  <2> QED
    BY <1>6, <2>6, <2>7 DEF RowSays
<1> QED
  BY <1>7, <1>8

LEMMA VerdictsHandled ==
    ASSUME LedgerOK, NEW u \in Update, Honest(u), TellsEnds(u), NEW s \in Slots,
           NEW row \in Row \cup {NoRow}, RowSays(row, s), Verdicts(row, s)
    PROVE  Verdicts(HandleRsvp(row, s, u), s)
<1> DEFINE row2 == HandleRsvp(row, s, u)
           C == TheRsvp(u, s)
<1> HIDE DEF row2, C
<1>1. SUFFICES ASSUME row2 # NoRow, row2.status = "settled" PROVE Verdicts(row2, s)
  BY DEF Verdicts, row2
<1>2. NewRow(row2, row, s, u)
  BY <1>1, HandledIs DEF row2
<1>3. Base(row) \in Row /\ Verdicts(Base(row), s) /\ Base(row) # NoRow
  BY BlankTyped, ReadModelConstants DEF Base, BlankRow, Verdicts
<1>4. row2.status = NewStatus(row, s, u)
  BY <1>2 DEF NewRow
<1>5. CASE CreatedFor(u, "rsvp", s) # {}
  <2>1. C \in RsvpPapers /\ RsvpSays(C, C.cid[1])
    BY <1>5, CreatesTyped DEF C, CreatedFor, Honest, Says
  <2>2. RsvpStatus(Base(row), C) = "settled"
    BY <1>1, <1>4, <1>5 DEF NewStatus, C
  <2>3. ~C.withdrawn /\ C.alloc = None /\ ~C.checkedIn /\ Base(row).status = "settled"
    <3>1. C.withdrawn \in BOOLEAN /\ C.checkedIn \in BOOLEAN
      BY <2>1 DEF RsvpPapers
    <3> QED
      BY <2>2, <3>1 DEF RsvpStatus
  <2>4. C.cid \in Rsvps \X {0}
    BY <2>1, <2>3 DEF RsvpSays, RsvpPapers, RsvpCids
  <2>5. row2.rsvp = C.cid /\ ~row2.checkedIn
    BY <1>2, <1>5, <2>3 DEF NewRow, C
  <2> QED
    BY <1>3, <2>3, <2>4, <2>5 DEF Verdicts
<1>6. CASE CreatedFor(u, "rsvp", s) = {} /\ RsvpEnds(row, u)
  <2>1. row # NoRow /\ IsSettled(u, row.rsvp)
    BY <1>1, <1>4, <1>6 DEF NewStatus, RsvpEnds
  <2>2. PICK c \in u.archived : c.kind = "rsvp" /\ c.cid = row.rsvp
    BY <1>6 DEF RsvpEnds, Archives
  <2>3. c.cid \in RsvpCids
    BY <2>2, PaperKinds DEF Update, RsvpPapers
  <2>4. row.rsvp # None
    BY <2>2, <2>3, ReadModelConstants
  <2>5. stage[row.rsvp[1]] \in Paid /\ row.rsvp[2] = ver[row.rsvp[1]] /\ row.rsvp[1] \in Rsvps
    BY <2>1, <2>2, <2>3 DEF TellsEnds, RsvpCids
  <2>6. SlotOf(row.rsvp[1]) = s /\ row.checkedIn = (row.rsvp[1] \in checkedIn)
    BY <2>1, <2>4, <2>5 DEF RowSays
  <2>7. IF row.checkedIn THEN Settled(s, "refunded") ELSE Settled(s, "slashed")
    BY <2>5, <2>6 DEF Settled, Paid, LedgerOK, Books, StakeAccounted
  <2>8. row2.checkedIn = row.checkedIn
    BY <1>2, <1>6, <2>1 DEF NewRow, Base
  <2> QED
    BY <2>7, <2>8 DEF Verdicts
<1>7. CASE CreatedFor(u, "rsvp", s) = {} /\ ~RsvpEnds(row, u)
  <2>1. Base(row).status = "settled"
    BY <1>1, <1>4, <1>7 DEF NewStatus
  <2>2. row2.checkedIn = Base(row).checkedIn /\ row2.rsvp = Base(row).rsvp
    BY <1>2, <1>7 DEF NewRow
  <2> QED
    BY <1>3, <2>1, <2>2 DEF Verdicts
<1> QED
  BY <1>5, <1>6, <1>7

-------------------------------------------------------------------------------
(* Events *)

Opened == {"open", "ended", "settled"}

EventSays(c) ==
    c.kind = "event" => event[c.event] \in Opened /\ (c.cid = "ended" => event[c.event] # "open")

(* An event that is archived for good is settled. *)
EventEnds(u) ==
    \A c \in u.archived : c.kind = "event" /\ NewEvent(u, c.event) = {} => event[c.event] = "settled"

EventsHonest(u) == (\A c \in u.created : EventSays(c)) /\ EventEnds(u)

EventRowSays(row, e) ==
    row # NoRow => event[e] \in Opened /\ (row.status = "settled" => event[e] = "settled")

LEMMA EventForward ==
    ASSUME TypeOK, [Next]_vars, NEW e \in Events
    PROVE  \/ event'[e] = event[e]
           \/ event[e] = "proposed" /\ event'[e] \in {"open", "cancelled"}
           \/ event[e] = "open" /\ event'[e] = "ended"
           \/ event[e] \in {"open", "ended"} /\ event'[e] = "settled"
  BY LedgerMoves DEF EventMoves, AllocMoves, RsvpMoves, Closes, eventVars

LEMMA EventsHonestKept ==
    ASSUME TypeOK, [Next]_vars, NEW u \in Update, EventsHonest(u)
    PROVE  EventsHonest(u)'
<1>1. \A c \in u.created \cup u.archived : c.kind = "event" => c.event \in Events
  BY PaperKinds DEF Update, EventPapers
<1>2. ASSUME NEW c \in u.created PROVE EventSays(c)'
  BY <1>1, EventForward DEF EventsHonest, EventSays, Opened
<1>3. ASSUME NEW c \in u.archived, c.kind = "event", NewEvent(u, c.event) = {}
      PROVE  event'[c.event] = "settled"
  BY <1>1, <1>3, EventForward DEF EventsHonest, EventEnds
<1> QED
  BY <1>2, <1>3 DEF EventsHonest, EventEnds, NewEvent

LEMMA EventsHonestNew ==
    ASSUME BaseOK, BaseOK', [Next]_vars, NEW u \in Update, u = Transaction
    PROVE  EventsHonest(u)'
<1>1. u.created = Created /\ u.archived = Archived
  BY DEF Transaction
<1>2. ContractFacts /\ ContractFacts' /\ TypeOK
  BY ContractsAre, ContractsNext DEF BaseOK
<1>3. ASSUME NEW c \in u.created, c.kind = "event"
      PROVE  event'[c.event] \in Opened /\ (c.cid = "ended" => event'[c.event] # "open")
  <2>1. PICK e \in Events : c \in EventFace(e)'
    BY <1>1, <1>2, <1>3, TellsNew DEF ContractFacts
  <2>2. c.event = e /\ c.cid = event'[e] /\ event'[e] \in {"open", "ended"}
    BY <2>1 DEF EventFace, EventPaper, EventLive
  <2> QED
    BY <2>2 DEF Opened
<1>4. ASSUME NEW c \in u.archived, c.kind = "event", NewEvent(u, c.event) = {}
      PROVE  event'[c.event] = "settled"
  <2>1. PICK e \in Events : c \in EventFace(e) /\ c \notin Contracts'
    BY <1>1, <1>2, <1>4, TellsNew DEF ContractFacts
  <2>2. c.event = e /\ c = EventPaper(e, event[e]) /\ event[e] \in {"open", "ended"}
    BY <2>1 DEF EventFace, EventPaper, EventLive
  <2>3. event'[e] \notin {"open", "ended"}
    <3>1. SUFFICES ASSUME event'[e] \in {"open", "ended"} PROVE FALSE
      OBVIOUS
    <3> DEFINE d == EventPaper(e, event'[e])
    <3>2. d \in Contracts' /\ d.kind = "event" /\ d.event = e
      BY <1>2, <3>1 DEF ContractFacts, EventFace, EventPaper, EventLive
    <3>3. d \notin Contracts
      <4>1. SUFFICES ASSUME d \in Contracts PROVE FALSE
        OBVIOUS
      <4>2. PICK f \in Events : d \in EventFace(f)
        BY <1>2, <3>2, <4>1 DEF ContractFacts
      <4>3. d = c
        BY <2>2, <3>2, <4>2 DEF EventFace, EventPaper
      <4> QED
        BY <2>1, <3>2, <4>3
    <3>4. d \in NewEvent(u, e)
      BY <1>1, <3>2, <3>3, TellsNew DEF NewEvent
    <3> QED
      BY <1>4, <2>2, <3>4
  <2> QED
    BY <1>2, <2>2, <2>3, EventForward
<1> QED
  BY <1>3, <1>4 DEF EventsHonest, EventEnds, EventSays, NewEvent

LEMMA EventRowKept ==
    ASSUME TypeOK, [Next]_vars, NEW e \in Events, NEW row, EventRowSays(row, e)
    PROVE  EventRowSays(row, e)'
  BY EventForward DEF EventRowSays, Opened

LEMMA EventRowHandled ==
    ASSUME NEW u \in Update, NEW e \in Events, NEW row \in EventRow \cup {NoRow}
    PROVE  /\ HandleEvent(row, e, u) \in EventRow \cup {NoRow}
           /\ EventsHonest(u) /\ EventRowSays(row, e) => EventRowSays(HandleEvent(row, e, u), e)
<1> DEFINE c == CHOOSE c \in NewEvent(u, e) : TRUE
           row2 == HandleEvent(row, e, u)
<1>1. CASE NewEvent(u, e) # {}
  <2>1. row2 = [cid |-> c.cid,
                status |-> IF row # NoRow /\ row.status = "settled" THEN "settled" ELSE c.cid]
    BY <1>1 DEF HandleEvent, NewEvent
  <2>2. c \in NewEvent(u, e)
    BY <1>1
  <2>3. c \in EventPapers /\ c \in u.created /\ c.event = e /\ c.kind = "event"
    BY <2>2, PaperKinds DEF NewEvent, Update
  <2>4. c.cid \in {"open", "ended"}
    BY <2>3 DEF EventPapers
  <2>5. EventsHonest(u) => event[e] \in Opened
    BY <2>3 DEF EventsHonest, EventSays
  <2> HIDE DEF c, row2
  <2>6. row2 \in EventRow /\ (row2.status = "settled" => row # NoRow /\ row.status = "settled")
    BY <2>1, <2>4 DEF EventRow
  <2> QED
    BY <2>5, <2>6 DEF EventRowSays, row2
<1>2. CASE /\ NewEvent(u, e) = {} /\ row # NoRow
           /\ \E d \in u.archived : d.kind = "event" /\ d.event = e /\ d.cid = row.cid
  <2>1. row2 = [row EXCEPT !.status = "settled"]
    BY <1>2 DEF HandleEvent, NewEvent
  <2>2. EventsHonest(u) => event[e] = "settled"
    BY <1>2 DEF EventsHonest, EventEnds
  <2>3. row2 \in EventRow
    BY <1>2, <2>1 DEF EventRow
  <2> QED
    BY <2>2, <2>3 DEF EventRowSays, Opened
<1>3. CASE /\ NewEvent(u, e) = {}
           /\ ~(/\ row # NoRow
                /\ \E d \in u.archived : d.kind = "event" /\ d.event = e /\ d.cid = row.cid)
  BY <1>3 DEF HandleEvent, NewEvent
<1> QED
  BY <1>1, <1>2, <1>3

-------------------------------------------------------------------------------
(* The invariant of the rows: what was delivered and what was written is     *)
(* well formed, and was true once.                                           *)

RowsTyped ==
    /\ eventRow \in [Events -> EventRow \cup {NoRow}]
    /\ rows \in [Slots -> Row \cup {NoRow}]
    /\ settlements \in [Slots -> {"none", "refund", "slash"}]
    /\ sweep \subseteq RsvpCids
    /\ crowded \subseteq Slots

FeedTyped ==
    /\ queue \in Seq(Update) /\ resend \in Seq(Update)
    /\ Len(resend) <= Len(queue) /\ Len(queue) <= MaxQueue
    /\ stale <= Len(resend) /\ stale \in Nat
    /\ \A k \in 1..stale : queue[k] = resend[k]

Trusty(u) == Honest(u) /\ TellsEnds(u) /\ EventsHonest(u)

FeedSays ==
    /\ \A k \in 1..Len(queue) : Trusty(queue[k])
    /\ \A k \in 1..Len(resend) : Trusty(resend[k])

RowsSay ==
    /\ \A e \in Events : EventRowSays(eventRow[e], e)
    /\ \A s \in Slots : RowSays(rows[s], s) /\ Verdicts(rows[s], s) /\ OutcomeTrue(s)

RowsOK == LedgerOK /\ RowsTyped /\ FeedTyped /\ FeedSays /\ RowsSay

LEMMA TrustyKept ==
    ASSUME LedgerOK, [Next]_vars, NEW u \in Update, Trusty(u)
    PROVE  Trusty(u)'
  BY HonestKept, EventsHonestKept DEF Trusty, LedgerOK, BaseOK

LEMMA TrustyNew ==
    ASSUME LedgerOK, LedgerOK', [Next]_vars, NEW u \in Update, u = Transaction
    PROVE  Trusty(u)'
  BY HonestNew, EventsHonestNew DEF Trusty, LedgerOK

LEMMA RowsSayKept ==
    ASSUME LedgerOK, [Next]_vars, RowsTyped, RowsSay, UNCHANGED rowVars
    PROVE  RowsSay'
<1>1. TypeOK
  BY DEF LedgerOK, BaseOK
<1>2. UNCHANGED <<eventRow, rows, settlements>>
  BY DEF rowVars
<1>3. ASSUME NEW e \in Events PROVE EventRowSays(eventRow[e], e)'
  <2>1. PICK row : row = eventRow[e]
    OBVIOUS
  <2>2. EventRowSays(row, e)'
    BY <1>1, <2>1, EventRowKept DEF RowsSay
  <2> QED
    BY <1>2, <2>1, <2>2 DEF EventRowSays
<1>4. ASSUME NEW s \in Slots
      PROVE  RowSays(rows[s], s)' /\ Verdicts(rows[s], s)' /\ OutcomeTrue(s)'
  <2>1. PICK row : row = rows[s]
    OBVIOUS
  <2>2. row \in Row \cup {NoRow} /\ RowSays(row, s) /\ Verdicts(row, s)
    BY <2>1 DEF RowsTyped, RowsSay
  <2>3. RowSays(row, s)' /\ Verdicts(row, s)'
    BY <2>2, RowSaysKept
  <2>4. RowSays(rows[s], s)'
    BY <1>2, <2>1, <2>3 DEF RowSays
  <2>5. Verdicts(rows[s], s)'
    BY <1>2, <2>1, <2>3 DEF Verdicts
  <2>6. /\ Settled(s, "refunded") => Settled(s, "refunded")'
        /\ Settled(s, "slashed") => Settled(s, "slashed")'
    BY <1>1, SettledStays DEF Paid
  <2>7. OutcomeTrue(s)'
    BY <1>2, <2>6 DEF RowsSay, OutcomeTrue
  <2> QED
    BY <2>4, <2>5, <2>7
<1> QED
  BY <1>3, <1>4 DEF RowsSay

LEMMA FeedSaysKept ==
    ASSUME LedgerOK, LedgerOK', [Next]_vars, FeedTyped, FeedSays, Publish
    PROVE  FeedTyped' /\ FeedSays'
<1>1. ASSUME NEW k \in 1..Len(queue) PROVE queue[k] \in Update /\ Trusty(queue[k])
  BY <1>1 DEF FeedTyped, FeedSays
<1>2. ASSUME NEW k \in 1..Len(resend) PROVE resend[k] \in Update /\ Trusty(resend[k])
  BY <1>2 DEF FeedTyped, FeedSays
<1>3. PICK q : q = queue
  OBVIOUS
<1>4. PICK p : p = resend
  OBVIOUS
<1>5. q \in Seq(Update) /\ p \in Seq(Update)
  BY <1>3, <1>4 DEF FeedTyped
<1>6. \A k \in 1..Len(q) : Trusty(q[k])'
  BY <1>1, <1>3, TrustyKept
<1>7. \A k \in 1..Len(p) : Trusty(p[k])'
  BY <1>2, <1>4, TrustyKept
<1>8. CASE UNCHANGED feedVars
  <2>1. queue' = q /\ resend' = p /\ stale' = stale
    BY <1>3, <1>4, <1>8 DEF feedVars
  <2>2. FeedSays'
    BY <1>6, <1>7, <2>1 DEF FeedSays
  <2> QED
    BY <1>3, <1>4, <2>1, <2>2 DEF FeedTyped
<1>9. CASE ~UNCHANGED feedVars
  <2>1. PICK u : u = Transaction
    OBVIOUS
  <2>2. /\ Len(queue) < MaxQueue
        /\ queue' = Append(q, u) /\ resend' = Append(p, u) /\ stale' = stale
    BY <1>3, <1>4, <1>9, <2>1 DEF Publish
  <2>3. u \in Update /\ Trusty(u)'
    BY <2>1, TransactionTyped, TrustyNew DEF LedgerOK
  <2>4. \A k \in 1..Len(queue') : queue'[k] = IF k \in 1..Len(q) THEN q[k] ELSE u
    BY <1>5, <2>2, <2>3
  <2>5. \A k \in 1..Len(resend') : resend'[k] = IF k \in 1..Len(p) THEN p[k] ELSE u
    BY <1>5, <2>2, <2>3
  <2>6. FeedSays'
    <3>1. \A k \in 1..Len(queue') : Trusty(queue[k])'
      BY <1>6, <2>3, <2>4
    <3>2. \A k \in 1..Len(resend') : Trusty(resend[k])'
      BY <1>7, <2>3, <2>5
    <3> QED
      BY <3>1, <3>2 DEF FeedSays
  <2>7. /\ queue' \in Seq(Update) /\ resend' \in Seq(Update)
        /\ Len(queue') = Len(q) + 1 /\ Len(resend') = Len(p) + 1
    BY <1>5, <2>2, <2>3
  <2>8. FeedTyped'
    BY <1>3, <1>4, <1>5, <2>2, <2>4, <2>5, <2>7, ReadModelConstants DEF FeedTyped
  <2> QED
    BY <2>6, <2>8
<1> QED
  BY <1>8, <1>9

(* One update is handled. *)
LEMMA RowsSayHandled ==
    ASSUME LedgerOK, RowsTyped, RowsSay, NEW u \in Update, Apply(u), UNCHANGED <<vars, sweep, crowded>>
    PROVE  RowsTyped' /\ (Trusty(u) => RowsSay')
<1>1. /\ eventRow' = [e \in Events |-> HandleEvent(eventRow[e], e, u)]
      /\ rows' = [s \in Slots |-> HandleRsvp(rows[s], s, u)]
      /\ settlements' = [s \in Slots |-> HandleSettlement(settlements[s], rows[s], s, u)]
  BY DEF Apply
<1>2. \A e \in Events : eventRow[e] \in EventRow \cup {NoRow}
  BY DEF RowsTyped
<1>3. \A s \in Slots : rows[s] \in Row \cup {NoRow} /\ settlements[s] \in {"none", "refund", "slash"}
  BY DEF RowsTyped
<1>4. \A e \in Events : HandleEvent(eventRow[e], e, u) \in EventRow \cup {NoRow}
  BY <1>2, EventRowHandled
<1>5. \A s \in Slots : HandleRsvp(rows[s], s, u) \in Row \cup {NoRow}
  BY <1>3, HandledIs DEF NewRow
<1>6. \A s \in Slots : HandleSettlement(settlements[s], rows[s], s, u) \in {"none", "refund", "slash"}
  BY <1>3 DEF HandleSettlement
<1>7. RowsTyped'
  BY <1>1, <1>4, <1>5, <1>6 DEF RowsTyped
<1>8. ASSUME Trusty(u), NEW e \in Events PROVE EventRowSays(eventRow[e], e)'
  <2>1. EventRowSays(HandleEvent(eventRow[e], e, u), e)
    BY <1>2, <1>8, EventRowHandled DEF Trusty, RowsSay
  <2>2. PICK row : row = HandleEvent(eventRow[e], e, u)
    OBVIOUS
  <2>3. eventRow'[e] = row
    BY <1>1, <2>2
  <2> QED
    BY <2>1, <2>2, <2>3 DEF EventRowSays, vars
<1>9. ASSUME Trusty(u), NEW s \in Slots
      PROVE  RowSays(rows[s], s)' /\ Verdicts(rows[s], s)' /\ OutcomeTrue(s)'
  <2>1. PICK row : row = rows[s]
    OBVIOUS
  <2>2. PICK row2 : row2 = HandleRsvp(row, s, u)
    OBVIOUS
  <2>3. rows'[s] = row2
    BY <1>1, <2>1, <2>2
  <2>4. row \in Row \cup {NoRow} /\ RowSays(row, s) /\ Verdicts(row, s)
    BY <1>3, <2>1 DEF RowsSay
  <2>5. RowSays(row2, s) /\ Verdicts(row2, s)
    BY <1>9, <2>2, <2>4, RowSaysHandled, VerdictsHandled DEF Trusty
  <2>6. RowSays(rows[s], s)'
    BY <2>3, <2>5 DEF RowSays, SlotOf, vars
  <2>7. Settled(s, "refunded")' = Settled(s, "refunded") /\ Settled(s, "slashed")' = Settled(s, "slashed")
    BY DEF Settled, SlotOf, vars
  <2>8. Verdicts(rows[s], s)'
    BY <2>3, <2>5, <2>7 DEF Verdicts
  <2>9. OutcomeTrue(s)'
    <3>1. CASE settlements'[s] = settlements[s]
      BY <2>7, <3>1 DEF OutcomeTrue, RowsSay
    <3>2. CASE settlements'[s] # settlements[s]
      <4>1. /\ row # NoRow /\ Archives(u, "rsvp", row.rsvp) /\ IsSettled(u, row.rsvp)
            /\ settlements'[s] = IF row.checkedIn THEN "refund" ELSE "slash"
        BY <1>1, <2>1, <3>2 DEF HandleSettlement
      <4>2. PICK c \in u.archived : c.kind = "rsvp" /\ c.cid = row.rsvp
        BY <4>1 DEF Archives
      <4>3. c.cid \in RsvpCids
        BY <4>2, PaperKinds DEF Update, RsvpPapers
      <4>4. row.rsvp # None
        BY <4>2, <4>3, ReadModelConstants
      <4>5. stage[row.rsvp[1]] \in Paid /\ row.rsvp[2] = ver[row.rsvp[1]] /\ row.rsvp[1] \in Rsvps
        BY <1>9, <4>1, <4>2, <4>3 DEF Trusty, TellsEnds, RsvpCids
      <4>6. SlotOf(row.rsvp[1]) = s /\ row.checkedIn = (row.rsvp[1] \in checkedIn)
        BY <2>4, <4>1, <4>4, <4>5 DEF RowSays
      <4>7. IF row.checkedIn THEN Settled(s, "refunded") ELSE Settled(s, "slashed")
        BY <4>5, <4>6 DEF Settled, Paid, LedgerOK, Books, StakeAccounted
      <4> QED
        BY <2>7, <4>1, <4>7 DEF OutcomeTrue
    <3> QED
      BY <3>1, <3>2
  <2> QED
    BY <2>6, <2>8, <2>9
<1> QED
  BY <1>7, <1>8, <1>9 DEF RowsSay

(* What a new subscription, a restart and a handled update leave to handle. *)
LEMMA QueueMoves ==
    ASSUME FeedTyped, FeedSays, UNCHANGED vars,
           \/ /\ queue # <<>> /\ queue' = Tail(queue)
              /\ IF stale > 0 THEN resend' = Tail(resend) /\ stale' = stale - 1
                              ELSE resend' = Tail(queue) /\ stale' = 0
           \/ Reconnect \/ Restart
           \/ UNCHANGED feedVars
    PROVE  FeedTyped' /\ FeedSays'
<1> DEFINE U == {u \in Update : Trusty(u)}
<1>1. PICK q : q = queue
  OBVIOUS
<1>2. PICK p : p = resend
  OBVIOUS
<1>3. q \in Seq(Update) /\ p \in Seq(Update) /\ Len(p) <= Len(q) /\ stale <= Len(p) /\ stale \in Nat
  BY <1>1, <1>2 DEF FeedTyped
<1>4. \A u : Trusty(u)' <=> Trusty(u)
  BY DEF vars, Trusty, Honest, TellsEnds, EventsHonest, EventEnds, EventSays, Says, EndSays,
         InviteSays, RsvpSays, RsvpOf, InviteOf, SlotOf, NewEvent, IsSettled
<1>5. /\ \A k \in 1..Len(q) : Trusty(q[k])
      /\ \A k \in 1..Len(p) : Trusty(p[k])
  BY <1>1, <1>2 DEF FeedSays
<1>6. ASSUME NEW q2 \in Seq(Update), NEW p2 \in Seq(Update), queue' = q2, resend' = p2,
             \A k \in 1..Len(q2) : Trusty(q2[k]), \A k \in 1..Len(p2) : Trusty(p2[k])
      PROVE  FeedSays'
  <2>1. \A k \in 1..Len(queue') : Trusty(queue[k])'
    BY <1>4, <1>6
  <2>2. \A k \in 1..Len(resend') : Trusty(resend[k])'
    BY <1>4, <1>6
  <2> QED
    BY <2>1, <2>2 DEF FeedSays
<1>7. CASE UNCHANGED feedVars
  <2>1. queue' = q /\ resend' = p /\ stale' = stale
    BY <1>1, <1>2, <1>7 DEF feedVars
  <2> QED
    BY <1>1, <1>2, <1>3, <1>5, <1>6, <2>1 DEF FeedTyped
<1>8. CASE Restart
  <2>1. queue' = p /\ resend' = p /\ stale' = 0
    BY <1>2, <1>8 DEF Restart
  <2>2. FeedSays'
    BY <1>3, <1>5, <1>6, <2>1
  <2> QED
    BY <1>1, <1>2, <1>3, <2>1, <2>2, ReadModelConstants DEF FeedTyped
<1>9. CASE Reconnect
  <2> DEFINE q2 == q \o q
  <2>1. /\ q = p /\ queue' = q2 /\ resend' = q /\ stale' = Len(q)
        /\ Len(q) + Len(q) <= MaxQueue
    BY <1>1, <1>2, <1>9 DEF Reconnect
  <2>2. q2 \in Seq(Update) /\ Repeat(q, q2)
    BY <1>3, RepeatIs
  <2> HIDE DEF q2
  <2>3. \A k \in 1..Len(q2) : k \in 1..Len(q) \/ (k - Len(q) \in 1..Len(q) /\ q2[k] = q[k - Len(q)])
    <3>1. SUFFICES ASSUME NEW k \in 1..Len(q2), k \notin 1..Len(q)
                   PROVE  k - Len(q) \in 1..Len(q) /\ q2[k] = q[k - Len(q)]
      OBVIOUS
    <3>2. k - Len(q) \in 1..Len(q) /\ k = Len(q) + (k - Len(q))
      BY <2>2, <3>1 DEF Repeat
    <3> QED
      BY <2>2, <3>2 DEF Repeat
  <2>4. \A k \in 1..Len(q2) : Trusty(q2[k])
    BY <1>5, <2>2, <2>3 DEF Repeat
  <2>5. FeedSays'
    BY <1>3, <1>5, <1>6, <2>1, <2>2, <2>4
  <2> QED
    BY <1>3, <2>1, <2>2, <2>5 DEF FeedTyped, Repeat
<1>10. ASSUME queue # <<>>, queue' = Tail(queue),
              IF stale > 0 THEN resend' = Tail(resend) /\ stale' = stale - 1
                           ELSE resend' = Tail(queue) /\ stale' = 0
       PROVE  FeedTyped' /\ FeedSays'
  <2> DEFINE q2 == Tail(q)
             p2 == IF stale > 0 THEN Tail(p) ELSE q2
  <2>1. queue' = q2 /\ resend' = p2 /\ q # <<>> /\ stale' = IF stale > 0 THEN stale - 1 ELSE 0
    BY <1>1, <1>2, <1>10
  <2>2. q2 \in Seq(Update) /\ Behead(q, q2)
    BY <1>3, <2>1, TailIs
  <2>3. stale > 0 => p # <<>> /\ Tail(p) \in Seq(Update) /\ Behead(p, Tail(p))
    <3>1. SUFFICES ASSUME stale > 0 PROVE p # <<>> /\ Tail(p) \in Seq(Update) /\ Behead(p, Tail(p))
      OBVIOUS
    <3>2. p # <<>>
      BY <1>3, <3>1
    <3> QED
      BY <1>3, <3>2, TailIs
  <2> HIDE DEF q2
  <2>4. \A k \in 1..Len(q2) : k + 1 \in 1..Len(q) /\ q2[k] = q[k+1]
    BY <1>3, <2>2 DEF Behead
  <2>5. \A k \in 1..Len(q2) : Trusty(q2[k])
    BY <1>5, <2>4
  <2>6. CASE stale > 0
    <3>1. \A k \in 1..Len(p2) : k + 1 \in 1..Len(p) /\ p2[k] = p[k+1]
      BY <1>3, <2>3, <2>6 DEF Behead
    <3>2. p2 \in Seq(Update) /\ Len(p2) = Len(p) - 1
      BY <2>3, <2>6 DEF Behead
    <3> HIDE DEF p2
    <3>3. \A k \in 1..Len(p2) : Trusty(p2[k])
      BY <1>5, <3>1
    <3>4. FeedSays'
      BY <1>6, <2>1, <2>2, <2>5, <3>2, <3>3
    <3>5. Len(p2) <= Len(q2) /\ Len(q2) <= MaxQueue /\ stale' <= Len(p2) /\ stale' \in Nat
      BY <1>1, <1>3, <2>1, <2>2, <2>6, <3>2, ReadModelConstants DEF FeedTyped, Behead
    <3>6. \A k \in 1..stale' : q2[k] = p2[k]
      <4>1. SUFFICES ASSUME NEW k \in 1..stale' PROVE q2[k] = p2[k]
        OBVIOUS
      <4>2. k + 1 \in 1..stale /\ k \in 1..Len(q2) /\ k \in 1..Len(p2)
        BY <1>3, <2>1, <2>6, <3>5
      <4> QED
        BY <1>1, <1>2, <2>4, <3>1, <4>2 DEF FeedTyped
    <3> QED
      BY <2>1, <2>2, <3>2, <3>4, <3>5, <3>6 DEF FeedTyped
  <2>7. CASE ~(stale > 0)
    <3>1. p2 = q2 /\ stale' = 0
      BY <2>1, <2>7
    <3>2. FeedSays'
      BY <1>6, <2>1, <2>2, <2>5, <3>1
    <3>3. Len(q2) <= MaxQueue /\ Len(q2) \in Nat
      BY <1>1, <1>3, <2>2, ReadModelConstants DEF FeedTyped, Behead
    <3> HIDE DEF p2
    <3>4. queue' = q2 /\ resend' = q2 /\ stale' = 0
      BY <2>1, <3>1
    <3>5. 1..0 = {}
      OBVIOUS
    <3>6. FeedTyped'
      BY <2>2, <3>3, <3>4, <3>5 DEF FeedTyped
    <3> QED
      BY <3>2, <3>6
  <2> QED
    BY <2>6, <2>7
<1> QED
  BY <1>7, <1>8, <1>9, <1>10

LEMMA RowsInit == ReadModelInit => RowsOK
<1> SUFFICES ASSUME ReadModelInit PROVE RowsOK
  OBVIOUS
<1>1. LedgerOK
  BY LedgerInit DEF ReadModelInit
<1>2. RowsTyped /\ FeedTyped /\ FeedSays
  BY ReadModelConstants DEF ReadModelInit, RowsTyped, FeedTyped, FeedSays
<1>3. RowsSay
  BY DEF ReadModelInit, RowsSay, EventRowSays, RowSays, Verdicts, OutcomeTrue
<1> QED
  BY <1>1, <1>2, <1>3 DEF RowsOK

LEMMA RowsStep == RowsOK /\ [ReadModelNext]_rmVars => RowsOK'
<1> SUFFICES ASSUME RowsOK, [ReadModelNext]_rmVars PROVE RowsOK'
  OBVIOUS
<1>1. LedgerOK /\ RowsTyped /\ FeedTyped /\ FeedSays /\ RowsSay
  BY DEF RowsOK
<1>2. LedgerOK' /\ [Next]_vars
  BY <1>1, ReadModelStep, LedgerStep
<1>3. ASSUME Publish, UNCHANGED rowVars, sweep' \subseteq sweep
      PROVE  RowsOK'
  <2>1. FeedTyped' /\ FeedSays'
    BY <1>1, <1>2, <1>3, FeedSaysKept
  <2>2. RowsSay'
    BY <1>1, <1>2, <1>3, RowsSayKept
  <2>3. RowsTyped'
    BY <1>1, <1>3 DEF RowsTyped, Publish, rowVars
  <2> QED
    BY <1>2, <2>1, <2>2, <2>3 DEF RowsOK
<1>4. CASE Ledger
  BY <1>3, <1>4 DEF Ledger
<1>5. CASE Project
  <2>1. PICK u : u = Head(queue)
    OBVIOUS
  <2>2. u \in Update /\ Trusty(u)
    <3>1. queue # <<>> /\ queue \in Seq(Update)
      BY <1>1, <1>5 DEF Project, FeedTyped
    <3>2. u = queue[1] /\ u \in Update /\ 1 \in 1..Len(queue)
      BY <2>1, <3>1
    <3> QED
      BY <1>1, <3>2 DEF FeedSays
  <2>3. RowsTyped' /\ RowsSay'
    BY <1>1, <1>5, <2>1, <2>2, RowsSayHandled DEF Project
  <2>4. FeedTyped' /\ FeedSays'
    BY <1>1, <1>5, QueueMoves DEF Project
  <2> QED
    BY <1>2, <2>3, <2>4 DEF RowsOK
<1>6. ASSUME UNCHANGED <<vars, rowVars, crowded>>, sweep' \subseteq RsvpCids,
             Reconnect \/ Restart \/ UNCHANGED feedVars
      PROVE  RowsOK'
  <2>1. RowsTyped'
    BY <1>1, <1>6 DEF RowsTyped, rowVars
  <2>2. RowsSay'
    BY <1>1, <1>2, <1>6, RowsSayKept
  <2>3. FeedTyped' /\ FeedSays'
    BY <1>1, <1>6, QueueMoves
  <2> QED
    BY <1>2, <2>1, <2>2, <2>3 DEF RowsOK
<1>7. CASE Reconnect \/ Restart
  BY <1>1, <1>6, <1>7 DEF Reconnect, Restart, RowsTyped
<1>8. CASE WatcherQuery
  <2>1. WithdrawalCandidates \subseteq RsvpCids
    BY <1>1 DEF WithdrawalCandidates, RowsTyped, Row
  <2> QED
    BY <1>6, <1>8, <2>1 DEF WatcherQuery
<1>9. ASSUME NEW c \in RsvpCids, WatcherMark(c)
      PROVE  RowsOK'
  BY <1>3, <1>9 DEF WatcherMark
<1>10. ASSUME NEW c \in RsvpCids, WatcherFails(c)
       PROVE  RowsOK'
  BY <1>1, <1>6, <1>10 DEF WatcherFails, RowsTyped
<1>11. CASE UNCHANGED rmVars
  BY <1>1, <1>6, <1>11 DEF rmVars, RowsTyped
<1> QED
  BY <1>4, <1>5, <1>7, <1>8, <1>9, <1>10, <1>11 DEF ReadModelNext

LEMMA RowsTypes == RowsOK => ReadModelTypeOK
  BY ReadModelConstants DEF RowsOK, LedgerOK, BaseOK, RowsTyped, FeedTyped, ReadModelTypeOK

(* Rows, queues and the watcher's list stay well formed. *)
THEOREM ReadModelTypes == ReadModelSpec => []ReadModelTypeOK
  BY RowsTypes, RowsInit, RowsStep, PTL DEF ReadModelSpec

(* A settlements row tells what became of the RSVP, whatever is handled when *)
(* and how often, and however many RSVPs of a slot there are.                *)
THEOREM OutcomesTrue == ReadModelSpec => [](\A s \in Slots : OutcomeTrue(s))
<1>1. RowsOK => \A s \in Slots : OutcomeTrue(s)
  BY DEF RowsOK, RowsSay
<1> QED
  BY <1>1, RowsInit, RowsStep, PTL DEF ReadModelSpec

-------------------------------------------------------------------------------
(* The requests *)

OfInvite == {"accept", "decline"}
OfRsvp   == {"find", "allocate", "record", "cancel", "checkin"}

(* The ids that a request holds are of its own slot. *)
Holds(x) ==
    /\ x \in Request
    /\ x.at # "idle" => x.slot \in Slots
    /\ x.at \in OfInvite => x.rsvp \in Rsvps /\ SlotOf(x.rsvp) = x.slot
    /\ x.at \in OfRsvp => x.rsvp \in RsvpCids /\ SlotOf(x.rsvp[1]) = x.slot
    /\ x.at = "record" => x.alloc \in Allocs

RequestsOK ==
    /\ request \in [Requests -> Request]
    /\ blind \subseteq Slots
    /\ \A q \in Requests : Holds(request[q])

LEMMA IdleHolds == Holds(Idle)
  BY DEF Holds, Idle, Request, OfInvite, OfRsvp

LEMMA SetRequest ==
    ASSUME RequestsOK, NEW q \in Requests, NEW x, Holds(x),
           request' = [request EXCEPT ![q] = x], blind' \subseteq Slots
    PROVE  RequestsOK'
<1>1. x \in Request
  BY DEF Holds
<1>2. request' \in [Requests -> Request]
  BY <1>1 DEF RequestsOK
<1>3. \A p \in Requests : request'[p] = IF p = q THEN x ELSE request[p]
  BY DEF RequestsOK
<1>4. \A p \in Requests : Holds(request'[p])
  BY <1>3 DEF RequestsOK
<1> QED
  BY <1>2, <1>4 DEF RequestsOK, Holds

(* A request that starts takes its ids from the rows. *)
LEMMA BeginHolds ==
    ASSUME RowsOK, RequestsOK, NEW q \in Requests, Begin(q)
    PROVE  RequestsOK'
<1>1. /\ \A e \in Events : eventRow[e] # NoRow => eventRow[e].cid \in {"open", "ended"}
      /\ \A s \in Slots : rows[s] # NoRow => rows[s] \in Row /\ RowSays(rows[s], s)
  BY DEF RowsOK, RowsTyped, RowsSay, EventRow
<1>2. PICK s \in Slots : \/ Join(q, s)   \/ Invite(q, s) \/ Accept(q, s) \/ Decline(q, s)
                        \/ Stake(q, s)  \/ Cancel(q, s) \/ Checkin(q, s)
  BY DEF Begin
<1>3. s[1] \in Events
  BY DEF Slots
<1>4. ASSUME NEW at \in {"invite"} \cup OfInvite \cup OfRsvp, at # "record", NEW cid,
             Start(q, at, s, cid), eventRow[s[1]] # NoRow,
             at = "invite" => cid = None,
             at \in OfInvite => cid \in Rsvps /\ SlotOf(cid) = s,
             at \in OfRsvp => cid \in RsvpCids /\ SlotOf(cid[1]) = s
      PROVE  RequestsOK'
  <2> DEFINE x == [at |-> at, slot |-> s, event |-> eventRow[s[1]].cid,
                   rsvp |-> cid, alloc |-> None]
  <2>1. x \in Request
    BY <1>1, <1>3, <1>4 DEF Request, OfInvite, OfRsvp
  <2>2. Holds(x)
    BY <1>4, <2>1 DEF Holds
  <2>3. request' = [request EXCEPT ![q] = x] /\ blind' = blind
    BY <1>4 DEF Start
  <2> HIDE DEF x
  <2> QED
    BY <2>2, <2>3, SetRequest DEF RequestsOK
<1>5. CASE Join(q, s) \/ Invite(q, s)
  BY <1>4, <1>5 DEF Join, Invite, OfInvite, OfRsvp
<1>6. CASE Accept(q, s) \/ Decline(q, s)
  <2>1. rows[s] # NoRow /\ rows[s].invite # None /\ eventRow[s[1]] # NoRow
    BY <1>6 DEF Accept, Decline, RowOf
  <2>2. rows[s].invite \in Rsvps /\ SlotOf(rows[s].invite) = s
    BY <1>1, <2>1 DEF Row, RowSays
  <2> QED
    BY <1>4, <1>6, <2>1, <2>2 DEF Accept, Decline, OfInvite, OfRsvp
<1>7. CASE Stake(q, s) \/ Cancel(q, s) \/ Checkin(q, s)
  <2>1. rows[s] # NoRow /\ rows[s].rsvp # None /\ eventRow[s[1]] # NoRow
    BY <1>7 DEF Stake, Cancel, Checkin, RowOf
  <2>2. rows[s].rsvp \in RsvpCids /\ SlotOf(rows[s].rsvp[1]) = s
    BY <1>1, <2>1 DEF Row, RowSays
  <2> QED
    BY <1>4, <1>7, <2>1, <2>2 DEF Stake, Cancel, Checkin, OfInvite, OfRsvp
<1> QED
  BY <1>2, <1>5, <1>6, <1>7

(* And one that goes on keeps them, or takes the accepted RSVP's. *)
LEMMA HandleHolds ==
    ASSUME RowsOK, RequestsOK, NEW q \in Requests, Handle(q) \/ Fails(q)
    PROVE  RequestsOK'
<1> DEFINE x == request[q]
<1>1. x \in Request /\ Holds(x) /\ blind \subseteq Slots
  BY DEF RequestsOK
<1>2. ASSUME request' = [request EXCEPT ![q] = Idle], blind' = blind
      PROVE  RequestsOK'
  BY <1>1, <1>2, SetRequest, IdleHolds
<1>3. CASE SubmitInvite(q) \/ SubmitDecline(q) \/ SubmitRecord(q) \/ SubmitCancel(q)
           \/ SubmitCheckin(q) \/ Fails(q)
  BY <1>2, <1>3 DEF SubmitInvite, SubmitDecline, SubmitRecord, SubmitCancel, SubmitCheckin,
                    Submitted, Fails
<1>4. CASE SubmitAccept(q)
  <2>1. PICK r \in Rsvps : /\ x.at = "accept" /\ r = x.rsvp /\ blind' = blind
                          /\ request' = [request EXCEPT ![q] =
                                [x EXCEPT !.at = "allocate", !.rsvp = <<r, ver[r]>>]]
    BY <1>4 DEF SubmitAccept, Submitted, At
  <2> DEFINE cid == <<r, ver[r]>>
  <2>2. cid \in RsvpCids /\ cid[1] = r
    BY DEF RowsOK, LedgerOK, BaseOK, Born, RsvpCids
  <2>3. SlotOf(r) = x.slot /\ x.slot \in Slots
    BY <1>1, <2>1 DEF Holds, OfInvite
  <2> HIDE DEF cid, x
  <2> DEFINE y == [x EXCEPT !.at = "allocate", !.rsvp = cid]
  <2>4. y \in Request /\ y.at = "allocate" /\ y.rsvp = cid /\ y.slot = x.slot
    BY <1>1, <2>2 DEF Request
  <2>5. request' = [request EXCEPT ![q] = y]
    BY <2>1 DEF cid
  <2> HIDE DEF y
  <2>6. Holds(y)
    BY <2>2, <2>3, <2>4 DEF Holds, OfInvite
  <2> QED
    BY <1>1, <2>1, <2>5, <2>6, SetRequest
<1>5. ASSUME NEW at \in {"allocate", "record"}, x.at \in {"find", "allocate"},
             NEW a \in Allocs \cup {None}, at = "record" => a \in Allocs,
             request' = [request EXCEPT ![q] = [x EXCEPT !.at = at, !.alloc = a]],
             blind' \subseteq Slots
      PROVE  RequestsOK'
  <2> HIDE DEF x
  <2> DEFINE y == [x EXCEPT !.at = at, !.alloc = a]
  <2>1. y \in Request /\ y.at = at /\ y.rsvp = x.rsvp /\ y.slot = x.slot /\ y.alloc = a
    BY <1>1 DEF Request
  <2>2. x.slot \in Slots /\ x.rsvp \in RsvpCids /\ SlotOf(x.rsvp[1]) = x.slot
    BY <1>1, <1>5 DEF Holds, OfRsvp
  <2>3. request' = [request EXCEPT ![q] = y]
    BY <1>5
  <2> HIDE DEF y
  <2>4. Holds(y)
    BY <1>5, <2>1, <2>2 DEF Holds, OfInvite
  <2> QED
    BY <1>5, <2>3, <2>4, SetRequest
<1>6. x.alloc \in Allocs \cup {None} /\ x \in Request
  BY <1>1 DEF Request
<1>7. ASSUME NEW at, request' = [request EXCEPT ![q].at = at]
      PROVE  request' = [request EXCEPT ![q] = [x EXCEPT !.at = at, !.alloc = x.alloc]]
  <2>1. [x EXCEPT !.at = at] = [x EXCEPT !.at = at, !.alloc = x.alloc]
    BY <1>6 DEF Request
  <2> QED
    BY <1>7, <2>1
<1>8. CASE FindAllocation(q)
  <2>1. x.at = "find" /\ blind' = blind
    BY <1>8 DEF FindAllocation, At
  <2>2. CASE request' = [request EXCEPT ![q].at = "allocate"]
    BY <1>1, <1>5, <1>6, <1>7, <2>1, <2>2
  <2>3. ASSUME NEW a \in LockedFor(x.slot),
               request' = [request EXCEPT ![q].at = "record", ![q].alloc = a]
        PROVE  RequestsOK'
    <3>1. a \in Allocs
      BY <2>3 DEF LockedFor
    <3>2. request' = [request EXCEPT ![q] = [x EXCEPT !.at = "record", !.alloc = a]]
      BY <2>3 DEF RequestsOK
    <3> QED
      BY <1>1, <1>5, <2>1, <3>1, <3>2
  <2> QED
    BY <1>8, <2>2, <2>3 DEF FindAllocation
<1>9. CASE LookupFails(q)
  <2>1. x.at = "find" /\ request' = [request EXCEPT ![q].at = "allocate"]
    BY <1>9 DEF LookupFails, At
  <2>2. x.slot \in Slots
    BY <1>1, <2>1 DEF Holds
  <2>3. blind' \subseteq Slots
    BY <1>1, <1>9, <2>2 DEF LookupFails
  <2> QED
    BY <1>5, <1>6, <1>7, <2>1, <2>3
<1>10. CASE SubmitAllocate(q)
  <2>1. PICK a \in Allocs : /\ x.at = "allocate" /\ blind' = blind
                           /\ request' = [request EXCEPT ![q] =
                                            [x EXCEPT !.at = "record", !.alloc = a]]
    BY <1>10 DEF SubmitAllocate, Submitted, At
  <2> QED
    BY <1>1, <1>5, <2>1
<1> QED
  BY <1>3, <1>4, <1>8, <1>9, <1>10 DEF Handle

LEMMA RequestsStep ==
    ASSUME RowsOK, RequestsOK,
           \/ UNCHANGED <<request, blind>>
           \/ \E q \in Requests : Begin(q) \/ Handle(q) \/ Fails(q)
    PROVE  RequestsOK'
<1>1. CASE UNCHANGED <<request, blind>>
  <2>1. request' = request /\ blind' = blind
    BY <1>1
  <2>2. \A q \in Requests : Holds(request'[q])
    BY <2>1 DEF RequestsOK
  <2> QED
    BY <2>1, <2>2 DEF RequestsOK, Holds
<1> QED
  BY <1>1, BeginHolds, HandleHolds

(* Requests hold the ids that they need, and rows and queues stay well       *)
(* formed.                                                                   *)
THEOREM StakeFlowTypes == StakeFlowSpec => []StakeFlowTypeOK
<1>1. StakeFlowInit => RowsOK /\ RequestsOK
  <2>1. Holds(Idle) /\ Idle \in Request
    BY IdleHolds DEF Holds
  <2> QED
    BY <2>1, RowsInit DEF StakeFlowInit, RequestsOK
<1>2. RowsOK /\ RequestsOK /\ [StakeFlowNext]_sfvars => RowsOK' /\ RequestsOK'
  <2>1. SUFFICES ASSUME RowsOK, RequestsOK, [StakeFlowNext]_sfvars PROVE RowsOK' /\ RequestsOK'
    OBVIOUS
  <2>2. RowsOK'
    BY <2>1, StakeFlowStep, RowsStep DEF RowsOK, LedgerOK, BaseOK
  <2>3. \/ UNCHANGED <<request, blind>>
        \/ \E q \in Requests : Begin(q) \/ Handle(q) \/ Fails(q)
    BY <2>1 DEF StakeFlowNext, Elsewhere, Indexer, Projects, Watcher, Looks, Marks, Misses, sfvars
  <2> QED
    BY <2>1, <2>2, <2>3, RequestsStep
<1>3. RowsOK /\ RequestsOK => StakeFlowTypeOK
  <2>1. RowsOK => ReadModelTypeOK
    BY RowsTypes
  <2> QED
    BY <2>1 DEF RequestsOK, Holds, StakeFlowTypeOK, At, OfInvite, OfRsvp
<1> QED
  BY <1>1, <1>2, <1>3, PTL DEF StakeFlowSpec

-------------------------------------------------------------------------------
(* One stake per slot *)

(* The requests of accepted RSVPs. *)
RequestsLive ==
    \A q \in Requests : request[q].at \in OfRsvp => stage[request[q].rsvp[1]] \in Late

(* Nobody is invited twice to s; no two requests run at the same time. *)
Single(s) == \A r, p \in Rsvps : SlotOf(r) = s /\ SlotOf(p) = s => r = p
Alone == \A p, q \in Requests : request[p] # Idle /\ request[q] # Idle => p = q

(* What makes "one stake" inductive: nothing is locked before the RSVP is    *)
(* accepted, nor while a request is about to lock something.                 *)
Holder(s) ==
    /\ s \notin blind => \A a, b \in LockedFor(s) : a = b
    /\ \A q \in Requests : At(q, "allocate") /\ request[q].slot = s /\ s \notin blind
                              => LockedFor(s) = {}
    /\ \A r \in Rsvps : SlotOf(r) = s /\ stage[r] \notin Late => LockedFor(s) = {}

LEMMA OneLocked ==
    ASSUME NEW s, s \notin blind, Holder(s)
    PROVE  Cardinality(LockedFor(s)) <= 1
<1>1. CASE LockedFor(s) = {}
  BY <1>1, FS_EmptySet
<1>2. ASSUME NEW a \in LockedFor(s) PROVE Cardinality(LockedFor(s)) <= 1
  <2>1. LockedFor(s) = {a}
    BY <1>2 DEF Holder
  <2> QED
    BY <2>1, FS_Singleton
<1> QED
  BY <1>1, <1>2

LEMMA RequestsLiveStep ==
    ASSUME RowsOK, RequestsOK, RequestsLive, [Next]_vars,
           \/ UNCHANGED <<request, blind>>
           \/ \E q \in Requests : Begin(q) \/ Handle(q) \/ Fails(q)
    PROVE  RequestsLive'
<1>1. \A r \in Rsvps : stage[r] \in Late => stage'[r] \in Late
  BY Forward DEF Onward, RowsOK, LedgerOK, BaseOK
<1>2. \A q \in Requests : request[q].at \in OfRsvp => request[q].rsvp[1] \in Rsvps
  BY DEF RequestsOK, Holds, RsvpCids
<1>3. ASSUME NEW p \in Requests, request'[p] = request[p], request'[p].at \in OfRsvp
      PROVE  stage'[request'[p].rsvp[1]] \in Late
  BY <1>1, <1>2, <1>3 DEF RequestsLive
<1>4. CASE UNCHANGED <<request, blind>>
  BY <1>3, <1>4 DEF RequestsLive
<1>5. ASSUME NEW q \in Requests, NEW x, request' = [request EXCEPT ![q] = x],
             x.at \in OfRsvp => x.rsvp[1] \in Rsvps /\ stage'[x.rsvp[1]] \in Late
      PROVE  RequestsLive'
  <2>1. \A p \in Requests : request'[p] = IF p = q THEN x ELSE request[p]
    BY <1>5 DEF RequestsOK
  <2> QED
    BY <1>3, <1>5, <2>1 DEF RequestsLive
<1>6. ASSUME NEW q \in Requests, Begin(q) PROVE RequestsLive'
  <2>1. PICK s \in Slots : \/ Join(q, s)   \/ Invite(q, s) \/ Accept(q, s) \/ Decline(q, s)
                           \/ Stake(q, s)  \/ Cancel(q, s) \/ Checkin(q, s)
    BY <1>6 DEF Begin
  <2>2. CASE Join(q, s) \/ Invite(q, s) \/ Accept(q, s) \/ Decline(q, s)
    BY <1>5, <2>2 DEF Join, Invite, Accept, Decline, Start, OfRsvp
  <2>3. CASE Stake(q, s)  \/ Cancel(q, s) \/ Checkin(q, s)
    <3>1. rows[s] # NoRow /\ rows[s].rsvp # None
      BY <2>3 DEF Stake, Cancel, Checkin, RowOf
    <3>2. rows[s].rsvp[1] \in Rsvps /\ stage[rows[s].rsvp[1]] \in Late
      BY <3>1 DEF RowsOK, RowsTyped, RowsSay, RowSays, Row, RsvpCids
    <3>3. stage'[rows[s].rsvp[1]] \in Late
      BY <1>1, <3>2
    <3> QED
      BY <1>5, <2>3, <3>2, <3>3 DEF Stake, Cancel, Checkin, Start
  <2> QED
    BY <2>1, <2>2, <2>3
<1>7. ASSUME NEW q \in Requests, Handle(q) \/ Fails(q) PROVE RequestsLive'
  <2> DEFINE x == request[q]
  <2>1. x \in Request
    BY DEF RequestsOK
  <2>2. CASE request' = [request EXCEPT ![q] = Idle]
    BY <1>5, <2>2 DEF Idle, OfRsvp
  <2>3. CASE SubmitAccept(q)
    <3>1. PICK r \in Rsvps : AcceptRSVP(r, x.slot[1]) /\ request' = [request EXCEPT ![q] =
                                [x EXCEPT !.at = "allocate", !.rsvp = <<r, ver[r]>>]]
      BY <2>3 DEF SubmitAccept, Submitted
    <3>2. stage'[r] = "live"
      BY <3>1 DEF AcceptRSVP, RowsOK, LedgerOK, BaseOK, TypeOK
    <3> DEFINE y == [x EXCEPT !.at = "allocate", !.rsvp = <<r, ver[r]>>]
    <3>3. y.rsvp[1] = r
      BY <2>1 DEF Request
    <3> HIDE DEF y, x
    <3>4. request' = [request EXCEPT ![q] = y]
      BY <3>1 DEF y
    <3> QED
      BY <1>5, <3>2, <3>3, <3>4 DEF Late
  <2>4. ASSUME NEW y, request' = [request EXCEPT ![q] = y], y.rsvp = x.rsvp,
               x.at \in {"find", "allocate"}
        PROVE  RequestsLive'
    <3>1. x.rsvp[1] \in Rsvps /\ stage'[x.rsvp[1]] \in Late
      BY <1>1, <1>2, <2>4 DEF RequestsLive, OfRsvp
    <3> QED
      BY <1>5, <2>4, <3>1
  <2>5. CASE SubmitAllocate(q)
    <3>1. PICK a : x.at = "allocate" /\ request' = [request EXCEPT ![q] =
                                                      [x EXCEPT !.at = "record", !.alloc = a]]
      BY <2>5 DEF SubmitAllocate, Submitted, At
    <3>2. [x EXCEPT !.at = "record", !.alloc = a].rsvp = x.rsvp
      BY <2>1 DEF Request
    <3> QED
      BY <2>4, <3>1, <3>2
  <2>6. CASE FindAllocation(q) \/ LookupFails(q)
    <3>1. x.at = "find"
      BY <2>6 DEF FindAllocation, LookupFails, At
    <3>2. CASE request' = [request EXCEPT ![q].at = "allocate"]
      <4>1. [x EXCEPT !.at = "allocate"].rsvp = x.rsvp
        BY <2>1 DEF Request
      <4> QED
        BY <2>4, <3>1, <3>2, <4>1
    <3>3. ASSUME NEW a, request' = [request EXCEPT ![q].at = "record", ![q].alloc = a]
          PROVE  RequestsLive'
      <4>1. [x EXCEPT !.at = "record", !.alloc = a].rsvp = x.rsvp
        BY <2>1 DEF Request
      <4>2. request' = [request EXCEPT ![q] = [x EXCEPT !.at = "record", !.alloc = a]]
        BY <3>3 DEF RequestsOK
      <4> QED
        BY <2>4, <3>1, <4>1, <4>2
    <3> QED
      BY <2>6, <3>2, <3>3 DEF FindAllocation, LookupFails
  <2>7. CASE SubmitInvite(q) \/ SubmitDecline(q) \/ SubmitRecord(q) \/ SubmitCancel(q)
             \/ SubmitCheckin(q) \/ Fails(q)
    BY <2>2, <2>7 DEF SubmitInvite, SubmitDecline, SubmitRecord, SubmitCancel, SubmitCheckin,
                      Submitted, Fails
  <2> QED
    BY <1>7, <2>3, <2>5, <2>6, <2>7 DEF Handle
<1> QED
  BY <1>4, <1>6, <1>7

(* No stake is locked but by a request. *)
NoNewLock == \A a \in Allocs : astate'[a] = "locked" => astate[a] = "locked"

LEMMA OthersLockNothing ==
    ASSUME TypeOK,
           \/ Elsewhere \/ Indexer \/ Watcher \/ UNCHANGED vars
           \/ \E e \in Events, r \in Rsvps : InviteAttendee(e, r) \/ CheckIn(r, e)
    PROVE  NoNewLock
<1>1. CASE astate' = astate
  BY <1>1 DEF NoNewLock
<1>2. ASSUME NEW a, AllocationWithdraw(a) PROVE NoNewLock
  BY <1>2 DEF AllocationWithdraw, NoNewLock, TypeOK
<1>3. ASSUME NEW e, NEW S, CloseEvent(e, S) PROVE NoNewLock
  <2>1. \A r : Outcome(r) \in {"refunded", "slashed"}
    BY DEF Outcome
  <2>2. \A a \in Allocs : astate'[a] \in {"refunded", "slashed"} \/ astate'[a] = astate[a]
    BY <1>3, <2>1 DEF CloseEvent
  <2> QED
    BY <2>2 DEF NoNewLock
<1>4. CASE Elsewhere
  BY <1>1, <1>2, <1>3, <1>4 DEF Elsewhere, EP_Accept, EP_Cancel, EndEventEarly, MarkSettled,
     RevokeInvite, RejectRequest, Tick, allocVars
<1>5. CASE Indexer \/ Watcher \/ UNCHANGED vars
  BY <1>1, <1>5 DEF Indexer, Projects, Project, Reconnect, Restart, Watcher, Looks, Marks, Misses,
     WatcherQuery, WatcherMark, WatcherFails, MarkWithdrawn, vars, allocVars
<1>6. ASSUME NEW e, NEW r, InviteAttendee(e, r) \/ CheckIn(r, e) PROVE NoNewLock
  BY <1>1, <1>6 DEF InviteAttendee, CheckIn, allocVars
<1> QED
  BY <1>4, <1>5, <1>6

LEMMA HolderStep ==
    ASSUME RowsOK, RequestsOK, RequestsLive, Alone, NEW s \in Slots, Single(s), Holder(s),
           [Next]_vars,
           \/ NoNewLock /\ UNCHANGED <<request, blind>>
           \/ \E q \in Requests : Begin(q) \/ Handle(q) \/ Fails(q)
    PROVE  Holder(s)'
<1>1. TypeOK
  BY DEF RowsOK, LedgerOK, BaseOK
<1>2. \A r \in Rsvps : stage'[r] \notin Late => stage[r] \notin Late
  BY <1>1, Forward DEF Onward
<1>3. \A a \in Allocs : astate[a] # "none" => spec'[a] = spec[a]
  BY <1>1, Forward
<1>4. ASSUME NoNewLock PROVE LockedFor(s)' \subseteq LockedFor(s)
  BY <1>3, <1>4 DEF NoNewLock, LockedFor, Active
<1>5. ASSUME NoNewLock, blind \subseteq blind',
             \A q \in Requests : request'[q].at = "allocate" /\ request'[q].slot = s =>
                \/ At(q, "allocate") /\ request[q].slot = s
                \/ s \in blind'
                \/ LockedFor(s) = {}
      PROVE  Holder(s)'
  <2>1. LockedFor(s)' \subseteq LockedFor(s)
    BY <1>4, <1>5
  <2>2. s \notin blind' => \A a, b \in LockedFor(s)' : a = b
    BY <1>5, <2>1 DEF Holder
  <2>3. \A r \in Rsvps : SlotOf(r) = s /\ stage'[r] \notin Late => LockedFor(s)' = {}
    BY <1>2, <2>1 DEF Holder
  <2>4. \A q \in Requests : request'[q].at = "allocate" /\ request'[q].slot = s /\ s \notin blind'
                               => LockedFor(s)' = {}
    BY <1>5, <2>1 DEF Holder
  <2> QED
    BY <2>2, <2>3, <2>4 DEF Holder, At, SlotOf
<1>6. CASE NoNewLock /\ UNCHANGED <<request, blind>>
  BY <1>5, <1>6 DEF At
<1>7. ASSUME NEW q \in Requests, NEW x, request' = [request EXCEPT ![q] = x], NoNewLock,
             blind \subseteq blind',
             x.at = "allocate" /\ x.slot = s => s \in blind' \/ LockedFor(s) = {}
      PROVE  Holder(s)'
  <2>1. \A p \in Requests : request'[p] = IF p = q THEN x ELSE request[p]
    BY <1>7 DEF RequestsOK
  <2> QED
    BY <1>5, <1>7, <2>1 DEF At
<1>8. ASSUME NEW q \in Requests, Begin(q) PROVE Holder(s)'
  <2>1. PICK t \in Slots : \/ Join(q, t)   \/ Invite(q, t) \/ Accept(q, t) \/ Decline(q, t)
                           \/ Stake(q, t)  \/ Cancel(q, t) \/ Checkin(q, t)
    BY <1>8 DEF Begin
  <2>2. PICK at, cid : Start(q, at, t, cid) /\ at # "allocate"
    BY <2>1 DEF Join, Accept, Decline, Stake, Cancel, Invite, Checkin
  <2>3. NoNewLock
    BY <2>2 DEF Start, rmVars, vars, NoNewLock
  <2> QED
    BY <1>7, <2>2, <2>3 DEF Start
<1>9. ASSUME NEW q \in Requests, Handle(q) \/ Fails(q) PROVE Holder(s)'
  <2> DEFINE x == request[q]
  <2>1. x \in Request /\ Holds(x)
    BY DEF RequestsOK
  <2>2. ASSUME request' = [request EXCEPT ![q] = Idle], astate' = astate, blind' = blind
        PROVE  Holder(s)'
    BY <1>7, <2>2 DEF NoNewLock, Idle
  <2>3. CASE SubmitInvite(q) \/ SubmitDecline(q) \/ SubmitRecord(q) \/ SubmitCheckin(q)
             \/ Fails(q)
    BY <2>2, <2>3 DEF SubmitInvite, InviteAttendee, SubmitDecline, DeclineRSVP, SubmitRecord,
       RecordAllocation, SubmitCheckin, CheckIn, Submitted, Fails, allocVars, rmVars, vars
  <2>4. CASE SubmitCancel(q)
    <3>1. request' = [request EXCEPT ![q] = Idle] /\ blind' = blind
      BY <2>4 DEF SubmitCancel, Submitted
    <3>2. NoNewLock
      BY <1>1, <2>4 DEF SubmitCancel, CancelRSVP, NoNewLock, TypeOK
    <3> QED
      BY <1>7, <3>1, <3>2 DEF Idle
  <2>5. CASE SubmitAccept(q)
    <3>1. PICK r \in Rsvps : /\ x.at = "accept" /\ r = x.rsvp /\ stage[r] = "invited"
                             /\ blind' = blind /\ astate' = astate
                             /\ request' = [request EXCEPT ![q] =
                                    [x EXCEPT !.at = "allocate", !.rsvp = <<r, ver[r]>>]]
      BY <2>5 DEF SubmitAccept, AcceptRSVP, Submitted, At, allocVars
    <3>2. SlotOf(r) = x.slot
      BY <2>1, <3>1 DEF Holds, OfInvite
    <3>3. x.slot = s => LockedFor(s) = {}
      BY <3>1, <3>2 DEF Holder, Late, Gone
    <3>4. [x EXCEPT !.at = "allocate", !.rsvp = <<r, ver[r]>>].slot = x.slot
      BY <2>1 DEF Request
    <3> QED
      BY <1>7, <3>1, <3>3, <3>4 DEF NoNewLock
  <2>6. CASE FindAllocation(q) \/ LookupFails(q)
    <3>1. NoNewLock /\ blind \subseteq blind'
      BY <2>6 DEF FindAllocation, LookupFails, NoNewLock, rmVars, vars
    <3>2. CASE request' = [request EXCEPT ![q].at = "allocate"]
      <4>1. x.slot = s => s \in blind' \/ LockedFor(s) = {}
        <5>1. CASE LockedFor(x.slot) = {} \/ x.slot \in blind'
          BY <5>1
        <5>2. LockedFor(x.slot) = {} \/ x.slot \in blind'
          <6>1. CASE LookupFails(q)
            BY <6>1 DEF LookupFails
          <6>2. ASSUME FindAllocation(q), NEW a,
                       request' = [request EXCEPT ![q].at = "record", ![q].alloc = a]
                PROVE  FALSE
            BY <3>2, <6>2 DEF RequestsOK, Request
          <6> QED
            BY <2>6, <6>1, <6>2 DEF FindAllocation
        <5> QED
          BY <5>1, <5>2
      <4>2. [x EXCEPT !.at = "allocate"].slot = x.slot
        BY <2>1 DEF Request
      <4> QED
        BY <1>7, <3>1, <3>2, <4>1, <4>2
    <3>3. ASSUME NEW a, request' = [request EXCEPT ![q].at = "record", ![q].alloc = a]
          PROVE  Holder(s)'
      <4>1. request' = [request EXCEPT ![q] = [x EXCEPT !.at = "record", !.alloc = a]]
        BY <3>3 DEF RequestsOK
      <4>2. [x EXCEPT !.at = "record", !.alloc = a].at # "allocate"
        BY <2>1 DEF Request
      <4> QED
        BY <1>7, <3>1, <4>1, <4>2
    <3> QED
      BY <2>6, <3>2, <3>3 DEF FindAllocation, LookupFails
  <2>7. CASE SubmitAllocate(q)
    <3>1. PICK a \in Allocs, t \in Slots :
             /\ x.at = "allocate" /\ t = x.slot /\ Allocate(a, StakeSpec(t)) /\ blind' = blind
             /\ request' = [request EXCEPT ![q] = [x EXCEPT !.at = "record", !.alloc = a]]
      BY <2>7 DEF SubmitAllocate, Submitted, At
    <3>2. /\ astate' = [astate EXCEPT ![a] = "locked"] /\ spec' = [spec EXCEPT ![a] = StakeSpec(t)]
          /\ stage' = stage
      BY <3>1 DEF Allocate, rsvpVars
    <3>3. /\ a \in LockedFor(t)' /\ spec'[a].slot = t
          /\ \A b \in Allocs \ {a} : astate'[b] = astate[b] /\ spec'[b] = spec[b]
      BY <1>1, <3>1, <3>2 DEF TypeOK, LockedFor, Active, StakeSpec
    <3>4. \A p \in Requests : p # q => request'[p].at = "idle"
      <4>1. ASSUME NEW p \in Requests, p # q PROVE request[p] = Idle
        BY <3>1, <4>1 DEF Alone, Idle
      <4> QED
        BY <3>1, <4>1 DEF RequestsOK, Idle
    <3>5. request'[q].at = "record"
      BY <2>1, <3>1 DEF RequestsOK, Request
    <3>6. \A p \in Requests : request'[p].at # "allocate"
      BY <3>4, <3>5
    <3>7. CASE t # s
      <4>1. LockedFor(s)' = LockedFor(s)
        BY <3>1, <3>3, <3>7 DEF LockedFor, Active, Allocate
      <4> QED
        BY <1>2, <3>1, <3>6, <4>1 DEF Holder, At, SlotOf
    <3>8. CASE t = s
      <4>1. s \notin blind => LockedFor(s) = {}
        BY <3>1, <3>8 DEF Holder, At
      <4>2. s \notin blind => LockedFor(s)' = {a}
        BY <3>1, <3>3, <3>8, <4>1 DEF LockedFor, Active
      <4>3. x.rsvp[1] \in Rsvps /\ SlotOf(x.rsvp[1]) = s /\ stage[x.rsvp[1]] \in Late
        BY <2>1, <3>1, <3>8 DEF Holds, OfRsvp, RsvpCids, RequestsLive
      <4>4. \A r \in Rsvps : SlotOf(r) = s => stage'[r] \in Late
        BY <3>2, <4>3 DEF Single
      <4> QED
        BY <3>1, <3>6, <4>2, <4>4 DEF Holder, At, SlotOf
    <3> QED
      BY <3>7, <3>8
  <2> QED
    BY <1>9, <2>3, <2>4, <2>5, <2>6, <2>7 DEF Handle
<1> QED
  BY <1>6, <1>8, <1>9

LEMMA HolderInit == StakeFlowInit => RequestsLive /\ \A s : Holder(s)
<1> SUFFICES ASSUME StakeFlowInit PROVE RequestsLive /\ \A s : Holder(s)
  OBVIOUS
<1>1. \A q \in Requests : request[q] = Idle
  BY DEF StakeFlowInit
<1>2. \A a \in Allocs : astate[a] = "none"
  BY DEF StakeFlowInit, ReadModelInit, Init
<1>3. \A s : LockedFor(s) = {}
  BY <1>2 DEF LockedFor, Active
<1> QED
  BY <1>1, <1>3 DEF RequestsLive, Holder, Idle, OfRsvp

(* If requests run one at a time and nobody is invited twice, no slot has    *)
(* two stakes locked, however often requests die and however far the rows    *)
(* are behind (but for slots whose lookup failed).                           *)
THEOREM OneAtATime ==
    ASSUME \A p, q \in Requests : p = q, \A s \in Slots : Single(s)
    PROVE  StakeFlowSpec => []OneStakePerSlot
<1> DEFINE I == RowsOK /\ RequestsOK /\ RequestsLive /\ \A s \in Slots : Holder(s)
<1>1. StakeFlowInit => I
  <2>1. Holds(Idle) /\ Idle \in Request
    BY IdleHolds DEF Holds
  <2> QED
    BY <2>1, RowsInit, HolderInit DEF StakeFlowInit, RequestsOK
<1>2. I /\ [StakeFlowNext]_sfvars => I'
  <2> SUFFICES ASSUME I, [StakeFlowNext]_sfvars PROVE I'
    OBVIOUS
  <2>1. RowsOK' /\ [Next]_vars
    BY StakeFlowStep, ReadModelStep, RowsStep DEF RowsOK, LedgerOK, BaseOK
  <2>2. \/ NoNewLock /\ UNCHANGED <<request, blind>>
        \/ \E q \in Requests : Begin(q) \/ Handle(q) \/ Fails(q)
    <3>1. ASSUME Elsewhere \/ Indexer \/ Watcher \/ UNCHANGED sfvars
          PROVE  NoNewLock /\ UNCHANGED <<request, blind>>
      <4>1. NoNewLock
        BY <3>1, OthersLockNothing DEF sfvars, rmVars, RowsOK, LedgerOK, BaseOK
      <4> QED
        BY <3>1, <4>1 DEF Elsewhere, Indexer, Projects, Watcher, Looks, Marks, Misses, sfvars
    <3> QED
      BY <3>1 DEF StakeFlowNext
  <2>3. RequestsOK'
    BY <2>2, RequestsStep
  <2>4. RequestsLive'
    BY <2>1, <2>2, RequestsLiveStep
  <2>5. \A s \in Slots : Holder(s)'
    BY <2>1, <2>2, HolderStep DEF Alone
  <2> QED
    BY <2>1, <2>3, <2>4, <2>5
<1>3. I => OneStakePerSlot
  BY OneLocked DEF OneStakePerSlot
<1> QED
  BY <1>1, <1>2, <1>3, PTL DEF StakeFlowSpec
=============================================================================
