----------------------------- MODULE EscrowProofs -----------------------------
(***************************************************************************)
(* The invariants of Escrow for every set of events, attendees, RSVPs and  *)
(* allocations, every timing of the events, and every bound.               *)
(***************************************************************************)
EXTENDS Escrow, TLAPS

(* A recorded allocation exists, so its specification is settled; and what   *)
(* exists has one.  OwnStakeOnly is not inductive without the first.         *)
RecordedExists ==
    /\ \A r \in Rsvps : allocOf[r] # NoAlloc => astate[allocOf[r]] # "none"
    /\ \A a \in Allocs : astate[a] # "none" => spec[a] \in AllocSpecs

LEMMA TypeInit == Init => TypeOK
  BY EscrowConstants DEF Init, TypeOK, EventStates, Stages, AllocStates

(* Every choice keeps every contract well formed. *)
LEMMA TypeStep == TypeOK /\ [Next]_vars => TypeOK'
<1> SUFFICES ASSUME TypeOK, [Next]_vars PROVE TypeOK'
  OBVIOUS
<1> USE EscrowConstants DEF TypeOK, EventStates, Stages, AllocStates,
        eventVars, rsvpVars, allocVars
<1>1. ASSUME NEW e \in Events,
             EP_Accept(e) \/ EP_Cancel(e) \/ EndEventEarly(e) \/ MarkSettled(e)
      PROVE  TypeOK'
  BY <1>1 DEF EP_Accept, EP_Cancel, EndEventEarly, MarkSettled
<1>2. ASSUME NEW e \in Events, NEW r \in Rsvps,
             InviteAttendee(e, r) \/ AcceptRSVP(r, e)
      PROVE  TypeOK'
  BY <1>2 DEF InviteAttendee, AcceptRSVP
<1>3. ASSUME NEW r \in Rsvps, DeclineRSVP(r) \/ RevokeInvite(r) \/ RejectRequest(r)
      PROVE  TypeOK'
  BY <1>3 DEF DeclineRSVP, RevokeInvite, RejectRequest
<1>4. ASSUME NEW r \in Rsvps, NEW a \in Allocs, RecordAllocation(r, a)
      PROVE  TypeOK'
  BY <1>4 DEF RecordAllocation, Recreate
<1>5. ASSUME NEW r \in Rsvps, NEW e \in Events, CheckIn(r, e)
      PROVE  TypeOK'
  BY <1>5 DEF CheckIn, Recreate
<1>6. ASSUME NEW r \in Rsvps, MarkWithdrawn(r)
      PROVE  TypeOK'
  BY <1>6 DEF MarkWithdrawn, Recreate
<1>7. ASSUME NEW r \in Rsvps, CancelRSVP(r)
      PROVE  TypeOK'
  BY <1>7 DEF CancelRSVP
<1>8. ASSUME NEW e \in Events, NEW S \in SUBSET Rsvps, CloseEvent(e, S)
      PROVE  TypeOK'
  BY <1>8 DEF CloseEvent, Outcome
<1>9. ASSUME NEW a \in Allocs, NEW s \in Specs, Allocate(a, s)
      PROVE  TypeOK'
  BY <1>9 DEF Allocate
<1>10. ASSUME NEW a \in Allocs, AllocationWithdraw(a)
       PROVE  TypeOK'
  BY <1>10 DEF AllocationWithdraw
<1>11. CASE Tick
  BY <1>11 DEF Tick
<1>12. CASE UNCHANGED vars
  BY <1>12 DEF vars
<1> QED
  BY <1>1, <1>2, <1>3, <1>4, <1>5, <1>6, <1>7, <1>8, <1>9, <1>10, <1>11, <1>12
     DEF Next, EventNext, RsvpNext, AllocNext

(* The contracts stay well formed under every interleaving of choices. *)
THEOREM TypeCorrect == Spec => []TypeOK
  BY TypeInit, TypeStep, PTL DEF Spec

-------------------------------------------------------------------------------
(* Recorded allocations *)

Recorded == TypeOK /\ RecordedExists /\ OwnStakeOnly

LEMMA RecordedInit == Init => Recorded
  BY TypeInit, EscrowConstants DEF Init, Recorded, RecordedExists, OwnStakeOnly

LEMMA RecordedStep == Recorded /\ [Next]_vars => Recorded'
<1> SUFFICES ASSUME Recorded, [Next]_vars PROVE Recorded'
  OBVIOUS
<1>1. TypeOK /\ TypeOK' /\ RecordedExists /\ OwnStakeOnly
  BY TypeStep DEF Recorded
<1> SUFFICES RecordedExists' /\ OwnStakeOnly'
  BY <1>1 DEF Recorded
<1> USE <1>1, EscrowConstants
    DEF TypeOK, RecordedExists, OwnStakeOnly, MatchesLeg, AllocStates,
        eventVars, rsvpVars, allocVars
<1>2. CASE UNCHANGED <<allocOf, astate, spec>>
  BY <1>2
<1>3. ASSUME NEW r \in Rsvps, NEW a \in Allocs, RecordAllocation(r, a)
      PROVE  RecordedExists' /\ OwnStakeOnly'
  BY <1>3 DEF RecordAllocation, Recreate, Active
<1>4. ASSUME NEW r \in Rsvps, MarkWithdrawn(r)
      PROVE  RecordedExists' /\ OwnStakeOnly'
  BY <1>4 DEF MarkWithdrawn, Recreate
<1>5. ASSUME NEW r \in Rsvps, CancelRSVP(r)
      PROVE  RecordedExists' /\ OwnStakeOnly'
  BY <1>5 DEF CancelRSVP, Active
<1>6. ASSUME NEW e \in Events, NEW S \in SUBSET Rsvps, CloseEvent(e, S)
      PROVE  RecordedExists' /\ OwnStakeOnly'
  BY <1>6 DEF CloseEvent, Settleable, Outcome, Active
<1>7. ASSUME NEW a \in Allocs, NEW s \in Specs, Allocate(a, s)
      PROVE  RecordedExists' /\ OwnStakeOnly'
  BY <1>7 DEF Allocate
<1>8. ASSUME NEW a \in Allocs, AllocationWithdraw(a)
      PROVE  RecordedExists' /\ OwnStakeOnly'
  BY <1>8 DEF AllocationWithdraw, Active
<1> QED
  BY <1>2, <1>3, <1>4, <1>5, <1>6, <1>7, <1>8
     DEF Next, EventNext, RsvpNext, AllocNext, vars, EP_Accept, EP_Cancel,
         EndEventEarly, MarkSettled, InviteAttendee, AcceptRSVP, DeclineRSVP,
         RevokeInvite, RejectRequest, CheckIn, Tick

(* Whatever allocations anybody makes, an RSVP only ever records one that    *)
(* its own attendee made for its own slot on the event's terms.              *)
THEOREM OwnStake == Spec => []OwnStakeOnly
<1>1. Recorded => OwnStakeOnly
  BY DEF Recorded
<1> QED
  BY RecordedInit, RecordedStep, <1>1, PTL DEF Spec

-------------------------------------------------------------------------------
(* Check-ins *)

LEMMA CheckInInit == Init => TypeOK /\ CheckedInHoldsStake
  BY TypeInit DEF Init, CheckedInHoldsStake

LEMMA CheckInStep ==
  TypeOK /\ CheckedInHoldsStake /\ [Next]_vars => TypeOK' /\ CheckedInHoldsStake'
<1> SUFFICES ASSUME TypeOK, CheckedInHoldsStake, [Next]_vars
             PROVE  TypeOK' /\ CheckedInHoldsStake'
  OBVIOUS
<1>1. TypeOK'
  BY TypeStep
<1> SUFFICES CheckedInHoldsStake'
  BY <1>1
<1> USE EscrowConstants
    DEF TypeOK, CheckedInHoldsStake, eventVars, rsvpVars, allocVars
<1>2. CASE UNCHANGED <<allocOf, checkedIn, withdrawn>>
  BY <1>2
<1>3. ASSUME NEW r \in Rsvps, NEW e \in Events, CheckIn(r, e)
      PROVE  CheckedInHoldsStake'
  BY <1>3 DEF CheckIn, Recreate
<1>4. ASSUME NEW r \in Rsvps, MarkWithdrawn(r)
      PROVE  CheckedInHoldsStake'
  BY <1>4 DEF MarkWithdrawn, Recreate
<1>5. ASSUME NEW r \in Rsvps, NEW a \in Allocs, RecordAllocation(r, a)
      PROVE  CheckedInHoldsStake'
  BY <1>5 DEF RecordAllocation, Recreate
<1> QED
  BY <1>2, <1>3, <1>4, <1>5
     DEF Next, EventNext, RsvpNext, AllocNext, vars, EP_Accept, EP_Cancel,
         EndEventEarly, MarkSettled, InviteAttendee, AcceptRSVP, DeclineRSVP,
         RevokeInvite, RejectRequest, CancelRSVP, CloseEvent, Allocate,
         AllocationWithdraw, Tick

(* A check-in is always backed by a recorded stake, however often the stake  *)
(* is withdrawn and recorded again.                                          *)
THEOREM CheckInBacked == Spec => []CheckedInHoldsStake
  BY CheckInInit, CheckInStep, PTL DEF Spec

-------------------------------------------------------------------------------
(* The books *)

Books == TypeOK /\ RecordedExists /\ OwnStakeOnly /\ StakeAccounted

LEMMA BooksInit == Init => Books
<1> SUFFICES ASSUME Init PROVE Books
  OBVIOUS
<1>1. Recorded
  BY RecordedInit
<1>2. \A r \in Rsvps : Spent(r) = "no"
  BY DEF Init, Spent
<1>3. StakeAccounted
  BY <1>2 DEF Init, StakeAccounted
<1> QED
  BY <1>1, <1>3 DEF Books, Recorded

(* What a step leaves alone of the RSVPs' outcomes. *)
LEMMA SpentSame ==
  ASSUME NEW r \in Rsvps, stage'[r] = stage[r], allocOf'[r] = allocOf[r]
  PROVE  Spent(r)' = Spent(r)
  BY DEF Spent

(* Settling one event's items together keeps the books. *)
LEMMA BooksClose ==
  ASSUME Books, NEW e \in Events, NEW S \in SUBSET Rsvps, CloseEvent(e, S)
  PROVE  StakeAccounted'
<1> USE EscrowConstants DEF Books, TypeOK, rsvpVars
<1> DEFINE Item(a) == CHOOSE r \in S : allocOf[r] = a
<1>1. \A r \in S : /\ stage[r] = "live"
                   /\ allocOf[r] \in Allocs
                   /\ astate[allocOf[r]] = "locked"
  BY DEF CloseEvent, Settleable, Active
<1>2. \A r \in S : Item(allocOf[r]) = r
  BY DEF CloseEvent
<1>3. \A r \in S : /\ stage'[r] = Outcome(r)
                   /\ astate'[allocOf[r]] = Outcome(r)
                   /\ Spent(r)' = Outcome(r)
                   /\ Outcome(r) \in {"slashed", "refunded"}
  BY <1>1, <1>2 DEF CloseEvent, Outcome, Spent
<1>4. \A r \in Rsvps \ S : stage'[r] = stage[r] /\ Spent(r)' = Spent(r)
  BY DEF CloseEvent, Spent
<1>5. allocOf' = allocOf /\ checkedIn' = checkedIn
  BY DEF CloseEvent
<1>6. \A r \in Rsvps \ S, q \in S : Spent(r) # "no" => allocOf[r] # allocOf[q]
  BY <1>1 DEF StakeAccounted, Spent
<1>7. \A r \in Rsvps \ S : Spent(r) # "no" =>
          astate'[allocOf[r]] = astate[allocOf[r]] /\ allocOf[r] \in Allocs
  BY <1>6 DEF CloseEvent, StakeAccounted
<1>8. \A r \in Rsvps : Spent(r)' # "no" =>
          allocOf'[r] \in Allocs /\ astate'[allocOf'[r]] = Spent(r)'
  BY <1>1, <1>3, <1>4, <1>5, <1>7 DEF StakeAccounted
<1>9. ASSUME NEW a \in Allocs, astate'[a] \in {"slashed", "refunded"}
      PROVE  \E r \in Rsvps : allocOf'[r] = a /\ Spent(r)' = astate'[a]
  <2>1. CASE \E r \in S : allocOf[r] = a
    BY <2>1, <1>3, <1>5
  <2>2. CASE ~ \E r \in S : allocOf[r] = a
    <3>1. astate'[a] = astate[a]
      BY <2>2 DEF CloseEvent
    <3>2. PICK r \in Rsvps : allocOf[r] = a /\ Spent(r) = astate[a]
      BY <3>1, <1>9 DEF StakeAccounted
    <3> QED
      BY <2>2, <3>1, <3>2, <1>4, <1>5
  <2> QED
    BY <2>1, <2>2
<1>10. ASSUME NEW r \in Rsvps, NEW q \in Rsvps,
              Spent(r)' # "no", Spent(q)' # "no", allocOf'[r] = allocOf'[q]
       PROVE  r = q
  <2>1. allocOf[r] = allocOf[q]
    BY <1>10, <1>5
  <2>2. CASE r \in S /\ q \in S
    BY <2>1, <2>2 DEF CloseEvent
  <2>3. CASE r \notin S /\ q \notin S
    BY <1>10, <1>4, <2>1, <2>3 DEF StakeAccounted
  <2>4. CASE r \in S /\ q \notin S
    BY <1>10, <1>4, <1>6, <2>1, <2>4
  <2>5. CASE r \notin S /\ q \in S
    BY <1>10, <1>4, <1>6, <2>1, <2>5
  <2> QED
    BY <2>2, <2>3, <2>4, <2>5
<1>11. \A r \in Rsvps : /\ (stage'[r] = "refunded" => r \in checkedIn')
                        /\ (stage'[r] \in {"slashed", "cancelled"} => r \notin checkedIn')
  BY <1>3, <1>4, <1>5 DEF StakeAccounted, Outcome
<1> QED
  BY <1>8, <1>9, <1>10, <1>11 DEF StakeAccounted

(* So does a cancellation, with or without a stake to release. *)
LEMMA BooksCancel ==
  ASSUME Books, NEW r \in Rsvps, CancelRSVP(r)
  PROVE  StakeAccounted'
<1> USE EscrowConstants DEF Books, TypeOK, rsvpVars
<1>1. /\ stage[r] = "live" /\ r \notin checkedIn
      /\ stage'[r] = "cancelled"
      /\ allocOf' = allocOf /\ checkedIn' = checkedIn
      /\ Spent(r) = "no"
  BY DEF CancelRSVP, Spent
<1>2. \A q \in Rsvps \ {r} : stage'[q] = stage[q] /\ Spent(q)' = Spent(q)
  BY DEF CancelRSVP, Spent
<1>3. \A q \in Rsvps : /\ (stage'[q] = "refunded" => q \in checkedIn')
                       /\ (stage'[q] \in {"slashed", "cancelled"} => q \notin checkedIn')
  BY <1>1, <1>2 DEF StakeAccounted
<1>4. CASE allocOf[r] = NoAlloc
  <2>1. astate' = astate /\ Spent(r)' = "no"
    BY <1>1, <1>4 DEF CancelRSVP, Active, Spent
  <2> QED
    BY <1>1, <1>2, <1>3, <2>1 DEF StakeAccounted
<1>5. CASE allocOf[r] # NoAlloc
  <2>1. /\ allocOf[r] \in Allocs /\ astate[allocOf[r]] = "locked"
        /\ astate' = [astate EXCEPT ![allocOf[r]] = "refunded"]
        /\ Spent(r)' = "refunded"
    BY <1>1, <1>5 DEF CancelRSVP, Active, Spent
  <2>2. \A q \in Rsvps : Spent(q) # "no" => allocOf[q] # allocOf[r]
    BY <2>1 DEF StakeAccounted, Spent
  <2>3. \A q \in Rsvps : Spent(q)' # "no" =>
          allocOf'[q] \in Allocs /\ astate'[allocOf'[q]] = Spent(q)'
    BY <1>1, <1>2, <2>1, <2>2 DEF StakeAccounted
  <2>4. ASSUME NEW a \in Allocs, astate'[a] \in {"slashed", "refunded"}
        PROVE  \E q \in Rsvps : allocOf'[q] = a /\ Spent(q)' = astate'[a]
    <3>1. CASE a = allocOf[r]
      BY <3>1, <1>1, <2>1
    <3>2. CASE a # allocOf[r]
      BY <3>2, <2>4, <1>1, <1>2, <2>1 DEF StakeAccounted
    <3> QED
      BY <3>1, <3>2
  <2>5. \A q, p \in Rsvps :
          Spent(q)' # "no" /\ Spent(p)' # "no" /\ allocOf'[q] = allocOf'[p] => q = p
    BY <1>1, <1>2, <2>2 DEF StakeAccounted
  <2> QED
    BY <1>3, <2>3, <2>4, <2>5 DEF StakeAccounted
<1> QED
  BY <1>4, <1>5

(* Any other step leaves alone the RSVPs that have an outcome, gives none an *)
(* outcome, and moves only allocations that no contract settled.             *)
Final == {"refunded", "slashed", "cancelled"}

Undisturbed ==
    /\ \A r \in Rsvps : \/ /\ stage'[r] = stage[r] /\ allocOf'[r] = allocOf[r]
                           /\ r \in checkedIn' <=> r \in checkedIn
                        \/ stage[r] \notin Final /\ stage'[r] \notin Final
    /\ \A a \in Allocs : \/ astate'[a] = astate[a]
                         \/ /\ astate[a] \in {"none", "locked"}
                            /\ astate'[a] \in {"locked", "withdrawn"}

LEMMA BooksOther == Books /\ Undisturbed => StakeAccounted'
<1> SUFFICES ASSUME Books, Undisturbed PROVE StakeAccounted'
  OBVIOUS
<1> USE DEF Books
<1>1. \A r \in Rsvps : /\ Spent(r) \in {"no", "slashed", "refunded"}
                       /\ Spent(r)' = Spent(r)
                       /\ Spent(r) # "no" => allocOf'[r] = allocOf[r]
  BY DEF Undisturbed, Spent, Final
<1>2. \A r \in Rsvps : Spent(r)' # "no" =>
          allocOf'[r] \in Allocs /\ astate'[allocOf'[r]] = Spent(r)'
  BY <1>1 DEF StakeAccounted, Undisturbed
<1>3. ASSUME NEW a \in Allocs, astate'[a] \in {"slashed", "refunded"}
      PROVE  \E r \in Rsvps : allocOf'[r] = a /\ Spent(r)' = astate'[a]
  <2>1. astate'[a] = astate[a]
    BY <1>3 DEF Undisturbed
  <2>2. PICK r \in Rsvps : allocOf[r] = a /\ Spent(r) = astate[a]
    BY <1>3, <2>1 DEF StakeAccounted
  <2> QED
    BY <1>1, <1>3, <2>1, <2>2
<1>4. \A r, q \in Rsvps :
        Spent(r)' # "no" /\ Spent(q)' # "no" /\ allocOf'[r] = allocOf'[q] => r = q
  BY <1>1 DEF StakeAccounted
<1>5. \A r \in Rsvps : /\ (stage'[r] = "refunded" => r \in checkedIn')
                       /\ (stage'[r] \in {"slashed", "cancelled"} => r \notin checkedIn')
  BY DEF StakeAccounted, Undisturbed, Final
<1> QED
  BY <1>2, <1>3, <1>4, <1>5 DEF StakeAccounted

LEMMA BooksStep == Books /\ [Next]_vars => Books'
<1> SUFFICES ASSUME Books, [Next]_vars PROVE Books'
  OBVIOUS
<1>1. Recorded /\ Recorded'
  BY RecordedStep DEF Books, Recorded
<1>2. TypeOK /\ TypeOK'
  BY <1>1 DEF Recorded
<1> SUFFICES StakeAccounted'
  BY <1>1 DEF Books, Recorded
<1>3. \/ Undisturbed
      \/ \E r \in Rsvps : CancelRSVP(r)
      \/ \E e \in Events, S \in SUBSET Rsvps : CloseEvent(e, S)
  <2> USE EscrowConstants, <1>2
      DEF TypeOK, Undisturbed, Final, eventVars, rsvpVars, allocVars
  <2>1. CASE UNCHANGED <<stage, allocOf, checkedIn, astate>>
    BY <2>1
  <2>2. ASSUME NEW e \in Events, NEW r \in Rsvps,
               InviteAttendee(e, r) \/ AcceptRSVP(r, e)
        PROVE  Undisturbed
    BY <2>2 DEF InviteAttendee, AcceptRSVP
  <2>3. ASSUME NEW r \in Rsvps, DeclineRSVP(r) \/ RevokeInvite(r) \/ RejectRequest(r)
        PROVE  Undisturbed
    BY <2>3 DEF DeclineRSVP, RevokeInvite, RejectRequest
  <2>4. ASSUME NEW r \in Rsvps, MarkWithdrawn(r)
        PROVE  Undisturbed
    BY <2>4 DEF MarkWithdrawn, Recreate
  <2>5. ASSUME NEW r \in Rsvps, NEW a \in Allocs, RecordAllocation(r, a)
        PROVE  Undisturbed
    BY <2>5 DEF RecordAllocation, Recreate
  <2>6. ASSUME NEW r \in Rsvps, NEW e \in Events, CheckIn(r, e)
        PROVE  Undisturbed
    BY <2>6 DEF CheckIn, Recreate
  <2>7. ASSUME NEW a \in Allocs, NEW s \in Specs, Allocate(a, s)
        PROVE  Undisturbed
    BY <2>7 DEF Allocate
  <2>8. ASSUME NEW a \in Allocs, AllocationWithdraw(a)
        PROVE  Undisturbed
    BY <2>8 DEF AllocationWithdraw, Active
  <2> QED
    BY <2>1, <2>2, <2>3, <2>4, <2>5, <2>6, <2>7, <2>8
       DEF Next, EventNext, RsvpNext, AllocNext, vars, EP_Accept, EP_Cancel,
           EndEventEarly, MarkSettled, Tick
<1> QED
  BY <1>3, BooksOther, BooksClose, BooksCancel

(* The pot and the refunds are accounted for, stake by stake, at all times:  *)
(* no interleaving of choices slashes or refunds a stake twice or without    *)
(* the RSVP that answers for it.                                             *)
THEOREM BooksBalance == Spec => []StakeAccounted
<1>1. Books => StakeAccounted
  BY DEF Books
<1> QED
  BY BooksInit, BooksStep, <1>1, PTL DEF Spec

-------------------------------------------------------------------------------
(* The contracts implement StakePromise *)

LEMMA PromiseInit == Init => Promise!Init
  BY EscrowConstants DEF Init, Promise!Init, Money, Pledge, Phase, Closed, EventOver, EventLive

(* An event only ever comes nearer to its end, whatever order it is ended,   *)
(* settled and overtaken by the clock in.                                    *)
LEMMA PhaseForward ==
  ASSUME TypeOK, [Next]_vars, NEW e \in Events
  PROVE  /\ Phase(e)' \in {"running", "over", "closed"}
         /\ \/ Phase(e)' = Phase(e)
            \/ Phase(e) = "running"
            \/ Phase(e)' = "closed"
<1> USE EscrowConstants DEF TypeOK
<1>1. now \in Nat /\ now' \in Nat /\ now' >= now
  <2>1. CASE Tick
    BY <2>1 DEF Tick
  <2>2. CASE UNCHANGED now
    BY <2>2
  <2> QED
    BY <2>1, <2>2
       DEF Next, EventNext, RsvpNext, AllocNext, vars, EP_Accept, EP_Cancel,
           EndEventEarly, MarkSettled, InviteAttendee, AcceptRSVP, DeclineRSVP,
           RevokeInvite, RejectRequest, CheckIn, MarkWithdrawn, RecordAllocation,
           CancelRSVP, CloseEvent, Allocate, AllocationWithdraw
<1>2. \/ event'[e] = event[e]
      \/ event[e] = "proposed" /\ event'[e] \in {"open", "cancelled"}
      \/ event[e] = "open" /\ event'[e] = "ended"
      \/ event'[e] = "settled"
  <2>1. CASE UNCHANGED event
    BY <2>1
  <2>2. ASSUME NEW d \in Events,
               EP_Accept(d) \/ EP_Cancel(d) \/ EndEventEarly(d) \/ MarkSettled(d)
        PROVE  <1>2
    BY <2>2 DEF EP_Accept, EP_Cancel, EndEventEarly, EventOpen, MarkSettled
  <2> QED
    BY <2>1, <2>2
       DEF Next, EventNext, RsvpNext, AllocNext, vars, Tick, eventVars,
           InviteAttendee, AcceptRSVP, DeclineRSVP,
           RevokeInvite, RejectRequest, CheckIn, MarkWithdrawn, RecordAllocation,
           CancelRSVP, CloseEvent, Allocate, AllocationWithdraw
<1>3. event[e] \in EventStates /\ SettleBefore[e] \in Nat /\ EventEnd[e] \in Nat
  OBVIOUS
<1>4. Closed(e) => Closed(e)'
  BY <1>1, <1>2, <1>3 DEF Closed
<1>5. EventOver(e) => EventOver(e)' \/ Closed(e)'
  BY <1>1, <1>2, <1>3 DEF EventOver, EventLive, Closed
<1> HIDE DEF TypeOK
<1> QED
  BY <1>4, <1>5 DEF Phase

LEMMA PromiseStep == Books /\ [Next]_vars => [Promise!Next]_(Promise!vars)
<1> SUFFICES ASSUME Books, [Next]_vars PROVE Promise!Next \/ UNCHANGED Promise!vars
  OBVIOUS
<1>1. TypeOK /\ RecordedExists /\ OwnStakeOnly
  BY DEF Books
<1> USE <1>1, EscrowConstants DEF TypeOK
<1>2. ASSUME UNCHANGED <<astate, spec>>
      PROVE  Promise!Next
  <2>1. Promise!Advance
    BY <1>2, PhaseForward DEF Promise!Advance, Money, Pledge
  <2> QED
    BY <2>1 DEF Promise!Next
<1>3. ASSUME UNCHANGED <<event, now>>
      PROVE  UNCHANGED [e \in Events |-> Phase(e)]
  BY <1>3 DEF Phase, Closed, EventOver, EventLive
<1>4. ASSUME NEW a \in Allocs, NEW s \in Specs, Allocate(a, s)
      PROVE  Promise!Next
  <2> DEFINE p == [owner |-> s.sender, event |-> s.slot[1]]
  <2>1. p \in Promise!Pledges
    BY DEF Promise!Pledges, AllocSpecs, Slots
  <2>2. Promise!Lock(a, p)
    BY <1>3, <1>4 DEF Promise!Lock, Allocate, rsvpVars, eventVars, Money, Pledge, AllocSpecs
  <2> QED
    BY <2>1, <2>2 DEF Promise!Next
<1>5. ASSUME NEW a \in Allocs, AllocationWithdraw(a)
      PROVE  Promise!Next
  <2>1. Promise!Return(a)
    BY <1>3, <1>5 DEF Promise!Return, AllocationWithdraw, Active, rsvpVars, eventVars,
                      Money, Pledge
  <2> QED
    BY <2>1 DEF Promise!Next
<1>6. ASSUME NEW r \in Rsvps, CancelRSVP(r)
      PROVE  Promise!Next
  <2>1. CASE UNCHANGED astate
    BY <2>1, <1>2, <1>6 DEF CancelRSVP
  <2>2. CASE Active(allocOf[r]) /\ astate' = [astate EXCEPT ![allocOf[r]] = "refunded"]
    <3>1. Promise!Return(allocOf[r])
      BY <1>3, <1>6, <2>2 DEF Promise!Return, CancelRSVP, Active, eventVars, Money, Pledge
    <3> QED
      BY <2>2, <3>1 DEF Promise!Next, Active
  <2> QED
    BY <1>6, <2>1, <2>2 DEF CancelRSVP
<1>7. ASSUME NEW e \in Events, NEW S \in SUBSET Rsvps, CloseEvent(e, S)
      PROVE  Promise!Next
  <2> DEFINE F == {allocOf[r] : r \in {q \in S : q \notin checkedIn}}
             B == {allocOf[r] : r \in {q \in S : q \in checkedIn}}
  <2>1. \A r \in S : /\ allocOf[r] \in Allocs /\ astate[allocOf[r]] = "locked"
                     /\ spec[allocOf[r]] \in AllocSpecs
                     /\ spec[allocOf[r]].slot[1] = e
    BY <1>7 DEF CloseEvent, Settleable, Active, RecordedExists, OwnStakeOnly, MatchesLeg
  <2>2. \A r, q \in S : allocOf[r] = allocOf[q] => r = q
    BY <1>7 DEF CloseEvent
  <2>3. CASE S = {}
    BY <2>3, <1>2, <1>7 DEF CloseEvent
  <2>4. CASE S # {}
    <3>1. Phase(e) = "over"
      BY <2>4, <1>7 DEF CloseEvent, Settleable, Phase, Closed, EventOver, EventLive
    <3>2. F \cap B = {} /\ F \subseteq Allocs /\ B \subseteq Allocs
      BY <2>1, <2>2
    <3>3. \A a \in Allocs : astate'[a] = CASE a \in F -> "slashed"
                                            [] a \in B -> "refunded"
                                            [] OTHER   -> astate[a]
      BY <1>7, <2>2 DEF CloseEvent, Outcome
    <3>4. \A a \in F \cup B : Money(a) = "locked" /\ Pledge(a).event = e
      <4>1. \A r \in S : Money(allocOf[r]) = "locked" /\ Pledge(allocOf[r]).event = e
        BY <2>1 DEF Money, Pledge
      <4> QED
        BY <4>1
    <3>5. UNCHANGED <<[a \in Allocs |-> Pledge(a)], [d \in Events |-> Phase(d)]>>
      BY <1>3, <1>7 DEF CloseEvent, eventVars, Pledge
    <3>6. \A a \in Allocs : Money(a)' = CASE a \in F -> "forfeited"
                                          [] a \in B -> "returned"
                                          [] OTHER   -> Money(a)
      BY <3>3 DEF Money
    <3> HIDE DEF F, B
    <3>7. Promise!Settle(e, F, B)
      BY <3>1, <3>2, <3>4, <3>5, <3>6 DEF Promise!Settle
    <3> QED
      BY <3>2, <3>7 DEF Promise!Next
  <2> QED
    BY <2>3, <2>4
<1> QED
  BY <1>2, <1>4, <1>5, <1>6, <1>7
     DEF Next, EventNext, RsvpNext, AllocNext, vars, Tick, eventVars, allocVars,
         EP_Accept, EP_Cancel, EndEventEarly, MarkSettled,
         InviteAttendee, AcceptRSVP, DeclineRSVP,
         RevokeInvite, RejectRequest, CheckIn, MarkWithdrawn, RecordAllocation

(* The contracts keep StakePromise: for every set of events, attendees and   *)
(* RSVPs a stake is forfeited only to the event it was locked for, while     *)
(* that is over and its window open; otherwise it can only go back.          *)
THEOREM PromiseHolds == Spec => PromiseKept
  BY BooksInit, BooksStep, PromiseInit, PromiseStep, PTL
     DEF Spec, PromiseKept, Promise!Spec
=============================================================================
