--------------------------- MODULE SettlementProofs ---------------------------
(***************************************************************************)
(* What any number of concurrent close requests do to the RSVPs of their   *)
(* event, for every set of attendees and allocations.                      *)
(*                                                                         *)
(* A request works from what it read.  The invariant that makes this safe  *)
(* is Kept: as long as the contract id of an item is active, the RSVP is   *)
(* what the item says, for whatever changes it recreates it; and from an   *)
(* allocation that was archived nothing comes back.                        *)
(***************************************************************************)
EXTENDS Settlement, EscrowProofs, Sums

(* Every step of a request or of anybody else is a choice of the contracts.  *)
LEMMA ChoicesOnly ==
    SettlementTypeOK /\ [SettlementNext]_svars => [Next]_vars
<1> SUFFICES ASSUME SettlementTypeOK, [SettlementNext]_svars PROVE [Next]_vars
  OBVIOUS
<1> USE SettlementConstants
<1>1. ASSUME NEW c \in Closes,
             \/ Begin(c) \/ QueryRsvps(c) \/ QueryAllocs(c) \/ ResumeEnded(c)
             \/ EndEventFails(c) \/ SubmitNothing(c) \/ FinishFails(c) \/ Die(c)
      PROVE  UNCHANGED vars
  BY <1>1 DEF Begin, QueryRsvps, QueryAllocs, ResumeEnded, EndEventFails,
              SubmitNothing, FinishFails, Die, Abort
<1>2. ASSUME NEW c \in Closes, NEW B \in SUBSET left[c],
             SubmitFails(c, B) \/ PayOut(c, B) \/ PayOutFails(c, B)
      PROVE  UNCHANGED vars
  BY <1>2 DEF SubmitFails, PayOut, PayOutFails, Abort
<1>3. ASSUME NEW c \in Closes, NEW i \in left[c], PreflightMark(c, i)
      PROVE  [Next]_vars
  <2>1. i.rsvp \in Rsvps
    BY DEF SettlementTypeOK, Items
  <2> QED
    BY <1>3, <2>1 DEF PreflightMark, Next, RsvpNext
<1>4. ASSUME NEW c \in Closes, EndEvent(c) \/ Finish(c)
      PROVE  Next
  BY <1>4 DEF EndEvent, Finish, Next, EventNext
<1>5. ASSUME NEW c \in Closes, NEW B \in SUBSET left[c], SubmitClose(c, B)
      PROVE  Next
  <2>1. {i.rsvp : i \in B} \in SUBSET Rsvps
    BY DEF SettlementTypeOK, Items
  <2> QED
    BY <1>5, <2>1 DEF SubmitClose, Next, EventNext
<1>6. ASSUME NEW r \in Rsvps, Welcome(r) \/ Watch(r)
      PROVE  Next
  BY <1>6 DEF Welcome, Watch, Next, RsvpNext
<1>7. CASE Attendee
  BY <1>7 DEF Attendee, Next, RsvpNext, AllocNext
<1>8. CASE Project \/ UNCHANGED svars
  BY <1>8 DEF Project, svars
<1>9. ASSUME NEW a \in Allocs, TakeBack(a)
      PROVE  Next
  BY <1>9 DEF TakeBack, Next, AllocNext
<1> QED
  BY <1>1, <1>2, <1>3, <1>4, <1>5, <1>6, <1>7, <1>8, <1>9 DEF SettlementNext, Request

-------------------------------------------------------------------------------
(* What was read stays true *)

(* An item is what the RSVP still is, unless its contract id is stale.       *)
Kept(i) ==
    /\ i.ver =< ver[i.rsvp]
    /\ astate[i.alloc] # "none"
    /\ ver[i.rsvp] = i.ver => /\ allocOf[i.rsvp] = i.alloc
                              /\ i.rsvp \in checkedIn <=> i.checkedIn
                              /\ i.rsvp \notin withdrawn

LEMMA KeptStep ==
    ASSUME TypeOK, [Next]_vars, NEW i \in Items, Kept(i)
    PROVE  Kept(i)'
<1> USE EscrowConstants DEF TypeOK, Kept, Items, AllocStates,
        eventVars, rsvpVars, allocVars
<1>1. CASE UNCHANGED <<ver, allocOf, checkedIn, withdrawn, astate>>
  BY <1>1
<1>2. ASSUME NEW r \in Rsvps, NEW a \in Allocs, RecordAllocation(r, a)
      PROVE  Kept(i)'
  BY <1>2 DEF RecordAllocation, Recreate
<1>3. ASSUME NEW r \in Rsvps, NEW e \in Events, CheckIn(r, e)
      PROVE  Kept(i)'
  BY <1>3 DEF CheckIn, Recreate
<1>4. ASSUME NEW r \in Rsvps, MarkWithdrawn(r)
      PROVE  Kept(i)'
  BY <1>4 DEF MarkWithdrawn, Recreate
<1>5. ASSUME NEW r \in Rsvps, CancelRSVP(r)
      PROVE  Kept(i)'
  BY <1>5 DEF CancelRSVP
<1>6. ASSUME NEW e \in Events, NEW S \in SUBSET Rsvps, CloseEvent(e, S)
      PROVE  Kept(i)'
  BY <1>6 DEF CloseEvent, Outcome
<1>7. ASSUME NEW a \in Allocs, NEW s \in Specs, Allocate(a, s)
      PROVE  Kept(i)'
  BY <1>7 DEF Allocate
<1>8. ASSUME NEW a \in Allocs, AllocationWithdraw(a)
      PROVE  Kept(i)'
  BY <1>8 DEF AllocationWithdraw
<1> QED
  BY <1>1, <1>2, <1>3, <1>4, <1>5, <1>6, <1>7, <1>8
     DEF Next, EventNext, RsvpNext, AllocNext, vars, EP_Accept, EP_Cancel,
         EndEventEarly, MarkSettled, InviteAttendee, AcceptRSVP, DeclineRSVP,
         RevokeInvite, RejectRequest, Tick

(* An allocation that was archived is not active again. *)
LEMMA GoneStays ==
    ASSUME TypeOK, [Next]_vars, NEW a \in Allocs, astate[a] # "none", ~Active(a)
    PROVE  ~Active(a)'
<1> USE EscrowConstants DEF TypeOK, Active, AllocStates, eventVars, rsvpVars, allocVars
<1>1. CASE UNCHANGED astate
  BY <1>1
<1>2. ASSUME NEW r \in Rsvps, CancelRSVP(r)
      PROVE  ~Active(a)'
  BY <1>2 DEF CancelRSVP
<1>3. ASSUME NEW e \in Events, NEW S \in SUBSET Rsvps, CloseEvent(e, S)
      PROVE  ~Active(a)'
  BY <1>3 DEF CloseEvent, Outcome
<1>4. ASSUME NEW b \in Allocs, NEW s \in Specs, Allocate(b, s)
      PROVE  ~Active(a)'
  BY <1>4 DEF Allocate
<1>5. ASSUME NEW b \in Allocs, AllocationWithdraw(b)
      PROVE  ~Active(a)'
  BY <1>5 DEF AllocationWithdraw
<1> QED
  BY <1>1, <1>2, <1>3, <1>4, <1>5
     DEF Next, EventNext, RsvpNext, AllocNext, vars, EP_Accept, EP_Cancel,
         EndEventEarly, MarkSettled, InviteAttendee, AcceptRSVP, DeclineRSVP,
         RevokeInvite, RejectRequest, RecordAllocation, CheckIn, MarkWithdrawn, Tick

(* A settled RSVP stays what the settlement made it. *)
LEMMA OutcomeStays ==
    ASSUME TypeOK, [Next]_vars, NEW r \in Rsvps, stage[r] \in {"refunded", "slashed"}
    PROVE  stage'[r] = stage[r]
<1> USE DEF TypeOK, eventVars, rsvpVars, allocVars
<1>1. CASE UNCHANGED stage
  BY <1>1
<1>2. ASSUME NEW q \in Rsvps, NEW e \in Events, InviteAttendee(e, q) \/ AcceptRSVP(q, e)
      PROVE  stage'[r] = stage[r]
  BY <1>2 DEF InviteAttendee, AcceptRSVP
<1>3. ASSUME NEW q \in Rsvps,
             DeclineRSVP(q) \/ RevokeInvite(q) \/ RejectRequest(q) \/ CancelRSVP(q)
      PROVE  stage'[r] = stage[r]
  BY <1>3 DEF DeclineRSVP, RevokeInvite, RejectRequest, CancelRSVP
<1>4. ASSUME NEW e \in Events, NEW S \in SUBSET Rsvps, CloseEvent(e, S)
      PROVE  stage'[r] = stage[r]
  BY <1>4 DEF CloseEvent, Settleable
<1> QED
  BY <1>1, <1>2, <1>3, <1>4
     DEF Next, EventNext, RsvpNext, AllocNext, vars, EP_Accept, EP_Cancel,
         EndEventEarly, MarkSettled, RecordAllocation, CheckIn, MarkWithdrawn, Tick,
         Allocate, AllocationWithdraw

-------------------------------------------------------------------------------
(* The requests *)

Result(i) == IF i.checkedIn THEN "refunded" ELSE "slashed"

(* What holds of request c's items and of what is left of them. *)
Progress(c) ==
    /\ IsFiniteSet(items[c])
    /\ \A i \in items[c] \cup left[c] : Kept(i)
    /\ pc[c] = "preflight" => \A i \in left[c] : ~Active(i.alloc)
    /\ pc[c] = "closing" => /\ left[c] \subseteq items[c]
                            /\ \A i \in items[c] \ left[c] : stage[i.rsvp] = Result(i)
    /\ pc[c] = "payout" => /\ left[c] \subseteq Payees(items[c])
                           /\ \A i \in items[c] : stage[i.rsvp] = Result(i)

Work == SettlementTypeOK /\ Recorded /\ \A c \in Closes : Progress(c)

LEMMA WorkInit == SettlementInit => Work
<1> SUFFICES ASSUME SettlementInit PROVE Work
  OBVIOUS
<1> USE EscrowConstants, SettlementConstants
<1>1. TypeOK /\ RecordedExists /\ OwnStakeOnly
  BY DEF SettlementInit, TypeOK, EventStates, Stages, AllocStates, RecordedExists, OwnStakeOnly
<1>2. SettlementTypeOK
  BY <1>1 DEF SettlementInit, SettlementTypeOK
<1>3. \A c \in Closes : Progress(c)
  BY FS_EmptySet DEF SettlementInit, Progress
<1> QED
  BY <1>1, <1>2, <1>3 DEF Work, Recorded

(* What others do does not disturb a request. *)
LEMMA ProgressKept ==
    ASSUME SettlementTypeOK, [Next]_vars, NEW c \in Closes, Progress(c),
           pc'[c] = pc[c], items'[c] = items[c], left'[c] = left[c]
    PROVE  Progress(c)'
<1>1. TypeOK /\ items[c] \subseteq Items /\ left[c] \subseteq Items
  BY DEF SettlementTypeOK
<1>2. \A i \in items[c] \cup left[c] : Kept(i)'
  BY <1>1, KeptStep DEF Progress
<1>3. ASSUME pc[c] = "preflight", NEW i \in left[c] PROVE ~Active(i.alloc)'
  <2>1. i.alloc \in Allocs /\ astate[i.alloc] # "none" /\ ~Active(i.alloc)
    BY <1>1, <1>3 DEF Progress, Kept, Items
  <2> QED
    BY <1>1, <2>1, GoneStays
<1>4. ASSUME NEW i \in items[c], stage[i.rsvp] = Result(i) PROVE stage'[i.rsvp] = Result(i)
  <2>1. i.rsvp \in Rsvps
    BY <1>1 DEF Items
  <2> QED
    BY <1>1, <1>4, <2>1, OutcomeStays DEF Result
<1> QED
  BY <1>2, <1>3, <1>4 DEF Progress, Result, Payees, Came, Share, Ghosts

(* The items are few: one for each RSVP at most. *)
LEMMA FewItems ==
    ASSUME NEW S \in SUBSET Rsvps
    PROVE  IsFiniteSet({Item(r) : r \in S})
<1>1. IsFiniteSet(S)
  BY SettlementConstants, FS_Subset
<1> DEFINE f == [r \in S |-> Item(r)]
<1>2. f \in Surjection(S, {Item(r) : r \in S})
  BY DEF Surjection
<1> QED
  BY <1>1, <1>2, FS_Surjection

(* A share is a number of units: it is only computed where somebody came. *)
LEMMA ShareType ==
    ASSUME SettlementTypeOK, NEW c \in Closes, Progress(c), Payees(items[c]) # {}
    PROVE  Share(items[c]) \in Nat
<1> DEFINE I == items[c]
<1>1. IsFiniteSet(Came(I)) /\ IsFiniteSet(Ghosts(I)) /\ Came(I) # {}
  BY FS_Subset DEF Came, Ghosts, Payees, Progress
<1>2. Cardinality(Came(I)) \in Nat /\ Cardinality(Ghosts(I)) \in Nat
  BY <1>1, FS_CardinalityType
<1>3. Cardinality(Came(I)) # 0
  BY <1>1, FS_EmptySet
<1> DEFINE p == Stake * Cardinality(Ghosts(I))
           n == Cardinality(Came(I))
<1>4. p \in Nat /\ n \in Nat /\ n > 0
  BY <1>2, <1>3, SettlementConstants
<1>5. Share(I) = p \div n
  BY DEF Share
<1> HIDE DEF p, n
<1> QED
  BY <1>4, <1>5

(* Every step keeps the requests' own records well formed. *)
LEMMA SettlementTypeStep == Work /\ [SettlementNext]_svars => SettlementTypeOK'
<1> SUFFICES ASSUME Work, [SettlementNext]_svars PROVE SettlementTypeOK'
  OBVIOUS
<1>1. SettlementTypeOK /\ TypeOK /\ TypeOK' /\ \A c \in Closes : Progress(c)
  BY ChoicesOnly, TypeStep DEF Work, SettlementTypeOK
<1> USE <1>1, SettlementConstants DEF SettlementTypeOK, Goto, Forget, Abort, vars, closeVars
<1>2. ASSUME NEW c \in Closes,
             \/ Begin(c) \/ QueryAllocs(c) \/ EndEvent(c) \/ ResumeEnded(c)
             \/ EndEventFails(c) \/ Finish(c) \/ FinishFails(c) \/ Die(c)
      PROVE  SettlementTypeOK'
  BY <1>2 DEF Begin, QueryAllocs, EndEvent, ResumeEnded, EndEventFails, Finish,
              FinishFails, Die
<1>3. ASSUME NEW c \in Closes, QueryRsvps(c)
      PROVE  SettlementTypeOK'
  <2>1. \A r \in Rsvps : allocOf[r] # NoAlloc => Item(r) \in Items
    BY DEF TypeOK, Item, Items
  <2> QED
    BY <1>3, <2>1 DEF QueryRsvps
<1>4. ASSUME NEW c \in Closes, NEW i \in left[c], PreflightMark(c, i)
      PROVE  SettlementTypeOK'
  BY <1>4 DEF PreflightMark
<1>5. ASSUME NEW c \in Closes, NEW B \in SUBSET left[c], SubmitClose(c, B)
      PROVE  SettlementTypeOK'
  BY <1>5 DEF SubmitClose, Payees, Came
<1>6. ASSUME NEW c \in Closes, SubmitNothing(c)
      PROVE  SettlementTypeOK'
  BY <1>6 DEF SubmitNothing, Payees, Came
<1>7. ASSUME NEW c \in Closes, NEW B \in SUBSET left[c], SubmitFails(c, B) \/ PayOutFails(c, B)
      PROVE  SettlementTypeOK'
  BY <1>7 DEF SubmitFails, PayOutFails
<1>8. ASSUME NEW c \in Closes, NEW B \in SUBSET left[c], PayOut(c, B)
      PROVE  SettlementTypeOK'
  <2>1. Share(items[c]) \in Nat
    BY <1>8, ShareType DEF Progress, PayOut, PayoutBatch
  <2>2. paid' \in [Rsvps -> Nat]
    BY <1>8, <2>1 DEF PayOut
  <2> QED
    BY <1>8, <2>2 DEF PayOut
<1>9. ASSUME NEW r \in Rsvps, Welcome(r) \/ Watch(r)
      PROVE  SettlementTypeOK'
  BY <1>9 DEF Welcome, Watch
<1>10. CASE Attendee \/ Project \/ UNCHANGED svars
  BY <1>10 DEF Attendee, Project, svars
<1>11. ASSUME NEW a \in Allocs, TakeBack(a)
       PROVE  SettlementTypeOK'
  <2>1. StakedWith(a) \subseteq Attendees
    BY EscrowConstants DEF StakedWith
  <2> QED
    BY <1>11, <2>1 DEF TakeBack
<1> QED
  BY <1>2, <1>3, <1>4, <1>5, <1>6, <1>7, <1>8, <1>9, <1>10, <1>11 DEF SettlementNext, Request

(* A request's own steps: what it reads is so, and what it did is done. *)
LEMMA OwnProgress ==
    ASSUME Work, SettlementNext, NEW c \in Closes, Request(c) \/ Die(c)
    PROVE  Progress(c)'
<1>1. /\ SettlementTypeOK /\ TypeOK /\ RecordedExists /\ Progress(c)
      /\ items[c] \subseteq Items /\ left[c] \subseteq Items
      /\ SettlementTypeOK'
  BY SettlementTypeStep DEF Work, Recorded, SettlementTypeOK
<1>2. [Next]_vars
  BY <1>1, ChoicesOnly
<1>3. \A i \in items[c] \cup left[c] : Kept(i)'
  BY <1>1, <1>2, KeptStep DEF Progress
<1>4. ASSUME NEW i \in items[c], stage[i.rsvp] = Result(i) PROVE stage'[i.rsvp] = Result(i)
  <2>1. i.rsvp \in Rsvps
    BY <1>1 DEF Items
  <2> QED
    BY <1>1, <1>2, <1>4, <2>1, OutcomeStays DEF Result
<1>5. ASSUME Goto(c, pc[c], "idle") \/ Goto(c, pc[c], "done"), Forget(c)
      PROVE  Progress(c)'
  BY <1>1, <1>5, FS_EmptySet DEF Goto, Forget, Progress, SettlementTypeOK
<1>6. CASE Begin(c)
  BY <1>1, <1>3, <1>6 DEF Begin, Goto, Progress, SettlementTypeOK
<1>7. CASE QueryRsvps(c)
  <2> DEFINE S == {q \in Rsvps : /\ stage[q] = "live"
                                 /\ EventOf[q] = E
                                 /\ q \notin withdrawn
                                 /\ allocOf[q] # NoAlloc}
  <2>1. /\ items'[c] = {Item(r) : r \in S}
        /\ left'[c] = left[c]
        /\ pc'[c] = "queried"
        /\ UNCHANGED <<ver, allocOf, checkedIn, withdrawn, astate>>
    BY <1>1, <1>7 DEF QueryRsvps, Goto, SettlementTypeOK, vars
  <2>2. IsFiniteSet(items'[c])
    BY <2>1, FewItems
  <2>3. ASSUME NEW r \in S PROVE Kept(Item(r))
    <3>1. /\ Item(r).rsvp = r /\ Item(r).ver = ver[r] /\ Item(r).alloc = allocOf[r]
          /\ Item(r).checkedIn = (r \in checkedIn)
      BY Zenon DEF Item
    <3>2. ver[r] \in Nat /\ r \notin withdrawn /\ astate[allocOf[r]] # "none"
      BY <1>1 DEF RecordedExists, TypeOK
    <3>3. ver[r] =< ver[r]
      BY <3>2
    <3> QED
      BY Zenon, <3>1, <3>2, <3>3 DEF Kept
  <2>4. ASSUME NEW i \in items'[c] PROVE Kept(i)'
    <3>1. PICK r \in S : i = Item(r)
      BY <2>1
    <3>2. Kept(i)
      BY <2>3, <3>1
    <3> QED
      BY <2>1, <3>2 DEF Kept
  <2> QED
    BY <2>1, <2>2, <2>4, <1>3 DEF Progress
<1>8. CASE QueryAllocs(c)
  <2>1. /\ items'[c] = {i \in items[c] : Active(i.alloc)}
        /\ left'[c] = {i \in items[c] : ~Active(i.alloc)}
        /\ pc'[c] = "preflight"
        /\ astate' = astate
    BY <1>1, <1>8 DEF QueryAllocs, Goto, SettlementTypeOK, vars
  <2>2. IsFiniteSet(items'[c])
    BY <1>1, <2>1, FS_Subset DEF Progress
  <2> QED
    BY <2>1, <2>2, <1>3 DEF Progress, Active
<1>9. ASSUME NEW i \in left[c], PreflightMark(c, i)
      PROVE  Progress(c)'
  <2>1. /\ items'[c] = items[c] /\ left'[c] \subseteq left[c]
        /\ pc'[c] = "preflight" /\ pc[c] = "preflight"
    BY <1>1, <1>9 DEF PreflightMark, SettlementTypeOK
  <2>2. \A j \in left[c] : ~Active(j.alloc)'
    BY <1>1, <1>2, <2>1, GoneStays DEF Progress, Kept, Items
  <2> QED
    BY <1>1, <1>3, <2>1, <2>2 DEF Progress
<1>10. CASE EndEvent(c) \/ ResumeEnded(c)
  <2>1. items'[c] = items[c] /\ left'[c] = items[c] /\ pc'[c] = "closing"
    BY <1>1, <1>10 DEF EndEvent, ResumeEnded, Goto, SettlementTypeOK
  <2> QED
    BY <1>1, <1>3, <2>1 DEF Progress
<1>11. CASE EndEventFails(c) \/ FinishFails(c) \/ Finish(c) \/ Die(c)
  BY <1>1, <1>5, <1>11 DEF EndEventFails, FinishFails, Finish, Die, Abort, Goto, SettlementTypeOK
<1>12. ASSUME NEW B \in SUBSET left[c], SubmitFails(c, B)
       PROVE  Progress(c)'
  BY <1>5, <1>12 DEF SubmitFails, Abort, Goto
<1>13. ASSUME NEW B \in SUBSET left[c], SubmitClose(c, B)
       PROVE  Progress(c)'
  <2>1. pc[c] = "closing" /\ left[c] \subseteq items[c] /\ items' = items
    BY <1>1, <1>13 DEF SubmitClose, Progress
  <2>2. ASSUME NEW i \in B PROVE stage'[i.rsvp] = Result(i)
    <3>1. /\ ver[i.rsvp] = i.ver /\ i.rsvp \in Rsvps /\ Kept(i)
          /\ stage' = [r \in Rsvps |-> IF r \in {j.rsvp : j \in B}
                                       THEN Outcome(r) ELSE stage[r]]
      BY <1>1, <1>13 DEF SubmitClose, Acceptable, CloseEvent, Items, Progress
    <3>2. i.rsvp \in checkedIn <=> i.checkedIn
      BY <3>1 DEF Kept
    <3> QED
      BY <3>1, <3>2 DEF Outcome, Result
  <2>3. \A i \in items[c] \ left[c] : stage'[i.rsvp] = Result(i)
    BY <1>1, <1>4, <2>1 DEF Progress
  <2>4. CASE /\ B # left[c]
             /\ left' = [left EXCEPT ![c] = @ \ B]
             /\ UNCHANGED pc
    <3>1. left'[c] = left[c] \ B /\ pc'[c] = "closing"
      BY <1>1, <2>1, <2>4 DEF SettlementTypeOK
    <3>2. \A i \in items[c] \ left'[c] : stage'[i.rsvp] = Result(i)
      BY <2>2, <2>3, <3>1
    <3> QED
      BY <1>1, <1>3, <2>1, <3>1, <3>2 DEF Progress, Result
  <2>5. CASE /\ B = left[c]
             /\ left' = [left EXCEPT ![c] = Payees(items[c])]
             /\ pc' = [pc EXCEPT ![c] = "payout"]
    <3>1. left'[c] = Payees(items[c]) /\ pc'[c] = "payout"
      BY <1>1, <2>5 DEF SettlementTypeOK
    <3>2. \A i \in items[c] : stage'[i.rsvp] = Result(i)
      BY <2>2, <2>3, <2>5
    <3>3. Payees(items[c]) \subseteq items[c]
      BY DEF Payees, Came
    <3> QED
      BY <1>1, <1>3, <2>1, <3>1, <3>2, <3>3
         DEF Progress, Result, Payees, Came, Share, Ghosts
  <2> QED
    BY <1>13, <2>4, <2>5 DEF SubmitClose
<1>14. CASE SubmitNothing(c)
  <2>1. /\ items' = items /\ left'[c] = Payees(items[c]) /\ pc'[c] = "payout"
        /\ pc[c] = "closing" /\ left[c] = {}
    BY <1>1, <1>14 DEF SubmitNothing, Goto, SettlementTypeOK
  <2>2. \A i \in items[c] : stage'[i.rsvp] = Result(i)
    BY <1>1, <1>4, <2>1 DEF Progress
  <2>3. Payees(items[c]) \subseteq items[c]
    BY DEF Payees, Came
  <2> QED
    BY <1>1, <1>3, <2>1, <2>2, <2>3 DEF Progress, Result, Payees, Came, Share, Ghosts
<1>15. ASSUME NEW B \in SUBSET left[c], PayOut(c, B) \/ PayOutFails(c, B)
       PROVE  Progress(c)'
  <2>1. /\ items' = items /\ left'[c] \subseteq left[c] /\ pc'[c] = "payout"
        /\ pc[c] = "payout"
    BY <1>1, <1>15 DEF PayOut, PayOutFails, SettlementTypeOK
  <2>2. \A i \in items[c] : stage'[i.rsvp] = Result(i)
    BY <1>1, <1>4, <2>1 DEF Progress
  <2> QED
    BY <1>1, <1>3, <2>1, <2>2 DEF Progress, Result, Payees, Came, Share, Ghosts
<1> QED
  BY <1>6, <1>7, <1>8, <1>9, <1>10, <1>11, <1>12, <1>13, <1>14, <1>15 DEF Request

(* Requests do not touch each other's records. *)
LEMMA OthersUntouched ==
    ASSUME SettlementTypeOK, [SettlementNext]_svars, NEW d \in Closes,
           ~(SettlementNext /\ (Request(d) \/ Die(d)))
    PROVE  pc'[d] = pc[d] /\ items'[d] = items[d] /\ left'[d] = left[d]
<1> USE DEF SettlementTypeOK, Goto, Forget, Abort, closeVars
<1>1. ASSUME NEW c \in Closes, c # d,
             \/ Begin(c) \/ QueryRsvps(c) \/ QueryAllocs(c) \/ EndEvent(c) \/ ResumeEnded(c)
             \/ EndEventFails(c) \/ SubmitNothing(c) \/ Finish(c) \/ FinishFails(c) \/ Die(c)
      PROVE  pc'[d] = pc[d] /\ items'[d] = items[d] /\ left'[d] = left[d]
  BY <1>1 DEF Begin, QueryRsvps, QueryAllocs, EndEvent, ResumeEnded, EndEventFails,
              SubmitNothing, Finish, FinishFails, Die
<1>2. ASSUME NEW c \in Closes, c # d, NEW i \in left[c], PreflightMark(c, i)
      PROVE  pc'[d] = pc[d] /\ items'[d] = items[d] /\ left'[d] = left[d]
  BY <1>2 DEF PreflightMark
<1>3. ASSUME NEW c \in Closes, c # d, NEW B \in SUBSET left[c],
             SubmitClose(c, B) \/ SubmitFails(c, B) \/ PayOut(c, B) \/ PayOutFails(c, B)
      PROVE  pc'[d] = pc[d] /\ items'[d] = items[d] /\ left'[d] = left[d]
  BY <1>3 DEF SubmitClose, SubmitFails, PayOut, PayOutFails
<1>4. CASE UNCHANGED closeVars
  BY <1>4
<1> QED
  BY <1>1, <1>2, <1>3, <1>4 DEF SettlementNext, Request, Welcome, Watch, TakeBack, Attendee,
                                  Project, svars

LEMMA WorkStep == Work /\ [SettlementNext]_svars => Work'
<1> SUFFICES ASSUME Work, [SettlementNext]_svars PROVE Work'
  OBVIOUS
<1>1. SettlementTypeOK /\ SettlementTypeOK' /\ [Next]_vars
  BY SettlementTypeStep, ChoicesOnly DEF Work
<1>2. Recorded'
  BY <1>1, RecordedStep DEF Work
<1>3. ASSUME NEW d \in Closes PROVE Progress(d)'
  <2>1. CASE SettlementNext /\ (Request(d) \/ Die(d))
    BY <2>1, OwnProgress
  <2>2. CASE ~(SettlementNext /\ (Request(d) \/ Die(d)))
    <3>1. pc'[d] = pc[d] /\ items'[d] = items[d] /\ left'[d] = left[d]
      BY <1>1, <2>2, OthersUntouched
    <3> QED
      BY <1>1, <3>1, ProgressKept DEF Work
  <2> QED
    BY <2>1, <2>2
<1> QED
  BY <1>1, <1>2, <1>3 DEF Work

(* The requests' records stay well formed, however many requests there are,  *)
(* and every payout is a number of units.                                    *)
THEOREM SettlementTypes == SettlementSpec => []SettlementTypeOK
<1>1. Work => SettlementTypeOK
  BY DEF Work
<1> QED
  BY WorkInit, WorkStep, <1>1, PTL DEF SettlementSpec

(* What a request pays out is computed from what the ledger did.  The items  *)
(* are from before the settlement, but CloseEvent names their contract ids,  *)
(* and none of these is active once the RSVP has changed (Kept).             *)
THEOREM PayoutsMatch == SettlementSpec => []PayoutsMatchLedger
<1>1. Work => PayoutsMatchLedger
  BY DEF Work, Progress, Result, PayoutsMatchLedger
<1> QED
  BY WorkInit, WorkStep, <1>1, PTL DEF SettlementSpec

-------------------------------------------------------------------------------
(* Whoever came *)

(* A check-in is only ever lost to a withdrawal, and that is not forgotten.  *)
Remembered == attended \subseteq checkedIn \cup withdrawn

LEMMA RememberedStep ==
    ASSUME Work, Remembered, AttendedNotSlashed, [SettlementNext]_svars
    PROVE  Remembered' /\ AttendedNotSlashed'
<1>1. SettlementTypeOK /\ TypeOK /\ [Next]_vars /\ \A c \in Closes : Progress(c)
  BY ChoicesOnly DEF Work, SettlementTypeOK
<1> USE <1>1, EscrowConstants
    DEF Remembered, AttendedNotSlashed, SlashedRsvps, TypeOK, eventVars, rsvpVars, allocVars
<1>2. CASE UNCHANGED <<attended, checkedIn, withdrawn, stage>>
  BY <1>2
<1>3. ASSUME NEW c \in Closes, NEW B \in SUBSET left[c], SubmitClose(c, B)
      PROVE  Remembered' /\ AttendedNotSlashed'
  <2>1. /\ UNCHANGED <<attended, checkedIn, withdrawn>>
        /\ stage' = [r \in Rsvps |-> IF r \in {j.rsvp : j \in B}
                                     THEN Outcome(r) ELSE stage[r]]
    BY <1>3 DEF SubmitClose, CloseEvent
  <2>2. ASSUME NEW i \in B PROVE i.rsvp \notin withdrawn
    BY <1>3 DEF SubmitClose, Acceptable, Progress, Kept
  <2>3. ASSUME NEW r \in attended PROVE stage'[r] # "slashed"
    <3>1. CASE r \in {j.rsvp : j \in B}
      <4>1. r \notin withdrawn
        BY <2>2, <3>1
      <4> QED
        BY <2>1, <3>1, <4>1 DEF Outcome
    <3>2. CASE r \notin {j.rsvp : j \in B}
      BY <2>1, <3>2
    <3> QED
      BY <3>1, <3>2
  <2> QED
    BY <2>1, <2>3
<1>4. ASSUME NEW r \in Rsvps, Welcome(r)
      PROVE  Remembered' /\ AttendedNotSlashed'
  <2>1. stage[r] = "live" /\ stage' = stage
    BY <1>4 DEF Welcome, CheckIn, Recreate
  <2> QED
    BY <1>4, <2>1 DEF Welcome, CheckIn, Recreate
<1>5. ASSUME NEW r \in Rsvps, MarkWithdrawn(r), UNCHANGED attended
      PROVE  Remembered' /\ AttendedNotSlashed'
  BY <1>5 DEF MarkWithdrawn, Recreate
<1>6. CASE Attendee
  <2>1. ASSUME NEW r \in Rsvps, CancelRSVP(r)
        PROVE  Remembered' /\ AttendedNotSlashed'
    BY <1>6, <2>1 DEF CancelRSVP, Attendee
  <2>2. ASSUME NEW r \in Rsvps, NEW a \in Allocs, RecordAllocation(r, a)
        PROVE  Remembered' /\ AttendedNotSlashed'
    BY <1>2, <1>6, <2>2 DEF RecordAllocation, Recreate, Attendee
  <2>3. ASSUME NEW a \in Allocs, NEW s \in Specs, Allocate(a, s)
        PROVE  Remembered' /\ AttendedNotSlashed'
    BY <1>2, <1>6, <2>3 DEF Allocate, Attendee
  <2> QED
    BY <1>2, <1>6, <2>1, <2>2, <2>3 DEF Attendee, Tick
<1>7. ASSUME NEW c \in Closes, Request(c) \/ Die(c),
             ~ \E B \in SUBSET left[c] : SubmitClose(c, B)
      PROVE  Remembered' /\ AttendedNotSlashed'
  <2>1. ASSUME NEW i \in left[c], PreflightMark(c, i)
        PROVE  Remembered' /\ AttendedNotSlashed'
    BY <1>2, <1>5, <2>1 DEF PreflightMark, vars, SettlementTypeOK, Items
  <2>2. CASE \/ Begin(c) \/ QueryRsvps(c) \/ QueryAllocs(c) \/ EndEvent(c) \/ ResumeEnded(c)
             \/ EndEventFails(c) \/ SubmitNothing(c) \/ Finish(c) \/ FinishFails(c) \/ Die(c)
    BY <1>2, <2>2 DEF Begin, QueryRsvps, QueryAllocs, EndEvent, ResumeEnded, EndEventFails,
              SubmitNothing, Finish, FinishFails, Die, Abort, EndEventEarly, MarkSettled, vars
  <2>3. ASSUME NEW B \in SUBSET left[c], SubmitFails(c, B) \/ PayOut(c, B) \/ PayOutFails(c, B)
        PROVE  Remembered' /\ AttendedNotSlashed'
    BY <1>2, <2>3 DEF SubmitFails, PayOut, PayOutFails, Abort, vars
  <2> QED
    BY <1>7, <2>1, <2>2, <2>3 DEF Request
<1>8. ASSUME NEW a \in Allocs, TakeBack(a)
      PROVE  Remembered' /\ AttendedNotSlashed'
  BY <1>2, <1>8 DEF TakeBack, AllocationWithdraw
<1> QED
  BY <1>2, <1>3, <1>4, <1>5, <1>6, <1>7, <1>8
     DEF SettlementNext, Watch, Project, vars, svars

(* Show up and get it back: whoever was ever checked in is never slashed,    *)
(* whatever the requests raced with.  A stake that was withdrawn and made    *)
(* anew is not settled at all, for its RSVP stays marked as withdrawn.       *)
THEOREM AttendedSafe == SettlementSpec => []AttendedNotSlashed
<1> DEFINE Safe == Work /\ Remembered /\ AttendedNotSlashed
<1>1. SettlementInit => Safe
  BY WorkInit DEF SettlementInit, Remembered, AttendedNotSlashed
<1>2. Safe /\ [SettlementNext]_svars => Safe'
  BY WorkStep, RememberedStep
<1>3. Safe => AttendedNotSlashed
  OBVIOUS
<1> QED
  BY <1>1, <1>2, <1>3, PTL DEF SettlementSpec

-------------------------------------------------------------------------------
(* What is marked as withdrawn *)

(* What the flag of a row tells of the RSVP, where it is the only one of the *)
(* row: until it is marked as withdrawn it names the stake that was taken    *)
(* back, for RecordAllocation needs one that names none.                     *)
FlagTrue ==
    \A r \in Rsvps :
        Alone(r) /\ AttendeeOf[r] \in readModel.flagged /\ r \notin withdrawn =>
            allocOf[r] # NoAlloc /\ ~Active(allocOf[r])

(* An RSVP only lets go of an allocation as it is marked, and stays marked.  *)
LEMMA NamedStays ==
    ASSUME TypeOK, [Next]_vars, NEW r \in Rsvps, r \notin withdrawn'
    PROVE  /\ r \notin withdrawn
           /\ allocOf[r] # NoAlloc => allocOf'[r] = allocOf[r]
<1> USE EscrowConstants DEF TypeOK, eventVars, rsvpVars, allocVars
<1>1. CASE UNCHANGED <<allocOf, withdrawn>>
  BY <1>1
<1>2. ASSUME NEW q \in Rsvps, NEW a \in Allocs, RecordAllocation(q, a)
      PROVE  /\ r \notin withdrawn
             /\ allocOf[r] # NoAlloc => allocOf'[r] = allocOf[r]
  BY <1>2 DEF RecordAllocation
<1>3. ASSUME NEW q \in Rsvps, MarkWithdrawn(q)
      PROVE  /\ r \notin withdrawn
             /\ allocOf[r] # NoAlloc => allocOf'[r] = allocOf[r]
  BY <1>3 DEF MarkWithdrawn
<1> QED
  BY <1>1, <1>2, <1>3
     DEF Next, EventNext, RsvpNext, AllocNext, vars, EP_Accept, EP_Cancel,
         EndEventEarly, MarkSettled, InviteAttendee, AcceptRSVP, DeclineRSVP,
         RevokeInvite, RejectRequest, CancelRSVP, CheckIn, CloseEvent, Tick,
         Allocate, AllocationWithdraw

(* Nobody but the indexer's E12 sets a flag. *)
LEMMA FlagsOf ==
    ASSUME SettlementTypeOK, [SettlementNext]_svars
    PROVE  \/ readModel'.flagged = readModel.flagged
           \/ \E a \in Allocs : TakeBack(a)
<1> SUFFICES ASSUME SettlementNext, ~ \E a \in Allocs : TakeBack(a)
             PROVE  readModel'.flagged = readModel.flagged
  BY DEF svars
<1> USE DEF SettlementTypeOK
<1>1. CASE UNCHANGED readModel
  BY <1>1
<1>2. CASE Project
  BY <1>2 DEF Project
<1>3. ASSUME NEW c \in Closes, Request(c) \/ Die(c)
      PROVE  UNCHANGED readModel
  BY <1>3 DEF Request, Die, Begin, QueryRsvps, QueryAllocs, PreflightMark, EndEvent,
              ResumeEnded, EndEventFails, SubmitClose, SubmitNothing, SubmitFails,
              PayOut, PayOutFails, Finish, FinishFails, Abort
<1> QED
  BY <1>1, <1>2, <1>3 DEF SettlementNext, Welcome, Watch, Attendee

LEMMA FlagStep == Work /\ FlagTrue /\ [SettlementNext]_svars => FlagTrue'
<1> SUFFICES ASSUME Work, FlagTrue, [SettlementNext]_svars,
                    NEW r \in Rsvps, Alone(r),
                    AttendeeOf[r] \in readModel'.flagged, r \notin withdrawn'
             PROVE  allocOf'[r] # NoAlloc /\ ~Active(allocOf[r])'
  BY DEF FlagTrue, Alone
<1>1. SettlementTypeOK /\ TypeOK /\ RecordedExists /\ [Next]_vars
  BY ChoicesOnly DEF Work, SettlementTypeOK, Recorded
<1>2. /\ r \notin withdrawn
      /\ allocOf[r] # NoAlloc => allocOf'[r] = allocOf[r]
  BY <1>1, NamedStays
<1>3. CASE AttendeeOf[r] \in readModel.flagged
  <2>1. allocOf[r] \in Allocs /\ ~Active(allocOf[r]) /\ astate[allocOf[r]] # "none"
    BY <1>1, <1>2, <1>3 DEF FlagTrue, RecordedExists, TypeOK
  <2>2. PICK a \in Allocs : a = allocOf[r]
    BY <2>1
  <2>3. ~Active(a)'
    BY <1>1, <2>1, <2>2, GoneStays
  <2>4. allocOf'[r] = a
    BY <1>2, <2>2, EscrowConstants
  <2> QED
    BY <2>2, <2>3, <2>4, EscrowConstants DEF Active
<1>4. CASE AttendeeOf[r] \notin readModel.flagged
  <2>1. PICK a \in Allocs : TakeBack(a)
    BY <1>1, <1>4, FlagsOf
  <2>2. AttendeeOf[r] \in StakedWith(a)
    BY <1>1, <1>4, <2>1 DEF TakeBack, SettlementTypeOK
  <2>3. allocOf[r] = a
    BY <2>2 DEF StakedWith, Alone
  <2>4. allocOf'[r] = a /\ astate'[a] = "withdrawn"
    BY <1>1, <1>2, <2>1, <2>3, EscrowConstants DEF TakeBack, AllocationWithdraw, TypeOK
  <2> QED
    BY <2>1, <2>4, EscrowConstants DEF Active
<1> QED
  BY <1>3, <1>4

LEMMA ActiveStep ==
    Work /\ FlagTrue /\ [SettlementNext]_svars =>
        [\A r \in Rsvps : Active(allocOf[r]) /\ allocOf'[r] # allocOf[r] =>
                              Watch(r) /\ ~Alone(r)]_svars
<1> SUFFICES ASSUME Work, FlagTrue, SettlementNext, NEW r \in Rsvps,
                    Active(allocOf[r]), allocOf'[r] # allocOf[r]
             PROVE  Watch(r) /\ ~Alone(r)
  OBVIOUS
<1>1. SettlementTypeOK /\ TypeOK /\ \A c \in Closes : Progress(c)
  BY DEF Work, SettlementTypeOK
<1> USE <1>1, EscrowConstants DEF TypeOK, eventVars, rsvpVars, allocVars
<1>2. ASSUME NEW c \in Closes, NEW i \in left[c], PreflightMark(c, i)
      PROVE  allocOf'[r] = allocOf[r]
  <2>1. CASE UNCHANGED vars
    BY <2>1 DEF vars
  <2>2. CASE ver[i.rsvp] = i.ver /\ MarkWithdrawn(i.rsvp)
    <3>1. i.rsvp \in Rsvps /\ Kept(i) /\ ~Active(i.alloc)
      BY <1>2 DEF PreflightMark, Progress, SettlementTypeOK, Items
    <3>2. ~Active(allocOf[i.rsvp])
      BY <2>2, <3>1 DEF Kept
    <3> QED
      BY <2>2, <3>1, <3>2 DEF MarkWithdrawn
  <2> QED
    BY <1>2, <2>1, <2>2 DEF PreflightMark
<1>3. ASSUME NEW c \in Closes,
             \/ Begin(c) \/ QueryRsvps(c) \/ QueryAllocs(c) \/ EndEvent(c) \/ ResumeEnded(c)
             \/ EndEventFails(c) \/ SubmitNothing(c) \/ Finish(c) \/ FinishFails(c) \/ Die(c)
      PROVE  allocOf'[r] = allocOf[r]
  BY <1>3 DEF Begin, QueryRsvps, QueryAllocs, EndEvent, ResumeEnded, EndEventFails,
              SubmitNothing, Finish, FinishFails, Die, Abort, EndEventEarly, MarkSettled, vars
<1>4. ASSUME NEW c \in Closes, NEW B \in SUBSET left[c],
             SubmitClose(c, B) \/ SubmitFails(c, B) \/ PayOut(c, B) \/ PayOutFails(c, B)
      PROVE  allocOf'[r] = allocOf[r]
  BY <1>4 DEF SubmitClose, SubmitFails, PayOut, PayOutFails, Abort, CloseEvent, vars
<1>5. ASSUME NEW q \in Rsvps, Welcome(q)
      PROVE  allocOf'[r] = allocOf[r]
  BY <1>5 DEF Welcome, CheckIn
<1>6. ASSUME NEW a \in Allocs, TakeBack(a)
      PROVE  allocOf'[r] = allocOf[r]
  BY <1>6 DEF TakeBack, AllocationWithdraw
<1>7. CASE Attendee
  BY <1>7 DEF Attendee, CancelRSVP, RecordAllocation, Active, Allocate, Tick
<1>8. CASE Project
  BY <1>8 DEF Project, vars
<1>9. Watch(r)
  <2>1. PICK q \in Rsvps : Watch(q)
    BY <1>2, <1>3, <1>4, <1>5, <1>6, <1>7, <1>8 DEF SettlementNext, Request
  <2>2. q = r
    BY <2>1 DEF Watch, MarkWithdrawn
  <2> QED
    BY <2>1, <2>2
<1>10. ~Alone(r)
  BY <1>9 DEF Watch, FlagTrue
<1> QED
  BY <1>9, <1>10

(* No RSVP loses a stake that is still locked, where it is the only one of   *)
(* its attendee; and preflight takes none from any.  What preflight found    *)
(* archived stays archived, and the contract id it submits names the RSVP    *)
(* that still records it.  The watcher's flag is never reset, but an RSVP    *)
(* that is not marked as withdrawn still names the stake the flag is about   *)
(* (FlagTrue), unless another RSVP shares the row.                           *)
THEOREM ActiveKept == SettlementSpec => ActiveStakeKept
<1> DEFINE Safe == Work /\ FlagTrue
<1>1. SettlementInit => Safe
  BY WorkInit DEF SettlementInit, FlagTrue
<1>2. Safe /\ [SettlementNext]_svars => Safe'
  BY WorkStep, FlagStep
<1>3. Safe /\ [SettlementNext]_svars =>
        [\A r \in Rsvps : Active(allocOf[r]) /\ allocOf'[r] # allocOf[r] =>
                              Watch(r) /\ ~Alone(r)]_svars
  BY ActiveStep
<1> QED
  BY <1>1, <1>2, <1>3, PTL DEF SettlementSpec, ActiveStakeKept

-------------------------------------------------------------------------------
(* The books balance while any number of requests close the event, whatever  *)
(* they read too early and wherever they die.                                *)
THEOREM BooksThroughout == SettlementSpec => []StakeAccounted
<1> DEFINE Safe == Work /\ Books
<1>1. SettlementInit => Safe
  <2> SUFFICES ASSUME SettlementInit PROVE Books
    BY WorkInit
  <2>1. Recorded
    BY WorkInit DEF Work
  <2>2. \A r \in Rsvps : stage[r] = "live" /\ Spent(r) = "no"
    BY DEF SettlementInit, Spent
  <2>3. \A a \in Allocs : astate[a] \in {"none", "locked"}
    BY DEF SettlementInit
  <2>4. CheckedInHoldsStake
    BY DEF SettlementInit, CheckedInHoldsStake
  <2> QED
    BY <2>1, <2>2, <2>3, <2>4 DEF Books, Recorded, StakeAccounted
<1>2. Safe /\ [SettlementNext]_svars => Safe'
  BY WorkStep, ChoicesOnly, BooksStep DEF Work
<1>3. Safe => StakeAccounted
  BY DEF Books
<1> QED
  BY <1>1, <1>2, <1>3, PTL DEF SettlementSpec
-------------------------------------------------------------------------------
(* The pot *)

RsvpsOf(I) == {i.rsvp : i \in I}

(* The RSVPs a request in step p settled, from its items and what is left.   *)
Settled(p, I, L) ==
    IF p = "closing" THEN RsvpsOf(I \ L)
    ELSE IF p = "payout" THEN RsvpsOf(I) ELSE {}

Did(c) == Settled(pc[c], items[c], left[c])

(* What was paid to S is covered by what the no-shows X among S forfeited.   *)
Covered(P, S, X) == SumFunctionOnSet(P, S) =< Stake * Cardinality(S \cap X)

LEMMA Amounts ==
    ASSUME NEW P \in [Rsvps -> Nat], NEW S \in SUBSET Rsvps, NEW X
    PROVE  /\ IsFiniteSet(S) /\ IsFiniteSet(S \cap X)
           /\ SumFunctionOnSet(P, S) \in Nat
           /\ Cardinality(S \cap X) \in Nat
           /\ Stake * Cardinality(S \cap X) \in Nat
<1>1. IsFiniteSet(S) /\ IsFiniteSet(S \cap X)
  BY SettlementConstants, FS_Subset
<1>2. SumFunctionOnSet(P, S) \in Nat
  BY <1>1, SumNat
<1>3. Cardinality(S \cap X) \in Nat
  BY <1>1, FS_CardinalityType
<1>4. Stake \in Nat
  BY SettlementConstants
<1> QED
  BY <1>1, <1>2, <1>3, <1>4

LEMMA CoveredLess ==
    ASSUME NEW P \in [Rsvps -> Nat], NEW S \in SUBSET Rsvps, NEW T \in SUBSET S,
           NEW X, NEW Y, S \cap X \subseteq Y, S \cap X \subseteq T, Covered(P, S, X)
    PROVE  Covered(P, T, Y)
<1>1. SumFunctionOnSet(P, T) =< SumFunctionOnSet(P, S)
  BY Amounts, SumPart
<1>2. S \cap X \subseteq T \cap Y
  OBVIOUS
<1>3. Cardinality(S \cap X) =< Cardinality(T \cap Y)
  BY <1>2, Amounts, FS_Subset
<1>4. /\ SumFunctionOnSet(P, S) \in Nat /\ SumFunctionOnSet(P, T) \in Nat
      /\ Cardinality(S \cap X) \in Nat /\ Cardinality(T \cap Y) \in Nat
      /\ Stake \in Nat
  BY Amounts, SettlementConstants
<1>5. Stake * Cardinality(S \cap X) =< Stake * Cardinality(T \cap Y)
  BY <1>3, <1>4
<1>6. Stake * Cardinality(S \cap X) \in Nat /\ Stake * Cardinality(T \cap Y) \in Nat
  BY Amounts
<1> QED
  BY <1>1, <1>4, <1>5, <1>6 DEF Covered

LEMMA CoveredBoth ==
    ASSUME NEW P \in [Rsvps -> Nat], NEW S \in SUBSET Rsvps, NEW T \in SUBSET Rsvps,
           S \cap T = {}, NEW X, Covered(P, S, X), Covered(P, T, X)
    PROVE  Covered(P, S \cup T, X)
<1>1. SumFunctionOnSet(P, S \cup T) = SumFunctionOnSet(P, S) + SumFunctionOnSet(P, T)
  BY Amounts, SumUnion
<1>2. (S \cup T) \cap X = (S \cap X) \cup (T \cap X) /\ (S \cap X) \cap (T \cap X) = {}
  OBVIOUS
<1> DEFINE A == S \cap X
           B == T \cap X
<1>3. IsFiniteSet(A) /\ IsFiniteSet(B) /\ Cardinality(A) \in Nat /\ Cardinality(B) \in Nat
  BY Amounts
<1>4. Cardinality(A \cup B) = Cardinality(A) + Cardinality(B)
  <2> HIDE DEF A, B
  <2>1. A \cap B = {}
    BY <1>2 DEF A, B
  <2>2. Cardinality(A \cap B) = 0
    BY <2>1, FS_EmptySet
  <2>3. Cardinality(A \cup B) = Cardinality(A) + Cardinality(B) - Cardinality(A \cap B)
    BY <1>3, FS_Union
  <2> QED
    BY <1>3, <2>2, <2>3
<1>5. Stake * (Cardinality(A) + Cardinality(B)) = Stake * Cardinality(A) + Stake * Cardinality(B)
  <2> HIDE DEF A, B
  <2> QED
    BY <1>3, SettlementConstants
<1>6. /\ SumFunctionOnSet(P, S) \in Nat /\ SumFunctionOnSet(P, T) \in Nat
      /\ Stake * Cardinality(A) \in Nat /\ Stake * Cardinality(B) \in Nat
  BY Amounts
<1>7. SumFunctionOnSet(P, S) =< Stake * Cardinality(A)
  BY DEF Covered
<1>8. SumFunctionOnSet(P, T) =< Stake * Cardinality(B)
  BY DEF Covered
<1>9. Cardinality((S \cup T) \cap X) = Cardinality(A) + Cardinality(B)
  BY <1>2, <1>4
<1> HIDE DEF A, B
<1>10. SumFunctionOnSet(P, S \cup T) =< Stake * (Cardinality(A) + Cardinality(B))
  BY <1>1, <1>5, <1>6, <1>7, <1>8
<1> QED
  BY <1>9, <1>10 DEF Covered

(* Items of different RSVPs are as many as the RSVPs. *)
LEMMA AsManyRsvps ==
    ASSUME NEW I, IsFiniteSet(I), \A i, j \in I : i.rsvp = j.rsvp => i = j
    PROVE  IsFiniteSet(RsvpsOf(I)) /\ Cardinality(RsvpsOf(I)) = Cardinality(I)
<1> DEFINE f == [i \in I |-> i.rsvp]
<1>1. f \in Surjection(I, RsvpsOf(I)) /\ f \in Injection(I, RsvpsOf(I))
  BY DEF Surjection, Injection, IsInjective, RsvpsOf
<1> QED
  BY <1>1, FS_Surjection

(* The shares of those who came are no more than the stakes of the others.   *)
LEMMA SharesCovered ==
    ASSUME NEW I, IsFiniteSet(I), Payees(I) # {}
    PROVE  /\ Share(I) \in Nat
           /\ Share(I) * Cardinality(Came(I)) =< Stake * Cardinality(Ghosts(I))
<1>1. IsFiniteSet(Came(I)) /\ IsFiniteSet(Ghosts(I)) /\ Came(I) # {}
  BY FS_Subset DEF Came, Ghosts, Payees
<1>2. Cardinality(Came(I)) \in Nat /\ Cardinality(Ghosts(I)) \in Nat
  BY <1>1, FS_CardinalityType
<1>3. Cardinality(Came(I)) # 0
  BY <1>1, FS_EmptySet
<1> DEFINE p == Stake * Cardinality(Ghosts(I))
           n == Cardinality(Came(I))
<1>4. p \in Nat /\ n \in Nat /\ n > 0
  BY <1>2, <1>3, SettlementConstants
<1>5. Share(I) = p \div n
  BY DEF Share
<1>6. p \div n \in Nat /\ (p \div n) * n =< p
  <2> HIDE DEF p, n
  <2> QED
    BY <1>4
<1> QED
  BY <1>5, <1>6

(* What one request pays is covered by the no-shows it settled.              *)
LEMMA CoveredOwn ==
    ASSUME NEW P \in [Rsvps -> Nat], NEW I \in SUBSET Items, IsFiniteSet(I),
           \A i, j \in I : i.rsvp = j.rsvp => i = j,
           \A i \in I : P[i.rsvp] = 0 \/ (i \in Payees(I) /\ P[i.rsvp] = Share(I)),
           NEW X, \A i \in I : ~i.checkedIn => i.rsvp \in X
    PROVE  Covered(P, RsvpsOf(I), X)
<1> DEFINE S == RsvpsOf(I)
           C == RsvpsOf(Came(I))
           G == RsvpsOf(Ghosts(I))
<1>1. /\ S \in SUBSET Rsvps /\ C \in SUBSET Rsvps /\ G \in SUBSET Rsvps
      /\ S = C \cup G /\ C \cap G = {} /\ G \subseteq S \cap X
  BY DEF RsvpsOf, Came, Ghosts, Items
<1>2. \A r \in G : P[r] = 0
  BY DEF RsvpsOf, Payees, Came, Ghosts
<1>3. IsFiniteSet(C) /\ IsFiniteSet(G) /\ IsFiniteSet(S \cap X)
  BY <1>1, Amounts
<1>4. SumFunctionOnSet(P, G) = 0
  <2>1. SumFunctionOnSet(P, G) = 0 * Cardinality(G)
    BY <1>2, <1>3, SumConstant
  <2>2. Cardinality(G) \in Nat
    BY <1>3, FS_CardinalityType
  <2> QED
    BY <2>1, <2>2
<1>5. SumFunctionOnSet(P, S) = SumFunctionOnSet(P, C)
  <2>1. \A r \in C \cup G : P[r] \in Nat
    BY <1>1
  <2>2. SumFunctionOnSet(P, C \cup G) = SumFunctionOnSet(P, C) + SumFunctionOnSet(P, G)
    BY <1>1, <1>3, <2>1, SumUnion
  <2>3. SumFunctionOnSet(P, C) \in Nat
    BY <1>1, Amounts
  <2> QED
    BY <1>1, <1>4, <2>2, <2>3
<1>6. IsFiniteSet(Came(I)) /\ IsFiniteSet(Ghosts(I))
  BY FS_Subset DEF Came, Ghosts
<1>7. Cardinality(C) = Cardinality(Came(I)) /\ Cardinality(G) = Cardinality(Ghosts(I))
  BY <1>6, AsManyRsvps DEF Came, Ghosts
<1>8. Cardinality(C) \in Nat /\ Cardinality(G) \in Nat /\ Cardinality(S \cap X) \in Nat
  BY <1>3, FS_CardinalityType
<1>9. Stake * Cardinality(G) =< Stake * Cardinality(S \cap X)
  <2>1. Cardinality(G) =< Cardinality(S \cap X)
    BY <1>1, <1>3, FS_Subset
  <2> HIDE DEF S, G
  <2> QED
    BY <1>8, <2>1, SettlementConstants
<1>10. SumFunctionOnSet(P, C) =< Stake * Cardinality(G)
  <2>1. CASE Payees(I) = {}
    <3>1. \A r \in C : P[r] = 0
      BY <2>1 DEF RsvpsOf, Came
    <3>2. SumFunctionOnSet(P, C) = 0 * Cardinality(C)
      BY <1>3, <3>1, SumConstant
    <3>3. Stake * Cardinality(G) \in Nat
      <4> HIDE DEF G
      <4> QED
        BY <1>8, SettlementConstants
    <3> QED
      BY <1>8, <3>2, <3>3
  <2>2. CASE Payees(I) # {}
    <3>1. /\ Share(I) \in Nat
          /\ Share(I) * Cardinality(Came(I)) =< Stake * Cardinality(Ghosts(I))
      BY <2>2, SharesCovered
    <3>2. \A r \in C : P[r] \in Nat /\ P[r] =< Share(I)
      BY <1>1, <3>1 DEF RsvpsOf, Came
    <3>3. SumFunctionOnSet(P, C) =< Share(I) * Cardinality(C)
      BY <1>3, <3>1, <3>2, SumBound
    <3>4. SumFunctionOnSet(P, C) \in Nat
      BY <1>1, Amounts
    <3>5. Share(I) * Cardinality(C) \in Nat /\ Stake * Cardinality(G) \in Nat
      <4> HIDE DEF C, G
      <4> QED
        BY <1>8, <3>1, SettlementConstants
    <3> QED
      BY <1>7, <3>1, <3>3, <3>4, <3>5
  <2> QED
    BY <2>1, <2>2
<1>11. /\ SumFunctionOnSet(P, S) \in Nat /\ Stake * Cardinality(S \cap X) \in Nat
       /\ Stake * Cardinality(G) \in Nat
  <2>1. G \cap X = G
    BY <1>1
  <2> QED
    BY <1>1, <2>1, Amounts
<1> QED
  BY <1>5, <1>9, <1>10, <1>11 DEF Covered

(* The RSVPs that none of the requests Q has settled. *)
Others(Q) == Rsvps \ UNION {Did(c) : c \in Q}

(* What request c paid of the RSVPs it settled: nothing while it submits,    *)
(* then a share to each payee it is through with.                            *)
Booked(c) ==
    /\ \A i, j \in items[c] : i.rsvp = j.rsvp => i = j
    /\ pc[c] = "closing" => \A r \in Did(c) : paid[r] = 0
    /\ pc[c] = "payout" => \A i \in items[c] :
          \/ paid[i.rsvp] = 0
          \/ i \in Payees(items[c]) \ left[c] /\ paid[i.rsvp] = Share(items[c])

(* No RSVP is settled by two requests, and whichever requests' settlements   *)
(* are left out, what was paid to the others is covered.                     *)
Purse ==
    /\ \A c \in Closes : Booked(c)
    /\ \A c, d \in Closes : c # d => Did(c) \cap Did(d) = {}
    /\ \A r \in Rsvps : stage[r] \notin {"refunded", "slashed"} => paid[r] = 0
    /\ \A Q \in SUBSET Closes : Covered(paid, Others(Q), SlashedRsvps)

LEMMA PurseInit == SettlementInit => Purse
<1> SUFFICES ASSUME SettlementInit PROVE Purse
  OBVIOUS
<1>1. /\ \A c \in Closes : pc[c] = "idle" /\ items[c] = {}
      /\ \A r \in Rsvps : paid[r] = 0
      /\ paid \in [Rsvps -> Nat]
  BY DEF SettlementInit
<1>2. \A c \in Closes : Booked(c) /\ Did(c) = {}
  BY <1>1 DEF Booked, Did, Settled
<1>3. ASSUME NEW Q \in SUBSET Closes PROVE Covered(paid, Others(Q), SlashedRsvps)
  <2> DEFINE S == Others(Q)
             X == SlashedRsvps
  <2>1. S \in SUBSET Rsvps
    BY DEF Others
  <2>2. IsFiniteSet(S) /\ Stake * Cardinality(S \cap X) \in Nat
    BY <1>1, <2>1, Amounts
  <2>3. SumFunctionOnSet(paid, S) = 0 * Cardinality(S)
    <3> HIDE DEF S
    <3> QED
      BY <1>1, <2>1, <2>2, SumConstant
  <2>4. Cardinality(S) \in Nat
    BY <2>2, FS_CardinalityType
  <2> QED
    BY <2>2, <2>3, <2>4 DEF Covered
<1> QED
  BY <1>1, <1>2, <1>3 DEF Purse

LEMMA DidRsvps ==
    ASSUME Work, NEW c \in Closes
    PROVE  /\ Did(c) \subseteq Rsvps
           /\ \A r \in Did(c) : stage[r] \in {"refunded", "slashed"}
BY DEF Work, SettlementTypeOK, Progress, Result, Did, Settled, RsvpsOf, Items

(* A request that is let alone, and whose RSVPs are paid nothing.            *)
LEMMA BookedKept ==
    ASSUME NEW c \in Closes, Booked(c), \A r \in Did(c) : paid'[r] = paid[r],
           pc'[c] = pc[c], items'[c] = items[c], left'[c] = left[c]
    PROVE  Booked(c)' /\ Did(c)' = Did(c)
BY DEF Booked, Did, Settled, RsvpsOf, Payees, Came, Ghosts, Share

(* Settled RSVPs stay settled: what covered the payouts is not given back.   *)
LEMMA SlashedStay ==
    ASSUME TypeOK, [Next]_vars
    PROVE  /\ SlashedRsvps \subseteq SlashedRsvps'
           /\ \A r \in Rsvps : stage'[r] \notin {"refunded", "slashed"} =>
                               stage[r] \notin {"refunded", "slashed"}
BY OutcomeStays DEF SlashedRsvps

(* Nobody is paid, and a request settles nothing more or ends.               *)
LEMMA PurseQuiet ==
    ASSUME Work, SettlementTypeOK', [Next]_vars, Purse, paid' = paid,
           \A c \in Closes : Booked(c)',
           \A c \in Closes : Did(c)' = Did(c) \/ Did(c)' = {}
    PROVE  Purse'
<1>1. SettlementTypeOK /\ TypeOK /\ paid \in [Rsvps -> Nat]
  BY DEF Work, SettlementTypeOK
<1>2. \A c, d \in Closes : c # d => Did(c)' \cap Did(d)' = {}
  BY DEF Purse
<1>3. \A r \in Rsvps : stage'[r] \notin {"refunded", "slashed"} => paid'[r] = 0
  BY <1>1, SlashedStay DEF Purse
<1>4. ASSUME NEW Q \in SUBSET Closes PROVE Covered(paid, Others(Q), SlashedRsvps)'
  <2> DEFINE R == {c \in Q : Did(c)' # {}}
  <2>1. UNION {Did(c)' : c \in Q} = UNION {Did(c) : c \in R}
    OBVIOUS
  <2>2. Others(Q)' = Others(R)
    BY <2>1 DEF Others
  <2>3. Covered(paid, Others(R), SlashedRsvps) /\ Others(R) \in SUBSET Rsvps
    BY DEF Purse, Others
  <2>4. Covered(paid, Others(R), SlashedRsvps')
    <3> HIDE DEF R
    <3>1. Others(R) \cap SlashedRsvps \subseteq SlashedRsvps'
      BY <1>1, SlashedStay
    <3> QED
      BY <1>1, <2>3, <3>1, CoveredLess
  <2>5. Covered(paid, Others(Q), SlashedRsvps)' <=> Covered(paid, Others(R), SlashedRsvps')
    BY <2>2 DEF Covered
  <2> QED
    BY <2>4, <2>5
<1> QED
  BY <1>2, <1>3, <1>4 DEF Purse

(* A request's own steps, but for those that settle or pay.                  *)
LEMMA OwnQuiet ==
    ASSUME Work, Purse, NEW c \in Closes, Request(c) \/ Die(c),
           ~ \E B \in SUBSET left[c] : SubmitClose(c, B) \/ PayOut(c, B)
    PROVE  Booked(c)' /\ (Did(c)' = Did(c) \/ Did(c)' = {}) /\ paid' = paid
<1>1. SettlementTypeOK /\ Booked(c)
  BY DEF Work, Purse
<1> USE <1>1 DEF SettlementTypeOK, Booked, Did, Settled, Goto
<1>2. CASE Begin(c)
  BY <1>2 DEF Begin
<1>3. CASE QueryRsvps(c)
  <2>1. \A r \in Rsvps : Item(r).rsvp = r
    BY DEF Item
  <2> QED
    BY <1>3, <2>1 DEF QueryRsvps
<1>4. CASE QueryAllocs(c)
  BY <1>4 DEF QueryAllocs
<1>5. ASSUME NEW i \in left[c], PreflightMark(c, i)
      PROVE  Booked(c)' /\ (Did(c)' = Did(c) \/ Did(c)' = {}) /\ paid' = paid
  BY <1>5 DEF PreflightMark
<1>6. CASE EndEvent(c) \/ ResumeEnded(c)
  BY <1>6 DEF EndEvent, ResumeEnded, RsvpsOf
<1>7. CASE EndEventFails(c) \/ FinishFails(c) \/ Finish(c) \/ Die(c)
  BY <1>7 DEF EndEventFails, FinishFails, Finish, Die, Abort, Forget
<1>8. ASSUME NEW B \in SUBSET left[c], SubmitFails(c, B)
      PROVE  Booked(c)' /\ (Did(c)' = Did(c) \/ Did(c)' = {}) /\ paid' = paid
  BY <1>8 DEF SubmitFails, Abort, Forget
<1>9. CASE SubmitNothing(c)
  <2>1. /\ pc[c] = "closing" /\ pc'[c] = "payout" /\ left[c] = {}
        /\ items' = items /\ paid' = paid
    BY <1>9 DEF SubmitNothing
  <2>2. \A i \in items[c] : paid[i.rsvp] = 0
    BY <2>1 DEF RsvpsOf
  <2> QED
    BY <2>1, <2>2
<1>10. ASSUME NEW B \in SUBSET left[c], PayOutFails(c, B)
       PROVE  Booked(c)' /\ (Did(c)' = Did(c) \/ Did(c)' = {}) /\ paid' = paid
  BY <1>10 DEF PayOutFails, Payees, Came, Share, Ghosts
<1> QED
  BY <1>2, <1>3, <1>4, <1>5, <1>6, <1>7, <1>8, <1>9, <1>10 DEF Request

(* The RSVPs of a CloseEvent were nobody's and unpaid until now.             *)
LEMMA PurseSubmit ==
    ASSUME Work, SettlementTypeOK', [Next]_vars, Purse,
           NEW c \in Closes, NEW B \in SUBSET left[c], SubmitClose(c, B)
    PROVE  Purse'
<1>1. /\ SettlementTypeOK /\ TypeOK /\ Progress(c) /\ Booked(c)
      /\ pc[c] = "closing" /\ left[c] \subseteq items[c] /\ items[c] \subseteq Items
      /\ paid \in [Rsvps -> Nat]
  BY DEF Work, SettlementTypeOK, Purse, Progress, SubmitClose
<1> DEFINE N == RsvpsOf(B)
<1>2. N \subseteq Rsvps /\ \A r \in N : stage[r] = "live" /\ paid[r] = 0
  <2>1. \A i \in B : i.rsvp \in Rsvps /\ stage[i.rsvp] = "live"
    BY <1>1 DEF SubmitClose, Acceptable, Settleable, Items
  <2> QED
    BY <2>1 DEF RsvpsOf, Purse
<1>3. items' = items /\ paid' = paid
  BY DEF SubmitClose
<1>4. \/ pc'[c] = "closing" /\ left'[c] = left[c] \ B
      \/ pc'[c] = "payout" /\ B = left[c]
  BY <1>1 DEF SubmitClose, SettlementTypeOK
<1>5. Did(c)' = Did(c) \cup N
  <2>1. Did(c) = RsvpsOf(items[c] \ left[c])
    BY <1>1 DEF Did, Settled
  <2>2. CASE pc'[c] = "closing" /\ left'[c] = left[c] \ B
    <3>1. Did(c)' = RsvpsOf(items[c] \ (left[c] \ B))
      BY <1>3, <2>2 DEF Did, Settled
    <3>2. items[c] \ (left[c] \ B) = (items[c] \ left[c]) \cup B
      BY <1>1
    <3> QED
      BY <2>1, <3>1, <3>2 DEF RsvpsOf
  <2>3. CASE pc'[c] = "payout" /\ B = left[c]
    <3>1. Did(c)' = RsvpsOf(items[c])
      BY <1>3, <2>3 DEF Did, Settled
    <3>2. items[c] = (items[c] \ left[c]) \cup B
      BY <1>1, <2>3
    <3> QED
      BY <2>1, <3>1, <3>2 DEF RsvpsOf
  <2> QED
    BY <1>4, <2>2, <2>3
<1>6. \A r \in Did(c)' : paid[r] = 0
  BY <1>1, <1>2, <1>5 DEF Booked
<1>7. Booked(c)'
  <2>1. CASE pc'[c] = "closing"
    BY <1>1, <1>3, <1>6, <2>1 DEF Booked
  <2>2. CASE pc'[c] = "payout"
    <3>1. \A i \in items'[c] : paid[i.rsvp] = 0
      BY <1>6, <2>2 DEF Did, Settled, RsvpsOf
    <3> QED
      BY <1>1, <1>3, <2>2, <3>1 DEF Booked
  <2> QED
    BY <1>4, <2>1, <2>2
<1>8. ASSUME NEW d \in Closes, d # c PROVE Booked(d)' /\ Did(d)' = Did(d)
  <2>1. pc'[d] = pc[d] /\ items'[d] = items[d] /\ left'[d] = left[d]
    BY <1>1, <1>8 DEF SubmitClose, SettlementTypeOK
  <2> QED
    BY <1>3, <2>1, BookedKept DEF Purse
<1>9. \A d \in Closes : N \cap Did(d) = {}
  BY <1>2, DidRsvps
<1>10. \A d, e \in Closes : d # e => Did(d)' \cap Did(e)' = {}
  <2> HIDE DEF N
  <2> QED
    BY <1>5, <1>8, <1>9 DEF Purse
<1>11. \A r \in Rsvps : stage'[r] \notin {"refunded", "slashed"} => paid'[r] = 0
  BY <1>1, <1>3, SlashedStay DEF Purse
<1>12. ASSUME NEW Q \in SUBSET Closes PROVE Covered(paid, Others(Q), SlashedRsvps)'
  <2> DEFINE S == Others(Q)
             T == Others(Q)'
  <2>1. T \subseteq S /\ S \ T \subseteq N /\ S \in SUBSET Rsvps
    <3> HIDE DEF N
    <3>1. \A d \in Closes : Did(d) \subseteq Did(d)' /\ Did(d)' \subseteq Did(d) \cup N
      BY <1>5, <1>8
    <3> QED
      BY <3>1 DEF Others
  <2>2. N \cap SlashedRsvps = {} /\ SlashedRsvps \subseteq SlashedRsvps'
    BY <1>1, <1>2, SlashedStay DEF SlashedRsvps
  <2>3. Covered(paid, S, SlashedRsvps)
    BY DEF Purse
  <2> HIDE DEF S, T, N
  <2>4. Covered(paid, T, SlashedRsvps')
    <3>1. S \cap SlashedRsvps \subseteq SlashedRsvps' /\ S \cap SlashedRsvps \subseteq T
      BY <2>1, <2>2
    <3> QED
      BY <1>1, <2>1, <2>3, <3>1, CoveredLess
  <2> QED
    BY <1>3, <2>4 DEF Covered, T
<1> QED
  BY <1>7, <1>8, <1>10, <1>11, <1>12 DEF Purse

(* A payee is paid a share once, and only by the request that settled it.    *)
LEMMA PursePay ==
    ASSUME Work, SettlementTypeOK', [Next]_vars, Purse,
           NEW c \in Closes, NEW B \in SUBSET left[c], PayOut(c, B)
    PROVE  Purse'
<1>1. /\ SettlementTypeOK /\ TypeOK /\ Progress(c) /\ Booked(c)
      /\ pc[c] = "payout" /\ pc' = pc /\ items' = items /\ UNCHANGED stage
      /\ left' = [left EXCEPT ![c] = @ \ B]
      /\ left[c] \subseteq Payees(items[c]) /\ items[c] \subseteq Items
      /\ paid \in [Rsvps -> Nat] /\ paid' \in [Rsvps -> Nat]
  BY DEF Work, SettlementTypeOK, Purse, Progress, PayOut, vars, rsvpVars
<1>2. left[c] \subseteq items[c]
  BY <1>1 DEF Payees, Came
<1>3. \A r \in Rsvps : paid'[r] = IF r \in RsvpsOf(B) THEN paid[r] + Share(items[c])
                                                       ELSE paid[r]
  BY DEF PayOut, RsvpsOf
<1>4. Did(c) = RsvpsOf(items[c]) /\ RsvpsOf(B) \subseteq Did(c) /\ Did(c) \subseteq Rsvps
  BY <1>1, <1>2, DidRsvps DEF Did, Settled, RsvpsOf
<1>5. Did(c)' = Did(c)
  BY <1>1 DEF Did, Settled
<1>6. ASSUME NEW i \in items[c]
      PROVE  \/ paid'[i.rsvp] = 0
             \/ /\ i \in Payees(items[c]) \ (left[c] \ B)
                /\ paid'[i.rsvp] = Share(items[c])
  <2>1. i.rsvp \in Rsvps
    BY <1>1 DEF Items
  <2>2. CASE i \in B
    <3>1. i \in left[c] /\ i \in Payees(items[c]) /\ i.rsvp \in RsvpsOf(B)
      BY <1>1, <2>2 DEF RsvpsOf
    <3>2. paid[i.rsvp] = 0
      BY <1>1, <3>1 DEF Booked
    <3>3. Share(items[c]) \in Nat
      BY <1>1, <3>1, ShareType
    <3>4. paid'[i.rsvp] = 0 + Share(items[c])
      BY <1>3, <2>1, <3>1, <3>2
    <3> QED
      BY <2>2, <3>1, <3>3, <3>4
  <2>3. CASE i \notin B
    <3>1. i.rsvp \notin RsvpsOf(B)
      BY <1>1, <1>2, <2>3 DEF RsvpsOf, Booked
    <3> QED
      BY <1>1, <1>3, <2>1, <3>1 DEF Booked
  <2> QED
    BY <2>2, <2>3
<1>7. Booked(c)'
  <2>1. left'[c] = left[c] \ B
    BY <1>1 DEF SettlementTypeOK
  <2> QED
    BY <1>1, <1>6, <2>1 DEF Booked, Payees, Came, Share, Ghosts
<1>8. ASSUME NEW d \in Closes, d # c PROVE Booked(d)' /\ Did(d)' = Did(d)
  <2>1. pc'[d] = pc[d] /\ items'[d] = items[d] /\ left'[d] = left[d]
    BY <1>1, <1>8 DEF SettlementTypeOK
  <2>2. Did(d) \cap Did(c) = {} /\ Did(d) \subseteq Rsvps
    BY <1>8, DidRsvps DEF Purse
  <2>3. \A r \in Did(d) : paid'[r] = paid[r]
    BY <1>3, <1>4, <2>2
  <2> QED
    BY <2>1, <2>3, BookedKept DEF Purse
<1>9. \A d, e \in Closes : d # e => Did(d)' \cap Did(e)' = {}
  BY <1>5, <1>8 DEF Purse
<1>10. ASSUME NEW r \in Rsvps, stage'[r] \notin {"refunded", "slashed"}
       PROVE  paid'[r] = 0
  <2>1. r \notin Did(c)
    BY <1>1, <1>10, DidRsvps
  <2> QED
    BY <1>1, <1>3, <1>4, <1>10, <2>1 DEF Purse
<1>11. Covered(paid', Did(c), SlashedRsvps)
  <2>1. \A i \in items[c] : ~i.checkedIn => i.rsvp \in SlashedRsvps
    BY <1>1 DEF Progress, Result, SlashedRsvps, Items
  <2>2. \A i, j \in items[c] : i.rsvp = j.rsvp => i = j
    BY <1>1 DEF Booked
  <2>3. \A i \in items[c] : \/ paid'[i.rsvp] = 0
                            \/ i \in Payees(items[c]) /\ paid'[i.rsvp] = Share(items[c])
    BY <1>6
  <2>4. IsFiniteSet(items[c]) /\ items[c] \in SUBSET Items
    BY <1>1 DEF Progress
  <2>5. Covered(paid', RsvpsOf(items[c]), SlashedRsvps)
    BY <1>1, <2>1, <2>2, <2>3, <2>4, CoveredOwn
  <2> QED
    BY <1>4, <2>5
<1>12. ASSUME NEW Q \in SUBSET Closes, c \in Q
       PROVE  Covered(paid', Others(Q), SlashedRsvps)
  <2> DEFINE S == Others(Q)
  <2>1. S \in SUBSET Rsvps /\ S \cap Did(c) = {}
    BY <1>12 DEF Others
  <2>2. Covered(paid, S, SlashedRsvps)
    BY DEF Purse
  <2>3. \A r \in S : paid'[r] = paid[r]
    <3> HIDE DEF S
    <3> QED
      BY <1>3, <1>4, <2>1
  <2> HIDE DEF S
  <2>4. SumFunctionOnSet(paid', S) = SumFunctionOnSet(paid, S)
    <3>1. IsFiniteSet(S)
      BY <1>1, <2>1, Amounts
    <3> QED
      BY <2>3, <3>1, SumSame
  <2>5. Covered(paid', S, SlashedRsvps)
    BY <2>2, <2>4 DEF Covered
  <2> QED
    BY <2>5 DEF S
<1>13. ASSUME NEW Q \in SUBSET Closes, c \notin Q
       PROVE  Covered(paid', Others(Q), SlashedRsvps)
  <2> DEFINE R == Q \cup {c}
  <2>1. R \in SUBSET Closes /\ c \in R
    OBVIOUS
  <2>2. Covered(paid', Others(R), SlashedRsvps)
    <3> HIDE DEF R
    <3> QED
      BY <1>12, <2>1
  <2>3. \A d \in Q : Did(c) \cap Did(d) = {}
    BY <1>13 DEF Purse
  <2>4. Others(Q) = Others(R) \cup Did(c) /\ Others(R) \cap Did(c) = {}
    BY <1>4, <2>3 DEF Others
  <2>5. Others(R) \in SUBSET Rsvps /\ Did(c) \in SUBSET Rsvps
    BY <1>4 DEF Others
  <2> HIDE DEF R
  <2>6. Covered(paid', Others(R) \cup Did(c), SlashedRsvps)
    BY <1>1, <1>11, <2>2, <2>4, <2>5, CoveredBoth
  <2> QED
    BY <2>4, <2>6
<1>14. ASSUME NEW Q \in SUBSET Closes PROVE Covered(paid, Others(Q), SlashedRsvps)'
  <2>1. Others(Q)' = Others(Q) /\ SlashedRsvps' = SlashedRsvps
    BY <1>1, <1>5, <1>8 DEF Others, SlashedRsvps
  <2>2. Covered(paid', Others(Q), SlashedRsvps)
    BY <1>12, <1>13
  <2> QED
    BY <2>1, <2>2 DEF Covered
<1> QED
  BY <1>7, <1>8, <1>9, <1>10, <1>14 DEF Purse

LEMMA PurseStep == Work /\ Purse /\ [SettlementNext]_svars => Purse'
<1> SUFFICES ASSUME Work, Purse, [SettlementNext]_svars PROVE Purse'
  OBVIOUS
<1>1. SettlementTypeOK /\ SettlementTypeOK' /\ [Next]_vars
  BY ChoicesOnly, SettlementTypeStep DEF Work
<1>2. ASSUME NEW c \in Closes, NEW B \in SUBSET left[c], SubmitClose(c, B) \/ PayOut(c, B)
      PROVE  Purse'
  BY <1>1, <1>2, PurseSubmit, PursePay
<1>3. CASE ~ \E c \in Closes : \E B \in SUBSET left[c] : SubmitClose(c, B) \/ PayOut(c, B)
  <2>1. ASSUME NEW c \in Closes, SettlementNext, Request(c) \/ Die(c)
        PROVE  Booked(c)' /\ (Did(c)' = Did(c) \/ Did(c)' = {}) /\ paid' = paid
    BY <1>3, <2>1, OwnQuiet
  <2>2. paid' = paid
    <3>1. CASE \E c \in Closes : SettlementNext /\ (Request(c) \/ Die(c))
      BY <2>1, <3>1
    <3>2. CASE ~ \E c \in Closes : SettlementNext /\ (Request(c) \/ Die(c))
      BY <3>2 DEF SettlementNext, Welcome, Watch, TakeBack, Attendee, Project, closeVars, svars
    <3> QED
      BY <3>1, <3>2
  <2>3. ASSUME NEW d \in Closes, ~(SettlementNext /\ (Request(d) \/ Die(d)))
        PROVE  Booked(d)' /\ Did(d)' = Did(d)
    <3>1. pc'[d] = pc[d] /\ items'[d] = items[d] /\ left'[d] = left[d]
      BY <1>1, <2>3, OthersUntouched
    <3> QED
      BY <2>2, <3>1, BookedKept DEF Purse
  <2>4. \A d \in Closes : Booked(d)' /\ (Did(d)' = Did(d) \/ Did(d)' = {})
    BY <2>1, <2>3
  <2> QED
    BY <1>1, <2>2, <2>4, PurseQuiet
<1> QED
  BY <1>2, <1>3

(* However many requests close the event, wherever they die and whatever     *)
(* they read too early, they never pay out more than its no-shows forfeited. *)
(* A CloseEvent settles an RSVP for one request alone, which alone pays it   *)
(* and no more than the stakes that it slashed itself.                       *)
THEOREM PotNeverOverdrawn == SettlementSpec => []PotConserved
<1> DEFINE Safe == Work /\ Purse
<1>1. SettlementInit => Safe
  BY WorkInit, PurseInit
<1>2. Safe /\ [SettlementNext]_svars => Safe'
  BY WorkStep, PurseStep
<1>3. Safe => PotConserved
  <2> SUFFICES ASSUME Purse PROVE PotConserved
    OBVIOUS
  <2>1. Others({}) = Rsvps /\ Rsvps \cap SlashedRsvps = SlashedRsvps
    BY DEF Others, SlashedRsvps
  <2>2. Covered(paid, Others({}), SlashedRsvps)
    BY DEF Purse
  <2> QED
    BY <2>1, <2>2 DEF Covered, PotConserved
<1> QED
  BY <1>1, <1>2, <1>3, PTL DEF SettlementSpec
=============================================================================
