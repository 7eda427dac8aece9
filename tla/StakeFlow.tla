------------------------------ MODULE StakeFlow ------------------------------
(***************************************************************************)
(* The API handlers an RSVP goes through (backend/internal/api): join or   *)
(* invite, accept, stake, cancel, decline, check in.  A handler reads the  *)
(* rows of ReadModel, which may be behind, and submits choices of Escrow   *)
(* one at a time under the contract ids it read.  It may die between two   *)
(* steps, also right after a submission took effect; nothing remembers how *)
(* far it had come, and the user presses the button again.                 *)
(*                                                                         *)
(* The attendee's wallet, the organizer's close and the clock are the      *)
(* environment, and the indexer and the watcher are those of ReadModel.    *)
(***************************************************************************)
EXTENDS ReadModel

CONSTANTS
    Requests    \* the requests that may run at the same time

(* What runAllocation allocates for a slot. *)
StakeSpec(s) == [slot |-> s, sender |-> s[2], terms |-> "stake"]

ASSUME StakeFlowConstants == \A s \in Slots : StakeSpec(s) \in Specs

VARIABLES
    request,    \* request[q]: where request q is, and the ids it holds
    blind       \* history: the slots whose lookup for an allocation failed
                \* while one was locked

sfvars == <<rmVars, request, blind>>

(* at: the submission or query that is next; event: the Event contract id of *)
(* the events row; slot, rsvp and alloc: the ids it has read or been given.  *)
Request == [at    : {"idle", "invite", "accept", "decline", "find", "allocate",
                     "record", "cancel", "checkin"},
            slot  : Slots \cup {None},
            event : {"open", "ended", "none"},
            rsvp  : Rsvps \cup RsvpCids \cup {None},
            alloc : Allocs \cup {None}]

Idle == [at |-> "idle", slot |-> None, event |-> "none", rsvp |-> None, alloc |-> None]

-------------------------------------------------------------------------------
(* The read model queries that a handler starts with *)

RowOf(s) == rows[s] # NoRow /\ eventRow[s[1]] # NoRow

Start(q, at, s, cid) ==
    /\ request[q] = Idle
    /\ request' = [request EXCEPT ![q] =
                     [at |-> at, slot |-> s, event |-> eventRow[s[1]].cid,
                      rsvp |-> cid, alloc |-> None]]
    /\ UNCHANGED <<rmVars, blind>>

(* Nobody who has a row is joined again; only open events are joined. *)
Join(q, s) ==
    /\ rows[s] = NoRow
    /\ eventRow[s[1]] # NoRow
    /\ eventRow[s[1]].status = "open"
    /\ Start(q, "invite", s, None)

(* The organizer may invite anybody at any time. *)
Invite(q, s) ==
    /\ eventRow[s[1]] # NoRow
    /\ Start(q, "invite", s, None)

Accept(q, s) ==
    /\ RowOf(s)
    /\ rows[s].invite # None
    /\ Start(q, "accept", s, rows[s].invite)

Decline(q, s) ==
    /\ RowOf(s)
    /\ rows[s].invite # None
    /\ Start(q, "decline", s, rows[s].invite)

(* The handler does not look at the status of the row. *)
Stake(q, s) ==
    /\ RowOf(s)
    /\ rows[s].rsvp # None
    /\ Start(q, "find", s, rows[s].rsvp)

(* Mutant: the retry button goes away at the deadline, as the others do. *)
Retry_Early(q, s) ==
    /\ RowOf(s)
    /\ rows[s].status = "accepted"
    /\ BeforeRsvpDeadline(s[1])
    /\ Stake(q, s)

(* The retry button of the RsvpCard. *)
Retry(q, s) ==
    /\ RowOf(s)
    /\ rows[s].status = "accepted"
    /\ Stake(q, s)

Cancel(q, s) ==
    /\ RowOf(s)
    /\ rows[s].rsvp # None
    /\ ~rows[s].checkedIn
    /\ Start(q, "cancel", s, rows[s].rsvp)

Checkin(q, s) ==
    /\ RowOf(s)
    /\ rows[s].rsvp # None
    /\ ~rows[s].checkedIn
    /\ Start(q, "checkin", s, rows[s].rsvp)

Begin(q) ==
    \E s \in Slots : \/ Join(q, s)   \/ Invite(q, s) \/ Accept(q, s) \/ Decline(q, s)
                     \/ Stake(q, s)  \/ Cancel(q, s) \/ Checkin(q, s)

-------------------------------------------------------------------------------
(* The submissions *)

At(q, at) == request[q].at = at

(* The contract ids still name active contracts. *)
EventCurrent(q) == event[request[q].slot[1]] = request[q].event
RsvpCurrent(q)  == /\ request[q].rsvp \in RsvpCids
                   /\ ver[request[q].rsvp[1]] = request[q].rsvp[2]

(* A submission takes effect, and the request goes on as next. *)
Submitted(q, next) ==
    /\ Publish
    /\ request' = [request EXCEPT ![q] = next]
    /\ UNCHANGED <<rowVars, sweep, blind>>

SubmitInvite(q) ==
    /\ At(q, "invite")
    /\ EventCurrent(q)
    /\ \E r \in Rsvps : /\ SlotOf(r) = request[q].slot
                        /\ InviteAttendee(request[q].slot[1], r)
    /\ Submitted(q, Idle)

(* Mutant: the accepted RSVP is taken to have the invite's contract id. *)
SubmitAccept_InviteId(q) ==
    /\ At(q, "accept")
    /\ EventCurrent(q)
    /\ \E r \in Rsvps :
          /\ r = request[q].rsvp
          /\ AcceptRSVP(r, request[q].slot[1])
          /\ Submitted(q, [request[q] EXCEPT !.at = "allocate"])

SubmitAccept(q) ==
    /\ At(q, "accept")
    /\ EventCurrent(q)
    /\ \E r \in Rsvps :
          /\ r = request[q].rsvp
          /\ AcceptRSVP(r, request[q].slot[1])
          /\ Submitted(q, [request[q] EXCEPT !.at = "allocate", !.rsvp = <<r, ver[r]>>])

SubmitDecline(q) ==
    /\ At(q, "decline")
    /\ \E r \in Rsvps : r = request[q].rsvp /\ DeclineRSVP(r)
    /\ Submitted(q, Idle)

LockedFor(s) == {a \in Allocs : Active(a) /\ spec[a].slot = s}

(* Mutant: handleStake does not look for an allocation to adopt. *)
FindAllocation_Never(q) ==
    /\ At(q, "find")
    /\ request' = [request EXCEPT ![q].at = "allocate"]
    /\ UNCHANGED <<rmVars, blind>>

(* An allocation of the slot is adopted, else a new one is to be made. *)
FindAllocation(q) ==
    LET found == LockedFor(request[q].slot) IN
    /\ At(q, "find")
    /\ \/ /\ found = {}
          /\ request' = [request EXCEPT ![q].at = "allocate"]
       \/ \E a \in found :
             request' = [request EXCEPT ![q].at = "record", ![q].alloc = a]
    /\ UNCHANGED <<rmVars, blind>>

(* The lookup fails; the handler goes on as if there were none. *)
LookupFails(q) ==
    /\ At(q, "find")
    /\ request' = [request EXCEPT ![q].at = "allocate"]
    /\ blind' = IF LockedFor(request[q].slot) = {} THEN blind
                ELSE blind \cup {request[q].slot}
    /\ UNCHANGED rmVars

SubmitAllocate(q) ==
    /\ At(q, "allocate")
    /\ \E a \in Allocs, s \in Slots :
          /\ s = request[q].slot
          /\ Allocate(a, StakeSpec(s))
          /\ Submitted(q, [request[q] EXCEPT !.at = "record", !.alloc = a])

SubmitRecord(q) ==
    /\ At(q, "record")
    /\ RsvpCurrent(q)
    /\ RecordAllocation(request[q].rsvp[1], request[q].alloc)
    /\ Submitted(q, Idle)

SubmitCancel(q) ==
    /\ At(q, "cancel")
    /\ RsvpCurrent(q)
    /\ CancelRSVP(request[q].rsvp[1])
    /\ Submitted(q, Idle)

SubmitCheckin(q) ==
    /\ At(q, "checkin")
    /\ EventCurrent(q)
    /\ RsvpCurrent(q)
    /\ CheckIn(request[q].rsvp[1], request[q].slot[1])
    /\ Submitted(q, Idle)

(* The ledger refuses what it cannot do, and anything may fail or time out;  *)
(* as a submission may have taken effect before, this is dying as well.      *)
Fails(q) ==
    /\ request[q] # Idle
    /\ request' = [request EXCEPT ![q] = Idle]
    /\ UNCHANGED <<rmVars, blind>>

Handle(q) ==
    \/ SubmitInvite(q)   \/ SubmitAccept(q) \/ SubmitDecline(q)
    \/ FindAllocation(q) \/ LookupFails(q)  \/ SubmitAllocate(q)
    \/ SubmitRecord(q)   \/ SubmitCancel(q) \/ SubmitCheckin(q)

-------------------------------------------------------------------------------
(* What others do meanwhile: the attendee's wallet, the organizer and the    *)
(* clock.  Everything else the ledger does comes from a handler or watcher.  *)
Elsewhere ==
    /\ \/ \E e \in Events : \/ EP_Accept(e) \/ EP_Cancel(e)
                            \/ EndEventEarly(e)
                            \/ MarkSettled(e)
                            \/ \E S \in SUBSET Rsvps : CloseEvent(e, S)
       \/ \E r \in Rsvps : RevokeInvite(r) \/ RejectRequest(r)
       \/ \E a \in Allocs : AllocationWithdraw(a)
       \/ Tick
    /\ Publish
    /\ UNCHANGED <<rowVars, sweep, request, blind>>

Projects == Project /\ UNCHANGED <<request, blind>>

Indexer ==
    \/ Projects
    \/ (Reconnect \/ Restart) /\ UNCHANGED <<request, blind>>

Looks     == WatcherQuery    /\ UNCHANGED <<request, blind>>
Marks(c)  == WatcherMark(c)  /\ UNCHANGED <<request, blind>>
Misses(c) == WatcherFails(c) /\ UNCHANGED <<request, blind>>

Watcher == Looks \/ \E c \in RsvpCids : Marks(c) \/ Misses(c)

StakeFlowInit ==
    /\ ReadModelInit
    /\ request = [q \in Requests |-> Idle]
    /\ blind = {}

StakeFlowNext ==
    \/ \E q \in Requests : Begin(q) \/ Handle(q) \/ Fails(q)
    \/ Elsewhere
    \/ Indexer
    \/ Watcher

StakeFlowSpec == StakeFlowInit /\ [][StakeFlowNext]_sfvars

(* The feed goes on, the watcher looks every ten seconds, the attendee       *)
(* presses retry again, and of the requests, lookups and submissions some do *)
(* not fail.                                                                 *)
FairStakeFlowSpec ==
    /\ StakeFlowSpec
    /\ WF_sfvars(Projects)
    /\ WF_sfvars(Looks)
    /\ WF_sfvars(\E c \in RsvpCids : Misses(c))
    /\ SF_sfvars(\E c \in RsvpCids : Marks(c))
    /\ \A q \in Requests : /\ SF_sfvars(\E s \in Slots : Retry(q, s))
                           /\ SF_sfvars(FindAllocation(q))
                           /\ SF_sfvars(SubmitRecord(q))
                           /\ WF_sfvars(Fails(q))

-------------------------------------------------------------------------------
(* Properties *)

(* A request holds the ids that its next submission needs. *)
StakeFlowTypeOK ==
    /\ ReadModelTypeOK
    /\ request \in [Requests -> Request]
    /\ blind \subseteq Slots
    /\ \A q \in Requests :
          /\ At(q, "accept") \/ At(q, "decline") => request[q].rsvp \in Rsvps
          /\ request[q].at \in {"find", "allocate", "record", "cancel", "checkin"}
                => request[q].rsvp \in RsvpCids
          /\ At(q, "record") => request[q].alloc \in Allocs

(* However often a request dies half-way and the attendee presses retry, and *)
(* however far the rows are behind, no slot has two stakes locked: what a    *)
(* request that died has locked is adopted by the next one, unless it could  *)
(* not be looked up.                                                         *)
OneStakePerSlot == \A s \in Slots \ blind : Cardinality(LockedFor(s)) <= 1

(* A stake that is locked for an RSVP that names none.  (Once its owner took *)
(* one back, the page has no button for another.)                            *)
Unrecorded(r) ==
    /\ stage[r] = "live"
    /\ r \notin withdrawn
    /\ allocOf[r] = NoAlloc
    /\ LockedFor(SlotOf(r)) # {}

(* Such a stake does not stay unrecorded while the attendee retries.         *)
LockedStakeRecorded == \A r \in Rsvps : Unrecorded(r) ~> ~Unrecorded(r)
=============================================================================
