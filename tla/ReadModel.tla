------------------------------ MODULE ReadModel ------------------------------
(***************************************************************************)
(* The indexer (indexer/src): the rows it keeps of the contracts of Escrow, *)
(* and the backend's withdrawal watcher, which works from them.            *)
(*                                                                         *)
(* Each step of the ledger is one transaction: the contracts it archives   *)
(* and creates, and the exercises of CloseEvent and Settle in it.  (E16    *)
(* looks for an AllocationRequest choice, and does what E11 does.)         *)
(*                                                                         *)
(* This is the websocket feed; PollFeed is the other one.  It delivers the *)
(* transactions in order; the projector handles one at a time and commits  *)
(* the rows and its offset together, so a restart only loses what was not  *)
(* committed.  A dropped connection is another matter: the updates it had  *)
(* delivered are still handled, and then once more as the new subscription *)
(* delivers them.                                                          *)
(***************************************************************************)
EXTENDS Escrow, Sequences, FiniteSets

CONSTANTS
    NoRow,      \* there is no row
    None,       \* a column that is null
    MaxLag,     \* bound on the transactions the indexer is behind
    MaxQueue    \* bound on the updates delivered and not handled

VARIABLES
    eventRow,       \* eventRow[e]: the events row of e
    rows,           \* rows[s]: the rsvps row of slot s
    settlements,    \* settlements[s]: the outcome in the settlements row of s
    queue,          \* the updates delivered and not handled yet
    resend,         \* what a new subscription would deliver: all that
                    \* happened after the committed offset
    stale,          \* how many updates of queue are of a dropped connection
    sweep,          \* the contract ids the watcher has left to mark
    crowded         \* history: slots that had two RSVPs outstanding at once

rowVars  == <<eventRow, rows, settlements>>
feedVars == <<queue, resend, stale>>
rmVars   == <<vars, rowVars, feedVars, sweep, crowded>>

SlotOf(r) == <<EventOf[r], AttendeeOf[r]>>

RowStates == {"invited", "declined", "accepted", "staked", "withdrawn",
              "cancelled", "settled"}

RsvpCids == Rsvps \X (0..MaxVersion)

Row == [status    : RowStates,
        invite    : Rsvps \cup {None},
        rsvp      : RsvpCids \cup {None},
        alloc     : Allocs \cup {None},
        checkedIn : BOOLEAN,
        detected  : BOOLEAN]

EventRow == [cid : {"open", "ended"}, status : {"open", "ended", "settled"}]

ASSUME ReadModelConstants ==
    /\ NoRow \notin Row \cup EventRow
    /\ None \notin Rsvps \cup RsvpCids \cup Allocs
    /\ MaxLag \in Nat
    /\ MaxQueue \in Nat

-------------------------------------------------------------------------------
(* The transactions of the ledger *)

(* The active contracts the indexer looks at, with their payloads. *)
Contracts ==
    {[kind |-> "event", event |-> e, cid |-> event[e]] :
        e \in {f \in Events : EventLive(f)}}
    \cup
    {[kind |-> "invite", slot |-> SlotOf(r), cid |-> r] :
        r \in {q \in Rsvps : stage[q] = "invited"}}
    \cup
    {[kind |-> "rsvp", slot |-> SlotOf(r), cid |-> <<r, ver[r]>>,
      alloc |-> IF allocOf[r] = NoAlloc THEN None ELSE allocOf[r],
      checkedIn |-> r \in checkedIn, withdrawn |-> r \in withdrawn] :
        r \in {q \in Rsvps : stage[q] = "live"}}
    \cup
    {[kind |-> "alloc", cid |-> a] : a \in {b \in Allocs : Active(b)}}

(* No handler reads the create of an allocation.  (A contract id names one  *)
(* contract, so contracts are compared as wholes.)                           *)
Creates(old, new) == {c \in new \ old : c.kind # "alloc"}
Created  == Creates(Contracts, Contracts')
Archived == Contracts \ Contracts'

(* CloseEvent settles the RSVPs by a Settle each. *)
SettledNow(r) == stage[r] = "live" /\ stage'[r] \in {"refunded", "slashed"}

Transaction == [created  |-> Created,
                archived |-> Archived,
                closed   |-> \E r \in Rsvps : SettledNow(r),
                settles  |-> {<<r, ver[r]>> : r \in {q \in Rsvps : SettledNow(q)}}]

Outstanding(s) == {r \in Rsvps : SlotOf(r) = s /\ stage[r] \in {"invited", "live"}}

(* What follows a step of the ledger: the update that the feed delivers. *)
Publish ==
    /\ crowded' = crowded \cup {s \in Slots : Cardinality(Outstanding(s)') > 1}
    /\ IF Created \cup Archived = {}
       THEN UNCHANGED feedVars
       ELSE /\ Len(resend) < MaxLag
            /\ Len(queue) < MaxQueue
            /\ queue' = Append(queue, Transaction)
            /\ resend' = Append(resend, Transaction)
            /\ UNCHANGED stale

(* Any choice of Escrow.  But for the watcher, MarkWithdrawn is exercised by *)
(* the settlement's preflight only, on an RSVP that names an allocation it   *)
(* did not find.                                                             *)
Ledger ==
    /\ Next
    /\ \A r \in Rsvps : allocOf[r] # NoAlloc /\ allocOf'[r] = NoAlloc
                            => ~Active(allocOf[r])
    /\ Publish
    /\ UNCHANGED <<rowVars, sweep>>

-------------------------------------------------------------------------------
(* The handlers *)

BlankRow == [status |-> "invited", invite |-> None, rsvp |-> None,
             alloc |-> None, checkedIn |-> FALSE, detected |-> FALSE]

(* The contract of a kind that update u archives or creates under an id. *)
Archives(u, kind, cid) == \E c \in u.archived : c.kind = kind /\ c.cid = cid
CreatedFor(u, kind, s) == {c \in u.created : c.kind = kind /\ c.slot = s}

(* E1, E2 and E3. *)
HandleEvent(row, e, u) ==
    LET creates == {c \in u.created : c.kind = "event" /\ c.event = e}
    IN  IF creates # {}
        THEN LET c == CHOOSE c \in creates : TRUE
             IN  [cid |-> c.cid,
                  status |-> IF row # NoRow /\ row.status = "settled"
                             THEN "settled" ELSE c.cid]
        ELSE IF /\ row # NoRow
                /\ \E c \in u.archived : c.kind = "event" /\ c.event = e /\ c.cid = row.cid
             THEN [row EXCEPT !.status = "settled"]
             ELSE row

(* E4 *)
Invited(row, c) ==
    [(IF row = NoRow THEN BlankRow ELSE row) EXCEPT
        !.invite = c.cid, !.status = "invited"]

(* E5, E7, E8, E9: the status follows from the payload, except that a plain  *)
(* create of an RSVP that was active already leaves it.                      *)
RsvpStatus(row, c) ==
    CASE c.withdrawn                         -> "withdrawn"
      [] ~c.withdrawn /\ (c.alloc # None \/ c.checkedIn) -> "staked"
      [] OTHER -> IF row.status \in {"invited", "cancelled", "declined"}
                  THEN "accepted" ELSE row.status

(* Mutant: E8 does not refresh checked_in. *)
Refreshed_KeepsCheckIn(row, prior, c) ==
    [row EXCEPT !.rsvp = c.cid,
                !.status = RsvpStatus(prior, c),
                !.alloc = IF c.withdrawn THEN None ELSE c.alloc]

Refreshed(row, prior, c) ==
    [row EXCEPT !.rsvp = c.cid,
                !.status = RsvpStatus(prior, c),
                !.alloc = IF c.withdrawn THEN None ELSE c.alloc,
                !.checkedIn = c.checkedIn /\ ~c.withdrawn]

IsSettled(u, cid) == u.closed \/ cid \in u.settles

(* Mutant: E12 does not ask whether the update ends the row's own RSVP. *)
Lost_Cancelled(prior, s, u) ==
    /\ prior.status = "staked"
    /\ Archives(u, "alloc", prior.alloc)
    /\ ~IsSettled(u, prior.rsvp)

(* E12: the allocation goes and the row's own RSVP stays as it is. *)
Lost(prior, s, u) ==
    /\ prior.status = "staked"
    /\ Archives(u, "alloc", prior.alloc)
    /\ ~IsSettled(u, prior.rsvp)
    /\ ~Archives(u, "rsvp", prior.rsvp)
    /\ CreatedFor(u, "rsvp", s) = {}

(* The handlers see the row as it was before the update; what they find is   *)
(* written one after the other, creates first.  A patch changes rows that    *)
(* exist: the create of an RSVP makes none.                                  *)
AfterCreates(prior, s, u) ==
    LET invites == CreatedFor(u, "invite", s)
        rsvps   == CreatedFor(u, "rsvp", s)
        invited == IF invites = {} THEN prior
                   ELSE Invited(prior, CHOOSE c \in invites : TRUE)
    IN  IF rsvps = {} \/ invited = NoRow THEN invited
        ELSE Refreshed(invited, IF prior = NoRow THEN BlankRow ELSE prior,
                       CHOOSE c \in rsvps : TRUE)

(* E5 and E6, at the row that has the invite by now. *)
AfterInvite(row, prior, s, u) ==
    IF ~Archives(u, "invite", prior.invite) \/ row.invite # prior.invite THEN row
    ELSE IF CreatedFor(u, "rsvp", s) # {}
         THEN [row EXCEPT !.invite = None]
         ELSE [row EXCEPT !.status = "declined"]

(* E10, E11 and E16. *)
AfterRsvp(row, prior, s, u) ==
    IF ~Archives(u, "rsvp", prior.rsvp) \/ CreatedFor(u, "rsvp", s) # {} THEN row
    ELSE [row EXCEPT !.status =
            IF IsSettled(u, prior.rsvp) THEN "settled" ELSE "cancelled"]

HandleRsvp(prior, s, u) ==
    LET row == AfterCreates(prior, s, u)
    IN  IF prior = NoRow THEN row
        ELSE [AfterRsvp(AfterInvite(row, prior, s, u), prior, s, u)
                EXCEPT !.detected = @ \/ Lost(prior, s, u)]

(* Mutant: E10 writes what the contract says happened. *)
HandleSettlement_Stage(outcome, row, s, u) ==
    IF /\ outcome = "none"
       /\ row # NoRow
       /\ Archives(u, "rsvp", row.rsvp)
       /\ IsSettled(u, row.rsvp)
    THEN IF row.checkedIn THEN "refunded" ELSE "slashed"
    ELSE outcome

(* E10: the outcome is told from the row; a settlements row is never changed. *)
HandleSettlement(outcome, row, s, u) ==
    IF /\ outcome = "none"
       /\ row # NoRow
       /\ Archives(u, "rsvp", row.rsvp)
       /\ IsSettled(u, row.rsvp)
       /\ CreatedFor(u, "rsvp", s) = {}
    THEN IF row.checkedIn THEN "refund" ELSE "slash"
    ELSE outcome

-------------------------------------------------------------------------------
(* The projector and its feed *)

(* One update, in one database transaction.  The database refuses an rsvps   *)
(* row of an event that has none.                                            *)
Apply(u) ==
    /\ eventRow' = [e \in Events |-> HandleEvent(eventRow[e], e, u)]
    /\ \A c \in u.created : c.kind = "invite" => eventRow'[c.slot[1]] # NoRow
    /\ rows' = [s \in Slots |-> HandleRsvp(rows[s], s, u)]
    /\ settlements' =
         [s \in Slots |-> HandleSettlement(settlements[s], rows[s], s, u)]

(* The offset is committed with the rows. *)
Project ==
    /\ queue # <<>>
    /\ Apply(Head(queue))
    /\ queue' = Tail(queue)
    /\ IF stale > 0
       THEN resend' = Tail(resend) /\ stale' = stale - 1
       ELSE resend' = Tail(queue) /\ stale' = 0
    /\ UNCHANGED <<vars, sweep, crowded>>

(* The connection drops: a new subscription starts from the committed offset *)
(* and does not wait for what is still to be handled.  (One at a time.)      *)
Reconnect ==
    /\ queue # <<>>
    /\ queue = resend
    /\ Len(queue) + Len(resend) <= MaxQueue
    /\ queue' = queue \o resend
    /\ stale' = Len(queue)
    /\ UNCHANGED <<vars, rowVars, resend, sweep, crowded>>

(* Mutant: the offset is advanced before the update is handled. *)
Restart_Skips ==
    /\ queue # <<>>
    /\ queue' = Tail(resend)
    /\ resend' = Tail(resend)
    /\ stale' = 0
    /\ UNCHANGED <<vars, rowVars, sweep, crowded>>

(* The indexer dies, or the database refuses the transaction and the feed    *)
(* halts; either way it goes on from the committed offset.                   *)
Restart ==
    /\ queue # <<>>
    /\ queue' = resend
    /\ stale' = 0
    /\ UNCHANGED <<vars, rowVars, resend, sweep, crowded>>

-------------------------------------------------------------------------------
(* The withdrawal watcher *)

(* Mutant: who has been checked in is left alone. *)
WithdrawalCandidates_Absent ==
    {rows[s].rsvp : s \in {t \in Slots : /\ rows[t] # NoRow
                                         /\ rows[t].detected
                                         /\ rows[t].status = "staked"
                                         /\ ~rows[t].checkedIn
                                         /\ rows[t].rsvp # None}}

WithdrawalCandidates ==
    {rows[s].rsvp : s \in {t \in Slots : /\ rows[t] # NoRow
                                         /\ rows[t].detected
                                         /\ rows[t].status = "staked"
                                         /\ rows[t].rsvp # None}}

WatcherQuery ==
    /\ sweep = {}
    /\ WithdrawalCandidates # {}
    /\ sweep' = WithdrawalCandidates
    /\ UNCHANGED <<vars, rowVars, feedVars, crowded>>

WatcherMark(c) ==
    /\ c \in sweep
    /\ ver[c[1]] = c[2]
    /\ MarkWithdrawn(c[1])
    /\ sweep' = sweep \ {c}
    /\ Publish
    /\ UNCHANGED rowVars

(* The ledger refuses, or cannot be reached; the next sweep tries again. *)
WatcherFails(c) ==
    /\ c \in sweep
    /\ sweep' = sweep \ {c}
    /\ UNCHANGED <<vars, rowVars, feedVars, crowded>>

-------------------------------------------------------------------------------
ReadModelInit ==
    /\ Init
    /\ eventRow = [e \in Events |-> NoRow]
    /\ rows = [s \in Slots |-> NoRow]
    /\ settlements = [s \in Slots |-> "none"]
    /\ queue = <<>>
    /\ resend = <<>>
    /\ stale = 0
    /\ sweep = {}
    /\ crowded = {}

ReadModelNext ==
    \/ Ledger
    \/ Project
    \/ Reconnect
    \/ Restart
    \/ WatcherQuery
    \/ \E c \in RsvpCids : WatcherMark(c) \/ WatcherFails(c)

ReadModelSpec == ReadModelInit /\ [][ReadModelNext]_rmVars

-------------------------------------------------------------------------------
(* Properties *)

ReadModelTypeOK ==
    /\ TypeOK
    /\ eventRow \in [Events -> EventRow \cup {NoRow}]
    /\ rows \in [Slots -> Row \cup {NoRow}]
    /\ settlements \in [Slots -> {"none", "refund", "slash"}]
    /\ Len(queue) <= MaxQueue
    /\ Len(resend) <= MaxQueue
    /\ stale \in 0..Len(queue)
    /\ sweep \subseteq RsvpCids
    /\ crowded \subseteq Slots

(* What a row should say of the contracts of its slot. *)
RowShows(row, r) ==
    /\ row # NoRow
    /\ stage[r] = "invited" => row.status = "invited" /\ row.invite = r
    /\ stage[r] = "live" =>
          /\ row.rsvp = <<r, ver[r]>>
          /\ row.status = IF r \in withdrawn THEN "withdrawn"
                          ELSE IF allocOf[r] # NoAlloc THEN "staked" ELSE "accepted"
          /\ r \notin withdrawn => row.alloc = IF allocOf[r] = NoAlloc THEN None ELSE allocOf[r]
          /\ row.checkedIn = (r \in checkedIn)
          /\ row.invite = None

EventShown(e) ==
    IF EventLive(e) THEN eventRow[e] = [cid |-> event[e], status |-> event[e]]
    ELSE eventRow[e] # NoRow => eventRow[e].status = "settled"

SlotShown(s) ==
    /\ \A r \in Outstanding(s) : RowShows(rows[s], r)
    /\ Outstanding(s) = {} /\ rows[s] # NoRow =>
          rows[s].status \in {"declined", "cancelled", "settled"}

Settled(s, how) == \E r \in Rsvps : SlotOf(r) = s /\ stage[r] = how

OutcomeTrue(s) == /\ settlements[s] = "refund" => Settled(s, "refunded")
                  /\ settlements[s] = "slash" => Settled(s, "slashed")

OutcomeKnown(s) ==
    settlements[s] = "none" => ~Settled(s, "refunded") /\ ~Settled(s, "slashed")

(* The RSVPs whose owner took the recorded allocation back. *)
LostStake(r) ==
    /\ stage[r] = "live"
    /\ r \notin withdrawn
    /\ allocOf[r] # NoAlloc
    /\ astate[allocOf[r]] = "withdrawn"
    /\ SlotOf(r) \notin crowded

LossFlagged(r) == LostStake(r) => rows[SlotOf(r)].detected

FlagTrue(s) ==
    rows[s] # NoRow /\ rows[s].detected =>
        \E a \in Allocs : astate[a] = "withdrawn" /\ spec[a].slot = s

(* A lost stake is marked as withdrawn in the end, unless its RSVP ends.     *)
LostStakeMarked == \A r \in Rsvps : LostStake(r) ~> ~LostStake(r)

(* The comment of the watcher has it mark the RSVPs whose stake was taken    *)
(* back.  It must never take an active allocation off an RSVP.               *)
LiveStakeKept ==
    [][\A r \in Rsvps : allocOf[r] # NoAlloc /\ allocOf'[r] = NoAlloc
                            => ~Active(allocOf[r])]_rmVars
=============================================================================
