------------------------------- MODULE PollFeed -------------------------------
(***************************************************************************)
(* The indexer's other feed (indexer/src/feed-poll.ts), for a ledger whose *)
(* updates cannot be streamed.  It fetches the active contracts every two  *)
(* seconds and hands the difference from the last fetch to the projector   *)
(* of ReadModel as one update.  What came and went between two fetches is  *)
(* never seen, and whether an RSVP was settled or cancelled is guessed     *)
(* from its event.  The last fetch is kept in memory only: what happens    *)
(* between a restart and the next fetch is never projected.                *)
(*                                                                         *)
(* The properties say where the rows can be wrong (blurred), and that they *)
(* are right everywhere else.  The watcher and the handlers of the API are *)
(* composed with the other feed, in StakeFlow.                             *)
(***************************************************************************)
EXTENDS ReadModel

CONSTANTS
    MaxWindow   \* bound on the transactions between two fetches

ASSUME PollFeedConstants == MaxWindow \in Nat

VARIABLES
    mode,       \* STREAM_MODE
    prev,       \* the contracts of the last fetch that was projected
    offset,     \* whether the indexer_state row exists
    window,     \* the transactions since the last fetch that was projected
    passed,     \* history: what was created and archived again since then
    blurred     \* history: the slots and events whose rows may be wrong

(* Nothing was ever fetched: prev is undefined, which no fetch is. *)
NoFetch == {[kind |-> "undefined"]}

pollVars == <<mode, prev, offset, window, passed, blurred>>
fvars    == <<rmVars, pollVars>>

-------------------------------------------------------------------------------
(* The ledger goes on between two fetches.  (A bound: not after all slots    *)
(* are blurred, when nothing is said of their rows any more.)                *)
PollLedger ==
    /\ mode = "poll"
    /\ Slots \ blurred # {}
    /\ Next
    /\ \A r \in Rsvps : allocOf[r] # NoAlloc /\ allocOf'[r] = NoAlloc
                            => ~Active(allocOf[r])
    /\ crowded' = crowded \cup {s \in Slots : Cardinality(Outstanding(s)') > 1}
    /\ IF Created \cup Archived = {} \/ prev = NoFetch
       THEN UNCHANGED <<window, passed>>
       ELSE /\ window < MaxWindow
            /\ window' = window + 1
            /\ passed' = passed \cup (Archived \ prev)
    /\ UNCHANGED <<rowVars, feedVars, sweep, mode, prev, offset, blurred>>

(* The events that a diff takes to be settled: ended or archived in it. *)
EndedEvents(old, new) ==
    {c.event : c \in {x \in new \ old : x.kind = "event" /\ x.cid = "ended"}
               \cup {x \in old \ new : x.kind = "event"}}

(* Mutant: an RSVP that goes with its allocation is taken to be settled. *)
Diff_AllocationGone(old, new) ==
    [created  |-> Creates(old, new),
     archived |-> old \ new,
     closed   |-> FALSE,
     settles  |-> {c.cid : c \in {x \in old \ new : /\ x.kind = "rsvp"
                                                    /\ \E a \in old \ new :
                                                         a.kind = "alloc" /\ a.cid = x.alloc}}]

(* diffToUpdate: a Settle is made up for every RSVP that is gone and whose   *)
(* event ended.                                                              *)
Diff(old, new) ==
    [created  |-> Creates(old, new),
     archived |-> old \ new,
     closed   |-> FALSE,
     settles  |-> {c.cid : c \in {x \in old \ new :
                                    /\ x.kind = "rsvp"
                                    /\ x.slot[1] \in EndedEvents(old, new)}}]

(* What one diff cannot tell of slot s: an invite nobody saw, an RSVP that   *)
(* was replaced by another one, a stake recorded and taken back at once, and *)
(* the end of an RSVP that looks like what it was not, or that was checked   *)
(* in just before.                                                           *)
Unclear(s, old, new) ==
    LET gone  == {c \in (old \ new) \cup passed : c.kind # "event" /\ c.kind # "alloc" /\ c.slot = s}
        here  == {c \in new : c.kind # "event" /\ c.kind # "alloc" /\ c.slot = s}
        ended == {c \in gone : c.kind = "rsvp" /\ stage[c.cid[1]] # "live"}
    IN  \/ \E c \in passed : c.kind = "invite" /\ c.slot = s
        \/ ended # {} /\ here # {}
        \/ \E c \in here \ old : /\ c.kind = "rsvp"
                                /\ c.alloc # None
                                /\ ~Active(c.alloc)
        \/ \E c \in ended : IF stage[c.cid[1]] \in {"refunded", "slashed"}
                             THEN c \in passed \/ s[1] \notin EndedEvents(old, new)
                             ELSE s[1] \in EndedEvents(old, new)

(* What changed while the indexer was down, or came and went. *)
Missed(old, new) ==
    LET changed == (old \ new) \cup (new \ old) \cup passed
    IN  {c.event : c \in {x \in changed : x.kind = "event"}}
        \cup {c.slot : c \in {x \in changed : x.kind \in {"invite", "rsvp"}}}
        \cup {spec[c.cid].slot : c \in {x \in changed : x.kind = "alloc"}}

(* The fetch is what the next one is compared with. *)
Fetched ==
    /\ mode = "poll"
    /\ prev' = Contracts
    /\ window' = 0
    /\ passed' = {}
    /\ UNCHANGED <<vars, feedVars, sweep, crowded, mode>>

(* The first fetch of a process that found an empty database: all there is,  *)
(* as creates.  An RSVP whose invite is gone has no row to be written to,    *)
(* and what was settled by then never gets an outcome.                       *)
Seed ==
    /\ prev = NoFetch
    /\ Apply([created |-> Creates({}, Contracts), archived |-> {},
              closed |-> FALSE, settles |-> {}])
    /\ offset' = (Contracts # {})
    /\ blurred' = {SlotOf(r) : r \in {q \in Rsvps : stage[q] \in {"live", "refunded", "slashed"}}}
    /\ Fetched

(* Any other fetch.  When it fails, or the database refuses the update, prev *)
(* stays, and the next one is compared with prev again.  What came and went  *)
(* makes no update of its own.                                               *)
PollTick ==
    /\ prev # NoFetch
    /\ prev # Contracts \/ passed # {}
    /\ Apply(Diff(prev, Contracts))
    /\ offset' = (offset \/ prev # Contracts)
    /\ blurred' = blurred \cup {s \in Slots : Unclear(s, prev, Contracts)}
    /\ Fetched

(* The process starts again; if the database has been written to, its first  *)
(* fetch is only remembered.                                                 *)
PollRestart ==
    /\ prev # NoFetch
    /\ IF offset
       THEN /\ blurred' = blurred \cup Missed(prev, Contracts)
            /\ Fetched
            /\ UNCHANGED <<rowVars, offset>>
       ELSE /\ prev' = NoFetch
            /\ window' = 0
            /\ passed' = {}
            /\ UNCHANGED <<rmVars, mode, offset, blurred>>

-------------------------------------------------------------------------------
FeedInit ==
    /\ ReadModelInit
    /\ mode \in {"ws", "poll"}
    /\ prev = NoFetch
    /\ offset = FALSE
    /\ window = 0
    /\ passed = {}
    /\ blurred = {}

FeedNext ==
    \/ mode = "ws" /\ ReadModelNext /\ UNCHANGED pollVars
    \/ PollLedger
    \/ Seed
    \/ PollTick
    \/ PollRestart

FeedSpec == FeedInit /\ [][FeedNext]_fvars

-------------------------------------------------------------------------------
(* Properties *)

(* Types and bounds; in poll mode nothing of the websocket feed is used.     *)
FeedTypeOK ==
    /\ ReadModelTypeOK
    /\ mode \in {"ws", "poll"}
    /\ offset \in BOOLEAN
    /\ window \in 0..MaxWindow
    /\ blurred \subseteq Slots \cup Events
    /\ mode = "poll" => queue = <<>> /\ resend = <<>> /\ sweep = {}

(* The last transaction was fetched and projected. *)
CaughtUp == IF mode = "ws" THEN queue = <<>> ELSE prev = Contracts /\ passed = {}

Exact(s) == s \notin crowded \cup blurred

(* Whichever feed is used, the rows it has caught up with say what the       *)
(* ledger says, after any number of restarts, of updates handled twice and   *)
(* of fetches that failed, except where the poll feed could not see.         *)
FeedRowsFaithful ==
    CaughtUp => /\ \A e \in Events \ blurred : EventShown(e)
                /\ \A s \in Slots : Exact(s) => SlotShown(s)

(* A settlements row tells what became of the RSVP: the poll feed takes no   *)
(* cancellation for a settlement and no attendee who came for one who did    *)
(* not, except where it could not see; and no outcome is missing.            *)
FeedSettlementsFaithful ==
    /\ \A s \in Slots : s \notin blurred => OutcomeTrue(s)
    /\ CaughtUp => \A s \in Slots : Exact(s) => OutcomeKnown(s)

(* A stake that its owner took back is flagged, and nothing else is.         *)
FeedFlagsFaithful ==
    /\ CaughtUp => \A r \in Rsvps : Exact(SlotOf(r)) => LossFlagged(r)
    /\ \A s \in Slots : Exact(s) => FlagTrue(s)
=============================================================================
