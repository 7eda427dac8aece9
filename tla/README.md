# A formal model of ShowOrSow

ShowOrSow takes a stake from everybody who accepts an invitation. Who shows up
gets the stake back; the stakes of those who do not are forfeited to a pot and
shared by those who did. The stakes are CIP-56 allocations on a Canton ledger;
Daml contracts decide what may happen to them, a Go backend submits the
commands, a TypeScript indexer projects the ledger into Postgres, and the
backend reads the ledger in some places and that read model in others.

This directory models the system in TLA+. TLC checks small instances; TLAPS
proves what is stated under *Proofs* for every value of the constants.

## Inventory

| Part | State | Operations | What makes it correct |
|---|---|---|---|
| Escrow contracts, `daml/ShowOrSow.daml` | EventProposal, Event, RSVPInvite, StakedRSVP contracts | one choice each for accept/cancel a proposal, invite, accept/decline/revoke, record an allocation, check in, mark withdrawn, cancel, close, mark settled | a stake leaves its owner only by a settlement of the event it was locked for, after that event and within its window; each stake is given out once |
| Demo token, `daml-demo/DemoToken.daml` | holdings, allocations, issuer | allocate, execute, cancel, withdraw, mint | supply is conserved; change is returned |
| Settlement runner, `backend/internal/settle` | none of its own: it works from what it read | preflight, end event, close (one or many submissions), payouts, mark settled | nobody who came is slashed; payouts never exceed the forfeits and agree with the ledger; a close that died can be finished |
| Withdrawal watcher, `settle/withdrawals.go` | candidate rows of the read model | every 10 s, MarkWithdrawn on each | it never detaches a live stake |
| API handlers, `backend/internal/api` | none: read model and ledger | create event, invite, join, accept, stake, cancel, check in, close | one stake per slot, whatever is clicked twice or dies half-way |
| Indexer, `indexer/src` | Postgres rows, offset, in-memory correlation state | projects one transaction at a time (handlers E1-E16); websocket and poll feeds | the rows are a function of the ledger's transactions: nothing lost, repeated or misread |
| Deposit acceptor, `settle/deposits.go` | in-memory set of seen instructions | every 15 s, accept incoming transfers of each user's party | each is accepted in the end, also after a failure or a restart |
| Accounts, `internal/users`, `appauth`, `api/handlers_auth.go` | users table; a signed cookie | register (look up, allocate a party, insert), login, logout, session | an account has one party for good, and shares it with none |
| Event page, `web/src/components/attendee`, `organizer` | what the last poll returned, open POSTs, disabled controls, timers, optimistic latches | the card's and the panel's buttons | no tab locks two stakes; what it offers and says is true of the ledger once it has caught up |
| Session and balances, `web/src/components` (SessionProvider, AuthForms, AccountMenu, BalancePill) | SWR's cache, the guard's route, the pill's baseline | login, register, logout, poll, revalidate | nobody sees another account's data; the session follows the cookie |
| Snapshots, token provider, registry client, configuration | snapshot rows; a cached token | - | not modelled, see below |

How they interact: the web UI calls the handlers; a handler reads the events
and rsvps rows, queries the ledger where it must not trust them, and submits
commands; every command is one ledger transaction or nothing (all events that
close pay from one pot, and compete for its holdings); the indexer
follows the transactions and writes rows and offset in one database
transaction; the watcher reads those rows and submits again. There is no lock
anywhere: two requests, the watcher and the attendees' own wallets interleave
freely between any two submissions, and contract ids that were read go stale
when a choice recreates the contract.

The hard behaviours are listed in `PROJECT.json` under `hazards`, each at its
line: stale contract ids and flags in the runner, requests that die between
CloseEvent and payouts, stakes made while an event is being closed, several
RSVPs for one slot, allocations made but not recorded, the indexer's correlation
of archives, payouts of two events out of the same holdings, and a page whose
buttons are as old as its last poll.

## Modules

| Module | Models |
|---|---|
| `StakePromise` | the abstract specification: where each stake's money is, whom it is pledged to, how far each event has come |
| `Escrow` | the four Daml templates and the allocations, on one ledger |
| `Settlement` | `Runner.Close` by concurrent requests over `Escrow`, with attendees, watcher and read model going on around it |
| `ReadModel` | the indexer's rows of what happens in `Escrow`, its feed, and the withdrawal watcher that works from the rows |
| `StakeFlow` | the API handlers an RSVP goes through, over the rows of `ReadModel` and the contracts of `Escrow` |
| `PollFeed` | the indexer's other feed, which compares two fetches of the active contracts; either feed over `ReadModel` |
| `EventPage` | the page of an event in one tab, the attendee's card or the organizer's panel, over `StakeFlow` |
| `Pot` | the pot that all events share, the payout runners, the receivers, and the indexer's rows of them (E13-E15b) |
| `Accounts` | registration, offers of tokens, the deposit acceptor |
| `WebSession` | who is signed in, in one tab, over `Accounts` |
| `EscrowProofs`, `SettlementProofs`, `PotProofs`, `AccountProofs` | theorems about `Escrow`; `Settlement`; `Pot`; `Accounts` and `WebSession` |
| `ReadModelProofs`, `FeedProofs`, `PageProofs` | theorems about `ReadModel` and `StakeFlow`; what the rows say in the end (`PollFeed`); `EventPage` |
| `Sums` | facts about sums over finite sets, for the proofs about money |
| `MCEscrow`, `MCSettlement`, `MCReadModel`, `MCStakeFlow`, `MCEventPage`, `MCPot`, `MCWebSession` | instances for TLC |

`Settlement` and `ReadModel` both EXTEND `Escrow`; `PollFeed` and `StakeFlow` EXTEND
`ReadModel`, `EventPage` EXTENDS `StakeFlow`, `WebSession` EXTENDS `Accounts`. `Settlement`
does not use `ReadModel`: the runner reads the ledger, and of the rows only the
Event's contract id, the watcher of each row only whether it is flagged and staked;
`readModel` keeps that. `Pot` stands alone:
what the contracts decide about a stake and what becomes of the money afterwards
meet in the number of no-shows and the set of those who came, its constants.

### Escrow

Every choice is an action and its guard is the conjunction of the choice's
assertions. Controllers are not modelled: any of them may exercise a choice at
any moment, so what is shown does not depend on the backend's behaviour.

A StakedRSVP that a choice recreates keeps its identity `r`, and `ver[r]` counts
the recreations: the pair stands for the contract id. An Event is recreated once
(EndEventEarly), so `event[e]` "open" or "ended" stands for its contract id.
`allocOf`, `checkedIn` and `withdrawn` are the fields of the contract, and keep
their last value when it is archived, where `stage[r]` says how.

An allocation `a` has the specification `spec[a]` (settlementRef, sender, and
whether executor, receiver, amount and instrument are the event's) and the state
`astate[a]`: "locked" while it is active, afterwards where its funds went. In the
demo token that is a holding minted to the sender or to the pot by the same
transaction. Slots are pairs of event and attendee, because the backend uses
the attendee's email as slot id; two invites of one attendee share a slot.

CloseEvent takes any set of items. It succeeds when each could be settled and no
two name one allocation (the second exercise would find it archived), else the
whole transaction fails and nothing changes. Settle is only ever exercised by
CloseEvent, so it has no action of its own; AllocationRequest's two choices
have the same effect and are one action.

### StakePromise

A stake's money is free, locked, returned or forfeited. It is locked with a
pledge (owner and event) and then may be returned at any time, or settled with
other stakes of its event, all or none, while the event is over and not closed.
Returned and forfeited are final. `Escrow!PromiseKept` maps the ledger to it:
"withdrawn" and "refunded" are both returned, an event is closed when it is
archived or its settlement window is past.

### Settlement

`pc[c]` follows `Runner.Close`:

| pc | Code | Leaves by |
|---|---|---|
| idle | before the request, or after an error was returned | `Begin` (requireOrganizer reads the events row) |
| begun | `preflight`, first query | `QueryRsvps` |
| queried | `preflight`, second query | `QueryAllocs` |
| preflight | MarkWithdrawn on each RSVP without an active allocation, then EndEventEarly | `PreflightMark`, `EndEvent`, `ResumeEnded`, `EndEventFails` |
| closing | `closePrimary` or `closeSequential` | `SubmitClose`, `SubmitNothing`, `SubmitFails` |
| payout | `runPayouts`, then MarkSettled | `PayOut`, `PayOutFails`, `Finish`, `FinishFails` |

An item carries the version of the RSVP that was read: a submission succeeds
only if that contract id is still active. `Die` returns a request to idle at any
point, which covers a restart, a cancelled request context, a choice context
that cannot be fetched and a submission whose outcome never arrived: since every
effect is a step, dying right after it is the case where it took effect and the
caller does not know. The environment may check attendees in, cancel, allocate,
record, let time pass, take stakes back, and project the Event's new contract id at
any later moment. Taking a stake back (`TakeBack`) flags the row that is staked with
it, as E12 does, for good. The watcher (`Watch`) marks any RSVP whose row is flagged
and staked, at any later moment and without a look at the allocation, as the code
does; that the RSVP is not marked yet is what `status = 'staked'` means for a row
whose contract id is the current one, the only one its submission can succeed with.
Rows belong to attendees here, so a flag may be of another RSVP of the same attendee.
Which of two RSVPs such a row names is left to `ReadModel`: here the watcher may mark
either, which allows more than the code does. Left out are the
balance snapshots and the labels of the response: neither decides anything.

`attended` is a history variable, `deaths` counts against the bound MaxDeaths.

### ReadModel

A step of the ledger is one transaction. Its update is computed from the step
itself: `Contracts` is the set of active contracts with the payload the indexer
reads, and the update has the contracts that the step created and archived, and
whether CloseEvent settled something in it. (An archive names a contract id only,
and so do the handlers when they look at one.) `Publish` is a conjunct of each
step of the ledger and appends the update.

| Variable | Code |
|---|---|
| `eventRow`, `rows`, `settlements` | the tables events, rsvps and settlements, and the ProjectorState that is kept equal to them; one rsvps row for each event and attendee |
| `queue` | the promise chain of the websocket feed |
| `resend` | what a subscription from the committed offset would deliver |
| `stale` | how many updates of `queue` came from a connection that has dropped |
| `sweep` | what the watcher's query returned and it has not submitted yet |
| `crowded` | history: slots that had two RSVPs outstanding at once |

`Project` is `Projector.apply`: `HandleEvent`, `HandleRsvp` and `HandleSettlement`
are the handlers as functions of the rows before the update, written with the
offset in one database transaction. `Restart` is a crash, or a transaction that
failed and halted the feed: it goes on from the committed offset. `Reconnect` is
a dropped connection: the updates it delivered stay in the chain, while the new
subscription delivers them again; the committed offset then goes back when the
first of them is handled again, as it does in the code. One reconnection at a
time is modelled. The handlers resolve an archive by the contract id in the row,
so updates handled again find other ids in the row than the first time.

The watcher queries (`WatcherQuery`), then submits for each candidate under the
contract id of the row (`WatcherMark`), or is refused (`WatcherFails`).
Otherwise MarkWithdrawn comes from the runner's preflight, only for an RSVP whose
allocation is not active; `Ledger` says so.

### StakeFlow

A request is a handler in progress: `request[q]` has the submission or query
that is next and the contract ids it read from the rows when it began.

| Handler | Steps |
|---|---|
| handleJoin, handleInvite | `Join` or `Invite`, `SubmitInvite` |
| handleAccept | `Accept`, `SubmitAccept`, then `SubmitAllocate` and `SubmitRecord` (runAllocation) |
| handleStake | `Stake`, `FindAllocation` or `LookupFails`, then `SubmitRecord` of the allocation found, or runAllocation |
| handleDecline, handleCancel, handleCheckin | `Decline`, `Cancel` or `Checkin` and its submission |

A submission is the choice of `Escrow` with the contract ids that were read: it
can only succeed while they name active contracts. `Fails` ends a request
anywhere: a refusal, a time-out, a registry that cannot be reached, a balance
that is too small, a process that dies. After a submission that took effect it
is also the case where its outcome was not learned. Nothing remembers a request;
the user presses a button again, which is a new one. `Elsewhere` is what goes on
around the handlers: the wallets' Allocation_Withdraw and AllocationRequest
choices, proposals, the organizer's revocations, the steps of a close and time.
A two-step allocation instruction is taken to complete at once.

`blind` is a history variable: the slots for which a lookup failed while an
allocation was locked. The handler then goes on as if there were none and locks
a second stake, which the comment above it accepts, so `OneStakePerSlot` leaves
those slots out.

### PollFeed

`STREAM_MODE` chooses between two feeds; `mode` is that choice, and everything of
`ReadModel` is the websocket feed. In poll mode `prev` is the last fetch that was
projected, kept in memory, and `PollTick` is `tick`: it hands `Diff(prev, Contracts)`
to the same handlers and replaces `prev`. A tick that fails changes nothing, so it
has no action. `Seed` is the first fetch into an empty database, `PollRestart` a
process that finds an offset and only remembers its first fetch. `passed` has what
came and went between two fetches. `Diff` is
`diffToUpdate`: an RSVP that is gone is taken to be settled if its event ended in
the same window, else cancelled.

Such a guess can be wrong, and the module says exactly when: `blurred` collects
the slots and events of which one window hid something (`Unclear`: an invite, an
RSVP or a stake that came and went in it, an end that looks like another), or a
restart (`Missed`). The three faithfulness properties of the rows hold for both
feeds outside `blurred`. A tick is atomic: it fetches the contracts that are active at the ledger's end it
has asked for, and what comes later belongs to the next window.

### EventPage

| Variable | Code |
|---|---|
| `viewer` | whether the tab is the attendee's, the organizer's who checks in ("door"), or who invites and settles ("desk") |
| `shown`, `early` | the last answer of GET /api/events/{id}, and whether the deadline had passed when it was rendered |
| `posts`, `busy` | the POSTs whose answers are awaited, and the controls disabled by one |
| `stepping`, `timers` | RsvpCard's stepper in place of the buttons, and the timers that hide it |
| `ticked`, `scan`, `results` | CheckinList's optimistic latch, the scanner's dialog and what it has seen, the settlement package of a close |
| `came` | history: the attendee was checked in once |

`Offers` gives the buttons of each state of RsvpCard. `Post` sends one: it is a
request of `StakeFlow`, begun with the ids the page has (`Starts`), or an answer of
the handler's first reads, or a POST that never arrives. `Serve` advances requests
and notes the answer on whoever waits (`Note`); `CardAnswered` and `PanelAnswered`
are the code after the await. Everybody else does what `StakeFlow` allows.
Bounds, in the module: the three viewers have tabs of their own and are not open
at once, and the clock stands still around the organizer.

### Pot

`CloseEvent` is the settlement as the pot sees it: a holding for each no-show.
`Gather`, `Transfer`, `Mint`, `PayoutFails` and `AcceptPayout` are payout.go, one query
or submission at a time; `token` is the kind of registry: the demo token's Mint for
all receivers at once, a transfer that is delivered at once, one that the receiver
accepts, and one whose registry strips the meta that names the event. Holdings
have identities, since a transfer names them: a second event that gathered one
that is spent is refused. `disturbed` is a history variable: the payouts that met
a refusal, a death, or another event's payout. `Project` is E13 to E15b, with the
feed of `ReadModel`. `Deposit` is a transfer that has nothing to do with the pot.
In the model each event is closed once (what two closes of one event do is in
`Settlement`) and the deposit is offered before any event closes.

### Accounts and WebSession

A registration is three steps (`StartRegister` looks for the email, `AllocateParty`,
`InsertUser`), any of which may fail or lose its answer; emails and parties are
UNIQUE in the table, so an insert of a taken email fails. An offer is a
TransferInstruction to a party, of a token that has a registry configured
(`known`) or not. The acceptor visits the parties of the users in turn (`Sweep`,
`SweepParty`), tries the offers it finds (`Accept`, `AcceptFails`), and remembers in
`seen` what it need not try again (`Ignore`); `ServerRestarts` empties its memory.

`WebSession` has SWR as the tab uses it: `cache[k]` has the owner of the data under
a key and the last error, `fetch[k]` the one fetch whose answer still counts, with
the account of the cookie it was sent under. `Polled` keys are asked for again
unless they hold an error. `op` is the POST or revalidation a form waits for:
`SignedIn` begins revalidateAll (session first, awaited, then everything is
cleared and asked for again), `LoggedOut` goes on also when the POST failed and the
cookie is still there. `Render` is a render with its effects, among them the
baseline of the BalancePill; `Navigate` is the guard. A bound, in the module: other
registrations, tokens and the acceptor go their way while the tab is closed, for
they share nothing with it but the accounts.

## Runs

| Run | Checks | Bounds |
|---|---|---|
| `escrow` | types, own stake only, check-in backed by a stake, the books, refinement of StakePromise | 2 events of different length, 2 RSVPs in one slot, 2 allocations with 3 possible specifications, time 0..3, 4 recreations of an RSVP |
| `settlement` | types, pot conserved, nobody who came is slashed, payouts match the ledger, no active stake detached | 2 requests of which one uses the sequential fallback, 1 death, 2 attendees, 2 allocations, stake of 3 units, time 0..2, at most 6 recreations |
| `settlement_live` | a close that was begun ends with the event settled | 2 requests, 1 death, 1 attendee, 2 allocations, inside the settlement window |
| `pot` | types, nothing lost, the pot covers what is due, everybody paid unless disturbed, rows of holdings and payouts, an accepted payout stays accepted | 2 events that share the pot (2 guests and 1 stake of 3; 1 guest and 1 stake of 2), 4 kinds of token, one deposit, 2 transactions behind, 4 updates in the queue |
| `stranded_stake` | violated: MarkSettled leaves no active stake behind | 1 request, no death |
| `pot_lost` | violated: a settled event with no-shows paid everybody who came | 1 request, 1 death |
| `read_model` | types; rows, settlement outcomes and flags agree with the contracts when either feed has caught up, outside what the poll feed could not see | 2 invites of one attendee, 2 allocations, 2 recreations; 2 transactions behind and 3 updates in the queue, or 5 transactions between two fetches |
| `live_stake_marked` | violated: no active allocation is detached | 2 invites, 2 allocations, 1 transaction behind |
| `stake_flow` | types; one stake per slot; a locked stake does not stay unrecorded; a stake taken back is marked in the end | 1 request at a time, any number of them, 1 invite, 2 allocations, 1 transaction behind, 5 recreations |
| `double_stake` | violated: one stake per slot | 2 requests at once |
| `event_page` | types and disabled controls; one tab locks one stake; the stepper stays while a stake is locked; the verdict, the buttons and the lists are true | 1 invite, 2 allocations, 2 requests at once, 1 transaction behind, time 0..1, 2 recreations |
| `web_session` | types; only one's own data, no false flash, the session follows the cookie; an account keeps its party, deposits land | 1 tab, 2 accounts of which one is registered, in the tab or elsewhere, 3 parties, 1 offer |

Why the bounds are enough: the interesting cases of `escrow` need two RSVPs that
compete for one allocation, one allocation that is not what it should be, a
second event to mistake for the first, and an RSVP that is staked, checked in,
withdrawn, marked and staked again (4 recreations). Those of `settlement` need
one ghost and one guest, a second request to overlap with and one to die; times
0, 1 and 2 are before the RSVP deadline, after it, and after the settlement
window. With transfers that may fail the run covers the demo token's payouts too:
a Mint is all transfers or none. Shares with a remainder are in `pot`, where two
guests share 3 units as 1 and 1, and the rest stays in the pot that the other
event pays from. The
liveness run needs a second allocation, so that the only attendee can change
the RSVP under a request more than once. `Symmetry` permutes allocations,
requests and (in `MCEscrow`) the two RSVPs of one slot, which no constant tells
apart; the runs with a liveness property use none.

For the rows, two transactions behind is the least that lets a row be wrong about
two things at once (a flag and a new contract id), and a queue of 3 holds an
update twice with another one behind. Five transactions between two fetches are
an RSVP accepted, staked, checked in and settled in one window; before the first
fetch there may be any number. The run stops extending poll mode when the only
slot is blurred, for then nothing is said any more. Two invites of one attendee are
enough for a row that is used again after a cancellation or a settlement, and
for two RSVPs that share a row; what the rows then show is not specified
(`crowded`), only that a settlement outcome is never invented. In `stake_flow` the
rows are at most one transaction behind, but a request keeps the contract ids it
read for as long as it runs, so what it submits may be as old as the run. The
second allocation is the one that should never be made. The run has one RSVP per
slot: an RSVP that is cancelled before its allocation was recorded releases
nothing, and the next invite's accept allocates without a lookup, so that a slot
that is used twice may get two stakes. There the comment at
handlers_rsvp.go:426, "unique per RSVP", does not hold.

In `event_page` two requests at once are a POST that the page waits for and
one whose answer was lost; the second allocation is again the one that should
not be made. The second account of `web_session` is the one whose data must not
be seen, and the third party the one that a lost answer or a second registration
leaves to nobody. In `pot` two events are enough to disturb each other, and two
attendees to see that one payout that fails strands no other.

Deadlock is not checked: when every contract is archived and the clock is at
its bound there is nothing left to do.

Fairness: in `FairSettlementSpec` each request takes a step when it can
(the server runs it, and an idle one means that the organizer presses close
again), and the indexer projects the Event in the end. Nobody else is
assumed to do anything. Requests dying and being refused do not contradict it:
deaths are bounded, as they are assumed to be rare, and a refusal comes from an
attendee's step between two of the request's, of which there are finitely many
for each stake. The run stays inside the settlement window, because after
`settleBefore` no CloseEvent with an item can succeed.

`FairStakeFlowSpec` assumes that the projector goes on, that a request ends, that
the watcher looks, that of its submissions one succeeds in the end if it is
possible again and again (strong fairness of `Marks`: it sweeps every 10 seconds,
and what makes a contract id stale is a step of somebody else, of which the
bounds allow finitely many), and that the attendee of a stake that is not recorded
presses retry again and not every retry dies (strong fairness of `Retry`,
`FindAllocation` and `SubmitRecord`). Nothing is assumed of the organizer, of
wallets, of an accept or of an allocation.

`TabFairness` is what a browser does: an open tab renders, its timer polls the
session when it may, and a fetch that was sent is answered or fails in the end
(strong, since a render comes in between). `AcceptorFairness`: the acceptor's loop
goes on, is not always restarted before it has asked for a given party's offers,
and an offer that is tried again and again is accepted in the end. The
registry or the ledger may fail in between as often as they like.

### What the violated runs show

`NoStrandedStake` is what a comment in `ShowOrSow.daml` asks of the backend.
RecordAllocation does not look at the Event, and a stake recorded after the
runner's preflight query is not settled by it; MarkSettled then archives the
Event. The stake is not lost, its owner can withdraw it, but neither the refund
nor the slash ever happens.

`PotRedistributed` is the README's claim. The payouts are computed from the
items of one request. A request that dies between CloseEvent and its payouts
is resumed, as the comment in `runner.go` intends, but the new request finds no
RSVP left, pays nobody and marks the event settled.

`LiveStakeKept` is what MarkWithdrawn is for, by its comment: the attendee
withdrew the allocation. The column withdrawal_detected is set by E12 and never
cleared, and a row belongs to event and attendee, not to an RSVP. In TLC's run two
invites are outstanding: the first is staked and its stake withdrawn, which flags
the row; then the second is staked. It is a candidate at once: its stake is
detached while it is active, and its owner cannot be checked in. (The same
happens, one RSVP after the other, to who withdrew, cancelled and was invited
again.)

`OneStakePerSlot` is what the comments on handleStake and findAllocation want. It
holds in `stake_flow` for requests one after the other, whatever dies; in
`double_stake` two requests at once are both past the lookup before either has
allocated.

### What else was seen while modelling

Not violations of a property that the repository states of one place, or outside
the modules, but worth knowing; the hazards in `PROJECT.json` have the lines.

- SWR does not poll a key whose last answer was an error, and Providers.tsx sets
  shouldRetryOnError to false. After one failed poll the event's page, the
  balances and the session stand still until something else asks for them;
  the comments in app/events/[eventId]/page.tsx expect a retry every two
  seconds. `SessionFollows` leaves this out as `Stuck`, and `EventPage` assumes
  polls that succeed in the end.
- A logout whose POST fails keeps the cookie: the next fetch of the session signs
  the tab in again. `SessionFollows` allows it, for the tab then shows the account
  of the cookie.
- The payouts row says accepted when its instruction is archived, also when the
  receiver refused it (`PayoutRowsFaithful` says so); one-step transfers and the
  demo token's Mint leave no row, and unstamped transfers go to
  payouts_unattributed only.
- Two events that close at once may gather the same holdings. The transfer of the
  second is refused and never repeated; the money stays in the pot (`NothingLost`).
- RsvpCard takes a check-in to count more than the status. An RSVP that was checked
  in, was archived by AllocationRequest_Reject and invited again shows as checked
  in, since E16 does not clear the column. `OffersHold` is proved for slots nobody is
  invited to twice.
- Updates that are handled again after a reconnection take rows back for a while
  (indexer/README.md:29 calls a replay from any offset safe): the create of an
  RSVP without a stake finds "settled", leaves the status and takes the check-in
  away, and until the later updates are handled again the page tells an attendee
  who was refunded that the stake was slashed. `VerdictTrue` names this case.
- The poll feed: a live StakedRSVP whose invite is gone has no row after `Seed`,
  against the comment above the seed, and an RSVP that was settled before has no
  outcome; a check-in and the close in one window
  record a slash for who came; a restart skips what happened meanwhile; E14 never
  fires.
- The comment on the optimistic latch (CheckinList.tsx:27, "once clicked it never
  un-latches locally either") is contradicted seventeen lines further down, where
  the latch is rolled back when the POST fails; `PanelTrue` depends on that. What
  does stay is the latch of a check-in that MarkWithdrawn took away later.
- Two closes of one event write the snapshot of the balances before it twice, so
  the delta on the results page may be that of the second.

## Proofs

`EscrowProofs` proves, for any sets of events, attendees, RSVPs and allocations
and any deadlines:

| Theorem | Property |
|---|---|
| `TypeCorrect` | `TypeOK` |
| `OwnStake` | `OwnStakeOnly` |
| `CheckInBacked` | `CheckedInHoldsStake` |
| `BooksBalance` | `StakeAccounted` |
| `PromiseHolds` | `PromiseKept`, the refinement of StakePromise |

They assume `EscrowConstants`: the types of the constants, and that the two
"none" values are not values of the sets they complete.

`StakeAccounted` is not inductive alone. A settlement changes the state of an
allocation that some RSVP names, and another RSVP may name the same one: that
the other did not use it up already follows only if using up implies that the
allocation is no longer active, which is a conjunct, and that an allocation a
contract names was really created (`RecordedExists`), so that `Allocate` cannot
bring it back. The inductive invariant `Books` is TypeOK, RecordedExists,
OwnStakeOnly and StakeAccounted. The proof has a lemma for each action that
spends an allocation (`BooksClose`, `BooksCancel`) and one for all the others,
which change neither who spent what nor where funds went. `PromiseStep` maps
each action of Escrow to the step of StakePromise it implements; it needs
OwnStakeOnly to know that an RSVP of an event names a stake pledged to that
event, and `PhaseForward` that events only move forward. The instance of the
bound `MaxVersion` in `Recreate` is in the theorems as it is in the model: it
only removes steps beyond a number of recreations that may be chosen at will.

`ReadModelProofs` composes the parts, for any number of requests and of RSVPs per
slot:

| Theorem | Says |
|---|---|
| `ReadModelRefinesEscrow` | the indexer and the watcher do nothing to the contracts that Escrow does not allow |
| `StakeFlowRefinesReadModel` | the handlers are a way of using the ledger and the read model |
| `PromiseToUsers` | so the composed system implements StakePromise (`PromiseKept`) |

The argument is one lemma per layer: each step of a handler reads, or is a choice
of Escrow followed by `Publish`. Since `Ledger` allows a recorded allocation to be
detached only when it is not active, the lemma for the handlers
(`LedgerChoice`, and the case of `SubmitRecord`) has to show that none of their
choices detaches one, for which it needs `TypeOK`. They assume
`ReadModelConstants` and `StakeFlowConstants`: the "none" values again, and that what
runAllocation allocates is a specification.

The second half of the module is about rows and requests:

| Theorem | Property |
|---|---|
| `ReadModelTypes` | `ReadModelTypeOK`, a conjunct of the types below |
| `OutcomesTrue` | `OutcomeTrue` of every slot, the first half of `FeedSettlementsFaithful` for the websocket feed |
| `StakeFlowTypes` | `StakeFlowTypeOK` |
| `OneAtATime` | `OneStakePerSlot`, if requests run one at a time and nobody is invited twice to an event |

An update may be handled long after its transaction, twice, and after later ones.
What can be kept is what it says for good: `Honest` is that the contract of every
create has existed, with that payload as long as its contract id is the current
one, and that every archive is final. So a row says things that were true
(`RowSays`), and a settled row belongs to an RSVP that was settled (`Verdicts`),
whatever order updates come in. `Holds` says of the ids that a request read only
that they are of its slot. For `OneAtATime`, `Holder` says that nothing of a slot is
locked before its RSVP is accepted, nor while a request is about to lock something:
the lookup of a retry has found nothing, and no other request runs. Its two hypotheses
are what the run `stake_flow` has as bounds; without the first one the property is
false (`double_stake`), without the second too (see *Runs*).

`FeedProofs` is about the rows under either feed, for any number of restarts:

| Theorem | Property |
|---|---|
| `FeedTypes` | `FeedTypeOK` |
| `FeedRows` | `FeedRowsFaithful` |
| `RowsCatchUp` | its case for the websocket feed |
| `FeedSettlements` | `FeedSettlementsFaithful` |
| `FeedFlags` | `FeedFlagsFaithful` |

The difficulty of the websocket feed is that an
update which is handled again takes a row back to a state it has left, so that no
invariant of the form "the row is right, up to the updates in the queue" holds
without saying which of them matter. `Tends` does: to each state of an RSVP belong
the updates that bring its row about and those that may undo it, and either the
row is right and no update undoes it, or behind the last update that undoes it
comes one that brings it about. Restarts, reconnections and appended updates keep
that by one lemma each, whatever the state is about.

The poll feed never sees what came and went between two fetches. `PollSays` says
that what was fetched, or seen to pass, existed, and what it may differ in from the
ledger; `PrevShows`, that outside of what is blurred a row fits the paper of its slot
in the last fetch; `Trail`, that an RSVP seen once leaves a paper
until it is seen again. `RowFetched` is the step of the projector over one
difference: it takes a row that fits the last fetch to one that fits this one, if the
difference is not `Unclear`. A restart forgets the last fetch, so that only what
did not change in between (`Missed`) still fits. It assumes `PollFeedConstants`, that
the bound on the window is a number.

An outcome or a flag that was written is never taken back, so an update which is
handled again cannot undo it. It can fail to arrive, for E10 and E12 act only if
the row names the contract that the update archives. `SlotDue` says, of each RSVP
of a slot, that the outcome is written or some update in the queue settles the
RSVP and finds its row (`ToOutcome`); that the flag is set or some update tells the
loss of the stake and finds a row that shows it (`ToFlag`); and that a stake which was
given back is never found lost: whenever the cancellation is handled, a row that
shows the stake shows the RSVP that was cancelled, so that E12 is not reached
(`ToQuiet`). Each says with `Tends`, up to the update in question, what the row will
be by then. `LossTold` says that the archive of an allocation in an update is a loss,
a close or such a cancellation, and `Sole` that no later RSVP of the slot names a
stake that was used up.

The poll feed sees an outcome in what is gone. `EndSeen` says that an RSVP which
ended, and of which some version was fetched or seen to pass, was known in its last
one; `OutcomeDue`, that a settled RSVP stays known until its outcome is written; and
`FlagDue`, that with an RSVP the last fetch has its stake, or the row is flagged.

`SettlementProofs` is about any number of close requests, attendees and
allocations, of which some requests are sequential, and any number of deaths:

| Theorem | Property |
|---|---|
| `SettlementTypes` | `SettlementTypeOK` |
| `PayoutsMatch` | `PayoutsMatchLedger` |
| `AttendedSafe` | `AttendedNotSlashed` |
| `ActiveKept` | `ActiveStakeKept`, with its exception for RSVPs that share a row |
| `BooksThroughout` | `StakeAccounted`, from an initial state in which stakes are locked already |
| `PotNeverOverdrawn` | `PotConserved` |

A request works from what it read a while ago. The invariant `Kept` says in which
sense that is still so: the version of an item is at most the RSVP's, its
allocation exists, and as long as the version is the current one, the RSVP names
that allocation, is checked in exactly if the item says so, and is not withdrawn.
`KeptStep` shows that every choice of Escrow keeps it: what changes a field
recreates the contract. `Work` adds what holds at each point of a request
(`Progress`): what preflight has to mark is archived, and stays so (`GoneStays`);
what a close has submitted is settled the way the item says, and stays so
(`OutcomeStays`). The steps of other requests and of everybody else only need that
they are choices (`ChoicesOnly`, `ProgressKept`). `AttendedNotSlashed` needs one more
conjunct, `Remembered`: a check-in is only lost to a withdrawal, and that is never
taken back, while a settlement takes no item that is marked. `ActiveStakeKept` has two
halves. For preflight it follows from `Progress`. For the watcher, whose flag is never
reset, it needs `FlagTrue`: a flagged RSVP that is not marked still names the stake
that the flag is about, for it lets go of it only when it is marked (`NamedStays`), and
what it names after that it names as a marked one. That takes an attendee with one
RSVP (`Alone`). With two it is false, as the run `live_stake_marked` shows over
`ReadModel`, and `ActiveStakeKept` says nothing of the watcher there. The theorems assume
`SettlementConstants`, among them that there are finitely many RSVPs, without which
a share would not be a number.

What all requests pay out is a sum over requests, RSVPs and shares, and so is what
was slashed. `Purse` says that no RSVP is settled by two requests (its contract id
is archived by the first submission that names it), that what a request pays out
is covered by what it slashed itself, and, so that a step of one request can be
taken out of the sum, that whichever requests are left out, the payments of the
others are covered by what they slashed. `PotConserved` is the case that none is.

`Sums` has the facts about sums that this needs. The community modules compute
them by recursion over the subsets of a set, and the library justifies recursion
with an operator as a parameter, which none of the provers can instantiate. A
finite family of sets has a smallest one instead, and that the sum exists, is
unique and splits over disjoint sets (`SumUnion`) is shown by a smallest
counterexample.

`PotProofs` is about any number of events that close at once, attendees,
no-shows and every kind of token:

| Theorem | Property |
|---|---|
| `MoneyKept`, `PotKept` | the inductive invariants of the money and of the rows |
| `PotTyped` | `PotTypeOK` |
| `NothingIsLost` | `NothingLost` |
| `PotAlwaysCovers` | `PotCovers` |
| `AllPaidUnlessDisturbed` | `PaidUnlessDisturbed` |
| `PotRowsCatchUp`, `PayoutRowsCatchUp` | `PotRowsFaithful`, `PayoutRowsFaithful` |
| `AcceptedIsFinal` | `AcceptedStays` |

A payout runner spends holdings it found some time ago. `Sound` says that a runner
which is about to submit can still pay what it aims at, or that its payouts count
as disturbed; `Served`, that who came is still due, was paid or offered the share,
or was disturbed. `NothingLost` and `PotCovers` are kept by every step given these
two. For the rows (`Catch`), every holding is in a row or created by an update in
the queue, every row of one that is gone is removed by an update in the queue, and
a create that is handled again has its archive behind it.

`PageProofs` shows that the page over all that is below it implements
`StakePromise` (`PromiseOnPage`), by the lemmas of `ReadModelProofs`, and

| Theorem | Property |
|---|---|
| `PageTypes` | `EventPageTypeOK` |
| `StepperStays` | `StepperShown` |
| `VerdictHolds` | `VerdictTrue` |
| `PanelHolds` | `PanelTrue` |
| `TabStakes` | `TabStakesOnce`, in a slot nobody is invited to twice; like the property, unless a lookup for a lost allocation failed (`blind`) |
| `OffersHold` | `OffersTrue`, in a slot nobody is invited to twice: only of a page that has caught up (`Fresh`) |

`StepperShown` is not inductive, for an answer starts a timer that hides the stepper
a second later. `Stepper` adds that the card has one POST at most, that no timer
runs beside it, and that the stepper is there while one runs. What the page shows
was returned by a poll once (`Shows`), so a verdict is true because `RowSays` and
`Verdicts` are kept by every later step of the ledger. `TabStakesOnce` does not
assume one request at a time: it follows from the disabled buttons and the stepper,
for the attendee's tab waits for every request that runs (`Tab`). `OffersHold` takes from `FeedProofs` what the row
says when the page is fresh. They assume `EventPageConstants`.

`AccountProofs` shows of accounts and of the tab, for any number of registrations,
offers and requests of the tab:

| Theorem | Property |
|---|---|
| `PartyKept` | `PartyForLife` |
| `WebTypes` | `WebTypeOK` |
| `OwnDataShown` | `OwnDataOnly` |
| `FlashesAreTrue` | `NoFalseFlash` |

Its invariant `Registry` says of the party that a registration is about to insert that
it is on the ledger and belongs to no account and to no other registration. It
assumes of the demo accounts only that no two share a party (UNIQUE in
002_users.sql). For the tab, `OneUser` says that unless the account is just being
changed, whatever is cached, or being fetched and will still count when it comes,
belongs to the account that the session shows; `PillOwn` says it of the pill's
baseline.

Only model-checked are:

- what happens in the end, under fairness, which is out of the prover's reach: that
  a close request, the acceptor and the watcher get there (see *Fairness*);
- what the runs that expect a violation show.

## Not modelled

Amounts and decimals (but for the shares and the holdings of the pot), display
names, HTTP and JSON, the registry's off-ledger contexts, a two-step allocation
instruction (taken to complete at once). Contract visibility and authorisation by
signatories are the ledger's, not this program's.

- The funding holdings of an allocation and the change it returns are merged and
  split in one transaction by the demo factory, and nothing else looks at them.
- Balance snapshots decide nothing; configuration, server assembly, health checks
  and migrations keep no state that others read.
- The token provider is a cached token behind a mutex, and the registry client
  pure requests: a failure of either is a submission that fails.
- The faucet mints to one party and touches no stake; the button is in
  `WebSession`.
- Of the web UI: the camera of the scanner, the landing page and its simulator, the
  proof page, the validation of forms, layout, and a second tab of one user.

## Plan

1. *(done)* `Escrow` with `StakePromise` and its proofs: the contracts decide
   everything that matters, so they come first.
2. *(done)* `Settlement` over `Escrow`: the longest multi-step operation.
3. *(done)* `ReadModel` over `Escrow`: the indexer's handlers E1-E12 and E16, crash,
   replay and reconnection, and the withdrawal watcher.
4. *(done)* `StakeFlow` over `ReadModel`: the handlers, each a sequence of reads and
   submissions that may die, over rows that lag.
5. *(done)* `PollFeed` over `ReadModel`: which rows the comparison of two fetches
   gets wrong.
6. *(done)* `Pot`: payouts of several events, holdings and change, and the rows of
   E13-E15b.
7. *(done)* `Accounts` and `WebSession`: registration, deposits, and who is signed in.
8. *(done)* `EventPage` over `StakeFlow`: the page whose buttons start the handlers.
9. *(done)* Proofs about `Settlement`, `EventPage` and `Accounts`.
10. *(done)* Proofs: the sums of `Settlement` and `Pot`, the rows of the pot, the
    types of all modules, `OneStakePerSlot` for one request at a time, the page and
    the session.
11. *(done)* Proofs: that no outcome is missing and that flags are true, in either
    feed.
12. A slot that is used twice over `StakeFlow`, with the organizer's close going on:
    what it leaves locked.
13. Two tabs of one user over `EventPage`: `double_stake` as the user meets it.
