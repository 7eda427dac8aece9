------------------------------- MODULE EventPage -------------------------------
(***************************************************************************)
(* The page of an event (web/src/app/events/[eventId]) in one browser tab: *)
(* the RsvpCard of an attendee, or the OrganizerPanel.  It shows what its   *)
(* last poll returned, offers buttons for that, and sends one POST per     *)
(* control at a time; the handlers of StakeFlow answer.  Nothing but the   *)
(* page keeps two requests of one user apart: once it is left or reloaded, *)
(* or a proxy gives up on an answer, they are StakeFlow's two at once.     *)
(*                                                                         *)
(* The tab is the attendee's or the organizer's, who either checks people  *)
(* in or invites and settles (a bound); everybody else does what the       *)
(* ledger allows.  The page is that of the event of MySlot, and of the *)
(* organizer's lists it is the row of MySlot.  An answer of a poll is read *)
(* when it arrives; one that was overtaken by a later one is dropped.      *)
(***************************************************************************)
EXTENDS StakeFlow

CONSTANTS
    MySlot      \* the event of the page and the attendee

(* The row of MySlot, as far as the page looks at it. *)
Card == [status : RowStates, checkedIn : BOOLEAN,
         invite : Rsvps \cup {None}, rsvp : RsvpCids \cup {None}]

ASSUME EventPageConstants ==
    /\ MySlot \in Slots
    /\ None \notin Requests
    /\ NoRow \notin Card

VARIABLES
    viewer,     \* whose tab it is
    shown,      \* the event and the row of MySlot as the last poll had them
    early,      \* the deadline had not passed when that was rendered
    posts,      \* the POSTs whose answers the page waits for
    busy,       \* the controls that are disabled by one
    stepping,   \* the stepper is shown in place of the card's buttons
    timers,     \* the timers that will hide it
    ticked,     \* CheckinList's optimistic latch
    scan,       \* the scanner's dialog, and whether it has seen the pass
    results,    \* the close POST returned a settlement package
    came        \* history: an RSVP of MySlot was checked in once

cardVars  == <<stepping, timers>>
panelVars == <<ticked, scan, results>>
epVars    == <<sfvars, viewer, shown, early, posts, busy, cardVars, panelVars, came>>

here == MySlot[1]

CardOps  == {"join", "accept", "decline", "stake", "cancel"}
PanelOps == {"invite", "list", "scan", "close"}

(* The ops that show the stepper while they run. *)
StakeOps == {"accept", "stake"}

-------------------------------------------------------------------------------
(* What the page shows *)

CardRow(row) ==
    IF row = NoRow THEN NoRow
    ELSE [status |-> row.status, checkedIn |-> row.checkedIn,
          invite |-> row.invite, rsvp |-> row.rsvp]

(* GET /api/events/{eventId}; 404 while the event has no row. *)
Detail ==
    IF eventRow[here] = NoRow THEN NoRow
    ELSE [event |-> eventRow[here].status, row |-> CardRow(rows[MySlot])]

(* The page asks every two seconds, and after a POST.  It renders again when *)
(* the answer differs, and reads the clock then.                             *)
Poll ==
    /\ Detail # NoRow
    /\ shown' = Detail
    /\ early' \in {BeforeRsvpDeadline(here)} \cup (IF shown = Detail THEN {early} ELSE {})
    /\ UNCHANGED <<sfvars, viewer, posts, busy, cardVars, panelVars>>

(* The state of the card: a check-in counts more than the status. *)
CardState ==
    CASE shown = NoRow                                          -> "loading"
      [] shown # NoRow /\ shown.row = NoRow                     -> "stranger"
      [] shown # NoRow /\ shown.row # NoRow ->
            IF shown.row.checkedIn /\ shown.row.status # "settled"
            THEN "arrived" ELSE shown.row.status

(* Mutant: the status alone decides. *)
Offers_Status(op) ==
    /\ shown # NoRow
    /\ \/ op = "join"    /\ shown.row = NoRow /\ early /\ shown.event = "open"
       \/ /\ shown.row # NoRow
          /\ \/ op = "accept"  /\ shown.row.status = "invited" /\ early
             \/ op = "decline" /\ shown.row.status = "invited"
             \/ op = "stake"   /\ shown.row.status = "accepted"
             \/ op = "cancel"  /\ shown.row.status = "staked" /\ early

(* The buttons of the card. *)
Offers(op) ==
    \/ op = "join"    /\ CardState = "stranger" /\ early /\ shown.event = "open"
    \/ op = "accept"  /\ CardState = "invited"  /\ shown.row.invite # None /\ early
    \/ op = "decline" /\ CardState = "invited"  /\ shown.row.invite # None
    \/ op = "stake"   /\ CardState = "accepted" /\ shown.row.rsvp # None
    \/ op = "cancel"  /\ CardState = "staked"   /\ shown.row.rsvp # None /\ early

(* The SettledCard goes by the check-in of the row. *)
Verdict == IF CardState # "settled" THEN "none"
           ELSE IF shown.row.checkedIn THEN "refunded" ELSE "slashed"

-------------------------------------------------------------------------------
(* POSTs and their answers *)

(* The handler finds rows for the ids that the page has. *)
Starts(op, q) ==
    \/ op = "join"    /\ Join(q, MySlot)
    \/ op = "accept"  /\ Accept(q, MySlot)  /\ shown.row.invite = rows[MySlot].invite
    \/ op = "decline" /\ Decline(q, MySlot) /\ shown.row.invite = rows[MySlot].invite
    \/ op = "stake"   /\ Stake(q, MySlot)   /\ shown.row.rsvp = rows[MySlot].rsvp
    \/ op = "cancel"  /\ Cancel(q, MySlot)  /\ shown.row.rsvp = rows[MySlot].rsvp
    \/ op = "invite"  /\ Invite(q, MySlot)
    \/ op \in {"list", "scan"} /\ Checkin(q, MySlot)

(* Who is in the row already is told so, and nothing is submitted. *)
DoneBefore(op) ==
    /\ rows[MySlot] # NoRow
    /\ \/ op = "join"
       \/ op \in {"list", "scan"} /\ rows[MySlot].checkedIn

(* A POST starts a request, or is answered by the handler's first reads, or  *)
(* never gets there.  (Close is Settlement's: here it may end at any time.)  *)
Post(op) ==
    \/ \E q \in Requests : /\ Starts(op, q)
                           /\ posts' = posts \cup {[op |-> op, q |-> q, answer |-> "none"]}
    \/ \E a \in {"error"} \cup (IF DoneBefore(op) THEN {"ok"} ELSE {})
                          \cup (IF op = "close" THEN {"none"} ELSE {}) :
          /\ posts' = posts \cup {[op |-> op, q |-> None, answer |-> a]}
          /\ UNCHANGED sfvars

(* Request q is at its end: whoever waits for it gets this answer. *)
Note(q, answer) ==
    posts' = {IF p.q = q /\ p.answer = "none" /\ request'[q] = Idle
              THEN [p EXCEPT !.answer = answer] ELSE p : p \in posts}

Serve ==
    /\ \E q \in Requests : \/ Handle(q) /\ Note(q, "ok")
                           \/ Fails(q) /\ Note(q, "error")
    /\ UNCHANGED <<viewer, shown, early, busy, cardVars, panelVars>>

-------------------------------------------------------------------------------
(* RsvpCard *)

(* Mutant: the button is not disabled and no stepper takes its place. *)
Press_NotDisabled(op) ==
    /\ viewer = "attendee"
    /\ ~stepping
    /\ Offers(op)
    /\ Post(op)
    /\ busy' = busy \cup {"card"}
    /\ stepping' = FALSE
    /\ UNCHANGED <<viewer, shown, early, timers, panelVars>>

Press(op) ==
    /\ viewer = "attendee"
    /\ "card" \notin busy
    /\ ~stepping
    /\ Offers(op)
    /\ Post(op)
    /\ busy' = busy \cup {"card"}
    /\ stepping' = (op \in StakeOps)
    /\ UNCHANGED <<viewer, shown, early, timers, panelVars>>

(* Mutant: the stepper goes at once and its timer stays. *)
CardAnswered_HidesStepper(p) ==
    /\ p.op \in CardOps
    /\ p.answer # "none"
    /\ posts' = posts \ {p}
    /\ busy' = busy \ {"card"}
    /\ timers' = timers + (IF p.op \in StakeOps THEN 1 ELSE 0)
    /\ stepping' = FALSE
    /\ UNCHANGED <<sfvars, viewer, shown, early, panelVars>>

(* The outcome stays in the stepper for a second. *)
CardAnswered(p) ==
    /\ p.op \in CardOps
    /\ p.answer # "none"
    /\ posts' = posts \ {p}
    /\ busy' = busy \ {"card"}
    /\ timers' = timers + (IF p.op \in StakeOps THEN 1 ELSE 0)
    /\ UNCHANGED <<sfvars, viewer, shown, early, stepping, panelVars>>

HideStepper ==
    /\ timers > 0
    /\ timers' = timers - 1
    /\ stepping' = FALSE
    /\ UNCHANGED <<sfvars, viewer, shown, early, posts, busy, panelVars>>

-------------------------------------------------------------------------------
(* OrganizerPanel *)

PanelOpen == viewer # "attendee" /\ shown # NoRow

Disabled == shown.event # "open"

Control(c) ==
    /\ PanelOpen
    /\ c \notin busy
    /\ Post(c)
    /\ busy' = busy \cup {c}

(* InvitePanel *)
InviteAgain ==
    /\ viewer = "desk"
    /\ Control("invite")
    /\ ~Disabled
    /\ UNCHANGED <<viewer, shown, early, cardVars, panelVars>>

(* CheckinList: the row is latched before the POST is answered. *)
Latched == ticked \/ (PanelOpen /\ shown.row # NoRow /\ shown.row.checkedIn)

CheckInFromList ==
    /\ viewer = "door"
    /\ Control("list")
    /\ ~Disabled
    /\ shown.row # NoRow
    /\ shown.row.status \in {"staked", "settled"}
    /\ ~Latched
    /\ ticked' = TRUE
    /\ UNCHANGED <<viewer, shown, early, cardVars, scan, results>>

(* ScanCheckin: what it has seen is forgotten when the dialog is opened, and *)
(* the dialog may stay open while the event ends.                            *)
OpenScan ==
    /\ viewer = "door"
    /\ PanelOpen
    /\ ~Disabled
    /\ scan = "closed"
    /\ scan' = "open"
    /\ UNCHANGED <<sfvars, viewer, shown, early, posts, busy, cardVars, ticked, results>>

CloseScan ==
    /\ scan # "closed"
    /\ scan' = "closed"
    /\ UNCHANGED <<sfvars, viewer, shown, early, posts, busy, cardVars, ticked, results>>

CheckInFromScan ==
    /\ scan = "open"
    /\ Control("scan")
    /\ scan' = "seen"
    /\ UNCHANGED <<viewer, shown, early, cardVars, ticked, results>>

(* SettleButton, which the results replace.  (A confirmation that is open    *)
(* when the event is settled stays until the settlement has been fetched.)   *)
Results == results \/ (PanelOpen /\ shown.event = "settled")

CloseEventAndSettle ==
    /\ viewer = "desk"
    /\ Control("close")
    /\ ~results
    /\ UNCHANGED <<viewer, shown, early, cardVars, panelVars>>

(* The runner returns a package after MarkSettled, or an error. *)
CloseReturns(p) ==
    /\ p.op = "close"
    /\ p.answer = "none"
    /\ \E answer \in {"error"} \cup (IF event[here] = "settled" THEN {"ok"} ELSE {}) :
          posts' = (posts \ {p}) \cup {[p EXCEPT !.answer = answer]}
    /\ UNCHANGED <<sfvars, viewer, shown, early, busy, cardVars, panelVars>>

(* Mutant: the latch is not rolled back. *)
PanelAnswered_KeepsLatch(p) ==
    /\ p.op \in PanelOps
    /\ p.answer # "none"
    /\ posts' = posts \ {p}
    /\ busy' = busy \ {p.op}
    /\ scan' = IF p.op = "scan" /\ p.answer = "error" /\ scan = "seen" THEN "open" ELSE scan
    /\ results' = (results \/ (p.op = "close" /\ p.answer = "ok"))
    /\ UNCHANGED <<sfvars, viewer, shown, early, cardVars, ticked>>

(* (The stepper of the SettleButton stays for a second before the results.)  *)
PanelAnswered(p) ==
    /\ p.op \in PanelOps
    /\ p.answer # "none"
    /\ posts' = posts \ {p}
    /\ busy' = busy \ {p.op}
    /\ scan' = IF p.op = "scan" /\ p.answer = "error" /\ scan = "seen" THEN "open" ELSE scan
    /\ ticked' = (ticked /\ ~(p.op = "list" /\ p.answer = "error"))
    /\ results' = (results \/ (p.op = "close" /\ p.answer = "ok"))
    /\ UNCHANGED <<sfvars, viewer, shown, early, cardVars>>

-------------------------------------------------------------------------------
(* Everybody else: around the attendee, the wallet, the organizer, whose     *)
(* handlers end in one submission, and the clock; around the organizer,      *)
(* whatever the ledger allows.  (A bound: there the clock stands still.)     *)
Around ==
    \/ Elsewhere
    \/ /\ \E r \in Rsvps : InviteAttendee(here, r) \/ CheckIn(r, here)
       /\ Publish
       /\ UNCHANGED <<rowVars, sweep, request, blind>>

Others ==
    /\ \/ viewer = "attendee" /\ Around
       \/ viewer # "attendee" /\ Ledger /\ now' = now /\ UNCHANGED <<request, blind>>
       \/ Indexer
       \/ Watcher
    /\ UNCHANGED <<viewer, shown, early, posts, busy, cardVars, panelVars>>

EventPageInit ==
    /\ StakeFlowInit
    /\ viewer \in {"attendee", "door", "desk"}
    /\ shown = NoRow
    /\ early = TRUE
    /\ posts = {}
    /\ busy = {}
    /\ stepping = FALSE
    /\ timers = 0
    /\ ticked = FALSE
    /\ scan = "closed"
    /\ results = FALSE
    /\ came = FALSE

PageNext ==
    \/ Poll
    \/ \E op \in CardOps : Press(op)
    \/ \E p \in posts : CardAnswered(p) \/ CloseReturns(p) \/ PanelAnswered(p)
    \/ HideStepper
    \/ InviteAgain \/ CheckInFromList \/ OpenScan \/ CloseScan \/ CheckInFromScan
    \/ CloseEventAndSettle
    \/ Serve

EventPageNext ==
    /\ PageNext \/ Others
    /\ came' = (came \/ \E r \in checkedIn' : SlotOf(r) = MySlot)

EventPageSpec == EventPageInit /\ [][EventPageNext]_epVars

-------------------------------------------------------------------------------
(* Properties *)

(* Types; a control is disabled exactly while the page waits for its POST.   *)
EventPageTypeOK ==
    /\ StakeFlowTypeOK
    /\ shown \in [event : {"open", "ended", "settled"}, row : Card \cup {NoRow}] \cup {NoRow}
    /\ busy = {IF p.op \in CardOps THEN "card" ELSE p.op : p \in posts}
    /\ \A p \in posts : p.q # None /\ p.answer = "none" => request[p.q] # Idle
    /\ timers \in Nat
    /\ ticked \in BOOLEAN /\ results \in BOOLEAN /\ scan \in {"closed", "open", "seen"}

(* One tab that is not left cannot lock two stakes: of the reserve and the   *)
(* retry button only one is there, and not while either's request runs,      *)
(* whatever became of those before it and however far the rows are behind;   *)
(* unless a lookup for a lost allocation failed (blind), after which the     *)
(* retry allocates without knowing, as the comment in handleStake says.      *)
TabStakesOnce ==
    viewer = "attendee" /\ MySlot \notin blind => Cardinality(LockedFor(MySlot)) <= 1

(* The stepper is shown as long as the stake is being locked: the timer of   *)
(* an earlier outcome does not hide it.                                      *)
StepperShown == (\E p \in posts : p.op \in StakeOps) => stepping

(* Nobody is told that the stake came back when it was slashed.  The         *)
(* SettledCard, which tells it from the check-in of the row, agrees with     *)
(* what the settlement did, unless a reconnect took the row back to an RSVP  *)
(* that had no stake yet: then it may tell who was refunded that the stake   *)
(* was slashed, until the updates are handled once more.                     *)
VerdictTrue ==
    /\ Verdict = "refunded" => Settled(MySlot, "refunded")
    /\ Verdict = "slashed" =>
          \/ Settled(MySlot, "slashed")
          \/ Settled(MySlot, "refunded") /\ shown.row.rsvp \in Rsvps \X {0}

(* The rows and the page have caught up, and no POST is under way. *)
Fresh == /\ queue = <<>>
         /\ posts = {}
         /\ shown = Detail
         /\ shown # NoRow
         /\ early = BeforeRsvpDeadline(here)
         /\ MySlot \notin crowded

MyRsvp(S) == \E r \in S : SlotOf(r) = MySlot

(* Then the card has the buttons of what can be done, and no others: who is  *)
(* invited may decline, who has no stake may retry, who has one may cancel   *)
(* until the deadline unless checked in, and who has nothing may register.   *)
(* (It also offers to accept the invite of an event that was ended early.)   *)
OffersTrue ==
    Fresh =>
    /\ Offers("join") => /\ EventOpen(here)
                         /\ BeforeRsvpDeadline(here)
                         /\ ~MyRsvp({r \in Rsvps : stage[r] # "none"})
    /\ Offers("decline") <=> MyRsvp({r \in Rsvps : stage[r] = "invited"})
    /\ Offers("stake") <=>
          MyRsvp({r \in Rsvps \ withdrawn : stage[r] = "live" /\ allocOf[r] = NoAlloc})
    /\ Offers("cancel") <=>
          /\ BeforeRsvpDeadline(here)
          /\ MyRsvp({r \in Rsvps \ (withdrawn \cup checkedIn) :
                       stage[r] = "live" /\ allocOf[r] # NoAlloc})

(* Whom the list shows as checked in, once its POST is answered, was checked *)
(* in at some time, for a latch is rolled back when the POST fails (a latch  *)
(* stays when the check-in is lost to MarkWithdrawn); and results are shown  *)
(* of no event but a settled one.                                            *)
PanelTrue ==
    /\ Latched /\ (\A p \in posts : p.op # "list") => came
    /\ Results => event[here] = "settled"
=============================================================================
