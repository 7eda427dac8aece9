------------------------------ MODULE PageProofs ------------------------------
(***************************************************************************)
(* The page of an event, for any event and attendee: what it does to the   *)
(* contracts, what it shows while a stake is being locked and when it is   *)
(* settled, and which buttons it offers.  The page holds what a poll       *)
(* returned once, so each claim about it is one about the rows that stays  *)
(* true when they go on.                                                   *)
(***************************************************************************)
EXTENDS EventPage, FeedProofs

(* A POST starts a request or nothing. *)
LEMMA PostStep ==
    ASSUME TypeOK, NEW op, Post(op)
    PROVE  [ReadModelNext]_rmVars
<1>1. ASSUME NEW q \in Requests, Starts(op, q)
      PROVE  Begin(q)
  BY <1>1, EventPageConstants DEF Starts, Begin
<1>2. ASSUME NEW q \in Requests, Starts(op, q)
      PROVE  [ReadModelNext]_rmVars
  BY <1>1, <1>2, HandlerStep
<1>3. CASE UNCHANGED sfvars
  BY <1>3 DEF sfvars
<1> QED
  BY <1>2, <1>3 DEF Post

(* What others do meanwhile. *)
LEMMA OthersStep ==
    ASSUME TypeOK, Others
    PROVE  [ReadModelNext]_rmVars
<1>1. CASE Around
  <2>1. CASE Elsewhere
    BY <2>1, ElsewhereStep
  <2>2. ASSUME NEW r \in Rsvps, InviteAttendee(here, r) \/ CheckIn(r, here),
               Publish, UNCHANGED <<rowVars, sweep>>
        PROVE  Ledger
    <3>1. here \in Events
      BY <2>2, EscrowConstants DEF InviteAttendee, CheckIn
    <3>2. Next /\ allocOf' = allocOf
      BY <2>2, <3>1 DEF InviteAttendee, CheckIn, Next, EventNext, RsvpNext
    <3> QED
      BY <2>2, <3>2, LedgerChoice
  <2> QED
    BY <1>1, <2>1, <2>2 DEF Around, ReadModelNext
<1>2. CASE Ledger
  BY <1>2 DEF ReadModelNext
<1>3. CASE Indexer \/ Watcher
  BY <1>3, StakeFlowStep DEF StakeFlowNext
<1> QED
  BY <1>1, <1>2, <1>3 DEF Others

LEMMA PageStep ==
    TypeOK /\ [EventPageNext]_epVars => TypeOK' /\ [ReadModelNext]_rmVars
<1> SUFFICES ASSUME TypeOK, [EventPageNext]_epVars PROVE [ReadModelNext]_rmVars
  BY ReadModelStep, TypeStep
<1>1. ASSUME NEW op \in CardOps, Press(op)
      PROVE  [ReadModelNext]_rmVars
  BY <1>1, PostStep DEF Press
<1>2. ASSUME NEW op, Control(op)
      PROVE  [ReadModelNext]_rmVars
  BY <1>2, PostStep DEF Control
<1>3. CASE InviteAgain \/ CheckInFromList \/ CheckInFromScan \/ CloseEventAndSettle
  BY <1>2, <1>3 DEF InviteAgain, CheckInFromList, CheckInFromScan, CloseEventAndSettle
<1>4. CASE Serve
  BY <1>4, HandlerStep DEF Serve
<1>5. ASSUME NEW p \in posts, CardAnswered(p) \/ CloseReturns(p) \/ PanelAnswered(p)
      PROVE  UNCHANGED rmVars
  BY <1>5 DEF CardAnswered, CloseReturns, PanelAnswered, sfvars
<1>6. CASE Poll \/ HideStepper \/ OpenScan \/ CloseScan
  BY <1>6 DEF Poll, HideStepper, OpenScan, CloseScan, sfvars
<1>7. CASE UNCHANGED epVars
  BY <1>7 DEF epVars, sfvars
<1> QED
  BY <1>1, <1>3, <1>4, <1>5, <1>6, <1>7, OthersStep DEF EventPageNext, PageNext

(* Whatever is pressed on the page, twice or too late, and whatever the      *)
(* organizer does around it: the promise to the owner of a stake is kept.    *)
THEOREM PromiseOnPage == EventPageSpec => PromiseKept
<1>1. EventPageInit => ReadModelInit /\ TypeOK
  BY TypeInit DEF EventPageInit, StakeFlowInit, ReadModelInit
<1>2. EventPageSpec => ReadModelSpec
  BY <1>1, PageStep, PTL DEF EventPageSpec, ReadModelSpec
<1> QED
  BY <1>2, ReadModelRefinesEscrow, PromiseHolds

-------------------------------------------------------------------------------
(* The stepper *)

PostRecord == [op : CardOps \cup PanelOps, q : Requests \cup {None},
               answer : {"none", "ok", "error"}]

CardPosts == {p \in posts : p.op \in CardOps}

(* What makes StepperShown inductive: the card has one POST at most, and     *)
(* while it runs no timer of an earlier outcome does.                        *)
Stepper ==
    /\ posts \subseteq PostRecord
    /\ \A p \in CardPosts : "card" \in busy /\ timers = 0
    /\ \A p, r \in CardPosts : p = r
    /\ timers \in {0, 1}
    /\ timers = 1 => stepping
    /\ StepperShown

LEMMA AddPost ==
    ASSUME Stepper, NEW op \in CardOps \cup PanelOps, Post(op)
    PROVE  \E p \in PostRecord : p.op = op /\ posts' = posts \cup {p}
<1>1. ASSUME NEW q \in Requests,
             posts' = posts \cup {[op |-> op, q |-> q, answer |-> "none"]}
      PROVE  \E p \in PostRecord : p.op = op /\ posts' = posts \cup {p}
  BY <1>1 DEF PostRecord
<1>2. ASSUME NEW a \in {"none", "ok", "error"},
             posts' = posts \cup {[op |-> op, q |-> None, answer |-> a]}
      PROVE  \E p \in PostRecord : p.op = op /\ posts' = posts \cup {p}
  BY <1>2 DEF PostRecord
<1> QED
  BY <1>1, <1>2 DEF Post

(* An answer is noted on a POST, which stays the POST of its control. *)
LEMMA NoteKeeps ==
    ASSUME Stepper, UNCHANGED <<busy, timers, stepping>>,
           NEW f, DOMAIN f = posts, posts' = {f[p] : p \in posts},
           \A p \in posts : f[p] \in PostRecord /\ f[p].op = p.op
    PROVE  Stepper'
<1>1. posts' \subseteq PostRecord
  OBVIOUS
<1>2. \A x \in CardPosts' : \E p \in CardPosts : x = f[p]
  BY DEF CardPosts
<1>3. \A x, y \in CardPosts' : x = y
  BY <1>2 DEF Stepper
<1>4. \A x \in posts' : \E p \in posts : x.op = p.op
  OBVIOUS
<1> QED
  BY <1>1, <1>2, <1>3, <1>4 DEF Stepper, StepperShown

LEMMA StepperStep == Stepper /\ [EventPageNext]_epVars => Stepper'
<1> SUFFICES ASSUME Stepper, [EventPageNext]_epVars PROVE Stepper'
  OBVIOUS
<1>1. CASE UNCHANGED <<posts, busy, timers, stepping>>
  BY <1>1 DEF Stepper, StepperShown, CardPosts
<1>2. ASSUME NEW op \in CardOps, Press(op)
      PROVE  Stepper'
  <2>1. /\ "card" \notin busy /\ ~stepping
        /\ busy' = busy \cup {"card"} /\ timers' = timers
        /\ stepping' = (op \in StakeOps)
    BY <1>2 DEF Press
  <2>2. PICK p \in PostRecord : p.op = op /\ posts' = posts \cup {p}
    BY <1>2, AddPost DEF Press
  <2>3. CardPosts = {} /\ timers = 0
    BY <2>1 DEF Stepper
  <2>4. CardPosts' = {p}
    BY <2>2, <2>3 DEF CardPosts
  <2>5. posts' \subseteq PostRecord
    BY <2>2 DEF Stepper
  <2>6. StepperShown'
    BY <2>1, <2>2, <2>3 DEF StepperShown, CardPosts, StakeOps, CardOps
  <2> QED
    BY <2>1, <2>3, <2>4, <2>5, <2>6 DEF Stepper
<1>3. ASSUME NEW op \in PanelOps, Control(op), UNCHANGED cardVars
      PROVE  Stepper'
  <2>1. busy \subseteq busy' /\ UNCHANGED <<timers, stepping>>
    BY <1>3 DEF Control, cardVars
  <2>2. PICK p \in PostRecord : p.op = op /\ posts' = posts \cup {p}
    BY <1>3, AddPost DEF Control
  <2>3. CardPosts' = CardPosts
    BY <2>2 DEF CardPosts, CardOps, PanelOps
  <2> QED
    BY <2>1, <2>2, <2>3 DEF Stepper, StepperShown, StakeOps, PanelOps
<1>4. ASSUME NEW p \in posts, CardAnswered(p)
      PROVE  Stepper'
  <2>1. /\ p.op \in CardOps /\ posts' = posts \ {p} /\ stepping' = stepping
        /\ timers' = timers + (IF p.op \in StakeOps THEN 1 ELSE 0)
    BY <1>4 DEF CardAnswered, panelVars
  <2>2. CardPosts = {p} /\ timers = 0
    BY <2>1 DEF Stepper, CardPosts
  <2>3. CardPosts' = {}
    BY <2>1, <2>2 DEF CardPosts
  <2>4. timers' \in {0, 1} /\ (timers' = 1 => p.op \in StakeOps)
    BY <2>1, <2>2
  <2>5. timers' = 1 => stepping'
    BY <2>1, <2>4 DEF Stepper, StepperShown
  <2>6. StepperShown'
    BY <2>3 DEF StepperShown, CardPosts, StakeOps, CardOps
  <2> QED
    BY <2>1, <2>3, <2>4, <2>5, <2>6 DEF Stepper
<1>5. CASE HideStepper
  <2>1. posts' = posts /\ busy' = busy /\ timers' = 0 /\ timers = 1
    BY <1>5 DEF HideStepper, Stepper
  <2>2. CardPosts = {}
    BY <2>1 DEF Stepper
  <2> QED
    BY <2>1, <2>2 DEF Stepper, StepperShown, CardPosts, StakeOps, CardOps
<1>6. ASSUME NEW p \in posts, CloseReturns(p)
      PROVE  Stepper'
  <2>1. PICK a \in {"error", "ok"} : posts' = (posts \ {p}) \cup {[p EXCEPT !.answer = a]}
    BY <1>6 DEF CloseReturns
  <2> DEFINE f == [r \in posts |-> IF r = p THEN [p EXCEPT !.answer = a] ELSE r]
  <2>2. \A r \in posts : f[r] \in PostRecord /\ f[r].op = r.op
    BY DEF Stepper, PostRecord
  <2>3. posts' = {f[r] : r \in posts}
    BY <2>1
  <2>4. UNCHANGED <<busy, timers, stepping>>
    BY <1>6 DEF CloseReturns, cardVars
  <2> HIDE DEF f
  <2>5. DOMAIN f = posts
    BY DEF f
  <2> QED
    BY <2>2, <2>3, <2>4, <2>5, NoteKeeps
<1>7. ASSUME NEW p \in posts, PanelAnswered(p)
      PROVE  Stepper'
  <2>1. /\ p.op \in PanelOps /\ posts' = posts \ {p} /\ busy' = busy \ {p.op}
        /\ UNCHANGED <<timers, stepping>>
    BY <1>7 DEF PanelAnswered, cardVars
  <2>2. CardPosts' = CardPosts
    BY <2>1 DEF CardPosts, CardOps, PanelOps
  <2> QED
    BY <2>1, <2>2 DEF Stepper, StepperShown, PanelOps
<1>8. CASE Serve
  <2>1. UNCHANGED <<busy, timers, stepping>>
    BY <1>8 DEF Serve, cardVars
  <2>2. PICK q \in Requests, answer \in {"ok", "error"} : Note(q, answer)
    BY <1>8 DEF Serve
  <2> DEFINE f == [p \in posts |-> IF p.q = q /\ p.answer = "none" /\ request'[q] = Idle
                                   THEN [p EXCEPT !.answer = answer] ELSE p]
  <2>3. \A p \in posts : f[p] \in PostRecord /\ f[p].op = p.op
    BY DEF Stepper, PostRecord
  <2>4. posts' = {f[p] : p \in posts}
    BY <2>2 DEF Note
  <2> HIDE DEF f
  <2>5. DOMAIN f = posts
    BY DEF f
  <2> QED
    BY <2>1, <2>3, <2>4, <2>5, NoteKeeps
<1>9. CASE InviteAgain \/ CheckInFromList \/ CheckInFromScan \/ CloseEventAndSettle
  BY <1>3, <1>9 DEF InviteAgain, CheckInFromList, CheckInFromScan, CloseEventAndSettle, PanelOps
<1>10. CASE Poll \/ OpenScan \/ CloseScan \/ Others \/ UNCHANGED epVars
  BY <1>1, <1>10 DEF Poll, OpenScan, CloseScan, Others, epVars, cardVars
<1> QED
  BY <1>2, <1>4, <1>5, <1>6, <1>7, <1>8, <1>9, <1>10 DEF EventPageNext, PageNext

(* The stepper stays as long as the stake is being locked, however often the *)
(* attendee presses, fails and tries again.                                  *)
THEOREM StepperStays == EventPageSpec => []StepperShown
<1>1. EventPageInit => Stepper
  BY DEF EventPageInit, Stepper, StepperShown, CardPosts
<1>2. Stepper => StepperShown
  BY DEF Stepper
<1> QED
  BY <1>1, <1>2, StepperStep, PTL DEF EventPageSpec

-------------------------------------------------------------------------------
(* The steps of the page, as far as they change requests and controls *)

(* What a POST adds: a request that starts, or an answer. *)
PostIs(op, p) ==
    /\ p \in PostRecord /\ p.op = op
    /\ posts' = posts \cup {p}
    /\ \/ p.q \in Requests /\ p.answer = "none" /\ Starts(op, p.q)
       \/ /\ p.q = None /\ UNCHANGED sfvars
          /\ p.answer = "ok" => DoneBefore(op)
          /\ p.answer = "none" => op = "close"

LEMMA PostAdds ==
    ASSUME NEW op \in CardOps \cup PanelOps, Post(op)
    PROVE  \E p : PostIs(op, p)
<1>1. ASSUME NEW q \in Requests, Starts(op, q),
             posts' = posts \cup {[op |-> op, q |-> q, answer |-> "none"]}
      PROVE  \E p : PostIs(op, p)
  <2> DEFINE p == [op |-> op, q |-> q, answer |-> "none"]
  <2>1. p \in PostRecord /\ p.op = op /\ p.q = q /\ p.answer = "none"
    BY DEF PostRecord
  <2> HIDE DEF p
  <2>2. posts' = posts \cup {p}
    BY <1>1 DEF p
  <2> QED
    BY <1>1, <2>1, <2>2 DEF PostIs
<1>2. ASSUME NEW a \in {"error"} \cup (IF DoneBefore(op) THEN {"ok"} ELSE {})
                                 \cup (IF op = "close" THEN {"none"} ELSE {}),
             posts' = posts \cup {[op |-> op, q |-> None, answer |-> a]},
             UNCHANGED sfvars
      PROVE  \E p : PostIs(op, p)
  <2> DEFINE p == [op |-> op, q |-> None, answer |-> a]
  <2>1. p \in PostRecord /\ p.op = op /\ p.q = None /\ p.answer = a
    BY DEF PostRecord
  <2>2. a = "ok" => DoneBefore(op)
    BY <1>2
  <2>3. a = "none" => op = "close"
    BY <1>2
  <2> HIDE DEF p
  <2>4. posts' = posts \cup {p}
    BY <1>2 DEF p
  <2> QED
    BY <1>2, <2>1, <2>2, <2>3, <2>4 DEF PostIs
<1> QED
  BY <1>1, <1>2 DEF Post

Ctl(p) == IF p.op \in CardOps THEN "card" ELSE p.op

(* Each control has one POST at most, and is disabled while it has. *)
Controls ==
    /\ busy = {Ctl(p) : p \in posts}
    /\ \A p, r \in posts : Ctl(p) = Ctl(r) => p = r

LEMMA ControlsAdd ==
    ASSUME Controls, NEW p, Ctl(p) \notin busy, posts' = posts \cup {p},
           busy' = busy \cup {Ctl(p)}
    PROVE  Controls'
  BY DEF Controls, Ctl

LEMMA ControlsDrop ==
    ASSUME Controls, NEW p \in posts, posts' = posts \ {p}, busy' = busy \ {Ctl(p)}
    PROVE  Controls'
<1>1. \A r \in posts : r # p => Ctl(r) # Ctl(p)
  BY DEF Controls
<1>2. busy' = {Ctl(r) : r \in posts'}
  BY <1>1 DEF Controls
<1> QED
  BY <1>2 DEF Controls, Ctl

LEMMA ControlsNote ==
    ASSUME Controls, busy' = busy, NEW f, DOMAIN f = posts, posts' = {f[p] : p \in posts},
           \A p \in posts : f[p].op = p.op
    PROVE  Controls'
<1>1. \A p \in posts : Ctl(f[p]) = Ctl(p)
  BY DEF Ctl
<1>2. busy' = {Ctl(r) : r \in posts'}
  BY <1>1 DEF Controls
<1>3. ASSUME NEW x \in posts', NEW y \in posts', Ctl(x) = Ctl(y) PROVE x = y
  <2>1. PICK p \in posts, r \in posts : x = f[p] /\ y = f[r]
    OBVIOUS
  <2>2. p = r
    BY <1>1, <1>3, <2>1 DEF Controls
  <2> QED
    BY <2>1, <2>2
<1> QED
  BY <1>2, <1>3 DEF Controls, Ctl

(* The steps that answer POSTs rewrite the set of them. *)
LEMMA ServeNotes ==
    ASSUME Stepper, Serve
    PROVE  \E q \in Requests, answer \in {"ok", "error"} : \E f :
              /\ DOMAIN f = posts /\ posts' = {f[p] : p \in posts}
              /\ \A p \in posts :
                    /\ f[p] \in PostRecord /\ f[p].op = p.op /\ f[p].q = p.q
                    /\ f[p].answer = IF p.q = q /\ p.answer = "none" /\ request'[q] = Idle
                                     THEN answer ELSE p.answer
              /\ \/ Handle(q) /\ answer = "ok"
                 \/ Fails(q) /\ answer = "error"
<1>1. PICK q \in Requests, answer \in {"ok", "error"} :
            /\ Note(q, answer)
            /\ \/ Handle(q) /\ answer = "ok"
               \/ Fails(q) /\ answer = "error"
  BY DEF Serve
<1> DEFINE f == [p \in posts |-> IF p.q = q /\ p.answer = "none" /\ request'[q] = Idle
                                 THEN [p EXCEPT !.answer = answer] ELSE p]
<1>2. \A p \in posts :
         /\ f[p] \in PostRecord /\ f[p].op = p.op /\ f[p].q = p.q
         /\ f[p].answer = IF p.q = q /\ p.answer = "none" /\ request'[q] = Idle
                          THEN answer ELSE p.answer
  BY DEF Stepper, PostRecord
<1>3. posts' = {f[p] : p \in posts} /\ DOMAIN f = posts
  BY <1>1 DEF Note
<1> HIDE DEF f
<1> QED
  BY <1>1, <1>2, <1>3

LEMMA CloseNotes ==
    ASSUME Stepper, NEW p \in posts, CloseReturns(p)
    PROVE  \E answer \in {"ok", "error"} : \E f :
              /\ DOMAIN f = posts /\ posts' = {f[r] : r \in posts}
              /\ \A r \in posts :
                    /\ f[r] \in PostRecord /\ f[r].op = r.op /\ f[r].q = r.q
                    /\ f[r].answer = IF r = p THEN answer ELSE r.answer
              /\ answer = "ok" => event[here] = "settled"
<1>1. PICK a \in {"error"} \cup (IF event[here] = "settled" THEN {"ok"} ELSE {}) :
              posts' = (posts \ {p}) \cup {[p EXCEPT !.answer = a]}
  BY DEF CloseReturns
<1> DEFINE f == [r \in posts |-> IF r = p THEN [p EXCEPT !.answer = a] ELSE r]
<1>2. \A r \in posts : /\ f[r] \in PostRecord /\ f[r].op = r.op /\ f[r].q = r.q
                       /\ f[r].answer = IF r = p THEN a ELSE r.answer
  BY DEF Stepper, PostRecord
<1>3. posts' = {f[r] : r \in posts} /\ DOMAIN f = posts
  BY <1>1
<1>4. a \in {"ok", "error"} /\ (a = "ok" => event[here] = "settled")
  OBVIOUS
<1> HIDE DEF f
<1> QED
  BY <1>2, <1>3, <1>4

LEMMA ControlsStep ==
    ASSUME Stepper, Controls, [EventPageNext]_epVars
    PROVE  Controls'
<1>1. CASE UNCHANGED <<posts, busy>>
  BY <1>1 DEF Controls, Ctl
<1>2. ASSUME NEW op \in CardOps, Press(op) PROVE Controls'
  <2>1. PICK p : PostIs(op, p)
    BY <1>2, PostAdds DEF Press
  <2>2. Ctl(p) = "card"
    BY <2>1 DEF PostIs, Ctl
  <2> QED
    BY <1>2, <2>1, <2>2, ControlsAdd DEF Press, PostIs
<1>3. ASSUME NEW op \in PanelOps, Control(op) PROVE Controls'
  <2>1. PICK p : PostIs(op, p)
    BY <1>3, PostAdds DEF Control
  <2>2. Ctl(p) = op
    BY <2>1 DEF PostIs, Ctl, CardOps, PanelOps
  <2> QED
    BY <1>3, <2>1, <2>2, ControlsAdd DEF Control, PostIs
<1>4. ASSUME NEW p \in posts, CardAnswered(p) \/ PanelAnswered(p) PROVE Controls'
  <2>1. posts' = posts \ {p} /\ busy' = busy \ {Ctl(p)}
    BY <1>4 DEF CardAnswered, PanelAnswered, Ctl, CardOps, PanelOps
  <2> QED
    BY <2>1, ControlsDrop
<1>5. ASSUME NEW p \in posts, CloseReturns(p) PROVE Controls'
  <2>1. busy' = busy
    BY <1>5 DEF CloseReturns
  <2> QED
    BY <1>5, <2>1, CloseNotes, ControlsNote
<1>6. CASE Serve
  <2>1. busy' = busy
    BY <1>6 DEF Serve
  <2> QED
    BY <1>6, <2>1, ServeNotes, ControlsNote
<1>7. CASE InviteAgain \/ CheckInFromList \/ CheckInFromScan \/ CloseEventAndSettle
  BY <1>3, <1>7 DEF InviteAgain, CheckInFromList, CheckInFromScan, CloseEventAndSettle, PanelOps
<1>8. CASE Poll \/ HideStepper \/ OpenScan \/ CloseScan \/ Others \/ UNCHANGED epVars
  BY <1>1, <1>8 DEF Poll, HideStepper, OpenScan, CloseScan, Others, epVars
<1> QED
  BY <1>2, <1>4, <1>5, <1>6, <1>7, <1>8 DEF EventPageNext, PageNext
-------------------------------------------------------------------------------
(* Who came *)

(* The updates under way, and what a step of the rows does with them. *)
Delivered == {queue[k] : k \in 1..Len(queue)} \cup {resend[k] : k \in 1..Len(resend)}

LEMMA Deliveries ==
    ASSUME RowsOK, [ReadModelNext]_rmVars
    PROVE  /\ \A u \in Delivered' : u \in Delivered \/ u = Transaction
           /\ \/ rows' = rows
              \/ \E u \in Delivered : rows' = [s \in Slots |-> HandleRsvp(rows[s], s, u)]
<1>1. /\ queue \in Seq(Update) /\ resend \in Seq(Update)
      /\ Len(queue) \in Nat /\ Len(resend) \in Nat
  BY DEF RowsOK, FeedTyped
<1>2. CASE UNCHANGED <<queue, resend, rows>>
  BY <1>2 DEF Delivered
<1>3. ASSUME Publish, UNCHANGED rowVars
      PROVE  (\A u \in Delivered' : u \in Delivered \/ u = Transaction) /\ rows' = rows
  <2>1. CASE UNCHANGED feedVars
    BY <1>3, <2>1 DEF Delivered, feedVars, rowVars
  <2>2. CASE queue' = Append(queue, Transaction) /\ resend' = Append(resend, Transaction)
    <3>1. PICK t : t = Transaction
      OBVIOUS
    <3>2. \A k \in 1..Len(queue') : queue'[k] = t \/ (k \in 1..Len(queue) /\ queue'[k] = queue[k])
      BY <1>1, <2>2, <3>1
    <3>3. \A k \in 1..Len(resend') : resend'[k] = t \/ (k \in 1..Len(resend) /\ resend'[k] = resend[k])
      BY <1>1, <2>2, <3>1
    <3>4. rows' = rows
      BY <1>3 DEF rowVars
    <3> QED
      BY <3>1, <3>2, <3>3, <3>4 DEF Delivered
  <2> QED
    BY <1>3, <2>1, <2>2 DEF Publish
<1>4. CASE Project
  <2>1. queue # <<>> /\ rows' = [s \in Slots |-> HandleRsvp(rows[s], s, Head(queue))]
    BY <1>4 DEF Project, Apply
  <2>2. Head(queue) = queue[1] /\ 1 \in 1..Len(queue)
    BY <1>1, <2>1
  <2>3. queue' = Tail(queue) /\ ((resend' = Tail(resend) /\ resend # <<>>) \/ resend' = Tail(queue))
    BY <1>4, <1>1 DEF Project, RowsOK, FeedTyped
  <2>4. \A k \in 1..Len(queue') : k + 1 \in 1..Len(queue) /\ queue'[k] = queue[k + 1]
    BY <1>1, <2>1, <2>3
  <2>5. CASE resend' = Tail(queue)
    BY <2>1, <2>2, <2>3, <2>4, <2>5 DEF Delivered
  <2>6. CASE resend' = Tail(resend) /\ resend # <<>>
    <3>1. \A k \in 1..Len(resend') : k + 1 \in 1..Len(resend) /\ resend'[k] = resend[k + 1]
      BY <1>1, <2>6
    <3>2. \A u \in Delivered' : u \in Delivered
      BY <2>4, <3>1 DEF Delivered
    <3>3. Head(queue) \in Delivered
      BY <2>2 DEF Delivered
    <3> QED
      BY <2>1, <3>2, <3>3
  <2> QED
    BY <2>3, <2>5, <2>6
<1>5. CASE Reconnect
  <2>1. queue' = queue \o resend /\ resend' = resend /\ rows' = rows
    BY <1>5 DEF Reconnect, rowVars
  <2>2. \A k \in 1..Len(queue') : \/ k \in 1..Len(queue) /\ queue'[k] = queue[k]
                                  \/ /\ k - Len(queue) \in 1..Len(resend)
                                     /\ queue'[k] = resend[k - Len(queue)]
    BY <1>1, <2>1
  <2> QED
    BY <2>1, <2>2 DEF Delivered
<1>6. CASE Restart
  BY <1>6 DEF Restart, rowVars, Delivered
<1>7. CASE Ledger
  BY <1>3, <1>7 DEF Ledger
<1>8. ASSUME NEW c \in RsvpCids, WatcherMark(c)
      PROVE  (\A u \in Delivered' : u \in Delivered \/ u = Transaction) /\ rows' = rows
  BY <1>3, <1>8 DEF WatcherMark
<1>9. CASE WatcherQuery \/ (\E c \in RsvpCids : WatcherFails(c)) \/ UNCHANGED rmVars
  BY <1>2, <1>9 DEF WatcherQuery, WatcherFails, rmVars, feedVars, rowVars
<1> QED
  BY <1>4, <1>5, <1>6, <1>7, <1>8, <1>9 DEF ReadModelNext

(* An update that shows a check-in of MySlot comes after that. *)
Attests(u) ==
    \A c \in u.created : c.kind = "rsvp" /\ c.slot = MySlot /\ c.checkedIn => came

Arrivals ==
    /\ came \in BOOLEAN
    /\ (\E r \in checkedIn : SlotOf(r) = MySlot) => came
    /\ rows[MySlot] # NoRow /\ rows[MySlot].checkedIn => came
    /\ \A u \in Delivered : Attests(u)

Came == came' = (came \/ \E r \in checkedIn' : SlotOf(r) = MySlot)

LEMMA ArrivalsStep ==
    ASSUME RowsOK, RowsOK', Arrivals, [ReadModelNext]_rmVars, Came
    PROVE  Arrivals' /\ (came => came')
<1>1. came => came'
  BY DEF Came
<1>2. (\E r \in checkedIn' : SlotOf(r) = MySlot) => came'
  BY DEF Came
<1>3. ASSUME NEW u, u = Transaction PROVE Attests(u)'
  <2>1. SUFFICES ASSUME NEW c \in u.created, c.kind = "rsvp", c.slot = MySlot, c.checkedIn
                 PROVE  came'
    BY DEF Attests
  <2>2. c \in Contracts'
    BY <1>3, <2>1 DEF Transaction, Created, Creates
  <2>3. ContractFacts'
    BY ContractsNext DEF RowsOK, LedgerOK
  <2>4. PICK r \in Rsvps : stage'[r] = "live" /\ c = RsvpOf(r)'
    <3>1. PICK r \in Rsvps : c \in Face(r)'
      BY <2>1, <2>2, <2>3 DEF ContractFacts
    <3>2. stage'[r] = "invited" => c.kind = "invite"
      BY <3>1 DEF Face, InviteOf
    <3> QED
      BY <2>1, <3>1, <3>2 DEF Face
  <2>5. c.slot = SlotOf(r) /\ c.checkedIn = (r \in checkedIn')
    BY <2>4 DEF RsvpOf, SlotOf
  <2> QED
    BY <1>2, <2>1, <2>5
<1>4. ASSUME NEW u, Attests(u) PROVE Attests(u)'
  BY <1>1, <1>4 DEF Attests
<1>5. \A u \in Delivered' : Attests(u)'
  BY <1>3, <1>4, Deliveries DEF Arrivals
<1>6. rows'[MySlot] # NoRow /\ rows'[MySlot].checkedIn => came'
  <2>1. CASE rows' = rows
    BY <1>1, <2>1 DEF Arrivals
  <2>2. ASSUME NEW u \in Delivered, rows' = [s \in Slots |-> HandleRsvp(rows[s], s, u)],
               rows'[MySlot] # NoRow, rows'[MySlot].checkedIn
        PROVE  came
    <3>1. PICK row : row = rows[MySlot]
      OBVIOUS
    <3>2. PICK row2 : row2 = HandleRsvp(row, MySlot, u)
      OBVIOUS
    <3>3. rows'[MySlot] = row2
      BY <2>2, <3>1, <3>2, EventPageConstants
    <3>4. u \in Update
      BY <2>2 DEF RowsOK, FeedTyped, Delivered
    <3>5. row \in Row \cup {NoRow}
      BY <3>1, EventPageConstants DEF RowsOK, RowsTyped
    <3>6. NewRow(row2, row, MySlot, u)
      BY <2>2, <3>2, <3>3, <3>4, <3>5, HandledIs, EventPageConstants
    <3>7. CASE CreatedFor(u, "rsvp", MySlot) = {}
      <4>1. Base(row).checkedIn
        BY <2>2, <3>3, <3>6, <3>7 DEF NewRow
      <4> QED
        BY <3>1, <4>1 DEF Arrivals, Base, BlankRow
    <3>8. CASE CreatedFor(u, "rsvp", MySlot) # {}
      <4>1. TheRsvp(u, MySlot).checkedIn
        BY <2>2, <3>3, <3>6, <3>8 DEF NewRow
      <4>2. TheRsvp(u, MySlot) \in CreatedFor(u, "rsvp", MySlot)
        BY <3>4, <3>8, CreatesTyped
      <4> QED
        BY <2>2, <4>1, <4>2 DEF Arrivals, Attests, CreatedFor
    <3> QED
      BY <3>7, <3>8
  <2> QED
    BY <1>1, <2>1, <2>2, Deliveries
<1>7. came' \in BOOLEAN
  BY DEF Came
<1> QED
  BY <1>1, <1>2, <1>5, <1>6, <1>7 DEF Arrivals
-------------------------------------------------------------------------------
(* What the page shows *)

(* What the last poll had was true. *)
Shows ==
    /\ shown \in [event : {"open", "ended", "settled"}, row : Card \cup {NoRow}] \cup {NoRow}
    /\ shown # NoRow =>
          /\ shown.event = "settled" => event[here] = "settled"
          /\ Verdicts(shown.row, MySlot)
          /\ shown.row # NoRow /\ shown.row.checkedIn => came

(* So is the answer of a POST, and a check-in's request is on its way. *)
Told(p) ==
    /\ p.op = "close" => p.q = None
    /\ p.op = "close" /\ p.answer = "ok" => event[here] = "settled"
    /\ p.op = "list" /\ p.answer = "ok" => came
    /\ p.q # None /\ p.answer = "none" => request[p.q] # Idle
    /\ p.op = "list" /\ p.answer = "none" =>
          p.q # None /\ request[p.q].at = "checkin" /\ request[p.q].slot = MySlot

Panel ==
    /\ \A p \in posts : Told(p)
    /\ ticked \in BOOLEAN /\ results \in BOOLEAN /\ scan \in {"closed", "open", "seen"}
    /\ ticked => came \/ \E p \in posts : p.op = "list"
    /\ results => event[here] = "settled"

PageOK == /\ RowsOK /\ RequestsOK /\ Arrivals
          /\ Stepper /\ Controls /\ Shows /\ Panel

LEMMA EventStaysSettled ==
    ASSUME TypeOK, [Next]_vars, event[here] = "settled"
    PROVE  event'[here] = "settled"
<1>1. here \in Events
  BY EventPageConstants DEF here, Slots
<1> QED
  BY <1>1, EventForward

LEMMA VerdictsKept ==
    ASSUME TypeOK, [Next]_vars, NEW row, NEW s, Verdicts(row, s)
    PROVE  Verdicts(row, s)'
<1>1. ASSUME NEW how \in Paid, Settled(s, how) PROVE Settled(s, how)'
  BY <1>1, SettledStays
<1>2. /\ Settled(s, "refunded") => Settled(s, "refunded")'
      /\ Settled(s, "slashed") => Settled(s, "slashed")'
  BY <1>1 DEF Paid
<1> QED
  BY <1>2 DEF Verdicts

LEMMA ShowsKept ==
    ASSUME TypeOK, [Next]_vars, Shows, shown' = shown, came => came'
    PROVE  Shows'
<1>1. PICK d : d = shown
  OBVIOUS
<1>2. d # NoRow => Verdicts(d.row, MySlot)'
  BY <1>1, VerdictsKept DEF Shows
<1>3. shown' # NoRow => Verdicts(shown.row, MySlot)'
  BY <1>1, <1>2 DEF Verdicts
<1> QED
  BY <1>3, EventStaysSettled DEF Shows

LEMMA ShowsPolled ==
    ASSUME RowsOK, Arrivals, Poll, came => came'
    PROVE  Shows'
<1>1. MySlot \in Slots /\ here \in Events
  BY EventPageConstants DEF here, Slots
<1> DEFINE row == rows[MySlot]
<1>2. row \in Row \cup {NoRow} /\ Verdicts(row, MySlot) /\ NoRow \notin Row
  BY <1>1, ReadModelConstants DEF RowsOK, RowsTyped, RowsSay
<1>3. eventRow[here] \in EventRow /\ (eventRow[here].status = "settled" => event[here] = "settled")
  BY <1>1, ReadModelConstants DEF Poll, Detail, RowsOK, RowsTyped, RowsSay, EventRowSays
<1>4. row # NoRow /\ row.checkedIn => came
  BY DEF Arrivals
<1> DEFINE card == CardRow(row)
           d == [event |-> eventRow[here].status, row |-> card]
<1>5. shown' = d /\ event' = event /\ UNCHANGED vars
  BY DEF Poll, Detail, sfvars, rmVars, vars
<1>6. row # NoRow => card = [status |-> row.status, checkedIn |-> row.checkedIn,
                             invite |-> row.invite, rsvp |-> row.rsvp]
  BY DEF CardRow
<1>7. row = NoRow => card = NoRow
  BY DEF CardRow
<1> HIDE DEF row, card
<1>8. card # NoRow => /\ row # NoRow /\ card \in Card
                      /\ card.status = row.status /\ card.rsvp = row.rsvp
                      /\ card.checkedIn = row.checkedIn
  BY <1>2, <1>6, <1>7 DEF Card, Row
<1>9. Verdicts(card, MySlot)
  BY <1>2, <1>8 DEF Verdicts
<1>10. d.row = card /\ d.event = eventRow[here].status
       /\ d \in [event : {"open", "ended", "settled"}, row : Card \cup {NoRow}]
  BY <1>3, <1>8 DEF EventRow
<1> HIDE DEF d
<1>11. Verdicts(shown'.row, MySlot)
  BY <1>5, <1>9, <1>10
<1>12. Verdicts(shown.row, MySlot)'
  BY <1>5, <1>11 DEF Verdicts, Settled, SlotOf, vars
<1> QED
  BY <1>3, <1>4, <1>5, <1>8, <1>10, <1>12 DEF Shows

(* A POST's answer stays true, as long as its request goes on as it was. *)
LEMMA ToldKept ==
    ASSUME TypeOK, [Next]_vars, came => came', NEW p, Told(p),
           p.q # None /\ p.answer = "none" =>
              /\ request'[p.q] # Idle
              /\ p.op = "list" => /\ request'[p.q].at = request[p.q].at
                                  /\ request'[p.q].slot = request[p.q].slot
    PROVE  Told(p)'
  BY EventStaysSettled DEF Told

(* A request that starts was idle, and nobody waited for it. *)
LEMMA ToldStarted ==
    ASSUME PageOK, [Next]_vars, came => came', NEW op \in CardOps \cup PanelOps,
           NEW p, PostIs(op, p), op = "list" /\ p.answer = "ok" => came
    PROVE  \A r \in posts' : Told(r)'
<1>1. TypeOK
  BY DEF PageOK, RowsOK, LedgerOK, BaseOK
<1>2. CASE p.q = None
  <2>1. request' = request
    BY <1>2, EventPageConstants DEF PostIs, sfvars
  <2>2. \A r \in posts : Told(r)'
    BY <1>1, <2>1, ToldKept DEF PageOK, Panel, Told
  <2>3. Told(p)'
    BY <1>2, EventPageConstants DEF PostIs, Told, DoneBefore
  <2> QED
    BY <2>2, <2>3 DEF PostIs
<1>3. CASE p.q # None
  <2>1. p.q \in Requests /\ p.answer = "none" /\ Starts(op, p.q) /\ p.op = op
    BY <1>3 DEF PostIs
  <2>2. PICK at, cid :
            /\ at \in {"invite"} \cup OfInvite \cup OfRsvp
            /\ Start(p.q, at, MySlot, cid) /\ (op = "list" => at = "checkin") /\ op # "close"
    BY <2>1 DEF Starts, Join, Accept, Decline, Stake, Cancel, Invite, Checkin, OfInvite, OfRsvp
  <2>3. request[p.q] = Idle
    BY <2>2 DEF Start
  <2>4. \A q \in Requests : q # p.q => request'[q] = request[q]
    BY <2>2 DEF Start, PageOK, RequestsOK
  <2>5. request'[p.q].at = at /\ request'[p.q].slot = MySlot
    BY <2>1, <2>2 DEF Start, PageOK, RequestsOK
  <2>6. \A r \in posts : Told(r)'
    <3>1. SUFFICES ASSUME NEW r \in posts PROVE Told(r)'
      OBVIOUS
    <3>2. Told(r) /\ r.q \in Requests \cup {None}
      BY DEF PageOK, Panel, Stepper, PostRecord
    <3>3. r.q # None /\ r.answer = "none" => r.q # p.q
      BY <2>3, <3>2 DEF Told
    <3> QED
      BY <1>1, <2>4, <3>2, <3>3, ToldKept DEF Told
  <2>7. request'[p.q] # Idle
    BY <2>2, <2>5 DEF Idle, OfInvite, OfRsvp
  <2>8. Told(p)'
    BY <1>3, <2>1, <2>2, <2>5, <2>7 DEF Told
  <2> QED
    BY <2>6, <2>8 DEF PostIs
<1> QED
  BY <1>2, <1>3

(* Whoever is told "ok" for a check-in on the list has been checked in. *)
LEMMA ToldServed ==
    ASSUME PageOK, [Next]_vars, Came, Serve
    PROVE  /\ \A r \in posts' : Told(r)'
           /\ \A p \in posts : p.op = "list" => \E r \in posts' : r.op = "list"
<1>1. TypeOK /\ RequestsOK /\ Stepper /\ \A p \in posts : Told(p)
  BY DEF PageOK, RowsOK, LedgerOK, BaseOK, Panel
<1>2. PICK q, answer, f :
         /\ q \in Requests /\ answer \in {"ok", "error"}
         /\ DOMAIN f = posts /\ posts' = {f[p] : p \in posts}
         /\ \A p \in posts :
               /\ f[p] \in PostRecord /\ f[p].op = p.op /\ f[p].q = p.q
               /\ f[p].answer = IF p.q = q /\ p.answer = "none" /\ request'[q] = Idle
                                THEN answer ELSE p.answer
         /\ \/ Handle(q) /\ answer = "ok"
            \/ Fails(q) /\ answer = "error"
  BY <1>1, ServeNotes
<1>3. came => came'
  BY DEF Came
<1>4. \A p \in Requests : p # q => request'[p] = request[p]
  BY <1>1, <1>2 DEF RequestsOK, Handle, Fails, SubmitInvite, SubmitAccept, SubmitDecline,
     FindAllocation, LookupFails, SubmitAllocate, SubmitRecord, SubmitCancel, SubmitCheckin,
     Submitted
<1>5. ASSUME request[q].at = "checkin" PROVE request'[q] = Idle
  BY <1>1, <1>2, <1>5 DEF RequestsOK, Handle, Fails, SubmitInvite, SubmitAccept, SubmitDecline,
     FindAllocation, LookupFails, SubmitAllocate, SubmitRecord, SubmitCancel, SubmitCheckin,
     Submitted, At
<1>6. ASSUME request[q].at = "checkin", request[q].slot = MySlot, answer = "ok"
      PROVE  came'
  <2>1. SubmitCheckin(q)
    BY <1>2, <1>6 DEF Handle, SubmitInvite, SubmitAccept, SubmitDecline,
       FindAllocation, LookupFails, SubmitAllocate, SubmitRecord, SubmitCancel, At
  <2>2. SlotOf(request[q].rsvp[1]) = MySlot
    BY <1>1, <1>2, <1>6 DEF RequestsOK, Holds, OfRsvp
  <2>3. request[q].rsvp[1] \in checkedIn'
    BY <2>1 DEF SubmitCheckin, CheckIn
  <2> QED
    BY <2>2, <2>3 DEF Came
<1>7. ASSUME NEW p \in posts PROVE Told(f[p])'
  <2>1. Told(p) /\ p.q \in Requests \cup {None} /\ f[p].op = p.op /\ f[p].q = p.q
    BY <1>1, <1>2 DEF Stepper, PostRecord
  <2>2. PICK r : r = f[p]
    OBVIOUS
  <2>3. CASE p.q = q /\ p.answer = "none" /\ request'[q] = Idle
    <3>1. r.op = p.op /\ r.q = p.q /\ r.answer = answer
      BY <1>2, <2>2, <2>3
    <3>2. p.q # None
      BY <1>2, <2>3, EventPageConstants
    <3>3. p.op = "list" => request[q].at = "checkin" /\ request[q].slot = MySlot
      BY <2>1, <2>3 DEF Told
    <3>4. p.op # "close"
      BY <2>1, <3>2 DEF Told
    <3> QED
      BY <1>2, <1>6, <2>2, <3>1, <3>3, <3>4 DEF Told
  <2>4. CASE ~(p.q = q /\ p.answer = "none" /\ request'[q] = Idle)
    <3>1. r.op = p.op /\ r.q = p.q /\ r.answer = p.answer
      BY <1>2, <2>2, <2>4
    <3>2. Told(r)
      BY <2>1, <3>1 DEF Told
    <3>3. r.q # None /\ r.answer = "none" =>
              /\ request'[r.q] # Idle
              /\ r.op = "list" => /\ request'[r.q].at = request[r.q].at
                                  /\ request'[r.q].slot = request[r.q].slot
      BY <1>4, <1>5, <2>1, <2>4, <3>1, <3>2 DEF Told
    <3>4. Told(r)'
      BY <1>1, <1>3, <3>2, <3>3, ToldKept
    <3> QED
      BY <2>2, <3>4 DEF Told
  <2> QED
    BY <2>3, <2>4
<1>8. ASSUME NEW r \in posts' PROVE Told(r)'
  <2>1. PICK p \in posts : r = f[p]
    BY <1>2
  <2> QED
    BY <1>7, <2>1 DEF Told
<1> QED
  BY <1>2, <1>8

LEMMA PanelStep ==
    ASSUME PageOK, [EventPageNext]_epVars, [ReadModelNext]_rmVars, Came
    PROVE  Panel'
<1>1. TypeOK /\ [Next]_vars
  BY ReadModelStep DEF PageOK, RowsOK, LedgerOK, BaseOK
<1>2. /\ \A p \in posts : Told(p)
      /\ ticked \in BOOLEAN /\ results \in BOOLEAN /\ scan \in {"closed", "open", "seen"}
      /\ ticked => came \/ \E p \in posts : p.op = "list"
      /\ results => event[here] = "settled"
  BY DEF PageOK, Panel
<1>3. came => came'
  BY DEF Came
<1>4. event[here] = "settled" => event'[here] = "settled"
  BY <1>1, EventStaysSettled
<1>5. ASSUME NEW p, Told(p), request' = request PROVE Told(p)'
  BY <1>1, <1>3, <1>5, ToldKept DEF Told
<1>6. ASSUME UNCHANGED <<posts, request, ticked, results>>, scan' \in {"closed", "open", "seen"}
      PROVE  Panel'
  BY <1>2, <1>3, <1>4, <1>5, <1>6 DEF Panel
<1>7. CASE Poll \/ HideStepper \/ OpenScan \/ CloseScan \/ UNCHANGED epVars
  BY <1>2, <1>6, <1>7 DEF Poll, HideStepper, OpenScan, CloseScan, epVars, panelVars, sfvars
<1>8. CASE Others
  <2>1. request' = request
    BY <1>8 DEF Others, Around, Elsewhere, Indexer, Projects, Watcher, Looks, Marks, Misses
  <2> QED
    BY <1>2, <1>6, <1>8, <2>1 DEF Others, panelVars
<1>9. ASSUME NEW op \in CardOps \cup PanelOps, NEW p, PostIs(op, p),
             op = "list" /\ p.answer = "ok" => came,
             \/ ticked' = ticked
             \/ ticked' \in BOOLEAN /\ op = "list",
             results' = results, scan' \in {"closed", "open", "seen"}
      PROVE  Panel'
  <2>1. \A r \in posts' : Told(r)'
    BY <1>1, <1>3, <1>9, ToldStarted
  <2>2. posts \subseteq posts' /\ p \in posts' /\ p.op = op
    BY <1>9 DEF PostIs
  <2> QED
    BY <1>2, <1>3, <1>4, <1>9, <2>1, <2>2 DEF Panel
<1>10. ASSUME NEW op \in CardOps, Press(op) PROVE Panel'
  <2>1. PICK p : PostIs(op, p)
    BY <1>10, PostAdds DEF Press
  <2>2. op # "list" /\ ticked' = ticked /\ results' = results /\ scan' = scan
    BY <1>10 DEF Press, panelVars, CardOps
  <2> QED
    BY <1>2, <1>9, <2>1, <2>2
<1>11. CASE InviteAgain \/ CheckInFromScan \/ CloseEventAndSettle
  <2>1. PICK op \in {"invite", "scan", "close"} : Control(op)
    BY <1>11 DEF InviteAgain, CheckInFromScan, CloseEventAndSettle
  <2>2. PICK p : PostIs(op, p)
    BY <2>1, PostAdds DEF Control, PanelOps
  <2>3. op # "list" /\ ticked' = ticked /\ results' = results /\ scan' \in {"closed", "open", "seen"}
    BY <1>2, <1>11 DEF InviteAgain, CheckInFromScan, CloseEventAndSettle, panelVars
  <2> QED
    BY <1>9, <2>1, <2>2, <2>3 DEF PanelOps
<1>12. CASE CheckInFromList
  <2>1. PICK p : PostIs("list", p)
    BY <1>12, PostAdds DEF CheckInFromList, Control, PanelOps
  <2>2. p.answer = "ok" => came
    <3>1. SUFFICES ASSUME p.answer = "ok" PROVE DoneBefore("list")
      BY DEF PageOK, Arrivals, DoneBefore
    <3> QED
      BY <2>1, <3>1 DEF PostIs
  <2> QED
    BY <1>2, <1>9, <1>12, <2>1, <2>2 DEF CheckInFromList, PanelOps
<1>13. ASSUME NEW p \in posts, CardAnswered(p) PROVE Panel'
  <2>1. posts' = posts \ {p} /\ p.op # "list" /\ request' = request /\ UNCHANGED panelVars
    BY <1>13 DEF CardAnswered, CardOps, sfvars
  <2>2. \A r \in posts' : Told(r)'
    BY <1>2, <1>5, <2>1
  <2> QED
    BY <1>2, <1>3, <1>4, <2>1, <2>2 DEF Panel, panelVars
<1>14. ASSUME NEW p \in posts, PanelAnswered(p) PROVE Panel'
  <2>1. /\ posts' = posts \ {p} /\ request' = request /\ p.answer # "none"
        /\ ticked' = (ticked /\ ~(p.op = "list" /\ p.answer = "error"))
        /\ results' = (results \/ (p.op = "close" /\ p.answer = "ok"))
        /\ scan' \in {"closed", "open", "seen"}
    BY <1>2, <1>14 DEF PanelAnswered, sfvars
  <2>2. \A r \in posts' : Told(r)'
    BY <1>2, <1>5, <2>1
  <2>3. p.answer \in {"ok", "error"} /\ Told(p)
    BY <1>2, <2>1 DEF PageOK, Stepper, PostRecord
  <2>4. ticked' => came' \/ \E r \in posts' : r.op = "list"
    BY <1>2, <1>3, <2>1, <2>3 DEF Told
  <2>5. results' => event'[here] = "settled"
    BY <1>2, <1>4, <2>1, <2>3 DEF Told
  <2>6. ticked' \in BOOLEAN /\ results' \in BOOLEAN
    BY <1>2, <2>1
  <2> QED
    BY <2>1, <2>2, <2>4, <2>5, <2>6 DEF Panel
<1>15. ASSUME NEW p \in posts, CloseReturns(p) PROVE Panel'
  <2> DEFINE Noted(answer, f) ==
              /\ DOMAIN f = posts /\ posts' = {f[r] : r \in posts}
              /\ \A r \in posts :
                    /\ f[r] \in PostRecord /\ f[r].op = r.op /\ f[r].q = r.q
                    /\ f[r].answer = IF r = p THEN answer ELSE r.answer
              /\ answer = "ok" => event[here] = "settled"
  <2>0. PICK answer \in {"ok", "error"} : \E f : Noted(answer, f)
    <3>1. Stepper
      BY DEF PageOK
    <3> QED
      BY <1>15, <3>1, CloseNotes
  <2>1. PICK f : Noted(answer, f)
    BY <2>0
  <2>2. p.op = "close" /\ request' = request /\ UNCHANGED panelVars
    BY <1>15 DEF CloseReturns, sfvars
  <2>3. ASSUME NEW r \in posts' PROVE Told(r)'
    <3>1. PICK x \in posts : r = f[x]
      BY <2>1
    <3>2. Told(r)
      BY <1>2, <2>1, <2>2, <3>1 DEF Told
    <3> QED
      BY <1>1, <1>3, <2>2, <3>2, ToldKept DEF Told
  <2>4. (\E r \in posts : r.op = "list") => \E r \in posts' : r.op = "list"
    BY <2>1
  <2> QED
    BY <1>2, <1>3, <1>4, <2>2, <2>3, <2>4 DEF Panel, panelVars
<1>16. CASE Serve
  <2>1. (\A r \in posts' : Told(r)') /\ \A p \in posts : p.op = "list" => \E r \in posts' : r.op = "list"
    BY <1>1, <1>16, ToldServed
  <2> QED
    BY <1>2, <1>3, <1>4, <1>16, <2>1 DEF Serve, Panel, panelVars
<1> QED
  BY <1>7, <1>8, <1>10, <1>11, <1>12, <1>13, <1>14, <1>15, <1>16 DEF EventPageNext, PageNext

(* What a step does to the requests, and that nothing but a request locks a  *)
(* stake around the attendee's tab.                                          *)
LEMMA PageMoves ==
    ASSUME TypeOK, [EventPageNext]_epVars
    PROVE  \/ (viewer = "attendee" => NoNewLock) /\ UNCHANGED <<request, blind>>
           \/ \E q \in Requests : Begin(q) \/ Handle(q) \/ Fails(q)
<1> DEFINE G == \/ (viewer = "attendee" => NoNewLock) /\ UNCHANGED <<request, blind>>
                \/ \E q \in Requests : Begin(q) \/ Handle(q) \/ Fails(q)
<1>1. ASSUME UNCHANGED sfvars PROVE G
  BY <1>1, OthersLockNothing DEF sfvars, rmVars
<1>2. ASSUME NEW op, Post(op) PROVE G
  <2>1. ASSUME NEW q \in Requests, Starts(op, q) PROVE Begin(q)
    BY <2>1, EventPageConstants DEF Starts, Begin
  <2> QED
    BY <1>1, <1>2, <2>1 DEF Post
<1>3. CASE Serve
  BY <1>3 DEF Serve
<1>4. ASSUME NEW op, Press(op) \/ Control(op) PROVE G
  BY <1>2, <1>4 DEF Press, Control
<1>5. CASE InviteAgain \/ CheckInFromList \/ CheckInFromScan \/ CloseEventAndSettle
  BY <1>4, <1>5 DEF InviteAgain, CheckInFromList, CheckInFromScan, CloseEventAndSettle
<1>6. CASE Others
  <2>1. UNCHANGED <<request, blind>>
    BY <1>6 DEF Others, Around, Elsewhere, Indexer, Projects, Watcher, Looks, Marks, Misses
  <2>2. ASSUME viewer = "attendee" PROVE NoNewLock
    <3>1. ASSUME Around PROVE NoNewLock
      <4>1. ASSUME NEW r \in Rsvps, InviteAttendee(here, r) \/ CheckIn(r, here) PROVE NoNewLock
        BY <4>1, OthersLockNothing, EscrowConstants DEF InviteAttendee, CheckIn
      <4> QED
        BY <3>1, <4>1, OthersLockNothing DEF Around
    <3> QED
      BY <1>6, <2>2, <3>1, OthersLockNothing DEF Others
  <2> QED
    BY <2>1, <2>2
<1>7. ASSUME NEW p \in posts, CardAnswered(p) \/ CloseReturns(p) \/ PanelAnswered(p)
      PROVE  G
  BY <1>1, <1>7 DEF CardAnswered, CloseReturns, PanelAnswered
<1>8. CASE Poll \/ HideStepper \/ OpenScan \/ CloseScan \/ UNCHANGED epVars
  BY <1>1, <1>8 DEF Poll, HideStepper, OpenScan, CloseScan, epVars
<1> QED
  BY <1>3, <1>4, <1>5, <1>6, <1>7, <1>8 DEF EventPageNext, PageNext

LEMMA PageInit == EventPageInit => PageOK
<1> SUFFICES ASSUME EventPageInit PROVE PageOK
  OBVIOUS
<1>1. RowsOK
  BY RowsInit DEF EventPageInit, StakeFlowInit
<1>2. RequestsOK
  <2>1. Holds(Idle) /\ Idle \in Request
    BY IdleHolds DEF Holds
  <2> QED
    BY <2>1 DEF EventPageInit, StakeFlowInit, RequestsOK
<1>3. Stepper
  BY DEF EventPageInit, Stepper, StepperShown, CardPosts
<1>4. Arrivals
  <2>1. queue = <<>> /\ resend = <<>> /\ rows[MySlot] = NoRow /\ checkedIn = {} /\ came = FALSE
    BY EventPageConstants DEF EventPageInit, StakeFlowInit, ReadModelInit, Init
  <2>2. Delivered = {}
    BY <2>1 DEF Delivered
  <2> QED
    BY <2>1, <2>2 DEF Arrivals
<1>5. Controls /\ Shows /\ Panel
  BY DEF EventPageInit, Controls, Shows, Panel
<1> QED
  BY <1>1, <1>2, <1>3, <1>4, <1>5 DEF PageOK

LEMMA PageKept == PageOK /\ [EventPageNext]_epVars => PageOK'
<1> SUFFICES ASSUME PageOK, [EventPageNext]_epVars PROVE PageOK'
  OBVIOUS
<1>1. RowsOK /\ RequestsOK /\ Arrivals /\ Stepper /\ Controls /\ Shows /\ TypeOK
  BY DEF PageOK, RowsOK, LedgerOK, BaseOK
<1>2. [ReadModelNext]_rmVars
  BY <1>1, PageStep
<1>3. RowsOK' /\ [Next]_vars
  BY <1>1, <1>2, RowsStep, ReadModelStep
<1>4. ASSUME UNCHANGED epVars PROVE Came
  <2>1. came' = came /\ checkedIn' = checkedIn
    BY <1>4 DEF epVars, sfvars, rmVars, vars
  <2> QED
    BY <1>1, <2>1 DEF Came, Arrivals
<1>5. Came
  BY <1>4 DEF Came, EventPageNext
<1>6. Arrivals' /\ (came => came')
  BY <1>1, <1>2, <1>3, <1>5, ArrivalsStep
<1>7. RequestsOK' /\ Stepper' /\ Controls'
  BY <1>1, PageMoves, RequestsStep, StepperStep, ControlsStep
<1>8. Panel'
  BY <1>2, <1>5, PanelStep
<1>9. Shows'
  <2>1. CASE Poll
    BY <1>1, <1>6, <2>1, ShowsPolled
  <2>2. CASE shown' = shown
    BY <1>1, <1>3, <1>6, <2>2, ShowsKept
  <2>3. Poll \/ shown' = shown
    BY DEF EventPageNext, PageNext, Press, CardAnswered, CloseReturns, PanelAnswered,
           HideStepper, InviteAgain, CheckInFromList, OpenScan, CloseScan, CheckInFromScan,
           CloseEventAndSettle, Serve, Others, epVars
  <2> QED
    BY <2>1, <2>2, <2>3
<1> QED
  BY <1>3, <1>6, <1>7, <1>8, <1>9 DEF PageOK

(* Rows, requests and controls stay well formed: a control is disabled       *)
(* exactly while the page waits for its POST.                                *)
THEOREM PageTypes == EventPageSpec => []EventPageTypeOK
<1>1. PageOK => EventPageTypeOK
  <2> SUFFICES ASSUME PageOK PROVE EventPageTypeOK
    OBVIOUS
  <2>1. ReadModelTypeOK /\ RequestsOK /\ Controls /\ Stepper /\ Shows /\ Panel
    BY RowsTypes DEF PageOK
  <2>2. StakeFlowTypeOK
    BY <2>1 DEF RequestsOK, Holds, StakeFlowTypeOK, At, OfInvite, OfRsvp
  <2>3. busy = {IF p.op \in CardOps THEN "card" ELSE p.op : p \in posts}
    BY <2>1 DEF Controls, Ctl
  <2>4. shown \in [event : {"open", "ended", "settled"}, row : Card \cup {NoRow}] \cup {NoRow}
    BY <2>1 DEF Shows
  <2>5. timers \in Nat
    BY <2>1 DEF Stepper
  <2>6. \A p \in posts : p.q # None /\ p.answer = "none" => request[p.q] # Idle
    BY <2>1 DEF Panel, Told
  <2> QED
    BY <2>1, <2>2, <2>3, <2>4, <2>5, <2>6 DEF Panel, EventPageTypeOK
<1> QED
  BY <1>1, PageInit, PageKept, PTL DEF EventPageSpec

(* The page never says that a stake came back which was slashed, and that it *)
(* was slashed only of one that was, or that went back while the row had     *)
(* returned to an RSVP without a stake.                                      *)
THEOREM VerdictHolds == EventPageSpec => []VerdictTrue
<1>1. PageOK => VerdictTrue
  BY DEF PageOK, Shows, Verdicts, VerdictTrue, Verdict, CardState
<1> QED
  BY <1>1, PageInit, PageKept, PTL DEF EventPageSpec

(* Whom the list shows as checked in was checked in at some time, once the   *)
(* list has its answer; and the results are of a settled event.              *)
THEOREM PanelHolds == EventPageSpec => []PanelTrue
<1>1. PageOK => PanelTrue
  BY DEF PageOK, Shows, Panel, PanelTrue, Latched, Results, PanelOpen
<1> QED
  BY <1>1, PageInit, PageKept, PTL DEF EventPageSpec

-------------------------------------------------------------------------------
(* One tab *)

(* The attendee's tab waits for every request that runs. *)
Tab == viewer = "attendee" =>
    \A q \in Requests : request[q] # Idle => \E p \in CardPosts : p.q = q /\ p.answer = "none"

LEMMA TabAlone ==
    ASSUME Stepper, Tab, viewer = "attendee"
    PROVE  Alone
  BY DEF Stepper, Tab, Alone

LEMMA TabStep ==
    ASSUME PageOK, Tab, [EventPageNext]_epVars
    PROVE  Tab'
<1> SUFFICES ASSUME viewer = "attendee", viewer' = viewer,
                    NEW q \in Requests, request'[q] # Idle
             PROVE  \E p \in posts' : p.op \in CardOps /\ p.q = q /\ p.answer = "none"
  <2>1. viewer' = viewer
    BY DEF EventPageNext, PageNext, Poll, Press, CardAnswered, CloseReturns, PanelAnswered,
           HideStepper, InviteAgain, CheckInFromList, OpenScan, CloseScan, CheckInFromScan,
           CloseEventAndSettle, Serve, Others, epVars
  <2> QED
    BY <2>1 DEF Tab, CardPosts
<1>1. request[q] # Idle =>
        \E p \in posts : p.op \in CardOps /\ p.q = q /\ p.answer = "none"
  BY DEF Tab, CardPosts
<1>2. CASE UNCHANGED <<posts, request>>
  BY <1>1, <1>2
<1>3. CASE Poll \/ HideStepper \/ OpenScan \/ CloseScan \/ UNCHANGED epVars
  BY <1>2, <1>3 DEF Poll, HideStepper, OpenScan, CloseScan, epVars, sfvars
<1>4. CASE Others
  BY <1>2, <1>4 DEF Others, Around, Elsewhere, Indexer, Projects, Watcher, Looks, Marks, Misses
<1>5. ASSUME NEW op \in CardOps, Press(op)
      PROVE  \E p \in posts' : p.op \in CardOps /\ p.q = q /\ p.answer = "none"
  <2>1. PICK p : PostIs(op, p)
    BY <1>5, PostAdds DEF Press
  <2>2. CASE p.q = q /\ p.answer = "none"
    BY <2>1, <2>2 DEF PostIs
  <2>3. CASE p.q = None
    <3>1. request' = request /\ posts \subseteq posts'
      BY <2>1, <2>3, EventPageConstants DEF PostIs, sfvars
    <3> QED
      BY <1>1, <3>1
  <2>4. CASE p.q # None /\ p.q # q
    <3>1. PICK at, s, cid : Start(p.q, at, s, cid)
      BY <2>1, <2>4 DEF PostIs, Starts, Join, Accept, Decline, Stake, Cancel, Invite, Checkin
    <3>2. request'[q] = request[q] /\ posts \subseteq posts'
      BY <2>1, <2>4, <3>1 DEF Start, PostIs, PageOK, RequestsOK
    <3> QED
      BY <1>1, <3>2
  <2> QED
    BY <2>1, <2>2, <2>3, <2>4 DEF PostIs
<1>6. CASE InviteAgain \/ CheckInFromList \/ CheckInFromScan \/ CloseEventAndSettle
  BY <1>6 DEF InviteAgain, CheckInFromList, CheckInFromScan, CloseEventAndSettle, Control, PanelOpen
<1>7. ASSUME NEW p \in posts, CardAnswered(p) \/ PanelAnswered(p)
      PROVE  \E r \in posts' : r.op \in CardOps /\ r.q = q /\ r.answer = "none"
  <2>1. posts' = posts \ {p} /\ p.answer # "none" /\ request' = request
    BY <1>7 DEF CardAnswered, PanelAnswered, sfvars
  <2> QED
    BY <1>1, <2>1
<1>8. ASSUME NEW p \in posts, CloseReturns(p)
      PROVE  \E r \in posts' : r.op \in CardOps /\ r.q = q /\ r.answer = "none"
  <2>1. p.op \notin CardOps /\ request' = request
    BY <1>8 DEF CloseReturns, sfvars, CardOps
  <2>2. posts \ {p} \subseteq posts'
    BY <1>8 DEF CloseReturns
  <2> QED
    BY <1>1, <2>1, <2>2
<1>9. CASE Serve
  <2>1. PICK x, answer, f :
              /\ x \in Requests /\ answer \in {"ok", "error"}
              /\ DOMAIN f = posts /\ posts' = {f[p] : p \in posts}
              /\ \A p \in posts :
                    /\ f[p] \in PostRecord /\ f[p].op = p.op /\ f[p].q = p.q
                    /\ f[p].answer = IF p.q = x /\ p.answer = "none" /\ request'[x] = Idle
                                     THEN answer ELSE p.answer
              /\ \/ Handle(x) /\ answer = "ok"
                 \/ Fails(x) /\ answer = "error"
    BY <1>9, ServeNotes DEF PageOK
  <2>2. request[q] # Idle
    <3>1. CASE q = x
      <4>1. Handle(x) => request[x].at # "idle"
        BY DEF Handle, SubmitInvite, SubmitAccept, SubmitDecline, FindAllocation, LookupFails,
               SubmitAllocate, SubmitRecord, SubmitCancel, SubmitCheckin, At
      <4>2. Idle.at = "idle"
        BY DEF Idle
      <4>3. Fails(x) => request[x] # Idle
        BY DEF Fails
      <4> QED
        BY <2>1, <3>1, <4>1, <4>2, <4>3
    <3>2. CASE q # x
      <4>1. request'[q] = request[q]
        BY <2>1, <3>2 DEF PageOK, RequestsOK, Handle, Fails, SubmitInvite, SubmitAccept,
           SubmitDecline, FindAllocation, LookupFails, SubmitAllocate, SubmitRecord,
           SubmitCancel, SubmitCheckin, Submitted
      <4> QED
        BY <4>1
    <3> QED
      BY <3>1, <3>2
  <2>3. PICK p \in posts : p.op \in CardOps /\ p.q = q /\ p.answer = "none"
    BY <1>1, <2>2
  <2>4. f[p].op \in CardOps /\ f[p].q = q /\ f[p].answer = "none" /\ f[p] \in posts'
    BY <2>1, <2>3
  <2> QED
    BY <2>4
<1> QED
  BY <1>3, <1>4, <1>5, <1>6, <1>7, <1>8, <1>9 DEF EventPageNext, PageNext

(* One tab that is not left cannot lock two stakes, whatever became of its   *)
(* earlier requests and however many may run at the same time, if the        *)
(* organizer invites the attendee once and no lookup for a lost allocation   *)
(* failed (blind).                                                           *)
THEOREM TabStakes ==
    ASSUME Single(MySlot)
    PROVE  EventPageSpec => []TabStakesOnce
<1> DEFINE I == PageOK /\ RequestsLive /\ Tab /\ (viewer = "attendee" => Holder(MySlot))
<1>1. EventPageInit => I
  <2>1. EventPageInit => Tab
    BY DEF EventPageInit, StakeFlowInit, Tab
  <2> QED
    BY <2>1, PageInit, HolderInit DEF EventPageInit
<1>2. I /\ [EventPageNext]_epVars => I'
  <2> SUFFICES ASSUME I, [EventPageNext]_epVars PROVE I'
    OBVIOUS
  <2>1. RowsOK /\ RequestsOK /\ TypeOK /\ Stepper
    BY DEF PageOK, RowsOK, LedgerOK, BaseOK
  <2>2. [Next]_vars
    BY <2>1, PageStep, ReadModelStep
  <2>3. PageOK' /\ Tab'
    BY PageKept, TabStep
  <2>4. \/ (viewer = "attendee" => NoNewLock) /\ UNCHANGED <<request, blind>>
        \/ \E q \in Requests : Begin(q) \/ Handle(q) \/ Fails(q)
    BY <2>1, PageMoves
  <2>5. RequestsLive'
    BY <2>1, <2>2, <2>4, RequestsLiveStep
  <2>6. viewer' = viewer
    BY DEF EventPageNext, PageNext, Poll, Press, CardAnswered, CloseReturns, PanelAnswered,
           HideStepper, InviteAgain, CheckInFromList, OpenScan, CloseScan, CheckInFromScan,
           CloseEventAndSettle, Serve, Others, epVars
  <2>7. viewer = "attendee" => Holder(MySlot)'
    BY <2>1, <2>2, <2>4, TabAlone, HolderStep, EventPageConstants
  <2> QED
    BY <2>3, <2>5, <2>6, <2>7
<1>3. I => TabStakesOnce
  BY OneLocked DEF TabStakesOnce
<1> QED
  BY <1>1, <1>2, <1>3, PTL DEF EventPageSpec

-------------------------------------------------------------------------------
(* The buttons of the card *)

(* What the card of a row makes of it. *)
LEMMA CardIs ==
    ASSUME RowsTend, Fresh
    PROVE  /\ here \in Events /\ MySlot \in Slots \ crowded
           /\ shown.event = eventRow[here].status /\ eventRow[here] # NoRow
           /\ shown # NoRow
           /\ LET row == rows[MySlot]
              IN  /\ row = NoRow => shown.row = NoRow
                  /\ row # NoRow =>
                        /\ row \in Row /\ shown.row # NoRow
                        /\ shown.row.status = row.status /\ shown.row.checkedIn = row.checkedIn
                        /\ shown.row.invite = row.invite /\ shown.row.rsvp = row.rsvp
<1>1. MySlot \in Slots /\ here \in Events
  BY EventPageConstants DEF here, Slots
<1>2. shown # NoRow /\ shown = Detail /\ MySlot \notin crowded
  BY DEF Fresh
<1>3. eventRow[here] # NoRow /\ shown = [event |-> eventRow[here].status, row |-> CardRow(rows[MySlot])]
  BY <1>2 DEF Detail
<1>4. shown.event = eventRow[here].status /\ shown.row = CardRow(rows[MySlot])
  BY <1>3
<1>5. PICK row : row = rows[MySlot]
  OBVIOUS
<1>6. row \in Row \cup {NoRow}
  BY <1>1, <1>5 DEF RowsTend, RowsOK, RowsTyped
<1>7. CASE row = NoRow
  BY <1>1, <1>2, <1>3, <1>4, <1>5, <1>7 DEF CardRow
<1>8. CASE row # NoRow
  <2>1. CardRow(row) = [status |-> row.status, checkedIn |-> row.checkedIn,
                        invite |-> row.invite, rsvp |-> row.rsvp]
    BY <1>8 DEF CardRow
  <2>2. CardRow(row) \in Card
    BY <1>6, <1>8, <2>1 DEF Row, Card
  <2>3. CardRow(row) # NoRow
    BY <2>2, EventPageConstants
  <2> QED
    BY <1>1, <1>2, <1>3, <1>4, <1>5, <1>6, <1>8, <2>1, <2>3
<1> QED
  BY <1>7, <1>8

LEMMA OffersFit ==
    ASSUME RowsTend, Single(MySlot)
    PROVE  OffersTrue
<1> SUFFICES ASSUME Fresh
             PROVE  /\ Offers("join") => /\ EventOpen(here)
                                         /\ BeforeRsvpDeadline(here)
                                         /\ ~MyRsvp({r \in Rsvps : stage[r] # "none"})
                    /\ Offers("decline") <=> MyRsvp({r \in Rsvps : stage[r] = "invited"})
                    /\ Offers("stake") <=>
                          MyRsvp({r \in Rsvps \ withdrawn : stage[r] = "live" /\ allocOf[r] = NoAlloc})
                    /\ Offers("cancel") <=>
                          /\ BeforeRsvpDeadline(here)
                          /\ MyRsvp({r \in Rsvps \ (withdrawn \cup checkedIn) :
                                       stage[r] = "live" /\ allocOf[r] # NoAlloc})
  BY DEF OffersTrue
<1>1. PICK row : row = rows[MySlot]
  OBVIOUS
<1>2. /\ here \in Events /\ MySlot \in Slots \ crowded
      /\ shown.event = eventRow[here].status /\ eventRow[here] # NoRow /\ shown # NoRow
      /\ row = NoRow => shown.row = NoRow
      /\ row # NoRow =>
            /\ row \in Row /\ shown.row # NoRow
            /\ shown.row.status = row.status /\ shown.row.checkedIn = row.checkedIn
            /\ shown.row.invite = row.invite /\ shown.row.rsvp = row.rsvp
  BY <1>1, CardIs
<1>3. early = BeforeRsvpDeadline(here) /\ queue = <<>>
  BY DEF Fresh
<1>4. /\ EventShown(here) /\ SlotShown(MySlot)
      /\ row = NoRow => \A r \in Rsvps : SlotOf(r) = MySlot => stage[r] = "none"
  BY <1>1, <1>2, <1>3, RowsTendShow
<1>5. shown.event = "open" => EventOpen(here)
  <2>0. shown.event = eventRow[here].status /\ EventShown(here)
    BY <1>2, <1>4
  <2>1. CASE EventLive(here)
    <3>1. eventRow[here] = [cid |-> event[here], status |-> event[here]]
      BY <2>0, <2>1 DEF EventShown
    <3>2. shown.event = event[here]
      BY <2>0, <3>1
    <3> QED
      BY <3>2 DEF EventOpen
  <2>2. CASE ~EventLive(here)
    BY <1>2, <1>4, <2>2 DEF EventShown
  <2> QED
    BY <2>1, <2>2
<1>6. CASE row = NoRow
  <2>1. CardState = "stranger"
    BY <1>2, <1>6 DEF CardState
  <2> QED
    BY <1>3, <1>4, <1>5, <1>6, <2>1 DEF Offers, MyRsvp
<1>7. ASSUME row # NoRow
      PROVE  /\ CardState = IF row.checkedIn /\ row.status # "settled" THEN "arrived" ELSE row.status
             /\ CardState # "stranger"
             /\ shown.row.invite = row.invite /\ shown.row.rsvp = row.rsvp
  <2>1. row \in Row /\ shown.row # NoRow
    BY <1>2, <1>7
  <2>2. row.status # "stranger"
    BY <2>1 DEF Row, RowStates
  <2> QED
    BY <1>2, <1>7, <2>1, <2>2 DEF CardState
<1>8. CASE row # NoRow /\ Outstanding(MySlot) = {}
  <2>1. row.status \in {"declined", "cancelled", "settled"}
    BY <1>1, <1>4, <1>8 DEF SlotShown
  <2>2. \A r \in Rsvps : SlotOf(r) = MySlot => stage[r] \notin {"invited", "live"}
    BY <1>8 DEF Outstanding
  <2>3. CardState \in {"arrived", "declined", "cancelled", "settled"}
    BY <1>7, <1>8, <2>1
  <2> QED
    BY <2>2, <2>3 DEF Offers, MyRsvp
<1>9. ASSUME row # NoRow, NEW r \in Outstanding(MySlot)
      PROVE  /\ ~Offers("join")
             /\ Offers("decline") <=> stage[r] = "invited"
             /\ Offers("stake") <=> stage[r] = "live" /\ r \notin withdrawn /\ allocOf[r] = NoAlloc
             /\ Offers("cancel") <=>
                   /\ BeforeRsvpDeadline(here)
                   /\ stage[r] = "live" /\ r \notin withdrawn /\ r \notin checkedIn /\ allocOf[r] # NoAlloc
  <2>1. RowShows(row, r) /\ r \in Rsvps /\ SlotOf(r) = MySlot /\ stage[r] \in {"invited", "live"}
    BY <1>1, <1>4 DEF SlotShown, Outstanding
  <2>2. ~Offers("join")
    BY <1>7, <1>9 DEF Offers
  <2>3. CASE stage[r] = "invited"
    <3>1. row.rsvp = None
      <4>1. SUFFICES ASSUME row.rsvp # None PROVE FALSE
        OBVIOUS
      <4>2. row.rsvp \in RsvpCids
        BY <1>2, <1>9, <4>1 DEF Row
      <4>3. SlotOf(row.rsvp[1]) = MySlot /\ stage[row.rsvp[1]] \in Late /\ row.rsvp[1] \in Rsvps
        BY <1>1, <1>2, <1>9, <4>1, <4>2 DEF RowsTend, RowsOK, RowsSay, RowSays, RsvpCids
      <4>4. row.rsvp[1] = r
        BY <2>1, <4>3 DEF Single
      <4> QED
        BY <2>3, <4>3, <4>4 DEF Late, Gone
    <3>2. row.checkedIn = FALSE
      BY <1>1, <1>2, <1>9, <3>1 DEF RowsTend, Plain
    <3>3. row.status = "invited" /\ row.invite = r /\ r # None
      BY <2>1, <2>3, ReadModelConstants DEF RowShows
    <3>4. CardState = "invited" /\ shown.row.invite # None
      BY <1>7, <1>9, <3>2, <3>3
    <3> QED
      BY <2>2, <2>3, <3>4 DEF Offers
  <2>4. CASE stage[r] = "live"
    <3>1. /\ row.rsvp = <<r, ver[r]>> /\ row.checkedIn = (r \in checkedIn)
          /\ row.status = IF r \in withdrawn THEN "withdrawn"
                          ELSE IF allocOf[r] # NoAlloc THEN "staked" ELSE "accepted"
      BY <2>1, <2>4 DEF RowShows
    <3>2. r \in checkedIn => r \notin withdrawn /\ allocOf[r] # NoAlloc
      BY <2>1 DEF RowsTend, RowsOK, LedgerOK, CheckedInHoldsStake
    <3>3. row.rsvp # None
      <4>1. row.rsvp \in RsvpCids
        BY <2>1, <3>1 DEF RowsTend, RowsOK, LedgerOK, BaseOK, Born, RsvpCids
      <4> QED
        BY <4>1, ReadModelConstants
    <3>4. /\ r \in checkedIn => CardState = "arrived"
          /\ r \notin checkedIn => CardState = row.status
      <4>1. CASE r \in checkedIn
        <5>1. row.checkedIn = TRUE
          <6>1. (r \in checkedIn) = TRUE
            BY <4>1
          <6> QED
            BY <3>1, <6>1, Zenon
        <5>2. row.status = "staked"
          BY <3>1, <3>2, <4>1
        <5> QED
          BY <1>7, <1>9, <4>1, <5>1, <5>2
      <4>2. CASE r \notin checkedIn
        <5>1. row.checkedIn = FALSE
          <6>1. (r \in checkedIn) = FALSE
            BY <4>2
          <6> QED
            BY <3>1, <6>1, Zenon
        <5> QED
          BY <1>7, <1>9, <4>2, <5>1
      <4> QED
        BY <4>1, <4>2
    <3>5. CardState = "staked" <=> r \notin withdrawn /\ r \notin checkedIn /\ allocOf[r] # NoAlloc
      BY <3>1, <3>2, <3>4
    <3>6. CardState = "accepted" <=> r \notin withdrawn /\ allocOf[r] = NoAlloc
      BY <3>1, <3>2, <3>4
    <3>7. CardState # "invited" /\ shown.row.rsvp # None
      BY <1>7, <1>9, <3>1, <3>3, <3>4
    <3> QED
      BY <1>3, <2>2, <2>4, <3>5, <3>6, <3>7 DEF Offers
  <2> QED
    BY <2>1, <2>3, <2>4
<1>10. ASSUME row # NoRow, NEW r \in Outstanding(MySlot)
       PROVE  /\ \A S : S \subseteq Rsvps => (MyRsvp(S) <=> r \in S)
              /\ r \in Rsvps
  BY <1>10 DEF MyRsvp, Outstanding, Single
<1> QED
  BY <1>6, <1>8, <1>9, <1>10

(* Once rows and page have caught up, the card has the buttons of what the   *)
(* attendee can do and no others, for a slot with one RSVP.  (Of a slot with *)
(* two, a row keeps the check-in of a rejected RSVP, and with it the next    *)
(* invite has no buttons.)                                                   *)
THEOREM OffersHold ==
    ASSUME Single(MySlot)
    PROVE  EventPageSpec => []OffersTrue
<1>1. EventPageInit => RowsTend
  BY RowsTendInit DEF EventPageInit, StakeFlowInit
<1>2. RowsTend /\ [EventPageNext]_epVars => RowsTend'
  BY PageStep, RowsTendStep DEF RowsTend, RowsOK, LedgerOK, BaseOK
<1>3. RowsTend => OffersTrue
  BY OffersFit
<1> QED
  BY <1>1, <1>2, <1>3, PTL DEF EventPageSpec
=============================================================================
