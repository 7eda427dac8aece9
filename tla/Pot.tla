--------------------------------- MODULE Pot ---------------------------------
(***************************************************************************)
(* The pot that all events of one token share: the stakes that CloseEvent  *)
(* slashes come in, and the payout runner (backend/internal/settle/        *)
(* payout.go) of each closing event pays them out, from whatever holdings  *)
(* of the pot it finds.  Two events may close at once, and work on the     *)
(* same holdings.  The indexer keeps rows of the pot's holdings and of the *)
(* payouts (its handlers E13 to E15b), which the results page shows.       *)
(*                                                                         *)
(* What one close does to its event, and what several closes of one event  *)
(* do to each other, is in Settlement; here each event is closed once.     *)
(* Amounts are in the smallest unit of the token.                          *)
(***************************************************************************)
EXTENDS Integers, Sequences, FiniteSets, Functions

CONSTANTS
    Events,
    Came,       \* Came[e]: the attendees that e refunds, and then pays
    Ghosts,     \* Ghosts[e]: how many stakes e slashes
    Stake,      \* Stake[e]: the stake of e
    NoPayee,    \* it is at none
    Deposit,    \* a transfer to an attendee that does not come from the pot
    MaxLag,     \* bound on the transactions the indexer is behind
    MaxQueue    \* bound on the updates delivered and not handled

VARIABLES
    token,          \* which token it is, and so how its registry transfers
    pot,            \* the holdings of the pot
    minted,         \* how many holdings the pot ever had
    payout,         \* payout[i]: what became of transfer i
    step,           \* step[e]: where the payout runner of e is
    due,            \* due[e]: the attendees e has still to pay
    payee,          \* payee[e]: the attendee whose payout e is at
    inputs,         \* inputs[e]: the holdings e found in the pot
    disturbed,      \* history: payouts that met a refusal, a death, or another event's payout
    potRows,        \* the rows of pot_holdings
    known,          \* the contract ids of them in the indexer's memory
    payoutRows,     \* payoutRows[i]: the status in the payouts row of i
    unattributed,   \* the rows of payouts_unattributed
    queue, resend, stale    \* the feed, as in ReadModel

ledgerVars == <<token, pot, minted, payout>>
runnerVars == <<step, due, payee, inputs, disturbed>>
rowVars    == <<potRows, known, payoutRows, unattributed>>
feedVars   == <<queue, resend, stale>>
potVars    == <<ledgerVars, runnerVars, rowVars, feedVars>>

Payouts   == UNION {{e} \X Came[e] : e \in Events}
Transfers == Payouts \cup {Deposit}

(* A contract id names one contract: those of the pot's holdings are none of *)
(* the transfers'.                                                           *)
ASSUME PotConstants ==
    /\ IsFiniteSet(Events)
    /\ \A e \in Events : IsFiniteSet(Came[e])
    /\ Ghosts \in [Events -> Nat]
    /\ Stake \in [Events -> Nat \ {0}]
    /\ {MaxLag, MaxQueue} \subseteq Nat
    /\ "pot" \notin Events
    /\ Deposit \notin Payouts \cup ({"pot"} \X Nat)

Amount(H) == SumFunction([h \in H |-> h.amount])

-------------------------------------------------------------------------------
(* What an event pays *)

Forfeited(e) == Stake[e] * Ghosts[e]

(* Mutant: the share is rounded up. *)
Share_RoundedUp(e) == (Forfeited(e) + Cardinality(Came[e]) - 1) \div Cardinality(Came[e])

Share(e) == Forfeited(e) \div Cardinality(Came[e])

(* Nobody is paid where nobody came, or where every share is rounded to 0. *)
Payees(e) == {p \in Came[e] : Share(e) > 0}

(* The payouts of the submission that e is about to make: one Mint for all,  *)
(* or one transfer.                                                          *)
Aimed(e)  == {e} \X (IF token = "demo" THEN due[e] ELSE {payee[e]})
Needed(e) == Share(e) * Cardinality(Aimed(e))

(* Mutant: change is minted even when there is none. *)
Change_Zero(H, e) == {[id |-> <<"pot", minted + 1>>, amount |-> Amount(H) - Needed(e)]}

(* What is left of holdings H goes back to the pot as one holding. *)
Change(H, e) == {h \in {[id |-> <<"pot", minted + 1>>, amount |-> Amount(H) - Needed(e)]} :
                    h.amount > 0}

-------------------------------------------------------------------------------
(* The transactions, as far as the indexer subscribes to them *)

OfPot(H) == {[kind |-> "holding", id |-> h.id, owner |-> "pot", amount |-> h.amount] : h \in H}

Received(i) == [kind |-> "holding", id |-> i, owner |-> "attendee", amount |-> 1]

(* The registry may strip the meta that names the event. *)
Instruction(i) == [kind    |-> "transfer", id |-> i,
                   sender  |-> IF i = Deposit THEN "other" ELSE "pot",
                   stamped |-> i # Deposit /\ token # "unstamped"]

Publish(created, archived) ==
    IF created \cup archived = {} THEN UNCHANGED feedVars
    ELSE LET u == [created |-> created, archived |-> archived]
         IN  /\ Len(resend) < MaxLag
             /\ Len(queue) < MaxQueue
             /\ queue' = Append(queue, u)
             /\ resend' = Append(resend, u)
             /\ UNCHANGED stale

(* Holdings H of the pot are replaced by the holdings N. *)
Exchange(H, N) ==
    /\ pot' = (pot \ H) \cup N
    /\ minted' = minted + Cardinality(N)

-------------------------------------------------------------------------------
(* Closing events *)

(* CloseEvent: every slash is a holding of the pot.  The payout runner goes  *)
(* on with the attendees who came.                                           *)
CloseEvent(e) ==
    LET slashed == {[id |-> <<"pot", minted + n>>, amount |-> Stake[e]] : n \in 1..Ghosts[e]}
    IN  /\ step[e] = "open"
        /\ step' = [step EXCEPT ![e] = "payout"]
        /\ due' = [due EXCEPT ![e] = Payees(e)]
        /\ Exchange({}, slashed)
        /\ Publish(OfPot(slashed), {})
        /\ UNCHANGED <<token, payout, payee, inputs, disturbed, rowVars>>

(* The next attendee's payout: the holdings of the pot are queried. *)
Gather(e, p) ==
    /\ step[e] = "payout"
    /\ p \in due[e]
    /\ step' = [step EXCEPT ![e] = "gathered"]
    /\ payee' = [payee EXCEPT ![e] = p]
    /\ inputs' = [inputs EXCEPT ![e] = pot]
    /\ UNCHANGED <<ledgerVars, due, disturbed, rowVars, feedVars>>

(* Whose submissions are lost when holdings H are spent by e. *)
Disturbs(H, e) ==
    UNION {Aimed(f) : f \in {g \in Events \ {e} : step[g] = "gathered" /\ inputs[g] \cap H # {}}}

(* TransferFactory_Transfer with all holdings as inputs.  Some registries    *)
(* deliver at once, others make an instruction that the receiver accepts.    *)
Transfer(e) ==
    LET i      == <<e, payee[e]>>
        direct == token = "oneStep"
    IN  /\ token # "demo"
        /\ step[e] = "gathered"
        /\ inputs[e] \subseteq pot
        /\ Amount(inputs[e]) >= Needed(e)
        /\ Exchange(inputs[e], Change(inputs[e], e))
        /\ payout' = [payout EXCEPT ![i] = IF direct THEN "accepted" ELSE "pending"]
        /\ step' = [step EXCEPT ![e] = IF direct THEN "payout" ELSE "accepting"]
        /\ due' = [due EXCEPT ![e] = @ \ {payee[e]}]
        /\ disturbed' = disturbed \cup Disturbs(inputs[e], e)
        /\ Publish(OfPot(Change(inputs[e], e))
                     \cup {IF direct THEN Received(i) ELSE Instruction(i)}, OfPot(inputs[e]))
        /\ inputs' = [inputs EXCEPT ![e] = {}]
        /\ payee' = [payee EXCEPT ![e] = IF direct THEN NoPayee ELSE @]
        /\ UNCHANGED <<token, rowVars>>

(* Holdings are picked until they cover the shares of all attendees. *)
Picks(e) ==
    {H \in SUBSET inputs[e] :
        /\ Amount(H) >= Needed(e)
        /\ \E h \in H : Amount(H \ {h}) < Needed(e)}

(* Mutant: what the picked holdings are worth beyond the shares is lost. *)
Mint_NoChange(e, H) ==
    /\ token = "demo"
    /\ step[e] = "gathered"
    /\ H \in Picks(e) /\ H \subseteq pot
    /\ Exchange(H, {})
    /\ payout' = [i \in Transfers |-> IF i \in Aimed(e) THEN "accepted" ELSE payout[i]]
    /\ step' = [step EXCEPT ![e] = "payout"]
    /\ due' = [due EXCEPT ![e] = {}]
    /\ disturbed' = disturbed \cup Disturbs(H, e)
    /\ Publish({Received(i) : i \in Aimed(e)}, OfPot(H))
    /\ inputs' = [inputs EXCEPT ![e] = {}]
    /\ payee' = [payee EXCEPT ![e] = NoPayee]
    /\ UNCHANGED <<token, rowVars>>

(* The demo token: its issuer archives what was picked and mints the shares  *)
(* and the change, in one transaction.                                       *)
Mint(e, H) ==
    /\ token = "demo"
    /\ step[e] = "gathered"
    /\ H \in Picks(e) /\ H \subseteq pot
    /\ Exchange(H, Change(H, e))
    /\ payout' = [i \in Transfers |-> IF i \in Aimed(e) THEN "accepted" ELSE payout[i]]
    /\ step' = [step EXCEPT ![e] = "payout"]
    /\ due' = [due EXCEPT ![e] = {}]
    /\ disturbed' = disturbed \cup Disturbs(H, e)
    /\ Publish(OfPot(Change(H, e)) \cup {Received(i) : i \in Aimed(e)}, OfPot(H))
    /\ inputs' = [inputs EXCEPT ![e] = {}]
    /\ payee' = [payee EXCEPT ![e] = NoPayee]
    /\ UNCHANGED <<token, rowVars>>

(* Mutant: the first payout that fails ends the loop. *)
PayoutFails_Last(e) ==
    /\ step[e] = "gathered"
    /\ step' = [step EXCEPT ![e] = "payout"]
    /\ due' = [due EXCEPT ![e] = {}]
    /\ disturbed' = IF inputs[e] \subseteq pot /\ Amount(inputs[e]) >= Needed(e)
                    THEN disturbed \cup Aimed(e) ELSE disturbed
    /\ inputs' = [inputs EXCEPT ![e] = {}]
    /\ payee' = [payee EXCEPT ![e] = NoPayee]
    /\ UNCHANGED <<ledgerVars, rowVars, feedVars>>

(* The submission is refused, because a holding is gone or for a reason of   *)
(* the registry's or the ledger's.  It is logged and the loop goes on.       *)
PayoutFails(e) ==
    /\ step[e] = "gathered"
    /\ step' = [step EXCEPT ![e] = "payout"]
    /\ due' = [due EXCEPT ![e] = {p \in @ : <<e, p>> \notin Aimed(e)}]
    /\ disturbed' = IF inputs[e] \subseteq pot /\ Amount(inputs[e]) >= Needed(e)
                    THEN disturbed \cup Aimed(e) ELSE disturbed
    /\ inputs' = [inputs EXCEPT ![e] = {}]
    /\ payee' = [payee EXCEPT ![e] = NoPayee]
    /\ UNCHANGED <<ledgerVars, rowVars, feedVars>>

(* The request dies; the one that resumes it pays nobody (see Settlement).   *)
Die(e) ==
    /\ step[e] # "open" /\ due[e] # {}
    /\ step' = [step EXCEPT ![e] = "payout"]
    /\ due' = [due EXCEPT ![e] = {}]
    /\ disturbed' = disturbed \cup ({e} \X due[e])
    /\ inputs' = [inputs EXCEPT ![e] = {}]
    /\ payee' = [payee EXCEPT ![e] = NoPayee]
    /\ UNCHANGED <<ledgerVars, rowVars, feedVars>>

-------------------------------------------------------------------------------
(* The receivers *)

(* A transfer that is none of the pot's is offered to an attendee.  (A       *)
(* bound: before any event closes; it may be accepted at any time.)          *)
Arrive ==
    /\ \A e \in Events : step[e] = "open"
    /\ payout[Deposit] = "none"
    /\ payout' = [payout EXCEPT ![Deposit] = "pending"]
    /\ Publish({Instruction(Deposit)}, {})
    /\ UNCHANGED <<token, pot, minted, runnerVars, rowVars>>

Accepted(i) ==
    /\ payout[i] = "pending"
    /\ payout' = [payout EXCEPT ![i] = "accepted"]
    /\ Publish({Received(i)}, {Instruction(i)})
    /\ UNCHANGED <<token, pot, minted, rowVars>>

(* The payout runner accepts for the receiver; if that fails, because the    *)
(* deposit acceptor was first or for another reason, the offer is left.      *)
AcceptPayout(e) ==
    /\ step[e] = "accepting"
    /\ Accepted(<<e, payee[e]>>) \/ UNCHANGED <<ledgerVars, rowVars, feedVars>>
    /\ step' = [step EXCEPT ![e] = "payout"]
    /\ payee' = [payee EXCEPT ![e] = NoPayee]
    /\ UNCHANGED <<due, inputs, disturbed>>

(* The deposit acceptor, or the receiver's own wallet. *)
Accept(i) == Accepted(i) /\ UNCHANGED runnerVars

(* A receiver's wallet may refuse, and the amount is the sender's again. *)
Reject(i) ==
    LET back == {[id |-> <<"pot", minted + 1>>, amount |-> Share(i[1])]}
    IN  /\ payout[i] = "pending"
        /\ payout' = [payout EXCEPT ![i] = "rejected"]
        /\ Exchange({}, back)
        /\ Publish(OfPot(back), {Instruction(i)})
        /\ UNCHANGED <<token, runnerVars, rowVars>>

-------------------------------------------------------------------------------
(* The indexer *)

(* E15: only the pot's own holdings are tracked. *)
Tracked(u) == {[id |-> c.id, amount |-> c.amount] :
                  c \in {x \in u.created : x.kind = "holding" /\ x.owner = "pot"}}

(* E15b: of the archived contracts those that it remembers. *)
Gone(u) == {c.id : c \in u.archived} \cap known

(* Mutant: every transfer is taken for a payout. *)
Offered_Any(u) == {c \in u.created : c.kind = "transfer"}

(* E13: only what leaves the pot is a payout. *)
Offered(u) == {c \in u.created : c.kind = "transfer" /\ c.sender = "pot"}

(* Mutant: the insert overwrites the row that is there. *)
PayoutRow_Upsert(i, u) ==
    IF \E c \in Offered(u) : c.id = i /\ c.stamped THEN "offered"
    ELSE IF payoutRows[i] # "none" /\ \E c \in u.archived : c.kind = "transfer" /\ c.id = i
         THEN "accepted" ELSE payoutRows[i]

(* E13 inserts a row unless there is one, E14 updates it if there is one:    *)
(* any archive of the instruction counts as acceptance.                      *)
PayoutRow(i, u) ==
    IF payoutRows[i] = "none"
    THEN IF \E c \in Offered(u) : c.id = i /\ c.stamped THEN "offered" ELSE "none"
    ELSE IF \E c \in u.archived : c.kind = "transfer" /\ c.id = i
         THEN "accepted" ELSE payoutRows[i]

Project ==
    LET u == Head(queue)
    IN  /\ queue # <<>>
        /\ potRows' = {h \in potRows \cup Tracked(u) : h.id \notin Gone(u)}
        /\ known' = (known \cup {h.id : h \in Tracked(u)}) \ Gone(u)
        /\ payoutRows' = [i \in Transfers |-> PayoutRow(i, u)]
        /\ unattributed' = unattributed \cup {c.id : c \in {x \in Offered(u) : ~x.stamped}}
        /\ queue' = Tail(queue)
        /\ IF stale > 0
           THEN resend' = Tail(resend) /\ stale' = stale - 1
           ELSE resend' = Tail(queue) /\ stale' = 0
        /\ UNCHANGED <<ledgerVars, runnerVars>>

(* The connection drops, and the new one repeats what is still queued. *)
Reconnect ==
    /\ queue # <<>>
    /\ queue = resend
    /\ Len(queue) + Len(resend) <= MaxQueue
    /\ queue' = queue \o resend
    /\ stale' = Len(queue)
    /\ UNCHANGED <<ledgerVars, runnerVars, rowVars, resend>>

(* Mutant: the pot's holdings are not read back. *)
Restart_Forgets ==
    /\ queue' = resend
    /\ stale' = 0
    /\ known' = {}
    /\ UNCHANGED <<ledgerVars, runnerVars, potRows, payoutRows, unattributed, resend>>

(* The indexer starts again, with the rows it has committed. *)
Restart ==
    /\ queue' = resend
    /\ stale' = 0
    /\ known' = {h.id : h \in potRows}
    /\ UNCHANGED <<ledgerVars, runnerVars, potRows, payoutRows, unattributed, resend>>

(* The payout column of the results page. *)
Shown(i) == IF payoutRows[i] = "none" THEN "nothing" ELSE payoutRows[i]

-------------------------------------------------------------------------------
PotInit ==
    /\ token \in {"demo", "oneStep", "twoStep", "unstamped"}
    /\ pot = {}
    /\ minted = 0
    /\ payout = [i \in Transfers |-> "none"]
    /\ step = [e \in Events |-> "open"]
    /\ due = [e \in Events |-> {}]
    /\ payee = [e \in Events |-> NoPayee]
    /\ inputs = [e \in Events |-> {}]
    /\ disturbed = {}
    /\ potRows = {}
    /\ known = {}
    /\ payoutRows = [i \in Transfers |-> "none"]
    /\ unattributed = {}
    /\ queue = <<>>
    /\ resend = <<>>
    /\ stale = 0

Runner(e) ==
    \/ CloseEvent(e)
    \/ \E p \in due[e] : Gather(e, p)
    \/ Transfer(e)
    \/ \E H \in SUBSET inputs[e] : Mint(e, H)
    \/ PayoutFails(e)
    \/ AcceptPayout(e)
    \/ Die(e)

PotNext ==
    \/ \E e \in Events : Runner(e)
    \/ Arrive
    \/ \E i \in Transfers : Accept(i)
    \/ \E i \in Payouts : Reject(i)
    \/ Project
    \/ Reconnect
    \/ Restart

PotSpec == PotInit /\ [][PotNext]_potVars

-------------------------------------------------------------------------------
(* Properties *)

Holdings == [id : {"pot"} \X (1..minted), amount : Nat \ {0}]

PayoutStates == {"none", "offered", "accepted"}

PotTypeOK ==
    /\ token \in {"demo", "oneStep", "twoStep", "unstamped"}
    /\ pot \subseteq Holdings
    /\ payout \in [Transfers -> {"none", "pending", "accepted", "rejected"}]
    /\ step \in [Events -> {"open", "payout", "gathered", "accepting"}]
    /\ \A e \in Events : due[e] \subseteq Came[e] /\ inputs[e] \subseteq Holdings
    /\ disturbed \subseteq Payouts
    /\ potRows \subseteq Holdings
    /\ payoutRows \in [Transfers -> PayoutStates]
    /\ unattributed \subseteq Transfers
    /\ Len(queue) <= MaxQueue /\ stale \in 0..Len(queue)

Closed == {e \in Events : step[e] # "open"}

PaidOut == {i \in Payouts : payout[i] \in {"pending", "accepted"}}

(* What the closed events' no-shows forfeited is in the pot, on offer or     *)
(* paid out: no payout makes or loses money, neither by its change nor       *)
(* because two events spend the same holdings.                               *)
NothingLost ==
    Amount(pot) + SumFunction([i \in PaidOut |-> Share(i[1])])
        = SumFunction([e \in Closed |-> Forfeited(e)])

(* The pot always covers what the closing events have still to pay, although *)
(* all events share it and each takes what holdings it finds.                *)
PotCovers ==
    SumFunction([e \in Closed |->
                   IF due[e] = {} THEN 0 ELSE Share(e) * Cardinality(due[e])])
        <= Amount(pot)

(* Once a payout runner is through, everybody who came has been paid or      *)
(* offered the share, except where the request died, the registry refused,   *)
(* or another event spent the holdings under it: one payout that fails       *)
(* strands no other.                                                         *)
PaidUnlessDisturbed ==
    \A e \in Closed : step[e] = "payout" /\ due[e] = {} =>
        \A p \in Payees(e) : payout[<<e, p>>] # "none" \/ <<e, p>> \in disturbed

(* The pot_balances view is right once the indexer has caught up, after      *)
(* restarts and updates that were handled twice.                             *)
PotRowsFaithful == queue = <<>> => potRows = pot

(* Every payout that was offered has a row, or is logged as unattributed,    *)
(* and no other transfer has; the results page shows one as accepted only    *)
(* after its instruction is gone.  (It also does so when it was rejected.)   *)
PayoutRowsFaithful ==
    /\ Shown(Deposit) = "nothing" /\ Deposit \notin unattributed
    /\ \A i \in Payouts :
          /\ Shown(i) = "accepted" => payout[i] \in {"accepted", "rejected"}
          /\ queue = <<>> /\ payout[i] # "none" =>
                CASE token = "twoStep" ->
                       Shown(i) = IF payout[i] = "pending" THEN "offered" ELSE "accepted"
                  [] token = "unstamped" -> Shown(i) = "nothing" /\ i \in unattributed
                  [] OTHER -> Shown(i) = "nothing" /\ i \notin unattributed

(* A payout that the results page shows as accepted never goes back to       *)
(* offered, though its create may be handled again.                          *)
AcceptedStays ==
    [][\A i \in Transfers : Shown(i) = "accepted" => Shown(i)' = "accepted"]_potVars
=============================================================================
