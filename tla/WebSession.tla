------------------------------ MODULE WebSession ------------------------------
(***************************************************************************)
(* Who is signed in, in one browser tab (web/src/components): the          *)
(* SessionProvider with its route guard, AuthForms, the AccountMenu's      *)
(* logout, and the BalancePill.  The server keeps no sessions: a signed    *)
(* cookie names the account and expires after a day.                       *)
(*                                                                         *)
(* All the tab knows of the server is in the cache of SWR, under one key   *)
(* per path and not per account.  Of a key only the answer of the latest   *)
(* fetch counts, and none that was sent before the key was written to.     *)
(* While the last answer was an error a key is not polled, and with        *)
(* shouldRetryOnError off nothing else asks again.                         *)
(*                                                                         *)
(* The keys are the session and the balances, which are polled, and the    *)
(* list of events, which is not.                                            *)
(***************************************************************************)
EXTENDS Accounts

CONSTANTS
    Mine        \* the registrations that this tab starts

ASSUME WebSessionConstants == Mine \subseteq Registers

VARIABLES
    open,       \* whether the tab is there
    cookie,     \* the account of the browser's cookie
    cache,      \* cache[k]: whose data key k holds, and the last error
    fetch,      \* fetch[k]: the fetch of k whose answer counts
    op,         \* the POST or revalidation that a form or the menu waits for
    path,       \* "login" or "events"
    pill,       \* what the BalancePill rendered last, and its baseline
    falseFlash  \* history: it compared the amounts of two accounts

tabVars == <<open, cache, fetch, op, path, pill, falseFlash>>
webVars == <<acctVars, cookie, tabVars>>

Keys == {"session", "balances", "events"}

Empty   == [owner |-> None, err |-> "none"]
Quiet   == [at |-> "idle", email |-> None]
NoFetch == [sent |-> FALSE, as |-> None]

-------------------------------------------------------------------------------
(* What the components see *)

(* A 401 counts more than the data that SWR still holds. *)
SessionUser == IF cache["session"].err = "denied" THEN None
               ELSE cache["session"].owner

IsLoading == cache["session"].owner = None /\ fetch["session"].sent

(* The hooks that are there: null is the key of the balances for nobody. *)
Mounted(k) ==
    \/ k = "session"
    \/ k = "balances" /\ pill.user # None
    \/ k = "events" /\ path = "events"

-------------------------------------------------------------------------------
(* SWR *)

Sent(f, K) == [k \in Keys |-> IF k \in K THEN [sent |-> TRUE, as |-> cookie'] ELSE f[k]]

Polled == {"session", "balances"}

(* Mutant: the session is not polled. *)
PollAgain_Balances(k) ==
    /\ k = "balances"
    /\ Mounted(k)
    /\ ~fetch[k].sent
    /\ cache[k].err = "none"
    /\ UNCHANGED cookie
    /\ fetch' = Sent(fetch, {k})
    /\ UNCHANGED <<acctVars, open, cache, op, path, pill, falseFlash>>

PollAgain(k) ==
    /\ k \in Polled
    /\ Mounted(k)
    /\ ~fetch[k].sent
    /\ cache[k].err = "none"
    /\ UNCHANGED cookie
    /\ fetch' = Sent(fetch, {k})
    /\ UNCHANGED <<acctVars, open, cache, op, path, pill, falseFlash>>

(* ReceiveSheet: the faucet has minted demo tokens, and has the balances     *)
(* fetched if they are shown, whoever is signed in by then.                  *)
GetTestTokens ==
    /\ Mounted("balances")
    /\ UNCHANGED cookie
    /\ fetch' = Sent(fetch, {"balances"})
    /\ UNCHANGED <<acctVars, open, cache, op, path, pill, falseFlash>>

(* Data stay when an error comes.  Of the balances and the list the error is *)
(* left out: a poll more or less of them decides nothing.                    *)
Failed(k, err) == IF k = "session" THEN [cache[k] EXCEPT !.err = err] ELSE cache[k]

AnswerOf(k) == IF fetch[k].as = None THEN Failed(k, "denied")
               ELSE [owner |-> fetch[k].as, err |-> "none"]

(* revalidateAll goes on when the session has answered, and before any other *)
(* answer is taken.                                                          *)
AnswerTo(k, a) ==
    /\ fetch[k].sent
    /\ op.at # "clear"
    /\ cache' = [cache EXCEPT ![k] = a]
    /\ fetch' = [fetch EXCEPT ![k] = NoFetch]
    /\ op' = IF k = "session" /\ op.at = "session" THEN [op EXCEPT !.at = "clear"] ELSE op
    /\ UNCHANGED <<acctVars, open, cookie, path, pill, falseFlash>>

Answer(k)      == AnswerTo(k, AnswerOf(k))
AnswerFails(k) == AnswerTo(k, Failed(k, "down"))

-------------------------------------------------------------------------------
(* Forms, menu, and what they do with the cache *)

(* AuthForms.submit and DevQuickLogin. *)
SubmitLogin(e) ==
    /\ path = "login"
    /\ op = Quiet
    /\ users[e] # None
    /\ op' = [at |-> "login", email |-> e]
    /\ UNCHANGED <<acctVars, open, cookie, cache, fetch, path, pill, falseFlash>>

SubmitRegister(g, e) ==
    /\ path = "login"
    /\ op = Quiet
    /\ StartRegister(g, e)
    /\ op' = [at |-> "register", email |-> e]
    /\ UNCHANGED <<open, cookie, cache, fetch, path, pill, falseFlash>>

(* The answer sets the cookie; revalidateAll begins with the session. *)
SignedIn(e) ==
    /\ cookie' = e
    /\ fetch' = Sent(fetch, {"session"})
    /\ op' = [at |-> "session", email |-> e]
    /\ UNCHANGED <<open, cache, path, pill, falseFlash>>

LoggedIn ==
    /\ op.at = "login"
    /\ SignedIn(op.email)
    /\ UNCHANGED acctVars

(* Mutant: the cookie is set though the row could not be inserted. *)
Registered_NotInserted(g) ==
    /\ op.at = "register"
    /\ RegisterFails(g)
    /\ SignedIn(op.email)

Registered(g) ==
    /\ op.at = "register"
    /\ InsertUser(g)
    /\ SignedIn(op.email)

(* The POST of the form failed, or its answer was lost. *)
FormFails ==
    /\ op.at = "login" \/ (op.at = "register" /\ \A g \in Mine : register[g] = Away)
    /\ op' = Quiet
    /\ UNCHANGED <<acctVars, open, cookie, cache, fetch, path, pill, falseFlash>>

SubmitLogout ==
    /\ SessionUser # None
    /\ op = Quiet
    /\ op' = [at |-> "logout", email |-> None]
    /\ UNCHANGED <<acctVars, open, cookie, cache, fetch, path, pill, falseFlash>>

(* Everything is forgotten, and asked for again where it is shown. *)
Forget(to) ==
    /\ path' = to
    /\ UNCHANGED <<acctVars, open, pill, falseFlash>>
    /\ cache' = [k \in Keys |-> Empty]
    /\ fetch' = Sent([k \in Keys |-> NoFetch], {k \in Keys : Mounted(k) \/ Mounted(k)'})
    /\ op' = Quiet

(* Mutant: only the session is asked for again. *)
Revalidated_SessionOnly ==
    /\ op.at = "clear"
    /\ op' = Quiet
    /\ path' = "events"
    /\ UNCHANGED <<acctVars, open, cookie, cache, fetch, pill, falseFlash>>

Revalidated ==
    /\ op.at = "clear"
    /\ UNCHANGED cookie
    /\ Forget("events")

(* Also when the POST failed, and the cookie is still there. *)
LoggedOut ==
    /\ op.at = "logout"
    /\ cookie' \in {None, cookie}
    /\ Forget("login")

-------------------------------------------------------------------------------
(* A render and its effects come before the next answer or click, but not    *)
(* before revalidateAll goes on.  The pill compares amounts before it forgets *)
(* those of another user, and a hook that was not there asks for its key.    *)
Balances == IF SessionUser = None THEN None ELSE cache["balances"].owner

Stale == pill.user # SessionUser \/ pill.owner # Balances

Switching == op.at \in {"session", "clear"}

Compares == /\ ~Switching
            /\ Balances \notin {None, pill.owner}
            /\ pill.user = SessionUser
            /\ pill.base \notin {None, Balances}

Baseline == IF Balances \in {None, pill.owner} THEN pill.base ELSE Balances

PillShows(base) == pill' = [user |-> SessionUser, owner |-> Balances, base |-> base]

(* Mutant: the baseline is that of the last user. *)
ResetBaseline_Never == PillShows(Baseline)

ResetBaseline == PillShows(IF pill.user = SessionUser THEN Baseline ELSE None)

Render ==
    /\ Stale
    /\ ResetBaseline
    /\ falseFlash' = (falseFlash \/ Compares)
    /\ UNCHANGED cookie
    /\ fetch' = Sent(fetch, IF Mounted("balances")' /\ ~Mounted("balances") /\ ~fetch["balances"].sent
                            THEN {"balances"} ELSE {})
    /\ UNCHANGED <<acctVars, open, cache, op, path>>

(* The guard sends the tab to the form, and the form away again. *)
Navigate ==
    /\ path' = CASE path = "events" /\ SessionUser = None /\ ~IsLoading -> "login"
                 [] path = "login" /\ SessionUser # None -> "events"
                 [] OTHER -> path
    /\ path' # path
    /\ UNCHANGED cookie
    /\ fetch' = Sent(fetch, IF path' = "events" /\ ~fetch["events"].sent THEN {"events"} ELSE {})
    /\ UNCHANGED <<acctVars, open, cache, op, pill, falseFlash>>

-------------------------------------------------------------------------------
(* After a day. *)
Expire ==
    /\ cookie # None
    /\ cookie' = None
    /\ UNCHANGED <<acctVars, tabVars>>

Tab ==
    \/ /\ ~Stale
       /\ \/ \E k \in Keys : PollAgain(k) \/ Answer(k) \/ AnswerFails(k)
          \/ \E e \in Emails : SubmitLogin(e) \/ \E g \in Mine : SubmitRegister(g, e)
          \/ GetTestTokens
          \/ LoggedIn
          \/ \E g \in Mine : Registered(g)
          \/ FormFails
          \/ SubmitLogout
          \/ LoggedOut
          \/ Navigate
    \/ Render
    \/ Revalidated
    \/ Expire

(* Bound: other registrations, tokens and the acceptor go their way when the *)
(* tab is closed.  It shares nothing with them but the accounts.             *)
Elsewhere ==
    \/ \E g \in Registers : RegisterStep(g) \/ \E e \in Emails : StartRegister(g, e)
    \/ Deposits
    \/ Acceptor

Server ==
    /\ \/ open /\ \E g \in Mine : RegisterStep(g)
       \/ ~open /\ Elsewhere
       \/ ServerRestarts
    /\ UNCHANGED <<cookie, tabVars>>

WebInit ==
    /\ AccountsInit
    /\ open \in BOOLEAN
    /\ cookie \in IF open THEN DOMAIN Demo \cup {None} ELSE {None}
    /\ cache = [k \in Keys |-> Empty]
    /\ fetch = [k \in Keys |-> IF k = "session" THEN [sent |-> TRUE, as |-> cookie] ELSE NoFetch]
    /\ op = Quiet
    /\ path = "login"
    /\ pill = [user |-> None, owner |-> None, base |-> None]
    /\ falseFlash = FALSE

WebNext == (open /\ Tab) \/ Server

(* The network answers, a timer polls, and React renders. *)
TabFairness ==
    /\ SF_webVars(open /\ ~Stale /\ PollAgain("session"))
    /\ SF_webVars(open /\ ~Stale /\ (Answer("session") \/ AnswerFails("session")))
    /\ WF_webVars(open /\ (Render \/ Revalidated))

(* The acceptor runs on a timer, is not always restarted before it has asked *)
(* for a party's offers, and some of its attempts succeed.                   *)
AcceptorFairness ==
    /\ WF_acctVars(~open /\ (Sweep \/ \E p \in Parties : SweepParty(p)))
    /\ \A o \in Offers : /\ SF_acctVars(~open /\ SweepParty(offer[o].party))
                         /\ WF_acctVars(~open /\ (Ignore(o) \/ Accept(o) \/ AcceptFails(o)))
                         /\ SF_acctVars(~open /\ Accept(o))

WebSpec == WebInit /\ [][WebNext]_webVars /\ TabFairness /\ AcceptorFairness

-------------------------------------------------------------------------------
(* Properties *)

(* Types; whoever the cookie or the session names has an account.            *)
WebTypeOK ==
    /\ AccountsTypeOK
    /\ cookie \in Emails \cup {None}
    /\ \A k \in Keys : /\ cache[k] \in [owner : Emails \cup {None}, err : {"none", "denied", "down"}]
                      /\ fetch[k] \in [sent : BOOLEAN, as : Emails \cup {None}]
    /\ op.at \in {"idle", "login", "register", "session", "clear", "logout"}
    /\ path \in {"login", "events"}
    /\ \A e \in {cookie, cache["session"].owner} \ {None} : users[e] # None

(* After a change of account, by any order of expiry, failed logout, late    *)
(* answers and polls, the tab shows nobody else's balances or events under   *)
(* the name of the user it shows (revalidateAll's comment).                  *)
OwnDataOnly ==
    SessionUser # None /\ ~Switching =>
       /\ cache["balances"].owner \in {None, SessionUser}
       /\ path = "events" => cache["events"].owner \in {None, SessionUser}

(* The pill flashes for what the account got or lost, and never because it   *)
(* compares the amounts of two accounts (BalancePill's comment), but for the *)
(* moment in which revalidateAll waits for the session.                      *)
NoFalseFlash == ~falseFlash

Stuck == cache["session"].err # "none" /\ ~fetch["session"].sent

(* The tab comes to show the account of the cookie, or nobody when it        *)
(* expired, unless the poll of the session ends with an error.               *)
SessionFollows ==
    (open /\ SessionUser # cookie) ~> (SessionUser = cookie \/ Stuck)
=============================================================================
