----------------------------- MODULE AccountProofs -----------------------------
(***************************************************************************)
(* The accounts, for any number of emails, parties and registrations at    *)
(* once, with whatever the browser does in between; and the tab, which may *)
(* hold data of two accounts only while it changes from one to the other.  *)
(***************************************************************************)
EXTENDS WebSession, TLAPS

Registration == [at : {"idle", "allocate", "insert"},
                 email : Emails \cup {None}, party : Parties \cup {None}]

Inserting(g) == register[g].at = "insert"

(* What makes PartyForLife inductive: a party that a registration is about   *)
(* to insert is on the ledger, and belongs neither to an account nor to      *)
(* another registration.                                                     *)
Registry ==
    /\ users \in [Emails -> Parties \cup {None}]
    /\ register \in [Registers -> Registration]
    /\ \A e \in Emails : users[e] # None => users[e] \in allocated
    /\ \A e, f \in Emails : users[e] # None /\ users[e] = users[f] => e = f
    /\ \A g \in Registers : Inserting(g) =>
          /\ register[g].email \in Emails
          /\ register[g].party \in allocated
          /\ register[g].party # None
          /\ \A e \in Emails : users[e] # register[g].party
    /\ \A g, h \in Registers :
          Inserting(g) /\ Inserting(h) /\ register[g].party = register[h].party => g = h
    /\ \A g \in Registers : register[g].at = "allocate" => register[g].email \in Emails

LEMMA RegistryInit == WebInit => Registry
<1> SUFFICES ASSUME WebInit PROVE Registry
  OBVIOUS
<1> USE AccountsConstants
<1>1. \A g \in Registers : register[g] = Away
  BY DEF WebInit, AccountsInit
<1>2. register \in [Registers -> Registration]
  BY DEF WebInit, AccountsInit, Away, Registration
<1>3. users = [e \in Emails |-> IF e \in DOMAIN Demo THEN Demo[e] ELSE None]
      /\ allocated = {Demo[e] : e \in DOMAIN Demo}
  BY DEF WebInit, AccountsInit
<1> QED
  BY <1>1, <1>2, <1>3 DEF Registry, Inserting, Away

(* The four steps of a registration. *)
LEMMA StartStep ==
    ASSUME Registry, NEW g \in Registers, NEW e \in Emails, StartRegister(g, e)
    PROVE  Registry'
<1>1. register' = [register EXCEPT ![g] = [at |-> "allocate", email |-> e, party |-> None]]
      /\ UNCHANGED <<users, allocated>>
  BY DEF StartRegister
<1>2. /\ register'[g] = [at |-> "allocate", email |-> e, party |-> None]
      /\ \A h \in Registers : h # g => register'[h] = register[h]
      /\ register' \in [Registers -> Registration]
  BY <1>1 DEF Registry, Registration
<1> QED
  BY <1>1, <1>2 DEF Registry, Inserting

LEMMA AllocateStep ==
    ASSUME Registry, NEW g \in Registers, AllocateParty(g)
    PROVE  Registry'
<1>1. PICK p \in Parties \ allocated :
         /\ allocated' = allocated \cup {p}
         /\ \/ register' = [register EXCEPT ![g].at = "insert", ![g].party = p]
            \/ UNCHANGED register
  BY DEF AllocateParty
<1>2. p # None /\ users' = users /\ register[g].at = "allocate" /\ register[g].email \in Emails
  BY AccountsConstants DEF AllocateParty, Registry
<1>3. \A e \in Emails : users[e] # p
  BY <1>1, <1>2 DEF Registry
<1>4. CASE UNCHANGED register
  BY <1>1, <1>2, <1>4 DEF Registry, Inserting
<1>5. CASE register' = [register EXCEPT ![g].at = "insert", ![g].party = p]
  <2>1. /\ register'[g].at = "insert" /\ register'[g].party = p
        /\ register'[g].email = register[g].email
        /\ \A h \in Registers : h # g => register'[h] = register[h]
        /\ register' \in [Registers -> Registration]
    BY <1>5 DEF Registry, Registration
  <2> QED
    BY <1>1, <1>2, <1>3, <2>1 DEF Registry, Inserting
<1> QED
  BY <1>1, <1>4, <1>5

LEMMA InsertStep ==
    ASSUME Registry, NEW g \in Registers, InsertUser(g)
    PROVE  /\ Registry'
           /\ \A e \in Emails : users[e] # None => users'[e] = users[e]
<1> DEFINE e0 == register[g].email
           p0 == register[g].party
<1>1. /\ Inserting(g) /\ users[e0] = None
      /\ users' = [users EXCEPT ![e0] = p0]
      /\ register' = [register EXCEPT ![g] = Away]
      /\ allocated' = allocated
  BY DEF InsertUser, Inserts, Inserting
<1>2. /\ e0 \in Emails /\ p0 \in allocated /\ p0 # None /\ p0 \in Parties
      /\ \A e \in Emails : users[e] # p0
  BY <1>1 DEF Registry, Registration
<1>3. /\ users'[e0] = p0
      /\ \A e \in Emails : e # e0 => users'[e] = users[e]
      /\ users' \in [Emails -> Parties \cup {None}]
  BY <1>1, <1>2 DEF Registry
<1>4. /\ ~Inserting(g)' /\ register'[g].at = "idle"
      /\ \A h \in Registers : h # g => register'[h] = register[h]
      /\ register' \in [Registers -> Registration]
  BY <1>1 DEF Registry, Registration, Away, Inserting
<1>5. \A h \in Registers : h # g /\ Inserting(h) => register[h].party # p0
  BY <1>1 DEF Registry
<1> HIDE DEF e0, p0
<1>6. \A e, f \in Emails : users'[e] # None /\ users'[e] = users'[f] => e = f
  BY <1>2, <1>3 DEF Registry
<1>7. \A h \in Registers : Inserting(h)' =>
          /\ h # g /\ Inserting(h) /\ register'[h] = register[h]
          /\ \A e \in Emails : users'[e] # register[h].party
  BY <1>2, <1>3, <1>4, <1>5 DEF Registry, Inserting
<1>8. \A e \in Emails : users'[e] # None => users'[e] \in allocated'
  BY <1>1, <1>2, <1>3 DEF Registry
<1>9. \A h \in Registers : register'[h].at = "allocate" => register'[h].email \in Emails
  BY <1>4 DEF Registry
<1>10. \A h, k \in Registers :
          Inserting(h)' /\ Inserting(k)' /\ register'[h].party = register'[k].party => h = k
  BY <1>7 DEF Registry
<1>11. \A h \in Registers : Inserting(h)' =>
          /\ register'[h].email \in Emails
          /\ register'[h].party \in allocated'
          /\ register'[h].party # None
          /\ \A e \in Emails : users'[e] # register'[h].party
  BY <1>1, <1>7 DEF Registry
<1> QED
  BY <1>1, <1>2, <1>3, <1>4, <1>6, <1>8, <1>9, <1>10, <1>11 DEF Registry

LEMMA FailStep ==
    ASSUME Registry, users' = users, allocated' = allocated,
           register' \in [Registers -> Registration],
           \A h \in Registers : register'[h] \in {Away, register[h]}
    PROVE  Registry'
<1>1. \A h \in Registers : register'[h].at # "idle" => register'[h] = register[h]
  BY DEF Away
<1> QED
  BY <1>1 DEF Registry, Inserting

(* The rest of the server, and the tab, leave accounts alone. *)
LEMMA RegistryStep ==
    Registry /\ [WebNext]_webVars =>
        Registry' /\ \A e \in Emails : users[e] # None => users'[e] = users[e]
<1> SUFFICES ASSUME Registry, [WebNext]_webVars
             PROVE  Registry' /\ \A e \in Emails : users[e] # None => users'[e] = users[e]
  OBVIOUS
<1>1. CASE UNCHANGED <<users, allocated, register>>
  BY <1>1 DEF Registry, Inserting
<1>2. ASSUME NEW g \in Registers, RegisterFails(g)
      PROVE  Registry' /\ users' = users
  <2>1. /\ register' = [register EXCEPT ![g] = Away]
        /\ users' = users /\ allocated' = allocated
    BY <1>2 DEF RegisterFails
  <2>2. register' \in [Registers -> Registration]
    BY <2>1 DEF Registry, Registration, Away
  <2> QED
    BY <2>1, <2>2, FailStep DEF Registry
<1>3. ASSUME NEW g \in Registers, RegisterStep(g)
      PROVE  Registry' /\ \A e \in Emails : users[e] # None => users'[e] = users[e]
  BY <1>2, <1>3, AllocateStep, InsertStep DEF RegisterStep, AllocateParty
<1>4. ASSUME NEW g \in Registers, NEW e \in Emails, StartRegister(g, e)
      PROVE  Registry' /\ users' = users
  BY <1>4, StartStep DEF StartRegister
<1>5. CASE ServerRestarts
  <2>1. /\ register' = [g \in Registers |-> Away]
        /\ users' = users /\ allocated' = allocated
    BY <1>5 DEF ServerRestarts
  <2>2. register' \in [Registers -> Registration]
    BY <2>1 DEF Registration, Away
  <2> QED
    BY <2>1, <2>2, FailStep
<1>6. CASE Tab
  <2>1. ASSUME NEW e \in Emails, NEW g \in Mine, SubmitRegister(g, e)
        PROVE  Registry' /\ users' = users
    BY <1>4, <2>1, WebSessionConstants DEF SubmitRegister
  <2>2. ASSUME NEW g \in Mine, Registered(g)
        PROVE  Registry' /\ \A e \in Emails : users[e] # None => users'[e] = users[e]
    BY <2>2, InsertStep, WebSessionConstants DEF Registered
  <2>3. CASE LoggedIn \/ LoggedOut \/ FormFails \/ SubmitLogout \/ GetTestTokens
             \/ Navigate \/ Render \/ Revalidated \/ Expire
    BY <1>1, <2>3 DEF LoggedIn, LoggedOut, FormFails, SubmitLogout, GetTestTokens,
          Navigate, Render, Revalidated, Expire, Forget, acctVars
  <2>4. ASSUME NEW e \in Emails, SubmitLogin(e)
        PROVE  UNCHANGED <<users, allocated, register>>
    BY <2>4 DEF SubmitLogin, acctVars
  <2>5. ASSUME NEW k \in Keys, PollAgain(k) \/ Answer(k) \/ AnswerFails(k)
        PROVE  UNCHANGED <<users, allocated, register>>
    BY <2>5 DEF PollAgain, Answer, AnswerFails, AnswerTo, acctVars
  <2> QED
    BY <1>1, <1>6, <2>1, <2>2, <2>3, <2>4, <2>5 DEF Tab
<1>7. CASE Deposits \/ Acceptor
  BY <1>1, <1>7 DEF Deposits, Deposit, AcceptedElsewhere, Acceptor, Sweep, SweepParty,
        Ignore, Accept, AcceptFails
<1>8. CASE Server
  BY <1>3, <1>4, <1>5, <1>7, <1>8, WebSessionConstants DEF Server, Elsewhere
<1>9. CASE UNCHANGED webVars
  BY <1>1, <1>9 DEF webVars, acctVars
<1> QED
  BY <1>6, <1>8, <1>9 DEF WebNext

(* However registrations overlap, are restarted, or lose an answer: an       *)
(* account keeps its party, and no two accounts share one.                   *)
THEOREM PartyKept == WebSpec => PartyForLife
<1>1. Registry /\ Registry' /\ [WebNext]_webVars =>
        [/\ \A e \in Emails : users[e] # None => users'[e] = users[e]
         /\ \A e, f \in Emails : users'[e] = users'[f] /\ users'[e] # None => e = f]_users
  <2> SUFFICES ASSUME Registry, Registry', [WebNext]_webVars
               PROVE  /\ \A e \in Emails : users[e] # None => users'[e] = users[e]
                      /\ \A e, f \in Emails : users'[e] = users'[f] /\ users'[e] # None => e = f
    OBVIOUS
  <2>1. \A e \in Emails : users[e] # None => users'[e] = users[e]
    BY RegistryStep
  <2> QED
    BY <2>1 DEF Registry
<1>2. Registry /\ [WebNext]_webVars => Registry'
  BY RegistryStep
<1> QED
  BY RegistryInit, <1>1, <1>2, PTL DEF WebSpec, PartyForLife

-------------------------------------------------------------------------------
(* The acceptor's offers *)

Offer == [at : {"none", "pending", "accepted"},
          party : Parties \cup {None}, known : BOOLEAN]

(* What the acceptor is about to visit or to accept is a user's.             *)
Offered ==
    /\ offer \in [Offers -> Offer]
    /\ seen \subseteq Offers /\ todo \subseteq Offers
    /\ visit \subseteq UserParties
    /\ \A o \in todo : offer[o].party \in UserParties /\ offer[o].at # "none"

LEMMA OfferedInit == AccountsInit => Offered
BY DEF AccountsInit, Offered, Offer, Gone

(* No account disappears, so what is a user's stays a user's.                *)
LEMMA OfferedKept ==
    ASSUME Registry, Offered, \A e \in Emails : users[e] # None => users'[e] = users[e],
           UNCHANGED <<offer, seen, visit, todo>>
    PROVE  Offered'
<1>1. UserParties \subseteq UserParties'
  BY DEF UserParties
<1> QED
  BY <1>1 DEF Offered

LEMMA OfferedStep == Registry /\ Offered /\ [WebNext]_webVars => Offered'
<1> SUFFICES ASSUME Registry, Offered, [WebNext]_webVars PROVE Offered'
  OBVIOUS
<1>1. CASE UNCHANGED <<offer, seen, visit, todo>>
  BY <1>1, OfferedKept, RegistryStep
<1>2. ASSUME NEW o \in Offers, Takes(o), users' = users, visit' = visit,
             seen' \subseteq Offers, todo' \subseteq todo
      PROVE  Offered'
  <2>1. offer' = [offer EXCEPT ![o].at = "accepted"]
    BY <1>2 DEF Takes
  <2>2. /\ offer' \in [Offers -> Offer]
        /\ \A q \in Offers : offer'[q].party = offer[q].party
        /\ \A q \in Offers : offer[q].at # "none" => offer'[q].at # "none"
    BY <2>1 DEF Offered, Offer
  <2>3. UserParties' = UserParties
    BY <1>2 DEF UserParties
  <2> QED
    BY <1>2, <2>2, <2>3 DEF Offered
<1>3. ASSUME NEW o \in Offers, AcceptedElsewhere(o) PROVE Offered'
  BY <1>2, <1>3 DEF AcceptedElsewhere, Offered
<1>4. ASSUME NEW o \in Offers, NEW p \in Parties, Deposit(o, p) PROVE Offered'
  <2>1. PICK known \in BOOLEAN :
           offer' = [offer EXCEPT ![o] = [at |-> "pending", party |-> p, known |-> known]]
    BY <1>4 DEF Deposit
  <2>2. /\ offer[o].at = "none"
        /\ UNCHANGED <<users, seen, visit, todo>>
    BY <1>4 DEF Deposit
  <2>3. o \notin todo
    BY <2>2 DEF Offered
  <2>4. /\ offer' \in [Offers -> Offer]
        /\ \A q \in Offers : q # o => offer'[q] = offer[q]
    BY <2>1 DEF Offered, Offer
  <2> QED
    BY <2>2, <2>3, <2>4 DEF Offered, UserParties
<1>5. CASE Sweep
  BY <1>5 DEF Sweep, Offered, UserParties
<1>6. ASSUME NEW p \in Parties, SweepParty(p) PROVE Offered'
  BY <1>6 DEF SweepParty, Offered, UserParties
<1>7. ASSUME NEW o \in Offers, Ignore(o) \/ AcceptFails(o) PROVE Offered'
  BY <1>7 DEF Ignore, AcceptFails, Offered, UserParties
<1>8. ASSUME NEW o \in Offers, Accept(o) PROVE Offered'
  <2>1. seen' \subseteq Offers
    BY <1>8 DEF Accept, Offered
  <2> QED
    BY <1>2, <1>8, <2>1 DEF Accept
<1>9. CASE ServerRestarts
  BY <1>9 DEF ServerRestarts, Offered
<1>10. ASSUME NEW g \in Registers,
              RegisterStep(g) \/ \E e \in Emails : StartRegister(g, e)
       PROVE  UNCHANGED <<offer, seen, visit, todo>>
  BY <1>10 DEF RegisterStep, AllocateParty, InsertUser, RegisterFails, StartRegister
<1>11. CASE Tab
  <2>1. ASSUME NEW e \in Emails, NEW g \in Mine, SubmitRegister(g, e)
        PROVE  UNCHANGED <<offer, seen, visit, todo>>
    BY <1>10, <2>1, WebSessionConstants DEF SubmitRegister
  <2>2. ASSUME NEW g \in Mine, Registered(g)
        PROVE  UNCHANGED <<offer, seen, visit, todo>>
    BY <1>10, <2>2, WebSessionConstants DEF Registered, RegisterStep
  <2>3. CASE LoggedIn \/ LoggedOut \/ FormFails \/ SubmitLogout \/ GetTestTokens
             \/ Navigate \/ Render \/ Revalidated \/ Expire
    BY <1>1, <2>3 DEF LoggedIn, LoggedOut, FormFails, SubmitLogout, GetTestTokens,
          Navigate, Render, Revalidated, Expire, Forget, acctVars
  <2>4. ASSUME NEW e \in Emails, SubmitLogin(e)
        PROVE  UNCHANGED <<offer, seen, visit, todo>>
    BY <2>4 DEF SubmitLogin, acctVars
  <2>5. ASSUME NEW k \in Keys, PollAgain(k) \/ Answer(k) \/ AnswerFails(k)
        PROVE  UNCHANGED <<offer, seen, visit, todo>>
    BY <2>5 DEF PollAgain, Answer, AnswerFails, AnswerTo, acctVars
  <2> QED
    BY <1>1, <1>11, <2>1, <2>2, <2>3, <2>4, <2>5 DEF Tab
<1>12. CASE Server
  BY <1>1, <1>3, <1>4, <1>5, <1>6, <1>7, <1>8, <1>9, <1>10, <1>12, WebSessionConstants
     DEF Server, Elsewhere, Deposits, Acceptor
<1>13. CASE UNCHANGED webVars
  BY <1>1, <1>13 DEF webVars, acctVars
<1> QED
  BY <1>11, <1>12, <1>13 DEF WebNext

-------------------------------------------------------------------------------
(* The tab *)

Nobody == Emails \cup {None}

Entry   == [owner : Nobody, err : {"none", "denied", "down"}]
Request == [sent : BOOLEAN, as : Nobody]

TabTypes ==
    /\ cookie \in Nobody
    /\ cache \in [Keys -> Entry]
    /\ fetch \in [Keys -> Request]
    /\ op \in [at : {"idle", "login", "register", "session", "clear", "logout"},
               email : Nobody]
    /\ path \in {"login", "events"}
    /\ pill \in [user : Nobody, owner : Nobody, base : Nobody]

HasAccount(e) == e # None => users[e] # None

(* Whoever is signed in, or about to be, has an account.                     *)
Known ==
    /\ HasAccount(cookie)
    /\ HasAccount(fetch["session"].as)
    /\ HasAccount(cache["session"].owner)
    /\ op.at = "login" => op.email \in Emails /\ HasAccount(op.email)
    /\ op.at = "register" => op.email \in Emails

(* A registration of this tab is the one that its form waits for.            *)
Form ==
    open => /\ \A g \in Mine : register[g] # Away =>
                  op = [at |-> "register", email |-> register[g].email]
            /\ \A g, h \in Mine : register[g] # Away /\ register[h] # Away => g = h

(* All that the tab shows, asked for or is signed in as is of one user,      *)
(* until a form signs in another, and again when revalidateAll is through.   *)
BelongsTo(u) ==
    /\ cookie \in {None, u}
    /\ \A k \in Keys : cache[k].owner \in {None, u} /\ fetch[k].as \in {None, u}

OneUser == ~Switching => \E u \in Nobody : BelongsTo(u)

(* The pill's baseline is an amount of the user it was rendered for.         *)
PillOwn ==
    /\ pill.user = None => pill.base = None
    /\ ~Switching /\ pill.user = SessionUser => pill.base \in {None, pill.user}

Session == TabTypes /\ Known /\ Form /\ OneUser /\ PillOwn

LEMMA SessionInit == WebInit => Session
<1> SUFFICES ASSUME WebInit PROVE Session
  OBVIOUS
<1> USE AccountsConstants
<1>1. /\ cookie \in DOMAIN Demo \cup {None}
      /\ users = [e \in Emails |-> IF e \in DOMAIN Demo THEN Demo[e] ELSE None]
      /\ register = [g \in Registers |-> Away]
      /\ cache = [k \in Keys |-> Empty]
      /\ fetch = [k \in Keys |-> IF k = "session" THEN [sent |-> TRUE, as |-> cookie] ELSE NoFetch]
      /\ op = Quiet /\ path = "login"
      /\ pill = [user |-> None, owner |-> None, base |-> None]
  BY DEF WebInit, AccountsInit
<1>2. "session" \in Keys
  BY DEF Keys
<1>3. TabTypes
  BY <1>1 DEF TabTypes, Nobody, Entry, Request, Empty, NoFetch, Quiet
<1>4. Known
  BY <1>1, <1>2 DEF Known, HasAccount, Empty, Quiet
<1>5. Form
  BY <1>1, WebSessionConstants DEF Form
<1>6. OneUser
  <2>1. BelongsTo(cookie) /\ cookie \in Nobody
    BY <1>1 DEF BelongsTo, Empty, NoFetch, Nobody
  <2> QED
    BY <2>1 DEF OneUser
<1>7. PillOwn
  BY <1>1 DEF PillOwn
<1> QED
  BY <1>3, <1>4, <1>5, <1>6, <1>7 DEF Session

(* What is sent for is asked as the cookie's account. *)
LEMMA SentIs ==
    ASSUME NEW f \in [Keys -> Request], NEW K, cookie' \in Nobody
    PROVE  /\ Sent(f, K) \in [Keys -> Request]
           /\ \A k \in Keys : Sent(f, K)[k] = f[k] \/ Sent(f, K)[k].as = cookie'
BY DEF Sent, Request

(* The cookie and the cache stay, and fetches are sent. *)
LEMMA AskStep ==
    ASSUME Session, NEW K, cookie' = cookie, fetch' = Sent(fetch, K),
           UNCHANGED <<users, register, open, cache, op, pill>>, path' \in {"login", "events"}
    PROVE  Session'
<1>1. TabTypes /\ Known /\ Form /\ OneUser /\ PillOwn /\ "session" \in Keys
  BY DEF Session, Keys
<1>2. /\ fetch' \in [Keys -> Request]
      /\ \A k \in Keys : fetch'[k] = fetch[k] \/ fetch'[k].as = cookie
  BY <1>1, SentIs DEF TabTypes
<1>3. TabTypes'
  BY <1>1, <1>2 DEF TabTypes
<1>4. Known'
  <2>1. fetch'["session"].as \in {fetch["session"].as, cookie}
    BY <1>1, <1>2
  <2> QED
    BY <1>1, <2>1 DEF Known, HasAccount
<1>5. Form' /\ PillOwn'
  BY <1>1 DEF Form, PillOwn, Switching, SessionUser
<1>6. OneUser'
  <2> SUFFICES ASSUME ~Switching PROVE OneUser'
    BY DEF OneUser, Switching
  <2>1. PICK u \in Nobody : BelongsTo(u)
    BY <1>1 DEF OneUser
  <2>2. BelongsTo(u)'
    BY <1>2, <2>1 DEF BelongsTo
  <2> QED
    BY <2>2 DEF OneUser, Nobody
<1> QED
  BY <1>3, <1>4, <1>5, <1>6 DEF Session

(* An answer is of the account that it was asked as, an error leaves what    *)
(* was there.                                                                *)
LEMMA AnswerStep ==
    ASSUME Session, ~Stale, NEW k \in Keys, Answer(k) \/ AnswerFails(k)
    PROVE  Session'
<1>1. TabTypes /\ Known /\ Form /\ OneUser /\ PillOwn /\ "session" \in Keys
  BY DEF Session, Keys
<1>2. PICK a : AnswerTo(k, a) /\ a \in Entry /\ a.owner \in {cache[k].owner, fetch[k].as}
  <2>1. cache[k] \in Entry /\ fetch[k] \in Request
    BY <1>1 DEF TabTypes
  <2>2. ASSUME NEW err \in {"none", "denied", "down"}
        PROVE  Failed(k, err) \in Entry /\ Failed(k, err).owner = cache[k].owner
    <3>1. [cache[k] EXCEPT !.err = err] \in Entry /\ [cache[k] EXCEPT !.err = err].owner = cache[k].owner
      BY <2>1 DEF Entry
    <3> QED
      BY <2>1, <3>1 DEF Failed
  <2>3. AnswerOf(k) \in Entry /\ AnswerOf(k).owner \in {cache[k].owner, fetch[k].as}
    BY <2>1, <2>2 DEF AnswerOf, Entry, Request
  <2> QED
    BY <2>2, <2>3 DEF Answer, AnswerFails
<1>3. /\ cache' = [cache EXCEPT ![k] = a] /\ fetch' = [fetch EXCEPT ![k] = NoFetch]
      /\ op.at # "clear"
      /\ UNCHANGED <<users, register, open, cookie, path, pill>>
  BY <1>2 DEF AnswerTo, acctVars
<1>4. op' = op \/ (op.at = "session" /\ op' = [op EXCEPT !.at = "clear"])
  BY <1>2 DEF AnswerTo
<1>5. /\ op' \in [at : {"idle", "login", "register", "session", "clear", "logout"}, email : Nobody]
      /\ op' = op \/ (op.at = "session" /\ op'.at = "clear")
  BY <1>1, <1>4 DEF TabTypes
<1>6. TabTypes'
  BY <1>1, <1>2, <1>3, <1>5 DEF TabTypes, NoFetch, Request, Nobody
<1>7. Known'
  <2>1. /\ fetch'["session"].as \in {fetch["session"].as, None}
        /\ cache'["session"].owner \in {cache["session"].owner, fetch["session"].as}
    BY <1>1, <1>2, <1>3 DEF NoFetch, TabTypes
  <2> QED
    BY <1>1, <1>3, <1>5, <2>1 DEF Known, HasAccount
<1>8. Form'
  BY <1>1, <1>3, <1>5 DEF Form
<1>9. OneUser'
  <2> SUFFICES ASSUME ~Switching PROVE OneUser'
    BY <1>5 DEF OneUser, Switching
  <2>1. PICK u \in Nobody : BelongsTo(u)
    BY <1>1 DEF OneUser
  <2>2. BelongsTo(u)'
    BY <1>1, <1>2, <1>3, <2>1 DEF BelongsTo, NoFetch, TabTypes
  <2> QED
    BY <2>2 DEF OneUser, Nobody
<1>10. PillOwn'
  <2>1. pill.user = SessionUser
    BY DEF Stale
  <2>2. ~Switching' => ~Switching
    BY <1>5 DEF Switching
  <2> QED
    BY <1>1, <1>3, <2>1, <2>2 DEF PillOwn
<1> QED
  BY <1>6, <1>7, <1>8, <1>9, <1>10 DEF Session

(* A form or the menu, or the expiry of the cookie: the cookie's account and *)
(* the cache are left as they are.                                           *)
LEMMA ClickStep ==
    ASSUME Session, cookie' \in {None, cookie}, ~Switching, ~Switching',
           UNCHANGED <<users, open, cache, fetch, path, pill>>,
           op' \in [at : {"idle", "login", "register", "session", "clear", "logout"},
                    email : Nobody],
           op'.at = "login" => op'.email \in Emails /\ HasAccount(op'.email),
           op'.at = "register" => op'.email \in Emails,
           Form'
    PROVE  Session'
<1>1. TabTypes /\ Known /\ OneUser /\ PillOwn
  BY DEF Session
<1>2. TabTypes'
  BY <1>1 DEF TabTypes, Nobody
<1>3. Known'
  BY <1>1 DEF Known, HasAccount
<1>4. OneUser'
  <2>1. PICK u \in Nobody : BelongsTo(u)
    BY <1>1 DEF OneUser
  <2>2. BelongsTo(u)'
    BY <2>1 DEF BelongsTo
  <2> QED
    BY <2>2 DEF OneUser, Nobody
<1>5. PillOwn'
  BY <1>1 DEF PillOwn, SessionUser
<1> QED
  BY <1>2, <1>3, <1>4, <1>5 DEF Session

LEMMA FormStep ==
    ASSUME Session, Registry, open
    PROVE  /\ \A e \in Emails : SubmitLogin(e) => Session'
           /\ \A e \in Emails, g \in Mine : SubmitRegister(g, e) => Session'
           /\ FormFails => Session'
           /\ SubmitLogout => Session'
<1>1. TabTypes /\ Known /\ Form /\ register \in [Registers -> Registration]
  BY DEF Session, Registry
<1>2. ASSUME op = Quiet PROVE ~Switching /\ \A g \in Mine : register[g] = Away
  BY <1>1, <1>2 DEF Switching, Quiet, Form
<1>3. ASSUME NEW e \in Emails, SubmitLogin(e) PROVE Session'
  <2>1. op' = [at |-> "login", email |-> e] /\ op = Quiet /\ users[e] # None
    BY <1>3 DEF SubmitLogin
  <2>2. Form'
    BY <1>2, <1>3, <2>1 DEF SubmitLogin, Form, acctVars
  <2>3. ~Switching'
    BY <2>1 DEF Switching
  <2> QED
    BY <1>2, <1>3, <2>1, <2>2, <2>3, ClickStep DEF SubmitLogin, acctVars, Nobody, HasAccount
<1>4. ASSUME NEW e \in Emails, NEW g \in Mine, SubmitRegister(g, e) PROVE Session'
  <2>1. /\ op' = [at |-> "register", email |-> e] /\ op = Quiet
        /\ register' = [register EXCEPT ![g] = [at |-> "allocate", email |-> e, party |-> None]]
    BY <1>4 DEF SubmitRegister, StartRegister
  <2>2. \A h \in Mine : h # g => register'[h] = Away
    BY <1>1, <1>2, <2>1, WebSessionConstants
  <2>3. register'[g].email = e
    BY <1>1, <2>1, WebSessionConstants
  <2>4. Form'
    BY <2>1, <2>2, <2>3 DEF Form
  <2>5. ~Switching'
    BY <2>1 DEF Switching
  <2> QED
    BY <1>2, <1>4, <2>1, <2>4, <2>5, ClickStep DEF SubmitRegister, StartRegister, Nobody
<1>5. CASE FormFails
  <2>1. op' = Quiet /\ op.at \in {"login", "register"} /\ register' = register
    BY <1>5 DEF FormFails, acctVars
  <2>2. \A g \in Mine : register[g] = Away
    BY <1>1, <1>5 DEF FormFails, Form
  <2>3. Form' /\ ~Switching /\ ~Switching'
    BY <2>1, <2>2 DEF Form, Switching, Quiet
  <2> QED
    BY <1>5, <2>1, <2>3, ClickStep DEF FormFails, acctVars, Quiet, Nobody
<1>6. CASE SubmitLogout
  <2>1. op' = [at |-> "logout", email |-> None] /\ op = Quiet /\ register' = register
    BY <1>6 DEF SubmitLogout, acctVars
  <2>2. Form' /\ ~Switching'
    BY <1>2, <2>1 DEF Form, Switching
  <2> QED
    BY <1>2, <1>6, <2>1, <2>2, ClickStep DEF SubmitLogout, acctVars, Nobody
<1> QED
  BY <1>3, <1>4, <1>5, <1>6

(* The cookie changes: what the tab holds may be another user's until        *)
(* revalidateAll has forgotten it.                                           *)
LEMMA SignStep ==
    ASSUME Session, NEW e \in Emails, SignedIn(e), users'[e] # None,
           \A f \in Emails : users[f] # None => users'[f] = users[f],
           open => \A g \in Mine : register'[g] = Away
    PROVE  Session'
<1>1. TabTypes /\ Known /\ PillOwn /\ "session" \in Keys
  BY DEF Session, Keys
<1>2. /\ cookie' = e /\ fetch' = Sent(fetch, {"session"})
      /\ op' = [at |-> "session", email |-> e]
      /\ UNCHANGED <<open, cache, path, pill>>
  BY DEF SignedIn
<1>3. TabTypes'
  <2>1. fetch' \in [Keys -> Request]
    BY <1>1, <1>2, SentIs DEF TabTypes, Nobody
  <2> QED
    BY <1>1, <1>2, <2>1 DEF TabTypes, Nobody
<1>4. Known'
  <2>1. fetch'["session"].as = e
    BY <1>1, <1>2 DEF Sent
  <2>2. cache["session"].owner \in Nobody
    BY <1>1 DEF TabTypes, Entry
  <2> QED
    BY <1>1, <1>2, <2>1, <2>2 DEF Known, HasAccount, Nobody
<1>5. Form' /\ OneUser' /\ PillOwn'
  BY <1>1, <1>2 DEF Form, OneUser, PillOwn, Switching
<1> QED
  BY <1>3, <1>4, <1>5 DEF Session

(* Everything is forgotten: what is asked for next is the cookie's.          *)
LEMMA ForgetStep ==
    ASSUME Session, NEW to \in {"login", "events"}, Forget(to), cookie' \in {None, cookie},
           open, op.at # "register"
    PROVE  Session'
<1>1. TabTypes /\ Known /\ Form /\ PillOwn /\ "session" \in Keys
  BY DEF Session, Keys
<1> DEFINE K == {k \in Keys : Mounted(k) \/ Mounted(k)'}
<1>2. /\ cache' = [k \in Keys |-> Empty] /\ fetch' = Sent([k \in Keys |-> NoFetch], K)
      /\ op' = Quiet /\ path' = to
      /\ UNCHANGED <<users, register, open, pill>>
  BY DEF Forget, acctVars
<1> HIDE DEF K
<1>3. /\ fetch' \in [Keys -> Request]
      /\ \A k \in Keys : fetch'[k].as \in {None, cookie'}
  BY <1>1, <1>2 DEF Sent, NoFetch, Request, Nobody, TabTypes
<1>4. TabTypes'
  BY <1>1, <1>2, <1>3 DEF TabTypes, Empty, Quiet, Entry, Nobody
<1>5. Known'
  BY <1>1, <1>2, <1>3 DEF Known, HasAccount, Empty, Quiet
<1>6. Form'
  <2>1. \A g \in Mine : register[g] = Away
    BY <1>1 DEF Form
  <2> QED
    BY <1>2, <2>1 DEF Form
<1>7. OneUser'
  <2>1. PICK u \in Nobody : u = cookie'
    BY <1>4 DEF TabTypes
  <2>2. BelongsTo(u)'
    BY <1>2, <1>3, <2>1 DEF BelongsTo, Empty
  <2> QED
    BY <2>2 DEF OneUser, Nobody
<1>8. PillOwn'
  <2>1. SessionUser' = None
    BY <1>1, <1>2 DEF SessionUser, Empty
  <2> QED
    BY <1>1, <1>2, <2>1 DEF PillOwn
<1> QED
  BY <1>4, <1>5, <1>6, <1>7, <1>8 DEF Session

(* The pill compares the amounts of one user.                                *)
LEMMA RenderStep ==
    ASSUME Session, Render
    PROVE  Session' /\ ~Compares
<1>1. TabTypes /\ Known /\ Form /\ OneUser /\ PillOwn /\ "session" \in Keys /\ "balances" \in Keys
  BY DEF Session, Keys
<1>2. /\ UNCHANGED <<users, register, open, cookie, cache, op, path>>
      /\ pill' = [user |-> SessionUser, owner |-> Balances,
                  base |-> IF pill.user = SessionUser THEN Baseline ELSE None]
  BY DEF Render, ResetBaseline, PillShows, acctVars
<1>3. PICK K : fetch' = Sent(fetch, K)
  BY DEF Render
<1>4. SessionUser \in Nobody /\ Balances \in Nobody /\ (SessionUser = None => Balances = None)
  BY <1>1 DEF SessionUser, Balances, TabTypes, Entry, Nobody
<1>5. Baseline \in {pill.base, Balances}
  BY DEF Baseline
<1>6. pill' \in [user : Nobody, owner : Nobody, base : Nobody]
  BY <1>1, <1>2, <1>4, <1>5 DEF TabTypes, Nobody
<1>7. ASSUME ~Switching, Balances # None PROVE Balances = SessionUser
  <2>1. PICK u \in Nobody : BelongsTo(u)
    BY <1>1, <1>7 DEF OneUser
  <2>2. cache["session"].owner \in {None, u} /\ cache["balances"].owner \in {None, u}
    BY <1>1, <2>1 DEF BelongsTo
  <2> QED
    BY <1>7, <2>2 DEF Balances, SessionUser
<1>8. PillOwn'
  <2>1. SessionUser' = SessionUser /\ (~Switching' <=> ~Switching)
    BY <1>2 DEF SessionUser, Switching
  <2>2. /\ pill'.user = SessionUser
        /\ pill'.base = IF pill.user = SessionUser THEN Baseline ELSE None
    BY <1>2
  <2>3. pill'.user = None => pill'.base = None
    BY <1>1, <1>4, <1>5, <2>2 DEF PillOwn
  <2>4. ~Switching => pill'.base \in {None, pill'.user}
    BY <1>1, <1>5, <1>7, <2>2 DEF PillOwn
  <2> QED
    BY <2>1, <2>3, <2>4 DEF PillOwn
<1>9. ~Compares
  BY <1>1, <1>7 DEF Compares, PillOwn
<1>10. fetch' \in [Keys -> Request] /\ \A k \in Keys : fetch'[k] = fetch[k] \/ fetch'[k].as = cookie
  BY <1>1, <1>2, <1>3, SentIs DEF TabTypes
<1>11. TabTypes'
  BY <1>1, <1>2, <1>6, <1>10 DEF TabTypes
<1>12. Known' /\ Form'
  <2>1. fetch'["session"].as \in {fetch["session"].as, cookie}
    BY <1>1, <1>10
  <2> QED
    BY <1>1, <1>2, <2>1 DEF Known, HasAccount, Form
<1>13. OneUser'
  <2> SUFFICES ASSUME ~Switching PROVE OneUser'
    BY <1>2 DEF OneUser, Switching
  <2>1. PICK u \in Nobody : BelongsTo(u)
    BY <1>1 DEF OneUser
  <2>2. BelongsTo(u)'
    BY <1>2, <1>10, <2>1 DEF BelongsTo
  <2> QED
    BY <2>2 DEF OneUser, Nobody
<1> QED
  BY <1>8, <1>9, <1>11, <1>12, <1>13 DEF Session

LEMMA TabStep ==
    ASSUME Session, Registry, NoFalseFlash, open, Tab
    PROVE  Session' /\ NoFalseFlash'
<1>1. TabTypes /\ Known /\ Form
  BY DEF Session
<1>0. Render \/ falseFlash' = falseFlash
  BY DEF Tab, PollAgain, Answer, AnswerFails, AnswerTo, SubmitLogin, SubmitRegister,
         GetTestTokens, LoggedIn, Registered, SignedIn, FormFails, SubmitLogout, LoggedOut,
         Navigate, Revalidated, Forget, Expire, tabVars
<1>2. ASSUME NEW k \in Keys, PollAgain(k) PROVE Session'
  BY <1>1, <1>2, AskStep DEF PollAgain, acctVars, TabTypes
<1>3. ASSUME NEW k \in Keys, ~Stale, Answer(k) \/ AnswerFails(k) PROVE Session'
  BY <1>3, AnswerStep
<1>4. ASSUME GetTestTokens PROVE Session'
  BY <1>1, <1>4, AskStep DEF GetTestTokens, acctVars, TabTypes
<1>5. ASSUME \/ \E e \in Emails : SubmitLogin(e) \/ \E g \in Mine : SubmitRegister(g, e)
             \/ FormFails \/ SubmitLogout
      PROVE  Session'
  BY <1>5, FormStep
<1>6. ASSUME LoggedIn PROVE Session'
  <2>1. /\ op.email \in Emails /\ users[op.email] # None /\ SignedIn(op.email)
        /\ users' = users /\ register' = register
    BY <1>1, <1>6, AccountsConstants DEF LoggedIn, Known, HasAccount, acctVars
  <2>2. \A g \in Mine : register[g] = Away
    BY <1>1, <1>6 DEF Form, LoggedIn
  <2> QED
    BY <2>1, <2>2, SignStep
<1>7. ASSUME NEW g \in Mine, Registered(g) PROVE Session'
  <2>1. /\ g \in Registers /\ register[g].at = "insert" /\ register[g] # Away
        /\ users' = [users EXCEPT ![register[g].email] = register[g].party]
        /\ register' = [register EXCEPT ![g] = Away]
        /\ SignedIn(op.email) /\ InsertUser(g)
    BY <1>7, WebSessionConstants DEF Registered, InsertUser, Inserts, Away
  <2>2. op.email = register[g].email
    BY <1>1, <2>1 DEF Form
  <2>3. /\ register[g].email \in Emails /\ register[g].party # None
    BY <2>1 DEF Registry, Inserting
  <2>4. users'[op.email] # None
    BY <2>1, <2>2, <2>3 DEF Registry
  <2>5. \A h \in Mine : register'[h] = Away
    <3>1. \A h \in Mine : h # g => register[h] = Away
      BY <1>1, <2>1 DEF Form
    <3> QED
      BY <2>1, <3>1, WebSessionConstants DEF Registry
  <2>6. \A f \in Emails : users[f] # None => users'[f] = users[f]
    BY <2>1, InsertStep
  <2> QED
    BY <2>1, <2>2, <2>3, <2>4, <2>5, <2>6, SignStep
<1>8. ASSUME LoggedOut \/ Revalidated PROVE Session'
  <2>1. PICK to \in {"login", "events"} : Forget(to)
    BY <1>8 DEF LoggedOut, Revalidated
  <2>2. op.at # "register" /\ cookie' \in {None, cookie}
    BY <1>8 DEF LoggedOut, Revalidated
  <2> QED
    BY <2>1, <2>2, ForgetStep
<1>9. ASSUME Navigate PROVE Session'
  <2>1. path' \in {"login", "events"}
    BY <1>1, <1>9, Zenon DEF Navigate, TabTypes
  <2> QED
    BY <1>9, <2>1, AskStep DEF Navigate, acctVars
<1>10. ASSUME Render PROVE Session'
  BY <1>10, RenderStep
<1>11. ASSUME Expire PROVE Session'
  <2>1. cookie' = None /\ UNCHANGED <<users, register, open, cache, fetch, op, path, pill, falseFlash>>
    BY <1>11 DEF Expire, acctVars, tabVars
  <2>2. TabTypes' /\ Known' /\ Form'
    BY <1>1, <2>1 DEF TabTypes, Nobody, Known, HasAccount, Form
  <2>3. OneUser'
    <3> SUFFICES ASSUME ~Switching PROVE OneUser'
      BY <2>1 DEF OneUser, Switching
    <3>1. PICK u \in Nobody : BelongsTo(u)
      BY DEF Session, OneUser
    <3>2. BelongsTo(u)'
      BY <2>1, <3>1 DEF BelongsTo
    <3> QED
      BY <3>2 DEF OneUser, Nobody
  <2>4. PillOwn'
    BY <2>1 DEF Session, PillOwn, Switching, SessionUser
  <2> QED
    BY <2>2, <2>3, <2>4 DEF Session
<1>12. NoFalseFlash'
  <2>1. CASE Render
    <3>1. falseFlash' = (falseFlash \/ Compares) /\ ~Compares
      BY <2>1, RenderStep DEF Render
    <3> QED
      BY Zenon, <3>1 DEF NoFalseFlash
  <2>2. CASE falseFlash' = falseFlash
    BY Zenon, <2>2 DEF NoFalseFlash
  <2> QED
    BY <1>0, <2>1, <2>2
<1> QED
  BY <1>12, <1>2, <1>3, <1>4, <1>5, <1>6, <1>7, <1>8, <1>9, <1>10, <1>11 DEF Tab

(* The server goes on with the registration that the form waits for.         *)
LEMMA ServerStep ==
    ASSUME Session, Registry, Server, \A e \in Emails : users[e] # None => users'[e] = users[e]
    PROVE  Session' /\ falseFlash' = falseFlash
<1>1. TabTypes /\ Known /\ Form /\ OneUser /\ PillOwn
  BY DEF Session
<1>2. UNCHANGED <<open, cookie, cache, fetch, op, path, pill, falseFlash>>
  BY DEF Server, tabVars
<1>3. TabTypes' /\ OneUser' /\ PillOwn'
  BY <1>1, <1>2 DEF TabTypes, OneUser, BelongsTo, PillOwn, Switching, SessionUser
<1>4. Known'
  <2>1. \A e \in Nobody : HasAccount(e) => HasAccount(e)'
    BY DEF HasAccount, Nobody
  <2>2. /\ cookie \in Nobody /\ fetch["session"].as \in Nobody
        /\ cache["session"].owner \in Nobody /\ op.email \in Nobody
    BY <1>1 DEF TabTypes, Keys, Entry, Request
  <2> QED
    BY <1>1, <1>2, <2>1, <2>2 DEF Known, HasAccount
<1>5. Form'
  <2> SUFFICES ASSUME open PROVE Form'
    BY <1>2 DEF Form
  <2>1. ASSUME NEW g \in Mine, RegisterStep(g)
        PROVE  \A h \in Mine : register'[h] # Away =>
                  register[h] # Away /\ register'[h].email = register[h].email
    <3>1. register \in [Registers -> Registration] /\ Mine \subseteq Registers
      BY WebSessionConstants DEF Registry
    <3>2. CASE AllocateParty(g)
      <4>1. PICK p \in Parties :
               \/ register' = [register EXCEPT ![g].at = "insert", ![g].party = p]
               \/ UNCHANGED register
        BY <3>2 DEF AllocateParty
      <4>2. register[g].at = "allocate" /\ register[g] # Away
        BY <3>2 DEF AllocateParty, Away
      <4>3. \A h \in Mine : /\ h # g => register'[h] = register[h]
                            /\ register'[h].email = register[h].email
        BY <3>1, <4>1 DEF Registration
      <4> QED
        BY <4>2, <4>3
    <3>3. CASE InsertUser(g) \/ RegisterFails(g)
      BY <3>1, <3>3 DEF InsertUser, RegisterFails
    <3> QED
      BY <2>1, <3>2, <3>3 DEF RegisterStep
  <2>2. CASE ServerRestarts
    BY <1>2, <2>2, WebSessionConstants DEF ServerRestarts, Form
  <2>3. CASE \E g \in Mine : RegisterStep(g)
    BY <1>1, <1>2, <2>1, <2>3 DEF Form
  <2> QED
    BY <2>2, <2>3 DEF Server
<1> QED
  BY <1>2, <1>3, <1>4, <1>5 DEF Session

Signed == Registry /\ Offered /\ Session /\ NoFalseFlash

LEMMA SignedInit == WebInit => Signed
<1> SUFFICES ASSUME WebInit PROVE Signed
  OBVIOUS
<1>1. Registry /\ Offered /\ Session
  BY RegistryInit, OfferedInit, SessionInit DEF WebInit
<1>2. NoFalseFlash
  BY DEF WebInit, NoFalseFlash
<1> QED
  BY <1>1, <1>2 DEF Signed

LEMMA SignedStep == Signed /\ [WebNext]_webVars => Signed'
<1> SUFFICES ASSUME Signed, [WebNext]_webVars PROVE Signed'
  OBVIOUS
<1>1. /\ Registry /\ Offered /\ Session /\ NoFalseFlash
      /\ Registry' /\ Offered'
      /\ \A e \in Emails : users[e] # None => users'[e] = users[e]
  BY RegistryStep, OfferedStep DEF Signed
<1>2. CASE open /\ Tab
  BY <1>1, <1>2, TabStep DEF Signed
<1>3. CASE Server
  <2>1. Session' /\ falseFlash' = falseFlash
    BY <1>1, <1>3, ServerStep
  <2>2. NoFalseFlash'
    BY Zenon, <1>1, <2>1 DEF NoFalseFlash
  <2> QED
    BY <1>1, <2>1, <2>2 DEF Signed
<1>4. CASE UNCHANGED webVars
  <2>1. UNCHANGED <<users, register, open, cookie, cache, fetch, op, path, pill, falseFlash>>
    BY <1>4 DEF webVars, acctVars, tabVars
  <2>2. Session'
    BY <1>1, <2>1 DEF Session, TabTypes, Known, HasAccount, Form, OneUser, BelongsTo, PillOwn,
          Switching, SessionUser
  <2>3. NoFalseFlash'
    BY Zenon, <1>1, <2>1 DEF NoFalseFlash
  <2> QED
    BY <1>1, <2>2, <2>3 DEF Signed
<1> QED
  BY <1>2, <1>3, <1>4 DEF WebNext

(* The state stays well formed; in particular whoever the cookie or the      *)
(* session names has an account, and the acceptor works for users only.      *)
THEOREM WebTypes == WebSpec => []WebTypeOK
<1>1. Signed => WebTypeOK
  <2> SUFFICES ASSUME Signed PROVE WebTypeOK
    OBVIOUS
  <2>1. Registry /\ Offered /\ TabTypes /\ Known
    BY DEF Signed, Session
  <2>2. UserParties \subseteq allocated
    BY <2>1 DEF Registry, UserParties
  <2>3. AccountsTypeOK
    BY <2>1, <2>2 DEF AccountsTypeOK, Registry, Registration, Offered
  <2>4. \A k \in Keys : /\ cache[k] \in [owner : Emails \cup {None}, err : {"none", "denied", "down"}]
                        /\ fetch[k] \in [sent : BOOLEAN, as : Emails \cup {None}]
    BY <2>1 DEF TabTypes, Entry, Request, Nobody
  <2>5. \A e \in {cookie, cache["session"].owner} \ {None} : users[e] # None
    BY <2>1 DEF Known, HasAccount
  <2>6. /\ cookie \in Emails \cup {None}
        /\ op.at \in {"idle", "login", "register", "session", "clear", "logout"}
        /\ path \in {"login", "events"}
    BY <2>1 DEF TabTypes, Nobody
  <2> QED
    BY <2>3, <2>4, <2>5, <2>6 DEF WebTypeOK
<1> QED
  BY SignedInit, SignedStep, <1>1, PTL DEF WebSpec

(* The tab shows nobody else's balances or events under the name of its      *)
(* user: until a form signs somebody in, all that is cached, asked for or in *)
(* the cookie is of one user (OneUser), and revalidateAll and the logout     *)
(* forget all of it at once.                                                 *)
THEOREM OwnDataShown == WebSpec => []OwnDataOnly
<1>1. Signed => OwnDataOnly
  <2> SUFFICES ASSUME Signed, SessionUser # None, ~Switching
               PROVE  \A k \in Keys : cache[k].owner \in {None, SessionUser}
    BY DEF OwnDataOnly, Keys
  <2>1. PICK u \in Nobody : BelongsTo(u)
    BY DEF Signed, Session, OneUser
  <2>2. SessionUser = u
    BY <2>1 DEF SessionUser, BelongsTo, Keys
  <2> QED
    BY <2>1, <2>2 DEF BelongsTo
<1> QED
  BY SignedInit, SignedStep, <1>1, PTL DEF WebSpec

(* The BalancePill never flashes for the difference of two users' amounts:   *)
(* its baseline is of the user it was last rendered for.                     *)
THEOREM FlashesAreTrue == WebSpec => []NoFalseFlash
<1>1. Signed => NoFalseFlash
  BY DEF Signed
<1> QED
  BY SignedInit, SignedStep, <1>1, PTL DEF WebSpec
=============================================================================
