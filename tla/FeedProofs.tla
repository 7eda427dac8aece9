------------------------------ MODULE FeedProofs ------------------------------
(***************************************************************************)
(* The rows follow the ledger: once a feed has caught up, they say what    *)
(* the contracts say, no outcome is missing and the stakes that were taken *)
(* back are flagged, after any number of restarts, of updates handled      *)
(* twice and of fetches that failed.                                       *)
(*                                                                         *)
(* A slot has one RSVP outstanding at a time here (it is not crowded), so  *)
(* what the ledger says of it is the state of that RSVP.  In websocket     *)
(* mode, to each state belong the updates that bring it about and those    *)
(* that may undo it, and the last word in the queue is never with the      *)
(* latter (Tends).  In poll mode a row shows the last fetch (PrevShows),   *)
(* and the comparison with the next one moves it on.                       *)
(*                                                                         *)
(* Outcomes and flags, once written, stay: what is missing needs only one  *)
(* update that is still to be handled and that will find the row as it was *)
(* at the time (SlotDue), or a contract that is still in the last fetch    *)
(* (OutcomeDue, FlagDue).                                                  *)
(***************************************************************************)
EXTENDS PollFeed, ReadModelProofs

-------------------------------------------------------------------------------
(* One RSVP of a slot at a time *)

Begun == {r \in Rsvps : stage[r] # "none"}

OneOut(s) == \A r, p \in Outstanding(s) : r = p

(* A slot that is not crowded never had two RSVPs outstanding at once.       *)
(* (Finitely many RSVPs were begun, so counting them makes sense.)           *)
Counted == IsFiniteSet(Begun) /\ \A s \in Slots \ crowded : OneOut(s)

LEMMA FewAreOne ==
    ASSUME NEW S, IsFiniteSet(S), ~(Cardinality(S) > 1)
    PROVE  \A a, b \in S : a = b
<1> SUFFICES ASSUME NEW a \in S, NEW b \in S, a # b PROVE FALSE
  OBVIOUS
<1>1. PICK T : T = {b}
  OBVIOUS
<1>2. IsFiniteSet(T) /\ Cardinality(T) = 1 /\ a \notin T
  BY <1>1, FS_Singleton
<1>3. Cardinality(T \cup {a}) = Cardinality(T) + 1
  BY <1>2, FS_AddElement
<1>4. T \cup {a} \in SUBSET S
  BY <1>1
<1>5. Cardinality(T \cup {a}) <= Cardinality(S) /\ Cardinality(S) \in Nat
  BY <1>4, FS_Subset, FS_CardinalityType
<1> QED
  BY <1>2, <1>3, <1>5

(* What one step does to the RSVPs of a slot with one RSVP outstanding. *)
Ends(r) == stage[r] = "live" /\ stage'[r] \in Paid /\ SamePaper(r)

LEMMA SlotMoves ==
    ASSUME TypeOK, [Next]_vars, NEW s, OneOut(s)
    PROVE  \/ \A p \in Rsvps : SlotOf(p) = s => Untouched(p)
           \/ \E r \in Rsvps :
                 /\ SlotOf(r) = s
                 /\ Moves(r) \/ Ends(r)
                 /\ \A p \in Rsvps : SlotOf(p) = s /\ p # r => Untouched(p)
<1>1. CASE UNCHANGED rsvpVars
  BY <1>1 DEF rsvpVars, Untouched, SamePaper
<1>2. ASSUME NEW r \in Rsvps, RsvpMoves(r)
      PROVE  \/ \A p \in Rsvps : SlotOf(p) = s => Untouched(p)
             \/ /\ SlotOf(r) = s /\ Moves(r)
                /\ \A p \in Rsvps : SlotOf(p) = s /\ p # r => Untouched(p)
  BY <1>2 DEF RsvpMoves
<1>3. ASSUME NEW S \in SUBSET Rsvps, Closes(S)
      PROVE  \/ \A p \in Rsvps : SlotOf(p) = s => Untouched(p)
             \/ \E r \in Rsvps :
                   /\ SlotOf(r) = s /\ Ends(r)
                   /\ \A p \in Rsvps : SlotOf(p) = s /\ p # r => Untouched(p)
  <2>1. CASE \A p \in S : SlotOf(p) # s
    BY <1>3, <2>1 DEF Closes
  <2>2. ASSUME NEW r \in S, SlotOf(r) = s
        PROVE  Ends(r) /\ \A p \in Rsvps : SlotOf(p) = s /\ p # r => Untouched(p)
    <3>1. \A p \in S : SlotOf(p) = s => p \in Outstanding(s)
      BY <1>3 DEF Closes, Outstanding
    <3>2. \A p \in S : SlotOf(p) = s => p = r
      BY <2>2, <3>1 DEF OneOut
    <3> QED
      BY <1>3, <2>2, <3>2 DEF Closes, Ends
  <2> QED
    BY <2>1, <2>2
<1> QED
  BY <1>1, <1>2, <1>3, LedgerMoves DEF EventMoves, AllocMoves

LEMMA BegunStep ==
    ASSUME TypeOK, [Next]_vars, IsFiniteSet(Begun)
    PROVE  IsFiniteSet(Begun')
<1>1. \E r : Begun' \subseteq Begun \cup {r}
  <2>1. CASE UNCHANGED rsvpVars
    BY <2>1 DEF rsvpVars, Begun
  <2>2. ASSUME NEW r \in Rsvps, RsvpMoves(r) PROVE Begun' \subseteq Begun \cup {r}
    BY <2>2 DEF RsvpMoves, Untouched, Begun
  <2>3. ASSUME NEW S \in SUBSET Rsvps, Closes(S) PROVE Begun' \subseteq Begun
    BY <2>3 DEF Closes, Untouched, Begun
  <2> QED
    BY <2>1, <2>2, <2>3, LedgerMoves DEF EventMoves, AllocMoves
<1> QED
  BY <1>1, FS_AddElement, FS_Subset

LEMMA CountedStep ==
    ASSUME TypeOK, [Next]_vars, Counted,
           \/ crowded' = crowded \cup {s \in Slots : Cardinality(Outstanding(s)') > 1}
           \/ UNCHANGED <<vars, crowded>>
    PROVE  Counted'
<1>1. CASE UNCHANGED <<vars, crowded>>
  BY <1>1 DEF vars, Counted, Begun, OneOut, Outstanding, SlotOf
<1>2. CASE crowded' = crowded \cup {s \in Slots : Cardinality(Outstanding(s)') > 1}
  <2>1. IsFiniteSet(Begun')
    BY BegunStep DEF Counted
  <2>2. ASSUME NEW s \in Slots \ crowded' PROVE OneOut(s)'
    <3>1. ~(Cardinality(Outstanding(s)') > 1)
      BY <1>2, <2>2
    <3>2. Outstanding(s)' \subseteq Begun'
      BY DEF Outstanding, Begun
    <3>3. IsFiniteSet(Outstanding(s)')
      BY <2>1, <3>2, FS_Subset
    <3>4. PICK S : S = Outstanding(s)'
      OBVIOUS
    <3>5. \A a, b \in S : a = b
      BY <3>1, <3>3, <3>4, FewAreOne
    <3> QED
      BY <3>4, <3>5 DEF OneOut
  <2> QED
    BY <2>1, <2>2 DEF Counted
<1> QED
  BY <1>1, <1>2

(* The first contract of an accepted RSVP. *)
FirstOf(r) == [kind |-> "rsvp", slot |-> SlotOf(r), cid |-> <<r, 0>>,
               alloc |-> None, checkedIn |-> FALSE, withdrawn |-> FALSE]

(* What becomes of an RSVP in a step, and what the transaction says of it. *)
Turns(r, new, old) ==
    \/ stage[r] = "none" /\ stage'[r] = "invited" /\ new = {InviteOf(r)} /\ old = {}
    \/ /\ stage[r] = "invited" /\ stage'[r] = "live" /\ ver'[r] = 0
       /\ RsvpOf(r)' = FirstOf(r) /\ new = {FirstOf(r)} /\ old = {InviteOf(r)}
    \/ stage[r] = "invited" /\ stage'[r] \in Dropped /\ new = {} /\ old = {InviteOf(r)}
    \/ /\ stage[r] = "live" /\ stage'[r] = "live" /\ ver'[r] # 0
       /\ new = {RsvpOf(r)'} /\ old = {RsvpOf(r)}
    \/ /\ stage[r] = "live" /\ stage'[r] \in Gone /\ RsvpOf(r)' = RsvpOf(r)
       /\ new = {} /\ old = {RsvpOf(r)}

LEMMA PaperStays ==
    ASSUME NEW r \in Rsvps, SamePaper(r)
    PROVE  RsvpOf(r)' = RsvpOf(r)
<1>1. SlotOf(r)' = SlotOf(r)
  BY DEF SlotOf
<1> QED
  BY <1>1 DEF SamePaper, RsvpOf

LEMMA FaceTurns ==
    ASSUME BaseOK, NEW r \in Rsvps, Moves(r) \/ Ends(r)
    PROVE  Turns(r, Face(r)' \ Face(r), Face(r) \ Face(r)')
<1>1. ver[r] \in Nat /\ Born(r)
  BY DEF BaseOK, TypeOK
<1>2. SlotOf(r)' = SlotOf(r) /\ InviteOf(r)' = InviteOf(r)
  BY DEF SlotOf, InviteOf
<1>3. SamePaper(r) => RsvpOf(r)' = RsvpOf(r)
  BY PaperStays
<1>4. InviteOf(r) # RsvpOf(r) /\ InviteOf(r) # RsvpOf(r)'
  BY DEF InviteOf, RsvpOf
<1>5. CASE stage[r] = "none"
  <2>1. stage'[r] = "invited"
    BY <1>5 DEF Moves, Renewed, Ends
  <2> QED
    BY <1>2, <1>5, <2>1 DEF Turns, Face
<1>6. CASE stage[r] = "invited" /\ stage'[r] = "live"
  <2>1. SamePaper(r)
    BY <1>6 DEF Moves, Renewed, Ends
  <2>2. /\ ver[r] = 0 /\ allocOf[r] = NoAlloc
        /\ (r \in checkedIn) = FALSE /\ (r \in withdrawn) = FALSE
    BY <1>1, <1>6 DEF Born, Young
  <2>3. RsvpOf(r) = FirstOf(r)
    BY <2>2 DEF RsvpOf, FirstOf
  <2>4. Face(r) = {InviteOf(r)} /\ Face(r)' = {FirstOf(r)}
    BY <1>3, <1>6, <2>1, <2>3 DEF Face
  <2>5. ver'[r] = 0
    BY <2>1, <2>2 DEF SamePaper
  <2> QED
    BY <1>3, <1>4, <1>6, <2>1, <2>3, <2>4, <2>5 DEF Turns
<1>7. CASE stage[r] = "invited" /\ stage'[r] # "live"
  <2>1. stage'[r] \in Dropped
    BY <1>7 DEF Moves, Renewed, Ends
  <2>2. Face(r) = {InviteOf(r)} /\ Face(r)' = {}
    BY <1>7, <2>1 DEF Face, Dropped
  <2> QED
    BY <1>7, <2>1, <2>2 DEF Turns
<1>8. CASE stage[r] = "live" /\ stage'[r] = "live"
  <2>1. ver'[r] = ver[r] + 1
    BY <1>8 DEF Moves, Renewed, Ends, Paid
  <2>2. RsvpOf(r)' # RsvpOf(r) /\ ver'[r] # 0
    BY <1>1, <2>1 DEF RsvpOf
  <2>3. Face(r) = {RsvpOf(r)} /\ Face(r)' = {RsvpOf(r)'}
    BY <1>8 DEF Face
  <2> HIDE DEF Face
  <2> QED
    BY <1>8, <2>2, <2>3 DEF Turns
<1>9. CASE stage[r] = "live" /\ stage'[r] # "live"
  <2>1. stage'[r] \in Gone /\ SamePaper(r)
    BY <1>9 DEF Moves, Renewed, Ends, Paid, Gone
  <2>2. Face(r) = {RsvpOf(r)} /\ Face(r)' = {}
    BY <1>9, <2>1 DEF Face, Gone
  <2> QED
    BY <1>3, <1>9, <2>1, <2>2 DEF Turns
<1> QED
  BY <1>5, <1>6, <1>7, <1>8, <1>9 DEF Moves, Renewed, Ends

(* A step that archives and creates nothing changes no RSVP. *)
LEMMA NothingMoves ==
    ASSUME BaseOK, BaseOK', NEW r \in Rsvps, Moves(r) \/ Ends(r)
    PROVE  Created \cup Archived # {}
<1>1. \E c : c \in Face(r)' \ Face(r) \/ c \in Face(r) \ Face(r)'
  BY FaceTurns DEF Turns
<1> QED
  BY <1>1, TellsFace

-------------------------------------------------------------------------------
(* What an update does to the row of a slot *)

About(s)       == {u \in Update : NewOf(u, s) # {} \/ OldOf(u, s) # {}}
InvitingAny(s) == {u \in Update : \E c \in NewOf(u, s) : c.kind = "invite"}
Reinviting(r)  == {u \in Update : InviteOf(r) \in NewOf(u, SlotOf(r))}

Inviting(r) ==
    {u \in Update : NewOf(u, SlotOf(r)) = {InviteOf(r)} /\ OldOf(u, SlotOf(r)) = {}}
Accepting(r) ==
    {u \in Update : NewOf(u, SlotOf(r)) = {FirstOf(r)} /\ OldOf(u, SlotOf(r)) = {InviteOf(r)}}
Dropping(r) ==
    {u \in Update : NewOf(u, SlotOf(r)) = {} /\ OldOf(u, SlotOf(r)) = {InviteOf(r)}}

(* c is the contract of an accepted RSVP. *)
Making(c) == {u \in Update : NewOf(u, c.slot) = {c}}
Ending(c) == {u \in Update : NewOf(u, c.slot) = {} /\ OldOf(u, c.slot) = {c}}

(* The row says of an RSVP what its contract c does. *)
StatusFits(status, c) ==
    CASE c.withdrawn                                     -> status = "withdrawn"
      [] ~c.withdrawn /\ (c.alloc # None \/ c.checkedIn) -> status = "staked"
      [] OTHER -> status \notin {"invited", "cancelled", "declined"}

Matches(row, c) ==
    /\ row.rsvp = c.cid
    /\ row.checkedIn = (c.checkedIn /\ ~c.withdrawn)
    /\ row.alloc = IF c.withdrawn THEN None ELSE c.alloc
    /\ StatusFits(row.status, c)

Over == {"declined", "cancelled", "settled"}

SameRow(row, row2) ==
    /\ row = NoRow <=> row2 = NoRow
    /\ row # NoRow => /\ row2.status = row.status
                      /\ row2.invite = row.invite
                      /\ row2.rsvp = row.rsvp
                      /\ row2.alloc = row.alloc
                      /\ row2.checkedIn = row.checkedIn

LEMMA CreatedIs ==
    ASSUME NEW u \in Update, NEW s
    PROVE  /\ CreatedFor(u, "invite", s) = {c \in NewOf(u, s) : c.kind = "invite"}
           /\ CreatedFor(u, "rsvp", s) = {c \in NewOf(u, s) : c.kind = "rsvp"}
  BY DEF CreatedFor, NewOf

(* What the row names is archived by no update but one about its slot. *)
LEMMA OwnArchives ==
    ASSUME NEW u \in Update, Honest(u), NEW s, NEW row \in Row, RowSays(row, s)
    PROVE  /\ Archives(u, "invite", row.invite) <=>
                 row.invite # None /\ InviteOf(row.invite) \in OldOf(u, s)
           /\ Archives(u, "rsvp", row.rsvp) <=>
                 \E c \in OldOf(u, s) : c.kind = "rsvp" /\ c.cid = row.rsvp
<1>1. row # NoRow
  BY ReadModelConstants
<1>2. u.archived \subseteq Paper
  BY DEF Update
<1>3. Archives(u, "invite", row.invite) => row.invite # None /\ InviteOf(row.invite) \in OldOf(u, s)
  <2>1. SUFFICES ASSUME NEW c \in u.archived, c.kind = "invite", c.cid = row.invite
                 PROVE  row.invite # None /\ InviteOf(row.invite) \in OldOf(u, s)
    BY DEF Archives
  <2>2. c.cid \in Rsvps
    BY <1>2, <2>1, PaperKinds DEF InvitePapers
  <2>3. row.invite # None /\ c = InviteOf(row.invite)
    BY <2>1, <2>2, ReadModelConstants DEF Honest, Says, InviteSays
  <2>4. c.slot = s
    BY <1>1, <2>3 DEF RowSays, InviteOf
  <2> QED
    BY <2>1, <2>3, <2>4 DEF OldOf
<1>4. row.invite # None /\ InviteOf(row.invite) \in OldOf(u, s) => Archives(u, "invite", row.invite)
  BY DEF OldOf, Archives, InviteOf
<1>5. ASSUME NEW c \in u.archived, c.kind = "rsvp", c.cid = row.rsvp PROVE c \in OldOf(u, s)
  <2>1. c.cid \in RsvpCids
    BY <1>2, <1>5, PaperKinds DEF RsvpPapers
  <2>2. row.rsvp # None
    BY <1>5, <2>1, ReadModelConstants
  <2>3. c.slot = s
    BY <1>1, <1>5, <2>2 DEF RowSays, Honest, Says, RsvpSays
  <2> QED
    BY <1>5, <2>3 DEF OldOf
<1>6. (\E c \in OldOf(u, s) : c.kind = "rsvp" /\ c.cid = row.rsvp) => Archives(u, "rsvp", row.rsvp)
  BY DEF OldOf, Archives
<1> QED
  BY <1>3, <1>4, <1>5, <1>6 DEF Archives

(* The handler, by the kinds of updates. *)
LEMMA HandledKeeps ==
    ASSUME NEW u \in Update, Honest(u), NEW s \in Slots, NEW row \in Row \cup {NoRow},
           RowSays(row, s)
    PROVE  /\ u \notin About(s) => SameRow(row, HandleRsvp(row, s, u))
           /\ row # NoRow => HandleRsvp(row, s, u) # NoRow
           /\ u \in InvitingAny(s) => HandleRsvp(row, s, u) # NoRow
           /\ u \notin InvitingAny(s) /\ row = NoRow => HandleRsvp(row, s, u) = NoRow
           /\ u \notin InvitingAny(s) /\ row # NoRow =>
                 HandleRsvp(row, s, u).invite \in {row.invite, None}
<1> DEFINE row2 == HandleRsvp(row, s, u)
           invites == CreatedFor(u, "invite", s)
           rsvps == CreatedFor(u, "rsvp", s)
<1>1. \/ row2 = NoRow /\ row = NoRow /\ invites = {}
      \/ (row # NoRow \/ invites # {}) /\ NewRow(row2, row, s, u)
  BY HandledIs
<1> HIDE DEF row2, invites, rsvps
<1>2. NoRow \notin Row
  BY ReadModelConstants
<1>3. invites # {} <=> u \in InvitingAny(s)
  BY CreatedIs DEF invites, InvitingAny
<1>4. row # NoRow \/ invites # {} => row2 # NoRow
  BY <1>1, <1>2 DEF NewRow
<1>5. ASSUME invites = {}, row # NoRow PROVE row2.invite \in {row.invite, None}
  BY <1>1, <1>5 DEF NewRow, NewInvite, Base, invites
<1>6. ASSUME u \notin About(s), row # NoRow PROVE SameRow(row, row2)
  <2>1. NewOf(u, s) = {} /\ OldOf(u, s) = {}
    BY <1>6 DEF About
  <2>2. CreatedFor(u, "invite", s) = {} /\ CreatedFor(u, "rsvp", s) = {}
    BY <2>1, CreatedIs
  <2>3. ~RsvpEnds(row, u) /\ ~InviteEnds(row, s, u)
    BY <1>6, <2>1, OwnArchives DEF RsvpEnds, InviteEnds
  <2>4. NewRow(row2, row, s, u)
    BY <1>1, <1>6
  <2> QED
    BY <1>2, <1>6, <2>2, <2>3, <2>4 DEF NewRow, NewStatus, NewInvite, Base, SameRow
<1>7. ASSUME u \notin About(s), row = NoRow PROVE SameRow(row, row2)
  <2>1. u \notin InvitingAny(s)
    BY <1>7 DEF About, InvitingAny
  <2> QED
    BY <1>1, <1>3, <1>7, <2>1 DEF SameRow
<1> QED
  BY <1>1, <1>3, <1>4, <1>5, <1>6, <1>7 DEF row2

LEMMA HandledInvite ==
    ASSUME NEW u \in Update, Honest(u), NEW r \in Rsvps, NEW row \in Row \cup {NoRow},
           RowSays(row, SlotOf(r)), u \in Inviting(r)
    PROVE  LET row2 == HandleRsvp(row, SlotOf(r), u)
           IN  row2 # NoRow /\ row2.status = "invited" /\ row2.invite = r
<1> DEFINE s == SlotOf(r)
           row2 == HandleRsvp(row, s, u)
<1>0. s \in Slots
  BY SlotIs
<1>1. NewOf(u, s) = {InviteOf(r)} /\ OldOf(u, s) = {}
  BY DEF Inviting
<1>2. InviteOf(r).kind = "invite" /\ InviteOf(r).cid = r
  BY DEF InviteOf
<1>3. CreatedFor(u, "invite", s) = {InviteOf(r)} /\ CreatedFor(u, "rsvp", s) = {}
  BY <1>1, <1>2, CreatedIs
<1>4. TheInvite(u, s) = InviteOf(r)
  BY <1>3 DEF TheInvite
<1>5. ~RsvpEnds(row, u) /\ ~InviteEnds(row, s, u)
  BY <1>1, OwnArchives DEF RsvpEnds, InviteEnds
<1> HIDE DEF s, row2
<1>6. NewRow(row2, row, s, u)
  BY <1>0, <1>3, HandledIs DEF row2
<1>7. row2 # NoRow
  BY <1>6, ReadModelConstants DEF NewRow
<1> QED
  BY <1>2, <1>3, <1>4, <1>5, <1>6, <1>7 DEF NewRow, NewStatus, NewInvite, row2, s

LEMMA HandledMake ==
    ASSUME NEW u \in Update, Honest(u), NEW c, c.kind = "rsvp", c.slot \in Slots,
           NEW row \in Row \cup {NoRow}, RowSays(row, c.slot), u \in Making(c)
    PROVE  LET row2 == HandleRsvp(row, c.slot, u)
           IN  /\ row = NoRow => row2 = NoRow
               /\ row # NoRow => /\ row2 # NoRow /\ Matches(row2, c)
                                 /\ row2.status = RsvpStatus(row, c)
               /\ \A r \in Rsvps : InviteOf(r) \in OldOf(u, c.slot) /\ SlotOf(r) = c.slot
                     => row2 = NoRow \/ row2.invite # r
<1> DEFINE s == c.slot
           row2 == HandleRsvp(row, s, u)
<1>1. NewOf(u, s) = {c}
  BY DEF Making
<1>3. CreatedFor(u, "invite", s) = {} /\ CreatedFor(u, "rsvp", s) = {c}
  BY <1>1, CreatedIs
<1>4. TheRsvp(u, s) = c
  BY <1>3 DEF TheRsvp
<1>5. c.withdrawn \in BOOLEAN /\ c.checkedIn \in BOOLEAN
  <2>1. c \in RsvpPapers
    BY <1>3, CreatesTyped
  <2> QED
    BY <2>1 DEF RsvpPapers
<1> HIDE DEF s, row2
<1>6. \/ row2 = NoRow /\ row = NoRow
      \/ row # NoRow /\ NewRow(row2, row, s, u)
  BY <1>3, HandledIs DEF row2, s
<1>7. ASSUME row # NoRow
      PROVE  row2 # NoRow /\ Matches(row2, c) /\ row2.status = RsvpStatus(row, c)
  <2>1. row2 # NoRow
    BY <1>6, <1>7, ReadModelConstants DEF NewRow
  <2>2. row2.status = RsvpStatus(row, c)
    BY <1>3, <1>4, <1>6, <1>7 DEF NewRow, NewStatus, Base
  <2>3. StatusFits(row2.status, c)
    BY <1>5, <2>2 DEF StatusFits, RsvpStatus
  <2>4. /\ row2.rsvp = c.cid
        /\ row2.alloc = IF c.withdrawn THEN None ELSE c.alloc
        /\ row2.checkedIn = (c.checkedIn /\ ~c.withdrawn)
    BY <1>3, <1>4, <1>6, <1>7 DEF NewRow
  <2> QED
    BY <2>1, <2>2, <2>3, <2>4 DEF Matches
<1>8. ASSUME NEW r \in Rsvps, InviteOf(r) \in OldOf(u, s), SlotOf(r) = s, row # NoRow
      PROVE  row2.invite # r
  <2>1. row2.invite = IF InviteEnds(row, s, u) THEN None ELSE row.invite
    BY <1>3, <1>6, <1>8 DEF NewRow, NewInvite, Base
  <2>2. row.invite = r => InviteEnds(row, s, u)
    <3>1. SUFFICES ASSUME row.invite = r PROVE InviteEnds(row, s, u)
      OBVIOUS
    <3>2. Archives(u, "invite", row.invite)
      BY <1>8, <3>1 DEF Archives, OldOf, InviteOf
    <3> QED
      BY <1>3, <1>8, <3>2 DEF InviteEnds, NewInvite, Base
  <2> QED
    BY <2>1, <2>2, ReadModelConstants
<1> QED
  BY <1>6, <1>7, <1>8 DEF row2, s

LEMMA HandledDrop ==
    ASSUME NEW u \in Update, Honest(u), NEW r \in Rsvps, NEW row \in Row \cup {NoRow},
           RowSays(row, SlotOf(r)), u \in Dropping(r)
    PROVE  LET row2 == HandleRsvp(row, SlotOf(r), u)
           IN  /\ row = NoRow => row2 = NoRow
               /\ row # NoRow => /\ row2 # NoRow /\ row2.invite = row.invite
                                 /\ row.invite = r => row2.status = "declined"
<1> DEFINE s == SlotOf(r)
           row2 == HandleRsvp(row, s, u)
<1>0. s \in Slots
  BY SlotIs
<1>1. NewOf(u, s) = {} /\ OldOf(u, s) = {InviteOf(r)}
  BY DEF Dropping
<1>2. InviteOf(r).kind = "invite" /\ InviteOf(r).cid = r
  BY DEF InviteOf
<1>3. CreatedFor(u, "invite", s) = {} /\ CreatedFor(u, "rsvp", s) = {}
  BY <1>1, CreatedIs
<1>4. ~RsvpEnds(row, u)
  BY <1>1, <1>2, OwnArchives DEF RsvpEnds
<1>5. row # NoRow /\ row.invite = r => InviteEnds(row, s, u)
  <2>1. Archives(u, "invite", r)
    BY <1>1, <1>2 DEF Archives, OldOf
  <2> QED
    BY <1>3, <2>1 DEF InviteEnds, NewInvite, Base
<1> HIDE DEF s, row2
<1>6. \/ row2 = NoRow /\ row = NoRow
      \/ row # NoRow /\ NewRow(row2, row, s, u)
  BY <1>0, <1>3, HandledIs DEF row2
<1>7. row # NoRow => row2 # NoRow
  BY <1>6, ReadModelConstants DEF NewRow
<1> QED
  BY <1>3, <1>4, <1>5, <1>6, <1>7 DEF NewRow, NewStatus, NewInvite, Base, row2, s

LEMMA HandledEnd ==
    ASSUME NEW u \in Update, Honest(u), NEW c, c.kind = "rsvp", c.slot \in Slots,
           NEW row \in Row \cup {NoRow}, RowSays(row, c.slot), u \in Ending(c)
    PROVE  LET row2 == HandleRsvp(row, c.slot, u)
           IN  /\ row = NoRow => row2 = NoRow
               /\ row # NoRow => /\ row2 # NoRow /\ row2.rsvp = row.rsvp
                                 /\ row.rsvp = c.cid => row2.status \in Over
<1> DEFINE s == c.slot
           row2 == HandleRsvp(row, s, u)
<1>1. NewOf(u, s) = {} /\ OldOf(u, s) = {c}
  BY DEF Ending
<1>3. CreatedFor(u, "invite", s) = {} /\ CreatedFor(u, "rsvp", s) = {}
  BY <1>1, CreatedIs
<1>4. row # NoRow /\ row.rsvp = c.cid => RsvpEnds(row, u)
  BY <1>1, OwnArchives DEF RsvpEnds
<1> HIDE DEF s, row2
<1>6. \/ row2 = NoRow /\ row = NoRow
      \/ row # NoRow /\ NewRow(row2, row, s, u)
  BY <1>3, HandledIs DEF row2, s
<1>7. row # NoRow => row2 # NoRow
  BY <1>6, ReadModelConstants DEF NewRow
<1>8. row # NoRow /\ row.rsvp = c.cid => row2.status \in Over
  BY <1>3, <1>4, <1>6 DEF NewRow, NewStatus, Over
<1> QED
  BY <1>3, <1>6, <1>7, <1>8 DEF NewRow, Base, row2, s

-------------------------------------------------------------------------------
(* What the rows tend to *)

(* What will be said of a row once the updates of q are handled. *)
Will(q, G, B, ok) == Tends(q, Len(q), G, B, ok)

ToInvited(q, row, r) ==
    Will(q, Inviting(r), About(SlotOf(r)) \ Inviting(r),
         row # NoRow /\ row.status = "invited" /\ row.invite = r)

ToLive(q, row, c) ==
    Will(q, Making(c), About(c.slot) \ Making(c), row = NoRow \/ Matches(row, c))

(* The row is there, and its invite is gone. *)
ToJoined(q, row, r) ==
    /\ Will(q, Accepting(r), Reinviting(r), row = NoRow \/ row.invite # r)
    /\ Will(q, Inviting(r), InvitingAny(SlotOf(r)) \ Inviting(r),
            row # NoRow /\ row.invite \in {r, None})

ToAccepted(q, row, r) ==
    Will(q, Inviting(r), About(SlotOf(r)) \ (Inviting(r) \cup Accepting(r)),
         row # NoRow /\ row.status \in {"invited", "cancelled", "declined", "accepted"})

ToDropped(q, row, r) ==
    /\ Will(q, Dropping(r), About(SlotOf(r)) \ Dropping(r),
            row = NoRow \/ row.invite # r \/ row.status \in Over)
    /\ Will(q, Inviting(r), About(SlotOf(r)) \ (Inviting(r) \cup Dropping(r)),
            row # NoRow /\ row.invite = r)

ToEnded(q, row, c) ==
    /\ Will(q, Ending(c), About(c.slot) \ Ending(c),
            row = NoRow \/ row.rsvp # c.cid \/ row.status \in Over)
    /\ Will(q, Making(c), About(c.slot) \ (Making(c) \cup Ending(c)),
            row = NoRow \/ row.rsvp = c.cid)

(* The row of a slot tends to what became of its RSVP. *)
RsvpTends(q, row, r) ==
    /\ stage[r] = "invited" => ToInvited(q, row, r)
    /\ stage[r] = "live" => /\ ToLive(q, row, RsvpOf(r))
                            /\ ToJoined(q, row, r)
                            /\ ver[r] = 0 => ToAccepted(q, row, r)

OverTends(q, row, r) ==
    \/ stage[r] \in Dropped /\ ToDropped(q, row, r)
    \/ stage[r] \in Gone /\ ToEnded(q, row, RsvpOf(r)) /\ ToJoined(q, row, r)

Blank(row, s) == row = NoRow /\ \A r \in Rsvps : SlotOf(r) = s => stage[r] = "none"

RowTends(q, row, s) ==
    /\ \A r \in Outstanding(s) : RsvpTends(q, row, r)
    /\ Outstanding(s) = {} =>
          Blank(row, s) \/ \E r \in Rsvps : SlotOf(r) = s /\ OverTends(q, row, r)

(* When all updates are handled, it says so. *)
LEMMA RowArrives ==
    ASSUME LedgerOK, NEW s \in Slots, NEW row, RowTends(<<>>, row, s)
    PROVE  /\ \A r \in Outstanding(s) : RowShows(row, r)
           /\ Outstanding(s) = {} /\ row # NoRow => row.status \in Over
           /\ row = NoRow => \A r \in Rsvps : SlotOf(r) = s => stage[r] = "none"
<1>0. \A G, B, ok : Will(<<>>, G, B, ok) => ok
  <2>1. Len(<<>>) = 0
    OBVIOUS
  <2> QED
    BY <2>1, TendsDone DEF Will
<1>1. ASSUME NEW r \in Outstanding(s), stage[r] = "invited" PROVE RowShows(row, r)
  <2>1. row # NoRow /\ row.status = "invited" /\ row.invite = r
    BY <1>0, <1>1 DEF RowTends, RsvpTends, ToInvited
  <2> QED
    BY <1>1, <2>1 DEF RowShows
<1>2. ASSUME NEW r \in Outstanding(s), stage[r] = "live" PROVE RowShows(row, r)
  <2> DEFINE c == RsvpOf(r)
  <2> HIDE DEF c
  <2>1. /\ row = NoRow \/ Matches(row, c)
        /\ row = NoRow \/ row.invite # r
        /\ row # NoRow /\ row.invite \in {r, None}
        /\ ver[r] = 0 => row.status \in {"invited", "cancelled", "declined", "accepted"}
    BY <1>0, <1>2 DEF RowTends, RsvpTends, ToLive, ToJoined, ToAccepted, c
  <2>2. /\ c.cid = <<r, ver[r]>> /\ c.checkedIn = (r \in checkedIn) /\ c.withdrawn = (r \in withdrawn)
        /\ c.alloc = IF allocOf[r] = NoAlloc THEN None ELSE allocOf[r]
    BY DEF c, RsvpOf
  <2>3. /\ r \in checkedIn => r \notin withdrawn /\ allocOf[r] # NoAlloc
        /\ allocOf[r] # NoAlloc => allocOf[r] # None
        /\ ver[r] # 0 => allocOf[r] # NoAlloc \/ r \in withdrawn
    <3>1. r \in Rsvps /\ Born(r) /\ allocOf[r] \in Allocs \cup {NoAlloc}
      BY DEF Outstanding, LedgerOK, BaseOK, TypeOK
    <3> QED
      BY <3>1, ReadModelConstants DEF LedgerOK, CheckedInHoldsStake, Born
  <2>4. row.rsvp = <<r, ver[r]>> /\ row.invite = None /\ StatusFits(row.status, c)
    BY <2>1, <2>2 DEF Matches
  <2>5. row.checkedIn = (r \in checkedIn)
    <3>1. row.checkedIn = (c.checkedIn /\ ~c.withdrawn)
      BY <2>1 DEF Matches
    <3>2. CASE r \in checkedIn
      <4>0. (r \in checkedIn) = TRUE /\ (r \in withdrawn) = FALSE
        BY <2>3, <3>2
      <4>1. c.checkedIn = TRUE /\ c.withdrawn = FALSE
        BY <2>2, <4>0, Zenon
      <4> QED
        BY <3>1, <3>2, <4>1
    <3>3. CASE r \notin checkedIn
      <4>0. (r \in checkedIn) = FALSE
        BY <3>3
      <4>1. c.checkedIn = FALSE
        BY <2>2, <4>0, Zenon
      <4> QED
        BY <3>1, <3>3, <4>1
    <3> QED
      BY <3>2, <3>3
  <2>6. r \notin withdrawn => row.alloc = IF allocOf[r] = NoAlloc THEN None ELSE allocOf[r]
    BY <2>1, <2>2 DEF Matches
  <2>7. row.status = IF r \in withdrawn THEN "withdrawn"
                     ELSE IF allocOf[r] # NoAlloc THEN "staked" ELSE "accepted"
    <3>1. CASE r \in withdrawn
      BY <2>2, <2>4, <3>1 DEF StatusFits
    <3>2. CASE r \notin withdrawn /\ allocOf[r] # NoAlloc
      BY <2>2, <2>3, <2>4, <3>2 DEF StatusFits
    <3>3. CASE r \notin withdrawn /\ allocOf[r] = NoAlloc
      <4>1. row.status \notin {"invited", "cancelled", "declined"}
        BY <2>2, <2>3, <2>4, <3>3 DEF StatusFits
      <4> QED
        BY <2>1, <2>3, <3>3, <4>1
    <3> QED
      BY <3>1, <3>2, <3>3
  <2> QED
    BY <1>2, <2>1, <2>4, <2>5, <2>6, <2>7 DEF RowShows
<1>3. ASSUME NEW r \in Rsvps, OverTends(<<>>, row, r) PROVE row # NoRow /\ row.status \in Over
  <2>1. CASE ToDropped(<<>>, row, r)
    BY <1>0, <2>1 DEF ToDropped
  <2>2. CASE ToEnded(<<>>, row, RsvpOf(r)) /\ ToJoined(<<>>, row, r)
    BY <1>0, <2>2 DEF ToEnded, ToJoined
  <2> QED
    BY <1>3, <2>1, <2>2 DEF OverTends
<1>4. \A r \in Outstanding(s) : stage[r] \in {"invited", "live"}
  BY DEF Outstanding
<1>5. \A r \in Outstanding(s) : row # NoRow
  BY <1>1, <1>2, <1>4 DEF RowShows
<1> QED
  BY <1>1, <1>2, <1>3, <1>4, <1>5 DEF RowTends, Blank

(* An update is handled. *)
LEMMA WillBehead ==
    ASSUME NEW q \in Seq(Update), q # <<>>, NEW G, NEW B, NEW ok, NEW ok2, Will(q, G, B, ok),
           Head(q) \in G => ok2, Head(q) \notin G /\ Head(q) \notin B /\ ok => ok2
    PROVE  Will(Tail(q), G, B, ok2)
<1>1. Behead(q, Tail(q)) /\ Head(q) = q[1]
  BY TailIs
<1>2. Len(q) \in 1..Len(q) /\ Len(Tail(q)) = Len(q) - 1
  BY <1>1 DEF Behead
<1>3. Tends(Tail(q), Len(q) - 1, G, B, ok2)
  BY <1>1, <1>2, TendsBehead DEF Will
<1> QED
  BY <1>2, <1>3 DEF Will

LEMMA HandledElse ==
    ASSUME NEW u \in Update, Honest(u), NEW r \in Rsvps, NEW row \in Row \cup {NoRow},
           row = NoRow \/ row.invite # r, u \notin Reinviting(r)
    PROVE  LET row2 == HandleRsvp(row, SlotOf(r), u)
           IN  row2 = NoRow \/ row2.invite # r
<1> DEFINE s == SlotOf(r)
           row2 == HandleRsvp(row, s, u)
<1>0. s \in Slots
  BY SlotIs
<1>1. CreatedFor(u, "invite", s) # {} => TheInvite(u, s).cid # r
  <2>1. SUFFICES ASSUME CreatedFor(u, "invite", s) # {}, TheInvite(u, s).cid = r PROVE FALSE
    OBVIOUS
  <2> DEFINE I == TheInvite(u, s)
  <2>2. I \in CreatedFor(u, "invite", s)
    BY <2>1, CreatesTyped
  <2> HIDE DEF I
  <2>3. I \in NewOf(u, s) /\ I \in u.created /\ I.kind = "invite"
    BY <2>2 DEF CreatedFor, NewOf
  <2>4. I = InviteOf(r)
    BY <2>1, <2>3 DEF Honest, Says, InviteSays, I
  <2> QED
    BY <2>3, <2>4 DEF Reinviting
<1>2. Base(row).invite # r
  BY ReadModelConstants DEF Base, BlankRow
<1> HIDE DEF s, row2
<1>3. row2 = NoRow \/ NewRow(row2, row, s, u)
  BY <1>0, HandledIs DEF row2
<1>4. None # r
  BY ReadModelConstants
<1> QED
  BY <1>1, <1>2, <1>3, <1>4 DEF NewRow, NewInvite, row2, s

LEMMA RsvpTendsHandled ==
    ASSUME NEW q \in Seq(Update), q # <<>>, Honest(Head(q)), NEW r \in Rsvps,
           NEW row \in Row \cup {NoRow}, RowSays(row, SlotOf(r))
    PROVE  LET row2 == HandleRsvp(row, SlotOf(r), Head(q))
           IN  /\ RsvpTends(q, row, r) => RsvpTends(Tail(q), row2, r)
               /\ OverTends(q, row, r) => OverTends(Tail(q), row2, r)
<1> DEFINE s == SlotOf(r)
           u == Head(q)
           q2 == Tail(q)
           row2 == HandleRsvp(row, s, u)
           c == RsvpOf(r)
<1>1. s \in Slots /\ u \in Update
  <2>1. Head(q) = q[1] /\ q[1] \in Update
    BY TailIs
  <2> QED
    BY <2>1, SlotIs
<1>2. c.kind = "rsvp" /\ c.slot = s
  BY DEF RsvpOf
<1>3. /\ u \notin About(s) => SameRow(row, row2)
      /\ row # NoRow => row2 # NoRow
      /\ u \notin InvitingAny(s) /\ row # NoRow => row2.invite \in {row.invite, None}
  BY <1>1, HandledKeeps
<1>4. u \in Inviting(r) => row2 # NoRow /\ row2.status = "invited" /\ row2.invite = r
  BY <1>1, HandledInvite
<1>5. u \in Making(c) => /\ row = NoRow => row2 = NoRow
                         /\ row # NoRow => row2 # NoRow /\ Matches(row2, c)
  <2> HIDE DEF c
  <2> QED
    BY <1>1, <1>2, HandledMake
<1>6. u \in Accepting(r) =>
        /\ row2 = NoRow \/ row2.invite # r
        /\ row # NoRow /\ row.status \in {"invited", "cancelled", "declined", "accepted"} =>
              row2.status \in {"invited", "cancelled", "declined", "accepted"}
  <2> DEFINE d == FirstOf(r)
  <2>1. /\ d.kind = "rsvp" /\ d.slot = s /\ d.alloc = None
        /\ d.checkedIn = FALSE /\ d.withdrawn = FALSE
    BY DEF FirstOf
  <2> HIDE DEF d, c
  <2>2. SUFFICES ASSUME u \in Accepting(r)
                 PROVE  /\ row2 = NoRow \/ row2.invite # r
                        /\ row # NoRow /\ row.status \in {"invited", "cancelled", "declined", "accepted"} =>
                              row2.status \in {"invited", "cancelled", "declined", "accepted"}
    OBVIOUS
  <2>3. u \in Making(d) /\ InviteOf(r) \in OldOf(u, s)
    BY <2>1, <2>2 DEF Accepting, Making, d
  <2>4. /\ row # NoRow => row2.status = RsvpStatus(row, d)
        /\ row2 = NoRow \/ row2.invite # r
    BY <1>1, <2>1, <2>3, HandledMake
  <2> QED
    BY <2>1, <2>4 DEF RsvpStatus
<1>7. u \in Dropping(r) => /\ row = NoRow => row2 = NoRow
                           /\ row # NoRow => /\ row2 # NoRow /\ row2.invite = row.invite
                                             /\ row.invite = r => row2.status = "declined"
  BY <1>1, HandledDrop
<1>8. u \in Ending(c) => /\ row = NoRow => row2 = NoRow
                         /\ row # NoRow => /\ row2 # NoRow /\ row2.rsvp = row.rsvp
                                           /\ row.rsvp = c.cid => row2.status \in Over
  <2> HIDE DEF c
  <2> QED
    BY <1>1, <1>2, HandledEnd
<1>9. u \notin Reinviting(r) /\ (row = NoRow \/ row.invite # r) => row2 = NoRow \/ row2.invite # r
  BY <1>1, HandledElse
<1>10. \A G, B, ok, ok2 :
          Will(q, G, B, ok) /\ (u \in G => ok2) /\ (u \notin G /\ u \notin B /\ ok => ok2)
            => Will(q2, G, B, ok2)
  BY WillBehead
<1> HIDE DEF s, u, q2, row2, c
<1>11. ToInvited(q, row, r) => ToInvited(q2, row2, r)
  BY <1>3, <1>4, <1>10 DEF ToInvited, SameRow, s
<1>12. ToLive(q, row, c) => ToLive(q2, row2, c)
  BY <1>2, <1>3, <1>5, <1>10 DEF ToLive, SameRow, Matches
<1>13. ToJoined(q, row, r) => ToJoined(q2, row2, r)
  BY <1>3, <1>4, <1>6, <1>9, <1>10 DEF ToJoined, s
<1>14. ToAccepted(q, row, r) => ToAccepted(q2, row2, r)
  BY <1>3, <1>4, <1>6, <1>10 DEF ToAccepted, SameRow, s
<1>15. ToDropped(q, row, r) => ToDropped(q2, row2, r)
  BY <1>3, <1>4, <1>7, <1>10 DEF ToDropped, SameRow, s, Over
<1>16. ToEnded(q, row, c) => ToEnded(q2, row2, c)
  BY <1>2, <1>3, <1>5, <1>8, <1>10 DEF ToEnded, SameRow, Matches
<1> QED
  BY <1>11, <1>12, <1>13, <1>14, <1>15, <1>16 DEF RsvpTends, OverTends, s, u, q2, row2, c

LEMMA RowTendsHandled ==
    ASSUME NEW q \in Seq(Update), q # <<>>, Honest(Head(q)), NEW s \in Slots,
           NEW row \in Row \cup {NoRow}, RowSays(row, s), RowTends(q, row, s)
    PROVE  RowTends(Tail(q), HandleRsvp(row, s, Head(q)), s)
<1> DEFINE row2 == HandleRsvp(row, s, Head(q))
<1>1. \A r \in Rsvps : SlotOf(r) = s =>
        /\ RsvpTends(q, row, r) => RsvpTends(Tail(q), row2, r)
        /\ OverTends(q, row, r) => OverTends(Tail(q), row2, r)
  BY RsvpTendsHandled
<1>2. Blank(row, s) => Blank(row2, s)
  <2>1. SUFFICES ASSUME Blank(row, s) PROVE Blank(row2, s)
    OBVIOUS
  <2>2. Head(q) \in Update
    BY TailIs
  <2>3. Head(q) \notin InvitingAny(s)
    <3>1. SUFFICES ASSUME NEW c \in NewOf(Head(q), s), c.kind = "invite" PROVE FALSE
      BY DEF InvitingAny
    <3>2. c \in Head(q).created /\ c.slot = s /\ c \in Paper
      BY <2>2 DEF NewOf, Update
    <3>3. c.cid \in Rsvps /\ InviteSays(c)
      BY <3>1, <3>2, PaperKinds DEF Honest, Says, InvitePapers
    <3>4. stage[c.cid] # "none" /\ SlotOf(c.cid) = s
      BY <3>2, <3>3 DEF InviteSays, InviteOf
    <3> QED
      BY <2>1, <3>3, <3>4 DEF Blank
  <2>4. row2 = NoRow
    BY <2>1, <2>2, <2>3, HandledKeeps DEF Blank
  <2> QED
    BY <2>1, <2>4 DEF Blank
<1> HIDE DEF row2
<1>3. \A r \in Outstanding(s) : r \in Rsvps /\ SlotOf(r) = s
  BY DEF Outstanding
<1>4. RowTends(Tail(q), row2, s)
  BY <1>1, <1>2, <1>3 DEF RowTends
<1> QED
  BY <1>4 DEF row2

(* All updates are to be handled twice. *)
LEMMA RowTendsTwice ==
    ASSUME NEW q \in Seq(Update), NEW s, NEW row, RowTends(q, row, s)
    PROVE  RowTends(q \o q, row, s)
<1>1. ASSUME NEW G, NEW B, NEW ok, Will(q, G, B, ok) PROVE Will(q \o q, G, B, ok)
  BY <1>1, RepeatIs, TendsTwice DEF Will
<1>2. ASSUME NEW r
      PROVE  /\ RsvpTends(q, row, r) => RsvpTends(q \o q, row, r)
             /\ OverTends(q, row, r) => OverTends(q \o q, row, r)
  BY <1>1 DEF RsvpTends, OverTends, ToInvited, ToLive, ToJoined, ToAccepted, ToDropped, ToEnded
<1> QED
  BY <1>2 DEF RowTends

(* Another update is published. *)
LEMMA WillGrow ==
    ASSUME NEW q \in Seq(Update), NEW u \in Update, NEW G, NEW B, NEW ok,
           u \in G \/ Will(q, G, B, ok), u \notin B
    PROVE  Will(Append(q, u), G, B, ok)
  BY AppendIs, TendsGood, TendsNeutral DEF Will

LEMMA WillWeaker ==
    ASSUME NEW q \in Seq(Update), NEW G, NEW B, NEW ok, Will(q, G, B, ok),
           NEW C, NEW ok2, C \subseteq B, ok => ok2
    PROVE  Will(q, G, C, ok2)
<1>1. 1..Len(q) = DOMAIN q /\ Len(q) \in Nat
  OBVIOUS
<1> QED
  BY <1>1, TendsWeaker DEF Will

(* Nothing happened to the RSVPs of the slot. *)
LEMMA RowTendsKept ==
    ASSUME NEW q \in Seq(Update), NEW q2, NEW s \in Slots, NEW row, RowTends(q, row, s),
           \A p \in Rsvps : SlotOf(p) = s => Untouched(p),
           q2 = q \/ \E u \in Update : u \notin About(s) /\ q2 = Append(q, u)
    PROVE  RowTends(q2, row, s)'
<1>1. ASSUME NEW G, NEW B, NEW ok, Will(q, G, B, ok), \A u \in Update : u \notin About(s) => u \notin B
      PROVE  Will(q2, G, B, ok)
  BY <1>1, WillGrow
<1>2. \A r : \A u \in Update : u \notin About(SlotOf(r)) => u \notin Reinviting(r)
  BY DEF About, Reinviting
<1>3. \A u \in Update : u \notin About(s) => u \notin InvitingAny(s)
  BY DEF About, InvitingAny
<1>4. ASSUME NEW r \in Rsvps, SlotOf(r) = s
      PROVE  /\ RsvpTends(q, row, r) => RsvpTends(q2, row, r)
             /\ OverTends(q, row, r) => OverTends(q2, row, r)
  <2>1. RsvpOf(r).slot = s
    BY <1>4 DEF RsvpOf
  <2>2. ToInvited(q, row, r) => ToInvited(q2, row, r)
    BY <1>1, <1>4 DEF ToInvited
  <2>3. ToLive(q, row, RsvpOf(r)) => ToLive(q2, row, RsvpOf(r))
    BY <1>1, <2>1 DEF ToLive
  <2>4. ToJoined(q, row, r) => ToJoined(q2, row, r)
    BY <1>1, <1>2, <1>3, <1>4 DEF ToJoined
  <2>5. ToAccepted(q, row, r) => ToAccepted(q2, row, r)
    BY <1>1, <1>4 DEF ToAccepted
  <2>6. ToDropped(q, row, r) => ToDropped(q2, row, r)
    BY <1>1, <1>4 DEF ToDropped
  <2>7. ToEnded(q, row, RsvpOf(r)) => ToEnded(q2, row, RsvpOf(r))
    BY <1>1, <2>1 DEF ToEnded
  <2> QED
    BY <2>2, <2>3, <2>4, <2>5, <2>6, <2>7 DEF RsvpTends, OverTends
<1>5. Outstanding(s)' = Outstanding(s)
  BY DEF Outstanding, Untouched, SlotOf
<1>6. ASSUME NEW r \in Rsvps, SlotOf(r) = s
      PROVE  /\ RsvpTends(q2, row, r) => RsvpTends(q2, row, r)'
             /\ OverTends(q2, row, r) => OverTends(q2, row, r)'
  <2>1. RsvpOf(r)' = RsvpOf(r) /\ stage'[r] = stage[r] /\ ver'[r] = ver[r]
    BY <1>6, PaperStays DEF Untouched, SamePaper
  <2> QED
    BY <2>1 DEF RsvpTends, OverTends, ToInvited, ToLive, ToJoined, ToAccepted, ToDropped, ToEnded
<1>7. Blank(row, s) => Blank(row, s)'
  BY DEF Blank, Untouched, SlotOf
<1>8. \A r \in Outstanding(s) : r \in Rsvps /\ SlotOf(r) = s
  BY DEF Outstanding
<1>9. \A r : SlotOf(r)' = SlotOf(r)
  BY DEF SlotOf
<1> QED
  BY <1>4, <1>5, <1>6, <1>7, <1>8, <1>9 DEF RowTends

(* One RSVP of the slot moved on. *)
LEMMA RowTendsTurned ==
    ASSUME LedgerOK, NEW q \in Seq(Update), NEW u \in Update, NEW s \in Slots, NEW row,
           RowTends(q, row, s), OneOut(s), OneOut(s)',
           NEW r \in Rsvps, SlotOf(r) = s,
           \A p \in Rsvps : SlotOf(p) = s /\ p # r => Untouched(p),
           Turns(r, NewOf(u, s), OldOf(u, s))
    PROVE  RowTends(Append(q, u), row, s)'
<1> DEFINE q2 == Append(q, u)
           c == RsvpOf(r)
           d == RsvpOf(r)'
           f == FirstOf(r)
<1> SUFFICES RowTends(q2, row, s)'
  OBVIOUS
<1>1. /\ c.kind = "rsvp" /\ c.slot = s /\ d.kind = "rsvp" /\ d.slot = s
      /\ f.kind = "rsvp" /\ f.slot = s /\ InviteOf(r).kind = "invite"
  BY DEF RsvpOf, FirstOf, InviteOf, SlotOf
<1>2. ASSUME NEW G, NEW B, NEW ok, u \in G \/ Will(q, G, B, ok), u \notin B
      PROVE  Will(q2, G, B, ok)
  BY <1>2, WillGrow
<1>3. ASSUME NEW G, NEW B, NEW ok, Will(q, G, B, ok), NEW C, NEW ok2, C \subseteq B, ok => ok2,
             u \notin C
      PROVE  Will(q2, G, C, ok2)
  BY <1>3, WillWeaker, WillGrow
<1>4. \A p \in Outstanding(s)' : p = r \/ p \in Outstanding(s)
  BY DEF Outstanding, Untouched, SlotOf
<1>5. r \in Outstanding(s)' => \A p \in Outstanding(s)' : p = r
  BY DEF OneOut
<1>6. r \in Outstanding(s) => Outstanding(s) = {r}
  BY DEF OneOut
<1>7. /\ stage[r] \in {"invited", "live"} => r \in Outstanding(s)
      /\ stage'[r] \in {"invited", "live"} <=> r \in Outstanding(s)'
  BY DEF Outstanding, SlotOf
<1>8. stage[r] \in {"invited", "live"} => RsvpTends(q, row, r)
  BY <1>7 DEF RowTends
<1>9. r \in Outstanding(s)' /\ RsvpTends(q2, row, r)' => RowTends(q2, row, s)'
  BY <1>5 DEF RowTends
<1>10. ASSUME r \in Outstanding(s), r \notin Outstanding(s)', OverTends(q2, row, r)'
       PROVE  RowTends(q2, row, s)'
  <2>1. Outstanding(s)' = {}
    BY <1>4, <1>6, <1>10
  <2>2. SlotOf(r)' = s
    BY DEF SlotOf
  <2> QED
    BY <1>10, <2>1, <2>2 DEF RowTends
<1> HIDE DEF c, d, f, q2
<1>11. CASE stage[r] = "none" /\ stage'[r] = "invited" /\ NewOf(u, s) = {InviteOf(r)} /\ OldOf(u, s) = {}
  <2>1. u \in Inviting(r)
    BY <1>11 DEF Inviting
  <2>2. ToInvited(q2, row, r)
    BY <1>2, <2>1 DEF ToInvited
  <2>3. RsvpTends(q2, row, r)'
    BY <1>11, <2>2 DEF RsvpTends, ToInvited
  <2> QED
    BY <1>7, <1>9, <1>11, <2>3
<1>12. CASE /\ stage[r] = "invited" /\ stage'[r] = "live" /\ ver'[r] = 0 /\ d = f
            /\ NewOf(u, s) = {f} /\ OldOf(u, s) = {InviteOf(r)}
  <2>1. ToInvited(q, row, r)
    BY <1>8, <1>12 DEF RsvpTends
  <2>2. InviteOf(r) # f
    BY <1>1
  <2>3. /\ u \in Making(f) /\ u \in Accepting(r) /\ u \notin Reinviting(r)
        /\ u \notin InvitingAny(s)
    BY <1>1, <1>12, <2>2 DEF Making, Accepting, Reinviting, InvitingAny, f
  <2>4. ToLive(q2, row, f)
    BY <1>1, <1>2, <2>3 DEF ToLive
  <2>5. InvitingAny(s) \subseteq About(s)
    BY DEF InvitingAny, About
  <2>6. ToJoined(q2, row, r)
    BY <1>2, <1>3, <2>1, <2>3, <2>5 DEF ToJoined, ToInvited
  <2>7. ToAccepted(q2, row, r)
    BY <1>3, <2>1, <2>3 DEF ToAccepted, ToInvited
  <2>8. RsvpOf(r)' = f
    BY <1>12 DEF d
  <2>9. RsvpTends(q2, row, r)'
    BY <1>12, <2>4, <2>6, <2>7, <2>8 DEF RsvpTends, ToLive, ToJoined, ToAccepted
  <2> QED
    BY <1>7, <1>9, <1>12, <2>9
<1>13. CASE /\ stage[r] = "invited" /\ stage'[r] \in Dropped
            /\ NewOf(u, s) = {} /\ OldOf(u, s) = {InviteOf(r)}
  <2>1. ToInvited(q, row, r)
    BY <1>8, <1>13 DEF RsvpTends
  <2>2. u \in Dropping(r)
    BY <1>13 DEF Dropping
  <2>3. ToDropped(q2, row, r)
    BY <1>2, <1>3, <2>1, <2>2 DEF ToDropped, ToInvited
  <2>4. OverTends(q2, row, r)'
    BY <1>13, <2>3 DEF OverTends, ToDropped
  <2> QED
    BY <1>7, <1>10, <1>13, <2>4 DEF Dropped
<1>14. CASE /\ stage[r] = "live" /\ stage'[r] = "live" /\ ver'[r] # 0
            /\ NewOf(u, s) = {d} /\ OldOf(u, s) = {c}
  <2>1. ToJoined(q, row, r)
    BY <1>8, <1>14 DEF RsvpTends
  <2>2. u \in Making(d) /\ u \notin Reinviting(r) /\ u \notin InvitingAny(s)
    BY <1>1, <1>14 DEF Making, Reinviting, InvitingAny
  <2>3. ToLive(q2, row, d)
    BY <1>1, <1>2, <2>2 DEF ToLive
  <2>4. ToJoined(q2, row, r)
    BY <1>2, <2>1, <2>2 DEF ToJoined
  <2>5. RsvpOf(r)' = d
    BY DEF d
  <2>6. RsvpTends(q2, row, r)'
    BY <1>14, <2>3, <2>4, <2>5 DEF RsvpTends, ToLive, ToJoined
  <2> QED
    BY <1>7, <1>9, <1>14, <2>6
<1>15. CASE /\ stage[r] = "live" /\ stage'[r] \in Gone /\ d = c
            /\ NewOf(u, s) = {} /\ OldOf(u, s) = {c}
  <2>1. ToLive(q, row, c)
    BY <1>8, <1>15 DEF RsvpTends, c
  <2>2. u \in Ending(c)
    BY <1>1, <1>15 DEF Ending
  <2>3. ToEnded(q2, row, c)
    BY <1>1, <1>2, <1>3, <2>1, <2>2 DEF ToEnded, ToLive, Matches
  <2>4. RsvpOf(r)' = c
    BY <1>15 DEF d
  <2>5. u \notin Reinviting(r) /\ u \notin InvitingAny(s)
    BY <1>15 DEF Reinviting, InvitingAny
  <2>6. ToJoined(q2, row, r)
    BY <1>2, <1>8, <1>15, <2>5 DEF RsvpTends, ToJoined
  <2>7. OverTends(q2, row, r)'
    BY <1>15, <2>3, <2>4, <2>6 DEF OverTends, ToEnded, ToJoined
  <2> QED
    BY <1>7, <1>10, <1>15, <2>7 DEF Gone
<1> QED
  BY <1>11, <1>12, <1>13, <1>14, <1>15 DEF Turns, c, d, f

-------------------------------------------------------------------------------
(* The rows of events *)

AboutEvent(e)       == {u \in Update : NewEvent(u, e) # {} \/ OldEvent(u, e) # {}}
MakingEvent(e, cid) == {u \in Update : NewEvent(u, e) = {EventPaper(e, cid)}}
EndingEvent(e, cid) == {u \in Update : NewEvent(u, e) = {} /\ OldEvent(u, e) = {EventPaper(e, cid)}}

ToShown(q, row, e, cid) ==
    Will(q, MakingEvent(e, cid), AboutEvent(e) \ MakingEvent(e, cid),
         row = [cid |-> cid, status |-> cid])

ToSettled(q, row, e, cid) ==
    /\ Will(q, EndingEvent(e, cid), AboutEvent(e) \ EndingEvent(e, cid),
            row = NoRow \/ row.cid # cid \/ row.status = "settled")
    /\ Will(q, MakingEvent(e, cid), AboutEvent(e) \ (MakingEvent(e, cid) \cup EndingEvent(e, cid)),
            row = NoRow \/ row.cid = cid)

EventTends(q, row, e) ==
    /\ EventLive(e) => ToShown(q, row, e, event[e])
    /\ event[e] = "settled" => \E cid \in {"open", "ended"} : ToSettled(q, row, e, cid)

LEMMA EventArrives ==
    ASSUME NEW e, NEW row, EventRowSays(row, e), EventTends(<<>>, row, e)
    PROVE  IF EventLive(e) THEN row = [cid |-> event[e], status |-> event[e]]
           ELSE row # NoRow => row.status = "settled"
<1>1. \A G, B, ok : Will(<<>>, G, B, ok) => ok
  <2>1. Len(<<>>) = 0
    OBVIOUS
  <2> QED
    BY <2>1, TendsDone DEF Will
<1>2. CASE EventLive(e)
  BY <1>1, <1>2 DEF EventTends, ToShown
<1>3. CASE ~EventLive(e) /\ row # NoRow
  <2>1. event[e] = "settled"
    BY <1>3 DEF EventRowSays, Opened, EventLive
  <2> QED
    BY <1>1, <1>3, <2>1 DEF EventTends, ToSettled
<1> QED
  BY <1>2, <1>3

LEMMA EventTendsHandled ==
    ASSUME NEW q \in Seq(Update), q # <<>>, NEW e \in Events, NEW row \in EventRow \cup {NoRow},
           EventRowSays(row, e), EventTends(q, row, e)
    PROVE  EventTends(Tail(q), HandleEvent(row, e, Head(q)), e)
<1> DEFINE u == Head(q)
           q2 == Tail(q)
           row2 == HandleEvent(row, e, u)
<1>0. u \in Update
  BY TailIs
<1>1. u \notin AboutEvent(e) => row2 = row
  <2>1. SUFFICES ASSUME u \notin AboutEvent(e) PROVE row2 = row
    OBVIOUS
  <2>2. NewEvent(u, e) = {} /\ OldEvent(u, e) = {}
    BY <1>0, <2>1 DEF AboutEvent
  <2> QED
    BY <2>2 DEF HandleEvent, NewEvent, OldEvent
<1>2. ASSUME NEW cid, u \in MakingEvent(e, cid)
      PROVE  row2 = [cid |-> cid, status |-> IF row # NoRow /\ row.status = "settled"
                                             THEN "settled" ELSE cid]
  <2>1. NewEvent(u, e) = {EventPaper(e, cid)} /\ EventPaper(e, cid).cid = cid
    BY <1>2 DEF MakingEvent, EventPaper
  <2> QED
    BY <2>1 DEF HandleEvent, NewEvent
<1>3. ASSUME NEW cid, u \in EndingEvent(e, cid)
      PROVE  /\ row = NoRow => row2 = NoRow
             /\ row # NoRow /\ row.cid # cid => row2 = row
             /\ row # NoRow /\ row.cid = cid => row2.cid = cid /\ row2.status = "settled"
  <2>1. NewEvent(u, e) = {} /\ OldEvent(u, e) = {EventPaper(e, cid)}
    BY <1>3 DEF EndingEvent
  <2>2. EventPaper(e, cid).cid = cid
    BY DEF EventPaper
  <2>3. row2 = IF row # NoRow /\ row.cid = cid THEN [row EXCEPT !.status = "settled"] ELSE row
    BY <2>1, <2>2 DEF HandleEvent, NewEvent, OldEvent
  <2>4. row # NoRow => row \in EventRow
    OBVIOUS
  <2> QED
    BY <2>3, <2>4 DEF EventRow
<1>4. \A G, B, ok, ok2 :
          Will(q, G, B, ok) /\ (u \in G => ok2) /\ (u \notin G /\ u \notin B /\ ok => ok2)
            => Will(q2, G, B, ok2)
  BY WillBehead
<1>5. EventLive(e) => ~(row # NoRow /\ row.status = "settled")
  BY DEF EventLive, EventRowSays
<1> HIDE DEF u, q2, row2
<1>6. EventLive(e) => ToShown(q2, row2, e, event[e])
  BY <1>1, <1>2, <1>4, <1>5 DEF EventTends, ToShown
<1>7. \A cid : ToSettled(q, row, e, cid) => ToSettled(q2, row2, e, cid)
  <2>1. SUFFICES ASSUME NEW cid, ToSettled(q, row, e, cid) PROVE ToSettled(q2, row2, e, cid)
    OBVIOUS
  <2>2. Will(q2, EndingEvent(e, cid), AboutEvent(e) \ EndingEvent(e, cid),
             row2 = NoRow \/ row2.cid # cid \/ row2.status = "settled")
    BY <1>1, <1>3, <1>4, <2>1 DEF ToSettled
  <2>3. u \in MakingEvent(e, cid) => row2.cid = cid
    BY <1>2
  <2>4. Will(q2, MakingEvent(e, cid), AboutEvent(e) \ (MakingEvent(e, cid) \cup EndingEvent(e, cid)),
             row2 = NoRow \/ row2.cid = cid)
    BY <1>1, <1>3, <1>4, <2>1, <2>3 DEF ToSettled
  <2> QED
    BY <2>2, <2>4 DEF ToSettled
<1>8. EventTends(q2, row2, e)
  BY <1>6, <1>7 DEF EventTends
<1> QED
  BY <1>8 DEF u, q2, row2

LEMMA EventTendsTwice ==
    ASSUME NEW q \in Seq(Update), NEW e, NEW row, EventTends(q, row, e)
    PROVE  EventTends(q \o q, row, e)
<1>1. ASSUME NEW G, NEW B, NEW ok, Will(q, G, B, ok) PROVE Will(q \o q, G, B, ok)
  BY <1>1, RepeatIs, TendsTwice DEF Will
<1> QED
  BY <1>1 DEF EventTends, ToShown, ToSettled

(* What a transaction says of an event. *)
LEMMA TellsEvent ==
    ASSUME BaseOK, BaseOK', NEW e \in Events
    PROVE  /\ NewEvent(Transaction, e) = EventFace(e)' \ EventFace(e)
           /\ OldEvent(Transaction, e) = EventFace(e) \ EventFace(e)'
<1>1. Transaction.created = Created /\ Transaction.archived = Archived
  BY DEF Transaction
<1>2. ContractFacts /\ ContractFacts'
  BY ContractsAre, ContractsNext
<1>3. \A c : c \in EventFace(e) \/ c \in EventFace(e)' => c.kind = "event" /\ c.event = e
  BY DEF EventFace, EventPaper
<1>4. \A c : c.kind = "event" /\ c.event = e =>
        (c \in Contracts <=> c \in EventFace(e)) /\ (c \in Contracts' <=> c \in EventFace(e)')
  BY <1>2, <1>3 DEF ContractFacts, EventFace, EventPaper
<1>5. \A c : /\ c \in Created <=> c \in Contracts' \ Contracts /\ c.kind # "alloc"
             /\ c \in Archived <=> c \in Contracts \ Contracts'
  BY TellsNew
<1>6. \A c : c \in NewEvent(Transaction, e) <=> c \in EventFace(e)' \ EventFace(e)
  <2>1. SUFFICES ASSUME NEW c
                 PROVE  c \in NewEvent(Transaction, e) <=> c \in EventFace(e)' \ EventFace(e)
    OBVIOUS
  <2>2. CASE c.kind = "event" /\ c.event = e
    BY <1>1, <1>4, <1>5, <2>2 DEF NewEvent
  <2>3. CASE ~(c.kind = "event" /\ c.event = e)
    BY <1>3, <2>3 DEF NewEvent
  <2> QED
    BY <2>2, <2>3
<1>7. \A c : c \in OldEvent(Transaction, e) <=> c \in EventFace(e) \ EventFace(e)'
  <2>1. SUFFICES ASSUME NEW c
                 PROVE  c \in OldEvent(Transaction, e) <=> c \in EventFace(e) \ EventFace(e)'
    OBVIOUS
  <2>2. CASE c.kind = "event" /\ c.event = e
    BY <1>1, <1>4, <1>5, <2>2 DEF OldEvent
  <2>3. CASE ~(c.kind = "event" /\ c.event = e)
    BY <1>3, <2>3 DEF OldEvent
  <2> QED
    BY <2>2, <2>3
<1> QED
  BY <1>6, <1>7

LEMMA EventTendsStep ==
    ASSUME BaseOK, BaseOK', [Next]_vars, NEW e \in Events, NEW row,
           NEW q \in Seq(Update), NEW q2, EventTends(q, row, e),
           \/ Created \cup Archived = {} /\ q2 = q
           \/ \E u \in Update : u = Transaction /\ q2 = Append(q, u)
    PROVE  EventTends(q2, row, e)'
<1>1. PICK t : t = Transaction
  OBVIOUS
<1>2. NewEvent(t, e) = EventFace(e)' \ EventFace(e) /\ OldEvent(t, e) = EventFace(e) \ EventFace(e)'
  BY <1>1, TellsEvent
<1>3. \/ Created \cup Archived = {} /\ q2 = q
      \/ t \in Update /\ q2 = Append(q, t)
  BY <1>1
<1>4. Created \cup Archived = {} => NewEvent(t, e) = {} /\ OldEvent(t, e) = {}
  BY <1>1 DEF Transaction, NewEvent, OldEvent
<1>5. ASSUME NEW G, NEW B, NEW ok, NEW ok2, NEW C, t \in G \/ Will(q, G, B, ok),
             C \subseteq B, ok => ok2, t \notin C, q2 = Append(q, t), t \in Update
      PROVE  Will(q2, G, C, ok2)
  BY <1>5, WillWeaker, WillGrow
<1>6. CASE event'[e] = event[e]
  <2>1. EventFace(e)' = EventFace(e)
    BY <1>6 DEF EventFace, EventLive
  <2>2. t \notin AboutEvent(e)
    BY <1>2, <2>1 DEF AboutEvent
  <2>3. EventTends(q2, row, e)
    <3>1. CASE q2 = q
      BY <3>1
    <3>2. CASE t \in Update /\ q2 = Append(q, t)
      <4>1. \A cid : ToShown(q, row, e, cid) => ToShown(q2, row, e, cid)
        BY <1>5, <2>2, <3>2 DEF ToShown
      <4>2. \A cid : ToSettled(q, row, e, cid) => ToSettled(q2, row, e, cid)
        BY <1>5, <2>2, <3>2 DEF ToSettled
      <4> QED
        BY <4>1, <4>2 DEF EventTends
    <3> QED
      BY <1>3, <3>1, <3>2
  <2> QED
    BY <1>6, <2>3 DEF EventTends, EventLive, ToShown, ToSettled
<1>7. ASSUME NEW cid \in {"open", "ended"}, event'[e] = cid, event[e] # cid
      PROVE  EventTends(q2, row, e)'
  <2>1. NewEvent(t, e) = {EventPaper(e, cid)}
    <3>1. EventFace(e)' = {EventPaper(e, cid)} /\ EventPaper(e, cid) \notin EventFace(e)
      BY <1>7 DEF EventFace, EventLive, EventPaper
    <3> QED
      BY <1>2, <3>1
  <2>2. t \in MakingEvent(e, cid) /\ q2 = Append(q, t) /\ t \in Update
    BY <1>3, <1>4, <2>1 DEF MakingEvent
  <2>3. ToShown(q2, row, e, cid)
    BY <1>5, <2>2 DEF ToShown
  <2>4. event'[e] # "settled"
    BY <1>7
  <2> QED
    BY <1>7, <2>3, <2>4 DEF EventTends, ToShown
<1>8. ASSUME event[e] \in {"open", "ended"}, event'[e] = "settled" PROVE EventTends(q2, row, e)'
  <2> DEFINE cid == event[e]
  <2>1. NewEvent(t, e) = {} /\ OldEvent(t, e) = {EventPaper(e, cid)}
    <3>1. EventFace(e)' = {} /\ EventFace(e) = {EventPaper(e, cid)}
      BY <1>8 DEF EventFace, EventLive
    <3> QED
      BY <1>2, <3>1
  <2>2. t \in EndingEvent(e, cid) /\ q2 = Append(q, t) /\ t \in Update
    BY <1>3, <1>4, <2>1 DEF EndingEvent
  <2>3. ToShown(q, row, e, cid)
    BY <1>8 DEF EventTends, EventLive
  <2> HIDE DEF cid
  <2>4. ToSettled(q2, row, e, cid)
    <3>1. row = [cid |-> cid, status |-> cid] => row.cid = cid
      OBVIOUS
    <3>2. Will(q, MakingEvent(e, cid), AboutEvent(e) \ MakingEvent(e, cid),
               row = [cid |-> cid, status |-> cid])
      BY <2>3 DEF ToShown
    <3>3. Will(q2, MakingEvent(e, cid), AboutEvent(e) \ (MakingEvent(e, cid) \cup EndingEvent(e, cid)),
               row = NoRow \/ row.cid = cid)
      <4> DEFINE B == AboutEvent(e) \ MakingEvent(e, cid)
                 C == AboutEvent(e) \ (MakingEvent(e, cid) \cup EndingEvent(e, cid))
      <4>1. C \subseteq B /\ t \notin C
        BY <2>2
      <4> HIDE DEF B, C
      <4>2. Will(q, MakingEvent(e, cid), B, row = [cid |-> cid, status |-> cid])
        BY <3>2 DEF B
      <4>3. Will(q, MakingEvent(e, cid), C, row = NoRow \/ row.cid = cid)
        BY <3>1, <4>1, <4>2, WillWeaker
      <4>4. Will(q2, MakingEvent(e, cid), C, row = NoRow \/ row.cid = cid)
        BY <2>2, <4>1, <4>3, WillGrow
      <4> QED
        BY <4>4 DEF C
    <3>4. Will(q2, EndingEvent(e, cid), AboutEvent(e) \ EndingEvent(e, cid),
               row = NoRow \/ row.cid # cid \/ row.status = "settled")
      BY <1>5, <2>2
    <3> QED
      BY <3>3, <3>4 DEF ToSettled
  <2>5. cid \in {"open", "ended"}
    BY <1>8 DEF cid
  <2> QED
    <3>1. PICK k \in {"open", "ended"} : ToSettled(q2, row, e, k)
      BY <2>4, <2>5
    <3>2. ToSettled(q2, row, e, k)'
      BY <3>1 DEF ToSettled
    <3> QED
      BY <1>8, <3>1, <3>2 DEF EventTends, EventLive, ToSettled
<1>9. CASE event'[e] \notin {"open", "ended", "settled"}
  BY <1>9 DEF EventTends, EventLive
<1> QED
  BY <1>6, <1>7, <1>8, <1>9, EventForward DEF BaseOK

-------------------------------------------------------------------------------
(* The rows follow the ledger *)

(* What the feed still delivers makes the rows what the ledger says; and so  *)
(* does what a new subscription would deliver.                               *)
FeedTends ==
    /\ \A e \in Events : /\ EventTends(queue, eventRow[e], e)
                         /\ EventTends(resend, eventRow[e], e)
    /\ \A s \in Slots \ crowded : /\ RowTends(queue, rows[s], s)
                                  /\ RowTends(resend, rows[s], s)

(* Only an RSVP checks in. *)
Plain(row) == row # NoRow /\ row.rsvp = None => row.checkedIn = FALSE

RowsTend == RowsOK /\ Counted /\ FeedTends /\ \A s \in Slots : Plain(rows[s])

LEMMA RowTendsStep ==
    ASSUME LedgerOK, LedgerOK', [Next]_vars, NEW s \in Slots, OneOut(s), OneOut(s)', NEW row,
           NEW q \in Seq(Update), RowTends(q, row, s), NEW q2,
           \/ Created \cup Archived = {} /\ q2 = q
           \/ \E u \in Update : u = Transaction /\ q2 = Append(q, u)
    PROVE  RowTends(q2, row, s)'
<1>1. BaseOK /\ BaseOK' /\ TypeOK
  BY DEF LedgerOK, BaseOK
<1>2. PICK t : t = Transaction
  OBVIOUS
<1>3. \/ Created \cup Archived = {} /\ q2 = q
      \/ t \in Update /\ q2 = Append(q, t)
  BY <1>2
<1>4. CASE \A p \in Rsvps : SlotOf(p) = s => Untouched(p)
  <2>1. NewOf(t, s) = {} /\ OldOf(t, s) = {}
    BY <1>1, <1>2, <1>4, TellsNothing
  <2>2. t \notin About(s)
    BY <2>1 DEF About
  <2>3. q2 = q \/ \E u \in Update : u \notin About(s) /\ q2 = Append(q, u)
    BY <1>3, <2>2
  <2> QED
    BY <1>4, <2>3, RowTendsKept
<1>5. ASSUME NEW r \in Rsvps, SlotOf(r) = s, Moves(r) \/ Ends(r),
             \A p \in Rsvps : SlotOf(p) = s /\ p # r => Untouched(p)
      PROVE  RowTends(q2, row, s)'
  <2>1. Created \cup Archived # {}
    BY <1>1, <1>5, NothingMoves
  <2>2. t \in Update /\ q2 = Append(q, t)
    BY <1>3, <2>1
  <2>3. NewOf(t, s) = Face(r)' \ Face(r) /\ OldOf(t, s) = Face(r) \ Face(r)'
    BY <1>1, <1>2, <1>5, TellsSlot
  <2>4. Turns(r, NewOf(t, s), OldOf(t, s))
    BY <1>1, <1>5, <2>3, FaceTurns
  <2>5. RowTends(Append(q, t), row, s)'
    BY <1>5, <2>2, <2>4, RowTendsTurned
  <2> QED
    BY <2>2, <2>5
<1> QED
  BY <1>1, <1>4, <1>5, SlotMoves

(* The row and the queues as they are after a step. *)
LEMMA TendsThen ==
    ASSUME NEW q, NEW row, NEW s, rows'[s] = row, RowTends(q, row, s)'
    PROVE  /\ queue' = q => RowTends(queue, rows[s], s)'
           /\ resend' = q => RowTends(resend, rows[s], s)'
<1>1. ASSUME NEW r
      PROVE  /\ queue' = q /\ RsvpTends(q, row, r)' => RsvpTends(queue, rows[s], r)'
             /\ resend' = q /\ RsvpTends(q, row, r)' => RsvpTends(resend, rows[s], r)'
  BY DEF RsvpTends, ToInvited, ToLive, ToJoined, ToAccepted, Will, Matches
<1>2. ASSUME NEW r
      PROVE  /\ queue' = q /\ OverTends(q, row, r)' => OverTends(queue, rows[s], r)'
             /\ resend' = q /\ OverTends(q, row, r)' => OverTends(resend, rows[s], r)'
  BY DEF OverTends, ToJoined, ToDropped, ToEnded, Will
<1> QED
  BY <1>1, <1>2 DEF RowTends, Blank

(* A step of the ledger is published. *)
LEMMA FeedTendsPublished ==
    ASSUME RowsTend, RowsOK', [Next]_vars, Publish, UNCHANGED rowVars
    PROVE  Counted' /\ FeedTends'
<1>1. /\ LedgerOK /\ LedgerOK' /\ TypeOK /\ BaseOK /\ BaseOK'
      /\ queue \in Seq(Update) /\ resend \in Seq(Update)
  BY DEF RowsTend, RowsOK, LedgerOK, BaseOK, FeedTyped
<1>2. Counted'
  BY <1>1, CountedStep DEF RowsTend, Publish
<1>3. PICK q : q = queue
  OBVIOUS
<1>4. PICK p : p = resend
  OBVIOUS
<1>5. PICK t : t = Transaction
  OBVIOUS
<1>6. t \in Update
  BY <1>1, <1>5, TransactionTyped
<1>7. \/ Created \cup Archived = {} /\ queue' = q /\ resend' = p
      \/ queue' = Append(q, t) /\ resend' = Append(p, t)
  BY <1>3, <1>4, <1>5 DEF Publish, feedVars
<1>8. PICK q2 : q2 = queue'
  OBVIOUS
<1>9. PICK p2 : p2 = resend'
  OBVIOUS
<1>10. /\ \/ Created \cup Archived = {} /\ q2 = q
          \/ \E u \in Update : u = Transaction /\ q2 = Append(q, u)
       /\ \/ Created \cup Archived = {} /\ p2 = p
          \/ \E u \in Update : u = Transaction /\ p2 = Append(p, u)
  BY <1>5, <1>6, <1>7, <1>8, <1>9
<1>11. UNCHANGED <<eventRow, rows>>
  BY DEF rowVars
<1>12. ASSUME NEW e \in Events
       PROVE  EventTends(queue, eventRow[e], e)' /\ EventTends(resend, eventRow[e], e)'
  <2>1. PICK row : row = eventRow[e]
    OBVIOUS
  <2>2. EventTends(q, row, e) /\ EventTends(p, row, e)
    BY <1>3, <1>4, <2>1 DEF RowsTend, FeedTends
  <2>3. EventTends(q2, row, e)' /\ EventTends(p2, row, e)'
    BY <1>1, <1>3, <1>4, <1>10, <2>2, EventTendsStep
  <2>4. eventRow'[e] = row
    BY <1>11, <2>1
  <2> QED
    BY <1>8, <1>9, <2>3, <2>4
        DEF EventTends, EventLive, ToShown, ToSettled, Will
<1>13. ASSUME NEW s \in Slots \ crowded'
       PROVE  RowTends(queue, rows[s], s)' /\ RowTends(resend, rows[s], s)'
  <2>1. PICK row : row = rows[s]
    OBVIOUS
  <2>2. s \in Slots \ crowded
    BY <1>13 DEF Publish
  <2>3. RowTends(q, row, s) /\ RowTends(p, row, s) /\ OneOut(s) /\ OneOut(s)'
    BY <1>2, <1>3, <1>4, <2>1, <2>2 DEF RowsTend, FeedTends, Counted
  <2>4. RowTends(q2, row, s)'
    BY <1>1, <1>3, <1>10, <2>2, <2>3, RowTendsStep
  <2>5. RowTends(p2, row, s)'
    BY <1>1, <1>4, <1>10, <2>2, <2>3, RowTendsStep
  <2>6. rows'[s] = row
    BY <1>11, <2>1
  <2> QED
    BY <1>8, <1>9, <2>4, <2>5, <2>6, TendsThen
<1> QED
  BY <1>2, <1>12, <1>13 DEF FeedTends

(* What nothing happened to still tends to the same. *)
LEMMA TendsStay ==
    ASSUME UNCHANGED vars, NEW q, NEW row
    PROVE  /\ \A e : EventTends(q, row, e)' <=> EventTends(q, row, e)
           /\ \A s : RowTends(q, row, s)' <=> RowTends(q, row, s)
<1>1. \A r : RsvpOf(r)' = RsvpOf(r) /\ SlotOf(r)' = SlotOf(r)
  BY DEF vars, RsvpOf, SlotOf
<1>2. \A s : Outstanding(s)' = Outstanding(s)
  BY <1>1 DEF vars, Outstanding
<1>3. UNCHANGED <<stage, ver, event>>
  BY DEF vars, rsvpVars
<1>4. \A e : EventTends(q, row, e)' <=> EventTends(q, row, e)
  BY <1>3 DEF EventTends, EventLive, ToShown, ToSettled
<1>5. \A r : RsvpTends(q, row, r)' <=> RsvpTends(q, row, r)
  BY <1>1, <1>3 DEF RsvpTends, ToInvited, ToLive, ToJoined, ToAccepted
<1>6. \A r : OverTends(q, row, r)' <=> OverTends(q, row, r)
  BY <1>1, <1>3 DEF OverTends, ToDropped, ToEnded, ToJoined
<1>7. \A s : Blank(row, s)' <=> Blank(row, s)
  BY <1>1, <1>3 DEF Blank
<1>8. \A s : RowTends(q, row, s)' <=> RowTends(q, row, s)
  BY <1>1, <1>2, <1>5, <1>6, <1>7 DEF RowTends
<1> QED
  BY <1>4, <1>8

(* An update is handled. *)
LEMMA FeedTendsProjected ==
    ASSUME RowsTend, Project
    PROVE  Counted' /\ FeedTends'
<1>1. /\ UNCHANGED <<vars, crowded>> /\ queue # <<>> /\ queue \in Seq(Update)
      /\ resend \in Seq(Update)
  BY DEF Project, RowsTend, RowsOK, FeedTyped
<1>2. Counted'
  BY <1>1, CountedStep DEF RowsTend, RowsOK, LedgerOK, BaseOK
<1>3. PICK q : q = queue
  OBVIOUS
<1>4. PICK p : p = resend
  OBVIOUS
<1>5. PICK u : u = Head(q)
  OBVIOUS
<1>6. PICK p2 : p2 = resend'
  OBVIOUS
<1>7. /\ q \in Seq(Update) /\ q # <<>> /\ p \in Seq(Update) /\ q[1] = u /\ u \in Update /\ Trusty(u)
      /\ queue' = Tail(q)
  <2>1. 1 \in 1..Len(q) /\ q[1] = u
    BY <1>1, <1>3, <1>5
  <2> QED
    BY <1>1, <1>3, <1>4, <1>5, <2>1 DEF RowsTend, RowsOK, FeedSays, Project
<1>8. \/ p # <<>> /\ Head(p) = u /\ p2 = Tail(p)
      \/ p2 = Tail(q)
  <2>1. CASE stale > 0
    <3>1. Len(p) > 0 /\ q[1] = p[1]
      BY <1>3, <1>4, <1>7, <2>1 DEF RowsTend, RowsOK, FeedTyped
    <3>2. p # <<>> /\ Head(p) = p[1]
      BY <1>7, <3>1
    <3> QED
      BY <1>4, <1>6, <1>7, <2>1, <3>1, <3>2 DEF Project
  <2>2. CASE ~(stale > 0)
    BY <1>3, <1>6, <2>2 DEF Project
  <2> QED
    BY <2>1, <2>2
<1>9. ASSUME NEW e \in Events
      PROVE  EventTends(queue, eventRow[e], e)' /\ EventTends(resend, eventRow[e], e)'
  <2>1. PICK row : row = eventRow[e]
    OBVIOUS
  <2>2. PICK row2 : row2 = HandleEvent(row, e, u)
    OBVIOUS
  <2>3. row \in EventRow \cup {NoRow} /\ EventRowSays(row, e)
    BY <2>1 DEF RowsTend, RowsOK, RowsTyped, RowsSay
  <2>4. EventTends(q, row, e) /\ EventTends(p, row, e)
    BY <1>3, <1>4, <2>1 DEF RowsTend, FeedTends
  <2>5. EventTends(Tail(q), row2, e)
    BY <1>5, <1>7, <2>2, <2>3, <2>4, EventTendsHandled
  <2>6. EventTends(p2, row2, e)
    <3>1. CASE p # <<>> /\ Head(p) = u /\ p2 = Tail(p)
      BY <1>7, <2>2, <2>3, <2>4, <3>1, EventTendsHandled
    <3> QED
      BY <1>8, <2>5, <3>1
  <2>7. eventRow'[e] = row2
    BY <1>3, <1>5, <2>1, <2>2 DEF Project, Apply
  <2>8. \A k : EventTends(k, row2, e)' <=> EventTends(k, row2, e)
    BY <1>1, TendsStay
  <2>9. PICK q2 : q2 = Tail(q)
    OBVIOUS
  <2>10. EventTends(q2, row2, e)' /\ EventTends(p2, row2, e)'
    BY <2>5, <2>6, <2>8, <2>9
  <2>11. queue' = q2 /\ resend' = p2
    BY <1>6, <1>7, <2>9
  <2> QED
    BY <2>7, <2>10, <2>11 DEF EventTends, EventLive, ToShown, ToSettled, Will
<1>10. ASSUME NEW s \in Slots \ crowded'
       PROVE  RowTends(queue, rows[s], s)' /\ RowTends(resend, rows[s], s)'
  <2>1. PICK row : row = rows[s]
    OBVIOUS
  <2>2. PICK row2 : row2 = HandleRsvp(row, s, u)
    OBVIOUS
  <2>3. row \in Row \cup {NoRow} /\ RowSays(row, s) /\ s \in Slots
    BY <2>1 DEF RowsTend, RowsOK, RowsTyped, RowsSay
  <2>4. RowTends(q, row, s) /\ RowTends(p, row, s)
    BY <1>1, <1>3, <1>4, <1>10, <2>1 DEF RowsTend, FeedTends
  <2>5. RowTends(Tail(q), row2, s)
    BY <1>5, <1>7, <2>2, <2>3, <2>4, RowTendsHandled DEF Trusty
  <2>6. RowTends(p2, row2, s)
    <3>1. CASE p # <<>> /\ Head(p) = u /\ p2 = Tail(p)
      BY <1>7, <2>2, <2>3, <2>4, <3>1, RowTendsHandled DEF Trusty
    <3> QED
      BY <1>8, <2>5, <3>1
  <2>7. rows'[s] = row2
    BY <1>3, <1>5, <2>1, <2>2, <2>3 DEF Project, Apply
  <2>8. \A k : RowTends(k, row2, s)' <=> RowTends(k, row2, s)
    BY <1>1, TendsStay
  <2>9. PICK q2 : q2 = Tail(q)
    OBVIOUS
  <2>10. RowTends(q2, row2, s)' /\ RowTends(p2, row2, s)'
    BY <2>5, <2>6, <2>8, <2>9
  <2>11. queue' = q2 /\ resend' = p2
    BY <1>6, <1>7, <2>9
  <2> QED
    BY <2>7, <2>10, <2>11, TendsThen
<1> QED
  BY <1>2, <1>9, <1>10 DEF FeedTends

(* The feed is restarted, or its updates are to be handled twice. *)
LEMMA FeedTendsQueued ==
    ASSUME RowsTend, UNCHANGED <<vars, rowVars, crowded>>,
           Reconnect \/ Restart \/ UNCHANGED feedVars
    PROVE  Counted' /\ FeedTends'
<1>1. Counted'
  BY CountedStep DEF RowsTend, RowsOK, LedgerOK, BaseOK
<1>2. PICK q : q = queue
  OBVIOUS
<1>3. PICK p : p = resend
  OBVIOUS
<1>4. PICK q2 : q2 = queue'
  OBVIOUS
<1>5. /\ q \in Seq(Update) /\ resend' = p
      /\ q2 = q \o q \/ q2 = p \/ q2 = q
  BY <1>2, <1>3, <1>4 DEF Reconnect, Restart, feedVars, RowsTend, RowsOK, FeedTyped
<1>6. ASSUME NEW e \in Events
      PROVE  EventTends(queue, eventRow[e], e)' /\ EventTends(resend, eventRow[e], e)'
  <2>1. PICK row : row = eventRow[e]
    OBVIOUS
  <2>2. EventTends(q, row, e) /\ EventTends(p, row, e)
    BY <1>2, <1>3, <2>1 DEF RowsTend, FeedTends
  <2>3. EventTends(q2, row, e)
    BY <1>5, <2>2, EventTendsTwice
  <2>4. EventTends(q2, row, e)' /\ EventTends(p, row, e)'
    BY <2>2, <2>3, TendsStay
  <2>5. eventRow'[e] = row
    BY <2>1 DEF rowVars
  <2> QED
    BY <1>4, <1>5, <2>4, <2>5 DEF EventTends, EventLive, ToShown, ToSettled, Will
<1>7. ASSUME NEW s \in Slots \ crowded'
      PROVE  RowTends(queue, rows[s], s)' /\ RowTends(resend, rows[s], s)'
  <2>1. PICK row : row = rows[s]
    OBVIOUS
  <2>2. RowTends(q, row, s) /\ RowTends(p, row, s)
    BY <1>2, <1>3, <1>7, <2>1 DEF RowsTend, FeedTends
  <2>3. RowTends(q2, row, s)
    BY <1>5, <2>2, RowTendsTwice
  <2>4. RowTends(q2, row, s)' /\ RowTends(p, row, s)'
    BY <2>2, <2>3, TendsStay
  <2>5. rows'[s] = row
    BY <2>1 DEF rowVars
  <2> QED
    BY <1>4, <1>5, <2>4, <2>5, TendsThen
<1> QED
  BY <1>1, <1>6, <1>7 DEF FeedTends

LEMMA PlainHandled ==
    ASSUME NEW u \in Update, NEW s \in Slots, NEW row \in Row \cup {NoRow}, Plain(row)
    PROVE  Plain(HandleRsvp(row, s, u))
<1> DEFINE row2 == HandleRsvp(row, s, u)
<1>1. row2 = NoRow \/ NewRow(row2, row, s, u)
  BY HandledIs
<1>2. Base(row).rsvp = None => Base(row).checkedIn = FALSE
  BY DEF Plain, Base, BlankRow
<1>3. CreatedFor(u, "rsvp", s) # {} => TheRsvp(u, s).cid # None
  BY CreatesTyped, ReadModelConstants DEF RsvpPapers
<1> HIDE DEF row2
<1>4. Plain(row2)
  BY <1>1, <1>2, <1>3 DEF NewRow, Plain
<1> QED
  BY <1>4 DEF row2

LEMMA RowsTendInit == ReadModelInit => RowsTend
<1> SUFFICES ASSUME ReadModelInit PROVE RowsTend
  OBVIOUS
<1>1. RowsOK
  BY RowsInit
<1>2. (\A r \in Rsvps : stage[r] = "none") /\ \A e \in Events : event[e] \notin Opened
  BY DEF ReadModelInit, Init, Opened
<1>3. /\ rows = [s \in Slots |-> NoRow] /\ eventRow = [e \in Events |-> NoRow]
      /\ queue = <<>> /\ resend = <<>>
  BY DEF ReadModelInit
<1>4. \A s : Outstanding(s) = {}
  BY <1>2 DEF Outstanding
<1>5. Counted
  <2>1. Begun = {}
    BY <1>2 DEF Begun
  <2> QED
    BY <1>4, <2>1, FS_EmptySet DEF Counted, OneOut
<1>6. FeedTends
  BY <1>2, <1>3, <1>4 DEF FeedTends, Opened, EventTends, EventLive, RowTends, Blank
<1> QED
  BY <1>1, <1>3, <1>5, <1>6 DEF RowsTend, Plain

LEMMA RowsTendStep == RowsTend /\ [ReadModelNext]_rmVars => RowsTend'
<1> SUFFICES ASSUME RowsTend, [ReadModelNext]_rmVars PROVE RowsTend'
  OBVIOUS
<1>1. RowsOK /\ RowsOK' /\ [Next]_vars
  <2>1. RowsOK
    BY DEF RowsTend
  <2> QED
    BY <2>1, RowsStep, ReadModelStep DEF RowsOK, LedgerOK, BaseOK
<1>2. ASSUME UNCHANGED rowVars PROVE \A s \in Slots : Plain(rows[s])'
  BY <1>2 DEF RowsTend, Plain, rowVars
<1>3. CASE Ledger
  BY <1>1, <1>2, <1>3, FeedTendsPublished DEF Ledger, RowsTend
<1>4. CASE Project
  <2>1. ASSUME NEW s \in Slots PROVE Plain(rows[s])'
    <3>1. PICK u : u = Head(queue)
      OBVIOUS
    <3>2. u \in Update
      BY <1>1, <1>4, <3>1 DEF Project, RowsOK, FeedTyped
    <3>3. rows'[s] = HandleRsvp(rows[s], s, u)
      BY <1>4, <3>1 DEF Project, Apply
    <3>4. Plain(HandleRsvp(rows[s], s, u))
      BY <1>1, <3>2, PlainHandled DEF RowsTend, RowsOK, RowsTyped
    <3> QED
      BY <3>3, <3>4 DEF Plain
  <2> QED
    BY <1>1, <1>4, <2>1, FeedTendsProjected DEF RowsTend
<1>5. CASE Reconnect \/ Restart
  BY <1>1, <1>2, <1>5, FeedTendsQueued DEF Reconnect, Restart, RowsTend
<1>6. CASE WatcherQuery \/ \E c \in RsvpCids : WatcherFails(c)
  BY <1>1, <1>2, <1>6, FeedTendsQueued DEF WatcherQuery, WatcherFails, RowsTend
<1>7. ASSUME NEW c \in RsvpCids, WatcherMark(c)
      PROVE  RowsTend'
  BY <1>1, <1>2, <1>7, FeedTendsPublished DEF WatcherMark, RowsTend
<1>8. CASE UNCHANGED rmVars
  BY <1>1, <1>2, <1>8, FeedTendsQueued DEF rmVars, RowsTend
<1> QED
  BY <1>3, <1>4, <1>5, <1>6, <1>7, <1>8 DEF ReadModelNext

LEMMA RowsTendShow ==
    ASSUME RowsTend, queue = <<>>
    PROVE  /\ \A e \in Events : EventShown(e)
           /\ \A s \in Slots \ crowded :
                 /\ SlotShown(s)
                 /\ rows[s] = NoRow => \A r \in Rsvps : SlotOf(r) = s => stage[r] = "none"
<1>1. ASSUME NEW e \in Events PROVE EventShown(e)
  BY EventArrives DEF RowsTend, RowsOK, RowsSay, FeedTends, EventShown
<1>2. ASSUME NEW s \in Slots \ crowded
      PROVE  /\ SlotShown(s)
             /\ rows[s] = NoRow => \A r \in Rsvps : SlotOf(r) = s => stage[r] = "none"
  BY RowArrives DEF RowsTend, RowsOK, FeedTends, SlotShown, Over
<1> QED
  BY <1>1, <1>2

(* Once all updates are handled the rows say what the ledger says, after any *)
(* number of restarts and of updates handled twice.                          *)
THEOREM RowsCatchUp ==
    ReadModelSpec => [](queue = <<>> => /\ \A e \in Events : EventShown(e)
                                        /\ \A s \in Slots \ crowded : SlotShown(s))
<1>1. RowsTend => (queue = <<>> => /\ \A e \in Events : EventShown(e)
                                   /\ \A s \in Slots \ crowded : SlotShown(s))
  BY RowsTendShow
<1> QED
  BY <1>1, RowsTendInit, RowsTendStep, PTL DEF ReadModelSpec

-------------------------------------------------------------------------------
(* The fetching feed *)

(* The contracts of the last fetch, if there was one, and what is known of.  *)
Old  == IF prev = NoFetch THEN {} ELSE prev
Seen == Old \cup passed

(* What a set of contracts says of a slot, and of an event. *)
SlotPapers(C, s)  == {c \in C : c.kind \in {"invite", "rsvp"} /\ c.slot = s}
EventsIn(C, e)    == {c \in C : c.kind = "event" /\ c.event = e}

PollTyped ==
    /\ RowsTyped
    /\ queue = <<>> /\ resend = <<>> /\ stale = 0 /\ sweep = {}
    /\ prev # NoFetch => prev \subseteq Paper
    /\ passed \subseteq Paper
    /\ offset \in BOOLEAN
    /\ window \in 0..MaxWindow
    /\ blurred \subseteq Slots \cup Events
    /\ prev = NoFetch => ~offset /\ window = 0 /\ passed = {}

(* What was fetched or came and went was true once, and what has gone since  *)
(* is gone for good.                                                         *)
Heard(c) ==
    /\ Says(c) /\ EventSays(c)
    /\ c.kind = "alloc" => astate[c.cid] # "none"

PollSays ==
    /\ \A c \in Seen : Heard(c)
    /\ \A c \in Old \ Contracts : EndSays(c)
    /\ \A c \in passed : EndSays(c)
    /\ \A e \in Events : EventRowSays(eventRow[e], e)
    /\ \A s \in Slots : RowSays(rows[s], s)

PollOK == LedgerOK /\ PollTyped /\ PollSays

LEMMA NoPaper == NoFetch \cap Paper = {} /\ NoFetch # {}
<1>1. \A c \in NoFetch : c.kind = "undefined"
  BY DEF NoFetch
<1>2. \A c \in Paper : c.kind # "undefined"
  BY DEF Paper, EventPapers, InvitePapers, RsvpPapers, AllocPapers
<1> QED
  BY <1>1, <1>2 DEF NoFetch

(* A fetch is never taken for none. *)
LEMMA FetchIs ==
    ASSUME BaseOK
    PROVE  Contracts \subseteq Paper /\ Contracts # NoFetch
<1>1. Contracts \subseteq Paper
  BY ContractsAre DEF ContractFacts
<1> QED
  BY <1>1, NoPaper

LEMMA FetchIsNext == BaseOK' => (Contracts \subseteq Paper /\ Contracts # NoFetch)'
  BY FetchIs, PTL

LEMMA OldTyped == PollTyped => Old \subseteq Paper /\ Seen \subseteq Paper
  BY DEF PollTyped, Old, Seen

(* What is there was told truly. *)
LEMMA ThereHeard == LedgerOK => \A c \in Contracts : Heard(c)
<1> SUFFICES ASSUME LedgerOK, NEW c \in Contracts PROVE Heard(c)
  OBVIOUS
<1>1. ContractFacts
  BY ContractsAre DEF LedgerOK
<1>2. ASSUME c.kind = "event" PROVE EventSays(c)
  <2>1. PICK e \in Events : c \in EventFace(e)
    BY <1>1, <1>2 DEF ContractFacts
  <2>2. c.event = e /\ c.cid = event[e] /\ event[e] \in {"open", "ended"}
    BY <2>1 DEF EventFace, EventPaper, EventLive
  <2> QED
    BY <2>2 DEF Opened, EventSays
<1>3. ASSUME c.kind = "alloc" PROVE astate[c.cid] # "none"
  <2>1. PICK a \in Allocs : Active(a) /\ c = AllocPaper(a)
    BY <1>1, <1>3 DEF ContractFacts
  <2> QED
    BY <2>1 DEF AllocPaper, Active
<1> QED
  BY <1>2, <1>3, ThereSays DEF Heard, EventSays

LEMMA ThereHeardNext == LedgerOK' => (\A c \in Contracts : Heard(c))'
  BY ThereHeard, PTL

LEMMA HeardKept ==
    ASSUME LedgerOK, [Next]_vars, NEW c \in Paper, Heard(c)
    PROVE  Heard(c)'
<1>1. TypeOK
  BY DEF LedgerOK, BaseOK
<1>2. ASSUME c.kind = "event" PROVE EventSays(c)'
  <2>1. c.event \in Events
    BY <1>2, PaperKinds DEF EventPapers
  <2> QED
    BY <1>1, <1>2, <2>1, EventForward DEF Heard, EventSays, Opened
<1>3. ASSUME c.kind = "alloc" PROVE astate'[c.cid] # "none"
  <2>1. c.cid \in Allocs
    BY <1>3, PaperKinds DEF AllocPapers
  <2> QED
    BY <1>1, <1>3, <2>1, Forward DEF Heard
<1> QED
  BY <1>2, <1>3, SaysKept DEF Heard, EventSays

(* The step of the ledger. *)
LEMMA PollSaysLedger ==
    ASSUME PollOK, PollLedger
    PROVE  PollOK'
<1>1. /\ Next /\ UNCHANGED <<rowVars, feedVars, sweep, prev, offset, blurred>>
      /\ LedgerOK /\ LedgerOK' /\ TypeOK /\ BaseOK /\ BaseOK' /\ PollTyped /\ PollSays
  BY LedgerStep DEF PollLedger, PollOK, LedgerOK, BaseOK
<1>2. UNCHANGED <<eventRow, rows, settlements, queue, resend, stale>>
  BY <1>1 DEF rowVars, feedVars
<1>3. /\ Old' = Old
      /\ passed \subseteq passed'
      /\ \A c \in passed' : c \notin passed => c \in Contracts /\ c \notin Contracts' /\ c \in Paper
  <2>1. \A c \in Archived : c \in Contracts /\ c \notin Contracts' /\ c \in Paper
    BY <1>1, TellsNew
  <2> QED
    BY <1>1, <2>1 DEF PollLedger, Old
<1>4. PollTyped'
  <2>1. passed' \subseteq Paper
    BY <1>1, <1>3 DEF PollTyped
  <2>2. window' \in 0..MaxWindow /\ (prev' = NoFetch => window' = 0 /\ passed' = {})
    BY <1>1, PollFeedConstants DEF PollLedger, PollTyped
  <2>3. crowded' \subseteq Slots
    BY <1>1 DEF PollLedger, PollTyped, RowsTyped
  <2>4. RowsTyped'
    BY <1>1, <1>2, <2>3 DEF PollTyped, RowsTyped
  <2> QED
    BY <1>1, <1>2, <2>1, <2>2, <2>4 DEF PollTyped
<1>5. ASSUME NEW c \in Seen' PROVE Heard(c)'
  <2>1. c \in Paper /\ Heard(c)
    BY <1>1, <1>3, <1>5, OldTyped, ThereHeard DEF Seen, PollSays
  <2> QED
    BY <1>1, <2>1, HeardKept
<1>6. ASSUME NEW c, c \in Old \ Contracts' \/ c \in passed' PROVE EndSays(c)'
  <2>1. c \in Paper /\ Says(c)
    BY <1>1, <1>3, <1>6, OldTyped, ThereHeard DEF Seen, PollSays, Heard
  <2>2. CASE c \in Contracts
    <3>1. CASE c \notin Contracts'
      BY <1>1, <2>2, <3>1, GoneSays
    <3>2. CASE c \in Contracts'
      <4>1. c \in passed /\ EndSays(c)
        BY <1>1, <1>3, <1>6, <3>2 DEF PollSays
      <4> QED
        BY <1>1, <2>1, <4>1, EndKept
    <3> QED
      BY <3>1, <3>2
  <2>3. CASE c \notin Contracts
    <3>1. EndSays(c)
      BY <1>1, <1>3, <1>6, <2>3 DEF PollSays
    <3> QED
      BY <1>1, <2>1, <3>1, EndKept
  <2> QED
    BY <2>2, <2>3
<1>7. ASSUME NEW e \in Events PROVE EventRowSays(eventRow[e], e)'
  <2>1. PICK row : row = eventRow[e]
    OBVIOUS
  <2>2. EventRowSays(row, e)'
    BY <1>1, <2>1, EventRowKept DEF PollSays
  <2> QED
    BY <1>2, <2>1, <2>2 DEF EventRowSays
<1>8. ASSUME NEW s \in Slots PROVE RowSays(rows[s], s)'
  <2>1. PICK row : row = rows[s]
    OBVIOUS
  <2>2. row \in Row \cup {NoRow} /\ RowSays(row, s)
    BY <1>1, <2>1 DEF PollTyped, RowsTyped, PollSays
  <2>3. RowSays(row, s)'
    BY <1>1, <2>2, RowSaysKept
  <2> QED
    BY <1>2, <2>1, <2>3 DEF RowSays
<1>9. PollSays'
  BY <1>3, <1>5, <1>6, <1>7, <1>8 DEF PollSays
<1> QED
  BY <1>1, <1>4, <1>9 DEF PollOK

(* A fetch has one contract of each event, and one of each slot that is not  *)
(* crowded.                                                                  *)
OneEach ==
    /\ \A e \in Events : \A c, d \in EventsIn(Old, e) : c = d
    /\ \A s \in Slots \ crowded : \A c, d \in SlotPapers(Old, s) : c = d

LEMMA ContractsOne ==
    ASSUME BaseOK, Counted
    PROVE  /\ \A e \in Events : \A c, d \in EventsIn(Contracts, e) : c = d
           /\ \A s \in Slots \ crowded : \A c, d \in SlotPapers(Contracts, s) : c = d
<1>1. ContractFacts
  BY ContractsAre
<1>2. ASSUME NEW e \in Events, NEW c \in EventsIn(Contracts, e) PROVE c = EventPaper(e, event[e])
  <2>1. PICK f \in Events : c \in EventFace(f)
    BY <1>1, <1>2 DEF EventsIn, ContractFacts
  <2> QED
    BY <1>2, <2>1 DEF EventsIn, EventFace, EventPaper
<1>3. ASSUME NEW s \in Slots \ crowded, NEW c \in SlotPapers(Contracts, s),
             NEW d \in SlotPapers(Contracts, s)
      PROVE  c = d
  <2>1. PICK r \in Rsvps : c \in Face(r)
    BY <1>1, <1>3 DEF SlotPapers, ContractFacts
  <2>2. PICK p \in Rsvps : d \in Face(p)
    BY <1>1, <1>3 DEF SlotPapers, ContractFacts
  <2>3. r \in Outstanding(s) /\ p \in Outstanding(s)
    BY <1>3, <2>1, <2>2, FaceIs DEF SlotPapers, Outstanding
  <2>4. r = p
    BY <1>3, <2>3 DEF Counted, OneOut
  <2> QED
    BY <2>1, <2>2, <2>4 DEF Face
<1> QED
  BY <1>2, <1>3

LEMMA ContractsStay == UNCHANGED vars => Contracts' = Contracts
  BY DEF vars, eventVars, rsvpVars, allocVars, Contracts, EventLive, Active, SlotOf

LEMMA LedgerStays ==
    ASSUME UNCHANGED vars
    PROVE  /\ LedgerOK => LedgerOK'
           /\ \A c : (Heard(c)' <=> Heard(c)) /\ (EndSays(c)' <=> EndSays(c))
           /\ \A row, e : EventRowSays(row, e)' <=> EventRowSays(row, e)
           /\ \A row, s : RowSays(row, s)' <=> RowSays(row, s)
<1>1. LedgerOK => LedgerOK'
  BY LedgerStep
<1>2. \A r : RsvpOf(r)' = RsvpOf(r) /\ SlotOf(r)' = SlotOf(r) /\ InviteOf(r)' = InviteOf(r)
  BY DEF vars, RsvpOf, SlotOf, InviteOf
<1>3. UNCHANGED <<stage, ver, event, astate, spec, checkedIn>>
  BY DEF vars
<1>4. \A c, r : RsvpSays(c, r)' <=> RsvpSays(c, r)
  BY <1>2, <1>3 DEF RsvpSays
<1>5. \A c : Heard(c)' <=> Heard(c)
  BY <1>2, <1>3, <1>4 DEF Heard, Says, InviteSays, EventSays
<1>6. \A c : EndSays(c)' <=> EndSays(c)
  BY <1>3 DEF EndSays
<1>7. \A row, e : EventRowSays(row, e)' <=> EventRowSays(row, e)
  BY <1>3 DEF EventRowSays
<1>8. \A row, s : RowSays(row, s)' <=> RowSays(row, s)
  BY <1>2, <1>3 DEF RowSays
<1> QED
  BY <1>1, <1>5, <1>6, <1>7, <1>8

LEMMA DiffTyped ==
    ASSUME PollOK
    PROVE  LET u == Diff(Old, Contracts)
           IN  /\ u \in Update
               /\ \A c : c \in u.created <=> c \in Contracts \ Old /\ c.kind # "alloc"
               /\ u.archived = Old \ Contracts
               /\ u.closed = FALSE
<1>1. Contracts \subseteq Paper /\ Old \subseteq Paper
  BY FetchIs, OldTyped DEF PollOK, LedgerOK
<1> DEFINE O == Old
           N == Contracts
           u == Diff(O, N)
<1>2. N \subseteq Paper /\ O \subseteq Paper
  BY <1>1
<1> HIDE DEF O, N
<1>3. Creates(O, N) = {c \in N \ O : c.kind # "alloc"}
  BY DEF Creates
<1> DEFINE S == {c.cid : c \in {x \in O \ N : x.kind = "rsvp" /\ x.slot[1] \in EndedEvents(O, N)}}
<1>4. S \subseteq RsvpCids
  BY <1>2, PaperKinds DEF RsvpPapers
<1> HIDE DEF S
<1>5. u = [created |-> Creates(O, N), archived |-> O \ N, closed |-> FALSE, settles |-> S]
  BY DEF Diff, S
<1> HIDE DEF u
<1>6. u \in Update
  BY <1>2, <1>3, <1>4, <1>5 DEF Update
<1>7. u \in Update /\ (\A c : c \in u.created <=> c \in N \ O /\ c.kind # "alloc")
      /\ u.archived = O \ N /\ u.closed = FALSE
  BY <1>3, <1>5, <1>6
<1> QED
  BY <1>7 DEF u, O, N

(* The update that is made up of two fetches says what was true once.        *)
LEMMA DiffHonest ==
    ASSUME PollOK, OneEach
    PROVE  Honest(Diff(Old, Contracts)) /\ EventsHonest(Diff(Old, Contracts))
<1> DEFINE u == Diff(Old, Contracts)
<1>1. /\ u \in Update
      /\ \A c : c \in u.created <=> c \in Contracts \ Old /\ c.kind # "alloc"
      /\ u.archived = Old \ Contracts
  BY DiffTyped
<1> HIDE DEF u
<1>2. \A c \in Contracts \cup Old : Heard(c)
  BY ThereHeard DEF PollOK, PollSays, Seen
<1>3. Honest(u)
  BY <1>1, <1>2 DEF Honest, Heard, PollOK, PollSays
<1>4. ASSUME NEW c \in u.archived, c.kind = "event", NewEvent(u, c.event) = {}
      PROVE  event[c.event] = "settled"
  <2> DEFINE e == c.event
             d == EventPaper(e, event[e])
  <2>1. e \in Events /\ event[e] \in Opened /\ c \in Old /\ c \notin Contracts
    BY <1>1, <1>2, <1>4, PaperKinds DEF Heard, EventSays, EventPapers, Update
  <2>2. SUFFICES ASSUME EventLive(e) PROVE FALSE
    BY <2>1 DEF Opened, EventLive
  <2>3. d \in Contracts /\ d.kind = "event" /\ d.event = e
    BY <2>1, <2>2, ContractsAre DEF PollOK, LedgerOK, ContractFacts, EventFace, EventPaper
  <2>4. d \in Old
    BY <1>1, <1>4, <2>3 DEF NewEvent
  <2>5. c = d
    BY <1>4, <2>1, <2>3, <2>4 DEF OneEach, EventsIn
  <2> QED
    BY <2>1, <2>3, <2>5
<1>5. EventsHonest(u)
  BY <1>1, <1>2, <1>4 DEF EventsHonest, EventEnds, Heard
<1> QED
  BY <1>3, <1>5 DEF u

LEMMA PollSaysFetched ==
    ASSUME PollOK, OneEach, Fetched, Apply(Diff(Old, Contracts)),
           blurred' \subseteq Slots \cup Events, offset' \in BOOLEAN
    PROVE  PollOK'
<1> DEFINE u == Diff(Old, Contracts)
<1>1. u \in Update /\ Honest(u) /\ EventsHonest(u) /\ Apply(u)
  BY DiffTyped, DiffHonest
<1> HIDE DEF u
<1>2. /\ UNCHANGED vars /\ UNCHANGED <<queue, resend, stale, sweep, crowded>>
      /\ prev' = Contracts /\ window' = 0 /\ passed' = {}
  BY DEF Fetched, feedVars
<1>3. /\ eventRow' = [e \in Events |-> HandleEvent(eventRow[e], e, u)]
      /\ rows' = [s \in Slots |-> HandleRsvp(rows[s], s, u)]
      /\ settlements' = [s \in Slots |-> HandleSettlement(settlements[s], rows[s], s, u)]
  BY <1>1 DEF Apply
<1>4. /\ \A e \in Events : eventRow[e] \in EventRow \cup {NoRow}
      /\ \A s \in Slots : rows[s] \in Row \cup {NoRow} /\ settlements[s] \in {"none", "refund", "slash"}
  BY DEF PollOK, PollTyped, RowsTyped
<1>5. /\ \A e \in Events : HandleEvent(eventRow[e], e, u) \in EventRow \cup {NoRow}
      /\ \A s \in Slots : HandleRsvp(rows[s], s, u) \in Row \cup {NoRow}
  BY <1>1, <1>4, EventRowHandled, HandledIs DEF NewRow
<1>6. \A s \in Slots : HandleSettlement(settlements[s], rows[s], s, u) \in {"none", "refund", "slash"}
  BY <1>4 DEF HandleSettlement
<1>7. RowsTyped'
  BY <1>2, <1>3, <1>5, <1>6 DEF RowsTyped, PollOK, PollTyped
<1>8. Contracts \subseteq Paper /\ Contracts # NoFetch /\ Contracts' = Contracts
  BY <1>2, FetchIs, ContractsStay DEF PollOK, LedgerOK
<1>9. PollTyped'
  BY <1>2, <1>7, <1>8, PollFeedConstants DEF PollTyped, PollOK
<1>10. Old' = Contracts /\ Seen' = Contracts
  BY <1>2, <1>8 DEF Old, Seen
<1>11. \A c \in Contracts : Heard(c)'
  BY <1>2, ThereHeard, LedgerStays DEF PollOK
<1>12. ASSUME NEW e \in Events PROVE EventRowSays(eventRow[e], e)'
  <2>1. EventRowSays(HandleEvent(eventRow[e], e, u), e)
    BY <1>1, <1>4, EventRowHandled DEF PollOK, PollSays
  <2>2. PICK row : row = HandleEvent(eventRow[e], e, u)
    OBVIOUS
  <2>3. EventRowSays(row, e)' /\ eventRow'[e] = row
    BY <1>2, <1>3, <2>1, <2>2, LedgerStays
  <2> QED
    BY <2>3 DEF EventRowSays
<1>13. ASSUME NEW s \in Slots PROVE RowSays(rows[s], s)'
  <2>1. RowSays(HandleRsvp(rows[s], s, u), s)
    BY <1>1, <1>4, RowSaysHandled DEF PollOK, PollSays
  <2>2. PICK row : row = HandleRsvp(rows[s], s, u)
    OBVIOUS
  <2>3. RowSays(row, s)' /\ rows'[s] = row
    BY <1>2, <1>3, <2>1, <2>2, LedgerStays
  <2> QED
    BY <2>3 DEF RowSays
<1>14. PollSays'
  BY <1>2, <1>8, <1>10, <1>11, <1>12, <1>13 DEF PollSays
<1> QED
  BY <1>2, <1>9, <1>14, LedgerStays DEF PollOK

(* A row says what the last fetch did. *)
EventFits(row, P) ==
    /\ P = {} => row = NoRow \/ row.status = "settled"
    /\ \A c \in P : row = [cid |-> c.cid, status |-> c.cid]

Fits(row, c) ==
    /\ c.kind = "invite" => row.status = "invited" /\ row.invite = c.cid
    /\ c.kind = "rsvp" =>
          /\ row.rsvp = c.cid /\ row.invite = None
          /\ row.checkedIn = c.checkedIn
          /\ row.alloc = IF c.withdrawn THEN None ELSE c.alloc
          /\ row.status = IF c.withdrawn THEN "withdrawn"
                          ELSE IF c.alloc # None THEN "staked" ELSE "accepted"

RowFits(row, P) ==
    /\ P = {} => row = NoRow \/ row.status \in Over
    /\ \A c \in P : row # NoRow /\ Fits(row, c)

(* The last fetch tells enough of slot s: what is live there was seen before *)
(* it was, and what has ended left the slot empty.                           *)
Clear(s) ==
    /\ \A r \in Rsvps : SlotOf(r) = s /\ stage[r] = "live" =>
          InviteOf(r) \in Old \/ \E c \in Old : c.kind = "rsvp" /\ c.cid[1] = r
    /\ \A c \in SlotPapers(Old, s) :
          c.kind = "rsvp" /\ stage[c.cid[1]] # "live" => SlotPapers(Contracts, s) = {}

LEMMA EventFetched ==
    ASSUME PollOK, Counted, OneEach, NEW e \in Events,
           EventFits(eventRow[e], EventsIn(Old, e))
    PROVE  EventFits(HandleEvent(eventRow[e], e, Diff(Old, Contracts)), EventsIn(Contracts, e))
<1> DEFINE u == Diff(Old, Contracts)
           O == EventsIn(Old, e)
           N == EventsIn(Contracts, e)
           row == eventRow[e]
           row2 == HandleEvent(row, e, u)
<1> SUFFICES EventFits(row2, N)
  OBVIOUS
<1>1. /\ u \in Update
      /\ \A c : c \in u.created <=> c \in Contracts \ Old /\ c.kind # "alloc"
      /\ u.archived = Old \ Contracts
  BY DiffTyped
<1>2. (\A c, d \in N : c = d) /\ \A c, d \in O : c = d
  BY ContractsOne DEF OneEach, PollOK, LedgerOK
<1>3. NewEvent(u, e) = N \ O /\ OldEvent(u, e) = O \ N
  BY <1>1 DEF EventsIn, NewEvent, OldEvent
<1>4. row \in EventRow \cup {NoRow} /\ EventRowSays(row, e)
  BY DEF PollOK, PollTyped, RowsTyped, PollSays
<1>5. \A c \in N : EventLive(e) /\ c.cid = event[e]
  BY ContractsAre DEF EventsIn, PollOK, LedgerOK, ContractFacts, EventFace, EventPaper
<1> HIDE DEF u, N, O, row
<1>6. /\ N \ O # {} => \E d \in N \ O : row2 =
             [cid |-> d.cid, status |-> IF row # NoRow /\ row.status = "settled"
                                        THEN "settled" ELSE d.cid]
      /\ N \ O = {} => row2 = IF row # NoRow /\ \E c \in O \ N : c.cid = row.cid
                             THEN [row EXCEPT !.status = "settled"] ELSE row
  <2> DEFINE d == CHOOSE d \in NewEvent(u, e) : TRUE
  <2>1. NewEvent(u, e) # {} => d \in NewEvent(u, e)
    OBVIOUS
  <2>2. NewEvent(u, e) # {} => row2 =
             [cid |-> d.cid, status |-> IF row # NoRow /\ row.status = "settled"
                                        THEN "settled" ELSE d.cid]
    BY DEF HandleEvent, NewEvent
  <2>3. NewEvent(u, e) = {} => row2 =
             IF row # NoRow /\ \E c \in u.archived : c.kind = "event" /\ c.event = e /\ c.cid = row.cid
             THEN [row EXCEPT !.status = "settled"] ELSE row
    BY DEF HandleEvent, NewEvent
  <2>4. (\E c \in u.archived : c.kind = "event" /\ c.event = e /\ c.cid = row.cid)
            <=> \E c \in OldEvent(u, e) : c.cid = row.cid
    BY DEF OldEvent
  <2> HIDE DEF d, row2
  <2>5. NewEvent(u, e) = {} => row2 =
             IF row # NoRow /\ \E c \in OldEvent(u, e) : c.cid = row.cid
             THEN [row EXCEPT !.status = "settled"] ELSE row
    BY <2>3, <2>4
  <2> QED
    BY <1>3, <2>1, <2>2, <2>5
<1> HIDE DEF row2
<1>7. CASE N \ O # {}
  <2>1. PICK d \in N \ O : row2 =
             [cid |-> d.cid, status |-> IF row # NoRow /\ row.status = "settled"
                                        THEN "settled" ELSE d.cid]
    BY <1>6, <1>7
  <2>2. ~(row # NoRow /\ row.status = "settled")
    BY <1>4, <1>5, <2>1 DEF EventRowSays, EventLive
  <2>3. row2 = [cid |-> d.cid, status |-> d.cid]
    BY <2>1, <2>2
  <2>4. N = {d}
    BY <1>2, <2>1
  <2> QED
    BY <2>3, <2>4 DEF EventFits
<1>8. CASE N \ O = {} /\ N # {}
  <2>1. O = N
    BY <1>2, <1>8
  <2>2. row2 = row
    BY <1>6, <1>8, <2>1
  <2>3. EventFits(row, O)
    BY DEF row, O
  <2> QED
    BY <2>1, <2>2, <2>3
<1>9. CASE N = {} /\ O # {}
  <2>1. PICK c \in O : TRUE
    BY <1>9
  <2>2. row = [cid |-> c.cid, status |-> c.cid] /\ row # NoRow
    <3>1. row = [cid |-> c.cid, status |-> c.cid]
      BY <2>1 DEF EventFits, O, row
    <3>2. c \in EventPapers
      BY <2>1, OldTyped, PaperKinds DEF O, EventsIn, PollOK
    <3>3. row \in EventRow
      BY <3>1, <3>2 DEF EventPapers, EventRow
    <3> QED
      BY <3>1, <3>3, ReadModelConstants
  <2>3. row2 = [row EXCEPT !.status = "settled"]
    BY <1>6, <1>9, <2>1, <2>2
  <2>4. row2.status = "settled"
    BY <2>2, <2>3
  <2> QED
    BY <1>9, <2>4 DEF EventFits
<1>10. CASE N = {} /\ O = {}
  <2>1. row2 = row
    BY <1>6, <1>10
  <2>2. EventFits(row, O)
    BY DEF row, O
  <2> QED
    BY <1>10, <2>1, <2>2
<1> QED
  BY <1>7, <1>8, <1>9, <1>10

LEMMA SamePaperFits ==
    ASSUME NEW P, NEW row, NEW row2, SameRow(row, row2), RowFits(row, P)
    PROVE  RowFits(row2, P)
<1>1. row = NoRow => row2 = NoRow
  BY DEF SameRow
<1>2. row # NoRow => \A c : Fits(row, c) => Fits(row2, c)
  BY DEF SameRow, Fits
<1>3. P = {} => row2 = NoRow \/ row2.status \in Over
  BY DEF SameRow, RowFits
<1> QED
  BY <1>2, <1>3 DEF RowFits, SameRow

LEMMA RowFetched ==
    ASSUME PollOK, Counted, OneEach, NEW s \in Slots \ crowded, Clear(s),
           RowFits(rows[s], SlotPapers(Old, s))
    PROVE  RowFits(HandleRsvp(rows[s], s, Diff(Old, Contracts)), SlotPapers(Contracts, s))
<1> DEFINE u == Diff(Old, Contracts)
           O == SlotPapers(Old, s)
           N == SlotPapers(Contracts, s)
           row == rows[s]
           row2 == HandleRsvp(row, s, u)
<1> SUFFICES RowFits(row2, N)
  OBVIOUS
<1>1. /\ u \in Update /\ Honest(u)
      /\ \A c : c \in u.created <=> c \in Contracts \ Old /\ c.kind # "alloc"
      /\ u.archived = Old \ Contracts
  BY DiffTyped, DiffHonest
<1>2. (\A c, d \in N : c = d) /\ \A c, d \in O : c = d
  BY ContractsOne DEF OneEach, PollOK, LedgerOK
<1>3. NewOf(u, s) = N \ O /\ OldOf(u, s) = O \ N
  BY <1>1 DEF SlotPapers, NewOf, OldOf
<1>4. row \in Row \cup {NoRow} /\ RowSays(row, s) /\ RowFits(row, O) /\ s \in Slots
  BY DEF PollOK, PollTyped, RowsTyped, PollSays
<1>5. \A c \in N : \E r \in Outstanding(s) : r \in Rsvps /\ c \in Face(r)
  <2>1. SUFFICES ASSUME NEW c \in N PROVE \E r \in Outstanding(s) : r \in Rsvps /\ c \in Face(r)
    OBVIOUS
  <2>2. PICK r \in Rsvps : c \in Face(r)
    BY <2>1, ContractsAre DEF SlotPapers, PollOK, LedgerOK, ContractFacts
  <2> QED
    BY <2>2, FaceIs DEF SlotPapers, Outstanding
<1>6. \A c \in O \cup N : c \in Paper /\ Heard(c) /\ c.kind \in {"invite", "rsvp"} /\ c.slot = s
  BY OldTyped, FetchIs, ThereHeard DEF PollOK, LedgerOK, PollSays, SlotPapers, Seen
<1>7. \A r, p \in Outstanding(s) : r = p
  BY DEF Counted, OneOut
<1>8. \A c \in O : c.kind = "rsvp" /\ stage[c.cid[1]] # "live" => N = {}
  BY DEF Clear
<1>9. \A r \in Rsvps : SlotOf(r) = s /\ stage[r] = "live" =>
          InviteOf(r) \in O \/ \E c \in O : c.kind = "rsvp" /\ c.cid[1] = r
  <2>1. SUFFICES ASSUME NEW r \in Rsvps, SlotOf(r) = s, stage[r] = "live"
                 PROVE  InviteOf(r) \in O \/ \E c \in O : c.kind = "rsvp" /\ c.cid[1] = r
    OBVIOUS
  <2>2. CASE InviteOf(r) \in Old
    BY <2>1, <2>2 DEF SlotPapers, InviteOf
  <2>3. ASSUME NEW c \in Old, c.kind = "rsvp", c.cid[1] = r PROVE c \in O
    <3>1. c.slot = s
      BY <2>1, <2>3 DEF PollOK, PollSays, Seen, Heard, Says, RsvpSays
    <3> QED
      BY <2>3, <3>1 DEF SlotPapers
  <2> QED
    BY <2>1, <2>2, <2>3 DEF Clear
<1> HIDE DEF u, N, O, row
<1>10. CASE N = O
  <2>1. u \notin About(s)
    BY <1>3, <1>10 DEF About
  <2>2. SameRow(row, row2)
    BY <1>1, <1>4, <2>1, HandledKeeps
  <2> HIDE DEF row2
  <2> QED
    BY <1>4, <1>10, <2>2, SamePaperFits
<1>11. ASSUME N = {}, NEW c \in O
       PROVE  RowFits(row2, N)
  <2>1. NewOf(u, s) = {} /\ OldOf(u, s) = {c} /\ row # NoRow /\ Fits(row, c)
    BY <1>2, <1>3, <1>4, <1>11 DEF RowFits
  <2>2. CASE c.kind = "invite"
    <3>1. c.cid \in Rsvps /\ c = InviteOf(c.cid) /\ SlotOf(c.cid) = s
      BY <1>6, <1>11, <2>2, PaperKinds DEF Heard, Says, InviteSays, InviteOf, InvitePapers
    <3>2. u \in Dropping(c.cid) /\ row.invite = c.cid
      BY <1>1, <2>1, <2>2, <3>1 DEF Dropping, Fits
    <3>3. row2 # NoRow /\ row2.status = "declined"
      BY <1>1, <1>4, <2>1, <3>1, <3>2, HandledDrop
    <3> QED
      BY <1>11, <3>3 DEF RowFits, Over
  <2>3. CASE c.kind = "rsvp"
    <3>1. c.slot = s /\ u \in Ending(c) /\ row.rsvp = c.cid
      BY <1>1, <1>6, <1>11, <2>1, <2>3 DEF Ending, Fits
    <3>2. row2 # NoRow /\ row2.status \in Over
      BY <1>1, <1>4, <2>1, <2>3, <3>1, HandledEnd
    <3> QED
      BY <1>11, <3>2 DEF RowFits
  <2> QED
    BY <1>6, <1>11, <2>2, <2>3
<1>12. ASSUME NEW d \in N, d \notin O, d.kind = "invite"
       PROVE  RowFits(row2, N)
  <2>1. PICK r \in Outstanding(s) : r \in Rsvps /\ d \in Face(r)
    BY <1>5, <1>12
  <2>2. d = InviteOf(r) /\ d.cid = r /\ stage[r] = "invited" /\ SlotOf(r) = s
    BY <1>12, <2>1, FaceIs DEF Outstanding
  <2>3. \A c \in O : c.kind = "invite"
    <3>1. SUFFICES ASSUME NEW c \in O, c.kind = "rsvp" PROVE FALSE
      BY <1>6
    <3>2. stage[c.cid[1]] = "live"
      BY <1>8, <1>12, <3>1
    <3>3. c.cid[1] \in Rsvps /\ SlotOf(c.cid[1]) = s
      BY <1>6, <3>1, PaperKinds DEF Heard, Says, RsvpSays, RsvpPapers, RsvpCids
    <3>4. c.cid[1] \in Outstanding(s)
      BY <3>2, <3>3 DEF Outstanding
    <3> QED
      BY <1>7, <2>1, <2>2, <3>2, <3>4
  <2>4. N = {d} /\ NewOf(u, s) = {d} /\ OldOf(u, s) = O
    BY <1>2, <1>3, <1>12
  <2>5. CreatedFor(u, "invite", s) = {d} /\ CreatedFor(u, "rsvp", s) = {}
    BY <1>1, <1>12, <2>4, CreatedIs
  <2>6. TheInvite(u, s) = d
    BY <2>5 DEF TheInvite
  <2>7. ~RsvpEnds(row, u)
    BY <1>1, <1>4, <2>3, <2>4, OwnArchives DEF RsvpEnds
  <2>8. ~InviteEnds(row, s, u)
    <3>1. SUFFICES ASSUME InviteEnds(row, s, u) PROVE FALSE
      OBVIOUS
    <3>2. row # NoRow /\ Archives(u, "invite", row.invite) /\ row.invite = r
      BY <2>2, <2>5, <2>6, <3>1 DEF InviteEnds, NewInvite
    <3>3. InviteOf(r) \in O
      BY <1>1, <1>4, <2>4, <3>2, OwnArchives
    <3> QED
      BY <1>12, <2>2, <3>3
  <2> HIDE DEF row2
  <2>9. NewRow(row2, row, s, u)
    BY <1>1, <1>4, <2>5, HandledIs DEF row2
  <2>10. row2 # NoRow /\ row2.status = "invited" /\ row2.invite = r
    BY <2>2, <2>5, <2>6, <2>7, <2>8, <2>9, ReadModelConstants DEF NewRow, NewStatus, NewInvite
  <2> QED
    BY <1>12, <2>2, <2>4, <2>10 DEF RowFits, Fits
<1>13. ASSUME NEW d \in N, d \notin O, d.kind = "rsvp"
       PROVE  RowFits(row2, N)
  <2>1. PICK r \in Outstanding(s) : r \in Rsvps /\ d \in Face(r)
    BY <1>5, <1>13
  <2>2. d = RsvpOf(r) /\ d.cid[1] = r /\ d.cid[2] = ver[r] /\ stage[r] = "live" /\ SlotOf(r) = s
    BY <1>13, <2>1, FaceIs DEF Outstanding
  <2>3. N = {d} /\ NewOf(u, s) = {d} /\ OldOf(u, s) = O /\ d.slot = s
    BY <1>2, <1>3, <1>6, <1>13
  <2>4. u \in Making(d)
    BY <1>1, <2>3 DEF Making
  <2>5. /\ row # NoRow => row2 # NoRow /\ Matches(row2, d) /\ row2.status = RsvpStatus(row, d)
        /\ InviteOf(r) \in O => row2 = NoRow \/ row2.invite # r
    BY <1>1, <1>4, <1>13, <2>1, <2>2, <2>3, <2>4, HandledMake
  <2>6. row # NoRow => row2.invite \in {row.invite, None}
    <3>1. u \notin InvitingAny(s)
      BY <1>13, <2>3 DEF InvitingAny
    <3> QED
      BY <1>1, <1>4, <3>1, HandledKeeps
  <2> HIDE DEF row2
  <2>7. d \in RsvpPapers /\ RsvpSays(d, r)
    BY <1>6, <1>13, <2>2, PaperKinds DEF Heard, Says
  <2>8. /\ d.checkedIn \in BOOLEAN /\ d.withdrawn \in BOOLEAN
        /\ d.checkedIn => ~d.withdrawn /\ d.alloc # None
    BY <2>7 DEF RsvpPapers, RsvpSays
  <2>9. /\ row # NoRow /\ row2.invite = None
        /\ row2.status = IF d.withdrawn THEN "withdrawn"
                         ELSE IF d.alloc # None THEN "staked" ELSE "accepted"
    <3>1. CASE InviteOf(r) \in O
      <4>1. row # NoRow /\ row.status = "invited" /\ row.invite = r
        BY <1>4, <3>1 DEF RowFits, Fits, InviteOf
      <4>2. row2.invite = None
        BY <2>5, <2>6, <3>1, <4>1
      <4> QED
        BY <2>5, <2>8, <4>1, <4>2 DEF RsvpStatus
    <3>2. ASSUME NEW c \in O, c.kind = "rsvp", c.cid[1] = r
          PROVE  /\ row # NoRow /\ row.invite = None
                 /\ d.withdrawn \/ d.alloc # None
      <4>1. row # NoRow /\ row.invite = None
        BY <1>4, <3>2 DEF RowFits, Fits
      <4>2. SUFFICES ASSUME ~d.withdrawn, d.alloc = None PROVE FALSE
        BY <4>1
      <4>3. ver[r] = 0
        BY <2>2, <2>7, <4>2 DEF RsvpSays
      <4>4. c.cid[2] \in Nat /\ RsvpSays(c, r)
        BY <1>6, <3>2, PaperKinds DEF RsvpPapers, RsvpCids, Heard, Says
      <4>5. c = d
        BY <2>2, <4>3, <4>4 DEF RsvpSays
      <4> QED
        BY <1>13, <3>2, <4>5
    <3>3. CASE InviteOf(r) \notin O
      <4>1. row # NoRow /\ row.invite = None /\ (d.withdrawn \/ d.alloc # None)
        BY <1>9, <2>1, <2>2, <3>2, <3>3
      <4> QED
        BY <2>5, <2>6, <2>8, <4>1 DEF RsvpStatus
    <3> QED
      BY <3>1, <3>3
  <2>10. row2.checkedIn = d.checkedIn
    BY <2>5, <2>8, <2>9 DEF Matches
  <2> QED
    BY <1>13, <2>3, <2>5, <2>9, <2>10 DEF RowFits, Fits, Matches
<1>14. CASE N = {} /\ O # {}
  BY <1>11, <1>14
<1>15. ASSUME NEW d \in N, d \in O PROVE N = O
  BY <1>2, <1>15
<1>16. \A d \in N : d.kind \in {"invite", "rsvp"}
  BY <1>6
<1> QED
  BY <1>10, <1>12, <1>13, <1>14, <1>15, <1>16

(* The rows say what was last fetched, where the feed could see; and an RSVP *)
(* that is live was seen before it was, or since.                            *)
PrevShows ==
    /\ \A e \in Events \ blurred : EventFits(eventRow[e], EventsIn(Old, e))
    /\ \A s \in Slots : Exact(s) => RowFits(rows[s], SlotPapers(Old, s))

Trail ==
    prev # NoFetch => \A r \in Rsvps : stage[r] = "live" =>
        InviteOf(r) \in Seen \/ \E c \in Old : c.kind = "rsvp" /\ c.cid[1] = r

BlankRows ==
    ~offset => /\ \A e \in Events : eventRow[e] = NoRow
               /\ \A s \in Slots : rows[s] = NoRow /\ settlements[s] = "none"

PollRows == PollOK /\ Counted /\ OneEach /\ PrevShows /\ Trail /\ BlankRows

LEMMA PollRowsLedger ==
    ASSUME PollRows, PollLedger
    PROVE  PollRows'
<1>1. /\ Next /\ UNCHANGED <<rowVars, feedVars, sweep, prev, offset, blurred>>
      /\ crowded' = crowded \cup {s \in Slots : Cardinality(Outstanding(s)') > 1}
      /\ LedgerOK /\ LedgerOK' /\ TypeOK /\ BaseOK /\ BaseOK'
  BY LedgerStep DEF PollLedger, PollRows, PollOK, LedgerOK, BaseOK
<1>2. UNCHANGED <<eventRow, rows, settlements>>
  BY <1>1 DEF rowVars
<1>3. PollOK' /\ Counted'
  BY <1>1, PollSaysLedger, CountedStep DEF PollRows
<1>4. prev # NoFetch => passed \subseteq passed'
  BY <1>1 DEF PollLedger
<1>5. Old' = Old /\ crowded \subseteq crowded'
  BY <1>1 DEF PollLedger, Old
<1>6. /\ \A e : EventsIn(Old, e)' = EventsIn(Old, e)
      /\ \A s : SlotPapers(Old, s)' = SlotPapers(Old, s)
  BY <1>5 DEF EventsIn, SlotPapers
<1>7. OneEach'
  BY <1>5, <1>6 DEF PollRows, OneEach
<1>8. PrevShows'
  <2>1. ASSUME NEW e \in Events \ blurred' PROVE EventFits(eventRow[e], EventsIn(Old, e))'
    BY <1>1, <1>2, <1>6, <2>1 DEF PollRows, PrevShows, EventFits
  <2>2. ASSUME NEW s \in Slots, Exact(s)' PROVE RowFits(rows[s], SlotPapers(Old, s))'
    <3>1. RowFits(rows[s], SlotPapers(Old, s))
      BY <1>1, <1>5, <2>2 DEF PollRows, PrevShows, Exact
    <3> QED
      BY <1>2, <1>6, <3>1 DEF RowFits, Fits
  <2> QED
    BY <2>1, <2>2 DEF PrevShows
<1>9. Trail'
  <2>1. SUFFICES ASSUME prev # NoFetch, NEW r \in Rsvps, stage'[r] = "live"
                 PROVE  InviteOf(r) \in Seen' \/ \E c \in Old' : c.kind = "rsvp" /\ c.cid[1] = r
    BY <1>1 DEF Trail, InviteOf, SlotOf
  <2>2. Seen \subseteq Seen'
    BY <1>4, <1>5, <2>1 DEF Seen
  <2>3. CASE stage[r] = "live"
    BY <1>5, <2>1, <2>2, <2>3 DEF PollRows, Trail
  <2>4. CASE stage[r] # "live"
    <3>1. stage[r] = "invited"
      <4>1. CASE Untouched(r)
        BY <2>1, <2>4, <4>1 DEF Untouched
      <4>2. CASE Moves(r)
        BY <2>1, <2>4, <4>2 DEF Moves, Renewed, Dropped
      <4>3. CASE \E S \in SUBSET Rsvps : Closes(S)
        BY <2>1, <2>4, <4>3 DEF Closes, Untouched
      <4> QED
        BY <1>1, <4>1, <4>2, <4>3, LedgerMoves
            DEF EventMoves, AllocMoves, RsvpMoves, rsvpVars, Untouched, SamePaper
    <3>2. InviteOf(r) \in Face(r) \ Face(r)'
      BY <2>1, <3>1 DEF Face, InviteOf, RsvpOf, SlotOf
    <3>3. InviteOf(r) \in Archived
      BY <1>1, <3>2, TellsFace
    <3>4. passed' = passed \cup (Archived \ prev)
      BY <2>1, <3>3 DEF PollLedger
    <3> QED
      BY <1>5, <2>1, <3>3, <3>4 DEF Seen, Old
  <2> QED
    BY <2>3, <2>4
<1>10. BlankRows'
  BY <1>1, <1>2 DEF BlankRows, PollRows
<1> QED
  BY <1>3, <1>7, <1>8, <1>9, <1>10 DEF PollRows

(* A fetch is projected, or only remembered. *)
LEMMA FetchedOnce ==
    ASSUME BaseOK, Counted, UNCHANGED vars, prev' = Contracts, passed' = {}, crowded' = crowded
    PROVE  /\ Counted' /\ OneEach' /\ Trail' /\ Old' = Contracts
           /\ \A e : EventsIn(Old, e)' = EventsIn(Contracts, e)
           /\ \A s : SlotPapers(Old, s)' = SlotPapers(Contracts, s)
<1>1. Contracts # NoFetch
  BY FetchIs
<1>2. Old' = Contracts
  BY <1>1 DEF Old
<1>3. /\ \A e : EventsIn(Old, e)' = EventsIn(Contracts, e)
      /\ \A s : SlotPapers(Old, s)' = SlotPapers(Contracts, s)
  BY <1>2 DEF EventsIn, SlotPapers
<1>4. Counted'
  BY CountedStep DEF BaseOK
<1>5. OneEach'
  BY <1>3, ContractsOne DEF OneEach
<1>6. ASSUME NEW r \in Rsvps, stage'[r] = "live"
      PROVE  \E c \in Old' : c.kind = "rsvp" /\ c.cid[1] = r
  <2>1. stage[r] = "live"
    BY <1>6 DEF vars
  <2>2. RsvpOf(r) \in Contracts
    BY <2>1, ContractsAre DEF ContractFacts, Face
  <2> QED
    BY <1>2, <2>2 DEF RsvpOf
<1>7. Trail'
  BY <1>6 DEF Trail
<1> QED
  BY <1>2, <1>3, <1>4, <1>5, <1>7

LEMMA PollRowsFetched ==
    ASSUME PollRows, Fetched, Apply(Diff(Old, Contracts)),
           blurred' \subseteq Slots \cup Events, offset' \in BOOLEAN,
           ~offset' => ~offset /\ Old = Contracts,
           \A e \in Events \ blurred' : EventFits(eventRow[e], EventsIn(Old, e)),
           \A s \in Slots : Exact(s)' => Clear(s) /\ RowFits(rows[s], SlotPapers(Old, s))
    PROVE  PollRows'
<1>1. PollOK /\ Counted /\ OneEach /\ BaseOK
  BY DEF PollRows, PollOK, LedgerOK
<1>2. UNCHANGED vars /\ UNCHANGED crowded /\ prev' = Contracts /\ passed' = {}
  BY DEF Fetched
<1>3. /\ Counted' /\ OneEach' /\ Trail' /\ Old' = Contracts
      /\ \A e : EventsIn(Old, e)' = EventsIn(Contracts, e)
      /\ \A s : SlotPapers(Old, s)' = SlotPapers(Contracts, s)
  BY <1>1, <1>2, FetchedOnce
<1>4. PollOK'
  BY <1>1, PollSaysFetched
<1>5. /\ eventRow' = [e \in Events |-> HandleEvent(eventRow[e], e, Diff(Old, Contracts))]
      /\ rows' = [s \in Slots |-> HandleRsvp(rows[s], s, Diff(Old, Contracts))]
      /\ settlements' = [s \in Slots |-> HandleSettlement(settlements[s], rows[s], s, Diff(Old, Contracts))]
  BY DEF Apply
<1>6. ASSUME NEW e \in Events \ blurred' PROVE EventFits(eventRow[e], EventsIn(Old, e))'
  <2>1. PICK row : row = HandleEvent(eventRow[e], e, Diff(Old, Contracts))
    OBVIOUS
  <2>2. EventFits(row, EventsIn(Contracts, e))
    BY <1>1, <1>6, <2>1, EventFetched
  <2> QED
    BY <1>3, <1>5, <2>1, <2>2 DEF EventFits
<1>7. ASSUME NEW s \in Slots, Exact(s)' PROVE RowFits(rows[s], SlotPapers(Old, s))'
  <2>1. PICK row : row = HandleRsvp(rows[s], s, Diff(Old, Contracts))
    OBVIOUS
  <2>2. s \in Slots \ crowded
    BY <1>2, <1>7 DEF Exact
  <2>3. RowFits(row, SlotPapers(Contracts, s))
    BY <1>1, <1>7, <2>1, <2>2, RowFetched
  <2>4. rows'[s] = row
    BY <1>5, <2>1
  <2> QED
    BY <1>3, <2>3, <2>4 DEF RowFits, Fits
<1>8. BlankRows'
  <2>1. SUFFICES ASSUME ~offset'
                 PROVE  /\ \A e \in Events : eventRow'[e] = NoRow
                        /\ \A s \in Slots : rows'[s] = NoRow /\ settlements'[s] = "none"
    BY DEF BlankRows
  <2> DEFINE u == Diff(Old, Contracts)
  <2>2. u \in Update /\ u.created = {} /\ Old = Contracts /\ ~offset
    BY <1>1, <2>1, DiffTyped
  <2> HIDE DEF u
  <2>3. /\ \A e \in Events : eventRow[e] = NoRow
        /\ \A s \in Slots : rows[s] = NoRow /\ settlements[s] = "none"
    BY <2>2 DEF PollRows, BlankRows
  <2>4. \A e \in Events : HandleEvent(NoRow, e, u) = NoRow
    BY <2>2 DEF HandleEvent
  <2>5. \A s \in Slots : HandleRsvp(NoRow, s, u) = NoRow
    BY <2>2, HandledIs DEF CreatedFor
  <2>6. \A s \in Slots : HandleSettlement("none", NoRow, s, u) = "none"
    BY DEF HandleSettlement
  <2> QED
    BY <1>5, <2>3, <2>4, <2>5, <2>6 DEF u
<1> QED
  BY <1>3, <1>4, <1>6, <1>7, <1>8 DEF PollRows, PrevShows

(* The difference to the first fetch. *)
LEMMA SeedIs ==
    ASSUME BaseOK
    PROVE  Diff({}, Contracts) = [created |-> Creates({}, Contracts), archived |-> {},
                                  closed |-> FALSE, settles |-> {}]
  BY DEF Diff

LEMMA PollRowsSeed ==
    ASSUME PollRows, Seed
    PROVE  PollRows'
<1>1. prev = NoFetch /\ Old = {} /\ ~offset /\ Fetched
  BY DEF Seed, Old, PollRows, PollOK, PollTyped
<1>2. Apply(Diff(Old, Contracts))
  BY <1>1, SeedIs DEF Seed, PollRows, PollOK, LedgerOK
<1>3. /\ \A e \in Events : eventRow[e] = NoRow
      /\ \A s \in Slots : rows[s] = NoRow
  BY <1>1 DEF PollRows, BlankRows
<1>4. \A e \in Events : EventFits(eventRow[e], EventsIn(Old, e))
  BY <1>1, <1>3 DEF EventFits, EventsIn
<1>5. ASSUME NEW s \in Slots, Exact(s)' PROVE Clear(s) /\ RowFits(rows[s], SlotPapers(Old, s))
  <2>1. \A r \in Rsvps : SlotOf(r) = s => stage[r] # "live"
    BY <1>5 DEF Exact, Seed
  <2> QED
    BY <1>1, <1>3, <2>1 DEF Clear, RowFits, SlotPapers
<1>6. blurred' \subseteq Slots \cup Events /\ offset' \in BOOLEAN
  BY SlotIs DEF Seed
<1>7. ~offset' => Old = Contracts
  BY <1>1 DEF Seed
<1> QED
  BY <1>1, <1>2, <1>4, <1>5, <1>6, <1>7, PollRowsFetched

LEMMA PollRowsTick ==
    ASSUME PollRows, PollTick
    PROVE  PollRows'
<1>1. /\ prev # NoFetch /\ Old = prev /\ Fetched /\ Apply(Diff(Old, Contracts))
      /\ blurred' = blurred \cup {s \in Slots : Unclear(s, prev, Contracts)}
      /\ UNCHANGED <<vars, crowded>>
  BY DEF PollTick, Old, Fetched
<1>2. ASSUME NEW s \in Slots, Exact(s)' PROVE Clear(s)
  <2>1. ~Unclear(s, prev, Contracts)
    BY <1>1, <1>2 DEF Exact
  <2>2. \A c \in passed : ~(c.kind = "invite" /\ c.slot = s)
    BY <2>1 DEF Unclear
  <2>3. ASSUME NEW r \in Rsvps, SlotOf(r) = s, stage[r] = "live"
        PROVE  InviteOf(r) \in Old \/ \E c \in Old : c.kind = "rsvp" /\ c.cid[1] = r
    <3>1. InviteOf(r).kind = "invite" /\ InviteOf(r).slot = s
      BY <2>3 DEF InviteOf
    <3> QED
      BY <1>1, <2>2, <2>3, <3>1 DEF PollRows, Trail, Seen
  <2>4. ASSUME NEW c \in SlotPapers(Old, s), c.kind = "rsvp", stage[c.cid[1]] # "live",
               NEW d \in SlotPapers(Contracts, s)
        PROVE  FALSE
    <3>1. c \notin Contracts
      <4>1. SUFFICES ASSUME c \in Contracts PROVE FALSE
        OBVIOUS
      <4>2. PICK r \in Rsvps : c \in Face(r)
        BY <2>4, <4>1, ContractsAre DEF ContractFacts, PollRows, PollOK, LedgerOK
      <4> QED
        BY <2>4, <4>2, FaceIs
    <3>2. /\ c \in (prev \ Contracts) \cup passed /\ c.kind # "event" /\ c.kind # "alloc" /\ c.slot = s
          /\ d \in Contracts /\ d.kind # "event" /\ d.kind # "alloc" /\ d.slot = s
      BY <1>1, <2>4, <3>1 DEF SlotPapers
    <3> QED
      BY <2>1, <2>4, <3>2 DEF Unclear
  <2> QED
    BY <2>3, <2>4 DEF Clear
<1>3. ASSUME NEW s \in Slots, Exact(s)' PROVE RowFits(rows[s], SlotPapers(Old, s))
  BY <1>1, <1>3 DEF Exact, PollRows, PrevShows
<1>4. \A e \in Events \ blurred' : EventFits(eventRow[e], EventsIn(Old, e))
  BY <1>1 DEF PollRows, PrevShows
<1>5. blurred' \subseteq Slots \cup Events /\ offset' \in BOOLEAN
  BY <1>1 DEF PollTick, PollRows, PollOK, PollTyped
<1>6. ~offset' => ~offset /\ Old = Contracts
  BY <1>1 DEF PollTick
<1> QED
  BY <1>1, <1>2, <1>3, <1>4, <1>5, <1>6, PollRowsFetched

LEMMA MissedTyped ==
    ASSUME PollOK
    PROVE  Missed(Old, Contracts) \subseteq Slots \cup Events
<1> DEFINE changed == (Old \ Contracts) \cup (Contracts \ Old) \cup passed
<1>1. \A c \in changed : c \in Paper /\ Heard(c)
  BY FetchIs, OldTyped, ThereHeard DEF PollOK, LedgerOK, PollSays, Seen
<1>2. \A c \in changed : c.kind = "event" => c.event \in Events
  BY <1>1, PaperKinds DEF EventPapers
<1>3. \A c \in changed : c.kind \in {"invite", "rsvp"} => c.slot \in Slots
  BY <1>1, PaperKinds DEF InvitePapers, RsvpPapers
<1>4. ASSUME NEW c \in changed, c.kind = "alloc" PROVE spec[c.cid].slot \in Slots
  <2>1. c.cid \in Allocs /\ astate[c.cid] # "none"
    BY <1>1, <1>4, PaperKinds DEF AllocPapers, Heard
  <2>2. spec[c.cid] \in AllocSpecs
    BY <2>1 DEF PollOK, LedgerOK, Books, RecordedExists
  <2> QED
    BY <2>2 DEF AllocSpecs
<1>5. Missed(Old, Contracts) =
        {c.event : c \in {x \in changed : x.kind = "event"}}
        \cup {c.slot : c \in {x \in changed : x.kind \in {"invite", "rsvp"}}}
        \cup {spec[c.cid].slot : c \in {x \in changed : x.kind = "alloc"}}
  BY DEF Missed
<1> HIDE DEF changed
<1> QED
  BY <1>2, <1>3, <1>4, <1>5

LEMMA PollRowsRestart ==
    ASSUME PollRows, PollRestart
    PROVE  PollRows'
<1>1. PollOK /\ BaseOK /\ LedgerOK /\ prev # NoFetch /\ Old = prev /\ Old \subseteq Paper /\ Contracts \subseteq Paper
  BY FetchIs, OldTyped DEF PollRows, PollOK, LedgerOK, PollRestart, Old
<1>2. CASE offset
  <2>1. /\ UNCHANGED <<vars, queue, resend, stale, sweep, crowded, eventRow, rows, settlements, offset>>
        /\ prev' = Contracts /\ window' = 0 /\ passed' = {}
        /\ blurred' = blurred \cup Missed(Old, Contracts)
    BY <1>1, <1>2 DEF PollRestart, Fetched, feedVars, rowVars
  <2>2. /\ Counted' /\ OneEach' /\ Trail' /\ Old' = Contracts
        /\ \A e : EventsIn(Old, e)' = EventsIn(Contracts, e)
        /\ \A s : SlotPapers(Old, s)' = SlotPapers(Contracts, s)
    BY <1>1, <2>1, FetchedOnce DEF PollRows
  <2>3. PollOK'
    <3>1. Contracts' = Contracts /\ Seen' = Contracts /\ Contracts # NoFetch
      BY <1>1, <2>1, <2>2, ContractsStay, FetchIs DEF Seen
    <3>2. \A c \in Contracts : Heard(c)'
      BY <1>1, <2>1, ThereHeard, LedgerStays
    <3>3. RowsTyped'
      BY <1>1, <2>1 DEF PollOK, PollTyped, RowsTyped
    <3>4. PollTyped'
      BY <1>1, <2>1, <3>1, <3>3, MissedTyped, PollFeedConstants DEF PollOK, PollTyped
    <3>5. ASSUME NEW e \in Events PROVE EventRowSays(eventRow[e], e)'
      <4>1. PICK row : row = eventRow[e]
        OBVIOUS
      <4>2. EventRowSays(row, e)' /\ eventRow'[e] = row
        BY <1>1, <2>1, <4>1, LedgerStays DEF PollOK, PollSays
      <4> QED
        BY <4>2 DEF EventRowSays
    <3>6. ASSUME NEW s \in Slots PROVE RowSays(rows[s], s)'
      <4>1. PICK row : row = rows[s]
        OBVIOUS
      <4>2. RowSays(row, s)' /\ rows'[s] = row
        BY <1>1, <2>1, <4>1, LedgerStays DEF PollOK, PollSays
      <4> QED
        BY <4>2 DEF RowSays
    <3>7. PollSays'
      BY <2>1, <2>2, <3>1, <3>2, <3>5, <3>6 DEF PollSays
    <3> QED
      BY <1>1, <2>1, <3>4, <3>7, LedgerStays DEF PollOK
  <2> DEFINE changed == (Old \ Contracts) \cup (Contracts \ Old) \cup passed
  <2>4. /\ \A c \in changed : c.kind = "event" => c.event \in blurred'
        /\ \A c \in changed : c.kind \in {"invite", "rsvp"} => c.slot \in blurred'
    BY <2>1 DEF Missed
  <2> HIDE DEF changed
  <2>5. ASSUME NEW e \in Events \ blurred' PROVE EventFits(eventRow[e], EventsIn(Old, e))'
    <3>1. EventsIn(Contracts, e) = EventsIn(Old, e)
      BY <2>4, <2>5 DEF changed, EventsIn
    <3>2. EventFits(eventRow[e], EventsIn(Old, e))
      BY <2>1, <2>5 DEF PollRows, PrevShows
    <3> QED
      BY <2>1, <2>2, <3>1, <3>2 DEF EventFits
  <2>6. ASSUME NEW s \in Slots, Exact(s)' PROVE RowFits(rows[s], SlotPapers(Old, s))'
    <3>1. SlotPapers(Contracts, s) = SlotPapers(Old, s)
      BY <2>4, <2>6 DEF changed, SlotPapers, Exact
    <3>2. RowFits(rows[s], SlotPapers(Old, s))
      BY <2>1, <2>6 DEF PollRows, PrevShows, Exact
    <3> QED
      BY <2>1, <2>2, <3>1, <3>2 DEF RowFits, Fits
  <2> QED
    BY <1>2, <2>1, <2>2, <2>3, <2>5, <2>6 DEF PollRows, PrevShows, BlankRows
<1>3. CASE ~offset
  <2>1. /\ UNCHANGED <<vars, eventRow, rows, settlements, queue, resend, stale, sweep, crowded, offset, blurred>>
        /\ prev' = NoFetch /\ window' = 0 /\ passed' = {}
    BY <1>3 DEF PollRestart, rmVars, rowVars, feedVars
  <2>2. Old' = {} /\ Seen' = {} /\ Contracts' = Contracts
    BY <2>1, ContractsStay DEF Old, Seen
  <2>3. Counted'
    BY <1>1, <2>1, CountedStep DEF PollRows, BaseOK
  <2>4. OneEach' /\ Trail'
    BY <2>1, <2>2 DEF OneEach, Trail, EventsIn, SlotPapers
  <2>5. BlankRows'
    BY <2>1 DEF PollRows, BlankRows
  <2>6. PrevShows'
    <3>1. \A e \in Events : EventsIn(Old, e)' = {} /\ eventRow'[e] = NoRow
      BY <1>3, <2>1, <2>2, <2>5 DEF EventsIn, BlankRows
    <3>2. \A s \in Slots : SlotPapers(Old, s)' = {} /\ rows'[s] = NoRow
      BY <1>3, <2>1, <2>2, <2>5 DEF SlotPapers, BlankRows
    <3> QED
      BY <3>1, <3>2 DEF PrevShows, EventFits, RowFits
  <2>7. PollOK'
    <3>1. PollTyped'
      BY <1>1, <1>3, <2>1, PollFeedConstants DEF PollOK, PollTyped, RowsTyped
    <3>2. PollSays'
      BY <1>3, <2>1, <2>2, <2>5 DEF PollSays, BlankRows, EventRowSays, RowSays
    <3> QED
      BY <1>1, <2>1, <3>1, <3>2, LedgerStays DEF PollOK
  <2> QED
    BY <2>3, <2>4, <2>5, <2>6, <2>7 DEF PollRows
<1> QED
  BY <1>2, <1>3

(* Either feed. *)
FeedOK ==
    /\ mode \in {"ws", "poll"}
    /\ mode = "ws" => /\ RowsTend
                      /\ prev = NoFetch /\ offset = FALSE /\ window = 0
                      /\ passed = {} /\ blurred = {}
    /\ mode = "poll" => PollRows

LEMMA PollRowsInit == FeedInit => PollRows
<1> SUFFICES ASSUME FeedInit PROVE PollRows
  OBVIOUS
<1>1. RowsTend
  BY RowsTendInit DEF FeedInit
<1>2. /\ prev = NoFetch /\ offset = FALSE /\ window = 0 /\ passed = {} /\ blurred = {}
      /\ queue = <<>> /\ resend = <<>> /\ stale = 0 /\ sweep = {}
      /\ rows = [s \in Slots |-> NoRow] /\ eventRow = [e \in Events |-> NoRow]
      /\ settlements = [s \in Slots |-> "none"]
  BY DEF FeedInit, ReadModelInit
<1>3. Old = {} /\ Seen = {}
  BY <1>2 DEF Old, Seen
<1>4. PollOK
  <2>1. PollTyped
    <3>1. RowsTyped
      BY <1>1 DEF RowsTend, RowsOK
    <3>2. window \in 0..MaxWindow
      BY <1>2, PollFeedConstants
    <3> QED
      BY <1>2, <3>1, <3>2 DEF PollTyped
  <2>2. PollSays
    BY <1>2, <1>3 DEF PollSays, EventRowSays, RowSays
  <2> QED
    BY <1>1, <2>1, <2>2 DEF PollOK, RowsTend, RowsOK
<1>5. OneEach /\ PrevShows /\ Trail /\ BlankRows
  BY <1>2, <1>3 DEF OneEach, PrevShows, Trail, BlankRows, EventsIn, SlotPapers, EventFits, RowFits
<1> QED
  BY <1>1, <1>4, <1>5 DEF PollRows, RowsTend

LEMMA PollRowsStays ==
    ASSUME PollRows, UNCHANGED fvars
    PROVE  PollRows'
<1>1. /\ UNCHANGED <<vars, eventRow, rows, settlements, queue, resend, stale, sweep, crowded>>
      /\ UNCHANGED <<prev, offset, window, passed, blurred>>
  BY DEF fvars, rmVars, rowVars, feedVars, pollVars
<1>2. Old' = Old /\ Seen' = Seen /\ Contracts' = Contracts
  BY <1>1, ContractsStay DEF Old, Seen
<1>3. PollOK'
  <2>1. PollTyped'
    BY <1>1 DEF PollRows, PollOK, PollTyped, RowsTyped
  <2>2. ASSUME NEW e \in Events PROVE EventRowSays(eventRow[e], e)'
    <3>1. PICK row : row = eventRow[e]
      OBVIOUS
    <3>2. EventRowSays(row, e)' /\ eventRow'[e] = row
      BY <1>1, <3>1, LedgerStays DEF PollRows, PollOK, PollSays
    <3> QED
      BY <3>2 DEF EventRowSays
  <2>3. ASSUME NEW s \in Slots PROVE RowSays(rows[s], s)'
    <3>1. PICK row : row = rows[s]
      OBVIOUS
    <3>2. RowSays(row, s)' /\ rows'[s] = row
      BY <1>1, <3>1, LedgerStays DEF PollRows, PollOK, PollSays
    <3> QED
      BY <3>2 DEF RowSays
  <2>4. PollSays'
    BY <1>1, <1>2, <2>2, <2>3, LedgerStays DEF PollRows, PollOK, PollSays
  <2> QED
    BY <1>1, <2>1, <2>4, LedgerStays DEF PollRows, PollOK
<1>4. Counted'
  BY <1>1, CountedStep DEF PollRows, PollOK, LedgerOK, BaseOK
<1>5. OneEach'
  BY <1>1, <1>2 DEF PollRows, OneEach, EventsIn, SlotPapers
<1>6. PrevShows'
  <2>1. /\ \A e : EventsIn(Old, e)' = EventsIn(Old, e)
        /\ \A s : SlotPapers(Old, s)' = SlotPapers(Old, s)
    BY <1>2 DEF EventsIn, SlotPapers
  <2> QED
    BY <1>1, <2>1 DEF PollRows, PrevShows, EventFits, RowFits, Fits, Exact
<1>7. Trail'
  BY <1>1, <1>2 DEF PollRows, Trail, InviteOf, SlotOf, vars
<1> QED
  BY <1>1, <1>3, <1>4, <1>5, <1>6, <1>7 DEF PollRows, BlankRows

LEMMA FeedStep == FeedOK /\ [FeedNext]_fvars => FeedOK'
<1> SUFFICES ASSUME FeedOK, [FeedNext]_fvars PROVE FeedOK'
  OBVIOUS
<1>1. CASE mode = "ws"
  <2>1. prev = NoFetch /\ RowsTend
    BY <1>1 DEF FeedOK
  <2>2. [ReadModelNext]_rmVars /\ UNCHANGED pollVars
    BY <1>1, <2>1 DEF FeedNext, PollLedger, Seed, PollTick, PollRestart, Fetched, fvars
  <2>3. RowsTend'
    BY <2>1, <2>2, RowsTendStep
  <2> QED
    BY <1>1, <2>2, <2>3 DEF FeedOK, pollVars
<1>2. CASE mode = "poll"
  <2>1. PollRows /\ mode' = "poll"
    BY <1>2 DEF FeedOK, FeedNext, PollLedger, Seed, PollTick, PollRestart, Fetched, fvars, pollVars
  <2>2. PollRows'
    <3>1. PollLedger \/ Seed \/ PollTick \/ PollRestart \/ UNCHANGED fvars
      BY <1>2 DEF FeedNext
    <3> QED
      BY <2>1, <3>1, PollRowsLedger, PollRowsSeed, PollRowsTick, PollRowsRestart, PollRowsStays
  <2> QED
    BY <2>1, <2>2 DEF FeedOK
<1> QED
  BY <1>1, <1>2 DEF FeedOK

LEMMA FeedStart == FeedInit => FeedOK
  BY RowsTendInit, PollRowsInit DEF FeedInit, FeedOK

LEMMA FeedTyping == FeedOK => FeedTypeOK
<1> SUFFICES ASSUME FeedOK PROVE FeedTypeOK
  OBVIOUS
<1>1. CASE mode = "ws"
  <2>1. ReadModelTypeOK
    BY <1>1, RowsTypes DEF FeedOK, RowsTend
  <2>2. window = 0 /\ offset = FALSE /\ blurred = {} /\ mode # "poll"
    BY <1>1 DEF FeedOK
  <2>3. window \in 0..MaxWindow
    BY <2>2, PollFeedConstants
  <2> QED
    BY <1>1, <2>1, <2>2, <2>3 DEF FeedTypeOK
<1>2. CASE mode = "poll"
  <2>1. PollTyped /\ TypeOK
    BY <1>2 DEF FeedOK, PollRows, PollOK, LedgerOK, BaseOK
  <2>2. ReadModelTypeOK
    BY <2>1, ReadModelConstants DEF PollTyped, RowsTyped, ReadModelTypeOK
  <2> QED
    BY <1>2, <2>1, <2>2 DEF FeedTypeOK, PollTyped
<1> QED
  BY <1>1, <1>2 DEF FeedOK

(* Rows, queues and fetches stay well formed, and the feed that fetches uses *)
(* nothing of the other one.                                                 *)
THEOREM FeedTypes == FeedSpec => []FeedTypeOK
  BY FeedStart, FeedStep, FeedTyping, PTL DEF FeedSpec

(* What was fetched last, when nothing has happened since. *)
LEMMA PollShows ==
    ASSUME PollRows, prev = Contracts
    PROVE  /\ \A e \in Events \ blurred : EventShown(e)
           /\ \A s \in Slots : Exact(s) => SlotShown(s)
<1>1. LedgerOK /\ BaseOK /\ ContractFacts /\ Old = Contracts
  BY FetchIs, ContractsAre DEF PollRows, PollOK, LedgerOK, Old
<1>2. ASSUME NEW e \in Events \ blurred PROVE EventShown(e)
  <2>1. EventFits(eventRow[e], EventsIn(Contracts, e))
    BY <1>1, <1>2 DEF PollRows, PrevShows
  <2>2. CASE EventLive(e)
    <3>1. EventPaper(e, event[e]) \in EventsIn(Contracts, e)
      BY <1>1, <2>2 DEF ContractFacts, EventFace, EventsIn, EventPaper
    <3> QED
      BY <2>1, <2>2, <3>1 DEF EventFits, EventPaper, EventShown
  <2>3. CASE ~EventLive(e)
    <3>1. EventsIn(Contracts, e) = {}
      BY <1>1, <2>3 DEF ContractFacts, EventFace, EventsIn, EventPaper
    <3> QED
      BY <2>1, <2>3, <3>1 DEF EventFits, EventShown
  <2> QED
    BY <2>2, <2>3
<1>3. ASSUME NEW s \in Slots, Exact(s) PROVE SlotShown(s)
  <2> DEFINE row == rows[s]
  <2>1. RowFits(row, SlotPapers(Contracts, s))
    BY <1>1, <1>3 DEF PollRows, PrevShows
  <2> HIDE DEF row
  <2>2. ASSUME NEW r \in Outstanding(s) PROVE RowShows(row, r)
    <3>1. r \in Rsvps /\ SlotOf(r) = s
      BY DEF Outstanding
    <3>2. CASE stage[r] = "invited"
      <4>1. InviteOf(r) \in SlotPapers(Contracts, s)
        BY <1>1, <3>1, <3>2 DEF ContractFacts, Face, SlotPapers, InviteOf
      <4> QED
        BY <2>1, <3>2, <4>1 DEF RowFits, Fits, InviteOf, RowShows
    <3>3. CASE stage[r] = "live"
      <4> DEFINE c == RsvpOf(r)
      <4>1. /\ c.kind = "rsvp" /\ c.slot = s /\ c.cid = <<r, ver[r]>>
            /\ c.alloc = IF allocOf[r] = NoAlloc THEN None ELSE allocOf[r]
            /\ c.checkedIn = (r \in checkedIn) /\ c.withdrawn = (r \in withdrawn)
        BY <3>1 DEF RsvpOf
      <4>2. c \in Contracts
        BY <1>1, <3>1, <3>3 DEF ContractFacts, Face
      <4> HIDE DEF c
      <4>3. row # NoRow /\ Fits(row, c)
        BY <2>1, <4>1, <4>2 DEF RowFits, SlotPapers
      <4>4. allocOf[r] = NoAlloc \/ allocOf[r] # None
        BY <1>1, <3>1, ReadModelConstants DEF BaseOK, TypeOK
      <4>5. /\ row.rsvp = <<r, ver[r]>> /\ row.invite = None
            /\ row.checkedIn = (r \in checkedIn)
            /\ row.alloc = IF r \in withdrawn THEN None ELSE c.alloc
            /\ row.status = IF r \in withdrawn THEN "withdrawn"
                            ELSE IF c.alloc # None THEN "staked" ELSE "accepted"
        BY <4>1, <4>3 DEF Fits
      <4> QED
        BY <3>3, <4>1, <4>3, <4>4, <4>5 DEF RowShows
    <3> QED
      BY <3>2, <3>3 DEF Outstanding
  <2>3. Outstanding(s) = {} => SlotPapers(Contracts, s) = {}
    <3>1. SUFFICES ASSUME NEW c \in SlotPapers(Contracts, s) PROVE Outstanding(s) # {}
      OBVIOUS
    <3>2. PICK r \in Rsvps : c \in Face(r)
      BY <1>1, <3>1 DEF ContractFacts, SlotPapers
    <3> QED
      BY <3>1, <3>2, FaceIs DEF SlotPapers, Outstanding
  <2> QED
    BY <2>1, <2>2, <2>3 DEF RowFits, SlotShown, Over, row
<1> QED
  BY <1>2, <1>3

LEMMA FeedShows == FeedOK => FeedRowsFaithful
<1> SUFFICES ASSUME FeedOK, CaughtUp
             PROVE  /\ \A e \in Events \ blurred : EventShown(e)
                    /\ \A s \in Slots : Exact(s) => SlotShown(s)
  BY DEF FeedRowsFaithful
<1>1. CASE mode = "ws"
  BY <1>1, RowsTendShow DEF FeedOK, CaughtUp, Exact
<1>2. CASE mode = "poll"
  BY <1>2, PollShows DEF FeedOK, CaughtUp
<1> QED
  BY <1>1, <1>2 DEF FeedOK

(* Whichever feed is used, the rows it has caught up with say what the       *)
(* ledger says, after any number of restarts and of updates handled twice,   *)
(* except where the poll feed could not see.                                 *)
THEOREM FeedRows == FeedSpec => []FeedRowsFaithful
  BY FeedStart, FeedStep, FeedShows, PTL DEF FeedSpec

(* What the feed that fetches knows of the RSVPs that ended: a fetch has one *)
(* contract of each, and one that was seen is seen to its end.               *)
OneRsvp ==
    \A c, d \in Old : c.kind = "rsvp" /\ d.kind = "rsvp" /\ c.cid[1] = d.cid[1] => c = d

EndSeen ==
    prev # NoFetch => \A r \in Rsvps :
        stage[r] \in Gone /\ (\E c \in Seen : c.kind = "rsvp" /\ c.cid[1] = r)
            => RsvpOf(r) \in Seen

Outcomes == \A s \in Slots \ blurred : OutcomeTrue(s)

OutcomeDue ==
    prev # NoFetch => \A r \in Rsvps :
        Exact(SlotOf(r)) /\ settlements[SlotOf(r)] = "none" /\ stage[r] \in Paid
            => RsvpOf(r) \in Seen

PollEnds == OneRsvp /\ EndSeen /\ Outcomes /\ OutcomeDue

(* The ledger archives nothing that is not seen to go. *)
LEMMA SeenGrows ==
    ASSUME PollRows, PollLedger, prev # NoFetch
    PROVE  /\ Old' = Old /\ prev' # NoFetch /\ Seen \subseteq Seen'
           /\ \A c \in Archived : c \in Seen'
           /\ \A c \in Seen' \ Seen : c \in Contracts
           /\ \A r \in Rsvps : stage[r] = "live" /\ stage'[r] \in Gone =>
                 RsvpOf(r)' = RsvpOf(r) /\ RsvpOf(r) \in Seen'
<1>1. /\ Next /\ UNCHANGED prev /\ TypeOK /\ BaseOK /\ BaseOK'
      /\ \/ Archived = {} /\ passed' = passed
         \/ passed' = passed \cup (Archived \ prev)
  BY LedgerStep DEF PollLedger, PollRows, PollOK, LedgerOK, BaseOK
<1>2. Old' = Old /\ Old = prev
  BY <1>1 DEF Old
<1>3. \A c \in Archived : c \in Contracts
  BY <1>1, TellsNew
<1>4. /\ Seen \subseteq Seen'
      /\ \A c \in Archived : c \in Seen'
      /\ \A c \in Seen' \ Seen : c \in Contracts
  BY <1>1, <1>2, <1>3 DEF Seen
<1>5. ASSUME NEW r \in Rsvps, stage[r] = "live", stage'[r] \in Gone
      PROVE  RsvpOf(r)' = RsvpOf(r) /\ RsvpOf(r) \in Seen'
  <2>1. SamePaper(r)
    BY <1>1, <1>5, Forward DEF Onward, Gone
  <2>2. RsvpOf(r) \in Face(r) \ Face(r)'
    BY <1>5 DEF Face, Gone
  <2> QED
    BY <1>1, <1>4, <2>1, <2>2, TellsFace, PaperStays
<1> QED
  BY <1>1, <1>2, <1>4, <1>5

LEMMA OutcomeKept ==
    ASSUME TypeOK, [Next]_vars, NEW s, OutcomeTrue(s), settlements'[s] = settlements[s]
    PROVE  OutcomeTrue(s)'
<1>1. \A how \in Paid : Settled(s, how) => Settled(s, how)'
  BY SettledStays
<1> QED
  BY <1>1 DEF OutcomeTrue, Paid

LEMMA PollEndsLedger ==
    ASSUME PollRows, PollEnds, PollLedger
    PROVE  PollEnds'
<1>1. /\ Next /\ UNCHANGED <<rowVars, prev, blurred>> /\ crowded \subseteq crowded'
      /\ TypeOK /\ BaseOK
  BY DEF PollLedger, PollRows, PollOK, LedgerOK, BaseOK
<1>2. UNCHANGED settlements /\ \A r : SlotOf(r)' = SlotOf(r)
  BY <1>1 DEF rowVars, SlotOf
<1>3. OneRsvp'
  BY <1>1 DEF PollEnds, OneRsvp, Old
<1>4. Outcomes'
  BY <1>1, <1>2, OutcomeKept DEF PollEnds, Outcomes
<1>5. ASSUME prev # NoFetch, NEW r \in Rsvps, stage'[r] \in Gone,
             \E c \in Seen' : c.kind = "rsvp" /\ c.cid[1] = r
      PROVE  RsvpOf(r)' \in Seen'
  <2>1. Onward(r)
    BY <1>1, Forward
  <2>2. CASE stage[r] = "live"
    BY <1>5, <2>2, SeenGrows
  <2>3. CASE stage[r] \in Gone
    <3>1. PICK c \in Seen' : c.kind = "rsvp" /\ c.cid[1] = r
      BY <1>5
    <3>2. c \in Seen
      <4>1. SUFFICES ASSUME c \notin Seen PROVE FALSE
        OBVIOUS
      <4>2. c \in Contracts
        BY <1>5, <3>1, <4>1, SeenGrows
      <4>3. PICK p \in Rsvps : c \in Face(p)
        BY <1>1, <3>1, <4>2, ContractsAre DEF ContractFacts
      <4> QED
        BY <2>3, <3>1, <4>3, FaceIs DEF Gone
    <3>3. RsvpOf(r) \in Seen
      BY <1>5, <2>3, <3>1, <3>2 DEF PollEnds, EndSeen
    <3>4. RsvpOf(r)' = RsvpOf(r)
      BY <2>1, <2>3, PaperStays DEF Onward, Untouched
    <3> QED
      BY <1>5, <3>3, <3>4, SeenGrows
  <2>4. stage[r] = "live" \/ stage[r] \in Gone
    <3>1. \/ stage[r] \in Gone \/ stage[r] = "live" 
          \/ Untouched(r) \/ Moves(r)
      BY <1>1, LedgerMoves DEF EventMoves, AllocMoves, RsvpMoves, Closes, rsvpVars, Untouched, SamePaper
    <3> QED
      BY <1>5, <3>1 DEF Untouched, Moves, Renewed, Gone, Dropped
  <2> QED
    BY <2>2, <2>3, <2>4
<1>6. ASSUME prev # NoFetch, NEW r \in Rsvps, stage'[r] \in Paid,
             Exact(SlotOf(r))', settlements'[SlotOf(r)] = "none"
      PROVE  RsvpOf(r)' \in Seen'
  <2>1. Onward(r) /\ Exact(SlotOf(r)) /\ settlements[SlotOf(r)] = "none"
    BY <1>1, <1>2, <1>6, Forward DEF Exact
  <2>2. CASE stage[r] = "live"
    BY <1>6, <2>2, SeenGrows DEF Gone, Paid
  <2>3. CASE stage[r] \in Gone
    <3>1. Untouched(r)
      BY <2>1, <2>3 DEF Onward
    <3>2. RsvpOf(r) \in Seen
      BY <1>6, <2>1, <3>1 DEF PollEnds, OutcomeDue, Untouched
    <3> QED
      BY <1>6, <3>1, <3>2, SeenGrows, PaperStays DEF Untouched
  <2>4. stage[r] = "live" \/ stage[r] \in Gone
    <3>1. \/ stage[r] \in Gone \/ stage[r] = "live" 
          \/ Untouched(r) \/ Moves(r)
      BY <1>1, LedgerMoves DEF EventMoves, AllocMoves, RsvpMoves, Closes, rsvpVars, Untouched, SamePaper
    <3> QED
      BY <1>6, <3>1 DEF Untouched, Moves, Renewed, Gone, Dropped, Paid
  <2> QED
    BY <2>2, <2>3, <2>4
<1>7. EndSeen'
  BY <1>1, <1>5 DEF EndSeen
<1>8. OutcomeDue'
  BY <1>1, <1>2, <1>6 DEF OutcomeDue
<1> QED
  BY <1>3, <1>4, <1>7, <1>8 DEF PollEnds

(* A fetch is projected, or only remembered. *)
LEMMA PollEndsFetched ==
    ASSUME BaseOK, UNCHANGED vars, prev' = Contracts, passed' = {}
    PROVE  OneRsvp' /\ EndSeen'
<1>1. ContractFacts /\ Old' = Contracts /\ Seen' = Contracts
  BY FetchIs, ContractsAre DEF Old, Seen
<1>2. \A c \in Contracts : c.kind = "rsvp" =>
          c.cid[1] \in Rsvps /\ c = RsvpOf(c.cid[1]) /\ stage[c.cid[1]] = "live"
  <2>1. SUFFICES ASSUME NEW c \in Contracts, c.kind = "rsvp"
                 PROVE  c.cid[1] \in Rsvps /\ c = RsvpOf(c.cid[1]) /\ stage[c.cid[1]] = "live"
    OBVIOUS
  <2>2. PICK p \in Rsvps : c \in Face(p)
    BY <1>1, <2>1 DEF ContractFacts
  <2> QED
    BY <2>1, <2>2, FaceIs
<1>3. OneRsvp'
  BY <1>1, <1>2 DEF OneRsvp
<1>4. \A r \in Rsvps : stage'[r] \in Gone => ~\E c \in Seen' : c.kind = "rsvp" /\ c.cid[1] = r
  BY <1>1, <1>2 DEF vars, Gone
<1> QED
  BY <1>3, <1>4 DEF EndSeen

LEMMA OutcomeStill ==
    ASSUME UNCHANGED vars, NEW s, settlements'[s] = settlements[s]
    PROVE  OutcomeTrue(s) => OutcomeTrue(s)'
  BY DEF vars, OutcomeTrue, Settled, SlotOf

LEMMA PollEndsSeed ==
    ASSUME PollRows, PollEnds, Seed
    PROVE  PollEnds'
<1>1. /\ prev = NoFetch /\ Old = {} /\ ~offset /\ BaseOK
      /\ UNCHANGED vars /\ prev' = Contracts /\ passed' = {}
      /\ blurred' = {SlotOf(r) : r \in {q \in Rsvps : stage[q] \in {"live", "refunded", "slashed"}}}
  BY DEF Seed, Old, Fetched, PollRows, PollOK, PollTyped, LedgerOK
<1>2. \A s \in Slots : rows[s] = NoRow /\ settlements[s] = "none"
  BY <1>1 DEF PollRows, BlankRows
<1>3. \A s \in Slots : settlements'[s] = "none"
  BY <1>2 DEF Seed, Apply, HandleSettlement
<1>4. Outcomes'
  BY <1>3 DEF Outcomes, OutcomeTrue
<1>5. \A r \in Rsvps : Exact(SlotOf(r))' => stage'[r] \notin Paid
  BY <1>1 DEF Exact, Paid, SlotOf, vars
<1> QED
  BY <1>1, <1>4, <1>5, PollEndsFetched DEF PollEnds, OutcomeDue

LEMMA PollEndsRestart ==
    ASSUME PollRows, PollEnds, PollRestart
    PROVE  PollEnds'
<1>1. prev # NoFetch /\ BaseOK /\ UNCHANGED <<vars, settlements>> /\ blurred \subseteq blurred'
      /\ UNCHANGED crowded
  BY DEF PollRestart, Fetched, rmVars, rowVars, PollRows, PollOK, LedgerOK
<1>2. Outcomes'
  BY <1>1, OutcomeStill DEF PollEnds, Outcomes
<1>3. CASE ~offset
  <2>1. prev' = NoFetch /\ Old' = {}
    BY <1>3 DEF PollRestart, Old
  <2> QED
    BY <1>2, <2>1 DEF PollEnds, OneRsvp, EndSeen, OutcomeDue
<1>4. CASE offset
  <2>1. /\ prev' = Contracts /\ passed' = {}
        /\ blurred' = blurred \cup Missed(prev, Contracts)
    BY <1>4 DEF PollRestart, Fetched
  <2>2. ASSUME NEW r \in Rsvps, Exact(SlotOf(r))', settlements'[SlotOf(r)] = "none",
               stage'[r] \in Paid
        PROVE  FALSE
    <3>1. /\ Exact(SlotOf(r)) /\ SlotOf(r) \notin Missed(prev, Contracts)
          /\ settlements[SlotOf(r)] = "none" /\ stage[r] \in Paid
      BY <1>1, <2>1, <2>2 DEF Exact, SlotOf, vars
    <3>2. RsvpOf(r) \in Seen
      BY <1>1, <3>1 DEF PollEnds, OutcomeDue
    <3>3. RsvpOf(r).kind = "rsvp" /\ RsvpOf(r).slot = SlotOf(r) /\ RsvpOf(r).cid[1] = r
      BY DEF RsvpOf
    <3>4. RsvpOf(r) \notin Contracts
      <4>1. SUFFICES ASSUME RsvpOf(r) \in Contracts PROVE FALSE
        OBVIOUS
      <4>2. PICK p \in Rsvps : RsvpOf(r) \in Face(p)
        BY <1>1, <3>3, <4>1, ContractsAre DEF ContractFacts
      <4> QED
        BY <3>1, <3>3, <4>2, FaceIs DEF Paid
    <3>5. RsvpOf(r) \in (prev \ Contracts) \cup (Contracts \ prev) \cup passed
      BY <1>1, <3>2, <3>4 DEF Seen, Old
    <3>6. SlotOf(r) \in Missed(prev, Contracts)
      BY <3>3, <3>5 DEF Missed
    <3> QED
      BY <3>1, <3>6
  <2>3. OutcomeDue'
    BY <2>2 DEF OutcomeDue, SlotOf
  <2> QED
    BY <1>1, <1>2, <2>1, <2>3, PollEndsFetched DEF PollEnds
<1> QED
  BY <1>3, <1>4

(* What ended between two fetches of a slot that is clear. *)
LEMMA EndedIs ==
    ASSUME PollRows, PollEnds, prev # NoFetch, NEW s \in Slots,
           ~Unclear(s, prev, Contracts),
           NEW c \in prev \ Contracts, c.kind = "rsvp", c.slot = s,
           s[1] \in EndedEvents(prev, Contracts),
           ~\E d \in Contracts : d.kind = "rsvp" /\ d.slot = s /\ d \notin prev
    PROVE  /\ c.cid[1] \in Rsvps /\ SlotOf(c.cid[1]) = s
           /\ stage[c.cid[1]] \in Paid /\ c = RsvpOf(c.cid[1])
<1> DEFINE r == c.cid[1]
<1>1. /\ Old = prev /\ c \in Old /\ c \in Seen /\ c \in Old \ Contracts /\ c \in Paper
      /\ RsvpSays(c, r) /\ EndSays(c) /\ LedgerOK /\ BaseOK
  BY OldTyped DEF Old, Seen, PollRows, PollOK, PollSays, Heard, Says, LedgerOK
<1>2. r \in Rsvps /\ c.cid[2] \in Nat /\ SlotOf(r) = s /\ stage[r] \in Late /\ ver[r] \in Nat
      /\ c.cid = <<r, c.cid[2]>>
  BY <1>1, PaperKinds DEF RsvpPapers, RsvpCids, RsvpSays, BaseOK, TypeOK
<1>3. stage[r] \in Gone
  <2>1. SUFFICES ASSUME stage[r] = "live" PROVE FALSE
    BY <1>2 DEF Late
  <2>2. RsvpOf(r) \in Contracts
    BY <1>1, <1>2, <2>1, ContractsAre DEF ContractFacts, Face
  <2>3. RsvpOf(r).kind = "rsvp" /\ RsvpOf(r).slot = s /\ RsvpOf(r).cid[1] = r
    BY <1>2 DEF RsvpOf
  <2>4. RsvpOf(r) \in Old
    BY <1>1, <2>2, <2>3
  <2> QED
    BY <1>1, <2>2, <2>3, <2>4 DEF PollEnds, OneRsvp
<1> DEFINE gone  == {d \in (prev \ Contracts) \cup passed : d.kind # "event" /\ d.kind # "alloc" /\ d.slot = s}
           ended == {d \in gone : d.kind = "rsvp" /\ stage[d.cid[1]] # "live"}
<1>4. \A d \in ended : IF stage[d.cid[1]] \in {"refunded", "slashed"}
                       THEN d \notin passed /\ s[1] \in EndedEvents(prev, Contracts)
                       ELSE s[1] \notin EndedEvents(prev, Contracts)
  BY DEF Unclear
<1> HIDE DEF r
<1>5. c \in ended
  BY <1>3 DEF Gone, r
<1>6. stage[r] \in Paid
  BY <1>4, <1>5 DEF Paid, r
<1>7. RsvpOf(r) = c
  <2>1. RsvpOf(r).kind = "rsvp" /\ RsvpOf(r).slot = s /\ RsvpOf(r).cid[1] = r
    BY <1>2 DEF RsvpOf
  <2>2. RsvpOf(r) \in Seen
    BY <1>1, <1>2, <1>3 DEF PollEnds, EndSeen, r
  <2>3. RsvpOf(r) \notin passed
    <3>1. SUFFICES ASSUME RsvpOf(r) \in passed PROVE FALSE
      OBVIOUS
    <3>2. RsvpOf(r) \in ended
      BY <1>3, <2>1, <3>1 DEF Gone
    <3> QED
      BY <1>4, <1>6, <2>1, <3>1, <3>2 DEF Paid
  <2> QED
    BY <1>1, <2>1, <2>2, <2>3 DEF PollEnds, OneRsvp, Seen, r
<1> QED
  BY <1>2, <1>6, <1>7 DEF r

(* The RSVPs that the difference takes to be settled, and those it creates. *)
LEMMA DiffSettles ==
    ASSUME PollOK, prev # NoFetch, NEW s, NEW cid
    PROVE  LET u == Diff(Old, Contracts)
           IN  /\ IsSettled(u, cid) <=>
                     \E c \in prev \ Contracts : c.kind = "rsvp" /\ c.cid = cid
                                  /\ c.slot[1] \in EndedEvents(prev, Contracts)
               /\ CreatedFor(u, "rsvp", s) =
                     {c \in Contracts \ prev : c.kind = "rsvp" /\ c.slot = s}
               /\ Archives(u, "rsvp", cid) <=>
                     \E c \in prev \ Contracts : c.kind = "rsvp" /\ c.cid = cid
<1> DEFINE u == Diff(Old, Contracts)
<1>1. /\ \A c : c \in u.created <=> c \in Contracts \ Old /\ c.kind # "alloc"
      /\ u.archived = Old \ Contracts /\ u.closed = FALSE /\ Old = prev
  BY DiffTyped DEF Old
<1>2. u.settles = {c.cid : c \in {x \in prev \ Contracts :
                      x.kind = "rsvp" /\ x.slot[1] \in EndedEvents(prev, Contracts)}}
  BY <1>1 DEF Diff
<1> HIDE DEF u
<1>3. IsSettled(u, cid) <=>
          \E c \in prev \ Contracts : c.kind = "rsvp" /\ c.cid = cid
                       /\ c.slot[1] \in EndedEvents(prev, Contracts)
  BY <1>1, <1>2 DEF IsSettled
<1>4. CreatedFor(u, "rsvp", s) = {c \in Contracts \ prev : c.kind = "rsvp" /\ c.slot = s}
  BY <1>1 DEF CreatedFor
<1>5. Archives(u, "rsvp", cid) <=> \E c \in prev \ Contracts : c.kind = "rsvp" /\ c.cid = cid
  BY <1>1 DEF Archives
<1> QED
  BY <1>3, <1>4, <1>5 DEF u

LEMMA PollEndsTick ==
    ASSUME PollRows, PollEnds, PollTick
    PROVE  PollEnds'
<1> DEFINE u == Diff(prev, Contracts)
<1>1. /\ prev # NoFetch /\ Old = prev /\ BaseOK /\ LedgerOK /\ PollOK
      /\ UNCHANGED <<vars, crowded>> /\ prev' = Contracts /\ passed' = {}
      /\ blurred' = blurred \cup {s \in Slots : Unclear(s, prev, Contracts)}
      /\ settlements' = [s \in Slots |-> HandleSettlement(settlements[s], rows[s], s, u)]
  BY DEF PollTick, Old, Fetched, Apply, PollRows, PollOK, LedgerOK
<1>2. \A s, cid :
        /\ IsSettled(u, cid) <=>
              \E c \in prev \ Contracts : c.kind = "rsvp" /\ c.cid = cid
                           /\ c.slot[1] \in EndedEvents(prev, Contracts)
        /\ CreatedFor(u, "rsvp", s) =
              {c \in Contracts \ prev : c.kind = "rsvp" /\ c.slot = s}
        /\ Archives(u, "rsvp", cid) <=>
              \E c \in prev \ Contracts : c.kind = "rsvp" /\ c.cid = cid
  BY <1>1, DiffSettles
<1> HIDE DEF u
<1>3. ASSUME NEW s \in Slots \ blurred' PROVE OutcomeTrue(s)'
  <2>1. s \notin blurred /\ ~Unclear(s, prev, Contracts) /\ OutcomeTrue(s)
    BY <1>1, <1>3 DEF PollEnds, Outcomes
  <2>2. CASE settlements'[s] = settlements[s]
    BY <1>1, <2>1, <2>2, OutcomeStill
  <2>3. CASE settlements'[s] # settlements[s]
    <3> DEFINE row == rows[s]
    <3>1. /\ row # NoRow /\ Archives(u, "rsvp", row.rsvp) /\ IsSettled(u, row.rsvp)
          /\ CreatedFor(u, "rsvp", s) = {}
          /\ settlements'[s] = IF row.checkedIn THEN "refund" ELSE "slash"
      BY <1>1, <2>3 DEF HandleSettlement
    <3>2. RowSays(row, s) /\ row \in Row
      BY <1>1, <3>1 DEF PollOK, PollSays, PollTyped, RowsTyped
    <3> HIDE DEF row
    <3>3. PICK c \in prev \ Contracts : c.kind = "rsvp" /\ c.cid = row.rsvp
                           /\ c.slot[1] \in EndedEvents(prev, Contracts)
      BY <1>2, <3>1
    <3>4. /\ c \in Paper /\ RsvpSays(c, c.cid[1]) /\ c.cid \in RsvpCids
      BY <1>1, <3>3, OldTyped, PaperKinds DEF Seen, PollOK, PollSays, Heard, Says, RsvpPapers
    <3>5. c.slot = s /\ row.rsvp # None
      BY <3>1, <3>2, <3>3, <3>4, ReadModelConstants DEF RowSays, RsvpSays
    <3> DEFINE r == c.cid[1]
    <3>6. r \in Rsvps /\ SlotOf(r) = s /\ stage[r] \in Paid /\ c = RsvpOf(r)
      BY <1>1, <1>2, <2>1, <3>1, <3>3, <3>5, EndedIs
    <3>7. c.cid[2] = ver[r]
      BY <3>6 DEF RsvpOf
    <3> HIDE DEF r
    <3>8. row.checkedIn = (r \in checkedIn)
      BY <3>1, <3>2, <3>3, <3>5, <3>7 DEF RowSays, r
    <3>9. (stage[r] = "refunded" => r \in checkedIn) /\ (stage[r] = "slashed" => r \notin checkedIn)
      BY <1>1, <3>6 DEF LedgerOK, Books, StakeAccounted
    <3>10. CASE r \in checkedIn
      <4>1. (r \in checkedIn) = TRUE
        BY <3>10
      <4>2. settlements'[s] = "refund" /\ stage'[r] = "refunded"
        BY <1>1, <3>1, <3>6, <3>8, <3>9, <3>10, <4>1 DEF Paid, vars
      <4> QED
        BY <3>6, <4>2 DEF OutcomeTrue, Settled, SlotOf
    <3>11. CASE r \notin checkedIn
      <4>1. (r \in checkedIn) = FALSE
        BY <3>11
      <4>2. settlements'[s] = "slash" /\ stage'[r] = "slashed"
        BY <1>1, <3>1, <3>6, <3>8, <3>9, <3>11, <4>1 DEF Paid, vars
      <4> QED
        BY <3>6, <4>2 DEF OutcomeTrue, Settled, SlotOf
    <3> QED
      BY <3>10, <3>11
  <2> QED
    BY <2>2, <2>3
<1>4. ASSUME NEW r \in Rsvps, Exact(SlotOf(r))', settlements'[SlotOf(r)] = "none",
             stage'[r] \in Paid
      PROVE  FALSE
  <2> DEFINE s == SlotOf(r)
             c == RsvpOf(r)
  <2>1. /\ s \in Slots /\ Exact(s) /\ ~Unclear(s, prev, Contracts) /\ stage[r] \in Paid
        /\ s' = s
    BY <1>1, <1>4, SlotIs DEF Exact, SlotOf, vars
  <2>2. HandleSettlement(settlements[s], rows[s], s, u) = "none"
    BY <1>1, <1>4, <2>1
  <2>3. settlements[s] = "none"
    BY <2>2 DEF HandleSettlement
  <2>4. c \in Seen
    BY <1>1, <2>1, <2>3 DEF PollEnds, OutcomeDue
  <2>5. c.kind = "rsvp" /\ c.slot = s /\ c.cid = <<r, ver[r]>> /\ c.cid[1] = r
    BY DEF RsvpOf
  <2> HIDE DEF s, c
  <2>6. c \notin Contracts
    <3>1. SUFFICES ASSUME c \in Contracts PROVE FALSE
      OBVIOUS
    <3>2. PICK p \in Rsvps : c \in Face(p)
      BY <1>1, <2>5, <3>1, ContractsAre DEF ContractFacts
    <3> QED
      BY <2>1, <2>5, <3>2, FaceIs DEF Paid
  <2> DEFINE gone  == {d \in (prev \ Contracts) \cup passed : d.kind # "event" /\ d.kind # "alloc" /\ d.slot = s}
             here  == {d \in Contracts : d.kind # "event" /\ d.kind # "alloc" /\ d.slot = s}
             ended == {d \in gone : d.kind = "rsvp" /\ stage[d.cid[1]] # "live"}
  <2>7. /\ ~(ended # {} /\ here # {})
        /\ \A d \in ended : stage[d.cid[1]] \in {"refunded", "slashed"} =>
              d \notin passed /\ s[1] \in EndedEvents(prev, Contracts)
    BY <2>1 DEF Unclear
  <2>8. c \in ended
    BY <1>1, <2>1, <2>4, <2>5, <2>6 DEF Seen, Paid
  <2>9. c \in prev \ Contracts /\ s[1] \in EndedEvents(prev, Contracts) /\ here = {}
    BY <1>1, <2>1, <2>4, <2>5, <2>6, <2>7, <2>8 DEF Seen, Paid
  <2> HIDE DEF gone, ended
  <2>10. CreatedFor(u, "rsvp", s) = {}
    BY <1>2, <2>9
  <2>11. rows[s] # NoRow /\ rows[s].rsvp = c.cid
    <3>1. c \in SlotPapers(Old, s)
      BY <1>1, <2>5, <2>9 DEF SlotPapers
    <3> QED
      BY <2>1, <2>5, <3>1 DEF PollRows, PrevShows, RowFits, Fits
  <2>12. Archives(u, "rsvp", rows[s].rsvp) /\ IsSettled(u, rows[s].rsvp)
    BY <1>2, <2>5, <2>9, <2>11
  <2> QED
    BY <2>2, <2>3, <2>10, <2>11, <2>12 DEF HandleSettlement
<1>5. Outcomes'
  BY <1>3 DEF Outcomes
<1>6. OutcomeDue'
  BY <1>4 DEF OutcomeDue, SlotOf
<1> QED
  BY <1>1, <1>5, <1>6, PollEndsFetched DEF PollEnds

LEMMA PollEndsInit == FeedInit => PollEnds
<1> SUFFICES ASSUME FeedInit PROVE PollEnds
  OBVIOUS
<1>1. prev = NoFetch /\ Old = {} /\ \A s \in Slots : settlements[s] = "none"
  BY DEF FeedInit, ReadModelInit, Old
<1> QED
  BY <1>1 DEF PollEnds, OneRsvp, EndSeen, Outcomes, OutcomeDue, OutcomeTrue

LEMMA PollEndsStays ==
    ASSUME PollEnds, UNCHANGED fvars
    PROVE  PollEnds'
<1>1. UNCHANGED <<vars, settlements, crowded, prev, passed, blurred>>
  BY DEF fvars, rmVars, rowVars, pollVars
<1>2. /\ Old' = Old /\ Seen' = Seen /\ \A r : SlotOf(r)' = SlotOf(r) /\ RsvpOf(r)' = RsvpOf(r)
      /\ \A s : Exact(s)' <=> Exact(s)
  BY <1>1 DEF Old, Seen, SlotOf, RsvpOf, Exact, vars
<1>3. Outcomes'
  BY <1>1, OutcomeStill DEF PollEnds, Outcomes
<1>4. OneRsvp' /\ EndSeen'
  BY <1>1, <1>2 DEF PollEnds, OneRsvp, EndSeen, vars
<1>5. OutcomeDue'
  BY <1>1, <1>2 DEF PollEnds, OutcomeDue, vars
<1> QED
  BY <1>3, <1>4, <1>5 DEF PollEnds

LEMMA PollEndsStep ==
    ASSUME PollRows, PollEnds, mode = "poll", [FeedNext]_fvars
    PROVE  PollEnds'
<1>1. PollLedger \/ Seed \/ PollTick \/ PollRestart \/ UNCHANGED fvars
  BY DEF FeedNext
<1> QED
  BY <1>1, PollEndsLedger, PollEndsSeed, PollEndsTick, PollEndsRestart, PollEndsStays

LEMMA PollEndsShow ==
    ASSUME PollRows, PollEnds, prev = Contracts, passed = {}
    PROVE  \A s \in Slots : Exact(s) => OutcomeKnown(s)
<1>1. BaseOK /\ Seen = Contracts /\ prev # NoFetch
  BY FetchIs DEF PollRows, PollOK, LedgerOK, Seen, Old
<1>2. ASSUME NEW r \in Rsvps, Exact(SlotOf(r)), settlements[SlotOf(r)] = "none", stage[r] \in Paid
      PROVE  FALSE
  <2>1. RsvpOf(r) \in Contracts
    BY <1>1, <1>2 DEF PollEnds, OutcomeDue
  <2>2. RsvpOf(r).kind = "rsvp" /\ RsvpOf(r).cid[1] = r
    BY DEF RsvpOf
  <2>3. PICK p \in Rsvps : RsvpOf(r) \in Face(p)
    BY <1>1, <2>1, <2>2, ContractsAre DEF ContractFacts
  <2> QED
    BY <1>2, <2>2, <2>3, FaceIs DEF Paid
<1> QED
  BY <1>2 DEF OutcomeKnown, Settled, Paid

(* A stake that was used up is not the one of the RSVP that is live now. *)
Sole ==
    \A r, q \in Rsvps :
        /\ SlotOf(r) = SlotOf(q) /\ SlotOf(r) \notin crowded
        /\ stage[r] = "live" /\ allocOf[r] # NoAlloc /\ Spent(q) # "no"
        => allocOf[q] # allocOf[r]

LEMMA SoleStep ==
    ASSUME LedgerOK, [Next]_vars, Counted, Sole,
           crowded' = crowded \cup {s \in Slots : Cardinality(Outstanding(s)') > 1} \/ crowded' = crowded
    PROVE  Sole'
<1>1. TypeOK /\ BaseOK /\ crowded \subseteq crowded'
  BY DEF LedgerOK, BaseOK
<1>2. SUFFICES ASSUME NEW r \in Rsvps, NEW q \in Rsvps,
                      SlotOf(r) = SlotOf(q), SlotOf(r) \notin crowded',
                      stage'[r] = "live", allocOf'[r] # NoAlloc, Spent(q)' # "no",
                      allocOf'[q] = allocOf'[r]
               PROVE  FALSE
  BY DEF Sole, SlotOf
<1>3. Onward(r) /\ Onward(q) /\ SlotOf(r) \in Slots /\ SlotOf(r) \notin crowded
  BY <1>1, <1>2, Forward, SlotIs
<1>4. stage'[q] \in Gone
  BY <1>2 DEF Spent, Gone
<1>5. Untouched(r) \/ Moves(r)
  BY <1>1, <1>2, LedgerMoves
      DEF EventMoves, AllocMoves, RsvpMoves, Closes, rsvpVars, Untouched, SamePaper, Paid
<1>6. stage[r] \in {"invited", "live"}
  BY <1>2, <1>5 DEF Untouched, Moves, Renewed, Dropped
<1>7. CASE stage[q] \in Gone
  <2>1. Untouched(q) /\ Spent(q) # "no" /\ allocOf'[q] = allocOf[q]
    BY <1>2, <1>3, <1>7 DEF Onward, Untouched, SamePaper, Spent
  <2>2. astate[allocOf[q]] \in {"slashed", "refunded"}
    BY <2>1 DEF LedgerOK, Books, StakeAccounted, Spent
  <2>3. CASE stage[r] = "live"
    <3>1. CASE allocOf'[r] = allocOf[r]
      BY <1>2, <1>3, <2>1, <2>3, <3>1 DEF Sole
    <3>2. CASE allocOf'[r] # allocOf[r]
      <4>1. Active(allocOf'[r])
        BY <1>2, <1>5, <2>3, <3>2 DEF Untouched, SamePaper, Moves, Renewed
      <4> QED
        BY <1>2, <2>1, <2>2, <4>1 DEF Active
    <3> QED
      BY <3>1, <3>2
  <2>4. CASE stage[r] = "invited"
    <3>1. SamePaper(r)
      BY <1>2, <1>5, <2>4 DEF Untouched, Moves, Renewed
    <3>2. allocOf[r] = NoAlloc
      BY <1>1, <2>4 DEF BaseOK, Born, Young
    <3> QED
      BY <1>2, <3>1, <3>2 DEF SamePaper
  <2> QED
    BY <1>6, <2>3, <2>4
<1>8. CASE stage[q] \notin Gone
  <2>1. Untouched(q) \/ Moves(q) \/ Ends(q)
    BY <1>1, LedgerMoves
        DEF EventMoves, AllocMoves, RsvpMoves, Closes, rsvpVars, Untouched, SamePaper, Ends
  <2>2. stage[q] = "live"
    BY <1>4, <1>8, <2>1 DEF Untouched, Moves, Renewed, Dropped, Ends, Gone
  <2>3. r \in Outstanding(SlotOf(r)) /\ q \in Outstanding(SlotOf(r))
    BY <1>2, <1>6, <2>2 DEF Outstanding
  <2>4. r = q
    BY <1>3, <2>3 DEF Counted, OneOut
  <2> QED
    BY <1>2, <1>4, <2>4 DEF Gone
<1> QED
  BY <1>7, <1>8

(* An allocation that is gone while the one live RSVP of its slot names it   *)
(* was taken back.                                                           *)
LEMMA TakenBack ==
    ASSUME LedgerOK, Sole, NEW r \in Rsvps, SlotOf(r) \notin crowded, stage[r] = "live",
           allocOf[r] # NoAlloc, astate[allocOf[r]] \notin {"none", "locked"}
    PROVE  /\ allocOf[r] \in Allocs /\ astate[allocOf[r]] = "withdrawn"
           /\ spec[allocOf[r]].slot = SlotOf(r)
<1>1. TypeOK /\ MatchesLeg(r, allocOf[r]) /\ allocOf[r] \in Allocs
  BY DEF LedgerOK, BaseOK, Books, OwnStakeOnly, TypeOK
<1>2. spec[allocOf[r]].slot = SlotOf(r)
  BY <1>1 DEF MatchesLeg, SlotOf
<1>3. astate[allocOf[r]] \notin {"slashed", "refunded"}
  <2>1. SUFFICES ASSUME astate[allocOf[r]] \in {"slashed", "refunded"} PROVE FALSE
    OBVIOUS
  <2>2. PICK q \in Rsvps : allocOf[q] = allocOf[r] /\ Spent(q) = astate[allocOf[r]]
    BY <1>1, <2>1 DEF LedgerOK, Books, StakeAccounted
  <2>3. MatchesLeg(q, allocOf[r])
    BY <2>2 DEF LedgerOK, Books, OwnStakeOnly
  <2>4. SlotOf(q) = SlotOf(r)
    BY <1>2, <2>3 DEF MatchesLeg, SlotOf
  <2> QED
    BY <2>1, <2>2, <2>4 DEF Sole
<1> QED
  BY <1>1, <1>2, <1>3 DEF TypeOK, AllocStates

(* The stake of an RSVP that the last fetch has is in the fetch too, or its  *)
(* loss is flagged.                                                          *)
Flagged(row) == row # NoRow /\ row.detected

FlagDue ==
    \A c \in Old : c.kind = "rsvp" /\ Exact(c.slot) /\ c.alloc # None /\ ~c.withdrawn =>
        AllocPaper(c.alloc) \in Old \/ Flagged(rows[c.slot])

Flags == \A s \in Slots : Exact(s) => FlagTrue(s)

PollFlags == Sole /\ FlagDue /\ Flags

LEMMA FlagKept ==
    ASSUME TypeOK, [Next]_vars, NEW s, FlagTrue(s), rows'[s] = rows[s]
    PROVE  FlagTrue(s)'
<1>1. SUFFICES ASSUME rows[s] # NoRow /\ rows[s].detected
               PROVE  \E a \in Allocs : astate'[a] = "withdrawn" /\ spec'[a].slot = s
  BY DEF FlagTrue
<1>2. PICK a \in Allocs : astate[a] = "withdrawn" /\ spec[a].slot = s
  BY <1>1 DEF FlagTrue
<1>3. astate'[a] = "withdrawn" /\ spec'[a] = spec[a]
  BY <1>2, Forward
<1> QED
  BY <1>2, <1>3

LEMMA PollFlagsLedger ==
    ASSUME PollRows, PollFlags, PollLedger
    PROVE  PollFlags'
<1>1. /\ Next /\ UNCHANGED <<rows, prev, blurred>> /\ LedgerOK /\ TypeOK /\ Counted
      /\ crowded' = crowded \cup {s \in Slots : Cardinality(Outstanding(s)') > 1}
  BY DEF PollLedger, PollRows, PollOK, LedgerOK, BaseOK, rowVars
<1>2. Sole'
  BY <1>1, SoleStep DEF PollFlags
<1>3. FlagDue'
  BY <1>1 DEF PollFlags, FlagDue, Flagged, Exact, Old, AllocPaper
<1>4. Flags'
  BY <1>1, FlagKept DEF PollFlags, Flags, Exact
<1> QED
  BY <1>2, <1>3, <1>4 DEF PollFlags

LEMMA FlagStill ==
    ASSUME UNCHANGED vars, NEW s, rows'[s] = rows[s]
    PROVE  FlagTrue(s) => FlagTrue(s)'
  BY DEF vars, FlagTrue

LEMMA SoleStays ==
    ASSUME PollRows, Sole, UNCHANGED <<vars, crowded>>
    PROVE  Sole'
  BY SoleStep DEF PollRows, PollOK

LEMMA PollFlagsSeed ==
    ASSUME PollRows, PollFlags, Seed
    PROVE  PollFlags'
<1>1. /\ prev = NoFetch /\ Old = {} /\ ~offset /\ BaseOK
      /\ UNCHANGED <<vars, crowded>> /\ prev' = Contracts /\ Contracts # NoFetch /\ Old' = Contracts
      /\ blurred' = {SlotOf(r) : r \in {q \in Rsvps : stage[q] \in {"live", "refunded", "slashed"}}}
      /\ PollOK /\ Apply(Diff(Old, Contracts)) /\ Diff(Old, Contracts) \in Update
  BY SeedIs, FetchIs, DiffTyped DEF Seed, Old, Fetched, PollRows, PollOK, PollTyped, LedgerOK
<1>2. \A s \in Slots : rows[s] = NoRow
  BY <1>1 DEF PollRows, BlankRows
<1>3. ASSUME NEW s \in Slots PROVE ~Flagged(rows'[s])
  <2> DEFINE u == Diff(Old, Contracts)
             row == HandleRsvp(NoRow, s, u)
  <2>1. u \in Update /\ rows'[s] = row
    BY <1>1, <1>2 DEF Apply
  <2> HIDE DEF u
  <2>2. row # NoRow => NewRow(row, NoRow, s, u)
    BY <2>1, HandledIs
  <2> HIDE DEF row
  <2> QED
    BY <2>1, <2>2 DEF NewRow, Base, BlankRow, Flagged
<1>4. Flags'
  BY <1>3 DEF Flags, FlagTrue, Flagged
<1>5. ASSUME NEW c \in Contracts, c.kind = "rsvp", Exact(c.slot)' PROVE FALSE
  <2>1. PICK p \in Rsvps : c \in Face(p)
    BY <1>1, <1>5, ContractsAre DEF ContractFacts
  <2>2. c.slot = SlotOf(p) /\ stage[p] = "live"
    BY <1>5, <2>1, FaceIs
  <2> QED
    BY <1>1, <1>5, <2>2 DEF Exact
<1>6. FlagDue'
  BY <1>1, <1>5 DEF FlagDue, Exact
<1> QED
  BY <1>1, <1>4, <1>6, SoleStays DEF PollFlags

LEMMA PollFlagsRestart ==
    ASSUME PollRows, PollFlags, PollRestart
    PROVE  PollFlags'
<1>1. prev # NoFetch /\ Old = prev /\ BaseOK /\ UNCHANGED <<vars, rows>> /\ blurred \subseteq blurred'
      /\ UNCHANGED crowded /\ PollOK
  BY DEF PollRestart, Fetched, rmVars, rowVars, PollRows, PollOK, LedgerOK, Old
<1>2. Flags'
  BY <1>1, FlagStill DEF PollFlags, Flags, Exact
<1>3. Sole'
  BY <1>1, SoleStays DEF PollFlags
<1>4. CASE ~offset
  <2>1. Old' = {}
    BY <1>4 DEF PollRestart, Old
  <2> QED
    BY <1>2, <1>3, <2>1 DEF PollFlags, FlagDue
<1>5. CASE offset
  <2>1. /\ Old' = Contracts
        /\ blurred' = blurred \cup Missed(prev, Contracts)
    BY <1>1, <1>5, FetchIs DEF PollRestart, Fetched, Old
  <2>2. ASSUME NEW c \in Contracts, c.kind = "rsvp", Exact(c.slot)', c.alloc # None, ~c.withdrawn
        PROVE  AllocPaper(c.alloc) \in Contracts \/ Flagged(rows[c.slot])
    <3>1. Exact(c.slot) /\ c.slot \notin Missed(prev, Contracts)
      BY <1>1, <2>1, <2>2 DEF Exact
    <3>2. c \in prev
      <4>1. c \notin prev => c \in (prev \ Contracts) \cup (Contracts \ prev) \cup passed
        OBVIOUS
      <4> QED
        BY <2>2, <3>1, <4>1 DEF Missed
    <3>3. CASE Flagged(rows[c.slot])
      BY <3>3
    <3>4. CASE AllocPaper(c.alloc) \in prev /\ AllocPaper(c.alloc) \notin Contracts
      <4>1. AllocPaper(c.alloc) \in (prev \ Contracts) \cup (Contracts \ prev) \cup passed
        BY <3>4
      <4>2. AllocPaper(c.alloc).kind = "alloc" /\ AllocPaper(c.alloc).cid = c.alloc
        BY DEF AllocPaper
      <4>3. spec[c.alloc].slot \in Missed(prev, Contracts)
        BY <4>1, <4>2 DEF Missed
      <4>4. spec[c.alloc].slot = c.slot
        BY <1>1, <2>2, ThereHeard DEF PollOK, Heard, Says, RsvpSays
      <4> QED
        BY <3>1, <4>3, <4>4
    <3> QED
      BY <1>1, <2>2, <3>1, <3>2, <3>3, <3>4 DEF PollFlags, FlagDue
  <2>3. FlagDue'
    BY <1>1, <2>1, <2>2 DEF FlagDue, Flagged, Exact, AllocPaper
  <2> QED
    BY <1>2, <1>3, <2>3 DEF PollFlags
<1> QED
  BY <1>4, <1>5

LEMMA PollFlagsInit == FeedInit => PollFlags
<1> SUFFICES ASSUME FeedInit PROVE PollFlags
  OBVIOUS
<1>1. Old = {} /\ \A s \in Slots : rows[s] = NoRow
  BY DEF FeedInit, ReadModelInit, Old
<1>2. \A r \in Rsvps : stage[r] = "none"
  BY DEF FeedInit, ReadModelInit, Init
<1> QED
  BY <1>1, <1>2 DEF PollFlags, Sole, FlagDue, Flags, FlagTrue

LEMMA PollFlagsStays ==
    ASSUME PollRows, PollFlags, UNCHANGED fvars
    PROVE  PollFlags'
<1>1. UNCHANGED <<vars, rows, crowded, prev, blurred>>
  BY DEF fvars, rmVars, rowVars, pollVars
<1>2. Sole'
  BY <1>1, SoleStays DEF PollFlags
<1>3. FlagDue'
  BY <1>1 DEF PollFlags, FlagDue, Flagged, Exact, Old, AllocPaper
<1>4. Flags'
  BY <1>1, FlagStill DEF PollFlags, Flags, Exact
<1> QED
  BY <1>2, <1>3, <1>4 DEF PollFlags

(* A stake that the difference takes to be lost is one that was taken back.  *)
LEMMA LostIs ==
    ASSUME PollRows, PollEnds, Sole, prev # NoFetch, NEW s \in Slots, Exact(s),
           rows[s] # NoRow, Lost(rows[s], s, Diff(Old, Contracts))
    PROVE  \E a \in Allocs : astate[a] = "withdrawn" /\ spec[a].slot = s
<1> DEFINE u == Diff(Old, Contracts)
           row == rows[s]
<1>1. /\ Old = prev /\ PollOK /\ LedgerOK /\ u.archived = Old \ Contracts
      /\ row \in Row /\ RowSays(row, s) /\ RowFits(row, SlotPapers(Old, s))
  BY DiffTyped DEF Old, PollRows, PollOK, PollTyped, RowsTyped, PollSays, PrevShows
<1>2. /\ row.status = "staked" /\ Archives(u, "alloc", row.alloc)
      /\ ~Archives(u, "rsvp", row.rsvp)
  BY DEF Lost
<1>3. PICK d \in Old \ Contracts : d.kind = "alloc" /\ d.cid = row.alloc
  BY <1>1, <1>2 DEF Archives
<1>4. d.cid \in Allocs /\ astate[d.cid] \notin {"none", "locked"}
  BY <1>1, <1>3, OldTyped, PaperKinds DEF PollOK, PollSays, EndSays, Seen, AllocPapers
<1>5. \A c : ~(c \in Old \ Contracts /\ c.kind = "rsvp" /\ c.cid = row.rsvp)
  BY <1>1, <1>2 DEF Archives
<1> HIDE DEF u, row
<1>6. PICK c \in SlotPapers(Old, s) : Fits(row, c)
  BY <1>1, <1>2, ReadModelConstants DEF RowFits, Over
<1>7. /\ c.kind = "rsvp" /\ c.slot = s /\ row.rsvp = c.cid /\ row.alloc = c.alloc
      /\ c.alloc # None /\ c \in Old
  BY <1>2, <1>3, <1>4, <1>6, ReadModelConstants DEF SlotPapers, Fits
<1>8. c \in Contracts
  BY <1>5, <1>7
<1>9. PICK r \in Rsvps : c \in Face(r)
  BY <1>1, <1>7, <1>8, ContractsAre DEF ContractFacts, LedgerOK
<1>10. c = RsvpOf(r) /\ stage[r] = "live" /\ SlotOf(r) = s
  BY <1>7, <1>9, FaceIs
<1>11. allocOf[r] # NoAlloc /\ allocOf[r] = d.cid
  BY <1>3, <1>7, <1>10 DEF RsvpOf
<1> QED
  BY <1>1, <1>4, <1>10, <1>11, TakenBack DEF Exact

(* And one whose RSVP stays, but which is gone, is taken to be lost.         *)
LEMMA LossSeen ==
    ASSUME PollRows, PollEnds, prev # NoFetch,
           NEW c \in prev, c \in Contracts, c.kind = "rsvp", Exact(c.slot),
           c.alloc # None, ~c.withdrawn,
           AllocPaper(c.alloc) \in prev \ Contracts
    PROVE  Lost(rows[c.slot], c.slot, Diff(Old, Contracts)) /\ rows[c.slot] # NoRow
<1> DEFINE u == Diff(Old, Contracts)
           s == c.slot
           row == rows[s]
<1>1. /\ Old = prev /\ PollOK /\ BaseOK /\ u.archived = prev \ Contracts
  BY DiffTyped DEF Old, PollRows, PollOK, LedgerOK
<1>2. s \in Slots
  BY <1>1, OldTyped, PaperKinds DEF PollOK, RsvpPapers
<1>3. row # NoRow /\ Fits(row, c)
  BY <1>1, <1>2 DEF PollRows, PrevShows, RowFits, SlotPapers
<1>4. row.rsvp = c.cid /\ row.alloc = c.alloc /\ row.status = "staked"
  BY <1>3 DEF Fits
<1>5. Archives(u, "alloc", c.alloc)
  BY <1>1 DEF Archives, AllocPaper
<1>6. \A d \in prev \ Contracts : ~(d.kind = "rsvp" /\ d.cid = c.cid)
  BY <1>1 DEF PollEnds, OneRsvp
<1>7. ~Archives(u, "rsvp", c.cid) /\ ~IsSettled(u, c.cid)
  BY <1>1, <1>6, DiffSettles
<1>8. CreatedFor(u, "rsvp", s) = {}
  <2>1. s \in Slots \ crowded
    BY <1>2 DEF Exact
  <2>2. \A d \in Contracts : d.kind = "rsvp" /\ d.slot = s => d = c
    BY <1>1, <2>1, ContractsOne DEF SlotPapers, PollRows
  <2>3. CreatedFor(u, "rsvp", s) = {d \in Contracts \ prev : d.kind = "rsvp" /\ d.slot = s}
    BY <1>1, DiffSettles
  <2> QED
    BY <2>2, <2>3
<1> QED
  BY <1>3, <1>4, <1>5, <1>7, <1>8 DEF Lost

(* The flag of a row. *)
LEMMA FlagHandled ==
    ASSUME NEW u \in Update, NEW s \in Slots, NEW prior \in Row \cup {NoRow}
    PROVE  Flagged(HandleRsvp(prior, s, u)) <=>
               Flagged(prior) \/ (prior # NoRow /\ Lost(prior, s, u))
<1> DEFINE row == HandleRsvp(prior, s, u)
<1>1. \/ row = NoRow /\ prior = NoRow
      \/ NewRow(row, prior, s, u)
  BY HandledIs
<1> HIDE DEF row
<1>2. CASE row = NoRow /\ prior = NoRow
  BY <1>2 DEF Flagged, row
<1>3. CASE NewRow(row, prior, s, u)
  <2>1. row # NoRow
    BY <1>3, ReadModelConstants DEF NewRow
  <2>2. row.detected <=> (Base(prior).detected \/ (prior # NoRow /\ Lost(prior, s, u)))
    BY <1>3, Zenon DEF NewRow
  <2>3. Base(prior).detected <=> Flagged(prior)
    BY DEF Base, BlankRow, Flagged
  <2> QED
    BY <2>1, <2>2, <2>3, Zenon DEF Flagged, row
<1> QED
  BY <1>1, <1>2, <1>3

LEMMA PollFlagsTick ==
    ASSUME PollRows, PollEnds, PollFlags, PollTick
    PROVE  PollFlags'
<1> DEFINE u == Diff(Old, Contracts)
<1>1. /\ prev # NoFetch /\ Old = prev /\ BaseOK /\ PollOK /\ u \in Update
      /\ UNCHANGED <<vars, crowded>> /\ prev' = Contracts /\ Old' = Contracts
      /\ blurred' = blurred \cup {s \in Slots : Unclear(s, prev, Contracts)}
      /\ rows' = [s \in Slots |-> HandleRsvp(rows[s], s, u)]
      /\ \A s \in Slots : rows[s] \in Row \cup {NoRow}
  BY FetchIs, DiffTyped DEF PollTick, Old, Fetched, Apply, PollRows, PollOK, LedgerOK, PollTyped, RowsTyped
<1> HIDE DEF u
<1>2. ASSUME NEW s \in Slots
      PROVE  /\ Flagged(rows[s]) => Flagged(rows'[s])
             /\ rows[s] # NoRow /\ Lost(rows[s], s, u) => Flagged(rows'[s])
             /\ Flagged(rows'[s]) => Flagged(rows[s]) \/ (rows[s] # NoRow /\ Lost(rows[s], s, u))
  <2>1. rows[s] \in Row \cup {NoRow} /\ rows'[s] = HandleRsvp(rows[s], s, u)
    BY <1>1
  <2> QED
    BY <1>1, <2>1, FlagHandled
<1>3. ASSUME NEW s \in Slots, Exact(s)' PROVE FlagTrue(s)'
  <2>1. SUFFICES ASSUME Flagged(rows'[s])
                 PROVE  \E a \in Allocs : astate[a] = "withdrawn" /\ spec[a].slot = s
    BY <1>1 DEF FlagTrue, Flagged, vars
  <2>2. Exact(s)
    BY <1>1, <1>3 DEF Exact
  <2>3. CASE Flagged(rows[s])
    BY <2>2, <2>3 DEF PollFlags, Flags, FlagTrue, Flagged
  <2>4. CASE rows[s] # NoRow /\ Lost(rows[s], s, u)
    BY <1>1, <2>2, <2>4, LostIs DEF PollFlags, u
  <2> QED
    BY <1>2, <2>1, <2>3, <2>4
<1>4. ASSUME NEW c \in Contracts, c.kind = "rsvp", Exact(c.slot)', c.alloc # None, ~c.withdrawn
      PROVE  AllocPaper(c.alloc) \in Contracts \/ Flagged(rows'[c.slot])
  <2>1. c \in Paper /\ c.slot \in Slots /\ c.alloc \in Allocs
    BY <1>1, <1>4, FetchIs, PaperKinds DEF RsvpPapers
  <2>2. Exact(c.slot) /\ ~Unclear(c.slot, prev, Contracts)
    BY <1>1, <1>4, <2>1 DEF Exact
  <2>3. CASE c \notin prev
    <3>1. Active(c.alloc)
      BY <1>4, <2>2, <2>3 DEF Unclear
    <3> QED
      BY <1>1, <2>1, <3>1, ContractsAre DEF ContractFacts
  <2>4. CASE c \in prev
    <3>1. AllocPaper(c.alloc) \in prev \/ Flagged(rows[c.slot])
      BY <1>1, <1>4, <2>2, <2>4 DEF PollFlags, FlagDue
    <3>2. CASE AllocPaper(c.alloc) \in prev \ Contracts
      BY <1>1, <1>2, <1>4, <2>1, <2>2, <2>4, <3>2, LossSeen DEF u
    <3> QED
      BY <1>2, <2>1, <3>1, <3>2
  <2> QED
    BY <2>3, <2>4
<1>5. Flags'
  BY <1>3 DEF Flags
<1>6. FlagDue'
  BY <1>1, <1>4 DEF FlagDue, Exact, AllocPaper
<1> QED
  BY <1>1, <1>5, <1>6, SoleStays DEF PollFlags

LEMMA PollFlagsStep ==
    ASSUME PollRows, PollEnds, PollFlags, mode = "poll", [FeedNext]_fvars
    PROVE  PollFlags'
<1>1. PollLedger \/ Seed \/ PollTick \/ PollRestart \/ UNCHANGED fvars
  BY DEF FeedNext
<1> QED
  BY <1>1, PollFlagsLedger, PollFlagsSeed, PollFlagsTick, PollFlagsRestart, PollFlagsStays

LEMMA PollFlagsShow ==
    ASSUME PollRows, PollFlags, prev = Contracts
    PROVE  \A r \in Rsvps : Exact(SlotOf(r)) => LossFlagged(r)
<1>1. LedgerOK /\ BaseOK /\ TypeOK /\ ContractFacts /\ Old = Contracts
  BY FetchIs, ContractsAre DEF PollRows, PollOK, LedgerOK, BaseOK, Old
<1>2. SUFFICES ASSUME NEW r \in Rsvps, Exact(SlotOf(r)), LostStake(r)
               PROVE  rows[SlotOf(r)].detected
  BY DEF LossFlagged
<1> DEFINE c == RsvpOf(r)
<1>3. /\ c.kind = "rsvp" /\ c.slot = SlotOf(r) /\ c.withdrawn = (r \in withdrawn)
      /\ c.alloc = allocOf[r]
  BY <1>2 DEF RsvpOf, LostStake
<1>4. /\ c \in Contracts /\ (r \in withdrawn) = FALSE /\ allocOf[r] \in Allocs
      /\ astate[allocOf[r]] = "withdrawn"
  BY <1>1, <1>2 DEF LostStake, ContractFacts, Face, TypeOK
<1> HIDE DEF c
<1>5. c.alloc # None /\ ~c.withdrawn
  BY <1>3, <1>4, ReadModelConstants
<1>6. AllocPaper(c.alloc) \notin Contracts
  <2>1. SUFFICES ASSUME AllocPaper(c.alloc) \in Contracts PROVE FALSE
    OBVIOUS
  <2>2. AllocPaper(c.alloc).kind = "alloc" /\ AllocPaper(c.alloc).cid = c.alloc
    BY DEF AllocPaper
  <2>3. PICK a \in Allocs : Active(a) /\ AllocPaper(c.alloc) = AllocPaper(a)
    BY <1>1, <2>1, <2>2 DEF ContractFacts
  <2>4. a = allocOf[r]
    BY <1>3, <2>2, <2>3 DEF AllocPaper
  <2> QED
    BY <1>4, <2>3, <2>4 DEF Active
<1>7. Flagged(rows[SlotOf(r)])
  BY <1>1, <1>2, <1>3, <1>4, <1>5, <1>6 DEF PollFlags, FlagDue
<1> QED
  BY <1>7 DEF Flagged

-------------------------------------------------------------------------------
(* Outcomes and flags, from the other feed *)

(* The updates that settle the RSVP of contract c, that stake allocation a   *)
(* for slot s, that tell its loss, and that stake the allocation of c for    *)
(* another contract.                                                         *)
Settling(c)     == {u \in Ending(c) : IsSettled(u, c.cid)}
Staking(s, a)   == {u \in Update : \E c \in NewOf(u, s) :
                        NewOf(u, s) = {c} /\ c.kind = "rsvp" /\ c.alloc = a /\ ~c.withdrawn}
Losing(s, a)    == {u \in Update \ About(s) :
                        AllocPaper(a) \in u.archived /\ ~u.closed /\ u.settles = {}}
Restaking(c)    == {u \in Update : \E d \in NewOf(u, c.slot) :
                        d.kind = "rsvp" /\ d.alloc = c.alloc /\ d # c}

(* An update that is still to be handled settles c, and finds its row.       *)
ToOutcome(q, row, c) ==
    \E k \in 1..Len(q) :
        /\ q[k] \in Settling(c)
        /\ Tends(q, k - 1, InvitingAny(c.slot), {}, row # NoRow)
        /\ Tends(q, k - 1, Making(c), About(c.slot) \ (Making(c) \cup Ending(c)),
                 row = NoRow \/ row.rsvp = c.cid)

(* An update that is still to be handled tells the loss of a, and finds the  *)
(* row that names it.                                                        *)
ToFlag(q, row, s, a) ==
    \E k \in 1..Len(q) :
        /\ q[k] \in Losing(s, a)
        /\ Tends(q, k - 1, InvitingAny(s), {}, row # NoRow)
        /\ Tends(q, k - 1, Staking(s, a), About(s) \ Staking(s, a),
                 row = NoRow \/ (row.status = "staked" /\ row.alloc = a))

(* Whoever shows the stake of c shows c, whenever the end of c is handled.   *)
Own(row, c) ==
    row = NoRow \/ (row.alloc = c.alloc /\ row.status = "staked" => row.rsvp = c.cid)

ToQuiet(q, row, c) ==
    /\ Will(q, Making(c), Restaking(c), Own(row, c))
    /\ \A k \in 1..Len(q) : q[k] \in Ending(c) =>
          Tends(q, k - 1, Making(c), Restaking(c), Own(row, c))

TookBack(r) ==
    /\ stage[r] = "live" /\ r \notin withdrawn
    /\ allocOf[r] # NoAlloc /\ astate[allocOf[r]] = "withdrawn"

GaveBack(r) == stage[r] = "cancelled" /\ allocOf[r] # NoAlloc

RsvpDue(q, row, out, r) ==
    /\ stage[r] \in Paid /\ out = "none" => ToOutcome(q, row, RsvpOf(r))
    /\ TookBack(r) => Flagged(row) \/ ToFlag(q, row, SlotOf(r), allocOf[r])
    /\ GaveBack(r) => ToQuiet(q, row, RsvpOf(r))

SlotDue(q, row, out, s) == \A r \in Rsvps : SlotOf(r) = s => RsvpDue(q, row, out, r)

(* The archive of an allocation tells a loss, or something else of its RSVP. *)
LossTold(u) ==
    \A a \in Allocs : AllocPaper(a) \in u.archived =>
        \/ astate[a] = "withdrawn"
        \/ u.closed
        \/ \E r \in Rsvps : /\ GaveBack(r) /\ allocOf[r] = a
                            /\ SlotOf(r) \notin crowded => u \in Ending(RsvpOf(r))

(* The first update is handled before the k-th. *)
LEMMA WaitBehead ==
    ASSUME NEW q \in Seq(Update), q # <<>>, NEW k \in 1..Len(q), k # 1
    PROVE  /\ k - 1 \in 1..Len(Tail(q)) /\ Tail(q)[k - 1] = q[k]
           /\ \A G, B, ok, ok2 :
                 /\ Tends(q, k - 1, G, B, ok)
                 /\ Head(q) \in G => ok2
                 /\ Head(q) \notin G /\ Head(q) \notin B /\ ok => ok2
                 => Tends(Tail(q), k - 1 - 1, G, B, ok2)
<1>1. Behead(q, Tail(q)) /\ Head(q) = q[1]
  BY TailIs
<1>2. /\ Len(Tail(q)) = Len(q) - 1 /\ Len(q) \in Nat
      /\ \A j \in 1..Len(Tail(q)) : Tail(q)[j] = q[j + 1]
  BY <1>1 DEF Behead
<1>3. k - 1 \in 1..Len(Tail(q)) /\ k - 1 \in 1..Len(q) /\ (k - 1) + 1 = k
  BY <1>2
<1>4. Tail(q)[k - 1] = q[k]
  BY <1>2, <1>3
<1>5. ASSUME NEW G, NEW B, NEW ok, NEW ok2, Tends(q, k - 1, G, B, ok),
             Head(q) \in G => ok2, Head(q) \notin G /\ Head(q) \notin B /\ ok => ok2
      PROVE  Tends(Tail(q), k - 1 - 1, G, B, ok2)
  BY <1>1, <1>3, <1>5, TendsBehead
<1> QED
  BY <1>3, <1>4, <1>5

(* The loss of a stake that its row shows is noticed. *)
LEMMA LossNoticed ==
    ASSUME NEW u \in Update, Honest(u), NEW s \in Slots, NEW row \in Row, RowSays(row, s),
           NEW a, u \in Losing(s, a), row.status = "staked", row.alloc = a
    PROVE  Lost(row, s, u)
<1>1. NewOf(u, s) = {} /\ OldOf(u, s) = {}
  BY DEF Losing, About
<1>2. ~Archives(u, "rsvp", row.rsvp)
  BY <1>1, OwnArchives
<1>3. CreatedFor(u, "rsvp", s) = {}
  BY <1>1, CreatedIs
<1>4. Archives(u, "alloc", row.alloc)
  BY DEF Losing, Archives, AllocPaper
<1>5. ~IsSettled(u, row.rsvp)
  BY DEF Losing, IsSettled
<1> QED
  BY <1>2, <1>3, <1>4, <1>5 DEF Lost

LEMMA OutcomeHandled ==
    ASSUME NEW q \in Seq(Update), q # <<>>, Honest(Head(q)), NEW r \in Rsvps,
           NEW row \in Row \cup {NoRow}, RowSays(row, SlotOf(r)), NEW out,
           ToOutcome(q, row, RsvpOf(r)), HandleSettlement(out, row, SlotOf(r), Head(q)) = "none"
    PROVE  ToOutcome(Tail(q), HandleRsvp(row, SlotOf(r), Head(q)), RsvpOf(r))
<1> DEFINE s == SlotOf(r)
           u == Head(q)
           q2 == Tail(q)
           row2 == HandleRsvp(row, s, u)
           c == RsvpOf(r)
<1>1. s \in Slots /\ u \in Update /\ u = q[1]
  <2>1. Head(q) = q[1] /\ q[1] \in Update
    BY TailIs
  <2> QED
    BY <2>1, SlotIs
<1>2. c.kind = "rsvp" /\ c.slot = s
  BY DEF RsvpOf
<1> HIDE DEF s, u, q2, row2, c
<1>3. /\ u \notin About(s) => SameRow(row, row2)
      /\ row # NoRow => row2 # NoRow
      /\ u \in InvitingAny(s) => row2 # NoRow
  BY <1>1, HandledKeeps DEF row2, u, s
<1>4. u \in Making(c) => /\ row = NoRow => row2 = NoRow
                         /\ row # NoRow => row2 # NoRow /\ Matches(row2, c)
  BY <1>1, <1>2, HandledMake DEF row2, u, s
<1>5. u \in Ending(c) => /\ row = NoRow => row2 = NoRow
                         /\ row # NoRow => row2 # NoRow /\ row2.rsvp = row.rsvp
  BY <1>1, <1>2, HandledEnd DEF row2, u, s
<1>6. PICK k \in 1..Len(q) :
        /\ q[k] \in Settling(c)
        /\ Tends(q, k - 1, InvitingAny(s), {}, row # NoRow)
        /\ Tends(q, k - 1, Making(c), About(s) \ (Making(c) \cup Ending(c)),
                 row = NoRow \/ row.rsvp = c.cid)
  BY <1>2 DEF ToOutcome, c
<1>7. k # 1
  <2>1. SUFFICES ASSUME k = 1 PROVE FALSE
    OBVIOUS
  <2>2. u \in Settling(c) /\ k - 1 = 0
    BY <1>1, <1>6, <2>1
  <2>3. row # NoRow /\ row.rsvp = c.cid
    BY <1>6, <2>2, TendsDone
  <2>4. NewOf(u, s) = {} /\ OldOf(u, s) = {c} /\ IsSettled(u, c.cid)
    BY <1>2, <2>2 DEF Settling, Ending
  <2>5. CreatedFor(u, "rsvp", s) = {}
    BY <1>1, <2>4, CreatedIs
  <2>6. Archives(u, "rsvp", row.rsvp)
    BY <1>2, <2>3, <2>4 DEF Archives, OldOf
  <2>7. HandleSettlement(out, row, s, u) # "none"
    BY <2>3, <2>4, <2>5, <2>6 DEF HandleSettlement
  <2> QED
    BY <2>7 DEF s, u
<1>8. /\ k - 1 \in 1..Len(q2) /\ q2[k - 1] = q[k]
      /\ \A G, B, ok, ok2 :
            Tends(q, k - 1, G, B, ok) /\ (u \in G => ok2) /\ (u \notin G /\ u \notin B /\ ok => ok2)
            => Tends(q2, k - 1 - 1, G, B, ok2)
  BY <1>7, WaitBehead DEF q2, u
<1>9. Tends(q2, k - 1 - 1, InvitingAny(s), {}, row2 # NoRow)
  BY <1>3, <1>6, <1>8
<1>10. Tends(q2, k - 1 - 1, Making(c), About(s) \ (Making(c) \cup Ending(c)),
             row2 = NoRow \/ row2.rsvp = c.cid)
  BY <1>3, <1>4, <1>5, <1>6, <1>8 DEF SameRow, Matches
<1>11. ToOutcome(q2, row2, c)
  BY <1>2, <1>6, <1>8, <1>9, <1>10 DEF ToOutcome
<1> QED
  BY <1>11 DEF q2, row2, c, s, u

LEMMA LossHandled ==
    ASSUME BaseOK, NEW q \in Seq(Update), q # <<>>, Honest(Head(q)), NEW s \in Slots,
           NEW row \in Row \cup {NoRow}, RowSays(row, s), NEW a \in Allocs, ToFlag(q, row, s, a)
    PROVE  LET row2 == HandleRsvp(row, s, Head(q))
           IN  Flagged(row2) \/ ToFlag(Tail(q), row2, s, a)
<1> DEFINE u == Head(q)
           q2 == Tail(q)
           row2 == HandleRsvp(row, s, u)
<1>1. u \in Update /\ u = q[1]
  BY TailIs
<1> HIDE DEF u, q2, row2
<1>2. /\ u \notin About(s) => SameRow(row, row2)
      /\ row # NoRow => row2 # NoRow
      /\ u \in InvitingAny(s) => row2 # NoRow
  BY <1>1, HandledKeeps DEF row2, u
<1>3. ASSUME u \in Staking(s, a)
      PROVE  row2 = NoRow \/ (row2.status = "staked" /\ row2.alloc = a)
  <2>1. PICK c \in NewOf(u, s) :
          NewOf(u, s) = {c} /\ c.kind = "rsvp" /\ c.alloc = a /\ ~c.withdrawn
    BY <1>3 DEF Staking
  <2>2. c.slot = s /\ u \in Making(c)
    BY <1>1, <2>1 DEF NewOf, Making
  <2>3. row2 = NoRow \/ Matches(row2, c)
    BY <1>1, <2>1, <2>2, HandledMake DEF row2, u
  <2>4. c.alloc # None
    BY <2>1, ReadModelConstants
  <2> QED
    BY <2>1, <2>3, <2>4 DEF Matches, StatusFits
<1>4. PICK k \in 1..Len(q) :
        /\ q[k] \in Losing(s, a)
        /\ Tends(q, k - 1, InvitingAny(s), {}, row # NoRow)
        /\ Tends(q, k - 1, Staking(s, a), About(s) \ Staking(s, a),
                 row = NoRow \/ (row.status = "staked" /\ row.alloc = a))
  BY DEF ToFlag
<1>5. CASE k = 1
  <2>1. u \in Losing(s, a) /\ k - 1 = 0
    BY <1>1, <1>4, <1>5
  <2>2. row # NoRow /\ row.status = "staked" /\ row.alloc = a
    BY <1>4, <2>1, TendsDone
  <2>3. Lost(row, s, u)
    BY <1>1, <2>1, <2>2, LossNoticed DEF u
  <2>4. Flagged(row2)
    BY <1>1, <2>2, <2>3, FlagHandled DEF row2
  <2> QED
    BY <2>4 DEF row2, u
<1>6. CASE k # 1
  <2>1. /\ k - 1 \in 1..Len(q2) /\ q2[k - 1] = q[k]
        /\ \A G, B, ok, ok2 :
              Tends(q, k - 1, G, B, ok) /\ (u \in G => ok2) /\ (u \notin G /\ u \notin B /\ ok => ok2)
              => Tends(q2, k - 1 - 1, G, B, ok2)
    BY <1>6, WaitBehead DEF q2, u
  <2>2. Tends(q2, k - 1 - 1, InvitingAny(s), {}, row2 # NoRow)
    BY <1>2, <1>4, <2>1
  <2>3. Tends(q2, k - 1 - 1, Staking(s, a), About(s) \ Staking(s, a),
              row2 = NoRow \/ (row2.status = "staked" /\ row2.alloc = a))
    BY <1>2, <1>3, <1>4, <2>1 DEF SameRow
  <2>4. ToFlag(q2, row2, s, a)
    BY <1>4, <2>1, <2>2, <2>3 DEF ToFlag
  <2> QED
    BY <2>4 DEF q2, row2, u
<1> QED
  BY <1>5, <1>6

(* What shows the stake of c is c, or gets it from a create of c. *)
LEMMA OwnHandled ==
    ASSUME NEW u \in Update, Honest(u), NEW c, c.kind = "rsvp", c.slot \in Slots, c.alloc # None,
           NEW row \in Row \cup {NoRow}, RowSays(row, c.slot)
    PROVE  LET row2 == HandleRsvp(row, c.slot, u)
           IN  /\ u \in Making(c) => Own(row2, c)
               /\ u \notin Restaking(c) /\ Own(row, c) => Own(row2, c)
<1> DEFINE s == c.slot
           row2 == HandleRsvp(row, s, u)
           C == TheRsvp(u, s)
<1> HIDE DEF s, row2, C
<1>0. s \in Slots /\ RowSays(row, s)
  BY DEF s
<1>1. u \in Making(c) => row2 = NoRow \/ Matches(row2, c)
  BY HandledMake DEF row2, s
<1>2. row2 = NoRow \/ NewRow(row2, row, s, u)
  BY <1>0, HandledIs DEF row2
<1>3. ASSUME u \notin Restaking(c), Own(row, c), NewRow(row2, row, s, u),
             row2.alloc = c.alloc, row2.status = "staked"
      PROVE  row2.rsvp = c.cid
  <2>1. CASE CreatedFor(u, "rsvp", s) # {}
    <3>1. C \in NewOf(u, s) /\ C.kind = "rsvp"
      BY <2>1, CreatesTyped, CreatedIs DEF C
    <3>2. row2.rsvp = C.cid /\ row2.alloc = IF C.withdrawn THEN None ELSE C.alloc
      BY <1>3, <2>1 DEF NewRow, C
    <3>3. C.alloc = c.alloc
      BY <1>3, <3>2
    <3>4. C = c
      BY <1>3, <3>1, <3>3 DEF Restaking, s
    <3> QED
      BY <3>2, <3>4
  <2>2. CASE CreatedFor(u, "rsvp", s) = {}
    <3>1. /\ row2.rsvp = Base(row).rsvp /\ row2.alloc = Base(row).alloc
          /\ row2.status = NewStatus(row, s, u)
      BY <1>3, <2>2 DEF NewRow
    <3>2. Base(row).status = "staked"
      BY <1>3, <2>2, <3>1 DEF NewStatus
    <3>3. row # NoRow /\ Base(row) = row
      BY <3>2 DEF Base, BlankRow
    <3> QED
      BY <1>3, <3>1, <3>2, <3>3 DEF Own
  <2> QED
    BY <2>1, <2>2
<1>4. /\ u \in Making(c) => Own(row2, c)
      /\ u \notin Restaking(c) /\ Own(row, c) => Own(row2, c)
  BY <1>1, <1>2, <1>3 DEF Own, Matches
<1> QED
  BY <1>4 DEF row2, s

LEMMA QuietHandled ==
    ASSUME NEW q \in Seq(Update), q # <<>>, Honest(Head(q)), NEW c, c.kind = "rsvp",
           c.slot \in Slots, c.alloc # None, NEW row \in Row \cup {NoRow}, RowSays(row, c.slot),
           ToQuiet(q, row, c)
    PROVE  ToQuiet(Tail(q), HandleRsvp(row, c.slot, Head(q)), c)
<1> DEFINE u == Head(q)
           q2 == Tail(q)
           row2 == HandleRsvp(row, c.slot, u)
<1>1. u \in Update /\ Behead(q, q2)
  BY TailIs
<1>2. Len(q) \in Nat /\ Len(q2) = Len(q) - 1 /\ \A k \in 1..Len(q2) : q2[k] = q[k + 1]
  BY <1>1 DEF Behead
<1> HIDE DEF u, q2, row2
<1>3. /\ u \in Making(c) => Own(row2, c)
      /\ u \notin Restaking(c) /\ Own(row, c) => Own(row2, c)
  BY <1>1, OwnHandled DEF u, row2
<1>4. Will(q2, Making(c), Restaking(c), Own(row2, c))
  BY <1>3, WillBehead DEF ToQuiet, u, q2
<1>5. ASSUME NEW k \in 1..Len(q2), q2[k] \in Ending(c)
      PROVE  Tends(q2, k - 1, Making(c), Restaking(c), Own(row2, c))
  <2>1. k + 1 \in 1..Len(q) /\ k + 1 # 1 /\ q[k + 1] \in Ending(c) /\ (k + 1) - 1 - 1 = k - 1
    BY <1>2, <1>5
  <2>2. Tends(q, (k + 1) - 1, Making(c), Restaking(c), Own(row, c))
    BY <2>1 DEF ToQuiet
  <2>3. \A G, B, ok, ok2 :
            Tends(q, (k + 1) - 1, G, B, ok) /\ (u \in G => ok2) /\ (u \notin G /\ u \notin B /\ ok => ok2)
            => Tends(q2, (k + 1) - 1 - 1, G, B, ok2)
    BY <2>1, WaitBehead DEF q2, u
  <2>4. Tends(q2, (k + 1) - 1 - 1, Making(c), Restaking(c), Own(row2, c))
    BY <1>3, <2>2, <2>3
  <2> QED
    BY <2>1, <2>4
<1>6. ToQuiet(q2, row2, c)
  BY <1>4, <1>5 DEF ToQuiet
<1> QED
  BY <1>6 DEF q2, row2, u

LEMMA SlotDueHandled ==
    ASSUME BaseOK, NEW q \in Seq(Update), q # <<>>, Honest(Head(q)), NEW s \in Slots,
           NEW row \in Row \cup {NoRow}, RowSays(row, s), NEW out, SlotDue(q, row, out, s)
    PROVE  SlotDue(Tail(q), HandleRsvp(row, s, Head(q)), HandleSettlement(out, row, s, Head(q)), s)
<1>1. PICK u : u = Head(q)
  OBVIOUS
<1>2. PICK q2 : q2 = Tail(q)
  OBVIOUS
<1>3. PICK row2 : row2 = HandleRsvp(row, s, u)
  OBVIOUS
<1>4. PICK out2 : out2 = HandleSettlement(out, row, s, u)
  OBVIOUS
<1>5. u \in Update
  BY <1>1, TailIs
<1>6. ASSUME NEW r \in Rsvps, SlotOf(r) = s PROVE RsvpDue(q2, row2, out2, r)
  <2>1. RsvpDue(q, row, out, r)
    BY <1>6 DEF SlotDue
  <2>2. out2 = "none" => out = "none"
    BY <1>4 DEF HandleSettlement
  <2>3. ASSUME stage[r] \in Paid, out2 = "none" PROVE ToOutcome(q2, row2, RsvpOf(r))
    <3>1. ToOutcome(q, row, RsvpOf(r))
      BY <2>1, <2>2, <2>3 DEF RsvpDue
    <3> QED
      BY <1>1, <1>2, <1>3, <1>4, <1>6, <2>3, <3>1, OutcomeHandled
  <2>4. ASSUME TookBack(r) PROVE Flagged(row2) \/ ToFlag(q2, row2, s, allocOf[r])
    <3>1. allocOf[r] \in Allocs
      BY <2>4 DEF TookBack, BaseOK, TypeOK
    <3>2. Flagged(row) => Flagged(row2)
      BY <1>3, <1>5, FlagHandled
    <3>3. ToFlag(q, row, s, allocOf[r]) => Flagged(row2) \/ ToFlag(q2, row2, s, allocOf[r])
      BY <1>1, <1>2, <1>3, <3>1, LossHandled
    <3> QED
      BY <1>6, <2>1, <2>4, <3>2, <3>3 DEF RsvpDue
  <2>5. ASSUME GaveBack(r) PROVE ToQuiet(q2, row2, RsvpOf(r))
    <3>1. PICK c : c = RsvpOf(r)
      OBVIOUS
    <3>2. c.kind = "rsvp" /\ c.slot = s /\ c.alloc = allocOf[r]
      BY <1>6, <2>5, <3>1 DEF RsvpOf, GaveBack
    <3>3. c.alloc # None
      BY <2>5, <3>2, ReadModelConstants DEF GaveBack, BaseOK, TypeOK
    <3>4. ToQuiet(q, row, c)
      BY <2>1, <2>5, <3>1 DEF RsvpDue
    <3>5. ToQuiet(Tail(q), HandleRsvp(row, c.slot, Head(q)), c)
      BY <3>2, <3>3, <3>4, QuietHandled
    <3> QED
      BY <1>1, <1>2, <1>3, <3>1, <3>2, <3>5
  <2> QED
    BY <1>6, <2>3, <2>4, <2>5 DEF RsvpDue
<1>7. SlotDue(q2, row2, out2, s)
  BY <1>6 DEF SlotDue
<1> QED
  BY <1>1, <1>2, <1>3, <1>4, <1>7

(* Only the loss of a stake raises a flag. *)
LEMMA FlagHonest ==
    ASSUME LedgerOK, NEW q \in Seq(Update), q # <<>>, NEW s \in Slots \ crowded,
           NEW row \in Row, RowSays(row, s), NEW out, SlotDue(q, row, out, s),
           LossTold(Head(q)), Lost(row, s, Head(q))
    PROVE  \E a \in Allocs : astate[a] = "withdrawn" /\ spec[a].slot = s
<1> DEFINE u == Head(q)
<1>1. /\ u = q[1] /\ u \in Update /\ row # NoRow /\ 1 \in 1..Len(q)
      /\ row.status = "staked" /\ Archives(u, "alloc", row.alloc)
      /\ ~IsSettled(u, row.rsvp) /\ ~Archives(u, "rsvp", row.rsvp) /\ LossTold(u)
  BY TailIs, ReadModelConstants DEF Lost
<1> HIDE DEF u
<1>2. PICK p \in u.archived : p.kind = "alloc" /\ p.cid = row.alloc
  BY <1>1 DEF Archives
<1>3. p = AllocPaper(row.alloc) /\ row.alloc \in Allocs
  <2>1. p \in AllocPapers
    BY <1>1, <1>2, PaperKinds DEF Update
  <2> QED
    BY <1>2, <2>1 DEF AllocPapers, AllocPaper
<1>4. spec[row.alloc].slot = s
  BY <1>1, <1>3, ReadModelConstants DEF RowSays
<1>5. ~u.closed
  BY <1>1 DEF IsSettled
<1>6. ASSUME NEW r \in Rsvps, GaveBack(r), allocOf[r] = row.alloc,
             SlotOf(r) \notin crowded => u \in Ending(RsvpOf(r))
      PROVE  FALSE
  <2>1. SlotOf(r) = s
    BY <1>3, <1>4, <1>6 DEF LedgerOK, Books, OwnStakeOnly, MatchesLeg, GaveBack, SlotOf
  <2>2. PICK c : c = RsvpOf(r)
    OBVIOUS
  <2>3. u \in Ending(c) /\ c.kind = "rsvp" /\ c.slot = s /\ c.alloc = row.alloc
    BY <1>6, <2>1, <2>2 DEF RsvpOf, GaveBack
  <2>4. ToQuiet(q, row, c)
    BY <1>6, <2>1, <2>2 DEF SlotDue, RsvpDue
  <2>5. Tends(q, 0, Making(c), Restaking(c), Own(row, c))
    <3>1. 1 - 1 = 0
      OBVIOUS
    <3> QED
      BY <1>1, <2>3, <2>4, <3>1 DEF ToQuiet
  <2>6. row.rsvp = c.cid
    BY <1>1, <2>3, <2>5, TendsDone DEF Own
  <2>7. Archives(u, "rsvp", row.rsvp)
    BY <2>3, <2>6 DEF Ending, OldOf, Archives
  <2> QED
    BY <1>1, <2>7
<1>7. astate[row.alloc] = "withdrawn"
  BY <1>1, <1>2, <1>3, <1>5, <1>6 DEF LossTold
<1> QED
  BY <1>3, <1>4, <1>7

(* What an update in a queue still has to do does not depend on later ones. *)
OpensWith(q, q2) == \A k \in 1..Len(q) : k \in 1..Len(q2) /\ q2[k] = q[k]

LEMMA TendsStart ==
    ASSUME NEW q, NEW q2, OpensWith(q, q2), Len(q) \in Nat, NEW n \in 0..Len(q),
           NEW G, NEW B, NEW ok, Tends(q, n, G, B, ok)
    PROVE  Tends(q2, n, G, B, ok)
<1>1. \A i \in 1..n : q2[i] = q[i]
  BY DEF OpensWith
<1>2. \A i \in 1..n : \A j \in (i+1)..n : q2[j] = q[j]
  BY <1>1
<1> QED
  BY <1>1, <1>2 DEF Tends

LEMMA DueStart ==
    ASSUME NEW q \in Seq(Update), NEW q2, OpensWith(q, q2), NEW row
    PROVE  /\ \A c : ToOutcome(q, row, c) => ToOutcome(q2, row, c)
           /\ \A s, a : ToFlag(q, row, s, a) => ToFlag(q2, row, s, a)
<1>1. \A k \in 1..Len(q) : k \in 1..Len(q2) /\ q2[k] = q[k] /\ k - 1 \in 0..Len(q)
  BY DEF OpensWith
<1>2. \A k \in 1..Len(q) : \A G, B, ok : Tends(q, k - 1, G, B, ok) => Tends(q2, k - 1, G, B, ok)
  BY <1>1, TendsStart
<1> QED
  BY <1>1, <1>2 DEF ToOutcome, ToFlag

LEMMA SlotDueTwice ==
    ASSUME NEW q \in Seq(Update), NEW s, NEW row, NEW out, SlotDue(q, row, out, s)
    PROVE  SlotDue(q \o q, row, out, s)
<1> DEFINE q2 == q \o q
<1>1. Repeat(q, q2)
  BY RepeatIs
<1> HIDE DEF q2
<1>2. /\ Len(q) \in Nat /\ Len(q2) = Len(q) + Len(q)
      /\ \A k \in 1..Len(q) : q2[k] = q[k] /\ q2[Len(q) + k] = q[k]
  BY <1>1 DEF Repeat
<1>3. OpensWith(q, q2)
  BY <1>2 DEF OpensWith
<1>4. ASSUME NEW c, ToQuiet(q, row, c) PROVE ToQuiet(q2, row, c)
  <2>1. Tends(q, Len(q), Making(c), Restaking(c), Own(row, c))
    BY <1>4 DEF ToQuiet, Will
  <2>2. Will(q2, Making(c), Restaking(c), Own(row, c))
    BY <1>1, <2>1, TendsTwice DEF Will
  <2>3. ASSUME NEW k \in 1..Len(q2), q2[k] \in Ending(c)
        PROVE  Tends(q2, k - 1, Making(c), Restaking(c), Own(row, c))
    <3>1. CASE k \in 1..Len(q)
      <4>1. k - 1 \in 0..Len(q) /\ q[k] \in Ending(c)
        BY <1>2, <2>3, <3>1
      <4>2. Tends(q, k - 1, Making(c), Restaking(c), Own(row, c))
        BY <1>4, <3>1, <4>1 DEF ToQuiet
      <4> QED
        BY <1>2, <1>3, <4>1, <4>2, TendsStart
    <3>2. CASE k \notin 1..Len(q)
      <4>1. PICK i \in 1..Len(q) : k = Len(q) + i
        <5>1. k - Len(q) \in 1..Len(q) /\ k = Len(q) + (k - Len(q))
          BY <1>2, <3>2
        <5> QED
          BY <5>1
      <4>2. q[i] \in Ending(c) /\ i - 1 \in 0..Len(q) /\ k - 1 = Len(q) + (i - 1)
        BY <1>2, <2>3, <4>1
      <4>3. Tends(q, i - 1, Making(c), Restaking(c), Own(row, c))
        BY <1>4, <4>2 DEF ToQuiet
      <4>4. Tends(q2, Len(q) + (i - 1), Making(c), Restaking(c), Own(row, c))
        BY <1>1, <2>1, <4>2, <4>3, TendsRepeat
      <4> QED
        BY <4>2, <4>4
    <3> QED
      BY <3>1, <3>2
  <2> QED
    BY <2>2, <2>3 DEF ToQuiet
<1>5. SlotDue(q2, row, out, s)
  BY <1>3, <1>4, DueStart DEF SlotDue, RsvpDue
<1> QED
  BY <1>5 DEF q2

(* A mark is never taken away. *)
LEMMA WithdrawnStays == [Next]_vars => withdrawn \subseteq withdrawn'
<1> SUFFICES ASSUME [Next]_vars PROVE withdrawn \subseteq withdrawn'
  OBVIOUS
<1>1. CASE EventNext
  BY <1>1 DEF EventNext, EP_Accept, EP_Cancel, EndEventEarly, MarkSettled, InviteAttendee,
              CloseEvent, rsvpVars
<1>2. CASE RsvpNext
  BY <1>2 DEF RsvpNext, AcceptRSVP, DeclineRSVP, RevokeInvite, RejectRequest, RecordAllocation,
              CheckIn, MarkWithdrawn, CancelRSVP, rsvpVars
<1>3. CASE AllocNext
  BY <1>3 DEF AllocNext, Allocate, AllocationWithdraw, rsvpVars
<1>4. CASE Tick \/ UNCHANGED vars
  BY <1>4 DEF Tick, vars, rsvpVars
<1> QED
  BY <1>1, <1>2, <1>3, <1>4 DEF Next

(* How a stake that its owner took back comes about. *)
LEMMA LossMoves ==
    ASSUME BaseOK, BaseOK', [Next]_vars, NEW r \in Rsvps, TookBack(r)', NEW s, s = SlotOf(r)
    PROVE  /\ allocOf'[r] = allocOf[r]
           /\ \/ TookBack(r)
              \/ /\ stage[r] = "live" /\ r \notin withdrawn
                 /\ \A p \in Rsvps : Untouched(p)
                 /\ allocOf[r] \in Allocs
                 /\ \A u \in Update : u = Transaction => u \in Losing(s, allocOf[r])
<1>0. PICK a : a = allocOf'[r]
  OBVIOUS
<1>1. /\ stage'[r] = "live" /\ r \notin withdrawn' /\ a # NoAlloc /\ astate'[a] = "withdrawn"
      /\ TypeOK /\ a \in Allocs /\ r \notin withdrawn /\ Born(r)
  BY <1>0, WithdrawnStays DEF TookBack, BaseOK, TypeOK
<1>2. CASE UNCHANGED <<event, rsvpVars, allocVars>> \/ \E e \in Events : EventMoves(e)
  BY <1>0, <1>1, <1>2 DEF EventMoves, rsvpVars, allocVars, TookBack
<1>3. ASSUME NEW b \in Allocs, AllocMoves(b)
      PROVE  /\ allocOf'[r] = allocOf[r]
             /\ \/ TookBack(r)
                \/ /\ stage[r] = "live" /\ r \notin withdrawn
                   /\ \A p \in Rsvps : Untouched(p)
                   /\ allocOf[r] \in Allocs
                   /\ \A u \in Update : u = Transaction => u \in Losing(s, allocOf[r])
  <2>1. /\ UNCHANGED rsvpVars /\ stage[r] = "live" /\ allocOf[r] = a
        /\ \A p \in Rsvps : Untouched(p)
    BY <1>0, <1>1, <1>3 DEF AllocMoves, rsvpVars, Untouched, SamePaper
  <2>2. CASE astate[a] = "withdrawn"
    BY <1>0, <1>1, <2>1, <2>2 DEF TookBack
  <2>3. CASE astate[a] # "withdrawn"
    <3>1. astate[a] = "locked"
      BY <1>0, <1>1, <1>3, <2>3 DEF AllocMoves
    <3>2. Active(a) /\ ~Active(a)'
      BY <1>0, <1>1, <2>1, <3>1 DEF Active
    <3>3. AllocPaper(a) \in Contracts
      BY <1>0, <1>1, <3>2, ContractsAre DEF ContractFacts
    <3>4. AllocPaper(a) \notin Contracts'
      <4>1. SUFFICES ASSUME AllocPaper(a) \in Contracts' PROVE FALSE
        OBVIOUS
      <4>2. AllocPaper(a).kind = "alloc"
        BY DEF AllocPaper
      <4>3. PICK b2 \in Allocs : Active(b2)' /\ AllocPaper(a) = AllocPaper(b2)
        BY <4>1, <4>2, ContractsNext DEF ContractFacts, AllocPaper
      <4> QED
        BY <1>0, <1>1, <3>1, <4>3 DEF AllocPaper, Active
    <3>5. NewOf(Transaction, s) = {} /\ OldOf(Transaction, s) = {}
      BY <2>1, TellsNothing
    <3>6. \A p \in Rsvps : ~SettledNow(p)
      BY <2>1 DEF SettledNow, Untouched
    <3>7. Transaction.closed = FALSE /\ Transaction.settles = {}
      BY <3>6 DEF Transaction
    <3>8. AllocPaper(a) \in Transaction.archived
      BY <3>3, <3>4 DEF Transaction, Archived
    <3>9. \A u \in Update : u = Transaction => u \in Losing(s, a)
      BY <3>5, <3>7, <3>8 DEF Losing, About
    <3> QED
      BY <1>0, <1>1, <2>1, <3>9
  <2> QED
    BY <2>2, <2>3
<1>4. ASSUME NEW p \in Rsvps, RsvpMoves(p) PROVE allocOf'[r] = allocOf[r] /\ TookBack(r)
  <2>1. astate[a] = "withdrawn"
    BY <1>0, <1>1, <1>4 DEF RsvpMoves, TypeOK
  <2>2. Untouched(r) \/ Moves(r)
    BY <1>4 DEF RsvpMoves
  <2>3. CASE Untouched(r)
    BY <1>0, <1>1, <2>1, <2>3 DEF Untouched, SamePaper, TookBack
  <2>4. CASE Renewed(r)
    BY <1>0, <1>1, <2>1, <2>4 DEF Renewed, TookBack, Active
  <2>5. CASE stage[r] = "invited" /\ SamePaper(r)
    BY <1>0, <1>1, <2>5 DEF Born, Young, SamePaper
  <2> QED
    BY <1>0, <1>1, <2>2, <2>3, <2>4, <2>5 DEF Moves, Dropped
<1>5. ASSUME NEW S \in SUBSET Rsvps, Closes(S) PROVE allocOf'[r] = allocOf[r] /\ TookBack(r)
  <2>1. r \notin S /\ astate[a] = "withdrawn"
    BY <1>0, <1>1, <1>5 DEF Closes, Paid
  <2> QED
    BY <1>0, <1>1, <1>5, <2>1 DEF Closes, Untouched, SamePaper, TookBack
<1> QED
  BY <1>0, <1>1, <1>2, <1>3, <1>4, <1>5, LedgerMoves

LEMMA TendsBroader ==
    ASSUME NEW q \in Seq(Update), NEW G, NEW B, NEW ok, Tends(q, Len(q), G, B, ok),
           NEW H, NEW C, NEW ok2, G \subseteq H, C \subseteq B, ok => ok2
    PROVE  Tends(q, Len(q), H, C, ok2)
<1>1. 1..Len(q) = DOMAIN q /\ Len(q) \in Nat
  OBVIOUS
<1>2. \A j \in DOMAIN q : (q[j] \in G => q[j] \in H) /\ (q[j] \in C => q[j] \in B)
  OBVIOUS
<1> QED
  BY <1>1, <1>2, TendsWeaker

(* An RSVP that ends was shown right before, once all was handled. *)
LEMMA LiveTends ==
    ASSUME NEW q \in Seq(Update), NEW row, NEW r \in Rsvps, stage[r] = "live",
           RowTends(q, row, SlotOf(r))
    PROVE  LET c == RsvpOf(r)
           IN  /\ Tends(q, Len(q), InvitingAny(c.slot), {}, row # NoRow)
               /\ Tends(q, Len(q), Making(c), About(c.slot) \ Making(c), row = NoRow \/ Matches(row, c))
<1> DEFINE c == RsvpOf(r)
<1>1. c.slot = SlotOf(r)
  BY DEF RsvpOf
<1> HIDE DEF c
<1>2. r \in Outstanding(SlotOf(r))
  BY DEF Outstanding
<1>3. ToLive(q, row, c) /\ ToJoined(q, row, r)
  BY <1>2 DEF RowTends, RsvpTends, c
<1>4. Tends(q, Len(q), Inviting(r), InvitingAny(SlotOf(r)) \ Inviting(r),
            row # NoRow /\ row.invite \in {r, None})
  BY <1>3 DEF ToJoined, Will
<1>5. Inviting(r) \subseteq InvitingAny(SlotOf(r))
  <2>1. InviteOf(r).kind = "invite"
    BY DEF InviteOf
  <2> QED
    BY <2>1 DEF Inviting, InvitingAny
<1>6. (row # NoRow /\ row.invite \in {r, None}) => row # NoRow
  OBVIOUS
<1>7. Tends(q, Len(q), InvitingAny(SlotOf(r)), {}, row # NoRow)
  BY <1>4, <1>5, <1>6, TendsBroader
<1>8. Tends(q, Len(q), Making(c), About(c.slot) \ Making(c), row = NoRow \/ Matches(row, c))
  BY <1>3 DEF ToLive, Will
<1> QED
  BY <1>1, <1>7, <1>8 DEF c

(* The end of an RSVP of a slot is told by the transaction. *)
LEMMA EndTold ==
    ASSUME BaseOK, BaseOK', [Next]_vars, NEW r \in Rsvps, OneOut(SlotOf(r)),
           stage[r] \notin Gone, stage'[r] \in Gone, NEW u \in Update, u = Transaction
    PROVE  /\ stage[r] = "live" /\ RsvpOf(r)' = RsvpOf(r) /\ allocOf'[r] = allocOf[r]
           /\ NewOf(u, SlotOf(r)) = {} /\ OldOf(u, SlotOf(r)) = {RsvpOf(r)}
           /\ u \in Ending(RsvpOf(r))
           /\ Created \cup Archived # {}
           /\ stage'[r] \in Paid => u \in Settling(RsvpOf(r))
<1> DEFINE s == SlotOf(r)
<1>0. TypeOK
  BY DEF BaseOK
<1>1. ~Untouched(r)
  BY DEF Untouched
<1>2. /\ Moves(r) \/ Ends(r)
      /\ \A p \in Rsvps : SlotOf(p) = s /\ p # r => Untouched(p)
  BY <1>0, <1>1, SlotMoves
<1>3. NewOf(u, s) = Face(r)' \ Face(r) /\ OldOf(u, s) = Face(r) \ Face(r)'
  BY <1>2, TellsSlot
<1>4. Turns(r, NewOf(u, s), OldOf(u, s))
  BY <1>2, <1>3, FaceTurns
<1> HIDE DEF s
<1>5. /\ stage[r] = "live" /\ RsvpOf(r)' = RsvpOf(r)
      /\ NewOf(u, s) = {} /\ OldOf(u, s) = {RsvpOf(r)}
  BY <1>4 DEF Turns, Gone, Dropped
<1>6. allocOf'[r] = allocOf[r]
  BY <1>2, <1>5 DEF Moves, Renewed, Ends, SamePaper, Gone
<1>7. RsvpOf(r).slot = s /\ RsvpOf(r).cid = <<r, ver[r]>>
  BY DEF RsvpOf, s
<1>8. u \in Ending(RsvpOf(r))
  BY <1>5, <1>7 DEF Ending
<1>9. Created \cup Archived # {}
  BY <1>2, NothingMoves
<1>10. ASSUME stage'[r] \in Paid PROVE u \in Settling(RsvpOf(r))
  <2>1. SettledNow(r)
    BY <1>5, <1>10 DEF SettledNow, Paid
  <2>2. u.closed = TRUE
    BY <2>1 DEF Transaction
  <2> QED
    BY <1>8, <2>2 DEF Settling, IsSettled
<1> QED
  BY <1>5, <1>6, <1>8, <1>9, <1>10 DEF s

(* No RSVP is staked with what another one of its slot used up. *)
LEMMA NoRestaking ==
    ASSUME BaseOK, BaseOK', Sole', NEW r \in Rsvps, SlotOf(r) \notin crowded', GaveBack(r)',
           NEW u \in Update, u = Transaction
    PROVE  u \notin Restaking(RsvpOf(r))'
<1>1. PICK c : c = RsvpOf(r)'
  OBVIOUS
<1>2. /\ c.slot = SlotOf(r) /\ c.alloc = allocOf'[r] /\ allocOf'[r] # NoAlloc
      /\ stage'[r] = "cancelled" /\ allocOf'[r] \in Allocs
  BY <1>1 DEF RsvpOf, GaveBack, SlotOf, BaseOK, TypeOK
<1>3. ASSUME NEW d \in NewOf(u, c.slot), d.kind = "rsvp", d.alloc = c.alloc PROVE FALSE
  <2>1. d \in Contracts' /\ d.slot = SlotOf(r)
    BY <1>2, <1>3, TellsNew DEF NewOf, Transaction
  <2>2. PICK p \in Rsvps : d \in Face(p)'
    BY <1>3, <2>1, ContractsNext DEF ContractFacts
  <2>3. d = RsvpOf(p)' /\ stage'[p] = "live"
    BY <1>3, <2>2 DEF Face, InviteOf
  <2>4. /\ d.slot = SlotOf(p)
        /\ d.alloc = IF allocOf'[p] = NoAlloc THEN None ELSE allocOf'[p]
    BY <2>3 DEF RsvpOf, SlotOf
  <2>5. allocOf'[p] = allocOf'[r] /\ allocOf'[p] # NoAlloc
    BY <1>2, <1>3, <2>4, ReadModelConstants
  <2>6. Spent(r)' # "no"
    BY <1>2 DEF Spent
  <2>7. SlotOf(p)' = SlotOf(p) /\ SlotOf(r)' = SlotOf(r)
    BY DEF SlotOf
  <2> QED
    BY <2>1, <2>3, <2>4, <2>5, <2>6, <2>7 DEF Sole
<1>4. u \notin Restaking(c)
  BY <1>3 DEF Restaking
<1> QED
  BY <1>1, <1>4 DEF Restaking

LEMMA SlotDueStep ==
    ASSUME LedgerOK, LedgerOK', [Next]_vars, NEW s \in Slots, OneOut(s), s \notin crowded', Sole',
           NEW row, NEW out, NEW q \in Seq(Update), \A k \in 1..Len(q) : Honest(q[k]),
           RowTends(q, row, s), SlotDue(q, row, out, s), NEW q2,
           \/ Created \cup Archived = {} /\ q2 = q
           \/ \E u \in Update : u = Transaction /\ q2 = Append(q, u)
    PROVE  SlotDue(q2, row, out, s)'
<1>1. BaseOK /\ BaseOK' /\ TypeOK /\ \A r \in Rsvps : Onward(r)
  BY Forward DEF LedgerOK, BaseOK
<1>2. PICK t : t = Transaction
  OBVIOUS
<1>3. t \in Update
  BY <1>1, <1>2, TransactionTyped
<1>4. q2 = q \/ q2 = Append(q, t)
  BY <1>2
<1>5. Created \cup Archived # {} => q2 = Append(q, t)
  BY <1>2
<1>6. Len(q) \in Nat /\ Len(q) \in 0..Len(q) /\ OpensWith(q, q2)
  BY <1>3, <1>4 DEF OpensWith
<1>7. q2 = Append(q, t) => /\ Len(q2) = Len(q) + 1 /\ q2[Len(q2)] = t
                           /\ Len(q2) \in 1..Len(q2) /\ Len(q2) - 1 = Len(q)
  BY <1>3, <1>6
<1>8. ASSUME NEW r \in Rsvps, SlotOf(r) = s
      PROVE  RsvpDue(q2, row, out, r)'
  <2>1. PICK c : c = RsvpOf(r)
    OBVIOUS
  <2>2. PICK d : d = RsvpOf(r)'
    OBVIOUS
  <2>3. RsvpDue(q, row, out, r) /\ Onward(r)
    BY <1>1, <1>8 DEF SlotDue
  <2>4. c.slot = s /\ c.kind = "rsvp"
    BY <1>8, <2>1 DEF RsvpOf
  <2>5. stage[r] \in Gone => c = d /\ Untouched(r)
    BY <1>1, <2>1, <2>2, <2>3, PaperStays DEF Onward, Untouched
  <2>6. stage[r] \notin Gone /\ stage'[r] \in Gone =>
          /\ stage[r] = "live" /\ d = c /\ NewOf(t, s) = {} /\ t \in Ending(c)
          /\ q2 = Append(q, t)
          /\ stage'[r] \in Paid => t \in Settling(c)
    BY <1>1, <1>2, <1>3, <1>5, <1>8, <2>1, <2>2, EndTold
  <2>7. stage[r] = "live" =>
          /\ Tends(q2, Len(q), InvitingAny(s), {}, row # NoRow)
          /\ Tends(q, Len(q), Making(c), About(s) \ Making(c), row = NoRow \/ Matches(row, c))
    <3>1. SUFFICES ASSUME stage[r] = "live"
                   PROVE  /\ Tends(q2, Len(q), InvitingAny(s), {}, row # NoRow)
                          /\ Tends(q, Len(q), Making(c), About(s) \ Making(c), row = NoRow \/ Matches(row, c))
      OBVIOUS
    <3>2. /\ Tends(q, Len(q), InvitingAny(s), {}, row # NoRow)
          /\ Tends(q, Len(q), Making(c), About(s) \ Making(c), row = NoRow \/ Matches(row, c))
      BY <1>8, <2>1, <2>4, <3>1, LiveTends
    <3> QED
      BY <1>6, <3>2, TendsStart
  <2>8. ASSUME stage'[r] \in Paid, out = "none" PROVE ToOutcome(q2, row, d)
    <3>1. stage'[r] \in Gone
      BY <2>8 DEF Paid, Gone
    <3>2. CASE stage[r] \in Gone
      <4>1. stage[r] \in Paid /\ ToOutcome(q, row, c)
        BY <2>1, <2>3, <2>5, <2>8, <3>2 DEF Untouched, RsvpDue
      <4> QED
        BY <1>6, <2>5, <3>2, <4>1, DueStart
    <3>3. CASE stage[r] \notin Gone
      <4>1. Tends(q, Len(q), Making(c), About(s) \ (Making(c) \cup Ending(c)),
                  row = NoRow \/ row.rsvp = c.cid)
        <5>1. About(s) \ (Making(c) \cup Ending(c)) \subseteq About(s) \ Making(c)
          OBVIOUS
        <5>2. row = NoRow \/ Matches(row, c) => row = NoRow \/ row.rsvp = c.cid
          BY DEF Matches
        <5>3. Tends(q, Len(q), Making(c), About(s) \ Making(c), row = NoRow \/ Matches(row, c))
          BY <2>6, <2>7, <3>1, <3>3
        <5> QED
          BY <5>1, <5>2, <5>3, TendsBroader
      <4>2. Tends(q2, Len(q), Making(c), About(s) \ (Making(c) \cup Ending(c)),
                  row = NoRow \/ row.rsvp = c.cid)
        BY <1>6, <4>1, TendsStart
      <4> QED
        BY <1>7, <2>4, <2>6, <2>7, <2>8, <3>1, <3>3, <4>2 DEF ToOutcome
    <3> QED
      BY <3>2, <3>3
  <2>9. ASSUME TookBack(r)' PROVE Flagged(row) \/ ToFlag(q2, row, s, allocOf'[r])
    <3> DEFINE a == allocOf[r]
    <3>1. /\ allocOf'[r] = a
          /\ \/ TookBack(r)
             \/ /\ stage[r] = "live" /\ r \notin withdrawn /\ a \in Allocs
                /\ \A p \in Rsvps : Untouched(p)
                /\ t \in Losing(s, a)
      BY <1>1, <1>2, <1>3, <1>8, <2>9, LossMoves
    <3>2. CASE TookBack(r)
      BY <1>6, <1>8, <2>3, <3>1, <3>2, DueStart DEF RsvpDue
    <3>3. CASE ~TookBack(r)
      <4>1. /\ stage[r] = "live" /\ (r \in withdrawn) = FALSE /\ a \in Allocs /\ t \in Losing(s, a)
        BY <3>1, <3>3
      <4>2. c.alloc = a /\ c.withdrawn = FALSE
        <5>1. c.withdrawn = (r \in withdrawn)
          BY <2>1 DEF RsvpOf
        <5>2. c.alloc = a
          BY <2>1, <2>9, <3>1 DEF RsvpOf, TookBack
        <5> QED
          BY <4>1, <5>1, <5>2
      <4> HIDE DEF a
      <4>3. a # None
        BY <4>1, ReadModelConstants
      <4>4. Making(c) \subseteq Staking(s, a)
        BY <2>4, <4>2 DEF Making, Staking
      <4>5. row = NoRow \/ Matches(row, c) => row = NoRow \/ (row.status = "staked" /\ row.alloc = a)
        BY <4>2, <4>3 DEF Matches, StatusFits
      <4>6. Tends(q, Len(q), Staking(s, a), About(s) \ Staking(s, a),
                  row = NoRow \/ (row.status = "staked" /\ row.alloc = a))
        <5>1. About(s) \ Staking(s, a) \subseteq About(s) \ Making(c)
          BY <4>4
        <5> QED
          BY <2>7, <4>1, <4>4, <4>5, <5>1, TendsBroader
      <4>7. Tends(q2, Len(q), Staking(s, a), About(s) \ Staking(s, a),
                  row = NoRow \/ (row.status = "staked" /\ row.alloc = a))
        BY <1>6, <4>6, TendsStart
      <4>8. Created \cup Archived # {}
        BY <1>2, <4>1 DEF Losing, Transaction
      <4>9. ToFlag(q2, row, s, a)
        BY <1>5, <1>7, <2>7, <4>1, <4>7, <4>8 DEF ToFlag
      <4> QED
        BY <3>1, <4>9 DEF a
    <3> QED
      BY <3>2, <3>3
  <2>10. ASSUME GaveBack(r)' PROVE ToQuiet(q2, row, d)
    <3>1. t \notin Restaking(d) /\ stage'[r] \in Gone
      <4>1. t \notin Restaking(RsvpOf(r))'
        BY <1>1, <1>2, <1>3, <1>8, <2>10, NoRestaking
      <4> QED
        BY <2>2, <2>10, <4>1 DEF Restaking, GaveBack, Gone
    <3>2. d = c
      BY <2>5, <2>6, <3>1
    <3>3. /\ Will(q, Making(c), Restaking(c), Own(row, c))
          /\ \A k \in 1..Len(q) : q[k] \in Ending(c) =>
                Tends(q, k - 1, Making(c), Restaking(c), Own(row, c))
      <4>1. CASE stage[r] \in Gone
        <5>1. GaveBack(r)
          BY <2>5, <2>10, <4>1 DEF GaveBack, Untouched, SamePaper
        <5> QED
          BY <2>1, <2>3, <5>1 DEF RsvpDue, ToQuiet
      <4>2. CASE stage[r] \notin Gone
        <5>1. stage[r] = "live"
          BY <2>6, <3>1, <4>2
        <5>2. Restaking(c) \subseteq About(s) \ Making(c)
          BY <2>4 DEF Restaking, About, Making
        <5>3. row = NoRow \/ Matches(row, c) => Own(row, c)
          BY DEF Matches, Own
        <5>4. Will(q, Making(c), Restaking(c), Own(row, c))
          BY <2>7, <5>1, <5>2, <5>3, WillWeaker DEF Will
        <5>5. \A k \in 1..Len(q) : q[k] \notin Ending(c)
          <6>1. SUFFICES ASSUME NEW k \in 1..Len(q), q[k] \in Ending(c) PROVE FALSE
            OBVIOUS
          <6>2. c \in q[k].archived /\ Honest(q[k])
            BY <6>1 DEF Ending, OldOf
          <6>3. c.cid[1] = r /\ c.cid[2] = ver[r]
            BY <2>1 DEF RsvpOf
          <6> QED
            BY <2>4, <5>1, <6>2, <6>3 DEF Honest, EndSays, Gone
        <5> QED
          BY <5>4, <5>5
      <4> QED
        BY <4>1, <4>2
    <3>4. Will(q2, Making(c), Restaking(c), Own(row, c))
      BY <1>3, <1>4, <3>1, <3>2, <3>3, WillGrow
    <3>5. ASSUME NEW k \in 1..Len(q2), q2[k] \in Ending(c)
          PROVE  Tends(q2, k - 1, Making(c), Restaking(c), Own(row, c))
      <4>1. CASE k \in 1..Len(q)
        <5>1. q[k] \in Ending(c) /\ k - 1 \in 0..Len(q)
          BY <1>6, <3>5, <4>1 DEF OpensWith
        <5> QED
          BY <1>6, <3>3, <4>1, <5>1, TendsStart
      <4>2. CASE k \notin 1..Len(q)
        <5>1. k - 1 = Len(q)
          BY <1>4, <1>6, <1>7, <3>5, <4>2
        <5>2. Tends(q, Len(q), Making(c), Restaking(c), Own(row, c))
          BY <3>3 DEF Will
        <5> QED
          BY <1>6, <5>1, <5>2, TendsStart
      <4> QED
        BY <4>1, <4>2
    <3>6. ToQuiet(q2, row, c)
      BY <3>4, <3>5 DEF ToQuiet
    <3> QED
      BY <3>2, <3>6
  <2>11. SlotOf(r)' = s
    BY <1>8 DEF SlotOf
  <2>12. /\ (stage[r] \in Paid)' /\ out = "none" => ToOutcome(q2, row, RsvpOf(r))'
         /\ TookBack(r)' => Flagged(row)' \/ ToFlag(q2, row, SlotOf(r), allocOf[r])'
         /\ GaveBack(r)' => ToQuiet(q2, row, RsvpOf(r))'
    BY <2>2, <2>8, <2>9, <2>10, <2>11 DEF ToOutcome, ToFlag, ToQuiet, Flagged
  <2> QED
    BY <2>12 DEF RsvpDue
<1> QED
  BY <1>8 DEF SlotDue, SlotOf

LEMMA LossToldKept ==
    ASSUME LedgerOK, [Next]_vars, crowded \subseteq crowded', NEW u \in Update, LossTold(u)
    PROVE  LossTold(u)'
<1>1. TypeOK
  BY DEF LedgerOK, BaseOK
<1>2. ASSUME NEW a \in Allocs, AllocPaper(a) \in u.archived
      PROVE  \/ astate'[a] = "withdrawn"
             \/ u.closed
             \/ \E r \in Rsvps : /\ GaveBack(r)' /\ allocOf'[r] = a
                                 /\ SlotOf(r) \notin crowded' => u \in Ending(RsvpOf(r)')
  <2>1. CASE astate[a] = "withdrawn"
    BY <1>1, <2>1, Forward
  <2>2. ASSUME NEW r \in Rsvps, GaveBack(r), allocOf[r] = a,
               SlotOf(r) \notin crowded => u \in Ending(RsvpOf(r))
        PROVE  /\ GaveBack(r)' /\ allocOf'[r] = a
               /\ SlotOf(r) \notin crowded' => u \in Ending(RsvpOf(r)')
    <3>1. Untouched(r)
      BY <1>1, <2>2, Forward DEF Onward, GaveBack, Gone
    <3>2. RsvpOf(r)' = RsvpOf(r)
      BY <3>1, PaperStays DEF Untouched
    <3> QED
      BY <2>2, <3>1, <3>2 DEF GaveBack, Untouched, SamePaper
  <2> QED
    BY <1>2, <2>1, <2>2 DEF LossTold
<1> QED
  BY <1>2 DEF LossTold, AllocPaper, SlotOf, Ending

LEMMA LossToldNew ==
    ASSUME LedgerOK, LedgerOK', [Next]_vars, Counted, crowded \subseteq crowded',
           NEW u \in Update, u = Transaction
    PROVE  LossTold(u)'
<1>1. TypeOK /\ BaseOK /\ BaseOK'
  BY DEF LedgerOK, BaseOK
<1>2. ASSUME NEW a \in Allocs, AllocPaper(a) \in u.archived
      PROVE  \/ astate'[a] = "withdrawn"
             \/ u.closed
             \/ \E r \in Rsvps : /\ GaveBack(r)' /\ allocOf'[r] = a
                                 /\ SlotOf(r) \notin crowded' => u \in Ending(RsvpOf(r)')
  <2>1. AllocPaper(a) \in Contracts /\ AllocPaper(a) \notin Contracts'
    BY <1>2 DEF Transaction, Archived
  <2>2. Active(a) /\ ~Active(a)'
    <3>1. AllocPaper(a).kind = "alloc"
      BY DEF AllocPaper
    <3>2. PICK b \in Allocs : Active(b) /\ AllocPaper(a) = AllocPaper(b)
      BY <1>1, <2>1, <3>1, ContractsAre DEF ContractFacts
    <3>3. Active(a)
      BY <3>2 DEF AllocPaper
    <3>4. ~Active(a)'
      BY <1>1, <2>1, ContractsNext DEF ContractFacts, AllocPaper
    <3> QED
      BY <3>3, <3>4
  <2>3. astate[a] = "locked" /\ astate'[a] # "locked"
    BY <2>2 DEF Active
  <2>4. ASSUME NEW b \in Allocs, AllocMoves(b) PROVE astate'[a] = "withdrawn"
    BY <2>3, <2>4 DEF AllocMoves
  <2>5. ASSUME NEW r \in Rsvps, RsvpMoves(r)
        PROVE  /\ GaveBack(r)' /\ allocOf'[r] = a
               /\ SlotOf(r) \notin crowded' => u \in Ending(RsvpOf(r)')
    <3>1. /\ stage[r] = "live" /\ stage'[r] = "cancelled" /\ Active(allocOf[r])
          /\ astate' = [astate EXCEPT ![allocOf[r]] = "refunded"]
      BY <2>3, <2>5 DEF RsvpMoves
    <3>2. a = allocOf[r] /\ a # NoAlloc
      <4>1. allocOf[r] # NoAlloc
        BY <3>1, EscrowConstants DEF Active
      <4> QED
        BY <1>1, <2>3, <3>1, <4>1 DEF TypeOK
    <3>3. SamePaper(r)
      BY <2>5, <3>1 DEF RsvpMoves, Moves, Renewed
    <3>4. GaveBack(r)' /\ allocOf'[r] = a
      BY <3>1, <3>2, <3>3 DEF SamePaper, GaveBack
    <3>5. ASSUME SlotOf(r) \notin crowded' PROVE u \in Ending(RsvpOf(r)')
      <4>1. OneOut(SlotOf(r))
        BY <3>5, SlotIs DEF Counted
      <4>2. stage[r] \notin Gone /\ stage'[r] \in Gone
        BY <3>1 DEF Gone
      <4>3. RsvpOf(r)' = RsvpOf(r) /\ u \in Ending(RsvpOf(r))
        BY <1>1, <4>1, <4>2, EndTold
      <4> QED
        BY <4>3
    <3> QED
      BY <3>4, <3>5
  <2>6. ASSUME NEW S \in SUBSET Rsvps, Closes(S) PROVE u.closed
    <3>1. PICK r \in S : allocOf[r] = a
      BY <2>3, <2>6 DEF Closes
    <3>2. SettledNow(r) /\ r \in Rsvps
      BY <2>6, <3>1 DEF Closes, SettledNow, Paid
    <3> QED
      BY <3>2 DEF Transaction
  <2> QED
    BY <1>1, <2>3, <2>4, <2>5, <2>6, LedgerMoves DEF EventMoves, allocVars
<1> QED
  BY <1>2 DEF LossTold, AllocPaper, SlotOf, Ending

(* What nothing happened to is still due. *)
LEMMA DueStay ==
    ASSUME UNCHANGED vars
    PROVE  /\ \A q, row, out, s : SlotDue(q, row, out, s)' <=> SlotDue(q, row, out, s)
           /\ crowded' = crowded => \A u : LossTold(u)' <=> LossTold(u)
<1>1. \A r : RsvpOf(r)' = RsvpOf(r) /\ SlotOf(r)' = SlotOf(r)
  BY DEF vars, RsvpOf, SlotOf
<1>2. UNCHANGED <<stage, withdrawn, allocOf, astate>>
  BY DEF vars, rsvpVars, allocVars
<1>3. \A q, row, out, r : RsvpDue(q, row, out, r)' <=> RsvpDue(q, row, out, r)
  BY <1>1, <1>2 DEF RsvpDue, TookBack, GaveBack
<1>4. \A q, row, out, s : SlotDue(q, row, out, s)' <=> SlotDue(q, row, out, s)
  BY <1>1, <1>3 DEF SlotDue
<1>5. crowded' = crowded => \A u : LossTold(u)' <=> LossTold(u)
  BY <1>1, <1>2 DEF LossTold, GaveBack
<1> QED
  BY <1>4, <1>5

LEMMA DueThen ==
    ASSUME NEW q, NEW row, NEW out, NEW s, rows'[s] = row, settlements'[s] = out,
           SlotDue(q, row, out, s)'
    PROVE  /\ queue' = q => SlotDue(queue, rows[s], settlements[s], s)'
           /\ resend' = q => SlotDue(resend, rows[s], settlements[s], s)'
<1>1. ASSUME NEW r
      PROVE  /\ queue' = q /\ ToOutcome(q, row, RsvpOf(r))' => ToOutcome(queue, rows[s], RsvpOf(r))'
             /\ resend' = q /\ ToOutcome(q, row, RsvpOf(r))' => ToOutcome(resend, rows[s], RsvpOf(r))'
  BY DEF ToOutcome
<1>2. ASSUME NEW r
      PROVE  /\ queue' = q /\ ToFlag(q, row, SlotOf(r), allocOf[r])'
                   => ToFlag(queue, rows[s], SlotOf(r), allocOf[r])'
             /\ resend' = q /\ ToFlag(q, row, SlotOf(r), allocOf[r])'
                   => ToFlag(resend, rows[s], SlotOf(r), allocOf[r])'
  BY DEF ToFlag
<1>3. ASSUME NEW r
      PROVE  /\ queue' = q /\ ToQuiet(q, row, RsvpOf(r))' => ToQuiet(queue, rows[s], RsvpOf(r))'
             /\ resend' = q /\ ToQuiet(q, row, RsvpOf(r))' => ToQuiet(resend, rows[s], RsvpOf(r))'
  BY DEF ToQuiet, Will, Own
<1>4. Flagged(row) => Flagged(rows[s])'
  BY DEF Flagged
<1> QED
  BY <1>1, <1>2, <1>3, <1>4 DEF SlotDue, RsvpDue

(* Outcomes and flags: what is missing is still to be handled. *)
RowsDue ==
    /\ Sole
    /\ \A k \in 1..Len(queue) : LossTold(queue[k])
    /\ \A k \in 1..Len(resend) : LossTold(resend[k])
    /\ \A s \in Slots \ crowded : /\ SlotDue(queue, rows[s], settlements[s], s)
                                  /\ SlotDue(resend, rows[s], settlements[s], s)
                                  /\ FlagTrue(s)

(* Every update of a queue tells the losses. *)
LEMMA LossToldGrow ==
    ASSUME LedgerOK, LedgerOK', [Next]_vars, Counted, crowded \subseteq crowded',
           NEW q \in Seq(Update), \A k \in 1..Len(q) : LossTold(q[k]), NEW q2,
           \/ Created \cup Archived = {} /\ q2 = q
           \/ \E u \in Update : u = Transaction /\ q2 = Append(q, u)
    PROVE  \A k \in 1..Len(q2) : LossTold(q2[k])'
<1>1. ASSUME NEW k \in 1..Len(q) PROVE LossTold(q[k])'
  <2>1. PICK u : u = q[k]
    OBVIOUS
  <2>2. u \in Update /\ LossTold(u)
    BY <2>1
  <2>3. LossTold(u)'
    BY <2>2, LossToldKept
  <2> QED
    BY <2>1, <2>3
<1>2. CASE q2 = q
  BY <1>1, <1>2
<1>3. ASSUME NEW u \in Update, u = Transaction, q2 = Append(q, u)
      PROVE  \A k \in 1..Len(q2) : LossTold(q2[k])'
  <2>1. LossTold(u)'
    BY <1>3, LossToldNew
  <2>2. Len(q) \in Nat /\ Len(q2) = Len(q) + 1 /\ \A k \in 1..Len(q2) : q2[k] = IF k \in 1..Len(q) THEN q[k] ELSE u
    BY <1>3
  <2>3. ASSUME NEW k \in 1..Len(q2) PROVE LossTold(q2[k])'
    <3>1. CASE k \in 1..Len(q)
      <4>1. LossTold(q[k])' /\ q2[k] = q[k]
        BY <1>1, <2>2, <3>1
      <4> QED
        BY <4>1
    <3>2. CASE k \notin 1..Len(q)
      <4>1. q2[k] = u
        BY <2>2, <3>2
      <4> QED
        BY <2>1, <4>1
    <3> QED
      BY <3>1, <3>2
  <2> QED
    BY <2>3
<1> QED
  BY <1>2, <1>3

(* A step of the ledger is published. *)
LEMMA RowsDuePublished ==
    ASSUME RowsTend, RowsDue, RowsOK', [Next]_vars, Publish, UNCHANGED rowVars
    PROVE  RowsDue'
<1>1. /\ LedgerOK /\ LedgerOK' /\ TypeOK /\ BaseOK /\ BaseOK' /\ Counted
      /\ queue \in Seq(Update) /\ resend \in Seq(Update)
      /\ \A k \in 1..Len(queue) : Honest(queue[k])
      /\ \A k \in 1..Len(resend) : Honest(resend[k])
  BY DEF RowsTend, RowsOK, LedgerOK, BaseOK, FeedTyped, FeedSays, Trusty
<1>2. /\ crowded \subseteq crowded'
      /\ crowded' = crowded \cup {s \in Slots : Cardinality(Outstanding(s)') > 1} \/ crowded' = crowded
  BY DEF Publish
<1>3. Sole'
  BY <1>1, <1>2, SoleStep DEF RowsDue
<1>4. PICK q : q = queue
  OBVIOUS
<1>5. PICK p : p = resend
  OBVIOUS
<1>6. PICK t : t = Transaction
  OBVIOUS
<1>7. t \in Update
  BY <1>1, <1>6, TransactionTyped
<1>8. \/ Created \cup Archived = {} /\ queue' = q /\ resend' = p
      \/ queue' = Append(q, t) /\ resend' = Append(p, t)
  BY <1>4, <1>5, <1>6 DEF Publish, feedVars
<1>9. PICK q2 : q2 = queue'
  OBVIOUS
<1>10. PICK p2 : p2 = resend'
  OBVIOUS
<1>11. \/ Created \cup Archived = {} /\ q2 = q
       \/ \E u \in Update : u = Transaction /\ q2 = Append(q, u)
  BY <1>6, <1>7, <1>8, <1>9
<1>12. \/ Created \cup Archived = {} /\ p2 = p
       \/ \E u \in Update : u = Transaction /\ p2 = Append(p, u)
  BY <1>6, <1>7, <1>8, <1>10
<1>13. \A k \in 1..Len(q2) : LossTold(q2[k])'
  <2>1. q \in Seq(Update) /\ \A k \in 1..Len(q) : LossTold(q[k])
    BY <1>1, <1>4 DEF RowsDue
  <2> QED
    BY <1>1, <1>2, <1>11, <2>1, LossToldGrow
<1>14. \A k \in 1..Len(p2) : LossTold(p2[k])'
  <2>1. p \in Seq(Update) /\ \A k \in 1..Len(p) : LossTold(p[k])
    BY <1>1, <1>5 DEF RowsDue
  <2> QED
    BY <1>1, <1>2, <1>12, <2>1, LossToldGrow
<1>15. UNCHANGED <<rows, settlements>>
  BY DEF rowVars
<1>16. ASSUME NEW s \in Slots \ crowded'
       PROVE  /\ SlotDue(queue, rows[s], settlements[s], s)'
              /\ SlotDue(resend, rows[s], settlements[s], s)'
              /\ FlagTrue(s)'
  <2>1. PICK row : row = rows[s]
    OBVIOUS
  <2>2. PICK out : out = settlements[s]
    OBVIOUS
  <2>3. s \in Slots \ crowded /\ s \in Slots /\ s \notin crowded'
    BY <1>2, <1>16
  <2>4. /\ RowTends(q, row, s) /\ RowTends(p, row, s) /\ OneOut(s)
        /\ SlotDue(q, row, out, s) /\ SlotDue(p, row, out, s) /\ FlagTrue(s)
    BY <1>1, <1>4, <1>5, <2>1, <2>2, <2>3 DEF RowsTend, FeedTends, Counted, RowsDue
  <2>5. SlotDue(q2, row, out, s)'
    <3>1. q \in Seq(Update) /\ \A k \in 1..Len(q) : Honest(q[k])
      BY <1>1, <1>4
    <3> QED
      BY <1>1, <1>3, <1>11, <2>3, <2>4, <3>1, SlotDueStep
  <2>6. SlotDue(p2, row, out, s)'
    <3>1. p \in Seq(Update) /\ \A k \in 1..Len(p) : Honest(p[k])
      BY <1>1, <1>5
    <3> QED
      BY <1>1, <1>3, <1>12, <2>3, <2>4, <3>1, SlotDueStep
  <2>7. rows'[s] = row /\ settlements'[s] = out
    BY <1>15, <2>1, <2>2
  <2>8. SlotDue(queue, rows[s], settlements[s], s)'
    BY <1>9, <2>5, <2>7, DueThen
  <2>9. SlotDue(resend, rows[s], settlements[s], s)'
    BY <1>10, <2>6, <2>7, DueThen
  <2>10. FlagTrue(s)'
    BY <1>1, <2>1, <2>4, <2>7, FlagKept
  <2> QED
    BY <2>8, <2>9, <2>10
<1>17. /\ \A k \in 1..Len(queue') : LossTold(queue[k])'
       /\ \A k \in 1..Len(resend') : LossTold(resend[k])'
  BY <1>9, <1>10, <1>13, <1>14 DEF LossTold
<1> QED
  BY <1>3, <1>16, <1>17 DEF RowsDue

(* An update is handled. *)
LEMMA RowsDueProjected ==
    ASSUME RowsTend, RowsDue, Project
    PROVE  RowsDue'
<1>1. /\ UNCHANGED <<vars, crowded>> /\ queue # <<>> /\ queue \in Seq(Update)
      /\ resend \in Seq(Update) /\ LedgerOK /\ BaseOK /\ TypeOK
  BY DEF Project, RowsTend, RowsOK, FeedTyped, LedgerOK, BaseOK
<1>2. Sole'
  BY <1>1, SoleStep DEF RowsTend, RowsDue
<1>3. PICK q : q = queue
  OBVIOUS
<1>4. PICK p : p = resend
  OBVIOUS
<1>5. PICK u : u = Head(q)
  OBVIOUS
<1>6. PICK p2 : p2 = resend'
  OBVIOUS
<1>7. PICK q2 : q2 = Tail(q)
  OBVIOUS
<1>8. /\ q \in Seq(Update) /\ q # <<>> /\ p \in Seq(Update) /\ q[1] = u /\ u \in Update
      /\ Honest(u) /\ LossTold(u) /\ queue' = q2
  <2>1. 1 \in 1..Len(q) /\ q[1] = u
    BY <1>1, <1>3, <1>5
  <2> QED
    BY <1>1, <1>3, <1>4, <1>5, <1>7, <2>1 DEF RowsTend, RowsOK, FeedSays, Trusty, Project, RowsDue
<1>9. \/ p # <<>> /\ Head(p) = u /\ p2 = Tail(p)
      \/ p2 = q2
  <2>1. CASE stale > 0
    <3>1. Len(p) > 0 /\ q[1] = p[1]
      BY <1>3, <1>4, <1>8, <2>1 DEF RowsTend, RowsOK, FeedTyped
    <3>2. p # <<>> /\ Head(p) = p[1]
      BY <1>8, <3>1
    <3> QED
      BY <1>4, <1>6, <1>8, <2>1, <3>1, <3>2 DEF Project
  <2>2. CASE ~(stale > 0)
    BY <1>3, <1>6, <1>7, <2>2 DEF Project
  <2> QED
    BY <2>1, <2>2
<1>10. \A k \in 1..Len(q2) : LossTold(q2[k])
  <2>1. \A k \in 1..Len(q) : LossTold(q[k])
    BY <1>3 DEF RowsDue
  <2>2. \A k \in 1..Len(q2) : k + 1 \in 1..Len(q) /\ q2[k] = q[k + 1]
    BY <1>7, <1>8, TailIs DEF Behead
  <2> QED
    BY <2>1, <2>2
<1>11. \A k \in 1..Len(p2) : LossTold(p2[k])
  <2>1. CASE p # <<>> /\ p2 = Tail(p)
    <3>1. \A k \in 1..Len(p) : LossTold(p[k])
      BY <1>4 DEF RowsDue
    <3>2. \A k \in 1..Len(p2) : k + 1 \in 1..Len(p) /\ p2[k] = p[k + 1]
      BY <1>8, <2>1, TailIs DEF Behead
    <3> QED
      BY <3>1, <3>2
  <2> QED
    BY <1>9, <1>10, <2>1
<1>12. \A k : LossTold(k)' <=> LossTold(k)
  BY <1>1, DueStay
<1>13. /\ \A k \in 1..Len(queue') : LossTold(queue[k])'
       /\ \A k \in 1..Len(resend') : LossTold(resend[k])'
  <2>1. /\ \A k \in 1..Len(q2) : LossTold(q2[k])'
        /\ \A k \in 1..Len(p2) : LossTold(p2[k])'
    BY <1>10, <1>11, <1>12
  <2> QED
    BY <1>6, <1>8, <2>1 DEF LossTold
<1>14. ASSUME NEW s \in Slots \ crowded'
       PROVE  /\ SlotDue(queue, rows[s], settlements[s], s)'
              /\ SlotDue(resend, rows[s], settlements[s], s)'
              /\ FlagTrue(s)'
  <2>1. PICK row : row = rows[s]
    OBVIOUS
  <2>2. PICK out : out = settlements[s]
    OBVIOUS
  <2>3. PICK row2 : row2 = HandleRsvp(row, s, u)
    OBVIOUS
  <2>4. PICK out2 : out2 = HandleSettlement(out, row, s, u)
    OBVIOUS
  <2>5. /\ row \in Row \cup {NoRow} /\ RowSays(row, s) /\ s \in Slots /\ s \in Slots \ crowded
    BY <1>1, <2>1 DEF RowsTend, RowsOK, RowsTyped, RowsSay
  <2>6. SlotDue(q, row, out, s) /\ SlotDue(p, row, out, s) /\ FlagTrue(s)
    BY <1>3, <1>4, <2>1, <2>2, <2>5 DEF RowsDue
  <2>7. SlotDue(q2, row2, out2, s)
    BY <1>1, <1>5, <1>7, <1>8, <2>3, <2>4, <2>5, <2>6, SlotDueHandled
  <2>8. SlotDue(p2, row2, out2, s)
    <3>1. CASE p # <<>> /\ Head(p) = u /\ p2 = Tail(p)
      BY <1>1, <1>8, <2>3, <2>4, <2>5, <2>6, <3>1, SlotDueHandled
    <3> QED
      BY <1>9, <2>7, <3>1
  <2>9. rows'[s] = row2 /\ settlements'[s] = out2
    BY <1>3, <1>5, <2>1, <2>2, <2>3, <2>4, <2>5 DEF Project, Apply
  <2>10. SlotDue(q2, row2, out2, s)' /\ SlotDue(p2, row2, out2, s)'
    BY <1>1, <2>7, <2>8, DueStay
  <2>11. SlotDue(queue, rows[s], settlements[s], s)'
    BY <1>8, <2>9, <2>10, DueThen
  <2>12. SlotDue(resend, rows[s], settlements[s], s)'
    BY <1>6, <2>9, <2>10, DueThen
  <2>13. FlagTrue(s)'
    <3>1. SUFFICES ASSUME Flagged(row2) PROVE \E a \in Allocs : astate'[a] = "withdrawn" /\ spec'[a].slot = s
      BY <2>9 DEF FlagTrue, Flagged
    <3>2. Flagged(row) \/ (row # NoRow /\ Lost(row, s, u))
      BY <1>8, <2>3, <2>5, <3>1, FlagHandled
    <3>3. \E a \in Allocs : astate[a] = "withdrawn" /\ spec[a].slot = s
      <4>1. CASE Flagged(row)
        BY <2>1, <2>6, <4>1 DEF FlagTrue, Flagged
      <4>2. CASE row # NoRow /\ Lost(row, s, u)
        <5>1. row \in Row
          BY <2>5, <4>2
        <5> QED
          BY <1>1, <1>5, <1>8, <2>5, <2>6, <4>2, <5>1, FlagHonest
      <4> QED
        BY <3>2, <4>1, <4>2
    <3> QED
      BY <1>1, <3>3 DEF vars, allocVars
  <2> QED
    BY <2>11, <2>12, <2>13
<1> QED
  BY <1>2, <1>13, <1>14 DEF RowsDue

(* The feed is restarted, or its updates are to be handled twice. *)
LEMMA RowsDueQueued ==
    ASSUME RowsTend, RowsDue, UNCHANGED <<vars, rowVars, crowded>>,
           Reconnect \/ Restart \/ UNCHANGED feedVars
    PROVE  RowsDue'
<1>1. LedgerOK /\ BaseOK /\ TypeOK /\ Sole'
  BY SoleStep DEF RowsTend, RowsOK, LedgerOK, BaseOK, RowsDue
<1>2. PICK q : q = queue
  OBVIOUS
<1>3. PICK p : p = resend
  OBVIOUS
<1>4. PICK q2 : q2 = queue'
  OBVIOUS
<1>5. /\ q \in Seq(Update) /\ resend' = p
      /\ q2 = q \o q \/ q2 = p \/ q2 = q
  BY <1>2, <1>3, <1>4 DEF Reconnect, Restart, feedVars, RowsTend, RowsOK, FeedTyped
<1>6. /\ \A k \in 1..Len(q2) : LossTold(q2[k])
      /\ \A k \in 1..Len(p) : LossTold(p[k])
  <2>1. /\ \A k \in 1..Len(q) : LossTold(q[k])
        /\ \A k \in 1..Len(p) : LossTold(p[k])
    BY <1>2, <1>3 DEF RowsDue
  <2>2. CASE q2 = q \o q
    <3>1. /\ Len(q) \in Nat /\ Len(q2) = Len(q) + Len(q)
          /\ \A k \in 1..Len(q) : q2[k] = q[k] /\ q2[Len(q) + k] = q[k]
      BY <1>5, <2>2, RepeatIs DEF Repeat
    <3>2. ASSUME NEW k \in 1..Len(q2), k \notin 1..Len(q) PROVE LossTold(q2[k])
      <4>1. PICK i \in 1..Len(q) : k = Len(q) + i
        <5>1. k - Len(q) \in 1..Len(q) /\ k = Len(q) + (k - Len(q))
          BY <3>1, <3>2
        <5> QED
          BY <5>1
      <4> QED
        BY <2>1, <3>1, <4>1
    <3> QED
      BY <2>1, <3>1, <3>2
  <2> QED
    BY <1>5, <2>1, <2>2
<1>7. /\ \A k \in 1..Len(queue') : LossTold(queue[k])'
      /\ \A k \in 1..Len(resend') : LossTold(resend[k])'
  <2>1. \A k : LossTold(k)' <=> LossTold(k)
    BY DueStay
  <2>2. /\ \A k \in 1..Len(q2) : LossTold(q2[k])'
        /\ \A k \in 1..Len(p) : LossTold(p[k])'
    BY <1>6, <2>1
  <2> QED
    BY <1>4, <1>5, <2>2 DEF LossTold
<1>8. ASSUME NEW s \in Slots \ crowded'
      PROVE  /\ SlotDue(queue, rows[s], settlements[s], s)'
             /\ SlotDue(resend, rows[s], settlements[s], s)'
             /\ FlagTrue(s)'
  <2>1. PICK row : row = rows[s]
    OBVIOUS
  <2>2. PICK out : out = settlements[s]
    OBVIOUS
  <2>3. SlotDue(q, row, out, s) /\ SlotDue(p, row, out, s) /\ FlagTrue(s)
    BY <1>2, <1>3, <1>8, <2>1, <2>2 DEF RowsDue
  <2>4. SlotDue(q2, row, out, s)
    BY <1>5, <2>3, SlotDueTwice
  <2>5. SlotDue(q2, row, out, s)' /\ SlotDue(p, row, out, s)'
    BY <2>3, <2>4, DueStay
  <2>6. rows'[s] = row /\ settlements'[s] = out
    BY <2>1, <2>2 DEF rowVars
  <2>7. SlotDue(queue, rows[s], settlements[s], s)'
    BY <1>4, <2>5, <2>6, DueThen
  <2>8. SlotDue(resend, rows[s], settlements[s], s)'
    BY <1>5, <2>5, <2>6, DueThen
  <2>9. FlagTrue(s)'
    BY <1>1, <2>1, <2>3, <2>6, FlagKept
  <2> QED
    BY <2>7, <2>8, <2>9
<1> QED
  BY <1>1, <1>7, <1>8 DEF RowsDue

LEMMA RowsDueInit == ReadModelInit => RowsDue
<1> SUFFICES ASSUME ReadModelInit PROVE RowsDue
  OBVIOUS
<1>1. \A r \in Rsvps : stage[r] = "none"
  BY DEF ReadModelInit, Init
<1>2. /\ rows = [s \in Slots |-> NoRow] /\ queue = <<>> /\ resend = <<>> /\ 1..0 = {}
  BY DEF ReadModelInit
<1>3. Sole
  BY <1>1 DEF Sole
<1>4. \A q, row, out, s : SlotDue(q, row, out, s)
  BY <1>1 DEF SlotDue, RsvpDue, TookBack, GaveBack, Paid
<1>5. \A s \in Slots : FlagTrue(s)
  BY <1>2 DEF FlagTrue
<1>6. 1..Len(queue) = {} /\ 1..Len(resend) = {}
  BY <1>2
<1> QED
  BY <1>3, <1>4, <1>5, <1>6 DEF RowsDue

LEMMA RowsDueStep ==
    ASSUME RowsTend, RowsDue, [ReadModelNext]_rmVars
    PROVE  RowsDue'
<1>1. RowsOK /\ RowsOK' /\ [Next]_vars
  <2>1. RowsOK
    BY DEF RowsTend
  <2> QED
    BY <2>1, RowsStep, ReadModelStep DEF RowsOK, LedgerOK, BaseOK
<1>2. CASE Ledger
  BY <1>1, <1>2, RowsDuePublished DEF Ledger
<1>3. CASE Project
  BY <1>3, RowsDueProjected
<1>4. CASE Reconnect \/ Restart
  BY <1>4, RowsDueQueued DEF Reconnect, Restart
<1>5. CASE WatcherQuery \/ \E c \in RsvpCids : WatcherFails(c)
  BY <1>5, RowsDueQueued DEF WatcherQuery, WatcherFails
<1>6. ASSUME NEW c \in RsvpCids, WatcherMark(c) PROVE RowsDue'
  BY <1>1, <1>6, RowsDuePublished DEF WatcherMark
<1>7. CASE UNCHANGED rmVars
  BY <1>7, RowsDueQueued DEF rmVars
<1> QED
  BY <1>2, <1>3, <1>4, <1>5, <1>6, <1>7 DEF ReadModelNext

LEMMA RowsDueShow ==
    ASSUME RowsTend, RowsDue, queue = <<>>
    PROVE  /\ \A s \in Slots \ crowded : OutcomeKnown(s)
           /\ \A r \in Rsvps : LossFlagged(r)
<1>1. 1..Len(queue) = {} /\ TypeOK
  BY DEF RowsTend, RowsOK, LedgerOK, BaseOK
<1>2. ASSUME NEW r \in Rsvps, SlotOf(r) \notin crowded
      PROVE  RsvpDue(queue, rows[SlotOf(r)], settlements[SlotOf(r)], r)
  <2>1. SlotOf(r) \in Slots
    BY SlotIs
  <2> QED
    BY <1>2, <2>1 DEF RowsDue, SlotDue
<1>3. ASSUME NEW s \in Slots \ crowded, NEW r \in Rsvps, SlotOf(r) = s, stage[r] \in Paid
      PROVE  settlements[s] # "none"
  BY <1>1, <1>2, <1>3 DEF RsvpDue, ToOutcome
<1>4. ASSUME NEW r \in Rsvps, LostStake(r) PROVE rows[SlotOf(r)].detected
  <2>1. TookBack(r) /\ SlotOf(r) \notin crowded
    BY <1>4 DEF LostStake, TookBack
  <2> QED
    BY <1>1, <1>2, <2>1 DEF RsvpDue, ToFlag, Flagged
<1> QED
  BY <1>3, <1>4 DEF OutcomeKnown, Settled, Paid, LossFlagged

-------------------------------------------------------------------------------
(* Outcomes and flags, from either feed *)

FeedAllOK ==
    /\ FeedOK
    /\ mode = "ws" => RowsDue
    /\ mode = "poll" => PollEnds /\ PollFlags

LEMMA FeedAllStart == FeedInit => FeedAllOK
  BY FeedStart, RowsDueInit, PollEndsInit, PollFlagsInit DEF FeedInit, FeedAllOK

LEMMA FeedAllStep == FeedAllOK /\ [FeedNext]_fvars => FeedAllOK'
<1> SUFFICES ASSUME FeedAllOK, [FeedNext]_fvars PROVE FeedAllOK'
  OBVIOUS
<1>1. FeedOK /\ FeedOK'
  BY FeedStep DEF FeedAllOK
<1>2. CASE mode = "ws"
  <2>1. prev = NoFetch /\ RowsTend /\ RowsDue
    BY <1>2 DEF FeedAllOK, FeedOK
  <2>2. [ReadModelNext]_rmVars /\ UNCHANGED pollVars
    BY <1>2, <2>1 DEF FeedNext, PollLedger, Seed, PollTick, PollRestart, Fetched, fvars
  <2>3. RowsDue'
    BY <2>1, <2>2, RowsDueStep
  <2> QED
    BY <1>1, <1>2, <2>2, <2>3 DEF FeedAllOK, pollVars
<1>3. CASE mode = "poll"
  <2>1. PollRows /\ PollEnds /\ PollFlags
    BY <1>3 DEF FeedAllOK, FeedOK
  <2>2. mode' = "poll"
    BY <1>3 DEF FeedNext, PollLedger, Seed, PollTick, PollRestart, Fetched, fvars, pollVars
  <2>3. PollEnds'
    BY <1>3, <2>1, PollEndsStep
  <2>4. PollFlags'
    BY <1>3, <2>1, PollFlagsStep
  <2> QED
    BY <1>1, <2>2, <2>3, <2>4 DEF FeedAllOK
<1> QED
  BY <1>1, <1>2, <1>3 DEF FeedOK

LEMMA FeedAllShows == FeedAllOK => FeedSettlementsFaithful /\ FeedFlagsFaithful
<1> SUFFICES ASSUME FeedAllOK PROVE FeedSettlementsFaithful /\ FeedFlagsFaithful
  OBVIOUS
<1>1. CASE mode = "ws"
  <2>1. RowsTend /\ RowsDue /\ \A s \in Slots : OutcomeTrue(s)
    BY <1>1 DEF FeedAllOK, FeedOK, RowsTend, RowsOK, RowsSay
  <2>2. \A s \in Slots : Exact(s) => FlagTrue(s) /\ s \notin crowded
    BY <2>1 DEF RowsDue, Exact
  <2>3. CaughtUp => queue = <<>>
    BY <1>1 DEF CaughtUp
  <2>4. CaughtUp => /\ \A s \in Slots \ crowded : OutcomeKnown(s)
                    /\ \A r \in Rsvps : LossFlagged(r)
    BY <2>1, <2>3, RowsDueShow
  <2> QED
    BY <2>1, <2>2, <2>4 DEF FeedSettlementsFaithful, FeedFlagsFaithful
<1>2. CASE mode = "poll"
  <2>1. PollRows /\ PollEnds /\ PollFlags
    BY <1>2 DEF FeedAllOK, FeedOK
  <2>2. CaughtUp => prev = Contracts /\ passed = {}
    BY <1>2 DEF CaughtUp
  <2>3. CaughtUp => /\ \A s \in Slots : Exact(s) => OutcomeKnown(s)
                    /\ \A r \in Rsvps : Exact(SlotOf(r)) => LossFlagged(r)
    BY <2>1, <2>2, PollEndsShow, PollFlagsShow
  <2> QED
    BY <2>1, <2>3 DEF FeedSettlementsFaithful, FeedFlagsFaithful, PollEnds, Outcomes, PollFlags, Flags
<1> QED
  BY <1>1, <1>2 DEF FeedAllOK, FeedOK

(* Whichever feed is used, a settlements row tells what became of an RSVP of *)
(* its slot, except where the poll feed could not see; and once the feed has *)
(* caught up no outcome is missing, after any number of restarts, of updates *)
(* handled twice and of fetches that failed (E10, and the poll feed's guess  *)
(* at what a contract that is gone has become).                              *)
THEOREM FeedSettlements == FeedSpec => []FeedSettlementsFaithful
  BY FeedAllStart, FeedAllStep, FeedAllShows, PTL DEF FeedSpec

(* Whichever feed is used, the row of a slot is flagged only if a stake for  *)
(* the slot was taken back; and once the feed has caught up the row of every *)
(* live RSVP whose stake was taken back, and that is not marked yet, is      *)
(* flagged, except where the poll feed could not see (E12).                  *)
THEOREM FeedFlags == FeedSpec => []FeedFlagsFaithful
  BY FeedAllStart, FeedAllStep, FeedAllShows, PTL DEF FeedSpec
=============================================================================
