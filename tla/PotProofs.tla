------------------------------- MODULE PotProofs -------------------------------
(***************************************************************************)
(* The money of the pot and the indexer's rows of it, for any number of    *)
(* events, attendees and no-shows, with every kind of token.               *)
(*                                                                         *)
(* Money: all events share the holdings of the pot, and a payout runner    *)
(* spends what it found there some time ago.  What makes that safe is      *)
(* Sound: a runner's inputs still cover what it is about to pay, or its    *)
(* payout is counted as disturbed.                                         *)
(*                                                                         *)
(* Rows: the queue ends in what the rows lack, in the order in which it    *)
(* happened, whatever was repeated in front of it.                         *)
(***************************************************************************)
EXTENDS Pot, Sums

-------------------------------------------------------------------------------
(* The strengthened invariants *)

(* Where a runner is fits what it has still to pay and to whom.              *)
RunnerOK(e) ==
    /\ due[e] \subseteq Payees(e)
    /\ \A p \in due[e] : payout[<<e, p>>] = "none"
    /\ step[e] = "open" => /\ due[e] = {} /\ inputs[e] = {}
                           /\ \A p \in Came[e] : payout[<<e, p>>] = "none"
    /\ step[e] = "gathered" => payee[e] \in due[e]
    /\ step[e] = "accepting" => payee[e] \in Came[e]
    /\ \A p \in Came[e] : payout[<<e, p>>] # "none" => Share(e) > 0

MoneyTypeOK ==
    /\ token \in {"demo", "oneStep", "twoStep", "unstamped"}
    /\ minted \in Nat
    /\ pot \subseteq Holdings /\ IsFiniteSet(pot)
    /\ payout \in [Transfers -> {"none", "pending", "accepted", "rejected"}]
    /\ step \in [Events -> {"open", "payout", "gathered", "accepting"}]
    /\ DOMAIN due = Events /\ DOMAIN payee = Events /\ DOMAIN inputs = Events
    /\ \A e \in Events : inputs[e] \subseteq Holdings /\ IsFiniteSet(inputs[e])
    /\ disturbed \subseteq Payouts
    /\ \A e \in Events : RunnerOK(e)

(* A runner about to submit can still pay what it aims at, or was disturbed. *)
Sound(e) ==
    step[e] = "gathered" =>
        \/ inputs[e] \subseteq pot /\ Amount(inputs[e]) >= Needed(e)
        \/ Aimed(e) \subseteq disturbed

(* Who came is owed the share, has been paid or offered it, or was disturbed. *)
Served(e) ==
    step[e] # "open" =>
        \A p \in Payees(e) : \/ p \in due[e]
                             \/ payout[<<e, p>>] # "none"
                             \/ <<e, p>> \in disturbed

MoneyInv ==
    /\ MoneyTypeOK
    /\ NothingLost
    /\ PotCovers
    /\ \A e \in Events : Sound(e) /\ Served(e)

-------------------------------------------------------------------------------
(* Amounts *)

(* What holdings are worth is the sum of any function that knows it.         *)
LEMMA AmountIs ==
    ASSUME NEW H, IsFiniteSet(H), NEW f, \A h \in H : f[h] = h.amount
    PROVE  Amount(H) = SumFunctionOnSet(f, H)
<1> DEFINE g == [h \in H |-> h.amount]
<1>1. \A h \in H : g[h] = f[h]
  OBVIOUS
<1>2. Amount(H) = SumFunctionOnSet(g, H)
  BY DEF Amount, SumFunction
<1> HIDE DEF g
<1> QED
  BY <1>1, <1>2, SumSame

LEMMA AmountNone == Amount({}) = 0
BY AmountIs, SumEmpty, FS_EmptySet

LEMMA AmountNat ==
    ASSUME NEW H, IsFiniteSet(H), \A h \in H : h.amount \in Nat
    PROVE  Amount(H) \in Nat
<1> DEFINE g == [h \in H |-> h.amount]
<1>1. \A h \in H : g[h] \in Nat
  OBVIOUS
<1>2. Amount(H) = SumFunctionOnSet(g, H)
  BY DEF Amount, SumFunction
<1> HIDE DEF g
<1> QED
  BY <1>1, <1>2, SumNat

LEMMA AmountUnion ==
    ASSUME NEW H, IsFiniteSet(H), NEW N, IsFiniteSet(N), H \cap N = {},
           \A h \in H \cup N : h.amount \in Nat
    PROVE  Amount(H \cup N) = Amount(H) + Amount(N)
<1> DEFINE g == [h \in H \cup N |-> h.amount]
<1>1. /\ \A h \in H \cup N : g[h] = h.amount /\ g[h] \in Nat
      /\ \A h \in H : g[h] = h.amount
      /\ \A h \in N : g[h] = h.amount
  OBVIOUS
<1>2. IsFiniteSet(H \cup N)
  BY FS_Union
<1> HIDE DEF g
<1>3. /\ Amount(H \cup N) = SumFunctionOnSet(g, H \cup N)
      /\ Amount(H) = SumFunctionOnSet(g, H)
      /\ Amount(N) = SumFunctionOnSet(g, N)
  BY <1>1, <1>2, AmountIs
<1> QED
  BY <1>1, <1>3, SumUnion

LEMMA AmountPart ==
    ASSUME NEW H, IsFiniteSet(H), NEW N \in SUBSET H, \A h \in H : h.amount \in Nat
    PROVE  /\ Amount(H \ N) = Amount(H) - Amount(N)
           /\ Amount(N) =< Amount(H)
<1> DEFINE R == H \ N
<1>1. IsFiniteSet(N) /\ IsFiniteSet(R)
  BY FS_Subset, FS_Difference
<1>2. R \cap N = {} /\ R \cup N = H
  OBVIOUS
<1>3. (\A h \in R : h.amount \in Nat) /\ (\A h \in N : h.amount \in Nat)
  OBVIOUS
<1> HIDE DEF R
<1>4. Amount(R) \in Nat /\ Amount(N) \in Nat
  BY <1>1, <1>3, AmountNat
<1>5. Amount(H) = Amount(R) + Amount(N)
  BY <1>1, <1>2, AmountUnion
<1> QED
  BY <1>4, <1>5 DEF R

LEMMA AmountOne ==
    ASSUME NEW h, h.amount \in Nat
    PROVE  Amount({h}) = h.amount
<1> DEFINE g == [x \in {h} |-> x.amount]
<1>1. (\A x \in {h} : g[x] = x.amount /\ g[x] \in Nat) /\ g[h] = h.amount
  OBVIOUS
<1>2. IsFiniteSet({h}) /\ {h} \ {h} = {}
  BY FS_Singleton
<1> HIDE DEF g
<1>3. SumFunctionOnSet(g, {h}) = g[h] + SumFunctionOnSet(g, {h} \ {h})
  BY <1>1, <1>2, SumRemove
<1>4. SumFunctionOnSet(g, {h} \ {h}) = 0
  BY <1>2, SumEmpty
<1>5. Amount({h}) = SumFunctionOnSet(g, {h})
  BY <1>1, <1>2, AmountIs
<1> QED
  BY <1>1, <1>3, <1>4, <1>5

-------------------------------------------------------------------------------
(* Shares *)

LEMMA ForfeitedNat == \A e \in Events : Forfeited(e) \in Nat
BY PotConstants DEF Forfeited

(* The shares of all who came are no more than what was forfeited.           *)
LEMMA SharesFit ==
    ASSUME NEW e \in Events, Came[e] # {}
    PROVE  /\ Share(e) \in Nat
           /\ Cardinality(Came[e]) \in Nat
           /\ Share(e) * Cardinality(Came[e]) =< Forfeited(e)
<1>1. Cardinality(Came[e]) \in Nat \ {0}
  BY PotConstants, FS_CardinalityType, FS_EmptySet
<1>2. \A m \in Nat, n \in Nat \ {0} : m \div n \in Nat /\ (m \div n) * n =< m
  OBVIOUS
<1> QED
  BY <1>1, <1>2, ForfeitedNat DEF Share

LEMMA PayeesFinite ==
    ASSUME NEW e \in Events, NEW D \in SUBSET Payees(e)
    PROVE  /\ IsFiniteSet(D)
           /\ Cardinality(D) \in Nat
           /\ IsFiniteSet({e} \X D)
           /\ Cardinality({e} \X D) = Cardinality(D)
<1>1. IsFiniteSet(D)
  BY PotConstants, FS_Subset DEF Payees
<1>2. IsFiniteSet({e}) /\ Cardinality({e}) = 1
  BY FS_Singleton
<1>3. Cardinality(D) \in Nat
  BY <1>1, FS_CardinalityType
<1> QED
  BY <1>1, <1>2, <1>3, FS_Product

LEMMA PayoutsFinite == IsFiniteSet(Payouts)
<1> DEFINE f == [e \in Events |-> {e} \X Came[e]]
           T == {{e} \X Came[e] : e \in Events}
<1>1. f \in Surjection(Events, T)
  BY DEF Surjection
<1>2. \A P \in T : IsFiniteSet(P)
  <2> SUFFICES ASSUME NEW e \in Events PROVE IsFiniteSet({e} \X Came[e])
    OBVIOUS
  <2> QED
    BY PotConstants, FS_Singleton, FS_Product
<1> HIDE DEF f, T
<1>3. IsFiniteSet(T)
  BY <1>1, PotConstants, FS_Surjection
<1>4. IsFiniteSet(UNION T)
  BY <1>2, <1>3, FS_UNION
<1> QED
  BY <1>4 DEF T, Payouts

-------------------------------------------------------------------------------
(* What a submission does to the pot *)

LEMMA HoldingsAmounts ==
    ASSUME NEW H, H \subseteq Holdings PROVE \A h \in H : h.amount \in Nat
BY DEF Holdings

(* Holdings of the pot are replaced by new ones.                             *)
LEMMA Exchanged ==
    ASSUME NEW P, IsFiniteSet(P), NEW H \in SUBSET P, NEW N, IsFiniteSet(N), P \cap N = {},
           \A h \in P \cup N : h.amount \in Nat
    PROVE  /\ IsFiniteSet((P \ H) \cup N)
           /\ Amount((P \ H) \cup N) = (Amount(P) - Amount(H)) + Amount(N)
<1> DEFINE R == P \ H
<1>1. IsFiniteSet(R) /\ R \cap N = {}
  BY FS_Difference
<1>2. IsFiniteSet(R \cup N)
  BY <1>1, FS_Union
<1>3. Amount(R \cup N) = Amount(R) + Amount(N)
  <2>1. \A h \in R \cup N : h.amount \in Nat
    OBVIOUS
  <2> HIDE DEF R
  <2> QED
    BY <1>1, <2>1, AmountUnion
<1>4. Amount(R) = Amount(P) - Amount(H)
  BY AmountPart
<1> QED
  BY <1>2, <1>3, <1>4

(* What a runner that is about to submit aims at, and what that costs.       *)
LEMMA AimedAt ==
    ASSUME MoneyTypeOK, NEW e \in Events, step[e] = "gathered"
    PROVE  /\ Aimed(e) \subseteq {e} \X due[e]
           /\ Aimed(e) \subseteq Payouts
           /\ token = "demo" => /\ Aimed(e) = {e} \X due[e]
                                /\ Needed(e) = Share(e) * Cardinality(due[e])
           /\ token # "demo" => /\ Aimed(e) = {<<e, payee[e]>>}
                                /\ Needed(e) = Share(e)
           /\ Share(e) \in Nat \ {0} /\ Needed(e) \in Nat
           /\ Cardinality(due[e]) \in Nat \ {0}
           /\ Needed(e) =< Share(e) * Cardinality(due[e])
<1>1. payee[e] \in due[e] /\ due[e] \subseteq Payees(e) /\ due[e] \subseteq Came[e]
  BY DEF MoneyTypeOK, RunnerOK, Payees
<1>2. Share(e) \in Nat \ {0}
  BY <1>1, SharesFit DEF Payees
<1>3. /\ Cardinality(due[e]) \in Nat \ {0}
      /\ Cardinality({e} \X due[e]) = Cardinality(due[e])
  BY <1>1, PayeesFinite, FS_EmptySet
<1>4. {e} \X {payee[e]} = {<<e, payee[e]>>} /\ Cardinality({<<e, payee[e]>>}) = 1
  <2>1. {e} \X {payee[e]} = {<<e, payee[e]>>}
    OBVIOUS
  <2> QED
    BY <2>1, FS_Singleton
<1>5. Share(e) =< Share(e) * Cardinality(due[e])
  BY <1>2, <1>3
<1>6. {e} \X due[e] \subseteq Payouts
  BY <1>1 DEF Payouts
<1>7. CASE token = "demo"
  <2>1. Aimed(e) = {e} \X due[e]
    BY <1>7 DEF Aimed
  <2>2. Needed(e) = Share(e) * Cardinality(due[e])
    BY <1>3, <2>1 DEF Needed
  <2> QED
    BY <1>2, <1>3, <1>6, <1>7, <2>1, <2>2
<1>8. CASE token # "demo"
  <2>1. Aimed(e) = {<<e, payee[e]>>}
    BY <1>4, <1>8 DEF Aimed
  <2>2. Needed(e) = Share(e)
    BY <1>2, <1>4, <2>1 DEF Needed
  <2>3. Aimed(e) \subseteq {e} \X due[e]
    BY <1>1, <2>1
  <2> QED
    BY <1>2, <1>3, <1>5, <1>6, <1>8, <2>1, <2>2, <2>3
<1> QED
  BY <1>7, <1>8

LEMMA ChangeMade ==
    ASSUME minted \in Nat, NEW H, H \subseteq Holdings, IsFiniteSet(H), NEW e,
           Needed(e) \in Nat, Amount(H) >= Needed(e)
    PROVE  /\ IsFiniteSet(Change(H, e))
           /\ Cardinality(Change(H, e)) \in {0, 1}
           /\ \A h \in Change(H, e) :
                 /\ h \in [id : {"pot"} \X (1..(minted + Cardinality(Change(H, e)))),
                           amount : Nat \ {0}]
                 /\ h.id = <<"pot", minted + 1>>
           /\ Change(H, e) \cap Holdings = {}
           /\ Amount(Change(H, e)) = Amount(H) - Needed(e)
<1> DEFINE h == [id |-> <<"pot", minted + 1>>, amount |-> Amount(H) - Needed(e)]
<1>1. Amount(H) \in Nat
  BY HoldingsAmounts, AmountNat
<1>2. h.amount = Amount(H) - Needed(e) /\ h.amount \in Nat
  BY <1>1
<1>3. Change(H, e) = IF h.amount > 0 THEN {h} ELSE {}
  BY DEF Change
<1>4. /\ IsFiniteSet({h}) /\ Cardinality({h}) = 1
      /\ IsFiniteSet({}) /\ Cardinality({}) = 0
  BY FS_Singleton, FS_EmptySet
<1>5. Amount({h}) = h.amount /\ Amount({}) = 0
  BY <1>2, AmountOne, AmountNone
<1>6. h.id = <<"pot", minted + 1>> /\ h \notin Holdings
  BY DEF Holdings
<1>7. CASE h.amount > 0
  <2>1. Change(H, e) = {h} /\ Cardinality(Change(H, e)) = 1
    BY <1>3, <1>4, <1>7
  <2>2. h \in [id : {"pot"} \X (1..(minted + 1)), amount : Nat \ {0}]
    BY <1>2, <1>7
  <2> QED
    BY <1>2, <1>4, <1>5, <1>6, <2>1, <2>2
<1>8. CASE ~(h.amount > 0)
  <2>1. Change(H, e) = {} /\ h.amount = 0
    BY <1>2, <1>3, <1>8
  <2> HIDE DEF h
  <2> QED
    BY <1>2, <1>4, <1>5, <2>1
<1> QED
  BY <1>7, <1>8

LEMMA UpTo ==
    ASSUME NEW n \in Nat
    PROVE  IsFiniteSet(1..n) /\ Cardinality(1..n) = n
<1>1. IsFiniteSet(1..n) /\ Cardinality(1..n) = IF 1 > n THEN 0 ELSE n - 1 + 1
  BY FS_Interval
<1> QED
  BY <1>1

(* The holdings that a close slashes.                                        *)
Slashed(e) == {[id |-> <<"pot", minted + n>>, amount |-> Stake[e]] : n \in 1..Ghosts[e]}

LEMMA SlashedAmount ==
    ASSUME minted \in Nat, NEW e \in Events
    PROVE  /\ IsFiniteSet(Slashed(e))
           /\ Cardinality(Slashed(e)) = Ghosts[e]
           /\ Slashed(e) \subseteq [id : {"pot"} \X (1..(minted + Ghosts[e])), amount : Nat \ {0}]
           /\ Slashed(e) \cap Holdings = {}
           /\ Amount(Slashed(e)) = Forfeited(e)
<1> DEFINE rec(n) == [id |-> <<"pot", minted + n>>, amount |-> Stake[e]]
           f == [n \in 1..Ghosts[e] |-> rec(n)]
<1>1. Ghosts[e] \in Nat /\ Stake[e] \in Nat \ {0}
  BY PotConstants
<1>2. \A n \in 1..Ghosts[e], m \in 1..Ghosts[e] : rec(n) = rec(m) => n = m
  <2> SUFFICES ASSUME NEW n \in 1..Ghosts[e], NEW m \in 1..Ghosts[e], rec(n) = rec(m)
               PROVE  n = m
    OBVIOUS
  <2>1. rec(n).id[2] = rec(m).id[2]
    OBVIOUS
  <2>2. rec(n).id[2] = minted + n /\ rec(m).id[2] = minted + m
    OBVIOUS
  <2> QED
    BY <1>1, <2>1, <2>2
<1>3. f \in Bijection(1..Ghosts[e], Slashed(e))
  <2>1. f \in [1..Ghosts[e] -> Slashed(e)]
    BY DEF Slashed
  <2>2. \A t \in Slashed(e) : \E n \in 1..Ghosts[e] : f[n] = t
    BY DEF Slashed
  <2>3. \A n, m \in 1..Ghosts[e] : f[n] = f[m] => n = m
    BY <1>2
  <2> QED
    BY <2>1, <2>2, <2>3 DEF Bijection, Injection, Surjection, IsInjective
<1>4. IsFiniteSet(1..Ghosts[e]) /\ Cardinality(1..Ghosts[e]) = Ghosts[e]
  BY <1>1, UpTo
<1>5. IsFiniteSet(Slashed(e)) /\ Cardinality(Slashed(e)) = Ghosts[e]
  BY <1>3, <1>4, FS_Bijection DEF ExistsBijection
<1>6. /\ Slashed(e) \subseteq [id : {"pot"} \X (1..(minted + Ghosts[e])), amount : Nat \ {0}]
      /\ Slashed(e) \cap Holdings = {}
      /\ \A h \in Slashed(e) : h.amount = Stake[e]
  BY <1>1 DEF Slashed, Holdings
<1>7. Amount(Slashed(e)) = Stake[e] * Cardinality(Slashed(e))
  <2> DEFINE g == [h \in Slashed(e) |-> h.amount]
  <2>1. \A h \in Slashed(e) : g[h] = h.amount /\ g[h] = Stake[e]
    BY <1>6
  <2> HIDE DEF g
  <2>2. Amount(Slashed(e)) = SumFunctionOnSet(g, Slashed(e))
    BY <1>5, <2>1, AmountIs
  <2> QED
    BY <1>1, <1>5, <2>1, <2>2, SumConstant
<1> QED
  BY <1>5, <1>6, <1>7 DEF Forfeited

-------------------------------------------------------------------------------
(* Types *)

LEMMA MoneyTypeInit == PotInit => MoneyTypeOK
BY PotConstants, FS_EmptySet DEF PotInit, MoneyTypeOK, RunnerOK, Transfers, Payouts, Holdings

(* What no runner and no receiver changes.                                   *)
LEMMA RowsOnly ==
    ASSUME Project \/ Reconnect \/ Restart \/ UNCHANGED potVars
    PROVE  UNCHANGED <<ledgerVars, runnerVars>>
BY DEF Project, Reconnect, Restart, potVars

LEMMA RunnerSame ==
    ASSUME MoneyTypeOK, NEW e \in Events,
           UNCHANGED <<step, due, payee, inputs>>,
           \A p \in Came[e] : payout'[<<e, p>>] = "none" <=> payout[<<e, p>>] = "none"
    PROVE  RunnerOK(e)'
BY DEF MoneyTypeOK, RunnerOK, Payees

(* The ids of new holdings are above those of all old ones.                  *)
LEMMA HoldingsGrow ==
    ASSUME minted \in Nat, minted' \in Nat, minted =< minted'
    PROVE  Holdings \subseteq Holdings'
BY DEF Holdings

LEMMA CloseType ==
    ASSUME MoneyTypeOK, NEW e \in Events, CloseEvent(e) PROVE MoneyTypeOK'
<1>1. /\ IsFiniteSet(Slashed(e)) /\ Cardinality(Slashed(e)) = Ghosts[e] /\ Ghosts[e] \in Nat
      /\ Slashed(e) \subseteq [id : {"pot"} \X (1..(minted + Ghosts[e])), amount : Nat \ {0}]
      /\ pot' = pot \cup Slashed(e)
      /\ minted' = minted + Cardinality(Slashed(e))
  BY SlashedAmount, PotConstants DEF MoneyTypeOK, CloseEvent, Exchange, Slashed
<1>2. minted' \in Nat /\ Holdings \subseteq Holdings' /\ Slashed(e) \subseteq Holdings'
  BY <1>1, HoldingsGrow DEF MoneyTypeOK, Holdings
<1>3. pot' \subseteq Holdings' /\ IsFiniteSet(pot')
  BY <1>1, <1>2, FS_Union DEF MoneyTypeOK
<1>4. /\ step[e] = "open" /\ step' = [step EXCEPT ![e] = "payout"]
      /\ due' = [due EXCEPT ![e] = Payees(e)]
      /\ UNCHANGED <<token, payout, payee, inputs, disturbed>>
  BY DEF CloseEvent
<1>5. RunnerOK(e)'
  BY <1>4 DEF MoneyTypeOK, RunnerOK, Payees
<1>6. \A f \in Events \ {e} : RunnerOK(f)'
  BY <1>4 DEF MoneyTypeOK, RunnerOK, Payees
<1> QED
  BY <1>2, <1>3, <1>4, <1>5, <1>6 DEF MoneyTypeOK

LEMMA GatherType ==
    ASSUME MoneyTypeOK, NEW e \in Events, NEW p \in due[e], Gather(e, p) PROVE MoneyTypeOK'
<1> USE DEF MoneyTypeOK, RunnerOK, Payees, Gather, ledgerVars, Holdings
<1>1. RunnerOK(e)'
  OBVIOUS
<1>2. \A f \in Events \ {e} : RunnerOK(f)'
  OBVIOUS
<1> QED
  BY <1>1, <1>2

(* A submission of e spends holdings H of its inputs.                        *)
LEMMA SpendType ==
    ASSUME MoneyTypeOK, NEW e \in Events, step[e] = "gathered",
           NEW H, H \subseteq inputs[e], H \subseteq pot, Amount(H) >= Needed(e),
           Exchange(H, Change(H, e))
    PROVE  /\ minted' \in Nat /\ Holdings \subseteq Holdings'
           /\ pot' \subseteq Holdings' /\ IsFiniteSet(pot')
           /\ Amount(pot') = Amount(pot) - Needed(e)
           /\ Amount(pot) \in Nat
<1>1. /\ H \subseteq Holdings /\ IsFiniteSet(H) /\ minted \in Nat
      /\ pot \subseteq Holdings /\ IsFiniteSet(pot)
  BY FS_Subset DEF MoneyTypeOK
<1>2. Needed(e) \in Nat
  BY AimedAt
<1> DEFINE N == Change(H, e)
<1>3. /\ IsFiniteSet(N) /\ Cardinality(N) \in {0, 1}
      /\ \A h \in N : h \in [id : {"pot"} \X (1..(minted + Cardinality(N))), amount : Nat \ {0}]
      /\ N \cap Holdings = {}
      /\ Amount(N) = Amount(H) - Needed(e)
  BY <1>1, <1>2, ChangeMade
<1> HIDE DEF N
<1>4. pot' = (pot \ H) \cup N /\ minted' = minted + Cardinality(N)
  BY DEF Exchange, N
<1>5. minted' \in Nat /\ minted =< minted'
  BY <1>1, <1>3, <1>4
<1>6. Holdings \subseteq Holdings' /\ N \subseteq Holdings'
  BY <1>1, <1>3, <1>4, <1>5, HoldingsGrow DEF Holdings
<1>7. \A h \in pot \cup N : h.amount \in Nat
  BY <1>1, <1>3 DEF Holdings
<1>8. pot \cap N = {}
  BY <1>1, <1>3
<1>9. IsFiniteSet(pot') /\ Amount(pot') = (Amount(pot) - Amount(H)) + Amount(N)
  BY <1>1, <1>3, <1>4, <1>7, <1>8, Exchanged
<1>10. Amount(pot) \in Nat /\ Amount(H) \in Nat
  BY <1>1, HoldingsAmounts, AmountNat
<1> QED
  BY <1>1, <1>2, <1>3, <1>4, <1>5, <1>6, <1>9, <1>10

LEMMA DisturbsPayouts ==
    ASSUME MoneyTypeOK, NEW e, NEW H PROVE Disturbs(H, e) \subseteq Payouts
BY AimedAt DEF Disturbs

LEMMA TransferType ==
    ASSUME MoneyTypeOK, NEW e \in Events, Transfer(e) PROVE MoneyTypeOK'
<1> DEFINE i == <<e, payee[e]>>
           to == IF token = "oneStep" THEN "payout" ELSE "accepting"
           st == IF token = "oneStep" THEN "accepted" ELSE "pending"
<1>1. /\ step[e] = "gathered" /\ inputs[e] \subseteq pot
      /\ Amount(inputs[e]) >= Needed(e)
      /\ Exchange(inputs[e], Change(inputs[e], e))
      /\ payout' = [payout EXCEPT ![i] = st]
      /\ step' = [step EXCEPT ![e] = to]
      /\ due' = [due EXCEPT ![e] = @ \ {payee[e]}]
      /\ disturbed' = disturbed \cup Disturbs(inputs[e], e)
      /\ inputs' = [inputs EXCEPT ![e] = {}]
      /\ payee' = [payee EXCEPT ![e] = IF token = "oneStep" THEN NoPayee ELSE @]
      /\ UNCHANGED token
  BY DEF Transfer
<1>2. /\ minted' \in Nat /\ Holdings \subseteq Holdings'
      /\ pot' \subseteq Holdings' /\ IsFiniteSet(pot')
  BY <1>1, SpendType
<1>3. payee[e] \in due[e] /\ due[e] \subseteq Payees(e) /\ Payees(e) \subseteq Came[e]
  BY <1>1 DEF MoneyTypeOK, RunnerOK, Payees
<1>4. i \in Transfers /\ Share(e) > 0
  BY <1>3 DEF Transfers, Payouts, Payees
<1>5. RunnerOK(e)'
  BY <1>1, <1>3, <1>4 DEF MoneyTypeOK, RunnerOK, Payees
<1>6. \A f \in Events \ {e} : RunnerOK(f)'
  BY <1>1 DEF MoneyTypeOK, RunnerOK, Payees
<1>7. disturbed' \subseteq Payouts
  BY <1>1, DisturbsPayouts DEF MoneyTypeOK
<1>8. \A f \in Events : inputs'[f] \subseteq Holdings' /\ IsFiniteSet(inputs'[f])
  BY <1>1, <1>2, FS_EmptySet DEF MoneyTypeOK
<1> HIDE DEF i
<1> QED
  BY <1>1, <1>2, <1>4, <1>5, <1>6, <1>7, <1>8 DEF MoneyTypeOK

LEMMA MintType ==
    ASSUME MoneyTypeOK, NEW e \in Events, NEW H, Mint(e, H) PROVE MoneyTypeOK'
<1>1. /\ step[e] = "gathered" /\ H \subseteq inputs[e] /\ H \subseteq pot
      /\ token = "demo"
      /\ Amount(H) >= Needed(e)
      /\ Exchange(H, Change(H, e))
      /\ payout' = [j \in Transfers |-> IF j \in Aimed(e) THEN "accepted" ELSE payout[j]]
      /\ step' = [step EXCEPT ![e] = "payout"]
      /\ due' = [due EXCEPT ![e] = {}]
      /\ disturbed' = disturbed \cup Disturbs(H, e)
      /\ inputs' = [inputs EXCEPT ![e] = {}]
      /\ payee' = [payee EXCEPT ![e] = NoPayee]
      /\ UNCHANGED token
  BY DEF Mint, Picks
<1>2. /\ minted' \in Nat /\ Holdings \subseteq Holdings'
      /\ pot' \subseteq Holdings' /\ IsFiniteSet(pot')
  BY <1>1, SpendType
<1>3. /\ due[e] \subseteq Payees(e) /\ Payees(e) \subseteq Came[e]
      /\ Aimed(e) = {e} \X due[e] /\ Share(e) > 0
  BY <1>1, AimedAt DEF MoneyTypeOK, RunnerOK, Payees
<1>4. \A f \in Events : \A p \in Came[f] : <<f, p>> \in Transfers
  BY DEF Transfers, Payouts
<1>5. RunnerOK(e)'
  BY <1>1, <1>3, <1>4 DEF MoneyTypeOK, RunnerOK, Payees
<1>6. \A f \in Events \ {e} : RunnerOK(f)'
  BY <1>1, <1>3, <1>4 DEF MoneyTypeOK, RunnerOK, Payees
<1>7. disturbed' \subseteq Payouts
  BY <1>1, DisturbsPayouts DEF MoneyTypeOK
<1>8. \A f \in Events : inputs'[f] \subseteq Holdings' /\ IsFiniteSet(inputs'[f])
  BY <1>1, <1>2, FS_EmptySet DEF MoneyTypeOK
<1> QED
  BY <1>1, <1>2, <1>5, <1>6, <1>7, <1>8 DEF MoneyTypeOK

(* A submission that fails, or a request that dies.                          *)
LEMMA GivesUpType ==
    ASSUME MoneyTypeOK, NEW e \in Events, PayoutFails(e) \/ Die(e) PROVE MoneyTypeOK'
<1>1. /\ step[e] # "open"
      /\ UNCHANGED ledgerVars
      /\ step' = [step EXCEPT ![e] = "payout"]
      /\ due'[e] \subseteq due[e] /\ \A f \in Events \ {e} : due'[f] = due[f]
      /\ DOMAIN due' = Events
      /\ inputs' = [inputs EXCEPT ![e] = {}]
      /\ payee' = [payee EXCEPT ![e] = NoPayee]
  <2>1. CASE PayoutFails(e)
    BY <2>1 DEF PayoutFails, MoneyTypeOK, ledgerVars
  <2>2. CASE Die(e)
    BY <2>2 DEF Die, MoneyTypeOK, ledgerVars
  <2> QED
    BY <2>1, <2>2
<1>2. disturbed' \subseteq Payouts
  <2>1. CASE PayoutFails(e)
    BY <2>1, AimedAt DEF PayoutFails, MoneyTypeOK
  <2>2. CASE Die(e)
    BY <2>2 DEF Die, MoneyTypeOK, RunnerOK, Payees, Payouts
  <2> QED
    BY <2>1, <2>2
<1>3. RunnerOK(e)'
  BY <1>1 DEF MoneyTypeOK, RunnerOK, Payees, ledgerVars
<1>4. \A f \in Events \ {e} : RunnerOK(f)'
  BY <1>1 DEF MoneyTypeOK, RunnerOK, Payees, ledgerVars
<1>5. \A f \in Events : inputs'[f] \subseteq Holdings' /\ IsFiniteSet(inputs'[f])
  BY <1>1, FS_EmptySet DEF MoneyTypeOK, ledgerVars, Holdings
<1> QED
  BY <1>1, <1>2, <1>3, <1>4, <1>5 DEF MoneyTypeOK, ledgerVars, Holdings

LEMMA ArriveType ==
    ASSUME MoneyTypeOK, Arrive PROVE MoneyTypeOK'
<1>1. /\ payout' = [payout EXCEPT ![Deposit] = "pending"]
      /\ UNCHANGED <<token, pot, minted, runnerVars>>
  BY DEF Arrive
<1>2. \A e \in Events : \A p \in Came[e] : payout'[<<e, p>>] = payout[<<e, p>>]
  BY <1>1, PotConstants DEF MoneyTypeOK, Transfers, Payouts
<1>3. \A e \in Events : RunnerOK(e)'
  BY <1>1, <1>2, RunnerSame DEF runnerVars
<1> QED
  BY <1>1, <1>3 DEF MoneyTypeOK, Holdings, runnerVars, Transfers

(* A pending transfer is settled one way or the other.                       *)
LEMMA SettlesStatus ==
    ASSUME MoneyTypeOK, NEW i \in Transfers, payout[i] = "pending",
           NEW s \in {"accepted", "rejected"}, payout' = [payout EXCEPT ![i] = s]
    PROVE  /\ payout' \in [Transfers -> {"none", "pending", "accepted", "rejected"}]
           /\ \A e \in Events : \A p \in Came[e] :
                 payout'[<<e, p>>] = "none" <=> payout[<<e, p>>] = "none"
BY DEF MoneyTypeOK

LEMMA AcceptType ==
    ASSUME MoneyTypeOK, NEW i \in Transfers, Accept(i) PROVE MoneyTypeOK'
<1>1. /\ payout[i] = "pending" /\ payout' = [payout EXCEPT ![i] = "accepted"]
      /\ UNCHANGED <<token, pot, minted, runnerVars>>
  BY DEF Accept, Accepted
<1>2. \A e \in Events : RunnerOK(e)'
  BY <1>1, SettlesStatus, RunnerSame DEF runnerVars
<1> QED
  BY <1>1, <1>2, SettlesStatus DEF MoneyTypeOK, Holdings, runnerVars

LEMMA AcceptPayoutType ==
    ASSUME MoneyTypeOK, NEW e \in Events, AcceptPayout(e) PROVE MoneyTypeOK'
<1> DEFINE i == <<e, payee[e]>>
<1>1. /\ step[e] = "accepting"
      /\ step' = [step EXCEPT ![e] = "payout"]
      /\ payee' = [payee EXCEPT ![e] = NoPayee]
      /\ UNCHANGED <<token, pot, minted, due, inputs, disturbed>>
  BY DEF AcceptPayout, Accepted, ledgerVars
<1>2. i \in Transfers
  BY <1>1 DEF MoneyTypeOK, RunnerOK, Transfers, Payouts
<1>3. /\ payout' \in [Transfers -> {"none", "pending", "accepted", "rejected"}]
      /\ \A f \in Events : \A p \in Came[f] :
            payout'[<<f, p>>] = "none" <=> payout[<<f, p>>] = "none"
  <2>1. CASE UNCHANGED ledgerVars
    BY <2>1 DEF MoneyTypeOK, ledgerVars
  <2>2. CASE Accepted(i)
    BY <2>2, <1>2, SettlesStatus DEF Accepted
  <2> QED
    BY <2>1, <2>2 DEF AcceptPayout
<1>4. \A f \in Events : RunnerOK(f)'
  BY <1>1, <1>3 DEF MoneyTypeOK, RunnerOK, Payees
<1> QED
  BY <1>1, <1>3, <1>4 DEF MoneyTypeOK, Holdings

(* The amount of a payout that is refused is a holding of the pot again.     *)
LEMMA RejectFacts ==
    ASSUME MoneyTypeOK, NEW i \in Payouts, Reject(i)
    PROVE  /\ minted' \in Nat /\ Holdings \subseteq Holdings'
           /\ pot' \subseteq Holdings' /\ IsFiniteSet(pot')
           /\ Amount(pot') = Amount(pot) + Share(i[1])
           /\ Share(i[1]) \in Nat
           /\ pot \subseteq pot'
<1> DEFINE h == [id |-> <<"pot", minted + 1>>, amount |-> Share(i[1])]
<1>1. PICK e \in Events : \E p \in Came[e] : i = <<e, p>>
  BY DEF Payouts
<1>2. payout[i] # "none"
  BY DEF Reject
<1>3. Share(i[1]) \in Nat \ {0}
  BY <1>1, <1>2, SharesFit DEF MoneyTypeOK, RunnerOK
<1>4. IsFiniteSet({h}) /\ Cardinality({h}) = 1
  BY FS_Singleton
<1>5. pot' = pot \cup {h} /\ minted' = minted + 1
  BY <1>4 DEF Reject, Exchange
<1>6. minted \in Nat /\ pot \subseteq Holdings /\ IsFiniteSet(pot)
  BY DEF MoneyTypeOK
<1>7. minted' \in Nat /\ Holdings \subseteq Holdings' /\ h \in Holdings'
  BY <1>3, <1>5, <1>6, HoldingsGrow DEF Holdings
<1>8. h \notin Holdings /\ h.amount = Share(i[1])
  BY <1>6 DEF Holdings
<1>9. pot \cap {h} = {}
  BY <1>6, <1>8
<1>10. \A g \in pot \cup {h} : g.amount \in Nat
  BY <1>3, <1>6, <1>8 DEF Holdings
<1> HIDE DEF h
<1>11. Amount(pot') = Amount(pot) + Amount({h}) /\ IsFiniteSet(pot')
  BY <1>4, <1>5, <1>6, <1>9, <1>10, AmountUnion, FS_Union
<1>12. Amount({h}) = Share(i[1])
  BY <1>3, <1>8, AmountOne
<1> QED
  BY <1>3, <1>5, <1>6, <1>7, <1>11, <1>12

LEMMA RejectType ==
    ASSUME MoneyTypeOK, NEW i \in Payouts, Reject(i) PROVE MoneyTypeOK'
<1>1. /\ payout[i] = "pending" /\ payout' = [payout EXCEPT ![i] = "rejected"]
      /\ UNCHANGED <<token, runnerVars>>
  BY DEF Reject
<1>2. i \in Transfers
  BY DEF Transfers
<1>3. \A e \in Events : RunnerOK(e)'
  BY <1>1, <1>2, SettlesStatus, RunnerSame DEF runnerVars
<1> QED
  BY <1>1, <1>2, <1>3, SettlesStatus, RejectFacts DEF MoneyTypeOK, runnerVars

LEMMA MoneyTypeStep ==
    ASSUME MoneyTypeOK, [PotNext]_potVars PROVE MoneyTypeOK'
<1>1. ASSUME UNCHANGED <<ledgerVars, runnerVars>> PROVE MoneyTypeOK'
  BY <1>1 DEF MoneyTypeOK, RunnerOK, Payees, Holdings, ledgerVars, runnerVars
<1>2. ASSUME NEW e \in Events, Runner(e) PROVE MoneyTypeOK'
  BY <1>2, CloseType, GatherType, TransferType, MintType, GivesUpType, AcceptPayoutType
     DEF Runner
<1> QED
  BY <1>1, <1>2, ArriveType, AcceptType, RejectType, RowsOnly DEF PotNext

-------------------------------------------------------------------------------
(* No payout makes or loses money *)

ShareOf   == [i \in Payouts |-> Share(i[1])]
ForfeitOf == [e \in Events |-> Forfeited(e)]
OwedOf(d) == [e \in Events |-> IF d[e] = {} THEN 0 ELSE Share(e) * Cardinality(d[e])]

LEMMA PaidSum ==
    ASSUME NEW S \in SUBSET Payouts
    PROVE  /\ IsFiniteSet(S)
           /\ \A i \in S : ShareOf[i] = Share(i[1]) /\ ShareOf[i] \in Nat
           /\ SumFunction([i \in S |-> Share(i[1])]) = SumFunctionOnSet(ShareOf, S)
<1>1. IsFiniteSet(S)
  BY PayoutsFinite, FS_Subset
<1>2. \A i \in S : ShareOf[i] = Share(i[1]) /\ ShareOf[i] \in Nat
  BY SharesFit DEF ShareOf, Payouts
<1> DEFINE f == [i \in S |-> Share(i[1])]
<1>3. \A i \in S : f[i] = ShareOf[i]
  BY <1>2
<1>4. SumFunction(f) = SumFunctionOnSet(f, S)
  BY DEF SumFunction
<1> HIDE DEF f
<1>5. SumFunctionOnSet(f, S) = SumFunctionOnSet(ShareOf, S)
  BY <1>1, <1>3, SumSame
<1> QED
  BY <1>1, <1>2, <1>4, <1>5 DEF f

LEMMA ForfeitSum ==
    ASSUME NEW C \in SUBSET Events
    PROVE  /\ IsFiniteSet(C)
           /\ \A e \in C : ForfeitOf[e] = Forfeited(e) /\ ForfeitOf[e] \in Nat
           /\ SumFunction([e \in C |-> Forfeited(e)]) = SumFunctionOnSet(ForfeitOf, C)
<1>1. IsFiniteSet(C)
  BY PotConstants, FS_Subset
<1>2. \A e \in C : ForfeitOf[e] = Forfeited(e) /\ ForfeitOf[e] \in Nat
  BY ForfeitedNat DEF ForfeitOf
<1> DEFINE f == [e \in C |-> Forfeited(e)]
<1>3. \A e \in C : f[e] = ForfeitOf[e]
  BY <1>2
<1>4. SumFunction(f) = SumFunctionOnSet(f, C)
  BY DEF SumFunction
<1> HIDE DEF f
<1>5. SumFunctionOnSet(f, C) = SumFunctionOnSet(ForfeitOf, C)
  BY <1>1, <1>3, SumSame
<1> QED
  BY <1>1, <1>2, <1>4, <1>5 DEF f

(* An event that is open owes nothing, so what is owed may be added up over  *)
(* all events.                                                               *)
LEMMA OwedSum ==
    ASSUME NEW d, \A e \in Events : d[e] \subseteq Payees(e),
           NEW C \in SUBSET Events, \A e \in Events \ C : d[e] = {}
    PROVE  /\ \A e \in Events : OwedOf(d)[e] \in Nat
           /\ SumFunction([e \in C |-> IF d[e] = {} THEN 0 ELSE Share(e) * Cardinality(d[e])])
                = SumFunctionOnSet(OwedOf(d), Events)
<1>1. IsFiniteSet(C) /\ IsFiniteSet(Events) /\ IsFiniteSet(Events \ C)
  BY PotConstants, FS_Subset, FS_Difference
<1>2. \A e \in Events : OwedOf(d)[e] \in Nat
  <2> SUFFICES ASSUME NEW e \in Events PROVE OwedOf(d)[e] \in Nat
    OBVIOUS
  <2>1. CASE d[e] = {}
    BY <2>1 DEF OwedOf
  <2>2. CASE d[e] # {}
    <3>1. Share(e) \in Nat /\ Cardinality(d[e]) \in Nat
      BY <2>2, SharesFit, PayeesFinite DEF Payees
    <3>2. Share(e) * Cardinality(d[e]) \in Nat
      BY <3>1
    <3> QED
      BY <2>2, <3>2 DEF OwedOf
  <2> QED
    BY <2>1, <2>2
<1> DEFINE f == [e \in C |-> IF d[e] = {} THEN 0 ELSE Share(e) * Cardinality(d[e])]
           g == OwedOf(d)
           R == Events \ C
<1>3. (\A e \in C : f[e] = g[e]) /\ (\A e \in R : g[e] = 0)
  BY DEF OwedOf
<1>4. SumFunction(f) = SumFunctionOnSet(f, C)
  BY DEF SumFunction
<1> HIDE DEF f, g, R
<1>5. SumFunctionOnSet(f, C) = SumFunctionOnSet(g, C)
  BY <1>1, <1>3, SumSame
<1>6. SumFunctionOnSet(g, R) = 0 * Cardinality(R)
  BY <1>1, <1>3, SumConstant DEF R
<1>7. SumFunctionOnSet(g, Events) = SumFunctionOnSet(g, R) + SumFunctionOnSet(g, C)
  BY <1>1, <1>2, SumPart DEF R, g
<1>8. SumFunctionOnSet(g, C) \in Nat /\ Cardinality(R) \in Nat
  BY <1>1, <1>2, SumNat, FS_CardinalityType DEF g, R
<1>9. SumFunctionOnSet(g, Events) = SumFunctionOnSet(g, C)
  BY <1>6, <1>7, <1>8
<1> QED
  BY <1>2, <1>4, <1>5, <1>9 DEF f, g

(* NothingLost and PotCovers with the sums in this form.                     *)
MoneyFacts ==
    /\ NothingLost <=> Amount(pot) + SumFunctionOnSet(ShareOf, PaidOut)
                         = SumFunctionOnSet(ForfeitOf, Closed)
    /\ PotCovers <=> SumFunctionOnSet(OwedOf(due), Events) =< Amount(pot)
    /\ Amount(pot) \in Nat
    /\ SumFunctionOnSet(ShareOf, PaidOut) \in Nat
    /\ SumFunctionOnSet(ForfeitOf, Closed) \in Nat
    /\ SumFunctionOnSet(OwedOf(due), Events) \in Nat
    /\ \A e \in Events : OwedOf(due)[e] \in Nat

LEMMA MoneyRead == MoneyTypeOK => MoneyFacts
<1> SUFFICES ASSUME MoneyTypeOK PROVE MoneyFacts
  OBVIOUS
<1>1. PaidOut \in SUBSET Payouts /\ Closed \in SUBSET Events
  BY DEF PaidOut, Closed
<1>2. (\A e \in Events : due[e] \subseteq Payees(e)) /\ (\A e \in Events \ Closed : due[e] = {})
  BY DEF MoneyTypeOK, RunnerOK, Closed
<1>3. NothingLost <=> Amount(pot) + SumFunctionOnSet(ShareOf, PaidOut)
                        = SumFunctionOnSet(ForfeitOf, Closed)
  BY <1>1, PaidSum, ForfeitSum DEF NothingLost
<1>4. /\ PotCovers <=> SumFunctionOnSet(OwedOf(due), Events) =< Amount(pot)
      /\ \A e \in Events : OwedOf(due)[e] \in Nat
  BY <1>1, <1>2, OwedSum DEF PotCovers
<1>5. Amount(pot) \in Nat
  BY HoldingsAmounts, AmountNat DEF MoneyTypeOK
<1>6. SumFunctionOnSet(ShareOf, PaidOut) \in Nat /\ SumFunctionOnSet(ForfeitOf, Closed) \in Nat
  BY <1>1, PaidSum, ForfeitSum, SumNat
<1>7. SumFunctionOnSet(OwedOf(due), Events) \in Nat
  BY <1>4, PotConstants, SumNat
<1> QED
  BY <1>3, <1>4, <1>5, <1>6, <1>7 DEF MoneyFacts

LEMMA MoneyReadNext == MoneyTypeOK' => MoneyFacts'
BY MoneyRead, PTL

(* What one event owes changes.                                              *)
LEMMA OwedChange ==
    ASSUME MoneyTypeOK, MoneyTypeOK', NEW e \in Events,
           \A f \in Events \ {e} : due'[f] = due[f]
    PROVE  /\ SumFunctionOnSet(OwedOf(due'), Events) - OwedOf(due')[e]
                = SumFunctionOnSet(OwedOf(due), Events) - OwedOf(due)[e]
           /\ OwedOf(due')[e] \in Nat /\ OwedOf(due)[e] \in Nat
           /\ SumFunctionOnSet(OwedOf(due'), Events) \in Nat
           /\ SumFunctionOnSet(OwedOf(due), Events) \in Nat
<1>1. /\ \A f \in Events : OwedOf(due)[f] \in Nat
      /\ \A f \in Events : OwedOf(due')[f] \in Nat
      /\ SumFunctionOnSet(OwedOf(due'), Events) \in Nat
      /\ SumFunctionOnSet(OwedOf(due), Events) \in Nat
  BY MoneyRead, MoneyReadNext DEF MoneyFacts
<1>2. \A f \in Events \ {e} : OwedOf(due)[f] = OwedOf(due')[f]
  BY DEF OwedOf
<1> QED
  BY <1>1, <1>2, PotConstants, SumChange

LEMMA OwedSame ==
    ASSUME UNCHANGED due
    PROVE  SumFunctionOnSet(OwedOf(due'), Events) = SumFunctionOnSet(OwedOf(due), Events)
OBVIOUS

LEMMA CloseMoney ==
    ASSUME MoneyTypeOK, MoneyTypeOK', NothingLost, PotCovers, NEW e \in Events, CloseEvent(e)
    PROVE  NothingLost' /\ PotCovers'
<1>1. /\ IsFiniteSet(Slashed(e)) /\ Slashed(e) \cap Holdings = {}
      /\ Slashed(e) \subseteq [id : {"pot"} \X (1..(minted + Ghosts[e])), amount : Nat \ {0}]
      /\ Amount(Slashed(e)) = Forfeited(e)
      /\ pot' = pot \cup Slashed(e)
  BY SlashedAmount DEF MoneyTypeOK, CloseEvent, Exchange, Slashed
<1>2. Amount(pot') = Amount(pot) + Forfeited(e)
  <2>1. pot \cap Slashed(e) = {} /\ IsFiniteSet(pot)
    BY <1>1 DEF MoneyTypeOK
  <2>2. \A h \in pot \cup Slashed(e) : h.amount \in Nat
    BY <1>1 DEF MoneyTypeOK, Holdings
  <2> QED
    BY <1>1, <2>1, <2>2, AmountUnion
<1>3. /\ step[e] = "open" /\ step' = [step EXCEPT ![e] = "payout"]
      /\ due' = [due EXCEPT ![e] = Payees(e)]
      /\ UNCHANGED payout
  BY DEF CloseEvent
<1>4. PaidOut' = PaidOut
  BY <1>3 DEF PaidOut
<1>5. Closed' = Closed \cup {e} /\ e \notin Closed
  BY <1>3 DEF Closed, MoneyTypeOK
<1>6. SumFunctionOnSet(ForfeitOf, Closed')
        = Forfeited(e) + SumFunctionOnSet(ForfeitOf, Closed)
  <2>1. Closed \in SUBSET Events /\ Closed \cup {e} \in SUBSET Events
    BY DEF Closed
  <2>2. ForfeitOf[e] = Forfeited(e)
    BY DEF ForfeitOf
  <2>3. IsFiniteSet(Closed) /\ \A y \in Closed \cup {e} : ForfeitOf[y] \in Nat
    BY <2>1, ForfeitSum
  <2>4. SumFunctionOnSet(ForfeitOf, Closed \cup {e})
          = ForfeitOf[e] + SumFunctionOnSet(ForfeitOf, Closed)
    BY <1>5, <2>3, SumAdd
  <2> QED
    BY <1>5, <2>2, <2>4
<1>7. OwedOf(due')[e] =< Forfeited(e)
  <2>1. due'[e] = Payees(e)
    BY <1>3 DEF MoneyTypeOK
  <2>2. CASE Payees(e) = {}
    BY <2>1, <2>2, ForfeitedNat DEF OwedOf
  <2>3. CASE Payees(e) # {}
    <3>1. Payees(e) \subseteq Came[e] /\ Came[e] # {} /\ IsFiniteSet(Came[e])
      BY <2>3, PotConstants DEF Payees
    <3>2. /\ Cardinality(Payees(e)) =< Cardinality(Came[e])
          /\ Cardinality(Payees(e)) \in Nat
      BY <3>1, FS_Subset, FS_CardinalityType
    <3>3. /\ Share(e) \in Nat /\ Cardinality(Came[e]) \in Nat /\ Forfeited(e) \in Nat
          /\ Share(e) * Cardinality(Came[e]) =< Forfeited(e)
      BY <3>1, SharesFit, ForfeitedNat
    <3>4. Share(e) * Cardinality(Payees(e)) =< Share(e) * Cardinality(Came[e])
      BY <3>2, <3>3
    <3>5. OwedOf(due')[e] = Share(e) * Cardinality(Payees(e))
      BY <2>1, <2>3 DEF OwedOf
    <3>6. Share(e) * Cardinality(Payees(e)) \in Nat /\ Share(e) * Cardinality(Came[e]) \in Nat
      BY <3>2, <3>3
    <3> QED
      BY <3>3, <3>4, <3>5, <3>6
  <2> QED
    BY <2>2, <2>3
<1>8. OwedOf(due)[e] = 0
  BY <1>3 DEF MoneyTypeOK, RunnerOK, OwedOf
<1>9. \A f \in Events \ {e} : due'[f] = due[f]
  BY <1>3 DEF MoneyTypeOK
<1>10. Forfeited(e) \in Nat
  BY ForfeitedNat
<1>11. NothingLost'
  BY <1>2, <1>4, <1>6, <1>10, MoneyRead, MoneyReadNext DEF MoneyFacts
<1>12. PotCovers'
  BY <1>2, <1>7, <1>8, <1>9, <1>10, OwedChange, MoneyRead, MoneyReadNext DEF MoneyFacts
<1> QED
  BY <1>11, <1>12

LEMMA TransferMoney ==
    ASSUME MoneyTypeOK, MoneyTypeOK', NothingLost, PotCovers, NEW e \in Events, Transfer(e)
    PROVE  NothingLost' /\ PotCovers'
<1> DEFINE i == <<e, payee[e]>>
           st == IF token = "oneStep" THEN "accepted" ELSE "pending"
<1>1. /\ step[e] = "gathered" /\ inputs[e] \subseteq pot /\ token # "demo"
      /\ Amount(inputs[e]) >= Needed(e)
      /\ Exchange(inputs[e], Change(inputs[e], e))
      /\ payout' = [payout EXCEPT ![i] = st]
      /\ \E to \in {"payout", "accepting"} : step' = [step EXCEPT ![e] = to]
      /\ due' = [due EXCEPT ![e] = @ \ {payee[e]}]
  BY DEF Transfer
<1>2. /\ Amount(pot') = Amount(pot) - Share(e)
      /\ Amount(pot) \in Nat /\ Share(e) \in Nat
  BY <1>1, SpendType, AimedAt
<1>3. payee[e] \in due[e] /\ due[e] \subseteq Payees(e) /\ payout[i] = "none" /\ i \in Payouts
  BY <1>1 DEF MoneyTypeOK, RunnerOK, Payees, Payouts
<1>4. PaidOut' = PaidOut \cup {i} /\ i \notin PaidOut
  BY <1>1, <1>3 DEF MoneyTypeOK, PaidOut, Transfers
<1>5. Closed' = Closed
  BY <1>1 DEF MoneyTypeOK, Closed
<1>6. SumFunctionOnSet(ShareOf, PaidOut') = Share(e) + SumFunctionOnSet(ShareOf, PaidOut)
  <2>1. PaidOut \in SUBSET Payouts /\ PaidOut \cup {i} \in SUBSET Payouts
    BY <1>3 DEF PaidOut
  <2>2. ShareOf[i] = Share(e)
    BY <1>3 DEF ShareOf
  <2> HIDE DEF i
  <2>3. IsFiniteSet(PaidOut) /\ \A j \in PaidOut \cup {i} : ShareOf[j] \in Nat
    BY <2>1, PaidSum
  <2>4. SumFunctionOnSet(ShareOf, PaidOut \cup {i})
          = ShareOf[i] + SumFunctionOnSet(ShareOf, PaidOut)
    BY <1>4, <2>3, SumAdd
  <2> QED
    BY <1>4, <2>2, <2>4
<1>7. OwedOf(due')[e] = OwedOf(due)[e] - Share(e)
  <2>1. due'[e] = due[e] \ {payee[e]}
    BY <1>1 DEF MoneyTypeOK
  <2>2. IsFiniteSet(due[e]) /\ Cardinality(due[e]) \in Nat
    BY <1>3, PayeesFinite
  <2>3. Cardinality(due'[e]) = Cardinality(due[e]) - 1 /\ Cardinality(due'[e]) \in Nat
    BY <1>3, <2>1, <2>2, FS_RemoveElement, FS_CardinalityType
  <2>4. due'[e] = {} => Cardinality(due'[e]) = 0
    BY FS_EmptySet
  <2>5. OwedOf(due)[e] = Share(e) * Cardinality(due[e])
    BY <1>3 DEF OwedOf
  <2>6. OwedOf(due')[e] = Share(e) * Cardinality(due'[e])
    BY <1>2, <2>4 DEF OwedOf
  <2>7. \A n \in Nat, m \in Nat : n * (m - 1) = n * m - n
    OBVIOUS
  <2> QED
    BY <1>2, <2>2, <2>3, <2>5, <2>6, <2>7
<1>8. \A f \in Events \ {e} : due'[f] = due[f]
  BY <1>1 DEF MoneyTypeOK
<1>9. NothingLost'
  BY <1>2, <1>5, <1>6, MoneyRead, MoneyReadNext DEF MoneyFacts
<1>10. PotCovers'
  BY <1>2, <1>7, <1>8, OwedChange, MoneyRead, MoneyReadNext DEF MoneyFacts
<1> QED
  BY <1>9, <1>10

LEMMA MintMoney ==
    ASSUME MoneyTypeOK, MoneyTypeOK', NothingLost, PotCovers,
           NEW e \in Events, NEW H, Mint(e, H)
    PROVE  NothingLost' /\ PotCovers'
<1>1. /\ step[e] = "gathered" /\ H \subseteq inputs[e] /\ H \subseteq pot
      /\ token = "demo"
      /\ Amount(H) >= Needed(e)
      /\ Exchange(H, Change(H, e))
      /\ payout' = [j \in Transfers |-> IF j \in Aimed(e) THEN "accepted" ELSE payout[j]]
      /\ step' = [step EXCEPT ![e] = "payout"]
      /\ due' = [due EXCEPT ![e] = {}]
  BY DEF Mint, Picks
<1> DEFINE P == {e} \X due[e]
           cost == Share(e) * Cardinality(due[e])
<1>2. /\ Aimed(e) = P /\ Needed(e) = cost /\ cost \in Nat /\ P \subseteq Payouts
      /\ Cardinality(due[e]) \in Nat \ {0} /\ Share(e) \in Nat
  BY <1>1, AimedAt
<1>3. Amount(pot') = Amount(pot) - cost /\ Amount(pot) \in Nat
  BY <1>1, <1>2, SpendType
<1>4. \A i \in P : i \in Transfers /\ payout[i] = "none"
  BY <1>1 DEF MoneyTypeOK, RunnerOK, Transfers, Payouts, Payees
<1>5. PaidOut' = PaidOut \cup P /\ PaidOut \cap P = {}
  BY <1>1, <1>2, <1>4 DEF PaidOut, Transfers
<1>6. Closed' = Closed
  BY <1>1 DEF MoneyTypeOK, Closed
<1>7. SumFunctionOnSet(ShareOf, PaidOut') = SumFunctionOnSet(ShareOf, PaidOut) + cost
  <2>1. PaidOut \in SUBSET Payouts /\ P \in SUBSET Payouts
    BY <1>2 DEF PaidOut
  <2>2. /\ IsFiniteSet(PaidOut) /\ IsFiniteSet(P)
        /\ \A i \in PaidOut \cup P : ShareOf[i] \in Nat
    BY <2>1, PaidSum
  <2>3. \A i \in P : ShareOf[i] = Share(e)
    BY <2>1 DEF ShareOf
  <2>4. Cardinality(P) = Cardinality(due[e])
    BY PayeesFinite DEF MoneyTypeOK, RunnerOK
  <2> HIDE DEF P
  <2>5. SumFunctionOnSet(ShareOf, P) = Share(e) * Cardinality(P)
    BY <1>2, <2>2, <2>3, SumConstant
  <2>6. SumFunctionOnSet(ShareOf, PaidOut \cup P)
          = SumFunctionOnSet(ShareOf, PaidOut) + SumFunctionOnSet(ShareOf, P)
    BY <1>5, <2>2, SumUnion
  <2> QED
    BY <1>5, <2>4, <2>5, <2>6
<1>8. OwedOf(due')[e] = 0 /\ OwedOf(due)[e] = cost
  <2>1. due'[e] = {} /\ due[e] # {}
    BY <1>1 DEF MoneyTypeOK, RunnerOK
  <2> QED
    BY <2>1 DEF OwedOf
<1>9. \A f \in Events \ {e} : due'[f] = due[f]
  BY <1>1 DEF MoneyTypeOK
<1> HIDE DEF cost, P
<1>10. NothingLost'
  BY <1>2, <1>3, <1>6, <1>7, MoneyRead, MoneyReadNext DEF MoneyFacts
<1>11. PotCovers'
  BY <1>2, <1>3, <1>8, <1>9, OwedChange, MoneyRead, MoneyReadNext DEF MoneyFacts
<1> QED
  BY <1>10, <1>11

LEMMA GivesUpMoney ==
    ASSUME MoneyTypeOK, MoneyTypeOK', NothingLost, PotCovers,
           NEW e \in Events, PayoutFails(e) \/ Die(e)
    PROVE  NothingLost' /\ PotCovers'
<1>1. /\ step[e] # "open" /\ step' = [step EXCEPT ![e] = "payout"]
      /\ due'[e] \subseteq due[e] /\ \A f \in Events \ {e} : due'[f] = due[f]
      /\ UNCHANGED <<pot, payout>>
  <2>1. CASE PayoutFails(e)
    BY <2>1 DEF PayoutFails, MoneyTypeOK, ledgerVars
  <2>2. CASE Die(e)
    BY <2>2 DEF Die, MoneyTypeOK, ledgerVars
  <2> QED
    BY <2>1, <2>2
<1>2. PaidOut' = PaidOut /\ Closed' = Closed /\ Amount(pot') = Amount(pot)
  BY <1>1 DEF PaidOut, Closed, MoneyTypeOK
<1>3. OwedOf(due')[e] =< OwedOf(due)[e]
  <2>1. due[e] \subseteq Payees(e) /\ due'[e] \subseteq Payees(e)
    BY <1>1 DEF MoneyTypeOK, RunnerOK
  <2>2. OwedOf(due')[e] \in Nat /\ OwedOf(due)[e] \in Nat
    BY <1>1, OwedChange
  <2>3. CASE due'[e] = {}
    BY <2>2, <2>3 DEF OwedOf
  <2>4. CASE due'[e] # {}
    <3>1. Share(e) \in Nat
      BY <2>1, <2>4, SharesFit DEF Payees
    <3>2. /\ Cardinality(due'[e]) =< Cardinality(due[e])
          /\ Cardinality(due'[e]) \in Nat /\ Cardinality(due[e]) \in Nat
      BY <1>1, <2>1, PayeesFinite, FS_Subset
    <3>3. /\ OwedOf(due')[e] = Share(e) * Cardinality(due'[e])
          /\ OwedOf(due)[e] = Share(e) * Cardinality(due[e])
      BY <1>1, <2>4 DEF OwedOf
    <3>4. Share(e) * Cardinality(due'[e]) =< Share(e) * Cardinality(due[e])
      BY <3>1, <3>2
    <3> QED
      BY <3>3, <3>4
  <2> QED
    BY <2>3, <2>4
<1>4. NothingLost'
  BY <1>2, MoneyRead, MoneyReadNext DEF MoneyFacts
<1>5. PotCovers'
  BY <1>1, <1>2, <1>3, OwedChange, MoneyRead, MoneyReadNext DEF MoneyFacts
<1> QED
  BY <1>4, <1>5

LEMMA RejectMoney ==
    ASSUME MoneyTypeOK, MoneyTypeOK', NothingLost, PotCovers, NEW i \in Payouts, Reject(i)
    PROVE  NothingLost' /\ PotCovers'
<1>1. /\ payout[i] = "pending" /\ payout' = [payout EXCEPT ![i] = "rejected"]
      /\ UNCHANGED <<step, due>>
  BY DEF Reject, runnerVars
<1>2. Amount(pot') = Amount(pot) + Share(i[1]) /\ Share(i[1]) \in Nat
  BY RejectFacts
<1>3. PaidOut' = PaidOut \ {i} /\ i \in PaidOut /\ Closed' = Closed
  BY <1>1 DEF MoneyTypeOK, PaidOut, Closed, Transfers
<1>4. SumFunctionOnSet(ShareOf, PaidOut) = Share(i[1]) + SumFunctionOnSet(ShareOf, PaidOut')
  <2>1. PaidOut \in SUBSET Payouts
    BY DEF PaidOut
  <2>2. ShareOf[i] = Share(i[1])
    BY DEF ShareOf
  <2>3. IsFiniteSet(PaidOut) /\ \A j \in PaidOut : ShareOf[j] \in Nat
    BY <2>1, PaidSum
  <2>4. SumFunctionOnSet(ShareOf, PaidOut) = ShareOf[i] + SumFunctionOnSet(ShareOf, PaidOut \ {i})
    BY <1>3, <2>3, SumRemove
  <2> QED
    BY <1>3, <2>2, <2>4
<1>5. NothingLost'
  BY <1>2, <1>3, <1>4, MoneyRead, MoneyReadNext DEF MoneyFacts
<1>6. PotCovers'
  BY <1>1, <1>2, OwedSame, MoneyRead, MoneyReadNext DEF MoneyFacts
<1> QED
  BY <1>5, <1>6

(* Steps that leave the pot and what is owed alone.                          *)
LEMMA IdleMoney ==
    ASSUME MoneyTypeOK, MoneyTypeOK', NothingLost, PotCovers,
           UNCHANGED <<pot, due>>, Closed' = Closed, PaidOut' = PaidOut
    PROVE  NothingLost' /\ PotCovers'
<1>1. Amount(pot') = Amount(pot)
  OBVIOUS
<1> QED
  BY <1>1, OwedSame, MoneyRead, MoneyReadNext DEF MoneyFacts

(* Nothing else changes what was paid out.                                   *)
LEMMA SettlesPaid ==
    ASSUME MoneyTypeOK, NEW i \in Transfers, payout[i] = "pending",
           payout' = [payout EXCEPT ![i] = "accepted"]
    PROVE  PaidOut' = PaidOut
BY DEF MoneyTypeOK, PaidOut, Transfers

LEMMA MoneyStep ==
    ASSUME MoneyTypeOK, MoneyTypeOK', NothingLost, PotCovers, [PotNext]_potVars
    PROVE  NothingLost' /\ PotCovers'
<1>1. ASSUME UNCHANGED <<ledgerVars, runnerVars>> PROVE NothingLost' /\ PotCovers'
  <2>1. UNCHANGED <<pot, due, step, payout>>
    BY <1>1 DEF ledgerVars, runnerVars
  <2> QED
    BY <2>1, IdleMoney DEF Closed, PaidOut
<1>2. ASSUME NEW e \in Events, NEW p \in due[e], Gather(e, p) PROVE NothingLost' /\ PotCovers'
  <2>1. UNCHANGED <<pot, due, payout>> /\ Closed' = Closed
    BY <1>2 DEF Gather, ledgerVars, MoneyTypeOK, Closed
  <2> QED
    BY <2>1, IdleMoney DEF PaidOut
<1>3. ASSUME NEW e \in Events, AcceptPayout(e) PROVE NothingLost' /\ PotCovers'
  <2>1. UNCHANGED <<pot, due>> /\ Closed' = Closed
    BY <1>3 DEF AcceptPayout, Accepted, ledgerVars, MoneyTypeOK, Closed
  <2>2. <<e, payee[e]>> \in Transfers
    BY <1>3 DEF AcceptPayout, MoneyTypeOK, RunnerOK, Transfers, Payouts
  <2>3. PaidOut' = PaidOut
    <3>1. CASE UNCHANGED payout
      BY <3>1 DEF PaidOut
    <3>2. CASE Accepted(<<e, payee[e]>>)
      BY <2>2, <3>2, SettlesPaid DEF Accepted
    <3> QED
      BY <1>3, <3>1, <3>2 DEF AcceptPayout, ledgerVars
  <2> QED
    BY <2>1, <2>3, IdleMoney
<1>4. ASSUME Arrive PROVE NothingLost' /\ PotCovers'
  <2>1. UNCHANGED <<pot, due, step>> /\ payout' = [payout EXCEPT ![Deposit] = "pending"]
    BY <1>4 DEF Arrive, runnerVars
  <2>2. PaidOut' = PaidOut
    BY <2>1, PotConstants DEF PaidOut, MoneyTypeOK, Transfers
  <2> QED
    BY <2>1, <2>2, IdleMoney DEF Closed
<1>5. ASSUME NEW i \in Transfers, Accept(i) PROVE NothingLost' /\ PotCovers'
  <2>1. UNCHANGED <<pot, due, step>> /\ PaidOut' = PaidOut
    BY <1>5, SettlesPaid DEF Accept, Accepted, runnerVars
  <2> QED
    BY <2>1, IdleMoney DEF Closed
<1>6. ASSUME NEW e \in Events, Runner(e) PROVE NothingLost' /\ PotCovers'
  BY <1>2, <1>3, <1>6, CloseMoney, TransferMoney, MintMoney, GivesUpMoney DEF Runner
<1> QED
  BY <1>1, <1>4, <1>5, <1>6, RejectMoney, RowsOnly DEF PotNext

-------------------------------------------------------------------------------
(* Whose payout is lost was disturbed *)

AimedBounded ==
    \A e \in Events : step[e] = "gathered" =>
        /\ Needed(e) \in Nat
        /\ Needed(e) =< Share(e) * Cardinality(due[e])
        /\ OwedOf(due)[e] = Share(e) * Cardinality(due[e])

LEMMA AimedFits == MoneyTypeOK => AimedBounded
<1> SUFFICES ASSUME MoneyTypeOK, NEW e \in Events, step[e] = "gathered"
             PROVE  /\ Needed(e) \in Nat
                    /\ Needed(e) =< Share(e) * Cardinality(due[e])
                    /\ OwedOf(due)[e] = Share(e) * Cardinality(due[e])
  BY DEF AimedBounded
<1>1. due[e] # {}
  BY DEF MoneyTypeOK, RunnerOK
<1> QED
  BY <1>1, AimedAt DEF OwedOf

LEMMA AimedFitsNext == MoneyTypeOK' => AimedBounded'
BY AimedFits, PTL

(* The pot covers what any one event has still to pay.                       *)
LEMMA OneOwed ==
    ASSUME MoneyTypeOK, PotCovers, NEW e \in Events
    PROVE  OwedOf(due)[e] =< Amount(pot)
<1>1. /\ \A f \in Events : OwedOf(due)[f] \in Nat
      /\ SumFunctionOnSet(OwedOf(due), Events) =< Amount(pot)
      /\ Amount(pot) \in Nat
      /\ SumFunctionOnSet(OwedOf(due), Events) \in Nat
  BY MoneyRead DEF MoneyFacts
<1>2. IsFiniteSet(Events \ {e}) /\ \A f \in Events \ {e} : OwedOf(due)[f] \in Nat
  BY <1>1, PotConstants, FS_Difference
<1>3. SumFunctionOnSet(OwedOf(due), Events \ {e}) \in Nat
  BY <1>2, SumNat
<1>4. SumFunctionOnSet(OwedOf(due), Events)
        = OwedOf(due)[e] + SumFunctionOnSet(OwedOf(due), Events \ {e})
  BY <1>1, PotConstants, SumRemove
<1>5. OwedOf(due)[e] \in Nat
  BY <1>1
<1> QED
  BY <1>1, <1>3, <1>4, <1>5

(* A runner that does not move stays sound as long as its inputs are there.  *)
LEMMA SoundKept ==
    ASSUME NEW e, Sound(e), UNCHANGED token,
           step'[e] = step[e], due'[e] = due[e], payee'[e] = payee[e], inputs'[e] = inputs[e],
           disturbed \subseteq disturbed',
           step[e] = "gathered" =>
             (inputs[e] \subseteq pot => inputs[e] \subseteq pot' \/ Aimed(e) \subseteq disturbed')
    PROVE  Sound(e)'
<1>1. Aimed(e)' = Aimed(e)
  BY DEF Aimed
<1>2. Needed(e)' = Needed(e)
  BY <1>1 DEF Needed
<1> QED
  BY <1>1, <1>2 DEF Sound

(* A submission of e takes the holdings H from under the others.             *)
LEMMA SoundSpent ==
    ASSUME NEW e \in Events, NEW H, NEW f \in Events \ {e}, step[f] = "gathered",
           inputs[f] \subseteq pot, pot \ H \subseteq pot',
           disturbed' = disturbed \cup Disturbs(H, e)
    PROVE  inputs[f] \subseteq pot' \/ Aimed(f) \subseteq disturbed'
<1>1. CASE inputs[f] \cap H = {}
  BY <1>1
<1>2. CASE inputs[f] \cap H # {}
  BY <1>2 DEF Disturbs
<1> QED
  BY <1>1, <1>2

LEMMA SoundStep ==
    ASSUME MoneyTypeOK, MoneyTypeOK', PotCovers, \A e \in Events : Sound(e),
           [PotNext]_potVars, NEW f \in Events
    PROVE  Sound(f)'
<1>1. ASSUME UNCHANGED <<pot, token, runnerVars>> PROVE Sound(f)'
  BY <1>1, SoundKept DEF runnerVars
<1>2. ASSUME NEW e \in Events, CloseEvent(e) PROVE Sound(f)'
  <2>1. /\ pot \subseteq pot' /\ UNCHANGED <<token, payee, inputs, disturbed>>
        /\ step' = [step EXCEPT ![e] = "payout"]
        /\ due' = [due EXCEPT ![e] = Payees(e)]
    BY <1>2 DEF CloseEvent, Exchange
  <2>2. CASE f = e
    BY <2>1, <2>2 DEF Sound, MoneyTypeOK
  <2>3. CASE f # e
    BY <2>1, <2>3, SoundKept DEF MoneyTypeOK
  <2> QED
    BY <2>2, <2>3
<1>3. ASSUME NEW e \in Events, NEW p \in due[e], Gather(e, p) PROVE Sound(f)'
  <2>1. /\ UNCHANGED <<token, pot, due, disturbed>>
        /\ step' = [step EXCEPT ![e] = "gathered"]
        /\ payee' = [payee EXCEPT ![e] = p]
        /\ inputs' = [inputs EXCEPT ![e] = pot]
    BY <1>3 DEF Gather, ledgerVars
  <2>2. CASE f = e
    <3>1. step'[e] = "gathered" /\ inputs'[e] = pot' /\ OwedOf(due')[e] = OwedOf(due)[e]
      BY <2>1 DEF MoneyTypeOK, OwedOf
    <3>2. /\ Needed(e)' \in Nat
          /\ Needed(e)' =< OwedOf(due')[e]
      BY <3>1, AimedFitsNext DEF AimedBounded
    <3>3. OwedOf(due)[e] =< Amount(pot) /\ OwedOf(due)[e] \in Nat /\ Amount(pot) \in Nat
      BY OneOwed, MoneyRead DEF MoneyFacts
    <3>4. Amount(inputs'[e]) = Amount(pot)
      BY <2>1, <3>1
    <3>5. Amount(inputs'[e]) >= Needed(e)'
      BY <3>1, <3>2, <3>3, <3>4
    <3> QED
      BY <2>2, <3>1, <3>5 DEF Sound
  <2>3. CASE f # e
    BY <2>1, <2>3, SoundKept DEF MoneyTypeOK
  <2> QED
    BY <2>2, <2>3
<1>4. ASSUME NEW e \in Events, NEW H, pot \ H \subseteq pot', UNCHANGED token,
             step'[e] # "gathered",
             \A g \in Events \ {e} : /\ step'[g] = step[g] /\ due'[g] = due[g]
                                     /\ payee'[g] = payee[g] /\ inputs'[g] = inputs[g],
             disturbed' = disturbed \cup Disturbs(H, e)
      PROVE  Sound(f)'
  <2>1. CASE f = e
    BY <1>4, <2>1 DEF Sound
  <2>2. CASE f # e
    BY <1>4, <2>2, SoundKept, SoundSpent
  <2> QED
    BY <2>1, <2>2
<1>5. ASSUME NEW e \in Events, Transfer(e) PROVE Sound(f)'
  <2>1. /\ pot \ inputs[e] \subseteq pot' /\ UNCHANGED token
        /\ step'[e] # "gathered"
        /\ \A g \in Events \ {e} : /\ step'[g] = step[g] /\ due'[g] = due[g]
                                   /\ payee'[g] = payee[g] /\ inputs'[g] = inputs[g]
        /\ disturbed' = disturbed \cup Disturbs(inputs[e], e)
    BY <1>5 DEF Transfer, Exchange, MoneyTypeOK
  <2> QED
    BY <1>4, <2>1
<1>6. ASSUME NEW e \in Events, NEW H, Mint(e, H) PROVE Sound(f)'
  <2>1. /\ pot \ H \subseteq pot' /\ UNCHANGED token
        /\ step'[e] # "gathered"
        /\ \A g \in Events \ {e} : /\ step'[g] = step[g] /\ due'[g] = due[g]
                                   /\ payee'[g] = payee[g] /\ inputs'[g] = inputs[g]
        /\ disturbed' = disturbed \cup Disturbs(H, e)
    BY <1>6 DEF Mint, Exchange, MoneyTypeOK
  <2> QED
    BY <1>4, <2>1
<1>7. ASSUME NEW e \in Events, UNCHANGED <<token, pot>>, disturbed \subseteq disturbed',
             step'[e] # "gathered",
             \A g \in Events \ {e} : /\ step'[g] = step[g] /\ due'[g] = due[g]
                                     /\ payee'[g] = payee[g] /\ inputs'[g] = inputs[g]
      PROVE  Sound(f)'
  <2>1. CASE f = e
    BY <1>7, <2>1 DEF Sound
  <2>2. CASE f # e
    BY <1>7, <2>2, SoundKept
  <2> QED
    BY <2>1, <2>2
<1>8. ASSUME NEW e \in Events, PayoutFails(e) PROVE Sound(f)'
  BY <1>7, <1>8 DEF PayoutFails, ledgerVars, MoneyTypeOK
<1>9. ASSUME NEW e \in Events, Die(e) PROVE Sound(f)'
  BY <1>7, <1>9 DEF Die, ledgerVars, MoneyTypeOK
<1>10. ASSUME NEW e \in Events, AcceptPayout(e) PROVE Sound(f)'
  BY <1>7, <1>10 DEF AcceptPayout, Accepted, ledgerVars, MoneyTypeOK
<1>11. ASSUME NEW i \in Payouts, Reject(i) PROVE Sound(f)'
  <2>1. pot \subseteq pot' /\ UNCHANGED <<token, runnerVars>>
    BY <1>11 DEF Reject, Exchange
  <2> QED
    BY <2>1, SoundKept DEF runnerVars
<1>12. ASSUME NEW e \in Events, Runner(e) PROVE Sound(f)'
  BY <1>2, <1>3, <1>5, <1>6, <1>8, <1>9, <1>10, <1>12 DEF Runner
<1>13. ASSUME Arrive \/ \E i \in Transfers : Accept(i) PROVE Sound(f)'
  BY <1>1, <1>13 DEF Arrive, Accept, Accepted
<1>14. ASSUME UNCHANGED <<ledgerVars, runnerVars>> PROVE Sound(f)'
  BY <1>1, <1>14 DEF ledgerVars
<1> QED
  BY <1>11, <1>12, <1>13, <1>14, RowsOnly DEF PotNext

(* Who was served stays so: payouts and what was disturbed are kept.         *)
LEMMA ServedKept ==
    ASSUME NEW e, Served(e), step'[e] # "open" => step[e] # "open",
           \A p \in Payees(e) : payout[<<e, p>>] # "none" => payout'[<<e, p>>] # "none",
           disturbed \subseteq disturbed',
           \A p \in due[e] : \/ p \in due'[e]
                             \/ payout'[<<e, p>>] # "none"
                             \/ <<e, p>> \in disturbed'
    PROVE  Served(e)'
BY DEF Served, Payees, Share, Forfeited

(* No payout is ever undone to none.                                         *)
LEMMA PayoutsKept ==
    ASSUME MoneyTypeOK, NEW i \in Transfers, NEW s, s # "none",
           payout' = [payout EXCEPT ![i] = s]
    PROVE  \A e \in Events : \A p \in Payees(e) :
              payout[<<e, p>>] # "none" => payout'[<<e, p>>] # "none"
BY DEF MoneyTypeOK, Transfers, Payouts, Payees

LEMMA ServedStep ==
    ASSUME MoneyTypeOK, \A e \in Events : Sound(e), \A e \in Events : Served(e),
           [PotNext]_potVars, NEW f \in Events
    PROVE  Served(f)'
<1>1. ASSUME NEW e \in Events, CloseEvent(e) PROVE Served(f)'
  <2>1. /\ UNCHANGED <<payout, disturbed>>
        /\ step' = [step EXCEPT ![e] = "payout"]
        /\ due' = [due EXCEPT ![e] = Payees(e)]
    BY <1>1 DEF CloseEvent
  <2>2. CASE f = e
    BY <2>1, <2>2 DEF Served, MoneyTypeOK, Payees, Share, Forfeited
  <2>3. CASE f # e
    BY <2>1, <2>3, ServedKept DEF MoneyTypeOK
  <2> QED
    BY <2>2, <2>3
<1>2. ASSUME NEW e \in Events, NEW p \in due[e], Gather(e, p) PROVE Served(f)'
  BY <1>2, ServedKept DEF Gather, ledgerVars, MoneyTypeOK
<1>3. ASSUME NEW e \in Events, Transfer(e) PROVE Served(f)'
  <2> DEFINE i == <<e, payee[e]>>
             st == IF token = "oneStep" THEN "accepted" ELSE "pending"
  <2>1. /\ step[e] = "gathered" /\ disturbed \subseteq disturbed'
        /\ payout' = [payout EXCEPT ![i] = st]
        /\ \E to \in {"payout", "accepting"} : step' = [step EXCEPT ![e] = to]
        /\ due' = [due EXCEPT ![e] = @ \ {payee[e]}]
    BY <1>3 DEF Transfer
  <2>2. i \in Transfers /\ st # "none"
    BY <2>1 DEF MoneyTypeOK, RunnerOK, Payees, Transfers, Payouts
  <2>3. \A g \in Events : \A p \in Payees(g) :
           payout[<<g, p>>] # "none" => payout'[<<g, p>>] # "none"
    BY <2>1, <2>2, PayoutsKept
  <2>4. payout'[i] # "none"
    BY <2>1, <2>2 DEF MoneyTypeOK
  <2>5. \A p \in due[f] : p \in due'[f] \/ payout'[<<f, p>>] # "none"
    BY <2>1, <2>4 DEF MoneyTypeOK
  <2>6. step'[f] # "open" => step[f] # "open"
    BY <2>1 DEF MoneyTypeOK
  <2> HIDE DEF i, st
  <2> QED
    BY <2>1, <2>3, <2>5, <2>6, ServedKept
<1>4. ASSUME NEW e \in Events, NEW H, Mint(e, H) PROVE Served(f)'
  <2>1. /\ step[e] = "gathered" /\ token = "demo" /\ disturbed \subseteq disturbed'
        /\ payout' = [j \in Transfers |-> IF j \in Aimed(e) THEN "accepted" ELSE payout[j]]
        /\ step' = [step EXCEPT ![e] = "payout"]
        /\ due' = [due EXCEPT ![e] = {}]
    BY <1>4 DEF Mint
  <2>2. Aimed(e) = {e} \X due[e] /\ \A g \in Events : due[g] \subseteq Payees(g)
    BY <2>1, AimedAt DEF MoneyTypeOK, RunnerOK
  <2>3. \A g \in Events : \A p \in Payees(g) : <<g, p>> \in Transfers
    BY DEF Transfers, Payouts, Payees
  <2>4. \A p \in due[f] : p \in due'[f] \/ payout'[<<f, p>>] # "none"
    BY <2>1, <2>2, <2>3 DEF MoneyTypeOK
  <2>5. \A p \in Payees(f) : payout[<<f, p>>] # "none" => payout'[<<f, p>>] # "none"
    BY <2>1, <2>3
  <2>6. step'[f] # "open" => step[f] # "open"
    BY <2>1 DEF MoneyTypeOK
  <2> QED
    BY <2>1, <2>4, <2>5, <2>6, ServedKept
<1>5. ASSUME NEW e \in Events, PayoutFails(e) PROVE Served(f)'
  <2>1. /\ step[e] = "gathered" /\ disturbed \subseteq disturbed' /\ UNCHANGED payout
        /\ step' = [step EXCEPT ![e] = "payout"]
        /\ due' = [due EXCEPT ![e] = {p \in @ : <<e, p>> \notin Aimed(e)}]
        /\ inputs[e] \subseteq pot /\ Amount(inputs[e]) >= Needed(e) =>
              Aimed(e) \subseteq disturbed'
    BY <1>5 DEF PayoutFails, ledgerVars
  <2>2. Aimed(e) \subseteq disturbed'
    BY <2>1 DEF Sound
  <2>3. \A p \in due[f] : p \in due'[f] \/ <<f, p>> \in disturbed'
    BY <2>1, <2>2 DEF MoneyTypeOK
  <2>4. step'[f] # "open" => step[f] # "open"
    BY <2>1 DEF MoneyTypeOK
  <2> QED
    BY <2>1, <2>3, <2>4, ServedKept
<1>6. ASSUME NEW e \in Events, Die(e) PROVE Served(f)'
  <2>1. /\ step[e] # "open" /\ disturbed' = disturbed \cup ({e} \X due[e]) /\ UNCHANGED payout
        /\ step' = [step EXCEPT ![e] = "payout"]
        /\ due' = [due EXCEPT ![e] = {}]
    BY <1>6 DEF Die, ledgerVars
  <2> QED
    BY <2>1, ServedKept DEF MoneyTypeOK
<1>7. ASSUME NEW e \in Events, AcceptPayout(e) PROVE Served(f)'
  <2>1. /\ step[e] = "accepting" /\ step' = [step EXCEPT ![e] = "payout"]
        /\ UNCHANGED <<due, disturbed>>
    BY <1>7 DEF AcceptPayout
  <2>2. <<e, payee[e]>> \in Transfers
    BY <2>1 DEF MoneyTypeOK, RunnerOK, Transfers, Payouts
  <2>3. \A p \in Payees(f) : payout[<<f, p>>] # "none" => payout'[<<f, p>>] # "none"
    BY <1>7, <2>2, PayoutsKept DEF AcceptPayout, Accepted, ledgerVars
  <2> QED
    BY <2>1, <2>3, ServedKept DEF MoneyTypeOK
<1>8. ASSUME NEW i \in Transfers, NEW s, s # "none", payout' = [payout EXCEPT ![i] = s],
             UNCHANGED runnerVars
      PROVE  Served(f)'
  BY <1>8, PayoutsKept, ServedKept DEF runnerVars
<1>9. ASSUME Arrive PROVE Served(f)'
  BY <1>8, <1>9 DEF Arrive, Transfers
<1>10. ASSUME NEW i \in Transfers, Accept(i) PROVE Served(f)'
  BY <1>8, <1>10 DEF Accept, Accepted
<1>11. ASSUME NEW i \in Payouts, Reject(i) PROVE Served(f)'
  BY <1>8, <1>11 DEF Reject, Transfers
<1>12. ASSUME UNCHANGED <<ledgerVars, runnerVars>> PROVE Served(f)'
  BY <1>12, ServedKept DEF ledgerVars, runnerVars
<1>13. ASSUME NEW e \in Events, Runner(e) PROVE Served(f)'
  BY <1>1, <1>2, <1>3, <1>4, <1>5, <1>6, <1>7, <1>13 DEF Runner
<1> QED
  BY <1>9, <1>10, <1>11, <1>12, <1>13, RowsOnly DEF PotNext

LEMMA MoneyInvInit == PotInit => MoneyInv
<1> SUFFICES ASSUME PotInit PROVE MoneyInv
  OBVIOUS
<1>1. MoneyTypeOK
  BY MoneyTypeInit
<1>2. pot = {} /\ PaidOut = {} /\ Closed = {} /\ \A e \in Events : due[e] = {}
  BY DEF PotInit, PaidOut, Closed, Transfers
<1>3. Amount(pot) = 0
  BY <1>2, AmountNone
<1>4. SumFunctionOnSet(ShareOf, PaidOut) = 0 /\ SumFunctionOnSet(ForfeitOf, Closed) = 0
  BY <1>2, SumEmpty
<1>5. NothingLost
  BY <1>1, <1>3, <1>4, MoneyRead DEF MoneyFacts
<1>6. SumFunctionOnSet(OwedOf(due), Events) = 0
  <2>1. \A e \in Events : OwedOf(due)[e] = 0
    BY <1>2 DEF OwedOf
  <2>2. SumFunctionOnSet(OwedOf(due), Events) = 0 * Cardinality(Events)
    BY <2>1, PotConstants, SumConstant
  <2>3. Cardinality(Events) \in Nat
    BY PotConstants, FS_CardinalityType
  <2> QED
    BY <2>2, <2>3
<1>7. PotCovers
  BY <1>1, <1>3, <1>6, MoneyRead DEF MoneyFacts
<1>8. \A e \in Events : Sound(e) /\ Served(e)
  BY DEF PotInit, Sound, Served
<1> QED
  BY <1>1, <1>5, <1>7, <1>8 DEF MoneyInv

LEMMA MoneyInvStep == MoneyInv /\ [PotNext]_potVars => MoneyInv'
<1> SUFFICES ASSUME MoneyInv, [PotNext]_potVars PROVE MoneyInv'
  OBVIOUS
<1>1. /\ MoneyTypeOK /\ NothingLost /\ PotCovers
      /\ \A e \in Events : Sound(e)
      /\ \A e \in Events : Served(e)
  BY DEF MoneyInv
<1>2. MoneyTypeOK'
  BY <1>1, MoneyTypeStep
<1>3. NothingLost' /\ PotCovers'
  BY <1>1, <1>2, MoneyStep
<1>4. \A e \in Events : Sound(e)'
  BY <1>1, <1>2, SoundStep
<1>5. \A e \in Events : Served(e)'
  BY <1>1, ServedStep
<1> QED
  BY <1>2, <1>3, <1>4, <1>5 DEF MoneyInv

(* The invariant of the pot's money holds whatever the events, the stakes    *)
(* and the token: at every step of the payout runners (backend/internal/     *)
(* settle/payout.go), the receivers and the registry.                        *)
THEOREM MoneyKept == PotSpec => []MoneyInv
<1> QED
  BY MoneyInvInit, MoneyInvStep, PTL DEF PotSpec

(* No payout makes or loses money: what the no-shows forfeited is in the     *)
(* pot, on offer or paid out, to the smallest unit of the token.             *)
THEOREM NothingIsLost == PotSpec => []NothingLost
<1>1. MoneyInv => NothingLost
  BY DEF MoneyInv
<1> QED
  BY <1>1, MoneyKept, PTL

(* The pot covers what all closing events together have still to pay.        *)
THEOREM PotAlwaysCovers == PotSpec => []PotCovers
<1>1. MoneyInv => PotCovers
  BY DEF MoneyInv
<1> QED
  BY <1>1, MoneyKept, PTL

(* Whoever came is paid or offered the share, unless the request died, the   *)
(* registry refused or another event's payout spent the same holdings.       *)
THEOREM AllPaidUnlessDisturbed == PotSpec => []PaidUnlessDisturbed
<1>1. MoneyInv => PaidUnlessDisturbed
  BY DEF MoneyInv, MoneyTypeOK, Served, PaidUnlessDisturbed, Closed
<1> QED
  BY <1>1, MoneyKept, PTL

-------------------------------------------------------------------------------
(* What a queue of updates does to the rows.  The operators below take the   *)
(* queue, the token t and the number n of holdings ever made as parameters:  *)
(* they are used of the queue and of what a new connection would send, in    *)
(* states and in their successors.                                           *)

Offer(t, i) == [kind    |-> "transfer", id |-> i,
                sender  |-> IF i = Deposit THEN "other" ELSE "pot",
                stamped |-> i # Deposit /\ t # "unstamped"]

HoldingsTo(n) == [id : {"pot"} \X (1..n), amount : Nat \ {0}]
Offers(t)     == {Offer(t, i) : i \in Transfers}
Contracts(t, n) == OfPot(HoldingsTo(n)) \cup {Received(i) : i \in Transfers} \cup Offers(t)
Updates(t, n) == [created : SUBSET Contracts(t, n),
                  archived : SUBSET (OfPot(HoldingsTo(n)) \cup Offers(t))]

Ended(u) == {c.id : c \in u.archived}

(* Holding h is created in update k of q; one with its id is archived there. *)
MadeAt(q, k, h) == h \in Tracked(q[k])
GoneAt(q, k, h) == h.id \in Ended(q[k])

(* Rows R of the pot become P by the updates of q.                           *)
Catch(q, P, R) ==
    /\ \A h \in P : h \in R \/ \E k \in 1..Len(q) : MadeAt(q, k, h)
    /\ \A h \in P : \A k \in 1..Len(q) : ~GoneAt(q, k, h)
    /\ \A h \in R \ P : \E k \in 1..Len(q) : GoneAt(q, k, h)
    /\ \A k \in 1..Len(q) : \A h \in Tracked(q[k]) :
          /\ ~GoneAt(q, k, h)
          /\ h \notin P => \E j \in (k+1)..Len(q) : GoneAt(q, j, h)

(* An id names one holding. *)
OneEach(S) == \A g \in S, h \in S : g.id = h.id => g = h

OfferedAt(q, k, t, i) == Offer(t, i) \in q[k].created
TakenAt(q, k, t, i)   == Offer(t, i) \in q[k].archived

(* The rows r of the payouts become what p says by the updates of q, where   *)
(* the registry keeps the meta.                                              *)
Told(q, t, p, r) ==
    \A i \in Payouts :
        /\ p[i] # "none" <=> r[i] # "none" \/ \E k \in 1..Len(q) : OfferedAt(q, k, t, i)
        /\ p[i] \in {"accepted", "rejected"} <=>
              \/ r[i] = "accepted"
              \/ \E k \in 1..Len(q) : TakenAt(q, k, t, i)
        /\ \A k \in 1..Len(q) : TakenAt(q, k, t, i) =>
              \/ r[i] # "none"
              \/ \E j \in 1..(k-1) : OfferedAt(q, j, t, i)

(* Where it strips the meta, a payout that was offered is logged instead.    *)
Logged(q, t, p, a) ==
    \A i \in Payouts :
        p[i] # "none" <=> i \in a \/ \E k \in 1..Len(q) : OfferedAt(q, k, t, i)

(* A registry that delivers at once offers no payout.                        *)
Quiet(q, t) == \A i \in Payouts : \A k \in 1..Len(q) : ~OfferedAt(q, k, t, i)

StatusFollows(q, t, p, r, a) ==
    /\ t = "twoStep" => Told(q, t, p, r)
    /\ t = "unstamped" => Logged(q, t, p, a)
    /\ t \in {"demo", "oneStep"} => Quiet(q, t)

-------------------------------------------------------------------------------
(* The strengthened invariant of the rows *)

(* The first updates of the queue may be what the connection before sent:    *)
(* the new one repeats them.                                                 *)
FeedOK ==
    /\ queue \in Seq(Updates(token, minted))
    /\ resend \in Seq(Updates(token, minted))
    /\ Len(resend) =< Len(queue) /\ Len(queue) =< MaxQueue
    /\ stale \in 0..Len(resend)
    /\ \A k \in 1..stale : queue[k] = resend[k]

RowTypeOK ==
    /\ potRows \subseteq Holdings
    /\ known = {h.id : h \in potRows}
    /\ payoutRows \in [Transfers -> PayoutStates]
    /\ payoutRows[Deposit] = "none"
    /\ unattributed \subseteq Payouts
    /\ token # "unstamped" => unattributed = {}
    /\ token # "twoStep" => \A i \in Payouts : payoutRows[i] = "none"

(* Every holding that the pot, its rows or the feed mention. *)
MadeIn(q) == UNION {Tracked(q[k]) : k \in 1..Len(q)}
Seen == pot \cup potRows \cup MadeIn(queue) \cup MadeIn(resend)

RowsFollow ==
    /\ FeedOK
    /\ RowTypeOK
    /\ OneEach(Seen)
    /\ Catch(queue, pot, potRows)
    /\ Catch(resend, pot, potRows)
    /\ StatusFollows(queue, token, payout, payoutRows, unattributed)
    /\ StatusFollows(resend, token, payout, payoutRows, unattributed)

-------------------------------------------------------------------------------
(* Queues *)

(* q2 is q without its first update. *)
Behead(q, q2) ==
    /\ Len(q) \in Nat \ {0} /\ Len(q2) = Len(q) - 1
    /\ \A k \in 1..Len(q2) : q2[k] = q[k+1]

(* q2 is q and the update u. *)
Extend(q, u, q2) ==
    /\ Len(q) \in Nat /\ Len(q2) = Len(q) + 1
    /\ \A k \in 1..Len(q) : q2[k] = q[k]
    /\ q2[Len(q) + 1] = u

(* q2 is q, twice. *)
Repeat(q, q2) ==
    /\ Len(q) \in Nat /\ Len(q2) = Len(q) + Len(q)
    /\ \A k \in 1..Len(q) : q2[k] = q[k] /\ q2[Len(q) + k] = q[k]

LEMMA TailIs ==
    ASSUME NEW S, NEW q \in Seq(S), q # <<>>
    PROVE  Tail(q) \in Seq(S) /\ Behead(q, Tail(q)) /\ Head(q) = q[1] /\ q[1] \in S
BY DEF Behead

LEMMA AppendIs ==
    ASSUME NEW S, NEW q \in Seq(S), NEW u \in S
    PROVE  Append(q, u) \in Seq(S) /\ Extend(q, u, Append(q, u))
BY DEF Extend

LEMMA RepeatIs ==
    ASSUME NEW S, NEW q \in Seq(S)
    PROVE  q \o q \in Seq(S) /\ Repeat(q, q \o q)
BY DEF Repeat

(* Every update of a repeated queue is one of the queue's.                   *)
LEMMA RepeatAt ==
    ASSUME NEW q, NEW q2, Repeat(q, q2), NEW k \in 1..Len(q2)
    PROVE  \E j \in 1..Len(q) : q2[k] = q[j] /\ (k =< Len(q) => j = k)
<1>1. CASE k =< Len(q)
  BY <1>1 DEF Repeat
<1>2. CASE ~(k =< Len(q))
  <2>1. k - Len(q) \in 1..Len(q) /\ k = Len(q) + (k - Len(q))
    BY <1>2 DEF Repeat
  <2> QED
    BY <1>2, <2>1 DEF Repeat
<1> QED
  BY <1>1, <1>2

-------------------------------------------------------------------------------
(* The rows of the pot catch up *)

LEMMA CatchBehead ==
    ASSUME NEW q, NEW q2, Behead(q, q2), NEW P, NEW R, Catch(q, P, R),
           NEW R2, R2 = {h \in R \cup Tracked(q[1]) : ~GoneAt(q, 1, h)}
    PROVE  Catch(q2, P, R2)
<1>1. /\ Len(q) \in Nat \ {0} /\ Len(q2) = Len(q) - 1
      /\ \A k \in 1..Len(q2) : k + 1 \in 1..Len(q) /\ q2[k] = q[k+1]
      /\ \A k \in 1..Len(q) : k # 1 => k - 1 \in 1..Len(q2) /\ q2[k-1] = q[k]
      /\ 1 \in 1..Len(q)
  BY DEF Behead
<1>2. \A k \in 1..Len(q2) : \A h : /\ MadeAt(q2, k, h) <=> MadeAt(q, k+1, h)
                                   /\ GoneAt(q2, k, h) <=> GoneAt(q, k+1, h)
  BY <1>1 DEF MadeAt, GoneAt
<1>3. \A k \in 1..Len(q) : k # 1 =>
        \A h : /\ MadeAt(q2, k-1, h) <=> MadeAt(q, k, h)
               /\ GoneAt(q2, k-1, h) <=> GoneAt(q, k, h)
  BY <1>1 DEF MadeAt, GoneAt
<1>4. ASSUME NEW h \in P PROVE h \in R2 \/ \E k \in 1..Len(q2) : MadeAt(q2, k, h)
  BY <1>1, <1>3 DEF Catch, MadeAt
<1>5. ASSUME NEW h \in P, NEW k \in 1..Len(q2) PROVE ~GoneAt(q2, k, h)
  BY <1>1, <1>2 DEF Catch
<1>6. ASSUME NEW h \in R2 \ P PROVE \E k \in 1..Len(q2) : GoneAt(q2, k, h)
  <2>1. ~GoneAt(q, 1, h)
    OBVIOUS
  <2>2. PICK k \in 1..Len(q) : k # 1 /\ GoneAt(q, k, h)
    <3>1. CASE h \in R
      BY <2>1, <3>1 DEF Catch
    <3>2. CASE h \in Tracked(q[1])
      BY <1>1, <2>1, <3>2 DEF Catch
    <3> QED
      BY <3>1, <3>2
  <2> QED
    BY <1>1, <1>3, <2>2
<1>7. ASSUME NEW k \in 1..Len(q2), NEW h \in Tracked(q2[k])
      PROVE  /\ ~GoneAt(q2, k, h)
             /\ h \notin P => \E j \in (k+1)..Len(q2) : GoneAt(q2, j, h)
  <2>1. k + 1 \in 1..Len(q) /\ h \in Tracked(q[k+1])
    BY <1>1
  <2>2. ~GoneAt(q, k+1, h) /\ (h \notin P => \E j \in (k+1+1)..Len(q) : GoneAt(q, j, h))
    BY <2>1 DEF Catch
  <2>3. ASSUME h \notin P PROVE \E j \in (k+1)..Len(q2) : GoneAt(q2, j, h)
    <3>1. PICK j \in (k+1+1)..Len(q) : GoneAt(q, j, h)
      BY <2>2, <2>3
    <3>2. j - 1 \in (k+1)..Len(q2) /\ j \in 1..Len(q) /\ j # 1
      BY <1>1
    <3> QED
      BY <1>3, <3>1, <3>2
  <2> QED
    BY <1>2, <2>2, <2>3
<1> QED
  BY <1>4, <1>5, <1>6, <1>7 DEF Catch

(* The pot exchanges H for N, and the update u says so.                      *)
LEMMA CatchExtend ==
    ASSUME NEW q, NEW u, NEW q2, Extend(q, u, q2), NEW P, NEW R, Catch(q, P, R),
           NEW H, H \subseteq P, NEW N, Tracked(u) = N,
           \A g \in P : g.id \in Ended(u) <=> \E h \in H : g.id = h.id,
           \A g \in H : g.id \in Ended(u),
           \A h \in N : h.id \notin Ended(u),
           \A h \in N : \A k \in 1..Len(q) : ~GoneAt(q, k, h),
           \A g \in P : \A h \in H : g.id = h.id => g = h
    PROVE  Catch(q2, (P \ H) \cup N, R)
<1> DEFINE m == Len(q) + 1
           P2 == (P \ H) \cup N
<1>1. /\ Len(q) \in Nat /\ Len(q2) = m /\ m \in 1..Len(q2)
      /\ \A k \in 1..Len(q) : k \in 1..Len(q2) /\ q2[k] = q[k]
      /\ q2[m] = u
      /\ \A k \in 1..Len(q2) : k # m => k \in 1..Len(q)
  BY DEF Extend
<1>2. \A k \in 1..Len(q) : \A h : /\ MadeAt(q2, k, h) <=> MadeAt(q, k, h)
                                  /\ GoneAt(q2, k, h) <=> GoneAt(q, k, h)
  BY <1>1 DEF MadeAt, GoneAt
<1>3. \A h : (MadeAt(q2, m, h) <=> h \in N) /\ (GoneAt(q2, m, h) <=> h.id \in Ended(u))
  BY <1>1 DEF MadeAt, GoneAt
<1>4. ASSUME NEW h \in P2 PROVE h \in R \/ \E k \in 1..Len(q2) : MadeAt(q2, k, h)
  <2>1. CASE h \in N
    BY <1>1, <1>3, <2>1
  <2>2. CASE h \in P
    BY <1>1, <1>2, <2>2 DEF Catch
  <2> QED
    BY <2>1, <2>2
<1>5. ASSUME NEW h \in P2, NEW k \in 1..Len(q2) PROVE ~GoneAt(q2, k, h)
  <2>1. CASE h \in N
    BY <1>1, <1>2, <1>3, <2>1
  <2>2. CASE h \in P \ H
    <3>1. h.id \notin Ended(u)
      BY <2>2
    <3>2. \A j \in 1..Len(q) : ~GoneAt(q, j, h)
      BY <2>2 DEF Catch
    <3> QED
      BY <1>1, <1>2, <1>3, <3>1, <3>2
  <2> QED
    BY <2>1, <2>2
<1>6. ASSUME NEW h \in R \ P2 PROVE \E k \in 1..Len(q2) : GoneAt(q2, k, h)
  <2>1. CASE h \in H
    BY <1>1, <1>3, <2>1
  <2>2. CASE h \notin P
    BY <1>1, <1>2, <2>2 DEF Catch
  <2> QED
    BY <2>1, <2>2
<1>7. ASSUME NEW k \in 1..Len(q2), NEW h \in Tracked(q2[k])
      PROVE  /\ ~GoneAt(q2, k, h)
             /\ h \notin P2 => \E j \in (k+1)..Len(q2) : GoneAt(q2, j, h)
  <2>1. CASE k = m
    BY <1>1, <1>3, <2>1
  <2>2. CASE k # m
    <3>1. k \in 1..Len(q) /\ h \in Tracked(q[k])
      BY <1>1, <2>2
    <3>2. ~GoneAt(q2, k, h)
      BY <1>2, <3>1 DEF Catch
    <3>3. ASSUME h \notin P2 PROVE \E j \in (k+1)..Len(q2) : GoneAt(q2, j, h)
      <4>1. CASE h \in H
        <5>1. m \in (k+1)..Len(q2)
          BY <1>1, <3>1
        <5> QED
          BY <1>3, <4>1, <5>1
      <4>2. CASE h \notin P
        <5>1. PICK j \in (k+1)..Len(q) : GoneAt(q, j, h)
          BY <3>1, <4>2 DEF Catch
        <5>2. j \in 1..Len(q) /\ j \in (k+1)..Len(q2)
          BY <1>1, <3>1
        <5> QED
          BY <1>2, <5>1, <5>2
      <4> QED
        BY <3>3, <4>1, <4>2
    <3> QED
      BY <3>2, <3>3
  <2> QED
    BY <2>1, <2>2
<1> QED
  BY <1>4, <1>5, <1>6, <1>7 DEF Catch

(* It does no harm to be told everything twice.                              *)
LEMMA CatchRepeat ==
    ASSUME NEW q, NEW q2, Repeat(q, q2), NEW P, NEW R, Catch(q, P, R)
    PROVE  Catch(q2, P, R)
<1>1. /\ Len(q) \in Nat /\ Len(q2) = Len(q) + Len(q)
      /\ \A k \in 1..Len(q) : /\ k \in 1..Len(q2) /\ q2[k] = q[k]
                              /\ Len(q) + k \in 1..Len(q2) /\ q2[Len(q) + k] = q[k]
  BY DEF Repeat
<1>2. \A k \in 1..Len(q2) :
        \/ k \in 1..Len(q)
        \/ k - Len(q) \in 1..Len(q) /\ k = Len(q) + (k - Len(q)) /\ k \notin 1..Len(q)
  BY <1>1
<1>3. \A k \in 1..Len(q2) : \E j \in 1..Len(q) : q2[k] = q[j]
  BY RepeatAt
<1>4. ASSUME NEW h \in P PROVE h \in R \/ \E k \in 1..Len(q2) : MadeAt(q2, k, h)
  BY <1>1 DEF Catch, MadeAt
<1>5. ASSUME NEW h \in P, NEW k \in 1..Len(q2) PROVE ~GoneAt(q2, k, h)
  BY <1>3 DEF Catch, GoneAt
<1>6. ASSUME NEW h \in R \ P PROVE \E k \in 1..Len(q2) : GoneAt(q2, k, h)
  BY <1>1 DEF Catch, GoneAt
<1>7. ASSUME NEW k \in 1..Len(q2), NEW h \in Tracked(q2[k])
      PROVE  /\ ~GoneAt(q2, k, h)
             /\ h \notin P => \E j \in (k+1)..Len(q2) : GoneAt(q2, j, h)
  <2>1. PICK b \in {0, Len(q)} : k - b \in 1..Len(q) /\ q2[k] = q[k-b]
    BY <1>1, <1>2
  <2>2. /\ ~GoneAt(q, k-b, h)
        /\ h \notin P => \E j \in (k-b+1)..Len(q) : GoneAt(q, j, h)
    BY <2>1 DEF Catch
  <2>3. ~GoneAt(q2, k, h)
    BY <2>1, <2>2 DEF GoneAt
  <2>4. ASSUME h \notin P PROVE \E j \in (k+1)..Len(q2) : GoneAt(q2, j, h)
    <3>1. PICK j \in (k-b+1)..Len(q) : GoneAt(q, j, h)
      BY <2>2, <2>4
    <3>2. j \in 1..Len(q) /\ j + b \in (k+1)..Len(q2) /\ q2[j+b] = q[j]
      BY <1>1, <2>1
    <3> QED
      BY <3>1, <3>2 DEF GoneAt
  <2> QED
    BY <2>3, <2>4
<1> QED
  BY <1>4, <1>5, <1>6, <1>7 DEF Catch

-------------------------------------------------------------------------------
(* The rows of the payouts catch up *)

(* What update u does to the row of payout i, as E13 and E14 have it.        *)
NextRow(t, r, u, i) ==
    IF r[i] = "none"
    THEN IF Offer(t, i) \in u.created /\ t # "unstamped" THEN "offered" ELSE "none"
    ELSE IF Offer(t, i) \in u.archived THEN "accepted" ELSE r[i]

LEMMA ToldBehead ==
    ASSUME NEW q, NEW q2, Behead(q, q2), NEW t, t = "twoStep", NEW p, NEW r, Told(q, t, p, r),
           NEW r2, \A i \in Payouts : r2[i] = NextRow(t, r, q[1], i)
    PROVE  Told(q2, t, p, r2)
<1>1. /\ Len(q) \in Nat \ {0} /\ Len(q2) = Len(q) - 1
      /\ \A k \in 1..Len(q2) : k + 1 \in 1..Len(q) /\ q2[k] = q[k+1]
      /\ \A k \in 1..Len(q) : k # 1 => k - 1 \in 1..Len(q2) /\ q2[k-1] = q[k]
      /\ 1 \in 1..Len(q)
  BY DEF Behead
<1> SUFFICES ASSUME NEW i \in Payouts
             PROVE  /\ p[i] # "none" <=>
                          r2[i] # "none" \/ \E k \in 1..Len(q2) : OfferedAt(q2, k, t, i)
                    /\ p[i] \in {"accepted", "rejected"} <=>
                          \/ r2[i] = "accepted"
                          \/ \E k \in 1..Len(q2) : TakenAt(q2, k, t, i)
                    /\ \A k \in 1..Len(q2) : TakenAt(q2, k, t, i) =>
                          \/ r2[i] # "none"
                          \/ \E j \in 1..(k-1) : OfferedAt(q2, j, t, i)
  BY DEF Told
<1>2. /\ p[i] # "none" <=> r[i] # "none" \/ \E k \in 1..Len(q) : OfferedAt(q, k, t, i)
      /\ p[i] \in {"accepted", "rejected"} <=>
            \/ r[i] = "accepted"
            \/ \E k \in 1..Len(q) : TakenAt(q, k, t, i)
      /\ \A k \in 1..Len(q) : TakenAt(q, k, t, i) =>
            \/ r[i] # "none"
            \/ \E j \in 1..(k-1) : OfferedAt(q, j, t, i)
  BY DEF Told
<1>3. \A k \in 1..Len(q2) : /\ OfferedAt(q2, k, t, i) <=> OfferedAt(q, k+1, t, i)
                            /\ TakenAt(q2, k, t, i) <=> TakenAt(q, k+1, t, i)
  BY <1>1 DEF OfferedAt, TakenAt
<1>4. \A k \in 1..Len(q) : k # 1 =>
          /\ OfferedAt(q2, k-1, t, i) <=> OfferedAt(q, k, t, i)
          /\ TakenAt(q2, k-1, t, i) <=> TakenAt(q, k, t, i)
  BY <1>1 DEF OfferedAt, TakenAt
<1>5. r2[i] = IF r[i] = "none" THEN IF OfferedAt(q, 1, t, i) THEN "offered" ELSE "none"
              ELSE IF TakenAt(q, 1, t, i) THEN "accepted" ELSE r[i]
  BY DEF NextRow, OfferedAt, TakenAt
<1>6. (\E k \in 1..Len(q) : OfferedAt(q, k, t, i)) <=>
          OfferedAt(q, 1, t, i) \/ \E k \in 1..Len(q2) : OfferedAt(q2, k, t, i)
  BY <1>1, <1>3, <1>4
<1>7. (\E k \in 1..Len(q) : TakenAt(q, k, t, i)) <=>
          TakenAt(q, 1, t, i) \/ \E k \in 1..Len(q2) : TakenAt(q2, k, t, i)
  BY <1>1, <1>3, <1>4
<1>8. TakenAt(q, 1, t, i) => r[i] # "none"
  BY <1>1, <1>2
<1>9. ASSUME NEW k \in 1..Len(q2), TakenAt(q2, k, t, i)
      PROVE  r2[i] # "none" \/ \E j \in 1..(k-1) : OfferedAt(q2, j, t, i)
  <2>1. k + 1 \in 1..Len(q) /\ TakenAt(q, k+1, t, i)
    BY <1>1, <1>3, <1>9
  <2>2. r[i] # "none" \/ \E j \in 1..((k+1)-1) : OfferedAt(q, j, t, i)
    BY <1>2, <2>1
  <2>3. CASE r[i] # "none"
    BY <1>5, <2>3
  <2>4. CASE OfferedAt(q, 1, t, i)
    BY <1>5, <2>4
  <2>5. ASSUME NEW j \in 1..((k+1)-1), OfferedAt(q, j, t, i), j # 1
        PROVE  \E l \in 1..(k-1) : OfferedAt(q2, l, t, i)
    <3>1. j \in 1..Len(q) /\ j - 1 \in 1..(k-1)
      BY <1>1, <2>1, <2>5
    <3> QED
      BY <1>4, <2>5, <3>1
  <2> QED
    BY <2>2, <2>3, <2>4, <2>5
<1> QED
  BY <1>2, <1>5, <1>6, <1>7, <1>8, <1>9

LEMMA LoggedBehead ==
    ASSUME NEW q, NEW q2, Behead(q, q2), NEW t, NEW p, NEW a, Logged(q, t, p, a),
           NEW b, \A i \in Payouts : i \in b <=> i \in a \/ OfferedAt(q, 1, t, i)
    PROVE  Logged(q2, t, p, b)
<1>1. /\ Len(q) \in Nat \ {0} /\ Len(q2) = Len(q) - 1
      /\ \A k \in 1..Len(q2) : k + 1 \in 1..Len(q) /\ q2[k] = q[k+1]
      /\ \A k \in 1..Len(q) : k # 1 => k - 1 \in 1..Len(q2) /\ q2[k-1] = q[k]
      /\ 1 \in 1..Len(q)
  BY DEF Behead
<1>2. \A i : (\E k \in 1..Len(q) : OfferedAt(q, k, t, i)) <=>
          OfferedAt(q, 1, t, i) \/ \E k \in 1..Len(q2) : OfferedAt(q2, k, t, i)
  BY <1>1 DEF OfferedAt
<1> QED
  BY <1>2 DEF Logged

LEMMA StatusBehead ==
    ASSUME NEW q, NEW q2, Behead(q, q2), NEW t, NEW p, NEW r, NEW a,
           StatusFollows(q, t, p, r, a),
           NEW r2, \A i \in Payouts : r2[i] = NextRow(t, r, q[1], i),
           NEW b, t = "unstamped" =>
                     \A i \in Payouts : i \in b <=> i \in a \/ OfferedAt(q, 1, t, i)
    PROVE  StatusFollows(q2, t, p, r2, b)
<1>1. Quiet(q, t) => Quiet(q2, t)
  BY DEF Quiet, OfferedAt, Behead
<1> QED
  BY <1>1, ToldBehead, LoggedBehead DEF StatusFollows

(* Update u is about payout i what its status does from p to p2.             *)
Says(u, t, p, p2, i) ==
    \/ /\ p2[i] = p[i] /\ Offer(t, i) \notin u.created /\ Offer(t, i) \notin u.archived
    \/ /\ p[i] = "none" /\ p2[i] = "pending"
       /\ Offer(t, i) \in u.created /\ Offer(t, i) \notin u.archived
    \/ /\ p[i] = "pending" /\ p2[i] \in {"accepted", "rejected"}
       /\ Offer(t, i) \notin u.created /\ Offer(t, i) \in u.archived

LEMMA ExtendAt ==
    ASSUME NEW q, NEW u, NEW q2, Extend(q, u, q2), NEW t, NEW i
    PROVE  /\ (\E k \in 1..Len(q2) : OfferedAt(q2, k, t, i)) <=>
                 \/ \E k \in 1..Len(q) : OfferedAt(q, k, t, i)
                 \/ Offer(t, i) \in u.created
           /\ (\E k \in 1..Len(q2) : TakenAt(q2, k, t, i)) <=>
                 \/ \E k \in 1..Len(q) : TakenAt(q, k, t, i)
                 \/ Offer(t, i) \in u.archived
<1> DEFINE m == Len(q) + 1
<1>1. /\ Len(q) \in Nat /\ Len(q2) = m /\ m \in 1..Len(q2)
      /\ \A k \in 1..Len(q) : k \in 1..Len(q2) /\ q2[k] = q[k]
      /\ q2[m] = u
      /\ \A k \in 1..Len(q2) : k # m => k \in 1..Len(q)
  BY DEF Extend
<1> HIDE DEF m
<1> QED
  BY <1>1 DEF OfferedAt, TakenAt

LEMMA ToldExtend ==
    ASSUME NEW q, NEW u, NEW q2, Extend(q, u, q2), NEW t, NEW p, NEW r, Told(q, t, p, r),
           NEW p2, \A i \in Payouts : Says(u, t, p, p2, i)
    PROVE  Told(q2, t, p2, r)
<1> SUFFICES ASSUME NEW i \in Payouts
             PROVE  /\ p2[i] # "none" <=>
                          r[i] # "none" \/ \E k \in 1..Len(q2) : OfferedAt(q2, k, t, i)
                    /\ p2[i] \in {"accepted", "rejected"} <=>
                          \/ r[i] = "accepted"
                          \/ \E k \in 1..Len(q2) : TakenAt(q2, k, t, i)
                    /\ \A k \in 1..Len(q2) : TakenAt(q2, k, t, i) =>
                          \/ r[i] # "none"
                          \/ \E j \in 1..(k-1) : OfferedAt(q2, j, t, i)
  BY DEF Told
<1>1. /\ p[i] # "none" <=> r[i] # "none" \/ \E k \in 1..Len(q) : OfferedAt(q, k, t, i)
      /\ p[i] \in {"accepted", "rejected"} <=>
            \/ r[i] = "accepted"
            \/ \E k \in 1..Len(q) : TakenAt(q, k, t, i)
      /\ \A k \in 1..Len(q) : TakenAt(q, k, t, i) =>
            \/ r[i] # "none"
            \/ \E j \in 1..(k-1) : OfferedAt(q, j, t, i)
  BY DEF Told
<1>2. Says(u, t, p, p2, i)
  OBVIOUS
<1>3. p2[i] # "none" <=> r[i] # "none" \/ \E k \in 1..Len(q2) : OfferedAt(q2, k, t, i)
  BY <1>1, <1>2, ExtendAt DEF Says
<1>4. p2[i] \in {"accepted", "rejected"} <=>
         \/ r[i] = "accepted"
         \/ \E k \in 1..Len(q2) : TakenAt(q2, k, t, i)
  BY <1>1, <1>2, ExtendAt DEF Says
<1>5. ASSUME NEW k \in 1..Len(q2), TakenAt(q2, k, t, i)
      PROVE  r[i] # "none" \/ \E j \in 1..(k-1) : OfferedAt(q2, j, t, i)
  <2>1. /\ Len(q) \in Nat /\ Len(q2) = Len(q) + 1 /\ q2[Len(q) + 1] = u
        /\ \A j \in 1..Len(q) : q2[j] = q[j]
    BY DEF Extend
  <2>2. CASE k \in 1..Len(q)
    <3>1. TakenAt(q, k, t, i)
      BY <1>5, <2>1, <2>2 DEF TakenAt
    <3>2. r[i] # "none" \/ \E j \in 1..(k-1) : OfferedAt(q, j, t, i)
      BY <1>1, <2>2, <3>1
    <3>3. \A j \in 1..(k-1) : OfferedAt(q, j, t, i) <=> OfferedAt(q2, j, t, i)
      BY <2>1, <2>2 DEF OfferedAt
    <3> QED
      BY <3>2, <3>3
  <2>3. CASE k = Len(q) + 1
    <3>1. p[i] = "pending"
      BY <1>2, <1>5, <2>1, <2>3 DEF Says, TakenAt
    <3>2. r[i] # "none" \/ \E j \in 1..Len(q) : OfferedAt(q, j, t, i)
      BY <1>1, <3>1
    <3>3. \A j \in 1..Len(q) : j \in 1..(k-1) /\ (OfferedAt(q, j, t, i) <=> OfferedAt(q2, j, t, i))
      BY <2>1, <2>3 DEF OfferedAt
    <3> QED
      BY <3>2, <3>3
  <2> QED
    BY <2>1, <2>2, <2>3
<1> QED
  BY <1>3, <1>4, <1>5

LEMMA StatusExtend ==
    ASSUME NEW q, NEW u, NEW q2, Extend(q, u, q2), NEW t, NEW p, NEW r, NEW a,
           StatusFollows(q, t, p, r, a), NEW p2,
           t \in {"twoStep", "unstamped"} => \A i \in Payouts : Says(u, t, p, p2, i),
           t \in {"demo", "oneStep"} => \A i \in Payouts : Offer(t, i) \notin u.created
    PROVE  StatusFollows(q2, t, p2, r, a)
<1>1. t = "twoStep" => Told(q2, t, p2, r)
  BY ToldExtend DEF StatusFollows
<1>2. t = "unstamped" => Logged(q2, t, p2, a)
  <2> SUFFICES ASSUME t = "unstamped", NEW i \in Payouts
               PROVE  p2[i] # "none" <=>
                        i \in a \/ \E k \in 1..Len(q2) : OfferedAt(q2, k, t, i)
    BY DEF Logged
  <2>1. p[i] # "none" <=> i \in a \/ \E k \in 1..Len(q) : OfferedAt(q, k, t, i)
    BY DEF StatusFollows, Logged
  <2> QED
    BY <2>1, ExtendAt DEF Says
<1>3. t \in {"demo", "oneStep"} => Quiet(q2, t)
  <2> SUFFICES ASSUME t \in {"demo", "oneStep"}, NEW i \in Payouts
               PROVE  ~ \E k \in 1..Len(q2) : OfferedAt(q2, k, t, i)
    BY DEF Quiet
  <2>1. ~ \E k \in 1..Len(q) : OfferedAt(q, k, t, i)
    BY DEF StatusFollows, Quiet
  <2> QED
    BY <2>1, ExtendAt
<1> QED
  BY <1>1, <1>2, <1>3 DEF StatusFollows

LEMMA StatusRepeat ==
    ASSUME NEW q, NEW q2, Repeat(q, q2), NEW t, NEW p, NEW r, NEW a,
           StatusFollows(q, t, p, r, a)
    PROVE  StatusFollows(q2, t, p, r, a)
<1>1. /\ Len(q) \in Nat /\ Len(q2) = Len(q) + Len(q)
      /\ \A k \in 1..Len(q) : k \in 1..Len(q2) /\ q2[k] = q[k]
  BY DEF Repeat
<1>2. \A k \in 1..Len(q2) : \E j \in 1..Len(q) : q2[k] = q[j] /\ (k =< Len(q) => j = k)
  BY RepeatAt
<1>3. \A i : /\ (\E k \in 1..Len(q2) : OfferedAt(q2, k, t, i)) <=>
                   \E k \in 1..Len(q) : OfferedAt(q, k, t, i)
             /\ (\E k \in 1..Len(q2) : TakenAt(q2, k, t, i)) <=>
                   \E k \in 1..Len(q) : TakenAt(q, k, t, i)
  BY <1>1, <1>2 DEF OfferedAt, TakenAt
<1>4. Told(q, t, p, r) => Told(q2, t, p, r)
  <2> SUFFICES ASSUME Told(q, t, p, r), NEW i \in Payouts,
                      NEW k \in 1..Len(q2), TakenAt(q2, k, t, i), r[i] = "none"
               PROVE  \E j \in 1..(k-1) : OfferedAt(q2, j, t, i)
    BY <1>3 DEF Told
  <2>1. PICK l \in 1..Len(q) : q2[k] = q[l] /\ (k =< Len(q) => l = k)
    BY <1>2
  <2>2. PICK j \in 1..(l-1) : OfferedAt(q, j, t, i)
    BY <2>1 DEF Told, TakenAt
  <2>3. j \in 1..(k-1) /\ j \in 1..Len(q)
    BY <1>1, <2>1
  <2> QED
    BY <1>1, <2>2, <2>3 DEF OfferedAt
<1>5. (Logged(q, t, p, a) => Logged(q2, t, p, a)) /\ (Quiet(q, t) => Quiet(q2, t))
  BY <1>3 DEF Logged, Quiet
<1> QED
  BY <1>4, <1>5 DEF StatusFollows

-------------------------------------------------------------------------------
(* Updates *)

LEMMA OfferIs == \A i : Instruction(i) = Offer(token, i)
BY DEF Instruction, Offer

(* An id is of the pot or of a transfer. *)
LEMMA IdsApart ==
    ASSUME NEW i \in Transfers, NEW n \in Nat
    PROVE  i \notin {"pot"} \X (1..n)
BY PotConstants DEF Transfers, Payouts

LEMMA UpdatesGrow ==
    ASSUME NEW t, NEW n \in Nat, NEW m \in Nat, n =< m
    PROVE  /\ HoldingsTo(n) \subseteq HoldingsTo(m)
           /\ Updates(t, n) \subseteq Updates(t, m)
           /\ Seq(Updates(t, n)) \subseteq Seq(Updates(t, m))
<1>1. HoldingsTo(n) \subseteq HoldingsTo(m)
  BY DEF HoldingsTo
<1>2. OfPot(HoldingsTo(n)) \subseteq OfPot(HoldingsTo(m))
  BY <1>1 DEF OfPot
<1>3. Contracts(t, n) \subseteq Contracts(t, m)
  BY <1>2 DEF Contracts
<1>4. Updates(t, n) \subseteq Updates(t, m)
  BY <1>2, <1>3 DEF Updates
<1> QED
  BY <1>1, <1>4

LEMMA PotContract ==
    ASSUME NEW N, NEW n, N \subseteq HoldingsTo(n), NEW h
    PROVE  [kind |-> "holding", id |-> h.id, owner |-> "pot", amount |-> h.amount] \in OfPot(N)
             <=> \E g \in N : g.id = h.id /\ g.amount = h.amount
<1> DEFINE rec(g) == [kind |-> "holding", id |-> g.id, owner |-> "pot", amount |-> g.amount]
<1>1. \A g : rec(g).id = g.id /\ rec(g).amount = g.amount
  OBVIOUS
<1>2. \A g : rec(h) = rec(g) => g.id = h.id /\ g.amount = h.amount
  BY <1>1
<1>3. \A g : g.id = h.id /\ g.amount = h.amount => rec(h) = rec(g)
  OBVIOUS
<1>4. rec(h) \in OfPot(N) <=> \E g \in N : rec(h) = rec(g)
  BY DEF OfPot
<1> QED
  BY <1>2, <1>3, <1>4

LEMMA TrackedIs ==
    ASSUME NEW n, NEW N, N \subseteq HoldingsTo(n), NEW t,
           NEW C, C \subseteq {Received(i) : i \in Transfers} \cup Offers(t),
           NEW u, u.created = OfPot(N) \cup C
    PROVE  Tracked(u) = N
<1> DEFINE own == {x \in u.created : x.kind = "holding" /\ x.owner = "pot"}
<1>1. \A c \in OfPot(N) : c.kind = "holding" /\ c.owner = "pot"
  BY DEF OfPot
<1>2. \A c \in C : c.kind = "holding" => c.owner = "attendee"
  BY DEF Received, Offers, Offer
<1>3. own = OfPot(N)
  BY <1>1, <1>2
<1>4. \A h \in N : h = [id |-> h.id, amount |-> h.amount]
  BY DEF HoldingsTo
<1> HIDE DEF own
<1> DEFINE rec(h) == [kind |-> "holding", id |-> h.id, owner |-> "pot", amount |-> h.amount]
           back(c) == [id |-> c.id, amount |-> c.amount]
<1>5. {back(c) : c \in OfPot(N)} = N
  <2>1. \A c : c \in OfPot(N) <=> \E h \in N : c = rec(h)
    BY DEF OfPot
  <2>2. \A h : rec(h).id = h.id /\ rec(h).amount = h.amount
    OBVIOUS
  <2>3. \A h \in N : back(rec(h)) = h
    BY <1>4, <2>2
  <2> HIDE DEF rec, back
  <2> QED
    BY <2>1, <2>3
<1> QED
  BY <1>3, <1>5 DEF Tracked, own

LEMMA PotIds ==
    ASSUME NEW H, NEW x PROVE (\E c \in OfPot(H) : c.id = x) <=> \E g \in H : g.id = x
<1> DEFINE rec(h) == [kind |-> "holding", id |-> h.id, owner |-> "pot", amount |-> h.amount]
<1>1. \A c : c \in OfPot(H) <=> \E h \in H : c = rec(h)
  BY DEF OfPot
<1>2. \A h : rec(h).id = h.id
  OBVIOUS
<1> HIDE DEF rec
<1> QED
  BY <1>1, <1>2

LEMMA OffersOf ==
    ASSUME NEW N, NEW C, NEW t, NEW i
    PROVE  Offer(t, i) \in OfPot(N) \cup C <=> Offer(t, i) \in C
BY DEF Offer, OfPot

LEMMA UpdateTyped ==
    ASSUME NEW t, NEW n, NEW N, N \subseteq HoldingsTo(n), NEW H, H \subseteq HoldingsTo(n),
           NEW C, C \subseteq {Received(i) : i \in Transfers} \cup Offers(t),
           NEW A, A \subseteq Offers(t)
    PROVE  [created |-> OfPot(N) \cup C, archived |-> OfPot(H) \cup A] \in Updates(t, n)
<1>1. OfPot(N) \subseteq OfPot(HoldingsTo(n)) /\ OfPot(H) \subseteq OfPot(HoldingsTo(n))
  BY DEF OfPot
<1> QED
  BY <1>1 DEF Updates, Contracts

(* What an update tracks, and which offers it makes.                         *)
LEMMA UpdateReads ==
    ASSUME NEW t, NEW n, NEW u \in Updates(t, n)
    PROVE  /\ Tracked(u) \subseteq HoldingsTo(n)
           /\ \A c \in u.created : c.kind = "transfer" => c \in Offers(t)
           /\ \A c \in u.archived : c.kind = "transfer" => c \in Offers(t)
<1>1. \A c \in OfPot(HoldingsTo(n)) : /\ c.kind = "holding"
                                      /\ [id |-> c.id, amount |-> c.amount] \in HoldingsTo(n)
  BY DEF OfPot, HoldingsTo
<1>2. \A i : Received(i).kind = "holding" /\ Received(i).owner = "attendee"
  BY DEF Received
<1>3. \A c \in Offers(t) : c.kind = "transfer"
  BY DEF Offers, Offer
<1>4. u.created \subseteq Contracts(t, n)
      /\ u.archived \subseteq OfPot(HoldingsTo(n)) \cup Offers(t)
  BY DEF Updates
<1>5. \A c \in u.created : c.kind = "transfer" => c \in Offers(t)
  BY <1>1, <1>2, <1>4 DEF Contracts
<1>6. \A c \in u.archived : c.kind = "transfer" => c \in Offers(t)
  BY <1>1, <1>4
<1>7. \A c \in u.created : c.kind = "holding" /\ c.owner = "pot" => c \in OfPot(HoldingsTo(n))
  BY <1>2, <1>3, <1>4 DEF Contracts
<1>8. Tracked(u) \subseteq HoldingsTo(n)
  BY <1>1, <1>7 DEF Tracked
<1> QED
  BY <1>5, <1>6, <1>8

(* The handlers E13 and E14 read an update as NextRow does.                  *)
LEMMA RowsRead ==
    ASSUME NEW n, NEW u \in Updates(token, n)
    PROVE  /\ \A i \in Payouts : PayoutRow(i, u) = NextRow(token, payoutRows, u, i)
           /\ payoutRows[Deposit] = "none" => PayoutRow(Deposit, u) = "none"
           /\ {c.id : c \in {x \in Offered(u) : ~x.stamped}} =
                 {i \in Payouts : token = "unstamped" /\ Offer(token, i) \in u.created}
<1> DEFINE O(i) == Offer(token, i)
<1>1. /\ \A c \in u.created : c.kind = "transfer" => \E j \in Transfers : c = O(j)
      /\ \A c \in u.archived : c.kind = "transfer" => \E j \in Transfers : c = O(j)
  BY UpdateReads DEF Offers
<1>2. \A j : O(j).kind = "transfer" /\ O(j).id = j
  BY DEF Offer
<1>3. /\ O(Deposit).sender = "other" /\ O(Deposit).stamped = FALSE
      /\ \A j \in Payouts : /\ O(j).sender = "pot"
                            /\ O(j).stamped <=> token # "unstamped"
  BY PotConstants DEF Offer
<1> HIDE DEF O
<1>4. \A i : (\E c \in u.archived : c.kind = "transfer" /\ c.id = i) <=>
               i \in Transfers /\ O(i) \in u.archived
  <2> SUFFICES ASSUME NEW i, O(i) \in u.archived PROVE i \in Transfers
    BY <1>1, <1>2
  <2> QED
    BY <1>1, <1>2
<1>5. \A c : c \in Offered(u) <=> \E j \in Payouts : c = O(j) /\ c \in u.created
  BY <1>1, <1>2, <1>3 DEF Offered, Transfers
<1>6. \A i : (\E c \in Offered(u) : c.id = i /\ c.stamped) <=>
               i \in Payouts /\ O(i) \in u.created /\ token # "unstamped"
  BY <1>2, <1>3, <1>5
<1>7. \A i \in Payouts : PayoutRow(i, u) = NextRow(token, payoutRows, u, i)
  BY <1>4, <1>6 DEF PayoutRow, NextRow, Transfers, O
<1>8. payoutRows[Deposit] = "none" => PayoutRow(Deposit, u) = "none"
  BY <1>6, PotConstants DEF PayoutRow
<1>9. \A i : i \in {c.id : c \in {x \in Offered(u) : ~x.stamped}} <=>
               i \in Payouts /\ token = "unstamped" /\ O(i) \in u.created
  BY <1>2, <1>3, <1>5
<1> QED
  BY <1>7, <1>8, <1>9 DEF O

-------------------------------------------------------------------------------
(* The indexer's steps *)

LEMMA OneEachPart ==
    ASSUME NEW S, OneEach(S), NEW T, T \subseteq S PROVE OneEach(T)
BY DEF OneEach

LEMMA MadeBehead ==
    ASSUME NEW q, NEW q2, Behead(q, q2)
    PROVE  MadeIn(q2) \subseteq MadeIn(q) /\ Tracked(q[1]) \subseteq MadeIn(q)
<1>1. /\ \A k \in 1..Len(q2) : k + 1 \in 1..Len(q) /\ q2[k] = q[k+1]
      /\ 1 \in 1..Len(q)
  BY DEF Behead
<1> QED
  BY <1>1 DEF MadeIn

(* One update is handled: the first of the queue, and of what would be sent. *)
LEMMA ProjectFeed ==
    ASSUME RowsFollow, Project
    PROVE  /\ Behead(queue, queue') /\ queue' \in Seq(Updates(token, minted))
           /\ queue[1] \in Updates(token, minted) /\ Head(queue) = queue[1]
           /\ resend' \in Seq(Updates(token, minted))
           /\ \/ Behead(resend, resend') /\ resend[1] = queue[1]
              \/ resend' = queue'
           /\ Len(resend') =< Len(queue') /\ Len(queue') =< MaxQueue
           /\ stale' \in 0..Len(resend')
           /\ \A k \in 1..stale' : queue'[k] = resend'[k]
<1>1. /\ queue \in Seq(Updates(token, minted)) /\ resend \in Seq(Updates(token, minted))
      /\ Len(resend) =< Len(queue) /\ Len(queue) =< MaxQueue
      /\ stale \in 0..Len(resend) /\ \A k \in 1..stale : queue[k] = resend[k]
      /\ Len(queue) \in Nat /\ Len(resend) \in Nat
  BY DEF RowsFollow, FeedOK
<1>2. queue # <<>> /\ queue' = Tail(queue)
  BY DEF Project
<1>3. /\ Behead(queue, queue') /\ queue' \in Seq(Updates(token, minted))
      /\ queue[1] \in Updates(token, minted) /\ Head(queue) = queue[1]
  BY <1>1, <1>2, TailIs
<1>4. CASE stale > 0
  <2>1. resend' = Tail(resend) /\ stale' = stale - 1
    BY <1>4 DEF Project
  <2>2. resend # <<>> /\ 1 \in 1..stale
    BY <1>1, <1>4
  <2>3. /\ Behead(resend, resend') /\ resend[1] = queue[1]
        /\ resend' \in Seq(Updates(token, minted))
    BY <1>1, <2>1, <2>2, TailIs
  <2>4. /\ Len(queue') = Len(queue) - 1 /\ Len(resend') = Len(resend) - 1
        /\ \A k \in 1..Len(queue') : queue'[k] = queue[k+1]
        /\ \A k \in 1..Len(resend') : resend'[k] = resend[k+1]
    BY <1>3, <2>3 DEF Behead
  <2>5. stale' \in 0..Len(resend') /\ Len(resend') =< Len(queue') /\ Len(queue') =< MaxQueue
    BY <1>1, <1>4, <2>1, <2>4, PotConstants
  <2>6. \A k \in 1..stale' : k + 1 \in 1..stale /\ k \in 1..Len(queue') /\ k \in 1..Len(resend')
    BY <1>1, <2>1, <2>4, <2>5
  <2>7. \A k \in 1..stale' : queue'[k] = resend'[k]
    BY <1>1, <2>4, <2>6
  <2> QED
    BY <1>3, <2>3, <2>5, <2>7
<1>5. CASE ~(stale > 0)
  <2>1. resend' = queue' /\ stale' = 0
    BY <1>2, <1>5 DEF Project
  <2>2. Len(queue') = Len(queue) - 1 /\ Len(queue') \in Nat
    BY <1>1, <1>3 DEF Behead
  <2>3. /\ Len(resend') =< Len(queue') /\ Len(queue') =< MaxQueue
        /\ stale' \in 0..Len(resend')
        /\ \A k \in 1..stale' : queue'[k] = resend'[k]
    BY <1>1, <2>1, <2>2, PotConstants
  <2> QED
    BY <1>3, <2>1, <2>3
<1> QED
  BY <1>4, <1>5

LEMMA ProjectRows ==
    ASSUME MoneyTypeOK, RowsFollow, Project
    PROVE  RowsFollow'
<1> DEFINE u == queue[1]
<1>1. /\ Behead(queue, queue') /\ queue' \in Seq(Updates(token, minted))
      /\ u \in Updates(token, minted) /\ Head(queue) = u
      /\ resend' \in Seq(Updates(token, minted))
      /\ \/ Behead(resend, resend') /\ resend[1] = u
         \/ resend' = queue'
      /\ Len(resend') =< Len(queue') /\ Len(queue') =< MaxQueue
      /\ stale' \in 0..Len(resend')
      /\ \A k \in 1..stale' : queue'[k] = resend'[k]
  BY ProjectFeed
<1>2. UNCHANGED <<token, minted, pot, payout>>
  BY DEF Project, ledgerVars
<1>3. FeedOK'
  BY <1>1, <1>2 DEF FeedOK
<1>4. /\ potRows' = {h \in potRows \cup Tracked(u) : h.id \notin Gone(u)}
      /\ known' = (known \cup {h.id : h \in Tracked(u)}) \ Gone(u)
      /\ payoutRows' = [i \in Transfers |-> PayoutRow(i, u)]
      /\ unattributed' = unattributed \cup {c.id : c \in {x \in Offered(u) : ~x.stamped}}
  BY <1>1 DEF Project
<1>5. /\ potRows \subseteq Holdings /\ known = {h.id : h \in potRows}
      /\ payoutRows \in [Transfers -> PayoutStates] /\ payoutRows[Deposit] = "none"
      /\ unattributed \subseteq Payouts
      /\ token # "unstamped" => unattributed = {}
      /\ token # "twoStep" => \A i \in Payouts : payoutRows[i] = "none"
  BY DEF RowsFollow, RowTypeOK
<1>6. Tracked(u) \subseteq Holdings
  BY <1>1, UpdateReads DEF Holdings, HoldingsTo
<1>7. potRows' = {h \in potRows \cup Tracked(u) : ~GoneAt(queue, 1, h)}
  <2>1. \A h \in Tracked(u) : ~GoneAt(queue, 1, h)
    <3>1. 1 \in 1..Len(queue)
      BY <1>1 DEF Behead
    <3> QED
      BY <3>1 DEF RowsFollow, Catch
  <2>2. Gone(u) = Ended(u) \cap known
    BY DEF Gone, Ended
  <2>3. \A h \in potRows : h.id \in known
    BY <1>5
  <2>4. \A h : h.id \in Ended(u) <=> GoneAt(queue, 1, h)
    BY DEF GoneAt
  <2>5. \A h \in potRows \cup Tracked(u) : h.id \in Gone(u) <=> GoneAt(queue, 1, h)
    BY <2>1, <2>2, <2>3, <2>4
  <2> QED
    BY <1>4, <2>5
<1>8. /\ \A i \in Payouts : payoutRows'[i] = NextRow(token, payoutRows, u, i)
      /\ payoutRows'[Deposit] = "none"
  BY <1>1, <1>4, <1>5, RowsRead DEF Transfers
<1>9. unattributed' =
        unattributed \cup {i \in Payouts : token = "unstamped" /\ Offer(token, i) \in u.created}
  BY <1>1, <1>4, RowsRead
<1>10. RowTypeOK'
  <2>1. potRows' \subseteq Holdings'
    BY <1>2, <1>4, <1>5, <1>6 DEF Holdings
  <2>2. known' = {h.id : h \in potRows'}
    BY <1>4, <1>5
  <2>3. payoutRows' \in [Transfers -> PayoutStates]
    BY <1>4, <1>5 DEF PayoutRow, PayoutStates
  <2>4. unattributed' \subseteq Payouts /\ (token' # "unstamped" => unattributed' = {})
    BY <1>2, <1>5, <1>9
  <2>5. ASSUME token' # "twoStep", NEW i \in Payouts PROVE payoutRows'[i] = "none"
    <3>1. payoutRows[i] = "none" /\ payoutRows'[i] = NextRow(token, payoutRows, u, i)
      BY <1>2, <1>5, <1>8, <2>5
    <3>2. CASE token = "unstamped"
      BY <3>1, <3>2 DEF NextRow
    <3>3. CASE token \in {"demo", "oneStep"}
      <4>1. 1 \in 1..Len(queue)
        BY <1>1 DEF Behead
      <4>2. Offer(token, i) \notin u.created
        BY <3>3, <4>1 DEF RowsFollow, StatusFollows, Quiet, OfferedAt
      <4> QED
        BY <3>1, <4>2 DEF NextRow
    <3> QED
      BY <1>2, <2>5, <3>2, <3>3 DEF MoneyTypeOK
  <2> QED
    BY <1>8, <2>1, <2>2, <2>3, <2>4, <2>5 DEF RowTypeOK
<1>11. OneEach(Seen')
  <2>1. MadeIn(queue') \subseteq MadeIn(queue) /\ Tracked(u) \subseteq MadeIn(queue)
    BY <1>1, MadeBehead
  <2>2. MadeIn(resend') \subseteq MadeIn(queue) \cup MadeIn(resend)
    BY <1>1, <2>1, MadeBehead
  <2>3. Seen' \subseteq Seen
    BY <1>2, <1>4, <2>1, <2>2 DEF Seen
  <2> QED
    BY <2>3, OneEachPart DEF RowsFollow
<1>12. Catch(queue', pot, potRows')
  BY <1>1, <1>7, CatchBehead DEF RowsFollow
<1>13. Catch(resend', pot, potRows')
  <2>1. ASSUME Behead(resend, resend'), resend[1] = u PROVE Catch(resend', pot, potRows')
    <3>1. potRows' = {h \in potRows \cup Tracked(resend[1]) : ~GoneAt(resend, 1, h)}
      BY <1>7, <2>1 DEF GoneAt
    <3> QED
      BY <2>1, <3>1, CatchBehead DEF RowsFollow
  <2> QED
    BY <1>1, <1>12, <2>1
<1>14. \A q : q[1] = u => (token = "unstamped" =>
          \A i \in Payouts : i \in unattributed' <=> i \in unattributed \/ OfferedAt(q, 1, token, i))
  BY <1>9 DEF OfferedAt
<1>15. StatusFollows(queue', token, payout, payoutRows', unattributed')
  BY <1>1, <1>8, <1>14, StatusBehead DEF RowsFollow
<1>16. StatusFollows(resend', token, payout, payoutRows', unattributed')
  <2>1. ASSUME Behead(resend, resend'), resend[1] = u
        PROVE  StatusFollows(resend', token, payout, payoutRows', unattributed')
    BY <1>8, <1>14, <2>1, StatusBehead DEF RowsFollow
  <2> QED
    BY <1>1, <1>15, <2>1
<1> QED
  BY <1>2, <1>3, <1>10, <1>11, <1>12, <1>13, <1>15, <1>16 DEF RowsFollow

(* A new connection, or a new indexer, that repeats what is not committed.   *)
LEMMA ReconnectRows ==
    ASSUME RowsFollow, Reconnect PROVE RowsFollow'
<1>1. /\ queue = resend /\ Len(queue) + Len(resend) =< MaxQueue
      /\ queue' = queue \o queue /\ stale' = Len(queue)
      /\ UNCHANGED <<token, pot, minted, payout, potRows, known, payoutRows, unattributed, resend>>
  BY DEF Reconnect, ledgerVars, rowVars
<1>2. queue \in Seq(Updates(token, minted)) /\ Len(queue) \in Nat
  BY DEF RowsFollow, FeedOK
<1>3. queue' \in Seq(Updates(token, minted)) /\ Repeat(queue, queue')
  BY <1>1, <1>2, RepeatIs
<1>4. FeedOK'
  <2>1. Len(queue') = Len(queue) + Len(queue) /\ \A k \in 1..Len(queue) : queue'[k] = queue[k]
    BY <1>3 DEF Repeat
  <2> QED
    BY <1>1, <1>2, <1>3, <2>1 DEF FeedOK
<1>5. RowTypeOK'
  BY <1>1 DEF RowsFollow, RowTypeOK, Holdings
<1>6. OneEach(Seen')
  <2>1. \A k \in 1..Len(queue') : \E j \in 1..Len(queue) : queue'[k] = queue[j]
    BY <1>3, RepeatAt
  <2>2. MadeIn(queue') \subseteq MadeIn(queue)
    BY <2>1 DEF MadeIn
  <2>3. Seen' \subseteq Seen
    BY <1>1, <2>2 DEF Seen
  <2> QED
    BY <2>3, OneEachPart DEF RowsFollow
<1>7. Catch(queue', pot, potRows)
  BY <1>3, CatchRepeat DEF RowsFollow
<1>8. StatusFollows(queue', token, payout, payoutRows, unattributed)
  BY <1>3, StatusRepeat DEF RowsFollow
<1> QED
  BY <1>1, <1>4, <1>5, <1>6, <1>7, <1>8 DEF RowsFollow

LEMMA RestartRows ==
    ASSUME RowsFollow, Restart PROVE RowsFollow'
<1>1. /\ queue' = resend /\ stale' = 0 /\ known' = {h.id : h \in potRows}
      /\ UNCHANGED <<token, pot, minted, payout, potRows, payoutRows, unattributed, resend>>
  BY DEF Restart, ledgerVars
<1>2. FeedOK'
  <2>1. Len(resend) \in Nat /\ Len(queue) \in Nat /\ MaxQueue \in Nat
    BY PotConstants DEF RowsFollow, FeedOK
  <2> QED
    BY <1>1, <2>1 DEF RowsFollow, FeedOK
<1>3. RowTypeOK'
  BY <1>1 DEF RowsFollow, RowTypeOK, Holdings
<1>4. Seen' \subseteq Seen
  BY <1>1 DEF Seen
<1>5. OneEach(Seen')
  BY <1>4, OneEachPart DEF RowsFollow
<1> QED
  BY <1>1, <1>2, <1>3, <1>5 DEF RowsFollow

-------------------------------------------------------------------------------
(* The ledger's steps *)

(* The update is appended to both queues, if there is anything in it.        *)
LEMMA PublishFeed ==
    ASSUME NEW t, NEW n, NEW C, NEW A, Publish(C, A), C \cup A # {},
           NEW u, u = [created |-> C, archived |-> A], u \in Updates(t, n),
           queue \in Seq(Updates(t, n)), resend \in Seq(Updates(t, n)),
           Len(resend) =< Len(queue), stale \in 0..Len(resend),
           \A k \in 1..stale : queue[k] = resend[k]
    PROVE  /\ Extend(queue, u, queue') /\ Extend(resend, u, resend')
           /\ queue' \in Seq(Updates(t, n)) /\ resend' \in Seq(Updates(t, n))
           /\ Len(resend') =< Len(queue') /\ Len(queue') =< MaxQueue
           /\ stale' \in 0..Len(resend')
           /\ \A k \in 1..stale' : queue'[k] = resend'[k]
<1>1. /\ Len(queue) < MaxQueue
      /\ queue' = Append(queue, u) /\ resend' = Append(resend, u) /\ stale' = stale
  BY DEF Publish
<1>2. /\ Extend(queue, u, queue') /\ queue' \in Seq(Updates(t, n))
      /\ Extend(resend, u, resend') /\ resend' \in Seq(Updates(t, n))
  BY <1>1, AppendIs
<1>3. /\ Len(queue) \in Nat /\ Len(queue') = Len(queue) + 1
      /\ \A k \in 1..Len(queue) : queue'[k] = queue[k]
      /\ Len(resend) \in Nat /\ Len(resend') = Len(resend) + 1
      /\ \A k \in 1..Len(resend) : resend'[k] = resend[k]
  BY <1>2 DEF Extend
<1>4. /\ Len(resend') =< Len(queue') /\ Len(queue') =< MaxQueue
      /\ stale' \in 0..Len(resend')
  BY <1>1, <1>3, PotConstants
<1>5. \A k \in 1..stale' : k \in 1..Len(queue) /\ k \in 1..Len(resend) /\ k \in 1..stale
  BY <1>1, <1>3
<1> QED
  BY <1>2, <1>3, <1>4, <1>5

LEMMA MadeExtend ==
    ASSUME NEW q, NEW u, NEW q2, Extend(q, u, q2)
    PROVE  MadeIn(q2) \subseteq MadeIn(q) \cup Tracked(u)
<1>1. \A k \in 1..Len(q2) : q2[k] = u \/ (k \in 1..Len(q) /\ q2[k] = q[k])
  BY DEF Extend
<1> QED
  BY <1>1 DEF MadeIn

(* Ids that are archived in a queue are of holdings made so far.             *)
LEMMA EndedOld ==
    ASSUME NEW t, NEW n \in Nat, NEW q \in Seq(Updates(t, n)), NEW k \in 1..Len(q),
           NEW m \in Nat, NEW h, h.id = <<"pot", m>>, h.id \in Ended(q[k])
    PROVE  m \in 1..n
<1>1. q[k] \in Updates(t, n)
  OBVIOUS
<1>2. PICK c \in q[k].archived : c.id = h.id
  BY DEF Ended
<1>3. c \in OfPot(HoldingsTo(n)) \cup Offers(t)
  BY <1>1, <1>2 DEF Updates
<1>4. CASE c \in Offers(t)
  <2>1. c.id \in Transfers
    BY <1>4 DEF Offers, Offer
  <2> QED
    BY <1>2, <2>1, PotConstants DEF Transfers, Payouts
<1>5. CASE c \in OfPot(HoldingsTo(n))
  <2>1. PICK g \in HoldingsTo(n) : c.id = g.id
    BY <1>5 DEF OfPot
  <2>2. g.id \in {"pot"} \X (1..n)
    BY <2>1 DEF HoldingsTo
  <2> QED
    BY <1>2, <2>1, <2>2
<1> QED
  BY <1>3, <1>4, <1>5

(* The pot exchanges holdings H for new ones N, the payouts become those of  *)
(* p, and the transaction says so to the indexer.                            *)
Tells(H, N, C, A) ==
    /\ UNCHANGED <<token, rowVars>>
    /\ minted' \in Nat /\ minted =< minted'
    /\ H \subseteq pot /\ pot' = (pot \ H) \cup N
    /\ N \subseteq HoldingsTo(minted') /\ OneEach(N)
    /\ \A h \in N : \E m \in (minted+1)..minted' : h.id = <<"pot", m>>
    /\ C \subseteq {Received(i) : i \in Transfers} \cup Offers(token)
    /\ A \subseteq Offers(token)
    /\ Publish(OfPot(N) \cup C, OfPot(H) \cup A)

TellsStatus(C, A) ==
    /\ token \in {"twoStep", "unstamped"} =>
          \A i \in Payouts :
              \/ /\ payout'[i] = payout[i]
                 /\ Offer(token, i) \notin C /\ Offer(token, i) \notin A
              \/ /\ payout[i] = "none" /\ payout'[i] = "pending"
                 /\ Offer(token, i) \in C /\ Offer(token, i) \notin A
              \/ /\ payout[i] = "pending" /\ payout'[i] \in {"accepted", "rejected"}
                 /\ Offer(token, i) \notin C /\ Offer(token, i) \in A
    /\ token \in {"demo", "oneStep"} => \A i \in Payouts : Offer(token, i) \notin C

LEMMA TellsRows ==
    ASSUME MoneyTypeOK, RowsFollow, NEW H, NEW N, NEW C, NEW A,
           Tells(H, N, C, A), TellsStatus(C, A)
    PROVE  RowsFollow'
<1> DEFINE n == minted'
           u == [created |-> OfPot(N) \cup C, archived |-> OfPot(H) \cup A]
<1>1. /\ minted \in Nat /\ n \in Nat /\ minted =< n
      /\ pot \subseteq HoldingsTo(minted) /\ H \subseteq pot
      /\ N \subseteq HoldingsTo(n) /\ OneEach(N)
      /\ \A h \in N : \E m \in (minted+1)..n : h.id = <<"pot", m>>
      /\ C \subseteq {Received(i) : i \in Transfers} \cup Offers(token)
      /\ A \subseteq Offers(token)
      /\ pot' = (pot \ H) \cup N
      /\ UNCHANGED <<token, potRows, known, payoutRows, unattributed>>
  BY DEF MoneyTypeOK, Tells, rowVars, Holdings, HoldingsTo
<1>2. /\ HoldingsTo(minted) \subseteq HoldingsTo(n)
      /\ Seq(Updates(token, minted)) \subseteq Seq(Updates(token, n))
  BY <1>1, UpdatesGrow
<1>3. H \subseteq HoldingsTo(n) /\ pot \subseteq HoldingsTo(n)
  BY <1>1, <1>2
<1>4. u \in Updates(token, n)
  BY <1>1, <1>3, UpdateTyped
<1>4a. u.created = OfPot(N) \cup C /\ u.archived = OfPot(H) \cup A
  OBVIOUS
<1> HIDE DEF n, u
<1>5. Tracked(u) = N
  BY <1>1, <1>4a, TrackedIs
<1>6. \A x \in {"pot"} \X (1..n) : x \in Ended(u) <=> \E g \in H : g.id = x
  <2> SUFFICES ASSUME NEW x \in {"pot"} \X (1..n)
               PROVE  x \in Ended(u) <=> \E g \in H : g.id = x
    OBVIOUS
  <2>1. \A c \in A : c.id \in Transfers
    BY <1>1 DEF Offers, Offer
  <2>2. \A c \in A : c.id # x
    BY <1>1, <2>1, IdsApart
  <2>3. x \in Ended(u) <=> \E c \in OfPot(H) \cup A : c.id = x
    BY <1>4a DEF Ended
  <2>4. (\E c \in OfPot(H) : c.id = x) <=> \E g \in H : g.id = x
    BY PotIds
  <2> QED
    BY <2>2, <2>3, <2>4
<1>7. \A h \in HoldingsTo(n) : h.id \in {"pot"} \X (1..n)
  BY DEF HoldingsTo
<1>8. /\ queue \in Seq(Updates(token, minted)) /\ resend \in Seq(Updates(token, minted))
      /\ queue \in Seq(Updates(token, n)) /\ resend \in Seq(Updates(token, n))
      /\ Len(resend) =< Len(queue) /\ Len(queue) =< MaxQueue
      /\ stale \in 0..Len(resend)
      /\ \A k \in 1..stale : queue[k] = resend[k]
  BY <1>2 DEF RowsFollow, FeedOK
<1>9. Publish(u.created, u.archived)
  BY DEF Tells, u
<1>10. OneEach(Seen) /\ Catch(queue, pot, potRows) /\ Catch(resend, pot, potRows)
  BY DEF RowsFollow
<1>11. \A g \in pot : \A h \in H : g.id = h.id => g = h
  BY <1>1, <1>10 DEF OneEach, Seen
<1>12. \A i : /\ Offer(token, i) \in u.created <=> Offer(token, i) \in C
              /\ Offer(token, i) \in u.archived <=> Offer(token, i) \in A
  BY <1>4a, OffersOf
<1>13. RowTypeOK'
  <2>1. potRows' \subseteq Holdings'
    BY <1>1, <1>2 DEF RowsFollow, RowTypeOK, Holdings, HoldingsTo, n
  <2> QED
    BY <1>1, <2>1 DEF RowsFollow, RowTypeOK
<1>14. /\ \A g \in pot : g.id \in Ended(u) <=> \E h \in H : g.id = h.id
       /\ \A g \in H : g.id \in Ended(u)
  BY <1>3, <1>6, <1>7
<1>15. \A h \in N : h.id \notin Ended(u)
  <2> SUFFICES ASSUME NEW h \in N, NEW g \in H, g.id = h.id PROVE FALSE
    BY <1>1, <1>6, <1>7
  <2>1. g.id \in {"pot"} \X (1..minted)
    BY <1>1 DEF HoldingsTo
  <2> QED
    BY <1>1, <2>1
<1>16. ASSUME NEW q \in Seq(Updates(token, minted))
       PROVE  \A h \in N : \A k \in 1..Len(q) : ~GoneAt(q, k, h)
  <2> SUFFICES ASSUME NEW h \in N, NEW k \in 1..Len(q), h.id \in Ended(q[k]) PROVE FALSE
    BY DEF GoneAt
  <2>1. PICK m \in (minted+1)..n : h.id = <<"pot", m>>
    BY <1>1
  <2>2. m \in 1..minted
    BY <1>1, <2>1, EndedOld
  <2> QED
    BY <1>1, <2>1, <2>2
<1>17. ASSUME NEW q \in Seq(Updates(token, minted)), NEW q2, Extend(q, u, q2),
              Catch(q, pot, potRows)
       PROVE  Catch(q2, pot', potRows)
  BY <1>1, <1>5, <1>11, <1>14, <1>15, <1>16, <1>17, CatchExtend
<1>18. ASSUME NEW q, NEW q2, Extend(q, u, q2),
              StatusFollows(q, token, payout, payoutRows, unattributed)
       PROVE  StatusFollows(q2, token, payout', payoutRows, unattributed)
  <2>1. token \in {"twoStep", "unstamped"} =>
          \A i \in Payouts : Says(u, token, payout, payout', i)
    BY <1>12 DEF TellsStatus, Says
  <2>2. token \in {"demo", "oneStep"} => \A i \in Payouts : Offer(token, i) \notin u.created
    BY <1>12 DEF TellsStatus
  <2> QED
    BY <1>18, <2>1, <2>2, StatusExtend
<1>19. OneEach(Seen \cup N)
  <2>1. Seen \subseteq HoldingsTo(minted)
    <3>1. \A q \in Seq(Updates(token, minted)) : MadeIn(q) \subseteq HoldingsTo(minted)
      BY UpdateReads DEF MadeIn
    <3>2. potRows \subseteq HoldingsTo(minted)
      BY DEF RowsFollow, RowTypeOK, Holdings, HoldingsTo
    <3> QED
      BY <1>1, <1>8, <3>1, <3>2 DEF Seen
  <2>2. \A g \in Seen : \A h \in N : g.id # h.id
    <3> SUFFICES ASSUME NEW g \in Seen, NEW h \in N, g.id = h.id PROVE FALSE
      OBVIOUS
    <3>1. g.id \in {"pot"} \X (1..minted)
      BY <2>1 DEF HoldingsTo
    <3> QED
      BY <1>1, <3>1
  <2> QED
    BY <1>1, <1>10, <2>2 DEF OneEach
<1>20. CASE u.created \cup u.archived # {}
  <2>1. u = [created |-> u.created, archived |-> u.archived]
    BY DEF u
  <2>2. /\ Extend(queue, u, queue') /\ Extend(resend, u, resend')
        /\ queue' \in Seq(Updates(token, n)) /\ resend' \in Seq(Updates(token, n))
        /\ Len(resend') =< Len(queue') /\ Len(queue') =< MaxQueue
        /\ stale' \in 0..Len(resend')
        /\ \A k \in 1..stale' : queue'[k] = resend'[k]
    BY <1>4, <1>8, <1>9, <1>20, <2>1, PublishFeed
  <2>3. FeedOK'
    BY <1>1, <2>2 DEF FeedOK, n
  <2>4. OneEach(Seen')
    <3>1. MadeIn(queue') \subseteq MadeIn(queue) \cup N /\ MadeIn(resend') \subseteq MadeIn(resend) \cup N
      BY <1>5, <2>2, MadeExtend
    <3>2. Seen' \subseteq Seen \cup N
      BY <1>1, <3>1 DEF Seen
    <3> QED
      BY <1>19, <3>2, OneEachPart
  <2>5. Catch(queue', pot', potRows) /\ Catch(resend', pot', potRows)
    BY <1>8, <1>10, <1>17, <2>2
  <2>6. /\ StatusFollows(queue', token, payout', payoutRows, unattributed)
        /\ StatusFollows(resend', token, payout', payoutRows, unattributed)
    BY <1>18, <2>2 DEF RowsFollow
  <2> QED
    BY <1>1, <1>13, <2>3, <2>4, <2>5, <2>6 DEF RowsFollow
<1>21. CASE u.created \cup u.archived = {}
  <2>1. UNCHANGED <<queue, resend, stale>>
    BY <1>9, <1>21 DEF Publish, feedVars
  <2>2. H = {} /\ N = {} /\ C = {} /\ A = {}
    <3>1. Tracked(u) = {} /\ Ended(u) = {}
      BY <1>21 DEF Tracked, Ended
    <3>2. C = {} /\ A = {}
      BY <1>21 DEF u
    <3> QED
      BY <1>5, <1>14, <3>1, <3>2
  <2>3. pot' = pot
    BY <1>1, <2>2
  <2>4. FeedOK'
    BY <1>1, <1>8, <2>1 DEF FeedOK, n
  <2>5. token \in {"twoStep", "unstamped"} => \A i \in Payouts : payout'[i] = payout[i]
    BY <2>2 DEF TellsStatus
  <2>6. \A q : StatusFollows(q, token, payout, payoutRows, unattributed) =>
                 StatusFollows(q, token, payout', payoutRows, unattributed)
    BY <2>5 DEF StatusFollows, Told, Logged
  <2>7. Seen' = Seen
    BY <1>1, <2>1, <2>3 DEF Seen
  <2> QED
    BY <1>1, <1>13, <2>1, <2>3, <2>4, <2>6, <2>7 DEF RowsFollow
<1> QED
  BY <1>20, <1>21

LEMMA ReceivedNoOffer == \A t, i, j : Received(i) # Offer(t, j)
BY DEF Received, Offer

LEMMA OfferOne == \A t, i, j : Offer(t, i) = Offer(t, j) => i = j
<1> SUFFICES ASSUME NEW t, NEW i, NEW j, Offer(t, i) = Offer(t, j) PROVE i = j
  OBVIOUS
<1>1. Offer(t, i).id = i /\ Offer(t, j).id = j
  BY DEF Offer
<1> QED
  BY <1>1

LEMMA CloseRows ==
    ASSUME MoneyTypeOK, RowsFollow, NEW e \in Events, CloseEvent(e) PROVE RowsFollow'
<1> DEFINE N == Slashed(e)
<1>1. minted \in Nat /\ Ghosts[e] \in Nat
  BY PotConstants DEF MoneyTypeOK
<1>2. /\ Cardinality(N) = Ghosts[e]
      /\ N \subseteq HoldingsTo(minted + Ghosts[e])
  BY <1>1, SlashedAmount DEF HoldingsTo
<1>3. minted' = minted + Ghosts[e] /\ pot' = (pot \ {}) \cup N
  BY <1>2 DEF CloseEvent, Exchange, Slashed
<1>4. OneEach(N)
  <2> SUFFICES ASSUME NEW m \in 1..Ghosts[e], NEW k \in 1..Ghosts[e],
                      <<"pot", minted + m>> = <<"pot", minted + k>>
               PROVE  m = k
    BY DEF OneEach, Slashed
  <2>1. minted + m = minted + k
    OBVIOUS
  <2> QED
    BY <1>1, <2>1
<1>5. \A h \in N : \E m \in (minted+1)..minted' : h.id = <<"pot", m>>
  <2> SUFFICES ASSUME NEW k \in 1..Ghosts[e]
               PROVE  \E m \in (minted+1)..minted' : <<"pot", minted + k>> = <<"pot", m>>
    BY DEF Slashed
  <2>1. minted + k \in (minted+1)..minted'
    BY <1>1, <1>3
  <2> QED
    BY <2>1
<1>6. OfPot(N) \cup {} = OfPot(N) /\ OfPot({}) \cup {} = {}
  BY DEF OfPot
<1>7. Publish(OfPot(N), {}) /\ UNCHANGED <<token, payout, rowVars>>
  BY DEF CloseEvent, Slashed
<1>8. Tells({}, N, {}, {})
  <2>1. Publish(OfPot(N) \cup {}, OfPot({}) \cup {})
    BY <1>6, <1>7
  <2>2. minted' \in Nat /\ minted =< minted' /\ N \subseteq HoldingsTo(minted')
    BY <1>1, <1>2, <1>3
  <2> HIDE DEF N
  <2> QED
    BY <1>3, <1>4, <1>5, <1>7, <2>1, <2>2 DEF Tells
<1>9. TellsStatus({}, {})
  BY <1>7 DEF TellsStatus
<1> QED
  BY <1>8, <1>9, TellsRows

(* The change of a submission is one fresh holding at most.                  *)
LEMMA ChangeTells ==
    ASSUME MoneyTypeOK, NEW e \in Events, step[e] = "gathered",
           NEW H, H \subseteq inputs[e], H \subseteq pot, Amount(H) >= Needed(e),
           Exchange(H, Change(H, e))
    PROVE  /\ minted' \in Nat /\ minted =< minted'
           /\ pot' = (pot \ H) \cup Change(H, e)
           /\ Change(H, e) \subseteq HoldingsTo(minted') /\ OneEach(Change(H, e))
           /\ \A h \in Change(H, e) : \E m \in (minted+1)..minted' : h.id = <<"pot", m>>
<1> DEFINE N == Change(H, e)
<1>1. H \subseteq Holdings /\ IsFiniteSet(H) /\ minted \in Nat
  BY FS_Subset DEF MoneyTypeOK
<1>2. Needed(e) \in Nat
  BY AimedAt
<1>3. /\ IsFiniteSet(N) /\ Cardinality(N) \in {0, 1}
      /\ \A h \in N : /\ h \in [id : {"pot"} \X (1..(minted + Cardinality(N))),
                                amount : Nat \ {0}]
                      /\ h.id = <<"pot", minted + 1>>
  BY <1>1, <1>2, ChangeMade
<1>4. OneEach(N)
  BY DEF Change, OneEach
<1> HIDE DEF N
<1>5. pot' = (pot \ H) \cup N /\ minted' = minted + Cardinality(N)
  BY DEF Exchange, N
<1>6. N # {} => Cardinality(N) = 1
  BY <1>3, FS_EmptySet
<1>7. ASSUME NEW h \in N PROVE \E m \in (minted+1)..minted' : h.id = <<"pot", m>>
  BY <1>1, <1>3, <1>5, <1>6
<1>8. N \subseteq HoldingsTo(minted') /\ minted' \in Nat /\ minted =< minted'
  BY <1>1, <1>3, <1>5 DEF HoldingsTo
<1> QED
  BY <1>4, <1>5, <1>7, <1>8 DEF N

LEMMA TransferRows ==
    ASSUME MoneyTypeOK, RowsFollow, NEW e \in Events, Transfer(e) PROVE RowsFollow'
<1> DEFINE i == <<e, payee[e]>>
           H == inputs[e]
           N == Change(H, e)
           C == {IF token = "oneStep" THEN Received(i) ELSE Instruction(i)}
<1>1. /\ step[e] = "gathered" /\ H \subseteq pot /\ token # "demo"
      /\ Amount(H) >= Needed(e) /\ Exchange(H, N)
      /\ payout' = [payout EXCEPT ![i] = IF token = "oneStep" THEN "accepted" ELSE "pending"]
      /\ Publish(OfPot(N) \cup C, OfPot(H))
      /\ UNCHANGED <<token, rowVars>>
  BY DEF Transfer
<1>2. /\ minted' \in Nat /\ minted =< minted'
      /\ pot' = (pot \ H) \cup N
      /\ N \subseteq HoldingsTo(minted') /\ OneEach(N)
      /\ \A h \in N : \E m \in (minted+1)..minted' : h.id = <<"pot", m>>
  BY <1>1, ChangeTells
<1>3. i \in Payouts /\ i \in Transfers /\ payout[i] = "none"
  BY <1>1 DEF MoneyTypeOK, RunnerOK, Payees, Payouts, Transfers
<1>4. C = {IF token = "oneStep" THEN Received(i) ELSE Offer(token, i)}
  BY OfferIs
<1> HIDE DEF i, H, N, C
<1>5. C \subseteq {Received(j) : j \in Transfers} \cup Offers(token)
  BY <1>3, <1>4 DEF Offers
<1>6. OfPot(H) \cup {} = OfPot(H)
  OBVIOUS
<1>7. Tells(H, N, C, {})
  BY <1>1, <1>2, <1>5, <1>6 DEF Tells
<1>8. TellsStatus(C, {})
  <2>1. \A j \in Payouts : j # i => payout'[j] = payout[j] /\ Offer(token, j) \notin C
    BY <1>1, <1>4, OfferOne, ReceivedNoOffer DEF MoneyTypeOK, Transfers
  <2>2. token # "oneStep" => payout'[i] = "pending" /\ Offer(token, i) \in C
    BY <1>1, <1>3, <1>4 DEF MoneyTypeOK
  <2>3. token = "oneStep" => Offer(token, i) \notin C
    BY <1>4, ReceivedNoOffer
  <2> QED
    BY <1>1, <1>3, <2>1, <2>2, <2>3 DEF TellsStatus
<1> QED
  BY <1>7, <1>8, TellsRows

LEMMA MintRows ==
    ASSUME MoneyTypeOK, RowsFollow, NEW e \in Events, NEW H, Mint(e, H) PROVE RowsFollow'
<1> DEFINE N == Change(H, e)
           C == {Received(i) : i \in Aimed(e)}
<1>1. /\ step[e] = "gathered" /\ H \subseteq inputs[e] /\ H \subseteq pot /\ token = "demo"
      /\ Amount(H) >= Needed(e) /\ Exchange(H, N)
      /\ Publish(OfPot(N) \cup C, OfPot(H))
      /\ UNCHANGED <<token, rowVars>>
  BY DEF Mint, Picks
<1>2. /\ minted' \in Nat /\ minted =< minted'
      /\ pot' = (pot \ H) \cup N
      /\ N \subseteq HoldingsTo(minted') /\ OneEach(N)
      /\ \A h \in N : \E m \in (minted+1)..minted' : h.id = <<"pot", m>>
  BY <1>1, ChangeTells
<1>3. C \subseteq {Received(j) : j \in Transfers}
  BY <1>1, AimedAt DEF Transfers
<1>4. TellsStatus(C, {})
  BY <1>1, ReceivedNoOffer DEF TellsStatus
<1> HIDE DEF N, C
<1>5. OfPot(H) \cup {} = OfPot(H)
  OBVIOUS
<1>6. Tells(H, N, C, {})
  BY <1>1, <1>2, <1>3, <1>5 DEF Tells
<1> QED
  BY <1>4, <1>6, TellsRows

(* No holding of the pot is touched. *)
LEMMA NoExchange ==
    ASSUME MoneyTypeOK, UNCHANGED <<pot, minted>>
    PROVE  /\ minted' \in Nat /\ minted =< minted'
           /\ {} \subseteq pot /\ pot' = (pot \ {}) \cup {}
           /\ {} \subseteq HoldingsTo(minted') /\ OneEach({})
           /\ OfPot({}) = {}
BY DEF MoneyTypeOK, OneEach, OfPot

LEMMA ArriveRows ==
    ASSUME MoneyTypeOK, RowsFollow, Arrive PROVE RowsFollow'
<1> DEFINE C == {Offer(token, Deposit)}
<1>1. /\ payout' = [payout EXCEPT ![Deposit] = "pending"]
      /\ Publish(C, {}) /\ UNCHANGED <<token, pot, minted, rowVars>>
  BY OfferIs DEF Arrive
<1>2. C \subseteq Offers(token)
  BY DEF Offers, Transfers
<1>3. \A j \in Payouts : payout'[j] = payout[j] /\ Offer(token, j) \notin C
  BY <1>1, OfferOne, PotConstants DEF MoneyTypeOK, Transfers
<1> HIDE DEF C
<1>4. OfPot({}) \cup C = C /\ OfPot({}) \cup {} = {}
  BY DEF OfPot
<1>5. Tells({}, {}, C, {})
  BY <1>1, <1>2, <1>4, NoExchange DEF Tells
<1>6. TellsStatus(C, {})
  BY <1>3 DEF TellsStatus
<1> QED
  BY <1>5, <1>6, TellsRows

LEMMA AcceptedRows ==
    ASSUME MoneyTypeOK, RowsFollow, NEW i \in Transfers, Accepted(i) PROVE RowsFollow'
<1> DEFINE C == {Received(i)}
           A == {Offer(token, i)}
<1>1. /\ payout[i] = "pending" /\ payout' = [payout EXCEPT ![i] = "accepted"]
      /\ Publish(C, A) /\ UNCHANGED <<token, pot, minted, rowVars>>
  BY OfferIs DEF Accepted
<1>2. C \subseteq {Received(j) : j \in Transfers} /\ A \subseteq Offers(token)
  BY DEF Offers
<1>3. \A j \in Payouts : /\ Offer(token, j) \notin C
                         /\ j # i => payout'[j] = payout[j] /\ Offer(token, j) \notin A
                         /\ j = i => payout'[j] = "accepted" /\ Offer(token, j) \in A
  BY <1>1, OfferOne, ReceivedNoOffer DEF MoneyTypeOK, Transfers
<1> HIDE DEF C, A
<1>4. OfPot({}) \cup C = C /\ OfPot({}) \cup A = A
  BY DEF OfPot
<1>5. Tells({}, {}, C, A)
  BY <1>1, <1>2, <1>4, NoExchange DEF Tells
<1>6. TellsStatus(C, A)
  BY <1>1, <1>3 DEF TellsStatus
<1> QED
  BY <1>5, <1>6, TellsRows

LEMMA RejectRows ==
    ASSUME MoneyTypeOK, RowsFollow, NEW i \in Payouts, Reject(i) PROVE RowsFollow'
<1> DEFINE h == [id |-> <<"pot", minted + 1>>, amount |-> Share(i[1])]
           N == {h}
           A == {Offer(token, i)}
<1>1. /\ payout[i] = "pending" /\ payout' = [payout EXCEPT ![i] = "rejected"]
      /\ Exchange({}, N) /\ Publish(OfPot(N), A) /\ UNCHANGED <<token, rowVars>>
  BY OfferIs DEF Reject
<1>2. minted \in Nat /\ minted' = minted + 1 /\ pot' = (pot \ {}) \cup N
  BY <1>1, FS_Singleton DEF Exchange, MoneyTypeOK
<1>3. Share(i[1]) \in Nat \ {0}
  <2>1. PICK e \in Events : \E p \in Came[e] : i = <<e, p>>
    BY DEF Payouts
  <2> QED
    BY <1>1, <2>1, SharesFit DEF MoneyTypeOK, RunnerOK
<1>4. N \subseteq HoldingsTo(minted') /\ OneEach(N)
  BY <1>2, <1>3 DEF HoldingsTo, OneEach
<1>5. \A g \in N : \E m \in (minted+1)..minted' : g.id = <<"pot", m>>
  BY <1>2
<1>6. A \subseteq Offers(token)
  BY DEF Offers, Transfers
<1>7. \A j \in Payouts : /\ j # i => payout'[j] = payout[j] /\ Offer(token, j) \notin A
                         /\ j = i => payout'[j] = "rejected" /\ Offer(token, j) \in A
  BY <1>1, OfferOne DEF MoneyTypeOK, Transfers
<1> HIDE DEF h, N, A
<1>8. OfPot(N) \cup {} = OfPot(N) /\ OfPot({}) \cup A = A
  BY DEF OfPot
<1>9. Tells({}, N, {}, A)
  <2>1. Publish(OfPot(N) \cup {}, OfPot({}) \cup A)
    BY <1>1, <1>8
  <2>2. minted' \in Nat /\ minted =< minted'
    BY <1>2
  <2> QED
    BY <1>1, <1>2, <1>4, <1>5, <1>6, <2>1, <2>2 DEF Tells
<1>10. TellsStatus({}, A)
  BY <1>1, <1>7 DEF TellsStatus
<1> QED
  BY <1>9, <1>10, TellsRows

LEMMA IdleRows ==
    ASSUME RowsFollow, UNCHANGED <<ledgerVars, rowVars, feedVars>> PROVE RowsFollow'
BY DEF RowsFollow, FeedOK, RowTypeOK, Seen, Holdings, ledgerVars, rowVars, feedVars

LEMMA RowsStep ==
    ASSUME MoneyTypeOK, RowsFollow, [PotNext]_potVars PROVE RowsFollow'
<1>1. ASSUME NEW e \in Events, NEW p \in due[e], Gather(e, p) PROVE RowsFollow'
  BY <1>1, IdleRows DEF Gather
<1>2. ASSUME NEW e \in Events, PayoutFails(e) \/ Die(e) PROVE RowsFollow'
  BY <1>2, IdleRows DEF PayoutFails, Die
<1>3. ASSUME NEW e \in Events, AcceptPayout(e) PROVE RowsFollow'
  <2>1. <<e, payee[e]>> \in Transfers
    BY <1>3 DEF AcceptPayout, MoneyTypeOK, RunnerOK, Transfers, Payouts
  <2> QED
    BY <1>3, <2>1, AcceptedRows, IdleRows DEF AcceptPayout
<1>4. ASSUME NEW e \in Events, Runner(e) PROVE RowsFollow'
  BY <1>1, <1>2, <1>3, <1>4, CloseRows, TransferRows, MintRows DEF Runner
<1>5. ASSUME NEW i \in Transfers, Accept(i) PROVE RowsFollow'
  BY <1>5, AcceptedRows DEF Accept
<1>6. ASSUME UNCHANGED potVars PROVE RowsFollow'
  BY <1>6, IdleRows DEF potVars
<1> QED
  BY <1>4, <1>5, <1>6, ArriveRows, RejectRows, ProjectRows, ReconnectRows, RestartRows DEF PotNext

LEMMA RowsInit == PotInit => RowsFollow
<1> SUFFICES ASSUME PotInit PROVE RowsFollow
  OBVIOUS
<1>1. /\ queue = <<>> /\ resend = <<>> /\ stale = 0 /\ pot = {} /\ potRows = {}
      /\ known = {} /\ unattributed = {}
      /\ payout = [i \in Transfers |-> "none"] /\ payoutRows = [i \in Transfers |-> "none"]
  BY DEF PotInit
<1>2. Len(queue) = 0 /\ Len(resend) = 0 /\ 1..0 = {}
  BY <1>1
<1>3. FeedOK
  BY <1>1, <1>2, PotConstants DEF FeedOK
<1>4. RowTypeOK
  BY <1>1 DEF RowTypeOK, Transfers, PayoutStates
<1>5. OneEach(Seen)
  BY <1>1, <1>2 DEF OneEach, Seen, MadeIn
<1>6. Catch(queue, pot, potRows) /\ Catch(resend, pot, potRows)
  BY <1>1, <1>2 DEF Catch
<1>7. \A q : Len(q) = 0 => StatusFollows(q, token, payout, payoutRows, unattributed)
  BY <1>1, <1>2 DEF StatusFollows, Told, Logged, Quiet, Transfers
<1> QED
  BY <1>2, <1>3, <1>4, <1>5, <1>6, <1>7 DEF RowsFollow

-------------------------------------------------------------------------------
(* The theorems about the rows *)

PotInv == MoneyInv /\ RowsFollow

(* The invariant of the pot: the money of the payouts and the indexer's rows *)
(* of it, through every interleaving of closes, payouts, receivers, lost     *)
(* connections and restarts.                                                 *)
THEOREM PotKept == PotSpec => []PotInv
<1>1. PotInit => PotInv
  BY MoneyInvInit, RowsInit DEF PotInv
<1>2. PotInv /\ [PotNext]_potVars => PotInv'
  BY MoneyInvStep, RowsStep DEF PotInv, MoneyInv
<1> QED
  BY <1>1, <1>2, PTL DEF PotSpec

(* Every variable of the pot keeps its type, and the indexer's queue its     *)
(* bound through every reconnection and restart.                             *)
THEOREM PotTyped == PotSpec => []PotTypeOK
<1>1. PotInv => PotTypeOK
  <2> SUFFICES ASSUME PotInv PROVE PotTypeOK
    OBVIOUS
  <2>1. MoneyTypeOK /\ FeedOK /\ RowTypeOK
    BY DEF PotInv, MoneyInv, RowsFollow
  <2>2. \A e \in Events : due[e] \subseteq Came[e] /\ inputs[e] \subseteq Holdings
    BY <2>1 DEF MoneyTypeOK, RunnerOK, Payees
  <2>3. Len(queue) =< MaxQueue /\ stale \in 0..Len(queue)
    BY <2>1 DEF FeedOK
  <2> QED
    BY <2>1, <2>2, <2>3 DEF MoneyTypeOK, RowTypeOK, PotTypeOK, Transfers
<1> QED
  BY <1>1, PotKept, PTL

(* Once the indexer has caught up, the rows of pot_holdings are the pot's    *)
(* holdings, whatever was repeated to it and however often it restarted.     *)
THEOREM PotRowsCatchUp == PotSpec => []PotRowsFaithful
<1>1. PotInv => PotRowsFaithful
  <2> SUFFICES ASSUME PotInv, queue = <<>> PROVE potRows = pot
    BY DEF PotRowsFaithful
  <2>1. Catch(queue, pot, potRows) /\ Len(queue) = 0
    BY DEF PotInv, RowsFollow
  <2>2. 1..Len(queue) = {}
    BY <2>1
  <2> QED
    BY <2>1, <2>2 DEF Catch
<1> QED
  BY <1>1, PotKept, PTL

(* The results page shows a payout as what it is once the indexer has caught *)
(* up, never one as accepted that is still open, and no transfer that is not *)
(* a payout (the handlers E13 and E14).                                      *)
THEOREM PayoutRowsCatchUp == PotSpec => []PayoutRowsFaithful
<1>1. PotInv => PayoutRowsFaithful
  <2> SUFFICES ASSUME PotInv PROVE PayoutRowsFaithful
    OBVIOUS
  <2>1. MoneyTypeOK /\ RowTypeOK /\ StatusFollows(queue, token, payout, payoutRows, unattributed)
    BY DEF PotInv, MoneyInv, RowsFollow
  <2>2. Shown(Deposit) = "nothing" /\ Deposit \notin unattributed
    BY <2>1, PotConstants DEF RowTypeOK, Shown
  <2>3. ASSUME NEW i \in Payouts
        PROVE  /\ payoutRows[i] \in {"none", "offered", "accepted"}
               /\ payout[i] \in {"none", "pending", "accepted", "rejected"}
               /\ token \in {"demo", "oneStep", "twoStep", "unstamped"}
    BY <2>1, <2>3 DEF RowTypeOK, MoneyTypeOK, PayoutStates, Transfers
  <2>4. ASSUME NEW i \in Payouts, Shown(i) = "accepted"
        PROVE  payout[i] \in {"accepted", "rejected"}
    <3>1. payoutRows[i] = "accepted"
      BY <2>4 DEF Shown
    <3>2. token = "twoStep"
      BY <2>1, <3>1 DEF RowTypeOK
    <3> QED
      BY <2>1, <3>1, <3>2 DEF StatusFollows, Told
  <2>5. ASSUME NEW i \in Payouts, queue = <<>>, payout[i] # "none"
        PROVE  CASE token = "twoStep" ->
                      Shown(i) = IF payout[i] = "pending" THEN "offered" ELSE "accepted"
                 [] token = "unstamped" -> Shown(i) = "nothing" /\ i \in unattributed
                 [] OTHER -> Shown(i) = "nothing" /\ i \notin unattributed
    <3>1. Len(queue) = 0 /\ 1..Len(queue) = {}
      BY <2>5
    <3>2. CASE token = "twoStep"
      <4>1. /\ payoutRows[i] # "none"
            /\ payout[i] \in {"accepted", "rejected"} <=> payoutRows[i] = "accepted"
        BY <2>1, <2>5, <3>1, <3>2 DEF StatusFollows, Told
      <4> QED
        BY <2>3, <2>5, <3>2, <4>1 DEF Shown
    <3>3. CASE token = "unstamped"
      <4>1. i \in unattributed /\ payoutRows[i] = "none"
        BY <2>1, <2>5, <3>1, <3>3 DEF StatusFollows, Logged, RowTypeOK
      <4> QED
        BY <3>3, <4>1 DEF Shown
    <3>4. CASE token \in {"demo", "oneStep"}
      <4>1. unattributed = {} /\ payoutRows[i] = "none"
        BY <2>1, <3>4 DEF RowTypeOK
      <4> QED
        BY <3>4, <4>1 DEF Shown
    <3> QED
      BY <2>3, <3>2, <3>3, <3>4
  <2> QED
    BY <2>2, <2>4, <2>5 DEF PayoutRowsFaithful
<1> QED
  BY <1>1, PotKept, PTL

(* A payout that the results page shows as accepted stays so, though the     *)
(* transaction that offered it may be handled again.                         *)
THEOREM AcceptedIsFinal == PotSpec => AcceptedStays
<1>1. PotInv /\ [PotNext]_potVars =>
         \A i \in Transfers : Shown(i) = "accepted" => Shown(i)' = "accepted"
  <2> SUFFICES ASSUME [PotNext]_potVars, NEW i \in Transfers, Shown(i) = "accepted"
               PROVE  Shown(i)' = "accepted"
    OBVIOUS
  <2>1. payoutRows[i] = "accepted"
    BY DEF Shown
  <2>2. CASE Project
    BY <2>1, <2>2 DEF Project, PayoutRow, Shown
  <2>3. CASE UNCHANGED payoutRows
    BY <2>1, <2>3 DEF Shown
  <2>4. ASSUME NEW e \in Events, Runner(e) PROVE UNCHANGED payoutRows
    BY <2>4 DEF Runner, CloseEvent, Gather, Transfer, Mint, PayoutFails, AcceptPayout, Accepted,
                Die, rowVars
  <2>5. ASSUME Arrive \/ (\E j \in Transfers : Accept(j)) \/ (\E j \in Payouts : Reject(j))
        PROVE  UNCHANGED payoutRows
    BY <2>5 DEF Arrive, Accept, Accepted, Reject, rowVars
  <2>6. ASSUME Reconnect \/ Restart \/ UNCHANGED potVars PROVE UNCHANGED payoutRows
    BY <2>6 DEF Reconnect, Restart, potVars, rowVars
  <2> QED
    BY <2>2, <2>3, <2>4, <2>5, <2>6 DEF PotNext
<1> QED
  BY <1>1, PotKept, PTL DEF PotSpec, AcceptedStays
===============================================================================
