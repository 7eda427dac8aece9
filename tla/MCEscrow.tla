------------------------------- MODULE MCEscrow -------------------------------
(***************************************************************************)
(* Two events of different length.  r1 and r2 are two invites of alice to  *)
(* e1: they share one slot, as two invites of one attendee do.  e2 invites *)
(* nobody, but its contract may be offered wherever a choice takes one.    *)
(* The specifications in play are the right one for the slot, one with     *)
(* wrong terms, and one where bob locks his money for alice's slot.        *)
(***************************************************************************)
EXTENDS Escrow, TLC

CONSTANTS e1, e2, alice, bob, r1, r2

MCEventOf    == [r \in Rsvps |-> e1]
MCAttendeeOf == [r \in Rsvps |-> alice]

Leg(sender, terms) == [slot |-> <<e1, alice>>, sender |-> sender, terms |-> terms]

MCSpecs == {Leg(alice, "stake"), Leg(alice, "other"), Leg(bob, "stake")}

MCRsvpDeadline == (e1 :> 1) @@ (e2 :> 1)
MCEventEnd     == (e1 :> 1) @@ (e2 :> 2)
MCSettleBefore == (e1 :> 2) @@ (e2 :> 3)

Symmetry == Permutations(Allocs) \cup Permutations(Rsvps)
=============================================================================
