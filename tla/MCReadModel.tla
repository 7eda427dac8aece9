----------------------------- MODULE MCReadModel -----------------------------
(***************************************************************************)
(* One event.  r1 and r2 are two invites of alice, one after the other or  *)
(* both at once.                                                           *)
(***************************************************************************)
EXTENDS PollFeed, TLC

CONSTANTS e1, alice, r1, r2

MCEventOf    == [r \in Rsvps |-> e1]
MCAttendeeOf == [r \in Rsvps |-> alice]

MCSpecs == {[slot |-> <<e1, alice>>, sender |-> alice, terms |-> "stake"]}

MCRsvpDeadline == [e \in Events |-> 1]
MCEventEnd     == [e \in Events |-> 1]
MCSettleBefore == [e \in Events |-> 2]

Symmetry == Permutations(Allocs) \cup Permutations(Rsvps)
=============================================================================
