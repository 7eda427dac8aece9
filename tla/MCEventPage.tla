------------------------------ MODULE MCEventPage ------------------------------
(* One event and one attendee, who is invited once. *)
EXTENDS EventPage, TLC

CONSTANTS e1, alice

MCSlot == <<e1, alice>>

MCEventOf    == [r \in Rsvps |-> e1]
MCAttendeeOf == [r \in Rsvps |-> alice]

MCSpecs == {[slot |-> MCSlot, sender |-> alice, terms |-> "stake"]}

MCRsvpDeadline == [e \in Events |-> 1]
MCEventEnd     == [e \in Events |-> 1]
MCSettleBefore == [e \in Events |-> 2]

Symmetry == Permutations(Allocs) \cup Permutations(Requests)
=============================================================================
