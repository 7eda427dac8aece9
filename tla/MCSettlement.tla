----------------------------- MODULE MCSettlement -----------------------------
(***************************************************************************)
(* One event with one RSVP per attendee; every allocation specification is *)
(* the right one of its slot.  The deadline passes at time 1 and, where    *)
(* MaxTime is 2, the settlement window closes at time 2; the event is only *)
(* ever ended by hand.                                                     *)
(***************************************************************************)
EXTENDS Settlement, TLC

CONSTANTS alice, bob, r1, r2

MCEventOf    == [r \in Rsvps |-> E]
MCAttendeeOf == [r \in Rsvps |-> IF r = r1 THEN alice ELSE bob]

MCSpecs == {[slot |-> <<E, p>>, sender |-> p, terms |-> "stake"] : p \in Attendees}

MCRsvpDeadline == [e \in Events |-> 1]
MCEventEnd     == [e \in Events |-> 2]
MCSettleBefore == [e \in Events |-> 2]

Symmetry == Permutations(Allocs)
=============================================================================
