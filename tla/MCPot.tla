-------------------------------- MODULE MCPot --------------------------------
(***************************************************************************)
(* Two events.  Both alice and bob came to e1, which leaves dust of the    *)
(* one stake it slashes; only alice came to e2.                            *)
(***************************************************************************)
EXTENDS Pot

CONSTANTS e1, e2, alice, bob

MCCame   == [e \in Events |-> IF e = e1 THEN {alice, bob} ELSE {alice}]
MCGhosts == [e \in Events |-> 1]
MCStake  == [e \in Events |-> IF e = e1 THEN 3 ELSE 2]
=============================================================================
