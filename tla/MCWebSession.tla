----------------------------- MODULE MCWebSession -----------------------------
(* alice has a demo account, bob may register, in this tab or in another     *)
(* browser.                                                                  *)
EXTENDS WebSession, TLC

CONSTANTS alice, bob, p0, mine

MCDemo == alice :> p0
=============================================================================
