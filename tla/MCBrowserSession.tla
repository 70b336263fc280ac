-------------------------- MODULE MCBrowserSession --------------------------
(* A small instance of BrowserSession for TLC.                                *)
EXTENDS BrowserSession

CONSTANTS u1, r1, r2, b1

ThreeTokens == 1..3
=============================================================================
