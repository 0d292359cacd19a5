--------------------------- MODULE MCBrowserSession ---------------------------
(* Small instances of BrowserSession for TLC.                              *)
EXTENDS BrowserSession, TLC

CONSTANTS alice, home, l1
=============================================================================
