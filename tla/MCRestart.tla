----------------------------- MODULE MCRestart ------------------------------
(* The instances of LiveLedger, saved and loaded. *)
EXTENDS MCLiveLedger, LedgerRestart
=============================================================================
