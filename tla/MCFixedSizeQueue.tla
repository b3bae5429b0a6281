-------------------------- MODULE MCFixedSizeQueue --------------------------
(* FixedSizeQueue on three slots, enough for every wrap of the window.     *)
EXTENDS FixedSizeQueue
=============================================================================
