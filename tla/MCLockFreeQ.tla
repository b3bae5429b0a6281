----------------------------- MODULE MCLockFreeQ -----------------------------
(* LockFreeQ on small rings, with the inductive invariant of the proofs in  *)
(* scope; the .cfg files choose the sizes and the flags.                    *)
EXTENDS LockFreeQProofs
=============================================================================
