----------------------------- MODULE MCWalStore -----------------------------
(***************************************************************************)
(* Instances of WalStore for TLC.  Every operation has an argument that is *)
(* right and one that is wrong: two digests for a slot, two rounds, two    *)
(* next roots, a retirement to this committee or to a skipped epoch, and a *)
(* second genesis offered to a restart.                                    *)
(***************************************************************************)
EXTENDS WalStore
=============================================================================
