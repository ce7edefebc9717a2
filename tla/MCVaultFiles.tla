---------------------------- MODULE MCVaultFiles ----------------------------
(***************************************************************************)
(* Two turns of two chats, the inbox page, and a title with its names.     *)
(* What two turns of one chat can do is among what these can.              *)
(***************************************************************************)
EXTENDS VaultFiles

CONSTANTS t1, t2, A, B, C, D
EachItsOwn == [t \in Turns |-> t]
FourNames == <<A, B, C, D>>
Symmetry == Permutations(Turns)
=============================================================================
