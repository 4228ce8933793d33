--------------------------- MODULE MCExpireBuffer ---------------------------
(* Small instances of ExpireBuffer. *)
EXTENDS ExpireBuffer, TLC

(* Keys and addresses are told apart by nothing but their names. *)
BufferSymmetry == Permutations(Keys) \cup Permutations(Addrs)
=============================================================================
