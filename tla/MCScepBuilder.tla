---------------------------- MODULE MCScepBuilder ----------------------------
(***************************************************************************)
(* A small instance of ScepBuilder for TLC.  Two identities, one of them   *)
(* with a non-RSA key, so that both the signing and the key-transport      *)
(* failures of finalize() happen; payloads of length 1 and 8, so that a    *)
(* partial block and an aligned payload (a full block of padding) are      *)
(* both encrypted; two keys and two IVs, so that a key or IV from the      *)
(* wrong call is told apart.  Four attributes allow two finalize() calls   *)
(* on an otherwise empty list, or a rejected pki_status and a finalize().  *)
(***************************************************************************)
EXTENDS ScepBuilder, TLC

MCPayloads == {<<7>>, <<1, 2, 3, 4, 5, 6, 7, 8>>}

\* Keys and IVs are compared only for equality.
MCSymmetry == Permutations(SymKeys) \cup Permutations(IVs)
=============================================================================
