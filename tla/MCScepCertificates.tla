------------------------- MODULE MCScepCertificates -------------------------
(***************************************************************************)
(* A small instance of ScepCertificates for TLC: two certificates, sets of *)
(* up to two choices (so a certificate beside a choice of another kind is  *)
(* received), one degenerate message and two decodes, with and without -O. *)
(***************************************************************************)
EXTENDS ScepCertificates, TLC

\* Certificates are compared only for equality.
MCSymmetry == Permutations(Certs)
=============================================================================
