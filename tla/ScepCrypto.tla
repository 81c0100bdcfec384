----------------------------- MODULE ScepCrypto -----------------------------
(***************************************************************************)
(* The cryptographic and encoding primitives that src/scep/builders.py     *)
(* calls, modelled by what they do to the values the builder passes them.  *)
(*                                                                         *)
(*  - PKCS#7 block padding to the 8-byte 3DES block (PKCS7(64).padder()) *)
(*    is modelled exactly, on byte sequences.                              *)
(*  - 3DES-CBC, RSA PKCS#1 v1.5 key transport, SHA-256 and RSA PKCS#1 v1.5 *)
(*    signatures are modelled symbolically (perfect cryptography): a       *)
(*    ciphertext opens only with the key and IV it was made with, a        *)
(*    wrapped key only with the recipient's private key, and digests and   *)
(*    signatures are injective.                                            *)
(*  - The DER encoding of a SET OF (asn1crypto sorts the encodings of the  *)
(*    members) is modelled as the multiset of its members, written as a    *)
(*    set of <<member, multiplicity>> pairs: two lists that are            *)
(*    permutations of each other have the same encoding.                   *)
(***************************************************************************)
EXTENDS Naturals, Sequences, FiniteSets

\* The 3DES block size in bytes: TripleDES.block_size is 64 bits.
BlockSize == 8

Bytes == 0..255

(***************************************************************************)
(* PKCS#7 padding: append n copies of the byte n, where n in 1..BlockSize  *)
(* brings the length to a multiple of the block size (a full block when    *)
(* the data is already aligned).                                           *)
(***************************************************************************)
PadLength(d) == BlockSize - (Len(d) % BlockSize)

Pad(d) == d \o [i \in 1..PadLength(d) |-> PadLength(d)]

\* A well-formed padded plaintext, the check the PKCS7 unpadder makes.
IsPadded(p) ==
    /\ Len(p) > 0
    /\ Len(p) % BlockSize = 0
    /\ p[Len(p)] \in 1..BlockSize
    /\ \A i \in (Len(p) - p[Len(p)] + 1)..Len(p) : p[i] = p[Len(p)]

Unpad(p) == SubSeq(p, 1, Len(p) - p[Len(p)])

(***************************************************************************)
(* 3DES in CBC mode under key k and initialisation vector iv.  Decryption  *)
(* under another key or IV yields no well-formed plaintext (<<>> is never  *)
(* IsPadded).                                                              *)
(***************************************************************************)
CbcEncrypt(k, iv, plain) == [key |-> k, iv |-> iv, blocks |-> plain]

CbcDecrypt(k, iv, c) == IF c.key = k /\ c.iv = iv THEN c.blocks ELSE <<>>

(***************************************************************************)
(* RSA PKCS#1 v1.5 encryption of a symmetric key to the public key of the  *)
(* certificate of identity r; only r's private key recovers it.            *)
(***************************************************************************)
RsaEncrypt(r, k) == [for |-> r, key |-> k]

RsaDecrypt(r, w, noKey) == IF w.for = r THEN w.key ELSE noKey

Sha256(x) == [sha256 |-> x]

(***************************************************************************)
(* The DER encoding of SET OF s: the multiset of the members of the list.  *)
(***************************************************************************)
Multiplicity(s, x) == Cardinality({i \in DOMAIN s : s[i] = x})

DerSetOf(s) == {<<s[i], Multiplicity(s, s[i])>> : i \in DOMAIN s}

(***************************************************************************)
(* RSA PKCS#1 v1.5 signature with SHA-256 by the private key of identity   *)
(* i over the octets data, and its verification with the public key of     *)
(* the certificate of identity j.                                          *)
(***************************************************************************)
RsaSign(i, data) == [signedBy |-> i, digest |-> Sha256(data)]

RsaVerify(j, sig, data) == sig.signedBy = j /\ sig.digest = Sha256(data)
=============================================================================
