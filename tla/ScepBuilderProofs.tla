------------------------- MODULE ScepBuilderProofs --------------------------
(***************************************************************************)
(* Proofs about ScepBuilder for every value of its constants: the type     *)
(* invariant, the PKCS#7 padding round trip, and that every message        *)
(* finalize() returns opens, for the recipient it names, to the first      *)
(* queued payload, carries a signature that verifies with the             *)
(* certificate its SignerInfo names, and signs the mandatory attributes    *)
(* and every attribute configured before the call.                         *)
(***************************************************************************)
EXTENDS ScepBuilder, TLAPS, SequenceTheorems, FiniteSetTheorems

USE ConstantsAssumption

-----------------------------------------------------------------------------
(***************************************************************************)
(* Lemmas about the primitives.                                            *)
(***************************************************************************)

\* The padding length is between 1 and a full block.
LEMMA PadLengthRange ==
    ASSUME NEW d \in Seq(Bytes)
    PROVE  PadLength(d) \in 1..BlockSize
BY DEF PadLength, BlockSize

\* A byte string made of d followed by n copies of n, aligned to the block,
\* is well padded and unpads to d.
LEMMA PaddedShape ==
    ASSUME NEW d \in Seq(Bytes), NEW p \in Seq(Bytes), NEW n \in 1..BlockSize,
           Len(p) = Len(d) + n,
           Len(p) % BlockSize = 0,
           \A i \in 1..Len(p) : p[i] = IF i <= Len(d) THEN d[i] ELSE n
    PROVE  IsPadded(p) /\ Unpad(p) = d
<1>1. p[Len(p)] = n
  BY DEF BlockSize
<1>2. \A i \in (Len(p) - p[Len(p)] + 1)..Len(p) : p[i] = p[Len(p)]
  BY <1>1 DEF BlockSize
<1>3. IsPadded(p)
  BY <1>1, <1>2 DEF IsPadded, BlockSize
<1>4. Len(p) - p[Len(p)] = Len(d)
  BY <1>1
<1>5. /\ SubSeq(p, 1, Len(d)) \in Seq(Bytes)
      /\ Len(SubSeq(p, 1, Len(d))) = Len(d)
      /\ \A i \in 1..Len(d) : SubSeq(p, 1, Len(d))[i] = p[i]
  <2>1. \A i \in 1..Len(d) : p[i] \in Bytes
    BY ElementOfSeq DEF BlockSize
  <2>2. QED
    BY <2>1, SubSeqProperties
<1>6. SubSeq(p, 1, Len(d)) = d
  <2>1. \A i \in 1..Len(d) : SubSeq(p, 1, Len(d))[i] = d[i]
    BY <1>5 DEF BlockSize
  <2>2. QED
    BY <1>5, <2>1, SeqEqual
<1>7. QED
  BY <1>3, <1>4, <1>6 DEF Unpad

\* PKCS#7 padding yields a well-formed padded byte string that unpads to
\* the original data.
LEMMA PadRoundTrip ==
    ASSUME NEW d \in Seq(Bytes)
    PROVE  /\ Pad(d) \in Seq(Bytes)
           /\ IsPadded(Pad(d))
           /\ Unpad(Pad(d)) = d
<1> DEFINE n == PadLength(d)
           tail == [i \in 1..n |-> n]
<1>1. n \in 1..BlockSize
  BY PadLengthRange
<1>2. tail \in [1..n -> Bytes]
  BY <1>1 DEF Bytes, BlockSize
<1>3. tail \in Seq(Bytes) /\ Len(tail) = n
  BY <1>1, <1>2, SeqDef DEF BlockSize
<1> HIDE DEF tail
<1>4. /\ d \o tail \in Seq(Bytes)
      /\ Len(d \o tail) = Len(d) + n
      /\ \A i \in 1..Len(d) + n :
            (d \o tail)[i] = IF i <= Len(d) THEN d[i] ELSE tail[i - Len(d)]
  BY <1>3, ConcatProperties
<1>5. \A i \in 1..Len(d) + n : (d \o tail)[i] = IF i <= Len(d) THEN d[i] ELSE n
  <2> SUFFICES ASSUME NEW i \in 1..Len(d) + n
               PROVE  (d \o tail)[i] = IF i <= Len(d) THEN d[i] ELSE n
    OBVIOUS
  <2>1. CASE i <= Len(d)
    BY <2>1, <1>4
  <2>2. CASE ~(i <= Len(d))
    <3>1. i - Len(d) \in 1..n
      BY <2>2, <1>1 DEF BlockSize
    <3>2. tail[i - Len(d)] = n
      BY <3>1 DEF tail
    <3>3. QED
      BY <2>2, <3>2, <1>4
  <2>3. QED
    BY <2>1, <2>2
<1>6. Len(d \o tail) % BlockSize = 0
  <2>1. \A L \in Nat : (L + (8 - (L % 8))) % 8 = 0
    OBVIOUS
  <2>2. Len(d) \in Nat
    OBVIOUS
  <2>3. (Len(d) + (8 - (Len(d) % 8))) % 8 = 0
    BY <2>1, <2>2
  <2>4. Len(d \o tail) = Len(d) + (8 - (Len(d) % 8))
    BY <1>4 DEF PadLength, BlockSize
  <2>5. QED
    BY <2>3, <2>4 DEF BlockSize
<1>7. IsPadded(d \o tail) /\ Unpad(d \o tail) = d
  BY <1>1, <1>4, <1>5, <1>6, PaddedShape
<1>8. QED
  BY <1>4, <1>7 DEF Pad, tail

\* The DER SET OF a list of S is a set of <<member of S, count>> pairs.
LEMMA DerSetOfType ==
    ASSUME NEW S, NEW s \in Seq(S)
    PROVE  DerSetOf(s) \in SUBSET (S \X Nat)
<1> SUFFICES ASSUME NEW i \in DOMAIN s
             PROVE  <<s[i], Multiplicity(s, s[i])>> \in S \X Nat
  BY DEF DerSetOf
<1>1. s[i] \in S
  BY LenProperties
<1>2. IsFiniteSet({j \in DOMAIN s : s[j] = s[i]})
  BY LenProperties, FS_Interval, FS_Subset
<1>3. Multiplicity(s, s[i]) \in Nat
  BY <1>2, FS_CardinalityType DEF Multiplicity
<1>4. QED
  BY <1>1, <1>3

-----------------------------------------------------------------------------
(***************************************************************************)
(* What finalize() builds.                                                 *)
(***************************************************************************)

\* The envelope finalize() builds is an EnvelopedData of the model, and the
\* recipient it names opens it to the padded first payload.
LEMMA EnvelopeFacts ==
    ASSUME TypeOK, encrypt # <<>>, recipient \in Idents,
           NEW k \in SymKeys, NEW iv \in IVs
    PROVE  /\ EnvelopeFor(k, iv) \in Envelopes
           /\ EnvelopeFor(k, iv).rid = recipient
           /\ LET env == EnvelopeFor(k, iv)
              IN  CbcDecrypt(RsaDecrypt(env.rid, env.encryptedKey, NoKey),
                             env.iv, env.encryptedContent)
                    = Pad(encrypt[1])
<1>1. encrypt[1] \in Seq(Bytes)
  <2>1. encrypt[1] \in Payloads
    BY ElementOfSeq, EmptySeq DEF TypeOK
  <2>2. QED
    BY <2>1
<1>2. Pad(encrypt[1]) \in Seq(Bytes)
  BY <1>1, PadRoundTrip
<1>3. QED
  BY <1>2 DEF EnvelopeFor, BuildPkcsPkiEnvelope, EncryptData, CbcEncrypt,
             CbcDecrypt, BuildRecipientInfo, RsaEncrypt, RsaDecrypt,
             Envelopes, WrappedKeys, Ciphertexts

\* The attribute list finalize() signs.
LEMMA FinalAttributesType ==
    ASSUME TypeOK, NEW env \in Envelopes
    PROVE  FinalAttributes(env) \in Seq(Attributes)
<1>1. ContentTypeData \in Attributes /\ MessageDigest(Sha256(env)) \in Attributes
  BY DEF ContentTypeData, MessageDigest, Attr, Sha256, Attributes
<1>2. <<ContentTypeData, MessageDigest(Sha256(env))>> \in Seq(Attributes)
  BY <1>1
<1>3. cms_attributes \in Seq(Attributes)
  BY DEF TypeOK
<1>4. QED
  BY <1>2, <1>3, ConcatProperties DEF FinalAttributes

\* The message a successful finalize() returns is a pkiMessage of the model.
LEMMA PkiMessageType ==
    ASSUME TypeOK, NEW env \in Envelopes
    PROVE  PkiMessage(env, BuildSignerInfo(FinalAttributes(env))) \in PkiMessages
<1> DEFINE attrs == FinalAttributes(env)
<1>1. attrs \in Seq(Attributes)
  BY FinalAttributesType
<1>2. DerSetOf(attrs) \in SUBSET (Attributes \X Nat)
  BY <1>1, DerSetOfType
<1>3. RsaSign(primary_signer_key, BuildCmsAttributes(attrs)) \in Signatures
  BY <1>2 DEF TypeOK, RsaSign, Sha256, BuildCmsAttributes, Signatures
<1>4. QED
  BY <1>1, <1>3 DEF TypeOK, PkiMessage, BuildSignerInfo, PkiMessages

(***************************************************************************)
(* The successful finalize() as one fact: the attributes and the message   *)
(* it produces for the key and IV it drew.                                 *)
(***************************************************************************)
FinalizeOk(k, iv) ==
    LET env == EnvelopeFor(k, iv)
        attrs == FinalAttributes(env)
    IN  /\ cms_attributes' = attrs
        /\ primary_signer_key \notin NonRsa
        /\ raised' = "none"
        /\ msgs' = Append(msgs, PkiMessage(env, BuildSignerInfo(attrs)))

FinalizeSignFails(k, iv) ==
    /\ cms_attributes' = FinalAttributes(EnvelopeFor(k, iv))
    /\ primary_signer_key \in NonRsa
    /\ raised' = "TypeError"
    /\ UNCHANGED msgs

\* finalize() fails before any change, fails at signing, or succeeds.
LEMMA FinalizeCases ==
    ASSUME Finalize
    PROVE  \/ UNCHANGED <<config, cms_attributes, msgs>>
              /\ raised' \in Exceptions
           \/ /\ encrypt # <<>> /\ recipient \in Idents \ NonRsa
              /\ UNCHANGED config
              /\ \E k \in SymKeys, iv \in IVs :
                    FinalizeOk(k, iv) \/ FinalizeSignFails(k, iv)
BY DEF Finalize, FinalizeFails, FinalizeOk, FinalizeSignFails, Exceptions

-----------------------------------------------------------------------------
(***************************************************************************)
(* Type correctness.                                                       *)
(***************************************************************************)

\* A step that appends well-typed attributes keeps the type invariant.
LEMMA AppendAttributesType ==
    ASSUME TypeOK, NEW as \in Seq(Attributes), AppendAttributes(as)
    PROVE  TypeOK'
<1>1. cms_attributes' \in Seq(Attributes)
  <2>1. cms_attributes' = cms_attributes \o as
    BY DEF AppendAttributes
  <2>2. cms_attributes \in Seq(Attributes)
    BY DEF TypeOK
  <2>3. QED
    BY <2>1, <2>2, ConcatProperties
<1>2. QED
  BY <1>1 DEF AppendAttributes, TypeOK, config, Exceptions

\* An attribute of each configured kind is an Attribute of the model.
LEMMA OneAttribute ==
    ASSUME NEW t, NEW v, NEW V, v \in V,
           [type: {t}, value: V] \subseteq Attributes
    PROVE  <<Attr(t, v)>> \in Seq(Attributes)
BY DEF Attr

LEMMA TypeOKInductive == TypeOK /\ [Next]_vars => TypeOK'
<1> SUFFICES ASSUME TypeOK, [Next]_vars PROVE TypeOK'
  OBVIOUS
<1>1. ASSUME NEW cs \in CertLists, Certificates(cs) PROVE TypeOK'
  <2>1. cs \in Seq(Idents)
    BY SeqDef DEF CertLists
  <2>2. QED
    BY <1>1, <2>1 DEF Certificates, TypeOK, Exceptions
<1>2. ASSUME NEW i \in Idents, AddSigner(i) PROVE TypeOK'
  <2>1. signers' \in Seq(Idents)
    BY <1>2, AppendProperties DEF AddSigner, TypeOK
  <2>2. QED
    BY <1>2, <2>1 DEF AddSigner, TypeOK, Exceptions
<1>3. ASSUME NEW t \in MessageTypes, MessageType(t) PROVE TypeOK'
  BY <1>3, OneAttribute, AppendAttributesType DEF MessageType, Attributes
<1>4. ASSUME NEW r \in Idents, AddRecipient(r) PROVE TypeOK'
  BY <1>4 DEF AddRecipient, TypeOK, Exceptions
<1>5. ASSUME NEW p \in Payloads, Encrypt(p) PROVE TypeOK'
  <2>1. encrypt' \in Seq(Payloads)
    BY <1>5, AppendProperties DEF Encrypt, TypeOK
  <2>2. QED
    BY <1>5, <2>1 DEF Encrypt, TypeOK, Exceptions
<1>6. ASSUME NEW s \in Statuses, NEW fi \in FailInfos \cup {None},
             PkiStatus(s, fi)
      PROVE  TypeOK'
  <2>1. CASE s # FAILURE /\ AppendAttributes(<<Attr("pki_status", s)>>)
    BY <2>1, OneAttribute, AppendAttributesType DEF Attributes
  <2>2. CASE /\ s = FAILURE /\ fi # None
             /\ AppendAttributes(<<Attr("pki_status", s), Attr("fail_info", fi)>>)
    <3>1. <<Attr("pki_status", s), Attr("fail_info", fi)>> \in Seq(Attributes)
      BY <2>2 DEF Attr, Attributes
    <3>2. QED
      BY <2>2, <3>1, AppendAttributesType
  <2>3. CASE /\ s = FAILURE /\ fi = None
             /\ Len(cms_attributes) < MaxAttrs
             /\ cms_attributes' = Append(cms_attributes, Attr("pki_status", s))
             /\ raised' = "ValueError"
             /\ UNCHANGED <<config, msgs>>
    <3>1. cms_attributes' \in Seq(Attributes)
      <4>1. Attr("pki_status", s) \in Attributes
        BY DEF Attr, Attributes
      <4>2. QED
        BY <2>3, <4>1, AppendProperties DEF TypeOK
    <3>2. QED
      BY <2>3, <3>1 DEF TypeOK, config, Exceptions
  <2>4. QED
    BY <1>6, <2>1, <2>2, <2>3 DEF PkiStatus
<1>7. ASSUME NEW n \in Nonces, SenderNonce(n) PROVE TypeOK'
  BY <1>7, OneAttribute, AppendAttributesType DEF SenderNonce, Attributes
<1>8. ASSUME NEW c \in Idents, Issued(c) PROVE TypeOK'
  BY <1>8 DEF Issued, TypeOK, Exceptions
<1>9. ASSUME NEW n \in Nonces, RecipientNonce(n) PROVE TypeOK'
  BY <1>9, OneAttribute, AppendAttributesType DEF RecipientNonce, Attributes
<1>10. ASSUME NEW t \in TransIds, TransactionId(t) PROVE TypeOK'
  BY <1>10, OneAttribute, AppendAttributesType DEF TransactionId, Attributes
<1>11. ASSUME Finalize PROVE TypeOK'
  <2>1. CASE UNCHANGED <<config, cms_attributes, msgs>> /\ raised' \in Exceptions
    BY <2>1 DEF config, TypeOK
  <2>2. CASE /\ encrypt # <<>> /\ recipient \in Idents \ NonRsa
             /\ UNCHANGED config
             /\ \E k \in SymKeys, iv \in IVs :
                   FinalizeOk(k, iv) \/ FinalizeSignFails(k, iv)
    <3>1. PICK k \in SymKeys, iv \in IVs :
                 FinalizeOk(k, iv) \/ FinalizeSignFails(k, iv)
      BY <2>2
    <3> DEFINE env == EnvelopeFor(k, iv)
    <3>2. env \in Envelopes
      BY <2>2, EnvelopeFacts
    <3>3. FinalAttributes(env) \in Seq(Attributes)
      BY <3>2, FinalAttributesType
    <3>4. CASE FinalizeOk(k, iv)
      <4>1. msgs' \in Seq(PkiMessages)
        BY <3>2, <3>4, PkiMessageType, AppendProperties DEF FinalizeOk, TypeOK
      <4>2. QED
        BY <2>2, <3>3, <3>4, <4>1 DEF FinalizeOk, TypeOK, config, Exceptions
    <3>5. CASE FinalizeSignFails(k, iv)
      BY <2>2, <3>3, <3>5 DEF FinalizeSignFails, TypeOK, config, Exceptions
    <3>6. QED
      BY <3>1, <3>4, <3>5
  <2>3. QED
    BY <1>11, <2>1, <2>2, FinalizeCases
<1>12. CASE UNCHANGED vars
  BY <1>12 DEF vars, TypeOK
<1>13. QED
  BY <1>1, <1>2, <1>3, <1>4, <1>5, <1>6, <1>7, <1>8, <1>9, <1>10, <1>11,
     <1>12 DEF Next

(***************************************************************************)
(* Every state of the builder is well typed.                               *)
(***************************************************************************)
THEOREM TypeCorrect == Spec => []TypeOK
<1>1. Init => TypeOK
  BY EmptySeq DEF Init, TypeOK, Exceptions
<1>2. QED
  BY <1>1, TypeOKInductive, PTL DEF Spec

-----------------------------------------------------------------------------
(***************************************************************************)
(* Every call but finalize() leaves the returned messages alone and at     *)
(* most appends to the payload queue.                                      *)
(***************************************************************************)
LEMMA ConfigurationSteps ==
    ASSUME TypeOK, [Next]_vars, ~Finalize
    PROVE  /\ UNCHANGED msgs
           /\ UNCHANGED <<primary_signer, primary_signer_key>>
              \/ \E i \in Idents : primary_signer' = i /\ primary_signer_key' = i
           /\ \/ UNCHANGED encrypt
              \/ \E p \in Payloads : encrypt' = Append(encrypt, p)
<1>1. ASSUME NEW as, AppendAttributes(as)
      PROVE  UNCHANGED <<msgs, primary_signer, primary_signer_key, encrypt>>
  BY <1>1 DEF AppendAttributes, config
<1>2. QED
  BY <1>1 DEF Next, vars, Certificates, AddSigner, MessageType, AddRecipient,
              Encrypt, PkiStatus, SenderNonce, Issued, RecipientNonce,
              TransactionId, config

\* Appending to a sequence keeps its existing elements.
LEMMA AppendKeeps ==
    ASSUME NEW S, NEW s \in Seq(S), NEW x \in S
    PROVE  /\ Append(s, x) # <<>>
           /\ \A j \in 1..Len(s) : Append(s, x)[j] = s[j]
           /\ Append(s, x)[Len(s) + 1] = x
           /\ Len(Append(s, x)) = Len(s) + 1
BY AppendProperties

-----------------------------------------------------------------------------
(***************************************************************************)
(* Round trip.  RoundTrip is inductive together with the type invariant:   *)
(* the queue only grows, so its first payload never changes once a message *)
(* exists, and the message finalize() adds opens to Pad of that payload.   *)
(***************************************************************************)
RoundTripInv == TypeOK /\ RoundTrip

\* The recipient of a new message opens it to the first queued payload.
LEMMA NewMessageOpens ==
    ASSUME TypeOK, encrypt # <<>>, recipient \in Idents,
           NEW k \in SymKeys, NEW iv \in IVs
    PROVE  LET m == PkiMessage(EnvelopeFor(k, iv),
                               BuildSignerInfo(FinalAttributes(EnvelopeFor(k, iv))))
               plain == Opened(m, m.content.rid)
           IN  IsPadded(plain) /\ Unpad(plain) = encrypt[1]
<1>1. encrypt[1] \in Seq(Bytes)
  <2>1. encrypt[1] \in Payloads
    BY ElementOfSeq, EmptySeq DEF TypeOK
  <2>2. QED
    BY <2>1
<1>2. IsPadded(Pad(encrypt[1])) /\ Unpad(Pad(encrypt[1])) = encrypt[1]
  BY <1>1, PadRoundTrip
<1>3. QED
  BY <1>2, EnvelopeFacts DEF PkiMessage, Opened

LEMMA RoundTripInductive == RoundTripInv /\ [Next]_vars => RoundTripInv'
<1> SUFFICES ASSUME TypeOK, RoundTrip, [Next]_vars PROVE RoundTrip'
  BY TypeOKInductive DEF RoundTripInv
<1>1. CASE ~Finalize
  <2>1. UNCHANGED msgs
    BY <1>1, ConfigurationSteps
  <2>2. msgs # <<>> => encrypt # <<>> /\ encrypt'[1] = encrypt[1] /\ encrypt' # <<>>
    <3> SUFFICES ASSUME msgs # <<>>
                 PROVE  encrypt # <<>> /\ encrypt'[1] = encrypt[1] /\ encrypt' # <<>>
      OBVIOUS
    <3>0. encrypt # <<>>
      <4>1. 1 \in 1..Len(msgs)
        BY EmptySeq DEF TypeOK
      <4>2. QED
        BY <4>1 DEF RoundTrip
    <3>1. CASE UNCHANGED encrypt
      BY <3>0, <3>1
    <3>2. CASE \E p \in Payloads : encrypt' = Append(encrypt, p)
      <4>1. PICK p \in Payloads : encrypt' = Append(encrypt, p)
        BY <3>2
      <4>2. 1 \in 1..Len(encrypt)
        BY <3>0, EmptySeq DEF TypeOK
      <4>3. encrypt \in Seq(Payloads)
        BY DEF TypeOK
      <4>4. QED
        BY <3>0, <4>1, <4>2, <4>3, AppendKeeps
    <3>3. QED
      BY <1>1, <3>1, <3>2, ConfigurationSteps
  <2>3. QED
    BY <2>1, <2>2, EmptySeq DEF RoundTrip, TypeOK
<1>2. CASE Finalize
  <2>1. CASE UNCHANGED <<config, cms_attributes, msgs>>
    BY <2>1 DEF RoundTrip, config
  <2>2. CASE /\ encrypt # <<>> /\ recipient \in Idents \ NonRsa
             /\ UNCHANGED config
             /\ \E k \in SymKeys, iv \in IVs :
                   FinalizeOk(k, iv) \/ FinalizeSignFails(k, iv)
    <3>1. PICK k \in SymKeys, iv \in IVs :
                 FinalizeOk(k, iv) \/ FinalizeSignFails(k, iv)
      BY <2>2
    <3>2. encrypt' = encrypt
      BY <2>2 DEF config
    <3>3. CASE FinalizeSignFails(k, iv)
      BY <3>2, <3>3 DEF FinalizeSignFails, RoundTrip
    <3>4. CASE FinalizeOk(k, iv)
      <4> DEFINE env == EnvelopeFor(k, iv)
                 m == PkiMessage(env, BuildSignerInfo(FinalAttributes(env)))
      <4>1. m \in PkiMessages
        BY <2>2, EnvelopeFacts, PkiMessageType
      <4>2. msgs' = Append(msgs, m)
        BY <3>4 DEF FinalizeOk
      <4>3. LET plain == Opened(m, m.content.rid)
            IN  IsPadded(plain) /\ Unpad(plain) = encrypt[1]
        BY <2>2, NewMessageOpens
      <4>4. msgs \in Seq(PkiMessages)
        BY DEF TypeOK
      <4>5. QED
        BY <2>2, <3>2, <4>1, <4>2, <4>3, <4>4, AppendKeeps DEF RoundTrip
    <3>5. QED
      BY <3>1, <3>3, <3>4
  <2>3. QED
    BY <1>2, <2>1, <2>2, FinalizeCases
<1>3. QED
  BY <1>1, <1>2

(***************************************************************************)
(* For every value of the constants, the recipient named in every message *)
(* finalize() returns decrypts it to the first payload queued.             *)
(***************************************************************************)
THEOREM RoundTripHolds == Spec => []RoundTrip
<1>1. Init => RoundTripInv
  BY EmptySeq DEF Init, RoundTripInv, TypeOK, Exceptions, RoundTrip
<1>2. QED
  BY <1>1, RoundTripInductive, PTL DEF Spec, RoundTripInv

-----------------------------------------------------------------------------
(***************************************************************************)
(* Signatures.  The primary signer's certificate and key are set together  *)
(* by add_signer, so the key that signs is the key of the certificate the  *)
(* SignerInfo names; with that, SignatureVerifies is inductive.            *)
(***************************************************************************)
SignerKeyMatches == primary_signer_key = primary_signer

SignatureInv == TypeOK /\ SignerKeyMatches /\ SignatureVerifies

LEMMA SignatureInductive == SignatureInv /\ [Next]_vars => SignatureInv'
<1> SUFFICES ASSUME TypeOK, SignerKeyMatches, SignatureVerifies, [Next]_vars
             PROVE  SignerKeyMatches' /\ SignatureVerifies'
  BY TypeOKInductive DEF SignatureInv
<1>1. CASE ~Finalize
  BY <1>1, ConfigurationSteps DEF SignerKeyMatches, SignatureVerifies
<1>2. CASE Finalize
  <2>1. CASE UNCHANGED <<config, cms_attributes, msgs>>
    BY <2>1 DEF SignerKeyMatches, SignatureVerifies, config
  <2>2. CASE /\ encrypt # <<>> /\ recipient \in Idents \ NonRsa
             /\ UNCHANGED config
             /\ \E k \in SymKeys, iv \in IVs :
                   FinalizeOk(k, iv) \/ FinalizeSignFails(k, iv)
    <3>1. PICK k \in SymKeys, iv \in IVs :
                 FinalizeOk(k, iv) \/ FinalizeSignFails(k, iv)
      BY <2>2
    <3>2. SignerKeyMatches'
      BY <2>2 DEF config, SignerKeyMatches
    <3>3. CASE FinalizeSignFails(k, iv)
      BY <3>2, <3>3 DEF FinalizeSignFails, SignatureVerifies
    <3>4. CASE FinalizeOk(k, iv)
      <4> DEFINE env == EnvelopeFor(k, iv)
                 m == PkiMessage(env, BuildSignerInfo(FinalAttributes(env)))
      <4>1. m \in PkiMessages
        BY <2>2, EnvelopeFacts, PkiMessageType
      <4>2. msgs' = Append(msgs, m)
        BY <3>4 DEF FinalizeOk
      <4>3. RsaVerify(m.sid, m.signature, DerSetOf(m.signedAttrs))
        BY DEF SignerKeyMatches, PkiMessage, BuildSignerInfo, RsaSign,
               RsaVerify, BuildCmsAttributes
      <4>4. msgs \in Seq(PkiMessages)
        BY DEF TypeOK
      <4>5. QED
        BY <3>2, <4>1, <4>2, <4>3, <4>4, AppendKeeps DEF SignatureVerifies
    <3>5. QED
      BY <3>1, <3>3, <3>4
  <2>3. QED
    BY <1>2, <2>1, <2>2, FinalizeCases
<1>3. QED
  BY <1>1, <1>2

(***************************************************************************)
(* For every value of the constants, every message finalize() returns     *)
(* carries a signature that verifies with the certificate it names.        *)
(***************************************************************************)
THEOREM SignatureHolds == Spec => []SignatureVerifies
<1>1. Init => SignatureInv
  BY EmptySeq DEF Init, SignatureInv, TypeOK, Exceptions, SignerKeyMatches,
                 SignatureVerifies
<1>2. QED
  BY <1>1, SignatureInductive, PTL DEF Spec, SignatureInv

-----------------------------------------------------------------------------
(***************************************************************************)
(* Attribute completeness.  The attributes a message carries are those     *)
(* finalize() signed: the builder's list followed by the content-type and  *)
(* the message-digest of that message's envelope, at its last two places.  *)
(***************************************************************************)
AttributeInv == TypeOK /\ AttributeCompleteness

\* Concatenating a pair puts its two elements at the two new last places.
LEMMA ConcatPair ==
    ASSUME NEW S, NEW s \in Seq(S), NEW x \in S, NEW y \in S
    PROVE  /\ Len(s \o <<x, y>>) = Len(s) + 2
           /\ (s \o <<x, y>>)[Len(s) + 1] = x
           /\ (s \o <<x, y>>)[Len(s) + 2] = y
<1>1. <<x, y>> \in Seq(S) /\ Len(<<x, y>>) = 2
  OBVIOUS
<1>2. /\ Len(s \o <<x, y>>) = Len(s) + Len(<<x, y>>)
      /\ \A i \in 1..Len(s) + Len(<<x, y>>) :
            (s \o <<x, y>>)[i] = IF i <= Len(s) THEN s[i]
                                 ELSE <<x, y>>[i - Len(s)]
  BY <1>1, ConcatProperties
<1>3. QED
  BY <1>1, <1>2

\* The last two attributes of the list finalize() signs.
LEMMA FinalAttributesTail ==
    ASSUME TypeOK, NEW env \in Envelopes
    PROVE  LET attrs == FinalAttributes(env)
           IN  /\ Len(cms_attributes) + 1 \in 1..Len(attrs)
               /\ Len(cms_attributes) + 2 \in 1..Len(attrs)
               /\ attrs[Len(cms_attributes) + 1] = ContentTypeData
               /\ attrs[Len(cms_attributes) + 2] = MessageDigest(Sha256(env))
<1>1. ContentTypeData \in Attributes /\ MessageDigest(Sha256(env)) \in Attributes
  BY DEF ContentTypeData, MessageDigest, Attr, Sha256, Attributes
<1>2. cms_attributes \in Seq(Attributes)
  BY DEF TypeOK
<1>3. QED
  BY <1>1, <1>2, ConcatPair DEF FinalAttributes

LEMMA AttributeInductive == AttributeInv /\ [Next]_vars => AttributeInv'
<1> SUFFICES ASSUME TypeOK, AttributeCompleteness, [Next]_vars
             PROVE  AttributeCompleteness'
  BY TypeOKInductive DEF AttributeInv
<1>1. CASE ~Finalize
  BY <1>1, ConfigurationSteps DEF AttributeCompleteness
<1>2. CASE Finalize
  <2>1. CASE UNCHANGED <<config, cms_attributes, msgs>>
    BY <2>1 DEF AttributeCompleteness
  <2>2. CASE /\ encrypt # <<>> /\ recipient \in Idents \ NonRsa
             /\ UNCHANGED config
             /\ \E k \in SymKeys, iv \in IVs :
                   FinalizeOk(k, iv) \/ FinalizeSignFails(k, iv)
    <3>1. PICK k \in SymKeys, iv \in IVs :
                 FinalizeOk(k, iv) \/ FinalizeSignFails(k, iv)
      BY <2>2
    <3>2. CASE FinalizeSignFails(k, iv)
      BY <3>2 DEF FinalizeSignFails, AttributeCompleteness
    <3>3. CASE FinalizeOk(k, iv)
      <4> DEFINE env == EnvelopeFor(k, iv)
                 m == PkiMessage(env, BuildSignerInfo(FinalAttributes(env)))
      <4>1. env \in Envelopes /\ m \in PkiMessages
        BY <2>2, EnvelopeFacts, PkiMessageType
      <4>2. msgs' = Append(msgs, m) /\ msgs \in Seq(PkiMessages)
        BY <3>3 DEF FinalizeOk, TypeOK
      <4>3. /\ \E a \in 1..Len(m.signedAttrs) : m.signedAttrs[a] = ContentTypeData
            /\ \E a \in 1..Len(m.signedAttrs) :
                  m.signedAttrs[a] = MessageDigest(Sha256(m.content))
        <5>1. m.signedAttrs = FinalAttributes(env) /\ m.content = env
          BY DEF PkiMessage, BuildSignerInfo
        <5>2. /\ Len(cms_attributes) + 1 \in 1..Len(m.signedAttrs)
              /\ Len(cms_attributes) + 2 \in 1..Len(m.signedAttrs)
              /\ m.signedAttrs[Len(cms_attributes) + 1] = ContentTypeData
              /\ m.signedAttrs[Len(cms_attributes) + 2] = MessageDigest(Sha256(m.content))
          BY <4>1, <5>1, FinalAttributesTail
        <5>3. QED
          BY <5>2
      <4>4. Len(msgs') = Len(msgs) + 1 /\ msgs'[Len(msgs) + 1] = m
            /\ \A j \in 1..Len(msgs) : msgs'[j] = msgs[j]
        BY <4>1, <4>2, AppendKeeps
      <4>5. SUFFICES ASSUME NEW j \in 1..Len(msgs')
                     PROVE  /\ \E a \in 1..Len(msgs'[j].signedAttrs) :
                                 msgs'[j].signedAttrs[a] = ContentTypeData
                            /\ \E a \in 1..Len(msgs'[j].signedAttrs) :
                                 msgs'[j].signedAttrs[a]
                                   = MessageDigest(Sha256(msgs'[j].content))
        BY DEF AttributeCompleteness
      <4>6. CASE j <= Len(msgs)
        BY <4>4, <4>6 DEF AttributeCompleteness
      <4>7. CASE j = Len(msgs) + 1
        BY <4>3, <4>4, <4>7
      <4>8. QED
        BY <4>4, <4>6, <4>7
    <3>4. QED
      BY <3>1, <3>2, <3>3
  <2>3. QED
    BY <1>2, <2>1, <2>2, FinalizeCases
<1>3. QED
  BY <1>1, <1>2

(***************************************************************************)
(* For every value of the constants, every message finalize() returns     *)
(* carries content-type "data" and the message-digest of its own envelope, *)
(* whatever attributes the caller configured.                              *)
(***************************************************************************)
THEOREM AttributesComplete == Spec => []AttributeCompleteness
<1>1. Init => AttributeInv
  BY EmptySeq DEF Init, AttributeInv, TypeOK, Exceptions, AttributeCompleteness
<1>2. QED
  BY <1>1, AttributeInductive, PTL DEF Spec, AttributeInv

-----------------------------------------------------------------------------
(***************************************************************************)
(* Configured attributes are signed.  A step that adds a message is a      *)
(* successful finalize(), whose signed list is the builder's list with the *)
(* two mandatory attributes appended, so the list before the call is its   *)
(* prefix.  Only the type invariant is needed.                             *)
(***************************************************************************)

\* Concatenating a pair keeps the elements of the sequence in their places.
LEMMA ConcatPairPrefix ==
    ASSUME NEW S, NEW s \in Seq(S), NEW x \in S, NEW y \in S
    PROVE  /\ Len(s) <= Len(s \o <<x, y>>)
           /\ \A i \in 1..Len(s) : (s \o <<x, y>>)[i] = s[i]
<1>1. <<x, y>> \in Seq(S)
  OBVIOUS
<1>2. QED
  BY <1>1, ConcatProperties

\* The list finalize() signs begins with the builder's list.
LEMMA FinalAttributesPrefix ==
    ASSUME TypeOK, NEW env \in Envelopes
    PROVE  LET attrs == FinalAttributes(env)
           IN  /\ Len(cms_attributes) <= Len(attrs)
               /\ \A a \in 1..Len(cms_attributes) : attrs[a] = cms_attributes[a]
<1>1. ContentTypeData \in Attributes /\ MessageDigest(Sha256(env)) \in Attributes
  BY DEF ContentTypeData, MessageDigest, Attr, Sha256, Attributes
<1>2. cms_attributes \in Seq(Attributes)
  BY DEF TypeOK
<1>3. QED
  BY <1>1, <1>2, ConcatPairPrefix DEF FinalAttributes

\* The step form of ConfiguredAttributesSigned.
SignsConfigured ==
    Len(msgs') > Len(msgs) =>
        LET signed == msgs'[Len(msgs')].signedAttrs
        IN  /\ Len(cms_attributes) <= Len(signed)
            /\ \A a \in 1..Len(cms_attributes) : signed[a] = cms_attributes[a]

LEMMA SignsConfiguredStep == TypeOK /\ [Next]_vars => [SignsConfigured]_vars
<1> SUFFICES ASSUME TypeOK, [Next]_vars, Len(msgs') > Len(msgs)
             PROVE  LET signed == msgs'[Len(msgs')].signedAttrs
                    IN  /\ Len(cms_attributes) <= Len(signed)
                        /\ \A a \in 1..Len(cms_attributes) :
                              signed[a] = cms_attributes[a]
  BY DEF SignsConfigured
<1>1. CASE ~Finalize
  BY <1>1, ConfigurationSteps
<1>2. CASE Finalize
  <2>1. CASE UNCHANGED <<config, cms_attributes, msgs>>
    BY <2>1
  <2>2. CASE /\ encrypt # <<>> /\ recipient \in Idents \ NonRsa
             /\ UNCHANGED config
             /\ \E k \in SymKeys, iv \in IVs :
                   FinalizeOk(k, iv) \/ FinalizeSignFails(k, iv)
    <3>1. PICK k \in SymKeys, iv \in IVs :
                 FinalizeOk(k, iv) \/ FinalizeSignFails(k, iv)
      BY <2>2
    <3>2. CASE FinalizeSignFails(k, iv)
      BY <3>2 DEF FinalizeSignFails
    <3>3. CASE FinalizeOk(k, iv)
      <4> DEFINE env == EnvelopeFor(k, iv)
                 m == PkiMessage(env, BuildSignerInfo(FinalAttributes(env)))
      <4>1. env \in Envelopes /\ m \in PkiMessages
        BY <2>2, EnvelopeFacts, PkiMessageType
      <4>2. msgs' = Append(msgs, m) /\ msgs \in Seq(PkiMessages)
        BY <3>3 DEF FinalizeOk, TypeOK
      <4>3. msgs'[Len(msgs')] = m
        BY <4>1, <4>2, AppendKeeps
      <4>4. m.signedAttrs = FinalAttributes(env)
        BY DEF PkiMessage, BuildSignerInfo
      <4>5. QED
        BY <4>1, <4>3, <4>4, FinalAttributesPrefix
    <3>4. QED
      BY <3>1, <3>2, <3>3
  <2>3. QED
    BY <1>2, <2>1, <2>2, FinalizeCases
<1>3. QED
  BY <1>1, <1>2

(***************************************************************************)
(* For every value of the constants, a finalize() that returns a message   *)
(* signs every attribute the setters appended before it, unchanged and in  *)
(* its place: explicit nonces and transaction ids reach the signed set.    *)
(***************************************************************************)
THEOREM ConfiguredAttributesSignedHolds == Spec => ConfiguredAttributesSigned
<1>1. Init => TypeOK
  BY EmptySeq DEF Init, TypeOK, Exceptions
<1>2. QED
  BY <1>1, TypeOKInductive, SignsConfiguredStep, PTL
     DEF Spec, ConfiguredAttributesSigned, SignsConfigured
=============================================================================
