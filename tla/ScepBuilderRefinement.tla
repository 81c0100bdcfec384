----------------------- MODULE ScepBuilderRefinement ------------------------
(***************************************************************************)
(* Proof that PKIMessageBuilder implements ScepMessages under the mapping  *)
(* of ScepBuilder: the initial builder maps to an initial abstract state,  *)
(* and every call maps to an abstract step or leaves the abstract state    *)
(* unchanged.  The step proof rests on the invariants of                   *)
(* ScepBuilderProofs: the type invariant, RoundTrip, and the primary       *)
(* signer's key matching its certificate.                                  *)
(***************************************************************************)
EXTENDS ScepBuilderProofs

USE ConstantsAssumption

\* The mapped abstract variables.
AbsPayload == IF encrypt = <<>> THEN None ELSE encrypt[1]

AbsDelivered == [j \in 1..Len(msgs) |-> Received(msgs[j])]

RefInv == TypeOK /\ RoundTrip /\ SignerKeyMatches /\ SignatureVerifies

LEMMA RefInvInductive == RefInv /\ [Next]_vars => RefInv'
BY RoundTripInductive, SignatureInductive
   DEF RefInv, RoundTripInv, SignatureInv

\* A step that changes none of the mapped variables is an abstract stutter.
LEMMA MappedStutter ==
    ASSUME UNCHANGED <<encrypt, recipient, primary_signer, msgs>>
    PROVE  [Abstract!Next]_Abstract!absvars
BY DEF Abstract!absvars, Received, Opened

\* What the recipient reads from the message a successful finalize() adds.
LEMMA NewMessageReceived ==
    ASSUME TypeOK, SignerKeyMatches, encrypt # <<>>, recipient \in Idents,
           NEW k \in SymKeys, NEW iv \in IVs
    PROVE  LET m == PkiMessage(EnvelopeFor(k, iv),
                               BuildSignerInfo(FinalAttributes(EnvelopeFor(k, iv))))
           IN  Received(m) = [payload |-> encrypt[1], to |-> recipient,
                              from |-> primary_signer]
<1> DEFINE env == EnvelopeFor(k, iv)
           m == PkiMessage(env, BuildSignerInfo(FinalAttributes(env)))
<1>1. LET plain == Opened(m, m.content.rid)
      IN  IsPadded(plain) /\ Unpad(plain) = encrypt[1]
  BY NewMessageOpens
<1>2. m.content.rid = recipient
  BY EnvelopeFacts DEF PkiMessage
<1>3. RsaVerify(m.sid, m.signature, DerSetOf(m.signedAttrs)) /\ m.sid = primary_signer
  BY DEF SignerKeyMatches, PkiMessage, BuildSignerInfo, RsaSign, RsaVerify,
         BuildCmsAttributes
<1>4. QED
  BY <1>1, <1>2, <1>3 DEF Received

\* Appending message m appends what its recipient reads to the mapping.
LEMMA DeliveredAppend ==
    ASSUME NEW m, msgs \in Seq(PkiMessages), m \in PkiMessages,
           msgs' = Append(msgs, m)
    PROVE  AbsDelivered' = Append(AbsDelivered, Received(m))
<1>1. Len(msgs') = Len(msgs) + 1
  BY AppendProperties
<1>2. \A j \in 1..Len(msgs) : msgs'[j] = msgs[j]
  BY AppendProperties
<1>3. msgs'[Len(msgs) + 1] = m
  BY AppendProperties
<1>4. QED
  BY <1>1, <1>2, <1>3 DEF AbsDelivered

\* Every call is an abstract step or an abstract stutter.
LEMMA StepRefines ==
    ASSUME RefInv, [Next]_vars
    PROVE  [Abstract!Next]_Abstract!absvars
<1> USE DEF RefInv
<1>1. ASSUME NEW cs \in CertLists, Certificates(cs) PROVE [Abstract!Next]_Abstract!absvars
  BY <1>1, MappedStutter DEF Certificates
<1>2. ASSUME NEW i \in Idents, AddSigner(i) PROVE [Abstract!Next]_Abstract!absvars
  <2>1. Abstract!Sign(i)
    BY <1>2 DEF AddSigner, Abstract!Sign, AbsDelivered, Received, Opened
  <2>2. QED
    BY <2>1 DEF Abstract!Next
<1>3. ASSUME NEW r \in Idents, AddRecipient(r) PROVE [Abstract!Next]_Abstract!absvars
  <2>1. Abstract!Address(r)
    BY <1>3 DEF AddRecipient, Abstract!Address, Received, Opened
  <2>2. QED
    BY <2>1 DEF Abstract!Next
<1>4. ASSUME NEW p \in Payloads, Encrypt(p) PROVE [Abstract!Next]_Abstract!absvars
  <2>1. encrypt' = Append(encrypt, p) /\ encrypt \in Seq(Payloads)
    BY <1>4 DEF Encrypt, TypeOK
  <2>2. encrypt'[1] = IF encrypt = <<>> THEN p ELSE encrypt[1]
    <3>1. CASE encrypt = <<>>
      BY <2>1, <3>1, AppendProperties, EmptySeq
    <3>2. CASE encrypt # <<>>
      <4>1. 1 \in 1..Len(encrypt)
        BY <2>1, <3>2, EmptySeq
      <4>2. QED
        BY <2>1, <3>2, <4>1, AppendKeeps
    <3>3. QED
      BY <3>1, <3>2
  <2>3. encrypt' # <<>>
    BY <2>1, AppendKeeps
  <2>4. encrypt # <<>> => encrypt[1] # None
    <3> SUFFICES ASSUME encrypt # <<>> PROVE encrypt[1] \in Payloads
      OBVIOUS
    <3>1. 1 \in 1..Len(encrypt)
      BY <2>1, EmptySeq
    <3>2. QED
      BY <2>1, <3>1, ElementOfSeq
  <2>5. Abstract!Queue(p)
    BY <1>4, <2>2, <2>3, <2>4 DEF Encrypt, Abstract!Queue, Received, Opened
  <2>6. QED
    BY <2>5 DEF Abstract!Next
<1>5. ASSUME NEW t \in MessageTypes, MessageType(t) PROVE [Abstract!Next]_Abstract!absvars
  BY <1>5, MappedStutter DEF MessageType, AppendAttributes, config
<1>6. ASSUME NEW s \in Statuses, NEW fi \in FailInfos \cup {None}, PkiStatus(s, fi)
      PROVE  [Abstract!Next]_Abstract!absvars
  BY <1>6, MappedStutter DEF PkiStatus, AppendAttributes, config
<1>7. ASSUME NEW n \in Nonces, SenderNonce(n) PROVE [Abstract!Next]_Abstract!absvars
  BY <1>7, MappedStutter DEF SenderNonce, AppendAttributes, config
<1>8. ASSUME NEW c \in Idents, Issued(c) PROVE [Abstract!Next]_Abstract!absvars
  BY <1>8, MappedStutter DEF Issued
<1>9. ASSUME NEW n \in Nonces, RecipientNonce(n) PROVE [Abstract!Next]_Abstract!absvars
  BY <1>9, MappedStutter DEF RecipientNonce, AppendAttributes, config
<1>10. ASSUME NEW t \in TransIds, TransactionId(t) PROVE [Abstract!Next]_Abstract!absvars
  BY <1>10, MappedStutter DEF TransactionId, AppendAttributes, config
<1>11. ASSUME Finalize PROVE [Abstract!Next]_Abstract!absvars
  <2>1. CASE UNCHANGED <<config, cms_attributes, msgs>>
    BY <2>1, MappedStutter DEF config
  <2>2. CASE /\ encrypt # <<>> /\ recipient \in Idents \ NonRsa
             /\ UNCHANGED config
             /\ \E k \in SymKeys, iv \in IVs :
                   FinalizeOk(k, iv) \/ FinalizeSignFails(k, iv)
    <3>1. PICK k \in SymKeys, iv \in IVs :
                 FinalizeOk(k, iv) \/ FinalizeSignFails(k, iv)
      BY <2>2
    <3>2. UNCHANGED <<encrypt, recipient, primary_signer>>
      BY <2>2 DEF config
    <3>3. CASE FinalizeSignFails(k, iv)
      BY <3>2, <3>3, MappedStutter DEF FinalizeSignFails
    <3>4. CASE FinalizeOk(k, iv)
      <4> DEFINE env == EnvelopeFor(k, iv)
                 m == PkiMessage(env, BuildSignerInfo(FinalAttributes(env)))
      <4>1. m \in PkiMessages
        BY <2>2, EnvelopeFacts, PkiMessageType
      <4>2. msgs' = Append(msgs, m) /\ msgs \in Seq(PkiMessages)
        BY <3>4 DEF FinalizeOk, TypeOK
      <4>3. AbsDelivered' = Append(AbsDelivered, Received(m))
        BY <4>1, <4>2, DeliveredAppend
      <4>4. Received(m) = [payload |-> encrypt[1], to |-> recipient,
                           from |-> primary_signer]
        BY <2>2, NewMessageReceived
      <4>5. encrypt[1] \in Payloads
        <5>1. 1 \in 1..Len(encrypt)
          BY <2>2, EmptySeq DEF TypeOK
        <5>2. QED
          BY <5>1, ElementOfSeq DEF TypeOK
      <4>6. AbsPayload = encrypt[1] /\ AbsPayload # None /\ recipient # None
        BY <2>2, <4>5 DEF AbsPayload
      <4>7. Abstract!Seal
        BY <3>2, <4>3, <4>4, <4>6 DEF Abstract!Seal, AbsPayload, AbsDelivered
      <4>8. QED
        BY <4>7 DEF Abstract!Next
    <3>5. QED
      BY <3>1, <3>3, <3>4
  <2>3. QED
    BY <1>11, <2>1, <2>2, FinalizeCases
<1>12. CASE UNCHANGED vars
  BY <1>12, MappedStutter DEF vars
<1>13. QED
  BY <1>1, <1>2, <1>3, <1>4, <1>5, <1>6, <1>7, <1>8, <1>9, <1>10, <1>11,
     <1>12 DEF Next

(***************************************************************************)
(* PKIMessageBuilder implements ScepMessages, for every value of the       *)
(* constants: each message finalize() returns delivers the first queued    *)
(* payload to the recipient set when it was called, authenticated as the   *)
(* primary signer of that moment.                                          *)
(***************************************************************************)
THEOREM Refinement == Spec => ImplementsMessages
<1>1. Init => RefInv
  BY EmptySeq DEF Init, RefInv, TypeOK, Exceptions, RoundTrip,
                  SignerKeyMatches, SignatureVerifies
<1>2. Init => Abstract!Init
  <2> SUFFICES ASSUME Init PROVE Abstract!Init
    OBVIOUS
  <2>1. AbsDelivered = <<>>
    BY DEF Init, AbsDelivered
  <2>2. QED
    BY <2>1 DEF Init, Abstract!Init, AbsDelivered
<1>3. RefInv /\ [Next]_vars => [Abstract!Next]_Abstract!absvars
  BY StepRefines
<1>4. QED
  BY <1>1, <1>2, <1>3, RefInvInductive, PTL
     DEF Spec, ImplementsMessages, Abstract!Spec
=============================================================================
