----------------------------- MODULE ScepBuilder ----------------------------
(***************************************************************************)
(* PKIMessageBuilder of src/scep/builders.py: a single builder object and  *)
(* every call a caller can make on it, in any order and any number of      *)
(* times, including calls after an exception the caller caught.           *)
(*                                                                         *)
(* Each action is one method.  The fluent setters append to, or replace,  *)
(* a field of the object; finalize() encrypts the first queued payload to  *)
(* the recipient, appends the content-type and message-digest attributes   *)
(* to the builder's own attribute list, signs that list with the primary   *)
(* signer's key and returns the pkiMessage.  Returned messages are         *)
(* collected in msgs so that properties can relate them to the builder.    *)
(* The exception a call raised, if any, is recorded in raised.             *)
(***************************************************************************)
EXTENDS Naturals, Sequences, FiniteSets, ScepCrypto

CONSTANTS
    Idents,        \* identities: a certificate and the matching private key
    NonRsa,        \* identities whose key is not an RSA key (EC, DSA)
    MessageTypes,  \* MessageType enum values
    Statuses,      \* PKIStatus enum values
    FAILURE,       \* PKIStatus.FAILURE
    FailInfos,     \* FailInfo enum values
    Nonces,        \* 16-byte nonces, given by the caller or from os.urandom
    TransIds,      \* transaction ids, given by the caller or from uuid4()
    Payloads,      \* byte strings queued with encrypt()
    SymKeys,       \* 24-byte 3DES keys from os.urandom(24)
    IVs,           \* 8-byte IVs from os.urandom(8)
    None,          \* Python None (also: attribute never assigned)
    NoKey,         \* what decrypting a key wrapped for someone else gives
    MaxAttrs,      \* bound on len(_cms_attributes)
    MaxQueue,      \* bound on len(_encrypt)
    MaxSigners,    \* bound on len(_signers)
    MaxCerts,      \* bound on the number of certificates given at once
    MaxMessages    \* bound on the number of messages finalize() returns

ASSUME ConstantsAssumption ==
    /\ NonRsa \subseteq Idents
    /\ FAILURE \in Statuses
    /\ Payloads \subseteq Seq(Bytes)
    /\ None \notin Idents \cup FailInfos \cup Nonces \cup TransIds \cup Payloads
    /\ NoKey \notin SymKeys
    /\ MaxAttrs \in Nat /\ MaxQueue \in Nat /\ MaxSigners \in Nat
    /\ MaxCerts \in Nat /\ MaxMessages \in Nat

VARIABLES
    signers,             \* self._signers: sids of every add_signer call
    primary_signer,      \* self._primary_signer['sid'] (and its certificate)
    primary_signer_key,  \* self._primary_signer_key
    cms_attributes,      \* self._cms_attributes
    certificates,        \* self._certificates: None or the certificate list
    encrypt,             \* self._encrypt: queued payloads
    recipient,           \* self._recipient
    issued,              \* self._issued (None until issued() is called)
    msgs,                \* the pkiMessages finalize() has returned
    raised               \* the exception raised by the last call, or "none"

vars == <<signers, primary_signer, primary_signer_key, cms_attributes,
          certificates, encrypt, recipient, issued, msgs, raised>>

config == <<signers, primary_signer, primary_signer_key, certificates,
            encrypt, recipient, issued>>

-----------------------------------------------------------------------------
(***************************************************************************)
(* Values.                                                                 *)
(***************************************************************************)
\* Symmetric keys, wrapped keys and ciphertexts of the pkcsPKIEnvelope.
WrappedKeys == [for: Idents, key: SymKeys]

Ciphertexts == [key: SymKeys, iv: IVs, blocks: Seq(Bytes)]

\* EnvelopedData with its one KeyTransRecipientInfo.
Envelopes == [rid: Idents, encryptedKey: WrappedKeys, iv: IVs,
              encryptedContent: Ciphertexts]

\* CMSAttribute values, one record set per attribute type.
Attributes ==
    [type: {"message_type"}, value: MessageTypes]
      \cup [type: {"pki_status"}, value: Statuses]
      \cup [type: {"fail_info"}, value: FailInfos]
      \cup [type: {"sender_nonce", "recipient_nonce"}, value: Nonces]
      \cup [type: {"transaction_id"}, value: TransIds]
      \cup [type: {"content_type"}, value: {"data"}]
      \cup [type: {"message_digest"}, value: [sha256: Envelopes]]

Signatures == [signedBy: Idents, digest: [sha256: SUBSET (Attributes \X Nat)]]

\* The ContentInfo(SignedData) finalize() returns, with its one SignerInfo.
PkiMessages == [certificates: {None} \cup Seq(Idents), sid: Idents,
                signedAttrs: Seq(Attributes), signature: Signatures,
                content: Envelopes]

Exceptions == {"none", "ValueError", "IndexError", "AttributeError",
               "TypeError"}

Attr(t, v) == [type |-> t, value |-> v]

ContentTypeData == Attr("content_type", "data")

MessageDigest(d) == Attr("message_digest", d)

-----------------------------------------------------------------------------
(***************************************************************************)
(* The helpers finalize() calls.                                           *)
(***************************************************************************)
\* _encrypt_data: pad to the 3DES block and encrypt in CBC mode.
EncryptData(data, k, iv) == CbcEncrypt(k, iv, Pad(data))

\* _build_recipient_info: the key wrapped for the recipient's RSA key, and
\* the recipient's issuer and serial number.
BuildRecipientInfo(k, r) == [rid |-> r, encryptedKey |-> RsaEncrypt(r, k)]

\* _build_pkcs_pki_envelope: the EnvelopedData, IV as algorithm parameter.
BuildPkcsPkiEnvelope(ciphertext, iv, ri) ==
    [rid |-> ri.rid, encryptedKey |-> ri.encryptedKey, iv |-> iv,
     encryptedContent |-> ciphertext]

\* _build_cmsattributes: the SET OF attributes, signed as its DER encoding.
BuildCmsAttributes(attrs) == DerSetOf(attrs)

\* Fault-injected variant: the first signer added signs, not the primary.
BuildSignerInfoFirstSigner(attrs) ==
    [sid |-> signers[1], signedAttrs |-> attrs,
     signature |-> RsaSign(signers[1], BuildCmsAttributes(attrs))]

\* _build_signerinfo, past its two appends: the SignerInfo over the final
\* attribute list attrs, signed with SHA-256/RSA by the primary signer.
BuildSignerInfo(attrs) ==
    [sid |-> primary_signer, signedAttrs |-> attrs,
     signature |-> RsaSign(primary_signer_key, BuildCmsAttributes(attrs))]

\* Fault-injected variant: the last queued payload is encrypted.
EnvelopeForLastQueued(k, iv) ==
    BuildPkcsPkiEnvelope(EncryptData(encrypt[Len(encrypt)], k, iv), iv,
                         BuildRecipientInfo(k, recipient))

\* The content and the attributes finalize() produces for key k and IV iv.
EnvelopeFor(k, iv) ==
    BuildPkcsPkiEnvelope(EncryptData(encrypt[1], k, iv), iv,
                         BuildRecipientInfo(k, recipient))

\* Fault-injected variant: the content-type append is missing.
FinalAttributesNoContentType(env) ==
    cms_attributes \o <<MessageDigest(Sha256(env))>>

\* Fault-injected variant: a fresh list of the two mandatory attributes only.
FinalAttributesMandatoryOnly(env) ==
    <<ContentTypeData, MessageDigest(Sha256(env))>>

\* _build_signerinfo's two appends of the CMS-mandatory attributes.
FinalAttributes(env) ==
    cms_attributes \o <<ContentTypeData, MessageDigest(Sha256(env))>>

PkiMessage(env, si) ==
    [certificates |-> certificates, sid |-> si.sid,
     signedAttrs |-> si.signedAttrs, signature |-> si.signature,
     content |-> env]

-----------------------------------------------------------------------------
(***************************************************************************)
(* Initial state: __init__ sets the fields and calls add_signer.           *)
(***************************************************************************)
Init ==
    \E i \in Idents :
        /\ signers = <<i>>
        /\ primary_signer = i
        /\ primary_signer_key = i
        /\ cms_attributes = <<>>
        /\ certificates = None
        /\ encrypt = <<>>
        /\ recipient = None
        /\ issued = None
        /\ msgs = <<>>
        /\ raised = "none"

(***************************************************************************)
(* The configuration calls.                                                *)
(***************************************************************************)
\* certificates(*certs): replaces the certificate set.
Certificates(cs) ==
    /\ certificates' = cs
    /\ raised' = "none"
    /\ UNCHANGED <<signers, primary_signer, primary_signer_key, cms_attributes,
                   encrypt, recipient, issued, msgs>>

\* Fault-injected variant: a later add_signer keeps the first signer's key.
AddSignerKeepsKey(i) ==
    /\ Len(signers) < MaxSigners
    /\ signers' = Append(signers, i)
    /\ primary_signer' = i
    /\ raised' = "none"
    /\ UNCHANGED <<primary_signer_key, cms_attributes, certificates, encrypt,
                   recipient, issued, msgs>>

\* add_signer(cert, key): appends to _signers and makes it the primary.
AddSigner(i) ==
    /\ Len(signers) < MaxSigners
    /\ signers' = Append(signers, i)
    /\ primary_signer' = i
    /\ primary_signer_key' = i
    /\ raised' = "none"
    /\ UNCHANGED <<cms_attributes, certificates, encrypt, recipient, issued,
                   msgs>>

\* Appending one or more attributes to _cms_attributes.
AppendAttributes(as) ==
    /\ Len(cms_attributes) + Len(as) <= MaxAttrs
    /\ cms_attributes' = cms_attributes \o as
    /\ raised' = "none"
    /\ UNCHANGED <<config, msgs>>

MessageType(t) == AppendAttributes(<<Attr("message_type", t)>>)

AddRecipient(r) ==
    /\ recipient' = r
    /\ raised' = "none"
    /\ UNCHANGED <<signers, primary_signer, primary_signer_key, cms_attributes,
                   certificates, encrypt, issued, msgs>>

Encrypt(p) ==
    /\ Len(encrypt) < MaxQueue
    /\ encrypt' = Append(encrypt, p)
    /\ raised' = "none"
    /\ UNCHANGED <<signers, primary_signer, primary_signer_key, cms_attributes,
                   certificates, recipient, issued, msgs>>

\* Fault-injected variant: FAILURE without failure_info is not rejected.
PkiStatusNoCheck(s, fi) ==
    \/ /\ s # FAILURE
       /\ AppendAttributes(<<Attr("pki_status", s)>>)
    \/ /\ s = FAILURE
       /\ AppendAttributes(<<Attr("pki_status", s), Attr("fail_info", fi)>>)

(***************************************************************************)
(* pki_status(status, failure_info): the pki_status attribute is appended  *)
(* first; only then is FAILURE without failure_info rejected.              *)
(***************************************************************************)
PkiStatus(s, fi) ==
    \/ /\ s # FAILURE
       /\ AppendAttributes(<<Attr("pki_status", s)>>)
    \/ /\ s = FAILURE /\ fi # None
       /\ AppendAttributes(<<Attr("pki_status", s), Attr("fail_info", fi)>>)
    \/ /\ s = FAILURE /\ fi = None
       /\ Len(cms_attributes) < MaxAttrs
       /\ cms_attributes' = Append(cms_attributes, Attr("pki_status", s))
       /\ raised' = "ValueError"
       /\ UNCHANGED <<config, msgs>>

\* sender_nonce(nonce=None): the given nonce, or 16 bytes of os.urandom.
SenderNonce(n) == AppendAttributes(<<Attr("sender_nonce", n)>>)

Issued(c) ==
    /\ issued' = c
    /\ raised' = "none"
    /\ UNCHANGED <<signers, primary_signer, primary_signer_key, cms_attributes,
                   certificates, encrypt, recipient, msgs>>

RecipientNonce(n) == AppendAttributes(<<Attr("recipient_nonce", n)>>)

\* transaction_id(trans_id=None): the given id, or str(uuid4()).
TransactionId(t) == AppendAttributes(<<Attr("transaction_id", t)>>)

-----------------------------------------------------------------------------
(***************************************************************************)
(* finalize(), in the order of the code: _encrypt[0] (IndexError when      *)
(* nothing is queued), _encrypt_data, _build_recipient_info (the           *)
(* recipient's public_key().encrypt: AttributeError when there is no       *)
(* recipient or its key is not RSA), the envelope and its digest, then     *)
(* _build_signerinfo, which appends content-type and message-digest to     *)
(* _cms_attributes before pk.signer(PKCS1v15(), SHA256()) (a TypeError for *)
(* a non-RSA key) signs them.                                              *)
(***************************************************************************)
FinalizeFails(e) ==
    /\ raised' = e
    /\ UNCHANGED <<config, cms_attributes, msgs>>

Finalize ==
    /\ Len(msgs) < MaxMessages
    /\ Len(cms_attributes) + 2 <= MaxAttrs
    /\ \/ /\ encrypt = <<>>
          /\ FinalizeFails("IndexError")
       \/ /\ encrypt # <<>>
          /\ recipient \in {None} \cup NonRsa
          /\ FinalizeFails("AttributeError")
       \/ /\ encrypt # <<>>
          /\ recipient \in Idents \ NonRsa
          /\ \E k \in SymKeys, iv \in IVs :
               LET env == EnvelopeFor(k, iv)
                   attrs == FinalAttributes(env)
               IN  /\ cms_attributes' = attrs
                   /\ IF primary_signer_key \in NonRsa
                        THEN /\ raised' = "TypeError"
                             /\ UNCHANGED msgs
                        ELSE /\ raised' = "none"
                             /\ msgs' = Append(msgs,
                                          PkiMessage(env, BuildSignerInfo(attrs)))
          /\ UNCHANGED config

CertLists == UNION {[1..n -> Idents] : n \in 0..MaxCerts}

Next ==
    \/ \E cs \in CertLists : Certificates(cs)
    \/ \E i \in Idents : AddSigner(i)
    \/ \E t \in MessageTypes : MessageType(t)
    \/ \E r \in Idents : AddRecipient(r)
    \/ \E p \in Payloads : Encrypt(p)
    \/ \E s \in Statuses, fi \in FailInfos \cup {None} : PkiStatus(s, fi)
    \/ \E n \in Nonces : SenderNonce(n)
    \/ \E c \in Idents : Issued(c)
    \/ \E n \in Nonces : RecipientNonce(n)
    \/ \E t \in TransIds : TransactionId(t)
    \/ Finalize

Spec == Init /\ [][Next]_vars

-----------------------------------------------------------------------------
(***************************************************************************)
(* Properties.                                                             *)
(***************************************************************************)
TypeOK ==
    /\ signers \in Seq(Idents)
    /\ primary_signer \in Idents
    /\ primary_signer_key \in Idents
    /\ cms_attributes \in Seq(Attributes)
    /\ certificates \in {None} \cup Seq(Idents)
    /\ encrypt \in Seq(Payloads)
    /\ recipient \in {None} \cup Idents
    /\ issued \in {None} \cup Idents
    /\ msgs \in Seq(PkiMessages)
    /\ raised \in Exceptions

\* What the holder of identity r's private key reads from message m: the
\* unwrapped key, the CBC decryption, and the unpadder's check and result.
Opened(m, r) ==
    LET k == RsaDecrypt(r, m.content.encryptedKey, NoKey)
    IN  CbcDecrypt(k, m.content.iv, m.content.encryptedContent)

(***************************************************************************)
(* Round trip (spec section 8): the recipient named in every returned      *)
(* message decrypts its enveloped data to a well-padded plaintext that     *)
(* unpads to the first payload queued with encrypt(), however many         *)
(* payloads were queued and however often finalize() ran or failed.       *)
(***************************************************************************)
RoundTrip ==
    \A j \in 1..Len(msgs) :
        LET plain == Opened(msgs[j], msgs[j].content.rid)
        IN  /\ encrypt # <<>>
            /\ IsPadded(plain)
            /\ Unpad(plain) = encrypt[1]

(***************************************************************************)
(* Every returned message's signature verifies with the public key of the *)
(* certificate its SignerInfo names, over the DER SET OF its signed        *)
(* attributes, even after add_signer() changed the primary signer between  *)
(* two finalize() calls.                                                   *)
(***************************************************************************)
SignatureVerifies ==
    \A j \in 1..Len(msgs) :
        RsaVerify(msgs[j].sid, msgs[j].signature,
                  DerSetOf(msgs[j].signedAttrs))

(***************************************************************************)
(* CMS attribute completeness (spec sections 3 and 8): the signed          *)
(* attributes of every returned message contain content-type "data" and a  *)
(* message-digest equal to SHA-256 of that message's own enveloped data.   *)
(***************************************************************************)
AttributeCompleteness ==
    \A j \in 1..Len(msgs) :
        LET attrs == msgs[j].signedAttrs
        IN  /\ \E a \in 1..Len(attrs) : attrs[a] = ContentTypeData
            /\ \E a \in 1..Len(attrs) :
                   attrs[a] = MessageDigest(Sha256(msgs[j].content))

(***************************************************************************)
(* Configured attributes are signed (spec section 8, nonce freshness, and  *)
(* its example scenario): a finalize() that returns a message signs every  *)
(* attribute the setters had appended before the call, unchanged and in   *)
(* its place, so an explicit sender nonce or transaction id round-trips    *)
(* into the signed-attribute set.                                          *)
(***************************************************************************)
ConfiguredAttributesSigned ==
    [][Len(msgs') > Len(msgs) =>
         LET signed == msgs'[Len(msgs')].signedAttrs
         IN  /\ Len(cms_attributes) <= Len(signed)
             /\ \A a \in 1..Len(cms_attributes) : signed[a] = cms_attributes[a]
      ]_vars

(***************************************************************************)
(* RFC 5652 section 11 and the single-use builder of spec section 3: the   *)
(* signed attributes of a message hold exactly one content-type and        *)
(* exactly one message-digest.  finalize() appends both to the builder's   *)
(* own list, so a second finalize(), or a retry after a failed signing,    *)
(* signs a list that also holds the first call's (stale) pair.             *)
(***************************************************************************)
CountType(attrs, t) == Cardinality({a \in 1..Len(attrs) : attrs[a].type = t})

UniqueContentAttributes ==
    \A j \in 1..Len(msgs) :
        /\ CountType(msgs[j].signedAttrs, "content_type") = 1
        /\ CountType(msgs[j].signedAttrs, "message_digest") = 1

\* s is a prefix of t.
IsPrefixOf(s, t) ==
    /\ Len(s) <= Len(t)
    /\ \A i \in 1..Len(s) : s[i] = t[i]

(***************************************************************************)
(* A reused builder accumulates: _build_signerinfo appends to the          *)
(* builder's own _cms_attributes (line 388), so the signed attributes of   *)
(* every message finalize() returns begin with all the signed attributes   *)
(* of every message it returned before, and are longer.                    *)
(***************************************************************************)
MessagesAccumulate ==
    \A i, j \in 1..Len(msgs) :
        i < j => /\ IsPrefixOf(msgs[i].signedAttrs, msgs[j].signedAttrs)
                 /\ Len(msgs[i].signedAttrs) < Len(msgs[j].signedAttrs)

(***************************************************************************)
(* The reuse divergence holds for every message after the first, not only *)
(* at the bounds of a run: each such message signs at least two            *)
(* content-type attributes, the earlier call's and its own.                *)
(***************************************************************************)
ReusedMessagesRepeatContentType ==
    \A j \in 2..Len(msgs) : CountType(msgs[j].signedAttrs, "content_type") >= 2

(***************************************************************************)
(* Spec sections 4.3 and 8: pki_status(FAILURE) without failure_info       *)
(* raises and leaves the attribute list unchanged.  The step property      *)
(* states that a call that raises ValueError does not change               *)
(* _cms_attributes.                                                        *)
(***************************************************************************)
RejectedStatusLeavesAttributes ==
    [][raised' = "ValueError" => UNCHANGED cms_attributes]_vars
-----------------------------------------------------------------------------
(***************************************************************************)
(* Refinement of ScepMessages.  A returned message is seen as what its     *)
(* recipient reads from it: the payload, when the envelope opens to a      *)
(* well-padded plaintext; the recipient it is addressed to; and the        *)
(* identity whose signature over the signed attributes verifies.  The      *)
(* builder's payload is the first one queued, its recipient _recipient and *)
(* its signer _primary_signer.                                             *)
(***************************************************************************)
Received(m) ==
    LET plain == Opened(m, m.content.rid)
    IN  [payload |-> IF IsPadded(plain) THEN Unpad(plain) ELSE None,
         to |-> m.content.rid,
         from |-> IF RsaVerify(m.sid, m.signature, DerSetOf(m.signedAttrs))
                    THEN m.sid ELSE None]

Abstract == INSTANCE ScepMessages WITH
    payload <- IF encrypt = <<>> THEN None ELSE encrypt[1],
    to <- recipient,
    from <- primary_signer,
    delivered <- [j \in 1..Len(msgs) |-> Received(msgs[j])]

(***************************************************************************)
(* PKIMessageBuilder implements ScepMessages: every call either leaves the *)
(* abstract state alone or is an abstract step, so each message finalize() *)
(* returns delivers the first queued payload to the recipient set at that  *)
(* moment, authenticated as the primary signer at that moment, whatever    *)
(* add_signer, add_recipient and failed calls came before.                 *)
(***************************************************************************)
ImplementsMessages == Abstract!Spec
=============================================================================
