# TLA+ verification of the SCEP pkiMessage builder

This directory holds TLA+ models of `src/scep/builders.py`, the SCEP
pkiMessage builder. It contains TLC configurations that model-check the
models on small instances, and TLAPS proofs of the main invariants for every
value of the constants.

## The system

`src/scep/builders.py` has three parts.

- `PKIMessageBuilder` (lines 72-494) is a fluent builder.
  - The configuration calls record state in instance fields: `certificates`, `add_signer`, `message_type`, `add_recipient`, `encrypt`, `pki_status`, `sender_nonce`, `issued`, `recipient_nonce` and `transaction_id`.
  - `finalize()` turns that state into the outer `ContentInfo`. It does this in order:
    1. it encrypts `_encrypt[0]` under a fresh 3DES key and IV, with PKCS#7 padding;
    2. it wraps the key for `_recipient` with RSA PKCS#1 v1.5;
    3. it builds the enveloped data;
    4. it takes the SHA-256 of the enveloped data;
    5. it appends `content_type` and `message_digest` to `_cms_attributes`;
    6. it signs the DER `SET OF` of the attributes with `_primary_signer_key`;
    7. it assembles the `SignerInfo`, the `SignedData` and the `ContentInfo`.
- `create_degenerate_certificate` (44-69) builds a certs-only `SignedData` with no signers.
- `certificates_from_asn1` (32-41) turns a parsed `CertificateSet` back into certificates.

The rest of `src/` is not behaviour:

- `src/commandment/signals.py` declares blinker signals that nothing in `src/` sends.
- `src/setup.py` is packaging. It pins cryptography 2.8, where `RSAPrivateKey.signer` exists, and asn1crypto 1.0, which DER-sorts `SET OF`.

The spec (`spec.md`) gives these parts the names CertificateTransport, SymmetricEnvelopeEncryptor, AttributeSetBuilder, SignerEngine, EnvelopeAssembler and DegenerateCertificateEncoder. The code is single-threaded and call-and-return (spec section 5), so the behaviours are the call sequences a client may issue on one builder. Those include calls after a failed call, and calls after `finalize()`.

## Modules

| Module | Models |
|---|---|
| `ScepCrypto` | The primitives `finalize()` calls. PKCS#7 padding to the 8-byte block is modelled exactly on byte sequences. 3DES-CBC, RSA key transport, SHA-256 and RSA signatures are symbolic: perfect cryptography. The DER `SET OF` encoding is the multiset of the members, so it does not depend on insertion order. Decryption, unpadding and verification are the recipient's side; they are not under `src/` and are modelled from the spec. |
| `ScepBuilder` | One `PKIMessageBuilder` (see below). |
| `MCScepBuilder` | The TLC instance: payloads and the key/IV symmetry. |
| `ScepBuilderProofs` | TLAPS proofs of the invariants of `ScepBuilder`. |
| `ScepBuilderAccumulation` | TLAPS proofs about a reused builder: attribute accumulation, and the reuse divergence for every instance. |
| `ScepMessages` | The abstract specification: what a caller of the builder may rely on (see below). |
| `ScepBuilderRefinement` | The TLAPS proof that `ScepBuilder` implements `ScepMessages`. |
| `ScepCertificates` | `create_degenerate_certificate` and `certificates_from_asn1`. |
| `ScepCertificatesProofs` | TLAPS proofs of the `ScepCertificates` properties. |
| `MCScepCertificates` | The TLC instance of `ScepCertificates`, with certificate symmetry. |

### How `ScepBuilder` corresponds to the code

The variables are the instance fields:

- `signers`, `primary_signer`, `primary_signer_key`, `cms_attributes`, `certificates`, `encrypt`, `recipient` and `issued` are `_signers`, `_primary_signer`, `_primary_signer_key`, `_cms_attributes`, `_certificates`, `_encrypt`, `_recipient` and `_issued`.
- `msgs` is the sequence of messages `finalize()` has returned.
- `raised` is the exception the last call raised, or `"none"`.

Other model choices:

- An identity in `Idents` stands for a certificate together with its key. `NonRsa` is the identities whose key is not an RSA key.
- Attribute values are model values.
- `Init` is `__init__`, which calls `add_signer`.

Each configuration method is one action. `AppendAttributes` is the shared `self._cms_attributes.append(attr)`. Two actions have several outcomes:

- `PkiStatus` has three disjuncts:
  - a non-failure status;
  - FAILURE with a `fail_info`;
  - FAILURE without one. This appends `pki_status` and then raises ValueError, lines 199-203.
- `Finalize` is the whole of `finalize()` with the helpers it calls. Its outcomes are:
  - IndexError on `_encrypt[0]` when nothing is queued;
  - AttributeError in `_build_recipient_info` when there is no recipient, or the recipient's key is not RSA. Nothing is appended in this case;
  - TypeError from `pk.signer` with a non-RSA signer key. This happens after `content_type` and `message_digest` were appended, lines 388-396;
  - a returned message.

  The fresh key and IV are chosen with `\E`. The call-level exception taxonomy of spec section 7 is not what the code raises. The model records what the code raises.

### The abstract specification and the mapping

`ScepMessages` forgets the encoding, the cryptography and the attributes. Its state is:

- `payload`: the payload that will be delivered, or `None`;
- `to`: the recipient;
- `from`: the signer;
- `delivered`: for each sealed message, what its recipient reads.

Its actions are `Queue(p)` (only the first queued payload counts), `Address(r)`, `Sign(i)` and `Seal`. `Seal` needs a payload and a recipient.

`ScepBuilder` maps to it as follows (`Abstract` at the end of `ScepBuilder.tla`):

- `payload` is `encrypt[1]`, or `None` when nothing is queued;
- `to` is `recipient`, and `from` is `primary_signer`;
- `delivered[j]` is `Received(msgs[j])`. This is what the recipient of message j gets when it does three things: it opens the envelope with its own key, it unpads the plaintext, and it verifies the signature against `sid`. `Received` is the recipient's side, which is not under `src/`, and is modelled from the spec.

Under this mapping:

- `add_signer`, `add_recipient` and `encrypt` are `Sign`, `Address` and `Queue`;
- a successful `finalize()` is `Seal`;
- every other call, and every failed `finalize()`, leaves the mapped state unchanged.

The property `ImplementsMessages == Abstract!Spec` says that what each recipient reads is the payload queued first, sent to the recipient set at that moment and signed by the signer set at that moment. The attributes are not visible at this level, so the reuse finding below does not break the refinement. `UniqueContentAttributes` is what shows that finding.

### How `ScepCertificates` corresponds to the code

- `sent` holds the degenerate messages `create_degenerate_certificate` made, each with the certificate it was given.
- `decoded` is the last `certificates_from_asn1` call: the message it came from (`NoMessage` for a set from another peer), the set, and the outcome. The outcome is `Returned(list)` or `Raised(exception)`.
- `optimized` says whether Python runs with `-O`. It is chosen in `Init` and fixed for the whole run.
- A `CertificateSet` is a sequence of `CertificateChoices`. Each choice is one of the five asn1crypto alternatives. Certificates are model values, so the DER dump and reload are the identity on them. That is faithful because `parse_certificate` and `load_der_x509_certificate` round-trip a valid certificate.

The two functions are modelled as follows:

- `CreateDegenerate(c)` is `create_degenerate_certificate`. It builds a version-1 SignedData with a `data` encapsulated content and one `certificate` choice. It sets no digest algorithms and no signer infos.
- `Decode` is `certificates_from_asn1`. A choice of another kind raises `AssertionError` at line 38. Under `-O` the assert is gone, and `load_der_x509_certificate` rejects the structure with `ValueError`. Either way the partial list is lost. No property is stated about this refusal. In the model it is the IF of `CertificatesFromAsn1`, so a property would only restate the definition. Whether the refusal survives `-O` depends on `load_der_x509_certificate` rejecting the dump, which is library behaviour outside the model (the hazard at line 38 in `PROJECT.json`).

Bounds on the lengths of the lists keep the state space finite. The bounds are `MaxAttrs`, `MaxQueue`, `MaxSigners`, `MaxCerts` and `MaxMessages`. They appear only as guards.

## Runs

| Run | cfg | Expect | Checks |
|---|---|---|---|
| `builder` | `MCScepBuilder.cfg` | pass | `TypeOK`, `RoundTrip`, `SignatureVerifies`, `AttributeCompleteness`, `ConfiguredAttributesSigned` |
| `builder_accumulation` | `MCScepBuilderAccumulate.cfg` | pass | `MessagesAccumulate`, `ReusedMessagesRepeatContentType` |
| `builder_reuse` | `MCScepBuilderReuse.cfg` | violation | `UniqueContentAttributes` |
| `builder_status_rejection` | `MCScepBuilderStatus.cfg` | violation | `RejectedStatusLeavesAttributes` |
| `builder_refinement` | `MCScepBuilderRefinement.cfg` | pass | `ImplementsMessages` |
| `certificates` | `MCScepCertificates.cfg` | pass | `TypeOK`, `DegenerateShape` |

What each property says:

- `RoundTrip`: the recipient named in every returned message unwraps the key, decrypts, and finds a well-padded plaintext. That plaintext unpads to the *first* queued payload, lines 338-340 and 456.
- `SignatureVerifies`: every signature verifies with the identity named in the message's `sid`, over the DER set of the message's signed attributes. This must hold across `add_signer` calls made between two `finalize()` calls, lines 139-144 and 416-430.
- `AttributeCompleteness`: every message carries `content_type` and a `message_digest` of its own enveloped data.
- `ConfiguredAttributesSigned` (an action property): a `finalize()` that returns a message signs every attribute the setters appended before the call, unchanged and in its place. So an explicit sender nonce or transaction id round-trips into the signed set (spec section 8 and its example scenario). Its mutant builds the signer info from a fresh list of only the two mandatory attributes.
- `MessagesAccumulate`: for any two messages of one builder, the earlier message's signed attributes are a proper prefix of the later one's. This is because `_build_signerinfo` appends to the builder's own list (line 388).
- `ReusedMessagesRepeatContentType`: every message after the first signs at least two content-type attributes. It is the reuse finding stated positively, as what the code does. The run shows it up to three messages, and `ScepBuilderAccumulation` proves it for every instance.
- `ImplementsMessages`: the refinement described above. Its mutant makes `_build_signerinfo` sign with the first signer added instead of the primary signer. The invariant run still passes with that mutant, because the signature still verifies against the `sid` the message names. The refinement fails, because the message is then authenticated as the wrong identity.
- `DegenerateShape`: a degenerate message has no signer infos, and decoding its set gives exactly its one certificate (spec section 8).

Each property has a mutant: a plausible bug in the mapped code that TLC shows breaks it. See `PROJECT.json`.

Findings. Both violations are places where the code disagrees with the spec:

- `builder_reuse`: TLC finds add_recipient, encrypt, finalize, finalize. The second message signs two `content_type` and two `message_digest` attributes, and the first digest belongs to the earlier envelope. The same happens on a retry after a TypeError from `pk.signer`. The spec (sections 3 and 9) makes `finalize` terminal, and RFC 5652 forbids the duplicates. `ReuseRepeatsContentType` proves that the duplication happens for every message after the first, for every value of the constants.
- `builder_status_rejection`: `pki_status(FAILURE, None)` raises after appending, lines 199-203. The spec (sections 4.3 and 8) says the list is unchanged.

Bounds, and why they are enough:

- There are two identities, `a` (RSA) and `b` (non-RSA). This makes both key-related failures reachable, and lets a change of signer between two messages be told apart.
- The payloads have lengths 1 and 8. Length 8 makes the full-block padding case happen.
- There are two keys and two IVs. A key or IV from the wrong call is then visible. They are compared only for equality, so they are symmetric.
- `MaxAttrs = 4` allows two `finalize()` calls on an empty list, or a configured attribute plus one call. `MaxMessages = 2` allows a reuse.
- The `builder` run has about 3.4 million distinct states and takes about a minute.
- The `builder_accumulation` run raises the bounds to `MaxAttrs = 6` and `MaxMessages = 3`, so that three messages of one builder are reachable. It pays for this with one queued payload, one key, one IV, no certificates, no `add_signer` beyond the initial signer, and the FAILURE status only. Neither property reads those fields. The initial signer still ranges over both identities, so the failed signing happens and the properties are checked across it. With a non-RSA initial signer and no further `add_signer`, though, no message can follow the failure. The case of a message after a failed signing and an `add_signer` is reached only by the `builder` and `builder_reuse` runs, and it is covered for every instance by the proofs in `ScepBuilderAccumulation`. The run has about 3.4 million distinct states and takes about 30 seconds. With two keys, two IVs, two signers and a queue of two, the same check took 24 minutes.
- The `builder_refinement` run uses the same instance but only the FAILURE status, which is invisible to the mapping. It has about 1.9 million distinct states and takes about two minutes. The symmetry on keys, IVs and payload model values is sound for this property: the mapping and `ScepMessages` treat those values alike.
- The `certificates` run has two certificates, and received sets of up to two choices of every kind. It covers the empty set, mixed sets, and a non-certificate choice in the first and in the second place. It is run with and without `-O`. It has 450 distinct states.

Fairness: none. The builder is driven by its caller, and nothing in the code must eventually happen. No liveness property is claimed.

## Proofs

These are proved for all constants satisfying `ConstantsAssumption`:

- `TypeCorrect`: `Spec => []TypeOK`. `TypeOK` is inductive. Its step lemma `TypeOKInductive` has one case per action, and rests on the following lemmas:
  - `DerSetOfType`, `EnvelopeFacts`, `FinalAttributesType` and `PkiMessageType`;
  - `FinalizeCases`, which splits `Finalize` into its four outcomes;
  - `AppendAttributesType`.
- `RoundTripHolds`: `Spec => []RoundTrip`.
  - The inductive invariant is `TypeOK /\ RoundTrip`. The strengthening is needed because `Encrypt` and `Finalize` append to sequences, and their typing is what keeps `encrypt[1]` fixed (`AppendKeeps`).
  - The new message's case is `NewMessageOpens`. It rests on `PadRoundTrip`: for every byte sequence d, `Pad(d)` is well padded and unpads to d. `PadRoundTrip` is proved from `PaddedShape` and `PadLengthRange` with no induction.
- `SignatureHolds`: `Spec => []SignatureVerifies`.
  - The inductive invariant is `TypeOK /\ primary_signer_key = primary_signer /\ SignatureVerifies`.
  - `SignatureVerifies` alone is not inductive. It needs the fact that `add_signer` updates the identifier and the key together.

- `AttributesComplete`: `Spec => []AttributeCompleteness`. The inductive invariant is `TypeOK /\ AttributeCompleteness`. The new message's case rests on `FinalAttributesTail`: the last two signed attributes are `content_type` and the `message_digest` of the envelope just built. That lemma is proved from the generic `ConcatPair`, which is about a sequence with two elements appended.

- `ConfiguredAttributesSignedHolds`: `Spec => ConfiguredAttributesSigned`, the action property. It needs only the type invariant. The step lemma `SignsConfiguredStep` shows `TypeOK /\ [Next]_vars => [SignsConfigured]_vars`. A step that adds a message is a successful `finalize()`, and `FinalAttributesPrefix` says the list it signs begins with the builder's list.

`ScepBuilderAccumulation` proves two theorems about reuse:

- `MessagesAccumulateHolds`: `Spec => []MessagesAccumulate`.
- `ReuseRepeatsContentType`: `Spec => []ReusedMessagesRepeatContentType`.

`MessagesAccumulate` alone is not inductive, because a new message must be related to the builder's list and not only to the earlier messages. The inductive invariant `AccumInv` adds two facts:

- `SignedPrefix`: every message's signed list is a prefix of the current `_cms_attributes`;
- `OwnContentType`: every message has its own content type second to last.

The argument has these parts:

- `AttributesGrow`: every call leaves `_cms_attributes` alone or appends to it. This includes the rejected `pki_status` and the failed signing.
- `MessageStep`: only a successful `finalize()` changes `msgs`.
- `FinalAttributesShape`: the signed list is the builder's list, two longer, with content-type second to last.
- `AccumRepeats`: every message after the first has a content type at the position the first message had its own, and another second to last. `TwoOfType` and `PairCardinality` turn these two positions into a count of at least two.

`ScepBuilderRefinement` proves `Refinement`: `Spec => ImplementsMessages`. The argument has three parts:

- `Init` maps to `Abstract!Init`.
- Under the inductive invariant `RefInv`, every step maps to an abstract step or a stutter (`StepRefines`, one case per action). `RefInv` is `TypeOK /\ RoundTrip /\ SignerKeyMatches /\ SignatureVerifies`.
- The successful `finalize()` case is `NewMessageReceived`: the recipient reads `encrypt[1]`, its own identity and `primary_signer`.

`DeliveredAppend` turns the append to `msgs` into an append to the mapped `delivered`. The last step combines these by PTL.

`ScepCertificatesProofs` proves two theorems for every non-empty set of certificates and every bound `MaxSetSize`:

- `CertificatesTypeCorrect`: `Spec => []TypeOK`;
- `DegenerateShapeHolds`: `Spec => []DegenerateShape`.

The inductive invariant adds `SentAreDegenerate` to the properties. `SentAreDegenerate` says that every message sent is `create_degenerate_certificate` of its own certificate. Without it, decoding a sent message could not be tied to the certificate it was made for. `DecodeOutcome` states what `certificates_from_asn1` returns for any set; the type step for `Decode` rests on it.

All strengthenings were first checked by TLC as invariants:

- those of the builder on the `builder` instance;
- `AccumInv` on the `builder_accumulation` instance;
- `SentAreDegenerate` on the `certificates` instance.

Only model-checked: the two violations. The following are beyond the prover and left to TLC: liveness, `ENABLED`, and what a recursive definition computes for every input.

## Not modelled

- The global `CMSAttribute._fields` patch (lines 26-29) is a module-load side effect on a shared library. Only its effect, the SCEP attribute types, is modelled.
- `signals.py` and `setup.py` have no behaviour to model.
- Randomness freshness (spec section 8, "no key/IV reuse") is outside a symbolic model that chooses the key and IV with `\E`. It is not checked.
- DER serialisation of a certificate, and the wire order of a `CertificateSet`, are abstracted. Certificates are model values, and a set is the sequence the receiver iterates.
