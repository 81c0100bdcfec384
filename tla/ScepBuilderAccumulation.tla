---------------------- MODULE ScepBuilderAccumulation -----------------------
(***************************************************************************)
(* Proofs about a reused PKIMessageBuilder, for every value of the         *)
(* constants.  finalize() appends content-type and message-digest to the   *)
(* builder's own _cms_attributes and signs that list, so the list only     *)
(* grows, and each message signs a list that extends the lists of all the  *)
(* messages before it.  From this the reuse divergence follows for every   *)
(* message after the first: it repeats an earlier content-type attribute.  *)
(***************************************************************************)
EXTENDS ScepBuilderProofs

USE ConstantsAssumption

\* The signed attributes of the j-th message returned.
SignedOf(j) == msgs[j].signedAttrs

\* Every message signed a prefix of the builder's current list.
SignedPrefix ==
    \A j \in 1..Len(msgs) : IsPrefixOf(SignedOf(j), cms_attributes)

\* Every message carries its own content-type second to last.
OwnContentType ==
    \A j \in 1..Len(msgs) :
        /\ 2 <= Len(SignedOf(j))
        /\ SignedOf(j)[Len(SignedOf(j)) - 1] = ContentTypeData

AccumInv == TypeOK /\ SignedPrefix /\ OwnContentType /\ MessagesAccumulate

-----------------------------------------------------------------------------
(***************************************************************************)
(* Lemmas about prefixes.                                                  *)
(***************************************************************************)
LEMMA PrefixRefl ==
    ASSUME NEW S, NEW s \in Seq(S)
    PROVE  IsPrefixOf(s, s)
BY DEF IsPrefixOf

LEMMA PrefixTrans ==
    ASSUME NEW S, NEW s \in Seq(S), NEW t \in Seq(S), NEW u \in Seq(S),
           IsPrefixOf(s, t), IsPrefixOf(t, u)
    PROVE  IsPrefixOf(s, u)
BY DEF IsPrefixOf

\* A sequence is a prefix of itself with anything appended.
LEMMA ConcatExtends ==
    ASSUME NEW S, NEW s \in Seq(S), NEW u \in Seq(S)
    PROVE  IsPrefixOf(s, s \o u)
BY ConcatProperties DEF IsPrefixOf

-----------------------------------------------------------------------------
(***************************************************************************)
(* The builder's attribute list only grows: every call leaves it alone or  *)
(* appends to it, a failed pki_status and a failed signing included.       *)
(***************************************************************************)
LEMMA AttributesGrow ==
    ASSUME TypeOK, [Next]_vars
    PROVE  IsPrefixOf(cms_attributes, cms_attributes')
<1>0. cms_attributes \in Seq(Attributes)
  BY DEF TypeOK
<1>1. ASSUME NEW as \in Seq(Attributes), AppendAttributes(as)
      PROVE  IsPrefixOf(cms_attributes, cms_attributes')
  BY <1>0, <1>1, ConcatExtends DEF AppendAttributes
<1>2. ASSUME UNCHANGED cms_attributes
      PROVE  IsPrefixOf(cms_attributes, cms_attributes')
  BY <1>0, <1>2, PrefixRefl
<1>3. ASSUME NEW t \in MessageTypes, MessageType(t)
      PROVE  IsPrefixOf(cms_attributes, cms_attributes')
  BY <1>1, <1>3, OneAttribute DEF MessageType, Attributes
<1>4. ASSUME NEW s \in Statuses, NEW fi \in FailInfos \cup {None},
             PkiStatus(s, fi)
      PROVE  IsPrefixOf(cms_attributes, cms_attributes')
  <2>1. CASE s # FAILURE /\ AppendAttributes(<<Attr("pki_status", s)>>)
    BY <1>1, <2>1, OneAttribute DEF Attributes
  <2>2. CASE /\ s = FAILURE /\ fi # None
             /\ AppendAttributes(<<Attr("pki_status", s), Attr("fail_info", fi)>>)
    <3>1. <<Attr("pki_status", s), Attr("fail_info", fi)>> \in Seq(Attributes)
      BY <2>2 DEF Attr, Attributes
    <3>2. QED
      BY <1>1, <2>2, <3>1
  <2>3. CASE /\ s = FAILURE /\ fi = None
             /\ cms_attributes' = Append(cms_attributes, Attr("pki_status", s))
    <3>1. Attr("pki_status", s) \in Attributes
      BY DEF Attr, Attributes
    <3>2. cms_attributes' = cms_attributes \o <<Attr("pki_status", s)>>
      BY <1>0, <2>3, <3>1, AppendIsConcat
    <3>3. <<Attr("pki_status", s)>> \in Seq(Attributes)
      BY <3>1
    <3>4. QED
      BY <1>0, <3>2, <3>3, ConcatExtends
  <2>4. QED
    BY <1>4, <2>1, <2>2, <2>3 DEF PkiStatus
<1>5. ASSUME NEW n \in Nonces, SenderNonce(n)
      PROVE  IsPrefixOf(cms_attributes, cms_attributes')
  BY <1>1, <1>5, OneAttribute DEF SenderNonce, Attributes
<1>6. ASSUME NEW n \in Nonces, RecipientNonce(n)
      PROVE  IsPrefixOf(cms_attributes, cms_attributes')
  BY <1>1, <1>6, OneAttribute DEF RecipientNonce, Attributes
<1>7. ASSUME NEW t \in TransIds, TransactionId(t)
      PROVE  IsPrefixOf(cms_attributes, cms_attributes')
  BY <1>1, <1>7, OneAttribute DEF TransactionId, Attributes
<1>8. ASSUME Finalize
      PROVE  IsPrefixOf(cms_attributes, cms_attributes')
  <2>1. CASE UNCHANGED <<config, cms_attributes, msgs>>
    BY <1>2, <2>1
  <2>2. CASE /\ encrypt # <<>> /\ recipient \in Idents \ NonRsa
             /\ \E k \in SymKeys, iv \in IVs :
                   FinalizeOk(k, iv) \/ FinalizeSignFails(k, iv)
    <3>1. PICK k \in SymKeys, iv \in IVs :
                 FinalizeOk(k, iv) \/ FinalizeSignFails(k, iv)
      BY <2>2
    <3>2. cms_attributes' = FinalAttributes(EnvelopeFor(k, iv))
      BY <3>1 DEF FinalizeOk, FinalizeSignFails
    <3>3. EnvelopeFor(k, iv) \in Envelopes
      BY <2>2, EnvelopeFacts
    <3>4. QED
      BY <3>2, <3>3, FinalAttributesPrefix DEF IsPrefixOf
  <2>3. QED
    BY <1>8, <2>1, <2>2, FinalizeCases
<1>9. QED
  BY <1>2, <1>3, <1>4, <1>5, <1>6, <1>7, <1>8
     DEF Next, vars, Certificates, AddSigner, AddRecipient, Encrypt, Issued

\* A step that changes the returned messages is a successful finalize().
LEMMA MessageStep ==
    ASSUME TypeOK, [Next]_vars, msgs' # msgs
    PROVE  \E k \in SymKeys, iv \in IVs :
              /\ encrypt # <<>> /\ recipient \in Idents \ NonRsa
              /\ FinalizeOk(k, iv)
<1>1. Finalize
  BY ConfigurationSteps
<1>2. QED
  BY <1>1, FinalizeCases DEF FinalizeSignFails

\* The list a successful finalize() signs: the builder's list and the two
\* mandatory attributes, content-type second to last.
LEMMA FinalAttributesShape ==
    ASSUME TypeOK, NEW env \in Envelopes
    PROVE  LET attrs == FinalAttributes(env)
           IN  /\ attrs \in Seq(Attributes)
               /\ Len(attrs) = Len(cms_attributes) + 2
               /\ attrs[Len(attrs) - 1] = ContentTypeData
               /\ IsPrefixOf(cms_attributes, attrs)
<1>1. ContentTypeData \in Attributes /\ MessageDigest(Sha256(env)) \in Attributes
  BY DEF ContentTypeData, MessageDigest, Attr, Sha256, Attributes
<1>2. cms_attributes \in Seq(Attributes)
  BY DEF TypeOK
<1>3. QED
  BY <1>1, <1>2, ConcatPair, FinalAttributesType, FinalAttributesPrefix
     DEF IsPrefixOf, FinalAttributes

\* The signed attributes of a returned message are attributes of the model.
LEMMA SignedOfType ==
    ASSUME TypeOK, NEW j \in 1..Len(msgs)
    PROVE  SignedOf(j) \in Seq(Attributes)
<1>1. msgs[j] \in PkiMessages
  BY ElementOfSeq DEF TypeOK
<1>2. QED
  BY <1>1 DEF PkiMessages, SignedOf

-----------------------------------------------------------------------------
LEMMA AccumInductive == AccumInv /\ [Next]_vars => AccumInv'
<1> SUFFICES ASSUME AccumInv, [Next]_vars PROVE AccumInv'
  OBVIOUS
<1> USE DEF AccumInv
<1>1. TypeOK'
  BY TypeOKInductive
<1>2. /\ cms_attributes \in Seq(Attributes)
      /\ cms_attributes' \in Seq(Attributes)
      /\ msgs \in Seq(PkiMessages)
      /\ \A j \in 1..Len(msgs) : SignedOf(j) \in Seq(Attributes)
  <2>1. cms_attributes \in Seq(Attributes) /\ msgs \in Seq(PkiMessages)
    BY DEF TypeOK
  <2>2. cms_attributes' \in Seq(Attributes)
    BY <1>1 DEF TypeOK
  <2>3. QED
    BY <2>1, <2>2, SignedOfType
<1>3. IsPrefixOf(cms_attributes, cms_attributes')
  BY AttributesGrow
<1>4. CASE UNCHANGED msgs
  <2>1. SignedPrefix'
    BY <1>2, <1>3, <1>4, PrefixTrans DEF SignedPrefix, SignedOf
  <2>2. QED
    BY <1>1, <1>4, <2>1 DEF OwnContentType, MessagesAccumulate, SignedOf
<1>5. CASE msgs' # msgs
  <2>1. PICK k \in SymKeys, iv \in IVs :
               /\ encrypt # <<>> /\ recipient \in Idents \ NonRsa
               /\ FinalizeOk(k, iv)
    BY <1>5, MessageStep
  <2> DEFINE env == EnvelopeFor(k, iv)
             attrs == FinalAttributes(env)
             m == PkiMessage(env, BuildSignerInfo(attrs))
             n == Len(msgs) + 1
  <2>2. env \in Envelopes /\ m \in PkiMessages
    BY <2>1, EnvelopeFacts, PkiMessageType
  <2>3. /\ attrs \in Seq(Attributes)
        /\ Len(attrs) = Len(cms_attributes) + 2
        /\ attrs[Len(attrs) - 1] = ContentTypeData
        /\ IsPrefixOf(cms_attributes, attrs)
    BY <2>2, FinalAttributesShape
  <2>4. cms_attributes' = attrs /\ m.signedAttrs = attrs
    BY <2>1 DEF FinalizeOk, PkiMessage, BuildSignerInfo
  <2>5. /\ Len(msgs') = n
        /\ msgs'[n].signedAttrs = attrs
        /\ \A j \in 1..Len(msgs) : SignedOf(j)' = SignedOf(j)
    <3>1. msgs' = Append(msgs, m)
      BY <2>1 DEF FinalizeOk
    <3>2. /\ Len(msgs') = n /\ msgs'[n] = m
          /\ \A j \in 1..Len(msgs) : msgs'[j] = msgs[j]
      BY <1>2, <2>2, <3>1, AppendKeeps
    <3>3. QED
      BY <2>4, <3>2 DEF SignedOf
  <2>6. \A j \in 1..Len(msgs) :
           IsPrefixOf(SignedOf(j), attrs) /\ Len(SignedOf(j)) < Len(attrs)
    BY <1>2, <2>3, PrefixTrans DEF SignedPrefix, IsPrefixOf
  <2>7. SignedPrefix'
    <3> SUFFICES ASSUME NEW j \in 1..Len(msgs')
                 PROVE  IsPrefixOf(msgs'[j].signedAttrs, cms_attributes')
      BY DEF SignedPrefix, SignedOf
    <3>1. CASE j <= Len(msgs)
      BY <2>4, <2>5, <2>6, <3>1 DEF SignedOf
    <3>2. CASE j = n
      BY <2>3, <2>4, <2>5, <3>2, PrefixRefl
    <3>3. QED
      BY <2>5, <3>1, <3>2
  <2>8. OwnContentType'
    <3> SUFFICES ASSUME NEW j \in 1..Len(msgs')
                 PROVE  /\ 2 <= Len(msgs'[j].signedAttrs)
                        /\ msgs'[j].signedAttrs[Len(msgs'[j].signedAttrs) - 1]
                             = ContentTypeData
      BY DEF OwnContentType, SignedOf
    <3>1. CASE j <= Len(msgs)
      BY <2>5, <3>1 DEF OwnContentType, SignedOf
    <3>2. CASE j = n
      BY <2>3, <2>5, <3>2
    <3>3. QED
      BY <2>5, <3>1, <3>2
  <2>9. MessagesAccumulate'
    <3> SUFFICES ASSUME NEW i \in 1..Len(msgs'), NEW j \in 1..Len(msgs'), i < j
                 PROVE  /\ IsPrefixOf(SignedOf(i)', SignedOf(j)')
                        /\ Len(SignedOf(i)') < Len(SignedOf(j)')
      BY DEF MessagesAccumulate, SignedOf
    <3>1. CASE j <= Len(msgs)
      BY <2>5, <3>1 DEF MessagesAccumulate, SignedOf
    <3>2. CASE j = n
      <4>1. i \in 1..Len(msgs)
        BY <2>5, <3>2
      <4>2. QED
        BY <2>5, <2>6, <3>2, <4>1 DEF SignedOf
    <3>3. QED
      BY <2>5, <3>1, <3>2
  <2>10. QED
    BY <1>1, <2>7, <2>8, <2>9
<1>6. QED
  BY <1>4, <1>5

\* Two distinct elements make a set of two.
LEMMA PairCardinality ==
    ASSUME NEW x, NEW y, x # y
    PROVE  Cardinality({x} \cup {y}) = 2
<1>1. IsFiniteSet({x}) /\ Cardinality({x}) = 1
  BY FS_Singleton
<1>2. y \notin {x}
  OBVIOUS
<1>3. Cardinality({x} \cup {y}) = Cardinality({x}) + 1
  BY <1>1, <1>2, FS_AddElement
<1>4. QED
  BY <1>1, <1>3

\* Two distinct indices of a sequence at which the attribute type is t.
LEMMA TwoOfType ==
    ASSUME NEW attrs \in Seq(Attributes), NEW t, NEW a \in 1..Len(attrs),
           NEW b \in 1..Len(attrs), a # b, attrs[a].type = t, attrs[b].type = t
    PROVE  CountType(attrs, t) >= 2
<1> DEFINE Idx == {i \in 1..Len(attrs) : attrs[i].type = t}
<1>1. IsFiniteSet(1..Len(attrs)) /\ Idx \in SUBSET (1..Len(attrs))
  BY FS_Interval
<1>2. IsFiniteSet(Idx)
  BY <1>1, FS_Subset
<1>3. {a} \cup {b} \in SUBSET Idx
  OBVIOUS
<1>5. Cardinality({a} \cup {b}) = 2
  BY PairCardinality
<1>6. Cardinality({a} \cup {b}) <= Cardinality(Idx)
  BY <1>2, <1>3, FS_Subset
<1>7. QED
  BY <1>5, <1>6 DEF CountType

LEMMA AccumRepeats == AccumInv => ReusedMessagesRepeatContentType
<1> SUFFICES ASSUME AccumInv, NEW j \in 2..Len(msgs)
             PROVE  CountType(SignedOf(j), "content_type") >= 2
  BY DEF ReusedMessagesRepeatContentType, SignedOf
<1> USE DEF AccumInv
<1>1. SignedOf(1) \in Seq(Attributes) /\ SignedOf(j) \in Seq(Attributes)
  BY SignedOfType
<1>2. /\ 2 <= Len(SignedOf(1))
      /\ SignedOf(1)[Len(SignedOf(1)) - 1] = ContentTypeData
      /\ SignedOf(j)[Len(SignedOf(j)) - 1] = ContentTypeData
  BY DEF OwnContentType
<1>3. IsPrefixOf(SignedOf(1), SignedOf(j)) /\ Len(SignedOf(1)) < Len(SignedOf(j))
  BY DEF MessagesAccumulate, SignedOf
<1> DEFINE a == Len(SignedOf(1)) - 1
           b == Len(SignedOf(j)) - 1
<1>4. a \in 1..Len(SignedOf(j)) /\ b \in 1..Len(SignedOf(j)) /\ a # b
  BY <1>1, <1>2, <1>3
<1>5. SignedOf(j)[a] = ContentTypeData /\ SignedOf(j)[b] = ContentTypeData
  BY <1>1, <1>2, <1>3 DEF IsPrefixOf
<1>6. ContentTypeData.type = "content_type"
  BY DEF ContentTypeData, Attr
<1>7. QED
  BY <1>1, <1>4, <1>5, <1>6, TwoOfType

LEMMA InitAccum == Init => AccumInv
BY EmptySeq DEF Init, AccumInv, TypeOK, Exceptions, SignedPrefix,
                OwnContentType, MessagesAccumulate

(***************************************************************************)
(* For every value of the constants, every message a reused builder        *)
(* returns signs, in their places, all the attributes signed by every      *)
(* message returned before it, and more.                                   *)
(***************************************************************************)
THEOREM MessagesAccumulateHolds == Spec => []MessagesAccumulate
BY InitAccum, AccumInductive, PTL DEF Spec, AccumInv

(***************************************************************************)
(* For every value of the constants, every message after the first that a *)
(* builder returns signs at least two content-type attributes: the reuse   *)
(* divergence of _build_signerinfo's appends is not an artefact of the     *)
(* bounds of the runs.                                                     *)
(***************************************************************************)
THEOREM ReuseRepeatsContentType == Spec => []ReusedMessagesRepeatContentType
BY InitAccum, AccumInductive, AccumRepeats, PTL DEF Spec
=============================================================================
