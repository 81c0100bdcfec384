----------------------- MODULE ScepCertificatesProofs -----------------------
(***************************************************************************)
(* Proofs that the properties of ScepCertificates hold for every set of    *)
(* certificates and every bound on the received sets.  The inductive       *)
(* invariant adds to the type invariant that every message sent is what    *)
(* create_degenerate_certificate returns for its certificate.              *)
(***************************************************************************)
EXTENDS ScepCertificates, TLAPS

USE CertificatesAssumption

\* Every message in sent is the degenerate encoding of its own certificate.
SentAreDegenerate ==
    \A m \in sent : m.msg = CreateDegenerateCertificate(m.cert)

IInv == TypeOK /\ SentAreDegenerate /\ DegenerateShape

\* The one-choice set create_degenerate_certificate builds.
LEMMA OneChoiceSet ==
    ASSUME NEW c \in Certs
    PROVE  <<[name |-> "certificate", chosen |-> c]>> \in CertificateSets
<1>1. <<[name |-> "certificate", chosen |-> c]>> \in [1..1 -> Choices]
  BY DEF Choices, ChoiceNames
<1>2. 1 \in 0..MaxSetSize
  OBVIOUS
<1>3. QED
  BY <1>1, <1>2 DEF CertificateSets

LEMMA DegenerateType ==
    ASSUME NEW c \in Certs
    PROVE  CreateDegenerateCertificate(c) \in DegenerateMessages
BY OneChoiceSet DEF CreateDegenerateCertificate, DegenerateMessages

\* What certificates_from_asn1 returns, and when.
LEMMA DecodeOutcome ==
    ASSUME NEW cs \in CertificateSets, NEW opt \in BOOLEAN
    PROVE  LET out == CertificatesFromAsn1(cs, opt)
           IN  /\ out \in [error: {"none"} \cup DecodeErrors, certs: Seq(Certs)]
               /\ \/ /\ out.error \in DecodeErrors
                     /\ \E i \in 1..Len(cs) : cs[i].name # "certificate"
                  \/ /\ out = Returned([i \in 1..Len(cs) |-> cs[i].chosen])
                     /\ \A i \in 1..Len(cs) : cs[i].name = "certificate"
<1>1. PICK n \in 0..MaxSetSize : cs \in [1..n -> Choices]
  BY DEF CertificateSets
<1>2. cs \in Seq(Choices) /\ Len(cs) = n
  BY <1>1
<1>3. [i \in 1..Len(cs) |-> cs[i].chosen] \in Seq(Certs)
  <2>1. \A i \in 1..n : cs[i].chosen \in Certs
    BY <1>1 DEF Choices
  <2>2. [i \in 1..n |-> cs[i].chosen] \in [1..n -> Certs]
    BY <2>1
  <2>3. n \in Nat
    OBVIOUS
  <2>4. QED
    BY <1>2, <2>2, <2>3
<1>4. QED
  BY <1>3 DEF CertificatesFromAsn1, Returned, Raised, DecodeErrors

LEMMA InitIInv == Init => IInv
<1> SUFFICES ASSUME Init PROVE IInv
  OBVIOUS
<1>1. <<>> \in CertificateSets
  <2>1. <<>> \in [1..0 -> Choices]
    OBVIOUS
  <2>2. QED
    BY <2>1 DEF CertificateSets
<1>2. QED
  BY <1>1 DEF Init, IInv, TypeOK, NoCall, SentAreDegenerate, DegenerateShape,
              Returned

LEMMA IInvInductive == IInv /\ [Next]_vars => IInv'
<1> SUFFICES ASSUME IInv, [Next]_vars PROVE IInv'
  OBVIOUS
<1> USE DEF IInv
<1>1. ASSUME NEW c \in Certs, CreateDegenerate(c) PROVE IInv'
  <2>1. TypeOK'
    BY <1>1, DegenerateType DEF CreateDegenerate, TypeOK
  <2>2. SentAreDegenerate'
    BY <1>1 DEF CreateDegenerate, SentAreDegenerate
  <2>3. QED
    BY <1>1, <2>1, <2>2 DEF CreateDegenerate, DegenerateShape
<1>2. ASSUME NEW from \in {NoMessage} \cup sent, NEW cs \in CertificateSets,
             Decode(from, cs)
      PROVE  TypeOK'
  <2>1. optimized \in BOOLEAN
    BY DEF TypeOK
  <2>2. QED
    BY <1>2, <2>1, DecodeOutcome DEF Decode, TypeOK
<1>3. ASSUME NEW m \in sent, Decode(m, m.msg.content.certificates) PROVE IInv'
  <2>1. m.msg = CreateDegenerateCertificate(m.cert) /\ m.cert \in Certs
    BY DEF SentAreDegenerate, TypeOK
  <2>2. m.msg.content.certificates \in CertificateSets
    BY <2>1, OneChoiceSet DEF CreateDegenerateCertificate
  <2>3. TypeOK'
    BY <1>2, <1>3, <2>2
  <2>4. decoded'.outcome = Returned(<<m.cert>>)
    BY <1>3, <2>1 DEF Decode, CertificatesFromAsn1, CreateDegenerateCertificate
  <2>5. DegenerateShape'
    BY <1>3, <2>1, <2>4 DEF Decode, DegenerateShape, CreateDegenerateCertificate
  <2>6. QED
    BY <1>3, <2>3, <2>5 DEF Decode, SentAreDegenerate
<1>4. ASSUME NEW cs \in CertificateSets, Decode(NoMessage, cs) PROVE IInv'
  BY <1>2, <1>4 DEF Decode, SentAreDegenerate, DegenerateShape
<1>5. CASE UNCHANGED vars
  BY <1>5 DEF vars, TypeOK, SentAreDegenerate, DegenerateShape
<1>6. QED
  BY <1>1, <1>3, <1>4, <1>5 DEF Next

\* Every state of the sender and the receiver is well typed.
THEOREM CertificatesTypeCorrect == Spec => []TypeOK
BY InitIInv, IInvInductive, PTL DEF Spec, IInv

(***************************************************************************)
(* For every set of certificates and every bound on received sets, a      *)
(* degenerate message create_degenerate_certificate made has no signer     *)
(* infos, and certificates_from_asn1 decodes its set to exactly the one    *)
(* certificate it was made for.                                            *)
(***************************************************************************)
THEOREM DegenerateShapeHolds == Spec => []DegenerateShape
BY InitIInv, IInvInductive, PTL DEF Spec, IInv
=============================================================================
