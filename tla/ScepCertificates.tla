-------------------------- MODULE ScepCertificates --------------------------
(***************************************************************************)
(* The two free functions of src/scep/builders.py that carry certificates: *)
(* create_degenerate_certificate, which wraps one certificate in a         *)
(* certs-only SignedData (the CA-certificate and CertRep payload), and     *)
(* certificates_from_asn1, which turns a received CertificateSet back into *)
(* certificates.                                                           *)
(*                                                                         *)
(* A sender creates degenerate messages; a receiver decodes certificate    *)
(* sets, either those of messages sent or any set a peer may put on the   *)
(* wire, whose CertificateChoices may be of another kind.  Whether the     *)
(* interpreter runs with -O (assert statements stripped) is fixed for the  *)
(* whole run.                                                              *)
(***************************************************************************)
EXTENDS Naturals, Sequences, FiniteSets

CONSTANTS
    Certs,       \* X.509 certificates, compared by their DER encoding
    MaxSetSize,  \* bound on the length of a received CertificateSet
    NoMessage    \* a set that no create_degenerate_certificate call made

ASSUME CertificatesAssumption ==
    /\ Certs # {}
    /\ MaxSetSize \in Nat \ {0}

VARIABLES
    sent,       \* the degenerate messages created, with the certificate given
    decoded,    \* the last certificates_from_asn1 call: input and outcome
    optimized   \* the interpreter runs with -O

vars == <<sent, decoded, optimized>>

\* The alternatives of asn1crypto's CertificateChoices.
ChoiceNames == {"certificate", "extended_certificate", "v1_attr_cert",
                "v2_attr_cert", "other"}

Choices == [name: ChoiceNames, chosen: Certs]

CertificateSets == UNION {[1..n -> Choices] : n \in 0..MaxSetSize}

\* decoded before the first call.
NoCall == [from |-> NoMessage, set |-> <<>>, outcome |-> [error |-> "none", certs |-> <<>>]]

\* What certificates_from_asn1 can end in besides a list of certificates.
DecodeErrors == {"AssertionError", "ValueError"}

\* The outcome of a call: the list it returns, or the exception it raises.
Returned(l) == [error |-> "none", certs |-> l]

Raised(e) == [error |-> e, certs |-> <<>>]

-----------------------------------------------------------------------------
\* Fault-injected variant: the SignedData is given version 3.
CreateDegenerateCertificateV3(c) ==
    [contentType |-> "signed_data",
     content |-> [version |-> 3,
                  encapContentInfo |-> [contentType |-> "data"],
                  certificates |-> <<[name |-> "certificate", chosen |-> c]>>,
                  digestAlgorithms |-> <<>>,
                  signerInfos |-> <<>>]]

(***************************************************************************)
(* create_degenerate_certificate(certificate): the certificate's DER is    *)
(* parsed back and put, as the one 'certificate' choice, into a SignedData *)
(* of version 1 with an empty 'data' encapContentInfo.  The code never     *)
(* sets digest_algorithms or signer_infos: there are none.                 *)
(***************************************************************************)
CreateDegenerateCertificate(c) ==
    [contentType |-> "signed_data",
     content |-> [version |-> 1,
                  encapContentInfo |-> [contentType |-> "data"],
                  certificates |-> <<[name |-> "certificate", chosen |-> c]>>,
                  digestAlgorithms |-> <<>>,
                  signerInfos |-> <<>>]]

\* Fault-injected variant: the loop starts at the second choice.
CertificatesFromAsn1SkipFirst(cs, opt) ==
    IF \A i \in 1..Len(cs) : cs[i].name = "certificate"
      THEN Returned([i \in 1..(Len(cs) - 1) |-> cs[i + 1].chosen])
      ELSE Raised(IF opt THEN "ValueError" ELSE "AssertionError")

(***************************************************************************)
(* certificates_from_asn1(cert_set): each choice is asserted to be a       *)
(* 'certificate' and loaded from its DER.  A choice of another kind stops  *)
(* the loop with AssertionError; under -O the assert is gone and           *)
(* load_der_x509_certificate rejects the other structure with ValueError.  *)
(* Either way the partial list is dropped.                                 *)
(***************************************************************************)
CertificatesFromAsn1(cs, opt) ==
    IF \A i \in 1..Len(cs) : cs[i].name = "certificate"
      THEN Returned([i \in 1..Len(cs) |-> cs[i].chosen])
      ELSE Raised(IF opt THEN "ValueError" ELSE "AssertionError")

-----------------------------------------------------------------------------
Init ==
    /\ sent = {}
    /\ decoded = NoCall
    /\ optimized \in BOOLEAN

\* A sender calls create_degenerate_certificate(c) and sends the result.
CreateDegenerate(c) ==
    /\ sent' = sent \cup {[cert |-> c, msg |-> CreateDegenerateCertificate(c)]}
    /\ UNCHANGED <<decoded, optimized>>

\* A receiver decodes the certificate set cs; from is the sent message it
\* was taken from, or NoMessage for a set from another peer.
Decode(from, cs) ==
    /\ decoded' = [from |-> from, set |-> cs,
                   outcome |-> CertificatesFromAsn1(cs, optimized)]
    /\ UNCHANGED <<sent, optimized>>

Next ==
    \/ \E c \in Certs : CreateDegenerate(c)
    \/ \E m \in sent : Decode(m, m.msg.content.certificates)
    \/ \E cs \in CertificateSets : Decode(NoMessage, cs)

Spec == Init /\ [][Next]_vars

-----------------------------------------------------------------------------
DegenerateMessages ==
    [contentType: {"signed_data"},
     content: [version: {1}, encapContentInfo: [contentType: {"data"}],
               certificates: CertificateSets, digestAlgorithms: {<<>>},
               signerInfos: {<<>>}]]

TypeOK ==
    /\ sent \subseteq [cert: Certs, msg: DegenerateMessages]
    /\ decoded \in [from: {NoMessage} \cup sent, set: CertificateSets,
                    outcome: [error: {"none"} \cup DecodeErrors,
                              certs: Seq(Certs)]]
    /\ optimized \in BOOLEAN

(***************************************************************************)
(* Degenerate message shape (spec section 8): a message                    *)
(* create_degenerate_certificate made has no signer infos, and decoding    *)
(* its certificate set with certificates_from_asn1 gives exactly the one   *)
(* certificate it was made for, with or without -O.                        *)
(***************************************************************************)
DegenerateShape ==
    decoded.from # NoMessage =>
        /\ decoded.from.msg.content.signerInfos = <<>>
        /\ decoded.outcome = Returned(<<decoded.from.cert>>)
=============================================================================
