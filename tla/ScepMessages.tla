---------------------------- MODULE ScepMessages ----------------------------
(***************************************************************************)
(* What a caller of PKIMessageBuilder may rely on, without the encoding    *)
(* and the cryptography: the builder holds the payload it will deliver,    *)
(* the recipient and the signer; sealing delivers that payload to that     *)
(* recipient, authenticated as that signer.  Only the first payload queued *)
(* counts (spec section 4.5, step 1).  Attribute calls, certificates and   *)
(* failed calls are not visible at this level.                             *)
(*                                                                         *)
(* delivered holds, for each message sealed, what its recipient reads:     *)
(* the payload, the recipient it was addressed to and the identity its     *)
(* signature authenticates.                                                *)
(***************************************************************************)
EXTENDS Sequences

CONSTANTS
    Idents,    \* identities: certificates with their keys
    Payloads,  \* byte strings to deliver
    None       \* no payload queued, no recipient set

VARIABLES payload, to, from, delivered

absvars == <<payload, to, from, delivered>>

Init ==
    /\ payload = None
    /\ to = None
    /\ from \in Idents
    /\ delivered = <<>>

\* Queueing content: the first payload queued is the one delivered.
Queue(p) ==
    /\ payload' = IF payload = None THEN p ELSE payload
    /\ UNCHANGED <<to, from, delivered>>

Address(r) ==
    /\ to' = r
    /\ UNCHANGED <<payload, from, delivered>>

Sign(i) ==
    /\ from' = i
    /\ UNCHANGED <<payload, to, delivered>>

Seal ==
    /\ payload # None
    /\ to # None
    /\ delivered' = Append(delivered, [payload |-> payload, to |-> to,
                                       from |-> from])
    /\ UNCHANGED <<payload, to, from>>

Next ==
    \/ \E p \in Payloads : Queue(p)
    \/ \E r \in Idents : Address(r)
    \/ \E i \in Idents : Sign(i)
    \/ Seal

Spec == Init /\ [][Next]_absvars
=============================================================================
