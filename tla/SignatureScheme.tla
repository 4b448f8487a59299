---------------------------- MODULE SignatureScheme ----------------------------
(***************************************************************************)
(* What api.h promises of a signature scheme, call by call: a key pair can *)
(* sign once it has been made, and of everything that anybody presents,    *)
(* under whatever key, verification accepts exactly what was signed.       *)
(* Module Sphincs implements this.                                         *)
(***************************************************************************)
EXTENDS Integers

CONSTANTS Keys, Messages, Nothing

VARIABLES
    owners,   \* the key pairs that have been made
    signed,   \* every <<key, message, signature>> that a call returned
    asked,    \* what is being verified, once there is an answer; or empty
    verdict   \* that answer: 0 or -1

vars == <<owners, signed, asked, verdict>>

Init ==
    /\ owners = {}
    /\ signed = {}
    /\ asked = {}
    /\ verdict = Nothing

Keypair(k) ==
    /\ asked = {}
    /\ owners' = owners \cup {k}
    /\ verdict' = Nothing
    /\ UNCHANGED <<signed, asked>>

(* Nothing is said of the signature itself. *)
Sign(k, m) ==
    /\ asked = {}
    /\ k \in owners
    /\ \E s \in {t[3] : t \in signed'} : signed' = signed \cup {<<k, m, s>>}
    /\ UNCHANGED <<owners, asked, verdict>>

IsSingleton(s) == s # {} /\ \A p, q \in s : p = q

Verify ==
    /\ asked = {}
    /\ IsSingleton(asked')
    /\ \A p \in asked' : p[1] \in owners
    /\ verdict' = IF asked' \subseteq signed THEN 0 ELSE -1
    /\ UNCHANGED <<owners, signed>>

Resume ==
    /\ asked # {}
    /\ asked' = {}
    /\ UNCHANGED <<owners, signed, verdict>>

(* A call has begun, and what the one before it answered is gone. *)
Begin ==
    /\ asked = {}
    /\ verdict' = Nothing
    /\ UNCHANGED <<owners, signed, asked>>

Next ==
    \/ \E k \in Keys : Keypair(k)
    \/ \E k \in Keys, m \in Messages : Sign(k, m)
    \/ Verify \/ Resume \/ Begin

Spec == Init /\ [][Next]_vars
===============================================================================
