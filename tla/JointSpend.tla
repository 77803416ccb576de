----------------------------- MODULE JointSpend -----------------------------
(***************************************************************************)
(* What a collaborative spend promises its owners, however many PSETs,     *)
(* digests, signatures and retries it takes: a transaction comes out only  *)
(* after every owner has consented to that very transaction.  Consent is   *)
(* not taken back, and an owner may consent to several alternatives.       *)
(***************************************************************************)
CONSTANT Owners

VARIABLES
  consents,        \* consents[o]: transactions owner o has consented to
  spends           \* transactions that have come out

Init == consents = [o \in Owners |-> {}] /\ spends = {}

Consent(o) ==
  /\ \E t \in consents'[o] : consents' = [consents EXCEPT ![o] = @ \cup {t}]
  /\ UNCHANGED spends

Spend ==
  /\ \E t \in spends' :
       /\ \A o \in Owners : t \in consents[o]
       /\ spends' = spends \cup {t}
  /\ UNCHANGED consents

Next == (\E o \in Owners : Consent(o)) \/ Spend

Spec == Init /\ [][Next]_<<consents, spends>>
=============================================================================
