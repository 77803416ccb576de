----------------------------- MODULE SpendOnce -----------------------------
(***************************************************************************)
(* What a spend promises: a call settles on at most one transaction of its *)
(* plan, has it signed input by input, and delivers it whole or not at     *)
(* all; whoever tries again may do so with that transaction only, until a  *)
(* new call is begun.                                                      *)
(***************************************************************************)
EXTENDS Integers, Sequences

CONSTANTS Requests, Entropies

VARIABLES
  plan,            \* the request of the call
  transaction,     \* <<ins, outs, fee, seed>> settled on, or << >>
  signed,          \* inputs signed in this attempt
  answered,        \* whether no attempt is under way
  delivered        \* the transaction handed to the caller, or << >>

vars == <<plan, transaction, signed, answered, delivered>>

Inputs == IF transaction = << >> THEN {} ELSE DOMAIN transaction[1]

Orders(n) == {p \in [1..n -> 1..n] : \A i, j \in 1..n : p[i] = p[j] => i = j}

(* The transactions of a plan: its inputs and its outputs in some order.   *)
Of(r) ==
  {<< [i \in DOMAIN r.rows |-> [at |-> r.rows[p[i]].at, asset |-> r.rows[p[i]].asset,
                                val |-> r.rows[p[i]].val]],
      [i \in DOMAIN r.outs |-> r.outs[q[i]]], r.fee, e >> :
     p \in Orders(Len(r.rows)), q \in Orders(Len(r.outs)), e \in Entropies}

Init ==
  /\ plan \in Requests /\ answered = TRUE
  /\ transaction = << >> /\ signed = {} /\ delivered = << >>

Begin(r) ==
  /\ answered
  /\ plan' = r /\ answered' = FALSE
  /\ transaction' = << >> /\ signed' = {} /\ delivered' = << >>

Again ==
  /\ answered /\ transaction # << >>
  /\ answered' = FALSE /\ signed' = {} /\ delivered' = << >>
  /\ UNCHANGED <<plan, transaction>>

Settle ==
  /\ ~ answered /\ transaction = << >>
  /\ transaction' \in Of(plan)
  /\ UNCHANGED <<plan, signed, answered, delivered>>

Sign(i) ==
  /\ ~ answered /\ transaction # << >> /\ i \in Inputs \ signed
  /\ signed' = signed \cup {i}
  /\ UNCHANGED <<plan, transaction, answered, delivered>>

Deliver ==
  /\ ~ answered /\ transaction # << >> /\ signed = Inputs
  /\ answered' = TRUE /\ delivered' = transaction /\ transaction' = << >>
  /\ UNCHANGED <<plan, signed>>

Refuse ==
  /\ ~ answered /\ answered' = TRUE
  /\ transaction' \in {transaction, << >>}
  /\ UNCHANGED <<plan, signed, delivered>>

Attempt == Settle \/ (\E i \in Inputs : Sign(i)) \/ Deliver \/ Refuse

Next == (\E r \in Requests : Begin(r)) \/ Again \/ Attempt

Safety == Init /\ [][Next]_vars

(* An attempt under way is answered.                                       *)
Spec == Safety /\ WF_vars(Attempt)
=============================================================================
