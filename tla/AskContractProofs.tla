-------------------------- MODULE AskContractProofs --------------------------
(* Proofs that the contract with askers implies what it is stated for. *)
EXTENDS AskContract, TLAPS

\* Nothing is served before it is submitted, and the ask being served was served.
ServedSubmitted ==
    /\ serving # Nobody => serving \in served
    /\ \A a \in Asks : st[a] = "idle" => a \notin served

\* The inductive invariant: OutcomesTruthful needs to know that the one ask an
\* answer can go to is a served one.
ContractInv == TypeOK /\ ServedSubmitted /\ OutcomesTruthful /\ ClosedSettled

LEMMA ContractInvInductive ==
    ASSUME Nobody \notin Asks PROVE ContractInv /\ [Next]_vars => ContractInv'
<1> SUFFICES ASSUME ContractInv, [Next]_vars PROVE ContractInv'
  OBVIOUS
<1> USE DEF ContractInv, TypeOK, ServedSubmitted, OutcomesTruthful, ClosedSettled
<1>1. ASSUME NEW a \in Asks, Open(a) PROVE ContractInv'
  BY <1>1 DEF Open
<1>2. ASSUME NEW a \in Asks, Refuse(a) PROVE ContractInv'
  BY <1>2 DEF Refuse
<1>3. ASSUME NEW a \in Asks, Expire(a) PROVE ContractInv'
  BY <1>3 DEF Expire
<1>4. ASSUME NEW n \in Asks \cup {Nobody}, Turn(n) PROVE ContractInv'
  BY <1>4 DEF Turn, Answered
<1>5. CASE Close
  BY <1>5 DEF Close, Answered
<1>6. CASE UNCHANGED vars
  BY <1>6 DEF vars
<1> QED
  BY <1>1, <1>2, <1>3, <1>4, <1>5, <1>6 DEF Next

\* An asker that was refused may ask again: its question was not handled.  One
\* that was answered had its question handled.  After the end, the only asks still
\* open are those whose handler was cut off.
THEOREM ContractHolds ==
    ASSUME Nobody \notin Asks PROVE Spec => [](OutcomesTruthful /\ ClosedSettled)
<1>1. Init => ContractInv
  BY DEF Init, ContractInv, TypeOK, ServedSubmitted, OutcomesTruthful, ClosedSettled
<1>2. ContractInv => OutcomesTruthful /\ ClosedSettled
  BY DEF ContractInv
<1> QED
  BY <1>1, <1>2, ContractInvInductive, PTL DEF Spec
=============================================================================
