------------------------- MODULE SubmissionContract -------------------------
(***************************************************************************)
(* What ReliableSubmissionXRPClient promises its callers, without ledgers, *)
(* requests or polling: a call that submits returns only when the outcome  *)
(* of its transaction is decided, an outcome is decided once, and a result *)
(* that claims an outcome claims that one.                                 *)
(***************************************************************************)
CONSTANT Calls

VARIABLES
  phase,    \* where a call is, as its caller sees it
  outcome,  \* what has become of its transaction
  reported  \* the status in the TransactionResult it returned

contractVars == <<phase, outcome, reported>>

Phases == {"idle", "querying", "submitting", "returned", "threw"}
Decided == {"succeeded", "failed", "expired"}

Init ==
  /\ phase = [c \in Calls |-> "idle"]
  /\ outcome = [c \in Calls |-> "open"]
  /\ reported = [c \in Calls |-> "none"]

Begin(c) ==
  /\ phase[c] = "idle"
  /\ \E p \in {"querying", "submitting", "threw"} :
       phase' = [phase EXCEPT ![c] = p]
  /\ UNCHANGED <<outcome, reported>>

(* The network decides any number of open outcomes at once. *)
Decide ==
  /\ outcome' \in [Calls -> Decided \cup {"open"}]
  /\ \A c \in Calls : outcome'[c] # outcome[c] =>
       outcome[c] = "open" /\ phase[c] \in {"submitting", "threw"}
  /\ UNCHANGED <<phase, reported>>

ReturnSubmission(c) ==
  /\ phase[c] = "submitting"
  /\ outcome[c] \in Decided
  /\ phase' = [phase EXCEPT ![c] = "returned"]
  /\ \E s \in {"none", "pending", outcome[c]} \ {"expired"} :
       reported' = [reported EXCEPT ![c] = s]
  /\ UNCHANGED outcome

ReturnQuery(c) ==
  /\ phase[c] = "querying"
  /\ phase' = [phase EXCEPT ![c] = "returned"]
  /\ UNCHANGED <<outcome, reported>>

Throw(c) ==
  /\ phase[c] \in {"querying", "submitting"}
  /\ phase' = [phase EXCEPT ![c] = "threw"]
  /\ UNCHANGED <<outcome, reported>>

Next ==
  \/ Decide
  \/ \E c \in Calls :
       Begin(c) \/ ReturnSubmission(c) \/ ReturnQuery(c) \/ Throw(c)

Spec == Init /\ [][Next]_contractVars
=============================================================================
