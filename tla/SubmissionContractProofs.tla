---------------------- MODULE SubmissionContractProofs ----------------------
(* ReliableSubmissionXRPClient implements SubmissionContract. *)
EXTENDS ReliableSubmissionProofs

(* The refinement mapping, call by call. *)
LEMMA MappingOf ==
  ASSUME NEW c \in Calls
  PROVE  /\ CallPhase[c] =
              IF pc[c] = "idle" THEN "idle"
              ELSE IF Threw(c) THEN "threw"
              ELSE IF Returned(c) THEN "returned"
              ELSE IF Submits(c) THEN "submitting" ELSE "querying"
         /\ CallOutcome[c] =
              IF ~Submits(c) \/ tx[c] = NoTx THEN "open"
              ELSE IF tx[c] \in tesTxs THEN "succeeded"
              ELSE IF tx[c] \in tecTxs THEN "failed"
              ELSE IF tx[c].lastLedger <= ledger THEN "expired" ELSE "open"
BY DEF CallPhase, CallOutcome

LEMMA ContractInit == Init => Contract!Init
BY DEF Init, DefaultInit, Contract!Init, CallPhase, CallOutcome, Submits, NoResult

(* A ledger that closes decides outcomes that were open, of calls that have *)
(* not returned.                                                            *)
LEMMA CloseDecides ==
  ASSUME IInv, CloseLedger, UNCHANGED <<clientVars, awaitVars>>
  PROVE  Contract!Decide
<1>1. /\ CallPhase' = CallPhase
      /\ [c \in Calls |-> final[c].status]' = [c \in Calls |-> final[c].status]
  BY DEF CallPhase, clientVars, awaitVars, Threw, Returned, Submits
<1>2. CallOutcome' \in [Calls -> {"succeeded", "failed", "expired"} \cup {"open"}]
  BY DEF CallOutcome
<1>3. ASSUME NEW c \in Calls, CallOutcome'[c] # CallOutcome[c]
      PROVE  CallOutcome[c] = "open" /\ CallPhase[c] \in {"submitting", "threw"}
  <2>1. /\ UNCHANGED <<pc, request, tx, await>>
        /\ ledger \in Nat /\ ledger' \in Nat
    BY WaitUndisturbed DEF clientVars, awaitVars, IInv, DefaultNext
  <2>2. Submits(c) /\ tx[c] # NoTx
    BY <1>3, <2>1 DEF CallOutcome, Submits
  <2>3. tx[c] \in Tx /\ pc[c] # "idle"
    BY <2>2 DEF IInv, DefaultInv, DefaultTypeOK, PrepareInOrder, Submits
  <2>4. ~Settled(tx[c])
    <3> SUFFICES ASSUME Settled(tx[c]) PROVE FALSE
      OBVIOUS
    <3>1. /\ Settled(tx[c])'
          /\ (tx[c] \in tesTxs)' = (tx[c] \in tesTxs)
          /\ (tx[c] \in tecTxs)' = (tx[c] \in tecTxs)
      BY <2>1, <2>3, WaitUndisturbed DEF IInv, DefaultNext, clientVars
    <3> QED
      BY <1>3, <2>1, <2>2, <3>1 DEF CallOutcome, Submits, Settled, Validated
  <2>5. CallOutcome[c] = "open"
    BY <2>4 DEF CallOutcome, Settled, Validated
  <2>6. ~Returned(c)
    BY <2>2, <2>4 DEF Returned, IInv, WaitInOrder
  <2>7. CallPhase[c] \in {"submitting", "threw"}
    BY <2>2, <2>3, <2>6 DEF CallPhase
  <2> QED BY <2>5, <2>7
<1> QED BY <1>1, <1>2, <1>3 DEF Contract!Decide, Contract!Decided

(* Calls other than the one that steps look the same to their callers, and  *)
(* so does the outcome of a transaction that no step of a call can change.  *)
LEMMA OthersUnmoved ==
  ASSUME IInv, NEW d \in Calls,
         UNCHANGED <<ledger, tesTxs, tecTxs>>,
         \A c \in Calls \ {d} :
           UNCHANGED <<pc[c], request[c], tx[c], await[c], final[c]>>
  PROVE  \A c \in Calls \ {d} :
           /\ CallPhase'[c] = CallPhase[c]
           /\ CallOutcome'[c] = CallOutcome[c]
           /\ final'[c].status = final[c].status
BY DEF CallPhase, CallOutcome, Threw, Returned, Submits

(* One call's phase changes, and nothing else a caller sees. *)
LEMMA OnePhaseChanges ==
  ASSUME IInv, NEW d \in Calls, NEW p,
         UNCHANGED <<ledger, tesTxs, tecTxs, final>>,
         \A c \in Calls \ {d} :
           UNCHANGED <<pc[c], request[c], tx[c], await[c]>>,
         CallPhase'[d] = p, CallOutcome'[d] = CallOutcome[d]
  PROVE  /\ CallPhase' = [CallPhase EXCEPT ![d] = p]
         /\ CallOutcome' = CallOutcome
         /\ [c \in Calls |-> final[c].status]' = [c \in Calls |-> final[c].status]
<1>1. \A c \in Calls \ {d} :
           /\ CallPhase'[c] = CallPhase[c]
           /\ CallOutcome'[c] = CallOutcome[c]
  BY OthersUnmoved
<1>2. /\ CallPhase = [c \in Calls |-> CallPhase[c]]
      /\ CallPhase' = [c \in Calls |-> CallPhase'[c]]
      /\ CallOutcome = [c \in Calls |-> CallOutcome[c]]
      /\ CallOutcome' = [c \in Calls |-> CallOutcome'[c]]
  BY DEF CallPhase, CallOutcome
<1> QED BY <1>1, <1>2

(* A call begins. *)
LEMMA BeginMaps ==
  ASSUME IInv, NEW d \in Calls, DefaultBegin(d), UNCHANGED awaitVars
  PROVE  Contract!Begin(d)
<1>1. pc[d] = "idle" /\ tx[d] = NoTx /\ await[d] = "awaitStatus"
  BY DEF DefaultBegin, sendWithDetails, enableDepositAuth, paymentStatus, Begin,
         IInv, DefaultInv, PrepareInOrder, WaitInOrder
<1> USE <1>1, ClientAssumption DEF awaitVars, ledgerVars
<1>2. ASSUME NEW r \in Request, r.method # "paymentStatus",
             NEW addresses, Begin(d, r, addresses)
      PROVE  Contract!Begin(d)
  <2>1. PICK p \in {"accountInfo", "threw"} : pc' = [pc EXCEPT ![d] = p]
    BY <1>2 DEF Begin
  <2>2. CallPhase'[d] \in {"submitting", "threw"}
    BY <1>2, <2>1 DEF Begin, CallPhase, Threw, Returned, Submits, IInv, DefaultInv,
      DefaultTypeOK
  <2>3. CallOutcome'[d] = "open" /\ CallOutcome[d] = "open" /\ CallPhase[d] = "idle"
    BY <1>2, <2>1 DEF Begin, CallPhase, CallOutcome
  <2>4. /\ CallPhase' = [CallPhase EXCEPT ![d] = CallPhase'[d]]
        /\ CallOutcome' = CallOutcome
        /\ [c \in Calls |-> final[c].status]' = [c \in Calls |-> final[c].status]
    BY <1>2, <2>1, <2>3, OnePhaseChanges
    DEF Begin, IInv, DefaultInv, DefaultTypeOK
  <2> QED BY <2>2, <2>3, <2>4 DEF Contract!Begin
<1>3. CASE sendWithDetails(d)
  BY <1>2, <1>3 DEF sendWithDetails, Request, Methods
<1>4. CASE enableDepositAuth(d)
  BY <1>2, <1>4 DEF enableDepositAuth, Request, Methods
<1>5. CASE paymentStatus(d)
  <2> USE <1>5 DEF paymentStatus
  <2>1. request'[d].method = "paymentStatus" /\ pc'[d] = "status"
    BY DEF IInv, DefaultInv, DefaultTypeOK
  <2>2. CallPhase'[d] = "querying"
    BY <2>1 DEF CallPhase, Threw, Returned, Submits
  <2>3. CallOutcome'[d] = "open" /\ CallOutcome[d] = "open" /\ CallPhase[d] = "idle"
    BY <2>1 DEF CallPhase, CallOutcome, Submits
  <2>4. /\ CallPhase' = [CallPhase EXCEPT ![d] = CallPhase'[d]]
        /\ CallOutcome' = CallOutcome
        /\ [c \in Calls |-> final[c].status]' = [c \in Calls |-> final[c].status]
    BY <2>3, OnePhaseChanges DEF IInv, DefaultInv, DefaultTypeOK
  <2> QED BY <2>2, <2>3, <2>4 DEF Contract!Begin
<1> QED BY <1>3, <1>4, <1>5 DEF DefaultBegin

(* A request of the decorated client: a stutter, a throw, the end of a      *)
(* query, or, when the transaction is built, an outcome that shows at once. *)
LEMMA StepMaps ==
  ASSUME IInv, NEW d \in Calls, DefaultStep(d), UNCHANGED awaitVars
  PROVE  \/ UNCHANGED <<CallPhase, CallOutcome, [c \in Calls |-> final[c].status]>>
         \/ Contract!Decide \/ Contract!Throw(d) \/ Contract!ReturnQuery(d)
<1>1. /\ pc[d] \in RequestSteps /\ await[d] = "awaitStatus" /\ request[d] \in Request
      /\ UNCHANGED <<ledger, tesTxs, tecTxs, request, final, await>>
      /\ \A c \in Calls \ {d} : UNCHANGED <<pc[c], request[c], tx[c], await[c]>>
  BY DEF DefaultStep, getAccountInfo, getFee, getOpenLedgerSequence, SigningError,
    signAndSubmitTransaction, readPaymentStatus, readRawStatus, RPCError,
    RequestSteps, ledgerVars, awaitVars, IInv, DefaultInv, DefaultTypeOK,
    PrepareInOrder, WaitInOrder
<1>2. CallPhase[d] = IF Submits(d) THEN "submitting" ELSE "querying"
  BY <1>1 DEF CallPhase, Threw, Returned, RequestSteps
<1>3. pc'[d] \in RequestSteps \cup {"returned", "threw"}
  BY <1>1 DEF DefaultStep, getAccountInfo, getFee, getOpenLedgerSequence,
    SigningError, signAndSubmitTransaction, readPaymentStatus, readRawStatus,
    RPCError, RequestSteps, IInv, DefaultInv, DefaultTypeOK
<1>4. CallPhase'[d] = IF pc'[d] = "threw" THEN "threw"
                      ELSE IF pc'[d] = "returned" /\ ~Submits(d) THEN "returned"
                      ELSE CallPhase[d]
  BY <1>1, <1>2, <1>3 DEF CallPhase, Threw, Returned, Submits, RequestSteps
<1>5. CASE ~getOpenLedgerSequence(d)
  <2>1. tx'[d] = tx[d]
    BY <1>5 DEF DefaultStep, getAccountInfo, getFee, SigningError,
      signAndSubmitTransaction, readPaymentStatus, readRawStatus, RPCError
  <2>2. CallOutcome'[d] = CallOutcome[d]
    BY <1>1, <2>1 DEF CallOutcome, Submits
  <2>3. /\ CallPhase' = [CallPhase EXCEPT ![d] = CallPhase'[d]]
        /\ CallOutcome' = CallOutcome
        /\ [c \in Calls |-> final[c].status]' = [c \in Calls |-> final[c].status]
    BY <1>1, <2>2, OnePhaseChanges
  <2>4. CASE pc'[d] = "threw"
    BY <1>2, <1>4, <2>3, <2>4 DEF Contract!Throw
  <2>5. CASE pc'[d] = "returned" /\ ~Submits(d)
    BY <1>2, <1>4, <2>3, <2>5 DEF Contract!ReturnQuery
  <2>6. CASE pc'[d] # "threw" /\ (pc'[d] = "returned" => Submits(d))
    <3>1. CallPhase' = CallPhase
      BY <1>4, <2>3, <2>6 DEF CallPhase
    <3> QED BY <2>3, <3>1
  <2> QED BY <2>4, <2>5, <2>6
<1>6. CASE getOpenLedgerSequence(d)
  <2>1. tx[d] = NoTx /\ pc'[d] = "submit"
    BY <1>6 DEF getOpenLedgerSequence, IInv, DefaultInv, DefaultTypeOK, PrepareInOrder
  <2>2. CallPhase'[d] = CallPhase[d] /\ CallOutcome[d] = "open"
    BY <1>4, <2>1 DEF CallOutcome
  <2>3. \A c \in Calls \ {d} : CallPhase'[c] = CallPhase[c]
                               /\ CallOutcome'[c] = CallOutcome[c]
    BY <1>1, OthersUnmoved
  <2>4. CallPhase' = CallPhase
    BY <2>2, <2>3 DEF CallPhase
  <2>5. CallOutcome' \in [Calls -> Contract!Decided \cup {"open"}]
    BY DEF CallOutcome, Contract!Decided
  <2>6. Submits(d) <=> Submits(d)'
    BY <1>1 DEF Submits
  <2>7. CallOutcome'[d] # "open" => CallPhase[d] = "submitting"
    BY <1>2, <2>6 DEF CallOutcome
  <2>8. [c \in Calls |-> final[c].status]' = [c \in Calls |-> final[c].status]
    BY <1>1
  <2> QED BY <2>2, <2>3, <2>4, <2>5, <2>7, <2>8 DEF Contract!Decide
<1> QED BY <1>5, <1>6

(* A request of the wait: a stutter, a throw, or the return with a settled  *)
(* transaction and a result that agrees with its outcome.                   *)
LEMMA AwaitMaps ==
  ASSUME IInv, NEW d \in Calls, AwaitStep(d)
  PROVE  \/ UNCHANGED <<CallPhase, CallOutcome, [c \in Calls |-> final[c].status]>>
         \/ Contract!Throw(d) \/ Contract!ReturnSubmission(d)
<1>0. IInv'
  BY AwaitKeepsInv
<1>1. /\ UNCHANGED defaultVars
      /\ pc[d] = "returned" /\ Submits(d) /\ await[d] \in AwaitSteps
      /\ tx[d] \in Tx /\ tx[d] # NoTx
  BY ClientAssumption
  DEF AwaitStep, AwaitStatus, AwaitLatest, PollLatest, PollStatus, AwaitError,
    Awaiting, IInv, DefaultInv, DefaultTypeOK, PrepareInOrder
<1>2. /\ \A c \in Calls \ {d} : UNCHANGED <<await[c], final[c]>>
      /\ await'[d] \in AwaitSteps \cup {"returned", "threw"}
      /\ await'[d] # "returned" => final' = final
  BY DEF AwaitStep, AwaitStatus, AwaitLatest, PollLatest, PollStatus, AwaitError,
    PollOrReturn, AwaitSteps, IInv, TypeOK
<1>3. /\ CallPhase[d] = "submitting"
      /\ CallPhase'[d] = IF await'[d] \in AwaitSteps THEN "submitting" ELSE await'[d]
      /\ CallOutcome' = CallOutcome
  BY <1>1, <1>2 DEF CallPhase, CallOutcome, Threw, Returned, Submits, AwaitSteps,
    defaultVars, ledgerVars, clientVars
<1>4. CallPhase' = [CallPhase EXCEPT ![d] = CallPhase'[d]]
  BY <1>1, <1>2 DEF CallPhase, Threw, Returned, Submits, defaultVars, clientVars
<1>5. CASE await'[d] \in AwaitSteps
  BY <1>2, <1>3, <1>4, <1>5 DEF CallPhase, AwaitSteps
<1>6. CASE await'[d] = "threw"
  BY <1>2, <1>3, <1>4, <1>6 DEF Contract!Throw, AwaitSteps
<1>7. CASE await'[d] = "returned"
  <2>1. CallOutcome[d] \in {"succeeded", "failed", "expired"}
    BY <1>0, <1>1, <1>7
    DEF CallOutcome, IInv, WaitInOrder, Settled, Validated, defaultVars, ledgerVars,
      clientVars
  <2>2. final'[d].status \in {"none", "pending", CallOutcome[d]} \ {"expired"}
    BY <1>0, <1>1, <2>1
    DEF CallOutcome, IInv, WaitInOrder, ValidatedResultIsTrue, ResultIsTrue, TypeOK,
      TransactionResult, TransactionStatus, defaultVars, ledgerVars, clientVars,
      DefaultInv, SequencesUsedUp
  <2>3. [c \in Calls |-> final[c].status]'
          = [[c \in Calls |-> final[c].status] EXCEPT ![d] = final'[d].status]
    BY <1>2
  <2>4. CallPhase' = [CallPhase EXCEPT ![d] = "returned"]
    BY <1>3, <1>4, <1>7 DEF AwaitSteps
  <2> QED BY <1>3, <2>1, <2>2, <2>3, <2>4
          DEF Contract!ReturnSubmission, Contract!Decided
<1> QED BY <1>2, <1>5, <1>6, <1>7

LEMMA NextMaps == IInv /\ [Next]_vars => [Contract!Next]_Contract!contractVars
<1> SUFFICES ASSUME IInv, [Next]_vars
             PROVE  Contract!Next \/ UNCHANGED Contract!contractVars
  OBVIOUS
<1>1. CASE CloseLedger /\ UNCHANGED <<clientVars, awaitVars>>
  BY <1>1, CloseDecides DEF Contract!Next
<1>2. CASE \E d \in Calls : DefaultBegin(d) /\ UNCHANGED awaitVars
  BY <1>2, BeginMaps DEF Contract!Next
<1>3. CASE \E d \in Calls : DefaultStep(d) /\ UNCHANGED awaitVars
  BY <1>3, StepMaps DEF Contract!Next, Contract!contractVars
<1>4. CASE \E d \in Calls : AwaitStep(d)
  BY <1>4, AwaitMaps DEF Contract!Next, Contract!contractVars
<1>5. CASE UNCHANGED vars
  BY <1>5 DEF vars, defaultVars, ledgerVars, clientVars, awaitVars, CallPhase,
    CallOutcome, Threw, Returned, Submits, Contract!contractVars
<1> QED BY <1>1, <1>2, <1>3, <1>4, <1>5 DEF Next, Step

(* The client implements the contract: with any number of concurrent calls, *)
(* whatever the network loses or refuses, it returns normally only once the *)
(* outcome is decided, and never reports another outcome than that one.     *)
THEOREM ContractImplemented == Spec => ImplementsContract
BY ContractInit, NextMaps, InitInv, NextInv, PTL
   DEF Spec, ImplementsContract, Contract!Spec
=============================================================================
