---------------------- MODULE ReliableSubmissionProofs ----------------------
(* Theorems about ReliableSubmissionXRPClient: its wait is sound for any    *)
(* number of calls and wallets, any ledger offset and any ledger bound.     *)
EXTENDS ReliableSubmissionXRPClient, DefaultXRPClientProofs

(* The decorated client takes its own steps or none. *)
LEMMA Decorates == [Next]_vars => [DefaultNext]_defaultVars
BY DEF Next, Step, AwaitStep, AwaitStatus, AwaitLatest, PollLatest, PollStatus,
       AwaitError, DefaultNext, vars

LEMMA InitInv == Init => IInv
<1> SUFFICES ASSUME Init PROVE IInv
  OBVIOUS
<1>1. DefaultInv
  BY DefaultInitInv DEF Init
<1>2. TypeOK
  BY <1>1 DEF Init, DefaultInv, TypeOK, RawTransactionStatus, AwaitSteps,
              TransactionResult, NoResult
<1>3. WaitInOrder
  BY DEF Init, WaitInOrder, DefaultInit, LedgerInit, NoResult
<1>4. ValidatedResultIsTrue
  BY DEF Init, ValidatedResultIsTrue, ResultIsTrue, NoResult
<1> QED BY <1>1, <1>2, <1>3, <1>4 DEF IInv

(* A step of the decorated client is no ledger's, leaves calls that have    *)
(* returned alone, and replaces no transaction.                             *)
LEMMA CallStepFrame ==
  ASSUME DefaultInv, NEW d \in Calls, DefaultBegin(d) \/ DefaultStep(d)
  PROVE  /\ UNCHANGED <<ledger, sequence, exists, tesTxs, tecTxs>>
         /\ \A c \in Calls : pc[c] = "returned" =>
              pc'[c] = "returned" /\ request'[c] = request[c]
         /\ \A c \in Calls : tx[c] \in Tx => tx'[c] = tx[c]
<1> USE ClientAssumption DEF DefaultInv, DefaultTypeOK, PrepareInOrder, ledgerVars
<1>1. CASE sendWithDetails(d)
  BY <1>1 DEF sendWithDetails, Begin
<1>2. CASE enableDepositAuth(d)
  BY <1>2 DEF enableDepositAuth, Begin
<1>3. CASE paymentStatus(d)
  BY <1>3 DEF paymentStatus
<1>4. CASE getAccountInfo(d)
  BY <1>4 DEF getAccountInfo
<1>5. CASE getFee(d)
  BY <1>5 DEF getFee
<1>6. CASE getOpenLedgerSequence(d)
  BY <1>6 DEF getOpenLedgerSequence
<1>7. CASE SigningError(d)
  BY <1>7 DEF SigningError
<1>8. CASE signAndSubmitTransaction(d)
  BY <1>8 DEF signAndSubmitTransaction
<1>9. CASE readPaymentStatus(d)
  BY <1>9 DEF readPaymentStatus
<1>10. CASE readRawStatus(d)
  BY <1>10 DEF readRawStatus
<1>11. CASE RPCError(d)
  BY <1>11 DEF RPCError, RequestSteps
<1> QED BY <1>1, <1>2, <1>3, <1>4, <1>5, <1>6, <1>7, <1>8, <1>9, <1>10, <1>11
        DEF DefaultBegin, DefaultStep

(* What a step of the decorated client or of the ledger does to the calls   *)
(* that wait: their transaction stays theirs, and what is settled, or has   *)
(* an outcome, keeps it.                                                    *)
LEMMA WaitUndisturbed ==
  ASSUME DefaultInv, [DefaultNext]_defaultVars
  PROVE  /\ ledger \in Nat /\ ledger' \in Nat /\ ledger <= ledger'
         /\ \A c \in Calls : pc[c] = "returned" =>
              pc'[c] = "returned" /\ request'[c] = request[c]
         /\ \A c \in Calls : tx[c] \in Tx => tx'[c] = tx[c]
         /\ \A t \in Tx : Settled(t) =>
              /\ Settled(t)'
              /\ (t \in tesTxs)' = (t \in tesTxs)
              /\ (t \in tecTxs)' = (t \in tecTxs)
<1>1. ledger \in Nat /\ DefaultTypeOK
  BY DEF DefaultInv, DefaultTypeOK, LedgerTypeOK
<1>2. CASE CloseLedger /\ UNCHANGED clientVars
  BY <1>1, <1>2, LedgerCloses DEF DefaultInv, DefaultTypeOK, clientVars
<1>3. ASSUME NEW d \in Calls, DefaultBegin(d) \/ DefaultStep(d)
      PROVE  /\ UNCHANGED <<ledger, sequence, exists, tesTxs, tecTxs>>
             /\ \A c \in Calls : pc[c] = "returned" =>
                  pc'[c] = "returned" /\ request'[c] = request[c]
             /\ \A c \in Calls : tx[c] \in Tx => tx'[c] = tx[c]
  BY <1>3, CallStepFrame
<1>4. CASE \E d \in Calls : DefaultBegin(d) \/ DefaultStep(d)
  BY <1>1, <1>3, <1>4 DEF Settled, Validated
<1>5. CASE UNCHANGED defaultVars
  BY <1>1, <1>5 DEF Settled, Validated, defaultVars, clientVars, ledgerVars
<1> QED BY <1>2, <1>4, <1>5 DEF DefaultNext

(* A step that is not the wait's own keeps the wait in order. *)
LEMMA OtherStepsKeepWait ==
  ASSUME IInv, [DefaultNext]_defaultVars, UNCHANGED awaitVars
  PROVE  WaitInOrder' /\ ValidatedResultIsTrue' /\ TypeOK'
<1>0. DefaultInv'
  BY DefaultNextInv DEF IInv
<1>1. TypeOK'
  BY <1>0 DEF IInv, TypeOK, DefaultInv, awaitVars
<1>2. /\ ledger \in Nat /\ ledger' \in Nat /\ ledger <= ledger'
      /\ \A c \in Calls : pc[c] = "returned" =>
           pc'[c] = "returned" /\ request'[c] = request[c]
      /\ \A c \in Calls : tx[c] \in Tx => tx'[c] = tx[c]
      /\ \A t \in Tx : Settled(t) =>
           /\ Settled(t)'
           /\ (t \in tesTxs)' = (t \in tesTxs)
           /\ (t \in tecTxs)' = (t \in tecTxs)
  BY WaitUndisturbed DEF IInv
<1>3. \A c \in Calls : pc[c] = "returned" => tx[c] \in Tx
  BY DEF IInv, DefaultInv, DefaultTypeOK, PrepareInOrder
<1>4. WaitInOrder'
  <2> SUFFICES ASSUME NEW c \in Calls
               PROVE
    /\ await'[c] # "awaitStatus" => pc'[c] = "returned" /\ Submits(c)'
    /\ await'[c] \in {"awaitLatest", "pollLatest", "pollStatus"} =>
         StatusTrue(c)' /\ lastLedgerSequence'[c] = tx'[c].lastLedger
    /\ latestLedgerSequence'[c] <= ledger'
    /\ await'[c] = "returned" => Settled(tx[c])'
    /\ await'[c] # "returned" => final'[c] = NoResult
    /\ final'[c].status # "unknown"
    BY DEF WaitInOrder
  <2>1. UNCHANGED <<await, transactionStatus, lastLedgerSequence,
                    latestLedgerSequence, final>>
    BY DEF awaitVars
  <2>2. latestLedgerSequence'[c] <= ledger'
    BY <1>2, <2>1 DEF IInv, TypeOK, WaitInOrder
  <2>3. await[c] # "awaitStatus" =>
          /\ pc[c] = "returned" /\ Submits(c) /\ tx[c] \in Tx
          /\ pc'[c] = "returned" /\ request'[c] = request[c] /\ tx'[c] = tx[c]
    BY <1>2, <1>3 DEF IInv, WaitInOrder
  <2>4. StatusTrue(c) /\ await[c] # "awaitStatus" => StatusTrue(c)'
    BY <1>2, <2>1, <2>3 DEF StatusTrue, Settled, Validated
  <2> QED BY <1>2, <2>1, <2>2, <2>3, <2>4 DEF IInv, WaitInOrder, Submits
<1>5. ValidatedResultIsTrue'
  <2> SUFFICES ASSUME NEW c \in Calls PROVE ResultIsTrue(tx[c], final[c])'
    BY DEF ValidatedResultIsTrue
  <2>1. ResultIsTrue(tx[c], final[c]) /\ final' = final
    BY DEF awaitVars, IInv, ValidatedResultIsTrue
  <2>2. CASE await[c] = "returned"
    <3>1. tx[c] \in Tx /\ Settled(tx[c])
      BY <2>2, <1>3 DEF IInv, WaitInOrder
    <3> QED BY <1>2, <2>1, <3>1 DEF ResultIsTrue
  <2>3. CASE await[c] # "returned"
    BY <2>1, <2>3 DEF IInv, WaitInOrder, NoResult, ResultIsTrue
  <2> QED BY <2>2, <2>3
<1> QED BY <1>1, <1>4, <1>5

(* The loop test, with a true status and an index the ledger has reached:   *)
(* polling goes on, or the transaction is settled and the result is true.   *)
LEMMA PollOrReturnIsSound ==
  ASSUME IInv, NEW c \in Calls, Awaiting(c), NEW latest \in Nat,
         latest <= ledger, lastLedgerSequence[c] = tx[c].lastLedger,
         NEW s \in RawTransactionStatus,
         s.validated => /\ tx[c] \in Validated
                        /\ s.code = "tes" <=> tx[c] \in tesTxs,
         PollOrReturn(c, latest, s)
  PROVE  \/ /\ await' = [await EXCEPT ![c] = "pollLatest"]
            /\ final' = final
         \/ /\ await' = [await EXCEPT ![c] = "returned"]
            /\ Settled(tx[c])
            /\ \E f \in TransactionResult :
                 /\ final' = [final EXCEPT ![c] = f]
                 /\ ResultIsTrue(tx[c], f) /\ f.status # "unknown"
<1>1. ledger \in Nat /\ lastLedgerSequence[c] \in Nat /\ final[c] = NoResult
        /\ final \in [Calls -> TransactionResult]
  BY DEF IInv, TypeOK, DefaultTypeOK, LedgerTypeOK, WaitInOrder, Awaiting, AwaitSteps
<1>2. CASE latest <= lastLedgerSequence[c] /\ ~s.validated
  BY <1>2 DEF PollOrReturn
<1>3. CASE ~(latest <= lastLedgerSequence[c] /\ ~s.validated)
  <2>1. Settled(tx[c])
    BY <1>1, <1>3 DEF Settled, RawTransactionStatus
  <2>2. CASE request[c].method = "enableDepositAuth"
    <3>1. FinalResult(s) \in TransactionResult
      BY DEF FinalResult, TransactionResult, TransactionStatus, RawTransactionStatus
    <3>2. ResultIsTrue(tx[c], FinalResult(s)) /\ FinalResult(s).status # "unknown"
      BY DEF FinalResult, RawTransactionStatus, ResultIsTrue, Validated
    <3> QED BY <1>3, <2>1, <2>2, <3>1, <3>2 DEF PollOrReturn
  <2>3. CASE request[c].method # "enableDepositAuth"
    <3>1. final' = [final EXCEPT ![c] = NoResult]
      BY <1>1, <1>3, <2>3 DEF PollOrReturn
    <3>2. NoResult \in TransactionResult /\ ResultIsTrue(tx[c], NoResult)
            /\ NoResult.status # "unknown"
      BY DEF NoResult, TransactionResult, ResultIsTrue
    <3> QED BY <1>3, <2>1, <3>1, <3>2 DEF PollOrReturn
  <2> QED BY <2>2, <2>3
<1> QED BY <1>2, <1>3

(* Each step of the wait keeps it in order. *)
LEMMA AwaitKeepsInv ==
  ASSUME IInv, NEW c \in Calls, AwaitStep(c)
  PROVE  IInv'
<1>0. UNCHANGED defaultVars /\ Awaiting(c)
  BY DEF AwaitStep, AwaitStatus, AwaitLatest, PollLatest, PollStatus, AwaitError
<1>1. DefaultInv'
  BY <1>0, DefaultNextInv DEF IInv
<1>2. /\ UNCHANGED <<pc, request, tx, ledger, tesTxs, tecTxs>>
      /\ pc[c] = "returned" /\ Submits(c)
      /\ tx[c] \in Tx /\ ledger \in Nat /\ final[c] = NoResult
      /\ await[c] \in AwaitSteps
  BY <1>0 DEF defaultVars, ledgerVars, clientVars, Awaiting, IInv, DefaultInv,
    DefaultTypeOK, LedgerTypeOK, PrepareInOrder, WaitInOrder, AwaitSteps
<1>3. ASSUME NEW reply \in GetTransactionReply(tx[c])
      PROVE  /\ StatusIn(reply) \in RawTransactionStatus
             /\ reply.lastLedgerSequence \in {tx[c].lastLedger, 0}
             /\ StatusIn(reply).validated =>
                  /\ tx[c] \in Validated
                  /\ StatusIn(reply).code = "tes" <=> tx[c] \in tesTxs
  BY <1>2, <1>3, ReplyIsTrue
  DEF StatusIn, RawTransactionStatus, IInv, DefaultInv, DefaultTypeOK
<1> USE <1>2 DEF IInv, TypeOK, AwaitSteps
<1>4. CASE AwaitStatus(c)
  <2>1. PICK reply \in GetTransactionReply(tx[c]) :
          /\ transactionStatus' =
               [transactionStatus EXCEPT ![c] = StatusIn(reply)]
          /\ lastLedgerSequence' =
               [lastLedgerSequence EXCEPT ![c] = reply.lastLedgerSequence]
          /\ await' = [await EXCEPT ![c] =
               IF reply.lastLedgerSequence # 0 /\ Decodes(request[c].wallet)
               THEN "awaitLatest" ELSE "threw"]
    BY <1>4 DEF AwaitStatus
  <2>2. reply.lastLedgerSequence \in Nat
    BY <1>3, <2>1 DEF Tx
  <2>3. UNCHANGED <<latestLedgerSequence, final>>
    BY <1>4 DEF AwaitStatus
  <2>4. TypeOK'
    BY <1>1, <1>3, <2>1, <2>2, <2>3 DEF DefaultInv
  <2>5. WaitInOrder'
    BY <1>3, <2>1, <2>2, <2>3 DEF WaitInOrder, StatusTrue, Settled, Validated, Submits
  <2>6. ValidatedResultIsTrue'
    BY <2>3 DEF ValidatedResultIsTrue, ResultIsTrue
  <2> QED BY <1>1, <2>4, <2>5, <2>6
<1>5. ASSUME NEW latest \in Nat, latest <= ledger, NEW s \in RawTransactionStatus,
             lastLedgerSequence[c] = tx[c].lastLedger,
             s.validated => /\ tx[c] \in Validated
                            /\ s.code = "tes" <=> tx[c] \in tesTxs,
             PollOrReturn(c, latest, s),
             transactionStatus' = [transactionStatus EXCEPT ![c] = s],
             latestLedgerSequence' = [latestLedgerSequence EXCEPT ![c] = latest],
             UNCHANGED lastLedgerSequence
      PROVE  IInv'
  <2>1. CASE await' = [await EXCEPT ![c] = "pollLatest"] /\ final' = final
    <3>1. TypeOK'
      BY <1>1, <1>5, <2>1 DEF DefaultInv
    <3>2. WaitInOrder'
      BY <1>5, <2>1 DEF WaitInOrder, StatusTrue, Settled, Validated, Submits
    <3>3. ValidatedResultIsTrue'
      BY <2>1 DEF ValidatedResultIsTrue, ResultIsTrue
    <3> QED BY <1>1, <3>1, <3>2, <3>3
  <2>2. ASSUME await' = [await EXCEPT ![c] = "returned"], Settled(tx[c]),
               NEW f \in TransactionResult, final' = [final EXCEPT ![c] = f],
               ResultIsTrue(tx[c], f), f.status # "unknown"
        PROVE  IInv'
    <3>1. TypeOK'
      BY <1>1, <1>5, <2>2 DEF DefaultInv
    <3>2. WaitInOrder'
      BY <1>5, <2>2 DEF WaitInOrder, StatusTrue, Settled, Validated, Submits
    <3>3. ValidatedResultIsTrue'
      BY <2>2 DEF ValidatedResultIsTrue, ResultIsTrue
    <3> QED BY <1>1, <3>1, <3>2, <3>3
  <2> QED BY <1>0, <1>5, <2>1, <2>2, PollOrReturnIsSound
<1>6. CASE AwaitLatest(c)
  <2>1. StatusTrue(c) /\ lastLedgerSequence[c] = tx[c].lastLedger
    BY <1>6 DEF AwaitLatest, WaitInOrder
  <2>2. transactionStatus' = [transactionStatus EXCEPT ![c] = transactionStatus[c]]
    BY <1>6 DEF AwaitLatest
  <2>3. /\ transactionStatus[c] \in RawTransactionStatus
        /\ transactionStatus[c].validated =>
             /\ tx[c] \in Validated
             /\ transactionStatus[c].code = "tes" <=> tx[c] \in tesTxs
    BY <2>1 DEF StatusTrue
  <2>4. /\ PollOrReturn(c, ledger, transactionStatus[c])
        /\ latestLedgerSequence' = [latestLedgerSequence EXCEPT ![c] = ledger]
        /\ UNCHANGED lastLedgerSequence
    BY <1>6 DEF AwaitLatest
  <2>5. ledger <= ledger
    OBVIOUS
  <2> QED BY <1>5, <2>1, <2>2, <2>3, <2>4, <2>5
<1>7. CASE PollLatest(c)
  <2>1. StatusTrue(c) /\ lastLedgerSequence[c] = tx[c].lastLedger
    BY <1>7 DEF PollLatest, WaitInOrder
  <2> USE <1>7, <2>1 DEF PollLatest
  <2>2. TypeOK'
    BY <1>1 DEF DefaultInv
  <2>3. WaitInOrder'
    BY DEF WaitInOrder, StatusTrue, Settled, Validated, Submits
  <2>4. ValidatedResultIsTrue'
    BY DEF ValidatedResultIsTrue, ResultIsTrue
  <2> QED BY <1>1, <2>2, <2>3, <2>4
<1>8. CASE PollStatus(c)
  <2>1. PICK reply \in GetTransactionReply(tx[c]) :
          /\ transactionStatus' =
               [transactionStatus EXCEPT ![c] = StatusIn(reply)]
          /\ PollOrReturn(c, latestLedgerSequence[c], StatusIn(reply))
    BY <1>8 DEF PollStatus
  <2>2. /\ lastLedgerSequence[c] = tx[c].lastLedger
        /\ latestLedgerSequence[c] \in Nat /\ latestLedgerSequence[c] <= ledger
    BY <1>8 DEF PollStatus, WaitInOrder
  <2>3. latestLedgerSequence' =
          [latestLedgerSequence EXCEPT ![c] = latestLedgerSequence[c]]
    BY <1>8 DEF PollStatus
  <2> QED BY <1>3, <1>5, <1>8, <2>1, <2>2, <2>3 DEF PollStatus
<1>9. CASE AwaitError(c)
  <2> USE <1>9 DEF AwaitError
  <2>1. TypeOK'
    BY <1>1 DEF DefaultInv
  <2>2. WaitInOrder'
    BY DEF WaitInOrder, StatusTrue, Settled, Validated, Submits
  <2>3. ValidatedResultIsTrue'
    BY DEF ValidatedResultIsTrue, ResultIsTrue
  <2> QED BY <1>1, <2>1, <2>2, <2>3
<1> QED BY <1>4, <1>6, <1>7, <1>8, <1>9 DEF AwaitStep

LEMMA NextInv == IInv /\ [Next]_vars => IInv'
<1> SUFFICES ASSUME IInv, [Next]_vars PROVE IInv'
  OBVIOUS
<1>1. CASE UNCHANGED awaitVars
  BY <1>1, Decorates, OtherStepsKeepWait, DefaultNextInv DEF IInv
<1>2. CASE \E c \in Calls : AwaitStep(c)
  BY <1>2, AwaitKeepsInv
<1> QED BY <1>1, <1>2 DEF Next, Step, vars

(* The invariant that carries every result below. *)
THEOREM InvariantHolds == Spec => []IInv
BY InitInv, NextInv, PTL DEF Spec

(* Every variable of the client keeps its type. *)
THEOREM TypeCorrect == Spec => []TypeOK
<1>1. IInv => TypeOK
  BY DEF IInv
<1> QED BY <1>1, InitInv, NextInv, PTL DEF Spec

(* A call that submits returns only when its transaction is settled, for    *)
(* any number of concurrent calls and any maxLedgerVersionOffset.           *)
THEOREM ReturnSettled == Spec => []ReturnIsSettled
<1>1. IInv => ReturnIsSettled
  BY DEF IInv, WaitInOrder, ReturnIsSettled, Returned
<1> QED BY <1>1, InitInv, NextInv, PTL DEF Spec

(* enableDepositAuth never reports an outcome as validated that the ledger  *)
(* does not record.                                                         *)
THEOREM ValidatedResultCorrect == Spec => []ValidatedResultIsTrue
<1>1. IInv => ValidatedResultIsTrue
  BY DEF IInv
<1> QED BY <1>1, InitInv, NextInv, PTL DEF Spec

(* What a caller can read about its transaction after the call has returned *)
(* never changes again.                                                     *)
THEOREM OutcomeStable == Spec => OutcomeIrreversible
<1>1. ASSUME IInv, [Next]_vars, NEW c \in Calls, Returned(c), Submits(c)
      PROVE  /\ (tx[c] \in tesTxs') = (tx[c] \in tesTxs)
             /\ (tx[c] \in tecTxs') = (tx[c] \in tecTxs)
  <2>1. tx[c] \in Tx /\ Settled(tx[c])
    BY <1>1 DEF Returned, IInv, WaitInOrder, DefaultInv, DefaultTypeOK, PrepareInOrder
  <2>2. tx'[c] = tx[c]
    BY <1>1, <2>1, Decorates, WaitUndisturbed DEF IInv
  <2> QED BY <1>1, <2>1, <2>2, Decorates, WaitUndisturbed DEF IInv
<1>2. IInv /\ [Next]_vars =>
        [\A c \in Calls : Returned(c) /\ Submits(c) =>
           /\ (tx[c] \in tesTxs') = (tx[c] \in tesTxs)
           /\ (tx[c] \in tecTxs') = (tx[c] \in tecTxs)]_vars
  BY <1>1
<1> QED BY <1>2, InitInv, NextInv, PTL DEF Spec, OutcomeIrreversible
(* Within the loop, pending is the result only of a transaction that has    *)
(* expired: no ledger holds it, and none will.                              *)
THEOREM PolledStatusFinal == Spec => PolledStatusIsFinal
<1>1. ASSUME IInv, [Next]_vars, NEW c \in Calls, await[c] = "pollStatus",
             final[c].status = "none", final'[c].status = "pending"
      PROVE  Settled(tx[c]) /\ tx[c] \notin Validated
  <2>1. PollStatus(c)
    <3>1. PICK d \in Calls : AwaitStep(d)
      BY <1>1 DEF Next, Step, vars, awaitVars
    <3>2. d = c
      BY <1>1, <3>1 DEF AwaitStep, AwaitStatus, AwaitLatest, PollLatest,
        PollStatus, AwaitError, PollOrReturn, IInv, TypeOK
    <3> QED
      BY <1>1, <3>1, <3>2 DEF AwaitStep, AwaitStatus, AwaitLatest, PollLatest,
        AwaitError
  <2>2. PICK reply \in GetTransactionReply(tx[c]) :
          PollOrReturn(c, latestLedgerSequence[c], StatusIn(reply))
    BY <2>1 DEF PollStatus
  <2>3. /\ pc[c] = "returned" /\ tx[c] \in Tx
        /\ lastLedgerSequence[c] = tx[c].lastLedger
        /\ latestLedgerSequence[c] \in Nat /\ latestLedgerSequence[c] <= ledger
        /\ ledger \in Nat /\ tx[c].lastLedger \in Nat
    BY <1>1 DEF IInv, WaitInOrder, DefaultInv, DefaultTypeOK, LedgerTypeOK,
      PrepareInOrder, TypeOK, Tx
  <2>4. reply.validated \in BOOLEAN /\ (reply.validated <=> tx[c] \in Validated)
    BY <1>1, <2>2, <2>3, ReplyIsTrue DEF IInv, DefaultInv, DefaultTypeOK
  <2>5. ~(latestLedgerSequence[c] <= lastLedgerSequence[c] /\ ~reply.validated)
    BY <1>1, <2>2 DEF PollOrReturn, StatusIn
  <2>6. final' = [final EXCEPT ![c] = FinalResult(StatusIn(reply))]
    BY <1>1, <2>2, <2>5 DEF PollOrReturn, StatusIn
  <2>7. ~reply.validated
    BY <1>1, <2>6 DEF FinalResult, StatusIn, IInv, TypeOK
  <2> QED BY <2>3, <2>4, <2>5, <2>7 DEF Settled
<1>2. IInv /\ [Next]_vars =>
        [\A c \in Calls :
           await[c] = "pollStatus" /\ final[c].status = "none"
             /\ final'[c].status = "pending"
             => Settled(tx[c]) /\ tx[c] \notin Validated]_vars
  BY <1>1
<1> QED BY <1>2, InitInv, NextInv, PTL DEF Spec, PolledStatusIsFinal
=============================================================================
