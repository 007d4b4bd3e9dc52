--------------------- MODULE ReliableSubmissionXRPClient ---------------------
(***************************************************************************)
(* XpringKit/XRP/ReliableSubmissionXRPClient.swift: decorates the default  *)
(* client; after it has submitted, a call polls until the transaction is   *)
(* validated or can no longer be. XRPClient.swift is this client.          *)
(***************************************************************************)
EXTENDS DefaultXRPClient

VARIABLES
  await,                \* where a call is in awaitFinalTransactionResult
  transactionStatus,    \* the last RawTransactionStatus it read
  lastLedgerSequence,   \* taken from the first one, and kept
  latestLedgerSequence, \* the last validated ledger index it read
  final                 \* the TransactionResult enableDepositAuth returns

awaitVars == <<await, transactionStatus, lastLedgerSequence,
               latestLedgerSequence, final>>
vars == <<defaultVars, awaitVars>>

RawTransactionStatus == [validated : BOOLEAN, code : {"tes", "tec"}]
AwaitSteps == {"awaitStatus", "awaitLatest", "pollLatest", "pollStatus"}

TypeOK ==
  /\ DefaultTypeOK
  /\ await \in [Calls -> AwaitSteps \cup {"returned", "threw"}]
  /\ transactionStatus \in [Calls -> RawTransactionStatus]
  /\ lastLedgerSequence \in [Calls -> Nat]
  /\ latestLedgerSequence \in [Calls -> Nat]
  /\ final \in [Calls -> TransactionResult]

Init ==
  /\ DefaultInit
  /\ await = [c \in Calls |-> "awaitStatus"]
  /\ transactionStatus = [c \in Calls |-> [validated |-> FALSE, code |-> "tes"]]
  /\ lastLedgerSequence = [c \in Calls |-> 0]
  /\ latestLedgerSequence = [c \in Calls |-> 0]
  /\ final = [c \in Calls |-> NoResult]

Submits(c) == request[c] # NoRequest /\ request[c].method # "paymentStatus"

(* The decorated client has returned a hash, and the call waits on it. *)
Awaiting(c) ==
  pc[c] = "returned" /\ Submits(c) /\ await[c] \in AwaitSteps

Returned(c) ==
  pc[c] = "returned" /\ (Submits(c) => await[c] = "returned")
Threw(c) == pc[c] = "threw" \/ await[c] = "threw"

(* Faulty variant of FinalResult: without the guard on validated. *)
BuggyProvisionalResult(s) ==
  [status |-> IF s.code = "tes" THEN "succeeded" ELSE "failed",
   validated |-> s.validated]

(* What enableDepositAuth makes of the status the wait ends with. *)
FinalResult(s) ==
  [status |-> IF ~s.validated THEN "pending"
              ELSE IF s.code = "tes" THEN "succeeded" ELSE "failed",
   validated |-> s.validated]

(* Faulty variants of PollOrReturn: stops one ledger before the transaction *)
(* can no longer be included; waits for validation only.                    *)
BuggyStopEarly(c, latest, s) ==
  IF latest + 1 < lastLedgerSequence[c] /\ ~s.validated
  THEN /\ await' = [await EXCEPT ![c] = "pollLatest"]
       /\ UNCHANGED final
  ELSE /\ await' = [await EXCEPT ![c] = "returned"]
       /\ final' = IF request[c].method = "enableDepositAuth"
                   THEN [final EXCEPT ![c] = FinalResult(s)] ELSE final

BuggyNeverExpires(c, latest, s) ==
  IF ~s.validated
  THEN /\ await' = [await EXCEPT ![c] = "pollLatest"]
       /\ UNCHANGED final
  ELSE /\ await' = [await EXCEPT ![c] = "returned"]
       /\ final' = IF request[c].method = "enableDepositAuth"
                   THEN [final EXCEPT ![c] = FinalResult(s)] ELSE final

(* The loop test of the wait: poll on, or return. send ignores the status. *)
PollOrReturn(c, latest, s) ==
  IF latest <= lastLedgerSequence[c] /\ ~s.validated
  THEN /\ await' = [await EXCEPT ![c] = "pollLatest"]
       /\ UNCHANGED final
  ELSE /\ await' = [await EXCEPT ![c] = "returned"]
       /\ final' = IF request[c].method = "enableDepositAuth"
                   THEN [final EXCEPT ![c] = FinalResult(s)] ELSE final

StatusIn(reply) == [validated |-> reply.validated, code |-> reply.code]

(* Faulty variant of AwaitStatus: a missing lastLedgerSequence is taken for *)
(* ledger 0.                                                                *)
BuggyNoLastLedgerCheck(c) ==
  /\ Awaiting(c) /\ await[c] = "awaitStatus"
  /\ \E reply \in GetTransactionReply(tx[c]) :
       /\ transactionStatus' =
            [transactionStatus EXCEPT ![c] = StatusIn(reply)]
       /\ lastLedgerSequence' =
            [lastLedgerSequence EXCEPT ![c] = reply.lastLedgerSequence]
       /\ await' = [await EXCEPT ![c] =
            IF Decodes(request[c].wallet) THEN "awaitLatest" ELSE "threw"]
  /\ UNCHANGED <<defaultVars, latestLedgerSequence, final>>

(* The first status read. An answer without a lastLedgerSequence throws. *)
AwaitStatus(c) ==
  /\ Awaiting(c) /\ await[c] = "awaitStatus"
  /\ \E reply \in GetTransactionReply(tx[c]) :
       /\ transactionStatus' =
            [transactionStatus EXCEPT ![c] = StatusIn(reply)]
       /\ lastLedgerSequence' =
            [lastLedgerSequence EXCEPT ![c] = reply.lastLedgerSequence]
       /\ await' = [await EXCEPT ![c] =
            IF reply.lastLedgerSequence # 0 /\ Decodes(request[c].wallet)
            THEN "awaitLatest" ELSE "threw"]
  /\ UNCHANGED <<defaultVars, latestLedgerSequence, final>>

(* getLatestValidatedLedgerSequence before the loop: only an account that  *)
(* exists has an answer. The status tested with it is the older one.       *)
AwaitLatest(c) ==
  /\ Awaiting(c) /\ await[c] = "awaitLatest"
  /\ request[c].wallet \in exists
  /\ latestLedgerSequence' = [latestLedgerSequence EXCEPT ![c] = ledger]
  /\ PollOrReturn(c, ledger, transactionStatus[c])
  /\ UNCHANGED <<defaultVars, transactionStatus, lastLedgerSequence>>

(* Faulty variant of PollLatest: reads the open ledger's index. *)
BuggyOpenLedger(c) ==
  /\ Awaiting(c) /\ await[c] = "pollLatest"
  /\ request[c].wallet \in exists
  /\ latestLedgerSequence' = [latestLedgerSequence EXCEPT ![c] = ledger + 1]
  /\ await' = [await EXCEPT ![c] = "pollStatus"]
  /\ UNCHANGED <<defaultVars, transactionStatus, lastLedgerSequence, final>>

PollLatest(c) ==
  /\ Awaiting(c) /\ await[c] = "pollLatest"
  /\ request[c].wallet \in exists
  /\ latestLedgerSequence' = [latestLedgerSequence EXCEPT ![c] = ledger]
  /\ await' = [await EXCEPT ![c] = "pollStatus"]
  /\ UNCHANGED <<defaultVars, transactionStatus, lastLedgerSequence, final>>

PollStatus(c) ==
  /\ Awaiting(c) /\ await[c] = "pollStatus"
  /\ \E reply \in GetTransactionReply(tx[c]) :
       /\ transactionStatus' =
            [transactionStatus EXCEPT ![c] = StatusIn(reply)]
       /\ PollOrReturn(c, latestLedgerSequence[c], StatusIn(reply))
  /\ UNCHANGED <<defaultVars, lastLedgerSequence, latestLedgerSequence>>

(* Any request of the wait fails, and the error ends the wait. *)
AwaitError(c) ==
  /\ Awaiting(c)
  /\ await' = [await EXCEPT ![c] = "threw"]
  /\ UNCHANGED <<defaultVars, transactionStatus, lastLedgerSequence,
                 latestLedgerSequence, final>>

(* Faulty variant of AwaitStep: the two reads in the loop swapped. *)
BuggyAwaitStep(c) ==
  \/ AwaitStatus(c) \/ AwaitLatest(c) \/ AwaitError(c)
  \/ /\ Awaiting(c) /\ await[c] = "pollLatest"
     /\ \E reply \in GetTransactionReply(tx[c]) :
          transactionStatus' = [transactionStatus EXCEPT ![c] = StatusIn(reply)]
     /\ await' = [await EXCEPT ![c] = "pollStatus"]
     /\ UNCHANGED <<defaultVars, lastLedgerSequence, latestLedgerSequence, final>>
  \/ /\ Awaiting(c) /\ await[c] = "pollStatus"
     /\ request[c].wallet \in exists
     /\ latestLedgerSequence' = [latestLedgerSequence EXCEPT ![c] = ledger]
     /\ PollOrReturn(c, ledger, transactionStatus[c])
     /\ UNCHANGED <<defaultVars, transactionStatus, lastLedgerSequence>>

(* The wait, in the order of its requests; each may fail. *)
AwaitStep(c) ==
  AwaitStatus(c) \/ AwaitLatest(c) \/ PollLatest(c) \/ PollStatus(c)
    \/ AwaitError(c)

Step(c) == (DefaultStep(c) /\ UNCHANGED awaitVars) \/ AwaitStep(c)

Next ==
  \/ CloseLedger /\ UNCHANGED <<clientVars, awaitVars>>
  \/ \E c \in Calls : (DefaultBegin(c) /\ UNCHANGED awaitVars) \/ Step(c)

Spec == Init /\ [][Next]_vars

(* Ledgers keep closing, and the thread of a call that has begun keeps     *)
(* running: each of its requests is answered or fails.                     *)
FairSpec ==
  /\ Spec
  /\ WF_vars(CloseLedger /\ UNCHANGED <<clientVars, awaitVars>>)
  /\ \A c \in Calls : WF_vars(Step(c))
-----------------------------------------------------------------------------
(* A send or enableDepositAuth that returns normally leaves its transaction *)
(* settled: the wait of awaitFinalTransactionResult ended neither too early *)
(* nor on a stale reading.                                                  *)
ReturnIsSettled == \A c \in Calls : Returned(c) /\ Submits(c) => Settled(tx[c])

(* Once a submitting call has returned, whether its transaction is in a     *)
(* validated ledger never changes: the caller may act on what it reads.     *)
OutcomeIrreversible ==
  [][\A c \in Calls : Returned(c) /\ Submits(c) =>
       /\ (tx[c] \in tesTxs') = (tx[c] \in tesTxs)
       /\ (tx[c] \in tecTxs') = (tx[c] \in tecTxs)]_vars

(* A TransactionResult of enableDepositAuth is validated exactly when it    *)
(* names an outcome, and the ledger records that outcome: a provisional     *)
(* code, or one of another moment, is never reported.                       *)
ResultIsTrue(t, r) ==
  /\ r.validated <=> r.status \in {"succeeded", "failed"}
  /\ r.status = "succeeded" => t \in tesTxs
  /\ r.status = "failed" => t \in tecTxs

ValidatedResultIsTrue == \A c \in Calls : ResultIsTrue(tx[c], final[c])

(* A wait that the loop's second and later readings end without an outcome  *)
(* ends for a transaction that no ledger holds or can include: there the    *)
(* status is read after the index it is tested with, so that no validation  *)
(* between the two reads is lost (as one is before the loop).               *)
PolledStatusIsFinal ==
  [][\A c \in Calls :
       await[c] = "pollStatus" /\ final[c].status = "none" /\ final'[c].status = "pending"
         => Settled(tx[c]) /\ tx[c] \notin Validated]_vars

(* Every call that has begun returns or throws, also when its transaction   *)
(* never makes it into a ledger.                                            *)
EveryCallEnds ==
  \A c \in Calls : pc[c] # "idle" ~> (Returned(c) \/ Threw(c))

(* A status in hand is the ledger's, if it says validated.                  *)
StatusTrue(c) ==
  transactionStatus[c].validated =>
    /\ tx[c] \in Validated
    /\ transactionStatus[c].code = "tes" <=> tx[c] \in tesTxs

(* The wait compares against its own transaction's lastLedgerSequence, with *)
(* an index some ledger has had, and ends only when all is settled.         *)
WaitInOrder ==
  \A c \in Calls :
    /\ await[c] # "awaitStatus" => pc[c] = "returned" /\ Submits(c)
    /\ await[c] \in {"awaitLatest", "pollLatest", "pollStatus"} =>
         StatusTrue(c) /\ lastLedgerSequence[c] = tx[c].lastLedger
    /\ latestLedgerSequence[c] <= ledger
    /\ await[c] = "returned" => Settled(tx[c])
    /\ await[c] # "returned" => final[c] = NoResult
    /\ final[c].status # "unknown"

(* The inductive invariant behind the properties above. *)
IInv == TypeOK /\ DefaultInv /\ WaitInOrder /\ ValidatedResultIsTrue

(* README.md:248: the payment operation blocks until it reaches a           *)
(* definitive and irreversible success or failure. Here only of operations  *)
(* whose submission was answered, so that they came to wait.                *)
EndIsDefinitive ==
  \A c \in Calls :
    /\ Submits(c) /\ await[c] \in {"returned", "threw"}
    /\ tx[c] \in received
    => Settled(tx[c])

(* enableDepositAuth's documentation: the result has the final status of    *)
(* the transaction.                                                         *)
DepositAuthStatusIsFinal ==
  [][\A c \in Calls : final[c].status = "none" /\ final'[c].status = "pending"
       => tx[c] \notin Validated]_vars

-----------------------------------------------------------------------------
(* The call as its caller sees it, and what has become of its transaction. *)
CallPhase ==
  [c \in Calls |->
     IF pc[c] = "idle" THEN "idle"
     ELSE IF Threw(c) THEN "threw"
     ELSE IF Returned(c) THEN "returned"
     ELSE IF Submits(c) THEN "submitting" ELSE "querying"]

CallOutcome ==
  [c \in Calls |->
     IF ~Submits(c) \/ tx[c] = NoTx THEN "open"
     ELSE IF tx[c] \in tesTxs THEN "succeeded"
     ELSE IF tx[c] \in tecTxs THEN "failed"
     ELSE IF tx[c].lastLedger <= ledger THEN "expired" ELSE "open"]

Contract == INSTANCE SubmissionContract WITH
  phase <- CallPhase, outcome <- CallOutcome,
  reported <- [c \in Calls |-> final[c].status]

(* The client keeps the promise of SubmissionContract: whatever calls,      *)
(* ledgers, lost answers and failed requests do, a normal return comes only *)
(* with a decided outcome, and no outcome is decided twice.                 *)
ImplementsContract == Contract!Spec
=============================================================================
