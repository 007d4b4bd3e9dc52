-------------------------- MODULE DefaultXRPClient --------------------------
(***************************************************************************)
(* XpringKit/XRP/DefaultXRPClient.swift: the client that submits and does  *)
(* not wait. Every call runs on its caller's thread; each gRPC request is  *)
(* one step, so that calls and ledgers interleave between requests.        *)
(***************************************************************************)
EXTENDS XRPLedger

CONSTANTS
  Calls,                 \* one element for each call of a public method
  XAddresses,            \* addresses that Utils.decode(xAddress:) accepts
  maxLedgerVersionOffset,
  NoTx, NoRequest

VARIABLES
  pc,       \* the request a call makes next, or how it ended
  request,  \* its method and arguments
  seq,      \* accountInfo.accountData.sequence
  tx,       \* the transaction it signs, or the hash it asks about
  result    \* its TransactionResult or TransactionStatus

clientVars == <<pc, request, seq, tx, result>>
defaultVars == <<ledgerVars, clientVars>>

Methods == {"send", "enableDepositAuth", "paymentStatus"}
TransactionStatus == {"succeeded", "failed", "pending", "unknown"}
TransactionResult == [status : TransactionStatus \cup {"none"},
                      validated : BOOLEAN]
NoResult == [status |-> "none", validated |-> FALSE]
Request == [method : Methods, wallet : Wallets,
            payload : Destinations \cup {AccountSet}]

ASSUME ClientAssumption ==
  /\ maxLedgerVersionOffset \in Nat
  /\ NoTx \notin Tx
  /\ NoRequest \notin Request

RequestSteps == {"accountInfo", "fee", "openLedger", "submit",
                 "status", "rawStatus"}

DefaultTypeOK ==
  /\ LedgerTypeOK
  /\ pc \in [Calls -> RequestSteps \cup {"idle", "returned", "threw"}]
  /\ request \in [Calls -> Request \cup {NoRequest}]
  /\ seq \in [Calls -> Nat]
  /\ tx \in [Calls -> Tx \cup {NoTx}]
  /\ result \in [Calls -> TransactionResult]

DefaultInit ==
  /\ LedgerInit
  /\ pc = [c \in Calls |-> "idle"]
  /\ request = [c \in Calls |-> NoRequest]
  /\ seq = [c \in Calls |-> 0]
  /\ tx = [c \in Calls |-> NoTx]
  /\ result = [c \in Calls |-> NoResult]

Decodes(address) == address \in XAddresses

(* Both submitting methods reach the first request of                      *)
(* prepareBaseTransaction; an address that does not decode throws before   *)
(* any request is made.                                                    *)
Begin(c, r, addresses) ==
  /\ pc[c] = "idle"
  /\ request' = [request EXCEPT ![c] = r]
  /\ pc' = [pc EXCEPT ![c] = IF \A a \in addresses : Decodes(a)
                             THEN "accountInfo" ELSE "threw"]
  /\ UNCHANGED <<ledgerVars, seq, tx, result>>

sendWithDetails(c) ==
  \E w \in Wallets, d \in Destinations :
    Begin(c, [method |-> "send", wallet |-> w, payload |-> d], {d, w})

enableDepositAuth(c) ==
  \E w \in Wallets :
    Begin(c, [method |-> "enableDepositAuth", wallet |-> w,
              payload |-> AccountSet], {w})

(* paymentStatus(for:) of a hash some call has submitted. *)
paymentStatus(c) ==
  /\ pc[c] = "idle"
  /\ \E t \in received :
       /\ tx' = [tx EXCEPT ![c] = t]
       /\ request' = [request EXCEPT ![c] =
            [method |-> "paymentStatus", wallet |-> t.account,
             payload |-> t.payload]]
  /\ pc' = [pc EXCEPT ![c] = "status"]
  /\ UNCHANGED <<ledgerVars, seq, result>>

(* Faulty variant of getAccountInfo: keeps what an earlier call has read of  *)
(* the account.                                                             *)
BuggyCachedAccountInfo(c) ==
  /\ pc[c] = "accountInfo"
  /\ request[c].wallet \in exists
  /\ LET read == {seq[d] : d \in {d \in Calls : pc[d] # "idle" /\ seq[d] # 0
                                  /\ request[d].wallet = request[c].wallet}}
     IN seq' = [seq EXCEPT ![c] = IF read = {} THEN sequence[request[c].wallet]
                                  ELSE CHOOSE n \in read : TRUE]
  /\ pc' = [pc EXCEPT ![c] = "fee"]
  /\ UNCHANGED <<ledgerVars, request, tx, result>>

(* Faulty variant of getAccountInfo: an answer that does not come is taken  *)
(* for an empty AccountRoot, whose sequence is protobuf's 0.                *)
BuggyEmptyAnswer(c) ==
  /\ pc[c] = "accountInfo"
  /\ seq' = [seq EXCEPT ![c] = IF request[c].wallet \in exists
                               THEN sequence[request[c].wallet] ELSE 0]
  /\ pc' = [pc EXCEPT ![c] = "fee"]
  /\ UNCHANGED <<ledgerVars, request, tx, result>>

getAccountInfo(c) ==
  /\ pc[c] = "accountInfo"
  /\ request[c].wallet \in exists
  /\ seq' = [seq EXCEPT ![c] = sequence[request[c].wallet]]
  /\ pc' = [pc EXCEPT ![c] = "fee"]
  /\ UNCHANGED <<ledgerVars, request, tx, result>>

getFee(c) ==
  /\ pc[c] = "fee"
  /\ pc' = [pc EXCEPT ![c] = "openLedger"]
  /\ UNCHANGED <<ledgerVars, request, seq, tx, result>>

(* The last ledger for which the model answers getOpenLedgerSequence, so   *)
(* that every lastLedgerSequence lies below MaxLedger.                     *)
PrepareHorizon == ledger + OpenLead + maxLedgerVersionOffset < MaxLedger

(* The transaction prepareBaseTransaction builds, with what it is to do.   *)
BaseTransaction(r, n, openLedger) ==
  [account |-> r.wallet, sequence |-> n,
   lastLedger |-> openLedger + maxLedgerVersionOffset, payload |-> r.payload]

(* The rest of prepareBaseTransaction: the second getFee request gives the *)
(* open ledger's index, and the transaction is complete.                   *)
getOpenLedgerSequence(c) ==
  /\ pc[c] = "openLedger"
  /\ PrepareHorizon
  /\ \E lead \in 1..OpenLead :
       tx' = [tx EXCEPT ![c] =
         BaseTransaction(request[c], seq[c], ledger + lead)]
  /\ pc' = [pc EXCEPT ![c] = "submit"]
  /\ UNCHANGED <<ledgerVars, request, seq, result>>

(* Signer.sign gives nil: signingError, and nothing is submitted. *)
SigningError(c) ==
  /\ pc[c] = "submit"
  /\ pc' = [pc EXCEPT ![c] = "threw"]
  /\ UNCHANGED <<ledgerVars, request, seq, tx, result>>

(* The server takes the transaction in or refuses it (the engine result is *)
(* not looked at), and its answer reaches the client or does not.          *)
signAndSubmitTransaction(c) ==
  /\ pc[c] = "submit"
  /\ \E accepted, answered \in BOOLEAN :
       /\ received' = IF accepted THEN received \cup {tx[c]} ELSE received
       /\ pc' = [pc EXCEPT ![c] =
            IF ~answered THEN "threw"
            ELSE IF request[c].method = "send" THEN "returned" ELSE "status"]
  /\ UNCHANGED <<ledger, sequence, exists, tesTxs, tecTxs,
                 request, seq, tx, result>>

(* Faulty variant of StatusOf: without the guard on validated. *)
BuggyProvisionalStatus(t, reply) ==
  IF t.payload = AccountSet THEN "unknown"
  ELSE IF reply.code = "tes" THEN "succeeded" ELSE "failed"

(* How paymentStatus(for:) reads a getTransaction answer. *)
StatusOf(t, reply) ==
  IF t.payload = AccountSet THEN "unknown"
  ELSE IF ~reply.validated THEN "pending"
  ELSE IF reply.code = "tes" THEN "succeeded" ELSE "failed"

(* The request of paymentStatus(for:), called on its own or as the first   *)
(* of enableDepositAuth's two reads.                                       *)
readPaymentStatus(c) ==
  /\ pc[c] = "status"
  /\ \E reply \in GetTransactionReply(tx[c]) :
       result' = [result EXCEPT ![c] = [status |-> StatusOf(tx[c], reply),
                                        validated |-> FALSE]]
  /\ pc' = [pc EXCEPT ![c] = IF request[c].method = "paymentStatus"
                             THEN "returned" ELSE "rawStatus"]
  /\ UNCHANGED <<ledgerVars, request, seq, tx>>

(* enableDepositAuth's second read, for the validated field only. *)
readRawStatus(c) ==
  /\ pc[c] = "rawStatus"
  /\ \E reply \in GetTransactionReply(tx[c]) :
       result' = [result EXCEPT ![c] = [status |-> result[c].status,
                                        validated |-> reply.validated]]
  /\ pc' = [pc EXCEPT ![c] = "returned"]
  /\ UNCHANGED <<ledgerVars, request, seq, tx>>

(* A request other than submitTransaction fails, NOT_FOUND included. *)
RPCError(c) ==
  /\ pc[c] \in RequestSteps \ {"submit"}
  /\ pc' = [pc EXCEPT ![c] = "threw"]
  /\ UNCHANGED <<ledgerVars, request, seq, tx, result>>

DefaultBegin(c) ==
  sendWithDetails(c) \/ enableDepositAuth(c) \/ paymentStatus(c)

DefaultStep(c) ==
  \/ getAccountInfo(c) \/ getFee(c) \/ getOpenLedgerSequence(c)
  \/ SigningError(c) \/ signAndSubmitTransaction(c)
  \/ readPaymentStatus(c) \/ readRawStatus(c) \/ RPCError(c)

DefaultNext ==
  \/ CloseLedger /\ UNCHANGED clientVars
  \/ \E c \in Calls : DefaultBegin(c) \/ DefaultStep(c)

DefaultSpec == DefaultInit /\ [][DefaultNext]_defaultVars
-----------------------------------------------------------------------------
(* paymentStatus reports succeeded or failed only with the ledger's own     *)
(* validated outcome, however provisional codes came and went before.  The  *)
(* validated flag of enableDepositAuth, which comes from a later request    *)
(* than the status beside it, is the ledger's too.                          *)
PaymentStatusIsTrue ==
  \A c \in Calls :
    /\ result[c].status = "succeeded" => tx[c] \in tesTxs
    /\ result[c].status = "failed" => tx[c] \in tecTxs
    /\ result[c].validated => tx[c] \in Validated

(* A call that reads its sequence number after a transaction of the same    *)
(* wallet was validated never builds a transaction that reuses its number.  *)
NoSequenceReuse ==
  [][\A c \in Calls : pc[c] = "accountInfo" /\ pc'[c] = "fee" =>
       \A t \in Validated :
         t.account = request[c].wallet => t.sequence < seq'[c]]_defaultVars

(* A call holds the request, transaction and result that its step needs,    *)
(* and the sequence number it builds on is one its account has had.         *)
PrepareInOrder ==
  \A c \in Calls :
    /\ request[c] = NoRequest <=> pc[c] = "idle"
    /\ pc[c] \in {"idle", "accountInfo", "fee", "openLedger"} => tx[c] = NoTx
    /\ pc[c] \in {"submit", "status", "rawStatus", "returned"} => tx[c] # NoTx
    /\ tx[c] = NoTx \/ pc[c] = "submit" => result[c] = NoResult
    /\ pc[c] \in {"fee", "openLedger"} =>
         seq[c] \in 1..sequence[request[c].wallet]

(* The inductive invariant of the default client: whatever requests fail    *)
(* and whichever calls and ledgers interleave, a call goes on only with     *)
(* what the step before it has obtained.                                    *)
DefaultInv ==
  DefaultTypeOK /\ SequencesUsedUp /\ PrepareInOrder /\ PaymentStatusIsTrue
=============================================================================
