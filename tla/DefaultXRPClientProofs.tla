----------------------- MODULE DefaultXRPClientProofs -----------------------
(* Theorems about DefaultXRPClient and the ledger it talks to. *)
EXTENDS DefaultXRPClient, TLAPS

(* A ledger that closes keeps every validated outcome, never lowers an      *)
(* account's sequence number, and uses up the numbers of what it includes.  *)
LEMMA LedgerCloses ==
  ASSUME LedgerTypeOK, SequencesUsedUp, CloseLedger
  PROVE  /\ LedgerTypeOK' /\ SequencesUsedUp'
         /\ ledger' = ledger + 1 /\ received' = received
         /\ tesTxs \subseteq tesTxs' /\ tecTxs \subseteq tecTxs'
         /\ \A w \in Wallets : sequence[w] <= sequence'[w]
         /\ \A t \in Tx : Settled(t) =>
              /\ Settled(t)'
              /\ (t \in tesTxs)' = (t \in tesTxs)
              /\ (t \in tecTxs)' = (t \in tecTxs)
<1>1. PICK block \in SUBSET Candidates : \E claimed \in SUBSET block :
        \E foreign \in SUBSET (exists \ {t.account : t \in block}) :
          \E deleted \in SUBSET foreign :
            /\ tesTxs' = tesTxs \cup (block \ claimed)
            /\ tecTxs' = tecTxs \cup claimed
            /\ sequence' = [w \in Wallets |->
                 IF w \in foreign \cup {t.account : t \in block}
                 THEN sequence[w] + 1 ELSE sequence[w]]
            /\ exists' = exists \ deleted
  BY DEF CloseLedger
<1>2. PICK claimed \in SUBSET block :
        \E foreign \in SUBSET (exists \ {t.account : t \in block}) :
          \E deleted \in SUBSET foreign :
            /\ tesTxs' = tesTxs \cup (block \ claimed)
            /\ tecTxs' = tecTxs \cup claimed
            /\ sequence' = [w \in Wallets |->
                 IF w \in foreign \cup {t.account : t \in block}
                 THEN sequence[w] + 1 ELSE sequence[w]]
            /\ exists' = exists \ deleted
  BY <1>1
<1>3. /\ ledger \in Nat /\ ledger' = ledger + 1 /\ received' = received
      /\ block \subseteq received /\ block \cap Validated = {}
      /\ \A t \in block : t \in Tx /\ t.account \in Wallets
                          /\ t.sequence = sequence[t.account]
                          /\ ledger < t.lastLedger
  BY DEF CloseLedger, Candidates, LedgerTypeOK, Tx
<1>4. /\ tesTxs' = tesTxs \cup (block \ claimed)
      /\ tecTxs' = tecTxs \cup claimed
      /\ exists' \subseteq exists
  BY <1>2
<1>5. /\ sequence' \in [Wallets -> Nat \ {0}]
      /\ \A w \in Wallets : sequence[w] <= sequence'[w]
      /\ \A t \in block : sequence'[t.account] = sequence[t.account] + 1
  BY <1>2, <1>3 DEF LedgerTypeOK
<1>6. LedgerTypeOK'
  BY <1>3, <1>4, <1>5 DEF LedgerTypeOK
<1>7. SequencesUsedUp'
  <2>1. \A t \in Validated' : t.sequence < sequence'[t.account]
    <3> SUFFICES ASSUME NEW t \in Validated'
                 PROVE  t.sequence < sequence'[t.account]
      OBVIOUS
    <3>1. t \in Tx /\ t.account \in Wallets /\ t.sequence \in Nat
      BY <1>3, <1>4 DEF Validated, LedgerTypeOK, Tx
    <3>2. CASE t \in Validated
      BY <3>1, <3>2, <1>5 DEF SequencesUsedUp, LedgerTypeOK
    <3>3. CASE t \in block
      BY <3>1, <3>3, <1>3, <1>5 DEF LedgerTypeOK
    <3> QED BY <3>2, <3>3, <1>4 DEF Validated
  <2>2. tesTxs' \cap tecTxs' = {}
    BY <1>3, <1>4 DEF SequencesUsedUp, Validated
  <2> QED BY <2>1, <2>2 DEF SequencesUsedUp, Validated
<1>8. ASSUME NEW t \in Tx, Settled(t)
      PROVE  /\ Settled(t)'
             /\ (t \in tesTxs)' = (t \in tesTxs)
             /\ (t \in tecTxs)' = (t \in tecTxs)
  <2>1. t \notin block
    BY <1>3, <1>8 DEF Settled, Tx
  <2>2. t.lastLedger \in Nat
    BY DEF Tx
  <2> QED BY <2>1, <2>2, <1>3, <1>4, <1>8 DEF Settled, Validated
<1> QED BY <1>3, <1>4, <1>5, <1>6, <1>7, <1>8

(* A call begins: it takes a request, and nothing else of it changes. *)
LEMMA BeginKeepsInv ==
  ASSUME DefaultInv, NEW c \in Calls, DefaultBegin(c)
  PROVE  DefaultInv'
<1>1. ASSUME NEW r \in Request, NEW addresses, Begin(c, r, addresses)
      PROVE  DefaultInv'
  <2>0. PICK p \in {"accountInfo", "threw"} : pc' = [pc EXCEPT ![c] = p]
    BY <1>1 DEF Begin
  <2> USE <1>1, <2>0, ClientAssumption DEF DefaultInv, Begin, ledgerVars
  <2>1. DefaultTypeOK'
    BY DEF DefaultTypeOK, LedgerTypeOK, RequestSteps
  <2>2. PrepareInOrder'
    BY DEF DefaultTypeOK, PrepareInOrder
  <2>3. SequencesUsedUp' /\ PaymentStatusIsTrue'
    BY DEF SequencesUsedUp, Validated, PaymentStatusIsTrue
  <2> QED BY <2>1, <2>2, <2>3
<1>2. CASE sendWithDetails(c)
  BY <1>1, <1>2 DEF sendWithDetails, Request, Methods
<1>3. CASE enableDepositAuth(c)
  BY <1>1, <1>3 DEF enableDepositAuth, Request, Methods
<1>4. CASE paymentStatus(c)
  <2> USE <1>4, ClientAssumption DEF DefaultInv, paymentStatus, ledgerVars
  <2>1. DefaultTypeOK'
    BY DEF DefaultTypeOK, LedgerTypeOK, RequestSteps, Request, Methods, Tx
  <2>2. PrepareInOrder'
    BY <2>1 DEF DefaultTypeOK, LedgerTypeOK, PrepareInOrder, Request, Methods, Tx
  <2>3. SequencesUsedUp' /\ PaymentStatusIsTrue'
    BY DEF SequencesUsedUp, Validated, PaymentStatusIsTrue, PrepareInOrder,
           NoResult, DefaultTypeOK
  <2> QED BY <2>1, <2>2, <2>3
<1> QED BY <1>2, <1>3, <1>4 DEF DefaultBegin

(* What a getTransaction answer says: validated exactly if the transaction  *)
(* is, and then with the recorded code.                                     *)
LEMMA ReplyIsTrue ==
  ASSUME LedgerTypeOK, SequencesUsedUp, NEW t \in Tx,
         NEW reply \in GetTransactionReply(t)
  PROVE  /\ reply.validated \in BOOLEAN
         /\ reply.validated <=> t \in Validated
         /\ reply.code \in {"tes", "tec"}
         /\ reply.validated => ((reply.code = "tes") <=> (t \in tesTxs))
         /\ reply.lastLedgerSequence \in {t.lastLedger, 0}
<1>1. PICK code \in ResultCodes(t), last \in {t.lastLedger, 0} :
        reply = [validated |-> t \in Validated, code |-> code,
                 lastLedgerSequence |-> last]
  BY DEF GetTransactionReply
<1>2. code \in {"tes", "tec"} /\ (t \in Validated => (code = "tes" <=> t \in tesTxs))
  BY <1>1 DEF ResultCodes, SequencesUsedUp, Validated
<1>3. (t \in Validated) \in BOOLEAN
  BY DEF Validated
<1> QED BY <1>1, <1>2, <1>3

(* Each request of a call keeps the invariant. *)
LEMMA StepKeepsInv ==
  ASSUME DefaultInv, NEW c \in Calls, DefaultStep(c)
  PROVE  DefaultInv'
<1> USE ClientAssumption DEF DefaultInv, ledgerVars
<1>1. CASE getAccountInfo(c)
  <2>0. sequence[request[c].wallet] \in Nat \ {0}
    BY <1>1 DEF getAccountInfo, DefaultTypeOK, LedgerTypeOK
  <2> USE <1>1 DEF getAccountInfo
  <2>1. DefaultTypeOK'
    BY <2>0 DEF DefaultTypeOK, LedgerTypeOK, RequestSteps
  <2>2. sequence[request[c].wallet] \in 1..sequence[request[c].wallet]
    BY <2>0
  <2>3. PrepareInOrder'
    BY <2>2 DEF DefaultTypeOK, PrepareInOrder
  <2>4. SequencesUsedUp' /\ PaymentStatusIsTrue'
    BY DEF SequencesUsedUp, Validated, PaymentStatusIsTrue
  <2> QED BY <2>1, <2>3, <2>4
<1>2. CASE getFee(c)
  <2> USE <1>2 DEF getFee
  <2>1. DefaultTypeOK'
    BY DEF DefaultTypeOK, LedgerTypeOK, RequestSteps
  <2>2. PrepareInOrder'
    BY DEF DefaultTypeOK, PrepareInOrder
  <2>3. SequencesUsedUp' /\ PaymentStatusIsTrue'
    BY DEF SequencesUsedUp, Validated, PaymentStatusIsTrue
  <2> QED BY <2>1, <2>2, <2>3
<1>3. CASE getOpenLedgerSequence(c)
  <2>1. PICK t \in Tx : tx' = [tx EXCEPT ![c] = t]
    <3>1. request[c] \in Request /\ seq[c] \in Nat /\ ledger \in Nat
      BY <1>3 DEF getOpenLedgerSequence, DefaultTypeOK, LedgerTypeOK,
                  PrepareInOrder
    <3>2. PICK lead \in 1..OpenLead :
            tx' = [tx EXCEPT ![c] =
              BaseTransaction(request[c], seq[c], ledger + lead)]
      BY <1>3 DEF getOpenLedgerSequence
    <3>3. ledger + lead + maxLedgerVersionOffset \in Nat
      BY <3>1, <3>2, LedgerAssumption
    <3> QED BY <3>1, <3>2, <3>3 DEF Request, Tx, BaseTransaction
  <2> USE <1>3, <2>1 DEF getOpenLedgerSequence
  <2>2. DefaultTypeOK'
    BY DEF DefaultTypeOK, LedgerTypeOK, RequestSteps
  <2>3. PrepareInOrder'
    BY DEF DefaultTypeOK, PrepareInOrder
  <2>4. SequencesUsedUp' /\ PaymentStatusIsTrue'
    BY DEF SequencesUsedUp, Validated, PaymentStatusIsTrue, PrepareInOrder,
           NoResult, DefaultTypeOK
  <2> QED BY <2>2, <2>3, <2>4
<1>4. CASE SigningError(c)
  <2> USE <1>4 DEF SigningError
  <2>1. DefaultTypeOK'
    BY DEF DefaultTypeOK, LedgerTypeOK, RequestSteps
  <2>2. PrepareInOrder'
    BY DEF DefaultTypeOK, PrepareInOrder
  <2>3. SequencesUsedUp' /\ PaymentStatusIsTrue'
    BY DEF SequencesUsedUp, Validated, PaymentStatusIsTrue
  <2> QED BY <2>1, <2>2, <2>3
<1>5. CASE signAndSubmitTransaction(c)
  <2>1. PICK p \in {"threw", "returned", "status"} : pc' = [pc EXCEPT ![c] = p]
    BY <1>5 DEF signAndSubmitTransaction
  <2>2. received' \in {received, received \cup {tx[c]}}
    BY <1>5 DEF signAndSubmitTransaction
  <2> USE <1>5, <2>1, <2>2 DEF signAndSubmitTransaction
  <2>3. tx[c] \in Tx
    BY DEF DefaultTypeOK, PrepareInOrder
  <2>4. DefaultTypeOK'
    BY <2>3 DEF DefaultTypeOK, LedgerTypeOK, RequestSteps
  <2>5. PrepareInOrder'
    BY DEF DefaultTypeOK, PrepareInOrder
  <2>6. SequencesUsedUp' /\ PaymentStatusIsTrue'
    BY DEF SequencesUsedUp, Validated, PaymentStatusIsTrue
  <2> QED BY <2>4, <2>5, <2>6
<1>6. CASE readPaymentStatus(c)
  <2>1. tx[c] \in Tx
    BY <1>6 DEF readPaymentStatus, DefaultTypeOK, PrepareInOrder
  <2>2. PICK reply \in GetTransactionReply(tx[c]) :
          result' = [result EXCEPT ![c] = [status |-> StatusOf(tx[c], reply),
                                           validated |-> FALSE]]
    BY <1>6 DEF readPaymentStatus
  <2>3. /\ StatusOf(tx[c], reply) \in TransactionStatus
        /\ StatusOf(tx[c], reply) = "succeeded" => tx[c] \in tesTxs
        /\ StatusOf(tx[c], reply) = "failed" => tx[c] \in tecTxs
    BY <2>1, <2>2, ReplyIsTrue
    DEF StatusOf, TransactionStatus, Validated, DefaultTypeOK
  <2>4. PICK p \in {"returned", "rawStatus"} : pc' = [pc EXCEPT ![c] = p]
    BY <1>6 DEF readPaymentStatus
  <2> USE <1>6, <2>1, <2>2, <2>3, <2>4 DEF readPaymentStatus
  <2>5. DefaultTypeOK'
    BY DEF DefaultTypeOK, LedgerTypeOK, RequestSteps, TransactionResult
  <2>6. PrepareInOrder'
    BY DEF DefaultTypeOK, PrepareInOrder
  <2>7. SequencesUsedUp' /\ PaymentStatusIsTrue'
    BY DEF SequencesUsedUp, Validated, PaymentStatusIsTrue, DefaultTypeOK
  <2> QED BY <2>5, <2>6, <2>7
<1>7. CASE readRawStatus(c)
  <2>1. tx[c] \in Tx
    BY <1>7 DEF readRawStatus, DefaultTypeOK, PrepareInOrder
  <2>2. PICK reply \in GetTransactionReply(tx[c]) :
          result' = [result EXCEPT ![c] = [status |-> result[c].status,
                                           validated |-> reply.validated]]
    BY <1>7 DEF readRawStatus
  <2>3. reply.validated \in BOOLEAN /\ (reply.validated => tx[c] \in Validated)
    BY <2>1, <2>2, ReplyIsTrue DEF DefaultTypeOK
  <2> USE <1>7, <2>1, <2>2, <2>3 DEF readRawStatus
  <2>5. DefaultTypeOK'
    BY DEF DefaultTypeOK, LedgerTypeOK, RequestSteps, TransactionResult
  <2>6. PrepareInOrder'
    BY DEF DefaultTypeOK, PrepareInOrder
  <2>7. SequencesUsedUp' /\ PaymentStatusIsTrue'
    BY DEF SequencesUsedUp, Validated, PaymentStatusIsTrue, DefaultTypeOK
  <2> QED BY <2>5, <2>6, <2>7
<1>8. CASE RPCError(c)
  <2> USE <1>8 DEF RPCError, RequestSteps
  <2>1. DefaultTypeOK'
    BY DEF DefaultTypeOK, LedgerTypeOK
  <2>2. PrepareInOrder'
    BY DEF DefaultTypeOK, PrepareInOrder
  <2>3. SequencesUsedUp' /\ PaymentStatusIsTrue'
    BY DEF SequencesUsedUp, Validated, PaymentStatusIsTrue
  <2> QED BY <2>1, <2>2, <2>3
<1> QED BY <1>1, <1>2, <1>3, <1>4, <1>5, <1>6, <1>7, <1>8 DEF DefaultStep

(* Closing a ledger keeps the invariant: a reported outcome stays true. *)
LEMMA CloseKeepsInv ==
  ASSUME DefaultInv, CloseLedger, UNCHANGED clientVars
  PROVE  DefaultInv'
<1>1. LedgerTypeOK' /\ SequencesUsedUp' /\ tesTxs \subseteq tesTxs'
        /\ tecTxs \subseteq tecTxs'
        /\ \A w \in Wallets : sequence[w] <= sequence'[w]
  BY LedgerCloses DEF DefaultInv, DefaultTypeOK
<1> USE <1>1 DEF DefaultInv, clientVars
<1>4. DefaultTypeOK'
  BY DEF DefaultTypeOK
<1>5. \A c \in Calls : pc[c] \in {"fee", "openLedger"} =>
         seq[c] \in 1..sequence'[request[c].wallet]
  <2> SUFFICES ASSUME NEW c \in Calls, pc[c] \in {"fee", "openLedger"}
               PROVE  seq[c] \in 1..sequence'[request[c].wallet]
    OBVIOUS
  <2>1. /\ request[c].wallet \in Wallets
        /\ seq[c] \in 1..sequence[request[c].wallet]
    BY DEF DefaultTypeOK, PrepareInOrder, Request
  <2>2. /\ sequence[request[c].wallet] \in Nat /\ sequence'[request[c].wallet] \in Nat
        /\ sequence[request[c].wallet] <= sequence'[request[c].wallet]
    BY <2>1 DEF DefaultTypeOK, LedgerTypeOK
  <2> QED BY <2>1, <2>2
<1>2. DefaultTypeOK' /\ PrepareInOrder'
  BY <1>4, <1>5 DEF PrepareInOrder
<1>3. PaymentStatusIsTrue'
  BY DEF PaymentStatusIsTrue, Validated
<1> QED BY <1>2, <1>3

LEMMA DefaultInitInv == DefaultInit => DefaultInv
BY ClientAssumption
DEF DefaultInit, LedgerInit, DefaultInv, DefaultTypeOK, LedgerTypeOK, Validated,
    SequencesUsedUp, PrepareInOrder, PaymentStatusIsTrue, NoResult, TransactionResult

LEMMA DefaultNextInv == DefaultInv /\ [DefaultNext]_defaultVars => DefaultInv'
<1> SUFFICES ASSUME DefaultInv, [DefaultNext]_defaultVars PROVE DefaultInv'
  OBVIOUS
<1>1. CASE CloseLedger /\ UNCHANGED clientVars
  BY <1>1, CloseKeepsInv
<1>2. ASSUME NEW c \in Calls, DefaultBegin(c) PROVE DefaultInv'
  BY <1>2, BeginKeepsInv
<1>3. ASSUME NEW c \in Calls, DefaultStep(c) PROVE DefaultInv'
  BY <1>3, StepKeepsInv
<1>4. CASE UNCHANGED defaultVars
  BY <1>4 DEF defaultVars, ledgerVars, clientVars, DefaultInv, DefaultTypeOK,
    LedgerTypeOK, Validated, SequencesUsedUp, PrepareInOrder, PaymentStatusIsTrue
<1> QED BY <1>1, <1>2, <1>3, <1>4 DEF DefaultNext

(* The inductive invariant: types, requests in their order, and a sequence  *)
(* number that the account has had, whichever requests fail.                *)
THEOREM DefaultInvariantHolds == DefaultSpec => []DefaultInv
BY DefaultInitInv, DefaultNextInv, PTL DEF DefaultSpec

(* paymentStatus never reports an outcome that the ledger does not record,  *)
(* with any number of calls, wallets and ledgers.                           *)
THEOREM PaymentStatusCorrect == DefaultSpec => []PaymentStatusIsTrue
<1>1. DefaultInv => PaymentStatusIsTrue
  BY DEF DefaultInv
<1> QED BY <1>1, DefaultInitInv, DefaultNextInv, PTL DEF DefaultSpec

(* A sequence number read from the validated ledger is past those of all    *)
(* validated transactions of the wallet, so that none of them is reused.    *)
THEOREM SequenceNeverReused == DefaultSpec => NoSequenceReuse
<1>1. ASSUME DefaultInv, [DefaultNext]_defaultVars,
             NEW c \in Calls, pc[c] = "accountInfo", pc'[c] = "fee",
             NEW t \in Validated, t.account = request[c].wallet
      PROVE  t.sequence < seq'[c]
  <2>1. getAccountInfo(c)
    <3>1. PICK d \in Calls : DefaultBegin(d) \/ DefaultStep(d)
      BY <1>1 DEF DefaultNext, clientVars, defaultVars
    <3>2. d = c
      BY <1>1, <3>1 DEF DefaultBegin, DefaultStep, sendWithDetails,
        enableDepositAuth, paymentStatus, Begin, getAccountInfo, getFee,
        getOpenLedgerSequence, SigningError, signAndSubmitTransaction,
        readPaymentStatus, readRawStatus, RPCError, DefaultInv, DefaultTypeOK
    <3> QED
      BY <1>1, <3>1, <3>2 DEF DefaultBegin, DefaultStep, sendWithDetails,
        enableDepositAuth, paymentStatus, Begin, getFee, getOpenLedgerSequence,
        SigningError, signAndSubmitTransaction, readPaymentStatus,
        readRawStatus, RPCError, DefaultInv, DefaultTypeOK
  <2> QED
    BY <1>1, <2>1 DEF getAccountInfo, DefaultInv, SequencesUsedUp, DefaultTypeOK
<1>2. DefaultInv /\ [DefaultNext]_defaultVars =>
        [\A c \in Calls : pc[c] = "accountInfo" /\ pc'[c] = "fee" =>
           \A t \in Validated :
             t.account = request[c].wallet => t.sequence < seq'[c]]_defaultVars
  BY <1>1
<1> QED BY <1>2, DefaultInitInv, DefaultNextInv, PTL
        DEF DefaultSpec, NoSequenceReuse
=============================================================================
