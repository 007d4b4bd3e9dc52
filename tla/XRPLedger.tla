----------------------------- MODULE XRPLedger -----------------------------
(***************************************************************************)
(* The rippled server and the XRP Ledger behind it, as the calls in        *)
(* XpringKit/XRP/DefaultXRPClient.swift use them: one linearizable server  *)
(* that answers getAccountInfo, getFee, submitTransaction, getTransaction. *)
(* Nothing here is XpringKit code; the SDK sees it only through gRPC.      *)
(***************************************************************************)
EXTENDS Naturals

CONSTANTS
  Wallets,       \* accounts the SDK signs for
  Destinations,  \* strings a caller passes as a payment's destination
  OpenLead,      \* how far the open ledger may be ahead of the validated one
  MaxLedger,     \* bound: the last ledger the model closes
  AccountSet     \* the payload of an AccountSet transaction

ASSUME LedgerAssumption ==
  /\ OpenLead \in Nat \ {0}
  /\ MaxLedger \in Nat
  /\ AccountSet \notin Destinations

VARIABLES
  ledger,    \* index of the latest validated ledger
  sequence,  \* next sequence number of each account in that ledger
  exists,    \* accounts that exist in that ledger
  received,  \* signed transactions the network has taken in
  tesTxs,    \* transactions in a validated ledger with a tes code
  tecTxs     \* transactions in a validated ledger with another code

ledgerVars == <<ledger, sequence, exists, received, tesTxs, tecTxs>>

(* A signed transaction. Signing is deterministic, so two transactions with *)
(* the same fields have the same hash, and the record serves as the hash.   *)
Tx == [account : Wallets, sequence : Nat, lastLedger : Nat,
       payload : Destinations \cup {AccountSet}]

Validated == tesTxs \cup tecTxs

LedgerTypeOK ==
  /\ ledger \in Nat
  /\ sequence \in [Wallets -> Nat \ {0}]
  /\ exists \subseteq Wallets
  /\ received \subseteq Tx
  /\ tesTxs \subseteq received
  /\ tecTxs \subseteq received

LedgerInit ==
  /\ ledger = 1
  /\ sequence = [w \in Wallets |-> 1]
  /\ exists \in SUBSET Wallets
  /\ received = {} /\ tesTxs = {} /\ tecTxs = {}

(* What the next ledger may include: an account's next transaction, not    *)
(* past its lastLedgerSequence.                                            *)
Candidates ==
  {t \in received \ Validated :
     /\ t.account \in exists
     /\ t.sequence = sequence[t.account]
     /\ ledger < t.lastLedger}

(* The next ledger closes and is validated. It includes any of the         *)
(* candidates, one per account; accounts may also use a sequence number in *)
(* a transaction made elsewhere, and be deleted by it.                     *)
CloseLedger ==
  /\ ledger < MaxLedger
  /\ ledger' = ledger + 1
  /\ \E block \in SUBSET Candidates : \E claimed \in SUBSET block :
       \E foreign \in SUBSET (exists \ {t.account : t \in block}) :
         \E deleted \in SUBSET foreign :
           /\ \A t, u \in block : t.account = u.account => t = u
           /\ tesTxs' = tesTxs \cup (block \ claimed)
           /\ tecTxs' = tecTxs \cup claimed
           /\ sequence' = [w \in Wallets |->
                IF w \in foreign \cup {t.account : t \in block}
                THEN sequence[w] + 1 ELSE sequence[w]]
           /\ exists' = exists \ deleted
  /\ UNCHANGED received

(* A transaction whose outcome no later ledger can change. *)
Settled(t) == t \in Validated \/ t.lastLedger <= ledger

(* An account's validated transactions have used its earlier numbers up.    *)
SequencesUsedUp ==
  /\ \A t \in Validated : t.sequence < sequence[t.account]
  /\ tesTxs \cap tecTxs = {}

(* The answers the server may give to getTransaction: what a validated     *)
(* ledger says; a provisional code before that; nothing (NOT_FOUND) for a  *)
(* transaction it does not have. lastLedgerSequence is 0 when the answer   *)
(* lacks the field.                                                        *)
ResultCodes(t) ==
  IF t \in tesTxs THEN {"tes"}
  ELSE IF t \in tecTxs THEN {"tec"}
  ELSE IF t \in received THEN {"tes", "tec"} ELSE {}

GetTransactionReply(t) ==
  {[validated |-> t \in Validated, code |-> code, lastLedgerSequence |-> last] :
     code \in ResultCodes(t), last \in {t.lastLedger, 0}}
=============================================================================
