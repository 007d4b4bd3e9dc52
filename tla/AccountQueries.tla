---------------------------- MODULE AccountQueries ----------------------------
(***************************************************************************)
(* The queries of XpringKit/XRP/DefaultXRPClient.swift: getBalance,        *)
(* accountExists, paymentHistory and getPayment, with the conversions of   *)
(* XRP/Model that turn the server's answers into XRPTransactions. A query  *)
(* makes one request; accounts and ledgers move on between and during a    *)
(* caller's queries.                                                       *)
(***************************************************************************)
EXTENDS Integers, SequencesExt

CONSTANTS
  Calls,         \* one element for each call of a public method
  Accounts,      \* classic addresses
  Addresses,     \* texts given as X-addresses, as what they decode to
  Texts,         \* texts given as transaction hashes
  Transactions,  \* what may appear on the ledger
  PageSize,      \* the most a server puts into one history answer
  isTest,        \* network.isTest
  None           \* nil, and what a text that is no X-address decodes to:
                 \* nothing of the above, and no number

VARIABLES
  exists,    \* the accounts of the latest validated ledger
  open,      \* transactions received and not validated
  ledger,    \* those in validated ledgers, oldest first
  pc,        \* whether a call waits for its answer, or how it ended
  request,   \* its method and argument
  result     \* what it returned

nodeVars == <<exists, open, ledger>>
queryVars == <<exists, open, ledger, pc, request, result>>

(* The cases of CurrencyAmount.amount. An issued amount is a decimal text,  *)
(* which may or may not be an integer.                                      *)
CurrencyAmount == {"drops", "issuedInteger", "issuedDecimal", "unset"}

(* A transaction on the wire: fields names the optional ones that are there *)
(* and only copied.                                                         *)
Transaction ==
  [hash : Seq(0..255), transactionData : {"payment", "other"},
   account : Accounts, sourceTag : Nat \cup {None},
   destination : Accounts, destinationTag : Nat \cup {None},
   amount : CurrencyAmount,
   deliverMin : CurrencyAmount \cup {None}, sendMax : CurrencyAmount \cup {None},
   delivered : CurrencyAmount \cup {None}, date : Nat \cup {None},
   fields : SUBSET {"accountTransactionID", "flags", "lastLedgerSequence",
                    "memos", "signers", "invoiceID", "paths"}]

ASSUME QueryAssumption ==
  /\ Transactions \subseteq Transaction
  /\ \A t, u \in Transactions : t.hash = u.hash => t = u
  /\ Addresses \subseteq Accounts \cup {None}
  /\ Texts \subseteq Seq(STRING)
  /\ None \notin Int \cup CurrencyAmount
  /\ PageSize \in Nat \ {0}
  /\ isTest \in BOOLEAN
-----------------------------------------------------------------------------
(* compactMap drops what its closure gives nil for: the elements of seq that *)
(* are in S, in their order. A set instead of SelectSeq's test, so that one *)
(* lemma does for every use.                                                *)
Kept(seq, S) ==
  LET kept[n \in 0..Len(seq)] ==
        IF n = 0 THEN <<>>
        ELSE IF seq[n] \in S THEN Append(kept[n - 1], seq[n]) ELSE kept[n - 1]
  IN kept[Len(seq)]
-----------------------------------------------------------------------------
UpperDigits == <<"0", "1", "2", "3", "4", "5", "6", "7",
                 "8", "9", "A", "B", "C", "D", "E", "F">>
LowerDigits == <<"0", "1", "2", "3", "4", "5", "6", "7",
                 "8", "9", "a", "b", "c", "d", "e", "f">>

IsHexDigit(ch) == \E v \in 0..15 : ch \in {UpperDigits[v + 1], LowerDigits[v + 1]}
DigitValue(ch) ==
  CHOOSE v \in 0..15 : ch \in {UpperDigits[v + 1], LowerDigits[v + 1]}

(* isValidHex looks for one hexadecimal digit, anywhere. *)
isValidHex(text) == \E i \in DOMAIN text : IsHexDigit(text[i])

(* UInt8(pair, radix: 16), which also reads a sign. *)
UInt8(a, b) ==
  IF IsHexDigit(a) /\ IsHexDigit(b) THEN 16 * DigitValue(a) + DigitValue(b)
  ELSE IF a = "+" /\ IsHexDigit(b) THEN DigitValue(b)
  ELSE IF a = "-" /\ b = "0" THEN 0
  ELSE None

(* toBytes leaves out the pairs that do not convert, or throws. *)
ToBytesThrows(text) == Len(text) % 2 # 0 \/ ~isValidHex(text)
pairs(text) == [i \in 1..(Len(text) \div 2) |-> UInt8(text[2*i - 1], text[2*i])]
toBytes(text) == Kept(pairs(text), 0..255)

(* Faulty variant of toHex: format %hhX, which does not pad. *)
BuggyUnpaddedHex(bytes) ==
  FlattenSeq([i \in DOMAIN bytes |->
    IF bytes[i] < 16 THEN <<UpperDigits[bytes[i] + 1]>>
    ELSE <<UpperDigits[(bytes[i] \div 16) + 1], UpperDigits[(bytes[i] % 16) + 1]>>])

(* Two digits for each byte. *)
toHex(bytes) ==
  [n \in 1..(2 * Len(bytes)) |->
    IF n % 2 = 1 THEN UpperDigits[(bytes[(n + 1) \div 2] \div 16) + 1]
    ELSE UpperDigits[(bytes[n \div 2] % 16) + 1]]
-----------------------------------------------------------------------------
(* Faulty variant of XRPIssuedCurrency: takes any decimal text.             *)
BuggyIssuedCurrency(amount) == IF amount = "unset" THEN None ELSE amount

(* BigInt reads integers only. *)
XRPIssuedCurrency(amount) == IF amount = "issuedInteger" THEN amount ELSE None

(* None without a case, and for an issued amount that does not convert. *)
XRPCurrencyAmount(amount) ==
  CASE amount = "drops" -> [drops |-> amount, issuedCurrency |-> None]
    [] amount # "drops" /\ XRPIssuedCurrency(amount) # None ->
         [drops |-> None, issuedCurrency |-> XRPIssuedCurrency(amount)]
    [] OTHER -> None

(* Faulty variant of ConvertsIfPresent: what does not convert is left out.  *)
BuggyLenient(amount) == TRUE

(* An optional amount that is there must convert. *)
ConvertsIfPresent(amount) == amount # None => XRPCurrencyAmount(amount) # None

Encode(account, tag) == [account |-> account, tag |-> tag, isTest |-> isTest]

XRPPayment(t) ==
  IF /\ XRPCurrencyAmount(t.amount) # None
     /\ ConvertsIfPresent(t.deliverMin) /\ ConvertsIfPresent(t.sendMax)
  THEN [amount |-> XRPCurrencyAmount(t.amount),
        destinationXAddress |-> Encode(t.destination, t.destinationTag),
        deliverMin |-> XRPCurrencyAmount(t.deliverMin),
        sendMax |-> XRPCurrencyAmount(t.sendMax),
        fields |-> t.fields \cap {"invoiceID", "paths"}]
  ELSE None

(* Faulty variant of Inclusion: what the server knows is taken for          *)
(* validated.                                                               *)
BuggyInclusion(response) ==
  [validated |-> TRUE, ledgerIndex |-> response.ledgerIndex]

Inclusion(response) ==
  [validated |-> response.validated, ledgerIndex |-> response.ledgerIndex]

RippleEpoch == 946684800

(* XRPTransaction(getTransactionResponse:): None for what is no payment and *)
(* for a payment that does not convert.                                     *)
XRPTransaction(response) ==
  LET t == response.transaction IN
  IF t.transactionData # "payment" \/ XRPPayment(t) = None THEN None
  ELSE [hash |-> toHex(t.hash),
        sourceXAddress |-> Encode(t.account, t.sourceTag),
        fields |-> t.fields \ {"invoiceID", "paths"},
        paymentFields |-> XRPPayment(t),
        timestamp |-> IF response.date = None THEN None
                      ELSE response.date + RippleEpoch,
        deliveredAmount |-> IF response.delivered = "unset" THEN None
                            ELSE response.delivered,
        inclusion |-> Inclusion(response)]
-----------------------------------------------------------------------------
Validated == {ledger[i] : i \in DOMAIN ledger}

(* The server's answer about a transaction. Its ledger's index, date and    *)
(* delivered amount are known once it is validated.                         *)
Response(t) ==
  IF t \in Validated
  THEN [transaction |-> t, validated |-> TRUE,
        ledgerIndex |-> CHOOSE i \in DOMAIN ledger : ledger[i] = t,
        delivered |-> t.delivered, date |-> t.date]
  ELSE [transaction |-> t, validated |-> FALSE, ledgerIndex |-> 0,
        delivered |-> None, date |-> None]

(* The newest transactions of an account, as many as fit into an answer.    *)
Page(account) ==
  LET involved == {t \in Transactions : account \in {t.account, t.destination}}
      newestFirst == Reverse(Kept(ledger, involved))
  IN SubSeq(newestFirst, 1, IF Len(newestFirst) < PageSize
                            THEN Len(newestFirst) ELSE PageSize)

(* The payments among an answer's transactions, and their conversions.      *)
Payments(page) == Kept(page, {t \in Transactions : t.transactionData = "payment"})
PaymentsIn(page) ==
  [i \in DOMAIN Payments(page) |-> XRPTransaction(Response(Payments(page)[i]))]
-----------------------------------------------------------------------------
NodeInit ==
  /\ exists \in SUBSET Accounts
  /\ open = {}
  /\ ledger = <<>>

Receive ==
  /\ \E t \in Transactions \ (open \cup Validated) : open' = open \cup {t}
  /\ UNCHANGED <<exists, ledger>>

(* A ledger is validated with one of the transactions received. *)
Validate ==
  /\ \E t \in open : ledger' = Append(ledger, t) /\ open' = open \ {t}
  /\ UNCHANGED exists

(* An account is created or deleted. *)
ChangeAccounts ==
  /\ \E a \in Accounts : exists' = (exists \ {a}) \cup ({a} \ exists)
  /\ UNCHANGED <<open, ledger>>
-----------------------------------------------------------------------------
Methods == {"getBalance", "accountExists", "paymentHistory", "getPayment"}
Errors == {"invalidInputs", "unknown", "notFound", "otherError"}
NoResult == [exists |-> None, payments |-> <<>>]

QueryInit ==
  /\ NodeInit
  /\ pc = [c \in Calls |-> "idle"]
  /\ request = [c \in Calls |-> None]
  /\ result = [c \in Calls |-> NoResult]

(* The guards come before the request: an address that does not decode, or *)
(* a hash that does not convert, throws invalidInputs.                     *)
QueryAccount(c, method) ==
  /\ pc[c] = "idle"
  /\ \E a \in Addresses :
       /\ request' = [request EXCEPT ![c] = [method |-> method, argument |-> a]]
       /\ pc' = [pc EXCEPT ![c] = IF a = None THEN "invalidInputs" ELSE "requested"]
  /\ UNCHANGED <<nodeVars, result>>

getBalance(c) == QueryAccount(c, "getBalance")
accountExists(c) == QueryAccount(c, "accountExists")
paymentHistory(c) == QueryAccount(c, "paymentHistory")

getPayment(c) ==
  /\ pc[c] = "idle"
  /\ \E text \in Texts :
       /\ request' = [request EXCEPT ![c] =
            [method |-> "getPayment", argument |-> text]]
       /\ pc' = [pc EXCEPT ![c] =
            IF ToBytesThrows(text) THEN "invalidInputs" ELSE "requested"]
  /\ UNCHANGED <<nodeVars, result>>

Waits(c, methods) == pc[c] = "requested" /\ request[c].method \in methods

Return(c, r) ==
  /\ pc' = [pc EXCEPT ![c] = "returned"]
  /\ result' = [result EXCEPT ![c] = r]
  /\ UNCHANGED <<nodeVars, request>>

Throw(c, error) ==
  /\ pc' = [pc EXCEPT ![c] = error]
  /\ UNCHANGED <<nodeVars, request, result>>

AccountInfo(c) ==
  /\ Waits(c, {"getBalance", "accountExists"})
  /\ request[c].argument \in exists
  /\ Return(c, [exists |-> IF request[c].method = "accountExists" THEN TRUE
                           ELSE None, payments |-> <<>>])

(* The server has no such account or transaction. *)
NotFound(c) ==
  \/ /\ Waits(c, {"getBalance", "accountExists"})
     /\ request[c].argument \notin exists
     /\ IF request[c].method = "accountExists"
        THEN Return(c, [exists |-> FALSE, payments |-> <<>>])
        ELSE Throw(c, "notFound")
  \/ /\ Waits(c, {"getPayment"})
     /\ \A t \in open \cup Validated : t.hash # toBytes(request[c].argument)
     /\ Throw(c, "notFound")

(* One payment that does not convert fails the whole history. *)
AccountHistory(c) ==
  /\ Waits(c, {"paymentHistory"})
  /\ LET payments == PaymentsIn(Page(request[c].argument)) IN
     IF \E i \in DOMAIN payments : payments[i] = None THEN Throw(c, "unknown")
     ELSE Return(c, [exists |-> None, payments |-> payments])

TransactionFound(c) ==
  /\ Waits(c, {"getPayment"})
  /\ \E t \in open \cup Validated :
       /\ t.hash = toBytes(request[c].argument)
       /\ Return(c, [exists |-> None,
                     payments |-> IF XRPTransaction(Response(t)) = None THEN <<>>
                                  ELSE <<XRPTransaction(Response(t))>>])

(* Faulty variant of OtherError: any error is taken for an absent account.  *)
BuggyAnyErrorIsAbsence(c) ==
  /\ Waits(c, Methods)
  /\ IF request[c].method = "accountExists"
     THEN Return(c, [exists |-> FALSE, payments |-> <<>>])
     ELSE Throw(c, "otherError")

OtherError(c) == Waits(c, Methods) /\ Throw(c, "otherError")

Ask(c) == getBalance(c) \/ accountExists(c) \/ paymentHistory(c) \/ getPayment(c)
Answer(c) ==
  AccountInfo(c) \/ NotFound(c) \/ AccountHistory(c) \/ TransactionFound(c) \/ OtherError(c)

QueryNext ==
  \/ (Receive \/ Validate \/ ChangeAccounts) /\ UNCHANGED <<pc, request, result>>
  \/ \E c \in Calls : Ask(c) \/ Answer(c)

QuerySpec == QueryInit /\ [][QueryNext]_queryVars
-----------------------------------------------------------------------------
XAddress == [account : Accounts, tag : Nat \cup {None}, isTest : {isTest}]
CurrencyAmountModel ==
  [drops : {"drops"}, issuedCurrency : {None}]
    \cup [drops : {None}, issuedCurrency : {"issuedInteger"}]
PaymentModel ==
  [amount : CurrencyAmountModel, destinationXAddress : XAddress,
   deliverMin : CurrencyAmountModel \cup {None},
   sendMax : CurrencyAmountModel \cup {None},
   fields : SUBSET {"invoiceID", "paths"}]
TransactionModel ==
  [hash : Seq(Range(UpperDigits)), sourceXAddress : XAddress,
   fields : SUBSET {"accountTransactionID", "flags", "lastLedgerSequence",
                    "memos", "signers"},
   paymentFields : PaymentModel, timestamp : Nat \cup {None},
   deliveredAmount : {"drops", "issuedInteger", "issuedDecimal", None},
   inclusion : [validated : BOOLEAN, ledgerIndex : Nat]]

QueryTypeOK ==
  /\ exists \subseteq Accounts
  /\ open \subseteq Transactions /\ ledger \in Seq(Transactions)
  /\ pc \in [Calls -> {"idle", "requested", "returned"} \cup Errors]
  /\ request \in [Calls ->
       [method : Methods, argument : Addresses \cup Texts] \cup {None}]
  /\ result \in [Calls ->
       [exists : BOOLEAN \cup {None}, payments : Seq(TransactionModel)]]

(* A transaction is in one validated ledger, and then no longer open.       *)
LedgerOK ==
  /\ open \cap Validated = {}
  /\ \A i, j \in DOMAIN ledger : ledger[i] = ledger[j] => i = j

(* Only a text that converts is asked for, and no call has a result ahead   *)
(* of its return.                                                          *)
AskedOK(c) ==
  /\ pc[c] \in {"idle", "requested"} => result[c] = NoResult
  /\ pc[c] \in {"requested", "returned"} /\ request[c].method = "getPayment" =>
       request[c].argument \in Texts /\ ~ ToBytesThrows(request[c].argument)

(* A payment in hand is of a transaction that was asked for, and once       *)
(* validated it is what the server's answer about it converts to now.       *)
ToldOK(c) ==
  pc[c] = "returned" => \A i \in DOMAIN result[c].payments :
    \E t \in Transactions :
      /\ result[c].payments[i].hash = toHex(t.hash)
      /\ request[c].method = "getPayment" => t.hash = toBytes(request[c].argument)
      /\ result[c].payments[i].inclusion.validated =>
           t \in Validated /\ result[c].payments[i] = XRPTransaction(Response(t))

QueryInv ==
  /\ QueryTypeOK
  /\ LedgerOK
  /\ \A c \in Calls : AskedOK(c) /\ ToldOK(c)

Returns(c, method) ==
  pc[c] = "requested" /\ request[c].method = method /\ pc'[c] = "returned"

(* A converted payment is of the transaction whose hash it names, with each *)
(* optional amount that the transaction has.                                *)
Whole(p, t) ==
  /\ toBytes(p.hash) = t.hash
  /\ p.paymentFields.deliverMin = None <=> t.deliverMin = None
  /\ p.paymentFields.sendMax = None <=> t.sendMax = None

(* DefaultXRPClient.swift:311-312, 318: paymentHistory returns all payments *)
(* of the server's answer, each whole and in the server's order, or throws; *)
(* it never returns incomplete data.                                        *)
HistoryIsWhole ==
  [][\A c \in Calls : Returns(c, "paymentHistory") =>
       LET sent == Payments(Page(request[c].argument))
           got == result'[c].payments
       IN /\ Len(got) = Len(sent)
          /\ \A i \in DOMAIN got : Whole(got[i], sent[i])]_queryVars

(* accountExists says no only when the server has no such account, and yes  *)
(* only when it has; whatever else goes wrong is thrown on.                 *)
AbsenceIsTrue ==
  [][\A c \in Calls : Returns(c, "accountExists") =>
       result'[c].exists = (request[c].argument \in exists)]_queryVars

(* A hash printed by the SDK finds its transaction again: getPayment of     *)
(* hexadecimal text gives the payment that carries this very hash.          *)
AskedHashIsAnswered ==
  \A c \in Calls : pc[c] = "returned" /\ request[c].method = "getPayment"
    /\ (\A i \in DOMAIN request[c].argument : IsHexDigit(request[c].argument[i]))
    => \A i \in DOMAIN result[c].payments :
         /\ toBytes(result[c].payments[i].hash) = toBytes(request[c].argument)
         /\ Len(result[c].payments[i].hash) = Len(request[c].argument)

(* A payment once returned as validated is the same, to the last field, in  *)
(* every later answer, of getPayment and paymentHistory alike.              *)
ValidatedIsFinal ==
  [][\A c, d \in Calls : pc[c] = "returned" /\ pc[d] = "requested" =>
       \A i \in DOMAIN result[c].payments, j \in DOMAIN result'[d].payments :
         LET p == result[c].payments[i]
             q == result'[d].payments[j]
         IN p.inclusion.validated /\ p.hash = q.hash => p = q]_queryVars

(* The error text of Hex+ByteArray.swift:11 and the comment of isValidHex   *)
(* (25): a text with a character that is not hexadecimal is rejected, so    *)
(* that no request is made for it.                                          *)
OnlyHexIsAsked ==
  \A c \in Calls : pc[c] = "requested" /\ request[c].method = "getPayment" =>
    \A i \in DOMAIN request[c].argument : IsHexDigit(request[c].argument[i])
=============================================================================
