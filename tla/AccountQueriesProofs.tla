------------------------- MODULE AccountQueriesProofs -------------------------
(* Theorems about AccountQueries, for any calls, accounts, texts and        *)
(* transactions, and for answers of any size.                              *)
EXTENDS AccountQueries, WellFoundedInduction, TLAPS

-----------------------------------------------------------------------------
(* Induction over the numbers, for a set of them.                          *)
LEMMA SetInduction ==
  ASSUME NEW I \in SUBSET Nat, 0 \in I, \A n \in I : n + 1 \in I
  PROVE  I = Nat
<1> DEFINE R == OpToRel(<, Nat)
           Rest == Nat \ I
<1>1. IsWellFoundedOn(R, Nat)
  BY NatLessThanWellFounded
<1>2. \A x \in Nat, y \in Nat : <<y, x>> \in R <=> y < x
  BY DEF OpToRel
<1> HIDE DEF R
<1>3. SUFFICES ASSUME Rest # {} PROVE FALSE
  OBVIOUS
<1>4. PICK x \in Rest : \A y \in Rest : ~ (<<y, x>> \in R)
  BY <1>1, <1>3, WFMin
<1>5. x \in Nat /\ x # 0 /\ x - 1 \in Nat /\ x - 1 < x
  BY <1>4
<1>6. x - 1 \notin Rest
  BY <1>2, <1>4, <1>5
<1>7. x - 1 + 1 \in I
  BY <1>5, <1>6
<1> QED BY <1>4, <1>5, <1>7

-----------------------------------------------------------------------------
(* Kept, the selection of elements.                                        *)

(* One element more of a selection whose first n - 1 are in g.              *)
KeptStep(seq, S, g, n) ==
  IF n = 0 THEN <<>>
  ELSE IF seq[n] \in S THEN Append(g[n - 1], seq[n]) ELSE g[n - 1]

LEMMA Elements ==
  ASSUME NEW T, NEW seq \in Seq(T)
  PROVE  Len(seq) \in Nat /\ \A i \in 1..Len(seq) : seq[i] \in T
OBVIOUS

LEMMA Halves == \A n \in Nat : n \div 2 \in Nat /\ (n % 2 = 0 => n = 2 * (n \div 2))
OBVIOUS

LEMMA KeptExists ==
  ASSUME NEW seq, NEW S, NEW n \in Nat
  PROVE  \E g : g = [k \in 0..n |-> KeptStep(seq, S, g, k)]
<1> DEFINE Upto(m, g) == g = [k \in 0..m |-> KeptStep(seq, S, g, k)]
           I == {m \in Nat : \E g : Upto(m, g)}
<1>1. 0 \in I
  <2> DEFINE g == [k \in 0..0 |-> <<>>]
  <2>1. \A k \in 0..0 : KeptStep(seq, S, g, k) = <<>>
    BY DEF KeptStep
  <2>2. Upto(0, g)
    BY <2>1
  <2> QED BY <2>2
<1>2. ASSUME NEW m \in I PROVE m + 1 \in I
  <2>1. PICK g : Upto(m, g)
    OBVIOUS
  <2> DEFINE h == [k \in 0..(m + 1) |-> IF k \in 0..m THEN g[k] ELSE KeptStep(seq, S, g, k)]
  <2>2. ASSUME NEW k \in 0..(m + 1) PROVE h[k] = KeptStep(seq, S, h, k)
    <3>1. h[k] = KeptStep(seq, S, g, k)
      BY <2>1
    <3>2. k # 0 => h[k - 1] = g[k - 1]
      OBVIOUS
    <3> QED BY <3>1, <3>2 DEF KeptStep
  <2>3. h = [k \in 0..(m + 1) |-> KeptStep(seq, S, h, k)]
    BY <2>2
  <2> HIDE DEF h
  <2> QED BY <2>3
<1>3. I = Nat
  BY <1>1, <1>2, SetInduction, Zenon
<1> QED BY <1>3

LEMMA KeptIsLast ==
  ASSUME NEW T, NEW seq \in Seq(T), NEW S
  PROVE  \E g : /\ g = [k \in 0..Len(seq) |-> KeptStep(seq, S, g, k)]
                /\ Kept(seq, S) = g[Len(seq)]
<1> DEFINE kept == CHOOSE g : g = [k \in 0..Len(seq) |-> KeptStep(seq, S, g, k)]
<1>1. Len(seq) \in Nat
  OBVIOUS
<1>2. kept = [k \in 0..Len(seq) |-> KeptStep(seq, S, kept, k)]
  BY <1>1, KeptExists
<1>3. Kept(seq, S) = kept[Len(seq)]
  BY DEF Kept, KeptStep
<1> QED BY <1>2, <1>3

(* What is kept is what was there and is in S.                              *)
LEMMA KeptType ==
  ASSUME NEW T, NEW seq \in Seq(T), NEW S
  PROVE  Kept(seq, S) \in Seq(T \cap S)
<1>1. PICK g : /\ g = [k \in 0..Len(seq) |-> KeptStep(seq, S, g, k)]
               /\ Kept(seq, S) = g[Len(seq)]
  BY KeptIsLast
<1> DEFINE I == {n \in Nat : n <= Len(seq) => g[n] \in Seq(T \cap S)}
<1>2. 0 \in I
  BY <1>1 DEF KeptStep
<1>3. ASSUME NEW n \in I PROVE n + 1 \in I
  <2>1. SUFFICES ASSUME n + 1 <= Len(seq) PROVE g[n + 1] \in Seq(T \cap S)
    OBVIOUS
  <2>2. g[n + 1] = IF seq[n + 1] \in S THEN Append(g[n], seq[n + 1]) ELSE g[n]
    <3>1. n + 1 \in 0..Len(seq) /\ n + 1 # 0 /\ n + 1 - 1 = n
      BY <2>1
    <3>2. g[n + 1] = KeptStep(seq, S, g, n + 1)
      BY <1>1, <3>1, Zenon
    <3> QED BY <3>1, <3>2 DEF KeptStep
  <2>3. g[n] \in Seq(T \cap S) /\ seq[n + 1] \in T
    BY <2>1
  <2> QED BY <2>2, <2>3
<1>4. I = Nat
  BY <1>2, <1>3, SetInduction, Zenon
<1> QED BY <1>1, <1>4

(* Nothing is dropped of a sequence over S.                                 *)
LEMMA AllKept ==
  ASSUME NEW S, NEW seq \in Seq(S)
  PROVE  Kept(seq, S) = seq
<1>1. PICK g : /\ g = [k \in 0..Len(seq) |-> KeptStep(seq, S, g, k)]
               /\ Kept(seq, S) = g[Len(seq)]
  BY KeptIsLast
<1> DEFINE I == {n \in Nat : n <= Len(seq) => g[n] = SubSeq(seq, 1, n)}
<1>2. 0 \in I
  BY <1>1 DEF KeptStep
<1>3. ASSUME NEW n \in I PROVE n + 1 \in I
  <2>1. SUFFICES ASSUME n + 1 <= Len(seq) PROVE g[n + 1] = SubSeq(seq, 1, n + 1)
    OBVIOUS
  <2>2. g[n + 1] = Append(g[n], seq[n + 1])
    <3>1. n + 1 \in 0..Len(seq) /\ n + 1 # 0 /\ n + 1 - 1 = n /\ seq[n + 1] \in S
      BY <2>1
    <3>2. g[n + 1] = KeptStep(seq, S, g, n + 1)
      BY <1>1, <3>1, Zenon
    <3> QED BY <3>1, <3>2 DEF KeptStep
  <2>3. g[n] = SubSeq(seq, 1, n)
    BY <2>1
  <2>4. Append(SubSeq(seq, 1, n), seq[n + 1]) = SubSeq(seq, 1, n + 1)
    BY <2>1
  <2> QED BY <2>2, <2>3, <2>4
<1>4. I = Nat
  BY <1>2, <1>3, SetInduction, Zenon
<1>5. SubSeq(seq, 1, Len(seq)) = seq
  OBVIOUS
<1> QED BY <1>1, <1>4, <1>5
-----------------------------------------------------------------------------
(* Hexadecimal digits.                                                     *)

Digit == {UpperDigits[v + 1] : v \in 0..15}

(* A digit is the upper-case digit of its value only.                       *)
LEMMA DigitsDiffer ==
  \A v, w \in 0..15 : UpperDigits[v + 1] \in {UpperDigits[w + 1], LowerDigits[w + 1]} => v = w
BY DEF UpperDigits, LowerDigits

LEMMA ValueOfDigit ==
  ASSUME NEW v \in 0..15
  PROVE  IsHexDigit(UpperDigits[v + 1]) /\ DigitValue(UpperDigits[v + 1]) = v
<1>1. UpperDigits[v + 1] \in {UpperDigits[v + 1], LowerDigits[v + 1]}
  OBVIOUS
<1> QED BY <1>1, DigitsDiffer DEF IsHexDigit, DigitValue

LEMMA ValueType ==
  ASSUME NEW ch, IsHexDigit(ch)
  PROVE  DigitValue(ch) \in 0..15
BY DEF IsHexDigit, DigitValue

(* A byte is sixteen times its first digit and its second.                  *)
LEMMA ByteDigits ==
  ASSUME NEW b \in 0..255
  PROVE  b \div 16 \in 0..15 /\ b % 16 \in 0..15 /\ 16 * (b \div 16) + (b % 16) = b
OBVIOUS

LEMMA HexPair ==
  ASSUME NEW b \in 0..255
  PROVE  UInt8(UpperDigits[(b \div 16) + 1], UpperDigits[(b % 16) + 1]) = b
BY ByteDigits, ValueOfDigit DEF UInt8

(* A pair of hexadecimal digits is a byte, whatever else a pair may be.     *)
LEMMA PairIsByte ==
  ASSUME NEW a, NEW b, IsHexDigit(a), IsHexDigit(b)
  PROVE  UInt8(a, b) \in 0..255
BY ValueType DEF UInt8

LEMMA PairType ==
  ASSUME NEW a, NEW b
  PROVE  UInt8(a, b) \in 0..255 \cup {None}
BY ValueType DEF UInt8

-----------------------------------------------------------------------------
(* toHex and toBytes.                                                      *)

LEMMA HexType ==
  ASSUME NEW bytes \in Seq(0..255)
  PROVE  /\ toHex(bytes) \in Seq(Digit) /\ Len(toHex(bytes)) = 2 * Len(bytes)
         /\ \A i \in 1..Len(bytes) :
              /\ toHex(bytes)[2*i - 1] = UpperDigits[(bytes[i] \div 16) + 1]
              /\ toHex(bytes)[2*i] = UpperDigits[(bytes[i] % 16) + 1]
<1> DEFINE hex == toHex(bytes)
<1>1. Len(bytes) \in Nat /\ \A i \in 1..Len(bytes) : bytes[i] \in 0..255
  BY Elements
<1>2. ASSUME NEW i \in 1..Len(bytes)
      PROVE  /\ hex[2*i - 1] = UpperDigits[(bytes[i] \div 16) + 1]
             /\ hex[2*i] = UpperDigits[(bytes[i] % 16) + 1]
  <2>1. /\ 2*i - 1 \in 1..(2 * Len(bytes)) /\ 2*i \in 1..(2 * Len(bytes))
        /\ (2*i - 1) % 2 = 1 /\ (2*i) % 2 = 0
        /\ (2*i - 1 + 1) \div 2 = i /\ (2*i) \div 2 = i
    BY <1>1
  <2> QED BY <2>1 DEF toHex
<1>3. ASSUME NEW n \in 1..(2 * Len(bytes)) PROVE hex[n] \in Digit
  <2>1. PICK i \in 1..Len(bytes) : n = 2*i - 1 \/ n = 2*i
    <3>1. CASE n % 2 = 1
      <4>1. (n + 1) \div 2 \in 1..Len(bytes) /\ n = 2 * ((n + 1) \div 2) - 1
        BY <1>1, <3>1
      <4> QED BY <4>1
    <3>2. CASE n % 2 # 1
      <4>1. n \div 2 \in 1..Len(bytes) /\ n = 2 * (n \div 2)
        BY <1>1, <3>2
      <4> QED BY <4>1
    <3> QED BY <3>1, <3>2
  <2>2. bytes[i] \in 0..255
    BY <1>1
  <2> QED BY <1>2, <2>1, <2>2, ByteDigits DEF Digit
<1>4. hex = [n \in 1..(2 * Len(bytes)) |-> hex[n]]
  BY DEF toHex
<1> HIDE DEF hex
<1>5. hex \in [1..(2 * Len(bytes)) -> Digit] /\ 2 * Len(bytes) \in Nat
  BY <1>1, <1>3, <1>4
<1>6. hex \in Seq(Digit) /\ Len(hex) = 2 * Len(bytes)
  BY <1>5
<1> QED BY <1>2, <1>6 DEF hex

(* A hash that the SDK prints reads back as the same bytes.                 *)
LEMMA ReadsBack ==
  ASSUME NEW bytes \in Seq(0..255)
  PROVE  toBytes(toHex(bytes)) = bytes
<1>1. Len(bytes) \in Nat /\ \A i \in 1..Len(bytes) : bytes[i] \in 0..255
  BY Elements
<1>2. Len(toHex(bytes)) \div 2 = Len(bytes)
  BY <1>1, HexType
<1>3. \A i \in 1..Len(bytes) : UInt8(toHex(bytes)[2*i - 1], toHex(bytes)[2*i]) = bytes[i]
  BY <1>1, HexType, HexPair
<1>4. pairs(toHex(bytes)) = [i \in 1..Len(bytes) |-> bytes[i]]
  BY <1>2, <1>3 DEF pairs
<1>5. [i \in 1..Len(bytes) |-> bytes[i]] = bytes
  OBVIOUS
<1> QED BY <1>4, <1>5, AllKept DEF toBytes

LEMMA HashesDiffer ==
  ASSUME NEW b1 \in Seq(0..255), NEW b2 \in Seq(0..255), toHex(b1) = toHex(b2)
  PROVE  b1 = b2
BY ReadsBack

(* Of hexadecimal text nothing is left out.                                 *)
LEMMA HexIsWhole ==
  ASSUME NEW text \in Seq(STRING), \A i \in DOMAIN text : IsHexDigit(text[i]),
         ~ ToBytesThrows(text)
  PROVE  Len(text) = 2 * Len(toBytes(text))
<1>1. Len(text) \in Nat /\ DOMAIN text = 1..Len(text) /\ Len(text) % 2 = 0
  BY DEF ToBytesThrows
<1>2. Len(text) \div 2 \in Nat /\ Len(text) = 2 * (Len(text) \div 2)
  BY <1>1, Halves
<1>3. ASSUME NEW i \in 1..(Len(text) \div 2) PROVE UInt8(text[2*i - 1], text[2*i]) \in 0..255
  <2>1. 2*i - 1 \in DOMAIN text /\ 2*i \in DOMAIN text
    BY <1>1, <1>2
  <2> QED BY <2>1, PairIsByte
<1>4. pairs(text) \in Seq(0..255) /\ Len(pairs(text)) = Len(text) \div 2
  BY <1>2, <1>3 DEF pairs
<1> QED BY <1>2, <1>4, AllKept DEF toBytes
-----------------------------------------------------------------------------
(* The conversions.                                                        *)

LEMMA AmountConverts ==
  ASSUME NEW amount \in CurrencyAmount \cup {None}
  PROVE  /\ XRPCurrencyAmount(amount) \in CurrencyAmountModel \cup {None}
         /\ amount = None => XRPCurrencyAmount(amount) = None
<1>1. None \notin CurrencyAmount
  BY QueryAssumption
<1>2. CASE amount = "drops"
  BY <1>1, <1>2 DEF XRPCurrencyAmount, CurrencyAmountModel, CurrencyAmount
<1>3. CASE amount # "drops"
  BY <1>1, <1>3 DEF XRPCurrencyAmount, XRPIssuedCurrency, CurrencyAmountModel, CurrencyAmount
<1> QED BY <1>2, <1>3

(* A payment that converts has each amount that its transaction has.        *)
LEMMA PaymentConverts ==
  ASSUME NEW t \in Transactions, XRPPayment(t) # None
  PROVE  /\ XRPPayment(t) \in PaymentModel
         /\ XRPPayment(t).deliverMin = None <=> t.deliverMin = None
         /\ XRPPayment(t).sendMax = None <=> t.sendMax = None
<1>1. t \in Transaction
  BY QueryAssumption
<1>2. /\ XRPCurrencyAmount(t.amount) # None
      /\ ConvertsIfPresent(t.deliverMin) /\ ConvertsIfPresent(t.sendMax)
      /\ XRPPayment(t) = [amount |-> XRPCurrencyAmount(t.amount),
                          destinationXAddress |-> Encode(t.destination, t.destinationTag),
                          deliverMin |-> XRPCurrencyAmount(t.deliverMin),
                          sendMax |-> XRPCurrencyAmount(t.sendMax),
                          fields |-> t.fields \cap {"invoiceID", "paths"}]
  BY DEF XRPPayment
<1>3. /\ t.amount \in CurrencyAmount /\ t.deliverMin \in CurrencyAmount \cup {None}
      /\ t.sendMax \in CurrencyAmount \cup {None}
      /\ t.destination \in Accounts /\ t.destinationTag \in Nat \cup {None}
  BY <1>1 DEF Transaction
<1>4. /\ XRPCurrencyAmount(t.amount) \in CurrencyAmountModel
      /\ XRPCurrencyAmount(t.deliverMin) \in CurrencyAmountModel \cup {None}
      /\ XRPCurrencyAmount(t.sendMax) \in CurrencyAmountModel \cup {None}
      /\ XRPCurrencyAmount(t.deliverMin) = None <=> t.deliverMin = None
      /\ XRPCurrencyAmount(t.sendMax) = None <=> t.sendMax = None
  BY <1>2, <1>3, AmountConverts DEF ConvertsIfPresent
<1>5. Encode(t.destination, t.destinationTag) \in XAddress
  BY <1>3 DEF Encode, XAddress
<1> QED BY <1>2, <1>4, <1>5 DEF PaymentModel

LEMMA ResponseType ==
  ASSUME ledger \in Seq(Transactions), NEW t \in Transactions
  PROVE  /\ Response(t).transaction = t
         /\ Response(t).validated \in BOOLEAN /\ (Response(t).validated <=> t \in Validated)
         /\ Response(t).ledgerIndex \in Nat
         /\ Response(t).delivered \in CurrencyAmount \cup {None}
         /\ Response(t).date \in Nat \cup {None}
<1>1. t \in Transaction
  BY QueryAssumption
<1>2. CASE t \in Validated
  <2>1. DOMAIN ledger = 1..Len(ledger) /\ Len(ledger) \in Nat
    OBVIOUS
  <2>2. \E i \in DOMAIN ledger : ledger[i] = t
    BY <1>2 DEF Validated
  <2>3. (CHOOSE i \in DOMAIN ledger : ledger[i] = t) \in Nat
    BY <2>1, <2>2
  <2>4. Response(t) = [transaction |-> t, validated |-> TRUE,
                       ledgerIndex |-> CHOOSE i \in DOMAIN ledger : ledger[i] = t,
                       delivered |-> t.delivered, date |-> t.date]
    BY <1>2 DEF Response
  <2>5. Response(t).validated = TRUE
    BY <2>4
  <2>6. Response(t).validated \in BOOLEAN /\ (Response(t).validated <=> t \in Validated)
    BY <1>2, <2>5, Zenon
  <2> QED BY <1>1, <2>3, <2>4, <2>6 DEF Transaction
<1>3. CASE t \notin Validated
  <2>1. Response(t) = [transaction |-> t, validated |-> FALSE, ledgerIndex |-> 0,
                       delivered |-> None, date |-> None]
    BY <1>3 DEF Response
  <2>2. Response(t).validated = FALSE
    BY <2>1
  <2>3. Response(t).validated \in BOOLEAN /\ (Response(t).validated <=> t \in Validated)
    BY <1>3, <2>2, Zenon
  <2> QED BY <2>1, <2>3
<1> QED BY <1>2, <1>3

LEMMA ModelType ==
  ASSUME NEW hash \in Seq(Range(UpperDigits)), NEW source \in XAddress,
         NEW fields \in SUBSET {"accountTransactionID", "flags", "lastLedgerSequence",
                                "memos", "signers"},
         NEW payment \in PaymentModel, NEW timestamp \in Nat \cup {None},
         NEW delivered \in {"drops", "issuedInteger", "issuedDecimal", None},
         NEW inclusion \in [validated : BOOLEAN, ledgerIndex : Nat]
  PROVE  [hash |-> hash, sourceXAddress |-> source, fields |-> fields,
          paymentFields |-> payment, timestamp |-> timestamp,
          deliveredAmount |-> delivered, inclusion |-> inclusion] \in TransactionModel
BY DEF TransactionModel

(* A transaction that converts is a payment, and its model names its hash.  *)
LEMMA TransactionConverts ==
  ASSUME ledger \in Seq(Transactions), NEW t \in Transactions,
         XRPTransaction(Response(t)) # None
  PROVE  /\ XRPTransaction(Response(t)) \in TransactionModel
         /\ XRPTransaction(Response(t)).hash = toHex(t.hash)
         /\ XRPTransaction(Response(t)).paymentFields = XRPPayment(t)
         /\ XRPPayment(t) # None
         /\ XRPTransaction(Response(t)).inclusion.validated <=> t \in Validated
<1> DEFINE r == Response(t)
           p == XRPTransaction(r)
           timestamp == IF r.date = None THEN None ELSE r.date + RippleEpoch
           deliveredAmount == IF r.delivered = "unset" THEN None ELSE r.delivered
<1>1. t \in Transaction /\ None \notin Int
  BY QueryAssumption
<1>2. r.transaction = t
  BY ResponseType
<1>3. /\ t.transactionData = "payment" /\ XRPPayment(t) # None
      /\ p = [hash |-> toHex(t.hash),
              sourceXAddress |-> Encode(t.account, t.sourceTag),
              fields |-> t.fields \ {"invoiceID", "paths"},
              paymentFields |-> XRPPayment(t),
              timestamp |-> timestamp,
              deliveredAmount |-> deliveredAmount,
              inclusion |-> Inclusion(r)]
  BY <1>2 DEF XRPTransaction
<1>4. toHex(t.hash) \in Seq(Range(UpperDigits))
  <2>1. t.hash \in Seq(0..255)
    BY <1>1 DEF Transaction
  <2>2. Digit \subseteq Range(UpperDigits)
    BY DEF Digit, Range, UpperDigits
  <2> QED BY <2>1, <2>2, HexType
<1>5. Encode(t.account, t.sourceTag) \in XAddress
  BY <1>1 DEF Encode, XAddress, Transaction
<1>6. t.fields \ {"invoiceID", "paths"}
        \in SUBSET {"accountTransactionID", "flags", "lastLedgerSequence", "memos", "signers"}
  BY <1>1 DEF Transaction
<1>7. timestamp \in Nat \cup {None}
  BY <1>1, ResponseType DEF RippleEpoch
<1>8. deliveredAmount \in {"drops", "issuedInteger", "issuedDecimal", None}
  BY ResponseType DEF CurrencyAmount
<1>9. /\ r.validated \in BOOLEAN /\ r.ledgerIndex \in Nat
      /\ r.validated <=> t \in Validated
  BY ResponseType
<1>10. Inclusion(r) \in [validated : BOOLEAN, ledgerIndex : Nat]
  BY <1>9 DEF Inclusion
<1>11. XRPPayment(t) \in PaymentModel
  BY <1>3, PaymentConverts
<1> HIDE DEF r, timestamp, deliveredAmount
<1>12. p \in TransactionModel
  <2>1. [hash |-> toHex(t.hash),
         sourceXAddress |-> Encode(t.account, t.sourceTag),
         fields |-> t.fields \ {"invoiceID", "paths"},
         paymentFields |-> XRPPayment(t), timestamp |-> timestamp,
         deliveredAmount |-> deliveredAmount, inclusion |-> Inclusion(r)] \in TransactionModel
    BY <1>4, <1>5, <1>6, <1>7, <1>8, <1>10, <1>11, ModelType, Zenon
  <2> QED BY <1>3, <2>1, Zenon
<1>13. p.inclusion.validated <=> t \in Validated
  <2>1. p.inclusion.validated = r.validated
    BY <1>3 DEF Inclusion
  <2> QED BY <1>9, <2>1, Zenon
<1>14. p.hash = toHex(t.hash) /\ p.paymentFields = XRPPayment(t)
  BY <1>3
<1> QED BY <1>3, <1>12, <1>13, <1>14 DEF r
-----------------------------------------------------------------------------
(* The ledger and the server's answers.                                    *)

LEMMA PlaceInLedger ==
  ASSUME LedgerOK, NEW i \in DOMAIN ledger
  PROVE  (CHOOSE k \in DOMAIN ledger : ledger[k] = ledger[i]) = i
BY DEF LedgerOK

(* What the server says of a validated transaction it says for good.        *)
LEMMA ResponseStable ==
  ASSUME LedgerOK, LedgerOK', ledger \in Seq(Transactions), NEW u \in Transactions,
         ledger' = Append(ledger, u), NEW t \in Validated
  PROVE  t \in Validated' /\ Response(t)' = Response(t)
<1>1. PICK i \in DOMAIN ledger : ledger[i] = t
  BY DEF Validated
<1>2. i \in DOMAIN ledger' /\ ledger'[i] = t
  BY <1>1
<1>3. t \in Validated'
  BY <1>2 DEF Validated
<1>4. (CHOOSE k \in DOMAIN ledger : ledger[k] = t) = i
  BY <1>1, PlaceInLedger
<1>5. (CHOOSE k \in DOMAIN ledger' : ledger'[k] = t) = i
  BY <1>2 DEF LedgerOK
<1> QED BY <1>3, <1>4, <1>5 DEF Response

LEMMA ResponseSame ==
  ASSUME UNCHANGED ledger
  PROVE  Validated' = Validated /\ \A t \in Transactions : Response(t)' = Response(t)
BY DEF Validated, Response

LEMMA PageType ==
  ASSUME ledger \in Seq(Transactions), NEW account
  PROVE  Payments(Page(account)) \in Seq(Transactions)
<1> DEFINE involved == {t \in Transactions : account \in {t.account, t.destination}}
           kept == Kept(ledger, involved)
           newestFirst == Reverse(kept)
           size == IF Len(newestFirst) < PageSize THEN Len(newestFirst) ELSE PageSize
<1>1. kept \in Seq(Transactions)
  <2>1. kept \in Seq(Transactions \cap involved)
    BY KeptType, Zenon
  <2> QED BY <2>1
<1> HIDE DEF kept
<1>2. newestFirst \in Seq(Transactions) /\ Len(newestFirst) \in Nat
  BY <1>1 DEF Reverse
<1> HIDE DEF newestFirst
<1>3. size \in Nat /\ size <= Len(newestFirst)
  BY <1>2, QueryAssumption
<1>4. SubSeq(newestFirst, 1, size) \in Seq(Transactions)
  BY <1>2, <1>3
<1>5. Page(account) \in Seq(Transactions)
  BY <1>4 DEF Page, newestFirst, kept
<1>6. Payments(Page(account)) \in Seq(Transactions
                                     \cap {t \in Transactions : t.transactionData = "payment"})
  BY <1>5, KeptType, Zenon DEF Payments
<1> QED BY <1>6
-----------------------------------------------------------------------------
(* The steps.                                                              *)

LEMMA QueryInitInv == QueryInit => QueryInv
<1> SUFFICES ASSUME QueryInit PROVE QueryInv
  OBVIOUS
<1>1. NoResult \in [exists : BOOLEAN \cup {None}, payments : Seq(TransactionModel)]
  BY DEF NoResult
<1>2. QueryTypeOK
  BY <1>1 DEF QueryInit, NodeInit, QueryTypeOK
<1>3. LedgerOK
  BY DEF QueryInit, NodeInit, LedgerOK, Validated
<1>4. ASSUME NEW c \in Calls PROVE AskedOK(c) /\ ToldOK(c)
  BY DEF QueryInit, AskedOK, ToldOK
<1> QED BY <1>2, <1>3, <1>4 DEF QueryInv

(* What is told stays true while the ledger only grows.                     *)
LEMMA TruthKept ==
  ASSUME QueryInv, NEW c \in Calls, UNCHANGED <<pc[c], request[c], result[c]>>,
         \A t \in Validated : t \in Validated' /\ Response(t)' = Response(t)
  PROVE  AskedOK(c)' /\ ToldOK(c)'
<1>1. AskedOK(c) /\ ToldOK(c)
  BY DEF QueryInv
<1>2. AskedOK(c)'
  BY <1>1 DEF AskedOK
<1>3. SUFFICES ASSUME pc[c] = "returned", NEW i \in DOMAIN result[c].payments
      PROVE \E t \in Transactions :
              /\ result[c].payments[i].hash = toHex(t.hash)
              /\ request[c].method = "getPayment" => t.hash = toBytes(request[c].argument)
              /\ result[c].payments[i].inclusion.validated =>
                   t \in Validated' /\ result[c].payments[i] = XRPTransaction(Response(t)')
  BY <1>2 DEF ToldOK
<1>4. PICK t \in Transactions :
        /\ result[c].payments[i].hash = toHex(t.hash)
        /\ request[c].method = "getPayment" => t.hash = toBytes(request[c].argument)
        /\ result[c].payments[i].inclusion.validated =>
             t \in Validated /\ result[c].payments[i] = XRPTransaction(Response(t))
  BY <1>1, <1>3 DEF ToldOK
<1> QED BY <1>4

LEMMA NodeKeepsInv ==
  ASSUME QueryInv, Receive \/ Validate \/ ChangeAccounts, UNCHANGED <<pc, request, result>>
  PROVE  QueryInv'
<1>1. QueryTypeOK /\ LedgerOK
  BY DEF QueryInv
<1>2. CASE Receive
  <2>1. PICK t \in Transactions \ (open \cup Validated) : open' = open \cup {t}
    BY <1>2 DEF Receive
  <2>2. UNCHANGED <<exists, ledger>>
    BY <1>2 DEF Receive
  <2>3. QueryTypeOK'
    BY <1>1, <2>1, <2>2 DEF QueryTypeOK
  <2>4. LedgerOK'
    BY <1>1, <2>1, <2>2 DEF LedgerOK, Validated
  <2>5. \A u \in Validated : u \in Validated' /\ Response(u)' = Response(u)
    BY <2>2 DEF Validated, Response
  <2> QED BY <2>3, <2>4, <2>5, TruthKept DEF QueryInv
<1>3. CASE Validate
  <2>1. PICK t \in open : ledger' = Append(ledger, t) /\ open' = open \ {t}
    BY <1>3 DEF Validate
  <2>2. ledger \in Seq(Transactions) /\ t \in Transactions /\ exists' = exists
    BY <1>1, <1>3, <2>1 DEF QueryTypeOK, Validate
  <2>3. QueryTypeOK'
    BY <1>1, <2>1, <2>2 DEF QueryTypeOK
  <2>4. Validated' = Validated \cup {t}
    <3>1. DOMAIN ledger' = DOMAIN ledger \cup {Len(ledger) + 1}
          /\ ledger'[Len(ledger) + 1] = t /\ \A i \in DOMAIN ledger : ledger'[i] = ledger[i]
      BY <2>1, <2>2
    <3> QED BY <3>1 DEF Validated
  <2>5. LedgerOK'
    <3>1. t \notin Validated
      BY <1>1, <2>1 DEF LedgerOK
    <3>2. open' \cap Validated' = {}
      BY <1>1, <2>1, <2>4 DEF LedgerOK
    <3>3. \A i, j \in DOMAIN ledger' : ledger'[i] = ledger'[j] => i = j
      BY <1>1, <2>1, <2>2, <3>1 DEF LedgerOK, Validated
    <3> QED BY <3>2, <3>3 DEF LedgerOK
  <2>6. \A u \in Validated : u \in Validated' /\ Response(u)' = Response(u)
    BY <1>1, <2>1, <2>2, <2>5, ResponseStable
  <2> QED BY <2>3, <2>5, <2>6, TruthKept DEF QueryInv
<1>4. CASE ChangeAccounts
  <2>1. PICK a \in Accounts : exists' = (exists \ {a}) \cup ({a} \ exists)
    BY <1>4 DEF ChangeAccounts
  <2>2. UNCHANGED <<open, ledger>>
    BY <1>4 DEF ChangeAccounts
  <2>3. QueryTypeOK'
    BY <1>1, <2>1, <2>2 DEF QueryTypeOK
  <2>4. LedgerOK'
    BY <1>1, <2>2 DEF LedgerOK, Validated
  <2>5. \A u \in Validated : u \in Validated' /\ Response(u)' = Response(u)
    BY <2>2 DEF Validated, Response
  <2> QED BY <2>3, <2>4, <2>5, TruthKept DEF QueryInv
<1> QED BY <1>2, <1>3, <1>4

(* A step of one call, which leaves the ledger and the others alone.        *)
LEMMA CallKeepsInv ==
  ASSUME QueryInv, NEW c \in Calls, QueryTypeOK', UNCHANGED nodeVars,
         AskedOK(c)', ToldOK(c)',
         \A d \in Calls \ {c} : UNCHANGED <<pc[d], request[d], result[d]>>
  PROVE  QueryInv'
<1>1. LedgerOK'
  BY DEF QueryInv, LedgerOK, Validated, nodeVars
<1>2. \A u \in Validated : u \in Validated' /\ Response(u)' = Response(u)
  BY DEF nodeVars, Validated, Response
<1>3. \A d \in Calls \ {c} : AskedOK(d)' /\ ToldOK(d)'
  BY <1>2, TruthKept
<1> QED BY <1>1, <1>3 DEF QueryInv

LEMMA QueryAccountKeepsInv ==
  ASSUME QueryInv, NEW c \in Calls,
         NEW method \in {"getBalance", "accountExists", "paymentHistory"},
         QueryAccount(c, method)
  PROVE  QueryInv'
<1>1. QueryTypeOK /\ AskedOK(c)
  BY DEF QueryInv
<1>2. PICK a \in Addresses :
        /\ request' = [request EXCEPT ![c] = [method |-> method, argument |-> a]]
        /\ pc' = [pc EXCEPT ![c] = IF a = None THEN "invalidInputs" ELSE "requested"]
  BY DEF QueryAccount
<1>3. UNCHANGED nodeVars /\ result' = result /\ pc[c] = "idle"
  BY DEF QueryAccount
<1>4. QueryTypeOK'
  BY <1>1, <1>2, <1>3 DEF QueryTypeOK, nodeVars, Methods, Errors
<1>5. AskedOK(c)' /\ ToldOK(c)'
  BY <1>1, <1>2, <1>3 DEF QueryTypeOK, AskedOK, ToldOK
<1>6. \A d \in Calls \ {c} : UNCHANGED <<pc[d], request[d], result[d]>>
  BY <1>1, <1>2, <1>3 DEF QueryTypeOK
<1> QED BY <1>3, <1>4, <1>5, <1>6, CallKeepsInv

LEMMA GetPaymentKeepsInv ==
  ASSUME QueryInv, NEW c \in Calls, getPayment(c)
  PROVE  QueryInv'
<1>1. QueryTypeOK /\ AskedOK(c)
  BY DEF QueryInv
<1>2. PICK text \in Texts :
        /\ request' = [request EXCEPT ![c] = [method |-> "getPayment", argument |-> text]]
        /\ pc' = [pc EXCEPT ![c] =
             IF ToBytesThrows(text) THEN "invalidInputs" ELSE "requested"]
  BY DEF getPayment
<1>3. UNCHANGED nodeVars /\ result' = result /\ pc[c] = "idle"
  BY DEF getPayment
<1>4. QueryTypeOK'
  BY <1>1, <1>2, <1>3 DEF QueryTypeOK, nodeVars, Methods, Errors
<1>5. AskedOK(c)' /\ ToldOK(c)'
  BY <1>1, <1>2, <1>3 DEF QueryTypeOK, AskedOK, ToldOK
<1>6. \A d \in Calls \ {c} : UNCHANGED <<pc[d], request[d], result[d]>>
  BY <1>1, <1>2, <1>3 DEF QueryTypeOK
<1> QED BY <1>3, <1>4, <1>5, <1>6, CallKeepsInv

(* What an answer may give a call: conversions of what the server says of   *)
(* transactions, for a hash of the transaction that has it.                 *)
Given(c, payments) ==
  \A i \in DOMAIN payments : \E t \in Transactions :
    /\ payments[i] = XRPTransaction(Response(t)) /\ payments[i] # None
    /\ request[c].method = "getPayment" => t.hash = toBytes(request[c].argument)

Throws(c) == pc[c] = "requested" /\ \E error \in Errors : Throw(c, error)

Gives(c) ==
  /\ pc[c] = "requested"
  /\ \E r \in [exists : BOOLEAN \cup {None}, payments : Seq(TransactionModel)] :
       Return(c, r) /\ Given(c, r.payments)

LEMMA ThrowKeepsInv ==
  ASSUME QueryInv, NEW c \in Calls, Throws(c)
  PROVE  QueryInv'
<1>1. QueryTypeOK /\ AskedOK(c)
  BY DEF QueryInv
<1>2. PICK error \in Errors : Throw(c, error)
  BY DEF Throws
<1>3. UNCHANGED nodeVars /\ UNCHANGED <<request, result>>
      /\ pc' = [pc EXCEPT ![c] = error]
  BY <1>2 DEF Throw
<1>4. QueryTypeOK'
  BY <1>1, <1>3 DEF QueryTypeOK, nodeVars
<1>5. AskedOK(c)' /\ ToldOK(c)'
  BY <1>1, <1>3 DEF QueryTypeOK, AskedOK, ToldOK, Errors
<1>6. \A d \in Calls \ {c} : UNCHANGED <<pc[d], request[d], result[d]>>
  BY <1>1, <1>3 DEF QueryTypeOK
<1> QED BY <1>3, <1>4, <1>5, <1>6, CallKeepsInv

LEMMA ReturnKeepsInv ==
  ASSUME QueryInv, NEW c \in Calls, Gives(c)
  PROVE  QueryInv'
<1>1. QueryTypeOK /\ AskedOK(c) /\ pc[c] = "requested"
  BY DEF QueryInv, Gives
<1>2. PICK r \in [exists : BOOLEAN \cup {None}, payments : Seq(TransactionModel)] :
        Return(c, r) /\ Given(c, r.payments)
  BY DEF Gives
<1>3. UNCHANGED nodeVars /\ request' = request
      /\ pc' = [pc EXCEPT ![c] = "returned"] /\ result' = [result EXCEPT ![c] = r]
  BY <1>2 DEF Return
<1>4. QueryTypeOK'
  BY <1>1, <1>3 DEF QueryTypeOK, nodeVars
<1>5. pc'[c] = "returned" /\ result'[c] = r
  BY <1>1, <1>3 DEF QueryTypeOK
<1>6. AskedOK(c)'
  BY <1>1, <1>3, <1>5 DEF AskedOK
<1>7. ToldOK(c)'
  <2>1. SUFFICES ASSUME NEW i \in DOMAIN r.payments
        PROVE \E t \in Transactions :
                /\ r.payments[i].hash = toHex(t.hash)
                /\ request[c].method = "getPayment" => t.hash = toBytes(request[c].argument)
                /\ r.payments[i].inclusion.validated =>
                     t \in Validated' /\ r.payments[i] = XRPTransaction(Response(t)')
    BY <1>3, <1>5 DEF ToldOK
  <2>2. PICK t \in Transactions :
          /\ r.payments[i] = XRPTransaction(Response(t)) /\ r.payments[i] # None
          /\ request[c].method = "getPayment" => t.hash = toBytes(request[c].argument)
    BY <1>2, <2>1 DEF Given
  <2>3. ledger \in Seq(Transactions) /\ ledger' = ledger
    BY <1>1, <1>3 DEF QueryTypeOK, nodeVars
  <2>4. Validated' = Validated /\ Response(t)' = Response(t)
    BY <2>3, ResponseSame
  <2>5. r.payments[i].hash = toHex(t.hash)
        /\ (r.payments[i].inclusion.validated => t \in Validated)
    BY <2>2, <2>3, TransactionConverts
  <2> QED BY <2>2, <2>4, <2>5
<1>8. \A d \in Calls \ {c} : UNCHANGED <<pc[d], request[d], result[d]>>
  BY <1>1, <1>3 DEF QueryTypeOK
<1> QED BY <1>3, <1>4, <1>6, <1>7, <1>8, CallKeepsInv

-----------------------------------------------------------------------------
(* The answers: each returns what it was given, or throws.                 *)

LEMMA AccountInfoGives ==
  ASSUME QueryInv, NEW c \in Calls, AccountInfo(c)
  PROVE  Gives(c)
<1> DEFINE yes == IF request[c].method = "accountExists" THEN TRUE ELSE None
<1>1. pc[c] = "requested" /\ Return(c, [exists |-> yes, payments |-> <<>>])
  BY DEF AccountInfo, Waits
<1>2. yes \in BOOLEAN \cup {None}
  BY Zenon
<1> HIDE DEF yes
<1>3. [exists |-> yes, payments |-> <<>>]
        \in [exists : BOOLEAN \cup {None}, payments : Seq(TransactionModel)]
  BY <1>2
<1>4. Given(c, <<>>)
  BY DEF Given
<1> QED BY <1>1, <1>3, <1>4 DEF Gives

LEMMA NotFoundGives ==
  ASSUME QueryInv, NEW c \in Calls, NotFound(c)
  PROVE  Throws(c) \/ Gives(c)
<1>1. pc[c] = "requested"
      /\ (Throw(c, "notFound") \/ Return(c, [exists |-> FALSE, payments |-> <<>>]))
  BY DEF NotFound, Waits
<1>2. [exists |-> FALSE, payments |-> <<>>]
        \in [exists : BOOLEAN \cup {None}, payments : Seq(TransactionModel)]
  OBVIOUS
<1>3. Given(c, <<>>)
  BY DEF Given
<1> QED BY <1>1, <1>2, <1>3 DEF Gives, Throws, Errors

LEMMA HistoryGives ==
  ASSUME QueryInv, NEW c \in Calls, AccountHistory(c)
  PROVE  Throws(c) \/ Gives(c)
<1> DEFINE sent == Payments(Page(request[c].argument))
           payments == PaymentsIn(Page(request[c].argument))
<1>1. pc[c] = "requested" /\ request[c].method = "paymentHistory"
  BY DEF AccountHistory, Waits
<1>2. ledger \in Seq(Transactions)
  BY DEF QueryInv, QueryTypeOK
<1>3. sent \in Seq(Transactions)
  BY <1>2, PageType
<1>4. payments = [i \in 1..Len(sent) |-> XRPTransaction(Response(sent[i]))]
  BY <1>3 DEF PaymentsIn
<1>5. CASE \E i \in DOMAIN payments : payments[i] = None
  <2>1. Throw(c, "unknown")
    BY <1>5 DEF AccountHistory
  <2> QED BY <1>1, <2>1 DEF Throws, Errors
<1>6. CASE ~ \E i \in DOMAIN payments : payments[i] = None
  <2>1. Return(c, [exists |-> None, payments |-> payments])
    BY <1>6 DEF AccountHistory
  <2> HIDE DEF sent, payments
  <2>2. ASSUME NEW i \in DOMAIN payments
        PROVE  /\ sent[i] \in Transactions /\ payments[i] # None
               /\ payments[i] = XRPTransaction(Response(sent[i]))
               /\ payments[i] \in TransactionModel
    <3>1. i \in 1..Len(sent) /\ sent[i] \in Transactions
      BY <1>3, <1>4
    <3>2. payments[i] = XRPTransaction(Response(sent[i])) /\ payments[i] # None
      BY <1>4, <1>6, <3>1
    <3> QED BY <1>2, <3>1, <3>2, TransactionConverts
  <2>3. payments \in Seq(TransactionModel)
    <3>1. payments \in [1..Len(sent) -> TransactionModel] /\ Len(sent) \in Nat
      BY <1>3, <1>4, <2>2
    <3> QED BY <3>1
  <2>4. Given(c, payments)
    BY <1>1, <2>2 DEF Given
  <2>5. [exists |-> None, payments |-> payments]
          \in [exists : BOOLEAN \cup {None}, payments : Seq(TransactionModel)]
    BY <2>3
  <2> QED BY <1>1, <2>1, <2>4, <2>5 DEF Gives
<1> QED BY <1>5, <1>6

LEMMA TransactionFoundGives ==
  ASSUME QueryInv, NEW c \in Calls, TransactionFound(c)
  PROVE  Gives(c)
<1>1. /\ pc[c] = "requested" /\ ledger \in Seq(Transactions)
      /\ open \subseteq Transactions
  BY DEF TransactionFound, Waits, QueryInv, QueryTypeOK
<1>2. Validated \subseteq Transactions
  BY <1>1 DEF Validated
<1>3. PICK t \in open \cup Validated :
        /\ t.hash = toBytes(request[c].argument)
        /\ Return(c, [exists |-> None,
                      payments |-> IF XRPTransaction(Response(t)) = None THEN <<>>
                                   ELSE <<XRPTransaction(Response(t))>>])
  BY DEF TransactionFound
<1>4. t \in Transactions
  BY <1>1, <1>2, <1>3
<1> DEFINE p == XRPTransaction(Response(t))
<1>5. CASE p = None
  <2>1. Return(c, [exists |-> None, payments |-> <<>>])
    BY <1>3, <1>5
  <2>2. Given(c, <<>>)
    BY DEF Given
  <2>3. [exists |-> None, payments |-> <<>>]
          \in [exists : BOOLEAN \cup {None}, payments : Seq(TransactionModel)]
    OBVIOUS
  <2> QED BY <1>1, <2>1, <2>2, <2>3 DEF Gives
<1>6. CASE p # None
  <2>1. Return(c, [exists |-> None, payments |-> <<p>>])
    BY <1>3, <1>6
  <2>2. p \in TransactionModel
    BY <1>1, <1>4, <1>6, TransactionConverts
  <2>3. Given(c, <<p>>)
    BY <1>3, <1>4, <1>6 DEF Given
  <2> HIDE DEF p
  <2>4. [exists |-> None, payments |-> <<p>>]
          \in [exists : BOOLEAN \cup {None}, payments : Seq(TransactionModel)]
    BY <2>2
  <2> QED BY <1>1, <2>1, <2>3, <2>4 DEF Gives
<1> QED BY <1>5, <1>6

LEMMA AnswerGives ==
  ASSUME QueryInv, NEW c \in Calls, Answer(c)
  PROVE  Throws(c) \/ Gives(c)
<1>1. OtherError(c) => Throws(c)
  BY DEF OtherError, Waits, Throws, Errors
<1> QED BY <1>1, AccountInfoGives, NotFoundGives, HistoryGives, TransactionFoundGives DEF Answer

LEMMA QueryNextInv == QueryInv /\ [QueryNext]_queryVars => QueryInv'
<1> SUFFICES ASSUME QueryInv, [QueryNext]_queryVars PROVE QueryInv'
  OBVIOUS
<1>1. CASE (Receive \/ Validate \/ ChangeAccounts) /\ UNCHANGED <<pc, request, result>>
  BY <1>1, NodeKeepsInv
<1>2. CASE \E c \in Calls : Ask(c)
  <2>1. PICK c \in Calls : Ask(c)
    BY <1>2
  <2> QED BY <2>1, QueryAccountKeepsInv, GetPaymentKeepsInv
        DEF Ask, getBalance, accountExists, paymentHistory
<1>3. CASE \E c \in Calls : Answer(c)
  BY <1>3, AnswerGives, ThrowKeepsInv, ReturnKeepsInv
<1>4. CASE UNCHANGED queryVars
  <2>1. UNCHANGED nodeVars /\ UNCHANGED <<pc, request, result>>
    BY <1>4 DEF queryVars, nodeVars
  <2>2. QueryTypeOK' /\ LedgerOK'
    BY <2>1 DEF QueryInv, QueryTypeOK, LedgerOK, Validated, nodeVars
  <2>3. \A u \in Validated : u \in Validated' /\ Response(u)' = Response(u)
    BY <2>1 DEF nodeVars, Validated, Response
  <2> QED BY <2>1, <2>2, <2>3, TruthKept DEF QueryInv
<1> QED BY <1>1, <1>2, <1>3, <1>4 DEF QueryNext

-----------------------------------------------------------------------------
(* The results.                                                            *)

(* The invariant holds for any calls, accounts, texts and transactions.     *)
THEOREM QueryInvariantHolds == QuerySpec => []QueryInv
<1>1. QueryInit => QueryInv
  BY QueryInitInv
<1>2. QueryInv /\ [QueryNext]_queryVars => QueryInv'
  BY QueryNextInv
<1> QED BY <1>1, <1>2, PTL DEF QuerySpec

(* The state stays well typed: whatever the server's transactions convert   *)
(* to is an XRPTransaction with its required fields.                        *)
THEOREM QueryTypeCorrect == QuerySpec => []QueryTypeOK
<1>1. QueryInv => QueryTypeOK
  BY DEF QueryInv
<1> QED BY <1>1, QueryInvariantHolds, PTL

(* getPayment of hexadecimal text gives the payment with this very hash: a  *)
(* hash printed by toHex finds its transaction again.                       *)
THEOREM AskedHashAnswered == QuerySpec => []AskedHashIsAnswered
<1>1. QueryInv => AskedHashIsAnswered
  <2> SUFFICES ASSUME QueryInv, NEW c \in Calls, pc[c] = "returned",
                      request[c].method = "getPayment",
                      \A i \in DOMAIN request[c].argument : IsHexDigit(request[c].argument[i]),
                      NEW i \in DOMAIN result[c].payments
               PROVE  /\ toBytes(result[c].payments[i].hash) = toBytes(request[c].argument)
                      /\ Len(result[c].payments[i].hash) = Len(request[c].argument)
    BY DEF AskedHashIsAnswered
  <2>1. AskedOK(c) /\ ToldOK(c)
    BY DEF QueryInv
  <2>2. request[c].argument \in Seq(STRING) /\ ~ ToBytesThrows(request[c].argument)
    BY <2>1, QueryAssumption DEF AskedOK
  <2>3. PICK t \in Transactions :
          /\ result[c].payments[i].hash = toHex(t.hash)
          /\ t.hash = toBytes(request[c].argument)
    BY <2>1 DEF ToldOK
  <2>4. t.hash \in Seq(0..255)
    BY QueryAssumption DEF Transaction
  <2>5. Len(request[c].argument) = 2 * Len(toBytes(request[c].argument))
    BY <2>2, HexIsWhole
  <2> QED BY <2>3, <2>4, <2>5, ReadsBack, HexType
<1> QED BY <1>1, QueryInvariantHolds, PTL

(* Only its own answer makes a call return.                                 *)
LEMMA ReturnsByAnswer ==
  ASSUME QueryInv, [QueryNext]_queryVars, NEW c \in Calls,
         pc[c] = "requested", pc'[c] = "returned"
  PROVE  Answer(c)
<1>1. pc \in [Calls -> {"idle", "requested", "returned"} \cup Errors]
  BY DEF QueryInv, QueryTypeOK
<1>2. pc' # pc
  OBVIOUS
<1>3. PICK d \in Calls : Ask(d) \/ Answer(d)
  BY <1>2 DEF QueryNext, queryVars
<1>4. ~ Ask(c)
  BY DEF Ask, getBalance, accountExists, paymentHistory, getPayment, QueryAccount
<1>5. \E x : pc' = [pc EXCEPT ![d] = x]
  <2>1. CASE Ask(d)
    BY <2>1 DEF Ask, getBalance, accountExists, paymentHistory, getPayment, QueryAccount
  <2>2. CASE Answer(d)
    BY <2>2, AnswerGives DEF Throws, Gives, Throw, Return
  <2> QED BY <1>3, <2>1, <2>2
<1>6. d = c
  BY <1>1, <1>5
<1> QED BY <1>3, <1>4, <1>6

LEMMA ThrowsNoResult ==
  ASSUME QueryInv, NEW c \in Calls, pc'[c] = "returned"
  PROVE  \A error \in Errors : ~ Throw(c, error)
BY DEF QueryInv, QueryTypeOK, Errors, Throw

(* accountExists says no only of an account the server does not have, and   *)
(* yes only of one it has.                                                  *)
THEOREM AbsenceTrue == QuerySpec => AbsenceIsTrue
<1>1. QueryInv /\ [QueryNext]_queryVars =>
        [\A c \in Calls : Returns(c, "accountExists") =>
           result'[c].exists = (request[c].argument \in exists)]_queryVars
  <2> SUFFICES ASSUME QueryInv, [QueryNext]_queryVars, NEW c \in Calls,
                      Returns(c, "accountExists")
               PROVE  result'[c].exists = (request[c].argument \in exists)
    OBVIOUS
  <2>1. Answer(c) /\ request[c].method = "accountExists"
    BY ReturnsByAnswer DEF Returns
  <2>2. result \in [Calls -> [exists : BOOLEAN \cup {None}, payments : Seq(TransactionModel)]]
    BY DEF QueryInv, QueryTypeOK
  <2>3. AccountInfo(c) \/ NotFound(c)
    BY <2>1, ThrowsNoResult
       DEF Answer, AccountHistory, TransactionFound, OtherError, Waits, Returns, Errors
  <2>4. CASE AccountInfo(c)
    <3>1. result'[c].exists = TRUE
      BY <2>1, <2>2, <2>4 DEF AccountInfo, Return
    <3>2. request[c].argument \in exists
      BY <2>4 DEF AccountInfo
    <3> QED BY <3>1, <3>2, Zenon
  <2>5. CASE NotFound(c)
    <3>1. request[c].argument \notin exists
          /\ Return(c, [exists |-> FALSE, payments |-> <<>>])
      BY <2>1, <2>5 DEF NotFound, Waits
    <3>2. result'[c].exists = FALSE
      BY <2>2, <3>1 DEF Return
    <3> DEFINE has == request[c].argument \in exists
    <3>3. has \in BOOLEAN /\ ~ has
      BY <3>1
    <3> HIDE DEF has
    <3>4. result'[c].exists = has
      BY <3>2, <3>3
    <3> QED BY <3>4 DEF has
  <2> QED BY <2>3, <2>4, <2>5
<1> QED BY <1>1, QueryInvariantHolds, PTL DEF QuerySpec, AbsenceIsTrue

(* paymentHistory returns every payment of the server's answer, in order    *)
(* and each whole, or throws.                                               *)
THEOREM HistoryWhole == QuerySpec => HistoryIsWhole
<1>1. QueryInv /\ [QueryNext]_queryVars =>
        [\A c \in Calls : Returns(c, "paymentHistory") =>
           LET sent == Payments(Page(request[c].argument))
               got == result'[c].payments
           IN /\ Len(got) = Len(sent)
              /\ \A i \in DOMAIN got : Whole(got[i], sent[i])]_queryVars
  <2> SUFFICES ASSUME QueryInv, [QueryNext]_queryVars, NEW c \in Calls,
                      Returns(c, "paymentHistory")
               PROVE  LET sent == Payments(Page(request[c].argument))
                          got == result'[c].payments
                      IN /\ Len(got) = Len(sent)
                         /\ \A i \in DOMAIN got : Whole(got[i], sent[i])
    OBVIOUS
  <2> DEFINE sent == Payments(Page(request[c].argument))
             got == result'[c].payments
  <2>1. Answer(c) /\ request[c].method = "paymentHistory"
    BY ReturnsByAnswer DEF Returns
  <2>2. /\ result \in [Calls -> [exists : BOOLEAN \cup {None}, payments : Seq(TransactionModel)]]
        /\ ledger \in Seq(Transactions)
    BY DEF QueryInv, QueryTypeOK
  <2>3. AccountHistory(c)
    BY <2>1, ThrowsNoResult
       DEF Answer, AccountInfo, NotFound, TransactionFound, OtherError, Waits, Returns, Errors
  <2>4. /\ \A i \in DOMAIN PaymentsIn(Page(request[c].argument)) :
             PaymentsIn(Page(request[c].argument))[i] # None
        /\ Return(c, [exists |-> None, payments |-> PaymentsIn(Page(request[c].argument))])
    BY <2>3, ThrowsNoResult DEF AccountHistory, Returns, Errors
  <2>5. got = PaymentsIn(Page(request[c].argument))
    BY <2>2, <2>4 DEF Return
  <2>6. sent \in Seq(Transactions)
    BY <2>2, PageType
  <2>7. got = [i \in 1..Len(sent) |-> XRPTransaction(Response(sent[i]))]
    BY <2>5, <2>6 DEF PaymentsIn
  <2>8. \A i \in DOMAIN got : got[i] # None
    BY <2>4, <2>5
  <2> HIDE DEF sent, got
  <2>9. DOMAIN got = 1..Len(sent) /\ Len(got) = Len(sent)
    BY <2>6, <2>7
  <2>10. ASSUME NEW i \in DOMAIN got PROVE Whole(got[i], sent[i])
    <3>1. sent[i] \in Transactions /\ got[i] = XRPTransaction(Response(sent[i]))
          /\ got[i] # None
      BY <2>6, <2>7, <2>8, <2>9
    <3>2. got[i].hash = toHex(sent[i].hash) /\ got[i].paymentFields = XRPPayment(sent[i])
          /\ XRPPayment(sent[i]) # None
      BY <2>2, <3>1, TransactionConverts
    <3>3. sent[i].hash \in Seq(0..255)
      BY <3>1, QueryAssumption DEF Transaction
    <3> QED BY <3>1, <3>2, <3>3, ReadsBack, PaymentConverts DEF Whole
  <2> QED BY <2>9, <2>10 DEF sent, got
<1> QED BY <1>1, QueryInvariantHolds, PTL DEF QuerySpec, HistoryIsWhole

(* A payment returned as validated is the same in every later answer.       *)
THEOREM ValidatedFinal == QuerySpec => ValidatedIsFinal
<1>1. QueryInv /\ [QueryNext]_queryVars =>
        [\A c, d \in Calls : pc[c] = "returned" /\ pc[d] = "requested" =>
           \A i \in DOMAIN result[c].payments, j \in DOMAIN result'[d].payments :
             LET p == result[c].payments[i]
                 q == result'[d].payments[j]
             IN p.inclusion.validated /\ p.hash = q.hash => p = q]_queryVars
  <2> SUFFICES ASSUME QueryInv, [QueryNext]_queryVars, NEW c \in Calls, NEW d \in Calls,
                      pc[c] = "returned", pc[d] = "requested",
                      NEW i \in DOMAIN result[c].payments,
                      NEW j \in DOMAIN result'[d].payments,
                      result[c].payments[i].inclusion.validated,
                      result[c].payments[i].hash = result'[d].payments[j].hash
               PROVE  result[c].payments[i] = result'[d].payments[j]
    OBVIOUS
  <2>1. ToldOK(c) /\ AskedOK(d) /\ QueryTypeOK /\ QueryTypeOK'
    BY QueryNextInv DEF QueryInv
  <2>2. PICK t \in Transactions :
          /\ result[c].payments[i].hash = toHex(t.hash)
          /\ result[c].payments[i] = XRPTransaction(Response(t))
    BY <2>1 DEF ToldOK
  <2>3. result'[d] # result[d]
    BY <2>1 DEF AskedOK, NoResult
  <2>4. pc'[d] = "returned"
    <3>1. PICK e \in Calls : Answer(e)
      BY <2>3 DEF QueryNext, queryVars, Ask, getBalance, accountExists, paymentHistory,
                  getPayment, QueryAccount
    <3>2. ~ Throws(e)
      BY <2>3 DEF Throws, Throw
    <3>3. Gives(e)
      BY <3>1, <3>2, AnswerGives
    <3> QED BY <2>1, <2>3, <3>3 DEF Gives, Return, QueryTypeOK
  <2>5. Answer(d)
    BY <2>4, ReturnsByAnswer
  <2>6. Gives(d)
    BY <2>3, <2>5, AnswerGives DEF Throws, Throw
  <2>7. Given(d, result'[d].payments)
    BY <2>1, <2>6 DEF Gives, Return, QueryTypeOK
  <2>8. PICK u \in Transactions :
          result'[d].payments[j] = XRPTransaction(Response(u)) /\ result'[d].payments[j] # None
    BY <2>7 DEF Given
  <2>9. result'[d].payments[j].hash = toHex(u.hash)
    BY <2>1, <2>8, TransactionConverts DEF QueryTypeOK
  <2>10. t.hash \in Seq(0..255) /\ u.hash \in Seq(0..255)
    BY QueryAssumption DEF Transaction
  <2>11. t.hash = u.hash
    BY <2>2, <2>9, <2>10, HashesDiffer
  <2> QED BY <2>2, <2>8, <2>11, QueryAssumption
<1> QED BY <1>1, QueryInvariantHolds, PTL DEF QuerySpec, ValidatedIsFinal
=============================================================================
