----------------------- MODULE PaymentDestinationProofs -----------------------
(* Theorems about XAddressCodec, and about PaymentDestination, which uses   *)
(* it: for any calls, requests, owners and entries, and bytes of any size.  *)
EXTENDS PaymentDestination, SequenceTheorems, WellFoundedInduction, TLAPS

-----------------------------------------------------------------------------
(* The codec.                                                              *)

LEMMA Times ==
  ASSUME NEW d \in Nat, NEW p \in Int, NEW q \in Int, p < q
  PROVE  d * p + d <= d * q
<1>1. p + 1 <= q
  OBVIOUS
<1>2. d * (p + 1) <= d * q
  BY <1>1
<1> QED BY <1>2

LEMMA DivMod ==
  ASSUME NEW n \in Nat, NEW d \in Nat, d > 0
  PROVE  /\ n \div d \in Nat /\ n % d \in 0 .. (d - 1)
         /\ n = d * (n \div d) + (n % d)
OBVIOUS

(* A quotient and a remainder are the only ones.                            *)
LEMMA OnlyQuotient ==
  ASSUME NEW n \in Nat, NEW d \in Nat, d > 0, NEW q \in Nat, NEW r \in 0 .. (d - 1),
         n = d * q + r
  PROVE  n \div d = q /\ n % d = r
<1>1. /\ n \div d \in Nat /\ n % d \in 0 .. (d - 1)
      /\ n = d * (n \div d) + (n % d)
  BY DivMod
<1>2. ~ (q < n \div d)
  BY <1>1, Times
<1>3. ~ (n \div d < q)
  BY <1>1, Times
<1>4. n \div d = q
  BY <1>1, <1>2, <1>3
<1> QED BY <1>1, <1>4

LEMMA DivDiv ==
  ASSUME NEW n \in Nat, NEW d \in Nat, d > 0, NEW e \in Nat, e > 0
  PROVE  n \div (d * e) = (n \div d) \div e
<1> DEFINE q == n \div d
           p == q \div e
           r == d * (q % e) + (n % d)
<1>1. q \in Nat /\ n % d \in 0 .. (d - 1) /\ n = d * q + (n % d)
  BY DivMod
<1>2. p \in Nat /\ q % e \in 0 .. (e - 1) /\ q = e * p + (q % e)
  BY <1>1, DivMod
<1>3. d * e \in Nat /\ d * e > 0
  BY Times
<1>4. n = (d * e) * p + r
  <2>1. d * q = d * (e * p) + d * (q % e)
    BY <1>1, <1>2
  <2>2. d * (e * p) = (d * e) * p
    BY <1>2
  <2> QED BY <1>1, <1>2, <2>1, <2>2
<1>5. r \in 0 .. (d * e - 1)
  <2>1. d * (q % e) \in Nat /\ d * (q % e) + d <= d * e
    BY <1>2, Times
  <2> QED BY <1>1, <1>3, <2>1
<1> HIDE DEF p, r
<1>6. n \div (d * e) = p
  BY <1>2, <1>3, <1>4, <1>5, OnlyQuotient
<1> QED BY <1>6 DEF p

(* The bytes of a tag are bytes, and make up the tag again.                 *)
LEMMA TagOfBytes ==
  ASSUME NEW n \in Tag
  PROVE  TagBytes(n) \in [1..4 -> Byte] /\ TagNumber(TagBytes(n)) = n
<1> DEFINE B == ByteValues
           q1 == n \div B
           q2 == q1 \div B
           q3 == q2 \div B
<1>0. B \in Nat /\ B > 0 /\ n \in Nat
  <2>1. B * B * B * B \in Nat
    BY CodecAssumption
  <2> QED BY <2>1, CodecAssumption DEF Tag, MaxTag
<1>1. q1 \in Nat /\ n % B \in Byte /\ n = B * q1 + (n % B)
  BY <1>0, DivMod DEF Byte
<1>2. q2 \in Nat /\ q1 % B \in Byte /\ q1 = B * q2 + (q1 % B)
  BY <1>0, <1>1, DivMod DEF Byte
<1>3. q3 \in Nat /\ q2 % B \in Byte /\ q2 = B * q3 + (q2 % B)
  BY <1>0, <1>2, DivMod DEF Byte
<1>4. B * B \in Nat /\ B * B > 0
  BY <1>0, Times
<1>5. n \div (B * B) = q2
  BY <1>0, DivDiv
<1>6. n \div (B * B * B) = q3
  BY <1>0, <1>4, <1>5, DivDiv
<1> HIDE DEF q1, q2, q3
<1>7. n < B * B * B * B
  BY <1>0, <1>4 DEF Tag, MaxTag
<1>8. q3 < B
  <2> SUFFICES ASSUME B <= q3 PROVE FALSE
    BY <1>0, <1>3
  <2>1. B * B <= q2
    BY <1>0, <1>3, Times DEF Byte
  <2>2. B * (B * B) <= q1
    <3>1. B * (B * B) <= B * q2
      BY <1>0, <1>2, <1>4, <2>1, Times
    <3> QED BY <1>0, <1>2, <1>4, <3>1 DEF Byte
  <2>3. B * (B * (B * B)) <= n
    <3>0. B * (B * B) \in Nat
      BY <1>0, <1>4
    <3>1. B * (B * (B * B)) <= B * q1
      BY <1>0, <1>1, <3>0, <2>2, Times
    <3> QED BY <1>0, <1>1, <3>0, <3>1 DEF Byte
  <2>4. B * (B * (B * B)) = B * B * B * B
    BY <1>0
  <2> QED BY <1>0, <1>7, <2>3, <2>4
<1>9. q3 % B = q3
  BY <1>0, <1>3, <1>8, OnlyQuotient
<1>10. TagBytes(n) = <<n % B, q1 % B, q2 % B, q3>>
  BY <1>5, <1>6, <1>9 DEF TagBytes, q1
<1>11. q3 \in Byte
  BY <1>0, <1>3, <1>8 DEF Byte
<1>12. TagBytes(n) \in [1..4 -> Byte]
  BY <1>1, <1>2, <1>3, <1>10, <1>11
<1>13. TagNumber(TagBytes(n)) = (n % B) + B * (q1 % B) + B * B * (q2 % B) + B * B * B * q3
  BY <1>10 DEF TagNumber
<1>14. n = (n % B) + B * (q1 % B) + B * B * (q2 % B) + B * B * B * q3
  <2> DEFINE r0 == n % B
             r1 == q1 % B
             r2 == q2 % B
  <2>1. r0 \in Int /\ r1 \in Int /\ r2 \in Int /\ n = B * q1 + r0 /\ q1 = B * q2 + r1
        /\ q2 = B * q3 + r2
    BY <1>1, <1>2, <1>3 DEF Byte
  <2> HIDE DEF r0, r1, r2
  <2>2. B * q2 = B * B * q3 + B * r2
    BY <1>0, <1>3, <2>1
  <2>3. B * q1 = B * (B * B * q3 + B * r2 + r1)
    BY <2>1, <2>2
  <2>4. B * (B * B * q3 + B * r2 + r1) = B * B * B * q3 + B * B * r2 + B * r1
    BY <1>0, <1>3, <2>1
  <2>5. n = r0 + B * r1 + B * B * r2 + B * B * B * q3
    BY <1>0, <1>1, <1>2, <1>3, <2>1, <2>3, <2>4
  <2> QED BY <2>5 DEF r0, r1, r2
<1> QED BY <1>12, <1>13, <1>14

(* Four bytes make up a tag, whose bytes they are.                          *)
LEMMA BytesOfTag ==
  ASSUME NEW bytes \in [1..4 -> Byte]
  PROVE  TagNumber(bytes) \in Tag /\ TagBytes(TagNumber(bytes)) = bytes
<1> DEFINE B == ByteValues
           b1 == bytes[1]
           b2 == bytes[2]
           b3 == bytes[3]
           b4 == bytes[4]
           p2 == B * b4 + b3
           p1 == B * p2 + b2
           n  == B * p1 + b1
<1>0. B \in Nat /\ B > 0
  BY CodecAssumption
<1>1. b1 \in 0 .. (B - 1) /\ b2 \in 0 .. (B - 1) /\ b3 \in 0 .. (B - 1) /\ b4 \in 0 .. (B - 1)
  BY DEF Byte
<1>2. bytes = <<b1, b2, b3, b4>>
  OBVIOUS
<1>3. TagNumber(bytes) = b1 + B * b2 + B * B * b3 + B * B * B * b4
  BY DEF TagNumber
<1> HIDE DEF b1, b2, b3, b4
<1>4. p2 \in Nat
  BY <1>0, <1>1, Times
<1>5. p1 \in Nat
  BY <1>0, <1>1, <1>4, Times DEF p1
<1>6. n \in Nat
  BY <1>0, <1>1, <1>5, Times DEF n
<1>7. TagNumber(bytes) = n
  <2>1. B * p2 = B * B * b4 + B * b3
    BY <1>0, <1>1
  <2>2. B * p1 = B * (B * B * b4 + B * b3 + b2)
    BY <2>1
  <2>3. B * (B * B * b4 + B * b3 + b2) = B * B * B * b4 + B * B * b3 + B * b2
    BY <1>0, <1>1
  <2> HIDE DEF p1
  <2> QED BY <1>0, <1>1, <1>3, <1>5, <2>2, <2>3
<1> HIDE DEF n, p1, p2
<1>8. n \div B = p1 /\ n % B = b1
  BY <1>0, <1>1, <1>5, <1>6, OnlyQuotient DEF n
<1>9. p1 \div B = p2 /\ p1 % B = b2
  BY <1>0, <1>1, <1>4, <1>5, OnlyQuotient DEF p1
<1>10. p2 \div B = b4 /\ p2 % B = b3
  BY <1>0, <1>1, <1>4, OnlyQuotient DEF p2
<1>11. b4 % B = b4
  <2>1. b4 \in Nat /\ 0 \in Nat /\ b4 = B * 0 + b4
    BY <1>0, <1>1
  <2> QED BY <1>0, <1>1, <2>1, OnlyQuotient
<1>12. B * B \in Nat /\ B * B > 0
  BY <1>0, Times
<1>13. n \div (B * B) = p2
  BY <1>0, <1>6, <1>8, <1>9, DivDiv
<1>14. n \div (B * B * B) = b4
  BY <1>0, <1>6, <1>10, <1>12, <1>13, DivDiv
<1>15. TagBytes(n) = <<b1, b2, b3, b4>>
  BY <1>8, <1>9, <1>10, <1>11, <1>13, <1>14 DEF TagBytes
<1>16. n <= MaxTag
  <2>1. p2 <= B * B - 1
    <3>1. B * b4 + B <= B * B
      BY <1>0, <1>1, Times
    <3> QED BY <1>0, <1>1, <1>12, <3>1 DEF p2
  <2>2. p1 <= B * (B * B) - 1
    <3>1. B * p2 + B <= B * (B * B)
      BY <1>0, <1>4, <1>12, <2>1, Times
    <3> QED BY <1>0, <1>1, <1>4, <1>12, <3>1 DEF p1
  <2>3. B * (B * B) \in Nat
    BY <1>0, <1>12, Times
  <2>4. n <= B * (B * (B * B)) - 1
    <3>1. B * p1 + B <= B * (B * (B * B))
      BY <1>0, <1>5, <2>2, <2>3, Times
    <3> QED BY <1>0, <1>1, <1>5, <2>3, <3>1 DEF n
  <2>5. B * (B * (B * B)) = B * B * B * B
    BY <1>0
  <2> QED BY <2>4, <2>5 DEF MaxTag
<1> QED BY <1>2, <1>6, <1>7, <1>15, <1>16 DEF Tag

(* What Utils.encode makes of an account, a tag or none, and a network,     *)
(* Utils.decode reads back: the tag 0, the greatest tag and no tag are     *)
(* three different things on the way (the codec of the bundled JavaScript, *)
(* as JavaScriptUtils.swift calls it).                                     *)
THEOREM DecodesAsEncoded ==
  ASSUME NEW a \in Accounts, NEW t \in Tag \cup {None}, NEW isTest \in BOOLEAN
  PROVE  /\ encode([kind |-> "classic", account |-> a], t, isTest) \in Text
         /\ decode(encode([kind |-> "classic", account |-> a], t, isTest))
              = [classicAddress |-> a, tag |-> t, isTest |-> isTest]
<1> DEFINE x == XAddress(a, t, isTest)
<1>1. encode([kind |-> "classic", account |-> a], t, isTest) = x
  BY DEF encode, isValidClassicAddress
<1>2. /\ x.kind = "X" /\ x.account = a /\ x.rest = 0
      /\ x.prefix = IF isTest THEN "TEST" ELSE "MAIN"
      /\ x.flag = IF t = None THEN 0 ELSE 1
      /\ x.tag = IF t = None THEN NoTagBytes ELSE TagBytes(t)
  BY DEF XAddress
<1>3. NoTagBytes \in [1..4 -> Byte] /\ 0 \in Byte /\ 1 \in Byte
  BY CodecAssumption DEF NoTagBytes, Byte
<1>4. x.tag \in [1..4 -> Byte]
  BY <1>2, <1>3, TagOfBytes
<1>5. x \in Text
  <2>1. x.prefix \in {"MAIN", "TEST", "other"} /\ x.flag \in Byte
    BY <1>2, <1>3
  <2>2. x = [kind |-> "X", prefix |-> x.prefix, account |-> a, flag |-> x.flag,
             tag |-> x.tag, rest |-> 0]
    BY DEF XAddress
  <2> QED BY <1>3, <1>4, <2>1, <2>2 DEF Text
<1>6. isValidXAddress(x)
  BY <1>2 DEF isValidXAddress
<1>7. t # None => TagNumber(x.tag) = t
  BY <1>2, TagOfBytes
<1>8. decode(x) = [classicAddress |-> a, tag |-> t, isTest |-> isTest]
  BY <1>2, <1>6, <1>7 DEF decode
<1> QED BY <1>1, <1>5, <1>8

(* The other way round: an X-address with nothing behind its tag, once      *)
(* decoded, is encoded as the same text; a payment's destination that      *)
(* getPayment encodes for the network it was encoded for is the address    *)
(* the payment was made to.                                                *)
THEOREM EncodesAsDecoded ==
  ASSUME NEW x \in Text, isValidXAddress(x), x.rest = 0
  PROVE  encode([kind |-> "classic", account |-> decode(x).classicAddress],
                decode(x).tag, decode(x).isTest) = x
<1> DEFINE d == decode(x)
<1>1. x \in [kind: {"X"}, prefix: {"MAIN", "TEST", "other"}, account: Accounts,
              flag: Byte, tag: [1..4 -> Byte], rest: Byte]
  BY DEF Text, isValidXAddress
<1>2. /\ d.classicAddress = x.account
      /\ d.tag = IF x.flag = 1 THEN TagNumber(x.tag) ELSE None
      /\ d.isTest = (x.prefix = "TEST")
  BY DEF decode
<1>3. encode([kind |-> "classic", account |-> d.classicAddress], d.tag, d.isTest)
        = XAddress(x.account, d.tag, d.isTest)
  BY <1>2 DEF encode, isValidClassicAddress
<1>4. TagNumber(x.tag) \in Tag /\ TagBytes(TagNumber(x.tag)) = x.tag
  BY <1>1, BytesOfTag
<1>5. TagNumber(x.tag) # None
  BY <1>4, CodecAssumption DEF Tag
<1>6. x.prefix = IF d.isTest THEN "TEST" ELSE "MAIN"
  BY <1>2 DEF isValidXAddress
<1>7. /\ x.flag = IF d.tag = None THEN 0 ELSE 1
      /\ x.tag = IF d.tag = None THEN NoTagBytes ELSE TagBytes(d.tag)
  BY <1>2, <1>4, <1>5 DEF isValidXAddress
<1>8. x = [kind |-> "X", prefix |-> x.prefix, account |-> x.account, flag |-> x.flag,
           tag |-> x.tag, rest |-> x.rest]
  BY <1>1
<1> HIDE DEF d
<1>9. XAddress(x.account, d.tag, d.isTest) = x
  BY <1>6, <1>7, <1>8 DEF XAddress
<1> QED BY <1>3, <1>9 DEF d

-----------------------------------------------------------------------------
(* PayIDs, as sequences of characters.                                     *)

Character == STRING \cup {"$"}

LEMMA Characters == "$" \in Character /\ Seq(STRING) \subseteq Seq(Character)
BY SeqMonotonic DEF Character

LEMMA Least ==
  ASSUME NEW T \in SUBSET Nat, T # {}
  PROVE  \E x \in T : \A y \in T : x <= y
<1> DEFINE R == OpToRel(<, Nat)
<1>1. IsWellFoundedOn(R, Nat)
  BY NatLessThanWellFounded
<1>2. \A x \in Nat, y \in Nat : <<y, x>> \in R <=> y < x
  BY DEF OpToRel
<1> HIDE DEF R
<1>3. PICK x \in T : \A y \in T : ~ (<<y, x>> \in R)
  BY <1>1, WFMin
<1>4. ASSUME NEW y \in T PROVE x <= y
  <2>1. x \in Nat /\ y \in Nat /\ ~ (<<y, x>> \in R)
    BY <1>3
  <2>2. ~ (y < x)
    BY <1>2, <2>1, Zenon
  <2> QED BY <2>1, <2>2
<1> QED BY <1>4

(* A PayID with a dollar has a last one.                                    *)
LEMMA LastDollar ==
  ASSUME NEW payID \in Seq(Character), Dollars(payID) # {}
  PROVE  \E i \in Dollars(payID) : \A j \in Dollars(payID) : j <= i
<1> DEFINE T == {Len(payID) - i : i \in Dollars(payID)}
<1>1. Dollars(payID) \subseteq 1 .. Len(payID) /\ Len(payID) \in Nat
  BY DEF Dollars
<1>2. T \in SUBSET Nat /\ T # {}
  BY <1>1
<1>3. PICK x \in T : \A y \in T : x <= y
  BY <1>2, Least
<1>4. PICK i \in Dollars(payID) : x = Len(payID) - i
  OBVIOUS
<1>5. ASSUME NEW j \in Dollars(payID) PROVE j <= i
  <2>1. Len(payID) - i <= Len(payID) - j
    BY <1>3, <1>4
  <2> QED BY <1>1, <2>1
<1> QED BY <1>5

LEMMA WithDollar ==
  ASSUME NEW S, "$" \in S, NEW s \in Seq(S)
  PROVE  /\ s \o <<"$">> \in Seq(S) /\ Len(s) \in Nat
         /\ Len(s \o <<"$">>) = Len(s) + 1
         /\ (s \o <<"$">>)[Len(s) + 1] = "$"
         /\ \A i \in 1 .. Len(s) : (s \o <<"$">>)[i] = s[i]
<1> DEFINE t == <<"$">>
<1>1. t \in Seq(S) /\ Len(t) = 1 /\ t[1] = "$" /\ Len(s) \in Nat
  BY LenProperties
<1> HIDE DEF t
<1>2. /\ s \o t \in Seq(S)
      /\ Len(s \o t) = Len(s) + 1
      /\ \A i \in 1 .. Len(s) + 1 : (s \o t)[i] = IF i <= Len(s) THEN s[i] ELSE t[i - Len(s)]
  <2>1. /\ s \o t \in Seq(S)
        /\ Len(s \o t) = Len(s) + Len(t)
        /\ \A i \in 1 .. Len(s) + Len(t) :
             (s \o t)[i] = IF i <= Len(s) THEN s[i] ELSE t[i - Len(s)]
    BY <1>1, ConcatProperties
  <2> QED BY <1>1, <2>1
<1>3. (s \o t)[Len(s) + 1] = t[1]
  BY <1>1, <1>2
<1> QED BY <1>1, <1>2, <1>3 DEF t

(* parsePayId finds the owner of a PayID that is somebody's.                *)
LEMMA PayIDIsParsed ==
  ASSUME NEW payID \in Seq(Character), NEW o \in Owners, IsPayIDOf(payID, o)
  PROVE  parsePayID(payID) = o
<1> DEFINE n == Len(o.path) + 1
<1>1. /\ o.host \in Seq(Character) /\ o.path \in Seq(Character)
      /\ o.host # <<>> /\ o.path # <<>>
      /\ o = [host |-> o.host, path |-> o.path]
  BY DestinationAssumption, Characters DEF PayIDParts
<1>2. Len(o.host) \in Nat /\ Len(o.path) \in Nat /\ Len(o.host) > 0 /\ Len(o.path) > 0
  BY <1>1, EmptySeq, LenProperties
<1>3. payID = (o.path \o <<"$">>) \o o.host
  BY DEF IsPayIDOf
<1>4. /\ o.path \o <<"$">> \in Seq(Character)
      /\ Len(o.path \o <<"$">>) = n
      /\ (o.path \o <<"$">>)[n] = "$"
      /\ \A i \in 1 .. (n - 1) : (o.path \o <<"$">>)[i] = o.path[i]
  BY <1>1, <1>2, Characters, WithDollar
<1>4a. n \in Nat /\ n > 1 /\ n - 1 = Len(o.path)
  BY <1>2
<1> HIDE DEF n
<1>5. /\ Len(payID) = n + Len(o.host)
      /\ payID[n] = "$"
      /\ \A i \in 1 .. (n - 1) : payID[i] = o.path[i]
      /\ \A i \in (n + 1) .. Len(payID) : payID[i] = o.host[i - n]
  <2> DEFINE s == o.path \o <<"$">>
  <2> HIDE DEF s
  <2>1. payID = s \o o.host
    BY <1>3 DEF s
  <2>2. /\ s \in Seq(Character) /\ Len(s) = n /\ s[n] = "$"
        /\ \A i \in 1 .. (n - 1) : s[i] = o.path[i]
    BY <1>4 DEF s
  <2>3. /\ Len(payID) = n + Len(o.host)
        /\ \A i \in 1 .. n : payID[i] = s[i]
        /\ \A i \in (n + 1) .. Len(payID) : payID[i] = o.host[i - n]
    <3>1. /\ Len(s \o o.host) = n + Len(o.host)
          /\ \A i \in 1 .. n + Len(o.host) :
               (s \o o.host)[i] = IF i <= n THEN s[i] ELSE o.host[i - n]
      BY <1>1, <2>2, ConcatProperties
    <3> QED BY <1>2, <1>4a, <2>1, <3>1
  <2> QED BY <1>4a, <2>2, <2>3
<1>6. n \in Dollars(payID) /\ \A j \in Dollars(payID) : j <= n
  <2>1. n \in Dollars(payID)
    BY <1>2, <1>4a, <1>5 DEF Dollars
  <2>2. ASSUME NEW j \in Dollars(payID), j > n PROVE FALSE
    <3>1. j \in (n + 1) .. Len(payID) /\ payID[j] = "$"
      BY <1>2, <1>4a, <2>2 DEF Dollars
    <3>2. j - n \in 1 .. Len(o.host) /\ o.host[j - n] = "$"
      BY <1>2, <1>4a, <1>5, <3>1
    <3> QED BY <1>1, <3>2 DEF IsPayIDOf
  <2>3. Dollars(payID) \subseteq Int
    BY DEF Dollars
  <2> QED BY <1>2, <1>4a, <2>1, <2>2, <2>3
<1>7. (CHOOSE i \in Dollars(payID) : \A j \in Dollars(payID) : j <= i) = n
  <2>1. Dollars(payID) \subseteq Int
    BY DEF Dollars
  <2> QED BY <1>6, <2>1
<1>8. parsePayID(payID) = SplitAt(payID, n)
  BY <1>6, <1>7 DEF parsePayID, IsPayIDOf
<1>9. SubSeq(payID, n + 1, Len(payID)) = o.host
  <2>1. /\ SubSeq(payID, n + 1, Len(payID)) \in Seq(Character)
        /\ Len(SubSeq(payID, n + 1, Len(payID))) = Len(o.host)
    BY <1>2, <1>4a, <1>5
  <2>2. \A i \in 1 .. Len(o.host) : SubSeq(payID, n + 1, Len(payID))[i] = o.host[i]
    BY <1>2, <1>4a, <1>5
  <2> QED BY <1>1, <2>1, <2>2, SeqEqual
<1>10. SubSeq(payID, 1, n - 1) = o.path
  <2>1. /\ SubSeq(payID, 1, n - 1) \in Seq(Character)
        /\ Len(SubSeq(payID, 1, n - 1)) = Len(o.path)
    BY <1>2, <1>4a, <1>5
  <2>2. \A i \in 1 .. Len(o.path) : SubSeq(payID, 1, n - 1)[i] = o.path[i]
    BY <1>2, <1>4a, <1>5
  <2> QED BY <1>1, <2>1, <2>2, SeqEqual
<1>11. n # 1 /\ n # Len(payID)
  BY <1>2, <1>4a, <1>5
<1> QED BY <1>1, <1>8, <1>9, <1>10, <1>11 DEF SplitAt

(* What parsePayId makes of a PayID, the PayID is made of.                  *)
LEMMA ParsedIsPayID ==
  ASSUME NEW payID \in Seq(Character), NEW o \in Owners, parsePayID(payID) = o
  PROVE  IsPayIDOf(payID, o)
<1>1. o # None /\ o \in PayIDParts
  BY DestinationAssumption
<1>2. /\ \A i \in DOMAIN payID : payID[i] \notin NonASCII
      /\ Dollars(payID) # {}
  BY <1>1 DEF parsePayID
<1> DEFINE i == CHOOSE k \in Dollars(payID) : \A j \in Dollars(payID) : j <= k
<1>3. i \in Dollars(payID) /\ \A j \in Dollars(payID) : j <= i
  BY <1>2, LastDollar
<1>4. SplitAt(payID, i) = o
  BY <1>2 DEF parsePayID
<1> HIDE DEF i
<1>5. i \in 1 .. Len(payID) /\ payID[i] = "$" /\ Len(payID) \in Nat
  BY <1>3 DEF Dollars
<1>6. /\ i # 1 /\ i # Len(payID)
      /\ o.host = SubSeq(payID, i + 1, Len(payID))
      /\ o.path = SubSeq(payID, 1, i - 1)
  BY <1>1, <1>4 DEF SplitAt
<1>7. /\ o.path \in Seq(Character) /\ Len(o.path) = i - 1
      /\ \A k \in 1 .. (i - 1) : o.path[k] = payID[k]
  BY <1>5, <1>6
<1>8. /\ o.host \in Seq(Character) /\ Len(o.host) = Len(payID) - i
      /\ \A k \in 1 .. (Len(payID) - i) : o.host[k] = payID[i + k]
  BY <1>5, <1>6
<1>9. payID = (o.path \o <<"$">>) \o o.host
  <2> DEFINE s == o.path \o <<"$">>
  <2>1. /\ s \in Seq(Character) /\ Len(s) = i
        /\ s[i] = "$" /\ \A k \in 1 .. (i - 1) : s[k] = payID[k]
    BY <1>5, <1>7, Characters, WithDollar
  <2>2. \A k \in 1 .. i : s[k] = payID[k]
    BY <1>5, <2>1
  <2> HIDE DEF s
  <2>3. /\ s \o o.host \in Seq(Character) /\ Len(s \o o.host) = Len(payID)
        /\ \A k \in 1 .. i : (s \o o.host)[k] = payID[k]
        /\ \A k \in (i + 1) .. Len(payID) : (s \o o.host)[k] = o.host[k - i]
    BY <1>5, <1>8, <2>1, <2>2
  <2>4. \A k \in (i + 1) .. Len(payID) : o.host[k - i] = payID[k]
    BY <1>5, <1>8
  <2>5. \A k \in 1 .. Len(payID) : (s \o o.host)[k] = payID[k]
    BY <1>5, <2>3, <2>4
  <2>6. s \o o.host = payID
    BY <2>3, <2>5, SeqEqual
  <2> QED BY <2>6 DEF s
<1>10. ASSUME NEW k \in DOMAIN o.host PROVE o.host[k] # "$"
  <2>1. k \in 1 .. (Len(payID) - i) /\ o.host[k] = payID[i + k]
    BY <1>8
  <2>2. i + k \in DOMAIN payID /\ i + k > i
    BY <1>5, <2>1
  <2>3. payID[i + k] = "$" => i + k \in Dollars(payID)
    BY <2>2 DEF Dollars
  <2> QED BY <1>3, <1>5, <2>1, <2>2, <2>3
<1> QED BY <1>2, <1>9, <1>10 DEF IsPayIDOf
-----------------------------------------------------------------------------
(* Addresses.                                                              *)

LEMMA DecodedAddress ==
  ASSUME NEW x \in Text, isValidXAddress(x)
  PROVE  /\ decode(x) \in Decoded /\ decode(x) # None
         /\ Denotes(x, decode(x).classicAddress, decode(x).tag)
<1>1. /\ x.kind = "X" /\ x.account \in Accounts /\ x.tag \in [1..4 -> Byte]
      /\ x.flag \in {0, 1}
  BY DEF Text, isValidXAddress
<1>2. TagNumber(x.tag) \in Tag /\ TagBytes(TagNumber(x.tag)) = x.tag
  BY <1>1, BytesOfTag
<1>3. decode(x) = [classicAddress |-> x.account,
                   tag            |-> IF x.flag = 1 THEN TagNumber(x.tag) ELSE None,
                   isTest         |-> x.prefix = "TEST"]
  BY DEF decode
<1>4. decode(x) \in Decoded
  BY <1>1, <1>2, <1>3 DEF Decoded
<1> QED BY <1>1, <1>2, <1>3, <1>4, CodecAssumption DEF Denotes

LEMMA EncodedAddress ==
  ASSUME NEW text \in Text, NEW t \in Tag \cup {None}, NEW isTest \in BOOLEAN,
         isValidClassicAddress(text)
  PROVE  /\ encode(text, t, isTest) \in Text /\ encode(text, t, isTest) # None
         /\ isValidXAddress(encode(text, t, isTest))
         /\ decode(encode(text, t, isTest))
              = [classicAddress |-> text.account, tag |-> t, isTest |-> isTest]
         /\ text \in ClassicAddress
<1>1. text.account \in Accounts /\ text = [kind |-> "classic", account |-> text.account]
  BY DEF Text, isValidClassicAddress
<1>2. /\ encode(text, t, isTest) \in Text
      /\ decode(encode(text, t, isTest))
           = [classicAddress |-> text.account, tag |-> t, isTest |-> isTest]
  BY <1>1, DecodesAsEncoded
<1>3. decode(encode(text, t, isTest)) \in Decoded
  BY <1>1, <1>2 DEF Decoded
<1>4. decode(encode(text, t, isTest)) # None /\ encode(text, t, isTest) # None
  BY <1>2, <1>3, CodecAssumption
<1>5. isValidXAddress(encode(text, t, isTest))
  BY <1>4 DEF decode
<1> QED BY <1>1, <1>2, <1>4, <1>5 DEF ClassicAddress

(* toXAddress gives nothing only for an address that is none, and else an   *)
(* X-address for what the entry asks for.                                  *)
LEMMA EntryAddress ==
  ASSUME NEW entry \in Entries, toXAddress(entry) # None
  PROVE  /\ toXAddress(entry) \in Text
         /\ isValidXAddress(toXAddress(entry))
         /\ AsksFor(entry, decode(toXAddress(entry)).classicAddress,
                    decode(toXAddress(entry)).tag)
<1>1. entry.address \in Text /\ networkIsTest \in BOOLEAN
  BY DestinationAssumption
<1>2. CASE isValidXAddress(entry.address)
  <2>1. toXAddress(entry) = entry.address
    BY <1>2 DEF toXAddress
  <2>2. entry.address.kind = "X"
    BY <1>2 DEF isValidXAddress
  <2> QED BY <1>1, <1>2, <2>1, <2>2, DecodedAddress DEF AsksFor
<1>3. CASE ~ isValidXAddress(entry.address)
  <2> DEFINE t == UInt32(entry.tag)
  <2>1. toXAddress(entry) = encode(entry.address, t, networkIsTest)
    BY <1>3 DEF toXAddress
  <2>2. t \in Tag \cup {None} /\ (entry.tag \in Tag \cup {None} => t = entry.tag)
    BY DEF UInt32
  <2> HIDE DEF t
  <2>3. isValidClassicAddress(entry.address)
    BY <2>1 DEF encode
  <2>4. /\ toXAddress(entry) \in Text
        /\ isValidXAddress(toXAddress(entry))
        /\ decode(toXAddress(entry))
             = [classicAddress |-> entry.address.account, tag |-> t, isTest |-> networkIsTest]
    BY <1>1, <2>1, <2>2, <2>3, EncodedAddress
  <2> QED BY <2>2, <2>3, <2>4 DEF AsksFor, isValidClassicAddress
<1> QED BY <1>2, <1>3

LEMMA EntryRefused ==
  ASSUME NEW entry \in Entries, toXAddress(entry) = None
  PROVE  ~ isValidXAddress(entry.address) /\ ~ isValidClassicAddress(entry.address)
<1>1. entry.address \in Text /\ networkIsTest \in BOOLEAN /\ None \notin Text
  BY DestinationAssumption, CodecAssumption
<1>2. ~ isValidXAddress(entry.address)
  BY <1>1 DEF toXAddress
<1>3. UInt32(entry.tag) \in Tag \cup {None}
  BY DEF UInt32
<1> QED BY <1>1, <1>2, <1>3, EncodedAddress DEF toXAddress
-----------------------------------------------------------------------------
(* What is signed.                                                         *)

LEMMA RequestTypes ==
  ASSUME NEW r \in Requests
  PROVE  /\ r.wallet.account \in Accounts /\ r.wallet.isTest \in BOOLEAN
         /\ r.memo # None => MemoProto(fromMemoFields(r.memo)) \in Memo
         /\ r.to \in {"PayID", "address"}
         /\ r.to = "PayID" => r.payID \in Seq(Character)
         /\ r.to = "address" => r.address \in Text
<1>1. RequestOK(r)
  BY DestinationAssumption
<1>2. r.memo # None => MemoProto(fromMemoFields(r.memo)) \in Memo
  <2> SUFFICES ASSUME r.memo # None PROVE MemoProto(fromMemoFields(r.memo)) \in Memo
    OBVIOUS
  <2>1. r.memo \in [Parts -> {None} \cup MemoField]
    BY <1>1 DEF RequestOK
  <2>2. EmptyData \in Data
    BY EmptySeq DEF EmptyData, Data
  <2>3. fromMemoFields(r.memo) \in [Parts -> {None} \cup Data]
    BY <2>1, <2>2 DEF fromMemoFields, MemoField
  <2>4. \A m \in [Parts -> {None} \cup Data] : MemoProto(m) \in Memo
    BY <2>2 DEF MemoProto, Memo
  <2> QED BY <2>3, <2>4
<1> QED BY <1>1, <1>2, Characters DEF RequestOK

(* The transaction of a call.                                              *)
SignedFor(r, x) ==
    [Account        |-> [kind |-> "classic", account |-> r.wallet.account],
     Destination    |-> [kind |-> "classic", account |-> decode(x).classicAddress],
     DestinationTag |-> decode(x).tag,
     Memo           |-> IF r.memo = None THEN None ELSE MemoProto(fromMemoFields(r.memo))]

(* The address of a sender is decoded and never has a tag, so that nothing  *)
(* keeps a payment to an X-address from being signed.                      *)
LEMMA SigningWorks ==
  ASSUME NEW r \in Requests, NEW x \in Text, isValidXAddress(x)
  PROVE  /\ signTransaction([kind |-> "classic",
                            account |-> decode(walletAddress(r.wallet)).classicAddress],
                            x,
                            IF r.memo = None THEN None ELSE MemoProto(fromMemoFields(r.memo)))
              = SignedFor(r, x)
         /\ SignedFor(r, x) \in Transaction /\ SignedFor(r, x) # None
<1> DEFINE sender == [kind |-> "classic", account |-> r.wallet.account]
<1>1. r.wallet.account \in Accounts /\ r.wallet.isTest \in BOOLEAN
  BY RequestTypes
<1>2. sender \in Text /\ isValidClassicAddress(sender) /\ sender.account = r.wallet.account
  BY <1>1 DEF Text, isValidClassicAddress
<1>3. walletAddress(r.wallet) = encode(sender, None, r.wallet.isTest)
  BY <1>2 DEF walletAddress, encode
<1>4. decode(walletAddress(r.wallet)).classicAddress = r.wallet.account
  BY <1>1, <1>2, <1>3, EncodedAddress
<1>5. AccountToJSON(sender) = sender /\ sender # None
  BY <1>2, CodecAssumption DEF AccountToJSON
<1>6. /\ decode(x) # None /\ decode(x).classicAddress \in Accounts
      /\ decode(x).tag \in Tag \cup {None}
  BY DecodedAddress DEF Decoded
<1>7. /\ paymentToJSON(x).Destination = [kind |-> "classic", account |-> decode(x).classicAddress]
      /\ paymentToJSON(x).DestinationTag = decode(x).tag
  BY <1>6 DEF paymentToJSON
<1>8. SignedFor(r, x) \in Transaction
  BY <1>1, <1>6, RequestTypes DEF SignedFor, Transaction, ClassicAddress
<1> QED BY <1>4, <1>5, <1>7, <1>8, DestinationAssumption DEF signTransaction, SignedFor

LEMMA ReportType ==
  ASSUME NEW json \in Transaction
  PROVE  XRPTransaction(json) \in Report
<1>1. /\ json.Account \in Text /\ isValidClassicAddress(json.Account)
      /\ json.Destination \in Text /\ isValidClassicAddress(json.Destination)
      /\ json.DestinationTag \in Tag \cup {None} /\ json.Memo \in Memo \cup {None}
  BY DEF Transaction, ClassicAddress, Text, isValidClassicAddress
<1>2. networkIsTest \in BOOLEAN
  BY DestinationAssumption
<1>3. /\ encode(json.Account, None, networkIsTest) \in Text
      /\ encode(json.Destination, json.DestinationTag, networkIsTest) \in Text
  BY <1>1, <1>2, EncodedAddress
<1> QED BY <1>1, <1>3 DEF XRPTransaction, Report, destinationTag

(* What the owner of a PayID has published at the moment of the answer is   *)
(* what the owner parsePayId names has: all others have published nothing  *)
(* for it.                                                                 *)
LEMMA AnswerIsPublished ==
  ASSUME NEW payID \in Seq(Character), NEW dir \in [Owners -> Answers]
  PROVE  (IF parsePayID(payID) \in Owners THEN {dir[parsePayID(payID)]}
          ELSE {None, Unavailable}) \subseteq PublishedFor(payID, dir)
<1>1. CASE parsePayID(payID) \in Owners
  BY <1>1, ParsedIsPayID DEF PublishedFor
<1>2. CASE parsePayID(payID) \notin Owners
  BY <1>2, PayIDIsParsed DEF PublishedFor
<1> QED BY <1>1, <1>2

LEMMA PublishedType ==
  ASSUME NEW payID, NEW dir \in [Owners -> Answers]
  PROVE  PublishedFor(payID, dir) \subseteq Answers
BY DEF PublishedFor, Answers

(* The address of an answer that has exactly one. *)
LEMMA SingleAddress ==
  ASSUME NEW answer, Single(answer)
  PROVE  answer[1] \in Entries
BY DestinationAssumption DEF Single
-----------------------------------------------------------------------------
(* The invariant.                                                          *)

(* Where the address of a call comes from.                                 *)
Destined(c) ==
    /\ address[c] \in Text
    /\ request[c].to = "PayID" =>
         \E answer \in seen[c] : Single(answer) /\ address[c] = toXAddress(answer[1])
    /\ request[c].to = "address" => address[c] = request[c].address

(* What a call holds at each stage.                                        *)
CallInOrder(c) ==
    /\ stage[c] # "idle" => request[c] \in Requests
    /\ stage[c] = "resolving" =>
         /\ request[c].to = "PayID"
         /\ PublishedFor(request[c].payID, directory) \subseteq seen[c]
    /\ stage[c] \in {"paying", "submitted"} \cup Paid => Destined(c)
    /\ stage[c] \in {"submitted"} \cup Paid =>
         /\ isValidXAddress(address[c])
         /\ signed[c] = SignedFor(request[c], address[c])
    /\ stage[c] = "reported" => report[c] = XRPTransaction(signed[c])

DestinationInv ==
    /\ DestinationTypeOK
    /\ RefusalIsDeserved
    /\ \A c \in Calls : CallInOrder(c)

LEMMA DestinationInvInit == DestinationInit => DestinationInv
<1> SUFFICES ASSUME DestinationInit PROVE DestinationInv
  OBVIOUS
<1>1. DestinationTypeOK
  BY DestinationAssumption DEF DestinationInit, DestinationTypeOK, Answers
<1>2. RefusalIsDeserved
  BY DEF DestinationInit, RefusalIsDeserved
<1>3. ASSUME NEW c \in Calls PROVE CallInOrder(c)
  BY DEF DestinationInit, CallInOrder, Paid
<1> QED BY <1>1, <1>2, <1>3 DEF DestinationInv

(* A refused call, of the conjuncts of RefusalIsDeserved.                   *)
Refused(c) ==
    /\ stage[c] = "invalidPayID" => \A o \in Owners : ~ IsPayIDOf(request[c].payID, o)
    /\ stage[c] = "mappingNotFound" => None \in seen[c]
    /\ stage[c] = "unexpectedResponse" =>
         \E answer \in seen[c] \ {None} :
           Single(answer) => /\ ~ isValidXAddress(answer[1].address)
                             /\ ~ isValidClassicAddress(answer[1].address)
    /\ stage[c] = "invalidInputs" =>
         /\ request[c].to = "address"
         /\ ~ isValidXAddress(request[c].address)
    /\ stage[c] # "signingError"

(* A step leaves alone what it does not change of a call.                   *)
LEMMA OthersInOrder ==
  ASSUME NEW c \in Calls, CallInOrder(c), Refused(c), UNCHANGED directory,
         stage'[c] = stage[c], request'[c] = request[c], address'[c] = address[c],
         signed'[c] = signed[c], report'[c] = report[c], seen'[c] = seen[c]
  PROVE  CallInOrder(c)' /\ Refused(c)'
BY DEF CallInOrder, Refused, Destined

LEMMA PublishKeeps ==
  ASSUME DestinationInv, NEW o \in Owners, NEW answer \in Answers, Publish(o, answer)
  PROVE  DestinationInv'
<1>1. directory' \in [Owners -> Answers]
  BY DEF DestinationInv, DestinationTypeOK, Publish
<1>2. \A c \in Calls : PublishedFor(request[c].payID, directory') \subseteq Answers
  BY <1>1, PublishedType
<1>3. /\ seen' \in [Calls -> SUBSET Answers]
      /\ \A c \in Calls : seen'[c] = IF stage[c] = "resolving"
                                     THEN seen[c] \cup PublishedFor(request[c].payID, directory')
                                     ELSE seen[c]
  BY <1>2 DEF DestinationInv, DestinationTypeOK, Publish
<1>4. DestinationTypeOK'
  <2>1. published' \in 0 .. MaxPublished
    BY DestinationAssumption DEF DestinationInv, DestinationTypeOK, Publish
  <2> QED BY <1>1, <1>3, <2>1 DEF DestinationInv, DestinationTypeOK, Publish
<1>5. RefusalIsDeserved'
  BY <1>3 DEF DestinationInv, RefusalIsDeserved, Publish
<1>6. ASSUME NEW c \in Calls PROVE CallInOrder(c)'
  BY <1>3 DEF DestinationInv, CallInOrder, Destined, Publish, Paid
<1> QED BY <1>4, <1>5, <1>6 DEF DestinationInv

(* A step of one call leaves the other calls alone.                         *)
OneCall(c) ==
    /\ UNCHANGED directory
    /\ \A d \in Calls \ {c} :
         /\ stage'[d] = stage[d] /\ request'[d] = request[d] /\ address'[d] = address[d]
         /\ signed'[d] = signed[d] /\ report'[d] = report[d] /\ seen'[d] = seen[d]

LEMMA OneCallKeeps ==
  ASSUME DestinationInv, NEW c \in Calls, OneCall(c),
         DestinationTypeOK', Refused(c)', CallInOrder(c)'
  PROVE  DestinationInv'
<1>1. ASSUME NEW d \in Calls, d # c PROVE Refused(d)' /\ CallInOrder(d)'
  <2>1. Refused(d) /\ CallInOrder(d)
    BY DEF DestinationInv, RefusalIsDeserved, Refused
  <2> QED BY <1>1, <2>1, OthersInOrder DEF OneCall
<1>2. RefusalIsDeserved'
  BY <1>1 DEF RefusalIsDeserved, Refused
<1> QED BY <1>1, <1>2 DEF DestinationInv

LEMMA sendToPayIDKeeps ==
  ASSUME DestinationInv, NEW c \in Calls, sendToPayID(c)
  PROVE  DestinationInv'
<1>1. PICK r \in Requests :
        /\ r.to = "PayID"
        /\ request' = [request EXCEPT ![c] = r]
        /\ stage' = [stage EXCEPT ![c] =
                       IF parsePayID(r.payID) = None THEN "invalidPayID" ELSE "resolving"]
        /\ seen' = [seen EXCEPT ![c] = PublishedFor(r.payID, directory)]
        /\ UNCHANGED <<directory, published, address, signed, report>>
  BY DEF sendToPayID
<1>2. r.payID \in Seq(Character)
  BY <1>1, RequestTypes
<1>3. PublishedFor(r.payID, directory) \subseteq Answers
  BY PublishedType DEF DestinationInv, DestinationTypeOK
<1>4. DestinationTypeOK'
  BY <1>1, <1>3 DEF DestinationInv, DestinationTypeOK, Errors
<1>5. /\ request'[c] = r /\ seen'[c] = PublishedFor(r.payID, directory)
      /\ stage'[c] = IF parsePayID(r.payID) = None THEN "invalidPayID" ELSE "resolving"
  BY <1>1 DEF DestinationInv, DestinationTypeOK
<1>6. parsePayID(r.payID) = None => \A o \in Owners : ~ IsPayIDOf(r.payID, o)
  BY <1>2, PayIDIsParsed, DestinationAssumption
<1>7. Refused(c)' /\ CallInOrder(c)'
  BY <1>1, <1>5, <1>6 DEF Refused, CallInOrder, Paid
<1>8. OneCall(c)
  BY <1>1 DEF DestinationInv, DestinationTypeOK, OneCall
<1> QED BY <1>4, <1>7, <1>8, OneCallKeeps

LEMMA xrpAddressKeeps ==
  ASSUME DestinationInv, NEW c \in Calls, xrpAddress(c)
  PROVE  DestinationInv'
<1>1. /\ stage[c] = "resolving"
      /\ UNCHANGED <<directory, published, request, signed, report, seen>>
  BY DEF xrpAddress
<1>2. /\ request[c] \in Requests /\ request[c].to = "PayID"
      /\ PublishedFor(request[c].payID, directory) \subseteq seen[c]
      /\ directory \in [Owners -> Answers]
  BY <1>1 DEF DestinationInv, DestinationTypeOK, CallInOrder
<1>3. request[c].payID \in Seq(Character)
  BY <1>2, RequestTypes
<1>4. PICK answer \in seen[c] :
        LET x == IF Single(answer) THEN toXAddress(answer[1]) ELSE None IN
          /\ address' = [address EXCEPT ![c] = x]
          /\ stage' = [stage EXCEPT ![c] = IF answer = None THEN "mappingNotFound"
                                           ELSE IF x = None THEN "unexpectedResponse"
                                           ELSE "paying"]
  BY <1>2, <1>3, AnswerIsPublished DEF xrpAddress, AnswersOf
<1> DEFINE x == IF Single(answer) THEN toXAddress(answer[1]) ELSE None
<1>5. /\ x # None => Single(answer) /\ x = toXAddress(answer[1]) /\ x \in Text
      /\ (Single(answer) /\ x = None) => /\ ~ isValidXAddress(answer[1].address)
                                        /\ ~ isValidClassicAddress(answer[1].address)
      /\ answer = None => x = None
  BY SingleAddress, EntryAddress, EntryRefused, DestinationAssumption DEF Single
<1>6. /\ address' = [address EXCEPT ![c] = x]
      /\ stage' = [stage EXCEPT ![c] = IF answer = None THEN "mappingNotFound"
                                       ELSE IF x = None THEN "unexpectedResponse"
                                       ELSE "paying"]
  BY <1>4
<1> HIDE DEF x
<1>7. DestinationTypeOK'
  BY <1>1, <1>5, <1>6 DEF DestinationInv, DestinationTypeOK, Errors
<1>8. /\ address'[c] = x
      /\ stage'[c] = IF answer = None THEN "mappingNotFound"
                     ELSE IF x = None THEN "unexpectedResponse" ELSE "paying"
      /\ request'[c] = request[c] /\ seen'[c] = seen[c]
  BY <1>1, <1>6 DEF DestinationInv, DestinationTypeOK
<1>9. Refused(c)'
  BY <1>4, <1>5, <1>8 DEF Refused
<1>10. CallInOrder(c)'
  BY <1>2, <1>4, <1>5, <1>8 DEF CallInOrder, Destined, Paid
<1>11. OneCall(c)
  BY <1>1, <1>6 DEF DestinationInv, DestinationTypeOK, OneCall
<1> QED BY <1>7, <1>9, <1>10, <1>11, OneCallKeeps

LEMMA sendToAddressKeeps ==
  ASSUME DestinationInv, NEW c \in Calls, sendToAddress(c)
  PROVE  DestinationInv'
<1>1. PICK r \in Requests :
        /\ r.to = "address"
        /\ request' = [request EXCEPT ![c] = r]
        /\ address' = [address EXCEPT ![c] = r.address]
        /\ stage' = [stage EXCEPT ![c] = "paying"]
        /\ UNCHANGED <<directory, published, signed, report, seen>>
  BY DEF sendToAddress
<1>2. r.address \in Text
  BY <1>1, RequestTypes
<1>3. DestinationTypeOK'
  BY <1>1, <1>2 DEF DestinationInv, DestinationTypeOK
<1>4. request'[c] = r /\ stage'[c] = "paying" /\ address'[c] = r.address
  BY <1>1 DEF DestinationInv, DestinationTypeOK
<1>5. Refused(c)' /\ CallInOrder(c)'
  BY <1>1, <1>2, <1>4 DEF Refused, CallInOrder, Destined, Paid
<1>6. OneCall(c)
  BY <1>1 DEF DestinationInv, DestinationTypeOK, OneCall
<1> QED BY <1>3, <1>5, <1>6, OneCallKeeps

LEMMA sendWithDetailsKeeps ==
  ASSUME DestinationInv, NEW c \in Calls, sendWithDetails(c)
  PROVE  DestinationInv'
<1> DEFINE r == request[c]
           x == address[c]
<1>1. /\ stage[c] = "paying" /\ r \in Requests /\ x \in Text /\ Destined(c)
  BY DEF sendWithDetails, DestinationInv, CallInOrder, Destined
<1>2. CASE decode(x) = None
  <2>1. /\ stage' = [stage EXCEPT ![c] = "invalidInputs"]
        /\ UNCHANGED <<directory, published, request, address, signed, report, seen>>
    BY <1>2 DEF sendWithDetails
  <2>2. DestinationTypeOK'
    BY <2>1 DEF DestinationInv, DestinationTypeOK, Errors
  <2>3. ~ isValidXAddress(x)
    BY <1>1, <1>2, DecodedAddress
  <2>4. r.to = "address" /\ x = r.address
    <3>1. ASSUME r.to = "PayID" PROVE FALSE
      <4>1. PICK answer \in seen[c] : Single(answer) /\ x = toXAddress(answer[1])
        BY <1>1, <3>1 DEF Destined
      <4>2. answer[1] \in Entries /\ x # None
        BY <1>1, <4>1, SingleAddress, CodecAssumption
      <4> QED BY <2>3, <4>1, <4>2, EntryAddress
    <3> QED BY <1>1, <3>1, RequestTypes DEF Destined
  <2>5. stage'[c] = "invalidInputs" /\ request'[c] = r
    BY <2>1 DEF DestinationInv, DestinationTypeOK
  <2>6. Refused(c)' /\ CallInOrder(c)'
    BY <1>1, <2>3, <2>4, <2>5 DEF Refused, CallInOrder, Paid
  <2>7. OneCall(c)
    BY <2>1 DEF DestinationInv, DestinationTypeOK, OneCall
  <2> QED BY <2>2, <2>6, <2>7, OneCallKeeps
<1>3. CASE decode(x) # None
  <2>1. isValidXAddress(x)
    BY <1>3 DEF decode
  <2>2. /\ signed' = [signed EXCEPT ![c] = SignedFor(r, x)]
        /\ stage' = [stage EXCEPT ![c] = "submitted"]
        /\ UNCHANGED <<directory, published, request, address, report, seen>>
        /\ SignedFor(r, x) \in Transaction
    BY <1>1, <1>3, <2>1, SigningWorks DEF sendWithDetails
  <2>3. DestinationTypeOK'
    BY <2>2 DEF DestinationInv, DestinationTypeOK
  <2>4. /\ stage'[c] = "submitted" /\ signed'[c] = SignedFor(r, x)
        /\ request'[c] = r /\ address'[c] = x /\ seen'[c] = seen[c]
    BY <2>2 DEF DestinationInv, DestinationTypeOK
  <2>5. Refused(c)' /\ CallInOrder(c)'
    BY <1>1, <2>1, <2>4 DEF Refused, CallInOrder, Destined, Paid
  <2>6. OneCall(c)
    BY <2>2 DEF DestinationInv, DestinationTypeOK, OneCall
  <2> QED BY <2>3, <2>5, <2>6, OneCallKeeps
<1> QED BY <1>2, <1>3

LEMMA RequestErrorKeeps ==
  ASSUME DestinationInv, NEW c \in Calls, RequestError(c)
  PROVE  DestinationInv'
<1>1. DestinationTypeOK'
  BY DEF DestinationInv, DestinationTypeOK, RequestError, Errors
<1>2. stage'[c] = "unknown" /\ request'[c] = request[c] /\ stage[c] # "idle"
  BY DEF DestinationInv, DestinationTypeOK, RequestError
<1>3. Refused(c)' /\ CallInOrder(c)'
  BY <1>2 DEF DestinationInv, Refused, CallInOrder, Paid
<1>4. OneCall(c)
  BY DEF DestinationInv, DestinationTypeOK, OneCall, RequestError
<1> QED BY <1>1, <1>3, <1>4, OneCallKeeps

LEMMA ValidateKeeps ==
  ASSUME DestinationInv, NEW c \in Calls, Validate(c)
  PROVE  DestinationInv'
<1>1. DestinationTypeOK'
  BY DEF DestinationInv, DestinationTypeOK, Validate, Paid
<1>2. /\ stage'[c] = "validated" /\ stage[c] = "submitted"
      /\ UNCHANGED <<directory, request, address, signed, report, seen>>
  BY DEF DestinationInv, DestinationTypeOK, Validate
<1>3. Refused(c)' /\ CallInOrder(c)'
  BY <1>2 DEF DestinationInv, Refused, CallInOrder, Destined, Paid
<1>4. OneCall(c)
  BY DEF DestinationInv, DestinationTypeOK, OneCall, Validate
<1> QED BY <1>1, <1>3, <1>4, OneCallKeeps

LEMMA getPaymentKeeps ==
  ASSUME DestinationInv, NEW c \in Calls, getPayment(c)
  PROVE  DestinationInv'
<1>1. /\ stage[c] = "validated"
      /\ request[c] \in Requests /\ address[c] \in Text /\ isValidXAddress(address[c])
      /\ signed[c] = SignedFor(request[c], address[c])
  BY DEF getPayment, DestinationInv, CallInOrder, Destined, Paid
<1>2. XRPTransaction(signed[c]) \in Report
  BY <1>1, SigningWorks, ReportType
<1>3. DestinationTypeOK'
  BY <1>2 DEF DestinationInv, DestinationTypeOK, getPayment, Paid
<1>4. /\ stage'[c] = "reported" /\ report'[c] = XRPTransaction(signed[c])
      /\ UNCHANGED <<directory, request, address, signed, seen>>
  BY DEF DestinationInv, DestinationTypeOK, getPayment
<1>5. Refused(c)' /\ CallInOrder(c)'
  BY <1>1, <1>4 DEF DestinationInv, Refused, CallInOrder, Destined, Paid
<1>6. OneCall(c)
  BY DEF DestinationInv, DestinationTypeOK, OneCall, getPayment
<1> QED BY <1>3, <1>5, <1>6, OneCallKeeps

LEMMA StutterKeeps == DestinationInv /\ UNCHANGED vars => DestinationInv'
<1> SUFFICES ASSUME DestinationInv, UNCHANGED vars PROVE DestinationInv'
  OBVIOUS
<1>1. DestinationTypeOK'
  BY DEF DestinationInv, DestinationTypeOK, vars
<1>2. RefusalIsDeserved'
  BY DEF DestinationInv, RefusalIsDeserved, vars
<1>3. ASSUME NEW c \in Calls PROVE CallInOrder(c)'
  BY DEF DestinationInv, CallInOrder, Destined, vars
<1> QED BY <1>1, <1>2, <1>3 DEF DestinationInv

LEMMA DestinationInvNext == DestinationInv /\ [DestinationNext]_vars => DestinationInv'
<1> SUFFICES ASSUME DestinationInv, [DestinationNext]_vars PROVE DestinationInv'
  OBVIOUS
<1>1. CASE \E o \in Owners, answer \in Answers : Publish(o, answer)
  BY <1>1, PublishKeeps
<1>2. ASSUME NEW c \in Calls,
             \/ sendToPayID(c) \/ xrpAddress(c) \/ sendToAddress(c) \/ sendWithDetails(c)
             \/ RequestError(c) \/ Validate(c) \/ getPayment(c)
      PROVE  DestinationInv'
  BY <1>2, sendToPayIDKeeps, xrpAddressKeeps, sendToAddressKeeps, sendWithDetailsKeeps,
     RequestErrorKeeps, ValidateKeeps, getPaymentKeeps
<1>3. CASE UNCHANGED vars
  BY <1>3, StutterKeeps
<1> QED BY <1>1, <1>2, <1>3 DEF DestinationNext

LEMMA DestinationInvHolds == DestinationSpec => []DestinationInv
<1> QED BY DestinationInvInit, DestinationInvNext, PTL DEF DestinationSpec
-----------------------------------------------------------------------------
(* What the invariant says of the properties.                              *)

LEMMA InvPaidAsPublished == DestinationInv => PaidAsPublished
<1> SUFFICES ASSUME DestinationInv, NEW c \in Calls,
                    stage[c] \in Paid, request[c].to = "PayID"
             PROVE  \E answer \in seen[c] :
                      /\ Single(answer)
                      /\ AsksFor(answer[1], signed[c].Destination.account,
                                 signed[c].DestinationTag)
  BY DEF PaidAsPublished
<1>1. /\ Destined(c) /\ address[c] \in Text
      /\ signed[c] = SignedFor(request[c], address[c])
  BY DEF DestinationInv, CallInOrder, Destined
<1>2. PICK answer \in seen[c] : Single(answer) /\ address[c] = toXAddress(answer[1])
  BY <1>1 DEF Destined
<1>3. answer[1] \in Entries
  BY <1>2, SingleAddress
<1>4. toXAddress(answer[1]) # None
  BY <1>1, <1>2, CodecAssumption
<1>5. AsksFor(answer[1], decode(address[c]).classicAddress, decode(address[c]).tag)
  BY <1>2, <1>3, <1>4, EntryAddress
<1>6. /\ signed[c].Destination.account = decode(address[c]).classicAddress
      /\ signed[c].DestinationTag = decode(address[c]).tag
  BY <1>1 DEF SignedFor
<1> QED BY <1>2, <1>5, <1>6

LEMMA InvReadsBackAsSent == DestinationInv => ReadsBackAsSent
<1> SUFFICES ASSUME DestinationInv, NEW c \in Calls, stage[c] = "reported"
             PROVE
               LET d == decode(report[c].destinationXAddress)
                   s == decode(report[c].sourceXAddress) IN
                 /\ d.isTest = networkIsTest /\ Denotes(address[c], d.classicAddress, d.tag)
                 /\ s = [classicAddress |-> request[c].wallet.account, tag |-> None,
                         isTest |-> networkIsTest]
                 /\ (decode(address[c]).isTest = networkIsTest /\ address[c].rest = 0) =>
                      report[c].destinationXAddress = address[c]
                 /\ request[c].memo # None =>
                      \A p \in Parts :
                        LET field == request[c].memo[p] IN
                        report[c].memo[p] = IF field = None THEN EmptyData
                                            ELSE IF field.bytes = None THEN EmptyData
                                            ELSE field.bytes
  BY DEF ReadsBackAsSent
<1> DEFINE r == request[c]
           x == address[c]
           to == [kind |-> "classic", account |-> decode(x).classicAddress]
           by == [kind |-> "classic", account |-> r.wallet.account]
<1>1. /\ r \in Requests /\ x \in Text /\ isValidXAddress(x)
      /\ signed[c] = SignedFor(r, x)
      /\ report[c] = XRPTransaction(signed[c])
  BY DEF DestinationInv, CallInOrder, Destined, Paid
<1>2. /\ report[c].destinationXAddress = encode(to, decode(x).tag, networkIsTest)
      /\ report[c].sourceXAddress = encode(by, None, networkIsTest)
      /\ report[c].memo = IF r.memo = None THEN None
                          ELSE MemoProto(fromMemoFields(r.memo))
  BY <1>1 DEF SignedFor, XRPTransaction, destinationTag
<1>3. /\ decode(x).classicAddress \in Accounts /\ decode(x).tag \in Tag \cup {None}
      /\ Denotes(x, decode(x).classicAddress, decode(x).tag)
  BY <1>1, DecodedAddress DEF Decoded
<1>4. networkIsTest \in BOOLEAN /\ r.wallet.account \in Accounts
  BY <1>1, RequestTypes, DestinationAssumption
<1>5. decode(report[c].destinationXAddress)
        = [classicAddress |-> decode(x).classicAddress, tag |-> decode(x).tag,
           isTest |-> networkIsTest]
  BY <1>2, <1>3, <1>4, DecodesAsEncoded
<1>6. decode(report[c].sourceXAddress)
        = [classicAddress |-> r.wallet.account, tag |-> None, isTest |-> networkIsTest]
  BY <1>2, <1>4, DecodesAsEncoded
<1>7. (decode(x).isTest = networkIsTest /\ x.rest = 0) => report[c].destinationXAddress = x
  BY <1>1, <1>2, EncodesAsDecoded
<1>8. ASSUME r.memo # None, NEW p \in Parts
      PROVE  report[c].memo[p] = IF r.memo[p] = None THEN EmptyData
                                 ELSE IF r.memo[p].bytes = None THEN EmptyData
                                 ELSE r.memo[p].bytes
  BY <1>2, <1>8 DEF MemoProto, fromMemoFields
<1> HIDE DEF r, x
<1> QED BY <1>3, <1>5, <1>6, <1>7, <1>8 DEF r, x
-----------------------------------------------------------------------------
(* Theorems.                                                               *)

(* What is signed has the classic address and the UInt32 tag of its         *)
(* destination, in every step of every call.                               *)
THEOREM DestinationTypeCorrect == DestinationSpec => []DestinationTypeOK
<1>1. DestinationInv => DestinationTypeOK
  BY DEF DestinationInv
<1> QED BY <1>1, DestinationInvHolds, PTL

(* A validated payment to a PayID went to the account and tag its owner     *)
(* had published between the call and the answer of the PayID's server.    *)
THEOREM DestinationPublished == DestinationSpec => []PaidAsPublished
<1> QED BY DestinationInvHolds, InvPaidAsPublished, PTL

(* getPayment tells sender, destination, tag and memo of a payment as they  *)
(* were given to sendWithDetails.                                          *)
THEOREM DestinationReadsBack == DestinationSpec => []ReadsBackAsSent
<1> QED BY DestinationInvHolds, InvReadsBackAsSent, PTL

(* The errors of sendWithDetails, xrpAddress and parsePayId are deserved,   *)
(* also when a server is unavailable or answers with several addresses,     *)
(* and a payment to an address that was accepted can be signed.            *)
THEOREM RefusalDeserved == DestinationSpec => []RefusalIsDeserved
<1>1. DestinationInv => RefusalIsDeserved
  BY DEF DestinationInv
<1> QED BY <1>1, DestinationInvHolds, PTL
=============================================================================
