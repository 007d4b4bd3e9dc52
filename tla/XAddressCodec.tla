---------------------------- MODULE XAddressCodec ----------------------------
(***************************************************************************)
(* X-addresses, as Utils.encode and Utils.decode make and read them with   *)
(* the bundled JavaScript.                                                 *)
(*                                                                         *)
(* An address is a text.  An X-address is a checksummed base-58 text of 31 *)
(* bytes: a prefix of two that names the network, the account's 20, a flag *)
(* that says whether there is a tag, the tag in four, lowest first, and    *)
(* four more.  A text is here what its checksummed bytes are: the base-58  *)
(* digits themselves are left out.                                         *)
(***************************************************************************)
EXTENDS Integers

CONSTANTS ByteValues,   \* how many values a byte has: 256 in the code
          Accounts,     \* account IDs
          None          \* nil, undefined; and false where the codec has no tag

Byte == 0 .. (ByteValues - 1)
MaxTag == ByteValues * ByteValues * ByteValues * ByteValues - 1
Tag == 0 .. MaxTag                 \* UInt32

(* The texts given as an address: with the bytes of an X-address, correct   *)
(* or not ("rest" stands for the last four), a classic address, or neither. *)
Text ==
    [kind: {"X"}, prefix: {"MAIN", "TEST", "other"}, account: Accounts,
     flag: Byte, tag: [1..4 -> Byte], rest: Byte]
      \cup [kind: {"classic"}, account: Accounts]
      \cup [kind: {"malformed"}]

Decoded == [classicAddress: Accounts, tag: Tag \cup {None}, isTest: BOOLEAN]

ASSUME CodecAssumption == /\ ByteValues \in Nat
                          /\ ByteValues >= 2
                          /\ None \notin Int
                          /\ None \notin Text \cup Decoded

(* 255&r, r>>8&255, r>>16&255, r>>24&255                                   *)
TagBytes(n) == <<n % ByteValues,
                 (n \div ByteValues) % ByteValues,
                 (n \div (ByteValues * ByteValues)) % ByteValues,
                 (n \div (ByteValues * ByteValues * ByteValues)) % ByteValues>>

(* e[23]+256*e[24]+65536*e[25]+16777216*e[26]                              *)
TagNumber(bytes) == bytes[1]
                      + ByteValues * bytes[2]
                      + ByteValues * ByteValues * bytes[3]
                      + ByteValues * ByteValues * ByteValues * bytes[4]

NoTagBytes == <<0, 0, 0, 0>>

isValidClassicAddress(text) == text.kind = "classic"

(* The codec's own decoding does not throw.  Behind the tag of an address   *)
(* that has one, nothing is looked at.                                     *)
isValidXAddress(text) ==
    /\ text.kind = "X"
    /\ text.prefix \in {"MAIN", "TEST"}
    /\ text.flag \in {0, 1}
    /\ text.flag = 0 => text.tag = NoTagBytes /\ text.rest = 0

XAddress(account, tag, isTest) ==
    [kind    |-> "X",
     prefix  |-> IF isTest THEN "TEST" ELSE "MAIN",
     account |-> account,
     flag    |-> IF tag = None THEN 0 ELSE 1,
     tag     |-> IF tag = None THEN NoTagBytes ELSE TagBytes(tag),
     rest    |-> 0]

(* Utils.encode(classicAddress:tag:isTest:), for a tag that is a UInt32 or  *)
(* nil.                                                                    *)
encode(text, tag, isTest) ==
    IF isValidClassicAddress(text) THEN XAddress(text.account, tag, isTest) ELSE None

(* Utils.decode(xAddress:)                                                 *)
decode(text) ==
    IF isValidXAddress(text)
      THEN [classicAddress |-> text.account,
            tag            |-> IF text.flag = 1 THEN TagNumber(text.tag) ELSE None,
            isTest         |-> text.prefix = "TEST"]
      ELSE None
=============================================================================
