---------------------------- MODULE MCDestination ----------------------------
(* A small instance of PaymentDestination for TLC: bytes of three values,  *)
(* so that tags go from 0 to 80.                                           *)
EXTENDS PaymentDestination, TLC

CONSTANTS a1, a2, NotANumber

X(prefix, flag, tag, rest) ==
    [kind |-> "X", prefix |-> prefix, account |-> a1, flag |-> flag, tag |-> tag, rest |-> rest]
Classic == [kind |-> "classic", account |-> a1]
Malformed == [kind |-> "malformed"]
Zero == <<0, 0, 0, 0>>

(* No tag; the tag 0; one of different bytes, with bytes behind it; and     *)
(* addresses of the other network, an unknown one, a later version, and    *)
(* with bytes where there is no tag.                                       *)
Addresses ==
    { X("TEST", 0, Zero, 0), X("TEST", 1, Zero, 0), X("TEST", 1, <<1, 2, 0, 1>>, 1),
      X("MAIN", 1, <<2, 0, 0, 0>>, 0), X("other", 0, Zero, 0), X("TEST", 2, Zero, 0),
      X("TEST", 0, <<0, 1, 0, 0>>, 0), Classic, Malformed }

Entry(text, tag) == [address |-> text, tag |-> tag]

(* The tags in text include the least and the greatest tag, the number      *)
(* after it, and no number; an X-address may come with a tag beside it.    *)
EntriesMC ==
    { Entry(a, None) : a \in { X("TEST", 1, Zero, 0), X("MAIN", 1, <<2, 0, 0, 0>>, 0),
                               X("TEST", 2, Zero, 0), X("other", 0, Zero, 0), Classic,
                               Malformed } }
      \cup { Entry(Classic, t) : t \in {0, 5, 80, 81, NotANumber} }
      \cup { Entry(X("TEST", 1, <<1, 2, 0, 1>>, 0), 7) }

(* One address, none, or two that differ in their tag only.                *)
ListingsMC ==
    { <<e>> : e \in EntriesMC } \cup { <<>>, <<Entry(Classic, 5), Entry(Classic, None)>> }

(* a$h and a$b$h, which hold one dollar and two.                           *)
OwnersMC == { [host |-> <<"h">>, path |-> <<"a">>],
              [host |-> <<"h">>, path |-> <<"a", "$", "b">>] }
PayIDs == { <<"a", "$", "h">>, <<"a", "$", "b", "$", "h">>, <<"a", "$", "n">>,
            <<"a", "h">>, <<"a", "$">>, <<"$", "h">>, <<"a", "e'", "$", "h">> }

Field(isHex, bytes) == [isHex |-> isHex, bytes |-> bytes]
MemoMC == [p \in Parts |-> CASE p = "data" -> Field(FALSE, <<1>>)
                             [] p = "format" -> Field(TRUE, None)
                             [] p = "type" -> Field(TRUE, <<2>>)]
MemoNoType == [MemoMC EXCEPT !["type"] = None, !["format"] = Field(TRUE, <<3, 3>>)]

Wallet(isTest) == [account |-> a2, isTest |-> isTest]
RequestsMC ==
    { [to |-> "PayID", payID |-> p, address |-> None, wallet |-> Wallet(TRUE), memo |-> None]
        : p \in PayIDs }
      \cup { [to |-> "address", payID |-> None, address |-> a, wallet |-> Wallet(FALSE),
              memo |-> MemoMC] : a \in Addresses }
      \cup { [to |-> "PayID", payID |-> <<"a", "$", "h">>, address |-> None,
              wallet |-> Wallet(TRUE), memo |-> MemoNoType] }

CallSymmetry == Permutations(Calls)
=============================================================================
