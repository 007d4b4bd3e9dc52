------------------------------ MODULE MCQueries ------------------------------
(* A small instance of AccountQueries for TLC: two accounts, and            *)
(* transactions that differ in what the conversions tell apart.             *)
EXTENDS AccountQueries

CONSTANTS a1, a2

CallSymmetry == Permutations(Calls)

Drops ==
  [hash |-> <<10, 1>>, transactionData |-> "payment",
   account |-> a1, sourceTag |-> 7, destination |-> a2, destinationTag |-> None,
   amount |-> "drops", deliverMin |-> None, sendMax |-> None,
   delivered |-> "drops", date |-> 5, fields |-> {"flags", "memos"}]

(* An issued amount, paid with at most some drops and partially delivered. *)
Issued ==
  [Drops EXCEPT !.hash = <<161, 0>>, !.account = a2, !.destination = a1,
                !.amount = "issuedInteger", !.deliverMin = "issuedInteger",
                !.sendMax = "drops", !.delivered = "issuedDecimal",
                !.fields = {"invoiceID", "paths", "signers"}]

(* Its minimum to deliver is no integer. *)
Decimal ==
  [Drops EXCEPT !.hash = <<1, 10>>, !.amount = "issuedInteger",
                !.deliverMin = "issuedDecimal", !.delivered = "unset"]

Settings == [Drops EXCEPT !.hash = <<0, 0>>, !.transactionData = "other"]

MCTransactions == {Drops, Issued, Decimal, Settings}

(* The hashes, in either case, and texts that are not hexadecimal: of odd   *)
(* length, without any digit, with a pair that does not convert, signed.    *)
MCTexts ==
  {<<"0", "A", "0", "1">>, <<"a", "1", "0", "0">>, <<"0", "1", "0", "A">>,
   <<"0", "0", "0", "0">>, <<"0", "A", "1">>, <<"Z", "Z">>,
   <<"0", "A", "0", "1", "Z", "Z">>, <<"+", "A", "0", "1">>}
=============================================================================
