---------------------------- MODULE MCStreaming ----------------------------
(***************************************************************************)
(* Instances of Streaming for TLC: events of one ledger on one day, so     *)
(* that they meet in the same aggregate rows.                              *)
(***************************************************************************)
EXTENDS Streaming, TLC

Dr(a, n) == [account |-> a, debit |-> n, credit |-> 0]
Cr(a, n) == [account |-> a, debit |-> 0, credit |-> n]

\* Cash moves, against rent or, split over two entries, against fees.
Small == <<Dr("cash", 1), Cr("rent", 1)>>
Split == <<Dr("cash", 1), Dr("cash", 1), Cr("fees", 2)>>
\* With MaxNumeric = 4 two split postings on one day overflow.
AllPostings == [Event -> {Small, Split}]
LateSplit == {p \in AllPostings : p[2] = Split}

\* One failure at any time, or two as long as the second event is not posted.
OneFault == [posted \in SUBSET Event |-> 1]
TwoFaultsOrEvents == [posted \in SUBSET Event |-> IF 2 \in posted THEN 0 ELSE 2]

MCLedgerOf == <<"L", "L">>
MCDayOf == <<"mon", "mon">>
MCRow == [table : {"account"}, id : {"cash", "rent", "fees"}, day : {"mon"}]
         \cup [table : {"ledger"}, id : {"L"}, day : {"mon", "tue"}]

\* The rows that overflow first.
CashRows == {[table |-> "account", id |-> "cash", day |-> "mon"],
             [table |-> "ledger", id |-> "L", day |-> "mon"]}

Symmetry == Permutations(Publisher) \cup Permutations(Consumer)
=============================================================================
