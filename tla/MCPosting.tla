----------------------------- MODULE MCPosting -----------------------------
(***************************************************************************)
(* Instances of Posting for TLC.  Accounts 1 (cash), 2 (capital) and 3     *)
(* (rent) live in the default ledger, 4 (till) and 5 (shares) in ledger    *)
(* "B"; 9 is an ID that does not parse.                                    *)
(***************************************************************************)
EXTENDS PostingRefinement, TLC

Chart == <<[ledger |-> "nil", name |-> "cash",    type |-> "asset"],
           [ledger |-> "nil", name |-> "capital", type |-> "equity"],
           [ledger |-> "nil", name |-> "rent",    type |-> "expense"],
           [ledger |-> "B",   name |-> "till",    type |-> "asset"],
           [ledger |-> "B",   name |-> "shares",  type |-> "equity"]>>

MCAccountId == 1..5
MCLedgerOf == [a \in MCAccountId |-> Chart[a].ledger]
MCNameOf == [a \in MCAccountId |-> Chart[a].name]
MCTypeOf == [a \in MCAccountId |-> Chart[a].type]

Dr(a, n) == [account |-> a, debit |-> n, credit |-> 0]
Cr(a, n) == [account |-> a, debit |-> 0, credit |-> n]

Single(k, entries) == [batch |-> FALSE, key |-> k, postings |-> <<entries>>]
Batch(postings) == [batch |-> TRUE, key |-> NoKey, postings |-> postings]

Fund(n) == <<Dr(1, n), Cr(2, n)>>
Spend(n) == <<Dr(3, n), Cr(1, n)>>
\* Locks the accounts of Spend named in the opposite order.
PayBack == <<Dr(1, 1), Cr(3, 1)>>
\* Account 1 twice: only the net effect counts against its balance.
RoundTrip == <<Cr(1, 1), Dr(1, 2), Cr(2, 1)>>
CrossLedger == <<Dr(4, 1), Cr(2, 1)>>
OneSided == <<Dr(1, 1)>>
Lopsided == <<Dr(1, 2), Cr(2, 1)>>
BadId == <<Dr(9, 1), Cr(2, 1)>>
FundB == <<Dr(4, 1), Cr(5, 1)>>

\* Keyed and unkeyed postings and batches that compete for key "k", for the
\* cash in account 1 and for the rows of accounts 1 to 3.  Members of batches
\* depend on each other, are invalid, or name an account that may not exist.
MixedCalls ==
  {Single("k", Fund(1)), Single("k", Fund(2)),
   Single(NoKey, Spend(1)), Single(NoKey, CrossLedger),
   Batch(<<Fund(1), Spend(1)>>), Batch(<<Spend(1), Fund(1)>>),
   Batch(<<OneSided, RoundTrip>>), Batch(<<CrossLedger, FundB>>)}

\* Calls that contend for rows and the key, and calls that are refused at
\* once: unbalanced, malformed, oversized.
ContendingCalls ==
  {Single("k", Fund(1)), Single("k", Fund(2)), Single(NoKey, PayBack),
   Single(NoKey, Lopsided), Single("k", BadId),
   Batch(<<Fund(1), Spend(1)>>), Batch(<<BadId, Lopsided>>),
   Batch(<<Spend(1), Spend(1), Spend(1)>>)}

\* One batch whose posting runs from the default ledger into ledger "B".
SpanningCalls == {Batch(<<<<Dr(1, 1), Cr(5, 1)>>>>)}

\* Half cents: the request balances before it is stored.
HalfCentCalls == {Single(NoKey, <<Dr(1, 1), Dr(3, 1), Cr(2, 2)>>)}

Symmetry == Permutations(Session)
=============================================================================
