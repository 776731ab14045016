---------------------------- MODULE LedgerRules ----------------------------
(***************************************************************************)
(* The pure rules of the double-entry ledger: amounts and how PostgreSQL   *)
(* stores them, entries and their validation, the per-account effect of a  *)
(* posting, the displayed balance, and the checksum of a request.          *)
(*                                                                         *)
(* An amount is an integer number of units, Grain units to the cent.  A    *)
(* request may carry any number of units (decimal.Decimal has no scale     *)
(* limit and ValidateTransaction sets none); a NUMERIC(20,2) column holds  *)
(* whole cents only.  Grain = 1 describes clients that send whole cents.   *)
(***************************************************************************)
EXTENDS Integers, Sequences, FiniteSets, FiniteSetsExt

CONSTANTS
  Grain,        \* units per cent
  MaxNumeric    \* first magnitude NUMERIC(20,2) cannot hold, in units

ASSUME GrainAssumption == Grain \in Nat \ {0}
ASSUME MaxNumericAssumption == MaxNumeric \in Nat \ {0}

AccountType == {"asset", "liability", "equity", "revenue", "expense"}

\* Accounts whose displayed balance is the stored balance; the others
\* display its negation.
DebitNormal == {"asset", "expense"}

-----------------------------------------------------------------------------
(* Amounts.                                                                *)

Magnitude(x) == IF x < 0 THEN -x ELSE x

\* Half away from zero to whole cents: the assignment to NUMERIC(20,2), and
\* StringFixed(2) in the request checksum.
Round(x) ==
  LET cents == (2 * Magnitude(x) + Grain) \div (2 * Grain)
  IN  IF x < 0 THEN -(cents * Grain) ELSE cents * Grain

\* NUMERIC(20,2) raises "numeric field overflow" outside this range.
Fits(x) == Magnitude(x) < MaxNumeric

-----------------------------------------------------------------------------
(* Entries: records [account, debit, credit].  A posting is a sequence of  *)
(* them.                                                                   *)

Total(amount(_), entries) ==
  SumFunction([i \in DOMAIN entries |-> amount(entries[i])])

DebitOf(e) == e.debit
CreditOf(e) == e.credit

ValidateTransaction(entries) ==
  /\ Len(entries) >= 2
  /\ \A i \in DOMAIN entries :
        /\ entries[i].debit >= 0 /\ entries[i].credit >= 0
        /\ entries[i].debit = 0 <=> entries[i].credit # 0
  /\ Total(DebitOf, entries) = Total(CreditOf, entries)

AccountsOf(entries) == {entries[i].account : i \in DOMAIN entries}

\* What a posting adds to the stored balance of account a: its debits minus
\* its credits, all entries on a taken together.
Change(entries, a) ==
  Total(LAMBDA e : IF e.account = a THEN e.debit - e.credit ELSE 0, entries)

DisplayedBalance(type, stored) ==
  IF type \in DebitNormal THEN stored ELSE -stored

\* The rows the entries table receives.
Stored(entries) ==
  [i \in DOMAIN entries |->
     [account |-> entries[i].account,
      debit   |-> Round(entries[i].debit),
      credit  |-> Round(entries[i].credit)]]

EntriesFit(entries) ==
  \A i \in DOMAIN entries :
    Fits(Round(entries[i].debit)) /\ Fits(Round(entries[i].credit))

\* TransactionRequestChecksum: the multiset of the entries with every amount
\* at two decimals; the order of the entries does not count.
Checksum(entries) ==
  LET rows == Stored(entries)
  IN  [r \in {rows[i] : i \in DOMAIN rows} |->
         Cardinality({i \in DOMAIN rows : rows[i] = r})]
=============================================================================
