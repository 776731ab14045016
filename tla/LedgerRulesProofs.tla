------------------------- MODULE LedgerRulesProofs -------------------------
(***************************************************************************)
(* Facts about the pure rules: what rounding to NUMERIC(20,2) preserves,   *)
(* and that a valid posting only moves value.                              *)
(***************************************************************************)
EXTENDS LedgerRules, SumTheorems

\* Division of a natural by a positive natural, as Round uses it.
LEMMA DivNat ==
  ASSUME NEW n \in Nat, NEW d \in Nat \ {0}
  PROVE  /\ n \div d \in Nat
         /\ d * (n \div d) <= n
         /\ n < d * (n \div d) + d
  BY SMT

\* Round yields an integer that does not cross zero.
LEMMA RoundSign ==
  ASSUME NEW x \in Int
  PROVE  /\ Round(x) \in Int
         /\ x >= 0 => Round(x) >= 0
         /\ x <= 0 => Round(x) <= 0
<1> DEFINE n == 2 * Magnitude(x) + Grain
           d == 2 * Grain
           c == n \div d
<1>1. n \in Nat /\ d \in Nat \ {0}
  BY GrainAssumption DEF Magnitude
<1>2. c \in Nat
  BY <1>1, DivNat
<1>3. c * Grain \in Nat
  BY <1>2, GrainAssumption
<1>4. Round(x) = IF x < 0 THEN -(c * Grain) ELSE c * Grain
  BY DEF Round
<1>5. x = 0 => Magnitude(x) = 0
  BY DEF Magnitude
<1> HIDE DEF c
<1>6. CASE x < 0
  BY <1>3, <1>4, <1>6
<1>7. CASE x > 0
  BY <1>3, <1>4, <1>7
<1>8. CASE x = 0
  <2>1. n = Grain
    BY <1>5, <1>8, GrainAssumption
  <2>2. c = 0
    <3>1. d * c <= n
      BY <1>1, DivNat DEF c
    <3>2. c >= 1 => d * c >= d
      BY <1>1, <1>2
    <3> QED
      BY <1>2, <2>1, <3>1, <3>2, GrainAssumption
  <2> QED
    BY <1>4, <1>8, <2>2, GrainAssumption
<1> QED
  BY <1>6, <1>7, <1>8

\* A quotient is determined by the multiples of the divisor around it.
LEMMA DivUnique ==
  ASSUME NEW n \in Nat, NEW d \in Nat \ {0}, NEW q \in Nat,
         d * q <= n, n < d * q + d
  PROVE  n \div d = q
<1> DEFINE p == n \div d
<1>1. p \in Nat /\ d * p <= n /\ n < d * p + d
  BY DivNat
<1> HIDE DEF p
<1>2. p + 1 <= q => d * (p + 1) <= d * q
  BY <1>1
<1>3. q + 1 <= p => d * (q + 1) <= d * p
  BY <1>1
<1>4. d * (p + 1) = d * p + d /\ d * (q + 1) = d * q + d
  BY <1>1
<1>5. ~(p + 1 <= q) /\ ~(q + 1 <= p)
  BY <1>1, <1>2, <1>3, <1>4
<1>6. p = q
  BY <1>1, <1>5
<1> QED
  BY <1>6 DEF p

\* What a NUMERIC(20,2) column holds is not changed by rounding it again: a
\* checksum taken over stored amounts is the checksum of the request.
LEMMA RoundIdempotent ==
  ASSUME NEW x \in Int
  PROVE  Round(Round(x)) = Round(x)
<1> DEFINE c == (2 * Magnitude(x) + Grain) \div (2 * Grain)
<1>1. c \in Nat
  <2>1. 2 * Magnitude(x) + Grain \in Nat /\ 2 * Grain \in Nat \ {0}
    BY GrainAssumption DEF Magnitude
  <2> QED
    BY <2>1, DivNat
<1>2. Round(x) = IF x < 0 THEN -(c * Grain) ELSE c * Grain
  BY DEF Round
<1> HIDE DEF c
<1>3. c * Grain \in Nat
  BY <1>1, GrainAssumption
<1>4. Magnitude(Round(x)) = c * Grain
  BY <1>2, <1>3 DEF Magnitude
<1>5. (2 * (c * Grain) + Grain) \div (2 * Grain) = c
  <2> DEFINE n == 2 * (c * Grain) + Grain
             d == 2 * Grain
  <2>1. n \in Nat /\ d \in Nat \ {0}
    BY <1>3, GrainAssumption
  <2>2. d * c = 2 * (c * Grain)
    BY <1>1, GrainAssumption
  <2>3. d * c <= n /\ n < d * c + d
    BY <1>3, <2>2, GrainAssumption
  <2> QED
    BY <1>1, <2>1, <2>3, DivUnique
<1>6. Round(Round(x)) = IF Round(x) < 0 THEN -(c * Grain) ELSE c * Grain
  BY <1>4, <1>5 DEF Round
<1>7. CASE x < 0
  BY <1>2, <1>3, <1>6, <1>7
<1>8. CASE ~(x < 0)
  BY <1>2, <1>3, <1>6, <1>8
<1> QED
  BY <1>7, <1>8

\* Whole cents are stored as they are.
LEMMA RoundWhole ==
  ASSUME Grain = 1, NEW x \in Int
  PROVE  Round(x) = x
<1>1. \A m \in Nat : (2 * m + 1) \div 2 = m
  OBVIOUS
<1>2. Magnitude(x) \in Nat /\ Magnitude(x) = IF x < 0 THEN -x ELSE x
  BY DEF Magnitude
<1>3. (2 * Magnitude(x) + Grain) \div (2 * Grain) = Magnitude(x)
  <2>1. 2 * Magnitude(x) + Grain = 2 * Magnitude(x) + 1 /\ 2 * Grain = 2
    OBVIOUS
  <2> QED
    BY <1>1, <1>2, <2>1
<1> QED
  BY <1>2, <1>3 DEF Round

-----------------------------------------------------------------------------
(* Postings.                                                               *)

\* The net effects of a valid posting cancel out over any accounts that
\* include its own.
LEMMA EffectsCancel ==
  ASSUME NEW entries, IsFiniteSet(DOMAIN entries),
         \A i \in DOMAIN entries : entries[i].debit \in Int /\ entries[i].credit \in Int,
         ValidateTransaction(entries),
         NEW S, IsFiniteSet(S), AccountsOf(entries) \subseteq S
  PROVE  SumFunctionOnSet([a \in S |-> Change(entries, a)], S) = 0
<1> DEFINE D == DOMAIN entries
           f == [i \in D |-> entries[i].debit - entries[i].credit]
           d == [i \in D |-> entries[i].debit]
           c == [i \in D |-> entries[i].credit]
           group == [i \in D |-> entries[i].account]
           part == [a \in S |-> [i \in D |-> IF entries[i].account = a
                                             THEN entries[i].debit - entries[i].credit ELSE 0]]
           h == [a \in S |-> Change(entries, a)]
<1>1. IsFiniteSet(D) /\ IsFiniteSet(S)
  OBVIOUS
<1>2. \A i \in D : f[i] \in Int /\ c[i] \in Int /\ d[i] \in Int /\ d[i] = f[i] + c[i]
  OBVIOUS
<1>3. \A i \in D : group[i] \in S
  BY DEF AccountsOf
<1>4. \A a \in S : \A i \in D : part[a][i] = IF group[i] = a THEN f[i] ELSE 0
  OBVIOUS
<1>5. \A a \in S : h[a] = SumFunctionOnSet(part[a], D)
  BY DEF Change, Total, SumFunction
<1>6. SumFunctionOnSet(d, D) = SumFunctionOnSet(c, D)
  BY DEF ValidateTransaction, Total, SumFunction, DebitOf, CreditOf
<1> HIDE DEF D, f, d, c, group, part, h
<1>7. Grouped(f, D, S, group, part, h)
  BY <1>1, <1>2, <1>3, <1>4, <1>5 DEF Grouped
<1>8. SumFunctionOnSet(h, S) = SumFunctionOnSet(f, D)
  BY <1>7, SumByGroup
<1>9. SumFunctionOnSet(d, D) = SumFunctionOnSet(f, D) + SumFunctionOnSet(c, D)
  BY <1>1, <1>2, SumPlus
<1>10. SumFunctionOnSet(f, D) \in Int /\ SumFunctionOnSet(c, D) \in Int
  BY <1>1, <1>2, SumType
<1>11. SumFunctionOnSet(h, S) = 0
  BY <1>6, <1>8, <1>9, <1>10
<1> QED
  BY <1>11 DEF h
=============================================================================
