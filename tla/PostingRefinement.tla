------------------------- MODULE PostingRefinement -------------------------
(***************************************************************************)
(* Posting implements AtomicLedger.  A call's indivisible step is the one  *)
(* in which it returns: until then its client has been told nothing, and   *)
(* the committed tables show nothing of it.                                *)
(***************************************************************************)
EXTENDS Posting

Atomic == INSTANCE AtomicLedger WITH
  outcome <- [s \in Session |-> IF pc[s] = "done" THEN answer[s] ELSE AllAnswers(s, "open", 0)]

\* Concurrent calls of CreateTransaction and CreateTransactionsBatch are
\* linearizable: whatever the interleaving of their statements, every call
\* posts, or refuses, exactly what the ledger as a whole warrants at one
\* moment of the call, and what it was not told it posted it did not post.
CallsAreAtomic == Atomic!Spec
=============================================================================
