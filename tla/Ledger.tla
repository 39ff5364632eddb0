------------------------------- MODULE Ledger -------------------------------
(***************************************************************************)
(* What the track computes from result files: the cost per configuration   *)
(* of p12-cost-dash/accounting.py and the error budget of p14-chaos/slo.py.*)
(* Rows are those Workloads files.  Times are in token times: a request    *)
(* took as long as the tokens the server made for it, and none if no token *)
(* came (compute_stats).  Input tokens are left out, they are a constant   *)
(* of the configuration, and so are MFU and rounding.                      *)
(***************************************************************************)
EXTENDS Integers, FiniteSets, SequencesExt

CONSTANTS Cost,    \* total_cost_usd, a multiple of every total time that occurs
          Bucket   \* rows in a bucket of the recovery curve

ASSUME LedgerConstants == Cost \in Nat \ {0} /\ Bucket \in Nat \ {0}

Took(r) == IF r.gen = 0 THEN 0 ELSE r.made
Total(f(_), s) == FoldLeft(LAMBDA sum, x : sum + f(x), 0, s)

-----------------------------------------------------------------------------
(* accounting.py *)

LoadRows(s) == SelectSeq(s, LAMBDA r : r.ok)

Keys(s) == {s[i].key : i \in DOMAIN s}

PerKey(s) ==
  FoldLeft(LAMBDA per, r : [per EXCEPT ![r.key] =
             [n |-> @.n + 1, out |-> @.out + r.gen, e2e |-> @.e2e + Took(r)]],
           [c \in Keys(s) |-> [n |-> 0, out |-> 0, e2e |-> 0]], s)

\* sum(...) or 1.0
MutTotalE2e(s) == IF s = << >> THEN 1 ELSE Len(s)
TotalE2e(s) == IF Total(Took, s) = 0 THEN 1 ELSE Total(Took, s)

\* The script ends without a ledger when no row is ok.
Groups(s) ==
  LET per == PerKey(s)
      total == TotalE2e(s) IN
  {[config |-> c, requests |-> per[c].n, out |-> per[c].out,
    cost |-> (Cost * per[c].e2e) \div total] : c \in Keys(s)}

-----------------------------------------------------------------------------
(* slo.py *)

\* slow: the rows over --ttft-slo-ms or --itl-slo-ms.  Latencies are left out, but
\* those of a row without tokens are zero.
MaybeSlow(s) == {i \in DOMAIN s : s[i].gen > 0}
Bad(s, slow) == slow \cup {i \in DOMAIN s : ~s[i].ok}

\* rows i // 10 of the recovery curve, counted from 0
BucketOf(i) == (i - 1) \div Bucket
Per10(s, slow) == [b \in {BucketOf(i) : i \in DOMAIN s} |->
  LET own == {i \in DOMAIN s : BucketOf(i) = b} IN
  [bad |-> Cardinality(own \cap Bad(s, slow)), all |-> Cardinality(own)]]

\* n is 1 for an empty file, which is then fully available.
Burn(s, slow) ==
  LET n == IF s = << >> THEN 1 ELSE Len(s) IN
  [n |-> n, bad |-> Cardinality(Bad(s, slow)), available |-> n - Cardinality(Bad(s, {})),
   per10 |-> Per10(s, slow)]

\* Rows after the last failed one; slow rows do not count as bad here.
MttrProxy(s) ==
  LET bad == Bad(s, {}) IN
  Len(s) - (IF bad = {} THEN 0 ELSE CHOOSE i \in bad : \A j \in bad : j <= i)
=============================================================================
