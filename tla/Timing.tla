--------------------------------- MODULE Timing ---------------------------------
(***************************************************************************)
(* The statistics of a benchmark and their admission: `stats' of           *)
(* src/glue/js/benchmark.mjs and of the native host's main.rs, and         *)
(* `validTiming' of src/scripts/receipt-policy.mjs.  A sample is a number  *)
(* of 0 .. Top; Ceiling stands for the 5000 ms of the policy.  Both        *)
(* `stats' sort first, so a benchmark is the distribution of its samples,  *)
(* a function from each value to how many samples do not exceed it.        *)
(* Fractions are kept as integers: a p50 is twice itself, a mean the pair  *)
(* of its sum and its count.  In doubles n * .95 rounds up as the exact    *)
(* product does for the counts that are admitted: only 20 * .95 is whole,  *)
(* and is 19 there too.                                                    *)
(***************************************************************************)
EXTENDS Integers, FiniteSetsExt

CONSTANTS Counts, Top, Ceiling

Value == 0 .. Top

ASSUME SampleAssumption ==
  Counts \subseteq Nat \ {0} /\ Top \in Nat /\ Ceiling \in Value

Samples ==
  UNION {{s \in [Value -> 0 .. n] :
            s[Top] = n /\ \A v, w \in Value : v <= w => s[v] <= s[w]} : n \in Counts}

Size(s) == s[Top]
Upto(s, v) == IF v \in Value THEN s[v] ELSE 0

(* The samples in order, from index 0.                                     *)
Sorted(s, k) == Min({v \in Value : Upto(s, v) > k})

Ceil(a, b) == (a + b - 1) \div b

(* Mutant: the index is rounded down. *)
IndexDown(n) == (n * 95) \div 100

Index95(n) == Ceil(n * 95, 100) - 1

JsP95(s) == Sorted(s, Index95(Size(s)))
JsP50(s) == 2 * Sorted(s, Size(s) \div 2)

RustP95(s) ==
  Sorted(s, Min({Max({Ceil(Size(s) * 95, 100) - 1, 0}), Size(s) - 1}))
RustP50(s) ==
  LET half == Size(s) \div 2
  IN  IF Size(s) % 2 = 1 THEN 2 * Sorted(s, half)
                         ELSE Sorted(s, half - 1) + Sorted(s, half)

Trim(n) == n \div 10

(* The samples from t on, added up in order: after k samples of all.       *)
Sums(s, t) ==
  LET sum[k \in t .. Size(s) - t] == IF k = t THEN 0 ELSE sum[k - 1] + Sorted(s, k - 1)
  IN  sum

Trimmed(s) ==
  LET n == Size(s)
      t == IF Trim(n) > 0 /\ Trim(n) * 2 < n THEN Trim(n) ELSE 0
  IN  [sum |-> Sums(s, t)[n - t], count |-> n - 2 * t]

(* validTiming(stat): the summary alone.                                   *)
ValidSummary(count, p95) == count \in 7 .. 31 /\ p95 \in 0 .. Ceiling

(* validTiming(stat, true): the samples come with the receipt.             *)
Valid(count, p95, s) ==
  ValidSummary(count, p95) /\ count = Size(s) /\ p95 = JsP95(s)

-------------------------------------------------------------------------------
(* Both languages report the same p95, and it is the nearest rank: the     *)
(* least value that 95 of 100 samples do not exceed.                       *)
P95NearestRank ==
  \A s \in Samples :
    /\ JsP95(s) = Min({v \in Value : 100 * Upto(s, v) >= 95 * Size(s)})
    /\ RustP95(s) = JsP95(s)

(* No other count or p95 than the measured one is admitted with samples.   *)
ForgedRejected ==
  \A s \in Samples, count \in Counts, p \in Value :
    Valid(count, p, s) => count = Size(s) /\ p = JsP95(s)

(* The p50 of JavaScript is never below the native one, and equal for odd  *)
(* counts, such as the 9 and 7 of the gates; the trimmed mean is not moved *)
(* by a tenth of the samples at either end.                                *)
CentreRobust ==
  \A s \in Samples :
    /\ JsP50(s) >= RustP50(s) /\ (Size(s) % 2 = 1 => JsP50(s) = RustP50(s))
    /\ Trimmed(s).count > 0
    /\ \A v \in Value :
         /\ 10 * (Size(s) - Upto(s, v)) <= Size(s) => Trimmed(s).sum <= v * Trimmed(s).count
         /\ 10 * Upto(s, v - 1) <= Size(s) => Trimmed(s).sum >= v * Trimmed(s).count
===============================================================================
