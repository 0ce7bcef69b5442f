------------------------------ MODULE RetryPolicy ------------------------------
(***************************************************************************)
(* The delays of ExponentialBackoff (crates/utils/src/retry_policy.rs),    *)
(* shared by every retry loop of the backend.  The base of all policies is *)
(* 1.5, so with n retries and a total of t seconds the code's floating     *)
(* point expression for the k-th delay is the fraction                     *)
(*         t * 2^(n-k) * 3^(k-1) / (3^n - 2^n),                            *)
(* rounded to whole seconds.                                               *)
(***************************************************************************)
EXTENDS Integers

\* The powers of b.
Pow(b) == LET p[k \in Nat] == IF k = 0 THEN 1 ELSE b * p[k - 1] IN p

\* round() of a / b: halves go up.
RoundDiv(a, b) == (2 * a + b) \div (2 * b)

GetDelay(n, t, k) ==
    IF k = 0 THEN 0
    ELSE RoundDiv(t * Pow(2)[n - k] * Pow(3)[k - 1], Pow(3)[n] - Pow(2)[n])

\* What the delays before the k-th add up to.
DelaysBefore(n, t) ==
    LET sum[k \in 0 .. (n + 1)] == IF k = 0 THEN 0 ELSE sum[k - 1] + GetDelay(n, t, k - 1)
    IN  sum
================================================================================
