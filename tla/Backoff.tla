------------------------------- MODULE Backoff -------------------------------
(***************************************************************************)
(* BackoffDelay of internal/scheduler, as the set of delays it may return. *)
(* The random factor lies in [0, 1), so the draw is any whole number below *)
(* the ceiling.  The power of two is computed in floating point and cut    *)
(* off at the cap before it is converted, so it cannot overflow.           *)
(***************************************************************************)
EXTENDS Naturals

\* math.Pow(2, k).
Pow2[k \in Nat] == IF k = 0 THEN 1 ELSE 2 * Pow2[k - 1]

\* n: the failed attempts, b: the base delay, c: the cap.
Ceiling(n, b, c) ==
  LET exp == b * Pow2[(IF n < 1 THEN 1 ELSE n) - 1]
  IN IF exp > c THEN c ELSE exp

\* Full jitter.
Draw(ceiling) == IF ceiling = 0 THEN {0} ELSE 0 .. ceiling - 1

\* Mutant: a draw below the base is used as it is.
BackoffDelayNoFloor(n, b, c) == Draw(Ceiling(n, b, c))

BackoffDelay(n, b, c) ==
  {IF d < b THEN b ELSE d : d \in Draw(Ceiling(n, b, c))}
=============================================================================
