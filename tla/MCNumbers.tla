---------------------------- MODULE MCNumbers ----------------------------
(* Number theory for TLC: integers of 5 bits, so that two primes tell more *)
(* apart than an integer holds, and 2047, the first number that 2 alone    *)
(* takes for a prime.                                                      *)
EXTENDS Numbers

\* The least prime, a prime, a composite with two factors, half of the range, and
\* a composite and a prime above it.
MCModuli == {2, 5, 6, 16, 21, 31}
=========================================================================
