------------------------------- MODULE IdSums -------------------------------
(***************************************************************************)
(* Sums over the ids 1..n that the id tables hand out.  What a wallet owes *)
(* is a sum over orders and over trade records.  The sum is a recursive    *)
(* function over the ids, in the order they are issued, so that it can be  *)
(* reasoned about (IdSumTheorems).                                         *)
(***************************************************************************)
EXTENDS Integers

\* The sums f[1] + ... + f[i], for i up to n.
PartialSums(f, n) ==
    LET s[i \in 0..n] == IF i = 0 THEN 0 ELSE s[i - 1] + f[i]
    IN  s

SumTo(f, n) == PartialSums(f, n)[n]
=============================================================================
