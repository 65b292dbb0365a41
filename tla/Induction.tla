------------------------------ MODULE Induction ------------------------------
(* Induction on the natural numbers and recursion up to a number, stated of     *)
(* sets and functions: what the proofs about sequences and parsers rest on.     *)
EXTENDS Integers, WellFoundedInduction, TLAPS

Below == {p \in Nat \X Nat : p[1] < p[2]}

\* A set of numbers that holds 0 and every successor of its numbers holds all.
LEMMA Induction ==
    ASSUME NEW T, 0 \in T, \A n \in Nat : n \in T => n + 1 \in T
    PROVE  \A n \in Nat : n \in T
<1>1. Below = OpToRel(<, Nat)
  BY DEF Below, OpToRel
<1>2. IsWellFoundedOn(Below, Nat)
  BY <1>1, NatLessThanWellFounded
<1>3. SUFFICES ASSUME Nat \ T # {} PROVE FALSE
  OBVIOUS
<1>4. PICK x \in Nat \ T : \A y \in Nat \ T : ~ (<<y, x>> \in Below)
  BY <1>2, <1>3, WFMin
<1>5. x # 0 /\ x - 1 \in Nat
  BY <1>4
<1>6. <<x - 1, x>> \in Below
  BY <1>5 DEF Below
<1>7. x - 1 \in T
  BY <1>4, <1>5, <1>6
<1>8. QED
  BY <1>4, <1>5, <1>7

\* The values computed by k steps from b, where step n makes G[<<n, v>>] of v.
Computes(f, k, b, G) == f = [n \in 0..k |-> IF n = 0 THEN b ELSE G[<<n, f[n - 1]>>]]

LEMMA Recursion ==
    ASSUME NEW S, NEW b \in S, NEW k \in Nat, NEW G, \A n \in 1..k, v \in S : G[<<n, v>>] \in S
    PROVE  \E f \in [0..k -> S] : Computes(f, k, b, G)
<1> DEFINE T == {j \in Nat : j <= k => \E f \in [0..j -> S] : Computes(f, j, b, G)}
<1>1. 0 \in T
  <2> DEFINE f == [n \in 0..0 |-> b]
  <2>1. f \in [0..0 -> S] /\ Computes(f, 0, b, G)
    BY DEF Computes
  <2>2. QED
    BY <2>1
<1>2. ASSUME NEW j \in Nat, j \in T PROVE j + 1 \in T
  <2>1. SUFFICES ASSUME j + 1 <= k PROVE \E f \in [0..(j + 1) -> S] : Computes(f, j + 1, b, G)
    OBVIOUS
  <2>2. PICK f \in [0..j -> S] : Computes(f, j, b, G)
    BY <1>2, <2>1
  <2>3. f[j] \in S /\ G[<<j + 1, f[j]>>] \in S
    BY <2>1, <2>2
  <2> DEFINE g == [n \in 0..(j + 1) |-> IF n = j + 1 THEN G[<<j + 1, f[j]>>] ELSE f[n]]
  <2>4. g \in [0..(j + 1) -> S]
    BY <2>2, <2>3
  <2>5. \A n \in 0..j : f[n] = IF n = 0 THEN b ELSE G[<<n, f[n - 1]>>]
    BY <2>2 DEF Computes
  <2>6. ASSUME NEW n \in 0..(j + 1)
        PROVE  g[n] = IF n = 0 THEN b ELSE G[<<n, g[n - 1]>>]
    <3>1. CASE n = j + 1
      BY <3>1
    <3>2. CASE n # j + 1
      <4>1. n \in 0..j /\ g[n] = f[n]
        BY <3>2
      <4>2. n # 0 => n - 1 \in 0..j /\ n - 1 # j + 1 /\ n - 1 \in 0..(j + 1)
        BY <4>1
      <4>3. n # 0 => g[n - 1] = f[n - 1]
        BY <4>2
      <4>4. QED
        BY <2>5, <4>1, <4>3
    <3>3. QED
      BY <3>1, <3>2
  <2>7. Computes(g, j + 1, b, G)
    BY <2>4, <2>6 DEF Computes
  <2>8. QED
    BY <2>4, <2>7
<1> HIDE DEF T
<1>3. k \in T
  BY <1>1, <1>2, Induction
<1>4. QED
  BY <1>3 DEF T

\* Up to step j, G and H make the same of the values f goes through.
SameSteps(f, j, G, H) == \A n \in 1..j : G[<<n, f[n - 1]>>] = H[<<n, f[n - 1]>>]

\* Two computations agree as long as their steps do.
LEMMA Agree ==
    ASSUME NEW b, NEW j \in Nat, NEW k \in Nat, j <= k, NEW G, NEW H, NEW f, NEW g,
           Computes(f, j, b, G), Computes(g, k, b, H), SameSteps(f, j, G, H)
    PROVE  \A n \in 0..j : f[n] = g[n]
<1> DEFINE T == {n \in Nat : n <= j => f[n] = g[n]}
<1>0. /\ \A n \in 0..j : f[n] = IF n = 0 THEN b ELSE G[<<n, f[n - 1]>>]
      /\ \A n \in 0..k : g[n] = IF n = 0 THEN b ELSE H[<<n, g[n - 1]>>]
  BY DEF Computes
<1>1. 0 \in T
  <2>1. 0 \in 0..j /\ 0 \in 0..k
    OBVIOUS
  <2>2. f[0] = b /\ g[0] = b
    BY <1>0, <2>1
  <2>3. QED
    BY <2>2
<1>2. ASSUME NEW n \in Nat, n \in T PROVE n + 1 \in T
  <2>1. SUFFICES ASSUME n + 1 <= j PROVE f[n + 1] = g[n + 1]
    OBVIOUS
  <2>2. f[n] = g[n] /\ n + 1 \in 0..j /\ n + 1 \in 0..k /\ n + 1 # 0 /\ (n + 1) - 1 = n /\ n + 1 \in 1..j
    BY <1>2, <2>1
  <2>3. f[n + 1] = G[<<n + 1, f[n]>>] /\ g[n + 1] = H[<<n + 1, g[n]>>]
    BY <1>0, <2>2
  <2>4. QED
    BY <2>2, <2>3 DEF SameSteps
<1> HIDE DEF T
<1>3. \A n \in Nat : n \in T
  BY <1>1, <1>2, Induction
<1>4. QED
  BY <1>3 DEF T
=============================================================================
