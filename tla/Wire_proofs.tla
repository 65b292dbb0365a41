----------------------------- MODULE Wire_proofs -----------------------------
(* Proofs about Wire, for any cells and any messages its fields can carry.   *)
EXTENDS WireInv, Induction, FiniteSetTheorems

(* Numbers in two cells.                                                    *)

LEMMA WordPositive == Base \in Nat /\ Base > 3 /\ Base * Base \in Nat /\ Base * Base > 0
BY WireAssumption

\* A number below Base * Base has a first digit that is a cell.
LEMMA Division ==
    ASSUME NEW n \in 0..Base * Base - 1
    PROVE  /\ n \div Base \in Cell /\ n % Base \in Cell
           /\ (n \div Base) * Base + (n % Base) = n
<1> DEFINE B == Base
           d == n \div B
           r == n % B
<1>0. B \in Nat /\ B > 3 /\ n \in Nat /\ n < B * B
  BY WireAssumption
<1> HIDE DEF B
<1>1. d \in Int /\ r \in 0..B - 1 /\ n = B * d + r
  BY <1>0
<1> HIDE DEF d, r
<1>2. d >= 0
  <2>1. SUFFICES ASSUME d <= -1 PROVE FALSE
    BY <1>1
  <2>2. B * d <= B * (-1)
    BY <1>0, <1>1, <2>1
  <2>3. QED
    BY <1>0, <1>1, <2>2
<1>3. d < B
  <2>1. SUFFICES ASSUME d >= B PROVE FALSE
    BY <1>0, <1>1
  <2>2. B * d >= B * B
    BY <1>0, <1>1, <2>1
  <2>3. QED
    BY <1>0, <1>1, <2>2
<1>4. d * B = B * d
  BY <1>0, <1>1
<1>5. d \in 0..B - 1 /\ r \in 0..B - 1 /\ d * B + r = n
  BY <1>0, <1>1, <1>2, <1>3, <1>4
<1>6. QED
  BY <1>5 DEF B, d, r, Cell

LEMMA PackType ==
    ASSUME NEW n \in 0..Base * Base - 1
    PROVE  Pack(n) \in Seq(Cell) /\ Len(Pack(n)) = 2
BY Division DEF Pack

LEMMA UnpackPacked ==
    ASSUME NEW n \in 0..Base * Base - 1, NEW s \in Seq(Cell)
    PROVE  Unpack(Pack(n)) = n /\ Unpack(Pack(n) \o s) = n
<1>1. Pack(n)[1] = n \div Base /\ Pack(n)[2] = n % Base
  BY DEF Pack
<1>2. (Pack(n) \o s)[1] = Pack(n)[1] /\ (Pack(n) \o s)[2] = Pack(n)[2]
  BY PackType
<1>3. Pack(n)[1] * Base + Pack(n)[2] = n
  BY <1>1, Division
<1>4. (Pack(n) \o s)[1] * Base + (Pack(n) \o s)[2] = n
  BY <1>2, <1>3
<1>5. QED
  BY <1>3, <1>4 DEF Unpack

LEMMA UnpackType ==
    ASSUME NEW s \in Seq(Cell), Len(s) >= 2
    PROVE  Unpack(s) \in 0..Base * Base - 1
<1> DEFINE B == Base
           x == s[1]
           y == s[2]
<1>1. B \in Nat /\ B > 3 /\ x \in 0..B - 1 /\ y \in 0..B - 1
  BY WireAssumption DEF Cell
<1> HIDE DEF B, x, y
<1>2. x * B \in Nat /\ x * B <= (B - 1) * B
  BY <1>1
<1>3. (B - 1) * B = B * B - B
  BY <1>1
<1>4. x * B + y \in 0..B * B - 1
  BY <1>1, <1>2, <1>3
<1>5. QED
  BY <1>4 DEF Unpack, B, x, y

\* The sign of an integer survives.
LEMMA SignedModulo ==
    ASSUME NEW v \in Int, -(Base * Base) <= 2 * v, 2 * v < Base * Base
    PROVE  /\ v % (Base * Base) \in 0..Base * Base - 1
           /\ v = IF 2 * (v % (Base * Base)) < Base * Base THEN v % (Base * Base)
                  ELSE (v % (Base * Base)) - Base * Base
<1> DEFINE W == Base * Base
           n == v % W
<1>0. W \in Nat /\ W > 0 /\ -W <= 2 * v /\ 2 * v < W
  BY WordPositive
<1> HIDE DEF W
<1>1. PICK q \in Int : v = W * q + n /\ n \in 0..W - 1
  BY <1>0
<1> HIDE DEF n
<1>2. q \in {-1, 0}
  <2>1. ASSUME q >= 1 PROVE FALSE
    <3>1. W * q >= W
      BY <1>0, <2>1
    <3>2. QED
      BY <1>0, <1>1, <3>1
  <2>2. ASSUME q <= -2 PROVE FALSE
    <3>1. W * q <= W * (-2)
      BY <1>0, <2>2
    <3>2. W * (-2) = -(2 * W)
      BY <1>0
    <3>3. QED
      BY <1>0, <1>1, <3>1, <3>2
  <2>3. QED
    BY <2>1, <2>2
<1>3. W * (-1) = -W /\ W * 0 = 0
  BY <1>0
<1>4. n \in 0..W - 1 /\ v = IF 2 * n < W THEN n ELSE n - W
  BY <1>0, <1>1, <1>2, <1>3
<1>5. QED
  BY <1>4 DEF W, n

-----------------------------------------------------------------------------
(* Cells one after the other.                                               *)

LEMMA JoinType ==
    ASSUME NEW p \in Seq(Cell), NEW q \in Seq(Cell)
    PROVE  p \o q \in Seq(Cell) /\ Len(p \o q) = Len(p) + Len(q)
OBVIOUS

LEMMA JoinEmpty ==
    ASSUME NEW p \in Seq(Cell)
    PROVE  p \o <<>> = p /\ <<>> \o p = p
OBVIOUS

LEMMA JoinAssociative ==
    ASSUME NEW p \in Seq(Cell), NEW q \in Seq(Cell), NEW r \in Seq(Cell)
    PROVE  (p \o q) \o r = p \o (q \o r)
<1> DEFINE u == (p \o q) \o r
           v == p \o (q \o r)
<1>1. /\ Len(u) = Len(p) + Len(q) + Len(r) /\ Len(v) = Len(p) + Len(q) + Len(r)
      /\ u \in Seq(Cell) /\ v \in Seq(Cell)
  OBVIOUS
<1>2. ASSUME NEW i \in 1..(Len(p) + Len(q) + Len(r)) PROVE u[i] = v[i]
  <2>1. CASE i <= Len(p)
    BY <2>1
  <2>2. CASE i > Len(p) /\ i <= Len(p) + Len(q)
    BY <2>2
  <2>3. CASE i > Len(p) + Len(q)
    BY <2>3
  <2>4. QED
    BY <2>1, <2>2, <2>3
<1> HIDE DEF u, v
<1>3. u = v
  BY <1>1, <1>2
<1>4. QED
  BY <1>3 DEF u, v

LEMMA DropType ==
    ASSUME NEW s \in Seq(Cell), NEW n \in 0..Len(s)
    PROVE  Drop(s, n) \in Seq(Cell) /\ Len(Drop(s, n)) = Len(s) - n
BY DEF Drop

LEMMA TakeType ==
    ASSUME NEW s \in Seq(Cell), NEW n \in 0..Len(s)
    PROVE  SubSeq(s, 1, n) \in Seq(Cell) /\ Len(SubSeq(s, 1, n)) = n
OBVIOUS

\* What was put in front comes off in front.
LEMMA SplitJoined ==
    ASSUME NEW p \in Seq(Cell), NEW q \in Seq(Cell)
    PROVE  SubSeq(p \o q, 1, Len(p)) = p /\ Drop(p \o q, Len(p)) = q
<1> DEFINE w == p \o q
           u == SubSeq(w, 1, Len(p))
           v == SubSeq(w, Len(p) + 1, Len(w))
<1>1. /\ w \in Seq(Cell) /\ Len(w) = Len(p) + Len(q)
      /\ \A i \in 1..Len(p) : w[i] = p[i]
      /\ \A i \in 1..Len(q) : w[Len(p) + i] = q[i]
  OBVIOUS
<1>2. Len(p) \in Nat /\ Len(q) \in Nat
  OBVIOUS
<1> HIDE DEF w
<1>3. u \in Seq(Cell) /\ Len(u) = Len(p) /\ \A i \in 1..Len(p) : u[i] = w[i]
  BY <1>1, <1>2
<1>4. v \in Seq(Cell) /\ Len(v) = Len(q) /\ \A i \in 1..Len(q) : v[i] = w[Len(p) + i]
  BY <1>1, <1>2
<1> HIDE DEF u, v
<1>5. u = p
  BY <1>1, <1>3
<1>6. v = q
  BY <1>1, <1>4, SMTT(20)
<1>7. QED
  BY <1>5, <1>6 DEF u, v, w, Drop

LEMMA JoinSplit ==
    ASSUME NEW s \in Seq(Cell), NEW n \in 0..Len(s)
    PROVE  s = SubSeq(s, 1, n) \o Drop(s, n)
<1> DEFINE u == SubSeq(s, 1, n)
           v == SubSeq(s, n + 1, Len(s))
           w == u \o v
<1>1. u \in Seq(Cell) /\ Len(u) = n /\ \A i \in 1..n : u[i] = s[i]
  OBVIOUS
<1>2. v \in Seq(Cell) /\ Len(v) = Len(s) - n /\ \A i \in 1..Len(s) - n : v[i] = s[n + i]
  OBVIOUS
<1> HIDE DEF u, v
<1>3. /\ w \in Seq(Cell) /\ Len(w) = Len(s)
      /\ \A i \in 1..n : w[i] = u[i]
      /\ \A i \in n + 1..Len(s) : w[i] = v[i - n]
  BY <1>1, <1>2
<1> HIDE DEF w
<1>4. ASSUME NEW i \in 1..Len(s) PROVE w[i] = s[i]
  <2>1. CASE i <= n
    BY <1>1, <1>3, <2>1
  <2>2. CASE i > n
    <3>1. i \in n + 1..Len(s) /\ i - n \in 1..Len(s) - n /\ n + (i - n) = i
      BY <2>2
    <3>2. QED
      BY <1>2, <1>3, <3>1
  <2>3. QED
    BY <2>1, <2>2
<1>5. w = s
  BY <1>3, <1>4
<1>6. QED
  BY <1>5 DEF u, v, w, Drop

\* Equal joins with equal fronts have equal backs; a shorter front is a part of
\* a longer one.
LEMMA CancelFront ==
    ASSUME NEW p \in Seq(Cell), NEW q \in Seq(Cell), NEW r \in Seq(Cell), p \o q = p \o r
    PROVE  q = r
<1>1. Drop(p \o q, Len(p)) = q /\ Drop(p \o r, Len(p)) = r
  BY SplitJoined
<1>2. QED
  BY <1>1

LEMMA SameLength ==
    ASSUME NEW p \in Seq(Cell), NEW q \in Seq(Cell), NEW r \in Seq(Cell), NEW s \in Seq(Cell),
           p \o q = r \o s, Len(p) = Len(r)
    PROVE  p = r /\ q = s
<1>1. SubSeq(p \o q, 1, Len(p)) = p /\ Drop(p \o q, Len(p)) = q
  BY SplitJoined
<1>2. SubSeq(r \o s, 1, Len(r)) = r /\ Drop(r \o s, Len(r)) = s
  BY SplitJoined
<1>3. QED
  BY <1>1, <1>2

LEMMA ShorterFront ==
    ASSUME NEW p \in Seq(Cell), NEW q \in Seq(Cell), NEW r \in Seq(Cell), NEW s \in Seq(Cell),
           p \o q = r \o s, Len(p) <= Len(r)
    PROVE  /\ Drop(r, Len(p)) \in Seq(Cell) /\ Len(Drop(r, Len(p))) = Len(r) - Len(p)
           /\ r = p \o Drop(r, Len(p)) /\ q = Drop(r, Len(p)) \o s
<1> DEFINE f == SubSeq(r, 1, Len(p))
           u == Drop(r, Len(p))
<1>1. Len(p) \in 0..Len(r)
  OBVIOUS
<1>2. /\ r = f \o u /\ f \in Seq(Cell) /\ u \in Seq(Cell) /\ Len(f) = Len(p)
      /\ Len(u) = Len(r) - Len(p)
  BY <1>1, JoinSplit, DropType, TakeType
<1> HIDE DEF f, u
<1>3. p \o q = f \o (u \o s) /\ u \o s \in Seq(Cell)
  <2>1. (f \o u) \o s = f \o (u \o s)
    <3>1. f \in Seq(Cell) /\ u \in Seq(Cell)
      BY <1>2
    <3>2. QED
      BY <3>1, JoinAssociative, ZenonT(40)
  <2>2. QED
    BY <1>2, <2>1, JoinType
<1>4. p = f /\ q = u \o s
  BY <1>2, <1>3, SameLength
<1>5. QED
  BY <1>2, <1>4 DEF u

-----------------------------------------------------------------------------
(* FlattenSeq, and parsers in turn: what their recursions compute.          *)

Joins(F, parts) ==
    /\ F \in [0..Len(parts) -> Seq(Cell)]
    /\ F[0] = <<>>
    /\ \A n \in 1..Len(parts) : F[n] = F[n - 1] \o parts[n]

LEMMA JoinsExist ==
    ASSUME NEW parts \in Seq(Seq(Cell))
    PROVE  \E F : Joins(F, parts)
<1> DEFINE N == Len(parts)
           G == [p \in (1..N) \X Seq(Cell) |-> p[2] \o parts[p[1]]]
<1>1. N \in Nat /\ \A n \in 1..N : parts[n] \in Seq(Cell)
  OBVIOUS
<1>2. ASSUME NEW n \in 1..N, NEW v \in Seq(Cell)
      PROVE  G[<<n, v>>] = v \o parts[n] /\ G[<<n, v>>] \in Seq(Cell)
  <2>1. G[<<n, v>>] = v \o parts[n]
    OBVIOUS
  <2>2. QED
    BY <1>1, <2>1, JoinType
<1>3. <<>> \in Seq(Cell)
  OBVIOUS
<1> HIDE DEF G
<1>4. PICK F : F \in [0..N -> Seq(Cell)] /\ Computes(F, N, <<>>, G)
  BY <1>1, <1>2, <1>3, Recursion
<1>5. \A n \in 0..N : F[n] = IF n = 0 THEN <<>> ELSE G[<<n, F[n - 1]>>]
  BY <1>4 DEF Computes
<1>6. F[0] = <<>>
  <2>1. 0 \in 0..N
    BY <1>1
  <2>2. QED
    BY <1>5, <2>1
<1>7. ASSUME NEW n \in 1..N PROVE F[n] = F[n - 1] \o parts[n]
  <2>1. n \in 0..N /\ n # 0 /\ n - 1 \in 0..N
    BY <1>1
  <2>2. F[n - 1] \in Seq(Cell)
    BY <1>4, <2>1
  <2>3. QED
    BY <1>2, <1>5, <2>1, <2>2
<1>8. QED
  BY <1>4, <1>6, <1>7 DEF Joins

LEMMA Flattened ==
    ASSUME NEW parts \in Seq(Seq(Cell)), NEW F, Joins(F, parts)
    PROVE  FlattenSeq(parts) = F[Len(parts)]
<1> DEFINE N == Len(parts)
           Table(f) == f = [i \in 1..Len(parts) |-> IF i = 1 THEN parts[i] ELSE f[i - 1] \o parts[i]]
           g == CHOOSE f : Table(f)
<1>1. N \in Nat /\ \A n \in 1..N : parts[n] \in Seq(Cell)
  OBVIOUS
<1>2. /\ F[0] = <<>> /\ \A n \in 1..N : F[n] = F[n - 1] \o parts[n]
      /\ \A n \in 0..N : F[n] \in Seq(Cell)
  BY DEF Joins
<1>3. CASE N = 0
  <2>1. parts = <<>>
    BY <1>3
  <2>2. FlattenSeq(parts) = parts
    BY <1>3 DEF FlattenSeq
  <2>3. QED
    BY <1>2, <1>3, <2>1, <2>2
<1>4. CASE N # 0
  <2> DEFINE h == [i \in 1..N |-> F[i]]
  <2>1. ASSUME NEW i \in 1..N PROVE h[i] = IF i = 1 THEN parts[i] ELSE h[i - 1] \o parts[i]
    <3>1. CASE i = 1
      <4>0. 1 \in 1..N /\ 1 - 1 = 0
        BY <3>1
      <4>1. F[1] = F[0] \o parts[1] /\ parts[1] \in Seq(Cell)
        BY <1>1, <1>2, <4>0
      <4>2. <<>> \o parts[1] = parts[1]
        BY <4>1, JoinEmpty
      <4>3. QED
        BY <1>2, <3>1, <4>1, <4>2
    <3>2. CASE i # 1
      <4>1. i - 1 \in 1..N
        BY <1>1, <3>2
      <4>2. QED
        BY <1>2, <3>2, <4>1
    <3>3. QED
      BY <3>1, <3>2
  <2>2. Table(h)
    BY <2>1
  <2>3. Table(g)
    BY <2>2, Zenon
  <2>4. FlattenSeq(parts) = g[N]
    BY <1>4 DEF FlattenSeq
  <2> HIDE DEF g, h
  <2>5. \A i \in 1..N : g[i] = IF i = 1 THEN parts[i] ELSE g[i - 1] \o parts[i]
    BY <2>3
  <2> HIDE DEF Table
  <2> DEFINE T == {n \in Nat : n + 1 <= N => g[n + 1] = F[n + 1]}
  <2>6. 0 \in T
    <3>1. 1 \in 1..N /\ 0 + 1 = 1
      BY <1>1, <1>4
    <3>2. g[1] = parts[1] /\ F[1] = F[0] \o parts[1] /\ parts[1] \in Seq(Cell)
      <4>1. 1 - 1 = 0
        OBVIOUS
      <4>2. QED
        BY <1>1, <1>2, <2>5, <3>1, <4>1
    <3>3. <<>> \o parts[1] = parts[1]
      BY <3>2, JoinEmpty
    <3>4. QED
      BY <1>2, <3>1, <3>2, <3>3
  <2>7. ASSUME NEW n \in Nat, n \in T PROVE n + 1 \in T
    <3>1. SUFFICES ASSUME (n + 1) + 1 <= N PROVE g[(n + 1) + 1] = F[(n + 1) + 1]
      OBVIOUS
    <3>2. (n + 1) + 1 \in 1..N /\ ((n + 1) + 1) - 1 = n + 1 /\ (n + 1) + 1 # 1 /\ n + 1 <= N
      BY <1>1, <3>1
    <3>3. g[n + 1] = F[n + 1]
      BY <2>7, <3>2
    <3>4. /\ g[(n + 1) + 1] = g[n + 1] \o parts[(n + 1) + 1]
          /\ F[(n + 1) + 1] = F[n + 1] \o parts[(n + 1) + 1]
      <4> DEFINE j == (n + 1) + 1
      <4>1. j \in 1..N /\ j - 1 = n + 1 /\ j # 1
        BY <3>2
      <4> HIDE DEF j
      <4>2. g[j] = g[j - 1] \o parts[j] /\ F[j] = F[j - 1] \o parts[j]
        BY <1>2, <2>5, <4>1
      <4>3. QED
        BY <4>1, <4>2 DEF j
    <3>5. QED
      BY <3>3, <3>4
  <2> HIDE DEF T
  <2>8. \A n \in Nat : n \in T
    BY <2>6, <2>7, Induction
  <2>9. N - 1 \in Nat /\ (N - 1) + 1 = N
    BY <1>1, <1>4
  <2>10. N - 1 \in T
    BY <2>8, <2>9
  <2>11. g[N] = F[N]
    BY <2>9, <2>10 DEF T
  <2>12. QED
    BY <2>4, <2>11
<1>5. QED
  BY <1>3, <1>4

LEMMA FlattenType ==
    ASSUME NEW parts \in Seq(Seq(Cell))
    PROVE  FlattenSeq(parts) \in Seq(Cell)
<1>1. PICK F : Joins(F, parts)
  BY JoinsExist
<1>2. FlattenSeq(parts) = F[Len(parts)]
  BY <1>1, Flattened
<1>3. Len(parts) \in 0..Len(parts)
  OBVIOUS
<1>4. QED
  BY <1>1, <1>2, <1>3 DEF Joins

LEMMA FlattenEmpty == FlattenSeq(<<>>) = <<>>
BY DEF FlattenSeq

LEMMA FlattenAppend ==
    ASSUME NEW parts \in Seq(Seq(Cell)), NEW s \in Seq(Cell)
    PROVE  FlattenSeq(Append(parts, s)) = FlattenSeq(parts) \o s
<1> DEFINE N == Len(parts)
           more == Append(parts, s)
<1>1. /\ N \in Nat /\ more \in Seq(Seq(Cell)) /\ Len(more) = N + 1 /\ more[N + 1] = s
      /\ \A n \in 1..N : more[n] = parts[n]
  OBVIOUS
<1> HIDE DEF more
<1>2. PICK F : Joins(F, more)
  BY <1>1, JoinsExist
<1> DEFINE H == [n \in 0..N |-> F[n]]
<1>3. Joins(H, parts)
  <2>1. \A n \in 0..N : n \in 0..Len(more)
    BY <1>1
  <2>2. H \in [0..N -> Seq(Cell)]
    BY <1>2, <2>1 DEF Joins
  <2>3. H[0] = <<>>
    BY <1>1, <1>2 DEF Joins
  <2>4. ASSUME NEW n \in 1..N PROVE H[n] = H[n - 1] \o parts[n]
    <3>1. n \in 1..Len(more) /\ n \in 0..N /\ n - 1 \in 0..N
      BY <1>1
    <3>2. F[n] = F[n - 1] \o more[n]
      BY <1>2, <3>1 DEF Joins
    <3>3. QED
      BY <1>1, <3>1, <3>2
  <2> HIDE DEF H
  <2>5. QED
    BY <2>2, <2>3, <2>4 DEF Joins
<1>4. FlattenSeq(parts) = F[N]
  <2>1. N \in 0..N
    BY <1>1
  <2>2. H[N] = F[N]
    BY <2>1
  <2> HIDE DEF H
  <2>3. QED
    BY <1>3, <2>2, Flattened
<1>5. FlattenSeq(more) = F[N + 1] /\ F[N + 1] = F[N] \o s
  <2>1. N + 1 \in 1..Len(more) /\ (N + 1) - 1 = N
    BY <1>1
  <2>2. F[N + 1] = F[(N + 1) - 1] \o more[N + 1]
    BY <1>2, <2>1 DEF Joins
  <2>3. FlattenSeq(more) = F[Len(more)]
    BY <1>1, <1>2, Flattened
  <2>4. QED
    BY <1>1, <2>1, <2>2, <2>3
<1>6. QED
  BY <1>4, <1>5 DEF more

LEMMA FlattenFirst ==
    ASSUME NEW parts \in Seq(Seq(Cell)), parts # <<>>
    PROVE  FlattenSeq(parts) = Head(parts) \o FlattenSeq(Tail(parts))
<1> DEFINE first == Head(parts)
           rest == Tail(parts)
           N == Len(rest)
<1>1. /\ N \in Nat /\ rest \in Seq(Seq(Cell)) /\ Len(parts) = N + 1 /\ parts[1] = first
      /\ first \in Seq(Cell) /\ \A n \in 1..N : rest[n] = parts[n + 1] /\ rest[n] \in Seq(Cell)
  OBVIOUS
<1> HIDE DEF first, rest
<1>2. PICK F : Joins(F, parts)
  BY JoinsExist
<1>3. PICK H : Joins(H, rest)
  BY <1>1, JoinsExist
<1> DEFINE T == {n \in Nat : n <= N => F[n + 1] = first \o H[n]}
<1>4. 0 \in T
  <2>1. 1 \in 1..Len(parts) /\ 1 - 1 = 0 /\ 0 + 1 = 1
    BY <1>1
  <2>2. F[1] = F[1 - 1] \o parts[1]
    BY <1>2, <2>1 DEF Joins
  <2>3. F[0] = <<>> /\ H[0] = <<>>
    BY <1>2, <1>3 DEF Joins
  <2>4. F[1] = first
    BY <1>1, <2>1, <2>2, <2>3, JoinEmpty
  <2>5. first \o <<>> = first
    BY <1>1, JoinEmpty
  <2>6. QED
    BY <2>1, <2>3, <2>4, <2>5
<1>5. ASSUME NEW n \in Nat, n \in T PROVE n + 1 \in T
  <2>1. SUFFICES ASSUME n + 1 <= N PROVE F[(n + 1) + 1] = first \o H[n + 1]
    OBVIOUS
  <2>2. F[n + 1] = first \o H[n]
    BY <1>1, <1>5, <2>1, SMTT(20)
  <2> DEFINE i == n + 1
             j == (n + 1) + 1
  <2>3. /\ i \in 1..N /\ i - 1 = n /\ n \in 0..N /\ j \in 1..Len(parts) /\ j - 1 = i
        /\ n + 1 = i /\ i + 1 = j
    BY <1>1, <2>1, SMTT(20)
  <2> HIDE DEF i, j, T
  <2>4. H[i] = H[n] \o rest[i]
    BY <1>3, <2>3 DEF Joins
  <2>5. F[j] = F[i] \o parts[j]
    BY <1>2, <2>3 DEF Joins
  <2>6. rest[i] = parts[j] /\ rest[i] \in Seq(Cell)
    BY <1>1, <2>3
  <2>7. H[n] \in Seq(Cell)
    BY <1>3, <2>3 DEF Joins
  <2>8. (first \o H[n]) \o rest[i] = first \o (H[n] \o rest[i])
    BY <1>1, <2>6, <2>7, JoinAssociative, ZenonT(40)
  <2>9. F[j] = first \o H[i]
    BY <2>2, <2>3, <2>4, <2>5, <2>6, <2>8
  <2>10. QED
    BY <2>9 DEF i, j
<1> HIDE DEF T
<1>6. N \in T
  BY <1>1, <1>4, <1>5, Induction
<1>7. F[N + 1] = first \o H[N]
  BY <1>1, <1>6 DEF T
<1>8. FlattenSeq(parts) = F[N + 1] /\ FlattenSeq(rest) = H[N]
  BY <1>1, <1>2, <1>3, Flattened
<1>9. QED
  BY <1>7, <1>8 DEF first, rest

\* The results of the parsers in turn, one more each time.
Turns(f, parsers, s) ==
    /\ f[0] = Result(<<>>, s)
    /\ \A n \in 1..Len(parsers) : f[n] = Then(f[n - 1], parsers[n])

LEMMA InTurns ==
    ASSUME NEW parsers, Len(parsers) \in Nat, NEW s
    PROVE  \E f : Turns(f, parsers, s) /\ InTurn(parsers, s) = f[Len(parsers)]
<1> DEFINE N == Len(parsers)
           b == Result(<<>>, s)
           Table(f, j) == f = [n \in 0..j |-> IF n = 0 THEN b ELSE Then(f[n - 1], parsers[n])]
           g == CHOOSE f : Table(f, N)
           T == {j \in Nat : \E f : Table(f, j)}
<1>1. 0 \in T
  <2> DEFINE f == [n \in 0..0 |-> b]
  <2>1. Table(f, 0)
    OBVIOUS
  <2>2. \E h : Table(h, 0)
    BY <2>1, Zenon
  <2> HIDE DEF Table
  <2>3. QED
    BY <2>2
<1>2. ASSUME NEW j \in Nat, j \in T PROVE j + 1 \in T
  <2>1. PICK f : Table(f, j)
    BY <1>2, Zenon
  <2> DEFINE h == [n \in 0..(j + 1) |-> IF n = j + 1 THEN Then(f[j], parsers[j + 1]) ELSE f[n]]
  <2>2. \A n \in 0..j : f[n] = IF n = 0 THEN b ELSE Then(f[n - 1], parsers[n])
    BY <2>1
  <2> HIDE DEF b
  <2>3. ASSUME NEW n \in 0..(j + 1)
        PROVE  h[n] = IF n = 0 THEN b ELSE Then(h[n - 1], parsers[n])
    <3>1. CASE n = j + 1
      <4>1. n # 0 /\ n - 1 = j /\ n - 1 \in 0..(j + 1) /\ n - 1 # j + 1
        BY <1>2, <3>1
      <4>2. h[n - 1] = f[j]
        BY <4>1
      <4>3. h[n] = Then(f[j], parsers[j + 1])
        BY <3>1
      <4> HIDE DEF h
      <4>4. QED
        BY <3>1, <4>1, <4>2, <4>3
    <3>2. CASE n # j + 1
      <4>1. n \in 0..j /\ h[n] = f[n] /\ (n # 0 => n - 1 \in 0..(j + 1) /\ n - 1 # j + 1)
        BY <3>2
      <4>2. n # 0 => h[n - 1] = f[n - 1]
        BY <4>1
      <4> HIDE DEF h
      <4>3. QED
        BY <2>2, <4>1, <4>2
    <3>3. QED
      BY <3>1, <3>2
  <2>4. h = [n \in 0..(j + 1) |-> IF n = 0 THEN b ELSE Then(h[n - 1], parsers[n])]
    <3>1. h = [n \in 0..(j + 1) |-> h[n]]
      OBVIOUS
    <3> HIDE DEF h
    <3>2. QED
      BY <2>3, <3>1, Zenon
  <2> HIDE DEF h
  <2>5. \E k : Table(k, j + 1)
    BY <2>4, Zenon
  <2> HIDE DEF Table
  <2>6. QED
    BY <2>5
<1> HIDE DEF T
<1>3. N \in T
  BY <1>1, <1>2, Induction
<1>4. \E f : Table(f, N)
  BY <1>3, Zenon DEF T
<1>5. Table(g, N)
  BY <1>4, Zenon
<1>6. InTurn(parsers, s) = g[N]
  BY Zenon DEF InTurn
<1> HIDE DEF g
<1>7. \A n \in 0..N : g[n] = IF n = 0 THEN b ELSE Then(g[n - 1], parsers[n])
  BY <1>5
<1> HIDE DEF Table, b
<1>8. g[0] = b /\ \A n \in 1..N : g[n] = Then(g[n - 1], parsers[n])
  BY <1>7
<1>9. QED
  BY <1>6, <1>8 DEF Turns, b

-----------------------------------------------------------------------------
(* A parser is local if it takes what it needs from the front and never     *)
(* looks at the rest, and what it finds does not depend on the rest.        *)

Local(p) ==
    \A s \in Seq(Cell) :
        \/ p[s] = {}
        \/ \E v, w : /\ w \in Seq(Cell) /\ p[s] = Result(v, w)
                     /\ \A u \in Seq(Cell) : p[s \o u] = Result(v, w \o u)

LEMMA ThenNone ==
    ASSUME NEW p
    PROVE  Then({}, p) = {}
BY DEF Then

LEMMA ThenFails ==
    ASSUME NEW p, NEW v, NEW w, p[w] = {}
    PROVE  Then(Result(v, w), p) = {}
BY DEF Then, Result

LEMMA ThenReads ==
    ASSUME NEW p, NEW v, NEW w, NEW x, NEW y, p[w] = Result(x, y)
    PROVE  Then(Result(v, w), p) = Result(Append(v, x), y)
<1> DEFINE r == [value |-> v, rest |-> w]
           z == [value |-> x, rest |-> y]
           One(q) == {[value |-> Append(q.value, a.value), rest |-> a.rest] : a \in p[q.rest]}
<1>1. Result(v, w) = {r} /\ p[w] = {z}
  BY DEF Result
<1>2. One(r) = {[value |-> Append(v, x), rest |-> y]}
  <2>1. r.value = v /\ r.rest = w /\ p[r.rest] = {z} /\ z.value = x /\ z.rest = y
    BY <1>1
  <2> HIDE DEF r, z
  <2>2. One(r) = {[value |-> Append(r.value, a.value), rest |-> a.rest] : a \in {z}}
    BY <2>1
  <2>3. {[value |-> Append(r.value, a.value), rest |-> a.rest] : a \in {z}}
        = {[value |-> Append(r.value, z.value), rest |-> z.rest]}
    OBVIOUS
  <2>4. QED
    BY <2>1, <2>2, <2>3
<1>3. Then({r}, p) = UNION {One(q) : q \in {r}}
  BY DEF Then
<1> HIDE DEF One
<1>4. UNION {One(q) : q \in {r}} = One(r)
  OBVIOUS
<1>5. QED
  BY <1>1, <1>2, <1>3, <1>4 DEF Result

LEMMA InTurnLocal ==
    ASSUME NEW parsers, Len(parsers) \in Nat, \A n \in 1..Len(parsers) : Local(parsers[n])
    PROVE  Local([t \in Seq(Cell) |-> InTurn(parsers, t)])
<1> DEFINE N == Len(parsers)
           P == [t \in Seq(Cell) |-> InTurn(parsers, t)]
           Same(f, n, s, v, w) ==
               \A u \in Seq(Cell) : \A h : Turns(h, parsers, s \o u) => h[n] = Result(v, w \o u)
<1> SUFFICES ASSUME NEW s \in Seq(Cell)
             PROVE  \/ P[s] = {}
                    \/ \E v, w : /\ w \in Seq(Cell) /\ P[s] = Result(v, w)
                                 /\ \A u \in Seq(Cell) : P[s \o u] = Result(v, w \o u)
  BY DEF Local
<1>1. PICK f : Turns(f, parsers, s) /\ InTurn(parsers, s) = f[N]
  BY InTurns
<1> DEFINE Good(n) == f[n] = {} \/ \E v, w : w \in Seq(Cell) /\ f[n] = Result(v, w) /\ Same(f, n, s, v, w)
           T == {n \in Nat : n <= N => Good(n)}
<1> HIDE DEF Same
<1>2. Good(0)
  <2>1. f[0] = Result(<<>>, s)
    BY <1>1 DEF Turns
  <2>2. Same(f, 0, s, <<>>, s)
    BY DEF Turns, Same
  <2>3. QED
    BY <2>1, <2>2
<1>3. ASSUME NEW n \in Nat, n + 1 <= N, Good(n) PROVE Good(n + 1)
  <2> DEFINE i == n + 1
             p == parsers[i]
  <2>1. i \in 1..N /\ i - 1 = n
    BY <1>3
  <2>2. f[i] = Then(f[n], p) /\ Local(p)
    BY <1>1, <2>1 DEF Turns
  <2>3. \A u \in Seq(Cell) : \A h : Turns(h, parsers, s \o u) => h[i] = Then(h[n], p)
    BY <2>1 DEF Turns
  <2> HIDE DEF p, i
  <2>4. CASE f[n] = {}
    <3>1. f[i] = {}
      BY <2>2, <2>4, ThenNone
    <3>2. QED
      BY <3>1 DEF i
  <2>5. CASE f[n] # {}
    <3>1. PICK v, w : w \in Seq(Cell) /\ f[n] = Result(v, w) /\ Same(f, n, s, v, w)
      BY <1>3, <2>5
    <3>2. CASE p[w] = {}
      <4>1. f[i] = {}
        BY <2>2, <3>1, <3>2, ThenFails
      <4>2. QED
        BY <4>1 DEF i
    <3>3. CASE p[w] # {}
      <4>1. PICK x, y : /\ y \in Seq(Cell) /\ p[w] = Result(x, y)
                        /\ \A u \in Seq(Cell) : p[w \o u] = Result(x, y \o u)
        BY <2>2, <3>1, <3>3 DEF Local
      <4>2. f[i] = Result(Append(v, x), y)
        BY <2>2, <3>1, <4>1, ThenReads
      <4>3. ASSUME NEW u \in Seq(Cell), NEW h, Turns(h, parsers, s \o u)
            PROVE  h[i] = Result(Append(v, x), y \o u)
        <5>1. h[n] = Result(v, w \o u)
          BY <3>1, <4>3 DEF Same
        <5>2. h[i] = Then(Result(v, w \o u), p)
          BY <2>3, <4>3, <5>1
        <5>3. p[w \o u] = Result(x, y \o u)
          BY <4>1
        <5>4. QED
          BY <5>2, <5>3, ThenReads
      <4>4. Same(f, i, s, Append(v, x), y)
        BY <4>3 DEF Same
      <4>5. Good(i)
        BY <4>1, <4>2, <4>4
      <4>6. QED
        BY <4>5 DEF i
    <3>4. QED
      BY <3>2, <3>3
  <2>6. QED
    BY <2>4, <2>5
<1> HIDE DEF Good
<1>4. 0 \in T
  BY <1>2
<1>5. ASSUME NEW n \in Nat, n \in T PROVE n + 1 \in T
  BY <1>3, <1>5
<1> HIDE DEF T
<1>6. N \in T
  BY <1>4, <1>5, Induction
<1>7. Good(N)
  BY <1>6 DEF T
<1>8. P[s] = f[N]
  BY <1>1
<1>9. ASSUME NEW v, NEW w, Same(f, N, s, v, w), NEW u \in Seq(Cell)
      PROVE  P[s \o u] = Result(v, w \o u)
  <2>1. s \o u \in Seq(Cell)
    BY JoinType
  <2>2. PICK h : Turns(h, parsers, s \o u) /\ InTurn(parsers, s \o u) = h[N]
    BY InTurns
  <2>3. h[N] = Result(v, w \o u)
    BY <1>9, <2>2 DEF Same
  <2>4. QED
    BY <2>1, <2>2, <2>3
<1> HIDE DEF P
<1>10. QED
  BY <1>7, <1>8, <1>9 DEF Good

\* A parser reads a value of its encoding, whatever follows.
Reads(p, e, v) == e \in Seq(Cell) /\ \A t \in Seq(Cell) : p[e \o t] = Result(v, t)

LEMMA IsSequence ==
    ASSUME NEW S, NEW n \in Nat, NEW u, u \in [1..n -> S]
    PROVE  u \in Seq(S) /\ Len(u) = n
OBVIOUS

LEMMA InTurnReads ==
    ASSUME NEW parsers, NEW parts \in Seq(Seq(Cell)), NEW vs, Len(parsers) = Len(parts),
           vs = [n \in 1..Len(parts) |-> vs[n]],
           \A n \in 1..Len(parts) : Reads(parsers[n], parts[n], vs[n])
    PROVE  Reads([t \in Seq(Cell) |-> InTurn(parsers, t)], FlattenSeq(parts), vs)
<1> DEFINE N == Len(parts)
           Up(n) == [i \in 1..n |-> vs[i]]
           P == [t \in Seq(Cell) |-> InTurn(parsers, t)]
<1>1. N \in Nat /\ Len(parsers) = N /\ \A n \in 1..N : parts[n] \in Seq(Cell)
  OBVIOUS
<1>2. PICK F : Joins(F, parts)
  BY JoinsExist
<1>3. /\ F[0] = <<>> /\ \A n \in 1..N : F[n] = F[n - 1] \o parts[n]
      /\ \A n \in 0..N : F[n] \in Seq(Cell)
  BY <1>2 DEF Joins
<1> DEFINE Good(n) ==
               \A t \in Seq(Cell) : \A f : Turns(f, parsers, F[n] \o t) => f[n] = Result(Up(n), t)
           T == {n \in Nat : n <= N => Good(n)}
<1>4. Good(0)
  <2>1. ASSUME NEW t \in Seq(Cell), NEW f, Turns(f, parsers, F[0] \o t)
        PROVE  f[0] = Result(Up(0), t)
    <3>1. F[0] \o t = t
      BY <1>3, JoinEmpty
    <3>2. Up(0) = <<>>
      OBVIOUS
    <3>3. QED
      BY <2>1, <3>1, <3>2 DEF Turns
  <2>2. QED
    BY <2>1
<1>5. ASSUME NEW n \in Nat, n + 1 <= N, Good(n) PROVE Good(n + 1)
  <2> DEFINE i == n + 1
  <2>1. i \in 1..N /\ i - 1 = n /\ n \in 0..N
    BY <1>1, <1>5
  <2> HIDE DEF i
  <2>2. ASSUME NEW t \in Seq(Cell), NEW f, Turns(f, parsers, F[i] \o t)
        PROVE  f[i] = Result(Up(i), t)
    <3>1. parts[i] \in Seq(Cell) /\ F[n] \in Seq(Cell) /\ F[i] = F[n] \o parts[i]
      BY <1>1, <1>3, <2>1
    <3>2. parts[i] \o t \in Seq(Cell) /\ F[i] \o t = F[n] \o (parts[i] \o t)
      <4>1. parts[i] \o t \in Seq(Cell)
        BY <3>1, JoinType
      <4>2. (F[n] \o parts[i]) \o t = F[n] \o (parts[i] \o t)
        BY <3>1, JoinAssociative
      <4>3. QED
        BY <3>1, <4>1, <4>2
    <3>3. f[n] = Result(Up(n), parts[i] \o t)
      BY <1>5, <2>2, <3>2
    <3>4. f[i] = Then(f[n], parsers[i])
      BY <1>1, <2>1, <2>2 DEF Turns
    <3>5. parsers[i][parts[i] \o t] = Result(vs[i], t)
      BY <2>1 DEF Reads
    <3>6. Append(Up(n), vs[i]) = Up(i)
      <4> DEFINE S == {vs[j] : j \in 1..N}
      <4>1. \A j \in 1..N : vs[j] \in S
        OBVIOUS
      <4> HIDE DEF S
      <4>2. Up(n) \in Seq(S) /\ Len(Up(n)) = n /\ vs[i] \in S
        <5>1. \A j \in 1..n : vs[j] \in S
          BY <1>1, <2>1, <4>1
        <5>2. n \in Nat /\ Up(n) = [j \in 1..n |-> vs[j]] /\ vs[i] \in S
          BY <2>1, <4>1
        <5>3. Up(n) \in [1..n -> S]
          BY <5>1, <5>2
        <5> HIDE DEF Up
        <5>4. Up(n) \in Seq(S) /\ Len(Up(n)) = n
          BY <5>2, <5>3, IsSequence
        <5>5. QED
          BY <5>2, <5>4
      <4>3. Append(Up(n), vs[i]) = [j \in 1..n + 1 |-> IF j = n + 1 THEN vs[i] ELSE Up(n)[j]]
        BY <4>2
      <4>4. n + 1 = i
        BY <2>1
      <4>5. QED
        BY <4>3, <4>4
    <3> HIDE DEF Up
    <3>7. QED
      <4>1. f[i] = Then(Result(Up(n), parts[i] \o t), parsers[i])
        BY <3>3, <3>4
      <4>2. Then(Result(Up(n), parts[i] \o t), parsers[i]) = Result(Append(Up(n), vs[i]), t)
        BY <3>5, ThenReads
      <4>3. QED
        BY <3>6, <4>1, <4>2
  <2>3. Good(i)
    BY <2>2
  <2>4. QED
    BY <2>3 DEF i
<1> HIDE DEF Good
<1>6. 0 \in T
  BY <1>4
<1>7. ASSUME NEW n \in Nat, n \in T PROVE n + 1 \in T
  BY <1>5, <1>7
<1> HIDE DEF T
<1>8. N \in T
  BY <1>1, <1>6, <1>7, Induction
<1>9. Good(N)
  BY <1>8 DEF T
<1>10. FlattenSeq(parts) = F[N] /\ F[N] \in Seq(Cell) /\ Up(N) = vs
  BY <1>1, <1>2, <1>3, Flattened
<1>11. ASSUME NEW t \in Seq(Cell) PROVE P[F[N] \o t] = Result(vs, t)
  <2>1. F[N] \o t \in Seq(Cell)
    BY <1>10, JoinType
  <2>2. PICK f : Turns(f, parsers, F[N] \o t) /\ InTurn(parsers, F[N] \o t) = f[N]
    BY <1>1, InTurns
  <2>3. f[N] = Result(vs, t)
    BY <1>9, <1>10, <2>2 DEF Good
  <2>4. QED
    BY <2>1, <2>2, <2>3
<1> HIDE DEF P, Up
<1>12. Reads(P, FlattenSeq(parts), vs)
  BY <1>10, <1>11 DEF Reads
<1>13. QED
  BY <1>12 DEF P

-----------------------------------------------------------------------------
(* Fields of one value.                                                     *)

ScalarKinds == {"text", "blob", "bool", "int"}
ScalarParser(kind) == [t \in Seq(Cell) |-> DecodeScalar(kind, t)]

LEMMA TakeJoin ==
    ASSUME NEW s \in Seq(Cell), NEW u \in Seq(Cell), NEW n \in 0..Len(s)
    PROVE  /\ SubSeq(s \o u, 1, n) = SubSeq(s, 1, n)
           /\ Drop(s \o u, n) = Drop(s, n) \o u
<1> DEFINE p == SubSeq(s, 1, n)
           q == Drop(s, n)
<1>1. p \in Seq(Cell) /\ Len(p) = n /\ q \in Seq(Cell) /\ s = p \o q
  BY DropType, TakeType, JoinSplit
<1> HIDE DEF p, q
<1>2. s \o u = p \o (q \o u) /\ q \o u \in Seq(Cell)
  <2>1. (p \o q) \o u = p \o (q \o u)
    BY <1>1, JoinAssociative, SMTT(20)
  <2>2. QED
    BY <1>1, <2>1, JoinType
<1>3. SubSeq(p \o (q \o u), 1, Len(p)) = p /\ Drop(p \o (q \o u), Len(p)) = q \o u
  BY <1>1, <1>2, SplitJoined
<1>4. SubSeq(s \o u, 1, n) = p /\ Drop(s \o u, n) = q \o u
  BY <1>1, <1>2, <1>3
<1>5. QED
  BY <1>4 DEF p, q

LEMMA UnpackJoin ==
    ASSUME NEW s \in Seq(Cell), NEW u \in Seq(Cell), Len(s) >= 2
    PROVE  Unpack(s \o u) = Unpack(s)
<1>1. (s \o u)[1] = s[1] /\ (s \o u)[2] = s[2]
  OBVIOUS
<1>2. QED
  BY <1>1 DEF Unpack

LEMMA BlobReads ==
    ASSUME NEW v \in Seq(Cell), Len(v) < Base * Base, NEW t \in Seq(Cell)
    PROVE  EncodeBlob(v) \in Seq(Cell) /\ DecodeBlob(EncodeBlob(v) \o t) = Result(v, t)
<1> DEFINE n == Len(v)
           h == Pack(n)
           s == EncodeBlob(v) \o t
<1>1. n \in 0..Base * Base - 1
  BY WordPositive
<1>2. h \in Seq(Cell) /\ Len(h) = 2
  BY <1>1, PackType
<1>3. v \o t \in Seq(Cell) /\ Len(v \o t) = n + Len(t) /\ Len(t) \in Nat /\ n \in Nat
  BY JoinType
<1>4. Unpack(h \o (v \o t)) = n
  BY <1>1, <1>3, UnpackPacked
<1> HIDE DEF h
<1>5. EncodeBlob(v) = h \o v /\ h \o v \in Seq(Cell)
  BY <1>2, JoinType DEF EncodeBlob, h
<1>6. s = h \o (v \o t)
  BY <1>2, <1>5, JoinAssociative, SMTT(20)
<1> HIDE DEF s
<1>7. Len(s) = 2 + (n + Len(t)) /\ Unpack(s) = n
  BY <1>2, <1>3, <1>4, <1>6, JoinType, ZenonT(40)
<1>8. Drop(s, 2) = v \o t
  BY <1>2, <1>3, <1>6, SplitJoined
<1>9. SubSeq(v \o t, 1, n) = v /\ Drop(v \o t, n) = t
  BY SplitJoined
<1>10. ~ (Len(s) < 2 \/ Len(s) - 2 < Unpack(s))
  BY <1>3, <1>7
<1>11. DecodeBlob(s) = Result(SubSeq(v \o t, 1, n), Drop(v \o t, n))
  BY <1>7, <1>8, <1>10 DEF DecodeBlob, HeaderSize
<1>12. QED
  BY <1>5, <1>9, <1>11 DEF s

\* What a blob, read, depends on.
LEMMA BlobLocal ==
    ASSUME NEW s \in Seq(Cell), DecodeBlob(s) # {}
    PROVE  \E v \in Seq(Cell), w \in Seq(Cell) :
              /\ DecodeBlob(s) = Result(v, w)
              /\ \A u \in Seq(Cell) : DecodeBlob(s \o u) = Result(v, w \o u)
<1> DEFINE n == Unpack(s)
           d == Drop(s, 2)
           v == SubSeq(d, 1, n)
           w == Drop(d, n)
<1>1. Len(s) >= 2 /\ ~ (Len(s) - 2 < n) /\ Len(s) \in Nat
  BY DEF DecodeBlob, HeaderSize
<1>2. n \in Nat /\ n <= Len(s) - 2
  BY <1>1, UnpackType, WordPositive
<1>3. DecodeBlob(s) = Result(v, w)
  BY <1>1 DEF DecodeBlob, HeaderSize
<1>4. d \in Seq(Cell) /\ Len(d) = Len(s) - 2
  BY <1>1, DropType
<1> HIDE DEF n, d
<1>5. n \in 0..Len(d)
  BY <1>2, <1>4
<1>6. v \in Seq(Cell) /\ w \in Seq(Cell)
  BY <1>4, <1>5, DropType, TakeType
<1>7. ASSUME NEW u \in Seq(Cell) PROVE DecodeBlob(s \o u) = Result(v, w \o u)
  <2> DEFINE x == s \o u
  <2>1. Len(x) = Len(s) + Len(u) /\ Len(u) \in Nat
    BY JoinType
  <2>2. Unpack(x) = n
    BY <1>1, UnpackJoin DEF n
  <2>3. Drop(x, 2) = d \o u
    <3>1. 2 \in 0..Len(s)
      BY <1>1
    <3>2. QED
      BY <3>1, TakeJoin DEF d
  <2>4. SubSeq(d \o u, 1, n) = v /\ Drop(d \o u, n) = w \o u
    BY <1>4, <1>5, TakeJoin
  <2> HIDE DEF x, v, w
  <2>5. ~ (Len(x) < 2 \/ Len(x) - 2 < Unpack(x))
    BY <1>1, <2>1, <2>2, <1>2
  <2>6. DecodeBlob(x) = Result(SubSeq(d \o u, 1, n), Drop(d \o u, n))
    BY <2>2, <2>3, <2>5 DEF DecodeBlob, HeaderSize
  <2>7. QED
    BY <2>4, <2>6 DEF x
<1> HIDE DEF v, w
<1>8. QED
  BY <1>3, <1>6, <1>7

\* A text is a blob that is valid.
LEMMA TextOfBlob ==
    ASSUME NEW s, NEW v, NEW w, DecodeBlob(s) = Result(v, w)
    PROVE  DecodeText(s) = IF IsText(v) THEN Result(v, w) ELSE {}
<1> DEFINE r == [value |-> v, rest |-> w]
<1>1. r.value = v /\ Result(v, w) = {r}
  BY DEF Result
<1> HIDE DEF r
<1>2. DecodeText(s) = {q \in {r} : IsText(q.value)}
  BY <1>1 DEF DecodeText
<1> DEFINE Good(q) == IsText(q.value)
<1>3. Good(r) <=> IsText(v)
  BY <1>1
<1>4. DecodeText(s) = {q \in {r} : Good(q)}
  BY <1>2
<1> HIDE DEF Good
<1>5. {q \in {r} : Good(q)} = IF Good(r) THEN {r} ELSE {}
  OBVIOUS
<1>6. QED
  BY <1>1, <1>3, <1>4, <1>5

LEMMA IntReads ==
    ASSUME NEW v \in Int, -(Base * Base) <= 2 * v, 2 * v < Base * Base, NEW t \in Seq(Cell)
    PROVE  /\ EncodeSignedInt(v) \in Seq(Cell)
           /\ DecodeSignedInt(EncodeSignedInt(v) \o t) = Result(v, t)
<1> DEFINE n == v % (Base * Base)
           h == Pack(n)
           s == h \o t
<1>1. /\ n \in 0..Base * Base - 1
      /\ v = IF 2 * n < Base * Base THEN n ELSE n - Base * Base
  BY SignedModulo
<1>2. EncodeSignedInt(v) = h
  BY DEF EncodeSignedInt
<1> HIDE DEF n
<1>3. h \in Seq(Cell) /\ Len(h) = 2 /\ Unpack(s) = n
  BY <1>1, PackType, UnpackPacked
<1> HIDE DEF h
<1>4. Len(s) = 2 + Len(t) /\ Len(t) \in Nat /\ Drop(s, 2) = t
  <2>0. h \in Seq(Cell)
    BY <1>3
  <2>1. Len(h \o t) = Len(h) + Len(t) /\ Len(t) \in Nat
    BY <2>0
  <2>2. Drop(h \o t, Len(h)) = t
    BY <1>3, SplitJoined
  <2>3. QED
    BY <1>3, <2>1, <2>2
<1> HIDE DEF s
<1>5. ~ (Len(s) < 2)
  BY <1>4
<1>6. DecodeSignedInt(s) = Result(IF 2 * n < Base * Base THEN n ELSE n - Base * Base, t)
  BY <1>3, <1>4, <1>5 DEF DecodeSignedInt, HeaderSize
<1>7. DecodeSignedInt(s) = Result(v, t)
  BY <1>1, <1>6
<1>8. QED
  BY <1>2, <1>3, <1>7 DEF s

LEMMA IntLocal ==
    ASSUME NEW s \in Seq(Cell), DecodeSignedInt(s) # {}
    PROVE  \E v, w :
              /\ w \in Seq(Cell) /\ DecodeSignedInt(s) = Result(v, w)
              /\ \A u \in Seq(Cell) : DecodeSignedInt(s \o u) = Result(v, w \o u)
<1> DEFINE Value(x) == IF 2 * Unpack(x) < Base * Base THEN Unpack(x) ELSE Unpack(x) - Base * Base
           w == Drop(s, 2)
<1>1. Len(s) >= 2 /\ Len(s) \in Nat /\ 2 \in 0..Len(s)
  BY DEF DecodeSignedInt, HeaderSize
<1>2. \A x \in Seq(Cell) : Len(x) >= 2 => DecodeSignedInt(x) = Result(Value(x), Drop(x, 2))
  BY DEF DecodeSignedInt, HeaderSize
<1>3. w \in Seq(Cell)
  BY <1>1, DropType
<1>4. ASSUME NEW u \in Seq(Cell) PROVE DecodeSignedInt(s \o u) = Result(Value(s), w \o u)
  <2>1. s \o u \in Seq(Cell) /\ Len(s \o u) >= 2
    BY <1>1, JoinType
  <2>2. Unpack(s \o u) = Unpack(s)
    BY <1>1, UnpackJoin
  <2>3. Drop(s \o u, 2) = w \o u
    BY <1>1, TakeJoin
  <2>4. Value(s \o u) = Value(s)
    BY <2>2
  <2> HIDE DEF Value, w
  <2>5. QED
    BY <1>2, <2>1, <2>3, <2>4
<1>5. DecodeSignedInt(s) = Result(Value(s), w)
  BY <1>1, <1>2
<1> HIDE DEF Value, w
<1>6. QED
  BY <1>3, <1>4, <1>5

LEMMA BoolReads ==
    ASSUME NEW v \in BOOLEAN, NEW t \in Seq(Cell)
    PROVE  EncodeBool(v) \in Seq(Cell) /\ DecodeBool(EncodeBool(v) \o t) = Result(v, t)
<1> DEFINE c == IF v THEN 1 ELSE 0
           s == <<c>> \o t
<1>1. c \in Cell /\ EncodeBool(v) = <<c>>
  BY WireAssumption DEF Cell, EncodeBool
<1>2. v <=> c # 0
  <2>1. CASE v
    BY <2>1
  <2>2. CASE ~v
    BY <2>2
  <2>3. QED
    BY <2>1, <2>2
<1> HIDE DEF c
<1>3. s \in Seq(Cell) /\ Head(s) = c /\ Tail(s) = t /\ s # <<>>
  BY <1>1
<1> HIDE DEF s
<1>4. DecodeBool(s) = Result(c # 0, t)
  BY <1>3 DEF DecodeBool
<1>5. v = (c # 0)
  BY <1>2
<1>6. QED
  BY <1>1, <1>4, <1>5 DEF s

LEMMA BoolLocal ==
    ASSUME NEW s \in Seq(Cell), DecodeBool(s) # {}
    PROVE  \E v \in BOOLEAN, w \in Seq(Cell) :
              /\ DecodeBool(s) = Result(v, w)
              /\ \A u \in Seq(Cell) : DecodeBool(s \o u) = Result(v, w \o u)
<1> DEFINE v == Head(s) # 0
           w == Tail(s)
<1>1. s # <<>>
  BY DEF DecodeBool
<1>2. v \in BOOLEAN /\ w \in Seq(Cell) /\ DecodeBool(s) = Result(v, w)
  BY <1>1 DEF DecodeBool
<1>3. ASSUME NEW u \in Seq(Cell) PROVE DecodeBool(s \o u) = Result(v, w \o u)
  <2>1. s \o u # <<>> /\ Head(s \o u) = Head(s) /\ Tail(s \o u) = w \o u
    BY <1>1
  <2>2. QED
    BY <2>1 DEF DecodeBool
<1> HIDE DEF v, w
<1>4. QED
  BY <1>2, <1>3

LEMMA ScalarReads ==
    ASSUME NEW kind, NEW v, FitsScalar(kind, v)
    PROVE  Reads(ScalarParser(kind), EncodeScalar(kind, v), v)
<1> SUFFICES /\ EncodeScalar(kind, v) \in Seq(Cell)
             /\ \A t \in Seq(Cell) : DecodeScalar(kind, EncodeScalar(kind, v) \o t) = Result(v, t)
  BY JoinType DEF Reads, ScalarParser
<1>0. <<>> \in Seq(Cell)
  OBVIOUS
<1>1. kind \in ScalarKinds
  BY DEF FitsScalar, ScalarKinds
<1>2. CASE kind = "blob"
  <2>1. v \in Seq(Cell) /\ Len(v) < Base * Base /\ EncodeScalar(kind, v) = EncodeBlob(v)
    BY <1>2 DEF FitsScalar, EncodeScalar
  <2>2. \A s : DecodeScalar(kind, s) = DecodeBlob(s)
    BY <1>2 DEF DecodeScalar
  <2>3. QED
    BY <2>1, <2>2, BlobReads
<1>3. CASE kind = "text"
  <2>1. /\ v \in Seq(Cell) /\ Len(v) < Base * Base /\ IsText(v)
        /\ EncodeScalar(kind, v) = EncodeBlob(v)
    BY <1>3 DEF FitsScalar, EncodeScalar
  <2>2. \A s : DecodeScalar(kind, s) = DecodeText(s)
    BY <1>3 DEF DecodeScalar
  <2>3. QED
    BY <2>1, <2>2, BlobReads, TextOfBlob
<1>4. CASE kind = "bool"
  <2>1. v \in BOOLEAN /\ EncodeScalar(kind, v) = EncodeBool(v)
    BY <1>4 DEF FitsScalar, EncodeScalar
  <2>2. \A s : DecodeScalar(kind, s) = DecodeBool(s)
    BY <1>4 DEF DecodeScalar
  <2>3. QED
    BY <1>0, <2>1, <2>2, BoolReads, Zenon
<1>5. CASE kind = "int"
  <2>1. /\ v \in Int /\ -(Base * Base) <= 2 * v /\ 2 * v < Base * Base
        /\ EncodeScalar(kind, v) = EncodeSignedInt(v)
    BY <1>5 DEF FitsScalar, EncodeScalar
  <2>2. \A s : DecodeScalar(kind, s) = DecodeSignedInt(s)
    BY <1>5 DEF DecodeScalar
  <2>3. QED
    BY <1>0, <2>1, <2>2, IntReads
<1>6. QED
  BY <1>1, <1>2, <1>3, <1>4, <1>5 DEF ScalarKinds

LEMMA ScalarLocal ==
    ASSUME NEW kind \in ScalarKinds
    PROVE  Local(ScalarParser(kind))
<1> SUFFICES ASSUME NEW s \in Seq(Cell), DecodeScalar(kind, s) # {}
             PROVE  \E v, w : /\ w \in Seq(Cell) /\ DecodeScalar(kind, s) = Result(v, w)
                              /\ \A u \in Seq(Cell) : DecodeScalar(kind, s \o u) = Result(v, w \o u)
  BY JoinType DEF Local, ScalarParser
<1>1. CASE kind = "blob"
  <2>1. \A x : DecodeScalar(kind, x) = DecodeBlob(x)
    BY <1>1 DEF DecodeScalar
  <2>2. QED
    BY <2>1, BlobLocal
<1>2. CASE kind = "text"
  <2>1. \A x : DecodeScalar(kind, x) = DecodeText(x)
    BY <1>2 DEF DecodeScalar
  <2>2. DecodeBlob(s) # {}
    BY <2>1 DEF DecodeText
  <2>3. PICK v \in Seq(Cell), w \in Seq(Cell) :
            /\ DecodeBlob(s) = Result(v, w)
            /\ \A u \in Seq(Cell) : DecodeBlob(s \o u) = Result(v, w \o u)
    BY <2>2, BlobLocal
  <2>4. IsText(v) /\ DecodeText(s) = Result(v, w)
    <3>1. DecodeText(s) = IF IsText(v) THEN Result(v, w) ELSE {}
      BY <2>3, TextOfBlob
    <3>2. QED
      BY <2>1, <3>1
  <2>5. \A u \in Seq(Cell) : DecodeText(s \o u) = Result(v, w \o u)
    BY <2>3, <2>4, TextOfBlob
  <2>6. QED
    BY <2>1, <2>4, <2>5
<1>3. CASE kind = "bool"
  <2>1. \A x : DecodeScalar(kind, x) = DecodeBool(x)
    BY <1>3 DEF DecodeScalar
  <2>2. QED
    BY <2>1, BoolLocal
<1>4. CASE kind = "int"
  <2>1. \A x : DecodeScalar(kind, x) = DecodeSignedInt(x)
    BY <1>4 DEF DecodeScalar
  <2>2. QED
    BY <2>1, IntLocal
<1>5. QED
  BY <1>1, <1>2, <1>3, <1>4 DEF ScalarKinds

-----------------------------------------------------------------------------
(* Rows, lists, the optional message, and the fields of a layout.           *)

RowParser(kinds) == [t \in Seq(Cell) |-> DecodeScalars(kinds, t)]
ListParser(kinds) == [t \in Seq(Cell) |-> DecodeList(kinds, t)]
FieldParser(kind) == [t \in Seq(Cell) |-> Decode(kind, t)]
FieldsParser(kinds) == [t \in Seq(Cell) |-> DecodeFields(kinds, t)]
FieldKinds == ScalarKinds \cup {"texts", "sessions", "message?"}

LEMMA RowReads ==
    ASSUME NEW kinds \in Seq(ScalarKinds), NEW row, FitsRow(kinds, row)
    PROVE  Reads(RowParser(kinds), EncodeScalars(kinds, row), row)
<1> DEFINE N == Len(kinds)
           parsers == [i \in 1..N |-> ScalarParser(kinds[i])]
           parts == [i \in 1..N |-> EncodeScalar(kinds[i], row[i])]
<1>1. N \in Nat /\ DOMAIN kinds = 1..N
  OBVIOUS
<1>2. row = [i \in 1..N |-> row[i]] /\ \A i \in 1..N : FitsScalar(kinds[i], row[i])
  BY <1>1 DEF FitsRow
<1>3. \A i \in 1..N : Reads(ScalarParser(kinds[i]), EncodeScalar(kinds[i], row[i]), row[i])
  BY <1>2, ScalarReads
<1>4. \A i \in 1..N : EncodeScalar(kinds[i], row[i]) \in Seq(Cell)
  BY <1>3 DEF Reads
<1>5. parts \in [1..N -> Seq(Cell)]
  BY <1>4
<1>6. parts \in Seq(Seq(Cell)) /\ Len(parts) = N
  BY <1>1, <1>5, IsSequence
<1>7. Len(parsers) = N /\ \A n \in 1..N : Reads(parsers[n], parts[n], row[n])
  BY <1>1, <1>3
<1>8. \A t : DecodeScalars(kinds, t) = InTurn(parsers, t)
  BY <1>1 DEF DecodeScalars, ScalarParser
<1>9. EncodeScalars(kinds, row) = FlattenSeq(parts)
  BY <1>1 DEF EncodeScalars
<1> HIDE DEF parts, parsers
<1>10. Reads([t \in Seq(Cell) |-> InTurn(parsers, t)], FlattenSeq(parts), row)
  BY <1>2, <1>6, <1>7, InTurnReads
<1>11. RowParser(kinds) = [t \in Seq(Cell) |-> InTurn(parsers, t)]
  BY <1>8 DEF RowParser
<1>12. QED
  BY <1>9, <1>10, <1>11

LEMMA RowLocal ==
    ASSUME NEW kinds \in Seq(ScalarKinds)
    PROVE  Local(RowParser(kinds))
<1> DEFINE N == Len(kinds)
           parsers == [i \in 1..N |-> ScalarParser(kinds[i])]
<1>1. N \in Nat /\ DOMAIN kinds = 1..N /\ \A i \in 1..N : kinds[i] \in ScalarKinds
  OBVIOUS
<1>2. Len(parsers) = N /\ \A n \in 1..N : Local(parsers[n])
  BY <1>1, ScalarLocal
<1>3. \A t : DecodeScalars(kinds, t) = InTurn(parsers, t)
  BY <1>1 DEF DecodeScalars, ScalarParser
<1> HIDE DEF parsers
<1>4. Local([t \in Seq(Cell) |-> InTurn(parsers, t)])
  BY <1>1, <1>2, InTurnLocal
<1>5. RowParser(kinds) = [t \in Seq(Cell) |-> InTurn(parsers, t)]
  BY <1>3 DEF RowParser
<1>6. QED
  BY <1>4, <1>5

LEMMA ListReads ==
    ASSUME NEW kinds \in Seq(ScalarKinds), NEW rows, FitsList(kinds, rows)
    PROVE  Reads(ListParser(kinds), EncodeList(kinds, rows), rows)
<1>1. PICK n \in 0..Base * Base - 1 :
          rows = [i \in 1..n |-> rows[i]] /\ \A i \in 1..n : FitsRow(kinds, rows[i])
  BY DEF FitsList
<1> DEFINE parsers == [i \in 1..n |-> RowParser(kinds)]
           parts == [i \in 1..n |-> EncodeScalars(kinds, rows[i])]
           h == Pack(n)
           body == FlattenSeq(parts)
<1>2. n \in Nat
  BY WordPositive
<1>3. DOMAIN rows = 1..n /\ Len(rows) = n
  <2>1. \A f : f = [i \in 1..n |-> rows[i]] => DOMAIN f = 1..n /\ Len(f) = n
    BY <1>2
  <2>2. QED
    BY <1>1, <2>1
<1>4. \A i \in 1..n : Reads(RowParser(kinds), EncodeScalars(kinds, rows[i]), rows[i])
  BY <1>1, RowReads
<1>5. \A i \in 1..n : EncodeScalars(kinds, rows[i]) \in Seq(Cell)
  BY <1>4 DEF Reads
<1>6. parts \in [1..n -> Seq(Cell)]
  BY <1>5
<1>7. parts \in Seq(Seq(Cell)) /\ Len(parts) = n
  BY <1>2, <1>6, IsSequence
<1>8. Len(parsers) = n /\ \A i \in 1..n : Reads(parsers[i], parts[i], rows[i])
  BY <1>2, <1>4
<1>9. EncodeList(kinds, rows) = h \o body
  BY <1>3 DEF EncodeList
<1>10. \A s : Len(s) \in Nat /\ Len(s) >= 2 /\ Unpack(s) = n => DecodeList(kinds, s) = InTurn(parsers, Drop(s, 2))
  BY DEF DecodeList, HeaderSize, RowParser
<1>11. h \in Seq(Cell) /\ Len(h) = 2
  BY PackType
<1> HIDE DEF parts, parsers
<1>12. Reads([t \in Seq(Cell) |-> InTurn(parsers, t)], body, rows)
  BY <1>1, <1>7, <1>8, InTurnReads
<1>13. body \in Seq(Cell) /\ \A t \in Seq(Cell) : InTurn(parsers, body \o t) = Result(rows, t)
  BY <1>12, JoinType DEF Reads
<1>14. \A t \in Seq(Cell) : Unpack(h \o (body \o t)) = n
  BY <1>13, JoinType, UnpackPacked
<1> HIDE DEF h, body
<1>15. h \o body \in Seq(Cell)
  BY <1>11, <1>13, JoinType
<1>16. ASSUME NEW t \in Seq(Cell) PROVE DecodeList(kinds, (h \o body) \o t) = Result(rows, t)
  <2> DEFINE x == body \o t
  <2>1. x \in Seq(Cell) /\ (h \o body) \o t = h \o x
    BY <1>11, <1>13, JoinType, JoinAssociative
  <2>2. Unpack(h \o x) = n /\ InTurn(parsers, x) = Result(rows, t)
    BY <1>13, <1>14
  <2> HIDE DEF x
  <2>3. Len(h \o x) \in Nat /\ Len(h \o x) >= 2
    <3>1. h \in Seq(Cell) /\ Len(x) \in Nat
      BY <1>11, <2>1
    <3>2. Len(h \o x) = Len(h) + Len(x)
      BY <2>1, <3>1
    <3>3. QED
      BY <1>11, <3>1, <3>2
  <2>4. Drop(h \o x, 2) = x
    BY <1>11, <2>1, SplitJoined
  <2>5. QED
    BY <1>10, <2>1, <2>2, <2>3, <2>4
<1>17. \A t \in Seq(Cell) : ListParser(kinds)[(h \o body) \o t] = Result(rows, t)
  BY <1>15, <1>16, JoinType DEF ListParser
<1>18. QED
  BY <1>9, <1>15, <1>17 DEF Reads

LEMMA ListLocal ==
    ASSUME NEW kinds \in Seq(ScalarKinds)
    PROVE  Local(ListParser(kinds))
<1> SUFFICES ASSUME NEW s \in Seq(Cell), DecodeList(kinds, s) # {}
             PROVE  \E v, w : /\ w \in Seq(Cell) /\ DecodeList(kinds, s) = Result(v, w)
                              /\ \A u \in Seq(Cell) : DecodeList(kinds, s \o u) = Result(v, w \o u)
  BY JoinType DEF Local, ListParser
<1> DEFINE n == Unpack(s)
           parsers == [i \in 1..n |-> RowParser(kinds)]
           P == [t \in Seq(Cell) |-> InTurn(parsers, t)]
           d == Drop(s, 2)
<1>1. Len(s) >= 2 /\ Len(s) \in Nat /\ 2 \in 0..Len(s)
  <2>1. ~ (Len(s) < HeaderSize)
    BY Zenon DEF DecodeList
  <2>2. QED
    BY <2>1 DEF HeaderSize
<1>2. n \in Nat
  BY <1>1, UnpackType, WordPositive
<1>3. \A x \in Seq(Cell) : Len(x) >= 2 /\ Unpack(x) = n => DecodeList(kinds, x) = InTurn(parsers, Drop(x, 2))
  BY DEF DecodeList, HeaderSize, RowParser
<1> HIDE DEF n
<1>4. Len(parsers) = n /\ \A i \in 1..n : Local(parsers[i])
  BY <1>2, RowLocal
<1> HIDE DEF parsers
<1>5. Local(P)
  BY <1>2, <1>4, InTurnLocal
<1>6. d \in Seq(Cell)
  BY <1>1, DropType
<1>7. DecodeList(kinds, s) = P[d]
  BY <1>1, <1>3, <1>6 DEF n
<1>8. ASSUME NEW u \in Seq(Cell) PROVE DecodeList(kinds, s \o u) = P[d \o u]
  <2>1. s \o u \in Seq(Cell) /\ Len(s \o u) >= 2 /\ d \o u \in Seq(Cell)
    BY <1>1, <1>6, JoinType
  <2>2. Unpack(s \o u) = n
    BY <1>1, UnpackJoin DEF n
  <2>3. Drop(s \o u, 2) = d \o u
    BY <1>1, TakeJoin
  <2>4. DecodeList(kinds, s \o u) = InTurn(parsers, d \o u)
    BY <1>3, <2>1, <2>2, <2>3
  <2>5. QED
    BY <2>1, <2>4
<1> HIDE DEF P, d
<1>9. QED
  BY <1>5, <1>6, <1>7, <1>8 DEF Local

LEMMA LayoutKinds == Pair \in Seq(ScalarKinds) /\ Session \in Seq(ScalarKinds) /\ <<"text">> \in Seq(ScalarKinds)
BY DEF Pair, Session, ScalarKinds

\* The flag, and what it says follows.
LEMMA FlagThen ==
    ASSUME NEW s, NEW v, NEW w, DecodeBool(s) = Result(v, w)
    PROVE  Decode("message?", s) = IF v THEN DecodeScalars(Pair, w) ELSE Result(<<>>, w)
<1> DEFINE r == [value |-> v, rest |-> w]
           After(b) == IF b.value THEN DecodeScalars(Pair, b.rest) ELSE Result(<<>>, b.rest)
<1>1. r.value = v /\ r.rest = w /\ DecodeBool(s) = {r}
  BY DEF Result
<1>2. Decode("message?", s) = UNION {After(b) : b \in DecodeBool(s)}
  BY DEF Decode
<1>3. After(r) = IF v THEN DecodeScalars(Pair, w) ELSE Result(<<>>, w)
  BY <1>1, Zenon
<1> HIDE DEF r, After
<1>4. UNION {After(b) : b \in {r}} = After(r)
  OBVIOUS
<1>5. QED
  BY <1>1, <1>2, <1>3, <1>4

LEMMA OptionalReads ==
    ASSUME NEW v, v = <<>> \/ FitsRow(Pair, v)
    PROVE  Reads(FieldParser("message?"), Encode("message?", v), v)
<1> DEFINE e == Encode("message?", v)
<1> SUFFICES e \in Seq(Cell) /\ \A t \in Seq(Cell) : Decode("message?", e \o t) = Result(v, t)
  BY JoinType DEF Reads, FieldParser
<1>0. <<>> \in Seq(Cell) /\ TRUE \in BOOLEAN /\ FALSE \in BOOLEAN
  OBVIOUS
<1>1. CASE v = <<>>
  <2>1. e = EncodeBool(FALSE)
    BY <1>1 DEF Encode
  <2> HIDE DEF e
  <2>2. e \in Seq(Cell)
    BY <1>0, <2>1, BoolReads, Zenon
  <2>3. ASSUME NEW t \in Seq(Cell) PROVE Decode("message?", e \o t) = Result(v, t)
    <3>1. DecodeBool(e \o t) = Result(FALSE, t)
      BY <1>0, <2>1, BoolReads, Zenon
    <3>2. Decode("message?", e \o t) = Result(<<>>, t)
      BY <3>1, FlagThen, Zenon
    <3>3. QED
      BY <1>1, <3>2
  <2>4. QED
    BY <2>2, <2>3
<1>2. CASE v # <<>>
  <2> DEFINE b == EncodeBool(TRUE)
             x == EncodeScalars(Pair, v)
  <2>1. e = b \o x
    BY <1>2 DEF Encode
  <2>2. b \in Seq(Cell) /\ \A t \in Seq(Cell) : DecodeBool(b \o t) = Result(TRUE, t)
    BY <1>0, BoolReads, Zenon
  <2>3. Reads(RowParser(Pair), x, v)
    BY <1>2, LayoutKinds, RowReads
  <2> HIDE DEF b, x, e
  <2>4. x \in Seq(Cell) /\ \A t \in Seq(Cell) : DecodeScalars(Pair, x \o t) = Result(v, t)
    BY <2>3, JoinType DEF Reads, RowParser
  <2>5. e \in Seq(Cell)
    BY <2>1, <2>2, <2>4, JoinType
  <2>6. ASSUME NEW t \in Seq(Cell) PROVE Decode("message?", e \o t) = Result(v, t)
    <3>1. x \o t \in Seq(Cell)
      BY <2>4, JoinType
    <3>2. e \o t = b \o (x \o t)
      BY <2>1, <2>2, <2>4, JoinAssociative
    <3>3. DecodeBool(b \o (x \o t)) = Result(TRUE, x \o t)
      BY <2>2, <3>1
    <3>4. Decode("message?", b \o (x \o t)) = DecodeScalars(Pair, x \o t)
      BY <3>3, FlagThen, Zenon
    <3>5. QED
      BY <2>4, <3>2, <3>4
  <2>7. QED
    BY <2>5, <2>6
<1>3. QED
  BY <1>1, <1>2

LEMMA OptionalLocal == Local(FieldParser("message?"))
<1> SUFFICES ASSUME NEW s \in Seq(Cell), Decode("message?", s) # {}
             PROVE  \E v, w : /\ w \in Seq(Cell) /\ Decode("message?", s) = Result(v, w)
                              /\ \A u \in Seq(Cell) : Decode("message?", s \o u) = Result(v, w \o u)
  BY JoinType DEF Local, FieldParser
<1>1. DecodeBool(s) # {}
  BY DEF Decode
<1>2. PICK b \in BOOLEAN, w \in Seq(Cell) :
          /\ DecodeBool(s) = Result(b, w)
          /\ \A u \in Seq(Cell) : DecodeBool(s \o u) = Result(b, w \o u)
  BY <1>1, BoolLocal, Zenon
<1>3. CASE b
  <2>1. Decode("message?", s) = DecodeScalars(Pair, w)
    BY <1>2, <1>3, FlagThen, Zenon
  <2>2. \A u \in Seq(Cell) : Decode("message?", s \o u) = DecodeScalars(Pair, w \o u)
    BY <1>2, <1>3, FlagThen, Zenon
  <2>3. Local(RowParser(Pair))
    BY LayoutKinds, RowLocal
  <2>4. \A t \in Seq(Cell) : RowParser(Pair)[t] = DecodeScalars(Pair, t)
    BY DEF RowParser
  <2>5. \A u \in Seq(Cell) : w \o u \in Seq(Cell)
    BY <1>2, JoinType
  <2>6. PICK v, y : /\ y \in Seq(Cell) /\ DecodeScalars(Pair, w) = Result(v, y)
                    /\ \A u \in Seq(Cell) : DecodeScalars(Pair, w \o u) = Result(v, y \o u)
    <3> DEFINE p == RowParser(Pair)
    <3>1. p[w] # {}
      BY <1>2, <2>1, <2>4
    <3>2. Local(p)
      BY <2>3
    <3>3. \A t \in Seq(Cell) : p[t] = DecodeScalars(Pair, t)
      BY <2>4
    <3> HIDE DEF p
    <3>4. PICK v, y : /\ y \in Seq(Cell) /\ p[w] = Result(v, y)
                      /\ \A u \in Seq(Cell) : p[w \o u] = Result(v, y \o u)
      BY <1>2, <3>1, <3>2, Zenon DEF Local
    <3>5. QED
      <4>1. DecodeScalars(Pair, w) = Result(v, y)
        BY <1>2, <3>3, <3>4
      <4>2. ASSUME NEW u \in Seq(Cell) PROVE DecodeScalars(Pair, w \o u) = Result(v, y \o u)
        <5>1. w \o u \in Seq(Cell)
          BY <2>5
        <5>2. p[w \o u] = DecodeScalars(Pair, w \o u)
          BY <3>3, <5>1
        <5>3. QED
          BY <3>4, <5>2
      <4>3. QED
        BY <3>4, <4>1, <4>2
  <2>7. QED
    BY <2>1, <2>2, <2>6, Zenon
<1>4. CASE ~b
  <2>1. Decode("message?", s) = Result(<<>>, w)
    BY <1>2, <1>4, FlagThen, Zenon
  <2>2. \A u \in Seq(Cell) : Decode("message?", s \o u) = Result(<<>>, w \o u)
    BY <1>2, <1>4, FlagThen, Zenon
  <2>3. QED
    BY <1>2, <2>1, <2>2, Zenon
<1>5. QED
  BY <1>3, <1>4

LEMMA FieldReads ==
    ASSUME NEW kind, NEW v, Fits(kind, v)
    PROVE  Reads(FieldParser(kind), Encode(kind, v), v)
<1>1. CASE kind = "texts"
  <2>1. FitsList(<<"text">>, v) /\ Encode(kind, v) = EncodeList(<<"text">>, v)
    BY <1>1 DEF Fits, Encode
  <2>2. \A t : Decode(kind, t) = DecodeList(<<"text">>, t)
    BY <1>1 DEF Decode
  <2>3. FieldParser(kind) = ListParser(<<"text">>)
    BY <2>2 DEF FieldParser, ListParser
  <2>4. QED
    BY <2>1, <2>3, LayoutKinds, ListReads
<1>2. CASE kind = "sessions"
  <2>1. FitsList(Session, v) /\ Encode(kind, v) = EncodeList(Session, v)
    BY <1>2 DEF Fits, Encode
  <2>2. \A t : Decode(kind, t) = DecodeList(Session, t)
    BY <1>2 DEF Decode
  <2>3. FieldParser(kind) = ListParser(Session)
    BY <2>2 DEF FieldParser, ListParser
  <2>4. QED
    BY <2>1, <2>3, LayoutKinds, ListReads
<1>3. CASE kind = "message?"
  <2>1. v = <<>> \/ FitsRow(Pair, v)
    BY <1>3 DEF Fits
  <2>2. QED
    BY <1>3, <2>1, OptionalReads
<1>4. CASE kind \notin {"texts", "sessions", "message?"}
  <2>1. FitsScalar(kind, v) /\ Encode(kind, v) = EncodeScalar(kind, v)
    BY <1>4 DEF Fits, Encode
  <2>2. \A t : Decode(kind, t) = DecodeScalar(kind, t)
    BY <1>4 DEF Decode
  <2>3. FieldParser(kind) = ScalarParser(kind)
    BY <2>2 DEF FieldParser, ScalarParser
  <2>4. QED
    BY <2>1, <2>3, ScalarReads
<1>5. QED
  BY <1>1, <1>2, <1>3, <1>4

LEMMA FieldLocal ==
    ASSUME NEW kind \in FieldKinds
    PROVE  Local(FieldParser(kind))
<1>1. CASE kind = "texts"
  <2>1. \A t : Decode(kind, t) = DecodeList(<<"text">>, t)
    BY <1>1 DEF Decode
  <2>2. FieldParser(kind) = ListParser(<<"text">>)
    BY <2>1 DEF FieldParser, ListParser
  <2>3. QED
    BY <2>2, LayoutKinds, ListLocal
<1>2. CASE kind = "sessions"
  <2>1. \A t : Decode(kind, t) = DecodeList(Session, t)
    BY <1>2 DEF Decode
  <2>2. FieldParser(kind) = ListParser(Session)
    BY <2>1 DEF FieldParser, ListParser
  <2>3. QED
    BY <2>2, LayoutKinds, ListLocal
<1>3. CASE kind = "message?"
  BY <1>3, OptionalLocal
<1>4. CASE kind \notin {"texts", "sessions", "message?"}
  <2>1. \A t : Decode(kind, t) = DecodeScalar(kind, t)
    BY <1>4 DEF Decode
  <2>2. FieldParser(kind) = ScalarParser(kind) /\ kind \in ScalarKinds
    BY <1>4, <2>1 DEF FieldParser, ScalarParser, FieldKinds
  <2>3. QED
    BY <2>2, ScalarLocal
<1>5. QED
  BY <1>1, <1>2, <1>3, <1>4

LEMMA FieldsRead ==
    ASSUME NEW kinds \in Seq(FieldKinds), NEW vs, FitsFields(kinds, vs)
    PROVE  Reads(FieldsParser(kinds), EncodeFields(kinds, vs), vs)
<1> DEFINE N == Len(kinds)
           parsers == [i \in 1..N |-> FieldParser(kinds[i])]
           parts == [i \in 1..N |-> Encode(kinds[i], vs[i])]
<1>1. N \in Nat /\ DOMAIN kinds = 1..N
  OBVIOUS
<1>2. vs = [i \in 1..N |-> vs[i]] /\ \A i \in 1..N : Fits(kinds[i], vs[i])
  BY <1>1 DEF FitsFields
<1>3. \A i \in 1..N : Reads(FieldParser(kinds[i]), Encode(kinds[i], vs[i]), vs[i])
  BY <1>2, FieldReads
<1>4. \A i \in 1..N : Encode(kinds[i], vs[i]) \in Seq(Cell)
  BY <1>3 DEF Reads
<1>5. parts \in [1..N -> Seq(Cell)]
  BY <1>4
<1>6. parts \in Seq(Seq(Cell)) /\ Len(parts) = N
  BY <1>1, <1>5, IsSequence
<1>7. Len(parsers) = N /\ \A n \in 1..N : Reads(parsers[n], parts[n], vs[n])
  BY <1>1, <1>3
<1>8. \A t : DecodeFields(kinds, t) = InTurn(parsers, t)
  BY <1>1 DEF DecodeFields, FieldParser
<1>9. EncodeFields(kinds, vs) = FlattenSeq(parts)
  BY <1>1 DEF EncodeFields
<1> HIDE DEF parts, parsers
<1>10. Reads([t \in Seq(Cell) |-> InTurn(parsers, t)], FlattenSeq(parts), vs)
  BY <1>2, <1>6, <1>7, InTurnReads
<1>11. FieldsParser(kinds) = [t \in Seq(Cell) |-> InTurn(parsers, t)]
  BY <1>8 DEF FieldsParser
<1>12. QED
  BY <1>9, <1>10, <1>11

LEMMA FieldsLocal ==
    ASSUME NEW kinds \in Seq(FieldKinds)
    PROVE  Local(FieldsParser(kinds))
<1> DEFINE N == Len(kinds)
           parsers == [i \in 1..N |-> FieldParser(kinds[i])]
<1>1. N \in Nat /\ DOMAIN kinds = 1..N /\ \A i \in 1..N : kinds[i] \in FieldKinds
  OBVIOUS
<1>2. Len(parsers) = N /\ \A n \in 1..N : Local(parsers[n])
  BY <1>1, FieldLocal
<1>3. \A t : DecodeFields(kinds, t) = InTurn(parsers, t)
  BY <1>1 DEF DecodeFields, FieldParser
<1> HIDE DEF parsers
<1>4. Local([t \in Seq(Cell) |-> InTurn(parsers, t)])
  BY <1>1, <1>2, InTurnLocal
<1>5. FieldsParser(kinds) = [t \in Seq(Cell) |-> InTurn(parsers, t)]
  BY <1>3 DEF FieldsParser
<1>6. QED
  BY <1>4, <1>5

-----------------------------------------------------------------------------
(* Messages. The two layouts of a payload, the writer's and the reader's,   *)
(* agree.                                                                   *)

Types == {"request", "response", "event", "worker"}
Read(type, head, fields, rest) == [type |-> type, head |-> head, fields |-> fields, rest |-> rest]

LEMMA HeadKinds ==
    ASSUME NEW type \in Types
    PROVE  HeadFields(type) \in Seq(FieldKinds)
<1>1. <<"text">> \in Seq(FieldKinds) /\ <<"text", "text">> \in Seq(FieldKinds)
  BY DEF FieldKinds, ScalarKinds
<1>2. <<"text", "text", "bool">> \in Seq(FieldKinds)
  BY DEF FieldKinds, ScalarKinds
<1>3. CASE type = "request"
  BY <1>1, <1>3 DEF HeadFields
<1>4. CASE type = "response"
  BY <1>2, <1>4 DEF HeadFields
<1>5. CASE type \in {"event", "worker"}
  BY <1>1, <1>5 DEF HeadFields
<1>6. QED
  BY <1>3, <1>4, <1>5 DEF Types

LEMMA SameResponses ==
    ASSUME NEW name, NEW ok \in BOOLEAN
    PROVE  ResponseFields(name, ok) = ReadResponseFields(name, ok)
<1>1. CASE ~ok
  BY <1>1 DEF ResponseFields, ReadResponseFields
<1>2. CASE ok /\ name \in {Create, Continue}
  BY <1>2 DEF ResponseFields, ReadResponseFields, Create, Continue, GetState, Power
<1>3. CASE ok /\ name = GetState
  BY <1>3 DEF ResponseFields, ReadResponseFields, Create, Continue, GetState, Power
<1>4. CASE ok /\ name = Power
  BY <1>4 DEF ResponseFields, ReadResponseFields, Create, Continue, GetState, Power
<1>5. CASE ok /\ name \notin {Create, Continue, GetState, Power}
  BY <1>5 DEF ResponseFields, ReadResponseFields
<1>6. QED
  BY <1>1, <1>2, <1>3, <1>4, <1>5

LEMMA SameRequests ==
    ASSUME NEW name
    PROVE  RequestFields(name) = ReadRequestFields(name)
<1>1. CASE name \in {Create, Continue}
  BY <1>1 DEF RequestFields, ReadRequestFields, Create, Continue, StartSession
<1>2. CASE name = StartSession
  BY <1>2 DEF RequestFields, ReadRequestFields, Create, Continue, StartSession
<1>3. CASE name \notin {Create, Continue, StartSession}
  BY <1>3 DEF RequestFields, ReadRequestFields
<1>4. QED
  BY <1>1, <1>2, <1>3

LEMMA SameEvents ==
    ASSUME NEW name
    PROVE  EventFields(name) = ReadEventFields(name)
BY SameResponses DEF EventFields, ReadEventFields

LEMMA SamePayload ==
    ASSUME NEW protocol, NEW m, WellFormed(protocol, m)
    PROVE  PayloadFields(m) = ReadPayloadFields(m.type, m.head) /\ m.type \in Types
<1>1. m.type \in Types
  BY DEF WellFormed, Types, Tag
<1>2. CASE m.type = "request"
  BY <1>1, <1>2, SameRequests DEF PayloadFields, ReadPayloadFields
<1>3. CASE m.type = "response"
  <2>1. HeadFields(m.type) = <<"text", "text", "bool">>
    BY <1>3 DEF HeadFields
  <2>2. Fits("bool", m.head[3])
    BY <2>1 DEF WellFormed, FitsFields
  <2>3. m.head[3] \in BOOLEAN
    BY <2>2 DEF Fits, FitsScalar
  <2>4. QED
    BY <1>1, <1>3, <2>3, SameResponses DEF PayloadFields, ReadPayloadFields
<1>4. CASE m.type = "event"
  BY <1>1, <1>4, SameEvents DEF PayloadFields, ReadPayloadFields
<1>5. CASE m.type = "worker"
  BY <1>1, <1>5 DEF PayloadFields, ReadPayloadFields, WorkerFields, ReadWorkerFields
<1>6. QED
  BY <1>1, <1>2, <1>3, <1>4, <1>5 DEF Types

LEMMA PayloadKinds ==
    ASSUME NEW type \in Types, NEW head
    PROVE  ReadPayloadFields(type, head) \in Seq(FieldKinds)
<1>1. /\ <<>> \in Seq(FieldKinds)
      /\ <<"blob">> \in Seq(FieldKinds)
      /\ <<"bool">> \in Seq(FieldKinds)
      /\ <<"text", "text">> \in Seq(FieldKinds)
      /\ <<"text", "texts">> \in Seq(FieldKinds)
      /\ <<"text", "message?">> \in Seq(FieldKinds)
      /\ <<"text", "text", "text">> \in Seq(FieldKinds)
      /\ <<"text", "bool", "sessions">> \in Seq(FieldKinds)
      /\ <<"int", "int", "bool", "text">> \in Seq(FieldKinds)
      /\ <<"text", "texts", "text", "text", "text">> \in Seq(FieldKinds)
  BY DEF FieldKinds, ScalarKinds
<1>2. \A name : ReadRequestFields(name) \in Seq(FieldKinds)
  BY <1>1, Zenon DEF ReadRequestFields
<1>3. \A name, ok : ReadResponseFields(name, ok) \in Seq(FieldKinds)
  BY <1>1 DEF ReadResponseFields
<1>4. \A name : ReadEventFields(name) \in Seq(FieldKinds)
  BY <1>1, <1>3 DEF ReadEventFields
<1>5. \A name : ReadWorkerFields(name) \in Seq(FieldKinds)
  BY <1>1 DEF ReadWorkerFields
<1>6. QED
  BY <1>2, <1>3, <1>4, <1>5 DEF ReadPayloadFields, Types

\* How the head and the payload are read one after the other.
Payload(type, h, s) ==
    {Read(type, h, f.value, f.rest) : f \in DecodeFields(ReadPayloadFields(type, h), s)}

LEMMA NoHead ==
    ASSUME NEW type, NEW s, DecodeFields(HeadFields(type), s) = {}
    PROVE  DecodeAs(type, s) = {}
BY DEF DecodeAs

LEMMA HeadThenPayload ==
    ASSUME NEW type, NEW s, NEW h, NEW w, DecodeFields(HeadFields(type), s) = Result(h, w)
    PROVE  DecodeAs(type, s) = IF type = "worker" => h[1] \in WorkerKinds THEN Payload(type, h, w) ELSE {}
<1> DEFINE r == [value |-> h, rest |-> w]
           Known(q) == type = "worker" => q.value[1] \in WorkerKinds
           Rest(q) == Payload(type, q.value, q.rest)
<1>1. r.value = h /\ r.rest = w /\ DecodeFields(HeadFields(type), s) = {r}
  BY DEF Result
<1>2. DecodeAs(type, s) = UNION {Rest(q) : q \in {q \in {r} : Known(q)}}
  BY <1>1, Zenon DEF DecodeAs, Payload, Read
<1>3. (Known(r) <=> (type = "worker" => h[1] \in WorkerKinds)) /\ Rest(r) = Payload(type, h, w)
  BY <1>1
<1> HIDE DEF r, Known, Rest
<1>4. {q \in {r} : Known(q)} = IF Known(r) THEN {r} ELSE {}
  OBVIOUS
<1>5. UNION {Rest(q) : q \in {r}} = Rest(r) /\ UNION {Rest(q) : q \in {}} = {}
  OBVIOUS
<1>6. QED
  BY <1>2, <1>3, <1>4, <1>5

LEMMA PayloadNone ==
    ASSUME NEW type, NEW h, NEW s, DecodeFields(ReadPayloadFields(type, h), s) = {}
    PROVE  Payload(type, h, s) = {}
BY DEF Payload

LEMMA PayloadOne ==
    ASSUME NEW type, NEW h, NEW s, NEW v, NEW w,
           DecodeFields(ReadPayloadFields(type, h), s) = Result(v, w)
    PROVE  Payload(type, h, s) = {Read(type, h, v, w)}
<1> DEFINE f == [value |-> v, rest |-> w]
<1>1. f.value = v /\ f.rest = w /\ DecodeFields(ReadPayloadFields(type, h), s) = {f}
  BY DEF Result
<1> HIDE DEF f
<1>2. Payload(type, h, s) = {Read(type, h, g.value, g.rest) : g \in {f}}
  BY <1>1 DEF Payload
<1>3. {Read(type, h, g.value, g.rest) : g \in {f}} = {Read(type, h, f.value, f.rest)}
  OBVIOUS
<1>4. QED
  BY <1>1, <1>2, <1>3

LEMMA MessageReads ==
    ASSUME NEW protocol, NEW m, WellFormed(protocol, m)
    PROVE  LET e == EncodeFields(HeadFields(m.type), m.head)
               f == EncodeFields(PayloadFields(m), m.fields)
           IN  /\ e \in Seq(Cell) /\ f \in Seq(Cell)
               /\ \A t \in Seq(Cell) :
                     DecodeAs(m.type, e \o (f \o t)) = {Read(m.type, m.head, m.fields, t)}
<1> DEFINE e == EncodeFields(HeadFields(m.type), m.head)
           f == EncodeFields(PayloadFields(m), m.fields)
<1>1. m.type \in Types /\ PayloadFields(m) = ReadPayloadFields(m.type, m.head)
  BY SamePayload
<1>2. HeadFields(m.type) \in Seq(FieldKinds) /\ PayloadFields(m) \in Seq(FieldKinds)
  BY <1>1, HeadKinds, PayloadKinds
<1>3. /\ FitsFields(HeadFields(m.type), m.head) /\ FitsFields(PayloadFields(m), m.fields)
      /\ m.type = "worker" => m.head[1] \in WorkerKinds
  BY DEF WellFormed
<1>4. Reads(FieldsParser(HeadFields(m.type)), e, m.head)
  BY <1>2, <1>3, FieldsRead
<1>5. Reads(FieldsParser(PayloadFields(m)), f, m.fields)
  BY <1>2, <1>3, FieldsRead
<1> HIDE DEF e, f
<1>6. e \in Seq(Cell) /\ f \in Seq(Cell)
  BY <1>4, <1>5 DEF Reads
<1>7. ASSUME NEW t \in Seq(Cell)
      PROVE  DecodeAs(m.type, e \o (f \o t)) = {Read(m.type, m.head, m.fields, t)}
  <2>1. f \o t \in Seq(Cell) /\ e \o (f \o t) \in Seq(Cell)
    BY <1>6, JoinType
  <2>2. DecodeFields(HeadFields(m.type), e \o (f \o t)) = Result(m.head, f \o t)
    BY <1>4, <2>1 DEF Reads, FieldsParser
  <2>3. DecodeFields(PayloadFields(m), f \o t) = Result(m.fields, t)
    BY <1>5, <2>1 DEF Reads, FieldsParser
  <2>4. DecodeAs(m.type, e \o (f \o t)) = Payload(m.type, m.head, f \o t)
    BY <1>3, <2>2, HeadThenPayload
  <2>5. Payload(m.type, m.head, f \o t) = {Read(m.type, m.head, m.fields, t)}
    BY <1>1, <2>3, PayloadOne
  <2>6. QED
    BY <2>4, <2>5
<1>8. QED
  BY <1>6, <1>7 DEF e, f

LEMMA MessageLocal ==
    ASSUME NEW type \in Types, NEW s \in Seq(Cell), DecodeAs(type, s) # {}
    PROVE  \E h, f, w : /\ w \in Seq(Cell) /\ DecodeAs(type, s) = {Read(type, h, f, w)}
                        /\ \A u \in Seq(Cell) : DecodeAs(type, s \o u) = {Read(type, h, f, w \o u)}
<1> DEFINE p == FieldsParser(HeadFields(type))
<1>1. Local(p)
  BY HeadKinds, FieldsLocal
<1>2. \A t \in Seq(Cell) : p[t] = DecodeFields(HeadFields(type), t)
  BY DEF FieldsParser
<1>3. p[s] # {}
  BY <1>2, NoHead
<1> HIDE DEF p
<1>4. PICK h, y : /\ y \in Seq(Cell) /\ p[s] = Result(h, y)
                  /\ \A u \in Seq(Cell) : p[s \o u] = Result(h, y \o u)
  BY <1>1, <1>3 DEF Local
<1> DEFINE Known == type = "worker" => h[1] \in WorkerKinds
<1>5. DecodeAs(type, s) = IF Known THEN Payload(type, h, y) ELSE {}
  <2>1. DecodeFields(HeadFields(type), s) = Result(h, y)
    BY <1>2, <1>4
  <2>2. QED
    BY <2>1, HeadThenPayload
<1>6. Known /\ DecodeAs(type, s) = Payload(type, h, y)
  BY <1>5
<1>7. ASSUME NEW u \in Seq(Cell) PROVE DecodeAs(type, s \o u) = Payload(type, h, y \o u)
  <2>1. s \o u \in Seq(Cell)
    BY JoinType
  <2>2. DecodeFields(HeadFields(type), s \o u) = Result(h, y \o u)
    BY <1>2, <1>4, <2>1
  <2>3. QED
    BY <1>6, <2>2, HeadThenPayload
<1> DEFINE q == FieldsParser(ReadPayloadFields(type, h))
<1>8. Local(q)
  BY PayloadKinds, FieldsLocal
<1>9. \A t \in Seq(Cell) : q[t] = DecodeFields(ReadPayloadFields(type, h), t)
  BY DEF FieldsParser
<1>10. q[y] # {}
  BY <1>4, <1>6, <1>9, PayloadNone
<1> HIDE DEF q, Known
<1>11. PICK f, w : /\ w \in Seq(Cell) /\ q[y] = Result(f, w)
                   /\ \A u \in Seq(Cell) : q[y \o u] = Result(f, w \o u)
  BY <1>4, <1>8, <1>10 DEF Local
<1>12. DecodeAs(type, s) = {Read(type, h, f, w)}
  BY <1>4, <1>6, <1>9, <1>11, PayloadOne
<1>13. ASSUME NEW u \in Seq(Cell) PROVE DecodeAs(type, s \o u) = {Read(type, h, f, w \o u)}
  <2>1. y \o u \in Seq(Cell)
    BY <1>4, JoinType
  <2>2. DecodeFields(ReadPayloadFields(type, h), y \o u) = Result(f, w \o u)
    BY <1>9, <1>11, <2>1
  <2>3. Payload(type, h, y \o u) = {Read(type, h, f, w \o u)}
    BY <2>2, PayloadOne
  <2>4. QED
    BY <1>7, <2>3
<1>14. QED
  BY <1>11, <1>12, <1>13

LEMMA TailDrops ==
    ASSUME NEW s \in Seq(Cell), s # <<>>
    PROVE  Tail(s) = Drop(s, 1)
BY DEF Drop

\* After the version, the type of the message on a greeter's stream.
LEMMA TypedWorker ==
    ASSUME stream.protocol = "worker", NEW s
    PROVE  Typed(s) = DecodeAs("worker", Tail(s))
BY DEF Typed

LEMMA TypedOther ==
    ASSUME stream.protocol # "worker", NEW s, NEW type \in DOMAIN Tag,
           Len(s) \in Nat, Len(s) >= 2, s[2] = Tag[type]
    PROVE  Typed(s) = DecodeAs(type, Drop(s, 2))
<1>1. ~ (Len(s) < 2)
  OBVIOUS
<1>2. {t \in DOMAIN Tag : Tag[t] = s[2]} = {type}
  BY DEF Tag
<1>3. Typed(s) = UNION {DecodeAs(t, Drop(s, 2)) : t \in {type}}
  BY <1>1, <1>2 DEF Typed
<1>4. UNION {DecodeAs(t, Drop(s, 2)) : t \in {type}} = DecodeAs(type, Drop(s, 2))
  OBVIOUS
<1>5. QED
  BY <1>3, <1>4

LEMMA BodyReads ==
    ASSUME NEW m, WellFormed(stream.protocol, m)
    PROVE  /\ Body(m) \in Seq(Cell) /\ Body(m) # <<>> /\ Head(Body(m)) = Version
           /\ \A t \in Seq(Cell) : Typed(Body(m) \o t) = {Read(m.type, m.head, m.fields, t)}
<1> DEFINE e == EncodeFields(HeadFields(m.type), m.head)
           f == EncodeFields(PayloadFields(m), m.fields)
           v == IF m.type = "worker" THEN <<>> ELSE <<Tag[m.type]>>
           p == <<Version>> \o v
<1>1. /\ e \in Seq(Cell) /\ f \in Seq(Cell)
      /\ \A t \in Seq(Cell) : DecodeAs(m.type, e \o (f \o t)) = {Read(m.type, m.head, m.fields, t)}
  BY MessageReads
<1>2. Body(m) = (p \o e) \o f
  BY DEF Body
<1>3. m.type \in (IF stream.protocol = "worker" THEN {"worker"} ELSE DOMAIN Tag)
  BY DEF WellFormed
<1> HIDE DEF e, f
<1>4. /\ p \in Seq(Cell) /\ Len(p) = IF m.type = "worker" THEN 1 ELSE 2
      /\ p[1] = Version
      /\ m.type # "worker" => p[2] = Tag[m.type]
  <2>1. Version \in Cell
    BY WireAssumption DEF Version, Cell
  <2>2. CASE m.type = "worker"
    <3>1. p = <<Version>>
      BY <2>2
    <3> HIDE DEF p
    <3>2. QED
      BY <2>1, <2>2, <3>1
  <2>3. CASE m.type # "worker"
    <3>1. m.type \in DOMAIN Tag
      BY <1>3, <2>3
    <3>2. Tag[m.type] \in Cell
      BY <3>1, WireAssumption DEF Tag, Cell
    <3>3. p = <<Version>> \o <<Tag[m.type]>>
      BY <2>3
    <3> HIDE DEF p
    <3> DEFINE c == Tag[m.type]
    <3>4. p = <<Version>> \o <<c>> /\ c \in Cell
      BY <3>2, <3>3
    <3> HIDE DEF c
    <3>5. p \in Seq(Cell) /\ Len(p) = 2 /\ p[1] = Version /\ p[2] = c
      BY <2>1, <3>4
    <3>6. QED
      BY <2>3, <3>5 DEF c
  <2>4. QED
    BY <2>2, <2>3
<1> HIDE DEF p
<1>5. ASSUME NEW t \in Seq(Cell)
      PROVE  /\ e \o (f \o t) \in Seq(Cell)
             /\ Body(m) \o t = p \o (e \o (f \o t))
  <2>1. p \o e \in Seq(Cell) /\ f \o t \in Seq(Cell)
    BY <1>1, <1>4, JoinType
  <2>2. ((p \o e) \o f) \o t = (p \o e) \o (f \o t)
    BY <1>1, <2>1, JoinAssociative, SMTT(20)
  <2>3. (p \o e) \o (f \o t) = p \o (e \o (f \o t))
    <3>1. p \in Seq(Cell) /\ e \in Seq(Cell) /\ f \o t \in Seq(Cell)
      BY <1>1, <1>4, <2>1
    <3>2. QED
      BY <3>1, JoinAssociative, ZenonT(40)
  <2>4. QED
    BY <1>1, <1>2, <2>1, <2>2, <2>3, JoinType
<1>6. Body(m) \in Seq(Cell) /\ Body(m) # <<>> /\ Head(Body(m)) = Version
  <2>1. p \o e \in Seq(Cell)
    BY <1>1, <1>4, JoinType
  <2>2. Body(m) \in Seq(Cell)
    BY <1>1, <1>2, <2>1, JoinType
  <2>3. <<>> \in Seq(Cell)
    OBVIOUS
  <2>4. Body(m) \o <<>> = Body(m)
    BY <2>2, JoinEmpty
  <2> DEFINE x == e \o (f \o <<>>)
  <2>5. x \in Seq(Cell) /\ Body(m) = p \o x
    BY <1>5, <2>3, <2>4
  <2> HIDE DEF x
  <2>6. (p \o x)[1] = p[1] /\ p \o x # <<>>
    BY <1>4, <2>5
  <2>7. QED
    BY <1>4, <2>2, <2>5, <2>6
<1>7. ASSUME NEW t \in Seq(Cell)
      PROVE  Typed(Body(m) \o t) = {Read(m.type, m.head, m.fields, t)}
  <2> DEFINE x == e \o (f \o t)
             s == p \o x
  <2>1. x \in Seq(Cell) /\ Body(m) \o t = s
    BY <1>5
  <2>2. DecodeAs(m.type, x) = {Read(m.type, m.head, m.fields, t)}
    BY <1>1
  <2> HIDE DEF x
  <2>3. Drop(s, Len(p)) = x /\ s \in Seq(Cell) /\ Len(s) = Len(p) + Len(x)
    BY <1>4, <2>1, SplitJoined, JoinType
  <2>4. CASE m.type = "worker"
    <3>1. stream.protocol = "worker"
      BY <1>3, <2>4 DEF Tag
    <3>2. Len(p) = 1
      BY <1>4, <2>4
    <3>3. Tail(s) = x
      <4> HIDE DEF s
      <4>1. s # <<>> /\ Drop(s, 1) = x
        <5>1. Len(x) \in Nat
          BY <2>1
        <5>2. QED
          BY <2>3, <3>2, <5>1
      <4>2. QED
        BY <2>3, <4>1, TailDrops
    <3>4. Typed(s) = DecodeAs("worker", Tail(s))
      BY <3>1, TypedWorker
    <3>5. QED
      BY <2>1, <2>2, <2>4, <3>3, <3>4
  <2>5. CASE m.type # "worker"
    <3>1. stream.protocol # "worker" /\ m.type \in DOMAIN Tag
      BY <1>3, <2>5
    <3>2. Len(p) = 2 /\ p[2] = Tag[m.type]
      BY <1>4, <2>5
    <3>3. s[2] = p[2] /\ Len(s) \in Nat /\ Len(s) >= 2
      <4>1. p \in Seq(Cell) /\ x \in Seq(Cell)
        BY <1>4, <2>1
      <4>2. Len(p \o x) = Len(p) + Len(x) /\ Len(x) \in Nat
        BY <4>1
      <4>3. \A i \in 1..Len(p) : (p \o x)[i] = p[i]
        BY <4>1
      <4>4. 2 \in 1..Len(p)
        BY <3>2
      <4>5. (p \o x)[2] = p[2]
        BY <4>3, <4>4
      <4>6. QED
        BY <3>2, <4>2, <4>5
    <3>4. Typed(s) = DecodeAs(m.type, Drop(s, 2))
      <4> HIDE DEF s
      <4>1. QED
        BY <3>1, <3>2, <3>3, TypedOther
    <3>5. QED
      BY <2>1, <2>2, <2>3, <3>2, <3>4
  <2>6. QED
    BY <2>4, <2>5
<1>8. QED
  BY <1>6, <1>7

LEMMA BodyLocal ==
    ASSUME NEW s \in Seq(Cell), s # <<>>, Typed(s) # {}
    PROVE  \E type, h, f, w :
              /\ w \in Seq(Cell) /\ Typed(s) = {Read(type, h, f, w)}
              /\ \A u \in Seq(Cell) : Typed(s \o u) = {Read(type, h, f, w \o u)}
<1>1. CASE stream.protocol = "worker"
  <2> DEFINE d == Tail(s)
  <2>1. d \in Seq(Cell) /\ "worker" \in Types
    BY DEF Types
  <2>2. Typed(s) = DecodeAs("worker", d)
    BY <1>1, TypedWorker
  <2>3. \A u \in Seq(Cell) : Tail(s \o u) = d \o u
    OBVIOUS
  <2>4. \A u \in Seq(Cell) : Typed(s \o u) = DecodeAs("worker", d \o u)
    BY <1>1, <2>3, TypedWorker
  <2> HIDE DEF d
  <2>5. PICK h, f, w : /\ w \in Seq(Cell) /\ DecodeAs("worker", d) = {Read("worker", h, f, w)}
                       /\ \A u \in Seq(Cell) :
                             DecodeAs("worker", d \o u) = {Read("worker", h, f, w \o u)}
    BY <2>1, <2>2, MessageLocal
  <2>6. QED
    BY <2>2, <2>4, <2>5
<1>2. CASE stream.protocol # "worker"
  <2> DEFINE d == Drop(s, 2)
  <2>1. ~ (Len(s) < 2) /\ {t \in DOMAIN Tag : Tag[t] = s[2]} # {}
    BY <1>2, Zenon DEF Typed
  <2>2. Len(s) \in Nat /\ Len(s) >= 2 /\ 2 \in 0..Len(s)
    BY <2>1
  <2>3. PICK type \in DOMAIN Tag : s[2] = Tag[type]
    BY <2>1
  <2>4. type \in Types
    BY DEF Types, Tag
  <2>5. Typed(s) = DecodeAs(type, d)
    BY <1>2, <2>2, <2>3, TypedOther
  <2>6. d \in Seq(Cell)
    BY <2>2, DropType
  <2>7. ASSUME NEW u \in Seq(Cell) PROVE Typed(s \o u) = DecodeAs(type, d \o u)
    <3>1. /\ s \o u \in Seq(Cell) /\ Len(s \o u) \in Nat /\ Len(s \o u) >= 2
          /\ (s \o u)[2] = s[2]
      BY <2>2
    <3>2. Drop(s \o u, 2) = d \o u
      BY <2>2, TakeJoin
    <3>3. QED
      BY <1>2, <2>3, <3>1, <3>2, TypedOther
  <2> HIDE DEF d
  <2>8. PICK h, f, w : /\ w \in Seq(Cell) /\ DecodeAs(type, d) = {Read(type, h, f, w)}
                       /\ \A u \in Seq(Cell) :
                             DecodeAs(type, d \o u) = {Read(type, h, f, w \o u)}
    BY <2>4, <2>5, <2>6, MessageLocal
  <2>9. QED
    BY <2>5, <2>7, <2>8
<1>3. QED
  BY <1>1, <1>2

LEMMA DecodeOne ==
    ASSUME NEW s, s # <<>>, Head(s) = Version, NEW type, NEW h, NEW f, NEW w,
           Typed(s) = {Read(type, h, f, w)}
    PROVE  DecodeBody(s) = IF w = <<>> THEN {[type |-> type, head |-> h, fields |-> f]} ELSE {}
<1> DEFINE r == Read(type, h, f, w)
           Done(q) == q.rest = <<>>
<1>1. r.rest = w /\ Bare(r) = [type |-> type, head |-> h, fields |-> f]
  BY DEF Read, Bare
<1>2. DecodeBody(s) = {Bare(q) : q \in {q \in {r} : Done(q)}}
  BY Zenon DEF DecodeBody
<1>3. Done(r) <=> w = <<>>
  BY <1>1
<1> HIDE DEF r, Done
<1>4. {q \in {r} : Done(q)} = IF Done(r) THEN {r} ELSE {}
  OBVIOUS
<1>5. {Bare(q) : q \in {r}} = {Bare(r)} /\ {Bare(q) : q \in {}} = {}
  OBVIOUS
<1>6. QED
  BY <1>1, <1>2, <1>3, <1>4, <1>5

(* Whatever a message that can be written says, of either protocol, its     *)
(* reader finds exactly that in its encoding (encode_message and            *)
(* decode_message, whose layouts are separate code).                        *)
THEOREM RoundTrip ==
    ASSUME NEW m, WellFormed(stream.protocol, m)
    PROVE  DecodeBody(Body(m)) = {m}
<1>1. /\ Body(m) \in Seq(Cell) /\ Body(m) # <<>> /\ Head(Body(m)) = Version
      /\ \A t \in Seq(Cell) : Typed(Body(m) \o t) = {Read(m.type, m.head, m.fields, t)}
  BY BodyReads
<1>2. <<>> \in Seq(Cell)
  OBVIOUS
<1>3. Body(m) \o <<>> = Body(m)
  BY <1>1, JoinEmpty
<1>4. Typed(Body(m)) = {Read(m.type, m.head, m.fields, <<>>)}
  BY <1>1, <1>2, <1>3
<1>5. DecodeBody(Body(m)) = {[type |-> m.type, head |-> m.head, fields |-> m.fields]}
  BY <1>1, <1>4, DecodeOne
<1>6. m = [type |-> m.type, head |-> m.head, fields |-> m.fields]
  BY DEF WellFormed
<1>7. QED
  BY <1>5, <1>6

(* No message is a part of another, in front: an encoding cut short anywhere,  *)
(* or with anything after it, is refused (_finish_decoded_message).            *)
THEOREM NoPartIsWhole ==
    ASSUME NEW m, WellFormed(stream.protocol, m), NEW u \in Seq(Cell), u # <<>>
    PROVE  /\ DecodeBody(Body(m) \o u) = {}
           /\ \A s \in Seq(Cell) : Body(m) = s \o u => DecodeBody(s) = {}
<1>1. /\ Body(m) \in Seq(Cell) /\ Body(m) # <<>> /\ Head(Body(m)) = Version
      /\ \A t \in Seq(Cell) : Typed(Body(m) \o t) = {Read(m.type, m.head, m.fields, t)}
  BY BodyReads
<1>2. DecodeBody(Body(m) \o u) = {}
  <2> DEFINE x == Body(m) \o u
  <2>1. x # <<>> /\ Head(x) = Version
    BY <1>1
  <2>2. Typed(x) = {Read(m.type, m.head, m.fields, u)}
    BY <1>1
  <2> HIDE DEF x
  <2>3. DecodeBody(x) = {}
    BY <2>1, <2>2, DecodeOne
  <2>4. QED
    BY <2>3 DEF x
<1>3. ASSUME NEW s \in Seq(Cell), Body(m) = s \o u, DecodeBody(s) # {}
      PROVE  FALSE
  <2>1. s # <<>> /\ Head(s) = Version /\ Typed(s) # {}
    BY <1>3, Zenon DEF DecodeBody
  <2>2. PICK type, h, f, w :
            /\ w \in Seq(Cell) /\ Typed(s) = {Read(type, h, f, w)}
            /\ \A t \in Seq(Cell) : Typed(s \o t) = {Read(type, h, f, w \o t)}
    BY <2>1, BodyLocal
  <2>3. Typed(Body(m)) = {Read(type, h, f, w \o u)}
    BY <1>3, <2>2
  <2>4. Typed(Body(m)) = {Read(m.type, m.head, m.fields, <<>>)}
    <3>1. <<>> \in Seq(Cell)
      OBVIOUS
    <3>2. Body(m) \o <<>> = Body(m)
      BY <1>1, JoinEmpty
    <3>3. QED
      BY <1>1, <3>1, <3>2
  <2>5. Read(type, h, f, w \o u) = Read(m.type, m.head, m.fields, <<>>)
    BY <2>3, <2>4
  <2>6. w \o u = <<>>
    <3>1. Read(type, h, f, w \o u).rest = w \o u
      BY DEF Read
    <3>2. Read(m.type, m.head, m.fields, <<>>).rest = <<>>
      BY DEF Read
    <3>3. QED
      BY <2>5, <3>1, <3>2
  <2>7. Len(w \o u) = Len(w) + Len(u) /\ Len(w) \in Nat /\ Len(u) \in Nat /\ Len(u) > 0
    BY <2>2
  <2>8. QED
    BY <2>6, <2>7
<1>4. QED
  BY <1>2, <1>3

-----------------------------------------------------------------------------
(* The stream.                                                              *)

LEMMA PrefixRest ==
    ASSUME NEW p \in Seq(Cell), NEW q \in Seq(Cell)
    PROVE  IsPrefix(p, q) <=> \E r \in Seq(Cell) : q = p \o r
<1>0. SubSeq(p, 1, Len(p)) = p
  OBVIOUS
<1>1. ASSUME IsPrefix(p, q) PROVE \E r \in Seq(Cell) : q = p \o r
  <2>1. Len(p) <= Len(q) /\ p = SubSeq(q, 1, Len(p))
    BY <1>0, <1>1 DEF IsPrefix
  <2>2. Len(p) \in 0..Len(q)
    BY <2>1
  <2>3. q = SubSeq(q, 1, Len(p)) \o Drop(q, Len(p)) /\ Drop(q, Len(p)) \in Seq(Cell)
    BY <2>2, JoinSplit, DropType
  <2>4. QED
    BY <2>1, <2>3
<1>2. ASSUME NEW r \in Seq(Cell), q = p \o r PROVE IsPrefix(p, q)
  <2>1. Len(p \o r) = Len(p) + Len(r) /\ Len(p) \in Nat /\ Len(r) \in Nat
    BY JoinType
  <2>2. SubSeq(p \o r, 1, Len(p)) = p
    BY SplitJoined
  <2>3. QED
    BY <1>0, <1>2, <2>1, <2>2 DEF IsPrefix
<1>3. QED
  BY <1>1, <1>2

LEMMA FrameType ==
    ASSUME NEW m, Body(m) \in Seq(Cell), Len(Body(m)) <= MaxBody
    PROVE  /\ Pack(Len(Body(m))) \in Seq(Cell) /\ Frame(m) \in Seq(Cell)
           /\ Len(Frame(m)) = 2 + Len(Body(m))
           /\ Drop(Frame(m), 2) = Body(m)
           /\ \A s \in Seq(Cell) : Unpack(Frame(m) \o s) = Len(Body(m))
<1> DEFINE n == Len(Body(m))
           h == Pack(n)
           b == Body(m)
<1>1. n \in 0..Base * Base - 1
  BY WireAssumption
<1>2. h \in Seq(Cell) /\ Len(h) = 2
  BY <1>1, PackType
<1>3. b \in Seq(Cell) /\ Frame(m) = h \o b
  BY DEF Frame
<1>4. ASSUME NEW s \in Seq(Cell) PROVE Unpack(Frame(m) \o s) = n
  <2>1. b \o s \in Seq(Cell)
    BY <1>3, JoinType
  <2>2. (h \o b) \o s = h \o (b \o s)
    BY <1>2, <1>3, JoinAssociative
  <2>3. Unpack(h \o (b \o s)) = n
    BY <1>1, <2>1, UnpackPacked
  <2>4. QED
    BY <1>3, <2>2, <2>3
<1> HIDE DEF h
<1>5. h \o b \in Seq(Cell) /\ Len(h \o b) = Len(h) + Len(b) /\ Drop(h \o b, Len(h)) = b
  <2>1. h \in Seq(Cell)
    BY <1>2
  <2>2. QED
    BY <1>3, <2>1, JoinType, SplitJoined
<1>6. QED
  BY <1>2, <1>3, <1>4, <1>5 DEF h

LEMMA Known ==
    ASSUME TypeOK
    PROVE  \A m \in Messages[stream.protocol] : WellFormed(stream.protocol, m) /\ Body(m) \in Seq(Cell)
<1>1. stream.protocol \in DOMAIN Messages
  BY WireAssumption DEF TypeOK, Streams
<1>2. \A m \in Messages[stream.protocol] : WellFormed(stream.protocol, m)
  BY <1>1, MessagesAssumption
<1>3. QED
  BY <1>2, BodyReads

LEMMA AheadType ==
    ASSUME TypeOK, Bounded
    PROVE  /\ Ahead \in Seq(Seq(Cell)) /\ Len(Ahead) = Len(sent) - Len(got)
           /\ FlattenSeq(Ahead) \in Seq(Cell)
           /\ \A i \in 1..Len(sent) : Frame(sent[i]) \in Seq(Cell)
<1> DEFINE K == Len(sent) - Len(got)
<1>1. Len(sent) \in Nat /\ Len(got) \in Nat /\ K \in Nat /\ DOMAIN sent = 1..Len(sent)
  BY DEF TypeOK
<1>2. \A i \in 1..Len(sent) : sent[i] \in Messages[stream.protocol]
  BY DEF TypeOK
<1>3. \A i \in 1..Len(sent) : Body(sent[i]) \in Seq(Cell) /\ Len(Body(sent[i])) <= MaxBody
  BY <1>1, <1>2, Known DEF Bounded
<1>4. \A i \in 1..Len(sent) : Frame(sent[i]) \in Seq(Cell)
  BY <1>3, FrameType
<1>5. \A i \in 1..K : Len(got) + i \in 1..Len(sent)
  BY <1>1
<1>6. Ahead = [i \in 1..K |-> Frame(sent[Len(got) + i])]
  BY DEF Ahead
<1>7. \A i \in 1..K : Frame(sent[Len(got) + i]) \in Seq(Cell)
  BY <1>4, <1>5
<1>8. Ahead \in [1..K -> Seq(Cell)]
  BY <1>6, <1>7, Zenon
<1>9. Ahead \in Seq(Seq(Cell)) /\ Len(Ahead) = K
  BY <1>1, <1>8, IsSequence, Zenon
<1>10. QED
  BY <1>4, <1>9, FlattenType

\* A header that has come is the header of the first frame ahead.
LEMMA FirstAhead ==
    ASSUME StreamInv, HasHeader
    PROVE  LET m == sent[Len(got) + 1]
           IN  /\ Len(got) + 1 <= Len(sent) /\ m \in Messages[stream.protocol]
               /\ Body(m) \in Seq(Cell) /\ Len(Body(m)) <= MaxBody
               /\ WellFormed(stream.protocol, m)
               /\ BodyLength = Len(Body(m))
               /\ FlattenSeq(Ahead) = Frame(m) \o FlattenSeq(Tail(Ahead))
               /\ Tail(Ahead) \in Seq(Seq(Cell))
               /\ \E r \in Seq(Cell) :
                     /\ frame \o (wire \o r) = Frame(m) \o FlattenSeq(Tail(Ahead))
                     /\ open => r = <<>>
<1> DEFINE m == sent[Len(got) + 1]
           F == FlattenSeq(Ahead)
           z == FlattenSeq(Tail(Ahead))
<1>0. /\ frame \in Seq(Cell) /\ wire \in Seq(Cell) /\ Len(sent) \in Nat /\ Len(got) \in Nat
      /\ TypeOK /\ Bounded /\ Framed /\ Len(frame) >= 2 /\ Len(got) <= Len(sent)
  BY DEF StreamInv, TypeOK, HasHeader, HeaderSize
<1>1. Ahead \in Seq(Seq(Cell)) /\ Len(Ahead) = Len(sent) - Len(got) /\ F \in Seq(Cell)
  BY <1>0, AheadType
<1>2. frame \o wire \in Seq(Cell)
  BY <1>0, JoinType
<1>3. PICK r \in Seq(Cell) : F = (frame \o wire) \o r /\ (open => r = <<>>)
  <2>1. CASE open
    <3>1. <<>> \in Seq(Cell) /\ (frame \o wire) \o <<>> = frame \o wire
      BY <1>2, JoinEmpty
    <3>2. QED
      BY <1>0, <2>1, <3>1 DEF Framed
  <2>2. CASE ~open
    BY <1>0, <1>1, <1>2, <2>2, PrefixRest DEF Framed
  <2>3. QED
    BY <2>1, <2>2
<1>4. wire \o r \in Seq(Cell) /\ F = frame \o (wire \o r)
  BY <1>0, <1>3, JoinType, JoinAssociative, ZenonT(40)
<1>5. Ahead # <<>>
  <2>1. Len(frame \o (wire \o r)) = Len(frame) + Len(wire \o r) /\ Len(wire \o r) \in Nat
    BY <1>0, <1>4, JoinType
  <2>2. F # <<>>
    BY <1>0, <1>4, <2>1
  <2>3. QED
    BY <2>2, FlattenEmpty
<1>6. Len(got) + 1 <= Len(sent) /\ Len(got) + 1 \in 1..Len(sent) /\ 1 \in 1..Len(sent) - Len(got)
  BY <1>0, <1>1, <1>5
<1>7. m \in Messages[stream.protocol] /\ Len(got) + 1 \in DOMAIN sent
  BY <1>6 DEF StreamInv, TypeOK
<1>8. Body(m) \in Seq(Cell) /\ WellFormed(stream.protocol, m) /\ Len(Body(m)) <= MaxBody
  BY <1>0, <1>7, Known DEF Bounded
<1>9. Head(Ahead) = Frame(m)
  <2>1. Ahead[1] = Frame(m)
    BY <1>6 DEF Ahead
  <2>2. QED
    BY <1>1, <1>5, <2>1
<1>10. F = Frame(m) \o z /\ Tail(Ahead) \in Seq(Seq(Cell)) /\ z \in Seq(Cell)
  <2>1. Tail(Ahead) \in Seq(Seq(Cell))
    BY <1>1, <1>5
  <2>2. F = Head(Ahead) \o z
    BY <1>1, <1>5, FlattenFirst
  <2>3. QED
    BY <1>9, <2>1, <2>2, FlattenType
<1>11. BodyLength = Len(Body(m))
  <2>1. Unpack(Frame(m) \o z) = Len(Body(m))
    BY <1>8, <1>10, FrameType
  <2>2. Unpack(frame \o (wire \o r)) = Unpack(frame)
    BY <1>0, <1>4, UnpackJoin
  <2>3. QED
    BY <1>4, <1>10, <2>1, <2>2 DEF BodyLength
<1> HIDE DEF m, F, z
<1>12. frame \o (wire \o r) = Frame(m) \o z
  BY <1>4, <1>10
<1>13. QED
  BY <1>3, <1>6, <1>7, <1>8, <1>10, <1>11, <1>12 DEF m, F, z

LEMMA Initially == Init => StreamInv
<1> SUFFICES ASSUME Init PROVE StreamInv
  OBVIOUS
<1>1. TypeOK
  <2>1. sent \in Seq(Messages[stream.protocol]) /\ got \in Seq(Messages[stream.protocol])
    BY DEF Init
  <2>2. /\ wire \in Seq(Cell) /\ frame \in Seq(Cell)
        /\ Len(got) <= Len(sent) /\ Len(frame) <= HeaderSize + MaxBody
    BY WireAssumption DEF Init, HeaderSize
  <2>3. stream \in Streams /\ open \in BOOLEAN /\ verdict \in {"reading", "eof", "error"}
    BY DEF Init
  <2>4. QED
    BY <2>1, <2>2, <2>3 DEF TypeOK
<1>2. Undistorted
  BY DEF Init, Undistorted, IsPrefix
<1>3. Ahead = <<>>
  BY DEF Init, Ahead
<1>4. FlattenSeq(Ahead) = <<>> /\ frame \o wire = <<>>
  BY <1>3, FlattenEmpty DEF Init
<1>5. Framed
  BY <1>4 DEF Framed, IsPrefix
<1>6. Bounded
  BY DEF Init, Bounded, HasHeader, HeaderSize
<1>7. QED
  BY <1>1, <1>2, <1>5, <1>6 DEF StreamInv

LEMMA Appended ==
    ASSUME NEW S, NEW a \in Seq(S), NEW c \in S
    PROVE  Append(a, c) = [i \in 1..Len(a) + 1 |-> IF i = Len(a) + 1 THEN c ELSE a[i]]
<1> DEFINE n == Len(a)
           u == Append(a, c)
<1>1. /\ n \in Nat /\ u \in Seq(S) /\ Len(u) = n + 1
      /\ u[n + 1] = c /\ \A i \in 1..n : u[i] = a[i]
  OBVIOUS
<1> HIDE DEF n, u
<1>2. u = [i \in 1..n + 1 |-> u[i]]
  BY <1>1
<1>3. \A i \in 1..n + 1 : u[i] = IF i = n + 1 THEN c ELSE a[i]
  BY <1>1
<1>4. u = [i \in 1..n + 1 |-> IF i = n + 1 THEN c ELSE a[i]]
  BY <1>2, <1>3, Zenon
<1>5. QED
  BY <1>4 DEF u, n

LEMMA WriteStep ==
    ASSUME StreamInv, NEW m \in Messages[stream.protocol], Write(m)
    PROVE  StreamInv'
<1>0. /\ TypeOK /\ Undistorted /\ Bounded /\ Framed
      /\ frame \in Seq(Cell) /\ wire \in Seq(Cell)
      /\ sent \in Seq(Messages[stream.protocol]) /\ got \in Seq(Messages[stream.protocol])
      /\ Len(sent) \in Nat /\ Len(got) \in Nat /\ Len(got) <= Len(sent)
  BY DEF StreamInv, TypeOK
<1>1. /\ open /\ Len(Body(m)) <= MaxBody
      /\ wire' = wire \o Pack(Len(Body(m))) \o Body(m) /\ sent' = Append(sent, m)
      /\ stream' = stream /\ frame' = frame /\ got' = got /\ verdict' = verdict /\ open' = open
  BY DEF Write, LeaveReader
<1>2. Body(m) \in Seq(Cell) /\ Pack(Len(Body(m))) \in Seq(Cell) /\ Frame(m) \in Seq(Cell)
  BY <1>0, <1>1, Known, FrameType
<1>3. wire' = wire \o Frame(m) /\ wire' \in Seq(Cell)
  <2>1. (wire \o Pack(Len(Body(m)))) \o Body(m) = wire \o Frame(m)
    BY <1>0, <1>2, JoinAssociative, ZenonT(40) DEF Frame
  <2>2. QED
    BY <1>0, <1>1, <1>2, <2>1, JoinType
<1>4. /\ sent' \in Seq(Messages[stream.protocol]) /\ Len(sent') = Len(sent) + 1
      /\ sent'[Len(sent) + 1] = m /\ \A i \in 1..Len(sent) : sent'[i] = sent[i]
  BY <1>0, <1>1
<1>5. TypeOK'
  BY <1>0, <1>1, <1>3, <1>4 DEF TypeOK
<1>6. Undistorted'
  BY <1>0, <1>1, <1>4 DEF Undistorted, IsPrefix
<1>7. Bounded'
  <2>1. (HasHeader => Wanted >= 0)'
    BY <1>0, <1>1 DEF Bounded, HasHeader, Wanted, BodyLength
  <2>2. ASSUME NEW i \in DOMAIN sent' PROVE Len(Body(sent'[i])) <= MaxBody
    <3>1. i \in 1..Len(sent) + 1 /\ DOMAIN sent = 1..Len(sent)
      BY <1>0, <1>4
    <3>2. CASE i = Len(sent) + 1
      BY <1>1, <1>4, <3>2
    <3>3. CASE i # Len(sent) + 1
      BY <1>0, <1>4, <3>1, <3>3 DEF Bounded
    <3>4. QED
      BY <3>2, <3>3
  <2>3. QED
    BY <2>1, <2>2 DEF Bounded
<1>8. Framed'
  <2> DEFINE K == Len(sent) - Len(got)
  <2>1. /\ Ahead \in Seq(Seq(Cell)) /\ Len(Ahead) = K /\ FlattenSeq(Ahead) \in Seq(Cell)
        /\ K \in Nat /\ frame \o wire = FlattenSeq(Ahead)
    BY <1>0, <1>1, AheadType DEF Framed
  <2>2. Ahead' = [i \in 1..K + 1 |-> Frame(sent'[Len(got) + i])]
    <3>1. Len(sent') - Len(got') = K + 1
      BY <1>0, <1>1, <1>4
    <3>2. QED
      BY <1>1, <3>1 DEF Ahead
  <2>3. Ahead = [i \in 1..K |-> Frame(sent[Len(got) + i])]
    BY DEF Ahead
  <2>4. ASSUME NEW i \in 1..K PROVE Frame(sent'[Len(got) + i]) = Frame(sent[Len(got) + i])
    <3>1. Len(got) + i \in 1..Len(sent)
      BY <1>0
    <3>2. QED
      BY <1>4, <3>1
  <2>5. Len(got) + (K + 1) = Len(sent) + 1
    BY <1>0
  <2>6. Frame(sent'[Len(got) + (K + 1)]) = Frame(m)
    BY <1>4, <2>5
  <2> HIDE DEF K
  <2>7. Ahead' = [i \in 1..K + 1 |-> IF i = K + 1 THEN Frame(m) ELSE Ahead[i]]
    <3>1. ASSUME NEW i \in 1..K + 1
          PROVE  Frame(sent'[Len(got) + i]) = IF i = K + 1 THEN Frame(m) ELSE Ahead[i]
      <4>1. CASE i = K + 1
        BY <2>6, <4>1
      <4>2. CASE i # K + 1
        <5>1. i \in 1..K
          BY <2>1, <4>2
        <5>2. QED
          BY <2>3, <2>4, <4>2, <5>1
      <4>3. QED
        BY <4>1, <4>2
    <3>2. QED
      BY <2>2, <3>1
  <2>8. Append(Ahead, Frame(m)) = [i \in 1..K + 1 |-> IF i = K + 1 THEN Frame(m) ELSE Ahead[i]]
    <3>1. Ahead \in Seq(Seq(Cell)) /\ Frame(m) \in Seq(Cell)
      BY <1>2, <2>1
    <3>2. Append(Ahead, Frame(m))
          = [i \in 1..Len(Ahead) + 1 |-> IF i = Len(Ahead) + 1 THEN Frame(m) ELSE Ahead[i]]
      BY <3>1, Appended
    <3>3. QED
      BY <2>1, <3>2
  <2>9. Ahead' = Append(Ahead, Frame(m))
    BY <2>7, <2>8
  <2>10. FlattenSeq(Ahead') = FlattenSeq(Ahead) \o Frame(m)
    BY <1>2, <2>1, <2>9, FlattenAppend
  <2>11. frame \o (wire \o Frame(m)) = (frame \o wire) \o Frame(m)
    BY <1>0, <1>2, JoinAssociative, ZenonT(40)
  <2>12. frame' \o wire' = FlattenSeq(Ahead') /\ frame' \o wire' \in Seq(Cell)
    BY <1>0, <1>1, <1>3, <2>1, <2>10, <2>11, JoinType
  <2>13. IsPrefix(frame' \o wire', FlattenSeq(Ahead'))
    BY <2>12 DEF IsPrefix
  <2>14. QED
    BY <2>12, <2>13 DEF Framed
<1>9. QED
  BY <1>5, <1>6, <1>7, <1>8 DEF StreamInv

\* What moves nothing but the end of the stream.
LEMMA SameAhead ==
    ASSUME UNCHANGED <<sent, got>>
    PROVE  Ahead' = Ahead
BY DEF Ahead

LEMMA CloseStep ==
    ASSUME StreamInv, Close
    PROVE  StreamInv'
<1>1. /\ stream' = stream /\ sent' = sent /\ wire' = wire /\ frame' = frame /\ got' = got
      /\ verdict' = verdict /\ open' = FALSE
  BY DEF Close, LeaveReader
<1>2. Ahead' = Ahead
  BY <1>1, SameAhead
<1>3. TypeOK' /\ Undistorted'
  BY <1>1 DEF StreamInv, TypeOK, Undistorted
<1>4. Bounded'
  BY <1>1 DEF StreamInv, Bounded, HasHeader, Wanted, BodyLength
<1>5. Framed'
  BY <1>1, <1>2 DEF StreamInv, Framed
<1>6. QED
  BY <1>3, <1>4, <1>5 DEF StreamInv

LEMMA EndStep ==
    ASSUME StreamInv, End
    PROVE  StreamInv'
<1>1. /\ stream' = stream /\ sent' = sent /\ wire' = wire /\ frame' = frame /\ got' = got
      /\ open' = open /\ verdict' \in {"eof", "error"}
  BY DEF End
<1>2. Ahead' = Ahead
  BY <1>1, SameAhead
<1>3. TypeOK' /\ Undistorted'
  BY <1>1 DEF StreamInv, TypeOK, Undistorted
<1>4. Bounded'
  BY <1>1 DEF StreamInv, Bounded, HasHeader, Wanted, BodyLength
<1>5. Framed'
  BY <1>1, <1>2 DEF StreamInv, Framed
<1>6. QED
  BY <1>3, <1>4, <1>5 DEF StreamInv

LEMMA CutStep ==
    ASSUME StreamInv, Cut
    PROVE  StreamInv'
<1>0. /\ TypeOK /\ Bounded /\ Framed /\ frame \in Seq(Cell) /\ wire \in Seq(Cell)
  BY DEF StreamInv, TypeOK
<1>1. /\ stream' = stream /\ sent' = sent /\ frame' = frame /\ got' = got
      /\ verdict' = verdict /\ open' = FALSE
  BY DEF Cut, LeaveReader
<1>2. PICK n \in 0..Len(wire) : wire' = SubSeq(wire, 1, n)
  BY DEF Cut
<1>3. Ahead' = Ahead
  BY <1>1, SameAhead
<1>4. wire' \in Seq(Cell)
  BY <1>0, <1>2, TakeType
<1>5. TypeOK' /\ Undistorted'
  BY <1>1, <1>4 DEF StreamInv, TypeOK, Undistorted
<1>6. Bounded'
  BY <1>1 DEF StreamInv, Bounded, HasHeader, Wanted, BodyLength
<1>7. Framed'
  <2> DEFINE w == SubSeq(wire, 1, n)
             d == Drop(wire, n)
             F == FlattenSeq(Ahead)
  <2>1. wire = w \o d /\ w \in Seq(Cell) /\ d \in Seq(Cell)
    BY <1>0, TakeType, DropType, JoinSplit
  <2>2. F \in Seq(Cell)
    BY <1>0, AheadType
  <2>3. frame \o wire \in Seq(Cell)
    BY <1>0, JoinType
  <2>4. PICK r \in Seq(Cell) : F = (frame \o wire) \o r
    BY <1>0, <2>2, <2>3, PrefixRest DEF Framed
  <2>5. wire' = w
    BY <1>2
  <2> HIDE DEF w, d, F
  <2>6. frame \o wire = (frame \o w) \o d /\ frame \o w \in Seq(Cell)
    <3>1. frame \in Seq(Cell) /\ w \in Seq(Cell) /\ d \in Seq(Cell)
      BY <1>0, <2>1
    <3>2. (frame \o w) \o d = frame \o (w \o d)
      BY <3>1, JoinAssociative, SMTT(20)
    <3>3. QED
      BY <2>1, <3>1, <3>2, JoinType
  <2>7. ((frame \o w) \o d) \o r = (frame \o w) \o (d \o r) /\ d \o r \in Seq(Cell)
    BY <2>1, <2>6, JoinAssociative, JoinType, ZenonT(40)
  <2>8. IsPrefix(frame \o w, F)
    BY <2>2, <2>4, <2>6, <2>7, PrefixRest
  <2>9. IsPrefix(frame \o wire', FlattenSeq(Ahead))
    BY <2>5, <2>8 DEF F
  <2>10. QED
    BY <1>1, <1>3, <2>9 DEF Framed
<1>8. QED
  BY <1>5, <1>6, <1>7 DEF StreamInv

LEMMA ReceiveStep ==
    ASSUME StreamInv, Receive
    PROVE  StreamInv'
<1>0. /\ TypeOK /\ Bounded /\ Framed /\ frame \in Seq(Cell) /\ wire \in Seq(Cell)
      /\ Len(frame) \in Nat /\ Len(wire) \in Nat /\ MaxBody \in Nat
  BY WireAssumption DEF StreamInv, TypeOK
<1>1. /\ stream' = stream /\ sent' = sent /\ got' = got /\ open' = open
      /\ verdict \in {"reading"}
  BY DEF Receive
<1>2. verdict' \in {"reading", "error"}
  BY <1>1 DEF Receive
<1>3. PICK n \in 1..Len(wire) : /\ n <= Wanted
                                /\ frame' = frame \o SubSeq(wire, 1, n)
                                /\ wire' = Drop(wire, n)
  BY DEF Receive
<1>4. Ahead' = Ahead
  BY <1>1, SameAhead
<1> DEFINE w == SubSeq(wire, 1, n)
           d == Drop(wire, n)
<1>5. /\ wire = w \o d /\ w \in Seq(Cell) /\ d \in Seq(Cell) /\ Len(w) = n
      /\ frame' = frame \o w /\ wire' = d
  <2>1. n \in 0..Len(wire)
    BY <1>0
  <2>2. wire = w \o d
    BY <1>0, <2>1, JoinSplit
  <2>3. w \in Seq(Cell) /\ Len(w) = n
    BY <1>0, <2>1, TakeType
  <2>4. d \in Seq(Cell)
    BY <1>0, <2>1, DropType
  <2>5. QED
    BY <1>3, <2>2, <2>3, <2>4
<1> HIDE DEF w, d
<1>6. /\ frame' \in Seq(Cell) /\ wire' \in Seq(Cell) /\ Len(frame') = Len(frame) + n
  BY <1>0, <1>5, JoinType
<1>7. frame' \o wire' = frame \o wire
  BY <1>0, <1>5, JoinAssociative, SMTT(20)
<1>8. /\ Len(frame') <= HeaderSize + MaxBody
      /\ (HasHeader => Wanted >= 0)'
  <2>1. CASE HasHeader
    <3>1. Len(frame) >= 2 /\ Wanted = 2 + BodyLength - Len(frame)
      BY <2>1 DEF HasHeader, HeaderSize, Wanted
    <3>2. BodyLength \in Nat /\ BodyLength <= MaxBody
      BY <2>1, FirstAhead, WordPositive
    <3>3. Unpack(frame') = Unpack(frame)
      BY <1>0, <1>5, <3>1, UnpackJoin
    <3>4. BodyLength' = BodyLength /\ HasHeader'
      BY <1>0, <1>6, <3>1, <3>3 DEF BodyLength, HasHeader, HeaderSize
    <3>5. Wanted' = 2 + BodyLength - (Len(frame) + n)
      BY <1>6, <3>4 DEF Wanted, HeaderSize
    <3>6. QED
      BY <1>0, <1>3, <1>6, <3>1, <3>2, <3>5 DEF HeaderSize
  <2>2. CASE ~HasHeader
    <3>1. Len(frame) < 2 /\ Wanted = 2 - Len(frame)
      BY <1>0, <2>2 DEF HasHeader, HeaderSize, Wanted
    <3>2. Len(frame') <= 2
      BY <1>0, <1>3, <1>6, <3>1
    <3>3. ASSUME HasHeader' PROVE Wanted' >= 0
      <4>1. Len(frame') >= 2
        BY <3>3 DEF HasHeader, HeaderSize
      <4>2. Unpack(frame') \in Nat
        BY <1>6, <4>1, UnpackType, WordPositive
      <4>3. Wanted' = 2 + Unpack(frame') - Len(frame')
        BY <3>3 DEF Wanted, BodyLength, HeaderSize
      <4>4. QED
        BY <1>6, <3>2, <4>2, <4>3, <1>0
    <3>4. QED
      BY <1>0, <3>2, <3>3 DEF HeaderSize
  <2>3. QED
    BY <2>1, <2>2
<1>9. TypeOK' /\ Undistorted'
  BY <1>1, <1>2, <1>6, <1>8 DEF StreamInv, TypeOK, Undistorted
<1>10. Bounded'
  BY <1>1, <1>8 DEF StreamInv, Bounded
<1>11. Framed'
  BY <1>0, <1>1, <1>4, <1>7 DEF Framed
<1>12. QED
  BY <1>9, <1>10, <1>11 DEF StreamInv

LEMMA OneToSeq ==
    ASSUME NEW m
    PROVE  SetToSeq({m}) = <<m>>
<1> DEFINE P(f) == f \in [1..1 -> {m}] /\ IsInjective(f)
           g == [i \in 1..1 |-> m]
           c == CHOOSE f : P(f)
<1>1. Cardinality({m}) = 1
  BY FS_Singleton
<1>2. P(g)
  BY DEF IsInjective
<1>3. SetToSeq({m}) = CHOOSE f \in [1..1 -> {m}] : IsInjective(f)
  BY <1>1 DEF SetToSeq
<1>4. SetToSeq({m}) = c
  BY <1>3
<1>5. P(c)
  BY <1>2, Zenon
<1> HIDE DEF c
<1>6. c = [i \in 1..1 |-> m]
  BY <1>5
<1>7. QED
  BY <1>4, <1>6

LEMMA Tailed ==
    ASSUME NEW S, NEW a \in Seq(S), a # <<>>
    PROVE  Tail(a) = [i \in 1..Len(a) - 1 |-> a[i + 1]]
<1> DEFINE n == Len(a) - 1
           u == Tail(a)
<1>1. n \in Nat /\ u \in Seq(S) /\ Len(u) = n /\ \A i \in 1..n : u[i] = a[i + 1]
  OBVIOUS
<1> HIDE DEF n, u
<1>2. u = [i \in 1..n |-> u[i]]
  BY <1>1
<1>3. u = [i \in 1..n |-> a[i + 1]]
  BY <1>1, <1>2, Zenon
<1>4. QED
  BY <1>3 DEF u, n

LEMMA DeliverStep ==
    ASSUME StreamInv, Deliver
    PROVE  StreamInv'
<1> DEFINE m == sent[Len(got) + 1]
           z == FlattenSeq(Tail(Ahead))
           K == Len(sent) - Len(got)
<1>0. /\ TypeOK /\ Undistorted /\ Bounded /\ Framed /\ frame \in Seq(Cell) /\ wire \in Seq(Cell)
      /\ sent \in Seq(Messages[stream.protocol]) /\ got \in Seq(Messages[stream.protocol])
      /\ Len(frame) \in Nat /\ Len(got) \in Nat /\ Len(sent) \in Nat /\ K \in Nat
  BY DEF StreamInv, TypeOK
<1>1. /\ stream' = stream /\ sent' = sent /\ wire' = wire /\ open' = open /\ frame' = <<>>
      /\ HasHeader /\ Wanted = 0
      /\ got' = got \o SetToSeq(DecodeBody(Drop(frame, HeaderSize)))
      /\ verdict' = IF DecodeBody(Drop(frame, HeaderSize)) = {} THEN "error" ELSE "reading"
  BY DEF Deliver
<1>2. /\ Len(got) + 1 <= Len(sent) /\ m \in Messages[stream.protocol]
      /\ Body(m) \in Seq(Cell) /\ Len(Body(m)) <= MaxBody /\ WellFormed(stream.protocol, m)
      /\ BodyLength = Len(Body(m))
      /\ Tail(Ahead) \in Seq(Seq(Cell))
      /\ \E r \in Seq(Cell) : /\ frame \o (wire \o r) = Frame(m) \o z
                              /\ open => r = <<>>
  BY <1>1, FirstAhead
<1>3. PICK r \in Seq(Cell) : frame \o (wire \o r) = Frame(m) \o z /\ (open => r = <<>>)
  BY <1>2
<1>4. /\ Frame(m) \in Seq(Cell) /\ Len(Frame(m)) = 2 + Len(Body(m)) /\ Drop(Frame(m), 2) = Body(m)
      /\ z \in Seq(Cell) /\ wire \o r \in Seq(Cell)
  BY <1>0, <1>2, FrameType, FlattenType, JoinType
<1>5. Len(frame) = Len(Frame(m))
  <2>1. Wanted = 2 + BodyLength - Len(frame)
    BY <1>1 DEF Wanted, HeaderSize
  <2>2. Len(Body(m)) \in Nat
    BY <1>2
  <2>3. QED
    BY <1>0, <1>1, <1>2, <1>4, <2>1, <2>2
<1> HIDE DEF m, z
<1>6. frame = Frame(m) /\ wire \o r = z
  BY <1>0, <1>3, <1>4, <1>5, SameLength
<1>7. DecodeBody(Drop(frame, HeaderSize)) = {m}
  BY <1>2, <1>4, <1>6, RoundTrip DEF HeaderSize
<1>8. got' = Append(got, m) /\ verdict' = "reading"
  <2>1. got' = got \o <<m>>
    BY <1>1, <1>7, OneToSeq
  <2>2. got \o <<m>> = Append(got, m)
    BY <1>0, <1>2
  <2>3. QED
    BY <1>1, <1>7, <2>1, <2>2
<1>9. /\ got' \in Seq(Messages[stream.protocol]) /\ Len(got') = Len(got) + 1
      /\ got'[Len(got) + 1] = m /\ \A i \in 1..Len(got) : got'[i] = got[i]
  BY <1>0, <1>2, <1>8
<1>10. TypeOK'
  <2>1. <<>> \in Seq(Cell) /\ Len(<<>>) <= HeaderSize + MaxBody
    BY WireAssumption DEF HeaderSize
  <2>2. QED
    BY <1>0, <1>1, <1>2, <1>8, <1>9, <2>1 DEF TypeOK
<1>11. Undistorted'
  <2>1. Len(got) <= Len(sent) /\ SubSeq(got, 1, Len(got)) = SubSeq(sent, 1, Len(got))
    BY <1>0 DEF Undistorted, IsPrefix
  <2>2. ASSUME NEW i \in 1..Len(got) PROVE got[i] = sent[i]
    <3>1. SubSeq(got, 1, Len(got))[i] = got[i] /\ SubSeq(sent, 1, Len(got))[i] = sent[i]
      BY <1>0, <2>1
    <3>2. QED
      BY <2>1, <3>1
  <2>3. ASSUME NEW i \in 1..Len(got) + 1 PROVE got'[i] = sent[i]
    <3>1. CASE i = Len(got) + 1
      BY <1>9, <3>1 DEF m
    <3>2. CASE i # Len(got) + 1
      <4>1. i \in 1..Len(got)
        BY <1>0, <3>2
      <4>2. QED
        BY <1>9, <2>2, <4>1
    <3>3. QED
      BY <3>1, <3>2
  <2> DEFINE k == Len(got) + 1
             u == SubSeq(got', 1, k)
             v == SubSeq(sent, 1, k)
  <2>4. k \in Nat /\ k <= Len(sent) /\ Len(got') = k
    BY <1>0, <1>2, <1>9
  <2>5. \A i \in 1..k : got'[i] = sent[i]
    BY <2>3
  <2> HIDE DEF k
  <2>6. u = [i \in 1..k |-> got'[i]] /\ v = [i \in 1..k |-> sent[i]]
    BY <1>0, <1>9, <2>4
  <2>7. u = v
    BY <2>5, <2>6
  <2>8. QED
    BY <1>1, <2>4, <2>7 DEF Undistorted, IsPrefix
<1>12. Bounded'
  <2>1. ~HasHeader'
    BY <1>1 DEF HasHeader, HeaderSize
  <2>2. QED
    BY <1>0, <1>1, <2>1 DEF Bounded
<1>13. Ahead' = Tail(Ahead)
  <2>1. Ahead \in Seq(Seq(Cell)) /\ Len(Ahead) = K /\ K >= 1
    BY <1>0, <1>2, AheadType
  <2>2. Tail(Ahead) = [i \in 1..K - 1 |-> Ahead[i + 1]]
    <3>1. Ahead # <<>>
      BY <2>1
    <3>2. Tail(Ahead) = [i \in 1..Len(Ahead) - 1 |-> Ahead[i + 1]]
      BY <2>1, <3>1, Tailed
    <3>3. QED
      BY <2>1, <3>2
  <2>3. Ahead = [i \in 1..K |-> Frame(sent[Len(got) + i])]
    BY DEF Ahead
  <2>4. Ahead' = [i \in 1..K - 1 |-> Frame(sent[(Len(got) + 1) + i])]
    <3>1. Len(sent') - Len(got') = K - 1
      BY <1>0, <1>1, <1>9
    <3>2. QED
      BY <1>1, <1>9, <3>1 DEF Ahead
  <2>5. ASSUME NEW i \in 1..K - 1 PROVE Ahead[i + 1] = Frame(sent[(Len(got) + 1) + i])
    <3>1. i + 1 \in 1..K /\ Len(got) + (i + 1) = (Len(got) + 1) + i
      BY <1>0
    <3> HIDE DEF K
    <3>2. Ahead[i + 1] = Frame(sent[Len(got) + (i + 1)])
      BY <2>3, <3>1
    <3>3. QED
      BY <3>1, <3>2
  <2> HIDE DEF K
  <2>6. QED
    BY <2>2, <2>4, <2>5
<1>14. Framed'
  <2>1. frame' \o wire' = wire
    BY <1>0, <1>1, JoinEmpty
  <2>2. FlattenSeq(Ahead') = z
    BY <1>13 DEF z
  <2>3. IsPrefix(wire, z)
    BY <1>0, <1>4, <1>6, PrefixRest
  <2>4. open => wire = z
    BY <1>0, <1>3, <1>6, JoinEmpty
  <2>5. QED
    BY <1>1, <2>1, <2>2, <2>3, <2>4 DEF Framed
<1>15. QED
  BY <1>10, <1>11, <1>12, <1>14 DEF StreamInv

(* What the reader has and what is still to come are, cell by cell, the     *)
(* frames of the messages not decoded yet (read_frame_socket, encode_frame).*)
THEOREM StreamHolds == Spec => []StreamInv
<1>1. ASSUME StreamInv, [Next]_vars PROVE StreamInv'
  <2>1. CASE UNCHANGED vars
    <3>1. /\ stream' = stream /\ sent' = sent /\ wire' = wire /\ frame' = frame /\ got' = got
          /\ verdict' = verdict /\ open' = open
      BY <2>1 DEF vars
    <3>2. Ahead' = Ahead
      BY <3>1, SameAhead
    <3>3. QED
      BY <1>1, <3>1, <3>2
      DEF StreamInv, TypeOK, Undistorted, Framed, Bounded, HasHeader, Wanted, BodyLength
  <2>2. CASE \E m \in Messages[stream.protocol] : Write(m)
    BY <1>1, <2>2, WriteStep
  <2>3. CASE Close
    BY <1>1, <2>3, CloseStep
  <2>4. CASE Cut
    BY <1>1, <2>4, CutStep
  <2>5. CASE Receive
    BY <1>1, <2>5, ReceiveStep
  <2>6. CASE Deliver
    BY <1>1, <2>6, DeliverStep
  <2>7. CASE End
    BY <1>1, <2>7, EndStep
  <2>8. QED
    BY <1>1, <2>1, <2>2, <2>3, <2>4, <2>5, <2>6, <2>7 DEF Next
<1>2. QED
  BY Initially, <1>1, PTL DEF Spec

(* The messages decoded are the messages written, in their order, wherever  *)
(* the reads cut the stream and wherever the writer dies.                   *)
THEOREM NothingDistorted == Spec => []Undistorted
<1>1. StreamInv => Undistorted
  BY DEF StreamInv
<1>2. QED
  BY <1>1, StreamHolds, PTL

(* A frame under way decodes to nothing before its last cell, and a whole   *)
(* one to nothing with a cell more (decode_message).                        *)
THEOREM NothingAmbiguous == Spec => []Unambiguous
<1>1. ASSUME StreamInv PROVE Unambiguous
  <2> DEFINE body == Drop(frame, HeaderSize)
             m == sent[Len(got) + 1]
             z == FlattenSeq(Tail(Ahead))
  <2> SUFFICES ASSUME HasHeader
               PROVE  /\ Wanted > 0 => DecodeBody(body) = {}
                      /\ Wanted = 0 => \A c \in Cell : DecodeBody(Append(body, c)) = {}
    BY DEF Unambiguous
  <2>1. /\ frame \in Seq(Cell) /\ wire \in Seq(Cell) /\ Len(frame) \in Nat /\ Len(frame) >= 2
        /\ Wanted = 2 + BodyLength - Len(frame)
    BY <1>1 DEF StreamInv, TypeOK, HasHeader, HeaderSize, Wanted
  <2>2. /\ Body(m) \in Seq(Cell) /\ Len(Body(m)) <= MaxBody /\ WellFormed(stream.protocol, m)
        /\ BodyLength = Len(Body(m)) /\ Tail(Ahead) \in Seq(Seq(Cell))
        /\ \E r \in Seq(Cell) : frame \o (wire \o r) = Frame(m) \o z
    BY <1>1, FirstAhead
  <2>3. PICK r \in Seq(Cell) : frame \o (wire \o r) = Frame(m) \o z
    BY <2>2
  <2>4. /\ Frame(m) \in Seq(Cell) /\ Len(Frame(m)) = 2 + Len(Body(m))
        /\ Drop(Frame(m), 2) = Body(m) /\ z \in Seq(Cell) /\ wire \o r \in Seq(Cell)
    BY <2>1, <2>2, FrameType, FlattenType, JoinType
  <2>5. body \in Seq(Cell) /\ 2 \in 0..Len(frame) /\ body = Drop(frame, 2) /\ Len(Body(m)) \in Nat
    BY <2>1, <2>2, DropType DEF HeaderSize
  <2> HIDE DEF body, m, z
  <2>6. ASSUME Wanted > 0 PROVE DecodeBody(body) = {}
    <3>1. Len(frame) <= Len(Frame(m)) /\ Len(frame) # Len(Frame(m))
      BY <2>1, <2>2, <2>4, <2>5, <2>6
    <3>2. PICK u \in Seq(Cell) : Frame(m) = frame \o u /\ Len(u) = Len(Frame(m)) - Len(frame)
      <4> DEFINE whole == Frame(m)
                 back == wire \o r
      <4>1. /\ frame \in Seq(Cell) /\ back \in Seq(Cell) /\ whole \in Seq(Cell) /\ z \in Seq(Cell)
            /\ frame \o back = whole \o z
        BY <2>1, <2>3, <2>4
      <4>2. Len(frame) <= Len(whole)
        BY <3>1
      <4> HIDE DEF whole, back
      <4>3. /\ Drop(whole, Len(frame)) \in Seq(Cell) /\ whole = frame \o Drop(whole, Len(frame))
            /\ Len(Drop(whole, Len(frame))) = Len(whole) - Len(frame)
        BY <4>1, <4>2, ShorterFront, ZenonT(40)
      <4>4. QED
        BY <4>3 DEF whole
    <3>3. u # <<>>
      BY <2>1, <2>4, <2>5, <3>1, <3>2
    <3>4. Drop(frame \o u, 2) = Drop(frame, 2) \o u
      BY <2>1, <2>5, TakeJoin
    <3>5. Body(m) = body \o u
      BY <2>4, <2>5, <3>2, <3>4
    <3>6. QED
      BY <2>2, <2>5, <3>3, <3>5, NoPartIsWhole
  <2>7. ASSUME Wanted = 0, NEW c \in Cell PROVE DecodeBody(Append(body, c)) = {}
    <3>1. Len(frame) = Len(Frame(m))
      BY <2>1, <2>2, <2>4, <2>5, <2>7
    <3>2. frame = Frame(m)
      BY <2>1, <2>3, <2>4, <3>1, SameLength
    <3>3. body = Body(m)
      BY <2>4, <2>5, <3>2
    <3>4. Append(body, c) = body \o <<c>> /\ <<c>> \in Seq(Cell) /\ <<c>> # <<>>
      BY <2>5
    <3>5. QED
      BY <2>2, <3>3, <3>4, NoPartIsWhole
  <2>8. QED
    BY <2>6, <2>7
<1>2. QED
  BY <1>1, StreamHolds, PTL
=============================================================================
