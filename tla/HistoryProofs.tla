--------------------------- MODULE HistoryProofs ---------------------------
(***************************************************************************)
(* Proofs about the store and the backlog chart, for any sizes, limits,    *)
(* settings and clocks.                                                    *)
(***************************************************************************)
EXTENDS HistoryProperties, FiniteSetTheorems, WellFoundedInduction, TLAPS

-----------------------------------------------------------------------------
(* Induction up to a number, and the recursive definitions it justifies *)

\* Every set of natural numbers has a least one.
LEMMA LeastNat ==
  ASSUME NEW T, T \subseteq Nat, T # {}
  PROVE  \E n \in T : \A m \in T : n <= m
  <1> DEFINE R == {p \in Nat \X Nat : p[1] < p[2]}
  <1>1. IsWellFoundedOn(R, Nat)
    BY NatLessThanWellFounded DEF OpToRel
  <1>2. \E x \in T : \A y \in T : ~(<<y, x>> \in R)
    <2> HIDE DEF R
    <2> QED BY <1>1, WFMin
  <1>3. PICK n \in T : \A m \in T : ~(<<m, n>> \in R)
    BY <1>2
  <1>4. \A m \in T : ~(m < n)
    BY <1>3
  <1> QED BY <1>4

\* A set that has 0, and each number up to n of which it has the one before,
\* has all numbers up to n.
LEMMA UpToInduction ==
  ASSUME NEW n \in Nat, NEW S, 0 \in S, \A k \in 1 .. n : k - 1 \in S => k \in S
  PROVE  \A k \in 0 .. n : k \in S
  <1> SUFFICES ASSUME (0 .. n) \ S # {} PROVE FALSE
    OBVIOUS
  <1> DEFINE T == (0 .. n) \ S
  <1>1. PICK k \in T : \A m \in T : k <= m
    <2>1. T \subseteq Nat /\ T # {}
      OBVIOUS
    <2> HIDE DEF T
    <2> QED BY <2>1, LeastNat
  <1>2. k \in 1 .. n /\ k - 1 \in 0 .. n /\ ~(k <= k - 1)
    BY <1>1
  <1> QED BY <1>1, <1>2

\* f is the function that the recursion from a by step defines, up to n.
Recursion(f, a, step, n) ==
    f[0] = a /\ \A k \in 1 .. n : f[k] = step[<<k, f[k - 1]>>]

\* A definition by recursion up to n defines a function.
LEMMA UpToRecursion ==
  ASSUME NEW n \in Nat, NEW X, NEW a \in X, NEW step \in [(1 .. n) \X X -> X]
  PROVE  \E f \in [0 .. n -> X] : Recursion(f, a, step, n)
  <1> DEFINE S == {m \in 0 .. n : \E f \in [0 .. m -> X] : Recursion(f, a, step, m)}
  <1>1. 0 \in S
    <2> DEFINE f == [k \in 0 .. 0 |-> a]
    <2>1. f \in [0 .. 0 -> X] /\ Recursion(f, a, step, 0)
      BY DEF Recursion
    <2> HIDE DEF f
    <2> QED BY <2>1
  <1>2. ASSUME NEW m \in 1 .. n, m - 1 \in S
        PROVE  m \in S
    <2>1. PICK f \in [0 .. m - 1 -> X] : Recursion(f, a, step, m - 1)
      BY <1>2
    <2> DEFINE last == step[<<m, f[m - 1]>>]
               g == [k \in 0 .. m |-> IF k = m THEN last ELSE f[k]]
    <2>2. last \in X
      <3>1. m - 1 \in 0 .. m - 1
        OBVIOUS
      <3>2. f[m - 1] \in X
        BY <3>1
      <3> QED BY <3>2
    <2>3. \A k \in 0 .. m : k # m => k \in 0 .. m - 1
      OBVIOUS
    <2>4. g \in [0 .. m -> X]
      <3> HIDE DEF last
      <3> QED BY <2>2, <2>3
    <2>5. g[0] = a
      BY <2>1, 0 \in 0 .. m /\ m # 0 DEF Recursion
    <2>6. ASSUME NEW k \in 1 .. m
          PROVE  g[k] = step[<<k, g[k - 1]>>]
      <3>1. k \in 0 .. m /\ k - 1 \in 0 .. m /\ k - 1 # m
        OBVIOUS
      <3>2. g[k - 1] = f[k - 1]
        BY <3>1
      <3>3. CASE k = m
        <4>1. g[k] = last
          BY <3>1, <3>3
        <4> QED BY <4>1, <3>2, <3>3
      <3>4. CASE k # m
        <4>1. g[k] = f[k] /\ k \in 1 .. m - 1
          BY <3>1, <3>4
        <4> QED BY <4>1, <2>1, <3>2 DEF Recursion
      <3> QED BY <3>3, <3>4
    <2> HIDE DEF g
    <2>7. Recursion(g, a, step, m)
      BY <2>5, <2>6 DEF Recursion
    <2> QED BY <2>4, <2>7
  <1>3. \A k \in 0 .. n : k \in S
    <2> HIDE DEF S
    <2> QED BY <1>1, <1>2, UpToInduction
  <1>4. n \in S
    BY <1>3
  <1> QED BY <1>4

-----------------------------------------------------------------------------
(* Sums of sizes, and the rows kept of a table *)

\* The partial sums that Bytes adds up (store.rs prune_bytes).
Sums(sum, sizes) ==
    /\ sum \in [0 .. Len(sizes) -> Nat] /\ sum[0] = 0
    /\ \A k \in 1 .. Len(sizes) : sum[k] = sum[k - 1] + sizes[k]
    /\ Bytes(sizes) = sum[Len(sizes)]

\* Bytes adds the sizes one by one.
LEMMA BytesSums ==
  ASSUME NEW sizes \in Seq(Nat)
  PROVE  \E sum : Sums(sum, sizes)
  <1> DEFINE n == Len(sizes)
             step == [p \in (1 .. n) \X Nat |-> p[2] + sizes[p[1]]]
             Is(s) == s = [k \in 0 .. n |-> IF k = 0 THEN 0 ELSE s[k - 1] + sizes[k]]
             sum == CHOOSE s : Is(s)
  <1>1. n \in Nat /\ \A k \in 1 .. n : sizes[k] \in Nat
    OBVIOUS
  <1> HIDE DEF n
  <1>2. step \in [(1 .. n) \X Nat -> Nat]
    BY <1>1
  <1>3. PICK f \in [0 .. n -> Nat] : Recursion(f, 0, step, n)
    <2> HIDE DEF step
    <2> QED BY <1>1, <1>2, UpToRecursion
  <1>4. \A k \in 1 .. n : f[k] = f[k - 1] + sizes[k]
    <2> TAKE k \in 1 .. n
    <2>1. k - 1 \in 0 .. n /\ f[k - 1] \in Nat
      BY <1>1
    <2> QED BY <1>3, <2>1 DEF Recursion
  <1>5. \A k \in 0 .. n : f[k] = IF k = 0 THEN 0 ELSE f[k - 1] + sizes[k]
    BY <1>1, <1>3, <1>4 DEF Recursion
  <1>6. Is(f)
    BY <1>5
  <1>7. Is(sum)
    <2> HIDE DEF Is
    <2> QED BY <1>6
  <1> HIDE DEF sum
  <1>8. /\ DOMAIN sum = 0 .. n /\ sum[0] = 0
        /\ \A k \in 1 .. n : sum[k] = sum[k - 1] + sizes[k]
    BY <1>1, <1>7
  <1>9. \A k \in 0 .. n : sum[k] \in Nat
    <2> DEFINE S == {k \in 0 .. n : sum[k] \in Nat}
    <2>1. 0 \in S
      BY <1>1, <1>8
    <2>3. ASSUME NEW k \in 1 .. n, k - 1 \in S
          PROVE  k \in S
      <3>1. sum[k] = sum[k - 1] + sizes[k] /\ sum[k - 1] \in Nat /\ sizes[k] \in Nat
        BY <1>1, <1>8, <2>3
      <3> QED BY <3>1
    <2>2. \A k \in 0 .. n : k \in S
      <3> HIDE DEF S
      <3> QED BY <1>1, <2>1, <2>3, UpToInduction
    <2> QED BY <2>2
  <1>10. sum \in [0 .. n -> Nat]
    BY <1>7, <1>9
  <1>11. Bytes(sizes) = sum[n]
    BY DEF Bytes, sum, n
  <1> QED BY <1>8, <1>10, <1>11 DEF Sums, n

\* A sum of sizes is a number, at most a sum of as many sizes each as large.
LEMMA BytesMonotone ==
  ASSUME NEW u \in Seq(Nat), NEW w \in Seq(Nat), Len(u) = Len(w),
         \A k \in 1 .. Len(u) : u[k] <= w[k]
  PROVE  Bytes(u) \in Nat /\ Bytes(u) <= Bytes(w)
  <1> DEFINE n == Len(u)
  <1>1. n \in Nat /\ \A k \in 1 .. n : u[k] \in Nat /\ w[k] \in Nat /\ u[k] <= w[k]
    OBVIOUS
  <1>2. PICK su : Sums(su, u)
    BY BytesSums
  <1>3. PICK sw : Sums(sw, w)
    BY BytesSums
  <1> DEFINE S == {k \in 0 .. n : su[k] <= sw[k]}
  <1>4. 0 \in S
    BY <1>1, <1>2, <1>3 DEF Sums
  <1>5. ASSUME NEW k \in 1 .. n, k - 1 \in S
        PROVE  k \in S
    <2>1. k - 1 \in 0 .. n /\ k \in 0 .. n /\ Len(w) = n
      BY <1>1
    <2>2. su[k - 1] \in Nat /\ su[k] = su[k - 1] + u[k]
      BY <1>2, <2>1 DEF Sums
    <2>3. sw[k - 1] \in Nat /\ sw[k] = sw[k - 1] + w[k]
      BY <1>3, <2>1 DEF Sums
    <2>4. su[k - 1] <= sw[k - 1]
      BY <1>5
    <2>5. u[k] \in Nat /\ w[k] \in Nat /\ u[k] <= w[k]
      BY <1>1, <1>5
    <2>6. su[k] <= sw[k]
      BY <2>2, <2>3, <2>4, <2>5
    <2> QED BY <2>1, <2>6
  <1>6. \A k \in 0 .. n : k \in S
    <2> HIDE DEF S
    <2> QED BY <1>1, <1>4, <1>5, UpToInduction
  <1>7. n \in S
    BY <1>1, <1>6
  <1> QED BY <1>1, <1>2, <1>3, <1>7 DEF Sums

\* Of a longer sequence whose further sizes are not added, the sum so far stays.
LEMMA BytesAppend ==
  ASSUME NEW u \in Seq(Nat), NEW x \in Nat
  PROVE  Bytes(Append(u, x)) = Bytes(u) + x
  <1> DEFINE n == Len(u)
             w == Append(u, x)
  <1>1. /\ n \in Nat /\ w \in Seq(Nat) /\ Len(w) = n + 1 /\ w[n + 1] = x
        /\ \A k \in 1 .. n : w[k] = u[k] /\ u[k] \in Nat
    OBVIOUS
  <1>2. PICK su : Sums(su, u)
    BY BytesSums
  <1> HIDE DEF w
  <1>3. PICK sw : Sums(sw, w)
    BY <1>1, BytesSums
  <1> DEFINE S == {k \in 0 .. n : su[k] = sw[k]}
  <1>4. 0 \in S
    BY <1>1, <1>2, <1>3 DEF Sums
  <1>5. ASSUME NEW k \in 1 .. n, k - 1 \in S
        PROVE  k \in S
    <2>1. k - 1 \in 0 .. n /\ k \in 1 .. n + 1 /\ k \in 0 .. n
      BY <1>1
    <2>2. su[k] = su[k - 1] + u[k] /\ sw[k] = sw[k - 1] + w[k]
      BY <1>1, <1>2, <1>3, <2>1 DEF Sums
    <2> QED BY <1>1, <1>5, <2>1, <2>2
  <1>6. \A k \in 0 .. n : k \in S
    <2> HIDE DEF S
    <2> QED BY <1>1, <1>4, <1>5, UpToInduction
  <1>7. n \in S /\ n + 1 \in 1 .. n + 1 /\ (n + 1) - 1 = n
    BY <1>1, <1>6
  <1>8. sw[n + 1] = sw[n] + x
    BY <1>1, <1>3, <1>7 DEF Sums
  <1> QED BY <1>1, <1>2, <1>3, <1>7, <1>8 DEF Sums, w

\* The rows kept of the first rows of t, one more row at a time.
Keeps(kept, t, places, X) ==
    /\ kept \in [0 .. Len(t) -> Seq(X)] /\ kept[0] = <<>>
    /\ \A k \in 1 .. Len(t) :
          kept[k] = IF k \in places THEN Append(kept[k - 1], t[k]) ELSE kept[k - 1]
    /\ Kept(t, places) = kept[Len(t)]

\* Kept goes through a table row by row.
LEMMA KeptSteps ==
  ASSUME NEW X, NEW t \in Seq(X), NEW places
  PROVE  \E kept : Keeps(kept, t, places, X)
  <1> DEFINE n == Len(t)
             step == [p \in (1 .. n) \X Seq(X) |->
                        IF p[1] \in places THEN Append(p[2], t[p[1]]) ELSE p[2]]
             Is(s) == s = [k \in 0 .. n |->
                             IF k = 0 THEN <<>>
                             ELSE IF k \in places THEN Append(s[k - 1], t[k])
                             ELSE s[k - 1]]
             kept == CHOOSE s : Is(s)
  <1>1. n \in Nat /\ \A k \in 1 .. n : t[k] \in X
    OBVIOUS
  <1> HIDE DEF n
  <1>2. step \in [(1 .. n) \X Seq(X) -> Seq(X)]
    BY <1>1
  <1>3. PICK f \in [0 .. n -> Seq(X)] : Recursion(f, <<>>, step, n)
    <2>1. <<>> \in Seq(X)
      OBVIOUS
    <2> HIDE DEF step
    <2> QED BY <1>1, <1>2, <2>1, UpToRecursion
  <1>4. \A k \in 1 .. n :
          f[k] = IF k \in places THEN Append(f[k - 1], t[k]) ELSE f[k - 1]
    <2> TAKE k \in 1 .. n
    <2>1. k - 1 \in 0 .. n /\ f[k - 1] \in Seq(X)
      BY <1>1
    <2> QED BY <1>3, <2>1 DEF Recursion
  <1>5. f = [k \in 0 .. n |-> IF k = 0 THEN <<>>
                              ELSE IF k \in places THEN Append(f[k - 1], t[k])
                              ELSE f[k - 1]]
    <2>1. f[0] = <<>>
      BY <1>3 DEF Recursion
    <2>2. \A k \in 0 .. n : k # 0 => k \in 1 .. n
      BY <1>1
    <2> QED BY <1>4, <2>1, <2>2
  <1>6. Is(kept)
    <2>1. Is(f)
      BY <1>5
    <2> HIDE DEF Is
    <2> QED BY <2>1
  <1> HIDE DEF kept
  <1>7. DOMAIN kept = 0 .. n /\ kept[0] = <<>>
    BY <1>1, <1>6
  <1>8. \A k \in 1 .. n :
          kept[k] = IF k \in places THEN Append(kept[k - 1], t[k]) ELSE kept[k - 1]
    <2> TAKE k \in 1 .. n
    <2>1. k \in 0 .. n /\ k # 0
      BY <1>1
    <2> QED BY <1>6, <2>1
  <1>9. \A k \in 0 .. n : kept[k] \in Seq(X)
    <2> DEFINE S == {k \in 0 .. n : kept[k] \in Seq(X)}
    <2>1. 0 \in S
      <3>1. <<>> \in Seq(X) /\ 0 \in 0 .. n
        BY <1>1
      <3> QED BY <1>7, <3>1
    <2>2. ASSUME NEW k \in 1 .. n, k - 1 \in S
          PROVE  k \in S
      <3>1. kept[k - 1] \in Seq(X) /\ t[k] \in X /\ k \in 0 .. n
        BY <1>1, <2>2
      <3>2. Append(kept[k - 1], t[k]) \in Seq(X)
        BY <3>1
      <3> QED BY <1>8, <3>1, <3>2
    <2>3. \A k \in 0 .. n : k \in S
      <3> HIDE DEF S
      <3> QED BY <1>1, <2>1, <2>2, UpToInduction
    <2> QED BY <2>3
  <1>10. kept \in [0 .. n -> Seq(X)]
    BY <1>6, <1>9
  <1>11. Kept(t, places) = kept[n]
    BY DEF Kept, kept, n
  <1> QED BY <1>7, <1>8, <1>10, <1>11 DEF Keeps, n

\* rows are the rows of t at the places that row by row "at" goes through.
Picks(at, rows, n, t, places) ==
    /\ at \in [1 .. Len(rows) -> 1 .. n]
    /\ \A c \in 1 .. Len(rows) : at[c] \in places /\ rows[c] = t[at[c]]
    /\ \A c, d \in 1 .. Len(rows) : c < d => at[c] < at[d]
    /\ \A i \in 1 .. n : i \in places => \E c \in 1 .. Len(rows) : at[c] = i

\* Kept leaves the rows at the places, each once and in order.
LEMMA KeptRows ==
  ASSUME NEW X, NEW t \in Seq(X), NEW places
  PROVE  /\ Kept(t, places) \in Seq(X) /\ Len(Kept(t, places)) <= Len(t)
         /\ \E at : Picks(at, Kept(t, places), Len(t), t, places)
  <1> DEFINE n == Len(t)
  <1>1. PICK kept : Keeps(kept, t, places, X)
    BY KeptSteps
  <1>2. n \in Nat /\ \A k \in 0 .. n : kept[k] \in Seq(X) /\ Len(kept[k]) \in Nat
    BY <1>1 DEF Keeps
  <1> DEFINE S == {k \in 0 .. n : /\ Len(kept[k]) <= k
                                  /\ \E at : Picks(at, kept[k], k, t, places)}
  <1>3. 0 \in S
    <2> DEFINE at == [c \in 1 .. 0 |-> 0]
    <2>1. kept[0] = <<>> /\ Len(kept[0]) = 0 /\ 0 \in 0 .. n
      BY <1>1, <1>2 DEF Keeps
    <2>2. Picks(at, kept[0], 0, t, places)
      BY <2>1 DEF Picks
    <2> QED BY <2>1, <2>2
  <1>4. ASSUME NEW k \in 1 .. n, k - 1 \in S
        PROVE  k \in S
    <2> DEFINE r == kept[k - 1]
               m == Len(r)
    <2>1. /\ k - 1 \in 0 .. n /\ k \in 0 .. n /\ r \in Seq(X) /\ m \in Nat /\ m <= k - 1
          /\ t[k] \in X
      BY <1>2, <1>4
    <2>2. PICK at : Picks(at, r, k - 1, t, places)
      BY <1>4
    <2>3. kept[k] = IF k \in places THEN Append(r, t[k]) ELSE r
      BY <1>1 DEF Keeps
    <2> HIDE DEF r
    <2>4. CASE k \notin places
      <3>1. kept[k] = r
        BY <2>3, <2>4
      <3>2. \A i \in 1 .. k : i # k => i \in 1 .. k - 1
        BY <2>1
      <3>3. 1 .. k - 1 \subseteq 1 .. k
        BY <2>1
      <3>4. Picks(at, r, k, t, places)
        BY <2>2, <2>4, <3>2, <3>3 DEF Picks
      <3> QED BY <2>1, <3>1, <3>4
    <2>5. CASE k \in places
      <3> DEFINE to == [c \in 1 .. m + 1 |-> IF c = m + 1 THEN k ELSE at[c]]
      <3>1. /\ kept[k] = Append(r, t[k]) /\ Len(kept[k]) = m + 1
            /\ kept[k][m + 1] = t[k] /\ \A c \in 1 .. m : kept[k][c] = r[c]
        BY <2>1, <2>3, <2>5
      <3>2. \A c \in 1 .. m + 1 : c # m + 1 => c \in 1 .. m
        BY <2>1
      <3>3. \A c \in 1 .. m : at[c] \in 1 .. k - 1
        BY <2>2 DEF Picks
      <3>4. to \in [1 .. m + 1 -> 1 .. k]
        BY <2>1, <3>2, <3>3
      <3>5. ASSUME NEW c \in 1 .. m + 1
            PROVE  to[c] \in places /\ kept[k][c] = t[to[c]]
        <4>1. CASE c = m + 1
          BY <2>5, <3>1, <4>1
        <4>2. CASE c # m + 1
          BY <2>2, <3>1, <3>2, <4>2 DEF Picks
        <4> QED BY <4>1, <4>2
      <3>6. ASSUME NEW c \in 1 .. m + 1, NEW d \in 1 .. m + 1, c < d
            PROVE  to[c] < to[d]
        <4>1. c \in 1 .. m /\ to[c] = at[c] /\ at[c] \in 1 .. k - 1
          BY <2>1, <3>2, <3>3, <3>6
        <4>2. CASE d = m + 1
          BY <2>1, <4>1, <4>2
        <4>3. CASE d # m + 1
          BY <2>2, <3>2, <3>6, <4>1, <4>3 DEF Picks
        <4> QED BY <4>2, <4>3
      <3>7. ASSUME NEW i \in 1 .. k, i \in places
            PROVE  \E c \in 1 .. m + 1 : to[c] = i
        <4>1. CASE i = k
          BY <2>1, <4>1
        <4>2. CASE i # k
          <5>1. i \in 1 .. k - 1
            BY <2>1, <4>2
          <5>2. PICK c \in 1 .. m : at[c] = i
            BY <2>2, <3>7, <5>1 DEF Picks
          <5>3. c \in 1 .. m + 1 /\ c # m + 1
            BY <2>1
          <5> QED BY <5>2, <5>3
        <4> QED BY <4>1, <4>2
      <3> HIDE DEF to
      <3>8. Picks(to, kept[k], k, t, places)
        BY <3>1, <3>4, <3>5, <3>6, <3>7 DEF Picks
      <3>9. Len(kept[k]) <= k
        BY <2>1, <3>1
      <3> QED BY <2>1, <3>8, <3>9
    <2> QED BY <2>4, <2>5
  <1>5. \A k \in 0 .. n : k \in S
    <2> HIDE DEF S
    <2> QED BY <1>2, <1>3, <1>4, UpToInduction
  <1>6. n \in S /\ Kept(t, places) = kept[n] /\ kept[n] \in Seq(X)
    BY <1>1, <1>2, <1>5 DEF Keeps
  <1> QED BY <1>6

\* Rows of the tables of samples and incidents.
Sized(X) == \A x \in X : x.at \in Nat /\ x.size \in Nat

\* The sizes at some places, 0 at the others.
SizesAt(t, places) ==
    [i \in 1 .. Len(t) |-> IF i \in places THEN t[i].size ELSE 0]

\* A row more adds its size.
LEMMA TotalSizeAppend ==
  ASSUME NEW X, Sized(X), NEW r \in Seq(X), NEW x \in X
  PROVE  TotalSize(Append(r, x)) = TotalSize(r) + x.size /\ TotalSize(r) \in Nat
  <1> DEFINE m == Len(r)
             u == [i \in 1 .. m |-> r[i].size]
  <1>1. m \in Nat /\ x.size \in Nat /\ \A i \in 1 .. m : r[i].size \in Nat
    BY DEF Sized
  <1>2. u \in Seq(Nat) /\ Len(u) = m
    BY <1>1
  <1>3. /\ Len(Append(r, x)) = m + 1 /\ Append(r, x)[m + 1] = x
        /\ \A i \in 1 .. m : Append(r, x)[i] = r[i]
    OBVIOUS
  <1>4. [i \in 1 .. m + 1 |-> Append(r, x)[i].size] = Append(u, x.size)
    <2>1. /\ Append(u, x.size) \in Seq(Nat) /\ Len(Append(u, x.size)) = m + 1
          /\ Append(u, x.size)[m + 1] = x.size
          /\ \A i \in 1 .. m : Append(u, x.size)[i] = u[i]
      BY <1>1, <1>2
    <2>2. \A i \in 1 .. m + 1 : i # m + 1 => i \in 1 .. m
      BY <1>1
    <2>3. \A i \in 1 .. m + 1 : Append(r, x)[i].size = Append(u, x.size)[i]
      BY <1>1, <1>3, <2>1, <2>2
    <2>4. Append(u, x.size) = [i \in 1 .. m + 1 |-> Append(u, x.size)[i]]
      <3> HIDE DEF u
      <3> QED BY <2>1
    <2> HIDE DEF u
    <2> QED BY <2>3, <2>4
  <1>5. TotalSize(Append(r, x)) = Bytes(Append(u, x.size)) /\ TotalSize(r) = Bytes(u)
    BY <1>3, <1>4 DEF TotalSize
  <1> HIDE DEF u
  <1>6. Bytes(u) \in Nat
    <2>1. \A k \in 1 .. Len(u) : u[k] <= u[k]
      BY <1>1, <1>2
    <2> QED BY <1>2, <2>1, BytesMonotone
  <1> QED BY <1>1, <1>2, <1>5, <1>6, BytesAppend

\* An empty table has no bytes.
LEMMA TotalSizeEmpty == TotalSize(<<>>) = 0
  <1>1. [i \in 1 .. Len(<<>>) |-> <<>>[i].size] = <<>>
    OBVIOUS
  <1>2. <<>> \in Seq(Nat) /\ Len(<<>>) = 0
    OBVIOUS
  <1>3. PICK sum : Sums(sum, <<>>)
    BY <1>2, BytesSums
  <1> QED BY <1>1, <1>2, <1>3 DEF Sums, TotalSize

\* What is kept has the bytes of its rows.
LEMMA KeptBytes ==
  ASSUME NEW X, Sized(X), NEW t \in Seq(X), NEW places
  PROVE  TotalSize(Kept(t, places)) = Bytes(SizesAt(t, places))
  <1> DEFINE n == Len(t)
             w == SizesAt(t, places)
  <1>1. n \in Nat /\ \A k \in 1 .. n : t[k] \in X /\ t[k].size \in Nat
    BY DEF Sized
  <1>2. /\ w \in Seq(Nat) /\ Len(w) = n
        /\ \A k \in 1 .. n : w[k] = IF k \in places THEN t[k].size ELSE 0
    BY <1>1 DEF SizesAt
  <1> HIDE DEF w
  <1>3. PICK kept : Keeps(kept, t, places, X)
    BY KeptSteps
  <1>4. PICK sum : Sums(sum, w)
    BY <1>2, BytesSums
  <1> DEFINE S == {k \in 0 .. n : TotalSize(kept[k]) = sum[k]}
  <1>5. 0 \in S
    BY <1>1, <1>3, <1>4, TotalSizeEmpty DEF Keeps, Sums
  <1>6. ASSUME NEW k \in 1 .. n, k - 1 \in S
        PROVE  k \in S
    <2>1. k - 1 \in 0 .. n /\ k \in 0 .. n
      BY <1>1
    <2>2. /\ kept[k - 1] \in Seq(X)
          /\ kept[k] = IF k \in places THEN Append(kept[k - 1], t[k]) ELSE kept[k - 1]
      BY <1>3, <2>1 DEF Keeps
    <2>3. sum[k] = sum[k - 1] + w[k] /\ sum[k - 1] \in Nat
      BY <1>2, <1>4, <2>1 DEF Sums
    <2>4. CASE k \in places
      <3>1. TotalSize(kept[k]) = TotalSize(kept[k - 1]) + t[k].size
        BY <1>1, <2>2, <2>4, TotalSizeAppend
      <3> QED BY <1>2, <1>6, <2>1, <2>3, <2>4, <3>1
    <2>5. CASE k \notin places
      BY <1>2, <1>6, <2>1, <2>2, <2>3, <2>5
    <2> QED BY <2>4, <2>5
  <1>7. \A k \in 0 .. n : k \in S
    <2> HIDE DEF S
    <2> QED BY <1>1, <1>5, <1>6, UpToInduction
  <1>8. n \in S
    BY <1>1, <1>7
  <1> QED BY <1>2, <1>3, <1>4, <1>8 DEF Keeps, Sums, w

\* Of some rows one is the oldest in the order of the prune.
LEMMA OldestRow ==
  ASSUME NEW t, \A i \in 1 .. Len(t) : t[i].at \in Nat, Len(t) \in Nat,
         NEW P, P \subseteq 1 .. Len(t), P # {}
  PROVE  \E m \in P : \A i \in P : i = m \/ Newer(t, i, m)
  <1> DEFINE T == {t[i].at : i \in P}
  <1>1. PICK a \in T : \A b \in T : a <= b
    <2>1. T \subseteq Nat /\ T # {}
      OBVIOUS
    <2> HIDE DEF T
    <2> QED BY <2>1, LeastNat
  <1> DEFINE Q == {i \in P : t[i].at = a}
  <1>2. PICK m \in Q : \A i \in Q : m <= i
    <2>1. Q \subseteq Nat
      <3>1. Q \subseteq P
        OBVIOUS
      <3>2. P \subseteq Nat
        OBVIOUS
      <3> HIDE DEF Q
      <3> QED BY <3>1, <3>2
    <2>2. Q # {}
      <3>1. PICK i \in P : t[i].at = a
        BY <1>1
      <3> QED BY <3>1
    <2> HIDE DEF Q
    <2> QED BY <2>1, <2>2, LeastNat
  <1>3. ASSUME NEW i \in P
        PROVE  i = m \/ Newer(t, i, m)
    <2>1. /\ t[i].at \in Nat /\ a \in Nat /\ t[i].at >= a /\ t[m].at = a
          /\ i \in Nat /\ m \in Nat /\ (t[i].at = a => m <= i)
      BY <1>1, <1>2
    <2> QED BY <2>1 DEF Newer
  <1> QED BY <1>2, <1>3

\* What prune_bytes keeps is within the budget: the oldest row it keeps counts
\* all the others (store.rs prune_bytes).
LEMMA PruneFits ==
  ASSUME NEW X, Sized(X), NEW t \in Seq(X), NEW budget \in Nat
  PROVE  TotalSize(prune_bytes(t, budget)) <= budget
  <1> DEFINE P == {i \in DOMAIN t : UsedBytes(t, i) <= budget}
             n == Len(t)
  <1>1. /\ n \in Nat /\ DOMAIN t = 1 .. n
        /\ \A k \in 1 .. n : t[k] \in X /\ t[k].size \in Nat /\ t[k].at \in Nat
    BY DEF Sized
  <1>2. prune_bytes(t, budget) = Kept(t, P)
    BY DEF prune_bytes
  <1>3. CASE P = {}
    <2>1. Kept(t, P) \in Seq(X) /\ \E at : Picks(at, Kept(t, P), n, t, P)
      BY KeptRows
    <2>2. Kept(t, P) = <<>>
      BY <1>3, <2>1 DEF Picks
    <2> QED BY <1>2, <2>2, TotalSizeEmpty
  <1>4. CASE P # {}
    <2>1. PICK m \in P : \A i \in P : i = m \/ Newer(t, i, m)
      BY <1>1, <1>4, OldestRow
    <2> DEFINE w == [j \in 1 .. n |-> IF j = m \/ Newer(t, j, m) THEN t[j].size ELSE 0]
    <2>2. UsedBytes(t, m) = Bytes(w) /\ UsedBytes(t, m) <= budget
      BY <2>1 DEF UsedBytes
    <2>3. w \in Seq(Nat) /\ Len(w) = n /\ SizesAt(t, P) \in Seq(Nat)
            /\ Len(SizesAt(t, P)) = n
      <3> HIDE DEF P
      <3> QED BY <1>1 DEF SizesAt
    <2>4. \A j \in 1 .. n : SizesAt(t, P)[j] <= w[j]
      <3> HIDE DEF P
      <3> QED BY <1>1, <2>1 DEF SizesAt
    <2> HIDE DEF w, P
    <2>5. /\ Bytes(SizesAt(t, P)) \in Nat /\ Bytes(w) \in Nat
          /\ Bytes(SizesAt(t, P)) <= Bytes(w)
      <3>1. \A j \in 1 .. n : w[j] <= w[j]
        BY <2>3
      <3> QED BY <2>3, <2>4, <3>1, BytesMonotone
    <2>6. TotalSize(Kept(t, P)) = Bytes(SizesAt(t, P))
      BY KeptBytes
    <2> QED BY <1>2, <2>2, <2>5, <2>6
  <1> QED BY <1>3, <1>4

\* Removing rows only makes a table smaller (store.rs sample_resources).
LEMMA UnexpiredFits ==
  ASSUME NEW X, Sized(X), NEW t \in Seq(X), NEW cutoff
  PROVE  /\ TotalSize(Unexpired(t, cutoff)) <= TotalSize(t)
         /\ TotalSize(Unexpired(t, cutoff)) \in Nat /\ TotalSize(t) \in Nat
  <1> DEFINE P == {i \in DOMAIN t : t[i].at >= cutoff}
             w == [i \in 1 .. Len(t) |-> t[i].size]
  <1>1. /\ Len(t) \in Nat
        /\ \A k \in 1 .. Len(t) : t[k] \in X /\ t[k].size \in Nat
    BY DEF Sized
  <1>2. Unexpired(t, cutoff) = Kept(t, P) /\ TotalSize(t) = Bytes(w)
    BY DEF Unexpired, TotalSize
  <1> HIDE DEF P
  <1>3. TotalSize(Kept(t, P)) = Bytes(SizesAt(t, P))
    BY KeptBytes
  <1>4. /\ w \in Seq(Nat) /\ SizesAt(t, P) \in Seq(Nat)
        /\ Len(SizesAt(t, P)) = Len(t) /\ Len(w) = Len(t)
        /\ \A k \in 1 .. Len(t) : SizesAt(t, P)[k] <= w[k] /\ w[k] <= w[k]
    BY <1>1 DEF SizesAt
  <1> HIDE DEF w
  <1>5. /\ Bytes(SizesAt(t, P)) \in Nat /\ Bytes(w) \in Nat
        /\ Bytes(SizesAt(t, P)) <= Bytes(w)
    BY <1>4, BytesMonotone
  <1> QED BY <1>2, <1>3, <1>5

\* Of the rows that fewer than n others are newer than, there are at most n
\* (store.rs event).
LEMMA NewestFits ==
  ASSUME NEW X, \A x \in X : x.at \in Nat, NEW t \in Seq(X), NEW n \in Nat
  PROVE  Len(NewestRows(t, n)) <= n
  <1> DEFINE newer(i) == {j \in DOMAIN t : Newer(t, j, i)}
             P == {i \in DOMAIN t : Cardinality(newer(i)) < n}
             rows == Kept(t, P)
  <1>1. /\ Len(t) \in Nat /\ DOMAIN t = 1 .. Len(t)
        /\ \A i \in 1 .. Len(t) : t[i].at \in Nat
    OBVIOUS
  <1>2. NewestRows(t, n) = rows
    BY DEF NewestRows
  <1>3. P \subseteq 1 .. Len(t)
    BY <1>1
  <1>4. rows \in Seq(X) /\ Len(rows) \in Nat
          /\ \E at : Picks(at, rows, Len(t), t, P)
    <2>1. rows \in Seq(X) /\ \E at : Picks(at, rows, Len(t), t, P)
      <3> HIDE DEF P
      <3> QED BY KeptRows
    <2> HIDE DEF rows, P
    <2> QED BY <2>1
  <1>5. PICK at : Picks(at, rows, Len(t), t, P)
    BY <1>4
  <1>6. IsFiniteSet(1 .. Len(t)) /\ IsFiniteSet(1 .. Len(rows))
          /\ Cardinality(1 .. Len(rows)) = Len(rows)
    <2> HIDE DEF rows, P
    <2>1. Len(t) \in Int /\ Len(rows) \in Int /\ 1 \in Int
      BY <1>1, <1>4
    <2>2. IsFiniteSet(1 .. Len(t)) /\ IsFiniteSet(1 .. Len(rows))
      BY <2>1, FS_Interval
    <2>3. Cardinality(1 .. Len(rows)) = IF 1 > Len(rows) THEN 0 ELSE Len(rows) - 1 + 1
      BY <2>1, FS_Interval
    <2> QED BY <1>4, <2>2, <2>3
  <1>7. IsFiniteSet(P) /\ Cardinality(P) \in Nat
    <2> HIDE DEF P
    <2> QED BY <1>3, <1>6, FS_Subset, FS_CardinalityType
  <1>8. Len(rows) <= Cardinality(P)
    <2>1. at \in Injection(1 .. Len(rows), P)
      <3>1. \A c \in 1 .. Len(rows) : at[c] \in P
        BY <1>5 DEF Picks
      <3>2. at \in [1 .. Len(rows) -> P]
        <4> HIDE DEF P, rows
        <4> QED BY <1>5, <3>1 DEF Picks
      <3>3. ASSUME NEW c \in 1 .. Len(rows), NEW d \in 1 .. Len(rows), at[c] = at[d]
            PROVE  c = d
        <4>1. /\ c \in Nat /\ d \in Nat /\ at[c] \in Nat
              /\ (c < d => at[c] < at[d]) /\ (d < c => at[d] < at[c])
          <5> HIDE DEF P, rows
          <5>1. at[c] \in 1 .. Len(t)
            BY <1>5 DEF Picks
          <5>2. (c < d => at[c] < at[d]) /\ (d < c => at[d] < at[c])
            BY <1>5 DEF Picks
          <5> QED BY <1>1, <1>4, <5>1, <5>2
        <4> QED BY <3>3, <4>1
      <3> HIDE DEF P, rows
      <3> QED BY <3>2, <3>3 DEF Injection, IsInjective
    <2> HIDE DEF P, rows
    <2> QED BY <2>1, <1>6, <1>7, FS_Injection
  <1>9. Cardinality(P) <= n
    <2>1. CASE P = {}
      <3> HIDE DEF P
      <3> QED BY <2>1, FS_EmptySet
    <2>2. CASE P # {}
      <3>1. PICK m \in P : \A i \in P : i = m \/ Newer(t, i, m)
        <4> HIDE DEF P
        <4> QED BY <1>1, <1>3, <2>2, OldestRow
      <3>2. IsFiniteSet(newer(m)) /\ Cardinality(newer(m)) \in Nat
              /\ Cardinality(newer(m)) < n
        <4>1. newer(m) \in SUBSET (1 .. Len(t))
          BY <1>1
        <4>2. Cardinality(newer(m)) < n
          BY <3>1
        <4> HIDE DEF newer
        <4> QED BY <1>6, <4>1, <4>2, FS_Subset, FS_CardinalityType
      <3>3. P \in SUBSET (newer(m) \cup {m})
        BY <1>1, <1>3, <3>1
      <3>4. /\ IsFiniteSet(newer(m) \cup {m})
            /\ Cardinality(newer(m) \cup {m}) <= Cardinality(newer(m)) + 1
            /\ Cardinality(newer(m) \cup {m}) \in Nat
        <4> DEFINE N == newer(m)
        <4>1. IsFiniteSet(N) /\ Cardinality(N) \in Nat
          BY <3>2
        <4> HIDE DEF N
        <4>2. /\ IsFiniteSet(N \cup {m})
              /\ Cardinality(N \cup {m}) = IF m \in N THEN Cardinality(N)
                                           ELSE Cardinality(N) + 1
          BY <4>1, FS_AddElement
        <4>3. /\ IsFiniteSet(N \cup {m}) /\ Cardinality(N \cup {m}) \in Nat
              /\ Cardinality(N \cup {m}) <= Cardinality(N) + 1
          BY <4>1, <4>2
        <4> QED BY <4>3 DEF N
      <3>5. Cardinality(P) <= Cardinality(newer(m) \cup {m})
        <4> HIDE DEF P, newer
        <4> QED BY <3>3, <3>4, FS_Subset
      <3> QED BY <1>7, <3>2, <3>4, <3>5
    <2> QED BY <2>1, <2>2
  <1> QED BY <1>2, <1>4, <1>7, <1>8, <1>9

-----------------------------------------------------------------------------
(* The store *)

\* The limits are numbers.
LEMMA Limits ==
  /\ Budget \in Nat /\ IncidentBudget \in Nat
  /\ ActivityLimit \in Nat /\ ActivityLimit - 1 \in Nat
  BY HistoryAssumption

SampleRows ==
    [at : Nat, size : Nat, pending : Pendings \cup {None}, cadence : Nat,
     by : Identities \cup {None}]

IncidentRows == [at : Nat, size : Nat]

ActivityRows == [at : Nat]

StoreType ==
    /\ samples \in Seq(SampleRows) /\ incidents \in Seq(IncidentRows)
    /\ activity \in Seq(ActivityRows)
    /\ settings \in Settings
    /\ binding \in Identities \cup {None} /\ server \in Identities \cup {None}
    /\ sampler # None => sampler \in [row : SampleRows, retention : Nat]
    /\ {now, writes, unpruned} \subseteq Nat

\* A sample under way is one of the running process, which is of the identity
\* of the profile, and it fits the budget.
SampleBound ==
    /\ server # None => server = binding
    /\ sampler # None => /\ server # None /\ sampler.row.by = server
                         /\ sampler.row.size <= Budget

StoreInvariant == StoreType /\ SampleBound /\ WithinBudgets /\ OneIdentity

\* The empty store of a new profile, or one that an older version left (store.rs
\* open).
LEMMA StoreInit == Init => StoreInvariant
  <1> SUFFICES ASSUME Init PROVE StoreInvariant
    OBVIOUS
  <1> USE HistoryAssumption
  <1>1. LegacyRow \in SampleRows
    BY DEF LegacyRow, SampleRows
  <1>2. StoreType
    <2>1. samples \in Seq(SampleRows)
      <3>1. \A x \in SampleRows : <<>> \in Seq(SampleRows) /\ <<x>> \in Seq(SampleRows)
        OBVIOUS
      <3> QED BY <1>1, <3>1 DEF Init
    <2> QED BY <2>1 DEF Init, StoreType
  <1>3. SampleBound
    BY DEF Init, SampleBound
  <1>4. OneIdentity
    BY DEF Init, OneIdentity, LegacyRow
  <1>5. TotalSize(<<LegacyRow>>) = 1
    <2>1. <<LegacyRow>> = Append(<<>>, LegacyRow) /\ <<>> \in Seq(SampleRows)
      OBVIOUS
    <2>2. Sized(SampleRows)
      BY DEF Sized, SampleRows
    <2>3. TotalSize(Append(<<>>, LegacyRow)) = TotalSize(<<>>) + LegacyRow.size
      BY <1>1, <2>1, <2>2, TotalSizeAppend
    <2> QED BY <2>1, <2>3, TotalSizeEmpty DEF LegacyRow
  <1>6. WithinBudgets
    BY <1>5, TotalSizeEmpty DEF Init, WithinBudgets
  <1> QED BY <1>2, <1>3, <1>4, <1>6 DEF StoreInvariant

\* The rows of a table after a prune are rows that it had.
LEMMA KeptFrom ==
  ASSUME NEW X, NEW t \in Seq(X), NEW places
  PROVE  /\ Kept(t, places) \in Seq(X) /\ Len(Kept(t, places)) <= Len(t)
         /\ Len(Kept(t, places)) \in Nat
         /\ \A c \in DOMAIN Kept(t, places) :
              \E i \in DOMAIN t : i \in places /\ Kept(t, places)[c] = t[i]
  <1> DEFINE r == Kept(t, places)
  <1>1. /\ r \in Seq(X) /\ Len(r) <= Len(t)
        /\ \E at : Picks(at, r, Len(t), t, places)
    BY KeptRows
  <1>2. PICK at : Picks(at, r, Len(t), t, places)
    BY <1>1
  <1> HIDE DEF r
  <1>3. Len(r) \in Nat /\ DOMAIN r = 1 .. Len(r) /\ DOMAIN t = 1 .. Len(t)
    BY <1>1
  <1>4. \A c \in DOMAIN r : at[c] \in DOMAIN t /\ at[c] \in places /\ r[c] = t[at[c]]
    BY <1>2, <1>3 DEF Picks
  <1>5. \A c \in DOMAIN r : \E i \in DOMAIN t : i \in places /\ r[c] = t[i]
    BY <1>4
  <1> QED BY <1>1, <1>3, <1>5 DEF r

\* The samples after a sample is stored: what the budget and then the retention
\* leave of them and the new one (store.rs sample_resources).
LEMMA CommittedSamples ==
  ASSUME StoreInvariant, SampleCommit
  PROVE  /\ samples' \in Seq(SampleRows) /\ TotalSize(samples') <= Budget
         /\ \A c \in DOMAIN samples' :
              samples'[c] = sampler.row \/ \E i \in DOMAIN samples : samples'[c] = samples[i]
  <1> DEFINE all    == Append(samples, sampler.row)
             cutoff == Cutoff(sampler.retention)
             P      == {i \in DOMAIN all : UsedBytes(all, i) <= Budget}
             fit    == prune_bytes(all, Budget)
             Q      == {i \in DOMAIN fit : fit[i].at >= cutoff}
  <1>1. /\ samples \in Seq(SampleRows) /\ sampler.row \in SampleRows
        /\ samples' = Unexpired(fit, cutoff) /\ Budget \in Nat
    BY HistoryAssumption DEF StoreInvariant, StoreType, SampleCommit
  <1>2. Sized(SampleRows)
    BY DEF Sized, SampleRows
  <1>3. /\ all \in Seq(SampleRows)
        /\ \A i \in DOMAIN all :
              all[i] = sampler.row \/ \E j \in DOMAIN samples : all[i] = samples[j]
    BY <1>1
  <1>4. fit = Kept(all, P)
    BY DEF prune_bytes
  <1> HIDE DEF P, all
  <1>5. TotalSize(fit) <= Budget
    BY <1>1, <1>2, <1>3, PruneFits
  <1>6. /\ fit \in Seq(SampleRows)
        /\ \A c \in DOMAIN fit : \E i \in DOMAIN all : fit[c] = all[i]
    BY <1>3, <1>4, KeptFrom
  <1>7. samples' = Kept(fit, Q)
    BY <1>1 DEF Unexpired
  <1> HIDE DEF Q, fit
  <1>8. /\ samples' \in Seq(SampleRows)
        /\ \A c \in DOMAIN samples' : \E i \in DOMAIN fit : samples'[c] = fit[i]
    BY <1>6, <1>7, KeptFrom
  <1>9. TotalSize(samples') <= TotalSize(fit) /\ TotalSize(samples') \in Nat
          /\ TotalSize(fit) \in Nat
    BY <1>1, <1>2, <1>6, UnexpiredFits
  <1>10. TotalSize(samples') <= Budget
    BY <1>1, <1>5, <1>9
  <1>11. ASSUME NEW c \in DOMAIN samples'
         PROVE  \/ samples'[c] = sampler.row
                \/ \E i \in DOMAIN samples : samples'[c] = samples[i]
    <2>1. PICK i \in DOMAIN fit : samples'[c] = fit[i]
      BY <1>8
    <2>2. PICK j \in DOMAIN all : fit[i] = all[j]
      BY <1>6
    <2> QED BY <1>3, <2>1, <2>2
  <1> QED BY <1>8, <1>10, <1>11

\* The budget and the retention hold after a sample is stored (store.rs
\* sample_resources).
LEMMA CommitStep ==
  ASSUME StoreInvariant, SampleCommit
  PROVE  StoreInvariant'
  <1> DEFINE cutoff == Cutoff(sampler.retention)
  <1>1. /\ sampler # None /\ sampler' = None
        /\ activity' = Unexpired(activity, cutoff)
        /\ incidents' = Unexpired(incidents, cutoff)
        /\ UNCHANGED <<settings, binding, server, now, writes, unpruned>>
    BY DEF SampleCommit
  <1>2. /\ incidents \in Seq(IncidentRows) /\ activity \in Seq(ActivityRows)
        /\ ActivityLimit \in Nat /\ IncidentBudget \in Nat /\ unpruned \in Nat
        /\ TotalSize(incidents) <= IncidentBudget
        /\ Len(activity) <= ActivityLimit + unpruned
    BY HistoryAssumption DEF StoreInvariant, StoreType, WithinBudgets
  <1> HIDE DEF cutoff
  <1>3. activity' \in Seq(ActivityRows) /\ Len(activity') <= Len(activity)
          /\ Len(activity') \in Nat /\ Len(activity) \in Nat
    BY <1>1, <1>2, KeptFrom DEF Unexpired
  <1>4. incidents' \in Seq(IncidentRows)
    BY <1>1, <1>2, KeptFrom DEF Unexpired
  <1>5. TotalSize(incidents') <= IncidentBudget
    <2>1. Sized(IncidentRows)
      BY DEF Sized, IncidentRows
    <2>2. TotalSize(incidents') <= TotalSize(incidents)
            /\ TotalSize(incidents') \in Nat /\ TotalSize(incidents) \in Nat
      BY <1>1, <1>2, <2>1, UnexpiredFits
    <2> QED BY <1>2, <2>2
  <1>6. StoreType'
    BY <1>1, <1>3, <1>4, CommittedSamples DEF StoreInvariant, StoreType
  <1>7. WithinBudgets'
    BY <1>1, <1>2, <1>3, <1>5, CommittedSamples DEF WithinBudgets
  <1>8. OneIdentity'
    BY <1>1, CommittedSamples DEF StoreInvariant, SampleBound, OneIdentity
  <1> QED BY <1>1, <1>6, <1>7, <1>8 DEF StoreInvariant, SampleBound

\* An incident is inserted and the table pruned in one step (store.rs incident).
LEMMA IncidentStep ==
  ASSUME StoreInvariant, NEW size \in Sizes, Incident(size)
  PROVE  StoreInvariant'
  <1> DEFINE all == Append(incidents, [at |-> now, size |-> size])
  <1>1. /\ incidents' = prune_bytes(all, IncidentBudget) /\ writes' = writes + 1
        /\ UNCHANGED <<samples, activity, settings, binding, server, sampler, now,
                       unpruned>>
    BY DEF Incident, Write
  <1>2. all \in Seq(IncidentRows) /\ IncidentBudget \in Nat /\ Sized(IncidentRows)
    <2>1. [at |-> now, size |-> size] \in IncidentRows
      BY HistoryAssumption DEF StoreInvariant, StoreType, IncidentRows
    <2> QED BY <2>1, Limits DEF StoreInvariant, StoreType, IncidentRows, Sized
  <1> HIDE DEF all
  <1>3. TotalSize(incidents') <= IncidentBudget
    BY <1>1, <1>2, PruneFits
  <1>4. incidents' \in Seq(IncidentRows)
    BY <1>1, <1>2, KeptFrom DEF prune_bytes
  <1>5. StoreType'
    BY <1>1, <1>4 DEF StoreInvariant, StoreType
  <1>6. WithinBudgets'
    BY <1>1, <1>3 DEF StoreInvariant, WithinBudgets
  <1> QED BY <1>1, <1>5, <1>6 DEF StoreInvariant, SampleBound, OneIdentity

\* The activity is pruned before a row is added, or only pruned when the process
\* ends in between (store.rs event).
LEMMA EventStep ==
  ASSUME StoreInvariant, event
  PROVE  StoreInvariant'
  <1> DEFINE kept == NewestRows(activity, ActivityLimit - 1)
  <1>1. /\ \/ activity' = Append(kept, [at |-> now]) /\ UNCHANGED server
           \/ activity' = kept /\ server' = None
        /\ unpruned' = 0 /\ writes' = writes + 1
        /\ sampler' = IF server' = None THEN None ELSE sampler
        /\ UNCHANGED <<samples, incidents, settings, binding, now>>
    BY DEF event, Write
  <1>2. /\ activity \in Seq(ActivityRows) /\ ActivityLimit - 1 \in Nat
        /\ \A x \in ActivityRows : x.at \in Nat
        /\ [at |-> now] \in ActivityRows
    BY Limits DEF StoreInvariant, StoreType, ActivityRows
  <1>3. kept \in Seq(ActivityRows) /\ Len(kept) \in Nat
    BY <1>2, KeptFrom DEF NewestRows
  <1>4. Len(kept) <= ActivityLimit - 1
    BY <1>2, NewestFits
  <1> HIDE DEF kept
  <1>5. activity' \in Seq(ActivityRows) /\ Len(activity') <= ActivityLimit + 0
    <2>1. ActivityLimit \in Nat
      BY HistoryAssumption
    <2>2. CASE activity' = Append(kept, [at |-> now])
      <3>1. Append(kept, [at |-> now]) \in Seq(ActivityRows)
        BY <1>2, <1>3
      <3>2. Len(Append(kept, [at |-> now])) = Len(kept) + 1
        BY <1>3
      <3> QED BY <1>3, <1>4, <2>1, <2>2, <3>1, <3>2
    <2>3. CASE activity' = kept
      BY <1>3, <1>4, <2>1, <2>3
    <2> QED BY <1>1, <2>2, <2>3
  <1>6. StoreType'
    BY <1>1, <1>5 DEF StoreInvariant, StoreType
  <1>7. WithinBudgets'
    BY <1>1, <1>5 DEF StoreInvariant, WithinBudgets
  <1> QED BY <1>1, <1>6, <1>7 DEF StoreInvariant, SampleBound, OneIdentity

\* The other operations write no samples and no incidents; a start checks the
\* identity of the profile (store.rs bind_profile, save_settings).
LEMMA StoreNext ==
  ASSUME StoreInvariant, [Next]_vars
  PROVE  StoreInvariant'
  <1> USE DEF StoreInvariant
  <1>1. CASE SampleCommit
    BY <1>1, CommitStep
  <1>2. CASE \E size \in Sizes : Incident(size)
    BY <1>2, IncidentStep
  <1>3. CASE event
    BY <1>3, EventStep
  <1>4. CASE \E size \in Sizes, pending \in Pendings \cup {None} :
                 SampleStart(Row(size, pending))
    <2>1. PICK size \in Sizes, pending \in Pendings \cup {None} :
                 SampleStart(Row(size, pending))
      BY <1>4
    <2>2. /\ server # None /\ Row(size, pending).size <= Budget
          /\ sampler' = [row |-> [Row(size, pending) EXCEPT !.cadence = settings.refresh],
                         retention |-> settings.retention]
          /\ UNCHANGED <<tables, settings, binding, server, now, writes, unpruned>>
      BY <2>1 DEF SampleStart, Running
    <2>3. sampler' \in [row : SampleRows, retention : Nat]
            /\ sampler'.row.by = server /\ sampler'.row.size <= Budget
      BY <2>2, HistoryAssumption DEF StoreType, Row, SampleRows
    <2>4. StoreType'
      BY <2>2, <2>3 DEF StoreType, tables
    <2>5. SampleBound'
      BY <2>2, <2>3 DEF SampleBound
    <2> QED BY <2>2, <2>4, <2>5 DEF WithinBudgets, OneIdentity, tables
  <1>5. CASE \E s \in Settings : save_settings(s)
    <2>1. PICK s \in Settings : save_settings(s)
      BY <1>5
    <2>2. /\ settings' = s /\ writes' = writes + 1
          /\ activity' = Append(activity, [at |-> now]) /\ unpruned' = unpruned + 1
          /\ UNCHANGED <<samples, incidents, binding, server, sampler, now>>
      BY <2>1 DEF save_settings, Write
    <2>3. /\ activity' \in Seq(ActivityRows)
          /\ Len(activity') = Len(activity) + 1 /\ Len(activity) \in Nat
      BY <2>2 DEF StoreType, ActivityRows
    <2>4. StoreType'
      BY <2>1, <2>2, <2>3 DEF StoreType
    <2>5. WithinBudgets'
      <3>1. unpruned \in Nat /\ ActivityLimit \in Nat
        BY HistoryAssumption DEF StoreType
      <3>2. Len(activity) <= ActivityLimit + unpruned
        BY DEF WithinBudgets
      <3>3. Len(activity') <= ActivityLimit + unpruned'
        BY <2>2, <2>3, <3>1, <3>2
      <3> QED BY <2>2, <3>3 DEF WithinBudgets
    <2> QED BY <2>2, <2>4, <2>5 DEF SampleBound, OneIdentity
  <1>6. CASE \E identity \in Identities, adopt \in BOOLEAN :
                 bind_profile(identity, adopt)
    <2>1. PICK identity \in Identities, adopt \in BOOLEAN :
                 bind_profile(identity, adopt)
      BY <1>6
    <2>2. /\ server = None /\ binding \in {identity, None}
          /\ binding' = identity /\ server' = identity
          /\ UNCHANGED <<tables, settings, sampler, now, writes, unpruned>>
      BY <2>1 DEF bind_profile, Running
    <2> QED BY <2>1, <2>2 DEF StoreType, SampleBound, WithinBudgets, OneIdentity,
                              tables
  <1>7. CASE Stop
    BY <1>7 DEF Stop, StoreType, SampleBound, WithinBudgets, OneIdentity, tables
  <1>8. CASE Tick \/ SetBack
    BY <1>8 DEF Tick, SetBack, StoreType, SampleBound, WithinBudgets, OneIdentity,
                tables
  <1>9. CASE UNCHANGED vars
    BY <1>9 DEF vars, StoreType, SampleBound, WithinBudgets, OneIdentity, tables
  <1> QED BY <1>1, <1>2, <1>3, <1>4, <1>5, <1>6, <1>7, <1>8, <1>9 DEF Next

\* The tables stay within their limits for any sizes, budgets, settings and
\* clocks, also when the clock is set back (store.rs prune_bytes, event).
THEOREM BudgetsHold == Spec => []WithinBudgets
  <1> QED BY StoreInit, StoreNext, PTL DEF Spec, StoreInvariant

\* No sample of one connection identity is stored in the history of another
\* (store.rs bind_profile).
THEOREM OneIdentityHolds == Spec => []OneIdentity
  <1> QED BY StoreInit, StoreNext, PTL DEF Spec, StoreInvariant

\* A last row that is kept stays the last.
LEMMA LastKept ==
  ASSUME NEW X, NEW t \in Seq(X), NEW places, Len(t) > 0, Len(t) \in places
  PROVE  /\ Kept(t, places) \in Seq(X) /\ Len(Kept(t, places)) > 0
         /\ Kept(t, places)[Len(Kept(t, places))] = t[Len(t)]
  <1> DEFINE n == Len(t)
             r == Kept(t, places)
  <1>1. n \in Nat /\ n \in 1 .. n /\ t[n] \in X
    OBVIOUS
  <1>2. PICK kept : Keeps(kept, t, places, X)
    BY KeptSteps
  <1>3. /\ r = kept[n] /\ kept[n] = Append(kept[n - 1], t[n])
        /\ kept[n - 1] \in Seq(X)
    <2>1. n - 1 \in 0 .. n
      BY <1>1
    <2>2. kept[n - 1] \in Seq(X) /\ Kept(t, places) = kept[n]
      BY <1>2, <2>1 DEF Keeps
    <2>3. kept[n] = Append(kept[n - 1], t[n])
      BY <1>1, <1>2 DEF Keeps
    <2> QED BY <2>2, <2>3
  <1> HIDE DEF r
  <1>4. /\ Append(kept[n - 1], t[n]) \in Seq(X)
        /\ Len(Append(kept[n - 1], t[n])) = Len(kept[n - 1]) + 1
        /\ Append(kept[n - 1], t[n])[Len(kept[n - 1]) + 1] = t[n]
        /\ Len(kept[n - 1]) \in Nat
    BY <1>1, <1>3
  <1>5. r \in Seq(X) /\ Len(r) > 0 /\ r[Len(r)] = t[n]
    BY <1>3, <1>4
  <1> QED BY <1>5 DEF r

\* A row counts at most the bytes that an older row counts (store.rs prune_bytes).
LEMMA UsedBytesGrow ==
  ASSUME NEW X, Sized(X), NEW t \in Seq(X), NEW g \in DOMAIN t, NEW i \in DOMAIN t,
         t[i].at < t[g].at
  PROVE  /\ UsedBytes(t, g) \in Nat /\ UsedBytes(t, i) \in Nat
         /\ UsedBytes(t, g) <= UsedBytes(t, i)
  <1> DEFINE u(k) == [j \in 1 .. Len(t) |->
                        IF j = k \/ Newer(t, j, k) THEN t[j].size ELSE 0]
  <1>1. /\ Len(t) \in Nat /\ DOMAIN t = 1 .. Len(t)
        /\ \A j \in 1 .. Len(t) : t[j].size \in Nat /\ t[j].at \in Nat
    BY DEF Sized
  <1>2. \A k : UsedBytes(t, k) = Bytes(u(k))
    BY DEF UsedBytes
  <1>3. \A k : u(k) \in Seq(Nat) /\ Len(u(k)) = Len(t)
    BY <1>1
  <1>4. \A j \in 1 .. Len(t) : u(g)[j] <= u(i)[j] /\ u(i)[j] <= u(i)[j]
    <2> TAKE j \in 1 .. Len(t)
    <2>1. j = g \/ Newer(t, j, g) => Newer(t, j, i)
      BY <1>1 DEF Newer
    <2>2. t[j].size \in Nat
      BY <1>1
    <2>3. /\ u(g)[j] = IF j = g \/ Newer(t, j, g) THEN t[j].size ELSE 0
          /\ u(i)[j] = IF j = i \/ Newer(t, j, i) THEN t[j].size ELSE 0
      OBVIOUS
    <2> QED BY <2>1, <2>2, <2>3
  <1> HIDE DEF u
  <1>5. Bytes(u(g)) \in Nat /\ Bytes(u(g)) <= Bytes(u(i))
    <2>1. /\ u(g) \in Seq(Nat) /\ u(i) \in Seq(Nat) /\ Len(u(g)) = Len(u(i))
          /\ \A k \in 1 .. Len(u(g)) : u(g)[k] <= u(i)[k]
      <3>1. u(g) \in Seq(Nat) /\ u(i) \in Seq(Nat) /\ Len(u(g)) = Len(u(i))
        BY <1>3
      <3>2. Len(u(g)) = Len(t)
        BY <1>3
      <3>3. \A k \in 1 .. Len(u(g)) : u(g)[k] <= u(i)[k]
        BY <1>4, <3>2
      <3> QED BY <3>1, <3>3
    <2> QED BY <2>1, BytesMonotone
  <1>6. Bytes(u(i)) \in Nat
    BY <1>3, <1>4, BytesMonotone
  <1> QED BY <1>2, <1>5, <1>6

\* A row that no other is newer than counts its own bytes only.
LEMMA NewestCounts ==
  ASSUME NEW X, Sized(X), NEW t \in Seq(X), NEW x \in X,
         \A i \in DOMAIN t : t[i].at <= x.at
  PROVE  UsedBytes(Append(t, x), Len(t) + 1) = x.size
  <1> DEFINE n == Len(t)
             all == Append(t, x)
             zeros == SizesAt(t, {})
             w == [j \in 1 .. n + 1 |->
                     IF j = n + 1 \/ Newer(all, j, n + 1) THEN all[j].size ELSE 0]
  <1>1. /\ n \in Nat /\ x.size \in Nat /\ x.at \in Nat
        /\ Len(all) = n + 1 /\ all[n + 1] = x
        /\ \A j \in 1 .. n : all[j] = t[j] /\ t[j].at \in Nat /\ t[j].at <= x.at
    BY DEF Sized
  <1>2. zeros \in Seq(Nat) /\ Len(zeros) = n /\ \A j \in 1 .. n : zeros[j] = 0
    BY <1>1 DEF SizesAt
  <1>3. Bytes(zeros) = 0
    <2>1. Kept(t, {}) \in Seq(X) /\ \E at : Picks(at, Kept(t, {}), n, t, {})
      BY KeptRows
    <2>2. Kept(t, {}) = <<>>
      BY <2>1 DEF Picks
    <2> QED BY <2>2, KeptBytes, TotalSizeEmpty
  <1> HIDE DEF zeros
  <1>4. UsedBytes(all, n + 1) = Bytes(w)
    BY <1>1 DEF UsedBytes
  <1>5. w = Append(zeros, x.size)
    <2>1. /\ Append(zeros, x.size) \in Seq(Nat) /\ Len(Append(zeros, x.size)) = n + 1
          /\ Append(zeros, x.size)[n + 1] = x.size
          /\ \A j \in 1 .. n : Append(zeros, x.size)[j] = 0
      BY <1>1, <1>2
    <2>2. Append(zeros, x.size) = [j \in 1 .. n + 1 |-> Append(zeros, x.size)[j]]
      BY <2>1
    <2>3. ASSUME NEW j \in 1 .. n + 1
          PROVE  w[j] = Append(zeros, x.size)[j]
      <3> HIDE DEF all
      <3>1. CASE j = n + 1
        BY <1>1, <2>1, <3>1
      <3>2. CASE j # n + 1
        <4>1. j \in 1 .. n
          BY <1>1, <3>2
        <4>2. ~Newer(all, j, n + 1)
          BY <1>1, <4>1 DEF Newer
        <4> QED BY <2>1, <3>2, <4>1, <4>2
      <3> QED BY <3>1, <3>2
    <2> HIDE DEF all
    <2> QED BY <2>2, <2>3
  <1> HIDE DEF w
  <1> QED BY <1>1, <1>2, <1>3, <1>4, <1>5, BytesAppend

\* Of the rows with the new one, those that go are no newer than those that
\* stay (store.rs sample_resources).
LEMMA OlderRowsGo ==
  ASSUME StoreInvariant, SampleCommit,
         NEW gone \in ToSet(samples) \cup {sampler.row}, gone \notin ToSet(samples'),
         NEW k \in ToSet(samples')
  PROVE  k.at >= gone.at
  <1> DEFINE all    == Append(samples, sampler.row)
             cutoff == Cutoff(sampler.retention)
             P      == {i \in DOMAIN all : UsedBytes(all, i) <= Budget}
             fit    == prune_bytes(all, Budget)
             Q      == {i \in DOMAIN fit : fit[i].at >= cutoff}
  <1>1. /\ samples \in Seq(SampleRows) /\ sampler.row \in SampleRows
        /\ samples' = Kept(fit, Q) /\ fit = Kept(all, P)
        /\ Budget \in Nat /\ cutoff \in Nat
    BY Limits
       DEF StoreInvariant, StoreType, SampleCommit, Unexpired, prune_bytes, Cutoff
  <1>2. /\ all \in Seq(SampleRows) /\ all[Len(samples) + 1] = sampler.row
        /\ Len(samples) + 1 \in DOMAIN all
        /\ \A i \in DOMAIN samples : i \in DOMAIN all /\ all[i] = samples[i]
    BY <1>1
  <1>3. Sized(SampleRows)
    BY DEF Sized, SampleRows
  <1>4. \A i \in DOMAIN all : all[i].at \in Nat
    <2>1. \A i \in DOMAIN all : all[i] \in SampleRows
      BY <1>2
    <2> HIDE DEF all
    <2> QED BY <2>1 DEF SampleRows
  <1>5. PICK g \in DOMAIN all : all[g] = gone
    BY <1>2 DEF ToSet
  <1> HIDE DEF all, cutoff
  <1>6. PICK c \in DOMAIN samples' : samples'[c] = k
    BY DEF ToSet
  <1>7. fit \in Seq(SampleRows)
    BY <1>1, <1>2, KeptFrom
  <1>8. PICK d \in DOMAIN fit : fit[d] = k /\ d \in Q
    <2> HIDE DEF Q, fit
    <2> QED BY <1>1, <1>6, <1>7, KeptFrom
  <1>9. PICK i \in DOMAIN all : all[i] = k /\ i \in P
    <2> HIDE DEF Q, P, fit
    <2> QED BY <1>1, <1>2, <1>8, KeptFrom
  <1>10. CASE g \in P
    <2>1. PICK e \in DOMAIN fit : fit[e] = gone
      <3>1. PICK at : Picks(at, fit, Len(all), all, P)
        <4> HIDE DEF P, fit
        <4> QED BY <1>1, <1>2, KeptRows
      <3>2. DOMAIN all = 1 .. Len(all) /\ DOMAIN fit = 1 .. Len(fit)
        BY <1>2, <1>7
      <3>3. PICK e \in 1 .. Len(fit) : at[e] = g
        <4> HIDE DEF P, fit
        <4> QED BY <1>10, <3>1, <3>2 DEF Picks
      <3>4. fit[e] = all[at[e]]
        <4> HIDE DEF P, fit
        <4> QED BY <3>1 DEF Picks
      <3> QED BY <1>5, <3>2, <3>3, <3>4
    <2>2. e \notin Q
      <3>1. PICK at : Picks(at, samples', Len(fit), fit, Q)
        <4> HIDE DEF Q, fit
        <4> QED BY <1>1, <1>7, KeptRows
      <3>2. DOMAIN fit = 1 .. Len(fit) /\ DOMAIN samples' = 1 .. Len(samples')
        <4>1. samples' \in Seq(SampleRows)
          BY CommittedSamples
        <4> QED BY <1>7, <4>1
      <3>3. \A b \in 1 .. Len(samples') : samples'[b] # gone
        BY <3>2 DEF ToSet
      <3> HIDE DEF Q, fit
      <3> QED BY <2>1, <3>1, <3>2, <3>3 DEF Picks
    <2>3. ~(gone.at >= cutoff) /\ k.at >= cutoff
      BY <1>8, <2>1, <2>2
    <2> QED BY <1>1, <1>4, <1>5, <1>9, <2>3
  <1>11. CASE g \notin P
    <2>1. UsedBytes(all, i) <= Budget /\ ~(UsedBytes(all, g) <= Budget)
      BY <1>5, <1>9, <1>11
    <2>2. SUFFICES ASSUME k.at < gone.at PROVE FALSE
      BY <1>4, <1>5, <1>9
    <2> HIDE DEF P
    <2>3. /\ UsedBytes(all, g) \in Nat /\ UsedBytes(all, i) \in Nat
          /\ UsedBytes(all, g) <= UsedBytes(all, i)
      BY <1>2, <1>3, <1>5, <1>9, <2>2, UsedBytesGrow
    <2> QED BY <1>1, <2>1, <2>3
  <1> QED BY <1>10, <1>11

\* A sample that is not older than any other and not expired is stored as the
\* last (store.rs sample_resources).
LEMMA NewestStays ==
  ASSUME StoreInvariant, SampleCommit,
         \A r \in ToSet(samples) \cup {sampler.row} : ~(r.at > sampler.row.at),
         ~(sampler.row.at < Cutoff(sampler.retention))
  PROVE  samples' # <<>> /\ Last(samples') = sampler.row
  <1> DEFINE all    == Append(samples, sampler.row)
             n      == Len(samples)
             cutoff == Cutoff(sampler.retention)
             P      == {i \in DOMAIN all : UsedBytes(all, i) <= Budget}
             fit    == prune_bytes(all, Budget)
             Q      == {i \in DOMAIN fit : fit[i].at >= cutoff}
  <1>1. /\ samples \in Seq(SampleRows) /\ sampler.row \in SampleRows
        /\ sampler.row.size <= Budget
        /\ samples' = Kept(fit, Q) /\ fit = Kept(all, P)
        /\ cutoff \in Nat /\ sampler.row.at \in Nat /\ n \in Nat
    <2>1. /\ samples \in Seq(SampleRows) /\ sampler # None /\ now \in Nat
          /\ sampler \in [row : SampleRows, retention : Nat]
          /\ sampler.row.size <= Budget
      BY DEF StoreInvariant, StoreType, SampleBound, SampleCommit
    <2>2. sampler.row \in SampleRows /\ cutoff \in Nat
      BY <2>1 DEF Cutoff
    <2>3. sampler.row.at \in Nat /\ n \in Nat
      BY <2>1, <2>2 DEF SampleRows
    <2>4. samples' = Kept(fit, Q) /\ fit = Kept(all, P)
      BY DEF SampleCommit, Unexpired, prune_bytes
    <2> QED BY <2>1, <2>2, <2>3, <2>4
  <1>2. /\ all \in Seq(SampleRows) /\ Len(all) = n + 1 /\ n + 1 \in DOMAIN all
        /\ all[n + 1] = sampler.row
    BY <1>1
  <1>3. Sized(SampleRows)
    BY DEF Sized, SampleRows
  <1>4. UsedBytes(all, n + 1) = sampler.row.size
    <2>1. \A i \in DOMAIN samples : samples[i].at <= sampler.row.at
      <3> TAKE i \in DOMAIN samples
      <3>1. samples[i] \in ToSet(samples) /\ samples[i] \in SampleRows
        BY <1>1 DEF ToSet
      <3>2. samples[i].at \in Nat
        BY <3>1 DEF SampleRows
      <3> QED BY <1>1, <3>1, <3>2
    <2> QED BY <1>1, <1>3, <2>1, NewestCounts
  <1>5. n + 1 \in P
    BY <1>1, <1>2, <1>4
  <1> HIDE DEF all, P, fit
  <1>6. fit \in Seq(SampleRows) /\ Len(fit) > 0 /\ fit[Len(fit)] = sampler.row
    BY <1>1, <1>2, <1>5, LastKept
  <1>7. Len(fit) \in Q
    <2>1. Len(fit) \in DOMAIN fit
      BY <1>6
    <2> QED BY <1>1, <1>6, <2>1
  <1> HIDE DEF Q
  <1>8. /\ samples' \in Seq(SampleRows) /\ Len(samples') > 0
        /\ samples'[Len(samples')] = sampler.row
    BY <1>1, <1>6, <1>7, LastKept
  <1>9. samples' # <<>>
    BY <1>8
  <1> QED BY <1>8, <1>9 DEF Last

\* Whatever the sizes, the budget and the clock, a stored sample evicts older
\* ones only and stays itself if it is the newest (store.rs sample_resources).
THEOREM NewestIsKept == Spec => HistoryKeepsNewest
  <1> DEFINE Keeps_newest ==
        \A row \in {sampler.row : x \in {sampler} \ {None}} :
           sampler' = None /\ Running' =>
              LET rows == ToSet(samples) \cup {row}
                  kept == ToSet(samples')
              IN  /\ \A gone \in rows \ kept, k \in kept : k.at >= gone.at
                  /\ \/ \E r \in rows : r.at > row.at
                     \/ row.at < Cutoff(sampler.retention)
                     \/ samples' # <<>> /\ Last(samples') = row
  <1>1. StoreInvariant /\ [Next]_vars => [Keeps_newest]_vars
    <2> SUFFICES ASSUME StoreInvariant, Next, sampler # None, sampler' = None, Running'
                 PROVE  Keeps_newest
      OBVIOUS
    <2>1. SampleCommit
      <3>1. ~event /\ ~Stop /\ ~Tick /\ ~SetBack
        BY DEF event, Write, Running, Stop, Tick, SetBack
      <3>2. ~\E size \in Sizes, pending \in Pendings \cup {None} :
                 SampleStart(Row(size, pending))
        BY DEF SampleStart
      <3>3. ~\E size \in Sizes : Incident(size)
        BY DEF Incident
      <3>4. ~\E s \in Settings : save_settings(s)
        BY DEF save_settings
      <3>5. ~\E identity \in Identities, adopt \in BOOLEAN :
                 bind_profile(identity, adopt)
        BY DEF bind_profile
      <3> QED BY <3>1, <3>2, <3>3, <3>4, <3>5 DEF Next
    <2>2. \A row \in {sampler.row : x \in {sampler} \ {None}} : row = sampler.row
      OBVIOUS
    <2> QED BY <2>1, <2>2, OlderRowsGo, NewestStays
  <1> QED BY <1>1, StoreInit, StoreNext, PTL DEF Spec, HistoryKeepsNewest

-----------------------------------------------------------------------------
(* The backlog chart *)

\* Of numbers up to a bound one is the greatest.
LEMMA GreatestNat ==
  ASSUME NEW T, T \subseteq Nat, T # {}, NEW b \in Nat, \A m \in T : m <= b
  PROVE  \E n \in T : \A m \in T : n >= m
  <1> DEFINE U == {b - m : m \in T}
  <1>1. U \subseteq Nat /\ U # {}
    <2>1. \A m \in T : b - m \in Nat
      OBVIOUS
    <2> QED BY <2>1
  <1>2. PICK u \in U : \A w \in U : u <= w
    <2> HIDE DEF U
    <2> QED BY <1>1, LeastNat
  <1>3. PICK n \in T : u = b - n
    BY <1>2
  <1>4. \A m \in T : n >= m
    <2> TAKE m \in T
    <2>1. b - m \in U /\ n \in Nat /\ m \in Nat
      OBVIOUS
    <2>2. b - n <= b - m
      BY <1>2, <1>3, <2>1
    <2> QED BY <2>1, <2>2
  <1> QED BY <1>4

\* Usable samples, and the pending counts of them, are bounded.
LEMMA PendingBound ==
  ASSUME NEW series \in Seq(SampleRows)
  PROVE  \E b \in Nat : \A k \in 1 .. Len(series) :
            series[k].pending # None => series[k].pending <= b
  <1> DEFINE n == Len(series)
             Upto(b, m) == \A k \in 1 .. m :
                              series[k].pending # None => series[k].pending <= b
             S == {m \in 0 .. n : \E b \in Nat : Upto(b, m)}
  <1>1. /\ n \in Nat
        /\ \A k \in 1 .. n : series[k].pending # None => series[k].pending \in Nat
    <2>1. n \in Nat /\ \A k \in 1 .. n : series[k] \in SampleRows
      OBVIOUS
    <2>2. \A k \in 1 .. n : series[k].pending \in Pendings \cup {None}
      BY <2>1 DEF SampleRows
    <2>3. Pendings \subseteq Nat
      BY HistoryAssumption
    <2> QED BY <2>1, <2>2, <2>3
  <1>2. 0 \in S
    <2>1. Upto(0, 0)
      OBVIOUS
    <2> QED BY <1>1, <2>1
  <1>3. ASSUME NEW m \in 1 .. n, m - 1 \in S
        PROVE  m \in S
    <2>1. PICK b \in Nat : Upto(b, m - 1)
      BY <1>3
    <2> DEFINE p == series[m].pending
               c == IF p # None /\ p > b THEN p ELSE b
    <2>2. c \in Nat /\ b <= c /\ (p # None => p <= c)
      BY <1>1
    <2>3. Upto(c, m)
      <3> SUFFICES ASSUME NEW k \in 1 .. m, series[k].pending # None
                   PROVE  series[k].pending <= c
        OBVIOUS
      <3>1. series[k].pending \in Nat
        BY <1>1
      <3>2. CASE k = m
        BY <2>2, <3>2
      <3>3. CASE k # m
        <4>1. k \in 1 .. m - 1
          BY <3>3
        <4>2. series[k].pending <= b
          BY <2>1, <4>1
        <4> HIDE DEF c
        <4> QED BY <2>2, <3>1, <4>2
      <3> QED BY <3>2, <3>3
    <2> HIDE DEF c
    <2>4. m \in 0 .. n
      BY <1>1
    <2> QED BY <2>2, <2>3, <2>4
  <1>4. \A m \in 0 .. n : m \in S
    <2> HIDE DEF S
    <2> QED BY <1>1, <1>2, <1>3, UpToInduction
  <1>5. n \in S
    <2> HIDE DEF S
    <2> QED BY <1>1, <1>4
  <1> QED BY <1>5

\* The samples of a window, oldest first (backlog.rs, the query of a chart).
LEMMA WindowRows ==
  ASSUME samples \in Seq(SampleRows), NEW from, NEW to
  PROVE  LET series == Window(from, to)
         IN  /\ series \in Seq(SampleRows)
             /\ \A k \in 1 .. Len(series) : series[k].at \in from .. to
             /\ \A k, l \in 1 .. Len(series) : k < l => series[k].at <= series[l].at
  <1> DEFINE rows == {i \in DOMAIN samples : samples[i].at \in from .. to}
             Older(i) == {j \in rows : Newer(samples, i, j)}
             N == Cardinality(rows)
             at(i) == samples[i].at
             pick(k) == CHOOSE i \in rows : Cardinality(Older(i)) = k - 1
  <1>1. /\ Len(samples) \in Nat /\ DOMAIN samples = 1 .. Len(samples)
        /\ \A i \in rows : i \in Nat /\ samples[i] \in SampleRows /\ at(i) \in Nat
                        /\ at(i) \in from .. to
    <2>1. /\ Len(samples) \in Nat /\ DOMAIN samples = 1 .. Len(samples)
          /\ \A i \in DOMAIN samples : samples[i] \in SampleRows
      OBVIOUS
    <2>2. \A i \in DOMAIN samples : samples[i].at \in Nat
      BY <2>1 DEF SampleRows
    <2> QED BY <2>1, <2>2
  <1>2. IsFiniteSet(rows) /\ N \in Nat
    <2>1. IsFiniteSet(1 .. Len(samples)) /\ rows \in SUBSET (1 .. Len(samples))
      BY <1>1, FS_Interval
    <2> HIDE DEF rows
    <2> QED BY <2>1, FS_Subset, FS_CardinalityType
  <1>3. Window(from, to) = [k \in 1 .. N |-> samples[pick(k)]]
    BY DEF Window
  <1>4. \A i, j \in rows : Newer(samples, i, j) <=> at(i) > at(j) \/ (at(i) = at(j) /\ i > j)
    BY DEF Newer
  <1>5. ASSUME NEW i \in rows, NEW j \in rows, Newer(samples, j, i)
        PROVE  Cardinality(Older(i)) < Cardinality(Older(j))
    <2>1. \A l \in Older(i) : l \in Older(j)
      <3> TAKE l \in Older(i)
      <3>1. l \in rows /\ Newer(samples, i, l)
        OBVIOUS
      <3> HIDE DEF rows
      <3>2. Newer(samples, j, l)
        BY <1>1, <1>4, <1>5, <3>1
      <3> QED BY <3>1, <3>2
    <2>2. i \in Older(j) /\ i \notin Older(i)
      <3>1. ~Newer(samples, i, i)
        <4> HIDE DEF rows
        <4> QED BY <1>1, <1>4
      <3> QED BY <1>5, <3>1
    <2>3. Older(j) \in SUBSET rows /\ Older(i) \in SUBSET Older(j) /\ Older(i) # Older(j)
      <3>1. Older(j) \in SUBSET rows
        OBVIOUS
      <3> HIDE DEF Older, rows
      <3> QED BY <2>1, <2>2, <3>1
    <2> HIDE DEF Older, rows
    <2>4. IsFiniteSet(Older(j)) /\ Cardinality(Older(j)) \in Nat
      BY <1>2, <2>3, FS_Subset, FS_CardinalityType
    <2>5. /\ IsFiniteSet(Older(i)) /\ Cardinality(Older(i)) \in Nat
          /\ Cardinality(Older(i)) <= Cardinality(Older(j))
          /\ Cardinality(Older(i)) # Cardinality(Older(j))
      BY <2>3, <2>4, FS_Subset, FS_CardinalityType
    <2> QED BY <2>4, <2>5
  <1>6. \A i, j \in rows : i = j \/ Newer(samples, i, j) \/ Newer(samples, j, i)
    <2> HIDE DEF rows
    <2> QED BY <1>1, <1>4
  <1>7. ASSUME NEW i \in rows
        PROVE  Cardinality(Older(i)) \in 0 .. N - 1
    <2>1. Older(i) \in SUBSET rows /\ i \notin Older(i)
      <3>1. ~Newer(samples, i, i)
        <4> HIDE DEF rows
        <4> QED BY <1>1, <1>4
      <3> QED BY <3>1
    <2> HIDE DEF Older, rows
    <2>2. /\ IsFiniteSet(Older(i)) /\ Cardinality(Older(i)) \in Nat
          /\ Cardinality(Older(i)) <= Cardinality(rows)
          /\ Cardinality(Older(i)) # Cardinality(rows)
      BY <1>2, <2>1, FS_Subset, FS_CardinalityType
    <2> QED BY <1>2, <2>2 DEF N
  <1>8. ASSUME NEW k \in 1 .. N
        PROVE  pick(k) \in rows /\ Cardinality(Older(pick(k))) = k - 1
    <2> DEFINE rank == [i \in rows |-> Cardinality(Older(i))]
    <2>1. rank \in [rows -> 0 .. N - 1]
      <3> HIDE DEF N, Older, rows
      <3> QED BY <1>7
    <2>2. ASSUME NEW i \in rows, NEW j \in rows, rank[i] = rank[j]
          PROVE  i = j
      <3>1. Cardinality(Older(i)) = Cardinality(Older(j))
        BY <2>2
      <3>2. Cardinality(Older(i)) \in 0 .. N - 1
        BY <1>7
      <3> HIDE DEF N, Older, rows
      <3>3. ~(Cardinality(Older(i)) < Cardinality(Older(j)))
              /\ ~(Cardinality(Older(j)) < Cardinality(Older(i)))
        BY <3>1, <3>2
      <3> QED BY <1>5, <1>6, <3>3
    <2>3. IsFiniteSet(0 .. N - 1) /\ Cardinality(0 .. N - 1) = N
      <3> HIDE DEF N
      <3> QED BY <1>2, FS_Interval
    <2>4. rank \in Injection(rows, 0 .. N - 1)
      <3> HIDE DEF rank, N, rows
      <3> QED BY <2>1, <2>2 DEF Injection, IsInjective
    <2>5. rank \in Surjection(rows, 0 .. N - 1)
      <3>1. Cardinality(rows) = Cardinality(0 .. N - 1)
        BY <2>3
      <3> HIDE DEF rank, N, rows
      <3> QED BY <2>3, <2>4, <3>1, FS_Injection
    <2>6. k - 1 \in 0 .. N - 1
      <3> HIDE DEF N
      <3> QED BY <1>2
    <2>7. \E i \in rows : rank[i] = k - 1
      <3> HIDE DEF rank, N, rows
      <3> QED BY <2>5, <2>6 DEF Surjection
    <2>8. \E i \in rows : Cardinality(Older(i)) = k - 1
      <3> HIDE DEF Older, rows
      <3> QED BY <2>7
    <2> HIDE DEF Older, rows
    <2> QED BY <2>8
  <1>9. ASSUME NEW k \in 1 .. N, NEW l \in 1 .. N, k < l
        PROVE  at(pick(k)) <= at(pick(l))
    <2> DEFINE i == pick(k)
               j == pick(l)
    <2>1. /\ i \in rows /\ j \in rows
          /\ Cardinality(Older(i)) = k - 1 /\ Cardinality(Older(j)) = l - 1
      BY <1>8
    <2> HIDE DEF i, j, Older, rows, N
    <2>2. ~(l - 1 < k - 1)
      BY <1>2, <1>9
    <2>3. ~Newer(samples, i, j)
      BY <1>5, <2>1, <2>2
    <2>4. at(i) <= at(j)
      BY <1>1, <1>4, <2>1, <2>3
    <2> QED BY <2>4 DEF i, j
  <1>10. \A k \in 1 .. N : /\ samples[pick(k)] \in SampleRows
                          /\ at(pick(k)) \in from .. to
    <2> HIDE DEF pick, rows, N
    <2> QED BY <1>1, <1>8
  <1> DEFINE series == Window(from, to)
  <1>11. series \in Seq(SampleRows) /\ Len(series) = N
           /\ \A k \in 1 .. N : series[k] = samples[pick(k)]
    <2> HIDE DEF N, pick
    <2> QED BY <1>2, <1>3, <1>10
  <1> HIDE DEF N, pick, series
  <1>12. /\ \A k \in 1 .. Len(series) : series[k].at \in from .. to
         /\ \A k, l \in 1 .. Len(series) : k < l => series[k].at <= series[l].at
    BY <1>9, <1>10, <1>11
  <1> QED BY <1>11, <1>12 DEF series

\* Samples of a window in the order of their times.
InOrder(series, from, to) ==
    /\ series \in Seq(SampleRows)
    /\ \A k \in 1 .. Len(series) : series[k].at \in from .. to
    /\ \A k, l \in 1 .. Len(series) : k < l => series[k].at <= series[l].at

Points == [sample : SampleRows, segment : Nat]

\* A gap between two samples parts their segments (backlog.rs aggregate).
LEMMA SegmentsPart ==
  ASSUME NEW series \in Seq(SampleRows)
  PROVE  /\ segments(series) \in Seq(Points) /\ Len(segments(series)) = Len(series)
         /\ \A k \in 1 .. Len(series) : segments(series)[k].sample = series[k]
         /\ \A a, b \in 1 .. Len(series) :
              (\E k \in a + 1 .. b : Gap(series[k - 1], series[k]))
                 => segments(series)[a].segment # segments(series)[b].segment
  <1> DEFINE n == Len(series)
             gaps(k) == {i \in 2 .. k : Gap(series[i - 1], series[i])}
             count(k) == Cardinality(gaps(k))
  <1>1. n \in Nat /\ DOMAIN series = 1 .. n /\ \A k \in 1 .. n : series[k] \in SampleRows
    OBVIOUS
  <1>2. \A k \in 1 .. n : IsFiniteSet(gaps(k)) /\ count(k) \in Nat
    <2> TAKE k \in 1 .. n
    <2>1. IsFiniteSet(2 .. k) /\ gaps(k) \in SUBSET (2 .. k)
      BY FS_Interval
    <2> HIDE DEF gaps
    <2> QED BY <2>1, FS_Subset, FS_CardinalityType
  <1>3. segments(series) = [k \in 1 .. n |-> [sample |-> series[k], segment |-> count(k)]]
    BY <1>1 DEF segments
  <1>4. ASSUME NEW a \in 1 .. n, NEW b \in 1 .. n,
               NEW k \in a + 1 .. b, Gap(series[k - 1], series[k])
        PROVE  count(a) # count(b)
    <2>1. \A i \in gaps(a) : i \in gaps(b)
      BY <1>1
    <2>2. k \in gaps(b) /\ k \notin gaps(a)
      BY <1>1, <1>4
    <2> HIDE DEF gaps
    <2>3. gaps(a) \in SUBSET gaps(b) /\ gaps(a) # gaps(b)
      BY <2>1, <2>2
    <2> QED BY <1>2, <2>3, FS_Subset
  <1>5. \A k \in 1 .. n : [sample |-> series[k], segment |-> count(k)] \in Points
    <2> HIDE DEF count
    <2> QED BY <1>1, <1>2 DEF Points
  <1> HIDE DEF count
  <1>6. segments(series) \in Seq(Points) /\ Len(segments(series)) = n
    BY <1>1, <1>3, <1>5
  <1>7. \A k \in 1 .. n : /\ segments(series)[k].sample = series[k]
                         /\ segments(series)[k].segment = count(k)
    BY <1>3
  <1>8. ASSUME NEW a \in 1 .. n, NEW b \in 1 .. n,
               \E k \in a + 1 .. b : Gap(series[k - 1], series[k])
        PROVE  segments(series)[a].segment # segments(series)[b].segment
    BY <1>4, <1>7, <1>8
  <1> QED BY <1>6, <1>7, <1>8

\* Every time of a window falls into one of the bins (backlog.rs aggregate).
LEMMA BinsCover ==
  ASSUME NEW from \in Nat, NEW to \in Nat, from < to, NEW at \in from .. to
  PROVE  Bin(at, from, to) \in 0 .. Bins - 1
  <1> DEFINE width == (to - from + Bins) \div Bins
             x == (at - from) \div width
             T == {x, Bins - 1}
  <1>1. Bins \in Nat \ {0} /\ Bins - 1 \in Nat
    BY HistoryAssumption
  <1>2. width \in Nat \ {0}
    <2> DEFINE a == to - from + Bins
    <2>1. a \in Nat /\ a >= Bins
      BY <1>1
    <2> HIDE DEF a
    <2>2. a \div Bins \in Nat /\ a \div Bins >= 1
      BY <1>1, <2>1
    <2> QED BY <2>2 DEF a
  <1> HIDE DEF width
  <1>3. x \in Nat
    <2> DEFINE a == at - from
    <2>1. a \in Nat
      OBVIOUS
    <2> HIDE DEF a
    <2>2. a \div width \in Nat
      BY <1>2, <2>1
    <2> QED BY <2>2 DEF a
  <1>4. Bin(at, from, to) = Min(T)
    BY DEF Bin, width
  <1> HIDE DEF x
  <1>5. \E m \in T : \A y \in T : m <= y
    <2>1. T \subseteq Nat /\ T # {}
      BY <1>1, <1>3
    <2> HIDE DEF T
    <2> QED BY <2>1, LeastNat
  <1>6. Min(T) \in T /\ \A y \in T : Min(T) <= y
    <2> HIDE DEF T
    <2> QED BY <1>5 DEF Min
  <1> QED BY <1>1, <1>3, <1>4, <1>6

\* Of a bin with a usable sample, a least and a greatest one are selected
\* (backlog.rs aggregate).
LEMMA SelectedExtremes ==
  ASSUME NEW series \in Seq(SampleRows), NEW bin, bin \subseteq 1 .. Len(series),
         NEW k \in bin, series[k].pending # None
  PROVE  /\ \E c \in Selected(series, bin) \cap bin :
              series[c].pending # None /\ series[c].pending <= series[k].pending
         /\ \E d \in Selected(series, bin) \cap bin :
              series[d].pending # None /\ series[d].pending >= series[k].pending
  <1> DEFINE valid == {i \in bin : series[i].pending # None}
             least == {i \in valid : \A j \in valid :
                          series[i].pending <= series[j].pending}
             great == {i \in valid : \A j \in valid :
                          series[i].pending >= series[j].pending}
             T == {series[i].pending : i \in valid}
  <1>1. k \in valid /\ valid \subseteq bin /\ valid # {}
    OBVIOUS
  <1>2. \A i \in valid : i \in 1 .. Len(series) /\ i \in Nat /\ series[i].pending \in Nat
    <2>1. \A i \in 1 .. Len(series) : series[i] \in SampleRows
      OBVIOUS
    <2>2. \A i \in 1 .. Len(series) : series[i].pending \in Pendings \cup {None}
      BY <2>1 DEF SampleRows
    <2>3. Pendings \subseteq Nat
      BY HistoryAssumption
    <2> SUFFICES ASSUME NEW i \in valid
                 PROVE  i \in 1 .. Len(series) /\ i \in Nat /\ series[i].pending \in Nat
      OBVIOUS
    <2>4. i \in 1 .. Len(series) /\ series[i].pending # None
      OBVIOUS
    <2>5. i \in Nat
      BY <2>4
    <2> QED BY <2>2, <2>3, <2>4, <2>5
  <1>3. /\ {Min(least), Max(great)} \subseteq Selected(series, bin)
    BY <1>1 DEF Selected
  <1>4. T \subseteq Nat /\ T # {}
    BY <1>1, <1>2
  <1>5. least # {}
    <2>1. PICK p \in T : \A q \in T : p <= q
      <3> HIDE DEF T
      <3> QED BY <1>4, LeastNat
    <2>2. PICK i \in valid : series[i].pending = p
      BY <2>1
    <2>3. i \in least
      BY <2>1, <2>2
    <2> QED BY <2>3
  <1>6. great # {}
    <2>1. PICK b \in Nat : \A i \in 1 .. Len(series) :
              series[i].pending # None => series[i].pending <= b
      BY PendingBound
    <2>2. \A q \in T : q <= b
      BY <1>2, <2>1
    <2>3. PICK p \in T : \A q \in T : p >= q
      <3> HIDE DEF T
      <3> QED BY <1>4, <2>2, GreatestNat
    <2>4. PICK i \in valid : series[i].pending = p
      BY <2>3
    <2>5. i \in great
      BY <2>3, <2>4
    <2> QED BY <2>5
  <1>7. least \subseteq valid /\ great \subseteq valid
    OBVIOUS
  <1>8. Min(least) \in least
    <2> HIDE DEF least, valid
    <2>1. least \subseteq Nat
      BY <1>2, <1>7
    <2>2. \E x \in least : \A y \in least : x <= y
      BY <1>5, <2>1, LeastNat
    <2> QED BY <2>2 DEF Min
  <1>9. Max(great) \in great
    <2> HIDE DEF great, valid
    <2>1. great \subseteq Nat /\ Len(series) \in Nat /\ \A x \in great : x <= Len(series)
      BY <1>2, <1>7
    <2>2. \E x \in great : \A y \in great : x >= y
      BY <1>6, <2>1, GreatestNat
    <2> QED BY <2>2 DEF Max
  <1>10. /\ Min(least) \in bin /\ series[Min(least)].pending # None
         /\ series[Min(least)].pending <= series[k].pending
    BY <1>1, <1>8
  <1>11. /\ Max(great) \in bin /\ series[Max(great)].pending # None
         /\ series[Max(great)].pending >= series[k].pending
    BY <1>1, <1>9
  <1> HIDE DEF least, great
  <1> QED BY <1>3, <1>10, <1>11

\* The points of a chart are samples of the window in their order, and for every
\* usable sample the chart has one as small and one as large (backlog.rs
\* aggregate).
Shape(idx, chart, series) ==
    /\ chart \in Seq(Points)
    /\ idx \in [1 .. Len(chart) -> 1 .. Len(series)]
    /\ \A c \in 1 .. Len(chart) : chart[c] = segments(series)[idx[c]]
    /\ \A c, d \in 1 .. Len(chart) : c < d => idx[c] < idx[d]
    /\ \A k \in 1 .. Len(series) : series[k].pending # None =>
          /\ \E c \in 1 .. Len(chart) :
                /\ series[idx[c]].pending # None
                /\ series[idx[c]].pending <= series[k].pending
          /\ \E d \in 1 .. Len(chart) :
                /\ series[idx[d]].pending # None
                /\ series[idx[d]].pending >= series[k].pending

\* A chart has that shape, whether samples are left out of it or not.
LEMMA ChartShape ==
  ASSUME NEW from \in Nat, NEW to \in Nat, from < to, NEW series,
         InOrder(series, from, to)
  PROVE  \E idx : Shape(idx, aggregate(series, from, to), series)
  <1> DEFINE n == Len(series)
             all == segments(series)
             In(b) == {k \in DOMAIN series : Bin(series[k].at, from, to) = b}
             bins == {In(b) : b \in 0 .. Bins - 1} \ {{}}
             keep == UNION {Selected(series, bin) : bin \in bins}
             chart == aggregate(series, from, to)
  <1>1. /\ series \in Seq(SampleRows) /\ n \in Nat /\ DOMAIN series = 1 .. n
        /\ \A k \in 1 .. n : series[k].at \in from .. to
    BY DEF InOrder
  <1>2. all \in Seq(Points) /\ Len(all) = n
    BY <1>1, SegmentsPart
  <1>3. \A k \in 1 .. n : series[k].pending # None => series[k].pending \in Nat
    <2>1. \A k \in 1 .. n : series[k] \in SampleRows
      BY <1>1
    <2>2. \A k \in 1 .. n : series[k].pending \in Pendings \cup {None}
      BY <2>1 DEF SampleRows
    <2>3. Pendings \subseteq Nat
      BY HistoryAssumption
    <2> QED BY <2>2, <2>3
  <1> HIDE DEF all
  <1>4. CASE Len(series) > ChartLimit
    <2>1. chart = Kept(all, keep)
      BY <1>4 DEF aggregate, all
    <2>2. PICK idx : Picks(idx, chart, n, all, keep)
      <3> HIDE DEF keep, chart
      <3> QED BY <1>2, <2>1, KeptRows
    <2>3. chart \in Seq(Points)
      <3> HIDE DEF keep, chart
      <3> QED BY <1>2, <2>1, KeptRows
    <2>4. ASSUME NEW k \in 1 .. n, series[k].pending # None
          PROVE  /\ \E c \in keep : /\ c \in 1 .. n /\ series[c].pending # None
                                   /\ series[c].pending <= series[k].pending
                 /\ \E d \in keep : /\ d \in 1 .. n /\ series[d].pending # None
                                   /\ series[d].pending >= series[k].pending
      <3> DEFINE b == Bin(series[k].at, from, to)
                 bin == In(b)
      <3>1. b \in 0 .. Bins - 1
        BY <1>1, BinsCover
      <3>2. k \in bin /\ bin \subseteq 1 .. n
        BY <1>1
      <3>3. bin \in bins
        <4>1. bin \in {In(i) : i \in 0 .. Bins - 1}
          BY <3>1
        <4>2. bin # {}
          BY <3>2
        <4> HIDE DEF bin, In
        <4> QED BY <4>1, <4>2
      <3>4. Selected(series, bin) \subseteq keep
        <4> HIDE DEF bin, bins
        <4> QED BY <3>3
      <3> HIDE DEF bin, keep
      <3>5. /\ \E c \in Selected(series, bin) \cap bin :
                  series[c].pending # None /\ series[c].pending <= series[k].pending
            /\ \E d \in Selected(series, bin) \cap bin :
                  series[d].pending # None /\ series[d].pending >= series[k].pending
        BY <1>1, <2>4, <3>2, SelectedExtremes
      <3> QED BY <3>2, <3>4, <3>5
    <2> HIDE DEF keep, chart
    <2>5. ASSUME NEW k \in 1 .. n, series[k].pending # None
          PROVE  /\ \E c \in 1 .. Len(chart) :
                       /\ series[idx[c]].pending # None
                       /\ series[idx[c]].pending <= series[k].pending
                 /\ \E d \in 1 .. Len(chart) :
                       /\ series[idx[d]].pending # None
                       /\ series[idx[d]].pending >= series[k].pending
      <3>1. \A i \in keep : i \in 1 .. n => \E c \in 1 .. Len(chart) : idx[c] = i
        BY <2>2 DEF Picks
      <3>2. PICK i \in keep : /\ i \in 1 .. n /\ series[i].pending # None
                              /\ series[i].pending <= series[k].pending
        BY <2>4, <2>5
      <3>3. PICK j \in keep : /\ j \in 1 .. n /\ series[j].pending # None
                              /\ series[j].pending >= series[k].pending
        BY <2>4, <2>5
      <3>4. PICK c \in 1 .. Len(chart) : idx[c] = i
        BY <3>1, <3>2
      <3>5. PICK d \in 1 .. Len(chart) : idx[d] = j
        BY <3>1, <3>3
      <3> QED BY <3>2, <3>3, <3>4, <3>5
    <2>6. Shape(idx, chart, series)
      BY <2>2, <2>3, <2>5 DEF Picks, Shape, all
    <2> QED BY <2>6 DEF chart
  <1>5. CASE ~(Len(series) > ChartLimit)
    <2> DEFINE idx == [k \in 1 .. n |-> k]
    <2>1. chart = all
      BY <1>5 DEF aggregate, all
    <2>2. Shape(idx, all, series)
      <3>1. all \in Seq(Points) /\ idx \in [1 .. Len(all) -> 1 .. n]
        BY <1>2
      <3>2. \A c \in 1 .. Len(all) : idx[c] = c
        BY <1>2
      <3>3. \A k \in 1 .. n : series[k].pending # None =>
               series[k].pending <= series[k].pending /\ series[k].pending >= series[k].pending
        BY <1>3
      <3> HIDE DEF idx
      <3> QED BY <1>1, <1>2, <3>1, <3>2, <3>3 DEF Shape, all
    <2> HIDE DEF idx
    <2> QED BY <2>1, <2>2
  <1> QED BY <1>4, <1>5

\* Sets of numbers of which one has the other and goes no further have the same
\* ends.
LEMMA SameEnds ==
  ASSUME NEW S, NEW C, S \subseteq Nat, C \subseteq S,
         NEW b \in Nat, \A v \in S : v <= b,
         \A v \in S : (\E u \in C : u <= v) /\ (\E w \in C : w >= v)
  PROVE  /\ S = {} <=> C = {}
         /\ S # {} => Min(S) = Min(C) /\ Max(S) = Max(C)
  <1>1. S = {} <=> C = {}
    OBVIOUS
  <1>2. ASSUME S # {}
        PROVE  Min(S) = Min(C) /\ Max(S) = Max(C)
    <2>1. C # {} /\ C \subseteq Nat /\ \A v \in C : v <= b
      BY <1>1, <1>2
    <2>2. Min(S) \in S /\ \A v \in S : Min(S) <= v
      <3>1. \E m \in S : \A v \in S : m <= v
        BY <1>2, LeastNat
      <3> QED BY <3>1 DEF Min
    <2>3. Min(C) \in C /\ \A v \in C : Min(C) <= v
      <3>1. \E m \in C : \A v \in C : m <= v
        BY <2>1, LeastNat
      <3> QED BY <3>1 DEF Min
    <2>4. Max(S) \in S /\ \A v \in S : Max(S) >= v
      <3>1. \E m \in S : \A v \in S : m >= v
        BY <1>2, GreatestNat
      <3> QED BY <3>1 DEF Max
    <2>5. Max(C) \in C /\ \A v \in C : Max(C) >= v
      <3>1. \E m \in C : \A v \in C : m >= v
        BY <2>1, GreatestNat
      <3> QED BY <3>1 DEF Max
    <2>6. Min(S) <= Min(C) /\ Max(S) >= Max(C)
      BY <2>2, <2>3, <2>4, <2>5
    <2>7. PICK u \in C : u <= Min(S)
      BY <2>2
    <2>8. PICK w \in C : w >= Max(S)
      BY <2>4
    <2>9. /\ Min(S) \in Nat /\ Min(C) \in Nat /\ Max(S) \in Nat /\ Max(C) \in Nat
          /\ u \in Nat /\ w \in Nat /\ Min(C) <= u /\ Max(C) >= w
      BY <2>1, <2>2, <2>3, <2>4, <2>5, <2>7, <2>8
    <2> DEFINE least == Min(S)
               first == Min(C)
               greatest == Max(S)
               last == Max(C)
    <2>10. /\ least \in Nat /\ first \in Nat /\ greatest \in Nat /\ last \in Nat
           /\ u \in Nat /\ w \in Nat
           /\ least <= first /\ first <= u /\ u <= least
           /\ last <= greatest /\ greatest <= w /\ w <= last
      BY <2>6, <2>7, <2>8, <2>9
    <2> HIDE DEF least, first, greatest, last
    <2>11. least = first
      BY <2>10
    <2>12. greatest = last
      BY <2>10
    <2> QED BY <2>11, <2>12 DEF least, first, greatest, last
  <1> QED BY <1>1, <1>2

\* The chart has the greatest and the least pending count of its window
\* (backlog.rs aggregate).
LEMMA ExtremesKept ==
  ASSUME NEW series \in Seq(SampleRows), NEW chart, NEW idx, Shape(idx, chart, series)
  PROVE  Extremes(series) = Extremes([k \in DOMAIN chart |-> chart[k].sample])
  <1> DEFINE n == Len(series)
             m == Len(chart)
             shown == [k \in DOMAIN chart |-> chart[k].sample]
             S == {series[k].pending : k \in DOMAIN series} \ {None}
             C == {shown[k].pending : k \in DOMAIN shown} \ {None}
  <1>1. n \in Nat /\ DOMAIN series = 1 .. n /\ m \in Nat /\ DOMAIN chart = 1 .. m
    BY DEF Shape
  <1>2. \A c \in 1 .. m : idx[c] \in 1 .. n /\ shown[c] = series[idx[c]]
    <2>1. \A c \in 1 .. m : /\ idx[c] \in 1 .. n
                            /\ chart[c] = segments(series)[idx[c]]
      BY DEF Shape
    <2>2. \A k \in 1 .. n : segments(series)[k].sample = series[k]
      BY SegmentsPart
    <2>3. \A c \in 1 .. m : shown[c] = chart[c].sample
      BY <1>1
    <2> QED BY <2>1, <2>2, <2>3
  <1>3. DOMAIN shown = 1 .. m
    BY <1>1
  <1> HIDE DEF shown
  <1>4. \A k \in 1 .. n : series[k].pending # None => series[k].pending \in Nat
    <2>1. \A k \in 1 .. n : series[k] \in SampleRows
      BY <1>1
    <2>2. \A k \in 1 .. n : series[k].pending \in Pendings \cup {None}
      BY <2>1 DEF SampleRows
    <2>3. Pendings \subseteq Nat
      BY HistoryAssumption
    <2> QED BY <2>2, <2>3
  <1>5. S \subseteq Nat
    BY <1>1, <1>4
  <1>6. C \subseteq S
    BY <1>1, <1>2, <1>3
  <1>7. PICK b \in Nat : \A v \in S : v <= b
    <2>1. PICK b \in Nat : \A k \in 1 .. n :
              series[k].pending # None => series[k].pending <= b
      BY PendingBound
    <2>2. \A v \in S : v <= b
      BY <1>1, <2>1
    <2> QED BY <2>2
  <1>8. ASSUME NEW v \in S
        PROVE  (\E u \in C : u <= v) /\ (\E w \in C : w >= v)
    <2>1. PICK k \in 1 .. n : series[k].pending = v /\ v # None
      BY <1>1
    <2>2. PICK c \in 1 .. m : /\ series[idx[c]].pending # None
                              /\ series[idx[c]].pending <= v
      BY <2>1 DEF Shape
    <2>3. PICK d \in 1 .. m : /\ series[idx[d]].pending # None
                              /\ series[idx[d]].pending >= v
      BY <2>1 DEF Shape
    <2>4. series[idx[c]].pending \in C /\ series[idx[d]].pending \in C
      BY <1>2, <1>3, <2>2, <2>3
    <2> HIDE DEF C
    <2> QED BY <2>2, <2>3, <2>4
  <1>9. /\ Extremes(series) = IF S = {} THEN {} ELSE {Min(S), Max(S)}
        /\ Extremes(shown) = IF C = {} THEN {} ELSE {Min(C), Max(C)}
    BY DEF Extremes
  <1> HIDE DEF S, C
  <1>10. (S = {} <=> C = {}) /\ (S # {} => Min(S) = Min(C) /\ Max(S) = Max(C))
    BY <1>5, <1>6, <1>7, <1>8, SameEnds
  <1>11. Extremes(series) = Extremes(shown)
    BY <1>9, <1>10
  <1> QED BY <1>11 DEF shown

\* Between two points of one segment the window has no gap, among the samples
\* that are left out of the chart neither (backlog.rs aggregate).
LEMMA GapsAreKept ==
  ASSUME NEW from \in Nat, NEW to \in Nat, NEW series, InOrder(series, from, to),
         NEW chart, NEW idx, Shape(idx, chart, series)
  PROVE  GapsKept(series, chart)
  <1> DEFINE n == Len(series)
             m == Len(chart)
  <1>1. /\ series \in Seq(SampleRows) /\ n \in Nat /\ m \in Nat /\ DOMAIN chart = 1 .. m
        /\ \A k, l \in 1 .. n : k < l => series[k].at <= series[l].at
    BY DEF InOrder, Shape
  <1>2. \A k \in 1 .. n : series[k].at \in Nat
    <2>1. \A k \in 1 .. n : series[k] \in SampleRows
      BY <1>1
    <2> QED BY <2>1 DEF SampleRows
  <1>3. SUFFICES
          ASSUME NEW i \in 1 .. m, NEW j \in 1 .. m, i < j,
                 chart[i].segment = chart[j].segment,
                 NEW k \in 2 .. n,
                 series[k - 1].at >= chart[i].sample.at,
                 series[k].at <= chart[j].sample.at,
                 series[k - 1].at < series[k].at,
                 Gap(series[k - 1], series[k])
          PROVE  FALSE
    BY <1>1 DEF GapsKept
  <1> DEFINE a == idx[i]
             b == idx[j]
  <1>4. /\ a \in 1 .. n /\ b \in 1 .. n /\ k \in 1 .. n /\ k - 1 \in 1 .. n
        /\ chart[i] = segments(series)[a] /\ chart[j] = segments(series)[b]
    <2>1. a \in 1 .. n /\ b \in 1 .. n
      BY DEF Shape
    <2>2. k \in 1 .. n /\ k - 1 \in 1 .. n
      BY <1>1
    <2>3. chart[i] = segments(series)[a] /\ chart[j] = segments(series)[b]
      BY DEF Shape
    <2> QED BY <2>1, <2>2, <2>3
  <1> HIDE DEF a, b
  <1>5. chart[i].sample = series[a] /\ chart[j].sample = series[b]
    BY <1>1, <1>4, SegmentsPart
  <1>6. a <= k - 1
    <2> SUFFICES ASSUME a >= k PROVE FALSE
      BY <1>4
    <2>1. series[a].at >= series[k].at
      <3>1. CASE a = k
        BY <1>2, <1>4, <3>1
      <3>2. CASE a > k
        BY <1>1, <1>2, <1>4, <3>2
      <3> QED BY <1>4, <3>1, <3>2
    <2>2. series[a].at \in Nat /\ series[k].at \in Nat /\ series[k - 1].at \in Nat
      BY <1>2, <1>4
    <2>3. series[a].at <= series[k - 1].at
      BY <1>3, <1>5
    <2>4. series[k - 1].at < series[k].at
      BY <1>3
    <2> DEFINE x == series[a].at
               y == series[k].at
               z == series[k - 1].at
    <2>5. x \in Nat /\ y \in Nat /\ z \in Nat
      BY <2>2
    <2>6. x >= y /\ x <= z /\ z < y
      BY <2>1, <2>3, <2>4
    <2> HIDE DEF x, y, z
    <2> QED BY <2>5, <2>6
  <1>7. k <= b
    <2> SUFFICES ASSUME b <= k - 1 PROVE FALSE
      BY <1>4
    <2>1. series[b].at <= series[k - 1].at
      <3>1. CASE b = k - 1
        BY <1>2, <1>4, <3>1
      <3>2. CASE b < k - 1
        BY <1>1, <1>2, <1>4, <3>2
      <3> QED BY <1>4, <3>1, <3>2
    <2>2. series[b].at \in Nat /\ series[k].at \in Nat /\ series[k - 1].at \in Nat
      BY <1>2, <1>4
    <2>3. series[k].at <= series[b].at
      BY <1>3, <1>5
    <2>4. series[k - 1].at < series[k].at
      BY <1>3
    <2> DEFINE x == series[b].at
               y == series[k].at
               z == series[k - 1].at
    <2>5. x \in Nat /\ y \in Nat /\ z \in Nat
      BY <2>2
    <2>6. x <= z /\ y <= x /\ z < y
      BY <2>1, <2>3, <2>4
    <2> HIDE DEF x, y, z
    <2> QED BY <2>5, <2>6
  <1>8. k \in a + 1 .. b
    BY <1>4, <1>6, <1>7
  <1>9. segments(series)[a].segment # segments(series)[b].segment
    BY <1>1, <1>3, <1>4, <1>8, SegmentsPart
  <1> QED BY <1>3, <1>4, <1>9

\* No chart of any window hides an outage, the greatest or the least backlog,
\* for any limits, bins, samples and cadences (backlog.rs aggregate).
THEOREM ChartsAreHonest == Spec => []ChartHonest
  <1>1. StoreInvariant => ChartHonest
    <2> SUFFICES ASSUME StoreInvariant, NEW w \in Windows
                 PROVE  /\ Extremes(Window(w[1], w[2]))
                              = Extremes([k \in DOMAIN aggregate(Window(w[1], w[2]), w[1], w[2])
                                   |-> aggregate(Window(w[1], w[2]), w[1], w[2])[k].sample])
                        /\ GapsKept(Window(w[1], w[2]),
                                    aggregate(Window(w[1], w[2]), w[1], w[2]))
      BY DEF ChartHonest
    <2> DEFINE from == w[1]
               to == w[2]
               series == Window(from, to)
               chart == aggregate(series, from, to)
    <2>1. from \in Nat /\ to \in Nat /\ from < to
      BY HistoryAssumption DEF Windows
    <2>2. InOrder(series, from, to)
      BY WindowRows DEF StoreInvariant, StoreType, InOrder
    <2> HIDE DEF from, to
    <2>3. series \in Seq(SampleRows)
      BY <2>2 DEF InOrder
    <2> HIDE DEF series
    <2>4. PICK idx : Shape(idx, chart, series)
      BY <2>1, <2>2, ChartShape
    <2> HIDE DEF chart
    <2>5. Extremes(series) = Extremes([k \in DOMAIN chart |-> chart[k].sample])
      BY <2>3, <2>4, ExtremesKept
    <2>6. GapsKept(series, chart)
      BY <2>1, <2>2, <2>4, GapsAreKept
    <2> QED BY <2>5, <2>6 DEF series, chart, from, to
  <1> QED BY <1>1, StoreInit, StoreNext, PTL DEF Spec
=============================================================================
