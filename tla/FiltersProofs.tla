---------------------------- MODULE FiltersProofs ----------------------------
(* What Filters' loops return, for every list. *)
EXTENDS Filters, WellFoundedInduction, TLAPS

\* A non-empty set of natural numbers has a least element: induction, for a
\* property that is given as the set of the numbers that do not have it.
LEMMA Least ==
  ASSUME NEW S \in SUBSET Nat, S # {}
  PROVE  \E n \in S : \A m \in S : n <= m
<1> DEFINE R == {ss \in Nat \X Nat : ss[1] < ss[2]}
<1>1. IsWellFoundedOn(R, Nat)
  BY NatLessThanWellFounded DEF OpToRel
<1>2. PICK n \in S : \A m \in S : ~(<<m, n>> \in R)
  <2> HIDE DEF R
  <2> QED BY <1>1, WFMin
<1>3. ASSUME NEW m \in S PROVE n <= m
  <2>1. m \in Nat /\ n \in Nat /\ ~(<<m, n>> \in R)
    BY <1>2
  <2> QED BY <2>1
<1> QED BY <1>3

\* Induction up to N over a set of numbers.
LEMMA UpTo ==
  ASSUME NEW N \in Nat, NEW T, 0 \in T,
         \A n \in 0..N : n # N /\ n \in T => n + 1 \in T
  PROVE  0..N \subseteq T
<1> DEFINE S == (0..N) \ T
<1> SUFFICES ASSUME S # {} PROVE FALSE
  OBVIOUS
<1>1. PICK n \in S : \A m \in S : n <= m
  <2>1. S \in SUBSET Nat
    OBVIOUS
  <2> HIDE DEF S
  <2> QED BY <2>1, Least
<1>2. n \in 1..N /\ n \notin T
  BY <1>1
<1>3. n - 1 \in 0..N /\ n - 1 # N
  BY <1>2
<1>4. n - 1 \in T
  <2>1. CASE n - 1 \in S
    <3>1. n <= n - 1
      BY <1>1, <2>1
    <3> QED BY <1>2, <3>1
  <2> QED BY <1>3, <2>1
<1>5. (n - 1) + 1 \in T /\ (n - 1) + 1 = n
  BY <1>2, <1>3, <1>4
<1> QED BY <1>2, <1>5

\* The loop of Filter, place by place.
LEMMA FilterLoop ==
  ASSUME NEW S, NEW s \in Seq(S), NEW keep
  PROVE  \E part \in [0..Len(s) -> Seq(S)] :
            /\ Filter(s, keep) = part[Len(s)]
            /\ part[0] = <<>>
            /\ \A n \in 1..Len(s) :
                 part[n] = IF n \in keep THEN Append(part[n - 1], s[n]) ELSE part[n - 1]
<1> DEFINE N == Len(s)
           more(g, n) == IF n = 0 THEN <<>>
                         ELSE IF n \in keep THEN Append(g[n - 1], s[n])
                         ELSE g[n - 1]
           body(g) == [n \in 0..N |-> more(g, n)]
           T == {n \in 0..N : \E g \in [0..n -> Seq(S)] : \A i \in 0..n : g[i] = more(g, i)}
           part == CHOOSE g : g = body(g)
<1>1. N \in Nat /\ \A n \in 1..N : s[n] \in S
  OBVIOUS
<1>2. 0..N \subseteq T
  <2>1. 0 \in T
    <3> DEFINE g == [i \in 0..0 |-> <<>>]
    <3>1. g \in [0..0 -> Seq(S)] /\ \A i \in 0..0 : g[i] = more(g, i)
      OBVIOUS
    <3> HIDE DEF g, more
    <3>2. 0 \in 0..N
      BY <1>1
    <3> QED BY <3>1, <3>2
  <2>2. ASSUME NEW n \in 0..N, n # N, n \in T PROVE n + 1 \in T
    <3>1. PICK g \in [0..n -> Seq(S)] : \A i \in 0..n : g[i] = more(g, i)
      BY <2>2
    <3> DEFINE h == [i \in 0..(n + 1) |-> IF i = n + 1 THEN more(g, n + 1) ELSE g[i]]
    <3>2. n + 1 \in 1..N /\ n \in Nat /\ n \in 0..n
      BY <1>1, <2>2
    <3>3. g[n] \in Seq(S) /\ s[n + 1] \in S
      BY <1>1, <3>1, <3>2
    <3>4. more(g, n + 1) \in Seq(S)
      <4>1. more(g, n + 1) = IF n + 1 \in keep THEN Append(g[n], s[n + 1]) ELSE g[n]
        BY <3>2
      <4>2. \A q \in Seq(S), e \in S : Append(q, e) \in Seq(S)
        OBVIOUS
      <4>3. Append(g[n], s[n + 1]) \in Seq(S)
        BY <3>3, <4>2
      <4> HIDE DEF more
      <4> QED BY <3>3, <4>1, <4>3
    <3>5. h \in [0..(n + 1) -> Seq(S)]
      <4> HIDE DEF more
      <4> QED BY <3>1, <3>2, <3>4
    <3>6. \A i \in 0..(n + 1) : h[i] = more(h, i)
      <4> SUFFICES ASSUME NEW i \in 0..(n + 1) PROVE h[i] = more(h, i)
        OBVIOUS
      <4>1. i # 0 => i - 1 \in 0..n /\ h[i - 1] = g[i - 1]
        BY <3>2
      <4>2. more(h, i) = more(g, i)
        BY <4>1
      <4>3. h[i] = more(g, i)
        <5>1. CASE i = n + 1
          BY <5>1
        <5>2. CASE i # n + 1
          <6>1. i \in 0..n
            BY <3>2, <5>2
          <6>2. h[i] = g[i]
            BY <5>2
          <6> HIDE DEF h, more
          <6> QED BY <3>1, <6>1, <6>2
        <5> QED BY <5>1, <5>2
      <4> QED BY <4>2, <4>3
    <3>7. n + 1 \in 0..N
      BY <3>2
    <3> HIDE DEF h, more
    <3> QED BY <3>5, <3>6, <3>7
  <2> HIDE DEF T
  <2> QED BY <1>1, <2>1, <2>2, UpTo
<1>3. \E g : g = body(g)
  <2>1. N \in T
    <3>1. N \in 0..N
      BY <1>1
    <3> HIDE DEF T, N
    <3> QED BY <1>2, <3>1
  <2>2. PICK g \in [0..N -> Seq(S)] : \A i \in 0..N : g[i] = more(g, i)
    BY <2>1
  <2>3. g = body(g)
    <3> HIDE DEF more
    <3> QED BY <2>2
  <2> QED BY <2>3
<1>4. part = body(part)
  <2> HIDE DEF body
  <2> QED BY <1>3
<1>5. Filter(s, keep) = part[N]
  BY DEF Filter
<1> HIDE DEF part
<1>6. \A n \in 0..N : part[n] = more(part, n)
  <2> HIDE DEF more
  <2> QED BY <1>4
<1> DEFINE U == {n \in 0..N : part[n] \in Seq(S)}
<1>7. 0..N \subseteq U
  <2>1. 0 \in U
    <3>1. 0 \in 0..N /\ more(part, 0) = <<>>
      BY <1>1
    <3>2. part[0] = <<>>
      <4> HIDE DEF more
      <4> QED BY <1>6, <3>1
    <3>3. <<>> \in Seq(S)
      OBVIOUS
    <3> QED BY <3>1, <3>2, <3>3
  <2>2. ASSUME NEW n \in 0..N, n # N, n \in U PROVE n + 1 \in U
    <3>1. n + 1 \in 0..N /\ n + 1 \in 1..N
      BY <1>1, <2>2
    <3>2. part[n] \in Seq(S) /\ s[n + 1] \in S
      BY <1>1, <2>2, <3>1
    <3>3. part[n + 1] = IF n + 1 \in keep THEN Append(part[n], s[n + 1]) ELSE part[n]
      BY <1>6, <3>1
    <3>4. \A q \in Seq(S), e \in S : Append(q, e) \in Seq(S)
      OBVIOUS
    <3>5. Append(part[n], s[n + 1]) \in Seq(S)
      BY <3>2, <3>4
    <3>6. part[n + 1] \in Seq(S)
      BY <3>2, <3>3, <3>5
    <3> QED BY <3>1, <3>6
  <2> HIDE DEF U
  <2> QED BY <1>1, <2>1, <2>2, UpTo
<1>8. part \in [0..N -> Seq(S)]
  <2> HIDE DEF more
  <2> QED BY <1>4, <1>7
<1>9. part[0] = <<>> /\ \A n \in 1..N :
         part[n] = IF n \in keep THEN Append(part[n - 1], s[n]) ELSE part[n - 1]
  BY <1>1, <1>6
<1> QED BY <1>5, <1>8, <1>9

\* What Filter returns has its elements from the places of keep, in their order:
\* at(k) is where the k-th element of the result was.
LEMMA FilterPlaces ==
  ASSUME NEW S, NEW s \in Seq(S), NEW keep
  PROVE  /\ Filter(s, keep) \in Seq(S)
         /\ \E at \in [1..Len(Filter(s, keep)) -> (1..Len(s)) \cap keep] :
               /\ \A k \in 1..Len(Filter(s, keep)) : Filter(s, keep)[k] = s[at[k]]
               /\ \A j, k \in 1..Len(Filter(s, keep)) : j < k => at[j] < at[k]
               /\ \A i \in (1..Len(s)) \cap keep : \E k \in 1..Len(Filter(s, keep)) : at[k] = i
<1> DEFINE N == Len(s)
<1>1. N \in Nat /\ \A n \in 1..N : s[n] \in S
  OBVIOUS
<1>2. PICK part \in [0..N -> Seq(S)] :
         /\ Filter(s, keep) = part[N]
         /\ part[0] = <<>>
         /\ \A n \in 1..N :
              part[n] = IF n \in keep THEN Append(part[n - 1], s[n]) ELSE part[n - 1]
  BY FilterLoop
<1> DEFINE L(n) == Len(part[n])
           Good(n, at) ==
              /\ at \in [1..L(n) -> (1..n) \cap keep]
              /\ \A k \in 1..L(n) : part[n][k] = s[at[k]]
              /\ \A j, k \in 1..L(n) : j < k => at[j] < at[k]
              /\ \A i \in (1..n) \cap keep : \E k \in 1..L(n) : at[k] = i
           T == {n \in 0..N : \E at : Good(n, at)}
<1>3. 0 \in T
  <2> DEFINE at == [k \in 1..0 |-> 0]
  <2>1. L(0) = 0 /\ 0 \in 0..N
    BY <1>1, <1>2
  <2>2. Good(0, at)
    BY <2>1
  <2> HIDE DEF Good
  <2> QED BY <2>1, <2>2
<1>4. ASSUME NEW n \in 0..N, n # N, n \in T PROVE n + 1 \in T
  <2>1. PICK at : Good(n, at)
    BY <1>4
  <2>2. n + 1 \in 1..N /\ n + 1 \in 0..N /\ n \in Nat /\ n + 1 \in 1..(n + 1)
    BY <1>1, <1>4
  <2>3. part[n] \in Seq(S) /\ s[n + 1] \in S /\ L(n) \in Nat
    BY <1>1, <1>2, <2>2
  <2>4. (n + 1) - 1 = n
    BY <2>2
  <2>5. CASE n + 1 \in keep
    <3>1. part[n + 1] = Append(part[n], s[n + 1])
      BY <1>2, <2>2, <2>4, <2>5
    <3>2. /\ L(n + 1) = L(n) + 1
          /\ \A k \in 1..L(n) : part[n + 1][k] = part[n][k]
          /\ part[n + 1][L(n) + 1] = s[n + 1]
      BY <2>3, <3>1
    <3> DEFINE m == L(n)
               to == [k \in 1..(m + 1) |-> IF k = m + 1 THEN n + 1 ELSE at[k]]
    <3>3. /\ m \in Nat /\ L(n + 1) = m + 1
          /\ at \in [1..m -> (1..n) \cap keep]
          /\ \A k \in 1..m : part[n][k] = s[at[k]]
          /\ \A j, k \in 1..m : j < k => at[j] < at[k]
          /\ \A i \in (1..n) \cap keep : \E k \in 1..m : at[k] = i
          /\ \A k \in 1..m : part[n + 1][k] = part[n][k]
          /\ part[n + 1][m + 1] = s[n + 1]
      BY <2>1, <2>3, <3>2
    <3> HIDE DEF L, m, Good
    <3>4. to \in [1..(m + 1) -> (1..(n + 1)) \cap keep]
      BY <2>2, <2>5, <3>3
    <3>5. \A k \in 1..(m + 1) : part[n + 1][k] = s[to[k]]
      BY <3>3
    <3>6. \A j, k \in 1..(m + 1) : j < k => to[j] < to[k]
      <4> SUFFICES ASSUME NEW j \in 1..(m + 1), NEW k \in 1..(m + 1), j < k
                   PROVE  to[j] < to[k]
        OBVIOUS
      <4>1. j \in 1..m /\ to[j] = at[j] /\ at[j] \in 1..n
        BY <3>3
      <4>2. CASE k = m + 1
        BY <2>2, <4>1, <4>2
      <4>3. CASE k # m + 1
        <5>1. k \in 1..m /\ to[k] = at[k]
          BY <3>3, <4>3
        <5> QED BY <3>3, <4>1, <5>1
      <4> QED BY <4>2, <4>3
    <3>7. ASSUME NEW i \in (1..(n + 1)) \cap keep
          PROVE  \E k \in 1..(m + 1) : to[k] = i
      <4>1. CASE i = n + 1
        <5>1. m + 1 \in 1..(m + 1) /\ to[m + 1] = n + 1
          BY <3>3
        <5> QED BY <4>1, <5>1
      <4>2. CASE i # n + 1
        <5>1. i \in (1..n) \cap keep
          BY <2>2, <4>2
        <5>2. PICK k \in 1..m : at[k] = i
          BY <3>3, <5>1
        <5>3. k \in 1..(m + 1) /\ to[k] = at[k]
          BY <3>3, <5>2
        <5> QED BY <5>2, <5>3
      <4> QED BY <4>1, <4>2
    <3>8. Good(n + 1, to)
      <4> HIDE DEF to
      <4> QED BY <3>3, <3>4, <3>5, <3>6, <3>7 DEF Good
    <3> QED BY <2>2, <3>8
  <2>6. CASE n + 1 \notin keep
    <3>1. part[n + 1] = part[n]
      BY <1>2, <2>2, <2>4, <2>6
    <3>2. (1..(n + 1)) \cap keep = (1..n) \cap keep
      BY <2>2, <2>6
    <3>3. Good(n + 1, at)
      BY <2>1, <3>1, <3>2
    <3> HIDE DEF Good
    <3> QED BY <2>2, <3>3
  <2> QED BY <2>5, <2>6
<1>5. N \in T
  <2> HIDE DEF T
  <2>1. 0..N \subseteq T
    BY <1>1, <1>3, <1>4, UpTo
  <2> QED BY <1>1, <2>1
<1>6. PICK at : Good(N, at)
  BY <1>5
<1>7. part[N] \in Seq(S)
  BY <1>1, <1>2
<1>8. PICK f : f = Filter(s, keep)
  OBVIOUS
<1>9. f = part[N]
  BY <1>2, <1>8
<1> HIDE DEF T
<1>10. /\ at \in [1..Len(f) -> (1..Len(s)) \cap keep]
       /\ \A k \in 1..Len(f) : f[k] = s[at[k]]
       /\ \A j, k \in 1..Len(f) : j < k => at[j] < at[k]
       /\ \A i \in (1..Len(s)) \cap keep : \E k \in 1..Len(f) : at[k] = i
  BY <1>6, <1>9
<1>11. f \in Seq(S)
  BY <1>7, <1>9
<1> HIDE DEF N, L, Good
<1> QED BY <1>8, <1>10, <1>11

\* All but the last place keep all but the last element.
LEMMA FilterFront ==
  ASSUME NEW T, NEW s \in Seq(T), NEW keep
  PROVE  \A n \in Nat : Len(s) = n + 1 /\ n + 1 \notin keep /\ 1..n \subseteq keep =>
            /\ Filter(s, keep) \in Seq(T) /\ Len(Filter(s, keep)) = n
            /\ \A k \in 1..n : Filter(s, keep)[k] = s[k]
<1>1. PICK part \in [0..Len(s) -> Seq(T)] :
         /\ Filter(s, keep) = part[Len(s)]
         /\ part[0] = <<>>
         /\ \A k \in 1..Len(s) :
              part[k] = IF k \in keep THEN Append(part[k - 1], s[k]) ELSE part[k - 1]
  BY FilterLoop
<1> SUFFICES ASSUME NEW n \in Nat, Len(s) = n + 1, n + 1 \notin keep, 1..n \subseteq keep
             PROVE  /\ Filter(s, keep) \in Seq(T) /\ Len(Filter(s, keep)) = n
                    /\ \A k \in 1..n : Filter(s, keep)[k] = s[k]
  OBVIOUS
<1> DEFINE U == {k \in 0..n : Len(part[k]) = k /\ \A j \in 1..k : part[k][j] = s[j]}
<1>2. 0 \in U
  BY <1>1
<1>3. ASSUME NEW k \in 0..n, k # n, k \in U PROVE k + 1 \in U
  <2>1. k + 1 \in 1..n /\ k + 1 \in 1..Len(s) /\ (k + 1) - 1 = k /\ k \in 0..Len(s)
        /\ k + 1 \in 0..n
    BY <1>3
  <2>2. part[k + 1] = Append(part[k], s[k + 1])
    BY <1>1, <2>1
  <2>3. PICK p : p = part[k]
    OBVIOUS
  <2>4. p \in Seq(T) /\ Len(p) = k /\ \A j \in 1..k : p[j] = s[j]
    BY <1>1, <1>3, <2>1, <2>3
  <2>5. PICK e \in T : e = s[k + 1]
    BY <2>1
  <2>6. Len(Append(p, e)) = k + 1 /\ \A j \in 1..(k + 1) : Append(p, e)[j] = s[j]
    BY <2>1, <2>4, <2>5
  <2> QED BY <2>1, <2>2, <2>3, <2>5, <2>6
<1>4. n \in U
  <2> HIDE DEF U
  <2>1. 0..n \subseteq U
    BY <1>2, <1>3, UpTo
  <2> QED BY <2>1
<1>5. part[n + 1] = part[n] /\ n \in 0..Len(s)
  <2>1. n + 1 \in 1..Len(s) /\ (n + 1) - 1 = n
    OBVIOUS
  <2> QED BY <1>1, <2>1
<1> QED BY <1>1, <1>4, <1>5
=============================================================================
