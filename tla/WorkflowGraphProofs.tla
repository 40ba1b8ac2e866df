------------------------- MODULE WorkflowGraphProofs -------------------------
(* The executor and the operations that resume it keep IInv, for every graph   *)
(* that validation accepts. The first two parts are about the functions of the *)
(* graph: what each returns for any list of stages.                            *)
EXTENDS WorkflowGraph, FiltersProofs, FiniteSetTheorems

------------------------------------------------------------------------------
(* Lists                                                                   *)

\* A part of a list has elements of the list.
LEMMA FilterSeq ==
  ASSUME NEW T, NEW s \in Seq(T), NEW keep
  PROVE  Filter(s, keep) \in Seq(T)
BY FilterPlaces

\* The loop of FlattenSeq, list by list.
LEMMA FlattenLoop ==
  ASSUME NEW T, NEW ss \in Seq(Seq(T)), ss # <<>>
  PROVE  \E part \in [1..Len(ss) -> Seq(T)] :
            /\ FlattenSeq(ss) = part[Len(ss)]
            /\ part[1] = ss[1]
            /\ \A n \in 2..Len(ss) : part[n] = part[n - 1] \o ss[n]
<1> DEFINE M == Len(ss)
           more(g, n) == IF n = 1 THEN ss[n] ELSE g[n - 1] \o ss[n]
           body(g) == [n \in 1..M |-> more(g, n)]
           V == {n \in 0..M : \E g \in [1..n -> Seq(T)] : \A i \in 1..n : g[i] = more(g, i)}
           part == CHOOSE g : g = body(g)
<1>1. M \in Nat /\ M # 0 /\ \A n \in 1..M : ss[n] \in Seq(T)
  OBVIOUS
<1>2. 0..M \subseteq V
  <2>1. 0 \in V
    <3> DEFINE g == [i \in 1..0 |-> <<>>]
    <3>1. g \in [1..0 -> Seq(T)] /\ \A i \in 1..0 : g[i] = more(g, i)
      OBVIOUS
    <3> HIDE DEF g, more
    <3>2. 0 \in 0..M
      BY <1>1
    <3> QED BY <3>1, <3>2
  <2>2. ASSUME NEW n \in 0..M, n # M, n \in V PROVE n + 1 \in V
    <3>1. PICK g \in [1..n -> Seq(T)] : \A i \in 1..n : g[i] = more(g, i)
      BY <2>2
    <3> DEFINE h == [i \in 1..(n + 1) |-> IF i = n + 1 THEN more(g, n + 1) ELSE g[i]]
    <3>2. n + 1 \in 1..M /\ n \in Nat
      BY <1>1, <2>2
    <3>3. more(g, n + 1) \in Seq(T)
      <4>1. ss[n + 1] \in Seq(T)
        BY <1>1, <3>2
      <4>2. CASE n = 0
        BY <4>1, <4>2
      <4>3. CASE n # 0
        <5>1. g[n] \in Seq(T)
          BY <3>1, <3>2, <4>3
        <5>2. \A a, b \in Seq(T) : a \o b \in Seq(T)
          OBVIOUS
        <5>3. n + 1 # 1 /\ (n + 1) - 1 = n
          BY <3>2, <4>3
        <5>4. more(g, n + 1) = g[n] \o ss[n + 1]
          BY <5>3
        <5> HIDE DEF more
        <5> QED BY <4>1, <5>1, <5>2, <5>4
      <4> QED BY <4>2, <4>3
    <3>4. h \in [1..(n + 1) -> Seq(T)]
      <4> HIDE DEF more
      <4> QED BY <3>1, <3>2, <3>3
    <3>5. \A i \in 1..(n + 1) : h[i] = more(h, i)
      <4> SUFFICES ASSUME NEW i \in 1..(n + 1) PROVE h[i] = more(h, i)
        OBVIOUS
      <4>1. i # 1 => i - 1 \in 1..n /\ h[i - 1] = g[i - 1]
        BY <3>2
      <4>2. more(h, i) = more(g, i)
        BY <4>1
      <4>3. h[i] = more(g, i)
        <5>1. CASE i = n + 1
          BY <5>1
        <5>2. CASE i # n + 1
          <6>1. i \in 1..n /\ h[i] = g[i]
            BY <3>2, <5>2
          <6> HIDE DEF h, more
          <6> QED BY <3>1, <6>1
        <5> QED BY <5>1, <5>2
      <4> QED BY <4>2, <4>3
    <3>6. n + 1 \in 0..M
      BY <3>2
    <3> HIDE DEF h, more
    <3> QED BY <3>4, <3>5, <3>6
  <2> HIDE DEF V
  <2> QED BY <1>1, <2>1, <2>2, UpTo
<1>3. PICK f \in [1..M -> Seq(T)] : \A i \in 1..M : f[i] = more(f, i)
  <2>1. M \in V
    <3> HIDE DEF V, M
    <3> QED BY <1>1, <1>2
  <2> QED BY <2>1
<1>4. \E g : g = body(g)
  <2>1. f = body(f)
    <3> HIDE DEF more
    <3> QED BY <1>3
  <2> QED BY <2>1
<1>5. part = body(part)
  <2> HIDE DEF body
  <2> QED BY <1>4
<1>6. FlattenSeq(ss) = part[M]
  BY <1>1 DEF FlattenSeq
<1> HIDE DEF part
<1>7. \A n \in 1..M : part[n] = more(part, n)
  <2> HIDE DEF more
  <2> QED BY <1>5
<1> DEFINE U == {n \in 0..M : n # 0 => part[n] = f[n]}
<1>8. 0..M \subseteq U
  <2>1. 0 \in U
    BY <1>1
  <2>2. ASSUME NEW n \in 0..M, n # M, n \in U PROVE n + 1 \in U
    <3>1. n + 1 \in 1..M /\ n \in Nat
      BY <1>1, <2>2
    <3>2. more(part, n + 1) = more(f, n + 1)
      BY <2>2, <3>1
    <3>3. part[n + 1] = f[n + 1]
      <4> HIDE DEF more
      <4> QED BY <1>3, <1>7, <3>1, <3>2
    <3> QED BY <3>1, <3>3
  <2> HIDE DEF U
  <2> QED BY <1>1, <2>1, <2>2, UpTo
<1>9. part = f
  <2>1. ASSUME NEW n \in 1..M PROVE part[n] = f[n]
    <3>1. n \in 0..M /\ n # 0
      BY <1>1
    <3> QED BY <1>8, <3>1
  <2>2. part = [n \in 1..M |-> part[n]]
    <3> HIDE DEF more
    <3> QED BY <1>5
  <2>3. part = [n \in 1..M |-> f[n]]
    BY <2>1, <2>2
  <2> HIDE DEF M
  <2> QED BY <1>3, <2>3
<1>10. f[1] = ss[1] /\ \A n \in 2..M : f[n] = f[n - 1] \o ss[n]
  <2>1. ASSUME NEW n \in 1..M PROVE f[n] = IF n = 1 THEN ss[n] ELSE f[n - 1] \o ss[n]
    BY <1>3
  <2>2. 1 \in 1..M /\ \A n \in 2..M : n \in 1..M /\ n # 1
    BY <1>1
  <2> HIDE DEF M
  <2> QED BY <2>1, <2>2
<1> QED BY <1>3, <1>6, <1>9, <1>10

\* Lists of elements of T, one after the other, are a list of elements of T.
LEMMA FlattenType ==
  ASSUME NEW T, NEW ss \in Seq(Seq(T))
  PROVE  FlattenSeq(ss) \in Seq(T)
<1>1. CASE ss = <<>>
  <2>1. Len(ss) = 0 /\ <<>> \in Seq(T)
    BY <1>1
  <2> QED BY <1>1, <2>1 DEF FlattenSeq
<1>2. CASE ss # <<>>
  <2>1. PICK part \in [1..Len(ss) -> Seq(T)] : FlattenSeq(ss) = part[Len(ss)]
    BY <1>2, FlattenLoop
  <2>2. Len(ss) \in 1..Len(ss)
    BY <1>2
  <2> QED BY <2>1, <2>2
<1> QED BY <1>1, <1>2

\* The values up to round n, each computed from the one before.
Iterates(g, n, D, first, step) ==
  /\ g \in [0..n -> D] /\ g[0] = first
  /\ \A j \in 1..n : g[j] = step[g[j - 1]]

LEMMA Rounds ==
  ASSUME NEW M \in Nat, NEW D, NEW first \in D, NEW step \in [D -> D]
  PROVE  \E g : Iterates(g, M, D, first, step)
<1> DEFINE Good(g, n) == Iterates(g, n, D, first, step)
           V == {n \in 0..M : \E g : Good(g, n)}
<1>1. 0 \in V
  <2>1. Good([n \in 0..0 |-> first], 0)
    BY DEF Iterates
  <2> HIDE DEF Good
  <2> QED BY <2>1
<1>2. ASSUME NEW n \in 0..M, n # M, n \in V PROVE n + 1 \in V
  <2>1. PICK g : Good(g, n)
    BY <1>2
  <2> DEFINE h == [j \in 0..(n + 1) |-> IF j = n + 1 THEN step[g[n]] ELSE g[j]]
  <2>2. n \in Nat /\ n + 1 \in 0..M /\ n \in 0..n
    BY <1>2
  <2>3. g[n] \in D /\ step[g[n]] \in D
    BY <2>1, <2>2 DEF Iterates
  <2>4. h \in [0..(n + 1) -> D] /\ h[0] = first
    BY <2>1, <2>2, <2>3 DEF Iterates
  <2>5. ASSUME NEW j \in 1..(n + 1) PROVE h[j] = step[h[j - 1]]
    <3>1. j - 1 \in 0..n /\ h[j - 1] = g[j - 1]
      BY <2>2
    <3>2. CASE j = n + 1
      BY <2>2, <3>1, <3>2
    <3>3. CASE j # n + 1
      BY <2>1, <2>2, <3>1, <3>3 DEF Iterates
    <3> QED BY <3>2, <3>3
  <2>6. Good(h, n + 1)
    <3> HIDE DEF h
    <3> QED BY <2>4, <2>5 DEF Iterates
  <2> HIDE DEF Good, h
  <2> QED BY <2>2, <2>6
<1>3. M \in V
  <2> HIDE DEF V
  <2>1. 0..M \subseteq V
    BY <1>1, <1>2, UpTo
  <2> QED BY <2>1
<1> QED BY <1>3

------------------------------------------------------------------------------
(* Graphs                                                                  *)

\* What validation says of the graph of a run.
LEMMA GraphFacts ==
  ASSUME graph \in Graphs
  PROVE  /\ N \in Nat \ {0}
         /\ \A i \in Indices :
              /\ S(i).strategy \in {"all", "handoff", "select"}
              /\ S(i).next \in Seq(Indices) /\ S(i).onError \in Seq(Indices)
              /\ S(i).routes \subseteq Indices \cup {Fallthrough, Nowhere, Halts}
              /\ S(i).reroute \in Indices \cup {0}
              /\ S(i).kind = "repeat" => S(i).body \in Indices /\ S(i).rounds \in Nat
BY GraphsAssumption DEF ValidGraph, N, S, Indices

\* The parts of a result.
LEMMA ResultType ==
  \A i \in Indices, it \in Nat :
     /\ Name(i, it) \in Names /\ Name(i, it)[1] = i /\ Name(i, it)[2] = it
     /\ \A st \in {"completed", "incomplete", "blocked", "error", "denied"} :
          /\ Result(i, it, st) \in Records
          /\ \A t \in SUBSET Indices : [Result(i, it, st) EXCEPT !.target = t] \in Records
BY DEF Result, Records, Names, Name

\* The stages that have results are stages.
LEMMA SeenInType ==
  \A c \in Seq(Records) : SeenIn(c) \subseteq Indices
<1> SUFFICES ASSUME NEW c \in Seq(Records), NEW k \in DOMAIN c PROVE c[k].name[1] \in Indices
  BY DEF SeenIn
<1>1. c[k] \in Records
  OBVIOUS
<1> QED BY <1>1 DEF Records, Names

LEMMA NamedType ==
  \A q \in Seq(Indices) : \A c : Named(q, c) \in Seq(Indices)
<1> SUFFICES ASSUME NEW q \in Seq(Indices), NEW c PROVE Named(q, c) \in Seq(Indices)
  OBVIOUS
<1>1. PICK all : all = Indices
  OBVIOUS
<1> QED BY <1>1, FilterSeq DEF Named

\* It finds nothing in an empty list.
LEMMA NamedNone == \A c : Named(<<>>, c) = <<>>
<1> SUFFICES ASSUME NEW c PROVE Named(<<>>, c) = <<>>
  OBVIOUS
<1> DEFINE keep == {n \in DOMAIN <<>> : /\ <<>>[n] \notin SeenIn(c)
                                       /\ \A j \in 1..(n - 1) : <<>>[j] # <<>>[n]}
<1>1. PICK all, none, places : all = Indices /\ none = <<>> /\ places = keep
  OBVIOUS
<1> HIDE DEF keep
<1>2. PICK out : out = Filter(none, places)
  OBVIOUS
<1>3. /\ Filter(none, places) \in Seq(all)
      /\ \E at \in [1..Len(Filter(none, places)) -> (1..Len(none)) \cap places] :
            \A k \in 1..Len(Filter(none, places)) : Filter(none, places)[k] = none[at[k]]
  <2>1. none \in Seq(all)
    BY <1>1
  <2> QED BY <2>1, FilterPlaces
<1>4. /\ out \in Seq(all)
      /\ \E at \in [1..Len(out) -> (1..Len(none)) \cap places] :
            \A k \in 1..Len(out) : out[k] = none[at[k]]
  BY <1>2, <1>3
<1>5. Len(out) = 0
  <2>1. Len(out) \in Nat /\ \A k \in 1..Len(out) : FALSE
    <3>1. PICK at \in [1..Len(out) -> (1..Len(none)) \cap places] : TRUE
      BY <1>4
    <3>2. \A k \in 1..Len(out) : at[k] \in 1..Len(none)
      BY <3>1
    <3>3. Len(none) = 0
      BY <1>1
    <3> QED BY <1>4, <3>2, <3>3
  <2> QED BY <2>1
<1>6. out = <<>>
  BY <1>4, <1>5
<1>7. Filter(<<>>, keep) = <<>>
  BY <1>1, <1>2, <1>6
<1> QED BY <1>7 DEF Named, keep

\* None of the stages it finds has a result.
LEMMA NamedFresh ==
  \A q \in Seq(Indices) : \A c : \A k \in DOMAIN Named(q, c) : Named(q, c)[k] \notin SeenIn(c)
<1> SUFFICES ASSUME NEW q \in Seq(Indices), NEW c, NEW k \in DOMAIN Named(q, c)
             PROVE  Named(q, c)[k] \notin SeenIn(c)
  OBVIOUS
<1> DEFINE keep == {n \in DOMAIN q : /\ q[n] \notin SeenIn(c)
                                    /\ \A j \in 1..(n - 1) : q[j] # q[n]}
<1>1. PICK all, places : all = Indices /\ places = keep
  OBVIOUS
<1>2. PICK new : new = Filter(q, places)
  OBVIOUS
<1>3. new = Named(q, c)
  BY <1>1, <1>2 DEF Named
<1>4. /\ new \in Seq(all)
      /\ \E at \in [1..Len(new) -> (1..Len(q)) \cap places] :
            \A m \in 1..Len(new) : new[m] = q[at[m]]
  <2>1. q \in Seq(all)
    BY <1>1
  <2>2. /\ Filter(q, places) \in Seq(all)
        /\ \E at \in [1..Len(Filter(q, places)) -> (1..Len(q)) \cap places] :
              \A m \in 1..Len(Filter(q, places)) : Filter(q, places)[m] = q[at[m]]
    BY <2>1, FilterPlaces
  <2> QED BY <1>2, <2>2
<1>5. PICK at \in [1..Len(new) -> (1..Len(q)) \cap places] :
         \A m \in 1..Len(new) : new[m] = q[at[m]]
  BY <1>4
<1>6. k \in 1..Len(new)
  BY <1>3, <1>4
<1>7. at[k] \in keep /\ new[k] = q[at[k]]
  BY <1>1, <1>5, <1>6
<1> QED BY <1>3, <1>7

LEMMA UniqueType ==
  \A q \in Seq(Indices) : Unique(q) \in Seq(Indices)
<1> SUFFICES ASSUME NEW q \in Seq(Indices) PROVE Unique(q) \in Seq(Indices)
  OBVIOUS
<1>1. PICK all : all = Indices
  OBVIOUS
<1> QED BY <1>1, FilterSeq DEF Unique

LEMMA WithoutType ==
  \A c \in Seq(Records) : \A name : Without(c, name) \in Seq(Records)
<1> SUFFICES ASSUME NEW c \in Seq(Records), NEW name PROVE Without(c, name) \in Seq(Records)
  OBVIOUS
<1>1. PICK all : all = Records
  OBVIOUS
<1> QED BY <1>1, FilterSeq DEF Without

LEMMA SubsequencesType ==
  \A q \in Seq(Indices) : SubsequencesOf(q) \subseteq Seq(Indices)
<1> SUFFICES ASSUME NEW q \in Seq(Indices), NEW keep PROVE Filter(q, keep) \in Seq(Indices)
  BY DEF SubsequencesOf
<1>1. PICK all : all = Indices
  OBVIOUS
<1> QED BY <1>1, FilterSeq

\* What follows a stage is a list of stages.
LEMMA NextOfType ==
  ASSUME graph \in Graphs
  PROVE  \A i \in Indices : \A c : \A q \in NextOf(i, c) : q \in Seq(Indices)
<1> SUFFICES ASSUME NEW i \in Indices, NEW c, NEW q \in NextOf(i, c) PROVE q \in Seq(Indices)
  OBVIOUS
<1>1. N \in Nat /\ S(i).next \in Seq(Indices) /\ S(i).strategy \in {"all", "handoff", "select"}
  BY GraphFacts
<1>2. Following(i, c) \in Seq(Indices)
  <2>1. Named(S(i).next, c) \in Seq(Indices)
    BY <1>1, NamedType
  <2>2. i < N => i + 1 \in Indices
    BY <1>1 DEF Indices
  <2>3. i < N => <<i + 1>> \in Seq(Indices)
    BY <2>2
  <2> QED BY <2>1, <2>3 DEF Following
<1>3. SubsequencesOf(Following(i, c)) \subseteq Seq(Indices)
  BY <1>2, SubsequencesType
<1>4. q = Following(i, c) \/ q \in SubsequencesOf(Following(i, c))
  BY <1>1 DEF NextOf
<1> QED BY <1>2, <1>3, <1>4

LEMMA BranchesType ==
  ASSUME graph \in Graphs
  PROVE  \A i \in Indices : \A c : \A q \in Branches(i, c) : q \in Seq(Indices)
<1> SUFFICES ASSUME NEW i \in Indices, NEW c, NEW q \in Branches(i, c) PROVE q \in Seq(Indices)
  OBVIOUS
<1>1. CASE S(i).selects
  <2>1. PICK p \in NextOf(i, c) : q \in SubsequencesOf(p)
    BY <1>1 DEF Branches
  <2> QED BY <2>1, NextOfType, SubsequencesType
<1>2. CASE ~S(i).selects
  BY <1>2, NextOfType DEF Branches
<1> QED BY <1>1, <1>2

\* p is a chain from i: it starts there, all but its last stage are among the
\* allowed ones, no stage comes twice, and none but the first has completed.
ChainFrom(p, i, c, allowed) ==
    /\ p \in Seq(Indices) /\ p # <<>> /\ p[1] = i
    /\ \A k \in 1..(Len(p) - 1) : p[k] \in allowed
    /\ \A k \in 2..Len(p) : p[k] \notin SeenIn(c)
    /\ \A j, k \in 1..Len(p) : p[j] = p[k] => j = k

LEMMA ChainFacts ==
  ASSUME graph \in Graphs, NEW i \in Indices, NEW c, NEW allowed
  PROVE  \/ Chain(i, c, allowed) = <<>>
         \/ /\ ChainFrom(Chain(i, c, allowed), i, c, allowed)
            /\ S(i).kind # "join" /\ S(Last(Chain(i, c, allowed))).kind = "join"
<1> DEFINE D == {w \in Seq(Indices) : ChainFrom(w, i, c, allowed)} \cup {<<0>>}
           next(w) == CHOOSE longer \in {Longer(v, c, allowed) : v \in {w}} : TRUE
           step == [w \in D |-> next(w)]
           body(g) == [k \in 0..N |-> IF k = 0 THEN <<i>> ELSE next(g[k - 1])]
           walk == CHOOSE g : g = body(g)
<1>1. N \in Nat /\ 0 \notin Indices
  BY GraphFacts DEF Indices
<1>2. ASSUME NEW w \in D PROVE next(w) \in D
  <2>1. next(w) = Longer(w, c, allowed)
    OBVIOUS
  <2>2. CASE w = <<0>>
    <3>1. Last(w) = 0
      BY <2>2 DEF Last
    <3> QED BY <2>1, <3>1 DEF Longer
  <2>3. CASE w # <<0>>
    <3>1. w \in Seq(Indices) /\ w # <<>> /\ Last(w) \in Indices /\ Last(w) = w[Len(w)]
          /\ ChainFrom(w, i, c, allowed)
      BY <2>3 DEF Last, ChainFrom
    <3>2. Named(S(Last(w)).next, c) \in Seq(Indices)
      BY <3>1, GraphFacts, NamedType
    <3> DEFINE e == Named(S(Last(w)).next, c)[1]
    <3>3. Longer(w, c, allowed) \in {w, <<0>>}
          \/ /\ Longer(w, c, allowed) = Append(w, e)
             /\ Last(w) \in allowed /\ Len(Named(S(Last(w)).next, c)) = 1
             /\ e \notin ToSet(w)
      BY DEF Longer
    <3>4. ASSUME Last(w) \in allowed, Len(Named(S(Last(w)).next, c)) = 1, e \notin ToSet(w)
          PROVE  Append(w, e) \in D
      <4>1. e \in Indices /\ e \notin SeenIn(c)
        <5>1. PICK q : q = S(Last(w)).next
          OBVIOUS
        <5>2. q \in Seq(Indices)
          BY <3>1, <5>1, GraphFacts
        <5>3. \A k \in DOMAIN Named(q, c) : Named(q, c)[k] \notin SeenIn(c)
          BY <5>2, NamedFresh
        <5> QED BY <3>2, <3>4, <5>1, <5>3
      <4>2. PICK x : x = e
        OBVIOUS
      <4> HIDE DEF e
      <4>3. PICK n \in Nat : n = Len(w) /\ n # 0
        BY <3>1
      <4>4. PICK v : v = Append(w, x)
        OBVIOUS
      <4>5. /\ v \in Seq(Indices) /\ v # <<>> /\ Len(v) = n + 1 /\ v[n + 1] = x
            /\ \A k \in 1..n : v[k] = w[k]
        BY <3>1, <4>1, <4>2, <4>3, <4>4
      <4>6. /\ w[1] = i /\ \A k \in 1..(n - 1) : w[k] \in allowed
            /\ \A k \in 2..n : w[k] \notin SeenIn(c)
            /\ \A j, k \in 1..n : w[j] = w[k] => j = k
        BY <3>1, <4>3 DEF ChainFrom
      <4>7. v[1] = i /\ \A k \in 1..((n + 1) - 1) : v[k] \in allowed
        BY <3>1, <3>4, <4>3, <4>5, <4>6
      <4>8. \A k \in 2..(n + 1) : v[k] \notin SeenIn(c)
        <5> SUFFICES ASSUME NEW k \in 2..(n + 1) PROVE v[k] \notin SeenIn(c)
          OBVIOUS
        <5>1. CASE k = n + 1
          BY <4>1, <4>2, <4>5, <5>1
        <5>2. CASE k # n + 1
          <6>1. k \in 2..n /\ k \in 1..n
            BY <4>3, <5>2
          <6> QED BY <4>5, <4>6, <6>1
        <5> QED BY <5>1, <5>2
      <4>9. \A k \in 1..n : w[k] # x
        BY <3>1, <3>4, <4>2, <4>3 DEF ToSet
      <4>10. \A j, k \in 1..(n + 1) : v[j] = v[k] => j = k
        <5>1. \A k \in 1..(n + 1) : k \in 1..n \/ k = n + 1
          BY <4>3
        <5> QED BY <4>5, <4>6, <4>9, <5>1
      <4>11. ChainFrom(v, i, c, allowed)
        BY <4>5, <4>7, <4>8, <4>10 DEF ChainFrom
      <4> QED BY <4>2, <4>4, <4>5, <4>11
    <3> QED BY <2>1, <3>3, <3>4
  <2> QED BY <2>2, <2>3
<1>3. <<i>> \in D
  BY DEF ChainFrom
<1>4. PICK g \in [0..N -> D] : g[0] = <<i>> /\ \A n \in 1..N : g[n] = step[g[n - 1]]
  <2>1. step \in [D -> D]
    <3> HIDE DEF next, D
    <3> QED BY <1>2
  <2>2. PICK M : M = N
    OBVIOUS
  <2>3. PICK d : d = D
    OBVIOUS
  <2>4. PICK s : s = step
    OBVIOUS
  <2> HIDE DEF D, step
  <2>5. \E g : Iterates(g, M, d, <<i>>, s)
    <3>1. M \in Nat /\ s \in [d -> d]
      BY <1>1, <2>1, <2>2, <2>3, <2>4
    <3>2. PICK a : a = <<i>>
      OBVIOUS
    <3>3. a \in d
      BY <1>3, <2>3, <3>2
    <3>4. \E g : Iterates(g, M, d, a, s)
      BY <3>1, <3>3, Rounds
    <3> QED BY <3>2, <3>4
  <2> QED BY <2>2, <2>3, <2>4, <2>5 DEF Iterates
<1>5. \A n \in 1..N : g[n] = next(g[n - 1])
  <2>1. \A n \in 1..N : g[n - 1] \in D
    <3> HIDE DEF D
    <3> QED BY <1>1, <1>4
  <2> HIDE DEF D, next
  <2> QED BY <1>4, <2>1
<1>6. g = body(g)
  <2>1. \A k \in 0..N : g[k] = IF k = 0 THEN <<i>> ELSE next(g[k - 1])
    <3> HIDE DEF D, next, step
    <3> SUFFICES ASSUME NEW k \in 0..N PROVE g[k] = IF k = 0 THEN <<i>> ELSE next(g[k - 1])
      OBVIOUS
    <3>1. k # 0 => k \in 1..N
      BY <1>1
    <3> QED BY <1>4, <1>5, <3>1
  <2>2. g = [k \in 0..N |-> g[k]]
    <3> HIDE DEF D, next, step
    <3> QED BY <1>4
  <2>3. body(g) = [k \in 0..N |-> g[k]]
    <3> HIDE DEF D, next, step
    <3> QED BY <2>1
  <2> HIDE DEF body
  <2> QED BY <2>2, <2>3
<1>7. walk = body(walk)
  <2>1. \E f : f = body(f)
    BY <1>6
  <2> HIDE DEF body
  <2> QED BY <2>1
<1> DEFINE U == {n \in 0..N : walk[n] = g[n]}
<1>8. N \in U
  <2>0. \A n \in 0..N : walk[n] = IF n = 0 THEN <<i>> ELSE next(walk[n - 1])
    <3> HIDE DEF next, walk
    <3> QED BY <1>7
  <2> HIDE DEF walk, next, body, step, D
  <2>1. 0 \in U
    BY <1>1, <1>4, <2>0
  <2>2. ASSUME NEW n \in 0..N, n # N, n \in U PROVE n + 1 \in U
    <3>1. n + 1 \in 1..N /\ n + 1 \in 0..N /\ (n + 1) - 1 = n /\ n + 1 # 0
      BY <1>1, <2>2
    <3>2. walk[n + 1] = next(walk[n])
      BY <2>0, <3>1
    <3>3. g[n + 1] = next(g[n])
      BY <1>5, <3>1
    <3> QED BY <2>2, <3>1, <3>2, <3>3
  <2>3. PICK M : M = N
    OBVIOUS
  <2>4. PICK u : u = U
    OBVIOUS
  <2> HIDE DEF U
  <2>5. 0..M \subseteq u
    BY <1>1, <2>1, <2>2, <2>3, <2>4, UpTo
  <2> QED BY <1>1, <2>3, <2>4, <2>5
<1>9. walk[N] \in D
  <2>1. walk[N] = g[N]
    <3> HIDE DEF walk
    <3> QED BY <1>8
  <2>2. g[N] \in D
    <3> HIDE DEF D
    <3> QED BY <1>1, <1>4
  <2> HIDE DEF walk, D
  <2> QED BY <2>1, <2>2
<1>10. Chain(i, c, allowed) = IF S(i).kind # "join" /\ Last(walk[N]) # 0
                                 /\ S(Last(walk[N])).kind = "join"
                              THEN walk[N] ELSE <<>>
  BY DEF Chain
<1> HIDE DEF walk
<1>11. CASE Chain(i, c, allowed) = <<>>
  BY <1>11
<1>12. CASE Chain(i, c, allowed) # <<>>
  <2>1. Chain(i, c, allowed) = walk[N] /\ Last(walk[N]) # 0
    BY <1>10, <1>12
  <2>2. Last(<<0>>) = 0
    BY DEF Last
  <2>3. walk[N] # <<0>>
    BY <2>1, <2>2
  <2>4. S(i).kind # "join" /\ S(Last(walk[N])).kind = "join"
    BY <1>10, <1>12
  <2> QED BY <1>9, <2>1, <2>3, <2>4
<1> QED BY <1>11, <1>12

LEMMA ChainType ==
  ASSUME graph \in Graphs, NEW i \in Indices, NEW c, NEW allowed
  PROVE  /\ Chain(i, c, allowed) \in Seq(Indices)
         /\ \A k \in 1..(Len(Chain(i, c, allowed)) - 1) : Chain(i, c, allowed)[k] \in allowed
<1>1. PICK p : p = Chain(i, c, allowed)
  OBVIOUS
<1>2. CASE p = <<>>
  BY <1>1, <1>2
<1>3. CASE p # <<>>
  <2>1. ChainFrom(p, i, c, allowed)
    BY <1>1, <1>3, ChainFacts
  <2> QED BY <1>1, <2>1 DEF ChainFrom
<1> QED BY <1>2, <1>3

------------------------------------------------------------------------------
(* The inductive invariant                                                 *)

\* lp is a repeat that is under way: its body is a stage of an agent.
RepeatOn(lp) == /\ lp \in Names /\ lp[2] > 0 /\ S(lp[1]).kind = "repeat"
                /\ S(lp[1]).body \in Indices /\ Executable(S(lp[1]).body)

\* name is a stage an agent can run, by itself or as the body of the repeat lp.
Runnable(name, lp) ==
    /\ name \in Names /\ Executable(name[1])
    /\ IF name[2] = 0 THEN lp = NoLoop ELSE RepeatOn(lp) /\ S(lp[1]).body = name[1]

\* Where the executor is determines what its locals hold.
Position ==
    /\ phase = "stage" => Runnable(cur.name, loop)
    /\ phase = "repeat" => RepeatOn(loop)
    /\ phase \in {"idle", "loop"} => loop = NoLoop

WaitStatuses == {"awaiting_approval", "awaiting_input", "awaiting_tool_approval",
                 "awaiting_budget_approval", "awaiting_sub_workflow", "blocked",
                 "paused_need_more_budget"}

\* A run that waits names the stage it waits at, which its status describes.
Waiting ==
    /\ status \in WaitStatuses => nextStage \in Names
    /\ status = "awaiting_tool_approval" => Executable(At)
    /\ inStore => /\ status = "awaiting_tool_approval"
                  /\ Runnable(nextStage, pending.loop)
    /\ status = "paused_need_more_budget" /\ nextStage[2] > 0 =>
          \E j \in Indices : S(j).kind = "repeat" /\ S(j).body = At

\* The call a run waits for was never executed, nor was any later one.
CallsAhead ==
    /\ status = "awaiting_tool_approval" => callNo \in 1..MaxCalls /\ toolRuns[callNo] = 0
    /\ \A k \in 1..MaxCalls : k > callNo => toolRuns[k] = 0

AgentCalls == [name : Names \cup {NoName}, escalated : BOOLEAN, doomed : BOOLEAN,
               via : {"queue", "repeat", "escalate", "tool", "continue"}]
ToolCalls == [name : Names \cup {NoName}, completed : Seq(Records), loop : Names \cup {NoLoop}]

Locals ==
    /\ phase \in {"idle", "loop", "repeat", "stage"}
    /\ queue \in Seq(Indices) /\ completed \in Seq(Records) /\ seen \subseteq Indices
    /\ cur \in AgentCalls
    /\ loop \in Names \cup {NoLoop}
    /\ approve \in BOOLEAN /\ budgetOn \in BOOLEAN /\ supplied \in Indices \cup {0}
    /\ cancelled \in BOOLEAN
    /\ Position

Pending ==
    /\ pending \in ToolCalls
    /\ inStore \in BOOLEAN /\ child \in {"none", "pending", "completed"}
Stored ==
    /\ status \in RunStatuses /\ nextStage \in Names \cup {NoName} /\ saved \in Seq(Records)
    /\ Waiting /\ WaitsCanBeAnswered
History ==
    /\ used \in Nat /\ preApproved \in BOOLEAN
    /\ gatesPassed \subseteq Indices /\ entered \subseteq Indices /\ fanned \subseteq Indices
Calling ==
    /\ toolRuns \in [1..MaxCalls -> Nat] /\ callNo \in 0..MaxCalls
    /\ CallsAhead /\ ToolRunsOnce

IInv == /\ graph \in Graphs /\ Locals /\ Pending /\ Stored /\ History /\ Calling
        /\ (phase = "idle") = (status # "running")

LEMMA IInvImplies == IInv => TypeOK /\ WaitsCanBeAnswered /\ ToolRunsOnce
BY DEF IInv, Locals, Pending, Stored, History, Calling, TypeOK, AgentCalls, ToolCalls

\* No call.
LEMMA NoCalls == NoCur \in AgentCalls /\ NoCall \in ToolCalls
<1>1. NoCur \in AgentCalls
  BY DEF NoCur, AgentCalls
<1>2. NoCall \in ToolCalls
  <2>1. NoCall = [name |-> NoName, completed |-> <<>>, loop |-> NoLoop]
    BY DEF NoCall, NoLoop
  <2>2. <<>> \in Seq(Records)
    OBVIOUS
  <2> QED BY <2>1, <2>2 DEF ToolCalls
<1> QED BY <1>1, <1>2

LEMMA IInvInit == Init => IInv
<1> SUFFICES ASSUME Init PROVE IInv
  OBVIOUS
<1>1. Locals
  <2>1. /\ phase = "idle" /\ queue = <<>> /\ completed = <<>> /\ seen = {}
        /\ cur = NoCur /\ loop = NoLoop
        /\ approve = FALSE /\ budgetOn = TRUE /\ supplied = 0 /\ cancelled = FALSE
    BY DEF Init
  <2>2. Position
    BY <2>1 DEF Position
  <2>3. approve \in BOOLEAN /\ budgetOn \in BOOLEAN /\ cancelled \in BOOLEAN
    BY <2>1
  <2>4. queue \in Seq(Indices) /\ completed \in Seq(Records) /\ seen \subseteq Indices
    BY <2>1
  <2> QED BY <2>1, <2>2, <2>3, <2>4, NoCalls DEF Locals
<1>2. Pending
  <2>1. pending = NoCall /\ inStore = FALSE /\ child = "none"
    BY DEF Init
  <2> QED BY <2>1, NoCalls DEF Pending
<1>3. Stored
  <2>1. status = "none" /\ nextStage = NoName /\ saved = <<>> /\ inStore = FALSE
    BY DEF Init
  <2>2. Waiting /\ WaitsCanBeAnswered
    BY <2>1 DEF Waiting, WaitStatuses, WaitsCanBeAnswered
  <2> QED BY <2>1, <2>2 DEF Stored, RunStatuses
<1>4. History
  BY DEF Init, History
<1>5. Calling
  <2>1. status = "none" /\ toolRuns = [k \in 1..MaxCalls |-> 0] /\ callNo = 0
    BY DEF Init
  <2> QED BY <2>1, BoundsAssumption DEF Calling, CallsAhead, ToolRunsOnce
<1>6. graph \in Graphs /\ (phase = "idle") = (status # "running")
  BY DEF Init
<1> QED BY <1>1, <1>2, <1>3, <1>4, <1>5, <1>6 DEF IInv

\* No step changes the graph of a run, nor what is defined by it.
LEMMA Frame ==
  ASSUME graph' = graph
  PROVE  /\ N' = N /\ Indices' = Indices /\ Names' = Names /\ Records' = Records
         /\ AgentCalls' = AgentCalls /\ ToolCalls' = ToolCalls
         /\ \A i : S(i)' = S(i)
         /\ \A i : Executable(i)' = Executable(i)
         /\ \A lp : RepeatOn(lp)' = RepeatOn(lp)
         /\ \A name, lp : Runnable(name, lp)' = Runnable(name, lp)
BY DEF N, Indices, Names, Records, S, Executable, RepeatOn, Runnable, AgentCalls, ToolCalls

\* A run that does not wait has nothing to answer.
LEMMA NoWait ==
  ASSUME graph' = graph, status' \in RunStatuses \ WaitStatuses, ~inStore',
         nextStage' \in Names \cup {NoName}, saved' \in Seq(Records)
  PROVE  Stored'
<1>1. Waiting' /\ WaitsCanBeAnswered'
  BY DEF Waiting, WaitsCanBeAnswered, WaitStatuses
<1> QED BY <1>1, Frame DEF Stored

LEMMA IdleLocals ==
  ASSUME graph' = graph, Idle
  PROVE  Locals' /\ phase' = "idle"
<1>1. Position'
  BY DEF Idle, Position
<1>2. /\ phase' = "idle" /\ queue' = <<>> /\ completed' = <<>> /\ seen' = {}
      /\ cur' = NoCur /\ loop' = NoLoop
      /\ approve' = FALSE /\ budgetOn' = TRUE /\ supplied' = 0 /\ cancelled' = FALSE
  BY DEF Idle
<1>3. approve' \in BOOLEAN /\ budgetOn' \in BOOLEAN /\ cancelled' \in BOOLEAN
  BY <1>2
<1>4. queue' \in Seq(Indices') /\ completed' \in Seq(Records') /\ seen' \subseteq Indices'
  BY <1>2
<1>5. cur' \in AgentCalls' /\ loop' \in (Names \cup {NoLoop})'
  BY <1>2, NoCalls, Frame
<1> QED BY <1>1, <1>2, <1>3, <1>4, <1>5 DEF Locals

\* Calls are as they were unless one is asked for or executed.
LEMMA SameCalls ==
  ASSUME Calling, UNCHANGED <<toolRuns, callNo>>, status' # "awaiting_tool_approval"
  PROVE  Calling'
BY DEF Calling, CallsAhead, ToolRunsOnce

\* While the executor works, no call of the run is in the approval queue.
LEMMA WhileRunning ==
  ASSUME IInv, phase # "idle"
  PROVE  ~inStore /\ status = "running"
BY DEF IInv, Stored, Waiting

\* What the executor finds at the head of its queue.
LEMMA Popped ==
  ASSUME IInv, phase = "loop", queue # <<>>
  PROVE  Head(queue) \in Indices /\ Tail(queue) \in Seq(Indices) /\ loop = NoLoop
BY DEF IInv, Locals, Position

\* The executor goes on at the head of its loop.
LEMMA LoopStep ==
  ASSUME IInv, phase # "idle", UNCHANGED <<stored, waiting, toolRuns, callNo>>,
         phase' = "loop", cur' \in AgentCalls, loop' = NoLoop,
         queue' \in Seq(Indices), completed' \in Seq(Records), seen' \subseteq Indices,
         approve' \in BOOLEAN, budgetOn' \in BOOLEAN, supplied' \in Indices \cup {0},
         cancelled' \in BOOLEAN, History'
  PROVE  IInv'
<1>1. graph' = graph /\ status' = status /\ ~inStore' /\ status = "running"
  BY WhileRunning DEF stored, waiting
<1>2. Locals'
  <2>1. Position'
    BY DEF Position
  <2> QED BY <1>1, <2>1, Frame, NoCalls DEF Locals
<1>3. Stored' /\ Pending'
  <2>1. nextStage \in Names \cup {NoName} /\ saved \in Seq(Records)
        /\ nextStage' = nextStage /\ saved' = saved
    BY DEF IInv, Stored, stored
  <2>2. Stored'
    BY <1>1, <2>1, NoWait DEF RunStatuses, WaitStatuses
  <2> QED BY <1>1, <2>2, Frame DEF IInv, Pending, waiting
<1>4. Calling'
  BY <1>1, SameCalls DEF IInv
<1> QED BY <1>1, <1>2, <1>3, <1>4 DEF IInv

\* The executor returns, and not to wait for a tool.
LEMMA ReturnStep ==
  ASSUME IInv, graph' = graph, Idle, UNCHANGED <<pending, inStore, toolRuns, callNo>>, ~inStore,
         child' \in {"none", "pending", "completed"},
         status' \in RunStatuses \ {"running", "awaiting_tool_approval"}, Stored', History'
  PROVE  IInv'
<1>1. Locals' /\ phase' = "idle"
  BY IdleLocals
<1>2. Pending'
  BY Frame DEF IInv, Pending
<1>3. Calling'
  BY SameCalls DEF IInv
<1> QED BY <1>1, <1>2, <1>3 DEF IInv

\* The executor fails.
LEMMA FailStep ==
  ASSUME IInv, phase # "idle", Fail, UNCHANGED <<waiting, toolRuns, callNo>>, History'
  PROVE  IInv'
<1>1. graph' = graph /\ ~inStore /\ ~inStore' /\ Idle
  BY WhileRunning DEF Fail, waiting
<1>2. Stored'
  <2>1. nextStage' \in Names \cup {NoName} /\ saved' \in Seq(Records)
    BY DEF IInv, Stored, Fail
  <2>2. status' \in {"cancelled", "failed"}
    BY DEF Fail
  <2> QED BY <1>1, <2>1, <2>2, NoWait DEF RunStatuses, WaitStatuses
<1>3. status' \in RunStatuses \ {"running", "awaiting_tool_approval"}
  BY DEF Fail, RunStatuses
<1> QED BY <1>1, <1>2, <1>3, ReturnStep DEF waiting, IInv, Pending

\* It goes on with the options it has.
LEMMA LoopKeeps ==
  ASSUME IInv, phase # "idle", UNCHANGED <<stored, waiting, options, cancelled, toolRuns, callNo>>,
         phase' = "loop", cur' \in AgentCalls, loop' = NoLoop,
         queue' \in Seq(Indices), completed' \in Seq(Records), seen' \subseteq Indices, History'
  PROVE  IInv'
<1>1. /\ approve \in BOOLEAN /\ budgetOn \in BOOLEAN /\ supplied \in Indices \cup {0}
      /\ cancelled \in BOOLEAN
  BY DEF IInv, Locals
<1>2. /\ approve' = approve /\ budgetOn' = budgetOn /\ supplied' = supplied
      /\ cancelled' = cancelled
  BY DEF options
<1> QED BY <1>1, <1>2, LoopStep

LEMMA SameHistory ==
  ASSUME IInv, graph' = graph, UNCHANGED <<used, preApproved, gatesPassed>>,
         entered' \subseteq Indices, fanned' \subseteq Indices
  PROVE  History'
BY Frame DEF IInv, History

LEMMA Recorded ==
  ASSUME IInv
  PROVE  entered \subseteq Indices /\ fanned \subseteq Indices
BY DEF IInv, History

\* The executor returns to wait, for anything but a tool.
LEMMA WaitStep ==
  ASSUME IInv, phase # "idle", Idle, graph' = graph,
         UNCHANGED <<pending, inStore, toolRuns, callNo>>,
         child' \in {"none", "pending", "completed"},
         status' \in WaitStatuses \ {"awaiting_tool_approval"},
         nextStage' \in Names, saved' \in Seq(Records), WaitsCanBeAnswered', History',
         status' = "paused_need_more_budget" /\ nextStage'[2] > 0 =>
            \E j \in Indices : S(j).kind = "repeat" /\ S(j).body = nextStage'[1]
  PROVE  IInv'
<1>1. ~inStore /\ ~inStore'
  BY WhileRunning
<1>2. Waiting'
  BY <1>1, Frame DEF Waiting, WaitStatuses, At
<1>3. status' \in RunStatuses \ {"running", "awaiting_tool_approval"}
  BY DEF WaitStatuses, RunStatuses
<1>4. Stored'
  BY <1>2, <1>3, Frame DEF Stored
<1> QED BY <1>1, <1>3, <1>4, ReturnStep

\* A stage is blocked.
LEMMA BlockedStep ==
  ASSUME IInv, phase # "idle", Idle, graph' = graph, UNCHANGED <<waiting, toolRuns, callNo>>,
         status' = "blocked", nextStage' \in Names, saved' \in Seq(Records), History'
  PROVE  IInv'
<1>1. WaitsCanBeAnswered'
  BY DEF WaitsCanBeAnswered
<1>2. child' \in {"none", "pending", "completed"}
  BY DEF IInv, Pending, waiting
<1> QED BY <1>1, <1>2, WaitStep DEF waiting, WaitStatuses

\* A hard budget stops a stage that can be approved.
LEMMA BudgetStep ==
  ASSUME IInv, phase # "idle", Idle, graph' = graph, UNCHANGED <<waiting, toolRuns, callNo>>,
         status' = "awaiting_budget_approval", nextStage' \in Names, saved' \in Seq(Records),
         nextStage'[2] > 0 \/ (nextStage'[2] = 0 /\ S(nextStage'[1]).kind # "visual"), History'
  PROVE  IInv'
<1>1. WaitsCanBeAnswered'
  BY Frame DEF WaitsCanBeAnswered, CanApproveBudget, At
<1>2. child' \in {"none", "pending", "completed"}
  BY DEF IInv, Pending, waiting
<1> QED BY <1>1, <1>2, WaitStep DEF waiting, WaitStatuses

------------------------------------------------------------------------------
(* Steps over the queue                                                    *)

LEMMA SkipSeenStep == ASSUME IInv, SkipSeen PROVE IInv'
<1>1. phase = "loop" /\ queue # <<>> /\ queue' = Tail(queue)
  BY DEF SkipSeen
<1>2. Tail(queue) \in Seq(Indices) /\ loop = NoLoop
  BY <1>1, Popped
<1>3. graph' = graph /\ completed' = completed /\ seen' = seen /\ cur' = cur /\ loop' = loop
      /\ phase' = phase
  BY DEF SkipSeen, stored
<1>4. completed \in Seq(Records) /\ seen \subseteq Indices /\ cur \in AgentCalls
  BY DEF IInv, Locals
<1>5. History'
  BY <1>3, Recorded, SameHistory DEF SkipSeen, history
<1> QED BY <1>1, <1>2, <1>3, <1>4, <1>5, LoopKeeps DEF SkipSeen, history

\* What every stage at the head of the queue is known to be.
LEMMA Head1 ==
  ASSUME IInv, NEW kind, Pops(kind)
  PROVE  /\ phase = "loop" /\ Head(queue) \in Indices /\ Tail(queue) \in Seq(Indices)
         /\ S(Head(queue)).kind = kind /\ loop = NoLoop
         /\ completed \in Seq(Records) /\ seen \subseteq Indices
         /\ seen \cup {Head(queue)} \subseteq Indices
         /\ Name(Head(queue), 0) \in Names
         /\ \A st \in {"completed", "incomplete", "blocked", "error", "denied"} :
              Append(completed, Result(Head(queue), 0, st)) \in Seq(Records)
<1>1. Head(queue) \in Indices /\ Tail(queue) \in Seq(Indices) /\ loop = NoLoop
  BY Popped DEF Pops
<1>2. completed \in Seq(Records) /\ seen \subseteq Indices
  BY DEF IInv, Locals
<1>3. \A st \in {"completed", "incomplete", "blocked", "error", "denied"} :
         Result(Head(queue), 0, st) \in Records
  BY <1>1, ResultType
<1>4. \A r \in Records : Append(completed, r) \in Seq(Records)
  BY <1>2
<1> QED BY <1>1, <1>2, <1>3, <1>4, ResultType DEF Pops

LEMMA PassVisualStep == ASSUME IInv, PassVisual PROVE IInv'
<1>1. Pops("visual")
  BY DEF PassVisual
<1>2. PICK q \in NextOf(Head(queue), completed) :
         Loop(q \o Tail(queue), completed, seen \cup {Head(queue)})
  BY DEF PassVisual
<1>3. q \in Seq(Indices)
  BY <1>1, Head1, NextOfType DEF IInv
<1>4. q \o Tail(queue) \in Seq(Indices)
  BY <1>1, <1>3, Head1
<1>5. graph' = graph /\ phase # "idle"
  BY <1>1, <1>2 DEF Loop, stored, Pops
<1>6. History'
  BY <1>5, Recorded, SameHistory DEF PassVisual, history
<1> QED BY <1>1, <1>2, <1>4, <1>5, <1>6, Head1, NoCalls, LoopKeeps
        DEF PassVisual, history, Loop, Enter

\* The stages of sequential branches, then their joins, are stages.
LEMMA UntilJoinType ==
  ASSUME graph \in Graphs, NEW targets \in Seq(Indices), NEW c
  PROVE  UntilJoin(targets, c) \in Seq(Indices)
<1> DEFINE plan(i)   == StaticPlan(i, c)
           stages(i) == IF plan(i) = <<>> THEN <<i>> ELSE Front(plan(i))
           front == [k \in DOMAIN targets |-> stages(targets[k])]
           joins == [k \in DOMAIN targets |->
                        IF plan(targets[k]) = <<>> THEN <<>> ELSE <<Last(plan(targets[k]))>>]
<1>1. ASSUME NEW k \in DOMAIN targets
      PROVE  /\ stages(targets[k]) \in Seq(Indices)
             /\ (IF plan(targets[k]) = <<>> THEN <<>> ELSE <<Last(plan(targets[k]))>>)
                  \in Seq(Indices)
  <2>1. targets[k] \in Indices
    OBVIOUS
  <2>2. plan(targets[k]) \in Seq(Indices)
    <3>1. PICK i : i = targets[k]
      OBVIOUS
    <3> QED BY <2>1, <3>1, ChainType DEF StaticPlan
  <2>3. PICK p : p = plan(targets[k])
    OBVIOUS
  <2> HIDE DEF plan
  <2>4. p # <<>> => Front(p) \in Seq(Indices) /\ Last(p) \in Indices
    BY <2>2, <2>3 DEF Front, Last
  <2> QED BY <2>1, <2>3, <2>4
<1>2. front \in Seq(Seq(Indices)) /\ joins \in Seq(Seq(Indices))
  <2>1. DOMAIN targets = 1..Len(targets) /\ Len(targets) \in Nat
    OBVIOUS
  <2> HIDE DEF plan, stages
  <2>2. \A f \in [DOMAIN targets -> Seq(Indices)] : f \in Seq(Seq(Indices))
    BY <2>1
  <2> QED BY <1>1, <2>2
<1>3. FlattenSeq(front) \in Seq(Indices) /\ FlattenSeq(joins) \in Seq(Indices)
  <2>1. PICK all : all = Indices
    OBVIOUS
  <2>2. PICK f, j : f = front /\ j = joins
    OBVIOUS
  <2> HIDE DEF front, joins
  <2>3. FlattenSeq(f) \in Seq(all) /\ FlattenSeq(j) \in Seq(all)
    BY <1>2, <2>1, <2>2, FlattenType
  <2> QED BY <2>1, <2>2, <2>3
<1>4. UntilJoin(targets, c) = Unique(FlattenSeq(front) \o FlattenSeq(joins))
  BY DEF UntilJoin
<1> HIDE DEF front, joins
<1>5. FlattenSeq(front) \o FlattenSeq(joins) \in Seq(Indices)
  BY <1>3
<1> QED BY <1>4, <1>5, UniqueType

LEMMA PauseForApprovalStep == ASSUME IInv, PauseForApproval PROVE IInv'
<1>1. PICK kind : Pops(kind)
  BY DEF PauseForApproval
<1>2. /\ graph' = graph /\ status' = "awaiting_approval" /\ nextStage' = Name(Head(queue), 0)
      /\ saved' = completed /\ Idle
  BY DEF PauseForApproval, Return
<1>3. S(Head(queue)).kind = "checkpoint" \/ S(Head(queue)).approval
  BY DEF PauseForApproval, Pops
<1>4. nextStage'[1] = Head(queue) /\ nextStage' \in Names
  BY <1>1, <1>2, Head1, ResultType
<1>5. WaitsCanBeAnswered'
  BY <1>2, <1>3, <1>4, Frame DEF WaitsCanBeAnswered, CanResumeApproval, At
<1>6. History' /\ phase # "idle"
  BY <1>1, <1>2, Recorded, SameHistory DEF PauseForApproval, history, Pops
<1>7. child' \in {"none", "pending", "completed"} /\ saved' \in Seq(Records)
  BY <1>1, <1>2, Head1 DEF PauseForApproval, waiting, IInv, Pending
<1> QED BY <1>2, <1>4, <1>5, <1>6, <1>7, WaitStep
        DEF PauseForApproval, waiting, history, WaitStatuses

LEMMA PauseForInputStep == ASSUME IInv, PauseForInput PROVE IInv'
<1>1. Pops("input")
  BY DEF PauseForInput
<1>2. /\ graph' = graph /\ status' = "awaiting_input" /\ nextStage' = Name(Head(queue), 0)
      /\ saved' = completed /\ Idle
  BY DEF PauseForInput, Return
<1>4. nextStage'[1] = Head(queue) /\ nextStage' \in Names
  BY <1>1, <1>2, Head1, ResultType
<1>5. WaitsCanBeAnswered'
  BY <1>1, <1>2, <1>4, Frame, Head1 DEF WaitsCanBeAnswered, CanResumeInput, At
<1>6. History' /\ phase # "idle"
  BY <1>1, <1>2, Recorded, SameHistory DEF PauseForInput, history, Pops
<1>7. child' \in {"none", "pending", "completed"} /\ saved' \in Seq(Records)
  BY <1>1, <1>2, Head1 DEF PauseForInput, waiting, IInv, Pending
<1> QED BY <1>2, <1>4, <1>5, <1>6, <1>7, WaitStep
        DEF PauseForInput, waiting, history, WaitStatuses

LEMMA JoinWaitsStep == ASSUME IInv, JoinWaits PROVE IInv'
<1>1. Pops("join") /\ phase # "idle"
  BY DEF JoinWaits, Pops
<1>2. graph' = graph
  BY DEF JoinWaits, Fail, Loop, stored
<1>3. History'
  BY <1>2, Recorded, SameHistory DEF JoinWaits, history
<1>4. CASE Fail
  BY <1>1, <1>3, <1>4, FailStep DEF JoinWaits, history
<1>5. CASE Loop(Append(Tail(queue), Head(queue)), completed, seen)
  <2>1. Append(Tail(queue), Head(queue)) \in Seq(Indices)
    BY <1>1, Head1
  <2> QED BY <1>1, <1>3, <1>5, <2>1, Head1, NoCalls, LoopKeeps
          DEF JoinWaits, history, Loop, Enter
<1> QED BY <1>4, <1>5 DEF JoinWaits

LEMMA PassControlStep == ASSUME IInv, PassControl PROVE IInv'
<1>1. PICK kind : Pops(kind)
  BY DEF PassControl
<1> DEFINE i == Head(queue)
           c == Append(completed, Result(i, 0, "completed"))
<1>2. PICK q \in NextOf(i, completed) : Loop(q \o Tail(queue), c, seen \cup {i})
  BY DEF PassControl
<1>3. q \in Seq(Indices) /\ c \in Seq(Records) /\ i \in Indices
  BY <1>1, Head1, NextOfType DEF IInv
<1>4. q \o Tail(queue) \in Seq(Indices)
  BY <1>1, <1>3, Head1
<1>5. graph' = graph /\ phase # "idle"
  BY <1>1, <1>2 DEF Loop, stored, Pops
<1>6. entered' = entered \cup {i}
  BY DEF PassControl
<1> HIDE DEF i, c
<1>7. History'
  BY <1>3, <1>5, <1>6, Recorded, SameHistory DEF PassControl
<1> QED BY <1>1, <1>2, <1>3, <1>4, <1>5, <1>7, Head1, NoCalls, LoopKeeps
        DEF PassControl, Loop, Enter, i

LEMMA TakeRouteStep == ASSUME IInv, TakeRoute PROVE IInv'
<1>1. Pops("route") /\ phase # "idle"
  BY DEF TakeRoute, Pops
<1> DEFINE i == Head(queue)
           lists(r) == CASE r = Fallthrough       -> NextOf(i, completed)
                         [] r \in {Nowhere, Halts} -> {<<>>}
                         [] OTHER                  -> {Named(<<r>>, completed)}
           to(r, q) == IF r > 0 THEN {r} ELSE ToSet(q)
           passed(r, q) == Append(completed, [Result(i, 0, "completed") EXCEPT !.target = to(r, q)])
<1>2. PICK r \in S(i).routes : \E q \in lists(r) :
         IF r = Halts
         THEN Return("blocked", Name(i, 0), Append(completed, Result(i, 0, "blocked")))
         ELSE Loop(q \o Tail(queue), passed(r, q), seen \cup {i})
  BY DEF TakeRoute
<1>3. PICK q \in lists(r) :
         IF r = Halts
         THEN Return("blocked", Name(i, 0), Append(completed, Result(i, 0, "blocked")))
         ELSE Loop(q \o Tail(queue), passed(r, q), seen \cup {i})
  BY <1>2
<1>4. i \in Indices /\ graph \in Graphs /\ completed \in Seq(Records)
  BY <1>1, Head1 DEF IInv
<1>5. r \in Indices \cup {Fallthrough, Nowhere, Halts}
  BY <1>2, <1>4, GraphFacts
<1>6. q \in Seq(Indices)
  <2>1. CASE r = Fallthrough
    <3>1. lists(r) = NextOf(i, completed)
      BY <2>1 DEF Fallthrough, Nowhere, Halts
    <3> HIDE DEF lists
    <3> QED BY <1>3, <1>4, <3>1, NextOfType
  <2>2. CASE r # Fallthrough /\ r \in {Nowhere, Halts}
    BY <1>3, <2>2
  <2>3. CASE r # Fallthrough /\ r \notin {Nowhere, Halts}
    <3>1. r \in Indices /\ <<r>> \in Seq(Indices)
      BY <1>5, <2>3
    <3>2. q = Named(<<r>>, completed)
      BY <1>3, <2>3
    <3> QED BY <3>1, <3>2, NamedType
  <2> QED BY <2>1, <2>2, <2>3
<1>7. to(r, q) \subseteq Indices
  <2>1. r > 0 => r \in Indices
    BY <1>5 DEF Fallthrough, Nowhere, Halts
  <2>2. ToSet(q) \subseteq Indices
    BY <1>6 DEF ToSet
  <2> QED BY <2>1, <2>2
<1>8. graph' = graph
  BY <1>3 DEF Return, Loop, stored
<1>9. History'
  BY <1>8, Recorded, SameHistory DEF TakeRoute, history
<1>10. CASE r = Halts
  BY <1>1, <1>3, <1>9, <1>10, Head1, BlockedStep DEF TakeRoute, history, Return
<1>11. CASE r # Halts
  <2>1. Loop(q \o Tail(queue), passed(r, q), seen \cup {i})
    BY <1>3, <1>11
  <2>2. passed(r, q) \in Seq(Records)
    <3>1. [Result(i, 0, "completed") EXCEPT !.target = to(r, q)] \in Records
      <4> HIDE DEF i, to
      <4> QED BY <1>4, <1>7, ResultType
    <3>2. \A e \in Records : Append(completed, e) \in Seq(Records)
      BY <1>4
    <3> HIDE DEF i, to
    <3> QED BY <3>1, <3>2
  <2>3. q \o Tail(queue) \in Seq(Indices)
    BY <1>1, <1>6, Head1
  <2> HIDE DEF passed
  <2> QED BY <1>1, <1>9, <2>1, <2>2, <2>3, Head1, NoCalls, LoopKeeps
          DEF TakeRoute, history, Loop, Enter
<1> QED BY <1>10, <1>11

LEMMA SelectNoBranchStep == ASSUME IInv, SelectNoBranch PROVE IInv'
<1>1. Pops("parallel") /\ phase # "idle"
  BY DEF SelectNoBranch, Pops
<1>2. graph' = graph
  BY DEF SelectNoBranch, Return
<1>3. History'
  BY <1>2, Recorded, SameHistory DEF SelectNoBranch, history
<1> QED BY <1>1, <1>3, Head1, BlockedStep DEF SelectNoBranch, history, Return

LEMMA FanOutStep == ASSUME IInv, FanOut PROVE IInv'
<1>1. Pops("parallel") /\ phase # "idle"
  BY DEF FanOut, Pops
<1> DEFINE i == Head(queue)
           c == Append(completed, Result(i, 0, "completed"))
<1>2. PICK q \in Branches(i, completed) :
         /\ Loop(UntilJoin(q, c) \o Tail(queue), c,
                 IF S(i).concurrent /\ Len(q) >= 2 THEN SeenIn(c) ELSE seen \cup {i})
         /\ fanned' = fanned \cup ToSet(q)
  BY DEF FanOut
<1>3. graph \in Graphs /\ i \in Indices /\ c \in Seq(Records)
  BY <1>1, Head1 DEF IInv
<1>4. q \in Seq(Indices)
  BY <1>3, BranchesType
<1>5. UntilJoin(q, c) \in Seq(Indices)
  <2>1. PICK d : d = c
    OBVIOUS
  <2> QED BY <1>3, <1>4, <2>1, UntilJoinType
<1>6. UntilJoin(q, c) \o Tail(queue) \in Seq(Indices)
  BY <1>1, <1>5, Head1
<1>7. ToSet(q) \subseteq Indices
  BY <1>4 DEF ToSet
<1>8. graph' = graph
  BY <1>2 DEF Loop, stored
<1> HIDE DEF c
<1>9. History'
  BY <1>2, <1>7, <1>8, Recorded, SameHistory DEF FanOut
<1>10. SeenIn(c) \subseteq Indices /\ seen \cup {i} \subseteq Indices
  BY <1>1, <1>3, Head1, SeenInType
<1>11. seen' \subseteq Indices
  BY <1>2, <1>10 DEF Loop, Enter
<1> QED BY <1>1, <1>2, <1>3, <1>6, <1>9, <1>11, Head1, NoCalls, LoopKeeps
        DEF FanOut, Loop, Enter

LEMMA RunChildStep == ASSUME IInv, RunChild PROVE IInv'
<1>1. Pops("sub") /\ phase # "idle"
  BY DEF RunChild, Pops
<1> DEFINE i == Head(queue)
           c == Append(completed, Result(i, 0, "completed"))
<1>2. graph' = graph /\ graph \in Graphs
  BY DEF RunChild, Loop, Return, Fail, stored, IInv
<1>3. History'
  BY <1>2, Recorded, SameHistory DEF RunChild, history
<1>4. c \in Seq(Records) /\ i \in Indices
  BY <1>1, Head1
<1>5. CASE UNCHANGED child /\ \E q \in NextOf(i, c) : Loop(q \o Tail(queue), c, seen \cup {i})
  <2>1. PICK q \in NextOf(i, c) : Loop(q \o Tail(queue), c, seen \cup {i})
    BY <1>5
  <2>2. q \in Seq(Indices)
    BY <1>2, <1>4, NextOfType
  <2>3. q \o Tail(queue) \in Seq(Indices)
    BY <1>1, <2>2, Head1
  <2> HIDE DEF c
  <2> QED BY <1>1, <1>3, <1>4, <1>5, <2>1, <2>3, Head1, NoCalls, LoopKeeps
          DEF RunChild, history, waiting, Loop, Enter
<1>6. CASE Return("awaiting_sub_workflow", Name(i, 0), completed) /\ child' = "pending"
  <2>1. nextStage' = Name(i, 0) /\ nextStage'[1] = i /\ status' = "awaiting_sub_workflow"
    BY <1>4, <1>6, ResultType DEF Return
  <2>2. WaitsCanBeAnswered'
    BY <1>1, <1>2, <1>6, <2>1, Frame, Head1 DEF WaitsCanBeAnswered, At
  <2> QED BY <1>1, <1>2, <1>3, <1>6, <2>1, <2>2, Head1, WaitStep
          DEF RunChild, history, Return, WaitStatuses
<1>7. CASE Fail /\ UNCHANGED child
  BY <1>1, <1>3, <1>7, FailStep DEF RunChild, history, waiting
<1> QED BY <1>5, <1>6, <1>7 DEF RunChild

LEMMA BlockUnreadyStep == ASSUME IInv, BlockUnready PROVE IInv'
<1>1. Pops("stage") /\ phase # "idle"
  BY DEF BlockUnready, Pops
<1>2. graph' = graph
  BY DEF BlockUnready, Return
<1>3. History'
  BY <1>2, Recorded, SameHistory DEF BlockUnready, history
<1> QED BY <1>1, <1>3, Head1, BlockedStep DEF BlockUnready, history, Return

\* The executor goes on with a stage's agent or a repeat.
LEMMA WorkOn ==
  ASSUME IInv, phase # "idle", UNCHANGED <<stored, waiting, toolRuns, callNo>>,
         phase' \in {"repeat", "stage"}, cur' \in AgentCalls, loop' \in Names \cup {NoLoop},
         queue' \in Seq(Indices), completed' \in Seq(Records), seen' \subseteq Indices,
         approve' \in BOOLEAN, budgetOn' \in BOOLEAN, supplied' \in Indices \cup {0},
         cancelled' \in BOOLEAN,
         phase' = "stage" => Runnable(cur'.name, loop'), phase' = "repeat" => RepeatOn(loop'),
         History'
  PROVE  IInv'
<1>1. graph' = graph /\ status' = status /\ ~inStore' /\ status = "running"
  BY WhileRunning DEF stored, waiting
<1>2. Locals'
  <2>1. Position'
    BY <1>1, Frame DEF Position, Runnable, RepeatOn
  <2> QED BY <1>1, <2>1, Frame DEF Locals
<1>3. Stored' /\ Pending'
  <2>1. nextStage \in Names \cup {NoName} /\ saved \in Seq(Records)
        /\ nextStage' = nextStage /\ saved' = saved
    BY DEF IInv, Stored, stored
  <2>2. Stored'
    BY <1>1, <2>1, NoWait DEF RunStatuses, WaitStatuses
  <2> QED BY <1>1, <2>2, Frame DEF IInv, Pending, waiting
<1>4. Calling'
  BY <1>1, SameCalls DEF IInv
<1> QED BY <1>1, <1>2, <1>3, <1>4 DEF IInv

LEMMA WorkStep ==
  ASSUME IInv, phase # "idle", UNCHANGED <<stored, waiting, options, cancelled, toolRuns, callNo>>,
         phase' \in {"repeat", "stage"}, cur' \in AgentCalls, loop' \in Names \cup {NoLoop},
         queue' \in Seq(Indices), completed' \in Seq(Records), seen' \subseteq Indices,
         phase' = "stage" => Runnable(cur'.name, loop'), phase' = "repeat" => RepeatOn(loop'),
         History'
  PROVE  IInv'
<1>1. /\ approve \in BOOLEAN /\ budgetOn \in BOOLEAN /\ supplied \in Indices \cup {0}
      /\ cancelled \in BOOLEAN
  BY DEF IInv, Locals
<1>2. /\ approve' = approve /\ budgetOn' = budgetOn /\ supplied' = supplied
      /\ cancelled' = cancelled
  BY DEF options
<1> QED BY <1>1, <1>2, WorkOn

LEMMA CallsType ==
  ASSUME IInv
  PROVE  \A name \in Names, e \in BOOLEAN :
            \A via \in {"queue", "repeat", "escalate", "tool", "continue"} :
               Calls(name, via, e) \in AgentCalls /\ Calls(name, via, e).name = name
BY DEF Calls, AgentCalls, IInv, Locals

LEMMA CallStageStep == ASSUME IInv, CallStage PROVE IInv'
<1>1. Pops("stage") /\ phase # "idle"
  BY DEF CallStage, Pops
<1> DEFINE i == Head(queue)
<1>2. graph' = graph
  BY DEF CallStage, Return, stored
<1>3. History'
  BY <1>2, Recorded, SameHistory DEF CallStage, history
<1>4. i \in Indices /\ S(i).kind = "stage" /\ Name(i, 0) \in Names
      /\ Name(i, 0)[1] = i /\ Name(i, 0)[2] = 0 /\ loop = NoLoop
  BY <1>1, Head1, ResultType
<1>5. CASE Return("awaiting_budget_approval", Name(i, 0), completed)
  <2>1. nextStage' = Name(i, 0) /\ status' = "awaiting_budget_approval" /\ Idle
        /\ saved' = completed
    BY <1>5 DEF Return
  <2> QED BY <1>1, <1>2, <1>3, <1>4, <2>1, Head1, BudgetStep DEF CallStage, history
<1>6. CASE /\ phase' = "stage" /\ cur' = Calls(Name(i, 0), "queue", FALSE)
           /\ queue' = Tail(queue)
           /\ UNCHANGED <<stored, completed, seen, loop, options, cancelled>>
  <2>1. cur' \in AgentCalls /\ cur'.name = Name(i, 0)
    BY <1>4, <1>6, CallsType
  <2>2. Runnable(cur'.name, loop')
    BY <1>4, <1>6, <2>1 DEF Runnable, Executable
  <2> QED BY <1>1, <1>3, <1>4, <1>6, <2>1, <2>2, Head1, WorkStep DEF CallStage, history
<1> QED BY <1>5, <1>6 DEF CallStage

LEMMA FinishStep == ASSUME IInv, Finish PROVE IInv'
<1>1. phase # "idle" /\ graph' = graph /\ Idle /\ status' = "completed" /\ nextStage' = NoName
      /\ saved' = completed
  BY DEF Finish, Return
<1>2. ~inStore /\ ~inStore'
  BY <1>1, WhileRunning DEF Finish, waiting
<1>3. Stored'
  BY <1>1, <1>2, NoWait DEF IInv, Locals, RunStatuses, WaitStatuses
<1>4. History'
  BY <1>1, Recorded, SameHistory DEF Finish, history
<1>5. child' \in {"none", "pending", "completed"}
  BY DEF IInv, Pending, Finish, waiting
<1>6. status' \in RunStatuses \ {"running", "awaiting_tool_approval"}
  BY <1>1 DEF RunStatuses
<1> QED BY <1>1, <1>2, <1>3, <1>4, <1>5, <1>6, ReturnStep DEF Finish, waiting, history

------------------------------------------------------------------------------
(* Steps of repeats                                                        *)

LEMMA EnterRepeatStep == ASSUME IInv, EnterRepeat PROVE IInv'
<1>1. Pops("repeat") /\ phase # "idle"
  BY DEF EnterRepeat, Pops
<1>2. graph' = graph /\ graph \in Graphs
  BY DEF EnterRepeat, Fail, stored, IInv
<1>3. History'
  BY <1>2, Recorded, SameHistory DEF EnterRepeat, history
<1>4. CASE ~Executable(S(Head(queue)).body)
  BY <1>1, <1>3, <1>4, FailStep DEF EnterRepeat, history
<1>5. CASE Executable(S(Head(queue)).body)
  <2>1. loop' = <<Head(queue), 1>> /\ phase' = "repeat" /\ queue' = Tail(queue)
        /\ UNCHANGED <<stored, completed, seen, cur, options, cancelled>>
    BY <1>5 DEF EnterRepeat
  <2>2. S(Head(queue)).body \in Indices /\ Head(queue) \in Indices
        /\ S(Head(queue)).kind = "repeat"
    BY <1>1, <1>2, Head1, GraphFacts
  <2>3. RepeatOn(loop') /\ loop' \in Names
    BY <1>5, <2>1, <2>2 DEF RepeatOn, Names
  <2>4. cur \in AgentCalls
    BY DEF IInv, Locals
  <2> QED BY <1>1, <1>3, <2>1, <2>3, <2>4, Head1, WorkStep DEF EnterRepeat, history
<1> QED BY <1>4, <1>5

LEMMA IterateStep == ASSUME IInv, Iterate PROVE IInv'
<1> DEFINE control == loop[1]
           it      == loop[2]
           body    == S(control).body
           c       == Append(completed, Result(control, 0, "completed"))
<1>1. phase = "repeat" /\ phase # "idle" /\ RepeatOn(loop) /\ graph \in Graphs
  BY DEF Iterate, IInv, Locals, Position
<1>2. control \in Indices /\ it \in Nat /\ it > 0 /\ body \in Indices /\ Executable(body)
      /\ S(control).kind = "repeat" /\ loop \in Names /\ loop = <<control, it>>
  BY <1>1 DEF RepeatOn, Names
<1>3. completed \in Seq(Records) /\ queue \in Seq(Indices) /\ seen \subseteq Indices
  BY DEF IInv, Locals
<1>4. c \in Seq(Records)
  BY <1>2, <1>3, ResultType
<1>5. Name(body, it) \in Names /\ Name(body, it)[1] = body /\ Name(body, it)[2] = it
  BY <1>2, ResultType
<1>6. graph' = graph
  BY DEF Iterate, Loop, Return, Fail, stored
<1>7. History'
  BY <1>6, Recorded, SameHistory DEF Iterate, history
<1>8. CASE \E q \in NextOf(control, c) : Loop(q \o queue, c, SeenIn(c))
  <2>1. PICK q \in NextOf(control, c) : Loop(q \o queue, c, SeenIn(c))
    BY <1>8
  <2>2. q \in Seq(Indices) /\ SeenIn(c) \subseteq Indices
    BY <1>1, <1>2, <1>4, NextOfType, SeenInType
  <2>3. q \o queue \in Seq(Indices)
    BY <1>3, <2>2
  <2> HIDE DEF c
  <2> QED BY <1>1, <1>4, <1>7, <2>1, <2>2, <2>3, NoCalls, LoopKeeps
          DEF Iterate, history, Loop, Enter
<1>9. CASE Fail
  BY <1>1, <1>7, <1>9, FailStep DEF Iterate, history
<1>10. CASE it <= S(control).rounds /\ Return("awaiting_budget_approval", Name(body, it), completed)
  <2>1. nextStage' = Name(body, it) /\ status' = "awaiting_budget_approval" /\ Idle
        /\ saved' = completed
    BY <1>10 DEF Return
  <2>2. S(body).kind # "visual"
    BY <1>2 DEF Executable
  <2> QED BY <1>1, <1>2, <1>3, <1>5, <1>6, <1>7, <2>1, <2>2, BudgetStep DEF Iterate, history
<1>11. CASE /\ phase' = "stage"
            /\ cur' = Calls(Name(body, it), "repeat", FALSE)
            /\ UNCHANGED <<stored, queue, completed, seen, loop, options, cancelled>>
  <2>1. cur' \in AgentCalls /\ cur'.name = Name(body, it)
    BY <1>5, <1>11, CallsType
  <2>2. Runnable(cur'.name, loop')
    <3>1. PICK name : name = Name(body, it)
      OBVIOUS
    <3>2. name \in Names /\ name[1] = body /\ name[2] # 0
      BY <1>2, <1>5, <3>1
    <3>3. Runnable(name, loop)
      BY <1>1, <1>2, <3>2 DEF Runnable
    <3> QED BY <1>11, <2>1, <3>1, <3>3
  <2> QED BY <1>1, <1>2, <1>3, <1>7, <1>11, <2>1, <2>2, WorkStep DEF Iterate, history
<1>12. \/ \E q \in NextOf(control, c) : Loop(q \o queue, c, SeenIn(c))
       \/ Fail
       \/ it <= S(control).rounds /\ Return("awaiting_budget_approval", Name(body, it), completed)
       \/ /\ phase' = "stage"
          /\ cur' = Calls(Name(body, it), "repeat", FALSE)
          /\ UNCHANGED <<stored, queue, completed, seen, loop, options, cancelled>>
  <2>1. S(control).rounds \in Nat
    BY <1>1, <1>2, GraphFacts
  <2>2. it > S(control).rounds \/ it <= S(control).rounds
    BY <1>2, <2>1
  <2>3. CASE it > S(control).rounds
    <3>1. ~(it <= S(control).rounds)
      BY <1>2, <2>1, <2>3
    <3> QED BY <2>3, <3>1 DEF Iterate
  <2>4. CASE it <= S(control).rounds
    <3>1. ~(it > S(control).rounds)
      BY <1>2, <2>1, <2>4
    <3> QED BY <2>4, <3>1 DEF Iterate
  <2> QED BY <2>2, <2>3, <2>4
<1> QED BY <1>8, <1>9, <1>10, <1>11, <1>12

------------------------------------------------------------------------------
(* What comes of a call                                                    *)

\* What is known of a call that ends.
LEMMA CallFacts ==
  ASSUME IInv, StageRan
  PROVE  /\ phase = "stage" /\ phase # "idle" /\ Runnable(cur.name, loop)
         /\ Here \in Indices /\ Executable(Here) /\ cur.name \in Names /\ cur.name[2] \in Nat
         /\ cur.name = Name(Here, cur.name[2]) /\ cur.escalated \in BOOLEAN
         /\ completed \in Seq(Records) /\ queue \in Seq(Indices)
         /\ seen \subseteq Indices /\ seen \cup {Here} \subseteq Indices
<1>1. phase = "stage" /\ Runnable(cur.name, loop)
  BY DEF StageRan, IInv, Locals, Position
<1>2. cur.name \in Names /\ Executable(Here)
  BY <1>1 DEF Runnable, Here
<1>3. Here \in Indices /\ cur.name[2] \in Nat /\ cur.name = Name(Here, cur.name[2])
  BY <1>2 DEF Names, Here, Name
<1>4. cur.escalated \in BOOLEAN
  BY DEF IInv, Locals, AgentCalls
<1>5. completed \in Seq(Records) /\ queue \in Seq(Indices) /\ seen \subseteq Indices
  BY DEF IInv, Locals
<1> QED BY <1>1, <1>2, <1>3, <1>4, <1>5

\* A call is counted, and its stage recorded.
LEMMA RanHistory ==
  ASSUME IInv, StageRan, graph' = graph
  PROVE  History'
<1>1. used' = used + 1 /\ entered' = entered \cup {Here} /\ preApproved' = preApproved
      /\ gatesPassed' = gatesPassed /\ fanned' = fanned
  BY DEF StageRan
<1> QED BY <1>1, CallFacts, Frame DEF IInv, History

LEMMA StageFailsStep == ASSUME IInv, StageFails PROVE IInv'
<1>1. StageRan
  BY DEF StageFails
<1>2. graph' = graph /\ graph \in Graphs
  BY DEF StageFails, Fail, Loop, stored, IInv
<1>3. History'
  BY <1>1, <1>2, RanHistory
<1>4. UNCHANGED <<waiting, toolRuns, callNo>>
  BY DEF StageFails, StageRan
<1> DEFINE targets == IF cur.via \in {"queue", "escalate"}
                      THEN Named(S(Here).onError, completed) ELSE <<>>
           c == Append(completed, Result(Here, 0, "error"))
<1>5. CASE Fail
  BY <1>1, <1>3, <1>4, <1>5, CallFacts, FailStep
<1>6. CASE Loop(targets \o queue, c, seen \cup {Here})
  <2>1. targets \in Seq(Indices) /\ c \in Seq(Records)
    BY <1>1, <1>2, CallFacts, GraphFacts, NamedType, ResultType
  <2>2. targets \o queue \in Seq(Indices)
    BY <1>1, <2>1, CallFacts
  <2> HIDE DEF targets, c
  <2> QED BY <1>1, <1>3, <1>4, <1>6, <2>1, <2>2, CallFacts, NoCalls, LoopKeeps DEF Loop, Enter
<1> QED BY <1>5, <1>6 DEF StageFails

LEMMA StageSucceedsStep == ASSUME IInv, StageSucceeds PROVE IInv'
<1>1. StageRan
  BY DEF StageSucceeds
<1>2. graph' = graph /\ graph \in Graphs
  BY DEF StageSucceeds, Loop, stored, IInv
<1>3. History'
  BY <1>1, <1>2, RanHistory
<1>4. UNCHANGED <<waiting, toolRuns, callNo>>
  BY DEF StageSucceeds, StageRan
<1> DEFINE r == [Result(Here, cur.name[2], "completed") EXCEPT !.escalated = cur.escalated]
           c == Append(completed, r)
<1>5. c \in Seq(Records)
  <2>1. Result(Here, cur.name[2], "completed") \in Records /\ cur.escalated \in BOOLEAN
    BY <1>1, CallFacts, ResultType
  <2>2. \A e \in Records, b \in BOOLEAN : [e EXCEPT !.escalated = b] \in Records
    BY DEF Records
  <2>3. r \in Records
    BY <2>1, <2>2
  <2> HIDE DEF r
  <2> QED BY <1>1, <2>3, CallFacts
<1>6. CASE cur.name[2] = 0
  <2>1. PICK q \in NextOf(Here, c) : Loop(q \o queue, c, seen \cup {Here})
    BY <1>6 DEF StageSucceeds
  <2>2. q \in Seq(Indices)
    BY <1>1, <1>2, CallFacts, NextOfType
  <2>3. q \o queue \in Seq(Indices)
    BY <1>1, <2>2, CallFacts
  <2> HIDE DEF c
  <2> QED BY <1>1, <1>3, <1>4, <1>5, <2>1, <2>3, CallFacts, NoCalls, LoopKeeps DEF Loop, Enter
<1>7. CASE cur.name[2] # 0
  <2>1. phase' = "repeat" /\ loop' \in NextRound(loop[1], cur.name[2])
        /\ completed' = c /\ cur' = NoCur
        /\ UNCHANGED <<stored, queue, seen, options, cancelled>>
    BY <1>7 DEF StageSucceeds
  <2>2. RepeatOn(loop)
    BY <1>1, <1>7, CallFacts DEF Runnable
  <2>3. loop[1] \in Indices /\ S(loop[1]).rounds \in Nat
    BY <1>2, <2>2, GraphFacts DEF RepeatOn, Names
  <2>4. loop' = <<loop[1], cur.name[2] + 1>> \/ loop' = <<loop[1], S(loop[1]).rounds + 1>>
    BY <2>1 DEF NextRound
  <2>5. loop' \in Names /\ RepeatOn(loop')
    BY <1>1, <2>2, <2>3, <2>4, CallFacts DEF RepeatOn, Names
  <2> HIDE DEF c
  <2> QED BY <1>1, <1>3, <1>4, <1>5, <2>1, <2>5, CallFacts, NoCalls, WorkStep
<1> QED BY <1>6, <1>7

\* The executor returns to wait for a tool: a call nobody asked for before.
LEMMA SuspendStep ==
  ASSUME IInv, phase # "idle", Idle, graph' = graph, callNo < MaxCalls, callNo' = callNo + 1,
         pending' \in ToolCalls, inStore', inStore' \in BOOLEAN,
         Runnable(nextStage', pending'.loop),
         UNCHANGED <<child, toolRuns>>, status' = "awaiting_tool_approval",
         nextStage' \in Names, saved' \in Seq(Records), History'
  PROVE  IInv'
<1>1. Locals' /\ phase' = "idle"
  BY IdleLocals
<1>2. Pending'
  BY Frame DEF IInv, Pending
<1>3. Waiting'
  <2>1. Executable(nextStage'[1])
    BY DEF Runnable
  <2>2. Runnable(nextStage, pending.loop)'
    BY Frame DEF Runnable, RepeatOn
  <2>3. Executable(At)'
    BY <2>1, Frame DEF At, Executable, S
  <2> QED BY <2>2, <2>3, Frame DEF Waiting
<1>4. WaitsCanBeAnswered'
  BY DEF WaitsCanBeAnswered, CanResumeTool
<1>5. Stored'
  BY <1>3, <1>4, Frame DEF Stored, RunStatuses
<1>6. Calling'
  <2>1. /\ toolRuns \in [1..MaxCalls -> Nat] /\ callNo \in 0..MaxCalls /\ MaxCalls \in Nat
        /\ \A k \in 1..MaxCalls : k > callNo => toolRuns[k] = 0
        /\ \A k \in 1..MaxCalls : toolRuns[k] <= 1
    BY BoundsAssumption DEF IInv, Calling, CallsAhead, ToolRunsOnce
  <2>2. callNo' \in 1..MaxCalls /\ callNo' > callNo
    BY <2>1
  <2>3. toolRuns[callNo'] = 0
    BY <2>1, <2>2
  <2>4. \A k \in 1..MaxCalls : k > callNo' => toolRuns[k] = 0
    BY <2>1, <2>2
  <2> QED BY <2>1, <2>2, <2>3, <2>4 DEF Calling, CallsAhead, ToolRunsOnce
<1> QED BY <1>1, <1>2, <1>5, <1>6 DEF IInv

LEMMA StageSuspendsStep == ASSUME IInv, StageSuspends PROVE IInv'
<1>1. StageRan
  BY DEF StageSuspends
<1> DEFINE lp == IF cur.name[2] = 0 THEN NoLoop ELSE <<loop[1], cur.name[2] + 1>>
<1>2. Suspend(cur.name, completed, lp) /\ UNCHANGED <<child, toolRuns>>
  BY DEF StageSuspends, StageRan
<1>3. /\ graph' = graph /\ Idle /\ callNo < MaxCalls /\ callNo' = callNo + 1 /\ inStore' = TRUE
      /\ pending' = [name |-> cur.name, completed |-> completed, loop |-> lp]
      /\ status' = "awaiting_tool_approval" /\ nextStage' = cur.name /\ saved' = completed
  BY <1>2 DEF Suspend, Return
<1>4. lp \in Names \cup {NoLoop} /\ Runnable(cur.name, lp)
  <2>1. CASE cur.name[2] = 0
    BY <1>1, <2>1, CallFacts DEF Runnable
  <2>2. CASE cur.name[2] # 0
    <3>1. RepeatOn(loop) /\ S(loop[1]).body = cur.name[1] /\ cur.name[2] \in Nat
      BY <1>1, <2>2, CallFacts DEF Runnable
    <3>2. RepeatOn(lp) /\ lp[1] = loop[1]
      BY <2>2, <3>1 DEF RepeatOn, Names
    <3> QED BY <1>1, <2>2, <3>1, <3>2, CallFacts DEF Runnable, RepeatOn
  <2> QED BY <2>1, <2>2
<1>5. pending' \in ToolCalls /\ pending'.loop = lp
  <2> HIDE DEF lp
  <2> QED BY <1>1, <1>3, <1>4, CallFacts DEF ToolCalls
<1>6. History'
  BY <1>1, <1>3, RanHistory
<1> HIDE DEF lp
<1> QED BY <1>1, <1>2, <1>3, <1>4, <1>5, <1>6, CallFacts, SuspendStep

\* A result replaces the first one of its stage, or comes last.
LEMMA ReplaceType ==
  ASSUME NEW c \in Seq(Records), NEW r \in Records
  PROVE  /\ Replace(c, r) \in Seq(Records)
         /\ \E k \in DOMAIN Replace(c, r) : Replace(c, r)[k] = r
<1> DEFINE is == {k \in DOMAIN c : c[k].name = r.name}
<1>1. CASE is # {}
  <2>1. is \subseteq 1..Len(c) /\ is \subseteq Nat
    OBVIOUS
  <2>2. PICK k \in is : \A m \in is : k <= m
    <3> HIDE DEF is
    <3> QED BY <1>1, <2>1, Least
  <2>3. k \in DOMAIN c /\ c[k].name = r.name /\ \A j \in 1..(k - 1) : c[j].name # r.name
    <3>1. ASSUME NEW j \in 1..(k - 1), c[j].name = r.name PROVE FALSE
      <4>1. j \in is /\ j < k
        BY <2>1, <2>2, <3>1
      <4> QED BY <2>1, <2>2, <4>1
    <3> QED BY <2>2, <3>1
  <2> DEFINE m == CHOOSE n \in DOMAIN c :
                     c[n].name = r.name /\ \A j \in 1..(n - 1) : c[j].name # r.name
  <2>4. m \in DOMAIN c
    BY <2>3
  <2>5. Replace(c, r) = [c EXCEPT ![m] = r]
    BY <2>3 DEF Replace
  <2> HIDE DEF m
  <2>6. [c EXCEPT ![m] = r] \in Seq(Records) /\ m \in DOMAIN [c EXCEPT ![m] = r]
        /\ [c EXCEPT ![m] = r][m] = r
    BY <2>4
  <2> QED BY <2>5, <2>6
<1>2. CASE is = {}
  <2>1. Replace(c, r) = Append(c, r)
    BY <1>2 DEF Replace
  <2>2. Append(c, r) \in Seq(Records) /\ Len(c) + 1 \in DOMAIN Append(c, r)
        /\ Append(c, r)[Len(c) + 1] = r
    OBVIOUS
  <2> QED BY <2>1, <2>2
<1> QED BY <1>1, <1>2

\* The executor returns to wait for more output.
LEMMA PauseStep ==
  ASSUME IInv, phase # "idle", NEW name, NEW c, name \in Names, c \in Seq(Records),
         Executable(name[1]), PauseIncomplete(c, name), UNCHANGED <<waiting, toolRuns, callNo>>,
         name[2] > 0 => \E j \in Indices : S(j).kind = "repeat" /\ S(j).body = name[1],
         History'
  PROVE  IInv'
<1>1. name[1] \in Indices /\ name[2] \in Nat /\ name = <<name[1], name[2]>>
  BY DEF Names
<1>2. PICK r : r = Result(name[1], name[2], "incomplete")
  OBVIOUS
<1>3. r \in Records
  BY <1>1, <1>2, ResultType
<1>4. Replace(c, r) \in Seq(Records) /\ \E k \in DOMAIN Replace(c, r) : Replace(c, r)[k] = r
  BY <1>3, ReplaceType
<1>5. /\ graph' = graph /\ Idle /\ status' = "paused_need_more_budget" /\ nextStage' = name
      /\ saved' = Replace(c, r)
  BY <1>2 DEF PauseIncomplete, Return
<1>6. WaitsCanBeAnswered'
  <2>1. CanContinueOutput'
    <3>1. Executable(At)'
      BY <1>5, Frame DEF At, Executable, S
    <3>2. \E k \in DOMAIN saved' : saved'[k] = Result(name[1], name[2], "incomplete")
      BY <1>2, <1>4, <1>5
    <3> QED BY <1>5, <3>1, <3>2 DEF CanContinueOutput, At, Result, Name
  <2> QED BY <1>5, <2>1 DEF WaitsCanBeAnswered
<1>7. child' \in {"none", "pending", "completed"}
  BY DEF IInv, Pending, waiting
<1> QED BY <1>4, <1>5, <1>6, <1>7, WaitStep DEF waiting, WaitStatuses

LEMMA StageIncompleteStep == ASSUME IInv, StageIncomplete PROVE IInv'
<1>1. StageRan
  BY DEF StageIncomplete
<1>2. PICK name, c : name = cur.name /\ c = completed
  OBVIOUS
<1>3. PauseIncomplete(c, name) /\ UNCHANGED <<waiting, toolRuns, callNo>>
  BY <1>2 DEF StageIncomplete, StageRan
<1>4. name[2] > 0 => \E j \in Indices : S(j).kind = "repeat" /\ S(j).body = name[1]
  BY <1>1, <1>2, CallFacts DEF Runnable, RepeatOn, Names
<1>5. History'
  BY <1>1, <1>3, RanHistory DEF PauseIncomplete, Return
<1>6. name \in Names /\ c \in Seq(Records) /\ Executable(name[1]) /\ phase # "idle"
  BY <1>1, <1>2, CallFacts DEF Here
<1> QED BY <1>3, <1>4, <1>5, <1>6, PauseStep

\* A contract that is broken: the stage is escalated, rerouted or blocked.
LEMMA ContractStep ==
  ASSUME IInv, phase # "idle", NEW i, NEW name, NEW c, NEW e,
         i \in Indices, Executable(i), name \in Names, c \in Seq(Records), e \in BOOLEAN,
         ContractFailure(i, name, c, e), UNCHANGED <<waiting, toolRuns, callNo>>, History'
  PROVE  IInv'
<1> DEFINE failed == [Result(i, name[2], "blocked") EXCEPT
                        !.target = IF S(i).reroute = 0 THEN {} ELSE {S(i).reroute},
                        !.escalated = e]
           after  == Append(c, failed)
           reroute == IF S(i).reroute = 0 THEN <<>> ELSE Named(<<S(i).reroute>>, after)
           onError == Named(S(i).onError, after)
           targets == IF reroute # <<>> THEN reroute ELSE onError
<1>1. graph \in Graphs /\ name[2] \in Nat /\ seen \subseteq Indices /\ budgetOn \in BOOLEAN
      /\ cancelled \in BOOLEAN
  BY DEF IInv, Locals, Names
<1>2. S(i).reroute \in Indices \cup {0} /\ S(i).onError \in Seq(Indices)
  BY <1>1, GraphFacts
<1>3. after \in Seq(Records)
  <2>1. PICK t : t = IF S(i).reroute = 0 THEN {} ELSE {S(i).reroute}
    OBVIOUS
  <2>2. t \in SUBSET Indices
    BY <1>2, <2>1
  <2>3. Result(i, name[2], "blocked") \in Records
    BY <1>1, ResultType
  <2>4. \A r \in Records, b \in BOOLEAN, x \in SUBSET Indices :
           [r EXCEPT !.target = x, !.escalated = b] \in Records
    BY DEF Records
  <2>5. failed \in Records
    BY <2>1, <2>2, <2>3, <2>4
  <2> HIDE DEF failed
  <2> QED BY <2>5
<1>4. targets \in Seq(Indices)
  <2> HIDE DEF after
  <2>1. S(i).reroute # 0 => <<S(i).reroute>> \in Seq(Indices)
    BY <1>2
  <2>2. reroute \in Seq(Indices)
    <3>1. CASE S(i).reroute = 0
      <4>1. reroute = <<>>
        BY <3>1
      <4> HIDE DEF reroute
      <4> QED BY <4>1
    <3>2. CASE S(i).reroute # 0
      <4>1. reroute = Named(<<S(i).reroute>>, after)
        BY <3>2
      <4> HIDE DEF reroute
      <4> QED BY <2>1, <3>2, <4>1, NamedType
    <3> QED BY <3>1, <3>2
  <2>3. onError \in Seq(Indices)
    BY <1>2, NamedType
  <2> QED BY <2>2, <2>3
<1>5. CASE /\ phase' = "stage" /\ cur' = Calls(Name(i, 0), "escalate", TRUE)
           /\ queue' = <<>> /\ completed' = c /\ seen' = SeenIn(c) /\ loop' = NoLoop
           /\ approve' = TRUE /\ supplied' = 0
           /\ UNCHANGED <<stored, budgetOn, cancelled>>
  <2>1. Name(i, 0) \in Names /\ Name(i, 0)[1] = i /\ Name(i, 0)[2] = 0
    BY ResultType
  <2>2. cur' \in AgentCalls /\ cur'.name = Name(i, 0)
    BY <1>5, <2>1, CallsType
  <2>3. Runnable(cur'.name, loop')
    BY <1>5, <2>1, <2>2 DEF Runnable
  <2>4. approve' \in BOOLEAN /\ budgetOn' \in BOOLEAN /\ cancelled' \in BOOLEAN
    BY <1>1, <1>5
  <2>5. queue' \in Seq(Indices) /\ seen' \subseteq Indices
    BY <1>5, SeenInType
  <2> QED BY <1>5, <2>2, <2>3, <2>4, <2>5, WorkOn
<1>6. CASE /\ Enter(targets, after, SeenIn(after))
           /\ approve' = TRUE /\ supplied' = 0
           /\ UNCHANGED <<stored, budgetOn, cancelled>>
  <2>1. SeenIn(after) \subseteq Indices
    BY <1>3, SeenInType
  <2>2. approve' \in BOOLEAN /\ budgetOn' \in BOOLEAN /\ cancelled' \in BOOLEAN
    BY <1>1, <1>6
  <2> HIDE DEF targets, after
  <2> QED BY <1>3, <1>4, <1>6, <2>1, <2>2, NoCalls, LoopStep DEF Enter
<1>7. CASE Return("blocked", name, after)
  <2> HIDE DEF after
  <2> QED BY <1>3, <1>7, BlockedStep DEF Return
<1> QED BY <1>5, <1>6, <1>7 DEF ContractFailure

LEMMA StageBreaksContractStep == ASSUME IInv, StageBreaksContract PROVE IInv'
<1>1. StageRan
  BY DEF StageBreaksContract
<1>2. PICK i, name, c, e : i = Here /\ name = cur.name /\ c = completed /\ e = cur.escalated
  OBVIOUS
<1>3. ContractFailure(i, name, c, e) /\ UNCHANGED <<waiting, toolRuns, callNo>>
  BY <1>2 DEF StageBreaksContract, StageRan
<1>4. graph' = graph
  BY <1>3 DEF ContractFailure, Return, Enter, stored
<1>5. History'
  BY <1>1, <1>4, RanHistory
<1>6. /\ i \in Indices /\ Executable(i) /\ name \in Names /\ c \in Seq(Records) /\ e \in BOOLEAN
      /\ phase # "idle"
  BY <1>1, <1>2, CallFacts
<1> QED BY <1>3, <1>5, <1>6, ContractStep

------------------------------------------------------------------------------
(* Steps of operators                                                      *)

\* An operator starts or resumes the run.
LEMMA StartStep ==
  ASSUME IInv, phase = "idle", graph' = graph, UNCHANGED <<nextStage, saved>>,
         status' = "running", phase' \in {"loop", "repeat", "stage"},
         cur' \in AgentCalls, loop' \in Names \cup {NoLoop},
         queue' \in Seq(Indices), completed' \in Seq(Records), seen' \subseteq Indices,
         approve' \in BOOLEAN, budgetOn' \in BOOLEAN, supplied' \in Indices \cup {0},
         cancelled' \in BOOLEAN,
         phase' = "stage" => Runnable(cur'.name, loop'), phase' # "repeat",
         phase' = "loop" => loop' = NoLoop,
         pending' \in ToolCalls, ~inStore', inStore' \in BOOLEAN,
         child' \in {"none", "pending", "completed"}, History', Calling'
  PROVE  IInv'
<1>1. Locals'
  <2>1. Position'
    BY Frame DEF Position, Runnable, RepeatOn
  <2> QED BY <2>1, Frame DEF Locals
<1>2. Stored'
  BY NoWait DEF IInv, Stored, RunStatuses, WaitStatuses
<1>3. Pending'
  BY Frame DEF Pending
<1> QED BY <1>1, <1>2, <1>3 DEF IInv

\* What an operator finds at a run that waits.
LEMMA WaitFacts ==
  ASSUME IInv, NEW op, NEW st, Waits(op, st), st \in WaitStatuses
  PROVE  /\ phase = "idle" /\ status = st /\ nextStage \in Names /\ At \in Indices
         /\ nextStage[2] \in Nat /\ nextStage = Name(At, nextStage[2])
         /\ st # "awaiting_tool_approval" => ~inStore
         /\ pending \in ToolCalls /\ child \in {"none", "pending", "completed"}
         /\ saved \in Seq(Records) /\ SeenIn(saved) \subseteq Indices
         /\ budgetOn \in BOOLEAN /\ supplied \in Indices \cup {0} /\ inStore \in BOOLEAN
         /\ graph \in Graphs
<1>1. phase = "idle" /\ status = st
  BY DEF Waits
<1>2. nextStage \in Names /\ (st # "awaiting_tool_approval" => ~inStore)
  BY <1>1 DEF IInv, Stored, Waiting
<1>3. At \in Indices /\ nextStage[2] \in Nat /\ nextStage = Name(At, nextStage[2])
  BY <1>2 DEF At, Names, Name
<1>4. saved \in Seq(Records)
  BY DEF IInv, Stored
<1>5. /\ pending \in ToolCalls /\ child \in {"none", "pending", "completed"}
      /\ inStore \in BOOLEAN /\ graph \in Graphs
  BY DEF IInv, Pending
<1>6. budgetOn \in BOOLEAN /\ supplied \in Indices \cup {0}
  BY DEF IInv, Locals
<1> QED BY <1>1, <1>2, <1>3, <1>4, <1>5, <1>6, SeenInType

\* Calls are as they were while a run resumes.
LEMMA SameCallsRunning ==
  ASSUME IInv, UNCHANGED <<toolRuns, callNo>>, status' = "running"
  PROVE  Calling'
BY SameCalls DEF IInv

\* A run resumes with a queue.
LEMMA ResumeStep ==
  ASSUME IInv, phase = "idle", ~inStore, NEW q, NEW c, Resume(q, c),
         q \in Seq(Indices), c \in Seq(Records),
         budgetOn' \in BOOLEAN, supplied' \in Indices \cup {0},
         UNCHANGED <<pending, inStore, toolRuns, callNo>>,
         child' \in {"none", "pending", "completed"}, History'
  PROVE  IInv'
<1>1. /\ phase' = "loop" /\ queue' = q /\ completed' = c /\ seen' = SeenIn(c)
      /\ cur' = NoCur /\ loop' = NoLoop /\ status' = "running"
      /\ approve' = TRUE /\ cancelled' = FALSE /\ graph' = graph
      /\ nextStage' = nextStage /\ saved' = saved
  BY DEF Resume
<1>2. approve' \in BOOLEAN /\ cancelled' \in BOOLEAN
  BY <1>1
<1>3. Calling'
  BY <1>1, SameCallsRunning
<1>4. pending' \in ToolCalls /\ inStore' \in BOOLEAN /\ ~inStore'
  BY DEF IInv, Pending
<1> QED BY <1>1, <1>2, <1>3, <1>4, SeenInType, NoCalls, StartStep

\* A run resumes with the call of a stage.
LEMMA ResumeStageStep ==
  ASSUME IInv, phase = "idle", NEW name, NEW c, NEW lp, NEW via, NEW e,
         ResumeStage(name, c, lp, via, e), name \in Names, c \in Seq(Records),
         lp \in Names \cup {NoLoop}, via \in {"escalate", "tool", "continue"}, e \in BOOLEAN,
         Runnable(name, lp), pending' \in ToolCalls, ~inStore', inStore' \in BOOLEAN,
         child' \in {"none", "pending", "completed"}, History', Calling'
  PROVE  IInv'
<1>1. /\ phase' = "stage" /\ queue' = <<>> /\ completed' = c /\ seen' = SeenIn(c)
      /\ cur' = [name |-> name, via |-> via, escalated |-> e, doomed |-> FALSE]
      /\ loop' = lp /\ status' = "running"
      /\ approve' = TRUE /\ budgetOn' = TRUE /\ supplied' = 0 /\ cancelled' = FALSE
      /\ graph' = graph /\ nextStage' = nextStage /\ saved' = saved
  BY DEF ResumeStage
<1>2. approve' \in BOOLEAN /\ cancelled' \in BOOLEAN /\ budgetOn' \in BOOLEAN
  BY <1>1
<1>3. cur' \in AgentCalls /\ cur'.name = name
  BY <1>1 DEF AgentCalls
<1>4. queue' \in Seq(Indices) /\ supplied' \in Indices \cup {0}
  BY <1>1
<1> QED BY <1>1, <1>2, <1>3, <1>4, SeenInType, StartStep

\* A run starts at a stage.
LEMMA EntryType ==
  ASSUME graph \in Graphs
  PROVE  Entry \in Indices
<1>1. N \in Nat \ {0} /\ 1 \in Indices /\ Indices = 1..N
  BY GraphFacts DEF Indices
<1>2. CASE S(1).kind = "visual" \/ \A i \in Indices : S(i).kind = "visual"
  BY <1>1, <1>2 DEF Entry
<1>3. CASE ~(S(1).kind = "visual" \/ \A i \in Indices : S(i).kind = "visual")
  <2>1. 1 \in Indices /\ S(1).kind # "visual" /\ \A j \in 1..(1 - 1) : S(j).kind = "visual"
    BY <1>1, <1>3
  <2>2. \E i \in Indices : S(i).kind # "visual" /\ \A j \in 1..(i - 1) : S(j).kind = "visual"
    BY <2>1
  <2> QED BY <1>3, <2>2 DEF Entry
<1> QED BY <1>2, <1>3

LEMMA RunStep == ASSUME IInv, NEW pre \in BOOLEAN, Run(pre) PROVE IInv'
<1>1. /\ phase = "idle" /\ status = "none" /\ status' = "running" /\ graph' = graph
      /\ nextStage' = nextStage /\ saved' = saved /\ phase' = "loop"
      /\ queue' = <<Entry>> /\ completed' = <<>> /\ seen' = {} /\ cur' = NoCur /\ loop' = NoLoop
      /\ approve' = pre /\ preApproved' = pre /\ budgetOn' = budgetOn /\ supplied' = supplied
      /\ cancelled' = cancelled /\ used' = used /\ gatesPassed' = gatesPassed
      /\ entered' = entered /\ fanned' = fanned
  BY DEF Run, Enter
<1>2. ~inStore /\ pending' = pending /\ inStore' = inStore /\ child' = child
  BY <1>1 DEF Run, waiting, IInv, Stored, Waiting
<1>3. /\ budgetOn' \in BOOLEAN /\ supplied' \in Indices \cup {0} /\ cancelled' \in BOOLEAN
  BY <1>1 DEF IInv, Locals
<1>4. queue' \in Seq(Indices) /\ completed' \in Seq(Records) /\ seen' \subseteq Indices
  BY <1>1, EntryType DEF IInv
<1>5. pending' \in ToolCalls /\ inStore' \in BOOLEAN /\ child' \in {"none", "pending", "completed"}
  BY <1>2 DEF IInv, Pending
<1>6. History'
  BY <1>1, Frame DEF IInv, History
<1>7. Calling'
  BY <1>1, SameCallsRunning DEF Run
<1> QED BY <1>1, <1>2, <1>3, <1>4, <1>5, <1>6, <1>7, NoCalls, StartStep

LEMMA ResumeApprovalStep == ASSUME IInv, ResumeApproval PROVE IInv'
<1>1. Waits("approve", "awaiting_approval") /\ Resume(<<At>>, saved)
  BY DEF ResumeApproval
<1>2. PICK q, c : q = <<At>> /\ c = saved
  OBVIOUS
<1>3. At \in Indices /\ c \in Seq(Records) /\ phase = "idle" /\ ~inStore /\ q \in Seq(Indices)
  BY <1>1, <1>2, WaitFacts DEF WaitStatuses
<1>4. graph' = graph /\ gatesPassed' = gatesPassed \cup {At}
  BY <1>1 DEF Resume, ResumeApproval
<1>5. History'
  <2>1. used' = used /\ preApproved' = preApproved /\ entered' = entered /\ fanned' = fanned
    BY DEF ResumeApproval
  <2> QED BY <1>3, <1>4, <2>1, Frame DEF IInv, History
<1>6. budgetOn' \in BOOLEAN /\ supplied' \in Indices \cup {0}
      /\ child' \in {"none", "pending", "completed"}
  BY <1>1, WaitFacts DEF ResumeApproval, waiting, WaitStatuses
<1> QED BY <1>1, <1>2, <1>3, <1>5, <1>6, ResumeStep DEF ResumeApproval, waiting

LEMMA ResumeInputStep == ASSUME IInv, ResumeInput PROVE IInv'
<1>1. Waits("input", "awaiting_input") /\ Resume(<<At>>, saved) /\ supplied' = At
  BY DEF ResumeInput
<1>2. PICK q, c : q = <<At>> /\ c = saved
  OBVIOUS
<1>3. At \in Indices /\ c \in Seq(Records) /\ phase = "idle" /\ ~inStore /\ q \in Seq(Indices)
  BY <1>1, <1>2, WaitFacts DEF WaitStatuses
<1>4. graph' = graph
  BY <1>1 DEF Resume
<1>5. History'
  BY <1>4, Recorded, SameHistory DEF ResumeInput, history
<1>6. budgetOn' \in BOOLEAN /\ supplied' \in Indices \cup {0}
      /\ child' \in {"none", "pending", "completed"}
  BY <1>1, <1>3, WaitFacts DEF ResumeInput, waiting, WaitStatuses
<1> QED BY <1>1, <1>2, <1>3, <1>5, <1>6, ResumeStep DEF ResumeInput, waiting, history

LEMMA ApproveBudgetStep == ASSUME IInv, ApproveBudget PROVE IInv'
<1>1. Waits("budget", "awaiting_budget_approval") /\ Resume(<<At>>, saved) /\ budgetOn' = FALSE
  BY DEF ApproveBudget
<1>2. PICK q, c : q = <<At>> /\ c = saved
  OBVIOUS
<1>3. At \in Indices /\ c \in Seq(Records) /\ phase = "idle" /\ ~inStore /\ q \in Seq(Indices)
  BY <1>1, <1>2, WaitFacts DEF WaitStatuses
<1>4. graph' = graph
  BY <1>1 DEF Resume
<1>5. History'
  BY <1>4, Recorded, SameHistory DEF ApproveBudget, history
<1>6. supplied' \in Indices \cup {0} /\ child' \in {"none", "pending", "completed"}
  BY <1>1, WaitFacts DEF ApproveBudget, waiting, WaitStatuses
<1>7. budgetOn' \in BOOLEAN
  BY <1>1
<1> QED BY <1>1, <1>2, <1>3, <1>5, <1>6, <1>7, ResumeStep DEF ApproveBudget, waiting, history

LEMMA ResumeSubWorkflowStep == ASSUME IInv, ResumeSubWorkflow PROVE IInv'
<1>1. Waits("child", "awaiting_sub_workflow")
  BY DEF ResumeSubWorkflow
<1>2. PICK c : c = Append(saved, Result(At, 0, "completed"))
  OBVIOUS
<1>3. PICK q \in NextOf(At, c) : Resume(q, c)
  BY <1>2 DEF ResumeSubWorkflow
<1>4. At \in Indices /\ saved \in Seq(Records) /\ phase = "idle" /\ ~inStore /\ graph \in Graphs
  BY <1>1, WaitFacts DEF WaitStatuses
<1>5. c \in Seq(Records) /\ q \in Seq(Indices)
  BY <1>2, <1>3, <1>4, ResultType, NextOfType
<1>6. graph' = graph /\ child' = "none"
  BY <1>3 DEF Resume, ResumeSubWorkflow
<1>7. History'
  BY <1>6, Recorded, SameHistory DEF ResumeSubWorkflow, history
<1>8. budgetOn' \in BOOLEAN /\ supplied' \in Indices \cup {0}
  BY <1>1, WaitFacts DEF ResumeSubWorkflow, WaitStatuses
<1> QED BY <1>3, <1>4, <1>5, <1>6, <1>7, <1>8, ResumeStep DEF ResumeSubWorkflow, history

LEMMA ContinueOutputStep == ASSUME IInv, ContinueOutput PROVE IInv'
<1>1. Waits("continue", "paused_need_more_budget") /\ CanContinueOutput
  BY DEF ContinueOutput
<1> DEFINE lps == IF nextStage[2] = 0 THEN NoLoop ELSE <<RepeatOf(At), nextStage[2]>>
<1>2. PICK name, c, lp : name = nextStage /\ c = Without(saved, nextStage) /\ lp = lps
  OBVIOUS
<1>3. ResumeStage(name, c, lp, "continue", FALSE)
  BY <1>2 DEF ContinueOutput
<1>4. /\ At \in Indices /\ saved \in Seq(Records) /\ phase = "idle" /\ ~inStore
      /\ nextStage \in Names /\ nextStage[2] \in Nat /\ status = "paused_need_more_budget"
  BY <1>1, WaitFacts DEF WaitStatuses
<1>5. c \in Seq(Records) /\ name \in Names /\ Executable(name[1]) /\ name[1] = At
  BY <1>1, <1>2, <1>4, WithoutType DEF CanContinueOutput, At
<1>6. Runnable(name, lp) /\ lp \in Names \cup {NoLoop}
  <2>1. CASE nextStage[2] = 0
    BY <1>2, <1>5, <2>1 DEF Runnable
  <2>2. CASE nextStage[2] # 0
    <3>1. \E j \in Indices : S(j).kind = "repeat" /\ S(j).body = At
      BY <1>4, <2>2 DEF IInv, Stored, Waiting
    <3>2. RepeatOf(At) \in Indices /\ S(RepeatOf(At)).kind = "repeat"
          /\ S(RepeatOf(At)).body = At
      BY <3>1 DEF RepeatOf
    <3>3. PICK j : j = RepeatOf(At)
      OBVIOUS
    <3>4. lp = <<j, nextStage[2]>> /\ lp[1] = j /\ lp[2] = nextStage[2]
      BY <1>2, <2>2, <3>3
    <3>5. lp \in Names
      BY <1>4, <3>2, <3>3, <3>4 DEF Names
    <3>6. RepeatOn(lp)
      BY <1>4, <1>5, <2>2, <3>2, <3>3, <3>4, <3>5 DEF RepeatOn
    <3> QED BY <1>2, <1>5, <2>2, <3>2, <3>3, <3>4, <3>5, <3>6 DEF Runnable
  <2> QED BY <2>1, <2>2
<1>7. graph' = graph /\ status' = "running"
  BY <1>3 DEF ResumeStage
<1>8. History'
  BY <1>7, Recorded, SameHistory DEF ContinueOutput, history
<1>9. Calling'
  BY <1>7, SameCallsRunning DEF ContinueOutput, history
<1>10. /\ pending' \in ToolCalls /\ ~inStore' /\ inStore' \in BOOLEAN
       /\ child' \in {"none", "pending", "completed"}
  BY <1>4 DEF ContinueOutput, waiting, IInv, Pending
<1>11. FALSE \in BOOLEAN
  OBVIOUS
<1> QED BY <1>3, <1>4, <1>5, <1>6, <1>8, <1>9, <1>10, <1>11, ResumeStageStep

LEMMA EscalateModelStep == ASSUME IInv, EscalateModel PROVE IInv'
<1>1. Waits("escalate", "blocked") /\ CanEscalateModel
  BY DEF EscalateModel
<1>2. PICK name, c : name = nextStage /\ c = Without(saved, nextStage)
  OBVIOUS
<1>3. ResumeStage(name, c, NoLoop, "escalate", TRUE)
  BY <1>2 DEF EscalateModel
<1>4. /\ saved \in Seq(Records) /\ phase = "idle" /\ ~inStore /\ nextStage \in Names
  BY <1>1, WaitFacts DEF WaitStatuses
<1>5. c \in Seq(Records) /\ name \in Names /\ Executable(name[1]) /\ name[2] = 0
  BY <1>1, <1>2, <1>4, WithoutType DEF CanEscalateModel, At
<1>6. Runnable(name, NoLoop)
  BY <1>5 DEF Runnable
<1>7. graph' = graph /\ status' = "running"
  BY <1>3 DEF ResumeStage
<1>8. History'
  BY <1>7, Recorded, SameHistory DEF EscalateModel, history
<1>9. Calling'
  BY <1>7, SameCallsRunning DEF EscalateModel, history
<1>10. /\ pending' \in ToolCalls /\ ~inStore' /\ inStore' \in BOOLEAN
       /\ child' \in {"none", "pending", "completed"}
  BY <1>4 DEF EscalateModel, waiting, IInv, Pending
<1>11. TRUE \in BOOLEAN
  OBVIOUS
<1> QED BY <1>3, <1>4, <1>5, <1>6, <1>8, <1>9, <1>10, <1>11, ResumeStageStep

\* What an answer finds at a run that waits for a tool.
LEMMA ToolFacts ==
  ASSUME IInv, NEW op, Waits(op, "awaiting_tool_approval"), CanResumeTool
  PROVE  /\ phase = "idle" /\ nextStage \in Names /\ At \in Indices /\ Executable(At)
         /\ nextStage[2] \in Nat /\ nextStage = Name(At, nextStage[2])
         /\ ToolCompleted \in Seq(Records) /\ ToolLoop \in Names \cup {NoLoop}
         /\ Runnable(nextStage, ToolLoop)
         /\ callNo \in 1..MaxCalls /\ toolRuns[callNo] = 0
<1>1. /\ phase = "idle" /\ status = "awaiting_tool_approval" /\ nextStage \in Names
      /\ At \in Indices /\ nextStage[2] \in Nat /\ nextStage = Name(At, nextStage[2])
      /\ saved \in Seq(Records) /\ pending \in ToolCalls
  BY WaitFacts DEF WaitStatuses
<1>2. Executable(At) /\ (inStore => Runnable(nextStage, pending.loop))
  BY <1>1 DEF IInv, Stored, Waiting
<1>3. ToolCompleted \in Seq(Records) /\ ToolLoop \in Names \cup {NoLoop}
  BY <1>1 DEF ToolCompleted, ToolLoop, ToolCalls
<1>4. Runnable(nextStage, ToolLoop)
  BY <1>1, <1>2 DEF ToolLoop, CanResumeTool, Runnable, At
<1>5. callNo \in 1..MaxCalls /\ toolRuns[callNo] = 0
  BY <1>1 DEF IInv, Calling, CallsAhead
<1> QED BY <1>1, <1>2, <1>3, <1>4, <1>5

\* An answer ends the wait.
LEMMA AnsweredStep ==
  ASSUME IInv, graph' = graph, Idle, pending' = NoCall, inStore' = FALSE, UNCHANGED child,
         status' \in RunStatuses \ {"running"}, Stored', History', Calling'
  PROVE  IInv'
<1>1. Locals' /\ phase' = "idle"
  BY IdleLocals
<1>2. Pending'
  BY NoCalls, Frame DEF IInv, Pending
<1> QED BY <1>1, <1>2 DEF IInv

LEMMA ApproveToolStep == ASSUME IInv, ApproveTool PROVE IInv'
<1>1. Waits("approve", "awaiting_tool_approval") /\ CanResumeTool
  BY DEF ApproveTool
<1>2. /\ toolRuns' = [toolRuns EXCEPT ![callNo] = @ + 1] /\ callNo' = callNo
      /\ pending' = NoCall /\ inStore' = FALSE /\ child' = child
  BY DEF ApproveTool
<1>3. graph' = graph /\ status' \in RunStatuses /\ status' # "awaiting_tool_approval"
  BY DEF ApproveTool, Fail, Return, ResumeStage, RunStatuses
<1>4. Calling'
  <2>1. /\ toolRuns \in [1..MaxCalls -> Nat] /\ callNo \in 1..MaxCalls /\ MaxCalls \in Nat
        /\ \A k \in 1..MaxCalls : k > callNo => toolRuns[k] = 0
        /\ \A k \in 1..MaxCalls : toolRuns[k] <= 1
        /\ toolRuns[callNo] = 0
    BY <1>1, BoundsAssumption, ToolFacts DEF IInv, Calling, CallsAhead, ToolRunsOnce
  <2>2. toolRuns' = [toolRuns EXCEPT ![callNo] = 1]
    BY <1>2, <2>1
  <2>3. toolRuns' \in [1..MaxCalls -> Nat] /\ callNo' \in 0..MaxCalls
    BY <1>2, <2>1, <2>2
  <2>4. \A k \in 1..MaxCalls : k > callNo' => toolRuns'[k] = 0
    BY <1>2, <2>1, <2>2
  <2>5. \A k \in 1..MaxCalls : toolRuns'[k] <= 1
    BY <2>1, <2>2
  <2> QED BY <1>3, <2>3, <2>4, <2>5 DEF Calling, CallsAhead, ToolRunsOnce
<1>5. History'
  BY <1>3, Recorded, SameHistory DEF ApproveTool
<1>6. CASE Fail
  <2>1. nextStage' \in Names \cup {NoName} /\ saved' \in Seq(Records) /\ Idle
    BY <1>6 DEF IInv, Stored, Fail
  <2>2. status' \in {"cancelled", "failed"}
    BY <1>6 DEF Fail
  <2>3. Stored'
    BY <1>2, <1>3, <2>1, <2>2, NoWait DEF RunStatuses, WaitStatuses
  <2> QED BY <1>2, <1>3, <1>4, <1>5, <2>1, <2>2, <2>3, AnsweredStep
<1>7. CASE Return("awaiting_budget_approval", nextStage, ToolCompleted)
  <2>1. /\ status' = "awaiting_budget_approval" /\ nextStage' = nextStage
        /\ saved' = ToolCompleted /\ Idle
    BY <1>7 DEF Return
  <2>2. nextStage' \in Names /\ saved' \in Seq(Records)
    BY <1>1, <2>1, ToolFacts
  <2>3. WaitsCanBeAnswered'
    <3>1. S(At).kind # "visual" /\ nextStage[2] \in Nat
      BY <1>1, ToolFacts DEF Executable
    <3>2. CanApproveBudget' \/ nextStage'[2] > 0
      BY <1>3, <2>1, <3>1, Frame DEF CanApproveBudget, At
    <3> QED BY <2>1, <3>2 DEF WaitsCanBeAnswered
  <2>4. Waiting'
    BY <1>2, <1>3, <2>1, <2>2, Frame DEF Waiting
  <2>5. Stored'
    BY <1>3, <2>2, <2>3, <2>4, Frame DEF Stored
  <2> QED BY <1>2, <1>3, <1>4, <1>5, <2>1, <2>5, AnsweredStep
<1>8. CASE ResumeStage(nextStage, ToolCompleted, ToolLoop, "tool", FALSE)
  <2>1. PICK name, c, lp : name = nextStage /\ c = ToolCompleted /\ lp = ToolLoop
    OBVIOUS
  <2>2. ResumeStage(name, c, lp, "tool", FALSE) /\ FALSE \in BOOLEAN
    BY <1>8, <2>1
  <2>3. /\ name \in Names /\ c \in Seq(Records) /\ lp \in Names \cup {NoLoop}
        /\ Runnable(name, lp) /\ phase = "idle"
    BY <1>1, <2>1, ToolFacts
  <2>4. /\ pending' \in ToolCalls /\ ~inStore' /\ inStore' \in BOOLEAN
        /\ child' \in {"none", "pending", "completed"}
    BY <1>2, NoCalls DEF IInv, Pending
  <2> QED BY <1>4, <1>5, <2>2, <2>3, <2>4, ResumeStageStep
<1> QED BY <1>6, <1>7, <1>8 DEF ApproveTool

LEMMA DenyToolStep == ASSUME IInv, DenyTool PROVE IInv'
<1>1. Waits("deny", "awaiting_tool_approval") /\ CanResumeTool
  BY DEF DenyTool
<1>2. /\ pending' = NoCall /\ inStore' = FALSE /\ child' = child /\ graph' = graph /\ Idle
      /\ status' = "denied" /\ nextStage' = nextStage
      /\ saved' = Append(ToolCompleted, Result(At, nextStage[2], "denied"))
  BY DEF DenyTool, Return
<1>3. Result(At, nextStage[2], "denied") \in Records /\ ToolCompleted \in Seq(Records)
  BY <1>1, ToolFacts, ResultType
<1>4. saved' \in Seq(Records) /\ nextStage' \in Names
  BY <1>1, <1>2, <1>3, ToolFacts
<1>5. Stored'
  BY <1>2, <1>4, NoWait DEF RunStatuses, WaitStatuses
<1>6. History'
  BY <1>2, Recorded, SameHistory DEF DenyTool, history
<1>7. Calling'
  BY <1>2, SameCalls DEF IInv, DenyTool, history
<1> QED BY <1>2, <1>5, <1>6, <1>7, AnsweredStep DEF RunStatuses

\* A step beside the stored run leaves it as it is.
LEMMA SameStored ==
  ASSUME IInv, UNCHANGED stored, inStore' => inStore, UNCHANGED pending \/ ~inStore',
         status = "awaiting_sub_workflow" => child' # "none"
  PROVE  Stored'
<1>1. /\ graph' = graph /\ status' = status /\ nextStage' = nextStage /\ saved' = saved
  BY DEF stored
<1>2. Stored /\ graph \in Graphs
  BY DEF IInv
<1>3. Waiting'
  BY <1>1, <1>2, Frame DEF Stored, Waiting, At
<1>4. WaitsCanBeAnswered'
  <2>1. status = "awaiting_tool_approval" => nextStage \in Names /\ nextStage[2] \in Nat
    BY <1>2 DEF Stored, Waiting, WaitStatuses, Names
  <2>2. status = "awaiting_tool_approval" => CanResumeTool' \/ nextStage'[2] > 0
    BY <1>1, <2>1 DEF CanResumeTool
  <2>3. /\ status = "awaiting_approval" => CanResumeApproval'
        /\ status = "awaiting_input" => CanResumeInput'
        /\ status = "awaiting_budget_approval" => CanApproveBudget' \/ nextStage'[2] > 0
        /\ status = "paused_need_more_budget" => CanContinueOutput'
        /\ status = "awaiting_sub_workflow" => S(At)'.kind = "sub" /\ child' # "none"
    BY <1>1, <1>2 DEF Stored, WaitsCanBeAnswered, CanResumeApproval, CanResumeInput,
                      CanApproveBudget, CanContinueOutput, At, S, Executable, Result, Name
  <2> QED BY <1>1, <2>2, <2>3 DEF WaitsCanBeAnswered
<1> QED BY <1>1, <1>2, <1>3, <1>4, Frame DEF Stored

\* A step beside the executor leaves its locals as they are.
LEMMA SameLocals ==
  ASSUME IInv, graph' = graph, UNCHANGED <<executor, options>>, cancelled' \in BOOLEAN
  PROVE  Locals' /\ phase' = phase
<1>1. /\ phase' = phase /\ queue' = queue /\ completed' = completed /\ seen' = seen
      /\ cur' = cur /\ loop' = loop /\ approve' = approve /\ budgetOn' = budgetOn
      /\ supplied' = supplied
  BY DEF executor, options
<1>2. Position'
  BY <1>1, Frame DEF IInv, Locals, Position, Runnable, RepeatOn
<1> QED BY <1>1, <1>2, Frame DEF IInv, Locals

LEMMA SameCalling ==
  ASSUME IInv, UNCHANGED <<status, toolRuns, callNo>>
  PROVE  Calling'
BY DEF IInv, Calling, CallsAhead, ToolRunsOnce

LEMMA ChildCompletesStep == ASSUME IInv, ChildCompletes PROVE IInv'
<1>1. /\ UNCHANGED <<stored, pending, inStore, executor, options, cancelled, used, history>>
      /\ child' = "completed"
  BY DEF ChildCompletes
<1>2. graph' = graph /\ status' = status /\ cancelled' \in BOOLEAN
  BY <1>1 DEF stored, IInv, Locals
<1>3. Stored' /\ Locals' /\ phase' = phase
  BY <1>1, <1>2, SameStored, SameLocals
<1>4. Pending'
  BY <1>1, <1>2, Frame DEF IInv, Pending
<1>5. History' /\ Calling'
  BY <1>1, <1>2, Recorded, SameHistory, SameCalling DEF history
<1> QED BY <1>2, <1>3, <1>4, <1>5 DEF IInv

LEMMA CancelStep == ASSUME IInv, Cancel PROVE IInv'
<1>1. /\ UNCHANGED <<stored, waiting, executor, options, used, history>>
      /\ cancelled' = TRUE /\ phase # "idle"
  BY DEF Cancel
<1>2. graph' = graph /\ status' = status /\ cancelled' \in BOOLEAN /\ status = "running"
  BY <1>1, WhileRunning DEF stored
<1>3. Stored' /\ Locals' /\ phase' = phase
  BY <1>1, <1>2, SameStored, SameLocals DEF waiting
<1>4. Pending'
  BY <1>1, <1>2, Frame DEF IInv, Pending, waiting
<1>5. History' /\ Calling'
  BY <1>1, <1>2, Recorded, SameHistory, SameCalling DEF history
<1> QED BY <1>2, <1>3, <1>4, <1>5 DEF IInv

LEMMA RestartStep == ASSUME IInv, Restart PROVE IInv'
<1>1. /\ UNCHANGED <<stored, child, executor, options, cancelled, used, history>>
      /\ pending' = NoCall /\ inStore' = FALSE /\ inStore
  BY DEF Restart
<1>2. graph' = graph /\ status' = status /\ cancelled' \in BOOLEAN
      /\ status = "awaiting_tool_approval"
  BY <1>1 DEF stored, IInv, Locals, Stored, Waiting
<1>3. Stored' /\ Locals' /\ phase' = phase
  BY <1>1, <1>2, SameStored, SameLocals
<1>4. Pending'
  BY <1>1, <1>2, NoCalls, Frame DEF IInv, Pending
<1>5. History' /\ Calling'
  BY <1>1, <1>2, Recorded, SameHistory, SameCalling DEF history
<1> QED BY <1>2, <1>3, <1>4, <1>5 DEF IInv

------------------------------------------------------------------------------
(* Concurrent branches                                                     *)

\* The number of some stages is a number.
LEMMA CountStages ==
  ASSUME graph \in Graphs, NEW some, some \subseteq Indices
  PROVE  Cardinality(some) \in Nat
<1>1. N \in Nat
  BY GraphFacts
<1>2. IsFiniteSet(Indices)
  <2>1. PICK M : M = N
    OBVIOUS
  <2>2. IsFiniteSet(1..M)
    BY <1>1, <2>1, FS_Interval
  <2> QED BY <2>1, <2>2 DEF Indices
<1>3. IsFiniteSet(some)
  <2>1. PICK all : all = Indices
    OBVIOUS
  <2> QED BY <1>2, <2>1, FS_Subset
<1> QED BY <1>3, FS_CardinalityType

\* A branch whose chain does not end is a conflict.
LEMMA PlanType ==
  ASSUME graph \in Graphs, NEW q, NEW c, q \in Seq(Indices),
         ~Conflict([k \in DOMAIN q |-> ConcurrentPlan(q[k], c)])
  PROVE  \A k \in DOMAIN q :
            /\ ConcurrentPlan(q[k], c) \in Seq(Indices) /\ ConcurrentPlan(q[k], c) # <<>>
            /\ Last(ConcurrentPlan(q[k], c)) \in Indices
            /\ \A j \in 1..(Len(ConcurrentPlan(q[k], c)) - 1) :
                  ConcurrentPlan(q[k], c)[j] \in Indices /\ Executable(ConcurrentPlan(q[k], c)[j])
<1> SUFFICES ASSUME NEW k \in DOMAIN q
             PROVE  /\ ConcurrentPlan(q[k], c) \in Seq(Indices) /\ ConcurrentPlan(q[k], c) # <<>>
                    /\ Last(ConcurrentPlan(q[k], c)) \in Indices
                    /\ \A j \in 1..(Len(ConcurrentPlan(q[k], c)) - 1) :
                          /\ ConcurrentPlan(q[k], c)[j] \in Indices
                          /\ Executable(ConcurrentPlan(q[k], c)[j])
  OBVIOUS
<1>1. PICK i, all : i = q[k] /\ all = ConcurrentOK
  OBVIOUS
<1>2. i \in Indices
  BY <1>1
<1>3. PICK p : p = ConcurrentPlan(q[k], c)
  OBVIOUS
<1>4. p = Chain(i, c, all)
  BY <1>1, <1>3 DEF ConcurrentPlan
<1>5. p \in Seq(Indices) /\ \A j \in 1..(Len(p) - 1) : p[j] \in ConcurrentOK
  BY <1>1, <1>2, <1>4, ChainType
<1>6. p # <<>>
  BY <1>3 DEF Conflict
<1>7. Last(p) \in Indices
  BY <1>5, <1>6 DEF Last
<1>8. \A j \in 1..(Len(p) - 1) : p[j] \in Indices /\ Executable(p[j])
  BY <1>5 DEF ConcurrentOK, StaticOK
<1> QED BY <1>3, <1>5, <1>6, <1>7, <1>8

\* What one branch leaves behind: it stops at a stage, which an agent can run
\* unless it is the join, and its results and the stages it leads to have types.
LEMMA BranchFacts ==
  ASSUME graph \in Graphs, NEW p, NEW o, NEW c, p \in Seq(Indices), p # <<>>,
         \A j \in 1..(Len(p) - 1) : Executable(p[j]), o \in Outcomes(p)
  PROVE  /\ Stop(p, o) \in Indices
         /\ o.how # "done" => Executable(Stop(p, o))
         /\ Ran(p, o) \subseteq Indices
         /\ BranchResults(p, o) \in Seq(Records)
         /\ Leads(p, o, c) \in Seq(Indices)
<1>1. /\ o.at \in 1..Len(p) /\ o.how \in {"done", "error", "suspended", "incomplete", "blocked"}
      /\ o.how # "done" => o.at \in 1..(Len(p) - 1)
  BY DEF Outcomes
<1>2. /\ Stop(p, o) \in Indices /\ Last(p) \in Indices
      /\ o.how # "done" => Executable(Stop(p, o))
  BY <1>1 DEF Stop, Last
<1>3. Ran(p, o) \subseteq Indices
  BY <1>1 DEF Ran
<1>4. BranchResults(p, o) \in Seq(Records)
  <2> DEFINE done == [j \in 1..(o.at - 1) |-> Result(p[j], 0, "completed")]
             last == IF o.how \in {"error", "incomplete", "blocked"}
                     THEN <<Result(Stop(p, o), 0, o.how)>> ELSE <<>>
  <2>1. \A j \in 1..(o.at - 1) : Result(p[j], 0, "completed") \in Records
    <3> SUFFICES ASSUME NEW j \in 1..(o.at - 1)
                 PROVE  Result(p[j], 0, "completed") \in Records
      OBVIOUS
    <3>1. PICK i : i = p[j]
      OBVIOUS
    <3>2. i \in Indices
      BY <1>1, <3>1
    <3> QED BY <3>1, <3>2, ResultType
  <2>2. done \in Seq(Records)
    <3>1. PICK m \in Nat : m = o.at - 1
      BY <1>1
    <3> QED BY <2>1, <3>1
  <2>3. last \in Seq(Records)
    <3>1. CASE o.how \in {"error", "incomplete", "blocked"}
      <4>1. PICK i, r : i = Stop(p, o) /\ r = Result(i, 0, o.how)
        <5>1. PICK i : i = Stop(p, o)
          OBVIOUS
        <5> QED BY <5>1
      <4>2. r \in Records
        BY <1>2, <3>1, <4>1, ResultType
      <4> QED BY <3>1, <4>1, <4>2
    <3>2. CASE o.how \notin {"error", "incomplete", "blocked"}
      BY <3>2
    <3> QED BY <3>1, <3>2
  <2>4. BranchResults(p, o) = done \o last
    BY DEF BranchResults
  <2> HIDE DEF done, last
  <2> QED BY <2>2, <2>3, <2>4
<1>5. Leads(p, o, c) \in Seq(Indices)
  <2>1. CASE o.how = "done"
    BY <1>2, <2>1 DEF Leads
  <2>2. CASE o.how = "error"
    <3>1. PICK q : q = S(Stop(p, o)).onError
      OBVIOUS
    <3>2. q \in Seq(Indices)
      BY <1>2, <3>1, GraphFacts
    <3>3. Leads(p, o, c) = Named(q, c)
      BY <2>2, <3>1 DEF Leads
    <3> QED BY <3>2, <3>3, NamedType
  <2>3. CASE o.how \notin {"done", "error"}
    BY <2>3 DEF Leads
  <2> QED BY <2>1, <2>2, <2>3
<1> QED BY <1>2, <1>3, <1>4, <1>5

\* The first of the branches that ended so is one of them.
LEMMA FirstFacts ==
  ASSUME NEW n \in Nat, NEW out, DOMAIN out = 1..n, NEW h, Those(out, h) # {}
  PROVE  First(out, h) \in 1..n /\ out[First(out, h)].how = h
<1>1. PICK ks : ks = Those(out, h)
  OBVIOUS
<1>2. ks \subseteq Nat /\ ks # {}
  BY <1>1 DEF Those
<1>3. \E k \in ks : \A j \in ks : k <= j
  BY <1>2, Least
<1> QED BY <1>1, <1>3 DEF First, Those

\* The branches a parallel stage runs, each with its outcome.
BranchesRan(plans, out) ==
    /\ \E n \in Nat : DOMAIN plans = 1..n /\ DOMAIN out = 1..n
    /\ \A k \in DOMAIN plans :
          /\ plans[k] \in Seq(Indices) /\ plans[k] # <<>> /\ out[k] \in Outcomes(plans[k])
          /\ \A j \in 1..(Len(plans[k]) - 1) : Executable(plans[k][j])

\* However the branches end, what the executor does next keeps the invariant.
LEMMA JoinStep ==
  ASSUME IInv, phase # "idle", Tail(queue) \in Seq(Indices), NEW plans, NEW out, NEW c,
         BranchesRan(plans, out), c \in Seq(Records), JoinBranches(plans, out, c),
         toolRuns' = toolRuns, History'
  PROVE  IInv'
<1> DEFINE stop(h)   == Stop(plans[First(out, h)], out[First(out, h)])
           name(h)   == Name(stop(h), 0)
           leads     == [k \in DOMAIN plans |-> Leads(plans[k], out[k], c)]
           results   == FlattenSeq([k \in DOMAIN plans |-> BranchResults(plans[k], out[k])])
           others(h) == c \o Without(results, name(h))
           next      == Unique(FlattenSeq(leads)) \o Tail(queue)
           after     == c \o results
<1>1. PICK n \in Nat : DOMAIN plans = 1..n /\ DOMAIN out = 1..n
  BY DEF BranchesRan
<1>2. graph \in Graphs
  BY DEF IInv
<1>3. \A k \in 1..n : /\ Stop(plans[k], out[k]) \in Indices
                      /\ out[k].how # "done" => Executable(Stop(plans[k], out[k]))
                      /\ BranchResults(plans[k], out[k]) \in Seq(Records)
                      /\ Leads(plans[k], out[k], c) \in Seq(Indices)
  <2> SUFFICES ASSUME NEW k \in 1..n
               PROVE  /\ Stop(plans[k], out[k]) \in Indices
                      /\ out[k].how # "done" => Executable(Stop(plans[k], out[k]))
                      /\ BranchResults(plans[k], out[k]) \in Seq(Records)
                      /\ Leads(plans[k], out[k], c) \in Seq(Indices)
    OBVIOUS
  <2>1. PICK p, o : p = plans[k] /\ o = out[k]
    OBVIOUS
  <2>2. /\ p \in Seq(Indices) /\ p # <<>> /\ o \in Outcomes(p)
        /\ \A j \in 1..(Len(p) - 1) : Executable(p[j])
    BY <1>1, <2>1 DEF BranchesRan
  <2>3. /\ Stop(p, o) \in Indices
        /\ o.how # "done" => Executable(Stop(p, o))
        /\ BranchResults(p, o) \in Seq(Records)
        /\ Leads(p, o, c) \in Seq(Indices)
    BY <1>2, <2>2, BranchFacts
  <2> QED BY <2>1, <2>3
<1>4. results \in Seq(Records)
  <2>1. PICK ss : ss = [k \in DOMAIN plans |-> BranchResults(plans[k], out[k])]
    OBVIOUS
  <2>2. ss \in Seq(Seq(Records))
    BY <1>1, <1>3, <2>1
  <2> QED BY <2>1, <2>2, FlattenType
<1>5. next \in Seq(Indices)
  <2>1. PICK ss : ss = leads
    OBVIOUS
  <2>2. ss \in Seq(Seq(Indices))
    BY <1>1, <1>3, <2>1
  <2>3. FlattenSeq(ss) \in Seq(Indices)
    <3>1. PICK T : T = Indices
      OBVIOUS
    <3> QED BY <2>2, <3>1, FlattenType
  <2>4. Unique(FlattenSeq(ss)) \in Seq(Indices)
    BY <2>3, UniqueType
  <2> QED BY <2>1, <2>4
<1>6. after \in Seq(Records)
  <2> HIDE DEF results
  <2> QED BY <1>4
<1>7. \A h : others(h) \in Seq(Records)
  <2> SUFFICES ASSUME NEW h PROVE others(h) \in Seq(Records)
    OBVIOUS
  <2>1. PICK r, m : r = results /\ m = name(h)
    <3>1. PICK r : r = results
      OBVIOUS
    <3>2. PICK m : m = name(h)
      OBVIOUS
    <3> QED BY <3>1, <3>2
  <2>2. Without(r, m) \in Seq(Records)
    BY <1>4, <2>1, WithoutType
  <2> QED BY <2>1, <2>2
<1>8. ASSUME NEW h \in {"suspended", "incomplete", "blocked"}, Those(out, h) # {}
      PROVE  /\ stop(h) \in Indices /\ Executable(stop(h)) /\ name(h) \in Names
             /\ name(h)[1] = stop(h) /\ name(h)[2] = 0
  <2>1. PICK k : k = First(out, h)
    OBVIOUS
  <2>2. k \in 1..n /\ out[k].how = h
    BY <1>1, <1>8, <2>1, FirstFacts
  <2>3. PICK i : i = Stop(plans[k], out[k])
    OBVIOUS
  <2>4. i \in Indices /\ Executable(i)
    BY <1>3, <2>2, <2>3
  <2>5. i = stop(h)
    BY <2>1, <2>3
  <2> HIDE DEF stop
  <2> QED BY <2>4, <2>5, ResultType
<1>9. \/ Fail /\ UNCHANGED <<waiting, callNo>>
      \/ /\ Those(out, "suspended") # {}
         /\ Suspend(name("suspended"), after, NoLoop) /\ UNCHANGED child
      \/ /\ Those(out, "incomplete") # {}
         /\ PauseIncomplete(others("incomplete"), name("incomplete"))
         /\ UNCHANGED <<waiting, callNo>>
      \/ /\ Those(out, "blocked") # {}
         /\ ContractFailure(stop("blocked"), name("blocked"), others("blocked"), FALSE)
         /\ UNCHANGED <<waiting, callNo>>
      \/ Loop(next, after, SeenIn(after)) /\ UNCHANGED <<waiting, callNo>>
  BY DEF JoinBranches
<1> HIDE DEF stop, name, leads, results, others, next, after
<1>10. CASE Fail /\ UNCHANGED <<waiting, callNo>>
  BY <1>10, FailStep
<1>11. CASE /\ Those(out, "suspended") # {}
            /\ Suspend(name("suspended"), after, NoLoop) /\ UNCHANGED child
  <2>1. PICK m, d : m = name("suspended") /\ d = after
    OBVIOUS
  <2>2. /\ m \in Names /\ m[2] = 0 /\ Executable(m[1]) /\ d \in Seq(Records)
    BY <1>6, <1>8, <1>11, <2>1
  <2>3. /\ graph' = graph /\ Idle /\ callNo < MaxCalls /\ callNo' = callNo + 1 /\ inStore' = TRUE
        /\ pending' = [name |-> m, completed |-> d, loop |-> NoLoop]
        /\ status' = "awaiting_tool_approval" /\ nextStage' = m /\ saved' = d
    BY <1>11, <2>1 DEF Suspend, Return
  <2>4. Runnable(m, NoLoop)
    BY <2>2 DEF Runnable
  <2>5. pending' \in ToolCalls /\ pending'.loop = NoLoop
    BY <2>2, <2>3 DEF ToolCalls
  <2> QED BY <1>11, <2>2, <2>3, <2>4, <2>5, SuspendStep
<1>12. CASE /\ Those(out, "incomplete") # {}
            /\ PauseIncomplete(others("incomplete"), name("incomplete"))
            /\ UNCHANGED <<waiting, callNo>>
  <2>1. PICK m, d : m = name("incomplete") /\ d = others("incomplete")
    OBVIOUS
  <2>2. m \in Names /\ m[2] = 0 /\ Executable(m[1]) /\ d \in Seq(Records)
    BY <1>7, <1>8, <1>12, <2>1
  <2>3. PauseIncomplete(d, m)
    BY <1>12, <2>1
  <2> QED BY <1>12, <2>2, <2>3, PauseStep
<1>13. CASE /\ Those(out, "blocked") # {}
            /\ ContractFailure(stop("blocked"), name("blocked"), others("blocked"), FALSE)
            /\ UNCHANGED <<waiting, callNo>>
  <2>1. PICK i, m, d : i = stop("blocked") /\ m = name("blocked") /\ d = others("blocked")
    OBVIOUS
  <2>2. i \in Indices /\ m \in Names /\ Executable(i) /\ d \in Seq(Records)
    BY <1>7, <1>8, <1>13, <2>1
  <2>3. ContractFailure(i, m, d, FALSE)
    BY <1>13, <2>1
  <2> QED BY <1>13, <2>2, <2>3, ContractStep
<1>14. CASE Loop(next, after, SeenIn(after)) /\ UNCHANGED <<waiting, callNo>>
  <2>1. SeenIn(after) \subseteq Indices
    BY <1>6, SeenInType
  <2> QED BY <1>5, <1>6, <1>14, <2>1, NoCalls, LoopKeeps DEF Loop, Enter
<1> QED BY <1>9, <1>10, <1>11, <1>12, <1>13, <1>14

LEMMA RunBranchesStep == ASSUME IInv, RunBranches PROVE IInv'
<1>1. Pops("parallel") /\ phase # "idle" /\ graph \in Graphs
  BY DEF RunBranches, Pops, IInv
<1>2. PICK i : i = Head(queue)
  OBVIOUS
<1>3. PICK c : c = Append(completed, Result(i, 0, "completed"))
  OBVIOUS
<1>4. /\ i \in Indices /\ c \in Seq(Records) /\ S(i).kind = "parallel"
      /\ Name(i, 0) \in Names /\ Name(i, 0)[1] = i /\ Name(i, 0)[2] = 0
      /\ Tail(queue) \in Seq(Indices)
  BY <1>1, <1>2, <1>3, Head1, ResultType
<1>5. PICK q \in Branches(i, completed) :
         LET plans == [k \in DOMAIN q |-> ConcurrentPlan(q[k], c)]
         IN  /\ ~Conflict(plans)
             /\ fanned' = fanned \cup ToSet(q)
             /\ \/ /\ Return("awaiting_budget_approval", Name(i, 0), c)
                   /\ UNCHANGED <<waiting, used, entered, callNo>>
                \/ \E out \in Runs(plans) :
                     LET ran == UNION {Ran(plans[k], out[k]) : k \in DOMAIN q} IN
                     /\ used' = used + Cardinality(ran)
                     /\ entered' = entered \cup ran
                     /\ JoinBranches(plans, out, c)
  BY <1>2, <1>3 DEF RunBranches
<1>6. PICK plans : plans = [k \in DOMAIN q |-> ConcurrentPlan(q[k], c)]
  OBVIOUS
<1>7. /\ fanned' = fanned \cup ToSet(q)
      /\ \/ /\ Return("awaiting_budget_approval", Name(i, 0), c)
            /\ UNCHANGED <<waiting, used, entered, callNo>>
         \/ \E out \in Runs(plans) :
              LET ran == UNION {Ran(plans[k], out[k]) : k \in DOMAIN q} IN
              /\ used' = used + Cardinality(ran)
              /\ entered' = entered \cup ran
              /\ JoinBranches(plans, out, c)
  BY <1>5, <1>6
<1>8. q \in Seq(Indices)
  BY <1>1, <1>4, BranchesType
<1>9. /\ DOMAIN plans = 1..Len(q) /\ DOMAIN q = 1..Len(q) /\ Len(q) \in Nat
      /\ \A k \in DOMAIN plans :
            /\ plans[k] \in Seq(Indices) /\ plans[k] # <<>>
            /\ \A j \in 1..(Len(plans[k]) - 1) : Executable(plans[k][j])
  <2>1. ~Conflict([k \in DOMAIN q |-> ConcurrentPlan(q[k], c)])
    BY <1>5
  <2>2. \A k \in DOMAIN q :
           /\ ConcurrentPlan(q[k], c) \in Seq(Indices) /\ ConcurrentPlan(q[k], c) # <<>>
           /\ \A j \in 1..(Len(ConcurrentPlan(q[k], c)) - 1) :
                 Executable(ConcurrentPlan(q[k], c)[j])
    BY <1>1, <1>8, <2>1, PlanType
  <2>3. DOMAIN plans = DOMAIN q /\ \A k \in DOMAIN q : plans[k] = ConcurrentPlan(q[k], c)
    BY <1>6
  <2>4. DOMAIN q = 1..Len(q) /\ Len(q) \in Nat
    BY <1>8
  <2> QED BY <2>2, <2>3, <2>4
<1>10. ToSet(q) \subseteq Indices
  BY <1>8 DEF ToSet
<1>11. UNCHANGED <<preApproved, gatesPassed, toolRuns>>
  BY DEF RunBranches
<1>12. /\ used \in Nat /\ preApproved \in BOOLEAN
       /\ gatesPassed \subseteq Indices /\ entered \subseteq Indices /\ fanned \subseteq Indices
  BY DEF IInv, History
<1>13. CASE /\ Return("awaiting_budget_approval", Name(i, 0), c)
            /\ UNCHANGED <<waiting, used, entered, callNo>>
  <2>1. /\ graph' = graph /\ Idle /\ status' = "awaiting_budget_approval"
        /\ nextStage' = Name(i, 0) /\ saved' = c
    BY <1>13 DEF Return
  <2>2. History'
    BY <1>7, <1>10, <1>11, <1>12, <1>13, <2>1, SameHistory
  <2>3. S(nextStage'[1]).kind # "visual" /\ nextStage'[2] = 0 /\ nextStage' \in Names
    BY <1>4, <2>1
  <2> QED BY <1>1, <1>4, <1>11, <1>13, <2>1, <2>2, <2>3, BudgetStep
<1>14. CASE \E out \in Runs(plans) :
              LET ran == UNION {Ran(plans[k], out[k]) : k \in DOMAIN q} IN
              /\ used' = used + Cardinality(ran)
              /\ entered' = entered \cup ran
              /\ JoinBranches(plans, out, c)
  <2>1. PICK out \in Runs(plans) :
           LET ran == UNION {Ran(plans[k], out[k]) : k \in DOMAIN q} IN
           /\ used' = used + Cardinality(ran)
           /\ entered' = entered \cup ran
           /\ JoinBranches(plans, out, c)
    BY <1>14
  <2>2. PICK ran : ran = UNION {Ran(plans[k], out[k]) : k \in DOMAIN q}
    OBVIOUS
  <2>3. /\ used' = used + Cardinality(ran) /\ entered' = entered \cup ran
        /\ JoinBranches(plans, out, c)
    BY <2>1, <2>2
  <2>4. DOMAIN out = DOMAIN plans /\ \A k \in DOMAIN plans : out[k] \in Outcomes(plans[k])
    BY <2>1 DEF Runs
  <2>5. BranchesRan(plans, out)
    BY <1>9, <2>4 DEF BranchesRan
  <2>6. \A k \in DOMAIN q : Ran(plans[k], out[k]) \subseteq Indices
    <3> SUFFICES ASSUME NEW k \in DOMAIN q PROVE Ran(plans[k], out[k]) \subseteq Indices
      OBVIOUS
    <3>1. PICK p, o : p = plans[k] /\ o = out[k]
      OBVIOUS
    <3>2. /\ p \in Seq(Indices) /\ p # <<>> /\ o \in Outcomes(p)
          /\ \A j \in 1..(Len(p) - 1) : Executable(p[j])
      BY <1>9, <2>4, <3>1
    <3>3. Ran(p, o) \subseteq Indices
      BY <1>1, <3>2, BranchFacts
    <3> QED BY <3>1, <3>3
  <2>7. ran \subseteq Indices
    BY <2>2, <2>6
  <2>8. Cardinality(ran) \in Nat
    BY <1>1, <2>7, CountStages
  <2>9. graph' = graph
    BY <2>3 DEF JoinBranches, Fail, Suspend, PauseIncomplete, ContractFailure, Return, Loop,
                Enter, stored
  <2>10. History'
    <3>1. used' \in Nat
      BY <1>12, <2>3, <2>8
    <3>2. /\ preApproved' \in BOOLEAN /\ gatesPassed' \subseteq Indices
          /\ entered' \subseteq Indices /\ fanned' \subseteq Indices
      BY <1>7, <1>10, <1>11, <1>12, <2>3, <2>7
    <3> QED BY <2>9, <3>1, <3>2, Frame DEF History
  <2> QED BY <1>1, <1>4, <1>11, <2>3, <2>5, <2>10, JoinStep
<1> QED BY <1>7, <1>13, <1>14

------------------------------------------------------------------------------
(* The invariant                                                           *)

\* A step of the executor keeps the invariant.
LEMMA ExecuteKeeps == IInv /\ Execute => IInv'
<1> SUFFICES ASSUME IInv, Execute PROVE IInv'
  OBVIOUS
<1>1. CASE SkipSeen
  BY <1>1, SkipSeenStep
<1>2. CASE PassVisual
  BY <1>2, PassVisualStep
<1>3. CASE PauseForApproval
  BY <1>3, PauseForApprovalStep
<1>4. CASE PauseForInput
  BY <1>4, PauseForInputStep
<1>5. CASE JoinWaits
  BY <1>5, JoinWaitsStep
<1>6. CASE PassControl
  BY <1>6, PassControlStep
<1>7. CASE TakeRoute
  BY <1>7, TakeRouteStep
<1>8. CASE SelectNoBranch
  BY <1>8, SelectNoBranchStep
<1>9. CASE FanOut
  BY <1>9, FanOutStep
<1>10. CASE RunBranches
  BY <1>10, RunBranchesStep
<1>11. CASE RunChild
  BY <1>11, RunChildStep
<1>12. CASE BlockUnready
  BY <1>12, BlockUnreadyStep
<1>13. CASE CallStage
  BY <1>13, CallStageStep
<1>14. CASE Finish
  BY <1>14, FinishStep
<1>15. CASE EnterRepeat
  BY <1>15, EnterRepeatStep
<1>16. CASE Iterate
  BY <1>16, IterateStep
<1>17. CASE StageFails
  BY <1>17, StageFailsStep
<1>18. CASE StageSuspends
  BY <1>18, StageSuspendsStep
<1>19. CASE StageIncomplete
  BY <1>19, StageIncompleteStep
<1>20. CASE StageBreaksContract
  BY <1>20, StageBreaksContractStep
<1>21. CASE StageSucceeds
  BY <1>21, StageSucceedsStep
<1> QED
  BY <1>1, <1>2, <1>3, <1>4, <1>5, <1>6, <1>7, <1>8, <1>9, <1>10, <1>11, <1>12, <1>13, <1>14,
     <1>15, <1>16, <1>17, <1>18, <1>19, <1>20, <1>21 DEF Execute

\* So does an operation of the client, of the approval queue or a restart.
LEMMA OperateKeeps == IInv /\ Operate => IInv'
<1> SUFFICES ASSUME IInv, Operate PROVE IInv'
  OBVIOUS
<1>1. CASE \E pre \in BOOLEAN : Run(pre)
  BY <1>1, RunStep
<1>2. CASE ResumeApproval
  BY <1>2, ResumeApprovalStep
<1>3. CASE ResumeInput
  BY <1>3, ResumeInputStep
<1>4. CASE ApproveTool
  BY <1>4, ApproveToolStep
<1>5. CASE DenyTool
  BY <1>5, DenyToolStep
<1>6. CASE ContinueOutput
  BY <1>6, ContinueOutputStep
<1>7. CASE ApproveBudget
  BY <1>7, ApproveBudgetStep
<1>8. CASE EscalateModel
  BY <1>8, EscalateModelStep
<1>9. CASE ChildCompletes
  BY <1>9, ChildCompletesStep
<1>10. CASE ResumeSubWorkflow
  BY <1>10, ResumeSubWorkflowStep
<1>11. CASE Cancel
  BY <1>11, CancelStep
<1>12. CASE Restart
  BY <1>12, RestartStep
<1> QED
  BY <1>1, <1>2, <1>3, <1>4, <1>5, <1>6, <1>7, <1>8, <1>9, <1>10, <1>11, <1>12 DEF Operate

\* And so does a stutter.
LEMMA StutterKeeps == IInv /\ UNCHANGED vars => IInv'
<1> SUFFICES ASSUME IInv, UNCHANGED vars PROVE IInv'
  OBVIOUS
<1>1. UNCHANGED <<stored, waiting, executor, options, cancelled, used, history>>
  BY DEF vars
<1>2. graph' = graph /\ status' = status /\ cancelled' \in BOOLEAN
  BY <1>1 DEF stored, IInv, Locals
<1>3. Stored'
  <2>1. UNCHANGED pending /\ UNCHANGED inStore /\ UNCHANGED child
    BY <1>1 DEF waiting
  <2>2. status = "awaiting_sub_workflow" => child # "none"
    BY DEF IInv, Stored, WaitsCanBeAnswered
  <2> QED BY <1>1, <2>1, <2>2, SameStored
<1>4. Locals' /\ phase' = phase
  BY <1>1, <1>2, SameLocals
<1>5. Pending'
  BY <1>1, <1>2, Frame DEF IInv, Pending, waiting
<1>6. History' /\ Calling'
  BY <1>1, <1>2, Recorded, SameHistory, SameCalling DEF history
<1> QED BY <1>2, <1>3, <1>4, <1>5, <1>6 DEF IInv

\* IInv is an invariant: it holds at the start and every step keeps it.
THEOREM Invariant == Spec => []IInv
<1>1. Init => IInv
  BY IInvInit
<1>2. IInv /\ [Next]_vars => IInv'
  BY ExecuteKeeps, OperateKeeps, StutterKeeps DEF Next
<1> QED BY <1>1, <1>2, PTL DEF Spec

\* Every variable has its type, for all graphs a definition can be validated
\* into and any number of tool calls: the executor never leaves the stages of
\* its graph, and what it stores names stages of it.
THEOREM TypeCorrect == Spec => []TypeOK
<1>1. IInv => TypeOK
  BY IInvImplies
<1> QED BY <1>1, Invariant, PTL

\* What a run waits for is something the stage it waits at can be given, so the
\* operation that answers it is not refused: an approval for a gate, an input for
\* an input stage, a child for a sub-workflow, more output for a stage that is
\* recorded as incomplete. Only the tool and budget pauses of a repeat's
\* iteration are left out, as in WaitsCanBeAnswered.
THEOREM WaitsAnswered == Spec => []WaitsCanBeAnswered
<1>1. IInv => WaitsCanBeAnswered
  BY IInvImplies
<1> QED BY <1>1, Invariant, PTL

\* No answer, in whatever order answers, retries and restarts come, runs a
\* suspended tool call a second time.
THEOREM ToolsRunOnce == Spec => []ToolRunsOnce
<1>1. IInv => ToolRunsOnce
  BY IInvImplies
<1> QED BY <1>1, Invariant, PTL

------------------------------------------------------------------------------
(* What a run records, stage by stage: IInv strengthened to Order. Where the   *)
(* executor is says which results can be there already; what it stored when it *)
(* stopped says which the next operation starts from.                          *)

\* A contract that s breaks can do no more than block the run.
OnlyBlocks(s) ==
    s.contract # "none" =>
       s.reroute = 0 /\ s.onError = <<>> /\ ~(s.contract = "escalate" /\ s.escalation)

\* A body belongs to one repeat, and a contract it breaks does not move the run
\* elsewhere.
OwnBodies(g) ==
    \A j \in DOMAIN g.stages :
       g.stages[j].kind = "repeat" /\ g.stages[j].body \in DOMAIN g.stages =>
          /\ OnlyBlocks(g.stages[g.stages[j].body])
          /\ \A k \in DOMAIN g.stages :
                g.stages[k].kind = "repeat" /\ g.stages[k].body = g.stages[j].body => k = j
BodiesApart == \A g \in Graphs : OwnBodies(g)

NamesIn(c)  == {c[k].name : k \in DOMAIN c}
Distinct(c) == \A j, k \in DOMAIN c : c[j].name = c[k].name => j = k
Joined(c)   == \A k \in DOMAIN c : S(c[k].name[1]).kind = "join" =>
                  \A i \in Required(c[k].name[1]) : \E j \in 1..(k - 1) : c[j].name[1] = i

\* Iterations have results only of repeats that have one too, or of the repeat
\* under way, up to its round.
Looped(c, lp) ==
    \A k \in DOMAIN c : c[k].name[2] > 0 =>
       \E j \in Indices :
          /\ S(j).kind = "repeat" /\ S(j).body = c[k].name[1]
          /\ j \in SeenIn(c) \/ (lp[1] = j /\ c[k].name[2] < lp[2])

Sound(c, lp) == Distinct(c) /\ Joined(c) /\ Looped(c, lp)

\* The repeat an iteration belongs to has not ended.
UnderWay(c, name) ==
    \E r \in Indices :
       /\ S(r).kind = "repeat" /\ S(r).body = name[1] /\ name[2] <= S(r).rounds
       /\ r \notin SeenIn(c) /\ Sound(c, <<r, name[2]>>)

\* c is what a run has when name, a stage or an iteration, starts.
Before(c, name) ==
    /\ name \notin NamesIn(c)
    /\ IF name[2] = 0 THEN Sound(c, NoLoop) ELSE UnderWay(c, name)

AtStop(c, name) ==
    \E b \in Seq(Records), r \in Records :
       c = Append(b, r) /\ r.name = name /\ r.status # "completed" /\ Before(b, name)
Kept(c) == \A k \in DOMAIN saved : saved[k].status = "completed" =>
              \E j \in DOMAIN c : c[j] = saved[k]

Running ==
    /\ phase = "idle" => completed = <<>>
    /\ phase = "loop" => Sound(completed, NoLoop) /\ SeenIn(completed) \subseteq seen
    /\ phase = "repeat" => loop[1] \notin SeenIn(completed) /\ Sound(completed, loop)
    /\ phase = "stage" =>
          /\ Before(completed, cur.name)
          /\ cur.via \in {"queue", "escalate"} => cur.name[2] = 0
          /\ cur.name[2] = 0 => SeenIn(completed) \subseteq seen
    /\ phase # "idle" => Kept(completed)

\* c is what a run holds that has returned with status st, at stage name.
HeldAt(st, name, c) ==
    /\ Distinct(c) /\ Joined(c)
    /\ st = "none" => c = <<>>
    /\ st = "awaiting_tool_approval" => Before(c, name)
    /\ st = "awaiting_sub_workflow" => Before(c, name) /\ name[2] = 0
    /\ st \in {"awaiting_approval", "awaiting_input"} => Sound(c, NoLoop)
    /\ st = "awaiting_budget_approval" /\ name[2] = 0 => Sound(c, NoLoop)
    /\ st \in {"paused_need_more_budget", "blocked"} => AtStop(c, name)
Halted == /\ HeldAt(status, nextStage, saved)
          /\ status = "awaiting_tool_approval" /\ inStore => pending.completed = saved
Order == Running /\ Halted

\* What a step does to what has completed.
Stays  == \A r \in Results(saved) : r.status = "completed" => r \in Results(saved')
Proper == Order' /\ Stays

------------------------------------------------------------------------------
LEMMA OneRepeat ==
  ASSUME BodiesApart, graph \in Graphs
  PROVE  \A j \in Indices : S(j).kind = "repeat" /\ S(j).body \in Indices =>
            /\ OnlyBlocks(S(S(j).body))
            /\ \A k \in Indices : S(k).kind = "repeat" /\ S(k).body = S(j).body => k = j
<1>1. OwnBodies(graph) /\ DOMAIN graph.stages = Indices
  BY GraphFacts, GraphsAssumption DEF BodiesApart, ValidGraph, Indices, N
<1> QED BY <1>1 DEF OwnBodies, S

LEMMA AppendNames ==
  \A c \in Seq(Records), r \in Records :
     /\ NamesIn(Append(c, r)) = NamesIn(c) \cup {r.name}
     /\ SeenIn(Append(c, r)) = SeenIn(c) \cup {r.name[1]}
<1> SUFFICES ASSUME NEW c \in Seq(Records), NEW r \in Records
             PROVE  /\ NamesIn(Append(c, r)) = NamesIn(c) \cup {r.name}
                    /\ SeenIn(Append(c, r)) = SeenIn(c) \cup {r.name[1]}
  OBVIOUS
<1>1. PICK n \in Nat : n = Len(c) /\ DOMAIN c = 1..n
  OBVIOUS
<1>2. PICK d : d = Append(c, r)
  OBVIOUS
<1>3. /\ DOMAIN d = 1..(n + 1) /\ d[n + 1] = r /\ \A k \in 1..n : d[k] = c[k]
  BY <1>1, <1>2
<1>4. 1..(n + 1) = (1..n) \cup {n + 1}
  BY <1>1
<1>5. NamesIn(d) = NamesIn(c) \cup {r.name}
  <2>1. NamesIn(c) = {c[k].name : k \in 1..n} /\ NamesIn(d) = {d[k].name : k \in 1..(n + 1)}
    BY <1>1, <1>3 DEF NamesIn
  <2>2. ASSUME NEW x \in NamesIn(d) PROVE x \in NamesIn(c) \cup {r.name}
    BY <1>3, <1>4, <2>1, <2>2
  <2>3. ASSUME NEW x \in NamesIn(c) \cup {r.name} PROVE x \in NamesIn(d)
    BY <1>3, <1>4, <2>1, <2>3
  <2> QED BY <2>2, <2>3
<1>6. SeenIn(d) = SeenIn(c) \cup {r.name[1]}
  <2>1. SeenIn(c) = {c[k].name[1] : k \in 1..n}
        /\ SeenIn(d) = {d[k].name[1] : k \in 1..(n + 1)}
    BY <1>1, <1>3 DEF SeenIn
  <2>2. ASSUME NEW x \in SeenIn(d) PROVE x \in SeenIn(c) \cup {r.name[1]}
    BY <1>3, <1>4, <2>1, <2>2
  <2>3. ASSUME NEW x \in SeenIn(c) \cup {r.name[1]} PROVE x \in SeenIn(d)
    BY <1>3, <1>4, <2>1, <2>3
  <2> QED BY <2>2, <2>3
<1> QED BY <1>2, <1>5, <1>6

LEMMA NamesSeen ==
  \A c \in Seq(Records), name \in Names : name[1] \notin SeenIn(c) => name \notin NamesIn(c)
BY DEF NamesIn, SeenIn

\* One more result.
LEMMA AppendDistinct ==
  \A c \in Seq(Records), r \in Records :
     Distinct(c) /\ r.name \notin NamesIn(c) => Distinct(Append(c, r))
<1> SUFFICES ASSUME NEW c \in Seq(Records), NEW r \in Records, Distinct(c), r.name \notin NamesIn(c)
             PROVE  Distinct(Append(c, r))
  OBVIOUS
<1>1. PICK n \in Nat : n = Len(c) /\ DOMAIN c = 1..n
  OBVIOUS
<1>2. PICK d : d = Append(c, r)
  OBVIOUS
<1>3. /\ DOMAIN d = 1..(n + 1) /\ d[n + 1] = r /\ \A k \in 1..n : d[k] = c[k]
  BY <1>1, <1>2
<1>4. \A k \in 1..n : c[k].name # r.name
  BY <1>1 DEF NamesIn
<1>5. \A j, k \in 1..n : c[j].name = c[k].name => j = k
  BY <1>1 DEF Distinct
<1>6. \A k \in 1..(n + 1) : k \in 1..n \/ k = n + 1
  BY <1>1
<1>7. Distinct(d)
  BY <1>3, <1>4, <1>5, <1>6 DEF Distinct
<1> QED BY <1>2, <1>7

LEMMA AppendJoined ==
  \A c \in Seq(Records), r \in Records :
     /\ Joined(c)
     /\ S(r.name[1]).kind = "join" => Required(r.name[1]) \subseteq SeenIn(c)
     => Joined(Append(c, r))
<1> SUFFICES ASSUME NEW c \in Seq(Records), NEW r \in Records, Joined(c),
                    S(r.name[1]).kind = "join" => Required(r.name[1]) \subseteq SeenIn(c)
             PROVE  Joined(Append(c, r))
  OBVIOUS
<1>1. PICK n \in Nat : n = Len(c) /\ DOMAIN c = 1..n
  OBVIOUS
<1>2. PICK d : d = Append(c, r)
  OBVIOUS
<1>3. /\ DOMAIN d = 1..(n + 1) /\ d[n + 1] = r /\ \A k \in 1..n : d[k] = c[k]
  BY <1>1, <1>2
<1>4. ASSUME NEW k \in 1..(n + 1), S(d[k].name[1]).kind = "join", NEW i \in Required(d[k].name[1])
      PROVE  \E j \in 1..(k - 1) : d[j].name[1] = i
  <2>1. CASE k = n + 1
    <3>1. i \in SeenIn(c)
      BY <1>3, <1>4, <2>1
    <3>2. PICK j \in 1..n : c[j].name[1] = i
      BY <1>1, <3>1 DEF SeenIn
    <3> QED BY <1>1, <1>3, <2>1, <3>2
  <2>2. CASE k # n + 1
    <3>1. k \in 1..n /\ d[k] = c[k]
      BY <1>1, <1>3, <2>2
    <3>2. PICK j \in 1..(k - 1) : c[j].name[1] = i
      BY <1>1, <1>4, <3>1 DEF Joined
    <3>3. j \in 1..n
      BY <1>1, <3>1, <3>2
    <3> QED BY <1>3, <3>2, <3>3
  <2> QED BY <2>1, <2>2
<1>5. Joined(d)
  BY <1>3, <1>4 DEF Joined
<1> QED BY <1>2, <1>5

LEMMA AppendLooped ==
  \A c \in Seq(Records), r \in Records : \A lp, more :
     /\ Looped(c, lp)
     /\ lp = more \/ (more[1] = lp[1] /\ lp[2] \in Int /\ more[2] \in Int /\ lp[2] <= more[2])
                  \/ (\E j \in Indices : lp[1] = j /\ r.name[1] = j)
     /\ r.name[2] > 0 =>
           /\ more[1] \in Indices /\ S(more[1]).kind = "repeat" /\ S(more[1]).body = r.name[1]
           /\ r.name[2] < more[2]
     => Looped(Append(c, r), more)
<1> SUFFICES ASSUME NEW c \in Seq(Records), NEW r \in Records, NEW lp, NEW more, Looped(c, lp),
                    \/ lp = more
                    \/ (more[1] = lp[1] /\ lp[2] \in Int /\ more[2] \in Int /\ lp[2] <= more[2])
                    \/ (\E j \in Indices : lp[1] = j /\ r.name[1] = j),
                    r.name[2] > 0 =>
                       /\ more[1] \in Indices /\ S(more[1]).kind = "repeat"
                       /\ S(more[1]).body = r.name[1] /\ r.name[2] < more[2]
             PROVE  Looped(Append(c, r), more)
  OBVIOUS
<1>1. PICK n \in Nat : n = Len(c) /\ DOMAIN c = 1..n
  OBVIOUS
<1>2. PICK d : d = Append(c, r)
  OBVIOUS
<1>3. /\ DOMAIN d = 1..(n + 1) /\ d[n + 1] = r /\ \A k \in 1..n : d[k] = c[k]
  BY <1>1, <1>2
<1>4. SeenIn(d) = SeenIn(c) \cup {r.name[1]}
  BY <1>2, AppendNames
<1>5. ASSUME NEW k \in 1..(n + 1), d[k].name[2] > 0
      PROVE  \E j \in Indices :
                /\ S(j).kind = "repeat" /\ S(j).body = d[k].name[1]
                /\ j \in SeenIn(d) \/ (more[1] = j /\ d[k].name[2] < more[2])
  <2>1. CASE k = n + 1
    BY <1>3, <1>5, <2>1
  <2>2. CASE k # n + 1
    <3>1. k \in 1..n /\ d[k] = c[k]
      BY <1>1, <1>3, <2>2
    <3>2. PICK j \in Indices :
             /\ S(j).kind = "repeat" /\ S(j).body = c[k].name[1]
             /\ j \in SeenIn(c) \/ (lp[1] = j /\ c[k].name[2] < lp[2])
      BY <1>1, <1>5, <3>1 DEF Looped
    <3>3. CASE j \in SeenIn(c)
      BY <1>4, <3>1, <3>2, <3>3
    <3>4. CASE lp[1] = j /\ c[k].name[2] < lp[2]
      <4>1. CASE lp = more
        BY <3>1, <3>2, <3>4, <4>1
      <4>2. CASE more[1] = lp[1] /\ lp[2] \in Int /\ more[2] \in Int /\ lp[2] <= more[2]
        <5>1. c[k].name[2] \in Nat
          <6>1. c[k] \in Records
            BY <1>1, <3>1
          <6> QED BY <6>1 DEF Records, Names
        <5>2. c[k].name[2] < more[2]
          BY <3>4, <4>2, <5>1
        <5> QED BY <3>1, <3>2, <3>4, <4>2, <5>2
      <4>3. CASE \E i \in Indices : lp[1] = i /\ r.name[1] = i
        BY <1>4, <3>1, <3>2, <3>4, <4>3
      <4> QED BY <4>1, <4>2, <4>3
    <3> QED BY <3>2, <3>3, <3>4
  <2> QED BY <2>1, <2>2
<1>6. Looped(d, more)
  BY <1>3, <1>5 DEF Looped
<1> QED BY <1>2, <1>6

\* The result of a stage or of a control.
LEMMA AppendSound ==
  \A c \in Seq(Records), r \in Records : \A lp :
     /\ Sound(c, lp) /\ r.name \notin NamesIn(c) /\ r.name[2] = 0
     /\ S(r.name[1]).kind = "join" => Required(r.name[1]) \subseteq SeenIn(c)
     => Sound(Append(c, r), lp)
<1> SUFFICES ASSUME NEW c \in Seq(Records), NEW r \in Records, NEW lp,
                    Sound(c, lp), r.name \notin NamesIn(c), r.name[2] = 0,
                    S(r.name[1]).kind = "join" => Required(r.name[1]) \subseteq SeenIn(c)
             PROVE  Sound(Append(c, r), lp)
  OBVIOUS
<1>1. Distinct(Append(c, r)) /\ Joined(Append(c, r))
  BY AppendDistinct, AppendJoined DEF Sound
<1>2. Looped(Append(c, r), lp)
  BY AppendLooped DEF Sound
<1> QED BY <1>1, <1>2 DEF Sound

LEMMA AppendKept ==
  \A c \in Seq(Records), r \in Records : Kept(c) => Kept(Append(c, r))
<1> SUFFICES ASSUME NEW c \in Seq(Records), NEW r \in Records, Kept(c) PROVE Kept(Append(c, r))
  OBVIOUS
<1>1. PICK n \in Nat : n = Len(c) /\ DOMAIN c = 1..n
  OBVIOUS
<1>2. PICK d : d = Append(c, r)
  OBVIOUS
<1>3. DOMAIN d = 1..(n + 1) /\ \A k \in 1..n : d[k] = c[k] /\ k \in 1..(n + 1)
  BY <1>1, <1>2
<1>4. Kept(d)
  BY <1>1, <1>3 DEF Kept
<1> QED BY <1>2, <1>4

LEMMA ReplaceNew ==
  \A c, r : r.name \notin NamesIn(c) => Replace(c, r) = Append(c, r)
BY DEF Replace, NamesIn

LEMMA ConcatDistinct ==
  \A c, rs \in Seq(Records) :
     Distinct(c) /\ Distinct(rs) /\ NamesIn(rs) \cap NamesIn(c) = {} => Distinct(c \o rs)
<1> SUFFICES ASSUME NEW c \in Seq(Records), NEW rs \in Seq(Records),
                    Distinct(c), Distinct(rs), NamesIn(rs) \cap NamesIn(c) = {}
             PROVE  Distinct(c \o rs)
  OBVIOUS
<1>1. PICK n, m \in Nat : n = Len(c) /\ m = Len(rs) /\ DOMAIN c = 1..n /\ DOMAIN rs = 1..m
  OBVIOUS
<1>2. PICK d : d = c \o rs
  OBVIOUS
<1>3. /\ DOMAIN d = 1..(n + m) /\ \A k \in 1..n : d[k] = c[k]
      /\ \A k \in 1..m : d[n + k] = rs[k]
  BY <1>1, <1>2
<1>4. \A k \in 1..(n + m) : k \in 1..n \/ \E i \in 1..m : k = n + i
  <2> SUFFICES ASSUME NEW k \in 1..(n + m), k \notin 1..n PROVE \E i \in 1..m : k = n + i
    OBVIOUS
  <2>1. k - n \in 1..m /\ k = n + (k - n)
    BY <1>1
  <2> QED BY <2>1
<1>5. Distinct(d)
  <2> SUFFICES ASSUME NEW j \in 1..(n + m), NEW k \in 1..(n + m), d[j].name = d[k].name
               PROVE  j = k
    BY <1>3 DEF Distinct
  <2>1. \A i \in 1..n, l \in 1..m : c[i].name # rs[l].name
    BY <1>1 DEF NamesIn
  <2>2. \A i, l \in 1..n : c[i].name = c[l].name => i = l
    BY <1>1 DEF Distinct
  <2>3. \A i, l \in 1..m : rs[i].name = rs[l].name => i = l
    BY <1>1 DEF Distinct
  <2>4. CASE j \in 1..n /\ k \in 1..n
    BY <1>3, <2>2, <2>4
  <2>5. CASE j \in 1..n /\ \E l \in 1..m : k = n + l
    <3>1. PICK l \in 1..m : k = n + l
      BY <2>5
    <3> QED BY <1>3, <2>1, <2>5, <3>1
  <2>6. CASE k \in 1..n /\ \E l \in 1..m : j = n + l
    <3>1. PICK l \in 1..m : j = n + l
      BY <2>6
    <3> QED BY <1>3, <2>1, <2>6, <3>1
  <2>7. CASE (\E l \in 1..m : j = n + l) /\ (\E l \in 1..m : k = n + l)
    <3>1. PICK i \in 1..m, l \in 1..m : j = n + i /\ k = n + l
      BY <2>7
    <3>2. rs[i].name = rs[l].name
      BY <1>3, <3>1
    <3> QED BY <2>3, <3>1, <3>2
  <2> QED BY <1>4, <2>4, <2>5, <2>6, <2>7
<1> QED BY <1>2, <1>5

\* More results, of stages and not of joins.
LEMMA ConcatSound ==
  \A c, rs \in Seq(Records) : \A lp :
     /\ Sound(c, lp) /\ Distinct(rs) /\ NamesIn(rs) \cap NamesIn(c) = {}
     /\ \A k \in DOMAIN rs : rs[k].name[2] = 0 /\ S(rs[k].name[1]).kind # "join"
     => Sound(c \o rs, lp)
<1> SUFFICES ASSUME NEW c \in Seq(Records), NEW rs \in Seq(Records), NEW lp,
                    Sound(c, lp), Distinct(rs), NamesIn(rs) \cap NamesIn(c) = {},
                    \A k \in DOMAIN rs : rs[k].name[2] = 0 /\ S(rs[k].name[1]).kind # "join"
             PROVE  Sound(c \o rs, lp)
  OBVIOUS
<1>1. PICK n, m \in Nat : n = Len(c) /\ m = Len(rs) /\ DOMAIN c = 1..n /\ DOMAIN rs = 1..m
  OBVIOUS
<1>2. PICK d : d = c \o rs
  OBVIOUS
<1>3. /\ DOMAIN d = 1..(n + m) /\ \A k \in 1..n : d[k] = c[k]
      /\ \A k \in 1..m : d[n + k] = rs[k]
  BY <1>1, <1>2
<1>4. \A k \in 1..(n + m) : k \in 1..n \/ \E i \in 1..m : k = n + i
  <2> SUFFICES ASSUME NEW k \in 1..(n + m), k \notin 1..n PROVE \E i \in 1..m : k = n + i
    OBVIOUS
  <2>1. k - n \in 1..m /\ k = n + (k - n)
    BY <1>1
  <2> QED BY <2>1
<1>5. Distinct(d)
  BY <1>2, ConcatDistinct DEF Sound
<1>6. Joined(d)
  <2> SUFFICES ASSUME NEW k \in 1..(n + m), S(d[k].name[1]).kind = "join",
                      NEW i \in Required(d[k].name[1])
               PROVE  \E j \in 1..(k - 1) : d[j].name[1] = i
    BY <1>3 DEF Joined
  <2>1. k \in 1..n
    <3> SUFFICES ASSUME NEW l \in 1..m, k = n + l PROVE FALSE
      BY <1>4
    <3> QED BY <1>1, <1>3
  <2>2. d[k] = c[k]
    BY <1>3, <2>1
  <2>3. PICK j \in 1..(k - 1) : c[j].name[1] = i
    BY <1>1, <2>1, <2>2 DEF Sound, Joined
  <2>4. j \in 1..n
    BY <1>1, <2>1, <2>3
  <2> QED BY <1>3, <2>3, <2>4
<1>7. Looped(d, lp)
  <2> SUFFICES ASSUME NEW k \in 1..(n + m), d[k].name[2] > 0
               PROVE  \E j \in Indices :
                         /\ S(j).kind = "repeat" /\ S(j).body = d[k].name[1]
                         /\ j \in SeenIn(d) \/ (lp[1] = j /\ d[k].name[2] < lp[2])
    BY <1>3 DEF Looped
  <2>1. k \in 1..n
    <3> SUFFICES ASSUME NEW l \in 1..m, k = n + l PROVE FALSE
      BY <1>4
    <3> QED BY <1>1, <1>3
  <2>2. d[k] = c[k]
    BY <1>3, <2>1
  <2>3. PICK j \in Indices :
           /\ S(j).kind = "repeat" /\ S(j).body = c[k].name[1]
           /\ j \in SeenIn(c) \/ (lp[1] = j /\ c[k].name[2] < lp[2])
    BY <1>1, <2>1, <2>2 DEF Sound, Looped
  <2>4. j \in SeenIn(c) => j \in SeenIn(d)
    <3> SUFFICES ASSUME NEW l \in 1..n, j = c[l].name[1] PROVE j \in SeenIn(d)
      BY <1>1 DEF SeenIn
    <3>1. l \in 1..(n + m) /\ d[l] = c[l]
      BY <1>3
    <3> QED BY <1>3, <3>1 DEF SeenIn
  <2> QED BY <2>2, <2>3, <2>4
<1> QED BY <1>2, <1>5, <1>6, <1>7 DEF Sound

LEMMA ConcatNames ==
  \A c, rs \in Seq(Records) :
     /\ NamesIn(c \o rs) = NamesIn(c) \cup NamesIn(rs)
     /\ Kept(c) => Kept(c \o rs)
<1> SUFFICES ASSUME NEW c \in Seq(Records), NEW rs \in Seq(Records)
             PROVE  /\ NamesIn(c \o rs) = NamesIn(c) \cup NamesIn(rs)
                    /\ Kept(c) => Kept(c \o rs)
  OBVIOUS
<1>1. PICK n, m \in Nat : n = Len(c) /\ m = Len(rs) /\ DOMAIN c = 1..n /\ DOMAIN rs = 1..m
  OBVIOUS
<1>2. PICK d : d = c \o rs
  OBVIOUS
<1>3. /\ DOMAIN d = 1..(n + m) /\ \A k \in 1..n : k \in 1..(n + m) /\ d[k] = c[k]
      /\ \A k \in 1..m : n + k \in 1..(n + m) /\ d[n + k] = rs[k]
  BY <1>1, <1>2
<1>4. \A k \in 1..(n + m) : k \in 1..n \/ \E i \in 1..m : k = n + i
  <2> SUFFICES ASSUME NEW k \in 1..(n + m), k \notin 1..n PROVE \E i \in 1..m : k = n + i
    OBVIOUS
  <2>1. k - n \in 1..m /\ k = n + (k - n)
    BY <1>1
  <2> QED BY <2>1
<1>5. NamesIn(d) = NamesIn(c) \cup NamesIn(rs)
  <2>1. /\ NamesIn(c) = {c[k].name : k \in 1..n} /\ NamesIn(rs) = {rs[k].name : k \in 1..m}
        /\ NamesIn(d) = {d[k].name : k \in 1..(n + m)}
    BY <1>1, <1>3 DEF NamesIn
  <2>2. ASSUME NEW x \in NamesIn(d) PROVE x \in NamesIn(c) \cup NamesIn(rs)
    <3>1. PICK k \in 1..(n + m) : x = d[k].name
      BY <2>1, <2>2
    <3>2. CASE k \in 1..n
      BY <1>3, <2>1, <3>1, <3>2
    <3>3. CASE \E i \in 1..m : k = n + i
      BY <1>3, <2>1, <3>1, <3>3
    <3> QED BY <1>4, <3>2, <3>3
  <2>3. ASSUME NEW x \in NamesIn(c) PROVE x \in NamesIn(d)
    BY <1>3, <2>1, <2>3
  <2>4. ASSUME NEW x \in NamesIn(rs) PROVE x \in NamesIn(d)
    BY <1>3, <2>1, <2>4
  <2> QED BY <2>2, <2>3, <2>4
<1>6. Kept(c) => Kept(d)
  BY <1>1, <1>3 DEF Kept
<1> QED BY <1>2, <1>5, <1>6

\* Without a stage's result, the others are what they were.
LEMMA WithoutFacts ==
  ASSUME NEW rs \in Seq(Records), NEW name, Distinct(rs)
  PROVE  /\ Without(rs, name) \in Seq(Records) /\ Distinct(Without(rs, name))
         /\ \A k \in DOMAIN Without(rs, name) :
               /\ Without(rs, name)[k].name # name
               /\ \E j \in DOMAIN rs : Without(rs, name)[k] = rs[j]
<1>1. PICK all : all = Records
  OBVIOUS
<1>2. PICK places : places = {k \in DOMAIN rs : rs[k].name # name}
  OBVIOUS
<1>3. rs \in Seq(all)
  BY <1>1
<1>4. PICK new : new = Filter(rs, places)
  OBVIOUS
<1>5. PICK at \in [1..Len(new) -> (1..Len(rs)) \cap places] :
         /\ \A k \in 1..Len(new) : new[k] = rs[at[k]]
         /\ \A j, k \in 1..Len(new) : j < k => at[j] < at[k]
  <2>1. \E at \in [1..Len(Filter(rs, places)) -> (1..Len(rs)) \cap places] :
           /\ \A k \in 1..Len(Filter(rs, places)) : Filter(rs, places)[k] = rs[at[k]]
           /\ \A j, k \in 1..Len(Filter(rs, places)) : j < k => at[j] < at[k]
    BY <1>3, FilterPlaces
  <2> QED BY <1>4, <2>1
<1>6. \A k \in 1..Len(new) : at[k] \in DOMAIN rs /\ rs[at[k]].name # name /\ at[k] \in Int
  BY <1>2, <1>5
<1>7. /\ new \in Seq(Records) /\ new = Without(rs, name)
      /\ DOMAIN new = 1..Len(new) /\ Len(new) \in Nat
  <2>1. Filter(rs, places) \in Seq(all)
    BY <1>3, FilterPlaces
  <2>2. new \in Seq(Records) /\ new = Without(rs, name)
    BY <1>1, <1>2, <1>4, <2>1 DEF Without
  <2> QED BY <2>2
<1>8. Distinct(new)
  <2> SUFFICES ASSUME NEW j \in 1..Len(new), NEW k \in 1..Len(new), new[j].name = new[k].name
               PROVE  j = k
    BY <1>7 DEF Distinct
  <2>1. at[j] = at[k]
    BY <1>5, <1>6 DEF Distinct
  <2>2. ~(j < k) /\ ~(k < j)
    BY <1>5, <1>6, <2>1
  <2> QED BY <1>7, <2>2
<1>9. \A k \in DOMAIN new : new[k].name # name /\ \E j \in DOMAIN rs : new[k] = rs[j]
  BY <1>5, <1>6, <1>7
<1> QED BY <1>7, <1>8, <1>9

\* Without the last one, and no other of its name, all others are left.
LEMMA WithoutLast ==
  ASSUME NEW b \in Seq(Records), NEW r \in Records, r.name \notin NamesIn(b)
  PROVE  Without(Append(b, r), r.name) = b
<1>1. PICK n \in Nat : n = Len(b) /\ DOMAIN b = 1..n
  OBVIOUS
<1>2. PICK d : d = Append(b, r)
  OBVIOUS
<1>3. /\ d \in Seq(Records) /\ Len(d) = n + 1 /\ DOMAIN d = 1..(n + 1)
      /\ d[n + 1] = r /\ \A k \in 1..n : d[k] = b[k]
  BY <1>1, <1>2
<1>4. PICK places : places = {k \in DOMAIN d : d[k].name # r.name}
  OBVIOUS
<1>5. n + 1 \notin places /\ 1..n \subseteq places
  BY <1>1, <1>3, <1>4 DEF NamesIn
<1>6. PICK new : new = Filter(d, places)
  OBVIOUS
<1>7. Without(d, r.name) = new
  BY <1>4, <1>6 DEF Without
<1>8. new \in Seq(Records) /\ Len(new) = n /\ \A k \in 1..n : new[k] = d[k]
  <2>1. PICK all : all = Records
    OBVIOUS
  <2>2. d \in Seq(all) /\ Len(d) = n + 1
    BY <1>3, <2>1
  <2> QED BY <1>1, <1>5, <1>6, <2>1, <2>2, FilterFront
<1>9. new = b
  BY <1>1, <1>3, <1>8
<1> QED BY <1>2, <1>7, <1>9

------------------------------------------------------------------------------
(* What is recorded, in any step                                           *)

LEMMA OrderFrame ==
  ASSUME graph' = graph
  PROVE  /\ \A i : Required(i)' = Required(i)
         /\ \A c, lp : Sound(c, lp)' = Sound(c, lp)
         /\ \A c, name : Before(c, name)' = Before(c, name)
         /\ \A st, name, c : HeldAt(st, name, c)' = HeldAt(st, name, c)
<1>1. \A i : Required(i)' = Required(i)
  BY DEF Required, RefersTo, S, Indices, N
<1>2. \A c : Distinct(c)' = Distinct(c) /\ Joined(c)' = Joined(c)
  BY DEF Distinct, Joined, Required, RefersTo, S, Indices, N
<1>3. \A c, lp : Looped(c, lp)' = Looped(c, lp)
  BY Frame DEF Looped, SeenIn
<1>4. \A c, lp : Sound(c, lp)' = Sound(c, lp)
  BY <1>2, <1>3 DEF Sound
<1>5. \A c, name : Before(c, name)' = Before(c, name)
  <2>1. \A c, name : UnderWay(c, name)' = UnderWay(c, name)
    BY <1>4 DEF UnderWay, SeenIn, S, Indices, N
  <2> QED BY <1>4, <2>1 DEF Before, NamesIn, NoLoop
<1>6. \A c, name : AtStop(c, name)' = AtStop(c, name)
  BY <1>5, Frame DEF AtStop
<1>7. \A st, name, c : HeldAt(st, name, c)' = HeldAt(st, name, c)
  BY <1>2, <1>4, <1>5, <1>6 DEF HeldAt, NoLoop
<1> QED BY <1>1, <1>4, <1>5, <1>7

\* Before a stage, or an iteration, starts.
LEMMA BeforeFacts ==
  \A c, name : Before(c, name) => Distinct(c) /\ Joined(c) /\ name \notin NamesIn(c)
BY DEF Before, UnderWay, Sound

\* A result that ends an execution is recorded as that of the stage it names.
LEMMA HeldAtStop ==
  ASSUME NEW b \in Seq(Records), NEW r \in Records, NEW st,
         st \in {"paused_need_more_budget", "blocked", "denied"},
         Before(b, r.name), r.status # "completed",
         S(r.name[1]).kind # "join"
  PROVE  HeldAt(st, r.name, Append(b, r))
<1>1. Distinct(Append(b, r)) /\ Joined(Append(b, r))
  BY BeforeFacts, AppendDistinct, AppendJoined
<1>2. AtStop(Append(b, r), r.name)
  BY DEF AtStop
<1> QED BY <1>1, <1>2 DEF HeldAt

\* What is stored has kept what was stored.
LEMMA KeptFacts ==
  /\ Kept(saved)
  /\ \A c : Kept(c) => \A r \in Results(saved) : r.status = "completed" => r \in Results(c)
BY DEF Kept, Results

\* The executor goes on, or a run is resumed, and what is stored stays.
LEMMA GoesOn ==
  ASSUME Order, graph' = graph, saved' = saved, status' = "running", Running'
  PROVE  Proper
<1>1. Distinct(saved)' /\ Joined(saved)'
  BY Frame, OrderFrame DEF Order, Halted, HeldAt, Distinct, Joined
<1>2. Halted'
  BY <1>1 DEF Halted, HeldAt
<1> QED BY <1>2 DEF Proper, Order, Stays, Results

LEMMA LoopOrder ==
  ASSUME Order, graph' = graph, saved' = saved, status' = "running", phase' = "loop",
         NEW c, completed' = c, Sound(c, NoLoop), SeenIn(c) \subseteq seen', Kept(c)
  PROVE  Proper
<1>1. Sound(completed, NoLoop)'
  BY OrderFrame DEF NoLoop
<1>2. Running'
  BY <1>1 DEF Running, Kept, SeenIn
<1> QED BY <1>2, GoesOn

LEMMA RepeatOrder ==
  ASSUME Order, graph' = graph, saved' = saved, status' = "running", phase' = "repeat",
         NEW c, completed' = c, NEW lp, loop' = lp,
         lp[1] \notin SeenIn(c), Sound(c, lp), Kept(c)
  PROVE  Proper
<1>1. Sound(completed, loop)'
  BY OrderFrame
<1>2. Running'
  BY <1>1 DEF Running, Kept, SeenIn
<1> QED BY <1>2, GoesOn

LEMMA StageOrder ==
  ASSUME Order, graph' = graph, saved' = saved, status' = "running", phase' = "stage",
         NEW c, completed' = c, NEW name, cur'.name = name, Before(c, name), Kept(c),
         cur'.via \in {"queue", "escalate"} => name[2] = 0,
         name[2] = 0 => SeenIn(c) \subseteq seen'
  PROVE  Proper
<1>1. Before(completed, cur.name)'
  BY OrderFrame
<1>2. Running'
  BY <1>1 DEF Running, Kept, SeenIn
<1> QED BY <1>2, GoesOn

\* The executor returns.
LEMMA ReturnOrder ==
  ASSUME Order, graph' = graph, phase' = "idle", completed' = <<>>,
         NEW st, NEW name, NEW c, status' = st, nextStage' = name, saved' = c,
         HeldAt(st, name, c), st = "awaiting_tool_approval" /\ inStore' => pending'.completed = c,
         Kept(c)
  PROVE  Proper
<1>1. Running'
  BY DEF Running
<1>2. HeldAt(status, nextStage, saved)'
  BY OrderFrame
<1>3. Halted'
  BY <1>2 DEF Halted
<1>4. Stays
  BY KeptFacts DEF Stays, Results
<1> QED BY <1>1, <1>3, <1>4 DEF Proper, Order

LEMMA FailOrder ==
  ASSUME Order, Fail
  PROVE  Proper
<1>1. /\ graph' = graph /\ phase' = "idle" /\ completed' = <<>> /\ saved' = saved
      /\ status' \in {"cancelled", "failed"}
  BY DEF Fail, Idle
<1>2. PICK st, name, c : st = status' /\ name = nextStage' /\ c = saved
  OBVIOUS
<1>3. HeldAt(st, name, c)
  BY <1>1, <1>2 DEF Order, Halted, HeldAt
<1> QED BY <1>1, <1>2, <1>3, KeptFacts, ReturnOrder

------------------------------------------------------------------------------
(* Steps over the queue, and what has completed                            *)

\* The stage at the head of the queue has no result.
LEMMA HeadFresh ==
  ASSUME IInv, Order, NEW kind, Pops(kind)
  PROVE  /\ phase = "loop" /\ status = "running" /\ Head(queue) \in Indices
         /\ graph \in Graphs /\ completed \in Seq(Records)
         /\ S(Head(queue)).kind = kind /\ Name(Head(queue), 0) \in Names
         /\ Name(Head(queue), 0)[1] = Head(queue) /\ Name(Head(queue), 0)[2] = 0
         /\ Head(queue) \notin SeenIn(completed)
         /\ Before(completed, Name(Head(queue), 0))
         /\ Sound(completed, NoLoop) /\ Kept(completed) /\ SeenIn(completed) \subseteq seen
<1>1. phase = "loop" /\ Head(queue) \notin seen
  BY DEF Pops
<1>2. Sound(completed, NoLoop) /\ Kept(completed) /\ SeenIn(completed) \subseteq seen
  BY <1>1 DEF Order, Running
<1>3. /\ Head(queue) \in Indices /\ S(Head(queue)).kind = kind /\ completed \in Seq(Records)
      /\ Name(Head(queue), 0) \in Names /\ Name(Head(queue), 0)[1] = Head(queue)
      /\ Name(Head(queue), 0)[2] = 0
  BY Head1, ResultType
<1>4. Head(queue) \notin SeenIn(completed)
  BY <1>1, <1>2
<1>5. PICK name : name = Name(Head(queue), 0)
  OBVIOUS
<1>6. Before(completed, name)
  BY <1>2, <1>3, <1>4, <1>5, NamesSeen DEF Before
<1> QED BY <1>1, <1>2, <1>3, <1>4, <1>5, <1>6, WhileRunning DEF IInv

\* One more result, of the stage at the head of the queue.
LEMMA HeadRecorded ==
  ASSUME IInv, Order, NEW kind, Pops(kind), NEW r, r \in Records, r.name = Name(Head(queue), 0),
         kind = "join" => Required(Head(queue)) \subseteq SeenIn(completed)
  PROVE  /\ Append(completed, r) \in Seq(Records) /\ Sound(Append(completed, r), NoLoop)
         /\ Kept(Append(completed, r))
         /\ SeenIn(Append(completed, r)) \subseteq seen \cup {Head(queue)}
<1>1. PICK c : c = completed
  OBVIOUS
<1>2. /\ c \in Seq(Records) /\ Sound(c, NoLoop) /\ Kept(c) /\ SeenIn(c) \subseteq seen
      /\ r.name \notin NamesIn(c) /\ r.name[2] = 0 /\ r.name[1] = Head(queue)
  BY <1>1, HeadFresh DEF Before
<1>3. S(r.name[1]).kind = "join" => Required(r.name[1]) \subseteq SeenIn(c)
  BY <1>1, <1>2, HeadFresh
<1>4. Sound(Append(c, r), NoLoop) /\ Kept(Append(c, r))
  BY <1>2, <1>3, AppendSound, AppendKept
<1>5. SeenIn(Append(c, r)) \subseteq seen \cup {Head(queue)}
  BY <1>2, AppendNames
<1> QED BY <1>1, <1>2, <1>4, <1>5

LEMMA SkipSeenOrder == ASSUME IInv, Order, SkipSeen PROVE Proper
<1>1. /\ phase = "loop" /\ phase' = "loop" /\ graph' = graph /\ saved' = saved
      /\ status' = status /\ completed' = completed /\ seen' = seen
  BY DEF SkipSeen, stored
<1>2. PICK c : c = completed
  OBVIOUS
<1>3. status = "running" /\ Sound(c, NoLoop) /\ SeenIn(c) \subseteq seen /\ Kept(c)
  BY <1>1, <1>2, WhileRunning DEF Order, Running
<1> QED BY <1>1, <1>2, <1>3, LoopOrder

\* The stage is passed, with a result or without.
LEMMA PassOrder ==
  ASSUME IInv, Order, NEW kind, Pops(kind), NEW q, NEW c, NEW s, Loop(q, c, s),
         Sound(c, NoLoop), SeenIn(c) \subseteq s, Kept(c)
  PROVE  Proper
<1>1. /\ phase' = "loop" /\ completed' = c /\ seen' = s /\ graph' = graph /\ saved' = saved
      /\ status' = status
  BY DEF Loop, Enter, stored
<1> QED BY <1>1, HeadFresh, LoopOrder

LEMMA PassVisualOrder == ASSUME IInv, Order, PassVisual PROVE Proper
<1>1. PICK q \in NextOf(Head(queue), completed) :
         Loop(q \o Tail(queue), completed, seen \cup {Head(queue)})
  BY DEF PassVisual
<1>2. PICK p, c, s : p = q \o Tail(queue) /\ c = completed /\ s = seen \cup {Head(queue)}
  OBVIOUS
<1>3. Pops("visual")
  BY DEF PassVisual
<1>4. Sound(c, NoLoop) /\ SeenIn(c) \subseteq s /\ Kept(c)
  BY <1>2, <1>3, HeadFresh
<1> QED BY <1>1, <1>2, <1>3, <1>4, PassOrder

\* The executor returns at the stage at the head of the queue, with the results
\* it has.
LEMMA HoldOrder ==
  ASSUME IInv, Order, NEW kind, Pops(kind), NEW st, NEW name, NEW c,
         Return(st, name, c), Kept(c), HeldAt(st, name, c), st # "awaiting_tool_approval"
  PROVE  Proper
<1>1. /\ graph' = graph /\ phase' = "idle" /\ completed' = <<>> /\ status' = st
      /\ nextStage' = name /\ saved' = c
  BY DEF Return, Idle
<1> QED BY <1>1, ReturnOrder

LEMMA PauseOrder ==
  ASSUME IInv, Order, NEW kind, Pops(kind), NEW st,
         st \in {"awaiting_approval", "awaiting_input", "awaiting_budget_approval",
                 "awaiting_sub_workflow"},
         Return(st, Name(Head(queue), 0), completed)
  PROVE  Proper
<1>1. PICK name, c : name = Name(Head(queue), 0) /\ c = completed
  OBVIOUS
<1>2. /\ Sound(c, NoLoop) /\ Before(c, name) /\ name[2] = 0 /\ Kept(c)
  BY <1>1, HeadFresh
<1>3. HeldAt(st, name, c)
  BY <1>2 DEF HeldAt, Sound
<1> QED BY <1>1, <1>2, <1>3, HoldOrder

LEMMA PauseForApprovalOrder == ASSUME IInv, Order, PauseForApproval PROVE Proper
<1>1. PICK kind : Pops(kind)
  BY DEF PauseForApproval
<1>2. Return("awaiting_approval", Name(Head(queue), 0), completed)
  BY DEF PauseForApproval
<1> QED BY <1>1, <1>2, PauseOrder

LEMMA PauseForInputOrder == ASSUME IInv, Order, PauseForInput PROVE Proper
BY PauseOrder DEF PauseForInput

LEMMA JoinWaitsOrder == ASSUME IInv, Order, JoinWaits PROVE Proper
<1>1. CASE Fail
  BY <1>1, FailOrder
<1>2. CASE Loop(Append(Tail(queue), Head(queue)), completed, seen)
  <2>1. PICK q, c, s : q = Append(Tail(queue), Head(queue)) /\ c = completed /\ s = seen
    OBVIOUS
  <2>2. Pops("join")
    BY DEF JoinWaits
  <2>3. Sound(c, NoLoop) /\ SeenIn(c) \subseteq s /\ Kept(c)
    BY <2>1, <2>2, HeadFresh
  <2> QED BY <1>2, <2>1, <2>2, <2>3, PassOrder
<1> QED BY <1>1, <1>2 DEF JoinWaits

LEMMA PassControlOrder == ASSUME IInv, Order, PassControl PROVE Proper
<1>1. PICK kind : /\ Pops(kind)
                  /\ kind = "join" => Missing(Head(queue), completed) = {}
  <2>1. CASE Pops("join") /\ Missing(Head(queue), completed) = {}
    BY <2>1
  <2>2. CASE Pops("checkpoint")
    BY <2>2
  <2>3. CASE Pops("input")
    BY <2>3
  <2>4. CASE Pops("pass")
    BY <2>4
  <2> QED BY <2>1, <2>2, <2>3, <2>4 DEF PassControl
<1>2. PICK r : r = Result(Head(queue), 0, "completed")
  OBVIOUS
<1>3. r \in Records /\ r.name = Name(Head(queue), 0)
  BY <1>1, <1>2, HeadFresh, ResultType DEF Result
<1>4. PICK c, s : c = Append(completed, r) /\ s = seen \cup {Head(queue)}
  OBVIOUS
<1>5. PICK q : Loop(q, c, s)
  BY <1>2, <1>4 DEF PassControl
<1>6. kind = "join" => Required(Head(queue)) \subseteq SeenIn(completed)
  BY <1>1 DEF Missing
<1>7. Sound(c, NoLoop) /\ SeenIn(c) \subseteq s /\ Kept(c)
  BY <1>1, <1>3, <1>4, <1>6, HeadRecorded
<1> QED BY <1>1, <1>5, <1>7, PassOrder

\* The stage at the head of the queue is blocked.
LEMMA BlockOrder ==
  ASSUME IInv, Order, NEW kind, Pops(kind), kind # "join",
         Return("blocked", Name(Head(queue), 0),
                Append(completed, Result(Head(queue), 0, "blocked")))
  PROVE  Proper
<1>1. PICK r, b : r = Result(Head(queue), 0, "blocked") /\ b = completed
  OBVIOUS
<1>2. /\ r \in Records /\ r.name = Name(Head(queue), 0) /\ r.status = "blocked"
      /\ b \in Seq(Records) /\ Before(b, r.name) /\ S(r.name[1]).kind = kind
  BY <1>1, HeadFresh, ResultType DEF Result
<1>3. PICK name, c : name = r.name /\ c = Append(b, r)
  OBVIOUS
<1>4. HeldAt("blocked", name, c)
  BY <1>2, <1>3, HeldAtStop
<1>5. Kept(c)
  BY <1>1, <1>2, <1>3, HeadFresh, AppendKept
<1> QED BY <1>1, <1>2, <1>3, <1>4, <1>5, HoldOrder

LEMMA TakeRouteOrder == ASSUME IInv, Order, TakeRoute PROVE Proper
<1>1. Pops("route")
  BY DEF TakeRoute
<1> DEFINE i == Head(queue)
           lists(r) == CASE r = Fallthrough       -> NextOf(i, completed)
                         [] r \in {Nowhere, Halts} -> {<<>>}
                         [] OTHER                  -> {Named(<<r>>, completed)}
           to(r, q) == IF r > 0 THEN {r} ELSE ToSet(q)
           passed(r, q) == Append(completed, [Result(i, 0, "completed") EXCEPT !.target = to(r, q)])
<1>2. PICK r \in S(i).routes : \E q \in lists(r) :
         IF r = Halts
         THEN Return("blocked", Name(i, 0), Append(completed, Result(i, 0, "blocked")))
         ELSE Loop(q \o Tail(queue), passed(r, q), seen \cup {i})
  BY DEF TakeRoute
<1>3. PICK q \in lists(r) :
         IF r = Halts
         THEN Return("blocked", Name(i, 0), Append(completed, Result(i, 0, "blocked")))
         ELSE Loop(q \o Tail(queue), passed(r, q), seen \cup {i})
  BY <1>2
<1>4. CASE r = Halts
  BY <1>1, <1>3, <1>4, BlockOrder
<1>5. CASE r # Halts
  <2>1. i \in Indices /\ graph \in Graphs /\ completed \in Seq(Records)
    BY <1>1, HeadFresh
  <2>2. to(r, q) \subseteq Indices
    <3>1. r \in Indices \cup {Fallthrough, Nowhere, Halts}
      BY <1>2, <2>1, GraphFacts
    <3>2. CASE r > 0
      BY <3>1, <3>2 DEF Fallthrough, Nowhere, Halts
    <3>3. CASE ~(r > 0)
      <4>1. r \notin Indices
        BY <3>3, <2>1, GraphFacts DEF Indices
      <4>2. q \in Seq(Indices)
        <5>1. CASE r = Fallthrough
          <6>1. lists(r) = NextOf(i, completed)
            BY <5>1 DEF Fallthrough, Nowhere, Halts
          <6> HIDE DEF lists
          <6> QED BY <1>3, <2>1, <6>1, NextOfType
        <5>2. CASE r = Nowhere
          <6>1. q = <<>>
            BY <1>3, <5>2 DEF Fallthrough, Nowhere
          <6> QED BY <6>1
        <5> QED BY <1>5, <3>1, <4>1, <5>1, <5>2
      <4> QED BY <3>3, <4>2 DEF ToSet
    <3> QED BY <3>2, <3>3
  <2>3. PICK e : e = [Result(i, 0, "completed") EXCEPT !.target = to(r, q)]
    OBVIOUS
  <2>4. e \in Records /\ e.name = Name(i, 0)
    <3> HIDE DEF i, to
    <3>1. e \in Records
      BY <2>1, <2>2, <2>3, ResultType
    <3>2. e.name = Name(i, 0)
      BY <2>3 DEF Result
    <3> QED BY <3>1, <3>2
  <2>5. PICK p, c, s : p = q \o Tail(queue) /\ c = Append(completed, e) /\ s = seen \cup {i}
    OBVIOUS
  <2>6. Loop(p, c, s)
    BY <1>3, <1>5, <2>3, <2>5
  <2>7. Sound(c, NoLoop) /\ SeenIn(c) \subseteq s /\ Kept(c)
    BY <1>1, <2>4, <2>5, HeadRecorded
  <2> QED BY <1>1, <2>6, <2>7, PassOrder
<1> QED BY <1>4, <1>5

LEMMA SelectNoBranchOrder == ASSUME IInv, Order, SelectNoBranch PROVE Proper
BY BlockOrder DEF SelectNoBranch

LEMMA BlockUnreadyOrder == ASSUME IInv, Order, BlockUnready PROVE Proper
BY BlockOrder DEF BlockUnready

LEMMA FanOutOrder == ASSUME IInv, Order, FanOut PROVE Proper
<1>1. Pops("parallel")
  BY DEF FanOut
<1>2. PICK r : r = Result(Head(queue), 0, "completed")
  OBVIOUS
<1>3. r \in Records /\ r.name = Name(Head(queue), 0)
  BY <1>1, <1>2, HeadFresh, ResultType DEF Result
<1>4. PICK c : c = Append(completed, r)
  OBVIOUS
<1>5. Sound(c, NoLoop) /\ SeenIn(c) \subseteq seen \cup {Head(queue)} /\ Kept(c)
  BY <1>1, <1>3, <1>4, HeadRecorded
<1>6. PICK q, s : Loop(q, c, s) /\ s \in {SeenIn(c), seen \cup {Head(queue)}}
  <2>1. PICK q : Loop(UntilJoin(q, c) \o Tail(queue), c,
                      IF S(Head(queue)).concurrent /\ Len(q) >= 2
                      THEN SeenIn(c) ELSE seen \cup {Head(queue)})
    BY <1>2, <1>4 DEF FanOut
  <2>2. PICK s : s = IF S(Head(queue)).concurrent /\ Len(q) >= 2
                     THEN SeenIn(c) ELSE seen \cup {Head(queue)}
    OBVIOUS
  <2> QED BY <2>1, <2>2
<1>7. SeenIn(c) \subseteq s
  BY <1>5, <1>6
<1> QED BY <1>1, <1>5, <1>6, <1>7, PassOrder

LEMMA RunChildOrder == ASSUME IInv, Order, RunChild PROVE Proper
<1>1. Pops("sub")
  BY DEF RunChild
<1>2. PICK r : r = Result(Head(queue), 0, "completed")
  OBVIOUS
<1>3. r \in Records /\ r.name = Name(Head(queue), 0)
  BY <1>1, <1>2, HeadFresh, ResultType DEF Result
<1>4. PICK c, s : c = Append(completed, r) /\ s = seen \cup {Head(queue)}
  OBVIOUS
<1>5. CASE \E q : Loop(q, c, s)
  <2>1. Sound(c, NoLoop) /\ SeenIn(c) \subseteq s /\ Kept(c)
    BY <1>1, <1>3, <1>4, HeadRecorded
  <2> QED BY <1>1, <1>5, <2>1, PassOrder
<1>6. CASE Return("awaiting_sub_workflow", Name(Head(queue), 0), completed)
  BY <1>1, <1>6, PauseOrder
<1>7. CASE Fail
  BY <1>7, FailOrder
<1> QED BY <1>2, <1>4, <1>5, <1>6, <1>7 DEF RunChild

LEMMA CallStageOrder == ASSUME IInv, Order, CallStage PROVE Proper
<1>1. Pops("stage")
  BY DEF CallStage
<1>2. CASE Return("awaiting_budget_approval", Name(Head(queue), 0), completed)
  BY <1>1, <1>2, PauseOrder
<1>3. CASE /\ phase' = "stage" /\ cur' = Calls(Name(Head(queue), 0), "queue", FALSE)
           /\ queue' = Tail(queue)
           /\ UNCHANGED <<stored, completed, seen, loop, options, cancelled>>
  <2>1. PICK name, c : name = Name(Head(queue), 0) /\ c = completed
    OBVIOUS
  <2>2. /\ graph' = graph /\ saved' = saved /\ status' = status /\ completed' = c
        /\ cur'.name = name /\ seen' = seen
    BY <1>3, <2>1 DEF stored, Calls
  <2>3. /\ Before(c, name) /\ Kept(c) /\ name[2] = 0 /\ SeenIn(c) \subseteq seen
        /\ status = "running"
    BY <1>1, <2>1, HeadFresh
  <2> QED BY <1>3, <2>2, <2>3, StageOrder
<1> QED BY <1>2, <1>3 DEF CallStage

LEMMA FinishOrder == ASSUME IInv, Order, Finish PROVE Proper
<1>1. PICK c : c = completed
  OBVIOUS
<1>2. phase = "loop" /\ Return("completed", NoName, c)
  BY <1>1 DEF Finish
<1>3. Sound(c, NoLoop) /\ Kept(c)
  BY <1>1, <1>2 DEF Order, Running
<1>4. HeldAt("completed", NoName, c)
  BY <1>3 DEF HeldAt, Sound
<1>5. /\ graph' = graph /\ phase' = "idle" /\ completed' = <<>> /\ status' = "completed"
      /\ nextStage' = NoName /\ saved' = c
  BY <1>2 DEF Return, Idle
<1>6. PICK name : name = NoName
  OBVIOUS
<1> QED BY <1>3, <1>4, <1>5, <1>6, ReturnOrder

------------------------------------------------------------------------------
(* Repeats and calls, and what has completed                               *)

\* No repeat is under way as long as the executor works on its queue.
LEMMA NoRepeat ==
  ASSUME graph \in Graphs
  PROVE  \A c, lp : Looped(c, NoLoop) => Looped(c, lp)
<1>1. 0 \notin Indices /\ NoLoop[1] = 0
  BY DEF Indices, NoLoop
<1> QED BY <1>1 DEF Looped

LEMMA EnterRepeatOrder == ASSUME IInv, Order, EnterRepeat PROVE Proper
<1>1. Pops("repeat")
  BY DEF EnterRepeat
<1>2. CASE Fail
  BY <1>2, FailOrder
<1>3. CASE /\ phase' = "repeat" /\ loop' = <<Head(queue), 1>>
           /\ UNCHANGED <<stored, completed, seen, cur, options, cancelled>>
  <2>1. PICK c, lp : c = completed /\ lp = <<Head(queue), 1>>
    OBVIOUS
  <2>2. /\ graph' = graph /\ saved' = saved /\ status' = status /\ completed' = c /\ loop' = lp
    BY <1>3, <2>1 DEF stored
  <2>3. lp[1] \notin SeenIn(c) /\ Sound(c, NoLoop) /\ Kept(c) /\ status = "running"
        /\ graph \in Graphs
    BY <1>1, <2>1, HeadFresh
  <2>4. Sound(c, lp)
    BY <2>3, NoRepeat DEF Sound
  <2> QED BY <1>3, <2>2, <2>3, <2>4, RepeatOrder
<1> QED BY <1>2, <1>3 DEF EnterRepeat

\* The next iteration of a repeat has no result yet.
LEMMA NextIteration ==
  ASSUME BodiesApart, graph \in Graphs, NEW lp, RepeatOn(lp), NEW c, Sound(c, lp),
         lp[1] \notin SeenIn(c), lp[2] <= S(lp[1]).rounds
  PROVE  Before(c, <<S(lp[1]).body, lp[2]>>)
<1>1. /\ lp[1] \in Indices /\ S(lp[1]).kind = "repeat" /\ S(lp[1]).body \in Indices
      /\ lp[2] \in Nat /\ lp[2] > 0 /\ lp = <<lp[1], lp[2]>>
  BY DEF RepeatOn, Names
<1>2. PICK name : name = <<S(lp[1]).body, lp[2]>>
  OBVIOUS
<1>3. name \notin NamesIn(c)
  <2> SUFFICES ASSUME NEW k \in DOMAIN c, c[k].name = name PROVE FALSE
    BY DEF NamesIn
  <2>1. c[k].name[2] = lp[2] /\ c[k].name[1] = S(lp[1]).body
    BY <1>2
  <2>2. PICK j \in Indices :
           /\ S(j).kind = "repeat" /\ S(j).body = c[k].name[1]
           /\ j \in SeenIn(c) \/ (lp[1] = j /\ c[k].name[2] < lp[2])
    BY <1>1, <2>1 DEF Sound, Looped
  <2>3. j = lp[1]
    BY <1>1, <2>1, <2>2, OneRepeat
  <2> QED BY <1>1, <2>1, <2>2, <2>3
<1>4. UnderWay(c, name)
  BY <1>1, <1>2 DEF UnderWay
<1>5. name[2] # 0
  BY <1>1, <1>2
<1> QED BY <1>2, <1>3, <1>4, <1>5 DEF Before

LEMMA IterateOrder == ASSUME IInv, Order, BodiesApart, Iterate PROVE Proper
<1>1. phase = "repeat" /\ phase # "idle" /\ RepeatOn(loop) /\ graph \in Graphs
  BY DEF Iterate, IInv, Locals, Position
<1>2. PICK lp, control, it, body, d :
         lp = loop /\ control = loop[1] /\ it = loop[2] /\ body = S(control).body /\ d = completed
  OBVIOUS
<1>3. /\ control \in Indices /\ it \in Nat /\ it > 0 /\ body \in Indices
      /\ S(control).kind = "repeat" /\ lp = <<control, it>>
      /\ RepeatOn(lp)
  BY <1>1, <1>2 DEF RepeatOn, Names
<1>4. /\ d \in Seq(Records) /\ Sound(d, lp) /\ control \notin SeenIn(d) /\ Kept(d)
      /\ status = "running"
  BY <1>1, <1>2, WhileRunning DEF Order, Running, IInv, Locals
<1>5. PICK r, c : r = Result(control, 0, "completed") /\ c = Append(d, r)
  <2>1. PICK r : r = Result(control, 0, "completed")
    OBVIOUS
  <2> QED BY <2>1
<1>6. CASE \E q \in NextOf(control, c) : Loop(q \o queue, c, SeenIn(c))
  <2>1. /\ phase' = "loop" /\ completed' = c /\ seen' = SeenIn(c) /\ graph' = graph
        /\ saved' = saved /\ status' = status
    BY <1>6 DEF Loop, Enter, stored
  <2>2. /\ r \in Records /\ r.name = Name(control, 0) /\ r.name[1] = control /\ r.name[2] = 0
    BY <1>3, <1>5, ResultType DEF Result
  <2>3. r.name \notin NamesIn(d)
    BY <1>4, <2>2 DEF NamesIn, SeenIn
  <2>4. Distinct(c) /\ Joined(c) /\ Kept(c)
    BY <1>3, <1>4, <1>5, <2>2, <2>3, AppendDistinct, AppendJoined, AppendKept DEF Sound
  <2>5. Looped(c, NoLoop)
    <3>1. Looped(d, lp) /\ lp[1] = control /\ ~(r.name[2] > 0)
      BY <1>3, <1>4, <2>2 DEF Sound
    <3>2. Looped(Append(d, r), NoLoop)
      BY <1>3, <1>4, <2>2, <3>1, AppendLooped
    <3> QED BY <1>5, <3>2
  <2>6. Sound(c, NoLoop)
    BY <2>4, <2>5 DEF Sound
  <2> QED BY <1>4, <2>1, <2>4, <2>6, LoopOrder
<1>7. CASE Fail
  BY <1>7, FailOrder
<1>8. CASE Return("awaiting_budget_approval", Name(body, it), d)
  <2>1. PICK name : name = Name(body, it)
    OBVIOUS
  <2>2. /\ graph' = graph /\ phase' = "idle" /\ completed' = <<>>
        /\ status' = "awaiting_budget_approval" /\ nextStage' = name /\ saved' = d
    BY <1>8, <2>1 DEF Return, Idle
  <2>3. HeldAt("awaiting_budget_approval", name, d)
    BY <1>3, <1>4, <2>1 DEF HeldAt, Sound, Name
  <2> QED BY <1>4, <2>2, <2>3, ReturnOrder
<1>9. CASE /\ it <= S(control).rounds
           /\ phase' = "stage"
           /\ cur' = Calls(Name(body, it), "repeat", FALSE)
           /\ UNCHANGED <<stored, queue, completed, seen, loop, options, cancelled>>
  <2>1. PICK name : name = Name(body, it)
    OBVIOUS
  <2>2. name = <<body, it>> /\ name[2] # 0
    BY <1>3, <2>1 DEF Name
  <2>3. Before(d, name)
    BY <1>1, <1>2, <1>3, <1>4, <1>9, <2>2, NextIteration
  <2>4. /\ graph' = graph /\ saved' = saved /\ status' = status /\ completed' = d
        /\ cur'.name = name /\ cur'.via = "repeat"
    BY <1>2, <1>9, <2>1 DEF stored, Calls
  <2> QED BY <1>4, <1>9, <2>2, <2>3, <2>4, StageOrder
<1>10. \/ \E q \in NextOf(control, c) : Loop(q \o queue, c, SeenIn(c))
       \/ Fail
       \/ Return("awaiting_budget_approval", Name(body, it), d)
       \/ /\ it <= S(control).rounds
          /\ phase' = "stage"
          /\ cur' = Calls(Name(body, it), "repeat", FALSE)
          /\ UNCHANGED <<stored, queue, completed, seen, loop, options, cancelled>>
  <2>1. S(control).rounds \in Nat
    BY <1>1, <1>3, GraphFacts
  <2>2. CASE it > S(control).rounds
    <3>1. ~(it <= S(control).rounds)
      BY <1>3, <2>1, <2>2
    <3> QED BY <1>2, <1>5, <2>2, <3>1 DEF Iterate
  <2>3. CASE it <= S(control).rounds
    <3>1. ~(it > S(control).rounds)
      BY <1>3, <2>1, <2>3
    <3>3. CASE cancelled
      BY <1>2, <2>3, <3>1, <3>3 DEF Iterate
    <3>4. CASE ~cancelled /\ OverBudget(1)
      BY <1>2, <2>3, <3>1, <3>4 DEF Iterate
    <3>5. CASE ~cancelled /\ ~OverBudget(1)
      BY <1>2, <2>3, <3>1, <3>5 DEF Iterate
    <3> QED BY <3>3, <3>4, <3>5
  <2>4. it > S(control).rounds \/ it <= S(control).rounds
    BY <1>3, <2>1
  <2> QED BY <2>2, <2>3, <2>4
<1> QED BY <1>6, <1>7, <1>8, <1>9, <1>10

\* What is recorded while a stage, or an iteration, runs.
LEMMA CallFresh ==
  ASSUME IInv, Order, phase = "stage"
  PROVE  /\ Before(completed, cur.name) /\ Kept(completed) /\ status = "running"
         /\ cur.name[2] = 0 => Sound(completed, NoLoop) /\ SeenIn(completed) \subseteq seen
         /\ cur.via \in {"queue", "escalate"} => cur.name[2] = 0
BY WhileRunning DEF Order, Running, Before

LEMMA StageFailsOrder == ASSUME IInv, Order, StageFails PROVE Proper
<1>1. StageRan /\ phase = "stage"
  BY DEF StageFails, StageRan
<1>2. CASE Fail
  BY <1>2, FailOrder
<1>3. CASE /\ cur.via \in {"queue", "escalate"}
           /\ \E q : Loop(q, Append(completed, Result(Here, 0, "error")), seen \cup {Here})
  <2>1. PICK r, b : r = Result(Here, 0, "error") /\ b = completed
    OBVIOUS
  <2>2. PICK c : c = Append(b, r)
    OBVIOUS
  <2>3. /\ phase' = "loop" /\ completed' = c /\ seen' = seen \cup {Here} /\ graph' = graph
        /\ saved' = saved /\ status' = status
    BY <1>3, <2>1, <2>2 DEF Loop, Enter, stored
  <2>4. /\ cur.name[2] = 0 /\ Before(b, cur.name) /\ Kept(b) /\ Sound(b, NoLoop)
        /\ SeenIn(b) \subseteq seen /\ status = "running"
    BY <1>1, <1>3, <2>1, CallFresh
  <2>5. /\ r \in Records /\ r.name = cur.name /\ r.name[1] = Here /\ b \in Seq(Records)
        /\ S(Here).kind = "stage"
    BY <1>1, <2>1, <2>4, CallFacts, ResultType DEF Result, Here, Executable
  <2>6. Sound(c, NoLoop) /\ Kept(c)
    BY <2>2, <2>4, <2>5, AppendSound, AppendKept DEF Before
  <2>7. SeenIn(c) \subseteq seen'
    BY <2>2, <2>3, <2>4, <2>5, AppendNames
  <2> QED BY <2>3, <2>4, <2>6, <2>7, LoopOrder
<1> QED BY <1>2, <1>3 DEF StageFails

LEMMA StageSuspendsOrder == ASSUME IInv, Order, StageSuspends PROVE Proper
<1>1. StageRan /\ phase = "stage"
  BY DEF StageSuspends, StageRan
<1>2. PICK name, c : name = cur.name /\ c = completed
  OBVIOUS
<1>3. PICK lp : Suspend(name, c, lp)
  BY <1>2 DEF StageSuspends
<1>4. /\ graph' = graph /\ phase' = "idle" /\ completed' = <<>>
      /\ status' = "awaiting_tool_approval" /\ nextStage' = name /\ saved' = c
      /\ pending'.completed = c
  BY <1>3 DEF Suspend, Return, Idle
<1>5. Before(c, name) /\ Kept(c)
  BY <1>1, <1>2, CallFresh
<1>6. HeldAt("awaiting_tool_approval", name, c)
  BY <1>5, BeforeFacts DEF HeldAt
<1> QED BY <1>4, <1>5, <1>6, ReturnOrder

\* The executor returns at a stage it leaves unfinished.
LEMMA UnfinishedOrder ==
  ASSUME IInv, Order, NEW b, b \in Seq(Records), NEW r, r \in Records, Before(b, r.name), Kept(b),
         S(r.name[1]).kind # "join", r.status # "completed",
         NEW st, st \in {"paused_need_more_budget", "blocked"},
         Return(st, r.name, Append(b, r))
  PROVE  Proper
<1>1. PICK name, c : name = r.name /\ c = Append(b, r)
  OBVIOUS
<1>2. /\ graph' = graph /\ phase' = "idle" /\ completed' = <<>>
      /\ status' = st /\ nextStage' = name /\ saved' = c
  BY <1>1 DEF Return, Idle
<1>3. HeldAt(st, name, c)
  BY <1>1, HeldAtStop
<1>4. Kept(c)
  BY <1>1, AppendKept
<1> QED BY <1>2, <1>3, <1>4, ReturnOrder

LEMMA IncompleteOrder ==
  ASSUME IInv, Order, NEW name, name \in Names, Executable(name[1]), NEW b, b \in Seq(Records),
         Before(b, name), Kept(b), PauseIncomplete(b, name)
  PROVE  Proper
<1>1. PICK r : r = Result(name[1], name[2], "incomplete")
  OBVIOUS
<1>2. r \in Records /\ r.name = name /\ r.status = "incomplete"
  <2>1. name[1] \in Indices /\ name[2] \in Nat /\ name = <<name[1], name[2]>>
    BY DEF Names
  <2>2. r \in Records
    BY <1>1, <2>1, ResultType
  <2>3. r.name = name /\ r.status = "incomplete"
    BY <1>1, <2>1 DEF Result, Name
  <2> QED BY <2>2, <2>3
<1>3. Replace(b, r) = Append(b, r)
  BY <1>2, ReplaceNew DEF Before
<1>4. Return("paused_need_more_budget", r.name, Append(b, r))
  BY <1>1, <1>2, <1>3 DEF PauseIncomplete
<1> QED BY <1>2, <1>4, UnfinishedOrder DEF Executable

LEMMA StageIncompleteOrder == ASSUME IInv, Order, StageIncomplete PROVE Proper
<1>1. StageRan /\ phase = "stage"
  BY DEF StageIncomplete, StageRan
<1>2. PICK name, c : name = cur.name /\ c = completed
  OBVIOUS
<1>3. PauseIncomplete(c, name)
  BY <1>2 DEF StageIncomplete
<1>4. /\ name \in Names /\ Executable(name[1]) /\ c \in Seq(Records) /\ Before(c, name) /\ Kept(c)
  BY <1>1, <1>2, CallFacts, CallFresh DEF Here
<1> QED BY <1>3, <1>4, IncompleteOrder

\* The contract of a stage, not of an iteration, is broken.
LEMMA ContractOrder ==
  ASSUME IInv, Order, status = "running", NEW i, i \in Indices, Executable(i),
         NEW name, name = Name(i, 0), NEW b, b \in Seq(Records), Before(b, name), Kept(b),
         NEW e, e \in BOOLEAN, ContractFailure(i, name, b, e)
  PROVE  Proper
<1>0. name \in Names /\ name[1] = i /\ name[2] = 0 /\ graph \in Graphs
  BY ResultType DEF IInv
<1>1. PICK t : t = IF S(i).reroute = 0 THEN {} ELSE {S(i).reroute}
  OBVIOUS
<1>2. PICK r : r = [Result(i, name[2], "blocked") EXCEPT !.target = t, !.escalated = e]
  OBVIOUS
<1>3. PICK after : after = Append(b, r)
  OBVIOUS
<1>4. r \in Records /\ r.name = name /\ r.status = "blocked"
  <2>1. t \in SUBSET Indices
    BY <1>0, <1>1, GraphFacts
  <2>2. Result(i, name[2], "blocked") \in Records
    BY <1>0, ResultType
  <2>3. \A x \in Records : [x EXCEPT !.target = t, !.escalated = e] \in Records
    BY <2>1 DEF Records
  <2> QED BY <1>0, <1>2, <2>2, <2>3 DEF Result
<1>5. Sound(b, NoLoop)
  BY <1>0 DEF Before
<1>6. Sound(after, NoLoop) /\ Kept(after)
  BY <1>0, <1>3, <1>4, <1>5, AppendSound, AppendKept DEF Before, Executable
<1>7. \/ /\ phase' = "stage" /\ cur' = Calls(Name(i, 0), "escalate", TRUE)
         /\ completed' = b /\ seen' = SeenIn(b) /\ UNCHANGED stored
      \/ (\E q : Enter(q, after, SeenIn(after))) /\ UNCHANGED stored
      \/ Return("blocked", name, after)
  BY <1>1, <1>2, <1>3 DEF ContractFailure
<1>8. CASE /\ phase' = "stage" /\ cur' = Calls(Name(i, 0), "escalate", TRUE)
           /\ completed' = b /\ seen' = SeenIn(b) /\ UNCHANGED stored
  <2>1. cur'.name = name /\ graph' = graph /\ saved' = saved /\ status' = status
    BY <1>8 DEF Calls, stored
  <2> QED BY <1>0, <1>8, <2>1, StageOrder
<1>9. CASE (\E q : Enter(q, after, SeenIn(after))) /\ UNCHANGED stored
  <2>1. /\ phase' = "loop" /\ completed' = after /\ seen' = SeenIn(after)
        /\ graph' = graph /\ saved' = saved /\ status' = status
    BY <1>9 DEF Enter, stored
  <2> QED BY <1>6, <2>1, LoopOrder
<1>10. CASE Return("blocked", name, after)
  BY <1>0, <1>3, <1>4, <1>10, UnfinishedOrder DEF Executable
<1> QED BY <1>7, <1>8, <1>9, <1>10

\* That of an iteration, whose stage has nowhere to go when it breaks it.
LEMMA BodyContractOrder ==
  ASSUME IInv, Order, NEW i, i \in Indices, Executable(i), OnlyBlocks(S(i)),
         S(i).contract # "none",
         NEW name, name \in Names, name[1] = i, NEW b, b \in Seq(Records), Before(b, name),
         Kept(b), NEW e, e \in BOOLEAN, ContractFailure(i, name, b, e)
  PROVE  Proper
<1>1. /\ S(i).reroute = 0 /\ S(i).onError = <<>>
      /\ S(i).contract # "escalate" \/ ~S(i).escalation
  BY DEF OnlyBlocks
<1>2. PICK r : r = [Result(i, name[2], "blocked") EXCEPT !.target = {}, !.escalated = e]
  OBVIOUS
<1>3. PICK after : after = Append(b, r)
  OBVIOUS
<1>4. r \in Records /\ r.name = name /\ r.status = "blocked"
  <2>1. name[2] \in Nat /\ name = <<i, name[2]>>
    BY DEF Names
  <2>2. Result(i, name[2], "blocked") \in Records
    BY <2>1, ResultType
  <2>3. \A x \in Records : [x EXCEPT !.target = {}, !.escalated = e] \in Records
    BY DEF Records
  <2>4. r \in Records
    BY <1>2, <2>2, <2>3
  <2>5. r.name = Name(i, name[2]) /\ r.status = "blocked"
    BY <1>2 DEF Result
  <2> QED BY <2>1, <2>4, <2>5 DEF Name
<1>5. Named(S(i).onError, after) = <<>>
  BY <1>1, NamedNone
<1>6. Return("blocked", name, after)
  BY <1>1, <1>2, <1>3, <1>5 DEF ContractFailure
<1> QED BY <1>3, <1>4, <1>6, UnfinishedOrder DEF Executable

LEMMA StageBreaksContractOrder ==
  ASSUME IInv, Order, BodiesApart, StageBreaksContract PROVE Proper
<1>1. StageRan /\ phase = "stage" /\ S(Here).contract # "none" /\ graph \in Graphs
  BY DEF StageBreaksContract, StageRan, IInv
<1>2. PICK i, name, b, e : i = Here /\ name = cur.name /\ b = completed /\ e = cur.escalated
  OBVIOUS
<1>3. ContractFailure(i, name, b, e)
  BY <1>2 DEF StageBreaksContract
<1>4. /\ i \in Indices /\ Executable(i) /\ name \in Names /\ name[1] = i
      /\ b \in Seq(Records) /\ Before(b, name) /\ Kept(b) /\ e \in BOOLEAN
      /\ status = "running" /\ name = Name(i, name[2])
  BY <1>1, <1>2, CallFacts, CallFresh DEF Here
<1>5. CASE name[2] = 0
  BY <1>3, <1>4, <1>5, ContractOrder
<1>6. CASE name[2] # 0
  <2>1. RepeatOn(loop) /\ S(loop[1]).body = i
    BY <1>1, <1>2, <1>6, CallFacts DEF Runnable, Here
  <2>2. loop[1] \in Indices /\ S(loop[1]).kind = "repeat" /\ S(loop[1]).body \in Indices
    BY <1>4, <2>1 DEF RepeatOn, Names
  <2>3. OnlyBlocks(S(i)) /\ S(i).contract # "none"
    BY <1>1, <1>2, <2>1, <2>2, OneRepeat
  <2> QED BY <1>3, <1>4, <2>3, BodyContractOrder
<1> QED BY <1>5, <1>6

LEMMA StageSucceedsOrder ==
  ASSUME IInv, Order, BodiesApart, StageSucceeds PROVE Proper
<1>1. StageRan /\ phase = "stage" /\ graph \in Graphs
  BY DEF StageSucceeds, StageRan, IInv
<1>2. PICK r, b : /\ r = [Result(Here, cur.name[2], "completed") EXCEPT !.escalated = cur.escalated]
                  /\ b = completed
  <2>1. PICK b : b = completed
    OBVIOUS
  <2> QED BY <2>1
<1>3. PICK c : c = Append(b, r)
  OBVIOUS
<1>4. /\ r \in Records /\ r.name = cur.name /\ r.name[1] = Here /\ b \in Seq(Records)
      /\ S(Here).kind = "stage" /\ Here \in Indices /\ cur.name[2] \in Nat
  <2>1. /\ Result(Here, cur.name[2], "completed") \in Records /\ cur.escalated \in BOOLEAN
        /\ cur.name = Name(Here, cur.name[2]) /\ Here \in Indices /\ cur.name[2] \in Nat
    BY <1>1, CallFacts, ResultType
  <2>2. \A x \in Records, y \in BOOLEAN : [x EXCEPT !.escalated = y] \in Records
    BY DEF Records
  <2>3. r \in Records
    BY <1>2, <2>1, <2>2
  <2>4. r.name = cur.name
    BY <1>2, <2>1 DEF Result
  <2>5. b \in Seq(Records) /\ S(Here).kind = "stage"
    BY <1>1, <1>2, CallFacts DEF Executable
  <2> QED BY <2>1, <2>3, <2>4, <2>5 DEF Here
<1>5. Before(b, r.name) /\ Kept(b) /\ status = "running" /\ Kept(c)
  BY <1>1, <1>2, <1>3, <1>4, CallFresh, AppendKept
<1>6. SeenIn(c) = SeenIn(b) \cup {Here}
  BY <1>3, <1>4, AppendNames
<1>7. CASE cur.name[2] = 0
  <2>1. PICK q : Loop(q, c, seen \cup {Here})
    BY <1>2, <1>3, <1>7 DEF StageSucceeds
  <2>2. /\ phase' = "loop" /\ completed' = c /\ seen' = seen \cup {Here} /\ graph' = graph
        /\ saved' = saved /\ status' = status
    BY <2>1 DEF Loop, Enter, stored
  <2>3. Sound(b, NoLoop) /\ SeenIn(b) \subseteq seen
    BY <1>1, <1>2, <1>7, CallFresh
  <2>4. Sound(c, NoLoop)
    BY <1>3, <1>4, <1>5, <1>7, <2>3, AppendSound DEF Before
  <2>5. SeenIn(c) \subseteq seen'
    BY <1>6, <2>2, <2>3
  <2> QED BY <1>5, <2>2, <2>4, <2>5, LoopOrder
<1>8. CASE cur.name[2] # 0
  <2>1. PICK lp, it, control : lp = loop' /\ it = cur.name[2] /\ control = loop[1]
    OBVIOUS
  <2>2. /\ phase' = "repeat" /\ lp \in NextRound(control, it)
        /\ completed' = c /\ graph' = graph /\ saved' = saved /\ status' = status
    BY <1>2, <1>3, <1>8, <2>1 DEF StageSucceeds, stored
  <2>3. /\ control \in Indices /\ S(control).kind = "repeat" /\ S(control).body = Here
        /\ S(control).rounds \in Nat
    BY <1>1, <1>8, <2>1, CallFacts, GraphFacts DEF Runnable, RepeatOn, Names, Here
  <2>4. PICK j \in Indices :
           /\ S(j).kind = "repeat" /\ S(j).body = Here /\ it <= S(j).rounds
           /\ j \notin SeenIn(b) /\ Sound(b, <<j, it>>)
    BY <1>4, <1>5, <1>8, <2>1 DEF Before, UnderWay
  <2>5. j = control
    BY <1>1, <1>4, <2>3, <2>4, OneRepeat
  <2>6. lp[1] = control /\ lp[2] \in Nat /\ it < lp[2]
    BY <1>4, <2>1, <2>2, <2>3, <2>4, <2>5 DEF NextRound
  <2>7. control \notin SeenIn(c)
    BY <1>4, <1>6, <2>3, <2>4, <2>5
  <2>8. Distinct(c) /\ Joined(c)
    BY <1>3, <1>4, <1>5, BeforeFacts, AppendDistinct, AppendJoined
  <2>9. Looped(c, lp)
    <3>1. PICK old : old = <<j, it>>
      OBVIOUS
    <3>2. /\ Looped(b, old) /\ lp[1] = old[1] /\ old[2] = it /\ it \in Nat /\ it <= lp[2]
          /\ r.name[2] = it
      BY <1>4, <2>1, <2>4, <2>5, <2>6, <3>1 DEF Sound
    <3>3. lp[1] \in Indices /\ S(lp[1]).kind = "repeat" /\ S(lp[1]).body = r.name[1]
          /\ r.name[2] < lp[2] /\ old[2] \in Int /\ lp[2] \in Int
      BY <1>4, <2>3, <2>6, <3>2
    <3>4. Looped(Append(b, r), lp)
      BY <1>4, <3>2, <3>3, AppendLooped
    <3> QED BY <1>3, <3>4
  <2>10. Sound(c, lp)
    BY <2>8, <2>9 DEF Sound
  <2> QED BY <1>5, <2>1, <2>2, <2>6, <2>7, <2>10, RepeatOrder
<1> QED BY <1>7, <1>8

------------------------------------------------------------------------------
(* What is recorded when a run starts, and when it is answered             *)

LEMMA NothingYet ==
  <<>> \in Seq(Records) /\ SeenIn(<<>>) = {} /\ Sound(<<>>, NoLoop)
BY DEF SeenIn, Sound, Distinct, Joined, Looped

LEMMA OrderInit == Init => Order
<1> SUFFICES ASSUME Init PROVE Order
  OBVIOUS
<1>1. /\ status = "none" /\ saved = <<>> /\ inStore = FALSE /\ phase = "idle" /\ completed = <<>>
  BY DEF Init
<1>2. Running
  BY <1>1 DEF Running
<1>3. Halted
  BY <1>1, NothingYet DEF Halted, HeldAt, Sound
<1> QED BY <1>2, <1>3 DEF Order

LEMMA RunOrder == ASSUME IInv, Order, NEW pre \in BOOLEAN, Run(pre) PROVE Proper
<1>1. /\ status = "none" /\ graph' = graph /\ saved' = saved /\ status' = "running"
      /\ phase' = "loop" /\ completed' = <<>> /\ seen' = {}
  BY DEF Run, Enter
<1>2. saved = <<>>
  BY <1>1 DEF Order, Halted, HeldAt
<1>3. PICK c : c = <<>>
  OBVIOUS
<1>4. Kept(c) /\ completed' = c /\ Sound(c, NoLoop) /\ SeenIn(c) \subseteq seen'
  BY <1>1, <1>2, <1>3, NothingYet DEF Kept
<1> QED BY <1>1, <1>4, LoopOrder

LEMMA ResumeOrder ==
  ASSUME Order, NEW q, NEW c, Resume(q, c), Sound(c, NoLoop), Kept(c)
  PROVE  Proper
<1>1. /\ phase' = "loop" /\ completed' = c /\ seen' = SeenIn(c) /\ status' = "running"
      /\ graph' = graph /\ saved' = saved
  BY DEF Resume
<1>2. SeenIn(c) \subseteq seen'
  BY <1>1
<1> QED BY <1>1, <1>2, LoopOrder

LEMMA ResumeStageOrder ==
  ASSUME Order, NEW name, NEW c, NEW lp, NEW via, NEW e, ResumeStage(name, c, lp, via, e),
         Before(c, name), Kept(c), via \in {"tool", "continue"} \/ name[2] = 0
  PROVE  Proper
<1>1. /\ phase' = "stage" /\ completed' = c /\ seen' = SeenIn(c) /\ status' = "running"
      /\ cur' = [name |-> name, via |-> via, escalated |-> e, doomed |-> FALSE]
      /\ graph' = graph /\ saved' = saved
  BY DEF ResumeStage
<1>2. /\ SeenIn(c) \subseteq seen' /\ cur'.name = name
      /\ cur'.via \in {"queue", "escalate"} => name[2] = 0
  BY <1>1
<1> QED BY <1>1, <1>2, StageOrder

LEMMA ResumeApprovalOrder == ASSUME IInv, Order, ResumeApproval PROVE Proper
<1>1. Resume(<<At>>, saved) /\ status = "awaiting_approval"
  BY DEF ResumeApproval, Waits
<1>2. Sound(saved, NoLoop)
  BY <1>1 DEF Order, Halted, HeldAt
<1> QED BY <1>1, <1>2, KeptFacts, ResumeOrder

LEMMA ResumeInputOrder == ASSUME IInv, Order, ResumeInput PROVE Proper
<1>1. Resume(<<At>>, saved) /\ status = "awaiting_input"
  BY DEF ResumeInput, Waits
<1>2. Sound(saved, NoLoop)
  BY <1>1 DEF Order, Halted, HeldAt
<1> QED BY <1>1, <1>2, KeptFacts, ResumeOrder

LEMMA ApproveBudgetOrder == ASSUME IInv, Order, ApproveBudget PROVE Proper
<1>1. Resume(<<At>>, saved) /\ status = "awaiting_budget_approval" /\ nextStage[2] = 0
  BY DEF ApproveBudget, Waits, CanApproveBudget
<1>2. Sound(saved, NoLoop)
  BY <1>1 DEF Order, Halted, HeldAt
<1> QED BY <1>1, <1>2, KeptFacts, ResumeOrder

LEMMA ResumeSubWorkflowOrder == ASSUME IInv, Order, ResumeSubWorkflow PROVE Proper
<1>1. Waits("child", "awaiting_sub_workflow") /\ S(At).kind = "sub"
  BY DEF ResumeSubWorkflow, CanResumeSubWorkflow
<1>2. PICK r : r = Result(At, 0, "completed")
  OBVIOUS
<1>3. PICK c : c = Append(saved, r)
  OBVIOUS
<1>4. PICK q : Resume(q, c)
  BY <1>2, <1>3 DEF ResumeSubWorkflow
<1>5. /\ At \in Indices /\ saved \in Seq(Records) /\ graph \in Graphs
      /\ nextStage = Name(At, nextStage[2]) /\ status = "awaiting_sub_workflow"
  BY <1>1, WaitFacts DEF WaitStatuses
<1>6. Before(saved, nextStage) /\ nextStage[2] = 0
  BY <1>5 DEF Order, Halted, HeldAt
<1>7. r \in Records /\ r.name = nextStage /\ r.name[1] = At /\ r.name[2] = 0
  <2>1. r \in Records /\ r.name = Name(At, 0)
    BY <1>2, <1>5, ResultType DEF Result
  <2> QED BY <1>5, <1>6, <2>1 DEF At
<1>8. Sound(c, NoLoop) /\ Kept(c)
  BY <1>1, <1>3, <1>5, <1>6, <1>7, KeptFacts, AppendSound, AppendKept DEF Before
<1> QED BY <1>4, <1>8, ResumeOrder

\* The tool's run holds what the stored run does.
LEMMA ToolOrder ==
  ASSUME IInv, Order, NEW op, Waits(op, "awaiting_tool_approval"), CanResumeTool
  PROVE  ToolCompleted = saved /\ Before(saved, nextStage) /\ saved \in Seq(Records)
<1>1. status = "awaiting_tool_approval"
  BY DEF Waits
<1>2. Before(saved, nextStage) /\ (inStore => pending.completed = saved)
  BY <1>1 DEF Order, Halted, HeldAt
<1> QED BY <1>2 DEF ToolCompleted, IInv, Stored

LEMMA ApproveToolOrder == ASSUME IInv, Order, ApproveTool PROVE Proper
<1>1. Waits("approve", "awaiting_tool_approval") /\ CanResumeTool
  BY DEF ApproveTool
<1>2. PICK c, name, lp : c = saved /\ name = nextStage /\ lp = ToolLoop
  OBVIOUS
<1>3. c = ToolCompleted /\ Before(c, name) /\ Kept(c)
  BY <1>1, <1>2, ToolOrder, KeptFacts
<1>4. CASE Fail
  BY <1>4, FailOrder
<1>5. CASE Return("awaiting_budget_approval", name, c)
  <2>1. /\ graph' = graph /\ phase' = "idle" /\ completed' = <<>>
        /\ status' = "awaiting_budget_approval" /\ nextStage' = name /\ saved' = c
    BY <1>5 DEF Return, Idle
  <2>2. HeldAt("awaiting_budget_approval", name, c)
    BY <1>3, BeforeFacts DEF HeldAt, Before
  <2> QED BY <1>3, <2>1, <2>2, ReturnOrder
<1>6. CASE ResumeStage(name, c, lp, "tool", FALSE)
  <2>1. PICK via, e : via = "tool" /\ e = FALSE
    OBVIOUS
  <2>2. ResumeStage(name, c, lp, via, e)
    BY <1>6, <2>1
  <2> QED BY <1>3, <2>1, <2>2, ResumeStageOrder
<1> QED BY <1>2, <1>3, <1>4, <1>5, <1>6 DEF ApproveTool

LEMMA DenyToolOrder == ASSUME IInv, Order, DenyTool PROVE Proper
<1>1. Waits("deny", "awaiting_tool_approval") /\ CanResumeTool
  BY DEF DenyTool
<1>2. PICK r, b : r = Result(At, nextStage[2], "denied") /\ b = saved
  <2>1. PICK b : b = saved
    OBVIOUS
  <2> QED BY <2>1
<1>3. PICK c : c = Append(b, r)
  OBVIOUS
<1>4. b = ToolCompleted /\ Before(b, nextStage) /\ Kept(b) /\ b \in Seq(Records)
  BY <1>1, <1>2, ToolOrder, KeptFacts
<1>5. /\ r \in Records /\ r.name = nextStage /\ r.status = "denied"
      /\ S(r.name[1]).kind # "join"
  <2>1. /\ At \in Indices /\ nextStage[2] \in Nat /\ nextStage = Name(At, nextStage[2])
        /\ S(At).kind # "join"
    BY <1>1, ToolFacts DEF Executable
  <2>2. r \in Records /\ r.name = nextStage /\ r.status = "denied"
    BY <1>2, <2>1, ResultType DEF Result
  <2> QED BY <2>1, <2>2 DEF At
<1>6. /\ graph' = graph /\ phase' = "idle" /\ completed' = <<>>
      /\ status' = "denied" /\ nextStage' = nextStage /\ saved' = c
  BY <1>2, <1>3, <1>4 DEF DenyTool, Return, Idle
<1>7. HeldAt("denied", r.name, c) /\ Kept(c)
  BY <1>3, <1>4, <1>5, HeldAtStop, AppendKept
<1>8. PICK st, name : st = "denied" /\ name = nextStage
  OBVIOUS
<1>9. HeldAt(st, name, c) /\ status' = st /\ nextStage' = name
  BY <1>5, <1>6, <1>7, <1>8
<1> QED BY <1>6, <1>7, <1>8, <1>9, ReturnOrder

\* Without the result of the stage it stopped at, a run is as it was before.
LEMMA WithoutStop ==
  ASSUME AtStop(saved, nextStage)
  PROVE  LET b == Without(saved, nextStage) IN Before(b, nextStage) /\ Kept(b)
<1>1. PICK b \in Seq(Records), r \in Records :
         /\ saved = Append(b, r) /\ r.name = nextStage /\ r.status # "completed"
         /\ Before(b, nextStage)
  BY DEF AtStop
<1>2. Without(saved, nextStage) = b
  BY <1>1, WithoutLast DEF Before
<1>3. Kept(b)
  <2>1. PICK n \in Nat : n = Len(b) /\ DOMAIN b = 1..n
    OBVIOUS
  <2>2. PICK d : d = saved
    OBVIOUS
  <2>3. DOMAIN d = 1..(n + 1) /\ d[n + 1] = r /\ \A k \in 1..n : d[k] = b[k]
    BY <1>1, <2>1, <2>2
  <2>4. \A k \in 1..(n + 1) : k \in 1..n \/ k = n + 1
    BY <2>1
  <2>5. \A k \in DOMAIN d : d[k].status = "completed" => \E j \in DOMAIN b : b[j] = d[k]
    BY <1>1, <2>1, <2>3, <2>4
  <2> QED BY <2>2, <2>5 DEF Kept
<1> QED BY <1>1, <1>2, <1>3

LEMMA ContinueOutputOrder == ASSUME IInv, Order, ContinueOutput PROVE Proper
<1> DEFINE lps == IF nextStage[2] = 0 THEN NoLoop ELSE <<RepeatOf(At), nextStage[2]>>
<1>1. PICK name, c, lp, via, e :
         /\ name = nextStage /\ c = Without(saved, nextStage) /\ lp = lps
         /\ via = "continue" /\ e = FALSE
  OBVIOUS
<1>2. ResumeStage(name, c, lp, via, e) /\ status = "paused_need_more_budget"
  BY <1>1 DEF ContinueOutput, Waits
<1>3. AtStop(saved, nextStage)
  BY <1>2 DEF Order, Halted, HeldAt
<1>4. Before(c, name) /\ Kept(c)
  BY <1>1, <1>3, WithoutStop
<1> QED BY <1>1, <1>2, <1>4, ResumeStageOrder

LEMMA EscalateModelOrder == ASSUME IInv, Order, EscalateModel PROVE Proper
<1>1. PICK name, c, lp, via, e :
         /\ name = nextStage /\ c = Without(saved, nextStage) /\ lp = NoLoop
         /\ via = "escalate" /\ e = TRUE
  OBVIOUS
<1>2. ResumeStage(name, c, lp, via, e) /\ status = "blocked" /\ name[2] = 0
  BY <1>1 DEF EscalateModel, Waits, CanEscalateModel
<1>3. AtStop(saved, nextStage)
  BY <1>2 DEF Order, Halted, HeldAt
<1>4. Before(c, name) /\ Kept(c)
  BY <1>1, <1>3, WithoutStop
<1> QED BY <1>2, <1>4, ResumeStageOrder

\* A step beside the run and its executor.
LEMMA SameOrder ==
  ASSUME Order, UNCHANGED <<stored, executor>>, inStore' => inStore /\ pending' = pending
  PROVE  Proper
<1>1. /\ graph' = graph /\ status' = status /\ nextStage' = nextStage /\ saved' = saved
      /\ phase' = phase /\ completed' = completed /\ seen' = seen /\ cur' = cur /\ loop' = loop
  BY DEF stored, executor
<1>2. Halted'
  BY <1>1, OrderFrame DEF Order, Halted
<1>3. Running'
  <2>1. /\ (phase = "idle" => completed = <<>>)'
        /\ (phase # "idle" => Kept(completed))'
    BY <1>1 DEF Order, Running, Kept
  <2>2. (phase = "loop" => Sound(completed, NoLoop) /\ SeenIn(completed) \subseteq seen)'
    BY <1>1, OrderFrame DEF Order, Running, SeenIn, NoLoop
  <2>3. (phase = "repeat" => loop[1] \notin SeenIn(completed) /\ Sound(completed, loop))'
    BY <1>1, OrderFrame DEF Order, Running, SeenIn
  <2>4. (phase = "stage" =>
           /\ Before(completed, cur.name)
           /\ cur.via \in {"queue", "escalate"} => cur.name[2] = 0
           /\ cur.name[2] = 0 => SeenIn(completed) \subseteq seen)'
    BY <1>1, OrderFrame DEF Order, Running, SeenIn
  <2> QED BY <2>1, <2>2, <2>3, <2>4 DEF Running
<1>4. Stays
  BY <1>1 DEF Stays
<1> QED BY <1>2, <1>3, <1>4 DEF Proper, Order

LEMMA BesideOrder ==
  ASSUME Order, ChildCompletes \/ Cancel \/ Restart \/ UNCHANGED vars
  PROVE  Proper
<1>1. UNCHANGED <<stored, executor>> /\ (inStore' => inStore /\ pending' = pending)
  <2>1. CASE ChildCompletes
    BY <2>1 DEF ChildCompletes
  <2>2. CASE Cancel
    BY <2>2 DEF Cancel, waiting
  <2>3. CASE Restart
    BY <2>3 DEF Restart
  <2>4. CASE UNCHANGED vars
    BY <2>4 DEF vars, stored, executor, waiting
  <2> QED BY <2>1, <2>2, <2>3, <2>4
<1> QED BY <1>1, SameOrder

------------------------------------------------------------------------------
(* What concurrent branches leave                                          *)

\* A part with two elements is a part of a list with two elements, all of them
\* elements of that list.
LEMMA SubsequenceFacts ==
  ASSUME NEW s \in Seq(Indices), NEW p \in SubsequencesOf(s)
  PROVE  /\ p \in Seq(Indices)
         /\ Len(p) >= 2 => Len(s) >= 2
         /\ \A k \in DOMAIN p : \E j \in DOMAIN s : p[k] = s[j]
<1>1. PICK all, keep : all = Indices /\ p = Filter(s, keep)
  <2>1. PICK keep : p = Filter(s, keep)
    BY DEF SubsequencesOf
  <2> QED BY <2>1
<1>2. Filter(s, keep) \in Seq(all)
      /\ \E at \in [1..Len(Filter(s, keep)) -> (1..Len(s)) \cap keep] :
            /\ \A k \in 1..Len(Filter(s, keep)) : Filter(s, keep)[k] = s[at[k]]
            /\ \A j, k \in 1..Len(Filter(s, keep)) : j < k => at[j] < at[k]
  BY <1>1, FilterPlaces
<1>3. p \in Seq(all)
      /\ \E at \in [1..Len(p) -> (1..Len(s)) \cap keep] :
            /\ \A k \in 1..Len(p) : p[k] = s[at[k]]
            /\ \A j, k \in 1..Len(p) : j < k => at[j] < at[k]
  BY <1>1, <1>2
<1>4. PICK at \in [1..Len(p) -> (1..Len(s)) \cap keep] :
         /\ \A k \in 1..Len(p) : p[k] = s[at[k]]
         /\ \A j, k \in 1..Len(p) : j < k => at[j] < at[k]
  BY <1>3
<1>5. p \in Seq(Indices) /\ DOMAIN p = 1..Len(p) /\ Len(p) \in Nat
      /\ DOMAIN s = 1..Len(s) /\ Len(s) \in Nat
  BY <1>1, <1>3
<1>6. ASSUME Len(p) >= 2 PROVE Len(s) >= 2
  <2>1. 1 \in 1..Len(p) /\ 2 \in 1..Len(p) /\ 1 < 2
    BY <1>5, <1>6
  <2>2. at[1] < at[2] /\ at[1] \in 1..Len(s) /\ at[2] \in 1..Len(s)
    BY <1>4, <2>1
  <2> QED BY <1>5, <2>2
<1>7. \A k \in DOMAIN p : \E j \in DOMAIN s : p[k] = s[j]
  BY <1>4, <1>5
<1> QED BY <1>5, <1>6, <1>7

\* The branches of a parallel stage, when there are several, have no result.
LEMMA BranchesFresh ==
  ASSUME graph \in Graphs, NEW i \in Indices, NEW c, NEW q \in Branches(i, c), Len(q) >= 2
  PROVE  \A k \in DOMAIN q : q[k] \notin SeenIn(c)
<1>1. PICK all : all = Following(i, c)
  OBVIOUS
<1>2. all \in Seq(Indices) /\ (Len(all) >= 2 => \A k \in DOMAIN all : all[k] \notin SeenIn(c))
  <2>1. N \in Nat /\ S(i).next \in Seq(Indices)
    BY GraphFacts
  <2>2. PICK p, named : p = S(i).next /\ named = Named(p, c)
    <3>1. PICK p : p = S(i).next
      OBVIOUS
    <3> QED BY <3>1
  <2>3. named \in Seq(Indices) /\ \A k \in DOMAIN named : named[k] \notin SeenIn(c)
    BY <2>1, <2>2, NamedType, NamedFresh
  <2>4. all = named \/ (i < N /\ all = <<i + 1>>)
    BY <1>1, <2>2 DEF Following
  <2>5. CASE all = named
    BY <2>3, <2>5
  <2>6. CASE i < N /\ all = <<i + 1>>
    <3>1. i + 1 \in Indices
      BY <2>1, <2>6 DEF Indices
    <3>2. Len(all) = 1 /\ all \in Seq(Indices)
      BY <2>6, <3>1
    <3> QED BY <3>2
  <2> QED BY <2>4, <2>5, <2>6
<1> DEFINE Fresh(p) == /\ p \in Seq(Indices)
                       /\ Len(p) >= 2 => \A k \in DOMAIN p : p[k] \notin SeenIn(c)
<1>3. ASSUME NEW s, Fresh(s), NEW p \in SubsequencesOf(s) PROVE Fresh(p)
  BY <1>3, SubsequenceFacts
<1>4. Fresh(all)
  BY <1>2
<1>5. \A p \in NextOf(i, c) : Fresh(p)
  <2> SUFFICES ASSUME NEW p \in NextOf(i, c) PROVE Fresh(p)
    OBVIOUS
  <2>1. S(i).strategy \in {"all", "handoff", "select"}
    BY GraphFacts
  <2>2. p = all \/ p \in SubsequencesOf(all)
    BY <1>1, <2>1 DEF NextOf
  <2> HIDE DEF Fresh
  <2> QED BY <1>3, <1>4, <2>2
<1>6. Fresh(q)
  <2>1. CASE S(i).selects
    <3>1. PICK p \in NextOf(i, c) : q \in SubsequencesOf(p)
      BY <2>1 DEF Branches
    <3>2. Fresh(p)
      BY <1>5, <3>1
    <3> HIDE DEF Fresh
    <3> QED BY <1>3, <3>1, <3>2
  <2>2. CASE ~S(i).selects
    <3>1. q \in NextOf(i, c)
      BY <2>2 DEF Branches
    <3> HIDE DEF Fresh
    <3> QED BY <1>5, <3>1
  <2> QED BY <2>1, <2>2
<1> QED BY <1>6

\* Chains of branches that do not conflict: no two share a stage, none comes twice
\* and none has a result.
Apart(plans, c) ==
    /\ \A k \in DOMAIN plans :
          /\ \A a, b \in 1..Len(plans[k]) : plans[k][a] = plans[k][b] => a = b
          /\ \A a \in 1..(Len(plans[k]) - 1) : plans[k][a] \notin SeenIn(c)
    /\ \A j, k \in DOMAIN plans : j # k =>
          \A a \in 1..(Len(plans[j]) - 1), b \in 1..(Len(plans[k]) - 1) :
             plans[j][a] # plans[k][b]

LEMMA PlansApart ==
  ASSUME graph \in Graphs, NEW i \in Indices, S(i).kind = "parallel", NEW done \in Seq(Records),
         NEW q \in Branches(i, done), Len(q) >= 2, NEW c, SeenIn(c) = SeenIn(done) \cup {i},
         NEW plans, plans = [k \in DOMAIN q |-> ConcurrentPlan(q[k], c)], ~Conflict(plans)
  PROVE  Apart(plans, c)
<1>1. q \in Seq(Indices) /\ \A k \in DOMAIN q : q[k] \in Indices /\ q[k] \notin SeenIn(done)
  BY BranchesType, BranchesFresh
<1>2. ASSUME NEW k \in DOMAIN q
      PROVE  /\ ChainFrom(plans[k], q[k], c, ConcurrentOK) /\ plans[k] \in Seq(Indices)
             /\ \A a \in 1..(Len(plans[k]) - 1) : plans[k][a] \notin SeenIn(c)
  <2>1. PICK j, all : j = q[k] /\ all = ConcurrentOK
    OBVIOUS
  <2>2. PICK p : p = Chain(j, c, all)
    OBVIOUS
  <2>3. j \in Indices /\ j \notin SeenIn(done) /\ plans[k] = p
    BY <1>1, <2>1, <2>2 DEF ConcurrentPlan
  <2>4. p # <<>>
    BY <2>3 DEF Conflict
  <2>5. ChainFrom(p, j, c, all)
    BY <2>2, <2>3, <2>4, ChainFacts
  <2>6. ASSUME NEW a \in 1..(Len(p) - 1) PROVE p[a] \notin SeenIn(c)
    <3>1. Len(p) \in Nat
      BY <2>5 DEF ChainFrom
    <3>2. CASE a = 1
      <4>1. p[a] = j /\ p[a] \in ConcurrentOK
        BY <2>1, <2>5, <3>2 DEF ChainFrom
      <4>2. j # i
        BY <4>1 DEF ConcurrentOK, StaticOK, Executable
      <4> QED BY <2>3, <4>1, <4>2
    <3>3. CASE a # 1
      <4>1. a \in 2..Len(p)
        BY <3>1, <3>3
      <4> QED BY <2>5, <4>1 DEF ChainFrom
    <3> QED BY <3>2, <3>3
  <2> QED BY <2>1, <2>3, <2>5, <2>6 DEF ChainFrom
<1>3. DOMAIN plans = DOMAIN q
  OBVIOUS
<1>4. \A k \in DOMAIN plans : \A a, b \in 1..Len(plans[k]) : plans[k][a] = plans[k][b] => a = b
  BY <1>2, <1>3 DEF ChainFrom
<1>5. ASSUME NEW j \in DOMAIN plans, NEW k \in DOMAIN plans, j # k,
             NEW a \in 1..(Len(plans[j]) - 1), NEW b \in 1..(Len(plans[k]) - 1)
      PROVE  plans[j][a] # plans[k][b]
  <2>1. \A p \in Seq(Indices) : \A x \in 1..(Len(p) - 1) : p[x] \in ToSet(Front(p))
    BY DEF ToSet, Front
  <2>2. plans[j] \in Seq(Indices) /\ plans[k] \in Seq(Indices)
    BY <1>2, <1>3
  <2>3. plans[j][a] \in ToSet(Front(plans[j])) /\ plans[k][b] \in ToSet(Front(plans[k]))
    BY <2>1, <2>2
  <2> QED BY <1>5, <2>3 DEF Conflict
<1> QED BY <1>2, <1>3, <1>4, <1>5 DEF Apart

\* Lists of results of which no two share a name, one after the other.
LEMMA FlattenDistinct ==
  ASSUME NEW ss \in Seq(Seq(Records)),
         \A k \in DOMAIN ss : Distinct(ss[k]),
         \A j, k \in DOMAIN ss : j # k => NamesIn(ss[j]) \cap NamesIn(ss[k]) = {}
  PROVE  Distinct(FlattenSeq(ss))
<1>1. CASE ss = <<>>
  <2>1. Len(ss) = 0
    BY <1>1
  <2> QED BY <1>1, <2>1 DEF FlattenSeq, Distinct
<1>2. CASE ss # <<>>
  <2>1. PICK M \in Nat : M = Len(ss) /\ DOMAIN ss = 1..M /\ M # 0
    BY <1>2
  <2>2. PICK T : T = Records
    OBVIOUS
  <2>3. ss \in Seq(Seq(T))
    BY <2>2
  <2>4. PICK part \in [1..Len(ss) -> Seq(T)] :
           /\ FlattenSeq(ss) = part[Len(ss)]
           /\ part[1] = ss[1]
           /\ \A n \in 2..Len(ss) : part[n] = part[n - 1] \o ss[n]
    BY <1>2, <2>3, FlattenLoop
  <2> DEFINE Good(n) == Distinct(part[n])
                        /\ \A x \in NamesIn(part[n]) : \E k \in 1..n : x \in NamesIn(ss[k])
             V == {n \in 0..M : n # 0 => Good(n)}
  <2>5. 0 \in V
    BY <2>1
  <2>6. ASSUME NEW n \in 0..M, n # M, n \in V PROVE n + 1 \in V
    <3>1. n + 1 \in 1..M /\ n + 1 \in 0..M
      BY <2>1, <2>6
    <3>2. CASE n = 0
      <4>1. part[n + 1] = ss[1] /\ 1 \in 1..(n + 1) /\ 1 \in DOMAIN ss
        BY <2>1, <2>4, <3>2
      <4>2. Good(n + 1)
        BY <4>1
      <4> HIDE DEF Good
      <4> QED BY <3>1, <4>2
    <3>3. CASE n # 0
      <4>1. /\ part[n + 1] = part[n] \o ss[n + 1] /\ part[n] \in Seq(Records)
            /\ ss[n + 1] \in Seq(Records)
        <5>1. n + 1 \in 2..Len(ss) /\ n \in 1..Len(ss) /\ (n + 1) - 1 = n
          BY <2>1, <2>6, <3>1, <3>3
        <5> HIDE DEF V, Good
        <5>2. part[n + 1] = part[(n + 1) - 1] \o ss[n + 1]
          BY <2>4, <5>1
        <5>3. part[n] \in Seq(T)
          BY <2>4, <5>1
        <5>4. ss[n + 1] \in Seq(Records)
          BY <2>1, <3>1
        <5> QED BY <2>2, <5>1, <5>2, <5>3, <5>4
      <4>2. Good(n)
        BY <2>6, <3>3
      <4>3. PICK a, b : a = part[n] /\ b = ss[n + 1]
        <5>1. PICK a : a = part[n]
          OBVIOUS
        <5> QED BY <5>1
      <4>4. /\ Distinct(a) /\ \A x \in NamesIn(a) : \E k \in 1..n : x \in NamesIn(ss[k])
            /\ a \in Seq(Records) /\ b \in Seq(Records)
        BY <4>1, <4>2, <4>3
      <4>5. NamesIn(b) \cap NamesIn(a) = {}
        <5> SUFFICES ASSUME NEW x \in NamesIn(a), x \in NamesIn(b) PROVE FALSE
          OBVIOUS
        <5>1. PICK k \in 1..n : x \in NamesIn(ss[k])
          BY <4>4
        <5>2. k \in DOMAIN ss /\ n + 1 \in DOMAIN ss /\ k # n + 1
          BY <2>1, <3>1, <5>1
        <5> HIDE DEF V, Good
        <5> QED BY <4>3, <5>1, <5>2
      <4>6. Distinct(a \o b) /\ NamesIn(a \o b) = NamesIn(a) \cup NamesIn(b)
        <5>1. n + 1 \in DOMAIN ss /\ Distinct(b)
          BY <2>1, <3>1, <4>3
        <5> HIDE DEF V, Good
        <5> QED BY <4>4, <4>5, <5>1, ConcatDistinct, ConcatNames
      <4>7. \A x \in NamesIn(a \o b) : \E k \in 1..(n + 1) : x \in NamesIn(ss[k])
        <5> HIDE DEF V, Good
        <5> SUFFICES ASSUME NEW x \in NamesIn(a \o b)
                     PROVE  \E k \in 1..(n + 1) : x \in NamesIn(ss[k])
          OBVIOUS
        <5>1. CASE x \in NamesIn(a)
          <6>1. PICK k \in 1..n : x \in NamesIn(ss[k])
            BY <4>4, <5>1
          <6>2. k \in 1..(n + 1)
            BY <3>1
          <6> QED BY <6>1, <6>2
        <5>2. CASE x \in NamesIn(b)
          <6>1. n + 1 \in 1..(n + 1)
            BY <3>1
          <6> QED BY <4>3, <5>2, <6>1
        <5> QED BY <4>6, <5>1, <5>2
      <4>8. part[n + 1] = a \o b
        <5> HIDE DEF V, Good
        <5> QED BY <4>1, <4>3
      <4>9. Good(n + 1)
        BY <4>6, <4>7, <4>8
      <4> HIDE DEF Good
      <4> QED BY <3>1, <4>9
    <3> QED BY <3>2, <3>3
  <2>7. 0..M \subseteq V
    <3> HIDE DEF V
    <3> QED BY <2>1, <2>5, <2>6, UpTo
  <2>8. M \in V
    <3> HIDE DEF V
    <3> QED BY <2>1, <2>7
  <2>9. Distinct(part[M])
    BY <2>1, <2>8
  <2> QED BY <2>1, <2>4, <2>9
<1> QED BY <1>1, <1>2

\* A branch leaves a result of each stage before the one it stops at, in their
\* order, and of that one unless it suspended or is the join.
LEMMA LeftFacts ==
  ASSUME graph \in Graphs, NEW p \in Seq(Indices), p # <<>>, NEW o \in Outcomes(p),
         \A j \in 1..(Len(p) - 1) : Executable(p[j])
  PROVE  /\ \E n \in Nat : /\ DOMAIN BranchResults(p, o) = 1..n /\ n <= Len(p) - 1
                           /\ o.how = "suspended" => n < o.at
         /\ \A k \in DOMAIN BranchResults(p, o) : BranchResults(p, o)[k].name = Name(p[k], 0)
<1>1. PICK n \in Nat : n = Len(p) /\ n # 0
  OBVIOUS
<1>2. PICK at : at = o.at
  OBVIOUS
<1>3. /\ at \in 1..n /\ o.how \in {"done", "error", "suspended", "incomplete", "blocked"}
      /\ o.how # "done" => at \in 1..(n - 1)
  BY <1>1, <1>2 DEF Outcomes
<1>4. PICK done : done = [j \in 1..(at - 1) |-> Result(p[j], 0, "completed")]
  OBVIOUS
<1>5. /\ DOMAIN done = 1..(at - 1) /\ Len(done) = at - 1
      /\ \A j \in 1..(at - 1) : done[j].name = Name(p[j], 0)
  BY <1>3, <1>4 DEF Result
<1>6. done \in Seq(Records)
  <2>1. PICK m \in Nat : m = at - 1
    BY <1>3
  <2>2. \A j \in 1..m : Result(p[j], 0, "completed") \in Records
    BY <1>1, <1>3, <2>1, ResultType
  <2> QED BY <1>4, <2>1, <2>2
<1>7. CASE o.how \in {"error", "incomplete", "blocked"}
  <2>1. PICK r : r = Result(Stop(p, o), 0, o.how)
    OBVIOUS
  <2>2. BranchResults(p, o) = done \o <<r>>
    BY <1>2, <1>4, <1>7, <2>1 DEF BranchResults
  <2>3. r.name = Name(p[at], 0)
    BY <1>2, <2>1 DEF Result, Stop
  <2>4. PICK all : all = done \o <<r>>
    OBVIOUS
  <2>5. DOMAIN all = 1..at /\ all[at] = r /\ \A j \in 1..(at - 1) : all[j] = done[j]
    BY <1>3, <1>5, <1>6, <2>4
  <2>6. \A k \in 1..at : all[k].name = Name(p[k], 0)
    <3> SUFFICES ASSUME NEW k \in 1..at PROVE all[k].name = Name(p[k], 0)
      OBVIOUS
    <3>1. k = at \/ k \in 1..(at - 1)
      BY <1>3
    <3> QED BY <1>5, <2>3, <2>5, <3>1
  <2>7. at \in Nat /\ at <= Len(p) - 1 /\ o.how # "suspended"
    BY <1>1, <1>3, <1>7
  <2> QED BY <2>2, <2>4, <2>5, <2>6, <2>7
<1>8. CASE o.how \notin {"error", "incomplete", "blocked"}
  <2>1. BranchResults(p, o) = done
    BY <1>2, <1>4, <1>6, <1>8 DEF BranchResults
  <2>2. at - 1 \in Nat /\ at - 1 <= Len(p) - 1 /\ at - 1 < o.at
    BY <1>1, <1>2, <1>3
  <2> QED BY <1>5, <2>1, <2>2
<1> QED BY <1>7, <1>8

\* Results of stages that had none.
LEMMA FreshResults ==
  ASSUME NEW c \in Seq(Records), NEW rs \in Seq(Records), Sound(c, NoLoop), Kept(c), Distinct(rs),
         \A k \in DOMAIN rs : /\ rs[k].name[2] = 0 /\ Executable(rs[k].name[1])
                              /\ rs[k].name[1] \notin SeenIn(c)
  PROVE  /\ Sound(c \o rs, NoLoop) /\ Kept(c \o rs)
         /\ \A name \in Names :
               /\ name[2] = 0 /\ name[1] \notin SeenIn(c)
               /\ \A k \in DOMAIN rs : rs[k].name # name
               => Before(c \o rs, name)
<1>1. NamesIn(rs) \cap NamesIn(c) = {}
  <2> SUFFICES ASSUME NEW k \in DOMAIN rs, rs[k].name \in NamesIn(c) PROVE FALSE
    BY DEF NamesIn
  <2>1. rs[k].name \in Names
    <3>1. rs[k] \in Records
      OBVIOUS
    <3> QED BY <3>1 DEF Records
  <2> QED BY <2>1, NamesSeen
<1>2. Sound(c \o rs, NoLoop) /\ Kept(c \o rs) /\ NamesIn(c \o rs) = NamesIn(c) \cup NamesIn(rs)
  BY <1>1, ConcatSound, ConcatNames DEF Executable
<1>3. ASSUME NEW name \in Names, name[2] = 0, name[1] \notin SeenIn(c),
             \A k \in DOMAIN rs : rs[k].name # name
      PROVE  Before(c \o rs, name)
  <2>1. name \notin NamesIn(rs)
    BY <1>3 DEF NamesIn
  <2>2. name \notin NamesIn(c \o rs)
    BY <1>2, <1>3, <2>1, NamesSeen
  <2> QED BY <1>2, <1>3, <2>2 DEF Before
<1> QED BY <1>2, <1>3

\* However the branches end, what is recorded stays in order.
LEMMA JoinOrder ==
  ASSUME IInv, Order, phase # "idle", NEW plans, NEW out, NEW c, BranchesRan(plans, out),
         Apart(plans, c), c \in Seq(Records), Sound(c, NoLoop), Kept(c),
         JoinBranches(plans, out, c)
  PROVE  Proper
<1> DEFINE stop(h)   == Stop(plans[First(out, h)], out[First(out, h)])
           name(h)   == Name(stop(h), 0)
           leads     == [k \in DOMAIN plans |-> Leads(plans[k], out[k], c)]
           left      == [k \in DOMAIN plans |-> BranchResults(plans[k], out[k])]
           results   == FlattenSeq(left)
           others(h) == c \o Without(results, name(h))
           next      == Unique(FlattenSeq(leads)) \o Tail(queue)
           after     == c \o results
<1>1. PICK n \in Nat : DOMAIN plans = 1..n /\ DOMAIN out = 1..n
  BY DEF BranchesRan
<1>2. graph \in Graphs /\ status = "running"
  BY WhileRunning DEF IInv
<1>3. ASSUME NEW k \in 1..n
      PROVE  /\ plans[k] \in Seq(Indices) /\ out[k] \in Outcomes(plans[k])
             /\ out[k].how # "done" =>
                   /\ out[k].at \in 1..(Len(plans[k]) - 1)
                   /\ Stop(plans[k], out[k]) = plans[k][out[k].at]
             /\ \A j \in 1..(Len(plans[k]) - 1) : plans[k][j] \in Indices /\ Executable(plans[k][j])
             /\ left[k] \in Seq(Records)
             /\ \E m \in Nat : /\ DOMAIN left[k] = 1..m /\ m <= Len(plans[k]) - 1
                               /\ out[k].how = "suspended" => m < out[k].at
             /\ \A j \in DOMAIN left[k] : left[k][j].name = Name(plans[k][j], 0)
  <2>1. PICK p, o : p = plans[k] /\ o = out[k]
    OBVIOUS
  <2>2. /\ p \in Seq(Indices) /\ p # <<>> /\ o \in Outcomes(p)
        /\ \A j \in 1..(Len(p) - 1) : Executable(p[j])
    BY <1>1, <2>1 DEF BranchesRan
  <2>3. /\ \A j \in 1..(Len(p) - 1) : p[j] \in Indices
        /\ o.how # "done" => o.at \in 1..(Len(p) - 1) /\ Stop(p, o) = p[o.at]
    BY <2>2 DEF Outcomes, Stop
  <2>4. PICK rs : rs = BranchResults(p, o)
    OBVIOUS
  <2>5. /\ rs \in Seq(Records)
        /\ \E m \in Nat : /\ DOMAIN rs = 1..m /\ m <= Len(p) - 1
                          /\ o.how = "suspended" => m < o.at
        /\ \A j \in DOMAIN rs : rs[j].name = Name(p[j], 0)
    BY <1>2, <2>2, <2>4, BranchFacts, LeftFacts
  <2>6. left[k] = rs
    BY <1>1, <2>1, <2>4
  <2> HIDE DEF left
  <2> QED BY <2>1, <2>2, <2>3, <2>5, <2>6
<1>4. left \in Seq(Seq(Records)) /\ DOMAIN left = 1..n
  <2>1. \A k \in 1..n : BranchResults(plans[k], out[k]) \in Seq(Records)
    BY <1>1, <1>3
  <2> QED BY <1>1, <2>1
<1> HIDE DEF left
<1>5. \A k \in 1..n : \A j \in DOMAIN left[k] :
         j \in 1..(Len(plans[k]) - 1) /\ left[k][j].name = <<plans[k][j], 0>>
  BY <1>3 DEF Name
<1>6. Distinct(results)
  <2>1. ASSUME NEW k \in 1..n PROVE Distinct(left[k])
    <3> SUFFICES ASSUME NEW a \in DOMAIN left[k], NEW b \in DOMAIN left[k],
                        left[k][a].name = left[k][b].name
                 PROVE  a = b
      BY DEF Distinct
    <3>1. plans[k][a] = plans[k][b] /\ a \in 1..(Len(plans[k]) - 1) /\ b \in 1..(Len(plans[k]) - 1)
      BY <1>5
    <3>2. a \in 1..Len(plans[k]) /\ b \in 1..Len(plans[k])
      BY <1>3, <3>1
    <3> QED BY <1>1, <3>1, <3>2 DEF Apart
  <2>2. ASSUME NEW j \in 1..n, NEW k \in 1..n, j # k
        PROVE  NamesIn(left[j]) \cap NamesIn(left[k]) = {}
    <3> SUFFICES ASSUME NEW a \in DOMAIN left[j], NEW b \in DOMAIN left[k],
                        left[j][a].name = left[k][b].name
                 PROVE  FALSE
      BY DEF NamesIn
    <3>1. /\ plans[j][a] = plans[k][b]
          /\ a \in 1..(Len(plans[j]) - 1) /\ b \in 1..(Len(plans[k]) - 1)
      BY <1>5
    <3> QED BY <1>1, <2>2, <3>1 DEF Apart
  <2> QED BY <1>4, <2>1, <2>2, FlattenDistinct
<1>7. /\ results \in Seq(Records)
      /\ \A k \in DOMAIN results : /\ results[k].name[2] = 0 /\ Executable(results[k].name[1])
                                   /\ results[k].name[1] \notin SeenIn(c)
  <2> DEFINE T == {r \in Records : /\ r.name[2] = 0 /\ Executable(r.name[1])
                                   /\ r.name[1] \notin SeenIn(c)}
  <2>1. ASSUME NEW k \in 1..n PROVE left[k] \in Seq(T)
    <3>1. PICK rs : rs = left[k]
      OBVIOUS
    <3>2. ASSUME NEW j \in DOMAIN rs PROVE rs[j] \in T
      <4>1. rs[j] \in Records
        BY <1>3, <3>1
      <4>2. rs[j].name = <<plans[k][j], 0>> /\ j \in 1..(Len(plans[k]) - 1)
        BY <1>5, <3>1
      <4>3. Executable(plans[k][j]) /\ plans[k][j] \notin SeenIn(c)
        BY <1>1, <1>3, <4>2 DEF Apart
      <4> QED BY <4>1, <4>2, <4>3
    <3>3. rs \in Seq(Records)
      BY <1>3, <3>1
    <3> HIDE DEF T
    <3> QED BY <3>1, <3>2, <3>3
  <2>2. left \in Seq(Seq(T))
    <3> HIDE DEF T
    <3> QED BY <1>4, <2>1
  <2>3. results \in Seq(T)
    <3> HIDE DEF T
    <3> QED BY <2>2, FlattenType
  <2>4. PICK rs : rs = results
    OBVIOUS
  <2>5. \A k \in DOMAIN rs : rs[k] \in T
    <3> HIDE DEF T
    <3> QED BY <2>3, <2>4
  <2>6. rs \in Seq(Records)
    <3>1. left \in Seq(Seq(Records))
      BY <1>4
    <3> QED BY <2>4, <3>1, FlattenType
  <2> QED BY <2>4, <2>5, <2>6
<1>8. ASSUME NEW h \in {"suspended", "incomplete", "blocked"}, Those(out, h) # {}
      PROVE  /\ stop(h) \in Indices /\ Executable(stop(h)) /\ name(h) \in Names
             /\ name(h)[1] = stop(h) /\ name(h)[2] = 0 /\ stop(h) \notin SeenIn(c)
             /\ h = "suspended" => \A k \in DOMAIN results : results[k].name # name(h)
  <2>1. PICK k : k = First(out, h)
    OBVIOUS
  <2>2. k \in 1..n /\ out[k].how = h
    BY <1>1, <1>8, <2>1, FirstFacts
  <2>3. PICK i, at : at = out[k].at /\ i = plans[k][at]
    <3>1. PICK at : at = out[k].at
      OBVIOUS
    <3> QED BY <3>1
  <2>4. /\ at \in 1..(Len(plans[k]) - 1) /\ i \in Indices /\ Executable(i)
        /\ i = Stop(plans[k], out[k])
    BY <1>3, <1>8, <2>2, <2>3
  <2>5. i = stop(h) /\ i \notin SeenIn(c)
    <3>1. i = stop(h)
      BY <2>1, <2>4
    <3>2. k \in DOMAIN plans
      BY <1>1, <2>2
    <3>3. i \notin SeenIn(c)
      BY <2>3, <2>4, <3>2 DEF Apart
    <3> QED BY <3>1, <3>3
  <2>6. /\ name(h) = Name(i, 0) /\ Name(i, 0) \in Names
        /\ Name(i, 0)[1] = i /\ Name(i, 0)[2] = 0
    BY <2>4, <2>5, ResultType
  <2>7. ASSUME h = "suspended"
        PROVE  \A j \in DOMAIN results : results[j].name # name(h)
    <3> DEFINE T == {r \in Records : r.name # <<i, 0>>}
    <3>1. ASSUME NEW m \in 1..n, NEW j \in DOMAIN left[m] PROVE left[m][j].name # <<i, 0>>
      <4>1. j \in 1..(Len(plans[m]) - 1) /\ left[m][j].name = <<plans[m][j], 0>>
        BY <1>5
      <4>2. CASE m = k
        <5>1. j < at /\ at \in 1..Len(plans[k]) /\ j \in 1..Len(plans[k])
          <6>1. PICK l \in Nat : DOMAIN left[k] = 1..l /\ l < at
            BY <1>3, <2>2, <2>3, <2>7
          <6>2. j \in 1..l /\ Len(plans[k]) \in Nat
            BY <1>3, <2>2, <4>2, <6>1
          <6> QED BY <2>4, <6>1, <6>2
        <5>2. plans[k][j] # plans[k][at]
          BY <1>1, <2>2, <5>1 DEF Apart
        <5> QED BY <2>3, <4>1, <4>2, <5>2
      <4>3. CASE m # k
        <5>1. plans[m][j] # plans[k][at]
          BY <1>1, <2>2, <2>4, <4>1, <4>3 DEF Apart
        <5> QED BY <2>3, <4>1, <5>1
      <4> QED BY <4>2, <4>3
    <3>2. ASSUME NEW m \in 1..n PROVE left[m] \in Seq(T)
      <4>1. PICK rs : rs = left[m]
        OBVIOUS
      <4>2. rs \in Seq(Records) /\ \A j \in DOMAIN rs : rs[j].name # <<i, 0>>
        BY <1>3, <3>1, <4>1
      <4>3. \A j \in DOMAIN rs : rs[j] \in T
        BY <4>2
      <4> HIDE DEF T
      <4> QED BY <4>1, <4>2, <4>3
    <3>3. left \in Seq(Seq(T))
      <4> HIDE DEF T
      <4> QED BY <1>4, <3>2
    <3>4. results \in Seq(T)
      <4> HIDE DEF T
      <4> QED BY <3>3, FlattenType
    <3>5. PICK rs : rs = results
      OBVIOUS
    <3>6. \A j \in DOMAIN rs : rs[j] \in T
      <4> HIDE DEF T
      <4> QED BY <3>4, <3>5
    <3>7. \A j \in DOMAIN rs : rs[j].name # Name(i, 0)
      BY <3>6 DEF Name
    <3> HIDE DEF name
    <3> QED BY <2>6, <3>5, <3>7
  <2> HIDE DEF stop, name, results
  <2> QED BY <2>4, <2>5, <2>6, <2>7
<1>9. \/ Fail
      \/ /\ Those(out, "suspended") # {}
         /\ Suspend(name("suspended"), after, NoLoop)
      \/ /\ Those(out, "incomplete") # {}
         /\ PauseIncomplete(others("incomplete"), name("incomplete"))
      \/ /\ Those(out, "blocked") # {}
         /\ ContractFailure(stop("blocked"), name("blocked"), others("blocked"), FALSE)
      \/ Loop(next, after, SeenIn(after))
  BY DEF JoinBranches, left
<1>10. PICK rs : rs = results
  OBVIOUS
<1>11. /\ rs \in Seq(Records) /\ Distinct(rs)
       /\ \A k \in DOMAIN rs : /\ rs[k].name[2] = 0 /\ Executable(rs[k].name[1])
                               /\ rs[k].name[1] \notin SeenIn(c)
  BY <1>6, <1>7, <1>10
<1>12. Sound(c \o rs, NoLoop) /\ Kept(c \o rs) /\ after = c \o rs
  BY <1>10, <1>11, FreshResults
\* Of the results of the other branches, and of stages before.
<1>13. ASSUME NEW m \in Names, m[2] = 0, m[1] \notin SeenIn(c)
       PROVE  /\ c \o Without(rs, m) \in Seq(Records)
              /\ Before(c \o Without(rs, m), m) /\ Kept(c \o Without(rs, m))
  <2>1. PICK w : w = Without(rs, m)
    OBVIOUS
  <2>2. /\ w \in Seq(Records) /\ Distinct(w)
        /\ \A k \in DOMAIN w : w[k].name # m /\ \E j \in DOMAIN rs : w[k] = rs[j]
    BY <1>11, <2>1, WithoutFacts
  <2>3. \A k \in DOMAIN w : /\ w[k].name[2] = 0 /\ Executable(w[k].name[1])
                            /\ w[k].name[1] \notin SeenIn(c)
    BY <1>11, <2>2
  <2>4. Before(c \o w, m) /\ Kept(c \o w)
    BY <1>13, <2>2, <2>3, FreshResults
  <2> QED BY <2>1, <2>2, <2>4
<1> HIDE DEF stop, name, leads, results, next, after
<1>14. CASE Fail
  BY <1>14, FailOrder
<1>15. CASE /\ Those(out, "suspended") # {}
            /\ Suspend(name("suspended"), after, NoLoop)
  <2>1. PICK m, d : m = name("suspended") /\ d = after
    OBVIOUS
  <2>2. /\ m \in Names /\ m[2] = 0 /\ m[1] \notin SeenIn(c)
        /\ \A k \in DOMAIN rs : rs[k].name # m
    BY <1>8, <1>10, <1>15, <2>1
  <2>3. /\ graph' = graph /\ phase' = "idle" /\ completed' = <<>>
        /\ status' = "awaiting_tool_approval" /\ nextStage' = m /\ saved' = d
        /\ pending'.completed = d
    BY <1>15, <2>1 DEF Suspend, Return, Idle
  <2>4. Before(d, m) /\ Kept(d)
    BY <1>11, <1>12, <2>1, <2>2, FreshResults
  <2>5. HeldAt("awaiting_tool_approval", m, d)
    BY <2>4, BeforeFacts DEF HeldAt
  <2> QED BY <2>3, <2>4, <2>5, ReturnOrder
<1>16. CASE /\ Those(out, "incomplete") # {}
            /\ PauseIncomplete(others("incomplete"), name("incomplete"))
  <2>1. PICK m, d : m = name("incomplete") /\ d = others("incomplete")
    <3>1. PICK m : m = name("incomplete")
      OBVIOUS
    <3> QED BY <3>1
  <2>2. m \in Names /\ m[2] = 0 /\ Executable(m[1]) /\ m[1] \notin SeenIn(c)
    BY <1>8, <1>16, <2>1
  <2>3. d = c \o Without(rs, m)
    BY <1>10, <2>1
  <2>4. d \in Seq(Records) /\ Before(d, m) /\ Kept(d)
    BY <1>13, <2>2, <2>3
  <2>5. PauseIncomplete(d, m)
    BY <1>16, <2>1
  <2> QED BY <2>2, <2>4, <2>5, IncompleteOrder
<1>17. CASE /\ Those(out, "blocked") # {}
            /\ ContractFailure(stop("blocked"), name("blocked"), others("blocked"), FALSE)
  <2>1. PICK i, m, d, e :
          i = stop("blocked") /\ m = name("blocked") /\ d = others("blocked") /\ e = FALSE
    <3>1. PICK i : i = stop("blocked")
      OBVIOUS
    <3>2. PICK m : m = name("blocked")
      OBVIOUS
    <3> QED BY <3>1, <3>2
  <2>2. /\ m \in Names /\ m[1] = i /\ m[2] = 0 /\ Executable(i) /\ i \notin SeenIn(c)
        /\ i \in Indices
    BY <1>8, <1>17, <2>1
  <2>3. m = Name(i, 0) /\ e \in BOOLEAN
    <3>1. m = <<m[1], m[2]>>
      BY <2>2 DEF Names
    <3>2. m = Name(i, 0)
      BY <2>2, <3>1 DEF Name
    <3>3. e \in BOOLEAN
      BY <2>1
    <3> QED BY <3>2, <3>3
  <2>4. d = c \o Without(rs, m)
    BY <1>10, <2>1
  <2>5. d \in Seq(Records) /\ Before(d, m) /\ Kept(d)
    BY <1>13, <2>2, <2>4
  <2>6. ContractFailure(i, m, d, e)
    BY <1>17, <2>1
  <2> QED BY <1>2, <2>2, <2>3, <2>5, <2>6, ContractOrder
<1>18. CASE Loop(next, after, SeenIn(after))
  <2>1. PICK d : d = after
    OBVIOUS
  <2>2. /\ phase' = "loop" /\ completed' = d /\ seen' = SeenIn(d) /\ graph' = graph
        /\ saved' = saved /\ status' = status
    BY <1>18, <2>1 DEF Loop, Enter, stored
  <2>3. Sound(d, NoLoop) /\ Kept(d) /\ SeenIn(d) \subseteq seen'
    BY <1>12, <2>1, <2>2
  <2> QED BY <1>2, <2>2, <2>3, LoopOrder
<1> QED BY <1>9, <1>14, <1>15, <1>16, <1>17, <1>18

LEMMA RunBranchesOrder == ASSUME IInv, Order, RunBranches PROVE Proper
<1>1. Pops("parallel") /\ phase # "idle" /\ graph \in Graphs /\ completed \in Seq(Records)
  BY DEF RunBranches, Pops, IInv, Locals
<1>2. PICK i, r, b : i = Head(queue) /\ r = Result(i, 0, "completed") /\ b = completed
  <2>1. PICK i : i = Head(queue)
    OBVIOUS
  <2>2. PICK b : b = completed
    OBVIOUS
  <2> QED BY <2>1, <2>2
<1>3. PICK c : c = Append(b, r)
  OBVIOUS
<1>4. /\ i \in Indices /\ S(i).kind = "parallel" /\ Name(i, 0) \in Names
      /\ Name(i, 0)[1] = i /\ Name(i, 0)[2] = 0
      /\ Before(b, Name(i, 0)) /\ Sound(b, NoLoop) /\ Kept(b) /\ b \in Seq(Records)
  BY <1>1, <1>2, HeadFresh
<1>5. r \in Records /\ r.name = Name(i, 0)
  BY <1>2, <1>4, ResultType DEF Result
<1>6. /\ Sound(c, NoLoop) /\ Kept(c) /\ c \in Seq(Records) /\ SeenIn(c) = SeenIn(b) \cup {i}
  <2>1. r.name \notin NamesIn(b) /\ r.name[2] = 0 /\ S(r.name[1]).kind # "join" /\ r.name[1] = i
    BY <1>4, <1>5 DEF Before
  <2>2. Sound(c, NoLoop)
    BY <1>3, <1>4, <1>5, <2>1, AppendSound
  <2> QED BY <1>3, <1>4, <1>5, <2>1, <2>2, AppendKept, AppendNames
<1>7. PICK q \in Branches(i, b) :
         LET plans == [k \in DOMAIN q |-> ConcurrentPlan(q[k], c)]
         IN  /\ Len(q) >= 2 /\ ~Conflict(plans)
             /\ \/ Return("awaiting_budget_approval", Name(i, 0), c)
                \/ \E out \in Runs(plans) : JoinBranches(plans, out, c)
  BY <1>2, <1>3 DEF RunBranches
<1>8. PICK plans : plans = [k \in DOMAIN q |-> ConcurrentPlan(q[k], c)]
  OBVIOUS
<1>9. /\ Len(q) >= 2 /\ ~Conflict(plans)
      /\ \/ Return("awaiting_budget_approval", Name(i, 0), c)
         \/ \E out \in Runs(plans) : JoinBranches(plans, out, c)
  BY <1>7, <1>8
<1>10. Apart(plans, c)
  BY <1>1, <1>4, <1>6, <1>8, <1>9, PlansApart
<1>11. CASE Return("awaiting_budget_approval", Name(i, 0), c)
  <2>1. PICK st, name : st = "awaiting_budget_approval" /\ name = Name(i, 0)
    OBVIOUS
  <2>2. /\ graph' = graph /\ phase' = "idle" /\ completed' = <<>>
        /\ status' = st /\ nextStage' = name /\ saved' = c
    BY <1>11, <2>1 DEF Return, Idle
  <2>3. HeldAt(st, name, c) /\ st # "awaiting_tool_approval"
    BY <1>6, <2>1 DEF HeldAt, Sound
  <2> QED BY <1>6, <2>2, <2>3, ReturnOrder
<1>12. CASE \E out \in Runs(plans) : JoinBranches(plans, out, c)
  <2>1. PICK out \in Runs(plans) : JoinBranches(plans, out, c)
    BY <1>12
  <2>2. DOMAIN out = DOMAIN plans /\ \A k \in DOMAIN plans : out[k] \in Outcomes(plans[k])
    BY <2>1 DEF Runs
  <2>3. BranchesRan(plans, out)
    <3>1. q \in Seq(Indices)
      BY <1>1, <1>4, <1>7, BranchesType
    <3>2. ~Conflict([k \in DOMAIN q |-> ConcurrentPlan(q[k], c)])
      BY <1>8, <1>9
    <3>3. \A k \in DOMAIN q :
             /\ ConcurrentPlan(q[k], c) \in Seq(Indices) /\ ConcurrentPlan(q[k], c) # <<>>
             /\ \A j \in 1..(Len(ConcurrentPlan(q[k], c)) - 1) :
                   Executable(ConcurrentPlan(q[k], c)[j])
      BY <1>1, <3>1, <3>2, PlanType
    <3>4. DOMAIN plans = DOMAIN q /\ \A k \in DOMAIN q : plans[k] = ConcurrentPlan(q[k], c)
      BY <1>8
    <3>5. DOMAIN q = 1..Len(q) /\ Len(q) \in Nat
      BY <3>1
    <3>6. \A k \in DOMAIN plans :
             /\ plans[k] \in Seq(Indices) /\ plans[k] # <<>>
             /\ \A j \in 1..(Len(plans[k]) - 1) : Executable(plans[k][j])
      BY <3>3, <3>4
    <3> QED BY <2>2, <3>4, <3>5, <3>6 DEF BranchesRan
  <2> QED BY <1>1, <1>6, <1>10, <2>1, <2>3, JoinOrder
<1> QED BY <1>9, <1>11, <1>12

------------------------------------------------------------------------------
(* The order of results                                                    *)

LEMMA ExecuteInOrder == ASSUME IInv, Order, BodiesApart, Execute PROVE Proper
<1>1. CASE SkipSeen
  BY <1>1, SkipSeenOrder
<1>2. CASE PassVisual
  BY <1>2, PassVisualOrder
<1>3. CASE PauseForApproval
  BY <1>3, PauseForApprovalOrder
<1>4. CASE PauseForInput
  BY <1>4, PauseForInputOrder
<1>5. CASE JoinWaits
  BY <1>5, JoinWaitsOrder
<1>6. CASE PassControl
  BY <1>6, PassControlOrder
<1>7. CASE TakeRoute
  BY <1>7, TakeRouteOrder
<1>8. CASE SelectNoBranch
  BY <1>8, SelectNoBranchOrder
<1>9. CASE FanOut
  BY <1>9, FanOutOrder
<1>10. CASE RunBranches
  BY <1>10, RunBranchesOrder
<1>11. CASE RunChild
  BY <1>11, RunChildOrder
<1>12. CASE BlockUnready
  BY <1>12, BlockUnreadyOrder
<1>13. CASE CallStage
  BY <1>13, CallStageOrder
<1>14. CASE Finish
  BY <1>14, FinishOrder
<1>15. CASE EnterRepeat
  BY <1>15, EnterRepeatOrder
<1>16. CASE Iterate
  BY <1>16, IterateOrder
<1>17. CASE StageFails
  BY <1>17, StageFailsOrder
<1>18. CASE StageSuspends
  BY <1>18, StageSuspendsOrder
<1>19. CASE StageIncomplete
  BY <1>19, StageIncompleteOrder
<1>20. CASE StageBreaksContract
  BY <1>20, StageBreaksContractOrder
<1>21. CASE StageSucceeds
  BY <1>21, StageSucceedsOrder
<1> QED
  BY <1>1, <1>2, <1>3, <1>4, <1>5, <1>6, <1>7, <1>8, <1>9, <1>10, <1>11, <1>12, <1>13,
     <1>14, <1>15, <1>16, <1>17, <1>18, <1>19, <1>20, <1>21 DEF Execute

LEMMA OperateInOrder == ASSUME IInv, Order, Operate PROVE Proper
<1>1. CASE \E pre \in BOOLEAN : Run(pre)
  BY <1>1, RunOrder
<1>2. CASE ResumeApproval
  BY <1>2, ResumeApprovalOrder
<1>3. CASE ResumeInput
  BY <1>3, ResumeInputOrder
<1>4. CASE ApproveTool
  BY <1>4, ApproveToolOrder
<1>5. CASE DenyTool
  BY <1>5, DenyToolOrder
<1>6. CASE ContinueOutput
  BY <1>6, ContinueOutputOrder
<1>7. CASE ApproveBudget
  BY <1>7, ApproveBudgetOrder
<1>8. CASE EscalateModel
  BY <1>8, EscalateModelOrder
<1>9. CASE ResumeSubWorkflow
  BY <1>9, ResumeSubWorkflowOrder
<1>10. CASE ChildCompletes \/ Cancel \/ Restart
  BY <1>10, BesideOrder
<1> QED
  BY <1>1, <1>2, <1>3, <1>4, <1>5, <1>6, <1>7, <1>8, <1>9, <1>10 DEF Operate

\* Order, with IInv, is an invariant, and no step loses what has completed.
LEMMA InOrder ==
  ASSUME BodiesApart
  PROVE  Spec => [](IInv /\ Order) /\ [][Stays]_vars
<1>1. Init => IInv /\ Order
  BY IInvInit, OrderInit
<1>2. IInv /\ Order /\ [Next]_vars => Proper
  <2> SUFFICES ASSUME IInv, Order, [Next]_vars PROVE Proper
    OBVIOUS
  <2>1. CASE Execute
    BY <2>1, ExecuteInOrder
  <2>2. CASE Operate
    BY <2>2, OperateInOrder
  <2>3. CASE UNCHANGED vars
    BY <2>3, BesideOrder
  <2> QED BY <2>1, <2>2, <2>3 DEF Next
<1>3. IInv /\ Order /\ [Next]_vars => IInv' /\ Order'
  BY <1>2, ExecuteKeeps, OperateKeeps, StutterKeeps DEF Next, Proper
<1>4. IInv /\ Order /\ [Next]_vars => [Stays]_vars
  BY <1>2 DEF Proper
<1> QED BY <1>1, <1>3, <1>4, PTL DEF Spec

\* In order, results are distinct and joins come after what they wait for, both
\* in the stored run and in the executing one.
LEMMA OrderFacts ==
  ASSUME IInv, Order
  PROVE  \A c \in {saved, completed} : c \in Seq(Records) /\ Distinct(c) /\ Joined(c)
<1>1. saved \in Seq(Records) /\ completed \in Seq(Records)
  BY DEF IInv, Stored, Locals
<1>2. Distinct(saved) /\ Joined(saved)
  BY DEF Order, Halted, HeldAt
<1>3. Distinct(completed) /\ Joined(completed)
  <2>1. phase \in {"idle", "loop", "repeat", "stage"}
    BY DEF IInv, Locals
  <2>2. CASE phase = "idle"
    BY <2>2, NothingYet DEF Order, Running, Sound
  <2>3. CASE phase \in {"loop", "repeat"}
    BY <2>3 DEF Order, Running, Sound
  <2>4. CASE phase = "stage"
    BY <2>4, BeforeFacts DEF Order, Running
  <2> QED BY <2>1, <2>2, <2>3, <2>4
<1> QED BY <1>1, <1>2, <1>3

\* When no two repeats share a body and a body can only block, a run never holds
\* two results of one stage or iteration, whatever pauses, resumes, escalations
\* and concurrent branches it went through.
THEOREM OneResult ==
  ASSUME BodiesApart
  PROVE  Spec => []OneResultEach
<1>1. IInv /\ Order => OneResultEach
  BY OrderFacts DEF OneResultEach, Distinct
<1> QED BY <1>1, InOrder, PTL

\* Then, too, a join is recorded after every stage it waits for.
THEOREM JoinsComeLast ==
  ASSUME BodiesApart
  PROVE  Spec => []JoinsWait
<1>1. IInv /\ Order => JoinsWait
  <2> SUFFICES ASSUME IInv, Order, NEW c \in {saved, completed}, NEW k \in DOMAIN c,
                      S(c[k].name[1]).kind = "join", NEW i \in Required(c[k].name[1])
               PROVE  i \in SeenIn(SubSeq(c, 1, k - 1))
    BY DEF JoinsWait
  <2>1. c \in Seq(Records) /\ Joined(c)
    BY OrderFacts
  <2>2. PICK j \in 1..(k - 1) : c[j].name[1] = i
    BY <2>1 DEF Joined
  <2>3. PICK n, d, m : n = Len(c) /\ m = k - 1 /\ d = SubSeq(c, 1, m)
    <3>1. PICK n, m : n = Len(c) /\ m = k - 1
      OBVIOUS
    <3> QED BY <3>1
  <2>4. n \in Nat /\ k \in 1..n /\ m \in 0..n
    BY <2>1, <2>3
  <2>5. DOMAIN d = 1..m /\ \A l \in 1..m : d[l] = c[l]
    BY <2>1, <2>3, <2>4
  <2>6. j \in DOMAIN d /\ d[j].name[1] = i
    BY <2>2, <2>3, <2>5
  <2> QED BY <2>3, <2>6 DEF SeenIn
<1> QED BY <1>1, InOrder, PTL

\* And no step of the executor, no operation and no restart takes a completed
\* result from the stored run, or changes it.
THEOREM ResultsStay ==
  ASSUME BodiesApart
  PROVE  Spec => CompletedStays
BY InOrder, PTL DEF CompletedStays, Stays
=============================================================================
