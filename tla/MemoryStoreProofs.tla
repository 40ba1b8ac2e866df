------------------------- MODULE MemoryStoreProofs -------------------------
(* Proofs about MemoryStore, for any processes, items, workspace, sets of    *)
(* jobs and limits.                                                          *)
EXTENDS MemoryStore, SequenceTheorems, TLAPS

-----------------------------------------------------------------------------
(* What is left of a program                                                 *)

\* The jobs that ask for a fresh index, and those that learn or change one item.
FreshKinds == {"dashboard", "prompt", "mark", "blank"}
ItemKinds  == {"retire", "restore", "record", "supersede", "failed", "dashboard"}

Verbs == {"load", "truncate", "write", "begin", "compare", "search", "summarize",
          "return", "look", "check", "offer"}
Ops == Verbs \X (Stores \cup Files)

OpTyped(x) ==
  /\ x[1] \in {"load", "truncate", "write"} => x[2] \in Stores
  /\ x[1] = "load" => x[2] # "project"
  /\ x[1] \in {"begin", "compare", "search", "return"} => x[2] = "index"
  /\ x[1] = "summarize" => x[2] \in Files

\* The operations that only some kinds of job do.
Allowed(x, kind) ==
  /\ OpTyped(x)
  /\ x = <<"load", "solutions">> => kind \in ItemKinds \cup {"prompt"}
  /\ x = <<"load", "errors">> => kind \in ItemKinds
  /\ x[1] \in {"begin", "compare", "search", "return"} => kind \in FreshKinds
  /\ x \in {<<"truncate", "project">>, <<"write", "project">>} =>
       kind \in {"dashboard", "blank", "put"}
  /\ x[1] = "offer" => kind = "prompt"

\* Operation y may come right after x.
Follows(x, y) ==
  /\ x[1] = "load" => y = <<"truncate", x[2]>>
  /\ x[1] = "truncate" => y = <<"write", x[2]>>
  /\ x[1] = "write" => /\ x[2] # "project"
                       /\ y[1] \in {"load", "look"} \/ (y[1] = "return" /\ x[2] = "index")
  /\ x[1] = "check" => y[1] = "load"
  /\ x[1] = "look" => y[1] = "begin"
  /\ x[1] = "begin" => y[1] = "compare"
  /\ x[1] = "compare" => y[1] = "search"
  /\ x[1] \in {"search", "summarize"} => y[1] = "summarize" \/ y = <<"truncate", "index">>
  /\ x[1] = "return" => y[1] \in {"load", "offer"} \/ y = <<"truncate", "project">>
  /\ x[1] # "offer"

\* Operation y may come some time after x.
Later(x, y) ==
  /\ x[1] = "return" => y[1] \notin {"return", "summarize"}
  /\ x = <<"load", "index">> => y[1] # "return"
  /\ y[1] = "look" => x[1] \in {"load", "truncate", "write"}

LastOp == <<"write", "project">>

\* Operations in an order in which programs have them.
Chain(t, kind) ==
  /\ t \in Seq(Ops)
  /\ \A i \in 1..Len(t) : Allowed(t[i], kind)
  /\ \A i \in 1..Len(t) : i < Len(t) => Follows(t[i], t[i + 1])
  /\ \A i, j \in 1..Len(t) : i < j => Later(t[i], t[j])
  /\ \A i \in 1..Len(t) : t[i][1] \in {"load", "truncate"} => i < Len(t)

Ends(t, kind) == kind = "dashboard" /\ t # <<>> => t[Len(t)] = LastOp

\* The operations a job of this kind may have left.
Proper(t, kind) == Chain(t, kind) /\ Ends(t, kind)

Has(t, verb) == \E i \in 1..Len(t) : t[i][1] = verb
HasOp(t, x) == \E i \in 1..Len(t) : t[i] = x
Only(t, verbs) == \A i \in 1..Len(t) : t[i][1] \in verbs

-----------------------------------------------------------------------------
(* The inductive invariant                                                   *)

Values == {Nothing} \cup Contents("solutions") \cup Contents("project") \cup Contents("index")

\* What may be left of the bounds.
Spare == [kinds : SUBSET Kinds, jobs : Nat, edits : 0..MaxEdits, crashes : Nat]

Typed ==
  /\ up \in BOOLEAN
  /\ disk \in [Stores -> {Missing, Empty} \cup Values]
  /\ last \in [Stores -> {Missing} \cup Values]
  /\ ws \in [Files -> 0..MaxEdits]
  /\ job \in [Procs -> [kind : Kinds \cup {"none"}, arg : SUBSET Items,
                       other : SUBSET (Items \cup Files)]]
  /\ todo \in [Procs -> Seq(Ops)]
  /\ val \in [Procs -> Values]
  /\ since \in [Procs -> [Files -> SUBSET (0..MaxEdits)]]
  /\ left \in Spare

\* A file is whole or about to be written, by the last one that truncated it.
\* A solution that was retired is so in the base, as long as the base has it.
DiskOK ==
  /\ \A f \in Stores : disk[f] \in {Empty, last[f]} /\ last[f] \in {Missing} \cup Contents(f)
  /\ \A s \in retired :
       /\ last["solutions"] # Missing
       /\ s \in Ids(last["solutions"][2]) => IsRetired(last["solutions"][2], s)

\* What a process holds is what its next operation takes for granted.
Fits(t, v) ==
  t # <<>> =>
    /\ t[1][1] \in {"truncate", "write"} => v \in Contents(t[1][2])
    /\ t[1][1] \in {"compare", "search", "summarize", "return"} => v \in Contents("index")

\* The process is between the beginning of EnsureFreshFileIndex and its return.
InCheck(t) ==
  /\ t # <<>>
  /\ \/ t[1][1] \in {"compare", "search", "return"}
     \/ /\ t[1][1] = "summarize" \/ t[1] \in {<<"truncate", "index">>, <<"write", "index">>}
        /\ Has(t, "return")

\* The index is full and does not name the file.
NoRoom(index, w) == index[w] = 0 /\ Full(index)

\* The versions it saw are of the time of the check, up to those it has yet to see.
Seen(t, v, s, now) ==
  InCheck(t) =>
    /\ \A w \in Files : now[w] \in s[w]
    /\ t[1][1] # "compare" => \A w \in Files : v[2][w] \in {0} \cup s[w]
    /\ t[1][1] \notin {"compare", "search"} =>
         \A w \in Files : v[2][w] \in s[w] \/ HasOp(t, <<"summarize", w>>) \/ NoRoom(v[2], w)

AboutTo(t, f) == t # <<>> /\ t[1] \in {<<"truncate", f>>, <<"write", f>>}

\* A process is not about to write a knowledge base.
NoBase(t) == ~AboutTo(t, "solutions") /\ ~AboutTo(t, "errors")

\* What the writer of the base kb may make of the base it was read from.
Keeps(old, kb) == Ids(old) \subseteq Ids(kb) \/ Len(old) = MaxItems
Revives(j, old, kb) ==
  \A s \in Items : IsRetired(old, s) /\ IsActive(kb, s) => j.kind = "restore" /\ s \in j.arg

\* A process is about to make a solution active that was retired last only when
\* it restores it, and about to lose an item only of a base that is full.
KeepsBases(p, j, t, v, old, l) ==
  \A f \in {"solutions", "errors"} :
    AboutTo(t, f) /\ <<p, f>> \notin old /\ l[f] # Missing =>
      Revives(j, l[f][2], v[2]) /\ Keeps(l[f][2], v[2])

\* A dashboard that looked at the project memory did not find the user's text.
KeepsEdits(p, j, t, old, l) ==
  /\ t # <<>> /\ j.kind = "dashboard" /\ ~Has(t, "look")
  /\ <<p, "project">> \notin old
  => l["project"] # User

Busy(j, t) ==
  t # <<>> => up /\ j.kind \in Kinds /\ (j.kind \in ItemKinds => j.arg # {})

Sound(p, j, t, v, s) ==
  /\ Busy(j, t) /\ Proper(t, j.kind) /\ Fits(t, v)
  /\ Seen(t, v, s, ws)
  /\ KeepsBases(p, j, t, v, stale, last) /\ KeepsEdits(p, j, t, stale, last)

IInv ==
  /\ Typed /\ DiskOK
  /\ \A p \in Procs : Sound(p, job[p], todo[p], val[p], since[p])

Constants == LimitAssumption /\ WalkAssumption /\ BoundAssumption /\ BeforeAssumption

-----------------------------------------------------------------------------
(* Lemmas about what is left of a program                                    *)

\* What holds of a program after its first operation.
LEMMA TailProper ==
  ASSUME NEW t, NEW kind, Proper(t, kind), t # <<>>
  PROVE  /\ Head(t) = t[1] /\ t[1] \in Ops /\ Allowed(t[1], kind)
         /\ Proper(Tail(t), kind)
         /\ Tail(t) # <<>> => Follows(t[1], Tail(t)[1])
         /\ t[1][1] \in {"load", "truncate"} => Tail(t) # <<>>
         /\ \A i \in 1..Len(Tail(t)) : Later(t[1], Tail(t)[i])
         /\ \A x : HasOp(t, x) <=> t[1] = x \/ HasOp(Tail(t), x)
         /\ \A v : Has(t, v) <=> t[1][1] = v \/ Has(Tail(t), v)
<1>1. PICK u : u = Tail(t)
  OBVIOUS
<1>2. /\ t \in Seq(Ops) /\ Len(t) \in Nat /\ Len(t) >= 1 /\ Head(t) = t[1] /\ t[1] \in Ops
      /\ u \in Seq(Ops) /\ Len(u) = Len(t) - 1
      /\ \A i \in 1..Len(u) : u[i] = t[i + 1]
      /\ u = <<>> <=> Len(u) = 0
  <2>1. t \in Seq(Ops)
    BY DEF Proper, Chain
  <2>2. Len(t) \in Nat /\ Len(t) >= 1 /\ t[1] \in Ops
    BY <2>1
  <2>3. /\ Head(t) = t[1] /\ u \in Seq(Ops) /\ Len(u) = Len(t) - 1
        /\ \A i \in 1..Len(u) : u[i] = t[i + 1]
    BY <1>1, <2>1, HeadTailProperties
  <2>4. u = <<>> <=> Len(u) = 0
    BY <2>3
  <2> QED BY <2>1, <2>2, <2>3, <2>4
<1>3. Chain(t, kind) /\ Ends(t, kind)
  BY DEF Proper
<1>4. /\ \A i \in 1..Len(u) : Allowed(u[i], kind)
      /\ \A i \in 1..Len(u) : i < Len(u) => Follows(u[i], u[i + 1])
  BY <1>2, <1>3 DEF Chain
<1>5. \A i, j \in 1..Len(u) : i < j => Later(u[i], u[j])
  BY <1>2, <1>3 DEF Chain
<1>6. \A i \in 1..Len(u) : u[i][1] \in {"load", "truncate"} => i < Len(u)
  BY <1>2, <1>3 DEF Chain
<1>7. Ends(u, kind)
  BY <1>2, <1>3 DEF Ends
<1>8. Proper(u, kind)
  BY <1>2, <1>4, <1>5, <1>6, <1>7 DEF Proper, Chain
<1>9. u # <<>> => Follows(t[1], u[1])
  BY <1>2, <1>3 DEF Chain
<1>10. t[1][1] \in {"load", "truncate"} => u # <<>>
  BY <1>2, <1>3 DEF Chain
<1>11. \A i \in 1..Len(u) : Later(t[1], u[i])
  BY <1>2, <1>3 DEF Chain
<1>12. Allowed(t[1], kind)
  BY <1>2, <1>3 DEF Chain
<1>13. ASSUME NEW i \in 1..Len(t)
       PROVE  i = 1 \/ (i - 1 \in 1..Len(u) /\ u[i - 1] = t[i])
  BY <1>2
<1>14. ASSUME NEW i \in 1..Len(u)
       PROVE  i + 1 \in 1..Len(t) /\ u[i] = t[i + 1]
  BY <1>2
<1>15. 1 \in 1..Len(t)
  BY <1>2
<1>16. \A x : HasOp(t, x) <=> t[1] = x \/ HasOp(u, x)
  BY <1>13, <1>14, <1>15 DEF HasOp
<1>17. \A v : Has(t, v) <=> t[1][1] = v \/ Has(u, v)
  BY <1>13, <1>14, <1>15 DEF Has
<1> QED BY <1>1, <1>2, <1>8, <1>9, <1>10, <1>11, <1>12, <1>16, <1>17

\* u is the program s and then t.
Joined(s, t, u, kind) ==
  /\ Chain(u, kind)
  /\ \A V, W : Only(s, V) /\ Only(t, W) => Only(u, V \cup W)
  /\ t # <<>> /\ Ends(t, kind) => Ends(u, kind)
  /\ \A x : HasOp(s, x) \/ HasOp(t, x) => HasOp(u, x)
  /\ s # <<>> => (u # <<>> /\ u[1] = s[1])
  /\ t # <<>> => (u # <<>> /\ u[Len(u)] = t[Len(t)])

\* One program after the other.
LEMMA ConcatChain ==
  ASSUME NEW kind, NEW s, NEW t, Chain(s, kind), Chain(t, kind),
         s # <<>> /\ t # <<>> => Follows(s[Len(s)], t[1]),
         \A i \in 1..Len(s), j \in 1..Len(t) : Later(s[i], t[j])
  PROVE  Joined(s, t, s \o t, kind)
<1>1. PICK u : u = s \o t
  OBVIOUS
<1>2. PICK m : m = Len(s)
  OBVIOUS
<1>3. PICK n : n = Len(t)
  OBVIOUS
<1>4. /\ s \in Seq(Ops) /\ t \in Seq(Ops) /\ m \in Nat /\ n \in Nat
      /\ u \in Seq(Ops) /\ Len(u) = m + n
      /\ \A i \in 1..(m + n) : u[i] = IF i <= m THEN s[i] ELSE t[i - m]
      /\ s = <<>> <=> m = 0
      /\ t = <<>> <=> n = 0
      /\ u = <<>> <=> m + n = 0
  BY <1>1, <1>2, <1>3 DEF Chain
<1>5. ASSUME NEW i \in 1..(m + n), i <= m
      PROVE  i \in 1..m /\ u[i] = s[i]
  BY <1>4, <1>5
<1>6. ASSUME NEW i \in 1..(m + n), ~(i <= m)
      PROVE  i - m \in 1..n /\ u[i] = t[i - m]
  BY <1>4, <1>6
<1>7. \A i \in 1..(m + n) : Allowed(u[i], kind)
  BY <1>2, <1>3, <1>5, <1>6 DEF Chain
<1>8. ASSUME NEW i \in 1..(m + n), i < m + n
      PROVE  Follows(u[i], u[i + 1])
  <2>1. CASE i < m
    <3>1. i \in 1..m /\ i < m /\ u[i] = s[i] /\ u[i + 1] = s[i + 1]
      BY <1>4, <2>1
    <3> QED BY <1>2, <3>1 DEF Chain
  <2>2. CASE i = m
    <3>1. u[i] = s[m] /\ u[i + 1] = t[1] /\ m # 0 /\ n # 0
      BY <1>4, <1>8, <2>2
    <3> QED BY <1>2, <1>4, <3>1
  <2>3. CASE i > m
    <3>1. i - m \in 1..n /\ i - m < n /\ u[i] = t[i - m] /\ u[i + 1] = t[(i - m) + 1]
      BY <1>4, <1>8, <2>3
    <3> QED BY <1>3, <3>1 DEF Chain
  <2> QED BY <1>4, <2>1, <2>2, <2>3
<1>9. ASSUME NEW i \in 1..(m + n), NEW j \in 1..(m + n), i < j
      PROVE  Later(u[i], u[j])
  <2>1. CASE j <= m
    <3>1. i \in 1..m /\ j \in 1..m /\ u[i] = s[i] /\ u[j] = s[j]
      BY <1>4, <1>9, <2>1
    <3> QED BY <1>2, <1>9, <3>1 DEF Chain
  <2>2. CASE i <= m /\ ~(j <= m)
    <3>1. i \in 1..m /\ j - m \in 1..n /\ u[i] = s[i] /\ u[j] = t[j - m]
      BY <1>4, <2>2
    <3> QED BY <1>2, <1>3, <3>1
  <2>3. CASE ~(i <= m)
    <3>1. /\ i - m \in 1..n /\ j - m \in 1..n /\ i - m < j - m
          /\ u[i] = t[i - m] /\ u[j] = t[j - m]
      BY <1>4, <1>9, <2>3
    <3> QED BY <1>3, <3>1 DEF Chain
  <2> QED BY <1>4, <2>1, <2>2, <2>3
<1>10. ASSUME NEW i \in 1..(m + n), u[i][1] \in {"load", "truncate"}
       PROVE  i < m + n
  <2>1. CASE i <= m
    <3>1. i \in 1..m /\ u[i] = s[i]
      BY <1>5, <2>1
    <3>2. i < m
      BY <1>2, <1>10, <3>1 DEF Chain
    <3> QED BY <1>4, <3>2
  <2>2. CASE ~(i <= m)
    <3>1. i - m \in 1..n /\ u[i] = t[i - m]
      BY <1>6, <2>2
    <3>2. i - m < n
      BY <1>3, <1>10, <3>1 DEF Chain
    <3> QED BY <1>4, <3>2
  <2> QED BY <2>1, <2>2
<1>11. Chain(u, kind)
  BY <1>4, <1>7, <1>8, <1>9, <1>10 DEF Chain
<1>12. \A V, W : Only(s, V) /\ Only(t, W) => Only(u, V \cup W)
  <2> SUFFICES ASSUME NEW V, NEW W, Only(s, V), Only(t, W), NEW i \in 1..(m + n)
               PROVE  u[i][1] \in V \cup W
    BY <1>4 DEF Only
  <2>1. CASE i <= m
    <3>1. i \in 1..m /\ u[i] = s[i]
      BY <1>5, <2>1
    <3> QED BY <1>2, <3>1 DEF Only
  <2>2. CASE ~(i <= m)
    <3>1. i - m \in 1..n /\ u[i] = t[i - m]
      BY <1>6, <2>2
    <3> QED BY <1>3, <3>1 DEF Only
  <2> QED BY <2>1, <2>2
<1>13. n # 0 => u[m + n] = t[n]
  BY <1>4
<1>14. t # <<>> /\ Ends(t, kind) => Ends(u, kind)
  BY <1>3, <1>4, <1>13 DEF Ends
<1>15. \A i \in 1..m : i \in 1..(m + n) /\ u[i] = s[i]
  BY <1>4
<1>16. \A i \in 1..n : m + i \in 1..(m + n) /\ u[m + i] = t[i]
  BY <1>4
<1>17. \A x : HasOp(s, x) \/ HasOp(t, x) => HasOp(u, x)
  BY <1>2, <1>3, <1>4, <1>15, <1>16 DEF HasOp
<1>18. s # <<>> => (u # <<>> /\ u[1] = s[1])
  BY <1>4
<1>19. t # <<>> => (u # <<>> /\ u[Len(u)] = t[Len(t)])
  BY <1>3, <1>4, <1>13
<1> QED BY <1>1, <1>11, <1>12, <1>14, <1>17, <1>18, <1>19 DEF Joined

LEMMA NothingLeft == ASSUME NEW kind PROVE Proper(<<>>, kind)
BY DEF Proper, Chain, Ends

\* One operation is a program of its own, when it needs no other after it.
LEMMA OneChain ==
  ASSUME NEW kind, NEW x \in Ops, Allowed(x, kind)
  PROVE  /\ <<x>> \in Seq(Ops) /\ Len(<<x>>) = 1 /\ <<x>>[1] = x /\ <<x>> # <<>>
         /\ x[1] \notin {"load", "truncate"} => Chain(<<x>>, kind)
         /\ Only(<<x>>, {x[1]})
<1>1. PICK s : s = <<x>>
  OBVIOUS
<1>2. s \in Seq(Ops) /\ Len(s) = 1 /\ s[1] = x /\ s # <<>> /\ 1..Len(s) = {1}
  BY <1>1
<1>3. Only(s, {x[1]})
  BY <1>2 DEF Only
<1>4. ASSUME x[1] \notin {"load", "truncate"}
      PROVE  Chain(s, kind)
  <2>1. \A i \in 1..Len(s) : i = 1 /\ s[i] = x
    BY <1>2
  <2>2. \A i, j \in 1..Len(s) : ~(i < j) /\ ~(i < Len(s))
    BY <1>2
  <2> QED BY <1>2, <1>4, <2>1, <2>2 DEF Chain
<1> QED BY <1>1, <1>2, <1>3, <1>4

LEMMA TwoChain ==
  ASSUME NEW kind, NEW x \in Ops, NEW y \in Ops, Allowed(x, kind), Allowed(y, kind),
         Follows(x, y), Later(x, y), y[1] \notin {"load", "truncate"}
  PROVE  /\ Chain(<<x, y>>, kind) /\ Len(<<x, y>>) = 2
         /\ <<x, y>>[1] = x /\ <<x, y>>[2] = y /\ <<x, y>> # <<>>
         /\ Only(<<x, y>>, {x[1], y[1]})
         /\ HasOp(<<x, y>>, x) /\ HasOp(<<x, y>>, y)
<1>1. PICK s : s = <<x, y>>
  OBVIOUS
<1>2. s \in Seq(Ops) /\ Len(s) = 2 /\ s[1] = x /\ s[2] = y /\ s # <<>> /\ 1..Len(s) = {1, 2}
  BY <1>1
<1>3. Only(s, {x[1], y[1]}) /\ HasOp(s, x) /\ HasOp(s, y)
  BY <1>2 DEF Only, HasOp
<1>4. \A i \in 1..Len(s) : (i = 1 /\ s[i] = x) \/ (i = 2 /\ s[i] = y)
  BY <1>2
<1>5. \A i \in 1..Len(s) : i < Len(s) => (i = 1 /\ s[i] = x /\ s[i + 1] = y)
  BY <1>2
<1>6. \A i, j \in 1..Len(s) : i < j => (s[i] = x /\ s[j] = y)
  BY <1>2
<1>7. \A i \in 1..Len(s) : s[i][1] \in {"load", "truncate"} => i < Len(s)
  BY <1>2, <1>4
<1>8. Chain(s, kind)
  BY <1>2, <1>4, <1>5, <1>6, <1>7 DEF Chain
<1> QED BY <1>1, <1>2, <1>3, <1>8

\* A file is truncated and written.
LEMMA StoreChain ==
  ASSUME NEW kind, NEW f \in Stores, f = "project" => kind \in {"dashboard", "blank", "put"}
  PROVE  /\ Chain(Store(f), kind) /\ Len(Store(f)) = 2 /\ Store(f) # <<>>
         /\ Store(f)[1] = <<"truncate", f>> /\ Store(f)[2] = <<"write", f>>
         /\ Only(Store(f), {"truncate", "write"})
<1>1. PICK x : x = <<"truncate", f>>
  OBVIOUS
<1>2. PICK y : y = <<"write", f>>
  OBVIOUS
<1>3. x \in Ops /\ y \in Ops /\ x[1] = "truncate" /\ x[2] = f /\ y[1] = "write" /\ y[2] = f
  BY <1>1, <1>2 DEF Ops, Verbs
<1>4. Allowed(x, kind) /\ Allowed(y, kind)
  BY <1>1, <1>2, <1>3 DEF Allowed, OpTyped
<1>5. Follows(x, y) /\ Later(x, y)
  BY <1>1, <1>2, <1>3 DEF Follows, Later
<1>6. Store(f) = <<x, y>>
  BY <1>1, <1>2 DEF Store
<1>7. /\ Chain(<<x, y>>, kind) /\ Len(<<x, y>>) = 2
      /\ <<x, y>>[1] = x /\ <<x, y>>[2] = y /\ <<x, y>> # <<>>
      /\ Only(<<x, y>>, {"truncate", "write"})
  BY <1>3, <1>4, <1>5, TwoChain
<1> QED BY <1>1, <1>2, <1>6, <1>7

LEMMA ThreeChain ==
  ASSUME NEW kind, NEW x \in Ops, NEW y \in Ops, NEW z \in Ops,
         Allowed(x, kind), Allowed(y, kind), Allowed(z, kind),
         Follows(x, y), Follows(y, z), Later(x, y), Later(x, z), Later(y, z),
         z[1] \notin {"load", "truncate"}
  PROVE  /\ Chain(<<x, y, z>>, kind) /\ Len(<<x, y, z>>) = 3 /\ <<x, y, z>> # <<>>
         /\ <<x, y, z>>[1] = x /\ <<x, y, z>>[3] = z
         /\ Only(<<x, y, z>>, {x[1], y[1], z[1]})
         /\ \A i \in 1..3 : <<x, y, z>>[i] \in {x, y, z}
<1>1. PICK s : s = <<x, y, z>>
  OBVIOUS
<1>2. /\ s \in Seq(Ops) /\ Len(s) = 3 /\ s # <<>>
      /\ s[1] = x /\ s[2] = y /\ s[3] = z /\ 1..Len(s) = {1, 2, 3}
  BY <1>1
<1>3. \A i \in 1..Len(s) : (i = 1 /\ s[i] = x) \/ (i = 2 /\ s[i] = y) \/ (i = 3 /\ s[i] = z)
  BY <1>2
<1>4. ASSUME NEW i \in 1..Len(s), i < Len(s)
      PROVE  (s[i] = x /\ s[i + 1] = y) \/ (s[i] = y /\ s[i + 1] = z)
  BY <1>2, <1>4
<1>5. ASSUME NEW i \in 1..Len(s), NEW j \in 1..Len(s), i < j
      PROVE  (s[i] = x /\ s[j] = y) \/ (s[i] = x /\ s[j] = z) \/ (s[i] = y /\ s[j] = z)
  BY <1>2, <1>5
<1>6. \A i \in 1..Len(s) : s[i][1] \in {"load", "truncate"} => i < Len(s)
  BY <1>2, <1>3
<1>7. \A i \in 1..Len(s) : Allowed(s[i], kind)
  BY <1>3
<1>8. \A i \in 1..Len(s) : i < Len(s) => Follows(s[i], s[i + 1])
  BY <1>4
<1>9. \A i, j \in 1..Len(s) : i < j => Later(s[i], s[j])
  BY <1>5
<1>10. Chain(s, kind)
  BY <1>2, <1>6, <1>7, <1>8, <1>9 DEF Chain
<1>11. Only(s, {x[1], y[1], z[1]}) /\ \A i \in 1..3 : s[i] \in {x, y, z}
  BY <1>2, <1>3 DEF Only
<1> QED BY <1>1, <1>2, <1>10, <1>11

\* A file is read, truncated and written.
LEMMA UpdateChain ==
  ASSUME NEW kind, NEW f \in Stores \ {"project"}, Allowed(<<"load", f>>, kind)
  PROVE  /\ Chain(Update(f), kind) /\ Update(f) # <<>>
         /\ Update(f)[1] = <<"load", f>> /\ Update(f)[Len(Update(f))] = <<"write", f>>
         /\ Only(Update(f), {"load", "truncate", "write"})
         /\ \A i \in 1..Len(Update(f)) : Update(f)[i][2] = f
<1>1. PICK x : x = <<"load", f>>
  OBVIOUS
<1>2. PICK y : y = <<"truncate", f>>
  OBVIOUS
<1>3. PICK z : z = <<"write", f>>
  OBVIOUS
<1>4. /\ x \in Ops /\ y \in Ops /\ z \in Ops /\ x[2] = f /\ y[2] = f /\ z[2] = f
      /\ x[1] = "load" /\ y[1] = "truncate" /\ z[1] = "write"
  BY <1>1, <1>2, <1>3 DEF Ops, Verbs
<1>5. /\ Allowed(x, kind)
      /\ Allowed(y, kind) /\ Allowed(z, kind)
  BY <1>1, <1>2, <1>3, <1>4 DEF Allowed, OpTyped
<1>6. /\ Follows(x, y) /\ Follows(y, z)
      /\ Later(x, y) /\ Later(x, z) /\ Later(y, z)
  BY <1>1, <1>2, <1>3, <1>4 DEF Follows, Later
<1>7. PICK s : s = <<x, y, z>>
  OBVIOUS
<1>8. s \in Seq(Ops) /\ s[2] = y
  BY <1>4, <1>7
<1>13. /\ Chain(s, kind) /\ Len(s) = 3 /\ s # <<>> /\ s[1] = x /\ s[3] = z
       /\ Only(s, {x[1], y[1], z[1]})
       /\ \A i \in 1..3 : s[i] \in {x, y, z}
  BY <1>4, <1>5, <1>6, <1>7, ThreeChain
<1>14. Only(s, {"load", "truncate", "write"}) /\ \A i \in 1..Len(s) : s[i][2] = f
  BY <1>4, <1>13
<1>15. Update(f) = s
  <2>1. Update(f) = <<x>> \o <<y, z>>
    BY <1>1, <1>2, <1>3 DEF Update, Store
  <2>2. PICK u : u = <<x>> \o <<y, z>>
    OBVIOUS
  <2>3. u \in Seq(Ops) /\ Len(u) = 3 /\ u[1] = x /\ u[2] = y /\ u[3] = z
    BY <1>4, <2>2
  <2>4. \A i \in 1..Len(u) : u[i] = s[i]
    BY <1>8, <1>13, <2>3
  <2>5. u = s
    BY <1>8, <1>13, <2>3, <2>4, SeqEqual
  <2> QED BY <2>1, <2>2, <2>5
<1> QED BY <1>1, <1>3, <1>13, <1>14, <1>15

\* The rebuilding of the index: every file of the walk, then the index.
LEMMA RebuildChain ==
  ASSUME NEW kind, WalkAssumption
  PROVE  /\ Chain(Rebuild, kind) /\ Rebuild # <<>>
         /\ Rebuild[1][1] = "summarize" \/ Rebuild[1] = <<"truncate", "index">>
         /\ Rebuild[Len(Rebuild)] = <<"write", "index">>
         /\ Only(Rebuild, {"summarize", "truncate", "write"})
         /\ \A w \in Files : HasOp(Rebuild, <<"summarize", w>>)
<1> DEFINE sums == [i \in 1..Len(Walk) |-> <<"summarize", Walk[i]>>]
<1>1. PICK n : n = Len(Walk)
  OBVIOUS
<1>2. n \in Nat /\ Walk \in [1..n -> Files]
  BY <1>1 DEF WalkAssumption, Files
<1>3. \A w \in Files : \E i \in 1..n : Walk[i] = w
  BY <1>2 DEF Files, Range
<1>4. PICK s : s = sums
  OBVIOUS
<1>5. /\ s = [i \in 1..n |-> <<"summarize", Walk[i]>>]
      /\ \A i \in 1..n : /\ s[i] = <<"summarize", Walk[i]>> /\ s[i] \in Ops
                         /\ s[i][1] = "summarize" /\ s[i][2] \in Files
  BY <1>1, <1>2, <1>4 DEF Ops, Verbs
<1> HIDE DEF sums
<1>6. s \in Seq(Ops) /\ Len(s) = n
  BY <1>2, <1>5
<1>7. /\ \A i \in 1..n : Allowed(s[i], kind)
      /\ \A i, j \in 1..n : Follows(s[i], s[j]) /\ Later(s[i], s[j])
  BY <1>5 DEF Allowed, OpTyped, Follows, Later
<1>8. Chain(s, kind)
  <2>1. \A i \in 1..n : i < n => i + 1 \in 1..n
    BY <1>2
  <2>2. \A i \in 1..n : s[i][1] \notin {"load", "truncate"}
    BY <1>5
  <2> QED BY <1>6, <1>7, <2>1, <2>2 DEF Chain
<1>9. PICK t : t = Store("index")
  OBVIOUS
<1>10. /\ Chain(t, kind) /\ Len(t) = 2 /\ t # <<>>
       /\ t[1] = <<"truncate", "index">> /\ t[2] = <<"write", "index">>
       /\ Only(t, {"truncate", "write"})
  BY <1>9, StoreChain DEF Stores
<1>11. s # <<>> => Follows(s[Len(s)], t[1])
  <2>1. ASSUME s # <<>>
        PROVE  n \in 1..n
    BY <1>2, <1>6, <2>1
  <2>2. ASSUME s # <<>>
        PROVE  s[n][1] = "summarize"
    BY <1>5, <2>1, <2>2
  <2>3. t[1] = <<"truncate", "index">> /\ t[1][1] = "truncate"
    BY <1>10
  <2> QED BY <1>6, <2>2, <2>3 DEF Follows
<1>12. \A i \in 1..Len(s), j \in 1..Len(t) : Later(s[i], t[j])
  BY <1>5, <1>6, <1>10 DEF Later, Only
<1>13. Joined(s, t, s \o t, kind)
  BY <1>8, <1>10, <1>11, <1>12, ConcatChain
<1>14. Rebuild = s \o t
  BY <1>4, <1>9 DEF Rebuild, sums
<1>15. Only(s, {"summarize"})
  BY <1>5, <1>6 DEF Only
<1>16. Only(Rebuild, {"summarize", "truncate", "write"})
  <2>1. Only(s \o t, {"summarize"} \cup {"truncate", "write"})
    BY <1>10, <1>13, <1>15 DEF Joined
  <2>2. {"summarize"} \cup {"truncate", "write"} = {"summarize", "truncate", "write"}
    OBVIOUS
  <2> QED BY <1>14, <2>1, <2>2
<1>17. \A w \in Files : HasOp(s, <<"summarize", w>>)
  BY <1>3, <1>5, <1>6 DEF HasOp
<1>18. Rebuild # <<>> /\ Rebuild[Len(Rebuild)] = <<"write", "index">>
  BY <1>10, <1>13, <1>14 DEF Joined
<1>19. Rebuild[1][1] = "summarize" \/ Rebuild[1] = <<"truncate", "index">>
  <2>1. CASE s = <<>>
    <3>1. s \o t = t
      BY <1>10, <2>1 DEF Chain
    <3> QED BY <1>10, <1>14, <3>1
  <2>2. CASE s # <<>>
    <3>1. 1 \in 1..n
      BY <1>2, <1>6, <2>2
    <3> QED BY <1>5, <1>13, <1>14, <2>2, <3>1 DEF Joined
  <2> QED BY <2>1, <2>2
<1>20. \A w \in Files : HasOp(Rebuild, <<"summarize", w>>)
  BY <1>13, <1>14, <1>17 DEF Joined
<1>21. Chain(Rebuild, kind)
  BY <1>13, <1>14 DEF Joined
<1> QED BY <1>16, <1>18, <1>19, <1>20, <1>21

\* What comes after the index is returned.
LEMMA AfterChain ==
  ASSUME NEW kind \in FreshKinds
  PROVE  /\ Proper(AfterFresh(kind), kind) /\ AfterFresh(kind) # <<>>
         /\ \/ /\ AfterFresh(kind)[1] = <<"truncate", "project">>
               /\ kind \in {"dashboard", "blank"}
            \/ AfterFresh(kind)[1][1] \in {"load", "offer"}
         /\ Only(AfterFresh(kind), {"load", "truncate", "write", "offer"})
<1>1. CASE kind \in {"dashboard", "blank"}
  <2>1. AfterFresh(kind) = Store("project")
    BY <1>1 DEF AfterFresh
  <2>2. /\ Chain(Store("project"), kind) /\ Len(Store("project")) = 2
        /\ Store("project") # <<>> /\ Store("project")[1] = <<"truncate", "project">>
        /\ Store("project")[2] = <<"write", "project">>
        /\ Only(Store("project"), {"truncate", "write"})
    BY <1>1, StoreChain DEF Stores
  <2>3. Ends(Store("project"), kind)
    BY <2>2 DEF Ends, LastOp
  <2> QED BY <1>1, <2>1, <2>2, <2>3 DEF Proper, Only
<1>2. CASE kind = "prompt"
  <2>1. PICK x : x = <<"offer", "solutions">>
    OBVIOUS
  <2>2. x \in Ops /\ Allowed(x, kind) /\ x[1] = "offer"
    BY <1>2, <2>1 DEF Ops, Verbs, Stores, Allowed, OpTyped
  <2>3. AfterFresh(kind) = <<x>>
    BY <1>2, <2>1 DEF AfterFresh
  <2>4. Chain(<<x>>, kind) /\ <<x>>[1] = x /\ <<x>> # <<>> /\ Only(<<x>>, {x[1]})
    BY <2>2, OneChain
  <2> QED BY <1>2, <2>2, <2>3, <2>4 DEF Proper, Ends, Only
<1>3. CASE kind = "mark"
  <2>1. AfterFresh(kind) = Update("index")
    BY <1>3 DEF AfterFresh
  <2>2. "index" \in Stores \ {"project"} /\ Allowed(<<"load", "index">>, kind)
    BY DEF Stores, Allowed, OpTyped
  <2>3. /\ Chain(Update("index"), kind) /\ Update("index") # <<>>
        /\ Update("index")[1] = <<"load", "index">>
        /\ Only(Update("index"), {"load", "truncate", "write"})
    BY <2>2, UpdateChain
  <2> QED BY <1>3, <2>1, <2>3 DEF Proper, Ends, Only
<1> QED BY <1>1, <1>2, <1>3 DEF FreshKinds

LEMMA ReturnedChain ==
  ASSUME NEW kind \in FreshKinds
  PROVE  /\ Proper(Returned(kind), kind) /\ Returned(kind) # <<>>
         /\ Returned(kind)[1] = <<"return", "index">>
         /\ Only(Returned(kind), {"return", "load", "truncate", "write", "offer"})
<1>1. PICK x : x = <<"return", "index">>
  OBVIOUS
<1>2. x \in Ops /\ Allowed(x, kind) /\ x[1] = "return"
  BY <1>1 DEF Ops, Verbs, Stores, Allowed, OpTyped
<1>3. PICK t : t = AfterFresh(kind)
  OBVIOUS
<1>4. /\ Proper(t, kind) /\ t # <<>>
      /\ t[1] = <<"truncate", "project">> \/ t[1][1] \in {"load", "offer"}
      /\ Only(t, {"load", "truncate", "write", "offer"})
  BY <1>3, AfterChain
<1>5. PICK s : s = <<x>>
  OBVIOUS
<1>6. Chain(s, kind) /\ Len(s) = 1 /\ s[1] = x /\ s # <<>> /\ Only(s, {x[1]})
  BY <1>2, <1>5, OneChain
<1>7. Follows(s[Len(s)], t[1])
  BY <1>2, <1>4, <1>6 DEF Follows
<1>8. \A i \in 1..Len(s), j \in 1..Len(t) : Later(s[i], t[j])
  BY <1>1, <1>2, <1>4, <1>6 DEF Later, Only
<1>9. Joined(s, t, s \o t, kind)
  BY <1>4, <1>6, <1>7, <1>8, ConcatChain DEF Proper
<1>10. Returned(kind) = s \o t
  BY <1>1, <1>3, <1>5 DEF Returned
<1>11. Only(s \o t, {"return", "load", "truncate", "write", "offer"})
  <2>1. Only(s \o t, {x[1]} \cup {"load", "truncate", "write", "offer"})
    BY <1>4, <1>6, <1>9 DEF Joined
  <2> QED BY <1>2, <2>1 DEF Only
<1>12. Proper(s \o t, kind)
  BY <1>4, <1>9 DEF Joined, Proper
<1> QED BY <1>1, <1>6, <1>9, <1>10, <1>11, <1>12 DEF Joined

LEMMA RebuiltChain ==
  ASSUME NEW kind \in FreshKinds, WalkAssumption
  PROVE  /\ Proper(Rebuilt(kind), kind) /\ Rebuilt(kind) # <<>>
         /\ Rebuilt(kind)[1][1] = "summarize" \/ Rebuilt(kind)[1] = <<"truncate", "index">>
         /\ Only(Rebuilt(kind),
                 {"summarize", "return", "load", "truncate", "write", "offer"})
         /\ \A w \in Files : HasOp(Rebuilt(kind), <<"summarize", w>>)
<1>1. PICK s : s = Rebuild
  OBVIOUS
<1>2. PICK t : t = Returned(kind)
  OBVIOUS
<1>3. /\ Chain(s, kind) /\ s # <<>>
      /\ s[1][1] = "summarize" \/ s[1] = <<"truncate", "index">>
      /\ s[Len(s)] = <<"write", "index">>
      /\ Only(s, {"summarize", "truncate", "write"})
      /\ \A w \in Files : HasOp(s, <<"summarize", w>>)
  BY <1>1, RebuildChain
<1>4. /\ Proper(t, kind) /\ t # <<>> /\ t[1] = <<"return", "index">>
      /\ Only(t, {"return", "load", "truncate", "write", "offer"})
  BY <1>2, ReturnedChain
<1>5. Follows(s[Len(s)], t[1])
  <2>1. PICK x : x = s[Len(s)]
    OBVIOUS
  <2>2. x[1] = "write" /\ x[2] = "index" /\ t[1][1] = "return"
    BY <1>3, <1>4, <2>1
  <2> QED BY <2>1, <2>2 DEF Follows
<1>6. ASSUME NEW i \in 1..Len(s), NEW j \in 1..Len(t)
      PROVE  Later(s[i], t[j])
  <2>1. s[i][1] \in {"summarize", "truncate", "write"} /\ t[j][1] # "look"
    BY <1>3, <1>4 DEF Only
  <2> QED BY <2>1 DEF Later
<1>7. Joined(s, t, s \o t, kind)
  BY <1>3, <1>4, <1>5, <1>6, ConcatChain DEF Proper
<1>8. Rebuilt(kind) = s \o t
  BY <1>1, <1>2 DEF Rebuilt
<1>9. Only(s \o t, {"summarize", "return", "load", "truncate", "write", "offer"})
  <2>1. Only(s \o t, {"summarize", "truncate", "write"}
                       \cup {"return", "load", "truncate", "write", "offer"})
    BY <1>3, <1>4, <1>7 DEF Joined
  <2> QED BY <2>1 DEF Only
<1>10. Proper(s \o t, kind) /\ \A w \in Files : HasOp(s \o t, <<"summarize", w>>)
  BY <1>3, <1>4, <1>7 DEF Joined, Proper
<1> QED BY <1>3, <1>7, <1>8, <1>9, <1>10 DEF Joined

LEMMA FreshChain ==
  ASSUME NEW kind \in FreshKinds, WalkAssumption
  PROVE  /\ Proper(Fresh(kind), kind) /\ Fresh(kind) # <<>>
         /\ Fresh(kind)[1] = <<"begin", "index">> /\ ~Has(Fresh(kind), "look")
<1>1. PICK x : x = <<"begin", "index">>
  OBVIOUS
<1>2. PICK y : y = <<"compare", "index">>
  OBVIOUS
<1>3. PICK z : z = <<"search", "index">>
  OBVIOUS
<1>4. /\ x \in Ops /\ y \in Ops /\ z \in Ops
      /\ x[1] = "begin" /\ y[1] = "compare" /\ z[1] = "search"
  BY <1>1, <1>2, <1>3 DEF Ops, Verbs, Stores
<1>5. Allowed(x, kind) /\ Allowed(y, kind) /\ Allowed(z, kind)
  BY <1>1, <1>2, <1>3 DEF Allowed, OpTyped
<1>6. Follows(x, y) /\ Follows(y, z) /\ Later(x, y) /\ Later(x, z) /\ Later(y, z)
  BY <1>1, <1>2, <1>3 DEF Follows, Later
<1>7. PICK s : s = <<x, y, z>>
  OBVIOUS
<1>8. /\ Chain(s, kind) /\ Len(s) = 3 /\ s # <<>> /\ s[1] = x /\ s[3] = z
      /\ Only(s, {x[1], y[1], z[1]})
  BY <1>4, <1>5, <1>6, <1>7, ThreeChain
<1>9. PICK t : t = Rebuilt(kind)
  OBVIOUS
<1>10. /\ Proper(t, kind) /\ t # <<>>
       /\ t[1][1] = "summarize" \/ t[1] = <<"truncate", "index">>
       /\ Only(t, {"summarize", "return", "load", "truncate", "write", "offer"})
  BY <1>9, RebuiltChain
<1>11. Follows(s[Len(s)], t[1])
  BY <1>4, <1>8, <1>10 DEF Follows
<1>12. ASSUME NEW i \in 1..Len(s), NEW j \in 1..Len(t)
       PROVE  Later(s[i], t[j])
  <2>1. s[i][1] \in {"begin", "compare", "search"} /\ t[j][1] # "look"
    BY <1>4, <1>8, <1>10 DEF Only
  <2> QED BY <2>1 DEF Later
<1>13. Joined(s, t, s \o t, kind)
  BY <1>8, <1>10, <1>11, <1>12, ConcatChain DEF Proper
<1>14. Fresh(kind) = s \o t
  BY <1>1, <1>2, <1>3, <1>7, <1>9 DEF Fresh
<1>15. ~Has(s \o t, "look")
  <2>1. Only(s \o t, {x[1], y[1], z[1]}
                       \cup {"summarize", "return", "load", "truncate", "write", "offer"})
    BY <1>8, <1>10, <1>13 DEF Joined
  <2> QED BY <1>4, <2>1 DEF Only, Has
<1>16. Proper(s \o t, kind)
  BY <1>10, <1>13 DEF Joined, Proper
<1> QED BY <1>1, <1>8, <1>13, <1>14, <1>15, <1>16 DEF Joined

\* Two updates, of bases before the second file.
LEMMA TwoUpdates ==
  ASSUME NEW kind, NEW f \in {"errors", "solutions"}, NEW g \in {"solutions", "index"},
         Allowed(<<"load", f>>, kind), Allowed(<<"load", g>>, kind)
  PROVE  LET u == Update(f) \o Update(g)
         IN  /\ Chain(u, kind) /\ u # <<>> /\ u[1] = <<"load", f>>
             /\ u[Len(u)] = <<"write", g>> /\ Only(u, {"load", "truncate", "write"})
             /\ g # "index" => ~HasOp(u, <<"load", "index">>)
<1>1. PICK s : s = Update(f)
  OBVIOUS
<1>2. PICK t : t = Update(g)
  OBVIOUS
<1>3. f \in Stores \ {"project"} /\ g \in Stores \ {"project"} /\ f # "index"
  BY DEF Stores
<1>4. /\ Chain(s, kind) /\ s # <<>> /\ s[1] = <<"load", f>> /\ s[Len(s)] = <<"write", f>>
      /\ Only(s, {"load", "truncate", "write"}) /\ \A i \in 1..Len(s) : s[i][2] = f
  BY <1>1, <1>3, UpdateChain
<1>5. /\ Chain(t, kind) /\ t # <<>> /\ t[1] = <<"load", g>> /\ t[Len(t)] = <<"write", g>>
      /\ Only(t, {"load", "truncate", "write"}) /\ \A i \in 1..Len(t) : t[i][2] = g
  BY <1>2, <1>3, UpdateChain
<1>6. Follows(s[Len(s)], t[1])
  <2>1. PICK x : x = s[Len(s)]
    OBVIOUS
  <2>2. x[1] = "write" /\ x[2] # "project" /\ t[1][1] = "load"
    BY <1>3, <1>4, <1>5, <2>1
  <2> QED BY <2>1, <2>2 DEF Follows
<1>7. ASSUME NEW i \in 1..Len(s), NEW j \in 1..Len(t)
      PROVE  Later(s[i], t[j])
  <2>1. /\ s[i][1] \in {"load", "truncate", "write"} /\ s[i][2] # "index"
        /\ t[j][1] \in {"load", "truncate", "write"}
    BY <1>3, <1>4, <1>5 DEF Only
  <2> QED BY <2>1 DEF Later
<1>8. PICK u : u = s \o t
  OBVIOUS
<1>9. Joined(s, t, u, kind)
  BY <1>4, <1>5, <1>6, <1>7, <1>8, ConcatChain
<1>10. Only(u, {"load", "truncate", "write"})
  <2>1. Only(u, {"load", "truncate", "write"} \cup {"load", "truncate", "write"})
    BY <1>4, <1>5, <1>9 DEF Joined
  <2> QED BY <2>1 DEF Only
<1>11. ASSUME g # "index" PROVE ~HasOp(u, <<"load", "index">>)
  <2>1. /\ s \in Seq(Ops) /\ t \in Seq(Ops) /\ Len(s) \in Nat /\ Len(t) \in Nat
    BY <1>4, <1>5 DEF Chain
  <2>2. ASSUME NEW i \in 1..Len(u)
        PROVE  u[i][2] \in {f, g}
    <3>1. Len(u) = Len(s) + Len(t) /\ u[i] = IF i <= Len(s) THEN s[i] ELSE t[i - Len(s)]
      BY <1>8, <2>1
    <3>2. CASE i <= Len(s)
      <4>1. i \in 1..Len(s) /\ u[i] = s[i]
        BY <2>1, <3>1, <3>2
      <4> QED BY <1>4, <4>1
    <3>3. CASE ~(i <= Len(s))
      <4>1. i - Len(s) \in 1..Len(t) /\ u[i] = t[i - Len(s)]
        BY <2>1, <3>1, <3>3
      <4> QED BY <1>5, <4>1
    <3> QED BY <3>2, <3>3
  <2> QED BY <1>3, <1>11, <2>2 DEF HasOp
<1>12. Chain(u, kind) /\ u # <<>> /\ u[1] = <<"load", f>> /\ u[Len(u)] = <<"write", g>>
  BY <1>4, <1>5, <1>9 DEF Joined
<1> QED BY <1>1, <1>2, <1>8, <1>10, <1>11, <1>12

\* The program of every kind of job.
LEMMA ProgramProper ==
  ASSUME NEW kind \in Kinds, WalkAssumption
  PROVE  /\ Proper(Program(kind), kind) /\ Program(kind) # <<>>
         /\ \/ Program(kind)[1][1] \in {"load", "check", "begin"}
            \/ /\ kind = "rebuild" /\ ~Has(Program(kind), "return")
               /\ Program(kind)[1][1] = "summarize" \/ Program(kind)[1] = <<"truncate", "index">>
            \/ kind = "put" /\ Program(kind)[1] = <<"truncate", "project">>
         /\ kind = "dashboard" => Has(Program(kind), "look")
<1>1. CASE kind \in {"retire", "restore", "record", "supersede"}
  <2>1. PICK t : t = Update("solutions")
    OBVIOUS
  <2>2. "solutions" \in Stores \ {"project"} /\ Allowed(<<"load", "solutions">>, kind)
    BY <1>1 DEF Stores, Allowed, OpTyped, ItemKinds
  <2>3. /\ Chain(t, kind) /\ t # <<>> /\ t[1] = <<"load", "solutions">>
        /\ Only(t, {"load", "truncate", "write"})
    BY <2>1, <2>2, UpdateChain
  <2>4. CASE kind # "supersede"
    <3>1. Program(kind) = t
      BY <1>1, <2>1, <2>4 DEF Program
    <3> QED BY <1>1, <2>3, <3>1 DEF Proper, Ends
  <2>5. CASE kind = "supersede"
    <3>1. PICK x : x = <<"check", "solutions">>
      OBVIOUS
    <3>2. x \in Ops /\ x[1] = "check" /\ Allowed(x, kind)
      BY <3>1 DEF Ops, Verbs, Stores, Allowed, OpTyped
    <3>3. PICK s : s = <<x>>
      OBVIOUS
    <3>4. Chain(s, kind) /\ s # <<>> /\ Len(s) = 1 /\ s[1] = x /\ Only(s, {x[1]})
      BY <3>2, <3>3, OneChain
    <3>5. Follows(s[Len(s)], t[1])
      BY <2>3, <3>2, <3>4 DEF Follows
    <3>6. ASSUME NEW i \in 1..Len(s), NEW j \in 1..Len(t)
          PROVE  Later(s[i], t[j])
      <4>1. s[i][1] = "check" /\ t[j][1] \in {"load", "truncate", "write"}
        BY <2>3, <3>2, <3>4 DEF Only
      <4> QED BY <4>1 DEF Later
    <3>7. Joined(s, t, s \o t, kind)
      BY <2>3, <3>4, <3>5, <3>6, ConcatChain
    <3>8. Program(kind) = s \o t
      BY <2>1, <2>5, <3>1, <3>3 DEF Program
    <3> QED BY <2>5, <3>2, <3>4, <3>7, <3>8 DEF Joined, Proper, Ends
  <2> QED BY <2>4, <2>5
<1>2. ASSUME kind \in {"failed", "dashboard"}
      PROVE  /\ Chain(Learn, kind) /\ Learn # <<>> /\ Learn[1] = <<"load", "errors">>
             /\ Learn[Len(Learn)] = <<"write", "solutions">>
             /\ Only(Learn, {"load", "truncate", "write"})
             /\ ~HasOp(Learn, <<"load", "index">>)
  <2>1. Allowed(<<"load", "errors">>, kind) /\ Allowed(<<"load", "solutions">>, kind)
    BY <1>2 DEF Stores, Allowed, OpTyped, ItemKinds
  <2> QED BY <2>1, TwoUpdates DEF Learn
<1>3. CASE kind = "failed"
  <2>1. Program(kind) = Learn
    BY <1>3 DEF Program
  <2> QED BY <1>2, <1>3, <2>1 DEF Proper, Ends
<1>4. CASE kind = "dashboard"
  <2>1. PICK x : x = <<"look", "project">>
    OBVIOUS
  <2>2. x \in Ops /\ x[1] = "look" /\ Allowed(x, kind)
    BY <2>1 DEF Ops, Verbs, Stores, Allowed, OpTyped
  <2>3. PICK s : s = <<x>>
    OBVIOUS
  <2>4. Chain(s, kind) /\ s # <<>> /\ Len(s) = 1 /\ s[1] = x /\ Only(s, {x[1]})
    BY <2>2, <2>3, OneChain
  <2>5. PICK t : t = Fresh(kind)
    OBVIOUS
  <2>6. Proper(t, kind) /\ t # <<>> /\ t[1] = <<"begin", "index">> /\ ~Has(t, "look")
    BY <1>4, <2>5, FreshChain DEF FreshKinds
  <2>7. Follows(s[Len(s)], t[1])
    BY <2>2, <2>4, <2>6 DEF Follows
  <2>8. ASSUME NEW i \in 1..Len(s), NEW j \in 1..Len(t)
        PROVE  Later(s[i], t[j])
    <3>1. s[i][1] = "look" /\ t[j][1] # "look"
      BY <2>2, <2>4, <2>6 DEF Only, Has
    <3> QED BY <3>1 DEF Later
  <2>9. PICK u : u = s \o t
    OBVIOUS
  <2>10. Joined(s, t, u, kind)
    BY <2>4, <2>6, <2>7, <2>8, <2>9, ConcatChain DEF Proper
  <2>11. /\ Proper(u, kind) /\ u # <<>> /\ u[1] = x
         /\ Has(u, "look") /\ Ends(u, kind)
    <3>1. HasOp(s, x)
      BY <2>4, 1 \in 1..1 DEF HasOp
    <3>2. HasOp(u, x)
      BY <2>10, <3>1 DEF Joined
    <3>3. Has(u, "look")
      BY <2>2, <3>2 DEF Has, HasOp
    <3> QED BY <2>4, <2>6, <2>10, <3>3 DEF Joined, Proper
  <2>12. PICK l : l = Learn
    OBVIOUS
  <2>13. /\ Chain(l, kind) /\ l # <<>> /\ l[1] = <<"load", "errors">>
         /\ l[Len(l)] = <<"write", "solutions">>
         /\ Only(l, {"load", "truncate", "write"}) /\ ~HasOp(l, <<"load", "index">>)
    BY <1>2, <1>4, <2>12
  <2>14. Follows(l[Len(l)], u[1])
    <3>1. PICK y : y = l[Len(l)]
      OBVIOUS
    <3>2. y[1] = "write" /\ y[2] # "project" /\ u[1][1] = "look"
      BY <2>2, <2>11, <2>13, <3>1
    <3> QED BY <3>1, <3>2 DEF Follows
  <2>15. ASSUME NEW i \in 1..Len(l), NEW j \in 1..Len(u)
         PROVE  Later(l[i], u[j])
    <3>1. l[i][1] \in {"load", "truncate", "write"} /\ l[i] # <<"load", "index">>
      BY <2>13 DEF Only, HasOp
    <3> QED BY <3>1 DEF Later
  <2>16. Joined(l, u, l \o u, kind)
    BY <2>11, <2>13, <2>14, <2>15, ConcatChain DEF Proper
  <2>17. Program(kind) = l \o u
    BY <1>4, <2>1, <2>3, <2>5, <2>9, <2>12 DEF Program
  <2>18. Has(l \o u, "look")
    <3>1. PICK i \in 1..Len(u) : u[i][1] = "look"
      BY <2>11 DEF Has
    <3>2. HasOp(u, u[i])
      BY DEF HasOp
    <3>3. HasOp(l \o u, u[i])
      BY <2>16, <3>2 DEF Joined
    <3> QED BY <3>1, <3>3 DEF Has, HasOp
  <2>19. Proper(l \o u, kind) /\ l \o u # <<>> /\ (l \o u)[1][1] = "load"
    BY <2>11, <2>13, <2>16 DEF Joined, Proper
  <2> QED BY <1>4, <2>17, <2>18, <2>19
<1>5. CASE kind \in {"prompt", "mark", "blank"}
  <2>1. Program(kind) = Fresh(kind)
    BY <1>5 DEF Program
  <2>2. Proper(Fresh(kind), kind) /\ Fresh(kind) # <<>> /\ Fresh(kind)[1] = <<"begin", "index">>
    BY <1>5, FreshChain DEF FreshKinds
  <2> QED BY <1>5, <2>1, <2>2
<1>6. CASE kind = "rebuild"
  <2>1. Program(kind) = Rebuild
    BY <1>6 DEF Program
  <2>2. /\ Chain(Rebuild, kind) /\ Rebuild # <<>>
        /\ Rebuild[1][1] = "summarize" \/ Rebuild[1] = <<"truncate", "index">>
        /\ Only(Rebuild, {"summarize", "truncate", "write"})
    BY RebuildChain
  <2>3. ~Has(Rebuild, "return")
    BY <2>2 DEF Only, Has
  <2> QED BY <1>6, <2>1, <2>2, <2>3 DEF Proper, Ends
<1>7. CASE kind = "put"
  <2>1. Program(kind) = Store("project")
    BY <1>7 DEF Program
  <2>2. /\ Chain(Store("project"), kind) /\ Store("project") # <<>>
        /\ Store("project")[1] = <<"truncate", "project">>
    BY <1>7, StoreChain DEF Stores
  <2> QED BY <1>7, <2>1, <2>2 DEF Proper, Ends
<1> QED BY <1>1, <1>3, <1>4, <1>5, <1>6, <1>7 DEF Kinds

-----------------------------------------------------------------------------
(* Lemmas about the knowledge bases                                          *)

Item == [id : Items, retired : BOOLEAN]

LEMMA BasesAre ==
  ASSUME NEW kb
  PROVE  kb \in Bases <=>
           \E n \in 0..MaxItems : /\ kb \in [1..n -> Item]
                                 /\ \A i, j \in 1..n : kb[i].id = kb[j].id => i = j
<1>1. \A n : kb \in [1..n -> Item] => DOMAIN kb = 1..n
  OBVIOUS
<1> QED BY <1>1 DEF Bases, Item

LEMMA BaseSeq ==
  ASSUME NEW kb \in Bases, LimitAssumption
  PROVE  /\ kb \in Seq(Item) /\ Len(kb) \in 0..MaxItems /\ DOMAIN kb = 1..Len(kb)
         /\ \A i \in 1..Len(kb) : kb[i] \in Item
         /\ \A i, j \in 1..Len(kb) : kb[i].id = kb[j].id => i = j
<1>1. PICK n \in 0..MaxItems : /\ kb \in [1..n -> Item]
                              /\ \A i, j \in 1..n : kb[i].id = kb[j].id => i = j
  BY BasesAre
<1>2. n \in Nat /\ MaxItems \in Nat
  BY DEF LimitAssumption
<1>3. kb = [i \in 1..n |-> kb[i]] /\ \A i \in 1..n : kb[i] \in Item
  BY <1>1
<1>4. kb \in Seq(Item) /\ Len(kb) = n
  BY <1>2, <1>3
<1> QED BY <1>1, <1>3, <1>4

\* Retiring or restoring an item changes no other.
LEMMA SetRetiredBase ==
  ASSUME NEW kb \in Bases, NEW s, NEW flag \in BOOLEAN, LimitAssumption
  PROVE  /\ SetRetired(kb, s, flag) \in Bases /\ Keeps(kb, SetRetired(kb, s, flag))
         /\ \A x : IsRetired(kb, x) /\ x # s => IsRetired(SetRetired(kb, s, flag), x)
<1>1. PICK u : u = SetRetired(kb, s, flag)
  OBVIOUS
<1>2. PICK n \in 0..MaxItems : /\ kb \in [1..n -> Item]
                              /\ \A i, j \in 1..n : kb[i].id = kb[j].id => i = j
  BY BasesAre
<1>3. u = [i \in 1..n |-> IF kb[i].id = s THEN [kb[i] EXCEPT !.retired = flag] ELSE kb[i]]
  BY <1>1, <1>2 DEF SetRetired
<1>4. ASSUME NEW i \in 1..n
      PROVE  /\ u[i] \in Item /\ u[i].id = kb[i].id
             /\ u[i].retired = IF kb[i].id = s THEN flag ELSE kb[i].retired
  BY <1>2, <1>3 DEF Item
<1>5. u \in [1..n -> Item]
  BY <1>3, <1>4
<1>6. u \in Bases
  BY <1>2, <1>4, <1>5, BasesAre
<1>7. DOMAIN u = 1..n /\ DOMAIN kb = 1..n
  BY <1>2, <1>5
<1>8. ASSUME NEW x, IsRetired(kb, x), x # s
      PROVE  IsRetired(u, x)
  <2>1. PICK i \in 1..n : kb[i].id = x /\ kb[i].retired
    BY <1>7, <1>8 DEF IsRetired
  <2>2. u[i].id = x /\ u[i].retired
    BY <1>4, <1>8, <2>1
  <2> QED BY <1>7, <2>2 DEF IsRetired
<1>9. Keeps(kb, u)
  BY <1>4, <1>7 DEF Keeps, Ids
<1> QED BY <1>1, <1>6, <1>8, <1>9

\* Learning an item again or anew changes no other.
LEMMA UpsertBase ==
  ASSUME NEW kb \in Bases, NEW s \in Items, LimitAssumption
  PROVE  /\ UpsertItem(kb, s) \in Bases /\ Keeps(kb, UpsertItem(kb, s))
         /\ \A x : IsRetired(kb, x) => ~IsActive(UpsertItem(kb, s), x)
<1>1. CASE s \in Ids(kb)
  BY <1>1 DEF UpsertItem, IsActive, Keeps
<1>2. CASE s \notin Ids(kb)
  <2>1. PICK n : n = Len(kb)
    OBVIOUS
  <2>2. /\ kb \in Seq(Item) /\ n \in 0..MaxItems /\ DOMAIN kb = 1..n
        /\ \A i \in 1..n : kb[i] \in Item
        /\ \A i, j \in 1..n : kb[i].id = kb[j].id => i = j
    BY <2>1, BaseSeq
  <2>3. MaxItems \in Nat /\ MaxItems >= 1 /\ n \in Nat
    BY <2>2 DEF LimitAssumption
  <2>4. PICK r : r = [id |-> s, retired |-> FALSE]
    OBVIOUS
  <2>5. r \in Item /\ r.id = s
    BY <2>4 DEF Item
  <2>6. PICK v : v = <<r>> \o kb
    OBVIOUS
  <2>7. /\ v \in Seq(Item) /\ Len(v) = n + 1 /\ v[1] = r
        /\ \A i \in 1..n : v[i + 1] = kb[i]
    BY <2>1, <2>2, <2>5, <2>6
  <2>8. PICK m : m = IF Len(v) <= MaxItems THEN Len(v) ELSE MaxItems
    OBVIOUS
  <2>9. m \in 1..MaxItems /\ m <= n + 1 /\ m \in Nat
    BY <2>3, <2>7, <2>8
  <2>10. PICK u : u = SubSeq(v, 1, m)
    OBVIOUS
  <2>11. UpsertItem(kb, s) = u
    BY <1>2, <2>4, <2>6, <2>8, <2>10 DEF UpsertItem, Kept
  <2>12. u \in Seq(Item) /\ Len(u) = m /\ \A i \in 1..m : u[i] = v[i]
    BY <2>7, <2>9, <2>10
  <2>13. u[1] = r /\ \A i \in 2..m : i - 1 \in 1..n /\ u[i] = kb[i - 1]
    BY <2>3, <2>7, <2>9, <2>12
  <2>14. u \in [1..m -> Item] /\ DOMAIN u = 1..m
    BY <2>12
  <2>15. \A i \in 1..n : kb[i].id # s
    BY <1>2, <2>2 DEF Ids
  <2>16. ASSUME NEW i \in 1..m, NEW j \in 1..m, u[i].id = u[j].id
         PROVE  i = j
    <3>1. CASE i = 1 /\ j = 1
      BY <3>1
    <3>2. CASE i = 1 /\ j # 1
      <4>1. j \in 2..m
        BY <2>9, <3>2
      <4> QED BY <2>5, <2>13, <2>15, <2>16, <3>2, <4>1
    <3>3. CASE i # 1 /\ j = 1
      <4>1. i \in 2..m
        BY <2>9, <3>3
      <4> QED BY <2>5, <2>13, <2>15, <2>16, <3>3, <4>1
    <3>4. CASE i # 1 /\ j # 1
      <4>1. i \in 2..m /\ j \in 2..m
        BY <2>9, <3>4
      <4>2. i - 1 = j - 1
        BY <2>2, <2>13, <2>16, <4>1
      <4> QED BY <2>9, <4>2
    <3> QED BY <3>1, <3>2, <3>3, <3>4
  <2>17. u \in Bases
    <3>1. m \in 0..MaxItems
      BY <2>3, <2>9
    <3> QED BY <2>14, <2>16, <3>1, BasesAre
  <2>18. ASSUME NEW x, IsRetired(kb, x), IsActive(u, x)
         PROVE  FALSE
    <3>1. PICK i \in 1..n : kb[i].id = x /\ kb[i].retired
      BY <2>2, <2>18 DEF IsRetired
    <3>2. PICK k \in 1..m : u[k].id = x
      BY <2>14, <2>18 DEF IsActive, Ids
    <3>3. k # 1
      BY <2>5, <2>13, <2>15, <3>1, <3>2
    <3>4. k \in 2..m
      BY <2>9, <3>3
    <3>5. k - 1 = i
      BY <2>2, <2>13, <3>1, <3>2, <3>4
    <3>6. u[k].retired
      BY <2>13, <3>1, <3>4, <3>5
    <3> QED BY <2>14, <2>18, <3>2, <3>6 DEF IsActive, IsRetired
  <2>19. Keeps(kb, u)
    <3>1. CASE n = MaxItems
      BY <2>1, <3>1 DEF Keeps
    <3>2. CASE n < MaxItems
      <4>1. m = n + 1
        BY <2>3, <2>7, <2>8, <3>2
      <4>2. ASSUME NEW i \in 1..n
            PROVE  i + 1 \in DOMAIN u /\ u[i + 1].id = kb[i].id
        BY <2>3, <2>7, <2>12, <2>14, <4>1
      <4> QED BY <2>2, <4>2 DEF Keeps, Ids
    <3> QED BY <2>2, <2>3, <3>1, <3>2
  <2> QED BY <2>11, <2>17, <2>18, <2>19
<1> QED BY <1>1, <1>2

\* What a job makes of a base is a base, and only a restore makes something active.
LEMMA ChangedBase ==
  ASSUME NEW p, NEW f, NEW kb \in Bases, LimitAssumption,
         job[p].kind \in ItemKinds \cup {"prompt"}, job[p].arg \subseteq Items,
         job[p].kind \in ItemKinds => job[p].arg # {},
         NEW new, new = Changed(p, f, kb), new # Nothing
  PROVE  new \in Bases /\ Keeps(kb, new) /\ Revives(job[p], kb, new)
<1>1. PICK s : s = CHOOSE x \in job[p].arg : TRUE
  OBVIOUS
<1>2. \A b, x : ~(IsRetired(b, x) /\ IsActive(b, x))
  BY DEF IsActive
<1>3. CASE job[p].kind \in {"retire", "supersede"}
  <2>1. s \in Ids(kb) /\ new = SetRetired(kb, s, TRUE)
    BY <1>1, <1>3 DEF Changed
  <2>2. new \in Bases /\ Keeps(kb, new)
    BY <2>1, SetRetiredBase
  <2>3. ASSUME NEW x, IsRetired(kb, x)
        PROVE  IsRetired(new, x)
    <3>1. PICK i \in DOMAIN kb : kb[i].id = x /\ kb[i].retired
      BY <2>3 DEF IsRetired
    <3>2. kb[i] \in Item
      BY BaseSeq
    <3>3. i \in DOMAIN new /\ new[i].id = x /\ new[i].retired
      BY <2>1, <3>1, <3>2 DEF SetRetired, Item
    <3> QED BY <3>3 DEF IsRetired
  <2> QED BY <1>2, <2>2, <2>3 DEF Revives
<1>4. CASE job[p].kind = "restore"
  <2>1. new = SetRetired(kb, s, FALSE) /\ s \in job[p].arg
    BY <1>1, <1>4 DEF Changed, ItemKinds
  <2>2. \A x : IsRetired(kb, x) /\ x # s => IsRetired(new, x)
    BY <2>1, SetRetiredBase
  <2>3. new \in Bases /\ Keeps(kb, new)
    BY <2>1, SetRetiredBase
  <2> QED BY <1>2, <1>4, <2>1, <2>2, <2>3 DEF Revives
<1>5. CASE job[p].kind \in {"record", "failed", "dashboard"}
  <2>1. new = UpsertItem(kb, s) /\ s \in job[p].arg
    BY <1>1, <1>5 DEF Changed, ItemKinds
  <2> QED BY <2>1, UpsertBase DEF Revives
<1>6. CASE job[p].kind = "prompt"
  <2>1. new = kb
    BY <1>6 DEF Changed
  <2> QED BY <1>2, <2>1 DEF Revives, Keeps
<1> QED BY <1>3, <1>4, <1>5, <1>6 DEF ItemKinds

-----------------------------------------------------------------------------
(* Steps                                                                     *)

Jobs == [kind : Kinds \cup {"none"}, arg : SUBSET Items, other : SUBSET (Items \cup Files)]

\* What Go changes, and what it leaves alone.
LEMMA Moved ==
  ASSUME Typed, NEW p \in Procs, NEW steps \in Seq(Ops), NEW j \in Jobs, NEW v \in Values,
         Go(p, steps, j, v)
  PROVE  /\ job' \in [Procs -> Jobs] /\ todo' \in [Procs -> Seq(Ops)] /\ val' \in [Procs -> Values]
         /\ todo'[p] = steps
         /\ steps # <<>> => (job'[p] = j /\ val'[p] = v)
         /\ \A q \in Procs \ {p} : job'[q] = job[q] /\ todo'[q] = todo[q] /\ val'[q] = val[q]
<1>1. /\ job \in [Procs -> Jobs] /\ todo \in [Procs -> Seq(Ops)] /\ val \in [Procs -> Values]
  BY DEF Typed, Jobs
<1>2. NoJob \in Jobs /\ Nothing \in Values
  <2>1. NoJob \in Jobs
    BY DEF NoJob, Jobs
  <2>2. Nothing \in Values
    BY DEF Values
  <2> QED BY <2>1, <2>2
<1>3. PICK k : k = IF steps = <<>> THEN NoJob ELSE j
  OBVIOUS
<1>4. PICK w : w = IF steps = <<>> THEN Nothing ELSE v
  OBVIOUS
<1>5. /\ todo' = [todo EXCEPT ![p] = steps]
      /\ job' = [job EXCEPT ![p] = k] /\ val' = [val EXCEPT ![p] = w]
  BY <1>3, <1>4 DEF Go
<1>6. k \in Jobs /\ w \in Values
  BY <1>2, <1>3, <1>4
<1> QED BY <1>1, <1>3, <1>4, <1>5, <1>6

\* A step of one process that leaves the workspace alone.
LEMMA OneStep ==
  ASSUME IInv, NEW p \in Procs, NEW steps \in Seq(Ops), NEW j \in Jobs, NEW v \in Values, NEW s,
         Go(p, steps, j, v),
         since' \in [Procs -> [Files -> SUBSET (0..MaxEdits)]], since'[p] = s,
         \A q \in Procs \ {p} : since'[q] = since[q],
         UNCHANGED <<up, ws>>, left' \in Spare,
         disk' \in [Stores -> {Missing, Empty} \cup Values],
         last' \in [Stores -> {Missing} \cup Values], DiskOK',
         \A q \in Procs \ {p} : /\ KeepsBases(q, job[q], todo[q], val[q], stale', last')
                                /\ KeepsEdits(q, job[q], todo[q], stale', last'),
         steps # <<>> => Sound(p, j, steps, v, s)'
  PROVE  IInv'
<1>1. /\ job' \in [Procs -> Jobs] /\ todo' \in [Procs -> Seq(Ops)] /\ val' \in [Procs -> Values]
      /\ todo'[p] = steps
      /\ steps # <<>> => (job'[p] = j /\ val'[p] = v)
      /\ \A q \in Procs \ {p} : job'[q] = job[q] /\ todo'[q] = todo[q] /\ val'[q] = val[q]
  BY Moved DEF IInv
<1>2. Typed'
  BY <1>1 DEF IInv, Typed, Jobs
<1>3. ASSUME NEW q \in Procs \ {p}
      PROVE  Sound(q, job[q], todo[q], val[q], since[q])'
  <2>1. Sound(q, job[q], todo[q], val[q], since[q])
    BY DEF IInv
  <2>2. job'[q] = job[q] /\ todo'[q] = todo[q] /\ val'[q] = val[q] /\ since'[q] = since[q]
    BY <1>1
  <2>3. Busy(job[q], todo[q])'
    BY <2>1, <2>2 DEF Sound, Busy
  <2>4. Proper(todo[q], job[q].kind)'
    BY <2>1, <2>2 DEF Sound
  <2>5. Fits(todo[q], val[q])'
    BY <2>1, <2>2 DEF Sound
  <2>6. Seen(todo[q], val[q], since[q], ws)'
    BY <2>1, <2>2 DEF Sound
  <2>7. /\ KeepsBases(q, job'[q], todo'[q], val'[q], stale', last')
        /\ KeepsEdits(q, job'[q], todo'[q], stale', last')
    BY <2>2
  <2> QED BY <2>3, <2>4, <2>5, <2>6, <2>7 DEF Sound
<1>4. Sound(p, job[p], todo[p], val[p], since[p])'
  <2>1. CASE steps = <<>>
    <3>1. Sound(p, job[p], <<>>, val[p], since[p])'
      BY NothingLeft DEF Sound, Busy, Fits, Seen, InCheck, KeepsBases, AboutTo, KeepsEdits
    <3> QED BY <1>1, <2>1, <3>1
  <2>2. CASE steps # <<>>
    BY <1>1, <2>2
  <2> QED BY <2>1, <2>2
<1>5. \A q \in Procs : Sound(q, job[q], todo[q], val[q], since[q])'
  BY <1>3, <1>4
<1> QED BY <1>2, <1>5 DEF IInv

\* A step that changes neither the workspace nor a file.
LEMMA QuietStep ==
  ASSUME IInv, NEW p \in Procs, NEW steps \in Seq(Ops), NEW j \in Jobs, NEW v \in Values, NEW s,
         Go(p, steps, j, v),
         since' \in [Procs -> [Files -> SUBSET (0..MaxEdits)]], since'[p] = s,
         \A q \in Procs \ {p} : since'[q] = since[q],
         UNCHANGED <<up, disk, ws, last, retired, left>>,
         \A q \in Procs \ {p}, f \in Stores : <<q, f>> \in stale => <<q, f>> \in stale',
         steps # <<>> => Sound(p, j, steps, v, s)'
  PROVE  IInv'
<1>1. /\ left' \in Spare
      /\ disk' \in [Stores -> {Missing, Empty} \cup Values]
      /\ last' \in [Stores -> {Missing} \cup Values]
  BY DEF IInv, Typed
<1>2. DiskOK'
  BY DEF IInv, DiskOK
<1>3. ASSUME NEW q \in Procs \ {p}
      PROVE  /\ KeepsBases(q, job[q], todo[q], val[q], stale', last')
             /\ KeepsEdits(q, job[q], todo[q], stale', last')
  <2>1. /\ KeepsBases(q, job[q], todo[q], val[q], stale, last)
        /\ KeepsEdits(q, job[q], todo[q], stale, last)
    BY DEF IInv, Sound
  <2>2. \A f \in {"solutions", "errors", "project"} : <<q, f>> \in stale => <<q, f>> \in stale'
    BY DEF Stores
  <2>3. last' = last
    OBVIOUS
  <2>4. KeepsBases(q, job[q], todo[q], val[q], stale', last')
    BY <2>1, <2>2, <2>3 DEF KeepsBases
  <2>5. KeepsEdits(q, job[q], todo[q], stale', last')
    BY <2>1, <2>2, <2>3 DEF KeepsEdits
  <2> QED BY <2>4, <2>5
<1> QED BY <1>1, <1>2, <1>3, OneStep

\* A process whose next operation takes nothing for granted.
LEMMA PlainHead ==
  ASSUME NEW u, u # <<>> => u[1][1] \in {"load", "look", "begin", "offer", "check"}
  PROVE  /\ \A v : Fits(u, v)
         /\ ~InCheck(u) /\ \A f : ~AboutTo(u, f)
<1>1. CASE u = <<>>
  BY <1>1 DEF Fits, InCheck, NoBase, AboutTo
<1>2. CASE u # <<>>
  <2>1. PICK x : x = u[1]
    OBVIOUS
  <2>2. x[1] \notin {"truncate", "write", "compare", "search", "summarize", "return"}
    BY <1>2, <2>1
  <2>3. \A f : u[1] \notin {<<"truncate", f>>, <<"write", f>>}
    BY <2>1, <2>2
  <2> QED BY <2>1, <2>2, <2>3 DEF Fits, InCheck, NoBase, AboutTo
<1> QED BY <1>1, <1>2

\* What is known of a process that has an operation to do.
LEMMA Held ==
  ASSUME IInv, NEW p \in Procs, NEW t, t = todo[p], t # <<>>
  PROVE  /\ job[p] \in Jobs /\ val[p] \in Values /\ since[p] \in [Files -> SUBSET (0..MaxEdits)]
         /\ t \in Seq(Ops) /\ Tail(t) \in Seq(Ops) /\ Head(t) = t[1] /\ t[1] \in Ops
         /\ Allowed(t[1], job[p].kind) /\ Proper(t, job[p].kind) /\ Proper(Tail(t), job[p].kind)
         /\ Tail(t) # <<>> => Follows(t[1], Tail(t)[1])
         /\ t[1][1] \in {"load", "truncate"} => Tail(t) # <<>>
         /\ \A i \in 1..Len(Tail(t)) : Later(t[1], Tail(t)[i])
         /\ \A x : HasOp(t, x) <=> t[1] = x \/ HasOp(Tail(t), x)
         /\ \A v : Has(t, v) <=> t[1][1] = v \/ Has(Tail(t), v)
         /\ up /\ job[p].kind \in Kinds /\ (job[p].kind \in ItemKinds => job[p].arg # {})
         /\ Fits(t, val[p]) /\ Seen(t, val[p], since[p], ws)
         /\ KeepsBases(p, job[p], t, val[p], stale, last)
         /\ KeepsEdits(p, job[p], t, stale, last)
<1>1. Sound(p, job[p], t, val[p], since[p])
  BY DEF IInv
<1>2. Proper(t, job[p].kind)
  BY <1>1 DEF Sound
<1>3. /\ Head(t) = t[1] /\ t[1] \in Ops /\ Allowed(t[1], job[p].kind)
      /\ Proper(Tail(t), job[p].kind)
      /\ Tail(t) # <<>> => Follows(t[1], Tail(t)[1])
      /\ t[1][1] \in {"load", "truncate"} => Tail(t) # <<>>
      /\ \A i \in 1..Len(Tail(t)) : Later(t[1], Tail(t)[i])
      /\ \A x : HasOp(t, x) <=> t[1] = x \/ HasOp(Tail(t), x)
      /\ \A v : Has(t, v) <=> t[1][1] = v \/ Has(Tail(t), v)
  BY <1>2, TailProper
<1>4. t \in Seq(Ops) /\ Tail(t) \in Seq(Ops)
  BY <1>2, <1>3 DEF Proper, Chain
<1>5. job[p] \in Jobs /\ val[p] \in Values /\ since[p] \in [Files -> SUBSET (0..MaxEdits)]
  BY DEF IInv, Typed, Jobs
<1>6. /\ up /\ job[p].kind \in Kinds /\ (job[p].kind \in ItemKinds => job[p].arg # {})
      /\ Fits(t, val[p]) /\ Seen(t, val[p], since[p], ws)
      /\ KeepsBases(p, job[p], t, val[p], stale, last)
      /\ KeepsEdits(p, job[p], t, stale, last)
  BY <1>1 DEF Sound, Busy
<1> QED BY <1>2, <1>3, <1>4, <1>5, <1>6

\* A step after which the process takes nothing for granted.
LEMMA PlainStep ==
  ASSUME IInv, NEW p \in Procs, todo[p] # <<>>, NEW steps, NEW j, j = job[p], NEW v \in Values,
         Proper(steps, j.kind),
         steps # <<>> => steps[1][1] \in {"load", "look", "begin", "offer", "check"},
         Go(p, steps, j, v),
         UNCHANGED <<up, disk, ws, since, last, retired, left>>,
         \A q \in Procs \ {p}, f \in Stores : <<q, f>> \in stale => <<q, f>> \in stale',
         KeepsEdits(p, j, steps, stale', last')
  PROVE  IInv'
<1>1. PICK t : t = todo[p]
  OBVIOUS
<1>2. PICK s : s = since[p]
  OBVIOUS
<1>3. /\ job[p] \in Jobs /\ up /\ job[p].kind \in Kinds
      /\ job[p].kind \in ItemKinds => job[p].arg # {}
  BY <1>1, Held
<1>4. (\A w : Fits(steps, w)) /\ ~InCheck(steps) /\ \A f : ~AboutTo(steps, f)
  BY PlainHead
<1>5. since' \in [Procs -> [Files -> SUBSET (0..MaxEdits)]] /\ steps \in Seq(Ops)
  BY DEF IInv, Typed, Proper, Chain
<1>6. Sound(p, j, steps, v, s)'
  <2>1. Busy(j, steps)'
    BY <1>3 DEF Busy
  <2>2. Seen(steps, v, s, ws)'
    BY <1>4 DEF Seen
  <2>3. KeepsBases(p, j, steps, v, stale, last)'
    BY <1>4 DEF KeepsBases, NoBase
  <2> QED BY <1>4, <2>1, <2>2, <2>3 DEF Sound
<1> QED BY <1>2, <1>3, <1>5, <1>6, QuietStep

\* Any operation but the look leaves what a dashboard knows of the project memory.
LEMMA StillKnows ==
  ASSUME IInv, NEW p \in Procs, NEW t, t = todo[p], t # <<>>, NEW j, j = job[p], NEW u,
         ~Has(u, "look") => ~Has(t, "look"),
         last'["project"] = last["project"],
         <<p, "project">> \in stale => <<p, "project">> \in stale'
  PROVE  KeepsEdits(p, j, u, stale', last')
<1>1. KeepsEdits(p, job[p], t, stale, last)
  BY Held
<1> QED BY <1>1 DEF KeepsEdits

LEMMA CheckKeeps == ASSUME IInv, NEW p \in Procs, Check(p) PROVE IInv'
<1>1. PICK t : t = todo[p]
  OBVIOUS
<1>2. PICK u : u = Tail(t)
  OBVIOUS
<1>3. t # <<>> /\ Head(t)[1] = "check" /\ UNCHANGED <<up, disk, ws, stale, since, last, retired, left>>
  BY <1>1 DEF Check, At
<1>4. PICK j : j = job[p]
  OBVIOUS
<1>5. PICK v : v = val[p]
  OBVIOUS
<1>6. /\ v \in Values /\ Proper(u, j.kind) /\ t[1][1] = "check"
      /\ u # <<>> => Follows(t[1], u[1])
      /\ Has(t, "look") => Has(u, "look")
  BY <1>1, <1>2, <1>3, <1>4, <1>5, Held
<1>7. PICK steps \in {u, <<>>} : Go(p, steps, j, v)
  BY <1>1, <1>2, <1>4, <1>5 DEF Check, Continue, Take, Rest
<1>8. Proper(steps, j.kind) /\ (steps # <<>> => steps[1][1] = "load")
  BY <1>6, NothingLeft DEF Follows
<1>9. KeepsEdits(p, j, steps, stale', last')
  <2>1. KeepsEdits(p, j, u, stale', last')
    BY <1>1, <1>3, <1>4, <1>6, StillKnows
  <2> QED BY <2>1 DEF KeepsEdits
<1> QED BY <1>1, <1>3, <1>4, <1>6, <1>7, <1>8, <1>9, PlainStep

LEMMA TextsDiffer ==
  /\ Template # User /\ Profile # User /\ Template # Empty /\ Template # Missing
  /\ {Template, Profile, User, Mixed} = Contents("project")
  /\ Profile \in Values /\ Nothing \in Values
<1>1. Template # User /\ Profile # User
  BY DEF Template, User, Profile, Text
<1>2. Template # Empty /\ Template # Missing
  <2>1. Template[1] = "text" /\ Empty[1] = "empty" /\ Missing[1] = "missing"
    BY DEF Template, Text, Empty, Missing
  <2> QED BY <2>1
<1>3. {Template, Profile, User, Mixed} = Contents("project")
  BY DEF Contents
<1>4. Profile \in Values /\ Nothing \in Values
  BY <1>3 DEF Values
<1> QED BY <1>1, <1>2, <1>3, <1>4

LEMMA LookKeeps == ASSUME IInv, NEW p \in Procs, Look(p) PROVE IInv'
<1>1. PICK t : t = todo[p]
  OBVIOUS
<1>2. PICK u : u = Tail(t)
  OBVIOUS
<1>3. /\ t # <<>> /\ Head(t)[1] = "look" /\ stale' = stale \ {<<p, "project">>}
      /\ UNCHANGED <<up, disk, ws, since, last, retired, left>>
  BY <1>1 DEF Look, At
<1>4. PICK j : j = job[p]
  OBVIOUS
<1>5. PICK v : v = val[p]
  OBVIOUS
<1>6. /\ v \in Values /\ Proper(u, j.kind) /\ t[1][1] = "look"
      /\ u # <<>> => Follows(t[1], u[1])
  BY <1>1, <1>2, <1>3, <1>4, <1>5, Held
<1>7. PICK steps : /\ steps = IF disk["project"] = Template THEN u ELSE <<>>
                   /\ Go(p, steps, j, v)
  BY <1>1, <1>2, <1>4, <1>5 DEF Look, Continue, Take, Rest
<1>8. Proper(steps, j.kind) /\ (steps # <<>> => steps[1][1] = "begin")
  BY <1>6, <1>7, NothingLeft DEF Follows
<1>9. KeepsEdits(p, j, steps, stale', last')
  <2>1. CASE disk["project"] = Template
    <3>1. disk["project"] \in {Empty, last["project"]}
      BY DEF IInv, DiskOK, Stores
    <3>2. last'["project"] # User
      BY <1>3, <2>1, <3>1, TextsDiffer
    <3> QED BY <3>2 DEF KeepsEdits
  <2>2. CASE disk["project"] # Template
    BY <1>7, <2>2 DEF KeepsEdits
  <2> QED BY <2>1, <2>2
<1>10. \A q \in Procs \ {p}, f \in Stores : <<q, f>> \in stale => <<q, f>> \in stale'
  BY <1>3
<1> QED BY <1>1, <1>3, <1>4, <1>6, <1>7, <1>8, <1>9, <1>10, PlainStep

\* A job that changes nothing goes on behind the write.
LEMMA AfterWrite ==
  ASSUME IInv, NEW p \in Procs, NEW t, t = todo[p], t # <<>>, NEW f, t[1] = <<"load", f>>
  PROVE  LET u == After(p, 3)
         IN  /\ Proper(u, job[p].kind)
             /\ u # <<>> => u[1][1] \in {"load", "look"}
             /\ Has(t, "look") => Has(u, "look")
<1>1. PICK a : a = Tail(t)
  OBVIOUS
<1>2. PICK b : b = Tail(a)
  OBVIOUS
<1>3. PICK c : c = Tail(b)
  OBVIOUS
<1>4. PICK k : k = job[p].kind
  OBVIOUS
<1>5. /\ Proper(t, k) /\ Proper(a, k) /\ a # <<>> /\ Follows(t[1], a[1])
      /\ \A i \in 1..Len(a) : Later(t[1], a[i])
      /\ \A v : Has(t, v) <=> t[1][1] = v \/ Has(a, v)
  <2>1. t[1][1] = "load"
    OBVIOUS
  <2>2. /\ Proper(t, k) /\ Proper(a, k)
        /\ a # <<>> => Follows(t[1], a[1])
        /\ t[1][1] \in {"load", "truncate"} => a # <<>>
        /\ \A i \in 1..Len(a) : Later(t[1], a[i])
        /\ \A v : Has(t, v) <=> t[1][1] = v \/ Has(a, v)
    BY <1>1, <1>4, Held
  <2> QED BY <2>1, <2>2
<1>6. a[1] = <<"truncate", f>> /\ a[1][1] = "truncate"
  BY <1>5 DEF Follows
<1>7. /\ Proper(b, k) /\ b # <<>> /\ Follows(a[1], b[1])
      /\ \A v : Has(a, v) <=> a[1][1] = v \/ Has(b, v)
  BY <1>2, <1>5, <1>6, TailProper
<1>8. b[1] = <<"write", f>> /\ b[1][1] = "write" /\ b[1][2] = f
  BY <1>6, <1>7 DEF Follows
<1>9. /\ Proper(c, k)
      /\ c # <<>> => Follows(b[1], c[1])
      /\ \A v : Has(b, v) <=> b[1][1] = v \/ Has(c, v)
  BY <1>3, <1>7, TailProper
<1>10. c = After(p, 3)
  <2>1. t \in Seq(Ops) /\ Len(t) \in Nat
    BY <1>5 DEF Proper, Chain
  <2>2. a = SubSeq(t, 2, Len(t))
    BY <1>1, <2>1, TailIsSubSeq
  <2>3. /\ Len(a) = Len(t) - 1 /\ a \in Seq(Ops)
        /\ \A i \in 1..Len(a) : a[i] = t[i + 1]
    BY <1>1, <2>1, HeadTailProperties
  <2>4. /\ Len(b) = Len(a) - 1 /\ b \in Seq(Ops)
        /\ \A i \in 1..Len(b) : b[i] = a[i + 1]
    BY <1>2, <1>5, <2>3, HeadTailProperties
  <2>5. /\ Len(c) = Len(b) - 1 /\ c \in Seq(Ops)
        /\ \A i \in 1..Len(c) : c[i] = b[i + 1]
    BY <1>3, <1>7, <2>4, HeadTailProperties
  <2>6. Len(t) >= 3
    <3>1. Len(b) # 0 /\ Len(b) \in Nat
      BY <1>7, <2>4
    <3>2. Len(c) \in Nat
      BY <2>5
    <3> QED BY <2>1, <2>3, <2>4, <2>5, <3>1, <3>2
  <2>7. PICK d : d = SubSeq(t, 4, Len(t))
    OBVIOUS
  <2>8. /\ d \in Seq(Ops) /\ Len(d) = Len(t) - 3
        /\ \A i \in 1..Len(d) : d[i] = t[i + 3]
    BY <2>1, <2>6, <2>7
  <2>9. Len(c) = Len(d)
    BY <2>1, <2>3, <2>4, <2>5, <2>8
  <2>10. ASSUME NEW i \in 1..Len(c)
         PROVE  c[i] = d[i]
    <3>1. /\ c[i] = b[i + 1] /\ i + 1 \in 1..Len(b)
          /\ b[i + 1] = a[(i + 1) + 1] /\ (i + 1) + 1 \in 1..Len(a)
          /\ a[(i + 1) + 1] = t[((i + 1) + 1) + 1]
      BY <2>1, <2>3, <2>4, <2>5
    <3>2. i \in 1..Len(d) /\ d[i] = t[i + 3] /\ i + 3 = ((i + 1) + 1) + 1
      BY <2>1, <2>8, <2>9
    <3> QED BY <3>1, <3>2
  <2>11. c = d
    BY <2>5, <2>8, <2>9, <2>10, SeqEqual
  <2> QED BY <2>7, <2>11 DEF After
<1>11. ASSUME c # <<>>
       PROVE  c[1][1] \in {"load", "look"}
  <2>1. c[1][1] \in {"load", "look"} \/ (c[1][1] = "return" /\ f = "index")
    BY <1>8, <1>9, <1>11 DEF Follows
  <2>2. ASSUME c[1][1] = "return", f = "index"
        PROVE  FALSE
    <3>1. c \in Seq(Ops) /\ 1 \in 1..Len(c)
      BY <1>9, <1>11 DEF Proper, Chain
    <3>2. Has(a, "return")
      BY <1>7, <1>9, <2>2, <3>1 DEF Has
    <3>3. PICK i \in 1..Len(a) : a[i][1] = "return"
      BY <3>2 DEF Has
    <3>4. Later(t[1], a[i]) /\ t[1] = <<"load", "index">>
      BY <1>5, <2>2
    <3> QED BY <3>3, <3>4 DEF Later
  <2> QED BY <2>1, <2>2
<1>12. Has(t, "look") => Has(c, "look")
  BY <1>5, <1>6, <1>7, <1>8, <1>9
<1> QED BY <1>4, <1>9, <1>10, <1>11, <1>12

\* What a base file and the index hold.
LEMMA BaseContents ==
  ASSUME NEW f \in {"solutions", "errors"}
  PROVE  /\ Contents(f) = {Base(kb) : kb \in Bases} /\ Contents(f) \subseteq Values
         /\ \A c \in Contents(f) : c[2] \in Bases /\ c = Base(c[2])
         /\ \A kb \in Bases : Base(kb) \in Contents(f) /\ Base(kb)[2] = kb
<1>1. Contents(f) = {Base(kb) : kb \in Bases} /\ Contents("solutions") = {Base(kb) : kb \in Bases}
  BY DEF Contents
<1>2. \A kb : Base(kb)[2] = kb
  BY DEF Base
<1>3. Contents(f) \subseteq Values
  BY <1>1 DEF Values
<1> QED BY <1>1, <1>2, <1>3

LEMMA BaseWhole == Missing \notin Contents("solutions")
<1>1. Missing[1] = "missing" /\ \A kb : Base(kb)[1] = "base"
  BY DEF Missing, Base
<1>2. \A kb : Base(kb) # Missing
  BY <1>1
<1> QED BY <1>2 DEF Contents

LEMMA IndexContents ==
  /\ Contents("index") = {Index(i) : i \in [Files -> 0..MaxEdits]}
  /\ Contents("index") \subseteq Values
  /\ \A c \in Contents("index") : c[2] \in [Files -> 0..MaxEdits] /\ c = Index(c[2])
  /\ \A i \in [Files -> 0..MaxEdits] : Index(i) \in Contents("index") /\ Index(i)[2] = i
<1>1. Contents("index") = {Index(i) : i \in [Files -> 0..MaxEdits]}
  BY DEF Contents
<1>2. \A i : Index(i)[2] = i
  BY DEF Index
<1>3. Contents("index") \subseteq Values
  BY DEF Values
<1> QED BY <1>1, <1>2, <1>3

\* A base that can be read is the last one written, or an empty one.
LEMMA ReadBase ==
  ASSUME IInv, LimitAssumption, NEW f \in {"solutions", "errors"}, ~ReadFails(f)
  PROVE  /\ ReadValue(f) \in Bases
         /\ last[f] # Missing => ReadValue(f) = last[f][2]
<1>1. f \in Stores /\ f # "project" /\ f # "index"
  BY DEF Stores
<1>2. disk[f] = last[f] /\ last[f] \in {Missing} \cup Contents(f)
  BY <1>1 DEF IInv, DiskOK, ReadFails
<1>3. CASE last[f] = Missing
  <2>1. ReadValue(f) = <<>>
    BY <1>1, <1>2, <1>3 DEF ReadValue, Nothing
  <2>2. 0 \in 0..MaxItems /\ <<>> \in [1..0 -> Item]
    BY DEF LimitAssumption
  <2>3. <<>> \in Bases
    <3>1. PICK e : e = <<>>
      OBVIOUS
    <3>2. PICK n : n = 0
      OBVIOUS
    <3>3. /\ n \in 0..MaxItems /\ e \in [1..n -> Item]
          /\ \A i, k \in 1..n : e[i].id = e[k].id => i = k
      BY <2>2, <3>1, <3>2
    <3>4. e \in Bases
      BY <3>3, BasesAre
    <3> QED BY <3>1, <3>4
  <2> QED BY <1>3, <2>1, <2>3
<1>4. CASE last[f] # Missing
  <2>1. last[f] \in Contents(f) /\ ReadValue(f) = last[f][2]
    BY <1>2, <1>4 DEF ReadValue
  <2> QED BY <2>1, BaseContents
<1> QED BY <1>3, <1>4

LEMMA ReadIndex ==
  ASSUME IInv, BoundAssumption, ~ReadFails("index")
  PROVE  ReadValue("index") \in [Files -> 0..MaxEdits]
<1>1. disk["index"] \in {Missing} \cup Contents("index")
  BY DEF IInv, DiskOK, ReadFails, Stores
<1>2. NoIndex \in [Files -> 0..MaxEdits]
  BY DEF NoIndex, BoundAssumption
<1>3. CASE disk["index"] = Missing
  BY <1>2, <1>3 DEF ReadValue
<1>4. CASE disk["index"] # Missing
  <2>1. disk["index"] \in Contents("index") /\ ReadValue("index") = disk["index"][2]
    BY <1>1, <1>4 DEF ReadValue
  <2> QED BY <2>1, IndexContents
<1> QED BY <1>3, <1>4

LEMMA EmptyIndex ==
  ASSUME BoundAssumption
  PROVE  /\ Index(NoIndex) \in Contents("index") /\ Index(NoIndex) \in Values
         /\ \A w \in Files : Index(NoIndex)[2][w] = 0
<1>1. NoIndex \in [Files -> 0..MaxEdits] /\ \A w \in Files : NoIndex[w] = 0
  BY DEF NoIndex, BoundAssumption
<1> QED BY <1>1, IndexContents DEF Index

LEMMA LoadBaseKeeps == ASSUME IInv, Constants, NEW p \in Procs, LoadBase(p) PROVE IInv'
<1>1. PICK t : t = todo[p]
  OBVIOUS
<1>2. PICK u : u = Tail(t)
  OBVIOUS
<1>3. PICK f : f = File(p)
  OBVIOUS
<1>4. /\ t # <<>> /\ Head(t)[1] = "load" /\ Head(t)[2] = f /\ f \in {"solutions", "errors"}
      /\ stale' = stale \ {<<p, f>>}
      /\ UNCHANGED <<up, disk, ws, since, last, retired, left>>
  BY <1>1, <1>3 DEF LoadBase, At, File
<1>5. PICK j : j = job[p]
  OBVIOUS
<1>6. PICK v : v = val[p]
  OBVIOUS
<1>7. PICK s : s = since[p]
  OBVIOUS
<1>8. /\ j \in Jobs /\ v \in Values /\ t[1] \in Ops /\ Head(t) = t[1]
      /\ Allowed(t[1], j.kind) /\ Proper(u, j.kind)
      /\ u # <<>> => Follows(t[1], u[1])
      /\ t[1][1] \in {"load", "truncate"} => u # <<>>
      /\ Has(t, "look") <=> t[1][1] = "look" \/ Has(u, "look")
      /\ up /\ j.kind \in Kinds /\ (j.kind \in ItemKinds => j.arg # {})
  BY <1>1, <1>2, <1>4, <1>5, <1>6, Held
<1>9. t[1] = <<"load", f>>
  BY <1>4, <1>8 DEF Ops
<1>10. \A q \in Procs \ {p}, g \in Stores : <<q, g>> \in stale => <<q, g>> \in stale'
  BY <1>4
<1>11. <<p, "project">> \in stale => <<p, "project">> \in stale'
  BY <1>4
<1>12. PICK new : new = IF ReadFails(f) THEN Nothing ELSE Changed(p, f, ReadValue(f))
  OBVIOUS
<1>13. IF new = Nothing THEN Continue(p, After(p, 3)) ELSE Take(p, Rest(p), Base(new))
  BY <1>3, <1>12 DEF LoadBase
<1>14. CASE new = Nothing
  <2>1. PICK c : c = After(p, 3)
    OBVIOUS
  <2>2. /\ Proper(c, j.kind) /\ (c # <<>> => c[1][1] \in {"load", "look"})
        /\ Has(t, "look") => Has(c, "look")
    BY <1>1, <1>4, <1>5, <1>9, <2>1, AfterWrite
  <2>3. Go(p, c, j, v)
    BY <1>5, <1>6, <1>13, <1>14, <2>1 DEF Continue, Take
  <2>4. KeepsEdits(p, j, c, stale', last')
    BY <1>1, <1>4, <1>5, <1>11, <2>2, StillKnows
  <2> QED BY <1>1, <1>4, <1>5, <1>8, <1>10, <2>2, <2>3, <2>4, PlainStep
<1>15. CASE new # Nothing
  <2>1. new = Changed(p, f, ReadValue(f)) /\ ~ReadFails(f)
    BY <1>12, <1>15
  <2>2. ReadValue(f) \in Bases /\ (last[f] # Missing => ReadValue(f) = last[f][2])
    BY <1>4, <2>1, ReadBase DEF Constants
  <2>3. /\ j.kind \in ItemKinds \cup {"prompt"} /\ j.arg \subseteq Items
    BY <1>4, <1>8, <1>9 DEF Allowed, Jobs
  <2>4. new \in Bases /\ Keeps(ReadValue(f), new) /\ Revives(j, ReadValue(f), new)
    BY <1>5, <1>8, <1>15, <2>1, <2>2, <2>3, ChangedBase DEF Constants
  <2>5. PICK c : c = Base(new)
    OBVIOUS
  <2>6. c \in Contents(f) /\ c[2] = new /\ c \in Values
    BY <1>4, <2>4, <2>5, BaseContents
  <2>7. Go(p, u, j, c)
    BY <1>1, <1>2, <1>5, <1>13, <1>15, <2>5 DEF Take, Rest
  <2>8. /\ u # <<>> /\ u[1] = <<"truncate", f>> /\ u[1][1] = "truncate" /\ u[1][2] = f
    BY <1>8, <1>9 DEF Follows
  <2>9. Sound(p, j, u, c, s)'
    <3>1. Busy(j, u)'
      BY <1>4, <1>8 DEF Busy
    <3>2. Fits(u, c)
      BY <2>6, <2>8 DEF Fits
    <3>3. ~InCheck(u)
      BY <1>4, <2>8 DEF InCheck
    <3>4. Seen(u, c, s, ws)'
      BY <3>3 DEF Seen
    <3>5. KeepsBases(p, j, u, c, stale, last)'
      <4>1. \A g : AboutTo(u, g) => g = f
        BY <2>8 DEF AboutTo
      <4>2. last[f] # Missing => Revives(j, last[f][2], c[2]) /\ Keeps(last[f][2], c[2])
        BY <2>2, <2>4, <2>6
      <4> QED BY <1>4, <4>1, <4>2 DEF KeepsBases
    <3>6. KeepsEdits(p, j, u, stale', last')
      BY <1>1, <1>4, <1>5, <1>8, <1>9, <1>11, StillKnows
    <3> QED BY <1>8, <3>1, <3>2, <3>4, <3>5, <3>6 DEF Sound
  <2>10. u \in Seq(Ops) /\ since' \in [Procs -> [Files -> SUBSET (0..MaxEdits)]]
    BY <1>4, <1>8 DEF Proper, Chain, IInv, Typed
  <2> QED BY <1>4, <1>7, <1>8, <1>10, <2>6, <2>7, <2>9, <2>10, QuietStep
<1> QED BY <1>14, <1>15

LEMMA LoadIndexKeeps == ASSUME IInv, Constants, NEW p \in Procs, LoadIndex(p) PROVE IInv'
<1>1. PICK t : t = todo[p]
  OBVIOUS
<1>2. PICK u : u = Tail(t)
  OBVIOUS
<1>3. /\ t # <<>> /\ Head(t)[1] = "load" /\ Head(t)[2] = "index"
      /\ stale' = stale \ {<<p, "index">>}
      /\ UNCHANGED <<up, disk, ws, since, last, retired, left>>
  BY <1>1 DEF LoadIndex, At, File
<1>4. PICK j : j = job[p]
  OBVIOUS
<1>5. PICK v : v = val[p]
  OBVIOUS
<1>6. PICK s : s = since[p]
  OBVIOUS
<1>7. /\ j \in Jobs /\ v \in Values /\ t[1] \in Ops /\ Head(t) = t[1]
      /\ Proper(u, j.kind)
      /\ u # <<>> => Follows(t[1], u[1])
      /\ t[1][1] \in {"load", "truncate"} => u # <<>>
      /\ \A i \in 1..Len(u) : Later(t[1], u[i])
      /\ Has(t, "look") <=> t[1][1] = "look" \/ Has(u, "look")
      /\ up /\ j.kind \in Kinds /\ (j.kind \in ItemKinds => j.arg # {})
  BY <1>1, <1>2, <1>3, <1>4, <1>5, Held
<1>8. t[1] = <<"load", "index">>
  BY <1>3, <1>7 DEF Ops
<1>9. \A q \in Procs \ {p}, g \in Stores : <<q, g>> \in stale => <<q, g>> \in stale'
  BY <1>3
<1>10. <<p, "project">> \in stale => <<p, "project">> \in stale'
  BY <1>3
<1>11. PICK c : c = After(p, 3)
  OBVIOUS
<1>12. \/ Go(p, c, j, v)
       \/ ~ReadFails("index") /\ Go(p, u, j, Index(ReadValue("index")))
  BY <1>1, <1>2, <1>4, <1>5, <1>11 DEF LoadIndex, Continue, Take, Rest
<1>13. CASE Go(p, c, j, v)
  <2>1. /\ Proper(c, j.kind) /\ (c # <<>> => c[1][1] \in {"load", "look"})
        /\ Has(t, "look") => Has(c, "look")
    BY <1>1, <1>3, <1>4, <1>8, <1>11, AfterWrite
  <2>2. KeepsEdits(p, j, c, stale', last')
    BY <1>1, <1>3, <1>4, <1>10, <2>1, StillKnows
  <2> QED BY <1>1, <1>3, <1>4, <1>7, <1>9, <1>13, <2>1, <2>2, PlainStep
<1>14. CASE ~ReadFails("index") /\ Go(p, u, j, Index(ReadValue("index")))
  <2>1. PICK w : w = Index(ReadValue("index"))
    OBVIOUS
  <2>2. w \in Contents("index") /\ w \in Values
    BY <1>14, <2>1, ReadIndex, IndexContents DEF Constants
  <2>3. /\ u # <<>> /\ u[1] = <<"truncate", "index">> /\ u[1][1] = "truncate" /\ u[1][2] = "index"
    BY <1>7, <1>8 DEF Follows
  <2>4. ~Has(u, "return")
    BY <1>7, <1>8 DEF Has, Later
  <2>5. Sound(p, j, u, w, s)'
    <3>1. Busy(j, u)'
      BY <1>3, <1>7 DEF Busy
    <3>2. Fits(u, w)
      BY <2>2, <2>3 DEF Fits
    <3>3. Seen(u, w, s, ws)'
      BY <2>3, <2>4 DEF Seen, InCheck
    <3>4. KeepsBases(p, j, u, w, stale, last)'
      BY <2>3 DEF KeepsBases, AboutTo
    <3>5. KeepsEdits(p, j, u, stale', last')
      BY <1>1, <1>3, <1>4, <1>7, <1>8, <1>10, StillKnows
    <3> QED BY <1>7, <3>1, <3>2, <3>3, <3>4, <3>5 DEF Sound
  <2>6. u \in Seq(Ops) /\ since' \in [Procs -> [Files -> SUBSET (0..MaxEdits)]]
    BY <1>3, <1>7 DEF Proper, Chain, IInv, Typed
  <2> QED BY <1>3, <1>6, <1>7, <1>9, <1>14, <2>1, <2>2, <2>5, <2>6, QuietStep
<1> QED BY <1>12, <1>13, <1>14

LEMMA OfferKeeps == ASSUME IInv, Constants, NEW p \in Procs, Offer(p) PROVE IInv'
<1>1. PICK t : t = todo[p]
  OBVIOUS
<1>2. /\ t # <<>> /\ Head(t)[1] = "offer"
      /\ UNCHANGED <<up, disk, ws, stale, since, last, retired, left>>
  BY <1>1 DEF Offer, At
<1>3. PICK s : s = since[p]
  OBVIOUS
<1>4. /\ job[p] \in Jobs /\ t[1][1] = "offer" /\ Allowed(t[1], job[p].kind)
      /\ up /\ job[p].kind \in Kinds
  BY <1>1, <1>2, Held
<1>5. job[p].kind = "prompt"
  BY <1>4 DEF Allowed
<1>6. PICK kb : kb = IF ReadFails("solutions") THEN <<>> ELSE ReadValue("solutions")
  OBVIOUS
<1>7. PICK indexed : indexed = {w \in Files : val[p] # Nothing /\ val[p][2][w] > 0}
  OBVIOUS
<1>8. PICK offered \in SUBSET Found(kb), selected \in SUBSET indexed :
        Go(p, (IF offered = {} THEN <<>> ELSE Update("solutions"))
                \o (IF selected = {} THEN <<>> ELSE Update("index")),
              [job[p] EXCEPT !.arg = offered, !.other = selected], Nothing)
  BY <1>6, <1>7 DEF Offer
<1>9. Found(kb) \subseteq Items
  <2>1. CASE ReadFails("solutions")
    BY <1>6, <2>1 DEF Found, Ids
  <2>2. CASE ~ReadFails("solutions")
    <3>1. kb \in Bases
      BY <1>6, <2>2, ReadBase DEF Constants
    <3>2. \A i \in DOMAIN kb : kb[i].id \in Items
      BY <3>1, BaseSeq DEF Constants, Item
    <3> QED BY <3>2 DEF Found, Ids
  <2> QED BY <2>1, <2>2
<1>10. PICK j : j = [job[p] EXCEPT !.arg = offered, !.other = selected]
  OBVIOUS
<1>11. j \in Jobs /\ j.kind = "prompt"
  <2>1. offered \in SUBSET Items /\ selected \in SUBSET (Items \cup Files)
    BY <1>7, <1>8, <1>9
  <2> QED BY <1>4, <1>5, <1>10, <2>1 DEF Jobs
<1>12. PICK a : a = IF offered = {} THEN <<>> ELSE Update("solutions")
  OBVIOUS
<1>13. PICK b : b = IF selected = {} THEN <<>> ELSE Update("index")
  OBVIOUS
<1>14. PICK c : c = a \o b
  OBVIOUS
<1>15. Go(p, c, j, Nothing)
  BY <1>8, <1>10, <1>12, <1>13, <1>14
<1>16. Allowed(<<"load", "solutions">>, "prompt") /\ Allowed(<<"load", "index">>, "prompt")
  BY DEF Allowed, OpTyped, Stores
<1>17. /\ Chain(Update("solutions"), "prompt") /\ Update("solutions") # <<>>
       /\ Update("solutions")[1] = <<"load", "solutions">>
  BY <1>16, UpdateChain DEF Stores
<1>18. /\ Chain(Update("index"), "prompt") /\ Update("index") # <<>>
       /\ Update("index")[1] = <<"load", "index">>
  BY <1>16, UpdateChain DEF Stores
<1>19. Chain(c, "prompt") /\ (c # <<>> => c[1][1] = "load")
  <2>1. CASE offered = {} /\ selected = {}
    <3>1. c = <<>>
      BY <1>12, <1>13, <1>14, <2>1
    <3> QED BY <3>1, NothingLeft DEF Proper
  <2>2. CASE offered = {} /\ selected # {}
    <3>1. PICK z : z = Update("index")
      OBVIOUS
    <3>2. z \in Seq(Ops)
      BY <1>18, <3>1 DEF Chain
    <3>3. c = z
      BY <1>12, <1>13, <1>14, <2>2, <3>1, <3>2, ConcatEmptySeq
    <3> QED BY <1>18, <3>1, <3>3
  <2>3. CASE offered # {} /\ selected = {}
    <3>1. PICK z : z = Update("solutions")
      OBVIOUS
    <3>2. z \in Seq(Ops)
      BY <1>17, <3>1 DEF Chain
    <3>3. c = z
      BY <1>12, <1>13, <1>14, <2>3, <3>1, <3>2, ConcatEmptySeq
    <3> QED BY <1>17, <3>1, <3>3
  <2>4. CASE offered # {} /\ selected # {}
    <3>1. c = Update("solutions") \o Update("index")
      BY <1>12, <1>13, <1>14, <2>4
    <3>2. Chain(c, "prompt") /\ c # <<>> /\ c[1] = <<"load", "solutions">>
      BY <1>16, <3>1, TwoUpdates
    <3> QED BY <3>2
  <2> QED BY <2>1, <2>2, <2>3, <2>4
<1>20. Proper(c, j.kind) /\ c \in Seq(Ops)
  BY <1>11, <1>19 DEF Proper, Ends, Chain
<1>21. (\A w : Fits(c, w)) /\ ~InCheck(c) /\ \A f : ~AboutTo(c, f)
  BY <1>19, PlainHead
<1>22. Sound(p, j, c, Nothing, s)'
  <2>1. Busy(j, c)'
    BY <1>2, <1>4, <1>5, <1>11 DEF Busy, ItemKinds
  <2>2. Seen(c, Nothing, s, ws)'
    BY <1>21 DEF Seen
  <2>3. KeepsBases(p, j, c, Nothing, stale, last)'
    BY <1>21 DEF KeepsBases, NoBase
  <2>4. KeepsEdits(p, j, c, stale, last)'
    BY <1>11 DEF KeepsEdits
  <2> QED BY <1>20, <1>21, <2>1, <2>2, <2>3, <2>4 DEF Sound
<1>23. since' \in [Procs -> [Files -> SUBSET (0..MaxEdits)]]
  BY <1>2 DEF IInv, Typed
<1> QED BY <1>2, <1>3, <1>11, <1>15, <1>20, <1>22, <1>23, TextsDiffer, QuietStep

\* The beginning of the check, and every later step of it, needs no second look.
LEMMA NoLookAfter ==
  ASSUME IInv, NEW p \in Procs, NEW t, t = todo[p], t # <<>>,
         t[1][1] \notin {"load", "truncate", "write", "look"}
  PROVE  ~Has(t, "look")
<1>1. /\ \A i \in 1..Len(Tail(t)) : Later(t[1], Tail(t)[i])
      /\ Has(t, "look") <=> t[1][1] = "look" \/ Has(Tail(t), "look")
  BY Held
<1>2. ~Has(Tail(t), "look")
  BY <1>1 DEF Has, Later
<1> QED BY <1>1, <1>2

LEMMA BeginFreshKeeps == ASSUME IInv, Constants, NEW p \in Procs, BeginFresh(p) PROVE IInv'
<1>1. PICK t : t = todo[p]
  OBVIOUS
<1>2. PICK u : u = Tail(t)
  OBVIOUS
<1>3. PICK s : s = [w \in Files |-> IF ReadFails("index") THEN {} ELSE {ws[w]}]
  OBVIOUS
<1>4. /\ t # <<>> /\ Head(t)[1] = "begin" /\ since' = [since EXCEPT ![p] = s]
      /\ UNCHANGED <<up, disk, ws, stale, last, retired, left>>
  BY <1>1, <1>3 DEF BeginFresh, At
<1>5. PICK j : j = job[p]
  OBVIOUS
<1>6. PICK k : k = j.kind
  OBVIOUS
<1>7. /\ j \in Jobs /\ t[1][1] = "begin" /\ Allowed(t[1], k) /\ Proper(u, k) /\ u \in Seq(Ops)
      /\ u # <<>> => Follows(t[1], u[1])
      /\ up /\ k \in Kinds /\ (k \in ItemKinds => j.arg # {})
  BY <1>1, <1>2, <1>4, <1>5, <1>6, Held
<1>8. k \in FreshKinds
  BY <1>7 DEF Allowed
<1>9. ws \in [Files -> 0..MaxEdits]
  BY DEF IInv, Typed
<1>10. s \in [Files -> SUBSET (0..MaxEdits)]
  BY <1>3, <1>9
<1>11. /\ since' \in [Procs -> [Files -> SUBSET (0..MaxEdits)]] /\ since'[p] = s
       /\ \A q \in Procs \ {p} : since'[q] = since[q]
  BY <1>4, <1>10 DEF IInv, Typed
<1>12. \A c : KeepsEdits(p, j, c, stale', last')
  BY <1>1, <1>4, <1>5, <1>7, NoLookAfter, StillKnows
<1>13. ASSUME NEW c, NEW v \in Values, Go(p, c, j, v), Proper(c, k), Fits(c, v),
              NoBase(c), Seen(c, v, s, ws')
       PROVE  IInv'
  <2>1. c \in Seq(Ops)
    BY <1>13 DEF Proper, Chain
  <2>2. Busy(j, c)'
    BY <1>4, <1>6, <1>7 DEF Busy
  <2>3. KeepsBases(p, j, c, v, stale, last)'
    BY <1>13 DEF KeepsBases, NoBase
  <2>4. Sound(p, j, c, v, s)'
    BY <1>6, <1>12, <1>13, <2>2, <2>3 DEF Sound
  <2> QED BY <1>4, <1>7, <1>11, <1>13, <2>1, <2>4, QuietStep
<1>14. CASE ReadFails("index")
  <2>1. PICK c : c = IF k = "mark" THEN <<>> ELSE AfterFresh(k)
    OBVIOUS
  <2>2. PICK v : v = IF k = "prompt" THEN Nothing ELSE Profile
    OBVIOUS
  <2>3. Go(p, c, j, v)
    BY <1>5, <1>6, <1>14, <2>1, <2>2 DEF BeginFresh, Take
  <2>4. Proper(c, k)
    BY <1>8, <2>1, AfterChain, NothingLeft
  <2>5. ASSUME c # <<>>
        PROVE  \/ c[1] = <<"truncate", "project">> /\ k \in {"dashboard", "blank"}
               \/ c[1][1] \in {"load", "offer"}
    BY <1>8, <2>1, <2>5, AfterChain
  <2>6. v \in Values
    BY <2>2, TextsDiffer
  <2>7. CASE c = <<>> \/ c[1][1] \in {"load", "offer"}
    <3>1. Fits(c, v) /\ ~InCheck(c) /\ NoBase(c)
      BY <2>7, PlainHead DEF NoBase
    <3>2. Seen(c, v, s, ws')
      BY <3>1 DEF Seen
    <3> QED BY <1>13, <2>3, <2>4, <2>6, <3>1, <3>2
  <2>8. CASE c # <<>> /\ c[1] = <<"truncate", "project">> /\ k \in {"dashboard", "blank"}
    <3>1. c[1][1] = "truncate" /\ c[1][2] = "project" /\ v = Profile
      BY <2>2, <2>8
    <3>2. Fits(c, v) /\ ~InCheck(c) /\ NoBase(c)
      BY <2>8, <3>1, TextsDiffer DEF Fits, InCheck, NoBase, AboutTo
    <3>3. Seen(c, v, s, ws')
      BY <3>2 DEF Seen
    <3> QED BY <1>13, <2>3, <2>4, <2>6, <3>2, <3>3
  <2> QED BY <2>5, <2>7, <2>8
<1>15. CASE ~ReadFails("index")
  <2>1. PICK v : v = Index(ReadValue("index"))
    OBVIOUS
  <2>2. v \in Contents("index") /\ v \in Values
    BY <1>15, <2>1, ReadIndex, IndexContents DEF Constants
  <2>3. \A w \in Files : ws'[w] \in s[w]
    BY <1>3, <1>4, <1>15
  <2>4. CASE disk["index"] = Missing
    <3>1. PICK c : c = Rebuilt(k)
      OBVIOUS
    <3>2. Go(p, c, j, v)
      BY <1>5, <1>6, <1>15, <2>1, <2>4, <3>1 DEF BeginFresh, Take
    <3>3. /\ Proper(c, k) /\ c # <<>>
          /\ c[1][1] = "summarize" \/ c[1] = <<"truncate", "index">>
          /\ \A w \in Files : HasOp(c, <<"summarize", w>>)
      BY <1>8, <3>1, RebuiltChain DEF Constants
    <3>4. /\ c[1][1] \in {"summarize", "truncate"}
          /\ c[1][1] = "truncate" => c[1][2] = "index"
      BY <3>3
    <3>5. Fits(c, v) /\ NoBase(c)
      BY <2>2, <3>4 DEF Fits, NoBase, AboutTo
    <3>6. Seen(c, v, s, ws')
      <4>1. v[2] = NoIndex
        BY <2>1, <2>4 DEF ReadValue, Index
      <4>2. \A w \in Files : v[2][w] = 0
        BY <4>1 DEF NoIndex
      <4> QED BY <2>3, <3>3, <3>4, <4>2 DEF Seen
    <3> QED BY <1>13, <2>2, <3>2, <3>3, <3>5, <3>6
  <2>5. CASE disk["index"] # Missing
    <3>1. Go(p, u, j, v)
      BY <1>1, <1>2, <1>5, <1>15, <2>1, <2>5 DEF BeginFresh, Take, Rest
    <3>2. u # <<>> => u[1][1] = "compare"
      BY <1>7 DEF Follows
    <3>3. Fits(u, v) /\ NoBase(u)
      BY <2>2, <3>2 DEF Fits, NoBase, AboutTo
    <3>4. Seen(u, v, s, ws')
      BY <2>3, <3>2 DEF Seen, InCheck
    <3> QED BY <1>7, <1>13, <2>2, <3>1, <3>3, <3>4
  <2> QED BY <2>4, <2>5
<1> QED BY <1>14, <1>15

\* A step of the check, or of a rebuilding: only what the process holds and knows
\* of the files changes.
LEMMA HoldStepSince ==
  ASSUME IInv, NEW p \in Procs, NEW t, t = todo[p], t # <<>>, NEW j, j = job[p],
         NEW c, NEW v \in Values, Go(p, c, j, v), Proper(c, j.kind), Fits(c, v),
         NoBase(c), ~Has(c, "look") => ~Has(t, "look"),
         NEW s, Seen(c, v, s, ws),
         since' \in [Procs -> [Files -> SUBSET (0..MaxEdits)]], since'[p] = s,
         \A q \in Procs \ {p} : since'[q] = since[q],
         UNCHANGED <<up, disk, ws, stale, last, retired, left>>
  PROVE  IInv'
<1>1. /\ j \in Jobs /\ up /\ j.kind \in Kinds /\ (j.kind \in ItemKinds => j.arg # {})
  BY Held
<1>2. c \in Seq(Ops)
  BY DEF Proper, Chain
<1>3. Busy(j, c)'
  BY <1>1 DEF Busy
<1>4. KeepsBases(p, j, c, v, stale, last)'
  BY DEF KeepsBases, NoBase
<1>5. KeepsEdits(p, j, c, stale', last')
  <2>1. last'["project"] = last["project"] /\ stale' = stale
    OBVIOUS
  <2> QED BY <2>1, StillKnows
<1>6. Seen(c, v, s, ws')
  OBVIOUS
<1>7. Sound(p, j, c, v, s)'
  BY <1>3, <1>4, <1>5, <1>6 DEF Sound
<1> QED BY <1>1, <1>2, <1>7, QuietStep

LEMMA HoldStep ==
  ASSUME IInv, NEW p \in Procs, NEW t, t = todo[p], t # <<>>, NEW j, j = job[p],
         NEW c, NEW v \in Values, Go(p, c, j, v), Proper(c, j.kind), Fits(c, v),
         NoBase(c), ~Has(c, "look") => ~Has(t, "look"),
         Seen(c, v, since[p], ws),
         UNCHANGED <<up, disk, ws, stale, since, last, retired, left>>
  PROVE  IInv'
<1>1. PICK s : s = since[p]
  OBVIOUS
<1>2. /\ since' \in [Procs -> [Files -> SUBSET (0..MaxEdits)]] /\ since'[p] = s
      /\ \A q \in Procs \ {p} : since'[q] = since[q]
  BY <1>1 DEF IInv, Typed
<1> QED BY <1>1, <1>2, HoldStepSince

LEMMA CompareKeeps == ASSUME IInv, Constants, NEW p \in Procs, Compare(p) PROVE IInv'
<1>1. PICK t : t = todo[p]
  OBVIOUS
<1>2. PICK u : u = Tail(t)
  OBVIOUS
<1>3. PICK j : j = job[p]
  OBVIOUS
<1>4. PICK v : v = val[p]
  OBVIOUS
<1>5. PICK s : s = since[p]
  OBVIOUS
<1>6. /\ t # <<>> /\ Head(t)[1] = "compare"
      /\ UNCHANGED <<up, disk, ws, stale, since, last, retired, left>>
  BY <1>1 DEF Compare, At
<1>7. /\ v \in Values /\ t[1][1] = "compare" /\ Allowed(t[1], j.kind) /\ Proper(u, j.kind)
      /\ u # <<>> => Follows(t[1], u[1])
      /\ Fits(t, v) /\ Seen(t, v, s, ws)
  BY <1>1, <1>2, <1>3, <1>4, <1>5, <1>6, Held
<1>8. j.kind \in FreshKinds /\ v \in Contents("index")
  BY <1>6, <1>7 DEF Allowed, Fits
<1>9. ~Has(t, "look")
  BY <1>1, <1>6, <1>7, NoLookAfter
<1>10. \A w \in Files : ws[w] \in s[w]
  BY <1>6, <1>7 DEF Seen, InCheck
<1>11. \/ Go(p, Rebuilt(j.kind), j, Index(NoIndex))
       \/ /\ \A w \in Files : v[2][w] \in {0, ws[w]}
          /\ Go(p, u, j, v)
  BY <1>1, <1>2, <1>3, <1>4 DEF Compare, Continue, Take, Rest
<1>12. CASE Go(p, Rebuilt(j.kind), j, Index(NoIndex))
  <2>1. PICK c : c = Rebuilt(j.kind)
    OBVIOUS
  <2>2. /\ Proper(c, j.kind) /\ c # <<>>
        /\ c[1][1] = "summarize" \/ c[1] = <<"truncate", "index">>
        /\ \A w \in Files : HasOp(c, <<"summarize", w>>)
    BY <1>8, <2>1, RebuiltChain DEF Constants
  <2>3. /\ c[1][1] \in {"summarize", "truncate"}
        /\ c[1][1] = "truncate" => c[1][2] = "index"
    BY <2>2
  <2>4. PICK n : n = Index(NoIndex)
    OBVIOUS
  <2>5. n \in Contents("index") /\ n \in Values /\ \A w \in Files : n[2][w] = 0
    BY <2>4, EmptyIndex DEF Constants
  <2>6. Fits(c, n) /\ NoBase(c)
    BY <2>3, <2>5 DEF Fits, NoBase, AboutTo
  <2>7. Seen(c, n, s, ws)
    BY <1>10, <2>2, <2>3, <2>5 DEF Seen
  <2> QED BY <1>1, <1>3, <1>5, <1>6, <1>7, <1>9, <1>12, <2>1, <2>2, <2>4, <2>5, <2>6, <2>7, HoldStep
<1>13. CASE (\A w \in Files : v[2][w] \in {0, ws[w]}) /\ Go(p, u, j, v)
  <2>1. u # <<>> => u[1][1] = "search"
    BY <1>7 DEF Follows
  <2>2. Fits(u, v) /\ NoBase(u)
    BY <1>8, <2>1 DEF Fits, NoBase, AboutTo
  <2>3. Seen(u, v, s, ws)
    BY <1>10, <1>13, <2>1 DEF Seen, InCheck
  <2> QED BY <1>1, <1>3, <1>5, <1>6, <1>7, <1>9, <1>13, <2>2, <2>3, HoldStep
<1> QED BY <1>11, <1>12, <1>13

LEMMA SearchKeeps == ASSUME IInv, Constants, NEW p \in Procs, Search(p) PROVE IInv'
<1>1. PICK t : t = todo[p]
  OBVIOUS
<1>2. PICK j : j = job[p]
  OBVIOUS
<1>3. PICK v : v = val[p]
  OBVIOUS
<1>4. PICK s : s = since[p]
  OBVIOUS
<1>5. /\ t # <<>> /\ Head(t)[1] = "search"
      /\ UNCHANGED <<up, disk, ws, stale, since, last, retired, left>>
  BY <1>1 DEF Search, At
<1>6. /\ v \in Values /\ t[1][1] = "search" /\ Allowed(t[1], j.kind)
      /\ Fits(t, v) /\ Seen(t, v, s, ws)
  BY <1>1, <1>2, <1>3, <1>4, <1>5, Held
<1>7. j.kind \in FreshKinds /\ v \in Contents("index")
  BY <1>5, <1>6 DEF Allowed, Fits
<1>8. ~Has(t, "look")
  BY <1>1, <1>5, <1>6, NoLookAfter
<1>9. \A w \in Files : ws[w] \in s[w] /\ v[2][w] \in {0} \cup s[w]
  BY <1>5, <1>6 DEF Seen, InCheck
<1>10. \/ Go(p, Rebuilt(j.kind), j, Index(NoIndex))
       \/ FoundAll(p) /\ Go(p, Returned(j.kind), j, v)
  BY <1>2, <1>3 DEF Search, Continue, Take
<1>11. CASE Go(p, Rebuilt(j.kind), j, Index(NoIndex))
  <2>1. PICK c : c = Rebuilt(j.kind)
    OBVIOUS
  <2>2. /\ Proper(c, j.kind) /\ c # <<>>
        /\ c[1][1] = "summarize" \/ c[1] = <<"truncate", "index">>
        /\ \A w \in Files : HasOp(c, <<"summarize", w>>)
    BY <1>7, <2>1, RebuiltChain DEF Constants
  <2>3. /\ c[1][1] \in {"summarize", "truncate"}
        /\ c[1][1] = "truncate" => c[1][2] = "index"
    BY <2>2
  <2>4. PICK n : n = Index(NoIndex)
    OBVIOUS
  <2>5. n \in Contents("index") /\ n \in Values /\ \A w \in Files : n[2][w] = 0
    BY <2>4, EmptyIndex DEF Constants
  <2>6. Fits(c, n) /\ NoBase(c)
    BY <2>3, <2>5 DEF Fits, NoBase, AboutTo
  <2>7. Seen(c, n, s, ws)
    BY <1>9, <2>2, <2>3, <2>5 DEF Seen
  <2> QED BY <1>1, <1>2, <1>4, <1>5, <1>6, <1>8, <1>11, <2>1, <2>2, <2>4, <2>5, <2>6, <2>7, HoldStep
<1>12. CASE FoundAll(p) /\ Go(p, Returned(j.kind), j, v)
  <2>1. PICK c : c = Returned(j.kind)
    OBVIOUS
  <2>2. Proper(c, j.kind) /\ c # <<>> /\ c[1] = <<"return", "index">> /\ c[1][1] = "return"
    BY <1>7, <2>1, ReturnedChain
  <2>3. Fits(c, v) /\ NoBase(c)
    BY <1>7, <2>2 DEF Fits, NoBase, AboutTo
  <2>4. ASSUME NEW w \in Files
        PROVE  v[2][w] \in s[w] \/ NoRoom(v[2], w)
    <3>1. v[2][w] \in 0..MaxEdits /\ ws[w] \in 0..MaxEdits
      BY <1>7, IndexContents DEF IInv, Typed
    <3>2. ~Full(v[2]) /\ ws[w] > 0 => v[2][w] > 0
      BY <1>3, <1>12 DEF FoundAll
    <3>3. CASE v[2][w] = 0
      <4>1. Full(v[2]) \/ ws[w] = 0
        BY <3>1, <3>2, <3>3
      <4> QED BY <1>9, <3>3, <4>1 DEF NoRoom
    <3>4. CASE v[2][w] # 0
      BY <1>9, <3>4
    <3> QED BY <3>3, <3>4
  <2>5. Seen(c, v, s, ws)
    BY <1>9, <2>2, <2>4 DEF Seen
  <2> QED BY <1>1, <1>2, <1>4, <1>5, <1>6, <1>8, <1>12, <2>1, <2>2, <2>3, <2>5, HoldStep
<1> QED BY <1>10, <1>11, <1>12

\* A rebuilding within a check goes on with it.
LEMMA ChecksOn ==
  ASSUME NEW t, NEW u, t # <<>>, t[1][1] = "summarize", InCheck(u),
         u # <<>> => u[1][1] = "summarize" \/ u[1] = <<"truncate", "index">>,
         \A x : Has(t, x) <=> t[1][1] = x \/ Has(u, x)
  PROVE  InCheck(t)
<1>1. u # <<>> /\ u[1][1] \in {"summarize", "truncate"} /\ Has(u, "return")
  BY DEF InCheck
<1> QED BY <1>1 DEF InCheck

LEMMA SummarizeKeeps == ASSUME IInv, Constants, NEW p \in Procs, Summarize(p) PROVE IInv'
<1>1. PICK t : t = todo[p]
  OBVIOUS
<1>2. PICK u : u = Tail(t)
  OBVIOUS
<1>3. PICK j : j = job[p]
  OBVIOUS
<1>4. PICK v : v = val[p]
  OBVIOUS
<1>5. PICK s : s = since[p]
  OBVIOUS
<1>6. PICK f : f = File(p)
  OBVIOUS
<1>7. /\ t # <<>> /\ Head(t)[1] = "summarize" /\ Head(t)[2] = f
      /\ UNCHANGED <<up, disk, ws, stale, last, retired, left>>
  BY <1>1, <1>6 DEF Summarize, At, File
<1>8. /\ v \in Values /\ Head(t) = t[1] /\ t[1] \in Ops /\ Allowed(t[1], j.kind)
      /\ Proper(u, j.kind) /\ s \in [Files -> SUBSET (0..MaxEdits)]
      /\ u # <<>> => Follows(t[1], u[1])
      /\ Fits(t, v) /\ Seen(t, v, s, ws)
      /\ \A x : HasOp(t, x) <=> t[1] = x \/ HasOp(u, x)
      /\ \A x : Has(t, x) <=> t[1][1] = x \/ Has(u, x)
  BY <1>1, <1>2, <1>3, <1>4, <1>5, <1>7, Held
<1>9. f \in Files /\ v \in Contents("index") /\ t[1] = <<"summarize", f>> /\ t[1][1] = "summarize"
  BY <1>7, <1>8 DEF Allowed, OpTyped, Fits, Ops
<1>10. v[2] \in [Files -> 0..MaxEdits] /\ ws[f] \in 0..MaxEdits
  BY <1>9, IndexContents DEF IInv, Typed
<1>11. /\ \A w \in Files \ {f} : HasOp(t, <<"summarize", w>>) => HasOp(u, <<"summarize", w>>)
       /\ Has(t, "look") => Has(u, "look")
       /\ u # <<>> => u[1][1] = "summarize" \/ u[1] = <<"truncate", "index">>
       /\ NoBase(u)
  <2>1. \A w \in Files \ {f} : <<"summarize", w>> # t[1]
    BY <1>9
  <2>2. u # <<>> => u[1][1] = "summarize" \/ u[1] = <<"truncate", "index">>
    BY <1>8, <1>9 DEF Follows
  <2>3. NoBase(u)
    BY <2>2 DEF NoBase, AboutTo
  <2> QED BY <1>8, <1>9, <2>1, <2>2, <2>3
\* What the file becomes is what the check asks for, whichever way it is taken.
<1>12. ASSUME NEW n \in Contents("index"), NEW r, \A w \in Files : s[w] \subseteq r[w],
              \A w \in Files \ {f} : n[2][w] = v[2][w] /\ (NoRoom(v[2], w) => NoRoom(n[2], w)),
              InCheck(u) => n[2][f] \in {0} \cup r[f] /\ (n[2][f] \in r[f] \/ NoRoom(n[2], f))
       PROVE  Fits(u, n) /\ Seen(u, n, r, ws)
  <2>1. Fits(u, n)
    BY <1>11, <1>12 DEF Fits
  <2>2. SUFFICES ASSUME InCheck(u)
                 PROVE  /\ \A w \in Files : ws[w] \in r[w] /\ n[2][w] \in {0} \cup r[w]
                        /\ \A w \in Files : \/ n[2][w] \in r[w] \/ HasOp(u, <<"summarize", w>>)
                                            \/ NoRoom(n[2], w)
    BY <2>1 DEF Seen
  <2>3. InCheck(t)
    BY <1>7, <1>8, <1>9, <1>11, <2>2, ChecksOn
  <2>4. \A w \in Files : /\ ws[w] \in s[w] /\ v[2][w] \in {0} \cup s[w]
                         /\ \/ v[2][w] \in s[w] \/ HasOp(t, <<"summarize", w>>)
                            \/ NoRoom(v[2], w)
    BY <1>8, <1>9, <2>3 DEF Seen
  <2>5. ASSUME NEW w \in Files
        PROVE  /\ ws[w] \in r[w] /\ n[2][w] \in {0} \cup r[w]
               /\ n[2][w] \in r[w] \/ HasOp(u, <<"summarize", w>>) \/ NoRoom(n[2], w)
    <3>1. CASE w = f
      BY <1>12, <2>2, <2>4, <3>1
    <3>2. CASE w # f
      BY <1>11, <1>12, <2>4, <3>2
    <3> QED BY <3>1, <3>2
  <2> QED BY <2>5
\* What the check knew of the file before.
<1>13. InCheck(u) => ws[f] \in s[f] /\ v[2][f] \in {0} \cup s[f]
  BY <1>7, <1>8, <1>9, <1>11, ChecksOn DEF Seen
<1>14. CASE /\ ws[f] = 0 \/ Full(v[2])
            /\ Go(p, u, j, v) /\ UNCHANGED since
  <2>1. InCheck(u) => v[2][f] \in {0} \cup s[f] /\ (v[2][f] \in s[f] \/ NoRoom(v[2], f))
    BY <1>13, <1>14 DEF NoRoom
  <2>2. \A w \in Files : s[w] \subseteq s[w]
    OBVIOUS
  <2>3. Fits(u, v) /\ Seen(u, v, s, ws)
    BY <1>9, <1>12, <2>1, <2>2
  <2> QED BY <1>1, <1>3, <1>5, <1>7, <1>8, <1>11, <1>14, <2>3, HoldStep
<1>15. CASE /\ Go(p, u, j, v)
            /\ since' = [since EXCEPT ![p][f] = IF @ = {} THEN {} ELSE @ \cup {0}]
  <2>1. PICK r : r = [s EXCEPT ![f] = IF @ = {} THEN {} ELSE @ \cup {0}]
    OBVIOUS
  <2>2. 0 \in 0..MaxEdits
    BY DEF Constants, BoundAssumption
  <2>3. /\ r \in [Files -> SUBSET (0..MaxEdits)] /\ \A w \in Files : s[w] \subseteq r[w]
        /\ s[f] # {} => 0 \in r[f]
    BY <1>8, <1>9, <2>1, <2>2
  <2>4. /\ since' \in [Procs -> [Files -> SUBSET (0..MaxEdits)]] /\ since'[p] = r
        /\ \A q \in Procs \ {p} : since'[q] = since[q]
    <3>1. since' = [since EXCEPT ![p] = r]
      BY <1>5, <1>15, <2>1
    <3> QED BY <2>3, <3>1 DEF IInv, Typed
  <2>5. InCheck(u) => v[2][f] \in {0} \cup r[f] /\ (v[2][f] \in r[f] \/ NoRoom(v[2], f))
    BY <1>9, <1>13, <2>3
  <2>6. Fits(u, v) /\ Seen(u, v, r, ws)
    BY <1>9, <1>12, <2>3, <2>5
  <2> QED BY <1>1, <1>3, <1>7, <1>8, <1>11, <1>15, <2>3, <2>4, <2>6, HoldStepSince
<1>16. CASE /\ ~Full(v[2]) /\ UNCHANGED since
            /\ Go(p, u, j, Index([v[2] EXCEPT ![f] = ws[f]]))
  <2>1. PICK i : i = [v[2] EXCEPT ![f] = ws[f]]
    OBVIOUS
  <2>2. i \in [Files -> 0..MaxEdits] /\ i[f] = ws[f] /\ \A w \in Files \ {f} : i[w] = v[2][w]
    BY <1>9, <1>10, <2>1
  <2>3. PICK n : n = Index(i)
    OBVIOUS
  <2>4. n \in Contents("index") /\ n \in Values /\ n[2] = i
    BY <2>2, <2>3, IndexContents
  <2>5. InCheck(u) => n[2][f] \in {0} \cup s[f] /\ (n[2][f] \in s[f] \/ NoRoom(n[2], f))
    BY <1>13, <2>2, <2>4
  <2>6. \A w \in Files \ {f} : n[2][w] = v[2][w] /\ (NoRoom(v[2], w) => NoRoom(n[2], w))
    BY <1>16, <2>2, <2>4 DEF NoRoom
  <2>7. \A w \in Files : s[w] \subseteq s[w]
    OBVIOUS
  <2>8. Fits(u, n) /\ Seen(u, n, s, ws)
    BY <1>12, <2>4, <2>5, <2>6, <2>7
  <2>9. Go(p, u, j, n)
    BY <1>16, <2>1, <2>3
  <2> QED BY <1>1, <1>3, <1>5, <1>7, <1>8, <1>11, <1>16, <2>4, <2>8, <2>9, HoldStep
<1>17. \/ (ws[f] = 0 \/ Full(v[2])) /\ Go(p, u, j, v) /\ UNCHANGED since
       \/ /\ Go(p, u, j, v)
          /\ since' = [since EXCEPT ![p][f] = IF @ = {} THEN {} ELSE @ \cup {0}]
       \/ /\ ~Full(v[2]) /\ UNCHANGED since
          /\ Go(p, u, j, Index([v[2] EXCEPT ![f] = ws[f]]))
  BY <1>1, <1>2, <1>3, <1>4, <1>6, Zenon DEF Summarize, Take, Continue, Rest
<1> QED BY <1>14, <1>15, <1>16, <1>17

LEMMA ReturnKeeps == ASSUME IInv, Constants, NEW p \in Procs, Return(p) PROVE IInv'
<1>1. PICK t : t = todo[p]
  OBVIOUS
<1>2. PICK u : u = Tail(t)
  OBVIOUS
<1>3. PICK j : j = job[p]
  OBVIOUS
<1>4. PICK s : s = [w \in Files |-> {}]
  OBVIOUS
<1>5. /\ t # <<>> /\ Head(t)[1] = "return" /\ since' = [since EXCEPT ![p] = s]
      /\ UNCHANGED <<up, disk, ws, stale, last, retired, left>>
  BY <1>1, <1>4 DEF Return, At
<1>6. PICK v : v = IF j.kind \in {"dashboard", "blank"} THEN Profile ELSE val[p]
  OBVIOUS
<1>7. Go(p, u, j, v)
  BY <1>1, <1>2, <1>3, <1>6 DEF Return, Take, Rest
<1>8. /\ j \in Jobs /\ val[p] \in Values /\ t[1][1] = "return" /\ Allowed(t[1], j.kind)
      /\ Proper(u, j.kind) /\ u \in Seq(Ops)
      /\ u # <<>> => Follows(t[1], u[1])
      /\ Has(t, "look") <=> t[1][1] = "look" \/ Has(u, "look")
      /\ up /\ j.kind \in Kinds /\ (j.kind \in ItemKinds => j.arg # {})
  BY <1>1, <1>2, <1>3, <1>5, Held
<1>9. v \in Values
  BY <1>6, <1>8, TextsDiffer
<1>10. u # <<>> => u[1][1] \in {"load", "offer"} \/ u[1] = <<"truncate", "project">>
  BY <1>8 DEF Follows
<1>11. Fits(u, v) /\ ~InCheck(u) /\ NoBase(u)
  <2>1. CASE u = <<>> \/ u[1][1] \in {"load", "offer"}
    BY <2>1, PlainHead DEF NoBase
  <2>2. CASE u # <<>> /\ u[1] = <<"truncate", "project">>
    <3>1. Allowed(u[1], j.kind)
      <4>1. 1 \in 1..Len(u)
        BY <1>8, <2>2
      <4> QED BY <1>8, <4>1 DEF Proper, Chain
    <3>2. u[1][1] = "truncate" /\ u[1][2] = "project"
      BY <2>2
    <3>3. j.kind \in {"dashboard", "blank"}
      BY <1>8, <2>2, <3>1 DEF Allowed, FreshKinds
    <3>4. v \in Contents("project")
      BY <1>6, <3>3, TextsDiffer
    <3> QED BY <2>2, <3>2, <3>4 DEF Fits, InCheck, NoBase, AboutTo
  <2> QED BY <1>10, <2>1, <2>2
<1>12. /\ since' \in [Procs -> [Files -> SUBSET (0..MaxEdits)]] /\ since'[p] = s
       /\ \A q \in Procs \ {p} : since'[q] = since[q]
  BY <1>4, <1>5 DEF IInv, Typed
<1>13. Sound(p, j, u, v, s)'
  <2>1. Busy(j, u)'
    BY <1>5, <1>8 DEF Busy
  <2>2. Seen(u, v, s, ws)'
    BY <1>11 DEF Seen
  <2>3. KeepsBases(p, j, u, v, stale, last)'
    BY <1>11 DEF KeepsBases, NoBase
  <2>4. KeepsEdits(p, j, u, stale', last')
    BY <1>1, <1>3, <1>5, <1>8, StillKnows
  <2> QED BY <1>8, <1>11, <2>1, <2>2, <2>3, <2>4 DEF Sound
<1> QED BY <1>5, <1>7, <1>8, <1>9, <1>12, <1>13, QuietStep

\* While the index is truncated and written the check goes on.
LEMMA SeenOn ==
  ASSUME NEW t, NEW u, NEW v, NEW s, NEW now, Seen(t, v, s, now), t # <<>>,
         t[1][1] \in {"truncate", "write"},
         u # <<>> => \/ u[1][1] \in {"load", "look"}
                     \/ (u[1][1] \in {"write", "return"} /\ t[1][2] = u[1][2]),
         u # <<>> /\ u[1][1] = "return" => u[1][2] = "index",
         \A i \in {t[1], u[1]} : i \in Ops,
         \A x : HasOp(t, x) <=> t[1] = x \/ HasOp(u, x),
         u # <<>> => Has(u, u[1][1]),
         \A x : Has(u, x) => Has(t, x)
  PROVE  Seen(u, v, s, now)
<1>1. SUFFICES ASSUME InCheck(u)
               PROVE  /\ \A w \in Files : now[w] \in s[w]
                      /\ \A w \in Files : v[2][w] \in {0} \cup s[w]
                      /\ \A w \in Files : \/ v[2][w] \in s[w] \/ HasOp(u, <<"summarize", w>>)
                                          \/ NoRoom(v[2], w)
  BY DEF Seen
<1>2. u # <<>>
  BY <1>1 DEF InCheck
<1>3. /\ u[1][1] \in {"write", "return"} /\ t[1][2] = u[1][2] /\ u[1][2] = "index"
      /\ Has(u, "return")
  <2>1. u[1][1] \notin {"load", "look"}
    BY <1>1 DEF InCheck
  <2>2. u[1][1] \in {"write", "return"} /\ t[1][2] = u[1][2]
    BY <1>2, <2>1
  <2>3. CASE u[1][1] = "return"
    BY <1>2, <2>2, <2>3
  <2>4. CASE u[1][1] = "write"
    BY <1>1, <2>2, <2>4 DEF InCheck
  <2> QED BY <2>2, <2>3, <2>4
<1>4. t[1] \in {<<"truncate", "index">>, <<"write", "index">>}
  BY <1>3 DEF Ops
<1>5. InCheck(t)
  BY <1>3, <1>4 DEF InCheck
<1>6. /\ \A w \in Files : now[w] \in s[w]
      /\ \A w \in Files : v[2][w] \in {0} \cup s[w]
      /\ \A w \in Files : \/ v[2][w] \in s[w] \/ HasOp(t, <<"summarize", w>>)
                          \/ NoRoom(v[2], w)
  BY <1>5 DEF Seen
<1>7. \A w : t[1] # <<"summarize", w>>
  BY <1>4
<1> QED BY <1>3, <1>6, <1>7

LEMMA TruncateKeeps == ASSUME IInv, Constants, NEW p \in Procs, Truncate(p) PROVE IInv'
<1>1. PICK t : t = todo[p]
  OBVIOUS
<1>2. PICK u : u = Tail(t)
  OBVIOUS
<1>3. PICK j : j = job[p]
  OBVIOUS
<1>4. PICK v : v = val[p]
  OBVIOUS
<1>5. PICK s : s = since[p]
  OBVIOUS
<1>6. PICK f : f = File(p)
  OBVIOUS
<1>7. /\ t # <<>> /\ Head(t)[1] = "truncate" /\ Head(t)[2] = f
      /\ disk' = [disk EXCEPT ![f] = Empty]
      /\ UNCHANGED <<up, ws, stale, since, last, retired, left>>
  BY <1>1, <1>6 DEF Truncate, At, File
<1>8. Go(p, u, j, v)
  BY <1>1, <1>2, <1>3, <1>4 DEF Truncate, Continue, Take, Rest
<1>9. /\ j \in Jobs /\ v \in Values /\ Head(t) = t[1] /\ t[1] \in Ops /\ Allowed(t[1], j.kind)
      /\ Proper(u, j.kind) /\ u \in Seq(Ops)
      /\ u # <<>> => Follows(t[1], u[1])
      /\ t[1][1] \in {"load", "truncate"} => u # <<>>
      /\ \A x : HasOp(t, x) <=> t[1] = x \/ HasOp(u, x)
      /\ \A x : Has(t, x) <=> t[1][1] = x \/ Has(u, x)
      /\ up /\ j.kind \in Kinds /\ (j.kind \in ItemKinds => j.arg # {})
      /\ Fits(t, v) /\ Seen(t, v, s, ws) /\ KeepsBases(p, j, t, v, stale, last)
  BY <1>1, <1>2, <1>3, <1>4, <1>5, <1>7, Held
<1>10. /\ t[1] = <<"truncate", f>> /\ t[1][1] = "truncate" /\ t[1][2] = f /\ f \in Stores
       /\ u # <<>> /\ u[1] = <<"write", f>> /\ u[1][1] = "write" /\ u[1][2] = f
  <2>1. t[1][1] = "truncate" /\ t[1][2] = f /\ t[1] = <<"truncate", f>>
    BY <1>7, <1>9 DEF Ops
  <2>2. f \in Stores
    BY <1>9, <2>1 DEF Allowed, OpTyped
  <2>3. u # <<>> /\ u[1] = <<"write", f>>
    BY <1>9, <2>1 DEF Follows
  <2> QED BY <2>1, <2>2, <2>3
<1>11. /\ disk' \in [Stores -> {Missing, Empty} \cup Values] /\ DiskOK'
       /\ last' \in [Stores -> {Missing} \cup Values]
       /\ left' \in Spare
       /\ since' \in [Procs -> [Files -> SUBSET (0..MaxEdits)]]
  <2>1. DOMAIN disk = Stores
    BY DEF IInv, Typed
  <2>2. \A g \in Stores : disk'[g] = IF g = f THEN Empty ELSE disk[g]
    BY <1>7, <1>10, <2>1
  <2>3. DiskOK'
    BY <1>7, <2>2 DEF IInv, DiskOK
  <2>4. disk' \in [Stores -> {Missing, Empty} \cup Values]
    BY <1>7, <1>10 DEF IInv, Typed
  <2> QED BY <1>7, <2>3, <2>4 DEF IInv, Typed
<1>12. ASSUME NEW q \in Procs \ {p}
       PROVE  /\ KeepsBases(q, job[q], todo[q], val[q], stale', last')
              /\ KeepsEdits(q, job[q], todo[q], stale', last')
  BY <1>7 DEF IInv, Sound
<1>13. Sound(p, j, u, v, s)'
  <2>1. Busy(j, u)'
    BY <1>7, <1>9 DEF Busy
  <2>2. Fits(u, v)
    BY <1>7, <1>9, <1>10 DEF Fits
  <2>3. Seen(u, v, s, ws)
    <3>1. 1 \in 1..Len(u) /\ u[1] \in Ops
      BY <1>9, <1>10
    <3>2. Has(u, u[1][1])
      BY <3>1 DEF Has
    <3> QED BY <1>7, <1>9, <1>10, <3>1, <3>2, SeenOn
  <2>4. KeepsBases(p, j, u, v, stale, last)
    <3>1. AboutTo(t, f) /\ \A g : AboutTo(u, g) => g = f
      BY <1>7, <1>10 DEF AboutTo
    <3> QED BY <1>9, <3>1 DEF KeepsBases
  <2>5. KeepsEdits(p, j, u, stale', last')
    BY <1>1, <1>3, <1>7, <1>9, <1>10, StillKnows
  <2>6. Seen(u, v, s, ws)' /\ KeepsBases(p, j, u, v, stale, last)'
    <3>1. ws' = ws /\ stale' = stale /\ last' = last
      BY <1>7
    <3> QED BY <2>3, <2>4, <3>1
  <2> QED BY <1>9, <2>1, <2>2, <2>5, <2>6 DEF Sound
<1> QED BY <1>5, <1>7, <1>8, <1>9, <1>11, <1>12, <1>13, OneStep

\* A process about to write a file, or one that must write it in the end, has
\* that write in what it has left.
LEMMA WriteLeft ==
  ASSUME NEW t, NEW kind, Proper(t, kind), t # <<>>
  PROVE  /\ \A f : AboutTo(t, f) => <<"write", f>> \in Range(t)
         /\ kind = "dashboard" => LastOp \in Range(t)
<1>1. Chain(t, kind) /\ Ends(t, kind)
  BY DEF Proper
<1>2. t \in Seq(Ops) /\ Len(t) \in Nat /\ Len(t) >= 1 /\ DOMAIN t = 1..Len(t)
  BY <1>1 DEF Chain
<1>3. \A i \in 1..Len(t) : t[i] \in Range(t)
  BY <1>2 DEF Range
<1>4. 1 \in 1..Len(t) /\ Len(t) \in 1..Len(t)
  BY <1>2
<1>5. ASSUME NEW f, AboutTo(t, f)
      PROVE  <<"write", f>> \in Range(t)
  <2>1. CASE t[1] = <<"write", f>>
    BY <1>3, <1>4, <2>1
  <2>2. CASE t[1] = <<"truncate", f>>
    <3>1. t[1][1] = "truncate" /\ t[1][2] = f
      BY <2>2
    <3>2. 1 < Len(t)
      BY <1>1, <1>4, <3>1 DEF Chain
    <3>3. t[2] = <<"write", f>> /\ 2 \in 1..Len(t)
      BY <1>1, <1>2, <1>4, <3>1, <3>2 DEF Chain, Follows
    <3> QED BY <1>3, <3>3
  <2> QED BY <1>5, <2>1, <2>2 DEF AboutTo
<1>6. kind = "dashboard" => LastOp \in Range(t)
  BY <1>1, <1>3, <1>4 DEF Ends
<1> QED BY <1>5, <1>6

LEMMA WriteKeeps == ASSUME IInv, Constants, NEW p \in Procs, Write(p) PROVE IInv'
<1>1. PICK t : t = todo[p]
  OBVIOUS
<1>2. PICK u : u = Tail(t)
  OBVIOUS
<1>3. PICK j : j = job[p]
  OBVIOUS
<1>4. PICK v : v = val[p]
  OBVIOUS
<1>5. PICK s : s = since[p]
  OBVIOUS
<1>6. PICK f : f = File(p)
  OBVIOUS
<1>7. t # <<>> /\ Head(t)[1] = "write" /\ Head(t)[2] = f /\ UNCHANGED <<up, ws, since, left>>
  BY <1>1, <1>6 DEF Write, At, File
<1>8. Go(p, u, j, v)
  BY <1>1, <1>2, <1>3, <1>4 DEF Write, Continue, Take, Rest
<1>9. PICK content :
        /\ content = v \/ (f = "project" /\ content = Mixed)
        /\ disk' = [disk EXCEPT ![f] = content] /\ last' = [last EXCEPT ![f] = content]
        /\ retired' = IF f # "solutions" THEN retired
                      ELSE {x \in Items : \/ IsRetired(content[2], x)
                                          \/ x \in retired \ Ids(content[2])}
        /\ stale' = {x \in stale : x # <<p, f>>}
             \cup {<<q, f>> : q \in {r \in Procs \ {p} : <<"write", f>> \in Range(todo[r])}}
  BY <1>4, <1>6 DEF Write
<1>10. /\ j \in Jobs /\ v \in Values /\ Head(t) = t[1] /\ t[1] \in Ops /\ Allowed(t[1], j.kind)
       /\ Proper(u, j.kind) /\ u \in Seq(Ops)
       /\ u # <<>> => Follows(t[1], u[1])
       /\ \A x : HasOp(t, x) <=> t[1] = x \/ HasOp(u, x)
       /\ \A x : Has(t, x) <=> t[1][1] = x \/ Has(u, x)
       /\ up /\ j.kind \in Kinds /\ (j.kind \in ItemKinds => j.arg # {})
       /\ Fits(t, v) /\ Seen(t, v, s, ws)
  BY <1>1, <1>2, <1>3, <1>4, <1>5, <1>7, Held
<1>11. t[1] = <<"write", f>> /\ t[1][1] = "write" /\ t[1][2] = f /\ f \in Stores
  <2>1. t[1][1] = "write" /\ t[1][2] = f /\ t[1] = <<"write", f>>
    BY <1>7, <1>10 DEF Ops
  <2>2. f \in Stores
    BY <1>10, <2>1 DEF Allowed, OpTyped
  <2> QED BY <2>1, <2>2
<1>12. content \in Contents(f) /\ content \in Values
  <2>1. v \in Contents(f)
    BY <1>7, <1>10, <1>11 DEF Fits
  <2>2. f = "project" => Mixed \in Contents("project") /\ Mixed \in Values
    BY TextsDiffer DEF Values
  <2> QED BY <1>9, <1>10, <2>1, <2>2
<1>13. u # <<>> => /\ f # "project" /\ u[1] \in Ops /\ Allowed(u[1], j.kind)
                   /\ \/ u[1][1] \in {"load", "look"}
                      \/ u[1][1] = "return" /\ f = "index" /\ u[1][2] = "index"
                   /\ Has(u, u[1][1])
  <2> SUFFICES ASSUME u # <<>> PROVE
        /\ f # "project" /\ u[1] \in Ops /\ Allowed(u[1], j.kind)
        /\ \/ u[1][1] \in {"load", "look"}
           \/ u[1][1] = "return" /\ f = "index" /\ u[1][2] = "index"
        /\ Has(u, u[1][1])
    OBVIOUS
  <2>1. 1 \in 1..Len(u) /\ u[1] \in Ops
    BY <1>10
  <2>2. Allowed(u[1], j.kind) /\ Has(u, u[1][1])
    BY <1>10, <2>1 DEF Proper, Chain, Has
  <2>3. f # "project" /\ (u[1][1] \in {"load", "look"} \/ (u[1][1] = "return" /\ f = "index"))
    BY <1>10, <1>11 DEF Follows
  <2>4. u[1][1] = "return" => u[1][2] = "index"
    BY <2>2 DEF Allowed, OpTyped
  <2> QED BY <2>1, <2>2, <2>3, <2>4
<1>14. /\ disk' \in [Stores -> {Missing, Empty} \cup Values] /\ DiskOK'
       /\ last' \in [Stores -> {Missing} \cup Values]
       /\ left' \in Spare
       /\ since' \in [Procs -> [Files -> SUBSET (0..MaxEdits)]]
  <2>1. DOMAIN disk = Stores /\ DOMAIN last = Stores
    BY DEF IInv, Typed
  <2>2. \A g \in Stores : /\ disk'[g] = IF g = f THEN content ELSE disk[g]
                          /\ last'[g] = IF g = f THEN content ELSE last[g]
    BY <1>9, <1>11, <2>1
  <2>3. DiskOK'
    <3>1. ASSUME NEW g \in Stores
          PROVE  disk'[g] \in {Empty, last'[g]} /\ last'[g] \in {Missing} \cup Contents(g)
      BY <1>12, <2>2 DEF IInv, DiskOK
    <3>2. ASSUME NEW x \in retired'
          PROVE  /\ last'["solutions"] # Missing
                 /\ x \in Ids(last'["solutions"][2]) => IsRetired(last'["solutions"][2], x)
      <4>1. CASE f = "solutions"
        <5>1. last'["solutions"] = content /\ content # Missing
          BY <1>11, <1>12, <2>2, <4>1, BaseContents, BaseWhole
        <5>2. IsRetired(content[2], x) \/ x \notin Ids(content[2])
          BY <1>9, <3>2, <4>1
        <5> QED BY <5>1, <5>2
      <4>2. CASE f # "solutions"
        <5>1. last'["solutions"] = last["solutions"]
          BY <2>2, <4>2 DEF Stores
        <5>2. x \in retired
          BY <1>9, <3>2, <4>2
        <5> QED BY <5>1, <5>2 DEF IInv, DiskOK
      <4> QED BY <4>1, <4>2
    <3> QED BY <3>1, <3>2 DEF DiskOK
  <2>4. disk' \in [Stores -> {Missing, Empty} \cup Values]
    BY <1>9, <1>11, <1>12 DEF IInv, Typed
  <2>5. last' \in [Stores -> {Missing} \cup Values]
    BY <1>9, <1>11, <1>12 DEF IInv, Typed
  <2> QED BY <1>7, <2>3, <2>4, <2>5 DEF IInv, Typed
<1>15. \A g \in Stores \ {f} : /\ last'[g] = last[g]
                              /\ \A q : <<q, g>> \in stale => <<q, g>> \in stale'
  BY <1>9, <1>11 DEF IInv, Typed
<1>16. \A q \in Procs \ {p} : <<"write", f>> \in Range(todo[q]) => <<q, f>> \in stale'
  BY <1>9
<1>17. ASSUME NEW q \in Procs \ {p}
       PROVE  /\ KeepsBases(q, job[q], todo[q], val[q], stale', last')
              /\ KeepsEdits(q, job[q], todo[q], stale', last')
  <2>1. /\ Proper(todo[q], job[q].kind)
        /\ KeepsBases(q, job[q], todo[q], val[q], stale, last)
        /\ KeepsEdits(q, job[q], todo[q], stale, last)
    BY DEF IInv, Sound
  <2>2. KeepsBases(q, job[q], todo[q], val[q], stale', last')
    <3>1. AboutTo(todo[q], f) => <<q, f>> \in stale'
      BY <1>16, <2>1, WriteLeft DEF AboutTo
    <3>2. ASSUME NEW g \in {"solutions", "errors"}, g # f
          PROVE  last'[g] = last[g] /\ (<<q, g>> \in stale => <<q, g>> \in stale')
      BY <1>15, <3>2 DEF Stores
    <3> QED BY <2>1, <3>1, <3>2 DEF KeepsBases
  <2>3. KeepsEdits(q, job[q], todo[q], stale', last')
    <3>1. CASE f = "project"
      <4>1. todo[q] # <<>> /\ job[q].kind = "dashboard" => <<q, "project">> \in stale'
        BY <1>16, <2>1, <3>1, WriteLeft DEF LastOp
      <4> QED BY <4>1 DEF KeepsEdits
    <3>2. CASE f # "project"
      BY <1>15, <2>1, <3>2 DEF KeepsEdits, Stores
    <3> QED BY <3>1, <3>2
  <2> QED BY <2>2, <2>3
<1>18. ASSUME u # <<>>
       PROVE  Sound(p, j, u, v, s)'
  <2>1. Busy(j, u)'
    BY <1>7, <1>10 DEF Busy
  <2>2. Fits(u, v)
    <3>1. u[1][1] = "return" => v \in Contents("index")
      BY <1>7, <1>10, <1>11, <1>13, <1>18 DEF Fits
    <3>2. u[1][1] \in {"load", "look", "return"}
      BY <1>13, <1>18
    <3> QED BY <3>1, <3>2 DEF Fits
  <2>3. Seen(u, v, s, ws)
    <3>1. \/ u[1][1] \in {"load", "look"}
          \/ (u[1][1] \in {"write", "return"} /\ t[1][2] = u[1][2])
      BY <1>11, <1>13, <1>18
    <3>2. u[1][1] = "return" => u[1][2] = "index"
      BY <1>13, <1>18
    <3> QED BY <1>7, <1>10, <1>11, <1>13, <1>18, <3>1, <3>2, SeenOn
  <2>4. NoBase(u)
    <3>1. u[1][1] \notin {"truncate", "write"}
      BY <1>13, <1>18
    <3> QED BY <3>1 DEF NoBase, AboutTo
  <2>5. KeepsEdits(p, j, u, stale', last')
    <3>1. /\ last'["project"] = last["project"]
          /\ <<p, "project">> \in stale => <<p, "project">> \in stale'
      BY <1>13, <1>15, <1>18 DEF Stores
    <3> QED BY <1>1, <1>3, <1>7, <1>10, <1>11, <3>1, StillKnows
  <2>6. Seen(u, v, s, ws)' /\ KeepsBases(p, j, u, v, stale, last)'
    <3>1. ws' = ws
      BY <1>7
    <3>2. KeepsBases(p, j, u, v, stale, last)'
      BY <2>4 DEF KeepsBases, NoBase
    <3> QED BY <2>3, <3>1, <3>2
  <2> QED BY <1>10, <2>1, <2>2, <2>5, <2>6 DEF Sound
<1> QED BY <1>5, <1>7, <1>8, <1>10, <1>14, <1>17, <1>18, OneStep

-----------------------------------------------------------------------------
(* The beginning, the process and the workspace                              *)

\* A process that has nothing to do takes nothing for granted.
LEMMA Idle ==
  ASSUME NEW j, NEW v, NEW s, NEW now, NEW p, NEW old, NEW l
  PROVE  /\ Proper(<<>>, j.kind) /\ Fits(<<>>, v) /\ Seen(<<>>, v, s, now)
         /\ KeepsBases(p, j, <<>>, v, old, l) /\ KeepsEdits(p, j, <<>>, old, l)
BY NothingLeft DEF Fits, Seen, InCheck, KeepsBases, AboutTo, KeepsEdits

\* What an earlier process left.
LEMMA InitFiles ==
  ASSUME Init, Constants
  PROVE  /\ disk = [f \in Stores |-> disk[f]]
         /\ \A f \in Stores : disk[f] \in {Missing} \cup Contents(f)
         /\ \A s \in retired : disk["solutions"] # Missing /\ IsRetired(disk["solutions"][2], s)
<1>1. CASE disk = [f \in Stores |-> Missing] /\ retired = {}
  BY <1>1
<1>2. ASSUME NEW kb \in Before,
             disk = [f \in Stores |-> CASE f = "solutions" -> Base(kb)
                                        [] f = "project" -> Template
                                        [] OTHER -> Missing],
             retired = {s \in Items : IsRetired(kb, s)}
      PROVE  /\ disk = [f \in Stores |-> disk[f]]
             /\ \A f \in Stores : disk[f] \in {Missing} \cup Contents(f)
             /\ \A s \in retired : disk["solutions"] # Missing /\ IsRetired(disk["solutions"][2], s)
  <2>1. kb \in Bases
    BY DEF Constants, BeforeAssumption
  <2>2. Base(kb) \in Contents("solutions") /\ Base(kb)[2] = kb /\ Base(kb) # Missing
    BY <2>1, BaseContents, BaseWhole
  <2>3. Template \in Contents("project")
    BY TextsDiffer
  <2>4. /\ disk["solutions"] = Base(kb) /\ disk["project"] = Template
        /\ disk["errors"] = Missing /\ disk["index"] = Missing
    BY <1>2 DEF Stores
  <2>5. \A f \in Stores : disk[f] \in {Missing} \cup Contents(f)
    BY <2>2, <2>3, <2>4 DEF Stores
  <2>6. \A s \in retired : disk["solutions"] # Missing /\ IsRetired(disk["solutions"][2], s)
    BY <1>2, <2>2, <2>4
  <2>7. disk = [f \in Stores |-> disk[f]]
    BY <1>2
  <2> QED BY <2>5, <2>6, <2>7
<1> QED BY <1>1, <1>2 DEF Init

LEMMA InitHolds == ASSUME Init, Constants PROVE IInv
<1>1. Typed
  <2>1. NoJob \in Jobs /\ Nothing \in Values
    BY DEF NoJob, Jobs, Values
  <2>2. /\ job \in [Procs -> Jobs] /\ val \in [Procs -> Values] /\ todo \in [Procs -> Seq(Ops)]
    BY <2>1 DEF Init
  <2>3. /\ ws \in [Files -> 0..MaxEdits] /\ since \in [Procs -> [Files -> SUBSET (0..MaxEdits)]]
        /\ left \in Spare
    BY DEF Init, Constants, BoundAssumption, Spare
  <2>4. disk \in [Stores -> {Missing} \cup Values]
    <3>1. ASSUME NEW f \in Stores
          PROVE  disk[f] \in {Missing} \cup Values
      BY InitFiles DEF Values, Contents, Stores
    <3> QED BY <3>1, InitFiles
  <2>5. last = disk /\ up \in BOOLEAN
    BY DEF Init
  <2> QED BY <2>2, <2>3, <2>4, <2>5 DEF Typed, Jobs
<1>2. DiskOK
  <2>1. last = disk
    BY DEF Init
  <2> QED BY <2>1, InitFiles DEF DiskOK
<1>3. ASSUME NEW p \in Procs
      PROVE  Sound(p, job[p], todo[p], val[p], since[p])
  <2>1. todo[p] = <<>>
    BY DEF Init
  <2> QED BY <2>1, Idle DEF Sound, Busy
<1> QED BY <1>1, <1>2, <1>3 DEF IInv

\* When the process is down nothing is left to do.
LEMMA BootKeeps == ASSUME IInv, Boot PROVE IInv'
<1>1. /\ up' = TRUE /\ ~up
      /\ UNCHANGED <<ws, job, todo, val, stale, since, retired, left>>
  BY DEF Boot
<1>2. \/ /\ disk' = [disk EXCEPT !["project"] = Template]
         /\ last' = [last EXCEPT !["project"] = Template]
      \/ disk' = disk /\ last' = last
  BY DEF Boot
<1>3. Template \in Contents("project") /\ Template \in Values /\ "project" \in Stores
  BY TextsDiffer DEF Values, Stores
<1>4. /\ disk' \in [Stores -> {Missing, Empty} \cup Values]
      /\ last' \in [Stores -> {Missing} \cup Values]
  <2>1. disk \in [Stores -> {Missing, Empty} \cup Values] /\ last \in [Stores -> {Missing} \cup Values]
    BY DEF IInv, Typed
  <2> QED BY <1>2, <1>3, <2>1
<1>5. Typed'
  BY <1>1, <1>4 DEF IInv, Typed
<1>6. DiskOK'
  <2>1. DOMAIN disk = Stores /\ DOMAIN last = Stores
    BY DEF IInv, Typed
  <2>2. \A g \in Stores : \/ disk'[g] = disk[g] /\ last'[g] = last[g]
                          \/ g = "project" /\ disk'[g] = Template /\ last'[g] = Template
    BY <1>2, <2>1
  <2>3. last'["solutions"] = last["solutions"] /\ retired' = retired
    BY <1>1, <2>2 DEF Stores
  <2> QED BY <1>3, <2>2, <2>3 DEF IInv, DiskOK
<1>7. ASSUME NEW p \in Procs
      PROVE  Sound(p, job[p], todo[p], val[p], since[p])'
  <2>1. todo[p] = <<>> /\ todo'[p] = <<>>
    BY <1>1 DEF IInv, Sound, Busy
  <2> QED BY <2>1, NothingLeft
      DEF Sound, Busy, Fits, Seen, InCheck, KeepsBases, AboutTo, KeepsEdits
<1> QED BY <1>5, <1>6, <1>7 DEF IInv

LEMMA CrashKeeps == ASSUME IInv, Crash PROVE IInv'
<1>1. NoJob \in Jobs /\ Nothing \in Values
  BY DEF NoJob, Jobs, Values
<1>2. /\ job' \in [Procs -> Jobs] /\ val' \in [Procs -> Values] /\ todo' \in [Procs -> Seq(Ops)]
  BY <1>1 DEF Crash
<1>3. /\ since' \in [Procs -> [Files -> SUBSET (0..MaxEdits)]] /\ up' \in BOOLEAN
      /\ left' \in Spare
      /\ UNCHANGED <<disk, ws, last, retired>>
  <2>1. [w \in Files |-> {}] \in [Files -> SUBSET (0..MaxEdits)]
    OBVIOUS
  <2>2. since' \in [Procs -> [Files -> SUBSET (0..MaxEdits)]]
    BY <2>1 DEF Crash
  <2>3. left' \in Spare
    <3>1. left \in Spare
      BY DEF IInv, Typed
    <3>2. left.crashes > 0 /\ left' = [left EXCEPT !.crashes = @ - 1]
      BY DEF Crash
    <3> QED BY <3>1, <3>2 DEF Spare
  <2> QED BY <2>2, <2>3 DEF Crash, IInv, Typed
<1>4. Typed'
  BY <1>2, <1>3 DEF IInv, Typed, Jobs
<1>5. DiskOK'
  BY <1>3 DEF IInv, DiskOK
<1>6. ASSUME NEW p \in Procs
      PROVE  Sound(p, job[p], todo[p], val[p], since[p])'
  <2>1. todo'[p] = <<>>
    BY DEF Crash
  <2>2. Proper(<<>>, job'[p].kind)
    BY NothingLeft
  <2> QED BY <2>1, <2>2 DEF Sound, Busy, Fits, Seen, InCheck, KeepsBases, AboutTo, KeepsEdits
<1> QED BY <1>4, <1>5, <1>6 DEF IInv

\* Whoever checks the index sees the change as one of the versions of its time.
LEMMA EditKeeps == ASSUME IInv, Constants, NEW w \in Files, Edit(w) PROVE IInv'
<1>1. PICK v : /\ v \in {0, left.edits} /\ ws' = [ws EXCEPT ![w] = v]
               /\ since' = [p \in Procs |->
                              [since[p] EXCEPT ![w] = IF @ = {} THEN {} ELSE @ \cup {v}]]
  BY DEF Edit
<1>2. /\ left.edits > 0 /\ left' = [left EXCEPT !.edits = @ - 1]
      /\ UNCHANGED <<up, disk, job, todo, val, stale, last, retired>>
  BY DEF Edit
<1>3. v \in 0..MaxEdits /\ left' \in Spare
  <2>1. left \in Spare
    BY DEF IInv, Typed
  <2>2. left.edits \in 0..MaxEdits
    BY <2>1 DEF Spare
  <2>3. left.edits - 1 \in 0..MaxEdits /\ 0 \in 0..MaxEdits
    BY <1>2, <2>2 DEF Constants, BoundAssumption
  <2>4. left' \in Spare
    BY <1>2, <2>1, <2>3 DEF Spare
  <2> QED BY <1>1, <2>2, <2>3, <2>4
<1>4. ws' \in [Files -> 0..MaxEdits] /\ since' \in [Procs -> [Files -> SUBSET (0..MaxEdits)]]
  <2>1. ws' \in [Files -> 0..MaxEdits]
    BY <1>1, <1>3 DEF IInv, Typed
  <2>2. ASSUME NEW p \in Procs
        PROVE  [since[p] EXCEPT ![w] = IF @ = {} THEN {} ELSE @ \cup {v}]
                 \in [Files -> SUBSET (0..MaxEdits)]
    <3>1. since[p] \in [Files -> SUBSET (0..MaxEdits)]
      BY DEF IInv, Typed
    <3> QED BY <1>3, <3>1
  <2> QED BY <1>1, <2>1, <2>2
<1>5. Typed'
  BY <1>2, <1>3, <1>4 DEF IInv, Typed
<1>6. DiskOK'
  BY <1>2 DEF IInv, DiskOK
<1>7. ASSUME NEW p \in Procs
      PROVE  Sound(p, job[p], todo[p], val[p], since[p])'
  <2>1. PICK s : s = since[p]
    OBVIOUS
  <2>2. PICK n : n = since'[p]
    OBVIOUS
  <2>3. PICK t : t = todo[p]
    OBVIOUS
  <2>4. PICK c : c = val[p]
    OBVIOUS
  <2>5. /\ s \in [Files -> SUBSET (0..MaxEdits)] /\ ws \in [Files -> 0..MaxEdits]
        /\ Sound(p, job[p], t, c, s)
    BY <2>1, <2>3, <2>4 DEF IInv, Typed
  <2>6. \A x \in Files : /\ s[x] \subseteq n[x]
                         /\ x # w => ws'[x] = ws[x]
                         /\ x = w => ws'[x] = v /\ (s[x] # {} => v \in n[x])
    BY <1>1, <2>1, <2>2, <2>5
  <2>7. Seen(t, c, n, ws')
    <3> SUFFICES ASSUME InCheck(t)
                 PROVE  /\ \A x \in Files : ws'[x] \in n[x]
                        /\ t[1][1] # "compare" => \A x \in Files : c[2][x] \in {0} \cup n[x]
                        /\ t[1][1] \notin {"compare", "search"} =>
                             \A x \in Files : \/ c[2][x] \in n[x] \/ HasOp(t, <<"summarize", x>>)
                                              \/ NoRoom(c[2], x)
      BY DEF Seen
    <3>1. /\ \A x \in Files : ws[x] \in s[x]
          /\ t[1][1] # "compare" => \A x \in Files : c[2][x] \in {0} \cup s[x]
          /\ t[1][1] \notin {"compare", "search"} =>
               \A x \in Files : \/ c[2][x] \in s[x] \/ HasOp(t, <<"summarize", x>>)
                                \/ NoRoom(c[2], x)
      BY <2>5 DEF Sound, Seen
    <3>2. \A x \in Files : ws'[x] \in n[x]
      BY <2>6, <3>1
    <3> QED BY <2>6, <3>1, <3>2
  <2>8. todo'[p] = t /\ val'[p] = c /\ since'[p] = n /\ job'[p] = job[p]
    BY <1>2, <2>2, <2>3, <2>4
  <2>9. Busy(job[p], t)'
    BY <1>2, <2>5, <2>8 DEF Sound, Busy
  <2>10. Proper(t, job[p].kind)' /\ Fits(t, c)
    BY <1>2, <2>5, <2>8 DEF Sound
  <2>11. KeepsBases(p, job[p], t, c, stale, last)' /\ KeepsEdits(p, job[p], t, stale, last)'
    BY <1>2, <2>5, <2>8 DEF Sound
  <2>12. Sound(p, job[p], t, c, n)'
    BY <2>7, <2>8, <2>9, <2>10, <2>11 DEF Sound
  <2> QED BY <2>8, <2>12
<1> QED BY <1>5, <1>6, <1>7 DEF IInv

\* A job begins with its program, about the item of a request.
LEMMA BeginKeeps ==
  ASSUME IInv, Constants, NEW p \in Procs, NEW r \in Requests, Begin(p, r)
  PROVE  IInv'
<1>1. PICK u : u = Program(r.kind)
  OBVIOUS
<1>2. PICK v : v = CASE r.kind = "put" -> User [] r.kind = "rebuild" -> Index(NoIndex)
                     [] OTHER -> Nothing
  OBVIOUS
<1>3. PICK s : s = since[p]
  OBVIOUS
<1>4. /\ up /\ Go(p, u, r, v) /\ left.jobs > 0 /\ left' = [left EXCEPT !.jobs = @ - 1]
      /\ UNCHANGED <<up, disk, ws, stale, since, last, retired>>
  BY <1>1, <1>2 DEF Begin
<1>5. /\ r \in Jobs /\ r.kind \in Kinds
      /\ r.kind \in ItemKinds => r.arg # {}
  <2>1. \A S, x : x \in One(S) => x # {} /\ x \in SUBSET S
    BY DEF One
  <2>2. CASE r \in [kind : {"retire", "restore", "record", "failed", "dashboard"},
                    arg : One(Items), other : {{}}]
    BY <2>1, <2>2 DEF Jobs, Kinds
  <2>3. CASE r \in [kind : {"supersede"}, arg : One(Items), other : One(Items)]
    BY <2>1, <2>3 DEF Jobs, Kinds
  <2>4. CASE r \in [kind : {"mark"}, arg : {{}}, other : One(Files)]
    BY <2>1, <2>4 DEF Jobs, ItemKinds, Kinds
  <2>5. CASE r \in [kind : {"prompt", "rebuild", "put", "blank"}, arg : {{}}, other : {{}}]
    BY <2>1, <2>5 DEF Jobs, ItemKinds, Kinds
  <2> QED BY <2>2, <2>3, <2>4, <2>5 DEF Requests
<1>6. /\ Proper(u, r.kind) /\ u # <<>>
      /\ \/ u[1][1] \in {"load", "check", "begin"}
         \/ /\ r.kind = "rebuild" /\ ~Has(u, "return")
            /\ u[1][1] = "summarize" \/ u[1] = <<"truncate", "index">>
         \/ r.kind = "put" /\ u[1] = <<"truncate", "project">>
      /\ r.kind = "dashboard" => Has(u, "look")
  BY <1>1, <1>5, ProgramProper DEF Constants
<1>7. u \in Seq(Ops)
  BY <1>6 DEF Proper, Chain
<1>8. Index(NoIndex) \in Contents("index") /\ Index(NoIndex) \in Values
  BY EmptyIndex DEF Constants
<1>9. User \in Contents("project") /\ User \in Values /\ Nothing \in Values
  BY TextsDiffer DEF Values
<1>10. v \in Values
  BY <1>2, <1>8, <1>9
<1>11. Fits(u, v) /\ ~InCheck(u) /\ NoBase(u)
  <2>1. CASE u[1][1] \in {"load", "check", "begin"}
    BY <2>1, PlainHead DEF NoBase
  <2>2. CASE /\ r.kind = "rebuild" /\ ~Has(u, "return")
             /\ u[1][1] = "summarize" \/ u[1] = <<"truncate", "index">>
    <3>1. v \in Contents("index")
      BY <1>2, <1>8, <2>2
    <3>2. u[1][1] = "summarize" \/ (u[1][1] = "truncate" /\ u[1][2] = "index")
      BY <2>2
    <3>3. Fits(u, v)
      BY <3>1, <3>2 DEF Fits
    <3>4. ~InCheck(u)
      BY <2>2, <3>2 DEF InCheck
    <3>5. NoBase(u)
      BY <3>2 DEF NoBase, AboutTo
    <3> QED BY <3>3, <3>4, <3>5
  <2>3. CASE r.kind = "put" /\ u[1] = <<"truncate", "project">>
    <3>1. v \in Contents("project")
      BY <1>2, <1>9, <2>3
    <3>2. u[1][1] = "truncate" /\ u[1][2] = "project"
      BY <2>3
    <3> QED BY <2>3, <3>1, <3>2 DEF Fits, InCheck, NoBase, AboutTo
  <2> QED BY <1>6, <2>1, <2>2, <2>3
<1>12. /\ disk' \in [Stores -> {Missing, Empty} \cup Values] /\ DiskOK'
       /\ last' \in [Stores -> {Missing} \cup Values]
       /\ left' \in Spare
       /\ since' \in [Procs -> [Files -> SUBSET (0..MaxEdits)]]
  <2>1. left' \in Spare
    <3>1. left \in Spare
      BY DEF IInv, Typed
    <3> QED BY <1>4, <3>1 DEF Spare
  <2> QED BY <1>4, <2>1 DEF IInv, Typed, DiskOK
<1>13. ASSUME NEW q \in Procs \ {p}
       PROVE  /\ KeepsBases(q, job[q], todo[q], val[q], stale', last')
              /\ KeepsEdits(q, job[q], todo[q], stale', last')
  BY <1>4 DEF IInv, Sound
<1>14. Sound(p, r, u, v, s)'
  <2>1. Busy(r, u)'
    BY <1>4, <1>5 DEF Busy
  <2>2. Seen(u, v, s, ws)'
    BY <1>11 DEF Seen
  <2>3. KeepsBases(p, r, u, v, stale, last)'
    BY <1>11 DEF KeepsBases, NoBase
  <2>4. KeepsEdits(p, r, u, stale, last)'
    BY <1>6 DEF KeepsEdits
  <2> QED BY <1>6, <1>11, <2>1, <2>2, <2>3, <2>4 DEF Sound
<1> QED BY <1>3, <1>4, <1>5, <1>7, <1>10, <1>12, <1>13, <1>14, OneStep

LEMMA NextKeeps == ASSUME IInv, Constants, [Next]_vars PROVE IInv'
<1>1. CASE Boot
  BY <1>1, BootKeeps
<1>2. CASE Crash
  BY <1>2, CrashKeeps
<1>3. CASE \E w \in Files : Edit(w)
  BY <1>3, EditKeeps
<1>4. ASSUME NEW p \in Procs, Step(p)
      PROVE  IInv'
  BY <1>4, CheckKeeps, LoadBaseKeeps, OfferKeeps, LoadIndexKeeps, BeginFreshKeeps, CompareKeeps,
     SearchKeeps, SummarizeKeeps, ReturnKeeps, LookKeeps, TruncateKeeps, WriteKeeps DEF Step
<1>5. CASE \E p \in Procs, r \in Requests : Begin(p, r)
  BY <1>5, BeginKeeps
<1>6. CASE UNCHANGED vars
  <2>1. UNCHANGED <<up, disk, ws, job, todo, val, stale, since, last, retired, left>>
    BY <1>6 DEF vars
  <2>2. Typed' /\ DiskOK'
    BY <2>1 DEF IInv, Typed, DiskOK
  <2>3. ASSUME NEW p \in Procs
        PROVE  Sound(p, job[p], todo[p], val[p], since[p])'
    BY <2>1 DEF IInv, Sound, Busy
  <2> QED BY <2>2, <2>3 DEF IInv
<1> QED BY <1>1, <1>2, <1>3, <1>4, <1>5, <1>6 DEF Next

LEMMA Invariant == Spec => []IInv
<1>1. Constants
  BY LimitAssumption, WalkAssumption, BoundAssumption, BeforeAssumption DEF Constants
<1>2. Init => IInv
  BY <1>1, InitHolds
<1>3. IInv /\ [Next]_vars => IInv'
  BY <1>1, NextKeeps
<1> QED BY <1>2, <1>3, PTL DEF Spec

-----------------------------------------------------------------------------
(* Theorems                                                                  *)

\* Every file is missing, truncated or holds its own kind of content: a knowledge
\* base stays within MaxItems with every item once, whatever jobs overlap.
THEOREM TypeCorrect == Spec => []TypeOK
<1>1. IInv => TypeOK
  BY DEF IInv, DiskOK, Sound, Busy, TypeOK
<1> QED BY <1>1, Invariant, PTL

\* The index that EnsureFreshFileIndex returns names, for every file, a version
\* the file had during the call, however the workspace and the index change; it
\* leaves a file out when the file was absent or unreadable at some moment of the
\* call, or when it names MaxFiles others.
THEOREM FreshIndex == Spec => []FreshEntries
<1>1. ASSUME IInv, NEW p \in Procs, At(p, "return"), NEW w \in Files
      PROVE  val[p][2][w] \in since[p][w] \/ NoRoom(val[p][2], w)
  <2>1. PICK t : t = todo[p]
    OBVIOUS
  <2>2. PICK v : v = val[p]
    OBVIOUS
  <2>3. PICK s : s = since[p]
    OBVIOUS
  <2>4. t # <<>> /\ Head(t)[1] = "return"
    BY <1>1, <2>1 DEF At
  <2>5. /\ Head(t) = t[1] /\ Tail(t) \in Seq(Ops)
        /\ \A i \in 1..Len(Tail(t)) : Later(t[1], Tail(t)[i])
        /\ HasOp(t, <<"summarize", w>>) <=>
             t[1] = <<"summarize", w>> \/ HasOp(Tail(t), <<"summarize", w>>)
        /\ Seen(t, v, s, ws)
    BY <1>1, <2>1, <2>2, <2>3, <2>4, Held
  <2>6. ~HasOp(Tail(t), <<"summarize", w>>)
    BY <2>4, <2>5 DEF HasOp, Later
  <2>7. ~HasOp(t, <<"summarize", w>>) /\ InCheck(t) /\ t[1][1] = "return"
    BY <2>4, <2>5, <2>6 DEF InCheck
  <2>8. v[2][w] \in s[w] \/ NoRoom(v[2], w)
    BY <2>5, <2>7 DEF Seen
  <2> QED BY <2>2, <2>3, <2>8
<1>2. IInv => FreshEntries
  BY <1>1 DEF FreshEntries, NoRoom
<1> QED BY <1>2, Invariant, PTL

\* A step that takes a write off what a process has left is that write.
LEMMA OnlyWrite ==
  ASSUME IInv, [Next]_vars, NEW p \in Procs, NEW f, Writes(p, f)
  PROVE  Write(p)
<1>1. todo[p] # <<>> /\ Head(todo[p])[1] = "write" /\ todo'[p] # todo[p] /\ up'
  BY DEF Writes, At
<1>2. ~Boot /\ ~(\E w \in Files : Edit(w)) /\ ~UNCHANGED vars
  BY <1>1 DEF Boot, Edit, vars
<1>3. ~Crash
  BY <1>1 DEF Crash
<1>4. ASSUME NEW q \in Procs, NEW steps, NEW j, NEW v, Go(q, steps, j, v)
      PROVE  q = p
  BY <1>1, <1>4 DEF Go, IInv, Typed
<1>5. ~(\E q \in Procs, r \in Requests : Begin(q, r))
  BY <1>1, <1>4 DEF Begin
<1>6. PICK q \in Procs : Step(q)
  BY <1>2, <1>3, <1>5 DEF Next
<1>7. q = p
  BY <1>4, <1>6 DEF Step, Check, LoadBase, Offer, LoadIndex, BeginFresh, Compare, Search,
       Summarize, Return, Look, Truncate, Write, Take, Continue
<1> QED BY <1>1, <1>6, <1>7 DEF Step, Check, LoadBase, Offer, LoadIndex, BeginFresh, Compare,
          Search, Summarize, Return, Look, Truncate, At

\* What NothingLostAlone asks of a step of one process.
LosesNothing(p) ==
  /\ \A s \in Items :
       Reactivates(p, s) => Restores(p, s) \/ <<p, "solutions">> \in stale \/ Lost(s)
  /\ \A f \in {"solutions", "errors"}, s \in Items :
       Drops(p, f, s) => Len(last[f][2]) = MaxItems \/ <<p, f>> \in stale
  /\ ReplacesEdit(p) => Replaces(p) \/ <<p, "project">> \in stale

\* What the knowledge bases and the project memory hold is undone only by an
\* operator, by two writes that overlap, or at the limit: a solution that was ever
\* retired becomes active only by a restore or when the base has lost it and it is
\* learned anew, a base loses an item only when it is full, and the user's project
\* memory is replaced only by a request to replace it.
THEOREM NothingIsLostAlone == Spec => NothingLostAlone
<1>1. ASSUME IInv, [Next]_vars, NEW p \in Procs
      PROVE  LosesNothing(p)
  <2>1. PICK t : t = todo[p]
    OBVIOUS
  <2>2. PICK v : v = val[p]
    OBVIOUS
  <2>3. PICK j : j = job[p]
    OBVIOUS
  <2>4. ASSUME NEW f, Writes(p, f)
        PROVE  /\ t # <<>> /\ t[1] = <<"write", f>> /\ f \in Stores /\ AboutTo(t, f)
               /\ Allowed(t[1], j.kind) /\ Proper(t, j.kind)
               /\ Tail(t) # <<>> => Follows(t[1], Tail(t)[1])
               /\ Has(t, "look") => Has(Tail(t), "look")
               /\ KeepsBases(p, j, t, v, stale, last) /\ KeepsEdits(p, j, t, stale, last)
    <3>1. t # <<>> /\ Head(t)[1] = "write" /\ Head(t)[2] = f
      BY <2>1, <2>4 DEF Writes, At, File
    <3>2. /\ Head(t) = t[1] /\ t[1] \in Ops /\ Allowed(t[1], j.kind) /\ Proper(t, j.kind)
          /\ Tail(t) # <<>> => Follows(t[1], Tail(t)[1])
          /\ Has(t, "look") <=> t[1][1] = "look" \/ Has(Tail(t), "look")
          /\ KeepsBases(p, j, t, v, stale, last) /\ KeepsEdits(p, j, t, stale, last)
      BY <1>1, <2>1, <2>2, <2>3, <3>1, Held
    <3>3. t[1] = <<"write", f>> /\ f \in Stores
      BY <3>1, <3>2 DEF Ops, Allowed, OpTyped
    <3> QED BY <3>1, <3>2, <3>3 DEF AboutTo
  \* The writer of a base keeps what it read.
  <2>5. ASSUME NEW f \in {"solutions", "errors"}, Writes(p, f), <<p, f>> \notin stale,
               last[f] # Missing
        PROVE  Revives(j, last[f][2], last'[f][2]) /\ Keeps(last[f][2], last'[f][2])
    <3>1. Write(p) /\ File(p) = f
      BY <1>1, <2>5, OnlyWrite DEF Writes
    <3>2. last'[f] = v
      BY <1>1, <2>2, <3>1 DEF Write, IInv, Typed, Stores
    <3> QED BY <2>4, <2>5, <3>2 DEF KeepsBases
  <2>6. ASSUME NEW s \in Items, Reactivates(p, s), <<p, "solutions">> \notin stale
        PROVE  Restores(p, s) \/ Lost(s)
    <3>1. Writes(p, "solutions") /\ s \in retired /\ IsActive(last'["solutions"][2], s)
      BY <2>6 DEF Reactivates
    <3>2. /\ last["solutions"] # Missing
          /\ s \in Ids(last["solutions"][2]) => IsRetired(last["solutions"][2], s)
      BY <1>1, <3>1 DEF IInv, DiskOK
    <3>3. Revives(j, last["solutions"][2], last'["solutions"][2])
      BY <2>5, <2>6, <3>1, <3>2
    <3> QED BY <2>3, <3>1, <3>2, <3>3 DEF Revives, Restores, Lost
  <2>7. ASSUME NEW f \in {"solutions", "errors"}, NEW s \in Items, Drops(p, f, s),
               <<p, f>> \notin stale
        PROVE  Len(last[f][2]) = MaxItems
    BY <2>5, <2>7 DEF Drops, Keeps
  <2>8. ASSUME ReplacesEdit(p), <<p, "project">> \notin stale
        PROVE  Replaces(p)
    <3>1. Writes(p, "project") /\ last["project"] = User
      BY <2>8 DEF ReplacesEdit
    <3>2. t[1] = <<"write", "project">> /\ t[1][1] = "write" /\ t[1][2] = "project"
      BY <2>4, <3>1
    <3>3. Tail(t) = <<>>
      BY <2>4, <3>1, <3>2 DEF Follows
    <3>4. ~Has(t, "look")
      <4>1. ~Has(<<>>, "look")
        BY DEF Has
      <4> QED BY <2>4, <3>1, <3>3, <4>1
    <3>5. j.kind # "dashboard"
      BY <2>4, <2>8, <3>1, <3>4 DEF KeepsEdits
    <3>6. j.kind \in {"dashboard", "blank", "put"}
      BY <2>4, <3>1, <3>2 DEF Allowed
    <3> QED BY <2>3, <3>5, <3>6 DEF Replaces
  <2> QED BY <2>6, <2>7, <2>8 DEF LosesNothing
<1>2. IInv /\ [Next]_vars => [\A p \in Procs : LosesNothing(p)]_vars
  BY <1>1
<1>3. [\A p \in Procs : LosesNothing(p)]_vars <=> [\A p \in Procs :
       /\ \A s \in Items :
            Reactivates(p, s) => Restores(p, s) \/ <<p, "solutions">> \in stale \/ Lost(s)
       /\ \A f \in {"solutions", "errors"}, s \in Items :
            Drops(p, f, s) => Len(last[f][2]) = MaxItems \/ <<p, f>> \in stale
       /\ ReplacesEdit(p) => Replaces(p) \/ <<p, "project">> \in stale]_vars
  BY DEF LosesNothing
<1> QED BY <1>2, <1>3, Invariant, PTL DEF Spec, NothingLostAlone
=============================================================================
