---------------------------- MODULE PlatformProofs ----------------------------
(***************************************************************************)
(* What threads and processes share.  The stores on disk, for every number *)
(* of processes, traces, keys and operations and every retention cap; the  *)
(* service's promise, for every number of threads, every cap and whatever  *)
(* the analyses suggest: the proposal queue and the flow registry agree,   *)
(* and the suggestions cover the traces; and the flow registry's types,    *)
(* its latest pointer and its drift review, for every number of versions   *)
(* and files, every ranking, every split of the versions between operator  *)
(* and files, and every set of schema hashes.                              *)
(***************************************************************************)
EXTENDS Registry, Stores, Service, FiniteSetTheorems, SequenceTheorems, WellFoundedInduction,
        TLAPS

(* A set of positive numbers below a bound has a largest member.           *)
LEMMA LargestExists ==
  ASSUME NEW m \in Nat, NEW T \in SUBSET (1 .. m), T # {}
  PROVE  \E v \in T : \A w \in T : w <= v
<1> DEFINE Top(U) == \E v \in U : \A w \in U : w <= v
           W == {U \in SUBSET (1 .. m) : U # {} /\ ~Top(U)}
<1>1. IsFiniteSet(1 .. m) /\ \A U \in SUBSET (1 .. m) : IsFiniteSet(U)
  <2>1. IsFiniteSet(1 .. m)
    BY FS_Interval
  <2> QED
    BY <2>1, FS_Subset
<1>2. W \subseteq FiniteSubsetsOf(1 .. m)
  BY <1>1 DEF FiniteSubsetsOf
<1>3. SUFFICES ASSUME W # {} PROVE FALSE
  OBVIOUS
<1>4. PICK U \in W : \A X \in W : <<X, U>> \notin StrictSubsetOrdering(1 .. m)
  <2> HIDE DEF W
  <2> QED
    BY <1>1, <1>2, <1>3, FS_StrictSubsetOrderingWellFounded, WFMin
<1>5. PICK x \in U : TRUE
  OBVIOUS
<1>6. U \ {x} \notin W
  BY <1>1, <1>4, <1>5 DEF StrictSubsetOrdering
<1>7. CASE U \ {x} = {}
  BY <1>5, <1>7
<1>8. CASE U \ {x} # {}
  <2>1. PICK y \in U \ {x} : \A w \in U \ {x} : w <= y
    BY <1>6, <1>8
  <2>2. x \in Nat /\ y \in Nat /\ \A w \in U : w \in Nat
    BY <1>5
  <2>3. (\A w \in U : w <= x) \/ (\A w \in U : w <= y)
    BY <2>1, <2>2
  <2> QED
    BY <2>1, <2>3, <1>5
<1> QED
  BY <1>7, <1>8

-----------------------------------------------------------------------------
(* The lines of the trace log.                                             *)

Line == [id : TraceIds, rev : Nat]

(* Each trace once, newest last.                                           *)
Ordered(ls) ==
  \A i, j \in 1..Len(ls) : i < j => ls[i].id # ls[j].id /\ ls[i].rev < ls[j].rev

Lines(ls, r) ==
  ls \in Seq(Line) /\ Ordered(ls) /\ \A i \in 1..Len(ls) : ls[i].rev <= r

(* Without, step by step: f[n] is what is left of the first n lines.       *)
IsKept(f, ls, id, m) ==
  f = [i \in 0..m |->
         IF i = 0 THEN <<>> ELSE IF ls[i].id = id THEN f[i - 1] ELSE Append(f[i - 1], ls[i])]

(* s is some of the first n lines of ls, in their order, none of them id's. *)
Part(s, ls, id, n, r) ==
  /\ Lines(s, r) /\ Len(s) <= n
  /\ \A i \in 1..Len(s) : \E j \in 1..n : s[i] = ls[j] /\ ls[j].id # id

LEMMA LineOf ==
  ASSUME NEW r, NEW ls, Lines(ls, r)
  PROVE  /\ ls \in Seq(Line) /\ Len(ls) \in Nat /\ Ordered(ls)
         /\ \A i \in 1..Len(ls) : /\ ls[i] \in Line /\ ls[i].id \in TraceIds
                                  /\ ls[i].rev \in Nat /\ ls[i].rev <= r
<1>1. ls \in Seq(Line) /\ Ordered(ls) /\ \A i \in 1..Len(ls) : ls[i].rev <= r
  BY DEF Lines
<1>2. Len(ls) \in Nat /\ \A i \in 1..Len(ls) : ls[i] \in Line
  BY <1>1
<1>3. \A l \in Line : l.id \in TraceIds /\ l.rev \in Nat
  BY DEF Line
<1> QED
  BY <1>1, <1>2, <1>3

LEMMA PartEmpty ==
  ASSUME NEW ls, NEW id, NEW r \in Nat
  PROVE  Part(<<>>, ls, id, 0, r)
BY DEF Part, Lines, Ordered

(* A line in or out.                                                       *)
LEMMA PartGrows ==
  ASSUME NEW r \in Nat, NEW ls, Lines(ls, r), NEW id, NEW n \in Nat, n < Len(ls),
         NEW s, Part(s, ls, id, n, r)
  PROVE  /\ ls[n + 1].id = id => Part(s, ls, id, n + 1, r)
         /\ ls[n + 1].id # id => Part(Append(s, ls[n + 1]), ls, id, n + 1, r)
<1> DEFINE x == ls[n + 1]
           t == Append(s, x)
<1>0. /\ n + 1 \in 1..Len(ls) /\ ls \in Seq(Line) /\ Ordered(ls) /\ x \in Line
      /\ x.rev <= r /\ x.rev \in Nat
  <2>1. n + 1 \in 1..Len(ls)
    BY LineOf
  <2> QED
    BY <2>1, LineOf
<1>s. /\ s \in Seq(Line) /\ Ordered(s) /\ Len(s) \in Nat /\ Len(s) <= n
      /\ \A i \in 1..Len(s) : s[i].rev <= r /\ s[i].rev \in Nat
      /\ \A i \in 1..Len(s) : \E j \in 1..n : s[i] = ls[j] /\ ls[j].id # id
  BY LineOf DEF Part
<1>1. ASSUME x.id = id PROVE Part(s, ls, id, n + 1, r)
  BY <1>s DEF Part, Lines
<1>2. ASSUME x.id # id PROVE Part(t, ls, id, n + 1, r)
  <2> HIDE DEF x
  <2>1. /\ t \in Seq(Line) /\ Len(t) = Len(s) + 1 /\ t[Len(s) + 1] = x
        /\ \A i \in 1..Len(s) : t[i] = s[i]
    BY <1>0, <1>s, AppendProperties
  <2> HIDE DEF t
  <2>2. \A i \in 1..Len(s) : s[i].id # x.id /\ s[i].rev < x.rev
    <3> SUFFICES ASSUME NEW i \in 1..Len(s) PROVE s[i].id # x.id /\ s[i].rev < x.rev
      OBVIOUS
    <3>1. PICK j \in 1..n : s[i] = ls[j]
      BY <1>s
    <3>2. j \in 1..Len(ls) /\ j < n + 1
      BY LineOf
    <3>3. ls[j].id # ls[n + 1].id /\ ls[j].rev < ls[n + 1].rev
      BY <1>0, <3>2 DEF Ordered
    <3> QED
      BY <3>1, <3>3 DEF x
  <2>3. Ordered(t)
    <3> SUFFICES ASSUME NEW i \in 1..Len(t), NEW j \in 1..Len(t), i < j
                 PROVE  t[i].id # t[j].id /\ t[i].rev < t[j].rev
      BY DEF Ordered
    <3>0. Len(t) = Len(s) + 1 /\ Len(s) \in Nat
      BY <1>s, <2>1
    <3>i. i \in 1..Len(s)
      BY <3>0
    <3>1. i \in 1..Len(s) /\ t[i] = s[i]
      BY <2>1, <3>i
    <3>2. CASE j = Len(s) + 1
      BY <2>1, <2>2, <3>1, <3>2
    <3>3. CASE j # Len(s) + 1
      <4>1. j \in 1..Len(s) /\ t[j] = s[j]
        BY <1>s, <2>1, <3>3
      <4> QED
        BY <1>s, <3>1, <4>1 DEF Ordered
    <3> QED
      BY <3>2, <3>3
  <2>4. \A i \in 1..Len(t) : t[i].rev <= r
    <3> SUFFICES ASSUME NEW i \in 1..Len(t) PROVE t[i].rev <= r
      OBVIOUS
    <3>1. CASE i = Len(s) + 1
      BY <1>0, <2>1, <3>1
    <3>2. CASE i # Len(s) + 1
      <4>1. i \in 1..Len(s)
        BY <1>s, <2>1, <3>2
      <4> QED
        BY <1>s, <2>1, <4>1
    <3> QED
      BY <3>1, <3>2
  <2>5. \A i \in 1..Len(t) : \E j \in 1..(n + 1) : t[i] = ls[j] /\ ls[j].id # id
    <3> SUFFICES ASSUME NEW i \in 1..Len(t)
                 PROVE  \E j \in 1..(n + 1) : t[i] = ls[j] /\ ls[j].id # id
      OBVIOUS
    <3>1. CASE i = Len(s) + 1
      <4>1. n + 1 \in 1..(n + 1) /\ t[i] = ls[n + 1] /\ ls[n + 1].id # id
        BY <1>2, <2>1, <3>1 DEF x
      <4> QED
        BY <4>1
    <3>2. CASE i # Len(s) + 1
      <4>1. i \in 1..Len(s) /\ t[i] = s[i]
        BY <1>s, <2>1, <3>2
      <4>2. PICK j \in 1..n : s[i] = ls[j] /\ ls[j].id # id
        BY <1>s, <4>1
      <4>3. j \in 1..(n + 1)
        OBVIOUS
      <4> QED
        BY <4>1, <4>2, <4>3
    <3> QED
      BY <3>1, <3>2
  <2> QED
    BY <1>s, <2>1, <2>3, <2>4, <2>5 DEF Part, Lines
<1> QED
  BY <1>1, <1>2

LEMMA KeptExists ==
  ASSUME NEW r \in Nat, NEW ls, Lines(ls, r), NEW id, NEW m \in 0..Len(ls)
  PROVE  \E f : IsKept(f, ls, id, m) /\ Part(f[m], ls, id, m, r)
<1> DEFINE P(n) == \E f : IsKept(f, ls, id, n) /\ Part(f[n], ls, id, n, r)
           L == Len(ls)
<1>0. L \in Nat
  BY LineOf
<1>1. P(0)
  <2> DEFINE f == [i \in 0..0 |-> <<>>]
  <2>1. IsKept(f, ls, id, 0) /\ f[0] = <<>>
    BY DEF IsKept
  <2>2. IsKept(f, ls, id, 0) /\ Part(f[0], ls, id, 0, r)
    BY <2>1, PartEmpty
  <2> HIDE DEF f
  <2> QED
    BY <2>2
<1>2. ASSUME NEW n \in 0..L, n < L, P(n) PROVE P(n + 1)
  <2>1. PICK f : IsKept(f, ls, id, n) /\ Part(f[n], ls, id, n, r)
    BY <1>2
  <2> DEFINE x == ls[n + 1]
             last == IF x.id = id THEN f[n] ELSE Append(f[n], x)
             g == [i \in 0..(n + 1) |-> IF i = n + 1 THEN last ELSE f[i]]
  <2>2. Part(last, ls, id, n + 1, r)
    BY <1>0, <1>2, <2>1, PartGrows
  <2>3. g[n + 1] = last /\ \A i \in 0..n : g[i] = f[i]
    BY <1>0
  <2>4. IsKept(g, ls, id, n + 1)
    <3>1. \A i \in 0..n : f[i] = IF i = 0 THEN <<>> ELSE IF ls[i].id = id THEN f[i - 1]
                                 ELSE Append(f[i - 1], ls[i])
      BY <2>1 DEF IsKept
    <3>2. \A i \in 0..n : g[i] = IF i = 0 THEN <<>> ELSE IF ls[i].id = id THEN g[i - 1]
                                 ELSE Append(g[i - 1], ls[i])
      <4> SUFFICES ASSUME NEW i \in 0..n
                   PROVE g[i] = IF i = 0 THEN <<>> ELSE IF ls[i].id = id THEN g[i - 1]
                                ELSE Append(g[i - 1], ls[i])
        OBVIOUS
      <4>1. CASE i = 0
        BY <2>3, <3>1, <4>1
      <4>2. CASE i # 0
        <5>1. i - 1 \in 0..n
          BY <4>2
        <5> HIDE DEF g
        <5>2. g[i] = f[i] /\ g[i - 1] = f[i - 1]
          BY <2>3, <5>1
        <5> QED
          BY <3>1, <4>2, <5>2
      <4> QED
        BY <4>1, <4>2
    <3>3. g[n + 1] = IF ls[n + 1].id = id THEN g[n] ELSE Append(g[n], ls[n + 1])
      <4>1. g[n] = f[n]
        BY <2>3
      <4> HIDE DEF g
      <4> QED
        BY <2>3, <4>1
    <3>4. g = [i \in 0..(n + 1) |-> g[i]]
      OBVIOUS
    <3> HIDE DEF g
    <3>5. \A i \in 0..(n + 1) : g[i] = IF i = 0 THEN <<>> ELSE IF ls[i].id = id THEN g[i - 1]
                                       ELSE Append(g[i - 1], ls[i])
      <4> SUFFICES ASSUME NEW i \in 0..(n + 1)
                   PROVE g[i] = IF i = 0 THEN <<>> ELSE IF ls[i].id = id THEN g[i - 1]
                                ELSE Append(g[i - 1], ls[i])
        OBVIOUS
      <4>1. CASE i = n + 1
        <5>1. i # 0 /\ i - 1 = n
          BY <4>1
        <5> QED
          BY <3>3, <4>1, <5>1
      <4>2. CASE i # n + 1
        <5>1. i \in 0..n
          BY <4>2
        <5> QED
          BY <3>2, <5>1
      <4> QED
        BY <4>1, <4>2
    <3> QED
      BY <3>4, <3>5 DEF IsKept
  <2> HIDE DEF g, last
  <2>5. IsKept(g, ls, id, n + 1) /\ Part(g[n + 1], ls, id, n + 1, r)
    BY <2>2, <2>3, <2>4
  <2> QED
    BY <2>5
<1> HIDE DEF P
<1>3. \A n \in 0..L : P(n)
  <2> SUFFICES ASSUME NEW n \in 0..L, ~P(n) PROVE FALSE
    OBVIOUS
  <2> DEFINE U == {i \in 1..n : P(i - 1)}
  <2>0. n \in Nat /\ n # 0
    BY <1>1
  <2>1. U \in SUBSET (1..n) /\ 1 \in U
    <3>1. 1 \in 1..n /\ 1 - 1 = 0
      BY <2>0
    <3> QED
      BY <1>1, <3>1
  <2>2. PICK v \in U : \A w \in U : w <= v
    BY <2>0, <2>1, LargestExists
  <2>3. v \in 1..n /\ P(v - 1)
    BY <2>2
  <2>4. v - 1 \in 0..L /\ v - 1 < L /\ (v - 1) + 1 = v
    BY <1>0, <2>0, <2>3
  <2>5. P(v)
    BY <1>2, <2>3, <2>4
  <2>6. CASE v = n
    BY <2>5, <2>6
  <2>7. CASE v # n
    <3>1. v + 1 \in 1..n /\ (v + 1) - 1 = v /\ ~(v + 1 <= v)
      BY <2>0, <2>3, <2>7
    <3>2. v + 1 \in U
      BY <2>5, <3>1
    <3> QED
      BY <2>2, <3>1, <3>2
  <2> QED
    BY <2>6, <2>7
<1> QED
  BY <1>3 DEF P

LEMMA KeptIsOne ==
  ASSUME NEW ls, NEW id, NEW m \in Nat, NEW f, NEW g, IsKept(f, ls, id, m), IsKept(g, ls, id, m)
  PROVE  f[m] = g[m]
<1> DEFINE U == {i \in 1..m : f[i - 1] = g[i - 1]}
<1>e. \A i \in 0..m :
        /\ f[i] = IF i = 0 THEN <<>>
                  ELSE IF ls[i].id = id THEN f[i - 1] ELSE Append(f[i - 1], ls[i])
        /\ g[i] = IF i = 0 THEN <<>>
                  ELSE IF ls[i].id = id THEN g[i - 1] ELSE Append(g[i - 1], ls[i])
  BY DEF IsKept
<1>0. 0 \in 0..m /\ f[0] = <<>> /\ g[0] = <<>>
  <2>1. 0 \in 0..m
    OBVIOUS
  <2> QED
    BY <1>e, <2>1, Zenon
<1>1. CASE m = 0
  BY <1>0, <1>1
<1>2. CASE m # 0
  <2>1. U \in SUBSET (1..m) /\ 1 \in U
    <3>1. 1 \in 1..m /\ 1 - 1 = 0
      BY <1>2
    <3> QED
      BY <1>0, <3>1
  <2>2. PICK v \in U : \A w \in U : w <= v
    BY <2>1, LargestExists
  <2>3. v \in 1..m /\ v \in 0..m /\ v # 0 /\ f[v - 1] = g[v - 1]
    BY <2>2
  <2>4. f[v] = g[v]
    BY <1>e, <2>3
  <2>5. CASE v # m
    <3>1. v + 1 \in 1..m /\ (v + 1) - 1 = v /\ ~(v + 1 <= v)
      BY <2>3, <2>5
    <3>2. v + 1 \in U
      BY <2>4, <3>1
    <3> QED
      BY <2>2, <3>1, <3>2
  <2> QED
    BY <2>4, <2>5
<1> QED
  BY <1>1, <1>2

(* Taking a trace out leaves an ordered log without it.                    *)
LEMMA WithoutMeans ==
  ASSUME NEW r \in Nat, NEW ls, Lines(ls, r), NEW id
  PROVE  /\ Lines(Without(ls, id), r) /\ Len(Without(ls, id)) <= Len(ls)
         /\ \A i \in 1..Len(Without(ls, id)) : Without(ls, id)[i].id # id
<1> DEFINE m == Len(ls)
           g == CHOOSE f : f = [i \in 0..m |->
                  IF i = 0 THEN <<>>
                  ELSE IF ls[i].id = id THEN f[i - 1] ELSE Append(f[i - 1], ls[i])]
<1>0. m \in Nat /\ m \in 0..m
  BY LineOf
<1>1. PICK f : IsKept(f, ls, id, m) /\ Part(f[m], ls, id, m, r)
  BY <1>0, KeptExists
<1>2. IsKept(g, ls, id, m)
  BY <1>1, Zenon DEF IsKept
<1>3. Without(ls, id) = g[m]
  BY Zenon DEF Without
<1> HIDE DEF g
<1>4. Without(ls, id) = f[m]
  BY <1>0, <1>1, <1>2, <1>3, KeptIsOne
<1> HIDE DEF m
<1> DEFINE s == f[m]
<1>5. Part(s, ls, id, m, r)
  BY <1>1
<1> HIDE DEF s
<1>6. Lines(s, r) /\ Len(s) <= m /\ \A i \in 1..Len(s) : s[i].id # id
  BY <1>5 DEF Part
<1> QED
  BY <1>4, <1>6 DEF s, m

(* What a save leaves of an ordered log is an ordered log within the cap.  *)
LEMMA SavedMeans ==
  ASSUME NEW r \in Nat, NEW ls, Lines(ls, r), NEW id \in TraceIds
  PROVE  Lines(Saved(ls, id, r + 1), r + 1) /\ Len(Saved(ls, id, r + 1)) <= LogCap
<1> DEFINE w == Without(ls, id)
           x == [id |-> id, rev |-> r + 1]
           all == Append(w, x)
           n == Len(all)
<1>c. LogCap \in Nat \ {0}
  BY StoresAssumption
<1>1. Lines(w, r) /\ \A i \in 1..Len(w) : w[i].id # id
  BY WithoutMeans
<1>2. x \in Line /\ x.id = id /\ x.rev = r + 1
  BY DEF Line
<1> HIDE DEF w, x
<1>3. /\ w \in Seq(Line) /\ Len(w) \in Nat /\ Ordered(w)
      /\ \A i \in 1..Len(w) : w[i].rev \in Nat /\ w[i].rev <= r
  BY <1>1, LineOf
<1>4. /\ all \in Seq(Line) /\ n = Len(w) + 1 /\ all[Len(w) + 1] = x
      /\ \A i \in 1..Len(w) : all[i] = w[i]
  BY <1>2, <1>3, AppendProperties
<1>a. Saved(ls, id, r + 1) = IF n > LogCap THEN SubSeq(all, n - LogCap + 1, n) ELSE all
  BY DEF Saved, w, x
<1> HIDE DEF all
<1>5. \A i \in 1..n : i = Len(w) + 1 \/ i \in 1..Len(w)
  BY <1>3, <1>4
<1>n. n \in Nat
  BY <1>3, <1>4
<1> HIDE DEF n
<1>6. \A i \in 1..n : all[i] \in Line /\ all[i].rev \in Nat /\ all[i].rev <= r + 1
  <2> SUFFICES ASSUME NEW i \in 1..n
               PROVE all[i] \in Line /\ all[i].rev \in Nat /\ all[i].rev <= r + 1
    OBVIOUS
  <2>1. CASE i = Len(w) + 1
    BY <1>2, <1>4, <2>1
  <2>2. CASE i \in 1..Len(w)
    <3>1. all[i] = w[i] /\ w[i].rev \in Nat /\ w[i].rev <= r /\ w[i] \in Line
      BY <1>3, <1>4, <2>2
    <3> QED
      BY <3>1
  <2> QED
    BY <1>5, <2>1, <2>2
<1>7. ASSUME NEW i \in 1..n, NEW j \in 1..n, i < j
      PROVE  all[i].id # all[j].id /\ all[i].rev < all[j].rev
  <2>1. i \in 1..Len(w)
    BY <1>3, <1>4, <1>5, <1>7, <1>n
  <2>2. all[i] = w[i] /\ w[i].rev \in Nat /\ w[i].rev <= r /\ w[i].id # id
    BY <1>1, <1>3, <1>4, <2>1
  <2>3. CASE j = Len(w) + 1
    BY <1>2, <1>4, <2>2, <2>3
  <2>4. CASE j \in 1..Len(w)
    <3>1. all[j] = w[j] /\ w[i].id # w[j].id /\ w[i].rev < w[j].rev
      BY <1>3, <1>4, <1>7, <2>1, <2>4 DEF Ordered
    <3> QED
      BY <2>2, <3>1
  <2> QED
    BY <1>5, <2>3, <2>4
<1>8. CASE n > LogCap
  <2> DEFINE b == n - LogCap
             t == SubSeq(all, b + 1, n)
  <2>1. b \in Nat /\ b + LogCap = n /\ b + 1 <= n
    BY <1>c, <1>n, <1>8
  <2>a. b + 1 = n - LogCap + 1
    OBVIOUS
  <2> HIDE DEF b
  <2>2. /\ t \in Seq(Line) /\ Len(t) = n - (b + 1) + 1
        /\ \A i \in 1..(n - (b + 1) + 1) : t[i] = all[b + 1 + i - 1]
    <3>1. b + 1 \in Int /\ n \in Int /\ \A i \in (b + 1)..n : all[i] \in Line
      BY <1>6, <1>n, <2>1
    <3> QED
      BY <2>1, <3>1, SubSeqProperties
  <2> HIDE DEF t
  <2>3. Len(t) = LogCap
    BY <1>c, <1>n, <2>1, <2>2
  <2>4. \A i \in 1..Len(t) : t[i] = all[b + i] /\ b + i \in 1..n
    <3> SUFFICES ASSUME NEW i \in 1..LogCap PROVE t[i] = all[b + i] /\ b + i \in 1..n
      BY <2>3
    <3>1. i \in 1..(n - (b + 1) + 1) /\ b + 1 + i - 1 = b + i /\ b + i \in 1..n
      BY <1>c, <1>n, <2>1
    <3> QED
      BY <2>2, <3>1
  <2>5. Ordered(t)
    <3> SUFFICES ASSUME NEW i \in 1..Len(t), NEW j \in 1..Len(t), i < j
                 PROVE  t[i].id # t[j].id /\ t[i].rev < t[j].rev
      BY DEF Ordered
    <3>1. b + i < b + j
      BY <1>c, <2>1, <2>3
    <3> QED
      BY <1>7, <2>4, <3>1
  <2>6. Lines(t, r + 1) /\ Len(t) <= LogCap
    <3>1. t \in Seq(Line) /\ Ordered(t)
      BY <2>2, <2>5
    <3>2. \A i \in 1..Len(t) : t[i].rev <= r + 1
      BY <1>6, <2>4
    <3>3. Len(t) <= LogCap
      BY <1>c, <2>3
    <3> QED
      BY <3>1, <3>2, <3>3 DEF Lines
  <2>7. Saved(ls, id, r + 1) = t
    BY <1>a, <1>8, <2>a DEF t
  <2> QED
    BY <2>6, <2>7
<1>9. CASE ~(n > LogCap)
  <2>0. n = Len(all)
    BY DEF n
  <2>1. Ordered(all)
    BY <1>7, <2>0 DEF Ordered
  <2>2. all \in Seq(Line) /\ \A i \in 1..Len(all) : all[i].rev <= r + 1
    BY <1>4, <1>6, <2>0
  <2>3. Len(all) <= LogCap
    BY <1>c, <1>n, <1>9, <2>0
  <2> QED
    BY <1>a, <1>9, <2>1, <2>2, <2>3 DEF Lines
<1> QED
  BY <1>8, <1>9

-----------------------------------------------------------------------------
(* The stores: what holds between any two steps.                           *)

WriterFields == {"op", "id", "rev", "buf", "pc"}

WritersWellFormed ==
  /\ DOMAIN writer = Writers
  /\ \A w \in Writers : DOMAIN writer[w] = WriterFields

(* The log, and what each process is about to make of it.                  *)
LogOrdered ==
  /\ rev \in Nat
  /\ Lines(log, rev) /\ Len(log) <= LogCap
  /\ \A w \in Writers : Busy(w) => /\ writer[w].id \in TraceIds
                                   /\ Lines(writer[w].buf, rev) /\ Len(writer[w].buf) <= LogCap

(* While no two operations overlapped, one process at most works on the    *)
(* log, from the log as it is.                                             *)
Outcome(ls, o) == IF o.op = "save" THEN Saved(ls, o.id, o.rev) ELSE Without(ls, o.id)
Alone ==
  ~overlapped => /\ log = intended
                 /\ \A v, w \in Writers : Busy(v) /\ Busy(w) => v = w
                 /\ \A w \in Writers : Busy(w) => writer[w].buf = Outcome(log, writer[w])

(* A file holds what was stored under the key it is named for.             *)
FilesKeyed ==
  /\ DOMAIN files = FilePaths
  /\ \A w \in Writers : writer[w].op = "set" => writer[w].id \in StoreKeys
  /\ \A k \in StoreKeys : Get(k) # Gone => Get(k)[1] = k

StoresInv == WritersWellFormed /\ LogOrdered /\ Alone /\ FilesKeyed

(* No two keys share a file.                                               *)
LEMMA PathsDiffer ==
  ASSUME NEW k \in StoreKeys, NEW l \in StoreKeys, FilePath(k) = FilePath(l)
  PROVE  k = l
<1>1. k[1] = l[1] /\ k[2] = l[2]
  BY DEF FilePath
<1>2. k = <<k[1], k[2]>> /\ l = <<l[1], l[2]>>
  BY StoresAssumption
<1> QED
  BY <1>1, <1>2

LEMMA RestIsIdle ==
  ASSUME TRUE
  PROVE  /\ AtRest.op = "none" /\ DOMAIN AtRest = WriterFields
BY DEF AtRest, WriterFields

LEMMA StoresInvInit ==
  ASSUME StoresInit
  PROVE  StoresInv
<1>1. WritersWellFormed /\ \A w \in Writers : writer[w] = AtRest
  BY RestIsIdle DEF StoresInit, WritersWellFormed
<1>2. \A w \in Writers : ~Busy(w) /\ writer[w].op # "set"
  BY <1>1, RestIsIdle DEF Busy
<1>3. LogOrdered
  <2>1. rev \in Nat /\ log = <<>> /\ Len(log) = 0
    BY DEF StoresInit
  <2>2. Lines(log, rev)
    BY <2>1 DEF Lines, Ordered
  <2>3. Len(log) <= LogCap
    BY <2>1, StoresAssumption
  <2> QED
    BY <1>2, <2>1, <2>2, <2>3 DEF LogOrdered
<1>4. Alone
  BY <1>2 DEF Alone, StoresInit
<1>5. FilesKeyed
  <2>1. files = [f \in FilePaths |-> Gone] /\ \A k \in StoreKeys : FilePath(k) \in FilePaths
    BY DEF StoresInit, FilePaths
  <2> QED
    BY <1>2, <2>1 DEF FilesKeyed, Get
<1> QED
  BY <1>1, <1>3, <1>4, <1>5 DEF StoresInv

LEMMA StoresInvImplies ==
  ASSUME StoresInv
  PROVE  StoresAreConsistent
<1>1. log \in Seq(Line) /\ Ordered(log) /\ Len(log) <= LogCap
  BY DEF StoresInv, LogOrdered, Lines
<1>2. DOMAIN log = 1..Len(log)
  BY <1>1
<1>3. \A i, j \in DOMAIN log : i < j => log[i].id # log[j].id /\ log[i].rev < log[j].rev
  BY <1>1, <1>2 DEF Ordered
<1>4. ~overlapped => log = intended
  BY DEF StoresInv, Alone
<1>5. \A k \in StoreKeys : Get(k) # Gone => Get(k)[1] = k
  BY DEF StoresInv, FilesKeyed
<1> QED
  BY <1>1, <1>3, <1>4, <1>5 DEF StoresAreConsistent

-----------------------------------------------------------------------------
(* What the steps have in common.                                          *)

LEMMA LinesLast ==
  ASSUME NEW r \in Nat, NEW q \in Nat, r <= q, NEW ls, Lines(ls, r)
  PROVE  Lines(ls, q)
<1>1. ls \in Seq(Line) /\ Ordered(ls) /\ \A i \in 1..Len(ls) : ls[i].rev \in Nat /\ ls[i].rev <= r
  BY LineOf
<1>2. \A i \in 1..Len(ls) : ls[i].rev <= q
  BY <1>1
<1> QED
  BY <1>1, <1>2 DEF Lines

LEMMA OneMoves ==
  ASSUME WritersWellFormed, NEW w \in Writers, NEW x, DOMAIN x = WriterFields,
         writer' = [writer EXCEPT ![w] = x]
  PROVE  /\ WritersWellFormed' /\ writer'[w] = x
         /\ \A v \in Writers : v # w => writer'[v] = writer[v]
BY DEF WritersWellFormed

(* A step that leaves the log alone and starts no operation on it.         *)
LEMMA LogQuiet ==
  ASSUME LogOrdered, Alone, rev' \in Nat, rev <= rev', UNCHANGED <<log, intended, overlapped>>,
         \A v \in Writers : Busy(v)' => /\ Busy(v) /\ writer'[v].op = writer[v].op
                                        /\ writer'[v].id = writer[v].id
                                        /\ writer'[v].rev = writer[v].rev
                                        /\ writer'[v].buf = writer[v].buf
  PROVE  LogOrdered' /\ Alone'
<1>1. rev \in Nat /\ Lines(log, rev) /\ Len(log) <= LogCap
  BY DEF LogOrdered
<1>2. Lines(log', rev') /\ Len(log') <= LogCap
  BY <1>1, LinesLast
<1>3. ASSUME NEW v \in Writers, Busy(v)'
      PROVE  /\ writer'[v].id \in TraceIds
             /\ Lines(writer'[v].buf, rev') /\ Len(writer'[v].buf) <= LogCap
  <2>1. /\ writer[v].id \in TraceIds /\ Lines(writer[v].buf, rev) /\ Len(writer[v].buf) <= LogCap
        /\ writer'[v].buf = writer[v].buf /\ writer'[v].id = writer[v].id
    BY <1>3 DEF LogOrdered
  <2> QED
    BY <1>1, <2>1, LinesLast
<1>4. LogOrdered'
  BY <1>2, <1>3 DEF LogOrdered
<1>5. ASSUME ~overlapped'
      PROVE  /\ log' = intended' /\ \A v, w \in Writers : Busy(v)' /\ Busy(w)' => v = w
             /\ \A w \in Writers : Busy(w)' => writer'[w].buf = Outcome(log', writer'[w])
  <2>1. /\ log = intended /\ \A v, w \in Writers : Busy(v) /\ Busy(w) => v = w
        /\ \A w \in Writers : Busy(w) => writer[w].buf = Outcome(log, writer[w])
    BY <1>5 DEF Alone
  <2>2. \A w \in Writers : Busy(w)' => Outcome(log', writer'[w]) = Outcome(log, writer[w])
    BY DEF Outcome
  <2> QED
    BY <2>1, <2>2
<1> QED
  BY <1>4, <1>5 DEF Alone

LEMMA FilesQuiet ==
  ASSUME FilesKeyed, UNCHANGED files,
         \A v \in Writers : writer'[v].op = "set" => writer'[v].id \in StoreKeys
  PROVE  FilesKeyed'
BY DEF FilesKeyed, Get

(* A file written for its key, or removed.                                 *)
LEMMA FilesMove ==
  ASSUME FilesKeyed, NEW f, NEW x, files' = [files EXCEPT ![f] = x],
         x = Gone \/ \A k \in StoreKeys : FilePath(k) = f => x[1] = k,
         \A v \in Writers : writer'[v].op = "set" => writer'[v].id \in StoreKeys
  PROVE  FilesKeyed'
<1>1. DOMAIN files' = FilePaths
  BY DEF FilesKeyed
<1>2. ASSUME NEW k \in StoreKeys, Get(k)' # Gone PROVE Get(k)'[1] = k
  <2>0. FilePath(k) \in FilePaths /\ DOMAIN files = FilePaths
    BY DEF FilePaths, FilesKeyed
  <2>1. CASE FilePath(k) = f
    <3>1. files'[FilePath(k)] = x
      BY <2>0, <2>1
    <3> QED
      BY <1>2, <2>1, <3>1 DEF Get
  <2>2. CASE FilePath(k) # f
    <3>1. files'[FilePath(k)] = files[FilePath(k)]
      BY <2>0, <2>2
    <3>2. files[FilePath(k)] # Gone => files[FilePath(k)][1] = k
      BY DEF FilesKeyed, Get
    <3> QED
      BY <1>2, <3>1, <3>2 DEF Get
  <2> QED
    BY <2>1, <2>2
<1> QED
  BY <1>1, <1>2 DEF FilesKeyed

(* A process that is done, failed or dead leaves no trace of its work.     *)
LEMMA GoesToRest ==
  ASSUME StoresInv, NEW w \in Writers, writer' = [writer EXCEPT ![w] = AtRest]
  PROVE  /\ WritersWellFormed' /\ writer'[w] = AtRest /\ ~Busy(w)'
         /\ \A v \in Writers : v # w => writer'[v] = writer[v]
         /\ \A v \in Writers : Busy(v)' => v # w /\ Busy(v) /\ writer'[v] = writer[v]
         /\ \A v \in Writers : writer'[v].op = "set" => writer'[v].id \in StoreKeys
<1>1. /\ WritersWellFormed' /\ writer'[w] = AtRest
      /\ \A v \in Writers : v # w => writer'[v] = writer[v]
  BY OneMoves, RestIsIdle DEF StoresInv
<1>2. ~Busy(w)' /\ writer'[w].op # "set"
  BY <1>1, RestIsIdle DEF Busy
<1>3. \A v \in Writers : Busy(v)' => v # w /\ Busy(v) /\ writer'[v] = writer[v]
  BY <1>1, <1>2 DEF Busy
<1>4. \A v \in Writers : writer'[v].op = "set" => writer'[v].id \in StoreKeys
  BY <1>1, <1>2 DEF StoresInv, FilesKeyed
<1> QED
  BY <1>1, <1>2, <1>3, <1>4

-----------------------------------------------------------------------------
(* The steps.                                                              *)

(* A save or a delete begins, from the log as it is.                       *)
LEMMA LogBegins ==
  ASSUME StoresInv, NEW w \in Writers, NEW id \in TraceIds, NEW x,
         x.id = id, x.op # "set",
         x.buf = Outcome(log, x), Lines(x.buf, rev'), Len(x.buf) <= LogCap,
         rev' \in Nat, rev <= rev',
         ~Busy(w), WritersWellFormed', writer'[w] = x,
         \A v \in Writers : v # w => writer'[v] = writer[v],
         overlapped' <=> (overlapped \/ \E v \in Writers : Busy(v)),
         UNCHANGED <<log, files, intended>>
  PROVE  StoresInv'
<1>1. /\ WritersWellFormed' /\ writer'[w] = x
      /\ \A v \in Writers : v # w => writer'[v] = writer[v]
  OBVIOUS
<1>2. \A v \in Writers : v # w => (Busy(v)' <=> Busy(v))
  BY <1>1 DEF Busy
<1>3. LogOrdered'
  <2>0. rev \in Nat /\ Lines(log, rev) /\ Len(log) <= LogCap
    BY DEF StoresInv, LogOrdered
  <2>1. Lines(log', rev') /\ Len(log') <= LogCap
    BY <2>0, LinesLast
  <2>2. ASSUME NEW v \in Writers, Busy(v)'
        PROVE  /\ writer'[v].id \in TraceIds
               /\ Lines(writer'[v].buf, rev') /\ Len(writer'[v].buf) <= LogCap
    <3>1. CASE v = w
      BY <1>1, <3>1
    <3>2. CASE v # w
      <4>1. /\ writer[v].id \in TraceIds
            /\ Lines(writer[v].buf, rev) /\ Len(writer[v].buf) <= LogCap
        BY <1>2, <2>2, <3>2 DEF StoresInv, LogOrdered
      <4> QED
        BY <1>1, <2>0, <3>2, <4>1, LinesLast
    <3> QED
      BY <3>1, <3>2
  <2> QED
    BY <2>1, <2>2 DEF LogOrdered
<1>4. Alone'
  <2> SUFFICES ASSUME ~overlapped'
               PROVE  /\ log' = intended' /\ \A u, v \in Writers : Busy(u)' /\ Busy(v)' => u = v
                      /\ \A v \in Writers : Busy(v)' => writer'[v].buf = Outcome(log', writer'[v])
    BY DEF Alone
  <2>1. ~overlapped /\ \A v \in Writers : ~Busy(v)
    OBVIOUS
  <2>2. log = intended
    BY <2>1 DEF StoresInv, Alone
  <2>3. \A v \in Writers : Busy(v)' => v = w
    BY <1>2, <2>1
  <2> QED
    BY <1>1, <2>2, <2>3
<1>5. FilesKeyed'
  <2>1. \A v \in Writers : writer'[v].op = "set" => writer'[v].id \in StoreKeys
    BY <1>1 DEF StoresInv, FilesKeyed
  <2> QED
    BY <2>1, FilesQuiet DEF StoresInv
<1> QED
  BY <1>1, <1>3, <1>4, <1>5 DEF StoresInv

LEMMA BeginSaveStep ==
  ASSUME StoresInv, NEW w \in Writers, NEW id \in TraceIds, BeginSave(w, id)
  PROVE  StoresInv'
<1>0. PICK x : x = [op |-> "save", id |-> id, rev |-> rev + 1, buf |-> Saved(log, id, rev + 1),
                    pc |-> "read"]
  OBVIOUS
<1>1. /\ x.op = "save" /\ x.id = id /\ x.rev = rev + 1 /\ x.buf = Saved(log, id, rev + 1)
      /\ DOMAIN x = WriterFields
  BY <1>0 DEF WriterFields
<1>2. /\ rev' = rev + 1 /\ writer[w] = AtRest /\ writer' = [writer EXCEPT ![w] = x]
      /\ overlapped' <=> (overlapped \/ \E v \in Writers : Busy(v))
      /\ UNCHANGED <<log, files, intended>>
  BY <1>0 DEF BeginSave
<1>3. rev \in Nat /\ rev' \in Nat /\ rev <= rev' /\ Lines(log, rev)
  BY <1>2 DEF StoresInv, LogOrdered
<1>4. x.buf = Outcome(log, x)
  BY <1>1 DEF Outcome
<1>5. Lines(x.buf, rev') /\ Len(x.buf) <= LogCap
  BY <1>1, <1>2, <1>3, SavedMeans
<1>6. ~Busy(w)
  BY <1>2, RestIsIdle DEF Busy
<1>7. /\ WritersWellFormed' /\ writer'[w] = x
      /\ \A v \in Writers : v # w => writer'[v] = writer[v]
  BY <1>1, <1>2, OneMoves DEF StoresInv
<1>8. x.op # "set"
  BY <1>1
<1> QED
  BY <1>1, <1>2, <1>3, <1>4, <1>5, <1>6, <1>7, <1>8, LogBegins

LEMMA BeginDeleteStep ==
  ASSUME StoresInv, NEW w \in Writers, NEW id \in TraceIds, BeginDelete(w, id)
  PROVE  StoresInv'
<1>0. PICK x : x = [op |-> "delete", id |-> id, rev |-> 0, buf |-> Without(log, id),
                    pc |-> "read"]
  OBVIOUS
<1>1. /\ x.op = "delete" /\ x.id = id /\ x.buf = Without(log, id) /\ DOMAIN x = WriterFields
  BY <1>0 DEF WriterFields
<1>2. /\ rev' = rev /\ writer[w] = AtRest /\ writer' = [writer EXCEPT ![w] = x]
      /\ overlapped' <=> (overlapped \/ \E v \in Writers : Busy(v))
      /\ UNCHANGED <<log, files, intended>>
  BY <1>0 DEF BeginDelete
<1>3. /\ rev \in Nat /\ rev' \in Nat /\ rev <= rev' /\ Lines(log, rev)
      /\ Len(log) \in Nat /\ Len(log) <= LogCap
  BY <1>2, LineOf DEF StoresInv, LogOrdered
<1>4. x.buf = Outcome(log, x)
  BY <1>1 DEF Outcome
<1>5. Lines(x.buf, rev') /\ Len(x.buf) <= LogCap
  <2>1. Lines(x.buf, rev) /\ Len(x.buf) <= Len(log)
    BY <1>1, <1>3, WithoutMeans
  <2>2. Len(x.buf) \in Nat /\ LogCap \in Nat
    BY <2>1, LineOf, StoresAssumption
  <2> QED
    BY <1>2, <1>3, <2>1, <2>2
<1>6. ~Busy(w)
  BY <1>2, RestIsIdle DEF Busy
<1>7. /\ WritersWellFormed' /\ writer'[w] = x
      /\ \A v \in Writers : v # w => writer'[v] = writer[v]
  BY <1>1, <1>2, OneMoves DEF StoresInv
<1>8. x.op # "set"
  BY <1>1
<1> QED
  BY <1>1, <1>2, <1>3, <1>4, <1>5, <1>6, <1>7, <1>8, LogBegins

(* A write that is no save or delete begins.                               *)
LEMMA OtherBegins ==
  ASSUME StoresInv, NEW w \in Writers, NEW x, DOMAIN x = WriterFields,
         x.op \notin {"save", "delete"}, x.op = "set" => x.id \in StoreKeys,
         rev' \in Nat, rev <= rev', writer' = [writer EXCEPT ![w] = x],
         UNCHANGED <<log, intended, overlapped>>
  PROVE  /\ WritersWellFormed' /\ LogOrdered' /\ Alone'
         /\ \A v \in Writers : writer'[v].op = "set" => writer'[v].id \in StoreKeys
<1>1. /\ WritersWellFormed' /\ writer'[w] = x
      /\ \A v \in Writers : v # w => writer'[v] = writer[v]
  BY OneMoves DEF StoresInv
<1>2. \A v \in Writers : Busy(v)' => Busy(v) /\ writer'[v] = writer[v]
  BY <1>1 DEF Busy
<1>3. LogOrdered' /\ Alone'
  BY <1>2, LogQuiet DEF StoresInv
<1>4. \A v \in Writers : writer'[v].op = "set" => writer'[v].id \in StoreKeys
  BY <1>1 DEF StoresInv, FilesKeyed
<1> QED
  BY <1>1, <1>3, <1>4

LEMMA BeginSetStep ==
  ASSUME StoresInv, NEW w \in Writers, NEW k \in StoreKeys, BeginSet(w, k)
  PROVE  StoresInv'
<1>0. PICK x : x = [op |-> "set", id |-> k, rev |-> rev + 1, buf |-> <<>>, pc |-> "read"]
  OBVIOUS
<1>1. x.op = "set" /\ x.id = k /\ DOMAIN x = WriterFields
  BY <1>0 DEF WriterFields
<1>2. /\ rev' = rev + 1 /\ writer' = [writer EXCEPT ![w] = x]
      /\ UNCHANGED <<log, files, intended, overlapped>>
  BY <1>0 DEF BeginSet
<1>3. rev' \in Nat /\ rev <= rev'
  BY <1>2 DEF StoresInv, LogOrdered
<1>4. x.op \notin {"save", "delete"} /\ (x.op = "set" => x.id \in StoreKeys)
  BY <1>1
<1>5. /\ WritersWellFormed' /\ LogOrdered' /\ Alone'
      /\ \A v \in Writers : writer'[v].op = "set" => writer'[v].id \in StoreKeys
  BY <1>1, <1>2, <1>3, <1>4, OtherBegins
<1>6. FilesKeyed'
  BY <1>2, <1>5, FilesQuiet DEF StoresInv
<1> QED
  BY <1>5, <1>6 DEF StoresInv

LEMMA BeginClearStep ==
  ASSUME StoresInv, NEW w \in Writers, BeginClear(w)
  PROVE  StoresInv'
<1> DEFINE listed == SetToSeq({f \in FilePaths : files[f] # Gone})
<1>0. PICK x : x = [AtRest EXCEPT !.op = "clear", !.pc = "unlink", !.buf = listed]
  OBVIOUS
<1>2. /\ rev' = rev /\ writer' = [writer EXCEPT ![w] = x]
      /\ UNCHANGED <<log, files, intended, overlapped>>
  BY <1>0 DEF BeginClear
<1> HIDE DEF listed
<1>1. x.op = "clear" /\ DOMAIN x = WriterFields
  BY <1>0 DEF AtRest, WriterFields
<1>3. rev' \in Nat /\ rev <= rev'
  BY <1>2 DEF StoresInv, LogOrdered
<1>4. x.op \notin {"save", "delete"} /\ (x.op = "set" => x.id \in StoreKeys)
  BY <1>1
<1>5. /\ WritersWellFormed' /\ LogOrdered' /\ Alone'
      /\ \A v \in Writers : writer'[v].op = "set" => writer'[v].id \in StoreKeys
  BY <1>1, <1>2, <1>3, <1>4, OtherBegins
<1>6. FilesKeyed'
  BY <1>2, <1>5, FilesQuiet DEF StoresInv
<1> QED
  BY <1>5, <1>6 DEF StoresInv

(* The temporary file: the operation goes on with what it had.             *)
LEMMA WriteTempStep ==
  ASSUME StoresInv, NEW w \in Writers, WriteTemp(w)
  PROVE  StoresInv'
<1>1. /\ writer' = [writer EXCEPT ![w].pc = "temp"]
      /\ UNCHANGED <<log, files, rev, intended, overlapped>>
  BY DEF WriteTemp
<1>0. PICK x : x = [writer[w] EXCEPT !.pc = "temp"]
  OBVIOUS
<1>2. writer' = [writer EXCEPT ![w] = x]
  BY <1>0, <1>1
<1>3. DOMAIN writer[w] = WriterFields
  BY DEF StoresInv, WritersWellFormed
<1>4. /\ DOMAIN x = WriterFields
      /\ x.op = writer[w].op /\ x.id = writer[w].id /\ x.rev = writer[w].rev
      /\ x.buf = writer[w].buf
  BY <1>0, <1>3 DEF WriterFields
<1>5. /\ WritersWellFormed' /\ writer'[w] = x
      /\ \A v \in Writers : v # w => writer'[v] = writer[v]
  BY <1>2, <1>4, OneMoves DEF StoresInv
<1>6. \A v \in Writers : /\ writer'[v].op = writer[v].op /\ writer'[v].id = writer[v].id
                         /\ writer'[v].rev = writer[v].rev /\ writer'[v].buf = writer[v].buf
  BY <1>4, <1>5
<1>7. \A v \in Writers : Busy(v)' => Busy(v)
  BY <1>6 DEF Busy
<1>8. rev' \in Nat /\ rev <= rev'
  BY <1>1 DEF StoresInv, LogOrdered
<1>9. LogOrdered' /\ Alone'
  BY <1>1, <1>6, <1>7, <1>8, LogQuiet DEF StoresInv
<1>10. FilesKeyed'
  <2>1. \A v \in Writers : writer'[v].op = "set" => writer'[v].id \in StoreKeys
    BY <1>6 DEF StoresInv, FilesKeyed
  <2> QED
    BY <1>1, <2>1, FilesQuiet DEF StoresInv
<1> QED
  BY <1>5, <1>9, <1>10 DEF StoresInv

(* The log is replaced by what its reader made of it.                      *)
LEMMA ReplaceLogStep ==
  ASSUME StoresInv, NEW w \in Writers, ReplaceLog(w)
  PROVE  StoresInv'
<1>1. /\ Busy(w) /\ log' = writer[w].buf /\ writer' = [writer EXCEPT ![w] = AtRest]
      /\ UNCHANGED <<files, rev, overlapped>>
      /\ intended' = Outcome(intended, writer[w])
  BY DEF ReplaceLog, Outcome
<1>2. /\ WritersWellFormed' /\ ~Busy(w)'
      /\ \A v \in Writers : Busy(v)' => v # w /\ Busy(v) /\ writer'[v] = writer[v]
      /\ \A v \in Writers : writer'[v].op = "set" => writer'[v].id \in StoreKeys
  BY <1>1, GoesToRest
<1>3. /\ rev \in Nat
      /\ \A v \in Writers : Busy(v) => /\ writer[v].id \in TraceIds
                                       /\ Lines(writer[v].buf, rev)
                                       /\ Len(writer[v].buf) <= LogCap
  BY DEF StoresInv, LogOrdered
<1>4. LogOrdered'
  <2>1. rev' \in Nat /\ Lines(log', rev') /\ Len(log') <= LogCap
    BY <1>1, <1>3
  <2>2. \A v \in Writers : Busy(v)' => /\ writer'[v].id \in TraceIds
                                       /\ Lines(writer'[v].buf, rev')
                                       /\ Len(writer'[v].buf) <= LogCap
    BY <1>1, <1>2, <1>3
  <2> QED
    BY <2>1, <2>2 DEF LogOrdered
<1>5. Alone'
  <2> SUFFICES ASSUME ~overlapped'
               PROVE  /\ log' = intended' /\ \A u, v \in Writers : Busy(u)' /\ Busy(v)' => u = v
                      /\ \A v \in Writers : Busy(v)' => writer'[v].buf = Outcome(log', writer'[v])
    BY DEF Alone
  <2>1. /\ log = intended /\ \A u, v \in Writers : Busy(u) /\ Busy(v) => u = v
        /\ \A v \in Writers : Busy(v) => writer[v].buf = Outcome(log, writer[v])
    BY <1>1 DEF StoresInv, Alone
  <2>2. log' = intended'
    BY <1>1, <2>1
  <2>3. \A v \in Writers : ~Busy(v)'
    BY <1>1, <1>2, <2>1
  <2> QED
    BY <2>2, <2>3
<1>6. FilesKeyed'
  BY <1>1, <1>2, FilesQuiet DEF StoresInv
<1> QED
  BY <1>2, <1>4, <1>5, <1>6 DEF StoresInv

(* A write that failed, a process that died: nothing but its work is lost. *)
LEMMA StopsStep ==
  ASSUME StoresInv, NEW w \in Writers, writer' = [writer EXCEPT ![w] = AtRest],
         UNCHANGED <<log, rev, intended, overlapped>>,
         files' = files \/ ReplaceFile(w)
  PROVE  StoresInv'
<1>1. /\ WritersWellFormed'
      /\ \A v \in Writers : Busy(v)' => v # w /\ Busy(v) /\ writer'[v] = writer[v]
      /\ \A v \in Writers : writer'[v].op = "set" => writer'[v].id \in StoreKeys
  BY GoesToRest
<1>2. rev' \in Nat /\ rev <= rev'
  BY DEF StoresInv, LogOrdered
<1>3. LogOrdered' /\ Alone'
  BY <1>1, <1>2, LogQuiet DEF StoresInv
<1>4. CASE files' = files
  <2>1. FilesKeyed'
    BY <1>1, <1>4, FilesQuiet DEF StoresInv
  <2> QED
    BY <1>1, <1>3, <2>1 DEF StoresInv
<1>5. CASE ReplaceFile(w)
  <2>1. PICK k, x : k = writer[w].id /\ x = <<writer[w].id, writer[w].rev>>
    OBVIOUS
  <2>2. k \in StoreKeys /\ x[1] = k /\ files' = [files EXCEPT ![FilePath(k)] = x]
    BY <1>5, <2>1 DEF ReplaceFile, StoresInv, FilesKeyed
  <2>3. \A l \in StoreKeys : FilePath(l) = FilePath(k) => x[1] = l
    BY <2>2, PathsDiffer
  <2>4. FilesKeyed'
    BY <1>1, <2>2, <2>3, FilesMove DEF StoresInv
  <2> QED
    BY <1>1, <1>3, <2>4 DEF StoresInv
<1> QED
  BY <1>4, <1>5

LEMMA DeleteFileStep ==
  ASSUME StoresInv, NEW w \in Writers, NEW k \in StoreKeys, DeleteFile(w, k)
  PROVE  StoresInv'
<1>1. /\ files' = [files EXCEPT ![FilePath(k)] = Gone]
      /\ UNCHANGED <<log, writer, rev, intended, overlapped>>
  BY DEF DeleteFile
<1>2. WritersWellFormed'
  BY <1>1 DEF StoresInv, WritersWellFormed
<1>3. \A v \in Writers : Busy(v)' => Busy(v) /\ writer'[v] = writer[v]
  BY <1>1 DEF Busy
<1>4. rev' \in Nat /\ rev <= rev'
  BY <1>1 DEF StoresInv, LogOrdered
<1>5. LogOrdered' /\ Alone'
  BY <1>1, <1>3, <1>4, LogQuiet DEF StoresInv
<1>6. \A v \in Writers : writer'[v].op = "set" => writer'[v].id \in StoreKeys
  BY <1>1 DEF StoresInv, FilesKeyed
<1>7. FilesKeyed'
  BY <1>1, <1>6, FilesMove DEF StoresInv
<1> QED
  BY <1>2, <1>5, <1>7 DEF StoresInv

(* clear unlinks the next file it listed, or stops.                        *)
LEMMA UnlinkStep ==
  ASSUME StoresInv, NEW w \in Writers, Unlink(w)
  PROVE  StoresInv'
<1>1. writer[w].op = "clear" /\ UNCHANGED <<log, rev, intended, overlapped>>
  BY DEF Unlink
<1>2. CASE writer' = [writer EXCEPT ![w] = AtRest] /\ files' = files
  BY <1>1, <1>2, StopsStep
<1>3. CASE /\ files' = [files EXCEPT ![Head(writer[w].buf)] = Gone]
           /\ writer' = [writer EXCEPT ![w].buf = Tail(@)]
  <2>1. PICK f, rest : f = Head(writer[w].buf) /\ rest = Tail(writer[w].buf)
    OBVIOUS
  <2>2. PICK x : x = [writer[w] EXCEPT !.buf = rest]
    OBVIOUS
  <2>3. /\ files' = [files EXCEPT ![f] = Gone] /\ writer' = [writer EXCEPT ![w] = x]
    BY <1>3, <2>1, <2>2
  <2>4. DOMAIN writer[w] = WriterFields
    BY DEF StoresInv, WritersWellFormed
  <2>5. DOMAIN x = WriterFields /\ x.op = "clear"
    BY <1>1, <2>2, <2>4 DEF WriterFields
  <2>6. rev' \in Nat /\ rev <= rev'
    BY <1>1 DEF StoresInv, LogOrdered
  <2>7. x.op \notin {"save", "delete"} /\ (x.op = "set" => x.id \in StoreKeys)
    BY <2>5
  <2>8. /\ WritersWellFormed' /\ LogOrdered' /\ Alone'
        /\ \A v \in Writers : writer'[v].op = "set" => writer'[v].id \in StoreKeys
    BY <1>1, <2>3, <2>5, <2>6, <2>7, OtherBegins
  <2>9. FilesKeyed'
    BY <2>3, <2>8, FilesMove DEF StoresInv
  <2> QED
    BY <2>8, <2>9 DEF StoresInv
<1> QED
  BY <1>2, <1>3 DEF Unlink

LEMMA StoresInvStep ==
  ASSUME StoresInv, StoresNext
  PROVE  StoresInv'
<1>1. ASSUME NEW w \in Writers, NEW id \in TraceIds, BeginSave(w, id) \/ BeginDelete(w, id)
      PROVE  StoresInv'
  BY <1>1, BeginSaveStep, BeginDeleteStep
<1>2. ASSUME NEW w \in Writers, NEW k \in StoreKeys, BeginSet(w, k) \/ DeleteFile(w, k)
      PROVE  StoresInv'
  BY <1>2, BeginSetStep, DeleteFileStep
<1>3. ASSUME NEW w \in Writers,
             \/ WriteTemp(w) \/ ReplaceLog(w) \/ WriteFails(w) \/ ReplaceFile(w)
             \/ BeginClear(w) \/ Unlink(w) \/ StoreCrash(w)
      PROVE  StoresInv'
  <2>1. CASE WriteTemp(w)
    BY <2>1, WriteTempStep
  <2>2. CASE ReplaceLog(w)
    BY <2>2, ReplaceLogStep
  <2>3. CASE WriteFails(w)
    BY <2>3, StopsStep DEF WriteFails
  <2>4. CASE ReplaceFile(w)
    <3>1. /\ writer' = [writer EXCEPT ![w] = AtRest] /\ UNCHANGED <<log, rev, intended, overlapped>>
      BY <2>4 DEF ReplaceFile
    <3> QED
      BY <2>4, <3>1, StopsStep
  <2>5. CASE BeginClear(w)
    BY <2>5, BeginClearStep
  <2>6. CASE Unlink(w)
    BY <2>6, UnlinkStep
  <2>7. CASE StoreCrash(w)
    BY <2>7, StopsStep DEF StoreCrash
  <2> QED
    BY <1>3, <2>1, <2>2, <2>3, <2>4, <2>5, <2>6, <2>7
<1> QED
  BY <1>1, <1>2, <1>3 DEF StoresNext

(* Nothing moves, nothing changes.                                         *)
LEMMA StoresInvStutter ==
  ASSUME StoresInv, UNCHANGED storeVars
  PROVE  StoresInv'
<1>1. UNCHANGED <<log, files, writer, rev, intended, overlapped>>
  BY DEF storeVars
<1>2. WritersWellFormed' /\ FilesKeyed'
  BY <1>1 DEF StoresInv, WritersWellFormed, FilesKeyed, Get
<1>3. \A v \in Writers : Busy(v)' => Busy(v) /\ writer'[v] = writer[v]
  BY <1>1 DEF Busy
<1>4. rev' \in Nat /\ rev <= rev'
  BY <1>1 DEF StoresInv, LogOrdered
<1>5. LogOrdered' /\ Alone'
  BY <1>1, <1>3, <1>4, LogQuiet DEF StoresInv
<1> QED
  BY <1>2, <1>5 DEF StoresInv

(* However many processes share the directory, interleave between a read   *)
(* and its write and die anywhere: the log holds each trace once, newest   *)
(* last, within the cap, and is what atomic saves and deletes would have   *)
(* left as long as none overlapped; and no key reads another's file.       *)
THEOREM StoresConsistent == StoresSpec => []StoresAreConsistent
<1>1. StoresInit => StoresInv
  BY StoresInvInit
<1>2. StoresInv /\ [StoresNext]_storeVars => StoresInv'
  BY StoresInvStep, StoresInvStutter
<1>3. StoresInv => StoresAreConsistent
  BY StoresInvImplies
<1> QED
  BY <1>1, <1>2, <1>3, PTL DEF StoresSpec

-----------------------------------------------------------------------------
(* The service.                                                            *)

ProposalStatus == {"pending", "approved", "rejected"}

(* The shape of the queue and of the threads' work.  Which names and which *)
(* candidates there are is left open: nothing depends on what an analysis  *)
(* suggests.                                                               *)
Shape ==
  /\ \E names : proposals \in Seq([name : names, status : ProposalStatus])
  /\ \E pcs, lefts : thread \in [Threads -> [pc : pcs, left : lefts, id : Nat]]
  /\ \A t \in Threads : thread[t].id <= Len(proposals)

(* Proposals that are not rejected have different names.                   *)
OneEach ==
  \A i, j \in 1 .. Len(proposals) :
    /\ proposals[i].name = proposals[j].name
    /\ proposals[i].status # "rejected" /\ proposals[j].status # "rejected"
    => i = j

(* The registry holds what was approved and what came from elsewhere, and  *)
(* the metric counts the difference.                                       *)
Counted ==
  /\ IsFiniteSet(flowNames) /\ outside \subseteq flowNames
  /\ \A i \in 1 .. Len(proposals) :
       proposals[i].status = "approved" => proposals[i].name \in flowNames
  /\ \A f \in flowNames \ outside :
       \E i \in 1 .. Len(proposals) :
         proposals[i].status = "approved" /\ proposals[i].name = f
  /\ promoted = Cardinality(flowNames \ outside)

QueueInv == Shape /\ OneEach /\ Counted /\ Cardinality(Pending) <= MaxPending

-----------------------------------------------------------------------------
(* What Append yields.                                                     *)
LEMMA AppendType ==
  ASSUME NEW T, NEW s \in Seq(T), NEW x \in T
  PROVE  /\ Append(s, x) \in Seq(T) /\ Len(Append(s, x)) = Len(s) + 1 /\ Len(s) \in Nat
         /\ \A i \in 1 .. Len(s) : Append(s, x)[i] = s[i]
         /\ Append(s, x)[Len(s) + 1] = x
OBVIOUS

(* The pending proposals are finitely many.                                *)
LEMMA PendingFinite == ASSUME Shape PROVE IsFiniteSet(Pending) /\ Cardinality(Pending) \in Nat
<1>1. PICK names : proposals \in Seq([name : names, status : ProposalStatus])
  BY DEF Shape
<1>2. Len(proposals) \in Nat /\ DOMAIN proposals = 1 .. Len(proposals)
  BY <1>1
<1>3. IsFiniteSet(1 .. Len(proposals)) /\ Pending \subseteq 1 .. Len(proposals)
  BY <1>2, FS_Interval DEF Pending
<1> QED
  BY <1>3, FS_Subset, FS_CardinalityType

-----------------------------------------------------------------------------
(* What the steps do to a thread and to the queue.                         *)

WorkOf(pc, left, id) == [pc |-> pc, left |-> left, id |-> id]

(* Thread t takes up other work; id is a proposal of the queue or 0.       *)
Turns(t) ==
  \E pc, left, id :
    /\ id \in Nat /\ id <= Len(proposals')
    /\ thread' = [thread EXCEPT ![t] = WorkOf(pc, left, id)]

Appends == \E name : proposals' = Append(proposals, [name |-> name, status |-> "pending"])
Settles(i, status) ==
  i \in 1 .. Len(proposals) /\ proposals' = [proposals EXCEPT ![i].status = status]

Proposal(names) == [name : names, status : ProposalStatus]

(* Every such step leaves a queue, no shorter than it was.                 *)
LEMMA QueueShape ==
  ASSUME Shape, NEW i, NEW status \in ProposalStatus,
         proposals' = proposals \/ Appends \/ Settles(i, status)
  PROVE  /\ \E names : proposals' \in Seq(Proposal(names))
         /\ Len(proposals) \in Nat /\ Len(proposals') \in Nat
         /\ Len(proposals') >= Len(proposals)
<1>1. PICK names : proposals \in Seq(Proposal(names))
  BY DEF Shape, Proposal
<1>n. Len(proposals) \in Nat
  BY <1>1
<1>2. CASE proposals' = proposals
  <2>1. proposals' \in Seq(Proposal(names)) /\ Len(proposals') >= Len(proposals)
    BY <1>1, <1>2, <1>n
  <2> QED
    BY <2>1, <1>n, <1>2
<1>3. CASE Appends
  <2>1. PICK name : proposals' = Append(proposals, [name |-> name, status |-> "pending"])
    BY <1>3 DEF Appends
  <2> DEFINE all == Proposal(names \cup {name})
             new == [name |-> name, status |-> "pending"]
  <2>2. new \in all /\ Proposal(names) \subseteq all
    BY DEF ProposalStatus, Proposal
  <2> HIDE DEF all, new
  <2>3. proposals \in Seq(all)
    BY <1>1, <2>2
  <2>4. proposals' \in Seq(all) /\ Len(proposals') = Len(proposals) + 1
    BY <2>1, <2>2, <2>3, AppendType DEF new
  <2>5. \E ns : proposals' \in Seq(Proposal(ns))
    BY <2>4, Zenon DEF all
  <2> QED
    BY <2>4, <2>5, <1>n
<1>4. CASE Settles(i, status)
  <2>1. proposals[i] \in Proposal(names) /\ i \in 1 .. Len(proposals)
    BY <1>1, <1>4 DEF Settles
  <2>2. [proposals[i] EXCEPT !.status = status] \in Proposal(names)
    BY <2>1 DEF Proposal
  <2>3. proposals' \in Seq(Proposal(names)) /\ Len(proposals') = Len(proposals)
    BY <1>1, <1>4, <2>1, <2>2 DEF Settles
  <2>4. \E ns : proposals' \in Seq(Proposal(ns))
    BY <2>3, Zenon
  <2> QED
    BY <2>3, <2>4, <1>n
<1> QED
  BY <1>2, <1>3, <1>4

Work(pcs, lefts) == [pc : pcs, left : lefts, id : Nat]

(* And every thread's work stays one about a proposal of the queue.        *)
LEMMA ThreadShape ==
  ASSUME Shape, Len(proposals') \in Nat, Len(proposals) \in Nat,
         Len(proposals') >= Len(proposals),
         NEW t \in Threads, thread' = thread \/ Turns(t)
  PROVE  /\ \E pcs, lefts : thread' \in [Threads -> [pc : pcs, left : lefts, id : Nat]]
         /\ \A u \in Threads : thread'[u].id <= Len(proposals')
<1>1. PICK pcs, lefts : thread \in [Threads -> Work(pcs, lefts)]
  BY DEF Shape, Work
<1>2. \A u \in Threads : thread[u].id \in Nat /\ thread[u].id <= Len(proposals)
  BY <1>1 DEF Shape, Work
<1>3. CASE thread' = thread
  <2>1. \E p, l : thread' \in [Threads -> Work(p, l)]
    BY <1>1, <1>3, Zenon
  <2>2. \A u \in Threads : thread'[u].id <= Len(proposals')
    BY <1>2, <1>3
  <2> QED
    BY <2>1, <2>2 DEF Work
<1>4. CASE Turns(t)
  <2>1. PICK pc, left, id :
          /\ id \in Nat /\ id <= Len(proposals')
          /\ thread' = [thread EXCEPT ![t] = WorkOf(pc, left, id)]
    BY <1>4 DEF Turns
  <2> DEFINE w == WorkOf(pc, left, id)
             all == Work(pcs \cup {pc}, lefts \cup {left})
  <2>2. w \in all /\ Work(pcs, lefts) \subseteq all /\ w.id = id
    BY <2>1 DEF Work, WorkOf
  <2> HIDE DEF w, all
  <2>3. thread' = [thread EXCEPT ![t] = w]
    BY <2>1 DEF w
  <2>4. thread' \in [Threads -> all] /\ \A u \in Threads : thread'[u] = IF u = t THEN w ELSE thread[u]
    BY <1>1, <2>2, <2>3
  <2>5. \E p, l : thread' \in [Threads -> Work(p, l)]
    BY <2>4, Zenon DEF all
  <2>6. \A u \in Threads : thread'[u].id <= Len(proposals')
    BY <1>2, <2>1, <2>2, <2>4
  <2> QED
    BY <2>5, <2>6 DEF Work
<1> QED
  BY <1>3, <1>4

-----------------------------------------------------------------------------
(* The steps, by what they do to the queue.                                *)

Elsewhere == UNCHANGED <<flowNames, outside, promoted>>
AtWork == \E t \in Threads : thread' = thread \/ Turns(t)
Quiet == UNCHANGED proposals /\ Elsewhere
Queues == \E c : /\ Accepted(c)
                 /\ proposals' = Append(proposals, [name |-> c.name, status |-> "pending"])
                 /\ Elsewhere
Promotes == UNCHANGED outside /\ \E i \in Pending : Promote(i)
Rejects == Elsewhere /\ \E i \in Pending : proposals' = [proposals EXCEPT ![i].status = "rejected"]
Registers ==
  \E name : /\ name \notin flowNames
            /\ flowNames' = flowNames \cup {name} /\ outside' = outside \cup {name}
            /\ UNCHANGED <<proposals, promoted>>

(* A thread's work is a record, and so a step that changes some of its     *)
(* fields turns the thread to other work.                                  *)
LEMMA WorkIs ==
  ASSUME Shape, NEW t \in Threads
  PROVE  /\ thread[t].id \in Nat /\ thread[t].id <= Len(proposals)
         /\ thread[t] = [pc |-> thread[t].pc, left |-> thread[t].left, id |-> thread[t].id]
<1>1. PICK pcs, lefts : thread \in [Threads -> Work(pcs, lefts)]
  BY DEF Shape, Work
<1>2. thread[t] \in Work(pcs, lefts)
  BY <1>1
<1> QED
  BY <1>2 DEF Shape, Work

LEMMA TurnsTo ==
  ASSUME Shape, NEW t \in Threads, NEW pc, NEW left, NEW id \in Nat, id <= Len(proposals'),
         thread' = [thread EXCEPT ![t] = WorkOf(pc, left, id)]
  PROVE  Turns(t)
BY DEF Turns

LEMMA TurnsAt ==
  ASSUME Shape, NEW t \in Threads, NEW pc, thread[t].id <= Len(proposals'),
         thread' = [thread EXCEPT ![t].pc = pc]
  PROVE  Turns(t)
<1>1. PICK pcs, lefts : thread \in [Threads -> Work(pcs, lefts)]
  BY DEF Shape, Work
<1>w. thread[t] = WorkOf(thread[t].pc, thread[t].left, thread[t].id)
  BY WorkIs DEF WorkOf
<1>2. [thread[t] EXCEPT !.pc = pc] = WorkOf(pc, thread[t].left, thread[t].id)
  BY <1>w DEF WorkOf
<1>3. thread' = [thread EXCEPT ![t] = WorkOf(pc, thread[t].left, thread[t].id)]
  BY <1>1, <1>2, Zenon
<1>4. thread[t].id \in Nat
  BY WorkIs
<1> DEFINE left == thread[t].left
           id == thread[t].id
<1>5. id \in Nat /\ id <= Len(proposals') /\ thread' = [thread EXCEPT ![t] = WorkOf(pc, left, id)]
  BY <1>3, <1>4, Zenon
<1> HIDE DEF left, id
<1> QED
  BY <1>5, Zenon DEF Turns

LEMMA TurnsUpon ==
  ASSUME Shape, NEW t \in Threads, NEW id \in Nat, id <= Len(proposals'),
         thread' = [thread EXCEPT ![t].id = id]
  PROVE  Turns(t)
<1>1. PICK pcs, lefts : thread \in [Threads -> Work(pcs, lefts)]
  BY DEF Shape, Work
<1>w. thread[t] = WorkOf(thread[t].pc, thread[t].left, thread[t].id)
  BY WorkIs DEF WorkOf
<1>2. [thread[t] EXCEPT !.id = id] = WorkOf(thread[t].pc, thread[t].left, id)
  BY <1>w DEF WorkOf
<1>3. thread' = [thread EXCEPT ![t] = WorkOf(thread[t].pc, thread[t].left, id)]
  BY <1>1, <1>2, Zenon
<1>4. thread[t].id \in Nat
  BY WorkIs
<1> QED
  BY <1>3, <1>4, Zenon DEF Turns

LEMMA TurnsOn ==
  ASSUME Shape, NEW t \in Threads, NEW left, NEW id \in Nat, id <= Len(proposals'),
         thread' = [thread EXCEPT ![t].left = left, ![t].id = id]
  PROVE  Turns(t)
<1>1. PICK pcs, lefts : thread \in [Threads -> Work(pcs, lefts)]
  BY DEF Shape, Work
<1>w. thread[t] = WorkOf(thread[t].pc, thread[t].left, thread[t].id)
  BY WorkIs DEF WorkOf
<1> DEFINE one == [thread EXCEPT ![t].left = left]
           w == WorkOf(thread[t].pc, left, thread[t].id)
<1>2. [thread[t] EXCEPT !.left = left] = w
  BY <1>w DEF WorkOf
<1>3. one[t] = w
  BY <1>1, <1>2
<1>4. [one[t] EXCEPT !.id = id] = WorkOf(thread[t].pc, left, id)
  BY <1>3 DEF WorkOf
<1>5. one = [thread EXCEPT ![t] = [thread[t] EXCEPT !.left = left]]
  OBVIOUS
<1>6. thread' = [one EXCEPT ![t] = [one[t] EXCEPT !.id = id]]
  OBVIOUS
<1>7. DOMAIN thread = Threads
  BY <1>1
<1>8. thread' = [thread EXCEPT ![t] = WorkOf(thread[t].pc, left, id)]
  <2> HIDE DEF w
  <2> QED
    BY <1>4, <1>5, <1>6, <1>7, <1>1
<1> QED
  BY <1>8, Zenon DEF Turns

(* Each step is one of these.                                              *)
LEMMA QueueCases ==
  ASSUME Shape, [ServiceNext]_serviceVars
  PROVE  AtWork /\ (Quiet \/ Queues \/ Promotes \/ Rejects \/ Registers)
<1>0. 0 \in Threads /\ Loops \subseteq Threads
  BY DEF Threads
<1>n. PICK names : proposals \in Seq(Proposal(names))
  BY DEF Shape, Proposal
<1>l. Len(proposals) \in Nat /\ DOMAIN proposals = 1 .. Len(proposals)
  BY <1>n
<1>1. ASSUME NEW t \in ServiceTools, Record(t) PROVE AtWork /\ Quiet
  BY <1>0, <1>1 DEF Record, AtWork, Quiet, Elsewhere
<1>2. ASSUME NEW t \in ServiceTools, RegisterServiceTool(t) PROVE AtWork /\ Quiet
  <2>1. thread' = [thread EXCEPT ![0].pc = "observer"] /\ Quiet
    BY <1>2 DEF RegisterServiceTool, Quiet, Elsewhere
  <2>2. Turns(0)
    BY <2>1, <1>0, WorkIs, TurnsAt DEF Quiet
  <2> QED
    BY <2>1, <2>2, <1>0 DEF AtWork
<1>3. ASSUME EndTrace PROVE AtWork /\ Quiet
  BY <1>0, <1>3 DEF EndTrace, AtWork, Quiet, Elsewhere
<1>4. ASSUME NEW t \in Threads, TakeSnapshot(t) PROVE AtWork /\ Quiet
  <2>1. thread' = [thread EXCEPT ![t] = WorkOf(NextPass(thread[t].pc), Snapshot(thread[t].pc), 0)]
    BY <1>4 DEF TakeSnapshot, WorkOf
  <2> QED
    <3>1. Quiet /\ 0 <= Len(proposals')
      BY <1>4, <1>l DEF TakeSnapshot, Quiet, Elsewhere
    <3>2. Turns(t)
      BY <2>1, <3>1, TurnsTo
    <3> QED
      BY <3>1, <3>2 DEF AtWork
<1>5. ASSUME NEW t \in Threads, QueueProposal(t) PROVE AtWork /\ (Quiet \/ Queues)
  <2> DEFINE c == Head(thread[t].left)
             new == [name |-> c.name, status |-> "pending"]
             n == IF Accepted(c) /\ AutoApprove /\ c.sure THEN Len(proposals) + 1 ELSE 0
  <2>1. /\ proposals' = IF Accepted(c) THEN Append(proposals, new) ELSE proposals
        /\ thread' = [thread EXCEPT ![t].left = Tail(@), ![t].id = n]
        /\ Elsewhere
    BY <1>5 DEF QueueProposal, Elsewhere
  <2> HIDE DEF c
  <2>3. n \in Nat /\ n <= Len(proposals')
    <3>1. CASE Accepted(c)
      <4>1. Len(proposals') = Len(proposals) + 1
        BY <2>1, <3>1, <1>n
      <4> QED
        BY <4>1, <1>l
    <3>2. CASE ~Accepted(c)
      BY <2>1, <3>2, <1>l
    <3> QED
      BY <3>1, <3>2
  <2>4. Turns(t)
    <3> DEFINE rest == Tail(thread[t].left)
    <3>1. thread' = [thread EXCEPT ![t].left = rest, ![t].id = n]
      BY <2>1
    <3> HIDE DEF rest, n
    <3> QED
      BY <3>1, <2>3, TurnsOn
  <2>5. Quiet \/ Queues
    BY <2>1 DEF Quiet, Queues
  <2> QED
    BY <2>4, <2>5 DEF AtWork
<1>6. ASSUME NEW t \in Threads, ApproveCreated(t) PROVE AtWork /\ (Quiet \/ Promotes)
  <2> DEFINE i == thread[t].id
  <2>1. i \in Nat /\ i <= Len(proposals) /\ i # 0 /\ UNCHANGED outside
    BY <1>6, WorkIs DEF ApproveCreated
  <2>2. i \in DOMAIN proposals
    BY <2>1, <1>l
  <2>3. CASE proposals[i].status = "pending"
    <3>1. i \in Pending /\ Promote(i) /\ thread' = [thread EXCEPT ![t].id = 0]
      BY <1>6, <2>2, <2>3 DEF ApproveCreated, Pending
    <3>2. 0 <= Len(proposals')
      BY <3>1, <1>n DEF Promote
    <3>3. Turns(t)
      BY <3>1, <3>2, TurnsUpon
    <3> QED
      BY <2>1, <3>1, <3>3 DEF AtWork, Promotes
  <2>4. CASE proposals[i].status # "pending"
    <3> DEFINE pc == IF t = 0 THEN "idle" ELSE "dead"
    <3>1. UNCHANGED <<proposals, flowNames, promoted>>
          /\ thread' = [thread EXCEPT ![t] = [Idle EXCEPT !.pc = pc]]
      BY <1>6, <2>4 DEF ApproveCreated
    <3>2. [Idle EXCEPT !.pc = pc] = WorkOf(pc, <<>>, 0)
      BY DEF Idle, WorkOf
    <3>3. thread' = [thread EXCEPT ![t] = WorkOf(pc, <<>>, 0)]
      BY <3>1, <3>2, Zenon
    <3>l. 0 <= Len(proposals')
      BY <3>1, <1>l
    <3> HIDE DEF pc
    <3>4. Turns(t)
      BY <3>3, <3>l, TurnsTo
    <3> QED
      BY <2>1, <3>1, <3>4 DEF AtWork, Quiet, Elsewhere
  <2> QED
    BY <2>3, <2>4
<1>7. ASSUME NEW t \in Threads, AnalysisCompleted(t) PROVE AtWork /\ Quiet
  <2> DEFINE pc == IF t = 0 THEN "idle" ELSE IF stopping THEN "dead" ELSE "observer"
  <2>1. thread' = [thread EXCEPT ![t].pc = pc] /\ Quiet
    BY <1>7 DEF AnalysisCompleted, Quiet, Elsewhere
  <2> HIDE DEF pc
  <2>2. Turns(t)
    BY <2>1, WorkIs, TurnsAt, <1>l DEF Quiet
  <2> QED
    BY <2>1, <2>2 DEF AtWork
<1>8. ASSUME NEW i, Approve(i) PROVE AtWork /\ Promotes
  BY <1>0, <1>8 DEF Approve, AtWork, Promotes
<1>9. ASSUME NEW i, Reject(i) PROVE AtWork /\ Rejects
  BY <1>0, <1>9 DEF Reject, AtWork, Rejects, Elsewhere
<1>10. ASSUME NEW name, RegisterOutside(name) PROVE AtWork /\ Registers
  BY <1>0, <1>10 DEF RegisterOutside, AtWork, Registers
<1>11. ASSUME NEW t \in Loops, Run(t) PROVE AtWork /\ Quiet
  <2>1. thread' = [thread EXCEPT ![t].pc = "observer"] /\ Quiet /\ t \in Threads
    BY <1>0, <1>11 DEF Run, Quiet, Elsewhere
  <2>2. Turns(t)
    BY <2>1, WorkIs, TurnsAt, <1>l DEF Quiet
  <2> QED
    BY <2>1, <2>2 DEF AtWork
<1>12. ASSUME StopService \/ UNCHANGED serviceVars PROVE AtWork /\ Quiet
  BY <1>0, <1>12 DEF StopService, serviceVars, AtWork, Quiet, Elsewhere
<1> QED
  BY <1>1, <1>2, <1>3, <1>4, <1>5, <1>6, <1>7, <1>8, <1>9, <1>10, <1>11, <1>12, Zenon
     DEF ServiceNext

-----------------------------------------------------------------------------
(* The invariant.                                                          *)

(* Settling a proposal changes its status alone.                           *)
LEMMA SettleMeans ==
  ASSUME Shape, NEW i, NEW status, Settles(i, status)
  PROVE  /\ Len(proposals') = Len(proposals) /\ Len(proposals) \in Nat
         /\ \A j \in 1 .. Len(proposals) :
              /\ proposals'[j].name = proposals[j].name
              /\ proposals'[j].status = IF j = i THEN status ELSE proposals[j].status
<1>1. PICK names : proposals \in Seq(Proposal(names))
  BY DEF Shape, Proposal
<1>2. Len(proposals) \in Nat /\ DOMAIN proposals = 1 .. Len(proposals)
  BY <1>1
<1>3. Len(proposals') = Len(proposals)
  BY <1>1 DEF Settles
<1>4. ASSUME NEW j \in 1 .. Len(proposals)
      PROVE  /\ proposals'[j].name = proposals[j].name
             /\ proposals'[j].status = IF j = i THEN status ELSE proposals[j].status
  <2>1. proposals[j] \in Proposal(names)
    BY <1>1
  <2>2. proposals'[j] = IF j = i THEN [proposals[i] EXCEPT !.status = status] ELSE proposals[j]
    BY <1>1, <1>2 DEF Settles
  <2> QED
    BY <2>1, <2>2 DEF Proposal
<1> QED
  BY <1>2, <1>3, <1>4

(* Queueing adds one pending proposal, whose name no live one has.         *)
LEMMA QueueMeans ==
  ASSUME Shape, Queues
  PROVE  /\ Len(proposals') = Len(proposals) + 1 /\ Len(proposals) \in Nat
         /\ \A j \in 1 .. Len(proposals) : proposals'[j] = proposals[j]
         /\ proposals'[Len(proposals) + 1].status = "pending"
         /\ \A j \in 1 .. Len(proposals) :
              proposals[j].name = proposals'[Len(proposals) + 1].name =>
                proposals[j].status = "rejected"
         /\ Cardinality(Pending) < MaxPending
<1>1. PICK c : /\ Accepted(c)
               /\ proposals' = Append(proposals, [name |-> c.name, status |-> "pending"])
  BY DEF Queues
<1>2. PICK names : proposals \in Seq(Proposal(names))
  BY DEF Shape, Proposal
<1> DEFINE new == [name |-> c.name, status |-> "pending"]
           all == Proposal(names \cup {c.name})
<1>3. Proposal(names) \subseteq all /\ new \in all
  BY DEF Proposal, ProposalStatus
<1>5. new.name = c.name /\ new.status = "pending"
  OBVIOUS
<1> HIDE DEF new, all
<1>4. proposals \in Seq(all)
  BY <1>2, <1>3
<1>6. /\ Len(proposals') = Len(proposals) + 1 /\ Len(proposals) \in Nat
      /\ \A j \in 1 .. Len(proposals) : proposals'[j] = proposals[j]
      /\ proposals'[Len(proposals) + 1] = new
  BY <1>1, <1>3, <1>4, AppendType DEF new
<1>7. DOMAIN proposals = 1 .. Len(proposals)
  BY <1>2
<1>8. /\ \A j \in DOMAIN proposals : proposals[j].name = c.name => proposals[j].status = "rejected"
      /\ Cardinality(Pending) < MaxPending
  BY <1>1 DEF Accepted, IsKnown
<1> QED
  BY <1>5, <1>6, <1>7, <1>8

(* The pending proposals are proposals, and settling them is Settles.      *)
LEMMA SettledBy ==
  ASSUME Shape, Promotes \/ Rejects
  PROVE  \E i \in 1 .. Len(proposals) :
           /\ proposals[i].status = "pending"
           /\ \/ Promotes /\ Promote(i) /\ Settles(i, "approved")
              \/ Rejects /\ Settles(i, "rejected")
<1>1. PICK names : proposals \in Seq(Proposal(names))
  BY DEF Shape, Proposal
<1>2. DOMAIN proposals = 1 .. Len(proposals)
  BY <1>1
<1> QED
  BY <1>2 DEF Promotes, Rejects, Promote, Settles, Pending

LEMMA ShapeStep == Shape /\ [ServiceNext]_serviceVars => Shape'
<1> SUFFICES ASSUME Shape, [ServiceNext]_serviceVars PROVE Shape'
  OBVIOUS
<1>1. \E i : \E status \in ProposalStatus :
        proposals' = proposals \/ Appends \/ Settles(i, status)
  <2>1. "approved" \in ProposalStatus /\ "rejected" \in ProposalStatus
    BY DEF ProposalStatus
  <2>2. Quiet \/ Registers => proposals' = proposals
    BY DEF Quiet, Registers
  <2>3. Queues => Appends
    BY DEF Queues, Appends
  <2> QED
    BY <2>1, <2>2, <2>3, QueueCases, SettledBy
<1>2. /\ \E names : proposals' \in Seq(Proposal(names))
      /\ Len(proposals) \in Nat /\ Len(proposals') \in Nat
      /\ Len(proposals') >= Len(proposals)
  BY <1>1, QueueShape
<1>3. PICK t \in Threads : thread' = thread \/ Turns(t)
  BY QueueCases DEF AtWork
<1>4. /\ \E pcs, lefts : thread' \in [Threads -> [pc : pcs, left : lefts, id : Nat]]
      /\ \A u \in Threads : thread'[u].id <= Len(proposals')
  BY <1>2, <1>3, ThreadShape
<1> QED
  BY <1>2, <1>4 DEF Shape, Proposal

LEMMA OneEachStep == Shape /\ OneEach /\ [ServiceNext]_serviceVars => OneEach'
<1> SUFFICES ASSUME Shape, OneEach, [ServiceNext]_serviceVars PROVE OneEach'
  OBVIOUS
<1>1. ASSUME Quiet \/ Registers PROVE OneEach'
  BY <1>1 DEF Quiet, Registers, OneEach
<1>2. ASSUME Queues PROVE OneEach'
  BY <1>2, QueueMeans DEF OneEach
<1>3. ASSUME Promotes \/ Rejects PROVE OneEach'
  <2>1. PICK i \in 1 .. Len(proposals) :
          /\ proposals[i].status = "pending"
          /\ Settles(i, "approved") \/ Settles(i, "rejected")
    BY <1>3, SettledBy
  <2> QED
    BY <2>1, SettleMeans DEF OneEach
<1> QED
  BY <1>1, <1>2, <1>3, QueueCases

LEMMA CapStep ==
  Shape /\ Cardinality(Pending) <= MaxPending /\ [ServiceNext]_serviceVars
    => (Cardinality(Pending) <= MaxPending)'
<1> SUFFICES ASSUME Shape, Cardinality(Pending) <= MaxPending, [ServiceNext]_serviceVars
             PROVE  Cardinality(Pending') <= MaxPending
  OBVIOUS
<1>f. IsFiniteSet(Pending) /\ Cardinality(Pending) \in Nat /\ MaxPending \in Nat
  BY PendingFinite, ServiceAssumption
<1>s. Shape'
  BY ShapeStep
<1>d. DOMAIN proposals = 1 .. Len(proposals) /\ DOMAIN proposals' = 1 .. Len(proposals')
  <2>1. PICK names : proposals \in Seq(Proposal(names))
    BY DEF Shape, Proposal
  <2>2. PICK later : proposals' \in Seq(Proposal(later))
    BY <1>s DEF Shape, Proposal
  <2> QED
    BY <2>1, <2>2
<1>1. ASSUME Quiet \/ Registers PROVE Cardinality(Pending') <= MaxPending
  <2>1. Pending' = Pending
    BY <1>1 DEF Quiet, Registers, Pending
  <2> QED
    BY <2>1
<1>2. ASSUME Queues PROVE Cardinality(Pending') <= MaxPending
  <2> DEFINE last == Len(proposals) + 1
  <2>1. Pending' = Pending \cup {last} /\ last \notin Pending
    BY <1>2, <1>d, QueueMeans DEF Pending
  <2>2. Cardinality(Pending') = Cardinality(Pending) + 1
    BY <1>f, <2>1, FS_AddElement
  <2> QED
    BY <1>2, <1>f, <2>2, QueueMeans
<1>3. ASSUME Promotes \/ Rejects PROVE Cardinality(Pending') <= MaxPending
  <2>1. PICK i \in 1 .. Len(proposals) : Settles(i, "approved") \/ Settles(i, "rejected")
    BY <1>3, SettledBy
  <2>2. Pending' \subseteq Pending
    BY <1>d, <2>1, SettleMeans, ZenonT(60) DEF Pending
  <2>3. Cardinality(Pending') <= Cardinality(Pending) /\ Cardinality(Pending') \in Nat
    BY <1>f, <2>2, FS_Subset, FS_CardinalityType
  <2> QED
    BY <1>f, <2>3
<1> QED
  BY <1>1, <1>2, <1>3, QueueCases

LEMMA CountedStep == Shape /\ Counted /\ [ServiceNext]_serviceVars => Counted'
<1> SUFFICES ASSUME Shape, Counted, [ServiceNext]_serviceVars PROVE Counted'
  OBVIOUS
<1>f. /\ IsFiniteSet(flowNames) /\ IsFiniteSet(flowNames \ outside)
      /\ promoted = Cardinality(flowNames \ outside) /\ outside \subseteq flowNames
  BY FS_Subset DEF Counted
<1>1. ASSUME Quiet PROVE Counted'
  BY <1>1 DEF Quiet, Elsewhere, Counted
<1>2. ASSUME Queues PROVE Counted'
  <2>1. UNCHANGED <<flowNames, outside, promoted>>
    BY <1>2 DEF Queues, Elsewhere
  <2>2. \A i \in 1 .. Len(proposals') :
          proposals'[i].status = "approved" => proposals'[i].name \in flowNames
    BY <1>2, QueueMeans DEF Counted
  <2>3. \A f \in flowNames \ outside : \E i \in 1 .. Len(proposals') :
          proposals'[i].status = "approved" /\ proposals'[i].name = f
    <3> SUFFICES ASSUME NEW f \in flowNames \ outside
                 PROVE  \E i \in 1 .. Len(proposals') :
                          proposals'[i].status = "approved" /\ proposals'[i].name = f
      OBVIOUS
    <3>1. PICK i \in 1 .. Len(proposals) :
            proposals[i].status = "approved" /\ proposals[i].name = f
      BY DEF Counted
    <3>2. i \in 1 .. Len(proposals') /\ proposals'[i] = proposals[i]
      BY <1>2, QueueMeans
    <3> QED
      BY <3>1, <3>2
  <2> QED
    BY <1>f, <2>1, <2>2, <2>3 DEF Counted
<1>3. ASSUME Rejects PROVE Counted'
  <2>2. UNCHANGED <<flowNames, outside, promoted>>
    BY <1>3 DEF Rejects, Elsewhere
  <2>3. PICK j \in Pending : proposals' = [proposals EXCEPT ![j].status = "rejected"]
    BY <1>3 DEF Rejects
  <2>4. Settles(j, "rejected") /\ proposals[j].status = "pending"
    <3>1. PICK names : proposals \in Seq(Proposal(names))
      BY DEF Shape, Proposal
    <3> QED
      BY <2>3, <3>1 DEF Settles, Pending
  <2>5. \A k \in 1 .. Len(proposals) :
          /\ proposals'[k].name = proposals[k].name
          /\ proposals'[k].status = "approved" <=> proposals[k].status = "approved"
    BY <2>4, SettleMeans
  <2>6. Len(proposals') = Len(proposals)
    BY <2>4, SettleMeans
  <2> QED
    BY <1>f, <2>2, <2>5, <2>6 DEF Counted
<1>4. ASSUME Promotes PROVE Counted'
  <2>1. PICK i \in Pending : Promote(i)
    BY <1>4 DEF Promotes
  <2> DEFINE name == proposals[i].name
  <2>2. Settles(i, "approved") /\ i \in 1 .. Len(proposals)
    <3>1. PICK names : proposals \in Seq(Proposal(names))
      BY DEF Shape, Proposal
    <3> QED
      BY <2>1, <3>1 DEF Settles, Pending, Promote
  <2>3. /\ flowNames' = flowNames \cup {name} /\ outside' = outside
        /\ promoted' = IF name \in flowNames THEN promoted ELSE promoted + 1
    BY <1>4, <2>1 DEF Promote, Promotes
  <2>4. Len(proposals') = Len(proposals) /\ Len(proposals) \in Nat
        /\ \A k \in 1 .. Len(proposals) :
             /\ proposals'[k].name = proposals[k].name
             /\ proposals'[k].status = IF k = i THEN "approved" ELSE proposals[k].status
    BY <2>2, SettleMeans
  <2> HIDE DEF name
  <2>5. IsFiniteSet(flowNames') /\ outside' \subseteq flowNames'
    BY <1>f, <2>3, FS_AddElement
  <2>6. \A k \in 1 .. Len(proposals') :
          proposals'[k].status = "approved" => proposals'[k].name \in flowNames'
    BY <2>3, <2>4 DEF Counted, name
  <2>7. \A f \in flowNames' \ outside' : \E k \in 1 .. Len(proposals') :
          proposals'[k].status = "approved" /\ proposals'[k].name = f
    <3> SUFFICES ASSUME NEW f \in flowNames' \ outside'
                 PROVE  \E k \in 1 .. Len(proposals') :
                          proposals'[k].status = "approved" /\ proposals'[k].name = f
      OBVIOUS
    <3>1. CASE f = name
      BY <3>1, <2>2, <2>4 DEF name
    <3>2. CASE f # name
      <4>1. PICK k \in 1 .. Len(proposals) :
              proposals[k].status = "approved" /\ proposals[k].name = f
        BY <2>3, <3>2 DEF Counted
      <4> QED
        BY <4>1, <2>4
    <3> QED
      BY <3>1, <3>2
  <2>8. promoted' = Cardinality(flowNames' \ outside')
    <3>1. CASE name \in flowNames
      <4>1. flowNames' \ outside' = flowNames \ outside
        BY <2>3, <3>1
      <4> QED
        BY <4>1, <1>f, <2>3, <3>1
    <3>2. CASE name \notin flowNames
      <4>1. /\ flowNames' \ outside' = (flowNames \ outside) \cup {name}
            /\ name \notin flowNames \ outside
        BY <1>f, <2>3, <3>2
      <4>2. Cardinality(flowNames' \ outside') = Cardinality(flowNames \ outside) + 1
        BY <4>1, <1>f, FS_AddElement
      <4> QED
        BY <4>2, <1>f, <2>3, <3>2
    <3> QED
      BY <3>1, <3>2
  <2> QED
    BY <2>5, <2>6, <2>7, <2>8 DEF Counted
<1>5. ASSUME Registers PROVE Counted'
  <2>1. PICK name : /\ name \notin flowNames
                    /\ flowNames' = flowNames \cup {name} /\ outside' = outside \cup {name}
                    /\ UNCHANGED <<proposals, promoted>>
    BY <1>5 DEF Registers
  <2>2. flowNames' \ outside' = flowNames \ outside
    BY <2>1
  <2>3. IsFiniteSet(flowNames') /\ outside' \subseteq flowNames'
    BY <1>f, <2>1, FS_AddElement
  <2> QED
    BY <1>f, <2>1, <2>2, <2>3 DEF Counted
<1> QED
  BY <1>1, <1>2, <1>3, <1>4, <1>5, QueueCases

-----------------------------------------------------------------------------
(* Suggestions: collapsing what lies inside a longer sequence.             *)

Traced ==
  /\ open \in Seq(ServiceTools) /\ traces \in Seq(Seq(ServiceTools))
  /\ steps \in 0 .. MaxSteps /\ Len(open) <= steps
  /\ \A n \in 1 .. Len(traces) : Len(traces[n]) <= MaxSteps

(* The traces are sequences of tools, none longer than the agent's calls.  *)
LEMMA TracedStep == Traced /\ [ServiceNext]_serviceVars => Traced'
<1> SUFFICES ASSUME Traced, [ServiceNext]_serviceVars PROVE Traced'
  OBVIOUS
<1>n. MaxSteps \in Nat
  BY ServiceAssumption
<1>t. /\ open \in Seq(ServiceTools) /\ traces \in Seq(Seq(ServiceTools))
      /\ steps \in 0 .. MaxSteps /\ Len(open) <= steps /\ Len(open) \in Nat
      /\ \A n \in 1 .. Len(traces) : Len(traces[n]) <= MaxSteps
  BY DEF Traced
<1>1. ASSUME NEW t \in ServiceTools, Record(t) PROVE Traced'
  <2>1. open' = Append(open, t) /\ steps' = steps + 1 /\ steps < MaxSteps /\ UNCHANGED traces
    BY <1>1 DEF Record
  <2>2. open' \in Seq(ServiceTools) /\ Len(open') = Len(open) + 1
    BY <1>t, <2>1, AppendType
  <2> QED
    BY <1>n, <1>t, <2>1, <2>2 DEF Traced
<1>2. ASSUME NEW t \in ServiceTools, RegisterServiceTool(t) PROVE Traced'
  BY <1>2, <1>n, <1>t DEF RegisterServiceTool, Traced
<1>3. ASSUME EndTrace PROVE Traced'
  <2> DEFINE ts == Append(traces, open)
  <2>1. /\ traces' = IF Len(ts) > MaxTraces THEN Tail(ts) ELSE ts
        /\ open' = <<>> /\ UNCHANGED steps
    BY <1>3 DEF EndTrace
  <2>a. /\ ts \in Seq(Seq(ServiceTools)) /\ Len(ts) = Len(traces) + 1 /\ Len(traces) \in Nat
        /\ \A n \in 1 .. Len(traces) : ts[n] = traces[n]
        /\ ts[Len(traces) + 1] = open
    <3> DEFINE all == Seq(ServiceTools)
    <3>1. traces \in Seq(all) /\ open \in all
      BY <1>t
    <3> HIDE DEF all
    <3>2. /\ ts \in Seq(all) /\ Len(ts) = Len(traces) + 1 /\ Len(traces) \in Nat
          /\ \A n \in 1 .. Len(traces) : ts[n] = traces[n]
          /\ ts[Len(traces) + 1] = open
      BY <3>1, AppendType
    <3> QED
      BY <3>2 DEF all
  <2> HIDE DEF ts
  <2>2. ts \in Seq(Seq(ServiceTools)) /\ \A n \in 1 .. Len(ts) : Len(ts[n]) <= MaxSteps
    <3> SUFFICES ASSUME NEW n \in 1 .. Len(ts) PROVE Len(ts[n]) <= MaxSteps
      BY <2>a
    <3>1. CASE n = Len(traces) + 1
      BY <1>n, <1>t, <2>a, <3>1
    <3>2. CASE n \in 1 .. Len(traces)
      BY <1>t, <2>a, <3>2
    <3> QED
      BY <3>1, <3>2, <2>a
  <2>3. Len(ts) \in Nat \ {0} /\ ts # <<>>
    BY <2>a
  <2>4. Tail(ts) \in Seq(Seq(ServiceTools)) /\ \A n \in 1 .. Len(Tail(ts)) : Len(Tail(ts)[n]) <= MaxSteps
    <3>1. Tail(ts) \in Seq(Seq(ServiceTools)) /\ Len(Tail(ts)) = Len(ts) - 1
      BY <2>2, <2>3
    <3>2. \A n \in 1 .. Len(ts) - 1 : Tail(ts)[n] = ts[n + 1] /\ n + 1 \in 1 .. Len(ts)
      BY <2>2, <2>3
    <3> QED
      BY <2>2, <3>1, <3>2
  <2>5. traces' \in Seq(Seq(ServiceTools)) /\ \A n \in 1 .. Len(traces') : Len(traces'[n]) <= MaxSteps
    BY <2>1, <2>2, <2>4
  <2>6. open' \in Seq(ServiceTools) /\ steps' \in 0 .. MaxSteps /\ Len(open') <= steps'
    BY <2>1, <1>t, <1>n
  <2> QED
    BY <2>5, <2>6, Zenon DEF Traced
<1>4. ASSUME \/ \E t \in Threads : \/ TakeSnapshot(t) \/ QueueProposal(t)
                                    \/ ApproveCreated(t) \/ AnalysisCompleted(t)
             \/ \E i \in DOMAIN proposals : Approve(i) \/ Reject(i)
             \/ \E i \in DOMAIN proposals : RegisterOutside(proposals[i].name)
             \/ \E t \in Loops : Run(t)
             \/ StopService
             \/ UNCHANGED serviceVars
      PROVE  Traced'
  <2>1. UNCHANGED <<open, traces, steps>>
    BY <1>4 DEF TakeSnapshot, QueueProposal, ApproveCreated, AnalysisCompleted, Approve, Reject,
                RegisterOutside, OperatorCall, Run, StopService, serviceVars
  <2> QED
    BY <2>1 DEF Traced
<1> QED
  BY <1>1, <1>2, <1>3, <1>4, Zenon DEF ServiceNext

(* A part of a part is a part.                                             *)
LEMMA PartOfPart ==
  ASSUME NEW T, NEW p \in Seq(T), NEW q \in Seq(T), NEW r \in Seq(T),
         Positions(q, p) # {}, Positions(r, q) # {}
  PROVE  Positions(r, p) # {}
<1>1. PICK i \in 1 .. (Len(q) - Len(p) + 1) : SubSeq(q, i, i + Len(p) - 1) = p
  BY DEF Positions
<1>2. PICK j \in 1 .. (Len(r) - Len(q) + 1) : SubSeq(r, j, j + Len(q) - 1) = q
  BY DEF Positions
<1>n. Len(p) \in Nat /\ Len(q) \in Nat /\ Len(r) \in Nat /\ i \in Int /\ j \in Int
  OBVIOUS
<1>3. \A k \in 1 .. Len(q) : q[k] = r[j + k - 1]
  BY <1>2, <1>n
<1>4. \A k \in 1 .. Len(p) : p[k] = q[i + k - 1]
  BY <1>1, <1>n
<1> DEFINE m == i + j - 1
           s == SubSeq(r, m, m + Len(p) - 1)
<1>5. m \in 1 .. (Len(r) - Len(p) + 1)
  BY <1>n
<1>6. s \in Seq(T) /\ Len(s) = Len(p) /\ \A k \in 1 .. Len(p) : s[k] = r[m + k - 1]
  BY <1>5, <1>n
<1>7. \A k \in 1 .. Len(p) : s[k] = p[k]
  <2> SUFFICES ASSUME NEW k \in 1 .. Len(p) PROVE s[k] = p[k]
    OBVIOUS
  <2>1. i + k - 1 \in 1 .. Len(q) /\ j + (i + k - 1) - 1 = m + k - 1
    BY <1>n
  <2>2. q[i + k - 1] = r[m + k - 1]
    BY <1>3, <2>1
  <2> QED
    BY <1>4, <1>6, <2>2
<1> HIDE DEF s, m
<1>8. s = p
  BY <1>6, <1>7
<1> QED
  BY <1>5, <1>8 DEF Positions, s

(* A sequence lies inside itself, and only inside ones at least as long.   *)
LEMMA PartsAreShorter ==
  ASSUME NEW T, NEW p \in Seq(T), NEW q \in Seq(T)
  PROVE  /\ Positions(p, p) # {}
         /\ Positions(q, p) # {} => Len(p) <= Len(q)
         /\ Positions(q, p) # {} /\ Len(p) = Len(q) => p = q
<1>n. Len(p) \in Nat /\ Len(q) \in Nat
  OBVIOUS
<1>1. \A s \in Seq(T) : SubSeq(s, 1, Len(s)) = s
  OBVIOUS
<1>2. 1 \in Positions(p, p)
  BY <1>1, <1>n DEF Positions
<1>3. ASSUME Positions(q, p) # {} PROVE Len(p) <= Len(q) /\ (Len(p) = Len(q) => p = q)
  <2>1. PICK i \in 1 .. (Len(q) - Len(p) + 1) : SubSeq(q, i, i + Len(p) - 1) = p
    BY <1>3 DEF Positions
  <2>2. Len(p) <= Len(q) /\ (Len(p) = Len(q) => i = 1)
    BY <2>1, <1>n
  <2>3. Len(p) = Len(q) => SubSeq(q, 1, Len(q)) = p
    BY <2>1, <2>2, <1>n
  <2> QED
    BY <1>1, <2>2, <2>3
<1> QED
  BY <1>2, <1>3

(* A qualifying sequence is one of the traces' own, and not empty.         *)
LEMMA QualifyingAre ==
  ASSUME Traced, NEW p \in Qualifying(traces)
  PROVE  p \in Seq(ServiceTools) /\ Len(p) \in 1 .. MaxSteps
<1>1. p \in Patterns(traces)
  BY DEF Qualifying
<1>2. PICK n \in DOMAIN traces :
        \E i \in DOMAIN traces[n] : p \in PatternsFrom(traces[n], i)
  BY <1>1 DEF Patterns
<1>i. PICK i \in DOMAIN traces[n] : p \in PatternsFrom(traces[n], i)
  BY <1>2
<1>3. PICK j \in (i + MinLength - 1)..Len(traces[n]) : p = SubSeq(traces[n], i, j)
  BY <1>i DEF PatternsFrom
<1>4. DOMAIN traces = 1 .. Len(traces)
  BY DEF Traced
<1>5. traces[n] \in Seq(ServiceTools) /\ Len(traces[n]) <= MaxSteps
  BY <1>2, <1>4 DEF Traced
<1>6. /\ i \in 1 .. Len(traces[n]) /\ Len(traces[n]) \in Nat /\ MinLength \in Nat \ {0}
      /\ MaxSteps \in Nat
  BY <1>i, <1>5, ServiceAssumption
<1> DEFINE s == traces[n]
<1> HIDE DEF s
<1>7. p \in Seq(ServiceTools) /\ Len(p) = j - i + 1
  BY <1>3, <1>5, <1>6 DEF s
<1> QED
  BY <1>3, <1>5, <1>6, <1>7, SMTT(60)

(* Collapsing keeps, for each qualifying sequence, one it lies inside with *)
(* the same count: a longest such one is not collapsed.                    *)
LEMMA Covered == ASSUME Traced PROVE SuggestionsCover
<1> DEFINE occ(p) == Occurrences(traces, p)
           all == Qualifying(traces)
           kept == CollapseSubsumed(traces)
<1>q. \A p \in all : p \in Seq(ServiceTools) /\ Len(p) \in 1 .. MaxSteps
  BY QualifyingAre
<1>k. /\ kept \subseteq all
      /\ \A p \in all : p \in kept <=>
           \A q \in all : ~(Len(p) < Len(q) /\ Positions(q, p) # {} /\ occ(q) = occ(p))
  BY Zenon DEF CollapseSubsumed
<1>g. SuggestionsCover <=>
        /\ \A p \in all : \E q \in kept : Positions(q, p) # {} /\ occ(p) = occ(q)
        /\ \A p, q \in kept : Positions(q, p) # {} /\ occ(p) = occ(q) => p = q
  BY Zenon DEF SuggestionsCover
<1>n. MaxSteps \in Nat
  BY ServiceAssumption
<1> HIDE DEF occ, all, kept
<1>1. ASSUME NEW p \in all
      PROVE  \E q \in kept : Positions(q, p) # {} /\ occ(p) = occ(q)
  <2> DEFINE S == {q \in all : Positions(q, p) # {} /\ occ(q) = occ(p)}
             lens == {Len(q) : q \in S}
  <2>1. p \in S
    BY <1>q, <1>1, PartsAreShorter
  <2>2. lens \in SUBSET (1 .. MaxSteps) /\ lens # {}
    BY <1>q, <2>1
  <2>3. PICK v \in lens : \A w \in lens : w <= v
    <3> HIDE DEF lens
    <3> QED
      BY <1>n, <2>2, LargestExists
  <2>4. PICK q \in S : v = Len(q)
    BY <2>3
  <2>5. q \in kept
    <3> SUFFICES ASSUME NEW r \in all, Len(q) < Len(r), Positions(r, q) # {}, occ(r) = occ(q)
                 PROVE  FALSE
      BY <1>k, <2>4
    <3>1. Positions(r, p) # {}
      BY <1>q, <1>1, <2>4, PartOfPart
    <3>2. Len(r) \in lens
      BY <3>1, <2>4
    <3> QED
      BY <3>2, <2>3, <2>4, <1>q
  <2> QED
    BY <2>4, <2>5
<1>2. ASSUME NEW p \in kept, NEW q \in kept, Positions(q, p) # {}, occ(p) = occ(q)
      PROVE  p = q
  <2>1. p \in all /\ q \in all
    BY <1>k
  <2>2. ~(Len(p) < Len(q))
    BY <1>k, <1>2, <2>1
  <2>3. /\ p \in Seq(ServiceTools) /\ q \in Seq(ServiceTools)
        /\ Len(p) \in Int /\ Len(q) \in Int
    BY <1>q, <2>1
  <2>4. Len(p) <= Len(q)
    BY <1>2, <2>3, PartsAreShorter
  <2>5. Len(p) = Len(q)
    BY <2>2, <2>3, <2>4
  <2> QED
    BY <1>2, <2>3, <2>5, PartsAreShorter
<1> QED
  BY <1>g, <1>1, <1>2

-----------------------------------------------------------------------------
(* A new service has no proposal and no trace.                             *)
LEMMA ServiceStarts == ServiceInit => QueueInv /\ Traced
<1> SUFFICES ASSUME ServiceInit PROVE QueueInv /\ Traced
  OBVIOUS
<1>n. MaxPending \in Nat /\ MaxSteps \in Nat
  BY ServiceAssumption
<1>1. Len(proposals) = 0
  BY DEF ServiceInit
<1>2. Shape
  <2>1. proposals \in Seq([name : {}, status : ProposalStatus])
    BY DEF ServiceInit
  <2>i. Idle \in [pc : {"idle"}, left : {<<>>}, id : Nat]
    BY DEF Idle
  <2>2. thread \in [Threads -> [pc : {"idle"}, left : {<<>>}, id : Nat]]
    BY <2>i DEF ServiceInit
  <2>3. \A t \in Threads : thread[t].id <= Len(proposals)
    BY <1>1 DEF ServiceInit, Idle
  <2>4. \E names : proposals \in Seq([name : names, status : ProposalStatus])
    BY <2>1, Zenon
  <2>5. \E pcs, lefts : thread \in [Threads -> [pc : pcs, left : lefts, id : Nat]]
    BY <2>2, Zenon
  <2> QED
    BY <2>3, <2>4, <2>5, Zenon DEF Shape
<1>3. Counted
  <2>1. flowNames = {} /\ outside = {} /\ promoted = 0
    BY DEF ServiceInit
  <2> QED
    BY <1>1, <2>1, FS_EmptySet DEF Counted
<1>4. Cardinality(Pending) <= MaxPending
  <2>1. Pending = {}
    BY DEF Pending, ServiceInit
  <2> QED
    BY <1>n, <2>1, FS_EmptySet
<1>5. OneEach
  BY <1>1 DEF OneEach
<1>6. Traced
  BY <1>n DEF Traced, ServiceInit
<1> QED
  BY <1>2, <1>3, <1>4, <1>5, <1>6 DEF QueueInv

(* In every reachable state a name has one proposal that is not rejected,  *)
(* the queue is within its cap, the registry holds what was approved or    *)
(* came from elsewhere, flows_promoted counts the former, and the          *)
(* suggestions cover the traces (run_once_from_observer, approve, run and  *)
(* stop, _collapse_subsumed), on any number of threads.                    *)
THEOREM ServiceGoverned == ServiceSpec => []PromotionIsGoverned
<1>1. QueueInv /\ Traced /\ [ServiceNext]_serviceVars => (QueueInv /\ Traced)'
  BY ShapeStep, OneEachStep, CapStep, CountedStep, TracedStep DEF QueueInv
<1>2. QueueInv /\ Traced => PromotionIsGoverned
  <2> SUFFICES ASSUME QueueInv, Traced PROVE PromotionIsGoverned
    OBVIOUS
  <2>1. SuggestionsCover
    BY Covered
  <2>d. DOMAIN proposals = 1 .. Len(proposals)
    <3>1. PICK names : proposals \in Seq(Proposal(names))
      BY DEF QueueInv, Shape, Proposal
    <3> QED
      BY <3>1
  <2> DEFINE live(name) == {i \in DOMAIN proposals : /\ proposals[i].name = name
                                                   /\ proposals[i].status # "rejected"}
             approved == {proposals[i].name : i \in {j \in DOMAIN proposals :
                                                     proposals[j].status = "approved"}}
  <2>2. ASSUME NEW i \in DOMAIN proposals
        PROVE  Cardinality(live(proposals[i].name)) <= 1
    <3>1. \A j, k \in live(proposals[i].name) : j = k
      BY <2>d DEF QueueInv, OneEach
    <3> DEFINE L == live(proposals[i].name)
    <3> HIDE DEF L
    <3>2. CASE L = {}
      BY <3>2, FS_EmptySet DEF L
    <3>3. CASE L # {}
      <4>1. PICK j \in L : TRUE
        BY <3>3
      <4>2. L = {j}
        BY <3>1, <4>1 DEF L
      <4>3. Cardinality(L) = 1
        BY <4>2, FS_Singleton
      <4> QED
        BY <4>3 DEF L
    <3> QED
      BY <3>2, <3>3
  <2>3. approved \subseteq flowNames /\ flowNames \subseteq approved \cup outside
    BY <2>d DEF QueueInv, Counted
  <2>4. Cardinality(Pending) <= MaxPending /\ promoted = Cardinality(flowNames \ outside)
    BY DEF QueueInv, Counted
  <2>5. QueueIsGoverned
    BY <2>2, <2>3, <2>4, Zenon DEF QueueIsGoverned
  <2> QED
    BY <2>1, <2>5 DEF PromotionIsGoverned
<1> QED
  BY <1>1, <1>2, ServiceStarts, PTL DEF ServiceSpec

-----------------------------------------------------------------------------
(* The flow registry: the rebuilt pointer.                                 *)

(* v comes last among T: in rank, and among equal ranks in the listing.    *)
IsLast(v, T) == \A w \in T : Rank[w] < Rank[v] \/ (Rank[w] = Rank[v] /\ w <= v)

(* Every nonempty set of versions has a last one.                          *)
LEMMA LastExists ==
  ASSUME NEW T \in SUBSET Version, T # {}
  PROVE  \E v \in T : IsLast(v, T)
<1> DEFINE W == {U \in SUBSET Version : U # {} /\ ~ \E v \in U : IsLast(v, U)}
<1>1. IsFiniteSet(Version)
  BY FS_Interval, VersionAssumption DEF Version
<1>2. \A U \in SUBSET Version : IsFiniteSet(U)
  BY <1>1, FS_Subset
<1>3. W \subseteq FiniteSubsetsOf(Version)
  BY <1>2 DEF FiniteSubsetsOf
<1>4. SUFFICES ASSUME W # {} PROVE FALSE
  OBVIOUS
<1>5. PICK U \in W : \A X \in W : <<X, U>> \notin StrictSubsetOrdering(Version)
  <2> HIDE DEF W
  <2> QED
    BY <1>3, <1>4, FS_StrictSubsetOrderingWellFounded, WFMin
<1>6. PICK x \in U : TRUE
  OBVIOUS
<1>7. U \ {x} \notin W
  BY <1>2, <1>5, <1>6 DEF StrictSubsetOrdering
<1>8. \A v \in U : v \in Nat /\ Rank[v] \in Nat
  BY VersionAssumption DEF Version
<1>9. CASE U \ {x} = {}
  BY <1>6, <1>8, <1>9 DEF IsLast
<1>10. CASE U \ {x} # {}
  <2>1. PICK y \in U \ {x} : IsLast(y, U \ {x})
    BY <1>7, <1>10
  <2>2. IsLast(x, U) \/ IsLast(y, U)
    BY <2>1, <1>8 DEF IsLast
  <2> QED
    BY <2>1, <2>2, <1>6
<1> QED
  BY <1>9, <1>10

(* A new registry points at a last stored version, or at none.             *)
LEMMA RebuiltLast ==
  /\ Stored = {} => Rebuilt = 0
  /\ Stored # {} => Rebuilt \in Stored /\ IsLast(Rebuilt, Stored)
<1>1. ASSUME Stored # {} PROVE \E v \in Stored : IsLast(v, Stored)
  BY <1>1, LastExists DEF Stored
<1> QED
  BY <1>1 DEF Rebuilt, IsLast

-----------------------------------------------------------------------------
(* Types.                                                                  *)

(* A call in progress names a version of the registry.                     *)
CallNames == call.pc \in {"save", "touch"} => call.v \in Version

(* So does a scan that registers a file.                                   *)
ScanNames == scan.pc \in {"save", "touch"} => scan.new.kind = "flow"

Typed == TypeOK /\ CallNames /\ ScanNames

(* The texts of files, and what a file that parses holds.                  *)
LEMMA TextType ==
  /\ {Absent, Malformed, Invalid} \subseteq Texts
  /\ \A t \in Texts : t.kind = "flow" =>
        t.v \in Version /\ t.body \in 1..MaxEdits /\ t.v \notin Own
  /\ \A t \in Texts : t.kind \notin {"malformed", "absent", "invalid"} => t.kind = "flow"
BY DEF Texts, Absent, Malformed, Invalid

(* The idle scan and the idle call are well-typed.                         *)
LEMMA IdleType ==
  /\ Nothing \in [Version -> Texts]
  /\ NoScan \in ScanStates
  /\ NoCall \in CallStates
<1>1. Nothing \in [Version -> Texts] /\ 0 \in 0..V
  BY TextType, VersionAssumption DEF Nothing
<1> QED
  BY <1>1, TextType DEF NoScan, NoCall, ScanStates, CallStates

(* Initially everything is well-typed.                                     *)
LEMMA TypeInit == Init => Typed
<1>1. 0 \in 0..V /\ 0 \in 0..MaxEdits /\ 0 \in 0..MaxStarts /\ 0 \in 0..MaxCalls
  BY VersionAssumption
<1> QED
  BY <1>1, IdleType, TextType
     DEF Init, Typed, TypeOK, ScanStates, CallStates, CallNames, ScanNames, NoScan, NoCall

(* The operator's calls keep the types.                                    *)
LEMMA OperatorTypes ==
  ASSUME Typed,
         \/ \E v \in Version, h \in Hash \cup {NoHash}, o \in BOOLEAN : RegisterFlow(v, h, o)
         \/ \E v \in Version, s \in Status : UpdateFlowState(v, s)
         \/ \E v \in Version : AcceptDrift(v) \/ DeleteFlow(v)
         \/ \E h \in Hash : RegisterTool(h)
         \/ CallNext
  PROVE  Typed'
<1>t. /\ 0 \in 0..V /\ Version \subseteq 0..V /\ 0 \in 0..MaxEdits
      /\ \A v \in Stored : store[v] \in Flows
      /\ (Begin => calls' \in 0..MaxCalls)
  BY VersionAssumption DEF Typed, TypeOK, ScanStates, CallStates, Version, Stored, Begin
<1>1. ASSUME NEW v \in Version, NEW h \in Hash \cup {NoHash}, NEW o \in BOOLEAN,
             RegisterFlow(v, h, o)
      PROVE  Typed'
  <2>1. [body |-> 0, status |-> "active", snap |-> h] \in Flows
    BY <1>t DEF Flows, Status
  <2>2. store' \in [Version -> Flows \cup {NoFlow}]
    BY <1>1, <2>1 DEF RegisterFlow, Typed, TypeOK, ScanStates, CallStates
  <2> QED
    BY <1>1, <1>t, <2>2, IdleType
       DEF RegisterFlow, Typed, TypeOK, ScanStates, CallStates, CallNames, ScanNames, NoCall
<1>2. ASSUME NEW v \in Version, NEW s \in Status, UpdateFlowState(v, s) PROVE Typed'
  <2>1. [store[v] EXCEPT !.status = s] \in Flows
    BY <1>2, <1>t DEF UpdateFlowState, GetFlow, Flows
  <2> QED
    BY <1>2, <1>t, <2>1, IdleType
       DEF UpdateFlowState, Typed, TypeOK, ScanStates, CallStates, CallNames, ScanNames,
           NoCall
<1>3. ASSUME NEW v \in Version, AcceptDrift(v) PROVE Typed'
  <2>1. [store[v] EXCEPT !.status = "active", !.snap = tool] \in Flows
    BY <1>3, <1>t, ZenonT(60)
       DEF AcceptDrift, GetFlow, Flows, Status, Typed, TypeOK, ScanStates, CallStates
  <2> QED
    BY <1>3, <1>t, <2>1, IdleType
       DEF AcceptDrift, Typed, TypeOK, ScanStates, CallStates, CallNames, ScanNames, NoCall
<1>4. ASSUME NEW v \in Version, DeleteFlow(v) PROVE Typed'
  BY <1>4, <1>t DEF DeleteFlow, Typed, TypeOK, ScanStates, CallStates, CallNames, ScanNames
<1>5. ASSUME NEW h \in Hash, RegisterTool(h) PROVE Typed'
  <2>1. Affected(h) \in SUBSET Version
    BY DEF Affected, Stored
  <2> QED
    BY <1>5, <1>t, <2>1, IdleType, ZenonT(60)
       DEF RegisterTool, Typed, TypeOK, ScanStates, CallStates, CallNames, ScanNames, NoCall
<1>6. ASSUME CallSave PROVE Typed'
  BY <1>6, <1>t DEF CallSave, Typed, TypeOK, ScanStates, CallStates, CallNames, ScanNames
<1>7. ASSUME CallTouch PROVE Typed'
  <2>1. latest' \in 0..V
    BY <1>7, <1>t DEF CallTouch, Pointer, Typed, TypeOK, ScanStates, CallStates, CallNames
  <2> QED
    BY <1>7, <1>t, <2>1, IdleType
       DEF CallTouch, Typed, TypeOK, ScanStates, CallStates, CallNames, ScanNames, NoCall
<1>8. ASSUME MarkNext PROVE Typed'
  <2> PICK v \in call.todo :
             /\ GetFlow(v)
             /\ call' = [call EXCEPT !.pc = "save", !.v = v,
                          !.copy = [store[v] EXCEPT !.status = "needs_review"],
                          !.todo = @ \ {v}]
    BY <1>8 DEF MarkNext
  <2>1. [store[v] EXCEPT !.status = "needs_review"] \in Flows /\ v \in Version
    BY <1>t DEF GetFlow, Flows, Status, Typed, TypeOK, ScanStates, CallStates
  <2> QED
    BY <1>8, <1>t, <2>1
       DEF MarkNext, Typed, TypeOK, ScanStates, CallStates, CallNames, ScanNames
<1>9. ASSUME MarkDone PROVE Typed'
  BY <1>9, <1>t, IdleType
     DEF MarkDone, Typed, TypeOK, ScanStates, CallStates, CallNames, ScanNames, NoCall
<1> QED
  BY <1>1, <1>2, <1>3, <1>4, <1>5, <1>6, <1>7, <1>8, <1>9 DEF CallNext

(* Scans, edits and restarts keep the types.                               *)
LEMMA ScanTypes ==
  ASSUME Typed,
         \/ Restart \/ \E f \in File : Edit(f)
         \/ LoadFromDirectory \/ Watch \/ StopWatch \/ PollerStops \/ ScanNext
  PROVE  Typed'
<1>t. /\ 0 \in 0..V /\ Version \subseteq 0..V /\ 0 \in 0..MaxEdits
      /\ 1..MaxEdits \subseteq 0..MaxEdits /\ FlowFiles \in SUBSET File
      /\ {} \in SUBSET File
  BY VersionAssumption DEF Version, FlowFiles
<1>a. ASSUME scan' \in {Aborted, Died}, known' \in {known, scan.cur},
             UNCHANGED <<store, latest, tool, dir, edits, starts, calls, call>>
      PROVE  Typed'
  <2>1. {Aborted, Died} \subseteq {s \in ScanStates : s.pc \in {"off", "wait", "dead"}}
    <3>1. scan.stop \in BOOLEAN
      BY DEF Typed, TypeOK, ScanStates
    <3>2. Aborted \in ScanStates /\ Aborted.pc \in {"off", "wait"}
      BY <3>1, IdleType DEF Aborted, NoScan, ScanStates
    <3>3. Died \in ScanStates /\ Died.pc \in {"off", "dead"}
      BY IdleType DEF Died, NoScan, ScanStates
    <3> QED
      BY <3>2, <3>3
  <2>2. known' \in [Version -> Texts]
    BY <1>a DEF Typed, TypeOK, ScanStates
  <2> QED
    BY <1>a, <2>1, <2>2 DEF Typed, TypeOK, CallNames, ScanNames
<1>1. ASSUME Restart PROVE Typed'
  <2>1. latest' \in 0..V
    BY <1>1, <1>t, RebuiltLast DEF Restart, Stored
  <2>2. starts' \in 0..MaxStarts
    BY <1>1, VersionAssumption DEF Restart, Typed, TypeOK, ScanStates, CallStates
  <2> QED
    BY <1>1, <1>t, <2>1, <2>2, IdleType
       DEF Restart, Typed, TypeOK, ScanStates, CallStates, CallNames, ScanNames, NoScan, NoCall
<1>2. ASSUME NEW f \in File, Edit(f) PROVE Typed'
  <2>1. edits' \in 0..MaxEdits
    BY <1>2, VersionAssumption DEF Edit, Typed, TypeOK, ScanStates, CallStates
  <2>2. dir' \in [File -> Texts]
    BY <1>2 DEF Edit, Typed, TypeOK, ScanStates, CallStates
  <2> QED
    BY <1>2, <2>1, <2>2 DEF Edit, Typed, TypeOK, ScanStates, CallStates, CallNames, ScanNames
<1>3. ASSUME LoadFromDirectory \/ Watch PROVE Typed'
  <2>1. starts' \in 0..MaxStarts
    BY <1>3, VersionAssumption
       DEF LoadFromDirectory, Watch, Typed, TypeOK, ScanStates, CallStates
  <2>2. scan' \in ScanStates /\ scan'.pc \in {"raw", "wait"}
    BY <1>3, <1>t, IdleType DEF LoadFromDirectory, Watch, NoScan, ScanStates
  <2> QED
    BY <1>3, <2>1, <2>2 DEF LoadFromDirectory, Watch, Typed, TypeOK, CallNames, ScanNames
<1>4. ASSUME StopWatch \/ PollerStops PROVE Typed'
  BY <1>4, <1>t, IdleType, ZenonT(60)
     DEF StopWatch, PollerStops, Typed, TypeOK, ScanStates, CallStates, CallNames, ScanNames,
         NoScan
<1>5. ASSUME BeginScan PROVE Typed'
  BY <1>5, <1>t, IdleType
     DEF BeginScan, Typed, TypeOK, ScanStates, CallStates, CallNames, ScanNames
<1>6. ASSUME ReadBytes PROVE Typed'
  <2> PICK f \in File :
        scan' = IF dir[f] = Absent THEN Died ELSE [scan EXCEPT !.pc = "load", !.raw = dir[f]]
    BY <1>6 DEF ReadBytes
  <2>1. dir[f] \in Texts
    BY DEF Typed, TypeOK, ScanStates, CallStates
  <2>2. CASE dir[f] = Absent
    BY <1>6, <1>a, <2>2 DEF ReadBytes
  <2>3. CASE dir[f] # Absent
    BY <1>6, <2>1, <2>3
       DEF ReadBytes, Typed, TypeOK, ScanStates, CallStates, CallNames, ScanNames
  <2> QED
    BY <2>2, <2>3
<1>7. ASSUME LoadFile PROVE Typed'
  <2> PICK f \in File :
        scan' = CASE dir[f].kind = "malformed" -> Aborted
                  [] dir[f].kind \in {"absent", "invalid"} -> Died
                  [] OTHER ->
                       IF Duplicate(dir[f].v) THEN Aborted
                       ELSE [scan EXCEPT !.cur[dir[f].v] = scan.raw, !.raw = Absent,
                               !.pc = IF Changed(dir[f].v) THEN "save" ELSE "raw",
                               !.new = IF Changed(dir[f].v) THEN dir[f] ELSE Absent,
                               !.todo = @ \ {f}]
    BY <1>7 DEF LoadFile
  <2>1. dir[f] \in Texts
    BY DEF Typed, TypeOK, ScanStates, CallStates
  <2>2. CASE scan' \in {Aborted, Died}
    BY <1>7, <1>a, <2>2 DEF LoadFile
  <2>3. CASE scan' \notin {Aborted, Died}
    <3>1. /\ dir[f].kind = "flow"
          /\ scan' = [scan EXCEPT !.cur[dir[f].v] = scan.raw, !.raw = Absent,
                               !.pc = IF Changed(dir[f].v) THEN "save" ELSE "raw",
                               !.new = IF Changed(dir[f].v) THEN dir[f] ELSE Absent,
                               !.todo = @ \ {f}]
      BY <2>1, <2>3, TextType
    <3>2. [scan.cur EXCEPT ![dir[f].v] = scan.raw] \in [Version -> Texts]
      BY DEF Typed, TypeOK, ScanStates, CallStates
    <3>3. scan' \in ScanStates
      <4>1. /\ scan.raw \in Texts /\ Absent \in Texts
            /\ scan.todo \ {f} \in SUBSET File
        BY TextType DEF Typed, TypeOK, ScanStates
      <4> DEFINE new == IF Changed(dir[f].v) THEN dir[f] ELSE Absent
                 pc == IF Changed(dir[f].v) THEN "save" ELSE "raw"
      <4>2. new \in Texts /\ pc \in {"save", "raw"}
        BY <2>1, <4>1
      <4>3. scan' = [scan EXCEPT !.cur = [scan.cur EXCEPT ![dir[f].v] = scan.raw],
                       !.raw = Absent, !.pc = pc, !.new = new, !.todo = scan.todo \ {f}]
        BY <3>1 DEF Typed, TypeOK, ScanStates
      <4> HIDE DEF new, pc
      <4> QED
        BY <3>2, <4>1, <4>2, <4>3 DEF Typed, TypeOK, ScanStates
    <3>4. ScanNames'
      BY <3>1, <2>1 DEF ScanNames, Typed, TypeOK, ScanStates, CallStates
    <3> QED
      BY <1>7, <3>3, <3>4 DEF LoadFile, Typed, TypeOK, ScanStates, CallStates, CallNames
  <2> QED
    BY <2>2, <2>3
<1>8. ASSUME ScanSave PROVE Typed'
  <2>1. [body |-> scan.new.body, status |-> "active", snap |-> NoHash] \in Flows
    BY <1>8, <1>t, TextType
       DEF ScanSave, Typed, TypeOK, ScanStates, CallStates, ScanNames, Flows, Status
  <2>2. store' \in [Version -> Flows \cup {NoFlow}]
    BY <1>8, <2>1 DEF ScanSave, Typed, TypeOK, ScanStates, CallStates
  <2> QED
    BY <1>8, <2>2 DEF ScanSave, Typed, TypeOK, ScanStates, CallStates, CallNames, ScanNames
<1>9. ASSUME ScanTouch PROVE Typed'
  <2>1. scan.new.v \in 0..V
    BY <1>9, <1>t, TextType DEF ScanTouch, Typed, TypeOK, ScanStates, CallStates, ScanNames
  <2>2. latest' \in 0..V
    BY <1>9, <2>1 DEF ScanTouch, Pointer, Typed, TypeOK, ScanStates, CallStates
  <2> QED
    BY <1>9, <1>t, <2>2, TextType
       DEF ScanTouch, Typed, TypeOK, ScanStates, CallStates, CallNames, ScanNames
<1>10. ASSUME EndScan PROVE Typed'
  BY <1>10, <1>a DEF EndScan
<1> QED
  BY <1>1, <1>2, <1>3, <1>4, <1>5, <1>6, <1>7, <1>8, <1>9, <1>10 DEF ScanNext

(* Every step keeps the types.                                             *)
LEMMA TypeStep == Typed /\ [Next]_vars => Typed'
<1> SUFFICES ASSUME Typed, [Next]_vars PROVE Typed'
  OBVIOUS
<1>1. CASE UNCHANGED vars
  BY <1>1 DEF vars, Typed, TypeOK, CallNames, ScanNames
<1> QED
  BY <1>1, OperatorTypes, ScanTypes DEF Next

(* Every value the registry, its poller and its executor hold is one its   *)
(* type allows; a flow is stored whole.                                    *)
THEOREM RegistryTypes == Spec => []TypeOK
<1>1. Typed => TypeOK
  BY DEF Typed
<1> QED
  BY TypeInit, TypeStep, <1>1, PTL DEF Spec

-----------------------------------------------------------------------------
(* The latest pointer.  A registration saves first and moves the pointer   *)
(* after, so in between the saved version alone may outrank the pointer,   *)
(* and the pointer is still the one the registration has read, since calls *)
(* and scans keep out of each other's way.                                 *)

Registering(v) == \/ call.pc = "touch" /\ v = call.v
                  \/ scan.pc = "touch" /\ v = scan.new.v

Outranked(v) == latest # 0 /\ Rank[v] <= Rank[latest]

PointerInv ==
  /\ ~(Calling /\ Scanning)
  /\ call.pc = "touch" => call.seen = latest
  /\ scan.pc = "touch" => scan.seen = latest
  /\ \A v \in Stored : Outranked(v) \/ Registering(v)

(* A touch with the current pointer leaves it at a version that neither    *)
(* the touched one nor any outranked one outranks.                         *)
LEMMA TouchRaises ==
  ASSUME latest \in 0..V, NEW v \in Version, latest' = Pointer(latest, v)
  PROVE  /\ latest' \in Version /\ Rank[v] <= Rank[latest']
         /\ \A w \in Version : Outranked(w) => Rank[w] <= Rank[latest']
<1>1. latest # 0 => latest \in Version
  BY DEF Version
<1>2. \A w \in Version : Rank[w] \in Nat /\ w # 0
  BY VersionAssumption DEF Version
<1> QED
  BY <1>1, <1>2 DEF Pointer, TouchLatest, Outranked

(* A restart leaves the pointer at a highest stored version, if there is   *)
(* one.                                                                    *)
LEMMA RestartRanks ==
  ASSUME Restart
  PROVE  Stored # {} => latest' \in Stored /\ \A w \in Stored : Rank[w] <= Rank[latest']
<1> SUFFICES ASSUME Stored # {}
             PROVE  latest' \in Stored /\ \A w \in Stored : Rank[w] <= Rank[latest']
  OBVIOUS
<1>1. latest' \in Stored /\ IsLast(latest', Stored)
  BY RebuiltLast DEF Restart
<1>2. \A w \in Stored : Rank[w] \in Nat
  BY VersionAssumption DEF Stored, Version
<1> QED
  BY <1>1, <1>2 DEF IsLast

(* The operator's calls keep the pointer highest.                          *)
LEMMA PointerOperator ==
  ASSUME Serial, Typed, PointerInv,
         \/ \E v \in Version, h \in Hash \cup {NoHash}, o \in BOOLEAN : RegisterFlow(v, h, o)
         \/ \E v \in Version, s \in Status : UpdateFlowState(v, s)
         \/ \E v \in Version : AcceptDrift(v) \/ DeleteFlow(v)
         \/ \E h \in Hash : RegisterTool(h)
         \/ CallNext
  PROVE  PointerInv'
<1>f. Begin => call.pc = "none" /\ scan.pc \notin {"raw", "load", "save", "touch"}
  BY DEF Begin, Free, Calling, Scanning
<1> USE DEF PointerInv, Calling, Scanning, Registering, Outranked, Stored
<1>1. ASSUME NEW v \in Version, NEW h \in Hash \cup {NoHash}, NEW o \in BOOLEAN,
             RegisterFlow(v, h, o)
      PROVE  PointerInv'
  <2>1. \A w \in Version \ {v} : store'[w] = store[w]
    BY <1>1 DEF RegisterFlow, Typed, TypeOK
  <2> QED
    BY <1>1, <1>f, <2>1 DEF RegisterFlow, NoCall
<1>2. ASSUME NEW v \in Version, NEW s \in Status, UpdateFlowState(v, s) PROVE PointerInv'
  BY <1>2, <1>f DEF UpdateFlowState, NoCall
<1>3. ASSUME NEW v \in Version, AcceptDrift(v) PROVE PointerInv'
  BY <1>3, <1>f DEF AcceptDrift, NoCall
<1>4. ASSUME NEW v \in Version, DeleteFlow(v) PROVE PointerInv'
  <2>1. \A w \in Version : store'[w] # NoFlow => store[w] # NoFlow
    BY <1>4 DEF DeleteFlow, Typed, TypeOK
  <2> QED
    BY <1>4, <1>f, <2>1 DEF DeleteFlow
<1>5. ASSUME NEW h \in Hash, RegisterTool(h) PROVE PointerInv'
  BY <1>5, <1>f DEF RegisterTool, NoCall
<1>6. ASSUME CallSave PROVE PointerInv'
  <2>1. \A w \in Version \ {call.v} : store'[w] = store[w]
    BY <1>6 DEF CallSave, Typed, TypeOK
  <2>2. call'.pc = "touch" /\ call'.v = call.v /\ call'.seen = latest
    BY <1>6 DEF CallSave, Typed, TypeOK, CallStates
  <2> QED
    BY <1>6, <2>1, <2>2 DEF CallSave
<1>7. ASSUME CallTouch PROVE PointerInv'
  <2>1. call'.pc \in {"none", "drift"} /\ call.v \in Version /\ latest' = Pointer(latest, call.v)
    BY <1>7 DEF CallTouch, NoCall, Typed, TypeOK, CallStates, CallNames
  <2>2. latest' \in Version /\ \A w \in Stored : Rank[w] <= Rank[latest']
    BY <1>7, <2>1, TouchRaises DEF CallTouch, Typed, TypeOK
  <2>3. latest' # 0
    BY <2>2 DEF Version
  <2> QED
    BY <1>7, <2>1, <2>2, <2>3 DEF CallTouch
<1>8. ASSUME MarkNext PROVE PointerInv'
  <2>1. call'.pc = "save"
    BY <1>8 DEF MarkNext, Typed, TypeOK, CallStates
  <2> QED
    BY <1>8, <2>1 DEF MarkNext
<1>9. ASSUME MarkDone PROVE PointerInv'
  BY <1>9 DEF MarkDone, NoCall
<1> QED
  BY <1>1, <1>2, <1>3, <1>4, <1>5, <1>6, <1>7, <1>8, <1>9 DEF CallNext

(* So do scans, edits and restarts.                                        *)
LEMMA PointerScan ==
  ASSUME Serial, Typed, PointerInv,
         \/ Restart \/ \E f \in File : Edit(f)
         \/ LoadFromDirectory \/ Watch \/ StopWatch \/ PollerStops \/ ScanNext
  PROVE  PointerInv'
<1> USE DEF PointerInv, Calling, Scanning, Registering, Outranked, Stored
<1>a. ASSUME UNCHANGED <<store, latest, call>>, scan'.pc # "touch", scan.pc # "touch",
             Calling => ~Scanning'
      PROVE  PointerInv'
  BY <1>a
<1>b. Aborted.pc \in {"off", "wait"} /\ Died.pc \in {"off", "dead"}
  BY DEF Aborted, Died, NoScan
<1>1. ASSUME Restart PROVE PointerInv'
  <2>1. Stored # {} => latest' # 0 /\ \A w \in Stored : Rank[w] <= Rank[latest']
    BY <1>1, RestartRanks DEF Version
  <2> QED
    BY <1>1, <2>1 DEF Restart, NoScan, NoCall
<1>2. ASSUME NEW f \in File, Edit(f) PROVE PointerInv'
  BY <1>2 DEF Edit
<1>3. ASSUME LoadFromDirectory \/ Watch PROVE PointerInv'
  BY <1>3, <1>a DEF LoadFromDirectory, Watch, NoScan, Free
<1>4. ASSUME StopWatch PROVE PointerInv'
  <2>1. scan'.pc = scan.pc
    BY <1>4 DEF StopWatch, Typed, TypeOK, ScanStates
  <2> QED
    BY <1>4, <1>a, <2>1 DEF StopWatch, Free
<1>5. ASSUME PollerStops PROVE PointerInv'
  BY <1>5, <1>a DEF PollerStops, NoScan
<1>6. ASSUME BeginScan PROVE PointerInv'
  <2>1. scan'.pc = "raw"
    BY <1>6 DEF BeginScan, Typed, TypeOK, ScanStates
  <2> QED
    BY <1>6, <1>a, <2>1 DEF BeginScan
<1>7. ASSUME ReadBytes PROVE PointerInv'
  <2>1. scan'.pc # "touch" /\ ~Calling
    BY <1>7, <1>b DEF ReadBytes, Typed, TypeOK, ScanStates
  <2> QED
    BY <1>7, <1>a, <2>1 DEF ReadBytes
<1>8. ASSUME LoadFile PROVE PointerInv'
  <2>1. scan'.pc # "touch" /\ ~Calling
    BY <1>8, <1>b DEF LoadFile, Typed, TypeOK, ScanStates
  <2> QED
    BY <1>8, <1>a, <2>1 DEF LoadFile
<1>9. ASSUME ScanSave PROVE PointerInv'
  <2>1. \A w \in Version \ {scan.new.v} : store'[w] = store[w]
    BY <1>9 DEF ScanSave, Typed, TypeOK
  <2>2. scan'.pc = "touch" /\ scan'.new = scan.new /\ scan'.seen = latest
    BY <1>9 DEF ScanSave, Typed, TypeOK, ScanStates
  <2> QED
    BY <1>9, <2>1, <2>2 DEF ScanSave
<1>10. ASSUME ScanTouch PROVE PointerInv'
  <2>1. scan'.pc = "raw" /\ latest' = Pointer(latest, scan.new.v) /\ ~Calling
    BY <1>10 DEF ScanTouch, Typed, TypeOK, ScanStates
  <2>2. scan.new.v \in Version
    BY <1>10, TextType DEF ScanTouch, Typed, TypeOK, ScanStates, ScanNames
  <2>3. latest' \in Version /\ \A w \in Stored : Rank[w] <= Rank[latest']
    BY <1>10, <2>1, <2>2, TouchRaises DEF ScanTouch, Typed, TypeOK
  <2>4. latest' # 0
    BY <2>3 DEF Version
  <2> QED
    BY <1>10, <2>1, <2>3, <2>4 DEF ScanTouch
<1>11. ASSUME EndScan PROVE PointerInv'
  BY <1>11, <1>a, <1>b DEF EndScan
<1> QED
  BY <1>1, <1>2, <1>3, <1>4, <1>5, <1>6, <1>7, <1>8, <1>9, <1>10, <1>11 DEF ScanNext

(* A new registry on an empty store has nothing to outrank its pointer.    *)
LEMMA PointerInit == Init => PointerInv
BY DEF Init, PointerInv, Calling, Scanning, NoScan, NoCall, Stored

(* Every step keeps the pointer highest.                                   *)
LEMMA PointerStep == Serial /\ Typed /\ PointerInv /\ [Next]_vars => PointerInv'
<1> SUFFICES ASSUME Serial, Typed, PointerInv, [Next]_vars PROVE PointerInv'
  OBVIOUS
<1>1. CASE UNCHANGED vars
  BY <1>1 DEF vars, PointerInv, Calling, Scanning, Registering, Outranked, Stored
<1> QED
  BY <1>1, PointerOperator, PointerScan DEF Next

(* The pointer is always highest.                                          *)
LEMMA PointerSpec == ASSUME Serial PROVE Spec => [](Typed /\ PointerInv)
BY TypeInit, TypeStep, PointerInit, PointerStep, PTL DEF Spec

(* Between registrations no stored version outranks the pointer, when the  *)
(* operator keeps its calls out of the scans: get_flow without a version   *)
(* answers with a highest one.                                             *)
THEOREM RegistryLatest == ASSUME Serial PROVE Spec => []LatestIsHighest
<1>1. Typed /\ PointerInv => LatestIsHighest
  BY DEF PointerInv, LatestIsHighest, Registering, Outranked, Calling
<1> QED
  BY PointerSpec, <1>1, PTL

(* A restart between registrations keeps the rank of what is served.       *)
THEOREM RegistryRestart == ASSUME Serial PROVE Spec => RestartKeepsLatest
<1>1. ASSUME Typed, PointerInv, Next, starts' # starts,
             ~Calling, scan.pc # "touch", latest \in Stored
      PROVE  latest' # 0 /\ Rank[latest'] = Rank[latest]
  <2>1. latest # 0 /\ \A w \in Stored : Rank[w] <= Rank[latest] /\ Rank[w] \in Nat /\ w # 0
    BY <1>1, VersionAssumption
       DEF PointerInv, Registering, Outranked, Calling, Stored, Version
  <2>2. CASE Restart
    BY <1>1, <2>1, <2>2, RestartRanks
  <2>3. CASE LoadFromDirectory \/ Watch
    BY <2>1, <2>3 DEF LoadFromDirectory, Watch
  <2>4. Restart \/ LoadFromDirectory \/ Watch
    BY <1>1
       DEF Next, RegisterFlow, UpdateFlowState, AcceptDrift, DeleteFlow, RegisterTool, Begin,
         CallNext, CallSave, CallTouch, MarkNext, MarkDone, Edit, StopWatch, PollerStops,
         ScanNext, BeginScan, ReadBytes, LoadFile, ScanSave, ScanTouch, EndScan
  <2> QED
    BY <2>2, <2>3, <2>4
<1>2. Typed /\ PointerInv /\ [Next]_vars =>
        [starts' # starts /\ ~Calling /\ scan.pc # "touch" /\ latest \in Stored
           => latest' # 0 /\ Rank[latest'] = Rank[latest]]_vars
  BY <1>1 DEF vars
<1> QED
  BY PointerSpec, <1>2, PTL DEF Spec, RestartKeepsLatest

-----------------------------------------------------------------------------
(* Schema drift.  While register_tool visits the versions, each one with   *)
(* another snapshot is still to be visited, in hand, or out of service.    *)

Drifts == call.pc # "none" /\ tool # NoHash /\ call.hash \notin {NoHash, tool}

OutOfService(v) == store[v].snap \in {NoHash, call.hash} \/ store[v].status # "active"

DriftInv ==
  /\ call.pc = "save" /\ call.hash # NoHash => call.copy.status = "needs_review"
  /\ Drifts => \A v \in Version : \/ OutOfService(v) \/ v \in call.todo
                                  \/ call.pc = "save" /\ v = call.v

(* Every step keeps the review sound, whether or not scans overlap it.     *)
LEMMA DriftStep == Typed /\ DriftInv /\ [Next]_vars => DriftInv'
<1> SUFFICES ASSUME Typed, DriftInv, [Next]_vars PROVE DriftInv'
  OBVIOUS
<1>f. Begin => call.pc = "none"
  BY DEF Begin, Free, Calling
<1>t. call \in CallStates /\ store \in [Version -> Flows \cup {NoFlow}]
  BY DEF Typed, TypeOK
<1> USE DEF DriftInv, Drifts, OutOfService
<1>1. ASSUME NEW v \in Version, NEW h \in Hash \cup {NoHash}, NEW o \in BOOLEAN,
             RegisterFlow(v, h, o)
      PROVE  DriftInv'
  BY <1>1 DEF RegisterFlow, NoCall
<1>2. ASSUME NEW v \in Version, NEW s \in Status, UpdateFlowState(v, s) PROVE DriftInv'
  BY <1>2 DEF UpdateFlowState, NoCall
<1>3. ASSUME NEW v \in Version, AcceptDrift(v) PROVE DriftInv'
  BY <1>3 DEF AcceptDrift, NoCall
<1>4. ASSUME NEW v \in Version, DeleteFlow(v) PROVE DriftInv'
  BY <1>4, <1>f DEF DeleteFlow
<1>5. ASSUME NEW h \in Hash, RegisterTool(h) PROVE DriftInv'
  <2>1. /\ call'.pc = "drift" /\ call'.hash = h /\ store' = store /\ tool' = tool
        /\ tool \notin {NoHash, h} => call'.todo = Affected(h)
    BY <1>5 DEF RegisterTool, NoCall
  <2>2. \A v \in Version \ Affected(h) : store[v].snap \in {NoHash, h}
    BY DEF Affected, Stored, NoFlow
  <2> QED
    BY <2>1, <2>2
<1>6. ASSUME CallSave PROVE DriftInv'
  <2>1. \A v \in Version : store'[v] = IF v = call.v THEN call.copy ELSE store[v]
    BY <1>6, <1>t DEF CallSave
  <2>2. /\ call'.pc = "touch" /\ call'.hash = call.hash /\ call'.todo = call.todo
        /\ tool' = tool /\ call.pc = "save"
    BY <1>6, <1>t DEF CallSave, CallStates
  <2> QED
    BY <2>1, <2>2
<1>7. ASSUME CallTouch PROVE DriftInv'
  <2>1. CASE call.hash = NoHash
    BY <1>7, <2>1 DEF CallTouch, NoCall
  <2>2. CASE call.hash # NoHash
    <3>1. /\ call'.pc = "drift" /\ call'.hash = call.hash /\ call'.todo = call.todo
          /\ tool' = tool /\ store' = store /\ call.pc = "touch"
      BY <1>7, <1>t, <2>2 DEF CallTouch, CallStates
    <3> QED
      BY <3>1
  <2> QED
    BY <2>1, <2>2
<1>8. ASSUME MarkNext PROVE DriftInv'
  <2> PICK v \in call.todo :
        /\ GetFlow(v)
        /\ call' = [call EXCEPT !.pc = "save", !.v = v,
                     !.copy = [store[v] EXCEPT !.status = "needs_review"], !.todo = @ \ {v}]
    BY <1>8 DEF MarkNext
  <2>1. store[v] \in Flows
    BY <1>t DEF GetFlow, Stored
  <2>2. /\ call'.pc = "save" /\ call'.v = v /\ call'.hash = call.hash
        /\ call'.copy = [store[v] EXCEPT !.status = "needs_review"]
        /\ call'.todo = call.todo \ {v} /\ call.pc = "drift"
    BY <1>8, <1>t DEF MarkNext, CallStates
  <2>3. call'.copy.status = "needs_review"
    BY <2>1, <2>2 DEF Flows
  <2> QED
    BY <1>8, <2>2, <2>3 DEF MarkNext
<1>9. ASSUME MarkDone \/ Restart PROVE DriftInv'
  BY <1>9 DEF MarkDone, Restart, NoCall
<1>10. ASSUME ScanSave PROVE DriftInv'
  <2>1. \A v \in Version : store'[v] = store[v] \/ store'[v].snap = NoHash
    BY <1>10, <1>t DEF ScanSave
  <2> QED
    BY <1>10, <2>1 DEF ScanSave
<1>11. ASSUME UNCHANGED <<store, tool, call>> PROVE DriftInv'
  BY <1>11
<1>12. ASSUME \/ \E f \in File : Edit(f)
              \/ LoadFromDirectory \/ Watch \/ StopWatch \/ PollerStops
              \/ BeginScan \/ ReadBytes \/ LoadFile \/ ScanTouch \/ EndScan
              \/ UNCHANGED vars
       PROVE  UNCHANGED <<store, tool, call>>
  BY <1>12 DEF Edit, LoadFromDirectory, Watch, StopWatch, PollerStops, BeginScan, ReadBytes,
               LoadFile, ScanTouch, EndScan, vars
<1> QED
  BY <1>1, <1>2, <1>3, <1>4, <1>5, <1>6, <1>7, <1>8, <1>9, <1>10, <1>11, <1>12
     DEF Next, CallNext, ScanNext

(* When a tool replaces one with another schema, no version with a         *)
(* snapshot of the old schema is left active, whatever the poller, the     *)
(* editor and earlier calls did.                                           *)
THEOREM RegistryDrift == Spec => NoSilentDrift
<1>1. Init => DriftInv
  BY DEF Init, DriftInv, Drifts, NoCall
<1>3. ASSUME Typed, DriftInv, Next, tool' # tool, tool # NoHash, tool' # NoHash
      PROVE  \A v \in Stored : store[v].snap \in {NoHash, tool'} \/ store[v].status # "active"
  <2>1. MarkDone
    BY <1>3
       DEF Next, RegisterFlow, UpdateFlowState, AcceptDrift, DeleteFlow, RegisterTool,
           CallNext,
         CallSave, CallTouch, MarkNext, Restart, Edit, LoadFromDirectory, Watch, StopWatch,
         PollerStops, ScanNext, BeginScan, ReadBytes, LoadFile, ScanSave, ScanTouch, EndScan
  <2> QED
    BY <1>3, <2>1 DEF MarkDone, DriftInv, Drifts, OutOfService, Stored
<1>4. Typed /\ DriftInv /\ [Next]_vars =>
        [tool' # tool /\ tool # NoHash /\ tool' # NoHash =>
           \A v \in Stored : store[v].snap \in {NoHash, tool'} \/ store[v].status # "active"]_vars
  BY <1>3 DEF vars
<1> QED
  BY TypeInit, TypeStep, <1>1, <1>4, DriftStep, PTL DEF Spec, NoSilentDrift

=============================================================================
