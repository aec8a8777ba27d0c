------------------------------ MODULE FlowProofs ------------------------------
(***************************************************************************)
(* What compile_flow promises about a run, what the analyzer and           *)
(* explain_flow say about a flow, and what a call promises whose flows     *)
(* nest: for every tool table, every schema and every flow that can be     *)
(* built or registered.                                                    *)
(***************************************************************************)
EXTENDS Analyzer, Composition, FiniteSetTheorems, SequenceTheorems, WellFoundedInduction,
        TLAPS

-----------------------------------------------------------------------------
(* Numbers below a bound.                                                  *)

(* A set of numbers below a bound has a largest member.                    *)
LEMMA LargestOf ==
  ASSUME NEW m \in Nat, NEW T \in SUBSET (0 .. m), T # {}
  PROVE  \E v \in T : \A w \in T : w <= v
<1> DEFINE HasTop(U) == \E v \in U : \A w \in U : w <= v
           W == {U \in SUBSET (0 .. m) : U # {} /\ ~HasTop(U)}
<1>1. IsFiniteSet(0 .. m) /\ \A U \in SUBSET (0 .. m) : IsFiniteSet(U)
  <2>1. IsFiniteSet(0 .. m)
    BY FS_Interval
  <2> QED
    BY <2>1, FS_Subset
<1>2. W \subseteq FiniteSubsetsOf(0 .. m)
  BY <1>1 DEF FiniteSubsetsOf
<1>3. SUFFICES ASSUME W # {} PROVE FALSE
  OBVIOUS
<1>4. PICK U \in W : \A X \in W : <<X, U>> \notin StrictSubsetOrdering(0 .. m)
  <2> HIDE DEF W
  <2> QED
    BY <1>1, <1>2, <1>3, FS_StrictSubsetOrderingWellFounded, WFMin
<1>5. PICK x \in U : TRUE
  OBVIOUS
<1>6. U \ {x} \notin W
  BY <1>1, <1>4, <1>5 DEF StrictSubsetOrdering
<1>7. CASE U \ {x} = {}
  BY <1>5, <1>7
<1>8. CASE U \ {x} # {}
  <2>1. PICK y \in U \ {x} : \A w \in U \ {x} : w <= y
    BY <1>6, <1>8
  <2>2. x \in Nat /\ y \in Nat /\ \A w \in U : w \in Nat
    BY <1>5
  <2>3. (\A w \in U : w <= x) \/ (\A w \in U : w <= y)
    BY <2>1, <2>2
  <2> QED
    BY <2>1, <2>3, <1>5
<1> QED
  BY <1>7, <1>8

(* What holds of 0 and of the next holds of all.                           *)
LEMMA UpTo ==
  ASSUME NEW m \in Nat, NEW S \in SUBSET (0 .. m), 0 \in S,
         \A n \in S : n < m => n + 1 \in S
  PROVE  S = 0 .. m
<1> SUFFICES ASSUME NEW n \in 0 .. m, n \notin S PROVE FALSE
  OBVIOUS
<1> DEFINE T == {i \in S : i <= n}
<1>1. T \in SUBSET (0 .. m) /\ 0 \in T
  <2>1. 0 <= n
    OBVIOUS
  <2> QED
    BY <2>1
<1>2. PICK v \in T : \A w \in T : w <= v
  BY <1>1, LargestOf
<1>3. v \in S /\ v \in 0 .. m /\ v <= n /\ v # n
  BY <1>2
<1>4. v < m /\ v + 1 <= n /\ ~(v + 1 <= v)
  BY <1>3
<1>5. v + 1 \in T
  BY <1>3, <1>4
<1> QED
  BY <1>2, <1>4, <1>5

-----------------------------------------------------------------------------
(* The context a step sees.                                                *)

(* g has base's fields and those of each of fs, from fs where they have it. *)
IsUpdate(g, base, fs) ==
  /\ DOMAIN g = DOMAIN base \cup UNION {DOMAIN fs[d] : d \in DOMAIN fs}
  /\ \A x \in DOMAIN g :
       \/ \E d \in DOMAIN fs : x \in DOMAIN fs[d] /\ g[x] = fs[d][x]
       \/ x \in DOMAIN base /\ g[x] = base[x] /\ \A d \in DOMAIN fs : x \notin DOMAIN fs[d]

LEMMA UpdatedMeans ==
  ASSUME NEW base, NEW fs, NEW m \in Nat, DOMAIN fs = 1 .. m
  PROVE  IsUpdate(Updated(base, fs), base, fs)
<1>1. DOMAIN Updated(base, fs) = DOMAIN base \cup UNION {DOMAIN fs[d] : d \in DOMAIN fs}
  BY DEF Updated
<1>2. ASSUME NEW x \in DOMAIN Updated(base, fs), \A d \in DOMAIN fs : x \notin DOMAIN fs[d]
      PROVE  x \in DOMAIN base /\ Updated(base, fs)[x] = base[x]
  BY <1>1, <1>2 DEF Updated
<1>3. ASSUME NEW x \in DOMAIN Updated(base, fs), ~(\A d \in DOMAIN fs : x \notin DOMAIN fs[d])
      PROVE  \E d \in DOMAIN fs : x \in DOMAIN fs[d] /\ Updated(base, fs)[x] = fs[d][x]
  <2> DEFINE T == {d \in DOMAIN fs : x \in DOMAIN fs[d]}
             P(d) == /\ x \in DOMAIN fs[d]
                     /\ \A e \in DOMAIN fs : x \in DOMAIN fs[e] => e <= d
             last == CHOOSE d \in DOMAIN fs : P(d)
  <2>1. T \in SUBSET (0 .. m) /\ T # {}
    BY <1>3
  <2>2. PICK v \in T : \A w \in T : w <= v
    BY <2>1, LargestOf
  <2>3. v \in DOMAIN fs /\ P(v)
    BY <2>2
  <2>4. last \in DOMAIN fs /\ P(last)
    BY <2>3
  <2>5. Updated(base, fs)[x] = fs[last][x]
    BY <1>1, <1>3 DEF Updated
  <2> HIDE DEF last
  <2> QED
    BY <2>4, <2>5
<1> QED
  BY <1>1, <1>2, <1>3 DEF IsUpdate

IsStep(s) ==
  s.deps \in Seq(Nat) /\ \A k \in DOMAIN s.ins : s.ins[k].kind \in {"key", "pointer", "literal"}
IsPlan(p) == (\E T : p \in Seq(T)) /\ \A i \in DOMAIN p : IsStep(p[i])

SeenFrom(f, p, l, i) ==
  LET ds == StepsBefore(p, l, i)
  IN  Updated(InputSchema, [d \in DOMAIN ds |-> Overlay(f[ds[d]], Contribution(p[ds[d]]))])

FieldsAt(h, p, l, n) ==
  [i \in DOMAIN p |->
     IF n = 0 THEN InputSchema
     ELSE LET ds == StepsBefore(p, l, i)
          IN  Updated(InputSchema, [d \in DOMAIN ds |->
                Overlay(h[n - 1][ds[d]], Contribution(p[ds[d]]))])]

IsFields(f, p, l, m) == f = [n \in 0..m |-> FieldsAt(f, p, l, n)]

LEMMA FieldsExist ==
  ASSUME NEW p, NEW l, NEW m \in Nat
  PROVE  \E f : IsFields(f, p, l, m)
<1> DEFINE S == {n \in 0 .. m : \E f : IsFields(f, p, l, n)}
<1>1. 0 \in S
  <2> DEFINE f == [n \in 0..0 |-> [i \in DOMAIN p |-> InputSchema]]
  <2>1. IsFields(f, p, l, 0)
    BY DEF IsFields, FieldsAt
  <2> HIDE DEF f
  <2> QED
    BY <2>1
<1>2. ASSUME NEW n \in S, n < m PROVE n + 1 \in S
  <2>1. PICK f : IsFields(f, p, l, n)
    OBVIOUS
  <2> DEFINE last == [i \in DOMAIN p |-> SeenFrom(f[n], p, l, i)]
             g == [k \in 0..(n + 1) |-> IF k = n + 1 THEN last ELSE f[k]]
  <2>2. g[n + 1] = last /\ \A k \in 0..n : g[k] = f[k]
    OBVIOUS
  <2>3. g = [k \in 0..(n + 1) |-> g[k]] /\ n \in Nat
    OBVIOUS
  <2> HIDE DEF g
  <2>4. \A k \in 0..n : f[k] = FieldsAt(f, p, l, k)
    BY <2>1 DEF IsFields
  <2>5. ASSUME NEW k \in 0..(n + 1) PROVE g[k] = FieldsAt(g, p, l, k)
    <3>1. CASE k = 0
      <4>1. g[k] = f[k] /\ f[k] = FieldsAt(f, p, l, k)
        <5>1. k \in 0..n
          BY <2>3, <3>1
        <5> QED
          BY <2>2, <2>4, <5>1
      <4> QED
        BY <4>1, <3>1 DEF FieldsAt
    <3>2. CASE k # 0 /\ k # n + 1
      <4>1. k \in 0..n /\ k - 1 \in 0..n
        BY <2>3, <3>2
      <4>2. g[k] = f[k] /\ f[k] = FieldsAt(f, p, l, k) /\ g[k - 1] = f[k - 1]
        BY <2>2, <2>4, <4>1
      <4> QED
        BY <4>2 DEF FieldsAt
    <3>3. CASE k = n + 1
      <4>1. k # 0 /\ k - 1 = n /\ g[k - 1] = f[n] /\ g[k] = last
        BY <2>2, <2>3, <3>3, SMTT(60)
      <4> QED
        BY <4>1 DEF FieldsAt, SeenFrom
    <3> QED
      BY <3>1, <3>2, <3>3
  <2>6. IsFields(g, p, l, n + 1)
    BY <2>3, <2>5 DEF IsFields
  <2>7. n + 1 \in 0 .. m
    BY <1>2
  <2> QED
    BY <2>6, <2>7
<1> HIDE DEF S
<1>3. S = 0 .. m
  <2>1. S \in SUBSET (0 .. m)
    BY DEF S
  <2> QED
    BY <1>1, <1>2, <2>1, UpTo
<1> QED
  BY <1>3 DEF S

(* FieldsOf is the last of a series, each seen from the one before.        *)
LEMMA FieldsUnfold ==
  ASSUME NEW p, NEW l
  PROVE  \E g : /\ FieldsOf(p, l) = g[MaxFlowSteps]
                /\ \A i \in DOMAIN p : g[0][i] = InputSchema
                /\ \A n \in 1 .. MaxFlowSteps : \A i \in DOMAIN p :
                     g[n][i] = SeenFrom(g[n - 1], p, l, i)
<1> DEFINE M == MaxFlowSteps
           g == CHOOSE f : f = [n \in 0..M |->
                  [i \in DOMAIN p |->
                     IF n = 0 THEN InputSchema
                     ELSE LET ds == StepsBefore(p, l, i)
                          IN  Updated(InputSchema, [d \in DOMAIN ds |->
                                Overlay(f[n - 1][ds[d]], Contribution(p[ds[d]]))])]]
<1>0. M \in Nat
  BY CompileAssumption
<1>1. PICK f : IsFields(f, p, l, M)
  BY <1>0, FieldsExist
<1>2. IsFields(g, p, l, M)
  BY <1>1, Zenon DEF IsFields, FieldsAt
<1>3. FieldsOf(p, l) = g[M]
  BY Zenon DEF FieldsOf
<1> HIDE DEF g
<1>4. \A i \in DOMAIN p : g[0][i] = InputSchema
  BY <1>0, <1>2 DEF IsFields, FieldsAt
<1>5. ASSUME NEW n \in 1 .. M, NEW i \in DOMAIN p PROVE g[n][i] = SeenFrom(g[n - 1], p, l, i)
  <2>1. n \in 0 .. M /\ n # 0
    BY <1>0
  <2>2. g[n] = FieldsAt(g, p, l, n)
    BY <1>2, <2>1 DEF IsFields
  <2> QED
    BY <2>1, <2>2 DEF FieldsAt, SeenFrom
<1>6. /\ FieldsOf(p, l) = g[M]
      /\ \A i \in DOMAIN p : g[0][i] = InputSchema
      /\ \A n \in 1 .. M : \A i \in DOMAIN p : g[n][i] = SeenFrom(g[n - 1], p, l, i)
  BY <1>3, <1>4, <1>5
<1> QED
  BY <1>6

-----------------------------------------------------------------------------
(* A context that serves what a step counts on.                            *)

(* A value declared a does wherever one declared b is expected.            *)
Fits(a, b) == a = b \/ (TypesCompatible(a, b) /\ TypeKept(b) # "any")

LEMMA WidensOn ==
  ASSUME NEW a, NEW b, NEW c, Widens(a, b), b # "any", Widens(b, c)
  PROVE  Widens(a, c)
<1> DEFINE N == Numeric
<1>1. /\ DOMAIN N = 1 .. 3 /\ N[1] = "int" /\ N[2] = "float" /\ N[3] = "complex"
  BY DEF Numeric
<1>2. \A i, j \in DOMAIN N : N[i] = N[j] => i = j
  <2>1. \A i \in DOMAIN N : i = 1 \/ i = 2 \/ i = 3
    BY <1>1
  <2> QED
    BY <1>1, <2>1
<1>3. \A i, j, k \in DOMAIN N : i <= j /\ j <= k => i <= k
  <2> HIDE DEF N
  <2> QED
    BY <1>1
<1> HIDE DEF N
<1>4. CASE a = b
  BY <1>4
<1>5. CASE /\ \E i, j \in DOMAIN N : N[i] = a /\ N[j] = b /\ i <= j
           /\ \E i, j \in DOMAIN N : N[i] = b /\ N[j] = c /\ i <= j
  <2>1. PICK i, j \in DOMAIN N : N[i] = a /\ N[j] = b /\ i <= j
    BY <1>5
  <2>2. PICK u, v \in DOMAIN N : N[u] = b /\ N[v] = c /\ u <= v
    BY <1>5
  <2>3. j = u /\ i <= v
    BY <1>2, <1>3, <2>1, <2>2
  <2> QED
    BY <2>1, <2>2, <2>3 DEF Widens, N
<1>6. CASE ~(\E i, j \in DOMAIN N : N[i] = a /\ N[j] = b /\ i <= j) /\ a # b
  BY <1>6 DEF Widens, N
<1>7. CASE ~(\E i, j \in DOMAIN N : N[i] = b /\ N[j] = c /\ i <= j) /\ a # b
  BY <1>7 DEF Widens, N
<1> QED
  BY <1>4, <1>5, <1>6, <1>7

LEMMA FitsServes ==
  ASSUME NEW a, NEW b, NEW c, Fits(a, b), TypesCompatible(b, c)
  PROVE  TypesCompatible(a, c)
<1>1. CASE a = b
  BY <1>1
<1>2. CASE a # b
  BY <1>2, WidensOn DEF Fits, TypesCompatible
<1> QED
  BY <1>1, <1>2

(* c has every field of f and, if exact, a value that fits each.           *)
Serves(c, f, exact) ==
  DOMAIN f \subseteq DOMAIN c /\ (exact = TRUE => \A k \in DOMAIN f : Fits(c[k], f[k]))

LEMMA OverlayServed ==
  ASSUME NEW c, NEW f, NEW g, NEW exact, Serves(c, f, exact), Serves(c, g, exact)
  PROVE  Serves(c, Overlay(f, g), exact)
<1>1. /\ DOMAIN Overlay(f, g) = DOMAIN f \cup DOMAIN g
      /\ \A k \in DOMAIN g : Overlay(f, g)[k] = g[k]
      /\ \A k \in DOMAIN f : k \notin DOMAIN g => Overlay(f, g)[k] = f[k]
  BY DEF Overlay
<1> QED
  BY <1>1 DEF Serves

LEMMA UpdatedServed ==
  ASSUME NEW c, NEW base, NEW fs, NEW exact, NEW m \in Nat, DOMAIN fs = 1 .. m,
         Serves(c, base, exact), \A d \in DOMAIN fs : Serves(c, fs[d], exact)
  PROVE  Serves(c, Updated(base, fs), exact)
<1>1. PICK g : g = Updated(base, fs)
  OBVIOUS
<1>2. IsUpdate(g, base, fs)
  BY <1>1, UpdatedMeans
<1>3. DOMAIN g \subseteq DOMAIN c
  BY <1>2 DEF Serves, IsUpdate
<1>4. ASSUME exact = TRUE, NEW x \in DOMAIN g PROVE Fits(c[x], g[x])
  BY <1>2, <1>4 DEF Serves, IsUpdate
<1> QED
  BY <1>1, <1>3, <1>4 DEF Serves

(* The steps a step waits for, in the lane's order.                        *)
LEMMA StepsBeforeIsList ==
  ASSUME NEW p, NEW l, IsPlan(p), NEW i \in DOMAIN p
  PROVE  \E m \in Nat : DOMAIN StepsBefore(p, l, i) = 1 .. m
<1>1. CASE l = "DAGFlow"
  <2>1. PICK ds : ds = p[i].deps
    OBVIOUS
  <2>2. ds \in Seq(Nat)
    BY <2>1 DEF IsPlan, IsStep
  <2>3. Len(ds) \in Nat /\ DOMAIN ds = 1 .. Len(ds)
    BY <2>2
  <2> QED
    BY <1>1, <2>1, <2>3 DEF StepsBefore
<1>2. CASE l # "DAGFlow" /\ i = 1
  <2>1. DOMAIN StepsBefore(p, l, i) = 1 .. 0
    BY <1>2 DEF StepsBefore
  <2> QED
    BY <2>1
<1>3. CASE l # "DAGFlow" /\ i # 1
  <2>1. DOMAIN StepsBefore(p, l, i) = 1 .. 1
    BY <1>3 DEF StepsBefore
  <2> QED
    BY <2>1
<1> QED
  BY <1>1, <1>2, <1>3

Waits(p, l, i, R) == \A d \in DOMAIN StepsBefore(p, l, i) : StepsBefore(p, l, i)[d] \in R

(* Once the steps it waits for are over, and those they waited for, the    *)
(* context serves what the compiler thinks the step sees.                  *)
LEMMA FieldsServed ==
  ASSUME NEW p, NEW l, IsPlan(p), NEW c, NEW exact, NEW R \in SUBSET DOMAIN p,
         \A j \in R : Waits(p, l, j, R),
         Serves(c, InputSchema, exact),
         \A j \in R : Serves(c, Contribution(p[j]), exact),
         NEW i \in DOMAIN p, Waits(p, l, i, R)
  PROVE  Serves(c, StepFields(p, l, i), exact)
<1> DEFINE M == MaxFlowSteps
<1>0. M \in Nat
  BY CompileAssumption
<1>1. PICK g : /\ FieldsOf(p, l) = g[M]
               /\ \A k \in DOMAIN p : g[0][k] = InputSchema
               /\ \A n \in 1 .. M : \A k \in DOMAIN p : g[n][k] = SeenFrom(g[n - 1], p, l, k)
  BY FieldsUnfold
<1> HIDE DEF M
<1> DEFINE S == {n \in 0 .. M : \A k \in DOMAIN p : Waits(p, l, k, R) => Serves(c, g[n][k], exact)}
<1>2. 0 \in S
  BY <1>0, <1>1
<1>3. ASSUME NEW n \in S, n < M PROVE n + 1 \in S
  <2>1. n + 1 \in 1 .. M /\ n + 1 \in 0 .. M /\ (n + 1) - 1 = n
    BY <1>0, <1>3
  <2>2. SUFFICES ASSUME NEW k \in DOMAIN p, Waits(p, l, k, R)
                 PROVE  Serves(c, g[n + 1][k], exact)
    BY <2>1
  <2>3. g[n + 1][k] = SeenFrom(g[n], p, l, k)
    BY <1>1, <2>1
  <2>4. PICK h : h = g[n]
    OBVIOUS
  <2>5. PICK ds : ds = StepsBefore(p, l, k)
    OBVIOUS
  <2>6. PICK fs : fs = [d \in DOMAIN ds |-> Overlay(h[ds[d]], Contribution(p[ds[d]]))]
    OBVIOUS
  <2>7. PICK m \in Nat : DOMAIN ds = 1 .. m
    BY <2>5, StepsBeforeIsList
  <2>8. ASSUME NEW d \in DOMAIN fs PROVE Serves(c, fs[d], exact)
    <3>1. PICK j : j = ds[d]
      OBVIOUS
    <3>2. j \in R /\ Waits(p, l, j, R) /\ j \in DOMAIN p
      BY <2>2, <2>5, <2>6, <2>8, <3>1 DEF Waits
    <3>3. Serves(c, h[j], exact) /\ Serves(c, Contribution(p[j]), exact)
      BY <2>4, <3>2
    <3>4. fs[d] = Overlay(h[j], Contribution(p[j]))
      BY <2>6, <2>8, <3>1
    <3>5. PICK u, v : u = h[j] /\ v = Contribution(p[j])
      OBVIOUS
    <3>6. Serves(c, Overlay(u, v), exact)
      BY <3>3, <3>5, OverlayServed
    <3> QED
      BY <3>4, <3>5, <3>6
  <2>9. Serves(c, Updated(InputSchema, fs), exact)
    <3>1. DOMAIN fs = 1 .. m
      BY <2>6, <2>7
    <3> HIDE DEF S
    <3> QED
      BY <2>8, <3>1, UpdatedServed
  <2>10. SeenFrom(g[n], p, l, k) = Updated(InputSchema, fs)
    BY <2>4, <2>5, <2>6 DEF SeenFrom
  <2> QED
    BY <2>3, <2>9, <2>10
<1> HIDE DEF S
<1>4. S = 0 .. M
  <2>1. S \in SUBSET (0 .. M)
    BY DEF S
  <2> QED
    BY <1>0, <1>2, <1>3, <2>1, UpTo
<1>5. M \in S
  BY <1>0, <1>4
<1>6. Serves(c, g[M][i], exact)
  BY <1>5 DEF S
<1> QED
  BY <1>1, <1>6 DEF StepFields

-----------------------------------------------------------------------------
(* What the verdict on a step is worth.                                    *)

(* A step without errors knows its tools, and neither of them misses an    *)
(* output its mapping names.                                               *)
LEMMA CleanStepTools ==
  ASSUME NEW s, NEW F, s.tool # Composed, StepErrors(s, F) = {}
  PROVE  /\ Known(s.tool) /\ ~MissingOutput(s, s.tool)
         /\ HasFallback(s) => Known(s.onError) /\ ~MissingOutput(s, s.onError)
<1>1. Known(s.tool)
  BY DEF StepErrors
<1>2. "unknown_output_key" \notin StepErrors(s, F)
  OBVIOUS
<1>3. ~MissingOutput(s, s.tool)
  BY <1>1, <1>2 DEF StepErrors, MissingOutput
<1>4. ASSUME HasFallback(s) PROVE Known(s.onError)
  <2>1. "missing_fallback_tool" \notin StepErrors(s, F)
    OBVIOUS
  <2> QED
    BY <1>1, <1>4, <2>1 DEF StepErrors
<1>5. ASSUME HasFallback(s) PROVE ~MissingOutput(s, s.onError)
  <2>1. "fallback_output_missing_mapped_key" \notin StepErrors(s, F)
    OBVIOUS
  <2>2. Known(s.onError)
    BY <1>4, <1>5
  <2> QED
    BY <1>1, <1>5, <2>1, <2>2 DEF StepErrors, MissingOutput
<1> QED
  BY <1>1, <1>3, <1>4, <1>5

(* What a step without errors maps is there, fits and is all it needs.     *)
LEMMA CleanStepInputs ==
  ASSUME NEW s, NEW F, s.tool # Composed, StepErrors(s, F) = {}
  PROVE  /\ Unresolved(s, F) = {}
         /\ Uncovered(s, s.tool, F) = {} /\ Mistyped(s, s.tool, F) = {}
         /\ HasFallback(s) => /\ Uncovered(s, s.onError, F) = {}
                              /\ Mistyped(s, s.onError, F) = {}
<1>1. Known(s.tool) /\ (HasFallback(s) => Known(s.onError))
  BY CleanStepTools
<1>2. /\ "missing_mapping_key" \notin StepErrors(s, F)
      /\ "type_mismatch" \notin StepErrors(s, F)
      /\ "missing_required_input" \notin StepErrors(s, F)
      /\ "fallback_type_mismatch" \notin StepErrors(s, F)
      /\ "fallback_missing_required_input" \notin StepErrors(s, F)
  OBVIOUS
<1>3. Unresolved(s, F) = {}
  BY <1>1, <1>2 DEF StepErrors
<1>4. Uncovered(s, s.tool, F) = {}
  BY <1>1, <1>2 DEF StepErrors
<1>5. Mistyped(s, s.tool, F) = {}
  BY <1>1, <1>2 DEF StepErrors
<1>6. HasFallback(s) => Uncovered(s, s.onError, F) = {}
  BY <1>1, <1>2 DEF StepErrors
<1>7. HasFallback(s) => Mistyped(s, s.onError, F) = {}
  BY <1>1, <1>2 DEF StepErrors
<1> QED
  BY <1>3, <1>4, <1>5, <1>6, <1>7

(* What a step is projected to write and does: all of it but what a sub-   *)
(* flow declares and does not return under a name the step keeps.          *)
Delivers(s) == ProjectedKeys(s) \ Undelivered(s)

LEMMA ToolDelivers ==
  ASSUME NEW s, s.tool # Composed
  PROVE  Delivers(s) = ProjectedKeys(s)
BY DEF Delivers, Undelivered

LEMMA SubFlowDelivers ==
  ASSUME NEW s, s.tool = Composed
  PROVE  Delivers(s) \subseteq DOMAIN Renamed(s, SubFlowOutput)
<1>1. Undelivered(s) = SubFlowDeclared \ DOMAIN Renamed(s, SubFlowOutput)
  BY DEF Undelivered
<1>2. ProjectedKeys(s) = SubFlowDeclared
  <2>1. ~Known(s.tool)
    BY CompileAssumption DEF Known, Composed
  <2> QED
    BY <2>1 DEF ProjectedKeys
<1> QED
  BY <1>1, <1>2 DEF Delivers

(* A mapping renames outputs and leaves some away: what is left is plain   *)
(* if the outputs are.                                                     *)
LEMMA RenamedPlain ==
  ASSUME NEW s, NEW outs, PlainFields(outs)
  PROVE  PlainFields(Renamed(s, outs))
<1>1. CASE s.outs = <<>>
  BY <1>1 DEF Renamed
<1>2. CASE s.outs # <<>>
  <2>1. \A k \in DOMAIN Renamed(s, outs) :
          \E o \in DOMAIN outs : Renamed(s, outs)[k] = outs[o]
    BY <1>2 DEF Renamed
  <2> QED
    BY <2>1 DEF PlainFields
<1> QED
  BY <1>1, <1>2

LEMMA ProducesPlain ==
  ASSUME NEW s, NEW t, PlainTool(t)
  PROVE  PlainFields(Produces(s, t))
<1>1. PICK outs : outs = ToolTable[t].outs
  OBVIOUS
<1>2. PlainFields(outs)
  BY <1>1 DEF PlainTool
<1> QED
  BY <1>1, <1>2, RenamedPlain DEF Produces

(* What a step says it writes is written: by its tool if no mapped output  *)
(* is missing, by its fallback if compilation did not warn of its shape;   *)
(* and with the types it says unless compilation warned of those.          *)
LEMMA ToolProduces ==
  ASSUME NEW s, s.tool # Composed, Known(s.tool), ~MissingOutput(s, s.tool)
  PROVE  /\ Delivers(s) \subseteq DOMAIN Produces(s, s.tool)
         /\ Contribution(s) = Produces(s, s.tool)
<1>1. Contribution(s) = Produces(s, s.tool) /\ Delivers(s) = ProjectedKeys(s)
  BY ToolDelivers DEF Contribution
<1>2. CASE s.outs = <<>>
  BY <1>1, <1>2 DEF ProjectedKeys, Produces, Renamed, Outs
<1>3. CASE s.outs # <<>>
  BY <1>1, <1>3 DEF ProjectedKeys, Produces, Renamed, MissingOutput, MappedOutputs
<1> QED
  BY <1>1, <1>2, <1>3

LEMMA FallbackProduces ==
  ASSUME NEW s, NEW F, s.tool # Composed, Known(s.tool), HasFallback(s), Known(s.onError),
         ~MissingOutput(s, s.onError),
         "fallback_output_shape_divergence" \notin StepWarnings(s, F)
  PROVE  Delivers(s) \subseteq DOMAIN Produces(s, s.onError)
<1>0. Delivers(s) = ProjectedKeys(s)
  BY ToolDelivers
<1>1. CASE s.outs = <<>>
  <2>1. DOMAIN ToolTable[s.tool].outs \subseteq DOMAIN ToolTable[s.onError].outs
    BY <1>1 DEF StepWarnings
  <2> QED
    BY <1>0, <1>1, <2>1 DEF ProjectedKeys, Produces, Renamed, Outs
<1>2. CASE s.outs # <<>>
  BY <1>0, <1>2 DEF ProjectedKeys, Produces, Renamed, MissingOutput, MappedOutputs
<1> QED
  BY <1>1, <1>2

LEMMA FallbackFits ==
  ASSUME NEW s, NEW F, s.tool # Composed, Known(s.tool), HasFallback(s), Known(s.onError),
         "fallback_output_type_mismatch" \notin StepWarnings(s, F),
         NEW k \in DOMAIN Contribution(s), k \in DOMAIN Produces(s, s.onError)
  PROVE  TypesCompatible(Produces(s, s.onError)[k], Contribution(s)[k])
<1> DEFINE prim == ToolTable[s.tool].outs
           fall == ToolTable[s.onError].outs
           shared == IF s.outs = <<>> THEN DOMAIN prim \cap DOMAIN fall
                     ELSE MappedOutputs(s) \cap DOMAIN prim \cap DOMAIN fall
<1>1. \A x \in shared : TypesCompatible(fall[x], prim[x])
  BY DEF StepWarnings
<1>2. Contribution(s) = Produces(s, s.tool)
  BY DEF Contribution
<1>3. CASE s.outs = <<>>
  <2>1. k \in shared /\ Produces(s, s.onError)[k] = fall[k] /\ Contribution(s)[k] = prim[k]
    BY <1>2, <1>3 DEF Produces, Renamed
  <2> QED
    BY <1>1, <2>1
<1>4. CASE s.outs # <<>>
  <2>1. /\ k \in DOMAIN s.outs[1] /\ s.outs[1][k] \in DOMAIN prim /\ s.outs[1][k] \in DOMAIN fall
        /\ Produces(s, s.onError)[k] = fall[s.outs[1][k]] /\ Contribution(s)[k] = prim[s.outs[1][k]]
    BY <1>2, <1>4 DEF Produces, Renamed
  <2>2. s.outs[1][k] \in shared
    BY <1>4, <2>1 DEF MappedOutputs
  <2> QED
    BY <1>1, <2>1, <2>2
<1> QED
  BY <1>3, <1>4

LEMMA ContributionKeys ==
  ASSUME NEW s
  PROVE  DOMAIN Contribution(s) \subseteq Delivers(s)
<1>1. CASE ~Known(s.tool)
  BY <1>1 DEF Contribution
<1>2. ASSUME Known(s.tool) PROVE s.tool # Composed /\ Delivers(s) = ProjectedKeys(s)
  <2>1. s.tool # Composed
    BY <1>2, CompileAssumption DEF Known, Composed
  <2> QED
    BY <2>1, ToolDelivers
<1>3. CASE Known(s.tool) /\ s.outs = <<>>
  BY <1>2, <1>3 DEF Contribution, Produces, Renamed, ProjectedKeys, Outs
<1>4. CASE Known(s.tool) /\ s.outs # <<>>
  BY <1>2, <1>4 DEF Contribution, Produces, Renamed, ProjectedKeys
<1> QED
  BY <1>1, <1>3, <1>4

(* A tool whose required fields are covered and whose mapped fields fit    *)
(* refuses its inputs neither for an absent field nor for a mapped value.  *)
LEMMA NothingMissing ==
  ASSUME NEW s, NEW t, NEW F, NEW fits, DOMAIN F \subseteq DOMAIN ctx, Uncovered(s, t, F) = {}
  PROVE  InputFailure(s, t, fits) # "missing"
<1>1. Required(t) \subseteq Given(s)
  BY DEF Uncovered, Given
<1> QED
  BY <1>1 DEF InputFailure

LEMMA NothingMistyped ==
  ASSUME NEW s, NEW t, NEW F, NEW fits, Serves(ctx, F, TRUE),
         Unresolved(s, F) = {}, Mistyped(s, t, F) = {}, PlainFields(ctx), PlainTool(t)
  PROVE  InputFailure(s, t, fits) # "mistyped"
<1>1. ASSUME NEW k \in Given(s) \cap DOMAIN ToolTable[t].ins, s.ins # <<>>, s.ins[k].kind = "key"
      PROVE  ValueFits(s, t, k, fits)
  <2>1. k \in DOMAIN s.ins
    BY <1>1 DEF Given
  <2>2. s.ins[k].key \in DOMAIN F
    BY <1>1, <2>1 DEF Unresolved
  <2>3. TypesCompatible(F[s.ins[k].key], ToolTable[t].ins[k].type)
    BY <1>1, <2>1, <2>2 DEF Mistyped
  <2>4. Fits(ctx[s.ins[k].key], F[s.ins[k].key])
    BY <2>2 DEF Serves
  <2>5. TypesCompatible(ctx[s.ins[k].key], ToolTable[t].ins[k].type)
    BY <2>3, <2>4, FitsServes
  <2>6. Plain(ctx[s.ins[k].key]) /\ Plain(ToolTable[t].ins[k].type)
    BY <1>1, <2>2 DEF Serves, PlainFields, PlainTool
  <2> QED
    BY <1>1, <2>5, <2>6 DEF ValueFits, Accepts
<1> QED
  BY <1>1 DEF InputFailure

LEMMA MappedKeysThere ==
  ASSUME NEW s, NEW F, DOMAIN F \subseteq DOMAIN ctx, Unresolved(s, F) = {}
  PROVE  Resolvable(s)
BY DEF Resolvable, Unresolved

-----------------------------------------------------------------------------
(* The inductive invariant.  A run keeps in its context whatever the steps *)
(* that are over contributed, in the type the compiler counts on as long   *)
(* as nothing was written twice; and with plain types all of it is plain.  *)

LaneInv == lane \in {"Flow", "DAGFlow"} /\ IsPlan(plan)

VerdictInv ==
  IF verdict.done THEN verdict = VerdictOn(plan, lane)
  ELSE verdict = NoVerdict /\ ran = {} /\ runEnd = "none" /\ ~leftOut /\ ~rewritten

RanInv == ran \in SUBSET DOMAIN plan /\ \A j \in ran : Waits(plan, lane, j, ran)

Kept == ~leftOut /\ "fallback_output_shape_divergence" \notin verdict.warnings
Exact == ~rewritten /\ "fallback_output_type_mismatch" \notin verdict.warnings /\ PlainlyTyped

CtxInv ==
  verdict.done =>
    /\ ~leftOut => DOMAIN InputSchema \subseteq DOMAIN ctx
    /\ ~leftOut /\ ~rewritten => \A k \in DOMAIN InputSchema : ctx[k] = InputSchema[k]
    /\ PlainlyTyped => PlainFields(ctx)
    /\ Kept => \A j \in ran : Delivers(plan[j]) \subseteq DOMAIN ctx
    /\ Kept /\ Exact =>
         \A j \in ran : \A k \in DOMAIN Contribution(plan[j]) :
           Fits(ctx[k], Contribution(plan[j])[k])

CompileInv == LaneInv /\ VerdictInv /\ RanInv /\ CtxInv

(* A clean verdict is one on a sound topology, and every step is clean.    *)
LEMMA VerdictMeans ==
  ASSUME VerdictInv, verdict.done
  PROVE  /\ verdict.errors = {} => TopologyError(plan) = "none"
         /\ TopologyError(plan) = "none" =>
              /\ verdict.errors = CompileErrors(plan, lane)
              /\ \A i \in DOMAIN plan, w \in {"fallback_output_shape_divergence",
                                               "fallback_output_type_mismatch"} :
                   w \notin verdict.warnings =>
                     w \notin StepWarnings(plan[i], StepFields(plan, lane, i))
         /\ verdict.errors = {} =>
              \A i \in DOMAIN plan : StepErrors(plan[i], StepFields(plan, lane, i)) = {}
<1>1. verdict = VerdictOn(plan, lane)
  BY DEF VerdictInv
<1>2. ASSUME verdict.errors = {} PROVE TopologyError(plan) = "none"
  BY <1>1, <1>2 DEF VerdictOn
<1>3. ASSUME TopologyError(plan) = "none"
      PROVE  /\ verdict.errors = CompileErrors(plan, lane)
             /\ verdict.warnings =
                  UNION {StepWarnings(plan[i], StepFields(plan, lane, i)) : i \in DOMAIN plan}
  BY <1>1, <1>3 DEF VerdictOn
<1>4. ASSUME verdict.errors = {}, NEW i \in DOMAIN plan
      PROVE  StepErrors(plan[i], StepFields(plan, lane, i)) = {}
  <2>1. CompileErrors(plan, lane) = {}
    BY <1>2, <1>3, <1>4
  <2> QED
    BY <2>1 DEF CompileErrors
<1> QED
  BY <1>2, <1>3, <1>4

(* The context of a run serves what the compiler thinks a ready step sees. *)
LEMMA ContextServes ==
  ASSUME CompileInv, verdict.done, Kept, NEW i \in DOMAIN plan, Waits(plan, lane, i, ran)
  PROVE  /\ DOMAIN StepFields(plan, lane, i) \subseteq DOMAIN ctx
         /\ Exact => Serves(ctx, StepFields(plan, lane, i), TRUE)
<1>1. /\ IsPlan(plan) /\ ran \in SUBSET DOMAIN plan
      /\ \A j \in ran : Waits(plan, lane, j, ran)
  BY DEF CompileInv, LaneInv, RanInv
<1>2. ASSUME NEW exact \in BOOLEAN, exact = TRUE => Exact
      PROVE  Serves(ctx, StepFields(plan, lane, i), exact)
  <2>1. Serves(ctx, InputSchema, exact)
    BY <1>2 DEF CompileInv, CtxInv, Serves, Fits, Exact, Kept
  <2>2. ASSUME NEW j \in ran PROVE Serves(ctx, Contribution(plan[j]), exact)
    <3>1. DOMAIN Contribution(plan[j]) \subseteq DOMAIN ctx
      BY ContributionKeys DEF CompileInv, CtxInv
    <3>2. exact = TRUE => \A k \in DOMAIN Contribution(plan[j]) :
                            Fits(ctx[k], Contribution(plan[j])[k])
      BY <1>2 DEF CompileInv, CtxInv
    <3> QED
      BY <3>1, <3>2 DEF Serves
  <2>3. PICK p, l, c, R : p = plan /\ l = lane /\ c = ctx /\ R = ran
    OBVIOUS
  <2>4. /\ IsPlan(p) /\ R \in SUBSET DOMAIN p /\ i \in DOMAIN p
        /\ \A j \in R : Waits(p, l, j, R)
        /\ Serves(c, InputSchema, exact)
        /\ \A j \in R : Serves(c, Contribution(p[j]), exact)
        /\ Waits(p, l, i, R)
    BY <1>1, <2>1, <2>2, <2>3
  <2>5. Serves(c, StepFields(p, l, i), exact)
    BY <2>4, FieldsServed
  <2> QED
    BY <2>3, <2>5
<1>3. Serves(ctx, StepFields(plan, lane, i), FALSE)
  BY <1>2
<1> QED
  BY <1>2, <1>3 DEF Serves

LEMMA ReadyWaits ==
  ASSUME CompileInv, NEW i \in 1 .. Len(plan), RunReady(i)
  PROVE  i \in DOMAIN plan /\ Waits(plan, lane, i, ran)
<1>1. i \in DOMAIN plan
  BY DEF CompileInv, LaneInv, IsPlan
<1>2. CASE lane = "Flow"
  <2>1. i \in Nat /\ \A d \in DOMAIN StepsBefore(plan, lane, i) :
          i # 1 /\ StepsBefore(plan, lane, i)[d] = i - 1
    BY <1>2 DEF StepsBefore
  <2>2. 1 .. i - 1 \subseteq ran
    BY <1>2 DEF RunReady
  <2> QED
    BY <1>1, <2>1, <2>2 DEF Waits
<1>3. CASE lane = "DAGFlow"
  <2>1. PICK ds : ds = plan[i].deps
    OBVIOUS
  <2>2. ds \in Seq(Nat)
    BY <1>1, <2>1 DEF CompileInv, LaneInv, IsPlan, IsStep
  <2>3. ToSet(ds) \subseteq ran
    BY <1>3, <2>1 DEF RunReady, Deps
  <2>4. \A d \in DOMAIN ds : ds[d] \in ran
    BY <2>3, <2>2 DEF ToSet
  <2>5. StepsBefore(plan, lane, i) = ds
    BY <1>3, <2>1 DEF StepsBefore
  <2> QED
    BY <1>1, <2>4, <2>5 DEF Waits
<1> QED
  BY <1>2, <1>3 DEF CompileInv, LaneInv

-----------------------------------------------------------------------------
(* What becomes of a step whose turn it is.                                *)

Writes(i, outs) ==
  /\ Merge(i, outs)
  /\ PlainlyTyped => PlainFields(outs)
  /\ Kept => Delivers(plan[i]) \subseteq DOMAIN outs
  /\ Kept /\ Exact => \A k \in DOMAIN Contribution(plan[i]) :
                        Fits(outs[k], Contribution(plan[i])[k])
(* A reason to end the run that a clean verdict does not rule out.         *)
Excused(why) ==
  verdict.errors = {} /\ Kept => why # "missing" /\ (Exact => why # "mistyped")
Outcome(i) ==
  \/ \E outs : Writes(i, outs)
  \/ SkipOver(i)
  \/ \E why : Abort(why) /\ Excused(why)

(* What a tool of the step may refuse its inputs for.                      *)
LEMMA RefusalExcused ==
  ASSUME CompileInv, verdict.done, NEW i \in 1 .. Len(plan), RunReady(i), NEW fits, NEW why,
         plan[i].tool # Composed,
         NEW t, Known(t), t = plan[i].tool \/ (t = plan[i].onError /\ HasFallback(plan[i])),
         why = InputFailure(plan[i], t, fits)
  PROVE  Excused(why)
<1>1. SUFFICES ASSUME verdict.errors = {}, Kept
               PROVE  why # "missing" /\ (Exact => why # "mistyped")
  BY DEF Excused
<1>2. i \in DOMAIN plan /\ Waits(plan, lane, i, ran)
  BY ReadyWaits
<1>3. PICK s, F : s = plan[i] /\ F = StepFields(plan, lane, i)
  OBVIOUS
<1>4. StepErrors(s, F) = {}
  BY <1>1, <1>2, <1>3, VerdictMeans DEF CompileInv
<1>5. Unresolved(s, F) = {} /\ Uncovered(s, t, F) = {} /\ Mistyped(s, t, F) = {}
  BY <1>3, <1>4, CleanStepInputs
<1>6. DOMAIN F \subseteq DOMAIN ctx /\ (Exact => Serves(ctx, F, TRUE))
  BY <1>1, <1>2, <1>3, ContextServes
<1>7. why # "missing"
  <2>1. InputFailure(s, t, fits) # "missing"
    BY <1>5, <1>6, NothingMissing
  <2> QED
    BY <1>3, <2>1
<1>8. ASSUME Exact PROVE why # "mistyped"
  <2>1. PlainFields(ctx) /\ PlainTool(t)
    BY <1>2, <1>8 DEF CompileInv, CtxInv, Exact, PlainlyTyped
  <2>2. InputFailure(s, t, fits) # "mistyped"
    BY <1>5, <1>6, <1>8, <2>1, NothingMistyped
  <2> QED
    BY <1>3, <2>2
<1> QED
  BY <1>7, <1>8

(* A reason that a clean verdict rules out is excused without one.         *)
LEMMA CleanAtStep ==
  ASSUME CompileInv, verdict.done, NEW i \in 1 .. Len(plan), RunReady(i),
         plan[i].tool # Composed, verdict.errors = {}, Kept
  PROVE  /\ Known(plan[i].tool) /\ ~MissingOutput(plan[i], plan[i].tool) /\ Resolvable(plan[i])
         /\ HasFallback(plan[i]) => /\ Known(plan[i].onError)
                                    /\ ~MissingOutput(plan[i], plan[i].onError)
<1>1. i \in DOMAIN plan /\ Waits(plan, lane, i, ran)
  BY ReadyWaits
<1>2. PICK s, F : s = plan[i] /\ F = StepFields(plan, lane, i)
  OBVIOUS
<1>3. StepErrors(s, F) = {}
  BY <1>1, <1>2, VerdictMeans DEF CompileInv
<1>4. DOMAIN F \subseteq DOMAIN ctx /\ Unresolved(s, F) = {}
  BY <1>1, <1>2, <1>3, ContextServes, CleanStepInputs
<1>5. Resolvable(s)
  BY <1>4, MappedKeysThere
<1> QED
  BY <1>2, <1>3, <1>5, CleanStepTools

LEMMA FallbackWrites ==
  ASSUME CompileInv, verdict.done, NEW i \in 1 .. Len(plan), RunReady(i),
         plan[i].tool # Composed, Known(plan[i].tool), HasFallback(plan[i]),
         Known(plan[i].onError), ~MissingOutput(plan[i], plan[i].onError),
         Merge(i, Produces(plan[i], plan[i].onError))
  PROVE  Outcome(i)
<1>1. i \in DOMAIN plan /\ TopologyError(plan) = "none"
  BY ReadyWaits DEF RunReady
<1>2. PICK s, F, outs : /\ s = plan[i] /\ F = StepFields(plan, lane, i)
                        /\ outs = Produces(s, s.onError)
  OBVIOUS
<1>3. \A w \in {"fallback_output_shape_divergence", "fallback_output_type_mismatch"} :
        w \notin verdict.warnings => w \notin StepWarnings(s, F)
  BY <1>1, <1>2, VerdictMeans DEF CompileInv
<1>4. ASSUME Kept PROVE Delivers(s) \subseteq DOMAIN outs
  <2>1. "fallback_output_shape_divergence" \notin StepWarnings(s, F)
    BY <1>3, <1>4 DEF Kept
  <2> QED
    BY <1>2, <2>1, FallbackProduces
<1>5. ASSUME Kept, Exact, NEW k \in DOMAIN Contribution(s)
      PROVE  Fits(outs[k], Contribution(s)[k])
  <2>1. "fallback_output_type_mismatch" \notin StepWarnings(s, F)
    BY <1>3, <1>5 DEF Exact
  <2>2. k \in DOMAIN outs
    BY <1>4, <1>5, ContributionKeys
  <2>3. TypesCompatible(Produces(s, s.onError)[k], Contribution(s)[k])
    BY <1>2, <1>5, <2>1, <2>2, FallbackFits
  <2>4. TypeKept(Contribution(s)[k]) # "any"
    <3>1. PlainTool(s.tool)
      BY <1>1, <1>2, <1>5 DEF Exact, PlainlyTyped
    <3>2. PlainFields(Contribution(s))
      BY <1>2, <3>1, ProducesPlain DEF Contribution
    <3> QED
      BY <1>5, <3>2 DEF PlainFields, Plain
  <2> QED
    BY <1>2, <2>3, <2>4 DEF Fits
<1>6. ASSUME PlainlyTyped PROVE PlainFields(outs)
  <2>1. PlainTool(s.onError)
    BY <1>1, <1>2, <1>6 DEF PlainlyTyped
  <2> QED
    BY <1>2, <2>1, ProducesPlain
<1>7. Writes(i, outs)
  BY <1>2, <1>4, <1>5, <1>6 DEF Writes
<1> QED
  BY <1>7 DEF Outcome

(* The on_error policy, of a step whose failure is excused.                *)
LEMMA OnErrorOutcome ==
  ASSUME CompileInv, verdict.done, NEW i \in 1 .. Len(plan), RunReady(i),
         NEW why, NEW fits, plan[i].tool # Composed, Known(plan[i].tool), Excused(why),
         OnError(i, why, fits)
  PROVE  Outcome(i)
<1>1. CASE plan[i].onError = "fail"
  <2>1. Abort(why)
    BY <1>1 DEF OnError
  <2> QED
    BY <2>1 DEF Outcome
<1>2. CASE plan[i].onError = "skip"
  <2>1. SkipOver(i)
    BY <1>2 DEF OnError
  <2> QED
    BY <2>1 DEF Outcome
<1>3. CASE HasFallback(plan[i]) /\ ~Known(plan[i].onError)
  <2>1. Abort("missing")
    BY <1>3 DEF OnError, HasFallback
  <2>2. Excused("missing")
    BY <1>3, CleanAtStep DEF Excused
  <2> QED
    BY <2>1, <2>2 DEF Outcome
<1>4. CASE HasFallback(plan[i]) /\ Known(plan[i].onError)
  <2>1. PICK bad : bad = InputFailure(plan[i], plan[i].onError, fits)
    OBVIOUS
  <2>2. Excused(bad)
    BY <1>4, <2>1, RefusalExcused
  <2>3. CASE bad # "none"
    <3>1. Abort(bad)
      BY <1>4, <2>1, <2>3 DEF OnError, HasFallback
    <3> QED
      BY <2>2, <3>1 DEF Outcome
  <2>4. CASE bad = "none" /\ MissingOutput(plan[i], plan[i].onError)
    <3>1. Abort("missing")
      BY <1>4, <2>1, <2>4 DEF OnError, HasFallback
    <3>2. Excused("missing")
      BY <1>4, <2>4, CleanAtStep DEF Excused
    <3> QED
      BY <3>1, <3>2 DEF Outcome
  <2>5. CASE bad = "none" /\ ~MissingOutput(plan[i], plan[i].onError)
    <3>1. Merge(i, Produces(plan[i], plan[i].onError))
      BY <1>4, <2>1, <2>5 DEF OnError, HasFallback
    <3> QED
      BY <1>4, <2>5, <3>1, FallbackWrites
  <2> QED
    BY <2>3, <2>4, <2>5
<1> QED
  BY <1>1, <1>2, <1>3, <1>4 DEF HasFallback

LEMMA ExecuteOutcome ==
  ASSUME CompileInv, verdict.done, NEW i \in 1 .. Len(plan), NEW found, NEW toolFails, NEW fits,
         ExecuteStep(i, found, toolFails, fits)
  PROVE  RunReady(i) /\ Outcome(i)
<1>1. RunReady(i)
  BY DEF ExecuteStep
<1> DEFINE lost == HasPointer(plan[i]) /\ ~found
<1>2. CASE plan[i].tool = Composed
  <2> DEFINE outs == Renamed(plan[i], SubFlowOutput)
             failed == \/ toolFails \/ lost \/ ~Resolvable(plan[i])
                       \/ ~(MappedOutputs(plan[i]) \subseteq DOMAIN SubFlowOutput)
  <2>1. CASE failed
    <3>1. Abort("sub-flow")
      BY <1>2, <2>1 DEF ExecuteStep
    <3>2. Excused("sub-flow")
      BY DEF Excused
    <3> QED
      BY <1>1, <3>1, <3>2 DEF Outcome
  <2>2. CASE ~failed
    <3>1. Merge(i, outs)
      BY <1>2, <2>2 DEF ExecuteStep
    <3>2. ~Known(plan[i].tool)
      BY <1>2, CompileAssumption DEF Known, Composed
    <3>3. DOMAIN Contribution(plan[i]) = {}
      BY <3>2 DEF Contribution
    <3>4. Delivers(plan[i]) \subseteq DOMAIN outs
      BY <1>2, SubFlowDelivers
    <3>5. ASSUME PlainlyTyped PROVE PlainFields(outs)
      <4>1. PlainFields(SubFlowOutput)
        BY <1>1, <1>2, <3>5, ReadyWaits DEF PlainlyTyped
      <4> QED
        BY <4>1, RenamedPlain
    <3>6. Writes(i, outs)
      BY <3>1, <3>3, <3>4, <3>5 DEF Writes
    <3> QED
      BY <1>1, <3>6 DEF Outcome
  <2> QED
    BY <2>1, <2>2
<1>3. CASE plan[i].tool # Composed /\ (~Known(plan[i].tool) \/ ~Resolvable(plan[i]))
  <2>1. Abort("missing")
    BY <1>3 DEF ExecuteStep
  <2>2. Excused("missing")
    BY <1>1, <1>3, CleanAtStep DEF Excused
  <2> QED
    BY <1>1, <2>1, <2>2 DEF Outcome
<1>4. CASE plan[i].tool # Composed /\ Known(plan[i].tool) /\ Resolvable(plan[i]) /\ lost
  <2>1. Abort("pointer")
    BY <1>4 DEF ExecuteStep
  <2>2. Excused("pointer")
    BY DEF Excused
  <2> QED
    BY <1>1, <2>1, <2>2 DEF Outcome
<1>5. CASE plan[i].tool # Composed /\ Known(plan[i].tool) /\ Resolvable(plan[i]) /\ ~lost
  <2>1. PICK why : why = InputFailure(plan[i], plan[i].tool, fits)
    OBVIOUS
  <2>2. CASE why # "none"
    <3>1. OnError(i, why, fits)
      BY <1>5, <2>1, <2>2 DEF ExecuteStep
    <3>2. Excused(why)
      BY <1>1, <1>5, <2>1, RefusalExcused
    <3> QED
      BY <1>1, <1>5, <3>1, <3>2, OnErrorOutcome
  <2>3. CASE why = "none" /\ toolFails
    <3>1. OnError(i, "tool", fits)
      BY <1>5, <2>1, <2>3 DEF ExecuteStep
    <3>2. Excused("tool")
      BY DEF Excused
    <3> QED
      BY <1>1, <1>5, <3>1, <3>2, OnErrorOutcome
  <2>4. CASE why = "none" /\ ~toolFails /\ MissingOutput(plan[i], plan[i].tool)
    <3>1. Abort("missing")
      BY <1>5, <2>1, <2>4 DEF ExecuteStep
    <3>2. Excused("missing")
      BY <1>1, <1>5, <2>4, CleanAtStep DEF Excused
    <3> QED
      BY <1>1, <3>1, <3>2 DEF Outcome
  <2>5. CASE why = "none" /\ ~toolFails /\ ~MissingOutput(plan[i], plan[i].tool)
    <3>1. PICK outs : outs = Produces(plan[i], plan[i].tool)
      OBVIOUS
    <3>2. Merge(i, outs)
      BY <1>5, <2>1, <2>5, <3>1 DEF ExecuteStep
    <3>3. Delivers(plan[i]) \subseteq DOMAIN outs /\ Contribution(plan[i]) = outs
      BY <1>5, <2>5, <3>1, ToolProduces
    <3>4. ASSUME PlainlyTyped PROVE PlainFields(outs)
      <4>1. PlainTool(plan[i].tool)
        BY <1>1, <1>5, <3>4, ReadyWaits DEF PlainlyTyped
      <4> QED
        BY <3>1, <4>1, ProducesPlain
    <3>5. Writes(i, outs)
      BY <3>2, <3>3, <3>4 DEF Writes, Fits
    <3> QED
      BY <1>1, <3>5 DEF Outcome
  <2> QED
    BY <2>2, <2>3, <2>4, <2>5
<1> QED
  BY <1>2, <1>3, <1>4, <1>5

-----------------------------------------------------------------------------
(* The invariant holds.                                                    *)

RunInv == CompileInv /\ CompiledFlowsResolve

LEMMA InitEstablishes ==
  ASSUME CompileInit
  PROVE  RunInv
<1>1. ~verdict.done /\ ran = {} /\ plan = <<>>
  BY DEF CompileInit, NoVerdict
<1>2. LaneInv
  <2>1. plan \in Seq({}) /\ DOMAIN plan = {}
    BY <1>1
  <2> QED
    BY <2>1 DEF CompileInit, LaneInv, IsPlan
<1> QED
  BY <1>1, <1>2 DEF CompileInit, RunInv, CompileInv, VerdictInv, RanInv, CtxInv,
                    CompiledFlowsResolve

(* As long as the flow is not compiled only its shape matters.             *)
LEMMA NotYetCompiled ==
  ASSUME RunInv, ~verdict.done, LaneInv',
         UNCHANGED <<lane, verdict, ctx, ran, runEnd, leftOut, rewritten>>
  PROVE  RunInv'
<1>1. verdict = NoVerdict /\ ran = {} /\ runEnd = "none" /\ ~leftOut /\ ~rewritten
  BY DEF RunInv, CompileInv, VerdictInv
<1>2. /\ ~verdict'.done /\ verdict' = NoVerdict
      /\ ran' = {} /\ runEnd' = "none" /\ ~leftOut' /\ ~rewritten'
  BY <1>1
<1> QED
  BY <1>2 DEF RunInv, CompileInv, VerdictInv, RanInv, CtxInv, CompiledFlowsResolve

LEMMA AppendIsPlan ==
  ASSUME NEW p, IsPlan(p), NEW s, IsStep(s)
  PROVE  IsPlan(Append(p, s))
<1>1. PICK T : p \in Seq(T)
  BY DEF IsPlan
<1>2. PICK q : q = Append(p, s)
  OBVIOUS
<1>3. p \in Seq(T \cup {s}) /\ q \in Seq(T \cup {s})
  BY <1>1, <1>2
<1>4. /\ DOMAIN p = 1 .. Len(p) /\ DOMAIN q = 1 .. Len(q) /\ Len(p) \in Nat
      /\ Len(q) = Len(p) + 1 /\ q[Len(p) + 1] = s
      /\ \A i \in 1 .. Len(p) : q[i] = p[i]
  BY <1>2, <1>3
<1>5. ASSUME NEW i \in DOMAIN q PROVE IsStep(q[i])
  <2>1. i \in 1 .. Len(p) \/ i = Len(p) + 1
    BY <1>4
  <2>2. ASSUME i \in 1 .. Len(p) PROVE IsStep(q[i])
    BY <1>4, <2>2 DEF IsPlan
  <2> QED
    BY <1>4, <2>1, <2>2
<1>6. IsPlan(q)
  BY <1>3, <1>5 DEF IsPlan
<1> QED
  BY <1>2, <1>6

LEMMA CompileKeeps ==
  ASSUME RunInv, NEW given \in SUBSET DOMAIN InputSchema, CompileFlow(given)
  PROVE  RunInv'
<1>1. /\ ran' = {} /\ runEnd' = "none" /\ ~rewritten' /\ lane' = lane /\ plan' = plan
      /\ ctx' = [k \in given |-> InputSchema[k]] /\ verdict' = VerdictOn(plan, lane)
      /\ ~leftOut' => given = DOMAIN InputSchema
  BY DEF RunInv, CompileInv, VerdictInv, CompileFlow
<1>2. VerdictOn(plan, lane).done
  BY DEF VerdictOn
<1>3. LaneInv' /\ VerdictInv' /\ RanInv'
  BY <1>1, <1>2 DEF RunInv, CompileInv, LaneInv, VerdictInv, RanInv
<1>4. CtxInv'
  <2>1. PlainlyTyped' => PlainFields(ctx')
    BY <1>1 DEF PlainlyTyped, PlainFields
  <2>2. (PlainFields(ctx))' <=> PlainFields(ctx')
    BY DEF PlainFields, Plain, TypeKept
  <2> QED
    BY <1>1, <2>1, <2>2 DEF CtxInv
<1> QED
  BY <1>1, <1>3, <1>4 DEF RunInv, CompileInv, CompiledFlowsResolve

LEMMA OutcomeKeeps ==
  ASSUME RunInv, verdict.done, NEW i \in 1 .. Len(plan), RunReady(i), Outcome(i),
         UNCHANGED <<lane, plan, verdict>>
  PROVE  RunInv'
<1>1. i \in DOMAIN plan /\ Waits(plan, lane, i, ran)
  BY ReadyWaits DEF RunInv
<1>2. LaneInv'
  BY DEF RunInv, CompileInv, LaneInv
<1>3. VerdictInv'
  BY DEF RunInv, CompileInv, VerdictInv
<1>4. RanInv'
  <2>1. ran' = ran \/ ran' = ran \cup {i}
    BY DEF Outcome, Writes, Merge, SkipOver, Abort
  <2> QED
    BY <1>1, <2>1 DEF RunInv, CompileInv, RanInv, Waits
<1>5. runEnd = "none"
  BY DEF RunReady
<1>6. CASE \E outs : Writes(i, outs)
  <2>1. PICK outs : Writes(i, outs)
    BY <1>6
  <2>2. /\ ctx' = Overlay(ctx, outs)
        /\ rewritten' <=> (rewritten \/ DOMAIN outs \cap DOMAIN ctx # {})
        /\ ran' = ran \cup {i} /\ runEnd' = runEnd /\ leftOut' = leftOut
    BY <2>1 DEF Writes, Merge
  <2>3. PICK c : c = ctx'
    OBVIOUS
  <2>4. /\ DOMAIN c = DOMAIN ctx \cup DOMAIN outs
        /\ \A k \in DOMAIN outs : c[k] = outs[k]
        /\ \A k \in DOMAIN ctx : k \notin DOMAIN outs => c[k] = ctx[k]
    BY <2>2, <2>3 DEF Overlay
  <2>5. ~leftOut' => DOMAIN InputSchema \subseteq DOMAIN c
    BY <2>2, <2>4 DEF RunInv, CompileInv, CtxInv
  <2>6. ASSUME ~rewritten' PROVE ~rewritten /\ \A k \in DOMAIN ctx : c[k] = ctx[k]
    BY <2>2, <2>4, <2>6
  <2>7. ~leftOut' /\ ~rewritten' => \A k \in DOMAIN InputSchema : c[k] = InputSchema[k]
    BY <2>2, <2>6 DEF RunInv, CompileInv, CtxInv
  <2>8. Kept' => Kept
    BY <2>2 DEF Kept
  <2>9. Exact' => Exact /\ ~rewritten'
    BY <2>6 DEF Exact, PlainlyTyped
  <2>10. ASSUME Kept', NEW j \in ran' PROVE Delivers(plan[j]) \subseteq DOMAIN c
    <3>1. CASE j \in ran
      BY <2>4, <2>8, <2>10, <3>1 DEF RunInv, CompileInv, CtxInv
    <3>2. CASE j = i
      BY <2>1, <2>4, <2>8, <2>10, <3>2 DEF Writes
    <3> QED
      BY <2>2, <3>1, <3>2
  <2>11. ASSUME Kept', Exact', NEW j \in ran', NEW k \in DOMAIN Contribution(plan[j])
         PROVE  Fits(c[k], Contribution(plan[j])[k])
    <3>1. CASE j \in ran
      <4>1. Fits(ctx[k], Contribution(plan[j])[k]) /\ k \in DOMAIN ctx
        BY <2>8, <2>9, <2>11, <3>1, ContributionKeys DEF RunInv, CompileInv, CtxInv
      <4>2. c[k] = ctx[k]
        BY <2>6, <2>9, <2>11, <4>1
      <4> QED
        BY <4>1, <4>2
    <3>2. CASE j = i
      <4>1. Fits(outs[k], Contribution(plan[j])[k]) /\ k \in DOMAIN outs
        BY <2>1, <2>8, <2>9, <2>11, <3>2, ContributionKeys DEF Writes
      <4> QED
        BY <2>4, <4>1
    <3> QED
      BY <2>2, <3>1, <3>2
  <2>12. PlainlyTyped' => PlainFields(c)
    <3>1. SUFFICES ASSUME PlainlyTyped, NEW k \in DOMAIN c PROVE Plain(c[k])
      BY DEF PlainlyTyped, PlainFields
    <3>2. PlainFields(ctx) /\ PlainFields(outs)
      BY <2>1, <3>1 DEF Writes, RunInv, CompileInv, CtxInv
    <3> QED
      BY <2>4, <3>2 DEF PlainFields
  <2>13. CtxInv'
    BY <2>2, <2>3, <2>5, <2>7, <2>10, <2>11, <2>12 DEF CtxInv
  <2>14. runEnd' = "none"
    BY <1>5, <2>2
  <2> QED
    BY <1>2, <1>3, <1>4, <2>13, <2>14 DEF RunInv, CompileInv, CompiledFlowsResolve
<1>7. CASE SkipOver(i)
  <2>1. /\ leftOut' = TRUE /\ ctx' = ctx /\ runEnd' = runEnd /\ rewritten' = rewritten
    BY <1>7 DEF SkipOver
  <2>2. CtxInv'
    BY <2>1 DEF RunInv, CompileInv, CtxInv, Kept, PlainlyTyped
  <2> QED
    BY <1>2, <1>3, <1>4, <2>1, <2>2 DEF RunInv, CompileInv, CompiledFlowsResolve
<1>8. CASE \E why : Abort(why) /\ Excused(why)
  <2>1. PICK why : Abort(why) /\ Excused(why)
    BY <1>8
  <2>2. /\ runEnd' = why /\ ctx' = ctx /\ ran' = ran
        /\ leftOut' = leftOut /\ rewritten' = rewritten
    BY <2>1 DEF Abort
  <2>3. CtxInv'
    BY <2>2 DEF RunInv, CompileInv, CtxInv, Kept, Exact, PlainlyTyped
  <2>4. CompiledFlowsResolve'
    BY <2>1, <2>2 DEF CompiledFlowsResolve, Excused, Kept, Exact, PlainlyTyped
  <2> QED
    BY <1>2, <1>3, <1>4, <2>3, <2>4 DEF RunInv, CompileInv
<1> QED
  BY <1>6, <1>7, <1>8 DEF Outcome

(* The output schema is met by what the steps contributed.                 *)
LEMMA FinishKeeps ==
  ASSUME RunInv, NEW fits, FinishRun(fits)
  PROVE  RunInv'
<1>1. /\ verdict.done /\ ran = DOMAIN plan
      /\ lane' = lane /\ plan' = plan /\ verdict' = verdict /\ ctx' = ctx /\ ran' = ran
      /\ leftOut' = leftOut /\ rewritten' = rewritten
  BY DEF FinishRun
<1>2. CompileInv'
  BY <1>1 DEF RunInv, CompileInv, LaneInv, VerdictInv, RanInv, CtxInv, Kept, Exact, PlainlyTyped
<1>3. ASSUME verdict.errors = {}, Kept
      PROVE  /\ DOMAIN OutputSchema \subseteq DOMAIN ctx
             /\ Exact => \A k \in DOMAIN OutputSchema : TypesCompatible(ctx[k], OutputSchema[k])
  <2>1. verdict.errors = CompileErrors(plan, lane)
    BY <1>1, <1>3, VerdictMeans DEF RunInv, CompileInv
  <2>2. /\ "output_schema_gap" \notin CompileErrors(plan, lane)
        /\ "output_type_mismatch" \notin CompileErrors(plan, lane)
    BY <1>3, <2>1
  <2>3. DOMAIN OutputSchema \subseteq FinalKeys(plan)
    BY <2>2 DEF CompileErrors
  <2>4. \A k \in DOMAIN OutputSchema \cap FinalKeys(plan) :
          \E t \in FinalTypes(plan, k) : TypesCompatible(t, OutputSchema[k])
    BY <2>2 DEF CompileErrors
  <2>5. \A i \in DOMAIN plan : DOMAIN Contribution(plan[i]) \subseteq DOMAIN ctx
    BY <1>1, <1>3, ContributionKeys DEF RunInv, CompileInv, CtxInv
  <2>6. DOMAIN OutputSchema \subseteq DOMAIN ctx
    BY <1>1, <1>3, <2>3, <2>5 DEF FinalKeys, Kept, RunInv, CompileInv, CtxInv
  <2>7. ASSUME Exact, NEW k \in DOMAIN OutputSchema
        PROVE  TypesCompatible(ctx[k], OutputSchema[k])
    <3>1. PICK t \in FinalTypes(plan, k) : TypesCompatible(t, OutputSchema[k])
      BY <2>3, <2>4
    <3>2. Fits(ctx[k], t)
      <4>1. CASE \E i \in DOMAIN plan : k \in DOMAIN Contribution(plan[i])
                                        /\ t = Contribution(plan[i])[k]
        BY <1>1, <1>3, <2>7, <4>1 DEF RunInv, CompileInv, CtxInv
      <4>2. CASE k \in DOMAIN InputSchema /\ t = InputSchema[k]
        BY <1>1, <1>3, <2>7, <4>2 DEF RunInv, CompileInv, CtxInv, Kept, Exact, Fits
      <4> QED
        BY <4>1, <4>2 DEF FinalTypes
    <3>3. PICK v, o : v = ctx[k] /\ o = OutputSchema[k]
      OBVIOUS
    <3> QED
      BY <3>1, <3>2, <3>3, FitsServes
  <2> QED
    BY <2>6, <2>7
<1>4. CompiledFlowsResolve'
  <2>1. ASSUME verdict.errors = {}, Kept
        PROVE  runEnd' # "missing" /\ (Exact => runEnd' # "mistyped")
    <3>1. DOMAIN OutputSchema \subseteq DOMAIN ctx
      BY <1>3, <2>1
    <3>2. ASSUME Exact, NEW k \in DOMAIN OutputSchema PROVE Accepts(ctx[k], OutputSchema[k], fits)
      <4>1. Plain(ctx[k]) /\ Plain(OutputSchema[k])
        BY <1>1, <3>1, <3>2 DEF Exact, PlainlyTyped, PlainFields, RunInv, CompileInv, CtxInv
      <4> QED
        BY <1>3, <2>1, <3>2, <4>1 DEF Accepts
    <3> QED
      BY <3>1, <3>2 DEF FinishRun
  <2> QED
    BY <1>1, <2>1 DEF CompiledFlowsResolve, Kept, Exact, PlainlyTyped
<1> QED
  BY <1>2, <1>4 DEF RunInv

LEMMA StutterKeeps ==
  ASSUME RunInv, UNCHANGED compileVars
  PROVE  RunInv'
<1>1. /\ lane' = lane /\ plan' = plan /\ verdict' = verdict /\ ctx' = ctx /\ ran' = ran
      /\ runEnd' = runEnd /\ leftOut' = leftOut /\ rewritten' = rewritten
  BY DEF compileVars
<1> QED
  BY <1>1 DEF RunInv, CompileInv, LaneInv, VerdictInv, RanInv, CtxInv, Kept, Exact,
              PlainlyTyped, CompiledFlowsResolve

LEMMA CompileStepKeeps ==
  ASSUME RunInv, CompileNext
  PROVE  RunInv'
<1>1. ASSUME NEW s \in StepChoices, AddStep(s) PROVE RunInv'
  <2>1. IsPlan(Append(plan, s))
    <3>1. PICK p : p = plan
      OBVIOUS
    <3>2. IsPlan(p) /\ IsStep(s)
      BY <3>1, CompileAssumption DEF IsStep, RunInv, CompileInv, LaneInv
    <3> QED
      BY <3>1, <3>2, AppendIsPlan
  <2>2. LaneInv'
    BY <1>1, <2>1 DEF AddStep, LaneInv, RunInv, CompileInv
  <2> QED
    BY <1>1, <2>2, NotYetCompiled DEF AddStep
<1>2. ASSUME NEW given \in SUBSET DOMAIN InputSchema, CompileFlow(given) PROVE RunInv'
  BY <1>2, CompileKeeps
<1>3. ASSUME NEW i \in 1 .. Len(plan), NEW found \in BOOLEAN, NEW toolFails \in BOOLEAN,
             NEW fits \in BOOLEAN, ExecuteStep(i, found, toolFails, fits)
      PROVE  RunInv'
  <2>1. verdict.done /\ UNCHANGED <<lane, plan, verdict>>
    BY <1>3 DEF ExecuteStep, RunReady
  <2>2. RunReady(i) /\ Outcome(i)
    BY <1>3, <2>1, ExecuteOutcome DEF RunInv
  <2> QED
    BY <2>1, <2>2, OutcomeKeeps
<1>4. ASSUME NEW i \in 1 .. Len(plan), BranchSkips(i) PROVE RunInv'
  <2>1. verdict.done /\ RunReady(i) /\ Outcome(i) /\ UNCHANGED <<lane, plan, verdict>>
    BY <1>4 DEF BranchSkips, RunReady, Outcome
  <2> QED
    BY <2>1, OutcomeKeeps
<1>5. ASSUME NEW fits \in BOOLEAN, FinishRun(fits) PROVE RunInv'
  BY <1>5, FinishKeeps
<1> QED
  BY <1>1, <1>2, <1>3, <1>4, <1>5 DEF CompileNext

(* A flow that compiles runs: with no compilation error, every input field *)
(* given, no step skipped and no fallback that lacks an output, no run     *)
(* ends for an absent key or field (of a pointer, its first token); and    *)
(* while the flow is plainly typed, nothing is written twice and no        *)
(* fallback changes a type, none ends because a mapped value has the wrong *)
(* one.                                                                    *)
THEOREM CompiledFlowsRun == CompileSpec => []CompiledFlowsResolve
<1>1. CompileInit => RunInv
  BY InitEstablishes
<1>2. RunInv /\ [CompileNext]_compileVars => RunInv'
  BY CompileStepKeeps, StutterKeeps
<1>3. RunInv => CompiledFlowsResolve
  BY DEF RunInv
<1> QED
  BY <1>1, <1>2, <1>3, PTL DEF CompileSpec

-----------------------------------------------------------------------------
(* The chains of tools the analyzer suggests flows from.                   *)

ChainsAt(f, n) ==
  IF n = 1 THEN {<<t>> : t \in Tools}
  ELSE {Append(x[1], x[2]) : x \in
          {y \in f[n - 1] \X Tools :
             y[2] \notin ToSet(y[1]) /\ IsCompatible(y[1][n - 1], y[2])}}

IsChains(f, m) == f = [n \in 1 .. m |-> ChainsAt(f, n)]

LEMMA ChainsExist == \A m \in Nat : \E f : IsChains(f, m)
<1> SUFFICES ASSUME NEW m \in Nat PROVE \E f : IsChains(f, m)
  OBVIOUS
<1> DEFINE S == {n \in 0 .. m : \E f : IsChains(f, n)}
<1>1. 0 \in S
  <2> DEFINE f == [n \in 1 .. 0 |-> {}]
  <2>1. 1 .. 0 = {} /\ 0 \in 0 .. m
    OBVIOUS
  <2>2. IsChains(f, 0)
    BY <2>1 DEF IsChains
  <2> HIDE DEF f
  <2> QED
    BY <2>1, <2>2
<1>2. ASSUME NEW n \in S, n < m PROVE n + 1 \in S
  <2>1. PICK f : IsChains(f, n)
    OBVIOUS
  <2> DEFINE g == [k \in 1 .. (n + 1) |-> IF k = n + 1 THEN ChainsAt(f, n + 1) ELSE f[k]]
  <2>2. n \in Nat /\ n + 1 \in 0 .. m
    BY <1>2
  <2>3. /\ DOMAIN g = 1 .. (n + 1) /\ g = [k \in 1 .. (n + 1) |-> g[k]]
        /\ g[n + 1] = ChainsAt(f, n + 1) /\ \A k \in 1 .. n : g[k] = f[k]
    BY <2>2
  <2> HIDE DEF g
  <2>4. \A k \in 1 .. n : f[k] = ChainsAt(f, k)
    BY <2>1 DEF IsChains
  <2>5. ASSUME NEW k \in 1 .. (n + 1) PROVE g[k] = ChainsAt(g, k)
    <3>1. g[k] = ChainsAt(f, k)
      <4>1. CASE k = n + 1
        BY <2>3, <4>1
      <4>2. CASE k # n + 1
        <5>1. k \in 1 .. n
          BY <2>2, <4>2
        <5> QED
          BY <2>3, <2>4, <5>1
      <4> QED
        BY <4>1, <4>2
    <3>2. k = 1 \/ f[k - 1] = g[k - 1]
      <4>1. k = 1 \/ k - 1 \in 1 .. n
        BY <2>2
      <4> QED
        BY <2>3, <4>1
    <3> QED
      BY <3>1, <3>2 DEF ChainsAt
  <2>6. IsChains(g, n + 1)
    BY <2>3, <2>5 DEF IsChains
  <2> QED
    BY <2>2, <2>6
<1> HIDE DEF S
<1>3. S = 0 .. m
  <2>1. S \in SUBSET (0 .. m)
    BY DEF S
  <2> QED
    BY <1>1, <1>2, <2>1, UpTo
<1> QED
  BY <1>3 DEF S

LEMMA ChainsUnfold == \A n \in 1 .. MaxChain : ChainsOf[n] = ChainsAt(ChainsOf, n)
<1>1. PICK f : IsChains(f, MaxChain)
  BY ChainsExist, AnalyzerAssumption
<1>2. IsChains(ChainsOf, MaxChain)
  BY <1>1, Zenon DEF IsChains, ChainsAt, ChainsOf
<1> QED
  BY <1>2 DEF IsChains

(* Every link of a chain is compatible.                                    *)
IsChain(ch) ==
  /\ ch \in Seq(Tools)
  /\ \A i \in 1 .. Len(ch) : i > 1 => IsCompatible(ch[i - 1], ch[i])

LEMMA ChainsLink ==
  ASSUME NEW ch \in FindChains
  PROVE  IsChain(ch)
<1> DEFINE M == MaxChain
           P(n) == \A d \in ChainsOf[n] : IsChain(d) /\ Len(d) = n
           S == {n \in 0 .. M : n = 0 \/ P(n)}
<1>0. M \in Nat
  BY AnalyzerAssumption
<1>1. 0 \in S
  BY <1>0
<1>2. ASSUME NEW n \in S, n < M PROVE n + 1 \in S
  <2>1. n \in Nat /\ n + 1 \in 1 .. M /\ n + 1 \in 0 .. M /\ (n + 1) - 1 = n
    BY <1>0, <1>2
  <2>2. ChainsOf[n + 1] = ChainsAt(ChainsOf, n + 1)
    BY <2>1, ChainsUnfold
  <2>3. ASSUME NEW d \in ChainsOf[n + 1] PROVE IsChain(d) /\ Len(d) = n + 1
    <3>1. CASE n = 0
      <4>1. PICK t \in Tools : d = <<t>>
        BY <2>2, <2>3, <3>1 DEF ChainsAt
      <4>2. d \in Seq(Tools) /\ Len(d) = 1
        BY <4>1
      <4>3. \A i \in 1 .. Len(d) : ~(i > 1)
        BY <4>2
      <4> QED
        BY <3>1, <4>2, <4>3 DEF IsChain
    <3>2. CASE n # 0
      <4>1. PICK x \in ChainsOf[n] \X Tools : d = Append(x[1], x[2])
                                              /\ IsCompatible(x[1][n], x[2])
        <5>1. n + 1 # 1
          BY <2>1, <3>2
        <5> QED
          BY <2>1, <2>2, <2>3, <5>1 DEF ChainsAt
      <4>2. PICK c, t : c = x[1] /\ t = x[2]
        OBVIOUS
      <4>3. /\ c \in ChainsOf[n] /\ t \in Tools
            /\ d = Append(c, t) /\ IsCompatible(c[n], t)
        BY <4>1, <4>2
      <4>4. IsChain(c) /\ Len(c) = n
        BY <3>2, <4>3
      <4>5. c \in Seq(Tools) /\ \A i \in 1 .. n : i > 1 => IsCompatible(c[i - 1], c[i])
        BY <4>4 DEF IsChain
      <4>6. /\ d \in Seq(Tools) /\ Len(d) = n + 1 /\ d[n + 1] = t
            /\ \A i \in 1 .. n : d[i] = c[i]
        BY <2>1, <4>3, <4>4, <4>5
      <4>7. ASSUME NEW i \in 1 .. n + 1, i > 1 PROVE IsCompatible(d[i - 1], d[i])
        <5>1. CASE i = n + 1
          <6>1. i - 1 = n /\ n \in 1 .. n
            BY <2>1, <3>2, <5>1
          <6> QED
            BY <4>3, <4>6, <5>1, <6>1
        <5>2. CASE i # n + 1
          <6>1. i \in 1 .. n /\ i - 1 \in 1 .. n
            BY <2>1, <4>7, <5>2
          <6> QED
            BY <4>5, <4>6, <4>7, <6>1
        <5> QED
          BY <5>1, <5>2
      <4> QED
        BY <4>6, <4>7 DEF IsChain
    <3> QED
      BY <3>1, <3>2
  <2> QED
    BY <2>1, <2>3
<1> HIDE DEF P, S
<1>3. S = 0 .. M
  <2>1. S \in SUBSET (0 .. M)
    BY DEF S
  <2> QED
    BY <1>0, <1>1, <1>2, <2>1, UpTo
<1>4. PICK n \in 1 .. M : ch \in ChainsOf[n]
  BY DEF FindChains
<1>5. n \in S /\ n # 0
  BY <1>0, <1>3
<1> QED
  BY <1>4, <1>5 DEF S, P

-----------------------------------------------------------------------------
(* The context a step sees, one step back.                                 *)

LEMMA FieldsSeen ==
  ASSUME NEW p, NEW l, MaxFlowSteps # 0
  PROVE  \E h : \A i \in DOMAIN p : StepFields(p, l, i) = SeenFrom(h, p, l, i)
<1> DEFINE M == MaxFlowSteps
<1>1. M \in Nat /\ M \in 1 .. M
  BY CompileAssumption
<1>2. PICK g : /\ FieldsOf(p, l) = g[M]
               /\ \A i \in DOMAIN p : g[0][i] = InputSchema
               /\ \A n \in 1 .. M : \A i \in DOMAIN p : g[n][i] = SeenFrom(g[n - 1], p, l, i)
  BY FieldsUnfold
<1> HIDE DEF M
<1>3. PICK h : h = g[M - 1]
  OBVIOUS
<1>4. \A i \in DOMAIN p : StepFields(p, l, i) = SeenFrom(h, p, l, i)
  BY <1>1, <1>2, <1>3 DEF StepFields
<1> QED
  BY <1>4

(* In a linear flow the first step sees the input, and a later one at      *)
(* least what its predecessor contributes, as it contributes it.           *)
LEMMA FirstSees ==
  ASSUME NEW h, NEW p
  PROVE  IsUpdate(SeenFrom(h, p, "Flow", 1), InputSchema, <<>>)
<1>1. PICK ds : ds = StepsBefore(p, "Flow", 1)
  OBVIOUS
<1>2. PICK fs : fs = [d \in DOMAIN ds |-> Overlay(h[ds[d]], Contribution(p[ds[d]]))]
  OBVIOUS
<1>3. DOMAIN ds = 1 .. 0 /\ DOMAIN fs = 1 .. 0 /\ 1 .. 0 = {}
  BY <1>1, <1>2 DEF StepsBefore
<1>4. IsUpdate(Updated(InputSchema, fs), InputSchema, fs)
  BY <1>3, UpdatedMeans
<1>5. SeenFrom(h, p, "Flow", 1) = Updated(InputSchema, fs)
  BY <1>1, <1>2 DEF SeenFrom
<1>6. DOMAIN <<>> = {}
  OBVIOUS
<1> QED
  BY <1>3, <1>4, <1>5, <1>6 DEF IsUpdate

LEMMA NextSees ==
  ASSUME NEW h, NEW p, NEW i \in Nat, i > 1, NEW k \in DOMAIN Contribution(p[i - 1])
  PROVE  /\ k \in DOMAIN SeenFrom(h, p, "Flow", i)
         /\ SeenFrom(h, p, "Flow", i)[k] = Contribution(p[i - 1])[k]
<1>1. PICK ds : ds = StepsBefore(p, "Flow", i)
  OBVIOUS
<1>2. PICK f, g : f = Overlay(h[i - 1], Contribution(p[i - 1])) /\ g = Contribution(p[i - 1])
  OBVIOUS
<1>3. PICK fs : fs = [d \in DOMAIN ds |-> Overlay(h[ds[d]], Contribution(p[ds[d]]))]
  OBVIOUS
<1>4. DOMAIN ds = 1 .. 1 /\ ds[1] = i - 1
  BY <1>1 DEF StepsBefore
<1>5. DOMAIN fs = 1 .. 1 /\ fs[1] = f
  BY <1>2, <1>3, <1>4
<1>6. k \in DOMAIN f /\ f[k] = g[k]
  BY <1>2 DEF Overlay
<1>7. PICK r : r = Updated(InputSchema, fs)
  OBVIOUS
<1>8. IsUpdate(r, InputSchema, fs)
  BY <1>5, <1>7, UpdatedMeans
<1>9. k \in DOMAIN r /\ r[k] = f[k]
  <2>1. \A d \in DOMAIN fs : d = 1
    BY <1>5
  <2>2. k \in DOMAIN r
    BY <1>5, <1>6, <1>8 DEF IsUpdate
  <2> QED
    BY <1>5, <1>6, <1>8, <2>1, <2>2 DEF IsUpdate
<1>10. SeenFrom(h, p, "Flow", i) = r
  BY <1>1, <1>3, <1>7 DEF SeenFrom
<1> QED
  BY <1>2, <1>6, <1>9, <1>10

-----------------------------------------------------------------------------
(* The flows suggest_flows writes.                                         *)

Suggestible(ch) ==
  /\ IsChain(ch) /\ Len(ch) \in 2 .. MaxFlowSteps
  /\ \A f \in DOMAIN Ins(ch[1]) :
       f \in DOMAIN InputSchema /\ TypesCompatible(InputSchema[f], Ins(ch[1])[f].type)

LEMMA SuggestedStep ==
  ASSUME NEW ch, IsChain(ch), NEW i \in DOMAIN ch
  PROVE  /\ DOMAIN SuggestedPlan(ch) = 1 .. Len(ch) /\ i \in 1 .. Len(ch) /\ ch[i] \in Tools
         /\ SuggestedPlan(ch)[i].tool = ch[i]
         /\ SuggestedPlan(ch)[i].ins = AutoInputMapping(ch, i)
         /\ SuggestedPlan(ch)[i].deps = <<>> /\ SuggestedPlan(ch)[i].outs = <<>>
         /\ SuggestedPlan(ch)[i].onError = "fail" /\ SuggestedPlan(ch)[i].branches = {}
<1>1. ch \in Seq(Tools) /\ DOMAIN ch = 1 .. Len(ch) /\ ch[i] \in Tools
  BY DEF IsChain
<1> QED
  BY <1>1 DEF SuggestedPlan, NoStep

LEMMA SuggestedIsPlan ==
  ASSUME NEW ch, IsChain(ch)
  PROVE  IsPlan(SuggestedPlan(ch))
<1>1. PICK p : p = SuggestedPlan(ch)
  OBVIOUS
<1>2. ch \in Seq(Tools) /\ Len(ch) \in Nat /\ DOMAIN ch = 1 .. Len(ch)
  BY DEF IsChain
<1>3. p = [i \in 1 .. Len(ch) |-> p[i]]
  BY <1>1, <1>2 DEF SuggestedPlan
<1>4. PICK T : T = {p[i] : i \in 1 .. Len(ch)}
  OBVIOUS
<1>5. p \in Seq(T)
  <2>1. p \in [1 .. Len(ch) -> T]
    BY <1>3, <1>4
  <2> QED
    BY <1>2, <2>1
<1>6. ASSUME NEW i \in DOMAIN p PROVE IsStep(p[i])
  <2>1. i \in DOMAIN ch
    BY <1>2, <1>3
  <2>2. p[i].deps = <<>> /\ p[i].ins = AutoInputMapping(ch, i)
    BY <1>1, <2>1, SuggestedStep
  <2>3. \A k \in DOMAIN AutoInputMapping(ch, i) : AutoInputMapping(ch, i)[k].kind = "key"
    BY DEF AutoInputMapping
  <2> QED
    BY <2>2, <2>3 DEF IsStep
<1>7. IsPlan(p)
  BY <1>5, <1>6 DEF IsPlan
<1> QED
  BY <1>1, <1>7

LEMMA SuggestedTopology ==
  ASSUME NEW ch, IsChain(ch)
  PROVE  TopologyError(SuggestedPlan(ch)) = "none"
<1>1. PICK p : p = SuggestedPlan(ch)
  OBVIOUS
<1>2. \A i \in DOMAIN p : p[i].deps = <<>> /\ p[i].branches = {}
  <2>1. DOMAIN p = DOMAIN ch
    BY <1>1 DEF SuggestedPlan
  <2> QED
    BY <1>1, <2>1, SuggestedStep
<1>3. \A i \in DOMAIN p : Deps(p[i]) = {}
  <2>1. ToSet(<<>>) = {}
    BY DEF ToSet
  <2> QED
    BY <1>2, <2>1 DEF Deps
<1>4. ~HasCycle(p)
  BY <1>3 DEF HasCycle
<1>5. TopologyError(p) = "none"
  BY <1>2, <1>3, <1>4 DEF TopologyError
<1> QED
  BY <1>1, <1>5

LEMMA SuggestedClean ==
  ASSUME NEW ch, Suggestible(ch), NEW i \in DOMAIN SuggestedPlan(ch)
  PROVE  StepErrors(SuggestedPlan(ch)[i], StepFields(SuggestedPlan(ch), "Flow", i)) = {}
<1>1. PICK p : p = SuggestedPlan(ch)
  OBVIOUS
<1>2. i \in DOMAIN ch /\ IsChain(ch)
  BY DEF SuggestedPlan, Suggestible
<1>3. PICK s, t : s = p[i] /\ t = ch[i]
  OBVIOUS
<1>4. /\ DOMAIN p = 1 .. Len(ch) /\ i \in 1 .. Len(ch) /\ t \in Tools
      /\ s.tool = t /\ s.ins = AutoInputMapping(ch, i) /\ s.outs = <<>> /\ s.onError = "fail"
  BY <1>1, <1>2, <1>3, SuggestedStep
<1>5. Len(ch) \in Nat /\ MaxFlowSteps # 0
  BY CompileAssumption DEF Suggestible, IsChain
<1>6. PICK h : \A j \in DOMAIN p : StepFields(p, "Flow", j) = SeenFrom(h, p, "Flow", j)
  BY <1>5, FieldsSeen
<1>7. PICK F : F = StepFields(p, "Flow", i)
  OBVIOUS
<1>8. F = SeenFrom(h, p, "Flow", i)
  BY <1>1, <1>6, <1>7
<1>9. /\ Required(t) \subseteq DOMAIN s.ins /\ DOMAIN s.ins \subseteq DOMAIN Ins(t)
      /\ \A k \in DOMAIN s.ins :
           /\ s.ins[k].kind = "key" /\ s.ins[k].key = k
           /\ k \in DOMAIN F /\ TypesCompatible(F[k], Ins(t)[k].type)
  <2>1. \A k \in DOMAIN s.ins : s.ins[k].kind = "key" /\ s.ins[k].key = k
    BY <1>4 DEF AutoInputMapping
  <2>2. CASE i = 1
    <3>1. DOMAIN s.ins = DOMAIN Ins(t)
      BY <1>3, <1>4, <2>2 DEF AutoInputMapping
    <3>2. \A k \in DOMAIN Ins(t) : k \in DOMAIN InputSchema
                                   /\ TypesCompatible(InputSchema[k], Ins(t)[k].type)
      BY <1>3, <2>2 DEF Suggestible
    <3>3. DOMAIN F = DOMAIN InputSchema /\ \A k \in DOMAIN F : F[k] = InputSchema[k]
      <4>1. IsUpdate(F, InputSchema, <<>>)
        BY <1>8, <2>2, FirstSees
      <4>2. DOMAIN <<>> = {}
        OBVIOUS
      <4> QED
        BY <4>1, <4>2 DEF IsUpdate
    <3>4. Required(t) \subseteq DOMAIN Ins(t)
      BY DEF Required, Ins
    <3> QED
      BY <2>1, <3>1, <3>2, <3>3, <3>4
  <2>3. CASE i # 1
    <3>1. PICK j : j = i - 1
      OBVIOUS
    <3>2. i \in Nat /\ i > 1 /\ j \in 1 .. Len(ch)
      BY <1>4, <1>5, <2>3, <3>1
    <3>3. PICK u : u = ch[j]
      OBVIOUS
    <3>4. /\ u \in Tools /\ p[j].tool = u /\ p[j].outs = <<>>
      <4>1. j \in DOMAIN ch
        BY <1>2, <3>2 DEF IsChain
      <4> QED
        BY <1>1, <1>2, <3>3, <4>1, SuggestedStep
    <3>5. Contribution(p[j]) = Outs(u)
      BY <3>4 DEF Contribution, Known, Produces, Renamed, Outs, Tools
    <3>6. \A k \in DOMAIN Outs(u) : k \in DOMAIN F /\ F[k] = Outs(u)[k]
      <4>1. \A k \in DOMAIN Contribution(p[j]) :
              k \in DOMAIN F /\ F[k] = Contribution(p[j])[k]
        BY <1>8, <3>1, <3>2, NextSees
      <4> QED
        BY <3>5, <4>1
    <3>7. DOMAIN s.ins = DOMAIN Ins(t) \cap DOMAIN Outs(u)
      BY <1>3, <1>4, <2>3, <3>1, <3>3 DEF AutoInputMapping
    <3>8. IsCompatible(u, t)
      BY <1>2, <1>3, <1>4, <3>1, <3>2, <3>3 DEF IsChain
    <3>9. Required(t) \subseteq DOMAIN s.ins
      BY <3>7, <3>8 DEF Required, IsCompatible, Ins
    <3>10. ASSUME NEW k \in DOMAIN s.ins PROVE TypesCompatible(F[k], Ins(t)[k].type)
      <4>1. k \in DOMAIN Ins(t) /\ k \in DOMAIN Outs(u) /\ F[k] = Outs(u)[k]
        BY <3>6, <3>7
      <4>2. Written(Outs(u)[k]) = Written(Ins(t)[k].type)
        BY <3>8, <4>1 DEF IsCompatible
      <4>3. Outs(u)[k] \in DOMAIN FieldType /\ Ins(t)[k].type \in DOMAIN FieldType
        BY <1>4, <3>4, <4>1, CompileAssumption DEF Outs, Ins, Tools
      <4>4. TypeKept(Outs(u)[k]) = TypeKept(Ins(t)[k].type)
        BY <4>2, <4>3, CompileAssumption DEF Written, TypeKept
      <4> QED
        BY <4>1, <4>4 DEF TypesCompatible, Widens
    <3> QED
      BY <2>1, <3>6, <3>7, <3>9, <3>10
  <2> QED
    BY <2>2, <2>3
<1>10. /\ s.tool # Composed /\ Known(s.tool) /\ ~HasFallback(s)
  BY <1>4, CompileAssumption DEF Composed, Known, HasFallback, Tools
<1>11. BadTargets(s, s.tool) = {} /\ Unresolved(s, F) = {}
  BY <1>4, <1>9 DEF BadTargets, Unresolved, Ins
<1>12. Mistyped(s, s.tool, F) = {}
  BY <1>4, <1>9 DEF Mistyped, Ins
<1>13. Uncovered(s, s.tool, F) = {}
  <2>1. CASE s.ins = <<>>
    <3>1. DOMAIN s.ins = {}
      BY <2>1
    <3> QED
      BY <1>4, <1>9, <3>1 DEF Uncovered
  <2>2. CASE s.ins # <<>>
    BY <1>4, <1>9, <2>2 DEF Uncovered
  <2> QED
    BY <2>1, <2>2
<1>14. MappedOutputs(s) \subseteq DOMAIN ToolTable[s.tool].outs
  BY <1>4 DEF MappedOutputs
<1>15. StepErrors(s, F) = {}
  BY <1>10, <1>11, <1>12, <1>13, <1>14 DEF StepErrors
<1> QED
  BY <1>1, <1>3, <1>7, <1>15

-----------------------------------------------------------------------------
(* The advice, one part at a time.                                         *)

LEMMA OfferedMappingsServe == MappingsServe
<1> SUFFICES ASSUME NEW p \in Tools, NEW c \in Tools, NEW m \in SchemaMappings(p, c), NEW s,
                    s = [NoStep EXCEPT !.tool = c,
                                       !.ins = [f \in DOMAIN m |-> [kind |-> "key", key |-> m[f]]]]
             PROVE  StepErrors(s, Overlay(InputSchema, Outs(p))) \subseteq {"type_mismatch"}
  BY DEF MappingsServe
<1>1. PICK F : F = Overlay(InputSchema, Outs(p))
  OBVIOUS
<1>2. /\ s.tool = c /\ s.outs = <<>> /\ s.onError = "fail" /\ DOMAIN s.ins = DOMAIN m
      /\ \A f \in DOMAIN m : s.ins[f].kind = "key" /\ s.ins[f].key = m[f]
  BY DEF NoStep
<1>3. /\ DOMAIN m \subseteq DOMAIN Ins(c) /\ Required(c) \subseteq DOMAIN m
      /\ \A f \in DOMAIN m : m[f] \in DOMAIN Outs(p)
  BY DEF SchemaMappings
<1>4. DOMAIN Outs(p) \subseteq DOMAIN F
  BY <1>1 DEF Overlay
<1>5. /\ s.tool # Composed /\ Known(s.tool) /\ ~HasFallback(s)
  BY <1>2, CompileAssumption DEF Composed, Known, HasFallback, Tools
<1>6. BadTargets(s, s.tool) = {}
  BY <1>2, <1>3 DEF BadTargets, Ins
<1>7. Unresolved(s, F) = {}
  BY <1>2, <1>3, <1>4 DEF Unresolved
<1>8. Uncovered(s, s.tool, F) = {}
  <2>1. CASE s.ins = <<>>
    <3>1. DOMAIN s.ins = {}
      BY <2>1
    <3> QED
      BY <1>2, <1>3, <3>1 DEF Uncovered
  <2>2. CASE s.ins # <<>>
    BY <1>2, <1>3, <2>2 DEF Uncovered
  <2> QED
    BY <2>1, <2>2
<1>9. MappedOutputs(s) \subseteq DOMAIN ToolTable[s.tool].outs
  BY <1>2 DEF MappedOutputs
<1>10. StepErrors(s, F) \subseteq {"type_mismatch"}
  BY <1>5, <1>6, <1>7, <1>8, <1>9 DEF StepErrors
<1> QED
  BY <1>1, <1>10

LEMMA ExplainHolds ==
  ASSUME RunInv
  PROVE  ExplainIsTrue
<1> SUFFICES ASSUME lane = "Flow", verdict.done, AllResolvable, Kept,
                    NEW i \in DOMAIN plan, RunReady(i), NEW k \in Unresolved(plan[i], ctx)
             PROVE  \E j \in 1 .. i - 1 : plan[i].ins[k].key \in Undelivered(plan[j])
  BY DEF ExplainIsTrue, Kept
<1>1. 1 .. i - 1 \subseteq ran
  BY DEF RunReady
<1>2. /\ k \in DOMAIN plan[i].ins /\ plan[i].ins[k].kind # "literal"
      /\ plan[i].ins[k].key \notin DOMAIN ctx
  BY DEF Unresolved
<1>3. plan[i].ins[k].key \in ProjectedContext(i)
  BY <1>2 DEF AllResolvable, UnresolvedKeys
<1>4. plan[i].ins[k].key \notin DOMAIN InputSchema
  BY <1>2 DEF RunInv, CompileInv, CtxInv, Kept
<1>5. PICK j \in 1 .. i - 1 : plan[i].ins[k].key \in ProjectedKeys(plan[j])
  BY <1>3, <1>4 DEF ProjectedContext
<1>6. plan[i].ins[k].key \notin Delivers(plan[j])
  BY <1>1, <1>2, <1>5 DEF RunInv, CompileInv, CtxInv
<1> QED
  BY <1>5, <1>6 DEF Delivers

(* A linear step sees nothing but the input and what came before.          *)
LEMMA LinearFieldsBound ==
  ASSUME NEW p, IsPlan(p), NEW i \in DOMAIN p, NEW x \in DOMAIN StepFields(p, "Flow", i)
  PROVE  x \in DOMAIN InputSchema \/ \E n \in 1 .. i - 1 : x \in DOMAIN Contribution(p[n])
<1> DEFINE M == MaxFlowSteps
           SoFar(j) == DOMAIN InputSchema \cup UNION {DOMAIN Contribution(p[n]) : n \in 1 .. j - 1}
<1>0. M \in Nat /\ DOMAIN p \subseteq Nat \ {0} /\ \A j \in DOMAIN p : j = 1 \/ j - 1 \in DOMAIN p
  BY CompileAssumption DEF IsPlan
<1>1. PICK g : /\ FieldsOf(p, "Flow") = g[M]
               /\ \A j \in DOMAIN p : g[0][j] = InputSchema
               /\ \A n \in 1 .. M : \A j \in DOMAIN p : g[n][j] = SeenFrom(g[n - 1], p, "Flow", j)
  BY FieldsUnfold
<1> HIDE DEF M
<1> DEFINE S == {n \in 0 .. M : \A j \in DOMAIN p : DOMAIN g[n][j] \subseteq SoFar(j)}
<1>2. 0 \in S
  BY <1>0, <1>1
<1>3. ASSUME NEW n \in S, n < M PROVE n + 1 \in S
  <2>1. n + 1 \in 1 .. M /\ n + 1 \in 0 .. M /\ (n + 1) - 1 = n
    BY <1>0, <1>3
  <2>2. SUFFICES ASSUME NEW j \in DOMAIN p PROVE DOMAIN g[n + 1][j] \subseteq SoFar(j)
    BY <2>1
  <2>3. g[n + 1][j] = SeenFrom(g[n], p, "Flow", j)
    BY <1>1, <2>1
  <2>4. PICK h : h = g[n]
    OBVIOUS
  <2>5. PICK ds : ds = StepsBefore(p, "Flow", j)
    OBVIOUS
  <2>6. PICK fs : fs = [d \in DOMAIN ds |-> Overlay(h[ds[d]], Contribution(p[ds[d]]))]
    OBVIOUS
  <2>7. PICK m \in Nat : DOMAIN ds = 1 .. m
    BY <2>5, StepsBeforeIsList
  <2>8. ASSUME NEW d \in DOMAIN fs PROVE DOMAIN fs[d] \subseteq SoFar(j)
    <3>1. j # 1 /\ ds[d] = j - 1
      BY <2>5, <2>6, <2>8 DEF StepsBefore
    <3>2. PICK k : k = j - 1
      OBVIOUS
    <3>3. k \in DOMAIN p /\ j \in Nat /\ k \in 1 .. j - 1
      BY <1>0, <3>1, <3>2
    <3>4. DOMAIN fs[d] = DOMAIN h[k] \cup DOMAIN Contribution(p[k])
      BY <2>6, <2>8, <3>1, <3>2 DEF Overlay
    <3>5. DOMAIN h[k] \subseteq SoFar(k)
      BY <2>4, <3>3
    <3>6. SoFar(k) \subseteq SoFar(j)
      <4>1. 1 .. k - 1 \subseteq 1 .. j - 1
        BY <3>2, <3>3
      <4> QED
        BY <4>1
    <3>7. DOMAIN Contribution(p[k]) \subseteq SoFar(j)
      BY <3>3
    <3> QED
      BY <3>4, <3>5, <3>6, <3>7
  <2>9. IsUpdate(Updated(InputSchema, fs), InputSchema, fs)
    <3>1. DOMAIN fs = 1 .. m
      BY <2>6, <2>7
    <3> QED
      BY <3>1, UpdatedMeans
  <2>10. DOMAIN Updated(InputSchema, fs) \subseteq SoFar(j)
    BY <2>8, <2>9 DEF IsUpdate
  <2>11. SeenFrom(g[n], p, "Flow", j) = Updated(InputSchema, fs)
    BY <2>4, <2>5, <2>6 DEF SeenFrom
  <2> QED
    BY <2>3, <2>10, <2>11
<1> HIDE DEF S
<1>4. S = 0 .. M
  <2>1. S \in SUBSET (0 .. M)
    BY DEF S
  <2> QED
    BY <1>0, <1>2, <1>3, <2>1, UpTo
<1>5. M \in S
  BY <1>0, <1>4
<1>6. DOMAIN g[M][i] \subseteq SoFar(i)
  BY <1>5 DEF S
<1>7. x \in SoFar(i)
  BY <1>1, <1>6 DEF StepFields
<1> QED
  BY <1>7

LEMMA FieldsWithoutKeeps ==
  ASSUME NEW i \in Nat, NEW j \in Nat \ {0}, NEW x,
         x \in DOMAIN InputSchema
           \/ \E n \in 1 .. j - 1 : n # i /\ x \in DOMAIN Contribution(plan[n])
  PROVE  x \in DOMAIN FieldsWithout(j, i)
<1>1. PICK fs : fs = [n \in 1 .. j - 1 |-> IF n = i THEN <<>> ELSE Contribution(plan[n])]
  OBVIOUS
<1>2. j - 1 \in Nat /\ DOMAIN fs = 1 .. j - 1
  BY <1>1
<1>3. IsUpdate(Updated(InputSchema, fs), InputSchema, fs)
  <2>1. PICK m \in Nat : m = j - 1
    BY <1>2
  <2>2. DOMAIN fs = 1 .. m
    BY <1>2, <2>1
  <2> QED
    BY <2>2, UpdatedMeans
<1>4. FieldsWithout(j, i) = Updated(InputSchema, fs)
  BY <1>1 DEF FieldsWithout
<1>5. CASE x \in DOMAIN InputSchema
  BY <1>3, <1>4, <1>5 DEF IsUpdate
<1>6. CASE \E n \in 1 .. j - 1 : n # i /\ x \in DOMAIN Contribution(plan[n])
  <2>1. \E n \in DOMAIN fs : x \in DOMAIN fs[n]
    BY <1>1, <1>6
  <2> QED
    BY <1>3, <1>4, <2>1 DEF IsUpdate
<1> QED
  BY <1>5, <1>6

(* A later step that reads nothing of step i does as well without it.      *)
LEMMA NotMissed ==
  ASSUME RunInv, Readable, verdict.done, verdict.errors = {},
         NEW i \in DOMAIN plan, NEW j \in DOMAIN plan, i < j, Known(plan[i].tool),
         DOMAIN Outs(plan[i].tool) \cap StepReads(plan[j]) = {}
  PROVE  /\ Unresolved(plan[j], FieldsWithout(j, i)) = {}
         /\ Uncovered(plan[j], plan[j].tool, FieldsWithout(j, i)) = {}
<1>1. PICK p, s, F, G : /\ p = plan /\ s = plan[j] /\ F = StepFields(p, "Flow", j)
                        /\ G = FieldsWithout(j, i)
  OBVIOUS
<1>2. /\ IsPlan(p) /\ lane = "Flow" /\ i \in Nat /\ j \in Nat \ {0}
      /\ IsStep(s) /\ s.tool # Composed /\ \A k \in DOMAIN s.ins : s.ins[k].kind # "pointer"
  BY <1>1 DEF RunInv, CompileInv, LaneInv, Readable, IsPlan
<1>3. StepErrors(s, F) = {}
  BY <1>1, <1>2, VerdictMeans DEF RunInv, CompileInv
<1>4. /\ Unresolved(s, F) = {} /\ Uncovered(s, s.tool, F) = {} /\ Known(s.tool)
  BY <1>2, <1>3, CleanStepInputs, CleanStepTools
<1>5. Contribution(p[i]) = Outs(p[i].tool)
  BY <1>1 DEF Contribution, Produces, Renamed, Outs, Readable
<1>6. ASSUME NEW x \in DOMAIN F, x \in StepReads(s) PROVE x \in DOMAIN G
  <2>1. x \in DOMAIN InputSchema \/ \E n \in 1 .. j - 1 : x \in DOMAIN Contribution(p[n])
    BY <1>1, <1>2, <1>6, LinearFieldsBound
  <2>2. x \notin DOMAIN Contribution(p[i])
    BY <1>1, <1>5, <1>6
  <2>3. x \in DOMAIN InputSchema
          \/ \E n \in 1 .. j - 1 : n # i /\ x \in DOMAIN Contribution(plan[n])
    BY <1>1, <2>1, <2>2
  <2>4. x \in DOMAIN FieldsWithout(j, i)
    BY <1>2, <2>3, FieldsWithoutKeeps
  <2> QED
    BY <1>1, <2>4
<1>7. Unresolved(s, G) = {}
  <2>1. SUFFICES ASSUME NEW k \in DOMAIN s.ins, s.ins[k].kind # "literal"
                 PROVE  s.ins[k].key \in DOMAIN G
    BY DEF Unresolved
  <2>2. s.ins[k].kind = "key"
    BY <1>2, <2>1 DEF IsStep
  <2>3. s.ins[k].key \in DOMAIN F
    BY <1>4, <2>1 DEF Unresolved
  <2>4. s.ins # <<>>
    <3>1. DOMAIN s.ins # {} /\ DOMAIN <<>> = {}
      BY <2>1
    <3> QED
      BY <3>1
  <2>5. s.ins[k].key \in StepReads(s)
    BY <2>1, <2>2, <2>4 DEF StepReads
  <2> QED
    BY <1>6, <2>3, <2>5
<1>8. Uncovered(s, s.tool, G) = {}
  <2>1. CASE s.ins # <<>>
    BY <1>4, <2>1 DEF Uncovered
  <2>2. CASE s.ins = <<>>
    <3>1. Required(s.tool) \subseteq DOMAIN F
      BY <1>4, <2>2 DEF Uncovered
    <3>2. Required(s.tool) \subseteq StepReads(s)
      BY <1>4, <2>2 DEF StepReads, Required, Ins
    <3>3. Required(s.tool) \subseteq DOMAIN G
      BY <1>6, <3>1, <3>2
    <3> QED
      BY <2>2, <3>3 DEF Uncovered
  <2> QED
    BY <2>1, <2>2
<1> QED
  BY <1>1, <1>7, <1>8

LEMMA DeadStepsHold ==
  ASSUME RunInv
  PROVE  DeadStepsAreDead
<1> SUFFICES ASSUME Readable, verdict.done, verdict.errors = {}
             PROVE  /\ \A i \in DeadSteps : \A j \in i + 1 .. Len(plan) :
                         /\ Unresolved(plan[j], FieldsWithout(j, i)) = {}
                         /\ Uncovered(plan[j], plan[j].tool, FieldsWithout(j, i)) = {}
                    /\ \A i \in DeadSteps :
                         DOMAIN OutputSchema \ DOMAIN FieldsWithout(Len(plan) + 1, i)
                           \subseteq DOMAIN Outs(plan[i].tool)
                    /\ \A i \in ParallelizablePairs :
                         Unresolved(plan[i + 1], FieldsWithout(i + 1, i)) = {}
  BY DEF DeadStepsAreDead
<1>1. Len(plan) \in Nat /\ DOMAIN plan = 1 .. Len(plan)
  BY DEF RunInv, CompileInv, LaneInv, IsPlan
<1>2. ASSUME NEW i \in DeadSteps, NEW j \in i + 1 .. Len(plan)
      PROVE  /\ Unresolved(plan[j], FieldsWithout(j, i)) = {}
             /\ Uncovered(plan[j], plan[j].tool, FieldsWithout(j, i)) = {}
  <2>1. i \in 1 .. Len(plan) - 1
    BY DEF DeadSteps
  <2>2. i \in DOMAIN plan /\ j \in DOMAIN plan /\ i < j
    BY <1>1, <2>1
  <2>3. StepReads(plan[j]) \subseteq DownstreamReads(i)
    BY DEF DownstreamReads
  <2>4. Known(plan[i].tool) /\ DOMAIN Outs(plan[i].tool) \cap StepReads(plan[j]) = {}
    BY <2>3 DEF DeadSteps
  <2> QED
    BY <2>2, <2>4, NotMissed
<1>3. ASSUME NEW i \in ParallelizablePairs
      PROVE  Unresolved(plan[i + 1], FieldsWithout(i + 1, i)) = {}
  <2>1. i \in 1 .. Len(plan) - 1
    BY DEF ParallelizablePairs
  <2>2. i \in DOMAIN plan /\ i + 1 \in DOMAIN plan /\ i < i + 1
    BY <1>1, <2>1
  <2>3. Known(plan[i].tool) /\ DOMAIN Outs(plan[i].tool) \cap StepReads(plan[i + 1]) = {}
    BY DEF ParallelizablePairs
  <2>4. PICK j : j = i + 1
    OBVIOUS
  <2>5. Unresolved(plan[j], FieldsWithout(j, i)) = {}
    BY <2>2, <2>3, <2>4, NotMissed
  <2> QED
    BY <2>4, <2>5
<1>4. ASSUME NEW i \in DeadSteps, NEW x \in DOMAIN OutputSchema,
             x \notin DOMAIN FieldsWithout(Len(plan) + 1, i)
      PROVE  x \in DOMAIN Outs(plan[i].tool)
  <2>1. i \in DOMAIN plan /\ i \in Nat /\ Known(plan[i].tool)
    BY <1>1 DEF DeadSteps
  <2>2. Len(plan) + 1 \in Nat \ {0} /\ 1 .. (Len(plan) + 1) - 1 = DOMAIN plan
    BY <1>1
  <2>3. verdict.errors = CompileErrors(plan, lane)
    BY VerdictMeans DEF RunInv, CompileInv
  <2>4. x \in FinalKeys(plan)
    <3>1. "output_schema_gap" \notin CompileErrors(plan, lane)
      BY <2>3
    <3> QED
      BY <3>1 DEF CompileErrors
  <2>5. ~(x \in DOMAIN InputSchema
           \/ \E n \in DOMAIN plan : n # i /\ x \in DOMAIN Contribution(plan[n]))
    BY <1>4, <2>1, <2>2, FieldsWithoutKeeps
  <2>6. x \in DOMAIN Contribution(plan[i])
    BY <2>4, <2>5 DEF FinalKeys
  <2>7. Contribution(plan[i]) = Outs(plan[i].tool)
    BY <2>1 DEF Contribution, Produces, Renamed, Outs, Readable
  <2> QED
    BY <2>6, <2>7
<1> QED
  BY <1>2, <1>3, <1>4

-----------------------------------------------------------------------------
(* The analyzer's part of the invariant.                                   *)

SuggestedInv ==
  suggested => lane = "Flow" /\ \E ch : Suggestible(ch) /\ plan = SuggestedPlan(ch)
AdviceInv == RunInv /\ SuggestedInv

LEMMA SuggestionsCompile ==
  ASSUME AdviceInv
  PROVE  SuggestedFlowsCompile
<1> SUFFICES ASSUME suggested, verdict.done
             PROVE  verdict.errors \subseteq {"output_schema_gap", "output_type_mismatch"}
  BY DEF SuggestedFlowsCompile
<1>1. PICK ch : Suggestible(ch) /\ plan = SuggestedPlan(ch) /\ lane = "Flow"
  BY DEF AdviceInv, SuggestedInv
<1>2. PICK p : p = SuggestedPlan(ch)
  OBVIOUS
<1>3. TopologyError(p) = "none"
  BY <1>1, <1>2, SuggestedTopology DEF Suggestible
<1>4. \A i \in DOMAIN p : StepErrors(p[i], StepFields(p, "Flow", i)) = {}
  BY <1>1, <1>2, SuggestedClean
<1>5. verdict.errors = CompileErrors(p, "Flow")
  BY <1>1, <1>2, <1>3, VerdictMeans DEF AdviceInv, RunInv, CompileInv
<1> QED
  BY <1>4, <1>5 DEF CompileErrors

LEMMA LaneStays ==
  ASSUME CompileNext
  PROVE  lane' = lane
BY DEF CompileNext, AddStep, CompileFlow, ExecuteStep, BranchSkips, FinishRun

LEMMA SuggestKeeps ==
  ASSUME AdviceInv, NEW ch \in FindChains, SuggestFlow(ch)
  PROVE  AdviceInv'
<1>1. IsChain(ch)
  BY ChainsLink
<1>2. Suggestible(ch)
  BY <1>1 DEF Suggestible, SuggestFlow
<1>3. plan' = SuggestedPlan(ch) /\ lane' = lane /\ lane = "Flow" /\ ~verdict.done
  BY DEF SuggestFlow
<1>4. LaneInv'
  <2>1. IsPlan(SuggestedPlan(ch))
    BY <1>1, SuggestedIsPlan
  <2> QED
    BY <1>3, <2>1 DEF LaneInv
<1>5. RunInv'
  BY <1>3, <1>4, NotYetCompiled DEF AdviceInv, SuggestFlow
<1>6. SuggestedInv'
  BY <1>2, <1>3 DEF SuggestedInv
<1> QED
  BY <1>5, <1>6 DEF AdviceInv

(* The advice about a flow is safe to take: a suggested flow compiles but  *)
(* for its output schema, an offered mapping serves its consumer, a dead   *)
(* step is missed by no later step and by the output schema only for what  *)
(* it wrote, and a flow explain_flow calls resolvable stops for no mapped  *)
(* key but one that a sub-flow declared and did not deliver.               *)
THEOREM AdviceSafe == AnalyzerSpec => []AdviceIsSafe
<1>1. ASSUME AnalyzerInit PROVE AdviceInv
  BY <1>1, InitEstablishes DEF AnalyzerInit, AdviceInv, SuggestedInv
<1>2. ASSUME AdviceInv, [AnalyzerNext]_analyzerVars PROVE AdviceInv'
  <2>1. ASSUME CompileNext, suggested' <=> (suggested /\ plan' = plan) PROVE AdviceInv'
    <3>1. RunInv'
      BY <1>2, <2>1, CompileStepKeeps DEF AdviceInv
    <3>2. SuggestedInv'
      BY <1>2, <2>1, LaneStays DEF AdviceInv, SuggestedInv
    <3> QED
      BY <3>1, <3>2 DEF AdviceInv
  <2>2. ASSUME NEW ch \in FindChains, SuggestFlow(ch) PROVE AdviceInv'
    BY <1>2, <2>2, SuggestKeeps
  <2>3. CASE UNCHANGED analyzerVars
    <3>1. UNCHANGED compileVars /\ suggested' = suggested
      BY <2>3 DEF analyzerVars
    <3>2. RunInv'
      BY <1>2, <3>1, StutterKeeps DEF AdviceInv
    <3>3. plan' = plan /\ lane' = lane
      BY <3>1 DEF compileVars
    <3>4. SuggestedInv'
      BY <1>2, <3>1, <3>3 DEF AdviceInv, SuggestedInv
    <3> QED
      BY <3>2, <3>4 DEF AdviceInv
  <2> QED
    BY <1>2, <2>1, <2>2, <2>3 DEF AnalyzerNext
<1>3. ASSUME AdviceInv PROVE AdviceIsSafe
  BY <1>3, SuggestionsCompile, OfferedMappingsServe, DeadStepsHold, ExplainHolds
  DEF AdviceIsSafe, AdviceInv
<1> QED
  BY <1>1, <1>2, <1>3, PTL DEF AnalyzerSpec


-----------------------------------------------------------------------------
(* Sequences taken apart at their last element.                            *)

LEMMA LastTaken ==
  ASSUME NEW T, NEW s \in Seq(T), s # <<>>
  PROVE  /\ Len(s) \in Nat \ {0} /\ s[Len(s)] \in T
         /\ Front(s) \in Seq(T) /\ Len(Front(s)) = Len(s) - 1
         /\ \A i \in 1 .. Len(s) - 1 : Front(s)[i] = s[i]
         /\ s = Append(Front(s), s[Len(s)])
<1>1. Len(s) \in Nat \ {0} /\ s[Len(s)] \in T /\ DOMAIN s = 1 .. Len(s)
  OBVIOUS
<1>2. Front(s) = SubSeq(s, 1, Len(s) - 1)
  BY DEF Front
<1>3. /\ Front(s) \in Seq(T) /\ Len(Front(s)) = Len(s) - 1
      /\ \A i \in 1 .. Len(s) - 1 : Front(s)[i] = s[i]
  BY <1>1, <1>2
<1>4. PICK f : f = Front(s)
  OBVIOUS
<1>5. s = Append(f, s[Len(s)])
  <2>1. Append(f, s[Len(s)]) \in Seq(T) /\ Len(Append(f, s[Len(s)])) = Len(s)
    <3>1. PICK x \in T : x = s[Len(s)]
      BY <1>1
    <3>2. f \in Seq(T) /\ Len(f) = Len(s) - 1
      BY <1>3, <1>4, Zenon
    <3>3. Len(f) + 1 = Len(s)
      BY <1>1, <3>2
    <3> QED
      BY <3>1, <3>2, <3>3, AppendProperties
  <2>2. \A i \in 1 .. Len(s) : Append(f, s[Len(s)])[i] = s[i]
    BY <1>1, <1>3, <1>4, AppendProperties
  <2> QED
    BY <1>1, <2>1, <2>2, SeqEqual
<1> QED
  BY <1>1, <1>3, <1>4, <1>5

LEMMA FrontOfAppend ==
  ASSUME NEW T, NEW s \in Seq(T), NEW x \in T
  PROVE  Front(Append(s, x)) = s /\ Append(s, x) # <<>> /\ Append(s, x) \in Seq(T)
         /\ Len(Append(s, x)) = Len(s) + 1 /\ Append(s, x)[Len(s) + 1] = x
         /\ \A i \in 1 .. Len(s) : Append(s, x)[i] = s[i]
<1>1. /\ Append(s, x) \in Seq(T) /\ Len(Append(s, x)) = Len(s) + 1 /\ Len(s) \in Nat
      /\ Append(s, x)[Len(s) + 1] = x /\ \A i \in 1 .. Len(s) : Append(s, x)[i] = s[i]
  OBVIOUS
<1>2. PICK a : a = Append(s, x)
  OBVIOUS
<1>3. SubSeq(a, 1, Len(a) - 1) \in Seq(T) /\ Len(SubSeq(a, 1, Len(a) - 1)) = Len(s)
      /\ \A i \in 1 .. Len(s) : SubSeq(a, 1, Len(a) - 1)[i] = s[i]
  BY <1>1, <1>2
<1>4. SubSeq(a, 1, Len(a) - 1) = s
  BY <1>1, <1>3, SeqEqual
<1> QED
  BY <1>1, <1>2, <1>4 DEF Front

-----------------------------------------------------------------------------
(* Counting tool steps.                                                    *)

(* The members of a list of finite sets, told apart by their place.        *)
Tagged(S) == UNION {{k} \X S[k] : k \in DOMAIN S}

LEMMA TaggedGrows ==
  ASSUME NEW n \in Nat, NEW S, NEW R, DOMAIN S = 1 .. n, DOMAIN R = 1 .. n + 1,
         \A k \in 1 .. n : R[k] = S[k], IsFiniteSet(Tagged(S)), IsFiniteSet(R[n + 1])
  PROVE  /\ IsFiniteSet(Tagged(R))
         /\ Cardinality(Tagged(R)) = Cardinality(Tagged(S)) + Cardinality(R[n + 1])
<1> DEFINE A == Tagged(S)
           B == {n + 1} \X R[n + 1]
<1>1. Tagged(R) = A \cup B
  <2>1. 1 .. n + 1 = 1 .. n \cup {n + 1}
    OBVIOUS
  <2> QED
    BY <2>1 DEF Tagged
<1>2. A \cap B = {}
  BY DEF Tagged
<1>3. IsFiniteSet({n + 1}) /\ Cardinality({n + 1}) = 1
  BY FS_Singleton
<1>4. IsFiniteSet(B) /\ Cardinality(B) = 1 * Cardinality(R[n + 1])
  BY <1>3, FS_Product
<1>5. Cardinality(R[n + 1]) \in Nat /\ Cardinality(A) \in Nat
  BY FS_CardinalityType
<1>6. IsFiniteSet(A \cup B) /\ Cardinality(A \cup B) = Cardinality(A) + Cardinality(B) - Cardinality(A \cap B)
  BY <1>4, FS_Union
<1>7. Cardinality({}) = 0
  BY FS_EmptySet
<1>8. Cardinality(A \cup B) = Cardinality(A) + Cardinality(R[n + 1])
  <2> HIDE DEF A, B
  <2>1. Cardinality(A \cap B) = 0
    BY <1>2, <1>7, Zenon
  <2>2. Cardinality(B) = Cardinality(R[n + 1])
    BY <1>4, <1>5
  <2> QED
    BY <1>5, <1>6, <2>1, <2>2
<1> QED
  BY <1>1, <1>6, <1>8

LEMMA TaggedEmpty ==
  ASSUME NEW S, DOMAIN S = {}
  PROVE  IsFiniteSet(Tagged(S)) /\ Cardinality(Tagged(S)) = 0
<1>1. Tagged(S) = {}
  BY DEF Tagged
<1> QED
  BY <1>1, FS_EmptySet

LEMMA TaggedFinite ==
  ASSUME NEW n \in Nat, NEW S, DOMAIN S = 1 .. n, \A k \in 1 .. n : IsFiniteSet(S[k])
  PROVE  IsFiniteSet(Tagged(S))
<1> DEFINE First(m) == [k \in 1 .. m |-> S[k]]
           D == {m \in 0 .. n : IsFiniteSet(Tagged(First(m)))}
<1>1. 0 \in D
  <2>1. DOMAIN First(0) = {}
    OBVIOUS
  <2> QED
    BY <2>1, TaggedEmpty
<1>2. ASSUME NEW m \in D, m < n PROVE m + 1 \in D
  <2>1. m \in Nat /\ m + 1 \in 0 .. n /\ m + 1 \in 1 .. n
    BY <1>2
  <2>2. /\ DOMAIN First(m) = 1 .. m /\ DOMAIN First(m + 1) = 1 .. m + 1
        /\ \A k \in 1 .. m : First(m + 1)[k] = First(m)[k]
        /\ First(m + 1)[m + 1] = S[m + 1]
    BY <2>1
  <2>3. PICK F : F = First(m)
    OBVIOUS
  <2>4. PICK G : G = First(m + 1)
    OBVIOUS
  <2>5. IsFiniteSet(Tagged(F)) /\ IsFiniteSet(G[m + 1])
    BY <1>2, <2>1, <2>2, <2>3, <2>4
  <2>6. IsFiniteSet(Tagged(G))
    BY <2>1, <2>2, <2>3, <2>4, <2>5, TaggedGrows
  <2> QED
    BY <2>1, <2>4, <2>6
<1>3. D = 0 .. n
  <2>1. D \in SUBSET (0 .. n)
    OBVIOUS
  <2> HIDE DEF D
  <2> QED
    BY <1>1, <1>2, <2>1, UpTo
<1>4. n \in D
  <2> HIDE DEF D
  <2> QED
    BY <1>3
<1>5. Tagged(First(n)) = Tagged(S)
  BY DEF Tagged
<1> QED
  BY <1>4, <1>5

-----------------------------------------------------------------------------
(* Reading the events.                                                     *)

OpenedAt(h, t, n) == IF n = 0 THEN <<>> ELSE Reads(h[n - 1], t[n])
IsOpened(f, t, m) == f = [n \in 0 .. m |-> OpenedAt(f, t, n)]

Opened(t) ==
  LET open[n \in 0 .. Len(t)] == IF n = 0 THEN <<>> ELSE Reads(open[n - 1], t[n])
  IN open[Len(t)]

LEMMA OpenedMeans ==
  ASSUME NEW f, NEW t, NEW m \in Nat, IsOpened(f, t, m)
  PROVE  f[0] = <<>> /\ \A n \in 1 .. m : f[n] = Reads(f[n - 1], t[n])
<1>1. \A n \in 0 .. m : f[n] = OpenedAt(f, t, n)
  BY DEF IsOpened
<1> QED
  BY <1>1 DEF OpenedAt

LEMMA OpenedExists ==
  ASSUME NEW t, NEW m \in Nat
  PROVE  \E f : IsOpened(f, t, m)
<1> DEFINE S == {n \in 0 .. m : \E f : IsOpened(f, t, n)}
<1>1. 0 \in S
  <2> DEFINE f == [n \in 0 .. 0 |-> <<>>]
  <2>1. IsOpened(f, t, 0)
    BY DEF IsOpened, OpenedAt
  <2> HIDE DEF f
  <2> QED
    BY <2>1
<1>2. ASSUME NEW n \in S, n < m PROVE n + 1 \in S
  <2>1. PICK f : IsOpened(f, t, n)
    OBVIOUS
  <2> DEFINE last == Reads(f[n], t[n + 1])
             g == [k \in 0 .. n + 1 |-> IF k = n + 1 THEN last ELSE f[k]]
  <2>2. g[n + 1] = last /\ \A k \in 0 .. n : g[k] = f[k]
    OBVIOUS
  <2>3. g = [k \in 0 .. n + 1 |-> g[k]] /\ n \in Nat
    OBVIOUS
  <2> HIDE DEF g
  <2>4. \A k \in 0 .. n : f[k] = OpenedAt(f, t, k)
    BY <2>1 DEF IsOpened
  <2>5. ASSUME NEW k \in 0 .. n + 1 PROVE g[k] = OpenedAt(g, t, k)
    <3>1. CASE k = 0
      <4>1. k \in 0 .. n
        BY <2>3, <3>1
      <4> QED
        BY <2>2, <2>4, <3>1, <4>1 DEF OpenedAt
    <3>2. CASE k # 0 /\ k # n + 1
      <4>1. k \in 0 .. n /\ k - 1 \in 0 .. n
        BY <2>3, <3>2
      <4>2. g[k] = f[k] /\ f[k] = OpenedAt(f, t, k) /\ g[k - 1] = f[k - 1]
        BY <2>2, <2>4, <4>1
      <4> QED
        BY <4>2 DEF OpenedAt
    <3>3. CASE k = n + 1
      <4> HIDE DEF last
      <4>0. k # 0 /\ k - 1 = n /\ n \in 0 .. n
        BY <2>3, <3>3
      <4>1. k # 0 /\ g[k - 1] = f[n] /\ g[k] = last
        BY <2>2, <3>3, <4>0
      <4> USE DEF last
      <4>2. g[k] = Reads(g[k - 1], t[k])
        BY <3>3, <4>1, Zenon
      <4> QED
        BY <4>1, <4>2, Zenon DEF OpenedAt
    <3> QED
      BY <3>1, <3>2, <3>3
  <2>6. IsOpened(g, t, n + 1)
    BY <2>3, <2>5 DEF IsOpened
  <2>7. n + 1 \in 0 .. m
    BY <1>2
  <2> QED
    BY <2>6, <2>7
<1> HIDE DEF S
<1>3. S = 0 .. m
  <2>1. S \in SUBSET (0 .. m)
    BY DEF S
  <2> QED
    BY <1>1, <1>2, <2>1, UpTo
<1> QED
  BY <1>3 DEF S

LEMMA OpenedUnfolds ==
  ASSUME NEW t, Len(t) \in Nat
  PROVE  \E f : IsOpened(f, t, Len(t)) /\ Opened(t) = f[Len(t)]
<1> DEFINE n == Len(t)
           g == CHOOSE f : f = [k \in 0 .. n |-> IF k = 0 THEN <<>> ELSE Reads(f[k - 1], t[k])]
<1>1. PICK f : IsOpened(f, t, n)
  BY OpenedExists
<1>2. IsOpened(g, t, n)
  BY <1>1, Zenon DEF IsOpened, OpenedAt
<1>3. Opened(t) = g[n]
  BY Zenon DEF Opened
<1> QED
  BY <1>2, <1>3

LEMMA OpenedEmpty == Opened(<<>>) = <<>>
<1>1. Len(<<>>) = 0
  OBVIOUS
<1>2. PICK f : IsOpened(f, <<>>, Len(<<>>)) /\ Opened(<<>>) = f[Len(<<>>)]
  BY <1>1, OpenedUnfolds
<1>3. f[0] = <<>>
  BY <1>1, <1>2, OpenedMeans
<1> QED
  BY <1>1, <1>2, <1>3

(* One more event is read after those before it.                           *)
LEMMA OpenedGrows ==
  ASSUME NEW E, NEW t \in Seq(E), NEW e \in E
  PROVE  Opened(Append(t, e)) = Reads(Opened(t), e)
<1> DEFINE n == Len(t)
<1>1. PICK u : u = Append(t, e)
  OBVIOUS
<1>2. n \in Nat /\ Len(u) = n + 1 /\ u[n + 1] = e /\ \A i \in 1 .. n : u[i] = t[i]
  BY <1>1, AppendProperties
<1>3. PICK f : IsOpened(f, t, n) /\ Opened(t) = f[n]
  BY OpenedUnfolds
<1>4. PICK g : IsOpened(g, u, n + 1) /\ Opened(u) = g[n + 1]
  BY <1>2, OpenedUnfolds
<1>5. f[0] = <<>> /\ \A k \in 1 .. n : f[k] = Reads(f[k - 1], t[k])
  BY <1>2, <1>3, OpenedMeans
<1>6. g[0] = <<>> /\ \A k \in 1 .. n + 1 : g[k] = Reads(g[k - 1], u[k])
  BY <1>2, <1>4, OpenedMeans
<1> DEFINE S == {k \in 0 .. n : g[k] = f[k]}
<1> HIDE DEF n
<1>7. S = 0 .. n
  <2>1. S \in SUBSET (0 .. n) /\ 0 \in S
    BY <1>2, <1>5, <1>6
  <2>2. ASSUME NEW k \in S, k < n PROVE k + 1 \in S
    <3>1. k + 1 \in 1 .. n /\ k + 1 \in 1 .. n + 1 /\ (k + 1) - 1 = k /\ k + 1 \in 0 .. n
      BY <1>2, <2>2
    <3>2. f[k + 1] = Reads(f[k], t[k + 1]) /\ g[k + 1] = Reads(g[k], u[k + 1]) /\ u[k + 1] = t[k + 1]
      BY <1>2, <1>5, <1>6, <3>1
    <3>3. g[k] = f[k]
      OBVIOUS
    <3>4. g[k + 1] = f[k + 1]
      BY <3>2, <3>3
    <3> QED
      BY <3>1, <3>4
  <2> HIDE DEF S
  <2> QED
    BY <1>2, <2>1, <2>2, UpTo
<1>8. g[n] = f[n]
  <2>1. n \in S
    <3> HIDE DEF S
    <3> QED
      BY <1>2, <1>7
  <2> QED
    BY <2>1
<1>9. g[n + 1] = Reads(g[n], u[n + 1])
  <2>1. n + 1 \in 1 .. n + 1 /\ (n + 1) - 1 = n
    BY <1>2
  <2> QED
    BY <1>6, <2>1
<1> QED
  BY <1>1, <1>2, <1>3, <1>4, <1>8, <1>9

-----------------------------------------------------------------------------
(* What holds of every state of a composed call.                           *)

StepRecords ==
  {r \in [ok : BOOLEAN, out : Outputs \cup {"none", "input"}, tools : Nat] : r.ok = (r.out # "none")}
StepLogs == Seq(StepRecords)
Registered == UNION {Bodies[f] : f \in NestFlows}
Activations ==
  [flow : NestFlows, body : Registered, at : Nat \ {0}, log : StepLogs, decisions : Nat,
   dry : BOOLEAN, cancellable : BOOLEAN]
Results == {<<>>} \cup (StepLogs \X BOOLEAN)
Snapshots == {<<>>} \cup (Nat \X StepLogs)
Events == [kind : {"flow_start", "flow_end", "step_start", "step_end"}, flow : NestFlows]
FlowCalls == [kind : {"none", "execute", "stream", "resume", "replay"}, dry : BOOLEAN, from : Nat]

CompositionTypes ==
  /\ nestReg \in [NestFlows -> Registered] /\ call \in FlowCalls
  /\ frames \in Seq(Activations) /\ partial \in Seq(StepLogs)
  /\ ended \in {"none", "success", "failure", "cancelled", "error"}
  /\ lastLog \in Results /\ replayed \in Results /\ nestSnap \in Snapshots
  /\ ambient \in Nat /\ tape \in Seq(Events) /\ tally \in Nat /\ effects \in Nat
  /\ readTo \in Nat /\ nestEdits \in Nat /\ holder \in BOOLEAN

(* Between calls nothing is left of the last one, and one that has ended   *)
(* has left the stack.                                                     *)
StackMatchesCall ==
  /\ call = NoFlowCall =>
       /\ frames = <<>> /\ ended = "none" /\ tape = <<>> /\ tally = 0 /\ effects = 0
       /\ readTo = 0 /\ worker = "none" /\ reader = "none" /\ ~holder
  /\ ended # "none" => frames = <<>>
  /\ partial # <<>> => frames # <<>>

AllDry(fs) == \A k \in 1 .. Len(fs) : fs[k].dry
StaysDry == call.dry => effects = 0 /\ AllDry(frames)

ReaderFollowsWorker ==
  /\ worker \in {"caught", "exiting", "exited"} =>
       ended # "none" /\ holder = (ended \in {"error", "cancelled"})
  /\ reader \in {"raising", "returning", "raised", "returned"} =>
       readTo = Len(tape) /\ SentinelPut /\ (holder = (reader \in {"raising", "raised"}))
  /\ reader \in {"raised", "returned", "abandoned"} => worker = "exited"

(* A stack of registered bodies, each called by the one below it.          *)
Linked(fs, reg, refs) ==
  /\ \A k \in 1 .. Len(fs) : fs[k].body = reg[fs[k].flow]
  /\ fs # <<>> => fs[1].flow = RootFlow
  /\ \A k \in 1 .. Len(fs) - 1 : fs[k + 1].flow \in refs[fs[k].flow]
  /\ Len(fs) <= MaxNesting + 1

References == [f \in NestFlows |-> SubFlows(f)]
FollowsReferences ==
  nestEdits = 0 =>
    /\ frames # <<>> \/ lastLog # <<>> \/ nestSnap # <<>> => Visit(RootFlow)
    /\ Linked(frames, nestReg, References)

Made(fs) == Cardinality(Tagged([k \in DOMAIN fs |-> ToolSteps(fs[k].log)]))
Carried == IF partial = <<>> THEN 0 ELSE CountComposed(partial[1])
EveryStepCounts ==
  /\ ended = "none" => tally = Made(frames) + Carried
  /\ ended \in {"success", "failure", "cancelled"} =>
       lastLog # <<>> /\ tally = CountComposed(lastLog[1])

FlowsOf(fs) == [k \in DOMAIN fs |-> fs[k].flow]
ReadersFollow ==
  /\ ended = "none" => Opened(tape) = FlowsOf(frames)
  /\ ended \in {"success", "failure", "cancelled"} => Opened(tape) = <<>>

ResultsAreTrue ==
  /\ lastLog # <<>> /\ lastLog[2] => Succeeds(lastLog[1])
  /\ replayed # <<>> /\ replayed[2] => Succeeds(replayed[1])
  /\ call.kind = "replay" => replayed # <<>>
  /\ ended = "failure" => lastLog # <<>> /\ ~Succeeds(lastLog[1])

CompositionInv ==
  /\ CompositionTypes /\ StackMatchesCall /\ StaysDry /\ ReaderFollowsWorker
  /\ FollowsReferences /\ EveryStepCounts /\ ReadersFollow /\ ResultsAreTrue

-----------------------------------------------------------------------------
(* Records, logs and stacks.                                               *)

LEMMA LogCounts ==
  ASSUME NEW log \in StepLogs
  PROVE  IsFiniteSet(ToolSteps(log)) /\ CountComposed(log) \in Nat
<1> DEFINE S == [i \in DOMAIN log |-> 1 .. log[i].tools]
<1>1. log \in Seq(StepRecords) /\ Len(log) \in Nat /\ DOMAIN log = 1 .. Len(log)
  BY DEF StepLogs
<1>2. \A i \in 1 .. Len(log) : log[i].tools \in Nat
  BY <1>1 DEF StepRecords
<1>3. \A i \in 1 .. Len(log) : IsFiniteSet(S[i])
  <2>1. ASSUME NEW i \in 1 .. Len(log) PROVE IsFiniteSet(S[i])
    <3>1. S[i] = 1 .. log[i].tools /\ log[i].tools \in Int /\ 1 \in Int
      BY <1>1, <1>2
    <3> QED
      BY <3>1, FS_Interval
  <2> HIDE DEF S
  <2> QED
    BY <2>1
<1>4. IsFiniteSet(Tagged(S))
  <2>1. PICK R : R = S
    OBVIOUS
  <2>2. DOMAIN R = 1 .. Len(log) /\ \A i \in 1 .. Len(log) : IsFiniteSet(R[i])
    BY <1>1, <1>3, <2>1
  <2>3. IsFiniteSet(Tagged(R))
    BY <1>1, <2>2, TaggedFinite
  <2> QED
    BY <2>1, <2>3
<1>5. Tagged(S) = ToolSteps(log)
  BY DEF Tagged, ToolSteps
<1> QED
  BY <1>4, <1>5, FS_CardinalityType DEF CountComposed

LEMMA LogGrows ==
  ASSUME NEW log \in StepLogs, NEW rec \in StepRecords
  PROVE  /\ Append(log, rec) \in StepLogs
         /\ CountComposed(Append(log, rec)) = CountComposed(log) + rec.tools
<1>1. log \in Seq(StepRecords) /\ Len(log) \in Nat /\ DOMAIN log = 1 .. Len(log)
  BY DEF StepLogs
<1>2. PICK new : new = Append(log, rec)
  OBVIOUS
<1>3. /\ new \in Seq(StepRecords) /\ Len(new) = Len(log) + 1 /\ DOMAIN new = 1 .. Len(log) + 1
      /\ new[Len(log) + 1] = rec /\ \A i \in 1 .. Len(log) : new[i] = log[i]
  BY <1>1, <1>2, AppendProperties
<1>4. PICK S : S = [i \in DOMAIN log |-> 1 .. log[i].tools]
  OBVIOUS
<1>5. PICK R : R = [i \in DOMAIN new |-> 1 .. new[i].tools]
  OBVIOUS
<1>6. Tagged(S) = ToolSteps(log) /\ Tagged(R) = ToolSteps(new)
  BY <1>4, <1>5 DEF Tagged, ToolSteps
<1>7. /\ DOMAIN S = 1 .. Len(log) /\ DOMAIN R = 1 .. Len(log) + 1
      /\ \A i \in 1 .. Len(log) : R[i] = S[i]
  BY <1>1, <1>3, <1>4, <1>5
<1>8. R[Len(log) + 1] = 1 .. rec.tools /\ rec.tools \in Nat
  <2>1. Len(log) + 1 \in DOMAIN new
    BY <1>1, <1>3
  <2> QED
    BY <1>3, <1>5, <2>1 DEF StepRecords
<1>9. IsFiniteSet(R[Len(log) + 1]) /\ Cardinality(R[Len(log) + 1]) = rec.tools
  BY <1>8, FS_Interval
<1>10. IsFiniteSet(Tagged(S))
  BY <1>6, LogCounts
<1>11. Cardinality(Tagged(R)) = Cardinality(Tagged(S)) + Cardinality(R[Len(log) + 1])
  BY <1>1, <1>7, <1>9, <1>10, TaggedGrows
<1> QED
  BY <1>2, <1>3, <1>6, <1>9, <1>11 DEF StepLogs, CountComposed

LEMMA NoSteps == <<>> \in StepLogs /\ CountComposed(<<>>) = 0 /\ Succeeds(<<>>)
<1>1. ToolSteps(<<>>) = {}
  BY DEF ToolSteps
<1> QED
  BY <1>1, FS_EmptySet DEF StepLogs, CountComposed, Succeeds

LEMMA ToolRecords ==
  ASSUME NEW out \in Outputs \cup {"none"}
  PROVE  ToolRecord(out) \in StepRecords /\ ToolRecord(out).tools = 1
BY DEF ToolRecord, StepRecords

LEMMA SubFlowRecords ==
  ASSUME NEW log \in StepLogs
  PROVE  /\ ComposedRecord(log) \in StepRecords /\ CancelledRecord(log) \in StepRecords
         /\ ComposedRecord(log).tools = CountComposed(log)
         /\ CancelledRecord(log).tools = CountComposed(log)
<1>1. CountComposed(log) \in Nat
  BY LogCounts
<1>2. Succeeds(log) \in BOOLEAN
  BY DEF Succeeds
<1>3. /\ FinalOutput(log) \in Outputs \cup {"none", "input"}
      /\ Succeeds(log) = (FinalOutput(log) # "none")
  <2> DEFINE telling == {i \in DOMAIN log : log[i].out \notin BlankOutputs}
  <2>1. CASE ~Succeeds(log)
    BY <1>2, <2>1 DEF FinalOutput
  <2>2. CASE Succeeds(log) /\ telling = {}
    BY <2>2 DEF FinalOutput
  <2>3. CASE Succeeds(log) /\ telling # {}
    <3>1. Max(telling) \in telling
      <4>1. Len(log) \in Nat /\ telling \subseteq 0 .. Len(log)
        BY DEF StepLogs
      <4>2. \E v \in telling : \A w \in telling : w <= v
        BY <2>3, <4>1, LargestOf
      <4>3. \A v, w \in telling : w <= v <=> v >= w
        BY <4>1
      <4> HIDE DEF telling
      <4> QED
        BY <4>2, <4>3 DEF Max
    <3> DEFINE last == Max(telling)
    <3>2. last \in DOMAIN log /\ log[last] \in StepRecords
      BY <3>1 DEF StepLogs
    <3>3. log[last].ok
      BY <2>3, <3>2 DEF Succeeds
    <3>4. log[last].out \in Outputs \cup {"none", "input"} /\ log[last].out # "none"
      BY <3>2, <3>3 DEF StepRecords
    <3>5. FinalOutput(log) = log[last].out
      BY <2>3 DEF FinalOutput
    <3> QED
      BY <2>3, <3>4, <3>5
  <2> QED
    BY <2>1, <2>2, <2>3
<1>4. PICK o : o = FinalOutput(log)
  OBVIOUS
<1>5. PICK b : b = Succeeds(log)
  OBVIOUS
<1>6. PICK n : n = CountComposed(log)
  OBVIOUS
<1>7. [ok |-> b, out |-> o, tools |-> n] \in StepRecords
  BY <1>1, <1>2, <1>3, <1>4, <1>5, <1>6 DEF StepRecords
<1>8. [ok |-> FALSE, out |-> "none", tools |-> n] \in StepRecords
  BY <1>1, <1>6 DEF StepRecords
<1> QED
  BY <1>4, <1>5, <1>6, <1>7, <1>8 DEF ComposedRecord, CancelledRecord

LEMMA MadeGrows ==
  ASSUME NEW fs \in Seq(Activations), NEW f \in Activations
  PROVE  Made(fs) \in Nat /\ Made(Append(fs, f)) = Made(fs) + CountComposed(f.log)
<1>1. Len(fs) \in Nat /\ DOMAIN fs = 1 .. Len(fs)
  OBVIOUS
<1>2. PICK new : new = Append(fs, f)
  OBVIOUS
<1>3. /\ DOMAIN new = 1 .. Len(fs) + 1 /\ new[Len(fs) + 1] = f
      /\ \A k \in 1 .. Len(fs) : new[k] = fs[k]
  BY <1>2, AppendProperties
<1>4. PICK S : S = [k \in DOMAIN fs |-> ToolSteps(fs[k].log)]
  OBVIOUS
<1>5. PICK R : R = [k \in DOMAIN new |-> ToolSteps(new[k].log)]
  OBVIOUS
<1>6. /\ DOMAIN S = 1 .. Len(fs) /\ DOMAIN R = 1 .. Len(fs) + 1
      /\ \A k \in 1 .. Len(fs) : R[k] = S[k]
  BY <1>1, <1>3, <1>4, <1>5
<1>7. R[Len(fs) + 1] = ToolSteps(f.log)
  <2>1. Len(fs) + 1 \in DOMAIN new
    BY <1>1, <1>3
  <2> QED
    BY <1>3, <1>5, <2>1
<1>8. \A k \in 1 .. Len(fs) : IsFiniteSet(S[k])
  <2>1. ASSUME NEW k \in 1 .. Len(fs) PROVE fs[k].log \in StepLogs
    <3>1. fs[k] \in Activations
      BY <1>1
    <3> QED
      BY <3>1 DEF Activations
  <2> QED
    BY <1>1, <1>4, <2>1, LogCounts
<1>9. IsFiniteSet(Tagged(S))
  BY <1>1, <1>6, <1>8, TaggedFinite
<1>10. IsFiniteSet(R[Len(fs) + 1])
  <2>1. f.log \in StepLogs
    BY DEF Activations
  <2> QED
    BY <1>7, <2>1, LogCounts
<1>11. Cardinality(Tagged(R)) = Cardinality(Tagged(S)) + Cardinality(R[Len(fs) + 1])
  BY <1>1, <1>6, <1>9, <1>10, TaggedGrows
<1>12. Made(fs) = Cardinality(Tagged(S)) /\ Made(new) = Cardinality(Tagged(R))
  BY <1>4, <1>5, Zenon DEF Made
<1> QED
  BY <1>2, <1>7, <1>9, <1>11, <1>12, FS_CardinalityType DEF CountComposed

LEMMA NothingMade == Made(<<>>) = 0
<1>1. PICK S : S = [k \in DOMAIN <<>> |-> ToolSteps(<<>>[k].log)]
  OBVIOUS
<1>2. DOMAIN S = {}
  BY <1>1
<1> QED
  BY <1>1, <1>2, TaggedEmpty, Zenon DEF Made

LEMMA FlowsGrow ==
  ASSUME NEW fs \in Seq(Activations), NEW f \in Activations
  PROVE  FlowsOf(fs) \in Seq(NestFlows) /\ FlowsOf(Append(fs, f)) = Append(FlowsOf(fs), f.flow)
<1>1. Len(fs) \in Nat /\ DOMAIN fs = 1 .. Len(fs) /\ \A k \in 1 .. Len(fs) : fs[k].flow \in NestFlows
  <2>1. Len(fs) \in Nat /\ DOMAIN fs = 1 .. Len(fs) /\ \A k \in 1 .. Len(fs) : fs[k] \in Activations
    OBVIOUS
  <2> QED
    BY <2>1 DEF Activations
<1>2. f.flow \in NestFlows
  BY DEF Activations
<1>3. PICK g : g = FlowsOf(fs)
  OBVIOUS
<1>4. g \in Seq(NestFlows) /\ Len(g) = Len(fs) /\ \A k \in 1 .. Len(fs) : g[k] = fs[k].flow
  BY <1>1, <1>3 DEF FlowsOf
<1>5. PICK new : new = Append(fs, f)
  OBVIOUS
<1>6. /\ DOMAIN new = 1 .. Len(fs) + 1 /\ new[Len(fs) + 1] = f
      /\ \A k \in 1 .. Len(fs) : new[k] = fs[k]
  BY <1>5, AppendProperties
<1>7. PICK h : h = FlowsOf(new)
  OBVIOUS
<1>8. DOMAIN h = 1 .. Len(fs) + 1 /\ \A k \in 1 .. Len(fs) + 1 : h[k] = new[k].flow
  BY <1>6, <1>7 DEF FlowsOf
<1>9. \A k \in 1 .. Len(fs) + 1 : h[k] = IF k = Len(fs) + 1 THEN f.flow ELSE g[k]
  <2>1. \A k \in 1 .. Len(fs) + 1 : k = Len(fs) + 1 \/ k \in 1 .. Len(fs)
    BY <1>1
  <2> QED
    BY <1>1, <1>4, <1>6, <1>8, <2>1
<1>10. h \in Seq(NestFlows) /\ Len(h) = Len(fs) + 1
  BY <1>1, <1>2, <1>4, <1>7, <1>8, <1>9, <1>6 DEF FlowsOf
<1>11. h = Append(g, f.flow)
  <2>1. PICK x \in NestFlows : x = f.flow
    BY <1>2
  <2>2. PICK a : a = Append(g, x)
    OBVIOUS
  <2>3. /\ a \in Seq(NestFlows) /\ Len(a) = Len(fs) + 1 /\ a[Len(fs) + 1] = x
        /\ \A k \in 1 .. Len(fs) : a[k] = g[k]
    BY <1>4, <2>2, AppendProperties
  <2>4. \A k \in 1 .. Len(fs) + 1 : h[k] = a[k]
    BY <1>1, <1>9, <2>1, <2>3
  <2>5. h = a
    BY <1>10, <2>3, <2>4, SeqEqual
  <2> QED
    BY <2>1, <2>2, <2>5
<1> QED
  BY <1>3, <1>4, <1>5, <1>7, <1>11

-----------------------------------------------------------------------------
(* What becomes of the stack.                                              *)

LEMMA Stacked ==
  ASSUME NEW fs \in Seq(Activations), fs # <<>>
  PROVE  /\ fs[Len(fs)] \in Activations /\ Front(fs) \in Seq(Activations)
         /\ fs = Append(Front(fs), fs[Len(fs)])
         /\ Len(fs) \in Nat \ {0} /\ Len(Front(fs)) = Len(fs) - 1
BY LastTaken

LEMMA AppendActivation ==
  ASSUME NEW fs \in Seq(Activations), NEW f \in Activations
  PROVE  /\ Append(fs, f) \in Seq(Activations) /\ Append(fs, f) # <<>>
         /\ Len(fs) \in Nat /\ Len(Append(fs, f)) = Len(fs) + 1
         /\ Append(fs, f)[Len(fs) + 1] = f
         /\ \A k \in 1 .. Len(fs) : Append(fs, f)[k] = fs[k]
         /\ \A k \in 1 .. Len(fs) + 1 : k \in 1 .. Len(fs) \/ k = Len(fs) + 1
<1>1. Len(fs) \in Nat
  OBVIOUS
<1>2. \A k \in 1 .. Len(fs) + 1 : k \in 1 .. Len(fs) \/ k = Len(fs) + 1
  BY <1>1
<1> QED
  BY <1>1, <1>2, AppendProperties

Alike(f, g) == f.flow = g.flow /\ f.body = g.body /\ f.dry = g.dry

LEMMA TopReplaced ==
  ASSUME NEW below \in Seq(Activations), NEW old \in Activations, NEW new \in Activations,
         Alike(new, old), NEW reg, NEW refs
  PROVE  /\ AllDry(Append(below, old)) => AllDry(Append(below, new))
         /\ Linked(Append(below, old), reg, refs) => Linked(Append(below, new), reg, refs)
         /\ FlowsOf(Append(below, old)) = FlowsOf(Append(below, new))
<1>1. PICK a : a = Append(below, old)
  OBVIOUS
<1>2. PICK b : b = Append(below, new)
  OBVIOUS
<1> DEFINE n == Len(below)
<1>3. /\ n \in Nat /\ Len(a) = n + 1 /\ Len(b) = n + 1 /\ a # <<>> /\ b # <<>>
      /\ \A k \in 1 .. n + 1 : k \in 1 .. n \/ k = n + 1
      /\ a[n + 1] = old /\ b[n + 1] = new /\ \A k \in 1 .. n : a[k] = below[k] /\ b[k] = below[k]
  BY <1>1, <1>2, AppendActivation
<1> HIDE DEF n
<1>4. \A k \in 1 .. n + 1 : b[k].flow = a[k].flow /\ b[k].body = a[k].body /\ b[k].dry = a[k].dry
  BY <1>3 DEF Alike
<1>5. AllDry(a) => AllDry(b)
  BY <1>3, <1>4 DEF AllDry
<1>6. Linked(a, reg, refs) => Linked(b, reg, refs)
  <2>1. 1 \in 1 .. n + 1 /\ \A k \in 1 .. (n + 1) - 1 : k \in 1 .. n + 1 /\ k + 1 \in 1 .. n + 1
    BY <1>3
  <2> QED
    BY <1>3, <1>4, <2>1 DEF Linked
<1>7. FlowsOf(a) = FlowsOf(b)
  <2>1. FlowsOf(a) = Append(FlowsOf(below), old.flow) /\ FlowsOf(b) = Append(FlowsOf(below), new.flow)
    BY <1>1, <1>2, FlowsGrow
  <2> QED
    BY <2>1 DEF Alike
<1> QED
  BY <1>1, <1>2, <1>5, <1>6, <1>7

LEMMA TopLeft ==
  ASSUME NEW below \in Seq(Activations), NEW old \in Activations, NEW reg, NEW refs
  PROVE  /\ AllDry(Append(below, old)) => AllDry(below) /\ old.dry
         /\ Linked(Append(below, old), reg, refs) => Linked(below, reg, refs)
<1>1. PICK a : a = Append(below, old)
  OBVIOUS
<1> DEFINE n == Len(below)
<1>3. /\ n \in Nat /\ Len(a) = n + 1 /\ a # <<>>
      /\ a[n + 1] = old /\ \A k \in 1 .. n : a[k] = below[k]
  BY <1>1, AppendActivation
<1>4. below # <<>> => 1 \in 1 .. n
  OBVIOUS
<1> HIDE DEF n
<1>5. AllDry(a) => AllDry(below) /\ old.dry
  <2>1. n + 1 \in 1 .. n + 1 /\ \A k \in 1 .. n : k \in 1 .. n + 1
    BY <1>3
  <2> QED
    BY <1>3, <2>1 DEF AllDry, n
<1>6. Linked(a, reg, refs) => Linked(below, reg, refs)
  <2>1. /\ \A k \in 1 .. n : k \in 1 .. n + 1
        /\ \A k \in 1 .. n - 1 : k \in 1 .. (n + 1) - 1 /\ k \in 1 .. n /\ k + 1 \in 1 .. n
        /\ (n + 1 <= MaxNesting + 1 => n <= MaxNesting + 1)
    BY <1>3, CompositionAssumption
  <2>2. Len(below) = n
    BY DEF n
  <2> QED
    BY <1>3, <1>4, <2>1, <2>2 DEF Linked
<1> QED
  BY <1>1, <1>5, <1>6

LEMMA TopPushed ==
  ASSUME NEW fs \in Seq(Activations), NEW f \in Activations, NEW reg, NEW refs, fs # <<>>
  PROVE  /\ AllDry(fs) /\ f.dry => AllDry(Append(fs, f))
         /\ Linked(fs, reg, refs) /\ f.body = reg[f.flow] /\ f.flow \in refs[fs[Len(fs)].flow]
              /\ Len(fs) <= MaxNesting => Linked(Append(fs, f), reg, refs)
<1>1. PICK a : a = Append(fs, f)
  OBVIOUS
<1> DEFINE n == Len(fs)
<1>3. /\ n \in Nat /\ Len(a) = n + 1 /\ a # <<>>
      /\ \A k \in 1 .. n + 1 : k \in 1 .. n \/ k = n + 1
      /\ a[n + 1] = f /\ \A k \in 1 .. n : a[k] = fs[k]
  BY <1>1, AppendActivation
<1>4. n # 0
  OBVIOUS
<1>2. Len(fs) = n
  OBVIOUS
<1> HIDE DEF n
<1>5. AllDry(fs) /\ f.dry => AllDry(a)
  BY <1>2, <1>3 DEF AllDry
<1>6. ASSUME Linked(fs, reg, refs), f.body = reg[f.flow], f.flow \in refs[fs[n].flow], n <= MaxNesting
      PROVE  Linked(a, reg, refs)
  <2>1. \A k \in 1 .. n + 1 : a[k].body = reg[a[k].flow]
    BY <1>2, <1>3, <1>6 DEF Linked
  <2>2. a[1].flow = RootFlow
    BY <1>2, <1>3, <1>4, <1>6 DEF Linked
  <2>3. ASSUME NEW k \in 1 .. (n + 1) - 1 PROVE a[k + 1].flow \in refs[a[k].flow]
    <3>1. k \in 1 .. n
      BY <1>3
    <3>2. CASE k = n
      BY <1>3, <1>6, <3>1, <3>2
    <3>3. CASE k # n
      <4>1. k \in 1 .. n - 1 /\ k + 1 \in 1 .. n
        BY <1>3, <3>1, <3>3
      <4> QED
        BY <1>2, <1>3, <1>6, <3>1, <4>1 DEF Linked
    <3> QED
      BY <3>2, <3>3
  <2>4. n + 1 <= MaxNesting + 1
    BY <1>3, <1>6, CompositionAssumption
  <2> QED
    BY <1>3, <2>1, <2>2, <2>3, <2>4 DEF Linked
<1> QED
  BY <1>1, <1>2, <1>5, <1>6

LEMMA StackEmpty ==
  ASSUME NEW reg, NEW refs
  PROVE  /\ AllDry(<<>>) /\ Linked(<<>>, reg, refs) /\ FlowsOf(<<>>) = <<>> /\ Made(<<>>) = 0
         /\ <<>> \in Seq(Activations)
<1>1. FlowsOf(<<>>) = <<>>
  BY DEF FlowsOf
<1>2. AllDry(<<>>)
  BY DEF AllDry
<1>3. Linked(<<>>, reg, refs)
  BY CompositionAssumption DEF Linked
<1> QED
  BY <1>1, <1>2, <1>3, NothingMade

LEMMA StackOfOne ==
  ASSUME NEW f \in Activations, NEW reg, NEW refs
  PROVE  /\ <<f>> \in Seq(Activations) /\ <<f>> # <<>> /\ Len(<<f>>) = 1 /\ <<f>>[1] = f
         /\ FlowsOf(<<f>>) = Append(<<>>, f.flow)
         /\ Made(<<f>>) = CountComposed(f.log)
         /\ f.dry => AllDry(<<f>>)
         /\ f.flow = RootFlow /\ f.body = reg[RootFlow] => Linked(<<f>>, reg, refs)
<1>1. <<f>> = Append(<<>>, f) /\ <<>> \in Seq(Activations)
  OBVIOUS
<1>2. FlowsOf(<<>>) = <<>> /\ Made(<<>>) = 0
  BY StackEmpty
<1>3. FlowsOf(<<f>>) = Append(<<>>, f.flow)
  BY <1>1, <1>2, FlowsGrow
<1>4. f.log \in StepLogs
  BY DEF Activations
<1>5. Made(<<f>>) = CountComposed(f.log)
  <2>1. PICK e \in Seq(Activations) : e = <<>>
    BY <1>1
  <2>2. Made(Append(e, f)) = Made(e) + CountComposed(f.log)
    BY MadeGrows
  <2>3. Made(e) = 0 /\ Append(e, f) = <<f>>
    BY <1>1, <1>2, <2>1, Zenon
  <2>4. CountComposed(f.log) \in Nat
    BY <1>4, LogCounts
  <2> QED
    BY <2>2, <2>3, <2>4
<1>6. f.dry => AllDry(<<f>>)
  BY DEF AllDry
<1>7. f.flow = RootFlow /\ f.body = reg[RootFlow] => Linked(<<f>>, reg, refs)
  BY CompositionAssumption DEF Linked
<1> QED
  BY <1>3, <1>5, <1>6, <1>7

-----------------------------------------------------------------------------
(* The parts a step is made of.                                            *)

LEMMA TopFacts ==
  ASSUME CompositionTypes, frames # <<>>
  PROVE  /\ Top \in Activations /\ Front(frames) \in Seq(Activations)
         /\ frames = Append(Front(frames), Top)
         /\ Made(Front(frames)) \in Nat /\ Made(frames) = Made(Front(frames)) + CountComposed(Top.log)
         /\ FlowsOf(Front(frames)) \in Seq(NestFlows)
         /\ FlowsOf(frames) = Append(FlowsOf(Front(frames)), Top.flow)
<1>1. frames \in Seq(Activations)
  BY DEF CompositionTypes
<1>2. PICK fs \in Seq(Activations) : fs = frames
  BY <1>1
<1>3. PICK below : below = Front(fs)
  OBVIOUS
<1>4. PICK top : top = Top
  OBVIOUS
<1>5. top \in Activations /\ below \in Seq(Activations) /\ fs = Append(below, top)
  BY <1>2, <1>3, <1>4, Stacked DEF Top
<1>6. Made(below) \in Nat /\ Made(fs) = Made(below) + CountComposed(top.log)
  BY <1>5, MadeGrows
<1>7. FlowsOf(below) \in Seq(NestFlows) /\ FlowsOf(fs) = Append(FlowsOf(below), top.flow)
  BY <1>5, FlowsGrow
<1> QED
  BY <1>2, <1>3, <1>4, <1>5, <1>6, <1>7

LEMMA ActivationFields ==
  ASSUME NEW f \in Activations
  PROVE  /\ f.flow \in NestFlows /\ f.body \in Registered /\ f.at \in Nat \ {0}
         /\ f.log \in StepLogs /\ f.decisions \in Nat /\ f.dry \in BOOLEAN
BY DEF Activations

LEMMA RecordedFacts ==
  ASSUME NEW f \in Activations, NEW rec \in StepRecords
  PROVE  /\ Recorded(f, rec) \in Activations /\ Alike(Recorded(f, rec), f)
         /\ Recorded(f, rec).log = Append(f.log, rec)
<1>1. Append(f.log, rec) \in StepLogs
  BY ActivationFields, LogGrows
<1>2. PICK l \in StepLogs : l = Append(f.log, rec)
  BY <1>1
<1>3. PICK n : n = IF rec.ok THEN f.at + 1 ELSE f.at
  OBVIOUS
<1>4. n \in Nat \ {0}
  BY <1>3, ActivationFields
<1>5. Recorded(f, rec) = [f EXCEPT !.log = l, !.at = n]
  BY <1>2, <1>3 DEF Recorded, Activations
<1>6. [f EXCEPT !.log = l, !.at = n] \in Activations
  BY <1>2, <1>4 DEF Activations
<1>7. /\ [f EXCEPT !.log = l, !.at = n].log = l
      /\ Alike([f EXCEPT !.log = l, !.at = n], f)
  BY DEF Activations, Alike
<1> QED
  BY <1>2, <1>5, <1>6, <1>7

LEMMA CountedFacts ==
  ASSUME Top \in Activations
  PROVE  Counted \in Activations /\ Alike(Counted, Top) /\ Counted.log = Top.log
<1>1. PICK f : f = Top
  OBVIOUS
<1>2. [f EXCEPT !.decisions = @ + 1] \in Activations
  BY <1>1 DEF Activations
<1>3. /\ Alike([f EXCEPT !.decisions = @ + 1], f)
      /\ [f EXCEPT !.decisions = @ + 1].log = f.log
  BY <1>1 DEF Activations, Alike
<1>4. CASE Decides
  BY <1>1, <1>2, <1>3, <1>4 DEF Counted
<1>5. CASE ~Decides
  BY <1>5 DEF Counted, Alike
<1> QED
  BY <1>4, <1>5

LEMMA StepEvent ==
  ASSUME NEW t \in Seq(Events), NEW f \in NestFlows, NEW kind \in {"step_start", "step_end"}
  PROVE  /\ Append(t, Event(kind, f)) \in Seq(Events)
         /\ Opened(Append(t, Event(kind, f))) = Opened(t)
<1>1. Event(kind, f) \in Events
  BY DEF Event, Events
<1>2. Opened(Append(t, Event(kind, f))) = Reads(Opened(t), Event(kind, f))
  BY <1>1, OpenedGrows
<1>3. Event(kind, f).kind \in {"step_start", "step_end"}
  BY DEF Event
<1>4. Reads(Opened(t), Event(kind, f)) = Opened(t)
  BY <1>3 DEF Reads
<1> QED
  BY <1>1, <1>2, <1>4, AppendProperties

LEMMA StartEvent ==
  ASSUME NEW t \in Seq(Events), NEW f \in NestFlows
  PROVE  /\ Append(t, Event("flow_start", f)) \in Seq(Events)
         /\ Opened(Append(t, Event("flow_start", f))) = Append(Opened(t), f)
<1>1. Event("flow_start", f) \in Events
  BY DEF Event, Events
<1>2. Opened(Append(t, Event("flow_start", f))) = Reads(Opened(t), Event("flow_start", f))
  BY <1>1, OpenedGrows
<1>3. Event("flow_start", f).kind = "flow_start" /\ Event("flow_start", f).flow = f
  BY DEF Event
<1>4. Reads(Opened(t), Event("flow_start", f)) = Append(Opened(t), f)
  BY <1>3 DEF Reads
<1> QED
  BY <1>1, <1>2, <1>4, AppendProperties

LEMMA EndEvent ==
  ASSUME NEW t \in Seq(Events), NEW f \in NestFlows, NEW o \in Seq(NestFlows),
         Opened(t) = Append(o, f)
  PROVE  /\ Append(t, Event("flow_end", f)) \in Seq(Events)
         /\ Opened(Append(t, Event("flow_end", f))) = o
<1>1. Event("flow_end", f) \in Events
  BY DEF Event, Events
<1>2. Opened(Append(t, Event("flow_end", f))) = Reads(Opened(t), Event("flow_end", f))
  BY <1>1, OpenedGrows
<1>3. Event("flow_end", f).kind = "flow_end" /\ Event("flow_end", f).flow = f
  BY DEF Event
<1>4. PICK a : a = Append(o, f)
  OBVIOUS
<1>5. Front(a) = o /\ a # <<>> /\ Len(a) = Len(o) + 1 /\ a[Len(o) + 1] = f
  BY <1>4, FrontOfAppend
<1>6. Reads(a, Event("flow_end", f)) = o
  BY <1>3, <1>5 DEF Reads
<1> QED
  BY <1>1, <1>2, <1>4, <1>6, AppendProperties

LEMMA RegistryKept ==
  ASSUME nestReg' = nestReg
  PROVE  Visit(RootFlow)' = Visit(RootFlow) /\ References' = References
<1>1. \A f : SubFlows(f)' = SubFlows(f)
  BY DEF SubFlows
<1>2. Paths(RootFlow)' = Paths(RootFlow)
  BY <1>1 DEF Paths
<1>3. Visit(RootFlow)' = Visit(RootFlow)
  BY <1>1, <1>2 DEF Visit
<1>4. References' = References
  BY <1>1 DEF References
<1> QED
  BY <1>3, <1>4

(* While the call runs nobody has been told of its end.                    *)
LEMMA WorkerAtWork ==
  ASSUME ReaderFollowsWorker, ended = "none"
  PROVE  /\ worker \notin {"caught", "exiting", "exited"}
         /\ reader \notin {"raising", "returning", "raised", "returned", "abandoned"}
BY DEF ReaderFollowsWorker, SentinelPut

-----------------------------------------------------------------------------
(* A record joins the log on top of the stack.                             *)

LEMMA RecordKeeps ==
  ASSUME CompositionInv, NEW rec \in StepRecords, rec.tools = 1,
         NEW f \in Activations, Alike(f, Top), f.log = Top.log,
         ended = "none", call # NoFlowCall, frames # <<>>, partial = <<>>,
         Logs(Front(frames), f, rec), tally' = tally + 1,
         tape' \in Seq(Events), Opened(tape') = Opened(tape),
         ambient' \in Nat, effects' \in Nat, call.dry => effects' = effects,
         UNCHANGED <<partial, ended, lastLog, Environment>>
  PROVE  CompositionInv'
<1> USE DEF Environment, streamVars
<1>1. /\ CompositionTypes /\ StackMatchesCall /\ StaysDry /\ ReaderFollowsWorker
      /\ FollowsReferences /\ EveryStepCounts /\ ReadersFollow /\ ResultsAreTrue
  BY DEF CompositionInv
<1>2. /\ Top \in Activations /\ Front(frames) \in Seq(Activations)
      /\ frames = Append(Front(frames), Top)
      /\ Made(Front(frames)) \in Nat /\ Made(frames) = Made(Front(frames)) + CountComposed(Top.log)
  BY <1>1, TopFacts
<1>3. PICK below \in Seq(Activations) : below = Front(frames)
  BY <1>2
<1>4. PICK top \in Activations : top = Top
  BY <1>2
<1>5. PICK new \in Activations : new = Recorded(f, rec)
  BY RecordedFacts
<1>6. Alike(new, top) /\ new.log = Append(top.log, rec)
  <2>1. Alike(Recorded(f, rec), f) /\ Recorded(f, rec).log = Append(f.log, rec)
    BY RecordedFacts
  <2>2. Alike(new, f) /\ new.log = Append(f.log, rec)
    BY <1>5, <2>1, Zenon
  <2> QED
    BY <1>4, <2>2 DEF Alike
<1>7. frames = Append(below, top) /\ frames' = Append(below, new)
  BY <1>2, <1>3, <1>4, <1>5 DEF Logs
<1>8. frames' \in Seq(Activations) /\ frames' # <<>>
  BY <1>7, AppendActivation
<1>9. nestSnap' \in Snapshots
  <2>1. f.at \in Nat /\ Append(f.log, rec) \in StepLogs
    BY ActivationFields, LogGrows
  <2>2. <<f.at, Append(f.log, rec)>> \in Snapshots
    BY <2>1 DEF Snapshots
  <2>3. nestSnap \in Snapshots
    BY <1>1 DEF CompositionTypes
  <2> QED
    BY <2>2, <2>3 DEF Logs
<1>10. CompositionTypes'
  BY <1>1, <1>8, <1>9 DEF CompositionTypes
<1>11. StackMatchesCall'
  BY <1>8 DEF StackMatchesCall
<1>12. StaysDry'
  BY <1>1, <1>6, <1>7, TopReplaced DEF StaysDry
<1>13. ReaderFollowsWorker'
  BY <1>1, WorkerAtWork DEF ReaderFollowsWorker
<1>14. FollowsReferences'
  <2>1. Visit(RootFlow)' = Visit(RootFlow) /\ References' = References
    BY RegistryKept
  <2>2. Linked(frames, nestReg, References) => Linked(frames', nestReg, References)
    BY <1>6, <1>7, TopReplaced
  <2> QED
    BY <1>1, <2>1, <2>2 DEF FollowsReferences
<1>15. EveryStepCounts'
  <2>1. top.log \in StepLogs /\ CountComposed(top.log) \in Nat
    BY ActivationFields, LogCounts
  <2>2. CountComposed(new.log) = CountComposed(top.log) + 1
    BY <1>6, <2>1, LogGrows
  <2>3. Made(frames') = Made(below) + CountComposed(new.log)
    BY <1>7, MadeGrows
  <2>4. Made(frames') = Made(frames) + 1
    BY <1>2, <1>3, <1>4, <2>1, <2>2, <2>3
  <2>5. tally = Made(frames) + 0 /\ Made(frames) \in Nat
    BY <1>1, <1>2, <1>4, <2>1 DEF EveryStepCounts, Carried
  <2>6. tally' = Made(frames') + 0
    BY <2>4, <2>5
  <2> QED
    BY <2>6 DEF EveryStepCounts, Carried
<1>16. ReadersFollow'
  <2>1. FlowsOf(frames') = FlowsOf(frames)
    BY <1>6, <1>7, TopReplaced
  <2> QED
    BY <1>1, <2>1 DEF ReadersFollow
<1>17. ResultsAreTrue'
  BY <1>1 DEF ResultsAreTrue
<1> QED
  BY <1>10, <1>11, <1>12, <1>13, <1>14, <1>15, <1>16, <1>17 DEF CompositionInv

LEMMA RunningAtStep ==
  ASSUME CompositionInv, AtStep
  PROVE  /\ ended = "none" /\ call # NoFlowCall /\ frames # <<>> /\ partial = <<>>
         /\ Top \in Activations /\ Top.flow \in NestFlows /\ tape \in Seq(Events)
         /\ ambient \in Nat /\ effects \in Nat /\ CountsAmbient \in Nat
<1>1. ended = "none" /\ call # NoFlowCall /\ frames # <<>> /\ partial = <<>>
  BY DEF AtStep, Running
<1>2. Top \in Activations /\ tape \in Seq(Events) /\ ambient \in Nat /\ effects \in Nat
  BY <1>1, TopFacts DEF CompositionInv, CompositionTypes
<1> QED
  BY <1>1, <1>2, ActivationFields DEF CountsAmbient

LEMMA ToolStepKeeps ==
  ASSUME CompositionInv, NEW out \in Outputs \cup {"none"}, ToolStep(out)
  PROVE  CompositionInv'
<1>1. AtStep /\ Logs(Front(frames), Counted, ToolRecord(out))
  BY DEF ToolStep
<1>2. /\ ended = "none" /\ call # NoFlowCall /\ frames # <<>> /\ partial = <<>>
      /\ Top \in Activations /\ Top.flow \in NestFlows /\ tape \in Seq(Events)
      /\ ambient \in Nat /\ effects \in Nat /\ CountsAmbient \in Nat
  BY <1>1, RunningAtStep
<1>3. PICK rec \in StepRecords : rec = ToolRecord(out) /\ rec.tools = 1
  BY ToolRecords
<1>4. PICK f \in Activations : f = Counted /\ Alike(f, Top) /\ f.log = Top.log
  BY <1>2, CountedFacts
<1>5. tape' \in Seq(Events) /\ Opened(tape') = Opened(tape)
  <2>1. PICK t : t = Append(tape, Event("step_start", Top.flow))
    OBVIOUS
  <2>2. t \in Seq(Events) /\ Opened(t) = Opened(tape)
    BY <1>2, <2>1, StepEvent
  <2>3. Append(t, Event("step_end", Top.flow)) \in Seq(Events)
        /\ Opened(Append(t, Event("step_end", Top.flow))) = Opened(t)
    BY <1>2, <2>2, StepEvent
  <2>4. tape' = Append(t, Event("step_end", Top.flow))
    <3>1. tape' = tape \o <<Event("step_start", Top.flow), Event("step_end", Top.flow)>>
      BY DEF ToolStep
    <3>2. PICK a \in Events : a = Event("step_start", Top.flow)
      BY <1>2 DEF Event, Events
    <3>3. PICK b \in Events : b = Event("step_end", Top.flow)
      BY <1>2 DEF Event, Events
    <3>4. tape \o <<a, b>> = Append(Append(tape, a), b)
      BY <1>2
    <3> QED
      BY <2>1, <3>1, <3>2, <3>3, <3>4
  <2> QED
    BY <2>2, <2>3, <2>4
<1>6. /\ ambient' \in Nat /\ effects' \in Nat /\ tally' = tally + 1
      /\ UNCHANGED <<partial, ended, lastLog, Environment>>
  BY <1>2 DEF ToolStep
<1>7. call.dry => effects' = effects
  <2>1. CompositionTypes /\ StaysDry
    BY DEF CompositionInv
  <2>2. frames \in Seq(Activations)
    BY <2>1 DEF CompositionTypes
  <2>3. call.dry => Top.dry
    BY <1>2, <2>1, <2>2 DEF StaysDry, AllDry, Top
  <2> QED
    BY <2>3 DEF ToolStep
<1>8. Logs(Front(frames), f, rec)
  BY <1>1, <1>3, <1>4
<1> QED
  BY <1>2, <1>3, <1>4, <1>5, <1>6, <1>7, <1>8, RecordKeeps

LEMMA DecisionFailsKeeps ==
  ASSUME CompositionInv, DecisionFails
  PROVE  CompositionInv'
<1>1. AtStep /\ Logs(Front(frames), Counted, ToolRecord("none"))
  BY DEF DecisionFails
<1>2. /\ ended = "none" /\ call # NoFlowCall /\ frames # <<>> /\ partial = <<>>
      /\ Top \in Activations /\ Top.flow \in NestFlows /\ tape \in Seq(Events)
      /\ ambient \in Nat /\ effects \in Nat /\ CountsAmbient \in Nat
  BY <1>1, RunningAtStep
<1>3. PICK rec \in StepRecords : rec = ToolRecord("none") /\ rec.tools = 1
  BY ToolRecords
<1>4. PICK f \in Activations : f = Counted /\ Alike(f, Top) /\ f.log = Top.log
  BY <1>2, CountedFacts
<1>5. tape' \in Seq(Events) /\ Opened(tape') = Opened(tape)
  BY <1>2, StepEvent DEF DecisionFails
<1>6. /\ ambient' \in Nat /\ effects' \in Nat /\ tally' = tally + 1 /\ effects' = effects
      /\ UNCHANGED <<partial, ended, lastLog, Environment>>
  BY <1>2 DEF DecisionFails
<1>7. Logs(Front(frames), f, rec)
  BY <1>1, <1>3, <1>4
<1> QED
  BY <1>2, <1>3, <1>4, <1>5, <1>6, <1>7, RecordKeeps

LEMMA SubflowInputFailsKeeps ==
  ASSUME CompositionInv, SubflowInputFails
  PROVE  CompositionInv'
<1>1. AtStep /\ Logs(Front(frames), Top, ToolRecord("none"))
  BY DEF SubflowInputFails
<1>2. /\ ended = "none" /\ call # NoFlowCall /\ frames # <<>> /\ partial = <<>>
      /\ Top \in Activations /\ Top.flow \in NestFlows /\ tape \in Seq(Events)
      /\ ambient \in Nat /\ effects \in Nat
  BY <1>1, RunningAtStep
<1>3. PICK rec \in StepRecords : rec = ToolRecord("none") /\ rec.tools = 1
  BY ToolRecords
<1>4. PICK f \in Activations : f = Top
  BY <1>2
<1>5. Alike(f, Top) /\ f.log = Top.log
  BY <1>4 DEF Alike
<1>6. /\ ambient' \in Nat /\ effects' \in Nat /\ tally' = tally + 1 /\ effects' = effects
      /\ tape' \in Seq(Events) /\ Opened(tape') = Opened(tape)
      /\ UNCHANGED <<partial, ended, lastLog, Environment>>
  BY <1>2 DEF SubflowInputFails
<1>7. Logs(Front(frames), f, rec)
  BY <1>1, <1>3, <1>4
<1> QED
  BY <1>2, <1>3, <1>4, <1>5, <1>6, <1>7, RecordKeeps

-----------------------------------------------------------------------------
(* The call ends.                                                          *)

LEMMA PropagatesKeeps ==
  ASSUME CompositionInv, ended = "none", call # NoFlowCall, frames # <<>>, partial = <<>>,
         Propagates, tape' \in Seq(Events), ambient' \in Nat,
         UNCHANGED <<tally, effects, Environment>>
  PROVE  CompositionInv'
<1> USE DEF Environment, streamVars
<1>1. /\ CompositionTypes /\ StackMatchesCall /\ StaysDry /\ ReaderFollowsWorker
      /\ FollowsReferences /\ EveryStepCounts /\ ReadersFollow /\ ResultsAreTrue
  BY DEF CompositionInv
<1>2. /\ ended' = "error" /\ frames' = <<>> /\ partial' = partial /\ lastLog' = lastLog
      /\ nestSnap' = nestSnap
  BY DEF Propagates
<1>3. frames' \in Seq(Activations) /\ AllDry(frames') /\ Linked(frames', nestReg, References)
  BY <1>2, StackEmpty
<1>4. CompositionTypes'
  BY <1>1, <1>2, <1>3 DEF CompositionTypes
<1>5. StackMatchesCall'
  BY <1>2 DEF StackMatchesCall
<1>6. StaysDry'
  BY <1>1, <1>3 DEF StaysDry
<1>7. ReaderFollowsWorker'
  BY <1>1, WorkerAtWork DEF ReaderFollowsWorker
<1>8. FollowsReferences'
  <2>1. Visit(RootFlow)' = Visit(RootFlow) /\ References' = References
    BY RegistryKept
  <2> QED
    BY <1>1, <1>3, <2>1 DEF FollowsReferences
<1>9. EveryStepCounts' /\ ReadersFollow'
  BY <1>2 DEF EveryStepCounts, ReadersFollow
<1>10. ResultsAreTrue'
  BY <1>1, <1>2 DEF ResultsAreTrue
<1> QED
  BY <1>4, <1>5, <1>6, <1>7, <1>8, <1>9, <1>10 DEF CompositionInv

LEMMA FinishesKeeps ==
  ASSUME CompositionInv, ended = "none", call # NoFlowCall, frames # <<>>,
         NEW log \in StepLogs, NEW how \in {"success", "failure", "cancelled"},
         Finishes(log, how), frames' = <<>>, partial' = <<>>, CountComposed(log) = tally,
         how = "success" => Succeeds(log), how = "failure" => ~Succeeds(log),
         tape' \in Seq(Events), Opened(tape') = <<>>,
         UNCHANGED <<ambient, tally, effects, Environment>>
  PROVE  CompositionInv'
<1> USE DEF Environment, streamVars
<1>1. /\ CompositionTypes /\ StackMatchesCall /\ StaysDry /\ ReaderFollowsWorker
      /\ FollowsReferences /\ EveryStepCounts /\ ReadersFollow /\ ResultsAreTrue
  BY DEF CompositionInv
<1>2. PICK won \in BOOLEAN : won = (how = "success")
  OBVIOUS
<1>3. /\ ended' = how /\ lastLog' = <<log, won>> /\ lastLog' # <<>>
      /\ lastLog'[1] = log /\ lastLog'[2] = won
  BY <1>2 DEF Finishes
<1>4. frames' \in Seq(Activations) /\ AllDry(frames') /\ Linked(frames', nestReg, References)
  BY StackEmpty
<1>5. lastLog' \in Results
  BY <1>3 DEF Results
<1>6. nestSnap' \in Snapshots
  BY <1>1 DEF Finishes, Snapshots, CompositionTypes
<1>7. CompositionTypes'
  <2>1. partial' \in Seq(StepLogs)
    OBVIOUS
  <2> QED
    BY <1>1, <1>3, <1>4, <1>5, <1>6, <2>1 DEF CompositionTypes
<1>8. StackMatchesCall'
  BY DEF StackMatchesCall
<1>9. StaysDry'
  BY <1>1, <1>4 DEF StaysDry
<1>10. ReaderFollowsWorker'
  BY <1>1, WorkerAtWork DEF ReaderFollowsWorker
<1>11. FollowsReferences'
  <2>1. Visit(RootFlow)' = Visit(RootFlow) /\ References' = References
    BY RegistryKept
  <2> QED
    BY <1>1, <1>4, <2>1 DEF FollowsReferences
<1>12. EveryStepCounts'
  <2>1. tally' = CountComposed(lastLog'[1])
    BY <1>3
  <2> QED
    BY <1>3, <2>1 DEF EveryStepCounts
<1>13. ReadersFollow'
  BY <1>3 DEF ReadersFollow
<1>14. ResultsAreTrue'
  <2>1. lastLog'[2] => Succeeds(lastLog'[1])
    BY <1>2, <1>3
  <2>2. ended' = "failure" => ~Succeeds(lastLog'[1])
    BY <1>2, <1>3
  <2> QED
    BY <1>1, <1>3, <2>1, <2>2 DEF ResultsAreTrue
<1> QED
  BY <1>7, <1>8, <1>9, <1>10, <1>11, <1>12, <1>13, <1>14 DEF CompositionInv

LEMMA DecisionBudgetKeeps ==
  ASSUME CompositionInv, DecisionBudgetExceeded
  PROVE  CompositionInv'
<1>1. AtStep /\ Propagates /\ tape' = tape /\ ambient' = CountsAmbient
      /\ UNCHANGED <<tally, effects, Environment>>
  BY DEF DecisionBudgetExceeded
<1>2. /\ ended = "none" /\ call # NoFlowCall /\ frames # <<>> /\ partial = <<>>
      /\ tape \in Seq(Events) /\ CountsAmbient \in Nat
  BY <1>1, RunningAtStep
<1> QED
  BY <1>1, <1>2, PropagatesKeeps

-----------------------------------------------------------------------------
(* A sub-flow is entered: the stack is a path that visit has followed.     *)

LEMMA StackIsPath ==
  ASSUME CompositionTypes, frames # <<>>, Linked(frames, nestReg, References),
         Visit(RootFlow), SubFlows(Top.flow) # {}
  PROVE  Len(frames) <= MaxNesting
<1>1. PICK fs \in Seq(Activations) : fs = frames
  BY DEF CompositionTypes
<1> DEFINE n == Len(fs)
           p == [k \in 1 .. n |-> fs[k].flow]
<1>2. n \in Nat \ {0} /\ n <= MaxNesting + 1 /\ n \in 1 .. MaxNesting + 1
  <2>1. n \in Nat \ {0} /\ n <= MaxNesting + 1
    BY <1>1 DEF Linked
  <2> QED
    BY <2>1, CompositionAssumption
<1>3. \A k \in 1 .. n : fs[k].flow \in NestFlows
  <2>1. \A k \in 1 .. n : fs[k] \in Activations
    OBVIOUS
  <2> QED
    BY <2>1, ActivationFields
<1>4. p \in [1 .. n -> NestFlows] /\ Len(p) = n /\ p[1] = RootFlow /\ p[n] = Top.flow
  <2>1. p \in [1 .. n -> NestFlows]
    BY <1>3
  <2>2. Len(p) = n
    BY <1>2
  <2>3. fs[1].flow = RootFlow /\ 1 \in 1 .. n /\ n \in 1 .. n
    BY <1>1, <1>2 DEF Linked
  <2>4. p[1] = fs[1].flow /\ p[n] = fs[n].flow
    BY <2>3
  <2> QED
    BY <1>1, <2>1, <2>2, <2>3, <2>4 DEF Top
<1>5. ASSUME NEW k \in 1 .. n - 1 PROVE p[k + 1] \in SubFlows(p[k])
  <2>1. k \in 1 .. n /\ k + 1 \in 1 .. n
    BY <1>2
  <2>2. fs[k + 1].flow \in References[fs[k].flow]
    BY <1>1, <1>5 DEF Linked
  <2>3. References[fs[k].flow] = SubFlows(fs[k].flow)
    BY <1>3, <2>1 DEF References
  <2> QED
    BY <2>1, <2>2, <2>3
<1> HIDE DEF p, n
<1>6. p \in Paths(RootFlow)
  <2>1. p \in UNION {[1 .. m -> NestFlows] : m \in 1 .. MaxNesting + 1}
    BY <1>2, <1>4
  <2>2. \A k \in 1 .. Len(p) - 1 : p[k + 1] \in SubFlows(p[k])
    BY <1>4, <1>5
  <2> QED
    BY <1>4, <2>1, <2>2 DEF Paths
<1>7. PICK sub \in SubFlows(p[Len(p)]) : TRUE
  BY <1>4
<1>8. Len(p) <= MaxNesting
  BY <1>6, <1>7 DEF Visit
<1> QED
  BY <1>1, <1>4, <1>8 DEF n

LEMMA EnterSubflowKeeps ==
  ASSUME CompositionInv, EnterSubflow
  PROVE  CompositionInv'
<1> DEFINE sub == Top.body[Top.at].sub
           starts == Append(tape, Event("step_start", Top.flow))
<1>1. AtStep /\ sub # NoFlow /\ ambient' = ambient /\ UNCHANGED <<tally, effects, Environment>>
  BY DEF EnterSubflow
<1>2. /\ ended = "none" /\ call # NoFlowCall /\ frames # <<>> /\ partial = <<>>
      /\ Top \in Activations /\ Top.flow \in NestFlows /\ tape \in Seq(Events) /\ ambient \in Nat
  BY <1>1, RunningAtStep
<1>3. /\ CompositionTypes /\ StackMatchesCall /\ StaysDry /\ ReaderFollowsWorker
      /\ FollowsReferences /\ EveryStepCounts /\ ReadersFollow /\ ResultsAreTrue
  BY DEF CompositionInv
<1>4. starts \in Seq(Events) /\ Opened(starts) = Opened(tape)
  BY <1>2, StepEvent
<1>5. CASE ~Enterable(sub)
  <2>1. tape' = starts /\ Propagates
    BY <1>5 DEF EnterSubflow
  <2> QED
    BY <1>1, <1>2, <1>4, <2>1, PropagatesKeeps
<1>6. CASE Enterable(sub)
  <2>1. /\ frames' = Append(frames, SubFrame(sub, Top))
        /\ tape' = Append(starts, Event("flow_start", sub))
        /\ UNCHANGED <<partial, ended, lastLog, nestSnap>>
    BY <1>6 DEF EnterSubflow
  <2>2. sub \in NestFlows /\ nestReg[sub] \in Registered
    BY <1>3, <1>6 DEF Enterable, CompositionTypes
  <2>3. PICK s \in NestFlows : s = sub
    BY <2>2
  <2>4. PICK f : f = SubFrame(s, Top)
    OBVIOUS
  <2>5. /\ f \in Activations /\ f.flow = s /\ f.body = nestReg[s] /\ f.log = <<>>
        /\ f.dry = Top.dry
    <3>1. Top.dry \in BOOLEAN /\ Top.cancellable \in BOOLEAN
      BY <1>2 DEF Activations
    <3>2. <<>> \in StepLogs
      BY NoSteps
    <3> QED
      BY <2>2, <2>3, <2>4, <3>1, <3>2 DEF SubFrame, Frame, Activations
  <2>6. PICK fs \in Seq(Activations) : fs = frames
    BY <1>3 DEF CompositionTypes
  <2>7. frames' = Append(fs, f) /\ fs # <<>> /\ fs[Len(fs)] = Top
    BY <1>2, <2>1, <2>3, <2>4, <2>6 DEF Top
  <2>8. frames' \in Seq(Activations) /\ frames' # <<>>
    BY <2>5, <2>7, AppendActivation
  <2>9. tape' \in Seq(Events) /\ Opened(tape') = Append(Opened(tape), s)
    <3>1. PICK t \in Seq(Events) : t = starts
      BY <1>4
    <3>2. Append(t, Event("flow_start", s)) \in Seq(Events)
          /\ Opened(Append(t, Event("flow_start", s))) = Append(Opened(t), s)
      BY StartEvent
    <3> QED
      BY <1>4, <2>1, <2>3, <3>1, <3>2
  <2> USE DEF Environment, streamVars
  <2>10. CompositionTypes'
    BY <1>1, <1>3, <2>1, <2>8, <2>9 DEF CompositionTypes
  <2>11. StackMatchesCall'
    BY <1>1, <1>2, <2>1, <2>8 DEF StackMatchesCall
  <2>12. StaysDry'
    <3>1. AllDry(fs) => Top.dry
      BY <2>6, <2>7 DEF AllDry
    <3>2. AllDry(fs) => AllDry(frames')
      BY <2>5, <2>7, <3>1, TopPushed
    <3> QED
      BY <1>1, <1>3, <2>6, <3>2 DEF StaysDry
  <2>13. ReaderFollowsWorker'
    BY <1>1, <1>2, <1>3, <2>1, WorkerAtWork DEF ReaderFollowsWorker
  <2>14. FollowsReferences'
    <3>1. Visit(RootFlow)' = Visit(RootFlow) /\ References' = References
      BY <1>1, RegistryKept
    <3>2. ASSUME nestEdits = 0 PROVE Visit(RootFlow) /\ Linked(frames', nestReg, References)
      <4>1. Visit(RootFlow) /\ Linked(fs, nestReg, References)
        BY <1>2, <1>3, <2>6, <3>2 DEF FollowsReferences
      <4>2. s \in SubFlows(Top.flow)
        <5>1. Top.body = nestReg[Top.flow]
          BY <2>6, <2>7, <4>1 DEF Linked
        <5>2. Top.at \in DOMAIN nestReg[Top.flow]
          <6>1. Top.at \in Nat \ {0} /\ Top.at <= Len(Top.body)
            BY <1>1, <1>2, ActivationFields DEF AtStep
          <6>2. nestReg[Top.flow] \in Registered
            BY <1>2, <1>3 DEF CompositionTypes
          <6>3. PICK body : body = nestReg[Top.flow]
            OBVIOUS
          <6>4. DOMAIN body = 1 .. Len(body)
            BY <6>2, <6>3, CompositionAssumption DEF Registered
          <6>5. Len(body) \in Nat
            BY <6>4
          <6> QED
            BY <5>1, <6>1, <6>3, <6>4, <6>5
        <5> QED
          BY <1>1, <2>3, <5>1, <5>2 DEF SubFlows
      <4>3. References[Top.flow] = SubFlows(Top.flow)
        BY <1>2 DEF References
      <4>4. Len(fs) <= MaxNesting
        BY <1>2, <1>3, <2>6, <4>1, <4>2, StackIsPath
      <4>5. Linked(Append(fs, f), nestReg, References)
        BY <2>5, <2>7, <4>1, <4>2, <4>3, <4>4, TopPushed
      <4> QED
        BY <2>7, <4>1, <4>5
    <3> QED
      BY <1>1, <3>1, <3>2 DEF FollowsReferences
  <2>15. EveryStepCounts'
    <3>1. Made(fs) \in Nat /\ Made(Append(fs, f)) = Made(fs) + CountComposed(f.log)
      BY <2>5, MadeGrows
    <3>2. CountComposed(f.log) = 0
      BY <2>5, NoSteps
    <3>3. Made(frames') = Made(frames)
      BY <2>6, <2>7, <3>1, <3>2
    <3> QED
      BY <1>1, <1>2, <1>3, <2>1, <3>3 DEF EveryStepCounts, Carried
  <2>16. ReadersFollow'
    <3>1. FlowsOf(Append(fs, f)) = Append(FlowsOf(fs), f.flow)
      BY <2>5, FlowsGrow
    <3> QED
      BY <1>2, <1>3, <2>1, <2>5, <2>6, <2>7, <2>9, <3>1 DEF ReadersFollow
  <2>17. ResultsAreTrue'
    BY <1>1, <1>3, <2>1 DEF ResultsAreTrue
  <2> QED
    BY <2>10, <2>11, <2>12, <2>13, <2>14, <2>15, <2>16, <2>17 DEF CompositionInv
<1> QED
  BY <1>5, <1>6

-----------------------------------------------------------------------------
(* A flow ends: with a result, or by unwinding.                            *)

LEMMA EndEventOfTop ==
  ASSUME CompositionInv, ended = "none", frames # <<>>
  PROVE  /\ Append(tape, Event("flow_end", Top.flow)) \in Seq(Events)
         /\ Opened(Append(tape, Event("flow_end", Top.flow))) = FlowsOf(Front(frames))
<1>1. CompositionTypes /\ ReadersFollow
  BY DEF CompositionInv
<1>2. /\ Top.flow \in NestFlows /\ FlowsOf(Front(frames)) \in Seq(NestFlows)
      /\ FlowsOf(frames) = Append(FlowsOf(Front(frames)), Top.flow)
  BY <1>1, TopFacts, ActivationFields
<1>3. tape \in Seq(Events) /\ Opened(tape) = FlowsOf(frames)
  BY <1>1 DEF CompositionTypes, ReadersFollow
<1>4. PICK f \in NestFlows : f = Top.flow
  BY <1>2
<1>5. PICK o \in Seq(NestFlows) : o = FlowsOf(Front(frames))
  BY <1>2
<1>6. Opened(tape) = Append(o, f)
  BY <1>2, <1>3, <1>4, <1>5
<1> QED
  BY <1>3, <1>4, <1>5, <1>6, EndEvent

LEMMA EndFlowKeeps ==
  ASSUME CompositionInv, EndFlow
  PROVE  CompositionInv'
<1> DEFINE ends == Append(tape, Event("flow_end", Top.flow))
<1>1. /\ Running /\ partial' = partial /\ ambient' = ambient
      /\ UNCHANGED <<tally, effects, Environment>>
  BY DEF EndFlow
<1>2. ended = "none" /\ call # NoFlowCall /\ frames # <<>> /\ partial = <<>>
  BY <1>1 DEF Running
<1>3. /\ CompositionTypes /\ StackMatchesCall /\ StaysDry /\ ReaderFollowsWorker
      /\ FollowsReferences /\ EveryStepCounts /\ ReadersFollow /\ ResultsAreTrue
  BY DEF CompositionInv
<1>4. /\ Top \in Activations /\ Front(frames) \in Seq(Activations)
      /\ frames = Append(Front(frames), Top)
      /\ Made(Front(frames)) \in Nat /\ Made(frames) = Made(Front(frames)) + CountComposed(Top.log)
  BY <1>2, <1>3, TopFacts
<1>5. ends \in Seq(Events) /\ Opened(ends) = FlowsOf(Front(frames))
  BY <1>2, EndEventOfTop
<1>6. Top.log \in StepLogs /\ CountComposed(Top.log) \in Nat
  BY <1>4, ActivationFields, LogCounts
<1>7. tally = Made(frames) + 0
  BY <1>2, <1>3 DEF EveryStepCounts, Carried
<1>8. CASE Front(frames) = <<>>
  <2>1. frames' = <<>> /\ tape' = ends
        /\ Finishes(Top.log, IF Succeeds(Top.log) THEN "success" ELSE "failure")
    BY <1>8 DEF EndFlow
  <2>2. PICK log \in StepLogs : log = Top.log
    BY <1>6
  <2>3. PICK how \in {"success", "failure", "cancelled"} :
          how = IF Succeeds(log) THEN "success" ELSE "failure"
    OBVIOUS
  <2>4. CountComposed(log) = tally
    BY <1>4, <1>6, <1>7, <1>8, <2>2, NothingMade
  <2>5. (how = "success" => Succeeds(log)) /\ (how = "failure" => ~Succeeds(log))
    BY <2>3
  <2>6. tape' \in Seq(Events) /\ Opened(tape') = <<>>
    BY <1>5, <1>8, <2>1, StackEmpty
  <2>7. Finishes(log, how)
    BY <2>1, <2>2, <2>3
  <2>8. partial' = <<>>
    BY <1>1, <1>2
  <2> QED
    BY <1>1, <1>2, <2>1, <2>4, <2>5, <2>6, <2>7, <2>8, FinishesKeeps
<1>9. CASE Front(frames) # <<>>
  <2>1. PICK below \in Seq(Activations) : below = Front(frames)
    BY <1>4
  <2>2. PICK bb : bb = Front(below)
    OBVIOUS
  <2>3. PICK parent : parent = below[Len(below)]
    OBVIOUS
  <2>4. bb \in Seq(Activations) /\ parent \in Activations /\ below = Append(bb, parent)
    BY <1>9, <2>1, <2>2, <2>3, Stacked
  <2>5. PICK rec : rec = ComposedRecord(Top.log)
    OBVIOUS
  <2>6. rec \in StepRecords /\ rec.tools = CountComposed(Top.log)
    BY <1>6, <2>5, SubFlowRecords
  <2>7. /\ Logs(bb, parent, rec) /\ tape' = Append(ends, Event("step_end", parent.flow))
        /\ UNCHANGED <<ended, lastLog>>
    BY <1>9, <2>1, <2>2, <2>3, <2>5, Zenon DEF EndFlow
  <2>8. PICK new \in Activations : new = Recorded(parent, rec)
    BY <2>4, <2>6, RecordedFacts
  <2>9. Alike(new, parent) /\ new.log = Append(parent.log, rec)
    BY <2>4, <2>6, <2>8, RecordedFacts
  <2>10. frames' = Append(bb, new)
    BY <2>7, <2>8 DEF Logs
  <2>11. frames' \in Seq(Activations) /\ frames' # <<>>
    BY <2>4, <2>10, AppendActivation
  <2>12. tape' \in Seq(Events) /\ Opened(tape') = FlowsOf(below)
    <3>1. PICK t \in Seq(Events) : t = ends
      BY <1>5
    <3>2. PICK f \in NestFlows : f = parent.flow
      BY <2>4, ActivationFields
    <3>3. Append(t, Event("step_end", f)) \in Seq(Events) /\ Opened(Append(t, Event("step_end", f))) = Opened(t)
      BY StepEvent
    <3> QED
      BY <1>5, <2>1, <2>7, <3>1, <3>2, <3>3
  <2> USE DEF Environment, streamVars
  <2>13. nestSnap' \in Snapshots
    <3>1. parent.at \in Nat /\ Append(parent.log, rec) \in StepLogs
      BY <2>4, <2>6, ActivationFields, LogGrows
    <3>2. <<parent.at, Append(parent.log, rec)>> \in Snapshots /\ nestSnap \in Snapshots
      BY <1>3, <3>1 DEF Snapshots, CompositionTypes
    <3> QED
      BY <2>7, <3>2 DEF Logs
  <2>14. CompositionTypes'
    BY <1>1, <1>3, <2>7, <2>11, <2>12, <2>13 DEF CompositionTypes
  <2>15. StackMatchesCall'
    BY <1>1, <1>2, <2>7, <2>11 DEF StackMatchesCall
  <2>16. frames = Append(below, Top)
    BY <1>4, <2>1
  <2>17. StaysDry'
    <3>1. AllDry(frames) => AllDry(below)
      BY <1>4, <2>16, TopLeft
    <3>2. AllDry(below) => AllDry(frames')
      BY <2>4, <2>9, <2>10, TopReplaced
    <3> QED
      BY <1>1, <1>3, <3>1, <3>2 DEF StaysDry
  <2>18. ReaderFollowsWorker'
    BY <1>1, <1>2, <1>3, <2>7, WorkerAtWork DEF ReaderFollowsWorker
  <2>19. FollowsReferences'
    <3>1. Visit(RootFlow)' = Visit(RootFlow) /\ References' = References
      BY <1>1, RegistryKept
    <3>2. Linked(frames, nestReg, References) => Linked(below, nestReg, References)
      BY <1>4, <2>16, TopLeft
    <3>3. Linked(below, nestReg, References) => Linked(frames', nestReg, References)
      BY <2>4, <2>9, <2>10, TopReplaced
    <3> QED
      BY <1>1, <1>2, <1>3, <3>1, <3>2, <3>3 DEF FollowsReferences
  <2>20. EveryStepCounts'
    <3>1. parent.log \in StepLogs /\ CountComposed(parent.log) \in Nat
      BY <2>4, ActivationFields, LogCounts
    <3>2. CountComposed(new.log) = CountComposed(parent.log) + CountComposed(Top.log)
      BY <2>6, <2>9, <3>1, LogGrows
    <3>3. /\ Made(bb) \in Nat /\ Made(frames') = Made(bb) + CountComposed(new.log)
          /\ Made(below) = Made(bb) + CountComposed(parent.log)
      BY <2>4, <2>10, MadeGrows
    <3>4. Made(frames) = Made(below) + CountComposed(Top.log)
      BY <1>4, <2>1
    <3>5. Made(frames') = Made(frames)
      BY <1>6, <3>1, <3>2, <3>3, <3>4
    <3> QED
      BY <1>1, <1>2, <1>7, <2>7, <3>5 DEF EveryStepCounts, Carried
  <2>21. ReadersFollow'
    <3>1. FlowsOf(frames') = FlowsOf(below)
      BY <2>4, <2>9, <2>10, TopReplaced
    <3> QED
      BY <1>2, <2>7, <2>12, <3>1 DEF ReadersFollow
  <2>22. ResultsAreTrue'
    BY <1>1, <1>3, <2>7 DEF ResultsAreTrue
  <2> QED
    BY <2>14, <2>15, <2>17, <2>18, <2>19, <2>20, <2>21, <2>22 DEF CompositionInv
<1> QED
  BY <1>8, <1>9

LEMMA UnwindsKeeps ==
  ASSUME CompositionInv, ended = "none", call # NoFlowCall, frames # <<>>,
         NEW log \in StepLogs, CountComposed(log) = CountComposed(Top.log) + Carried,
         Unwinds(log)
  PROVE  CompositionInv'
<1> DEFINE ends == Append(tape, Event("flow_end", Top.flow))
<1>1. /\ frames' = Front(frames) /\ tape' = ends
      /\ UNCHANGED <<ambient, tally, effects, Environment>>
  BY DEF Unwinds
<1>2. /\ CompositionTypes /\ StackMatchesCall /\ StaysDry /\ ReaderFollowsWorker
      /\ FollowsReferences /\ EveryStepCounts /\ ReadersFollow /\ ResultsAreTrue
  BY DEF CompositionInv
<1>3. PICK top \in Activations : top = Top
  BY <1>2, TopFacts
<1>4. PICK below \in Seq(Activations) : below = Front(frames)
  BY <1>2, TopFacts
<1>5. /\ frames = Append(below, top) /\ Made(below) \in Nat
      /\ Made(frames) = Made(below) + CountComposed(top.log)
  BY <1>2, <1>3, <1>4, TopFacts
<1>6. ends \in Seq(Events) /\ Opened(ends) = FlowsOf(below)
  BY <1>4, EndEventOfTop
<1>7. CountComposed(top.log) \in Nat /\ CountComposed(log) \in Nat /\ Carried \in Nat
  <2>1. top.log \in StepLogs
    BY ActivationFields
  <2>2. partial # <<>> => partial[1] \in StepLogs
    BY <1>2 DEF CompositionTypes
  <2> QED
    BY <2>1, <2>2, LogCounts DEF Carried
<1>8. tally = Made(below) + CountComposed(log)
  BY <1>2, <1>3, <1>5, <1>7 DEF EveryStepCounts
<1>9. Len(frames) = Len(below) + 1 /\ Len(below) \in Nat
  BY <1>5, AppendActivation
<1>10. CASE Len(frames) = 1
  <2>1. below = <<>>
    <3>1. PICK n \in Nat : n = Len(below) /\ Len(frames) = n + 1
      BY <1>9
    <3>2. n = 0
      <4>1. n + 1 = 1
        BY <1>10, <3>1, Zenon
      <4> QED
        BY <4>1
    <3> QED
      BY <3>1, <3>2, EmptySeq
  <2>2. partial' = <<>> /\ Finishes(log, "cancelled")
    BY <1>10 DEF Unwinds
  <2>3. CountComposed(log) = tally
    BY <1>7, <1>8, <2>1, NothingMade
  <2>4. frames' = <<>> /\ tape' \in Seq(Events) /\ Opened(tape') = <<>>
    BY <1>1, <1>4, <1>6, <2>1, StackEmpty
  <2> QED
    BY <1>1, <2>2, <2>3, <2>4, FinishesKeeps
<1>11. CASE Len(frames) # 1
  <2>1. partial' = <<log>> /\ UNCHANGED <<ended, lastLog, nestSnap>>
    BY <1>11 DEF Unwinds
  <2>2. frames' = below /\ below # <<>>
    BY <1>1, <1>4, <1>9, <1>11
  <2>3. partial' \in Seq(StepLogs) /\ partial' # <<>> /\ partial'[1] = log
    BY <2>1
  <2> USE DEF Environment, streamVars
  <2>4. CompositionTypes'
    BY <1>1, <1>2, <1>6, <2>1, <2>2, <2>3 DEF CompositionTypes
  <2>5. StackMatchesCall'
    BY <1>1, <2>1, <2>2 DEF StackMatchesCall
  <2>6. StaysDry'
    <3>1. AllDry(frames) => AllDry(below)
      BY <1>5, TopLeft
    <3> QED
      BY <1>1, <1>2, <2>2, <3>1 DEF StaysDry
  <2>7. ReaderFollowsWorker'
    BY <1>1, <1>2, <2>1, WorkerAtWork DEF ReaderFollowsWorker
  <2>8. FollowsReferences'
    <3>1. Visit(RootFlow)' = Visit(RootFlow) /\ References' = References
      BY <1>1, RegistryKept
    <3>2. Linked(frames, nestReg, References) => Linked(below, nestReg, References)
      BY <1>5, TopLeft
    <3> QED
      BY <1>1, <1>2, <2>2, <3>1, <3>2 DEF FollowsReferences
  <2>9. EveryStepCounts'
    <3>1. Carried' = CountComposed(log)
      BY <2>3 DEF Carried
    <3>2. tally' = Made(frames') + Carried'
      BY <1>1, <1>8, <2>2, <3>1
    <3> QED
      BY <2>1, <3>2 DEF EveryStepCounts
  <2>10. ReadersFollow'
    BY <1>1, <1>6, <2>1, <2>2 DEF ReadersFollow
  <2>11. ResultsAreTrue'
    BY <1>1, <1>2, <2>1 DEF ResultsAreTrue
  <2> QED
    BY <2>4, <2>5, <2>6, <2>7, <2>8, <2>9, <2>10, <2>11 DEF CompositionInv
<1> QED
  BY <1>10, <1>11

LEMMA CheckCancellationKeeps ==
  ASSUME CompositionInv, CheckCancellation
  PROVE  CompositionInv'
<1>1. AtStep /\ Unwinds(Top.log)
  BY DEF CheckCancellation
<1>2. /\ ended = "none" /\ call # NoFlowCall /\ frames # <<>> /\ partial = <<>> /\ Top \in Activations
  BY <1>1, RunningAtStep
<1>3. PICK log \in StepLogs : log = Top.log
  BY <1>2, ActivationFields
<1>4. CountComposed(log) \in Nat
  BY LogCounts
<1>5. CountComposed(log) = CountComposed(Top.log) + Carried
  BY <1>2, <1>3, <1>4 DEF Carried
<1>6. Unwinds(log)
  BY <1>1, <1>3
<1> QED
  BY <1>2, <1>5, <1>6, UnwindsKeeps

LEMMA ReraiseKeeps ==
  ASSUME CompositionInv, ReraiseSubflowCancellation
  PROVE  CompositionInv'
<1>1. partial # <<>> /\ frames # <<>> /\ Unwinds(Append(Top.log, CancelledRecord(partial[1])))
  BY DEF ReraiseSubflowCancellation
<1>2. CompositionTypes /\ StackMatchesCall
  BY DEF CompositionInv
<1>3. ended = "none" /\ call # NoFlowCall
  BY <1>1, <1>2 DEF StackMatchesCall
<1>4. PICK inner \in StepLogs : inner = partial[1]
  BY <1>1, <1>2 DEF CompositionTypes
<1>5. PICK top \in Activations : top = Top
  BY <1>1, <1>2, TopFacts
<1>6. PICK rec : rec = CancelledRecord(inner)
  OBVIOUS
<1>7. rec \in StepRecords /\ rec.tools = CountComposed(inner)
  BY <1>6, SubFlowRecords
<1>8. top.log \in StepLogs
  BY ActivationFields
<1>9. PICK log : log = Append(top.log, rec)
  OBVIOUS
<1>10. log \in StepLogs /\ CountComposed(log) = CountComposed(top.log) + rec.tools
  BY <1>7, <1>8, <1>9, LogGrows
<1>11. CountComposed(log) = CountComposed(Top.log) + Carried
  BY <1>1, <1>4, <1>5, <1>7, <1>10 DEF Carried
<1>12. Unwinds(log)
  BY <1>1, <1>4, <1>5, <1>6, <1>9
<1> QED
  BY <1>1, <1>3, <1>10, <1>11, <1>12, UnwindsKeeps

-----------------------------------------------------------------------------
(* The stream, the environment and the return.                             *)

LEMMA StreamStepKeeps ==
  ASSUME CompositionInv, StreamStep
  PROVE  CompositionInv'
<1> USE DEF runVars
<1>1. /\ UNCHANGED <<nestReg, inactive, call, replayed, token, nestRuns, nestEdits, runVars>>
  BY DEF StreamStep
<1>2. /\ CompositionTypes /\ StackMatchesCall /\ StaysDry /\ ReaderFollowsWorker
      /\ FollowsReferences /\ EveryStepCounts /\ ReadersFollow /\ ResultsAreTrue
  BY DEF CompositionInv
<1>3. call # NoFlowCall
  BY <1>2 DEF StreamStep, StackMatchesCall, WorkerCatches, PutSentinel, WorkerExits, Yield,
     TakeSentinel, Abandon, JoinWorker
<1>4. readTo' \in Nat /\ holder' \in BOOLEAN
  <2>1. readTo \in Nat /\ holder \in BOOLEAN
    BY <1>2 DEF CompositionTypes
  <2>2. readTo' \in Nat
    BY <2>1 DEF StreamStep, WorkerCatches, PutSentinel, WorkerExits, Yield, TakeSentinel, Abandon,
       JoinWorker
  <2>3. holder' = holder \/ holder' = (ended \in {"error", "cancelled"})
    BY Zenon DEF StreamStep, WorkerCatches, PutSentinel, WorkerExits, Yield, TakeSentinel, Abandon,
       JoinWorker
  <2>4. (ended \in {"error", "cancelled"}) \in BOOLEAN
    OBVIOUS
  <2> QED
    BY <2>1, <2>2, <2>3, <2>4
<1>5. CompositionTypes'
  BY <1>1, <1>2, <1>4 DEF CompositionTypes
<1>6. StackMatchesCall'
  BY <1>1, <1>2, <1>3 DEF StackMatchesCall
<1>7. ReaderFollowsWorker'
  <2>1. ended' = ended /\ tape' = tape /\ Len(tape) \in Nat /\ readTo \in Nat /\ holder \in BOOLEAN
    BY <1>1, <1>2 DEF CompositionTypes
  <2>2. CASE WorkerCatches
    BY <1>2, <2>1, <2>2 DEF WorkerCatches, ReaderFollowsWorker, SentinelPut
  <2>3. CASE PutSentinel
    BY <1>2, <2>1, <2>3 DEF PutSentinel, ReaderFollowsWorker, SentinelPut
  <2>4. CASE WorkerExits
    BY <1>2, <2>1, <2>4 DEF WorkerExits, ReaderFollowsWorker, SentinelPut
  <2>5. CASE Yield
    BY <1>2, <2>1, <2>5 DEF Yield, ReaderFollowsWorker, SentinelPut
  <2>6. CASE TakeSentinel
    BY <1>2, <2>1, <2>6 DEF TakeSentinel, ReaderFollowsWorker, SentinelPut
  <2>7. CASE Abandon
    BY <1>2, <2>1, <2>7 DEF Abandon, ReaderFollowsWorker, SentinelPut
  <2>8. CASE JoinWorker
    BY <1>2, <2>1, <2>8 DEF JoinWorker, ReaderFollowsWorker, SentinelPut
  <2> QED
    BY <2>2, <2>3, <2>4, <2>5, <2>6, <2>7, <2>8 DEF StreamStep
<1>8. FollowsReferences'
  <2>1. Visit(RootFlow)' = Visit(RootFlow) /\ References' = References
    BY <1>1, RegistryKept
  <2> QED
    BY <1>1, <1>2, <2>1 DEF FollowsReferences
<1>9. StaysDry' /\ ResultsAreTrue'
  BY <1>1, <1>2 DEF StaysDry, ResultsAreTrue
<1>10. EveryStepCounts' /\ ReadersFollow'
  BY <1>1, <1>2 DEF EveryStepCounts, ReadersFollow, Carried
<1> QED
  BY <1>5, <1>6, <1>7, <1>8, <1>9, <1>10 DEF CompositionInv

(* The token is set, a flow is registered anew or leaves ACTIVE, or        *)
(* nothing happens.                                                        *)
LEMMA EnvironmentKeeps ==
  ASSUME CompositionInv, UNCHANGED <<call, replayed, streamVars, runVars>>,
         nestReg' \in [NestFlows -> Registered], nestEdits' \in Nat,
         \/ nestReg' = nestReg /\ nestEdits' = nestEdits
         \/ nestEdits' # 0
  PROVE  CompositionInv'
<1> USE DEF runVars, streamVars
<1>1. /\ CompositionTypes /\ StackMatchesCall /\ StaysDry /\ ReaderFollowsWorker
      /\ FollowsReferences /\ EveryStepCounts /\ ReadersFollow /\ ResultsAreTrue
  BY DEF CompositionInv
<1>2. CompositionTypes'
  BY <1>1 DEF CompositionTypes
<1>3. StackMatchesCall'
  BY <1>1 DEF StackMatchesCall
<1>4. ReaderFollowsWorker'
  BY <1>1 DEF ReaderFollowsWorker, SentinelPut
<1>5. FollowsReferences'
  <2>1. CASE nestEdits' # 0
    BY <2>1 DEF FollowsReferences
  <2>2. CASE nestReg' = nestReg /\ nestEdits' = nestEdits
    <3>1. Visit(RootFlow)' = Visit(RootFlow) /\ References' = References
      BY <2>2, RegistryKept
    <3> QED
      BY <1>1, <2>2, <3>1 DEF FollowsReferences
  <2> QED
    BY <2>1, <2>2
<1>6. StaysDry' /\ ResultsAreTrue'
  BY <1>1 DEF StaysDry, ResultsAreTrue
<1>7. EveryStepCounts' /\ ReadersFollow'
  BY <1>1 DEF EveryStepCounts, ReadersFollow, Carried
<1> QED
  BY <1>2, <1>3, <1>4, <1>5, <1>6, <1>7 DEF CompositionInv

LEMMA CancelTokenKeeps ==
  ASSUME CompositionInv, CancelToken \/ UNCHANGED compositionVars
  PROVE  CompositionInv'
<1>1. UNCHANGED <<call, replayed, streamVars, runVars>> /\ nestReg' = nestReg /\ nestEdits' = nestEdits
  BY DEF CancelToken, compositionVars
<1>2. nestReg \in [NestFlows -> Registered] /\ nestEdits \in Nat
  BY DEF CompositionInv, CompositionTypes
<1> QED
  BY <1>1, <1>2, EnvironmentKeeps

LEMMA ReregisterKeeps ==
  ASSUME CompositionInv, NEW f \in NestFlows, NEW body \in Bodies[f], Reregister(f, body)
  PROVE  CompositionInv'
<1>1. UNCHANGED <<call, replayed, streamVars, runVars>> /\ nestReg' = [nestReg EXCEPT ![f] = body]
      /\ nestEdits' = nestEdits + 1
  BY DEF Reregister
<1>2. nestReg \in [NestFlows -> Registered] /\ nestEdits \in Nat
  BY DEF CompositionInv, CompositionTypes
<1>3. body \in Registered
  BY DEF Registered
<1>4. nestReg' \in [NestFlows -> Registered] /\ nestEdits' \in Nat /\ nestEdits' # 0
  BY <1>1, <1>2, <1>3
<1> QED
  BY <1>1, <1>4, EnvironmentKeeps

LEMMA LeaveActiveKeeps ==
  ASSUME CompositionInv, NEW f \in NestFlows, LeaveActive(f)
  PROVE  CompositionInv'
<1>1. UNCHANGED <<call, replayed, streamVars, runVars>> /\ nestReg' = nestReg
      /\ nestEdits' = nestEdits + 1
  BY DEF LeaveActive
<1>2. nestReg \in [NestFlows -> Registered] /\ nestEdits \in Nat
  BY DEF CompositionInv, CompositionTypes
<1>3. nestEdits' \in Nat /\ nestEdits' # 0
  BY <1>1, <1>2
<1> QED
  BY <1>1, <1>2, <1>3, EnvironmentKeeps

LEMMA CallReturnsKeeps ==
  ASSUME CompositionInv, CallReturns
  PROVE  CompositionInv'
<1>1. /\ CompositionTypes /\ StackMatchesCall /\ StaysDry /\ ReaderFollowsWorker
      /\ FollowsReferences /\ EveryStepCounts /\ ReadersFollow /\ ResultsAreTrue
  BY DEF CompositionInv
<1>2. /\ ended # "none"
      /\ call' = NoFlowCall /\ frames' = <<>> /\ ended' = "none" /\ tape' = <<>>
      /\ readTo' = 0 /\ worker' = "none" /\ reader' = "none" /\ holder' = FALSE
      /\ tally' = 0 /\ effects' = 0 /\ replayed' = <<>>
      /\ nestReg' = nestReg /\ nestEdits' = nestEdits /\ partial' = partial
      /\ lastLog' = lastLog /\ nestSnap' = nestSnap /\ ambient' = ambient
  BY DEF CallReturns
<1>3. frames = <<>> /\ partial = <<>>
  BY <1>1, <1>2 DEF StackMatchesCall
<1>4. /\ AllDry(frames') /\ Linked(frames', nestReg, References) /\ FlowsOf(frames') = <<>>
      /\ Made(frames') = 0 /\ frames' \in Seq(Activations)
  BY <1>2, StackEmpty
<1>5. CompositionTypes'
  <2>1. NoFlowCall \in FlowCalls /\ <<>> \in Seq(Events) /\ <<>> \in Results
    BY DEF NoFlowCall, FlowCalls, Results
  <2> QED
    BY <1>1, <1>2, <1>4, <2>1 DEF CompositionTypes
<1>6. StackMatchesCall'
  BY <1>2, <1>3 DEF StackMatchesCall
<1>7. StaysDry' /\ ReaderFollowsWorker'
  BY <1>2, <1>4 DEF StaysDry, ReaderFollowsWorker
<1>8. FollowsReferences'
  <2>1. Visit(RootFlow)' = Visit(RootFlow) /\ References' = References
    BY <1>2, RegistryKept
  <2> QED
    BY <1>1, <1>2, <1>4, <2>1 DEF FollowsReferences
<1>9. EveryStepCounts'
  BY <1>2, <1>3, <1>4 DEF EveryStepCounts, Carried
<1>10. ReadersFollow'
  BY <1>2, <1>4, OpenedEmpty DEF ReadersFollow
<1>11. ResultsAreTrue'
  BY <1>1, <1>2 DEF ResultsAreTrue, NoFlowCall
<1> QED
  BY <1>5, <1>6, <1>7, <1>8, <1>9, <1>10, <1>11 DEF CompositionInv

-----------------------------------------------------------------------------
(* The entry points.                                                       *)

LEMMA FreshFrame ==
  ASSUME CompositionTypes, NEW dry \in BOOLEAN, NEW cancellable \in BOOLEAN
  PROVE  /\ Frame(RootFlow, dry, cancellable) \in Activations
         /\ Frame(RootFlow, dry, cancellable).flow = RootFlow
         /\ Frame(RootFlow, dry, cancellable).body = nestReg[RootFlow]
         /\ Frame(RootFlow, dry, cancellable).log = <<>>
         /\ Frame(RootFlow, dry, cancellable).dry = dry
<1>1. RootFlow \in NestFlows /\ nestReg[RootFlow] \in Registered
  BY CompositionAssumption DEF CompositionTypes
<1>2. PICK body \in Registered : body = nestReg[RootFlow]
  BY <1>1
<1>3. <<>> \in StepLogs
  BY NoSteps
<1>4. PICK f : f = [flow |-> RootFlow, body |-> body, at |-> 1, log |-> <<>>, decisions |-> 0,
                    dry |-> dry, cancellable |-> cancellable]
  OBVIOUS
<1>5. /\ f \in Activations /\ f.flow = RootFlow /\ f.body = body /\ f.log = <<>> /\ f.dry = dry
  BY <1>1, <1>3, <1>4 DEF Activations
<1>6. Frame(RootFlow, dry, cancellable) = f
  BY <1>2, <1>4 DEF Frame
<1> QED
  BY <1>2, <1>5, <1>6

(* A free executor takes a call: what it keeps of the calls before.        *)
Begins ==
  /\ call = NoFlowCall /\ call' \in FlowCalls /\ call' # NoFlowCall
  /\ replayed' \in Results /\ nestSnap' \in Snapshots
  /\ replayed' # <<>> /\ replayed'[2] => Succeeds(replayed'[1])
  /\ call'.kind = "replay" => replayed' # <<>>
  /\ worker' \in {"running", "none"} /\ reader' \in {"reading", "none"}
  /\ UNCHANGED <<nestReg, nestEdits, ambient, readTo, holder, partial, lastLog, effects>>

LEMMA StartKeeps ==
  ASSUME CompositionInv, Begins, NEW f \in Activations, frames' = <<f>>,
         f.flow = RootFlow, f.body = nestReg[RootFlow], call'.dry => f.dry,
         tape' = <<Event("flow_start", RootFlow)>>, tally' = CountComposed(f.log),
         ended' = ended, nestEdits = 0 => Visit(RootFlow)
  PROVE  CompositionInv'
<1>1. /\ CompositionTypes /\ StackMatchesCall /\ StaysDry /\ ReaderFollowsWorker
      /\ FollowsReferences /\ EveryStepCounts /\ ReadersFollow /\ ResultsAreTrue
  BY DEF CompositionInv
<1>2. /\ call = NoFlowCall /\ call' \in FlowCalls /\ call' # NoFlowCall
      /\ replayed' \in Results /\ nestSnap' \in Snapshots
      /\ (replayed' # <<>> /\ replayed'[2] => Succeeds(replayed'[1]))
      /\ (call'.kind = "replay" => replayed' # <<>>)
      /\ worker' \in {"running", "none"} /\ reader' \in {"reading", "none"}
      /\ UNCHANGED <<nestReg, nestEdits, ambient, readTo, holder, partial, lastLog, effects>>
  BY DEF Begins
<1>3. ended = "none" /\ tape = <<>> /\ frames = <<>> /\ partial = <<>> /\ effects = 0
  BY <1>1, <1>2 DEF StackMatchesCall
<1>4. /\ frames' \in Seq(Activations) /\ frames' # <<>> /\ FlowsOf(frames') = Append(<<>>, RootFlow)
      /\ Made(frames') = CountComposed(f.log) /\ (f.dry => AllDry(frames'))
      /\ Linked(frames', nestReg, References)
  BY StackOfOne
<1>5. tape' \in Seq(Events) /\ Opened(tape') = Append(<<>>, RootFlow)
  <2>1. PICK t \in Seq(Events) : t = <<>>
    BY EmptySeq
  <2>2. RootFlow \in NestFlows
    BY CompositionAssumption
  <2>3. Append(t, Event("flow_start", RootFlow)) \in Seq(Events)
        /\ Opened(Append(t, Event("flow_start", RootFlow))) = Append(Opened(t), RootFlow)
    BY <2>2, StartEvent
  <2>4. PICK e : e = Event("flow_start", RootFlow)
    OBVIOUS
  <2>5. <<e>> = Append(<<>>, e)
    OBVIOUS
  <2>6. tape' = Append(t, e)
    BY <2>1, <2>4, <2>5
  <2> QED
    BY <2>1, <2>3, <2>4, <2>6, OpenedEmpty
<1>6. f.log \in StepLogs /\ CountComposed(f.log) \in Nat
  BY ActivationFields, LogCounts
<1>7. CompositionTypes'
  BY <1>1, <1>2, <1>4, <1>5, <1>6 DEF CompositionTypes
<1>8. StackMatchesCall'
  BY <1>2, <1>3, <1>4 DEF StackMatchesCall
<1>9. StaysDry'
  BY <1>2, <1>3, <1>4 DEF StaysDry
<1>10. ReaderFollowsWorker'
  BY <1>2 DEF ReaderFollowsWorker
<1>11. FollowsReferences'
  <2>1. Visit(RootFlow)' = Visit(RootFlow) /\ References' = References
    BY <1>2, RegistryKept
  <2> QED
    BY <1>2, <1>4, <2>1 DEF FollowsReferences
<1>12. EveryStepCounts'
  BY <1>2, <1>3, <1>4, <1>6 DEF EveryStepCounts, Carried
<1>13. ReadersFollow'
  BY <1>3, <1>4, <1>5 DEF ReadersFollow
<1>14. ResultsAreTrue'
  BY <1>1, <1>2, <1>3 DEF ResultsAreTrue
<1> QED
  BY <1>7, <1>8, <1>9, <1>10, <1>11, <1>12, <1>13, <1>14 DEF CompositionInv

LEMMA RefusedKeeps ==
  ASSUME CompositionInv, Begins, frames' = frames, tape' = tape, ended' = "error",
         tally' = tally, nestSnap' = <<>>
  PROVE  CompositionInv'
<1>1. /\ CompositionTypes /\ StackMatchesCall /\ StaysDry /\ ReaderFollowsWorker
      /\ FollowsReferences /\ EveryStepCounts /\ ReadersFollow /\ ResultsAreTrue
  BY DEF CompositionInv
<1>2. /\ call = NoFlowCall /\ call' \in FlowCalls /\ call' # NoFlowCall
      /\ replayed' \in Results /\ nestSnap' \in Snapshots
      /\ (replayed' # <<>> /\ replayed'[2] => Succeeds(replayed'[1]))
      /\ (call'.kind = "replay" => replayed' # <<>>)
      /\ worker' \in {"running", "none"} /\ reader' \in {"reading", "none"}
      /\ UNCHANGED <<nestReg, nestEdits, ambient, readTo, holder, partial, lastLog, effects>>
  BY DEF Begins
<1>3. ended = "none" /\ tape = <<>> /\ frames = <<>> /\ partial = <<>> /\ effects = 0
  BY <1>1, <1>2 DEF StackMatchesCall
<1>4. AllDry(frames') /\ Linked(frames', nestReg, References)
  BY <1>3, StackEmpty
<1>5. CompositionTypes'
  BY <1>1, <1>2 DEF CompositionTypes
<1>6. StackMatchesCall'
  BY <1>2, <1>3 DEF StackMatchesCall
<1>7. StaysDry' /\ ReaderFollowsWorker'
  BY <1>2, <1>3, <1>4 DEF StaysDry, ReaderFollowsWorker
<1>8. FollowsReferences'
  <2>1. Visit(RootFlow)' = Visit(RootFlow) /\ References' = References
    BY <1>2, RegistryKept
  <2> QED
    BY <1>1, <1>2, <1>3, <1>4, <2>1 DEF FollowsReferences
<1>9. EveryStepCounts' /\ ReadersFollow'
  BY DEF EveryStepCounts, ReadersFollow
<1>10. ResultsAreTrue'
  BY <1>1, <1>2 DEF ResultsAreTrue
<1> QED
  BY <1>5, <1>6, <1>7, <1>8, <1>9, <1>10 DEF CompositionInv

LEMMA CalledBegins ==
  ASSUME CompositionInv, NEW kind \in {"execute", "stream", "resume", "replay"},
         NEW dry \in BOOLEAN, NEW from \in Nat, Called(kind, dry, from),
         nestSnap' \in Snapshots,
         IF kind = "replay" THEN lastLog # <<>> /\ replayed' = lastLog ELSE replayed' = replayed
  PROVE  Begins /\ call'.dry = dry
<1>1. call' = [kind |-> kind, dry |-> dry, from |-> from]
  BY DEF Called
<1>2. call' \in FlowCalls /\ call'.kind = kind /\ call'.dry = dry
  BY <1>1 DEF FlowCalls
<1>3. call' # NoFlowCall
  BY <1>2 DEF NoFlowCall
<1>4. call = NoFlowCall /\ worker' \in {"running", "none"} /\ reader' \in {"reading", "none"}
      /\ UNCHANGED <<nestReg, nestEdits, ambient, readTo, holder, partial, lastLog, effects>>
  BY DEF Called, Free
<1>5. CompositionTypes /\ ResultsAreTrue
  BY DEF CompositionInv
<1>6. /\ replayed' \in Results
      /\ replayed' # <<>> /\ replayed'[2] => Succeeds(replayed'[1])
      /\ kind = "replay" => replayed' # <<>>
  BY <1>5 DEF CompositionTypes, ResultsAreTrue
<1> QED
  BY <1>2, <1>3, <1>4, <1>6 DEF Begins

LEMMA EnterRootKeeps ==
  ASSUME CompositionInv, NEW dry \in BOOLEAN, NEW cancellable \in BOOLEAN,
         Begins, call'.dry = dry, EnterRoot(dry, cancellable), tally' = tally, nestSnap' = <<>>
  PROVE  CompositionInv'
<1>1. call = NoFlowCall
  BY DEF Begins
<1>2. CompositionTypes /\ tally = 0
  BY <1>1 DEF CompositionInv, StackMatchesCall
<1>3. CASE ~Enterable(RootFlow)
  BY <1>3, RefusedKeeps DEF EnterRoot
<1>4. CASE Enterable(RootFlow)
  <2>1. /\ frames' = <<Frame(RootFlow, dry, cancellable)>>
        /\ tape' = <<Event("flow_start", RootFlow)>> /\ ended' = ended
    BY <1>4 DEF EnterRoot
  <2>2. PICK f \in Activations : f = Frame(RootFlow, dry, cancellable)
    BY <1>2, FreshFrame
  <2>3. f.flow = RootFlow /\ f.body = nestReg[RootFlow] /\ f.log = <<>> /\ f.dry = dry
    BY <1>2, <2>2, FreshFrame
  <2>4. tally' = CountComposed(f.log)
    BY <1>2, <2>3, NoSteps
  <2>5. Visit(RootFlow)
    BY <1>4 DEF Enterable
  <2> QED
    BY <2>1, <2>2, <2>3, <2>4, <2>5, StartKeeps
<1> QED
  BY <1>3, <1>4

LEMMA ExecuteFlowKeeps ==
  ASSUME CompositionInv, NEW kind \in {"execute", "stream"}, NEW dry \in BOOLEAN,
         ExecuteFlow(kind, dry)
  PROVE  CompositionInv'
<1>1. /\ Called(kind, dry, 0) /\ EnterRoot(dry, TRUE) /\ nestSnap' = <<>>
      /\ replayed' = replayed /\ tally' = tally
  BY DEF ExecuteFlow
<1>2. nestSnap' \in Snapshots
  BY <1>1 DEF Snapshots
<1>3. Begins /\ call'.dry = dry
  BY <1>1, <1>2, CalledBegins
<1> QED
  BY <1>1, <1>3, EnterRootKeeps

LEMMA ReplayFlowKeeps ==
  ASSUME CompositionInv, ReplayFlow
  PROVE  CompositionInv'
<1>1. /\ Called("replay", FALSE, 0) /\ EnterRoot(FALSE, FALSE) /\ nestSnap' = <<>>
      /\ lastLog # <<>> /\ replayed' = lastLog /\ tally' = tally
  BY DEF ReplayFlow
<1>2. nestSnap' \in Snapshots
  BY <1>1 DEF Snapshots
<1>3. Begins /\ call'.dry = FALSE
  BY <1>1, <1>2, CalledBegins
<1> QED
  BY <1>1, <1>3, EnterRootKeeps

LEMMA ReplayLinearFromKeeps ==
  ASSUME CompositionInv, NEW from \in Nat, ReplayLinearFrom(from)
  PROVE  CompositionInv'
<1>1. /\ Called("replay", FALSE, from) /\ nestSnap' = nestSnap
      /\ frames' = <<[Frame(RootFlow, FALSE, FALSE) EXCEPT !.at = from + 1]>>
      /\ tape' = <<Event("flow_start", RootFlow)>>
      /\ lastLog # <<>> /\ replayed' = lastLog /\ tally' = tally /\ ended' = ended
  BY DEF ReplayLinearFrom
<1>2. CompositionTypes /\ FollowsReferences /\ nestSnap' \in Snapshots
  BY <1>1 DEF CompositionInv, CompositionTypes
<1>3. Begins /\ call'.dry = FALSE
  BY <1>1, <1>2, CalledBegins
<1>4. tally' = 0
  BY <1>1, <1>3 DEF Begins, CompositionInv, StackMatchesCall
<1>5. PICK g \in Activations : g = Frame(RootFlow, FALSE, FALSE)
  BY <1>2, FreshFrame
<1>6. g.flow = RootFlow /\ g.body = nestReg[RootFlow] /\ g.log = <<>>
  BY <1>2, <1>5, FreshFrame
<1>7. PICK f : f = [g EXCEPT !.at = from + 1]
  OBVIOUS
<1>8. f \in Activations /\ f.flow = g.flow /\ f.body = g.body /\ f.log = g.log
  BY <1>7 DEF Activations
<1>9. tally' = CountComposed(f.log)
  BY <1>4, <1>6, <1>8, NoSteps
<1>10. nestEdits = 0 => Visit(RootFlow)
  BY <1>1, <1>2 DEF FollowsReferences
<1>11. frames' = <<f>>
  BY <1>1, <1>5, <1>7
<1>12. f.flow = RootFlow /\ f.body = nestReg[RootFlow]
  BY <1>6, <1>8
<1> QED
  BY <1>1, <1>3, <1>8, <1>9, <1>10, <1>11, <1>12, StartKeeps

LEMMA ResumeFlowKeeps ==
  ASSUME CompositionInv, ResumeFlow
  PROVE  CompositionInv'
<1>1. /\ nestSnap # <<>> /\ Called("resume", FALSE, 0) /\ nestSnap' = nestSnap
      /\ frames' = <<ResumeScope([Frame(RootFlow, FALSE, FALSE) EXCEPT
                                    !.at = nestSnap[1] + 1, !.log = nestSnap[2]])>>
      /\ tape' = <<Event("flow_start", RootFlow)>>
      /\ tally' = CountComposed(nestSnap[2]) /\ ended' = ended /\ replayed' = replayed
  BY DEF ResumeFlow
<1>2. CompositionTypes /\ FollowsReferences /\ nestSnap' \in Snapshots /\ nestSnap \in Snapshots
      /\ ambient \in Nat
  BY <1>1 DEF CompositionInv, CompositionTypes
<1>3. Begins /\ call'.dry = FALSE
  BY <1>1, <1>2, CalledBegins
<1>4. PICK n \in Nat : n = nestSnap[1]
  BY <1>1, <1>2 DEF Snapshots
<1>5. PICK log \in StepLogs : log = nestSnap[2]
  BY <1>1, <1>2 DEF Snapshots
<1>6. PICK g \in Activations : g = Frame(RootFlow, FALSE, FALSE)
  BY <1>2, FreshFrame
<1>7. g.flow = RootFlow /\ g.body = nestReg[RootFlow]
  BY <1>2, <1>6, FreshFrame
<1>8. PICK h : h = [g EXCEPT !.at = n + 1, !.log = log]
  OBVIOUS
<1>9. h \in Activations /\ h.flow = g.flow /\ h.body = g.body /\ h.log = log
  <2>1. PICK m \in Nat \ {0} : m = n + 1
    OBVIOUS
  <2>2. h = [[g EXCEPT !.at = m] EXCEPT !.log = log]
    BY <1>8, <2>1
  <2>3. PICK k : k = [g EXCEPT !.at = m]
    OBVIOUS
  <2>4. k \in Activations /\ k.flow = g.flow /\ k.body = g.body
    BY <2>1, <2>3 DEF Activations
  <2>5. h = [k EXCEPT !.log = log]
    BY <2>2, <2>3
  <2> QED
    BY <2>4, <2>5 DEF Activations
<1>10. PICK f : f = [h EXCEPT !.decisions = ambient]
  OBVIOUS
<1>11. f \in Activations /\ f.flow = h.flow /\ f.body = h.body /\ f.log = h.log
  BY <1>2, <1>9, <1>10 DEF Activations
<1>12. frames' = <<f>> /\ tally' = CountComposed(f.log)
  <2>1. frames' = <<ResumeScope([g EXCEPT !.at = n + 1, !.log = log])>>
    BY <1>1, <1>4, <1>5, <1>6, Zenon
  <2>2. frames' = <<ResumeScope(h)>>
    BY <2>1, <1>8, Zenon
  <2>3. ResumeScope(h) = f
    BY <1>10, Zenon DEF ResumeScope
  <2>4. frames' = <<f>>
    BY <2>2, <2>3, Zenon
  <2>5. tally' = CountComposed(log)
    BY <1>1, <1>5, Zenon
  <2> QED
    BY <2>4, <2>5, <1>9, <1>11, Zenon
<1>13. nestEdits = 0 => Visit(RootFlow)
  BY <1>1, <1>2 DEF FollowsReferences
<1>14. f.flow = RootFlow /\ f.body = nestReg[RootFlow]
  BY <1>7, <1>9, <1>11
<1> QED
  BY <1>1, <1>3, <1>11, <1>12, <1>13, <1>14, StartKeeps

-----------------------------------------------------------------------------
(* Every step keeps what holds of a composed call.                         *)

LEMMA CompositionInitial == CompositionInit => CompositionInv
<1> SUFFICES ASSUME CompositionInit PROVE CompositionInv
  OBVIOUS
<1>1. /\ inactive = {} /\ call = NoFlowCall /\ frames = <<>> /\ partial = <<>>
      /\ ended = "none" /\ lastLog = <<>> /\ replayed = <<>> /\ nestSnap = <<>>
      /\ ambient = 0 /\ tape = <<>> /\ readTo = 0
      /\ worker = "none" /\ reader = "none" /\ holder = FALSE
      /\ tally = 0 /\ effects = 0 /\ nestEdits = 0
      /\ nestReg \in [NestFlows -> Registered]
  BY DEF CompositionInit, Registered
<1>2. Made(frames) = 0 /\ FlowsOf(frames) = <<>> /\ Opened(tape) = <<>>
      /\ AllDry(frames) /\ Linked(frames, nestReg, References) /\ frames \in Seq(Activations)
  BY <1>1, StackEmpty, OpenedEmpty, Zenon
<1>3. tape \in Seq(Events) /\ partial \in Seq(StepLogs)
  BY <1>1, EmptySeq
<1>4. call \in FlowCalls /\ call.kind = "none" /\ call.dry = FALSE
  BY <1>1 DEF FlowCalls, NoFlowCall
<1>5. CompositionTypes
  BY <1>1, <1>2, <1>3, <1>4 DEF CompositionTypes, Results, Snapshots
<1>6. StackMatchesCall
  BY <1>1 DEF StackMatchesCall
<1>7. StaysDry
  BY <1>4 DEF StaysDry
<1>8. ReaderFollowsWorker
  BY <1>1 DEF ReaderFollowsWorker
<1>9. FollowsReferences
  BY <1>1, <1>2 DEF FollowsReferences
<1>10. EveryStepCounts
  <2>1. Carried = 0
    BY <1>1 DEF Carried
  <2> QED
    BY <1>1, <1>2, <2>1 DEF EveryStepCounts
<1>11. ReadersFollow
  BY <1>1, <1>2 DEF ReadersFollow
<1>12. ResultsAreTrue
  BY <1>1, <1>4 DEF ResultsAreTrue
<1> QED
  BY <1>5, <1>6, <1>7, <1>8, <1>9, <1>10, <1>11, <1>12 DEF CompositionInv

LEMMA CompositionStepKeeps ==
  CompositionInv /\ [CompositionNext]_compositionVars => CompositionInv'
<1> SUFFICES ASSUME CompositionInv, [CompositionNext]_compositionVars PROVE CompositionInv'
  OBVIOUS
<1>1. ASSUME NEW dry \in BOOLEAN, ExecuteFlow("execute", dry) PROVE CompositionInv'
  BY <1>1, ExecuteFlowKeeps
<1>2. ASSUME ExecuteFlow("stream", FALSE) PROVE CompositionInv'
  BY <1>2, ExecuteFlowKeeps
<1>3. ASSUME ResumeFlow PROVE CompositionInv'
  BY <1>3, ResumeFlowKeeps
<1>4. ASSUME ReplayFlow PROVE CompositionInv'
  BY <1>4, ReplayFlowKeeps
<1>5. ASSUME NEW from \in 1 .. Len(nestReg[RootFlow]), ReplayLinearFrom(from)
      PROVE  CompositionInv'
  <2>1. from \in Nat
    OBVIOUS
  <2> QED
    BY <1>5, <2>1, ReplayLinearFromKeeps
<1>6. ASSUME NEW out \in Outputs \cup {"none"}, ToolStep(out) PROVE CompositionInv'
  BY <1>6, ToolStepKeeps
<1>7. ASSUME DecisionFails PROVE CompositionInv'
  BY <1>7, DecisionFailsKeeps
<1>8. ASSUME DecisionBudgetExceeded PROVE CompositionInv'
  BY <1>8, DecisionBudgetKeeps
<1>9. ASSUME SubflowInputFails PROVE CompositionInv'
  BY <1>9, SubflowInputFailsKeeps
<1>10. ASSUME EnterSubflow PROVE CompositionInv'
  BY <1>10, EnterSubflowKeeps
<1>11. ASSUME EndFlow PROVE CompositionInv'
  BY <1>11, EndFlowKeeps
<1>12. ASSUME CheckCancellation PROVE CompositionInv'
  BY <1>12, CheckCancellationKeeps
<1>13. ASSUME ReraiseSubflowCancellation PROVE CompositionInv'
  BY <1>13, ReraiseKeeps
<1>14. ASSUME StreamStep PROVE CompositionInv'
  BY <1>14, StreamStepKeeps
<1>15. ASSUME CallReturns PROVE CompositionInv'
  BY <1>15, CallReturnsKeeps
<1>16. ASSUME CancelToken \/ UNCHANGED compositionVars PROVE CompositionInv'
  BY <1>16, CancelTokenKeeps
<1>17. ASSUME NEW f \in NestFlows, LeaveActive(f) PROVE CompositionInv'
  BY <1>17, LeaveActiveKeeps
<1>18. ASSUME NEW f \in NestFlows, NEW body \in Bodies[f], Reregister(f, body)
       PROVE  CompositionInv'
  BY <1>18, ReregisterKeeps
<1> QED
  BY <1>1, <1>2, <1>3, <1>4, <1>5, <1>6, <1>7, <1>8, <1>9, <1>10, <1>11, <1>12, <1>13,
     <1>14, <1>15, <1>16, <1>17, <1>18, Zenon DEF CompositionNext

-----------------------------------------------------------------------------
(* What the callers rely on.                                               *)

(* A failed record has no output, so VERIFY finds it changed wherever the  *)
(* replayed log has the step of a success in its place that returned       *)
(* something.                                                              *)
LEMMA FailureIsADiff ==
  ASSUME NEW orig \in StepLogs, NEW new \in StepLogs, NEW from \in Nat,
         Succeeds(orig), ~Succeeds(new), Len(new) + from <= Len(orig),
         Diffs(orig, new, from) = {}
  PROVE  \E i \in DOMAIN new : ~new[i].ok /\ orig[i + from].out \in BlankOutputs
<1>1. /\ Len(orig) \in Nat /\ DOMAIN orig = 1 .. Len(orig)
      /\ Len(new) \in Nat /\ DOMAIN new = 1 .. Len(new)
      /\ \A i \in 1 .. Len(orig) : orig[i] \in StepRecords
      /\ \A i \in 1 .. Len(new) : new[i] \in StepRecords
  BY DEF StepLogs
<1>2. \A r \in StepRecords : r.ok \in BOOLEAN /\ r.ok = (r.out # "none")
  BY DEF StepRecords
<1>3. PICK i \in DOMAIN new : ~new[i].ok
  BY DEF Succeeds
<1>4. i \in 1 .. Len(new) /\ i + from \in 1 .. Len(orig)
  BY <1>1, <1>3
<1>5. new[i].out = "none"
  BY <1>1, <1>2, <1>3, <1>4
<1>6. orig[i + from].ok
  BY <1>1, <1>4 DEF Succeeds
<1>7. orig[i + from].out # "none"
  BY <1>1, <1>2, <1>4, <1>6
<1>8. Shown(new[i].out) = Shown(orig[i + from].out)
  BY <1>1, <1>3, <1>4 DEF Diffs
<1>9. "none" \notin BlankOutputs
  BY CompositionAssumption
<1>10. orig[i + from].out \in BlankOutputs
  BY <1>5, <1>7, <1>8, <1>9 DEF Shown
<1> QED
  BY <1>3, <1>10

LEMMA InvIsSound == CompositionInv => ComposedRunIsSound
<1> SUFFICES ASSUME CompositionInv PROVE ComposedRunIsSound
  OBVIOUS
<1>1. /\ CompositionTypes /\ StackMatchesCall /\ StaysDry /\ ReaderFollowsWorker
      /\ FollowsReferences /\ EveryStepCounts /\ ReadersFollow /\ ResultsAreTrue
  BY DEF CompositionInv
<1>2. EventsNest
  <2>1. OpenFlows = Opened(tape)
    BY DEF OpenFlows, Opened
  <2> QED
    BY <1>1, <2>1 DEF EventsNest, ReadersFollow, FlowsOf
<1>3. NothingIsLost
  BY <1>1 DEF NothingIsLost, EveryStepCounts
<1>4. NestingIsBounded
  BY <1>1 DEF NestingIsBounded, FollowsReferences, Linked
<1>5. RehearsalHasNoEffects
  BY <1>1 DEF RehearsalHasNoEffects, StaysDry
<1>6. ReplayVerdictIsTrue
  <2>1. SUFFICES ASSUME call.kind = "replay", ended = "failure", replayed[2],
                        Len(lastLog[1]) + call.from <= Len(replayed[1]),
                        Diffs(replayed[1], lastLog[1], call.from) = {}
                 PROVE  \E i \in DOMAIN lastLog[1] :
                          ~lastLog[1][i].ok /\ replayed[1][i + call.from].out \in BlankOutputs
    BY Zenon DEF ReplayVerdictIsTrue
  <2>2. replayed # <<>> /\ lastLog # <<>> /\ Succeeds(replayed[1]) /\ ~Succeeds(lastLog[1])
    BY <1>1, <2>1 DEF ResultsAreTrue
  <2>3. replayed[1] \in StepLogs /\ lastLog[1] \in StepLogs
    BY <1>1, <2>2 DEF CompositionTypes, Results
  <2>4. call.from \in Nat
    BY <1>1 DEF CompositionTypes, FlowCalls
  <2>5. PICK orig \in StepLogs : orig = replayed[1]
    BY <2>3
  <2>6. PICK new \in StepLogs : new = lastLog[1]
    BY <2>3
  <2>7. PICK from \in Nat : from = call.from
    BY <2>4
  <2>8. Succeeds(orig) /\ ~Succeeds(new) /\ Len(new) + from <= Len(orig)
        /\ Diffs(orig, new, from) = {}
    BY <2>1, <2>2, <2>5, <2>6, <2>7, Zenon
  <2>9. \E i \in DOMAIN new : ~new[i].ok /\ orig[i + from].out \in BlankOutputs
    BY <2>8, FailureIsADiff
  <2> QED
    BY <2>5, <2>6, <2>7, <2>9, Zenon
<1>7. StreamDelivers
  <2>1. ASSUME reader \in {"returned", "raised"}
        PROVE  readTo = Len(tape) /\ (reader = "raised" <=> ended \in {"error", "cancelled"})
    BY <1>1, <2>1 DEF ReaderFollowsWorker, SentinelPut
  <2>2. ASSUME reader \in {"returned", "raised", "abandoned"} PROVE ended # "none"
    BY <1>1, <2>2 DEF ReaderFollowsWorker
  <2> QED
    BY <2>1, <2>2 DEF StreamDelivers
<1> QED
  BY <1>2, <1>3, <1>4, <1>5, <1>6, <1>7 DEF ComposedRunIsSound

(* What a composed call promises its caller holds in every state, whatever *)
(* is re-registered, cancelled or refused under execute_flow's nested      *)
(* recursion: the events nest, no record a sub-flow made is lost on the    *)
(* way up, a dry run has no effect at any depth, the stack is as deep as   *)
(* was validated, VERIFY passes no failure of a step that the replayed log *)
(* has with an output to compare, and stream_flow hands on every event and *)
(* error.                                                                  *)
THEOREM ComposedRunSound == CompositionSpec => []ComposedRunIsSound
<1> USE CompositionInitial, CompositionStepKeeps, InvIsSound
<1> QED
  BY PTL DEF CompositionSpec
=============================================================================
