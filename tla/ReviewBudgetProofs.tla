------------------------- MODULE ReviewBudgetProofs -------------------------
(***************************************************************************)
(* What the ledger guarantees for every number of calls, every ceiling,    *)
(* price list, estimate and reported usage.                                *)
(***************************************************************************)
EXTENDS ReviewBudget, FiniteSetTheorems, WellFoundedInduction, TLAPS

(***************************************************************************)
(* Sums over finite sets.  MapThenSumSet is defined by recursion over the  *)
(* subsets of its argument; these lemmas derive from that definition what  *)
(* the ledger's books need to know of it.                                  *)
(***************************************************************************)
First(s) == CHOOSE x \in s : TRUE
IsSum(f, S, g) == 
  g = [s \in SUBSET S |-> IF s = {} THEN 0
                          ELSE f[First(s)] + g[s \ {First(s)}]]
SumFn(f, S) == CHOOSE g : IsSum(f, S, g)

LEMMA FirstIn == ASSUME NEW s, s # {} PROVE First(s) \in s
BY DEF First

(* The sum over a set is the value, at that set, of a function defined on  *)
(* all its subsets by removing one element at a time.                      *)
LEMMA TotalIsFold ==
  ASSUME NEW f, NEW S PROVE TotalOf(f, S) = SumFn(f, S)[S]
BY DEF TotalOf, MapThenSumSet, MapThenFoldSet, First, SumFn, IsSum

(* A non-empty family of subsets of a finite set has a member none of      *)
(* whose proper subsets belongs to it: induction over finite sets, in the  *)
(* form the provers can use.                                               *)
LEMMA Smallest ==
  ASSUME NEW S, IsFiniteSet(S), NEW Bad, Bad \subseteq SUBSET S, Bad # {}
  PROVE  \E m \in Bad : \A t \in SUBSET m : t # m => t \notin Bad
<1>1. IsWellFoundedOn(StrictSubsetOrdering(S), SUBSET S)
  BY FS_StrictSubsetOrderingWellFounded, FS_FiniteSubsetsOfFinite
<1>2. PICK m \in Bad : \A t \in Bad : <<t, m>> \notin StrictSubsetOrdering(S)
  BY <1>1, WFMin
<1>3. ASSUME NEW t \in SUBSET m, t # m, t \in Bad PROVE FALSE
  BY <1>2, <1>3 DEF StrictSubsetOrdering
<1> QED BY <1>2, <1>3

(* Two such functions agree wherever the summands do.                      *)
LEMMA SumsAgree ==
  ASSUME NEW S, IsFiniteSet(S), NEW T \in SUBSET S, NEW f, NEW e,
         \A x \in T : f[x] = e[x],
         NEW g, IsSum(f, S, g), NEW h, IsSum(e, T, h)
  PROVE  \A s \in SUBSET T : g[s] = h[s]
<1> DEFINE Bad == {s \in SUBSET T : g[s] # h[s]}
<1> SUFFICES ASSUME Bad # {} PROVE FALSE
  OBVIOUS
<1>0. IsFiniteSet(T)
  BY FS_Subset
<1>1. PICK m \in Bad : \A t \in SUBSET m : t # m => t \notin Bad
  <2>1. Bad \subseteq SUBSET T
    OBVIOUS
  <2> HIDE DEF Bad
  <2> QED BY <1>0, <2>1, Smallest
<1>2. g[m] = IF m = {} THEN 0 ELSE f[First(m)] + g[m \ {First(m)}]
  BY DEF IsSum
<1>3. h[m] = IF m = {} THEN 0 ELSE e[First(m)] + h[m \ {First(m)}]
  BY DEF IsSum
<1>4. m # {} => f[First(m)] = e[First(m)]
  BY FirstIn
<1>5. m # {} => g[m \ {First(m)}] = h[m \ {First(m)}]
  BY <1>1, FirstIn
<1> QED BY <1>2, <1>3, <1>4, <1>5

(* There is such a function for every finite set.                          *)
LEMMA SumExists ==
  ASSUME NEW S, IsFiniteSet(S), NEW f
  PROVE  IsSum(f, S, SumFn(f, S))
<1> DEFINE Bad == {s \in SUBSET S : ~ \E g : IsSum(f, s, g)}
<1>1. ASSUME NEW m \in SUBSET S, \A t \in SUBSET m : t # m => t \notin Bad
      PROVE  \E g : IsSum(f, m, g)
  <2> DEFINE V(t) == SumFn(f, t)[t]
             G == [t \in SUBSET m |-> IF t = {} THEN 0
                                      ELSE f[First(t)] + V(t \ {First(t)})]
  <2>1. ASSUME NEW t \in SUBSET m, t # m PROVE IsSum(f, t, SumFn(f, t))
    <3>1. \E g : IsSum(f, t, g)
      BY <1>1, <2>1
    <3> QED BY <3>1 DEF SumFn
  <2>2. ASSUME NEW u \in SUBSET m, u # m PROVE G[u] = V(u)
    <3>1. IsSum(f, u, SumFn(f, u))
      BY <2>1, <2>2
    <3>2. V(u) = IF u = {} THEN 0
                 ELSE f[First(u)] + SumFn(f, u)[u \ {First(u)}]
      BY <3>1, Zenon DEF IsSum
    <3>3. CASE u = {}
      BY <3>2, <3>3
    <3>4. CASE u # {}
      <4> DEFINE w == u \ {First(u)}
      <4>1. w \in SUBSET u /\ w # m
        BY <2>2, <3>4, FirstIn
      <4>2. IsSum(f, w, SumFn(f, w))
        BY <2>1, <4>1
      <4>3. IsFiniteSet(u)
        BY FS_Subset
      <4>4. SumFn(f, u)[w] = V(w)
        <5>1. w \in SUBSET w
          OBVIOUS
        <5> HIDE DEF w
        <5> QED BY <3>1, <4>1, <4>2, <4>3, <5>1, SumsAgree
      <4> QED BY <3>2, <3>4, <4>4
    <3> QED BY <3>3, <3>4
  <2>3. ASSUME NEW t \in SUBSET m, t # {}
        PROVE  G[t \ {First(t)}] = V(t \ {First(t)})
    BY <2>2, <2>3, FirstIn
  <2>4. IsSum(f, m, G)
    BY <2>3 DEF IsSum
  <2> QED BY <2>4
<1>2. Bad = {}
  <2> SUFFICES ASSUME Bad # {} PROVE FALSE
    OBVIOUS
  <2>1. PICK m \in Bad : \A t \in SUBSET m : t # m => t \notin Bad
    <3>1. Bad \subseteq SUBSET S
      OBVIOUS
    <3> HIDE DEF Bad
    <3> QED BY <3>1, Smallest
  <2> QED BY <1>1, <2>1
<1>3. \E g : IsSum(f, S, g)
  BY <1>2
<1> QED BY <1>3 DEF SumFn

(* The sum over no elements is zero.                                       *)
LEMMA TotalOfNone == ASSUME NEW f PROVE TotalOf(f, {}) = 0
<1>1. IsSum(f, {}, SumFn(f, {}))
  BY SumExists, FS_EmptySet
<1> QED BY <1>1, TotalIsFold DEF IsSum

(* The sum removes the element its definition chooses ...                  *)
LEMMA TotalOfFirst ==
  ASSUME NEW f, NEW S, IsFiniteSet(S), S # {}
  PROVE  TotalOf(f, S) = f[First(S)] + TotalOf(f, S \ {First(S)})
<1> DEFINE R == S \ {First(S)}
<1>1. IsSum(f, S, SumFn(f, S))
  BY SumExists
<1>2. IsFiniteSet(R)
  BY FS_Subset
<1>3. IsSum(f, R, SumFn(f, R))
  BY <1>2, SumExists
<1>4. SumFn(f, S)[R] = SumFn(f, R)[R]
  BY <1>1, <1>3, SumsAgree
<1>5. SumFn(f, S)[S] = f[First(S)] + SumFn(f, S)[R]
  BY <1>1, Zenon DEF IsSum
<1> QED BY <1>4, <1>5, TotalIsFold

(* Sums of equal summands are equal.                                       *)
LEMMA TotalsAgree ==
  ASSUME NEW S, IsFiniteSet(S), NEW f, NEW g, \A x \in S : f[x] = g[x]
  PROVE  TotalOf(f, S) = TotalOf(g, S)
<1>1. IsSum(f, S, SumFn(f, S)) /\ IsSum(g, S, SumFn(g, S))
  BY SumExists
<1>2. \A s \in SUBSET S : SumFn(f, S)[s] = SumFn(g, S)[s]
  BY <1>1, SumsAgree
<1> QED BY <1>2, TotalIsFold

(* A sum of integers is an integer, one of natural numbers a natural       *)
(* number.                                                                 *)
LEMMA TotalOfInt ==
  ASSUME NEW S, IsFiniteSet(S), NEW f, \A x \in S : f[x] \in Int
  PROVE  TotalOf(f, S) \in Int
<1> DEFINE Bad == {s \in SUBSET S : TotalOf(f, s) \notin Int}
<1> SUFFICES ASSUME Bad # {} PROVE FALSE
  OBVIOUS
<1>1. PICK m \in Bad : \A t \in SUBSET m : t # m => t \notin Bad
  <2>1. Bad \subseteq SUBSET S
    OBVIOUS
  <2> HIDE DEF Bad
  <2> QED BY <2>1, Smallest
<1>2. m # {}
  BY TotalOfNone
<1>3. IsFiniteSet(m)
  BY FS_Subset
<1>4. TotalOf(f, m) = f[First(m)] + TotalOf(f, m \ {First(m)})
  BY <1>2, <1>3, TotalOfFirst
<1>5. TotalOf(f, m \ {First(m)}) \in Int
  BY <1>1, <1>2, FirstIn
<1> QED BY <1>2, <1>4, <1>5, FirstIn

LEMMA TotalOfNat ==
  ASSUME NEW S, IsFiniteSet(S), NEW f, \A x \in S : f[x] \in Nat
  PROVE  TotalOf(f, S) \in Nat
<1> DEFINE Bad == {s \in SUBSET S : TotalOf(f, s) \notin Nat}
<1> SUFFICES ASSUME Bad # {} PROVE FALSE
  OBVIOUS
<1>1. PICK m \in Bad : \A t \in SUBSET m : t # m => t \notin Bad
  <2>1. Bad \subseteq SUBSET S
    OBVIOUS
  <2> HIDE DEF Bad
  <2> QED BY <2>1, Smallest
<1>2. m # {}
  BY TotalOfNone
<1>3. IsFiniteSet(m)
  BY FS_Subset
<1>4. TotalOf(f, m) = f[First(m)] + TotalOf(f, m \ {First(m)})
  BY <1>2, <1>3, TotalOfFirst
<1>5. TotalOf(f, m \ {First(m)}) \in Nat
  BY <1>1, <1>2, FirstIn
<1> QED BY <1>2, <1>4, <1>5, FirstIn

(* ... and might as well remove any other: the order does not matter.      *)
LEMMA TotalOfOne ==
  ASSUME NEW S, IsFiniteSet(S), NEW f, \A x \in S : f[x] \in Int, NEW x \in S
  PROVE  TotalOf(f, S) = f[x] + TotalOf(f, S \ {x})
<1> DEFINE Bad == {s \in SUBSET S :
              \E y \in s : TotalOf(f, s) # f[y] + TotalOf(f, s \ {y})}
<1> SUFFICES ASSUME Bad # {} PROVE FALSE
  OBVIOUS
<1>1. PICK m \in Bad : \A t \in SUBSET m : t # m => t \notin Bad
  <2>1. Bad \subseteq SUBSET S
    OBVIOUS
  <2> HIDE DEF Bad
  <2> QED BY <2>1, Smallest
<1>2. PICK y \in m : TotalOf(f, m) # f[y] + TotalOf(f, m \ {y})
  OBVIOUS
<1> DEFINE c == First(m)
<1>3. c \in m
  BY FirstIn
<1>4. IsFiniteSet(m) /\ IsFiniteSet(m \ {c}) /\ IsFiniteSet(m \ {y})
  BY FS_Subset
<1>5. TotalOf(f, m) = f[c] + TotalOf(f, m \ {c})
  BY <1>2, <1>4, TotalOfFirst
<1>6. c # y
  BY <1>2, <1>5
<1> HIDE DEF c
<1>7. m \ {c} \notin Bad /\ m \ {y} \notin Bad
  BY <1>1, <1>2, <1>3
<1>8. TotalOf(f, m \ {c}) = f[y] + TotalOf(f, (m \ {c}) \ {y})
  BY <1>2, <1>6, <1>7
<1>9. TotalOf(f, m \ {y}) = f[c] + TotalOf(f, (m \ {y}) \ {c})
  BY <1>3, <1>6, <1>7
<1>10. (m \ {c}) \ {y} = (m \ {y}) \ {c}
  OBVIOUS
<1>11. TotalOf(f, (m \ {c}) \ {y}) \in Int /\ f[c] \in Int /\ f[y] \in Int
  <2>1. IsFiniteSet((m \ {c}) \ {y})
    BY <1>4, FS_Subset
  <2> QED BY <1>2, <1>3, <2>1, TotalOfInt
<1> DEFINE tm == TotalOf(f, m)
           tc == TotalOf(f, m \ {c})
           ty == TotalOf(f, m \ {y})
           tcy == TotalOf(f, (m \ {c}) \ {y})
<1>12. /\ tm = f[c] + tc /\ tc = f[y] + tcy /\ ty = f[c] + tcy
       /\ tcy \in Int /\ f[c] \in Int /\ f[y] \in Int
  BY <1>5, <1>8, <1>9, <1>10, <1>11
<1>13. tm # f[y] + ty
  BY <1>2
<1> HIDE DEF tm, tc, ty, tcy
<1> QED BY <1>12, <1>13

(* A set that grows by one element adds one summand. *)
LEMMA TotalGrows ==
    ASSUME NEW S, IsFiniteSet(S), NEW x, x \notin S, NEW f, NEW g,
           \A y \in S : f[y] = g[y], \A y \in S \cup {x} : g[y] \in Int
    PROVE  TotalOf(g, S \cup {x}) = TotalOf(f, S) + g[x]
<1> DEFINE T == S \cup {x}
<1>1. IsFiniteSet(T) /\ x \in T /\ T \ {x} = S
  BY FS_AddElement
<1>2. \A y \in T : g[y] \in Int
  OBVIOUS
<1> HIDE DEF T
<1>3. TotalOf(g, T) = g[x] + TotalOf(g, S)
  BY <1>1, <1>2, TotalOfOne
<1>4. TotalOf(g, S) = TotalOf(f, S)
  BY TotalsAgree
<1>5. TotalOf(g, S) \in Int /\ g[x] \in Int
  BY <1>1, <1>2, TotalOfInt
<1> QED BY <1>3, <1>4, <1>5 DEF T

(* One summand that changes changes the sum by as much; the rest of the    *)
(* sum is a natural number when the summands are.                          *)
LEMMA TotalChanges ==
    ASSUME NEW S, IsFiniteSet(S), NEW x \in S, NEW f, NEW g,
           \A y \in S : f[y] \in Nat /\ g[y] \in Nat,
           \A y \in S \ {x} : f[y] = g[y]
    PROVE  \E rest \in Nat : /\ TotalOf(f, S) = rest + f[x]
                             /\ TotalOf(g, S) = rest + g[x]
<1> DEFINE R == S \ {x}
<1>1. IsFiniteSet(R)
  BY FS_Subset
<1>2. TotalOf(f, S) = f[x] + TotalOf(f, R)
  BY TotalOfOne
<1>3. TotalOf(g, S) = g[x] + TotalOf(g, R)
  BY TotalOfOne
<1>4. TotalOf(g, R) = TotalOf(f, R) /\ TotalOf(f, R) \in Nat
  BY <1>1, TotalsAgree, TotalOfNat
<1> QED BY <1>2, <1>3, <1>4

(* Sums add up and compare element by element. *)
LEMMA TotalAdds ==
    ASSUME NEW S, IsFiniteSet(S), NEW f, NEW g, NEW h,
           \A x \in S : f[x] \in Int /\ g[x] \in Int /\ h[x] = f[x] + g[x]
    PROVE  TotalOf(h, S) = TotalOf(f, S) + TotalOf(g, S)
<1> DEFINE Bad == {s \in SUBSET S :
                     TotalOf(h, s) # TotalOf(f, s) + TotalOf(g, s)}
<1> SUFFICES ASSUME Bad # {} PROVE FALSE
  OBVIOUS
<1>1. PICK m \in Bad : \A t \in SUBSET m : t # m => t \notin Bad
  <2>1. Bad \subseteq SUBSET S
    OBVIOUS
  <2> HIDE DEF Bad
  <2> QED BY <2>1, Smallest
<1>2. m # {}
  <2>1. \A e : TotalOf(e, {}) = 0
    BY TotalOfNone
  <2>2. {} \notin Bad
    BY <2>1
  <2> QED BY <2>2
<1> DEFINE c == First(m)
           R == m \ {c}
<1>3. IsFiniteSet(m) /\ IsFiniteSet(R) /\ c \in m
  BY <1>2, FS_Subset, FirstIn
<1>4. /\ TotalOf(f, m) = f[c] + TotalOf(f, R)
      /\ TotalOf(g, m) = g[c] + TotalOf(g, R)
      /\ TotalOf(h, m) = h[c] + TotalOf(h, R)
  BY <1>2, <1>3, TotalOfFirst
<1>5. TotalOf(h, R) = TotalOf(f, R) + TotalOf(g, R)
  BY <1>1, <1>3
<1>6. /\ TotalOf(f, R) \in Int /\ TotalOf(g, R) \in Int
      /\ f[c] \in Int /\ g[c] \in Int /\ h[c] = f[c] + g[c]
  BY <1>3, TotalOfInt
<1>7. TotalOf(h, m) # TotalOf(f, m) + TotalOf(g, m)
  OBVIOUS
<1> HIDE DEF c, R
<1> QED BY <1>4, <1>5, <1>6, <1>7

LEMMA TotalMonotone ==
    ASSUME NEW S, IsFiniteSet(S), NEW f, NEW g,
           \A x \in S : f[x] \in Int /\ g[x] \in Int /\ f[x] <= g[x]
    PROVE  TotalOf(f, S) <= TotalOf(g, S)
<1> DEFINE d == [x \in S |-> g[x] - f[x]]
<1>1. \A x \in S : d[x] \in Nat /\ g[x] = f[x] + d[x]
  OBVIOUS
<1> HIDE DEF d
<1>2. TotalOf(g, S) = TotalOf(f, S) + TotalOf(d, S)
  BY <1>1, TotalAdds
<1>3. TotalOf(f, S) \in Int /\ TotalOf(d, S) \in Nat
  BY <1>1, TotalOfInt, TotalOfNat
<1> QED BY <1>2, <1>3

(* The sum over a part is the sum over the whole of what is zero elsewhere. *)
LEMMA TotalOfPart ==
    ASSUME NEW S, IsFiniteSet(S), NEW A \in SUBSET S, NEW f, NEW g,
           \A x \in S : f[x] \in Int /\ g[x] = IF x \in A THEN f[x] ELSE 0
    PROVE  TotalOf(g, S) = TotalOf(f, A)
<1> DEFINE Bad == {s \in SUBSET S : TotalOf(g, s) # TotalOf(f, A \cap s)}
<1>0. Bad = {} => TotalOf(g, S) = TotalOf(f, A)
  <2>1. A \cap S = A /\ S \in SUBSET S
    OBVIOUS
  <2> QED BY <2>1
<1> SUFFICES ASSUME Bad # {} PROVE FALSE
  BY <1>0
<1>1. PICK m \in Bad : \A t \in SUBSET m : t # m => t \notin Bad
  <2>1. Bad \subseteq SUBSET S
    OBVIOUS
  <2> HIDE DEF Bad
  <2> QED BY <2>1, Smallest
<1>2. m # {}
  <2>1. A \cap {} = {}
    OBVIOUS
  <2> QED BY <2>1, TotalOfNone
<1> DEFINE c == First(m)
           R == m \ {c}
<1>3. /\ IsFiniteSet(m) /\ IsFiniteSet(R) /\ c \in m
      /\ IsFiniteSet(A \cap m) /\ IsFiniteSet(A \cap R)
  BY <1>2, FS_Subset, FirstIn
<1>4. TotalOf(g, m) = g[c] + TotalOf(g, R)
  BY <1>2, <1>3, TotalOfFirst
<1>5. TotalOf(g, R) = TotalOf(f, A \cap R)
  BY <1>1, <1>3
<1>6. TotalOf(f, A \cap R) \in Int /\ f[c] \in Int
  BY <1>3, TotalOfInt
<1>7. TotalOf(g, m) # TotalOf(f, A \cap m)
  OBVIOUS
<1>8. CASE c \in A
  <2>1. (A \cap m) \ {c} = A \cap R /\ c \in A \cap m
    BY <1>3, <1>8
  <2>2. TotalOf(f, A \cap m) = f[c] + TotalOf(f, (A \cap m) \ {c})
    <3>1. \A x \in A \cap m : f[x] \in Int
      OBVIOUS
    <3> QED BY <1>3, <2>1, <3>1, TotalOfOne
  <2>3. g[c] = f[c]
    BY <1>3, <1>8
  <2>4. /\ TotalOf(f, A \cap m) = f[c] + TotalOf(f, A \cap R)
        /\ TotalOf(g, m) = f[c] + TotalOf(f, A \cap R)
    BY <1>4, <1>5, <2>1, <2>2, <2>3
  <2> QED BY <1>7, <2>4
<1>9. CASE c \notin A
  <2>1. A \cap m = A \cap R
    BY <1>9
  <2>2. g[c] = 0
    BY <1>3, <1>9
  <2>3. TotalOf(f, A \cap m) = TotalOf(f, A \cap R)
    BY <2>1
  <2>4. TotalOf(g, m) = 0 + TotalOf(f, A \cap R)
    BY <1>4, <1>5, <2>2
  <2>5. TotalOf(g, m) = TotalOf(f, A \cap R)
    BY <1>6, <2>4
  <2> QED BY <1>7, <2>3, <2>5
<1> QED BY <1>8, <1>9

-----------------------------------------------------------------------------
(* The ceilings the run derives from its tier are natural numbers. *)
LEMMA CeilingsAreNat ==
    MaxProviderCalls \in Nat /\ MaxReviewCalls \in Nat
BY BudgetAssumption
   DEF BudgetAssumption, MaxProviderCalls, MaxReviewCalls,
       ReviewCallBudget, Smaller, Larger

(* A price list gives every request a cost that is a natural number. *)
LEMMA AmountsOfType ==
    ASSUME NEW mdl \in Model, NEW tokens \in Counts
    PROVE  AmountsOf(mdl, tokens) \in Amounts
<1>1. Cost(mdl, tokens) \in Nat
  <2>1. CASE Rate[mdl] = Unpriced
    BY <2>1 DEF Cost
  <2>2. CASE Rate[mdl] # Unpriced
    <3>1. Rate[mdl] \in Counts
      BY <2>2, BudgetAssumption DEF BudgetAssumption
    <3>2. \A a, b \in Nat : a * b \in Nat
      OBVIOUS
    <3> DEFINE i == Rate[mdl]["input_tokens"] * tokens["input_tokens"]
               o == Rate[mdl]["output_tokens"] * tokens["output_tokens"]
    <3>3. i \in Nat /\ o \in Nat
      BY <3>1, <3>2 DEF Counts, Token
    <3>4. Cost(mdl, tokens) = i + o
      BY <2>2 DEF Cost
    <3> QED BY <3>3, <3>4
  <2> QED BY <2>1, <2>2
<1> QED
  BY <1>1 DEF AmountsOf, Amounts, Meter, Counts, Token

(* Replacing an estimate by an actual amount leaves amounts natural. *)
LEMMA ReplacedType ==
    ASSUME NEW amounts \in Amounts, NEW estimated \in Amounts,
           NEW actual \in Amounts
    PROVE  Replaced(amounts, estimated, actual) \in Amounts
BY DEF Replaced, Amounts, Larger

(* What Grant knows of the ceilings. *)
LEMMA GrantFits ==
    ASSUME NEW q \in Request, PassesAllChecks(q), TypeOK
    PROVE  /\ providerCalls + 1 <= MaxProviderCalls
           /\ ~q.verification => reviewCalls + 1 <= MaxReviewCalls
           /\ q.is_retry => retryAttempts + 1 <= MaxRetries
           /\ \A m \in Meter :
                Limit[m] # NoLimit =>
                    used[m] + AmountsOf(q.model, q.tokens)[m] <= Limit[m]
<1> USE CeilingsAreNat, BudgetAssumption
<1>1. /\ ~Fails("max_provider_calls", q)
      /\ ~Fails("review_phase", q)
      /\ ~Fails("max_retry_attempts", q)
      /\ ~Fails("max_input_tokens", q)
      /\ ~Fails("max_output_tokens", q)
      /\ ~Fails("max_estimated_cost", q)
  BY DEF PassesAllChecks, CheckOrder
<1>2. providerCalls + 1 <= MaxProviderCalls
  BY <1>1 DEF Fails, TypeOK
<1>3. ~q.verification => reviewCalls + 1 <= MaxReviewCalls
  BY <1>1 DEF Fails, TypeOK, ReviewPhaseFull
<1>4. q.is_retry => retryAttempts + 1 <= MaxRetries
  BY <1>1 DEF Fails, TypeOK, BudgetAssumption
<1>5. ASSUME NEW m \in Meter, Limit[m] # NoLimit
      PROVE  used[m] + AmountsOf(q.model, q.tokens)[m] <= Limit[m]
  <2> DEFINE amounts == AmountsOf(q.model, q.tokens)
  <2>1. ~Passes(m, amounts[m])
    BY <1>1 DEF Fails, AmountsOf, Meter, Token
  <2>2. amounts \in Amounts
    BY AmountsOfType DEF Request
  <2>3. used[m] \in Nat /\ amounts[m] \in Nat /\ Limit[m] \in Nat
    BY <1>5, <2>2 DEF TypeOK, Amounts, BudgetAssumption
  <2> HIDE DEF amounts
  <2>4. used[m] + amounts[m] <= Limit[m]
    BY <2>1, <2>3, <1>5 DEF Passes
  <2> QED BY <2>4 DEF amounts
<1> QED BY <1>2, <1>3, <1>4, <1>5

-----------------------------------------------------------------------------
(* Besides its conjuncts that are claims of their own, the invariant needs *)
(* to know when the ledger gives a lack of calls as its reason.            *)
OutOfCalls ==
    /\ reviewCalls <= providerCalls
    /\ terminationReason = "max_provider_calls" => providerCalls >= MaxProviderCalls
    /\ reviewPhaseDenied # NoReason => reviewCalls >= MaxReviewCalls

IInv == TypeOK /\ CeilingHeld /\ RefusalIsReported /\ OutOfCalls

LEMMA InitIInv == Init => IInv
<1> SUFFICES ASSUME Init PROVE IInv
  OBVIOUS
<1> USE CeilingsAreNat, BudgetAssumption DEF BudgetAssumption
<1>1. TypeOK
  BY DEF Init, TypeOK, Nothing, Amounts, CallState, BudgetTerminationReason
<1>2. CeilingHeld
  BY DEF Init, CeilingHeld, Nothing
<1>3. RefusalIsReported /\ OutOfCalls
  BY DEF Init, RefusalIsReported, OutOfCalls, NoReason
<1> QED BY <1>1, <1>2, <1>3 DEF IInv

(* A refusal touches the reasons and the refused call, nothing else. *)
LEMMA RefusalKeepsIInv ==
    ASSUME IInv, NEW c \in Call, NEW q \in Request,
           \/ RefuseTerminated(c, q)
           \/ Deny(c, q)
           \/ DenyReviewPhase(c, q)
    PROVE  IInv'
<1> USE CeilingsAreNat
<1>0. TypeOK /\ CeilingHeld /\ OutOfCalls
  BY DEF IInv
<1>1. /\ UNCHANGED <<counterVars, used, byModel, elapsed, charge, overrun>>
      /\ callState' = [callState EXCEPT ![c] = "refused"]
      /\ request' = [request EXCEPT ![c] = q]
  BY DEF RefuseTerminated, Deny, DenyReviewPhase, Refused
<1>2. /\ terminationReason' \in BudgetTerminationReason \cup {NoReason}
      /\ reviewPhaseDenied' \in {NoReason, "max_provider_calls"}
  BY <1>0 DEF RefuseTerminated, Deny, DenyReviewPhase, TypeOK, reasonVars
<1>3. TypeOK'
  BY <1>0, <1>1, <1>2 DEF TypeOK, counterVars, CallState
<1>4. CeilingHeld'
  BY <1>0, <1>1 DEF CeilingHeld, counterVars
<1>5. RefusalIsReported'
  BY <1>0 DEF RefuseTerminated, Deny, DenyReviewPhase, RefusalIsReported,
              ReportedReason, reasonVars, NoReason, BudgetTerminationReason
<1>6. OutOfCalls'
  <2>1. UNCHANGED <<providerCalls, reviewCalls>> /\ TypeOK
    BY <1>0, <1>1 DEF counterVars
  <2>2. CASE Deny(c, q)
    <3>1. PICK reason \in BudgetTerminationReason :
            FailsFirst(q, reason) /\ terminationReason' = reason
      BY <2>2 DEF Deny
    <3>2. reason = "max_provider_calls" =>
            providerCalls + 1 > MaxProviderCalls
      BY <3>1 DEF FailsFirst, Fails
    <3>3. reviewPhaseDenied' = reviewPhaseDenied
      BY <2>2 DEF Deny
    <3> QED BY <3>1, <3>2, <3>3, <1>0, <2>1 DEF OutOfCalls, TypeOK
  <2>3. CASE DenyReviewPhase(c, q)
    <3>1. reviewCalls + 1 > MaxReviewCalls
      BY <2>3 DEF DenyReviewPhase, FailsFirst, Fails, ReviewPhaseFull
    <3>2. terminationReason' = terminationReason
      BY <2>3 DEF DenyReviewPhase
    <3> QED BY <1>0, <2>1, <3>1, <3>2 DEF OutOfCalls, TypeOK
  <2>4. CASE RefuseTerminated(c, q)
    BY <1>0, <2>1, <2>4 DEF RefuseTerminated, OutOfCalls, reasonVars
  <2> QED BY <2>2, <2>3, <2>4
<1> QED BY <1>3, <1>4, <1>5, <1>6 DEF IInv

LEMMA GrantKeepsIInv ==
    ASSUME IInv, NEW c \in Call, NEW q \in Request, Grant(c, q)
    PROVE  IInv'
<1> USE CeilingsAreNat
<1> DEFINE amounts == AmountsOf(q.model, q.tokens)
<1>0. TypeOK /\ CeilingHeld /\ RefusalIsReported /\ OutOfCalls
  BY DEF IInv
<1>1. amounts \in Amounts
  BY AmountsOfType DEF Request
<1>2. /\ providerCalls' = providerCalls + 1
      /\ reviewCalls' = reviewCalls + (IF q.verification THEN 0 ELSE 1)
      /\ retryAttempts' = retryAttempts + (IF q.is_retry THEN 1 ELSE 0)
      /\ used' = Added(used, amounts)
      /\ byModel' = [byModel EXCEPT ![q.model] = Added(@, amounts)]
      /\ callState' = [callState EXCEPT ![c] = "reserved"]
      /\ request' = [request EXCEPT ![c] = q]
      /\ charge' = [charge EXCEPT ![c] = amounts]
      /\ terminationReason = NoReason
      /\ UNCHANGED <<terminationReason, reviewPhaseDenied, elapsed, overrun>>
  BY DEF Grant, reasonVars
<1>3. /\ providerCalls + 1 <= MaxProviderCalls
      /\ ~q.verification => reviewCalls + 1 <= MaxReviewCalls
      /\ q.is_retry => retryAttempts + 1 <= MaxRetries
      /\ \A m \in Meter :
           Limit[m] # NoLimit => used[m] + amounts[m] <= Limit[m]
  <2>1. PassesAllChecks(q)
    BY DEF Grant
  <2> QED BY <1>0, <2>1, GrantFits
<1> HIDE DEF amounts
<1>4. TypeOK'
  <2>1. \A a \in Amounts : Added(a, amounts) \in Amounts
    BY <1>1 DEF Added, Amounts
  <2>2. used' \in Amounts /\ byModel' \in [Model -> Amounts]
    BY <1>0, <1>2, <2>1 DEF TypeOK, Request
  <2>3. /\ providerCalls' \in Nat /\ reviewCalls' \in Nat
        /\ retryAttempts' \in Nat
    BY <1>0, <1>2 DEF TypeOK
  <2>4. /\ callState' \in [Call -> CallState]
        /\ request' \in [Call -> Request \cup {NoRequest}]
        /\ \A d \in Call : callState'[d] # "unused" => request'[d] \in Request
        /\ charge' \in [Call -> Amounts]
    BY <1>0, <1>1, <1>2 DEF TypeOK, CallState
  <2> QED BY <1>0, <1>2, <2>2, <2>3, <2>4 DEF TypeOK
<1>5. CeilingHeld'
  <2>1. ASSUME NEW m \in Meter, Limit[m] # NoLimit
        PROVE  used'[m] <= Limit[m] + overrun'[m]
    <3>1. /\ used[m] \in Nat /\ amounts[m] \in Nat
          /\ overrun[m] \in Nat /\ Limit[m] \in Nat
      BY <1>0, <1>1, <2>1, BudgetAssumption
      DEF TypeOK, Amounts, BudgetAssumption
    <3>2. used'[m] = used[m] + amounts[m]
      BY <1>2 DEF Added
    <3> QED BY <1>2, <1>3, <2>1, <3>1, <3>2
  <2>2. /\ providerCalls' <= MaxProviderCalls
        /\ reviewCalls' <= MaxReviewCalls
        /\ retryAttempts' <= MaxRetries
    BY <1>0, <1>2, <1>3, BudgetAssumption
    DEF CeilingHeld, TypeOK, BudgetAssumption
  <2> QED BY <2>1, <2>2 DEF CeilingHeld
<1>6. RefusalIsReported'
  BY <1>0, <1>2 DEF RefusalIsReported, ReportedReason, TypeOK
<1>7. OutOfCalls'
  BY <1>0, <1>2 DEF OutOfCalls, NoReason, TypeOK
<1> QED BY <1>4, <1>5, <1>6, <1>7 DEF IInv

LEMMA ReconcileKeepsIInv ==
    ASSUME IInv, NEW c \in Call, NEW tokens \in Counts, Reconcile(c, tokens)
    PROVE  IInv'
<1> USE CeilingsAreNat
<1> DEFINE mdl == request[c].model
           actual == AmountsOf(mdl, tokens)
<1>0. TypeOK /\ CeilingHeld /\ RefusalIsReported /\ OutOfCalls
  BY DEF IInv
<1>1. mdl \in Model /\ actual \in Amounts
  <2>1. request[c] \in Request
    BY <1>0 DEF Reconcile, TypeOK
  <2> QED BY <2>1, AmountsOfType DEF Request
<1>2. /\ used' = Replaced(used, charge[c], actual)
      /\ byModel' = [byModel EXCEPT ![mdl] = Replaced(@, charge[c], actual)]
      /\ terminationReason' = ReasonAfter(used')
      /\ callState' = [callState EXCEPT ![c] = "settled"]
      /\ charge' = [charge EXCEPT ![c] = actual]
      /\ overrun' = [m \in Meter |->
                       overrun[m] + Larger(0, actual[m] - charge[c][m])]
      /\ UNCHANGED <<providerCalls, reviewCalls, retryAttempts,
                     reviewPhaseDenied, elapsed, request>>
  BY DEF Reconcile, counterVars
<1>3. charge[c] \in Amounts
  BY <1>0 DEF TypeOK
<1>4. callState[c] = "reserved"
  BY DEF Reconcile
<1> HIDE DEF mdl, actual
<1>5. terminationReason' = terminationReason
      \/ /\ terminationReason = NoReason
         /\ terminationReason' \in {NoReason, "max_input_tokens",
                             "max_output_tokens", "max_estimated_cost"}
  BY <1>2 DEF ReasonAfter
<1>6. TypeOK'
  <2>1. used' \in Amounts
    BY <1>0, <1>1, <1>2, <1>3, ReplacedType DEF TypeOK
  <2>2. byModel' \in [Model -> Amounts]
    <3>1. Replaced(byModel[mdl], charge[c], actual) \in Amounts
      BY <1>0, <1>1, <1>3, ReplacedType DEF TypeOK
    <3> QED BY <1>0, <1>1, <1>2, <3>1 DEF TypeOK
  <2>3. overrun' \in Amounts
    BY <1>0, <1>1, <1>2, <1>3 DEF TypeOK, Amounts, Larger
  <2>4. terminationReason' \in BudgetTerminationReason \cup {NoReason}
    BY <1>0, <1>5 DEF TypeOK, BudgetTerminationReason
  <2>5. /\ callState' \in [Call -> CallState]
        /\ charge' \in [Call -> Amounts]
        /\ \A d \in Call : callState'[d] # "unused" => request'[d] \in Request
    BY <1>0, <1>1, <1>2, <1>4 DEF TypeOK, CallState
  <2> QED BY <1>0, <1>2, <2>1, <2>2, <2>3, <2>4, <2>5 DEF TypeOK
<1>7. CeilingHeld'
  <2>1. ASSUME NEW m \in Meter, Limit[m] # NoLimit
        PROVE  used'[m] <= Limit[m] + overrun'[m]
    <3>1. /\ used[m] \in Nat /\ actual[m] \in Nat /\ charge[c][m] \in Nat
          /\ overrun[m] \in Nat /\ Limit[m] \in Nat
      BY <1>0, <1>1, <1>3, <2>1, BudgetAssumption
      DEF TypeOK, Amounts, BudgetAssumption
    <3>2. used'[m] = Larger(0, used[m] + (actual[m] - charge[c][m]))
      BY <1>2 DEF Replaced
    <3>3. overrun'[m] = overrun[m] + Larger(0, actual[m] - charge[c][m])
      BY <1>2
    <3>4. used[m] <= Limit[m] + overrun[m]
      BY <1>0, <2>1 DEF CeilingHeld
    <3> QED BY <3>1, <3>2, <3>3, <3>4 DEF Larger
  <2> QED BY <1>0, <1>2, <2>1 DEF CeilingHeld
<1>8. RefusalIsReported'
  BY <1>0, <1>2, <1>5 DEF RefusalIsReported, ReportedReason, TypeOK, NoReason
<1>9. OutOfCalls'
  BY <1>0, <1>2, <1>5 DEF OutOfCalls, NoReason
<1> QED BY <1>6, <1>7, <1>8, <1>9 DEF IInv

-----------------------------------------------------------------------------
(* The books.  Only finitely many calls have been granted at any time, and *)
(* every counter and total is a sum over some of them.                     *)
Books == IsFiniteSet(Granted) /\ LedgerExact

LEMMA ChargesGrow ==
    ASSUME NEW C \in SUBSET Call, IsFiniteSet(C), NEW c \in Call \ C,
           NEW old \in [Call -> Amounts], NEW amounts \in Amounts,
           NEW m \in Meter
    PROVE  LET new == [old EXCEPT ![c] = amounts] IN
           TotalOf([d \in C \cup {c} |-> new[d][m]], C \cup {c})
             = TotalOf([d \in C |-> old[d][m]], C) + amounts[m]
<1> DEFINE new == [old EXCEPT ![c] = amounts]
           f == [d \in C |-> old[d][m]]
           g == [d \in C \cup {c} |-> new[d][m]]
<1>1. /\ \A d \in C : f[d] = g[d]
      /\ \A d \in C \cup {c} : g[d] \in Int
      /\ g[c] = amounts[m]
  BY DEF Amounts
<1>2. c \notin C
  OBVIOUS
<1> HIDE DEF f, g
<1>3. TotalOf(g, C \cup {c}) = TotalOf(f, C) + g[c]
  <2>1. \A d \in C : f[d] = g[d]
    BY <1>1
  <2>2. \A d \in C \cup {c} : g[d] \in Int
    BY <1>1
  <2> QED BY ONLY <1>2, <2>1, <2>2, IsFiniteSet(C), TotalGrows, Zenon
<1> QED BY <1>1, <1>3 DEF f, g

LEMMA ChargesUntouched ==
    ASSUME NEW C \in SUBSET Call, IsFiniteSet(C), NEW c \in Call \ C,
           NEW old \in [Call -> Amounts], NEW amounts \in Amounts,
           NEW m \in Meter
    PROVE  LET new == [old EXCEPT ![c] = amounts] IN
           TotalOf([d \in C |-> new[d][m]], C)
             = TotalOf([d \in C |-> old[d][m]], C)
<1>1. \A d \in C : [old EXCEPT ![c] = amounts][d] = old[d]
  OBVIOUS
<1>2. [d \in C |-> [old EXCEPT ![c] = amounts][d][m]]
        = [d \in C |-> old[d][m]]
  BY <1>1
<1> QED BY <1>2

(* Replacing a charge replaces it in the sum; max(0, ...) does not act.    *)
LEMMA ChargesChange ==
    ASSUME NEW C \in SUBSET Call, IsFiniteSet(C), NEW c \in C,
           NEW old \in [Call -> Amounts], NEW amounts \in Amounts,
           NEW m \in Meter
    PROVE  LET new == [old EXCEPT ![c] = amounts] IN
           TotalOf([d \in C |-> new[d][m]], C)
             = Larger(0, TotalOf([d \in C |-> old[d][m]], C)
                           + (amounts[m] - old[c][m]))
<1> DEFINE new == [old EXCEPT ![c] = amounts]
           f == [d \in C |-> old[d][m]]
           g == [d \in C |-> new[d][m]]
<1>1. /\ \A d \in C : f[d] \in Nat /\ g[d] \in Nat
      /\ \A d \in C \ {c} : f[d] = g[d]
      /\ f[c] = old[c][m] /\ g[c] = amounts[m]
  BY DEF Amounts
<1> HIDE DEF f, g
<1>2. PICK rest \in Nat : /\ TotalOf(f, C) = rest + f[c]
                          /\ TotalOf(g, C) = rest + g[c]
  BY <1>1, TotalChanges
<1>3. TotalOf(g, C) = Larger(0, TotalOf(f, C) + (g[c] - f[c]))
  BY <1>1, <1>2 DEF Larger
<1> QED BY <1>1, <1>3 DEF f, g

LEMMA InitBooks == Init => Books
<1> SUFFICES ASSUME Init PROVE Books
  OBVIOUS
<1>1. Granted = {}
  BY DEF Init, Granted
<1>2. IsFiniteSet({}) /\ Cardinality({}) = 0
  BY FS_EmptySet
<1>3. \A m : ChargedTo({}, m) = 0
  BY TotalOfNone DEF ChargedTo
<1>4. /\ {c \in Granted : ~request[c].verification} = {}
      /\ {c \in Granted : request[c].is_retry} = {}
      /\ \A mdl : {c \in Granted : request[c].model = mdl} = {}
  BY <1>1
<1>5. /\ providerCalls = 0 /\ reviewCalls = 0 /\ retryAttempts = 0
      /\ \A m \in Meter : used[m] = 0
      /\ \A mdl \in Model, m \in Meter : byModel[mdl][m] = 0
  BY DEF Init, Nothing
<1> QED BY <1>1, <1>2, <1>3, <1>4, <1>5 DEF Books, LedgerExact

LEMMA GrantKeepsBooks ==
    ASSUME TypeOK, Books, NEW c \in Call, NEW q \in Request,
           callState[c] = "unused", Grant(c, q)
    PROVE  Books'
<1> DEFINE amounts == AmountsOf(q.model, q.tokens)
           On(mdl) == {d \in Granted : request[d].model = mdl}
<1>1. amounts \in Amounts
  BY AmountsOfType DEF Request
<1>2. /\ providerCalls' = providerCalls + 1
      /\ reviewCalls' = reviewCalls + (IF q.verification THEN 0 ELSE 1)
      /\ retryAttempts' = retryAttempts + (IF q.is_retry THEN 1 ELSE 0)
      /\ used' = Added(used, amounts)
      /\ byModel' = [byModel EXCEPT ![q.model] = Added(@, amounts)]
      /\ callState' = [callState EXCEPT ![c] = "reserved"]
      /\ request' = [request EXCEPT ![c] = q]
      /\ charge' = [charge EXCEPT ![c] = amounts]
  BY DEF Grant
<1> HIDE DEF amounts
<1>3. /\ c \notin Granted /\ Granted' = Granted \cup {c}
      /\ Granted \subseteq Call
      /\ request'[c] = q /\ \A d \in Granted : request'[d] = request[d]
      /\ charge \in [Call -> Amounts]
  BY <1>2 DEF Granted, TypeOK, CallState
<1>4. IsFiniteSet(Granted')
  BY <1>3, FS_AddElement DEF Books
<1>5. /\ providerCalls = Cardinality(Granted)
      /\ reviewCalls =
           Cardinality({d \in Granted : ~request[d].verification})
      /\ retryAttempts = Cardinality({d \in Granted : request[d].is_retry})
      /\ \A m \in Meter : used[m] = ChargedTo(Granted, m)
      /\ \A mdl \in Model, m \in Meter :
           byModel[mdl][m] = ChargedTo(On(mdl), m)
  BY DEF Books, LedgerExact
<1>6. providerCalls' = Cardinality(Granted')
  BY <1>2, <1>3, <1>5, FS_AddElement DEF Books
<1>7. reviewCalls' =
        Cardinality({d \in Granted' : ~request'[d].verification})
  <2> DEFINE R == {d \in Granted : ~request[d].verification}
             N == {d \in Granted' : ~request'[d].verification}
  <2>1. N = IF q.verification THEN R ELSE R \cup {c}
    BY <1>3
  <2>2. IsFiniteSet(R) /\ c \notin R
    BY <1>3, FS_Subset DEF Books
  <2>3. Cardinality(R \cup {c}) = Cardinality(R) + 1
    BY <2>2, FS_AddElement
  <2>4. reviewCalls = Cardinality(R) /\ reviewCalls \in Nat
    BY <1>5 DEF TypeOK
  <2> HIDE DEF R, N
  <2>5. reviewCalls' = Cardinality(N)
    BY <1>2, <2>1, <2>3, <2>4
  <2> QED BY <2>5 DEF N
<1>8. retryAttempts' = Cardinality({d \in Granted' : request'[d].is_retry})
  <2> DEFINE R == {d \in Granted : request[d].is_retry}
             N == {d \in Granted' : request'[d].is_retry}
  <2>1. N = IF q.is_retry THEN R \cup {c} ELSE R
    BY <1>3
  <2>2. IsFiniteSet(R) /\ c \notin R
    BY <1>3, FS_Subset DEF Books
  <2>3. Cardinality(R \cup {c}) = Cardinality(R) + 1
    BY <2>2, FS_AddElement
  <2>4. retryAttempts = Cardinality(R) /\ retryAttempts \in Nat
    BY <1>5 DEF TypeOK
  <2> HIDE DEF R, N
  <2>5. retryAttempts' = Cardinality(N)
    BY <1>2, <2>1, <2>3, <2>4
  <2> QED BY <2>5 DEF N
<1>9. ASSUME NEW m \in Meter PROVE used'[m] = ChargedTo(Granted, m)'
  <2>1. used'[m] = ChargedTo(Granted, m) + amounts[m]
    BY <1>2, <1>5 DEF Added
  <2>2. IsFiniteSet(Granted) /\ Granted \in SUBSET Call /\ c \in Call \ Granted
    BY <1>3 DEF Books
  <2> DEFINE new == [charge EXCEPT ![c] = amounts]
  <2>3. TotalOf([d \in Granted \cup {c} |-> new[d][m]], Granted \cup {c})
          = TotalOf([d \in Granted |-> charge[d][m]], Granted) + amounts[m]
    BY <1>1, <1>3, <2>2, ChargesGrow
  <2>4. charge' = new /\ Granted' = Granted \cup {c}
    BY <1>2, <1>3
  <2> QED BY <2>1, <2>3, <2>4 DEF ChargedTo
<1>10. ASSUME NEW mdl \in Model, NEW m \in Meter
       PROVE  byModel'[mdl][m] = ChargedTo(On(mdl), m)'
  <2>1. IsFiniteSet(On(mdl)) /\ c \notin On(mdl) /\ On(mdl) \in SUBSET Call
    BY <1>3, FS_Subset DEF Books
  <2>2. byModel[mdl][m] = ChargedTo(On(mdl), m)
    BY <1>5
  <2>3. CASE mdl = q.model
    <3>1. On(mdl)' = On(mdl) \cup {c}
      BY <1>3, <2>3
    <3>2. byModel'[mdl][m] = ChargedTo(On(mdl), m) + amounts[m]
      BY <1>2, <2>2, <2>3 DEF Added, TypeOK
    <3> HIDE DEF On
    <3> DEFINE C == On(mdl)
               new == [charge EXCEPT ![c] = amounts]
    <3>4. C \in SUBSET Call /\ IsFiniteSet(C) /\ c \in Call \ C
      BY <2>1
    <3>3. TotalOf([d \in C \cup {c} |-> new[d][m]], C \cup {c})
            = TotalOf([d \in C |-> charge[d][m]], C) + amounts[m]
      <4> HIDE DEF C
      <4> QED BY <1>1, <1>3, <3>4, ChargesGrow
    <3> QED BY <1>2, <3>1, <3>2, <3>3 DEF ChargedTo
  <2>4. CASE mdl # q.model
    <3>1. On(mdl)' = On(mdl)
      BY <1>3, <2>4
    <3>2. byModel'[mdl][m] = ChargedTo(On(mdl), m)
      BY <1>2, <2>2, <2>4 DEF TypeOK
    <3> HIDE DEF On
    <3> DEFINE C == On(mdl)
               new == [charge EXCEPT ![c] = amounts]
    <3>3. TotalOf([d \in C |-> new[d][m]], C)
            = TotalOf([d \in C |-> charge[d][m]], C)
      BY <1>1, <1>3, <2>1, ChargesUntouched
    <3> QED BY <1>2, <3>1, <3>2, <3>3 DEF ChargedTo
  <2> QED BY <2>3, <2>4
<1> QED BY <1>4, <1>6, <1>7, <1>8, <1>9, <1>10 DEF Books, LedgerExact

LEMMA ReconcileKeepsBooks ==
    ASSUME TypeOK, Books, NEW c \in Call, NEW tokens \in Counts,
           Reconcile(c, tokens)
    PROVE  Books'
<1> DEFINE actual == AmountsOf(request[c].model, tokens)
           On(mdl) == {d \in Granted : request[d].model = mdl}
           new == [charge EXCEPT ![c] = actual]
<1>1. request[c] \in Request /\ request[c].model \in Model
  BY DEF Reconcile, TypeOK, Request
<1>2. actual \in Amounts
  BY <1>1, AmountsOfType
<1>3. /\ used' = Replaced(used, charge[c], actual)
      /\ byModel' = [byModel EXCEPT ![request[c].model] =
                        Replaced(@, charge[c], actual)]
      /\ charge' = new
      /\ UNCHANGED <<providerCalls, reviewCalls, retryAttempts, request>>
  BY DEF Reconcile, counterVars
<1>4. /\ Granted' = Granted /\ c \in Granted /\ Granted \in SUBSET Call
      /\ charge \in [Call -> Amounts] /\ IsFiniteSet(Granted)
  BY DEF Reconcile, Granted, TypeOK, Books
<1> HIDE DEF actual
<1>5. /\ providerCalls = Cardinality(Granted)
      /\ reviewCalls =
           Cardinality({d \in Granted : ~request[d].verification})
      /\ retryAttempts = Cardinality({d \in Granted : request[d].is_retry})
      /\ \A m \in Meter : used[m] = ChargedTo(Granted, m)
      /\ \A mdl \in Model, m \in Meter :
           byModel[mdl][m] = ChargedTo(On(mdl), m)
  BY DEF Books, LedgerExact
<1>6. ASSUME NEW m \in Meter PROVE used'[m] = ChargedTo(Granted, m)'
  <2>1. used'[m] = Larger(0, ChargedTo(Granted, m) + (actual[m] - charge[c][m]))
    BY <1>3, <1>5 DEF Replaced
  <2>2. TotalOf([d \in Granted |-> new[d][m]], Granted)
          = Larger(0, TotalOf([d \in Granted |-> charge[d][m]], Granted)
                        + (actual[m] - charge[c][m]))
    BY <1>2, <1>4, ChargesChange
  <2> QED BY <1>3, <1>4, <2>1, <2>2 DEF ChargedTo
<1>7. ASSUME NEW mdl \in Model, NEW m \in Meter
      PROVE  byModel'[mdl][m] = ChargedTo(On(mdl), m)'
  <2> DEFINE C == On(mdl)
  <2>1. IsFiniteSet(C) /\ C \in SUBSET Call /\ On(mdl)' = C
    BY <1>3, <1>4, FS_Subset
  <2>2. byModel[mdl][m] = ChargedTo(C, m)
    BY <1>5
  <2>3. CASE mdl = request[c].model
    <3>1. c \in C
      BY <1>4, <2>3
    <3>2. byModel'[mdl][m] =
            Larger(0, ChargedTo(C, m) + (actual[m] - charge[c][m]))
      BY <1>3, <2>2, <2>3 DEF Replaced, TypeOK
    <3> HIDE DEF On
    <3>3. TotalOf([d \in C |-> new[d][m]], C)
            = Larger(0, TotalOf([d \in C |-> charge[d][m]], C)
                          + (actual[m] - charge[c][m]))
      <4> HIDE DEF C
      <4> QED BY <1>2, <1>4, <2>1, <3>1, ChargesChange
    <3> QED BY <1>3, <2>1, <3>2, <3>3 DEF ChargedTo
  <2>4. CASE mdl # request[c].model
    <3>1. c \notin C
      BY <2>4
    <3>2. byModel'[mdl][m] = ChargedTo(C, m)
      BY <1>3, <2>2, <2>4 DEF TypeOK
    <3> HIDE DEF On
    <3>3. TotalOf([d \in C |-> new[d][m]], C)
            = TotalOf([d \in C |-> charge[d][m]], C)
      <4> HIDE DEF C
      <4> QED BY <1>2, <1>4, <2>1, <3>1, ChargesUntouched
    <3> QED BY <1>3, <2>1, <3>2, <3>3 DEF ChargedTo
  <2> QED BY <2>3, <2>4
<1>8. /\ {d \in Granted' : ~request'[d].verification}
           = {d \in Granted : ~request[d].verification}
      /\ {d \in Granted' : request'[d].is_retry}
           = {d \in Granted : request[d].is_retry}
  BY <1>3, <1>4
<1> QED BY <1>3, <1>4, <1>5, <1>6, <1>7, <1>8 DEF Books, LedgerExact

(* Steps that grant and settle nothing leave the books alone. *)
LEMMA OthersKeepBooks ==
    ASSUME Books, Granted' = Granted,
           \A c \in Granted : request'[c] = request[c],
           UNCHANGED <<counterVars, used, byModel, charge>>
    PROVE  Books'
<1>1. /\ {d \in Granted' : ~request'[d].verification}
           = {d \in Granted : ~request[d].verification}
      /\ {d \in Granted' : request'[d].is_retry}
           = {d \in Granted : request[d].is_retry}
      /\ \A mdl \in Model : {d \in Granted' : request'[d].model = mdl}
                              = {d \in Granted : request[d].model = mdl}
  OBVIOUS
<1>2. \A m \in Meter : used'[m] = ChargedTo(Granted, m)'
  BY DEF Books, LedgerExact, ChargedTo
<1>3. ASSUME NEW mdl \in Model, NEW m \in Meter
      PROVE  byModel'[mdl][m] =
               ChargedTo({d \in Granted : request[d].model = mdl}, m)'
  <2> DEFINE C == {d \in Granted : request[d].model = mdl}
  <2>1. C' = C
    BY <1>1
  <2>2. byModel[mdl][m] = ChargedTo(C, m)
    BY DEF Books, LedgerExact
  <2> HIDE DEF C
  <2> QED BY <2>1, <2>2 DEF ChargedTo, C
<1>4. /\ providerCalls' = Cardinality(Granted')
      /\ reviewCalls' =
           Cardinality({d \in Granted' : ~request'[d].verification})
      /\ retryAttempts' =
           Cardinality({d \in Granted' : request'[d].is_retry})
  <2>1. UNCHANGED counterVars
    OBVIOUS
  <2> QED BY <1>1, <2>1 DEF Books, LedgerExact, counterVars
<1> QED BY <1>2, <1>3, <1>4 DEF Books, LedgerExact

LEMMA NextBooks == TypeOK /\ Books /\ [Next]_vars => Books'
<1> SUFFICES ASSUME TypeOK, Books, [Next]_vars PROVE Books'
  OBVIOUS
<1>1. CASE Elapse \/ Terminate \/ UNCHANGED vars
  <2>1. UNCHANGED <<counterVars, used, byModel, callVars>>
    BY <1>1 DEF Elapse, Terminate, vars
  <2> QED BY <2>1, OthersKeepBooks DEF Granted, callVars
<1>2. ASSUME NEW c \in Call, CallStep(c) PROVE Books'
  <2>1. CASE \E q \in Requests : MayAsk(q) /\ ReserveCall(c, q)
    <3>1. PICK q \in Requests : ReserveCall(c, q)
      BY <2>1
    <3>2. q \in Request
      BY BudgetAssumption DEF Requests, Request, BudgetAssumption
    <3>3. callState[c] = "unused"
      BY <3>1 DEF ReserveCall
    <3>4. CASE Grant(c, q)
      BY <3>2, <3>3, <3>4, GrantKeepsBooks
    <3>5. CASE Refused(c, q)
      <4>1. Granted' = Granted /\ c \notin Granted
        BY <3>3, <3>5 DEF Refused, Granted, TypeOK
      <4>2. \A d \in Granted : request'[d] = request[d]
        BY <3>5, <4>1 DEF Refused, TypeOK, Granted
      <4>3. UNCHANGED <<counterVars, used, byModel, charge>>
        BY <3>5 DEF Refused
      <4> QED BY <4>1, <4>2, <4>3, OthersKeepBooks
    <3> QED BY <3>1, <3>4, <3>5
        DEF ReserveCall, RefuseTerminated, Deny, DenyReviewPhase
  <2>2. CASE \E tokens \in Usage : Reconcile(c, tokens)
    BY <2>2, ReconcileKeepsBooks, BudgetAssumption DEF BudgetAssumption
  <2>3. CASE CallFails(c)
    <3>1. Granted' = Granted
      BY <2>3 DEF CallFails, Granted, TypeOK
    <3> QED BY <2>3, <3>1, OthersKeepBooks DEF CallFails
  <2> QED BY <1>2, <2>1, <2>2, <2>3 DEF CallStep
<1> QED BY <1>1, <1>2 DEF Next

-----------------------------------------------------------------------------
LEMMA NextIInv == IInv /\ [Next]_vars => IInv'
<1> SUFFICES ASSUME IInv, [Next]_vars PROVE IInv'
  OBVIOUS
<1> USE CeilingsAreNat
<1>0. TypeOK /\ CeilingHeld /\ RefusalIsReported /\ OutOfCalls
  BY DEF IInv
<1>1. CASE Elapse
  BY <1>0, <1>1 DEF Elapse, IInv, TypeOK, CeilingHeld, RefusalIsReported,
     OutOfCalls, ReportedReason, counterVars, reasonVars, callVars
<1>2. CASE Terminate
  <2>1. /\ UNCHANGED <<counterVars, used, byModel, reviewPhaseDenied,
                       elapsed, callVars>>
        /\ terminationReason' = IF terminationReason = NoReason
                                THEN "max_elapsed_time"
                                ELSE terminationReason
    BY <1>2 DEF Terminate
  <2>2. TypeOK'
    BY <1>0, <2>1 DEF TypeOK, counterVars, callVars, BudgetTerminationReason
  <2>3. CeilingHeld'
    BY <1>0, <2>1 DEF CeilingHeld, counterVars, callVars
  <2>4. RefusalIsReported' /\ OutOfCalls'
    BY <1>0, <2>1 DEF RefusalIsReported, OutOfCalls, ReportedReason,
       counterVars, callVars, NoReason
  <2> QED BY <2>2, <2>3, <2>4 DEF IInv
<1>3. ASSUME NEW c \in Call, CallStep(c) PROVE IInv'
  <2>1. CASE \E q \in Requests : MayAsk(q) /\ ReserveCall(c, q)
    <3>1. PICK q \in Requests : ReserveCall(c, q)
      BY <2>1
    <3>2. q \in Request
      BY BudgetAssumption DEF Requests, Request, BudgetAssumption
    <3> QED BY <3>1, <3>2, RefusalKeepsIInv, GrantKeepsIInv DEF ReserveCall
  <2>2. CASE \E tokens \in Usage : Reconcile(c, tokens)
    BY <2>2, ReconcileKeepsIInv, BudgetAssumption DEF BudgetAssumption
  <2>3. CASE CallFails(c)
    BY <1>0, <2>3 DEF CallFails, IInv, TypeOK, CallState, CeilingHeld,
       RefusalIsReported, OutOfCalls, ReportedReason, counterVars, reasonVars
  <2> QED BY <1>3, <2>1, <2>2, <2>3 DEF CallStep
<1>4. CASE UNCHANGED vars
  BY <1>0, <1>4 DEF vars, IInv, TypeOK, CeilingHeld, RefusalIsReported,
     OutOfCalls, ReportedReason, counterVars, reasonVars, callVars
<1> QED BY <1>1, <1>2, <1>3, <1>4 DEF Next

(* The invariant holds whatever the callers do. *)
THEOREM Invariance == Spec => []IInv
BY InitIInv, NextIInv, PTL DEF Spec

(* The types of the ledger's fields. *)
THEOREM TypeCorrect == Spec => []TypeOK
<1>1. IInv => TypeOK
  BY DEF IInv
<1> QED BY Invariance, <1>1, PTL

(* Every counter and every total the run reports is the sum of what its    *)
(* calls are charged, per meter and per model, however reservations,       *)
(* answers and failures interleave.                                        *)
THEOREM BooksAreExact == Spec => []LedgerExact
<1>1. IInv => TypeOK
  BY DEF IInv
<1>2. Books => LedgerExact
  BY DEF Books
<1> QED BY Invariance, InitBooks, NextBooks, <1>1, <1>2, PTL DEF Spec

(* No interleaving of reserve_call and reconcile passes a ceiling by more  *)
(* than providers under-reported.                                          *)
THEOREM CeilingsAreHeld == Spec => []CeilingHeld
<1>1. IInv => CeilingHeld
  BY DEF IInv
<1> QED BY Invariance, <1>1, PTL

(* A run in which the ledger refused a call has a termination reason. *)
THEOREM RefusalsAreReported == Spec => []RefusalIsReported
<1>1. IInv => RefusalIsReported
  BY DEF IInv
<1> QED BY Invariance, <1>1, PTL

(* Review-phase calls leave verification the calls reserved for it. *)
THEOREM ReserveKept == Spec => []ReserveIsKept
<1>1. IInv => ReserveIsKept
  BY CeilingsAreNat DEF IInv, OutOfCalls, CeilingHeld, ReserveIsKept, TypeOK
<1> QED BY Invariance, <1>1, PTL

=============================================================================
