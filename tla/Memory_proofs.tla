---------------------------- MODULE Memory_proofs ----------------------------
(***************************************************************************)
(* Of module Memory: the retries of a POST, for every RetryPolicy;         *)
(* chunk_text, for every text, length and overlap; what is stored, for     *)
(* every history of calls; and what is found of it.                        *)
(*                                                                         *)
(* LengthOf, ChunkText and Factor are defined by recursion up to a bound.  *)
(* Such a function exists (Recursion), because the first bound up to which *)
(* none does would be one after a bound up to which one does; and what     *)
(* holds of its values is shown in the same way, of the least argument for *)
(* which it would not (Least).                                             *)
(***************************************************************************)
EXTENDS Memory, FiniteSetTheorems, FunctionTheorems, WellFoundedInduction, TLAPS

-----------------------------------------------------------------------------
(* Recursion up to a bound, and sequences *)

\* A set of natural numbers has a least one.
LEMMA Least ==
  ASSUME NEW S \in SUBSET Nat, S # {}
  PROVE  \E m \in S : \A n \in S : m <= n
<1>1. PICK m \in S : \A n \in S : ~(<<n, m>> \in OpToRel(<, Nat))
  BY NatLessThanWellFounded, WFMin
<1>2. \A n \in S : ~(n < m)
  BY <1>1 DEF OpToRel
<1> QED BY <1>2

\* f takes n steps from base.
Runs(f, base, step, n) ==
  f[0] = base /\ \A i \in 1..n : f[i] = step[<<f[i - 1], i>>]

\* What is defined by recursion up to a bound exists.
LEMMA Recursion ==
  ASSUME NEW V, NEW n \in Nat, NEW base \in V, NEW step \in [V \X (1..n) -> V]
  PROVE  \E f \in [0..n -> V] : Runs(f, base, step, n)
<1> DEFINE Without == {m \in 0..n : ~\E f \in [0..m -> V] : Runs(f, base, step, m)}
<1>1. SUFFICES ASSUME Without # {}
               PROVE  FALSE
  BY n \in 0..n
<1>2. PICK m \in Without : \A k \in Without : m <= k
  <2>1. Without \in SUBSET Nat
    OBVIOUS
  <2> HIDE DEF Without
  <2> QED BY <1>1, <2>1, Least
<1>3. m \in 0..n /\ m \in Nat
  BY <1>2
<1>4. m # 0
  <2> DEFINE f == [i \in 0..0 |-> base]
  <2>1. f \in [0..0 -> V] /\ Runs(f, base, step, 0)
    BY DEF Runs
  <2> QED BY <1>2, <2>1
<1>5. m - 1 \in 0..n /\ m - 1 \notin Without
  <2>1. m - 1 \in 0..n /\ ~(m <= m - 1)
    BY <1>3, <1>4
  <2> HIDE DEF Without
  <2> QED BY <1>2, <2>1
<1>6. PICK f \in [0..(m - 1) -> V] : Runs(f, base, step, m - 1)
  BY <1>5
<1> DEFINE new == step[<<f[m - 1], m>>]
           g == [i \in 0..m |-> IF i = m THEN new ELSE f[i]]
<1>7. new \in V
  <2>1. m - 1 \in 0..(m - 1) /\ m \in 1..n
    BY <1>3, <1>4
  <2>2. f[m - 1] \in V
    BY <1>6, <2>1
  <2> QED BY <2>1, <2>2
<1> HIDE DEF new
<1>8. \A i \in 0..m : i # m => i \in 0..(m - 1)
  BY <1>3
<1>9. g \in [0..m -> V]
  BY <1>6, <1>7, <1>8
<1>10. Runs(g, base, step, m)
  <2>1. g[0] = base
    BY <1>3, <1>4, <1>6 DEF Runs
  <2>2. ASSUME NEW i \in 1..m
        PROVE  g[i] = step[<<g[i - 1], i>>]
    <3>1. i - 1 \in 0..m /\ i - 1 # m /\ g[i - 1] = f[i - 1]
      BY <1>3
    <3>2. CASE i = m
      BY <3>1, <3>2 DEF new
    <3>3. CASE i # m
      <4>1. i \in 1..(m - 1) /\ i \in 0..m
        BY <1>3, <3>3
      <4>2. f[i] = step[<<f[i - 1], i>>]
        BY <1>6, <4>1 DEF Runs
      <4> QED BY <3>1, <3>3, <4>1, <4>2
    <3> QED BY <3>2, <3>3
  <2> HIDE DEF g
  <2> QED BY <2>1, <2>2 DEF Runs
<1> HIDE DEF g
<1> QED BY <1>2, <1>9, <1>10

\* Sequences.
LEMMA ItemIs ==
  ASSUME NEW S, NEW s \in Seq(S), NEW i \in 1..Len(s)
  PROVE  s[i] \in S
OBVIOUS

LEMMA AppendIs ==
  ASSUME NEW S, NEW s \in Seq(S), NEW x \in S
  PROVE  /\ Append(s, x) \in Seq(S) /\ Len(Append(s, x)) = Len(s) + 1 /\ Len(s) \in Nat
         /\ \A i \in 1..Len(s) : Append(s, x)[i] = s[i]
         /\ Append(s, x)[Len(s) + 1] = x
         /\ \A i \in 1..Len(s) + 1 : i # Len(s) + 1 => i \in 1..Len(s)
OBVIOUS

-----------------------------------------------------------------------------
(* Retries *)

\* The lesser of two.
LEMMA MinIs ==
  ASSUME NEW a \in Nat, NEW b \in Nat
  PROVE  /\ Min({a, b}) \in Nat /\ Min({a, b}) <= a /\ Min({a, b}) <= b
         /\ Min({a, b}) = a \/ Min({a, b}) = b
<1>1. \E m \in {a, b} : \A y \in {a, b} : m =< y
  OBVIOUS
<1>2. Min({a, b}) \in {a, b} /\ \A y \in {a, b} : Min({a, b}) =< y
  BY <1>1 DEF Min
<1> QED BY <1>2

\* 2u32.saturating_pow(attempt): it doubles, up to its bound.
LEMMA FactorIs ==
  /\ Factor \in [0..MaxRetries -> Nat] /\ MaxRetries \in Nat /\ MaxU32 \in Nat
  /\ \A i \in 1..MaxRetries : Factor[i] = Min({2 * Factor[i - 1], MaxU32})
<1> DEFINE n == MaxRetries
           next(x) == Min({2 * x, MaxU32})
           step == [p \in Nat \X (1..n) |-> next(p[1])]
<1>1. n \in Nat /\ MaxU32 \in Nat
  BY MemoryAssumption
<1>2. \A x \in Nat : next(x) \in Nat
  <2> SUFFICES ASSUME NEW x \in Nat PROVE Min({2 * x, MaxU32}) \in Nat
    OBVIOUS
  <2>1. 2 * x \in Nat
    OBVIOUS
  <2> QED BY <1>1, <2>1, MinIs
<1> HIDE DEF next
<1>3. step \in [Nat \X (1..n) -> Nat]
  BY <1>2
<1>4. \A x \in Nat, i \in 1..n : step[<<x, i>>] = next(x)
  OBVIOUS
<1> HIDE DEF step, n
<1>5. PICK f \in [0..n -> Nat] : Runs(f, 1, step, n)
  BY <1>1, <1>3, Recursion
<1> USE DEF n
<1>6. ASSUME NEW i \in 1..n
      PROVE  f[i] = next(f[i - 1])
  <2>1. i - 1 \in 0..n /\ f[i - 1] \in Nat
    BY <1>1, <1>5
  <2> QED BY <1>4, <1>5, <2>1 DEF Runs
<1>7. f = [i \in 0..n |-> IF i = 0 THEN 1 ELSE next(f[i - 1])]
  <2>1. \A i \in 0..n : i # 0 => i \in 1..n
    BY <1>1
  <2>2. \A i \in 0..n : f[i] = IF i = 0 THEN 1 ELSE next(f[i - 1])
    BY <1>5, <1>6, <2>1 DEF Runs
  <2> QED BY <1>5, <2>2
<1>8. Factor = [i \in 0..n |-> IF i = 0 THEN 1 ELSE next(Factor[i - 1])]
  BY <1>7 DEF Factor, next
<1>9. \A i \in 1..n : Factor[i] = next(Factor[i - 1])
  BY <1>1, <1>8
<1> DEFINE Bad == {i \in 0..n : Factor[i] \notin Nat}
<1>10. Bad = {}
  <2>1. SUFFICES ASSUME Bad # {} PROVE FALSE
    OBVIOUS
  <2>2. PICK m \in Bad : \A k \in Bad : m <= k
    <3>1. Bad \in SUBSET Nat
      BY <1>1
    <3> HIDE DEF Bad
    <3> QED BY <2>1, <3>1, Least
  <2>3. m \in 0..n /\ Factor[m] \notin Nat
    BY <2>2
  <2>4. m # 0
    BY <1>1, <1>8, <2>3
  <2>5. m - 1 \in 0..n /\ ~(m <= m - 1) /\ m \in 1..n
    BY <1>1, <2>3, <2>4
  <2>6. Factor[m - 1] \in Nat
    BY <2>2, <2>5
  <2> QED BY <1>2, <1>9, <2>3, <2>5, <2>6
<1> QED BY <1>1, <1>8, <1>9, <1>10 DEF next

\* Where it has not reached its bound it has doubled all the way.
LEMMA FactorDoubles ==
  ASSUME NEW i \in 0..MaxRetries, NEW k \in 0..MaxRetries, i < k, Factor[k] < MaxU32
  PROVE  2 * Factor[i] <= Factor[k]
<1>0. MaxRetries \in Nat /\ MaxU32 \in Nat /\ \A m \in 0..MaxRetries : Factor[m] \in Nat
  BY FactorIs
<1>1. ASSUME NEW m \in 1..MaxRetries, Factor[m] < MaxU32
      PROVE  m - 1 \in 0..MaxRetries /\ Factor[m] = 2 * Factor[m - 1] /\ Factor[m - 1] < MaxU32
  <2> DEFINE x == Factor[m - 1]
             y == 2 * x
  <2>1. m - 1 \in 0..MaxRetries /\ x \in Nat /\ y \in Nat
    BY <1>0
  <2>2. Factor[m] = Min({y, MaxU32})
    BY FactorIs
  <2> HIDE DEF x, y
  <2>3. Factor[m] <= y /\ (Factor[m] = y \/ Factor[m] = MaxU32)
    BY <1>0, <2>1, <2>2, MinIs
  <2> QED BY <1>0, <1>1, <2>1, <2>3 DEF x, y
<1> DEFINE Short == {m \in 0..MaxRetries : i < m /\ Factor[m] < MaxU32 /\ ~(2 * Factor[i] <= Factor[m])}
<1>2. Short = {}
  <2>1. SUFFICES ASSUME Short # {} PROVE FALSE
    OBVIOUS
  <2>2. PICK m \in Short : \A l \in Short : m <= l
    <3>1. Short \in SUBSET Nat
      BY <1>0
    <3> HIDE DEF Short
    <3> QED BY <2>1, <3>1, Least
  <2>3. m \in 0..MaxRetries /\ i < m /\ Factor[m] < MaxU32 /\ ~(2 * Factor[i] <= Factor[m])
    BY <2>2
  <2>4. m \in 1..MaxRetries /\ ~(m <= m - 1)
    BY <1>0, <2>3
  <2>5. m - 1 \in 0..MaxRetries /\ Factor[m] = 2 * Factor[m - 1] /\ Factor[m - 1] < MaxU32
    BY <1>1, <2>3, <2>4
  <2>6. CASE m - 1 = i
    BY <1>0, <2>3, <2>5, <2>6
  <2>7. CASE m - 1 # i
    <3>1. i < m - 1
      BY <2>3, <2>4, <2>7
    <3>2. m - 1 \notin Short
      <4> HIDE DEF Short
      <4> QED BY <2>2, <2>4
    <3>3. 2 * Factor[i] <= Factor[m - 1]
      BY <2>5, <3>1, <3>2
    <3> QED BY <1>0, <2>3, <2>4, <2>5, <3>3
  <2> QED BY <2>6, <2>7
<1> QED BY <1>2

\* A fifth at most.
LEMMA JitterIs ==
  ASSUME NEW c \in Nat, NEW j \in 0..20
  PROVE  (c * j) \div 100 \in Nat /\ (c * j) \div 100 <= c
<1> DEFINE x == c * j
<1>1. x \in Nat /\ x <= 20 * c
  OBVIOUS
<1> HIDE DEF x
<1>2. x \div 100 \in Nat /\ x \div 100 <= c
  BY <1>1
<1> QED BY <1>2 DEF x

\* A delay before its jitter.
LEMMA CappedIs ==
  ASSUME NEW i \in 0..MaxRetries
  PROVE  /\ Capped(i) \in Nat /\ Capped(i) <= MaxDelay /\ Capped(i) <= BaseDelay * Factor[i]
         /\ Capped(i) = BaseDelay * Factor[i] \/ Capped(i) = MaxDelay
         /\ BaseDelay * Factor[i] \in Nat
<1> DEFINE x == BaseDelay * Factor[i]
<1>1. x \in Nat /\ MaxDelay \in Nat
  BY FactorIs, MemoryAssumption
<1>2. Capped(i) = Min({x, MaxDelay})
  BY DEF Capped
<1> HIDE DEF x
<1>3. /\ Capped(i) \in Nat /\ Capped(i) <= MaxDelay /\ Capped(i) <= x
      /\ Capped(i) = x \/ Capped(i) = MaxDelay
  BY <1>1, <1>2, MinIs
<1> QED BY <1>1, <1>3 DEF x

\* delay_for: at most max_delay, as long as it was asked to be, or a delay and its jitter.
LEMMA DelayIs ==
  ASSUME NEW i \in 0..MaxRetries, NEW after \in RetryAfters, NEW j \in Jitters
  PROVE  /\ DelayFor(i, after, j) \in Nat /\ DelayFor(i, after, j) <= MaxDelay
         /\ \A d \in after : DelayFor(i, after, j) = Min({d, MaxDelay})
         /\ after = {} => /\ Capped(i) <= DelayFor(i, after, j)
                          /\ DelayFor(i, after, j) <= 2 * Capped(i)
<1>1. /\ MaxDelay \in Nat /\ j \in 0..20 /\ after \subseteq Nat
      /\ \A d, e \in after : d = e
  BY MemoryAssumption
<1>3. Capped(i) \in Nat /\ Capped(i) <= MaxDelay
  BY CappedIs
<1> DEFINE c == Capped(i)
           x == (c * j) \div 100
<1>4. x \in Nat /\ x <= c
  BY <1>1, <1>3, JitterIs
<1>5. DelayFor(i, after, j) = IF after # {} THEN Min(after \cup {MaxDelay})
                              ELSE Min({c + x, MaxDelay})
  BY DEF DelayFor
<1> HIDE DEF c, x
<1>6. CASE after = {}
  <2>1. c \in Nat /\ c + x \in Nat /\ c <= MaxDelay
    BY <1>3, <1>4 DEF c
  <2> DEFINE y == c + x
  <2>2. y \in Nat /\ c <= y /\ y <= 2 * c
    BY <1>4, <2>1
  <2>3. DelayFor(i, after, j) = Min({y, MaxDelay})
    BY <1>5, <1>6
  <2> HIDE DEF y
  <2>4. DelayFor(i, after, j) \in Nat /\ DelayFor(i, after, j) <= y
        /\ DelayFor(i, after, j) <= MaxDelay
        /\ (DelayFor(i, after, j) = y \/ DelayFor(i, after, j) = MaxDelay)
    BY <1>1, <2>2, <2>3, MinIs
  <2> QED BY <1>1, <1>6, <2>1, <2>2, <2>4 DEF c
<1>7. CASE after # {}
  <2>1. PICK d \in after : TRUE
    BY <1>7
  <2>2. after \cup {MaxDelay} = {d, MaxDelay} /\ d \in Nat /\ \A e \in after : e = d
    BY <1>1, <2>1
  <2>3. DelayFor(i, after, j) = Min({d, MaxDelay})
    BY <1>5, <1>7, <2>2
  <2> QED BY <1>1, <1>7, <2>2, <2>3, MinIs
<1> QED BY <1>6, <1>7

\* It grows at least twofold, up to its bound, as long as the factor does.
LEMMA CappedGrows ==
  ASSUME NEW i \in 0..MaxRetries, NEW k \in 0..MaxRetries, i < k, Factor[k] < MaxU32
  PROVE  /\ Capped(i) \in Nat /\ Capped(k) \in Nat
         /\ Capped(k) = MaxDelay \/ 2 * Capped(i) <= Capped(k)
<1> DEFINE x == BaseDelay * Factor[i]
           y == BaseDelay * Factor[k]
<1>1. /\ Capped(i) \in Nat /\ Capped(i) <= x /\ x \in Nat
      /\ Capped(k) \in Nat /\ y \in Nat
      /\ Capped(k) = y \/ Capped(k) = MaxDelay
  BY CappedIs
<1>2. 2 * x <= y
  <2>1. 2 * Factor[i] <= Factor[k]
    BY FactorDoubles
  <2>2. BaseDelay \in Nat /\ Factor[i] \in Nat /\ Factor[k] \in Nat
    BY FactorIs, MemoryAssumption
  <2>3. \A b, f, g \in Nat : 2 * f <= g => 2 * (b * f) <= b * g
    <3> SUFFICES ASSUME NEW b \in Nat, NEW f \in Nat, NEW g \in Nat, 2 * f <= g
                 PROVE  2 * (b * f) <= b * g
      OBVIOUS
    <3>1. PICK d \in Nat : g = 2 * f + d
      <4>1. g - 2 * f \in Nat /\ g = 2 * f + (g - 2 * f)
        OBVIOUS
      <4> QED BY <4>1
    <3>2. b * g = 2 * (b * f) + b * d /\ b * d \in Nat /\ b * f \in Nat
      BY <3>1
    <3> QED BY <3>2
  <2> QED BY <2>1, <2>2, <2>3
<1> HIDE DEF x, y
<1> QED BY <1>1, <1>2

\* The pauses so far, one for each attempt.
RetryInv ==
  /\ delays \in Seq([asked : RetryAfters, delay : Nat])
  /\ Len(delays) <= MaxRetries
  /\ \A i \in 1..Len(delays) :
       \E j \in Jitters : delays[i].delay = DelayFor(i - 1, delays[i].asked, j)

\* Every POST begins without a pause, and a retry adds one.
LEMMA RetryStep == RetryInv /\ [Next]_vars => RetryInv'
<1> SUFFICES ASSUME RetryInv, [Next]_vars
             PROVE  RetryInv'
  OBVIOUS
<1>0. <<>> \in Seq([asked : RetryAfters, delay : Nat]) /\ Len(<<>>) = 0 /\ MaxRetries \in Nat
  BY MemoryAssumption
<1>1. CASE delays' = <<>>
  BY <1>0, <1>1 DEF RetryInv
<1>2. CASE delays' = delays
  BY <1>2 DEF RetryInv
<1>3. ASSUME NEW after \in RetryAfters, NEW jitter \in Jitters, Retry(after, jitter)
      PROVE  RetryInv'
  <2> DEFINE n == Len(delays)
             x == [asked |-> after, delay |-> DelayFor(n, after, jitter)]
  <2>1. n \in 0..MaxRetries /\ n < MaxRetries /\ delays' = Append(delays, x)
    BY <1>0, <1>3 DEF Retry, RetryInv
  <2>2. x \in [asked : RetryAfters, delay : Nat]
    BY <2>1, DelayIs
  <2>3. x.asked = after /\ x.delay = DelayFor(n, after, jitter)
    OBVIOUS
  <2> HIDE DEF x
  <2>4. /\ delays' \in Seq([asked : RetryAfters, delay : Nat]) /\ Len(delays') = n + 1
        /\ \A i \in 1..n : delays'[i] = delays[i]
        /\ delays'[n + 1] = x
        /\ \A i \in 1..n + 1 : i # n + 1 => i \in 1..n
    BY <2>1, <2>2, AppendIs DEF RetryInv
  <2>5. ASSUME NEW i \in 1..Len(delays')
        PROVE  \E j \in Jitters : delays'[i].delay = DelayFor(i - 1, delays'[i].asked, j)
    <3>1. CASE i = n + 1
      <4>1. i - 1 = n
        BY <2>1, <3>1
      <4> QED BY <2>3, <2>4, <3>1, <4>1
    <3>2. CASE i \in 1..n
      BY <2>4, <3>2 DEF RetryInv
    <3> QED BY <2>4, <3>1, <3>2
  <2>6. Len(delays') <= MaxRetries
    BY <1>0, <2>1, <2>4
  <2> QED BY <2>4, <2>5, <2>6 DEF RetryInv
<1>4. ASSUME NEW data \in Responses, Embedded(data)
      PROVE  delays' = <<>>
  BY <1>4 DEF Embedded, Ends
<1>5. CASE Begin
  BY <1>1, <1>2, <1>5 DEF Begin, GoOn, Ends
<1> QED
  BY <1>1, <1>2, <1>3, <1>4, <1>5
  DEF Next, Step, vars, Forget, GiveUp, Ends, Store, StoreFails, GoOn

LEMMA RetryInvariant == Spec => []RetryInv
<1>1. Init => RetryInv
  <2>1. <<>> \in Seq([asked : RetryAfters, delay : Nat]) /\ Len(<<>>) = 0 /\ MaxRetries \in Nat
    BY MemoryAssumption
  <2> QED BY <2>1 DEF Init, RetryInv
<1>2. RetryInv /\ [Next]_vars => RetryInv'
  BY RetryStep
<1> QED BY <1>1, <1>2, PTL DEF Spec

\* A delay doubles from one attempt to the next, and the jitter is a fifth.
LEMMA RetriesGrow == RetryInv => RetriesBackOff
<1> SUFFICES ASSUME RetryInv
             PROVE  RetriesBackOff
  OBVIOUS
<1>0. MaxDelay \in Nat /\ MaxRetries \in Nat /\ Len(delays) \in Nat /\ Len(delays) <= MaxRetries
  BY MemoryAssumption DEF RetryInv
<1>1. ASSUME NEW i \in 1..Len(delays)
      PROVE  /\ i - 1 \in 0..MaxRetries
             /\ delays[i].delay \in Nat /\ delays[i].delay <= MaxDelay
             /\ \A d \in delays[i].asked : delays[i].delay = Min({d, MaxDelay})
             /\ delays[i].asked = {} => /\ Capped(i - 1) <= delays[i].delay
                                       /\ delays[i].delay <= 2 * Capped(i - 1)
  <2> DEFINE k == i - 1
             after == delays[i].asked
  <2>1. k \in 0..MaxRetries
    BY <1>0
  <2>2. after \in RetryAfters
    <3>1. delays[i] \in [asked : RetryAfters, delay : Nat]
      BY ItemIs DEF RetryInv
    <3> QED BY <3>1
  <2>3. PICK j \in Jitters : delays[i].delay = DelayFor(k, after, j)
    BY DEF RetryInv
  <2> HIDE DEF k, after
  <2>4. /\ DelayFor(k, after, j) \in Nat /\ DelayFor(k, after, j) <= MaxDelay
        /\ \A d \in after : DelayFor(k, after, j) = Min({d, MaxDelay})
        /\ after = {} => /\ Capped(k) <= DelayFor(k, after, j)
                         /\ DelayFor(k, after, j) <= 2 * Capped(k)
    BY <2>1, <2>2, DelayIs
  <2> QED BY <2>1, <2>3, <2>4 DEF k, after
<1>2. ASSUME NEW i \in 1..Len(delays), NEW j \in 1..Len(delays), i < j,
             delays[i].asked = {}, delays[j].asked = {}, Factor[j - 1] < MaxU32
      PROVE  delays[i].delay <= delays[j].delay
  <2> DEFINE k == i - 1
             l == j - 1
  <2>1. k \in 0..MaxRetries /\ l \in 0..MaxRetries /\ k < l /\ Factor[l] < MaxU32
    BY <1>0, <1>1, <1>2
  <2>2. /\ delays[i].delay \in Nat /\ delays[i].delay <= MaxDelay
        /\ delays[i].delay <= 2 * Capped(k)
        /\ delays[j].delay \in Nat /\ Capped(l) <= delays[j].delay
    BY <1>1, <1>2
  <2> HIDE DEF k, l
  <2>3. /\ Capped(k) \in Nat /\ Capped(l) \in Nat
        /\ Capped(l) = MaxDelay \/ 2 * Capped(k) <= Capped(l)
    BY <2>1, CappedGrows
  <2> QED BY <1>0, <2>2, <2>3
<1> QED BY <1>0, <1>1, <1>2 DEF RetriesBackOff

\* THEOREM.  The retries of a POST, for every policy: no more than max_retries, no
\* pause longer than max_delay, none the provider asks for disregarded, and the
\* others growing whatever the jitter, until the factor is at the bound of its type
\* (RetryPolicy::delay_for, post_json).
THEOREM RetriesAreBounded == Spec => []RetriesBackOff
BY RetryInvariant, RetriesGrow, PTL

-----------------------------------------------------------------------------
(* Chunks *)

\* The length of a chunk; one of two words has at least two characters.
LEMMA LengthIs ==
  ASSUME NEW words \in Seq(Nat \ {0}), NEW chunk \in Seq(1..Len(words))
  PROVE  /\ LengthOf(words, chunk) \in Nat
         /\ chunk = <<>> => LengthOf(words, chunk) = 0
         /\ Len(chunk) >= 2 => LengthOf(words, chunk) >= 2
<1> DEFINE n == Len(chunk)
           more(i) == words[chunk[i]] + 1
           step == [p \in Nat \X (1..n) |-> p[1] + words[chunk[p[2]]] + 1]
<1>1. n \in Nat /\ \A i \in 1..n : words[chunk[i]] \in Nat \ {0}
  <2>1. n \in Nat
    OBVIOUS
  <2>2. ASSUME NEW i \in 1..n PROVE words[chunk[i]] \in Nat \ {0}
    <3>1. chunk[i] \in 1..Len(words)
      BY ItemIs
    <3> QED BY <3>1, ItemIs
  <2> QED BY <2>1, <2>2
<1>2. \A x \in Nat, i \in 1..n : step[<<x, i>>] = x + words[chunk[i]] + 1
  OBVIOUS
<1>3. step \in [Nat \X (1..n) -> Nat]
  BY <1>1
<1> HIDE DEF step, n
<1>4. PICK f \in [0..n -> Nat] : Runs(f, 0, step, n)
  BY <1>1, <1>3, Recursion
<1>5. ASSUME NEW i \in 1..n
      PROVE  f[i] = f[i - 1] + words[chunk[i]] + 1 /\ i - 1 \in 0..n /\ f[i - 1] \in Nat
  <2>1. i - 1 \in 0..n /\ f[i - 1] \in Nat
    BY <1>1, <1>4
  <2> QED BY <1>2, <1>4, <2>1 DEF Runs
<1>6. f = [i \in 0..n |-> IF i = 0 THEN 0 ELSE f[i - 1] + words[chunk[i]] + 1]
  <2>1. \A i \in 0..n : i # 0 => i \in 1..n
    BY <1>1
  <2>2. \A i \in 0..n : f[i] = IF i = 0 THEN 0 ELSE f[i - 1] + words[chunk[i]] + 1
    BY <1>4, <1>5, <2>1 DEF Runs
  <2> QED BY <1>4, <2>2
<1> DEFINE g == CHOOSE h : h = [i \in 0..n |-> IF i = 0 THEN 0 ELSE h[i - 1] + words[chunk[i]] + 1]
<1>7. g = [i \in 0..n |-> IF i = 0 THEN 0 ELSE g[i - 1] + words[chunk[i]] + 1]
  BY <1>6
<1>8. LengthOf(words, chunk) = g[n] - (IF chunk = <<>> THEN 0 ELSE 1)
  BY DEF LengthOf, n
<1> HIDE DEF g
<1> DEFINE Short == {i \in 0..n : ~(g[i] \in Nat /\ 2 * i <= g[i])}
<1>9. Short = {}
  <2>1. SUFFICES ASSUME Short # {} PROVE FALSE
    OBVIOUS
  <2>2. PICK m \in Short : \A l \in Short : m <= l
    <3>1. Short \in SUBSET Nat
      BY <1>1
    <3> HIDE DEF Short
    <3> QED BY <2>1, <3>1, Least
  <2>3. m \in 0..n /\ ~(g[m] \in Nat /\ 2 * m <= g[m])
    BY <2>2
  <2>4. m # 0
    BY <1>1, <1>7, <2>3
  <2>5. m - 1 \in 0..n /\ ~(m <= m - 1) /\ m \in 1..n
    BY <1>1, <2>3, <2>4
  <2>6. m - 1 \notin Short
    <3> HIDE DEF Short
    <3> QED BY <2>2, <2>5
  <2>7. g[m - 1] \in Nat /\ 2 * (m - 1) <= g[m - 1]
    BY <2>5, <2>6
  <2>8. g[m] = g[m - 1] + words[chunk[m]] + 1
    BY <1>7, <2>3, <2>4
  <2>9. words[chunk[m]] \in Nat \ {0}
    BY <1>1, <2>5
  <2> DEFINE word == words[chunk[m]]
             before == g[m - 1]
  <2>10. word \in Nat \ {0} /\ before \in Nat /\ 2 * (m - 1) <= before
    BY <2>7, <2>9
  <2>11. g[m] = before + word + 1
    BY <2>8
  <2> HIDE DEF Short, word, before
  <2>12. m \in Nat
    BY <1>1, <2>5
  <2>13. g[m] \in Nat /\ 2 * m <= g[m]
    BY <2>10, <2>11, <2>12
  <2> QED BY <2>3, <2>13
<1>10. n \in 0..n /\ g[0] = 0
  BY <1>1, <1>7
<1>11. g[n] \in Nat /\ 2 * n <= g[n]
  BY <1>9, <1>10
<1>12. CASE chunk = <<>>
  <2>1. n = 0
    BY <1>12 DEF n
  <2> QED BY <1>8, <1>10, <1>12, <2>1 DEF n
<1>13. CASE chunk # <<>>
  <2>1. n # 0
    BY <1>13 DEF n
  <2>2. LengthOf(words, chunk) = g[n] - 1
    BY <1>8, <1>13
  <2> QED BY <1>1, <1>11, <1>13, <2>1, <2>2 DEF n
<1> QED BY <1>12, <1>13

LEMMA MaxIs ==
  ASSUME NEW k \in Nat, NEW S \in SUBSET (0..k), S # {}
  PROVE  Max(S) \in S
<1> DEFINE Above == {b \in 0..k : \A x \in S : x <= b}
<1>1. PICK m \in Above : \A b \in Above : m <= b
  <2>1. Above \in SUBSET Nat /\ k \in Above
    OBVIOUS
  <2> HIDE DEF Above
  <2> QED BY <2>1, Least
<1>2. m \in 0..k /\ \A x \in S : x <= m
  BY <1>1
<1>3. m \in S
  <2>1. SUFFICES ASSUME m \notin S PROVE FALSE
    OBVIOUS
  <2>2. PICK x \in S : TRUE
    OBVIOUS
  <2>3. m # 0
    BY <1>2, <2>1, <2>2
  <2>4. m - 1 \in Above /\ ~(m <= m - 1)
    BY <1>2, <2>1, <2>3
  <2> HIDE DEF Above
  <2> QED BY <1>1, <2>4
<1>4. \A y \in S : m >= y
  BY <1>2
<1> QED BY <1>3, <1>4 DEF Max

LEMMA SubIs ==
  ASSUME NEW S, NEW s \in Seq(S), NEW m \in Nat, m <= Len(s)
  PROVE  /\ SubSeq(s, 1, m) \in Seq(S) /\ Len(SubSeq(s, 1, m)) = m
         /\ \A i \in 1..m : SubSeq(s, 1, m)[i] = s[i]
<1>1. Len(s) \in Nat /\ (m > 0 => 1 \in 1..Len(s) /\ m \in 1..Len(s))
  OBVIOUS
<1>2. SubSeq(s, 1, m) = [i \in 1..m |-> s[i]]
  OBVIOUS
<1>3. \A i \in 1..m : s[i] \in S
  BY <1>1
<1> QED BY <1>2, <1>3

LEMMA SameSeq ==
  ASSUME NEW S, NEW s \in Seq(S), NEW t \in Seq(S), Len(s) = Len(t),
         \A i \in 1..Len(s) : s[i] = t[i]
  PROVE  s = t
OBVIOUS

LEMMA LastIs ==
  ASSUME NEW S, NEW s \in Seq(S), s # <<>>
  PROVE  /\ Len(s) \in Nat \ {0} /\ Last(s) = s[Len(s)] /\ Last(s) \in S
         /\ Front(s) \in Seq(S) /\ Len(Front(s)) = Len(s) - 1
         /\ \A i \in 1..Len(s) : i # Len(s) => i \in 1..Len(Front(s)) /\ Front(s)[i] = s[i]
         /\ \A i \in 1..Len(Front(s)) : i \in 1..Len(s) /\ i # Len(s)
<1>1. Len(s) \in Nat /\ Len(s) # 0
  OBVIOUS
<1>2. Last(s) = s[Len(s)] /\ Front(s) = SubSeq(s, 1, Len(s) - 1)
  BY DEF Last, Front
<1>3. Len(s) \in 1..Len(s) /\ s[Len(s)] \in S
  BY <1>1
<1> DEFINE m == Len(s) - 1
<1>4. m \in Nat /\ m <= Len(s) /\ Len(s) = m + 1
  BY <1>1
<1>5. /\ SubSeq(s, 1, m) \in Seq(S) /\ Len(SubSeq(s, 1, m)) = m
      /\ \A i \in 1..m : SubSeq(s, 1, m)[i] = s[i]
  BY <1>4, SubIs
<1>6. Front(s) = SubSeq(s, 1, m)
  BY <1>2
<1> HIDE DEF m
<1>7. Front(s) \in Seq(S) /\ Len(Front(s)) = m /\ \A i \in 1..m : Front(s)[i] = s[i]
  BY <1>5, <1>6
<1>8. Len(Front(s)) = Len(s) - 1
  BY <1>4, <1>7
<1>9. \A i \in 1..Len(s) : i # Len(s) => i \in 1..Len(Front(s)) /\ Front(s)[i] = s[i]
  <2>1. \A i \in 1..Len(s) : i # Len(s) => i \in 1..m
    BY <1>4
  <2> QED BY <1>7, <2>1
<1>10. \A i \in 1..Len(Front(s)) : i \in 1..Len(s) /\ i # Len(s)
  BY <1>4, <1>7
<1> QED BY <1>1, <1>2, <1>3, <1>7, <1>8, <1>9, <1>10

LEMMA TailIs ==
  ASSUME NEW S, NEW s \in Seq(S), NEW n \in 0..Len(s)
  PROVE  LET t == SubSeq(s, Len(s) - n + 1, Len(s))
         IN  /\ t \in Seq(S) /\ Len(t) = n
             /\ \A i \in 1..n : t[i] = s[Len(s) - n + i]
<1> DEFINE l == Len(s)
           a == l - n + 1
           t == SubSeq(s, a, l)
<1>1. l \in Nat /\ n \in Nat /\ n <= l /\ a \in 1..l + 1 /\ l - a + 1 = n
  OBVIOUS
<1>2. t = [i \in 1..n |-> s[a + i - 1]]
  BY <1>1
<1>3. \A i \in 1..n : a + i - 1 \in 1..l /\ a + i - 1 = l - n + i
  BY <1>1
<1>4. \A i \in 1..n : s[a + i - 1] \in S
  BY <1>3
<1> QED BY <1>1, <1>2, <1>3, <1>4

\* The tail that is carried over.
LEMMA CarryIs ==
  ASSUME NEW words \in Seq(Nat \ {0}), NEW chunk \in Seq(1..Len(words)), NEW overlap \in Nat
  PROVE  \E n \in 0..Len(chunk) :
           LET t == Carry(words, chunk, overlap)
           IN  /\ t \in Seq(1..Len(words)) /\ Len(t) = n
               /\ \A i \in 1..n : t[i] = chunk[Len(chunk) - n + i]
               /\ LengthOf(words, t) <= overlap
<1> DEFINE l == Len(chunk)
           tail(n) == SubSeq(chunk, l - n + 1, l)
           tails == {n \in 0..l : LengthOf(words, tail(n)) <= overlap}
           m == Max(tails)
<1>1. l \in Nat /\ 0 \in 0..l
  OBVIOUS
<1>2. 0 \in tails
  <2>1. tail(0) \in Seq(1..Len(words)) /\ Len(tail(0)) = 0
    BY <1>1, TailIs
  <2>2. tail(0) = <<>>
    BY <2>1
  <2>3. LengthOf(words, tail(0)) = 0
    BY <2>1, <2>2, LengthIs
  <2> QED BY <1>1, <2>3
<1>3. m \in tails
  <2>1. tails \in SUBSET (0..l) /\ tails # {}
    BY <1>2
  <2> HIDE DEF tails, l
  <2> QED BY <1>1, <2>1, MaxIs
<1>4. Carry(words, chunk, overlap) = tail(m)
  BY DEF Carry
<1> HIDE DEF m
<1>5. m \in 0..l /\ LengthOf(words, tail(m)) <= overlap
  BY <1>3
<1>6. /\ tail(m) \in Seq(1..Len(words)) /\ Len(tail(m)) = m
      /\ \A i \in 1..m : tail(m)[i] = chunk[l - m + i]
  BY <1>5, TailIs
<1> HIDE DEF tail, tails
<1> QED BY <1>4, <1>5, <1>6

\* Consecutive words.
Consecutive(c) == c # <<>> /\ \A i \in 1..Len(c) : c[i] = c[1] + i - 1

\* q begins with the last n words of p.
Joined(words, p, q, n, max, overlap) ==
  /\ n <= Len(p) /\ n < Len(q)
  /\ q[1] + n = p[Len(p)] + 1
  /\ LengthOf(words, SubSeq(q, 1, n)) <= overlap
  /\ LengthOf(words, Append(p, p[Len(p)] + 1)) > max
  /\ LengthOf(words, q) > max => Len(q) = n + 1

\* The chunks of the first w words.
Cut(words, chunks, w, max, overlap) ==
  /\ \A c \in 1..Len(chunks) : Consecutive(chunks[c])
  /\ chunks[1][1] = 1
  /\ chunks[Len(chunks)][Len(chunks[Len(chunks)])] = w
  /\ \A c \in 1..Len(chunks) :
       c > 1 => \E n \in Nat : Joined(words, chunks[c - 1], chunks[c], n, max, overlap)

\* A word that does not fit begins a chunk, after what is carried over.
LEMMA NextChunk ==
  ASSUME NEW words \in Seq(Nat \ {0}), NEW max \in Nat, NEW overlap \in Nat,
         NEW p \in Seq(1..Len(words)), Consecutive(p),
         NEW w \in 1..Len(words), p[Len(p)] = w - 1,
         LengthOf(words, Append(p, w)) > max
  PROVE  LET q == Append(Carry(words, p, overlap), w)
         IN  /\ q \in Seq(1..Len(words)) /\ Consecutive(q) /\ q[Len(q)] = w
             /\ \E n \in Nat : Joined(words, p, q, n, max, overlap)
<1> DEFINE t == Carry(words, p, overlap)
           q == Append(t, w)
           l == Len(p)
<1>1. PICK n \in 0..l : /\ t \in Seq(1..Len(words)) /\ Len(t) = n
                        /\ \A i \in 1..n : t[i] = p[l - n + i]
                        /\ LengthOf(words, t) <= overlap
  BY CarryIs
<1> HIDE DEF t
<1>2. l \in Nat /\ l # 0 /\ n \in Nat /\ n <= l /\ w \in Nat
  BY <1>1 DEF Consecutive
<1>3. /\ q \in Seq(1..Len(words)) /\ Len(q) = n + 1 /\ q[n + 1] = w
      /\ \A i \in 1..n : q[i] = t[i]
  BY <1>1, AppendIs
<1> HIDE DEF q
<1>4. \A i \in 1..l : p[i] = p[1] + i - 1 /\ p[i] \in Nat
  BY DEF Consecutive
<1>5. p[1] \in Nat /\ p[1] + l - 1 = w - 1
  BY <1>2, <1>4
<1>6. \A i \in 1..n : q[i] = w - 1 - n + i
  <2>1. \A i \in 1..n : l - n + i \in 1..l
    BY <1>2
  <2>2. \A i \in 1..n : q[i] = p[1] + (l - n + i) - 1
    BY <1>1, <1>3, <1>4, <2>1
  <2> DEFINE first == p[1]
  <2>3. first \in Nat /\ first + l - 1 = w - 1 /\ \A i \in 1..n : q[i] = first + (l - n + i) - 1
    BY <1>5, <2>2
  <2> HIDE DEF first, l
  <2> QED BY <1>2, <2>3
<1>7. \A i \in 1..n + 1 : q[i] = w - 1 - n + i
  <2>1. \A i \in 1..n + 1 : i # n + 1 => i \in 1..n
    BY <1>2
  <2>2. q[n + 1] = w - 1 - n + (n + 1)
    BY <1>2, <1>3
  <2> QED BY <1>6, <2>1, <2>2
<1>8. q[1] = w - n
  BY <1>2, <1>7
<1>9. Consecutive(q)
  <2>1. q # <<>>
    BY <1>2, <1>3
  <2> QED BY <1>2, <1>3, <1>7, <1>8, <2>1 DEF Consecutive
<1>10. SubSeq(q, 1, n) = t
  <2>1. /\ SubSeq(q, 1, n) \in Seq(1..Len(words)) /\ Len(SubSeq(q, 1, n)) = n
        /\ \A i \in 1..n : SubSeq(q, 1, n)[i] = q[i]
    <3>1. n <= Len(q)
      BY <1>2, <1>3
    <3> QED BY <1>2, <1>3, <3>1, SubIs
  <2> QED BY <1>1, <1>3, <2>1, SameSeq
<1>11. Joined(words, p, q, n, max, overlap)
  <2>1. p[Len(p)] + 1 = w
    BY <1>2
  <2>2. n <= Len(p) /\ n < Len(q) /\ q[1] + n = p[Len(p)] + 1
    BY <1>2, <1>3, <1>8, <2>1
  <2>3. LengthOf(words, Append(p, p[Len(p)] + 1)) > max
    BY <2>1
  <2> QED BY <1>1, <1>3, <1>10, <2>2, <2>3 DEF Joined
<1> QED BY <1>2, <1>3, <1>9, <1>11 DEF q, t

\* A word that fits.
LEMMA LongerChunk ==
  ASSUME NEW words \in Seq(Nat \ {0}), NEW max \in Nat, NEW overlap \in Nat,
         NEW p \in Seq(1..Len(words)), Consecutive(p),
         NEW w \in 1..Len(words), p[Len(p)] = w - 1,
         ~(LengthOf(words, Append(p, w)) > max)
  PROVE  LET q == Append(p, w)
         IN  /\ q \in Seq(1..Len(words)) /\ Consecutive(q) /\ q[Len(q)] = w /\ q[1] = p[1]
             /\ \A r : \A n \in Nat :
                  Joined(words, r, p, n, max, overlap) => Joined(words, r, q, n, max, overlap)
<1> DEFINE q == Append(p, w)
           l == Len(p)
<1>1. /\ q \in Seq(1..Len(words)) /\ Len(q) = l + 1 /\ q[l + 1] = w /\ l \in Nat
      /\ \A i \in 1..l : q[i] = p[i]
      /\ \A i \in 1..l + 1 : i # l + 1 => i \in 1..l
  BY AppendIs
<1>2. ~(LengthOf(words, q) > max)
  OBVIOUS
<1> HIDE DEF q
<1>3. l # 0 /\ 1 \in 1..l /\ l \in 1..l /\ w \in Nat
  BY <1>1 DEF Consecutive
<1>4. \A i \in 1..l : p[i] = p[1] + i - 1 /\ p[i] \in Nat
  BY DEF Consecutive
<1>5. p[1] \in Nat /\ p[1] + l - 1 = w - 1
  BY <1>3, <1>4
<1>6. q[1] = p[1]
  BY <1>1, <1>3
<1>7. Consecutive(q)
  <2>1. q # <<>>
    BY <1>1
  <2>2. \A i \in 1..l : q[i] = q[1] + i - 1
    BY <1>1, <1>4, <1>6
  <2>3. q[l + 1] = q[1] + (l + 1) - 1
    BY <1>1, <1>5, <1>6
  <2> QED BY <1>1, <2>1, <2>2, <2>3 DEF Consecutive
<1>8. ASSUME NEW r, NEW n \in Nat, Joined(words, r, p, n, max, overlap)
      PROVE  Joined(words, r, q, n, max, overlap)
  <2>1. n < l /\ n <= l /\ n <= Len(q)
    <3>1. n < l
      BY <1>8 DEF Joined
    <3>2. l \in Nat /\ Len(q) = l + 1
      BY <1>1
    <3> HIDE DEF l
    <3> QED BY <3>1, <3>2
  <2>2. /\ SubSeq(q, 1, n) \in Seq(1..Len(words)) /\ Len(SubSeq(q, 1, n)) = n
        /\ \A i \in 1..n : SubSeq(q, 1, n)[i] = q[i]
    BY <1>1, <2>1, SubIs
  <2>3. /\ SubSeq(p, 1, n) \in Seq(1..Len(words)) /\ Len(SubSeq(p, 1, n)) = n
        /\ \A i \in 1..n : SubSeq(p, 1, n)[i] = p[i]
    BY <2>1, SubIs
  <2>4. \A i \in 1..n : i \in 1..l
    BY <1>1, <2>1
  <2>5. SubSeq(q, 1, n) = SubSeq(p, 1, n)
    BY <1>1, <2>2, <2>3, <2>4, SameSeq
  <2>6. n < Len(q)
    BY <1>1, <2>1
  <2> QED BY <1>2, <1>6, <1>8, <2>5, <2>6 DEF Joined
<1> QED BY <1>1, <1>3, <1>6, <1>7, <1>8 DEF q

\* Chunks, the last of which takes the next word.
Pieces(words) == Seq(Seq(1..Len(words))) \ {<<>>}

LEMMA TakeIs ==
  ASSUME NEW words \in Seq(Nat \ {0}), NEW max \in Nat, NEW overlap \in Nat,
         NEW chunks \in Pieces(words), NEW w \in 1..Len(words)
  PROVE  LET p    == chunks[Len(chunks)]
             more == Append(chunks, Append(Carry(words, p, overlap), w))
             same == Append(Front(chunks), Append(p, w))
         IN  /\ Take(words, chunks, w, max, overlap) \in Pieces(words)
             /\ Take(words, chunks, w, max, overlap) =
                  IF p # <<>> /\ LengthOf(words, Append(p, w)) > max THEN more ELSE same
<1> DEFINE p    == chunks[Len(chunks)]
           S    == Seq(1..Len(words))
           q    == Append(Carry(words, p, overlap), w)
           r    == Append(p, w)
<1>1. chunks \in Seq(S) /\ chunks # <<>>
  BY DEF Pieces
<1>2. /\ Last(chunks) = p /\ p \in S
      /\ Front(chunks) \in Seq(S)
  <2> HIDE DEF S
  <2> QED BY <1>1, LastIs
<1> HIDE DEF p
<1>3. q \in S /\ r \in S
  <2>1. Carry(words, p, overlap) \in S
    BY <1>2, CarryIs
  <2> QED BY <1>2, <2>1, AppendIs
<1> HIDE DEF q, r, S
<1>4. /\ Append(chunks, q) \in Seq(S) /\ Len(Append(chunks, q)) = Len(chunks) + 1
      /\ Len(chunks) \in Nat
      /\ Append(Front(chunks), r) \in Seq(S)
      /\ Len(Append(Front(chunks), r)) = Len(Front(chunks)) + 1
      /\ Len(Front(chunks)) \in Nat
  BY <1>1, <1>2, <1>3, AppendIs
<1>5. Append(chunks, q) # <<>> /\ Append(Front(chunks), r) # <<>>
  <2>1. Len(<<>>) = 0
    OBVIOUS
  <2>2. Len(Append(chunks, q)) # 0 /\ Len(Append(Front(chunks), r)) # 0
    BY <1>4
  <2> QED BY <2>1, <2>2
<1>6. Take(words, chunks, w, max, overlap) =
        IF p # <<>> /\ LengthOf(words, r) > max THEN Append(chunks, q)
        ELSE Append(Front(chunks), r)
  BY <1>2 DEF Take, q, r
<1>7. Take(words, chunks, w, max, overlap) \in Pieces(words)
  BY <1>4, <1>5, <1>6 DEF Pieces, S
<1> QED BY <1>6, <1>7 DEF p, q, r

\* With each word the chunks stay as they should be.
LEMMA TakeCuts ==
  ASSUME NEW words \in Seq(Nat \ {0}), NEW max \in Nat, NEW overlap \in Nat,
         NEW chunks \in Pieces(words), NEW w \in 1..Len(words),
         Cut(words, chunks, w - 1, max, overlap)
  PROVE  Cut(words, Take(words, chunks, w, max, overlap), w, max, overlap)
<1> DEFINE l    == Len(chunks)
           p    == chunks[l]
           S    == Seq(1..Len(words))
           next == Take(words, chunks, w, max, overlap)
           q    == Append(Carry(words, p, overlap), w)
           r    == Append(p, w)
<1>1. chunks \in Seq(S) /\ chunks # <<>> /\ l \in Nat \ {0} /\ p \in S /\ l \in 1..l /\ 1 \in 1..l
  <2>1. chunks \in Seq(S) /\ chunks # <<>>
    BY DEF Pieces
  <2>2. l \in Nat \ {0}
    BY <2>1
  <2> QED BY <2>1, <2>2, ItemIs
<1>2. Consecutive(p) /\ p[Len(p)] = w - 1 /\ p # <<>>
  BY <1>1 DEF Cut, Consecutive
<1>3. next = IF LengthOf(words, r) > max THEN Append(chunks, q) ELSE Append(Front(chunks), r)
  BY <1>2, TakeIs
<1>4. CASE LengthOf(words, r) > max
  <2>1. /\ q \in S /\ Consecutive(q) /\ q[Len(q)] = w
        /\ \E n \in Nat : Joined(words, p, q, n, max, overlap)
    BY <1>1, <1>2, <1>4, NextChunk
  <2> HIDE DEF q, p, S, next
  <2>2. /\ next = Append(chunks, q) /\ Len(next) = l + 1 /\ next[l + 1] = q
        /\ \A c \in 1..l : next[c] = chunks[c]
        /\ \A c \in 1..l + 1 : c # l + 1 => c \in 1..l
    BY <1>1, <1>3, <1>4, <2>1, AppendIs
  <2>3. ASSUME NEW c \in 1..Len(next)
        PROVE  /\ Consecutive(next[c])
               /\ c > 1 => \E n \in Nat : Joined(words, next[c - 1], next[c], n, max, overlap)
    <3>1. CASE c = l + 1
      <4>1. c - 1 = l /\ next[c - 1] = p
        BY <1>1, <2>2, <3>1 DEF p
      <4> QED BY <2>1, <2>2, <3>1, <4>1
    <3>2. CASE c \in 1..l
      <4>1. c > 1 => next[c - 1] = chunks[c - 1]
        <5>1. c > 1 => c - 1 \in 1..l
          BY <1>1, <3>2
        <5> QED BY <2>2, <5>1
      <4> QED BY <2>2, <3>2, <4>1 DEF Cut
    <3> QED BY <2>2, <3>1, <3>2
  <2>4. next[1][1] = 1
    BY <1>1, <2>2 DEF Cut
  <2>5. Cut(words, next, w, max, overlap)
    BY <2>1, <2>2, <2>3, <2>4 DEF Cut
  <2> QED BY <2>5 DEF next
<1>5. CASE ~(LengthOf(words, r) > max)
  <2>1. /\ r \in S /\ Consecutive(r) /\ r[Len(r)] = w /\ r[1] = p[1]
        /\ \A b : \A n \in Nat :
             Joined(words, b, p, n, max, overlap) => Joined(words, b, r, n, max, overlap)
    BY <1>1, <1>2, <1>5, LongerChunk
  <2> DEFINE f == Front(chunks)
             k == l - 1
  <2> HIDE DEF r, S, next
  <2>2. /\ f \in Seq(S) /\ Len(f) = k
        /\ \A c \in 1..l : c # l => c \in 1..k /\ f[c] = chunks[c]
        /\ k \in Nat /\ k + 1 = l
    <3>1. /\ f \in Seq(S) /\ Len(f) = l - 1
          /\ \A c \in 1..l : c # l => c \in 1..Len(f) /\ f[c] = chunks[c]
      BY <1>1, LastIs
    <3> HIDE DEF f
    <3>2. Len(f) = k /\ k \in Nat /\ k + 1 = l
      BY <1>1, <3>1
    <3> QED BY <3>1, <3>2
  <2> HIDE DEF f, k
  <2>3. /\ next = Append(f, r) /\ Len(next) = k + 1 /\ next[k + 1] = r
        /\ \A c \in 1..k : next[c] = f[c]
    <3>1. next = Append(f, r)
      BY <1>3, <1>5 DEF f
    <3> QED BY <2>1, <2>2, <3>1, AppendIs
  <2>4. /\ Len(next) = l /\ next[l] = r
        /\ \A c \in 1..l : c # l => next[c] = chunks[c]
    BY <2>2, <2>3
  <2>5. ASSUME NEW c \in 1..l
        PROVE  /\ Consecutive(next[c])
               /\ c > 1 => \E n \in Nat : Joined(words, next[c - 1], next[c], n, max, overlap)
    <3>1. c > 1 => c - 1 \in 1..l /\ next[c - 1] = chunks[c - 1]
      <4>1. c > 1 => c - 1 \in 1..l /\ c - 1 # l
        BY <1>1
      <4> QED BY <2>4, <4>1
    <3>2. CASE c = l
      <4>1. c > 1 => \E n \in Nat : Joined(words, chunks[c - 1], p, n, max, overlap)
        BY <3>2 DEF Cut
      <4> QED BY <2>1, <2>4, <3>1, <3>2, <4>1
    <3>3. CASE c # l
      BY <2>4, <3>1, <3>3 DEF Cut
    <3> QED BY <3>2, <3>3
  <2>6. next[1][1] = 1
    <3>1. CASE l = 1
      BY <2>1, <2>4, <3>1 DEF Cut
    <3>2. CASE l # 1
      BY <1>1, <2>4, <3>2 DEF Cut
    <3> QED BY <3>1, <3>2
  <2>7. Cut(words, next, w, max, overlap)
    BY <2>1, <2>4, <2>5, <2>6 DEF Cut
  <2> QED BY <2>7 DEF next
<1> QED BY <1>4, <1>5

\* The first word.
LEMMA FirstChunk ==
  ASSUME NEW words \in Seq(Nat \ {0}), words # <<>>, NEW max \in Nat, NEW overlap \in Nat
  PROVE  /\ << <<>> >> \in Pieces(words)
         /\ Cut(words, Take(words, << <<>> >>, 1, max, overlap), 1, max, overlap)
<1> DEFINE chunks == << <<>> >>
           p == chunks[Len(chunks)]
           S == Seq(1..Len(words))
           f == Front(chunks)
           r == Append(p, 1)
           next == Append(f, r)
<1>1. 1 \in 1..Len(words) /\ <<>> \in S
  OBVIOUS
<1>2. chunks \in Seq(S) /\ chunks # <<>> /\ Len(chunks) = 1 /\ p = <<>>
  BY <1>1
<1>3. chunks \in Pieces(words)
  BY <1>2 DEF Pieces
<1>4. r \in S /\ Len(r) = 1 /\ r[1] = 1
  BY <1>1, <1>2
<1>5. f \in Seq(S) /\ Len(f) = 0
  <2> HIDE DEF S, chunks
  <2>1. f \in Seq(S) /\ Len(f) = Len(chunks) - 1
    BY <1>2, LastIs
  <2> QED BY <1>2, <2>1
<1>6. Take(words, chunks, 1, max, overlap) = next
  BY <1>1, <1>2, <1>3, TakeIs
<1> HIDE DEF chunks, p, S, f, r
<1>7. Len(next) = 1 /\ next[1] = r
  BY <1>4, <1>5, AppendIs
<1> HIDE DEF next
<1>8. Consecutive(r)
  <2>1. r # <<>> /\ \A i \in 1..Len(r) : i = 1
    BY <1>4, <1>1 DEF S
  <2> QED BY <1>4, <2>1 DEF Consecutive
<1>9. Cut(words, next, 1, max, overlap)
  <2>1. \A c \in 1..Len(next) : c = 1
    BY <1>7
  <2>2. next[1][1] = 1
    BY <1>4, <1>7
  <2>3. next[Len(next)][Len(next[Len(next)])] = 1
    <3>1. next[Len(next)] = r
      BY <1>7
    <3> QED BY <1>4, <3>1
  <2>4. \A c \in 1..Len(next) : Consecutive(next[c]) /\ ~(c > 1)
    BY <1>7, <1>8, <2>1
  <2> QED BY <2>2, <2>3, <2>4 DEF Cut
<1> QED BY <1>3, <1>6, <1>9 DEF chunks

LEMMA MaxOfTwo ==
  ASSUME NEW a \in Nat, NEW b \in Nat
  PROVE  Max({a, b}) = IF a >= b THEN a ELSE b
<1>1. \E m \in {a, b} : \A y \in {a, b} : m >= y
  OBVIOUS
<1>2. Max({a, b}) \in {a, b} /\ \A y \in {a, b} : Max({a, b}) >= y
  BY <1>1 DEF Max
<1> QED BY <1>2

\* Whatever the words, after the last of them they are cut.
LEMMA ChunkTextIs ==
  ASSUME NEW words \in Seq(Nat \ {0}), words # <<>>, NEW most \in Nat, NEW shared \in Nat
  PROVE  \E max \in Nat, overlap \in Nat :
           /\ max = IF most = 0 THEN 1 ELSE most
           /\ overlap <= shared
           /\ ChunkText(words, most, shared) \in Pieces(words)
           /\ Cut(words, ChunkText(words, most, shared), Len(words), max, overlap)
<1> DEFINE max     == Max({most, 1})
           overlap == Min({shared, max \div 2})
           n       == Len(words)
           V       == Pieces(words)
           base    == << <<>> >>
           step    == [p \in V \X (1..n) |-> Take(words, p[1], p[2], max, overlap)]
           after   == CHOOSE f : f = [i \in 0..n |-> IF i = 0 THEN base
                                                  ELSE Take(words, f[i - 1], i, max, overlap)]
<1>1. max \in Nat /\ max = IF most = 0 THEN 1 ELSE most
  BY MaxOfTwo
<1>2. ChunkText(words, most, shared) = after[n]
  BY DEF ChunkText
<1> HIDE DEF max
<1>3. overlap \in Nat /\ overlap <= shared
  <2>1. max \div 2 \in Nat
    BY <1>1
  <2> QED BY <2>1, MinIs
<1>4. n \in Nat /\ n # 0
  OBVIOUS
<1> HIDE DEF overlap
<1>5. base \in V /\ Cut(words, Take(words, base, 1, max, overlap), 1, max, overlap)
  BY <1>1, <1>3, FirstChunk
<1>6. \A p \in V, i \in 1..n : Take(words, p, i, max, overlap) \in V
  <2> SUFFICES ASSUME NEW p \in V, NEW i \in 1..n
               PROVE  Take(words, p, i, max, overlap) \in V
    OBVIOUS
  <2> QED BY <1>1, <1>3, TakeIs
<1>7. /\ step \in [V \X (1..n) -> V]
      /\ \A p \in V, i \in 1..n : step[<<p, i>>] = Take(words, p, i, max, overlap)
  BY <1>6
<1> HIDE DEF step, V, base, n, after
<1>8. PICK f \in [0..n -> V] : Runs(f, base, step, n)
  BY <1>4, <1>5, <1>7, Recursion
<1>9. f = [i \in 0..n |-> IF i = 0 THEN base ELSE Take(words, f[i - 1], i, max, overlap)]
  <2>1. \A i \in 0..n : i # 0 => i \in 1..n /\ i - 1 \in 0..n
    BY <1>4
  <2>2. \A i \in 0..n : f[i] = IF i = 0 THEN base ELSE Take(words, f[i - 1], i, max, overlap)
    BY <1>7, <1>8, <2>1 DEF Runs
  <2> QED BY <1>8, <2>2
<1>10. after = [i \in 0..n |-> IF i = 0 THEN base ELSE Take(words, after[i - 1], i, max, overlap)]
  BY <1>9 DEF after
<1>11. after[0] = base /\ \A i \in 1..n : after[i] = Take(words, after[i - 1], i, max, overlap)
  <2>1. 0 \in 0..n /\ \A i \in 1..n : i \in 0..n /\ i # 0
    BY <1>4
  <2> QED BY <1>10, <2>1
<1> DEFINE Good(i) == after[i] \in V /\ Cut(words, after[i], i, max, overlap)
           Wrong == {i \in 1..n : ~Good(i)}
<1>12. Wrong = {}
  <2>1. SUFFICES ASSUME Wrong # {} PROVE FALSE
    OBVIOUS
  <2>2. PICK m \in Wrong : \A l \in Wrong : m <= l
    <3>1. Wrong \in SUBSET Nat
      BY <1>4
    <3> HIDE DEF Wrong
    <3> QED BY <2>1, <3>1, Least
  <2>3. m \in 1..n /\ ~Good(m) /\ m \in Nat
    BY <1>4, <2>2
  <2>4. after[m] = Take(words, after[m - 1], m, max, overlap)
    BY <1>11, <2>3
  <2>5. CASE m = 1
    <3>1. after[1] = Take(words, base, 1, max, overlap)
      BY <1>11, <2>4, <2>5
    <3> QED BY <1>5, <1>6, <2>3, <2>5, <3>1
  <2>6. CASE m # 1
    <3>1. m - 1 \in 1..n /\ ~(m <= m - 1)
      BY <1>4, <2>3, <2>6
    <3>2. m - 1 \notin Wrong
      <4> HIDE DEF Wrong
      <4> QED BY <2>2, <3>1
    <3>3. Good(m - 1)
      BY <3>1, <3>2
    <3> DEFINE chunks == after[m - 1]
    <3>4. chunks \in V /\ Cut(words, chunks, m - 1, max, overlap)
      BY <3>3
    <3> HIDE DEF chunks
    <3>5. Cut(words, Take(words, chunks, m, max, overlap), m, max, overlap)
      BY <1>1, <1>3, <2>3, <3>4, TakeCuts DEF V, n
    <3> QED BY <1>6, <2>3, <2>4, <3>4, <3>5 DEF chunks
  <2> QED BY <2>5, <2>6
<1>13. Good(n)
  BY <1>4, <1>12
<1> QED BY <1>1, <1>2, <1>3, <1>13 DEF V, n

\* No word is left out.
LEMMA NoGap ==
  ASSUME NEW words \in Seq(Nat \ {0}), words # <<>>, NEW max \in Nat, NEW overlap \in Nat,
         NEW chunks \in Pieces(words), Cut(words, chunks, Len(words), max, overlap),
         NEW w \in 1..Len(words)
  PROVE  \E c \in 1..Len(chunks) : \E i \in 1..Len(chunks[c]) : chunks[c][i] = w
<1> DEFINE N == Len(words)
           l == Len(chunks)
           In(x) == \E c \in 1..l : \E i \in 1..Len(chunks[c]) : chunks[c][i] = x
           Left == {x \in 1..N : ~In(x)}
<1>0. N \in Nat /\ N # 0
  OBVIOUS
<1>1. chunks \in Seq(Seq(1..N)) /\ l \in Nat \ {0} /\ 1 \in 1..l
  <2>1. chunks \in Seq(Seq(1..N)) /\ chunks # <<>>
    BY DEF Pieces
  <2> QED BY <2>1
<1>2. \A c \in 1..l : chunks[c] \in Seq(1..N) /\ Consecutive(chunks[c])
  BY <1>1, ItemIs DEF Cut
<1>3. \A c \in 1..l : Len(chunks[c]) \in Nat \ {0} /\ 1 \in 1..Len(chunks[c])
  <2> SUFFICES ASSUME NEW c \in 1..l
               PROVE  Len(chunks[c]) \in Nat \ {0} /\ 1 \in 1..Len(chunks[c])
    OBVIOUS
  <2> DEFINE p == chunks[c]
  <2>1. p \in Seq(1..N) /\ p # <<>>
    BY <1>2 DEF Consecutive
  <2> HIDE DEF p
  <2>2. Len(p) \in Nat \ {0}
    BY <2>1
  <2> QED BY <2>2 DEF p
<1>4. Left = {}
  <2>1. SUFFICES ASSUME Left # {} PROVE FALSE
    OBVIOUS
  <2>2. PICK m \in Left : \A x \in Left : m <= x
    <3>1. Left \in SUBSET Nat
      BY <1>0
    <3> HIDE DEF Left
    <3> QED BY <2>1, <3>1, Least
  <2>3. m \in 1..N /\ ~In(m) /\ m \in Nat
    BY <1>0, <2>2
  <2>4. m # 1
    BY <1>1, <1>3, <2>3 DEF Cut
  <2> DEFINE x == m - 1
  <2>5. x \in 1..N /\ ~(m <= x) /\ x + 1 = m
    BY <1>0, <2>3, <2>4
  <2>6. In(x)
    <3> HIDE DEF Left, x
    <3>1. x \notin Left
      BY <2>2, <2>5
    <3> QED BY <2>5, <3>1 DEF Left
  <2> HIDE DEF x
  <2>7. PICK c \in 1..l : \E i \in 1..Len(chunks[c]) : chunks[c][i] = x
    BY <2>6
  <2>8. PICK i \in 1..Len(chunks[c]) : chunks[c][i] = x
    BY <2>7
  <2> DEFINE p == chunks[c]
             k == Len(p)
  <2>9. /\ k \in Nat \ {0} /\ i \in 1..k /\ p[i] = x
        /\ p \in Seq(1..N) /\ \A j \in 1..k : p[j] = p[1] + j - 1
    BY <1>2, <1>3, <2>8 DEF Consecutive
  <2> HIDE DEF p, k
  <2>10. CASE i # k
    <3>1. i + 1 \in 1..k /\ 1 \in 1..k
      BY <2>9, <2>10
    <3>2. p[1] \in Nat /\ p[i + 1] = p[1] + (i + 1) - 1 /\ p[i] = p[1] + i - 1
      <4>1. p[1] \in 1..N
        BY <2>9, <3>1, ItemIs DEF k
      <4>2. p[1] \in Nat
        BY <4>1
      <4> QED BY <2>9, <3>1, <4>2
    <3>3. p[i + 1] = m
      BY <2>5, <2>9, <3>2
    <3>4. In(m)
      BY <3>1, <3>3 DEF p, k
    <3> QED BY <2>3, <3>4
  <2>11. CASE i = k /\ c # l
    <3> DEFINE d == c + 1
               q == chunks[d]
    <3>1. d \in 1..l /\ d > 1 /\ d - 1 = c
      BY <1>1, <2>11
    <3>2. PICK n \in Nat : Joined(words, p, q, n, max, overlap)
      <4>1. PICK n \in Nat : Joined(words, chunks[d - 1], chunks[d], n, max, overlap)
        BY <3>1 DEF Cut
      <4> QED BY <3>1, <4>1 DEF p
    <3>3. n < Len(q) /\ q[1] + n = p[k] + 1
      BY <3>2 DEF Joined, k
    <3>4. q \in Seq(1..N) /\ Len(q) \in Nat \ {0} /\ \A j \in 1..Len(q) : q[j] = q[1] + j - 1
      BY <1>2, <1>3, <3>1 DEF Consecutive
    <3> HIDE DEF q, d
    <3>5. n + 1 \in 1..Len(q) /\ 1 \in 1..Len(q)
      <4> DEFINE h == Len(q)
      <4>1. n < h /\ h \in Nat
        BY <3>3, <3>4
      <4> HIDE DEF h
      <4> QED BY <4>1 DEF h
    <3>6. q[1] \in 1..N /\ q[n + 1] = q[1] + (n + 1) - 1
      BY <3>4, <3>5, ItemIs
    <3>7. q[n + 1] = m
      <4> DEFINE a == q[1]
                 b == q[n + 1]
      <4>1. a \in Nat /\ b = a + (n + 1) - 1 /\ a + n = x + 1
        <5>1. a \in Nat
          BY <3>6
        <5> QED BY <2>9, <2>11, <3>3, <3>6, <5>1
      <4> HIDE DEF a, b
      <4>2. b = m
        BY <2>5, <4>1
      <4> QED BY <4>2 DEF b
    <3>8. In(m)
      BY <3>1, <3>5, <3>7 DEF q
    <3> QED BY <2>3, <3>8
  <2>12. CASE i = k /\ c = l
    <3>1. p[k] = N
      BY <2>12 DEF Cut, p, k
    <3> QED BY <1>0, <2>3, <2>5, <2>9, <2>12, <3>1
  <2> QED BY <2>10, <2>11, <2>12
<1> QED BY <1>4

\* What two chunks share.
LEMMA SharedIs ==
  ASSUME NEW N \in Nat, NEW p \in Seq(1..N), NEW q \in Seq(1..N), Consecutive(p), Consecutive(q),
         NEW n \in Nat, n <= Len(p), n < Len(q), q[1] + n = p[Len(p)] + 1
  PROVE  {i \in 1..Len(q) : q[i] \in Range(p)} = 1..n
<1> DEFINE k == Len(p)
           l == Len(q)
           a == p[1]
           b == q[1]
<1>1. /\ k \in Nat /\ k # 0 /\ l \in Nat /\ l # 0
      /\ \A i \in 1..k : p[i] = a + i - 1
      /\ \A i \in 1..l : q[i] = b + i - 1
  BY DEF Consecutive
<1>2. a \in Nat /\ b \in Nat
  <2>1. 1 \in 1..k /\ 1 \in 1..l
    BY <1>1
  <2>2. a \in 1..N /\ b \in 1..N
    BY <2>1, ItemIs
  <2> QED BY <2>2
<1>3. b + n = (a + k - 1) + 1
  <2>1. k \in 1..k
    BY <1>1
  <2>2. p[k] = a + k - 1
    BY <1>1, <2>1
  <2> QED BY <2>2
<1>4. Range(p) = {p[i] : i \in 1..k}
  <2>1. DOMAIN p = 1..k
    OBVIOUS
  <2> QED BY <2>1 DEF Range
<1>5. n <= k /\ n < l
  OBVIOUS
<1> HIDE DEF k, l, a, b
<1>6. ASSUME NEW i \in 1..n
      PROVE  i \in 1..l /\ q[i] \in Range(p)
  <2> DEFINE j == k - n + i
  <2>1. i \in 1..l /\ j \in 1..k /\ b + i - 1 = a + j - 1
    BY <1>1, <1>2, <1>3, <1>5
  <2>2. q[i] = b + i - 1 /\ p[j] = a + j - 1
    BY <1>1, <2>1
  <2> HIDE DEF j
  <2>3. q[i] = p[j]
    BY <2>1, <2>2
  <2> QED BY <1>4, <2>1, <2>3
<1>7. ASSUME NEW i \in 1..l, q[i] \in Range(p)
      PROVE  i \in 1..n
  <2>1. PICK j \in 1..k : q[i] = p[j]
    BY <1>4, <1>7
  <2>2. b + i - 1 = a + j - 1
    BY <1>1, <2>1
  <2> QED BY <1>1, <1>2, <1>3, <1>5, <2>2
<1> QED BY <1>6, <1>7 DEF l

LEMMA NumbersCount ==
  ASSUME NEW n \in Nat
  PROVE  Cardinality(1..n) = n
<1>1. 1 \in Int /\ n \in Int
  OBVIOUS
<1>2. Cardinality(1..n) = IF 1 > n THEN 0 ELSE n - 1 + 1
  BY <1>1, FS_Interval
<1> QED BY <1>2

\* What ChunksCover says of one chunk after another.
Follows(words, p, q, most, shared) ==
  LET same    == {i \in 1..Len(q) : q[i] \in Range(p)}
      carried == SubSeq(q, 1, Cardinality(same))
  IN  /\ LengthOf(words, carried) <= shared
      /\ q[Len(carried) + 1] = Last(p) + 1
      /\ LengthOf(words, Append(p, Last(p) + 1)) > most
      /\ LengthOf(words, q) > most => Len(q) = Len(carried) + 1

LEMMA NextIs ==
  ASSUME NEW words \in Seq(Nat \ {0}), NEW most \in Nat, NEW shared \in Nat,
         NEW max \in Nat, NEW overlap \in Nat,
         max = IF most = 0 THEN 1 ELSE most, overlap <= shared,
         NEW p \in Seq(1..Len(words)), NEW q \in Seq(1..Len(words)),
         Consecutive(p), Consecutive(q),
         NEW n \in Nat, Joined(words, p, q, n, max, overlap)
  PROVE  Follows(words, p, q, most, shared)
<1> DEFINE N == Len(words)
           k == Len(p)
           l == Len(q)
           same == {i \in 1..Len(q) : q[i] \in Range(p)}
           carried == SubSeq(q, 1, n)
           next == Append(p, p[k] + 1)
<1>1. /\ n <= k /\ n < l /\ q[1] + n = p[k] + 1
      /\ LengthOf(words, carried) <= overlap
      /\ LengthOf(words, next) > max
      /\ LengthOf(words, q) > max => l = n + 1
  BY DEF Joined
<1>2. k \in Nat /\ k # 0 /\ l \in Nat /\ l # 0 /\ N \in Nat
  BY DEF Consecutive
<1>3. Cardinality(same) = n
  <2>1. same = 1..n
    BY <1>1, <1>2, SharedIs
  <2> QED BY <2>1, NumbersCount
<1>4. carried \in Seq(1..N) /\ Len(carried) = n
  <2>1. n <= Len(q)
    <3>1. n < l
      BY <1>1
    <3> HIDE DEF l
    <3>2. n <= l
      BY <1>2, <3>1
    <3> QED BY <3>2 DEF l
  <2> QED BY <2>1, SubIs
<1>5. Last(p) = p[k]
  BY DEF Last
<1>6. n + 1 \in 1..l /\ 1 \in 1..l /\ k \in 1..k
  BY <1>1, <1>2
<1>7. q[1] \in 1..N /\ q[n + 1] \in 1..N /\ p[k] \in 1..N
  BY <1>6, ItemIs
<1>8. q[n + 1] = p[k] + 1
  <2>1. q[n + 1] = q[1] + (n + 1) - 1
    BY <1>6 DEF Consecutive
  <2> DEFINE a == q[1]
             b == q[n + 1]
             c == p[k]
  <2>2. a \in Nat /\ c \in Nat /\ b = a + (n + 1) - 1 /\ a + n = c + 1
    <3>1. a \in Nat /\ c \in Nat
      <4>1. \A x \in 1..N : x \in Nat
        BY <1>2
      <4> HIDE DEF N, k
      <4> QED BY <1>7, <4>1
    <3> QED BY <1>1, <2>1, <3>1
  <2> HIDE DEF a, b, c
  <2>3. b = c + 1
    BY <2>2
  <2> QED BY <2>3 DEF b, c
<1>9. next \in Seq(1..N) /\ LengthOf(words, next) \in Nat /\ LengthOf(words, q) \in Nat
      /\ LengthOf(words, carried) \in Nat
  <2>1. p[k] + 1 \in 1..N
    BY <1>7, <1>8
  <2>2. next \in Seq(1..N)
    BY <2>1, AppendIs
  <2> HIDE DEF next, carried
  <2> QED BY <1>4, <2>2, LengthIs
<1>10. LengthOf(words, carried) <= shared
  BY <1>1, <1>9
<1>11. LengthOf(words, next) > most
  <2> DEFINE h == LengthOf(words, next)
  <2>1. h > max /\ h \in Nat
    BY <1>1, <1>9
  <2> HIDE DEF h
  <2>2. h > most
    BY <2>1
  <2> QED BY <2>2 DEF h
<1>12. LengthOf(words, q) > most => l = n + 1
  <2>1. CASE most # 0
    BY <1>1, <2>1
  <2>2. CASE most = 0
    <3>1. CASE l >= 2
      <4>1. LengthOf(words, q) >= 2
        BY <3>1, LengthIs
      <4> QED BY <1>1, <1>9, <2>2, <4>1
    <3>2. CASE ~(l >= 2)
      BY <1>1, <1>2, <3>2
    <3> QED BY <3>1, <3>2
  <2> QED BY <2>1, <2>2
<1> HIDE DEF k, l, next, same, carried
<1> QED BY <1>3, <1>4, <1>5, <1>8, <1>10, <1>11, <1>12 DEF k, l, next, same, carried, Follows

\* A text of any words, cut at any length with any overlap.
LEMMA TextsAreCovered ==
  ASSUME NEW words \in Seq(Nat \ {0}), NEW most \in Nat, NEW shared \in Nat
  PROVE  ChunksCover(words, most, shared)
<1> DEFINE chunks == ChunkText(words, most, shared)
           N == Len(words)
           l == Len(chunks)
           ranges == UNION {Range(c) : c \in Range(chunks)}
<1>1. SUFFICES /\ ranges = 1..N
               /\ \A c \in 1..l :
                    /\ chunks[c] # <<>>
                    /\ \A i \in 1..Len(chunks[c]) - 1 : chunks[c][i + 1] = chunks[c][i] + 1
                    /\ c > 1 => Follows(words, chunks[c - 1], chunks[c], most, shared)
  BY DEF ChunksCover, Follows
<1>2. CASE words = <<>>
  <2>1. chunks = <<>> /\ N = 0
    BY <1>2 DEF ChunkText
  <2>2. Range(chunks) = {} /\ l = 0
    BY <2>1 DEF Range
  <2>3. ranges = {} /\ 1..N = {} /\ 1..l = {}
    BY <2>1, <2>2
  <2> QED BY <2>3
<1>3. CASE words # <<>>
  <2>1. PICK max \in Nat, overlap \in Nat :
          /\ max = IF most = 0 THEN 1 ELSE most
          /\ overlap <= shared
          /\ chunks \in Pieces(words)
          /\ Cut(words, chunks, N, max, overlap)
    BY <1>3, ChunkTextIs
  <2> HIDE DEF chunks
  <2>2. chunks \in Seq(Seq(1..N)) /\ N \in Nat
    BY <2>1 DEF Pieces
  <2>3. \A c \in 1..l : chunks[c] \in Seq(1..N) /\ Consecutive(chunks[c])
    BY <2>1, <2>2, ItemIs DEF Cut
  <2>4. ranges = 1..N
    <3>1. ASSUME NEW w \in 1..N PROVE w \in ranges
      <4>0. /\ chunks \in Pieces(words) /\ Cut(words, chunks, Len(words), max, overlap)
            /\ w \in 1..Len(words)
        BY <2>1
      <4>1. PICK c \in 1..l : \E i \in 1..Len(chunks[c]) : chunks[c][i] = w
        <5> HIDE DEF ranges, N
        <5> QED BY <1>3, <4>0, NoGap
      <4>2. PICK i \in 1..Len(chunks[c]) : chunks[c][i] = w
        BY <4>1
      <4>3. chunks[c] \in Range(chunks)
        <5>1. DOMAIN chunks = 1..l
          BY <2>2
        <5> QED BY <5>1 DEF Range
      <4>4. w \in Range(chunks[c])
        <5>1. DOMAIN chunks[c] = 1..Len(chunks[c])
          BY <2>3
        <5> QED BY <4>2, <5>1 DEF Range
      <4> QED BY <4>3, <4>4
    <3>2. ASSUME NEW s \in Range(chunks), NEW w \in Range(s) PROVE w \in 1..N
      <4>1. PICK c \in 1..l : s = chunks[c]
        BY <2>2 DEF Range
      <4>2. s \in Seq(1..N)
        BY <2>3, <4>1
      <4>3. PICK i \in 1..Len(s) : w = s[i]
        BY <4>2 DEF Range
      <4> QED BY <4>2, <4>3, ItemIs
    <3> QED BY <3>1, <3>2
  <2>5. ASSUME NEW c \in 1..l
        PROVE  /\ chunks[c] # <<>>
               /\ \A i \in 1..Len(chunks[c]) - 1 : chunks[c][i + 1] = chunks[c][i] + 1
               /\ c > 1 => Follows(words, chunks[c - 1], chunks[c], most, shared)
    <3> DEFINE q == chunks[c]
    <3>1. q \in Seq(1..N) /\ Consecutive(q)
      BY <2>3
    <3>2. ASSUME NEW i \in 1..Len(q) - 1
          PROVE  q[i + 1] = q[i] + 1
      <4> HIDE DEF q
      <4>1. i \in 1..Len(q) /\ i + 1 \in 1..Len(q) /\ 1 \in 1..Len(q)
        BY <3>1
      <4>2. q[1] \in 1..N
        BY <3>1, <4>1, ItemIs
      <4>3. q[i] = q[1] + i - 1 /\ q[i + 1] = q[1] + (i + 1) - 1
        BY <3>1, <4>1 DEF Consecutive
      <4> DEFINE a == q[1]
      <4>4. a \in Nat /\ q[i] = a + i - 1 /\ q[i + 1] = a + (i + 1) - 1
        BY <4>2, <4>3
      <4> HIDE DEF a
      <4> QED BY <4>4
    <3>3. ASSUME c > 1 PROVE Follows(words, chunks[c - 1], chunks[c], most, shared)
      <4> DEFINE p == chunks[c - 1]
      <4>1. c - 1 \in 1..l
        BY <3>3
      <4>2. p \in Seq(1..N) /\ Consecutive(p)
        BY <2>3, <4>1
      <4>3. PICK n \in Nat : Joined(words, p, q, n, max, overlap)
        BY <2>1, <3>3 DEF Cut
      <4> HIDE DEF p, q
      <4>4. max = IF most = 0 THEN 1 ELSE most
        BY <2>1
      <4>5. Follows(words, p, q, most, shared)
        BY <2>1, <3>1, <4>2, <4>3, <4>4, NextIs
      <4> QED BY <4>5 DEF p, q
    <3>4. q # <<>>
      BY <3>1 DEF Consecutive
    <3> QED BY <3>2, <3>3, <3>4
  <2> QED BY <2>4, <2>5
<1> QED BY <1>2, <1>3

\* The calls are those of the beginning.
CallsInv == calls \in Histories

LEMMA CallsStay == CallsInv /\ [Next]_vars => CallsInv'
BY DEF CallsInv, Next, Step, vars, Begin, Forget, Retry, GiveUp, Embedded, Store, StoreFails

LEMMA HistoriesAreCovered == CallsInv => CallsCover
<1> SUFFICES ASSUME calls \in Histories, NEW c \in 1..Len(calls), calls[c].op = "document"
             PROVE  ChunksCover(calls[c].words, calls[c].max, calls[c].overlap)
  BY DEF CallsCover, CallsInv
<1>1. /\ calls[c].words \in Seq(Nat \ {0})
      /\ calls[c].max \in Nat /\ calls[c].overlap \in Nat
  BY MemoryAssumption
<1> QED BY <1>1, TextsAreCovered

\* THEOREM.  Whatever the words of a document, its max_chars and its overlap, the
\* chunks hold every word in order, begin with what they carry over, which is at most
\* the overlap, and are longer than max_chars only where ChunksCover says (chunk_text).
THEOREM NoWordIsLost == Spec => []CallsCover
<1>1. Init => CallsInv
  BY DEF Init, CallsInv
<1> QED BY <1>1, CallsStay, HistoriesAreCovered, PTL DEF Spec

-----------------------------------------------------------------------------
(* Induction, as facts about sets *)

\* A set of sequences that has the empty one, and with each its extensions, has all;
\* so for the numbers up to a bound.
LEMMA SequencesAll ==
  ASSUME NEW S, NEW P \in SUBSET Seq(S), <<>> \in P,
         \A s \in P : \A x \in S : Append(s, x) \in P
  PROVE  P = Seq(S)
<1> DEFINE Lengths == {n \in Nat : \E s \in Seq(S) : s \notin P /\ Len(s) = n}
<1>1. SUFFICES ASSUME Lengths # {} PROVE FALSE
  <2>1. \A s \in Seq(S) : Len(s) \in Nat
    OBVIOUS
  <2> QED BY <2>1
<1>2. PICK m \in Lengths : \A n \in Lengths : m <= n
  <2>1. Lengths \in SUBSET Nat
    OBVIOUS
  <2> HIDE DEF Lengths
  <2> QED BY <1>1, <2>1, Least
<1>3. PICK s \in Seq(S) : s \notin P /\ Len(s) = m
  BY <1>2
<1>4. s # <<>>
  BY <1>3
<1>5. /\ Front(s) \in Seq(S) /\ Len(Front(s)) = m - 1 /\ m - 1 \in Nat /\ ~(m <= m - 1)
      /\ Last(s) \in S /\ s = Append(Front(s), Last(s))
  <2>1. /\ Len(s) \in Nat \ {0} /\ Last(s) = s[Len(s)] /\ Last(s) \in S
        /\ Front(s) \in Seq(S) /\ Len(Front(s)) = Len(s) - 1
        /\ \A i \in 1..Len(s) : i # Len(s) => i \in 1..Len(Front(s)) /\ Front(s)[i] = s[i]
    BY <1>4, LastIs
  <2> DEFINE f == Front(s)
             x == Last(s)
             t == Append(f, x)
  <2> HIDE DEF f, x
  <2>2. f \in Seq(S) /\ x \in S
    BY <2>1 DEF f, x
  <2>3. /\ t \in Seq(S) /\ Len(t) = Len(f) + 1 /\ \A i \in 1..Len(f) : t[i] = f[i]
        /\ t[Len(f) + 1] = x
    BY <2>2, AppendIs
  <2> HIDE DEF t
  <2>4. Len(f) = m - 1 /\ m \in Nat \ {0}
    BY <1>3, <2>1 DEF f
  <2>5. Len(t) = Len(s) /\ \A i \in 1..Len(s) : s[i] = t[i]
    <3>1. Len(t) = Len(s)
      BY <1>3, <2>3, <2>4
    <3>2. ASSUME NEW i \in 1..Len(s) PROVE s[i] = t[i]
      <4>1. CASE i = Len(s)
        BY <1>3, <2>1, <2>3, <2>4, <4>1 DEF x
      <4>2. CASE i # Len(s)
        BY <2>1, <2>3, <4>2 DEF f
      <4> QED BY <4>1, <4>2
    <3> QED BY <3>1, <3>2
  <2>6. s = t
    BY <2>3, <2>5, SameSeq
  <2> QED BY <2>1, <2>4, <2>6 DEF f, x, t
<1>6. Front(s) \in P
  <2> DEFINE f == Front(s)
  <2> HIDE DEF f
  <2>1. f \in Seq(S) /\ Len(f) = m - 1 /\ m - 1 \in Nat /\ ~(m <= m - 1)
    BY <1>5 DEF f
  <2>2. m - 1 \notin Lengths
    <3> HIDE DEF Lengths
    <3> QED BY <1>2, <2>1
  <2>3. f \in P
    BY <2>1, <2>2
  <2> QED BY <2>3 DEF f
<1> QED BY <1>3, <1>5, <1>6

LEMMA NumbersAll ==
  ASSUME NEW n \in Nat, NEW P \in SUBSET (0..n), 0 \in P,
         \A i \in 1..n : i - 1 \in P => i \in P
  PROVE  P = 0..n
<1> DEFINE Others == {i \in 0..n : i \notin P}
<1>1. SUFFICES ASSUME Others # {} PROVE FALSE
  OBVIOUS
<1>2. PICK m \in Others : \A i \in Others : m <= i
  <2>1. Others \in SUBSET Nat
    OBVIOUS
  <2> HIDE DEF Others
  <2> QED BY <1>1, <2>1, Least
<1>3. m \in 0..n /\ m \notin P
  BY <1>2
<1>4. m \in 1..n /\ m - 1 \in 0..n /\ ~(m <= m - 1)
  BY <1>3
<1>5. m - 1 \notin Others
  <2> HIDE DEF Others
  <2> QED BY <1>2, <1>4
<1> QED BY <1>3, <1>4, <1>5

-----------------------------------------------------------------------------
(* What is chosen of a sequence *)

Chosen(f, s, A, n) ==
  f[0] = <<>> /\ \A i \in 1..n : f[i] = IF s[i] \in A THEN Append(f[i - 1], s[i]) ELSE f[i - 1]

\* Among comes to what its recursive function does, whose values are sequences.
LEMMA AmongIs ==
  ASSUME NEW S, NEW s \in Seq(S), NEW A
  PROVE  \E f \in [0..Len(s) -> Seq(S)] : Chosen(f, s, A, Len(s)) /\ Among(s, A) = f[Len(s)]
<1> DEFINE n == Len(s)
           V == Seq(S)
           base == <<>>
           step == [p \in V \X (1..n) |-> IF s[p[2]] \in A THEN Append(p[1], s[p[2]]) ELSE p[1]]
           G(h) == [i \in 0..n |-> IF i = 0 THEN <<>>
                                   ELSE IF s[i] \in A THEN Append(h[i - 1], s[i]) ELSE h[i - 1]]
           g == CHOOSE h : h = G(h)
<1>1. n \in Nat /\ base \in V
  OBVIOUS
<1>2. \A t \in V, i \in 1..n :
        /\ step[<<t, i>>] = IF s[i] \in A THEN Append(t, s[i]) ELSE t
        /\ step[<<t, i>>] \in V
  <2> SUFFICES ASSUME NEW t \in V, NEW i \in 1..n
               PROVE  /\ step[<<t, i>>] = IF s[i] \in A THEN Append(t, s[i]) ELSE t
                      /\ step[<<t, i>>] \in V
    OBVIOUS
  <2>1. step[<<t, i>>] = IF s[i] \in A THEN Append(t, s[i]) ELSE t
    OBVIOUS
  <2>2. s[i] \in S
    BY ItemIs
  <2>3. Append(t, s[i]) \in V
    BY <2>2, AppendIs
  <2> QED BY <2>1, <2>3
<1>3. step \in [V \X (1..n) -> V]
  <2>1. ASSUME NEW p \in V \X (1..n) PROVE step[p] \in V
    <3>1. p = <<p[1], p[2]>> /\ p[1] \in V /\ p[2] \in 1..n
      OBVIOUS
    <3> HIDE DEF step, V
    <3> QED BY <1>2, <3>1
  <2>2. step = [p \in V \X (1..n) |-> step[p]]
    OBVIOUS
  <2> HIDE DEF step, V
  <2> QED BY <2>1, <2>2
<1>4. Among(s, A) = g[n]
  BY DEF Among
<1> HIDE DEF step, V, base, n, g
<1>5. PICK f \in [0..n -> V] : Runs(f, base, step, n)
  BY <1>1, <1>3, Recursion
<1>6. ASSUME NEW i \in 1..n
      PROVE  f[i] = IF s[i] \in A THEN Append(f[i - 1], s[i]) ELSE f[i - 1]
  <2>1. i - 1 \in 0..n /\ f[i - 1] \in V
    BY <1>1, <1>5
  <2> QED BY <1>2, <1>5, <2>1 DEF Runs
<1>7. f = G(f)
  <2>1. \A i \in 0..n : i # 0 => i \in 1..n
    BY <1>1
  <2>2. f[0] = <<>>
    BY <1>5 DEF Runs, base
  <2> QED BY <1>5, <1>6, <2>1, <2>2
<1>8. g = G(g)
  BY <1>7 DEF g
<1> DEFINE P == {i \in 0..n : g[i] = f[i]}
<1>9. P = 0..n
  <2>1. P \in SUBSET (0..n) /\ 0 \in P
    BY <1>1, <1>7, <1>8
  <2>2. ASSUME NEW i \in 1..n, i - 1 \in P PROVE i \in P
    <3>1. i \in 0..n /\ i # 0
      BY <1>1
    <3>2. g[i] = IF s[i] \in A THEN Append(g[i - 1], s[i]) ELSE g[i - 1]
      BY <1>8, <3>1
    <3>3. g[i - 1] = f[i - 1]
      BY <2>2
    <3>4. g[i] = f[i]
      BY <1>6, <3>2, <3>3
    <3> QED BY <3>1, <3>4
  <2> HIDE DEF P
  <2> QED BY <1>1, <2>1, <2>2, NumbersAll
<1>10. g[n] = f[n]
  BY <1>1, <1>9
<1>11. Chosen(f, s, A, n)
  BY <1>5, <1>6 DEF Chosen, Runs, base
<1> QED BY <1>4, <1>5, <1>10, <1>11 DEF n, V

\* Among takes one more, or not.
LEMMA AmongAppend ==
  ASSUME NEW S, NEW s \in Seq(S), NEW x \in S, NEW A
  PROVE  /\ Among(s, A) \in Seq(S)
         /\ x \in A => Among(Append(s, x), A) = Append(Among(s, A), x)
         /\ x \notin A => Among(Append(s, x), A) = Among(s, A)
<1> DEFINE n == Len(s)
           t == Append(s, x)
           m == n + 1
<1>1. /\ t \in Seq(S) /\ Len(t) = m /\ n \in Nat
      /\ \A i \in 1..n : t[i] = s[i]
      /\ t[m] = x
  BY AppendIs
<1>2. PICK f \in [0..n -> Seq(S)] : Chosen(f, s, A, n) /\ Among(s, A) = f[n]
  BY AmongIs
<1> HIDE DEF t
<1>3. PICK g \in [0..m -> Seq(S)] : Chosen(g, t, A, m) /\ Among(t, A) = g[m]
  BY <1>1, AmongIs
<1>4. m \in 1..m /\ m - 1 = n /\ n \in 0..n /\ \A i \in 1..n : i \in 1..m
  BY <1>1
<1> HIDE DEF n, m
<1> DEFINE P == {i \in 0..n : g[i] = f[i]}
<1>5. P = 0..n
  <2>1. P \in SUBSET (0..n) /\ 0 \in P
    BY <1>1, <1>2, <1>3 DEF Chosen
  <2>2. ASSUME NEW i \in 1..n, i - 1 \in P PROVE i \in P
    <3>1. i \in 0..n /\ g[i - 1] = f[i - 1]
      BY <1>1, <2>2
    <3>2. g[i] = IF s[i] \in A THEN Append(g[i - 1], s[i]) ELSE g[i - 1]
      BY <1>1, <1>3, <1>4 DEF Chosen
    <3>3. f[i] = IF s[i] \in A THEN Append(f[i - 1], s[i]) ELSE f[i - 1]
      BY <1>2 DEF Chosen
    <3> HIDE DEF P
    <3>4. g[i] = f[i]
      BY <3>1, <3>2, <3>3
    <3> QED BY <3>1, <3>4 DEF P
  <2> HIDE DEF P
  <2> QED BY <1>1, <2>1, <2>2, NumbersAll
<1>6. g[n] = f[n]
  BY <1>4, <1>5
<1>7. g[m] = IF t[m] \in A THEN Append(g[m - 1], t[m]) ELSE g[m - 1]
  BY <1>3, <1>4 DEF Chosen
<1>8. f[n] \in Seq(S)
  BY <1>2, <1>4
<1> QED BY <1>1, <1>2, <1>3, <1>4, <1>6, <1>7, <1>8 DEF t

LEMMA AmongTakes ==
  ASSUME NEW S, NEW s \in Seq(S), NEW A, NEW x \in S, x \in A
  PROVE  Among(Append(s, x), A) = Append(Among(s, A), x)
BY AmongAppend

LEMMA AmongSkips ==
  ASSUME NEW S, NEW s \in Seq(S), NEW A, NEW x \in S, x \notin A
  PROVE  Among(Append(s, x), A) = Among(s, A)
BY AmongAppend

LEMMA AmongNothing == \A A : Among(<<>>, A) = <<>>
<1> SUFFICES ASSUME NEW A PROVE Among(<<>>, A) = <<>>
  OBVIOUS
<1> DEFINE s == <<>>
<1>1. s \in Seq({}) /\ Len(s) = 0
  OBVIOUS
<1> HIDE DEF s
<1>2. PICK f \in [0..Len(s) -> Seq({})] : Chosen(f, s, A, Len(s)) /\ Among(s, A) = f[Len(s)]
  BY <1>1, AmongIs
<1> QED BY <1>1, <1>2 DEF Chosen, s

\* f[i] is what the first i of the sequences come to.
Flattens(f, ss, n) ==
  \A i \in 1..n : f[i] = IF i = 1 THEN ss[i] ELSE f[i - 1] \o ss[i]

\* FlattenSeq comes to its last value, and takes one sequence after the other.
LEMMA FlatExists ==
  ASSUME NEW U, NEW ss \in Seq(Seq(U))
  PROVE  \E f \in [1..Len(ss) -> Seq(U)] : Flattens(f, ss, Len(ss))
<1> DEFINE Odd == {n \in 0..Len(ss) : ~\E f \in [1..n -> Seq(U)] : Flattens(f, ss, n)}
<1>0. Len(ss) \in Nat /\ \A i \in 1..Len(ss) : ss[i] \in Seq(U)
  OBVIOUS
<1>1. SUFFICES ASSUME Odd # {}
               PROVE  FALSE
  BY <1>0
<1>2. Odd \in SUBSET Nat
  BY <1>0
<1>3. PICK m \in Odd : \A n \in Odd : m <= n
  BY <1>1, <1>2, Least
<1>4. CASE m = 0
  <2> DEFINE f == [i \in 1..0 |-> <<>>]
  <2>1. f \in [1..0 -> Seq(U)] /\ Flattens(f, ss, 0)
    BY DEF Flattens
  <2> QED BY <1>3, <1>4, <2>1
<1>5. CASE m # 0
  <2>1. m \in 1..Len(ss) /\ m - 1 \in 0..Len(ss) /\ m - 1 \notin Odd
    <3>1. m \in 0..Len(ss)
      BY <1>3
    <3>2. m \in 1..Len(ss) /\ m - 1 \in 0..Len(ss) /\ ~(m <= m - 1)
      BY <1>0, <1>5, <3>1
    <3> HIDE DEF Odd
    <3> QED BY <1>3, <3>2
  <2>2. PICK f \in [1..(m - 1) -> Seq(U)] : Flattens(f, ss, m - 1)
    BY <2>1
  <2> DEFINE new == IF m = 1 THEN ss[m] ELSE f[m - 1] \o ss[m]
             g == [i \in 1..m |-> IF i = m THEN new ELSE f[i]]
  <2>3. new \in Seq(U)
    <3>1. CASE m = 1
      BY <1>0, <2>1, <3>1
    <3>2. CASE m # 1
      <4>1. f[m - 1] \in Seq(U) /\ ss[m] \in Seq(U)
        BY <1>0, <2>1, <2>2, <3>2
      <4> QED BY <3>2, <4>1
    <3> QED BY <3>1, <3>2
  <2>4. g \in [1..m -> Seq(U)]
    <3> HIDE DEF new
    <3>1. \A i \in 1..m : i # m => i \in 1..(m - 1)
      BY <2>1
    <3> QED BY <2>2, <2>3, <3>1
  <2>5. Flattens(g, ss, m)
    <3>1. \A i \in 1..m : i # m => i \in 1..(m - 1) /\ (i # 1 => i - 1 \in 1..m /\ i - 1 # m)
      BY <2>1
    <3>2. ASSUME NEW i \in 1..m, i # m
          PROVE  g[i] = IF i = 1 THEN ss[i] ELSE g[i - 1] \o ss[i]
      <4>1. g[i] = f[i] /\ (i # 1 => g[i - 1] = f[i - 1])
        BY <3>1, <3>2
      <4> QED BY <2>2, <3>1, <3>2, <4>1 DEF Flattens
    <3>3. g[m] = IF m = 1 THEN ss[m] ELSE g[m - 1] \o ss[m]
      <4>1. m \in 1..m /\ (m # 1 => m - 1 \in 1..m /\ m - 1 # m)
        BY <2>1
      <4> QED BY <4>1
    <3> HIDE DEF g
    <3> QED BY <3>2, <3>3 DEF Flattens
  <2>6. m \notin Odd
    BY <2>4, <2>5
  <2> QED BY <2>6
<1> QED BY <1>4, <1>5

LEMMA FlatIs ==
  ASSUME NEW U, NEW ss \in Seq(Seq(U)), Len(ss) # 0,
         NEW f \in [1..Len(ss) -> Seq(U)], Flattens(f, ss, Len(ss))
  PROVE  FlattenSeq(ss) = f[Len(ss)]
<1> DEFINE n == Len(ss)
           G(h) == [i \in 1..n |-> IF i = 1 THEN ss[i] ELSE h[i - 1] \o ss[i]]
           h0 == CHOOSE h : h = G(h)
<1>1. FlattenSeq(ss) = h0[n]
  BY DEF FlattenSeq
<1>2. f = G(f)
  BY DEF Flattens
<1>3. h0 = G(h0)
  BY <1>2
<1> HIDE DEF h0
<1>4. n \in Nat /\ n >= 1
  OBVIOUS
<1> DEFINE Diff == {i \in 1..n : h0[i] # f[i]}
<1>5. Diff = {}
  <2>1. SUFFICES ASSUME Diff # {}
                 PROVE  FALSE
    OBVIOUS
  <2>2. PICK m \in Diff : \A k \in Diff : m <= k
    <3>1. Diff \in SUBSET Nat
      BY <1>4
    <3> HIDE DEF Diff
    <3> QED BY <2>1, <3>1, Least
  <2>3. h0[m] = IF m = 1 THEN ss[m] ELSE h0[m - 1] \o ss[m]
    BY <1>3
  <2>4. f[m] = IF m = 1 THEN ss[m] ELSE f[m - 1] \o ss[m]
    BY DEF Flattens
  <2>5. m # 1 => m - 1 \in 1..n /\ m - 1 \notin Diff
    BY <1>4, <2>2
  <2> QED BY <2>2, <2>3, <2>4, <2>5
<1> QED BY <1>1, <1>4, <1>5

LEMMA FlattenAppend ==
  ASSUME NEW U, NEW ss \in Seq(Seq(U)), NEW x \in Seq(U)
  PROVE  /\ FlattenSeq(ss) \in Seq(U)
         /\ FlattenSeq(Append(ss, x)) = FlattenSeq(ss) \o x
<1> DEFINE n == Len(ss)
           t == Append(ss, x)
<1>1. /\ n \in Nat /\ t \in Seq(Seq(U)) /\ Len(t) = n + 1 /\ t[n + 1] = x
      /\ \A i \in 1..n : t[i] = ss[i]
  OBVIOUS
<1> HIDE DEF t
<1>2. PICK f \in [1..Len(t) -> Seq(U)] : Flattens(f, t, Len(t))
  BY <1>1, FlatExists
<1>3. FlattenSeq(t) = f[n + 1]
  BY <1>1, <1>2, FlatIs
<1>4. n + 1 \in 1..Len(t) /\ (n # 0 => n \in 1..Len(t)) /\ n + 1 - 1 = n
      /\ (n = 0 <=> n + 1 = 1)
  BY <1>1
<1>5. f[n + 1] = IF n = 0 THEN x ELSE f[n] \o x
  <2>1. \A i \in 1..Len(t) : f[i] = IF i = 1 THEN t[i] ELSE f[i - 1] \o t[i]
    BY <1>2 DEF Flattens
  <2> DEFINE k == n + 1
  <2>2. k \in 1..Len(t)
    BY <1>4
  <2> HIDE DEF k
  <2>3. f[k] = IF k = 1 THEN t[k] ELSE f[k - 1] \o t[k]
    BY <2>1, <2>2
  <2> USE DEF k
  <2> QED BY <1>1, <1>4, <2>3
<1>6. CASE n = 0
  <2>1. ss = <<>> /\ FlattenSeq(ss) = <<>>
    BY <1>6 DEF FlattenSeq
  <2>2. <<>> \in Seq(U) /\ <<>> \o x = x
    OBVIOUS
  <2> QED BY <1>3, <1>5, <1>6, <2>1, <2>2 DEF t
<1>7. CASE n # 0
  <2> DEFINE g == [i \in 1..n |-> f[i]]
  <2>1. \A i \in 1..n : i \in 1..Len(t) /\ (i # 1 => i - 1 \in 1..n)
    BY <1>1
  <2>2. g \in [1..n -> Seq(U)]
    BY <1>2, <2>1
  <2>3. Flattens(g, ss, n)
    BY <1>1, <1>2, <2>1 DEF Flattens
  <2>4. g[n] = f[n] /\ f[n] \in Seq(U)
    BY <1>1, <1>2, <1>4, <1>7
  <2> HIDE DEF g
  <2>5. FlattenSeq(ss) = f[n]
    BY <1>7, <2>2, <2>3, <2>4, FlatIs
  <2> QED BY <1>3, <1>5, <1>7, <2>4, <2>5 DEF t
<1> QED BY <1>6, <1>7

LEMMA FlattenEmpty == FlattenSeq(<<>>) = <<>>
<1>1. Len(<<>>) = 0
  OBVIOUS
<1> QED BY <1>1 DEF FlattenSeq


LEMMA ConcatAppend ==
  ASSUME NEW S, NEW s \in Seq(S), NEW t \in Seq(S), NEW x \in S
  PROVE  /\ s \o t \in Seq(S) /\ s \o Append(t, x) = Append(s \o t, x) /\ Append(t, x) \in Seq(S)
OBVIOUS

\* What is chosen was there, and is in the set.
LEMMA AmongIn ==
  ASSUME NEW S, NEW s \in Seq(S), NEW A
  PROVE  /\ Among(s, A) \in Seq(S)
         /\ \A i \in 1..Len(Among(s, A)) : Among(s, A)[i] \in A
         /\ \A i \in 1..Len(Among(s, A)) : \E j \in 1..Len(s) : s[j] = Among(s, A)[i]
<1> DEFINE Right(t) == /\ Among(t, A) \in Seq(S)
                       /\ \A i \in 1..Len(Among(t, A)) : Among(t, A)[i] \in A
                       /\ \A i \in 1..Len(Among(t, A)) : \E j \in 1..Len(t) : t[j] = Among(t, A)[i]
           P == {t \in Seq(S) : Right(t)}
<1>1. <<>> \in P
  <2>1. <<>> \in Seq(S) /\ Among(<<>>, A) = <<>> /\ 1..Len(<<>>) = {}
    BY AmongNothing
  <2>2. Right(<<>>)
    BY <2>1
  <2> QED BY <2>1, <2>2
<1>2. ASSUME NEW t \in P, NEW x \in S
      PROVE  Append(t, x) \in P
  <2> DEFINE u == Append(t, x)
             a == Among(t, A)
             b == Among(u, A)
  <2>1. /\ t \in Seq(S) /\ a \in Seq(S) /\ \A i \in 1..Len(a) : a[i] \in A
        /\ \A i \in 1..Len(a) : \E j \in 1..Len(t) : t[j] = a[i]
    OBVIOUS
  <2>2. (x \in A => b = Append(a, x)) /\ (x \notin A => b = a)
    BY <2>1, AmongAppend
  <2>3. /\ u \in Seq(S) /\ Len(u) = Len(t) + 1 /\ Len(t) \in Nat
        /\ \A i \in 1..Len(t) : u[i] = t[i]
        /\ u[Len(t) + 1] = x
    BY <2>1, AppendIs
  <2> HIDE DEF a, b, u, P
  <2>4. \A i \in 1..Len(a) : \E j \in 1..Len(u) : u[j] = a[i]
    <3> SUFFICES ASSUME NEW i \in 1..Len(a)
                 PROVE  \E j \in 1..Len(u) : u[j] = a[i]
      OBVIOUS
    <3>1. PICK j \in 1..Len(t) : t[j] = a[i]
      BY <2>1
    <3>2. j \in 1..Len(u)
      BY <2>3
    <3> QED BY <2>3, <3>1, <3>2
  <2>5. CASE x \in A
    <3>1. /\ b \in Seq(S) /\ Len(b) = Len(a) + 1 /\ Len(a) \in Nat
          /\ \A i \in 1..Len(a) : b[i] = a[i]
          /\ b[Len(a) + 1] = x
          /\ \A i \in 1..Len(a) + 1 : i # Len(a) + 1 => i \in 1..Len(a)
      <4> DEFINE e == Append(a, x)
      <4>1. a \in Seq(S) /\ b = e
        BY <2>1, <2>2, <2>5
      <4>2. /\ e \in Seq(S) /\ Len(e) = Len(a) + 1 /\ Len(a) \in Nat
            /\ \A i \in 1..Len(a) : e[i] = a[i]
            /\ e[Len(a) + 1] = x
            /\ \A i \in 1..Len(a) + 1 : i # Len(a) + 1 => i \in 1..Len(a)
        BY <4>1, AppendIs
      <4> HIDE DEF e
      <4> QED BY <4>1, <4>2
    <3>2. Len(t) + 1 \in 1..Len(u)
      BY <2>3
    <3>3. \A i \in 1..Len(b) : b[i] \in A
      BY <2>1, <2>5, <3>1
    <3>4. \A i \in 1..Len(b) : \E j \in 1..Len(u) : u[j] = b[i]
      BY <2>3, <2>4, <3>1, <3>2
    <3> QED BY <2>3, <3>1, <3>3, <3>4 DEF b, u, P
  <2>6. CASE x \notin A
    <3>1. b = a
      BY <2>2, <2>6
    <3>2. b \in Seq(S) /\ (\A i \in 1..Len(b) : b[i] \in A)
          /\ (\A i \in 1..Len(b) : \E j \in 1..Len(u) : u[j] = b[i])
      BY <2>1, <2>4, <3>1
    <3> QED BY <2>3, <3>2 DEF b, u, P
  <2> QED BY <2>5, <2>6
<1>3. P = Seq(S)
  <2>1. P \in SUBSET Seq(S)
    OBVIOUS
  <2> HIDE DEF P
  <2> QED BY <1>1, <1>2, <2>1, SequencesAll
<1>4. s \in P
  BY <1>3
<1> QED BY <1>4

\* What is chosen of two parts is what is chosen of each.
LEMMA AmongConcat ==
  ASSUME NEW S, NEW s \in Seq(S), NEW t \in Seq(S), NEW A
  PROVE  Among(s \o t, A) = Among(s, A) \o Among(t, A)
<1> DEFINE P == {u \in Seq(S) : Among(s \o u, A) = Among(s, A) \o Among(u, A)}
           a == Among(s, A)
<1>0. a \in Seq(S)
  BY AmongIn
<1>1. <<>> \in P
  <2>1. <<>> \in Seq(S) /\ s \o <<>> = s /\ Among(<<>>, A) = <<>>
    BY AmongNothing
  <2>2. a \o <<>> = a
    BY <1>0
  <2> QED BY <2>1, <2>2
<1>2. ASSUME NEW u \in P, NEW x \in S
      PROVE  Append(u, x) \in P
  <2> DEFINE b == Among(u, A)
             su == s \o u
             ux == Append(u, x)
  <2>1. u \in Seq(S) /\ Among(su, A) = a \o b
    OBVIOUS
  <2>2. b \in Seq(S)
    BY <2>1, AmongIn
  <2>3. su \in Seq(S) /\ s \o ux = Append(su, x) /\ ux \in Seq(S)
    BY <2>1, ConcatAppend
  <2> HIDE DEF su
  <2> HIDE DEF P
  <2>4. /\ x \in A => Among(s \o ux, A) = Append(a \o b, x)
        /\ x \notin A => Among(s \o ux, A) = a \o b
    <3> HIDE DEF ux
    <3>1. /\ x \in A => Among(Append(su, x), A) = Append(Among(su, A), x)
          /\ x \notin A => Among(Append(su, x), A) = Among(su, A)
      BY <2>3, AmongTakes, AmongSkips
    <3> QED BY <2>1, <2>3, <3>1
  <2>5. /\ x \in A => Among(ux, A) = Append(b, x)
        /\ x \notin A => Among(ux, A) = b
    BY <2>1, AmongAppend
  <2> HIDE DEF ux, a, b
  <2>6. a \o Append(b, x) = Append(a \o b, x)
    BY <1>0, <2>2, ConcatAppend
  <2>7. Among(s \o ux, A) = a \o Among(ux, A)
    BY <2>4, <2>5, <2>6
  <2> QED BY <2>3, <2>7 DEF ux, a, P
<1>3. P = Seq(S)
  <2>1. P \in SUBSET Seq(S)
    OBVIOUS
  <2> HIDE DEF P
  <2> QED BY <1>1, <1>2, <2>1, SequencesAll
<1>4. t \in P
  BY <1>3
<1> QED BY <1>4

\* Two sets that choose the same, all, or nothing.
LEMMA AmongSame ==
  ASSUME NEW S, NEW s \in Seq(S), NEW A, NEW B, \A i \in 1..Len(s) : s[i] \in A <=> s[i] \in B
  PROVE  Among(s, A) = Among(s, B)
<1> DEFINE Alike(t) == (\A i \in 1..Len(t) : t[i] \in A <=> t[i] \in B) => Among(t, A) = Among(t, B)
           P == {t \in Seq(S) : Alike(t)}
<1>1. <<>> \in P
  <2>1. <<>> \in Seq(S)
    OBVIOUS
  <2> QED BY <2>1, AmongNothing
<1>2. ASSUME NEW t \in P, NEW x \in S
      PROVE  Append(t, x) \in P
  <2> DEFINE u == Append(t, x)
  <2>1. t \in Seq(S) /\ Alike(t)
    OBVIOUS
  <2>2. /\ u \in Seq(S) /\ Len(u) = Len(t) + 1 /\ Len(t) \in Nat
        /\ \A i \in 1..Len(t) : u[i] = t[i]
        /\ u[Len(t) + 1] = x
    BY <2>1, AppendIs
  <2> HIDE DEF P
  <2>3. /\ x \in A => Among(u, A) = Append(Among(t, A), x)
        /\ x \notin A => Among(u, A) = Among(t, A)
        /\ x \in B => Among(u, B) = Append(Among(t, B), x)
        /\ x \notin B => Among(u, B) = Among(t, B)
    <3>1. /\ x \in A => Among(u, A) = Append(Among(t, A), x)
          /\ x \notin A => Among(u, A) = Among(t, A)
      BY <2>1, AmongTakes, AmongSkips
    <3>2. /\ x \in B => Among(u, B) = Append(Among(t, B), x)
          /\ x \notin B => Among(u, B) = Among(t, B)
      BY <2>1, AmongTakes, AmongSkips
    <3> QED BY <3>1, <3>2
  <2> HIDE DEF u
  <2>4. ASSUME \A i \in 1..Len(u) : u[i] \in A <=> u[i] \in B
        PROVE  Among(u, A) = Among(u, B)
    <3>1. (\A i \in 1..Len(t) : i \in 1..Len(u)) /\ Len(t) + 1 \in 1..Len(u)
      BY <2>2
    <3>2. x \in A <=> x \in B
      BY <2>2, <2>4, <3>1
    <3>3. \A i \in 1..Len(t) : t[i] \in A <=> t[i] \in B
      BY <2>2, <2>4, <3>1
    <3>4. Among(t, A) = Among(t, B)
      BY <2>1, <3>3
    <3> QED BY <2>3, <3>2, <3>4
  <2> QED BY <2>2, <2>4 DEF u, P
<1>3. P = Seq(S)
  <2>1. P \in SUBSET Seq(S)
    OBVIOUS
  <2> HIDE DEF P
  <2> QED BY <1>1, <1>2, <2>1, SequencesAll
<1>4. s \in P
  BY <1>3
<1> QED BY <1>4

LEMMA AmongAll ==
  ASSUME NEW S, NEW s \in Seq(S), NEW A, \A i \in 1..Len(s) : s[i] \in A
  PROVE  Among(s, A) = s
<1> DEFINE P == {t \in Seq(S) : Among(t, S) = t}
<1>1. <<>> \in P
  <2>1. <<>> \in Seq(S)
    OBVIOUS
  <2> QED BY <2>1, AmongNothing
<1>2. ASSUME NEW t \in P, NEW x \in S
      PROVE  Append(t, x) \in P
  <2>1. t \in Seq(S) /\ Among(t, S) = t
    OBVIOUS
  <2>2. Among(Append(t, x), S) = Append(t, x)
    BY <2>1, AmongAppend
  <2>3. Append(t, x) \in Seq(S)
    BY <2>1, AppendIs
  <2> QED BY <2>2, <2>3
<1>3. P = Seq(S)
  <2>1. P \in SUBSET Seq(S)
    OBVIOUS
  <2> HIDE DEF P
  <2> QED BY <1>1, <1>2, <2>1, SequencesAll
<1>4. Among(s, S) = s
  BY <1>3
<1>5. \A i \in 1..Len(s) : s[i] \in A <=> s[i] \in S
  BY ItemIs
<1>6. Among(s, A) = Among(s, S)
  BY <1>5, AmongSame
<1> QED BY <1>4, <1>6

LEMMA AmongNone ==
  ASSUME NEW S, NEW s \in Seq(S), NEW A, \A i \in 1..Len(s) : s[i] \notin A
  PROVE  Among(s, A) = <<>>
<1> DEFINE a == Among(s, A)
<1>1. /\ a \in Seq(S) /\ \A i \in 1..Len(a) : a[i] \in A
      /\ \A i \in 1..Len(a) : \E j \in 1..Len(s) : s[j] = a[i]
  BY AmongIn
<1> HIDE DEF a
<1>2. Len(a) \in Nat /\ ~(1 \in 1..Len(a))
  BY <1>1
<1>3. Len(a) = 0
  BY <1>2
<1>4. a = <<>>
  BY <1>1, <1>3
<1> QED BY <1>4 DEF a

\* What is chosen of what was chosen.
LEMMA AmongTwice ==
  ASSUME NEW S, NEW s \in Seq(S), NEW A, NEW B, \A i \in 1..Len(s) : s[i] \in B => s[i] \in A
  PROVE  Among(Among(s, A), B) = Among(s, B)
<1> DEFINE Fits(t) == (\A i \in 1..Len(t) : t[i] \in B => t[i] \in A) => Among(Among(t, A), B) = Among(t, B)
           P == {t \in Seq(S) : Fits(t)}
<1>1. <<>> \in P
  <2>1. <<>> \in Seq(S)
    OBVIOUS
  <2> QED BY <2>1, AmongNothing
<1>2. ASSUME NEW t \in P, NEW x \in S
      PROVE  Append(t, x) \in P
  <2> DEFINE u == Append(t, x)
             a == Among(t, A)
  <2>1. t \in Seq(S) /\ Fits(t)
    OBVIOUS
  <2>2. /\ u \in Seq(S) /\ Len(u) = Len(t) + 1 /\ Len(t) \in Nat
        /\ \A i \in 1..Len(t) : u[i] = t[i]
        /\ u[Len(t) + 1] = x
    BY <2>1, AppendIs
  <2>3. a \in Seq(S)
    BY <2>1, AmongIn
  <2> HIDE DEF P
  <2>4. /\ x \in A => Among(u, A) = Append(a, x)
        /\ x \notin A => Among(u, A) = a
        /\ x \in B => Among(u, B) = Append(Among(t, B), x)
        /\ x \notin B => Among(u, B) = Among(t, B)
    <3>1. /\ x \in A => Among(u, A) = Append(a, x)
          /\ x \notin A => Among(u, A) = a
      BY <2>1, AmongTakes, AmongSkips
    <3>2. /\ x \in B => Among(u, B) = Append(Among(t, B), x)
          /\ x \notin B => Among(u, B) = Among(t, B)
      BY <2>1, AmongTakes, AmongSkips
    <3> QED BY <3>1, <3>2
  <2> HIDE DEF a
  <2>5. /\ x \in B => Among(Append(a, x), B) = Append(Among(a, B), x)
        /\ x \notin B => Among(Append(a, x), B) = Among(a, B)
    BY <2>3, AmongTakes, AmongSkips
  <2> HIDE DEF u
  <2>6. ASSUME \A i \in 1..Len(u) : u[i] \in B => u[i] \in A
        PROVE  Among(Among(u, A), B) = Among(u, B)
    <3>1. (\A i \in 1..Len(t) : i \in 1..Len(u)) /\ Len(t) + 1 \in 1..Len(u)
      BY <2>2
    <3>2. x \in B => x \in A
      BY <2>2, <2>6, <3>1
    <3>3. \A i \in 1..Len(t) : t[i] \in B => t[i] \in A
      BY <2>2, <2>6, <3>1
    <3>4. Among(a, B) = Among(t, B)
      BY <2>1, <3>3 DEF a
    <3> QED BY <2>4, <2>5, <3>2, <3>4
  <2> QED BY <2>2, <2>6 DEF u, P
<1>3. P = Seq(S)
  <2>1. P \in SUBSET Seq(S)
    OBVIOUS
  <2> HIDE DEF P
  <2> QED BY <1>1, <1>2, <2>1, SequencesAll
<1>4. s \in P
  BY <1>3
<1> QED BY <1>4

-----------------------------------------------------------------------------
(* What the calls of a history come to *)

DocAt(cs, c, b, i) ==
  LET text == Batches(cs[c])[b][i]
  IN  Document(<<c, b, i>>, text, text, MetadataOf(cs[c], b))
DocsOf(cs, c, b) == [i \in 1..Len(Batches(cs[c])[b]) |-> DocAt(cs, c, b, i)]
AllOf(cs, c)     == [b \in 1..Len(Batches(cs[c])) |-> DocsOf(cs, c, b)]
Whole(cs, c)     == FlattenSeq(AllOf(cs, c))
Upto(cs, c, b)   == FlattenSeq(SubSeq(AllOf(cs, c), 1, b))

Docs(cs) == {DocAt(cs, c, b, i) : c \in Nat, b \in Nat, i \in Nat}

Kept(k, docs) == [i \in 1..Len(docs) |-> Keep(k, docs[i])]
IdsIn(docs)   == [i \in 1..Len(docs) |-> docs[i].id]
KeyOf(k, id)  == IF k = "qdrant" THEN PointId(id) ELSE id

\* The batches of a call are sequences of sequences, whatever a text is.
LEMMA BatchesAre ==
  ASSUME NEW cs \in Histories, NEW c \in 1..Len(cs)
  PROVE  \E S : Batches(cs[c]) \in Seq(Seq(S))
<1>1. \/ /\ cs[c].op \in {"one", "batch"}
         /\ cs[c].texts \in Seq(Range(cs[c].texts))
      \/ /\ cs[c].op = "document"
         /\ cs[c].words \in Seq(Nat \ {0})
         /\ cs[c].max \in Nat /\ cs[c].overlap \in Nat
  BY MemoryAssumption
<1> DEFINE call == cs[c]
<1> HIDE DEF call
<1>2. CASE call.op = "one" /\ call.texts \in Seq(Range(call.texts))
  <2> DEFINE S == Range(call.texts)
  <2>1. Batches(call) = <<call.texts>>
    BY <1>2 DEF Batches
  <2> HIDE DEF S
  <2>2. <<call.texts>> \in Seq(Seq(S))
    BY <1>2 DEF S
  <2> QED BY <2>1, <2>2 DEF call
<1>3. CASE call.op = "batch" /\ call.texts \in Seq(Range(call.texts))
  <2> DEFINE S == Range(call.texts)
  <2>1. Batches(call) = IF call.texts = <<>> THEN <<>> ELSE <<call.texts>>
    BY <1>3 DEF Batches
  <2> HIDE DEF S
  <2>2. <<call.texts>> \in Seq(Seq(S)) /\ <<>> \in Seq(Seq(S))
    BY <1>3 DEF S
  <2> QED BY <2>1, <2>2 DEF call
<1>4. CASE call.op = "document" /\ call.words \in Seq(Nat \ {0})
           /\ call.max \in Nat /\ call.overlap \in Nat
  <2> DEFINE chunks == ChunkText(call.words, call.max, call.overlap)
             S      == Seq(1..Len(call.words))
  <2>1. Batches(call) = [i \in 1..Len(chunks) |-> <<chunks[i]>>]
    BY <1>4 DEF Batches
  <2>2. chunks \in Seq(S)
    <3>1. CASE call.words = <<>>
      <4>1. chunks = <<>>
        BY <3>1 DEF ChunkText
      <4> HIDE DEF S
      <4> QED BY <4>1
    <3>2. CASE call.words # <<>>
      BY <1>4, <3>2, ChunkTextIs DEF Pieces
    <3> QED BY <3>1, <3>2
  <2> HIDE DEF chunks, S
  <2>3. \A i \in 1..Len(chunks) : <<chunks[i]>> \in Seq(S)
    <3> SUFFICES ASSUME NEW i \in 1..Len(chunks) PROVE <<chunks[i]>> \in Seq(S)
      OBVIOUS
    <3>1. chunks[i] \in S
      BY <2>2, ItemIs
    <3> QED BY <3>1
  <2>4. [i \in 1..Len(chunks) |-> <<chunks[i]>>] \in Seq(Seq(S))
    <3> DEFINE T == Seq(S)
               n == Len(chunks)
    <3>1. n \in Nat
      BY <2>2
    <3> HIDE DEF n, T
    <3>2. \A i \in 1..n : <<chunks[i]>> \in T
      BY <2>3 DEF T, n
    <3>3. [i \in 1..n |-> <<chunks[i]>>] \in Seq(T)
      BY <3>1, <3>2
    <3> QED BY <3>3 DEF T, n
  <2> QED BY <2>1, <2>4 DEF call
<1> QED BY <1>1, <1>2, <1>3, <1>4 DEF call

\* The documents of a call, batch by batch.
LEMMA DocsAre ==
  ASSUME NEW cs \in Histories, NEW c \in 1..Len(cs)
  PROVE  /\ Len(Batches(cs[c])) \in Nat
         /\ \A b \in 1..Len(Batches(cs[c])) :
              /\ Len(Batches(cs[c])[b]) \in Nat
              /\ DocsOf(cs, c, b) \in Seq(Docs(cs))
              /\ Len(DocsOf(cs, c, b)) = Len(Batches(cs[c])[b])
         /\ AllOf(cs, c) \in Seq(Seq(Docs(cs)))
         /\ Len(AllOf(cs, c)) = Len(Batches(cs[c]))
<1> DEFINE bs == Batches(cs[c])
           D  == Docs(cs)
<1>1. PICK S : bs \in Seq(Seq(S))
  BY BatchesAre
<1>2. c \in Nat
  <2>1. Len(cs) \in Nat
    <3>1. cs \in Seq(Range(cs))
      BY MemoryAssumption
    <3> QED BY <3>1
  <2> QED BY <2>1
<1> HIDE DEF bs, D
<1>3. Len(bs) \in Nat /\ \A b \in 1..Len(bs) : Len(bs[b]) \in Nat
  <2> DEFINE T == Seq(S)
  <2>1. Len(bs) \in Nat
    BY <1>1
  <2>2. ASSUME NEW b \in 1..Len(bs) PROVE Len(bs[b]) \in Nat
    <3>1. bs[b] \in T
      <4> HIDE DEF T
      <4> QED BY <1>1, ItemIs DEF T
    <3> QED BY <3>1
  <2> QED BY <2>1, <2>2
<1>4. ASSUME NEW b \in 1..Len(bs)
      PROVE  DocsOf(cs, c, b) \in Seq(D) /\ Len(DocsOf(cs, c, b)) = Len(bs[b])
  <2> DEFINE n == Len(bs[b])
  <2>1. n \in Nat /\ b \in Nat
    BY <1>3
  <2> HIDE DEF n
  <2>2. \A i \in 1..n : DocAt(cs, c, b, i) \in D
    <3>1. \A i \in 1..n : i \in Nat
      BY <2>1
    <3> QED BY <1>2, <2>1, <3>1 DEF D, Docs
  <2>3. DocsOf(cs, c, b) = [i \in 1..n |-> DocAt(cs, c, b, i)]
    BY DEF DocsOf, n, bs
  <2>4. [i \in 1..n |-> DocAt(cs, c, b, i)] \in Seq(D) /\ Len([i \in 1..n |-> DocAt(cs, c, b, i)]) = n
    BY <2>1, <2>2
  <2> QED BY <2>3, <2>4 DEF n
<1>5. AllOf(cs, c) \in Seq(Seq(D)) /\ Len(AllOf(cs, c)) = Len(bs)
  <2> DEFINE n == Len(bs)
             T == Seq(D)
  <2> HIDE DEF T
  <2>1. n \in Nat /\ \A b \in 1..n : DocsOf(cs, c, b) \in T
    BY <1>3, <1>4 DEF T
  <2>2. AllOf(cs, c) = [b \in 1..n |-> DocsOf(cs, c, b)]
    BY DEF AllOf, bs
  <2> HIDE DEF n
  <2>3. [b \in 1..n |-> DocsOf(cs, c, b)] \in Seq(T) /\ Len([b \in 1..n |-> DocsOf(cs, c, b)]) = n
    BY <2>1
  <2> QED BY <2>2, <2>3 DEF n, T
<1> QED BY <1>3, <1>4, <1>5 DEF bs, D

\* Those of its first batches: one batch after the other, up to the whole.
LEMMA UptoIs ==
  ASSUME NEW cs \in Histories, NEW c \in 1..Len(cs)
  PROVE  /\ Upto(cs, c, 0) = <<>>
         /\ \A b \in 0..Len(Batches(cs[c])) : Upto(cs, c, b) \in Seq(Docs(cs))
         /\ \A b \in 1..Len(Batches(cs[c])) :
              Upto(cs, c, b) = Upto(cs, c, b - 1) \o DocsOf(cs, c, b)
         /\ Upto(cs, c, Len(Batches(cs[c]))) = Whole(cs, c)
<1> DEFINE n == Len(Batches(cs[c]))
           D == Docs(cs)
           T == Seq(D)
           s == AllOf(cs, c)
<1>1. n \in Nat /\ s \in Seq(T) /\ Len(s) = n /\ \A b \in 1..n : s[b] = DocsOf(cs, c, b)
  BY DocsAre DEF AllOf
<1>2. \A b \in 0..n : Upto(cs, c, b) = FlattenSeq(SubSeq(s, 1, b))
  BY DEF Upto
<1> HIDE DEF n, D, s
<1>3. \A b \in 0..n : SubSeq(s, 1, b) \in Seq(T)
  <2> SUFFICES ASSUME NEW b \in 0..n PROVE SubSeq(s, 1, b) \in Seq(T)
    OBVIOUS
  <2> HIDE DEF T
  <2>1. b \in Nat /\ b <= Len(s)
    BY <1>1
  <2> QED BY <1>1, <2>1, SubIs
<1>4. \A b \in 0..n : Upto(cs, c, b) \in T
  BY <1>2, <1>3, FlattenAppend, <<>> \in T
<1>5. Upto(cs, c, 0) = <<>>
  <2>1. SubSeq(s, 1, 0) = <<>>
    <3> HIDE DEF T
    <3>1. Len(SubSeq(s, 1, 0)) = 0 /\ SubSeq(s, 1, 0) \in Seq(T)
      BY <1>1, SubIs
    <3> QED BY <3>1
  <2>2. 0 \in 0..n
    BY <1>1
  <2>3. Upto(cs, c, 0) = FlattenSeq(SubSeq(s, 1, 0))
    BY <1>2, <2>2
  <2> QED BY <2>1, <2>3, FlattenEmpty
<1>6. ASSUME NEW b \in 1..n
      PROVE  Upto(cs, c, b) = Upto(cs, c, b - 1) \o DocsOf(cs, c, b)
  <2> DEFINE a == b - 1
             p == SubSeq(s, 1, a)
             x == s[b]
  <2>1. a \in 0..n /\ b \in 0..n /\ a \in Nat /\ b \in Nat /\ a <= Len(s) /\ b <= Len(s) /\ b = a + 1
        /\ b \in 1..Len(s)
    BY <1>1
  <2>2. x \in T
    <3> HIDE DEF T
    <3> QED BY <1>1, <2>1, ItemIs
  <2>3. p \in Seq(T) /\ Len(p) = a /\ \A i \in 1..a : p[i] = s[i]
    <3> HIDE DEF T, a
    <3> QED BY <1>1, <2>1, SubIs
  <2>4. SubSeq(s, 1, b) \in Seq(T) /\ Len(SubSeq(s, 1, b)) = b
        /\ \A i \in 1..b : SubSeq(s, 1, b)[i] = s[i]
    <3> HIDE DEF T
    <3> QED BY <1>1, <2>1, SubIs
  <2>5. SubSeq(s, 1, b) = Append(p, x)
    <3> HIDE DEF T, p, a, x
    <3>1. /\ Append(p, x) \in Seq(T) /\ Len(Append(p, x)) = a + 1
          /\ \A i \in 1..a : Append(p, x)[i] = p[i]
          /\ Append(p, x)[a + 1] = x
      BY <2>2, <2>3, AppendIs
    <3>2. \A i \in 1..b : i # b => i \in 1..a
      BY <2>1
    <3>3. \A i \in 1..b : SubSeq(s, 1, b)[i] = Append(p, x)[i]
      BY <2>1, <2>3, <2>4, <3>1, <3>2 DEF x
    <3> QED BY <2>1, <2>4, <3>1, <3>3, SameSeq
  <2>6. FlattenSeq(Append(p, x)) = FlattenSeq(p) \o x
    <3> HIDE DEF p, x
    <3> QED BY <2>2, <2>3, FlattenAppend
  <2> HIDE DEF p
  <2>7. Upto(cs, c, a) = FlattenSeq(p)
    BY <1>2, <2>1 DEF p
  <2> QED BY <1>1, <1>2, <2>1, <2>5, <2>6, <2>7
<1>7. SubSeq(s, 1, n) = s
  <2> HIDE DEF T
  <2>1. SubSeq(s, 1, n) \in Seq(T) /\ Len(SubSeq(s, 1, n)) = n
        /\ \A i \in 1..n : SubSeq(s, 1, n)[i] = s[i]
    BY <1>1, SubIs
  <2> QED BY <1>1, <2>1, SameSeq
<1>8. Upto(cs, c, n) = Whole(cs, c)
  <2>1. n \in 0..n
    BY <1>1
  <2>2. Upto(cs, c, n) = FlattenSeq(SubSeq(s, 1, n))
    BY <1>2, <2>1
  <2> QED BY <1>7, <2>2 DEF Whole, s
<1> QED BY <1>4, <1>5, <1>6, <1>8 DEF n, D

LEMMA ConcatIs ==
  ASSUME NEW S, NEW s \in Seq(S), NEW t \in Seq(S), NEW u \in Seq(S)
  PROVE  (s \o t) \o u = s \o (t \o u) /\ s \o t \in Seq(S) /\ t \o u \in Seq(S)
OBVIOUS

LEMMA PartsAre ==
  ASSUME NEW S, NEW s \in Seq(S), NEW t \in Seq(S)
  PROVE  /\ s \o t \in Seq(S) /\ Len(s \o t) = Len(s) + Len(t)
         /\ \A i \in 1..Len(s) : (s \o t)[i] = s[i]
         /\ \A i \in 1..Len(t) : (s \o t)[Len(s) + i] = t[i]
OBVIOUS

\* A sequence is its first m and the rest.
LEMMA CutIs ==
  ASSUME NEW S, NEW s \in Seq(S), NEW m \in 0..Len(s)
  PROVE  /\ SubSeq(s, 1, m) \in Seq(S) /\ SubSeq(s, m + 1, Len(s)) \in Seq(S)
         /\ Len(SubSeq(s, m + 1, Len(s))) = Len(s) - m
         /\ \A i \in 1..Len(s) - m : SubSeq(s, m + 1, Len(s))[i] = s[m + i]
         /\ s = SubSeq(s, 1, m) \o SubSeq(s, m + 1, Len(s))
<1> DEFINE l == Len(s)
           n == l - m
           y == SubSeq(s, 1, m)
           z == SubSeq(s, m + 1, l)
<1>1. l \in Nat /\ m \in Nat /\ m <= l /\ n \in Nat /\ l = m + n
  OBVIOUS
<1>2. y \in Seq(S) /\ Len(y) = m /\ \A i \in 1..m : y[i] = s[i]
  BY <1>1, SubIs
<1>3. z \in Seq(S) /\ Len(z) = n /\ \A i \in 1..n : z[i] = s[m + i]
  <2>1. z = [i \in 1..n |-> s[m + i]]
    <3>1. z = [i \in 1..(l - (m + 1) + 1) |-> s[(m + 1) + i - 1]]
      BY <1>1
    <3>2. l - (m + 1) + 1 = n /\ \A i \in 1..n : (m + 1) + i - 1 = m + i
      BY <1>1
    <3> HIDE DEF z, n, l
    <3> QED BY <3>1, <3>2
  <2>2. \A i \in 1..n : s[m + i] \in S
    <3> SUFFICES ASSUME NEW i \in 1..n PROVE s[m + i] \in S
      OBVIOUS
    <3>1. m + i \in 1..l
      BY <1>1
    <3> QED BY <3>1, ItemIs
  <2> HIDE DEF z, n
  <2> QED BY <1>1, <2>1, <2>2
<1> HIDE DEF y, z, n, l
<1>4. /\ y \o z \in Seq(S) /\ Len(y \o z) = m + n
      /\ \A i \in 1..m : (y \o z)[i] = y[i]
      /\ \A i \in 1..n : (y \o z)[m + i] = z[i]
  <2>1. /\ y \o z \in Seq(S) /\ Len(y \o z) = Len(y) + Len(z)
        /\ \A i \in 1..Len(y) : (y \o z)[i] = y[i]
        /\ \A i \in 1..Len(z) : (y \o z)[Len(y) + i] = z[i]
    <3>1. y \in Seq(S) /\ z \in Seq(S)
      BY <1>2, <1>3
    <3> QED BY <3>1
  <2> QED BY <1>2, <1>3, <2>1
<1>5. \A i \in 1..l : s[i] = (y \o z)[i]
  <2> SUFFICES ASSUME NEW i \in 1..l PROVE s[i] = (y \o z)[i]
    OBVIOUS
  <2>1. CASE i <= m
    <3>1. i \in 1..m
      BY <1>1, <2>1
    <3> QED BY <1>2, <1>4, <3>1
  <2>2. CASE i > m
    <3> DEFINE j == i - m
    <3>1. j \in 1..n /\ m + j = i
      BY <1>1, <2>2
    <3> HIDE DEF j
    <3> QED BY <1>3, <1>4, <3>1
  <2>3. i <= m \/ i > m
    BY <1>1
  <2> QED BY <2>1, <2>2, <2>3
<1>6. s = y \o z
  <2>1. Len(s) = Len(y \o z)
    BY <1>1, <1>4 DEF l
  <2> QED BY <1>4, <1>5, <2>1, SameSeq DEF l
<1> QED BY <1>2, <1>3, <1>6 DEF y, z, n, l

\* What has been stored of a call is a beginning.
LEMMA WholeIs ==
  ASSUME NEW cs \in Histories, NEW c \in 1..Len(cs), NEW b \in 1..Len(Batches(cs[c]))
  PROVE  \E r \in Seq(Docs(cs)) : Whole(cs, c) = Upto(cs, c, b) \o r
<1> DEFINE n == Len(Batches(cs[c]))
           D == Docs(cs)
           T == Seq(D)
           u(k) == Upto(cs, c, k)
           P == {k \in 0..n : k >= b => \E r \in T : u(k) = u(b) \o r}
<1>1. /\ n \in Nat /\ \A k \in 1..n : DocsOf(cs, c, k) \in T
      /\ \A k \in 0..n : u(k) \in T
      /\ \A k \in 1..n : u(k) = u(k - 1) \o DocsOf(cs, c, k)
      /\ u(n) = Whole(cs, c)
  BY DocsAre, UptoIs
<1>2. b \in Nat /\ b # 0 /\ b \in 1..n /\ b \in 0..n
  BY <1>1
<1> HIDE DEF n, D, u
<1>3. 0 \in P
  BY <1>1, <1>2
<1>4. ASSUME NEW k \in 1..n, k - 1 \in P PROVE k \in P
  <2>1. CASE k < b
    BY <1>1, <1>2, <2>1
  <2>2. CASE k = b
    <3>1. u(b) = u(b) \o <<>> /\ <<>> \in T
      BY <1>1, <1>2
    <3>2. u(k) = u(b) \o <<>> /\ k \in 0..n
      BY <1>1, <2>2, <3>1
    <3> QED BY <3>1, <3>2
  <2>3. CASE k > b
    <3>1. k - 1 >= b
      BY <1>1, <1>2, <2>3
    <3>2. PICK r \in T : u(k - 1) = u(b) \o r
      BY <1>4, <3>1
    <3> DEFINE x == DocsOf(cs, c, k)
    <3>3. x \in T /\ u(b) \in T
      BY <1>1, <1>2
    <3>4. u(k) = (u(b) \o r) \o x
      BY <1>1, <3>2
    <3> HIDE DEF x
    <3>5. (u(b) \o r) \o x = u(b) \o (r \o x) /\ r \o x \in T
      BY <3>2, <3>3, ConcatIs
    <3>6. \E q \in T : u(k) = u(b) \o q
      BY <3>4, <3>5
    <3>7. k \in 0..n
      BY <1>1
    <3> QED BY <3>6, <3>7
  <2>4. k \in Nat
    BY <1>1
  <2> HIDE DEF P
  <2> QED BY <1>2, <2>1, <2>2, <2>3, <2>4
<1>5. P = 0..n
  <2>1. P \in SUBSET (0..n)
    OBVIOUS
  <2> HIDE DEF P
  <2> QED BY <1>1, <1>3, <1>4, <2>1, NumbersAll
<1>6. n \in P /\ n >= b
  <2>1. n \in 0..n /\ n >= b
    BY <1>1, <1>2
  <2> HIDE DEF P
  <2> QED BY <1>5, <2>1
<1> QED BY <1>1, <1>6 DEF D, u

\* Some batches and a part of the next are a beginning of the whole.
LEMMA BeginningIs ==
  ASSUME NEW cs \in Histories, NEW c \in 1..Len(cs), NEW b \in 1..Len(Batches(cs[c])),
         NEW m \in 0..Len(Batches(cs[c])[b])
  PROVE  LET part == Upto(cs, c, b - 1) \o SubSeq(DocsOf(cs, c, b), 1, m)
         IN  /\ part \in Seq(Docs(cs))
             /\ \E r \in Seq(Docs(cs)) : Whole(cs, c) = part \o r
<1> DEFINE D == Docs(cs)
           T == Seq(D)
           u == Upto(cs, c, b - 1)
           x == DocsOf(cs, c, b)
           l == Len(x)
           y == SubSeq(x, 1, m)
           z == SubSeq(x, m + 1, l)
<1>1. x \in T /\ l = Len(Batches(cs[c])[b]) /\ l \in Nat /\ m \in 0..l /\ m \in Nat /\ m <= l
  BY DocsAre
<1>2. b - 1 \in 0..Len(Batches(cs[c])) /\ Len(Batches(cs[c])) \in Nat
  BY DocsAre
<1>3. u \in T /\ Upto(cs, c, b) = u \o x
  BY <1>2, UptoIs
<1>4. PICK r \in T : Whole(cs, c) = (u \o x) \o r
  BY <1>3, WholeIs
<1> HIDE DEF D, u, x
<1>5. y \in T /\ z \in T /\ x = y \o z
  BY <1>1, CutIs
<1> HIDE DEF y, z
<1>6. u \o y \in T /\ z \o r \in T /\ (u \o (y \o z)) \o r = (u \o y) \o (z \o r)
  <2>1. u \o y \in T /\ u \o (y \o z) = (u \o y) \o z
    <3>1. u \in Seq(D) /\ y \in Seq(D) /\ z \in Seq(D)
      BY <1>3, <1>5
    <3>2. u \o y \in Seq(D) /\ u \o (y \o z) = (u \o y) \o z
      BY <3>1
    <3> QED BY <3>2
  <2> DEFINE uy == u \o y
  <2> HIDE DEF uy
  <2>2. uy \in T
    BY <2>1 DEF uy
  <2>3. (uy \o z) \o r = uy \o (z \o r) /\ z \o r \in T
    <3>1. uy \in Seq(D) /\ r \in Seq(D) /\ z \in Seq(D)
      BY <1>4, <1>5, <2>2
    <3>2. (uy \o z) \o r = uy \o (z \o r) /\ z \o r \in Seq(D)
      <4> HIDE DEF T
      <4> QED BY <3>1, ConcatIs
    <3> QED BY <3>2
  <2> QED BY <2>1, <2>3 DEF uy
<1> QED BY <1>4, <1>5, <1>6 DEF D, u, x, y

-----------------------------------------------------------------------------
(* What is sorted *)

\* A sequence of numbers that grows and stays within its length counts.
LEMMA GrowingCounts ==
  ASSUME NEW n \in Nat, NEW t \in [1..n -> 1..n],
         \A i, j \in 1..n : i < j => t[i] < t[j]
  PROVE  \A i \in 1..n : t[i] = i
<1> DEFINE P == {i \in 0..n : i # 0 => t[i] >= i}
           Q == {i \in 0..n : i # n => t[n - i] <= n - i}
<1>0. \A i \in 1..n : t[i] \in Nat /\ t[i] >= 1 /\ t[i] <= n
  OBVIOUS
<1>1. P = 0..n
  <2>1. P \in SUBSET (0..n) /\ 0 \in P
    OBVIOUS
  <2>2. ASSUME NEW i \in 1..n, i - 1 \in P PROVE i \in P
    <3>1. CASE i = 1
      BY <1>0, <3>1
    <3>2. CASE i # 1
      <4> DEFINE a == i - 1
      <4>1. a \in 1..n /\ a < i /\ a # 0 /\ i \in 1..n /\ i = a + 1 /\ i \in 0..n
        BY <3>2
      <4>2. t[a] >= a
        BY <2>2, <4>1
      <4> HIDE DEF a, P
      <4>3. t[a] < t[i]
        BY <4>1
      <4>4. t[a] \in Nat /\ t[i] \in Nat
        BY <1>0, <4>1
      <4>5. t[i] >= i
        BY <4>1, <4>2, <4>3, <4>4
      <4> QED BY <4>1, <4>5 DEF P
    <3> QED BY <3>1, <3>2
  <2> HIDE DEF P
  <2> QED BY <2>1, <2>2, NumbersAll
<1>2. Q = 0..n
  <2>1. Q \in SUBSET (0..n)
    OBVIOUS
  <2>2. 0 \in Q
    <3>1. n # 0 => n \in 1..n
      OBVIOUS
    <3> QED BY <1>0, <3>1
  <2>3. ASSUME NEW i \in 1..n, i - 1 \in Q PROVE i \in Q
    <3>1. CASE i = n
      BY <3>1
    <3>2. CASE i # n
      <4> DEFINE a == n - i
      <4>1. a \in 1..n /\ a + 1 \in 1..n /\ a < a + 1 /\ n - (i - 1) = a + 1 /\ i - 1 # n
            /\ i \in 0..n
        BY <3>2
      <4>2. t[a + 1] <= a + 1
        BY <2>3, <4>1
      <4> HIDE DEF a, Q
      <4>3. t[a] < t[a + 1]
        BY <4>1
      <4>4. t[a] \in Nat /\ t[a + 1] \in Nat /\ a \in Nat
        BY <1>0, <4>1
      <4>5. t[a] <= a
        BY <4>2, <4>3, <4>4
      <4> QED BY <4>1, <4>5 DEF Q, a
    <3> QED BY <3>1, <3>2
  <2> HIDE DEF Q
  <2> QED BY <2>1, <2>2, <2>3, NumbersAll
<1>3. ASSUME NEW i \in 1..n PROVE t[i] = i
  <2> DEFINE j == n - i
  <2>1. i \in 0..n /\ i # 0 /\ j \in 0..n /\ j # n /\ n - j = i /\ i \in Nat
    OBVIOUS
  <2>2. t[i] >= i
    BY <1>1, <2>1
  <2> HIDE DEF j
  <2>3. t[n - j] <= n - j
    BY <1>2, <2>1
  <2> HIDE DEF P, Q
  <2>4. t[i] \in Nat
    BY <1>0
  <2> QED BY <2>1, <2>2, <2>3, <2>4
<1> QED BY <1>3

\* A response with n vectors; s gives the text each belongs to.
Carries(group, n, s, data) ==
  /\ s \in [1..n -> 1..Len(group)] /\ IsInjective(s) /\ Len(data) = n
  /\ \A i \in 1..n : data[i].index = s[i] /\ data[i].embedding = group[s[i]]

\* Whatever order the vectors come in, they are put into that of their texts; and
\* there are never more than came.
LEMMA InOrderIs ==
  ASSUME NEW S, NEW group \in Seq(S), NEW n \in 0..Len(group), NEW s, NEW data,
         Carries(group, n, s, data)
  PROVE  /\ \E T : InOrder(data) \in Seq(T)
         /\ Len(InOrder(data)) = n
         /\ n = Len(group) => InOrder(data) = group
<1> DEFINE N == 1..n
           Sorts(p) == \A i, j \in N : i < j => data[p[i]].index <= data[p[j]].index
           p == CHOOSE q \in Bijection(N, N) : Sorts(q)
           T == {data[p[i]].embedding : i \in N}
<1>0. /\ Len(group) \in Nat /\ n \in Nat
      /\ s \in [1..n -> 1..Len(group)] /\ IsInjective(s) /\ Len(data) = n
      /\ \A i \in 1..n : data[i].index = s[i] /\ data[i].embedding = group[s[i]]
  BY DEF Carries
<1>2. InOrder(data) = [i \in N |-> data[p[i]].embedding]
  BY <1>0 DEF InOrder
<1>3. InOrder(data) \in Seq(T) /\ Len(InOrder(data)) = n
  <2> HIDE DEF p
  <2> DEFINE g == [i \in N |-> data[p[i]].embedding]
  <2>1. g \in [1..n -> T]
    OBVIOUS
  <2> HIDE DEF g, T
  <2>2. g \in Seq(T) /\ Len(g) = n
    BY <1>0, <2>1
  <2> QED BY <1>2, <2>2 DEF g
<1>4. ASSUME n = Len(group) PROVE InOrder(data) = group
  <2>1. s \in Bijection(N, N)
    <3>1. s \in Injection(N, N)
      BY <1>0, <1>4 DEF Injection
    <3>2. IsFiniteSet(N)
      BY <1>0, FS_Interval
    <3> HIDE DEF N
    <3>3. s \in Surjection(N, N)
      BY <3>1, <3>2, FS_Injection
    <3> QED BY <3>1, <3>3 DEF Bijection
  <2> DEFINE v == Inverse(s, N, N)
  <2>2. v \in Bijection(N, N) /\ \A i \in N : s[v[i]] = i
    <3> HIDE DEF N
    <3>1. v \in Bijection(N, N)
      BY <2>1, Fun_BijInverse
    <3>2. s \in [N -> N] /\ \A i \in N : i \in Range(s)
      BY <2>1 DEF Bijection, Surjection, Range
    <3>3. \A i \in Range(s) : s[v[i]] = i
      BY <3>2, Fun_InverseProperties
    <3> HIDE DEF v
    <3> QED BY <3>1, <3>2, <3>3
  <2>3. \A q \in Bijection(N, N) : q \in [N -> N] /\ IsInjective(q)
    BY DEF Bijection, Injection
  <2>4. ASSUME NEW q \in Bijection(N, N), NEW i \in N
        PROVE  data[q[i]].index = s[q[i]] /\ data[q[i]].embedding = group[s[q[i]]]
    <3>1. q[i] \in 1..n
      BY <2>3
    <3> QED BY <1>0, <3>1
  <2>5. Sorts(v)
    <3> SUFFICES ASSUME NEW i \in N, NEW j \in N, i < j
                 PROVE  data[v[i]].index <= data[v[j]].index
      OBVIOUS
    <3>1. i <= j
      BY <1>0
    <3> HIDE DEF v, N
    <3> QED BY <2>2, <2>4, <3>1
  <2>6. p \in Bijection(N, N) /\ Sorts(p)
    <3> HIDE DEF v, N
    <3> QED BY <2>2, <2>5
  <2> HIDE DEF p
  <2> DEFINE t == [i \in N |-> s[p[i]]]
  <2>7. t \in [1..n -> 1..n]
    BY <1>0, <1>4, <2>3, <2>6
  <2>8. \A i, j \in 1..n : i < j => t[i] < t[j]
    <3> SUFFICES ASSUME NEW i \in 1..n, NEW j \in 1..n, i < j
                 PROVE  t[i] < t[j]
      OBVIOUS
    <3>1. t[i] <= t[j]
      BY <2>4, <2>6
    <3>2. t[i] # t[j]
      <4>1. p[i] \in N /\ p[j] \in N /\ i # j
        BY <2>3, <2>6
      <4>2. p[i] # p[j]
        <5>1. DOMAIN p = N /\ IsInjective(p)
          BY <2>3, <2>6
        <5> HIDE DEF N
        <5> QED BY <4>1, <5>1 DEF IsInjective, N
      <4>3. s[p[i]] # s[p[j]]
        BY <1>0, <4>1, <4>2 DEF IsInjective
      <4> QED BY <4>3
    <3>3. t[i] \in Nat /\ t[j] \in Nat
      <4>1. t[i] \in 1..n /\ t[j] \in 1..n
        <5> HIDE DEF t
        <5> QED BY <2>7
      <4> QED BY <4>1
    <3> HIDE DEF t
    <3> QED BY <3>1, <3>2, <3>3
  <2>9. \A i \in 1..n : t[i] = i
    <3> HIDE DEF t
    <3> QED BY <1>0, <2>7, <2>8, GrowingCounts
  <2>10. \A i \in 1..n : data[p[i]].embedding = group[i]
    <3> SUFFICES ASSUME NEW i \in 1..n PROVE data[p[i]].embedding = group[i]
      OBVIOUS
    <3>1. i \in N /\ s[p[i]] = i
      BY <2>9
    <3>2. data[p[i]].embedding = group[s[p[i]]]
      BY <2>4, <2>6, <3>1
    <3> QED BY <3>1, <3>2
  <2>11. group = [i \in 1..n |-> group[i]]
    BY <1>4
  <2> QED BY <1>2, <2>10, <2>11
<1> QED BY <1>3, <1>4

\* What is chosen is all there is of it.
LEMMA AmongHas ==
  ASSUME NEW S, NEW s \in Seq(S), NEW A
  PROVE  \A j \in 1..Len(s) : s[j] \in A => \E i \in 1..Len(Among(s, A)) : Among(s, A)[i] = s[j]
<1> DEFINE Has(t) == \A j \in 1..Len(t) : t[j] \in A =>
                       \E i \in 1..Len(Among(t, A)) : Among(t, A)[i] = t[j]
           P == {t \in Seq(S) : Has(t)}
<1>1. <<>> \in P
  OBVIOUS
<1>2. ASSUME NEW t \in P, NEW x \in S
      PROVE  Append(t, x) \in P
  <2> DEFINE u == Append(t, x)
             a == Among(t, A)
             e == Among(u, A)
  <2>1. t \in Seq(S) /\ Has(t)
    OBVIOUS
  <2>2. /\ u \in Seq(S) /\ Len(u) = Len(t) + 1 /\ Len(t) \in Nat
        /\ \A i \in 1..Len(t) : u[i] = t[i]
        /\ u[Len(t) + 1] = x
        /\ \A i \in 1..Len(t) + 1 : i # Len(t) + 1 => i \in 1..Len(t)
    BY <2>1, AppendIs
  <2>3. a \in Seq(S)
    BY <2>1, AmongIn
  <2> HIDE DEF P
  <2>4. (x \in A => e = Append(a, x)) /\ (x \notin A => e = a)
    BY <2>1, AmongTakes, AmongSkips
  <2>5. \A j \in 1..Len(t) : t[j] \in A => \E i \in 1..Len(a) : a[i] = t[j]
    BY <2>1
  <2> HIDE DEF a, e, u
  <2>6. ASSUME x \in A PROVE /\ Len(e) = Len(a) + 1 /\ Len(a) \in Nat /\ e[Len(a) + 1] = x
                             /\ \A i \in 1..Len(a) : e[i] = a[i]
    BY <2>3, <2>4, <2>6, AppendIs
  <2>7. ASSUME NEW j \in 1..Len(u), u[j] \in A PROVE \E i \in 1..Len(e) : e[i] = u[j]
    <3>1. CASE j = Len(t) + 1
      <4>1. u[j] = x /\ x \in A
        BY <2>2, <2>7, <3>1
      <4>2. Len(e) \in 1..Len(e) /\ e[Len(e)] = x
        BY <2>6, <4>1
      <4> QED BY <4>1, <4>2
    <3>2. CASE j # Len(t) + 1
      <4>1. j \in 1..Len(t) /\ u[j] = t[j]
        BY <2>2, <3>2
      <4>2. PICK i \in 1..Len(a) : a[i] = t[j]
        BY <2>5, <2>7, <4>1
      <4>3. CASE x \in A
        <5>1. i \in 1..Len(e) /\ e[i] = a[i]
          BY <2>6, <4>3
        <5> QED BY <4>1, <4>2, <5>1
      <4>4. CASE x \notin A
        BY <2>4, <4>1, <4>2, <4>4
      <4> QED BY <4>3, <4>4
    <3> QED BY <3>1, <3>2
  <2>8. Has(u)
    <3> HIDE DEF u
    <3> QED BY <2>7 DEF e
  <2> QED BY <2>2, <2>8 DEF P, u
<1>3. P = Seq(S)
  <2>1. P \in SUBSET Seq(S)
    OBVIOUS
  <2> HIDE DEF P
  <2> QED BY <1>1, <1>2, <2>1, SequencesAll
<1>4. s \in P
  BY <1>3
<1> QED BY <1>4

-----------------------------------------------------------------------------
(* What a store keeps of the documents of the calls *)

Ids == Nat \X Nat \X Nat

KeptDocs(cs, k)  == {Keep(k, d) : d \in Docs(cs)}
OfCall(cs, k, c) == {x \in KeptDocs(cs, k) : IdOf(k, x)[1] = c}

\* A document is known by its id in every store, and no other has it.
LEMMA KeepIs ==
  ASSUME NEW cs, NEW k, NEW d \in Docs(cs)
  PROVE  /\ IdOf(k, Keep(k, d)) = d.id /\ Keep(k, d).id = KeyOf(k, d.id)
         /\ d.id \in Ids
         /\ Keep(k, d) \in KeptDocs(cs, k)
         /\ Keep(k, d) \in OfCall(cs, k, d.id[1])
<1>1. PICK c \in Nat, b \in Nat, i \in Nat : d = DocAt(cs, c, b, i)
  BY DEF Docs
<1>2. d.id = <<c, b, i>>
  BY <1>1 DEF DocAt, Document
<1>3. IdOf(k, Keep(k, d)) = d.id /\ Keep(k, d).id = KeyOf(k, d.id)
  <2>1. CASE k = "qdrant"
    <3>1. Keep(k, d) = QdrantPoint(d)
      BY <2>1 DEF Keep
    <3> QED BY <2>1, <3>1 DEF QdrantPoint, IdOf, KeyOf
  <2>2. CASE k = "pinecone"
    <3>1. Keep(k, d) = PineconeVector(d)
      BY <2>2 DEF Keep
    <3> QED BY <2>2, <3>1 DEF PineconeVector, IdOf, KeyOf
  <2>3. CASE k # "qdrant" /\ k # "pinecone"
    <3>1. Keep(k, d) = d
      BY <2>3 DEF Keep, PgRow
    <3> QED BY <2>3, <3>1 DEF IdOf, KeyOf
  <2> QED BY <2>1, <2>2, <2>3
<1>4. Keep(k, d) \in KeptDocs(cs, k)
  BY DEF KeptDocs
<1> QED BY <1>2, <1>3, <1>4 DEF OfCall, Ids

LEMMA KeysDiffer == \A k, x, y : KeyOf(k, x) = KeyOf(k, y) => x = y
<1> SUFFICES ASSUME NEW k, NEW x, NEW y, KeyOf(k, x) = KeyOf(k, y) PROVE x = y
  OBVIOUS
<1>1. CASE k = "qdrant"
  <2>1. PointId(x) = PointId(y)
    BY <1>1 DEF KeyOf
  <2>2. PointId(x).uuid = x /\ PointId(y).uuid = y
    BY DEF PointId
  <2> QED BY <2>1, <2>2
<1>2. CASE k # "qdrant"
  BY <1>2 DEF KeyOf
<1> QED BY <1>1, <1>2

LEMMA KeptIs ==
  ASSUME NEW cs, NEW k, NEW s \in Seq(Docs(cs))
  PROVE  /\ Kept(k, s) \in Seq(KeptDocs(cs, k)) /\ Len(Kept(k, s)) = Len(s)
         /\ \A i \in 1..Len(s) : Kept(k, s)[i] = Keep(k, s[i])
         /\ \A i \in 1..Len(s) : s[i] \in Docs(cs)
         /\ IdsIn(s) \in Seq(Ids) /\ Len(IdsIn(s)) = Len(s)
         /\ \A i \in 1..Len(s) : IdsIn(s)[i] = s[i].id
<1> DEFINE D == Docs(cs)
           K == KeptDocs(cs, k)
           I == Ids
           n == Len(s)
<1>1. n \in Nat /\ \A i \in 1..n : s[i] \in D
  <2>1. s \in Seq(D)
    OBVIOUS
  <2> HIDE DEF D
  <2> QED BY <2>1, ItemIs
<1>2. \A i \in 1..n : Keep(k, s[i]) \in K /\ s[i].id \in I
  BY <1>1, KeepIs
<1>3. Kept(k, s) = [i \in 1..n |-> Keep(k, s[i])] /\ IdsIn(s) = [i \in 1..n |-> s[i].id]
  BY DEF Kept, IdsIn
<1> HIDE DEF D, K, I, n
<1>4. Kept(k, s) \in Seq(K) /\ Len(Kept(k, s)) = n
  BY <1>1, <1>2, <1>3
<1>5. IdsIn(s) \in Seq(I) /\ Len(IdsIn(s)) = n
  BY <1>1, <1>2, <1>3
<1> QED BY <1>1, <1>3, <1>4, <1>5 DEF D, K, I, n

\* Keeping, and taking the ids, goes through a concatenation.
LEMMA KeptConcat ==
  ASSUME NEW cs, NEW k, NEW s \in Seq(Docs(cs)), NEW t \in Seq(Docs(cs))
  PROVE  /\ s \o t \in Seq(Docs(cs))
         /\ Kept(k, s \o t) = Kept(k, s) \o Kept(k, t)
         /\ IdsIn(s \o t) = IdsIn(s) \o IdsIn(t)
<1> DEFINE D == Docs(cs)
           K == KeptDocs(cs, k)
           I == Ids
           m == Len(s)
           n == Len(t)
           u == s \o t
           Right(y) == /\ Kept(k, y) \in Seq(K) /\ Len(Kept(k, y)) = Len(y)
                       /\ \A i \in 1..Len(y) : Kept(k, y)[i] = Keep(k, y[i])
                       /\ IdsIn(y) \in Seq(I) /\ Len(IdsIn(y)) = Len(y)
                       /\ \A i \in 1..Len(y) : IdsIn(y)[i] = y[i].id
<1>0. /\ \A y \in Seq(D) : Right(y)
      /\ s \in Seq(D) /\ t \in Seq(D)
  <2>1. ASSUME NEW y \in Seq(Docs(cs)) PROVE Right(y)
    <3>1. \A i \in 1..Len(y) : Kept(k, y)[i] = Keep(k, y[i])
      BY DEF Kept
    <3>2. /\ Kept(k, y) \in Seq(K) /\ Len(Kept(k, y)) = Len(y)
          /\ IdsIn(y) \in Seq(I) /\ Len(IdsIn(y)) = Len(y)
          /\ \A i \in 1..Len(y) : IdsIn(y)[i] = y[i].id
      BY KeptIs
    <3> QED BY <3>1, <3>2
  <2> QED BY <2>1
<1> HIDE DEF D
<1>1. /\ u \in Seq(D) /\ Len(u) = m + n /\ m \in Nat /\ n \in Nat
      /\ \A i \in 1..m : u[i] = s[i]
      /\ \A i \in 1..n : u[m + i] = t[i]
  <2>1. s \in Seq(D) /\ t \in Seq(D)
    BY DEF D
  <2> QED BY <2>1, PartsAre
<1>2. \A i \in 1..m + n : i \in 1..m \/ \E j \in 1..n : i = m + j
  <2> SUFFICES ASSUME NEW i \in 1..m + n, i \notin 1..m PROVE \E j \in 1..n : i = m + j
    OBVIOUS
  <2>1. i - m \in 1..n /\ i = m + (i - m)
    BY <1>1
  <2> QED BY <2>1
<1>3. /\ (\A i \in 1..m : i \in 1..m + n) /\ (\A i \in 1..n : m + i \in 1..m + n)
  BY <1>1
<1>4. ASSUME NEW T, NEW a \in Seq(T), NEW b \in Seq(T), NEW e \in Seq(T),
             Len(a) = m, Len(b) = n, Len(e) = m + n,
             \A i \in 1..m : e[i] = a[i], \A i \in 1..n : e[m + i] = b[i]
      PROVE  e = a \o b
  <2> DEFINE v == a \o b
  <2> HIDE DEF m, n
  <2>1. /\ v \in Seq(T) /\ Len(v) = m + n /\ \A i \in 1..m : v[i] = a[i]
        /\ \A i \in 1..n : v[m + i] = b[i]
    BY <1>4, PartsAre
  <2> HIDE DEF v
  <2>2. \A i \in 1..m + n : e[i] = v[i]
    <3> SUFFICES ASSUME NEW i \in 1..m + n PROVE e[i] = v[i]
      OBVIOUS
    <3>1. CASE i \in 1..m
      BY <1>4, <2>1, <3>1
    <3>2. ASSUME NEW j \in 1..n, i = m + j PROVE e[i] = v[i]
      BY <1>4, <2>1, <3>2
    <3> QED BY <1>2, <3>1, <3>2
  <2>3. e = v
    BY <1>4, <2>1, <2>2, SameSeq
  <2> QED BY <2>3 DEF v
<1> HIDE DEF u
<1>5. /\ Kept(k, s) \in Seq(K) /\ Len(Kept(k, s)) = m /\ \A i \in 1..m : Kept(k, s)[i] = Keep(k, s[i])
      /\ IdsIn(s) \in Seq(I) /\ Len(IdsIn(s)) = m /\ \A i \in 1..m : IdsIn(s)[i] = s[i].id
  BY <1>0
<1>6. /\ Kept(k, t) \in Seq(K) /\ Len(Kept(k, t)) = n /\ \A i \in 1..n : Kept(k, t)[i] = Keep(k, t[i])
      /\ IdsIn(t) \in Seq(I) /\ Len(IdsIn(t)) = n /\ \A i \in 1..n : IdsIn(t)[i] = t[i].id
  BY <1>0
<1>7. /\ Kept(k, u) \in Seq(K) /\ Len(Kept(k, u)) = m + n
      /\ \A i \in 1..m + n : Kept(k, u)[i] = Keep(k, u[i])
      /\ IdsIn(u) \in Seq(I) /\ Len(IdsIn(u)) = m + n /\ \A i \in 1..m + n : IdsIn(u)[i] = u[i].id
  <2>1. Right(u)
    BY <1>0, <1>1
  <2> HIDE DEF K, I, m, n
  <2> QED BY <1>1, <2>1
<1> HIDE DEF K, I, m, n
<1>8. /\ \A i \in 1..m : Kept(k, u)[i] = Kept(k, s)[i] /\ IdsIn(u)[i] = IdsIn(s)[i]
      /\ \A i \in 1..n : Kept(k, u)[m + i] = Kept(k, t)[i] /\ IdsIn(u)[m + i] = IdsIn(t)[i]
  <2>1. ASSUME NEW i \in 1..m
        PROVE  Kept(k, u)[i] = Kept(k, s)[i] /\ IdsIn(u)[i] = IdsIn(s)[i]
    BY <1>1, <1>3, <1>5, <1>7
  <2>2. ASSUME NEW i \in 1..n
        PROVE  Kept(k, u)[m + i] = Kept(k, t)[i] /\ IdsIn(u)[m + i] = IdsIn(t)[i]
    <3> DEFINE j == m + i
    <3>1. j \in 1..m + n /\ u[j] = t[i]
      BY <1>1, <1>3
    <3> HIDE DEF j
    <3>2. Kept(k, u)[j] = Keep(k, u[j]) /\ IdsIn(u)[j] = u[j].id
      BY <1>7, <3>1
    <3>3. Kept(k, t)[i] = Keep(k, t[i]) /\ IdsIn(t)[i] = t[i].id
      BY <1>6
    <3> QED BY <3>1, <3>2, <3>3 DEF j
  <2> QED BY <2>1, <2>2
<1>9. Kept(k, u) = Kept(k, s) \o Kept(k, t)
  BY <1>4, <1>5, <1>6, <1>7, <1>8
<1>10. IdsIn(u) = IdsIn(s) \o IdsIn(t)
  BY <1>4, <1>5, <1>6, <1>7, <1>8
<1> QED BY <1>1, <1>9, <1>10 DEF u, D

\* The documents of the first batches of a call are of these batches.
LEMMA UptoIn ==
  ASSUME NEW cs \in Histories, NEW c \in 1..Len(cs), NEW b \in 0..Len(Batches(cs[c]))
  PROVE  \A i \in 1..Len(Upto(cs, c, b)) :
           /\ Upto(cs, c, b)[i] \in Docs(cs)
           /\ Upto(cs, c, b)[i].id[1] = c
           /\ Upto(cs, c, b)[i].id[2] <= b
<1> DEFINE n == Len(Batches(cs[c]))
           D == Docs(cs)
           In(a) == {d \in D : d.id[1] = c /\ d.id[2] \in 0..a}
           u(a) == Upto(cs, c, a)
           x(a) == DocsOf(cs, c, a)
           P == {a \in 0..n : u(a) \in Seq(In(a))}
<1>1. n \in Nat
  BY DocsAre
<1>2. 0 \in P
  <2>1. u(0) = <<>> /\ 0 \in 0..n
    BY <1>1, UptoIs
  <2>2. <<>> \in Seq(In(0))
    OBVIOUS
  <2> HIDE DEF u, In
  <2> QED BY <2>1, <2>2
<1>3. ASSUME NEW a \in 1..n PROVE x(a) \in Seq(In(a))
  <2> DEFINE l == Len(Batches(cs[c])[a])
  <2>1. x(a) \in Seq(D) /\ Len(x(a)) = l /\ l \in Nat
    BY DocsAre
  <2>2. a \in Nat /\ a \in 0..a
    BY <1>1
  <2>3. \A i \in 1..l : x(a)[i] = DocAt(cs, c, a, i) /\ DocAt(cs, c, a, i).id = <<c, a, i>>
    BY DEF DocsOf, DocAt, Document
  <2> HIDE DEF D, x, l
  <2>4. \A i \in 1..l : x(a)[i] \in In(a)
    <3> SUFFICES ASSUME NEW i \in 1..l PROVE x(a)[i] \in In(a)
      OBVIOUS
    <3>1. x(a)[i] \in D
      BY <2>1, ItemIs
    <3> QED BY <2>2, <2>3, <3>1
  <2> DEFINE T == In(a)
  <2> HIDE DEF T
  <2>5. \A i \in 1..l : x(a)[i] \in T
    BY <2>4 DEF T
  <2>6. x(a) \in Seq(T)
    <3> DEFINE y == x(a)
    <3>1. y \in Seq(D) /\ Len(y) = l /\ \A i \in 1..l : y[i] \in T
      BY <2>1, <2>5
    <3> HIDE DEF y
    <3>2. y \in Seq(T)
      BY <3>1
    <3> QED BY <3>2 DEF y
  <2> QED BY <2>6 DEF T
<1>4. ASSUME NEW a \in 1..n, a - 1 \in P PROVE a \in P
  <2>1. u(a - 1) \in Seq(In(a - 1))
    BY <1>4
  <2>2. In(a - 1) \subseteq In(a)
    <3>1. 0..(a - 1) \subseteq 0..a
      BY <1>1
    <3> QED BY <3>1
  <2>3. u(a) = u(a - 1) \o x(a)
    BY UptoIs
  <2> DEFINE T == In(a)
             T0 == In(a - 1)
             y == u(a - 1)
             z == x(a)
  <2>4. y \in Seq(T0) /\ T0 \subseteq T /\ z \in Seq(T)
    BY <1>3, <2>1, <2>2
  <2>5. u(a) = y \o z /\ a \in 0..n
    BY <1>1, <2>3
  <2> HIDE DEF T, T0, y, z, u, P
  <2>6. y \in Seq(T)
    BY <2>4
  <2>7. y \o z \in Seq(T)
    BY <2>4, <2>6
  <2> QED BY <2>5, <2>7 DEF T, P
<1>5. P = 0..n
  <2>1. P \in SUBSET (0..n)
    OBVIOUS
  <2> HIDE DEF P
  <2> QED BY <1>1, <1>2, <1>4, <2>1, NumbersAll
<1>6. u(b) \in Seq(In(b))
  <2>1. b \in P
    <3> HIDE DEF P
    <3> QED BY <1>5
  <2> QED BY <2>1
<1>7. \A i \in 1..Len(u(b)) : u(b)[i] \in In(b)
  <2> DEFINE T == In(b)
  <2> HIDE DEF T, u
  <2> QED BY <1>6, ItemIs DEF T
<1>8. b \in Nat
  BY <1>1
<1> QED BY <1>7, <1>8

LEMMA MidIs ==
  ASSUME NEW S, NEW s \in Seq(S), NEW a \in Nat, NEW b \in Nat, a <= b, b <= Len(s)
  PROVE  /\ SubSeq(s, a + 1, b) \in Seq(S) /\ Len(SubSeq(s, a + 1, b)) = b - a
         /\ \A i \in 1..(b - a) : SubSeq(s, a + 1, b)[i] = s[a + i]
<1> DEFINE n == b - a
           z == SubSeq(s, a + 1, b)
<1>1. n \in Nat /\ Len(s) \in Nat /\ b = a + n
  OBVIOUS
<1>2. z = [i \in 1..n |-> s[a + i]]
  <2>1. z = [i \in 1..(b - (a + 1) + 1) |-> s[(a + 1) + i - 1]]
    BY <1>1
  <2>2. b - (a + 1) + 1 = n /\ \A i \in 1..n : (a + 1) + i - 1 = a + i
    BY <1>1
  <2> HIDE DEF z, n
  <2> QED BY <2>1, <2>2
<1>3. \A i \in 1..n : s[a + i] \in S
  <2> SUFFICES ASSUME NEW i \in 1..n PROVE s[a + i] \in S
    OBVIOUS
  <2>1. a + i \in 1..Len(s)
    BY <1>1
  <2> QED BY <2>1, ItemIs
<1>4. z \in Seq(S) /\ Len(z) = n /\ \A i \in 1..n : z[i] = s[a + i]
  <2> HIDE DEF z, n
  <2> QED BY <1>1, <1>2, <1>3
<1> QED BY <1>4

\* The middle of a sequence goes with what comes before it.
LEMMA MidJoins ==
  ASSUME NEW S, NEW s \in Seq(S), NEW a \in Nat, NEW b \in Nat, a <= b, b <= Len(s)
  PROVE  SubSeq(s, 1, a) \o SubSeq(s, a + 1, b) = SubSeq(s, 1, b)
<1> DEFINE n == b - a
           x == SubSeq(s, 1, a)
           y == SubSeq(s, a + 1, b)
           z == SubSeq(s, 1, b)
           v == x \o y
<1>1. n \in Nat /\ b = a + n /\ Len(s) \in Nat /\ a <= Len(s)
  OBVIOUS
<1>2. x \in Seq(S) /\ Len(x) = a /\ \A i \in 1..a : x[i] = s[i]
  BY <1>1, SubIs
<1>3. z \in Seq(S) /\ Len(z) = b /\ \A i \in 1..b : z[i] = s[i]
  BY <1>1, SubIs
<1>4. y \in Seq(S) /\ Len(y) = n /\ \A i \in 1..n : y[i] = s[a + i]
  BY MidIs
<1> HIDE DEF x, y, z
<1>5. v \in Seq(S) /\ Len(v) = Len(x) + Len(y) /\ (\A i \in 1..Len(x) : v[i] = x[i])
      /\ (\A i \in 1..Len(y) : v[Len(x) + i] = y[i])
  <2>1. x \in Seq(S) /\ y \in Seq(S)
    BY <1>2, <1>4
  <2> QED BY <2>1
<1> HIDE DEF v, n
<1>6. ASSUME NEW i \in 1..b PROVE z[i] = v[i]
  <2>1. CASE i <= a
    <3>1. i \in 1..a
      BY <1>1, <2>1
    <3> QED BY <1>2, <1>3, <1>5, <3>1
  <2>2. CASE i > a
    <3> DEFINE j == i - a
    <3>1. j \in 1..n /\ a + j = i
      BY <1>1, <2>2
    <3> HIDE DEF j
    <3>2. v[i] = y[j]
      BY <1>2, <1>4, <1>5, <3>1
    <3> QED BY <1>3, <1>4, <3>1, <3>2
  <2>3. i <= a \/ i > a
    BY <1>1
  <2> QED BY <2>1, <2>2, <2>3
<1>7. Len(v) = b
  BY <1>1, <1>2, <1>4, <1>5
<1>8. z = v
  BY <1>3, <1>5, <1>6, <1>7, SameSeq
<1> QED BY <1>8 DEF v, x, y, z

\* The middle of the middle.
LEMMA MidOfMid ==
  ASSUME NEW S, NEW s \in Seq(S), NEW a \in Nat, a <= Len(s), NEW u \in Nat, a + u <= Len(s)
  PROVE  LET p == SubSeq(s, a + 1, Len(s))
         IN  /\ p \in Seq(S) /\ Len(p) = Len(s) - a
             /\ SubSeq(p, 1, u) = SubSeq(s, a + 1, a + u)
             /\ SubSeq(p, u + 1, Len(p)) = SubSeq(s, a + u + 1, Len(s))
<1> DEFINE l == Len(s)
           n == l - a
           e == a + u
           r == n - u
           p == SubSeq(s, a + 1, l)
<1>1. l \in Nat /\ n \in Nat /\ e \in Nat /\ a <= e /\ e <= l /\ u <= n /\ r \in Nat
      /\ e - a = u /\ l - e = r
  OBVIOUS
<1>2. p \in Seq(S) /\ Len(p) = n /\ \A i \in 1..n : p[i] = s[a + i]
  <2>1. l <= Len(s) /\ a <= l
    BY <1>1
  <2> HIDE DEF l
  <2> QED BY <1>1, <2>1, MidIs
<1>3. SubSeq(s, a + 1, e) \in Seq(S) /\ Len(SubSeq(s, a + 1, e)) = u
      /\ \A i \in 1..u : SubSeq(s, a + 1, e)[i] = s[a + i]
  <2> HIDE DEF e, l
  <2>1. SubSeq(s, a + 1, e) \in Seq(S) /\ Len(SubSeq(s, a + 1, e)) = e - a
      /\ \A i \in 1..(e - a) : SubSeq(s, a + 1, e)[i] = s[a + i]
    BY <1>1, MidIs DEF l
  <2> QED BY <1>1, <2>1
<1>4. SubSeq(s, e + 1, l) \in Seq(S) /\ Len(SubSeq(s, e + 1, l)) = r
      /\ \A i \in 1..r : SubSeq(s, e + 1, l)[i] = s[e + i]
  <2> HIDE DEF e, l, r
  <2>0. l <= Len(s)
    BY <1>1 DEF l
  <2>1. SubSeq(s, e + 1, l) \in Seq(S) /\ Len(SubSeq(s, e + 1, l)) = l - e
      /\ \A i \in 1..(l - e) : SubSeq(s, e + 1, l)[i] = s[e + i]
    BY <1>1, <2>0, MidIs
  <2> QED BY <1>1, <2>1
<1> HIDE DEF p
<1>5. SubSeq(p, 1, u) = SubSeq(s, a + 1, e)
  <2>1. SubSeq(p, 1, u) \in Seq(S) /\ Len(SubSeq(p, 1, u)) = u /\ \A i \in 1..u : SubSeq(p, 1, u)[i] = p[i]
    BY <1>1, <1>2, SubIs
  <2>2. \A i \in 1..u : i \in 1..n
    BY <1>1
  <2> HIDE DEF e, n, l
  <2>3. \A i \in 1..u : SubSeq(p, 1, u)[i] = SubSeq(s, a + 1, e)[i]
    BY <1>2, <1>3, <2>1, <2>2
  <2> QED BY <1>3, <2>1, <2>3, SameSeq
<1>6. SubSeq(p, u + 1, Len(p)) = SubSeq(s, e + 1, l)
  <2>1. SubSeq(p, u + 1, n) \in Seq(S) /\ Len(SubSeq(p, u + 1, n)) = n - u
        /\ \A i \in 1..(n - u) : SubSeq(p, u + 1, n)[i] = p[u + i]
    <3> HIDE DEF n
    <3> QED BY <1>1, <1>2, MidIs
  <2>2. \A i \in 1..r : u + i \in 1..n /\ a + (u + i) = e + i
    BY <1>1
  <2>3. n - u = r
    OBVIOUS
  <2> HIDE DEF e, n, l, r
  <2>4. \A i \in 1..r : SubSeq(p, u + 1, n)[i] = SubSeq(s, e + 1, l)[i]
    <3> SUFFICES ASSUME NEW i \in 1..r PROVE SubSeq(p, u + 1, n)[i] = SubSeq(s, e + 1, l)[i]
      OBVIOUS
    <3>1. SubSeq(p, u + 1, n)[i] = p[u + i]
      BY <2>1, <2>3
    <3>2. p[u + i] = s[a + (u + i)]
      BY <1>2, <2>2
    <3>3. SubSeq(s, e + 1, l)[i] = s[e + i]
      BY <1>4
    <3> QED BY <2>2, <3>1, <3>2, <3>3
  <2>5. SubSeq(p, u + 1, n) = SubSeq(s, e + 1, l)
    BY <1>4, <2>1, <2>3, <2>4, SameSeq
  <2> QED BY <1>2, <2>5
<1> QED BY <1>2, <1>5, <1>6 DEF p, l, n, e

\* Every document kept is kept under its id.
LEMMA KeptKeys ==
  ASSUME NEW cs, NEW k, NEW x \in KeptDocs(cs, k)
  PROVE  x.id = KeyOf(k, IdOf(k, x)) /\ IdOf(k, x) \in Ids
<1>1. PICK d \in Docs(cs) : x = Keep(k, d)
  BY DEF KeptDocs
<1>2. IdOf(k, Keep(k, d)) = d.id /\ Keep(k, d).id = KeyOf(k, d.id) /\ d.id \in Ids
  BY KeepIs
<1> QED BY <1>1, <1>2

\* What a call has stored has ids of its own.
LEMMA MineIs ==
  ASSUME NEW cs, NEW k, NEW s \in Seq(KeptDocs(cs, k)), NEW c, NEW p \in Seq(Docs(cs)),
         Among(s, OfCall(cs, k, c)) = Kept(k, p), NEW i \in 1..Len(s), IdOf(k, s[i])[1] = c
  PROVE  \E j \in 1..Len(p) : IdOf(k, s[i]) = p[j].id
<1> DEFINE K == KeptDocs(cs, k)
           A == OfCall(cs, k, c)
           a == Among(s, A)
<1>1. s[i] \in K
  <2>1. s \in Seq(K)
    OBVIOUS
  <2> HIDE DEF K
  <2> QED BY <2>1, ItemIs
<1>2. s[i] \in A
  BY <1>1 DEF OfCall
<1>3. PICK j \in 1..Len(a) : a[j] = s[i]
  <2>1. s \in Seq(K)
    OBVIOUS
  <2> HIDE DEF K, A
  <2> QED BY <1>2, <2>1, AmongHas
<1>4. Len(Kept(k, p)) = Len(p)
  BY KeptIs
<1>5. j \in 1..Len(p) /\ s[i] = Kept(k, p)[j]
  BY <1>3, <1>4
<1>6. Kept(k, p)[j] = Keep(k, p[j]) /\ p[j] \in Docs(cs)
  <2>1. Kept(k, p)[j] = Keep(k, p[j])
    BY <1>5 DEF Kept
  <2>2. p[j] \in Docs(cs)
    BY <1>5, ItemIs
  <2> QED BY <2>1, <2>2
<1>7. IdOf(k, Keep(k, p[j])) = p[j].id
  BY <1>6, KeepIs
<1> QED BY <1>5, <1>6, <1>7

\* What a call stores next goes to the end, and no other document is touched.
LEMMA UpsertIs ==
  ASSUME NEW cs, NEW k, NEW s \in Seq(KeptDocs(cs, k)), NEW c,
         NEW p \in Seq(Docs(cs)), NEW new \in Seq(Docs(cs)),
         Among(s, OfCall(cs, k, c)) = Kept(k, p),
         \A i \in 1..Len(new) : new[i].id[1] = c /\ \A j \in 1..Len(p) : p[j].id # new[i].id
  PROVE  LET t == Upsert(k, s, new)
         IN  /\ t \in Seq(KeptDocs(cs, k))
             /\ \A i \in 1..Len(t) : (\E j \in 1..Len(s) : t[i] = s[j]) \/ IdOf(k, t[i])[1] = c
             /\ \A a : a # c => Among(t, OfCall(cs, k, a)) = Among(s, OfCall(cs, k, a))
             /\ Among(t, OfCall(cs, k, c)) = Kept(k, p \o new)
<1> DEFINE K == KeptDocs(cs, k)
           t == Upsert(k, s, new)
           kn == Kept(k, new)
           others == {x \in Range(s) : \A i \in 1..Len(kn) : kn[i].id # x.id}
<1>1. kn \in Seq(K) /\ Len(kn) = Len(new)
  BY KeptIs
<1>2. t = Among(s, others) \o kn
  BY DEF Upsert, Each, Kept
<1>3. ASSUME NEW i \in 1..Len(new)
      PROVE  kn[i] = Keep(k, new[i]) /\ IdOf(k, kn[i]) = new[i].id /\ kn[i].id = KeyOf(k, new[i].id)
  <2>1. kn[i] = Keep(k, new[i])
    BY DEF Kept
  <2>2. new[i] \in Docs(cs)
    BY ItemIs
  <2>3. IdOf(k, Keep(k, new[i])) = new[i].id /\ Keep(k, new[i]).id = KeyOf(k, new[i].id)
    BY <2>2, KeepIs
  <2> QED BY <2>1, <2>3
<1> HIDE DEF kn
<1>4. ASSUME NEW j \in 1..Len(s) PROVE s[j] \in others /\ s[j] \in K
  <2>1. s[j] \in K
    <3>1. s \in Seq(K)
      OBVIOUS
    <3> HIDE DEF K
    <3> QED BY <3>1, ItemIs
  <2>2. s[j] \in Range(s)
    BY DEF Range
  <2>3. s[j].id = KeyOf(k, IdOf(k, s[j]))
    BY <2>1, KeptKeys
  <2>4. ASSUME NEW i \in 1..Len(kn), kn[i].id = s[j].id PROVE FALSE
    <3>1. i \in 1..Len(new)
      BY <1>1
    <3>2. KeyOf(k, new[i].id) = KeyOf(k, IdOf(k, s[j]))
      BY <1>3, <2>3, <2>4, <3>1
    <3>3. new[i].id = IdOf(k, s[j])
      BY <3>2, KeysDiffer
    <3>4. IdOf(k, s[j])[1] = c
      BY <3>1, <3>3
    <3>5. PICK m \in 1..Len(p) : IdOf(k, s[j]) = p[m].id
      BY <3>4, MineIs
    <3> QED BY <3>1, <3>3, <3>5
  <2> QED BY <2>1, <2>2, <2>4
<1>5. t = s \o kn
  <2>1. \A j \in 1..Len(s) : s[j] \in others
    BY <1>4
  <2>2. s \in Seq(K)
    OBVIOUS
  <2> HIDE DEF others, K
  <2>3. Among(s, others) = s
    BY <2>1, <2>2, AmongAll
  <2> QED BY <1>2, <2>3
<1> HIDE DEF t, others
<1>6. /\ t \in Seq(K) /\ Len(t) = Len(s) + Len(kn) /\ Len(s) \in Nat /\ Len(kn) \in Nat
      /\ \A i \in 1..Len(s) : t[i] = s[i]
      /\ \A i \in 1..Len(kn) : t[Len(s) + i] = kn[i]
  <2>1. s \in Seq(K)
    OBVIOUS
  <2> HIDE DEF K
  <2>2. /\ s \o kn \in Seq(K) /\ Len(s \o kn) = Len(s) + Len(kn)
        /\ Len(s) \in Nat /\ Len(kn) \in Nat
        /\ \A i \in 1..Len(s) : (s \o kn)[i] = s[i]
        /\ \A i \in 1..Len(kn) : (s \o kn)[Len(s) + i] = kn[i]
    <3>1. kn \in Seq(K)
      BY <1>1
    <3>2. Len(s) \in Nat /\ Len(kn) \in Nat
      BY <2>1, <3>1
    <3> QED BY <2>1, <3>1, <3>2, PartsAre
  <2> QED BY <1>5, <2>2
<1>7. ASSUME NEW i \in 1..Len(t)
      PROVE  (\E j \in 1..Len(s) : t[i] = s[j]) \/ IdOf(k, t[i])[1] = c
  <2>1. CASE i <= Len(s)
    <3>1. i \in 1..Len(s)
      BY <1>6, <2>1
    <3> QED BY <1>6, <3>1
  <2>2. CASE i > Len(s)
    <3> DEFINE j == i - Len(s)
    <3>1. j \in 1..Len(kn) /\ Len(s) + j = i
      BY <1>6, <2>2
    <3> HIDE DEF j
    <3>2. t[i] = kn[j] /\ j \in 1..Len(new)
      BY <1>1, <1>6, <3>1
    <3> QED BY <1>3, <3>2
  <2>3. i <= Len(s) \/ i > Len(s)
    BY <1>6
  <2> QED BY <2>1, <2>2, <2>3
<1>8. ASSUME NEW a PROVE Among(t, OfCall(cs, k, a)) = Among(s, OfCall(cs, k, a)) \o Among(kn, OfCall(cs, k, a))
  <2> DEFINE A == OfCall(cs, k, a)
  <2>1. s \in Seq(K)
    OBVIOUS
  <2> HIDE DEF A, K
  <2>2. Among(s \o kn, A) = Among(s, A) \o Among(kn, A)
    BY <1>1, <2>1, AmongConcat
  <2> QED BY <1>5, <2>2 DEF A
<1>9. ASSUME NEW i \in 1..Len(kn) PROVE kn[i] \in K /\ IdOf(k, kn[i])[1] = c
  <2>1. i \in 1..Len(new)
    BY <1>1
  <2>2. kn[i] \in K
    <3> HIDE DEF K
    <3> QED BY <1>1, ItemIs
  <2> QED BY <1>3, <2>1, <2>2
<1>10. ASSUME NEW a, a # c PROVE Among(t, OfCall(cs, k, a)) = Among(s, OfCall(cs, k, a))
  <2> DEFINE A == OfCall(cs, k, a)
  <2>1. \A i \in 1..Len(kn) : kn[i] \notin A
    BY <1>9, <1>10 DEF OfCall
  <2>2. s \in Seq(K)
    OBVIOUS
  <2> HIDE DEF A, K
  <2>3. Among(kn, A) = <<>>
    BY <1>1, <2>1, AmongNone
  <2>4. Among(s, A) \in Seq(K)
    BY <2>2, AmongIn
  <2>5. Among(s, A) \o <<>> = Among(s, A)
    BY <2>4
  <2> QED BY <1>8, <2>3, <2>5 DEF A
<1>11. Among(t, OfCall(cs, k, c)) = Kept(k, p \o new)
  <2> DEFINE A == OfCall(cs, k, c)
  <2>1. \A i \in 1..Len(kn) : kn[i] \in A
    BY <1>9 DEF OfCall
  <2>2. Among(t, A) = Among(s, A) \o Among(kn, A) /\ Among(s, A) = Kept(k, p)
    BY <1>8
  <2> HIDE DEF A, K
  <2>3. Among(kn, A) = kn
    BY <1>1, <2>1, AmongAll
  <2>4. Kept(k, p \o new) = Kept(k, p) \o Kept(k, new)
    BY KeptConcat
  <2> QED BY <2>2, <2>3, <2>4 DEF A, kn
<1> QED BY <1>6, <1>7, <1>10, <1>11 DEF t

\* What a call has stored is deleted under its ids, and nothing else is.
LEMMA DeleteIs ==
  ASSUME NEW cs, NEW k, NEW s \in Seq(KeptDocs(cs, k)), NEW c, NEW p \in Seq(Docs(cs)),
         Among(s, OfCall(cs, k, c)) = Kept(k, p), \A j \in 1..Len(p) : p[j].id[1] = c
  PROVE  LET t == Delete(k, s, Range(IdsIn(p)))
         IN  /\ t \in Seq(KeptDocs(cs, k))
             /\ \A i \in 1..Len(t) : \E j \in 1..Len(s) : t[i] = s[j]
             /\ \A a : a # c => Among(t, OfCall(cs, k, a)) = Among(s, OfCall(cs, k, a))
             /\ Among(t, OfCall(cs, k, c)) = <<>>
<1> DEFINE K == KeptDocs(cs, k)
           t == Delete(k, s, Range(IdsIn(p)))
           keys == {KeyOf(k, id) : id \in Range(IdsIn(p))}
           left == {x \in Range(s) : x.id \notin keys}
<1>1. t = Among(s, left)
  BY DEF Delete, KeyOf
<1>2. s \in Seq(K) /\ \A j \in 1..Len(s) : s[j] \in K
  <2>1. s \in Seq(K)
    OBVIOUS
  <2> HIDE DEF K
  <2> QED BY <2>1, ItemIs
<1>3. /\ t \in Seq(K)
      /\ \A i \in 1..Len(t) : t[i] \in left
      /\ \A i \in 1..Len(t) : \E j \in 1..Len(s) : s[j] = t[i]
  <2> HIDE DEF left, K
  <2>1. /\ Among(s, left) \in Seq(K)
        /\ \A i \in 1..Len(Among(s, left)) : Among(s, left)[i] \in left
        /\ \A i \in 1..Len(Among(s, left)) : \E j \in 1..Len(s) : s[j] = Among(s, left)[i]
    BY <1>2, AmongIn
  <2> QED BY <1>1, <2>1
<1>4. \A id : id \in Range(IdsIn(p)) <=> \E j \in 1..Len(p) : id = p[j].id
  BY KeptIs DEF IdsIn, Range
<1>5. ASSUME NEW j \in 1..Len(s), IdOf(k, s[j])[1] = c PROVE s[j] \notin left
  <2>1. PICK m \in 1..Len(p) : IdOf(k, s[j]) = p[m].id
    BY <1>5, MineIs
  <2>2. IdOf(k, s[j]) \in Range(IdsIn(p))
    BY <1>4, <2>1
  <2>3. s[j].id = KeyOf(k, IdOf(k, s[j]))
    BY <1>2, KeptKeys
  <2>4. s[j].id \in keys
    BY <2>2, <2>3
  <2> QED BY <2>4
<1>6. ASSUME NEW j \in 1..Len(s), IdOf(k, s[j])[1] # c PROVE s[j] \in left
  <2>1. s[j].id = KeyOf(k, IdOf(k, s[j]))
    BY <1>2, KeptKeys
  <2>2. ASSUME s[j].id \in keys PROVE FALSE
    <3>1. PICK id \in Range(IdsIn(p)) : KeyOf(k, IdOf(k, s[j])) = KeyOf(k, id)
      BY <2>1, <2>2
    <3>2. IdOf(k, s[j]) = id
      BY <3>1, KeysDiffer
    <3>3. PICK m \in 1..Len(p) : id = p[m].id
      BY <1>4, <3>1
    <3> QED BY <1>6, <3>2, <3>3
  <2>3. s[j] \in Range(s)
    BY <1>2 DEF Range
  <2> QED BY <2>2, <2>3
<1> HIDE DEF t, left
<1>7. ASSUME NEW a, a # c PROVE Among(t, OfCall(cs, k, a)) = Among(s, OfCall(cs, k, a))
  <2> DEFINE A == OfCall(cs, k, a)
  <2>1. \A j \in 1..Len(s) : s[j] \in A => s[j] \in left
    BY <1>6, <1>7 DEF OfCall
  <2> HIDE DEF A, K
  <2>2. Among(Among(s, left), A) = Among(s, A)
    BY <1>2, <2>1, AmongTwice
  <2> QED BY <1>1, <2>2 DEF A
<1>8. Among(t, OfCall(cs, k, c)) = <<>>
  <2> DEFINE A == OfCall(cs, k, c)
  <2>1. \A i \in 1..Len(t) : t[i] \notin A
    <3> SUFFICES ASSUME NEW i \in 1..Len(t) PROVE t[i] \notin A
      OBVIOUS
    <3>1. PICK j \in 1..Len(s) : s[j] = t[i]
      BY <1>3
    <3>2. IdOf(k, s[j])[1] # c
      BY <1>3, <1>5, <3>1
    <3> QED BY <3>1, <3>2 DEF OfCall
  <2> HIDE DEF A, K
  <2>2. Among(t, A) = <<>>
    BY <1>3, <2>1, AmongNone
  <2> QED BY <2>2 DEF A
<1> QED BY <1>3, <1>7, <1>8 DEF t

-----------------------------------------------------------------------------
(* The invariant *)

Mine(c) == Among(store, OfCall(calls, kind, c))

Beginning(cs, c, p) == p \in Seq(Docs(cs)) /\ \E r \in Seq(Docs(cs)) : Whole(cs, c) = p \o r

\* What has become of a call that has returned.
Result(cs, k, c, mine, answer) ==
  /\ \E p : Beginning(cs, c, p) /\ mine = Kept(k, p)
  /\ answer.ok => mine = Kept(k, Whole(cs, c)) /\ answer.ids = IdsIn(Whole(cs, c))

HaveInv ==
  /\ calls \in Histories /\ at \in 0..Len(calls) /\ stage \in {"idle", "embedding", "storing"}
  /\ texts = [c \in 1..at |-> Batches(calls[c])]
  /\ answers \in Seq([ok : BOOLEAN, ids : Seq(Ids)])
  /\ Len(answers) = IF stage = "idle" THEN at ELSE at - 1
  /\ forgotten \subseteq 1..Len(answers)
  /\ store \in Seq(KeptDocs(calls, kind))
  /\ \A i \in 1..Len(store) : IdOf(kind, store[i])[1] \in 1..at

DoneInv ==
  \A c \in 1..Len(answers) :
    IF c \in forgotten THEN Mine(c) = <<>> ELSE Result(calls, kind, c, Mine(c), answers[c])

\* A call that goes on is at its batch b, and has stored what comes before, or m more.
Embeds(b) ==
  /\ posted \in 0..Len(Batches(calls[at])[b])
  /\ vectors \in Seq(Range(vectors)) /\ Len(vectors) <= posted
  /\ Len(vectors) = posted => vectors = SubSeq(Batches(calls[at])[b], 1, posted)
  /\ Mine(at) = Kept(kind, Upto(calls, at, b - 1))

Stores(b, m) ==
  /\ pending = SubSeq(DocsOf(calls, at, b), m + 1, Len(DocsOf(calls, at, b)))
  /\ Mine(at) = Kept(kind, Upto(calls, at, b - 1) \o SubSeq(DocsOf(calls, at, b), 1, m))

GoesOn(b) ==
  /\ queue = SubSeq(Batches(calls[at]), b, Len(Batches(calls[at])))
  /\ ids = IdsIn(Upto(calls, at, b - 1))
  /\ stage = "embedding" => Embeds(b)
  /\ stage = "storing" => \E m \in 0..Len(DocsOf(calls, at, b)) : Stores(b, m)

CallInv == stage # "idle" => \E b \in 1..Len(Batches(calls[at])) : GoesOn(b)

StoreInv == HaveInv /\ DoneInv /\ CallInv

-----------------------------------------------------------------------------
(* The steps *)

LEMMA CallsAre == \A cs \in Histories : Len(cs) \in Nat
<1> SUFFICES ASSUME NEW cs \in Histories PROVE Len(cs) \in Nat
  OBVIOUS
<1>1. cs \in Seq(Range(cs))
  BY MemoryAssumption
<1> QED BY <1>1

\* What a step leaves of the documents of the calls that have returned.
Spares(c) ==
  /\ store' \in Seq(KeptDocs(calls, kind))
  /\ \A i \in 1..Len(store') : IdOf(kind, store'[i])[1] \in 1..c
  /\ \A d \in 1..Len(answers) : Among(store', OfCall(calls, kind, d)) = Mine(d)

LEMMA SparesAll ==
  ASSUME StoreInv, UNCHANGED store, NEW c \in Nat, at <= c
  PROVE  Spares(c)
<1>1. at \in Nat
  BY CallsAre DEF StoreInv, HaveInv
<1>2. 1..at \subseteq 1..c
  BY <1>1
<1> QED BY <1>2 DEF StoreInv, HaveInv, Spares, Mine

\* A step after which a call goes on keeps what is said of those that returned.
LEMMA Going ==
  ASSUME StoreInv, UNCHANGED <<kind, calls, forgotten, answers>>,
         at' \in 1..Len(calls), texts' = [c \in 1..at' |-> Batches(calls[c])],
         stage' \in {"embedding", "storing"}, at' = Len(answers) + 1, Spares(at')
  PROVE  HaveInv' /\ DoneInv'
<1>1. at' \in 0..Len(calls)
  BY CallsAre DEF StoreInv, HaveInv
<1>2. HaveInv'
  BY <1>1 DEF StoreInv, HaveInv, Spares
<1>3. DoneInv'
  <2> SUFFICES ASSUME NEW c \in 1..Len(answers)
               PROVE  IF c \in forgotten THEN Among(store', OfCall(calls, kind, c)) = <<>>
                      ELSE Result(calls, kind, c, Among(store', OfCall(calls, kind, c)), answers[c])
    BY DEF DoneInv, Mine
  <2>1. Among(store', OfCall(calls, kind, c)) = Mine(c)
    BY DEF Spares
  <2> QED BY <2>1 DEF StoreInv, DoneInv
<1> QED BY <1>2, <1>3

\* A call returns, with a result that is true of what is stored.
LEMMA Ending ==
  ASSUME NEW answer \in [ok : BOOLEAN, ids : Seq(Ids)],
         StoreInv, UNCHANGED <<kind, calls, forgotten>>,
         at' \in 1..Len(calls), texts' = [c \in 1..at' |-> Batches(calls[c])],
         at' = Len(answers) + 1, Ends(answer), Spares(at'),
         Result(calls, kind, at', Among(store', OfCall(calls, kind, at')), answer)
  PROVE  StoreInv'
<1> DEFINE A == [ok : BOOLEAN, ids : Seq(Ids)]
           n == Len(answers)
<1>1. at' \in 0..Len(calls) /\ at' \in Nat
  BY CallsAre DEF StoreInv, HaveInv
<1>2. stage' = "idle" /\ answers' = Append(answers, answer) /\ answers \in Seq(A)
  BY DEF Ends, StoreInv, HaveInv
<1>0. Len(answers) = n /\ at' = n + 1
  OBVIOUS
<1> HIDE DEF A, n
<1>3. /\ answers' \in Seq(A) /\ Len(answers') = n + 1 /\ n \in Nat
      /\ \A i \in 1..n : answers'[i] = answers[i]
      /\ answers'[n + 1] = answer
      /\ \A i \in 1..n + 1 : i # n + 1 => i \in 1..n
  <2>1. answer \in A
    BY DEF A
  <2> DEFINE t == Append(answers, answer)
  <2>2. /\ t \in Seq(A) /\ Len(t) = Len(answers) + 1 /\ Len(answers) \in Nat
        /\ \A i \in 1..Len(answers) : t[i] = answers[i]
        /\ t[Len(answers) + 1] = answer
        /\ \A i \in 1..Len(answers) + 1 : i # Len(answers) + 1 => i \in 1..Len(answers)
    BY <1>2, <2>1, AppendIs
  <2>3. answers' = t
    BY <1>2
  <2> HIDE DEF t
  <2> QED BY <1>0, <2>2, <2>3
<1>4. at' = n + 1
  BY <1>0
<1>5. forgotten' \subseteq 1..Len(answers')
  <2>1. forgotten \subseteq 1..n
    BY <1>0 DEF StoreInv, HaveInv
  <2>2. 1..n \subseteq 1..n + 1
    BY <1>3
  <2>3. forgotten' = forgotten /\ Len(answers') = n + 1
    BY <1>3
  <2> QED BY <2>1, <2>2, <2>3
<1>6. HaveInv'
  BY <1>1, <1>2, <1>3, <1>4, <1>5 DEF StoreInv, HaveInv, Spares, A
<1>7. DoneInv'
  <2> SUFFICES ASSUME NEW c \in 1..n + 1
               PROVE  IF c \in forgotten THEN Among(store', OfCall(calls, kind, c)) = <<>>
                      ELSE Result(calls, kind, c, Among(store', OfCall(calls, kind, c)), answers'[c])
    BY <1>3 DEF DoneInv, Mine
  <2>1. CASE c = n + 1
    <3>1. c \notin forgotten
      <4>1. forgotten \subseteq 1..n
        BY <1>0 DEF StoreInv, HaveInv
      <4>2. n + 1 \notin 1..n
        BY <1>3
      <4> QED BY <2>1, <4>1, <4>2
    <3> QED BY <1>3, <1>4, <2>1, <3>1
  <2>2. CASE c # n + 1
    <3>1. c \in 1..n
      BY <1>3, <2>2
    <3>2. Among(store', OfCall(calls, kind, c)) = Mine(c)
      BY <1>0, <3>1 DEF Spares
    <3>3. IF c \in forgotten THEN Mine(c) = <<>> ELSE Result(calls, kind, c, Mine(c), answers[c])
      BY <1>0, <3>1 DEF StoreInv, DoneInv
    <3>4. answers'[c] = answers[c]
      BY <1>3, <3>1
    <3> QED BY <3>2, <3>3, <3>4
  <2> QED BY <2>1, <2>2
<1> QED BY <1>2, <1>6, <1>7 DEF StoreInv, CallInv

\* A call fails: what it has stored stays.
LEMMA Failing ==
  ASSUME StoreInv, UNCHANGED <<kind, calls, at, texts, forgotten>>, stage # "idle",
         Ends(Error), Spares(at),
         NEW p, Beginning(calls, at, p), Among(store', OfCall(calls, kind, at)) = Kept(kind, p)
  PROVE  StoreInv'
<1>1. Error \in [ok : BOOLEAN, ids : Seq(Ids)] /\ Error.ok = FALSE
  <2>1. <<>> \in Seq(Ids)
    OBVIOUS
  <2> QED BY <2>1 DEF Error
<1>2. at \in 1..Len(calls) /\ Len(answers) = at - 1
  <2>1. Len(answers) \in Nat
    BY DEF StoreInv, HaveInv
  <2>2. Len(answers) = at - 1 /\ at \in 0..Len(calls) /\ Len(calls) \in Nat
    BY CallsAre DEF StoreInv, HaveInv
  <2> QED BY <2>1, <2>2
<1>3. Result(calls, kind, at, Among(store', OfCall(calls, kind, at)), Error)
  BY <1>1 DEF Result
<1>4. at' = at /\ texts' = [c \in 1..at' |-> Batches(calls[c])]
  BY DEF StoreInv, HaveInv
<1> QED BY <1>1, <1>2, <1>3, <1>4, Ending

\* After its first b batches the call goes on with the next, or returns.
LEMMA Advancing ==
  ASSUME StoreInv, UNCHANGED <<kind, calls, forgotten>>,
         at' \in 1..Len(calls), texts' = [c \in 1..at' |-> Batches(calls[c])],
         at' = Len(answers) + 1, Spares(at'),
         NEW b \in 0..Len(Batches(calls[at'])),
         Among(store', OfCall(calls, kind, at')) = Kept(kind, Upto(calls, at', b)),
         GoOn(SubSeq(Batches(calls[at']), b + 1, Len(Batches(calls[at']))),
              IdsIn(Upto(calls, at', b)))
  PROVE  StoreInv'
<1> DEFINE c    == at'
           bs   == Batches(calls[c])
           n    == Len(bs)
           rest == SubSeq(bs, b + 1, n)
           up   == Upto(calls, c, b)
           D    == Docs(calls)
<1>0. calls \in Histories /\ c \in 1..Len(calls)
  BY DEF StoreInv, HaveInv
<1>1. n \in Nat /\ b \in Nat /\ b <= n
  BY <1>0, DocsAre
<1>2. up \in Seq(D) /\ Upto(calls, c, n) = Whole(calls, c)
  BY <1>0, UptoIs
<1>3. PICK S : bs \in Seq(S)
  BY <1>0, BatchesAre
<1>4. rest \in Seq(S) /\ Len(rest) = n - b
  <2> HIDE DEF bs
  <2> QED BY <1>1, <1>3, MidIs
<1>5. CASE rest = <<>>
  <2>1. b = n
    <3>1. Len(rest) = 0
      <4> HIDE DEF rest
      <4> QED BY <1>5
    <3> HIDE DEF rest, n
    <3> QED BY <1>1, <1>4, <3>1
  <2> DEFINE answer == [ok |-> TRUE, ids |-> IdsIn(up)]
  <2>2. Ends(answer)
    BY <1>5 DEF GoOn
  <2>3. IdsIn(up) \in Seq(Ids)
    BY <1>2, KeptIs
  <2>4. answer \in [ok : BOOLEAN, ids : Seq(Ids)]
    BY <2>3
  <2>5. up = Whole(calls, c)
    BY <1>2, <2>1
  <2>6. up = up \o <<>> /\ <<>> \in Seq(D)
    BY <1>2
  <2>7. Beginning(calls, c, up)
    BY <1>2, <2>5, <2>6 DEF Beginning
  <2>8. Result(calls, kind, c, Among(store', OfCall(calls, kind, c)), answer)
    BY <2>5, <2>7 DEF Result
  <2> HIDE DEF answer
  <2> QED BY <2>2, <2>4, <2>8, Ending
<1>6. CASE rest # <<>>
  <2>1. /\ stage' = "embedding" /\ queue' = rest /\ ids' = IdsIn(up)
        /\ posted' = 0 /\ vectors' = <<>> /\ UNCHANGED answers
    BY <1>6 DEF GoOn
  <2>2. HaveInv' /\ DoneInv'
    BY <2>1, Going
  <2>3. b + 1 \in 1..n /\ (b + 1) - 1 = b
    <3>1. n # b
      <4>1. Len(rest) # 0
        BY <1>4, <1>6
      <4> QED BY <1>1, <1>4, <4>1
    <3> QED BY <1>1, <3>1
  <2>4. GoesOn(b + 1)'
    <3>1. 0 \in 0..Len(bs[b + 1])
      <4>1. Len(bs[b + 1]) \in Nat
        BY <1>0, <2>3, DocsAre
      <4> QED BY <4>1
    <3>2. Len(<<>>) = 0 /\ <<>> \in Seq(Range(<<>>)) /\ SubSeq(bs[b + 1], 1, 0) = <<>>
      <4>1. PICK T : bs \in Seq(Seq(T))
        BY <1>0, BatchesAre
      <4>2. bs[b + 1] \in Seq(T)
        <5> DEFINE U == Seq(T)
        <5> HIDE DEF U, bs
        <5>1. bs[b + 1] \in U
          BY <2>3, <4>1, ItemIs DEF U
        <5> QED BY <5>1 DEF U
      <4> DEFINE x == bs[b + 1]
      <4> HIDE DEF x
      <4>3. SubSeq(x, 1, 0) \in Seq(T) /\ Len(SubSeq(x, 1, 0)) = 0
        <5>1. x \in Seq(T) /\ 0 <= Len(x) /\ 0 \in Nat
          BY <4>2 DEF x
        <5> QED BY <5>1, SubIs
      <4>4. SubSeq(x, 1, 0) = <<>>
        BY <4>3
      <4> QED BY <4>4 DEF x
    <3>3. Embeds(b + 1)'
      BY <2>1, <2>3, <3>1, <3>2 DEF Embeds, Mine
    <3> QED BY <2>1, <2>3, <3>3 DEF GoesOn
  <2>5. CallInv'
    BY <2>3, <2>4 DEF CallInv
  <2> QED BY <2>2, <2>5 DEF StoreInv
<1> QED BY <1>5, <1>6

\* The call that goes on, and its present batch.
LEMMA Present ==
  ASSUME StoreInv, stage # "idle", NEW b \in 1..Len(Batches(calls[at])), GoesOn(b)
  PROVE  /\ calls \in Histories /\ at \in 1..Len(calls) /\ at \in Nat /\ at = Len(answers) + 1
         /\ texts = [c \in 1..at |-> Batches(calls[c])]
         /\ Len(Batches(calls[at])) \in Nat /\ b \in Nat
         /\ queue[1] = Batches(calls[at])[b] /\ BatchNumber = b
         /\ Tail(queue) = SubSeq(Batches(calls[at]), b + 1, Len(Batches(calls[at])))
         /\ Len(queue[1]) \in Nat /\ Len(DocsOf(calls, at, b)) = Len(queue[1])
         /\ \E S : queue[1] \in Seq(S)
<1> DEFINE bs == Batches(calls[at])
           n  == Len(bs)
<1>1. calls \in Histories /\ at \in 0..Len(calls) /\ Len(calls) \in Nat /\ Len(answers) = at - 1
      /\ Len(answers) \in Nat /\ texts = [c \in 1..at |-> Batches(calls[c])]
  BY CallsAre DEF StoreInv, HaveInv
<1>2. at \in 1..Len(calls) /\ at \in Nat /\ at = Len(answers) + 1
  BY <1>1
<1>3. n \in Nat /\ Len(bs[b]) \in Nat /\ Len(DocsOf(calls, at, b)) = Len(bs[b])
  BY <1>1, <1>2, DocsAre
<1>4. PICK S : bs \in Seq(Seq(S))
  BY <1>1, <1>2, BatchesAre
<1>5. b \in Nat /\ b <= n /\ b - 1 \in Nat /\ (b - 1) + 1 = b /\ b - 1 <= n /\ b >= 1
  BY <1>3
<1>6. queue = SubSeq(bs, (b - 1) + 1, n)
  BY <1>5 DEF GoesOn
<1> DEFINE T == Seq(S)
           a == b - 1
           l == n - a
<1> HIDE DEF T, bs, n
<1>7. queue \in Seq(T) /\ Len(queue) = n - a /\ \A i \in 1..(n - a) : queue[i] = bs[a + i]
  <2>1. bs \in Seq(T) /\ n = Len(bs) /\ n <= Len(bs)
    BY <1>3, <1>4 DEF T, n
  <2> HIDE DEF a
  <2>2. SubSeq(bs, a + 1, n) \in Seq(T) /\ Len(SubSeq(bs, a + 1, n)) = n - a
        /\ \A i \in 1..(n - a) : SubSeq(bs, a + 1, n)[i] = bs[a + i]
    BY <1>3, <1>5, <2>1, MidIs DEF a
  <2> QED BY <1>6, <2>2 DEF a
<1>8. l \in Nat /\ l >= 1 /\ 1 \in 1..l /\ a + 1 = b /\ n - l + 1 = b
  BY <1>3, <1>5
<1>9. queue[1] = bs[b] /\ Len(queue) = l
  BY <1>7, <1>8
<1>10. texts[at] = bs
  BY <1>1, <1>2 DEF bs
<1>11. BatchNumber = b
  BY <1>8, <1>9, <1>10 DEF BatchNumber, n
<1>12. Tail(queue) = SubSeq(bs, b + 1, n)
  <2>1. queue \in Seq(T) /\ queue # <<>>
    <3>1. Len(<<>>) = 0
      OBVIOUS
    <3> QED BY <1>7, <1>8, <3>1
  <2>2. Tail(queue) \in Seq(T) /\ Len(Tail(queue)) = Len(queue) - 1
        /\ \A i \in 1..Len(queue) - 1 : Tail(queue)[i] = queue[i + 1]
    BY <2>1
  <2>3. SubSeq(bs, b + 1, n) \in Seq(T) /\ Len(SubSeq(bs, b + 1, n)) = n - b
        /\ \A i \in 1..(n - b) : SubSeq(bs, b + 1, n)[i] = bs[b + i]
    <3>1. bs \in Seq(T) /\ n <= Len(bs)
      BY <1>3, <1>4 DEF T, n
    <3> QED BY <1>3, <1>5, <3>1, MidIs
  <2>4. l - 1 = n - b
    BY <1>3, <1>5
  <2>5. \A i \in 1..(n - b) : i + 1 \in 1..(n - a) /\ a + (i + 1) = b + i
    BY <1>3, <1>5
  <2> HIDE DEF a, l
  <2>6. \A i \in 1..(n - b) : Tail(queue)[i] = SubSeq(bs, b + 1, n)[i]
    <3> SUFFICES ASSUME NEW i \in 1..(n - b) PROVE Tail(queue)[i] = SubSeq(bs, b + 1, n)[i]
      OBVIOUS
    <3>1. Tail(queue)[i] = queue[i + 1]
      BY <1>9, <2>2, <2>4
    <3>2. queue[i + 1] = bs[a + (i + 1)]
      BY <1>7, <2>5
    <3> QED BY <2>3, <2>5, <3>1, <3>2
  <2>7. Len(Tail(queue)) = n - b
    BY <1>9, <2>2, <2>4
  <2> QED BY <2>2, <2>3, <2>6, <2>7, SameSeq
<1>13. \E R : queue[1] \in Seq(R)
  <2>1. 1 \in 1..Len(queue)
    BY <1>8, <1>9
  <2>2. queue[1] \in T
    BY <1>7, <2>1, ItemIs
  <2> QED BY <2>2 DEF T
<1> QED BY <1>1, <1>2, <1>3, <1>5, <1>9, <1>11, <1>12, <1>13 DEF bs, n

LEMMA BeginStep == StoreInv /\ Begin => StoreInv'
<1> SUFFICES ASSUME StoreInv, Begin PROVE StoreInv'
  OBVIOUS
<1> DEFINE c  == at + 1
           bs == Batches(calls[c])
           n  == Len(bs)
<1>1. /\ stage = "idle" /\ at < Len(calls) /\ at' = c
      /\ texts' = Append(texts, bs) /\ GoOn(bs, <<>>)
      /\ UNCHANGED <<kind, calls, store, forgotten>>
  BY DEF Begin
<1>2. /\ calls \in Histories /\ at \in Nat /\ Len(calls) \in Nat /\ Len(answers) = at
      /\ texts = [d \in 1..at |-> Batches(calls[d])]
      /\ store \in Seq(KeptDocs(calls, kind))
      /\ \A i \in 1..Len(store) : IdOf(kind, store[i])[1] \in 1..at
  BY <1>1, CallsAre DEF StoreInv, HaveInv
<1>3. c \in 1..Len(calls) /\ c \in Nat /\ at <= c /\ c \notin 1..at
  BY <1>1, <1>2
<1>4. texts' = [d \in 1..at' |-> Batches(calls[d])]
  <2>1. texts' = [d \in 1..at + 1 |-> Batches(calls[d])]
    <3> DEFINE B(d) == Batches(calls[d])
    <3>1. texts = [d \in 1..at |-> B(d)] /\ texts' = Append(texts, B(at + 1)) /\ at \in Nat
      BY <1>1, <1>2
    <3> HIDE DEF B
    <3>2. texts' = [d \in 1..at + 1 |-> B(d)]
      BY <3>1
    <3> QED BY <3>2 DEF B
  <2> QED BY <1>1, <2>1
<1>5. Among(store, OfCall(calls, kind, c)) = <<>>
  <2> DEFINE A == OfCall(calls, kind, c)
             K == KeptDocs(calls, kind)
  <2>1. \A i \in 1..Len(store) : store[i] \notin A
    BY <1>2, <1>3 DEF OfCall
  <2>2. store \in Seq(K)
    BY <1>2
  <2> HIDE DEF A, K
  <2>3. Among(store, A) = <<>>
    BY <2>1, <2>2, AmongNone
  <2> QED BY <2>3 DEF A
<1>6. Upto(calls, c, 0) = <<>> /\ n \in Nat
  BY <1>2, <1>3, UptoIs, DocsAre
<1>7. Kept(kind, <<>>) = <<>> /\ IdsIn(<<>>) = <<>>
  BY DEF Kept, IdsIn
<1>8. Spares(c)
  BY <1>1, <1>3, SparesAll
<1>9. bs = SubSeq(bs, 0 + 1, n)
  <2>1. PICK S : bs \in Seq(S)
    BY <1>2, <1>3, BatchesAre
  <2> HIDE DEF bs
  <2>2. SubSeq(bs, 1, n) \in Seq(S) /\ Len(SubSeq(bs, 1, n)) = n
        /\ \A i \in 1..n : SubSeq(bs, 1, n)[i] = bs[i]
    <3>1. n <= Len(bs)
      BY <1>6
    <3> QED BY <1>6, <2>1, <3>1, SubIs
  <2>3. bs = SubSeq(bs, 1, n)
    BY <2>1, <2>2, SameSeq
  <2> QED BY <2>3
<1>10. 0 \in 0..n
  BY <1>6
<1>11. GoOn(SubSeq(bs, 0 + 1, n), IdsIn(Upto(calls, c, 0)))
  BY <1>1, <1>6, <1>7, <1>9
<1>12. Among(store', OfCall(calls, kind, c)) = Kept(kind, Upto(calls, c, 0))
  BY <1>1, <1>5, <1>6, <1>7
<1> HIDE DEF c
<1> QED BY <1>1, <1>2, <1>3, <1>4, <1>8, <1>10, <1>11, <1>12, Advancing DEF c

LEMMA RetryStoreStep ==
  ASSUME StoreInv, NEW after \in RetryAfters, NEW jitter \in Jitters, Retry(after, jitter)
  PROVE  StoreInv'
<1>1. UNCHANGED <<kind, calls, at, texts, stage, queue, posted, vectors, pending, ids, store,
                  answers, forgotten>>
  BY DEF Retry
<1>2. HaveInv' /\ DoneInv'
  BY <1>1 DEF StoreInv, HaveInv, DoneInv, Mine
<1>3. CallInv'
  BY <1>1 DEF StoreInv, CallInv, GoesOn, Embeds, Stores, Mine
<1> QED BY <1>2, <1>3 DEF StoreInv

\* What a call has stored, wherever it is, is a beginning.
LEMMA StoredSoFar ==
  ASSUME StoreInv, stage # "idle"
  PROVE  \E p : Beginning(calls, at, p) /\ Mine(at) = Kept(kind, p)
<1>1. PICK b \in 1..Len(Batches(calls[at])) : GoesOn(b)
  BY DEF StoreInv, CallInv
<1> DEFINE x == DocsOf(calls, at, b)
           u == Upto(calls, at, b - 1)
<1>2. calls \in Histories /\ at \in 1..Len(calls) /\ Len(x) \in Nat /\ Len(x) = Len(Batches(calls[at])[b])
  BY <1>1, Present
<1>3. ASSUME NEW m \in 0..Len(x) PROVE Beginning(calls, at, u \o SubSeq(x, 1, m))
  BY <1>2, BeginningIs DEF Beginning
<1>4. CASE stage = "embedding"
  <2>1. Mine(at) = Kept(kind, u)
    BY <1>1, <1>4 DEF GoesOn, Embeds
  <2>2. u \o SubSeq(x, 1, 0) = u
    <3>1. x \in Seq(Docs(calls)) /\ 0 \in Nat /\ 0 <= Len(x)
      BY <1>2, DocsAre
    <3>2. Len(SubSeq(x, 1, 0)) = 0 /\ SubSeq(x, 1, 0) \in Seq(Docs(calls))
      BY <3>1, SubIs
    <3>3. SubSeq(x, 1, 0) = <<>>
      BY <3>2
    <3>4. b - 1 \in 0..Len(Batches(calls[at]))
      BY <1>1, Present
    <3>5. u \in Seq(Docs(calls))
      BY <1>2, <3>4, UptoIs
    <3> HIDE DEF u, x
    <3> QED BY <3>3, <3>5
  <2>3. Beginning(calls, at, u)
    <3>1. 0 \in 0..Len(x)
      BY <1>2
    <3> HIDE DEF u, x
    <3> QED BY <1>3, <2>2, <3>1
  <2> QED BY <2>1, <2>3
<1>5. CASE stage = "storing"
  <2>1. PICK m \in 0..Len(x) : Stores(b, m)
    BY <1>1, <1>5 DEF GoesOn
  <2> QED BY <1>3, <2>1 DEF Stores
<1> QED BY <1>4, <1>5 DEF StoreInv, HaveInv

\* A call fails without another word to the store.
LEMMA FailingHere ==
  ASSUME StoreInv, stage # "idle", UNCHANGED <<kind, calls, at, texts, store, forgotten>>, Ends(Error)
  PROVE  StoreInv'
<1>1. PICK p : Beginning(calls, at, p) /\ Mine(at) = Kept(kind, p)
  BY StoredSoFar
<1>2. Spares(at)
  <2>1. at \in Nat /\ at <= at
    BY CallsAre DEF StoreInv, HaveInv
  <2> QED BY <2>1, SparesAll
<1>3. Among(store', OfCall(calls, kind, at)) = Kept(kind, p)
  BY <1>1 DEF Mine
<1> QED BY <1>1, <1>2, <1>3, Failing

LEMMA GiveUpStep == StoreInv /\ GiveUp => StoreInv'
BY FailingHere DEF GiveUp

LEMMA EmptyEnd ==
  ASSUME NEW S, NEW s \in Seq(S)
  PROVE  SubSeq(s, 1, 0) = <<>> /\ SubSeq(s, 1, Len(s)) = s
<1>1. Len(s) \in Nat /\ 0 <= Len(s) /\ 0 \in Nat
  OBVIOUS
<1>2. Len(SubSeq(s, 1, 0)) = 0 /\ SubSeq(s, 1, 0) \in Seq(S)
  BY <1>1, SubIs
<1>3. SubSeq(s, 1, 0) = <<>>
  BY <1>2
<1>4. /\ SubSeq(s, 1, Len(s)) \in Seq(S) /\ Len(SubSeq(s, 1, Len(s))) = Len(s)
      /\ \A i \in 1..Len(s) : SubSeq(s, 1, Len(s))[i] = s[i]
  BY <1>1, SubIs
<1>5. s = SubSeq(s, 1, Len(s))
  BY <1>4, SameSeq
<1> QED BY <1>3, <1>5

LEMMA JoinIs ==
  ASSUME NEW S, NEW T, NEW s \in Seq(S), NEW t \in Seq(T)
  PROVE  s \o t \in Seq(Range(s \o t)) /\ Len(s \o t) = Len(s) + Len(t)
<1> DEFINE U == S \cup T
           v == s \o t
<1>1. s \in Seq(U) /\ t \in Seq(U)
  OBVIOUS
<1>2. v \in Seq(U) /\ Len(v) = Len(s) + Len(t)
  <2> HIDE DEF U
  <2> QED BY <1>1
<1> HIDE DEF v, U
<1>3. v \in Seq(Range(v))
  <2>1. Len(v) \in Nat /\ v = [i \in 1..Len(v) |-> v[i]]
    BY <1>2
  <2> DEFINE n == Len(v)
  <2>2. \A i \in 1..n : v[i] \in Range(v)
    BY <2>1 DEF Range
  <2> HIDE DEF n
  <2>3. n \in Nat /\ v = [i \in 1..n |-> v[i]]
    BY <2>1 DEF n
  <2> DEFINE R == Range(v)
  <2> HIDE DEF R
  <2>4. \A i \in 1..n : v[i] \in R
    BY <2>2 DEF R
  <2>5. [i \in 1..n |-> v[i]] \in Seq(R)
    BY <2>3, <2>4
  <2>6. v \in Seq(R)
    BY <2>3, <2>5
  <2> QED BY <2>6 DEF R
<1> QED BY <1>2, <1>3 DEF v

\* The texts of a request are the next of the batch.
LEMMA GroupIs ==
  ASSUME NEW S, queue[1] \in Seq(S), posted \in 0..Len(queue[1])
  PROVE  \E e \in Nat : /\ posted <= e /\ e <= Len(queue[1]) /\ Group = SubSeq(queue[1], posted + 1, e)
                        /\ Group \in Seq(S) /\ Len(Group) = e - posted
<1> DEFINE q == queue[1]
           l == Len(q)
           w == posted + EmbedBatch
           e == Min({w, l})
<1>1. q \in Seq(S) /\ l \in Nat /\ posted \in Nat /\ posted <= l /\ w \in Nat /\ posted <= w
  BY MemoryAssumption
<1>2. Group = SubSeq(q, posted + 1, e)
  BY DEF Group
<1> HIDE DEF w, q
<1>3. e \in Nat /\ e <= l /\ (e = w \/ e = l)
  <2> HIDE DEF l
  <2> QED BY <1>1, MinIs
<1> HIDE DEF e
<1>4. posted <= e
  <2> HIDE DEF l
  <2> QED BY <1>1, <1>3
<1>5. SubSeq(q, posted + 1, e) \in Seq(S) /\ Len(SubSeq(q, posted + 1, e)) = e - posted
  BY <1>1, <1>3, <1>4, MidIs
<1> QED BY <1>2, <1>3, <1>4, <1>5 DEF q

\* What the provider may send back.
LEMMA ResponseIs ==
  ASSUME NEW S, Group \in Seq(S), NEW data \in Responses
  PROVE  \E m \in 0..Len(Group) :
           /\ \E T : InOrder(data) \in Seq(T)
           /\ Len(InOrder(data)) = m
           /\ m = Len(Group) => InOrder(data) = Group
<1> DEFINE g == Len(Group)
<1>1. PICK s \in SeqOf(1..g, g) : /\ IsInjective(s)
                                  /\ data = [i \in 1..Len(s) |-> [index |-> s[i], embedding |-> Group[s[i]]]]
  BY DEF Responses
<1>2. g \in Nat
  OBVIOUS
<1> HIDE DEF g
<1>3. PICK m \in 0..g : s \in [1..m -> 1..g]
  BY <1>1 DEF SeqOf
<1>4. Len(s) = m
  BY <1>2, <1>3
<1>5. data = [i \in 1..m |-> [index |-> s[i], embedding |-> Group[s[i]]]]
  BY <1>1, <1>4
<1>6. Len(data) = m /\ \A i \in 1..m : data[i].index = s[i] /\ data[i].embedding = Group[s[i]]
  <2>1. m \in Nat
    BY <1>2
  <2>2. \A i \in 1..m : data[i] = [index |-> s[i], embedding |-> Group[s[i]]]
    BY <1>5
  <2>3. Len(data) = m
    BY <1>5, <2>1
  <2> QED BY <2>2, <2>3
<1> DEFINE gr == Group
<1>7. gr \in Seq(S) /\ m \in 0..Len(gr) /\ Carries(gr, m, s, data)
  BY <1>1, <1>3, <1>6 DEF g, Carries
<1> HIDE DEF gr
<1>8. /\ \E T : InOrder(data) \in Seq(T)
      /\ Len(InOrder(data)) = m
      /\ m = Len(gr) => InOrder(data) = gr
  BY <1>7, InOrderIs
<1> QED BY <1>3, <1>8 DEF gr, g

\* A response: too few vectors are noticed at the end of the batch at the latest.
LEMMA EmbeddedStep ==
  ASSUME StoreInv, NEW data \in Responses, Embedded(data)
  PROVE  StoreInv'
<1> DEFINE in  == InOrder(data)
           all == vectors \o in
           q   == queue[1]
           l   == Len(q)
           g   == Len(Group)
<1>1. /\ stage = "embedding" /\ UNCHANGED <<kind, calls, at, texts, store, forgotten>>
      /\ IF posted + g < l
         THEN /\ vectors' = all /\ posted' = posted + g /\ delays' = <<>>
              /\ UNCHANGED <<stage, queue, pending, ids, answers>>
         ELSE IF Len(all) # l THEN Ends(Error)
         ELSE /\ stage' = "storing"
              /\ pending' = DocumentsOf(all)
              /\ vectors' = <<>> /\ delays' = <<>>
              /\ UNCHANGED <<queue, posted, ids, answers>>
  BY DEF Embedded
<1>2. PICK b \in 1..Len(Batches(calls[at])) : GoesOn(b)
  BY <1>1 DEF StoreInv, CallInv
<1>3. Embeds(b)
  BY <1>1, <1>2 DEF GoesOn
<1>4. /\ calls \in Histories /\ at \in 1..Len(calls) /\ at = Len(answers) + 1
      /\ texts = [c \in 1..at |-> Batches(calls[c])]
      /\ q = Batches(calls[at])[b] /\ BatchNumber = b /\ Len(DocsOf(calls, at, b)) = l /\ l \in Nat
      /\ \E S : q \in Seq(S)
  BY <1>1, <1>2, Present
<1>5. /\ posted \in 0..l /\ posted \in Nat /\ Len(vectors) <= posted
      /\ vectors \in Seq(Range(vectors)) /\ Len(vectors) \in Nat
      /\ Len(vectors) = posted => vectors = SubSeq(q, 1, posted)
  BY <1>3, <1>4 DEF Embeds
<1>6. PICK S : q \in Seq(S)
  BY <1>4
<1>7. PICK e \in Nat : posted <= e /\ e <= l /\ Group = SubSeq(q, posted + 1, e)
                       /\ Group \in Seq(S) /\ g = e - posted
  BY <1>5, <1>6, GroupIs
<1>8. PICK m \in 0..g : /\ \E T : in \in Seq(T)
                        /\ Len(in) = m
                        /\ m = g => in = Group
  BY <1>7, ResponseIs
<1>9. all \in Seq(Range(all)) /\ Len(all) = Len(vectors) + m
  <2>1. PICK T : in \in Seq(T)
    BY <1>8
  <2> HIDE DEF in
  <2>2. all \in Seq(Range(all)) /\ Len(all) = Len(vectors) + Len(in)
    BY <1>5, <2>1, JoinIs
  <2> QED BY <1>8, <2>2
<1>10. posted + g = e /\ Len(all) <= e
  BY <1>5, <1>7, <1>8, <1>9
<1>11. Len(all) = e => all = SubSeq(q, 1, e)
  <2> SUFFICES ASSUME Len(all) = e PROVE all = SubSeq(q, 1, e)
    OBVIOUS
  <2>1. Len(vectors) = posted /\ m = g
    <3> DEFINE v == Len(vectors)
    <3>1. v \in Nat /\ posted \in Nat /\ v <= posted /\ v + m = e /\ g = e - posted /\ e \in Nat
      BY <1>5, <1>7, <1>9
    <3> HIDE DEF all, in, g, l, q, v
    <3>2. m \in 0..g
      OBVIOUS
    <3>3. v = posted /\ m = g
      BY <3>1, <3>2
    <3> QED BY <3>3 DEF v
  <2>2. vectors = SubSeq(q, 1, posted) /\ in = SubSeq(q, posted + 1, e)
    BY <1>5, <1>7, <1>8, <2>1
  <2>3. SubSeq(q, 1, posted) \o SubSeq(q, posted + 1, e) = SubSeq(q, 1, e)
    <3> HIDE DEF q
    <3> QED BY <1>5, <1>6, <1>7, MidJoins DEF l
  <2> QED BY <2>2, <2>3
<1> HIDE DEF all, in, g
<1>12. Spares(at)
  <2>1. at \in Nat /\ at <= at
    BY CallsAre DEF StoreInv, HaveInv
  <2> QED BY <1>1, <2>1, SparesAll
<1>13. CASE posted + g < l
  <2>1. /\ vectors' = all /\ posted' = e
        /\ UNCHANGED <<stage, queue, pending, ids, answers>>
    BY <1>1, <1>10, <1>13
  <2>2. HaveInv' /\ DoneInv'
    BY <1>1, <1>4, <1>12, <2>1, Going
  <2>3. e \in 0..l
    BY <1>4, <1>7
  <2>4. Embeds(b)'
    BY <1>1, <1>3, <1>4, <1>9, <1>10, <1>11, <2>1, <2>3 DEF Embeds, Mine
  <2>5. GoesOn(b)'
    BY <1>1, <1>2, <2>1, <2>4 DEF GoesOn
  <2> QED BY <1>1, <2>2, <2>5 DEF StoreInv, CallInv
<1>14. CASE ~(posted + g < l) /\ Len(all) # l
  BY <1>1, <1>14, FailingHere
<1>15. CASE ~(posted + g < l) /\ Len(all) = l
  <2>1. /\ stage' = "storing" /\ pending' = DocumentsOf(all)
        /\ UNCHANGED <<queue, posted, ids, answers>>
    BY <1>1, <1>15
  <2>2. e = l
    BY <1>4, <1>7, <1>10, <1>15
  <2>3. all = q
    <3>1. all = SubSeq(q, 1, Len(q))
      BY <1>11, <1>15, <2>2
    <3> HIDE DEF q
    <3> QED BY <1>6, <3>1, EmptyEnd
  <2> DEFINE x == DocsOf(calls, at, b)
             u == Upto(calls, at, b - 1)
  <2>4. pending' = x
    <3>1. pending' = [i \in 1..l |-> Document(<<at, b, i>>, q[i], q[i], MetadataOf(calls[at], b))]
      BY <1>4, <2>1, <2>3 DEF DocumentsOf, Call
    <3>2. x = [i \in 1..l |-> Document(<<at, b, i>>, q[i], q[i], MetadataOf(calls[at], b))]
      BY <1>4 DEF DocsOf, DocAt
    <3> QED BY <3>1, <3>2
  <2>5. HaveInv' /\ DoneInv'
    BY <1>1, <1>4, <1>12, <2>1, Going
  <2>6. x \in Seq(Docs(calls)) /\ u \in Seq(Docs(calls))
    <3>1. b - 1 \in 0..Len(Batches(calls[at]))
      BY <1>1, <1>2, Present
    <3> QED BY <1>4, <3>1, DocsAre, UptoIs
  <2>7. /\ SubSeq(x, 1, 0) = <<>> /\ SubSeq(x, 0 + 1, Len(x)) = x /\ 0 \in 0..Len(x)
        /\ u \o <<>> = u
    <3> HIDE DEF x, u
    <3>1. SubSeq(x, 1, 0) = <<>> /\ SubSeq(x, 1, Len(x)) = x
      BY <2>6, EmptyEnd
    <3>2. 0 \in 0..Len(x) /\ u \o <<>> = u
      BY <2>6
    <3> QED BY <3>1, <3>2
  <2>8. Mine(at) = Kept(kind, u)
    BY <1>3 DEF Embeds
  <2>9. Stores(b, 0)'
    BY <1>1, <2>4, <2>7, <2>8 DEF Stores, Mine
  <2>10. GoesOn(b)'
    BY <1>1, <1>2, <2>1, <2>7, <2>9 DEF GoesOn
  <2> QED BY <1>1, <2>5, <2>10 DEF StoreInv, CallInv
<1> QED BY <1>13, <1>14, <1>15

\* The next documents of a batch go to those before.
LEMMA StoresNext ==
  ASSUME StoreInv, stage = "storing", NEW b \in 1..Len(Batches(calls[at])), GoesOn(b),
         NEW m \in 0..Len(DocsOf(calls, at, b)), Stores(b, m),
         store' = Upsert(kind, store, SubSeq(pending, 1, Unit)), UNCHANGED <<kind, calls>>
  PROVE  LET x == DocsOf(calls, at, b)
             u == Upto(calls, at, b - 1)
             e == m + Unit
         IN  /\ e \in 0..Len(x) /\ Unit \in Nat /\ Len(pending) = Len(x) - m
             /\ Len(pending) > Unit \/ e = Len(x)
             /\ SubSeq(pending, Unit + 1, Len(pending)) = SubSeq(x, e + 1, Len(x))
             /\ x \in Seq(Docs(calls)) /\ u \in Seq(Docs(calls))
             /\ Spares(at)
             /\ Among(store', OfCall(calls, kind, at)) = Kept(kind, u \o SubSeq(x, 1, e))
<1> DEFINE x == DocsOf(calls, at, b)
           u == Upto(calls, at, b - 1)
           l == Len(x)
           w == Unit
           e == m + w
           D == Docs(calls)
           y == SubSeq(x, 1, m)
           p == u \o y
           new == SubSeq(x, m + 1, e)
<1>1. calls \in Histories /\ at \in 1..Len(calls) /\ at \in Nat /\ b \in Nat /\ at = Len(answers) + 1
      /\ l \in Nat
  BY Present
<1>2. x \in Seq(D) /\ u \in Seq(D) /\ l = Len(Batches(calls[at])[b])
  <2>1. b - 1 \in 0..Len(Batches(calls[at]))
    BY Present
  <2> QED BY <1>1, <2>1, DocsAre, UptoIs
<1>3. \A i \in 1..l : x[i].id = <<at, b, i>>
  BY <1>2 DEF DocsOf, DocAt, Document
<1>4. \A i \in 1..Len(u) : u[i] \in D /\ u[i].id[1] = at /\ u[i].id[2] <= b - 1
  <2>1. b - 1 \in 0..Len(Batches(calls[at]))
    BY Present
  <2> QED BY <1>1, <2>1, UptoIn
<1>5. pending = SubSeq(x, m + 1, l) /\ Among(store, OfCall(calls, kind, at)) = Kept(kind, p)
  BY DEF Stores, Mine
<1>6. m \in Nat /\ m <= l
  BY <1>1
<1>7. Len(pending) = l - m /\ l - m \in Nat
  <2> HIDE DEF x
  <2>1. l <= Len(x)
    BY <1>1
  <2>2. Len(SubSeq(x, m + 1, l)) = l - m
    <3> HIDE DEF l
    <3> QED BY <1>1, <1>2, <1>6, <2>1, MidIs
  <2> QED BY <1>1, <1>5, <1>6, <2>2
<1>8. w \in Nat /\ w <= l - m /\ (w = l - m \/ l - m > w)
  <2> DEFINE r == l - m
             v == IF kind = "pg" THEN 1 ELSE StoreBatch
  <2>1. w = Min({v, r}) /\ v \in Nat /\ r \in Nat
    BY <1>7, MemoryAssumption DEF Unit
  <2> HIDE DEF r, v, w
  <2>2. w \in Nat /\ w <= r
    BY <2>1, MinIs
  <2>3. w = r \/ r > w
    BY <2>1, <2>2
  <2> QED BY <2>2, <2>3 DEF r
<1> HIDE DEF w
<1>9. e \in 0..l /\ e \in Nat /\ e <= l /\ m <= e /\ m + w <= l /\ e - m = w
      /\ (l - m > w \/ e = l)
  <2> HIDE DEF l
  <2> QED BY <1>1, <1>6, <1>8
<1> HIDE DEF x, u
<1>10. SubSeq(pending, 1, w) = new /\ SubSeq(pending, w + 1, Len(pending)) = SubSeq(x, e + 1, l)
  <2>1. pending = SubSeq(x, m + 1, Len(x)) /\ m <= Len(x) /\ m + w <= Len(x)
    BY <1>5, <1>6, <1>9
  <2>2. /\ SubSeq(pending, 1, w) = SubSeq(x, m + 1, m + w)
        /\ SubSeq(pending, w + 1, Len(pending)) = SubSeq(x, m + w + 1, Len(x))
    BY <1>2, <1>6, <1>8, <2>1, MidOfMid
  <2> QED BY <2>2
<1>11. new \in Seq(D) /\ Len(new) = w /\ \A i \in 1..w : new[i] = x[m + i]
  <2>1. e <= Len(x) /\ e \in Nat /\ m <= e /\ e - m = w
    BY <1>9
  <2> HIDE DEF e
  <2>2. SubSeq(x, m + 1, e) \in Seq(D) /\ Len(SubSeq(x, m + 1, e)) = e - m
        /\ \A i \in 1..(e - m) : SubSeq(x, m + 1, e)[i] = x[m + i]
    BY <1>2, <1>6, <2>1, MidIs
  <2> QED BY <2>1, <2>2
<1>12. y \in Seq(D) /\ Len(y) = m /\ \A i \in 1..m : y[i] = x[i]
  <2>1. m <= Len(x)
    BY <1>6
  <2> QED BY <1>2, <1>6, <2>1, SubIs
<1>13. y \o new = SubSeq(x, 1, e)
  <2>1. e <= Len(x) /\ e \in Nat /\ m <= e
    BY <1>9
  <2> HIDE DEF e
  <2> QED BY <1>2, <1>6, <2>1, MidJoins
<1> HIDE DEF y, new, e, l
<1>14. /\ p \in Seq(D) /\ Len(p) = Len(u) + m /\ Len(u) \in Nat
       /\ \A i \in 1..Len(u) : p[i] = u[i]
       /\ \A i \in 1..m : p[Len(u) + i] = y[i]
  <2>1. u \in Seq(D) /\ y \in Seq(D) /\ Len(u) \in Nat
    BY <1>2, <1>12
  <2>2. /\ p \in Seq(D) /\ Len(p) = Len(u) + Len(y)
        /\ \A i \in 1..Len(u) : p[i] = u[i]
        /\ \A i \in 1..Len(y) : p[Len(u) + i] = y[i]
    BY <2>1, PartsAre
  <2> QED BY <1>12, <2>1, <2>2
<1> HIDE DEF p
<1>15. ASSUME NEW i \in 1..Len(new)
       PROVE  new[i].id[1] = at /\ \A j \in 1..Len(p) : p[j].id # new[i].id
  <2>1. i \in 1..w /\ m + i \in 1..l /\ i \in Nat
    BY <1>6, <1>8, <1>9, <1>11, <1>1
  <2>2. new[i].id = <<at, b, m + i>>
    BY <1>3, <1>11, <2>1 DEF l
  <2>3. ASSUME NEW j \in 1..Len(p) PROVE p[j].id # new[i].id
    <3>1. CASE j <= Len(u)
      <4>1. j \in 1..Len(u)
        BY <1>14, <3>1
      <4>2. p[j] = u[j] /\ u[j].id[2] <= b - 1
        BY <1>4, <1>14, <4>1
      <4>3. ~(b <= b - 1)
        BY <1>1
      <4>4. new[i].id[2] = b
        BY <2>2
      <4> QED BY <4>2, <4>3, <4>4
    <3>2. CASE j > Len(u)
      <4> DEFINE h == j - Len(u)
      <4>1. h \in 1..m /\ Len(u) + h = j /\ h \in 1..l /\ h # m + i
        BY <1>1, <1>6, <1>14, <2>1, <3>2
      <4> HIDE DEF h
      <4>2. p[j] = x[h]
        BY <1>12, <1>14, <4>1
      <4>3. p[j].id = <<at, b, h>>
        BY <1>3, <4>1, <4>2 DEF l
      <4>4. p[j].id[3] = h /\ new[i].id[3] = m + i
        BY <2>2, <4>3
      <4> QED BY <4>1, <4>4
    <3>3. j <= Len(u) \/ j > Len(u)
      BY <1>14
    <3> QED BY <3>1, <3>2, <3>3
  <2>4. new[i].id[1] = at
    BY <2>2
  <2> QED BY <2>3, <2>4
<1> DEFINE t == Upsert(kind, store, new)
<1>16. store \in Seq(KeptDocs(calls, kind)) /\ \A i \in 1..Len(store) : IdOf(kind, store[i])[1] \in 1..at
  BY DEF StoreInv, HaveInv
<1>17. /\ t \in Seq(KeptDocs(calls, kind))
       /\ \A i \in 1..Len(t) : (\E j \in 1..Len(store) : t[i] = store[j]) \/ IdOf(kind, t[i])[1] = at
       /\ \A a : a # at => Among(t, OfCall(calls, kind, a)) = Among(store, OfCall(calls, kind, a))
       /\ Among(t, OfCall(calls, kind, at)) = Kept(kind, p \o new)
  <2>1. p \in Seq(Docs(calls)) /\ new \in Seq(Docs(calls))
    BY <1>11, <1>14
  <2>2. \A i \in 1..Len(new) : new[i].id[1] = at /\ \A j \in 1..Len(p) : p[j].id # new[i].id
    BY <1>15
  <2> HIDE DEF D
  <2> QED BY <1>5, <1>16, <2>1, <2>2, UpsertIs
<1>18. store' = t
  BY <1>10 DEF w
<1> HIDE DEF t
<1>19. Spares(at)
  <2>1. at \in 1..at
    BY <1>1
  <2>2. ASSUME NEW i \in 1..Len(t) PROVE IdOf(kind, t[i])[1] \in 1..at
    BY <1>16, <1>17, <2>1
  <2>3. ASSUME NEW d \in 1..Len(answers)
        PROVE  Among(t, OfCall(calls, kind, d)) = Among(store, OfCall(calls, kind, d))
    <3>1. Len(answers) \in Nat
      BY DEF StoreInv, HaveInv
    <3>2. d # at
      BY <1>1, <3>1
    <3> QED BY <1>17, <3>2
  <2> QED BY <1>17, <1>18, <2>2, <2>3 DEF Spares, Mine
<1>20. p \o new = u \o SubSeq(x, 1, e)
  <2>1. (u \o y) \o new = u \o (y \o new)
    <3>1. u \in Seq(D) /\ y \in Seq(D) /\ new \in Seq(D)
      BY <1>2, <1>11, <1>12
    <3> HIDE DEF D
    <3> QED BY <3>1, ConcatIs
  <2> QED BY <1>13, <2>1 DEF p
<1>21. Among(store', OfCall(calls, kind, at)) = Kept(kind, u \o SubSeq(x, 1, e))
  BY <1>17, <1>18, <1>20
<1> QED BY <1>2, <1>7, <1>8, <1>9, <1>10, <1>19, <1>21 DEF x, u, e, w, l

LEMMA StoreStep == StoreInv /\ stage # "idle" /\ Store => StoreInv'
<1> SUFFICES ASSUME StoreInv, stage # "idle", Store PROVE StoreInv'
  OBVIOUS
<1>1. /\ stage = "storing" /\ UNCHANGED <<kind, calls, at, texts, forgotten>>
      /\ store' = Upsert(kind, store, SubSeq(pending, 1, Unit))
      /\ Len(pending) > Unit =>
           /\ pending' = SubSeq(pending, Unit + 1, Len(pending))
           /\ UNCHANGED <<stage, queue, posted, vectors, delays, ids, answers>>
      /\ ~(Len(pending) > Unit) =>
           GoOn(Tail(queue), ids \o [i \in 1..Len(queue[1]) |-> <<at, BatchNumber, i>>])
  BY DEF Store
<1>2. PICK b \in 1..Len(Batches(calls[at])) : GoesOn(b)
  BY DEF StoreInv, CallInv
<1>3. PICK m \in 0..Len(DocsOf(calls, at, b)) : Stores(b, m)
  BY <1>1, <1>2 DEF GoesOn
<1> DEFINE x == DocsOf(calls, at, b)
           u == Upto(calls, at, b - 1)
           bs == Batches(calls[at])
<1>4. PICK e \in 0..Len(x) :
      /\ Len(pending) > Unit \/ e = Len(x)
      /\ SubSeq(pending, Unit + 1, Len(pending)) = SubSeq(x, e + 1, Len(x))
      /\ x \in Seq(Docs(calls)) /\ u \in Seq(Docs(calls))
      /\ Spares(at)
      /\ Among(store', OfCall(calls, kind, at)) = Kept(kind, u \o SubSeq(x, 1, e))
  BY <1>1, <1>2, <1>3, StoresNext
<1>5. /\ calls \in Histories /\ at \in 1..Len(calls) /\ at = Len(answers) + 1
      /\ texts = [c \in 1..at |-> Batches(calls[c])]
      /\ BatchNumber = b /\ Tail(queue) = SubSeq(bs, b + 1, Len(bs)) /\ Len(bs) \in Nat /\ b \in Nat
      /\ Len(x) = Len(queue[1])
  BY <1>2, Present
<1>6. CASE Len(pending) > Unit
  <2>1. UNCHANGED <<stage, queue, ids, answers>> /\ pending' = SubSeq(x, e + 1, Len(x))
    BY <1>1, <1>4, <1>6
  <2>2. HaveInv' /\ DoneInv'
    BY <1>1, <1>4, <1>5, <2>1, Going
  <2>3. Stores(b, e)'
    BY <1>1, <1>4, <2>1 DEF Stores, Mine
  <2>4. GoesOn(b)'
    BY <1>1, <1>2, <1>4, <2>1, <2>3 DEF GoesOn
  <2> QED BY <1>1, <2>2, <2>4 DEF StoreInv, CallInv
<1>7. CASE ~(Len(pending) > Unit)
  <2>1. e = Len(x)
    BY <1>4, <1>7
  <2>2. SubSeq(x, 1, e) = x
    <3> HIDE DEF x
    <3> QED BY <1>4, <2>1, EmptyEnd
  <2>3. Upto(calls, at, b) = u \o x
    BY <1>5, UptoIs
  <2>4. Among(store', OfCall(calls, kind, at)) = Kept(kind, Upto(calls, at, b))
    BY <1>4, <2>2, <2>3
  <2>5. IdsIn(x) = [i \in 1..Len(queue[1]) |-> <<at, BatchNumber, i>>]
    <3>1. IdsIn(x) = [i \in 1..Len(x) |-> x[i].id]
      BY DEF IdsIn
    <3>2. Len(x) = Len(Batches(calls[at])[b])
      BY <1>5, DocsAre
    <3>3. \A i \in 1..Len(x) : x[i].id = <<at, b, i>>
      BY <3>2 DEF DocsOf, DocAt, Document
    <3> HIDE DEF x
    <3> QED BY <1>5, <3>1, <3>3
  <2>6. ids = IdsIn(u)
    BY <1>2 DEF GoesOn
  <2>7. IdsIn(u \o x) = IdsIn(u) \o IdsIn(x)
    <3> HIDE DEF u, x
    <3> QED BY <1>4, KeptConcat
  <2>8. GoOn(SubSeq(bs, b + 1, Len(bs)), IdsIn(Upto(calls, at, b)))
    <3>1. IdsIn(Upto(calls, at, b)) = ids \o [i \in 1..Len(queue[1]) |-> <<at, BatchNumber, i>>]
      BY <2>3, <2>5, <2>6, <2>7
    <3> QED BY <1>1, <1>5, <1>7, <3>1
  <2>9. b \in 0..Len(bs)
    BY <1>5
  <2> HIDE DEF x, u
  <2> QED BY <1>1, <1>4, <1>5, <2>4, <2>8, <2>9, Advancing
<1> QED BY <1>6, <1>7

LEMMA StoreFailsStep == StoreInv /\ stage # "idle" /\ StoreFails => StoreInv'
<1> SUFFICES ASSUME StoreInv, stage # "idle", StoreFails PROVE StoreInv'
  OBVIOUS
<1>1. /\ stage = "storing" /\ UNCHANGED <<kind, calls, at, texts, forgotten>> /\ Ends(Error)
      /\ store' = store \/ store' = Upsert(kind, store, SubSeq(pending, 1, Unit))
  BY DEF StoreFails
<1>2. CASE store' = store
  BY <1>1, <1>2, FailingHere
<1>3. CASE store' = Upsert(kind, store, SubSeq(pending, 1, Unit))
  <2>1. PICK b \in 1..Len(Batches(calls[at])) : GoesOn(b)
    BY DEF StoreInv, CallInv
  <2>2. PICK m \in 0..Len(DocsOf(calls, at, b)) : Stores(b, m)
    BY <1>1, <2>1 DEF GoesOn
  <2> DEFINE x == DocsOf(calls, at, b)
             u == Upto(calls, at, b - 1)
             e == m + Unit
  <2>3. /\ e \in 0..Len(x)
        /\ Spares(at)
        /\ Among(store', OfCall(calls, kind, at)) = Kept(kind, u \o SubSeq(x, 1, e))
    BY <1>1, <1>3, <2>1, <2>2, StoresNext
  <2> HIDE DEF e
  <2>4. Beginning(calls, at, u \o SubSeq(x, 1, e))
    <3>1. calls \in Histories /\ at \in 1..Len(calls)
      BY <2>1, Present
    <3>2. Len(x) = Len(Batches(calls[at])[b])
      BY <3>1, DocsAre
    <3>3. e \in 0..Len(Batches(calls[at])[b])
      BY <2>3, <3>2
    <3> QED BY <3>1, <3>3, BeginningIs DEF Beginning
  <2> DEFINE p == u \o SubSeq(x, 1, e)
  <2> HIDE DEF p
  <2>5. Beginning(calls, at, p) /\ Among(store', OfCall(calls, kind, at)) = Kept(kind, p)
    BY <2>3, <2>4 DEF p
  <2> QED BY <1>1, <2>3, <2>5, Failing
<1> QED BY <1>1, <1>2, <1>3

LEMMA WholeHas ==
  ASSUME NEW cs \in Histories, NEW c \in 1..Len(cs)
  PROVE  Whole(cs, c) \in Seq(Docs(cs)) /\ \A i \in 1..Len(Whole(cs, c)) : Whole(cs, c)[i].id[1] = c
<1> DEFINE n == Len(Batches(cs[c]))
<1>1. n \in 0..n /\ n \in Nat
  BY DocsAre
<1>2. Upto(cs, c, n) = Whole(cs, c) /\ Upto(cs, c, n) \in Seq(Docs(cs))
  BY <1>1, UptoIs
<1>3. \A i \in 1..Len(Upto(cs, c, n)) : Upto(cs, c, n)[i].id[1] = c
  BY <1>1, UptoIn
<1> QED BY <1>2, <1>3

LEMMA ForgetStep ==
  ASSUME StoreInv, NEW c \in 1..at, Forget(c)
  PROVE  StoreInv'
<1>1. /\ stage = "idle" /\ c \notin forgotten /\ answers[c].ok
      /\ store' = Delete(kind, store, Range(answers[c].ids))
      /\ forgotten' = forgotten \cup {c}
      /\ UNCHANGED <<kind, calls, at, texts, stage, queue, posted, vectors, delays, pending, ids, answers>>
  BY DEF Forget
<1>2. /\ calls \in Histories /\ c \in 1..Len(calls) /\ c \in 1..Len(answers)
      /\ store \in Seq(KeptDocs(calls, kind))
      /\ \A i \in 1..Len(store) : IdOf(kind, store[i])[1] \in 1..at
  BY <1>1, CallsAre DEF StoreInv, HaveInv
<1> DEFINE w == Whole(calls, c)
<1>3. Mine(c) = Kept(kind, w) /\ answers[c].ids = IdsIn(w)
  BY <1>1, <1>2 DEF StoreInv, DoneInv, Result
<1>4. w \in Seq(Docs(calls)) /\ \A i \in 1..Len(w) : w[i].id[1] = c
  BY <1>2, WholeHas
<1> HIDE DEF w
<1>5. /\ store' \in Seq(KeptDocs(calls, kind))
      /\ \A i \in 1..Len(store') : \E j \in 1..Len(store) : store'[i] = store[j]
      /\ \A a : a # c => Among(store', OfCall(calls, kind, a)) = Among(store, OfCall(calls, kind, a))
      /\ Among(store', OfCall(calls, kind, c)) = <<>>
  <2> DEFINE t == Delete(kind, store, Range(IdsIn(w)))
  <2>1. Among(store, OfCall(calls, kind, c)) = Kept(kind, w)
    BY <1>3 DEF Mine
  <2>2. /\ t \in Seq(KeptDocs(calls, kind))
        /\ \A i \in 1..Len(t) : \E j \in 1..Len(store) : t[i] = store[j]
        /\ \A a : a # c => Among(t, OfCall(calls, kind, a)) = Among(store, OfCall(calls, kind, a))
        /\ Among(t, OfCall(calls, kind, c)) = <<>>
    BY <1>2, <1>4, <2>1, DeleteIs
  <2>3. store' = t
    BY <1>1, <1>3
  <2> HIDE DEF t
  <2> QED BY <2>2, <2>3
<1>6. HaveInv'
  <2>1. \A i \in 1..Len(store') : IdOf(kind, store'[i])[1] \in 1..at
    BY <1>2, <1>5
  <2>2. forgotten' \subseteq 1..Len(answers)
    BY <1>1, <1>2 DEF StoreInv, HaveInv
  <2> QED BY <1>1, <1>5, <2>1, <2>2 DEF StoreInv, HaveInv
<1>7. DoneInv'
  <2> SUFFICES ASSUME NEW d \in 1..Len(answers)
               PROVE  IF d \in forgotten' THEN Among(store', OfCall(calls, kind, d)) = <<>>
                      ELSE Result(calls, kind, d, Among(store', OfCall(calls, kind, d)), answers[d])
    BY <1>1 DEF DoneInv, Mine
  <2>1. CASE d = c
    BY <1>1, <1>5, <2>1
  <2>2. CASE d # c
    <3>1. Among(store', OfCall(calls, kind, d)) = Mine(d)
      BY <1>5, <2>2 DEF Mine
    <3>2. d \in forgotten' <=> d \in forgotten
      BY <1>1, <2>2
    <3> QED BY <3>1, <3>2 DEF StoreInv, DoneInv
  <2> QED BY <2>1, <2>2
<1>8. CallInv'
  BY <1>1 DEF CallInv
<1> QED BY <1>6, <1>7, <1>8 DEF StoreInv

\* Every step keeps the invariant.
LEMMA StoreInvStep == StoreInv /\ [Next]_vars => StoreInv'
<1> SUFFICES ASSUME StoreInv, [Next]_vars PROVE StoreInv'
  OBVIOUS
<1>1. CASE Begin
  BY <1>1, BeginStep
<1>2. ASSUME NEW c \in 1..at, Forget(c) PROVE StoreInv'
  BY <1>2, ForgetStep
<1>3. ASSUME NEW after \in RetryAfters, NEW jitter \in Jitters, Retry(after, jitter) PROVE StoreInv'
  BY <1>3, RetryStoreStep
<1>4. CASE GiveUp
  BY <1>4, GiveUpStep
<1>5. ASSUME NEW data \in Responses, Embedded(data) PROVE StoreInv'
  BY <1>5, EmbeddedStep
<1>6. CASE stage # "idle" /\ Store
  BY <1>6, StoreStep
<1>7. CASE stage # "idle" /\ StoreFails
  BY <1>7, StoreFailsStep
<1>8. CASE UNCHANGED vars
  <2>1. HaveInv' /\ DoneInv'
    BY <1>8 DEF vars, StoreInv, HaveInv, DoneInv, Mine
  <2>2. CallInv'
    BY <1>8 DEF vars, StoreInv, CallInv, GoesOn, Embeds, Stores, Mine
  <2> QED BY <2>1, <2>2 DEF StoreInv
<1> QED BY <1>1, <1>2, <1>3, <1>4, <1>5, <1>6, <1>7, <1>8 DEF Next, Step

LEMMA StoreInvariant == Spec => []StoreInv
<1>1. Init => StoreInv
  <2> SUFFICES ASSUME Init PROVE StoreInv
    OBVIOUS
  <2>1. calls \in Histories /\ at = 0 /\ texts = <<>> /\ stage = "idle" /\ store = <<>>
        /\ answers = <<>> /\ forgotten = {}
    BY DEF Init
  <2>2. Len(calls) \in Nat
    BY <2>1, CallsAre
  <2>3. 1..0 = {} /\ Len(<<>>) = 0 /\ 0 \in 0..Len(calls)
    BY <2>2
  <2>4. texts = [c \in 1..at |-> Batches(calls[c])]
    <3> DEFINE B(c) == Batches(calls[c])
    <3> HIDE DEF B
    <3>1. texts = [c \in 1..at |-> B(c)]
      BY <2>1, <2>3
    <3> QED BY <3>1 DEF B
  <2>5. HaveInv
    BY <2>1, <2>3, <2>4 DEF HaveInv
  <2>6. DoneInv /\ CallInv
    BY <2>1, <2>3 DEF DoneInv, CallInv
  <2> QED BY <2>5, <2>6 DEF StoreInv
<1>2. StoreInv /\ [Next]_vars => StoreInv'
  BY StoreInvStep
<1> QED BY <1>1, <1>2, PTL DEF Spec

LEMMA PrefixIs ==
  ASSUME NEW S, NEW s \in Seq(S), NEW t \in Seq(S)
  PROVE  IsPrefix(s, s \o t)
<1> DEFINE v == s \o t
           l == Len(s)
<1>1. /\ v \in Seq(S) /\ Len(v) = l + Len(t) /\ l \in Nat /\ Len(t) \in Nat
      /\ \A i \in 1..l : v[i] = s[i]
  OBVIOUS
<1> HIDE DEF v, l
<1>2. l <= Len(v) /\ l <= Len(s)
  BY <1>1 DEF l
<1>3. SubSeq(v, 1, l) \in Seq(S) /\ Len(SubSeq(v, 1, l)) = l /\ \A i \in 1..l : SubSeq(v, 1, l)[i] = v[i]
  BY <1>1, <1>2, SubIs
<1>4. SubSeq(s, 1, l) \in Seq(S) /\ Len(SubSeq(s, 1, l)) = l /\ \A i \in 1..l : SubSeq(s, 1, l)[i] = s[i]
  BY <1>1, <1>2, SubIs
<1>5. SubSeq(s, 1, l) = SubSeq(v, 1, l)
  BY <1>1, <1>3, <1>4, SameSeq
<1> QED BY <1>2, <1>5 DEF IsPrefix, v, l

\* What the invariant says of the calls is StoredAPrefix.
LEMMA PrefixesStored == StoreInv => StoredAPrefix
<1> SUFFICES ASSUME StoreInv, NEW c \in 1..at
             PROVE  LET expected == Each(Expected(c), LAMBDA d : Keep(kind, d))
                    IN  IF c \in forgotten THEN StoredBy(c) = <<>>
                        ELSE /\ IsPrefix(StoredBy(c), expected)
                             /\ c <= Len(answers) /\ answers[c].ok =>
                                  /\ StoredBy(c) = expected
                                  /\ answers[c].ids = Each(Expected(c), LAMBDA d : d.id)
  BY DEF StoredAPrefix
<1> DEFINE w == Whole(calls, c)
<1>1. /\ calls \in Histories /\ at \in Nat /\ c \in 1..Len(calls)
      /\ texts = [d \in 1..at |-> Batches(calls[d])]
      /\ Len(answers) = IF stage = "idle" THEN at ELSE at - 1
      /\ forgotten \subseteq 1..Len(answers)
      /\ store \in Seq(KeptDocs(calls, kind))
  BY CallsAre DEF StoreInv, HaveInv
<1>2. texts[c] = Batches(calls[c])
  BY <1>1
<1>3. Expected(c) = w
  BY <1>2 DEF Expected, Remembered, Whole, AllOf, DocsOf, DocAt
<1>4. /\ Each(Expected(c), LAMBDA d : Keep(kind, d)) = Kept(kind, w)
      /\ Each(Expected(c), LAMBDA d : d.id) = IdsIn(w)
  BY <1>3 DEF Each, Kept, IdsIn
<1>5. StoredBy(c) = Mine(c)
  <2> DEFINE A == {d \in Range(store) : IdOf(kind, d)[1] = c}
             B == OfCall(calls, kind, c)
             K == KeptDocs(calls, kind)
  <2>1. \A i \in 1..Len(store) : store[i] \in A <=> store[i] \in B
    <3> SUFFICES ASSUME NEW i \in 1..Len(store) PROVE store[i] \in A <=> store[i] \in B
      OBVIOUS
    <3>1. store[i] \in K
      <4> HIDE DEF K
      <4> QED BY <1>1, ItemIs DEF K
    <3>2. store[i] \in Range(store)
      BY <1>1 DEF Range
    <3> QED BY <3>1, <3>2 DEF OfCall
  <2> HIDE DEF A, B, K
  <2>2. Among(store, A) = Among(store, B)
    BY <1>1, <2>1, AmongSame
  <2> QED BY <2>2 DEF StoredBy, Mine, A, B
<1>6. CASE c \in forgotten
  BY <1>1, <1>5, <1>6 DEF StoreInv, DoneInv
<1>7. CASE c \notin forgotten
  <2>1. \E p : Beginning(calls, c, p) /\ Mine(c) = Kept(kind, p)
    <3>1. CASE c \in 1..Len(answers)
      BY <1>7, <3>1 DEF StoreInv, DoneInv, Result
    <3>2. CASE c \notin 1..Len(answers)
      <4>1. stage # "idle" /\ c = at
        BY <1>1, <3>2
      <4> QED BY <4>1, StoredSoFar
    <3> QED BY <3>1, <3>2
  <2>2. IsPrefix(Mine(c), Kept(kind, w))
    <3>1. PICK p \in Seq(Docs(calls)) : Mine(c) = Kept(kind, p) /\ \E r \in Seq(Docs(calls)) : w = p \o r
      BY <2>1 DEF Beginning
    <3>2. PICK r \in Seq(Docs(calls)) : w = p \o r
      BY <3>1
    <3>3. Kept(kind, w) = Kept(kind, p) \o Kept(kind, r)
      BY <3>2, KeptConcat
    <3>4. Kept(kind, p) \in Seq(KeptDocs(calls, kind)) /\ Kept(kind, r) \in Seq(KeptDocs(calls, kind))
      BY KeptIs
    <3> QED BY <3>1, <3>3, <3>4, PrefixIs
  <2>3. c <= Len(answers) /\ answers[c].ok => Mine(c) = Kept(kind, w) /\ answers[c].ids = IdsIn(w)
    <3>1. c <= Len(answers) => c \in 1..Len(answers)
      BY <1>1
    <3> QED BY <1>7, <3>1 DEF StoreInv, DoneInv, Result
  <2> HIDE DEF w
  <2> QED BY <1>4, <1>5, <1>7, <2>2, <2>3
<1> QED BY <1>6, <1>7

\* THEOREM.  Whatever fails, and for every store, history of calls, batch size and
\* order of the provider's vectors: a call has stored a beginning of its texts, each
\* once and with its own vector, or all of them under the ids it returned; and what is
\* deleted under these ids is all of them and nothing else (remember_batch,
\* remember_document, embed, upsert_batched, delete).
THEOREM BeginningsAreStored == Spec => []StoredAPrefix
BY StoreInvariant, PrefixesStored, PTL

-----------------------------------------------------------------------------
(* What is made of each of a sequence, and the first of it *)

\* What a function makes of the items of a sequence.
Maps(G, S, T) == G \in [S -> T]
Of(G, s) == [i \in 1..Len(s) |-> G[s[i]]]

LEMMA OfIs ==
  ASSUME NEW S, NEW T, NEW G, Maps(G, S, T), NEW s \in Seq(S)
  PROVE  /\ Of(G, s) \in Seq(T) /\ Len(Of(G, s)) = Len(s) /\ Len(s) \in Nat
         /\ \A i \in 1..Len(s) : Of(G, s)[i] = G[s[i]]
<1>1. Len(s) \in Nat /\ \A i \in 1..Len(s) : s[i] \in S
  OBVIOUS
<1>2. \A i \in 1..Len(s) : G[s[i]] \in T
  BY <1>1 DEF Maps
<1>3. Of(G, s) = [i \in 1..Len(s) |-> G[s[i]]]
  BY DEF Of
<1> QED BY <1>1, <1>2, <1>3

LEMMA OfNothing == \A G : Of(G, <<>>) = <<>>
<1> SUFFICES ASSUME NEW G PROVE Of(G, <<>>) = <<>>
  OBVIOUS
<1>1. Of(G, <<>>) = [i \in 1..Len(<<>>) |-> G[<<>>[i]]]
  BY DEF Of
<1>2. Len(<<>>) = 0 /\ 1..0 = {}
  OBVIOUS
<1> DEFINE g(i) == G[<<>>[i]]
<1> HIDE DEF g
<1>3. [i \in {} |-> g(i)] = <<>>
  OBVIOUS
<1> QED BY <1>1, <1>2, <1>3 DEF g

LEMMA OfAppend ==
  ASSUME NEW S, NEW T, NEW G, Maps(G, S, T), NEW s \in Seq(S), NEW x \in S
  PROVE  Of(G, Append(s, x)) = Append(Of(G, s), G[x])
<1> DEFINE t == Append(s, x)
           o == Of(G, s)
           a == Append(o, G[x])
           b == Of(G, t)
<1>1. /\ t \in Seq(S) /\ Len(t) = Len(s) + 1 /\ Len(s) \in Nat
      /\ \A i \in 1..Len(s) : t[i] = s[i]
      /\ t[Len(s) + 1] = x
      /\ \A i \in 1..Len(s) + 1 : i # Len(s) + 1 => i \in 1..Len(s)
  BY AppendIs
<1>2. o \in Seq(T) /\ Len(o) = Len(s) /\ \A i \in 1..Len(s) : o[i] = G[s[i]]
  BY OfIs
<1>3. G[x] \in T
  BY DEF Maps
<1> HIDE DEF t, o
<1>4. b \in Seq(T) /\ Len(b) = Len(t) /\ \A i \in 1..Len(t) : b[i] = G[t[i]]
  BY <1>1, OfIs
<1>5. /\ a \in Seq(T) /\ Len(a) = Len(o) + 1
      /\ \A i \in 1..Len(o) : a[i] = o[i]
      /\ a[Len(o) + 1] = G[x]
  BY <1>2, <1>3, AppendIs
<1> HIDE DEF a, b
<1>6. Len(a) = Len(b) /\ \A i \in 1..Len(a) : b[i] = a[i]
  <2> SUFFICES ASSUME NEW i \in 1..Len(a) PROVE b[i] = a[i]
    BY <1>1, <1>2, <1>4, <1>5
  <2>1. i \in 1..Len(s) + 1 /\ i \in 1..Len(t)
    BY <1>1, <1>2, <1>5
  <2>2. CASE i = Len(s) + 1
    BY <1>1, <1>2, <1>4, <1>5, <2>1, <2>2
  <2>3. CASE i # Len(s) + 1
    BY <1>1, <1>2, <1>4, <1>5, <2>1, <2>3
  <2> QED BY <2>2, <2>3
<1>7. a = b
  BY <1>4, <1>5, <1>6, SameSeq
<1> QED BY <1>7 DEF a, b, t, o

\* To choose and then to apply is to apply and then to choose.
LEMMA AmongOf ==
  ASSUME NEW S, NEW T, NEW G, Maps(G, S, T), NEW s \in Seq(S), NEW A, NEW B,
         \A x \in S : x \in A <=> G[x] \in B
  PROVE  Among(Of(G, s), B) = Of(G, Among(s, A))
<1> DEFINE Fits(u) == Among(Of(G, u), B) = Of(G, Among(u, A))
           P == {u \in Seq(S) : Fits(u)}
<1>1. <<>> \in P
  <2>1. <<>> \in Seq(S) /\ Len(<<>>) = 0
    OBVIOUS
  <2>2. Of(G, <<>>) = <<>>
    BY OfNothing
  <2> QED BY <2>1, <2>2, AmongNothing
<1>2. ASSUME NEW u \in P, NEW x \in S
      PROVE  Append(u, x) \in P
  <2>1. u \in Seq(S) /\ Fits(u)
    OBVIOUS
  <2> HIDE DEF P
  <2>2. Append(u, x) \in Seq(S)
    BY <2>1, AppendIs
  <2>3. Of(G, Append(u, x)) = Append(Of(G, u), G[x])
    BY <2>1, OfAppend
  <2>4. Of(G, u) \in Seq(T) /\ G[x] \in T /\ Among(u, A) \in Seq(S)
    <3>0. G[x] \in T
      BY DEF Maps
    <3>1. Of(G, u) \in Seq(T)
      BY <2>1, OfIs
    <3>2. Among(u, A) \in Seq(S)
      BY <2>1, AmongIn
    <3> QED BY <3>0, <3>1, <3>2
  <2>5. CASE x \in A
    <3>1. Among(Append(u, x), A) = Append(Among(u, A), x)
      BY <2>1, <2>5, AmongTakes
    <3>2. Among(Append(Of(G, u), G[x]), B) = Append(Among(Of(G, u), B), G[x])
      BY <2>4, <2>5, AmongTakes
    <3>3. Of(G, Append(Among(u, A), x)) = Append(Of(G, Among(u, A)), G[x])
      BY <2>4, OfAppend
    <3> QED BY <2>1, <2>2, <2>3, <3>1, <3>2, <3>3 DEF P
  <2>6. CASE x \notin A
    <3>1. Among(Append(u, x), A) = Among(u, A)
      BY <2>1, <2>6, AmongSkips
    <3>2. Among(Append(Of(G, u), G[x]), B) = Among(Of(G, u), B)
      BY <2>4, <2>6, AmongSkips
    <3> QED BY <2>1, <2>2, <2>3, <3>1, <3>2 DEF P
  <2> QED BY <2>5, <2>6
<1>3. P = Seq(S)
  <2>1. P \in SUBSET Seq(S)
    OBVIOUS
  <2> HIDE DEF P
  <2> QED BY <1>1, <1>2, <2>1, SequencesAll
<1>4. s \in P
  BY <1>3
<1> QED BY <1>4

\* take(top_k).
LEMMA FewIs ==
  ASSUME NEW S, NEW s \in Seq(S), NEW n \in Nat
  PROVE  /\ Few(s, n) \in Seq(S) /\ Len(Few(s, n)) = Min({n, Len(s)}) /\ Len(s) \in Nat
         /\ \A i \in 1..Len(Few(s, n)) : i \in 1..Len(s) /\ Few(s, n)[i] = s[i]
         /\ Len(s) <= n => Few(s, n) = s
<1> DEFINE m == Min({n, Len(s)})
           f == SubSeq(s, 1, m)
<1>1. Len(s) \in Nat
  OBVIOUS
<1>2. m \in Nat /\ m <= n /\ m <= Len(s) /\ (m = n \/ m = Len(s))
  BY <1>1, MinIs
<1> HIDE DEF m
<1>3. f \in Seq(S) /\ Len(f) = m /\ \A i \in 1..m : f[i] = s[i]
  BY <1>2, SubIs
<1>4. Few(s, n) = f
  BY DEF Few, m
<1> HIDE DEF f
<1>5. \A i \in 1..Len(f) : i \in 1..Len(s) /\ f[i] = s[i]
  BY <1>1, <1>2, <1>3
<1>6. ASSUME Len(s) <= n PROVE f = s
  <2>1. m = Len(s)
    BY <1>1, <1>2, <1>6
  <2> QED BY <1>3, <2>1, SameSeq
<1>7. Len(f) = Min({n, Len(s)})
  BY <1>3 DEF m
<1> QED BY <1>1, <1>3, <1>4, <1>5, <1>6, <1>7

LEMMA FewOf ==
  ASSUME NEW S, NEW T, NEW G, Maps(G, S, T), NEW s \in Seq(S), NEW n \in Nat
  PROVE  Few(Of(G, s), n) = Of(G, Few(s, n))
<1> DEFINE o == Of(G, s)
           f == Few(s, n)
           a == Few(o, n)
           b == Of(G, f)
<1>1. o \in Seq(T) /\ Len(o) = Len(s) /\ \A i \in 1..Len(s) : o[i] = G[s[i]]
  BY OfIs
<1>2. /\ f \in Seq(S) /\ Len(f) = Min({n, Len(s)})
      /\ \A i \in 1..Len(f) : i \in 1..Len(s) /\ f[i] = s[i]
  BY FewIs
<1> HIDE DEF o, f
<1>3. /\ a \in Seq(T) /\ Len(a) = Min({n, Len(o)})
      /\ \A i \in 1..Len(a) : i \in 1..Len(o) /\ a[i] = o[i]
  BY <1>1, FewIs
<1>4. b \in Seq(T) /\ Len(b) = Len(f) /\ \A i \in 1..Len(f) : b[i] = G[f[i]]
  <2>1. f \in Seq(S)
    BY <1>2
  <2> QED BY <2>1, OfIs
<1> HIDE DEF a, b
<1>5. Len(a) = Len(b)
  BY <1>1, <1>2, <1>3, <1>4
<1>6. \A i \in 1..Len(a) : a[i] = b[i]
  BY <1>1, <1>2, <1>3, <1>4, <1>5
<1>7. a = b
  BY <1>3, <1>4, <1>5, <1>6, SameSeq
<1> QED BY <1>7 DEF a, b, o, f

\* A sequence that agrees with a longer one is its beginning.
LEMMA PrefixOf ==
  ASSUME NEW S, NEW s \in Seq(S), NEW t \in Seq(S), Len(s) <= Len(t),
         \A i \in 1..Len(s) : s[i] = t[i]
  PROVE  IsPrefix(s, t)
<1> DEFINE l == Len(s)
<1>1. l \in Nat /\ l <= Len(s) /\ l <= Len(t)
  OBVIOUS
<1>2. SubSeq(t, 1, l) \in Seq(S) /\ Len(SubSeq(t, 1, l)) = l /\ \A i \in 1..l : SubSeq(t, 1, l)[i] = t[i]
  BY <1>1, SubIs
<1>3. SubSeq(s, 1, l) \in Seq(S) /\ Len(SubSeq(s, 1, l)) = l /\ \A i \in 1..l : SubSeq(s, 1, l)[i] = s[i]
  BY <1>1, SubIs
<1>4. SubSeq(s, 1, l) = SubSeq(t, 1, l)
  BY <1>2, <1>3, SameSeq
<1> QED BY <1>1, <1>4 DEF IsPrefix

\* To search only the first of a sequence finds the first of what is in it.
LEMMA FewFirst ==
  ASSUME NEW S, NEW s \in Seq(S), NEW m \in Nat, NEW n \in Nat, NEW A
  PROVE  LET few == Few(Among(Few(s, m), A), n)
             all == Few(Among(s, A), n)
         IN  /\ few \in Seq(S) /\ all \in Seq(S) /\ Len(few) <= Len(all)
             /\ \A i \in 1..Len(few) : few[i] = all[i]
             /\ Len(s) <= m => few = all
<1> DEFINE p == Few(s, m)
           a == Among(p, A)
           c == Among(s, A)
           few == Few(a, n)
           all == Few(c, n)
<1>1. /\ p \in Seq(S) /\ Len(p) = Min({m, Len(s)}) /\ Len(s) \in Nat
      /\ \A i \in 1..Len(p) : i \in 1..Len(s) /\ p[i] = s[i]
      /\ Len(s) <= m => p = s
  BY FewIs
<1> HIDE DEF p
<1>2. Len(p) \in Nat /\ Len(p) <= Len(s)
  BY <1>1, MinIs
<1>3. \E r \in Seq(S) : s = p \o r
  <2> DEFINE k == Len(p)
             r == [i \in 1..Len(s) - k |-> s[k + i]]
             v == p \o r
  <2>0. k \in Nat /\ k <= Len(s) /\ Len(s) \in Nat
    BY <1>1, <1>2
  <2>1. k \in Nat /\ Len(s) - k \in Nat /\ \A i \in 1..Len(s) - k : k + i \in 1..Len(s)
    <3> HIDE DEF k
    <3> QED BY <2>0
  <2> HIDE DEF k
  <2>2. \A i \in 1..Len(s) - k : s[k + i] \in S
    BY <2>1
  <2>3. r \in Seq(S) /\ Len(r) = Len(s) - k /\ \A i \in 1..Len(s) - k : r[i] = s[k + i]
    BY <2>1, <2>2
  <2> HIDE DEF r
  <2>4. /\ v \in Seq(S) /\ Len(v) = Len(p) + Len(r)
        /\ \A i \in 1..Len(v) : v[i] = IF i <= Len(p) THEN p[i] ELSE r[i - Len(p)]
    <3>1. p \in Seq(S) /\ r \in Seq(S)
      BY <1>1, <2>3
    <3> QED BY <3>1
  <2> HIDE DEF v
  <2>5. Len(v) = Len(s)
    BY <1>1, <2>1, <2>3, <2>4 DEF k
  <2>6. ASSUME NEW i \in 1..Len(s) PROVE s[i] = v[i]
    <3>1. CASE i <= Len(p)
      <4>1. i \in 1..Len(p)
        BY <1>2, <3>1
      <4> QED BY <1>1, <2>4, <2>5, <3>1, <4>1
    <3>2. CASE ~(i <= Len(p))
      <4>1. i - k \in 1..Len(s) - k /\ k + (i - k) = i
        BY <1>1, <1>2, <3>2 DEF k
      <4>2. v[i] = r[i - k]
        BY <2>4, <2>5, <3>2 DEF k
      <4> QED BY <2>3, <4>1, <4>2
    <3> QED BY <3>1, <3>2
  <2>7. s = v
    BY <2>4, <2>5, <2>6, SameSeq
  <2> QED BY <2>3, <2>7 DEF v
<1>4. PICK r \in Seq(S) : s = p \o r
  BY <1>3
<1>5. a \in Seq(S) /\ Among(r, A) \in Seq(S) /\ c \in Seq(S)
  BY <1>1, AmongIn
<1>6. c = a \o Among(r, A)
  BY <1>1, <1>4, AmongConcat
<1>7. Len(s) <= m => a = c
  BY <1>1
<1> HIDE DEF a, c
<1>8. Len(a) \in Nat /\ Len(c) \in Nat /\ Len(a) <= Len(c) /\ \A i \in 1..Len(a) : c[i] = a[i]
  <2> DEFINE q == Among(r, A)
  <2>1. q \in Seq(S) /\ c = a \o q
    BY <1>5, <1>6
  <2> HIDE DEF q
  <2> QED BY <1>5, <2>1
<1>9. /\ few \in Seq(S) /\ Len(few) = Min({n, Len(a)})
      /\ \A i \in 1..Len(few) : i \in 1..Len(a) /\ few[i] = a[i]
  BY <1>5, FewIs
<1>10. /\ all \in Seq(S) /\ Len(all) = Min({n, Len(c)})
       /\ \A i \in 1..Len(all) : i \in 1..Len(c) /\ all[i] = c[i]
  BY <1>5, FewIs
<1>11. Len(s) <= m => few = all
  BY <1>7
<1> HIDE DEF few, all
<1>12. Len(few) <= Len(all) /\ Len(few) \in Nat /\ Len(all) \in Nat
  <2>1. /\ Min({n, Len(a)}) \in Nat /\ Min({n, Len(a)}) <= n /\ Min({n, Len(a)}) <= Len(a)
        /\ Min({n, Len(a)}) = n \/ Min({n, Len(a)}) = Len(a)
    BY <1>8, MinIs
  <2>2. /\ Min({n, Len(c)}) \in Nat /\ Min({n, Len(c)}) <= n /\ Min({n, Len(c)}) <= Len(c)
        /\ Min({n, Len(c)}) = n \/ Min({n, Len(c)}) = Len(c)
    BY <1>8, MinIs
  <2> QED BY <1>8, <1>9, <1>10, <2>1, <2>2
<1>13. \A i \in 1..Len(few) : few[i] = all[i]
  <2> SUFFICES ASSUME NEW i \in 1..Len(few) PROVE few[i] = all[i]
    OBVIOUS
  <2>1. i \in 1..Len(all)
    BY <1>12
  <2>2. i \in 1..Len(a) /\ few[i] = a[i] /\ all[i] = c[i]
    BY <1>9, <1>10, <2>1
  <2> QED BY <1>8, <2>2
<1> QED BY <1>9, <1>10, <1>11, <1>12, <1>13 DEF few, all, a, c, p

-----------------------------------------------------------------------------
(* What the stores match *)

\* A filter asks for values.
IsFilter(filter) == \A f \in DOMAIN filter : IsValue(filter[f])

\* Flat values differ where the values do.
LEMMA FlatDiffers ==
  ASSUME NEW v, NEW w, IsValue(v), IsValue(w)
  PROVE  Flat(v) = Flat(w) <=> v = w
<1> DEFINE flat == {"text", "whole", "fraction"}
<1>1. \A u : /\ u.is \in flat => Flat(u) = u
             /\ u.is \notin flat => Flat(u).is = "json" /\ Flat(u).of = <<u>>
  BY DEF Flat, Json
<1>2. \A a, b : <<a>> = <<b>> => a = b
  OBVIOUS
<1>3. CASE v.is \in flat /\ w.is \in flat
  BY <1>1, <1>3
<1>4. CASE v.is \in flat /\ w.is \notin flat
  BY <1>1, <1>4
<1>5. CASE v.is \notin flat /\ w.is \in flat
  BY <1>1, <1>5
<1>6. CASE v.is \notin flat /\ w.is \notin flat
  BY <1>1, <1>2, <1>6
<1> QED BY <1>3, <1>4, <1>5, <1>6

\* A chunk's number is metadata too.
LEMMA MetadataIs ==
  ASSUME NEW cs \in Histories, NEW c \in 1..Len(cs), NEW b
  PROVE  IsMetadata(MetadataOf(cs[c], b))
<1> DEFINE call == cs[c]
           old  == call.metadata
           n    == Text(ToString(b - 1))
           own  == [f \in DOMAIN old.fields \cup {"_chunk"} |-> IF f = "_chunk" THEN n ELSE old.fields[f]]
<1>1. IsMetadata(old)
  BY MetadataAssumption
<1>2. CASE call.op = "document" /\ old.is = "object"
  <2>1. MetadataOf(call, b) = Object(own)
    BY <1>2 DEF MetadataOf
  <2>2. IsValue(n)
    BY DEF IsValue, Text
  <2>3. \A f \in DOMAIN old.fields : IsValue(old.fields[f])
    BY <1>1, <1>2 DEF IsMetadata, Null
  <2> HIDE DEF n, old
  <2>4. DOMAIN own = DOMAIN old.fields \cup {"_chunk"} /\ own = [f \in DOMAIN own |-> own[f]]
    OBVIOUS
  <2>5. \A f \in DOMAIN own : IsValue(own[f])
    BY <2>2, <2>3, <2>4
  <2> HIDE DEF own
  <2>7. Object(own).is = "object" /\ Object(own).fields = own
    BY DEF Object
  <2>8. IsMetadata(Object(own))
    BY <2>4, <2>5, <2>7 DEF IsMetadata
  <2> QED BY <2>1, <2>8
<1>3. CASE ~(call.op = "document" /\ old.is = "object")
  BY <1>1, <1>3 DEF MetadataOf
<1> QED BY <1>2, <1>3

\* What Pinecone keeps of a document, and the metadata it gives back.
LEMMA OwnIs ==
  ASSUME kind = "pinecone", NEW doc, IsMetadata(doc.metadata)
  PROVE  LET m == PineconeMetadata(doc)
             old == doc.metadata
         IN  /\ \A f : f \notin {"_text", "_metadata"} =>
                  /\ f \in DOMAIN m <=> old.is = "object" /\ f \in DOMAIN old.fields
                  /\ f \in DOMAIN m => m[f] = Flat(old.fields[f])
             /\ TextIsLost(old) \/ m["_text"] = Text(doc.text)
             /\ Object([f \in DOMAIN m \ {"_text"} |-> m[f]]) = GivenBack(old)
<1> DEFINE old == doc.metadata
           own == CASE old.is = "null"   -> <<>>
                    [] old.is = "object" -> [f \in DOMAIN old.fields |-> Flat(old.fields[f])]
                    [] old.is = "other"  -> [_metadata |-> Json(old.fields.value)]
           m   == [f \in DOMAIN own \cup {"_text"} |-> IF f \in DOMAIN own THEN own[f] ELSE Text(doc.text)]
           back == [f \in DOMAIN m \ {"_text"} |-> m[f]]
<1>1. PineconeMetadata(doc) = m
  BY DEF PineconeMetadata
<1>2. CASE old = Null
  <2>1. old.is = "null"
    BY <1>2 DEF Null
  <2>2. DOMAIN <<>> = {}
    OBVIOUS
  <2>3. own = <<>> /\ DOMAIN own = {}
    BY <2>1, <2>2
  <2>4. GivenBack(old) = Object(<<>>)
    BY <2>1 DEF GivenBack
  <2> HIDE DEF own, old
  <2>5. m = [f \in {"_text"} |-> Text(doc.text)]
    BY <2>3
  <2>6. back = <<>>
    <3>1. DOMAIN m \ {"_text"} = {}
      BY <2>5
    <3>2. back = [f \in {} |-> m[f]]
      BY <3>1
    <3>3. [f \in {} |-> m[f]] = <<>>
      OBVIOUS
    <3> QED BY <3>2, <3>3
  <2> HIDE DEF back
  <2> QED BY <1>1, <2>1, <2>4, <2>5, <2>6 DEF back, old
<1>3. CASE old.is = "object"
  <2>1. own = [f \in DOMAIN old.fields |-> Flat(old.fields[f])]
    BY <1>3
  <2> HIDE DEF own, old
  <2>2. /\ DOMAIN m = DOMAIN old.fields \cup {"_text"}
        /\ \A f \in DOMAIN old.fields : m[f] = Flat(old.fields[f])
        /\ "_text" \notin DOMAIN old.fields => m["_text"] = Text(doc.text)
    BY <2>1
  <2> HIDE DEF m
  <2>3. DOMAIN m \ {"_text"} = DOMAIN old.fields \ {"_text"}
    BY <2>2
  <2>4. back = [f \in DOMAIN old.fields \ {"_text"} |-> Flat(old.fields[f])]
    BY <2>2, <2>3
  <2>5. GivenBack(old) = Object([f \in DOMAIN old.fields \ {"_text"} |-> Flat(old.fields[f])])
    BY <1>3 DEF GivenBack
  <2>6. Object(back) = GivenBack(old)
    BY <2>4, <2>5
  <2>7. TextIsLost(old) \/ m["_text"] = Text(doc.text)
    BY <1>3, <2>2 DEF TextIsLost
  <2>8. \A f : f \notin {"_text", "_metadata"} =>
           /\ f \in DOMAIN m <=> old.is = "object" /\ f \in DOMAIN old.fields
           /\ f \in DOMAIN m => m[f] = Flat(old.fields[f])
    BY <1>3, <2>2
  <2> QED BY <1>1, <2>6, <2>7, <2>8 DEF old
<1>4. CASE old.is = "other"
  <2> DEFINE j == Json(old.fields.value)
  <2>1. own = [_metadata |-> j]
    BY <1>4
  <2>2. GivenBack(old) = Object([_metadata |-> j])
    BY <1>4 DEF GivenBack
  <2> HIDE DEF own, old, j
  <2>3. DOMAIN own = {"_metadata"} /\ own["_metadata"] = j
    BY <2>1
  <2>4. /\ DOMAIN m = {"_metadata", "_text"} /\ m["_metadata"] = j /\ m["_text"] = Text(doc.text)
    BY <2>3
  <2> HIDE DEF m
  <2>5. back = [_metadata |-> j]
    <3>1. back = [f \in {"_metadata"} |-> m[f]]
      BY <2>4
    <3> HIDE DEF back
    <3> QED BY <2>4, <3>1
  <2>6. \A f : f \notin {"_text", "_metadata"} => f \notin DOMAIN m
    BY <2>4
  <2> QED BY <1>1, <1>4, <2>2, <2>4, <2>5, <2>6 DEF old
<1> QED BY <1>2, <1>3, <1>4 DEF IsMetadata

\* What Pinecone gives back, and what it takes to match.
LEMMA PineconeIs ==
  ASSUME kind = "pinecone", NEW doc, IsMetadata(doc.metadata), NEW filter, IsFilter(filter)
  PROVE  LET v == PineconeVector(doc)
         IN  /\ PineconeResult(v).id = doc.id
             /\ TextIsLost(doc.metadata) \/ PineconeResult(v).text = doc.text
             /\ PineconeResult(v).metadata = GivenBack(doc.metadata)
             /\ {"_text", "_metadata"} \cap DOMAIN filter = {} =>
                  (PineconeMatch(v, PineconeConditions(filter)) <=> Matches(doc.metadata, filter))
<1> DEFINE v == PineconeVector(doc)
           m == PineconeMetadata(doc)
           old == doc.metadata
           conditions == PineconeConditions(filter)
<1>1. /\ \A f : f \notin {"_text", "_metadata"} =>
           /\ f \in DOMAIN m <=> old.is = "object" /\ f \in DOMAIN old.fields
           /\ f \in DOMAIN m => m[f] = Flat(old.fields[f])
      /\ TextIsLost(old) \/ m["_text"] = Text(doc.text)
      /\ Object([f \in DOMAIN m \ {"_text"} |-> m[f]]) = GivenBack(old)
  BY OwnIs
<1>2. v.id = doc.id /\ v.metadata = m
  BY DEF PineconeVector
<1>3. DOMAIN conditions = DOMAIN filter /\ \A f \in DOMAIN filter : conditions[f] = Flat(filter[f])
  BY DEF PineconeConditions
<1>4. \A f \in DOMAIN filter : IsValue(filter[f])
  BY DEF IsFilter
<1>5. old.is = "object" => \A f \in DOMAIN old.fields : IsValue(old.fields[f])
  BY DEF IsMetadata, Null
<1> HIDE DEF v, m, conditions, old
<1>6. ASSUME NEW f \in DOMAIN filter, f \notin {"_text", "_metadata"}
      PROVE  f \in DOMAIN v.metadata /\ v.metadata[f] = conditions[f] <=> Holds(old, f, filter[f])
  <2>1. /\ f \in DOMAIN m <=> old.is = "object" /\ f \in DOMAIN old.fields
        /\ f \in DOMAIN m => m[f] = Flat(old.fields[f])
        /\ conditions[f] = Flat(filter[f]) /\ IsValue(filter[f])
    BY <1>1, <1>3, <1>4, <1>6
  <2>2. f \in DOMAIN m => (Flat(old.fields[f]) = Flat(filter[f]) <=> old.fields[f] = filter[f])
    BY <1>5, <2>1, FlatDiffers
  <2> QED BY <1>2, <2>1, <2>2 DEF Holds
<1>7. ASSUME {"_text", "_metadata"} \cap DOMAIN filter = {}
      PROVE  PineconeMatch(v, conditions) <=> Matches(old, filter)
  <2>1. \A f \in DOMAIN filter : f \notin {"_text", "_metadata"}
    BY <1>7
  <2> QED BY <1>3, <1>6, <2>1 DEF PineconeMatch, Matches
<1>8. ASSUME ~TextIsLost(old)
      PROVE  PineconeResult(v).text = doc.text
  <2> DEFINE t == m["_text"]
  <2>1. t.is = "text" /\ t.of[1] = doc.text
    <3>1. t = Text(doc.text)
      BY <1>1, <1>8
    <3> HIDE DEF t
    <3> QED BY <3>1 DEF Text
  <2>2. PineconeText(m) = doc.text
    BY <2>1 DEF PineconeText
  <2> QED BY <1>2, <2>2 DEF PineconeResult, SearchResult
<1>9. PineconeResult(v).id = doc.id
  BY <1>2 DEF PineconeResult, SearchResult
<1>10. PineconeResult(v).metadata = GivenBack(old)
  BY <1>1, <1>2 DEF PineconeResult, SearchResult
<1> QED BY <1>7, <1>8, <1>9, <1>10 DEF v, conditions, old

\* Where no list is compared, Qdrant and PostgreSQL match what the filter matches.
LEMMA QdrantIs ==
  ASSUME NEW doc, NEW filter,
         \A f \in DOMAIN filter : ~(f \in DOMAIN doc.metadata.fields /\ doc.metadata.fields[f].is = "list")
  PROVE  QdrantMatch(QdrantPoint(doc), QdrantMust(filter)) <=> Matches(doc.metadata, filter)
<1> DEFINE p == QdrantPoint(doc)
           m == doc.metadata
<1>1. p.payload.metadata = m
  BY DEF QdrantPoint
<1> HIDE DEF p
<1>2. \A f \in DOMAIN filter : ~(f \in DOMAIN m.fields /\ m.fields[f].is = "list")
  OBVIOUS
<1> HIDE DEF m
<1> DEFINE Meets(f, v) ==
             \/ Holds(m, f, v)
             \/ \E l \in {m} :
                  /\ l.is = "object" /\ f \in DOMAIN l.fields /\ l.fields[f].is = "list"
                  /\ \E i \in 1..Len(l.fields[f].of) : Text(l.fields[f].of[i]) = v
<1>3. QdrantMatch(p, QdrantMust(filter)) <=> \A f \in DOMAIN filter : Meets(f, filter[f])
  <2>1. QdrantMatch(p, QdrantMust(filter)) <=> \A c \in QdrantMust(filter) : Meets(c.key, c.value)
    BY <1>1 DEF QdrantMatch
  <2> HIDE DEF Meets
  <2>2. \A f \in DOMAIN filter : [key |-> f, value |-> filter[f]] \in QdrantMust(filter)
    BY DEF QdrantMust
  <2>3. \A c \in QdrantMust(filter) : \E f \in DOMAIN filter : c.key = f /\ c.value = filter[f]
    BY DEF QdrantMust
  <2>4. ASSUME \A c \in QdrantMust(filter) : Meets(c.key, c.value), NEW f \in DOMAIN filter
        PROVE  Meets(f, filter[f])
    <3> DEFINE c == [key |-> f, value |-> filter[f]]
    <3>1. c \in QdrantMust(filter) /\ c.key = f /\ c.value = filter[f]
      BY <2>2
    <3> HIDE DEF c
    <3>2. Meets(c.key, c.value)
      BY <2>4, <3>1
    <3> QED BY <3>1, <3>2
  <2>5. ASSUME \A f \in DOMAIN filter : Meets(f, filter[f]), NEW c \in QdrantMust(filter)
        PROVE  Meets(c.key, c.value)
    BY <2>3, <2>5
  <2> QED BY <2>1, <2>4, <2>5
<1>4. \A f \in DOMAIN filter : ~\E l \in {m} : f \in DOMAIN l.fields /\ l.fields[f].is = "list"
  BY <1>2
<1>5. QdrantMatch(p, QdrantMust(filter)) <=> \A f \in DOMAIN filter : Holds(m, f, filter[f])
  BY <1>3, <1>4
<1> QED BY <1>5 DEF Matches, p, m

LEMMA PgIs ==
  ASSUME NEW metadata, NEW filter,
         \A f \in DOMAIN filter : ~(f \in DOMAIN metadata.fields /\ metadata.fields[f].is = "list")
  PROVE  filter = <<>> \/ PgContains(metadata, filter) <=> Matches(metadata, filter)
<1>1. PgContains(metadata, filter) <=> Matches(metadata, filter)
  BY DEF PgContains, Matches
<1>2. filter = <<>> => Matches(metadata, filter)
  <2>1. DOMAIN <<>> = {}
    OBVIOUS
  <2> QED BY <2>1 DEF Matches
<1> QED BY <1>1, <1>2

-----------------------------------------------------------------------------
(* What is searched *)

\* The store of an agent does not change.
KindInv == kind \in Kinds

LEMMA KindStays == KindInv /\ [Next]_vars => KindInv'
BY DEF KindInv, Next, vars, Begin, Forget, Step, Retry, GiveUp, Embedded, Store, StoreFails

\* What was remembered under the id of what is kept.
DocOf(x) == Remembered(IdOf(kind, x))

\* What is kept is what the store keeps of a document, and its metadata is in order.
LEMMA StoredIs ==
  ASSUME StoreInv, NEW x \in Range(store)
  PROVE  /\ x = Keep(kind, DocOf(x)) /\ DocOf(x).id = IdOf(kind, x)
         /\ IsMetadata(DocOf(x).metadata)
<1>1. PICK i \in 1..Len(store) : x = store[i]
  <2>1. DOMAIN store = 1..Len(store)
    BY DEF StoreInv, HaveInv
  <2> QED BY <2>1 DEF Range
<1>2. /\ store \in Seq(KeptDocs(calls, kind)) /\ IdOf(kind, x)[1] \in 1..at
      /\ texts = [c \in 1..at |-> Batches(calls[c])] /\ calls \in Histories
      /\ at \in 0..Len(calls)
  BY <1>1 DEF StoreInv, HaveInv
<1>3. x \in KeptDocs(calls, kind)
  BY <1>1, <1>2, ItemIs
<1>4. PICK d \in Docs(calls) : x = Keep(kind, d)
  BY <1>3 DEF KeptDocs
<1>5. IdOf(kind, x) = d.id
  BY <1>4, KeepIs
<1>6. PICK c \in Nat, b \in Nat, j \in Nat : d = DocAt(calls, c, b, j)
  BY DEF Docs
<1>7. d.id = <<c, b, j>>
  BY <1>6 DEF DocAt, Document
<1>8. c \in 1..at
  <2>1. IdOf(kind, x)[1] = c
    BY <1>5, <1>7
  <2> QED BY <1>2, <2>1
<1>9. texts[c] = Batches(calls[c])
  BY <1>2, <1>8
<1>10. DocOf(x) = d
  <2> DEFINE id == <<c, b, j>>
  <2>1. id[1] = c /\ id[2] = b /\ id[3] = j
    OBVIOUS
  <2>2. DocOf(x) = Remembered(id)
    BY <1>5, <1>7 DEF DocOf
  <2> HIDE DEF id
  <2>3. Remembered(id) =
          Document(id, texts[c][b][j], texts[c][b][j], MetadataOf(calls[c], b))
    BY <2>1 DEF Remembered
  <2>4. d = Document(id, Batches(calls[c])[b][j], Batches(calls[c])[b][j], MetadataOf(calls[c], b))
    BY <1>6 DEF DocAt, id
  <2> QED BY <1>9, <2>2, <2>3, <2>4
<1>11. c \in 1..Len(calls)
  <2>1. Len(calls) \in Nat
    BY <1>2, CallsAre
  <2> QED BY <1>2, <1>8, <2>1
<1>12. IsMetadata(MetadataOf(calls[c], b))
  BY <1>2, <1>11, MetadataIs
<1>13. d.metadata = MetadataOf(calls[c], b)
  BY <1>6 DEF DocAt, Document
<1> QED BY <1>4, <1>5, <1>10, <1>12, <1>13

\* A filter for a field of what is stored, or for a text in a list, asks for values.
LEMMA FiltersAre ==
  ASSUME StoreInv, NEW filter \in Filters
  PROVE  IsFilter(filter)
<1>1. CASE filter = <<>>
  <2>1. DOMAIN <<>> = {}
    OBVIOUS
  <2> QED BY <1>1, <2>1 DEF IsFilter
<1>2. CASE filter # <<>>
  <2>1. PICK i \in 1..Len(store) :
          \E n \in DOMAIN DocOf(store[i]).metadata.fields :
            \E v \in Asked(DocOf(store[i]).metadata.fields[n]) : filter = [f \in {n} |-> v]
    <3>1. PICK i \in 1..Len(store) :
            filter \in LET fields == Remembered(IdOf(kind, store[i])).metadata.fields
                      IN  UNION {{[f \in {n} |-> v] : v \in Asked(fields[n])} : n \in DOMAIN fields}
      BY <1>2 DEF Filters
    <3>2. PICK n \in DOMAIN Remembered(IdOf(kind, store[i])).metadata.fields :
            filter \in {[f \in {n} |-> v] :
                         v \in Asked(Remembered(IdOf(kind, store[i])).metadata.fields[n])}
      BY ONLY <3>1
    <3>3. PICK v \in Asked(Remembered(IdOf(kind, store[i])).metadata.fields[n]) :
            filter = [f \in {n} |-> v]
      BY ONLY <3>2
    <3> QED BY ONLY <3>1, <3>2, <3>3 DEF DocOf
  <2> DEFINE m == DocOf(store[i]).metadata
  <2>2. PICK n \in DOMAIN m.fields : \E v \in Asked(m.fields[n]) : filter = [f \in {n} |-> v]
    BY <2>1
  <2>3. PICK v \in Asked(m.fields[n]) : filter = [f \in {n} |-> v]
    BY <2>2
  <2>4. store[i] \in Range(store)
    <3>1. DOMAIN store = 1..Len(store)
      BY DEF StoreInv, HaveInv
    <3> QED BY <3>1 DEF Range
  <2>5. IsMetadata(m)
    BY <2>4, StoredIs
  <2> HIDE DEF m
  <2>6. IsValue(m.fields[n])
    <3>1. CASE m = Null
      <4>1. m.fields = <<>>
        BY <3>1 DEF Null
      <4>2. DOMAIN <<>> = {}
        OBVIOUS
      <4> QED BY <4>1, <4>2
    <3>2. CASE m.is = "object"
      BY <2>5, <3>2 DEF IsMetadata, Null
    <3>3. CASE m.is = "other"
      <4>1. m = Other(m.fields.value) /\ IsValue(m.fields.value)
        BY <2>5, <3>3 DEF IsMetadata, Null
      <4>2. m.fields = [value |-> m.fields.value]
        BY <4>1 DEF Other
      <4>3. DOMAIN m.fields = {"value"}
        BY <4>2
      <4>4. n = "value"
        BY <4>3
      <4> QED BY <4>1, <4>4
    <3> QED BY <2>5, <3>1, <3>2, <3>3 DEF IsMetadata
  <2>7. \A x : IsValue(Text(x))
    BY DEF IsValue, Text
  <2>8. IsValue(v)
    BY <2>3, <2>6, <2>7 DEF Asked
  <2>9. DOMAIN filter = {n} /\ filter[n] = v
    BY <2>3
  <2> QED BY <2>8, <2>9 DEF IsFilter
<1> QED BY <1>1, <1>2

\* What top_k may be, a usize.
Sizes == 0..(2 * MaxI64 + 1)

\* The ways in which a query may rank what is stored.
Rankings == {r \in Seq(Range(store)) : Len(r) = Len(store) /\ Range(r) = Range(store)}

LEMMA RankedIs ==
  ASSUME StoreInv, NEW ranked \in Rankings
  PROVE  /\ ranked \in Seq(Range(ranked)) /\ Len(ranked) = Len(store) /\ Len(store) \in Nat
         /\ DOMAIN ranked = 1..Len(ranked)
         /\ \A x \in Range(ranked) : x \in Range(store)
<1>1. Len(store) \in Nat
  BY DEF StoreInv, HaveInv
<1>2. ranked \in Seq(Range(store)) /\ Len(ranked) = Len(store) /\ Range(ranked) = Range(store)
  BY DEF Rankings
<1>3. DOMAIN ranked = 1..Len(ranked)
  BY <1>2
<1> QED BY <1>1, <1>2, <1>3

\* The order in which documents came in is one, and so is the reverse.
LEMMA TwoRankings ==
  ASSUME StoreInv
  PROVE  store \in Rankings /\ Reverse(store) \in Rankings
<1> DEFINE n == Len(store)
           r == Reverse(store)
           S == Range(store)
<1>1. n \in Nat /\ DOMAIN store = 1..n /\ store = [i \in 1..n |-> store[i]]
  BY DEF StoreInv, HaveInv
<1>2. \A i \in 1..n : store[i] \in S
  BY <1>1 DEF Range
<1>3. \A x \in S : \E i \in 1..n : x = store[i]
  BY <1>1 DEF Range
<1>4. r = [i \in 1..n |-> store[(n - i) + 1]]
  BY DEF Reverse
<1> HIDE DEF n, r, S
<1>5. store \in Seq(S)
  BY <1>1, <1>2
<1>6. \A i \in 1..n : (n - i) + 1 \in 1..n /\ (n - ((n - i) + 1)) + 1 = i
  BY <1>1
<1>7. DOMAIN r = 1..n /\ \A i \in 1..n : r[i] \in S
  BY <1>2, <1>4, <1>6
<1>8. r \in Seq(S) /\ Len(r) = n
  <2>1. r = [i \in 1..n |-> r[i]]
    BY <1>4
  <2> QED BY <1>1, <1>7, <2>1
<1>9. Range(r) = S
  <2>1. \A x \in Range(r) : x \in S
    BY <1>7 DEF Range
  <2>2. ASSUME NEW x \in S PROVE x \in Range(r)
    <3>1. PICK i \in 1..n : x = store[i]
      BY <1>3
    <3> DEFINE j == (n - i) + 1
    <3>2. j \in 1..n /\ (n - j) + 1 = i
      BY <1>6
    <3> HIDE DEF j
    <3>3. r[j] = x
      BY <1>4, <3>1, <3>2
    <3> QED BY <1>7, <3>2, <3>3 DEF Range
  <2> QED BY <2>1, <2>2
<1> QED BY <1>5, <1>8, <1>9 DEF Rankings, n, r, S

LEMMA OfSame ==
  ASSUME NEW S, NEW s \in Seq(S)
  PROVE  Of([x \in S |-> x], s) = s
<1> DEFINE R == [x \in S |-> x]
<1>1. \A x \in S : R[x] = x
  OBVIOUS
<1>2. Maps(R, S, S)
  BY DEF Maps
<1> HIDE DEF R
<1>3. Of(R, s) \in Seq(S) /\ Len(Of(R, s)) = Len(s) /\ \A i \in 1..Len(s) : Of(R, s)[i] = R[s[i]]
  BY <1>2, OfIs
<1>4. \A i \in 1..Len(s) : Of(R, s)[i] = s[i]
  BY <1>1, <1>3, ItemIs
<1>5. Of(R, s) = s
  BY <1>3, <1>4, SameSeq
<1> QED BY <1>5 DEF R

\* The ids of what is found among the ids of what should be.
LEMMA IdsAre ==
  ASSUME NEW S, NEW T, NEW U, NEW G, Maps(G, S, T), NEW R, Maps(R, S, U),
         NEW few \in Seq(S), NEW all \in Seq(S), Len(few) <= Len(all),
         \A i \in 1..Len(few) : few[i] = all[i], \A x \in S : R[x].id = G[x].id
  PROVE  /\ IsPrefix(IdsIn(Of(R, few)), IdsIn(Of(G, all)))
         /\ few = all => IdsIn(Of(R, few)) = IdsIn(Of(G, all))
<1> DEFINE V == {G[x].id : x \in S}
           o == Of(R, few)
           q == Of(G, all)
           a == IdsIn(o)
           b == IdsIn(q)
<1>1. Len(o) = Len(few) /\ Len(few) \in Nat /\ \A i \in 1..Len(few) : o[i] = R[few[i]]
  BY OfIs
<1>2. Len(q) = Len(all) /\ Len(all) \in Nat /\ \A i \in 1..Len(all) : q[i] = G[all[i]]
  BY OfIs
<1> HIDE DEF o, q
<1>3. /\ \A i \in 1..Len(few) : few[i] \in S /\ o[i].id = G[few[i]].id /\ G[few[i]].id \in V
      /\ \A i \in 1..Len(all) : all[i] \in S /\ q[i].id = G[all[i]].id /\ G[all[i]].id \in V
  BY <1>1, <1>2, ItemIs
<1> HIDE DEF V
<1>4. a = [i \in 1..Len(few) |-> o[i].id] /\ b = [i \in 1..Len(all) |-> q[i].id]
  BY <1>1, <1>2 DEF IdsIn
<1> HIDE DEF a, b
<1>5. a \in Seq(V) /\ Len(a) = Len(few) /\ \A i \in 1..Len(few) : a[i] = G[few[i]].id
  BY <1>1, <1>3, <1>4
<1>6. b \in Seq(V) /\ Len(b) = Len(all) /\ \A i \in 1..Len(all) : b[i] = G[all[i]].id
  BY <1>2, <1>3, <1>4
<1>7. \A i \in 1..Len(a) : a[i] = b[i]
  <2> SUFFICES ASSUME NEW i \in 1..Len(few) PROVE a[i] = b[i]
    BY <1>5
  <2>1. i \in 1..Len(all)
    BY <1>1, <1>2
  <2> QED BY <1>5, <1>6, <2>1
<1>8. IsPrefix(a, b)
  BY <1>5, <1>6, <1>7, PrefixOf
<1>9. few = all => a = b
  BY <1>5, <1>6, <1>7, SameSeq
<1> QED BY <1>8, <1>9 DEF a, b, o, q

-----------------------------------------------------------------------------
(* The searches *)

\* What a search must have come to: results R for few of the documents, and these
\* are the first, or all, of those that A chooses, which are what the filter matches.
Tells(x, r) ==
  /\ r.id = DocOf(x).id /\ r.metadata = GivenBack(DocOf(x).metadata)
  /\ TextIsLost(DocOf(x).metadata) \/ r.text = DocOf(x).text

Gives(result, S, R, few) ==
  /\ few \in Seq(S) /\ Maps(R, S, Range(R)) /\ result.hits = Of(R, few)
  /\ \A x \in S : Tells(x, R[x])

Picks(docs, filter, S, few, all, A, top_k) ==
  ~Differs(filter, docs) =>
    /\ \A x \in S : x \in A <=> Matches(DocOf(x).metadata, filter)
    /\ Len(few) <= Len(all) /\ \A i \in 1..Len(few) : few[i] = all[i]
    /\ kind # "custom" \/ Len(store) <= Overfetch * top_k => few = all

Finds(result, docs, filter, ranked, top_k) ==
  \E A, R, few :
    /\ Gives(result, Range(ranked), R, few)
    /\ Picks(docs, filter, Range(ranked), few, Few(Among(ranked, A), top_k), A, top_k)

LEMMA ChosenFirst ==
  ASSUME NEW S, NEW s \in Seq(S), NEW A, NEW n \in Nat
  PROVE  /\ Few(Among(s, A), n) \in Seq(S) /\ Len(Few(Among(s, A), n)) \in Nat
<1>1. Among(s, A) \in Seq(S)
  BY AmongIn
<1>2. Few(Among(s, A), n) \in Seq(S)
  BY <1>1, FewIs
<1> QED BY <1>2

\* Where no list is compared, none is in a field that the filter asks for.
LEMMA NoLists ==
  ASSUME StoreInv, NEW filter, NEW ranked \in Rankings,
         NEW docs, docs = [i \in 1..Len(ranked) |-> DocOf(ranked[i])],
         kind \in {"qdrant", "pg"}, ~Differs(filter, docs), NEW x \in Range(ranked)
  PROVE  \A f \in DOMAIN filter :
           ~(f \in DOMAIN DocOf(x).metadata.fields /\ DocOf(x).metadata.fields[f].is = "list")
<1>1. DOMAIN ranked = 1..Len(ranked) /\ Len(ranked) \in Nat
  BY RankedIs
<1>2. PICK i \in 1..Len(ranked) : x = ranked[i]
  BY <1>1 DEF Range
<1>3. docs[i] = DocOf(x) /\ Len(docs) = Len(ranked)
  BY <1>1, <1>2
<1> QED BY <1>2, <1>3 DEF Differs, OfLists

\* A store that gives the first of what it chooses.
Chooses(result, docs, filter, S, few, A, R) ==
  /\ result.hits = [i \in 1..Len(few) |-> R[few[i]]]
  /\ R = [x \in S |-> R[x]]
  /\ \A x \in S : Tells(x, R[x])
  /\ ~Differs(filter, docs) => \A x \in S : x \in A <=> Matches(DocOf(x).metadata, filter)

LEMMA AllFinds ==
  ASSUME StoreInv, NEW filter, NEW top_k \in Nat, NEW ranked \in Rankings,
         NEW docs, NEW A, NEW R, NEW result,
         Chooses(result, docs, filter, Range(ranked), Few(Among(ranked, A), top_k), A, R)
  PROVE  Finds(result, docs, filter, ranked, top_k)
<1> DEFINE S   == Range(ranked)
           all == Few(Among(ranked, A), top_k)
<1>1. ranked \in Seq(S)
  BY RankedIs
<1>2. all \in Seq(S) /\ Len(all) \in Nat
  BY <1>1, ChosenFirst
<1> HIDE DEF S, all
<1>0. Chooses(result, docs, filter, S, all, A, R)
  BY DEF S, all
<1>3. Maps(R, S, Range(R))
  <2>1. R = [x \in S |-> R[x]]
    BY <1>0 DEF Chooses
  <2> QED BY <2>1 DEF Maps, Range
<1>4. result.hits = Of(R, all)
  BY <1>0 DEF Chooses, Of
<1>5. Gives(result, S, R, all)
  BY <1>0, <1>2, <1>3, <1>4 DEF Gives, Chooses
<1>6. Picks(docs, filter, S, all, all, A, top_k)
  BY <1>0, <1>2 DEF Picks, Chooses
<1> QED BY <1>5, <1>6 DEF Finds, S, all

LEMMA QdrantFinds ==
  ASSUME StoreInv, kind = "qdrant", NEW filter, NEW top_k \in Nat,
         NEW ranked \in Rankings, NEW docs, docs = [i \in 1..Len(ranked) |-> DocOf(ranked[i])],
         NEW result \in QdrantSearch(ranked, filter, top_k), result.ok
  PROVE  Finds(result, docs, filter, ranked, top_k)
<1> DEFINE S      == Range(ranked)
           must   == QdrantMust(filter)
           A      == {p \in S : QdrantMatch(p, must)}
           R      == [x \in S |-> QdrantResult(x)]
           all    == Few(Among(ranked, A), top_k)
<1>1. ranked \in Seq(S) /\ (\A x \in S : x \in Range(store)) /\ DOMAIN ranked = 1..Len(ranked)
  BY RankedIs
<1>2. ASSUME NEW x \in S
      PROVE  x = QdrantPoint(DocOf(x)) /\ DocOf(x).id = IdOf(kind, x)
  <2>1. x = Keep(kind, DocOf(x)) /\ DocOf(x).id = IdOf(kind, x)
    BY <1>1, StoredIs
  <2> QED BY <2>1 DEF Keep
<1>3. ASSUME NEW x \in S
      PROVE  Tells(x, R[x])
  <2> DEFINE d == DocOf(x)
  <2>1. x = QdrantPoint(d) /\ R[x] = QdrantResult(x)
    BY <1>2
  <2> HIDE DEF d
  <2>2. x.payload.id = d.id /\ x.payload.text = d.text /\ x.payload.metadata = d.metadata
    BY <2>1 DEF QdrantPoint
  <2>3. R[x] = SearchResult(x.payload.id, x.payload.text, x.payload.metadata)
    BY <2>1 DEF QdrantResult
  <2> HIDE DEF R
  <2>4. R[x].id = d.id /\ R[x].text = d.text /\ R[x].metadata = d.metadata
    BY <2>2, <2>3 DEF SearchResult
  <2> QED BY <2>4 DEF Tells, GivenBack, d
<1>4. ASSUME ~Differs(filter, docs), NEW x \in S
      PROVE  x \in A <=> Matches(DocOf(x).metadata, filter)
  <2>1. \A f \in DOMAIN filter :
          ~(f \in DOMAIN DocOf(x).metadata.fields /\ DocOf(x).metadata.fields[f].is = "list")
    BY <1>4, NoLists
  <2>2. QdrantMatch(QdrantPoint(DocOf(x)), must) <=> Matches(DocOf(x).metadata, filter)
    BY <2>1, QdrantIs
  <2> QED BY <1>2, <2>2
<1>5. all \in Seq(S) /\ Len(all) \in Nat
  BY <1>1, ChosenFirst
<1>6. result.hits = Each(all, QdrantResult)
  BY DEF QdrantSearch, Refused, Found
<1>7. result.hits = [i \in 1..Len(all) |-> R[all[i]]]
  <2>1. \A i \in 1..Len(all) : QdrantResult(all[i]) = R[all[i]]
    <3> HIDE DEF all
    <3> QED BY <1>5, ItemIs
  <2> HIDE DEF R, all
  <2> QED BY <1>6, <2>1 DEF Each
<1>8. R = [x \in S |-> R[x]]
  OBVIOUS
<1> HIDE DEF R, A, must, S, all
<1>9. Chooses(result, docs, filter, S, all, A, R)
  BY <1>3, <1>4, <1>7, <1>8 DEF Chooses
<1> QED BY <1>9, AllFinds DEF S, all

LEMMA PineconeFinds ==
  ASSUME StoreInv, kind = "pinecone", NEW filter, IsFilter(filter), NEW top_k \in Nat,
         NEW ranked \in Rankings, NEW docs,
         NEW result \in PineconeSearch(ranked, filter, top_k), result.ok
  PROVE  Finds(result, docs, filter, ranked, top_k)
<1> DEFINE S      == Range(ranked)
           conditions == PineconeConditions(filter)
           A      == {v \in S : PineconeMatch(v, conditions)}
           R      == [x \in S |-> PineconeResult(x)]
           all    == Few(Among(ranked, A), top_k)
<1>1. ranked \in Seq(S) /\ \A x \in S : x \in Range(store)
  BY RankedIs
<1>2. ASSUME NEW x \in S
      PROVE  /\ Tells(x, R[x])
             /\ ~Differs(filter, docs) => (x \in A <=> Matches(DocOf(x).metadata, filter))
  <2> DEFINE d == DocOf(x)
  <2>1. x = Keep(kind, d) /\ IsMetadata(d.metadata)
    BY <1>1, StoredIs
  <2>2. x = PineconeVector(d) /\ R[x] = PineconeResult(x)
    BY <2>1 DEF Keep
  <2>3. /\ PineconeResult(x).id = d.id
        /\ TextIsLost(d.metadata) \/ PineconeResult(x).text = d.text
        /\ PineconeResult(x).metadata = GivenBack(d.metadata)
        /\ {"_text", "_metadata"} \cap DOMAIN filter = {} =>
             (PineconeMatch(x, conditions) <=> Matches(d.metadata, filter))
    <3> HIDE DEF d
    <3> QED BY <2>1, <2>2, PineconeIs
  <2>4. ~Differs(filter, docs) => {"_text", "_metadata"} \cap DOMAIN filter = {}
    BY DEF Differs
  <2>5. x \in A <=> PineconeMatch(x, conditions)
    OBVIOUS
  <2> HIDE DEF R, A
  <2> QED BY <2>2, <2>3, <2>4, <2>5 DEF Tells
<1>3. result.hits = Each(all, PineconeResult)
  BY DEF PineconeSearch, Refused, Found
<1>4. all \in Seq(S) /\ Len(all) \in Nat
  BY <1>1, ChosenFirst
<1>5. result.hits = [i \in 1..Len(all) |-> R[all[i]]]
  <2>1. \A i \in 1..Len(all) : PineconeResult(all[i]) = R[all[i]]
    <3> HIDE DEF all
    <3> QED BY <1>4, ItemIs
  <2> HIDE DEF R, all
  <2> QED BY <1>3, <2>1 DEF Each
<1>6. R = [x \in S |-> R[x]]
  OBVIOUS
<1> HIDE DEF R, A, S, all
<1>7. Chooses(result, docs, filter, S, all, A, R)
  BY <1>2, <1>5, <1>6 DEF Chooses
<1> QED BY <1>7, AllFinds DEF S, all

\* The other stores keep the documents as they are.
LEMMA SameFinds ==
  ASSUME StoreInv, kind \notin {"qdrant", "pinecone"}, NEW ranked \in Rankings,
         NEW x \in Range(ranked)
  PROVE  DocOf(x) = x /\ Tells(x, x)
<1>1. x \in Range(store)
  BY RankedIs
<1>2. x = Keep(kind, DocOf(x))
  BY <1>1, StoredIs
<1>3. DocOf(x) = x
  BY <1>2 DEF Keep, PgRow
<1> QED BY <1>3 DEF Tells, GivenBack

LEMMA PgFinds ==
  ASSUME StoreInv, kind = "pg", NEW filter, NEW top_k \in Sizes,
         NEW ranked \in Rankings,
         NEW docs, docs = [i \in 1..Len(ranked) |-> DocOf(ranked[i])],
         NEW result \in PgSearch(ranked, filter, top_k), result.ok
  PROVE  Finds(result, docs, filter, ranked, top_k)
<1> DEFINE S      == Range(ranked)
           A      == {r \in S : filter = <<>> \/ PgContains(r.metadata, filter)}
           R      == [x \in S |-> x]
           all    == Few(Among(ranked, A), top_k)
<1>1. ranked \in Seq(S)
  BY RankedIs
<1>2. \A x \in S : DocOf(x) = x /\ R[x] = x /\ Tells(x, R[x])
  BY SameFinds
<1>3. ASSUME ~Differs(filter, docs), NEW x \in S
      PROVE  x \in A <=> Matches(DocOf(x).metadata, filter)
  <2> DEFINE m == DocOf(x).metadata
  <2>1. \A f \in DOMAIN filter : ~(f \in DOMAIN m.fields /\ m.fields[f].is = "list")
    BY <1>3, NoLists
  <2>2. x.metadata = m
    BY <1>2
  <2> HIDE DEF m
  <2>3. filter = <<>> \/ PgContains(m, filter) <=> Matches(m, filter)
    BY <2>1, PgIs
  <2> QED BY <2>2, <2>3 DEF m
<1>4. result.hits = all /\ top_k \in Nat
  <2>1. MaxI64 \in Nat /\ top_k \in 0..(2 * MaxI64 + 1)
    BY WidthAssumption DEF Sizes
  <2>2. AsI64(top_k) >= 0 => AsI64(top_k) = top_k
    BY <2>1 DEF AsI64
  <2>3. AsI64(top_k) >= 0 /\ result = Found(Few(Among(ranked, A), AsI64(top_k)))
    BY DEF PgSearch, Refused, Found
  <2> QED BY <2>1, <2>2, <2>3 DEF Found
<1>5. all \in Seq(S)
  BY <1>1, <1>4, ChosenFirst
<1>6. result.hits = [i \in 1..Len(all) |-> R[all[i]]]
  <2>1. Of(R, all) = all
    BY <1>5, OfSame
  <2> HIDE DEF R, all
  <2> QED BY <1>4, <2>1 DEF Of
<1>7. R = [x \in S |-> R[x]]
  OBVIOUS
<1> HIDE DEF R, A, S, all
<1>8. Chooses(result, docs, filter, S, all, A, R)
  BY <1>2, <1>3, <1>6, <1>7 DEF Chooses
<1> QED BY <1>4, <1>8, AllFinds DEF S, all

LEMMA NativeFinds ==
  ASSUME StoreInv, kind = "memory", NEW filter, NEW top_k \in Nat,
         NEW ranked \in Rankings, NEW docs, NEW result \in NativeSearch(ranked, filter, top_k)
  PROVE  Finds(result, docs, filter, ranked, top_k)
<1> DEFINE S      == Range(ranked)
           A      == {d \in S : Matches(d.metadata, filter)}
           R      == [x \in S |-> x]
           all    == Few(Among(ranked, A), top_k)
<1>1. ranked \in Seq(S)
  BY RankedIs
<1>2. \A x \in S : DocOf(x) = x /\ R[x] = x /\ Tells(x, R[x])
  BY SameFinds
<1>3. \A x \in S : x \in A <=> Matches(DocOf(x).metadata, filter)
  BY <1>2
<1>4. result.hits = all
  BY DEF NativeSearch, Matching, Found
<1>5. all \in Seq(S)
  BY <1>1, ChosenFirst
<1>6. result.hits = [i \in 1..Len(all) |-> R[all[i]]]
  <2>1. Of(R, all) = all
    BY <1>5, OfSame
  <2> HIDE DEF R, all
  <2> QED BY <1>4, <2>1 DEF Of
<1>7. R = [x \in S |-> R[x]]
  OBVIOUS
<1> HIDE DEF R, A, S, all
<1>8. Chooses(result, docs, filter, S, all, A, R)
  BY <1>2, <1>3, <1>6, <1>7 DEF Chooses
<1> QED BY <1>8, AllFinds DEF S, all

\* The default of the trait chooses from the first, which may be fewer than all.
LEMMA DefaultFinds ==
  ASSUME StoreInv, kind = "custom", NEW filter, NEW top_k \in Nat,
         NEW ranked \in Rankings, NEW docs,
         NEW result \in DefaultSearch(ranked, filter, top_k), result.ok
  PROVE  Finds(result, docs, filter, ranked, top_k)
<1> DEFINE S      == Range(ranked)
           A      == {d \in S : Matches(d.metadata, filter)}
           R      == [x \in S |-> x]
           m      == Overfetch * top_k
           p      == Few(ranked, m)
           all    == Few(Among(ranked, A), top_k)
           some   == Few(Among(p, A), top_k)
<1>1. ranked \in Seq(S) /\ Len(ranked) = Len(store)
  BY RankedIs
<1>2. \A x \in S : DocOf(x) = x /\ R[x] = x /\ Tells(x, R[x])
  BY SameFinds
<1>3. \A x \in S : x \in A <=> Matches(DocOf(x).metadata, filter)
  BY <1>2
<1>4. m \in Nat
  BY MemoryAssumption
<1>5. Maps(R, S, Range(R))
  BY DEF Maps, Range
<1>6. all \in Seq(S) /\ Len(all) \in Nat
  BY <1>1, ChosenFirst
<1>7. CASE filter = <<>>
  <2>1. result.hits = Few(ranked, top_k)
    BY <1>7 DEF DefaultSearch, Refused, Found
  <2>2. \A x \in S : x \in A
    <3>1. DOMAIN <<>> = {}
      OBVIOUS
    <3> QED BY <1>7, <3>1 DEF Matches
  <2>3. \A i \in 1..Len(ranked) : ranked[i] \in A
    <3> HIDE DEF A, S
    <3> QED BY <1>1, <2>2, ItemIs
  <2> HIDE DEF A
  <2>4. Among(ranked, A) = ranked
    BY <1>1, <2>3, AmongAll
  <2>5. result.hits = Of(R, all)
    <3>1. Of(R, all) = all
      BY <1>6, OfSame
    <3> QED BY <2>1, <2>4, <3>1
  <2> HIDE DEF S, R, all
  <2>6. Gives(result, S, R, all)
    BY <1>2, <1>5, <1>6, <2>1, <2>5 DEF Gives
  <2>7. Picks(docs, filter, S, all, all, A, top_k)
    BY <1>3, <1>6 DEF Picks
  <2> QED BY <2>6, <2>7 DEF Finds, S, all
<1>8. CASE filter # <<>>
  <2>1. result.hits = Few(Matching(p, filter), top_k)
    BY <1>8 DEF DefaultSearch, Refused, Found
  <2>2. p \in Seq(S)
    BY <1>1, <1>4, FewIs
  <2>3. Matching(p, filter) = Among(p, A)
    <3> DEFINE B == {d \in Range(p) : Matches(d.metadata, filter)}
    <3>1. \A i \in 1..Len(p) : p[i] \in S /\ p[i] \in Range(p)
      <4> HIDE DEF p, S
      <4>1. DOMAIN p = 1..Len(p)
        BY <2>2
      <4> QED BY <2>2, <4>1, ItemIs DEF Range
    <3> HIDE DEF p, S
    <3>2. \A i \in 1..Len(p) : p[i] \in B <=> p[i] \in A
      BY <3>1
    <3> HIDE DEF A, B
    <3>3. Among(p, B) = Among(p, A)
      BY <2>2, <3>2, AmongSame
    <3> QED BY <3>3 DEF Matching, B
  <2> HIDE DEF A, m
  <2>4. /\ some \in Seq(S) /\ Len(some) <= Len(all) /\ \A i \in 1..Len(some) : some[i] = all[i]
        /\ Len(ranked) <= m => some = all
    <3>1. ranked \in Seq(S) /\ m \in Nat
      BY <1>1, <1>4
    <3> HIDE DEF S, m, A
    <3>2. LET few == Few(Among(Few(ranked, m), A), top_k)
              ful == Few(Among(ranked, A), top_k)
          IN  /\ few \in Seq(S) /\ ful \in Seq(S) /\ Len(few) <= Len(ful)
              /\ \A i \in 1..Len(few) : few[i] = ful[i]
              /\ Len(ranked) <= m => few = ful
      BY <3>1, FewFirst
    <3> QED BY <3>2, Zenon
  <2>5. result.hits = Of(R, some)
    <3>1. Of(R, some) = some
      BY <2>4, OfSame
    <3> QED BY <2>1, <2>3, <3>1
  <2> HIDE DEF S, R, all, some
  <2>6. Gives(result, S, R, some)
    BY <1>2, <1>5, <2>1, <2>4, <2>5 DEF Gives
  <2>7. Picks(docs, filter, S, some, all, A, top_k)
    BY <1>1, <1>3, <2>4 DEF Picks, m
  <2> QED BY <2>6, <2>7 DEF Finds, S, all
<1> QED BY <1>7, <1>8

\* What FindsBest says of one result.
Best(result, filter, top_k, ranked) ==
  LET docs    == Each(ranked, LAMBDA k : Remembered(IdOf(kind, k)))
      best    == Few(Matching(docs, filter), top_k)
  IN  /\ \A i \in 1..Len(result.hits) :
           LET d == Remembered(result.hits[i].id)
           IN  /\ result.hits[i].metadata = GivenBack(d.metadata)
               /\ TextIsLost(d.metadata) \/ result.hits[i].text = d.text
      /\ ~Differs(filter, docs) =>
           /\ IsPrefix(IdsIn(result.hits), IdsIn(best))
           /\ kind # "custom" \/ Len(store) <= Overfetch * top_k => IdsIn(result.hits) = IdsIn(best)

\* Finds is what FindsBest says of a search.
LEMMA ResultIs ==
  ASSUME StoreInv, KindInv, NEW filter, IsFilter(filter), NEW top_k \in Sizes, NEW ranked \in Rankings,
         NEW result \in SearchFiltered(kind, ranked, filter, top_k), result.ok
  PROVE  Best(result, filter, top_k, ranked)
<1> DEFINE docs   == Each(ranked, LAMBDA k : Remembered(IdOf(kind, k)))
           best   == Few(Matching(docs, filter), top_k)
           hits   == result.hits
           S      == Range(ranked)
           G      == [x \in S |-> DocOf(x)]
           B      == {d \in Range(docs) : Matches(d.metadata, filter)}
<1>1. /\ ranked \in Seq(S) /\ Len(ranked) \in Nat /\ DOMAIN ranked = 1..Len(ranked)
      /\ \A x \in S : x \in Range(store)
  BY RankedIs
<1>2. top_k \in Nat
  BY WidthAssumption DEF Sizes
<1>3. docs = [i \in 1..Len(ranked) |-> DocOf(ranked[i])]
  BY DEF Each, DocOf
<1>4. Finds(result, docs, filter, ranked, top_k)
  <2>1. kind \in {"memory", "qdrant", "pinecone", "pg", "custom"}
    BY MetadataAssumption DEF KindInv
  <2> HIDE DEF docs
  <2>2. CASE kind = "qdrant"
    BY <1>2, <1>3, <2>2, QdrantFinds DEF SearchFiltered
  <2>3. CASE kind = "pinecone"
    BY <1>2, <2>3, PineconeFinds DEF SearchFiltered
  <2>4. CASE kind = "pg"
    BY <1>2, <1>3, <2>4, PgFinds DEF SearchFiltered
  <2>5. CASE kind = "memory"
    BY <1>2, <2>5, NativeFinds DEF SearchFiltered
  <2>6. CASE kind = "custom"
    BY <1>2, <2>6, DefaultFinds DEF SearchFiltered
  <2> QED BY <2>1, <2>2, <2>3, <2>4, <2>5, <2>6
<1>5. PICK A, R, few :
        /\ Gives(result, S, R, few)
        /\ Picks(docs, filter, S, few, Few(Among(ranked, A), top_k), A, top_k)
  BY <1>4 DEF Finds
<1> DEFINE all == Few(Among(ranked, A), top_k)
<1>6. /\ few \in Seq(S) /\ Maps(R, S, Range(R)) /\ hits = Of(R, few)
      /\ \A x \in S :
           /\ R[x].id = DocOf(x).id /\ R[x].metadata = GivenBack(DocOf(x).metadata)
           /\ TextIsLost(DocOf(x).metadata) \/ R[x].text = DocOf(x).text
  BY <1>5 DEF Gives, Tells
<1>7. \A x \in S : Remembered(DocOf(x).id) = DocOf(x)
  <2> SUFFICES ASSUME NEW x \in S PROVE Remembered(DocOf(x).id) = DocOf(x)
    OBVIOUS
  <2>1. DocOf(x).id = IdOf(kind, x)
    BY <1>1, StoredIs
  <2> QED BY <2>1 DEF DocOf
<1>8. ASSUME NEW i \in 1..Len(hits)
      PROVE  LET d == Remembered(hits[i].id)
             IN  /\ hits[i].metadata = GivenBack(d.metadata)
                 /\ TextIsLost(d.metadata) \/ hits[i].text = d.text
  <2> HIDE DEF S, hits
  <2>1. Len(hits) = Len(few) /\ \A j \in 1..Len(few) : hits[j] = R[few[j]]
    BY <1>6, OfIs
  <2>2. few[i] \in S /\ hits[i] = R[few[i]]
    BY <1>6, <2>1, ItemIs
  <2>3. hits[i].id = DocOf(few[i]).id
    BY <1>6, <2>2
  <2>4. Remembered(hits[i].id) = DocOf(few[i])
    BY <1>7, <2>2, <2>3
  <2> QED BY <1>6, <2>2, <2>4
<1>9. ASSUME ~Differs(filter, docs)
      PROVE  /\ IsPrefix(IdsIn(hits), IdsIn(best))
             /\ kind # "custom" \/ Len(store) <= Overfetch * top_k => IdsIn(hits) = IdsIn(best)
  <2>1. /\ \A x \in S : x \in A <=> Matches(DocOf(x).metadata, filter)
        /\ Len(few) <= Len(all) /\ \A i \in 1..Len(few) : few[i] = all[i]
        /\ kind # "custom" \/ Len(store) <= Overfetch * top_k => few = all
    BY <1>5, <1>9 DEF Picks
  <2>2. docs = Of(G, ranked)
    <3>1. \A i \in 1..Len(ranked) : G[ranked[i]] = DocOf(ranked[i])
      <4>1. \A i \in 1..Len(ranked) : ranked[i] \in S
        BY <1>1 DEF Range
      <4> QED BY <4>1
    <3> HIDE DEF G, docs
    <3> QED BY <1>3, <3>1 DEF Of
  <2>3. Maps(G, S, Range(docs))
    <3> HIDE DEF docs
    <3>1. \A x \in S : DocOf(x) \in Range(docs)
      <4> SUFFICES ASSUME NEW x \in S PROVE DocOf(x) \in Range(docs)
        OBVIOUS
      <4>1. PICK i \in 1..Len(ranked) : x = ranked[i]
        BY <1>1 DEF Range
      <4>2. i \in DOMAIN docs /\ docs[i] = DocOf(x)
        BY <1>3, <4>1
      <4> QED BY <4>2 DEF Range
    <3> QED BY <3>1 DEF Maps
  <2>4. \A x \in S : x \in A <=> G[x] \in B
    <3>1. \A x \in S : G[x] = DocOf(x) /\ G[x] \in Range(docs)
      <4> HIDE DEF docs
      <4> QED BY <2>3 DEF Maps
    <3> HIDE DEF G, S, docs
    <3> QED BY <2>1, <3>1
  <2>5. Matching(docs, filter) = Among(docs, B)
    BY DEF Matching
  <2>6. \A x \in S : R[x].id = G[x].id
    BY <1>6
  <2> HIDE DEF docs, G, B, S, hits
  <2>7. Among(docs, B) = Of(G, Among(ranked, A))
    BY <1>1, <2>2, <2>3, <2>4, AmongOf
  <2>8. Among(ranked, A) \in Seq(S)
    BY <1>1, AmongIn
  <2>9. best = Of(G, all)
    BY <1>2, <2>3, <2>5, <2>7, <2>8, FewOf
  <2>10. all \in Seq(S)
    BY <1>2, <2>8, FewIs
  <2> HIDE DEF all, best
  <2>11. /\ IsPrefix(IdsIn(Of(R, few)), IdsIn(Of(G, all)))
         /\ few = all => IdsIn(Of(R, few)) = IdsIn(Of(G, all))
    BY <1>6, <2>1, <2>3, <2>6, <2>10, IdsAre
  <2> QED BY <1>6, <2>1, <2>9, <2>11
<1> HIDE DEF docs, best
<1> QED BY <1>8, <1>9 DEF Best, docs, best

\* A search that is not refused for what it asks may find.
LEMMA SomeIsFound ==
  ASSUME KindInv, NEW filter, NEW top_k \in Sizes, NEW ranked
  PROVE  LET results == SearchFiltered(kind, ranked, filter, top_k)
         IN  /\ (\E result \in results : result.ok) \/ NeverTaken(filter, top_k)
             /\ kind = "memory" => Refused \notin results
<1> DEFINE results == SearchFiltered(kind, ranked, filter, top_k)
<1>1. kind \in {"memory", "qdrant", "pinecone", "pg", "custom"}
  BY MetadataAssumption DEF KindInv
<1>2. \A hits : Found(hits).ok = TRUE /\ Found(hits) # Refused
  BY DEF Found, Refused
<1>3. CASE kind = "memory"
  BY <1>2, <1>3 DEF SearchFiltered, NativeSearch
<1>4. CASE kind = "qdrant"
  BY <1>2, <1>4 DEF SearchFiltered, QdrantSearch, NeverTaken
<1>5. CASE kind = "pinecone"
  BY <1>2, <1>5 DEF SearchFiltered, PineconeSearch
<1>6. CASE kind = "pg"
  <2>1. MaxI64 \in Nat /\ top_k \in 0..(2 * MaxI64 + 1)
    BY WidthAssumption DEF Sizes
  <2>2. ~NeverTaken(filter, top_k) => AsI64(top_k) >= 0
    BY <1>6, <2>1 DEF NeverTaken, AsI64
  <2> QED BY <1>2, <1>6, <2>2 DEF SearchFiltered, PgSearch
<1>7. CASE kind = "custom"
  BY <1>2, <1>7 DEF SearchFiltered, DefaultSearch
<1> QED BY <1>1, <1>3, <1>4, <1>5, <1>6, <1>7

LEMMA RecallIs ==
  ASSUME StoreInv, KindInv, NEW filter, IsFilter(filter), NEW top_k \in Sizes, NEW ranked \in Rankings
  PROVE  FindsBest(filter, top_k, ranked)
<1> DEFINE results == SearchFiltered(kind, ranked, filter, top_k)
<1>1. /\ (\E result \in results : result.ok) \/ NeverTaken(filter, top_k)
      /\ kind = "memory" => Refused \notin results
  BY SomeIsFound
<1>2. \A result \in results : result.ok => Best(result, filter, top_k, ranked)
  BY ResultIs
<1>3. \A s : Each(s, LAMBDA d : d.id) = IdsIn(s)
  BY DEF Each, IdsIn
<1> HIDE DEF results
<1> QED BY <1>1, <1>2, <1>3 DEF FindsBest, Best, results

LEMMA KindInvariant == Spec => []KindInv
<1>1. Init => KindInv
  BY DEF Init, KindInv
<1> QED BY <1>1, KindStays, PTL DEF Spec

\* THEOREM.  For every history of calls, in every kind of store, however many are asked
\* for and whichever way the query ranks what is stored, and for every filter, of one
\* field or of several: what recall_filtered gives, if it is not refused, is the best of
\* the documents that match, with their texts and metadata, up to what Differs, GivenBack
\* and TextIsLost name, and the trait's default with many documents (search_filtered of
\* memory.rs, qdrant.rs, pinecone.rs, pg.rs and mod.rs).
THEOREM EveryRankingIsSearched ==
  Spec => [](\A filter : IsFilter(filter) =>
               \A top_k \in Sizes, ranked \in Rankings : FindsBest(filter, top_k, ranked))
<1>1. StoreInv /\ KindInv => \A filter : IsFilter(filter) =>
                               \A top_k \in Sizes, ranked \in Rankings : FindsBest(filter, top_k, ranked)
  BY RecallIs
<1> QED BY <1>1, StoreInvariant, KindInvariant, PTL

\* THEOREM.  So RecallFinds holds, which is this of the filters for one field of what is
\* stored, a few numbers of results and two rankings.
THEOREM RecallFindsTheBest == Spec => []RecallFinds
<1>1. StoreInv /\ KindInv => RecallFinds
  <2> SUFFICES ASSUME StoreInv, KindInv, NEW filter \in Filters, NEW top_k \in {0, 1, 2, MaxI64 + 1},
                      NEW ranked \in {store, Reverse(store)}
               PROVE  FindsBest(filter, top_k, ranked)
    BY DEF RecallFinds
  <2>1. top_k \in Sizes
    BY WidthAssumption DEF Sizes
  <2>2. ranked \in Rankings /\ IsFilter(filter)
    BY TwoRankings, FiltersAre
  <2> QED BY <2>1, <2>2, RecallIs
<1> QED BY <1>1, StoreInvariant, KindInvariant, PTL
=============================================================================
