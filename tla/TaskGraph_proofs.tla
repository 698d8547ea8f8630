--------------------------- MODULE TaskGraph_proofs ---------------------------
(***************************************************************************)
(* That DagScheduler.topological_order is right for every list of tasks:   *)
(* what it returns has every task once and behind its upstream tasks, and  *)
(* a list is refused as cyclic only if some of its tasks wait for one      *)
(* another or for a task that is not there.                                *)
(*                                                                         *)
(* The algorithm is a recursive function on 0..n.  What holds of all its   *)
(* values is proved by looking at the least argument where it would fail   *)
(* (InductionLemmas).                                                      *)
(***************************************************************************)
EXTENDS TaskGraph, InductionLemmas

-----------------------------------------------------------------------------
(* Sequences of tasks without repetition.                                  *)

Elements(seq) == {seq[i] : i \in 1..Len(seq)}
Once(seq) == \A i, j \in 1..Len(seq) : seq[i] = seq[j] => i = j

LEMMA AppendOnce ==
  ASSUME NEW S, NEW seq \in Seq(S), NEW e \in S
  PROVE  /\ Append(seq, e) \in Seq(S)
         /\ Elements(Append(seq, e)) = Elements(seq) \cup {e}
         /\ Once(seq) /\ e \notin Elements(seq) => Once(Append(seq, e))
<1>1. /\ Append(seq, e) \in Seq(S) /\ Len(Append(seq, e)) = Len(seq) + 1
      /\ \A i \in 1..Len(seq) : Append(seq, e)[i] = seq[i]
      /\ Append(seq, e)[Len(seq) + 1] = e /\ Len(seq) \in Nat
  OBVIOUS
<1> QED
  BY <1>1 DEF Elements, Once

LEMMA ConcatOnce ==
  ASSUME NEW S, NEW a \in Seq(S), NEW b \in Seq(S)
  PROVE  /\ a \o b \in Seq(S)
         /\ Elements(a \o b) = Elements(a) \cup Elements(b)
         /\ Once(a) /\ Once(b) /\ Elements(a) \cap Elements(b) = {} => Once(a \o b)
<1>1. /\ a \o b \in Seq(S) /\ Len(a \o b) = Len(a) + Len(b)
      /\ \A i \in 1..Len(a \o b) : (a \o b)[i] = IF i <= Len(a) THEN a[i] ELSE b[i - Len(a)]
      /\ Len(a) \in Nat /\ Len(b) \in Nat
  OBVIOUS
<1>2. Elements(a \o b) \subseteq Elements(a) \cup Elements(b)
  <2> SUFFICES ASSUME NEW i \in 1..Len(a \o b)
               PROVE  (a \o b)[i] \in Elements(a) \cup Elements(b)
    BY DEF Elements
  <2>1. CASE i <= Len(a)
    BY <1>1, <2>1 DEF Elements
  <2>2. CASE i > Len(a)
    <3>1. i - Len(a) \in 1..Len(b) /\ (a \o b)[i] = b[i - Len(a)]
      BY <1>1, <2>2
    <3> QED
      BY <3>1 DEF Elements
  <2> QED
    BY <1>1, <2>1, <2>2
<1>3. Elements(a) \subseteq Elements(a \o b)
  BY <1>1 DEF Elements
<1>4. Elements(b) \subseteq Elements(a \o b)
  <2> SUFFICES ASSUME NEW i \in 1..Len(b) PROVE b[i] \in Elements(a \o b)
    BY DEF Elements
  <2>1. Len(a) + i \in 1..Len(a \o b) /\ (a \o b)[Len(a) + i] = b[i]
    BY <1>1
  <2> QED
    BY <2>1 DEF Elements
<1>5. ASSUME Once(a), Once(b), Elements(a) \cap Elements(b) = {},
             NEW i \in 1..Len(a \o b), NEW j \in 1..Len(a \o b), (a \o b)[i] = (a \o b)[j]
      PROVE  i = j
  <2>1. ASSUME NEW x \in 1..Len(a), NEW y \in 1..Len(b) PROVE a[x] # b[y]
    BY <1>5 DEF Elements
  <2>2. CASE i <= Len(a) /\ j <= Len(a)
    BY <1>1, <1>5, <2>2 DEF Once
  <2>3. CASE i > Len(a) /\ j > Len(a)
    <3>1. i - Len(a) \in 1..Len(b) /\ j - Len(a) \in 1..Len(b)
      BY <1>1, <2>3
    <3>2. b[i - Len(a)] = b[j - Len(a)]
      BY <1>1, <1>5, <2>3
    <3>3. i - Len(a) = j - Len(a)
      BY <1>5, <3>1, <3>2 DEF Once
    <3> QED
      BY <1>1, <3>3
  <2>4. CASE i <= Len(a) /\ j > Len(a)
    <3>1. i \in 1..Len(a) /\ j - Len(a) \in 1..Len(b)
      BY <1>1, <2>4
    <3> QED
      BY <1>1, <1>5, <2>1, <2>4, <3>1
  <2>5. CASE i > Len(a) /\ j <= Len(a)
    <3>1. j \in 1..Len(a) /\ i - Len(a) \in 1..Len(b)
      BY <1>1, <2>5
    <3> QED
      BY <1>1, <1>5, <2>1, <2>5, <3>1
  <2> QED
    BY <1>1, <2>2, <2>3, <2>4, <2>5
<1> QED
  BY <1>1, <1>2, <1>3, <1>4, <1>5 DEF Once

LEMMA TailOnce ==
  ASSUME NEW S, NEW seq \in Seq(S), seq # << >>
  PROVE  /\ Tail(seq) \in Seq(S) /\ Head(seq) \in S
         /\ Elements(seq) = Elements(Tail(seq)) \cup {Head(seq)}
         /\ Once(seq) => Once(Tail(seq)) /\ Head(seq) \notin Elements(Tail(seq))
<1>1. /\ Tail(seq) \in Seq(S) /\ Head(seq) = seq[1] /\ Len(seq) \in Nat /\ Len(seq) > 0
      /\ Len(Tail(seq)) = Len(seq) - 1 /\ Head(seq) \in S
      /\ \A i \in 1..Len(Tail(seq)) : Tail(seq)[i] = seq[i + 1]
  OBVIOUS
<1>2. Elements(seq) \subseteq Elements(Tail(seq)) \cup {Head(seq)}
  <2> SUFFICES ASSUME NEW i \in 1..Len(seq), i # 1 PROVE seq[i] \in Elements(Tail(seq))
    BY <1>1 DEF Elements
  <2>1. i - 1 \in 1..Len(Tail(seq)) /\ Tail(seq)[i - 1] = seq[i]
    BY <1>1
  <2> QED
    BY <2>1 DEF Elements
<1>3. Elements(Tail(seq)) \cup {Head(seq)} \subseteq Elements(seq)
  <2>1. \A i \in 1..Len(Tail(seq)) : i + 1 \in 1..Len(seq)
    BY <1>1
  <2> QED
    BY <1>1, <2>1 DEF Elements
<1>4. ASSUME Once(seq) PROVE Once(Tail(seq)) /\ Head(seq) \notin Elements(Tail(seq))
  <2>1. \A i \in 1..Len(Tail(seq)) : i + 1 \in 1..Len(seq) /\ i + 1 # 1
    BY <1>1
  <2>2. ASSUME NEW i \in 1..Len(Tail(seq)), NEW j \in 1..Len(Tail(seq)),
               Tail(seq)[i] = Tail(seq)[j]
        PROVE  i = j
    <3>1. i + 1 = j + 1
      BY <1>1, <1>4, <2>1, <2>2 DEF Once
    <3> QED
      BY <3>1
  <2>3. ASSUME NEW i \in 1..Len(Tail(seq)) PROVE Tail(seq)[i] # Head(seq)
    BY <1>1, <1>4, <2>1 DEF Once
  <2> QED
    BY <2>2, <2>3 DEF Once, Elements
<1> QED
  BY <1>1, <1>2, <1>3, <1>4

-----------------------------------------------------------------------------
(* The list comprehension.                                                 *)

\* A function is the comprehension over the first m tasks.
Picks(chosen, f, m) ==
  f = [i \in 0..m |-> IF i = 0 THEN << >>
                      ELSE IF chosen[i] THEN Append(f[i - 1], i)
                      ELSE f[i - 1]]

LEMMA PicksExists ==
  ASSUME NEW n \in Nat, NEW chosen
  PROVE  \E f : Picks(chosen, f, n)
<1> DEFINE T == {m \in Nat : ~ \E f : Picks(chosen, f, m)}
<1> SUFFICES ASSUME T # {} PROVE FALSE
  OBVIOUS
<1>1. PICK m \in T : \A k \in T : m <= k
  <2> HIDE DEF T
  <2>1. T \subseteq Nat
    BY DEF T
  <2> QED
    BY <2>1, LeastFailure
<1>2. CASE m = 0
  <2>1. Picks(chosen, [i \in 0..0 |-> << >>], 0)
    BY DEF Picks
  <2> QED
    BY <1>2, <2>1
<1>3. CASE m > 0
  <2>1. m - 1 \in Nat /\ m - 1 \notin T
    BY <1>1, <1>3
  <2>2. PICK f : Picks(chosen, f, m - 1)
    BY <2>1
  <2> DEFINE last == IF chosen[m] THEN Append(f[m - 1], m) ELSE f[m - 1]
             g == [i \in 0..m |-> IF i = m THEN last ELSE f[i]]
  <2>3. \A i \in 0..m : i # m => g[i] = f[i] /\ i \in 0..(m - 1)
    BY <1>1
  <2>4. ASSUME NEW i \in 0..m
        PROVE  g[i] = IF i = 0 THEN << >>
                      ELSE IF chosen[i] THEN Append(g[i - 1], i) ELSE g[i - 1]
    <3>1. i # 0 => i - 1 \in 0..m /\ g[i - 1] = f[i - 1]
      BY <2>3
    <3>2. CASE i = m
      BY <1>3, <3>1, <3>2
    <3>3. CASE i # m
      <4>1. f[i] = IF i = 0 THEN << >>
                   ELSE IF chosen[i] THEN Append(f[i - 1], i) ELSE f[i - 1]
        BY <2>2, <2>3, <3>3 DEF Picks
      <4> QED
        BY <2>3, <3>1, <3>3, <4>1
    <3> QED
      BY <3>2, <3>3
  <2>5. Picks(chosen, g, m)
    <3>1. g = [i \in 0..m |-> g[i]]
      OBVIOUS
    <3> HIDE DEF g
    <3> QED
      BY <2>4, <3>1 DEF Picks
  <2> QED
    BY <1>1, <2>5
<1> QED
  BY <1>1, <1>2, <1>3

\* It has the chosen tasks, each once.
LEMMA InOrderIs ==
  ASSUME NEW n \in Nat, NEW chosen
  PROVE  /\ InOrder(n, chosen) \in Seq(1..n)
         /\ Elements(InOrder(n, chosen)) = {t \in 1..n : chosen[t]}
         /\ Once(InOrder(n, chosen))
<1> DEFINE f == CHOOSE g : Picks(chosen, g, n)
<1>1. Picks(chosen, f, n)
  BY PicksExists
<1>2. InOrder(n, chosen) = f[n]
  BY DEF InOrder, Picks
<1> HIDE DEF f
<1> DEFINE Good(i) == /\ f[i] \in Seq(1..n)
                      /\ Elements(f[i]) = {t \in 1..i : chosen[t]}
                      /\ Once(f[i])
           T == {i \in 0..n : ~ Good(i)}
<1>3. Good(0)
  <2>1. f[0] = << >>
    BY <1>1 DEF Picks
  <2> QED
    BY <2>1 DEF Elements, Once
<1>4. ASSUME NEW i \in 1..n, Good(i - 1) PROVE Good(i)
  <2>1. f[i] = IF chosen[i] THEN Append(f[i - 1], i) ELSE f[i - 1]
    <3>1. i \in 0..n /\ i # 0
      OBVIOUS
    <3> QED
      BY <1>1, <3>1 DEF Picks
  <2>2. {t \in 1..i : chosen[t]} =
          IF chosen[i] THEN {t \in 1..(i - 1) : chosen[t]} \cup {i}
                       ELSE {t \in 1..(i - 1) : chosen[t]}
    OBVIOUS
  <2>3. i \notin Elements(f[i - 1])
    BY <1>4
  <2>4. CASE chosen[i]
    <3>1. /\ Append(f[i - 1], i) \in Seq(1..n)
          /\ Elements(Append(f[i - 1], i)) = Elements(f[i - 1]) \cup {i}
          /\ Once(Append(f[i - 1], i))
      BY <1>4, <2>3, AppendOnce
    <3> QED
      BY <1>4, <2>1, <2>2, <2>4, <3>1
  <2>5. CASE ~ chosen[i]
    BY <1>4, <2>1, <2>2, <2>5
  <2> QED
    BY <2>4, <2>5
<1>5. T = {}
  <2> SUFFICES ASSUME T # {} PROVE FALSE
    OBVIOUS
  <2>1. PICK m \in T : \A k \in T : m <= k
    <3>1. T \subseteq Nat
      OBVIOUS
    <3> HIDE DEF T
    <3> QED
      BY <3>1, LeastFailure
  <2>2. m \in 1..n /\ m - 1 \in 0..n /\ m - 1 \notin T
    BY <1>3, <2>1
  <2> QED
    BY <1>4, <2>1, <2>2
<1>6. Good(n)
  BY <1>5
<1> QED
  BY <1>2, <1>6

-----------------------------------------------------------------------------
(* One round.                                                              *)

Finite(n, up) == \A t \in 1..n : IsFiniteSet(up[t])

\* What the loop keeps: nothing is done before its upstream tasks or twice, the
\* in-degrees count what is not done, and the queue has what only waits for its turn.
LoopInv(n, up, k) ==
  LET done == Elements(k.ordered)
  IN /\ k.ordered \in Seq(1..n) /\ Once(k.ordered)
     /\ \A i \in 1..Len(k.ordered) : up[k.ordered[i]] \subseteq {k.ordered[j] : j \in 1..(i - 1)}
     /\ k.degree = [t \in 1..n |-> Cardinality(up[t] \ done)]
     /\ k.ready \in Seq(1..n) /\ Once(k.ready)
     /\ Elements(k.ready) = {t \in 1..n : up[t] \subseteq done} \ done

LEMMA Waiting ==
  ASSUME NEW S, IsFiniteSet(S), NEW D
  PROVE  Cardinality(S \ D) \in Nat /\ (Cardinality(S \ D) = 0 <=> S \subseteq D)
<1>1. IsFiniteSet(S \ D)
  BY FS_Difference
<1>2. Cardinality(S \ D) \in Nat /\ (Cardinality(S \ D) = 0 <=> S \ D = {})
  BY <1>1, FS_CardinalityType, FS_EmptySet
<1> QED
  BY <1>2

LEMMA StartGood ==
  ASSUME NEW n \in Nat, NEW up, Finite(n, up)
  PROVE  LoopInv(n, up, KahnStart(n, up))
<1> DEFINE k == KahnStart(n, up)
           degree == [t \in 1..n |-> Cardinality(up[t])]
           free == [t \in 1..n |-> degree[t] = 0]
<1>1. k.ordered = << >> /\ k.degree = degree /\ k.ready = InOrder(n, free)
  BY DEF KahnStart
<1>2. k.ordered \in Seq(1..n) /\ Elements(k.ordered) = {} /\ Len(k.ordered) = 0
  BY <1>1 DEF Elements
<1>3. ASSUME NEW t \in 1..n
      PROVE  Cardinality(up[t]) = Cardinality(up[t] \ {}) /\ (free[t] <=> up[t] \subseteq {})
  <2>1. up[t] \ {} = up[t] /\ IsFiniteSet(up[t])
    BY DEF Finite
  <2>2. free[t] <=> Cardinality(up[t]) = 0
    OBVIOUS
  <2>3. Cardinality(up[t]) = 0 <=> up[t] \subseteq {}
    <3>1. Cardinality(up[t]) = 0 <=> up[t] = {}
      BY <2>1, FS_EmptySet
    <3> QED
      BY <3>1
  <2>4. free[t] <=> up[t] \subseteq {}
    BY <2>2, <2>3, Zenon
  <2>5. Cardinality(up[t]) = Cardinality(up[t] \ {})
    BY <2>1, Zenon
  <2> HIDE DEF degree, free
  <2> QED
    BY <2>4, <2>5, Zenon
<1>4. k.degree = [t \in 1..n |-> Cardinality(up[t] \ Elements(k.ordered))]
  <2>1. degree = [t \in 1..n |-> Cardinality(up[t] \ {})]
    <3>1. \A t \in 1..n : Cardinality(up[t]) = Cardinality(up[t] \ {})
      BY <1>3
    <3> HIDE DEF k, free
    <3> QED
      BY <3>1, Zenon
  <2> HIDE DEF degree, k, free
  <2> QED
    BY <1>1, <1>2, <2>1
<1>5. Elements(k.ready) = {t \in 1..n : up[t] \subseteq Elements(k.ordered)} \ Elements(k.ordered)
  <2>1. Elements(k.ready) = {t \in 1..n : free[t]}
    BY <1>1, InOrderIs
  <2> QED
    BY <1>2, <1>3, <2>1
<1>6. k.ready \in Seq(1..n) /\ Once(k.ready)
  BY <1>1, InOrderIs
<1>7. 1..Len(k.ordered) = {}
  BY <1>2
<1> HIDE DEF k
<1>8. Once(k.ordered)
  BY <1>7 DEF Once
<1>9. \A i \in 1..Len(k.ordered) : up[k.ordered[i]] \subseteq {k.ordered[j] : j \in 1..(i - 1)}
  BY <1>7
<1>10. LoopInv(n, up, k)
  BY <1>2, <1>4, <1>5, <1>6, <1>8, <1>9 DEF LoopInv
<1> QED
  BY <1>10 DEF k

LEMMA StepGood ==
  ASSUME NEW n \in Nat, NEW up, Finite(n, up), NEW k, LoopInv(n, up, k)
  PROVE  /\ LoopInv(n, up, KahnStep(n, up, k))
         /\ IF k.ready = << >> THEN KahnStep(n, up, k) = k
            ELSE Len(KahnStep(n, up, k).ordered) = Len(k.ordered) + 1
<1>1. CASE k.ready = << >>
  BY <1>1 DEF KahnStep
<1>2. CASE k.ready # << >>
  <2> DEFINE new == KahnStep(n, up, k)
             current == Head(k.ready)
             degree == Lowered(n, up, k.degree, current)
             freed == [t \in 1..n |-> current \in up[t] /\ degree[t] = 0]
             done == Elements(k.ordered)
             next == done \cup {current}
  <2>1. /\ new.ready = Tail(k.ready) \o InOrder(n, freed)
        /\ new.degree = degree
        /\ new.ordered = Append(k.ordered, current)
    BY <1>2 DEF KahnStep
  <2>2. /\ k.ordered \in Seq(1..n) /\ Once(k.ordered)
        /\ \A i \in 1..Len(k.ordered) : up[k.ordered[i]] \subseteq {k.ordered[j] : j \in 1..(i - 1)}
        /\ k.degree = [t \in 1..n |-> Cardinality(up[t] \ done)]
        /\ k.ready \in Seq(1..n) /\ Once(k.ready)
        /\ Elements(k.ready) = {t \in 1..n : up[t] \subseteq done} \ done
    BY DEF LoopInv
  <2>3. /\ current \in 1..n /\ Tail(k.ready) \in Seq(1..n) /\ Once(Tail(k.ready))
        /\ Elements(k.ready) = Elements(Tail(k.ready)) \cup {current}
        /\ current \notin Elements(Tail(k.ready))
    BY <1>2, <2>2, TailOnce
  <2>4. current \notin done /\ up[current] \subseteq done
    BY <2>2, <2>3
  <2>5. ASSUME NEW t \in 1..n
        PROVE  /\ degree[t] = Cardinality(up[t] \ next)
               /\ degree[t] = 0 <=> up[t] \subseteq next
    <3>1. IsFiniteSet(up[t]) /\ IsFiniteSet(up[t] \ done)
      BY FS_Difference DEF Finite
    <3>2. degree[t] = IF current \in up[t] THEN Cardinality(up[t] \ done) - 1
                                           ELSE Cardinality(up[t] \ done)
      BY <2>2 DEF Lowered
    <3>3. /\ up[t] \ next = (up[t] \ done) \ {current}
          /\ current \in up[t] <=> current \in up[t] \ done
      BY <2>4
    <3>4. Cardinality((up[t] \ done) \ {current}) = degree[t]
      BY <3>1, <3>2, <3>3, FS_RemoveElement
    <3>5. Cardinality(up[t] \ next) = 0 <=> up[t] \subseteq next
      BY <3>1, Waiting
    <3> QED
      BY <3>3, <3>4, <3>5
  <2>6. /\ InOrder(n, freed) \in Seq(1..n) /\ Once(InOrder(n, freed))
        /\ Elements(InOrder(n, freed)) = {t \in 1..n : current \in up[t] /\ up[t] \subseteq next}
    <3>1. {t \in 1..n : freed[t]} = {t \in 1..n : current \in up[t] /\ up[t] \subseteq next}
      BY <2>5
    <3> HIDE DEF freed
    <3> QED
      BY <3>1, InOrderIs
  <2>7. \A t \in done : up[t] \subseteq done
    <3> SUFFICES ASSUME NEW i \in 1..Len(k.ordered) PROVE up[k.ordered[i]] \subseteq done
      BY DEF Elements
    <3>1. 1..(i - 1) \subseteq 1..Len(k.ordered)
      BY <2>2
    <3>2. {k.ordered[j] : j \in 1..(i - 1)} \subseteq done
      BY <3>1 DEF Elements
    <3> QED
      BY <2>2, <3>2
  <2> HIDE DEF degree, freed
  <2>8. /\ new.ordered \in Seq(1..n) /\ Once(new.ordered) /\ Elements(new.ordered) = next
        /\ Len(new.ordered) = Len(k.ordered) + 1
        /\ \A i \in 1..Len(k.ordered) : new.ordered[i] = k.ordered[i]
        /\ new.ordered[Len(k.ordered) + 1] = current
    BY <2>1, <2>2, <2>3, <2>4, AppendOnce
  <2>9. ASSUME NEW i \in 1..Len(new.ordered)
        PROVE  up[new.ordered[i]] \subseteq {new.ordered[j] : j \in 1..(i - 1)}
    <3>1. Len(k.ordered) \in Nat /\ 1..(i - 1) \subseteq 1..Len(k.ordered)
      BY <2>2, <2>8
    <3>2. {new.ordered[j] : j \in 1..(i - 1)} = {k.ordered[j] : j \in 1..(i - 1)}
      BY <2>8, <3>1
    <3>3. CASE i \in 1..Len(k.ordered)
      BY <2>2, <2>8, <3>2, <3>3
    <3>4. CASE i = Len(k.ordered) + 1
      <4>1. {k.ordered[j] : j \in 1..(i - 1)} = done
        BY <3>1, <3>4 DEF Elements
      <4> QED
        BY <2>4, <2>8, <3>2, <3>4, <4>1
    <3>5. Len(new.ordered) = Len(k.ordered) + 1 /\ Len(k.ordered) \in Nat
      BY <2>8, <3>1
    <3>6. i \in 1..(Len(k.ordered) + 1)
      BY <2>9, <3>5
    <3>7. i \in 1..Len(k.ordered) \/ i = Len(k.ordered) + 1
      BY <3>5, <3>6
    <3> HIDE DEF new, next
    <3> QED
      BY <3>3, <3>4, <3>7
  <2>10. /\ new.ready \in Seq(1..n)
         /\ Elements(new.ready) = Elements(Tail(k.ready)) \cup Elements(InOrder(n, freed))
         /\ Once(new.ready)
    <3>1. Elements(Tail(k.ready)) \cap Elements(InOrder(n, freed)) = {}
      BY <2>2, <2>3, <2>4, <2>6
    <3> QED
      BY <2>1, <2>3, <2>6, <3>1, ConcatOnce
  <2>11. Elements(new.ready) = {t \in 1..n : up[t] \subseteq next} \ next
    BY <2>2, <2>3, <2>4, <2>6, <2>7, <2>10
  <2>12. new.degree = [t \in 1..n |-> Cardinality(up[t] \ next)]
    <3>1. degree = [t \in 1..n |-> degree[t]]
      BY DEF degree, Lowered
    <3> QED
      BY <2>1, <2>5, <3>1
  <2> HIDE DEF new, next
  <2>13. LoopInv(n, up, new)
    BY <2>8, <2>9, <2>10, <2>11, <2>12 DEF LoopInv
  <2> QED
    BY <1>2, <2>8, <2>13 DEF new
<1> QED
  BY <1>1, <1>2

-----------------------------------------------------------------------------
(* All rounds.                                                             *)

\* A function has the states of the loop over m rounds.
Rounds(n, up, f, m) ==
  f = [i \in 0..m |-> IF i = 0 THEN KahnStart(n, up) ELSE KahnStep(n, up, f[i - 1])]

LEMMA RoundsExist ==
  ASSUME NEW n \in Nat, NEW up
  PROVE  \E f : Rounds(n, up, f, n)
<1> DEFINE T == {m \in Nat : ~ \E f : Rounds(n, up, f, m)}
<1> SUFFICES ASSUME T # {} PROVE FALSE
  OBVIOUS
<1>1. PICK m \in T : \A k \in T : m <= k
  <2> HIDE DEF T
  <2>1. T \subseteq Nat
    BY DEF T
  <2> QED
    BY <2>1, LeastFailure
<1>2. CASE m = 0
  <2>1. Rounds(n, up, [i \in 0..0 |-> KahnStart(n, up)], 0)
    BY DEF Rounds
  <2> QED
    BY <1>2, <2>1
<1>3. CASE m > 0
  <2>1. m - 1 \in Nat /\ m - 1 \notin T
    BY <1>1, <1>3
  <2>2. PICK f : Rounds(n, up, f, m - 1)
    BY <2>1
  <2> DEFINE g == [i \in 0..m |-> IF i = m THEN KahnStep(n, up, f[m - 1]) ELSE f[i]]
  <2>3. \A i \in 0..m : i # m => g[i] = f[i] /\ i \in 0..(m - 1)
    BY <1>1
  <2>4. ASSUME NEW i \in 0..m
        PROVE  g[i] = IF i = 0 THEN KahnStart(n, up) ELSE KahnStep(n, up, g[i - 1])
    <3>1. i # 0 => i - 1 \in 0..m /\ g[i - 1] = f[i - 1]
      BY <2>3
    <3>2. CASE i = m
      BY <1>3, <3>1, <3>2
    <3>3. CASE i # m
      <4>1. f[i] = IF i = 0 THEN KahnStart(n, up) ELSE KahnStep(n, up, f[i - 1])
        BY <2>2, <2>3, <3>3 DEF Rounds
      <4> QED
        BY <2>3, <3>1, <3>3, <4>1
    <3> QED
      BY <3>2, <3>3
  <2>5. Rounds(n, up, g, m)
    <3>1. g = [i \in 0..m |-> g[i]]
      OBVIOUS
    <3> HIDE DEF g
    <3> QED
      BY <2>4, <3>1 DEF Rounds
  <2> QED
    BY <1>1, <2>5
<1> QED
  BY <1>1, <1>2, <1>3

\* After n rounds everything is done, or nothing is left in the queue.
LEMMA AfterAllRounds ==
  ASSUME NEW n \in Nat, NEW up, Finite(n, up)
  PROVE  \E k : /\ LoopInv(n, up, k) /\ TopologicalOrder(n, up) = k.ordered
                /\ Len(k.ordered) = n \/ k.ready = << >>
<1> DEFINE f == CHOOSE g : Rounds(n, up, g, n)
<1>1. Rounds(n, up, f, n)
  BY RoundsExist
<1>2. TopologicalOrder(n, up) = f[n].ordered
  BY DEF TopologicalOrder, Rounds
<1> HIDE DEF f
<1> DEFINE Good(i) == /\ LoopInv(n, up, f[i])
                      /\ Len(f[i].ordered) = i \/ f[i].ready = << >>
           T == {i \in 0..n : ~ Good(i)}
<1>3. Good(0)
  <2>1. f[0] = KahnStart(n, up)
    BY <1>1 DEF Rounds
  <2>2. f[0].ordered = << >>
    BY <2>1 DEF KahnStart
  <2> QED
    BY <2>1, <2>2, StartGood
<1>4. ASSUME NEW i \in 1..n, Good(i - 1) PROVE Good(i)
  <2>1. f[i] = KahnStep(n, up, f[i - 1])
    <3>1. i \in 0..n /\ i # 0
      OBVIOUS
    <3> QED
      BY <1>1, <3>1 DEF Rounds
  <2>2. LoopInv(n, up, f[i])
    BY <1>4, <2>1, StepGood
  <2>3. CASE f[i - 1].ready = << >>
    BY <1>4, <2>1, <2>2, <2>3, StepGood
  <2>4. CASE f[i - 1].ready # << >>
    <3>1. Len(f[i].ordered) = Len(f[i - 1].ordered) + 1
      BY <1>4, <2>1, <2>4, StepGood
    <3>2. Len(f[i - 1].ordered) = i - 1
      BY <1>4, <2>4
    <3> QED
      BY <2>2, <3>1, <3>2
  <2> QED
    BY <2>3, <2>4
<1>5. T = {}
  <2> SUFFICES ASSUME T # {} PROVE FALSE
    OBVIOUS
  <2>1. PICK m \in T : \A k \in T : m <= k
    <3>1. T \subseteq Nat
      OBVIOUS
    <3> HIDE DEF T
    <3> QED
      BY <3>1, LeastFailure
  <2>2. m \in 1..n /\ m - 1 \in 0..n /\ m - 1 \notin T
    BY <1>3, <2>1
  <2> QED
    BY <1>4, <2>1, <2>2
<1>6. Good(n)
  BY <1>5
<1> QED
  BY <1>2, <1>6

-----------------------------------------------------------------------------
\* A sequence without repetition has every task exactly if it has n elements.
LEMMA FullLength ==
  ASSUME NEW n \in Nat, NEW seq \in Seq(1..n), Once(seq)
  PROVE  Len(seq) = n <=> Elements(seq) = 1..n
<1>1. Len(seq) \in Nat /\ seq \in [1..Len(seq) -> Elements(seq)]
  BY DEF Elements
<1>2. seq \in Bijection(1..Len(seq), Elements(seq))
  <2>1. seq \in Injection(1..Len(seq), Elements(seq))
    <3>1. \A a, b \in 1..Len(seq) : seq[a] = seq[b] => a = b
      BY DEF Once
    <3> QED
      BY <1>1, <3>1 DEF Injection, IsInjective
  <2>2. \A t \in Elements(seq) : \E i \in 1..Len(seq) : seq[i] = t
    BY DEF Elements
  <2> QED
    BY <1>1, <2>1, <2>2 DEF Bijection, Surjection
<1>3. ASSUME NEW m \in Nat PROVE IsFiniteSet(1..m) /\ Cardinality(1..m) = m
  <2>1. 1 \in Int /\ m \in Int /\ (1 > m => m = 0)
    OBVIOUS
  <2> QED
    BY <2>1, FS_Interval
<1>4. Cardinality(Elements(seq)) = Len(seq)
  BY <1>1, <1>2, <1>3, FS_Bijection DEF ExistsBijection
<1>5. Elements(seq) \in SUBSET (1..n)
  BY DEF Elements
<1> QED
  BY <1>3, <1>4, <1>5, FS_Subset

\* The order of a list that is not refused has every task once, after all of its
\* upstream tasks; execute_dag delegates the tasks in this order.
THEOREM OrderIsSound ==
  ASSUME NEW n \in Nat, NEW up, Finite(n, up), ~ IsCyclic(n, up)
  PROVE  /\ TopologicalOrder(n, up) \in [1..n -> 1..n] /\ Once(TopologicalOrder(n, up))
         /\ UpstreamFirst(n, up, TopologicalOrder(n, up))
<1> DEFINE order == TopologicalOrder(n, up)
<1>1. /\ order \in Seq(1..n) /\ Once(order) /\ Len(order) = n
      /\ \A i \in 1..Len(order) : up[order[i]] \subseteq {order[j] : j \in 1..(i - 1)}
  <2>1. PICK k : LoopInv(n, up, k) /\ order = k.ordered
    BY AfterAllRounds
  <2>2. k.ordered \in Seq(1..n) /\ Once(k.ordered)
        /\ \A i \in 1..Len(k.ordered) : up[k.ordered[i]] \subseteq {k.ordered[j] : j \in 1..(i - 1)}
    BY <2>1 DEF LoopInv
  <2>3. Len(order) = n
    BY DEF IsCyclic
  <2> HIDE DEF order
  <2> QED
    BY <2>1, <2>2, <2>3
<1>2. Elements(order) = 1..n
  BY <1>1, FullLength
<1>3. order \in [1..n -> 1..n] /\ DOMAIN order = 1..n
  BY <1>1
<1> HIDE DEF order
<1>4. UpstreamFirst(n, up, order)
  BY <1>1, <1>2, <1>3 DEF UpstreamFirst, Elements
<1> QED
  BY <1>1, <1>3, <1>4 DEF order

\* A list is refused only for a reason: CyclicDependencyError is raised when tasks
\* wait for one another, or for a task that the list lacks.
THEOREM RefusalIsSound ==
  ASSUME NEW n \in Nat, NEW up, Finite(n, up), IsCyclic(n, up)
  PROVE  Stuck(n, up)
<1>1. PICK k : /\ LoopInv(n, up, k) /\ TopologicalOrder(n, up) = k.ordered
               /\ Len(k.ordered) = n \/ k.ready = << >>
  BY AfterAllRounds
<1> DEFINE done == Elements(k.ordered)
           left == (1..n) \ done
<1>2. k.ready = << >> /\ k.ordered \in Seq(1..n) /\ Once(k.ordered) /\ Len(k.ordered) # n
  BY <1>1 DEF IsCyclic, LoopInv
<1>3. done # 1..n /\ done \subseteq 1..n
  <2>1. done # 1..n
    BY <1>2, FullLength
  <2>2. done \subseteq 1..n
    BY <1>2 DEF Elements
  <2> QED
    BY <2>1, <2>2
<1>4. {t \in 1..n : up[t] \subseteq done} \subseteq done
  <2>1. Elements(k.ready) = {t \in 1..n : up[t] \subseteq done} \ done
    BY <1>1 DEF LoopInv
  <2>2. Elements(k.ready) = {}
    BY <1>2 DEF Elements
  <2> QED
    BY <2>1, <2>2
<1> SUFFICES ASSUME \A t \in 1..n : up[t] \subseteq 1..n
             PROVE  \E S \in SUBSET (1..n) : S # {} /\ \A t \in S : up[t] \cap S # {}
  BY DEF Stuck
<1>5. left \in SUBSET (1..n) /\ left # {}
  BY <1>3
<1>6. \A t \in left : up[t] \cap left # {}
  BY <1>4
<1> QED
  BY <1>5, <1>6

=============================================================================
