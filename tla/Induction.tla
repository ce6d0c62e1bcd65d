------------------------------- MODULE Induction -------------------------------
(***************************************************************************)
(* Induction over natural numbers in a form that speaks of sets, and what  *)
(* follows for folds of a sequence whose step is a function.  The provers  *)
(* cannot instantiate the operators of the library's induction theorems; a *)
(* set they can.                                                           *)
(***************************************************************************)
EXTENDS Integers, Sequences, WellFoundedInduction, TLAPS

Less == {p \in Nat \X Nat : p[1] < p[2]}

LEMMA LessIsWellFounded == IsWellFoundedOn(Less, Nat)
  BY NatLessThanWellFounded DEF OpToRel, Less

\* A set of naturals with 0 and with every successor has them all.
THEOREM SetInduction ==
  ASSUME NEW S, 0 \in S, \A n \in Nat : n \in S => n + 1 \in S
  PROVE  \A n \in Nat : n \in S
<1> DEFINE T == Nat \ S
<1>1. T \subseteq Nat
  OBVIOUS
<1> SUFFICES ASSUME T # {} PROVE FALSE
  OBVIOUS
<1> HIDE DEF T
<1>2. PICK m \in T : \A y \in T : ~ (<<y, m>> \in Less)
  BY <1>1, LessIsWellFounded, WFMin
<1>3. m \in Nat /\ m # 0
  BY <1>1, <1>2 DEF T
<1>4. m - 1 \in Nat /\ <<m - 1, m>> \in Less
  BY <1>3 DEF Less
<1>5. m - 1 \in S
  BY <1>2, <1>4 DEF T
<1>6. m - 1 + 1 \in S
  BY <1>4, <1>5
<1>7. m - 1 + 1 = m
  BY <1>3
<1> QED BY <1>6, <1>7 DEF T

-----------------------------------------------------------------------------
(* Runs: the values a fold goes through, from the base to the last element.  *)

IsRun(f, step, base, s, n) ==
    f = [i \in 0..n |-> IF i = 0 THEN base ELSE step[<<f[i - 1], s[i]>>]]

LEMMA RunValues ==
  ASSUME NEW f, NEW step, NEW base, NEW s, NEW n \in Nat, IsRun(f, step, base, s, n)
  PROVE  /\ f[0] = base
         /\ \A i \in Nat : i + 1 <= n => f[i + 1] = step[<<f[i], s[i + 1]>>]
<1>1. \A i \in 0..n : f[i] = IF i = 0 THEN base ELSE step[<<f[i - 1], s[i]>>]
  BY DEF IsRun
<1>2. f[0] = base
  <2>1. 0 \in 0..n
    OBVIOUS
  <2> QED BY <1>1, <2>1
<1>3. ASSUME NEW i \in Nat, i + 1 <= n PROVE f[i + 1] = step[<<f[i], s[i + 1]>>]
  <2>1. i + 1 \in 0..n /\ i + 1 # 0 /\ i + 1 - 1 = i
    BY <1>3
  <2>2. f[i + 1] = step[<<f[i + 1 - 1], s[i + 1]>>]
    BY <1>1, <2>1
  <2> QED BY <2>1, <2>2
<1> QED BY <1>2, <1>3

LEMMA RunFrom ==
  ASSUME NEW step, NEW base, NEW s, NEW n \in Nat, NEW f, f = [i \in 0..n |-> f[i]],
         f[0] = base, \A i \in Nat : i + 1 <= n => f[i + 1] = step[<<f[i], s[i + 1]>>]
  PROVE  IsRun(f, step, base, s, n)
<1>1. ASSUME NEW i \in 0..n
      PROVE  f[i] = IF i = 0 THEN base ELSE step[<<f[i - 1], s[i]>>]
  <2>1. CASE i # 0
    <3>1. i - 1 \in Nat /\ i - 1 + 1 = i /\ i <= n
      BY <2>1
    <3>2. f[i - 1 + 1] = step[<<f[i - 1], s[i - 1 + 1]>>]
      BY <3>1
    <3> QED BY <3>1, <3>2, <2>1
  <2> QED BY <2>1
<1> QED BY <1>1 DEF IsRun

LEMMA RunExists ==
  ASSUME NEW step, NEW base, NEW s
  PROVE  \A n \in Nat : \E f : IsRun(f, step, base, s, n)
<1> DEFINE S == {n \in Nat : \E f : IsRun(f, step, base, s, n)}
<1>1. 0 \in S
  <2>1. IsRun([i \in 0..0 |-> base], step, base, s, 0)
    BY DEF IsRun
  <2> QED BY <2>1
<1>2. ASSUME NEW n \in Nat, n \in S PROVE n + 1 \in S
  <2>1. PICK f : IsRun(f, step, base, s, n)
    BY <1>2
  <2> DEFINE g == [i \in 0..(n + 1) |-> IF i = n + 1 THEN step[<<f[n], s[n + 1]>>] ELSE f[i]]
  <2>2. f[0] = base /\ \A i \in Nat : i + 1 <= n => f[i + 1] = step[<<f[i], s[i + 1]>>]
    BY <2>1, RunValues
  <2>3. n + 1 \in Nat /\ g[0] = base
    BY <2>2
  <2>4. ASSUME NEW i \in Nat, i + 1 <= n + 1 PROVE g[i + 1] = step[<<g[i], s[i + 1]>>]
    <3>1. g[i] = f[i]
      BY <2>4
    <3>2. CASE i = n
      <4>1. n + 1 \in 0..(n + 1) /\ g[n + 1] = step[<<f[n], s[n + 1]>>]
        OBVIOUS
      <4> HIDE DEF g
      <4> QED BY <3>1, <3>2, <4>1
    <3>3. CASE i # n
      <4>1. i + 1 <= n /\ i + 1 \in 0..(n + 1) /\ i + 1 # n + 1
        BY <2>4, <3>3
      <4>2. g[i + 1] = f[i + 1]
        BY <4>1
      <4> QED BY <2>2, <3>1, <4>1, <4>2
    <3> QED BY <3>2, <3>3
  <2>5. g = [i \in 0..(n + 1) |-> g[i]]
    OBVIOUS
  <2> HIDE DEF g
  <2>6. IsRun(g, step, base, s, n + 1)
    BY <2>3, <2>4, <2>5, RunFrom
  <2> QED BY <2>6
<1> HIDE DEF S
<1>3. \A n \in Nat : n \in S
  BY <1>1, <1>2, SetInduction
<1> QED BY <1>3 DEF S

\* Two runs agree as far as their sequences do.
LEMMA RunsAgree ==
  ASSUME NEW step, NEW base, NEW s, NEW t, NEW f, NEW g, NEW n \in Nat, NEW m \in Nat,
         NEW k \in Nat, k <= n, k <= m,
         IsRun(f, step, base, s, n), IsRun(g, step, base, t, m),
         \A i \in 1..k : s[i] = t[i]
  PROVE  \A i \in 0..k : f[i] = g[i]
<1> DEFINE S == {i \in Nat : i <= k => f[i] = g[i]}
<1>0. /\ f[0] = base /\ \A i \in Nat : i + 1 <= n => f[i + 1] = step[<<f[i], s[i + 1]>>]
      /\ g[0] = base /\ \A i \in Nat : i + 1 <= m => g[i + 1] = step[<<g[i], t[i + 1]>>]
  BY RunValues
<1>1. 0 \in S
  BY <1>0
<1>2. ASSUME NEW i \in Nat, i \in S PROVE i + 1 \in S
  <2> SUFFICES ASSUME i + 1 <= k PROVE f[i + 1] = g[i + 1]
    OBVIOUS
  <2>1. f[i] = g[i]
    BY <1>2
  <2>2. i + 1 <= n /\ i + 1 <= m /\ i + 1 \in 1..k
    OBVIOUS
  <2> QED BY <2>1, <2>2, <1>0
<1> HIDE DEF S
<1>3. \A i \in Nat : i \in S
  BY <1>1, <1>2, SetInduction
<1> QED BY <1>3 DEF S

LEMMA RunIsUnique ==
  ASSUME NEW step, NEW base, NEW s, NEW f, NEW g, NEW n \in Nat,
         IsRun(f, step, base, s, n), IsRun(g, step, base, s, n)
  PROVE  f[n] = g[n]
<1>1. n <= n /\ n \in 0..n /\ \A i \in 1..n : s[i] = s[i]
  OBVIOUS
<1>2. \A i \in 0..n : f[i] = g[i]
  BY <1>1, RunsAgree
<1> QED BY <1>1, <1>2

LEMMA RunTypes ==
  ASSUME NEW T, NEW E, NEW step, step \in [T \X E -> T], NEW base, base \in T,
         NEW s, NEW f, NEW n \in Nat, IsRun(f, step, base, s, n), \A i \in 1..n : s[i] \in E
  PROVE  \A i \in 0..n : f[i] \in T
<1> DEFINE S == {i \in Nat : i <= n => f[i] \in T}
<1>0. f[0] = base /\ \A i \in Nat : i + 1 <= n => f[i + 1] = step[<<f[i], s[i + 1]>>]
  BY RunValues
<1>1. 0 \in S
  BY <1>0
<1>2. ASSUME NEW i \in Nat, i \in S PROVE i + 1 \in S
  <2> SUFFICES ASSUME i + 1 <= n PROVE f[i + 1] \in T
    OBVIOUS
  <2>1. f[i] \in T
    BY <1>2
  <2>2. i + 1 <= n /\ i + 1 \in 1..n
    OBVIOUS
  <2>3. <<f[i], s[i + 1]>> \in T \X E
    BY <2>1, <2>2
  <2> QED BY <2>2, <2>3, <1>0
<1> HIDE DEF S
<1>3. \A i \in Nat : i \in S
  BY <1>1, <1>2, SetInduction
<1> QED BY <1>3 DEF S

-----------------------------------------------------------------------------
(* Folds.                                                                    *)

Run(step, base, s) == CHOOSE f : IsRun(f, step, base, s, Len(s))

Fold(step, base, s) == Run(step, base, s)[Len(s)]

LEMMA RunIsRun ==
  ASSUME NEW step, NEW base, NEW E, NEW s \in Seq(E)
  PROVE  IsRun(Run(step, base, s), step, base, s, Len(s))
<1>1. Len(s) \in Nat
  OBVIOUS
<1>2. \E f : IsRun(f, step, base, s, Len(s))
  BY <1>1, RunExists
<1> QED BY <1>2 DEF Run

\* The fold of no elements is the base.
THEOREM FoldEmpty ==
  ASSUME NEW step, NEW base
  PROVE  Fold(step, base, <<>>) = base
<1>1. <<>> \in Seq({}) /\ Len(<<>>) = 0
  OBVIOUS
<1>2. IsRun(Run(step, base, <<>>), step, base, <<>>, 0)
  BY <1>1, RunIsRun
<1> QED BY <1>1, <1>2 DEF Fold, IsRun

\* A step that stays in a set keeps the fold there, the base being in it.
THEOREM FoldTypes ==
  ASSUME NEW T, NEW E, NEW step \in [T \X E -> T], NEW base \in T, NEW s \in Seq(E)
  PROVE  Fold(step, base, s) \in T
<1>1. Len(s) \in Nat /\ Len(s) \in 0..Len(s) /\ \A i \in 1..Len(s) : s[i] \in E
  OBVIOUS
<1>2. IsRun(Run(step, base, s), step, base, s, Len(s))
  BY RunIsRun
<1> QED BY <1>1, <1>2, RunTypes DEF Fold

\* A fold is taken one element further by a step.
THEOREM FoldAppend ==
  ASSUME NEW step, NEW base, NEW E, NEW s \in Seq(E), NEW e \in E
  PROVE  Fold(step, base, Append(s, e)) = step[<<Fold(step, base, s), e>>]
<1> DEFINE t == Append(s, e)
           f == Run(step, base, s)
           g == Run(step, base, t)
           n == Len(s)
<1>1. /\ n \in Nat /\ t \in Seq(E) /\ Len(t) = n + 1 /\ t[n + 1] = e
      /\ \A i \in 1..n : s[i] = t[i]
  OBVIOUS
<1>2. IsRun(f, step, base, s, n) /\ IsRun(g, step, base, t, n + 1)
  BY <1>1, RunIsRun
<1> HIDE DEF t, f, g, n
<1>3. f[n] = g[n]
  <2>1. n \in Nat /\ n + 1 \in Nat /\ n <= n /\ n <= n + 1 /\ n \in 0..n
    BY <1>1
  <2>2. \A i \in 1..n : s[i] = t[i]
    BY <1>1
  <2>3. \A i \in 0..n : f[i] = g[i]
    BY <1>2, <2>1, <2>2, RunsAgree
  <2> QED BY <2>1, <2>3
<1>4. g[n + 1] = step[<<g[n], t[n + 1]>>]
  <2>1. n \in Nat /\ n + 1 \in Nat /\ n + 1 <= n + 1
    BY <1>1
  <2>2. \A i \in Nat : i + 1 <= n + 1 => g[i + 1] = step[<<g[i], t[i + 1]>>]
    BY <1>2, <2>1, RunValues
  <2> QED BY <2>1, <2>2
<1> QED BY <1>1, <1>3, <1>4 DEF Fold, t, f, g, n

Takes(g, T, E, step, base, s) ==
    /\ step \in [T \X E -> T] /\ base \in T /\ s \in Seq(E)
    /\ g = [i \in 0..Len(s) |-> g[i]] /\ g[0] = base
    /\ \A i \in Nat : i + 1 <= Len(s) /\ g[i] \in T => g[i + 1] = step[<<g[i], s[i + 1]>>]

\* A function that takes the steps, as long as its values are of their domain, ends
\* with the fold: what a recursive function over the prefixes of a sequence computes.
THEOREM FoldFollowed ==
  ASSUME NEW T, NEW E, NEW step, NEW base, NEW s, NEW g, Takes(g, T, E, step, base, s)
  PROVE  g[Len(s)] = Fold(step, base, s)
<1> DEFINE n == Len(s)
           f == Run(step, base, s)
           S == {i \in Nat : i <= n => g[i] \in T}
<1>0. step \in [T \X E -> T] /\ base \in T /\ s \in Seq(E)
  BY DEF Takes
<1>1. n \in Nat /\ \A i \in 1..n : s[i] \in E
  BY <1>0
<1>2. IsRun(f, step, base, s, n)
  BY <1>0, RunIsRun
<1>3. \A i \in Nat : i + 1 <= n /\ g[i] \in T => g[i + 1] = step[<<g[i], s[i + 1]>>]
  BY DEF Takes
<1>4. g = [i \in 0..n |-> g[i]]
  BY DEF Takes
<1>5. g[0] = base
  BY DEF Takes
<1> HIDE DEF n, f
<1>11. 0 \in S
  BY <1>0, <1>5
<1>6. ASSUME NEW i \in Nat, i \in S PROVE i + 1 \in S
  <2> SUFFICES ASSUME i + 1 <= n PROVE g[i + 1] \in T
    OBVIOUS
  <2>1. g[i] \in T /\ i + 1 \in 1..n
    BY <1>1, <1>6
  <2>2. <<g[i], s[i + 1]>> \in T \X E
    BY <1>1, <2>1
  <2> QED BY <1>0, <1>3, <2>1, <2>2
<1> HIDE DEF S
<1>7. \A i \in Nat : i \in S
  BY <1>6, <1>11, SetInduction
<1>8. ASSUME NEW i \in Nat, i + 1 <= n PROVE g[i + 1] = step[<<g[i], s[i + 1]>>]
  <2>1. i <= n
    BY <1>1, <1>8
  <2>2. g[i] \in T
    BY <1>7, <2>1 DEF S
  <2> QED BY <1>3, <1>8, <2>2
<1>9. IsRun(g, step, base, s, n)
  BY <1>1, <1>4, <1>5, <1>8, RunFrom
<1>10. f[n] = g[n]
  BY <1>1, <1>2, <1>9, RunIsUnique
<1> QED BY <1>10 DEF Fold, f, n
=============================================================================
