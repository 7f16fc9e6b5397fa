---------------------------- MODULE ParserProofs ----------------------------
(***************************************************************************)
(* What the parser accepts and counts, for lines of any length, over any   *)
(* characters, and any limits on the digits.                               *)
(***************************************************************************)
EXTENDS MCParser, TLAPS, FiniteSetTheorems, SequenceTheorems,
        WellFoundedInduction

-----------------------------------------------------------------------------
(* Numbers.                                                                 *)

\* Induction, for a property that is a set.
LEMMA LeastNatural ==
  ASSUME NEW T \in SUBSET Nat, T # {}
  PROVE  \E m \in T : \A k \in T : m <= k
<1>1. \E m \in T : \A k \in T : <<k, m>> \notin OpToRel(<, Nat)
  BY WFMin, NatLessThanWellFounded, Zenon
<1>2. PICK m \in T : \A k \in T : <<k, m>> \notin OpToRel(<, Nat)
  BY <1>1
<1>3. ASSUME NEW k \in T
      PROVE  ~(k < m)
  BY <1>2 DEF OpToRel
<1>. QED  BY <1>3

LEMMA MinIsLeast ==
  ASSUME NEW T \in SUBSET Nat, T # {}
  PROVE  Min(T) \in T /\ \A k \in T : Min(T) <= k
<1>1. \E m \in T : \A k \in T : m <= k
  BY LeastNatural
<1>. QED  BY <1>1 DEF Min

LEMMA MaxIsGreatest ==
  ASSUME NEW T \in SUBSET Nat, T # {}, NEW n \in Nat, \A k \in T : k <= n
  PROVE  Max(T) \in T /\ \A k \in T : k <= Max(T)
<1>. DEFINE above == {m \in Nat : \A k \in T : k <= m}
<1>1. n \in above
  OBVIOUS
<1>2. PICK m \in above : \A k \in above : m <= k
  BY <1>1, LeastNatural
<1>3. m \in T
  <2>. SUFFICES ASSUME m \notin T PROVE FALSE
    OBVIOUS
  <2>1. \A k \in T : k <= m /\ k # m /\ k \in Nat
    BY <1>2
  <2>2. m # 0 /\ m \in Nat
    <3>1. PICK k \in T : TRUE
      OBVIOUS
    <3>. QED  BY <1>2, <2>1, <3>1
  <2>3. m - 1 \in above
    BY <2>1, <2>2
  <2>. QED  BY <1>2, <2>2, <2>3
<1>4. \E x \in T : \A y \in T : x >= y
  BY <1>2, <1>3
<1>. QED  BY <1>4 DEF Max

\* The recursion of PowerOfTen has a solution.
LEMMA PowerOfTenUnfolds ==
  \A n \in Nat : PowerOfTen[n] = IF n = 0 THEN 1 ELSE 10 * PowerOfTen[n - 1]
<1>. DEFINE Turn(g, n)   == IF n = 0 THEN 1 ELSE 10 * g[n - 1]
            Solves(g, n) == \A k \in 0 .. n : g[k] = Turn(g, k)
            solved == {n \in Nat : \E g \in [Nat -> Nat] : Solves(g, n)}
            bad    == Nat \ solved
<1>1. solved = Nat
  <2>. SUFFICES ASSUME bad # {} PROVE FALSE
    OBVIOUS
  <2>1. PICK n \in bad : \A k \in bad : n <= k
    <3>1. bad \in SUBSET Nat
      OBVIOUS
    <3>. HIDE DEF bad
    <3>. QED  BY <3>1, LeastNatural
  <2>2. n \in Nat /\ n \notin solved
    OBVIOUS
  <2>3. CASE n = 0
    <3>. DEFINE g == [k \in Nat |-> 1]
    <3>1. g \in [Nat -> Nat] /\ Solves(g, 0)
      OBVIOUS
    <3>. QED  BY <2>2, <2>3, <3>1
  <2>4. CASE n # 0
    <3>1. n - 1 \in solved
      <4>1. n - 1 \in Nat /\ ~(n <= n - 1)
        BY <2>2, <2>4
      <4>. HIDE DEF solved
      <4>. QED  BY <2>1, <4>1
    <3>2. PICK g \in [Nat -> Nat] : Solves(g, n - 1)
      BY <3>1
    <3>. DEFINE h == [k \in Nat |-> IF k = n THEN 10 * g[n - 1] ELSE g[k]]
    <3>3. h \in [Nat -> Nat]
      BY <2>2, <2>4
    <3>4. ASSUME NEW k \in 0 .. n
          PROVE  h[k] = Turn(h, k)
      <4>1. CASE k = n
        BY <2>2, <2>4, <4>1
      <4>2. CASE k # n
        <5>1. k \in 0 .. n - 1 /\ k # n /\ k \in Nat /\ (k # 0 => k - 1 \in Nat /\ k - 1 # n)
          BY <2>2, <4>2
        <5>2. g[k] = Turn(g, k)
          BY <3>2, <5>1
        <5>. QED  BY <5>1, <5>2
      <4>. QED  BY <4>1, <4>2
    <3>. HIDE DEF h, Turn
    <3>5. Solves(h, n)
      BY <3>4
    <3>. QED  BY <2>2, <3>3, <3>5
  <2>. QED  BY <2>3, <2>4
<1>2. ASSUME NEW g \in [Nat -> Nat], NEW h \in [Nat -> Nat], NEW n \in Nat, NEW m \in Nat,
             n <= m, Solves(g, n), Solves(h, m)
      PROVE  g[n] = h[n]
  <2>. DEFINE differ == {k \in 0 .. n : g[k] # h[k]}
  <2>. SUFFICES ASSUME differ # {} PROVE FALSE
    <3>1. n \in 0 .. n
      OBVIOUS
    <3>. QED  BY <3>1
  <2>1. PICK k \in differ : \A j \in differ : k <= j
    <3>1. differ \in SUBSET Nat
      OBVIOUS
    <3>. HIDE DEF differ
    <3>. QED  BY <3>1, LeastNatural
  <2>2. k \in 0 .. n /\ k \in 0 .. m /\ g[k] # h[k]
    BY <1>2
  <2>3. g[k] = Turn(g, k) /\ h[k] = Turn(h, k)
    BY <1>2, <2>2
  <2>4. k # 0 /\ k - 1 \in 0 .. n /\ k - 1 \notin differ
    BY <2>1, <2>2, <2>3
  <2>. QED  BY <2>2, <2>3, <2>4
<1>. DEFINE solution(n) == CHOOSE g \in [Nat -> Nat] : Solves(g, n)
            f == [n \in Nat |-> solution(n)[n]]
<1>. HIDE DEF Solves
<1>3. ASSUME NEW n \in Nat
      PROVE  solution(n) \in [Nat -> Nat] /\ Solves(solution(n), n)
  <2>1. \E g \in [Nat -> Nat] : Solves(g, n)
    BY <1>1
  <2>. QED  BY <2>1
<1>. HIDE DEF solution, Turn
<1>4. ASSUME NEW n \in Nat
      PROVE  f[n] = Turn(f, n)
  <2>1. f[n] = Turn(solution(n), n)
    BY <1>3 DEF Solves
  <2>2. CASE n = 0
    BY <2>1, <2>2 DEF Turn
  <2>3. CASE n # 0
    <3>1. n - 1 \in Nat /\ n - 1 <= n
      BY <2>3
    <3>2. solution(n - 1)[n - 1] = solution(n)[n - 1]
      <4>. DEFINE m == n - 1
      <4>1. m \in Nat /\ m <= n
        BY <3>1
      <4>. HIDE DEF m
      <4>2. solution(m)[m] = solution(n)[m]
        BY <1>2, <1>3, <4>1
      <4>. QED  BY <4>2 DEF m
    <3>. QED  BY <2>1, <2>3, <3>1, <3>2 DEF Turn
  <2>. QED  BY <2>2, <2>3
<1>5. f = [n \in Nat |-> Turn(f, n)]
  <2>1. f = [n \in Nat |-> f[n]]
    OBVIOUS
  <2>. HIDE DEF f
  <2>. QED  BY <1>4, <2>1
<1>. HIDE DEF f
<1>6. PowerOfTen = CHOOSE g : g = [n \in Nat |-> Turn(g, n)]
  BY DEF PowerOfTen, Turn
<1>7. PowerOfTen = [n \in Nat |-> Turn(PowerOfTen, n)]
  BY <1>5, <1>6, Zenon
<1>8. \A n \in Nat : PowerOfTen[n] = Turn(PowerOfTen, n)
  BY <1>7, Zenon
<1>. QED  BY <1>8 DEF Turn

LEMMA SetInduction ==
  ASSUME NEW T \in SUBSET Nat, 0 \in T, \A n \in T : n + 1 \in T
  PROVE  T = Nat
<1>. DEFINE bad == Nat \ T
<1>. SUFFICES ASSUME bad # {} PROVE FALSE
  OBVIOUS
<1>1. PICK n \in bad : \A k \in bad : n <= k
  <2>1. bad \in SUBSET Nat
    OBVIOUS
  <2>. HIDE DEF bad
  <2>. QED  BY <2>1, LeastNatural
<1>2. n # 0 /\ n \in Nat
  OBVIOUS
<1>3. n - 1 \in Nat /\ ~(n <= n - 1) /\ (n - 1) + 1 = n
  BY <1>2
<1>4. n - 1 \in T
  BY <1>1, <1>3
<1>. QED  BY <1>3, <1>4

LEMMA PowersArePositive == \A n \in Nat : PowerOfTen[n] \in Nat \ {0}
<1>. DEFINE T == {n \in Nat : PowerOfTen[n] \in Nat \ {0}}
<1>1. 0 \in T
  BY PowerOfTenUnfolds
<1>2. ASSUME NEW n \in T PROVE n + 1 \in T
  <2>1. n + 1 \in Nat /\ n + 1 # 0 /\ (n + 1) - 1 = n
    OBVIOUS
  <2>2. PowerOfTen[n + 1] = 10 * PowerOfTen[n]
    BY <2>1, PowerOfTenUnfolds
  <2>. QED  BY <2>1, <2>2
<1>3. T = Nat
  <2>. HIDE DEF T
  <2>1. T \in SUBSET Nat
    BY DEF T
  <2>. QED  BY <1>1, <1>2, <2>1, SetInduction
<1>. QED  BY <1>3

LEMMA PowersGrow ==
  /\ PowerOfTen[0] = 1
  /\ \A n \in Nat : PowerOfTen[n + 1] = 10 * PowerOfTen[n]
<1>1. \A n \in Nat : n + 1 \in Nat /\ n + 1 # 0 /\ (n + 1) - 1 = n
  OBVIOUS
<1>. QED  BY <1>1, PowerOfTenUnfolds

LEMMA PowersMultiply ==
  \A m, n \in Nat : PowerOfTen[m + n] = PowerOfTen[m] * PowerOfTen[n]
<1>. SUFFICES ASSUME NEW m \in Nat
              PROVE  \A n \in Nat : PowerOfTen[m + n] = PowerOfTen[m] * PowerOfTen[n]
  OBVIOUS
<1>. DEFINE T == {n \in Nat : PowerOfTen[m + n] = PowerOfTen[m] * PowerOfTen[n]}
<1>0. \A n \in Nat : PowerOfTen[n] \in Nat
  BY PowersArePositive
<1>1. 0 \in T
  BY <1>0, PowersGrow
<1>2. ASSUME NEW n \in T PROVE n + 1 \in T
  <2>1. n \in Nat /\ n + 1 \in Nat /\ m + n \in Nat /\ m + (n + 1) = (m + n) + 1
    OBVIOUS
  <2>2. /\ PowerOfTen[n + 1] = 10 * PowerOfTen[n]
        /\ PowerOfTen[(m + n) + 1] = 10 * PowerOfTen[m + n]
    BY <2>1, PowersGrow
  <2>3. PowerOfTen[m + n] = PowerOfTen[m] * PowerOfTen[n]
    OBVIOUS
  <2>. DEFINE a == PowerOfTen[m]
              b == PowerOfTen[n]
  <2>4. a \in Nat /\ b \in Nat
    BY <1>0, <2>1
  <2>. HIDE DEF a, b
  <2>5. 10 * (a * b) = a * (10 * b)
    BY <2>4
  <2>. QED  BY <2>1, <2>2, <2>3, <2>5 DEF a, b
<1>3. T = Nat
  <2>. HIDE DEF T
  <2>1. T \in SUBSET Nat
    BY DEF T
  <2>. QED  BY <1>1, <1>2, <2>1, SetInduction
<1>. QED  BY <1>3

LEMMA PowersAreOrdered ==
  ASSUME NEW m \in Nat, NEW n \in Nat, m <= n
  PROVE  PowerOfTen[m] <= PowerOfTen[n]
<1>. DEFINE k == n - m
            a == PowerOfTen[m]
            b == PowerOfTen[k]
<1>1. k \in Nat /\ m + k = n
  OBVIOUS
<1>2. PowerOfTen[m + k] = a * b
  BY <1>1, PowersMultiply
<1>3. a \in Nat \ {0} /\ b \in Nat \ {0}
  BY <1>1, PowersArePositive
<1>4. PowerOfTen[n] = a * b
  BY <1>1, <1>2
<1>. HIDE DEF a, b, k
<1>5. a <= a * b
  BY <1>3
<1>. QED  BY <1>4, <1>5 DEF a

-----------------------------------------------------------------------------
(* Digits.                                                                  *)

LEMMA DigitsAreTen ==
  Digits = {"0", "1", "2", "3", "4", "5", "6", "7", "8", "9"}
<1>1. /\ DOMAIN DigitChar = 1 .. 10
      /\ DigitChar[1] = "0" /\ DigitChar[2] = "1" /\ DigitChar[3] = "2"
      /\ DigitChar[4] = "3" /\ DigitChar[5] = "4" /\ DigitChar[6] = "5"
      /\ DigitChar[7] = "6" /\ DigitChar[8] = "7" /\ DigitChar[9] = "8"
      /\ DigitChar[10] = "9"
  BY DEF DigitChar
<1>2. \A n : n \in 1 .. 10 <=> n \in {1, 2, 3, 4, 5, 6, 7, 8, 9, 10}
  OBVIOUS
<1>. QED  BY <1>1, <1>2 DEF Digits

LEMMA DigitsHaveValues == \A d \in Digits : DigitValue[d] \in 0 .. 9
<1>. SUFFICES ASSUME NEW d \in Digits PROVE DigitValue[d] \in 0 .. 9
  OBVIOUS
<1>1. DOMAIN DigitChar = 1 .. 10
  BY DEF DigitChar
<1>2. \E n \in 1 .. 10 : DigitChar[n] = d
  BY <1>1 DEF Digits
<1>3. (CHOOSE n \in 1 .. 10 : DigitChar[n] = d) \in 1 .. 10
  BY <1>2
<1>4. DigitValue[d] = (CHOOSE n \in 1 .. 10 : DigitChar[n] = d) - 1
  BY DEF DigitValue
<1>. QED  BY <1>3, <1>4

\* A number of n digits is below the nth power of ten.
LEMMA NumberIsBounded ==
  ASSUME NEW str \in Seq(Digits)
  PROVE  /\ retreive_unsigned_integer(str) \in Nat
         /\ retreive_unsigned_integer(str) < PowerOfTen[Len(str)]
<1>. DEFINE L    == Len(str)
            all  == DOMAIN str
            sets == SUBSET all
            Turn(g, s) == IF s = {} THEN 0
                          ELSE 10 * g[s \ {Max(s)}] + DigitValue[str[Max(s)]]
            Solves(g, n) == \A s \in sets : s \subseteq 1 .. n => g[s] = Turn(g, s)
            iter == CHOOSE g : g = [s \in sets |-> Turn(g, s)]
<1>1. retreive_unsigned_integer(str) = iter[all]
  BY Zenon DEF retreive_unsigned_integer, FoldLeft, MapThenFoldSet
<1>2. L \in Nat /\ all = 1 .. L
  BY LenProperties
<1>3. ASSUME NEW s \in sets, s # {}
      PROVE  /\ Max(s) \in s /\ Max(s) \in 1 .. L /\ s \ {Max(s)} \in sets
             /\ \A k \in s : k <= Max(s)
  <2>1. s \in SUBSET Nat /\ \A k \in s : k <= L
    BY <1>2
  <2>2. Max(s) \in s /\ \A k \in s : k <= Max(s)
    BY <1>2, <1>3, <2>1, MaxIsGreatest
  <2>. QED  BY <1>2, <2>2
<1>4. \A k \in all : DigitValue[str[k]] \in 0 .. 9
  BY <1>2, ElementOfSeq, DigitsHaveValues
<1>5. ASSUME NEW g \in [sets -> Nat], NEW s \in sets
      PROVE  Turn(g, s) \in Nat
  <2>1. CASE s = {}
    BY <2>1
  <2>2. CASE s # {}
    <3>. DEFINE x == Max(s)
                r == s \ {x}
    <3>1. x \in s /\ x \in all /\ r \in sets
      BY <1>2, <1>3, <2>2
    <3>2. g[r] \in Nat /\ DigitValue[str[x]] \in Nat
      BY <1>4, <3>1
    <3>. HIDE DEF x
    <3>3. Turn(g, s) = 10 * g[r] + DigitValue[str[x]]
      BY <2>2 DEF x
    <3>. QED  BY <3>2, <3>3
  <2>. QED  BY <2>1, <2>2
<1>. DEFINE solved == {n \in Nat : \E g \in [sets -> Nat] : Solves(g, n)}
<1>6. 0 \in solved
  <2>. DEFINE g == [s \in sets |-> 0]
  <2>1. g \in [sets -> Nat]
    OBVIOUS
  <2>2. ASSUME NEW s \in sets, s \subseteq 1 .. 0
        PROVE  g[s] = Turn(g, s)
    <3>1. s = {}
      BY <2>2
    <3>. QED  BY <3>1
  <2>. HIDE DEF g, Turn
  <2>3. Solves(g, 0)
    BY <2>2
  <2>. QED  BY <2>1, <2>3
<1>7. ASSUME NEW n \in solved PROVE n + 1 \in solved
  <2>1. PICK g \in [sets -> Nat] : Solves(g, n)
    OBVIOUS
  <2>. DEFINE h == [s \in sets |-> IF s \subseteq 1 .. (n + 1) THEN Turn(g, s) ELSE 0]
  <2>2. h \in [sets -> Nat]
    <3>. HIDE DEF Turn
    <3>. QED  BY <1>5
  <2>3. ASSUME NEW s \in sets, s \subseteq 1 .. (n + 1)
        PROVE  h[s] = Turn(h, s)
    <3>1. h[s] = Turn(g, s)
      <4>. HIDE DEF Turn
      <4>. QED  BY <2>3
    <3>2. CASE s = {}
      BY <3>1, <3>2
    <3>3. CASE s # {}
      <4>. DEFINE x == Max(s)
                  r == s \ {x}
      <4>1. x \in s /\ r \in sets /\ \A k \in s : k <= x
        BY <1>3, <3>3
      <4>2. r \subseteq 1 .. n /\ r \subseteq 1 .. (n + 1)
        <5>. HIDE DEF x
        <5>1. n \in Nat
          OBVIOUS
        <5>2. x \in 1 .. (n + 1)
          BY <2>3, <4>1
        <5>3. ASSUME NEW k \in r PROVE k \in 1 .. n
          <6>1. k \in 1 .. (n + 1) /\ k <= x /\ k # x
            BY <2>3, <4>1
          <6>. QED  BY <5>1, <5>2, <6>1
        <5>. QED  BY <5>1, <5>3
      <4>. HIDE DEF x, r
      <4>3. h[r] = Turn(g, r) /\ g[r] = Turn(g, r)
        <5>. HIDE DEF Turn
        <5>. QED  BY <2>1, <4>1, <4>2
      <4>. HIDE DEF h
      <4>. QED  BY <3>1, <3>3, <4>3 DEF x, r
    <3>. QED  BY <3>2, <3>3
  <2>4. Solves(h, n + 1)
    <3>. HIDE DEF h, Turn
    <3>. QED  BY <2>3
  <2>5. n + 1 \in Nat
    OBVIOUS
  <2>. DEFINE m == n + 1
  <2>. HIDE DEF h, Solves, m
  <2>6. m \in solved
    BY <2>2, <2>4, <2>5 DEF m
  <2>. QED  BY <2>6 DEF m
<1>8. PICK f \in [sets -> Nat] : Solves(f, L)
  <2>1. solved \in SUBSET Nat
    OBVIOUS
  <2>. HIDE DEF solved
  <2>2. solved = Nat
    BY <1>6, <1>7, <2>1, SetInduction
  <2>. QED  BY <1>2, <2>2 DEF solved
<1>9. \A s \in sets : f[s] = Turn(f, s)
  <2>. HIDE DEF Turn
  <2>. QED  BY <1>2, <1>8
<1>10. f = [s \in sets |-> Turn(f, s)]
  <2>1. f = [s \in sets |-> f[s]]
    OBVIOUS
  <2>. HIDE DEF Turn
  <2>. QED  BY <1>9, <2>1
<1>11. iter = [s \in sets |-> Turn(iter, s)]
  <2>. HIDE DEF Turn
  <2>. QED  BY <1>10, Zenon
<1>. HIDE DEF iter
<1>12. \A s \in sets : iter[s] = Turn(iter, s)
  <2>. HIDE DEF Turn
  <2>. QED  BY <1>11, Zenon
<1>. DEFINE T == {n \in Nat : n <= L => iter[1 .. n] \in Nat /\ iter[1 .. n] < PowerOfTen[n]}
<1>13. 0 \in T
  <2>1. 1 .. 0 = {} /\ {} \in sets
    OBVIOUS
  <2>2. iter[{}] = 0
    BY <1>12, <2>1
  <2>3. iter[1 .. 0] = 0
    BY <2>1, <2>2
  <2>4. 0 \in Nat /\ PowerOfTen[0] = 1
    BY PowersGrow
  <2>. QED  BY <2>3, <2>4
<1>14. ASSUME NEW n \in T PROVE n + 1 \in T
  <2>. SUFFICES ASSUME n + 1 <= L
                PROVE  iter[1 .. (n + 1)] \in Nat /\ iter[1 .. (n + 1)] < PowerOfTen[n + 1]
    OBVIOUS
  <2>. DEFINE s == 1 .. (n + 1)
              m == n + 1
  <2>1. n \in Nat /\ n <= L /\ m \in Nat /\ m \in s /\ \A k \in s : k \in Nat /\ k <= m
    BY <1>2
  <2>2. s \in sets /\ s # {}
    BY <1>2, <2>1
  <2>3. Max(s) = m
    <3>. HIDE DEF s, m
    <3>. DEFINE x == Max(s)
    <3>1. x \in s /\ \A k \in s : k <= x
      BY <1>3, <2>2
    <3>. HIDE DEF x
    <3>2. x \in Nat /\ x <= m /\ m <= x
      BY <2>1, <3>1
    <3>3. x = m
      BY <2>1, <3>2
    <3>. QED  BY <3>3 DEF x
  <2>4. s \ {m} = 1 .. n
    BY <2>1
  <2>5. iter[s] = 10 * iter[1 .. n] + DigitValue[str[m]]
    <3>. HIDE DEF s, m
    <3>. QED  BY <1>12, <2>2, <2>3, <2>4
  <2>6. DigitValue[str[m]] \in 0 .. 9
    BY <1>2, <1>4, <2>1, <2>2
  <2>7. iter[1 .. n] \in Nat /\ iter[1 .. n] < PowerOfTen[n]
    BY <2>1
  <2>8. PowerOfTen[n + 1] = 10 * PowerOfTen[n] /\ PowerOfTen[n] \in Nat
    BY <2>1, PowersGrow, PowersArePositive
  <2>. DEFINE p == PowerOfTen[n]
              v == iter[1 .. n]
              d == DigitValue[str[m]]
  <2>. HIDE DEF s, m
  <2>9. iter[s] \in Nat /\ iter[s] < 10 * p
    <3>1. p \in Nat /\ v \in Nat /\ v < p /\ d \in 0 .. 9 /\ iter[s] = 10 * v + d
      BY <2>5, <2>6, <2>7, <2>8
    <3>. HIDE DEF p, v, d
    <3>. QED  BY <3>1
  <2>. QED  BY <2>8, <2>9 DEF s
<1>15. T = Nat
  <2>1. T \in SUBSET Nat
    OBVIOUS
  <2>. HIDE DEF T
  <2>. QED  BY <1>13, <1>14, <2>1, SetInduction
<1>16. iter[1 .. L] \in Nat /\ iter[1 .. L] < PowerOfTen[L]
  <2>1. L \in T /\ L <= L
    BY <1>2, <1>15
  <2>. QED  BY <2>1
<1>. QED  BY <1>1, <1>2, <1>16

-----------------------------------------------------------------------------
(* Least and greatest numbers, and parts of a text.                         *)

LEMMA LeastIs ==
  ASSUME NEW T \in SUBSET Nat, NEW m \in T, \A k \in T : m <= k
  PROVE  Min(T) = m
<1>. DEFINE x == Min(T)
<1>1. x \in T /\ \A k \in T : x <= k
  BY MinIsLeast
<1>. HIDE DEF x
<1>2. x \in Nat /\ m \in Nat /\ x <= m /\ m <= x
  BY <1>1
<1>3. x = m
  BY <1>2
<1>. QED  BY <1>3 DEF x

LEMMA GreatestIs ==
  ASSUME NEW T \in SUBSET Nat, NEW m \in T, \A k \in T : k <= m
  PROVE  Max(T) = m
<1>. DEFINE x == Max(T)
<1>1. x \in T /\ \A k \in T : k <= x
  <2>1. m \in Nat /\ T # {}
    OBVIOUS
  <2>. QED  BY <2>1, MaxIsGreatest
<1>. HIDE DEF x
<1>2. x \in Nat /\ m \in Nat /\ x <= m /\ m <= x
  BY <1>1
<1>3. x = m
  BY <1>2
<1>. QED  BY <1>3 DEF x

\* A part of a text.
LEMMA PartOfText ==
  ASSUME NEW S, NEW s \in Seq(S), NEW m \in 1 .. (Len(s) + 1), NEW n \in 0 .. Len(s),
         m <= n + 1
  PROVE  /\ SubSeq(s, m, n) \in Seq(S)
         /\ Len(SubSeq(s, m, n)) = n - m + 1
         /\ \A k \in 1 .. (n - m + 1) : SubSeq(s, m, n)[k] = s[m + k - 1]
<1>1. Len(s) \in Nat
  BY LenProperties
<1>2. m \in Int /\ n \in Int
  BY <1>1
<1>3. \A k \in m .. n : s[k] \in S
  <2>1. \A k \in m .. n : k \in 1 .. Len(s)
    BY <1>1
  <2>. QED  BY <2>1, ElementOfSeq
<1>4. /\ SubSeq(s, m, n) \in Seq(S)
      /\ Len(SubSeq(s, m, n)) = IF m <= n THEN n - m + 1 ELSE 0
      /\ \A k \in 1 .. n - m + 1 : SubSeq(s, m, n)[k] = s[m + k - 1]
  <2>1. \A a, b \in Int : (\A k \in a .. b : s[k] \in S) =>
           /\ SubSeq(s, a, b) \in Seq(S)
           /\ Len(SubSeq(s, a, b)) = IF a <= b THEN b - a + 1 ELSE 0
           /\ \A k \in 1 .. b - a + 1 : SubSeq(s, a, b)[k] = s[a + k - 1]
    BY SubSeqProperties
  <2>. QED  BY <1>2, <1>3, <2>1
<1>5. (IF m <= n THEN n - m + 1 ELSE 0) = n - m + 1
  BY <1>2
<1>. QED  BY <1>4, <1>5

\* A part of a part.
LEMMA PartOfPart ==
  ASSUME NEW S, NEW s \in Seq(S), NEW m \in 1 .. (Len(s) + 1), NEW n \in 0 .. Len(s),
         m <= n + 1, NEW a \in m .. (n + 1), NEW b \in (m - 1) .. n, a <= b + 1
  PROVE  SubSeq(SubSeq(s, m, n), a - m + 1, b - m + 1) = SubSeq(s, a, b)
<1>. DEFINE t  == SubSeq(s, m, n)
            lo == a - m + 1
            hi == b - m + 1
            u  == SubSeq(t, lo, hi)
            v  == SubSeq(s, a, b)
<1>0. Len(s) \in Nat
  BY LenProperties
<1>1. /\ t \in Seq(S) /\ Len(t) = n - m + 1
      /\ \A k \in 1 .. (n - m + 1) : t[k] = s[m + k - 1]
  BY PartOfText
<1>2. a \in 1 .. (Len(s) + 1) /\ b \in 0 .. Len(s)
  BY <1>0
<1>3. /\ v \in Seq(S) /\ Len(v) = b - a + 1
      /\ \A k \in 1 .. (b - a + 1) : v[k] = s[a + k - 1]
  BY <1>2, PartOfText
<1>. HIDE DEF t
<1>4. lo \in 1 .. (Len(t) + 1) /\ hi \in 0 .. Len(t) /\ lo <= hi + 1 /\ hi - lo + 1 = b - a + 1
  BY <1>0, <1>1, <1>2
<1>. HIDE DEF lo, hi
<1>5. /\ u \in Seq(S) /\ Len(u) = b - a + 1
      /\ \A k \in 1 .. (b - a + 1) : u[k] = t[lo + k - 1]
  <2>1. /\ u \in Seq(S) /\ Len(u) = hi - lo + 1
        /\ \A k \in 1 .. (hi - lo + 1) : u[k] = t[lo + k - 1]
    BY <1>1, <1>4, PartOfText
  <2>. QED  BY <1>4, <2>1
<1>6. ASSUME NEW k \in 1 .. (b - a + 1)
      PROVE  u[k] = v[k]
  <2>1. lo + k - 1 \in 1 .. (n - m + 1) /\ m + (lo + k - 1) - 1 = a + k - 1
    BY <1>0, <1>2, <1>6 DEF lo
  <2>2. t[lo + k - 1] = s[m + (lo + k - 1) - 1]
    BY <1>1, <2>1
  <2>. QED  BY <1>3, <1>5, <2>1, <2>2
<1>. HIDE DEF u, v
<1>7. u = v
  BY <1>3, <1>5, <1>6, SeqEqual
<1>. QED  BY <1>7 DEF u, v, lo, hi, t

-----------------------------------------------------------------------------
(* Where the fields of a line stand.                                        *)

\* The commas of a text up to a place.
CommasTo(text, k) == {m \in 1 .. k : text[m] = Comma}

\* Place c is that of the nth comma, or 0 for n = 0.
NthComma(text, n, c) ==
  /\ c \in 0 .. Len(text)
  /\ c # 0 => text[c] = Comma
  /\ Cardinality(CommasTo(text, c)) = n
  /\ n = 0 => c = 0

\* Between places c and e stand such characters only.
Only(text, c, e, chars) == \A k \in (c + 1) .. (e - 1) : text[k] \in chars

\* Behind place c stands no comma before place e, and there is one, or the
\* line is over.
Closed(c, e) ==
  /\ e \in (c + 1) .. (Len(line) + 1)
  /\ \A k \in (c + 1) .. (e - 1) : line[k] # Comma
  /\ e # Len(line) + 1 => line[e] = Comma

LEMMA CommasAreFinite ==
  ASSUME NEW text, NEW k \in Nat
  PROVE  /\ IsFiniteSet(CommasTo(text, k))
         /\ Cardinality(CommasTo(text, k)) \in Nat
<1>1. IsFiniteSet(1 .. k)
  BY FS_Interval
<1>2. CommasTo(text, k) \in SUBSET (1 .. k)
  BY DEF CommasTo
<1>3. IsFiniteSet(CommasTo(text, k))
  BY <1>1, <1>2, FS_Subset
<1>. QED  BY <1>3, FS_CardinalityType

\* There are more commas up to a later comma.
LEMMA CommasAreCounted ==
  ASSUME NEW text, NEW c \in Nat, NEW e \in Nat, c < e, text[e] = Comma
  PROVE  Cardinality(CommasTo(text, c)) < Cardinality(CommasTo(text, e))
<1>1. /\ IsFiniteSet(CommasTo(text, e))
      /\ Cardinality(CommasTo(text, c)) \in Nat
      /\ Cardinality(CommasTo(text, e)) \in Nat
  BY CommasAreFinite
<1>2. CommasTo(text, c) \in SUBSET CommasTo(text, e)
  BY DEF CommasTo
<1>3. e \in CommasTo(text, e) /\ e \notin CommasTo(text, c)
  BY DEF CommasTo
<1>4. /\ Cardinality(CommasTo(text, c)) <= Cardinality(CommasTo(text, e))
      /\ Cardinality(CommasTo(text, c)) = Cardinality(CommasTo(text, e)) =>
           CommasTo(text, e) = CommasTo(text, c)
  BY <1>1, <1>2, FS_Subset
<1>. QED  BY <1>1, <1>3, <1>4

LEMMA NextComma ==
  ASSUME NEW text, Len(text) \in Nat, NEW n \in Nat, NEW c, NthComma(text, n, c),
         NEW e \in 1 .. Len(text), c < e, text[e] = Comma,
         \A k \in (c + 1) .. (e - 1) : text[k] # Comma
  PROVE  NthComma(text, n + 1, e)
<1>1. c \in Nat /\ e \in Nat /\ Cardinality(CommasTo(text, c)) = n
  BY DEF NthComma
<1>2. CommasTo(text, e) = CommasTo(text, c) \cup {e} /\ e \notin CommasTo(text, c)
  <2>1. ASSUME NEW m \in CommasTo(text, e) PROVE m \in CommasTo(text, c) \cup {e}
    <3>1. m \in 1 .. e /\ text[m] = Comma
      BY DEF CommasTo
    <3>2. m \in 1 .. c \/ m \in (c + 1) .. (e - 1) \/ m = e
      BY <1>1, <3>1
    <3>. QED  BY <3>1, <3>2 DEF CommasTo
  <2>2. CommasTo(text, c) \cup {e} \subseteq CommasTo(text, e)
    BY <1>1 DEF CommasTo
  <2>3. e \notin CommasTo(text, c)
    BY <1>1 DEF CommasTo
  <2>. QED  BY <2>1, <2>2, <2>3
<1>3. Cardinality(CommasTo(text, e)) = n + 1
  BY <1>1, <1>2, CommasAreFinite, FS_AddElement
<1>. QED  BY <1>1, <1>3 DEF NthComma

\* Comma of MCParser finds it.
LEMMA CommaIs ==
  ASSUME Len(line) \in Nat, DOMAIN line = 1 .. Len(line), NEW n \in Nat, NEW c,
         NthComma(line, n, c)
  PROVE  CommaAt(n) = c
<1>1. CASE n = 0
  BY <1>1 DEF CommaAt, NthComma
<1>2. CASE n # 0
  <2>. DEFINE commas == {k \in DOMAIN line : line[k] = Comma}
              upTo(k) == {m \in commas : m <= k}
              nth    == {k \in commas : Cardinality(upTo(k)) = n}
              T      == nth \cup {Len(line) + 1}
  <2>1. c \in Nat /\ c <= Len(line) /\ Cardinality(CommasTo(line, c)) = n
    BY DEF NthComma
  <2>2. c # 0
    <3>1. CommasTo(line, 0) = {}
      BY DEF CommasTo
    <3>. QED  BY <1>2, <2>1, <3>1, FS_EmptySet
  <2>3. c \in commas
    BY <2>1, <2>2 DEF NthComma
  <2>4. ASSUME NEW k \in commas PROVE upTo(k) = CommasTo(line, k)
    BY DEF CommasTo
  <2>5. c \in nth
    BY <2>1, <2>3, <2>4
  <2>6. ASSUME NEW k \in nth PROVE c <= k
    <3>1. k \in commas /\ k \in Nat /\ Cardinality(CommasTo(line, k)) = n
      <4>1. k \in commas /\ k \in Nat /\ Cardinality(upTo(k)) = n
        OBVIOUS
      <4>. HIDE DEF upTo, commas
      <4>. QED  BY <2>4, <4>1
    <3>2. k < c => Cardinality(CommasTo(line, k)) < Cardinality(CommasTo(line, c))
      BY <2>1, <2>3, <3>1, CommasAreCounted
    <3>. QED  BY <2>1, <3>1, <3>2
  <2>7. T \in SUBSET Nat /\ c \in T /\ \A k \in T : c <= k
    BY <2>1, <2>5, <2>6
  <2>8. CommaAt(n) = Min(T)
    BY <1>2 DEF CommaAt
  <2>. HIDE DEF T
  <2>. QED  BY <2>7, <2>8, LeastIs
<1>. QED  BY <1>1, <1>2

\* Without a further comma, the next one is past the line.
LEMMA LastComma ==
  ASSUME Len(line) \in Nat, DOMAIN line = 1 .. Len(line), NEW n \in Nat, NEW c,
         NthComma(line, n, c),
         \A k \in (c + 1) .. Len(line) : line[k] # Comma
  PROVE  CommaAt(n + 1) = Len(line) + 1
<1>. DEFINE commas == {k \in DOMAIN line : line[k] = Comma}
            upTo(k) == {m \in commas : m <= k}
            nth    == {k \in commas : Cardinality(upTo(k)) = n + 1}
            T      == nth \cup {Len(line) + 1}
<1>1. c \in Nat /\ c <= Len(line) /\ Cardinality(CommasTo(line, c)) = n
  BY DEF NthComma
<1>2. ASSUME NEW k \in commas PROVE Cardinality(upTo(k)) # n + 1
  <2>1. k \in Nat /\ k <= c
    BY <1>1
  <2>2. upTo(k) \in SUBSET CommasTo(line, c)
    BY <1>1, <2>1 DEF CommasTo
  <2>3. IsFiniteSet(CommasTo(line, c))
    BY <1>1, CommasAreFinite
  <2>4. Cardinality(upTo(k)) <= n /\ Cardinality(upTo(k)) \in Nat
    BY <1>1, <2>2, <2>3, FS_Subset, FS_CardinalityType
  <2>. QED  BY <2>4
<1>3. nth = {}
  <2>. HIDE DEF commas, upTo
  <2>. QED  BY <1>2
<1>4. T = {Len(line) + 1}
  BY <1>3
<1>5. CommaAt(n + 1) = Min(T)
  <2>1. n + 1 # 0
    OBVIOUS
  <2>. QED  BY <2>1 DEF CommaAt
<1>. HIDE DEF T
<1>6. T \in SUBSET Nat /\ Len(line) + 1 \in T /\ \A k \in T : Len(line) + 1 <= k
  BY <1>4
<1>. QED  BY <1>5, <1>6, LeastIs

\* So the nth field is between c and e.
LEMMA FieldIsBetween ==
  ASSUME NEW S, line \in Seq(S), NEW n \in Nat, NEW c, NEW e,
         NthComma(line, n, c), Closed(c, e)
  PROVE  CommaAt(n) = c /\ CommaAt(n + 1) = e
<1>1. Len(line) \in Nat /\ DOMAIN line = 1 .. Len(line)
  BY LenProperties
<1>2. CommaAt(n) = c
  BY <1>1, CommaIs
<1>3. c \in Nat /\ e \in (c + 1) .. (Len(line) + 1)
  BY <1>1 DEF NthComma, Closed
<1>4. CASE e = Len(line) + 1
  <2>1. \A k \in (c + 1) .. Len(line) : line[k] # Comma
    BY <1>1, <1>3, <1>4 DEF Closed
  <2>. QED  BY <1>1, <1>2, <1>4, <2>1, LastComma
<1>5. CASE e # Len(line) + 1
  <2>1. e \in 1 .. Len(line) /\ c < e /\ line[e] = Comma
    BY <1>1, <1>3, <1>5 DEF Closed
  <2>2. NthComma(line, n + 1, e)
    BY <1>1, <2>1, NextComma DEF Closed
  <2>3. n + 1 \in Nat
    OBVIOUS
  <2>. QED  BY <1>1, <1>2, <2>2, <2>3, CommaIs
<1>. QED  BY <1>4, <1>5

LEMMA CharactersDiffer ==
  /\ Blank # Comma /\ Blank # "/" /\ Blank # "." /\ Blank # "-"
  /\ Comma # "/" /\ Comma # "." /\ Comma # "-" /\ "/" # "." /\ "/" # "-"
  /\ {Blank, Comma, "/", ".", "-"} \cap (Digits \cup Actions \cup Sides) = {}
<1>1. /\ Blank # Comma /\ Blank # "/" /\ Blank # "." /\ Blank # "-"
      /\ Comma # "/" /\ Comma # "." /\ Comma # "-" /\ "/" # "." /\ "/" # "-"
  BY Zenon DEF Blank, Comma
<1>2. {Blank, Comma, "/", ".", "-"} \cap Digits = {}
  BY DigitsAreTen, Zenon DEF Blank, Comma
<1>3. {Blank, Comma, "/", ".", "-"} \cap (Actions \cup Sides) = {}
  BY Zenon DEF Blank, Comma, Actions, Sides
<1>. QED  BY <1>1, <1>2, <1>3

\* Between the places c and e stand a to b, and blanks around.
Inked(text, c, a, b, e) ==
  /\ c < a /\ a <= b /\ b < e
  /\ text[a] # Blank /\ text[b] # Blank
  /\ Only(text, c, a, {Blank}) /\ Only(text, b, e, {Blank})
  /\ \A k \in a .. b : text[k] # Comma

LEMMA FieldText ==
  ASSUME NEW S, line \in Seq(S), NEW n \in Nat, NEW c, NEW e,
         NthComma(line, n, c), Closed(c, e),
         NEW a \in Nat, NEW b \in Nat, Inked(line, c, a, b, e)
  PROVE  Field(n + 1) = SubSeq(line, a, b)
<1>. DEFINE text == SubSeq(line, c + 1, e - 1)
            ink  == {k \in DOMAIN text : text[k] # Blank}
            lo   == a - c
            hi   == b - c
<1>1. Len(line) \in Nat /\ DOMAIN line = 1 .. Len(line)
  BY LenProperties
<1>2. c \in Nat /\ c <= Len(line) /\ e \in Nat /\ c < e /\ e <= Len(line) + 1
  BY <1>1 DEF NthComma, Closed
<1>3. CommaAt(n) = c /\ CommaAt(n + 1) = e /\ (n + 1) - 1 = n
  BY FieldIsBetween
<1>4. Field(n + 1) = IF ink = {} THEN << >> ELSE SubSeq(text, Min(ink), Max(ink))
  BY <1>3 DEF Field
<1>5. c + 1 \in 1 .. (Len(line) + 1) /\ e - 1 \in 0 .. Len(line) /\ c + 1 <= (e - 1) + 1
  BY <1>1, <1>2
<1>6. /\ text \in Seq(S) /\ Len(text) = e - c - 1 /\ DOMAIN text = 1 .. (e - c - 1)
      /\ \A k \in 1 .. (e - c - 1) : text[k] = line[c + k]
  <2>1. /\ text \in Seq(S) /\ Len(text) = (e - 1) - (c + 1) + 1
        /\ \A k \in 1 .. ((e - 1) - (c + 1) + 1) : text[k] = line[(c + 1) + k - 1]
    BY <1>5, PartOfText
  <2>2. DOMAIN text = 1 .. Len(text)
    BY <2>1, LenProperties
  <2>3. (e - 1) - (c + 1) + 1 = e - c - 1
    BY <1>2
  <2>. HIDE DEF text
  <2>4. text \in Seq(S) /\ Len(text) = e - c - 1 /\ DOMAIN text = 1 .. (e - c - 1)
    BY <2>1, <2>2, <2>3
  <2>5. ASSUME NEW k \in 1 .. (e - c - 1)
        PROVE  text[k] = line[c + k]
    <3>1. text[k] = line[(c + 1) + k - 1]
      BY <2>1, <2>3
    <3>2. (c + 1) + k - 1 = c + k
      BY <1>2
    <3>. QED  BY <3>1, <3>2
  <2>. QED  BY <2>4, <2>5
<1>7. c < a /\ a <= b /\ b < e /\ lo \in 1 .. (e - c - 1) /\ hi \in 1 .. (e - c - 1)
  BY <1>2 DEF Inked
<1>. HIDE DEF text
<1>8. lo \in ink /\ hi \in ink
  <2>1. c + lo = a /\ c + hi = b
    BY <1>2
  <2>. QED  BY <1>6, <1>7, <2>1 DEF Inked
<1>9. ASSUME NEW k \in ink
      PROVE  k \in Nat /\ lo <= k /\ k <= hi
  <2>1. k \in 1 .. (e - c - 1) /\ line[c + k] # Blank
    BY <1>6
  <2>2. c + k \notin (c + 1) .. (a - 1) /\ c + k \notin (b + 1) .. (e - 1)
    BY <2>1 DEF Inked, Only
  <2>3. k \in Nat /\ c + k \in Nat /\ c + 1 <= c + k /\ c + k <= e - 1
    BY <1>2, <2>1
  <2>4. a <= c + k /\ c + k <= b
    BY <1>2, <2>2, <2>3
  <2>. QED  BY <1>2, <2>3, <2>4
<1>. HIDE DEF ink, lo, hi
<1>10. Min(ink) = lo /\ Max(ink) = hi /\ ink # {}
  <2>1. ink \in SUBSET Nat
    BY <1>9
  <2>. QED  BY <1>8, <1>9, <2>1, LeastIs, GreatestIs
<1>11. SubSeq(text, a - (c + 1) + 1, b - (c + 1) + 1) = SubSeq(line, a, b)
  <2>1. a \in (c + 1) .. ((e - 1) + 1) /\ b \in ((c + 1) - 1) .. (e - 1) /\ a <= b + 1
    BY <1>2, <1>7
  <2>. QED  BY <1>5, <2>1, PartOfPart DEF text
<1>12. a - (c + 1) + 1 = lo /\ b - (c + 1) + 1 = hi
  BY <1>2 DEF lo, hi
<1>. QED  BY <1>4, <1>10, <1>11, <1>12

LEMMA FieldBlank ==
  ASSUME NEW S, line \in Seq(S), NEW n \in Nat, NEW c, NEW e,
         NthComma(line, n, c), Closed(c, e), Only(line, c, e, {Blank})
  PROVE  Field(n + 1) = << >>
<1>. DEFINE text == SubSeq(line, c + 1, e - 1)
            ink  == {k \in DOMAIN text : text[k] # Blank}
<1>1. Len(line) \in Nat /\ DOMAIN line = 1 .. Len(line)
  BY LenProperties
<1>2. c \in Nat /\ c <= Len(line) /\ e \in Nat /\ c < e /\ e <= Len(line) + 1
  BY <1>1 DEF NthComma, Closed
<1>3. CommaAt(n) = c /\ CommaAt(n + 1) = e /\ (n + 1) - 1 = n
  BY FieldIsBetween
<1>4. Field(n + 1) = IF ink = {} THEN << >> ELSE SubSeq(text, Min(ink), Max(ink))
  BY <1>3 DEF Field
<1>5. c + 1 \in 1 .. (Len(line) + 1) /\ e - 1 \in 0 .. Len(line) /\ c + 1 <= (e - 1) + 1
  BY <1>1, <1>2
<1>6. ASSUME NEW k \in DOMAIN text PROVE text[k] = Blank
  <2>1. /\ text \in Seq(S) /\ Len(text) = (e - 1) - (c + 1) + 1
        /\ \A m \in 1 .. ((e - 1) - (c + 1) + 1) : text[m] = line[(c + 1) + m - 1]
    BY <1>5, PartOfText
  <2>2. DOMAIN text = 1 .. Len(text)
    BY <2>1, LenProperties
  <2>. HIDE DEF text
  <2>3. k \in 1 .. ((e - 1) - (c + 1) + 1) /\ (c + 1) + k - 1 \in (c + 1) .. (e - 1)
    BY <1>2, <2>1, <2>2
  <2>. QED  BY <2>1, <2>3 DEF Only
<1>7. ink = {}
  BY <1>6
<1>. QED  BY <1>4, <1>7

\* A field whose ink is known is closed.
LEMMA InkedIsClosed ==
  ASSUME Len(line) \in Nat, NEW c \in Nat, NEW a \in Nat, NEW b \in Nat,
         NEW e \in 1 .. (Len(line) + 1), e # Len(line) + 1 => line[e] = Comma,
         Inked(line, c, a, b, e)
  PROVE  Closed(c, e)
<1>1. e \in (c + 1) .. (Len(line) + 1)
  BY DEF Inked
<1>2. ASSUME NEW k \in (c + 1) .. (e - 1) PROVE line[k] # Comma
  <2>1. k \in (c + 1) .. (a - 1) \/ k \in a .. b \/ k \in (b + 1) .. (e - 1)
    OBVIOUS
  <2>2. Blank # Comma
    BY CharactersDiffer
  <2>. QED  BY <2>1, <2>2 DEF Inked, Only
<1>. QED  BY <1>1, <1>2 DEF Closed

-----------------------------------------------------------------------------
(* Numbers in a text.                                                       *)

LEMMA PartIsNumber ==
  ASSUME NEW S, NEW s \in Seq(S), NEW m \in 1 .. (Len(s) + 1), NEW n \in 0 .. Len(s),
         m <= n + 1, \A k \in m .. n : s[k] \in Digits
  PROVE  SubSeq(s, m, n) \in Seq(Digits)
<1>1. Len(s) \in Nat
  BY LenProperties
<1>2. m \in Int /\ n \in Int
  BY <1>1
<1>. QED  BY <1>2, SubSeqProperties

\* The digits in front of a text.
LEMMA FrontNumberIs ==
  ASSUME NEW S, NEW text \in Seq(S), NEW m \in 0 .. Len(text),
         \A k \in 1 .. m : text[k] \in Digits,
         m < Len(text) => text[m + 1] \notin Digits
  PROVE  FrontNumber(text) = SubSeq(text, 1, m)
<1>. DEFINE others == {k \in DOMAIN text : text[k] \notin Digits}
            T      == others \cup {Len(text) + 1}
            x      == m + 1
<1>1. Len(text) \in Nat /\ DOMAIN text = 1 .. Len(text)
  BY LenProperties
<1>2. x \in T
  <2>1. CASE m < Len(text)
    BY <1>1, <2>1
  <2>2. CASE m = Len(text)
    BY <2>2
  <2>3. m < Len(text) \/ m = Len(text)
    <3>. HIDE DEF T
    <3>1. m \in Nat /\ m <= Len(text)
      BY <1>1
    <3>2. \A a, b \in Nat : a <= b => a < b \/ a = b
      OBVIOUS
    <3>. QED  BY <1>1, <3>1, <3>2, Zenon
  <2>. QED  BY <2>1, <2>2, <2>3
<1>3. ASSUME NEW k \in T PROVE k \in Nat /\ x <= k
  <2>1. (k \in 1 .. Len(text) /\ text[k] \notin Digits) \/ k = Len(text) + 1
    BY <1>1
  <2>2. CASE k \in 1 .. Len(text) /\ text[k] \notin Digits
    <3>1. k \notin 1 .. m
      BY <2>2
    <3>. QED  BY <1>1, <2>2, <3>1
  <2>3. CASE k = Len(text) + 1
    BY <1>1, <2>3
  <2>. QED  BY <2>1, <2>2, <2>3
<1>4. FrontNumber(text) = SubSeq(text, 1, Min(T) - 1)
  BY DEF FrontNumber
<1>. HIDE DEF T, x
<1>5. Min(T) = x
  <2>1. T \in SUBSET Nat
    BY <1>3
  <2>. QED  BY <1>2, <1>3, <2>1, LeastIs
<1>6. x - 1 = m
  BY <1>1 DEF x
<1>. QED  BY <1>4, <1>5, <1>6

LEMMA NumberHasValue ==
  \A digits : Decimal(digits) = retreive_unsigned_integer(digits)
BY Zenon DEF Decimal, retreive_unsigned_integer

\* A price of an integer part and of the decimals that are kept.
PriceValue(integer, kept) ==
  retreive_unsigned_integer(integer) * PowerOfTen[PricePrecision]
  + retreive_unsigned_integer(kept) * PowerOfTen[PricePrecision - Len(kept)]

LEMMA LimitsAreNatural ==
  /\ MaxLen \in Nat /\ OrderIdDigits \in Nat /\ QtyDigits \in Nat
  /\ PriceDigits \in Nat /\ PricePrecision \in Nat
BY ParserAssumption

LEMMA PriceIsBounded ==
  ASSUME NEW integer \in Seq(Digits), NEW kept \in Seq(Digits),
         Len(kept) <= PricePrecision
  PROVE  /\ PriceValue(integer, kept) \in Nat
         /\ Len(integer) <= PriceDigits =>
              PriceValue(integer, kept) < PowerOfTen[PriceDigits + PricePrecision]
<1>. DEFINE n  == Len(kept)
            m  == Len(integer)
            l  == PricePrecision - n
            v  == retreive_unsigned_integer(integer)
            w  == retreive_unsigned_integer(kept)
            p  == PowerOfTen[PricePrecision]
            pl == PowerOfTen[l]
            pn == PowerOfTen[n]
            q  == PowerOfTen[PriceDigits]
<1>1. n \in Nat /\ m \in Nat /\ l \in Nat /\ n + l = PricePrecision
  BY LenProperties, LimitsAreNatural
<1>2. v \in Nat /\ w \in Nat /\ v < PowerOfTen[m] /\ w < pn
  BY NumberIsBounded
<1>3. p \in Nat /\ pl \in Nat \ {0} /\ pn \in Nat /\ q \in Nat /\ PowerOfTen[m] \in Nat
  BY <1>1, PowersArePositive, LimitsAreNatural
<1>4. p = pn * pl
  <2>1. PowerOfTen[n + l] = pn * pl
    BY <1>1, PowersMultiply
  <2>. QED  BY <1>1, <2>1
<1>5. PowerOfTen[PriceDigits + PricePrecision] = q * p
  BY PowersMultiply, LimitsAreNatural
<1>6. m <= PriceDigits => v < q
  <2>1. m <= PriceDigits => PowerOfTen[m] <= q
    BY <1>1, PowersAreOrdered, LimitsAreNatural
  <2>. HIDE DEF v, q
  <2>. QED  BY <1>2, <1>3, <2>1
<1>7. PriceValue(integer, kept) = v * p + w * pl
  BY DEF PriceValue
<1>. HIDE DEF n, m, l, v, w, p, pl, pn, q
<1>8. v * p + w * pl \in Nat
  BY <1>2, <1>3
<1>9. ASSUME v < q PROVE v * p + w * pl < q * p
  <2>1. w * pl < pn * pl
    BY <1>2, <1>3
  <2>2. (v + 1) * p <= q * p
    BY <1>2, <1>3, <1>9
  <2>3. (v + 1) * p = v * p + p
    BY <1>2, <1>3
  <2>4. v * p \in Nat /\ w * pl \in Nat /\ q * p \in Nat
    BY <1>2, <1>3
  <2>. DEFINE vp == v * p
              wl == w * pl
              qp == q * p
  <2>5. wl < p /\ vp + p <= qp /\ vp \in Nat /\ wl \in Nat /\ qp \in Nat
    BY <1>4, <2>1, <2>2, <2>3, <2>4
  <2>. HIDE DEF vp, wl, qp
  <2>6. vp + wl < qp
    BY <1>3, <2>5
  <2>. QED  BY <2>6 DEF vp, wl, qp
<1>. QED  BY <1>5, <1>6, <1>7, <1>8, <1>9 DEF m

-----------------------------------------------------------------------------
(* The price: digits from s to before j, with a point at d unless d = 0.    *)

Priced(text, s, d, j) ==
  /\ s \in Nat \ {0} /\ j \in Nat /\ d \in Nat
  /\ s < j /\ j <= Len(text) + 1
  /\ d # 0 => s < d /\ d < j /\ text[d] = "."
  /\ \A k \in s .. (j - 1) : k # d => text[k] \in Digits

IntegerPart(text, s, d, j) == SubSeq(text, s, (IF d = 0 THEN j ELSE d) - 1)

LastKept(d, j) == IF d = 0 THEN j - 1 ELSE Min({j - 1, d + PricePrecision})

KeptPart(text, d, j) ==
  IF d = 0 THEN << >> ELSE SubSeq(text, d + 1, LastKept(d, j))

LEMMA LastKeptIs ==
  ASSUME NEW d \in Nat \ {0}, NEW j \in Nat, d < j
  PROVE  /\ LastKept(d, j) \in Nat
         /\ d <= LastKept(d, j) /\ LastKept(d, j) <= j - 1
         /\ LastKept(d, j) <= d + PricePrecision
         /\ LastKept(d, j) = d + Min({j - 1 - d, PricePrecision})
<1>. DEFINE a == j - 1
            b == d + PricePrecision
            c == j - 1 - d
            p == PricePrecision
<1>1. a \in Nat /\ b \in Nat /\ c \in Nat /\ p \in Nat /\ a = d + c /\ b = d + p
  BY LimitsAreNatural
<1>2. LastKept(d, j) = Min({a, b})
  BY DEF LastKept
<1>. HIDE DEF a, b, c, p
<1>3. CASE a <= b
  <2>1. Min({a, b}) = a
    <3>1. {a, b} \in SUBSET Nat /\ a \in {a, b} /\ \A k \in {a, b} : a <= k
      BY <1>1, <1>3
    <3>. QED  BY <3>1, LeastIs
  <2>2. Min({c, p}) = c
    <3>1. {c, p} \in SUBSET Nat /\ c \in {c, p} /\ \A k \in {c, p} : c <= k
      BY <1>1, <1>3
    <3>. QED  BY <3>1, LeastIs
  <2>3. a \in Nat /\ d <= a /\ a <= j - 1 /\ a <= d + p /\ a = d + c
    BY <1>1, <1>3 DEF a
  <2>. QED  BY <1>2, <2>1, <2>2, <2>3 DEF c, p
<1>4. CASE b < a
  <2>1. Min({a, b}) = b
    <3>1. {a, b} \in SUBSET Nat /\ b \in {a, b} /\ \A k \in {a, b} : b <= k
      BY <1>1, <1>4
    <3>. QED  BY <3>1, LeastIs
  <2>2. Min({c, p}) = p
    <3>1. {c, p} \in SUBSET Nat /\ p \in {c, p} /\ \A k \in {c, p} : p <= k
      BY <1>1, <1>4
    <3>. QED  BY <3>1, LeastIs
  <2>3. b \in Nat /\ d <= b /\ b <= j - 1 /\ b <= d + p /\ b = d + p
    BY <1>1, <1>4 DEF a
  <2>. QED  BY <1>2, <2>1, <2>2, <2>3 DEF c, p
<1>. QED  BY <1>1, <1>3, <1>4

LEMMA PricePartsAreNumbers ==
  ASSUME NEW S, NEW text \in Seq(S), NEW s, NEW d, NEW j, Priced(text, s, d, j)
  PROVE  /\ IntegerPart(text, s, d, j) \in Seq(Digits)
         /\ KeptPart(text, d, j) \in Seq(Digits)
         /\ Len(KeptPart(text, d, j)) <= PricePrecision
         /\ d # 0 => Len(KeptPart(text, d, j)) = LastKept(d, j) - d
<1>1. /\ Len(text) \in Nat /\ s \in Nat \ {0} /\ d \in Nat /\ j \in Nat
      /\ s < j /\ j <= Len(text) + 1 /\ (d # 0 => s < d /\ d < j)
  BY LenProperties DEF Priced
<1>2. IntegerPart(text, s, d, j) \in Seq(Digits)
  <2>. DEFINE n == (IF d = 0 THEN j ELSE d) - 1
  <2>1. s \in 1 .. (Len(text) + 1) /\ n \in 0 .. Len(text) /\ s <= n + 1 /\ n <= j - 1
        /\ (d # 0 => n < d)
    BY <1>1
  <2>. HIDE DEF n
  <2>2. \A k \in s .. n : text[k] \in Digits
    <3>1. \A k \in s .. n : k \in s .. (j - 1) /\ k # d
      BY <1>1, <2>1
    <3>. QED  BY <3>1 DEF Priced
  <2>3. SubSeq(text, s, n) \in Seq(Digits)
    BY <2>1, <2>2, PartIsNumber
  <2>. QED  BY <2>3 DEF n, IntegerPart
<1>3. CASE d = 0
  <2>1. KeptPart(text, d, j) = << >>
    BY <1>3 DEF KeptPart
  <2>2. << >> \in Seq(Digits) /\ Len(<< >>) = 0 /\ 0 <= PricePrecision
    BY EmptySeq, LimitsAreNatural
  <2>. QED  BY <1>2, <1>3, <2>1, <2>2
<1>4. CASE d # 0
  <2>. DEFINE n == LastKept(d, j)
  <2>1. n \in Nat /\ d <= n /\ n <= j - 1 /\ n <= d + PricePrecision
    BY <1>1, <1>4, LastKeptIs
  <2>. HIDE DEF n
  <2>2. d + 1 \in 1 .. (Len(text) + 1) /\ n \in 0 .. Len(text) /\ d + 1 <= n + 1
    BY <1>1, <1>4, <2>1
  <2>3. \A k \in (d + 1) .. n : text[k] \in Digits
    <3>1. \A k \in (d + 1) .. n : k \in s .. (j - 1) /\ k # d
      BY <1>1, <1>4, <2>1
    <3>. QED  BY <3>1 DEF Priced
  <2>4. SubSeq(text, d + 1, n) \in Seq(Digits)
    BY <2>2, <2>3, PartIsNumber
  <2>5. Len(SubSeq(text, d + 1, n)) = n - (d + 1) + 1
    BY <2>2, PartOfText
  <2>6. n - (d + 1) + 1 = n - d /\ n - d <= PricePrecision
    BY <1>1, <2>1, LimitsAreNatural
  <2>7. KeptPart(text, d, j) = SubSeq(text, d + 1, n)
    BY <1>4 DEF KeptPart, n
  <2>. QED  BY <1>2, <2>4, <2>5, <2>6, <2>7 DEF n
<1>. QED  BY <1>3, <1>4

\* What the code reads is the price of these parts.
LEMMA PriceIsRead ==
  ASSUME NEW S, NEW text \in Seq(S), NEW s, NEW d, NEW j, Priced(text, s, d, j)
  PROVE  retreive_unsigned_float(SubSeq(text, s, LastKept(d, j)), PricePrecision)
           = PriceValue(IntegerPart(text, s, d, j), KeptPart(text, d, j))
<1>. DEFINE n   == LastKept(d, j)
            str == SubSeq(text, s, n)
            I   == {k \in 1 .. Len(str) : str[k] = "."}
            point == IF I # {} THEN Min(I) ELSE 0
<1>1. /\ Len(text) \in Nat /\ s \in Nat \ {0} /\ d \in Nat /\ j \in Nat
      /\ s < j /\ j <= Len(text) + 1 /\ (d # 0 => s < d /\ d < j /\ text[d] = ".")
  BY LenProperties DEF Priced
<1>2. n \in Nat /\ s <= n /\ n <= j - 1 /\ (d # 0 => d <= n) /\ (d = 0 => n = j - 1)
  <2>1. CASE d = 0
    <3>1. n = j - 1
      BY <2>1 DEF LastKept
    <3>. HIDE DEF n
    <3>. QED  BY <1>1, <2>1, <3>1
  <2>2. CASE d # 0
    <3>1. n \in Nat /\ d <= n /\ n <= j - 1
      BY <1>1, <2>2, LastKeptIs
    <3>. HIDE DEF n
    <3>. QED  BY <1>1, <2>2, <3>1
  <2>. QED  BY <2>1, <2>2
<1>. HIDE DEF n
<1>3. s \in 1 .. (Len(text) + 1) /\ n \in 0 .. Len(text) /\ s <= n + 1
  BY <1>1, <1>2
<1>4. /\ str \in Seq(S) /\ Len(str) = n - s + 1
      /\ \A k \in 1 .. (n - s + 1) : str[k] = text[s + k - 1]
  BY <1>3, PartOfText
<1>5. retreive_unsigned_float(str, PricePrecision) =
        retreive_unsigned_integer(IF point = 0 THEN str ELSE SubSeq(str, 1, point - 1))
          * PowerOfTen[PricePrecision]
        + retreive_unsigned_integer(IF point = 0 THEN << >>
                                    ELSE SubSeq(str, point + 1, Len(str)))
          * PowerOfTen[PricePrecision
                       - Len(IF point = 0 THEN << >>
                             ELSE SubSeq(str, point + 1, Len(str)))]
  BY Zenon DEF retreive_unsigned_float, SelectInSeq
<1>6. "." \notin Digits
  BY CharactersDiffer
<1>7. CASE d = 0
  <2>1. I = {}
    <3>1. ASSUME NEW k \in 1 .. Len(str) PROVE str[k] # "."
      <4>1. k \in 1 .. (n - s + 1) /\ s + k - 1 \in s .. (j - 1) /\ s + k - 1 # d
        BY <1>1, <1>2, <1>4, <1>7
      <4>2. text[s + k - 1] \in Digits
        BY <4>1 DEF Priced
      <4>. QED  BY <1>4, <1>6, <4>1, <4>2
    <3>. QED  BY <3>1
  <2>2. point = 0
    BY <2>1
  <2>3. IntegerPart(text, s, d, j) = str /\ KeptPart(text, d, j) = << >>
    BY <1>2, <1>7 DEF IntegerPart, KeptPart
  <2>. HIDE DEF str, point
  <2>. QED  BY <1>5, <2>2, <2>3 DEF PriceValue, n, str
<1>8. CASE d # 0
  <2>. DEFINE x == d - s + 1
  <2>1. x \in 1 .. Len(str) /\ s + x - 1 = d /\ x \in Nat /\ x # 0
    BY <1>1, <1>2, <1>4, <1>8
  <2>2. str[x] = "."
    BY <1>1, <1>4, <1>8, <2>1
  <2>3. ASSUME NEW k \in I PROVE x <= k
    <3>1. k \in 1 .. (n - s + 1) /\ text[s + k - 1] = "."
      BY <1>4
    <3>2. s + k - 1 \in s .. (j - 1)
      BY <1>1, <1>2, <3>1
    <3>3. s + k - 1 = d
      BY <1>6, <3>1, <3>2 DEF Priced
    <3>. QED  BY <1>1, <3>1, <3>3
  <2>4. x \in I /\ I \in SUBSET Nat
    BY <1>1, <1>2, <1>4, <2>1, <2>2
  <2>. HIDE DEF I, x
  <2>5. Min(I) = x
    BY <2>3, <2>4, LeastIs
  <2>6. point = x /\ point # 0
    BY <2>1, <2>4, <2>5
  <2>7. SubSeq(str, 1, x - 1) = SubSeq(text, s, d - 1)
    <3>1. s \in s .. (n + 1) /\ d - 1 \in (s - 1) .. n /\ s <= (d - 1) + 1
      BY <1>1, <1>2, <1>8
    <3>2. SubSeq(str, s - s + 1, (d - 1) - s + 1) = SubSeq(text, s, d - 1)
      BY <1>3, <3>1, PartOfPart
    <3>3. s - s + 1 = 1 /\ (d - 1) - s + 1 = x - 1
      BY <1>1 DEF x
    <3>. QED  BY <3>2, <3>3
  <2>8. SubSeq(str, x + 1, Len(str)) = SubSeq(text, d + 1, n)
    <3>. DEFINE a == d + 1
    <3>1. a \in s .. (n + 1) /\ n \in (s - 1) .. n /\ a <= n + 1
      BY <1>1, <1>2, <1>8
    <3>2. a - s + 1 = x + 1 /\ n - s + 1 = Len(str)
      BY <1>1, <1>4 DEF x
    <3>. HIDE DEF a
    <3>3. SubSeq(str, a - s + 1, n - s + 1) = SubSeq(text, a, n)
      BY <1>3, <3>1, PartOfPart
    <3>. QED  BY <3>2, <3>3 DEF a
  <2>9. /\ IntegerPart(text, s, d, j) = SubSeq(text, s, d - 1)
        /\ KeptPart(text, d, j) = SubSeq(text, d + 1, n)
    BY <1>8 DEF IntegerPart, KeptPart, n
  <2>. HIDE DEF str, point
  <2>. QED  BY <1>5, <2>6, <2>7, <2>8, <2>9 DEF PriceValue, n, str
<1>. QED  BY <1>7, <1>8

\* The text of the price field without blanks and slashes in front.
LEMMA PriceTextIs ==
  ASSUME NEW S, line \in Seq(S), NEW n \in Nat, NEW c, NEW e,
         NthComma(line, n, c), Closed(c, e), Text("price") = Field(n + 1),
         NEW s \in Nat, NEW r \in Nat, c < s, s <= r, r < e,
         Only(line, c, s, {Blank, "/"}), line[s] \notin {Blank, "/"},
         line[r] # Blank, Only(line, r, e, {Blank})
  PROVE  PriceText = SubSeq(line, s, r)
<1>1. Len(line) \in Nat
  BY LenProperties
<1>2. c \in Nat /\ c <= Len(line) /\ e \in Nat /\ c < e /\ e <= Len(line) + 1
  BY <1>1 DEF NthComma, Closed
<1>. DEFINE T == {k \in (c + 1) .. s : line[k] # Blank}
<1>3. PICK a \in T : \A k \in T : a <= k
  <2>1. T \in SUBSET Nat /\ s \in T
    BY <1>2
  <2>. HIDE DEF T
  <2>. QED  BY <2>1, LeastNatural
<1>4. a \in Nat /\ c < a /\ a <= s /\ line[a] # Blank
  BY <1>2
<1>5. Inked(line, c, a, r, e)
  <2>1. ASSUME NEW k \in (c + 1) .. (a - 1) PROVE line[k] \in {Blank}
    <3>1. k \in (c + 1) .. s /\ ~(a <= k)
      BY <1>2, <1>4
    <3>2. k \notin T
      BY <1>3, <3>1
    <3>. QED  BY <3>1, <3>2
  <2>2. ASSUME NEW k \in a .. r PROVE line[k] # Comma
    <3>1. k \in (c + 1) .. (e - 1)
      BY <1>2, <1>4
    <3>. QED  BY <3>1 DEF Closed
  <2>3. a <= r
    BY <1>4
  <2>. QED  BY <1>4, <2>1, <2>2, <2>3 DEF Inked, Only
<1>. HIDE DEF T
<1>. DEFINE text == SubSeq(line, a, r)
            ink  == {k \in DOMAIN text : text[k] \notin {Blank, "/"}}
            U    == ink \cup {Len(text) + 1}
            x    == s - a + 1
<1>6. Text("price") = text
  <2>1. Field(n + 1) = text
    BY <1>4, <1>5, FieldText
  <2>. QED  BY <2>1
<1>7. a \in 1 .. (Len(line) + 1) /\ r \in 0 .. Len(line) /\ a <= r + 1
  BY <1>1, <1>2, <1>4
<1>8. /\ text \in Seq(S) /\ Len(text) = r - a + 1 /\ DOMAIN text = 1 .. (r - a + 1)
      /\ \A k \in 1 .. (r - a + 1) : text[k] = line[a + k - 1]
  <2>1. /\ text \in Seq(S) /\ Len(text) = r - a + 1
        /\ \A k \in 1 .. (r - a + 1) : text[k] = line[a + k - 1]
    BY <1>7, PartOfText
  <2>. HIDE DEF text
  <2>. QED  BY <2>1, LenProperties
<1>9. PriceText = SubSeq(text, Min(U), Len(text))
  BY <1>6 DEF PriceText
<1>. HIDE DEF text
<1>10. x \in 1 .. (r - a + 1) /\ a + x - 1 = s
  BY <1>4
<1>11. x \in U
  BY <1>8, <1>10
<1>12. ASSUME NEW k \in U PROVE k \in Nat /\ x <= k
  <2>1. CASE k \in ink
    <3>1. k \in 1 .. (r - a + 1) /\ line[a + k - 1] \notin {Blank, "/"}
      BY <1>8, <2>1
    <3>2. a + k - 1 \notin (c + 1) .. (s - 1)
      BY <3>1 DEF Only
    <3>. QED  BY <1>2, <1>4, <3>1, <3>2
  <2>2. CASE k = Len(text) + 1
    BY <1>4, <1>8, <2>2
  <2>. QED  BY <2>1, <2>2
<1>. HIDE DEF U, x
<1>13. Min(U) = x
  <2>1. U \in SUBSET Nat
    BY <1>12
  <2>. QED  BY <1>11, <1>12, <2>1, LeastIs
<1>14. SubSeq(text, s - a + 1, r - a + 1) = SubSeq(line, s, r)
  <2>1. s \in a .. (r + 1) /\ r \in (a - 1) .. r /\ s <= r + 1
    BY <1>4
  <2>. QED  BY <1>7, <2>1, PartOfPart DEF text
<1>. QED  BY <1>8, <1>9, <1>13, <1>14 DEF x

\* Without anything else there is no price.
LEMMA PriceTextEmpty ==
  ASSUME NEW S, line \in Seq(S), NEW n \in Nat, NEW c, NEW e,
         NthComma(line, n, c), Closed(c, e), Text("price") = Field(n + 1),
         Only(line, c, e, {Blank, "/"})
  PROVE  PriceText = << >>
<1>. DEFINE text == Text("price")
            ink  == {k \in DOMAIN text : text[k] \notin {Blank, "/"}}
            U    == ink \cup {Len(text) + 1}
<1>1. Len(line) \in Nat
  BY LenProperties
<1>2. c \in Nat /\ c <= Len(line) /\ e \in Nat /\ c < e /\ e <= Len(line) + 1
  BY <1>1 DEF NthComma, Closed
<1>3. Len(text) \in Nat /\ \A k \in DOMAIN text : text[k] \in {Blank, "/"}
  <2>. DEFINE T == {k \in (c + 1) .. (e - 1) : line[k] # Blank}
  <2>1. CASE T = {}
    <3>1. Only(line, c, e, {Blank})
      BY <2>1 DEF Only
    <3>2. text = << >>
      BY <3>1, FieldBlank
    <3>3. << >> \in Seq(S) /\ Len(<< >>) = 0
      BY EmptySeq
    <3>4. Len(text) = 0 /\ DOMAIN text = 1 .. 0
      BY <3>2, <3>3, LenProperties
    <3>. HIDE DEF text
    <3>. QED  BY <3>4
  <2>2. CASE T # {}
    <3>0. T \in SUBSET Nat /\ \A k \in T : k <= e - 1
      BY <1>2
    <3>1. PICK a \in T : \A k \in T : a <= k
      <4>. HIDE DEF T
      <4>. QED  BY <2>2, <3>0, LeastNatural
    <3>2. PICK b \in T : \A k \in T : k <= b
      <4>1. e - 1 \in Nat
        BY <1>2
      <4>. HIDE DEF T
      <4>2. Max(T) \in T /\ \A k \in T : k <= Max(T)
        BY <2>2, <3>0, <4>1, MaxIsGreatest
      <4>. QED  BY <4>2
    <3>3. /\ a \in Nat /\ b \in Nat /\ c < a /\ a <= b /\ b < e
          /\ line[a] # Blank /\ line[b] # Blank
      BY <1>2, <3>1
    <3>4. Inked(line, c, a, b, e)
      <4>1. ASSUME NEW k \in (c + 1) .. (a - 1) PROVE line[k] \in {Blank}
        <5>1. k \in (c + 1) .. (e - 1) /\ ~(a <= k)
          BY <1>2, <3>3
        <5>2. k \notin T
          BY <3>1, <5>1
        <5>. QED  BY <5>1, <5>2
      <4>2. ASSUME NEW k \in (b + 1) .. (e - 1) PROVE line[k] \in {Blank}
        <5>1. k \in (c + 1) .. (e - 1) /\ ~(k <= b)
          BY <1>2, <3>3
        <5>2. k \notin T
          BY <3>2, <5>1
        <5>. QED  BY <5>1, <5>2
      <4>3. ASSUME NEW k \in a .. b PROVE line[k] # Comma
        <5>1. k \in (c + 1) .. (e - 1)
          BY <1>2, <3>3
        <5>. QED  BY <5>1 DEF Closed
      <4>. QED  BY <3>3, <4>1, <4>2, <4>3 DEF Inked, Only
    <3>. HIDE DEF T
    <3>5. text = SubSeq(line, a, b)
      BY <3>3, <3>4, FieldText
    <3>6. a \in 1 .. (Len(line) + 1) /\ b \in 0 .. Len(line) /\ a <= b + 1
      BY <1>1, <1>2, <3>3
    <3>. HIDE DEF text
    <3>7. /\ text \in Seq(S) /\ Len(text) = b - a + 1
          /\ \A k \in 1 .. (b - a + 1) : text[k] = line[a + k - 1]
      BY <3>5, <3>6, PartOfText
    <3>8. Len(text) \in Nat /\ DOMAIN text = 1 .. (b - a + 1)
      BY <3>7, LenProperties
    <3>9. ASSUME NEW k \in DOMAIN text PROVE text[k] \in {Blank, "/"}
      <4>1. k \in 1 .. (b - a + 1)
        BY <3>8
      <4>2. a + k - 1 \in (c + 1) .. (e - 1)
        BY <1>2, <3>3, <4>1
      <4>3. text[k] = line[a + k - 1]
        BY <3>7, <4>1
      <4>. QED  BY <4>2, <4>3 DEF Only
    <3>. QED  BY <3>8, <3>9
  <2>. QED  BY <2>1, <2>2
<1>4. PriceText = SubSeq(text, Min(U), Len(text))
  BY DEF PriceText
<1>. HIDE DEF text
<1>5. U = {Len(text) + 1}
  BY <1>3
<1>. DEFINE x == Len(text) + 1
<1>. HIDE DEF U
<1>6. Min(U) = x
  <2>1. U \in SUBSET Nat /\ x \in U /\ \A k \in U : x <= k
    BY <1>3, <1>5
  <2>. HIDE DEF x
  <2>. QED  BY <2>1, LeastIs
<1>7. SubSeq(text, x, Len(text)) = << >>
  <2>1. x \in Int /\ Len(text) \in Int /\ Len(text) < x
    BY <1>3
  <2>. HIDE DEF x
  <2>. QED  BY <2>1, SubSeqEmpty
<1>. QED  BY <1>4, <1>6, <1>7

\* Its numbers are the parts that the code reads, whether a slash follows or
\* not.
LEMMA PriceTextHasParts ==
  ASSUME NEW S, line \in Seq(S), NEW s, NEW d, NEW j, Priced(line, s, d, j),
         NEW r \in Nat, PriceText = SubSeq(line, s, r),
         r = j - 1 \/ (r = j /\ j <= Len(line) /\ line[j] = "/")
  PROVE  /\ FrontNumber(PriceText) = IntegerPart(line, s, d, j)
         /\ PriceOf(FrontNumber(PriceText), PriceDecimals)
              = PriceValue(IntegerPart(line, s, d, j), KeptPart(line, d, j))
<1>. DEFINE text == SubSeq(line, s, r)
            m    == (IF d = 0 THEN j ELSE d) - s
            rest == SubSeq(text, m + 1, Len(text))
<1>1. /\ Len(line) \in Nat /\ s \in Nat \ {0} /\ d \in Nat /\ j \in Nat
      /\ s < j /\ j <= Len(line) + 1 /\ (d # 0 => s < d /\ d < j /\ line[d] = ".")
  BY LenProperties DEF Priced
<1>2. s \in 1 .. (Len(line) + 1) /\ r \in 0 .. Len(line) /\ s <= r + 1
      /\ j - 1 <= r /\ r <= j /\ s <= r
  BY <1>1
<1>3. /\ text \in Seq(S) /\ Len(text) = r - s + 1
      /\ \A k \in 1 .. (r - s + 1) : text[k] = line[s + k - 1]
  BY <1>2, PartOfText
<1>4. "." \notin Digits /\ "/" \notin Digits /\ "/" # "."
  BY CharactersDiffer
<1>5. m \in 0 .. (r - s + 1) /\ m \in Nat /\ (d = 0 => s + m = j) /\ (d # 0 => s + m = d)
  BY <1>1, <1>2
<1>. HIDE DEF text, m
<1>6. ASSUME NEW k \in 1 .. m PROVE text[k] \in Digits
  <2>1. k \in 1 .. (r - s + 1) /\ s + k - 1 \in s .. (j - 1) /\ s + k - 1 # d
    BY <1>1, <1>2, <1>5
  <2>2. line[s + k - 1] \in Digits
    BY <2>1 DEF Priced
  <2>. QED  BY <1>3, <2>1, <2>2
<1>7. ASSUME m < Len(text)
      PROVE  /\ text[m + 1] \notin Digits
             /\ d = 0 => text[m + 1] = "/"
             /\ d # 0 => text[m + 1] = "."
  <2>1. m + 1 \in 1 .. (r - s + 1) /\ s + (m + 1) - 1 = s + m
    BY <1>1, <1>2, <1>3, <1>5, <1>7
  <2>2. text[m + 1] = line[s + m]
    BY <1>3, <2>1
  <2>3. d = 0 => line[s + m] = "/"
    <3>1. d = 0 => s + m = j /\ r = j
      BY <1>1, <1>2, <1>3, <1>5, <1>7
    <3>. QED  BY <1>1, <3>1
  <2>4. d # 0 => line[s + m] = "."
    BY <1>1, <1>5
  <2>. QED  BY <1>4, <2>2, <2>3, <2>4
<1>8. FrontNumber(text) = SubSeq(text, 1, m)
  BY <1>3, <1>5, <1>6, <1>7, FrontNumberIs
<1>9. SubSeq(text, 1, m) = IntegerPart(line, s, d, j)
  <2>. DEFINE b == s + m - 1
  <2>1. s \in s .. (r + 1) /\ b \in (s - 1) .. r /\ s <= b + 1 /\ s - s + 1 = 1 /\ b - s + 1 = m
        /\ b = (IF d = 0 THEN j ELSE d) - 1
    BY <1>1, <1>2, <1>5
  <2>. HIDE DEF b
  <2>2. SubSeq(SubSeq(line, s, r), s - s + 1, b - s + 1) = SubSeq(line, s, b)
    BY <1>2, <2>1, PartOfPart
  <2>. QED  BY <2>1, <2>2 DEF text, IntegerPart
<1>10. Len(SubSeq(text, 1, m)) = m
  <2>1. 1 \in 1 .. (Len(text) + 1) /\ m \in 0 .. Len(text) /\ 1 <= m + 1 /\ m - 1 + 1 = m
    BY <1>2, <1>3, <1>5
  <2>. QED  BY <1>3, <2>1, PartOfText
<1>11. PriceDecimals = IF rest # << >> /\ rest[1] = "." THEN FrontNumber(Tail(rest)) ELSE << >>
  BY <1>8, <1>10 DEF PriceDecimals, text
<1>12. rest = SubSeq(line, s + m, r)
  <2>. DEFINE a == s + m
  <2>1. a \in s .. (r + 1) /\ r \in (s - 1) .. r /\ a <= r + 1 /\ a - s + 1 = m + 1
        /\ r - s + 1 = Len(text)
    BY <1>1, <1>2, <1>3, <1>5
  <2>. HIDE DEF a
  <2>2. SubSeq(SubSeq(line, s, r), a - s + 1, r - s + 1) = SubSeq(line, a, r)
    BY <1>2, <2>1, PartOfPart
  <2>. QED  BY <2>1, <2>2 DEF text, a
<1>13. PriceText = text
  BY DEF text
<1>14. CASE d = 0
  <2>1. PriceDecimals = << >>
    <3>1. CASE r = j - 1
      <4>1. r < s + m /\ s + m \in Int /\ r \in Int
        BY <1>1, <1>5, <1>14, <3>1
      <4>2. rest = << >>
        BY <1>12, <4>1, SubSeqEmpty
      <4>. HIDE DEF rest
      <4>. QED  BY <1>11, <4>2
    <3>2. CASE r = j
      <4>1. rest = SubSeq(line, j, j) /\ j \in 1 .. Len(line)
        BY <1>1, <1>2, <1>5, <1>12, <1>14, <3>2
      <4>2. rest[1] = line[j] /\ line[j] = "/"
        <5>1. j \in 1 .. (Len(line) + 1) /\ j \in 0 .. Len(line) /\ j <= j + 1
              /\ 1 \in 1 .. (j - j + 1) /\ j + 1 - 1 = j
          BY <4>1, <1>1
        <5>2. SubSeq(line, j, j)[1] = line[j + 1 - 1]
          BY <5>1, PartOfText
        <5>3. j # j - 1
          BY <1>1
        <5>. QED  BY <3>2, <4>1, <5>1, <5>2, <5>3
      <4>. HIDE DEF rest
      <4>. QED  BY <1>4, <1>11, <4>2
    <3>. QED  BY <1>1, <1>2, <3>1, <3>2
  <2>2. KeptPart(line, d, j) = << >>
    BY <1>14 DEF KeptPart
  <2>3. SubSeq(<< >>, 1, Min({Len(<< >>), PricePrecision})) = << >>
    <3>. DEFINE x == Min({0, PricePrecision})
    <3>1. x = 0
      <4>1. {0, PricePrecision} \in SUBSET Nat /\ 0 \in {0, PricePrecision}
            /\ \A k \in {0, PricePrecision} : 0 <= k
        BY LimitsAreNatural
      <4>. DEFINE T == {0, PricePrecision}
                  zero == 0
      <4>2. T \in SUBSET Nat /\ zero \in T /\ \A k \in T : zero <= k
        BY <4>1
      <4>. HIDE DEF T, zero
      <4>3. Min(T) = zero
        BY <4>2, LeastIs
      <4>. QED  BY <4>3 DEF T, zero
    <3>2. Len(<< >>) = 0
      OBVIOUS
    <3>3. SubSeq(<< >>, 1, 0) = << >>
      OBVIOUS
    <3>. QED  BY <3>1, <3>2, <3>3
  <2>4. PriceOf(FrontNumber(PriceText), << >>) = PriceValue(FrontNumber(PriceText), << >>)
    BY <2>3, NumberHasValue DEF PriceOf, PriceValue
  <2>. QED  BY <1>8, <1>9, <1>13, <2>1, <2>2, <2>4
<1>15. CASE d # 0
  <2>. DEFINE t == SubSeq(line, d + 1, r)
              n == j - 1 - d
  <2>1. d \in 1 .. Len(line) /\ r \in d .. Len(line) /\ n \in Nat /\ s + m = d
    BY <1>1, <1>2, <1>5, <1>15
  <2>2. rest # << >> /\ rest[1] = "." /\ Tail(rest) = t
    <3>1. rest = SubSeq(line, d, r)
      BY <1>12, <2>1
    <3>2. Tail(SubSeq(line, d, r)) = t
      BY <2>1, HeadTailOfSubSeq
    <3>3. d \in 1 .. (Len(line) + 1) /\ r \in 0 .. Len(line) /\ d <= r + 1
          /\ 1 \in 1 .. (r - d + 1) /\ d + 1 - 1 = d
      BY <1>1, <2>1
    <3>4. Len(SubSeq(line, d, r)) = r - d + 1 /\ SubSeq(line, d, r)[1] = line[d + 1 - 1]
      BY <3>3, PartOfText
    <3>5. SubSeq(line, d, r) # << >>
      <4>1. r - d + 1 # 0
        BY <3>3
      <4>2. Len(<< >>) = 0
        OBVIOUS
      <4>. QED  BY <3>4, <4>1, <4>2
    <3>. QED  BY <1>1, <1>15, <3>1, <3>2, <3>3, <3>4, <3>5
  <2>3. PriceDecimals = FrontNumber(t)
    <3>. HIDE DEF rest, t
    <3>. QED  BY <1>11, <2>2
  <2>4. d + 1 \in 1 .. (Len(line) + 1) /\ r \in 0 .. Len(line) /\ d + 1 <= r + 1
        /\ r - (d + 1) + 1 = r - d
    BY <1>1, <2>1
  <2>5. /\ t \in Seq(S) /\ Len(t) = r - d
        /\ \A k \in 1 .. (r - d) : t[k] = line[(d + 1) + k - 1]
    <3>1. /\ t \in Seq(S) /\ Len(t) = r - (d + 1) + 1
          /\ \A k \in 1 .. (r - (d + 1) + 1) : t[k] = line[(d + 1) + k - 1]
      BY <2>4, PartOfText
    <3>. HIDE DEF t
    <3>. QED  BY <2>4, <3>1
  <2>. HIDE DEF t
  <2>6. n \in 0 .. Len(t) /\ n <= r - d
    BY <1>1, <1>2, <1>15, <2>1, <2>5
  <2>7. ASSUME NEW k \in 1 .. n PROVE t[k] \in Digits
    <3>1. k \in 1 .. (r - d) /\ (d + 1) + k - 1 \in s .. (j - 1) /\ (d + 1) + k - 1 # d
      BY <1>1, <1>15, <2>1, <2>6
    <3>2. line[(d + 1) + k - 1] \in Digits
      BY <3>1 DEF Priced
    <3>. QED  BY <2>5, <3>1, <3>2
  <2>8. ASSUME n < Len(t) PROVE t[n + 1] \notin Digits
    <3>1. r = j /\ n + 1 \in 1 .. (r - d) /\ (d + 1) + (n + 1) - 1 = j
      BY <1>1, <1>2, <2>1, <2>5, <2>6, <2>8
    <3>2. r # j - 1
      BY <1>1, <3>1
    <3>. QED  BY <1>4, <2>5, <3>1, <3>2
  <2>. HIDE DEF n
  <2>9. FrontNumber(t) = SubSeq(t, 1, n)
    BY <2>5, <2>6, <2>7, <2>8, FrontNumberIs
  <2>. DEFINE D == SubSeq(t, 1, n)
              l == LastKept(d, j)
              x == Min({n, PricePrecision})
  <2>10. l \in Nat /\ d <= l /\ l <= j - 1 /\ l = d + x
    <3>1. l \in Nat /\ d <= l /\ l <= j - 1 /\ l = d + Min({j - 1 - d, PricePrecision})
      BY <1>1, <1>15, LastKeptIs
    <3>. QED  BY <3>1 DEF n
  <2>11. x \in 0 .. n
    <3>. DEFINE p == PricePrecision
    <3>1. {n, p} \in SUBSET Nat /\ {n, p} # {}
      BY <2>1, LimitsAreNatural
    <3>. HIDE DEF p
    <3>2. Min({n, p}) \in {n, p} /\ \A k \in {n, p} : Min({n, p}) <= k
      BY <3>1, MinIsLeast
    <3>. DEFINE y == Min({n, p})
    <3>. HIDE DEF y
    <3>3. y \in Nat /\ y <= n
      BY <3>1, <3>2 DEF y
    <3>4. x = y
      BY DEF y, p
    <3>. HIDE DEF x
    <3>. QED  BY <2>1, <3>3, <3>4
  <2>. HIDE DEF l, x
  <2>12. D = SubSeq(line, d + 1, j - 1) /\ Len(D) = n
    <3>. DEFINE a == d + 1
                b == j - 1
    <3>1. a \in a .. (r + 1) /\ b \in (a - 1) .. r /\ a <= b + 1 /\ a - a + 1 = 1 /\ b - a + 1 = n
      BY <1>1, <1>2, <2>1 DEF n
    <3>2. a \in 1 .. (Len(line) + 1) /\ r \in 0 .. Len(line) /\ a <= r + 1
      BY <2>4
    <3>. HIDE DEF a, b
    <3>3. SubSeq(SubSeq(line, a, r), a - a + 1, b - a + 1) = SubSeq(line, a, b)
      BY <3>1, <3>2, PartOfPart
    <3>4. a \in 1 .. (Len(line) + 1) /\ b \in 0 .. Len(line) /\ a <= b + 1
      BY <1>1, <3>1, <3>2 DEF b
    <3>5. Len(SubSeq(line, a, b)) = b - a + 1
      BY <3>4, PartOfText
    <3>. QED  BY <3>1, <3>3, <3>5 DEF a, b, t
  <2>13. SubSeq(D, 1, x) = KeptPart(line, d, j)
    <3>. DEFINE a == d + 1
                b == j - 1
    <3>1. a \in 1 .. (Len(line) + 1) /\ b \in 0 .. Len(line) /\ a <= b + 1
          /\ a \in a .. (b + 1) /\ l \in (a - 1) .. b /\ a <= l + 1
          /\ a - a + 1 = 1 /\ l - a + 1 = x
      BY <1>1, <1>15, <2>1, <2>10, <2>11
    <3>. HIDE DEF a, b
    <3>2. SubSeq(SubSeq(line, a, b), a - a + 1, l - a + 1) = SubSeq(line, a, l)
      BY <3>1, PartOfPart
    <3>. QED  BY <1>15, <2>12, <3>1, <3>2 DEF a, b, KeptPart, l
  <2>14. SubSeq(D, 1, Min({Len(D), PricePrecision})) = KeptPart(line, d, j)
    BY <2>12, <2>13 DEF x
  <2>15. PriceOf(FrontNumber(PriceText), D)
           = PriceValue(FrontNumber(PriceText), KeptPart(line, d, j))
    <3>. HIDE DEF D
    <3>. QED  BY <2>14, NumberHasValue DEF PriceOf, PriceValue
  <2>. QED  BY <1>8, <1>9, <1>13, <2>3, <2>9, <2>15
<1>. QED  BY <1>8, <1>9, <1>13, <1>14, <1>15

-----------------------------------------------------------------------------
(* The fields of a line and of a message.                                   *)

FieldNames == {"action", "orderId", "side", "qty", "price"}

Messages == [action : Actions \cup {"0"}, orderId : Nat,
             side : Sides \cup {"0"}, qty : Nat, price : Nat]

ValuesOf(f) ==
  CASE f = "action" -> Actions \cup {"0"}
    [] f = "side"   -> Sides \cup {"0"}
    [] OTHER        -> Nat

PlaceIn(msg, f) ==
  CASE f = "action"  -> 1
    [] f = "orderId" -> 2
    [] f = "side"    -> 3
    [] f = "qty"     -> IF msg.action = "T" THEN 2 ELSE 4
    [] f = "price"   -> IF msg.action = "T" THEN 3 ELSE 5

\* The field before f.
Previous ==
  [f \in FieldNames \ {"action"} |->
     CASE f = "orderId" -> "action"
       [] f = "side"    -> "orderId"
       [] f = "qty"     -> "side"
       [] f = "price"   -> "qty"]

LEMMA FieldsAreNamed ==
  /\ DOMAIN Fields = 1 .. 5
  /\ Fields[1] = "action" /\ Fields[2] = "orderId" /\ Fields[3] = "side"
  /\ Fields[4] = "qty" /\ Fields[5] = "price"
  /\ Range(Fields) = FieldNames
<1>1. /\ DOMAIN Fields = 1 .. 5
      /\ Fields[1] = "action" /\ Fields[2] = "orderId" /\ Fields[3] = "side"
      /\ Fields[4] = "qty" /\ Fields[5] = "price"
  BY DEF Fields
<1>2. \A n : n \in 1 .. 5 <=> n \in {1, 2, 3, 4, 5}
  OBVIOUS
<1>. QED  BY <1>1, <1>2 DEF Range, FieldNames

LEMMA FollowingFields ==
  /\ Following("action") = "orderId" /\ Following("orderId") = "side"
  /\ Following("side") = "qty" /\ Following("qty") = "price"
<1>1. ASSUME NEW n \in 2 .. 5, NEW f, f = Fields[n - 1]
      PROVE  Following(f) = Fields[n]
  <2>. DEFINE x == CHOOSE m \in DOMAIN Fields : m > 1 /\ Fields[m - 1] = f
  <2>1. \E m \in DOMAIN Fields : m > 1 /\ Fields[m - 1] = f
    BY <1>1, FieldsAreNamed
  <2>2. x \in DOMAIN Fields /\ x > 1 /\ Fields[x - 1] = f
    BY <2>1
  <2>. HIDE DEF x
  <2>3. x - 1 \in {1, 2, 3, 4} /\ n - 1 \in {1, 2, 3, 4}
    BY <2>2, FieldsAreNamed
  <2>. DEFINE y == x - 1
              z == n - 1
  <2>4. y \in {1, 2, 3, 4} /\ z \in {1, 2, 3, 4} /\ Fields[y] = Fields[z]
    BY <1>1, <2>2, <2>3
  <2>. HIDE DEF y, z
  <2>5. y = z
    BY <2>4, FieldsAreNamed
  <2>6. x = n
    BY <2>2, <2>5, FieldsAreNamed DEF y, z
  <2>. QED  BY <2>6 DEF Following, x
<1>2. 2 \in 2 .. 5 /\ 3 \in 2 .. 5 /\ 4 \in 2 .. 5 /\ 5 \in 2 .. 5
      /\ 2 - 1 = 1 /\ 3 - 1 = 2 /\ 4 - 1 = 3 /\ 5 - 1 = 4
  OBVIOUS
<1>3. \A n \in 2 .. 5 : Following(Fields[n - 1]) = Fields[n]
  BY <1>1
<1>. QED  BY <1>2, <1>3, FieldsAreNamed

LEMMA PlacesOfFields ==
  ASSUME NEW f \in FieldNames
  PROVE  /\ Place(f) = PlaceIn(message, f)
         /\ PlaceIn(message, f) \in 1 .. 5
<1>. DEFINE x == CHOOSE n \in DOMAIN Fields : Fields[n] = f
<1>1. \E n \in DOMAIN Fields : Fields[n] = f
  <2>1. 1 \in 1 .. 5 /\ 2 \in 1 .. 5 /\ 3 \in 1 .. 5 /\ 4 \in 1 .. 5 /\ 5 \in 1 .. 5
    OBVIOUS
  <2>. QED  BY <2>1, FieldsAreNamed DEF FieldNames
<1>2. x \in DOMAIN Fields /\ Fields[x] = f
  BY <1>1
<1>. HIDE DEF x
<1>3. x \in {1, 2, 3, 4, 5}
  BY <1>2, FieldsAreNamed
<1>4. /\ f = "action" => x = 1
      /\ f = "orderId" => x = 2
      /\ f = "side" => x = 3
      /\ f = "qty" => x = 4
      /\ f = "price" => x = 5
  BY <1>2, <1>3, FieldsAreNamed
<1>5. Place(f) = IF message.action = "T" /\ f \in {"qty", "price"} THEN x - 2 ELSE x
  BY DEF Place, x
<1>6. CASE message.action = "T"
  BY <1>3, <1>4, <1>5, <1>6 DEF PlaceIn, FieldNames
<1>7. CASE message.action # "T"
  BY <1>3, <1>4, <1>5, <1>7 DEF PlaceIn, FieldNames
<1>. QED  BY <1>6, <1>7

\* A message with one field set.
LEMMA MessageExcept ==
  ASSUME NEW msg \in Messages, NEW f \in FieldNames, NEW v
  PROVE  /\ [msg EXCEPT ![f] = v][f] = v
         /\ \A g \in FieldNames \ {f} : [msg EXCEPT ![f] = v][g] = msg[g]
         /\ v \in ValuesOf(f) => [msg EXCEPT ![f] = v] \in Messages
<1>. DEFINE new == [msg EXCEPT ![f] = v]
<1>1. DOMAIN msg = FieldNames
  BY DEF Messages, FieldNames
<1>2. new[f] = v /\ \A g \in FieldNames \ {f} : new[g] = msg[g]
  BY <1>1
<1>3. ASSUME v \in ValuesOf(f) PROVE new \in Messages
  <2>1. \A g \in FieldNames : msg[g] \in ValuesOf(g)
    BY DEF Messages, FieldNames, ValuesOf
  <2>2. \A g \in FieldNames : new[g] \in ValuesOf(g)
    BY <1>2, <1>3, <2>1
  <2>3. new = [g \in FieldNames |-> new[g]]
    BY <1>1
  <2>. HIDE DEF new
  <2>4. new = [action |-> new.action, orderId |-> new.orderId, side |-> new.side,
               qty |-> new.qty, price |-> new.price]
    BY <2>3 DEF FieldNames
  <2>5. /\ new.action \in Actions \cup {"0"} /\ new.orderId \in Nat
        /\ new.side \in Sides \cup {"0"} /\ new.qty \in Nat /\ new.price \in Nat
    BY <2>2 DEF FieldNames, ValuesOf
  <2>. QED  BY <2>4, <2>5 DEF Messages
<1>. QED  BY <1>2, <1>3

-----------------------------------------------------------------------------
(* What the parser has read, and how far it has gone.                       *)

Letters == {"action", "side"}

DigitsOf(f) == IF f = "qty" THEN QtyDigits ELSE OrderIdDigits

\* The value that field f has when this is its text.
IsValue(f, value, text) ==
  IF f \in Letters THEN text = <<value>>
  ELSE /\ text \in Seq(Digits) /\ text # << >> /\ Len(text) <= DigitsOf(f)
       /\ value = retreive_unsigned_integer(text) /\ value # 0

HasValue(msg, f, text) == IsValue(f, msg[f], text)

\* The message has as its field f what stands between c, the comma in front
\* of that field, and e.
ReadAt(text, msg, f, c, e) ==
  /\ NthComma(text, PlaceIn(msg, f) - 1, c)
  /\ \E a, b \in 1 .. Len(text) :
       Inked(text, c, a, b, e) /\ HasValue(msg, f, SubSeq(text, a, b))

\* So it has, and a comma follows.
FieldRead(text, msg, f) ==
  \E c \in 0 .. Len(text), e \in 1 .. Len(text) :
    ReadAt(text, msg, f, c, e) /\ text[e] = Comma

\* The fields that a message has before f.
Before(msg, f) ==
  CASE f = "action"  -> {}
    [] f = "orderId" -> {"action"}
    [] f = "side"    -> IF msg.action = "T" THEN {"action"} ELSE {"action", "orderId"}
    [] f = "qty"     -> IF msg.action = "T" THEN {"action"}
                                            ELSE {"action", "orderId", "side"}
    [] f = "price"   -> IF msg.action = "T" THEN {"action", "qty"}
                                            ELSE {"action", "orderId", "side", "qty"}

ReadBefore(text, msg, f) == \A g \in Before(msg, f) : FieldRead(text, msg, g)

\* What may stand before a field.
Blanks(f) == IF f = "price" THEN {Blank, "/"} ELSE {Blank}

\* The extraction has gone over the line from comma c on.
Scanned(c) ==
  /\ c < i
  /\ Only(line, c, IF start = 0 THEN i ELSE start, Blanks(field))
  /\ start # 0 => /\ field \notin Letters
                  /\ c < start /\ start < i
                  /\ \A k \in start .. (i - 1) : k # dot => line[k] \in Digits
  /\ dot # 0 => /\ field = "price" /\ start # 0
                /\ start < dot /\ dot < i /\ line[dot] = "."

\* A trade has neither orderId nor side.
Skipped == message.action = "T" /\ field \in {"orderId", "side"}

Starting ==
  /\ field = "action" /\ start = 0 /\ dot = 0 /\ message.action = "0"
  /\ Only(line, 0, i, {Blank})
  /\ Len(line) <= i \/ (line[i] = "/" /\ Len(line) = i + 1)

Extracting ==
  /\ Len(line) <= i
  /\ ReadBefore(line, message, field)
  /\ field = "action" => message.action = "0"
  /\ IF Skipped
     THEN i > 1 /\ NthComma(line, 1, i - 1) /\ start = 0 /\ dot = 0
     ELSE \E c \in 0 .. Len(line) :
            NthComma(line, PlaceIn(message, field) - 1, c) /\ Scanned(c)

\* After a step back the parser is at the comma that it has passed already.
AtComma == message.action = "T" /\ field \in {"side", "qty"}

Between ==
  /\ field # "action" /\ start = 0 /\ dot = 0
  /\ IF AtComma
     THEN /\ i \in 1 .. Len(line) /\ NthComma(line, 1, i) /\ Len(line) <= i + 1
          /\ ReadBefore(line, message, field)
     ELSE /\ Len(line) <= i
          /\ ReadBefore(line, message, Previous[field])
          /\ \E c \in 0 .. Len(line) : ReadAt(line, message, Previous[field], c, i)

Scanning ==
  /\ at = "firstField" => Starting
  /\ at = "extract" => Extracting
  /\ at = "nextField" => Between

-----------------------------------------------------------------------------
(* A line that grows, and a message that is completed, keep what was read.  *)

Grown(text, more) ==
  /\ Len(text) <= Len(more)
  /\ \A k \in 1 .. Len(text) : more[k] = text[k]

LEMMA CommasStay ==
  ASSUME NEW text, NEW more, Len(text) \in Nat, Len(more) \in Nat, Grown(text, more),
         NEW n, NEW c, NthComma(text, n, c)
  PROVE  NthComma(more, n, c)
<1>1. c \in Nat /\ c <= Len(text) /\ c <= Len(more)
  BY DEF NthComma, Grown
<1>2. CommasTo(more, c) = CommasTo(text, c)
  BY <1>1 DEF CommasTo, Grown
<1>3. c # 0 => more[c] = text[c]
  BY <1>1 DEF Grown
<1>. QED  BY <1>1, <1>2, <1>3 DEF NthComma

LEMMA ReadStays ==
  ASSUME NEW S, NEW text \in Seq(S), NEW more \in Seq(S), Grown(text, more),
         NEW msg, NEW f, NEW c, NEW e \in Nat, e <= Len(text) + 1,
         ReadAt(text, msg, f, c, e)
  PROVE  ReadAt(more, msg, f, c, e)
<1>1. Len(text) \in Nat /\ Len(more) \in Nat /\ Len(text) <= Len(more)
  BY LenProperties DEF Grown
<1>2. PICK a, b \in 1 .. Len(text) :
        Inked(text, c, a, b, e) /\ HasValue(msg, f, SubSeq(text, a, b))
  BY DEF ReadAt
<1>3. NthComma(text, PlaceIn(msg, f) - 1, c)
  BY DEF ReadAt
<1>4. NthComma(more, PlaceIn(msg, f) - 1, c)
  BY <1>1, <1>3, CommasStay
<1>5. c \in Nat /\ a \in Nat /\ b \in Nat /\ c < a /\ a <= b /\ b < e /\ 1 <= a /\ b <= Len(text)
  BY <1>1, <1>2, <1>3 DEF Inked, NthComma
<1>6. \A k \in 1 .. (e - 1) : k \in 1 .. Len(text) /\ more[k] = text[k]
  BY <1>1 DEF Grown
<1>7. Inked(more, c, a, b, e)
  <2>1. more[a] # Blank /\ more[b] # Blank
    BY <1>2, <1>5, <1>6 DEF Inked
  <2>2. Only(more, c, a, {Blank}) /\ Only(more, b, e, {Blank})
    <3>1. \A k \in (c + 1) .. (a - 1) : k \in 1 .. (e - 1) /\ text[k] \in {Blank}
      BY <1>2, <1>5 DEF Inked, Only
    <3>2. \A k \in (b + 1) .. (e - 1) : k \in 1 .. (e - 1) /\ text[k] \in {Blank}
      BY <1>2, <1>5 DEF Inked, Only
    <3>. QED  BY <1>6, <3>1, <3>2 DEF Only
  <2>3. \A k \in a .. b : more[k] # Comma
    BY <1>2, <1>5, <1>6 DEF Inked
  <2>. QED  BY <1>5, <2>1, <2>2, <2>3 DEF Inked
<1>8. SubSeq(more, a, b) = SubSeq(text, a, b)
  <2>. DEFINE s == SubSeq(text, a, b)
              t == SubSeq(more, a, b)
  <2>1. /\ s \in Seq(S) /\ Len(s) = b - a + 1
        /\ \A k \in 1 .. (b - a + 1) : s[k] = text[a + k - 1]
    <3>1. a \in 1 .. (Len(text) + 1) /\ b \in 0 .. Len(text) /\ a <= b + 1
      BY <1>1, <1>5
    <3>. QED  BY <3>1, PartOfText
  <2>2. /\ t \in Seq(S) /\ Len(t) = b - a + 1
        /\ \A k \in 1 .. (b - a + 1) : t[k] = more[a + k - 1]
    <3>1. a \in 1 .. (Len(more) + 1) /\ b \in 0 .. Len(more) /\ a <= b + 1
      BY <1>1, <1>5
    <3>. QED  BY <3>1, PartOfText
  <2>3. \A k \in 1 .. (b - a + 1) : a + k - 1 \in 1 .. (e - 1)
    BY <1>5
  <2>. HIDE DEF s, t
  <2>4. Len(t) = Len(s) /\ \A k \in 1 .. Len(t) : t[k] = s[k]
    BY <1>6, <2>1, <2>2, <2>3
  <2>5. t = s
    BY <2>1, <2>2, <2>4, SeqEqual
  <2>. QED  BY <2>5 DEF s, t
<1>9. a \in 1 .. Len(more) /\ b \in 1 .. Len(more)
  BY <1>1, <1>5
<1>. QED  BY <1>2, <1>4, <1>7, <1>8, <1>9 DEF ReadAt

LEMMA ReadBeforeStays ==
  ASSUME NEW S, NEW text \in Seq(S), NEW more \in Seq(S), Grown(text, more),
         NEW msg, NEW f, ReadBefore(text, msg, f)
  PROVE  ReadBefore(more, msg, f)
<1>1. Len(text) \in Nat /\ Len(more) \in Nat /\ Len(text) <= Len(more)
  BY LenProperties DEF Grown
<1>2. ASSUME NEW g \in Before(msg, f) PROVE FieldRead(more, msg, g)
  <2>1. PICK c \in 0 .. Len(text), e \in 1 .. Len(text) :
          ReadAt(text, msg, g, c, e) /\ text[e] = Comma
    BY <1>2 DEF ReadBefore, FieldRead
  <2>2. ReadAt(more, msg, g, c, e)
    <3>1. e \in Nat /\ e <= Len(text) + 1
      BY <1>1
    <3>. QED  BY <2>1, <3>1, ReadStays
  <2>3. c \in 0 .. Len(more) /\ e \in 1 .. Len(more) /\ more[e] = Comma
    BY <1>1, <2>1 DEF Grown
  <2>. QED  BY <2>2, <2>3 DEF FieldRead
<1>. QED  BY <1>2 DEF ReadBefore

\* The message may get another field.
LEMMA ReadStaysInMessage ==
  ASSUME NEW text, NEW msg, NEW new, NEW f \in FieldNames, NEW g,
         \A h \in FieldNames \ {g} : new[h] = msg[h], g \notin Before(msg, f),
         g = "action" => f = "action", ReadBefore(text, msg, f)
  PROVE  ReadBefore(text, new, f)
<1>0. CASE f = "action"
  BY <1>0 DEF ReadBefore, Before
<1>. SUFFICES ASSUME new.action = msg.action
              PROVE  ReadBefore(text, new, f)
  BY <1>0 DEF FieldNames
<1>1. Before(new, f) = Before(msg, f)
  BY DEF Before
<1>2. ASSUME NEW h \in Before(msg, f) PROVE FieldRead(text, new, h)
  <2>1. h \in FieldNames /\ h # g
    BY <1>2 DEF Before, FieldNames
  <2>2. new[h] = msg[h]
    BY <2>1
  <2>3. PlaceIn(new, h) = PlaceIn(msg, h)
    BY DEF PlaceIn
  <2>4. \A t : HasValue(msg, h, t) => HasValue(new, h, t)
    BY <2>2 DEF HasValue
  <2>5. \A c, e : ReadAt(text, msg, h, c, e) => ReadAt(text, new, h, c, e)
    BY <2>3, <2>4 DEF ReadAt
  <2>. QED  BY <1>2, <2>5 DEF ReadBefore, FieldRead
<1>. QED  BY <1>1, <1>2 DEF ReadBefore

-----------------------------------------------------------------------------
(* The steps of the parser.                                                 *)

\* A step goes on, counts an error or accepts.
Outcome ==
  \/ result' = "parsing" /\ TypeOK' /\ Scanning'
  \/ \E counter \in Errors :
       Reject(counter) /\ Tells(counter)
  \/ /\ result' = "accepted" /\ TypeOK'
     /\ AcceptedFieldsAreTheLines' /\ AcceptedWithinBounds'

LEMMA TypesOfState ==
  ASSUME TypeOK
  PROVE  /\ line \in Seq(Char) /\ Len(line) \in Nat /\ DOMAIN line = 1 .. Len(line)
         /\ Len(line) <= MaxLen /\ ended \in BOOLEAN
         /\ i \in Nat /\ 1 <= i /\ i <= Len(line) + 1
         /\ at \in {"firstField", "nextField", "extract"}
         /\ field \in FieldNames /\ message \in Messages
         /\ start \in Nat /\ start <= Len(line) /\ dot \in Nat /\ dot <= Len(line)
<1>1. line \in Seq(Char) /\ Len(line) \in Nat /\ DOMAIN line = 1 .. Len(line)
  BY LenProperties DEF TypeOK
<1>2. field \in FieldNames /\ message \in Messages
  BY FieldsAreNamed DEF TypeOK, Messages
<1>. QED  BY <1>1, <1>2 DEF TypeOK

LEMMA TypesOfStateAre ==
  ASSUME line \in Seq(Char), Len(line) <= MaxLen, ended \in BOOLEAN,
         i \in Nat, 1 <= i, i <= Len(line) + 1,
         at \in {"firstField", "nextField", "extract"},
         field \in FieldNames, message \in Messages,
         start \in Nat, start <= Len(line), dot \in Nat, dot <= Len(line),
         result \in {"parsing", "accepted"} \cup Errors
  PROVE  TypeOK
<1>1. Len(line) \in Nat
  BY LenProperties
<1>. QED  BY <1>1, FieldsAreNamed DEF TypeOK, Messages

\* An extraction knows the comma in front of its field.
LEMMA ExtractionStands ==
  ASSUME TypeOK, Extracting, ~Skipped
  PROVE  \E n \in 0 .. 4, c \in 0 .. Len(line) :
           /\ n = PlaceIn(message, field) - 1
           /\ Text(field) = Field(n + 1)
           /\ NthComma(line, n, c) /\ Scanned(c)
<1>. DEFINE n == PlaceIn(message, field) - 1
<1>1. PlaceIn(message, field) \in 1 .. 5 /\ Place(field) = PlaceIn(message, field)
  BY TypesOfState, PlacesOfFields
<1>2. n \in 0 .. 4 /\ n + 1 = Place(field)
  BY <1>1
<1>3. Text(field) = Field(n + 1)
  BY <1>2 DEF Text
<1>. HIDE DEF n
<1>. QED  BY <1>2, <1>3 DEF Extracting, n

LEMMA LookStep ==
  ASSUME TypeOK, Scanning, result = "parsing", Look
  PROVE  result' = "parsing" /\ TypeOK' /\ Scanning'
<1>1. /\ line \in Seq(Char) /\ Len(line) \in Nat
      /\ i \in Nat /\ 1 <= i /\ i <= Len(line) + 1 /\ field \in FieldNames
      /\ start \in Nat /\ start <= Len(line) /\ dot \in Nat /\ dot <= Len(line)
  BY TypesOfState
<1>2. /\ i' = i /\ at' = at /\ field' = field /\ start' = start /\ dot' = dot
      /\ message' = message /\ result' = result
  BY DEF Look
<1>3. /\ line' \in Seq(Char) /\ Len(line') \in Nat
      /\ Len(line') <= MaxLen /\ ended' \in BOOLEAN
      /\ Len(line) <= Len(line') /\ Len(line') <= Len(line) + 1
      /\ \A k \in 1 .. Len(line) : line'[k] = line[k]
  <2>1. CASE line' = line /\ ended' = TRUE
    BY <1>1, <2>1, TypesOfState
  <2>2. CASE Len(line) < MaxLen /\ ended' = ended /\ \E ch \in Char : line' = Append(line, ch)
    <3>1. PICK ch \in Char : line' = Append(line, ch)
      BY <2>2
    <3>2. line' \in Seq(Char) /\ Len(line') = Len(line) + 1
          /\ \A k \in 1 .. Len(line) : line'[k] = line[k]
      BY <1>1, <3>1
    <3>. QED  BY <1>1, <2>2, <3>2, TypesOfState, LimitsAreNatural
  <2>. QED  BY <2>1, <2>2 DEF Look
<1>4. Grown(line, line')
  BY <1>3 DEF Grown
<1>5. TypeOK'
  BY <1>1, <1>2, <1>3 DEF TypeOK
<1>6. CASE at = "firstField"
  <2>1. Starting
    BY <1>6 DEF Scanning
  <2>2. Only(line', 0, i, {Blank})
    <3>1. \A k \in (0 + 1) .. (i - 1) : k \in 1 .. Len(line)
      BY <1>1
    <3>. QED  BY <1>3, <2>1, <3>1 DEF Starting, Only
  <2>3. Len(line') <= i \/ (line'[i] = "/" /\ Len(line') = i + 1)
    <3>1. CASE i > Len(line)
      BY <1>1, <1>3, <3>1
    <3>2. CASE line[i] = "/" /\ i = Len(line)
      BY <1>1, <1>3, <3>2
    <3>. QED  BY <3>1, <3>2 DEF Look, Sees
  <2>4. Starting'
    BY <1>2, <2>1, <2>2, <2>3 DEF Starting
  <2>. QED  BY <1>2, <1>5, <1>6, <2>4 DEF Scanning
<1>7. CASE at = "extract"
  <2>1. Extracting /\ i > Len(line)
    BY <1>7 DEF Scanning, Look
  <2>2. Len(line') <= i
    BY <1>1, <1>3, <2>1
  <2>3. ReadBefore(line', message, field)
    BY <1>1, <1>3, <1>4, <2>1, ReadBeforeStays DEF Extracting
  <2>4. \A n, c : NthComma(line, n, c) => NthComma(line', n, c)
    BY <1>1, <1>3, <1>4, CommasStay
  <2>5. ASSUME NEW c \in 0 .. Len(line), Scanned(c) PROVE Scanned(c)'
    <3>1. \A k \in (c + 1) .. (i - 1) : line'[k] = line[k]
      <4>1. \A k \in (c + 1) .. (i - 1) : k \in 1 .. Len(line)
        BY <1>1
      <4>. QED  BY <1>3, <4>1
    <3>. DEFINE to == IF start = 0 THEN i ELSE start
    <3>2. to \in Nat /\ to <= i /\ Only(line, c, to, Blanks(field))
      BY <1>1, <2>5 DEF Scanned
    <3>3. Only(line', c, to, Blanks(field))
      <4>. HIDE DEF to
      <4>1. \A k \in (c + 1) .. (to - 1) : k \in (c + 1) .. (i - 1)
        BY <1>1, <3>2
      <4>. QED  BY <3>1, <3>2, <4>1 DEF Only
    <3>4. start # 0 => \A k \in start .. (i - 1) : k # dot => line'[k] \in Digits
      <4>1. start # 0 => \A k \in start .. (i - 1) : k \in (c + 1) .. (i - 1)
        BY <1>1, <2>5 DEF Scanned
      <4>. QED  BY <2>5, <3>1, <4>1 DEF Scanned
    <3>5. dot # 0 => line'[dot] = line[dot]
      BY <1>1, <1>3
    <3>. QED  BY <1>2, <2>5, <3>3, <3>4, <3>5 DEF Scanned
  <2>6. 0 .. Len(line) \subseteq 0 .. Len(line')
    BY <1>1, <1>3
  <2>7. Skipped' = Skipped
    BY <1>2 DEF Skipped
  <2>8. Extracting'
    <3>1. CASE Skipped
      BY <1>2, <2>1, <2>2, <2>3, <2>4, <2>7, <3>1 DEF Extracting
    <3>2. CASE ~Skipped
      <4>1. PICK c \in 0 .. Len(line) :
              NthComma(line, PlaceIn(message, field) - 1, c) /\ Scanned(c)
        BY <2>1, <3>2 DEF Extracting
      <4>2. NthComma(line', PlaceIn(message', field') - 1, c) /\ Scanned(c)'
        BY <1>2, <2>4, <2>5, <4>1
      <4>. QED  BY <1>2, <2>1, <2>2, <2>3, <2>6, <2>7, <3>2, <4>2 DEF Extracting
    <3>. QED  BY <3>1, <3>2
  <2>. QED  BY <1>2, <1>5, <1>7, <2>8 DEF Scanning
<1>8. CASE at = "nextField"
  <2>1. Between /\ i > Len(line)
    BY <1>8 DEF Scanning, Look
  <2>2. ~AtComma
    BY <1>1, <2>1 DEF Between
  <2>3. ReadBefore(line', message, Previous[field])
    BY <1>1, <1>3, <1>4, <2>1, <2>2, ReadBeforeStays DEF Between
  <2>4. PICK c \in 0 .. Len(line) : ReadAt(line, message, Previous[field], c, i)
    BY <2>1, <2>2 DEF Between
  <2>5. ReadAt(line', message, Previous[field], c, i)
    BY <1>1, <1>3, <1>4, <2>4, ReadStays
  <2>6. Len(line') <= i /\ c \in 0 .. Len(line')
    BY <1>1, <1>3, <2>1
  <2>7. ~AtComma'
    BY <1>2, <2>2 DEF AtComma
  <2>8. Between'
    BY <1>2, <2>1, <2>3, <2>5, <2>6, <2>7 DEF Between
  <2>. QED  BY <1>2, <1>5, <1>8, <2>8 DEF Scanning
<1>. QED  BY <1>6, <1>7, <1>8, TypesOfState

LEMMA firstFieldStep ==
  ASSUME TypeOK, Scanning, result = "parsing", firstField
  PROVE  Outcome
<1>1. /\ line \in Seq(Char) /\ Len(line) \in Nat
      /\ i \in Nat /\ 1 <= i /\ i <= Len(line) + 1
  BY TypesOfState
<1>2. at = "firstField" /\ Starting
  BY DEF firstField, Scanning
<1>3. ASSUME NEW counter \in {"blankLines", "commentedLines", "corruptedMessages"},
             Reject(counter)
      PROVE  Outcome
  <2>1. counter \in Errors
    BY DEF Errors
  <2>2. Tells(counter)
    BY DEF Tells
  <2>. QED  BY <1>3, <2>1, <2>2 DEF Outcome
<1>4. CASE Sees({Blank}) /\ Skip
  <2>1. i <= Len(line) /\ line[i] = Blank
    BY <1>4 DEF Sees
  <2>2. /\ i' = i + 1 /\ line' = line /\ ended' = ended /\ at' = at /\ field' = field
        /\ start' = start /\ dot' = dot /\ message' = message /\ result' = result
    BY <1>4 DEF Skip
  <2>3. TypeOK'
    BY <1>1, <2>1, <2>2 DEF TypeOK
  <2>4. Only(line, 0, i + 1, {Blank})
    <3>1. \A k \in (0 + 1) .. ((i + 1) - 1) : k \in (0 + 1) .. (i - 1) \/ k = i
      BY <1>1
    <3>. QED  BY <1>2, <2>1, <3>1 DEF Starting, Only
  <2>5. Len(line) <= i + 1
    BY <1>1, <1>2 DEF Starting
  <2>6. Starting'
    BY <1>2, <2>2, <2>4, <2>5 DEF Starting
  <2>. QED  BY <1>2, <2>2, <2>3, <2>6 DEF Scanning, Outcome
<1>5. CASE /\ Sees(Char \ {Blank, "/"}) /\ at' = "extract"
           /\ UNCHANGED <<line, ended, i, field, start, dot, message, result>>
  <2>1. i <= Len(line) /\ line[i] # "/"
    BY <1>5 DEF Sees
  <2>2. /\ i' = i /\ line' = line /\ ended' = ended /\ at' = "extract" /\ field' = field
        /\ start' = start /\ dot' = dot /\ message' = message /\ result' = result
    BY <1>5
  <2>3. TypeOK'
    BY <1>1, <2>1, <2>2 DEF TypeOK
  <2>4. Len(line) <= i
    BY <1>2, <2>1 DEF Starting
  <2>5. ReadBefore(line, message, field)
    BY <1>2 DEF Starting, ReadBefore, Before
  <2>6. NthComma(line, PlaceIn(message, field) - 1, 0)
    <3>1. PlaceIn(message, field) - 1 = 0
      BY <1>2 DEF Starting, PlaceIn
    <3>2. CommasTo(line, 0) = {}
      BY DEF CommasTo
    <3>3. Cardinality(CommasTo(line, 0)) = 0
      BY <3>2, FS_EmptySet
    <3>. QED  BY <1>1, <3>1, <3>3 DEF NthComma
  <2>7. Scanned(0)'
    <3>1. Only(line, 0, i, Blanks(field))
      BY <1>2 DEF Starting, Blanks
    <3>. QED  BY <1>1, <1>2, <2>2, <3>1 DEF Scanned, Starting
  <2>8. ~Skipped'
    BY <1>2, <2>2 DEF Skipped, Starting
  <2>9. Extracting'
    <3>1. 0 \in 0 .. Len(line)
      BY <1>1
    <3>. QED  BY <1>2, <2>2, <2>4, <2>5, <2>6, <2>7, <2>8, <3>1 DEF Extracting, Starting
  <2>. QED  BY <2>2, <2>3, <2>9 DEF Scanning, Outcome
<1>. QED  BY <1>3, <1>4, <1>5 DEF firstField

LEMMA PreviousField ==
  ASSUME TypeOK, field # "action", ~AtComma
  PROVE  /\ Previous[field] \in FieldNames
         /\ Before(message, field) = Before(message, Previous[field]) \cup {Previous[field]}
         /\ IF Skipped THEN PlaceIn(message, Previous[field]) = 1
            ELSE PlaceIn(message, field) - 1 = PlaceIn(message, Previous[field])
<1>1. field \in FieldNames \ {"action"}
  BY TypesOfState
<1>2. CASE field = "orderId"
  <2>1. Previous[field] = "action"
    BY <1>1, <1>2 DEF Previous
  <2>2. PlaceIn(message, "action") = 1 /\ PlaceIn(message, "orderId") = 2 /\ 2 - 1 = 1
    BY DEF PlaceIn
  <2>3. Before(message, "orderId") = {"action"} /\ Before(message, "action") = {}
    BY DEF Before
  <2>. QED  BY <1>2, <2>1, <2>2, <2>3 DEF FieldNames
<1>3. CASE field = "side"
  <2>1. Previous[field] = "orderId" /\ message.action # "T"
    BY <1>1, <1>3 DEF Previous, AtComma
  <2>2. PlaceIn(message, "orderId") = 2 /\ PlaceIn(message, "side") = 3 /\ 3 - 1 = 2
    BY DEF PlaceIn
  <2>3. Before(message, "side") = {"action", "orderId"} /\ Before(message, "orderId") = {"action"}
    BY <2>1 DEF Before
  <2>4. ~Skipped
    BY <2>1 DEF Skipped
  <2>. QED  BY <1>3, <2>1, <2>2, <2>3, <2>4 DEF FieldNames
<1>4. CASE field = "qty"
  <2>1. Previous[field] = "side" /\ message.action # "T"
    BY <1>1, <1>4 DEF Previous, AtComma
  <2>2. PlaceIn(message, "side") = 3 /\ PlaceIn(message, "qty") = 4 /\ 4 - 1 = 3
    BY <2>1 DEF PlaceIn
  <2>3. /\ Before(message, "qty") = {"action", "orderId", "side"}
        /\ Before(message, "side") = {"action", "orderId"}
    BY <2>1 DEF Before
  <2>4. ~Skipped
    BY <2>1 DEF Skipped
  <2>. QED  BY <1>4, <2>1, <2>2, <2>3, <2>4 DEF FieldNames
<1>5. CASE field = "price"
  <2>1. Previous[field] = "qty"
    BY <1>1, <1>5 DEF Previous
  <2>2. PlaceIn(message, "price") - 1 = PlaceIn(message, "qty")
    BY DEF PlaceIn
  <2>3. Before(message, "price") = Before(message, "qty") \cup {"qty"}
    BY DEF Before
  <2>4. ~Skipped
    BY <1>5 DEF Skipped
  <2>. QED  BY <1>5, <2>1, <2>2, <2>3, <2>4 DEF FieldNames
<1>. QED  BY <1>1, <1>2, <1>3, <1>4, <1>5 DEF FieldNames

LEMMA nextFieldStep ==
  ASSUME TypeOK, Scanning, result = "parsing", nextField
  PROVE  Outcome
<1>1. /\ line \in Seq(Char) /\ Len(line) \in Nat
      /\ i \in Nat /\ 1 <= i /\ i <= Len(line) + 1 /\ field \in FieldNames
  BY TypesOfState
<1>2. at = "nextField" /\ Between
  BY DEF nextField, Scanning
<1>3. ASSUME NEW counter \in {"IncompleteMessages", "corruptedMessages"},
             Reject(counter)
      PROVE  Outcome
  <2>1. counter \in Errors
    BY DEF Errors
  <2>2. Tells(counter)
    BY DEF Tells
  <2>. QED  BY <1>3, <2>1, <2>2 DEF Outcome
<1>4. CASE /\ Sees({Comma}) /\ i' = i + 1 /\ at' = "extract"
           /\ UNCHANGED <<line, ended, field, start, dot, message, result>>
  <2>1. i <= Len(line) /\ line[i] = Comma
    BY <1>4 DEF Sees
  <2>2. /\ i' = i + 1 /\ line' = line /\ ended' = ended /\ at' = "extract" /\ field' = field
        /\ start' = start /\ dot' = dot /\ message' = message /\ result' = result
    BY <1>4
  <2>3. TypeOK'
    BY <1>1, <2>1, <2>2 DEF TypeOK
  <2>4. Skipped' = Skipped /\ start' = 0 /\ dot' = 0 /\ field' # "action"
    BY <1>2, <2>2 DEF Skipped, Between
  <2>0. PICK j \in Nat : j = i
    BY <1>1
  <2>5. Only(line, j, i + 1, Blanks(field)) /\ j < i + 1
    BY <1>1, <2>0 DEF Only
  <2>6. Scanned(j)'
    BY <1>1, <2>2, <2>4, <2>5 DEF Scanned
  <2>7. Len(line) <= i + 1
    BY <1>1, <1>2 DEF Between
  <2>8. i \in 0 .. Len(line) /\ i + 1 > 1 /\ (i + 1) - 1 = i
    BY <1>1, <2>1
  <2>9. ASSUME ReadBefore(line, message, field),
               IF Skipped THEN NthComma(line, 1, i)
                          ELSE NthComma(line, PlaceIn(message, field) - 1, i)
        PROVE  Outcome
    <3>1. Extracting'
      BY <2>0, <2>2, <2>4, <2>6, <2>7, <2>8, <2>9 DEF Extracting
    <3>. QED  BY <1>2, <2>2, <2>3, <3>1 DEF Scanning, Outcome
  <2>10. CASE AtComma
    <3>1. NthComma(line, 1, i) /\ ReadBefore(line, message, field)
      BY <1>2, <2>10 DEF Between
    <3>2. ~Skipped => PlaceIn(message, field) - 1 = 1
      BY <2>10 DEF AtComma, Skipped, PlaceIn
    <3>. QED  BY <2>9, <3>1, <3>2
  <2>11. CASE ~AtComma
    <3>. DEFINE p == Previous[field]
                n == PlaceIn(message, p)
    <3>0. field # "action"
      BY <1>2 DEF Between
    <3>1. p \in FieldNames /\ n \in 1 .. 5
      BY <2>11, <3>0, PreviousField, PlacesOfFields
    <3>2. PICK c \in 0 .. Len(line) : ReadAt(line, message, p, c, i)
      BY <1>2, <2>11 DEF Between
    <3>3. PICK a, b \in 1 .. Len(line) : Inked(line, c, a, b, i)
      BY <3>2 DEF ReadAt
    <3>4. NthComma(line, n - 1, c) /\ c \in Nat
      BY <3>2 DEF ReadAt
    <3>5. Closed(c, i)
      BY <1>1, <2>1, <3>3, <3>4, InkedIsClosed
    <3>6. NthComma(line, n, i)
      <4>. DEFINE m == n - 1
      <4>1. m \in Nat /\ m + 1 = n
        BY <3>1
      <4>2. c < i /\ i \in 1 .. Len(line)
        BY <1>1, <2>1, <3>4, <3>5 DEF Closed
      <4>3. NthComma(line, m, c)
        BY <3>4
      <4>. HIDE DEF m
      <4>4. NthComma(line, m + 1, i)
        BY <1>1, <2>1, <3>5, <4>1, <4>2, <4>3, NextComma DEF Closed
      <4>. QED  BY <4>1, <4>4
    <3>7. FieldRead(line, message, p)
      <4>1. i \in 1 .. Len(line)
        BY <1>1, <2>1
      <4>. QED  BY <2>1, <3>2, <4>1 DEF FieldRead
    <3>8. ReadBefore(line, message, field)
      <4>1. ReadBefore(line, message, p)
        BY <1>2, <2>11 DEF Between
      <4>2. Before(message, field) = Before(message, p) \cup {p}
        BY <2>11, <3>0, PreviousField
      <4>. HIDE DEF p
      <4>. QED  BY <3>7, <4>1, <4>2 DEF ReadBefore
    <3>9. IF Skipped THEN n = 1 ELSE PlaceIn(message, field) - 1 = n
      BY <2>11, <3>0, PreviousField
    <3>. HIDE DEF n, p
    <3>. QED  BY <2>9, <3>6, <3>8, <3>9
  <2>. QED  BY <2>10, <2>11
<1>5. CASE Sees({Blank}) /\ Skip
  <2>1. i <= Len(line) /\ line[i] = Blank
    BY <1>5 DEF Sees
  <2>2. /\ i' = i + 1 /\ line' = line /\ ended' = ended /\ at' = at /\ field' = field
        /\ start' = start /\ dot' = dot /\ message' = message /\ result' = result
    BY <1>5 DEF Skip
  <2>3. TypeOK'
    BY <1>1, <2>1, <2>2 DEF TypeOK
  <2>4. ~AtComma
    <3>1. NthComma(line, 1, i) => line[i] = Comma
      BY <1>1 DEF NthComma
    <3>. QED  BY <1>2, <2>1, <3>1, CharactersDiffer DEF Between
  <2>5. PICK c \in 0 .. Len(line) : ReadAt(line, message, Previous[field], c, i)
    BY <1>2, <2>4 DEF Between
  <2>6. PICK a, b \in 1 .. Len(line) :
          /\ Inked(line, c, a, b, i)
          /\ HasValue(message, Previous[field], SubSeq(line, a, b))
    BY <2>5 DEF ReadAt
  <2>7. Inked(line, c, a, b, i + 1)
    <3>1. Only(line, b, i + 1, {Blank})
      <4>1. \A k \in (b + 1) .. ((i + 1) - 1) : k \in (b + 1) .. (i - 1) \/ k = i
        BY <1>1
      <4>. QED  BY <2>1, <2>6, <4>1 DEF Inked, Only
    <3>2. b < i + 1
      BY <1>1, <2>6 DEF Inked
    <3>. QED  BY <2>6, <3>1, <3>2 DEF Inked
  <2>8. ReadAt(line, message, Previous[field], c, i + 1)
    BY <2>5, <2>6, <2>7 DEF ReadAt
  <2>9. ~AtComma' /\ Len(line) <= i + 1
    BY <1>1, <1>2, <2>2, <2>4 DEF AtComma, Between
  <2>10. Between'
    BY <1>2, <2>2, <2>4, <2>8, <2>9 DEF Between
  <2>. QED  BY <1>2, <2>2, <2>3, <2>10 DEF Scanning, Outcome
<1>. QED  BY <1>3, <1>4, <1>5 DEF nextField

LEMMA stepBackStep ==
  ASSUME TypeOK, Scanning, result = "parsing", stepBack
  PROVE  Outcome
<1>1. /\ line \in Seq(Char) /\ Len(line) \in Nat
      /\ i \in Nat /\ 1 <= i /\ i <= Len(line) + 1 /\ field \in FieldNames
  BY TypesOfState
<1>2. at = "extract" /\ Extracting /\ field \in {"orderId", "side"} /\ message.action = "T"
  BY DEF stepBack, Scanning
<1>3. i > 1 /\ NthComma(line, 1, i - 1) /\ start = 0 /\ dot = 0 /\ Len(line) <= i
      /\ ReadBefore(line, message, field)
  BY <1>2 DEF Extracting, Skipped
<1>4. /\ i' = i - 1 /\ line' = line /\ ended' = ended /\ at' = "nextField"
      /\ field' = Following(field)
      /\ start' = start /\ dot' = dot /\ message' = message /\ result' = result
  BY DEF stepBack
<1>5. field' \in {"side", "qty"} /\ field' \in FieldNames
  BY <1>2, <1>4, FollowingFields DEF FieldNames
<1>6. i - 1 \in 1 .. Len(line) /\ i - 1 \in Nat /\ Len(line) <= (i - 1) + 1
  BY <1>1, <1>3
<1>7. TypeOK'
  BY <1>4, <1>5, <1>6, FieldsAreNamed DEF TypeOK
<1>8. ReadBefore(line, message, field')
  <2>1. Before(message, field') = {"action"} /\ Before(message, field) = {"action"}
    BY <1>2, <1>5 DEF Before
  <2>. QED  BY <1>3, <2>1 DEF ReadBefore
<1>9. AtComma' /\ field' # "action"
  BY <1>2, <1>4, <1>5 DEF AtComma
<1>10. Between'
  BY <1>3, <1>4, <1>6, <1>8, <1>9 DEF Between
<1>. QED  BY <1>4, <1>7, <1>10 DEF Scanning, Outcome

-----------------------------------------------------------------------------
(* The steps of an extraction.                                              *)

LEMMA SkipInExtraction ==
  ASSUME TypeOK, at = "extract", result = "parsing", Extracting, ~Skipped,
         start = 0, Sees(Blanks(field)), Skip
  PROVE  Outcome
<1>1. /\ line \in Seq(Char) /\ Len(line) \in Nat
      /\ i \in Nat /\ 1 <= i /\ i <= Len(line) + 1 /\ field \in FieldNames
  BY TypesOfState
<1>2. i <= Len(line) /\ line[i] \in Blanks(field)
  BY DEF Sees
<1>3. /\ i' = i + 1 /\ line' = line /\ ended' = ended /\ at' = at /\ field' = field
      /\ start' = start /\ dot' = dot /\ message' = message /\ result' = result
  BY DEF Skip
<1>4. TypeOK'
  BY <1>1, <1>2, <1>3 DEF TypeOK
<1>5. PICK c \in 0 .. Len(line) :
        NthComma(line, PlaceIn(message, field) - 1, c) /\ Scanned(c)
  BY DEF Extracting
<1>6. Only(line, c, i + 1, Blanks(field)) /\ c < i + 1
  <2>1. \A k \in (c + 1) .. ((i + 1) - 1) : k \in (c + 1) .. (i - 1) \/ k = i
    BY <1>1
  <2>2. Only(line, c, i, Blanks(field)) /\ c < i
    BY <1>5 DEF Scanned
  <2>. QED  BY <1>1, <1>2, <2>1, <2>2 DEF Only
<1>7. Scanned(c)'
  BY <1>3, <1>5, <1>6 DEF Scanned
<1>8. Extracting'
  BY <1>1, <1>3, <1>5, <1>7 DEF Extracting, Skipped
<1>. QED  BY <1>3, <1>4, <1>8 DEF Scanning, Outcome

LEMMA DigitInExtraction ==
  ASSUME TypeOK, at = "extract", result = "parsing", Extracting, ~Skipped,
         field \notin Letters, Digit
  PROVE  Outcome
<1>1. /\ line \in Seq(Char) /\ Len(line) \in Nat
      /\ i \in Nat /\ 1 <= i /\ i <= Len(line) + 1 /\ field \in FieldNames
      /\ start \in Nat /\ dot \in Nat
  BY TypesOfState
<1>2. i <= Len(line) /\ line[i] \in Digits
  BY DEF Digit, Sees
<1>3. /\ i' = i + 1 /\ line' = line /\ ended' = ended /\ at' = at /\ field' = field
      /\ start' = (IF start = 0 THEN i ELSE start)
      /\ dot' = dot /\ message' = message /\ result' = result
  BY DEF Digit
<1>4. TypeOK'
  BY <1>1, <1>2, <1>3 DEF TypeOK
<1>5. PICK c \in 0 .. Len(line) :
        NthComma(line, PlaceIn(message, field) - 1, c) /\ Scanned(c)
  BY DEF Extracting
<1>6. c < i /\ c \in Nat
  BY <1>1, <1>5 DEF Scanned
<1>7. CASE start = 0
  <2>1. start' = i /\ i # 0 /\ dot = 0 /\ Only(line, c, i, Blanks(field))
    BY <1>1, <1>3, <1>5, <1>7 DEF Scanned
  <2>2. \A k \in i .. ((i + 1) - 1) : line[k] \in Digits
    <3>1. \A k \in i .. ((i + 1) - 1) : k = i
      BY <1>1
    <3>. QED  BY <1>2, <3>1
  <2>3. Scanned(c)'
    BY <1>1, <1>3, <1>6, <2>1, <2>2 DEF Scanned
  <2>. QED  BY <1>1, <1>3, <1>4, <1>5, <2>3 DEF Extracting, Skipped, Scanning, Outcome
<1>8. CASE start # 0
  <2>1. \A k \in start .. ((i + 1) - 1) : k # dot => line[k] \in Digits
    <3>1. \A k \in start .. ((i + 1) - 1) : k \in start .. (i - 1) \/ k = i
      BY <1>1
    <3>. QED  BY <1>2, <1>5, <1>8, <3>1 DEF Scanned
  <2>2. Scanned(c)'
    BY <1>1, <1>3, <1>5, <1>6, <1>8, <2>1 DEF Scanned
  <2>. QED  BY <1>1, <1>3, <1>4, <1>5, <2>2 DEF Extracting, Skipped, Scanning, Outcome
<1>. QED  BY <1>7, <1>8

LEMMA ExtractedOutcome ==
  ASSUME TypeOK, at = "extract", result = "parsing", Extracting, ~Skipped,
         field # "price", dot = 0,
         NEW c \in 0 .. Len(line), NthComma(line, PlaceIn(message, field) - 1, c),
         NEW a \in 1 .. Len(line), NEW b \in 1 .. Len(line), NEW next \in Nat,
         1 <= next, Len(line) <= next, next <= Len(line) + 1,
         Inked(line, c, a, b, next),
         NEW value, value \in ValuesOf(field), IsValue(field, value, SubSeq(line, a, b)),
         Extracted(value, next)
  PROVE  Outcome
<1>1. /\ line \in Seq(Char) /\ Len(line) \in Nat
      /\ field \in FieldNames /\ message \in Messages
  BY TypesOfState
<1>2. /\ i' = next /\ line' = line /\ ended' = ended /\ at' = "nextField"
      /\ field' = Following(field) /\ start' = 0 /\ dot' = dot /\ result' = result
      /\ message' = [message EXCEPT ![field] = value]
  BY DEF Extracted
<1>. DEFINE new == [message EXCEPT ![field] = value]
<1>3. /\ new[field] = value /\ \A g \in FieldNames \ {field} : new[g] = message[g]
      /\ new \in Messages
  BY <1>1, MessageExcept
<1>4. message' = new
  BY <1>2
<1>. HIDE DEF new
<1>5. field \in {"action", "orderId", "side", "qty"}
  BY <1>1 DEF FieldNames
<1>6. /\ field' \in FieldNames \ {"action"} /\ Previous[field'] = field
      /\ field = "action" => field' = "orderId"
      /\ field = "orderId" => field' = "side"
      /\ field = "side" => field' = "qty"
      /\ field = "qty" => field' = "price"
  <2>1. /\ field = "action" => field' = "orderId"
        /\ field = "orderId" => field' = "side"
        /\ field = "side" => field' = "qty"
        /\ field = "qty" => field' = "price"
    BY <1>2, FollowingFields
  <2>2. /\ Previous["orderId"] = "action" /\ Previous["side"] = "orderId"
        /\ Previous["qty"] = "side" /\ Previous["price"] = "qty"
    BY DEF Previous, FieldNames
  <2>. QED  BY <1>5, <2>1, <2>2 DEF FieldNames
<1>7. TypeOK'
  <2>1. message' \in Messages /\ field' \in FieldNames
    BY <1>3, <1>4, <1>6
  <2>2. ended \in BOOLEAN /\ Len(line) <= MaxLen
    BY TypesOfState
  <2>. QED  BY <1>1, <1>2, <2>1, <2>2, FieldsAreNamed DEF TypeOK, Messages
<1>8. ReadBefore(line, new, field)
  <2>1. field \notin Before(message, field)
    BY <1>5 DEF Before
  <2>2. ReadBefore(line, message, field)
    BY DEF Extracting
  <2>. QED  BY <1>1, <1>3, <2>1, <2>2, ReadStaysInMessage
<1>9. PlaceIn(new, field) = PlaceIn(message, field)
  <2>1. CASE field = "action"
    BY <2>1 DEF PlaceIn
  <2>2. CASE field # "action"
    <3>1. new.action = message.action
      BY <1>3, <2>2 DEF FieldNames
    <3>. QED  BY <3>1 DEF PlaceIn
  <2>. QED  BY <2>1, <2>2
<1>10. ReadAt(line, new, field, c, next)
  <2>1. HasValue(new, field, SubSeq(line, a, b))
    BY <1>3 DEF HasValue
  <2>. QED  BY <1>9, <2>1 DEF ReadAt
<1>11. ~AtComma'
  <2>1. CASE field \in {"orderId", "side"}
    <3>1. message.action # "T"
      BY <2>1 DEF Skipped
    <3>2. new.action = message.action
      BY <1>3, <2>1 DEF FieldNames
    <3>. QED  BY <1>4, <3>1, <3>2 DEF AtComma
  <2>2. CASE field \in {"action", "qty"}
    BY <1>6, <2>2 DEF AtComma
  <2>. QED  BY <1>5, <2>1, <2>2
<1>12. Between'
  BY <1>2, <1>4, <1>6, <1>8, <1>10, <1>11 DEF Between
<1>. QED  BY <1>2, <1>7, <1>12 DEF Scanning, Outcome

\* The end of what is scanned.
LEMMA MissingText ==
  ASSUME TypeOK, Extracting, ~Skipped, start = 0, AtEnd \/ Sees({Comma})
  PROVE  /\ field # "price" => Text(field) = << >>
         /\ field = "price" => PriceText = << >>
<1>1. /\ line \in Seq(Char) /\ Len(line) \in Nat
      /\ i \in Nat /\ 1 <= i /\ i <= Len(line) + 1 /\ field \in FieldNames
  BY TypesOfState
<1>2. PICK n \in 0 .. 4, c \in 0 .. Len(line) :
        /\ n = PlaceIn(message, field) - 1
        /\ Text(field) = Field(n + 1)
        /\ NthComma(line, n, c) /\ Scanned(c)
  BY ExtractionStands
<1>3. n \in Nat /\ c \in Nat /\ c < i /\ Only(line, c, i, Blanks(field))
  BY <1>1, <1>2 DEF Scanned
<1>4. Closed(c, i)
  <2>1. i # Len(line) + 1 => line[i] = Comma
    BY <1>1 DEF AtEnd, Sees
  <2>2. Comma \notin Blanks(field)
    BY CharactersDiffer DEF Blanks
  <2>3. i \in (c + 1) .. (Len(line) + 1)
    BY <1>1, <1>3
  <2>. QED  BY <1>3, <2>1, <2>2, <2>3 DEF Closed, Only
<1>5. CASE field # "price"
  <2>1. Only(line, c, i, {Blank})
    BY <1>3, <1>5 DEF Blanks
  <2>2. Field(n + 1) = << >>
    BY <1>1, <1>2, <1>3, <1>4, <2>1, FieldBlank
  <2>. QED  BY <1>2, <1>5, <2>2
<1>6. CASE field = "price"
  <2>1. Only(line, c, i, {Blank, "/"})
    BY <1>3, <1>6 DEF Blanks
  <2>2. Text("price") = Field(n + 1)
    BY <1>2, <1>6
  <2>3. PriceText = << >>
    BY <1>1, <1>2, <1>3, <1>4, <2>1, <2>2, PriceTextEmpty
  <2>. QED  BY <1>6, <2>3
<1>. QED  BY <1>5, <1>6

\* A sign in front of a number.
LEMMA NegativeText ==
  ASSUME TypeOK, Extracting, ~Skipped, start = 0, Sees({"-"})
  PROVE  /\ field # "price" => Text(field) # << >> /\ Text(field)[1] = "-"
         /\ field = "price" => PriceText # << >> /\ PriceText[1] = "-"
<1>1. /\ line \in Seq(Char) /\ Len(line) \in Nat
      /\ i \in Nat /\ 1 <= i /\ i <= Len(line) + 1 /\ field \in FieldNames
  BY TypesOfState
<1>2. PICK n \in 0 .. 4, c \in 0 .. Len(line) :
        /\ n = PlaceIn(message, field) - 1
        /\ Text(field) = Field(n + 1)
        /\ NthComma(line, n, c) /\ Scanned(c)
  BY ExtractionStands
<1>3. n \in Nat /\ c \in Nat /\ c < i /\ Only(line, c, i, Blanks(field))
  BY <1>1, <1>2 DEF Scanned
<1>4. i = Len(line) /\ line[i] = "-"
  BY <1>1 DEF Sees, Extracting
<1>. DEFINE e == i + 1
            text == SubSeq(line, i, i)
<1>5. "-" \notin {Blank, "/", Comma} /\ Comma \notin Blanks(field)
  BY CharactersDiffer DEF Blanks
<1>6. e \in Nat /\ e = Len(line) + 1 /\ i < e /\ c < e
  BY <1>1, <1>3, <1>4
<1>7. Only(line, i, e, {Blank})
  BY <1>1 DEF Only
<1>8. Closed(c, e)
  <2>1. \A k \in (c + 1) .. (e - 1) : k \in (c + 1) .. (i - 1) \/ k = i
    BY <1>1, <1>3
  <2>2. \A k \in (c + 1) .. (e - 1) : line[k] # Comma
    BY <1>3, <1>4, <1>5, <2>1 DEF Only
  <2>3. e \in (c + 1) .. (Len(line) + 1)
    BY <1>1, <1>3, <1>6
  <2>. HIDE DEF e
  <2>. QED  BY <1>6, <2>2, <2>3 DEF Closed
<1>9. text # << >> /\ text[1] = "-"
  <2>1. i \in 1 .. (Len(line) + 1) /\ i \in 0 .. Len(line) /\ i <= i + 1
        /\ i - i + 1 = 1 /\ i + 1 - 1 = i /\ 1 \in 1 .. 1
    BY <1>1, <1>4
  <2>2. Len(text) = i - i + 1 /\ \A k \in 1 .. (i - i + 1) : text[k] = line[i + k - 1]
    BY <1>1, <2>1, PartOfText
  <2>3. Len(text) = 1 /\ text[1] = line[i]
    BY <2>1, <2>2
  <2>4. Len(<< >>) = 0
    OBVIOUS
  <2>. HIDE DEF text
  <2>. QED  BY <1>4, <2>3, <2>4
<1>. HIDE DEF e
<1>10. CASE field # "price"
  <2>1. Inked(line, c, i, i, e)
    <3>1. Only(line, c, i, {Blank})
      BY <1>3, <1>10 DEF Blanks
    <3>2. \A k \in i .. i : k = i
      BY <1>1
    <3>. QED  BY <1>1, <1>3, <1>4, <1>5, <1>6, <1>7, <3>1, <3>2 DEF Inked
  <2>2. \A a, b \in Nat : Inked(line, c, a, b, e) => Field(n + 1) = SubSeq(line, a, b)
    BY <1>1, <1>2, <1>3, <1>8, FieldText
  <2>3. Field(n + 1) = text
    BY <1>1, <2>1, <2>2
  <2>. QED  BY <1>2, <1>9, <1>10, <2>3
<1>11. CASE field = "price"
  <2>1. Only(line, c, i, {Blank, "/"})
    BY <1>3, <1>11 DEF Blanks
  <2>2. Text("price") = Field(n + 1)
    BY <1>2, <1>11
  <2>3. PICK j \in Nat : j = i
    BY <1>1
  <2>4. c < j /\ j <= j /\ j < e /\ Only(line, c, j, {Blank, "/"})
        /\ line[j] \notin {Blank, "/"} /\ line[j] # Blank /\ Only(line, j, e, {Blank})
    BY <1>1, <1>3, <1>4, <1>5, <1>6, <1>7, <2>1, <2>3
  <2>5. PriceText = SubSeq(line, j, j)
    BY <1>1, <1>2, <1>3, <1>6, <1>8, <2>2, <2>4, PriceTextIs
  <2>6. PriceText = text
    BY <2>3, <2>5
  <2>. QED  BY <1>9, <1>11, <2>6
<1>. QED  BY <1>10, <1>11

\* A number that is complete.
LEMMA NumberText ==
  ASSUME TypeOK, Extracting, ~Skipped, field \in {"orderId", "qty"}, start # 0,
         Sees({Blank, Comma})
  PROVE  /\ SubSeq(line, start, i - 1) \in Seq(Digits)
         /\ SubSeq(line, start, i - 1) # << >>
         /\ Text(field) = SubSeq(line, start, i - 1)
         /\ FrontNumber(Text(field)) = SubSeq(line, start, i - 1)
         /\ start \in 1 .. Len(line) /\ i - 1 \in 1 .. Len(line) /\ i = Len(line)
         /\ dot = 0
         /\ \E c \in 0 .. Len(line) :
              /\ NthComma(line, PlaceIn(message, field) - 1, c)
              /\ Inked(line, c, start, i - 1, i)
<1>. DEFINE s == start
            b == i - 1
            e == IF line[i] = Comma THEN i ELSE i + 1
            text == SubSeq(line, s, b)
<1>1. /\ line \in Seq(Char) /\ Len(line) \in Nat
      /\ i \in Nat /\ 1 <= i /\ i <= Len(line) + 1 /\ field \in FieldNames
      /\ start \in Nat /\ dot \in Nat
  BY TypesOfState
<1>2. PICK n \in 0 .. 4, c \in 0 .. Len(line) :
        /\ n = PlaceIn(message, field) - 1
        /\ Text(field) = Field(n + 1)
        /\ NthComma(line, n, c) /\ Scanned(c)
  BY ExtractionStands
<1>3. dot = 0 /\ Blanks(field) = {Blank}
  BY <1>2 DEF Scanned, Blanks
<1>4. /\ n \in Nat /\ c \in Nat /\ c < s /\ s < i /\ Only(line, c, s, {Blank})
      /\ \A k \in s .. b : line[k] \in Digits
  <2>1. \A k \in s .. b : k # 0
    BY <1>1
  <2>. QED  BY <1>1, <1>2, <1>3, <2>1 DEF Scanned
<1>5. i = Len(line) /\ line[i] \in {Blank, Comma}
  BY <1>1 DEF Sees, Extracting
<1>6. s \in Nat /\ b \in Nat /\ e \in Nat /\ s <= b /\ b < i /\ i <= e /\ b < e
      /\ e <= Len(line) + 1 /\ s \in 1 .. Len(line) /\ b \in 1 .. Len(line)
  BY <1>1, <1>4, <1>5
<1>7. Blank # Comma /\ Blank \notin Digits /\ Comma \notin Digits
  BY CharactersDiffer
<1>8. Inked(line, c, s, b, i) /\ Inked(line, c, s, b, e)
  <2>1. s \in s .. b /\ b \in s .. b
    BY <1>6
  <2>2. line[s] # Blank /\ line[b] # Blank /\ \A k \in s .. b : line[k] # Comma
    BY <1>4, <1>7, <2>1
  <2>3. Only(line, b, i, {Blank})
    BY <1>1 DEF Only
  <2>4. Only(line, b, e, {Blank})
    <3>1. CASE line[i] = Comma
      BY <2>3, <3>1
    <3>2. CASE line[i] # Comma
      <4>1. \A k \in (b + 1) .. (e - 1) : k = i
        BY <1>1, <3>2
      <4>. QED  BY <1>5, <3>2, <4>1 DEF Only
    <3>. QED  BY <3>1, <3>2
  <2>. HIDE DEF s, b, e
  <2>. QED  BY <1>4, <1>6, <2>2, <2>3, <2>4 DEF Inked
<1>9. e \in 1 .. (Len(line) + 1) /\ (e # Len(line) + 1 => line[e] = Comma)
  BY <1>1, <1>5
<1>. HIDE DEF s, b, e
<1>10. Closed(c, e)
  BY <1>1, <1>4, <1>6, <1>8, <1>9, InkedIsClosed
<1>11. Field(n + 1) = text
  <2>1. \A k, m \in Nat : Inked(line, c, k, m, e) => Field(n + 1) = SubSeq(line, k, m)
    BY <1>1, <1>2, <1>4, <1>10, FieldText
  <2>. QED  BY <1>6, <1>8, <2>1
<1>12. /\ text \in Seq(Digits) /\ text \in Seq(Char) /\ Len(text) = b - s + 1
       /\ \A k \in 1 .. (b - s + 1) : text[k] \in Digits
  <2>1. s \in 1 .. (Len(line) + 1) /\ b \in 0 .. Len(line) /\ s <= b + 1
    BY <1>1, <1>6
  <2>2. text \in Seq(Digits)
    BY <1>1, <1>4, <2>1, PartIsNumber
  <2>3. text \in Seq(Char) /\ Len(text) = b - s + 1
    BY <1>1, <2>1, PartOfText
  <2>. HIDE DEF text
  <2>4. \A k \in 1 .. (b - s + 1) : text[k] \in Digits
    BY <2>2, <2>3, ElementOfSeq
  <2>. QED  BY <2>2, <2>3, <2>4
<1>. HIDE DEF text
<1>13. text # << >>
  <2>1. Len(<< >>) = 0 /\ b - s + 1 # 0
    BY <1>6
  <2>. QED  BY <1>12, <2>1
<1>14. FrontNumber(text) = text
  <2>. DEFINE m == Len(text)
  <2>1. m \in 0 .. m /\ ~(m < m) /\ \A k \in 1 .. m : text[k] \in Digits
    BY <1>6, <1>12
  <2>2. FrontNumber(text) = SubSeq(text, 1, m)
    <3>1. m \in 0 .. Len(text) /\ ~(m < Len(text))
      BY <2>1
    <3>. HIDE DEF m
    <3>. QED  BY <1>12, <2>1, <3>1, FrontNumberIs
  <2>. QED  BY <1>12, <2>2, SubSeqFull
<1>15. Text(field) = text
  BY <1>2, <1>11
<1>. QED  BY <1>2, <1>3, <1>5, <1>6, <1>8, <1>12, <1>13, <1>14, <1>15 DEF s, b, text

LEMMA extractLetterStep ==
  ASSUME TypeOK, Scanning, result = "parsing",
         NEW f \in Letters, NEW letters \in {Actions, Sides}, letters \subseteq ValuesOf(f),
         NEW wrong \in Errors, NEW missing \in Errors, NEW atEnd \in Errors,
         Tells(wrong), Missing(f) => Tells(missing), Missing(f) => Tells(atEnd),
         extractLetter(f, letters, wrong, missing, atEnd),
         f = "side" => message.action # "T"
  PROVE  Outcome
<1>1. /\ line \in Seq(Char) /\ Len(line) \in Nat
      /\ i \in Nat /\ 1 <= i /\ i <= Len(line) + 1 /\ field \in FieldNames
  BY TypesOfState
<1>2. /\ at = "extract" /\ field = f /\ Extracting /\ ~Skipped /\ f # "price"
  BY DEF extractLetter, Scanning, Skipped, Letters
<1>3. PICK c \in 0 .. Len(line) :
        NthComma(line, PlaceIn(message, field) - 1, c) /\ Scanned(c)
  BY <1>2 DEF Extracting
<1>4. start = 0 /\ dot = 0 /\ c \in Nat /\ c < i /\ Only(line, c, i, {Blank})
  BY <1>1, <1>2, <1>3 DEF Scanned, Letters, Blanks
<1>5. ASSUME NEW counter \in {missing, atEnd}, AtEnd \/ Sees({Comma}), Reject(counter)
      PROVE  Outcome
  <2>1. Missing(f)
    BY <1>2, <1>4, <1>5, MissingText DEF Missing
  <2>. QED  BY <1>5, <2>1 DEF Outcome
<1>6. CASE Sees({Blank}) /\ Skip
  <2>1. Blanks(field) = {Blank}
    BY <1>2 DEF Blanks
  <2>. QED  BY <1>2, <1>4, <1>6, <2>1, SkipInExtraction
<1>7. CASE Sees(letters) /\ Extracted(line[i], i + 1)
  <2>1. i = Len(line) /\ line[i] \in letters
    BY <1>1, <1>2, <1>7 DEF Sees, Extracting
  <2>2. PICK j, value : j \in Nat /\ j = i /\ value = line[i]
    BY <1>1
  <2>3. value # Blank /\ value # Comma
    BY <2>1, <2>2, CharactersDiffer
  <2>4. j \in 1 .. Len(line) /\ j + 1 \in Nat /\ 1 <= j + 1 /\ Len(line) <= j + 1
        /\ j + 1 <= Len(line) + 1
    BY <1>1, <2>1, <2>2
  <2>5. Inked(line, c, j, j, j + 1)
    <3>1. Only(line, j, j + 1, {Blank})
      BY <2>2 DEF Only
    <3>2. \A k \in j .. j : k = j
      OBVIOUS
    <3>3. c < j /\ j <= j /\ j < j + 1 /\ Only(line, c, j, {Blank})
      BY <1>4, <2>2
    <3>. QED  BY <2>2, <2>3, <3>1, <3>2, <3>3 DEF Inked
  <2>6. SubSeq(line, j, j) = <<value>>
    <3>1. SubSeq(line, j, j) = SubSeq(line, j, j - 1) \o <<line[j]>>
      BY <1>1, <2>4, SubSeqRecursiveSecond
    <3>2. SubSeq(line, j, j - 1) = << >>
      BY <2>2, SubSeqEmpty
    <3>3. <<line[j]>> \in Seq(Char)
      BY <1>1, <2>4, ElementOfSeq
    <3>. QED  BY <2>2, <3>1, <3>2, <3>3, ConcatEmptySeq
  <2>7. IsValue(field, value, SubSeq(line, j, j)) /\ value \in ValuesOf(field)
    BY <1>2, <2>1, <2>2, <2>6 DEF IsValue
  <2>8. Extracted(value, j + 1)
    BY <1>7, <2>2
  <2>. DEFINE next == j + 1
  <2>. HIDE DEF next
  <2>9. Outcome
    BY <1>2, <1>3, <1>4, <2>4, <2>5, <2>7, <2>8, ExtractedOutcome DEF next
  <2>. QED  BY <2>9
<1>8. CASE Reject(wrong)
  BY <1>8 DEF Outcome
<1>. QED  BY <1>5, <1>6, <1>7, <1>8 DEF extractLetter

LEMMA extractActionStep ==
  ASSUME TypeOK, Scanning, result = "parsing", extractAction
  PROVE  Outcome
<1>1. /\ "action" \in Letters /\ Actions \subseteq ValuesOf("action")
      /\ "wrongActions" \in Errors /\ "missingActions" \in Errors
  BY DEF Letters, ValuesOf, Errors
<1>2. Tells("wrongActions") /\ (Missing("action") => Tells("missingActions"))
  BY DEF Tells
<1>. QED  BY <1>1, <1>2, extractLetterStep DEF extractAction

LEMMA extractSideStep ==
  ASSUME TypeOK, Scanning, result = "parsing", extractSide
  PROVE  Outcome
<1>1. /\ "side" \in Letters /\ Sides \subseteq ValuesOf("side")
      /\ "wrongSides" \in Errors /\ "missingSides" \in Errors
      /\ "IncompleteMessages" \in Errors
  BY DEF Letters, ValuesOf, Errors
<1>2. /\ Tells("wrongSides") /\ Tells("IncompleteMessages")
      /\ Missing("side") => Tells("missingSides")
  BY DEF Tells
<1>. QED  BY <1>1, <1>2, extractLetterStep DEF extractSide

LEMMA extractIntegerStep ==
  ASSUME TypeOK, Scanning, result = "parsing", at = "extract", ~Skipped,
         field \in {"orderId", "qty"}, NEW maxDigits, maxDigits = DigitsOf(field),
         NEW negative \in Errors, NEW missing \in Errors, NEW outOfBounds \in Errors,
         NEW zero \in Errors,
         Negative(field) => Tells(negative), Missing(field) => Tells(missing),
         TooLong(field, maxDigits) => Tells(outOfBounds), Zero(field) => Tells(zero),
         extractInteger(maxDigits, negative, missing, outOfBounds, zero)
  PROVE  Outcome
<1>1. /\ line \in Seq(Char) /\ Len(line) \in Nat
      /\ i \in Nat /\ 1 <= i /\ i <= Len(line) + 1 /\ field \in FieldNames
  BY TypesOfState
<1>2. Extracting /\ field # "price" /\ field \notin Letters /\ Blanks(field) = {Blank}
  BY DEF Scanning, Letters, Blanks
<1>3. ASSUME NEW counter \in {"IncompleteMessages", "corruptedMessages"},
             Reject(counter)
      PROVE  Outcome
  <2>1. counter \in Errors
    BY DEF Errors
  <2>2. Tells(counter)
    BY DEF Tells
  <2>. QED  BY <1>3, <2>1, <2>2 DEF Outcome
<1>4. CASE Digit
  BY <1>2, <1>4, DigitInExtraction
<1>5. CASE Sees({Blank}) /\ start = 0 /\ Skip
  BY <1>2, <1>5, SkipInExtraction
<1>6. CASE Sees({Comma}) /\ start = 0 /\ Reject(missing)
  <2>1. Missing(field)
    BY <1>2, <1>6, MissingText DEF Missing
  <2>. QED  BY <1>6, <2>1 DEF Outcome
<1>7. CASE Sees({"-"}) /\ start = 0 /\ Reject(negative)
  <2>1. Negative(field)
    BY <1>2, <1>7, NegativeText DEF Negative
  <2>. QED  BY <1>7, <2>1 DEF Outcome
<1>8. CASE Sees({Blank, Comma}) /\ start # 0 /\ FinishInteger(maxDigits, outOfBounds, zero)
  <2>1. PICK s \in Nat, b \in Nat, j \in Nat : s = start /\ b = i - 1 /\ j = i
    <3>1. start \in Nat /\ i - 1 \in Nat
      BY <1>1, TypesOfState
    <3>. QED  BY <1>1, <3>1
  <2>. DEFINE digits == SubSeq(line, s, b)
              value  == retreive_unsigned_integer(digits)
  <2>2. /\ digits \in Seq(Digits) /\ digits # << >>
        /\ Text(field) = digits /\ FrontNumber(Text(field)) = digits
        /\ s \in 1 .. Len(line) /\ b \in 1 .. Len(line) /\ i = Len(line) /\ dot = 0
    BY <1>2, <1>8, <2>1, NumberText
  <2>3. PICK c \in 0 .. Len(line) :
          NthComma(line, PlaceIn(message, field) - 1, c) /\ Inked(line, c, s, b, j)
    BY <1>2, <1>8, <2>1, NumberText
  <2>4. \/ Len(digits) > maxDigits /\ Reject(outOfBounds)
        \/ Len(digits) <= maxDigits /\ value = 0 /\ Reject(zero)
        \/ Len(digits) <= maxDigits /\ value # 0 /\ Extracted(value, j)
    BY <1>8, <2>1 DEF FinishInteger
  <2>. HIDE DEF digits, value
  <2>5. CASE Len(digits) > maxDigits /\ Reject(outOfBounds)
    <3>1. TooLong(field, maxDigits)
      BY <2>2, <2>5 DEF TooLong
    <3>. QED  BY <2>5, <3>1 DEF Outcome
  <2>6. CASE value = 0 /\ Reject(zero)
    <3>1. Decimal(digits) = value
      BY NumberHasValue DEF value
    <3>2. Zero(field)
      BY <2>2, <2>6, <3>1 DEF Zero
    <3>. QED  BY <2>6, <3>2 DEF Outcome
  <2>7. CASE Len(digits) <= maxDigits /\ value # 0 /\ Extracted(value, j)
    <3>1. value \in Nat
      BY <2>2, NumberIsBounded DEF value
    <3>2. IsValue(field, value, SubSeq(line, s, b)) /\ value \in ValuesOf(field)
      BY <1>2, <2>2, <2>7, <3>1 DEF IsValue, ValuesOf, digits, value
    <3>3. 1 <= j /\ Len(line) <= j /\ j <= Len(line) + 1
      BY <1>1, <2>1, <2>2
    <3>. QED  BY <1>2, <2>2, <2>3, <2>7, <3>2, <3>3, ExtractedOutcome
  <2>. QED  BY <2>4, <2>5, <2>6, <2>7
<1>9. extractInteger(maxDigits, negative, missing, outOfBounds, zero) =>
        \/ Reject("IncompleteMessages") \/ Reject("corruptedMessages")
        \/ Digit
        \/ Sees({Blank}) /\ start = 0 /\ Skip
        \/ Sees({Comma}) /\ start = 0 /\ Reject(missing)
        \/ Sees({"-"}) /\ start = 0 /\ Reject(negative)
        \/ Sees({Blank, Comma}) /\ start # 0 /\ FinishInteger(maxDigits, outOfBounds, zero)
  BY DEF extractInteger
<1>. QED  BY <1>3, <1>4, <1>5, <1>6, <1>7, <1>8, <1>9

LEMMA extractOrderIdStep ==
  ASSUME TypeOK, Scanning, result = "parsing", extractOrderId
  PROVE  Outcome
<1>1. at = "extract" /\ field = "orderId" /\ ~Skipped /\ OrderIdDigits = DigitsOf(field)
  BY DEF extractOrderId, Skipped, DigitsOf
<1>2. /\ "negativeOrderIds" \in Errors /\ "missingOrderIds" \in Errors
      /\ "outOfBoundsOrderIds" \in Errors /\ "zeroOrderIds" \in Errors
  BY DEF Errors
<1>3. /\ Negative("orderId") => Tells("negativeOrderIds")
      /\ Missing("orderId") => Tells("missingOrderIds")
      /\ TooLong("orderId", OrderIdDigits) => Tells("outOfBoundsOrderIds")
      /\ Zero("orderId") => Tells("zeroOrderIds")
  BY DEF Tells
<1>. QED  BY <1>1, <1>2, <1>3, extractIntegerStep DEF extractOrderId

LEMMA extractQtyStep ==
  ASSUME TypeOK, Scanning, result = "parsing", extractQty
  PROVE  Outcome
<1>1. at = "extract" /\ field = "qty" /\ ~Skipped /\ QtyDigits = DigitsOf(field)
  BY DEF extractQty, Skipped, DigitsOf
<1>2. /\ "negativeQuantities" \in Errors /\ "missingQuantities" \in Errors
      /\ "outOfBoundsQuantities" \in Errors /\ "zeroQuantities" \in Errors
  BY DEF Errors
<1>3. /\ Negative("qty") => Tells("negativeQuantities")
      /\ Missing("qty") => Tells("missingQuantities")
      /\ TooLong("qty", QtyDigits) => Tells("outOfBoundsQuantities")
      /\ Zero("qty") => Tells("zeroQuantities")
  BY DEF Tells
<1>. QED  BY <1>1, <1>2, <1>3, extractIntegerStep DEF extractQty

\* A price that is complete.
LEMMA PriceComplete ==
  ASSUME TypeOK, Extracting, field = "price", start # 0,
         AtEnd \/ Sees({Blank, Comma, "/"})
  PROVE  /\ Priced(line, start, dot, i)
         /\ FrontNumber(PriceText) = IntegerPart(line, start, dot, i)
         /\ PriceOf(FrontNumber(PriceText), PriceDecimals)
              = PriceValue(IntegerPart(line, start, dot, i), KeptPart(line, dot, i))
<1>1. /\ line \in Seq(Char) /\ Len(line) \in Nat
      /\ i \in Nat /\ 1 <= i /\ i <= Len(line) + 1 /\ field \in FieldNames
      /\ start \in Nat /\ dot \in Nat
  BY TypesOfState
<1>2. PICK s \in Nat, d \in Nat, j \in Nat : s = start /\ d = dot /\ j = i
  BY <1>1
<1>3. PICK n \in 0 .. 4, c \in 0 .. Len(line) :
        /\ Text(field) = Field(n + 1)
        /\ NthComma(line, n, c) /\ Scanned(c)
  BY ExtractionStands DEF Skipped
<1>4. /\ n \in Nat /\ c \in Nat /\ c < s /\ s < j /\ Only(line, c, s, {Blank, "/"})
      /\ \A k \in s .. (j - 1) : k # d => line[k] \in Digits
      /\ d # 0 => s < d /\ d < j /\ line[d] = "."
  BY <1>1, <1>2, <1>3 DEF Scanned, Blanks
<1>5. Priced(line, s, d, j)
  BY <1>1, <1>2, <1>4 DEF Priced
<1>6. /\ {Blank, Comma, "/"} \cap Digits = {} /\ "." \notin {Blank, Comma, "/"}
      /\ Blank # Comma /\ "/" # Comma /\ Blank # "/"
  BY CharactersDiffer
<1>7. \A k \in s .. (j - 1) : line[k] \notin {Blank, Comma, "/"}
  BY <1>4, <1>6
<1>8. line[s] \notin {Blank, "/"} /\ line[j - 1] # Blank
  <2>1. s \in s .. (j - 1) /\ j - 1 \in s .. (j - 1)
    BY <1>4
  <2>. QED  BY <1>7, <2>1
<1>9. \/ j = Len(line) + 1
      \/ j = Len(line) /\ line[j] \in {Blank, Comma, "/"}
  BY <1>1, <1>2 DEF AtEnd, Sees, Extracting
<1>10. ASSUME NEW r \in Nat, NEW e \in Nat, s <= r, r < e, j <= e, e <= j + 1,
              r = j - 1 \/ (r = j /\ j <= Len(line) /\ line[j] = "/"),
              Only(line, r, e, {Blank}), e <= Len(line) + 1,
              e # Len(line) + 1 => line[e] = Comma,
              e = j + 1 => line[j] # Comma
       PROVE  /\ FrontNumber(PriceText) = IntegerPart(line, s, d, j)
              /\ PriceOf(FrontNumber(PriceText), PriceDecimals)
                   = PriceValue(IntegerPart(line, s, d, j), KeptPart(line, d, j))
  <2>1. Closed(c, e)
    <3>1. ASSUME NEW k \in (c + 1) .. (e - 1) PROVE line[k] # Comma
      <4>1. k \in (c + 1) .. (s - 1) \/ k \in s .. (j - 1) \/ (k = j /\ e = j + 1)
        BY <1>4, <1>10
      <4>. QED  BY <1>4, <1>6, <1>7, <1>10, <4>1 DEF Only
    <3>2. e \in (c + 1) .. (Len(line) + 1)
      BY <1>1, <1>4, <1>10
    <3>. QED  BY <1>10, <3>1, <3>2 DEF Closed
  <2>2. line[r] # Blank
    BY <1>6, <1>8, <1>10
  <2>3. Text("price") = Field(n + 1)
    BY <1>3
  <2>4. PriceText = SubSeq(line, s, r)
    <3>1. /\ line \in Seq(Char) /\ n \in Nat /\ NthComma(line, n, c) /\ Closed(c, e)
          /\ Text("price") = Field(n + 1) /\ line[r] # Blank
      BY <1>1, <1>3, <1>4, <2>1, <2>2, <2>3
    <3>2. /\ s \in Nat /\ r \in Nat /\ c < s /\ s <= r /\ r < e
          /\ Only(line, c, s, {Blank, "/"}) /\ line[s] \notin {Blank, "/"}
          /\ Only(line, r, e, {Blank})
      BY <1>4, <1>8, <1>10
    <3>. QED  BY <3>1, <3>2, PriceTextIs
  <2>. QED  BY <1>1, <1>5, <1>10, <2>4, PriceTextHasParts
<1>11. CASE j = Len(line) + 1
  <2>1. Only(line, j - 1, j, {Blank})
    BY <1>4 DEF Only
  <2>2. j - 1 \in Nat /\ s <= j - 1 /\ j - 1 < j /\ j <= j /\ j <= j + 1 /\ j # j + 1
    BY <1>4
  <2>3. /\ FrontNumber(PriceText) = IntegerPart(line, s, d, j)
        /\ PriceOf(FrontNumber(PriceText), PriceDecimals)
             = PriceValue(IntegerPart(line, s, d, j), KeptPart(line, d, j))
    BY <1>1, <1>10, <1>11, <2>1, <2>2
  <2>. QED  BY <1>2, <1>5, <2>3
<1>12. CASE j = Len(line) /\ line[j] = Comma
  <2>1. Only(line, j - 1, j, {Blank})
    BY <1>4 DEF Only
  <2>2. j - 1 \in Nat /\ s <= j - 1 /\ j - 1 < j /\ j <= j /\ j <= j + 1 /\ j # j + 1
        /\ j <= Len(line) + 1
    BY <1>4, <1>12
  <2>3. /\ FrontNumber(PriceText) = IntegerPart(line, s, d, j)
        /\ PriceOf(FrontNumber(PriceText), PriceDecimals)
             = PriceValue(IntegerPart(line, s, d, j), KeptPart(line, d, j))
    BY <1>1, <1>10, <1>12, <2>1, <2>2
  <2>. QED  BY <1>2, <1>5, <2>3
<1>13. CASE j = Len(line) /\ line[j] = Blank
  <2>. DEFINE e == j + 1
              r == j - 1
  <2>1. Only(line, r, e, {Blank})
    <3>1. \A k \in (r + 1) .. (e - 1) : k = j
      BY <1>4
    <3>. QED  BY <1>13, <3>1 DEF Only
  <2>2. r \in Nat /\ s <= r /\ r < e /\ j <= e /\ e <= j + 1 /\ e \in Nat
        /\ e <= Len(line) + 1 /\ e = Len(line) + 1 /\ r = j - 1
    BY <1>4, <1>13
  <2>. HIDE DEF e, r
  <2>3. /\ FrontNumber(PriceText) = IntegerPart(line, s, d, j)
        /\ PriceOf(FrontNumber(PriceText), PriceDecimals)
             = PriceValue(IntegerPart(line, s, d, j), KeptPart(line, d, j))
    BY <1>6, <1>10, <1>13, <2>1, <2>2
  <2>. QED  BY <1>2, <1>5, <2>3
<1>14. CASE j = Len(line) /\ line[j] = "/"
  <2>. DEFINE e == j + 1
  <2>1. Only(line, j, e, {Blank})
    <3>1. \A k \in (j + 1) .. (e - 1) : FALSE
      OBVIOUS
    <3>. QED  BY <3>1 DEF Only
  <2>2. s <= j /\ j < e /\ j <= e /\ e <= j + 1 /\ e \in Nat
        /\ e <= Len(line) + 1 /\ e = Len(line) + 1 /\ j <= Len(line)
    BY <1>1, <1>4, <1>14
  <2>. HIDE DEF e
  <2>3. /\ FrontNumber(PriceText) = IntegerPart(line, s, d, j)
        /\ PriceOf(FrontNumber(PriceText), PriceDecimals)
             = PriceValue(IntegerPart(line, s, d, j), KeptPart(line, d, j))
    BY <1>6, <1>10, <1>14, <2>1, <2>2
  <2>. QED  BY <1>2, <1>5, <2>3
<1>. QED  BY <1>9, <1>11, <1>12, <1>13, <1>14

\* What was read is the text of its field.
LEMMA FieldIsRead ==
  ASSUME NEW S, line \in Seq(S), NEW msg, NEW f,
         PlaceIn(msg, f) \in 1 .. 5, FieldRead(line, msg, f)
  PROVE  HasValue(msg, f, Field(PlaceIn(msg, f)))
<1>1. Len(line) \in Nat
  BY LenProperties
<1>2. PICK c \in 0 .. Len(line), e \in 1 .. Len(line) :
        ReadAt(line, msg, f, c, e) /\ line[e] = Comma
  BY DEF FieldRead
<1>3. PICK a, b \in 1 .. Len(line) :
        Inked(line, c, a, b, e) /\ HasValue(msg, f, SubSeq(line, a, b))
  BY <1>2 DEF ReadAt
<1>. DEFINE n == PlaceIn(msg, f) - 1
<1>4. n \in Nat /\ n + 1 = PlaceIn(msg, f) /\ NthComma(line, n, c)
  BY <1>2 DEF ReadAt
<1>. HIDE DEF n
<1>5. Closed(c, e)
  <2>1. c \in Nat /\ a \in Nat /\ b \in Nat /\ e \in 1 .. (Len(line) + 1)
    BY <1>1
  <2>. QED  BY <1>1, <1>2, <1>3, <2>1, InkedIsClosed
<1>6. Field(n + 1) = SubSeq(line, a, b)
  <2>1. a \in Nat /\ b \in Nat
    BY <1>1
  <2>. QED  BY <1>3, <1>4, <1>5, <2>1, FieldText
<1>. QED  BY <1>3, <1>4, <1>6

LEMMA TextStays ==
  ASSUME line' = line, message'.action = message.action
  PROVE  /\ \A n : Field(n)' = Field(n)
         /\ \A f : Text(f)' = Text(f)
         /\ PriceText' = PriceText /\ PriceDecimals' = PriceDecimals
<1>1. \A n : Field(n)' = Field(n)
  BY DEF Field, CommaAt
<1>2. \A f : Place(f)' = Place(f)
  BY DEF Place
<1>3. \A f : Text(f)' = Text(f)
  BY <1>1, <1>2 DEF Text
<1>4. PriceText' = PriceText
  BY <1>3 DEF PriceText
<1>. QED  BY <1>1, <1>3, <1>4 DEF PriceDecimals

LEMMA NumbersAreDigits ==
  ASSUME NEW text \in Seq(Digits), text # << >>
  PROVE  IsNumber(text)
<1>1. \A k \in DOMAIN text : text[k] \in Digits
  BY LenProperties, ElementOfSeq
<1>. QED  BY <1>1 DEF IsNumber, Range

\* A number of no more digits than allowed is within its bound.
LEMMA NumberWithinBound ==
  ASSUME NEW text \in Seq(Digits), NEW digits \in Nat, Len(text) <= digits,
         NEW value, value = retreive_unsigned_integer(text), value # 0
  PROVE  value \in 1 .. (PowerOfTen[digits] - 1)
<1>. DEFINE n == Len(text)
            p == PowerOfTen[n]
            q == PowerOfTen[digits]
<1>1. n \in Nat /\ n <= digits
  BY LenProperties
<1>2. value \in Nat /\ value < p
  BY NumberIsBounded
<1>. HIDE DEF n
<1>3. p <= q /\ p \in Nat /\ q \in Nat
  BY <1>1, PowersAreOrdered, PowersArePositive
<1>. HIDE DEF p, q
<1>4. value \in 1 .. (q - 1)
  BY <1>2, <1>3
<1>. QED  BY <1>4 DEF q

LEMMA FinishPriceStep ==
  ASSUME TypeOK, at = "extract", result = "parsing", Extracting, field = "price",
         start # 0, AtEnd \/ Sees({Blank, Comma, "/"}), FinishPrice
  PROVE  Outcome
<1>. DEFINE integer == IntegerPart(line, start, dot, i)
            kept    == KeptPart(line, dot, i)
            price   == PriceValue(integer, kept)
            new     == [message EXCEPT !.price = price]
<1>1. line \in Seq(Char) /\ message \in Messages
  BY TypesOfState
<1>2. /\ Priced(line, start, dot, i)
      /\ FrontNumber(PriceText) = integer
      /\ PriceOf(FrontNumber(PriceText), PriceDecimals) = price
  BY PriceComplete
<1>3. integer \in Seq(Digits) /\ kept \in Seq(Digits) /\ Len(kept) <= PricePrecision
  BY <1>1, <1>2, PricePartsAreNumbers
<1>4. \/ Len(integer) > PriceDigits /\ Reject("outOfBoundsPrices")
      \/ Len(integer) <= PriceDigits /\ price = 0 /\ Reject("zeroPrices")
      \/ /\ Len(integer) <= PriceDigits /\ price # 0
         /\ message' = new /\ result' = "accepted"
         /\ UNCHANGED <<line, ended, i, at, field, start, dot>>
  <2>1. retreive_unsigned_float(SubSeq(line, start, LastKept(dot, i)), PricePrecision) = price
    BY <1>1, <1>2, PriceIsRead
  <2>. HIDE DEF price
  <2>. QED  BY <2>1 DEF FinishPrice, integer, IntegerPart, LastKept, new
<1>5. CASE Len(integer) > PriceDigits /\ Reject("outOfBoundsPrices")
  <2>1. "outOfBoundsPrices" \in Errors
    BY DEF Errors
  <2>2. Len(FrontNumber(PriceText)) > PriceDigits
    BY <1>2, <1>5
  <2>3. Tells("outOfBoundsPrices")
    BY <2>2 DEF Tells
  <2>. QED  BY <1>5, <2>1, <2>3 DEF Outcome
<1>6. CASE price = 0 /\ Reject("zeroPrices")
  <2>1. "zeroPrices" \in Errors
    BY DEF Errors
  <2>2. PriceOf(FrontNumber(PriceText), PriceDecimals) = 0
    BY <1>2, <1>6
  <2>3. Tells("zeroPrices")
    BY <2>2 DEF Tells
  <2>. QED  BY <1>6, <2>1, <2>3 DEF Outcome
<1>7. CASE /\ Len(integer) <= PriceDigits /\ price # 0
           /\ message' = new /\ result' = "accepted"
           /\ UNCHANGED <<line, ended, i, at, field, start, dot>>
  <2>1. price \in Nat /\ price < PowerOfTen[PriceDigits + PricePrecision]
    BY <1>3, <1>7, PriceIsBounded
  <2>2. /\ new.price = price /\ \A g \in FieldNames \ {"price"} : new[g] = message[g]
        /\ new \in Messages
    <3>1. "price" \in FieldNames /\ price \in ValuesOf("price")
      BY <2>1 DEF FieldNames, ValuesOf
    <3>. HIDE DEF price
    <3>2. \A v : /\ [message EXCEPT !["price"] = v]["price"] = v
                 /\ \A g \in FieldNames \ {"price"} :
                      [message EXCEPT !["price"] = v][g] = message[g]
                 /\ v \in ValuesOf("price") => [message EXCEPT !["price"] = v] \in Messages
      BY <1>1, <3>1, MessageExcept
    <3>3. new = [message EXCEPT !["price"] = price]
      BY DEF new
    <3>. HIDE DEF new
    <3>. QED  BY <3>1, <3>2, <3>3
  <2>3. /\ new.action = message.action /\ new.orderId = message.orderId
        /\ new.side = message.side /\ new.qty = message.qty
    BY <2>2 DEF FieldNames
  <2>. HIDE DEF new, price, integer, kept
  <2>4. /\ message' = new /\ line' = line /\ i' = i /\ at' = at /\ field' = field
        /\ start' = start /\ dot' = dot /\ ended' = ended /\ result' = "accepted"
    BY <1>7
  <2>5. TypeOK'
    BY <2>2, <2>4 DEF TypeOK, Messages
  <2>6. /\ \A f : Text(f)' = Text(f)
        /\ PriceText' = PriceText /\ PriceDecimals' = PriceDecimals
    BY <2>3, <2>4, TextStays
  <2>7. ASSUME NEW f \in Before(message, "price")
        PROVE  HasValue(new, f, Text(f))
    <3>1. f \in FieldNames /\ f # "price"
      BY <2>7 DEF Before, FieldNames
    <3>2. FieldRead(line, message, f)
      BY <2>7 DEF Extracting, ReadBefore
    <3>3. Place(f) = PlaceIn(message, f) /\ PlaceIn(message, f) \in 1 .. 5
      BY <3>1, PlacesOfFields
    <3>4. HasValue(message, f, Field(PlaceIn(message, f)))
      BY <1>1, <3>2, <3>3, FieldIsRead
    <3>5. new[f] = message[f]
      BY <2>2, <3>1
    <3>. QED  BY <3>3, <3>4, <3>5 DEF HasValue, Text
  <2>8. Text("action") = <<new.action>> /\ IsValue("qty", new.qty, Text("qty"))
    <3>1. "action" \in Before(message, "price") /\ "qty" \in Before(message, "price")
      BY DEF Before
    <3>2. HasValue(new, "action", Text("action")) /\ HasValue(new, "qty", Text("qty"))
      BY <2>7, <3>1
    <3>. QED  BY <3>2 DEF HasValue, IsValue, Letters
  <2>9. ASSUME new.action # "T"
        PROVE  /\ Text("side") = <<new.side>>
               /\ IsValue("orderId", new.orderId, Text("orderId"))
    <3>1. "side" \in Before(message, "price") /\ "orderId" \in Before(message, "price")
      BY <2>3, <2>9 DEF Before
    <3>2. HasValue(new, "side", Text("side")) /\ HasValue(new, "orderId", Text("orderId"))
      BY <2>7, <3>1
    <3>. QED  BY <3>2 DEF HasValue, IsValue, Letters
  <2>10. /\ Text("qty") \in Seq(Digits) /\ Text("qty") # << >>
         /\ Len(Text("qty")) <= QtyDigits
         /\ new.qty = retreive_unsigned_integer(Text("qty")) /\ new.qty # 0
    BY <2>8 DEF IsValue, Letters, DigitsOf
  <2>11. ASSUME new.action # "T"
         PROVE  /\ Text("orderId") \in Seq(Digits) /\ Text("orderId") # << >>
                /\ Len(Text("orderId")) <= OrderIdDigits
                /\ new.orderId = retreive_unsigned_integer(Text("orderId"))
                /\ new.orderId # 0
    BY <2>9, <2>11 DEF IsValue, Letters, DigitsOf
  <2>12. AcceptedFieldsAreTheLines'
    <3>1. IsNumber(Text("qty")) /\ new.qty = Decimal(Text("qty"))
      BY <2>10, NumbersAreDigits, NumberHasValue
    <3>2. new.action # "T" =>
            IsNumber(Text("orderId")) /\ new.orderId = Decimal(Text("orderId"))
      BY <2>11, NumbersAreDigits, NumberHasValue
    <3>3. new.price = PriceOf(FrontNumber(PriceText), PriceDecimals)
      BY <1>2, <2>2
    <3>. QED  BY <2>4, <2>6, <2>8, <2>9, <3>1, <3>2, <3>3 DEF AcceptedFieldsAreTheLines
  <2>13. AcceptedWithinBounds'
    <3>1. new.qty \in 1 .. (PowerOfTen[QtyDigits] - 1)
      BY <2>10, NumberWithinBound, LimitsAreNatural
    <3>2. new.action # "T" => new.orderId \in 1 .. (PowerOfTen[OrderIdDigits] - 1)
      BY <2>11, NumberWithinBound, LimitsAreNatural
    <3>3. new.price \in 1 .. (PowerOfTen[PriceDigits + PricePrecision] - 1)
      <4>. DEFINE p == PowerOfTen[PriceDigits + PricePrecision]
      <4>1. p \in Nat /\ price \in Nat /\ price < p /\ price # 0
        <5>1. PriceDigits + PricePrecision \in Nat
          BY LimitsAreNatural
        <5>. QED  BY <1>7, <2>1, <5>1, PowersArePositive
      <4>. HIDE DEF p
      <4>2. price \in 1 .. (p - 1)
        BY <4>1
      <4>. QED  BY <2>2, <4>2 DEF p
    <3>. QED  BY <2>4, <3>1, <3>2, <3>3 DEF AcceptedWithinBounds
  <2>. QED  BY <2>4, <2>5, <2>12, <2>13 DEF Outcome
<1>. QED  BY <1>4, <1>5, <1>6, <1>7

LEMMA pointStep ==
  ASSUME TypeOK, at = "extract", result = "parsing", Extracting, field = "price",
         Sees({"."}), dot = 0, start # 0, dot' = i, i' = i + 1,
         UNCHANGED <<line, ended, at, field, start, message, result>>
  PROVE  Outcome
<1>1. /\ line \in Seq(Char) /\ Len(line) \in Nat
      /\ i \in Nat /\ 1 <= i /\ i <= Len(line) + 1 /\ field \in FieldNames
      /\ start \in Nat /\ dot \in Nat
  BY TypesOfState
<1>2. i <= Len(line) /\ line[i] = "."
  BY DEF Sees
<1>3. /\ line' = line /\ ended' = ended /\ at' = at /\ field' = field
      /\ start' = start /\ message' = message /\ result' = result
  OBVIOUS
<1>4. TypeOK'
  BY <1>1, <1>2, <1>3 DEF TypeOK
<1>5. ~Skipped /\ ~Skipped'
  BY <1>3 DEF Skipped
<1>6. PICK c \in 0 .. Len(line) :
        NthComma(line, PlaceIn(message, field) - 1, c) /\ Scanned(c)
  BY <1>5 DEF Extracting
<1>7. /\ c < i /\ c < start /\ start < i /\ Only(line, c, start, Blanks(field))
      /\ field \notin Letters
      /\ \A k \in start .. (i - 1) : k # dot => line[k] \in Digits
  BY <1>6 DEF Scanned
<1>8. \A k \in start .. ((i + 1) - 1) : k # i => line[k] \in Digits
  <2>1. \A k \in start .. ((i + 1) - 1) : k # i => k \in start .. (i - 1) /\ k # dot
    BY <1>1
  <2>. QED  BY <1>7, <2>1
<1>9. Scanned(c)'
  <2>1. c < i + 1 /\ start < i + 1 /\ i < i + 1
    BY <1>1, <1>7
  <2>. QED  BY <1>2, <1>3, <1>7, <1>8, <2>1 DEF Scanned
<1>10. Extracting'
  <2>1. Len(line) <= i + 1
    BY <1>1, <1>2 DEF Extracting
  <2>. QED  BY <1>3, <1>5, <1>6, <1>9, <2>1 DEF Extracting
<1>. QED  BY <1>3, <1>4, <1>10 DEF Scanning, Outcome

LEMMA extractPriceStep ==
  ASSUME TypeOK, Scanning, result = "parsing", extractPrice
  PROVE  Outcome
<1>1. at = "extract" /\ field = "price" /\ Extracting /\ ~Skipped /\ field \notin Letters
      /\ Blanks(field) = {Blank, "/"}
  BY DEF extractPrice, Scanning, Skipped, Letters, Blanks
<1>2. CASE (AtEnd \/ Sees({Blank, Comma, "/"})) /\ start # 0 /\ FinishPrice
  BY <1>1, <1>2, FinishPriceStep
<1>3. CASE (AtEnd \/ Sees({Comma})) /\ start = 0 /\ Reject("missingPrices")
  <2>1. PriceText = << >> /\ "missingPrices" \in Errors
    BY <1>1, <1>3, MissingText DEF Errors
  <2>2. Tells("missingPrices")
    BY <2>1 DEF Tells
  <2>. QED  BY <1>3, <2>1, <2>2 DEF Outcome
<1>4. CASE Sees({Blank, "/"}) /\ start = 0 /\ Skip
  BY <1>1, <1>4, SkipInExtraction
<1>5. CASE Digit
  BY <1>1, <1>5, DigitInExtraction
<1>6. CASE Reject("corruptedMessages")
  <2>1. "corruptedMessages" \in Errors /\ Tells("corruptedMessages")
    BY DEF Errors, Tells
  <2>. QED  BY <1>6, <2>1 DEF Outcome
<1>7. CASE /\ Sees({"."}) /\ dot = 0 /\ start # 0 /\ dot' = i /\ i' = i + 1
           /\ UNCHANGED <<line, ended, at, field, start, message, result>>
  BY <1>1, <1>7, pointStep
<1>8. CASE Sees({"-"}) /\ start = 0 /\ Reject("negativePrices")
  <2>1. PriceText # << >> /\ PriceText[1] = "-" /\ "negativePrices" \in Errors
    BY <1>1, <1>8, NegativeText DEF Errors
  <2>2. Tells("negativePrices")
    BY <2>1 DEF Tells
  <2>. QED  BY <1>8, <2>1, <2>2 DEF Outcome
<1>9. CASE Sees(Char \ (Digits \cup {".", Blank, Comma, "/"}))
           /\ Reject(IF Sees({"-"}) /\ start = 0 THEN "negativePrices"
                                                 ELSE "corruptedMessages")
  <2>1. CASE Sees({"-"}) /\ start = 0
    BY <1>8, <1>9, <2>1
  <2>2. CASE ~(Sees({"-"}) /\ start = 0)
    BY <1>6, <1>9, <2>2
  <2>. QED  BY <2>1, <2>2
<1>. QED  BY <1>2, <1>3, <1>4, <1>5, <1>6, <1>7, <1>9 DEF extractPrice

-----------------------------------------------------------------------------
(* The theorems.                                                            *)

\* The parser knows what it has gone over, until it ends with an outcome that
\* holds for the whole line.
ParserInv ==
  /\ TypeOK
  /\ result = "parsing" => Scanning
  /\ AcceptedFieldsAreTheLines /\ AcceptedWithinBounds /\ CounterTellsTheField

LEMMA InitParser == Init => ParserInv
<1>. SUFFICES ASSUME Init PROVE ParserInv
  OBVIOUS
<1>1. << >> \in Seq(Char) /\ Len(<< >>) = 0
  BY EmptySeq
<1>2. TypeOK
  <2>1. line = << >> /\ Len(line) = 0 /\ i = 1 /\ start = 0 /\ dot = 0
    BY <1>1 DEF Init
  <2>2. line \in Seq(Char) /\ Len(line) <= MaxLen
    BY <1>1, <2>1, LimitsAreNatural
  <2>3. i \in 1 .. (Len(line) + 1) /\ start \in 0 .. Len(line) /\ dot \in 0 .. Len(line)
    BY <2>1
  <2>4. field \in Range(Fields)
    BY FieldsAreNamed DEF Init, FieldNames
  <2>5. message \in [action : Actions \cup {"0"}, orderId : Nat,
                     side : Sides \cup {"0"}, qty : Nat, price : Nat]
    BY DEF Init
  <2>6. /\ ended \in BOOLEAN /\ at \in {"firstField", "nextField", "extract"}
        /\ result \in {"parsing", "accepted"} \cup Errors
    BY DEF Init
  <2>. QED  BY <2>2, <2>3, <2>4, <2>5, <2>6 DEF TypeOK
<1>3. Starting /\ at = "firstField"
  BY <1>1 DEF Init, Starting, Only
<1>4. Tells(result)
  BY DEF Init, Tells
<1>. QED  BY <1>2, <1>3, <1>4 DEF Init, ParserInv, Scanning, AcceptedFieldsAreTheLines,
          AcceptedWithinBounds, CounterTellsTheField

LEMMA StepOfParser == ParserInv /\ [Next]_vars => ParserInv'
<1>. SUFFICES ASSUME ParserInv, [Next]_vars PROVE ParserInv'
  OBVIOUS
<1>1. CASE UNCHANGED vars
  <2>1. /\ line' = line /\ ended' = ended /\ i' = i /\ at' = at /\ field' = field
        /\ start' = start /\ dot' = dot /\ message' = message /\ result' = result
    BY <1>1 DEF vars
  <2>2. /\ \A f : Text(f)' = Text(f)
        /\ PriceText' = PriceText /\ PriceDecimals' = PriceDecimals
    BY <2>1, TextStays
  <2>3. TypeOK'
    BY <2>1 DEF ParserInv, TypeOK
  <2>4. result = "parsing" => Scanning'
    BY <2>1 DEF ParserInv, Scanning, Starting, Extracting, Between, Skipped, AtComma, Scanned
  <2>5. AcceptedFieldsAreTheLines' /\ AcceptedWithinBounds'
    BY <2>1, <2>2 DEF ParserInv, AcceptedFieldsAreTheLines, AcceptedWithinBounds
  <2>6. CounterTellsTheField'
    BY <2>1, <2>2 DEF ParserInv, CounterTellsTheField, Tells, Negative, Missing, TooLong, Zero
  <2>. QED  BY <2>1, <2>3, <2>4, <2>5, <2>6 DEF ParserInv
<1>2. CASE Outcome
  <2>1. CASE result' = "parsing" /\ TypeOK' /\ Scanning'
    <3>1. Tells("parsing")'
      BY DEF Tells
    <3>2. CounterTellsTheField'
      BY <2>1 DEF CounterTellsTheField, Tells
    <3>. QED  BY <2>1, <3>2 DEF ParserInv, AcceptedFieldsAreTheLines, AcceptedWithinBounds
  <2>2. CASE \E counter \in Errors : Reject(counter) /\ Tells(counter)
    <3>1. PICK counter \in Errors : Reject(counter) /\ Tells(counter)
      BY <2>2
    <3>2. /\ line' = line /\ ended' = ended /\ i' = i /\ at' = at /\ field' = field
          /\ start' = start /\ dot' = dot /\ message' = message /\ result' = counter
      BY <3>1 DEF Reject
    <3>3. /\ \A f : Text(f)' = Text(f)
          /\ PriceText' = PriceText /\ PriceDecimals' = PriceDecimals
      BY <3>2, TextStays
    <3>4. counter # "parsing" /\ counter # "accepted"
      BY DEF Errors
    <3>5. TypeOK'
      BY <3>2 DEF ParserInv, TypeOK
    <3>6. CounterTellsTheField'
      BY <3>1, <3>2, <3>3 DEF CounterTellsTheField, Tells, Negative, Missing, TooLong, Zero
    <3>. QED  BY <3>2, <3>4, <3>5, <3>6 DEF ParserInv, AcceptedFieldsAreTheLines,
              AcceptedWithinBounds
  <2>3. CASE /\ result' = "accepted" /\ TypeOK'
             /\ AcceptedFieldsAreTheLines' /\ AcceptedWithinBounds'
    <3>1. CounterTellsTheField'
      BY <2>3 DEF CounterTellsTheField, Tells
    <3>. QED  BY <2>3, <3>1 DEF ParserInv
  <2>. QED  BY <1>2, <2>1, <2>2, <2>3 DEF Outcome
<1>3. CASE Look
  <2>1. result = "parsing" /\ TypeOK /\ Scanning
    BY <1>3 DEF Look, ParserInv
  <2>2. Outcome
    BY <1>3, <2>1, LookStep DEF Outcome
  <2>. QED  BY <1>2, <2>2
<1>4. CASE parse
  <2>1. result = "parsing" /\ TypeOK /\ Scanning
    BY <1>4 DEF parse, ParserInv
  <2>2. Outcome
    BY <1>4, <2>1, firstFieldStep, nextFieldStep, extractActionStep, extractOrderIdStep,
       extractSideStep, stepBackStep, extractQtyStep, extractPriceStep DEF parse
  <2>. QED  BY <1>2, <2>2
<1>. QED  BY <1>1, <1>3, <1>4 DEF Next, Done

LEMMA ParserAlways == Spec => []ParserInv
BY InitParser, StepOfParser, PTL DEF Spec

\* The index stays on the line or one past it, the number that is scanned
\* starts on it, and a message holds what parse returns.
THEOREM ParserHasTypes == Spec => []TypeOK
<1>1. ParserInv => TypeOK
  BY DEF ParserInv
<1>. QED  BY <1>1, ParserAlways, PTL

\* Whatever the bounds and however far the index goes back, the values of an
\* accepted message are those between the commas of its line.
THEOREM AcceptedFieldsAlways == Spec => []AcceptedFieldsAreTheLines
<1>1. ParserInv => AcceptedFieldsAreTheLines
  BY DEF ParserInv
<1>. QED  BY <1>1, ParserAlways, PTL

\* An accepted message has no value 0 and none that is out of bounds.
THEOREM AcceptedBoundsAlways == Spec => []AcceptedWithinBounds
<1>1. ParserInv => AcceptedWithinBounds
  BY DEF ParserInv
<1>. QED  BY <1>1, ParserAlways, PTL

\* The counter that a rejected line increases tells what its field is like.
THEOREM CountersAlways == Spec => []CounterTellsTheField
<1>1. ParserInv => CounterTellsTheField
  BY DEF ParserInv
<1>. QED  BY <1>1, ParserAlways, PTL
=============================================================================
