---------------------------- MODULE OutputProofs ----------------------------
(***************************************************************************)
(* What the streams hold, for buffers of any size, and what is written to  *)
(* them, for any numbers and any book.                                     *)
(***************************************************************************)
EXTENDS Output, TLAPS, FiniteSetTheorems, SequenceTheorems,
        WellFoundedInduction

-----------------------------------------------------------------------------
(* Induction and recursion.                                                 *)

LEMMA LeastNatural ==
  ASSUME NEW T \in SUBSET Nat, T # {}
  PROVE  \E m \in T : \A k \in T : m <= k
<1>1. \E m \in T : \A k \in T : <<k, m>> \notin OpToRel(<, Nat)
  BY WFMin, NatLessThanWellFounded, Zenon
<1>2. PICK m \in T : \A k \in T : <<k, m>> \notin OpToRel(<, Nat)
  BY <1>1
<1>3. ASSUME NEW k \in T
      PROVE  ~(k < m)
  BY <1>2 DEF OpToRel
<1>. QED  BY <1>3

\* Induction, for a property that is a set.
LEMMA SetInduction ==
  ASSUME NEW T \in SUBSET Nat, 0 \in T, \A n \in T : n + 1 \in T
  PROVE  T = Nat
<1>. DEFINE bad == Nat \ T
<1>. SUFFICES ASSUME bad # {} PROVE FALSE
  OBVIOUS
<1>1. PICK n \in bad : \A k \in bad : n <= k
  <2>1. bad \in SUBSET Nat
    OBVIOUS
  <2>. HIDE DEF bad
  <2>. QED  BY <2>1, LeastNatural
<1>2. n # 0 /\ n \in Nat
  OBVIOUS
<1>3. n - 1 \in Nat /\ ~(n <= n - 1) /\ (n - 1) + 1 = n
  BY <1>2
<1>4. n - 1 \in T
  BY <1>1, <1>3
<1>. QED  BY <1>3, <1>4

LEMMA StrongInduction ==
  ASSUME NEW T \in SUBSET Nat, \A n \in Nat : (\A k \in Nat : k < n => k \in T) => n \in T
  PROVE  T = Nat
<1>. DEFINE bad == Nat \ T
<1>. SUFFICES ASSUME bad # {} PROVE FALSE
  OBVIOUS
<1>1. PICK n \in bad : \A k \in bad : n <= k
  <2>1. bad \in SUBSET Nat
    OBVIOUS
  <2>. HIDE DEF bad
  <2>. QED  BY <2>1, LeastNatural
<1>2. n \in Nat /\ \A k \in Nat : k < n => k \in T
  BY <1>1
<1>. QED  BY <1>2

\* Induction over 0 .. n.
LEMMA BoundedInduction ==
  ASSUME NEW n \in Nat, NEW T \in SUBSET (0 .. n), 0 \in T,
         \A k \in T : k < n => k + 1 \in T
  PROVE  T = 0 .. n
<1>. DEFINE U == {k \in Nat : k <= n => k \in T}
<1>1. U \in SUBSET Nat /\ 0 \in U
  OBVIOUS
<1>2. ASSUME NEW k \in U PROVE k + 1 \in U
  OBVIOUS
<1>3. U = Nat
  <2>. HIDE DEF U
  <2>. QED  BY <1>1, <1>2, SetInduction
<1>4. ASSUME NEW k \in 0 .. n PROVE k \in T
  <2>1. k \in Nat /\ k <= n
    OBVIOUS
  <2>2. k \in U
    <3>. HIDE DEF U
    <3>. QED  BY <1>3, <2>1
  <2>. QED  BY <2>1, <2>2
<1>. QED  BY <1>4

LEMMA MinIsLeast ==
  ASSUME NEW T \in SUBSET Nat, T # {}
  PROVE  Min(T) \in T /\ \A k \in T : Min(T) <= k
<1>1. \E m \in T : \A k \in T : m <= k
  BY LeastNatural
<1>. QED  BY <1>1 DEF Min

LEMMA LeastIs ==
  ASSUME NEW T \in SUBSET Nat, NEW m \in T, \A k \in T : m <= k
  PROVE  Min(T) = m
<1>. DEFINE x == Min(T)
<1>1. x \in T /\ \A k \in T : x <= k
  BY MinIsLeast
<1>. HIDE DEF x
<1>2. x \in Nat /\ m \in Nat /\ x <= m /\ m <= x
  BY <1>1
<1>3. x = m
  BY <1>2
<1>. QED  BY <1>3 DEF x

\* The smaller of two numbers.
LEMMA MinOfTwo ==
  ASSUME NEW a \in Nat, NEW b \in Nat
  PROVE  Min({a, b}) = IF a <= b THEN a ELSE b
<1>1. CASE a <= b
  <2>1. \A k \in {a, b} : a <= k
    BY <1>1
  <2>2. Min({a, b}) = a
    BY <2>1, LeastIs
  <2>. QED  BY <1>1, <2>2
<1>2. CASE ~(a <= b)
  <2>1. \A k \in {a, b} : b <= k
    BY <1>2
  <2>2. Min({a, b}) = b
    BY <2>1, LeastIs
  <2>. QED  BY <1>2, <2>2
<1>. QED  BY <1>1, <1>2

\* The greatest number of 1 .. n + 1.
LEMMA MaxIsGreatest ==
  ASSUME NEW T \in SUBSET Nat, NEW n \in Nat, T \subseteq 1 .. n, T # {}
  PROVE  Max(T) \in T /\ \A k \in T : k <= Max(T)
<1>. DEFINE above == {m \in Nat : \A k \in T : k <= m}
<1>1. n \in above
  OBVIOUS
<1>2. PICK m \in above : \A k \in above : m <= k
  BY <1>1, LeastNatural
<1>3. m \in T
  <2>. SUFFICES ASSUME m \notin T PROVE FALSE
    OBVIOUS
  <2>1. \A k \in T : k <= m /\ k # m /\ k \in Nat
    BY <1>2
  <2>2. m # 0 /\ m \in Nat
    <3>1. PICK k \in T : TRUE
      OBVIOUS
    <3>. QED  BY <1>2, <2>1, <3>1
  <2>3. m - 1 \in above
    BY <2>1, <2>2
  <2>. QED  BY <1>2, <2>2, <2>3
<1>4. \E x \in T : \A y \in T : x >= y
  BY <1>2, <1>3
<1>. QED  BY <1>4 DEF Max

\* g is base where the recursion ends, else one step on what it is for the
\* element before.
IsRecursive(g, D, low, base, back, step) ==
  \A d \in D : g[d] = IF d \in low THEN base[d] ELSE step[<<g[back[d]], d>>]

\* The same for a fold over 1 .. n, which takes its numbers from the greatest
\* down.
IsFold(g, n, base, step) ==
  \A s \in SUBSET (1 .. n) :
    g[s] = IF s = {} THEN base ELSE step[<<g[s \ {Max(s)}], Max(s)>>]

\* A recursion that goes back to a smaller rank has a solution.
LEMMA RecursionHasSolution ==
  ASSUME NEW D, NEW V, NEW rank \in [D -> Nat], NEW low, NEW back \in [D -> D],
         NEW base \in [D -> V], NEW step \in [V \X D -> V],
         \A d \in D : d \notin low => rank[back[d]] < rank[d]
  PROVE  \E g \in [D -> V] : IsRecursive(g, D, low, base, back, step)
<1>. DEFINE Turn(g, d)   == IF d \in low THEN base[d] ELSE step[<<g[back[d]], d>>]
            Solves(g, n) == \A d \in D : rank[d] < n => g[d] = Turn(g, d)
            solved == {n \in Nat : \E g \in [D -> V] : Solves(g, n)}
<1>0. /\ \A d \in D : rank[d] \in Nat /\ back[d] \in D
      /\ \A g \in [D -> V] : \A d \in D : Turn(g, d) \in V
  OBVIOUS
<1>1. 0 \in solved
  <2>1. base \in [D -> V] /\ Solves(base, 0)
    BY <1>0
  <2>. HIDE DEF Solves
  <2>. QED  BY <2>1
<1>2. ASSUME NEW n \in solved PROVE n + 1 \in solved
  <2>1. PICK g \in [D -> V] : Solves(g, n)
    OBVIOUS
  <2>. DEFINE h == [d \in D |-> Turn(g, d)]
  <2>2. h \in [D -> V]
    <3>. HIDE DEF Turn
    <3>. QED  BY <1>0
  <2>3. ASSUME NEW d \in D, rank[d] < n + 1
        PROVE  h[d] = Turn(h, d)
    <3>1. h[d] = Turn(g, d)
      OBVIOUS
    <3>2. CASE d \in low
      BY <3>1, <3>2
    <3>3. CASE d \notin low
      <4>1. back[d] \in D /\ rank[back[d]] < n
        BY <1>0, <2>3, <3>3
      <4>2. h[back[d]] = g[back[d]]
        <5>1. h[back[d]] = Turn(g, back[d])
          <6>. HIDE DEF Turn
          <6>. QED  BY <4>1
        <5>. HIDE DEF Turn, h
        <5>. QED  BY <2>1, <4>1, <5>1
      <4>. HIDE DEF h
      <4>. QED  BY <3>1, <3>3, <4>2
    <3>. QED  BY <3>2, <3>3
  <2>. HIDE DEF h, Turn
  <2>4. Solves(h, n + 1)
    BY <2>3
  <2>. HIDE DEF Solves
  <2>. QED  BY <2>2, <2>4
<1>3. solved = Nat
  <2>1. solved \in SUBSET Nat
    OBVIOUS
  <2>. HIDE DEF solved
  <2>. QED  BY <1>1, <1>2, <2>1, SetInduction
<1>4. ASSUME NEW g \in [D -> V], NEW h \in [D -> V], NEW n \in Nat, NEW m \in Nat,
             Solves(g, n), Solves(h, m)
      PROVE  \A d \in D : rank[d] < n /\ rank[d] < m => g[d] = h[d]
  <2>. DEFINE differ == {r \in Nat : \E d \in D : /\ rank[d] = r /\ r < n /\ r < m
                                                  /\ g[d] # h[d]}
  <2>. SUFFICES ASSUME differ # {} PROVE FALSE
    <3>1. ASSUME NEW d \in D, rank[d] < n, rank[d] < m, g[d] # h[d] PROVE FALSE
      <4>1. rank[d] \in differ
        BY <1>0, <3>1
      <4>. QED  BY <4>1
    <3>. QED  BY <3>1
  <2>1. PICK r \in differ : \A k \in differ : r <= k
    <3>1. differ \in SUBSET Nat
      OBVIOUS
    <3>. HIDE DEF differ
    <3>. QED  BY <3>1, LeastNatural
  <2>2. PICK d \in D : rank[d] = r /\ r < n /\ r < m /\ g[d] # h[d]
    OBVIOUS
  <2>3. g[d] = Turn(g, d) /\ h[d] = Turn(h, d)
    <3>. HIDE DEF Turn
    <3>. QED  BY <1>4, <2>2
  <2>4. d \notin low
    BY <2>2, <2>3
  <2>5. back[d] \in D /\ rank[back[d]] \in Nat /\ rank[back[d]] < r /\ r \in Nat
    BY <1>0, <2>2, <2>4
  <2>6. g[back[d]] = h[back[d]]
    <3>1. rank[back[d]] \notin differ
      <4>. HIDE DEF differ
      <4>1. ~(r <= rank[back[d]])
        BY <2>5
      <4>. QED  BY <2>1, <4>1
    <3>2. rank[back[d]] < n /\ rank[back[d]] < m
      BY <2>2, <2>5
    <3>. QED  BY <2>5, <3>1, <3>2
  <2>. QED  BY <2>2, <2>3, <2>4, <2>6
<1>. DEFINE solution(n) == CHOOSE g \in [D -> V] : Solves(g, n)
            f == [d \in D |-> solution(rank[d] + 1)[d]]
<1>. HIDE DEF Solves
<1>5. ASSUME NEW n \in Nat
      PROVE  solution(n) \in [D -> V] /\ Solves(solution(n), n)
  <2>1. \E g \in [D -> V] : Solves(g, n)
    BY <1>3
  <2>. QED  BY <2>1
<1>. HIDE DEF solution
<1>6. f \in [D -> V]
  <2>1. ASSUME NEW d \in D PROVE solution(rank[d] + 1)[d] \in V
    <3>1. rank[d] + 1 \in Nat
      BY <1>0
    <3>. QED  BY <1>5, <3>1
  <2>. QED  BY <2>1
<1>7. ASSUME NEW d \in D
      PROVE  f[d] = Turn(f, d)
  <2>. DEFINE n == rank[d] + 1
              s == solution(n)
  <2>1. n \in Nat /\ rank[d] < n
    BY <1>0
  <2>2. s \in [D -> V] /\ Solves(s, n)
    <3>. HIDE DEF n
    <3>. QED  BY <1>5, <2>1
  <2>3. s[d] = Turn(s, d)
    <3>. HIDE DEF s, n, Turn
    <3>. QED  BY <2>1, <2>2 DEF Solves
  <2>4. f[d] = s[d]
    OBVIOUS
  <2>5. CASE d \in low
    BY <2>3, <2>4, <2>5
  <2>6. CASE d \notin low
    <3>. DEFINE c == back[d]
                m == rank[c] + 1
                t == solution(m)
    <3>1. c \in D /\ m \in Nat /\ rank[c] < m /\ rank[c] < n
      BY <1>0, <2>1, <2>6
    <3>2. t \in [D -> V] /\ Solves(t, m)
      <4>. HIDE DEF m
      <4>. QED  BY <1>5, <3>1
    <3>3. t[c] = s[c]
      <4>. HIDE DEF t, s, c, m, n
      <4>. QED  BY <1>4, <2>1, <2>2, <3>1, <3>2
    <3>4. f[c] = t[c]
      BY <3>1
    <3>. HIDE DEF f, s, t
    <3>. QED  BY <2>3, <2>4, <2>6, <3>3, <3>4
  <2>. QED  BY <2>5, <2>6
<1>. QED
  <2>. HIDE DEF f
  <2>. QED  BY <1>6, <1>7 DEF IsRecursive

LEMMA FoldHasSolution ==
  ASSUME NEW n \in Nat, NEW V, NEW base \in V, NEW step \in [V \X (1 .. n) -> V]
  PROVE  \E g \in [SUBSET (1 .. n) -> V] : IsFold(g, n, base, step)
<1>. DEFINE D      == SUBSET (1 .. n)
            last   == [s \in D |-> IF s = {} THEN 1 ELSE Max(s)]
            rank   == [s \in D |-> IF s = {} THEN 0 ELSE Max(s)]
            back   == [s \in D |-> IF s = {} THEN {} ELSE s \ {Max(s)}]
            start  == [s \in D |-> base]
            turn   == [x \in V \X D |-> IF x[2] = {} THEN base ELSE step[<<x[1], Max(x[2])>>]]
<1>1. ASSUME NEW s \in D, s # {}
      PROVE  /\ Max(s) \in s /\ Max(s) \in 1 .. n /\ s \ {Max(s)} \in D
             /\ \A k \in s : k <= Max(s)
  <2>1. s \in SUBSET Nat /\ s \subseteq 1 .. n
    OBVIOUS
  <2>2. Max(s) \in s /\ \A k \in s : k <= Max(s)
    BY <1>1, <2>1, MaxIsGreatest
  <2>. QED  BY <2>1, <2>2
<1>2. rank \in [D -> Nat] /\ back \in [D -> D] /\ start \in [D -> V]
  BY <1>1
<1>3. turn \in [V \X D -> V]
  <2>1. ASSUME NEW v \in V, NEW s \in D, s # {}
        PROVE  step[<<v, Max(s)>>] \in V
    BY <1>1, <2>1
  <2>. QED  BY <2>1
<1>4. ASSUME NEW s \in D, s \notin {{}}
      PROVE  rank[back[s]] < rank[s]
  <2>. DEFINE m == Max(s)
              r == s \ {m}
  <2>1. m \in 1 .. n /\ r \in D /\ \A k \in s : k <= m
    BY <1>1, <1>4
  <2>2. s # {}
    BY <1>4
  <2>5. back[s] = r /\ rank[s] = m
    BY <2>2
  <2>. HIDE DEF m, back
  <2>3. CASE r = {}
    <3>1. rank[r] = 0
      BY <2>1, <2>3
    <3>. HIDE DEF rank
    <3>. QED  BY <2>1, <2>5, <3>1
  <2>4. CASE r # {}
    <3>1. r \subseteq s /\ m \notin r
      OBVIOUS
    <3>. HIDE DEF r
    <3>2. Max(r) \in r /\ rank[r] = Max(r)
      BY <1>1, <2>1, <2>4
    <3>. HIDE DEF rank
    <3>. DEFINE x == Max(r)
    <3>3. x \in r /\ rank[r] = x
      BY <3>2
    <3>. HIDE DEF x
    <3>4. x # m /\ x <= m /\ x \in Nat /\ m \in Nat
      BY <2>1, <3>1, <3>3
    <3>. QED  BY <2>5, <3>3, <3>4
  <2>. QED  BY <2>3, <2>4
<1>5. PICK g \in [D -> V] :
        \A s \in D : g[s] = IF s \in {{}} THEN start[s] ELSE turn[<<g[back[s]], s>>]
  <2>. DEFINE low == {{}}
  <2>. HIDE DEF D, rank, back, start, turn
  <2>1. \A s \in D : s \notin low => rank[back[s]] < rank[s]
    BY <1>4
  <2>. HIDE DEF low
  <2>2. \E g \in [D -> V] : IsRecursive(g, D, low, start, back, turn)
    BY <1>2, <1>3, <2>1, RecursionHasSolution
  <2>. QED  BY <2>2 DEF low, IsRecursive
<1>6. ASSUME NEW s \in D
      PROVE  g[s] = IF s = {} THEN base ELSE step[<<g[s \ {Max(s)}], Max(s)>>]
  <2>1. CASE s = {}
    BY <1>5, <2>1
  <2>2. CASE s # {}
    <3>1. back[s] = s \ {Max(s)} /\ back[s] \in D
      BY <1>1, <2>2
    <3>2. g[back[s]] \in V
      BY <3>1
    <3>3. turn[<<g[back[s]], s>>] = step[<<g[back[s]], Max(s)>>]
      <4>. HIDE DEF back
      <4>. QED  BY <2>2, <3>2
    <3>. HIDE DEF turn, back
    <3>. QED  BY <1>5, <2>2, <3>1, <3>3
  <2>. QED  BY <2>1, <2>2
<1>. QED  BY <1>6 DEF IsFold

\* The sets that such a fold goes through.
LEMMA FrontOfNumbers ==
  ASSUME NEW n \in Nat
  PROVE  /\ 1 .. 0 = {}
         /\ \A k \in 0 .. n : 1 .. k \in SUBSET (1 .. n)
         /\ \A k \in 0 .. n : k < n => /\ 1 .. (k + 1) # {} /\ Max(1 .. (k + 1)) = k + 1
                                       /\ (1 .. (k + 1)) \ {k + 1} = 1 .. k
<1>1. ASSUME NEW k \in 0 .. n, k < n
      PROVE  /\ 1 .. (k + 1) # {} /\ Max(1 .. (k + 1)) = k + 1
             /\ (1 .. (k + 1)) \ {k + 1} = 1 .. k
  <2>. DEFINE s == 1 .. (k + 1)
              x == Max(s)
  <2>1. s \in SUBSET Nat /\ s \subseteq 1 .. n /\ s # {} /\ k + 1 \in s
    BY <1>1
  <2>2. x \in s /\ \A m \in s : m <= x
    <3>. HIDE DEF s
    <3>. QED  BY <2>1, MaxIsGreatest
  <2>. HIDE DEF x
  <2>3. x = k + 1
    BY <2>1, <2>2
  <2>. QED  BY <2>1, <2>3 DEF x
<1>2. 1 .. 0 = {} /\ \A k \in 0 .. n : 1 .. k \in SUBSET (1 .. n)
  OBVIOUS
<1>. QED  BY <1>1, <1>2

LEMMA JoinedText ==
  ASSUME NEW C, NEW u \in Seq(C), NEW v \in Seq(C)
  PROVE  u \o v \in Seq(C) /\ Len(u \o v) = Len(u) + Len(v) /\ Len(u) \in Nat /\ Len(v) \in Nat
BY ConcatProperties, LenProperties

LEMMA Reassociated ==
  ASSUME NEW C
  PROVE  \A u, v, x \in Seq(C) : (u \o v) \o x = u \o (v \o x)
BY ConcatAssociative

-----------------------------------------------------------------------------
(* Digits and the numbers they make.                                        *)

LEMMA DigitsAreTen ==
  Digits = {"0", "1", "2", "3", "4", "5", "6", "7", "8", "9"}
<1>1. /\ DOMAIN DigitChar = 1 .. 10
      /\ DigitChar[1] = "0" /\ DigitChar[2] = "1" /\ DigitChar[3] = "2"
      /\ DigitChar[4] = "3" /\ DigitChar[5] = "4" /\ DigitChar[6] = "5"
      /\ DigitChar[7] = "6" /\ DigitChar[8] = "7" /\ DigitChar[9] = "8"
      /\ DigitChar[10] = "9"
  BY DEF DigitChar
<1>2. \A n : n \in 1 .. 10 <=> n \in {1, 2, 3, 4, 5, 6, 7, 8, 9, 10}
  OBVIOUS
<1>. QED  BY <1>1, <1>2 DEF Digits

\* DigitValue undoes DigitChar.
LEMMA DigitsHaveValues ==
  /\ \A d \in Digits : DigitValue[d] \in 0 .. 9
  /\ \A n \in 0 .. 9 : DigitChar[n + 1] \in Digits /\ DigitValue[DigitChar[n + 1]] = n
<1>1. DOMAIN DigitChar = 1 .. 10
  BY DEF DigitChar
<1>2. ASSUME NEW d \in Digits
      PROVE  DigitValue[d] \in 0 .. 9 /\ DigitChar[DigitValue[d] + 1] = d
  <2>1. \E n \in 1 .. 10 : DigitChar[n] = d
    BY <1>1 DEF Digits
  <2>. DEFINE n == CHOOSE n \in 1 .. 10 : DigitChar[n] = d
  <2>2. n \in 1 .. 10 /\ DigitChar[n] = d
    BY <2>1
  <2>3. DigitValue[d] = n - 1
    BY DEF DigitValue
  <2>. HIDE DEF n
  <2>. QED  BY <2>2, <2>3
<1>3. \A m, n \in 1 .. 10 : DigitChar[m] = DigitChar[n] => m = n
  BY DEF DigitChar
<1>4. ASSUME NEW n \in 0 .. 9
      PROVE  DigitChar[n + 1] \in Digits /\ DigitValue[DigitChar[n + 1]] = n
  <2>1. n + 1 \in 1 .. 10
    OBVIOUS
  <2>2. DigitChar[n + 1] \in Digits
    BY <1>1, <2>1 DEF Digits
  <2>. DEFINE v == DigitValue[DigitChar[n + 1]]
  <2>3. v \in 0 .. 9 /\ DigitChar[v + 1] = DigitChar[n + 1]
    BY <1>2, <2>2
  <2>. HIDE DEF v
  <2>4. v + 1 = n + 1
    BY <1>3, <2>1, <2>3
  <2>5. v = n
    BY <2>3, <2>4
  <2>. QED  BY <2>2, <2>5 DEF v
<1>. QED  BY <1>2, <1>4

\* The number that a text stands for, digit by digit.
LEMMA NumberFolds ==
  ASSUME NEW str \in Seq(Digits)
  PROVE  \E w \in [0 .. Len(str) -> Nat] :
           /\ w[0] = 0
           /\ \A k \in 0 .. Len(str) :
                k < Len(str) => w[k + 1] = 10 * w[k] + DigitValue[str[k + 1]]
           /\ retreive_unsigned_integer(str) = w[Len(str)]
<1>. DEFINE L    == Len(str)
            all  == DOMAIN str
            sets == SUBSET all
            Turn(g, s) == IF s = {} THEN 0
                          ELSE 10 * g[s \ {Max(s)}] + DigitValue[str[Max(s)]]
            iter == CHOOSE g : g = [s \in sets |-> Turn(g, s)]
            step == [x \in Nat \X (1 .. L) |-> 10 * x[1] + DigitValue[str[x[2]]]]
<1>1. retreive_unsigned_integer(str) = iter[all]
  BY Zenon DEF retreive_unsigned_integer, FoldLeft, MapThenFoldSet
<1>2. L \in Nat /\ all = 1 .. L
  BY LenProperties
<1>3. \A k \in 1 .. L : DigitValue[str[k]] \in Nat
  BY <1>2, ElementOfSeq, DigitsHaveValues
<1>4. step \in [Nat \X (1 .. L) -> Nat]
  BY <1>3
<1>5. PICK f \in [sets -> Nat] : IsFold(f, L, 0, step)
  <2>. DEFINE zero == 0
  <2>1. zero \in Nat
    OBVIOUS
  <2>. HIDE DEF L, step, zero
  <2>2. \E g \in [SUBSET (1 .. L) -> Nat] : IsFold(g, L, zero, step)
    BY <1>2, <1>4, <2>1, FoldHasSolution
  <2>. HIDE DEF all
  <2>. QED  BY <1>2, <2>2 DEF zero
<1>6. ASSUME NEW s \in sets PROVE f[s] = Turn(f, s)
  <2>0. f[s] = IF s = {} THEN 0 ELSE step[<<f[s \ {Max(s)}], Max(s)>>]
    <3>. HIDE DEF step
    <3>. QED  BY <1>2, <1>5 DEF IsFold
  <2>1. CASE s = {}
    BY <2>0, <2>1
  <2>2. CASE s # {}
    <3>1. Max(s) \in s
      <4>1. s \in SUBSET Nat /\ s \subseteq 1 .. L
        BY <1>2
      <4>. QED  BY <1>2, <2>2, <4>1, MaxIsGreatest
    <3>2. Max(s) \in 1 .. L /\ f[s \ {Max(s)}] \in Nat
      BY <1>2, <3>1
    <3>. QED  BY <2>0, <2>2, <3>2
  <2>. QED  BY <2>1, <2>2
<1>7. f = [s \in sets |-> Turn(f, s)]
  <2>1. f = [s \in sets |-> f[s]]
    OBVIOUS
  <2>. HIDE DEF Turn
  <2>. QED  BY <1>6, <2>1
<1>8. iter = [s \in sets |-> Turn(iter, s)]
  <2>. HIDE DEF Turn
  <2>. QED  BY <1>7, Zenon
<1>. HIDE DEF iter
<1>9. \A s \in sets : iter[s] = Turn(iter, s)
  <2>. HIDE DEF Turn
  <2>. QED  BY <1>8, Zenon
<1>. DEFINE w == [k \in 0 .. L |-> iter[1 .. k]]
<1>10. w[0] = 0
  <2>1. 1 .. 0 = {} /\ {} \in sets /\ 0 \in 0 .. L
    BY <1>2
  <2>2. iter[{}] = 0
    BY <1>9, <2>1
  <2>. QED  BY <2>1, <2>2
<1>11. ASSUME NEW k \in 0 .. L, k < L
       PROVE  w[k + 1] = 10 * w[k] + DigitValue[str[k + 1]]
  <2>. DEFINE s == 1 .. (k + 1)
              m == k + 1
  <2>1. s \in sets /\ s # {} /\ Max(s) = m /\ s \ {m} = 1 .. k /\ m \in 0 .. L
    BY <1>2, <1>11, FrontOfNumbers
  <2>. HIDE DEF m, s
  <2>2. iter[s] = 10 * iter[1 .. k] + DigitValue[str[m]]
    BY <1>9, <2>1
  <2>. QED  BY <2>1, <2>2 DEF m, s
<1>12. \A k \in 0 .. L : w[k] \in Nat
  <2>. DEFINE T == {k \in 0 .. L : w[k] \in Nat}
  <2>. HIDE DEF w
  <2>1. 0 \in T
    BY <1>2, <1>10
  <2>2. ASSUME NEW k \in T, k < L PROVE k + 1 \in T
    <3>1. k + 1 \in 1 .. L /\ k \in 0 .. L /\ w[k] \in Nat
      BY <1>2, <2>2
    <3>2. DigitValue[str[k + 1]] \in Nat
      BY <1>3, <3>1
    <3>3. w[k + 1] = 10 * w[k] + DigitValue[str[k + 1]]
      BY <1>11, <2>2, <3>1
    <3>. QED  BY <1>2, <3>1, <3>2, <3>3
  <2>3. T \in SUBSET (0 .. L)
    OBVIOUS
  <2>. HIDE DEF T, L
  <2>4. T = 0 .. L
    BY <1>2, <2>1, <2>2, <2>3, BoundedInduction
  <2>. QED  BY <2>4 DEF T
<1>13. w \in [0 .. L -> Nat] /\ iter[all] = w[L]
  BY <1>2, <1>12
<1>. HIDE DEF w
<1>14. /\ w[0] = 0
       /\ \A k \in 0 .. L : k < L => w[k + 1] = 10 * w[k] + DigitValue[str[k + 1]]
       /\ retreive_unsigned_integer(str) = w[L]
  BY <1>1, <1>10, <1>11, <1>13
<1>. HIDE DEF iter, step, Turn, sets, all
<1>. QED  BY <1>13, <1>14

LEMMA NumberIsNatural ==
  ASSUME NEW str \in Seq(Digits)
  PROVE  retreive_unsigned_integer(str) \in Nat
<1>1. PICK w \in [0 .. Len(str) -> Nat] : retreive_unsigned_integer(str) = w[Len(str)]
  BY NumberFolds, Zenon
<1>2. Len(str) \in 0 .. Len(str)
  <2>1. Len(str) \in Nat
    BY LenProperties
  <2>. QED  BY <2>1
<1>. QED  BY <1>1, <1>2

LEMMA NumberOfNothing == retreive_unsigned_integer(<< >>) = 0
<1>. DEFINE s == << >>
<1>1. s \in Seq(Digits) /\ Len(s) = 0
  OBVIOUS
<1>. HIDE DEF s
<1>2. retreive_unsigned_integer(s) = 0
  BY <1>1, NumberFolds
<1>. QED  BY <1>2 DEF s

\* One more digit.
LEMMA NumberGrows ==
  ASSUME NEW s \in Seq(Digits), NEW d \in Digits
  PROVE  /\ retreive_unsigned_integer(s) \in Nat
         /\ retreive_unsigned_integer(Append(s, d))
              = 10 * retreive_unsigned_integer(s) + DigitValue[d]
<1>. DEFINE t == Append(s, d)
            n == Len(s)
<1>1. /\ n \in Nat /\ t \in Seq(Digits) /\ Len(t) = n + 1
      /\ \A k \in 1 .. n : t[k] = s[k]
      /\ t[n + 1] = d
  OBVIOUS
<1>. HIDE DEF t, n
<1>2. PICK w \in [0 .. n -> Nat] :
        /\ w[0] = 0
        /\ \A k \in 0 .. n : k < n => w[k + 1] = 10 * w[k] + DigitValue[s[k + 1]]
        /\ retreive_unsigned_integer(s) = w[n]
  BY NumberFolds DEF n
<1>3. PICK u \in [0 .. n + 1 -> Nat] :
        /\ u[0] = 0
        /\ \A k \in 0 .. n + 1 : k < n + 1 => u[k + 1] = 10 * u[k] + DigitValue[t[k + 1]]
        /\ retreive_unsigned_integer(t) = u[n + 1]
  BY <1>1, NumberFolds
<1>. DEFINE T == {k \in 0 .. n : u[k] = w[k]}
<1>4. T = 0 .. n
  <2>1. T \in SUBSET (0 .. n) /\ 0 \in T
    BY <1>1, <1>2, <1>3
  <2>2. ASSUME NEW k \in T, k < n PROVE k + 1 \in T
    <3>1. k \in 0 .. n /\ k \in 0 .. n + 1 /\ k < n + 1 /\ k + 1 \in 1 .. n /\ k + 1 \in 0 .. n
          /\ u[k] = w[k]
      BY <1>1, <2>2
    <3>2. t[k + 1] = s[k + 1]
      BY <1>1, <3>1
    <3>3. u[k + 1] = w[k + 1]
      BY <1>2, <1>3, <2>2, <3>1, <3>2
    <3>. QED  BY <3>1, <3>3
  <2>. HIDE DEF T
  <2>. QED  BY <1>1, <2>1, <2>2, BoundedInduction
<1>5. u[n] = w[n] /\ n \in 0 .. n + 1 /\ n \in 0 .. n /\ n < n + 1
  BY <1>1, <1>4
<1>6. u[n + 1] = 10 * w[n] + DigitValue[d]
  BY <1>1, <1>3, <1>5
<1>. QED  BY <1>2, <1>3, <1>5, <1>6 DEF t

\* Zeros in front do not count.
LEMMA ZerosInFront ==
  ASSUME NEW s \in Seq(Digits), NEW n \in Nat, NEW t \in Seq(Digits),
         Len(t) = n + Len(s), \A k \in 1 .. n : t[k] = "0",
         \A k \in 1 .. Len(s) : t[n + k] = s[k]
  PROVE  retreive_unsigned_integer(t) = retreive_unsigned_integer(s)
<1>. DEFINE L == Len(s)
<1>1. L \in Nat /\ DigitValue["0"] = 0
  <2>1. DigitChar[0 + 1] = "0" /\ 0 \in 0 .. 9
    BY DEF DigitChar
  <2>. QED  BY <2>1, DigitsHaveValues
<1>2. PICK w \in [0 .. L -> Nat] :
        /\ w[0] = 0
        /\ \A k \in 0 .. L : k < L => w[k + 1] = 10 * w[k] + DigitValue[s[k + 1]]
        /\ retreive_unsigned_integer(s) = w[L]
  BY NumberFolds
<1>. HIDE DEF L
<1>3. PICK u \in [0 .. n + L -> Nat] :
        /\ u[0] = 0
        /\ \A k \in 0 .. n + L : k < n + L => u[k + 1] = 10 * u[k] + DigitValue[t[k + 1]]
        /\ retreive_unsigned_integer(t) = u[n + L]
  BY NumberFolds DEF L
<1>. DEFINE T == {k \in 0 .. n : u[k] = 0}
<1>4. T = 0 .. n
  <2>1. T \in SUBSET (0 .. n) /\ 0 \in T
    BY <1>3
  <2>2. ASSUME NEW k \in T, k < n PROVE k + 1 \in T
    <3>1. k \in 0 .. n + L /\ k < n + L /\ k + 1 \in 1 .. n /\ k + 1 \in 0 .. n /\ u[k] = 0
      BY <1>1, <2>2
    <3>2. t[k + 1] = "0"
      BY <3>1
    <3>3. u[k + 1] = 10 * u[k] + DigitValue[t[k + 1]]
      BY <1>3, <3>1
    <3>4. u[k + 1] = 0
      BY <1>1, <3>1, <3>2, <3>3
    <3>. QED  BY <3>1, <3>4
  <2>. HIDE DEF T
  <2>. QED  BY <2>1, <2>2, BoundedInduction
<1>. DEFINE U == {k \in 0 .. L : u[n + k] = w[k]}
<1>5. U = 0 .. L
  <2>1. U \in SUBSET (0 .. L) /\ 0 \in U
    <3>1. n \in 0 .. n /\ n + 0 = n
      OBVIOUS
    <3>2. u[n] = 0
      BY <1>4, <3>1
    <3>. QED  BY <1>1, <1>2, <3>1, <3>2
  <2>2. ASSUME NEW k \in U, k < L PROVE k + 1 \in U
    <3>1. /\ n + k \in 0 .. n + L /\ n + k < n + L /\ k \in 0 .. L /\ u[n + k] = w[k]
          /\ k + 1 \in 1 .. L /\ k + 1 \in 0 .. L /\ (n + k) + 1 = n + (k + 1)
      BY <1>1, <2>2
    <3>2. t[n + (k + 1)] = s[k + 1]
      BY <3>1 DEF L
    <3>. DEFINE m == n + k
    <3>3. u[m + 1] = 10 * u[m] + DigitValue[t[m + 1]]
      <4>. HIDE DEF m
      <4>1. m \in 0 .. n + L /\ m < n + L
        BY <3>1 DEF m
      <4>. QED  BY <1>3, <4>1
    <3>4. w[k + 1] = 10 * w[k] + DigitValue[s[k + 1]]
      BY <1>2, <2>2, <3>1
    <3>5. u[n + (k + 1)] = w[k + 1]
      BY <3>1, <3>2, <3>3, <3>4
    <3>. QED  BY <3>1, <3>5
  <2>. HIDE DEF U
  <2>. QED  BY <1>1, <2>1, <2>2, BoundedInduction
<1>6. u[n + L] = w[L]
  <2>1. L \in 0 .. L
    BY <1>1
  <2>. QED  BY <1>5, <2>1
<1>. QED  BY <1>2, <1>3, <1>6

-----------------------------------------------------------------------------
(* PowerOfTen and Reversed.                                                 *)

LEMMA PowersGrow ==
  /\ PowerOfTen[0] = 1
  /\ \A n \in Nat : PowerOfTen[n] \in Nat \ {0} /\ PowerOfTen[n + 1] = 10 * PowerOfTen[n]
<1>. DEFINE Turn(g, n) == IF n = 0 THEN 1 ELSE 10 * g[n - 1]
            rank == [n \in Nat |-> n]
            back == [n \in Nat |-> IF n = 0 THEN 0 ELSE n - 1]
            base == [n \in Nat |-> 1]
            step == [x \in (Nat \ {0}) \X Nat |-> 10 * x[1]]
            low  == {0}
            V    == Nat \ {0}
<1>1. PICK f \in [Nat -> V] : IsRecursive(f, Nat, low, base, back, step)
  <2>1. /\ rank \in [Nat -> Nat] /\ back \in [Nat -> Nat] /\ base \in [Nat -> V]
        /\ step \in [V \X Nat -> V]
        /\ \A n \in Nat : n \notin low => rank[back[n]] < rank[n]
    OBVIOUS
  <2>. HIDE DEF rank, back, base, step, low, V
  <2>. QED  BY <2>1, RecursionHasSolution
<1>2. ASSUME NEW n \in Nat PROVE f[n] = Turn(f, n)
  <2>1. f[n] = IF n \in low THEN base[n] ELSE step[<<f[back[n]], n>>]
    BY <1>1 DEF IsRecursive
  <2>2. CASE n = 0
    BY <2>1, <2>2
  <2>3. CASE n # 0
    <3>1. back[n] = n - 1 /\ f[n - 1] \in Nat \ {0}
      BY <2>3
    <3>. HIDE DEF back
    <3>. QED  BY <2>1, <2>3, <3>1
  <2>. QED  BY <2>2, <2>3
<1>. HIDE DEF Turn
<1>3. f = [n \in Nat |-> Turn(f, n)]
  <2>1. f = [n \in Nat |-> f[n]]
    OBVIOUS
  <2>. QED  BY <1>2, <2>1
<1>4. PowerOfTen = CHOOSE g : g = [n \in Nat |-> Turn(g, n)]
  BY DEF PowerOfTen, Turn
<1>5. PowerOfTen = [n \in Nat |-> Turn(PowerOfTen, n)]
  BY <1>3, <1>4, Zenon
<1>6. \A n \in Nat : PowerOfTen[n] = Turn(PowerOfTen, n)
  BY <1>5, Zenon
<1>. DEFINE T == {n \in Nat : PowerOfTen[n] \in Nat \ {0}}
<1>7. \A n \in Nat : PowerOfTen[n + 1] = 10 * PowerOfTen[n]
  <2>1. \A n \in Nat : n + 1 \in Nat /\ n + 1 # 0 /\ (n + 1) - 1 = n
    OBVIOUS
  <2>. QED  BY <1>6, <2>1 DEF Turn
<1>8. PowerOfTen[0] = 1
  BY <1>6 DEF Turn
<1>9. T = Nat
  <2>1. T \in SUBSET Nat /\ 0 \in T
    BY <1>8
  <2>2. \A n \in T : n + 1 \in T
    BY <1>7
  <2>. HIDE DEF T
  <2>. QED  BY <2>1, <2>2, SetInduction
<1>10. \A n \in Nat : PowerOfTen[n] \in Nat \ {0}
  BY <1>9
<1>. HIDE DEF T
<1>. QED  BY <1>7, <1>8, <1>10, Zenon

\* A pair of digits, the lower one first.
LEMMA PairOfDigits ==
  ASSUME NEW n \in 0 .. 99
  PROVE  /\ digit_lookup_table[n] = <<DigitChar[(n % 10) + 1], DigitChar[(n \div 10) + 1]>>
         /\ n % 10 \in 0 .. 9 /\ n \div 10 \in 0 .. 9 /\ n = 10 * (n \div 10) + (n % 10)
         /\ digit_lookup_table[n] \in Seq(Digits) /\ Len(digit_lookup_table[n]) = 2
<1>1. n % 10 \in 0 .. 9 /\ n \div 10 \in 0 .. 9 /\ n = 10 * (n \div 10) + (n % 10)
  OBVIOUS
<1>2. digit_lookup_table[n] = <<DigitChar[(n % 10) + 1], DigitChar[(n \div 10) + 1]>>
  BY DEF digit_lookup_table
<1>3. DigitChar[(n % 10) + 1] \in Digits /\ DigitChar[(n \div 10) + 1] \in Digits
  BY <1>1, DigitsHaveValues
<1>. QED  BY <1>1, <1>2, <1>3

\* The recursion of Reversed has a solution.
LEMMA ReversedUnfolds ==
  ASSUME NEW val \in Nat
  PROVE  /\ Reversed[val] \in Seq(Digits)
         /\ Reversed[val] =
              IF val > 99 THEN digit_lookup_table[val % 100] \o Reversed[val \div 100]
              ELSE IF val > 9 THEN digit_lookup_table[val]
              ELSE <<digit_lookup_table[val][1]>>
<1>. DEFINE Turn(g, n) == IF n > 99 THEN digit_lookup_table[n % 100] \o g[n \div 100]
                          ELSE IF n > 9 THEN digit_lookup_table[n]
                          ELSE <<digit_lookup_table[n][1]>>
            V    == Seq(Digits)
            rank == [n \in Nat |-> n]
            back == [n \in Nat |-> n \div 100]
            base == [n \in Nat |-> IF n > 99 THEN << >>
                                   ELSE IF n > 9 THEN digit_lookup_table[n]
                                   ELSE <<digit_lookup_table[n][1]>>]
            step == [x \in V \X Nat |-> digit_lookup_table[x[2] % 100] \o x[1]]
            low  == 0 .. 99
<1>0. \A n \in Nat : /\ n % 100 \in 0 .. 99 /\ n \div 100 \in Nat
                     /\ n > 99 => n \div 100 < n
  OBVIOUS
<1>1. \A n \in 0 .. 99 : /\ digit_lookup_table[n] \in Seq(Digits)
                         /\ <<digit_lookup_table[n][1]>> \in Seq(Digits)
  <2>1. ASSUME NEW n \in 0 .. 99
        PROVE  digit_lookup_table[n] \in Seq(Digits) /\ digit_lookup_table[n][1] \in Digits
    <3>. HIDE DEF Turn, V, rank, back, base, step, low
    <3>. DEFINE a == DigitChar[(n % 10) + 1]
                b == DigitChar[(n \div 10) + 1]
    <3>1. a \in Digits
      BY PairOfDigits, DigitsHaveValues
    <3>2. digit_lookup_table[n] = <<a, b>> /\ digit_lookup_table[n] \in Seq(Digits)
      BY PairOfDigits
    <3>. HIDE DEF a, b
    <3>. QED  BY <3>1, <3>2
  <2>2. \A d \in Digits : <<d>> \in Seq(Digits)
    OBVIOUS
  <2>. QED  BY <2>1, <2>2
<1>2. PICK f \in [Nat -> V] : IsRecursive(f, Nat, low, base, back, step)
  <2>1. rank \in [Nat -> Nat] /\ back \in [Nat -> Nat]
    BY <1>0
  <2>2. base \in [Nat -> V]
    <3>1. ASSUME NEW n \in Nat
          PROVE  (IF n > 99 THEN << >> ELSE IF n > 9 THEN digit_lookup_table[n]
                  ELSE <<digit_lookup_table[n][1]>>) \in V
      <4>1. n > 99 \/ n \in 0 .. 99
        OBVIOUS
      <4>2. << >> \in Seq(Digits)
        OBVIOUS
      <4>. QED  BY <1>1, <4>1, <4>2
    <3>. QED  BY <3>1
  <2>3. step \in [V \X Nat -> V]
    <3>1. ASSUME NEW v \in V, NEW n \in Nat PROVE digit_lookup_table[n % 100] \o v \in V
      <4>1. digit_lookup_table[n % 100] \in Seq(Digits)
        BY <1>0, <1>1
      <4>. QED  BY <4>1
    <3>. QED  BY <3>1
  <2>4. \A n \in Nat : n \notin low => rank[back[n]] < rank[n]
    BY <1>0
  <2>. HIDE DEF rank, back, base, step, low, V
  <2>. QED  BY <2>1, <2>2, <2>3, <2>4, RecursionHasSolution
<1>3. ASSUME NEW n \in Nat PROVE f[n] = Turn(f, n)
  <2>1. f[n] = IF n \in low THEN base[n] ELSE step[<<f[back[n]], n>>]
    <3>. HIDE DEF low, base, step, back
    <3>. QED  BY <1>2 DEF IsRecursive
  <2>2. CASE n \in low
    <3>1. base[n] = IF n > 9 THEN digit_lookup_table[n] ELSE <<digit_lookup_table[n][1]>>
      <4>1. ~(n > 99)
        BY <2>2
      <4>. HIDE DEF step, back, rank
      <4>. QED  BY <4>1
    <3>. HIDE DEF base, step, back
    <3>. QED  BY <2>1, <2>2, <3>1
  <2>3. CASE n \notin low
    <3>1. n > 99 /\ back[n] = n \div 100 /\ f[n \div 100] \in V
      BY <1>0, <2>3
    <3>2. step[<<f[n \div 100], n>>] = digit_lookup_table[n % 100] \o f[n \div 100]
      <4>. HIDE DEF V, back, base
      <4>. QED  BY <3>1
    <3>. HIDE DEF back, step, base, low
    <3>. QED  BY <2>1, <2>3, <3>1, <3>2
  <2>. QED  BY <2>2, <2>3
<1>. HIDE DEF Turn
<1>4. f = [n \in Nat |-> Turn(f, n)]
  <2>1. f = [n \in Nat |-> f[n]]
    OBVIOUS
  <2>. QED  BY <1>3, <2>1
<1>5. Reversed = CHOOSE g : g = [n \in Nat |-> Turn(g, n)]
  BY DEF Reversed, Turn
<1>6. Reversed = [n \in Nat |-> Turn(Reversed, n)]
  BY <1>4, <1>5, Zenon
<1>7. \A n \in Nat : Reversed[n] = Turn(Reversed, n)
  BY <1>6, Zenon
<1>. DEFINE T == {n \in Nat : Reversed[n] \in Seq(Digits)}
<1>8. T = Nat
  <2>1. ASSUME NEW n \in Nat, \A k \in Nat : k < n => k \in T
        PROVE  n \in T
    <3>1. CASE n > 99
      <4>1. n \div 100 \in T /\ n % 100 \in 0 .. 99
        BY <1>0, <2>1, <3>1
      <4>2. Reversed[n] = digit_lookup_table[n % 100] \o Reversed[n \div 100]
        BY <1>7, <3>1 DEF Turn
      <4>3. digit_lookup_table[n % 100] \in Seq(Digits) /\ Reversed[n \div 100] \in Seq(Digits)
        BY <1>1, <4>1
      <4>4. Reversed[n] \in Seq(Digits)
        BY <4>2, <4>3, JoinedText
      <4>. QED  BY <4>4
    <3>2. CASE ~(n > 99)
      <4>1. n \in 0 .. 99
        BY <3>2
      <4>2. Reversed[n] = IF n > 9 THEN digit_lookup_table[n] ELSE <<digit_lookup_table[n][1]>>
        BY <1>7, <3>2 DEF Turn
      <4>. QED  BY <1>1, <4>1, <4>2
    <3>. QED  BY <3>1, <3>2
  <2>2. T \in SUBSET Nat
    OBVIOUS
  <2>. HIDE DEF T
  <2>. QED  BY <2>1, <2>2, StrongInduction
<1>. QED  BY <1>7, <1>8 DEF Turn

-----------------------------------------------------------------------------
(* An integer reads back.                                                   *)

LEMMA SameText ==
  ASSUME NEW S, NEW s \in Seq(S), NEW t \in Seq(S), Len(s) = Len(t),
         \A k \in 1 .. Len(s) : s[k] = t[k]
  PROVE  s = t
  BY SeqEqual

LEMMA ReverseOf ==
  ASSUME NEW S, NEW s \in Seq(S)
  PROVE  /\ Reverse(s) \in Seq(S) /\ Len(Reverse(s)) = Len(s)
         /\ \A k \in 1 .. Len(s) : Reverse(s)[k] = s[(Len(s) - k) + 1]
<1>. DEFINE n == Len(s)
<1>1. n \in Nat /\ \A k \in 1 .. n : s[k] \in S /\ (n - k) + 1 \in 1 .. n
  OBVIOUS
<1>2. Reverse(s) = [k \in 1 .. n |-> s[(n - k) + 1]]
  BY DEF Reverse
<1>. HIDE DEF n
<1>3. \A k \in 1 .. n : s[(n - k) + 1] \in S
  BY <1>1
<1>4. [k \in 1 .. n |-> s[(n - k) + 1]] \in Seq(S)
  BY <1>1, <1>3
<1>. QED  BY <1>1, <1>2, <1>4 DEF n

LEMMA ReverseOfPair ==
  ASSUME NEW S, NEW a \in S, NEW b \in S, NEW t \in Seq(S)
  PROVE  Reverse(<<a, b>> \o t) = Append(Append(Reverse(t), b), a)
<1>. DEFINE s == <<a, b>> \o t
            n == Len(t)
            r == Reverse(t)
            u == Append(Append(r, b), a)
            v == Reverse(s)
<1>1. n \in Nat /\ s \in Seq(S) /\ Len(s) = n + 2 /\ s[1] = a /\ s[2] = b
      /\ \A k \in 1 .. n : s[k + 2] = t[k]
  OBVIOUS
<1>2. r \in Seq(S) /\ Len(r) = n /\ \A k \in 1 .. n : r[k] = t[(n - k) + 1]
  BY ReverseOf
<1>. HIDE DEF s, n, r
<1>3. v \in Seq(S) /\ Len(v) = n + 2 /\ \A k \in 1 .. (n + 2) : v[k] = s[((n + 2) - k) + 1]
  <2>1. v \in Seq(S) /\ Len(v) = Len(s) /\ \A k \in 1 .. Len(s) : v[k] = s[(Len(s) - k) + 1]
    BY <1>1, ReverseOf
  <2>. HIDE DEF v
  <2>. QED  BY <1>1, <2>1
<1>4. u \in Seq(S) /\ Len(u) = n + 2 /\ u[n + 2] = a /\ u[n + 1] = b
      /\ \A k \in 1 .. n : u[k] = r[k]
  BY <1>1, <1>2
<1>. HIDE DEF u, v
<1>5. ASSUME NEW k \in 1 .. (n + 2) PROVE v[k] = u[k]
  <2>1. CASE k = n + 2
    <3>1. ((n + 2) - k) + 1 = 1
      BY <1>1, <2>1
    <3>. QED  BY <1>1, <1>3, <1>4, <2>1, <3>1
  <2>2. CASE k = n + 1
    <3>1. ((n + 2) - k) + 1 = 2
      BY <1>1, <2>2
    <3>. QED  BY <1>1, <1>3, <1>4, <2>2, <3>1
  <2>3. CASE k \in 1 .. n
    <3>. DEFINE m == (n - k) + 1
    <3>1. m \in 1 .. n /\ ((n + 2) - k) + 1 = m + 2
      BY <1>1, <2>3
    <3>. HIDE DEF m
    <3>2. v[k] = t[m]
      BY <1>1, <1>3, <3>1
    <3>3. u[k] = t[m]
      BY <1>2, <1>4, <2>3 DEF m
    <3>. QED  BY <3>2, <3>3
  <2>4. k = n + 2 \/ k = n + 1 \/ k \in 1 .. n
    BY <1>1
  <2>. QED  BY <2>1, <2>2, <2>3, <2>4
<1>6. v = u
  BY <1>3, <1>4, <1>5, SameText
<1>. QED  BY <1>6 DEF u, v, s, r

\* What the digits of a number, the lowest one first, are like.
LEMMA DigitsOfNumber ==
  ASSUME NEW val \in Nat
  PROVE  /\ Reversed[val] \in Seq(Digits) /\ Len(Reversed[val]) \in Nat \ {0}
         /\ val < 10 => Len(Reversed[val]) = 1
         /\ val # 0 => Reversed[val][Len(Reversed[val])] # "0"
         /\ retreive_unsigned_integer(Reverse(Reversed[val])) = val
<1>. DEFINE Good(n) == /\ Len(Reversed[n]) \in Nat \ {0}
                       /\ n < 10 => Len(Reversed[n]) = 1
                       /\ n # 0 => Reversed[n][Len(Reversed[n])] # "0"
                       /\ retreive_unsigned_integer(Reverse(Reversed[n])) = n
            T == {n \in Nat : Good(n)}
<1>0. DigitValue["0"] = 0 /\ << >> \in Seq(Digits)
  <2>1. DigitChar[0 + 1] = "0" /\ 0 \in 0 .. 9
    BY DEF DigitChar
  <2>. QED  BY <2>1, DigitsHaveValues
<1>1. ASSUME NEW n \in Nat, \A k \in Nat : k < n => k \in T
      PROVE  Good(n)
  <2>1. CASE n > 99
    <3>. DEFINE q  == n \div 100
                m  == n % 100
                lo == DigitChar[(m % 10) + 1]
                hi == DigitChar[(m \div 10) + 1]
                R  == Reversed[q]
    <3>1. q \in Nat /\ q < n /\ q # 0 /\ m \in 0 .. 99 /\ n = 100 * q + m
      BY <2>1
    <3>2. R \in Seq(Digits) /\ Len(R) \in Nat \ {0} /\ R[Len(R)] # "0"
          /\ retreive_unsigned_integer(Reverse(R)) = q
      <4>. HIDE DEF q
      <4>. QED  BY <1>1, <3>1, ReversedUnfolds
    <3>3. /\ digit_lookup_table[m] = <<lo, hi>>
          /\ m % 10 \in 0 .. 9 /\ m \div 10 \in 0 .. 9 /\ m = 10 * (m \div 10) + (m % 10)
      <4>. HIDE DEF m
      <4>. QED  BY <3>1, PairOfDigits
    <3>. HIDE DEF m, q
    <3>4. lo \in Digits /\ hi \in Digits /\ DigitValue[lo] = m % 10 /\ DigitValue[hi] = m \div 10
      BY <3>3, DigitsHaveValues
    <3>5. Reversed[n] = <<lo, hi>> \o R
      BY <2>1, <3>3, ReversedUnfolds DEF m, q
    <3>. DEFINE S == Reverse(R)
    <3>6. Reverse(Reversed[n]) = Append(Append(S, hi), lo)
      <4>. HIDE DEF lo, hi, R
      <4>. QED  BY <3>2, <3>4, <3>5, ReverseOfPair
    <3>7. S \in Seq(Digits)
      BY <3>2, ReverseOf
    <3>. HIDE DEF lo, hi, R, S
    <3>8. /\ Append(S, hi) \in Seq(Digits)
          /\ retreive_unsigned_integer(Append(S, hi)) = 10 * q + (m \div 10)
      BY <3>2, <3>4, <3>7, NumberGrows DEF S
    <3>9. retreive_unsigned_integer(Append(Append(S, hi), lo)) = 10 * (10 * q + (m \div 10)) + (m % 10)
      BY <3>4, <3>8, NumberGrows
    <3>10. 10 * (10 * q + (m \div 10)) + (m % 10) = n
      <4>. DEFINE a == m \div 10
                  b == m % 10
      <4>1. a \in 0 .. 9 /\ b \in 0 .. 9 /\ m = 10 * a + b
        BY <3>3
      <4>. HIDE DEF a, b
      <4>2. 10 * (10 * q + a) + b = n
        BY <3>1, <4>1
      <4>. QED  BY <4>2 DEF a, b
    <3>11. Len(Reversed[n]) \in Nat \ {0} /\ Reversed[n][Len(Reversed[n])] = R[Len(R)]
      BY <3>2, <3>4, <3>5
    <3>. QED  BY <2>1, <3>2, <3>6, <3>9, <3>10, <3>11
  <2>2. CASE n \in 10 .. 99
    <3>. DEFINE lo == DigitChar[(n % 10) + 1]
                hi == DigitChar[(n \div 10) + 1]
                e  == << >>
    <3>0. n \in 0 .. 99 /\ n > 9 /\ ~(n > 99) /\ n # 0
      BY <2>2
    <3>1. /\ digit_lookup_table[n] = <<lo, hi>>
          /\ n % 10 \in 0 .. 9 /\ n \div 10 \in 0 .. 9 /\ n = 10 * (n \div 10) + (n % 10)
      BY <3>0, PairOfDigits
    <3>2. lo \in Digits /\ hi \in Digits /\ DigitValue[lo] = n % 10 /\ DigitValue[hi] = n \div 10
      BY <3>1, DigitsHaveValues
    <3>3. Reversed[n] = <<lo, hi>>
      <4>. HIDE DEF lo, hi
      <4>1. Reversed[n] = digit_lookup_table[n]
        BY <3>0, ReversedUnfolds
      <4>. QED  BY <3>1, <4>1
    <3>4. hi # "0"
      <4>. DEFINE d == n \div 10
      <4>1. DigitValue[hi] = d /\ d \in 0 .. 9 /\ n = 10 * d + (n % 10) /\ n % 10 \in 0 .. 9
        BY <3>1, <3>2
      <4>. HIDE DEF d, hi
      <4>2. d # 0
        BY <3>0, <4>1
      <4>. QED  BY <1>0, <4>1, <4>2
    <3>. HIDE DEF lo, hi
    <3>5. Reversed[n] = <<lo, hi>> \o e /\ Reverse(e) = e /\ e \in Seq(Digits)
      BY <3>2, <3>3 DEF Reverse
    <3>. HIDE DEF e
    <3>6. Reverse(Reversed[n]) = Append(Append(e, hi), lo)
      BY <3>2, <3>5, ReverseOfPair
    <3>7. /\ Append(e, hi) \in Seq(Digits)
          /\ retreive_unsigned_integer(Append(e, hi)) = n \div 10
      <4>1. retreive_unsigned_integer(Append(e, hi)) = 10 * 0 + DigitValue[hi]
        BY <3>2, <3>5, NumberOfNothing, NumberGrows DEF e
      <4>. QED  BY <3>1, <3>2, <3>5, <4>1
    <3>8. retreive_unsigned_integer(Append(Append(e, hi), lo)) = 10 * (n \div 10) + (n % 10)
      BY <3>2, <3>7, NumberGrows
    <3>9. Len(Reversed[n]) = 2 /\ Reversed[n][2] = hi
      BY <3>3
    <3>. QED  BY <2>2, <3>1, <3>4, <3>6, <3>8, <3>9
  <2>3. CASE n \in 0 .. 9
    <3>. DEFINE lo == DigitChar[(n % 10) + 1]
                hi == DigitChar[(n \div 10) + 1]
    <3>0. n \in 0 .. 99 /\ ~(n > 9) /\ ~(n > 99)
      BY <2>3
    <3>1. digit_lookup_table[n] = <<lo, hi>> /\ n % 10 = n
      <4>1. digit_lookup_table[n] = <<lo, hi>>
        BY <3>0, PairOfDigits
      <4>. QED  BY <2>3, <4>1
    <3>2. lo \in Digits /\ DigitValue[lo] = n
      BY <2>3, <3>1, DigitsHaveValues
    <3>. HIDE DEF lo, hi
    <3>3. Reversed[n] = <<lo>>
      <4>1. Reversed[n] = <<digit_lookup_table[n][1]>>
        BY <3>0, ReversedUnfolds
      <4>. QED  BY <3>1, <4>1
    <3>4. Reverse(Reversed[n]) = Append(<< >>, lo)
      <4>1. Reverse(Reversed[n]) \in Seq(Digits) /\ Len(Reverse(Reversed[n])) = 1
            /\ Reverse(Reversed[n])[1] = lo
        <5>. DEFINE s == Reversed[n]
        <5>1. s \in Seq(Digits) /\ Len(s) = 1 /\ s[1] = lo
          BY <3>2, <3>3
        <5>. HIDE DEF s
        <5>2. Reverse(s) \in Seq(Digits) /\ Len(Reverse(s)) = Len(s)
              /\ \A k \in 1 .. Len(s) : Reverse(s)[k] = s[(Len(s) - k) + 1]
          BY <5>1, ReverseOf
        <5>3. 1 \in 1 .. 1 /\ (1 - 1) + 1 = 1
          OBVIOUS
        <5>4. Reverse(s)[1] = lo
          BY <5>1, <5>2, <5>3
        <5>. QED  BY <5>1, <5>2, <5>4 DEF s
      <4>2. Append(<< >>, lo) \in Seq(Digits) /\ Len(Append(<< >>, lo)) = 1
            /\ Append(<< >>, lo)[1] = lo
        BY <3>2
      <4>. QED  BY <4>1, <4>2, SameText
    <3>5. retreive_unsigned_integer(Append(<< >>, lo)) = n
      <4>1. retreive_unsigned_integer(Append(<< >>, lo)) = 10 * 0 + DigitValue[lo]
        BY <1>0, <3>2, NumberOfNothing, NumberGrows
      <4>. QED  BY <3>2, <4>1
    <3>6. n # 0 => lo # "0"
      BY <1>0, <3>2
    <3>7. Len(Reversed[n]) = 1 /\ Reversed[n][1] = lo
      BY <3>3
    <3>. QED  BY <3>4, <3>5, <3>6, <3>7
  <2>4. n > 99 \/ n \in 10 .. 99 \/ n \in 0 .. 9
    OBVIOUS
  <2>. QED  BY <2>1, <2>2, <2>3, <2>4
<1>2. T = Nat
  <2>1. T \in SUBSET Nat
    OBVIOUS
  <2>2. \A n \in Nat : (\A k \in Nat : k < n => k \in T) => n \in T
    <3>. HIDE DEF Good
    <3>. QED  BY <1>1
  <2>. HIDE DEF T
  <2>. QED  BY <2>1, <2>2, StrongInduction
<1>3. Good(val)
  <2>. HIDE DEF Good
  <2>. QED  BY <1>2
<1>. QED  BY <1>3, ReversedUnfolds

LEMMA NumberHasFewDigits ==
  ASSUME NEW val \in Nat, NEW p \in Nat \ {0}, val < PowerOfTen[p]
  PROVE  Len(Reversed[val]) <= p
<1>. DEFINE Good(n) == \A m \in Nat \ {0} : n < PowerOfTen[m] => Len(Reversed[n]) <= m
            T == {n \in Nat : Good(n)}
<1>0. PowerOfTen[1] = 10 /\ PowerOfTen[2] = 100
  <2>1. 1 = 0 + 1 /\ 2 = 1 + 1
    OBVIOUS
  <2>. QED  BY <2>1, PowersGrow
<1>1. ASSUME NEW n \in Nat, \A k \in Nat : k < n => k \in T
      PROVE  Good(n)
  <2>. SUFFICES ASSUME NEW m \in Nat \ {0}, n < PowerOfTen[m]
                PROVE  Len(Reversed[n]) <= m
    OBVIOUS
  <2>1. CASE n > 99
    <3>. DEFINE q == n \div 100
                R == Reversed[q]
    <3>1. q \in Nat /\ q < n /\ n % 100 \in 0 .. 99 /\ n = 100 * q + (n % 100)
      BY <2>1
    <3>2. m # 1 /\ m # 2
      BY <1>0, <2>1
    <3>. DEFINE l == m - 2
    <3>3. l \in Nat \ {0} /\ l + 1 \in Nat /\ (l + 1) + 1 = m
      BY <3>2
    <3>4. PowerOfTen[m] = 10 * (10 * PowerOfTen[l]) /\ PowerOfTen[l] \in Nat
      <4>. HIDE DEF l
      <4>1. PowerOfTen[l + 1] = 10 * PowerOfTen[l] /\ PowerOfTen[(l + 1) + 1] = 10 * PowerOfTen[l + 1]
            /\ PowerOfTen[l] \in Nat
        BY <3>3, PowersGrow
      <4>. QED  BY <3>3, <4>1
    <3>5. q < PowerOfTen[l]
      <4>. DEFINE P == PowerOfTen[l]
                  r == n % 100
      <4>1. P \in Nat /\ n < 10 * (10 * P) /\ r \in 0 .. 99 /\ n = 100 * q + r
        BY <3>1, <3>4
      <4>. HIDE DEF P, r, q
      <4>2. q < P
        BY <3>1, <4>1
      <4>. QED  BY <4>2 DEF P
    <3>. HIDE DEF q, l
    <3>6. Len(R) <= l
      <4>1. Good(q)
        <5>. HIDE DEF Good
        <5>. QED  BY <1>1, <3>1
      <4>. QED  BY <3>3, <3>5, <4>1
    <3>7. Reversed[n] = digit_lookup_table[n % 100] \o R
      BY <2>1, ReversedUnfolds DEF q
    <3>8. digit_lookup_table[n % 100] \in Seq(Digits) /\ Len(digit_lookup_table[n % 100]) = 2
      <4>. DEFINE j == n % 100
      <4>1. j \in 0 .. 99
        BY <3>1
      <4>. HIDE DEF j
      <4>2. digit_lookup_table[j] \in Seq(Digits) /\ Len(digit_lookup_table[j]) = 2
        BY <4>1, PairOfDigits
      <4>. QED  BY <4>2 DEF j
    <3>9. R \in Seq(Digits)
      BY <3>1, ReversedUnfolds
    <3>. DEFINE t == digit_lookup_table[n % 100]
    <3>. HIDE DEF R
    <3>12. t \in Seq(Digits) /\ Len(t) = 2
      BY <3>8
    <3>. HIDE DEF t
    <3>10. Len(t \o R) = 2 + Len(R) /\ Len(R) \in Nat
      <4>1. \A a, b \in Seq(Digits) : Len(a \o b) = Len(a) + Len(b) /\ Len(b) \in Nat
        OBVIOUS
      <4>. QED  BY <3>9, <3>12, <4>1, Zenon
    <3>11. Len(Reversed[n]) = 2 + Len(R)
      BY <3>7, <3>10 DEF t
    <3>. QED  BY <3>3, <3>6, <3>10, <3>11
  <2>2. CASE n \in 10 .. 99
    <3>1. n \in 0 .. 99 /\ n > 9 /\ ~(n > 99)
      BY <2>2
    <3>2. Reversed[n] = digit_lookup_table[n]
      BY <3>1, ReversedUnfolds
    <3>3. Len(digit_lookup_table[n]) = 2
      BY <3>1, PairOfDigits
    <3>. QED  BY <1>0, <2>2, <3>2, <3>3
  <2>3. CASE n \in 0 .. 9
    <3>1. Len(Reversed[n]) = 1
      BY <2>3, DigitsOfNumber
    <3>. QED  BY <3>1
  <2>. QED  BY <2>1, <2>2, <2>3
<1>2. T = Nat
  <2>1. T \in SUBSET Nat
    OBVIOUS
  <2>2. \A n \in Nat : (\A k \in Nat : k < n => k \in T) => n \in T
    <3>. HIDE DEF Good
    <3>. QED  BY <1>1
  <2>. HIDE DEF T
  <2>. QED  BY <2>1, <2>2, StrongInduction
<1>3. Good(val)
  <2>. HIDE DEF Good
  <2>. QED  BY <1>2
<1>. QED  BY <1>3

\* An integer reads back, and has no zeros in front.
LEMMA IntegerReadsBack ==
  ASSUME NEW val \in Nat
  PROVE  /\ convert_unsigned_integer(val) \in Seq(Digits)
         /\ Len(convert_unsigned_integer(val)) \in Nat \ {0}
         /\ retreive_unsigned_integer(convert_unsigned_integer(val)) = val
         /\ Len(convert_unsigned_integer(val)) > 1 => convert_unsigned_integer(val)[1] # "0"
<1>. DEFINE R == Reversed[val]
            n == Len(R)
<1>2. R \in Seq(Digits) /\ n \in Nat \ {0} /\ (val < 10 => n = 1) /\ (val # 0 => R[n] # "0")
  BY DigitsOfNumber
<1>3. convert_unsigned_integer(val) = Reverse(R)
  BY DEF convert_unsigned_integer
<1>4. retreive_unsigned_integer(Reverse(R)) = val
  BY DigitsOfNumber
<1>. HIDE DEF R
<1>5. /\ Reverse(R) \in Seq(Digits) /\ Len(Reverse(R)) = n
      /\ \A k \in 1 .. n : Reverse(R)[k] = R[(n - k) + 1]
  BY <1>2, ReverseOf
<1>6. Reverse(R)[1] = R[n]
  <2>1. 1 \in 1 .. n /\ (n - 1) + 1 = n
    BY <1>2
  <2>. QED  BY <1>5, <2>1
<1>. QED  BY <1>2, <1>3, <1>4, <1>5, <1>6

\* The decimals are as many as the precision says, and read back.
LEMMA DecimalsReadBack ==
  ASSUME NEW decimal \in Nat, NEW p \in Nat, decimal < PowerOfTen[p]
  PROVE  /\ DecimalPart(decimal, p) \in Seq(Digits)
         /\ Len(DecimalPart(decimal, p)) = p
         /\ retreive_unsigned_integer(Reverse(DecimalPart(decimal, p))) = decimal
<1>. DEFINE W == IF decimal = 0 THEN << >> ELSE Reversed[decimal]
            m == Len(W)
            n == p - m
            Z == [k \in 1 .. n |-> "0"]
            D == W \o Z
            t == Reverse(D)
            r == Reverse(W)
<1>1. DecimalPart(decimal, p) = D
  BY DEF DecimalPart
<1>2. W \in Seq(Digits) /\ m \in Nat /\ m <= p /\ retreive_unsigned_integer(r) = decimal
  <2>1. CASE decimal = 0
    <3>1. W = << >>
      BY <2>1
    <3>. HIDE DEF W
    <3>2. W \in Seq(Digits) /\ m = 0 /\ r = << >>
      BY <3>1 DEF Reverse
    <3>. QED  BY <2>1, <3>2, NumberOfNothing
  <2>2. CASE decimal # 0
    <3>1. p # 0
      BY <2>2, PowersGrow
    <3>2. W = Reversed[decimal]
      BY <2>2
    <3>. HIDE DEF W
    <3>. QED  BY <3>1, <3>2, DigitsOfNumber, NumberHasFewDigits
  <2>. QED  BY <2>1, <2>2
<1>. HIDE DEF W
<1>3. n \in Nat /\ n + m = p
  BY <1>2
<1>4. Z \in Seq(Digits) /\ Len(Z) = n /\ \A k \in 1 .. n : Z[k] = "0"
  <2>1. "0" \in Digits
    BY DigitsAreTen
  <2>. HIDE DEF n
  <2>. QED  BY <1>3, <2>1
<1>. HIDE DEF Z, m, n
<1>5. /\ D \in Seq(Digits) /\ Len(D) = p
      /\ \A k \in 1 .. m : D[k] = W[k]
      /\ \A k \in 1 .. n : D[m + k] = Z[k]
  BY <1>2, <1>3, <1>4 DEF m
<1>. HIDE DEF D
<1>6. t \in Seq(Digits) /\ Len(t) = p /\ \A k \in 1 .. p : t[k] = D[(p - k) + 1]
  BY <1>5, ReverseOf
<1>7. r \in Seq(Digits) /\ Len(r) = m /\ \A k \in 1 .. m : r[k] = W[(m - k) + 1]
  BY <1>2, ReverseOf DEF m
<1>. HIDE DEF t, r
<1>8. ASSUME NEW k \in 1 .. n PROVE t[k] = "0"
  <2>. DEFINE j == (n - k) + 1
  <2>1. j \in 1 .. n /\ (p - k) + 1 = m + j /\ k \in 1 .. p
    BY <1>2, <1>3
  <2>. HIDE DEF j
  <2>. QED  BY <1>4, <1>5, <1>6, <2>1
<1>9. ASSUME NEW k \in 1 .. m PROVE t[n + k] = r[k]
  <2>. DEFINE j == (m - k) + 1
  <2>1. j \in 1 .. m /\ (p - (n + k)) + 1 = j /\ n + k \in 1 .. p
    BY <1>2, <1>3
  <2>. HIDE DEF j
  <2>2. t[n + k] = W[j]
    BY <1>5, <1>6, <2>1
  <2>3. r[k] = W[j]
    BY <1>7 DEF j
  <2>. QED  BY <2>2, <2>3
<1>10. retreive_unsigned_integer(t) = retreive_unsigned_integer(r)
  BY <1>3, <1>6, <1>7, <1>8, <1>9, ZerosInFront
<1>. QED  BY <1>1, <1>2, <1>5, <1>10 DEF t

\* Division by a number that is not known.
LEMMA Quotient ==
  ASSUME NEW a \in Nat, NEW b \in Nat \ {0}
  PROVE  a \div b \in Nat /\ a % b \in 0 .. b - 1 /\ a = b * (a \div b) + (a % b)
OBVIOUS

-----------------------------------------------------------------------------
(* A number with decimals reads back, rounded.                              *)

\* u is s and then t.
Joins(u, s, t) ==
  /\ Len(s) \in Nat /\ Len(t) \in Nat /\ Len(u) = Len(s) + Len(t)
  /\ \A k \in 1 .. Len(s) : u[k] = s[k]
  /\ \A k \in 1 .. Len(t) : u[Len(s) + k] = t[k]

LEMMA ConcatIs ==
  ASSUME NEW S, NEW s \in Seq(S), NEW t \in Seq(S)
  PROVE  s \o t \in Seq(S) /\ Joins(s \o t, s, t)
<1>1. /\ s \o t \in Seq(S)
      /\ Len(s \o t) = Len(s) + Len(t)
      /\ \A k \in 1 .. Len(s) + Len(t) :
           (s \o t)[k] = IF k <= Len(s) THEN s[k] ELSE t[k - Len(s)]
  BY ConcatProperties
<1>2. Len(s) \in Nat /\ Len(t) \in Nat
  BY LenProperties
<1>3. ASSUME NEW k \in 1 .. Len(s) PROVE (s \o t)[k] = s[k]
  <2>1. k \in 1 .. Len(s) + Len(t) /\ k <= Len(s)
    BY <1>2
  <2>. QED  BY <1>1, <2>1
<1>4. ASSUME NEW k \in 1 .. Len(t) PROVE (s \o t)[Len(s) + k] = t[k]
  <2>. DEFINE n == Len(s)
              j == n + k
  <2>1. n \in Nat /\ j \in 1 .. n + Len(t) /\ ~(j <= n) /\ j - n = k
    BY <1>2
  <2>. HIDE DEF j
  <2>2. (s \o t)[j] = t[j - n]
    BY <1>1, <2>1
  <2>. QED  BY <2>1, <2>2 DEF j
<1>. QED  BY <1>1, <1>2, <1>3, <1>4 DEF Joins

\* u is a text around a point.
Surrounds(u, a, c, b) ==
  /\ Len(a) \in Nat /\ Len(b) \in Nat /\ Len(u) = Len(a) + 1 + Len(b)
  /\ \A k \in 1 .. Len(a) : u[k] = a[k]
  /\ u[Len(a) + 1] = c
  /\ \A k \in 1 .. Len(b) : u[Len(a) + 1 + k] = b[k]

LEMMA AroundPoint ==
  ASSUME NEW S, NEW a \in Seq(S), NEW c \in S, NEW b \in Seq(S)
  PROVE  a \o <<c>> \o b \in Seq(S) /\ Surrounds(a \o <<c>> \o b, a, c, b)
<1>. DEFINE d == <<c>>
            s == a \o d
            t == s \o b
            n == Len(a)
<1>1. d \in Seq(S) /\ Len(d) = 1 /\ d[1] = c
  OBVIOUS
<1>. HIDE DEF d
<1>2. /\ s \in Seq(S) /\ n \in Nat /\ Len(s) = n + 1
      /\ \A k \in 1 .. n : s[k] = a[k]
      /\ \A k \in 1 .. 1 : s[n + k] = d[k]
  <2>1. s \in Seq(S) /\ Joins(s, a, d)
    BY <1>1, ConcatIs
  <2>. HIDE DEF s
  <2>. QED  BY <1>1, <2>1 DEF Joins
<1>3. s[n + 1] = c
  BY <1>1, <1>2
<1>. HIDE DEF s, n
<1>4. /\ t \in Seq(S) /\ Len(b) \in Nat /\ Len(t) = (n + 1) + Len(b)
      /\ \A k \in 1 .. n + 1 : t[k] = s[k]
      /\ \A k \in 1 .. Len(b) : t[(n + 1) + k] = b[k]
  <2>1. t \in Seq(S) /\ Joins(t, s, b)
    BY <1>2, ConcatIs
  <2>. HIDE DEF t
  <2>. QED  BY <1>2, <2>1 DEF Joins
<1>. HIDE DEF t
<1>5. \A k \in 1 .. n : t[k] = a[k]
  BY <1>2, <1>4
<1>6. t[n + 1] = c
  BY <1>2, <1>3, <1>4
<1>7. t = a \o <<c>> \o b
  BY DEF t, s, d
<1>8. Surrounds(t, a, c, b)
  BY <1>2, <1>4, <1>5, <1>6 DEF n, Surrounds
<1>. QED  BY <1>4, <1>7, <1>8

LEMMA ReverseAroundPoint ==
  ASSUME NEW S, NEW a \in Seq(S), NEW c \in S, NEW b \in Seq(S)
  PROVE  Reverse(a \o <<c>> \o b) = Reverse(b) \o <<c>> \o Reverse(a)
<1>. DEFINE s == a \o <<c>> \o b
            ra == Reverse(a)
            rb == Reverse(b)
            t == rb \o <<c>> \o ra
            r == Reverse(s)
            m == Len(a)
            n == Len(b)
<1>1. ra \in Seq(S) /\ Len(ra) = m /\ \A k \in 1 .. m : ra[k] = a[(m - k) + 1]
  BY ReverseOf
<1>2. rb \in Seq(S) /\ Len(rb) = n /\ \A k \in 1 .. n : rb[k] = b[(n - k) + 1]
  BY ReverseOf
<1>3. /\ s \in Seq(S) /\ m \in Nat /\ n \in Nat /\ Len(s) = m + 1 + n
      /\ \A k \in 1 .. m : s[k] = a[k]
      /\ s[m + 1] = c
      /\ \A k \in 1 .. n : s[m + 1 + k] = b[k]
  BY AroundPoint DEF Surrounds
<1>. HIDE DEF ra, rb, m, n
<1>4. /\ t \in Seq(S) /\ Len(t) = n + 1 + m
      /\ \A k \in 1 .. n : t[k] = rb[k]
      /\ t[n + 1] = c
      /\ \A k \in 1 .. m : t[n + 1 + k] = ra[k]
  <2>1. t \in Seq(S) /\ Surrounds(t, rb, c, ra)
    BY <1>1, <1>2, AroundPoint
  <2>. HIDE DEF t
  <2>. QED  BY <1>1, <1>2, <2>1 DEF Surrounds
<1>. HIDE DEF s, t
<1>5. r \in Seq(S) /\ Len(r) = m + 1 + n
      /\ \A k \in 1 .. m + 1 + n : r[k] = s[((m + 1 + n) - k) + 1]
  <2>1. r \in Seq(S) /\ Len(r) = Len(s) /\ \A k \in 1 .. Len(s) : r[k] = s[(Len(s) - k) + 1]
    BY <1>3, ReverseOf
  <2>. HIDE DEF r
  <2>. QED  BY <1>3, <2>1
<1>. HIDE DEF r
<1>6. ASSUME NEW k \in 1 .. m + 1 + n PROVE r[k] = t[k]
  <2>1. CASE k \in 1 .. n
    <3>. DEFINE j == (n - k) + 1
    <3>1. j \in 1 .. n /\ ((m + 1 + n) - k) + 1 = m + 1 + j
      BY <1>3, <2>1
    <3>. HIDE DEF j
    <3>2. r[k] = b[j]
      BY <1>3, <1>5, <3>1
    <3>3. t[k] = b[j]
      BY <1>2, <1>4, <2>1 DEF j
    <3>. QED  BY <3>2, <3>3
  <2>2. CASE k = n + 1
    <3>1. ((m + 1 + n) - k) + 1 = m + 1
      BY <1>3, <2>2
    <3>. QED  BY <1>3, <1>4, <1>5, <2>2, <3>1
  <2>3. CASE k \in n + 2 .. m + 1 + n
    <3>. DEFINE j == (k - n) - 1
                l == (m - j) + 1
    <3>1. j \in 1 .. m /\ k = n + 1 + j /\ l \in 1 .. m /\ ((m + 1 + n) - k) + 1 = l
      BY <1>3, <2>3
    <3>2. ra[j] = a[l]
      <4>. HIDE DEF j
      <4>. QED  BY <1>1, <3>1
    <3>. HIDE DEF j, l
    <3>3. r[k] = a[l]
      BY <1>3, <1>5, <3>1
    <3>4. t[k] = ra[j]
      BY <1>4, <3>1
    <3>. QED  BY <3>2, <3>3, <3>4
  <2>. QED  BY <1>3, <2>1, <2>2, <2>3
<1>7. r = t
  <2>0. Len(r) = Len(t)
    BY <1>3, <1>4, <1>5
  <2>1. Len(r) = Len(t) /\ \A k \in 1 .. Len(r) : r[k] = t[k]
    BY <1>5, <1>6, <2>0
  <2>. QED  BY <1>4, <1>5, <2>1, SameText
<1>. QED  BY <1>7 DEF r, s, t, ra, rb

\* The text of a number with decimals has its parts around the point, and the
\* two make the number to within half a unit of the last decimal, rounded up.
LEMMA FloatIsRounded ==
  ASSUME NEW val \in Nat, NEW p \in Nat
  PROVE  \E int, dec \in Seq(Digits) :
           /\ convert_unsigned_float(val, p) = int \o <<".">> \o dec
           /\ Len(int) \in Nat \ {0} /\ Len(dec) = p
           /\ LET n == retreive_unsigned_integer(int) * PowerOfTen[p]
                       + retreive_unsigned_integer(dec)
              IN  n \in Nat /\ 10 * n <= val + 5 /\ val <= 10 * n + 4
<1>. DEFINE M       == PowerOfTen[p]
            N       == 10 * M
            q       == val \div N
            r       == val % N
            rounded == (r + 5) \div 10
            carry   == rounded \div M
            d       == rounded - carry * M
            i1      == q + carry
            A       == DecimalPart(d, p)
            B       == Reversed[i1]
            S       == Digits \cup {"."}
<1>1. convert_unsigned_float(val, p) = Reverse(A \o <<".">> \o B)
  BY DEF convert_unsigned_float
<1>2. M \in Nat \ {0} /\ N \in Nat \ {0}
  BY PowersGrow
<1>. HIDE DEF M
<1>3. q \in Nat /\ r \in 0 .. N - 1 /\ val = N * q + r
  <2>. HIDE DEF N
  <2>. QED  BY <1>2, Quotient
<1>. HIDE DEF q, r
<1>4. rounded \in 0 .. M /\ 10 * rounded <= r + 5 /\ r <= 10 * rounded + 4
  BY <1>2, <1>3
<1>. HIDE DEF rounded
<1>5. carry \in {0, 1} /\ d \in Nat /\ d < M /\ carry * M + d = rounded
  <2>1. CASE rounded = M
    <3>1. carry = 1
      <4>1. carry \in Nat /\ rounded % M \in 0 .. M - 1 /\ rounded = M * carry + (rounded % M)
        <5>1. rounded \in Nat
          BY <1>4
        <5>. QED  BY <1>2, <5>1, Quotient
      <4>. DEFINE c == carry
                  x == rounded % M
      <4>2. c \in Nat /\ x \in 0 .. M - 1 /\ M = M * c + x
        BY <2>1, <4>1
      <4>. HIDE DEF c, x, carry
      <4>3. c # 0
        BY <1>2, <4>2
      <4>4. ~(c > 1)
        <5>. SUFFICES ASSUME c > 1 PROVE FALSE
          OBVIOUS
        <5>1. M * c >= M * 2
          BY <1>2, <4>2
        <5>. QED  BY <1>2, <4>2, <5>1
      <4>5. c = 1
        BY <4>2, <4>3, <4>4
      <4>. QED  BY <4>5 DEF c
    <3>. HIDE DEF carry
    <3>. QED  BY <1>2, <2>1, <3>1
  <2>2. CASE rounded < M
    <3>1. carry = 0
      <4>1. carry \in Nat /\ rounded % M \in 0 .. M - 1 /\ rounded = M * carry + (rounded % M)
        <5>1. rounded \in Nat
          BY <1>4
        <5>. QED  BY <1>2, <5>1, Quotient
      <4>. DEFINE c == carry
                  x == rounded % M
      <4>2. c \in Nat /\ x \in 0 .. M - 1 /\ rounded = M * c + x
        BY <4>1
      <4>. HIDE DEF c, x, carry
      <4>3. ~(c > 0)
        <5>. SUFFICES ASSUME c > 0 PROVE FALSE
          OBVIOUS
        <5>1. M * c >= M
          BY <1>2, <4>2
        <5>. QED  BY <1>2, <1>4, <2>2, <4>2, <5>1
      <4>4. c = 0
        BY <4>2, <4>3
      <4>. QED  BY <4>4 DEF c
    <3>. HIDE DEF carry
    <3>. QED  BY <1>2, <1>4, <2>2, <3>1
  <2>. QED  BY <1>2, <1>4, <2>1, <2>2
<1>. HIDE DEF carry, d
<1>6. i1 \in Nat
  BY <1>3, <1>5
<1>7. A \in Seq(Digits) /\ Len(A) = p /\ retreive_unsigned_integer(Reverse(A)) = d
  BY <1>5, DecimalsReadBack DEF M
<1>8. B \in Seq(Digits) /\ Len(B) \in Nat \ {0} /\ retreive_unsigned_integer(Reverse(B)) = i1
  <2>. HIDE DEF i1
  <2>. QED  BY <1>6, DigitsOfNumber
<1>. HIDE DEF A, B
<1>. DEFINE int == Reverse(B)
            dec == Reverse(A)
<1>9. int \in Seq(Digits) /\ Len(int) \in Nat \ {0} /\ dec \in Seq(Digits) /\ Len(dec) = p
  BY <1>7, <1>8, ReverseOf
<1>10. convert_unsigned_float(val, p) = int \o <<".">> \o dec
  <2>. DEFINE c == "."
  <2>1. c \in S /\ A \in Seq(S) /\ B \in Seq(S)
    BY <1>7, <1>8
  <2>. HIDE DEF S, c
  <2>2. Reverse(A \o <<c>> \o B) = Reverse(B) \o <<c>> \o Reverse(A)
    BY <2>1, ReverseAroundPoint
  <2>. QED  BY <1>1, <2>2 DEF c
<1>. DEFINE n == retreive_unsigned_integer(int) * M + retreive_unsigned_integer(dec)
<1>11. n \in Nat /\ 10 * n <= val + 5 /\ val <= 10 * n + 4
  <2>1. n = i1 * M + d
    BY <1>7, <1>8
  <2>2. i1 * M + d = q * M + rounded
    BY <1>2, <1>3, <1>4, <1>5
  <2>3. N * q = 10 * (q * M)
    BY <1>2, <1>3
  <2>. DEFINE x == q * M
  <2>4. x \in Nat
    BY <1>2, <1>3
  <2>5. n = x + rounded /\ val = 10 * x + r
    BY <1>3, <2>1, <2>2, <2>3
  <2>. HIDE DEF x, n, N
  <2>. QED  BY <1>2, <1>3, <1>4, <2>4, <2>5
<1>. HIDE DEF int, dec
<1>. QED  BY <1>9, <1>10, <1>11 DEF M

LEMMA PartOfText ==
  ASSUME NEW S, NEW s \in Seq(S), NEW m \in 1 .. (Len(s) + 1), NEW n \in 0 .. Len(s),
         m <= n + 1
  PROVE  /\ SubSeq(s, m, n) \in Seq(S)
         /\ Len(SubSeq(s, m, n)) = (n - m) + 1
         /\ \A k \in 1 .. ((n - m) + 1) : SubSeq(s, m, n)[k] = s[(m + k) - 1]
<1>1. Len(s) \in Nat
  BY LenProperties
<1>2. m \in Int /\ n \in Int
  BY <1>1
<1>3. \A k \in m .. n : s[k] \in S
  <2>1. ASSUME NEW k \in m .. n PROVE s[k] \in S
    <3>1. k \in 1 .. Len(s)
      BY <1>1
    <3>. QED  BY <3>1, ElementOfSeq
  <2>. QED  BY <2>1
<1>4. \A a, b \in Int : (\A k \in a .. b : s[k] \in S) =>
        /\ SubSeq(s, a, b) \in Seq(S)
        /\ Len(SubSeq(s, a, b)) = IF a <= b THEN b - a + 1 ELSE 0
        /\ \A k \in 1 .. b - a + 1 : SubSeq(s, a, b)[k] = s[a + k - 1]
  BY SubSeqProperties
<1>5. /\ SubSeq(s, m, n) \in Seq(S)
      /\ Len(SubSeq(s, m, n)) = IF m <= n THEN n - m + 1 ELSE 0
      /\ \A k \in 1 .. n - m + 1 : SubSeq(s, m, n)[k] = s[m + k - 1]
  BY <1>2, <1>3, <1>4
<1>. QED  BY <1>1, <1>5

\* What is read of a text around a point.
ReadsAs(str, int, dec, p) ==
  /\ SelectInSeq(str, LAMBDA c : c = ".") = Len(int) + 1
  /\ Len(str) = Len(int) + 1 + p
  /\ retreive_unsigned_float(str, p)
       = retreive_unsigned_integer(int) * PowerOfTen[p] + retreive_unsigned_integer(dec)

LEMMA FloatIsRead ==
  ASSUME NEW int \in Seq(Digits), NEW dec \in Seq(Digits), NEW str, NEW p \in Nat,
         str = int \o <<".">> \o dec, Len(dec) = p
  PROVE  ReadsAs(str, int, dec, p)
<1>. DEFINE n   == Len(int)
            S   == Digits \cup {"."}
            at  == {k \in 1 .. Len(str) : str[k] = "."}
<1>1. "." \notin Digits
  BY DigitsAreTen
<1>2. /\ str \in Seq(S) /\ n \in Nat /\ Len(str) = n + 1 + p
      /\ \A k \in 1 .. n : str[k] = int[k]
      /\ str[n + 1] = "."
      /\ \A k \in 1 .. p : str[n + 1 + k] = dec[k]
  <2>. DEFINE c == "."
  <2>1. c \in S /\ int \in Seq(S) /\ dec \in Seq(S)
    OBVIOUS
  <2>. HIDE DEF S, c
  <2>2. int \o <<c>> \o dec \in Seq(S) /\ Surrounds(int \o <<c>> \o dec, int, c, dec)
    BY <2>1, AroundPoint
  <2>3. str \in Seq(S) /\ Surrounds(str, int, c, dec)
    BY <2>2 DEF c
  <2>. QED  BY <2>3 DEF Surrounds, c
<1>. HIDE DEF S
<1>3. at = {n + 1}
  <2>1. n + 1 \in at
    BY <1>2
  <2>2. ASSUME NEW k \in at PROVE k = n + 1
    <3>1. k \in 1 .. n + 1 + p /\ str[k] = "."
      BY <1>2
    <3>2. CASE k \in 1 .. n
      <4>1. int[k] \in Digits
        BY <3>2, ElementOfSeq
      <4>. QED  BY <1>1, <1>2, <3>1, <3>2, <4>1
    <3>3. CASE k \in n + 2 .. n + 1 + p
      <4>. DEFINE j == (k - n) - 1
      <4>1. j \in 1 .. p /\ k = n + 1 + j
        BY <1>2, <3>3
      <4>2. dec[j] \in Digits
        BY <4>1, ElementOfSeq
      <4>. HIDE DEF j
      <4>. QED  BY <1>1, <1>2, <3>1, <4>1, <4>2
    <3>. QED  BY <1>2, <3>1, <3>2, <3>3
  <2>. QED  BY <2>1, <2>2
<1>4. SelectInSeq(str, LAMBDA c : c = ".") = n + 1
  <2>1. SelectInSeq(str, LAMBDA c : c = ".") = IF at # {} THEN Min(at) ELSE 0
    BY DEF SelectInSeq
  <2>2. Min({n + 1}) = n + 1
    <3>. DEFINE j == n + 1
    <3>1. j \in Nat
      BY <1>2
    <3>. HIDE DEF j
    <3>2. {j} \in SUBSET Nat /\ j \in {j} /\ \A k \in {j} : j <= k
      BY <3>1
    <3>3. Min({j}) = j
      BY <3>2, LeastIs
    <3>. QED  BY <3>3 DEF j
  <2>. HIDE DEF at
  <2>. QED  BY <1>3, <2>1, <2>2
<1>5. SubSeq(str, 1, (n + 1) - 1) = int
  <2>. DEFINE u == SubSeq(str, 1, n)
  <2>1. 1 \in 1 .. (Len(str) + 1) /\ n \in 0 .. Len(str) /\ 1 <= n + 1
    BY <1>2
  <2>2. u \in Seq(S) /\ Len(u) = (n - 1) + 1 /\ \A k \in 1 .. ((n - 1) + 1) : u[k] = str[(1 + k) - 1]
    <3>. HIDE DEF n
    <3>. QED  BY <1>2, <2>1, PartOfText
  <2>. HIDE DEF u
  <2>3. Len(u) = n /\ \A k \in 1 .. n : u[k] = int[k]
    BY <1>2, <2>2
  <2>4. int \in Seq(S)
    BY DEF S
  <2>5. u = int
    BY <2>2, <2>3, <2>4, SameText
  <2>. QED  BY <1>2, <2>5 DEF u
<1>6. SubSeq(str, (n + 1) + 1, Len(str)) = dec
  <2>. DEFINE m == (n + 1) + 1
              l == Len(str)
              u == SubSeq(str, m, l)
  <2>1. m \in 1 .. (l + 1) /\ l \in 0 .. l /\ m <= l + 1 /\ (l - m) + 1 = p
    BY <1>2
  <2>. HIDE DEF m
  <2>2. u \in Seq(S) /\ Len(u) = (l - m) + 1 /\ \A k \in 1 .. ((l - m) + 1) : u[k] = str[(m + k) - 1]
    BY <1>2, <2>1, PartOfText
  <2>. HIDE DEF u, l
  <2>3. ASSUME NEW k \in 1 .. p PROVE u[k] = dec[k]
    <3>1. (m + k) - 1 = n + 1 + k
      BY <1>2 DEF m
    <3>. QED  BY <1>2, <2>1, <2>2, <3>1
  <2>4. dec \in Seq(S) /\ Len(u) = p
    BY <2>1, <2>2 DEF S
  <2>5. u = dec
    BY <2>2, <2>3, <2>4, SameText
  <2>. QED  BY <2>5 DEF u, m, l
<1>7. retreive_unsigned_float(str, p)
        = retreive_unsigned_integer(int) * PowerOfTen[p]
          + retreive_unsigned_integer(dec) * PowerOfTen[p - Len(dec)]
  <2>. DEFINE dot == SelectInSeq(str, LAMBDA c : c = ".")
              i1  == IF dot = 0 THEN str ELSE SubSeq(str, 1, dot - 1)
              d1  == IF dot = 0 THEN << >> ELSE SubSeq(str, dot + 1, Len(str))
  <2>1. retreive_unsigned_float(str, p)
          = retreive_unsigned_integer(i1) * PowerOfTen[p]
            + retreive_unsigned_integer(d1) * PowerOfTen[p - Len(d1)]
    BY DEF retreive_unsigned_float
  <2>2. dot = n + 1
    BY <1>4
  <2>. HIDE DEF dot, n
  <2>3. dot # 0
    BY <1>2, <2>2
  <2>4. i1 = int
    BY <1>5, <2>2, <2>3
  <2>5. d1 = dec
    BY <1>6, <2>2, <2>3
  <2>. HIDE DEF i1, d1
  <2>. QED  BY <2>1, <2>4, <2>5
<1>8. retreive_unsigned_integer(dec) * PowerOfTen[p - Len(dec)] = retreive_unsigned_integer(dec)
  <2>1. p - Len(dec) = 0 /\ PowerOfTen[0] = 1
    BY PowersGrow
  <2>2. retreive_unsigned_integer(dec) \in Nat
    BY NumberIsNatural
  <2>. QED  BY <2>1, <2>2
<1>. QED  BY <1>2, <1>4, <1>7, <1>8 DEF ReadsAs

-----------------------------------------------------------------------------
(* Texts that are appended and cut.                                         *)

\* u is t and then the first n of b.
Extended(u, t, b, n) ==
  /\ Len(t) \in Nat /\ Len(b) \in Nat /\ n \in 0 .. Len(b)
  /\ Len(u) = Len(t) + n
  /\ \A k \in 1 .. Len(t) : u[k] = t[k]
  /\ \A k \in 1 .. n : u[Len(t) + k] = b[k]

LEMMA ExtensionIsUnique ==
  ASSUME NEW C, NEW u \in Seq(C), NEW v \in Seq(C), NEW t, NEW b, NEW n,
         Extended(u, t, b, n), Extended(v, t, b, n)
  PROVE  u = v
<1>1. Len(t) \in Nat /\ n \in Nat /\ Len(u) = Len(t) + n /\ Len(v) = Len(t) + n
  BY DEF Extended
<1>2. ASSUME NEW k \in 1 .. Len(u) PROVE u[k] = v[k]
  <2>1. CASE k \in 1 .. Len(t)
    BY <2>1 DEF Extended
  <2>2. CASE k \in Len(t) + 1 .. Len(t) + n
    <3>. DEFINE j == k - Len(t)
    <3>1. j \in 1 .. n /\ k = Len(t) + j
      BY <1>1, <2>2
    <3>. HIDE DEF j
    <3>2. u[Len(t) + j] = b[j] /\ v[Len(t) + j] = b[j]
      BY <3>1 DEF Extended
    <3>. QED  BY <3>1, <3>2
  <2>. QED  BY <1>1, <2>1, <2>2
<1>. QED  BY <1>1, <1>2, SameText

LEMMA FirstPart ==
  ASSUME NEW C, NEW b \in Seq(C), NEW n \in 0 .. Len(b)
  PROVE  /\ SubSeq(b, 1, n) \in Seq(C) /\ Len(SubSeq(b, 1, n)) = n
         /\ \A k \in 1 .. n : SubSeq(b, 1, n)[k] = b[k]
<1>1. Len(b) \in Nat /\ n \in Nat
  BY LenProperties
<1>2. 1 \in 1 .. (Len(b) + 1) /\ 1 <= n + 1
  BY <1>1
<1>. DEFINE u == SubSeq(b, 1, n)
<1>3. u \in Seq(C) /\ Len(u) = (n - 1) + 1 /\ \A k \in 1 .. ((n - 1) + 1) : u[k] = b[(1 + k) - 1]
  BY <1>2, PartOfText
<1>. HIDE DEF u
<1>4. Len(u) = n /\ \A k \in 1 .. n : u[k] = b[k]
  BY <1>1, <1>3
<1>. QED  BY <1>3, <1>4 DEF u

LEMMA ExtendedByPart ==
  ASSUME NEW C, NEW t \in Seq(C), NEW b \in Seq(C), NEW n \in 0 .. Len(b)
  PROVE  t \o SubSeq(b, 1, n) \in Seq(C) /\ Extended(t \o SubSeq(b, 1, n), t, b, n)
<1>. DEFINE d == SubSeq(b, 1, n)
            u == t \o d
<1>1. d \in Seq(C) /\ Len(d) = n /\ \A k \in 1 .. n : d[k] = b[k]
  BY FirstPart
<1>. HIDE DEF d
<1>2. u \in Seq(C) /\ Joins(u, t, d)
  BY <1>1, ConcatIs
<1>3. Len(b) \in Nat
  BY LenProperties
<1>. HIDE DEF u
<1>4. Extended(u, t, b, n)
  BY <1>1, <1>2, <1>3 DEF Joins, Extended
<1>. QED  BY <1>2, <1>4 DEF u, d

\* The whole of it.
LEMMA ExtendedByAll ==
  ASSUME NEW C, NEW t \in Seq(C), NEW b \in Seq(C)
  PROVE  t \o b \in Seq(C) /\ Len(b) \in Nat /\ Extended(t \o b, t, b, Len(b))
<1>. DEFINE u == t \o b
<1>1. u \in Seq(C) /\ Joins(u, t, b)
  BY ConcatIs
<1>. HIDE DEF u
<1>2. Extended(u, t, b, Len(b))
  BY <1>1 DEF Joins, Extended
<1>. QED  BY <1>1, <1>2 DEF u, Joins

\* In two parts.
LEMMA ExtendedTwice ==
  ASSUME NEW C, NEW b \in Seq(C), NEW m \in 0 .. Len(b), NEW t, NEW v, NEW u, NEW n,
         Extended(v, t, b, m), Extended(u, v, SubSeq(b, m + 1, Len(b)), n)
  PROVE  Extended(u, t, b, m + n)
<1>. DEFINE c == SubSeq(b, m + 1, Len(b))
            l == Len(b)
<1>1. l \in Nat /\ m \in Nat /\ m <= l
  BY LenProperties
<1>2. Len(c) = l - m /\ \A k \in 1 .. l - m : c[k] = b[m + k]
  <2>. DEFINE j == m + 1
  <2>1. j \in 1 .. (l + 1) /\ l \in 0 .. l /\ j <= l + 1 /\ (l - j) + 1 = l - m
    BY <1>1
  <2>. HIDE DEF j
  <2>2. Len(SubSeq(b, j, l)) = (l - j) + 1
        /\ \A k \in 1 .. ((l - j) + 1) : SubSeq(b, j, l)[k] = b[(j + k) - 1]
    <3>. DEFINE e == l
    <3>1. e \in 0 .. Len(b) /\ j \in 1 .. (Len(b) + 1) /\ j <= e + 1
      BY <2>1
    <3>. HIDE DEF e
    <3>2. Len(SubSeq(b, j, e)) = (e - j) + 1
          /\ \A k \in 1 .. ((e - j) + 1) : SubSeq(b, j, e)[k] = b[(j + k) - 1]
      BY <3>1, PartOfText
    <3>. QED  BY <3>2 DEF e
  <2>3. \A k \in 1 .. l - m : (j + k) - 1 = m + k
    BY <1>1 DEF j
  <2>4. c = SubSeq(b, j, l)
    BY DEF j
  <2>. HIDE DEF c
  <2>. QED  BY <2>1, <2>2, <2>3, <2>4
<1>. HIDE DEF c
<1>3. /\ Len(t) \in Nat /\ Len(v) = Len(t) + m
      /\ \A k \in 1 .. Len(t) : v[k] = t[k]
      /\ \A k \in 1 .. m : v[Len(t) + k] = b[k]
  BY DEF Extended
<1>4. /\ n \in 0 .. l - m /\ Len(u) = Len(v) + n
      /\ \A k \in 1 .. Len(v) : u[k] = v[k]
      /\ \A k \in 1 .. n : u[Len(v) + k] = c[k]
  BY <1>2 DEF Extended, c
<1>. HIDE DEF l
<1>5. ASSUME NEW k \in 1 .. m + n PROVE u[Len(t) + k] = b[k]
  <2>1. CASE k \in 1 .. m
    <3>. DEFINE j == Len(t) + k
    <3>1. j \in 1 .. Len(v)
      BY <1>1, <1>3, <2>1
    <3>2. v[j] = b[k]
      BY <1>3, <2>1
    <3>. HIDE DEF j
    <3>3. u[j] = v[j]
      BY <1>4, <3>1
    <3>. QED  BY <3>2, <3>3 DEF j
  <2>2. CASE k \in m + 1 .. m + n
    <3>. DEFINE j == k - m
    <3>1. j \in 1 .. n /\ j \in 1 .. l - m /\ m + j = k /\ Len(v) + j = Len(t) + k
      BY <1>1, <1>3, <1>4, <2>2
    <3>. HIDE DEF j
    <3>. QED  BY <1>2, <1>4, <3>1
  <2>. QED  BY <1>1, <1>4, <2>1, <2>2
<1>6. \A k \in 1 .. Len(t) : u[k] = t[k]
  BY <1>1, <1>3, <1>4
<1>7. Len(u) = Len(t) + (m + n) /\ m + n \in 0 .. l
  BY <1>1, <1>3, <1>4
<1>. QED  BY <1>1, <1>3, <1>5, <1>6, <1>7 DEF Extended, l

\* What is beyond CAPACITY_MAX is cut.
Cut(u) == SubSeq(u, 1, Min({Len(u), CAPACITY_MAX}))

Room(t, b) == Min({Len(t) + Len(b), CAPACITY_MAX}) - Len(t)

LEMMA RoomIs ==
  ASSUME NEW C, NEW t \in Seq(C), NEW b \in Seq(C), Len(t) <= CAPACITY_MAX
  PROVE  /\ Len(t) \in Nat /\ Len(b) \in Nat /\ CAPACITY_MAX \in Nat
         /\ Room(t, b) \in 0 .. Len(b) /\ Len(t) + Room(t, b) <= CAPACITY_MAX
         /\ Min({Len(t) + Len(b), CAPACITY_MAX}) = Len(t) + Room(t, b)
         /\ Len(t) + Len(b) <= CAPACITY_MAX => Room(t, b) = Len(b)
         /\ ~(Len(t) + Len(b) <= CAPACITY_MAX) => Len(t) + Room(t, b) = CAPACITY_MAX
<1>. DEFINE m == Len(t)
            n == Len(b)
            a == m + n
            x == Min({a, CAPACITY_MAX})
<1>1. m \in Nat /\ n \in Nat /\ CAPACITY_MAX \in Nat /\ a \in Nat
  BY CapacityAssumption, LenProperties
<1>2. x = IF a <= CAPACITY_MAX THEN a ELSE CAPACITY_MAX
  <2>. HIDE DEF a
  <2>. QED  BY <1>1, MinOfTwo
<1>3. Room(t, b) = x - m
  BY DEF Room
<1>. HIDE DEF x
<1>4. x = m + Room(t, b)
  BY <1>1, <1>2, <1>3
<1>5. Room(t, b) \in 0 .. n /\ m + Room(t, b) <= CAPACITY_MAX
      /\ (a <= CAPACITY_MAX => Room(t, b) = n)
      /\ (~(a <= CAPACITY_MAX) => m + Room(t, b) = CAPACITY_MAX)
  BY <1>1, <1>2, <1>3
<1>. QED  BY <1>1, <1>4, <1>5 DEF x

LEMMA CutIs ==
  ASSUME NEW C, NEW t \in Seq(C), NEW b \in Seq(C), Len(t) <= CAPACITY_MAX
  PROVE  /\ Cut(t \o b) \in Seq(C) /\ Extended(Cut(t \o b), t, b, Room(t, b))
         /\ Len(Cut(t \o b)) <= CAPACITY_MAX
<1>. DEFINE u == t \o b
            r == Room(t, b)
            n == Len(t) + r
            v == SubSeq(u, 1, n)
<1>1. /\ Len(t) \in Nat /\ Len(b) \in Nat /\ CAPACITY_MAX \in Nat
      /\ r \in 0 .. Len(b) /\ n <= CAPACITY_MAX
      /\ Min({Len(t) + Len(b), CAPACITY_MAX}) = n
  BY RoomIs
<1>2. u \in Seq(C) /\ Extended(u, t, b, Len(b))
  BY ExtendedByAll
<1>. HIDE DEF u, r
<1>3. Len(u) = Len(t) + Len(b) /\ Cut(u) = v
  BY <1>1, <1>2 DEF Cut, Extended
<1>4. n \in 0 .. Len(u)
  BY <1>1, <1>3
<1>5. v \in Seq(C) /\ Len(v) = n /\ \A k \in 1 .. n : v[k] = u[k]
  <2>. HIDE DEF n
  <2>. QED  BY <1>2, <1>4, FirstPart
<1>. HIDE DEF v
<1>6. \A k \in 1 .. Len(t) : v[k] = t[k]
  BY <1>1, <1>2, <1>5 DEF Extended
<1>7. ASSUME NEW k \in 1 .. r PROVE v[Len(t) + k] = b[k]
  <2>. DEFINE j == Len(t) + k
  <2>1. j \in 1 .. n /\ k \in 1 .. Len(b)
    BY <1>1
  <2>2. u[j] = b[k]
    BY <1>2, <2>1 DEF Extended
  <2>. HIDE DEF j, n
  <2>. QED  BY <1>5, <2>1, <2>2 DEF j
<1>8. Extended(v, t, b, r)
  BY <1>1, <1>5, <1>6, <1>7 DEF Extended
<1>. QED  BY <1>1, <1>3, <1>5, <1>8 DEF u, r

LEMMA RepeatIs ==
  ASSUME NEW C, NEW c \in C, NEW n \in Int
  PROVE  /\ Repeat(c, n) \in Seq(C)
         /\ Len(Repeat(c, n)) = IF n >= 0 THEN n ELSE 0
         /\ \A k \in 1 .. Len(Repeat(c, n)) : Repeat(c, n)[k] = c
<1>1. CASE n >= 0
  BY <1>1 DEF Repeat
<1>2. CASE ~(n >= 0)
  <2>1. 1 .. n = 1 .. 0
    BY <1>2
  <2>2. [k \in 1 .. n |-> c] = [k \in 1 .. 0 |-> c]
    BY <2>1
  <2>3. [k \in 1 .. 0 |-> c] \in Seq(C) /\ Len([k \in 1 .. 0 |-> c]) = 0
    OBVIOUS
  <2>. QED  BY <1>2, <2>2, <2>3 DEF Repeat
<1>. QED  BY <1>1, <1>2

-----------------------------------------------------------------------------
(* The operations of a stream.                                              *)

\* Streams of characters of C.
Streams(C) ==
  [str_ : Seq(C), strOver_ : Seq(C), sizeOver_ : Nat, crashed : BOOLEAN]

\* The stream s holds t.
Holds(C, s, t) ==
  /\ s \in Streams(C) /\ ~s.crashed
  /\ t \in Seq(C) /\ c_str(s) = t
  /\ size(s) <= CAPACITY /\ size(s) <= Len(t) /\ s.sizeOver_ <= CAPACITY_MAX
  /\ Overflowed(s) => s.sizeOver_ = Len(t)

\* It holds memory that nobody has written, or has met a negative length.
Spoiled(C, s) ==
  /\ s \in Streams(C) /\ size(s) <= CAPACITY /\ Overflowed(s)
  /\ ~s.crashed => /\ s.sizeOver_ = Len(s.strOver_)
                   /\ \E k \in 1 .. Len(s.strOver_) : s.strOver_[k] = Junk

\* It has overflowed before and was cleared.
Cleared(s) == ~Overflowed(s) /\ s.sizeOver_ > 0

\* u is o with n as its sizeOver_ and, if that is not below the one it has, the
\* text b up to it.
Beyond(C, u, o, b, n) ==
  /\ u \in Streams(C) /\ u.str_ = o.str_ /\ u.sizeOver_ = n
  /\ n < o.sizeOver_ => u.crashed /\ u.strOver_ = o.strOver_
  /\ n >= o.sizeOver_ => /\ u.crashed = o.crashed
                         /\ Extended(u.strOver_, o.strOver_, b, n - o.sizeOver_)

LEMMA BeyondIs ==
  ASSUME NEW C, NEW o \in Streams(C), NEW b \in Seq(C), NEW n \in Nat,
         n - o.sizeOver_ <= Len(b)
  PROVE  Beyond(C, appendBeyond(o, b, n), o, b, n)
<1>. DEFINE u == appendBeyond(o, b, n)
            d == n - o.sizeOver_
<1>1. o.sizeOver_ \in Nat /\ o.strOver_ \in Seq(C) /\ o.str_ \in Seq(C) /\ o.crashed \in BOOLEAN
  BY DEF Streams
<1>2. CASE n < o.sizeOver_
  <2>1. u = [o EXCEPT !.sizeOver_ = n, !.crashed = TRUE]
    BY <1>2 DEF appendBeyond
  <2>2. /\ u \in Streams(C) /\ u.str_ = o.str_ /\ u.sizeOver_ = n
        /\ u.crashed /\ u.strOver_ = o.strOver_
    BY <2>1 DEF Streams
  <2>. HIDE DEF u
  <2>3. ~(n >= o.sizeOver_)
    BY <1>1, <1>2
  <2>4. Beyond(C, u, o, b, n)
    BY <2>2, <2>3, Zenon DEF Beyond
  <2>. QED  BY <2>4 DEF u
<1>3. CASE ~(n < o.sizeOver_)
  <2>. DEFINE v == o.strOver_ \o SubSeq(b, 1, d)
  <2>1. d \in 0 .. Len(b) /\ n >= o.sizeOver_
    BY <1>1, <1>3, LenProperties
  <2>2. v \in Seq(C) /\ Extended(v, o.strOver_, b, d)
    <3>. HIDE DEF d
    <3>. QED  BY <1>1, <2>1, ExtendedByPart
  <2>3. u = [o EXCEPT !.strOver_ = v, !.sizeOver_ = n]
    BY <1>3 DEF appendBeyond
  <2>. HIDE DEF v
  <2>4. /\ u \in Streams(C) /\ u.str_ = o.str_ /\ u.sizeOver_ = n
        /\ u.crashed = o.crashed /\ u.strOver_ = v
    BY <2>2, <2>3 DEF Streams
  <2>. HIDE DEF u
  <2>5. Beyond(C, u, o, b, n)
    BY <1>1, <1>3, <2>1, <2>2, <2>4 DEF Beyond
  <2>. QED  BY <2>5 DEF u
<1>. QED  BY <1>2, <1>3

\* What overflow() leaves.
Over(C, o, s) ==
  /\ o \in Streams(C) /\ o.str_ = s.str_ /\ o.crashed = s.crashed
  /\ o.sizeOver_ = s.sizeOver_ + size(s) /\ o.sizeOver_ = Len(o.strOver_)
  /\ s.sizeOver_ = 0 => o.strOver_ = s.str_
  /\ s.sizeOver_ > 0 => \E k \in 1 .. Len(o.strOver_) : o.strOver_[k] = Junk

LEMMA OverIs ==
  ASSUME NEW C, Junk \in C, NEW s \in Streams(C)
  PROVE  Over(C, overflow(s), s)
<1>. DEFINE n == s.sizeOver_
            a == s.str_
            r == Repeat(Junk, n)
            v == a \o r
            o == overflow(s)
<1>1. n \in Nat /\ a \in Seq(C) /\ s.crashed \in BOOLEAN
  BY DEF Streams
<1>2. r \in Seq(C) /\ Len(r) = n /\ \A k \in 1 .. n : r[k] = Junk
  <2>1. n \in Int /\ n >= 0
    BY <1>1
  <2>. HIDE DEF n
  <2>2. /\ r \in Seq(C) /\ Len(r) = (IF n >= 0 THEN n ELSE 0)
        /\ \A k \in 1 .. Len(r) : r[k] = Junk
    BY <2>1, RepeatIs
  <2>. HIDE DEF r
  <2>. QED  BY <2>1, <2>2
<1>. HIDE DEF r
<1>3. v \in Seq(C) /\ Joins(v, a, r)
  <2>. HIDE DEF a
  <2>. QED  BY <1>1, <1>2, ConcatIs
<1>4. o = [s EXCEPT !.strOver_ = v, !.sizeOver_ = n + Len(a)]
  BY DEF overflow, size, r
<1>. HIDE DEF v
<1>5. Len(a) \in Nat /\ Len(v) = Len(a) + n /\ \A k \in 1 .. n : v[Len(a) + k] = r[k]
  BY <1>2, <1>3 DEF Joins
<1>6. /\ o \in Streams(C) /\ o.str_ = a /\ o.crashed = s.crashed
      /\ o.sizeOver_ = n + Len(a) /\ o.strOver_ = v
  <2>. DEFINE e == n + Len(a)
  <2>1. e \in Nat /\ o = [s EXCEPT !.strOver_ = v, !.sizeOver_ = e]
    BY <1>1, <1>4, <1>5
  <2>. HIDE DEF e, o
  <2>. QED  BY <1>3, <2>1 DEF Streams, e
<1>7. n = 0 => v = a
  <2>. SUFFICES ASSUME n = 0 PROVE v = a
    OBVIOUS
  <2>1. Len(v) = Len(a) /\ \A k \in 1 .. Len(v) : v[k] = a[k]
    BY <1>1, <1>3, <1>5 DEF Joins
  <2>. QED  BY <1>1, <1>3, <2>1, SameText
<1>8. n > 0 => \E k \in 1 .. Len(v) : v[k] = Junk
  <2>. SUFFICES ASSUME n > 0 PROVE \E k \in 1 .. Len(v) : v[k] = Junk
    OBVIOUS
  <2>. DEFINE j == Len(a) + 1
  <2>1. 1 \in 1 .. n /\ j \in 1 .. Len(v)
    BY <1>1, <1>5
  <2>2. v[j] = Junk
    BY <1>2, <1>5, <2>1
  <2>. QED  BY <2>1, <2>2
<1>. HIDE DEF o
<1>9. size(s) = Len(a)
  BY DEF size
<1>10. Over(C, o, s)
  BY <1>1, <1>5, <1>6, <1>7, <1>8, <1>9 DEF Over
<1>. QED  BY <1>10 DEF o

\* A text that is not empty.
LEMMA NotEmpty ==
  ASSUME NEW C, NEW t \in Seq(C)
  PROVE  t # NoBuffer <=> Len(t) > 0
BY DEF NoBuffer

\* What fits is appended to the first buffer.
LEMMA FittedIs ==
  ASSUME NEW C, NEW s \in Streams(C), NEW v \in Seq(C)
  PROVE  LET f == [s EXCEPT !.str_ = v]
         IN  /\ f \in Streams(C) /\ f.str_ = v /\ f.strOver_ = s.strOver_
             /\ f.sizeOver_ = s.sizeOver_ /\ f.crashed = s.crashed
BY DEF Streams

LEMMA StreamFields ==
  ASSUME NEW C, NEW s \in Streams(C)
  PROVE  /\ s.str_ \in Seq(C) /\ s.strOver_ \in Seq(C) /\ s.sizeOver_ \in Nat
         /\ s.crashed \in BOOLEAN /\ size(s) \in Nat
BY LenProperties DEF Streams, size

\* next is s after b was appended to the t it held.
Appended(C, next, s, t, b) ==
  /\ IF Cleared(s) /\ Overflowed(next) THEN Spoiled(C, next)
                                       ELSE Holds(C, next, Cut(t \o b))
  /\ ~Overflowed(next) => ~Overflowed(s) /\ next.sizeOver_ = s.sizeOver_

LEMMA HoldsFields ==
  ASSUME NEW C, NEW s, NEW t, Holds(C, s, t)
  PROVE  /\ s \in Streams(C) /\ ~s.crashed /\ t \in Seq(C) /\ Len(t) \in Nat
         /\ s.str_ \in Seq(C) /\ s.strOver_ \in Seq(C) /\ s.sizeOver_ \in Nat /\ size(s) \in Nat
         /\ size(s) = Len(s.str_)
         /\ size(s) <= CAPACITY /\ size(s) <= Len(t) /\ s.sizeOver_ <= CAPACITY_MAX
         /\ CAPACITY \in Nat \ {0} /\ CAPACITY_MAX \in Nat /\ CAPACITY <= CAPACITY_MAX
         /\ Len(t) <= CAPACITY_MAX
         /\ Overflowed(s) => s.strOver_ = t /\ s.sizeOver_ = Len(t) /\ Len(t) > 0
         /\ ~Overflowed(s) => s.str_ = t /\ size(s) = Len(t) /\ s.strOver_ = NoBuffer
<1>1. s \in Streams(C) /\ ~s.crashed /\ t \in Seq(C) /\ Len(t) \in Nat
  BY LenProperties DEF Holds
<1>2. /\ s.str_ \in Seq(C) /\ s.strOver_ \in Seq(C) /\ s.sizeOver_ \in Nat /\ size(s) \in Nat
      /\ size(s) = Len(s.str_)
  BY <1>1, StreamFields DEF size
<1>3. /\ size(s) <= CAPACITY /\ size(s) <= Len(t) /\ s.sizeOver_ <= CAPACITY_MAX
      /\ CAPACITY \in Nat \ {0} /\ CAPACITY_MAX \in Nat /\ CAPACITY <= CAPACITY_MAX
  BY CapacityAssumption DEF Holds
<1>4. CASE Overflowed(s)
  <2>1. s.strOver_ = t /\ s.sizeOver_ = Len(t)
    BY <1>4 DEF Holds, c_str
  <2>2. t # NoBuffer
    BY <1>4, <2>1 DEF Overflowed
  <2>3. Len(t) > 0
    BY <1>1, <2>2, NotEmpty
  <2>4. Len(t) <= CAPACITY_MAX
    BY <1>3, <2>1
  <2>. QED  BY <1>1, <1>2, <1>3, <1>4, <2>1, <2>3, <2>4
<1>5. CASE ~Overflowed(s)
  <2>1. s.str_ = t
    BY <1>5 DEF Holds, c_str
  <2>2. s.strOver_ = NoBuffer
    BY <1>5 DEF Overflowed
  <2>3. size(s) = Len(t)
    BY <1>2, <2>1
  <2>4. Len(t) <= CAPACITY_MAX
    BY <1>1, <1>3, <2>3
  <2>. QED  BY <1>1, <1>2, <1>3, <1>5, <2>1, <2>2, <2>3, <2>4
<1>. QED  BY <1>4, <1>5

\* The heap buffer takes the text up to n.
LEMMA BeyondHolds ==
  ASSUME NEW C, NEW u, NEW o \in Streams(C), NEW b, NEW n \in Nat,
         Beyond(C, u, o, b, n), ~o.crashed, o.sizeOver_ = Len(o.strOver_),
         size(o) <= CAPACITY, size(o) <= o.sizeOver_, o.sizeOver_ <= n, n <= CAPACITY_MAX,
         n > 0
  PROVE  /\ Holds(C, u, u.strOver_) /\ Overflowed(u) /\ u.strOver_ \in Seq(C)
         /\ Extended(u.strOver_, o.strOver_, b, n - o.sizeOver_)
<1>1. o.sizeOver_ \in Nat /\ size(o) \in Nat
  BY StreamFields
<1>2. /\ u \in Streams(C) /\ u.str_ = o.str_ /\ u.sizeOver_ = n /\ u.crashed = o.crashed
      /\ Extended(u.strOver_, o.strOver_, b, n - o.sizeOver_)
  BY <1>1 DEF Beyond
<1>3. u.strOver_ \in Seq(C) /\ size(u) = size(o)
  BY <1>2, StreamFields DEF size
<1>4. Len(u.strOver_) = n
  BY <1>1, <1>2 DEF Extended
<1>5. Overflowed(u)
  <2>. DEFINE v == u.strOver_
  <2>1. v \in Seq(C) /\ Len(v) > 0
    BY <1>3, <1>4
  <2>. HIDE DEF v
  <2>2. v # NoBuffer
    BY <2>1, NotEmpty
  <2>. QED  BY <2>2 DEF Overflowed, v
<1>6. c_str(u) = u.strOver_
  BY <1>5 DEF c_str
<1>7. size(u) <= CAPACITY /\ size(u) <= Len(u.strOver_)
  BY <1>1, <1>3, <1>4
<1>8. Holds(C, u, u.strOver_)
  BY <1>2, <1>3, <1>4, <1>6, <1>7 DEF Holds
<1>. QED  BY <1>2, <1>3, <1>5, <1>8

LEMMA BeyondSpoils ==
  ASSUME NEW C, NEW u, NEW o, NEW b, NEW n \in Nat,
         Beyond(C, u, o, b, n), Spoiled(C, o)
  PROVE  Spoiled(C, u)
<1>1. o \in Streams(C) /\ size(o) <= CAPACITY /\ Overflowed(o)
  BY DEF Spoiled
<1>2. u \in Streams(C) /\ size(u) <= CAPACITY /\ u.sizeOver_ = n
  BY <1>1 DEF Beyond, size
<1>3. o.sizeOver_ \in Nat /\ o.strOver_ \in Seq(C) /\ o.crashed \in BOOLEAN
      /\ u.strOver_ \in Seq(C)
  BY <1>1, <1>2, StreamFields
<1>4. CASE n < o.sizeOver_
  <2>1. u.crashed /\ u.strOver_ = o.strOver_
    BY <1>4 DEF Beyond
  <2>2. Overflowed(u)
    BY <1>1, <2>1 DEF Overflowed
  <2>. QED  BY <1>2, <2>1, <2>2 DEF Spoiled
<1>5. CASE ~(n < o.sizeOver_)
  <2>. DEFINE d == n - o.sizeOver_
  <2>1. d \in Nat /\ n >= o.sizeOver_
    BY <1>3, <1>5
  <2>2. u.crashed = o.crashed /\ Extended(u.strOver_, o.strOver_, b, d)
    BY <2>1 DEF Beyond
  <2>. HIDE DEF d
  <2>3. /\ Len(o.strOver_) \in Nat /\ Len(u.strOver_) = Len(o.strOver_) + d
        /\ \A k \in 1 .. Len(o.strOver_) : u.strOver_[k] = o.strOver_[k]
    BY <2>2 DEF Extended
  <2>4. Overflowed(u)
    <3>1. o.strOver_ # NoBuffer
      BY <1>1 DEF Overflowed
    <3>2. Len(o.strOver_) > 0
      BY <1>3, <3>1, NotEmpty
    <3>3. Len(u.strOver_) > 0
      BY <2>1, <2>3, <3>2
    <3>4. u.strOver_ # NoBuffer
      BY <1>3, <3>3, NotEmpty
    <3>. QED  BY <3>4 DEF Overflowed
  <2>5. ASSUME ~u.crashed
        PROVE  /\ u.sizeOver_ = Len(u.strOver_)
               /\ \E k \in 1 .. Len(u.strOver_) : u.strOver_[k] = Junk
    <3>1. ~o.crashed
      BY <2>2, <2>5
    <3>2. o.sizeOver_ = Len(o.strOver_)
          /\ \E k \in 1 .. Len(o.strOver_) : o.strOver_[k] = Junk
      BY <3>1 DEF Spoiled
    <3>3. PICK k \in 1 .. Len(o.strOver_) : o.strOver_[k] = Junk
      BY <3>2
    <3>4. k \in 1 .. Len(u.strOver_) /\ u.strOver_[k] = Junk
      BY <2>1, <2>3, <3>3
    <3>5. Len(u.strOver_) = n
      BY <1>3, <2>3, <3>2 DEF d
    <3>. QED  BY <1>2, <3>4, <3>5
  <2>. QED  BY <1>2, <2>4, <2>5 DEF Spoiled
<1>. QED  BY <1>4, <1>5

\* A stream that overflows again is spoiled.
LEMMA OverSpoils ==
  ASSUME NEW C, NEW o, NEW s, Over(C, o, s), s.sizeOver_ \in Nat, s.sizeOver_ > 0,
         size(s) <= CAPACITY
  PROVE  Spoiled(C, o)
<1>1. /\ o \in Streams(C) /\ o.sizeOver_ = Len(o.strOver_) /\ o.str_ = s.str_
      /\ \E k \in 1 .. Len(o.strOver_) : o.strOver_[k] = Junk
  BY DEF Over
<1>2. o.strOver_ \in Seq(C) /\ Len(o.strOver_) \in Nat
  BY <1>1, StreamFields, LenProperties
<1>3. Len(o.strOver_) > 0
  BY <1>1, <1>2
<1>4. o.strOver_ # NoBuffer
  BY <1>2, <1>3, NotEmpty
<1>. QED  BY <1>1, <1>4 DEF Spoiled, Overflowed, size

LEMMA RestIs ==
  ASSUME NEW C, NEW o \in Streams(C), NEW b \in Seq(C)
  PROVE  LET n == Min({o.sizeOver_ + Len(b), CAPACITY_MAX})
         IN  /\ Beyond(C, appendRest(o, b), o, b, n)
             /\ n \in Nat /\ n <= CAPACITY_MAX /\ n <= o.sizeOver_ + Len(b)
             /\ n = IF o.sizeOver_ + Len(b) <= CAPACITY_MAX THEN o.sizeOver_ + Len(b)
                                                            ELSE CAPACITY_MAX
<1>. DEFINE a == o.sizeOver_ + Len(b)
            n == Min({a, CAPACITY_MAX})
<1>1. /\ o.sizeOver_ \in Nat /\ Len(b) \in Nat /\ CAPACITY_MAX \in Nat /\ a \in Nat
  BY StreamFields, CapacityAssumption, LenProperties
<1>2. n = IF a <= CAPACITY_MAX THEN a ELSE CAPACITY_MAX
  <2>. HIDE DEF a
  <2>. QED  BY <1>1, MinOfTwo
<1>3. appendRest(o, b) = appendBeyond(o, b, n)
  BY DEF appendRest
<1>. HIDE DEF n
<1>4. n \in Nat /\ n <= CAPACITY_MAX /\ n <= a /\ n - o.sizeOver_ <= Len(b)
  BY <1>1, <1>2
<1>5. Beyond(C, appendBeyond(o, b, n), o, b, n)
  BY <1>4, BeyondIs
<1>6. Beyond(C, appendRest(o, b), o, b, n)
  BY <1>3, <1>5
<1>. QED  BY <1>2, <1>4, <1>6 DEF n

\* What a stream holds after something was appended, in terms of what it held.
LEMMA HoldsCut ==
  ASSUME NEW C, NEW t \in Seq(C), NEW b \in Seq(C), Len(t) <= CAPACITY_MAX, NEW u, NEW v,
         Holds(C, u, v), Extended(v, t, b, Room(t, b))
  PROVE  Holds(C, u, Cut(t \o b))
<1>1. Cut(t \o b) \in Seq(C) /\ Extended(Cut(t \o b), t, b, Room(t, b))
  BY CutIs
<1>2. v \in Seq(C)
  BY DEF Holds
<1>. DEFINE w == Cut(t \o b)
            r == Room(t, b)
<1>3. w \in Seq(C) /\ Extended(w, t, b, r) /\ Extended(v, t, b, r)
  BY <1>1
<1>. HIDE DEF w, r
<1>4. v = w
  BY <1>2, <1>3, ExtensionIsUnique
<1>. QED  BY <1>4 DEF w

\* What fits is held by the first buffer.
LEMMA FittedHolds ==
  ASSUME NEW C, NEW s, NEW t, Holds(C, s, t), ~Overflowed(s),
         NEW v \in Seq(C), Len(v) <= CAPACITY
  PROVE  LET f == [s EXCEPT !.str_ = v]
         IN  Holds(C, f, v) /\ ~Overflowed(f) /\ f.sizeOver_ = s.sizeOver_ /\ size(f) = Len(v)
<1>. DEFINE f == [s EXCEPT !.str_ = v]
<1>1. s \in Streams(C) /\ ~s.crashed /\ s.sizeOver_ <= CAPACITY_MAX
  BY DEF Holds
<1>2. /\ f \in Streams(C) /\ f.str_ = v /\ f.strOver_ = s.strOver_
      /\ f.sizeOver_ = s.sizeOver_ /\ f.crashed = s.crashed
  BY <1>1, FittedIs
<1>. HIDE DEF f
<1>3. ~Overflowed(f) /\ size(f) = Len(v) /\ c_str(f) = v
  BY <1>2 DEF Overflowed, size, c_str
<1>4. Len(v) \in Nat
  BY LenProperties
<1>5. Holds(C, f, v)
  BY <1>1, <1>2, <1>3, <1>4 DEF Holds
<1>. QED  BY <1>2, <1>3, <1>5 DEF f

\* What is appended to a stream is added to what it holds, and cut; unless the
\* stream overflows again, which spoils it.
LEMMA AppendHolds ==
  ASSUME NEW C, Junk \in C, NEW s, NEW t, NEW b \in Seq(C), Holds(C, s, t)
  PROVE  Appended(C, append(s, b), s, t, b)
<1>1. /\ s \in Streams(C) /\ ~s.crashed /\ t \in Seq(C) /\ Len(t) \in Nat
      /\ s.str_ \in Seq(C) /\ s.strOver_ \in Seq(C) /\ s.sizeOver_ \in Nat /\ size(s) \in Nat
      /\ size(s) = Len(s.str_)
      /\ size(s) <= CAPACITY /\ size(s) <= Len(t) /\ s.sizeOver_ <= CAPACITY_MAX
      /\ CAPACITY \in Nat \ {0} /\ CAPACITY_MAX \in Nat /\ CAPACITY <= CAPACITY_MAX
      /\ Len(t) <= CAPACITY_MAX
      /\ Overflowed(s) => s.strOver_ = t /\ s.sizeOver_ = Len(t) /\ Len(t) > 0
      /\ ~Overflowed(s) => s.str_ = t /\ size(s) = Len(t) /\ s.strOver_ = NoBuffer
  BY HoldsFields
<1>. DEFINE r == Room(t, b)
            l == Len(t) + Len(b)
<1>2. /\ Len(b) \in Nat /\ r \in 0 .. Len(b) /\ Len(t) + r <= CAPACITY_MAX
      /\ l <= CAPACITY_MAX => r = Len(b)
      /\ ~(l <= CAPACITY_MAX) => Len(t) + r = CAPACITY_MAX
  <2>1. t \in Seq(C) /\ Len(t) <= CAPACITY_MAX
    BY <1>1
  <2>. QED  BY <2>1, RoomIs, Zenon
<1>. HIDE DEF r
<1>3. CASE Overflowed(s)
  <2>. DEFINE u == appendRest(s, b)
              n == Min({s.sizeOver_ + Len(b), CAPACITY_MAX})
  <2>1. append(s, b) = u
    BY <1>3 DEF append
  <2>2. /\ Beyond(C, u, s, b, n)
        /\ n \in Nat /\ n <= CAPACITY_MAX /\ n <= s.sizeOver_ + Len(b)
        /\ n = IF s.sizeOver_ + Len(b) <= CAPACITY_MAX THEN s.sizeOver_ + Len(b)
                                                       ELSE CAPACITY_MAX
    BY <1>1, RestIs
  <2>. HIDE DEF u, n
  <2>3. s.sizeOver_ = Len(t) /\ s.strOver_ = t /\ n = Len(t) + r /\ Len(t) > 0
    BY <1>1, <1>2, <1>3, <2>2
  <2>4. /\ Holds(C, u, u.strOver_) /\ Overflowed(u)
        /\ Extended(u.strOver_, s.strOver_, b, n - s.sizeOver_)
    <3>1. s.sizeOver_ = Len(s.strOver_) /\ size(s) <= s.sizeOver_ /\ s.sizeOver_ <= n /\ n > 0
      BY <1>1, <1>2, <2>3
    <3>. QED  BY <1>1, <2>2, <3>1, BeyondHolds
  <2>5. n - s.sizeOver_ = r
    BY <1>1, <1>2, <2>3
  <2>. DEFINE v == u.strOver_
  <2>6. Holds(C, u, v) /\ Extended(v, t, b, Room(t, b))
    BY <2>3, <2>4, <2>5 DEF r
  <2>. HIDE DEF v
  <2>7. Holds(C, u, Cut(t \o b))
    BY <1>1, <2>6, HoldsCut
  <2>8. ~Cleared(s)
    BY <1>3 DEF Cleared
  <2>9. Appended(C, u, s, t, b)
    BY <2>4, <2>7, <2>8 DEF Appended
  <2>. QED  BY <2>1, <2>9
<1>4. CASE ~Overflowed(s)
  <2>. DEFINE a == CAPACITY - size(s)
              m == Min({Len(b), a})
              v == s.str_ \o SubSeq(b, 1, m)
              f == [s EXCEPT !.str_ = v]
              c == SubSeq(b, m + 1, Len(b))
  <2>1. append(s, b) = IF Len(b) = m THEN f ELSE appendRest(overflow(f), c)
    BY <1>4 DEF append
  <2>2. a \in Nat /\ m = (IF Len(b) <= a THEN Len(b) ELSE a) /\ m \in 0 .. Len(b)
    <3>1. a \in Nat
      BY <1>1
    <3>. HIDE DEF a
    <3>2. m = IF Len(b) <= a THEN Len(b) ELSE a
      BY <1>2, <3>1, MinOfTwo
    <3>. HIDE DEF m
    <3>. QED  BY <1>2, <3>1, <3>2
  <2>. HIDE DEF m
  <2>3. v \in Seq(C) /\ Extended(v, t, b, m)
    BY <1>1, <1>4, <2>2, ExtendedByPart
  <2>. HIDE DEF v
  <2>4. Len(v) = Len(t) + m /\ Len(v) <= CAPACITY
    BY <1>1, <1>2, <1>4, <2>2, <2>3 DEF Extended
  <2>5. Holds(C, f, v) /\ ~Overflowed(f) /\ f.sizeOver_ = s.sizeOver_ /\ size(f) = Len(v)
    BY <1>4, <2>3, <2>4, FittedHolds
  <2>. HIDE DEF f
  <2>6. CASE Len(b) = m
    <3>1. r = m
      <4>1. l <= CAPACITY
        BY <2>4, <2>6
      <4>2. l \in Nat
        BY <1>1, <1>2
      <4>. HIDE DEF l
      <4>3. l <= CAPACITY_MAX
        BY <1>1, <4>1, <4>2
      <4>. QED  BY <1>2, <2>6, <4>3
    <3>2. Extended(v, t, b, Room(t, b))
      BY <2>3, <3>1 DEF r
    <3>3. Holds(C, f, Cut(t \o b))
      BY <1>1, <2>5, <3>2, HoldsCut
    <3>4. Appended(C, f, s, t, b)
      BY <1>4, <2>5, <3>3 DEF Appended
    <3>. QED  BY <2>1, <2>6, <3>4
  <2>7. CASE Len(b) # m
    <3>. DEFINE o == overflow(f)
                u == appendRest(o, c)
                n == Min({o.sizeOver_ + Len(c), CAPACITY_MAX})
    <3>1. append(s, b) = u
      BY <2>1, <2>7
    <3>2. f \in Streams(C) /\ ~f.crashed /\ size(f) = CAPACITY /\ f.str_ = v
      <4>1. m = a
        BY <2>2, <2>7
      <4>2. size(f) = CAPACITY
        <5>1. size(f) = Len(t) + m /\ Len(t) = size(s)
          BY <1>1, <1>4, <2>4, <2>5
        <5>2. size(s) \in Nat /\ CAPACITY \in Nat
          BY <1>1
        <5>. QED  BY <4>1, <5>1, <5>2
      <4>3. c_str(f) = v /\ f.str_ = v
        BY <2>5 DEF Holds, c_str
      <4>. QED  BY <2>5, <4>2, <4>3 DEF Holds
    <3>3. Over(C, o, f)
      BY <3>2, OverIs
    <3>4. c \in Seq(C) /\ Len(c) = Len(b) - m
      <4>. DEFINE j == m + 1
                  e == Len(b)
      <4>1. j \in 1 .. (Len(b) + 1) /\ e \in 0 .. Len(b) /\ j <= e + 1 /\ (e - j) + 1 = Len(b) - m
        BY <1>2, <2>2
      <4>2. c = SubSeq(b, j, e)
        OBVIOUS
      <4>. HIDE DEF j, e, c
      <4>3. SubSeq(b, j, e) \in Seq(C) /\ Len(SubSeq(b, j, e)) = (e - j) + 1
        BY <4>1, PartOfText
      <4>. QED  BY <4>1, <4>2, <4>3
    <3>. HIDE DEF o
    <3>5. /\ o \in Streams(C) /\ o.str_ = f.str_ /\ o.crashed = f.crashed
          /\ o.sizeOver_ = f.sizeOver_ + size(f) /\ o.sizeOver_ = Len(o.strOver_)
          /\ f.sizeOver_ = 0 => o.strOver_ = f.str_
      BY <3>3 DEF Over
    <3>. HIDE DEF c
    <3>6. /\ Beyond(C, u, o, c, n)
          /\ n \in Nat /\ n <= CAPACITY_MAX /\ n <= o.sizeOver_ + Len(c)
          /\ n = IF o.sizeOver_ + Len(c) <= CAPACITY_MAX THEN o.sizeOver_ + Len(c)
                                                         ELSE CAPACITY_MAX
      BY <3>4, <3>5, RestIs
    <3>. HIDE DEF u, n
    <3>7. CASE s.sizeOver_ > 0
      <4>1. Spoiled(C, o)
        BY <1>1, <2>5, <3>2, <3>3, <3>7, OverSpoils
      <4>2. Spoiled(C, u)
        BY <3>6, <4>1, BeyondSpoils
      <4>3. Overflowed(u)
        BY <4>2 DEF Spoiled
      <4>4. Cleared(s)
        BY <1>4, <3>7 DEF Cleared
      <4>5. Appended(C, u, s, t, b)
        BY <4>2, <4>3, <4>4 DEF Appended
      <4>. QED  BY <3>1, <4>5
    <3>8. CASE s.sizeOver_ = 0
      <4>1. o.strOver_ = v /\ o.sizeOver_ = CAPACITY /\ size(o) = CAPACITY /\ Len(v) = CAPACITY
        BY <1>1, <2>5, <3>2, <3>5, <3>8 DEF size
      <4>2. CAPACITY = Len(t) + m
        BY <2>4, <4>1
      <4>3. o.sizeOver_ + Len(c) = l /\ l \in Nat
        <5>1. Len(c) = Len(b) - m /\ o.sizeOver_ = CAPACITY
          BY <3>4, <4>1
        <5>2. Len(t) \in Nat /\ Len(b) \in Nat /\ m \in Nat
          BY <1>1, <1>2, <2>2
        <5>. QED  BY <4>2, <5>1, <5>2
      <4>4. n = IF l <= CAPACITY_MAX THEN l ELSE CAPACITY_MAX
        BY <3>6, <4>3
      <4>5. n = Len(t) + r
        <5>1. CASE l <= CAPACITY_MAX
          BY <1>2, <4>4, <5>1
        <5>2. CASE ~(l <= CAPACITY_MAX)
          <6>. HIDE DEF l
          <6>. QED  BY <1>2, <4>4, <5>2
        <5>. QED  BY <5>1, <5>2
      <4>6. m <= r
        <5>1. m \in Nat /\ r \in Nat /\ Len(t) \in Nat /\ m <= Len(b)
          BY <1>1, <1>2, <2>2
        <5>2. CASE l <= CAPACITY_MAX
          BY <1>2, <5>1, <5>2
        <5>3. CASE ~(l <= CAPACITY_MAX)
          <6>1. Len(t) + r = CAPACITY_MAX /\ Len(t) + m = CAPACITY /\ CAPACITY <= CAPACITY_MAX
                /\ CAPACITY \in Nat /\ CAPACITY_MAX \in Nat
            BY <1>1, <1>2, <4>2, <5>3
          <6>. HIDE DEF l
          <6>. QED  BY <5>1, <6>1
        <5>. QED  BY <5>2, <5>3
      <4>7. o.sizeOver_ <= n /\ n > 0 /\ n - CAPACITY = r - m
        <5>1. /\ m \in Nat /\ r \in Nat /\ Len(t) \in Nat /\ CAPACITY \in Nat \ {0}
              /\ o.sizeOver_ = CAPACITY
          BY <1>1, <1>2, <2>2, <4>1
        <5>. QED  BY <4>2, <4>5, <4>6, <5>1
      <4>8. /\ Holds(C, u, u.strOver_) /\ Overflowed(u) /\ u.strOver_ \in Seq(C)
            /\ Extended(u.strOver_, o.strOver_, c, n - o.sizeOver_)
        <5>1. size(o) <= CAPACITY /\ size(o) <= o.sizeOver_ /\ ~o.crashed
          BY <1>1, <3>2, <3>5, <4>1
        <5>. QED  BY <3>5, <3>6, <4>7, <5>1, BeyondHolds
      <4>. DEFINE w == u.strOver_
                  d == r - m
      <4>9. Holds(C, u, w) /\ Extended(w, v, SubSeq(b, m + 1, Len(b)), d)
        BY <4>1, <4>7, <4>8 DEF c
      <4>10. m + d = r
        BY <1>2, <2>2
      <4>. HIDE DEF w, d
      <4>11. Extended(w, t, b, m + d)
        BY <2>2, <2>3, <4>9, ExtendedTwice
      <4>12. Extended(w, t, b, Room(t, b))
        BY <4>10, <4>11 DEF r
      <4>13. Holds(C, u, Cut(t \o b))
        BY <1>1, <4>9, <4>12, HoldsCut
      <4>14. ~Cleared(s)
        BY <3>8 DEF Cleared
      <4>15. Appended(C, u, s, t, b)
        BY <4>8, <4>13, <4>14 DEF Appended
      <4>. QED  BY <3>1, <4>15
    <3>. QED  BY <1>1, <3>7, <3>8
  <2>. QED  BY <2>6, <2>7
<1>. QED  BY <1>3, <1>4

LEMMA OneCharacter ==
  ASSUME NEW C, NEW c \in C
  PROVE  <<c>> \in Seq(C) /\ Len(<<c>>) = 1 /\ <<c>>[1] = c
OBVIOUS

\* put writes behind what is there, in one buffer or the other, or nothing.
PutCase(C, u, s, c) ==
  \/ /\ ~Overflowed(s) /\ size(s) < CAPACITY
     /\ u = [s EXCEPT !.str_ = Append(@, c)]
  \/ \E o : /\ IF Overflowed(s) THEN o = s ELSE Over(C, o, s) /\ ~(size(s) < CAPACITY)
            /\ \/ o.sizeOver_ < CAPACITY_MAX /\ Beyond(C, u, o, <<c>>, o.sizeOver_ + 1)
               \/ ~(o.sizeOver_ < CAPACITY_MAX) /\ u = o

LEMMA PutIs ==
  ASSUME NEW C, Junk \in C, NEW s \in Streams(C), NEW c \in C
  PROVE  PutCase(C, put(s, c), s, c)
<1>. DEFINE o == IF Overflowed(s) THEN s ELSE overflow(s)
            u == put(s, c)
<1>1. CASE ~Overflowed(s) /\ size(s) < CAPACITY
  BY <1>1 DEF put, PutCase
<1>2. CASE ~(~Overflowed(s) /\ size(s) < CAPACITY)
  <2>1. IF Overflowed(s) THEN o = s ELSE Over(C, o, s) /\ ~(size(s) < CAPACITY)
    <3>1. Over(C, overflow(s), s)
      BY OverIs
    <3>. QED  BY <1>2, <3>1
  <2>2. o \in Streams(C)
    BY <2>1 DEF Over
  <2>3. u = IF o.sizeOver_ < CAPACITY_MAX THEN appendBeyond(o, <<c>>, o.sizeOver_ + 1) ELSE o
    BY <1>2 DEF put
  <2>. HIDE DEF o, u
  <2>4. \/ o.sizeOver_ < CAPACITY_MAX /\ Beyond(C, u, o, <<c>>, o.sizeOver_ + 1)
        \/ ~(o.sizeOver_ < CAPACITY_MAX) /\ u = o
    <3>1. CASE o.sizeOver_ < CAPACITY_MAX
      <4>. DEFINE b == <<c>>
                  n == o.sizeOver_ + 1
      <4>1. o.sizeOver_ \in Nat
        BY <2>2, StreamFields
      <4>2. b \in Seq(C) /\ n \in Nat /\ n - o.sizeOver_ <= Len(b)
        BY <4>1, OneCharacter
      <4>. HIDE DEF b, n
      <4>3. Beyond(C, appendBeyond(o, b, n), o, b, n)
        BY <2>2, <4>2, BeyondIs
      <4>. QED  BY <2>3, <3>1, <4>3 DEF b, n
    <3>2. CASE ~(o.sizeOver_ < CAPACITY_MAX)
      BY <2>3, <3>2
    <3>. QED  BY <3>1, <3>2
  <2>5. PutCase(C, u, s, c)
    BY <2>1, <2>4, Zenon DEF PutCase
  <2>. QED  BY <2>5 DEF u
<1>. QED  BY <1>1, <1>2

LEMMA PutIsStream ==
  ASSUME NEW C, Junk \in C, NEW s \in Streams(C), NEW c \in C
  PROVE  put(s, c) \in Streams(C)
<1>. DEFINE u == put(s, c)
<1>1. PutCase(C, u, s, c)
  BY PutIs
<1>. HIDE DEF u
<1>2. ASSUME u = [s EXCEPT !.str_ = Append(@, c)] PROVE u \in Streams(C)
  <2>1. s.str_ \in Seq(C)
    BY StreamFields
  <2>. DEFINE v == Append(s.str_, c)
  <2>2. v \in Seq(C) /\ u = [s EXCEPT !.str_ = v]
    BY <1>2, <2>1
  <2>. HIDE DEF v
  <2>. QED  BY <2>2, FittedIs
<1>3. ASSUME NEW o, IF Overflowed(s) THEN o = s ELSE Over(C, o, s),
             Beyond(C, u, o, <<c>>, o.sizeOver_ + 1) \/ u = o
      PROVE  u \in Streams(C)
  <2>1. o \in Streams(C)
    BY <1>3 DEF Over
  <2>. QED  BY <1>3, <2>1 DEF Beyond
<1>4. u \in Streams(C)
  <2>1. CASE ~Overflowed(s) /\ size(s) < CAPACITY /\ u = [s EXCEPT !.str_ = Append(@, c)]
    BY <1>2, <2>1
  <2>2. CASE \E o : /\ IF Overflowed(s) THEN o = s ELSE Over(C, o, s)
                    /\ Beyond(C, u, o, <<c>>, o.sizeOver_ + 1) \/ u = o
    <3>1. PICK o : /\ IF Overflowed(s) THEN o = s ELSE Over(C, o, s)
                   /\ Beyond(C, u, o, <<c>>, o.sizeOver_ + 1) \/ u = o
      BY <2>2, Zenon
    <3>. QED  BY <1>3, <3>1, Zenon
  <2>. QED  BY <1>1, <2>1, <2>2, Zenon DEF PutCase
<1>. QED  BY <1>4 DEF u

LEMMA PutSpoils ==
  ASSUME NEW C, Junk \in C, NEW s, NEW c \in C, Spoiled(C, s)
  PROVE  Spoiled(C, put(s, c))
<1>. DEFINE u == put(s, c)
            n == s.sizeOver_ + 1
<1>1. s \in Streams(C) /\ Overflowed(s)
  BY DEF Spoiled
<1>2. PutCase(C, u, s, c)
  BY <1>1, PutIs
<1>. HIDE DEF u
<1>3. Beyond(C, u, s, <<c>>, n) \/ u = s
  BY <1>1, <1>2 DEF PutCase
<1>4. n \in Nat
  BY <1>1, StreamFields
<1>. HIDE DEF n
<1>5. Spoiled(C, u)
  BY <1>3, <1>4, BeyondSpoils
<1>. QED  BY <1>5 DEF u

\* A character is put behind what a stream holds.
LEMMA PutHolds ==
  ASSUME NEW C, Junk \in C, NEW s, NEW t, NEW c \in C, Holds(C, s, t)
  PROVE  Appended(C, put(s, c), s, t, <<c>>)
<1>1. /\ s \in Streams(C) /\ ~s.crashed /\ t \in Seq(C) /\ Len(t) \in Nat
      /\ s.str_ \in Seq(C) /\ s.strOver_ \in Seq(C) /\ s.sizeOver_ \in Nat /\ size(s) \in Nat
      /\ size(s) = Len(s.str_)
      /\ size(s) <= CAPACITY /\ size(s) <= Len(t) /\ s.sizeOver_ <= CAPACITY_MAX
      /\ CAPACITY \in Nat \ {0} /\ CAPACITY_MAX \in Nat /\ CAPACITY <= CAPACITY_MAX
      /\ Len(t) <= CAPACITY_MAX
      /\ Overflowed(s) => s.strOver_ = t /\ s.sizeOver_ = Len(t) /\ Len(t) > 0
      /\ ~Overflowed(s) => s.str_ = t /\ size(s) = Len(t) /\ s.strOver_ = NoBuffer
  BY HoldsFields
<1>. DEFINE u == put(s, c)
            b == <<c>>
            r == Room(t, b)
<1>2. b \in Seq(C) /\ Len(b) = 1 /\ b[1] = c
  BY OneCharacter
<1>3. PutCase(C, u, s, c)
  BY <1>1, PutIs
<1>. HIDE DEF u, b
<1>4. r = IF Len(t) < CAPACITY_MAX THEN 1 ELSE 0
  <2>1. /\ r \in 0 .. Len(b) /\ Len(t) + r <= CAPACITY_MAX
        /\ Len(t) + Len(b) <= CAPACITY_MAX => r = Len(b)
        /\ ~(Len(t) + Len(b) <= CAPACITY_MAX) => Len(t) + r = CAPACITY_MAX
    <3>1. t \in Seq(C) /\ Len(t) <= CAPACITY_MAX
      BY <1>1
    <3>. QED  BY <1>2, <3>1, RoomIs, Zenon
  <2>. HIDE DEF r
  <2>. QED  BY <1>1, <1>2, <2>1
<1>. HIDE DEF r
\* The heap buffer o holds t and takes the character.
<1>5. ASSUME NEW o \in Streams(C), o.strOver_ = t, o.sizeOver_ = Len(t), ~o.crashed,
             size(o) <= CAPACITY, size(o) <= Len(t), Len(t) > 0,
             \/ o.sizeOver_ < CAPACITY_MAX /\ Beyond(C, u, o, b, o.sizeOver_ + 1)
             \/ ~(o.sizeOver_ < CAPACITY_MAX) /\ u = o
      PROVE  Holds(C, u, Cut(t \o b)) /\ Overflowed(u)
  <2>1. CASE o.sizeOver_ < CAPACITY_MAX
    <3>. DEFINE n == o.sizeOver_ + 1
    <3>1. Beyond(C, u, o, b, n)
      BY <1>5, <2>1
    <3>2. n \in Nat /\ n > 0 /\ o.sizeOver_ <= n /\ n <= CAPACITY_MAX /\ n - o.sizeOver_ = 1 /\ r = 1
      BY <1>1, <1>4, <1>5, <2>1
    <3>. HIDE DEF n
    <3>3. /\ Holds(C, u, u.strOver_) /\ Overflowed(u)
          /\ Extended(u.strOver_, o.strOver_, b, n - o.sizeOver_)
      BY <1>5, <3>1, <3>2, BeyondHolds
    <3>. DEFINE v == u.strOver_
    <3>4. Holds(C, u, v) /\ Extended(v, t, b, Room(t, b))
      BY <1>5, <3>2, <3>3 DEF r
    <3>. HIDE DEF v
    <3>5. Holds(C, u, Cut(t \o b))
      BY <1>1, <1>2, <3>4, HoldsCut
    <3>. QED  BY <3>3, <3>5
  <2>2. CASE ~(o.sizeOver_ < CAPACITY_MAX)
    <3>1. u = o /\ r = 0
      BY <1>4, <1>5, <2>2
    <3>2. Overflowed(u)
      <4>1. t # NoBuffer
        BY <1>1, <1>5, NotEmpty
      <4>. QED  BY <1>5, <3>1, <4>1 DEF Overflowed
    <3>3. Holds(C, u, t)
      <4>1. c_str(u) = t
        BY <1>5, <3>1, <3>2 DEF c_str
      <4>2. u.sizeOver_ <= CAPACITY_MAX
        BY <1>1, <1>5, <3>1
      <4>. QED  BY <1>1, <1>5, <3>1, <4>1, <4>2 DEF Holds
    <3>4. Extended(t, t, b, Room(t, b))
      BY <1>1, <1>2, <3>1 DEF Extended, r
    <3>5. Holds(C, u, Cut(t \o b))
      BY <1>1, <1>2, <3>3, <3>4, HoldsCut
    <3>. QED  BY <3>2, <3>5
  <2>. QED  BY <2>1, <2>2
<1>6. CASE Overflowed(s)
  <2>1. \/ s.sizeOver_ < CAPACITY_MAX /\ Beyond(C, u, s, b, s.sizeOver_ + 1)
        \/ ~(s.sizeOver_ < CAPACITY_MAX) /\ u = s
    BY <1>3, <1>6 DEF PutCase, b
  <2>2. Holds(C, u, Cut(t \o b)) /\ Overflowed(u)
    BY <1>1, <1>5, <1>6, <2>1
  <2>3. ~Cleared(s)
    BY <1>6 DEF Cleared
  <2>4. Appended(C, u, s, t, b)
    BY <2>2, <2>3 DEF Appended
  <2>. QED  BY <2>4 DEF u, b
<1>7. CASE ~Overflowed(s) /\ size(s) < CAPACITY
  <2>. DEFINE v == Append(s.str_, c)
              f == [s EXCEPT !.str_ = v]
  <2>1. u = f
    BY <1>3, <1>7 DEF PutCase
  <2>2. v \in Seq(C) /\ Len(v) = Len(t) + 1 /\ \A k \in 1 .. Len(t) : v[k] = t[k]
    BY <1>1, <1>7
  <2>3. v[Len(t) + 1] = c
    BY <1>1, <1>7
  <2>. HIDE DEF v
  <2>4. Len(v) <= CAPACITY
    BY <1>1, <1>7, <2>2
  <2>5. Holds(C, f, v) /\ ~Overflowed(f) /\ f.sizeOver_ = s.sizeOver_
    BY <1>7, <2>2, <2>4, FittedHolds
  <2>. HIDE DEF f
  <2>6. r = 1
    BY <1>1, <1>4, <1>7
  <2>7. Extended(v, t, b, Room(t, b))
    <3>1. Extended(v, t, b, 1)
      BY <1>1, <1>2, <2>2, <2>3 DEF Extended
    <3>. QED  BY <2>6, <3>1 DEF r
  <2>8. Holds(C, f, Cut(t \o b))
    BY <1>1, <1>2, <2>5, <2>7, HoldsCut
  <2>9. Appended(C, u, s, t, b)
    BY <1>7, <2>1, <2>5, <2>8 DEF Appended
  <2>. QED  BY <2>9 DEF u, b
<1>8. CASE ~Overflowed(s) /\ ~(size(s) < CAPACITY)
  <2>1. PICK o : /\ Over(C, o, s)
                 /\ \/ o.sizeOver_ < CAPACITY_MAX /\ Beyond(C, u, o, b, o.sizeOver_ + 1)
                    \/ ~(o.sizeOver_ < CAPACITY_MAX) /\ u = o
    BY <1>3, <1>8 DEF PutCase, b
  <2>2. /\ o \in Streams(C) /\ o.str_ = s.str_ /\ o.crashed = s.crashed
        /\ o.sizeOver_ = s.sizeOver_ + size(s) /\ o.sizeOver_ = Len(o.strOver_)
        /\ s.sizeOver_ = 0 => o.strOver_ = s.str_
    BY <2>1 DEF Over
  <2>3. CASE s.sizeOver_ > 0
    <3>1. Spoiled(C, o)
      BY <1>1, <2>1, <2>3, OverSpoils
    <3>. DEFINE n == o.sizeOver_ + 1
    <3>2. n \in Nat
      BY <2>2, StreamFields
    <3>3. Beyond(C, u, o, b, n) \/ u = o
      BY <2>1
    <3>. HIDE DEF n
    <3>4. Spoiled(C, u)
      BY <3>1, <3>2, <3>3, BeyondSpoils
    <3>5. Overflowed(u) /\ Cleared(s)
      BY <1>8, <2>3, <3>4 DEF Spoiled, Cleared
    <3>6. Appended(C, u, s, t, b)
      BY <3>4, <3>5 DEF Appended
    <3>. QED  BY <3>6 DEF u, b
  <2>4. CASE s.sizeOver_ = 0
    <3>1. o.strOver_ = t /\ o.sizeOver_ = Len(t) /\ size(o) = size(s) /\ Len(t) > 0 /\ ~o.crashed
      BY <1>1, <1>8, <2>2, <2>4 DEF size
    <3>2. Holds(C, u, Cut(t \o b)) /\ Overflowed(u)
      <4>1. size(o) <= CAPACITY /\ size(o) <= Len(t)
        BY <1>1, <3>1
      <4>. QED  BY <1>5, <2>1, <2>2, <3>1, <4>1
    <3>3. ~Cleared(s)
      BY <2>4 DEF Cleared
    <3>4. Appended(C, u, s, t, b)
      BY <3>2, <3>3 DEF Appended
    <3>. QED  BY <3>4 DEF u, b
  <2>. QED  BY <1>1, <2>3, <2>4
<1>. QED  BY <1>6, <1>7, <1>8

\* A column that is behind in the heap buffer, but not in the first one.
BehindInHeap(s, pos) == Overflowed(s) /\ size(s) <= pos /\ pos < length(s)

\* A stream is filled up to a column.
LEMMA AppendUpToHolds ==
  ASSUME NEW C, Junk \in C, NEW s, NEW t, NEW c \in C, NEW pos \in Nat, Holds(C, s, t)
  PROVE  LET b == Repeat(c, pos - Len(t))
         IN  IF BehindInHeap(s, pos)
             THEN Spoiled(C, appendUpTo(s, pos, c)) /\ appendUpTo(s, pos, c).crashed
             ELSE Appended(C, appendUpTo(s, pos, c), s, t, b)
<1>1. /\ s \in Streams(C) /\ ~s.crashed /\ t \in Seq(C) /\ Len(t) \in Nat
      /\ s.str_ \in Seq(C) /\ s.strOver_ \in Seq(C) /\ s.sizeOver_ \in Nat /\ size(s) \in Nat
      /\ size(s) = Len(s.str_)
      /\ size(s) <= CAPACITY /\ size(s) <= Len(t) /\ s.sizeOver_ <= CAPACITY_MAX
      /\ CAPACITY \in Nat \ {0} /\ CAPACITY_MAX \in Nat /\ CAPACITY <= CAPACITY_MAX
      /\ Len(t) <= CAPACITY_MAX
      /\ Overflowed(s) => s.strOver_ = t /\ s.sizeOver_ = Len(t) /\ Len(t) > 0
      /\ ~Overflowed(s) => s.str_ = t /\ size(s) = Len(t) /\ s.strOver_ = NoBuffer
  BY HoldsFields
<1>. DEFINE u == appendUpTo(s, pos, c)
            z == pos - Len(t)
            b == Repeat(c, z)
            r == Room(t, b)
            N == Min({pos, CAPACITY_MAX})
<1>2. /\ b \in Seq(C) /\ Len(b) = (IF z >= 0 THEN z ELSE 0) /\ \A k \in 1 .. Len(b) : b[k] = c
  <2>1. z \in Int
    BY <1>1
  <2>. HIDE DEF z
  <2>. QED  BY <2>1, RepeatIs
<1>. HIDE DEF u, b
<1>12. /\ r \in 0 .. Len(b) /\ Len(t) + r <= CAPACITY_MAX
       /\ Len(t) + Len(b) <= CAPACITY_MAX => r = Len(b)
       /\ ~(Len(t) + Len(b) <= CAPACITY_MAX) => Len(t) + r = CAPACITY_MAX
  <2>1. b \in Seq(C) /\ t \in Seq(C) /\ Len(t) <= CAPACITY_MAX
    BY <1>1, <1>2
  <2>. QED  BY <2>1, RoomIs
<1>. HIDE DEF r
<1>3. N = (IF pos <= CAPACITY_MAX THEN pos ELSE CAPACITY_MAX) /\ N \in Nat
  <2>1. N = IF pos <= CAPACITY_MAX THEN pos ELSE CAPACITY_MAX
    BY <1>1, MinOfTwo
  <2>. HIDE DEF N
  <2>. QED  BY <1>1, <2>1
<1>4. pos >= Len(t) => Len(b) = pos - Len(t) /\ Len(t) + r = N
  <2>. SUFFICES ASSUME pos >= Len(t) PROVE Len(b) = pos - Len(t) /\ Len(t) + r = N
    OBVIOUS
  <2>1. Len(b) = pos - Len(t) /\ Len(t) + Len(b) = pos
    BY <1>1, <1>2
  <2>. HIDE DEF N
  <2>3. CASE pos <= CAPACITY_MAX
    BY <1>3, <1>12, <2>1, <2>3
  <2>4. CASE ~(pos <= CAPACITY_MAX)
    BY <1>3, <1>12, <2>1, <2>4
  <2>. QED  BY <2>1, <2>3, <2>4
<1>. DEFINE over == IF Overflowed(s) THEN s ELSE overflow(s)
<1>5. u = IF pos < size(s) THEN s
          ELSE IF ~Overflowed(s) /\ pos < CAPACITY
          THEN [s EXCEPT !.str_ = @ \o Repeat(c, pos - size(s))]
          ELSE appendBeyond(over, Repeat(c, N - over.sizeOver_), N)
  BY DEF appendUpTo, u
<1>. HIDE DEF N
\* The heap buffer o is filled up to N.
<1>6. ASSUME NEW o \in Streams(C), u = appendBeyond(o, Repeat(c, N - o.sizeOver_), N)
      PROVE  /\ Beyond(C, u, o, Repeat(c, N - o.sizeOver_), N)
             /\ o.sizeOver_ \in Nat
  <2>. DEFINE d == N - o.sizeOver_
              e == Repeat(c, d)
  <2>1. o.sizeOver_ \in Nat /\ d \in Int
    BY <1>3, StreamFields
  <2>2. e \in Seq(C) /\ d <= Len(e)
    <3>. HIDE DEF d
    <3>1. e \in Seq(C) /\ Len(e) = (IF d >= 0 THEN d ELSE 0)
      BY <2>1, RepeatIs
    <3>. HIDE DEF e
    <3>. QED  BY <2>1, <3>1
  <2>3. u = appendBeyond(o, e, N) /\ N - o.sizeOver_ <= Len(e)
    BY <1>6, <2>2
  <2>. HIDE DEF e, d
  <2>4. Beyond(C, appendBeyond(o, e, N), o, e, N)
    BY <1>3, <2>2, <2>3, BeyondIs
  <2>5. Beyond(C, u, o, e, N)
    BY <2>3, <2>4
  <2>. QED  BY <2>1, <2>5 DEF e, d
\* If o holds t, then what is filled is behind it.
<1>7. ASSUME NEW o \in Streams(C), o.strOver_ = t, o.sizeOver_ = Len(t), ~o.crashed,
             size(o) <= CAPACITY, size(o) <= Len(t), pos >= Len(t), pos > 0,
             u = appendBeyond(o, Repeat(c, N - o.sizeOver_), N)
      PROVE  Holds(C, u, Cut(t \o b)) /\ Overflowed(u)
  <2>. DEFINE d == N - o.sizeOver_
              e == Repeat(c, d)
              v == u.strOver_
  <2>1. Beyond(C, u, o, e, N)
    BY <1>6, <1>7
  <2>2. N >= Len(t) /\ N <= CAPACITY_MAX /\ N > 0 /\ d = r /\ d \in Nat
    <3>1. Len(t) <= N /\ N <= CAPACITY_MAX /\ N > 0
      BY <1>1, <1>3, <1>7
    <3>2. Len(t) + r = N /\ d = N - Len(t)
      BY <1>4, <1>7
    <3>3. r \in Int
      <4>1. r \in 0 .. Len(b)
        BY <1>12
      <4>. QED  BY <4>1
    <3>. HIDE DEF d
    <3>. QED  BY <1>1, <1>3, <3>1, <3>2, <3>3
  <2>3. e \in Seq(C) /\ Len(e) = d /\ \A k \in 1 .. Len(e) : e[k] = c
    <3>1. d \in Int /\ d >= 0
      BY <2>2
    <3>. HIDE DEF d
    <3>2. e \in Seq(C) /\ Len(e) = (IF d >= 0 THEN d ELSE 0) /\ \A k \in 1 .. Len(e) : e[k] = c
      BY <3>1, RepeatIs
    <3>. HIDE DEF e
    <3>. QED  BY <3>1, <3>2
  <2>. HIDE DEF e
  <2>4. /\ Holds(C, u, v) /\ Overflowed(u)
        /\ Extended(v, t, e, d)
    <3>1. o.sizeOver_ = Len(o.strOver_) /\ size(o) <= o.sizeOver_ /\ o.sizeOver_ <= N
      BY <1>7, <2>2
    <3>2. Holds(C, u, u.strOver_) /\ Overflowed(u)
          /\ Extended(u.strOver_, o.strOver_, e, N - o.sizeOver_)
      BY <1>3, <1>7, <2>1, <2>2, <3>1, BeyondHolds
    <3>. QED  BY <1>7, <3>2
  <2>. HIDE DEF v
  <2>5. Extended(v, t, b, Room(t, b))
    <3>1. d \in 0 .. Len(b)
      BY <1>12, <2>2
    <3>. HIDE DEF d
    <3>2. \A k \in 1 .. d : e[k] = b[k]
      <4>1. Len(b) \in Nat
        BY <1>2, LenProperties
      <4>. QED  BY <1>2, <2>3, <3>1, <4>1
    <3>3. Extended(v, t, b, d)
      <4>1. Len(b) \in Nat
        BY <1>2, LenProperties
      <4>2. /\ Len(t) \in Nat /\ Len(v) = Len(t) + d
            /\ \A k \in 1 .. Len(t) : v[k] = t[k]
            /\ \A k \in 1 .. d : v[Len(t) + k] = e[k]
        BY <2>4 DEF Extended
      <4>. QED  BY <3>1, <3>2, <4>1, <4>2 DEF Extended
    <3>. QED  BY <2>2, <3>3 DEF r
  <2>6. Holds(C, u, Cut(t \o b))
    BY <1>1, <1>2, <2>4, <2>5, HoldsCut
  <2>. QED  BY <2>4, <2>6
<1>8. CASE pos < size(s)
  <2>1. u = s /\ ~BehindInHeap(s, pos)
    <3>1. ~(size(s) <= pos)
      BY <1>1, <1>8
    <3>. QED  BY <1>5, <1>8, <3>1 DEF BehindInHeap
  <2>2. Len(b) = 0 /\ ~(z >= 0)
    <3>1. ~(z >= 0)
      BY <1>1, <1>8
    <3>. QED  BY <1>2, <3>1
  <2>3. r = 0
    BY <1>12, <2>2
  <2>4. Extended(t, t, b, Room(t, b))
    BY <1>1, <2>2, <2>3 DEF Extended, r
  <2>5. Holds(C, s, Cut(t \o b))
    BY <1>1, <1>2, <2>4, HoldsCut
  <2>6. ~(Cleared(s) /\ Overflowed(s))
    BY DEF Cleared
  <2>7. Appended(C, u, s, t, b)
    BY <2>1, <2>5, <2>6 DEF Appended
  <2>. QED  BY <2>1, <2>7 DEF u, b
<1>9. CASE ~(pos < size(s)) /\ ~Overflowed(s) /\ pos < CAPACITY
  <2>. DEFINE v == t \o b
              f == [s EXCEPT !.str_ = v]
  <2>1. Len(t) = size(s) /\ pos >= Len(t) /\ s.str_ = t
    BY <1>1, <1>9
  <2>2. u = f
    BY <1>5, <1>9, <2>1 DEF b
  <2>3. Len(b) = pos - Len(t) /\ Len(t) + r = N /\ N = pos
    BY <1>1, <1>3, <1>4, <1>9, <2>1
  <2>4. r = Len(b)
    <3>1. r \in 0 .. Len(b) /\ Len(b) \in Nat
      BY <1>2, <1>12, LenProperties
    <3>. QED  BY <1>1, <2>3, <3>1
  <2>5. v \in Seq(C) /\ Extended(v, t, b, Len(b))
    BY <1>1, <1>2, ExtendedByAll
  <2>. HIDE DEF v
  <2>6. Len(v) = pos
    BY <1>1, <2>3, <2>5 DEF Extended
  <2>7. Holds(C, f, v) /\ ~Overflowed(f) /\ f.sizeOver_ = s.sizeOver_
    <3>1. Len(v) <= CAPACITY
      BY <1>1, <1>9, <2>6
    <3>. QED  BY <1>9, <2>5, <3>1, FittedHolds
  <2>. HIDE DEF f
  <2>8. Holds(C, f, Cut(t \o b))
    <3>1. Extended(v, t, b, Room(t, b))
      BY <2>4, <2>5 DEF r
    <3>. QED  BY <1>1, <1>2, <2>7, <3>1, HoldsCut
  <2>9. Appended(C, u, s, t, b)
    BY <1>9, <2>2, <2>7, <2>8 DEF Appended
  <2>10. ~BehindInHeap(s, pos)
    BY <1>9 DEF BehindInHeap
  <2>. QED  BY <2>9, <2>10 DEF u, b
<1>10. CASE ~(pos < size(s)) /\ ~Overflowed(s) /\ ~(pos < CAPACITY)
  <2>. DEFINE o == overflow(s)
  <2>0. ~BehindInHeap(s, pos)
    BY <1>10 DEF BehindInHeap
  <2>1. u = appendBeyond(o, Repeat(c, N - o.sizeOver_), N)
    BY <1>5, <1>10
  <2>2. Over(C, o, s)
    BY <1>1, OverIs
  <2>. HIDE DEF o
  <2>3. /\ o \in Streams(C) /\ o.str_ = s.str_ /\ o.crashed = s.crashed
        /\ o.sizeOver_ = s.sizeOver_ + size(s) /\ o.sizeOver_ = Len(o.strOver_)
        /\ s.sizeOver_ = 0 => o.strOver_ = s.str_
    BY <2>2 DEF Over
  <2>4. CASE s.sizeOver_ > 0
    <3>1. Spoiled(C, o)
      BY <1>1, <2>2, <2>4, OverSpoils
    <3>2. Beyond(C, u, o, Repeat(c, N - o.sizeOver_), N)
      BY <1>6, <2>1, <2>3
    <3>3. Spoiled(C, u)
      BY <1>3, <3>1, <3>2, BeyondSpoils
    <3>4. Overflowed(u) /\ Cleared(s)
      BY <1>10, <2>4, <3>3 DEF Spoiled, Cleared
    <3>5. Appended(C, u, s, t, b)
      BY <3>3, <3>4 DEF Appended
    <3>. QED  BY <2>0, <3>5 DEF u, b
  <2>5. CASE s.sizeOver_ = 0
    <3>1. o.strOver_ = t /\ o.sizeOver_ = Len(t) /\ size(o) = size(s) /\ ~o.crashed
      BY <1>1, <1>10, <2>3, <2>5 DEF size
    <3>2. size(o) <= CAPACITY /\ size(o) <= Len(t) /\ pos >= Len(t) /\ pos > 0
      BY <1>1, <1>10, <3>1
    <3>3. Holds(C, u, Cut(t \o b)) /\ Overflowed(u)
      BY <1>7, <2>1, <2>3, <3>1, <3>2
    <3>4. ~Cleared(s)
      BY <2>5 DEF Cleared
    <3>5. Appended(C, u, s, t, b)
      BY <3>3, <3>4 DEF Appended
    <3>. QED  BY <2>0, <3>5 DEF u, b
  <2>. QED  BY <1>1, <2>4, <2>5
<1>11. CASE ~(pos < size(s)) /\ Overflowed(s)
  <2>1. u = appendBeyond(s, Repeat(c, N - s.sizeOver_), N)
    BY <1>5, <1>11
  <2>2. length(s) = Len(t) /\ s.sizeOver_ = Len(t) /\ s.strOver_ = t
    BY <1>1, <1>11 DEF length
  <2>3. CASE pos < Len(t)
    <3>1. BehindInHeap(s, pos)
      <4>1. size(s) <= pos
        BY <1>1, <1>11
      <4>. QED  BY <1>11, <2>2, <2>3, <4>1 DEF BehindInHeap
    <3>2. Beyond(C, u, s, Repeat(c, N - s.sizeOver_), N)
      BY <1>1, <1>6, <2>1
    <3>3. N < s.sizeOver_
      BY <1>1, <1>3, <2>2, <2>3
    <3>4. u \in Streams(C) /\ u.str_ = s.str_ /\ u.crashed /\ u.strOver_ = s.strOver_
      BY <3>2, <3>3, Zenon DEF Beyond
    <3>5. Spoiled(C, u)
      BY <1>1, <1>11, <3>4 DEF Spoiled, Overflowed, size
    <3>. QED  BY <3>1, <3>4, <3>5 DEF u
  <2>4. CASE ~(pos < Len(t))
    <3>1. ~BehindInHeap(s, pos)
      BY <2>2, <2>4 DEF BehindInHeap
    <3>2. pos >= Len(t) /\ pos > 0
      BY <1>1, <1>11, <2>4
    <3>3. Holds(C, u, Cut(t \o b)) /\ Overflowed(u)
      BY <1>1, <1>7, <1>11, <2>1, <2>2, <3>2
    <3>4. ~Cleared(s)
      BY <1>11 DEF Cleared
    <3>5. Appended(C, u, s, t, b)
      BY <3>3, <3>4 DEF Appended
    <3>. QED  BY <3>1, <3>5 DEF u, b
  <2>. QED  BY <2>3, <2>4
<1>. QED  BY <1>8, <1>9, <1>10, <1>11

\* clear() empties a stream, but sizeOver_ stays.
LEMMA ClearHolds ==
  ASSUME NEW C, NEW s, NEW t, Holds(C, s, t)
  PROVE  Holds(C, clear(s), << >>)
<1>. DEFINE u == clear(s)
<1>1. s \in Streams(C) /\ ~s.crashed /\ s.sizeOver_ <= CAPACITY_MAX /\ CAPACITY \in Nat
  BY CapacityAssumption DEF Holds
<1>. DEFINE e == << >>
<1>2. e \in Seq(C) /\ Len(e) = 0
  OBVIOUS
<1>3. u = [s EXCEPT !.str_ = e, !.strOver_ = e]
  BY DEF clear, NoBuffer
<1>4. e = NoBuffer
  BY DEF NoBuffer
<1>. HIDE DEF u, e
<1>5. /\ u \in Streams(C) /\ u.str_ = e /\ u.strOver_ = e
      /\ u.sizeOver_ = s.sizeOver_ /\ u.crashed = s.crashed
  BY <1>1, <1>2, <1>3 DEF Streams
<1>6. ~Overflowed(u) /\ c_str(u) = e /\ size(u) = 0
  BY <1>2, <1>4, <1>5 DEF Overflowed, c_str, size
<1>7. Holds(C, u, e)
  BY <1>1, <1>2, <1>5, <1>6 DEF Holds
<1>. QED  BY <1>7 DEF u, e

\* putAll puts one character after the other.
LEMMA PutAllFolds ==
  ASSUME NEW C, Junk \in C, NEW s \in Streams(C), NEW b \in Seq(C)
  PROVE  \E w \in [0 .. Len(b) -> Streams(C)] :
           /\ w[0] = s
           /\ \A k \in 0 .. Len(b) : k < Len(b) => w[k + 1] = put(w[k], b[k + 1])
           /\ putAll(s, b) = w[Len(b)]
<1>. DEFINE V    == Streams(C)
            L    == Len(b)
            all  == DOMAIN b
            sets == SUBSET all
            Turn(g, x) == IF x = {} THEN s ELSE put(g[x \ {Max(x)}], b[Max(x)])
            iter == CHOOSE g : g = [x \in sets |-> Turn(g, x)]
            step == [x \in V \X (1 .. L) |-> put(x[1], b[x[2]])]
<1>1. putAll(s, b) = iter[all]
  BY Zenon DEF putAll, FoldLeft, MapThenFoldSet
<1>2. L \in Nat /\ all = 1 .. L
  BY LenProperties
<1>3. \A k \in 1 .. L : b[k] \in C
  BY <1>2, ElementOfSeq
<1>4. step \in [V \X (1 .. L) -> V]
  <2>1. ASSUME NEW v \in V, NEW k \in 1 .. L PROVE put(v, b[k]) \in V
    <3>. HIDE DEF V
    <3>1. b[k] \in C
      BY <1>3
    <3>. QED  BY <3>1, PutIsStream DEF V
  <2>. HIDE DEF V, L
  <2>. QED  BY <2>1
<1>5. PICK f \in [sets -> V] : IsFold(f, L, s, step)
  <2>0. s \in V
    OBVIOUS
  <2>. HIDE DEF L, step, V
  <2>1. \E g \in [SUBSET (1 .. L) -> V] : IsFold(g, L, s, step)
    BY <1>2, <1>4, <2>0, FoldHasSolution
  <2>. HIDE DEF all
  <2>. QED  BY <1>2, <2>1
<1>6. ASSUME NEW x \in sets PROVE f[x] = Turn(f, x)
  <2>0. f[x] = IF x = {} THEN s ELSE step[<<f[x \ {Max(x)}], Max(x)>>]
    <3>. HIDE DEF step
    <3>. QED  BY <1>2, <1>5 DEF IsFold
  <2>1. CASE x = {}
    BY <2>0, <2>1
  <2>2. CASE x # {}
    <3>1. Max(x) \in x
      <4>1. x \in SUBSET Nat /\ x \subseteq 1 .. L
        BY <1>2
      <4>. QED  BY <1>2, <2>2, <4>1, MaxIsGreatest
    <3>2. Max(x) \in 1 .. L /\ f[x \ {Max(x)}] \in V
      BY <1>2, <3>1
    <3>. DEFINE m == Max(x)
                y == f[x \ {m}]
    <3>3. m \in 1 .. L /\ y \in V /\ f[x] = step[<<y, m>>]
      BY <2>0, <2>2, <3>2
    <3>. HIDE DEF m, y, V, L
    <3>4. step[<<y, m>>] = put(y, b[m])
      BY <3>3
    <3>. QED  BY <2>2, <3>3, <3>4 DEF m, y
  <2>. QED  BY <2>1, <2>2
<1>7. f = [x \in sets |-> Turn(f, x)]
  <2>1. f = [x \in sets |-> f[x]]
    OBVIOUS
  <2>. HIDE DEF Turn
  <2>. QED  BY <1>6, <2>1
<1>8. iter = [x \in sets |-> Turn(iter, x)]
  <2>. HIDE DEF Turn
  <2>. QED  BY <1>7, Zenon
<1>. HIDE DEF iter
<1>9. \A x \in sets : iter[x] = Turn(iter, x)
  <2>. HIDE DEF Turn
  <2>. QED  BY <1>8, Zenon
<1>. DEFINE w == [k \in 0 .. L |-> iter[1 .. k]]
<1>10. w[0] = s
  <2>1. 1 .. 0 = {} /\ {} \in sets /\ 0 \in 0 .. L
    BY <1>2
  <2>2. iter[{}] = s
    BY <1>9, <2>1
  <2>. QED  BY <2>1, <2>2
<1>11. ASSUME NEW k \in 0 .. L, k < L
       PROVE  w[k + 1] = put(w[k], b[k + 1])
  <2>. DEFINE x == 1 .. (k + 1)
              m == k + 1
  <2>1. x \in sets /\ x # {} /\ Max(x) = m /\ x \ {m} = 1 .. k /\ m \in 0 .. L
    BY <1>2, <1>11, FrontOfNumbers
  <2>. HIDE DEF m, x
  <2>2. iter[x] = put(iter[1 .. k], b[m])
    BY <1>9, <2>1
  <2>. QED  BY <2>1, <2>2 DEF m, x
<1>12. \A k \in 0 .. L : w[k] \in V
  <2>. DEFINE T == {k \in 0 .. L : w[k] \in V}
  <2>. HIDE DEF w
  <2>1. 0 \in T
    BY <1>2, <1>10
  <2>2. ASSUME NEW k \in T, k < L PROVE k + 1 \in T
    <3>1. k + 1 \in 1 .. L /\ k \in 0 .. L /\ w[k] \in V /\ k + 1 \in 0 .. L
      BY <1>2, <2>2
    <3>2. b[k + 1] \in C
      BY <1>3, <3>1
    <3>3. w[k + 1] = put(w[k], b[k + 1])
      BY <1>11, <2>2, <3>1
    <3>4. put(w[k], b[k + 1]) \in V
      <4>. DEFINE y == w[k]
                  c == b[k + 1]
      <4>1. y \in Streams(C) /\ c \in C
        BY <3>1, <3>2
      <4>. HIDE DEF y, c
      <4>2. put(y, c) \in Streams(C)
        BY <4>1, PutIsStream
      <4>. QED  BY <4>2 DEF y, c
    <3>. QED  BY <3>1, <3>3, <3>4
  <2>3. T \in SUBSET (0 .. L)
    OBVIOUS
  <2>. HIDE DEF T, L
  <2>4. T = 0 .. L
    BY <1>2, <2>1, <2>2, <2>3, BoundedInduction
  <2>. QED  BY <2>4 DEF T
<1>13. w \in [0 .. L -> V] /\ iter[all] = w[L]
  BY <1>2, <1>12
<1>. HIDE DEF w
<1>14. /\ w[0] = s
       /\ \A k \in 0 .. L : k < L => w[k + 1] = put(w[k], b[k + 1])
       /\ putAll(s, b) = w[L]
  BY <1>1, <1>10, <1>11, <1>13
<1>. HIDE DEF iter, step, Turn, sets, all
<1>. QED  BY <1>13, <1>14

\* A text as its length and characters tell it.
LEMMA CutFields ==
  ASSUME NEW C, NEW u \in Seq(C)
  PROVE  /\ Cut(u) \in Seq(C) /\ Len(u) \in Nat /\ CAPACITY_MAX \in Nat
         /\ Len(Cut(u)) = IF Len(u) <= CAPACITY_MAX THEN Len(u) ELSE CAPACITY_MAX
         /\ \A k \in 1 .. Len(Cut(u)) : Cut(u)[k] = u[k]
<1>. DEFINE l == Len(u)
            n == Min({l, CAPACITY_MAX})
<1>1. l \in Nat /\ CAPACITY_MAX \in Nat
  BY CapacityAssumption, LenProperties
<1>2. n = IF l <= CAPACITY_MAX THEN l ELSE CAPACITY_MAX
  <2>. HIDE DEF l
  <2>. QED  BY <1>1, MinOfTwo
<1>. HIDE DEF n
<1>3. n \in 0 .. Len(u)
  BY <1>1, <1>2
<1>. DEFINE v == SubSeq(u, 1, n)
<1>4. v \in Seq(C) /\ Len(v) = n /\ \A k \in 1 .. n : v[k] = u[k]
  BY <1>3, FirstPart
<1>5. Cut(u) = v
  BY DEF Cut, n
<1>. HIDE DEF v
<1>. QED  BY <1>1, <1>2, <1>4, <1>5

LEMMA NothingCut ==
  ASSUME NEW C, NEW u \in Seq(C), Len(u) <= CAPACITY_MAX
  PROVE  Cut(u) = u
<1>. DEFINE v == Cut(u)
<1>1. v \in Seq(C) /\ Len(v) = Len(u) /\ \A k \in 1 .. Len(v) : v[k] = u[k]
  BY CutFields
<1>. HIDE DEF v
<1>2. v = u
  BY <1>1, SameText
<1>. QED  BY <1>2 DEF v

\* What is cut stays cut.
LEMMA CutTwice ==
  ASSUME NEW C, NEW u \in Seq(C), NEW v \in Seq(C)
  PROVE  Cut(Cut(u) \o v) = Cut(u \o v)
<1>. DEFINE c == Cut(u)
            x == c \o v
            y == u \o v
            p == Cut(x)
            q == Cut(y)
<1>1. /\ c \in Seq(C) /\ Len(u) \in Nat /\ CAPACITY_MAX \in Nat
      /\ Len(c) = (IF Len(u) <= CAPACITY_MAX THEN Len(u) ELSE CAPACITY_MAX)
      /\ \A k \in 1 .. Len(c) : c[k] = u[k]
  BY CutFields
<1>2. CASE Len(u) <= CAPACITY_MAX
  BY <1>2, NothingCut
<1>3. CASE ~(Len(u) <= CAPACITY_MAX)
  <2>. HIDE DEF c
  <2>1. x \in Seq(C) /\ Joins(x, c, v) /\ y \in Seq(C) /\ Joins(y, u, v)
    BY <1>1, ConcatIs
  <2>. HIDE DEF x, y
  <2>2. p \in Seq(C) /\ q \in Seq(C)
        /\ Len(p) = (IF Len(x) <= CAPACITY_MAX THEN Len(x) ELSE CAPACITY_MAX)
        /\ Len(q) = (IF Len(y) <= CAPACITY_MAX THEN Len(y) ELSE CAPACITY_MAX)
        /\ (\A k \in 1 .. Len(p) : p[k] = x[k]) /\ (\A k \in 1 .. Len(q) : q[k] = y[k])
    BY <2>1, CutFields
  <2>. HIDE DEF p, q
  <2>3. Len(c) = CAPACITY_MAX /\ Len(x) = CAPACITY_MAX + Len(v) /\ Len(y) = Len(u) + Len(v) /\ Len(v) \in Nat
    BY <1>1, <1>3, <2>1 DEF Joins
  <2>4. Len(p) = CAPACITY_MAX /\ Len(q) = CAPACITY_MAX
    BY <1>1, <1>3, <2>2, <2>3
  <2>5. ASSUME NEW k \in 1 .. Len(p) PROVE p[k] = q[k]
    <3>1. k \in 1 .. Len(c) /\ k \in 1 .. Len(u) /\ k \in 1 .. Len(q)
      BY <1>1, <1>3, <2>3, <2>4
    <3>2. x[k] = c[k] /\ y[k] = u[k]
      BY <2>1, <3>1 DEF Joins
    <3>. QED  BY <1>1, <2>2, <3>1, <3>2
  <2>6. p = q
    BY <2>2, <2>4, <2>5, SameText
  <2>. QED  BY <2>6 DEF p, q, x, y, c
<1>. QED  BY <1>2, <1>3

\* Appended in two goes.
LEMMA AppendedTwice ==
  ASSUME NEW C, Junk \in C, NEW s, NEW v, NEW t \in Seq(C), NEW a \in Seq(C), NEW c \in C,
         Appended(C, v, s, t, a), s.sizeOver_ \in Nat
  PROVE  Appended(C, put(v, c), s, t, a \o <<c>>)
<1>. DEFINE u == put(v, c)
            b == <<c>>
            d == Cut(t \o a)
<1>1. b \in Seq(C)
  BY OneCharacter
<1>2. CASE Cleared(s) /\ Overflowed(v)
  <2>1. Spoiled(C, v)
    BY <1>2 DEF Appended
  <2>2. Spoiled(C, u)
    BY <2>1, PutSpoils
  <2>. HIDE DEF u, b
  <2>3. Overflowed(u)
    BY <2>2 DEF Spoiled
  <2>4. Appended(C, u, s, t, a \o b)
    BY <1>2, <2>2, <2>3 DEF Appended
  <2>. QED  BY <2>4 DEF u, b
<1>3. CASE ~(Cleared(s) /\ Overflowed(v))
  <2>1. Holds(C, v, d)
    BY <1>3 DEF Appended
  <2>2. ~Overflowed(v) => ~Overflowed(s) /\ v.sizeOver_ = s.sizeOver_
    BY DEF Appended
  <2>. HIDE DEF d
  <2>3. Appended(C, u, v, d, b)
    BY <2>1, PutHolds
  <2>4. Cut(d \o b) = Cut(t \o (a \o b))
    <3>1. t \o a \in Seq(C) /\ (t \o a) \o b = t \o (a \o b)
      <4>1. t \in Seq(C) /\ a \in Seq(C) /\ b \in Seq(C)
        BY <1>1
      <4>. HIDE DEF b
      <4>2. t \o a \in Seq(C)
        BY <4>1, JoinedText, Zenon
      <4>3. \A x, y, z \in Seq(C) : (x \o y) \o z = x \o (y \o z)
        BY SMTT(30)
      <4>. QED  BY <4>1, <4>2, <4>3, Zenon
    <3>. HIDE DEF b
    <3>. DEFINE x == t \o a
    <3>2. x \in Seq(C)
      BY <3>1
    <3>. HIDE DEF x
    <3>3. Cut(Cut(x) \o b) = Cut(x \o b)
      BY <1>1, <3>2, CutTwice
    <3>. QED  BY <3>1, <3>3 DEF x, d
  <2>. HIDE DEF u, b
  <2>5. ~Overflowed(u) => ~Overflowed(s) /\ u.sizeOver_ = s.sizeOver_
    BY <2>2, <2>3 DEF Appended
  <2>6. CASE Cleared(v) /\ Overflowed(u)
    <3>1. Spoiled(C, u)
      BY <2>3, <2>6 DEF Appended
    <3>2. Cleared(s)
      BY <2>2, <2>6 DEF Cleared
    <3>3. Appended(C, u, s, t, a \o b)
      BY <2>6, <3>1, <3>2 DEF Appended
    <3>. QED  BY <3>3 DEF u, b
  <2>7. CASE ~(Cleared(v) /\ Overflowed(u))
    <3>1. Holds(C, u, Cut(t \o (a \o b)))
      BY <2>3, <2>4, <2>7 DEF Appended
    <3>2. ~(Cleared(s) /\ Overflowed(u))
      <4>. SUFFICES ASSUME Cleared(s), Overflowed(u) PROVE FALSE
        OBVIOUS
      <4>1. ~Overflowed(v)
        BY <1>3
      <4>2. Cleared(v)
        BY <2>2, <4>1 DEF Cleared
      <4>. QED  BY <2>7, <4>2
    <3>3. Appended(C, u, s, t, a \o b)
      BY <2>5, <3>1, <3>2 DEF Appended
    <3>. QED  BY <3>3 DEF u, b
  <2>. QED  BY <2>6, <2>7
<1>. QED  BY <1>2, <1>3

\* One character more of a text.
LEMMA NextPart ==
  ASSUME NEW C, NEW b \in Seq(C), NEW k \in 0 .. Len(b), k < Len(b)
  PROVE  /\ SubSeq(b, 1, k) \in Seq(C) /\ b[k + 1] \in C
         /\ SubSeq(b, 1, k + 1) = SubSeq(b, 1, k) \o <<b[k + 1]>>
<1>. DEFINE m == k + 1
            c == b[m]
            p == SubSeq(b, 1, k)
            q == SubSeq(b, 1, m)
            d == <<c>>
            r == p \o d
<1>1. k \in Nat /\ Len(b) \in Nat /\ m \in 1 .. Len(b) /\ m \in 0 .. Len(b)
  BY LenProperties
<1>2. c \in C
  <2>. HIDE DEF m
  <2>. QED  BY <1>1, ElementOfSeq
<1>3. /\ p \in Seq(C) /\ Len(p) = k /\ \A j \in 1 .. k : p[j] = b[j]
  BY <1>1, FirstPart
<1>4. /\ q \in Seq(C) /\ Len(q) = m /\ \A j \in 1 .. m : q[j] = b[j]
  <2>. HIDE DEF m
  <2>. QED  BY <1>1, FirstPart
<1>. HIDE DEF p, q, c
<1>5. d \in Seq(C) /\ Len(d) = 1 /\ d[1] = c
  BY <1>2, OneCharacter
<1>. HIDE DEF d
<1>6. r \in Seq(C) /\ Joins(r, p, d)
  BY <1>3, <1>5, ConcatIs
<1>. HIDE DEF r
<1>7. Len(r) = m /\ (\A j \in 1 .. k : r[j] = p[j]) /\ r[m] = c
  <2>1. 1 \in 1 .. Len(d) /\ Len(p) + 1 = m
    BY <1>3, <1>5
  <2>. HIDE DEF m
  <2>. QED  BY <1>3, <1>5, <1>6, <2>1 DEF Joins
<1>8. ASSUME NEW j \in 1 .. Len(q) PROVE q[j] = r[j]
  <2>1. CASE j \in 1 .. k
    <3>1. j \in 1 .. m
      BY <1>1, <2>1
    <3>. HIDE DEF m
    <3>. QED  BY <1>3, <1>4, <1>7, <2>1, <3>1
  <2>2. CASE j = m
    <3>1. m \in 1 .. m
      BY <1>1
    <3>. HIDE DEF m
    <3>. QED  BY <1>4, <1>7, <2>2, <3>1 DEF c
  <2>. QED  BY <1>1, <1>4, <2>1, <2>2
<1>9. q = r
  BY <1>4, <1>6, <1>7, <1>8, SameText
<1>. QED  BY <1>2, <1>3, <1>9 DEF q, r, p, d, c

\* A text is put behind what a stream holds, one character after the other.
LEMMA PutAllHolds ==
  ASSUME NEW C, Junk \in C, NEW s, NEW t, NEW b \in Seq(C), Holds(C, s, t)
  PROVE  Appended(C, putAll(s, b), s, t, b)
<1>1. s \in Streams(C) /\ t \in Seq(C) /\ Len(t) <= CAPACITY_MAX /\ s.sizeOver_ \in Nat
  BY HoldsFields
<1>. DEFINE L == Len(b)
            P(k) == SubSeq(b, 1, k)
<1>2. L \in Nat
  BY LenProperties
<1>3. PICK w \in [0 .. L -> Streams(C)] :
        /\ w[0] = s
        /\ \A k \in 0 .. L : k < L => w[k + 1] = put(w[k], b[k + 1])
        /\ putAll(s, b) = w[L]
  BY <1>1, PutAllFolds
<1>. DEFINE T == {k \in 0 .. L : Appended(C, w[k], s, t, P(k))}
<1>4. 0 \in T
  <2>1. 0 \in 0 .. L
    BY <1>2
  <2>. DEFINE e == P(0)
              o == 0
  <2>2. e \in Seq(C) /\ Len(e) = 0
    <3>1. o \in 0 .. Len(b)
      BY <1>2
    <3>. HIDE DEF o
    <3>2. SubSeq(b, 1, o) \in Seq(C) /\ Len(SubSeq(b, 1, o)) = o
      BY <3>1, FirstPart
    <3>. QED  BY <3>2 DEF o
  <2>. HIDE DEF e
  <2>3. t \o e = t
    BY <1>1, <2>2
  <2>4. Cut(t \o e) = t
    BY <1>1, <2>3, NothingCut
  <2>5. ~(Cleared(s) /\ Overflowed(s))
    BY DEF Cleared
  <2>6. Appended(C, s, s, t, e)
    BY <2>4, <2>5 DEF Appended
  <2>. QED  BY <1>3, <2>1, <2>6 DEF e
<1>5. ASSUME NEW k \in T, k < L PROVE k + 1 \in T
  <2>1. k \in 0 .. L /\ Appended(C, w[k], s, t, P(k))
    OBVIOUS
  <2>. DEFINE c == b[k + 1]
              a == P(k)
              v == w[k]
  <2>2. a \in Seq(C) /\ c \in C /\ P(k + 1) = a \o <<c>>
    BY <1>5, <2>1, NextPart
  <2>3. w[k + 1] = put(v, c)
    BY <1>3, <1>5, <2>1
  <2>. HIDE DEF T, a, c, v
  <2>4. Appended(C, v, s, t, a)
    BY <2>1 DEF a, v
  <2>5. Appended(C, put(v, c), s, t, a \o <<c>>)
    BY <1>1, <2>2, <2>4, AppendedTwice
  <2>6. k + 1 \in 0 .. L
    <3>. HIDE DEF L
    <3>. QED  BY <1>2, <1>5, <2>1
  <2>. QED  BY <2>2, <2>3, <2>5, <2>6 DEF T
<1>6. T = 0 .. L
  <2>1. T \in SUBSET (0 .. L)
    OBVIOUS
  <2>. HIDE DEF T, L
  <2>. QED  BY <1>2, <1>4, <1>5, <2>1, BoundedInduction
<1>7. L \in T
  <2>. HIDE DEF T, L
  <2>. QED  BY <1>2, <1>6
<1>8. P(L) = b
  <2>. DEFINE p == P(L)
  <2>1. L \in 0 .. Len(b)
    BY <1>2
  <2>2. p \in Seq(C) /\ Len(p) = L /\ \A k \in 1 .. L : p[k] = b[k]
    BY <2>1, FirstPart
  <2>. HIDE DEF p
  <2>3. p = b
    BY <2>2, SameText
  <2>. QED  BY <2>3 DEF p
<1>9. Appended(C, w[L], s, t, P(L))
  BY <1>7
<1>. QED  BY <1>3, <1>8, <1>9

-----------------------------------------------------------------------------
(* What the streams of this module are made of.                             *)

Letters == {"a", "b", "c", "d", "e", "f", "g", " "}

Words ==
  Digits \cup Letters \cup Counters
  \cup {Junk, ".", "@", ":", "\n", "empty", "[", "]", "Summary:", "Found",
        "error:", "No error found", "Found [", "critical error:",
        "No critical error found", "Summary length:", "Full Bids/Asks:"}

LEMMA WordsReassociated ==
  \A u, v, x \in Seq(Words) : (u \o v) \o x = u \o (v \o x)
BY ConcatAssociative

LEMMA WordsHave ==
  /\ Junk \in Words /\ Junk \notin Letters /\ " " \in Letters
  /\ \A c \in Digits \cup Letters \cup Counters : c \in Words
  /\ "." \in Words /\ "@" \in Words /\ ":" \in Words /\ "\n" \in Words
  /\ "empty" \in Words /\ "Full Bids/Asks:" \in Words
<1>1. /\ Junk \in Words /\ " " \in Letters /\ "." \in Words /\ "@" \in Words
      /\ ":" \in Words /\ "\n" \in Words /\ "empty" \in Words
      /\ "Full Bids/Asks:" \in Words
  BY Zenon DEF Words, Letters
<1>2. Junk \notin Letters
  BY Zenon DEF Junk, Letters
<1>3. \A c \in Digits \cup Letters \cup Counters : c \in Words
  BY Zenon DEF Words
<1>. QED  BY <1>1, <1>2, <1>3

LEMMA OfWords ==
  ASSUME NEW S, S \subseteq Digits \cup Letters \cup Counters, NEW t \in Seq(S)
  PROVE  t \in Seq(Words)
<1>1. S \subseteq Words
  BY WordsHave
<1>. HIDE DEF Words
<1>. QED  BY <1>1

LEMMA NewStreamHolds ==
  ASSUME NEW C
  PROVE  Holds(C, NewStream, << >>) /\ ~Cleared(NewStream) /\ ~Overflowed(NewStream)
<1>1. NewStream \in Streams(C)
  BY DEF NewStream, NoBuffer, Streams
<1>2. /\ NewStream.str_ = << >> /\ NewStream.strOver_ = NoBuffer
      /\ NewStream.sizeOver_ = 0 /\ ~NewStream.crashed
  BY DEF NewStream
<1>3. ~Overflowed(NewStream) /\ c_str(NewStream) = << >> /\ size(NewStream) = 0
  BY <1>2 DEF Overflowed, c_str, size
<1>4. CAPACITY \in Nat /\ CAPACITY_MAX \in Nat
  BY CapacityAssumption
<1>. QED  BY <1>1, <1>2, <1>3, <1>4 DEF Holds, Cleared

-----------------------------------------------------------------------------
(* The steps.                                                               *)

LEMMA TaskStays ==
  ASSUME [Next]_vars
  PROVE  task' = task /\ input' = input
BY DEF Next, writeNumber, printRow, printLastRow, streamPiece, printSummary,
       Client, useAppend, usePutAll, useAppendUpTo, useClear, Use, Done, vars

-----------------------------------------------------------------------------
(* A number.                                                                *)

NumberText(number) ==
  CASE number.kind = "integer" -> convert_unsigned_integer(number.val)
    [] number.kind = "float"   -> convert_unsigned_float(number.val, FloatPrecision)
    [] number.kind = "double"  -> convert_unsigned_float(number.val, Precision)

NumberInv ==
  task = "number" =>
    /\ input \in Numbers
    /\ \/ i = 0 /\ stream = NewStream
       \/ i = 1 /\ Holds(Words, stream, NumberText(input))

LEMMA FloatText ==
  ASSUME NEW val \in Nat, NEW p \in Nat
  PROVE  convert_unsigned_float(val, p) \in Seq(Words)
<1>1. PICK int, dec \in Seq(Digits) :
        /\ convert_unsigned_float(val, p) = int \o <<".">> \o dec
        /\ Len(int) \in Nat \ {0} /\ Len(dec) = p
        /\ LET n == retreive_unsigned_integer(int) * PowerOfTen[p]
                    + retreive_unsigned_integer(dec)
           IN  n \in Nat /\ 10 * n <= val + 5 /\ val <= 10 * n + 4
  BY FloatIsRounded
<1>. DEFINE c == "."
<1>2. c \in Words /\ int \in Seq(Words) /\ dec \in Seq(Words)
  BY WordsHave, OfWords
<1>. HIDE DEF c, Words
<1>3. int \o <<c>> \o dec \in Seq(Words)
  BY <1>2, AroundPoint
<1>. QED  BY <1>1, <1>3 DEF c

LEMMA IntegerText ==
  ASSUME NEW val \in Nat
  PROVE  convert_unsigned_integer(val) \in Seq(Words)
<1>1. convert_unsigned_integer(val) \in Seq(Digits)
  BY IntegerReadsBack
<1>. DEFINE t == convert_unsigned_integer(val)
            S == Digits
<1>2. t \in Seq(S) /\ S \subseteq Digits \cup Letters \cup Counters
  BY <1>1
<1>. HIDE DEF t, S
<1>3. t \in Seq(Words)
  BY <1>2, OfWords
<1>. QED  BY <1>3 DEF t

LEMMA NumberFits ==
  ASSUME NEW number \in Numbers
  PROVE  /\ NumberText(number) \in Seq(Words)
         /\ Len(NumberText(number)) <= CAPACITY_MAX
         /\ Written(number) = append(NewStream, NumberText(number))
<1>. DEFINE val == number.val
<1>1. /\ number.kind \in {"integer", "float", "double"} /\ val \in 0 .. MaxNumber
      /\ val \in Nat /\ Precision \in Nat /\ FloatPrecision \in Nat
  BY OutputAssumption DEF Numbers
<1>. HIDE DEF val
<1>2. /\ Len(convert_unsigned_integer(val)) <= CAPACITY_MAX
      /\ Len(convert_unsigned_float(val, FloatPrecision)) <= CAPACITY_MAX
      /\ Len(convert_unsigned_float(val, Precision)) <= CAPACITY_MAX
  BY <1>1, NumberAssumption, Zenon
<1>3. /\ convert_unsigned_integer(val) \in Seq(Words)
      /\ convert_unsigned_float(val, FloatPrecision) \in Seq(Words)
      /\ convert_unsigned_float(val, Precision) \in Seq(Words)
  BY <1>1, IntegerText, FloatText
<1>4. CASE number.kind = "integer"
  <2>1. NumberText(number) = convert_unsigned_integer(val)
    BY <1>4 DEF NumberText, val
  <2>2. Written(number) = append(NewStream, convert_unsigned_integer(val))
    BY <1>4 DEF Written, appendInteger, val
  <2>. QED  BY <1>2, <1>3, <2>1, <2>2
<1>5. CASE number.kind = "float"
  <2>1. NumberText(number) = convert_unsigned_float(val, FloatPrecision)
    BY <1>5 DEF NumberText, val
  <2>2. Written(number) = append(NewStream, convert_unsigned_float(val, FloatPrecision))
    BY <1>5 DEF Written, appendFloat, val
  <2>. QED  BY <1>2, <1>3, <2>1, <2>2
<1>6. CASE number.kind = "double"
  <2>1. NumberText(number) = convert_unsigned_float(val, Precision)
    BY <1>6 DEF NumberText, val
  <2>2. Written(number) = append(NewStream, convert_unsigned_float(val, Precision))
    BY <1>6 DEF Written, appendFloat, val
  <2>. QED  BY <1>2, <1>3, <2>1, <2>2
<1>. QED  BY <1>1, <1>4, <1>5, <1>6

LEMMA NumberStep ==
  ASSUME NumberInv, [Next]_vars
  PROVE  NumberInv'
<1>. SUFFICES ASSUME task' = "number" PROVE NumberInv'
  BY DEF NumberInv
<1>1. task = "number" /\ input' = input /\ input \in Numbers
  BY TaskStays DEF NumberInv
<1>2. CASE writeNumber
  <2>. DEFINE t == NumberText(input)
              s == append(NewStream, t)
  <2>1. t \in Seq(Words) /\ Len(t) <= CAPACITY_MAX /\ stream' = s /\ i' = 1
    BY <1>1, <1>2, NumberFits DEF writeNumber
  <2>2. Holds(Words, NewStream, << >>) /\ ~Cleared(NewStream)
    BY NewStreamHolds
  <2>3. Junk \in Words
    BY WordsHave
  <2>. HIDE DEF t, s, Words
  <2>. DEFINE e == << >>
  <2>4. Appended(Words, append(NewStream, t), NewStream, e, t)
    <3>1. Holds(Words, NewStream, e)
      BY <2>2
    <3>. HIDE DEF e
    <3>. QED  BY <2>1, <2>3, <3>1, AppendHolds
  <2>5. Holds(Words, s, Cut(e \o t))
    BY <2>2, <2>4, Zenon DEF Appended, s
  <2>6. e \o t = t
    BY <2>1
  <2>7. Cut(t) = t
    BY <2>1, NothingCut
  <2>8. Holds(Words, stream', t)
    BY <2>1, <2>5, <2>6, <2>7
  <2>9. NumberText(input') = t
    BY <1>1 DEF t
  <2>. QED  BY <1>1, <2>1, <2>8, <2>9 DEF NumberInv
<1>3. CASE UNCHANGED vars
  <2>1. i' = i /\ stream' = stream
    BY <1>3 DEF vars
  <2>2. NumberText(input') = NumberText(input)
    BY <1>1
  <2>. QED  BY <1>1, <2>1, <2>2 DEF NumberInv
<1>4. writeNumber \/ UNCHANGED vars
  BY <1>1 DEF Next, printRow, printLastRow, streamPiece, printSummary,
              Client, useAppend, usePutAll, useAppendUpTo, useClear, Use, Done
<1>. QED  BY <1>2, <1>3, <1>4

LEMMA NumberInitially ==
  ASSUME Init
  PROVE  NumberInv
BY DEF Init, NumberInv

\* A number is written so that it reads back: the operators << for numbers.
THEOREM NumberReadsBackAlways == Spec => []NumberReadsBack
<1>1. Init => NumberInv
  BY NumberInitially
<1>2. NumberInv /\ [Next]_vars => NumberInv'
  BY NumberStep
<1>3. NumberInv => NumberReadsBack
  <2>. SUFFICES ASSUME NumberInv, task = "number", i = 1
                PROVE  LET written == c_str(stream)
                           places  == IF input.kind = "float" THEN FloatPrecision ELSE Precision
                           rest    == input.val - 10 * retreive_unsigned_float(written, places)
                       IN  IF input.kind = "integer"
                           THEN /\ retreive_unsigned_integer(written) = input.val
                                /\ Len(written) > 1 => written[1] # "0"
                           ELSE /\ SelectInSeq(written, LAMBDA c : c = ".") = Len(written) - places
                                /\ rest > -6 /\ rest < 5
    BY DEF NumberReadsBack
  <2>. DEFINE t      == c_str(stream)
              val    == input.val
              places == IF input.kind = "float" THEN FloatPrecision ELSE Precision
              rest   == val - 10 * retreive_unsigned_float(t, places)
  <2>1. t = NumberText(input) /\ input \in Numbers
    BY DEF NumberInv, Holds
  <2>2. /\ input.kind \in {"integer", "float", "double"}
        /\ val \in Nat /\ Precision \in Nat /\ FloatPrecision \in Nat
    BY <2>1, OutputAssumption DEF Numbers
  <2>3. CASE input.kind = "integer"
    <3>1. t = convert_unsigned_integer(val)
      BY <2>1, <2>3 DEF NumberText
    <3>. HIDE DEF t, val
    <3>2. retreive_unsigned_integer(t) = val /\ (Len(t) > 1 => t[1] # "0")
      BY <2>2, <3>1, IntegerReadsBack
    <3>. QED  BY <2>3, <3>2 DEF t, val
  <2>4. CASE input.kind # "integer"
    <3>1. t = convert_unsigned_float(val, places) /\ places \in Nat
      BY <2>1, <2>2, <2>4 DEF NumberText
    <3>. HIDE DEF t, val, places
    <3>2. PICK int, dec \in Seq(Digits) :
            /\ t = int \o <<".">> \o dec
            /\ Len(int) \in Nat \ {0} /\ Len(dec) = places
            /\ LET n == retreive_unsigned_integer(int) * PowerOfTen[places]
                         + retreive_unsigned_integer(dec)
               IN  n \in Nat /\ 10 * n <= val + 5 /\ val <= 10 * n + 4
      BY <2>2, <3>1, FloatIsRounded
    <3>. DEFINE n == retreive_unsigned_integer(int) * PowerOfTen[places]
                       + retreive_unsigned_integer(dec)
    <3>3. n \in Nat /\ 10 * n <= val + 5 /\ val <= 10 * n + 4
      BY <3>2
    <3>4. ReadsAs(t, int, dec, places)
      BY <3>1, <3>2, FloatIsRead
    <3>7. retreive_unsigned_float(t, places) = n
      BY <3>4 DEF ReadsAs
    <3>. HIDE DEF n
    <3>5. rest > -6 /\ rest < 5
      <4>1. rest = val - 10 * n
        BY <3>7
      <4>. HIDE DEF rest
      <4>. QED  BY <2>2, <3>3, <4>1 DEF val
    <3>6. SelectInSeq(t, LAMBDA c : c = ".") = Len(t) - places
      <4>1. Len(int) + 1 = Len(t) - places
        BY <3>1, <3>2, <3>4 DEF ReadsAs
      <4>. QED  BY <3>4, <4>1 DEF ReadsAs
    <3>. QED  BY <2>4, <3>5, <3>6 DEF t, val, places
  <2>. QED  BY <2>3, <2>4
<1>. QED  BY <1>1, <1>2, <1>3, PTL DEF Spec

-----------------------------------------------------------------------------
(* The client.                                                              *)

ClientInv ==
  task = "client" =>
    /\ text \in Seq(Letters)
    /\ ~misused => Holds(Words, stream, text)
    /\ misused => Spoiled(Words, stream)

\* What a call does to the stream, b being what it appends.
ClientStep(next, b) ==
  /\ stream' = next /\ text' = Cut(text \o b) /\ b \in Seq(Letters)
  /\ \/ Appended(Words, next, stream, text, b) /\ misused' = OverflowsAgain(next)
     \/ Spoiled(Words, next) /\ misused' = TRUE

LEMMA ClientStepKeeps ==
  ASSUME NEW next, NEW b, ClientStep(next, b), text \in Seq(Letters), ~misused,
         Holds(Words, stream, text)
  PROVE  ClientInv'
<1>. DEFINE t == text \o b
            c == Cut(t)
<1>1. t \in Seq(Letters)
  BY DEF ClientStep
<1>. HIDE DEF t
<1>2. c \in Seq(Letters) /\ text' = c
  BY <1>1, CutFields DEF ClientStep, t
<1>3. CASE Appended(Words, next, stream, text, b) /\ misused' = OverflowsAgain(next)
  <2>1. misused' = (Cleared(stream) /\ Overflowed(next))
    BY <1>3 DEF Cleared, OverflowsAgain
  <2>2. IF Cleared(stream) /\ Overflowed(next) THEN Spoiled(Words, next)
                                               ELSE Holds(Words, next, c)
    BY <1>3, Zenon DEF Appended, t
  <2>3. stream' = next
    BY DEF ClientStep
  <2>. HIDE DEF c
  <2>4. CASE Cleared(stream) /\ Overflowed(next)
    <3>1. misused' /\ Spoiled(Words, stream')
      BY <2>1, <2>2, <2>3, <2>4
    <3>. QED  BY <1>2, <3>1 DEF ClientInv
  <2>5. CASE ~(Cleared(stream) /\ Overflowed(next))
    <3>1. ~misused' /\ Holds(Words, stream', text')
      BY <1>2, <2>1, <2>2, <2>3, <2>5
    <3>. QED  BY <1>2, <3>1 DEF ClientInv
  <2>. QED  BY <2>4, <2>5
<1>4. CASE Spoiled(Words, next) /\ misused' = TRUE
  <2>1. misused' /\ Spoiled(Words, stream')
    BY <1>4 DEF ClientStep
  <2>. QED  BY <1>2, <2>1 DEF ClientInv
<1>. QED  BY <1>3, <1>4 DEF ClientStep

LEMMA PieceIsText ==
  ASSUME NEW n \in Nat, text \in Seq(Letters)
  PROVE  Piece(n) \in Seq(Letters)
<1>. DEFINE all == <<"a", "b", "c", "d", "e", "f", "g">>
            at(k) == ((Len(text) + k) % 7) + 1
<1>1. \A j \in 1 .. 7 : all[j] \in Letters
  <2>1. \A j \in 1 .. 7 : all[j] \in {"a", "b", "c", "d", "e", "f", "g"}
    OBVIOUS
  <2>2. {"a", "b", "c", "d", "e", "f", "g"} \subseteq Letters
    BY Zenon DEF Letters
  <2>. HIDE DEF all, Letters
  <2>. QED  BY <2>1, <2>2
<1>2. \A k \in 1 .. n : at(k) \in 1 .. 7
  BY LenProperties
<1>3. Piece(n) = [k \in 1 .. n |-> all[at(k)]]
  BY DEF Piece
<1>. HIDE DEF all, at
<1>4. \A k \in 1 .. n : all[at(k)] \in Letters
  BY <1>1, <1>2
<1>. HIDE DEF Letters
<1>5. [k \in 1 .. n |-> all[at(k)]] \in [1 .. n -> Letters]
  BY <1>4
<1>6. \A f \in [1 .. n -> Letters] : f \in Seq(Letters)
  OBVIOUS
<1>. QED  BY <1>3, <1>5, <1>6

LEMMA ClientStays ==
  ASSUME ClientInv, [Next]_vars
  PROVE  ClientInv'
<1>. SUFFICES ASSUME task' = "client" PROVE ClientInv'
  BY DEF ClientInv
<1>1. task = "client"
  BY TaskStays
<1>2. Client \/ UNCHANGED vars
  BY <1>1 DEF Next, writeNumber, printRow, printLastRow, streamPiece, printSummary, Done
<1>3. CASE UNCHANGED vars
  BY <1>1, <1>3 DEF vars, ClientInv
<1>4. CASE Client
  <2>1. ~misused
    BY <1>4 DEF Client, useAppend, usePutAll, useAppendUpTo, useClear, Use
  <2>2. text \in Seq(Letters) /\ Holds(Words, stream, text)
    BY <1>1, <2>1 DEF ClientInv
  <2>3. Junk \in Words /\ " " \in Letters
    BY WordsHave, Zenon
  <2>4. \A b \in Seq(Letters) : b \in Seq(Words)
    <3>1. Letters \subseteq Words
      BY WordsHave
    <3>. HIDE DEF Letters, Words
    <3>. QED  BY <3>1
  <2>. HIDE DEF Words, Letters
  <2>5. CASE useAppend
    <3>1. PICK n \in Lengths :
            /\ Use(append(stream, Piece(n)), text \o Piece(n))
            /\ misused' = OverflowsAgain(append(stream, Piece(n)))
      BY <2>5, Zenon DEF useAppend
    <3>. DEFINE b == Piece(n)
                next == append(stream, b)
    <3>2. b \in Seq(Letters)
      BY <2>2, PieceIsText, OutputAssumption
    <3>3. stream' = next /\ text' = Cut(text \o b) /\ misused' = OverflowsAgain(next)
      BY <3>1, Zenon DEF Use, Cut
    <3>. HIDE DEF b
    <3>4. Appended(Words, next, stream, text, b)
      BY <2>2, <2>3, <2>4, <3>2, AppendHolds
    <3>. HIDE DEF next
    <3>5. ClientStep(next, b)
      BY <3>2, <3>3, <3>4, Zenon DEF ClientStep
    <3>. QED  BY <2>1, <2>2, <3>5, ClientStepKeeps
  <2>6. CASE usePutAll
    <3>1. PICK n \in PutLengths :
            /\ Use(putAll(stream, Piece(n)), text \o Piece(n))
            /\ misused' = OverflowsAgain(putAll(stream, Piece(n)))
      BY <2>6, Zenon DEF usePutAll
    <3>. DEFINE b == Piece(n)
                next == putAll(stream, b)
    <3>2. b \in Seq(Letters)
      BY <2>2, PieceIsText, OutputAssumption
    <3>3. stream' = next /\ text' = Cut(text \o b) /\ misused' = OverflowsAgain(next)
      BY <3>1, Zenon DEF Use, Cut
    <3>. HIDE DEF b
    <3>4. Appended(Words, next, stream, text, b)
      BY <2>2, <2>3, <2>4, <3>2, PutAllHolds
    <3>. HIDE DEF next
    <3>5. ClientStep(next, b)
      BY <3>2, <3>3, <3>4, Zenon DEF ClientStep
    <3>. QED  BY <2>1, <2>2, <3>5, ClientStepKeeps
  <2>7. CASE useAppendUpTo
    <3>. DEFINE c == " "
    <3>0. c \in Letters /\ c \in Words
      BY <2>3, WordsHave
    <3>1. PICK pos \in Columns :
            /\ Use(appendUpTo(stream, pos, c), text \o Repeat(c, pos - Len(text)))
            /\ misused' = (OverflowsAgain(appendUpTo(stream, pos, c))
                           \/ BehindInHeap(stream, pos))
      BY <2>7, Zenon DEF useAppendUpTo, BehindInHeap
    <3>. DEFINE b == Repeat(c, pos - Len(text))
                next == appendUpTo(stream, pos, c)
    <3>. HIDE DEF c
    <3>2. b \in Seq(Letters) /\ pos \in Nat
      <4>. DEFINE z == pos - Len(text)
      <4>1. pos \in Nat /\ z \in Int
        BY <2>2, OutputAssumption, LenProperties
      <4>. HIDE DEF z
      <4>2. Repeat(c, z) \in Seq(Letters)
        BY <3>0, <4>1, RepeatIs
      <4>. QED  BY <4>1, <4>2 DEF z
    <3>3. /\ stream' = next /\ text' = Cut(text \o b)
          /\ misused' = (OverflowsAgain(next) \/ BehindInHeap(stream, pos))
      BY <3>1, Zenon DEF Use, Cut
    <3>4. IF BehindInHeap(stream, pos) THEN Spoiled(Words, next) /\ next.crashed
                                       ELSE Appended(Words, next, stream, text, b)
      BY <2>2, <2>3, <3>0, <3>2, AppendUpToHolds
    <3>. HIDE DEF next, b
    <3>5. ClientStep(next, b)
      <4>1. CASE BehindInHeap(stream, pos)
        BY <3>2, <3>3, <3>4, <4>1 DEF ClientStep
      <4>2. CASE ~BehindInHeap(stream, pos)
        <5>1. (OverflowsAgain(next) \/ BehindInHeap(stream, pos)) = OverflowsAgain(next)
          BY <4>2 DEF OverflowsAgain
        <5>2. misused' = OverflowsAgain(next)
          BY <3>3, <5>1
        <5>. QED  BY <3>2, <3>3, <3>4, <4>2, <5>2, Zenon DEF ClientStep
      <4>. QED  BY <4>1, <4>2
    <3>. QED  BY <2>1, <2>2, <3>5, ClientStepKeeps
  <2>8. CASE useClear
    <3>. DEFINE e == << >>
    <3>1. stream' = clear(stream) /\ text' = Cut(e) /\ misused' = FALSE
      BY <2>8, Zenon DEF useClear, Use, Cut
    <3>2. e \in Seq(Letters) /\ Len(e) <= CAPACITY_MAX
      BY CapacityAssumption
    <3>3. Holds(Words, clear(stream), e)
      BY <2>2, ClearHolds
    <3>. HIDE DEF e
    <3>4. Cut(e) = e
      BY <3>2, NothingCut
    <3>5. text' \in Seq(Letters) /\ ~misused' /\ Holds(Words, stream', text')
      BY <3>1, <3>2, <3>3, <3>4
    <3>. QED  BY <3>5 DEF ClientInv
  <2>. QED  BY <1>4, <2>5, <2>6, <2>7, <2>8 DEF Client
<1>. QED  BY <1>2, <1>3, <1>4

LEMMA ClientInitially ==
  ASSUME Init
  PROVE  ClientInv
<1>. DEFINE e == << >>
<1>1. e \in Seq(Letters)
  OBVIOUS
<1>2. text = e /\ stream = NewStream /\ misused = FALSE
  BY DEF Init
<1>3. Holds(Words, NewStream, e)
  BY NewStreamHolds
<1>. HIDE DEF e
<1>. QED  BY <1>1, <1>2, <1>3 DEF ClientInv

\* Text that is spoiled is not what was appended.
LEMMA SpoiledIsWrong ==
  ASSUME NEW s, NEW t \in Seq(Letters), Spoiled(Words, s), ~s.crashed
  PROVE  c_str(s) # t
<1>1. Overflowed(s)
  BY DEF Spoiled
<1>. DEFINE v == s.strOver_
<1>2. PICK k \in 1 .. Len(v) : v[k] = Junk
  BY DEF Spoiled
<1>3. c_str(s) = v
  BY <1>1 DEF c_str
<1>. HIDE DEF v
<1>. SUFFICES ASSUME v = t PROVE FALSE
  BY <1>3
<1>4. t[k] \in Letters
  <2>. HIDE DEF Letters
  <2>. QED  BY <1>2, ElementOfSeq
<1>. QED  BY <1>2, <1>4, WordsHave, Zenon

\* A stream holds what was appended to it, and fails to exactly if it is used
\* in one of the two ways that StreamHoldsText names: append, put, appendUpTo
\* and clear in any order.
THEOREM StreamHoldsTextAlways == Spec => []StreamHoldsText
<1>1. Init => ClientInv
  BY ClientInitially
<1>2. ClientInv /\ [Next]_vars => ClientInv'
  BY ClientStays
<1>3. ClientInv => StreamHoldsText
  <2>. SUFFICES ASSUME ClientInv, task = "client"
                PROVE  misused <=> stream.crashed \/ c_str(stream) # text
    BY DEF StreamHoldsText
  <2>1. text \in Seq(Letters)
    BY DEF ClientInv
  <2>2. CASE ~misused
    <3>1. Holds(Words, stream, text)
      BY <2>2 DEF ClientInv
    <3>. QED  BY <2>2, <3>1 DEF Holds
  <2>3. CASE misused
    <3>1. Spoiled(Words, stream)
      BY <2>3 DEF ClientInv
    <3>2. ~stream.crashed => c_str(stream) # text
      BY <2>1, <3>1, SpoiledIsWrong
    <3>. QED  BY <2>3, <3>2
  <2>. QED  BY <2>2, <2>3
<1>. QED  BY <1>1, <1>2, <1>3, PTL DEF Spec

-----------------------------------------------------------------------------
(* A stream that has never overflowed.                                      *)

Filled(t) ==
  [str_ |-> t, strOver_ |-> NoBuffer, sizeOver_ |-> 0, crashed |-> FALSE]

LEMMA FilledIs ==
  ASSUME NEW C, NEW t \in Seq(C)
  PROVE  /\ ~Overflowed(Filled(t)) /\ size(Filled(t)) = Len(t) /\ Filled(t).str_ = t
         /\ length(Filled(t)) = Len(t) /\ c_str(Filled(t)) = t
         /\ Len(t) \in Nat
<1>1. /\ Filled(t).str_ = t /\ Filled(t).strOver_ = NoBuffer
  BY DEF Filled
<1>2. ~Overflowed(Filled(t)) /\ size(Filled(t)) = Len(t)
  BY <1>1 DEF Overflowed, size
<1>3. length(Filled(t)) = Len(t) /\ c_str(Filled(t)) = t
  BY <1>1, <1>2 DEF length, c_str
<1>. QED  BY <1>1, <1>2, <1>3, LenProperties

LEMMA Refilled ==
  ASSUME NEW t, NEW v
  PROVE  [Filled(t) EXCEPT !.str_ = v] = Filled(v)
<1>. DEFINE no == FALSE
            z  == 0
<1>1. \A a : Filled(a) = [str_ |-> a, strOver_ |-> NoBuffer, sizeOver_ |-> z, crashed |-> no]
  BY DEF Filled
<1>. HIDE DEF no, z
<1>2. [[str_ |-> t, strOver_ |-> NoBuffer, sizeOver_ |-> z, crashed |-> no] EXCEPT !.str_ = v]
        = [str_ |-> v, strOver_ |-> NoBuffer, sizeOver_ |-> z, crashed |-> no]
  OBVIOUS
<1>. QED  BY <1>1, <1>2, Zenon

LEMMA FirstAll ==
  ASSUME NEW C, NEW b \in Seq(C)
  PROVE  SubSeq(b, 1, Len(b)) = b
<1>. DEFINE L == Len(b)
            p == SubSeq(b, 1, L)
<1>1. L \in 0 .. Len(b)
  BY LenProperties
<1>2. p \in Seq(C) /\ Len(p) = L /\ \A k \in 1 .. L : p[k] = b[k]
  BY <1>1, FirstPart
<1>. HIDE DEF p
<1>3. p = b
  BY <1>2, SameText
<1>. QED  BY <1>3 DEF p

LEMMA FillAppend ==
  ASSUME NEW C, NEW t \in Seq(C), NEW b \in Seq(C), Len(t) + Len(b) <= CAPACITY
  PROVE  append(Filled(t), b) = Filled(t \o b)
<1>. DEFINE s == Filled(t)
            a == CAPACITY - size(s)
            m == Min({Len(b), a})
            v == s.str_ \o SubSeq(b, 1, m)
            f == [s EXCEPT !.str_ = v]
<1>1. ~Overflowed(s) /\ size(s) = Len(t) /\ s.str_ = t /\ Len(t) \in Nat /\ Len(b) \in Nat
  BY FilledIs, LenProperties
<1>2. append(s, b) = IF Len(b) = m THEN f
                     ELSE appendRest(overflow(f), SubSeq(b, m + 1, Len(b)))
  BY <1>1 DEF append
<1>3. a \in Nat /\ Len(b) <= a
  BY <1>1, CapacityAssumption
<1>4. m = Len(b)
  <2>. HIDE DEF a
  <2>. QED  BY <1>1, <1>3, MinOfTwo
<1>5. v = t \o b
  <2>. HIDE DEF m, s
  <2>. QED  BY <1>1, <1>4, FirstAll
<1>6. f = Filled(v)
  <2>. HIDE DEF v
  <2>. QED  BY Refilled DEF s
<1>. HIDE DEF f, v, m
<1>. QED  BY <1>2, <1>4, <1>5, <1>6 DEF s

LEMMA FillPut ==
  ASSUME NEW C, NEW t \in Seq(C), NEW c \in C, Len(t) < CAPACITY
  PROVE  put(Filled(t), c) = Filled(t \o <<c>>)
<1>. DEFINE s == Filled(t)
            v == Append(s.str_, c)
<1>1. ~Overflowed(s) /\ size(s) = Len(t) /\ s.str_ = t
  BY FilledIs
<1>2. put(s, c) = [s EXCEPT !.str_ = v]
  BY <1>1 DEF put
<1>3. v = t \o <<c>>
  <2>. HIDE DEF s
  <2>. QED  BY <1>1
<1>4. [s EXCEPT !.str_ = v] = Filled(v)
  <2>. HIDE DEF v
  <2>. QED  BY Refilled DEF s
<1>. QED  BY <1>2, <1>3, <1>4

LEMMA FillUpTo ==
  ASSUME NEW C, NEW t \in Seq(C), NEW c \in C, NEW pos \in Nat, pos < CAPACITY
  PROVE  /\ appendUpTo(Filled(t), pos, c) = Filled(t \o Repeat(c, pos - Len(t)))
         /\ t \o Repeat(c, pos - Len(t)) \in Seq(C)
         /\ Len(t \o Repeat(c, pos - Len(t))) = IF pos < Len(t) THEN Len(t) ELSE pos
<1>. DEFINE s == Filled(t)
            z == pos - Len(t)
            b == Repeat(c, z)
            v == t \o b
            over == IF Overflowed(s) THEN s ELSE overflow(s)
            N == Min({pos, CAPACITY_MAX})
<1>1. ~Overflowed(s) /\ size(s) = Len(t) /\ s.str_ = t /\ Len(t) \in Nat
  BY FilledIs
<1>2. z \in Int
  BY <1>1
<1>3. b \in Seq(C) /\ Len(b) = IF z >= 0 THEN z ELSE 0
  <2>. HIDE DEF z
  <2>. QED  BY <1>2, RepeatIs
<1>4. appendUpTo(s, pos, c)
        = IF pos < size(s) THEN s
          ELSE IF ~Overflowed(s) /\ pos < CAPACITY
          THEN [s EXCEPT !.str_ = @ \o Repeat(c, pos - size(s))]
          ELSE appendBeyond(over, Repeat(c, N - over.sizeOver_), N)
  BY DEF appendUpTo
<1>. HIDE DEF b
<1>5. v \in Seq(C) /\ Len(v) = Len(t) + Len(b)
  <2>1. v \in Seq(C) /\ Joins(v, t, b)
    BY <1>3, ConcatIs
  <2>. HIDE DEF v
  <2>. QED  BY <2>1 DEF Joins
<1>6. Len(v) = IF pos < Len(t) THEN Len(t) ELSE pos
  <2>. HIDE DEF v
  <2>. QED  BY <1>1, <1>3, <1>5
<1>7. appendUpTo(s, pos, c) = Filled(v)
  <2>1. CASE pos < Len(t)
    <3>1. Len(b) = 0
      BY <1>1, <1>3, <2>1
    <3>2. v = t
      BY <1>3, <3>1
    <3>. HIDE DEF v
    <3>. QED  BY <1>1, <1>4, <2>1, <3>2
  <2>2. CASE ~(pos < Len(t))
    <3>1. appendUpTo(s, pos, c) = [s EXCEPT !.str_ = v]
      <4>. HIDE DEF s
      <4>. QED  BY <1>1, <1>4, <2>2 DEF b
    <3>. HIDE DEF v
    <3>. QED  BY <3>1, Refilled
  <2>. QED  BY <2>1, <2>2
<1>. QED  BY <1>5, <1>6, <1>7 DEF b

LEMMA FillClear ==
  ASSUME NEW t
  PROVE  clear(Filled(t)) = Filled(<< >>)
<1>. DEFINE no == FALSE
            z  == 0
            e  == << >>
<1>1. \A a : Filled(a) = [str_ |-> a, strOver_ |-> NoBuffer, sizeOver_ |-> z, crashed |-> no]
  BY DEF Filled
<1>2. clear(Filled(t)) = [Filled(t) EXCEPT !.str_ = e, !.strOver_ = NoBuffer]
  BY Zenon DEF clear
<1>. HIDE DEF no, z, e
<1>3. [Filled(t) EXCEPT !.str_ = e, !.strOver_ = NoBuffer]
        = [[Filled(t) EXCEPT !.str_ = e] EXCEPT !.strOver_ = NoBuffer]
  OBVIOUS
<1>4. [[str_ |-> e, strOver_ |-> NoBuffer, sizeOver_ |-> z, crashed |-> no]
         EXCEPT !.strOver_ = NoBuffer]
        = [str_ |-> e, strOver_ |-> NoBuffer, sizeOver_ |-> z, crashed |-> no]
  OBVIOUS
<1>5. clear(Filled(t)) = [Filled(e) EXCEPT !.strOver_ = NoBuffer]
  BY <1>2, <1>3, Refilled
<1>6. clear(Filled(t)) = Filled(e)
  BY <1>1, <1>4, <1>5, Zenon
<1>. QED  BY <1>6 DEF e

LEMMA MaxOfTwo ==
  ASSUME NEW a \in Nat, NEW b \in Nat
  PROVE  /\ Max({a, b}) \in Nat /\ a <= Max({a, b}) /\ b <= Max({a, b})
         /\ Max({a, b}) \in {a, b}
<1>1. \E x \in {a, b} : \A y \in {a, b} : x >= y
  <2>1. CASE a >= b
    BY <2>1
  <2>2. CASE ~(a >= b)
    BY <2>2
  <2>. QED  BY <2>1, <2>2
<1>2. Max({a, b}) \in {a, b} /\ \A y \in {a, b} : Max({a, b}) >= y
  BY <1>1 DEF Max
<1>. QED  BY <1>2

-----------------------------------------------------------------------------
(* Texts behind one another.                                                *)

\* w has what is in front of and with each text.
IsFlatten(w, q, L) ==
  \A k \in 1 .. L : w[k] = IF k = 1 THEN q[k] ELSE w[k - 1] \o q[k]

LEMMA FlattenIs ==
  ASSUME NEW S, NEW q \in Seq(Seq(S)), Len(q) > 0
  PROVE  \E w \in [1 .. Len(q) -> Seq(S)] : IsFlatten(w, q, Len(q)) /\ FlattenSeq(q) = w[Len(q)]
<1>. DEFINE L       == Len(q)
            D       == 1 .. L
            V       == Seq(S)
            Turn(g, k) == IF k = 1 THEN q[k] ELSE g[k - 1] \o q[k]
            flatten == CHOOSE g : g = [k \in D |-> Turn(g, k)]
            rank    == [k \in D |-> k]
            back    == [k \in D |-> IF k = 1 THEN 1 ELSE k - 1]
            base    == [k \in D |-> q[k]]
            step    == [x \in V \X D |-> x[1] \o q[x[2]]]
<1>1. L \in Nat /\ L # 0 /\ 1 \in D /\ L \in D
  BY LenProperties
<1>2. FlattenSeq(q) = flatten[L]
  BY <1>1, Zenon DEF FlattenSeq
<1>3. \A k \in D : q[k] \in V
  <2>1. q \in Seq(V)
    OBVIOUS
  <2>. HIDE DEF V
  <2>. QED  BY <1>1, <2>1, ElementOfSeq
<1>4. rank \in [D -> Nat] /\ back \in [D -> D] /\ base \in [D -> V]
  <2>. HIDE DEF V
  <2>. QED  BY <1>1, <1>3
<1>5. step \in [V \X D -> V]
  <2>1. ASSUME NEW v \in V, NEW k \in D PROVE v \o q[k] \in V
    <3>1. q[k] \in V
      BY <1>3
    <3>. DEFINE x == q[k]
    <3>. HIDE DEF x
    <3>2. v \o x \in V
      BY <3>1 DEF x
    <3>. QED  BY <3>2 DEF x
  <2>. HIDE DEF V, D
  <2>. QED  BY <2>1
<1>6. PICK f \in [D -> V] :
        \A k \in D : f[k] = IF k \in {1} THEN base[k] ELSE step[<<f[back[k]], k>>]
  <2>. DEFINE low == {1}
  <2>1. \A k \in D : k \notin low => rank[back[k]] < rank[k]
    BY <1>1
  <2>. HIDE DEF D, V, rank, back, base, step, low
  <2>2. \E g \in [D -> V] : IsRecursive(g, D, low, base, back, step)
    BY <1>4, <1>5, <2>1, RecursionHasSolution
  <2>. QED  BY <2>2 DEF low, IsRecursive
<1>7. ASSUME NEW k \in D PROVE f[k] = Turn(f, k)
  <2>1. CASE k = 1
    BY <1>6, <2>1
  <2>2. CASE k # 1
    <3>1. k - 1 \in D /\ back[k] = k - 1
      BY <1>1, <2>2
    <3>. DEFINE y == f[k - 1]
    <3>2. y \in V /\ f[k] = step[<<y, k>>]
      <4>. HIDE DEF step, back, base, V
      <4>. QED  BY <1>6, <2>2, <3>1
    <3>. HIDE DEF y, V, D
    <3>3. step[<<y, k>>] = y \o q[k]
      BY <3>2
    <3>. QED  BY <2>2, <3>2, <3>3 DEF y
  <2>. QED  BY <2>1, <2>2
<1>8. f = [k \in D |-> Turn(f, k)]
  <2>1. f = [k \in D |-> f[k]]
    OBVIOUS
  <2>. HIDE DEF Turn, D
  <2>. QED  BY <1>7, <2>1
<1>9. flatten = [k \in D |-> Turn(flatten, k)]
  <2>. HIDE DEF Turn, D
  <2>. QED  BY <1>8, Zenon
<1>. HIDE DEF flatten
<1>10. \A k \in D : flatten[k] = Turn(flatten, k)
  <2>. HIDE DEF Turn, D
  <2>. QED  BY <1>9, Zenon
<1>. DEFINE w == [k \in D |-> flatten[k]]
<1>11. w = flatten
  <2>. HIDE DEF Turn, D
  <2>. QED  BY <1>9
<1>. HIDE DEF w
<1>12. IsFlatten(w, q, L)
  BY <1>10, <1>11, Zenon DEF IsFlatten
<1>. DEFINE T == {k \in 0 .. L : k = 0 \/ w[k] \in V}
<1>13. T = 0 .. L
  <2>1. 0 \in T /\ T \in SUBSET (0 .. L)
    BY <1>1
  <2>2. ASSUME NEW k \in T, k < L PROVE k + 1 \in T
    <3>. DEFINE m == k + 1
    <3>1. m \in D /\ m \in 0 .. L /\ k \in 0 .. L /\ m - 1 = k
      BY <1>1, <2>2
    <3>2. q[m] \in V
      BY <1>3, <3>1
    <3>3. w[m] = Turn(w, m)
      BY <1>10, <1>11, <3>1
    <3>4. CASE k = 0
      BY <3>1, <3>2, <3>3, <3>4
    <3>5. CASE k # 0
      <4>1. w[k] \in V /\ m # 1
        BY <2>2, <3>1, <3>5
      <4>. DEFINE x == w[k]
                  y == q[m]
      <4>2. x \o y \in V
        <5>1. x \in V /\ y \in V
          BY <3>2, <4>1
        <5>. HIDE DEF x, y
        <5>. QED  BY <5>1
      <4>3. w[m] = x \o y
        BY <3>1, <3>3, <4>1
      <4>4. w[m] \in V
        BY <4>2, <4>3
      <4>. HIDE DEF V
      <4>. QED  BY <3>1, <4>4
    <3>. QED  BY <3>4, <3>5
  <2>. HIDE DEF T, L
  <2>. QED  BY <1>1, <2>1, <2>2, BoundedInduction
<1>14. \A k \in D : w[k] \in V
  <2>1. ASSUME NEW k \in D PROVE w[k] \in V
    <3>1. k \in 0 .. L /\ k # 0
      BY <1>1
    <3>2. k \in T
      <4>. HIDE DEF T
      <4>. QED  BY <1>13, <3>1
    <3>. QED  BY <3>1, <3>2
  <2>. QED  BY <2>1
<1>15. w \in [D -> V]
  <2>1. w = [k \in D |-> flatten[k]]
    BY DEF w
  <2>. HIDE DEF V, D
  <2>2. \A k \in D : flatten[k] \in V
    BY <1>11, <1>14
  <2>. QED  BY <2>1, <2>2
<1>. HIDE DEF T, V, D, Turn, L, flatten, w
<1>16. FlattenSeq(q) = w[L]
  BY <1>2, <1>11
<1>. QED  BY <1>12, <1>15, <1>16 DEF L, D, V

LEMMA FlattenNothing == FlattenSeq(<< >>) = << >>
BY DEF FlattenSeq

LEMMA FlattenIsText ==
  ASSUME NEW S, NEW q \in Seq(Seq(S))
  PROVE  FlattenSeq(q) \in Seq(S)
<1>. DEFINE V == Seq(S)
            L == Len(q)
<1>1. CASE L > 0
  <2>1. PICK w \in [1 .. L -> V] : FlattenSeq(q) = w[L]
    BY <1>1, FlattenIs
  <2>2. L \in 1 .. L
    BY <1>1, LenProperties
  <2>. HIDE DEF V, L
  <2>3. w[L] \in V
    BY <2>2
  <2>. QED  BY <2>1, <2>3 DEF V
<1>2. CASE ~(L > 0)
  <2>1. q = << >>
    BY <1>2
  <2>2. FlattenSeq(q) = << >>
    BY <2>1, FlattenNothing
  <2>. QED  BY <2>2
<1>. QED  BY <1>1, <1>2

\* One text more.
LEMMA FlattenAppend ==
  ASSUME NEW S, NEW q \in Seq(Seq(S)), NEW x \in Seq(S), NEW r \in Seq(Seq(S)),
         Len(r) = Len(q) + 1, r[Len(r)] = x, \A k \in 1 .. Len(q) : r[k] = q[k]
  PROVE  FlattenSeq(r) = FlattenSeq(q) \o x
<1>. DEFINE L == Len(q)
            M == Len(r)
            V == Seq(S)
<1>1. L \in Nat /\ M = L + 1 /\ M > 0
  BY LenProperties
<1>2. PICK w \in [1 .. M -> V] : IsFlatten(w, r, M) /\ FlattenSeq(r) = w[M]
  BY <1>1, FlattenIs
<1>3. CASE L = 0
  <2>1. q = << >> /\ M = 1
    BY <1>1, <1>3
  <2>2. FlattenSeq(q) = << >>
    BY <2>1, FlattenNothing
  <2>3. w[M] = r[M]
    <3>1. 1 \in 1 .. M
      BY <2>1
    <3>. HIDE DEF V, M
    <3>. QED  BY <1>2, <2>1, <3>1 DEF IsFlatten
  <2>4. << >> \o x = x
    OBVIOUS
  <2>. HIDE DEF V
  <2>. QED  BY <1>2, <2>2, <2>3, <2>4
<1>4. CASE L > 0
  <2>1. PICK v \in [1 .. L -> V] : IsFlatten(v, q, L) /\ FlattenSeq(q) = v[L]
    BY <1>4, FlattenIs
  <2>. DEFINE T == {k \in 0 .. L : k = 0 \/ w[k] = v[k]}
  <2>2. 0 \in T /\ T \in SUBSET (0 .. L)
    BY <1>1
  <2>3. ASSUME NEW k \in T, k < L PROVE k + 1 \in T
    <3>. DEFINE m == k + 1
    <3>1. m \in 1 .. L /\ m \in 1 .. M /\ m \in 0 .. L /\ k \in 0 .. L /\ m - 1 = k
      BY <1>1, <2>3
    <3>2. r[m] = q[m]
      BY <3>1
    <3>3. w[m] = IF m = 1 THEN r[m] ELSE w[m - 1] \o r[m]
      <4>. HIDE DEF m, V, M
      <4>. QED  BY <1>2, <3>1, Zenon DEF IsFlatten
    <3>4. v[m] = IF m = 1 THEN q[m] ELSE v[m - 1] \o q[m]
      <4>. HIDE DEF m, V, L
      <4>. QED  BY <2>1, <3>1, Zenon DEF IsFlatten
    <3>5. k = 0 \/ w[k] = v[k]
      BY <2>3
    <3>6. w[m] = v[m]
      <4>1. CASE k = 0
        <5>1. m = 1
          BY <4>1
        <5>. HIDE DEF m, V
        <5>. QED  BY <3>2, <3>3, <3>4, <5>1
      <4>2. CASE k # 0
        <5>1. m # 1 /\ w[m - 1] = v[m - 1]
          BY <3>1, <3>5, <4>2
        <5>. HIDE DEF m, V
        <5>. QED  BY <3>2, <3>3, <3>4, <5>1
      <4>. QED  BY <4>1, <4>2
    <3>. QED  BY <3>1, <3>6
  <2>4. T = 0 .. L
    <3>. HIDE DEF T, L, V
    <3>. QED  BY <1>1, <2>2, <2>3, BoundedInduction
  <2>5. w[L] = v[L]
    <3>1. L \in T /\ L # 0
      <4>. HIDE DEF T
      <4>. QED  BY <1>1, <1>4, <2>4
    <3>. QED  BY <3>1
  <2>6. w[M] = w[L] \o r[M]
    <3>1. M \in 1 .. M /\ M # 1 /\ M - 1 = L
      BY <1>1, <1>4
    <3>2. w[M] = IF M = 1 THEN r[M] ELSE w[M - 1] \o r[M]
      <4>. HIDE DEF M, V
      <4>. QED  BY <1>2, <3>1, Zenon DEF IsFlatten
    <3>. HIDE DEF M, L, V
    <3>. QED  BY <3>1, <3>2
  <2>. HIDE DEF V
  <2>. QED  BY <1>2, <2>1, <2>5, <2>6
<1>. QED  BY <1>1, <1>3, <1>4

-----------------------------------------------------------------------------
(* A row of a book.                                                         *)

\* A text and its padding.
Padded(t, pos) ==
  /\ PaddedTo(pos, t) \in Seq(Words)
  /\ Len(PaddedTo(pos, t)) = IF pos < Len(t) THEN Len(t) ELSE pos
  /\ pos < CAPACITY => appendUpTo(Filled(t), pos, " ") = Filled(PaddedTo(pos, t))

LEMMA PaddedIs ==
  ASSUME NEW t \in Seq(Words), NEW pos \in Nat
  PROVE  Padded(t, pos)
<1>. DEFINE c == " "
            z == pos - Len(t)
            b == Repeat(c, z)
            v == t \o b
<1>1. c \in Words
  <2>1. " " \in Letters /\ Letters \subseteq Words
    BY WordsHave, Zenon
  <2>. HIDE DEF Letters, Words
  <2>. QED  BY <2>1
<1>2. PaddedTo(pos, t) = v
  BY Zenon DEF PaddedTo
<1>. HIDE DEF c, Words
<1>3. Len(t) \in Nat /\ z \in Int
  BY LenProperties
<1>4. b \in Seq(Words) /\ Len(b) = IF z >= 0 THEN z ELSE 0
  <2>. HIDE DEF z
  <2>. QED  BY <1>1, <1>3, RepeatIs
<1>. HIDE DEF b
<1>5. v \in Seq(Words) /\ Joins(v, t, b)
  BY <1>4, ConcatIs
<1>. HIDE DEF v
<1>6. Len(v) = IF pos < Len(t) THEN Len(t) ELSE pos
  BY <1>3, <1>4, <1>5 DEF Joins
<1>7. pos < CAPACITY => appendUpTo(Filled(t), pos, c) = Filled(v)
  BY <1>1, FillUpTo DEF v, b, z
<1>. QED  BY <1>2, <1>5, <1>6, <1>7, Zenon DEF Padded, c

LEMMA LimitParts ==
  ASSUME NEW limit, limit.qty \in Nat, limit.price \in Nat
  PROVE  /\ convert_unsigned_integer(limit.qty) \in Seq(Words)
         /\ convert_unsigned_float(10 * limit.price, Precision) \in Seq(Words)
         /\ <<"@">> \in Seq(Words) /\ Len(<<"@">>) = 1
<1>. DEFINE x == limit.qty
            y == 10 * limit.price
            c == "@"
<1>1. x \in Nat /\ y \in Nat /\ Precision \in Nat
  BY OutputAssumption
<1>2. c \in Words
  BY WordsHave
<1>. HIDE DEF x, y, c, Words
<1>3. convert_unsigned_integer(x) \in Seq(Words) /\ convert_unsigned_float(y, Precision) \in Seq(Words)
  BY <1>1, IntegerText, FloatText
<1>4. <<c>> \in Seq(Words) /\ Len(<<c>>) = 1
  BY <1>2, OneCharacter
<1>. QED  BY <1>3, <1>4 DEF x, y, c

LEMMA LimitIsText ==
  ASSUME NEW limit, limit.qty \in Nat, limit.price \in Nat
  PROVE  LimitText(limit) \in Seq(Words)
<1>. DEFINE q  == convert_unsigned_integer(limit.qty)
            p  == convert_unsigned_float(10 * limit.price, Precision)
            at == <<"@">>
<1>1. q \in Seq(Words) /\ p \in Seq(Words) /\ at \in Seq(Words)
  BY LimitParts
<1>2. LimitText(limit) = (q \o at) \o p
  BY Zenon DEF LimitText
<1>. HIDE DEF q, p, at, Words
<1>3. q \o at \in Seq(Words)
  BY <1>1, JoinedText
<1>4. (q \o at) \o p \in Seq(Words)
  BY <1>1, <1>3, JoinedText
<1>. QED  BY <1>2, <1>4

\* A limit that fits is written.
LEMMA LimitIsWritten ==
  ASSUME NEW limit, limit.qty \in Nat, limit.price \in Nat, NEW t \in Seq(Words),
         Len(t) + Len(LimitText(limit)) <= CAPACITY
  PROVE  appendLimit(Filled(t), limit) = Filled(t \o LimitText(limit))
<1>. DEFINE q  == convert_unsigned_integer(limit.qty)
            p  == convert_unsigned_float(10 * limit.price, Precision)
            at == <<"@">>
            t1 == t \o q
            t2 == t1 \o at
            qa == q \o at
<1>1. q \in Seq(Words) /\ p \in Seq(Words) /\ at \in Seq(Words)
  BY LimitParts
<1>2. LimitText(limit) = qa \o p
  BY Zenon DEF LimitText
<1>3. appendLimit(Filled(t), limit) = append(append(append(Filled(t), q), at), p)
  BY Zenon DEF appendLimit, appendFloat, appendInteger
<1>. HIDE DEF q, p, at, Words
<1>4. qa \in Seq(Words) /\ Len(qa) = Len(q) + Len(at) /\ Len(q) \in Nat /\ Len(at) \in Nat
  BY <1>1, JoinedText
<1>5. t1 \in Seq(Words) /\ Len(t1) = Len(t) + Len(q) /\ Len(t) \in Nat
  BY <1>1, JoinedText
<1>6. t1 \o at = t \o qa
  <2>2. (t \o q) \o at = t \o (q \o at)
    <3>1. t \in Seq(Words) /\ q \in Seq(Words) /\ at \in Seq(Words)
      BY <1>1
    <3>. QED  BY <3>1, WordsReassociated, Zenon
  <2>. QED  BY <2>2 DEF t1, qa
<1>7. Len(t) + (Len(q) + Len(at) + Len(p)) <= CAPACITY /\ Len(p) \in Nat
  <2>. HIDE DEF qa
  <2>1. Len(qa \o p) = Len(qa) + Len(p) /\ Len(p) \in Nat
    BY <1>1, <1>4, JoinedText
  <2>. QED  BY <1>2, <1>4, <2>1
<1>8. append(Filled(t), q) = Filled(t1)
  <2>1. Len(t) + Len(q) <= CAPACITY
    BY <1>4, <1>5, <1>7, CapacityAssumption
  <2>. QED  BY <1>1, <2>1, FillAppend
<1>. HIDE DEF t1, qa
<1>9. t2 \in Seq(Words) /\ Len(t2) = Len(t1) + Len(at)
  BY <1>1, <1>5, JoinedText
<1>10. append(Filled(t1), at) = Filled(t2)
  <2>1. Len(t1) + Len(at) <= CAPACITY
    BY <1>4, <1>5, <1>7, CapacityAssumption
  <2>. QED  BY <1>1, <1>5, <2>1, FillAppend
<1>11. t2 \o p = t \o (qa \o p)
  <2>2. (t \o qa) \o p = t \o (qa \o p)
    <3>1. t \in Seq(Words) /\ qa \in Seq(Words) /\ p \in Seq(Words)
      BY <1>1, <1>4
    <3>. QED  BY <3>1, WordsReassociated, Zenon
  <2>. QED  BY <1>6, <2>2 DEF t2
<1>. HIDE DEF t2
<1>12. append(Filled(t2), p) = Filled(t2 \o p)
  <2>1. Len(t2) + Len(p) <= CAPACITY
    BY <1>4, <1>5, <1>7, <1>9, CapacityAssumption
  <2>. QED  BY <1>1, <1>9, <2>1, FillAppend
<1>. QED  BY <1>2, <1>3, <1>8, <1>10, <1>11, <1>12

-----------------------------------------------------------------------------
(* The limits and the rows the margin is there for.                        *)

SideLimits(side) ==
  [qty : Quantities, price : {Price(side, k) : k \in 1 .. MaxLimits}]

SideTexts(side) == {LimitText(limit) : limit \in SideLimits(side)} \cup {<<"empty">>}

LEMMA RowFits ==
  ASSUME NEW n \in 0 .. MaxLimits
  PROVE  /\ \A bid \in SideTexts("B"), ask \in SideTexts("S") :
              Len(RowOf(n, bid, ask)) <= CAPACITY - Margin
         /\ Len(RowOf(n, <<"empty">>, <<"empty">>)) <= Margin
BY MarginAssumption, Zenon DEF SideTexts, SideLimits

LEMMA PricesAreNatural ==
  ASSUME NEW side, NEW k \in 1 .. MaxLimits
  PROVE  Price(side, k) \in Nat
<1>. DEFINE P == PowerOfTen[Precision]
<1>1. P \in Nat /\ MaxLimits \in Nat /\ k \in Nat /\ k <= MaxLimits
  BY OutputAssumption, PowersGrow
<1>2. 3 * MaxLimits <= P + 10
  BY PriceAssumption
<1>3. Price(side, k) = IF side = "B" THEN P + 10 - 3 * k ELSE P + 8 + 93 * k
  BY DEF Price
<1>. HIDE DEF P
<1>. QED  BY <1>1, <1>2, <1>3

\* One side of a book.
IsSide(s, side) ==
  /\ Len(s) \in 0 .. MaxLimits
  /\ \A k \in 1 .. Len(s) : s[k] \in SideLimits(side)

LEMMA SideIs ==
  ASSUME NEW side, NEW s \in Side(side)
  PROVE  IsSide(s, side)
<1>1. PICK n \in 0 .. MaxLimits :
        \E q \in [1 .. n -> Quantities] :
          s = [k \in 1 .. n |-> [qty |-> q[k], price |-> Price(side, k)]]
  BY Zenon DEF Side
<1>2. PICK q \in [1 .. n -> Quantities] :
        s = [k \in 1 .. n |-> [qty |-> q[k], price |-> Price(side, k)]]
  BY <1>1
<1>3. n \in Nat /\ n <= MaxLimits /\ MaxLimits \in Nat
  BY OutputAssumption
<1>4. Len(s) = n
  BY <1>2, <1>3
<1>5. ASSUME NEW k \in 1 .. n PROVE s[k] \in SideLimits(side)
  <2>1. s[k] = [qty |-> q[k], price |-> Price(side, k)]
    BY <1>2
  <2>2. q[k] \in Quantities /\ k \in 1 .. MaxLimits
    BY <1>3
  <2>3. Price(side, k) \in {Price(side, j) : j \in 1 .. MaxLimits}
    BY <2>2
  <2>. QED  BY <2>1, <2>2, <2>3 DEF SideLimits
<1>. QED  BY <1>4, <1>5 DEF IsSide

LEMMA LimitNumbers ==
  ASSUME NEW side, NEW limit \in SideLimits(side)
  PROVE  limit.qty \in Nat /\ limit.price \in Nat
<1>1. limit.qty \in Quantities /\ Quantities \subseteq Nat
  BY OutputAssumption DEF SideLimits
<1>2. limit.price \in {Price(side, k) : k \in 1 .. MaxLimits}
  BY DEF SideLimits
<1>3. PICK k \in 1 .. MaxLimits : limit.price = Price(side, k)
  BY <1>2
<1>. QED  BY <1>1, <1>3, PricesAreNatural

LEMMA TextAtIs ==
  ASSUME NEW side, NEW s, IsSide(s, side), NEW n \in Nat
  PROVE  TextAt(s, n) \in SideTexts(side) /\ TextAt(s, n) \in Seq(Words)
<1>1. CASE n < Len(s)
  <2>. DEFINE m == n + 1
  <2>1. m \in 1 .. Len(s)
    BY <1>1 DEF IsSide
  <2>. HIDE DEF m
  <2>2. s[m] \in SideLimits(side)
    BY <2>1 DEF IsSide
  <2>3. TextAt(s, n) = LimitText(s[m])
    BY <1>1 DEF TextAt, m
  <2>4. LimitText(s[m]) \in SideTexts(side)
    BY <2>2, Zenon DEF SideTexts
  <2>5. LimitText(s[m]) \in Seq(Words)
    BY <2>2, LimitNumbers, LimitIsText
  <2>. QED  BY <2>3, <2>4, <2>5
<1>2. CASE ~(n < Len(s))
  <2>. DEFINE c == "empty"
  <2>1. TextAt(s, n) = <<c>>
    BY <1>2, Zenon DEF TextAt
  <2>2. <<c>> \in SideTexts(side)
    BY Zenon DEF SideTexts
  <2>3. c \in Words
    BY WordsHave
  <2>. HIDE DEF c, Words
  <2>4. <<c>> \in Seq(Words)
    BY <2>3, OneCharacter
  <2>. QED  BY <2>1, <2>2, <2>4
<1>. QED  BY <1>1, <1>2

-----------------------------------------------------------------------------
(* A row is written as it should be.                                        *)

\* A row in front of the asks.
FrontOf(n, bid) ==
  PaddedTo(AskColumn, PaddedTo(IndexColumn, convert_unsigned_integer(n)) \o <<":">> \o bid)

LEMMA Marks ==
  /\ <<":">> \in Seq(Words) /\ Len(<<":">>) = 1
  /\ <<"\n">> \in Seq(Words) /\ Len(<<"\n">>) = 1
  /\ <<"empty">> \in Seq(Words) /\ Len(<<"empty">>) = 1
  /\ "\n" \in Words
<1>. DEFINE c == ":"
            d == "\n"
            e == "empty"
<1>1. c \in Words /\ d \in Words /\ e \in Words
  BY WordsHave
<1>. HIDE DEF c, d, e, Words
<1>2. /\ <<c>> \in Seq(Words) /\ Len(<<c>>) = 1
      /\ <<d>> \in Seq(Words) /\ Len(<<d>>) = 1
      /\ <<e>> \in Seq(Words) /\ Len(<<e>>) = 1
  BY <1>1, OneCharacter
<1>. QED  BY <1>1, <1>2 DEF c, d, e

LEMMA TwoMarks == ASSUME NEW S, NEW a \in S, NEW b \in S PROVE <<a, b>> = <<a>> \o <<b>>
<1>. DEFINE u == <<a, b>>
            v == <<a>> \o <<b>>
<1>1. Len(<<a>>) = 1 /\ Len(<<b>>) = 1 /\ <<a>> \in Seq(S) /\ <<b>> \in Seq(S)
  OBVIOUS
<1>2. v \in Seq(S) /\ u \in Seq(S) /\ Len(u) = 2 /\ Len(v) = 2
  BY <1>1
<1>3. v[1] = u[1] /\ v[2] = u[2]
  BY <1>1
<1>4. \A k \in 1 .. 2 : u[k] = v[k]
  BY <1>3
<1>. HIDE DEF u, v
<1>5. u = v
 BY <1>2, <1>4, SameText
<1>. QED BY <1>5 DEF u, v

\* How the parts of a row's front add up.
Fronts(n, bid) ==
  LET index == PaddedTo(IndexColumn, convert_unsigned_integer(n))
      colon == index \o <<":">>
      front == colon \o bid
  IN  /\ convert_unsigned_integer(n) \in Seq(Words)
      /\ index \in Seq(Words) /\ colon \in Seq(Words) /\ front \in Seq(Words)
      /\ FrontOf(n, bid) \in Seq(Words)
      /\ Len(convert_unsigned_integer(n)) \in Nat
      /\ Len(convert_unsigned_integer(n)) <= Len(index)
      /\ IndexColumn <= Len(index) /\ Len(index) \in Nat
      /\ Len(colon) = Len(index) + 1
      /\ Len(front) = Len(colon) + Len(bid) /\ Len(bid) \in Nat
      /\ Len(front) <= Len(FrontOf(n, bid)) /\ AskColumn <= Len(FrontOf(n, bid))
      /\ Len(FrontOf(n, bid)) \in Nat

LEMMA FrontsAre ==
  ASSUME NEW n \in Nat, NEW bid \in Seq(Words)
  PROVE  Fronts(n, bid)
<1>. DEFINE num   == convert_unsigned_integer(n)
            index == PaddedTo(IndexColumn, num)
            mark  == <<":">>
            colon == index \o mark
            front == colon \o bid
            all   == PaddedTo(AskColumn, front)
<1>1. num \in Seq(Words) /\ mark \in Seq(Words) /\ Len(mark) = 1
      /\ IndexColumn \in Nat /\ AskColumn \in Nat
  BY IntegerText, Marks, OutputAssumption
<1>2. FrontOf(n, bid) = all
  BY Zenon DEF FrontOf
<1>3. Fronts(n, bid) =
        (/\ num \in Seq(Words)
         /\ index \in Seq(Words) /\ colon \in Seq(Words) /\ front \in Seq(Words)
         /\ FrontOf(n, bid) \in Seq(Words)
         /\ Len(num) \in Nat /\ Len(num) <= Len(index)
         /\ IndexColumn <= Len(index) /\ Len(index) \in Nat
         /\ Len(colon) = Len(index) + 1
         /\ Len(front) = Len(colon) + Len(bid) /\ Len(bid) \in Nat
         /\ Len(front) <= Len(FrontOf(n, bid)) /\ AskColumn <= Len(FrontOf(n, bid))
         /\ Len(FrontOf(n, bid)) \in Nat)
  BY Zenon DEF Fronts
<1>. HIDE DEF num, mark, Words
<1>4. Len(num) \in Nat /\ Len(bid) \in Nat
  BY <1>1, LenProperties
<1>5. index \in Seq(Words) /\ Len(index) = IF IndexColumn < Len(num) THEN Len(num) ELSE IndexColumn
  BY <1>1, PaddedIs DEF Padded
<1>6. Len(num) <= Len(index) /\ IndexColumn <= Len(index) /\ Len(index) \in Nat
  <2>. HIDE DEF index
  <2>. QED  BY <1>1, <1>4, <1>5
<1>. HIDE DEF index
<1>7. colon \in Seq(Words) /\ Len(colon) = Len(index) + 1
  BY <1>1, <1>5, JoinedText
<1>. HIDE DEF colon
<1>8. front \in Seq(Words) /\ Len(front) = Len(colon) + Len(bid)
  BY <1>7, JoinedText
<1>. HIDE DEF front
<1>9. all \in Seq(Words) /\ Len(all) = IF AskColumn < Len(front) THEN Len(front) ELSE AskColumn
  BY <1>1, <1>8, PaddedIs DEF Padded
<1>10. Len(front) <= Len(all) /\ AskColumn <= Len(all) /\ Len(all) \in Nat
  <2>1. Len(front) \in Nat
    BY <1>8, LenProperties
  <2>. HIDE DEF all
  <2>. QED  BY <1>1, <1>9, <2>1
<1>. HIDE DEF all
<1>. QED  BY <1>1, <1>2, <1>3, <1>4, <1>5, <1>6, <1>7, <1>8, <1>9, <1>10

LEMMA RowParts ==
  ASSUME NEW n \in Nat, NEW bid \in Seq(Words), NEW ask \in Seq(Words)
  PROVE  /\ FrontOf(n, bid) \in Seq(Words) /\ FrontOf(n, bid) \o ask \in Seq(Words)
         /\ RowOf(n, bid, ask) = FrontOf(n, bid) \o ask \o <<"\n">>
         /\ RowOf(n, bid, ask) \in Seq(Words)
         /\ Len(FrontOf(n, bid) \o ask) = Len(FrontOf(n, bid)) + Len(ask)
         /\ Len(RowOf(n, bid, ask)) = Len(FrontOf(n, bid)) + Len(ask) + 1
         /\ Len(FrontOf(n, bid)) \in Nat /\ Len(ask) \in Nat
<1>. DEFINE f == FrontOf(n, bid)
            e == <<"\n">>
            g == f \o ask
            h == g \o e
<1>1. RowOf(n, bid, ask) = h
  BY Zenon DEF RowOf, FrontOf
<1>2. f \in Seq(Words) /\ Len(f) \in Nat
  BY FrontsAre, Zenon DEF Fronts
<1>3. e \in Seq(Words) /\ Len(e) = 1
  BY Marks
<1>. HIDE DEF f, e, Words
<1>4. g \in Seq(Words) /\ Len(g) = Len(f) + Len(ask) /\ Len(ask) \in Nat
  BY <1>2, JoinedText
<1>. HIDE DEF g
<1>5. h \in Seq(Words) /\ Len(h) = Len(g) + 1
  <2>1. h \in Seq(Words) /\ Len(h) = Len(g) + Len(e)
    BY <1>3, <1>4, JoinedText
  <2>. QED  BY <1>3, <2>1
<1>. HIDE DEF h
<1>. QED  BY <1>1, <1>2, <1>4, <1>5 DEF f, g, h, e

LEMMA BidPartIs ==
  ASSUME i \in Nat, IsSide(input.bids, "B"),
         Len(FrontOf(i, TextAt(input.bids, i))) < CAPACITY
  PROVE  BidPart = Filled(FrontOf(i, TextAt(input.bids, i)))
<1>. DEFINE bid   == TextAt(input.bids, i)
            num   == convert_unsigned_integer(i)
            index == PaddedTo(IndexColumn, num)
            mark  == <<":">>
            colon == index \o mark
            front == colon \o bid
            all   == PaddedTo(AskColumn, front)
            limit == input.bids[i + 1]
            s1    == appendUpTo(append(NewStream, num), IndexColumn, " ")
            s2    == append(s1, mark)
            s3    == IF i < Len(input.bids) THEN appendLimit(s2, limit)
                                            ELSE append(s2, <<"empty">>)
<1>1. BidPart = appendUpTo(s3, AskColumn, " ")
  BY Zenon DEF BidPart, appendInteger
<1>2. bid \in Seq(Words) /\ mark \in Seq(Words) /\ Len(mark) = 1 /\ NewStream = Filled(<< >>)
      /\ IndexColumn \in Nat /\ AskColumn \in Nat /\ FrontOf(i, bid) = all
  <2>1. bid \in Seq(Words)
    BY TextAtIs
  <2>. QED  BY <2>1, Marks, OutputAssumption DEF NewStream, Filled, FrontOf
<1>3. /\ num \in Seq(Words)
      /\ index \in Seq(Words) /\ colon \in Seq(Words) /\ front \in Seq(Words)
      /\ Len(num) \in Nat /\ Len(num) <= Len(index)
      /\ IndexColumn <= Len(index) /\ Len(index) \in Nat
      /\ Len(colon) = Len(index) + 1
      /\ Len(front) = Len(colon) + Len(bid) /\ Len(bid) \in Nat
      /\ Len(front) <= Len(all) /\ AskColumn <= Len(all)
      /\ Len(all) \in Nat
  <2>1. Fronts(i, bid)
    <3>. HIDE DEF bid
    <3>. QED  BY <1>2, FrontsAre
  <2>. HIDE DEF bid
  <2>. QED  BY <1>2, <2>1, Zenon DEF Fronts
<1>4. IndexColumn < CAPACITY /\ AskColumn < CAPACITY /\ Len(num) < CAPACITY
      /\ Len(colon) < CAPACITY /\ Len(front) < CAPACITY
  <2>1. Len(all) < CAPACITY
    BY <1>2
  <2>. HIDE DEF bid, num, index, mark, colon, front, all
  <2>. QED  BY <1>2, <1>3, <2>1, CapacityAssumption
<1>5. Padded(num, IndexColumn) /\ Padded(front, AskColumn)
  <2>. HIDE DEF num, front
  <2>. QED  BY <1>2, <1>3, PaddedIs
<1>6. append(NewStream, num) = Filled(num)
  <2>. DEFINE o == << >>
  <2>1. o \in Seq(Words) /\ Len(o) = 0 /\ o \o num = num
    <3>. HIDE DEF num, Words
    <3>. QED  BY <1>3
  <2>. HIDE DEF o, num, Words
  <2>2. Len(o) + Len(num) <= CAPACITY
    BY <1>3, <1>4, <2>1, CapacityAssumption
  <2>3. append(Filled(o), num) = Filled(o \o num)
    BY <1>3, <2>1, <2>2, FillAppend
  <2>. QED  BY <1>2, <2>1, <2>3 DEF o
<1>7. s1 = Filled(index)
  <2>. HIDE DEF num
  <2>. QED  BY <1>4, <1>5, <1>6 DEF Padded
<1>. HIDE DEF s1, num, index, mark
<1>8. s2 = Filled(colon)
  <2>1. Len(index) + Len(mark) <= CAPACITY
    BY <1>2, <1>3, <1>4, CapacityAssumption
  <2>2. append(Filled(index), mark) = Filled(index \o mark)
    BY <1>2, <1>3, <2>1, FillAppend
  <2>. QED  BY <1>7, <2>2
<1>. HIDE DEF s2, colon
<1>9. s3 = Filled(front)
  <2>1. Len(colon) + Len(bid) <= CAPACITY
    <3>. HIDE DEF front
    <3>. QED  BY <1>3, <1>4, CapacityAssumption
  <2>2. CASE i < Len(input.bids)
    <3>1. bid = LimitText(limit)
      BY <2>2 DEF TextAt
    <3>2. limit.qty \in Nat /\ limit.price \in Nat
      <4>. DEFINE k == i + 1
      <4>1. k \in 1 .. Len(input.bids)
        BY <2>2 DEF IsSide
      <4>. HIDE DEF k
      <4>2. input.bids[k] \in SideLimits("B")
        BY <4>1 DEF IsSide
      <4>3. input.bids[k].qty \in Nat /\ input.bids[k].price \in Nat
        BY <4>2, LimitNumbers
      <4>. QED  BY <4>3 DEF k
    <3>. HIDE DEF limit, bid
    <3>3. appendLimit(Filled(colon), limit) = Filled(colon \o LimitText(limit))
      BY <1>3, <2>1, <3>1, <3>2, LimitIsWritten
    <3>. QED  BY <1>8, <2>2, <3>1, <3>3
  <2>3. CASE ~(i < Len(input.bids))
    <3>1. bid = <<"empty">>
      BY <2>3, Zenon DEF TextAt
    <3>2. append(Filled(colon), bid) = Filled(colon \o bid)
      <4>. HIDE DEF bid
      <4>. QED  BY <1>2, <1>3, <2>1, FillAppend
    <3>3. s3 = append(s2, bid)
      BY <2>3, <3>1, Zenon
    <3>. HIDE DEF bid, s3
    <3>. QED  BY <1>8, <3>2, <3>3
  <2>. QED  BY <2>2, <2>3
<1>. HIDE DEF s3, front, bid
<1>10. appendUpTo(Filled(front), AskColumn, " ") = Filled(all)
  BY <1>4, <1>5 DEF Padded
<1>. QED  BY <1>1, <1>2, <1>9, <1>10 DEF bid

LEMMA RowIs ==
  ASSUME i \in Nat, IsSide(input.bids, "B"), IsSide(input.asks, "S"),
         Len(RowText(i)) <= CAPACITY
  PROVE  Row = Filled(RowText(i))
<1>. DEFINE bid   == TextAt(input.bids, i)
            ask   == TextAt(input.asks, i)
            f     == FrontOf(i, bid)
            nl    == "\n"
            limit == input.asks[i + 1]
            g     == f \o ask
<1>1. bid \in Seq(Words) /\ ask \in Seq(Words)
  BY TextAtIs
<1>2. f \in Seq(Words) /\ g \in Seq(Words) /\ RowText(i) = g \o <<nl>>
      /\ Len(RowText(i)) = Len(f) + Len(ask) + 1 /\ Len(g) = Len(f) + Len(ask)
      /\ Len(f) \in Nat /\ Len(ask) \in Nat
  <2>1. RowText(i) = RowOf(i, bid, ask)
    BY Zenon DEF RowText
  <2>2. /\ f \in Seq(Words) /\ g \in Seq(Words)
        /\ RowOf(i, bid, ask) = g \o <<"\n">>
        /\ Len(g) = Len(f) + Len(ask)
        /\ Len(RowOf(i, bid, ask)) = Len(f) + Len(ask) + 1
        /\ Len(f) \in Nat /\ Len(ask) \in Nat
    <3>. HIDE DEF bid, ask
    <3>. QED  BY <1>1, RowParts, Zenon
  <2>. QED  BY <2>1, <2>2, Zenon
<1>3. Len(f) < CAPACITY /\ Len(f) + Len(ask) <= CAPACITY /\ Len(g) < CAPACITY
      /\ Len(g) + 1 <= CAPACITY
  <2>. HIDE DEF f, ask, g
  <2>. QED  BY <1>2, CapacityAssumption
<1>4. BidPart = Filled(f)
  BY <1>3, BidPartIs
<1>5. nl \in Words
  BY Marks
<1>. HIDE DEF f, nl, Words
<1>6. CASE i < Len(input.asks)
  <2>1. ask = LimitText(limit)
    BY <1>6 DEF TextAt
  <2>2. limit.qty \in Nat /\ limit.price \in Nat
    <3>. DEFINE k == i + 1
    <3>1. k \in 1 .. Len(input.asks)
      BY <1>6 DEF IsSide
    <3>. HIDE DEF k
    <3>2. input.asks[k] \in SideLimits("S")
      BY <3>1 DEF IsSide
    <3>3. input.asks[k].qty \in Nat /\ input.asks[k].price \in Nat
      BY <3>2, LimitNumbers
    <3>. QED  BY <3>3 DEF k
  <2>3. Row = put(appendLimit(BidPart, limit), nl)
    BY <1>6, Zenon DEF Row, nl
  <2>. HIDE DEF limit, ask
  <2>4. appendLimit(Filled(f), limit) = Filled(f \o LimitText(limit))
    BY <1>2, <1>3, <2>1, <2>2, LimitIsWritten
  <2>. HIDE DEF g
  <2>5. put(Filled(g), nl) = Filled(g \o <<nl>>)
    BY <1>2, <1>3, <1>5, FillPut
  <2>. QED  BY <1>2, <1>4, <2>1, <2>3, <2>4, <2>5 DEF g
<1>7. CASE ~(i < Len(input.asks))
  <2>. DEFINE e == "empty"
              m == <<nl>>
  <2>1. ask = <<e>>
    BY <1>7, Zenon DEF TextAt
  <2>2. Row = append(BidPart, <<e, nl>>)
    BY <1>7, Zenon DEF Row, nl
  <2>. HIDE DEF e
  <2>3. <<e, nl>> = <<e>> \o <<nl>>
    <3>1. e \in Words
      BY WordsHave DEF e
    <3>2. <<e, nl>> = <<e>> \o <<nl>>
      <4>. HIDE DEF m
      <4>. QED  BY <1>5, <3>1, TwoMarks
    <3>. QED  BY <3>2
  <2>. HIDE DEF ask
  <2>4. m \in Seq(Words) /\ Len(m) = 1
    BY <1>5, OneCharacter
  <2>. HIDE DEF m
  <2>. DEFINE b == ask \o m
  <2>5. b \in Seq(Words) /\ Len(b) = Len(ask) + 1
    BY <1>1, <2>4, JoinedText
  <2>6. g \o m = f \o b
    <3>2. (f \o ask) \o m = f \o (ask \o m)
      <4>1. f \in Seq(Words) /\ ask \in Seq(Words) /\ m \in Seq(Words)
        BY <1>1, <1>2, <2>4
      <4>. QED  BY <4>1, WordsReassociated, Zenon
    <3>. QED  BY <3>2
  <2>. HIDE DEF b, g
  <2>7. Len(f) + Len(b) <= CAPACITY
    BY <1>2, <1>3, <2>5, CapacityAssumption
  <2>8. append(Filled(f), b) = Filled(f \o b)
    BY <1>2, <2>5, <2>7, FillAppend
  <2>9. b = <<e, nl>>
    BY <2>1, <2>3 DEF b, m
  <2>. QED  BY <1>2, <1>4, <2>2, <2>6, <2>8, <2>9 DEF m
<1>. QED  BY <1>6, <1>7

-----------------------------------------------------------------------------
(* The print of a book.                                                     *)

RowIn(book, n) == RowOf(n, TextAt(book.bids, n), TextAt(book.asks, n))

RowsOf(book) == Max({Len(book.bids), Len(book.asks)})

\* What is printed up to row m.
Printed(book, m) ==
  <<"Full Bids/Asks:", "\n">> \o FlattenSeq([n \in 1 .. m |-> RowIn(book, n - 1)])

BookState(book, k, s, o) ==
  /\ k \in 0 .. RowsOf(book) + 1
  /\ s = Filled(s.str_) /\ s.str_ \in Seq(Words) /\ o \in Seq(Words)
  /\ k <= RowsOf(book) => /\ Len(s.str_) <= CAPACITY - Margin
                          /\ o \o s.str_ = Printed(book, k)
  /\ k > RowsOf(book) => /\ Len(s.str_) <= CAPACITY
                         /\ o = Printed(book, k)

BookInv == task = "book" => input \in Books /\ BookState(input, i, stream, out)

\* What is known of a book.
IsBook(book) ==
  /\ IsSide(book.bids, "B") /\ IsSide(book.asks, "S")
  /\ RowsOf(book) \in 0 .. MaxLimits
  /\ Len(book.bids) <= RowsOf(book) /\ Len(book.asks) <= RowsOf(book)
  /\ \A n \in Nat : RowIn(book, n) \in Seq(Words)
  /\ \A n \in 0 .. MaxLimits : Len(RowIn(book, n)) <= CAPACITY - Margin

LEMMA BookIs ==
  ASSUME NEW book \in Books
  PROVE  IsBook(book)
<1>1. book.bids \in Side("B") /\ book.asks \in Side("S")
  BY DEF Books
<1>2. IsSide(book.bids, "B") /\ IsSide(book.asks, "S")
  BY <1>1, SideIs
<1>3. /\ RowsOf(book) \in 0 .. MaxLimits
      /\ Len(book.bids) <= RowsOf(book) /\ Len(book.asks) <= RowsOf(book)
  <2>. DEFINE a == Len(book.bids)
              b == Len(book.asks)
  <2>1. a \in 0 .. MaxLimits /\ b \in 0 .. MaxLimits /\ MaxLimits \in Nat
    BY <1>2, OutputAssumption DEF IsSide
  <2>. HIDE DEF a, b
  <2>2. Max({a, b}) \in {a, b} /\ a <= Max({a, b}) /\ b <= Max({a, b})
    BY <2>1, MaxOfTwo
  <2>3. RowsOf(book) = Max({a, b})
    BY DEF RowsOf, a, b
  <2>. QED  BY <2>1, <2>2, <2>3 DEF a, b
<1>4. ASSUME NEW n \in Nat PROVE RowIn(book, n) \in Seq(Words)
  <2>1. TextAt(book.bids, n) \in Seq(Words) /\ TextAt(book.asks, n) \in Seq(Words)
    BY <1>2, TextAtIs
  <2>. HIDE DEF Words
  <2>. QED  BY <2>1, RowParts, Zenon DEF RowIn
<1>5. ASSUME NEW n \in 0 .. MaxLimits PROVE Len(RowIn(book, n)) <= CAPACITY - Margin
  <2>1. n \in Nat
    BY OutputAssumption
  <2>2. TextAt(book.bids, n) \in SideTexts("B") /\ TextAt(book.asks, n) \in SideTexts("S")
    BY <1>2, <2>1, TextAtIs
  <2>. QED  BY <2>2, RowFits, Zenon DEF RowIn
<1>. QED  BY <1>2, <1>3, <1>4, <1>5 DEF IsBook

LEMMA HeaderIs == <<"Full Bids/Asks:", "\n">> \in Seq(Words)
<1>. DEFINE c == "Full Bids/Asks:"
            d == "\n"
<1>1. c \in Words /\ d \in Words
  BY WordsHave
<1>. HIDE DEF c, d, Words
<1>2. <<c, d>> \in Seq(Words)
  BY <1>1
<1>. QED  BY <1>2 DEF c, d

LEMMA PrintedNothing ==
  ASSUME NEW book
  PROVE  Printed(book, 0) = <<"Full Bids/Asks:", "\n">>
<1>. DEFINE h == <<"Full Bids/Asks:", "\n">>
            r == [n \in 1 .. 0 |-> RowIn(book, n - 1)]
<1>1. r = << >>
  OBVIOUS
<1>2. Printed(book, 0) = h \o FlattenSeq(r)
  BY Zenon DEF Printed
<1>3. h \in Seq(Words)
  BY HeaderIs
<1>. HIDE DEF h, r, Words
<1>4. h \o << >> = h
  BY <1>3
<1>. QED  BY <1>1, <1>2, <1>4, FlattenNothing DEF h

\* One row more.
LEMMA PrintedMore ==
  ASSUME NEW book, IsBook(book), NEW k \in Nat
  PROVE  /\ Printed(book, k) \in Seq(Words)
         /\ Printed(book, k + 1) = Printed(book, k) \o RowIn(book, k)
<1>. DEFINE h == <<"Full Bids/Asks:", "\n">>
            Rs(m) == [n \in 1 .. m |-> RowIn(book, n - 1)]
            l == k + 1
            q == Rs(k)
            r == Rs(l)
            x == RowIn(book, k)
<1>1. ASSUME NEW m \in Nat PROVE Rs(m) \in Seq(Seq(Words)) /\ Len(Rs(m)) = m
  <2>. DEFINE V == Seq(Words)
  <2>1. \A n \in 1 .. m : RowIn(book, n - 1) \in V
    BY DEF IsBook
  <2>. HIDE DEF V
  <2>2. Rs(m) \in [1 .. m -> V]
    BY <2>1
  <2>. DEFINE z == Rs(m)
  <2>3. z \in [1 .. m -> V]
    BY <2>2
  <2>. HIDE DEF z
  <2>4. z \in Seq(V) /\ Len(z) = m
    BY <2>3
  <2>. QED  BY <2>4 DEF z, V
<1>2. l \in Nat /\ l = k + 1
  OBVIOUS
<1>3. q \in Seq(Seq(Words)) /\ r \in Seq(Seq(Words)) /\ Len(q) = k /\ Len(r) = l
  <2>. HIDE DEF l, Rs
  <2>. QED  BY <1>1, <1>2
<1>4. x \in Seq(Words)
  BY DEF IsBook
<1>5. r[l] = x /\ \A j \in 1 .. k : r[j] = q[j]
  <2>1. l \in 1 .. l /\ l - 1 = k
    BY <1>2
  <2>2. \A j \in 1 .. k : j \in 1 .. l
    BY <1>2
  <2>. HIDE DEF l
  <2>. QED  BY <2>1, <2>2
<1>6. Printed(book, k) = h \o FlattenSeq(q) /\ Printed(book, l) = h \o FlattenSeq(r)
  BY Zenon DEF Printed
<1>7. h \in Seq(Words)
  BY HeaderIs
<1>. HIDE DEF h, Rs, q, r, x, l, Words
<1>8. FlattenSeq(r) = FlattenSeq(q) \o x
  <2>1. Len(r) = Len(q) + 1 /\ r[Len(r)] = x /\ \A j \in 1 .. Len(q) : r[j] = q[j]
    BY <1>2, <1>3, <1>5
  <2>2. q \in Seq(Seq(Words)) /\ r \in Seq(Seq(Words))
    BY <1>3
  <2>3. ASSUME NEW a \in Seq(Seq(Words)), NEW b \in Seq(Words), NEW c \in Seq(Seq(Words)),
               Len(c) = Len(a) + 1, c[Len(c)] = b, \A j \in 1 .. Len(a) : c[j] = a[j]
        PROVE  FlattenSeq(c) = FlattenSeq(a) \o b
    BY <2>3, FlattenAppend, SMTT(30)
  <2>. QED  BY <1>4, <2>1, <2>2, <2>3, Zenon
<1>9. FlattenSeq(q) \in Seq(Words)
  BY <1>3, FlattenIsText
<1>10. Printed(book, k) \in Seq(Words)
  BY <1>6, <1>7, <1>9, JoinedText
<1>11. Printed(book, l) = Printed(book, k) \o x
  <2>2. (h \o FlattenSeq(q)) \o x = h \o (FlattenSeq(q) \o x)
    <3>1. h \in Seq(Words) /\ FlattenSeq(q) \in Seq(Words) /\ x \in Seq(Words)
      BY <1>4, <1>7, <1>9
    <3>. QED  BY <3>1, WordsReassociated, Zenon
  <2>. QED  BY <1>6, <1>8, <2>2
<1>. QED  BY <1>10, <1>11 DEF l, x

LEMMA BookInitially ==
  ASSUME Init
  PROVE  BookInv
<1>. SUFFICES ASSUME task = "book" PROVE input \in Books /\ BookState(input, i, stream, out)
  BY DEF BookInv
<1>1. input \in Books
  BY DEF Init
<1>2. stream = Filled(<< >>) /\ i = 0 /\ out = <<"Full Bids/Asks:", "\n">>
  BY Zenon DEF Init, NewStream, Filled
<1>3. RowsOf(input) \in Nat
  BY <1>1, BookIs, OutputAssumption DEF IsBook
<1>4. out = Printed(input, i)
  BY <1>2, PrintedNothing, Zenon
<1>5. out \in Seq(Words)
  BY <1>2, HeaderIs, Zenon
<1>. DEFINE e == << >>
<1>6. stream.str_ = e /\ e \in Seq(Words) /\ Len(e) = 0 /\ out \o e = out
  <2>1. stream.str_ = e
    BY <1>2 DEF Filled
  <2>. HIDE DEF Words
  <2>. QED  BY <1>5, <2>1
<1>. HIDE DEF e, Words
<1>7. stream = Filled(stream.str_)
  BY <1>2, <1>6 DEF e
<1>8. i \in 0 .. RowsOf(input) + 1 /\ i <= RowsOf(input) /\ Len(e) <= CAPACITY - Margin
  <2>. DEFINE R == RowsOf(input)
  <2>1. R \in Nat /\ i = 0 /\ Len(e) = 0
    BY <1>2, <1>3, <1>6
  <2>. HIDE DEF R
  <2>2. i \in 0 .. R + 1 /\ i <= R
    BY <2>1
  <2>3. Len(e) <= CAPACITY - Margin
    <3>1. CAPACITY \in Nat /\ Margin \in Nat /\ Margin < CAPACITY
      BY OutputAssumption, CapacityAssumption
    <3>. QED  BY <2>1, <3>1
  <2>. QED  BY <2>2, <2>3 DEF R
<1>. QED  BY <1>1, <1>3, <1>4, <1>5, <1>6, <1>7, <1>8 DEF BookState

LEMMA BookRow ==
  ASSUME BookInv, printRow
  PROVE  BookInv'
<1>. DEFINE t == stream.str_
            R == Rows
            k == i + 1
            row == RowIn(input, i)
<1>1. task = "book" /\ i < R /\ input \in Books /\ BookState(input, i, stream, out)
      /\ i' = k /\ input' = input /\ R = RowsOf(input)
  BY Zenon DEF printRow, BookInv, Rows, RowsOf
<1>2. IsBook(input)
  BY <1>1, BookIs
<1>3. i \in Nat /\ R \in Nat /\ R <= MaxLimits /\ i \in 0 .. MaxLimits /\ i <= R
      /\ k \in 0 .. R + 1 /\ k <= R
  <2>1. i \in 0 .. R + 1 /\ R \in 0 .. MaxLimits /\ MaxLimits \in Nat
    BY <1>1, <1>2, OutputAssumption DEF BookState, IsBook
  <2>. HIDE DEF R
  <2>. QED  BY <1>1, <2>1
<1>4. /\ stream = Filled(t) /\ t \in Seq(Words) /\ out \in Seq(Words)
      /\ Len(t) <= CAPACITY - Margin /\ out \o t = Printed(input, i)
  BY <1>1, <1>3 DEF BookState
<1>5. row \in Seq(Words) /\ Len(row) <= CAPACITY - Margin
  BY <1>2, <1>3 DEF IsBook
<1>6. CAPACITY \in Nat /\ Margin \in Nat /\ CAPACITY - Margin <= CAPACITY
  BY CapacityAssumption, OutputAssumption
<1>7. Row = Filled(row)
  <2>1. RowText(i) = row
    BY Zenon DEF RowText, RowIn
  <2>2. Len(row) <= CAPACITY /\ IsSide(input.bids, "B") /\ IsSide(input.asks, "S")
    <3>1. Len(row) \in Nat
      <4>. HIDE DEF row
      <4>. QED  BY <1>5, LenProperties
    <3>. HIDE DEF row
    <3>. QED  BY <1>2, <1>5, <1>6, <3>1 DEF IsBook
  <2>. HIDE DEF row
  <2>. QED  BY <1>3, <2>1, <2>2, RowIs
<1>. HIDE DEF R, row, t
<1>8. length(stream) = Len(t) /\ c_str(stream) = t /\ length(Row) = Len(row) /\ c_str(Row) = row
      /\ Len(t) \in Nat /\ Len(row) \in Nat
  BY <1>4, <1>5, <1>7, FilledIs
<1>9. Printed(input, k) = Printed(input, i) \o row
  BY <1>2, <1>3, PrintedMore DEF row
<1>. HIDE DEF k, Words
<1>12. k \in 0 .. RowsOf(input) + 1 /\ k <= RowsOf(input) /\ ~(k > RowsOf(input))
  <2>1. R = RowsOf(input) /\ R \in Nat /\ k \in 0 .. R + 1 /\ k <= R /\ ~(k > R)
    BY <1>1, <1>3
  <2>. QED  BY <2>1
<1>10. CASE Len(t) + Len(row) > CAPACITY - Margin
  <2>1. out' = out \o t /\ stream' = append(clear(stream), row)
    BY <1>8, <1>10 DEF printRow
  <2>. DEFINE o == << >>
  <2>2. clear(stream) = Filled(o)
    BY <1>4, FillClear
  <2>3. o \in Seq(Words) /\ Len(o) = 0 /\ o \o row = row
    BY <1>5
  <2>. HIDE DEF o
  <2>4. Len(o) + Len(row) <= CAPACITY
    BY <1>5, <1>6, <1>8, <2>3
  <2>5. append(Filled(o), row) = Filled(o \o row)
    BY <1>5, <2>3, <2>4, FillAppend
  <2>6. stream' = Filled(row)
    BY <2>1, <2>2, <2>3, <2>5
  <2>7. stream'.str_ = row
    BY <1>5, <2>6, FilledIs
  <2>8. out' \in Seq(Words)
    BY <1>4, <2>1, JoinedText
  <2>9. out' \o row = Printed(input, k)
    BY <1>4, <1>9, <2>1
  <2>10. BookState(input, k, stream', out')
    BY <1>1, <1>3, <1>5, <2>6, <2>7, <2>8, <2>9 DEF BookState
  <2>. QED  BY <1>1, <2>10 DEF BookInv
<1>11. CASE ~(Len(t) + Len(row) > CAPACITY - Margin)
  <2>1. out' = out /\ stream' = append(stream, row)
    BY <1>8, <1>11 DEF printRow
  <2>. DEFINE u == t \o row
  <2>2. u \in Seq(Words) /\ Len(u) = Len(t) + Len(row)
    BY <1>4, <1>5, JoinedText
  <2>. HIDE DEF u
  <2>3. Len(t) + Len(row) <= CAPACITY /\ Len(u) <= CAPACITY - Margin
    BY <1>6, <1>8, <1>11, <2>2
  <2>4. append(Filled(t), row) = Filled(u)
    BY <1>4, <1>5, <2>3, FillAppend DEF u
  <2>5. stream' = Filled(u)
    BY <1>4, <2>1, <2>4
  <2>6. stream'.str_ = u
    BY <2>2, <2>5, FilledIs
  <2>7. out' \o u = Printed(input, k)
    <3>2. (out \o t) \o row = out \o (t \o row)
      <4>1. out \in Seq(Words) /\ t \in Seq(Words) /\ row \in Seq(Words)
        BY <1>4, <1>5
      <4>. QED  BY <4>1, WordsReassociated, Zenon
    <3>. QED  BY <1>4, <1>9, <2>1, <3>2 DEF u
  <2>8. out' \in Seq(Words) /\ Len(u) <= CAPACITY - Margin /\ u \in Seq(Words)
    BY <1>4, <2>1, <2>2, <2>3
  <2>9. BookState(input, k, stream', out')
    BY <1>12, <2>5, <2>6, <2>7, <2>8 DEF BookState
  <2>. QED  BY <1>1, <2>9 DEF BookInv
<1>. QED  BY <1>10, <1>11

LEMMA BookLastRow ==
  ASSUME BookInv, printLastRow
  PROVE  BookInv'
<1>. DEFINE t == stream.str_
            R == Rows
            k == i + 1
            e == "empty"
            n == "\n"
            row == RowIn(input, i)
            f == FrontOf(i, <<e>>)
<1>1. task = "book" /\ i = R /\ input \in Books /\ BookState(input, i, stream, out)
      /\ i' = k /\ input' = input /\ R = RowsOf(input)
      /\ stream' = append(append(stream, c_str(BidPart)), <<e, n>>)
      /\ out' = out \o c_str(stream')
  BY Zenon DEF printLastRow, BookInv, Rows, RowsOf
<1>2. IsBook(input)
  BY <1>1, BookIs
<1>3. i \in Nat /\ R \in Nat /\ i \in 0 .. MaxLimits /\ i <= R
      /\ k \in 0 .. R + 1 /\ k > R /\ ~(k <= R)
  <2>1. R \in 0 .. MaxLimits /\ MaxLimits \in Nat
    BY <1>1, <1>2, OutputAssumption DEF IsBook
  <2>. HIDE DEF R
  <2>. QED  BY <1>1, <2>1
<1>4. /\ stream = Filled(t) /\ t \in Seq(Words) /\ out \in Seq(Words)
      /\ Len(t) <= CAPACITY - Margin /\ out \o t = Printed(input, i)
  BY <1>1, <1>3 DEF BookState
<1>5. CAPACITY \in Nat /\ Margin \in Nat /\ Margin < CAPACITY
  BY CapacityAssumption, OutputAssumption
<1>6. TextAt(input.bids, i) = <<e>> /\ TextAt(input.asks, i) = <<e>>
  <2>1. ~(i < Len(input.bids)) /\ ~(i < Len(input.asks))
    <3>1. Len(input.bids) <= R /\ Len(input.asks) <= R
          /\ Len(input.bids) \in 0 .. MaxLimits /\ Len(input.asks) \in 0 .. MaxLimits
      BY <1>1, <1>2 DEF IsBook, IsSide
    <3>. HIDE DEF R
    <3>. QED  BY <1>1, <1>3, <3>1
  <2>. QED  BY <2>1, Zenon DEF TextAt
<1>7. e \in Words /\ n \in Words
  BY WordsHave
<1>. DEFINE g == f \o <<e>>
            h == <<e>> \o <<n>>
<1>8. /\ f \in Seq(Words) /\ g \in Seq(Words) /\ row = g \o <<n>>
      /\ Len(row) = Len(f) + Len(<<e>>) + 1 /\ Len(f) \in Nat /\ Len(<<e>>) = 1
      /\ Len(row) <= Margin
  <2>1. <<e>> \in Seq(Words) /\ Len(<<e>>) = 1
    BY Marks
  <2>2. row = RowOf(i, <<e>>, <<e>>)
    BY <1>6, Zenon DEF RowIn
  <2>3. /\ f \in Seq(Words) /\ g \in Seq(Words) /\ RowOf(i, <<e>>, <<e>>) = g \o <<n>>
        /\ Len(RowOf(i, <<e>>, <<e>>)) = Len(f) + Len(<<e>>) + 1 /\ Len(f) \in Nat
    <3>. DEFINE m == <<e>>
    <3>. HIDE DEF m
    <3>. QED  BY <1>3, <2>1, RowParts, Zenon DEF m
  <2>4. Len(RowOf(i, <<e>>, <<e>>)) <= Margin
    BY <1>3, RowFits, Zenon
  <2>. QED  BY <2>1, <2>2, <2>3, <2>4, Zenon
<1>9. c_str(BidPart) = f
  <2>1. Len(f) < CAPACITY
    <3>. HIDE DEF row, f, e
    <3>. QED  BY <1>5, <1>8
  <2>2. BidPart = Filled(f)
    <3>1. IsSide(input.bids, "B")
      BY <1>2 DEF IsBook
    <3>2. FrontOf(i, TextAt(input.bids, i)) = f
      BY <1>6, Zenon
    <3>. HIDE DEF f
    <3>. QED  BY <1>3, <2>1, <3>1, <3>2, BidPartIs
  <2>. HIDE DEF f
  <2>. QED  BY <1>8, <2>2, FilledIs
<1>10. Printed(input, k) = Printed(input, i) \o row
  BY <1>2, <1>3, PrintedMore
<1>11. k > RowsOf(input) /\ ~(k <= RowsOf(input)) /\ k \in 0 .. RowsOf(input) + 1
  BY <1>1, <1>3
<1>. HIDE DEF R, row, t, f, e, n, k, Words
<1>12. h \in Seq(Words) /\ Len(h) = 2 /\ <<n>> \in Seq(Words) /\ <<e>> \in Seq(Words) /\ h = <<e, n>>
  <2>1. /\ <<n>> \in Seq(Words) /\ Len(<<n>>) = 1
        /\ <<e>> \in Seq(Words) /\ Len(<<e>>) = 1
    BY <1>7, OneCharacter
  <2>2. h = <<e, n>>
    <3>1. <<e, n>> = <<e>> \o <<n>>
      BY <1>7, TwoMarks
    <3>. QED  BY <3>1
  <2>3. h \in Seq(Words) /\ Len(h) = Len(<<e>>) + Len(<<n>>)
    <3>. DEFINE a == <<e>>
                b == <<n>>
    <3>1. a \in Seq(Words) /\ b \in Seq(Words)
      BY <2>1
    <3>. HIDE DEF a, b
    <3>2. a \o b \in Seq(Words) /\ Len(a \o b) = Len(a) + Len(b)
      BY <3>1, JoinedText
    <3>. QED  BY <3>2 DEF a, b
  <2>. QED  BY <2>1, <2>2, <2>3
<1>. DEFINE u == t \o f
            v == u \o h
<1>13. u \in Seq(Words) /\ Len(u) = Len(t) + Len(f) /\ Len(t) \in Nat
  BY <1>4, <1>8, JoinedText
<1>14. row = f \o h
  <2>2. (f \o <<e>>) \o <<n>> = f \o (<<e>> \o <<n>>)
    <3>1. f \in Seq(Words) /\ <<e>> \in Seq(Words) /\ <<n>> \in Seq(Words)
      BY <1>8, <1>12
    <3>. QED  BY <3>1, WordsReassociated, Zenon
  <2>. QED  BY <1>8, <2>2
<1>15. Len(t) + Len(f) <= CAPACITY /\ Len(u) + Len(h) <= CAPACITY
  <2>. HIDE DEF u, h
  <2>. QED  BY <1>4, <1>5, <1>8, <1>12, <1>13
<1>16. append(Filled(t), f) = Filled(u)
  BY <1>4, <1>8, <1>15, FillAppend
<1>17. append(Filled(u), h) = Filled(v)
  <2>. HIDE DEF u, h
  <2>. QED  BY <1>12, <1>13, <1>15, FillAppend
<1>18. stream' = Filled(v)
  BY <1>1, <1>4, <1>9, <1>12, <1>16, <1>17
<1>19. v \in Seq(Words) /\ Len(v) <= CAPACITY
  <2>. HIDE DEF u, h
  <2>1. v \in Seq(Words) /\ Len(v) = Len(u) + Len(h)
    BY <1>12, <1>13, JoinedText
  <2>. QED  BY <1>15, <2>1
<1>20. v = t \o row
  <2>. HIDE DEF h
  <2>2. (t \o f) \o h = t \o (f \o h)
    <3>1. t \in Seq(Words) /\ f \in Seq(Words) /\ h \in Seq(Words)
      BY <1>4, <1>8, <1>12
    <3>. QED  BY <3>1, WordsReassociated, Zenon
  <2>. QED  BY <1>14, <2>2
<1>21. row \in Seq(Words)
  <2>. HIDE DEF h
  <2>. QED  BY <1>8, <1>12, <1>14, JoinedText
<1>. HIDE DEF u, v, g, h
<1>22. stream'.str_ = v /\ c_str(stream') = v
  BY <1>18, <1>19, FilledIs
<1>23. out' = Printed(input, k) /\ out' \in Seq(Words)
  <2>1. out' = out \o v
    BY <1>1, <1>22
  <2>3. (out \o t) \o row = out \o (t \o row)
    <3>1. out \in Seq(Words) /\ t \in Seq(Words) /\ row \in Seq(Words)
      BY <1>4, <1>21
    <3>. QED  BY <3>1, WordsReassociated, Zenon
  <2>. QED  BY <1>4, <1>10, <1>19, <1>20, <2>1, <2>3, JoinedText
<1>24. BookState(input, k, stream', out')
  BY <1>11, <1>18, <1>19, <1>22, <1>23 DEF BookState
<1>. QED  BY <1>1, <1>24 DEF BookInv

LEMMA BookStep ==
  ASSUME BookInv, [Next]_vars
  PROVE  BookInv'
<1>1. CASE printRow
  BY <1>1, BookRow
<1>2. CASE printLastRow
  BY <1>2, BookLastRow
<1>3. CASE UNCHANGED vars
  <2>1. UNCHANGED <<task, input, i, stream, out>>
    BY <1>3 DEF vars
  <2>. QED  BY <2>1, Zenon DEF BookInv
<1>4. CASE writeNumber \/ streamPiece \/ printSummary \/ Client
  <2>1. task' = task /\ task # "book"
    BY <1>4 DEF writeNumber, streamPiece, printSummary, Client, useAppend,
                usePutAll, useAppendUpTo, useClear, Use
  <2>. QED  BY <2>1 DEF BookInv
<1>. QED  BY <1>1, <1>2, <1>3, <1>4 DEF Next, Done

LEMMA BookPrinted == BookInv => BookPrintedInFull
<1>. SUFFICES ASSUME BookInv, task = "book" PROVE BookPrintedInFull
  BY DEF BookPrintedInFull
<1>. DEFINE t == stream.str_
<1>1. input \in Books /\ BookState(input, i, stream, out)
  BY Zenon DEF BookInv
<1>2. Rows = RowsOf(input)
  BY Zenon DEF Rows, RowsOf
<1>3. ~Overflowed(stream)
  <2>1. stream = Filled(t) /\ t \in Seq(Words)
    BY <1>1, Zenon DEF BookState
  <2>. HIDE DEF t, Words
  <2>. QED  BY <2>1, FilledIs
<1>4. ASSUME i > Rows
      PROVE  out = <<"Full Bids/Asks:", "\n">>
                   \o FlattenSeq([n \in 1 .. (Rows + 1) |-> RowText(n - 1)])
  <2>. DEFINE m == Rows + 1
  <2>1. i = m
    <3>1. RowsOf(input) \in Nat
      BY <1>1, BookIs, OutputAssumption DEF IsBook
    <3>. QED  BY <1>1, <1>2, <1>4, <3>1 DEF BookState
  <2>2. out = Printed(input, m)
    BY <1>1, <1>2, <1>4, <2>1 DEF BookState
  <2>. HIDE DEF m
  <2>3. Printed(input, m) = <<"Full Bids/Asks:", "\n">>
                            \o FlattenSeq([n \in 1 .. m |-> RowText(n - 1)])
    BY Zenon DEF Printed, RowText, RowIn
  <2>4. out = <<"Full Bids/Asks:", "\n">>
              \o FlattenSeq([n \in 1 .. m |-> RowText(n - 1)])
    BY <2>2, <2>3, Zenon
  <2>. QED  BY <2>4, Zenon DEF m
<1>. QED  BY <1>3, <1>4, Zenon DEF BookPrintedInFull

\* The print of a book has every row of the book, in order and once, wherever
\* the stream of printCurrentOrderBook was flushed, and the stream never overflows.
THEOREM BookPrintedInFullAlways == Spec => []BookPrintedInFull
<1>1. Init => BookInv
  BY BookInitially
<1>2. BookInv /\ [Next]_vars => BookInv'
  BY BookStep
<1>3. BookInv => BookPrintedInFull
  BY BookPrinted
<1>. QED  BY <1>1, <1>2, <1>3, PTL DEF Spec

-----------------------------------------------------------------------------
(* The summary.                                                             *)

\* A sum over counters is a number.
LEMMA TotalIsNatural ==
  ASSUME NEW C, NEW errors \in [C -> Nat], NEW b \in Seq(C)
  PROVE  Total(errors, b) \in Nat
<1>. DEFINE L    == Len(b)
            all  == DOMAIN b
            sets == SUBSET all
            Turn(g, x) == IF x = {} THEN 0 ELSE g[x \ {Max(x)}] + errors[b[Max(x)]]
            iter == CHOOSE g : g = [x \in sets |-> Turn(g, x)]
            step == [x \in Nat \X (1 .. L) |-> x[1] + errors[b[x[2]]]]
<1>1. Total(errors, b) = iter[all]
  BY Zenon DEF Total, FoldLeft, MapThenFoldSet
<1>2. L \in Nat /\ all = 1 .. L
  BY LenProperties
<1>3. \A k \in 1 .. L : errors[b[k]] \in Nat
  <2>1. \A k \in 1 .. L : b[k] \in C
    BY <1>2, ElementOfSeq
  <2>. QED  BY <2>1
<1>4. step \in [Nat \X (1 .. L) -> Nat]
  <2>1. ASSUME NEW v \in Nat, NEW k \in 1 .. L PROVE v + errors[b[k]] \in Nat
    BY <1>3
  <2>. HIDE DEF L
  <2>. QED  BY <2>1
<1>5. PICK f \in [sets -> Nat] : IsFold(f, L, 0, step)
  <2>. DEFINE z == 0
  <2>0. z \in Nat
    OBVIOUS
  <2>. HIDE DEF L, step, z
  <2>1. \E g \in [SUBSET (1 .. L) -> Nat] : IsFold(g, L, z, step)
    BY <1>2, <1>4, <2>0, FoldHasSolution
  <2>. HIDE DEF all
  <2>. QED  BY <1>2, <2>1 DEF z
<1>6. ASSUME NEW x \in sets PROVE f[x] = Turn(f, x)
  <2>0. f[x] = IF x = {} THEN 0 ELSE step[<<f[x \ {Max(x)}], Max(x)>>]
    <3>. HIDE DEF step
    <3>. QED  BY <1>2, <1>5 DEF IsFold
  <2>1. CASE x = {}
    BY <2>0, <2>1
  <2>2. CASE x # {}
    <3>1. Max(x) \in x
      <4>1. x \in SUBSET Nat /\ x \subseteq 1 .. L
        BY <1>2
      <4>. QED  BY <1>2, <2>2, <4>1, MaxIsGreatest
    <3>2. Max(x) \in 1 .. L /\ f[x \ {Max(x)}] \in Nat
      BY <1>2, <3>1
    <3>. DEFINE m == Max(x)
                y == f[x \ {m}]
    <3>3. m \in 1 .. L /\ y \in Nat /\ f[x] = step[<<y, m>>]
      BY <2>0, <2>2, <3>2
    <3>. HIDE DEF m, y, L
    <3>4. step[<<y, m>>] = y + errors[b[m]]
      BY <3>3
    <3>. QED  BY <2>2, <3>3, <3>4 DEF m, y
  <2>. QED  BY <2>1, <2>2
<1>7. f = [x \in sets |-> Turn(f, x)]
  <2>1. f = [x \in sets |-> f[x]]
    OBVIOUS
  <2>. HIDE DEF Turn
  <2>. QED  BY <1>6, <2>1
<1>8. iter = [x \in sets |-> Turn(iter, x)]
  <2>. HIDE DEF Turn
  <2>. QED  BY <1>7, Zenon
<1>. HIDE DEF iter
<1>9. \A x \in sets : iter[x] = Turn(iter, x)
  <2>. HIDE DEF Turn
  <2>. QED  BY <1>8, Zenon
<1>. DEFINE T == {k \in 0 .. L : iter[1 .. k] \in Nat}
<1>10. 0 \in T
  <2>1. 1 .. 0 = {} /\ {} \in sets /\ 0 \in 0 .. L
    BY <1>2
  <2>2. iter[{}] = 0
    BY <1>9, <2>1
  <2>. QED  BY <2>1, <2>2
<1>11. ASSUME NEW k \in 0 .. L, k < L
       PROVE  /\ k + 1 \in 0 .. L /\ k + 1 \in 1 .. L
              /\ iter[1 .. (k + 1)] = iter[1 .. k] + errors[b[k + 1]]
  <2>. DEFINE x == 1 .. (k + 1)
              m == k + 1
  <2>1. x \in sets /\ x # {} /\ Max(x) = m /\ x \ {m} = 1 .. k /\ m \in 0 .. L
    <3>. HIDE DEF L, Turn, step, T
    <3>1. Max(x) = m /\ x \ {m} = 1 .. k
      BY <1>2, <1>11, FrontOfNumbers
    <3>2. k \in Nat /\ m \in 0 .. L /\ x \subseteq 1 .. L /\ 1 \in x
      BY <1>2, <1>11
    <3>3. x \in sets /\ x # {}
      BY <1>2, <3>2
    <3>. QED  BY <3>1, <3>2, <3>3
  <2>2. m \in 1 .. L
    BY <1>2, <1>11
  <2>. HIDE DEF m, x
  <2>3. iter[x] = iter[1 .. k] + errors[b[m]]
    BY <1>9, <2>1
  <2>. QED  BY <2>1, <2>2, <2>3 DEF m, x
<1>12. L \in T
  <2>1. T \in SUBSET (0 .. L) /\ \A k \in T : k < L => k + 1 \in T
    <3>1. ASSUME NEW k \in 0 .. L, k < L, iter[1 .. k] \in Nat
          PROVE  k + 1 \in T
      <4>. DEFINE m == k + 1
                  y == iter[1 .. k]
                  z == errors[b[m]]
      <4>1. m \in 0 .. L /\ m \in 1 .. L /\ iter[1 .. m] = y + z
        BY <1>11, <3>1
      <4>2. y \in Nat /\ z \in Nat
        BY <1>3, <3>1, <4>1
      <4>. HIDE DEF m, y, z, L
      <4>. QED  BY <4>1, <4>2 DEF m
    <3>. HIDE DEF L
    <3>. QED  BY <3>1
  <2>. HIDE DEF T, L
  <2>2. T = 0 .. L
    BY <1>2, <1>10, <2>1, BoundedInduction
  <2>. QED  BY <1>2, <2>2
<1>13. iter[1 .. L] \in Nat
  <2>. HIDE DEF L
  <2>. QED  BY <1>12
<1>. QED  BY <1>1, <1>2, <1>13

LEMMA LinesAre ==
  /\ NoteLines \in Seq(Counters) /\ ErrorLines \in Seq(Counters)
  /\ CriticalLines \in Seq(Counters)
  /\ SummedErrors \in Seq(Counters) /\ SummedCriticalErrors \in Seq(Counters)
<1>1. ASSUME NEW s, NEW n \in Nat, DOMAIN s = 1 .. n, s = [k \in 1 .. n |-> s[k]],
             Range(s) \subseteq Counters
      PROVE  s \in Seq(Counters)
  <2>1. \A k \in 1 .. n : s[k] \in Counters
    <3>1. \A k \in DOMAIN s : s[k] \in Range(s)
      BY DEF Range
    <3>. HIDE DEF Counters
    <3>. QED  BY <1>1, <3>1
  <2>. HIDE DEF Counters
  <2>2. [k \in 1 .. n |-> s[k]] \in Seq(Counters)
    BY <2>1
  <2>. QED  BY <1>1, <2>2
<1>2. DOMAIN NoteLines = 1 .. 2 /\ NoteLines = [k \in 1 .. 2 |-> NoteLines[k]]
  BY DEF NoteLines
<1>3. DOMAIN ErrorLines = 1 .. 24 /\ ErrorLines = [k \in 1 .. 24 |-> ErrorLines[k]]
  BY DEF ErrorLines
<1>4. DOMAIN CriticalLines = 1 .. 4 /\ CriticalLines = [k \in 1 .. 4 |-> CriticalLines[k]]
  BY DEF CriticalLines
<1>5. /\ Range(NoteLines) \subseteq Counters /\ Range(ErrorLines) \subseteq Counters
      /\ Range(CriticalLines) \subseteq Counters
  BY DEF Counters
<1>6. SummedErrors = ErrorLines
  BY DEF SummedErrors, ErrorLines
<1>7. SummedCriticalErrors = CriticalLines
  BY DEF SummedCriticalErrors, CriticalLines
<1>. HIDE DEF Counters
<1>8. 2 \in Nat /\ 24 \in Nat /\ 4 \in Nat
  OBVIOUS
<1>9. NoteLines \in Seq(Counters)
  BY <1>1, <1>2, <1>5, <1>8
<1>10. ErrorLines \in Seq(Counters)
  BY <1>1, <1>3, <1>5, <1>8
<1>11. CriticalLines \in Seq(Counters)
  BY <1>1, <1>4, <1>5, <1>8
<1>. QED  BY <1>6, <1>7, <1>9, <1>10, <1>11

LEMMA CountsAre ==
  ASSUME NEW n \in ErrorCounts
  PROVE  n \in [Counters -> Nat]
<1>. DEFINE all == NoteLines \o ErrorLines \o CriticalLines
            place(c) == SelectInSeq(all, LAMBDA d : d = c)
<1>1. ASSUME NEW c PROVE place(c) \in Nat
  <2>. DEFINE at == {k \in 1 .. Len(all) : all[k] = c}
  <2>1. place(c) = IF at # {} THEN Min(at) ELSE 0
    BY DEF SelectInSeq
  <2>2. at \in SUBSET Nat
    OBVIOUS
  <2>. HIDE DEF at, place
  <2>3. at # {} => Min(at) \in Nat
    <3>1. ASSUME at # {} PROVE Min(at) \in Nat
      <4>1. PICK m \in at : m \in Nat
        BY <2>2, <3>1
      <4>2. PICK k \in at : \A j \in at : k <= j
        BY <2>2, <4>1, LeastNatural
      <4>3. Min(at) \in at
        BY <4>2 DEF Min
      <4>. QED  BY <2>2, <4>3
    <3>. QED  BY <3>1
  <2>. QED  BY <2>1, <2>3
<1>2. ASSUME NEW S PROVE Counts(S) \in [Counters -> Nat]
  <2>1. Counts(S) = [c \in Counters |-> IF c \in S THEN place(c) ELSE 0]
    BY Zenon DEF Counts
  <2>. HIDE DEF place, Counters
  <2>. QED  BY <1>1, <2>1
<1>. DEFINE D == {{c, d} : c \in Counters, d \in Counters} \cup {{}, Counters}
<1>3. ErrorCounts = {Counts(counted) : counted \in D}
  BY DEF ErrorCounts
<1>. HIDE DEF D
<1>4. \E S \in D : n = Counts(S)
  <2>1. n \in {Counts(counted) : counted \in D}
    BY <1>3
  <2>. QED  BY <2>1, Zenon
<1>. QED  BY <1>2, <1>4, Zenon

Texts == Seq(Words)

LEMMA SummaryWords ==
  /\ "\n" \in Words /\ "[" \in Words /\ "]" \in Words /\ "Summary:" \in Words
  /\ "Found" \in Words /\ "error:" \in Words /\ "No error found" \in Words
  /\ "Found [" \in Words /\ "critical error:" \in Words
  /\ "No critical error found" \in Words /\ "Summary length:" \in Words
BY Zenon DEF Words

LEMMA OneText ==
  ASSUME NEW a \in Words
  PROVE  <<a>> \in Texts
<1>. HIDE DEF Words
<1>. QED  BY OneCharacter DEF Texts

LEMMA TwoTexts ==
  ASSUME NEW a \in Words, NEW b \in Words
  PROVE  <<a, b>> \in Texts
<1>. HIDE DEF Words
<1>. QED  BY DEF Texts

LEMMA NumberTextIs ==
  ASSUME NEW n \in Nat
  PROVE  convert_unsigned_integer(n) \in Texts
BY IntegerText DEF Texts

LEMMA CounterLinesAre ==
  ASSUME input \in [Counters -> Nat], NEW counters \in Seq(Counters)
  PROVE  CounterLines(counters) \in Seq(Texts)
<1>. DEFINE V == Seq(Texts)
            a == "\n"
            b == "["
            d == "]"
            At(n) == IF input[counters[n]] = 0 THEN << >>
                     ELSE <<<<a, b>>, convert_unsigned_integer(input[counters[n]]),
                            <<d, counters[n]>>>>
            q == [n \in DOMAIN counters |-> At(n)]
<1>1. CounterLines(counters) = FlattenSeq(q)
  BY Zenon DEF CounterLines
<1>2. a \in Words /\ b \in Words /\ d \in Words /\ \A c \in Counters : c \in Words
  BY SummaryWords, WordsHave, Zenon
<1>. HIDE DEF a, b, d
<1>3. ASSUME NEW n \in 1 .. Len(counters) PROVE At(n) \in V
  <2>. DEFINE c == counters[n]
              x == <<a, b>>
              y == convert_unsigned_integer(input[c])
              z == <<d, c>>
  <2>1. c \in Counters
    <3>. HIDE DEF Counters
    <3>. QED  BY ElementOfSeq
  <2>2. c \in Words /\ input[c] \in Nat
    <3>. HIDE DEF c, Counters, Words
    <3>. QED  BY <1>2, <2>1
  <2>3. x \in Texts /\ y \in Texts /\ z \in Texts
    <3>. HIDE DEF c, Words
    <3>. QED  BY <1>2, <2>2, TwoTexts, NumberTextIs
  <2>4. At(n) = IF input[c] = 0 THEN << >> ELSE <<x, y, z>>
    BY Zenon
  <2>. HIDE DEF x, y, z, At
  <2>5. << >> \in V /\ <<x, y, z>> \in V
    BY <2>3
  <2>. HIDE DEF V
  <2>. QED  BY <2>4, <2>5
<1>4. DOMAIN counters = 1 .. Len(counters) /\ Len(counters) \in Nat
  <2>. HIDE DEF Counters
  <2>. QED  BY LenProperties
<1>5. q \in Seq(V)
  <2>. HIDE DEF V, At
  <2>1. q = [n \in 1 .. Len(counters) |-> At(n)]
    BY <1>4
  <2>2. [n \in 1 .. Len(counters) |-> At(n)] \in Seq(V)
    BY <1>3, <1>4
  <2>. QED  BY <2>1, <2>2
<1>. HIDE DEF q
<1>6. FlattenSeq(q) \in Seq(Texts)
  BY <1>5, FlattenIsText
<1>. QED  BY <1>1, <1>6

LEMMA PiecesAre ==
  ASSUME input \in [Counters -> Nat]
  PROVE  SummaryPieces \in Seq(Texts)
<1>. DEFINE nl    == "\n"
            first == <<<<"Summary:">>>>
            notes == CounterLines(NoteLines)
            e1    == <<nl, "Found">>
            e2    == convert_unsigned_integer(nbErrors(input))
            e3    == <<"error:">>
            e4    == CounterLines(ErrorLines)
            e5    == <<nl, "No error found">>
            c1    == <<nl, "Found [">>
            c2    == convert_unsigned_integer(nbCriticalErrors(input))
            c3    == <<"critical error:">>
            c4    == CounterLines(CriticalLines)
            c5    == <<nl, "No critical error found">>
            last  == <<<<nl>>>>
            e     == IF nbErrors(input) > 0 THEN <<e1, e2, e3>> \o e4 ELSE <<e5>>
            c     == IF nbCriticalErrors(input) > 0 THEN <<c1, c2, c3>> \o c4 ELSE <<c5>>
            s     == <<"Summary:">>
            l     == <<nl>>
<1>1. SummaryPieces = first \o notes \o e \o c \o last
  BY Zenon DEF SummaryPieces
<1>2. /\ e1 \in Texts /\ e3 \in Texts /\ e5 \in Texts /\ c1 \in Texts /\ c3 \in Texts
      /\ c5 \in Texts /\ s \in Texts /\ l \in Texts
  BY SummaryWords, OneText, TwoTexts, Zenon
<1>3. nbErrors(input) \in Nat /\ nbCriticalErrors(input) \in Nat
  <2>. HIDE DEF Counters
  <2>. QED  BY LinesAre, TotalIsNatural DEF nbErrors, nbCriticalErrors
<1>4. e2 \in Texts /\ c2 \in Texts
  BY <1>3, NumberTextIs
<1>5. notes \in Seq(Texts) /\ e4 \in Seq(Texts) /\ c4 \in Seq(Texts)
  <2>. HIDE DEF Counters
  <2>. QED  BY LinesAre, CounterLinesAre
<1>6. first = <<s>> /\ last = <<l>>
  OBVIOUS
<1>. HIDE DEF nl, first, notes, e1, e2, e3, e4, e5, c1, c2, c3, c4, c5, last, s, l
<1>7. first \in Seq(Texts) /\ last \in Seq(Texts)
  <2>1. <<s>> \in Seq(Texts) /\ <<l>> \in Seq(Texts)
    BY <1>2, OneCharacter
  <2>. QED  BY <1>6, <2>1
<1>8. e \in Seq(Texts)
  <2>. DEFINE a == <<e1, e2, e3>>
              b == <<e5>>
  <2>1. a \in Seq(Texts) /\ b \in Seq(Texts)
    BY <1>2, <1>4
  <2>. HIDE DEF a, b
  <2>2. a \o e4 \in Seq(Texts)
    BY <1>5, <2>1, JoinedText
  <2>. QED  BY <2>1, <2>2 DEF a, b
<1>9. c \in Seq(Texts)
  <2>. DEFINE a == <<c1, c2, c3>>
              b == <<c5>>
  <2>1. a \in Seq(Texts) /\ b \in Seq(Texts)
    BY <1>2, <1>4
  <2>. HIDE DEF a, b
  <2>2. a \o c4 \in Seq(Texts)
    BY <1>5, <2>1, JoinedText
  <2>. QED  BY <2>1, <2>2 DEF a, b
<1>. HIDE DEF e, c
<1>10. first \o notes \in Seq(Texts)
  BY <1>5, <1>7, JoinedText
<1>11. first \o notes \o e \in Seq(Texts)
  BY <1>8, <1>10, JoinedText
<1>12. first \o notes \o e \o c \in Seq(Texts)
  BY <1>9, <1>11, JoinedText
<1>13. first \o notes \o e \o c \o last \in Seq(Texts)
  BY <1>7, <1>12, JoinedText
<1>. QED  BY <1>1, <1>13

-----------------------------------------------------------------------------
(* The types of the streams.                                                *)

\* The stream of the summary holds text, and was never cleared.
Sound(s) == ~Cleared(s) /\ \E t : Holds(Words, s, t)

SummaryInv ==
  task = "summary" => input \in ErrorCounts /\ i \in Nat /\ Sound(stream)

LEMMA AppendKeepsSound ==
  ASSUME NEW s, Sound(s), NEW b \in Texts
  PROVE  Sound(append(s, b))
<1>. DEFINE next == append(s, b)
<1>1. PICK t : Holds(Words, s, t)
  BY DEF Sound
<1>2. Junk \in Words /\ b \in Seq(Words)
  BY WordsHave DEF Texts
<1>. HIDE DEF Words
<1>3. Appended(Words, next, s, t, b)
  BY <1>1, <1>2, AppendHolds
<1>4. ~Cleared(s)
  BY DEF Sound
<1>5. Holds(Words, next, Cut(t \o b))
  BY <1>3, <1>4, Zenon DEF Appended
<1>. HIDE DEF next
<1>6. ~Cleared(next)
  BY <1>3, <1>4 DEF Appended, Cleared
<1>. QED  BY <1>5, <1>6, Zenon DEF Sound, next

LEMMA PutKeepsSound ==
  ASSUME NEW s, Sound(s), NEW c \in Words
  PROVE  Sound(put(s, c))
<1>. DEFINE next == put(s, c)
<1>1. PICK t : Holds(Words, s, t)
  BY DEF Sound
<1>2. Junk \in Words
  BY WordsHave
<1>. HIDE DEF Words
<1>3. Appended(Words, next, s, t, <<c>>)
  BY <1>1, <1>2, PutHolds
<1>4. ~Cleared(s)
  BY DEF Sound
<1>5. Holds(Words, next, Cut(t \o <<c>>))
  BY <1>3, <1>4, Zenon DEF Appended
<1>. HIDE DEF next
<1>6. ~Cleared(next)
  BY <1>3, <1>4 DEF Appended, Cleared
<1>. QED  BY <1>5, <1>6, Zenon DEF Sound, next

LEMMA SummaryStep ==
  ASSUME SummaryInv, [Next]_vars
  PROVE  SummaryInv'
<1>. SUFFICES ASSUME task' = "summary" PROVE SummaryInv'
  BY DEF SummaryInv
<1>1. task = "summary" /\ input' = input
  BY TaskStays
<1>2. input \in ErrorCounts /\ i \in Nat /\ Sound(stream)
  BY <1>1 DEF SummaryInv
<1>3. SummaryPieces \in Seq(Texts)
  BY <1>2, CountsAre, PiecesAre
<1>4. CASE streamPiece
  <2>. DEFINE k == i + 1
              b == SummaryPieces[k]
  <2>1. stream' = append(stream, b) /\ i' = k /\ i < Len(SummaryPieces)
    BY <1>4 DEF streamPiece
  <2>2. b \in Texts /\ k \in Nat
    <3>1. Len(SummaryPieces) \in Nat
      BY <1>3, LenProperties
    <3>2. k \in 1 .. Len(SummaryPieces)
      BY <1>2, <2>1, <3>1
    <3>. HIDE DEF k
    <3>. QED  BY <1>3, <3>1, <3>2, ElementOfSeq
  <2>. HIDE DEF b
  <2>3. Sound(append(stream, b))
    BY <1>2, <2>2, AppendKeepsSound
  <2>. QED  BY <1>1, <1>2, <2>1, <2>2, <2>3 DEF SummaryInv
<1>5. CASE printSummary
  <2>. DEFINE w == "Summary length:"
              nl == "\n"
              announced == append(stream, <<w>>)
  <2>1. /\ i' = i + 1
        /\ \/ stream' = stream
           \/ \E s \in {stream, announced} :
                stream' = put(append(announced, convert_unsigned_integer(length(s))), nl)
    BY <1>5, Zenon DEF printSummary, appendInteger
  <2>2. w \in Words /\ nl \in Words
    BY SummaryWords, Zenon
  <2>3. <<w>> \in Texts
    BY <2>2, OneText
  <2>4. Sound(announced)
    <3>. HIDE DEF w
    <3>. QED  BY <1>2, <2>3, AppendKeepsSound
  <2>5. ASSUME NEW s, Sound(s) PROVE length(s) \in Nat
    <3>1. PICK t : Holds(Words, s, t)
      BY <2>5 DEF Sound
    <3>. HIDE DEF Words
    <3>. QED  BY <3>1, HoldsFields DEF length
  <2>. HIDE DEF w, nl, announced
  <2>6. ASSUME NEW s, Sound(s)
        PROVE  Sound(put(append(announced, convert_unsigned_integer(length(s))), nl))
    <3>1. convert_unsigned_integer(length(s)) \in Texts
      BY <2>5, <2>6, NumberTextIs
    <3>2. Sound(append(announced, convert_unsigned_integer(length(s))))
      BY <2>4, <3>1, AppendKeepsSound
    <3>. QED  BY <2>2, <3>2, PutKeepsSound
  <2>7. Sound(stream')
    BY <1>2, <2>1, <2>4, <2>6
  <2>. QED  BY <1>1, <1>2, <2>1, <2>7 DEF SummaryInv
<1>6. CASE UNCHANGED <<i, stream>>
  BY <1>1, <1>2, <1>6 DEF SummaryInv
<1>7. streamPiece \/ printSummary \/ UNCHANGED <<i, stream>>
  BY <1>1 DEF Next, writeNumber, printRow, printLastRow,
              Client, useAppend, usePutAll, useAppendUpTo, useClear, Use, Done, vars
<1>. QED  BY <1>4, <1>5, <1>6, <1>7

LEMMA SummaryInitially ==
  ASSUME Init
  PROVE  SummaryInv
<1>1. Sound(NewStream)
  BY NewStreamHolds, Zenon DEF Sound
<1>. QED  BY <1>1 DEF Init, SummaryInv

\* What TypeOK says of the stream.
Typed(s) ==
  /\ size(s) <= CAPACITY /\ s.sizeOver_ \in Nat /\ s.sizeOver_ <= CAPACITY_MAX
  /\ Overflowed(s) => s.sizeOver_ = Len(s.strOver_)

LEMMA HoldsIsTyped ==
  ASSUME NEW s, NEW t, Holds(Words, s, t)
  PROVE  Typed(s)
<1>. HIDE DEF Words
<1>1. /\ s.sizeOver_ \in Nat /\ size(s) <= CAPACITY /\ s.sizeOver_ <= CAPACITY_MAX
      /\ Overflowed(s) => s.strOver_ = t /\ s.sizeOver_ = Len(t)
  BY HoldsFields
<1>. QED  BY <1>1 DEF Typed

LEMMA FilledIsTyped ==
  ASSUME NEW t \in Seq(Words), Len(t) <= CAPACITY
  PROVE  Typed(Filled(t))
<1>. HIDE DEF Words
<1>1. ~Overflowed(Filled(t)) /\ size(Filled(t)) = Len(t)
  BY FilledIs
<1>2. Filled(t).sizeOver_ = 0
  BY DEF Filled
<1>. QED  BY <1>1, <1>2, CapacityAssumption DEF Typed

Tasks == {"number", "book", "summary", "client"}

OutputInv ==
  task \in Tasks /\ NumberInv /\ ClientInv /\ BookInv /\ SummaryInv

LEMMA TypedStreams ==
  ASSUME OutputInv
  PROVE  TypeOK
<1>1. CASE task = "number"
  <2>1. ASSUME stream = NewStream PROVE Typed(stream)
    <3>. DEFINE e == << >>
    <3>1. Holds(Words, stream, e)
      BY <2>1, NewStreamHolds
    <3>. HIDE DEF e
    <3>. QED  BY <3>1, HoldsIsTyped
  <2>2. ASSUME Holds(Words, stream, NumberText(input)) PROVE Typed(stream)
    <3>. DEFINE t == NumberText(input)
    <3>1. Holds(Words, stream, t)
      BY <2>2
    <3>. HIDE DEF t
    <3>. QED  BY <3>1, HoldsIsTyped
  <2>3. stream = NewStream \/ Holds(Words, stream, NumberText(input))
    BY <1>1, Zenon DEF OutputInv, NumberInv
  <2>4. Typed(stream)
    BY <2>1, <2>2, <2>3
  <2>. QED  BY <1>1, <2>4 DEF Typed, TypeOK
<1>2. CASE task = "client"
  <2>1. CASE ~misused
    <3>1. Typed(stream)
      BY <1>2, <2>1, HoldsIsTyped DEF OutputInv, ClientInv
    <3>. QED  BY <1>2, <3>1 DEF Typed, TypeOK
  <2>2. CASE misused
    <3>1. Spoiled(Words, stream)
      BY <1>2, <2>2 DEF OutputInv, ClientInv
    <3>2. stream.sizeOver_ \in Nat
      BY <3>1 DEF Spoiled, Streams
    <3>3. /\ size(stream) <= CAPACITY
          /\ Overflowed(stream) /\ ~stream.crashed => stream.sizeOver_ = Len(stream.strOver_)
      BY <3>1 DEF Spoiled
    <3>. QED  BY <1>2, <2>2, <3>2, <3>3 DEF TypeOK
  <2>. QED  BY <2>1, <2>2
<1>3. CASE task = "book"
  <2>. DEFINE t == stream.str_
  <2>1. input \in Books /\ BookState(input, i, stream, out)
    BY <1>3, Zenon DEF OutputInv, BookInv
  <2>2. stream = Filled(t) /\ t \in Seq(Words)
    BY <2>1, Zenon DEF BookState
  <2>3. Len(t) <= CAPACITY
    <3>1. i \in 0 .. RowsOf(input) + 1 /\ RowsOf(input) \in Nat
      BY <2>1, BookIs, OutputAssumption DEF BookState, IsBook
    <3>2. \/ Len(t) <= CAPACITY - Margin
          \/ Len(t) <= CAPACITY
      BY <2>1, <3>1 DEF BookState
    <3>3. Len(t) \in Nat /\ CAPACITY \in Nat /\ Margin \in Nat
      BY <2>2, LenProperties, CapacityAssumption, OutputAssumption
    <3>. HIDE DEF t
    <3>. QED  BY <3>2, <3>3
  <2>. HIDE DEF t
  <2>4. Typed(stream)
    BY <2>2, <2>3, FilledIsTyped
  <2>. QED  BY <1>3, <2>4 DEF Typed, TypeOK
<1>4. CASE task = "summary"
  <2>1. PICK t : Holds(Words, stream, t)
    BY <1>4 DEF OutputInv, SummaryInv, Sound
  <2>2. Typed(stream)
    BY <2>1, HoldsIsTyped
  <2>. QED  BY <1>4, <2>2 DEF Typed, TypeOK
<1>. QED  BY <1>1, <1>2, <1>3, <1>4 DEF OutputInv, Tasks

\* The types of the output: whatever strstream is used for, the first buffer of
\* a stream never holds more than CAPACITY.  The heap buffer never holds more
\* than CAPACITY_MAX unless the stream is misused, and is filled up to
\* sizeOver_ unless its client crashed.
THEOREM TypeCorrect == Spec => []TypeOK
<1>1. Init => OutputInv
  BY NumberInitially, ClientInitially, BookInitially, SummaryInitially
     DEF Init, OutputInv, Tasks
<1>2. OutputInv /\ [Next]_vars => OutputInv'
  <2>. SUFFICES ASSUME OutputInv, [Next]_vars PROVE OutputInv'
    OBVIOUS
  <2>1. task' = task
    BY TaskStays
  <2>2. NumberInv' /\ ClientInv' /\ BookInv' /\ SummaryInv'
    BY NumberStep, ClientStays, BookStep, SummaryStep DEF OutputInv
  <2>. QED  BY <2>1, <2>2 DEF OutputInv
<1>3. OutputInv => TypeOK
  BY TypedStreams
<1>. QED  BY <1>1, <1>2, <1>3, PTL DEF Spec
==============================================================================
