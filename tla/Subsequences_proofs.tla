------------------------- MODULE Subsequences_proofs -------------------------
(***************************************************************************)
(* Facts about lists that the studies rest on.  Induction over the natural   *)
(* numbers is stated for a set of them, and a recursive function is met by   *)
(* its steps, so that what Among keeps of a list is proved for every list.   *)
(***************************************************************************)
EXTENDS Subsequences, WellFoundedInduction, FiniteSetTheorems, FunctionTheorems, TLAPS

\* The numbers from 1 to n are n numbers.
LEMMA CountTo ==
  ASSUME NEW n \in Nat
  PROVE  IsFiniteSet(1..n) /\ Cardinality(1..n) = n
<1>1. 1 \in Int /\ n \in Int
  OBVIOUS
<1>2. IsFiniteSet(1..n) /\ Cardinality(1..n) = IF 1 > n THEN 0 ELSE n - 1 + 1
  BY ONLY <1>1, FS_Interval
<1>3. (IF 1 > n THEN 0 ELSE n - 1 + 1) = n
  OBVIOUS
<1> QED BY ONLY <1>2, <1>3

\* The order of the natural numbers.
Below == {pair \in Nat \X Nat : pair[1] < pair[2]}

\* A set of natural numbers that holds 0 and, with every number, the next one
\* holds all of them.
LEMMA Induction ==
  ASSUME NEW S, 0 \in S, \A n \in Nat : n \in S => n + 1 \in S
  PROVE  Nat \subseteq S
<1> DEFINE left == Nat \ S
<1>1. SUFFICES ASSUME left # {} PROVE FALSE
  OBVIOUS
<1>2. IsWellFoundedOn(Below, Nat)
  BY NatLessThanWellFounded DEF OpToRel, Below
<1> HIDE DEF left
<1>3. left \subseteq Nat
  BY DEF left
<1>4. PICK m \in left : \A n \in left : <<n, m>> \notin Below
  BY <1>1, <1>2, <1>3, WFMin
<1>5. m \in Nat /\ m \notin S /\ m # 0
  BY DEF left
<1>6. m - 1 \in Nat /\ (m - 1) + 1 = m
  BY <1>5
<1>7. m - 1 \notin S
  BY <1>5, <1>6
<1>8. m - 1 \in left
  BY <1>6, <1>7 DEF left
<1>9. <<m - 1, m>> \in Below
  <2>1. <<m - 1, m>> \in Nat \X Nat
    BY <1>5, <1>6
  <2>2. <<m - 1, m>>[1] = m - 1 /\ <<m - 1, m>>[2] = m
    OBVIOUS
  <2> QED BY <1>5, <1>6, <2>1, <2>2 DEF Below
<1> QED BY <1>4, <1>8, <1>9

\* Recursion along 1..N is met by a function.
LEMMA Recursion ==
  ASSUME NEW V, NEW base \in V, NEW N \in Nat, NEW F \in [1..N -> [V -> V]]
  PROVE  \E f \in [0..N -> V] : f[0] = base /\ \A n \in 1..N : f[n] = F[n][f[n - 1]]
<1> DEFINE Good(f, n) == /\ f \in [0..n -> V] /\ f[0] = base
                         /\ \A i \in 1..n : f[i] = F[i][f[i - 1]]
           done == {n \in Nat : n <= N => \E f : Good(f, n)}
<1>1. 0 \in done
  <2>1. Good([i \in 0..0 |-> base], 0)
    OBVIOUS
  <2> QED BY <2>1
<1>2. ASSUME NEW n \in Nat, n \in done PROVE n + 1 \in done
  <2>1. SUFFICES ASSUME n + 1 <= N PROVE \E f : Good(f, n + 1)
    OBVIOUS
  <2>2. PICK f : Good(f, n)
    BY <1>2, <2>1
  <2> DEFINE g == [i \in 0..(n + 1) |-> IF i = n + 1 THEN F[n + 1][f[n]] ELSE f[i]]
  <2>3. n + 1 \in 1..N /\ f[n] \in V
    BY <2>1, <2>2
  <2>4. F[n + 1][f[n]] \in V
    BY <2>3
  <2>5. g \in [0..(n + 1) -> V]
    BY <2>2, <2>4
  <2>6. g[0] = base
    BY <2>2
  <2>7. ASSUME NEW i \in 1..(n + 1) PROVE g[i] = F[i][g[i - 1]]
    <3>1. g[i - 1] = f[i - 1]
      OBVIOUS
    <3>2. CASE i = n + 1
      <4>1. i - 1 = n
        BY <3>2
      <4> QED BY <3>1, <3>2, <4>1
    <3>3. CASE i # n + 1
      <4>1. i \in 1..n /\ i \in 0..(n + 1)
        BY <3>3
      <4>2. g[i] = f[i] /\ f[i] = F[i][f[i - 1]]
        BY <4>1, <3>3, <2>2
      <4> QED BY <4>2, <3>1
    <3> QED BY <3>2, <3>3
  <2>8. Good(g, n + 1)
    BY <2>5, <2>6, <2>7
  <2> QED BY <2>8
<1> HIDE DEF done
<1>3. N \in done
  BY <1>1, <1>2, Induction
<1>4. PICK f : Good(f, N)
  BY <1>3 DEF done
<1> QED BY <1>4

\* A function that follows those steps wherever it is still among the values
\* takes all of them.
LEMMA RecursionMet ==
  ASSUME NEW V, NEW base \in V, NEW N \in Nat, NEW F \in [1..N -> [V -> V]],
         NEW g, g[0] = base,
         \A n \in 1..N : g[n - 1] \in V => g[n] = F[n][g[n - 1]]
  PROVE  (\A n \in 0..N : g[n] \in V) /\ \A n \in 1..N : g[n] = F[n][g[n - 1]]
<1> DEFINE typed == {n \in Nat : n <= N => g[n] \in V}
<1>1. 0 \in typed
  OBVIOUS
<1>2. ASSUME NEW n \in Nat, n \in typed PROVE n + 1 \in typed
  <2>1. SUFFICES ASSUME n + 1 <= N PROVE g[n + 1] \in V
    OBVIOUS
  <2>2. n + 1 \in 1..N /\ (n + 1) - 1 = n /\ g[n] \in V
    BY <1>2, <2>1
  <2>3. g[n + 1] = F[n + 1][g[n]] /\ F[n + 1] \in [V -> V]
    BY <2>2
  <2> QED BY <2>2, <2>3
<1> HIDE DEF typed
<1>3. Nat \subseteq typed
  BY <1>1, <1>2, Induction
<1>4. \A n \in 0..N : g[n] \in V
  BY <1>3 DEF typed
<1>5. \A n \in 1..N : n - 1 \in 0..N
  OBVIOUS
<1> QED BY <1>4, <1>5

\* The steps that lead to what is kept of a list.
Kept(seq, S, T, f) ==
  /\ f \in [0..Len(seq) -> Seq(T)] /\ f[0] = <<>>
  /\ \A n \in 1..Len(seq) :
       f[n] = IF seq[n] \in S THEN Append(f[n - 1], seq[n]) ELSE f[n - 1]

\* The definition of Among is met: what is kept is the last of such steps.
LEMMA AmongSteps ==
  ASSUME NEW T, NEW seq \in Seq(T), NEW S
  PROVE  \E f : Kept(seq, S, T, f) /\ Among(seq, S) = f[Len(seq)]
<1> DEFINE Step(n, v) == IF seq[n] \in S THEN Append(v, seq[n]) ELSE v
           F == [n \in 1..Len(seq) |-> [v \in Seq(T) |-> Step(n, v)]]
           Meets(f) == f = [n \in 0..Len(seq) |->
             IF n = 0 THEN <<>>
             ELSE IF seq[n] \in S THEN Append(f[n - 1], seq[n]) ELSE f[n - 1]]
<1>1. Len(seq) \in Nat /\ \A n \in 1..Len(seq) : seq[n] \in T
  OBVIOUS
<1>2. F \in [1..Len(seq) -> [Seq(T) -> Seq(T)]]
  <2>1. ASSUME NEW n \in 1..Len(seq), NEW v \in Seq(T) PROVE Step(n, v) \in Seq(T)
    BY <1>1
  <2> QED BY <2>1
<1>3. <<>> \in Seq(T)
  OBVIOUS
<1> HIDE DEF F
<1>4. PICK f \in [0..Len(seq) -> Seq(T)] :
        f[0] = <<>> /\ \A n \in 1..Len(seq) : f[n] = F[n][f[n - 1]]
  <2> DEFINE V == Seq(T)
             N == Len(seq)
             empty == <<>>
  <2>1. N \in Nat /\ F \in [1..N -> [V -> V]] /\ empty \in V
    BY <1>1, <1>2, <1>3
  <2> HIDE DEF V, N, empty
  <2>2. \E f \in [0..N -> V] : f[0] = empty /\ \A n \in 1..N : f[n] = F[n][f[n - 1]]
    BY <2>1, Recursion
  <2> QED BY <2>2 DEF V, N, empty
<1>5. ASSUME NEW n \in 1..Len(seq) PROVE f[n] = Step(n, f[n - 1])
  <2>1. f[n - 1] \in Seq(T)
    BY <1>1, <1>4
  <2>2. F[n][f[n - 1]] = Step(n, f[n - 1])
    BY <2>1 DEF F
  <2> QED BY <2>2, <1>4
<1>6. Meets(f)
  <2> DEFINE h == [n \in 0..Len(seq) |-> IF n = 0 THEN <<>> ELSE Step(n, f[n - 1])]
  <2>1. ASSUME NEW n \in 0..Len(seq) PROVE f[n] = h[n]
    <3>1. n = 0 \/ n \in 1..Len(seq)
      BY <1>1
    <3> QED BY <3>1, <1>4, <1>5
  <2> HIDE DEF h
  <2>3. f = h
    <3>1. f = [n \in 0..Len(seq) |-> f[n]]
      OBVIOUS
    <3>2. h = [n \in 0..Len(seq) |-> h[n]]
      BY DEF h
    <3> QED BY <3>1, <3>2, <2>1
  <2> QED BY <2>3 DEF h
<1> DEFINE g == CHOOSE g : Meets(g)
<1>7. Meets(g)
  BY <1>6
<1>8. Among(seq, S) = g[Len(seq)]
  BY DEF Among
<1>10. \A n \in 0..Len(seq) : g[n] = IF n = 0 THEN <<>> ELSE Step(n, g[n - 1])
  <2> DEFINE h == [n \in 0..Len(seq) |-> IF n = 0 THEN <<>> ELSE Step(n, g[n - 1])]
  <2>1. g = h
    BY <1>7
  <2>2. \A n \in 0..Len(seq) : h[n] = IF n = 0 THEN <<>> ELSE Step(n, g[n - 1])
    OBVIOUS
  <2> HIDE DEF h, g
  <2> QED BY <2>1, <2>2
<1>13. g[0] = <<>>
  <2>1. 0 \in 0..Len(seq)
    BY <1>1
  <2> HIDE DEF g
  <2> QED BY <2>1, <1>10
<1>12. g = [n \in 0..Len(seq) |-> g[n]]
  <2> DEFINE h == [n \in 0..Len(seq) |-> IF n = 0 THEN <<>> ELSE Step(n, g[n - 1])]
  <2>1. g = h
    BY <1>7
  <2>2. h = [n \in 0..Len(seq) |-> h[n]]
    OBVIOUS
  <2> HIDE DEF h, g
  <2> QED BY <2>1, <2>2
<1> HIDE DEF g
<1>9. Kept(seq, S, T, g)
  <2> DEFINE typed == {n \in Nat : n <= Len(seq) => g[n] \in Seq(T)}
  <2>1. 0 \in typed
    BY <1>3, <1>13
  <2>2. ASSUME NEW n \in Nat, n \in typed PROVE n + 1 \in typed
    <3>1. SUFFICES ASSUME n + 1 <= Len(seq) PROVE g[n + 1] \in Seq(T)
      OBVIOUS
    <3>2. g[n] \in Seq(T) /\ n + 1 \in 1..Len(seq) /\ n + 1 # 0
      BY <3>1, <2>2, <1>1
    <3>3. g[n + 1] = IF seq[n + 1] \in S THEN Append(g[n], seq[n + 1]) ELSE g[n]
      <4>1. n + 1 \in 0..Len(seq) /\ (n + 1) - 1 = n
        BY <3>2
      <4> QED BY <4>1, <3>2, <1>10
    <3> QED BY <3>2, <3>3, <1>1
  <2> HIDE DEF typed
  <2>3. Nat \subseteq typed
    BY <2>1, <2>2, Induction
  <2>4. \A n \in 0..Len(seq) : g[n] \in Seq(T)
    BY <2>3, <1>1 DEF typed
  <2>5. g \in [0..Len(seq) -> Seq(T)] /\ g[0] = <<>>
    BY <2>4, <1>12, <1>13
  <2>6. \A n \in 1..Len(seq) : g[n] = IF seq[n] \in S THEN Append(g[n - 1], seq[n]) ELSE g[n - 1]
    <3>1. \A n \in 1..Len(seq) : n \in 0..Len(seq) /\ n # 0
      BY <1>1
    <3> QED BY <3>1, <1>10
  <2> QED BY <2>5, <2>6 DEF Kept
<1> QED BY <1>8, <1>9

\* Where the elements that are kept come from: places that follow one another,
\* and none of S is left out.
PlacedAt(t, seq, S, pos) ==
  /\ pos \in [1..Len(t) -> 1..Len(seq)]
  /\ \A i \in 1..Len(t) : t[i] = seq[pos[i]] /\ t[i] \in S
  /\ \A i, j \in 1..Len(t) : i < j => pos[i] < pos[j]
  /\ \A n \in 1..Len(seq) : seq[n] \in S => \E i \in 1..Len(t) : pos[i] = n

\* The part of a list in a set is a list of the same kind, made of all of its
\* elements in that set, in their order.
LEMMA AmongPlaces ==
  ASSUME NEW T, NEW seq \in Seq(T), NEW S
  PROVE  /\ Among(seq, S) \in Seq(T)
         /\ \E pos : PlacedAt(Among(seq, S), seq, S, pos)
<1>1. PICK f : Kept(seq, S, T, f) /\ Among(seq, S) = f[Len(seq)]
  BY AmongSteps
<1> DEFINE L == Len(seq)
<1>2. L \in Nat /\ \A n \in 0..L : f[n] \in Seq(T)
  BY ONLY <1>1, Len(seq) \in Nat DEF Kept
<1> DEFINE Fits(n, pos) ==
             /\ pos \in [1..Len(f[n]) -> 1..n]
             /\ \A i \in 1..Len(f[n]) : f[n][i] = seq[pos[i]] /\ f[n][i] \in S
             /\ \A i, j \in 1..Len(f[n]) : i < j => pos[i] < pos[j]
             /\ \A m \in 1..n : seq[m] \in S => \E i \in 1..Len(f[n]) : pos[i] = m
           placed == {n \in Nat : n <= L => \E pos : Fits(n, pos)}
<1>3. 0 \in placed
  <2>1. f[0] = <<>> /\ Len(f[0]) = 0
    BY <1>1 DEF Kept
  <2>2. Fits(0, <<>>)
    BY <2>1
  <2> QED BY <2>2
<1>4. ASSUME NEW n \in Nat, n \in placed PROVE n + 1 \in placed
  <2>1. SUFFICES ASSUME n + 1 <= L PROVE \E pos : Fits(n + 1, pos)
    OBVIOUS
  <2>2. PICK pos : Fits(n, pos)
    BY <1>4, <2>1, <1>2
  <2>3. /\ n + 1 \in 1..L /\ n \in 0..L /\ n + 1 \in 0..L /\ f[n] \in Seq(T)
        /\ f[n + 1] = IF seq[n + 1] \in S THEN Append(f[n], seq[n + 1]) ELSE f[n]
    BY <1>1, <1>2, <2>1 DEF Kept
  <2>4. CASE seq[n + 1] \notin S
    <3>1. f[n + 1] = f[n]
      BY <2>3, <2>4
    <3>2. pos \in [1..Len(f[n + 1]) -> 1..n + 1]
      BY <2>2, <3>1, <2>3
    <3>3. \A m \in 1..n + 1 : seq[m] \in S => \E i \in 1..Len(f[n + 1]) : pos[i] = m
      BY <2>2, <3>1, <2>4, <2>3
    <3>4. Fits(n + 1, pos)
      BY <2>2, <3>1, <3>2, <3>3
    <3> QED BY <3>4
  <2>5. CASE seq[n + 1] \in S
    <3> DEFINE k == Len(f[n])
               new == [i \in 1..k + 1 |-> IF i = k + 1 THEN n + 1 ELSE pos[i]]
    <3>1. seq[n + 1] \in T
      BY <2>3
    <3>2. /\ f[n + 1] = Append(f[n], seq[n + 1]) /\ k \in Nat /\ Len(f[n + 1]) = k + 1
          /\ \A i \in 1..k : f[n + 1][i] = f[n][i]
          /\ f[n + 1][k + 1] = seq[n + 1]
      BY <2>3, <2>5, <3>1
    <3>3. ASSUME NEW i \in 1..k PROVE new[i] = pos[i] /\ pos[i] \in 1..n
      <4>1. i \in 1..k + 1 /\ i # k + 1
        BY <3>2
      <4>2. pos[i] \in 1..n
        BY <2>2
      <4> QED BY <4>1, <4>2
    <3>4. new[k + 1] = n + 1
      BY <3>2
    <3>5. \A i \in 1..k + 1 : i \in 1..k \/ i = k + 1
      BY <3>2
    <3> HIDE DEF new, k
    <3>6. new \in [1..k + 1 -> 1..n + 1]
      <4>1. \A i \in 1..k + 1 : new[i] \in 1..n + 1
        BY <3>3, <3>4, <3>5
      <4> QED BY <4>1 DEF new
    <3>7. \A i \in 1..k + 1 : f[n + 1][i] = seq[new[i]] /\ f[n + 1][i] \in S
      BY <2>2, <2>5, <3>2, <3>3, <3>4, <3>5 DEF k
    <3>8. ASSUME NEW i \in 1..k + 1, NEW j \in 1..k + 1, i < j PROVE new[i] < new[j]
      <4>1. i \in 1..k
        BY <3>2, <3>8
      <4>2. CASE j = k + 1
        BY <4>1, <4>2, <3>3, <3>4
      <4>3. CASE j \in 1..k
        BY <4>1, <4>3, <3>3, <2>2, <3>8 DEF k
      <4> QED BY <4>2, <4>3, <3>5
    <3>9. ASSUME NEW m \in 1..n + 1, seq[m] \in S PROVE \E i \in 1..k + 1 : new[i] = m
      <4>1. CASE m = n + 1
        BY <4>1, <3>4, <3>2
      <4>2. CASE m # n + 1
        <5>1. m \in 1..n
          BY <4>2
        <5>2. PICK i \in 1..k : pos[i] = m
          BY <5>1, <2>2, <3>9 DEF k
        <5>3. i \in 1..k + 1 /\ new[i] = m
          BY <5>2, <3>3, <3>2
        <5> QED BY <5>3
      <4> QED BY <4>1, <4>2
    <3>10. Fits(n + 1, new)
      BY <3>2, <3>6, <3>7, <3>8, <3>9
    <3> QED BY <3>10
  <2> QED BY <2>4, <2>5
<1> HIDE DEF placed
<1>5. L \in placed
  BY <1>2, <1>3, <1>4, Induction
<1>6. PICK pos : Fits(L, pos)
  BY <1>5, <1>2 DEF placed
<1>7. PlacedAt(Among(seq, S), seq, S, pos)
  BY <1>6, <1>1 DEF PlacedAt
<1> QED BY <1>7, <1>1, <1>2

\* Nothing is kept of an empty list.
LEMMA AmongEmpty ==
  ASSUME NEW S
  PROVE  Among(<<>>, S) = <<>>
<1>1. <<>> \in Seq({}) /\ Len(<<>>) = 0
  OBVIOUS
<1>2. PICK f : Kept(<<>>, S, {}, f) /\ Among(<<>>, S) = f[Len(<<>>)]
  BY <1>1, AmongSteps
<1> QED BY <1>1, <1>2 DEF Kept

\* The part of a list in a set has as many elements as the list has places with
\* an element of the set.
LEMMA AmongCount ==
  ASSUME NEW T, NEW seq \in Seq(T), NEW S
  PROVE  Len(Among(seq, S)) = Cardinality({n \in 1..Len(seq) : seq[n] \in S})
<1> DEFINE t == Among(seq, S)
           places == {n \in 1..Len(seq) : seq[n] \in S}
<1>1. t \in Seq(T) /\ \E pos : PlacedAt(t, seq, S, pos)
  BY AmongPlaces
<1>2. PICK pos : PlacedAt(t, seq, S, pos)
  BY <1>1
<1> HIDE DEF t
<1>3. Len(t) \in Nat /\ IsFiniteSet(1..Len(t)) /\ Cardinality(1..Len(t)) = Len(t)
  <2>1. Len(t) \in Nat
    BY <1>1
  <2> DEFINE n == Len(t)
  <2> HIDE DEF n
  <2>2. n \in Nat
    BY <2>1 DEF n
  <2>3. IsFiniteSet(1..n) /\ Cardinality(1..n) = n
    BY <2>2, CountTo
  <2> QED BY <2>2, <2>3 DEF n
<1>4. pos \in [1..Len(t) -> places]
  BY <1>2 DEF PlacedAt
<1>5. \A i, j \in 1..Len(t) : pos[i] = pos[j] => i = j
  <2>1. ASSUME NEW i \in 1..Len(t), NEW j \in 1..Len(t), i # j PROVE pos[i] # pos[j]
    <3>1. i < j \/ j < i
      BY <1>3, <2>1
    <3>2. pos[i] < pos[j] \/ pos[j] < pos[i]
      BY <1>2, <3>1 DEF PlacedAt
    <3>3. pos[i] \in Nat /\ pos[j] \in Nat
      BY <1>2 DEF PlacedAt
    <3> QED BY <3>2, <3>3
  <2> QED BY <2>1
<1>6. \A n \in places : \E i \in 1..Len(t) : pos[i] = n
  BY <1>2 DEF PlacedAt
<1>7. pos \in Bijection(1..Len(t), places)
  BY <1>4, <1>5, <1>6, Fun_IsBij
<1>8. ExistsBijection(1..Len(t), places)
  BY <1>7 DEF ExistsBijection
<1>9. Cardinality(places) = Len(t)
  BY <1>3, <1>8, FS_Bijection
<1> QED BY <1>9 DEF t

\* Appending to a list appends to its part when the new element is in the set.
LEMMA AmongAppend ==
  ASSUME NEW T, NEW seq \in Seq(T), NEW e \in T, NEW S
  PROVE  Among(Append(seq, e), S) = IF e \in S THEN Append(Among(seq, S), e) ELSE Among(seq, S)
<1> DEFINE L == Len(seq)
           longer == Append(seq, e)
<1>1. /\ L \in Nat /\ longer \in Seq(T) /\ Len(longer) = L + 1
      /\ longer[L + 1] = e /\ \A n \in 1..L : longer[n] = seq[n]
  OBVIOUS
<1>2. PICK f : Kept(seq, S, T, f) /\ Among(seq, S) = f[L]
  BY AmongSteps
<1> HIDE DEF longer
<1>3. PICK g : Kept(longer, S, T, g) /\ Among(longer, S) = g[L + 1]
  BY <1>1, AmongSteps
<1> DEFINE same == {n \in Nat : n <= L => g[n] = f[n]}
<1>4. 0 \in same
  BY <1>2, <1>3 DEF Kept
<1>5. ASSUME NEW n \in Nat, n \in same PROVE n + 1 \in same
  <2>1. SUFFICES ASSUME n + 1 <= L PROVE g[n + 1] = f[n + 1]
    OBVIOUS
  <2>2. n + 1 \in 1..L /\ n + 1 \in 1..L + 1 /\ (n + 1) - 1 = n /\ g[n] = f[n]
    BY <1>1, <1>5, <2>1
  <2>3. f[n + 1] = IF seq[n + 1] \in S THEN Append(f[n], seq[n + 1]) ELSE f[n]
    BY <2>2, <1>2 DEF Kept
  <2>4. g[n + 1] = IF longer[n + 1] \in S THEN Append(g[n], longer[n + 1]) ELSE g[n]
    BY <2>2, <1>1, <1>3 DEF Kept
  <2> QED BY <2>2, <2>3, <2>4, <1>1
<1> HIDE DEF same
<1>6. g[L] = f[L]
  <2>1. L \in same
    BY <1>1, <1>4, <1>5, Induction
  <2> QED BY <2>1, <1>1 DEF same
<1>7. g[L + 1] = IF longer[L + 1] \in S THEN Append(g[L], longer[L + 1]) ELSE g[L]
  <2>1. L + 1 \in 1..L + 1 /\ (L + 1) - 1 = L
    BY <1>1
  <2> QED BY <2>1, <1>1, <1>3 DEF Kept
<1>8. Among(longer, S) = IF e \in S THEN Append(Among(seq, S), e) ELSE Among(seq, S)
  BY <1>1, <1>2, <1>3, <1>6, <1>7
<1> QED BY <1>8 DEF longer

\* Places with distinct keys are no more than the keys, and as many as the keys
\* exactly when every key has its place.
LEMMA DistinctKeys ==
  ASSUME NEW K, IsFiniteSet(K), NEW n \in Nat, NEW key \in [1..n -> K],
         \A i, j \in 1..n : i # j => key[i] # key[j]
  PROVE  /\ n <= Cardinality(K)
         /\ n = Cardinality(K) <=> \A k \in K : \E i \in 1..n : key[i] = k
<1>1. key \in Injection(1..n, K)
  BY Fun_IsInj
<1>2. IsFiniteSet(1..n) /\ Cardinality(1..n) = n
  BY CountTo
<1>3. /\ Cardinality(1..n) <= Cardinality(K)
      /\ Cardinality(1..n) = Cardinality(K) <=> key \in Surjection(1..n, K)
  BY <1>1, FS_Injection
<1>4. key \in Surjection(1..n, K) <=> \A k \in K : \E i \in 1..n : key[i] = k
  <2>1. ASSUME key \in Surjection(1..n, K) PROVE \A k \in K : \E i \in 1..n : key[i] = k
    BY <2>1, Fun_SurjectionProperties
  <2>2. ASSUME \A k \in K : \E i \in 1..n : key[i] = k PROVE key \in Surjection(1..n, K)
    BY <2>2, Fun_IsSurj
  <2> QED BY <2>1, <2>2
<1> QED BY <1>2, <1>3, <1>4

\* Two lists that start alike and go on alike are alike.
LEMMA Folded ==
  ASSUME NEW N \in Nat, NEW g, NEW h, g[0] = h[0],
         \A n \in 1..N : g[n - 1] = h[n - 1] => g[n] = h[n]
  PROVE  \A n \in 0..N : g[n] = h[n]
<1> DEFINE alike == {n \in Nat : n <= N => g[n] = h[n]}
<1>1. 0 \in alike
  OBVIOUS
<1>2. ASSUME NEW n \in Nat, n \in alike PROVE n + 1 \in alike
  <2>1. SUFFICES ASSUME n + 1 <= N PROVE g[n + 1] = h[n + 1]
    OBVIOUS
  <2>2. n + 1 \in 1..N /\ (n + 1) - 1 = n /\ g[n] = h[n]
    BY <2>1, <1>2
  <2>3. g[(n + 1) - 1] = h[(n + 1) - 1] => g[n + 1] = h[n + 1]
    BY <2>2
  <2> QED BY <2>2, <2>3
<1> HIDE DEF alike
<1>3. Nat \subseteq alike
  BY <1>1, <1>2, Induction
<1> QED BY <1>3 DEF alike

\* What is kept of a list depends on which of its elements are in the set.
LEMMA AmongAgree ==
  ASSUME NEW T, NEW seq \in Seq(T), NEW S, NEW R,
         \A n \in 1..Len(seq) : seq[n] \in S <=> seq[n] \in R
  PROVE  Among(seq, S) = Among(seq, R)
<1>1. PICK f : Kept(seq, S, T, f) /\ Among(seq, S) = f[Len(seq)]
  BY AmongSteps
<1>2. PICK g : Kept(seq, R, T, g) /\ Among(seq, R) = g[Len(seq)]
  BY AmongSteps
<1>3. f[0] = g[0] /\ \A n \in 1..Len(seq) : f[n - 1] = g[n - 1] => f[n] = g[n]
  BY <1>1, <1>2 DEF Kept
<1>4. Len(seq) \in Nat
  OBVIOUS
<1> DEFINE N == Len(seq)
<1> HIDE DEF N
<1>5. N \in Nat /\ \A n \in 1..N : f[n - 1] = g[n - 1] => f[n] = g[n]
  BY <1>3, <1>4 DEF N
<1>6. \A n \in 0..N : f[n] = g[n]
  BY <1>3, <1>5, Folded
<1> QED BY <1>1, <1>2, <1>5, <1>6 DEF N

\* All of a list is kept when all of its elements are in the set.
LEMMA AmongAll ==
  ASSUME NEW T, NEW seq \in Seq(T), NEW S, \A n \in 1..Len(seq) : seq[n] \in S
  PROVE  Among(seq, S) = seq
<1>1. PICK f : Kept(seq, S, T, f) /\ Among(seq, S) = f[Len(seq)]
  BY AmongSteps
<1> DEFINE N == Len(seq)
           h == [n \in 0..N |-> SubSeq(seq, 1, n)]
<1>2. N \in Nat
  OBVIOUS
<1>3. h[0] = <<>>
  BY <1>2
<1>4. ASSUME NEW n \in 1..N, f[n - 1] = h[n - 1] PROVE f[n] = h[n]
  <2>1. f[n] = Append(f[n - 1], seq[n])
    BY <1>1 DEF Kept
  <2>2. h[n - 1] = SubSeq(seq, 1, n - 1) /\ h[n] = SubSeq(seq, 1, n)
    OBVIOUS
  <2>3. SubSeq(seq, 1, n) = Append(SubSeq(seq, 1, n - 1), seq[n])
    OBVIOUS
  <2> QED BY <2>1, <2>2, <2>3, <1>4
<1>5. f[0] = h[0]
  BY <1>1, <1>3 DEF Kept
<1>6. h[N] = seq
  BY <1>2
<1> HIDE DEF N, h
<1>7. \A n \in 0..N : f[n] = h[n]
  BY <1>2, <1>4, <1>5, Folded
<1> QED BY <1>1, <1>2, <1>6, <1>7 DEF N

\* What is kept is in the list and in the set, and none of the set is lost.
LEMMA AmongInside ==
  ASSUME NEW T, NEW seq \in Seq(T), NEW S
  PROVE  /\ Among(seq, S) \in Seq(T)
         /\ \A i \in 1..Len(Among(seq, S)) :
              /\ Among(seq, S)[i] \in S
              /\ \E n \in 1..Len(seq) : Among(seq, S)[i] = seq[n]
         /\ \A n \in 1..Len(seq) : seq[n] \in S =>
              \E i \in 1..Len(Among(seq, S)) : Among(seq, S)[i] = seq[n]
<1> DEFINE t == Among(seq, S)
<1>1. t \in Seq(T) /\ \E pos : PlacedAt(t, seq, S, pos)
  BY AmongPlaces
<1> HIDE DEF t
<1>2. PICK pos : PlacedAt(t, seq, S, pos)
  BY <1>1
<1>3. \A i \in 1..Len(t) : t[i] \in S /\ \E n \in 1..Len(seq) : t[i] = seq[n]
  BY <1>2 DEF PlacedAt
<1>4. \A n \in 1..Len(seq) : seq[n] \in S => \E i \in 1..Len(t) : t[i] = seq[n]
  BY <1>2 DEF PlacedAt
<1> QED BY <1>1, <1>3, <1>4 DEF t

\* One more element of a list.
LEMMA AmongPrefix ==
  ASSUME NEW T, NEW seq \in Seq(T), NEW S, NEW n \in 1..Len(seq)
  PROVE  Among(SubSeq(seq, 1, n), S)
           = IF seq[n] \in S THEN Append(Among(SubSeq(seq, 1, n - 1), S), seq[n])
             ELSE Among(SubSeq(seq, 1, n - 1), S)
<1>1. SubSeq(seq, 1, n) = Append(SubSeq(seq, 1, n - 1), seq[n])
  OBVIOUS
<1> DEFINE before == SubSeq(seq, 1, n - 1)
           e == seq[n]
<1>2. before \in Seq(T) /\ e \in T
  OBVIOUS
<1>3. SubSeq(seq, 1, n) = Append(before, e)
  BY <1>1
<1> HIDE DEF before, e
<1>4. Among(Append(before, e), S) = IF e \in S THEN Append(Among(before, S), e) ELSE Among(before, S)
  BY <1>2, AmongAppend
<1>5. Among(SubSeq(seq, 1, n), S) = IF e \in S THEN Append(Among(before, S), e) ELSE Among(before, S)
  BY <1>3, <1>4
<1> QED BY <1>5 DEF before, e

\* Nothing of a list without elements of the set.
LEMMA AmongNone ==
  ASSUME NEW T, NEW seq \in Seq(T), NEW S, \A n \in 1..Len(seq) : seq[n] \notin S
  PROVE  Among(seq, S) = <<>>
<1> DEFINE t == Among(seq, S)
<1>1. t \in Seq(T) /\ \A i \in 1..Len(t) : t[i] \in S /\ \E n \in 1..Len(seq) : t[i] = seq[n]
  BY AmongInside
<1> HIDE DEF t
<1>2. \A i \in 1..Len(t) : FALSE
  BY <1>1
<1>3. t = <<>>
  BY <1>1, <1>2
<1> QED BY <1>3 DEF t

\* What a set keeps and what it leaves are the whole list.
LEMMA AmongSplit ==
  ASSUME NEW T, NEW seq \in Seq(T), NEW S, NEW R,
         \A n \in 1..Len(seq) : seq[n] \in S <=> seq[n] \notin R
  PROVE  Len(Among(seq, S)) + Len(Among(seq, R)) = Len(seq)
<1> DEFINE N == Len(seq)
           A == {n \in 1..N : seq[n] \in S}
           B == {n \in 1..N : seq[n] \in R}
<1>1. N \in Nat
  OBVIOUS
<1>2. Len(Among(seq, S)) = Cardinality(A) /\ Len(Among(seq, R)) = Cardinality(B)
  BY AmongCount
<1>3. B = (1..N) \ A /\ (1..N) \cap A = A
  OBVIOUS
<1> HIDE DEF N, A, B
<1>4. IsFiniteSet(1..N) /\ Cardinality(1..N) = N
  BY <1>1, CountTo
<1>5. IsFiniteSet(A)
  <2>1. A \subseteq 1..N
    BY DEF A
  <2> QED BY <2>1, <1>4, FS_Subset
<1>6. Cardinality(B) = N - Cardinality(A)
  BY <1>3, <1>4, FS_Difference
<1>7. Cardinality(A) \in Nat
  BY <1>5, FS_CardinalityType
<1> QED BY <1>1, <1>2, <1>6, <1>7 DEF N

\* Two positions of a round of length L meet only when they are the same.
LEMMA Turns ==
  ASSUME NEW L \in Nat \ {0}, NEW x \in Int, NEW i \in 1..L, NEW j \in 1..L,
         (x + i) % L = (x + j) % L
  PROVE  i = j
<1> DEFINE p == (x + i) \div L
           q == (x + j) \div L
           r == (x + i) % L
<1>1. p \in Int /\ q \in Int /\ r \in Int
  OBVIOUS
<1>2. x + i = L * p + r
  OBVIOUS
<1>3. x + j = L * q + r
  OBVIOUS
<1> HIDE DEF p, q, r
<1>4. i - j = L * p - L * q
  BY <1>1, <1>2, <1>3
<1>5. p = q
  <2>1. ~(p >= q + 1)
    <3>1. SUFFICES ASSUME p >= q + 1 PROVE FALSE
      OBVIOUS
    <3>2. L * p >= L * (q + 1)
      BY <3>1, <1>1
    <3>3. L * (q + 1) = L * q + L
      BY <1>1
    <3>4. L * p \in Int /\ L * q \in Int
      BY <1>1
    <3> QED BY <1>4, <3>2, <3>3, <3>4
  <2>2. ~(q >= p + 1)
    <3>1. SUFFICES ASSUME q >= p + 1 PROVE FALSE
      OBVIOUS
    <3>2. L * q >= L * (p + 1)
      BY <3>1, <1>1
    <3>3. L * (p + 1) = L * p + L
      BY <1>1
    <3>4. L * p \in Int /\ L * q \in Int
      BY <1>1
    <3> QED BY <1>4, <3>2, <3>3, <3>4
  <2> QED BY <2>1, <2>2, <1>1
<1> QED BY <1>4, <1>5, <1>1

\* The remainder of a division is below the divisor.
LEMMA Remainder ==
  ASSUME NEW L \in Nat \ {0}, NEW x \in Nat
  PROVE  x % L \in 0..(L - 1)
OBVIOUS

\* A set of numbers has a least one.
LEMMA Least ==
  ASSUME NEW S, S \subseteq Nat, NEW x \in S
  PROVE  \E m \in S : \A n \in S : m <= n
<1>1. IsWellFoundedOn(Below, Nat)
  BY NatLessThanWellFounded DEF OpToRel, Below
<1>2. PICK m \in S : \A n \in S : <<n, m>> \notin Below
  BY <1>1, WFMin
<1>3. ASSUME NEW n \in S PROVE m <= n
  <2>1. m \in Nat /\ n \in Nat /\ <<n, m>> \notin Below
    BY <1>2, <1>3
  <2>2. ~(n < m)
    <3>1. <<n, m>> \in Nat \X Nat /\ <<n, m>>[1] = n /\ <<n, m>>[2] = m
      BY <2>1
    <3> QED BY <2>1, <3>1 DEF Below
  <2> QED BY <2>1, <2>2
<1> QED BY <1>3

\* Two sets matched by a function are of one size.
LEMMA Matched ==
  ASSUME NEW S, IsFiniteSet(S), NEW K, NEW f \in [S -> K],
         \A x, y \in S : f[x] = f[y] => x = y, \A k \in K : \E x \in S : f[x] = k
  PROVE  IsFiniteSet(K) /\ Cardinality(K) = Cardinality(S)
<1>1. f \in Bijection(S, K)
  <2>1. f \in Injection(S, K)
    BY Fun_IsInj
  <2>2. f \in Surjection(S, K)
    BY Fun_IsSurj
  <2> QED BY <2>1, <2>2, Fun_IsBij
<1>2. ExistsBijection(S, K)
  BY <1>1 DEF ExistsBijection
<1> QED BY <1>2, FS_Bijection

\* Lists that begin alike and whose rests are equal are equal.
LEMMA SameRest ==
  ASSUME NEW V, NEW h \in Seq(V), NEW k \in Seq(V), NEW p \in Nat,
         Len(h) = Len(k), p <= Len(k), \A n \in 1..p : h[n] = k[n],
         SubSeq(h, p + 1, Len(h)) = SubSeq(k, p + 1, Len(k))
  PROVE  h = k
<1>1. Len(k) \in Nat /\ DOMAIN h = 1..Len(k) /\ DOMAIN k = 1..Len(k)
  OBVIOUS
<1>2. ASSUME NEW i \in 1..Len(k) PROVE h[i] = k[i]
  <2>1. CASE i <= p
    BY <2>1
  <2>2. CASE ~(i <= p)
    <3>1. i - p \in 1..Len(k) - p /\ p + 1 + (i - p) - 1 = i
      BY <2>2
    <3>2. SubSeq(h, p + 1, Len(h))[i - p] = h[i]
      BY <3>1
    <3>3. SubSeq(k, p + 1, Len(k))[i - p] = k[i]
      BY <3>1
    <3> QED BY <3>2, <3>3
  <2> QED BY <2>1, <2>2
<1> QED BY <1>1, <1>2

\* A list that begins with p equal entries.
LEMMA Prefixed ==
  ASSUME NEW V, NEW t \in V, NEW p \in Nat, NEW l \in Seq(V),
         NEW h, h = [n \in 1..p |-> t] \o l
  PROVE  h \in Seq(V) /\ Len(h) = p + Len(l) /\ \A n \in 1..p : h[n] = t
<1> DEFINE pre == [n \in 1..p |-> t]
<1>1. pre \in Seq(V) /\ Len(pre) = p /\ \A n \in 1..p : pre[n] = t
  OBVIOUS
<1>2. h = pre \o l
  OBVIOUS
<1> HIDE DEF pre
<1>3. h \in Seq(V) /\ Len(h) = p + Len(l)
  BY <1>1, <1>2
<1>4. \A n \in 1..p : h[n] = pre[n]
  BY <1>1, <1>2
<1> QED BY <1>1, <1>3, <1>4

\* A list is the function of its entries.
LEMMA ListIs == ASSUME NEW V, NEW s \in Seq(V) PROVE s = [i \in DOMAIN s |-> s[i]]
OBVIOUS

\* A field of an entry is overwritten in the entry.
LEMMA InEntry ==
  ASSUME NEW V, NEW list \in Seq(V), NEW i \in 1..Len(list), NEW f, NEW v
  PROVE  [list EXCEPT ![i][f] = v] = [list EXCEPT ![i] = [list[i] EXCEPT ![f] = v]]
OBVIOUS

\* A place more or none.
LEMMA OneMore ==
  ASSUME NEW H, IsFiniteSet(H), NEW x, x \notin H, NEW c \in BOOLEAN, NEW G,
         G = H \union (IF c THEN {x} ELSE {})
  PROVE  Cardinality(G) = Cardinality(H) + (IF c THEN 1 ELSE 0)
<1>1. Cardinality(H) \in Nat
  BY FS_CardinalityType
<1>2. CASE c
  <2>1. G = H \union {x}
    BY <1>2
  <2>2. Cardinality(G) = Cardinality(H) + 1
    BY <2>1, FS_AddElement
  <2> QED BY <2>2, <1>2
<1>3. CASE ~c
  <2>1. G = H
    BY <1>3
  <2> QED BY <2>1, <1>1, <1>3
<1> QED BY <1>2, <1>3

\* The least of two keys is first in time, and of the earlier stage among equals.
LEMMA KeyOrder ==
  ASSUME NEW t \in Nat, NEW u \in Nat, NEW p \in 1..4, NEW q \in 1..4, 5 * t + p <= 5 * u + q
  PROVE  t < u \/ (t = u /\ p <= q)
OBVIOUS

\* Places in a list of calls are finitely many.
LEMMA PlacesFinite ==
  ASSUME NEW n \in Nat
  PROVE  IsFiniteSet((1..n) \X (1..4))
<1>2. IsFiniteSet(1..n) /\ IsFiniteSet(1..4)
  <2>1. 4 \in Nat
    OBVIOUS
  <2> QED BY <2>1, CountTo
<1> QED BY <1>2, FS_Product

\* A list without its ith element.
LEMMA WithoutOne ==
  ASSUME NEW T, NEW s \in Seq(T), NEW i \in 1..Len(s),
         NEW r, r = SubSeq(s, 1, i - 1) \o SubSeq(s, i + 1, Len(s))
  PROVE  /\ r \in Seq(T)
         /\ Len(r) = Len(s) - 1
         /\ \A j \in 1..(Len(s) - 1) :
              r[j] = IF j < i THEN s[j] ELSE s[j + 1]
<1> DEFINE a == SubSeq(s, 1, i - 1)
           b == SubSeq(s, i + 1, Len(s))
<1>1. Len(s) \in Nat /\ i \in Nat /\ 1 <= i /\ i <= Len(s)
  OBVIOUS
<1>2. r = a \o b
  OBVIOUS
<1>3. a \in Seq(T) /\ Len(a) = i - 1 /\ \A j \in 1..(i - 1) : a[j] = s[j]
  OBVIOUS
<1>4. b \in Seq(T) /\ Len(b) = Len(s) - i /\ \A j \in 1..(Len(s) - i) : b[j] = s[j + i]
  OBVIOUS
<1> HIDE DEF a, b
<1>5. r \in Seq(T) /\ Len(r) = Len(a) + Len(b)
  <2>2. a \in Seq(T) /\ b \in Seq(T)
    BY <1>3, <1>4
  <2>1. a \o b \in Seq(T) /\ Len(a \o b) = Len(a) + Len(b)
    BY <2>2
  <2> QED BY <1>2, <2>1
<1>8. \A j \in 1..(Len(a) + Len(b)) : r[j] = IF j <= Len(a) THEN a[j] ELSE b[j - Len(a)]
  <2>1. a \in Seq(T) /\ b \in Seq(T)
    BY <1>3, <1>4
  <2> QED BY ONLY <1>2, <2>1
<1>9. Len(a) = i - 1 /\ Len(b) = Len(s) - i /\ Len(a) + Len(b) = Len(s) - 1
  <2>1. Len(a) = i - 1 /\ Len(b) = Len(s) - i
    BY <1>3, <1>4
  <2> QED BY ONLY <1>1, <2>1
<1>6. ASSUME NEW j \in 1..(Len(s) - 1) PROVE r[j] = IF j < i THEN s[j] ELSE s[j + 1]
  <2>1. CASE j < i
    <3>1. j \in 1..(i - 1)
      BY <2>1
    <3>2. r[j] = a[j]
      <4>1. j \in 1..(Len(a) + Len(b)) /\ j <= Len(a)
        BY ONLY <1>1, <1>9, <3>1, j \in 1..(Len(s) - 1)
      <4> QED BY ONLY <1>8, <4>1
    <3>3. a[j] = s[j]
      BY <3>1, <1>3
    <3> QED BY <3>2, <3>3, <2>1
  <2>2. CASE ~(j < i)
    <3>1. j - (i - 1) \in 1..(Len(s) - i) /\ (j - (i - 1)) + i = j + 1
      BY <2>2, <1>1
    <3>2. r[j] = b[j - (i - 1)]
      <4>1. j \in 1..(Len(a) + Len(b)) /\ ~(j <= Len(a)) /\ j - Len(a) = j - (i - 1)
        BY ONLY <1>1, <1>9, <2>2, j \in 1..(Len(s) - 1)
      <4>2. r[j] = b[j - Len(a)]
        BY ONLY <1>8, <4>1
      <4> QED BY ONLY <4>1, <4>2
    <3>3. b[j - (i - 1)] = s[j + 1]
      BY <3>1, <1>4
    <3> QED BY <3>2, <3>3, <2>2
  <2> QED BY <2>1, <2>2
<1>7. Len(r) = Len(s) - 1
  BY <1>5, <1>9
<1> QED BY <1>5, <1>6, <1>7

\* One of the numbers of a list is the greatest.
LEMMA TopIs ==
  ASSUME NEW s \in Seq(Int), Len(s) # 0
  PROVE  \E j \in 1..Len(s) : \A k \in 1..Len(s) : s[k] <= s[j]
<1> DEFINE N == Len(s)
           Top(n) == \E j \in 1..n : \A k \in 1..n : s[k] <= s[j]
           topped == {n \in Nat : n + 1 <= N => Top(n + 1)}
<1>1. N \in Nat /\ \A j \in 1..N : s[j] \in Int
  OBVIOUS
<1> HIDE DEF N
<1>2. 0 \in topped
  <2>1. SUFFICES ASSUME 1 <= N PROVE Top(1)
    OBVIOUS
  <2>2. s[1] \in Int /\ 1..1 = {1}
    BY <1>1, <2>1
  <2> QED BY <2>2
<1>3. ASSUME NEW n \in Nat, n \in topped PROVE n + 1 \in topped
  <2> DEFINE m == n + 1
  <2>1. SUFFICES ASSUME m + 1 <= N PROVE Top(m + 1)
    OBVIOUS
  <2>2. m \in Nat /\ m <= N
    BY <1>1, <2>1
  <2>3. PICK j \in 1..m : \A k \in 1..m : s[k] <= s[j]
    BY <1>3, <2>2
  <2>4. m + 1 \in 1..N /\ \A k \in 1..(m + 1) : k \in 1..N /\ (k \in 1..m \/ k = m + 1)
    BY <2>1, <2>2, <1>1
  <2>5. j \in 1..(m + 1) /\ j \in 1..N
    BY <2>2, <2>3, <2>1, <1>1
  <2> HIDE DEF m
  <2>6. s[m + 1] \in Int /\ s[j] \in Int
    BY <2>4, <2>5, <1>1
  <2>7. CASE s[m + 1] <= s[j]
    BY <2>3, <2>4, <2>5, <2>7
  <2>8. CASE ~(s[m + 1] <= s[j])
    <3>1. s[j] <= s[m + 1]
      BY <2>6, <2>8
    <3>2. \A k \in 1..(m + 1) : s[k] \in Int
      BY <2>4, <1>1
    <3>3. \A k \in 1..(m + 1) : s[k] <= s[m + 1]
      BY <2>3, <2>4, <2>6, <3>1, <3>2
    <3>4. m + 1 \in 1..(m + 1)
      BY <2>2
    <3> QED BY <3>3, <3>4
  <2> QED BY <2>7, <2>8
<1> HIDE DEF topped
<1>4. Nat \subseteq topped
  BY <1>2, <1>3, Induction
<1>5. N - 1 \in Nat /\ (N - 1) + 1 = N
  BY <1>1 DEF N
<1> DEFINE l == N - 1
<1>6. l \in topped
  BY <1>4, <1>5
<1>7. l + 1 <= N => Top(l + 1)
  <2> HIDE DEF l
  <2> QED BY <1>6 DEF topped
<1>8. l + 1 = N
  BY <1>5
<1> HIDE DEF l
<1>9. Top(N)
  <2>1. l + 1 <= N
    BY <1>8, <1>1
  <2> QED BY <1>7, <1>8, <2>1
<1> QED BY <1>9 DEF N

-----------------------------------------------------------------------------
(* Sorting *)

\* The order of keys: by the first part, then by the second.
Lower(x, y) == x[1] < y[1] \/ (x[1] = y[1] /\ x[2] < y[2])

\* The keys below one.
Low(K, x) == {z \in K : Lower(z, x)}

\* The places whose key is below one.
Under(key, n, x) == {j \in 1..n : Lower(key[j], x)}

\* The order is strict and total.
LEMMA LowerIsOrder ==
  ASSUME NEW x \in Nat \X Nat, NEW y \in Nat \X Nat, NEW z \in Nat \X Nat
  PROVE  /\ ~Lower(x, x) /\ ~(Lower(x, y) /\ Lower(y, x))
         /\ x # y => Lower(x, y) \/ Lower(y, x)
         /\ Lower(x, y) /\ Lower(y, z) => Lower(x, z)
BY DEF Lower

\* The rank of a key grows with it.
LEMMA RankGrows ==
  ASSUME NEW K \in SUBSET (Nat \X Nat), IsFiniteSet(K), NEW x \in K, NEW y \in K, Lower(x, y)
  PROVE  /\ Cardinality(Low(K, x)) \in Nat
         /\ Cardinality(Low(K, y)) \in Nat
         /\ Cardinality(Low(K, x)) < Cardinality(Low(K, y))
<1> DEFINE A == Low(K, x)
           B == Low(K, y)
<1>1. A \subseteq B /\ x \in B /\ x \notin A
  BY LowerIsOrder DEF Low
<1>2. IsFiniteSet(A) /\ IsFiniteSet(B)
  BY FS_Subset DEF Low
<1>3. Cardinality(A) <= Cardinality(B) /\ (Cardinality(B) = Cardinality(A) => B = A)
  <2> HIDE DEF A, B
  <2> QED BY <1>1, <1>2, FS_Subset
<1>4. Cardinality(A) \in Nat /\ Cardinality(B) \in Nat
  <2> HIDE DEF A, B
  <2> QED BY <1>2, FS_CardinalityType
<1> HIDE DEF A, B
<1>5. Cardinality(A) < Cardinality(B)
  BY <1>1, <1>3, <1>4
<1> QED BY <1>4, <1>5 DEF A, B

\* A rank tells its key.
LEMMA RankTells ==
  ASSUME NEW K \in SUBSET (Nat \X Nat), IsFiniteSet(K), NEW x \in K, NEW y \in K,
         Cardinality(Low(K, x)) = Cardinality(Low(K, y))
  PROVE  x = y
<1> DEFINE a == Cardinality(Low(K, x))
           b == Cardinality(Low(K, y))
<1>1. Lower(x, y) => a \in Nat /\ b \in Nat /\ a < b
  BY RankGrows
<1>2. Lower(y, x) => a \in Nat /\ b \in Nat /\ b < a
  BY RankGrows
<1>3. a = b
  OBVIOUS
<1> HIDE DEF a, b
<1>4. ~Lower(x, y) /\ ~Lower(y, x)
  BY <1>1, <1>2, <1>3
<1> QED BY <1>4, LowerIsOrder

\* n places with keys of their own: the ranks of the keys are the numbers below n,
\* and the places that come before one are those of the lower keys.
Keyed(n, K, key) ==
  /\ key \in [1..n -> K]
  /\ \A i, j \in 1..n : key[i] = key[j] => i = j
  /\ \A k \in K : \E i \in 1..n : key[i] = k

KeysRank(n, K, key) ==
  /\ IsFiniteSet(K) /\ Cardinality(K) = n
  /\ \A k \in K : 1 + Cardinality(Low(K, k)) \in 1..n
  /\ \A r \in 1..n : \E k \in K : 1 + Cardinality(Low(K, k)) = r
  /\ \A i \in 1..n : Cardinality(Under(key, n, key[i])) = Cardinality(Low(K, key[i]))

\* Keys that differ are ranked from 1 to their number.
LEMMA Ranks ==
  ASSUME NEW n \in Nat, NEW K \in SUBSET (Nat \X Nat), NEW key, Keyed(n, K, key)
  PROVE  KeysRank(n, K, key)
<1>. USE DEF Keyed
<1>1. IsFiniteSet(1..n) /\ Cardinality(1..n) = n
  BY CountTo
<1>2. IsFiniteSet(K) /\ Cardinality(K) = n
  BY <1>1, Matched
<1> DEFINE rank == [k \in K |-> 1 + Cardinality(Low(K, k))]
<1>3. ASSUME NEW k \in K PROVE 1 + Cardinality(Low(K, k)) \in 1..n
  <2>1. IsFiniteSet(Low(K, k)) /\ Low(K, k) \subseteq K /\ k \notin Low(K, k)
    BY <1>2, FS_Subset, LowerIsOrder DEF Low
  <2>2. Cardinality(Low(K, k)) <= Cardinality(K) /\ (Cardinality(K) = Cardinality(Low(K, k)) => K = Low(K, k))
    <3> QED BY <1>2, <2>1, FS_Subset
  <2>3. Cardinality(Low(K, k)) \in Nat
    <3> QED BY <2>1, FS_CardinalityType
  <2> QED BY <1>2, <2>1, <2>2, <2>3
<1>4. ASSUME NEW i \in 1..n, NEW j \in 1..n, i # j PROVE rank[key[i]] # rank[key[j]]
  <2>1. key[i] \in K /\ key[j] \in K /\ key[i] # key[j]
    BY <1>4
  <2>2. Cardinality(Low(K, key[i])) # Cardinality(Low(K, key[j]))
    <3> SUFFICES ASSUME Cardinality(Low(K, key[i])) = Cardinality(Low(K, key[j])) PROVE FALSE
      OBVIOUS
    <3> DEFINE x == key[i]
               y == key[j]
    <3>1. x \in K /\ y \in K /\ x # y /\ K \in SUBSET (Nat \X Nat)
          /\ Cardinality(Low(K, x)) = Cardinality(Low(K, y))
      BY <2>1
    <3> HIDE DEF x, y
    <3> QED BY ONLY <3>1, <1>2, RankTells
  <2>3. 1 + Cardinality(Low(K, key[i])) \in 1..n /\ 1 + Cardinality(Low(K, key[j])) \in 1..n
    BY <1>3, <2>1
  <2>4. Cardinality(Low(K, key[i])) \in Nat /\ Cardinality(Low(K, key[j])) \in Nat
    <3>1. IsFiniteSet(Low(K, key[i])) /\ IsFiniteSet(Low(K, key[j]))
      BY <1>2, FS_Subset DEF Low
    <3> QED BY <3>1, FS_CardinalityType
  <2> QED BY <2>1, <2>2, <2>4
<1>5. \A r \in 1..n : \E k \in K : rank[k] = r
  <2> DEFINE place == [i \in 1..n |-> rank[key[i]]]
  <2>1. place \in [1..n -> 1..n]
    BY <1>3
  <2>2. \A i, j \in 1..n : i # j => place[i] # place[j]
    BY <1>4
  <2> DEFINE M == 1..n
  <2> HIDE DEF place
  <2>3. \A r \in M : \E i \in 1..n : place[i] = r
    <3>1. place \in [1..n -> M] /\ IsFiniteSet(M) /\ n = Cardinality(M)
      BY <1>1, <2>1
    <3> HIDE DEF M
    <3> QED BY ONLY <3>1, <2>2, n \in Nat, DistinctKeys
  <2> HIDE DEF rank
  <2> QED BY <2>3 DEF place
<1>6. ASSUME NEW i \in 1..n
      PROVE  Cardinality(Under(key, n, key[i])) = Cardinality(Low(K, key[i]))
  <2> DEFINE S == Under(key, n, key[i])
             f == [j \in S |-> key[j]]
  <2>1. f \in [S -> Low(K, key[i])]
    BY DEF Low, Under
  <2>2. \A x, y \in S : f[x] = f[y] => x = y
    BY DEF Under
  <2>3. \A k \in Low(K, key[i]) : \E x \in S : f[x] = k
    BY DEF Low, Under
  <2>4. IsFiniteSet(S)
    BY <1>1, FS_Subset DEF Under
  <2> HIDE DEF S, f
  <2>5. Cardinality(Low(K, key[i])) = Cardinality(S)
    BY <2>1, <2>2, <2>3, <2>4, Matched
  <2> QED BY <2>5 DEF S
<1> QED BY <1>2, <1>3, <1>5, <1>6 DEF KeysRank

-----------------------------------------------------------------------------
(* Lists one after the other *)

Laid(lists, T, f) ==
  /\ f \in [0..Len(lists) -> Seq(T)] /\ f[0] = <<>>
  /\ \A n \in 1..Len(lists) : f[n] = f[n - 1] \o lists[n]

\* Joining goes list by list.
LEMMA JoinedSteps ==
  ASSUME NEW T, NEW lists \in Seq(Seq(T))
  PROVE  \E f : Laid(lists, T, f) /\ Joined(lists) = f[Len(lists)]
<1> DEFINE F == [n \in 1..Len(lists) |-> [v \in Seq(T) |-> v \o lists[n]]]
           N == Len(lists)
           Meets(f) == f = [n \in 0..N |-> IF n = 0 THEN <<>> ELSE f[n - 1] \o lists[n]]
<1>1. N \in Nat /\ \A n \in 1..N : lists[n] \in Seq(T)
  OBVIOUS
<1>2. F \in [1..N -> [Seq(T) -> Seq(T)]]
  BY <1>1
<1>3. <<>> \in Seq(T)
  OBVIOUS
<1> HIDE DEF F
<1>4. PICK f \in [0..N -> Seq(T)] : f[0] = <<>> /\ \A n \in 1..N : f[n] = F[n][f[n - 1]]
  <2> DEFINE V == Seq(T)
             empty == <<>>
  <2>1. N \in Nat /\ F \in [1..N -> [V -> V]] /\ empty \in V
    BY <1>1, <1>2, <1>3
  <2> HIDE DEF V, N, empty
  <2>2. \E f \in [0..N -> V] : f[0] = empty /\ \A n \in 1..N : f[n] = F[n][f[n - 1]]
    BY ONLY <2>1, Recursion, SMTT(60)
  <2> QED BY <2>2 DEF V, empty
<1>5. ASSUME NEW n \in 1..N PROVE f[n] = f[n - 1] \o lists[n]
  <2>1. n - 1 \in 0..N
    BY <1>1
  <2>2. f[n - 1] \in Seq(T)
    BY <2>1, <1>4
  <2>3. F[n][f[n - 1]] = f[n - 1] \o lists[n]
    BY <2>2 DEF F
  <2> QED BY <2>3, <1>4
<1>6. Meets(f)
  <2> DEFINE h == [n \in 0..N |-> IF n = 0 THEN <<>> ELSE f[n - 1] \o lists[n]]
  <2>1. ASSUME NEW n \in 0..N PROVE f[n] = h[n]
    <3>1. n = 0 \/ n \in 1..N
      BY <1>1
    <3> QED BY <3>1, <1>4, <1>5
  <2>2. h = [n \in 0..N |-> h[n]] /\ f = [n \in 0..N |-> f[n]]
    BY <1>4
  <2> HIDE DEF h
  <2>3. f = h
    BY <2>1, <2>2
  <2> QED BY <2>3 DEF h
<1> DEFINE g == CHOOSE g : Meets(g)
<1>7. Meets(g)
  BY <1>6
<1>8. Joined(lists) = g[N]
  BY DEF Joined
<1>9. g[0] = <<>> /\ \A n \in 1..N : g[n] = g[n - 1] \o lists[n]
  <2> DEFINE h == [n \in 0..N |-> IF n = 0 THEN <<>> ELSE g[n - 1] \o lists[n]]
  <2>1. g = h
    BY <1>7
  <2>2. h[0] = <<>> /\ \A n \in 1..N : h[n] = g[n - 1] \o lists[n]
    <3>1. 0 \in 0..N /\ \A n \in 1..N : n \in 0..N /\ n # 0
      BY <1>1
    <3> HIDE DEF g, N
    <3> QED BY <3>1
  <2> HIDE DEF h, g
  <2> QED BY <2>1, <2>2
<1> HIDE DEF g
<1>10. g[N] = f[N]
  <2>1. g[0] = f[0] /\ \A n \in 1..N : g[n - 1] = f[n - 1] => g[n] = f[n]
    BY <1>4, <1>5, <1>9
  <2>2. \A n \in 0..N : g[n] = f[n]
    <3>1. N \in Nat
      BY <1>1
    <3> HIDE DEF N
    <3> QED BY ONLY <2>1, <3>1, Folded
  <2> QED BY <2>2, <1>1
<1>11. Laid(lists, T, f)
  BY <1>4, <1>5 DEF Laid
<1> QED BY <1>8, <1>10, <1>11

\* The spots of the first n lists.
Spots(lists, n) == {p \in (1..n) \X (Nat \ {0}) : p[2] <= Len(lists[p[1]])}

\* Each element of a list stems from a spot of its own, and no spot is left out.
SpotAt(list, lists, n, from) ==
  /\ from \in [1..Len(list) -> Spots(lists, n)]
  /\ \A k, l \in 1..Len(list) : from[k] = from[l] => k = l
  /\ \A p \in Spots(lists, n) : \E k \in 1..Len(list) : from[k] = p
  /\ \A k \in 1..Len(list) : list[k] = lists[from[k][1]][from[k][2]]

\* Joining one more list adds its spots.
LEMMA SpotsGrow ==
  ASSUME NEW T, NEW lists, NEW n \in Nat \ {0}, NEW list \in Seq(T), lists[n] \in Seq(T),
         NEW from, SpotAt(list, lists, n - 1, from)
  PROVE  \E on : SpotAt(list \o lists[n], lists, n, on)
<1> DEFINE a == Len(list)
           more == lists[n]
           b == Len(more)
           longer == list \o more
           on == [k \in 1..(a + b) |-> IF k <= a THEN from[k] ELSE <<n, k - a>>]
<1>1. /\ a \in Nat /\ b \in Nat /\ Len(longer) = a + b
      /\ \A k \in 1..a : longer[k] = list[k]
      /\ \A k \in 1..(a + b) : ~(k <= a) => longer[k] = more[k - a] /\ k - a \in 1..b
  OBVIOUS
<1>2. \A p : p \in Spots(lists, n) <=>
              \/ p \in Spots(lists, n - 1)
              \/ \E i \in 1..b : p = <<n, i>>
  <2>1. n \in 1..n /\ \A i \in 1..n : i # n => i \in 1..(n - 1)
    OBVIOUS
  <2>2. \A i \in 1..(n - 1) : i \in 1..n /\ i # n
    OBVIOUS
  <2>3. ASSUME NEW p \in Spots(lists, n), p \notin Spots(lists, n - 1)
        PROVE  \E i \in 1..b : p = <<n, i>>
    <3>1. p = <<p[1], p[2]>> /\ p[1] \in 1..n /\ p[2] \in Nat \ {0} /\ p[2] <= Len(lists[p[1]])
      BY <2>3 DEF Spots
    <3>2. p[1] = n
      BY <2>1, <2>3, <3>1 DEF Spots
    <3> QED BY <1>1, <3>1, <3>2
  <2>4. ASSUME NEW p \in Spots(lists, n - 1) PROVE p \in Spots(lists, n)
    BY <2>2, <2>4 DEF Spots
  <2>5. ASSUME NEW i \in 1..b PROVE <<n, i>> \in Spots(lists, n)
    BY <1>1, <2>1 DEF Spots
  <2> QED BY <2>3, <2>4, <2>5
<1>3. \A p \in Spots(lists, n - 1) : p[1] # n
  BY DEF Spots
<1>4. /\ \A k \in 1..a : from[k] \in Spots(lists, n - 1) /\ list[k] = lists[from[k][1]][from[k][2]]
      /\ \A k, l \in 1..a : from[k] = from[l] => k = l
      /\ \A p \in Spots(lists, n - 1) : \E k \in 1..a : from[k] = p
  BY DEF SpotAt
<1>5. /\ \A k \in 1..a : k \in 1..(a + b) /\ on[k] = from[k]
      /\ \A k \in 1..(a + b) : ~(k <= a) => on[k] = <<n, k - a>>
      /\ \A k \in 1..(a + b) : k <= a => k \in 1..a
      /\ \A i \in 1..b : a + i \in 1..(a + b) /\ ~(a + i <= a) /\ (a + i) - a = i
  BY <1>1
<1>6. on \in [1..(a + b) -> Spots(lists, n)]
  <2>1. \A k \in 1..(a + b) : on[k] \in Spots(lists, n)
    BY <1>1, <1>2, <1>4, <1>5
  <2>2. on = [k \in 1..(a + b) |-> on[k]]
    OBVIOUS
  <2> HIDE DEF on
  <2> QED BY <2>1, <2>2
<1> HIDE DEF on, a, b
<1>7. \A k, l \in 1..(a + b) : on[k] = on[l] => k = l
  <2> SUFFICES ASSUME NEW k \in 1..(a + b), NEW l \in 1..(a + b), on[k] = on[l] PROVE k = l
    OBVIOUS
  <2>1. CASE k <= a /\ l <= a
    BY <2>1, <1>4, <1>5
  <2>2. CASE ~(k <= a) /\ ~(l <= a)
    <3>1. k - a = l - a
      BY <2>2, <1>5
    <3> QED BY <3>1, <1>1
  <2>3. CASE k <= a /\ ~(l <= a)
    <3>1. on[k][1] # n /\ on[l][1] = n
      BY <2>3, <1>3, <1>4, <1>5
    <3> QED BY <3>1
  <2>4. CASE ~(k <= a) /\ l <= a
    <3>1. on[l][1] # n /\ on[k][1] = n
      BY <2>4, <1>3, <1>4, <1>5
    <3> QED BY <3>1
  <2> QED BY <2>1, <2>2, <2>3, <2>4
<1>8. \A p \in Spots(lists, n) : \E k \in 1..(a + b) : on[k] = p
  <2> SUFFICES ASSUME NEW p \in Spots(lists, n) PROVE \E k \in 1..(a + b) : on[k] = p
    OBVIOUS
  <2>1. CASE p \in Spots(lists, n - 1)
    BY <2>1, <1>4, <1>5
  <2>2. CASE \E i \in 1..b : p = <<n, i>>
    BY <2>2, <1>5
  <2> QED BY <2>1, <2>2, <1>2
<1>9. \A k \in 1..(a + b) : longer[k] = lists[on[k][1]][on[k][2]]
  <2> SUFFICES ASSUME NEW k \in 1..(a + b) PROVE longer[k] = lists[on[k][1]][on[k][2]]
    OBVIOUS
  <2> HIDE DEF longer
  <2>1. CASE k <= a
    BY <2>1, <1>1, <1>4, <1>5
  <2>2. CASE ~(k <= a)
    <3>1. on[k][1] = n /\ on[k][2] = k - a
      BY <2>2, <1>5
    <3> QED BY <2>2, <3>1, <1>1 DEF more
  <2> QED BY <2>1, <2>2
<1>10. SpotAt(longer, lists, n, on)
  BY <1>1, <1>6, <1>7, <1>8, <1>9 DEF SpotAt
<1> QED BY <1>10

\* Lists one after the other are a list with the elements of all of them.
LEMMA JoinedSpots ==
  ASSUME NEW T, NEW lists \in Seq(Seq(T))
  PROVE  /\ Joined(lists) \in Seq(T)
         /\ \E from : SpotAt(Joined(lists), lists, Len(lists), from)
<1>1. PICK f : Laid(lists, T, f) /\ Joined(lists) = f[Len(lists)]
  BY JoinedSteps
<1> DEFINE N == Len(lists)
           placed == {n \in Nat : n <= N => \E from : SpotAt(f[n], lists, n, from)}
<1>2. N \in Nat /\ (\A n \in 1..N : lists[n] \in Seq(T)) /\ f[0] = <<>>
      /\ (\A n \in 0..N : f[n] \in Seq(T)) /\ \A n \in 1..N : f[n] = f[n - 1] \o lists[n]
  BY <1>1 DEF Laid
<1> HIDE DEF N
<1>3. 0 \in placed
  <2> DEFINE e == [k \in {} |-> k]
  <2>1. Spots(lists, 0) = {} /\ 1..Len(f[0]) = {}
    BY <1>2 DEF Spots
  <2>2. SpotAt(f[0], lists, 0, e)
    BY <2>1 DEF SpotAt
  <2> QED BY <2>2
<1>4. ASSUME NEW n \in Nat, n \in placed PROVE n + 1 \in placed
  <2>1. SUFFICES ASSUME n + 1 <= N PROVE \E from : SpotAt(f[n + 1], lists, n + 1, from)
    OBVIOUS
  <2> DEFINE m == n + 1
  <2>2. m \in Nat \ {0} /\ m \in 1..N /\ m - 1 = n /\ n \in 0..N
    BY <2>1, <1>2
  <2>3. PICK from : SpotAt(f[n], lists, n, from)
    BY <1>2, <1>4, <2>1
  <2>4. f[m] = f[n] \o lists[m] /\ lists[m] \in Seq(T) /\ f[n] \in Seq(T)
    BY <1>2, <2>2
  <2> HIDE DEF m
  <2>5. SpotAt(f[n], lists, m - 1, from)
    BY <2>2, <2>3
  <2>6. \E on : SpotAt(f[n] \o lists[m], lists, m, on)
    BY <2>2, <2>4, <2>5, SpotsGrow
  <2> QED BY <2>4, <2>6 DEF m
<1> HIDE DEF placed
<1>5. Nat \subseteq placed
  BY <1>3, <1>4, Induction
<1>6. \E from : SpotAt(f[N], lists, N, from)
  BY <1>2, <1>5 DEF placed
<1> QED BY <1>1, <1>2, <1>6 DEF N

\* When no two spots have the same key, no two places of the whole have.
LEMMA JoinedDiffer ==
  ASSUME NEW T, NEW lists \in Seq(Seq(T)), NEW key,
         \A n, m \in 1..Len(lists) : \A i \in 1..Len(lists[n]), j \in 1..Len(lists[m]) :
           key[lists[n][i]] = key[lists[m][j]] => n = m /\ i = j
  PROVE  \A k, l \in 1..Len(Joined(lists)) : key[Joined(lists)[k]] = key[Joined(lists)[l]] => k = l
<1> DEFINE J == Joined(lists)
           N == Len(lists)
<1>1. PICK from : SpotAt(J, lists, N, from)
  BY JoinedSpots
<1> HIDE DEF J
<1> SUFFICES ASSUME NEW k \in 1..Len(J), NEW l \in 1..Len(J), key[J[k]] = key[J[l]] PROVE k = l
  BY DEF J
<1> DEFINE p == from[k]
           q == from[l]
<1>2. p \in Spots(lists, N) /\ q \in Spots(lists, N) /\ (p = q => k = l)
      /\ key[lists[p[1]][p[2]]] = key[lists[q[1]][q[2]]]
  BY <1>1 DEF SpotAt
<1> HIDE DEF p, q
<1>3. N \in Nat /\ \A n \in 1..N : Len(lists[n]) \in Nat
  OBVIOUS
<1>4. /\ p = <<p[1], p[2]>> /\ p[1] \in 1..N /\ p[2] \in 1..Len(lists[p[1]])
      /\ q = <<q[1], q[2]>> /\ q[1] \in 1..N /\ q[2] \in 1..Len(lists[q[1]])
  BY <1>2, <1>3 DEF Spots
<1>5. p[1] = q[1] /\ p[2] = q[2]
  BY <1>2, <1>4
<1> QED BY <1>2, <1>4, <1>5

\* What is in the whole is in one of the lists, and the other way round.
LEMMA JoinedInside ==
  ASSUME NEW T, NEW lists \in Seq(Seq(T))
  PROVE  /\ Joined(lists) \in Seq(T)
         /\ \A k \in 1..Len(Joined(lists)) : \E n \in 1..Len(lists) :
              \E i \in 1..Len(lists[n]) : Joined(lists)[k] = lists[n][i]
         /\ \A n \in 1..Len(lists) : \A i \in 1..Len(lists[n]) :
              \E k \in 1..Len(Joined(lists)) : Joined(lists)[k] = lists[n][i]
<1> DEFINE J == Joined(lists)
           N == Len(lists)
<1>1. J \in Seq(T) /\ \E from : SpotAt(J, lists, N, from)
  BY JoinedSpots
<1>2. PICK from : SpotAt(J, lists, N, from)
  BY <1>1
<1>3. N \in Nat /\ \A n \in 1..N : Len(lists[n]) \in Nat
  OBVIOUS
<1> HIDE DEF J
<1>4. ASSUME NEW k \in 1..Len(J)
      PROVE  \E n \in 1..N : \E i \in 1..Len(lists[n]) : J[k] = lists[n][i]
  <2>1. from[k] \in Spots(lists, N) /\ J[k] = lists[from[k][1]][from[k][2]]
    BY <1>2 DEF SpotAt
  <2>2. from[k][1] \in 1..N /\ from[k][2] \in 1..Len(lists[from[k][1]])
    BY <2>1, <1>3 DEF Spots
  <2> QED BY <2>1, <2>2
<1>5. ASSUME NEW n \in 1..N, NEW i \in 1..Len(lists[n])
      PROVE  \E k \in 1..Len(J) : J[k] = lists[n][i]
  <2>1. <<n, i>> \in Spots(lists, N)
    BY <1>3 DEF Spots
  <2>2. PICK k \in 1..Len(J) : from[k] = <<n, i>>
    BY <2>1, <1>2 DEF SpotAt
  <2>3. J[k] = lists[from[k][1]][from[k][2]]
    BY <1>2 DEF SpotAt
  <2> QED BY <2>2, <2>3
<1> QED BY <1>1, <1>4, <1>5 DEF J

-----------------------------------------------------------------------------
(* How often *)

\* How many places of a list hold an element of a set.
Times(list, S) == Cardinality({k \in 1..Len(list) : list[k] \in S})

\* A list holds finitely many.
LEMMA TimesFinite ==
  ASSUME NEW T, NEW list \in Seq(T), NEW S
  PROVE  IsFiniteSet({k \in 1..Len(list) : list[k] \in S}) /\ Times(list, S) \in Nat
<1> DEFINE A == {k \in 1..Len(list) : list[k] \in S}
<1>1. Len(list) \in Nat
  OBVIOUS
<1>2. IsFiniteSet(1..Len(list))
  BY <1>1, CountTo
<1>3. IsFiniteSet(A)
  BY <1>2, FS_Subset
<1> HIDE DEF A
<1>4. Cardinality(A) \in Nat
  BY <1>3, FS_CardinalityType
<1> QED BY <1>3, <1>4 DEF A, Times

\* What two lists hold adds up when they are joined.
LEMMA TimesAdd ==
  ASSUME NEW T, NEW a \in Seq(T), NEW b \in Seq(T), NEW S
  PROVE  Times(a \o b, S) = Times(a, S) + Times(b, S)
<1> DEFINE m == Len(a)
           n == Len(b)
           c == a \o b
           A == {k \in 1..m : a[k] \in S}
           B == {k \in 1..n : b[k] \in S}
           C == {k \in 1..(m + n) : c[k] \in S}
           R == C \ A
           shift == [k \in B |-> m + k]
<1>1. m \in Nat /\ n \in Nat /\ Len(c) = m + n
      /\ (\A k \in 1..m : c[k] = a[k]) /\ \A k \in 1..n : c[m + k] = b[k]
  OBVIOUS
<1>2. IsFiniteSet(A) /\ IsFiniteSet(B) /\ Times(a, S) = Cardinality(A) /\ Times(b, S) = Cardinality(B)
      /\ Cardinality(A) \in Nat /\ Cardinality(B) \in Nat
  BY TimesFinite DEF Times
<1>3. Times(c, S) = Cardinality(C)
  BY <1>1 DEF Times
<1> HIDE DEF m, n, c
<1>4. A \subseteq C /\ \A k \in R : k \in 1..(m + n) /\ k > m /\ k - m \in 1..n /\ m + (k - m) = k
  <2>1. \A k \in 1..m : k \in 1..(m + n)
    BY <1>1
  <2>2. A \subseteq C
    BY <1>1, <2>1
  <2>3. ASSUME NEW k \in R PROVE k \in 1..(m + n) /\ k > m
    <3>1. k \in 1..(m + n) /\ c[k] \in S /\ ~(k \in 1..m /\ a[k] \in S)
      OBVIOUS
    <3>2. k \notin 1..m
      BY <3>1, <1>1
    <3> QED BY <3>1, <3>2, <1>1
  <2> HIDE DEF R
  <2> QED BY <1>1, <2>2, <2>3
<1>5. shift \in [B -> R]
  <2>1. ASSUME NEW k \in B PROVE m + k \in R
    <3>1. k \in 1..n /\ m + k \in 1..(m + n) /\ m + k \notin 1..m /\ c[m + k] \in S
      BY <1>1
    <3> QED BY <3>1
  <2> QED BY <2>1
<1>6. \A x, y \in B : shift[x] = shift[y] => x = y
  BY <1>1
<1>7. \A k \in R : \E x \in B : shift[x] = k
  <2> SUFFICES ASSUME NEW k \in R PROVE \E x \in B : shift[x] = k
    OBVIOUS
  <2>1. k \in 1..(m + n) /\ k - m \in 1..n /\ m + (k - m) = k /\ c[k] \in S
    BY <1>4
  <2>2. k - m \in B
    BY <2>1, <1>1
  <2> QED BY <2>1, <2>2
<1> HIDE DEF shift, B
<1>8. IsFiniteSet(R) /\ Cardinality(R) = Cardinality(B)
  <2> HIDE DEF R
  <2> QED BY ONLY <1>2, <1>5, <1>6, <1>7, Matched
<1>9. C = A \cup R /\ A \cap R = {}
  BY <1>4
<1> HIDE DEF A, C, R
<1>10. Cardinality(A \cup R) = Cardinality(A) + Cardinality(R) - Cardinality({})
  BY <1>2, <1>8, <1>9, FS_Union
<1> QED BY <1>2, <1>3, <1>8, <1>9, <1>10, FS_EmptySet DEF c

\* When every list holds elements of a set c times, the whole does so c times as
\* often as there are lists.
LEMMA JoinedTimes ==
  ASSUME NEW T, NEW lists \in Seq(Seq(T)), NEW S, NEW c \in Nat,
         \A n \in 1..Len(lists) : Times(lists[n], S) = c
  PROVE  Times(Joined(lists), S) = Len(lists) * c
<1>1. PICK f : Laid(lists, T, f) /\ Joined(lists) = f[Len(lists)]
  BY JoinedSteps
<1> DEFINE N == Len(lists)
           right == {n \in Nat : n <= N => Times(f[n], S) = n * c}
<1>2. N \in Nat /\ (\A n \in 1..N : lists[n] \in Seq(T)) /\ f[0] = <<>>
      /\ (\A n \in 0..N : f[n] \in Seq(T)) /\ \A n \in 1..N : f[n] = f[n - 1] \o lists[n]
  BY <1>1 DEF Laid
<1> HIDE DEF N
<1>3. 0 \in right
  <2>1. {k \in 1..Len(<<>>) : <<>>[k] \in S} = {}
    OBVIOUS
  <2>2. Times(f[0], S) = 0
    BY <1>2, <2>1, FS_EmptySet DEF Times
  <2> QED BY <2>2
<1>4. ASSUME NEW n \in Nat, n \in right PROVE n + 1 \in right
  <2>1. SUFFICES ASSUME n + 1 <= N PROVE Times(f[n + 1], S) = (n + 1) * c
    OBVIOUS
  <2> DEFINE m == n + 1
  <2>2. m \in 1..N /\ m - 1 = n /\ n \in 0..N /\ n <= N
    BY <2>1, <1>2
  <2>3. Times(f[n], S) = n * c
    BY <1>4, <2>2
  <2>4. f[m] = f[n] \o lists[m] /\ lists[m] \in Seq(T) /\ f[n] \in Seq(T)
    BY <1>2, <2>2
  <2>5. Times(lists[m], S) = c
    BY <2>2 DEF N
  <2> HIDE DEF m
  <2>6. Times(f[m], S) = n * c + c
    BY <2>3, <2>4, <2>5, TimesAdd
  <2>7. n * c + c = (n + 1) * c
    BY ONLY n \in Nat, c \in Nat
  <2> QED BY <2>6, <2>7 DEF m
<1> HIDE DEF right
<1>5. Nat \subseteq right
  BY <1>3, <1>4, Induction
<1> QED BY <1>1, <1>2, <1>5 DEF N, right

-----------------------------------------------------------------------------
(* Lists filled up to a limit *)

\* Of N elements those with a number in U are taken until there are `max`.
Filled(N, E, U, max, T, f) ==
  /\ f \in [0..N -> Seq(T)] /\ f[0] = <<>>
  /\ \A n \in 1..N :
       f[n] = IF n \notin U \/ Len(f[n - 1]) >= max THEN f[n - 1] ELSE Append(f[n - 1], E[n])

\* The numbers of U up to n.
NumbersTo(U, n) == {u \in U : u <= n}

\* A list takes elements with a number among V, none twice.
TakenFrom(list, E, V, from) ==
  /\ from \in [1..Len(list) -> V]
  /\ \A i, j \in 1..Len(list) : from[i] = from[j] => i = j
  /\ \A i \in 1..Len(list) : list[i] = E[from[i]]

LesserOf(a, b) == IF a < b THEN a ELSE b

\* The next number is one more of them, or it is not in U.
GrowsAt(U, n) ==
  /\ Cardinality(NumbersTo(U, n - 1)) \in Nat
  /\ NumbersTo(U, n - 1) \subseteq NumbersTo(U, n)
  /\ n \notin U => NumbersTo(U, n) = NumbersTo(U, n - 1)
  /\ n \in U => /\ n \in NumbersTo(U, n) /\ n \notin NumbersTo(U, n - 1)
                /\ Cardinality(NumbersTo(U, n)) = Cardinality(NumbersTo(U, n - 1)) + 1

\* Every number is in U or changes nothing.
LEMMA NumbersGrow ==
  ASSUME NEW N \in Nat, NEW U, U \subseteq 1..N, NEW n \in 1..N
  PROVE  GrowsAt(U, n)
<1>1. IsFiniteSet(1..N)
  BY CountTo
<1>2. IsFiniteSet(U)
  BY <1>1, FS_Subset
<1>3. IsFiniteSet(NumbersTo(U, n - 1)) /\ Cardinality(NumbersTo(U, n - 1)) \in Nat
  <2>1. NumbersTo(U, n - 1) \subseteq U
    BY DEF NumbersTo
  <2>2. IsFiniteSet(NumbersTo(U, n - 1))
    BY <1>2, <2>1, FS_Subset
  <2> QED BY <2>2, FS_CardinalityType
<1>4. \A u \in U : u <= n <=> u <= n - 1 \/ u = n
  OBVIOUS
<1>5. n \notin U => NumbersTo(U, n) = NumbersTo(U, n - 1)
  BY <1>4 DEF NumbersTo
<1>6. n \in U => n \in NumbersTo(U, n) /\ n \notin NumbersTo(U, n - 1) /\ NumbersTo(U, n) = NumbersTo(U, n - 1) \cup {n}
  <2>1. n <= n /\ ~(n <= n - 1)
    OBVIOUS
  <2>2. ASSUME n \in U PROVE \A u : u \in NumbersTo(U, n) <=> u \in NumbersTo(U, n - 1) \cup {n}
    BY <1>4, <2>1, <2>2 DEF NumbersTo
  <2> QED BY <2>1, <2>2 DEF NumbersTo
<1>7. NumbersTo(U, n - 1) \subseteq NumbersTo(U, n)
  BY <1>4 DEF NumbersTo
<1>8. n \in U => Cardinality(NumbersTo(U, n)) = Cardinality(NumbersTo(U, n - 1)) + 1
  BY <1>3, <1>6, FS_AddElement
<1> QED BY <1>3, <1>5, <1>6, <1>7, <1>8 DEF GrowsAt

\* A list filled up to a limit holds what there is, or as much as the limit allows.
LEMMA FilledTo ==
  ASSUME NEW T, NEW N \in Nat, NEW E, NEW U, U \subseteq 1..N, NEW max \in Nat,
         NEW f, Filled(N, E, U, max, T, f)
  PROVE  /\ Len(f[N]) = LesserOf(Cardinality(U), max)
         /\ \E from : TakenFrom(f[N], E, U, from)
<1> DEFINE Right(n) == /\ Len(f[n]) = LesserOf(Cardinality(NumbersTo(U, n)), max)
                       /\ \E from : TakenFrom(f[n], E, NumbersTo(U, n), from)
           right == {n \in Nat : n <= N => Right(n)}
<1>1. /\ f[0] = <<>> /\ \A n \in 0..N : f[n] \in Seq(T)
      /\ \A n \in 1..N :
           f[n] = IF n \notin U \/ Len(f[n - 1]) >= max THEN f[n - 1] ELSE Append(f[n - 1], E[n])
  BY DEF Filled
<1>2. 0 \in right
  <2>1. NumbersTo(U, 0) = {}
    <3>1. \A u \in U : ~(u <= 0)
      OBVIOUS
    <3> QED BY <3>1 DEF NumbersTo
  <2>2. Len(f[0]) = 0 /\ 1..Len(f[0]) = {}
    BY <1>1
  <2>3. Len(f[0]) = LesserOf(Cardinality(NumbersTo(U, 0)), max)
    <3>1. Cardinality(NumbersTo(U, 0)) = 0
      BY <2>1, FS_EmptySet
    <3> QED BY <2>2, <3>1 DEF LesserOf
  <2>4. TakenFrom(f[0], E, NumbersTo(U, 0), [k \in {} |-> k])
    BY <2>1, <2>2 DEF TakenFrom
  <2> QED BY <2>3, <2>4
<1>3. ASSUME NEW n \in Nat, n \in right PROVE n + 1 \in right
  <2>1. SUFFICES ASSUME n + 1 <= N PROVE Right(n + 1)
    OBVIOUS
  <2> DEFINE m == n + 1
             a == f[n]
             b == f[m]
             A == NumbersTo(U, n)
             B == NumbersTo(U, m)
             L == Len(a)
  <2>2. m \in 1..N /\ m - 1 = n /\ n \in 0..N /\ m \in 0..N /\ n <= N
    BY <2>1
  <2>3. L = LesserOf(Cardinality(A), max) /\ \E from : TakenFrom(a, E, A, from)
    BY <1>3, <2>2
  <2>4. PICK from : TakenFrom(a, E, A, from)
    BY <2>3
  <2>5. /\ Cardinality(A) \in Nat /\ A \subseteq B
        /\ m \notin U => B = A
        /\ m \in U => m \in B /\ m \notin A /\ Cardinality(B) = Cardinality(A) + 1
    <3>1. GrowsAt(U, m)
      <4>1. m \in 1..N
        BY <2>2
      <4> HIDE DEF m
      <4> QED BY ONLY <4>1, N \in Nat, U \subseteq 1..N, NumbersGrow
    <3> QED BY <2>2, <3>1 DEF GrowsAt
  <2>6. /\ a \in Seq(T) /\ b \in Seq(T) /\ L \in Nat
        /\ b = IF m \notin U \/ L >= max THEN a ELSE Append(a, E[m])
    <3>1. f[m] = IF m \notin U \/ Len(f[m - 1]) >= max THEN f[m - 1] ELSE Append(f[m - 1], E[m])
      BY <1>1, <2>2
    <3>2. f[n] \in Seq(T) /\ f[m] \in Seq(T)
      BY <1>1, <2>2
    <3> QED BY <2>2, <3>1, <3>2
  <2>7. SUFFICES Len(b) = LesserOf(Cardinality(B), max) /\ \E on : TakenFrom(b, E, B, on)
    OBVIOUS
  <2> HIDE DEF a, b, A, B, m, L
  <2>8. CASE m \notin U
    BY <2>3, <2>5, <2>6, <2>8 DEF L
  <2>9. CASE m \in U /\ L >= max
    <3>1. b = a
      BY <2>6, <2>9
    <3>2. L = LesserOf(Cardinality(B), max)
      BY <2>3, <2>5, <2>6, <2>9 DEF LesserOf
    <3>3. TakenFrom(b, E, B, from)
      BY <2>4, <2>5, <3>1 DEF TakenFrom
    <3> QED BY <3>1, <3>2, <3>3 DEF L
  <2>10. CASE m \in U /\ ~(L >= max)
    <3>1. b = Append(a, E[m]) /\ Len(b) = L + 1
      BY <2>6, <2>10 DEF L
    <3>2. Len(b) = LesserOf(Cardinality(B), max)
      BY <2>3, <2>5, <2>6, <2>10, <3>1 DEF LesserOf
    <3> DEFINE on == [i \in 1..(L + 1) |-> IF i = L + 1 THEN m ELSE from[i]]
    <3>3. \A i \in 1..(L + 1) : i # L + 1 => i \in 1..L
      BY <2>6
    <3>4. /\ \A i \in 1..L : i # L + 1 /\ i \in 1..(L + 1)
          /\ L + 1 \in 1..(L + 1)
      BY <2>6
    <3>5. /\ \A i \in 1..L : from[i] \in A /\ a[i] = E[from[i]]
          /\ \A i, j \in 1..L : from[i] = from[j] => i = j
      BY <2>4 DEF TakenFrom, L
    <3>6. b[L + 1] = E[m] /\ \A i \in 1..L : b[i] = a[i]
      BY <2>6, <3>1 DEF L
    <3>7. \A i \in 1..(L + 1) : on[i] = IF i = L + 1 THEN m ELSE from[i]
      OBVIOUS
    <3>8. on \in [1..(L + 1) -> B]
      <4>1. \A i \in 1..(L + 1) : on[i] \in B
        BY <2>5, <2>10, <3>3, <3>5, <3>7
      <4> QED BY <4>1
    <3> HIDE DEF on
    <3>9. \A i, j \in 1..(L + 1) : on[i] = on[j] => i = j
      BY <2>5, <2>10, <3>3, <3>5, <3>7
    <3>10. \A i \in 1..(L + 1) : b[i] = E[on[i]]
      BY <3>3, <3>5, <3>6, <3>7
    <3>11. TakenFrom(b, E, B, on)
      BY <3>1, <3>8, <3>9, <3>10 DEF TakenFrom
    <3> QED BY <3>2, <3>11
  <2> QED BY <2>8, <2>9, <2>10
<1> HIDE DEF right
<1>4. Nat \subseteq right
  BY <1>2, <1>3, Induction
<1>5. Right(N)
  BY <1>4 DEF right
<1>6. NumbersTo(U, N) = U
  <2>1. \A u \in U : u <= N
    OBVIOUS
  <2> QED BY <2>1 DEF NumbersTo
<1> QED BY <1>5, <1>6

\* A number below n * n has two digits to the base n, and they tell it.
LEMMA Digits ==
  ASSUME NEW n \in Nat \ {0}, NEW x \in 0..(n * n - 1)
  PROVE  /\ x \div n \in 0..(n - 1) /\ x % n \in 0..(n - 1)
         /\ x = n * (x \div n) + (x % n)
<1> DEFINE q == x \div n
           r == x % n
<1>1. n * n \in Nat /\ x \in Nat /\ x < n * n
  OBVIOUS
<1>2. q \in Int /\ r \in 0..(n - 1) /\ x = n * q + r
  BY <1>1
<1> HIDE DEF q, r
<1>3. q >= 0
  <2> SUFFICES ASSUME q <= -1 PROVE FALSE
    BY <1>2
  <2>1. n * q <= n * (-1)
    BY <1>2
  <2>2. n * (-1) = -n /\ n * q \in Int
    BY <1>2
  <2> QED BY <1>1, <1>2, <2>1, <2>2
<1>4. q < n
  <2> SUFFICES ASSUME q >= n PROVE FALSE
    BY <1>2
  <2>1. n * q >= n * n
    BY <1>2
  <2>2. n * q \in Int
    BY <1>2
  <2> QED BY <1>1, <1>2, <2>1, <2>2
<1> QED BY <1>2, <1>3, <1>4 DEF q, r

\* Two lists that start alike and go on alike end alike.
GoAlike(N, g, h) == g[0] = h[0] /\ \A n \in 1..N : g[n - 1] = h[n - 1] => g[n] = h[n]

LEMMA EndAlike ==
  ASSUME NEW N \in Nat, NEW g, NEW h, GoAlike(N, g, h)
  PROVE  g[N] = h[N]
<1>1. \A n \in 0..N : g[n] = h[n]
  BY Folded DEF GoAlike
<1> QED BY <1>1
=============================================================================
