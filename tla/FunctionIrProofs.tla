-------------------------- MODULE FunctionIrProofs --------------------------
(***************************************************************************)
(* What the operations on the node graph do to it, and what the lists that *)
(* the code builds in loops hold, for every set of operations and every    *)
(* number of nodes.  The lists are recursive functions over the length;    *)
(* what they return is shown by induction, in the form that the provers    *)
(* can use: a set of numbers has a least element.                          *)
(***************************************************************************)
EXTENDS FunctionPasses, FiniteSetTheorems, TLAPS

----------------------------------------------------------------------------
(***************************************************************************)
(* Induction, and sequences.                                               *)
(***************************************************************************)
\* A set of natural numbers has a least element.
LEMMA Least ==
    ASSUME NEW T \in SUBSET Nat, T # {}
    PROVE  \E x \in T : \A y \in T : x <= y
<1>1. PICK x \in T : \A y \in T : ~(<<y, x>> \in OpToRel(<, Nat))
  BY NatLessThanWellFounded, WFMin, ZenonT(60)
<1>2. \A y \in T : ~(y < x)
  BY <1>1, ZenonT(60) DEF OpToRel
<1>3. \A y \in T : x <= y
  BY <1>2, SMTT(60)
<1> QED BY <1>3, Zenon

\* Induction: a set that holds 0 and with k also k + 1 holds every number to N.
LEMMA UpTo ==
    ASSUME NEW N \in Nat, NEW S, 0 \in S, \A k \in 0..N - 1 : k \in S => k + 1 \in S
    PROVE  \A k \in 0..N : k \in S
<1> DEFINE T == {k \in 0..N : k \notin S}
<1> SUFFICES ASSUME T # {} PROVE FALSE
  OBVIOUS
<1>1. T \in SUBSET Nat
  OBVIOUS
<1>2. PICK x \in T : \A y \in T : x <= y
  BY <1>1, Least, Zenon
<1>3. x \in 0..N /\ x \notin S /\ x # 0
  BY <1>2
<1>4. x - 1 \in 0..N - 1
  BY <1>3
<1>5. x - 1 \in S
  BY <1>2, <1>4
<1> QED BY <1>3, <1>4, <1>5

\* The values that a recursion over 0..N takes in D.
Recursive(N, D, base, step) ==
    {g \in [0..N -> D] : g[0] = base /\ \A k \in 1..N : g[k] = step[k][g[k - 1]]}

\* A recursion has a solution.
LEMMA Recursion ==
    ASSUME NEW N \in Nat, NEW D, NEW base \in D, NEW step \in [1..N -> [D -> D]]
    PROVE  Recursive(N, D, base, step) # {}
<1> DEFINE Upto(M, g) == g[0] = base /\ \A k \in 1..M : g[k] = step[k][g[k - 1]]
           S == {M \in 0..N : \E g \in [0..M -> D] : Upto(M, g)}
<1>1. 0 \in S
  <2> DEFINE g == [k \in 0..0 |-> base]
  <2>1. g \in [0..0 -> D] /\ Upto(0, g)
    OBVIOUS
  <2>2. 0 \in 0..N
    OBVIOUS
  <2> HIDE DEF g
  <2> QED BY <2>1, <2>2, Zenon
<1>2. ASSUME NEW M \in 0..N - 1, M \in S PROVE M + 1 \in S
  <2>1. PICK g \in [0..M -> D] : Upto(M, g)
    BY <1>2
  <2> DEFINE h == [k \in 0..M + 1 |-> IF k = M + 1 THEN step[M + 1][g[M]] ELSE g[k]]
  <2>2. M \in 0..M /\ M + 1 \in 1..N /\ g[M] \in D /\ step[M + 1] \in [D -> D]
    OBVIOUS
  <2>3. step[M + 1][g[M]] \in D
    BY <2>2
  <2>4. h \in [0..M + 1 -> D]
    BY <2>3
  <2>5. /\ h[0] = g[0] /\ h[M + 1] = step[M + 1][g[M]]
        /\ \A k \in 0..M : h[k] = g[k]
    OBVIOUS
  <2>6. Upto(M + 1, h)
    <3>1. \A k \in 1..M : h[k] = step[k][h[k - 1]]
      <4> SUFFICES ASSUME NEW k \in 1..M PROVE h[k] = step[k][h[k - 1]]
        BY Zenon
      <4>1. k \in 0..M /\ k - 1 \in 0..M
        OBVIOUS
      <4>2. h[k] = g[k] /\ h[k - 1] = g[k - 1]
        BY <2>5, <4>1
      <4> QED BY <2>1, <4>2
    <3>2. h[M] = g[M] /\ (M + 1) - 1 = M
      BY <2>2, <2>5
    <3>3. \A k \in 1..M + 1 : k \in 1..M \/ k = M + 1
      OBVIOUS
    <3> HIDE DEF h
    <3> QED BY <2>1, <2>5, <3>1, <3>2, <3>3, Zenon
  <2>7. M + 1 \in 0..N
    OBVIOUS
  <2> QED BY <2>4, <2>6, <2>7, Zenon
<1> HIDE DEF S
<1>3. N \in S
  <2>1. \A k \in 0..N : k \in S
    BY <1>1, <1>2, UpTo, Zenon
  <2> QED BY <2>1
<1> QED BY <1>3 DEF S, Recursive

\* What a sequence is.
LEMMA SeqFacts ==
    ASSUME NEW T, NEW s \in Seq(T)
    PROVE  /\ Len(s) \in Nat /\ DOMAIN s = 1..Len(s)
           /\ \A i \in 1..Len(s) : s[i] \in T
           /\ Range(s) \subseteq T
BY DEF Range

\* The elements of a sequence with one more at the end.
LEMMA AppendFacts ==
    ASSUME NEW T, NEW s \in Seq(T), NEW x \in T
    PROVE  /\ Append(s, x) \in Seq(T) /\ Len(Append(s, x)) = Len(s) + 1
           /\ Range(Append(s, x)) = Range(s) \cup {x}
           /\ IsInjective(s) /\ x \notin Range(s) => IsInjective(Append(s, x))
<1> DEFINE t == Append(s, x)
<1>1. /\ t \in Seq(T) /\ Len(t) = Len(s) + 1 /\ Len(s) \in Nat
      /\ DOMAIN s = 1..Len(s) /\ DOMAIN t = 1..Len(s) + 1
      /\ \A i \in 1..Len(s) : t[i] = s[i]
      /\ t[Len(s) + 1] = x
  OBVIOUS
<1> HIDE DEF t
<1>2. \A i \in 1..Len(s) + 1 : i \in 1..Len(s) \/ i = Len(s) + 1
  BY <1>1
<1>3. 1..Len(s) \subseteq 1..Len(s) + 1 /\ Len(s) + 1 \in 1..Len(s) + 1
  BY <1>1
<1>4. Range(t) = Range(s) \cup {x}
  BY <1>1, <1>2, <1>3, Zenon DEF Range
<1>5. ASSUME IsInjective(s), x \notin Range(s) PROVE IsInjective(t)
  <2> SUFFICES ASSUME NEW i \in DOMAIN t, NEW j \in DOMAIN t, t[i] = t[j] PROVE i = j
    BY DEF IsInjective
  <2>1. \A k \in 1..Len(s) : s[k] # x
    BY <1>1, <1>5 DEF Range
  <2> QED BY <1>1, <1>2, <1>5, <2>1 DEF IsInjective
<1> QED BY <1>1, <1>4, <1>5 DEF t

\* The elements of two sequences, one after the other.
LEMMA ConcatFacts ==
    ASSUME NEW T, NEW s \in Seq(T), NEW t \in Seq(T)
    PROVE  /\ s \o t \in Seq(T) /\ Range(s \o t) = Range(s) \cup Range(t)
           /\ IsInjective(s) /\ IsInjective(t) /\ Range(s) \cap Range(t) = {}
                => IsInjective(s \o t)
<1> DEFINE u == s \o t
<1>1. /\ u \in Seq(T) /\ Len(s) \in Nat /\ Len(t) \in Nat
      /\ DOMAIN s = 1..Len(s) /\ DOMAIN t = 1..Len(t) /\ DOMAIN u = 1..Len(s) + Len(t)
      /\ \A i \in 1..Len(s) : u[i] = s[i]
      /\ \A i \in 1..Len(s) + Len(t) : i > Len(s) => u[i] = t[i - Len(s)]
  OBVIOUS
<1> HIDE DEF u
<1>2. \A i \in DOMAIN u : \/ i \in DOMAIN s /\ u[i] = s[i]
                          \/ i - Len(s) \in DOMAIN t /\ u[i] = t[i - Len(s)] /\ i \in Int
  BY <1>1
<1>3. \A i \in DOMAIN s : i \in DOMAIN u /\ u[i] = s[i]
  BY <1>1
<1>4. \A i \in DOMAIN t : i + Len(s) \in DOMAIN u /\ u[i + Len(s)] = t[i]
  BY <1>1
<1>5. Range(u) = Range(s) \cup Range(t)
  <2>1. Range(u) \subseteq Range(s) \cup Range(t)
    BY <1>2 DEF Range
  <2>2. Range(s) \subseteq Range(u)
    BY <1>3 DEF Range
  <2>3. Range(t) \subseteq Range(u)
    BY <1>4 DEF Range
  <2> QED BY <2>1, <2>2, <2>3
<1>6. ASSUME IsInjective(s), IsInjective(t), Range(s) \cap Range(t) = {}
      PROVE  IsInjective(u)
  <2> SUFFICES ASSUME NEW i \in DOMAIN u, NEW j \in DOMAIN u, u[i] = u[j] PROVE i = j
    BY DEF IsInjective
  <2>1. \A k \in DOMAIN s, l \in DOMAIN t : s[k] # t[l]
    BY <1>6, Zenon DEF Range
  <2>2. CASE i \in DOMAIN s /\ u[i] = s[i]
    BY <1>2, <1>6, <2>1, <2>2, Zenon DEF IsInjective
  <2>3. CASE i - Len(s) \in DOMAIN t /\ u[i] = t[i - Len(s)] /\ i \in Int
    <3>1. j - Len(s) \in DOMAIN t /\ u[j] = t[j - Len(s)] /\ j \in Int
      BY <1>2, <2>1, <2>3, Zenon
    <3>2. i - Len(s) = j - Len(s)
      BY <1>6, <2>3, <3>1, Zenon DEF IsInjective
    <3> QED BY <1>1, <2>3, <3>1, <3>2
  <2> QED BY <1>2, <2>2, <2>3
<1> QED BY <1>1, <1>5, <1>6 DEF u

\* The elements of a sequence without the first.
LEMMA TailFacts ==
    ASSUME NEW T, NEW s \in Seq(T), s # <<>>
    PROVE  /\ Head(s) \in T /\ Tail(s) \in Seq(T)
           /\ Head(s) = s[1] /\ Len(Tail(s)) = Len(s) - 1
           /\ \A i \in 1..Len(s) - 1 : Tail(s)[i] = s[i + 1]
           /\ Range(s) = {Head(s)} \cup Range(Tail(s))
           /\ IsInjective(s) => IsInjective(Tail(s)) /\ Head(s) \notin Range(Tail(s))
<1> DEFINE t == Tail(s)
<1>1. /\ t \in Seq(T) /\ Len(s) \in Nat /\ Len(s) >= 1 /\ Len(t) = Len(s) - 1
      /\ DOMAIN s = 1..Len(s) /\ DOMAIN t = 1..Len(s) - 1
      /\ Head(s) = s[1] /\ s[1] \in T
      /\ \A i \in 1..Len(s) - 1 : t[i] = s[i + 1]
  OBVIOUS
<1> HIDE DEF t
<1>2. \A i \in DOMAIN t : i + 1 \in DOMAIN s /\ t[i] = s[i + 1] /\ i \in Nat /\ i + 1 # 1
  BY <1>1
<1>3. \A i \in DOMAIN s : i = 1 \/ (i - 1 \in DOMAIN t /\ t[i - 1] = s[i])
  BY <1>1
<1>4. 1 \in DOMAIN s
  BY <1>1
<1>5. Range(s) = {Head(s)} \cup Range(t)
  <2>1. Range(s) \subseteq {Head(s)} \cup Range(t)
    BY <1>1, <1>3 DEF Range
  <2>2. Range(t) \subseteq Range(s)
    BY <1>2 DEF Range
  <2>3. Head(s) \in Range(s)
    BY <1>1, <1>4 DEF Range
  <2> QED BY <2>1, <2>2, <2>3
<1>6. ASSUME IsInjective(s) PROVE IsInjective(t) /\ Head(s) \notin Range(t)
  <2>1. ASSUME NEW i \in DOMAIN t, NEW j \in DOMAIN t, t[i] = t[j] PROVE i = j
    <3>1. i + 1 = j + 1
      BY <1>2, <1>6, <2>1 DEF IsInjective
    <3> QED BY <1>2, <3>1
  <2>2. \A i \in DOMAIN t : t[i] # s[1]
    BY <1>2, <1>4, <1>6 DEF IsInjective
  <2> QED BY <1>1, <2>1, <2>2 DEF IsInjective, Range
<1> QED BY <1>1, <1>5, <1>6 DEF t

\* Places of a sequence of length n, counted from its end.
LEMMA Mirrored ==
    ASSUME NEW n \in Nat, NEW i \in 1..n, NEW m \in 1..n, NEW j \in 1..m - 1
    PROVE  j \in 1..n /\ n + 1 - i \in 1..n /\ i \in 1..n
OBVIOUS

\* What is after a place from one end is before it from the other.
LEMMA MirroredBefore ==
    ASSUME NEW n \in Nat, NEW i \in 1..n, NEW m \in 1..n, n + 1 - i \in 1..m - 1
    PROVE  n + 1 - m \in 1..i - 1 /\ n + 1 - m \in 1..n /\ n + 1 - (n + 1 - m) = m
OBVIOUS

\* The elements of a sequence, last first.
LEMMA ReversedFacts ==
    ASSUME NEW T, NEW s \in Seq(T)
    PROVE  /\ Reversed(s) \in Seq(T) /\ Len(Reversed(s)) = Len(s)
           /\ \A i \in 1..Len(s) : Reversed(s)[i] = s[Len(s) + 1 - i]
           /\ Range(Reversed(s)) = Range(s)
           /\ IsInjective(s) => IsInjective(Reversed(s))
<1> DEFINE t == Reversed(s)
<1>1. Len(s) \in Nat /\ DOMAIN s = 1..Len(s) /\ \A i \in 1..Len(s) : s[i] \in T
  OBVIOUS
<1>2. \A i \in 1..Len(s) : Len(s) + 1 - i \in 1..Len(s) /\ Len(s) + 1 - (Len(s) + 1 - i) = i
  BY <1>1
<1>3. DOMAIN t = 1..Len(s) /\ \A i \in 1..Len(s) : t[i] = s[Len(s) + 1 - i]
  BY <1>1 DEF Reversed
<1>4. t \in Seq(T) /\ Len(t) = Len(s)
  BY <1>1, <1>2 DEF Reversed
<1> HIDE DEF t
<1>5. \A i \in DOMAIN s : Len(s) + 1 - i \in DOMAIN t /\ t[Len(s) + 1 - i] = s[i]
  BY <1>1, <1>2, <1>3
<1>6. Range(t) = Range(s)
  <2>1. Range(t) \subseteq Range(s)
    BY <1>1, <1>2, <1>3 DEF Range
  <2>2. Range(s) \subseteq Range(t)
    BY <1>5 DEF Range
  <2> QED BY <2>1, <2>2, Zenon
<1>7. ASSUME IsInjective(s) PROVE IsInjective(t)
  <2> SUFFICES ASSUME NEW i \in DOMAIN t, NEW j \in DOMAIN t, t[i] = t[j] PROVE i = j
    BY DEF IsInjective
  <2>1. Len(s) + 1 - i = Len(s) + 1 - j
    BY <1>1, <1>2, <1>3, <1>7 DEF IsInjective
  <2> QED BY <1>1, <1>3, <2>1
<1> QED BY <1>3, <1>4, <1>6, <1>7 DEF t

\* What Filter keeps, and in what order.
LEMMA FilterFacts ==
    ASSUME NEW T, NEW s \in Seq(T), NEW S
    PROVE  /\ Filter(s, S) \in Seq(T)
           /\ Range(Filter(s, S)) = Range(s) \cap S
           /\ IsInjective(s) => IsInjective(Filter(s, S))
<1> DEFINE N == Len(s)
           Turn(i, f) == IF s[i] \in S THEN Append(f, s[i]) ELSE f
           step == [i \in 1..N |-> [f \in Seq(T) |-> Turn(i, f)]]
           F(g) == [i \in 0..N |-> IF i = 0 THEN <<>> ELSE Turn(i, g[i - 1])]
           found == CHOOSE g : g = F(g)
<1>1. N \in Nat /\ DOMAIN s = 1..N /\ \A i \in 1..N : s[i] \in T
  OBVIOUS
<1>2. \A i \in 1..N, f \in Seq(T) : Turn(i, f) \in Seq(T)
  BY <1>1
<1>3. step \in [1..N -> [Seq(T) -> Seq(T)]] /\ <<>> \in Seq(T)
  BY <1>2
<1>4. PICK g \in [0..N -> Seq(T)] : g[0] = <<>> /\ \A k \in 1..N : g[k] = step[k][g[k - 1]]
  <2> DEFINE D == Seq(T)
             base == <<>>
  <2>1. N \in Nat
    BY <1>1
  <2>2. step \in [1..N -> [D -> D]]
    BY <1>3
  <2>3. base \in D
    BY <1>3
  <2> HIDE DEF step, N, D, base
  <2>4. Recursive(N, D, base, step) # {}
    BY <2>1, <2>2, <2>3, Recursion, Zenon
  <2> QED BY <2>4, Zenon DEF D, base, Recursive
<1>5. \A k \in 1..N : k \in 0..N /\ k - 1 \in 0..N /\ g[k - 1] \in Seq(T) /\ k # 0
  <2>1. \A k \in 1..N : k \in 0..N /\ k - 1 \in 0..N /\ k # 0
    BY <1>1
  <2> QED BY <1>4, <2>1, Zenon
<1>6. \A k \in 1..N : g[k] = Turn(k, g[k - 1])
  BY <1>4, <1>5, Zenon
<1>7. \A k \in 0..N : k # 0 => k \in 1..N
  BY <1>1
<1>8. g = F(g)
  <2> HIDE DEF Turn, N
  <2> QED BY <1>4, <1>6, <1>7
<1>9. found = F(found)
  BY <1>8, Zenon
<1>10. Filter(s, S) = found[N]
  BY Zenon DEF Filter
<1> HIDE DEF found, step
<1>11. found[0] = <<>> /\ \A k \in 1..N : found[k] = Turn(k, found[k - 1])
  <2>1. 0 \in 0..N
    BY <1>1
  <2> HIDE DEF Turn, N
  <2> QED BY <1>5, <1>9, <2>1
<1> DEFINE Upto(k) == {s[i] : i \in 1..k}
           Good(k) == /\ found[k] \in Seq(T) /\ Range(found[k]) = Upto(k) \cap S
                      /\ IsInjective(s) => IsInjective(found[k])
           K == {k \in 0..N : Good(k)}
<1>12. 0 \in K
  <2>1. 0 \in 0..N /\ Upto(0) = {} /\ Range(<<>>) = {} /\ IsInjective(<<>>) /\ <<>> \in Seq(T)
    BY <1>1 DEF Range, IsInjective
  <2> QED BY <1>11, <2>1, Zenon
<1>13. ASSUME NEW k \in 0..N - 1, k \in K PROVE k + 1 \in K
  <2>1. k + 1 \in 1..N /\ k + 1 \in 0..N /\ (k + 1) - 1 = k /\ k \in 0..N
    BY <1>1
  <2>2. s[k + 1] \in T /\ found[k + 1] = Turn(k + 1, found[k]) /\ Good(k)
    BY <1>1, <1>11, <1>13, <2>1
  <2>3. Upto(k + 1) = Upto(k) \cup {s[k + 1]}
    <3>1. \A i : i \in 1..k + 1 <=> i \in 1..k \/ i = k + 1
      BY <2>1
    <3> QED BY <3>1, Zenon
  <2>4. IsInjective(s) => s[k + 1] \notin Upto(k)
    <3>1. \A i \in 1..k : i \in 1..N /\ i # k + 1
      BY <1>1, <2>1
    <3> QED BY <1>1, <2>1, <3>1, Zenon DEF IsInjective
  <2> HIDE DEF Upto, N
  <2>5. CASE s[k + 1] \in S
    <3>1. found[k + 1] = Append(found[k], s[k + 1])
      BY <2>2, <2>5
    <3>2. /\ Append(found[k], s[k + 1]) \in Seq(T)
          /\ Range(Append(found[k], s[k + 1])) = Range(found[k]) \cup {s[k + 1]}
          /\ IsInjective(found[k]) /\ s[k + 1] \notin Range(found[k])
               => IsInjective(Append(found[k], s[k + 1]))
      BY <2>2, AppendFacts, ZenonT(60)
    <3>3. Upto(k + 1) \cap S = (Upto(k) \cap S) \cup {s[k + 1]}
      BY <2>3, <2>5
    <3>4. IsInjective(s) => s[k + 1] \notin Range(found[k])
      BY <2>2, <2>4
    <3> HIDE DEF Turn
    <3>5. Good(k + 1)
      BY <2>2, <3>1, <3>2, <3>3, <3>4, Zenon
    <3> QED BY <2>1, <3>5, Zenon
  <2>6. CASE s[k + 1] \notin S
    <3>1. found[k + 1] = found[k]
      BY <2>2, <2>6
    <3>2. Upto(k + 1) \cap S = Upto(k) \cap S
      BY <2>3, <2>6
    <3> HIDE DEF Turn
    <3>3. Good(k + 1)
      BY <2>2, <3>1, <3>2, Zenon
    <3> QED BY <2>1, <3>3, Zenon
  <2> QED BY <2>5, <2>6, Zenon
<1>14. Good(N)
  <2>1. N \in 0..N
    BY <1>1
  <2> HIDE DEF K, N
  <2>2. \A k \in 0..N : k \in K
    BY <1>1, <1>12, <1>13, UpTo, Zenon
  <2> QED BY <2>1, <2>2, Zenon DEF K
<1>15. Upto(N) = Range(s)
  BY <1>1, Zenon DEF Range
<1> QED BY <1>10, <1>14, <1>15, Zenon

\* Distinct keeps every element, once.
LEMMA DistinctFacts ==
    ASSUME NEW T, NEW s \in Seq(T)
    PROVE  /\ Distinct(s) \in Seq(T) /\ Range(Distinct(s)) = Range(s)
           /\ IsInjective(Distinct(s))
<1> DEFINE N == Len(s)
           Turn(i, f) == IF s[i] \in Range(f) THEN f ELSE Append(f, s[i])
           step == [i \in 1..N |-> [f \in Seq(T) |-> Turn(i, f)]]
           F(g) == [i \in 0..N |-> IF i = 0 THEN <<>> ELSE Turn(i, g[i - 1])]
           seen == CHOOSE g : g = F(g)
<1>1. N \in Nat /\ DOMAIN s = 1..N /\ \A i \in 1..N : s[i] \in T
  OBVIOUS
<1>2. \A i \in 1..N, f \in Seq(T) : Turn(i, f) \in Seq(T)
  BY <1>1
<1>3. step \in [1..N -> [Seq(T) -> Seq(T)]] /\ <<>> \in Seq(T)
  BY <1>2
<1>4. PICK g \in [0..N -> Seq(T)] : g[0] = <<>> /\ \A k \in 1..N : g[k] = step[k][g[k - 1]]
  <2> DEFINE D == Seq(T)
             base == <<>>
  <2>1. N \in Nat
    BY <1>1
  <2>2. step \in [1..N -> [D -> D]]
    BY <1>3
  <2>3. base \in D
    BY <1>3
  <2> HIDE DEF step, N, Turn, D, base
  <2>4. Recursive(N, D, base, step) # {}
    BY <2>1, <2>2, <2>3, Recursion, Zenon
  <2> QED BY <2>4, Zenon DEF D, base, Recursive
<1>5. \A k \in 1..N : k \in 0..N /\ k - 1 \in 0..N /\ g[k - 1] \in Seq(T) /\ k # 0
  <2>1. \A k \in 1..N : k \in 0..N /\ k - 1 \in 0..N /\ k # 0
    BY <1>1
  <2> QED BY <1>4, <2>1, Zenon
<1>6. \A k \in 1..N : g[k] = Turn(k, g[k - 1])
  BY <1>4, <1>5, Zenon
<1>7. \A k \in 0..N : k # 0 => k \in 1..N
  BY <1>1
<1>8. g = F(g)
  <2> HIDE DEF Turn, N
  <2> QED BY <1>4, <1>6, <1>7
<1>9. seen = F(seen)
  BY <1>8, Zenon
<1>10. Distinct(s) = seen[N]
  BY Zenon DEF Distinct
<1> HIDE DEF seen, step
<1>11. seen[0] = <<>> /\ \A k \in 1..N : seen[k] = Turn(k, seen[k - 1])
  <2>1. 0 \in 0..N
    BY <1>1
  <2> HIDE DEF Turn, N
  <2> QED BY <1>5, <1>9, <2>1
<1> DEFINE Upto(k) == {s[i] : i \in 1..k}
           Good(k) == /\ seen[k] \in Seq(T) /\ Range(seen[k]) = Upto(k)
                      /\ IsInjective(seen[k])
           K == {k \in 0..N : Good(k)}
<1>12. 0 \in K
  <2>1. 0 \in 0..N /\ Upto(0) = {} /\ Range(<<>>) = {} /\ IsInjective(<<>>) /\ <<>> \in Seq(T)
    BY <1>1 DEF Range, IsInjective
  <2> QED BY <1>11, <2>1, Zenon
<1>13. ASSUME NEW k \in 0..N - 1, k \in K PROVE k + 1 \in K
  <2>1. k + 1 \in 1..N /\ k + 1 \in 0..N /\ (k + 1) - 1 = k /\ k \in 0..N
    BY <1>1
  <2>2. s[k + 1] \in T /\ seen[k + 1] = Turn(k + 1, seen[k]) /\ Good(k)
    BY <1>1, <1>11, <1>13, <2>1, Zenon
  <2>3. Upto(k + 1) = Upto(k) \cup {s[k + 1]}
    <3>1. \A i : i \in 1..k + 1 <=> i \in 1..k \/ i = k + 1
      BY <2>1
    <3> QED BY <3>1, Zenon
  <2> HIDE DEF Upto, N
  <2>4. CASE s[k + 1] \notin Range(seen[k])
    <3>1. seen[k + 1] = Append(seen[k], s[k + 1])
      BY <2>2, <2>4
    <3>2. /\ Append(seen[k], s[k + 1]) \in Seq(T)
          /\ Range(Append(seen[k], s[k + 1])) = Range(seen[k]) \cup {s[k + 1]}
          /\ IsInjective(seen[k]) /\ s[k + 1] \notin Range(seen[k])
               => IsInjective(Append(seen[k], s[k + 1]))
      <4> DEFINE f == seen[k]
                 x == s[k + 1]
      <4>1. f \in Seq(T)
        BY <2>2
      <4>2. x \in T
        BY <2>2
      <4> HIDE DEF f, x
      <4>3. /\ Append(f, x) \in Seq(T)
            /\ Range(Append(f, x)) = Range(f) \cup {x}
            /\ IsInjective(f) /\ x \notin Range(f) => IsInjective(Append(f, x))
        BY <4>1, <4>2, AppendFacts, SMT
      <4> QED BY <4>3 DEF f, x
    <3> HIDE DEF Turn
    <3>3. Good(k + 1)
      BY <2>2, <2>3, <2>4, <3>1, <3>2, Zenon
    <3> QED BY <2>1, <3>3, Zenon
  <2>5. CASE s[k + 1] \in Range(seen[k])
    <3>1. seen[k + 1] = seen[k]
      BY <2>2, <2>5
    <3>2. Upto(k + 1) = Upto(k)
      BY <2>2, <2>3, <2>5, Zenon
    <3> HIDE DEF Turn
    <3>3. Good(k + 1)
      BY <2>2, <3>1, <3>2, Zenon
    <3> QED BY <2>1, <3>3, Zenon
  <2> QED BY <2>4, <2>5, Zenon
<1>14. Good(N)
  <2>1. N \in 0..N
    BY <1>1
  <2> HIDE DEF K, N
  <2>2. \A k \in 0..N : k \in K
    BY <1>1, <1>12, <1>13, UpTo, Zenon
  <2> QED BY <2>1, <2>2, Zenon DEF K
<1>15. Upto(N) = Range(s)
  BY <1>1, Zenon DEF Range
<1> QED BY <1>10, <1>14, <1>15, Zenon

\* A sequence whose elements are in U is a sequence over U.
LEMMA SeqOver ==
    ASSUME NEW T, NEW s \in Seq(T), NEW U, Range(s) \subseteq U
    PROVE  s \in Seq(U)
<1>1. /\ Len(s) \in Nat /\ DOMAIN s = 1..Len(s) /\ s = [i \in 1..Len(s) |-> s[i]]
      /\ \A i \in 1..Len(s) : s[i] \in U
  BY DEF Range
<1> QED BY <1>1

----------------------------------------------------------------------------
(***************************************************************************)
(* The graph, and what TopoSort makes of it when it has no cycle.          *)
(***************************************************************************)
\* Operands and users, as every operation on the graph leaves them.
GraphInv == IrTypeOK /\ UsersMatchOperands

\* The graph as the lemmas below use it.
LEMMA GraphFacts ==
    ASSUME GraphInv
    PROVE  /\ nodes \subseteq Ids /\ IsFiniteSet(nodes) /\ Cardinality(nodes) \in Nat
           /\ Cardinality(nodes) <= MaxNodes /\ MaxNodes \in Nat
           /\ \A n \in nodes : /\ operands[n] \in Seq(nodes) /\ Range(operands[n]) \subseteq nodes
                               /\ users[n] \subseteq nodes
           /\ \A n, m \in nodes : m \in users[n] <=> n \in Range(operands[m])
<1>1. MaxNodes \in Nat
  BY OpsAssumption
<1>2. nodes \subseteq Ids
  BY DEF GraphInv, IrTypeOK
<1>3. IsFiniteSet(Ids) /\ Cardinality(Ids) = MaxNodes
  BY <1>1, FS_Interval DEF Ids
<1>4. IsFiniteSet(nodes) /\ Cardinality(nodes) <= MaxNodes
  BY <1>2, <1>3, FS_Subset
<1>5. Cardinality(nodes) \in Nat
  BY <1>4, FS_CardinalityType
<1>6. \A n \in nodes : operands[n] \in Seq(nodes) /\ users[n] \subseteq nodes
  BY <1>2 DEF GraphInv, IrTypeOK
<1>7. \A n \in nodes : Range(operands[n]) \subseteq nodes
  BY <1>6, SeqFacts
<1>8. \A n, m \in nodes : m \in users[n] <=> n \in Range(operands[m])
  BY <1>2 DEF GraphInv, UsersMatchOperands
<1> QED BY <1>1, <1>2, <1>4, <1>5, <1>6, <1>7, <1>8

\* The list of nodes holds each once.
LEMMA NodeListFacts ==
    ASSUME GraphInv
    PROVE  NodeList \in Seq(nodes) /\ Range(NodeList) = nodes /\ IsInjective(NodeList)
<1> DEFINE all == [i \in Ids |-> i]
<1>1. MaxNodes \in Nat /\ nodes \subseteq Ids
  BY GraphFacts
<1>2. all \in Seq(Ids) /\ Range(all) = Ids /\ IsInjective(all)
  BY <1>1 DEF Ids, Range, IsInjective
<1> HIDE DEF all
<1>3. /\ Filter(all, nodes) \in Seq(Ids) /\ Range(Filter(all, nodes)) = Range(all) \cap nodes
      /\ IsInjective(Filter(all, nodes))
  BY <1>2, FilterFacts
<1>4. NodeList = Filter(all, nodes)
  BY Zenon DEF NodeList, all
<1>5. Range(NodeList) = nodes
  BY <1>1, <1>2, <1>3, <1>4, Zenon
<1> QED BY <1>3, <1>4, <1>5, SeqOver

\* The roots are the nodes without users, each once.
LEMMA RootsFacts ==
    ASSUME GraphInv
    PROVE  /\ Roots \in Seq(nodes) /\ IsInjective(Roots)
           /\ Range(Roots) = {n \in nodes : users[n] = {}}
<1> DEFINE free  == {n \in nodes : users[n] = {}}
           seeds == Filter(NodeList, free)
           rest  == Filter(Reversed(seeds), nodes \ {return_value})
<1>1. NodeList \in Seq(nodes) /\ Range(NodeList) = nodes /\ IsInjective(NodeList)
  BY NodeListFacts
<1>2. seeds \in Seq(nodes) /\ Range(seeds) = free /\ IsInjective(seeds)
  <2> HIDE DEF free
  <2>1. /\ seeds \in Seq(nodes) /\ Range(seeds) = Range(NodeList) \cap free
        /\ IsInjective(seeds)
    BY <1>1, FilterFacts
  <2>2. free \subseteq nodes
    BY DEF free
  <2> QED BY <1>1, <2>1, <2>2
<1> HIDE DEF seeds
<1>3. /\ Reversed(seeds) \in Seq(nodes) /\ Range(Reversed(seeds)) = free
      /\ IsInjective(Reversed(seeds))
  BY <1>2, ReversedFacts
<1>4. /\ rest \in Seq(nodes) /\ Range(rest) = free \cap (nodes \ {return_value})
      /\ IsInjective(rest)
  <2> DEFINE S == nodes \ {return_value}
  <2> HIDE DEF S, free
  <2>1. /\ Filter(Reversed(seeds), S) \in Seq(nodes)
        /\ Range(Filter(Reversed(seeds), S)) = Range(Reversed(seeds)) \cap S
        /\ IsInjective(Filter(Reversed(seeds), S))
    BY <1>3, FilterFacts
  <2> QED BY <1>3, <2>1, Zenon DEF S
<1> HIDE DEF rest
<1>5. Roots = IF return_value \in Range(seeds) THEN <<return_value>> \o rest ELSE rest
  BY Zenon DEF Roots, rest, seeds
<1>6. CASE return_value \in Range(seeds)
  <2> DEFINE one == <<return_value>>
  <2>1. return_value \in nodes /\ return_value \in free
    BY <1>2, <1>6
  <2>2. one \in Seq(nodes) /\ Range(one) = {return_value} /\ IsInjective(one)
    BY <2>1 DEF Range, IsInjective
  <2> HIDE DEF one, free
  <2>3. Range(one) \cap Range(rest) = {}
    BY <1>4, <2>2
  <2>4. /\ one \o rest \in Seq(nodes) /\ Range(one \o rest) = Range(one) \cup Range(rest)
        /\ IsInjective(one \o rest)
    BY <1>4, <2>2, <2>3, ConcatFacts
  <2>5. Range(one) \cup Range(rest) = free
    <3>1. free \subseteq nodes
      BY DEF free
    <3> QED BY <1>4, <2>1, <2>2, <3>1
  <2>6. Roots = one \o rest
    BY <1>5, <1>6, Zenon DEF one
  <2> QED BY <2>4, <2>5, <2>6, Zenon DEF free
<1>7. CASE return_value \notin Range(seeds)
  <2>1. Range(rest) = free
    BY <1>2, <1>4, <1>7
  <2> QED BY <1>4, <1>5, <1>7, <2>1, Zenon
<1> QED BY <1>6, <1>7, Zenon

\* The graph has no cycle: its nodes can be numbered with every operand after its
\* users.
Acyclic ==
    \E height \in [nodes -> Nat] :
        \A n \in nodes : \A o \in Range(operands[n]) : height[n] < height[o]

\* The loop of NodeIterator::Initialize after k turns.  A node is placed or ready
\* exactly if all its users are placed.
Placing(k, ordered, ready) ==
    /\ ordered \in Seq(nodes) /\ ready \in Seq(nodes)
    /\ IsInjective(ordered) /\ IsInjective(ready)
    /\ Range(ordered) \cap Range(ready) = {}
    /\ Len(ordered) = k /\ Cardinality(Range(ordered)) = k
    /\ \A n \in nodes : users[n] \subseteq Range(ordered)
                          <=> n \in Range(ordered) \cup Range(ready)
    /\ \A i \in 1..k : users[ordered[i]] \subseteq {ordered[j] : j \in 1..i - 1}

\* While not all are placed one is ready: the one of least height not placed.
LEMMA OneReady ==
    ASSUME GraphInv, Acyclic, NEW k \in Nat, k < Cardinality(nodes),
           NEW ordered, NEW ready, Placing(k, ordered, ready)
    PROVE  ready # <<>>
<1>1. PICK height \in [nodes -> Nat] :
          \A n \in nodes : \A o \in Range(operands[n]) : height[n] < height[o]
  BY DEF Acyclic
<1> DEFINE left == nodes \ Range(ordered)
           T == {height[n] : n \in left}
<1>2. left # {}
  <2>1. Range(ordered) \subseteq nodes
    BY SeqFacts DEF Placing
  <2>2. Cardinality(Range(ordered)) # Cardinality(nodes)
    BY GraphFacts DEF Placing
  <2> QED BY <2>1, <2>2
<1>3. T \in SUBSET Nat /\ T # {}
  BY <1>1, <1>2
<1>4. PICK x \in T : \A y \in T : x <= y
  BY <1>3, Least, Zenon
<1>5. PICK n \in left : height[n] = x
  BY <1>4
<1>6. users[n] \subseteq Range(ordered)
  <2> SUFFICES ASSUME NEW u \in users[n], u \notin Range(ordered) PROVE FALSE
    OBVIOUS
  <2>1. u \in nodes /\ n \in Range(operands[u])
    BY GraphFacts
  <2>2. height[u] < height[n]
    BY <1>1, <2>1
  <2>3. height[u] \in T
    BY <2>1
  <2>4. height[n] <= height[u]
    BY <1>4, <1>5, <2>3
  <2>5. height[n] \in Nat /\ height[u] \in Nat
    BY <1>1, <2>1
  <2> HIDE DEF T
  <2> QED BY <2>2, <2>4, <2>5
<1>7. n \in Range(ready)
  BY <1>6 DEF Placing
<1> QED BY <1>7 DEF Range

\* The operands that a turn of the loop releases.
Released(st) ==
    Filter(Distinct(Reversed(operands[Head(st.ready)])),
           {o \in nodes : users[o] \subseteq Range(Append(st.ordered, Head(st.ready)))})

\* A turn of the loop places the first node that is ready, and appends what it releases.
LEMMA PlaceNextType ==
    ASSUME GraphInv, NEW st \in [ordered : Seq(nodes), ready : Seq(nodes)], st.ready # <<>>
    PROVE  /\ PlaceNext(st) = [ordered |-> Append(st.ordered, Head(st.ready)),
                               ready |-> Tail(st.ready) \o Released(st)]
           /\ PlaceNext(st) \in [ordered : Seq(nodes), ready : Seq(nodes)]
           /\ Released(st) \in Seq(nodes) /\ IsInjective(Released(st))
           /\ Range(Released(st)) =
                Range(operands[Head(st.ready)]) \cap
                {o \in nodes : users[o] \subseteq Range(Append(st.ordered, Head(st.ready)))}
<1> DEFINE r == Head(st.ready)
           S == {o \in nodes : users[o] \subseteq Range(Append(st.ordered, r))}
           args == operands[r]
<1>1. st.ordered \in Seq(nodes) /\ st.ready \in Seq(nodes)
  OBVIOUS
<1>2. r \in nodes /\ Tail(st.ready) \in Seq(nodes)
  BY <1>1
<1>3. Append(st.ordered, r) \in Seq(nodes)
  BY <1>1, <1>2
<1>4. args \in Seq(nodes)
  BY <1>2, GraphFacts
<1>5. Released(st) = Filter(Distinct(Reversed(args)), S)
  BY Zenon DEF Released
<1> HIDE DEF S, args
<1>6. Reversed(args) \in Seq(nodes) /\ Range(Reversed(args)) = Range(args)
  BY <1>4, ReversedFacts
<1>7. /\ Distinct(Reversed(args)) \in Seq(nodes) /\ Range(Distinct(Reversed(args))) = Range(args)
      /\ IsInjective(Distinct(Reversed(args)))
  BY <1>6, DistinctFacts
<1>8. /\ Released(st) \in Seq(nodes) /\ IsInjective(Released(st))
      /\ Range(Released(st)) = Range(args) \cap S
  BY <1>5, <1>7, FilterFacts
<1>9. Tail(st.ready) \o Released(st) \in Seq(nodes)
  BY <1>2, <1>8, ConcatFacts
<1>10. PlaceNext(st) = [ordered |-> Append(st.ordered, r), ready |-> Tail(st.ready) \o Released(st)]
  BY Zenon DEF PlaceNext, Released
<1> QED BY <1>3, <1>8, <1>9, <1>10 DEF S, args

\* What has been placed and what is ready are as the loop needs them after a turn too.
LEMMA PlaceNextKeeps ==
    ASSUME GraphInv, Acyclic, NEW k \in Nat, k < Cardinality(nodes),
           NEW st \in [ordered : Seq(nodes), ready : Seq(nodes)],
           Placing(k, st.ordered, st.ready)
    PROVE  Placing(k + 1, PlaceNext(st).ordered, PlaceNext(st).ready)
<1> DEFINE r == Head(st.ready)
           ordered == Append(st.ordered, r)
           rest == Tail(st.ready)
           released == Released(st)
<1>1. /\ st \in [ordered : Seq(nodes), ready : Seq(nodes)]
      /\ st.ordered \in Seq(nodes) /\ st.ready \in Seq(nodes)
      /\ IsInjective(st.ordered) /\ IsInjective(st.ready)
      /\ Range(st.ordered) \cap Range(st.ready) = {}
      /\ Len(st.ordered) = k /\ Cardinality(Range(st.ordered)) = k
  BY DEF Placing
<1>2. \A n \in nodes : users[n] \subseteq Range(st.ordered)
                          <=> n \in Range(st.ordered) \cup Range(st.ready)
  BY DEF Placing
<1>3. st.ready # <<>>
  BY OneReady
<1>4. /\ r \in nodes /\ rest \in Seq(nodes) /\ Range(st.ready) = {r} \cup Range(rest)
      /\ IsInjective(rest) /\ r \notin Range(rest)
  BY <1>1, <1>3, TailFacts, Zenon
<1>5. r \notin Range(st.ordered)
  BY <1>1, <1>4
<1>6. /\ ordered \in Seq(nodes) /\ Len(ordered) = k + 1
      /\ Range(ordered) = Range(st.ordered) \cup {r} /\ IsInjective(ordered)
  BY <1>1, <1>4, <1>5, AppendFacts
<1>7. /\ PlaceNext(st) = [ordered |-> ordered, ready |-> rest \o released]
      /\ PlaceNext(st) \in [ordered : Seq(nodes), ready : Seq(nodes)]
      /\ released \in Seq(nodes) /\ IsInjective(released)
      /\ Range(released) = Range(operands[r]) \cap {o \in nodes : users[o] \subseteq Range(ordered)}
  BY <1>1, <1>3, PlaceNextType, Zenon
<1> HIDE DEF released
<1>8. \A n \in nodes : r \in users[n] <=> n \in Range(operands[r])
  BY <1>4, GraphFacts, Zenon
<1>9. \A n \in Range(released) :
          n \in nodes /\ r \in users[n] /\ n \notin Range(st.ordered) /\ n \notin Range(st.ready)
  BY <1>2, <1>5, <1>7, <1>8, Zenon
<1>10. /\ Range(rest \o released) = Range(rest) \cup Range(released)
       /\ IsInjective(rest \o released)
  <2>1. Range(rest) \cap Range(released) = {}
    BY <1>4, <1>9
  <2> HIDE DEF rest
  <2> QED BY <1>4, <1>7, <2>1, ConcatFacts
<1>11. Range(ordered) \cap Range(rest \o released) = {}
  BY <1>1, <1>4, <1>5, <1>6, <1>9, <1>10
<1>12. Cardinality(Range(ordered)) = k + 1
  <2>1. IsFiniteSet(Range(st.ordered))
    <3>1. Range(st.ordered) \subseteq nodes
      BY <1>1, SeqFacts
    <3> QED BY <3>1, GraphFacts, FS_Subset
  <2>2. Cardinality(Range(st.ordered) \cup {r}) = Cardinality(Range(st.ordered)) + 1
    BY <1>5, <2>1, FS_AddElement, Zenon
  <2> QED BY <1>1, <1>6, <2>2, Zenon
<1>13. ASSUME NEW n \in nodes
       PROVE  users[n] \subseteq Range(ordered)
                <=> n \in Range(ordered) \cup Range(rest \o released)
  <2>1. CASE r \in users[n]
    <3>1. n \notin Range(st.ordered) /\ n \notin Range(st.ready)
      BY <1>2, <1>5, <2>1, Zenon
    <3>2. n \in Range(released) <=> users[n] \subseteq Range(ordered)
      BY <1>7, <1>8, <2>1
    <3> QED BY <1>4, <1>6, <1>10, <3>1, <3>2, Zenon
  <2>2. CASE r \notin users[n]
    <3>1. users[n] \subseteq Range(ordered) <=> users[n] \subseteq Range(st.ordered)
      BY <1>6, <2>2
    <3>2. n \notin Range(released)
      BY <1>9, <2>2
    <3> QED BY <1>2, <1>4, <1>6, <1>10, <3>1, <3>2, Zenon
  <2> QED BY <2>1, <2>2
<1>14. ASSUME NEW i \in 1..k + 1
       PROVE  users[ordered[i]] \subseteq {ordered[j] : j \in 1..i - 1}
  <2>1. /\ \A j \in 1..k : ordered[j] = st.ordered[j]
        /\ ordered[k + 1] = r
    BY <1>1, <1>4
  <2>2. CASE i = k + 1
    <3>1. users[r] \subseteq Range(st.ordered)
      BY <1>2, <1>4
    <3>2. Range(st.ordered) = {st.ordered[j] : j \in 1..k}
      BY <1>1 DEF Range
    <3>3. i - 1 = k
      BY <2>2
    <3>4. {st.ordered[j] : j \in 1..k} = {ordered[j] : j \in 1..i - 1}
      BY <2>1, <3>3, Zenon
    <3> QED BY <2>1, <2>2, <3>1, <3>2, <3>4, Zenon
  <2>3. CASE i # k + 1
    <3>1. i \in 1..k /\ \A j \in 1..i - 1 : j \in 1..k
      BY <2>3
    <3>2. users[st.ordered[i]] \subseteq {st.ordered[j] : j \in 1..i - 1}
      BY <3>1 DEF Placing
    <3>3. {st.ordered[j] : j \in 1..i - 1} = {ordered[j] : j \in 1..i - 1}
      BY <2>1, <3>1, Zenon
    <3> QED BY <2>1, <3>1, <3>2, <3>3, Zenon
  <2> QED BY <2>2, <2>3, Zenon
<1>15. PlaceNext(st).ordered = ordered /\ PlaceNext(st).ready = rest \o released
  BY <1>7
<1> DEFINE ready == rest \o released
<1> HIDE DEF ordered, ready
<1>16. /\ ordered \in Seq(nodes) /\ ready \in Seq(nodes)
       /\ IsInjective(ordered) /\ IsInjective(ready) /\ Range(ordered) \cap Range(ready) = {}
       /\ Len(ordered) = k + 1 /\ Cardinality(Range(ordered)) = k + 1
       /\ \A n \in nodes : users[n] \subseteq Range(ordered)
                             <=> n \in Range(ordered) \cup Range(ready)
       /\ \A i \in 1..k + 1 : users[ordered[i]] \subseteq {ordered[j] : j \in 1..i - 1}
  <2>1. ready \in Seq(nodes)
    <3> HIDE DEF rest
    <3> QED BY <1>4, <1>7, ConcatFacts DEF ready
  <2> HIDE DEF r, rest
  <2> QED BY <1>6, <1>10, <1>11, <1>12, <1>13, <1>14, <2>1, Zenon DEF ready
<1>17. Placing(k + 1, ordered, ready)
  BY <1>16, Zenon DEF Placing
<1> QED BY <1>15, <1>17, Zenon DEF ready

\* TopoSort lists every node once, each after its operands.
LEMMA TopoSortOrders ==
    ASSUME GraphInv, Acyclic
    PROVE  /\ TopoSort \in Seq(nodes) /\ Range(TopoSort) = nodes /\ IsInjective(TopoSort)
           /\ Len(TopoSort) = Cardinality(nodes)
           /\ \A i \in DOMAIN TopoSort : \A o \in Range(operands[TopoSort[i]]) :
                 \E j \in 1..i - 1 : TopoSort[j] = o
<1> DEFINE N == Cardinality(nodes)
           D == [ordered : Seq(nodes), ready : Seq(nodes)]
           base == [ordered |-> <<>>, ready |-> Roots]
           step == [k \in 1..N |-> [st \in D |-> PlaceNext(st)]]
           F(g) == [k \in 0..N |-> IF k = 0 THEN base ELSE PlaceNext(g[k - 1])]
           placed == CHOOSE g : g = F(g)
<1>1. N \in Nat
  BY GraphFacts
<1>2. \A st \in D : PlaceNext(st) \in D
  <2> TAKE st \in D
  <2>1. CASE st.ready = <<>>
    BY <2>1 DEF PlaceNext
  <2>2. CASE st.ready # <<>>
    BY <2>2, PlaceNextType, Zenon
  <2> QED BY <2>1, <2>2
<1>3. base \in D
  BY RootsFacts
<1>4. PICK g \in [0..N -> D] : g[0] = base /\ \A k \in 1..N : g[k] = step[k][g[k - 1]]
  <2>1. step \in [1..N -> [D -> D]]
    BY <1>2
  <2> HIDE DEF step, N, D, base
  <2>2. Recursive(N, D, base, step) # {}
    BY <1>1, <1>3, <2>1, Recursion, Zenon
  <2> QED BY <2>2, Zenon DEF Recursive
<1>5. \A k \in 1..N : k \in 0..N /\ k - 1 \in 0..N /\ g[k - 1] \in D /\ k # 0
  <2>1. \A k \in 1..N : k \in 0..N /\ k - 1 \in 0..N /\ k # 0
    BY <1>1
  <2> QED BY <1>4, <2>1, Zenon
<1>6. \A k \in 1..N : g[k] = PlaceNext(g[k - 1])
  BY <1>4, <1>5, Zenon
<1>7. \A k \in 0..N : k # 0 => k \in 1..N
  BY <1>1
<1>8. g = F(g)
  <2> HIDE DEF N, base, D
  <2> QED BY <1>4, <1>6, <1>7
<1>9. placed = F(placed)
  BY <1>8, Zenon
<1>10. ReverseTopoSort = placed[N].ordered
  BY Zenon DEF ReverseTopoSort
<1> HIDE DEF placed, step
<1>11. placed[0] = base /\ \A k \in 1..N : placed[k] = PlaceNext(placed[k - 1])
  <2>1. 0 \in 0..N
    BY <1>1
  <2> HIDE DEF N, base
  <2> QED BY <1>5, <1>9, <2>1
<1> DEFINE K == {k \in 0..N : /\ placed[k] \in D
                              /\ Placing(k, placed[k].ordered, placed[k].ready)}
<1>12. 0 \in K
  <2>1. 0 \in 0..N /\ <<>> \in Seq(nodes) /\ Range(<<>>) = {} /\ IsInjective(<<>>) /\ Len(<<>>) = 0
    BY <1>1 DEF Range, IsInjective
  <2>2. base.ordered = <<>> /\ base.ready = Roots
    OBVIOUS
  <2>3. Placing(0, base.ordered, base.ready)
    <3>1. Cardinality({}) = 0
      BY FS_EmptySet
    <3>2. \A n \in nodes : users[n] \subseteq {} <=> n \in {} \cup Range(Roots)
      BY RootsFacts
    <3>3. \A i \in 1..0 : FALSE
      OBVIOUS
    <3>4. IsInjective(Roots)
      BY RootsFacts
    <3> HIDE DEF base
    <3> QED BY <1>3, <2>1, <2>2, <3>1, <3>2, <3>3, <3>4, Zenon DEF Placing
  <2> HIDE DEF base
  <2> QED BY <1>3, <1>11, <2>1, <2>3, Zenon
<1>13. ASSUME NEW k \in 0..N - 1, k \in K PROVE k + 1 \in K
  <2>1. k \in Nat /\ k < N /\ k + 1 \in 0..N /\ k + 1 \in 1..N /\ (k + 1) - 1 = k
    BY <1>1
  <2>2. placed[k] \in D /\ Placing(k, placed[k].ordered, placed[k].ready)
    BY <1>13
  <2>3. /\ PlaceNext(placed[k]) \in D
        /\ Placing(k + 1, PlaceNext(placed[k]).ordered, PlaceNext(placed[k]).ready)
    BY <1>2, <2>1, <2>2, PlaceNextKeeps, Zenon
  <2>4. placed[k + 1] = PlaceNext(placed[k])
    <3> HIDE DEF N, base
    <3> QED BY <1>11, <2>1
  <2> QED BY <2>1, <2>3, <2>4, Zenon
<1>14. Placing(N, placed[N].ordered, placed[N].ready)
  <2>1. N \in 0..N
    BY <1>1
  <2> HIDE DEF K, N
  <2>2. \A k \in 0..N : k \in K
    BY <1>1, <1>12, <1>13, UpTo, Zenon
  <2> QED BY <2>1, <2>2 DEF K
<1> DEFINE s == ReverseTopoSort
           t == TopoSort
<1> HIDE DEF K, N
<1>15. /\ s \in Seq(nodes) /\ IsInjective(s) /\ Len(s) = N
       /\ Cardinality(Range(s)) = N
       /\ \A i \in 1..N : users[s[i]] \subseteq {s[j] : j \in 1..i - 1}
  <2>1. Placing(N, s, placed[N].ready)
    BY <1>10, <1>14, Zenon
  <2> HIDE DEF s
  <2> QED BY <2>1, Zenon DEF Placing
<1> HIDE DEF s
<1>16. Range(s) = nodes
  <2>1. Range(s) \subseteq nodes
    BY <1>15, SeqFacts, Zenon
  <2> QED BY <1>15, <2>1, GraphFacts, FS_Subset, Zenon DEF N
<1>17. /\ t \in Seq(nodes) /\ Len(t) = N /\ Range(t) = nodes /\ IsInjective(t)
       /\ \A i \in 1..N : t[i] = s[N + 1 - i]
  <2>1. t = Reversed(s)
    BY DEF TopoSort, s
  <2> QED BY <1>15, <1>16, <2>1, ReversedFacts
<1> HIDE DEF t
<1>18. ASSUME NEW i \in DOMAIN t, NEW o \in Range(operands[t[i]])
       PROVE  \E j \in 1..i - 1 : t[j] = o
  <2>1. DOMAIN t = 1..N /\ DOMAIN s = 1..N /\ t[i] \in nodes
    BY <1>15, <1>17
  <2>2. o \in nodes /\ t[i] \in users[o]
    BY <2>1, GraphFacts
  <2>3. PICK m \in 1..N : s[m] = o
    BY <1>16, <2>1, <2>2, Zenon DEF Range
  <2>4. PICK j \in 1..m - 1 : s[j] = t[i]
    BY <1>15, <2>2, <2>3, Zenon
  <2>5. j \in 1..N /\ N + 1 - i \in 1..N /\ i \in 1..N
    BY <1>1, <2>1, <2>3, Mirrored, Zenon
  <2>6. j = N + 1 - i
    BY <1>15, <1>17, <2>1, <2>4, <2>5, Zenon DEF IsInjective
  <2>7. N + 1 - m \in 1..i - 1 /\ N + 1 - m \in 1..N /\ N + 1 - (N + 1 - m) = m
    BY <1>1, <2>3, <2>4, <2>5, <2>6, MirroredBefore, Zenon
  <2>8. t[N + 1 - m] = o
    BY <1>17, <2>3, <2>7, Zenon
  <2> QED BY <2>7, <2>8, Zenon
<1> QED BY <1>17, <1>18 DEF t, N

\* As the property says it.
LEMMA Sorts == GraphInv /\ Acyclic => TopoSortSorts
BY TopoSortOrders DEF TopoSortSorts

\* A numbering with every operand before its users.
Ranking(rank) ==
    /\ rank \in [nodes -> 1..MaxNodes]
    /\ \A n \in nodes : \A o \in Range(operands[n]) : rank[o] < rank[n]

\* The places of TopoSort are such a numbering.
LEMMA PlacesRank ==
    ASSUME GraphInv, Acyclic
    PROVE  \E rank : Ranking(rank) /\ \A i \in DOMAIN TopoSort : rank[TopoSort[i]] = i
<1> DEFINE t == TopoSort
           rank == [n \in nodes |-> CHOOSE i \in DOMAIN t : t[i] = n]
<1>1. /\ t \in Seq(nodes) /\ Range(t) = nodes /\ IsInjective(t) /\ Len(t) \in Nat
      /\ Len(t) <= MaxNodes /\ MaxNodes \in Nat
      /\ \A i \in DOMAIN t : \A o \in Range(operands[t[i]]) : \E j \in 1..i - 1 : t[j] = o
  BY TopoSortOrders, GraphFacts, Zenon
<1> HIDE DEF t
<1>2. \A n \in nodes : rank[n] \in DOMAIN t /\ t[rank[n]] = n
  BY <1>1 DEF Range
<1>3. \A i \in DOMAIN t : t[i] \in nodes /\ rank[t[i]] = i
  BY <1>1, <1>2 DEF IsInjective
<1>4. rank \in [nodes -> 1..MaxNodes]
  <2>1. DOMAIN t = 1..Len(t) /\ \A i \in 1..Len(t) : i \in 1..MaxNodes
    BY <1>1
  <2>2. \A n \in nodes : rank[n] \in 1..MaxNodes
    BY <1>2, <2>1, Zenon
  <2> QED BY <2>2
<1>5. ASSUME NEW n \in nodes, NEW o \in Range(operands[n]) PROVE rank[o] < rank[n]
  <2> DEFINE i == rank[n]
  <2>1. i \in DOMAIN t /\ t[i] = n /\ DOMAIN t = 1..Len(t)
    BY <1>1, <1>2
  <2> HIDE DEF i, rank
  <2>2. PICK j \in 1..i - 1 : t[j] = o
    BY <1>1, <2>1, Zenon
  <2>3. j \in DOMAIN t /\ j < i
    BY <1>1, <2>1
  <2>4. rank[o] = j
    BY <1>3, <2>2, <2>3
  <2> QED BY <2>3, <2>4 DEF i
<1> HIDE DEF rank
<1>6. Ranking(rank)
  BY <1>4, <1>5 DEF Ranking
<1> QED BY <1>3, <1>6 DEF t

\* There is such a numbering.
Ranked == \E rank : Ranking(rank)

\* A numbering excludes a cycle.
LEMMA RankedAcyclic == GraphInv /\ Ranked => Acyclic
<1> SUFFICES ASSUME GraphInv, NEW rank, Ranking(rank) PROVE Acyclic
  BY DEF Ranked
<1> DEFINE height == [n \in nodes |-> MaxNodes - rank[n]]
<1>1. MaxNodes \in Nat /\ \A n \in nodes : rank[n] \in 1..MaxNodes
  BY GraphFacts DEF Ranking
<1>2. height \in [nodes -> Nat]
  BY <1>1
<1>3. ASSUME NEW n \in nodes, NEW o \in Range(operands[n]) PROVE height[n] < height[o]
  <2>1. o \in nodes
    BY GraphFacts
  <2>2. rank[o] < rank[n] /\ rank[o] \in 1..MaxNodes /\ rank[n] \in 1..MaxNodes
    BY <1>1, <2>1 DEF Ranking
  <2>3. MaxNodes - rank[n] < MaxNodes - rank[o]
    BY <1>1, <2>2
  <2> QED BY <2>1, <2>3
<1> HIDE DEF height
<1> QED BY <1>2, <1>3 DEF Acyclic

\* What the roots depend on: the roots, and the operands of all it holds.
LEMMA DependsOnFacts ==
    ASSUME GraphInv, Acyclic, NEW roots \in SUBSET nodes
    PROVE  /\ DependsOn(roots) \subseteq nodes /\ roots \subseteq DependsOn(roots)
           /\ \A n \in DependsOn(roots) : Range(operands[n]) \subseteq DependsOn(roots)
<1> DEFINE N == MaxNodes
           D == SUBSET nodes
           More(R) == R \cup UNION {Range(operands[n]) : n \in R}
           step == [k \in 1..N |-> [R \in D |-> More(R)]]
           F(g) == [k \in 0..N |-> IF k = 0 THEN roots ELSE More(g[k - 1])]
           reach == CHOOSE g : g = F(g)
<1>1. N \in Nat /\ roots \in D
  BY GraphFacts
<1>2. \A R \in D : More(R) \in D
  BY GraphFacts
<1>3. PICK g \in [0..N -> D] : g[0] = roots /\ \A k \in 1..N : g[k] = step[k][g[k - 1]]
  <2>1. step \in [1..N -> [D -> D]]
    BY <1>2
  <2> HIDE DEF step, N, D
  <2>2. Recursive(N, D, roots, step) # {}
    BY <1>1, <2>1, Recursion, Zenon
  <2> QED BY <2>2, Zenon DEF Recursive
<1>4. \A k \in 1..N : k \in 0..N /\ k - 1 \in 0..N /\ g[k - 1] \in D /\ k # 0
  <2>1. \A k \in 1..N : k \in 0..N /\ k - 1 \in 0..N /\ k # 0
    BY <1>1
  <2> QED BY <1>3, <2>1, Zenon
<1>5. \A k \in 1..N : g[k] = More(g[k - 1])
  <2> HIDE DEF N, D, More
  <2> QED BY <1>3, <1>4, Zenon DEF step
<1>6. \A k \in 0..N : k # 0 => k \in 1..N
  BY <1>1
<1>7. g = F(g)
  <2> HIDE DEF N, More, D
  <2> QED BY <1>3, <1>5, <1>6
<1>8. reach = F(reach)
  BY <1>7, Zenon
<1>9. DependsOn(roots) = reach[N]
  BY Zenon DEF DependsOn
<1> HIDE DEF reach, step
<1>10. reach[0] = roots /\ \A k \in 1..N : reach[k] = More(reach[k - 1])
  <2>1. 0 \in 0..N
    BY <1>1
  <2> HIDE DEF N, More
  <2> QED BY <1>4, <1>8, <2>1
<1>11. PICK rank : Ranking(rank)
  BY PlacesRank
<1> DEFINE Good(k) == /\ reach[k] \in D /\ roots \subseteq reach[k]
                      /\ \A y \in reach[k] : \/ rank[y] <= N - k
                                             \/ Range(operands[y]) \subseteq reach[k]
           K == {k \in 0..N : Good(k)}
<1>12. \A y \in nodes : rank[y] \in 1..N
  BY <1>11 DEF Ranking
<1>13. 0 \in K
  <2>1. 0 \in 0..N /\ N - 0 = N /\ \A y \in roots : rank[y] <= N
    BY <1>1, <1>12
  <2> HIDE DEF N
  <2> QED BY <1>1, <1>10, <2>1
<1>14. ASSUME NEW k \in 0..N - 1, k \in K PROVE k + 1 \in K
  <2>1. k + 1 \in 0..N /\ k + 1 \in 1..N /\ (k + 1) - 1 = k
    BY <1>1
  <2>2. reach[k + 1] = More(reach[k]) /\ Good(k)
    <3> HIDE DEF More
    <3> QED BY <1>10, <1>14, <2>1, SMTT(60)
  <2>3. reach[k + 1] \in D /\ roots \subseteq reach[k + 1] /\ reach[k] \subseteq reach[k + 1]
    BY <1>2, <2>2
  <2>4. ASSUME NEW y \in reach[k + 1], ~(Range(operands[y]) \subseteq reach[k + 1])
        PROVE  rank[y] <= N - (k + 1)
    <3>1. y \notin reach[k]
      BY <2>2, <2>4
    <3>2. PICK z \in reach[k] : y \in Range(operands[z])
      BY <2>2, <3>1
    <3>3. rank[z] <= N - k
      BY <2>2, <3>1, <3>2
    <3>4. y \in nodes /\ z \in nodes
      BY <2>2, <2>3
    <3>5. rank[y] < rank[z]
      BY <1>11, <3>2, <3>4 DEF Ranking
    <3> QED BY <1>1, <1>12, <3>3, <3>4, <3>5
  <2> HIDE DEF D, More
  <2>5. Good(k + 1)
    BY <2>3, <2>4, Zenon
  <2> QED BY <2>1, <2>5, Zenon
<1>15. Good(N)
  <2>1. N \in 0..N
    BY <1>1
  <2> HIDE DEF K, N
  <2>2. \A k \in 0..N : k \in K
    BY <1>1, <1>13, <1>14, UpTo, Zenon
  <2> QED BY <2>1, <2>2 DEF K
<1>16. \A y \in reach[N] : ~(rank[y] <= N - N)
  BY <1>1, <1>12, <1>15
<1> QED BY <1>9, <1>15, <1>16

\* An edit that adds only edges to new, from nodes that new does not depend on,
\* closes no cycle.
LEMMA AcyclicAfterEdit ==
    ASSUME GraphInv, Acyclic, NEW new \in nodes, nodes' = nodes,
           \A u \in nodes : \/ Range(operands'[u]) \subseteq Range(operands[u])
                            \/ /\ u \notin DependsOn({new})
                               /\ Range(operands'[u]) \subseteq Range(operands[u]) \cup {new}
    PROVE  Acyclic'
<1> DEFINE N == MaxNodes
           D == DependsOn({new})
<1>1. PICK rank : Ranking(rank)
  BY PlacesRank
<1>2. N \in Nat /\ \A n \in nodes : rank[n] \in 1..N
  BY <1>1, GraphFacts DEF Ranking
<1>3. new \in D /\ \A n \in D : Range(operands[n]) \subseteq D
  <2>1. {new} \in SUBSET nodes
    OBVIOUS
  <2> QED BY <2>1, DependsOnFacts, Zenon
<1> DEFINE height == [n \in nodes |-> IF n \in D THEN 2 * N - rank[n] ELSE N - rank[n]]
<1> HIDE DEF D, N
<1>4. height \in [nodes -> Nat]
  BY <1>2
<1>5. ASSUME NEW n \in nodes, NEW o \in Range(operands'[n]), o \in nodes
      PROVE  height[n] < height[o]
  <2>1. rank[n] \in 1..N /\ rank[o] \in 1..N
    BY <1>2, <1>5
  <2>2. CASE o \in Range(operands[n])
    <3>1. rank[o] < rank[n]
      BY <1>1, <2>2 DEF Ranking
    <3>2. n \in D => o \in D
      BY <1>3, <2>2
    <3> QED BY <1>2, <1>5, <2>1, <3>1, <3>2
  <2>3. CASE o \notin Range(operands[n])
    <3>1. n \notin D /\ o \in D
      BY <1>3, <1>5, <2>3, SMTT(60) DEF D
    <3> QED BY <1>2, <1>5, <2>1, <3>1, SMTT(60)
  <2> QED BY <2>2, <2>3
<1>6. \A n \in nodes : \A o \in Range(operands'[n]) : o \in nodes
  BY GraphFacts, Zenon
<1> HIDE DEF height
<1>7. /\ height \in [nodes' -> Nat]
      /\ \A n \in nodes' : \A o \in Range(operands'[n]) : height[n] < height[o]
  BY <1>4, <1>5, <1>6
<1> QED BY <1>7, Zenon DEF Acyclic

\* Nor does a new node, which nobody uses yet.
LEMMA AcyclicAfterAdd ==
    ASSUME GraphInv, Acyclic, NEW o, NEW args, AddNode(o, args)
    PROVE  Acyclic'
<1>1. PICK height \in [nodes -> Nat] :
          \A n \in nodes : \A m \in Range(operands[n]) : height[n] < height[m]
  BY DEF Acyclic
<1>2. /\ next_id \in Ids /\ next_id \notin nodes /\ nodes' = nodes \cup {next_id}
      /\ nodes \subseteq Ids
  BY DEF AddNode, GraphInv, IrTypeOK, Ids
<1>3. operands'[next_id] = args /\ Range(args) \subseteq nodes
  <2>1. args \in Seq(nodes)
    BY DEF AddNode
  <2> QED BY <1>2, <2>1, SeqFacts DEF AddNode, GraphInv, IrTypeOK
<1>4. \A n \in nodes : operands'[n] = operands[n] /\ Range(operands[n]) \subseteq nodes
  BY <1>2, GraphFacts, SMTT(60) DEF AddNode, GraphInv, IrTypeOK
<1> DEFINE h == [n \in nodes' |-> IF n = next_id THEN 0 ELSE height[n] + 1]
<1>5. h \in [nodes' -> Nat]
  BY <1>1, <1>2
<1>6. ASSUME NEW n \in nodes', NEW m \in Range(operands'[n]) PROVE h[n] < h[m]
  <2>1. m \in nodes /\ m # next_id /\ h[m] = height[m] + 1 /\ height[m] \in Nat
    BY <1>1, <1>2, <1>3, <1>4
  <2>2. CASE n = next_id
    BY <2>1, <2>2
  <2>3. CASE n # next_id
    <3>1. n \in nodes /\ h[n] = height[n] + 1 /\ height[n] < height[m] /\ height[n] \in Nat
      BY <1>1, <1>2, <1>4, <2>3
    <3> QED BY <2>1, <3>1, SMTT(60)
  <2> QED BY <2>2, <2>3
<1> HIDE DEF h
<1> QED BY <1>5, <1>6, Zenon DEF Acyclic

\* Nor a removal.
LEMMA AcyclicAfterRemove ==
    ASSUME GraphInv, Acyclic, NEW n, RemoveNode(n)
    PROVE  Acyclic'
<1>1. PICK height \in [nodes -> Nat] :
          \A m \in nodes : \A o \in Range(operands[m]) : height[m] < height[o]
  BY DEF Acyclic
<1>2. nodes' = nodes \ {n} /\ \A m \in nodes' : operands'[m] = operands[m]
  BY DEF RemoveNode, GraphInv, IrTypeOK
<1>3. \A m \in nodes' : Range(operands[m]) \subseteq nodes'
  <2>1. users[n] = {}
    BY DEF RemoveNode, Removable
  <2>2. \A m \in nodes : Range(operands[m]) \subseteq nodes
    BY GraphFacts
  <2>3. \A m \in nodes : n \in nodes => n \notin Range(operands[m])
    BY <2>1, GraphFacts, Zenon
  <2> QED BY <1>2, <2>2, <2>3
<1> DEFINE h == [m \in nodes' |-> height[m]]
<1>4. h \in [nodes' -> Nat]
  BY <1>1, <1>2
<1>5. \A m \in nodes' : \A o \in Range(operands'[m]) : h[m] < h[o]
  <2>1. \A m \in nodes' : m \in nodes /\ h[m] = height[m]
    BY <1>2
  <2> HIDE DEF h
  <2> QED BY <1>1, <1>2, <1>3, <2>1
<1> HIDE DEF h
<1> QED BY <1>4, <1>5, Zenon DEF Acyclic

----------------------------------------------------------------------------
(***************************************************************************)
(* SortedById: what it returns, and when it returns the same for two       *)
(* nodes.                                                                  *)
(***************************************************************************)
\* p puts the elements of args in order.
PutsInOrder(args, p) ==
    /\ p \in [DOMAIN args -> DOMAIN args] /\ IsInjective(p)
    /\ \A i, j \in DOMAIN args : i < j => args[p[i]] <= args[p[j]]

\* A sequence is in order again after its last element is inserted among the others.
LEMMA SortInsert ==
    ASSUME NEW n \in Nat, NEW a \in [1..n + 1 -> Nat], NEW q \in [1..n -> 1..n], IsInjective(q),
           \A i, j \in 1..n : i < j => a[q[i]] <= a[q[j]]
    PROVE  \E p : PutsInOrder(a, p)
<1> DEFINE x == a[n + 1]
           y(i) == a[q[i]]
           above == {i \in 1..n : y(i) > x} \cup {n + 1}
<1>1. x \in Nat
  OBVIOUS
<1>2. \A i \in 1..n : q[i] \in 1..n
  BY Zenon
<1>3. \A i \in 1..n : y(i) \in Nat
  <2>1. \A i \in 1..n : i \in 1..n + 1
    OBVIOUS
  <2> QED BY <1>2, <2>1, Zenon
<1>4. \A i, j \in 1..n : i < j => y(i) <= y(j)
  BY Zenon
<1> HIDE DEF x, y
<1>5. above \in SUBSET Nat /\ above # {}
  OBVIOUS
<1>6. PICK k \in above : \A i \in above : k <= i
  BY <1>5, Least, Zenon
<1>7. k \in 1..n + 1
  OBVIOUS
<1>8. \A i \in 1..n : i < k => y(i) <= x
  BY <1>1, <1>3, <1>6, <1>7
<1>9. \A i \in 1..n : i >= k => y(i) > x
  <2> SUFFICES ASSUME NEW i \in 1..n, i >= k PROVE y(i) > x
    OBVIOUS
  <2>1. k \in 1..n /\ y(k) > x
    BY <1>7
  <2>2. y(k) <= y(i)
    BY <1>3, <1>4, <2>1
  <2>3. y(k) \in Nat /\ y(i) \in Nat
    BY <1>3, <2>1, Zenon
  <2> QED BY <1>1, <2>1, <2>2, <2>3
<1> DEFINE p == [i \in 1..n + 1 |-> IF i < k THEN q[i] ELSE IF i = k THEN n + 1 ELSE q[i - 1]]
           z(i) == a[p[i]]
<1> HIDE DEF above
<1>10. \A i \in 1..n + 1 : i < k => i \in 1..n /\ p[i] = q[i] /\ z(i) = y(i)
  <2> SUFFICES ASSUME NEW i \in 1..n + 1, i < k PROVE i \in 1..n /\ p[i] = q[i] /\ z(i) = y(i)
    BY Zenon
  <2>1. i \in 1..n /\ p[i] = q[i]
    BY <1>7
  <2> HIDE DEF p
  <2> QED BY <2>1 DEF y
<1>11. \A i \in 1..n + 1 : i = k => p[i] = n + 1 /\ z(i) = x
  <2> SUFFICES ASSUME NEW i \in 1..n + 1, i = k PROVE p[i] = n + 1 /\ z(i) = x
    OBVIOUS
  <2>1. p[i] = n + 1
    BY <1>7
  <2> HIDE DEF p
  <2> QED BY <2>1 DEF x
<1>12. \A i \in 1..n + 1 : i > k => /\ i - 1 \in 1..n /\ i - 1 >= k
                                   /\ p[i] = q[i - 1] /\ z(i) = y(i - 1)
  <2> SUFFICES ASSUME NEW i \in 1..n + 1, i > k
               PROVE  i - 1 \in 1..n /\ i - 1 >= k /\ p[i] = q[i - 1] /\ z(i) = y(i - 1)
    BY Zenon
  <2>1. i - 1 \in 1..n /\ i - 1 >= k
    BY <1>7
  <2>2. p[i] = q[i - 1]
    BY <1>7
  <2> HIDE DEF p
  <2> QED BY <2>1, <2>2 DEF y
<1>13. \A i \in 1..n + 1 : i < k \/ i = k \/ i > k
  BY <1>7
<1> HIDE DEF p
<1>14. p \in [1..n + 1 -> 1..n + 1]
  <2>1. ASSUME NEW i \in 1..n + 1 PROVE p[i] \in 1..n + 1
    <3>1. \A j \in 1..n : q[j] \in 1..n + 1
      <4>1. \A j \in 1..n : j \in 1..n + 1
        OBVIOUS
      <4> QED BY <1>2, <4>1, Zenon
    <3>2. n + 1 \in 1..n + 1
      OBVIOUS
    <3> QED BY <1>10, <1>11, <1>12, <1>13, <3>1, <3>2, Zenon
  <2> QED BY <2>1, Zenon DEF p
<1>15. ASSUME NEW i \in 1..n + 1, NEW j \in 1..n + 1, i < j PROVE p[i] # p[j]
  <2>1. \A l, m \in 1..n : q[l] = q[m] => l = m
    BY Zenon DEF IsInjective
  <2>2. \A l \in 1..n : q[l] # n + 1
    BY <1>2
  <2>3. CASE i < k
    <3>1. i \in 1..n /\ p[i] = q[i]
      BY <1>7, <1>10, <2>3, SMTT(60)
    <3>2. \/ j \in 1..n /\ p[j] = q[j] /\ i # j
          \/ p[j] = n + 1
          \/ j - 1 \in 1..n /\ p[j] = q[j - 1] /\ i # j - 1
      <4>1. CASE j < k
        BY <1>10, <1>15, <4>1, SMTT(60)
      <4>2. CASE j = k
        BY <1>11, <4>2, SMTT(60)
      <4>3. CASE j > k
        <5>1. i # j - 1
          BY <1>7, <2>3, <4>3
        <5> QED BY <1>12, <4>3, <5>1
      <4> QED BY <1>13, <4>1, <4>2, <4>3, Zenon
    <3> QED BY <2>1, <2>2, <3>1, <3>2, Zenon
  <2>4. CASE i = k
    <3>1. p[i] = n + 1
      BY <1>11, <2>4
    <3>2. j - 1 \in 1..n /\ p[j] = q[j - 1]
      BY <1>15, <1>12, <2>4
    <3> QED BY <2>2, <3>1, <3>2
  <2>5. CASE i > k
    <3>1. i - 1 \in 1..n /\ p[i] = q[i - 1]
      BY <1>12, <2>5
    <3>2. j - 1 \in 1..n /\ p[j] = q[j - 1]
      <4>1. j > k
        BY <1>7, <1>15, <2>5
      <4> QED BY <1>12, <4>1
    <3>3. i - 1 # j - 1
      BY <1>15
    <3> QED BY <2>1, <3>1, <3>2, <3>3, Zenon
  <2> QED BY <1>7, <2>3, <2>4, <2>5
<1>16. ASSUME NEW i \in 1..n + 1, NEW j \in 1..n + 1, i < j PROVE z(i) <= z(j)
  <2> HIDE DEF z
  <2>1. CASE i < k
    <3>1. i \in 1..n /\ z(i) = y(i) /\ y(i) <= x /\ y(i) \in Nat
      BY <1>3, <1>8, <1>10, <2>1, Zenon
    <3>2. \/ j \in 1..n /\ z(j) = y(j)
          \/ z(j) = x
          \/ j - 1 \in 1..n /\ j - 1 >= k /\ z(j) = y(j - 1)
      BY <1>10, <1>11, <1>12, <1>13, SMTT(60)
    <3>3. CASE j \in 1..n /\ z(j) = y(j)
      BY <1>4, <1>16, <3>1, <3>3
    <3>4. CASE z(j) = x
      BY <3>1, <3>4
    <3>5. CASE j - 1 \in 1..n /\ j - 1 >= k /\ z(j) = y(j - 1)
      <4>1. y(j - 1) > x /\ y(j - 1) \in Nat
        BY <1>3, <1>9, <3>5
      <4> QED BY <1>1, <3>1, <3>5, <4>1, SMTT(60)
    <3> QED BY <3>2, <3>3, <3>4, <3>5
  <2>2. CASE i >= k
    <3>1. j - 1 \in 1..n /\ j - 1 >= k /\ z(j) = y(j - 1)
      <4>1. j > k
        BY <1>7, <1>16, <2>2
      <4> QED BY <1>12, <4>1
    <3>2. y(j - 1) > x /\ y(j - 1) \in Nat
      BY <1>3, <1>9, <3>1
    <3>3. CASE i = k
      <4>1. z(i) = x
        BY <1>11, <3>3
      <4> QED BY <1>1, <3>1, <3>2, <4>1, SMTT(60)
    <3>4. CASE i > k
      <4>1. i - 1 \in 1..n /\ z(i) = y(i - 1)
        BY <1>12, <3>4
      <4>2. i - 1 < j - 1
        BY <1>16
      <4> QED BY <1>4, <3>1, <4>1, <4>2, Zenon
    <3> QED BY <1>7, <2>2, <3>3, <3>4
  <2> QED BY <1>7, <2>1, <2>2
<1>17. PutsInOrder(a, p)
  <2>1. DOMAIN a = 1..n + 1 /\ DOMAIN p = 1..n + 1
    BY <1>14
  <2>2. IsInjective(p)
    <3> SUFFICES ASSUME NEW i \in 1..n + 1, NEW j \in 1..n + 1, p[i] = p[j], i # j PROVE FALSE
      BY <2>1, Zenon DEF IsInjective
    <3>1. i < j \/ j < i
      OBVIOUS
    <3> QED BY <1>15, <3>1
  <2> QED BY <1>14, <1>16, <2>1, <2>2, Zenon DEF PutsInOrder
<1> QED BY <1>17

\* Every sequence of numbers can be put in order, by inserting one element after the other.
LEMMA SortExists ==
    ASSUME NEW N \in Nat, NEW args \in [1..N -> Nat]
    PROVE  \E p : PutsInOrder(args, p)
<1> DEFINE Sorted(n) == \A a \in [1..n -> Nat] : \E p : PutsInOrder(a, p)
           S == {n \in 0..N : Sorted(n)}
<1>1. 0 \in S
  <2>1. \A a \in [1..0 -> Nat] : PutsInOrder(a, a)
    BY DEF PutsInOrder, IsInjective
  <2>2. 0 \in 0..N
    OBVIOUS
  <2> QED BY <2>1, <2>2
<1>2. ASSUME NEW n \in 0..N - 1, n \in S PROVE n + 1 \in S
  <2>1. n \in Nat /\ n + 1 \in 0..N
    OBVIOUS
  <2>2. Sorted(n + 1)
    <3> SUFFICES ASSUME NEW a \in [1..n + 1 -> Nat] PROVE \E p : PutsInOrder(a, p)
      OBVIOUS
    <3> DEFINE b == [i \in 1..n |-> a[i]]
    <3>1. b \in [1..n -> Nat] /\ \A i \in 1..n : b[i] = a[i]
      BY <2>1
    <3>2. PICK q : PutsInOrder(b, q)
      BY <1>2, <3>1, Zenon
    <3>3. DOMAIN b = 1..n
      OBVIOUS
    <3> HIDE DEF b
    <3>4. /\ q \in [1..n -> 1..n] /\ IsInjective(q)
          /\ \A i, j \in 1..n : i < j => b[q[i]] <= b[q[j]]
      BY <3>2, <3>3, Zenon DEF PutsInOrder
    <3>5. \A i, j \in 1..n : i < j => a[q[i]] <= a[q[j]]
      BY <3>1, <3>4, Zenon
    <3> QED BY <2>1, <3>4, <3>5, SortInsert, Zenon
  <2> HIDE DEF Sorted
  <2> QED BY <2>1, <2>2
<1> HIDE DEF S
<1>3. \A n \in 0..N : n \in S
  BY <1>1, <1>2, UpTo, Zenon
<1>4. N \in 0..N
  OBVIOUS
<1> QED BY <1>3, <1>4 DEF S

\* SortedById puts its argument in order.
LEMMA SortedByIdFacts ==
    ASSUME NEW args \in Seq(Nat)
    PROVE  \E p : PutsInOrder(args, p) /\ SortedById(args) = [i \in DOMAIN args |-> args[p[i]]]
<1> DEFINE p == CHOOSE p \in [DOMAIN args -> DOMAIN args] :
                  /\ IsInjective(p)
                  /\ \A i, j \in DOMAIN args : i < j => args[p[i]] <= args[p[j]]
<1>1. \E q : PutsInOrder(args, q)
  <2>1. Len(args) \in Nat /\ args \in [1..Len(args) -> Nat]
    OBVIOUS
  <2> QED BY <2>1, SortExists
<1>2. PutsInOrder(args, p)
  BY <1>1, Zenon DEF PutsInOrder
<1>3. SortedById(args) = [i \in DOMAIN args |-> args[p[i]]]
  BY Zenon DEF SortedById
<1> HIDE DEF p
<1> QED BY <1>2, <1>3

\* How often x is among the first N elements of a.
Count(N, a, x) == Cardinality({i \in 1..N : a[i] = x})

\* a and b hold the same elements, equally often.
SameCounts(N, a, b) ==
    \A x \in Range(a) \cup Range(b) : Count(N, a, x) = Count(N, b, x)

\* Putting a sequence in another order leaves how often it holds each element.
LEMMA CountsPermuted ==
    ASSUME NEW N \in Nat, NEW a, NEW p \in [1..N -> 1..N], IsInjective(p), NEW x
    PROVE  Count(N, [i \in 1..N |-> a[p[i]]], x) = Count(N, a, x)
<1> DEFINE A == {i \in 1..N : a[p[i]] = x}
           B == {i \in 1..N : a[i] = x}
           f == [i \in A |-> p[i]]
<1>1. IsFiniteSet(1..N)
  BY FS_Interval
<1>2. p \in Surjection(1..N, 1..N)
  <2>1. p \in Injection(1..N, 1..N)
    BY Zenon DEF Injection
  <2> QED BY <1>1, <2>1, FS_Injection
<1>3. \A i \in 1..N : \E j \in 1..N : p[j] = i
  BY <1>2 DEF Surjection, Range
<1>4. f \in [A -> B]
  BY Zenon
<1>5. f \in Injection(A, B)
  BY <1>4 DEF Injection, IsInjective
<1>6. f \in Surjection(A, B)
  <2>1. \A b \in B : \E i \in A : f[i] = b
    BY <1>3, Zenon
  <2> QED BY <1>4, <2>1, Zenon DEF Surjection, Range
<1>7. ExistsBijection(A, B)
  BY <1>5, <1>6, Zenon DEF ExistsBijection, Bijection
<1>8. IsFiniteSet(A)
  BY <1>1, FS_Subset
<1>9. A = {i \in 1..N : [j \in 1..N |-> a[p[j]]][i] = x}
  BY Zenon
<1> HIDE DEF A, B
<1>10. Cardinality(B) = Cardinality(A)
  BY <1>7, <1>8, FS_Bijection, Zenon
<1> QED BY <1>9, <1>10, Zenon DEF B, Count

\* u is below v at k, where they first differ, and v is in order.
BelowAt(N, u, v, k) ==
    /\ u[k] < v[k] /\ \A i \in 1..N : i < k => u[i] = v[i]
    /\ \A i, j \in 1..N : i < j => v[i] <= v[j]

\* Of two sequences in order, the one that is below the other where they first differ
\* holds the element there more often.
LEMMA CountsDiffer ==
    ASSUME NEW N \in Nat, NEW u \in [1..N -> Nat], NEW v \in [1..N -> Nat], NEW k \in 1..N,
           BelowAt(N, u, v, k)
    PROVE  Count(N, u, u[k]) # Count(N, v, u[k])
<1> USE DEF BelowAt
<1> DEFINE U == {i \in 1..N : u[i] = u[k]}
           V == {i \in 1..N : v[i] = u[k]}
<1>1. \A i \in V : i < k
  <2> SUFFICES ASSUME NEW i \in 1..N, v[i] = u[k], ~(i < k) PROVE FALSE
    OBVIOUS
  <2>1. i = k \/ k < i
    OBVIOUS
  <2>2. v[k] <= v[i]
    BY <2>1
  <2>3. v[k] \in Nat /\ v[i] \in Nat /\ u[k] \in Nat
    OBVIOUS
  <2> QED BY <2>2, <2>3
<1>2. V \subseteq U /\ k \in U /\ k \notin V
  BY <1>1
<1>3. IsFiniteSet(U)
  <2>1. IsFiniteSet(1..N) /\ U \in SUBSET (1..N)
    BY FS_Interval
  <2> QED BY <2>1, FS_Subset, Zenon
<1>4. Count(N, u, u[k]) = Cardinality(U) /\ Count(N, v, u[k]) = Cardinality(V)
  BY Zenon DEF Count
<1> HIDE DEF U, V
<1>5. Cardinality(U) # Cardinality(V)
  BY <1>2, <1>3, FS_Subset, Zenon
<1> QED BY <1>4, <1>5

\* Sequences with the same elements, equally often, are the same once in order.
LEMMA SortedByCounts ==
    ASSUME NEW N \in Nat, NEW a \in [1..N -> Nat], NEW b \in [1..N -> Nat],
           SameCounts(N, a, b)
    PROVE  SortedById(a) = SortedById(b)
<1>1. a \in Seq(Nat) /\ b \in Seq(Nat)
  OBVIOUS
<1>2. PICK p : PutsInOrder(a, p) /\ SortedById(a) = [i \in DOMAIN a |-> a[p[i]]]
  BY <1>1, SortedByIdFacts, Zenon
<1>3. PICK q : PutsInOrder(b, q) /\ SortedById(b) = [i \in DOMAIN b |-> b[q[i]]]
  BY <1>1, SortedByIdFacts, Zenon
<1> DEFINE s == [i \in 1..N |-> a[p[i]]]
           t == [i \in 1..N |-> b[q[i]]]
<1>4. /\ p \in [1..N -> 1..N] /\ IsInjective(p) /\ \A i, j \in 1..N : i < j => a[p[i]] <= a[p[j]]
      /\ q \in [1..N -> 1..N] /\ IsInjective(q) /\ \A i, j \in 1..N : i < j => b[q[i]] <= b[q[j]]
  <2>1. DOMAIN a = 1..N /\ DOMAIN b = 1..N
    OBVIOUS
  <2> QED BY <1>2, <1>3, <2>1, Zenon DEF PutsInOrder
<1>5. /\ s \in [1..N -> Nat] /\ t \in [1..N -> Nat]
      /\ \A i \in 1..N : s[i] \in Range(a) /\ t[i] \in Range(b)
      /\ \A i, j \in 1..N : i < j => s[i] <= s[j] /\ t[i] <= t[j]
  BY <1>4, Zenon DEF Range
<1>6. \A x \in Range(a) \cup Range(b) : Count(N, s, x) = Count(N, t, x)
  <2> TAKE x \in Range(a) \cup Range(b)
  <2>1. Count(N, s, x) = Count(N, a, x)
    BY <1>4, CountsPermuted, Zenon
  <2>2. Count(N, t, x) = Count(N, b, x)
    BY <1>4, CountsPermuted, Zenon
  <2> HIDE DEF s, t
  <2> QED BY <2>1, <2>2, Zenon DEF SameCounts
<1> HIDE DEF s, t
<1> DEFINE T == {i \in 1..N : s[i] # t[i]}
<1>7. T = {}
  <2> SUFFICES ASSUME T # {} PROVE FALSE
    OBVIOUS
  <2>1. T \in SUBSET Nat
    OBVIOUS
  <2>2. PICK k \in T : \A i \in T : k <= i
    BY <2>1, Least, Zenon
  <2>3. k \in 1..N /\ s[k] # t[k] /\ \A i \in 1..N : i < k => s[i] = t[i]
    BY <2>2, SMTT(60)
  <2>4. s[k] < t[k] \/ t[k] < s[k]
    BY <1>5, <2>3
  <2>5. CASE s[k] < t[k]
    <3>1. BelowAt(N, s, t, k)
      BY <1>5, <2>3, <2>5 DEF BelowAt
    <3>2. s \in [1..N -> Nat] /\ t \in [1..N -> Nat] /\ k \in 1..N
      BY <1>5, <2>3, Zenon
    <3>3. Count(N, s, s[k]) # Count(N, t, s[k])
      BY <3>1, <3>2, CountsDiffer, Zenon
    <3> QED BY <1>5, <1>6, <2>3, <3>3, Zenon
  <2>6. CASE t[k] < s[k]
    <3>1. BelowAt(N, t, s, k)
      BY <1>5, <2>3, <2>6, Zenon DEF BelowAt
    <3>2. s \in [1..N -> Nat] /\ t \in [1..N -> Nat] /\ k \in 1..N
      BY <1>5, <2>3, Zenon
    <3>3. Count(N, t, t[k]) # Count(N, s, t[k])
      BY <3>1, <3>2, CountsDiffer, Zenon
    <3> QED BY <1>5, <1>6, <2>3, <3>3, Zenon
  <2> QED BY <2>4, <2>5, <2>6
<1>8. \A i \in 1..N : s[i] = t[i]
  BY <1>7
<1>9. SortedById(a) = s /\ SortedById(b) = t
  BY <1>2, <1>3 DEF s, t
<1> QED BY <1>8, <1>9 DEF s, t

----------------------------------------------------------------------------
(***************************************************************************)
(* The operations on the graph.                                            *)
(***************************************************************************)
\* A new node is a user of its operands, and of nothing else.
LEMMA AddNodeKeeps ==
    ASSUME GraphInv, NEW o \in Ops, NEW args, AddNode(o, args)
    PROVE  GraphInv'
<1> USE DEF GraphInv, Ids
<1>1. /\ args \in Seq(nodes) /\ next_id \in Ids /\ next_id \notin nodes
      /\ nodes' = nodes \cup {next_id}
  BY DEF AddNode, IrTypeOK
<1>2. Range(args) \subseteq nodes
  BY <1>1 DEF Range
<1>3. \A S, T : S \subseteq T => Seq(S) \subseteq Seq(T)
  OBVIOUS
<1>4. /\ operands' \in [Ids -> Seq(nodes')]
      /\ operands'[next_id] = args
      /\ \A m \in Ids : m # next_id => operands'[m] = operands[m]
  BY <1>1, <1>3 DEF AddNode, IrTypeOK
<1>5. users' \in [Ids -> SUBSET nodes']
  BY <1>1, <1>2 DEF AddNode, IrTypeOK
<1>6. IrTypeOK'
  <2>1. /\ MaxNodes \in Nat /\ nodes \subseteq 1..MaxNodes /\ next_id \in 1..MaxNodes
        /\ next_id' = next_id + 1
        /\ \A n \in 1..MaxNodes : n >= next_id => n \notin nodes
    BY <1>1, OpsAssumption DEF AddNode, IrTypeOK
  <2>2. nodes' \subseteq Ids /\ next_id' \in 1..MaxNodes + 1
    BY <1>1, <2>1
  <2>3. op' \in [Ids -> Ops]
    BY DEF AddNode, IrTypeOK
  <2>4. return_value' \in nodes' \cup {0}
    BY <1>1 DEF AddNode, IrTypeOK
  <2>5. \A n \in Ids : n >= next_id' => n \notin nodes'
    BY <1>1, <2>1
  <2>6. \A n \in Ids \ nodes' : operands'[n] = <<>>
    BY <1>1, <1>4, SMTT(60) DEF IrTypeOK
  <2> QED BY <2>2, <2>3, <2>4, <2>5, <2>6, <1>4, <1>5, Zenon DEF IrTypeOK
<1>7. UsersMatchOperands'
  BY <1>1, <1>2, <1>4 DEF AddNode, IrTypeOK, UsersMatchOperands
<1> QED BY <1>6, <1>7

\* Every use moves to the replacement, which gains those users, except its own use.
LEMMA ReplaceUsesWithKeeps ==
    ASSUME GraphInv, NEW n \in nodes, NEW replacement \in nodes, n # replacement,
           ReplaceUsesWith(n, replacement)
    PROVE  GraphInv'
<1> USE DEF GraphInv
<1> DEFINE replaced == users[n] \ {replacement}
<1>1. nodes' = nodes /\ nodes \subseteq Ids /\ replaced \subseteq nodes
  BY SMTT(60) DEF ReplaceUsesWith, IrTypeOK
<1>2. \A u \in Ids : /\ operands[u] \in Seq(nodes)
                    /\ Substituted(operands[u], n, replacement) \in Seq(nodes)
                    /\ DOMAIN Substituted(operands[u], n, replacement) = DOMAIN operands[u]
  <2> SUFFICES ASSUME NEW u \in Ids
               PROVE  /\ operands[u] \in Seq(nodes)
                      /\ Substituted(operands[u], n, replacement) \in Seq(nodes)
                      /\ DOMAIN Substituted(operands[u], n, replacement) = DOMAIN operands[u]
    OBVIOUS
  <2>1. operands[u] \in Seq(nodes)
    BY DEF IrTypeOK
  <2>2. /\ DOMAIN operands[u] = 1..Len(operands[u]) /\ Len(operands[u]) \in Nat
        /\ \A i \in DOMAIN operands[u] : operands[u][i] \in nodes
    BY <2>1, SMTT(60)
  <2> QED BY <2>1, <2>2 DEF Substituted
<1>3. \A u \in Ids : operands'[u] = IF u \in replaced
                                   THEN Substituted(operands[u], n, replacement)
                                   ELSE operands[u]
  BY SMTT(60) DEF ReplaceUsesWith
<1>4. operands' \in [Ids -> Seq(nodes')]
  BY <1>1, <1>2, SMTT(60) DEF ReplaceUsesWith
<1>5. /\ users' \in [Ids -> SUBSET nodes']
      /\ users'[n] = users[n] \cap {replacement}
      /\ users'[replacement] = users[replacement] \cup replaced
      /\ \A m \in Ids : m # n /\ m # replacement => users'[m] = users[m]
  BY <1>1, Zenon DEF ReplaceUsesWith, IrTypeOK
<1>6. IrTypeOK'
  BY <1>1, <1>3, <1>4, <1>5, Zenon DEF ReplaceUsesWith, IrTypeOK
<1>7. \A u \in replaced : Range(operands'[u]) = (Range(operands[u]) \ {n}) \cup {replacement}
  <2> SUFFICES ASSUME NEW u \in replaced
               PROVE  Range(operands'[u]) = (Range(operands[u]) \ {n}) \cup {replacement}
    OBVIOUS
  <2>1. u \in Ids /\ operands'[u] = Substituted(operands[u], n, replacement)
    BY <1>1, <1>3
  <2>2. n \in Range(operands[u])
    BY <1>1 DEF UsersMatchOperands
  <2>3. PICK i \in DOMAIN operands[u] : operands[u][i] = n
    BY <2>2, SMTT(60) DEF Range
  <2> QED BY <2>1, <2>3, <1>2, SMTT(60) DEF Range, Substituted
<1>8. UsersMatchOperands'
  <2> SUFFICES ASSUME NEW m \in Ids
               PROVE  users'[m] = {u \in nodes : m \in Range(operands'[u])}
    BY <1>1 DEF UsersMatchOperands
  <2>1. \A u \in nodes : u \in users[m] <=> m \in Range(operands[u])
    BY DEF UsersMatchOperands
  <2>2. \A u \in nodes : u \in users[n] <=> n \in Range(operands[u])
    BY <1>1 DEF UsersMatchOperands
  <2>3. \A u \in nodes : u \notin replaced => operands'[u] = operands[u]
    BY <1>1, <1>3
  <2>4. users'[m] \subseteq nodes
    BY <1>1, <1>5, Zenon
  <2>5. CASE m = n
    BY <2>1, <2>2, <2>3, <2>4, <2>5, <1>1, <1>5, <1>7, ZenonT(60)
  <2>6. CASE m = replacement
    BY <2>1, <2>2, <2>3, <2>4, <2>6, <1>1, <1>5, <1>7, Zenon
  <2>7. CASE m # n /\ m # replacement
    BY <2>1, <2>2, <2>3, <2>4, <2>7, <1>1, <1>5, <1>7, SMTT(60)
  <2> QED BY <2>5, <2>6, <2>7, SMTT(60)
<1> QED BY <1>6, <1>8, SMTT(60)

\* One operand is exchanged; the old one keeps its user if another slot holds it.
LEMMA ReplaceOperandNumberKeeps ==
    ASSUME GraphInv, NEW n \in nodes, NEW new_operand \in nodes,
           NEW i \in DOMAIN operands[n], ReplaceOperandNumber(n, i, new_operand)
    PROVE  GraphInv'
<1> USE DEF GraphInv
<1> DEFINE old  == operands[n][i]
           args == [operands[n] EXCEPT ![i] = new_operand]
<1>1. nodes' = nodes /\ nodes \subseteq Ids
  BY DEF ReplaceOperandNumber, IrTypeOK
<1>2. operands[n] \in Seq(nodes)
  BY <1>1, SMTT(60) DEF IrTypeOK
<1>3. old \in nodes /\ args \in Seq(nodes) /\ DOMAIN args = DOMAIN operands[n]
  BY <1>2, SMTT(60)
<1>4. /\ operands' \in [Ids -> Seq(nodes')] /\ operands'[n] = args
      /\ \A m \in Ids : m # n => operands'[m] = operands[m]
  BY <1>1, <1>3, Zenon DEF ReplaceOperandNumber, IrTypeOK
<1>5. /\ new_operand \in Range(args)
      /\ old \in Range(operands[n])
      /\ Range(args) \subseteq Range(operands[n]) \cup {new_operand}
      /\ Range(operands[n]) \subseteq Range(args) \cup {old}
  BY <1>3 DEF Range
<1>6. /\ users' \in [Ids -> SUBSET nodes']
      /\ \A m \in Ids : users'[m] =
            (IF m = new_operand THEN users[m] \cup {n} ELSE users[m])
              \ (IF m = old /\ old \notin Range(args) THEN {n} ELSE {})
  BY <1>1, <1>3, ZenonT(60) DEF ReplaceOperandNumber, IrTypeOK
<1>7. IrTypeOK'
  <2>1. UNCHANGED <<next_id, op, return_value>>
    BY Zenon DEF ReplaceOperandNumber
  <2> QED BY <1>1, <1>4, <1>6, <2>1, Zenon DEF IrTypeOK
<1>8. UsersMatchOperands'
  <2> HIDE DEF old, args
  <2> SUFFICES ASSUME NEW m \in Ids
               PROVE  users'[m] = {u \in nodes : m \in Range(operands'[u])}
    BY <1>1 DEF UsersMatchOperands
  <2>1. \A u \in nodes : u \in users[m] <=> m \in Range(operands[u])
    BY DEF UsersMatchOperands
  <2>2. \A u : u \in users'[m] <=>
              /\ u \in users[m] \/ (m = new_operand /\ u = n)
              /\ ~(m = old /\ old \notin Range(args) /\ u = n)
    BY <1>6, Zenon
  <2>3. \A u \in nodes : u # n => operands'[u] = operands[u]
    BY <1>1, <1>4
  <2>4. \A u \in nodes : u # n => (u \in users'[m] <=> m \in Range(operands'[u]))
    BY <2>1, <2>2, <2>3, Zenon
  <2>5. n \in users'[m] <=> m \in Range(operands'[n])
    <3>1. operands'[n] = args /\ (n \in users[m] <=> m \in Range(operands[n]))
      BY <2>1, <1>4, SMTT(60)
    <3> QED BY <3>1, <2>2, <1>5, SMTT(60)
  <2>6. users'[m] \subseteq nodes
    BY <1>1, <1>6
  <2> QED BY <2>4, <2>5, <2>6
<1> QED BY <1>7, <1>8, SMTT(60)

\* A node without users is nobody's operand, so the graph without it is whole.
LEMMA RemoveNodeKeeps ==
    ASSUME GraphInv, NEW n, RemoveNode(n)
    PROVE  GraphInv'
<1> USE DEF GraphInv
<1>1. /\ nodes' = nodes \ {n} /\ nodes \subseteq Ids /\ n # return_value
      /\ users \in [Ids -> SUBSET nodes] /\ operands \in [Ids -> Seq(nodes)]
  BY DEF RemoveNode, Removable, HasImplicitUse, IrTypeOK
<1>2. \A m \in nodes : n \notin Range(operands[m])
  <2>1. CASE n \in Ids
    BY <2>1, <1>1 DEF RemoveNode, Removable, UsersMatchOperands
  <2>2. CASE n \notin Ids
    <3> SUFFICES ASSUME NEW m \in nodes, n \in Range(operands[m]) PROVE FALSE
      OBVIOUS
    <3>1. operands[m] \in Seq(nodes)
      BY <1>1
    <3> QED BY <3>1, <2>2, <1>1 DEF Range
  <2> QED BY <2>1, <2>2
<1>3. /\ \A m \in Ids : m # n => operands'[m] = operands[m]
      /\ n \in Ids => operands'[n] = <<>>
      /\ DOMAIN operands' = Ids /\ operands' = [m \in Ids |-> operands'[m]]
  BY <1>1, Zenon DEF RemoveNode
<1>4. \A m \in Ids : operands'[m] \in Seq(nodes')
  <2> SUFFICES ASSUME NEW m \in Ids PROVE operands'[m] \in Seq(nodes')
    OBVIOUS
  <2>1. CASE operands'[m] = <<>>
    BY <2>1
  <2>2. CASE m \in nodes /\ m # n
    <3>1. operands'[m] \in Seq(nodes) /\ n \notin Range(operands'[m])
      BY <2>2, <1>1, <1>2, <1>3, SMTT(60)
    <3>2. /\ Len(operands'[m]) \in Nat /\ DOMAIN operands'[m] = 1..Len(operands'[m])
          /\ operands'[m] = [i \in 1..Len(operands'[m]) |-> operands'[m][i]]
          /\ \A i \in 1..Len(operands'[m]) : operands'[m][i] \in nodes'
      BY <3>1, <1>1 DEF Range
    <3> QED BY <3>2
  <2>3. m \notin nodes => operands[m] = <<>>
    BY DEF IrTypeOK
  <2> QED BY <2>1, <2>2, <2>3, <1>3
<1>5. /\ users' \in [Ids -> SUBSET nodes']
      /\ \A m \in Ids : users'[m] = users[m] \ {n}
  <2>1. \A m \in Ids : n \in users[m] => m \in Range(operands[n])
    BY DEF UsersMatchOperands
  <2>2. \A m \in Ids : users'[m] = users[m] \ {n}
    BY <2>1, <1>1 DEF RemoveNode
  <2> QED BY <2>2, <1>1, SMTT(60) DEF RemoveNode
<1>6. IrTypeOK'
  <2>1. op' \in [Ids -> Ops]
    BY OpsAssumption, Zenon DEF RemoveNode, IrTypeOK
  <2>2. return_value' \in nodes' \cup {0} /\ next_id' \in 1..MaxNodes + 1
    BY <1>1 DEF RemoveNode, IrTypeOK
  <2>3. \A m \in Ids : m >= next_id' => m \notin nodes'
    BY <1>1 DEF RemoveNode, IrTypeOK
  <2>4. \A m \in Ids \ nodes' : operands'[m] = <<>>
    BY <1>1, <1>3 DEF IrTypeOK
  <2>5. operands' \in [Ids -> Seq(nodes')] /\ nodes' \subseteq Ids
    BY <1>1, <1>3, <1>4, SMTT(60)
  <2> QED BY <2>1, <2>2, <2>3, <2>4, <2>5, <1>5, SMTT(60) DEF IrTypeOK
<1>7. UsersMatchOperands'
  BY <1>1, <1>2, <1>3, <1>5 DEF UsersMatchOperands
<1> QED BY <1>6, <1>7
=============================================================================
