----------------------------- MODULE ProofLemmas -----------------------------
(***************************************************************************)
(* Facts about numbers and sequences that the proofs share.                *)
(***************************************************************************)
EXTENDS SequenceTheorems, WellFoundedInduction, TLAPS

\* A non-empty set of natural numbers has a least element.  It takes a set,
\* not a predicate, so that the provers can use it for induction: the least
\* counterexample.
LEMMA LeastNat ==
  ASSUME NEW T, T \subseteq Nat, T # {}
  PROVE  \E m \in T : \A k \in T : m <= k
<1>1. PICK m \in T : \A k \in T : ~(<< k, m >> \in OpToRel(<, Nat))
  BY WFMin, NatLessThanWellFounded
<1>2. \A k \in T : ~(k < m)
  BY <1>1 DEF OpToRel
<1> QED
  BY <1>2

\* Induction on the length of what a set of numbers leaves out.
LEMMA SetInduction ==
  ASSUME NEW T, T \subseteq Nat, 0 \in T, \A n \in Nat : n \in T => n + 1 \in T
  PROVE  T = Nat
<1> SUFFICES ASSUME T # Nat PROVE FALSE
  OBVIOUS
<1>1. Nat \ T # {}
  OBVIOUS
<1>2. PICK m \in Nat \ T : \A k \in Nat \ T : m <= k
  BY <1>1, LeastNat
<1>3. m # 0 /\ m - 1 \in Nat /\ m - 1 \in T
  BY <1>2
<1> QED
  BY <1>2, <1>3

\* The same up to a bound.
LEMMA BoundedInduction ==
  ASSUME NEW N \in Nat, NEW T, 0 \in T, \A n \in 1 .. N : n - 1 \in T => n \in T
  PROVE  \A n \in 0 .. N : n \in T
<1> DEFINE U == {n \in Nat : n <= N => n \in T}
<1>1. U \subseteq Nat /\ 0 \in U
  OBVIOUS
<1>2. ASSUME NEW n \in Nat, n \in U PROVE n + 1 \in U
  <2>1. CASE n + 1 <= N
    <3>1. n + 1 \in 1 .. N /\ (n + 1) - 1 = n /\ n \in T
      BY <1>2, <2>1
    <3> QED
      BY <3>1
  <2> QED
    BY <2>1
<1>3. U = Nat
  <2> HIDE DEF U
  <2> QED
    BY <1>1, <1>2, SetInduction
<1> QED
  BY <1>3

\* A function may be defined by recursion on its numbers: the step is itself
\* a function, so that the provers can instantiate it.
Recurs(f, a, N, step) ==
  f[0] = a /\ \A n \in 1 .. N : f[n] = step[<< n, f[n - 1] >>]

LEMMA BoundedRecursion ==
  ASSUME NEW S, NEW a \in S, NEW N \in Nat, NEW step \in [(1 .. N) \X S -> S]
  PROVE  \E f \in [0 .. N -> S] : Recurs(f, a, N, step)
<1> DEFINE Begins(f, m) ==
             /\ f[0] = a
             /\ \A n \in 1 .. m : f[n] = step[<< n, f[n - 1] >>]
           T == {m \in 0 .. N : \E f \in [0 .. m -> S] : Begins(f, m)}
<1>1. 0 \in T
  <2> DEFINE f == [n \in 0 .. 0 |-> a]
  <2>1. f \in [0 .. 0 -> S]
    OBVIOUS
  <2>2. f[0] = a
    OBVIOUS
  <2>3. Begins(f, 0)
    BY <2>2
  <2> HIDE DEF f
  <2> QED
    BY <2>1, <2>3
<1>2. ASSUME NEW m \in 1 .. N, m - 1 \in T PROVE m \in T
  <2>1. PICK f \in [0 .. m - 1 -> S] : Begins(f, m - 1)
    BY <1>2
  <2> DEFINE next == step[<< m, f[m - 1] >>]
             g == [n \in 0 .. m |-> IF n = m THEN next ELSE f[n]]
  <2>2. next \in S
    OBVIOUS
  <2>3. g \in [0 .. m -> S]
    BY <2>2
  <2>4. g[0] = a /\ g[m] = next /\ \A n \in 0 .. m - 1 : g[n] = f[n]
    BY <2>1
  <2>5. ASSUME NEW n \in 1 .. m PROVE g[n] = step[<< n, g[n - 1] >>]
    <3> HIDE DEF g
    <3>1. n - 1 \in 0 .. m - 1
      OBVIOUS
    <3>2. CASE n = m
      BY <2>4, <3>1, <3>2
    <3>3. CASE n # m
      <4>1. n \in 1 .. m - 1 /\ n \in 0 .. m - 1
        BY <3>3
      <4>2. g[n] = f[n] /\ g[n - 1] = f[n - 1]
        BY <2>4, <3>1, <4>1
      <4> HIDE DEF next
      <4> QED
        BY <2>1, <4>1, <4>2
    <3> QED
      BY <3>2, <3>3
  <2> HIDE DEF g
  <2> QED
    BY <2>3, <2>4, <2>5
<1>3. N \in T
  <2> HIDE DEF T
  <2> QED
    BY <1>1, <1>2, BoundedInduction
<1> QED
  BY <1>3 DEF Recurs

-----------------------------------------------------------------------------
(* Tuples, element by element *)

LEMMA Appended ==
  ASSUME NEW S, NEW s \in Seq(S), NEW x \in S, NEW t \in Seq(S),
         Len(t) = Len(s) + 1, \A k \in 1 .. Len(s) : t[k] = s[k],
         t[Len(s) + 1] = x
  PROVE  Append(s, x) = t
<1>1. /\ Append(s, x) \in Seq(S) /\ Len(Append(s, x)) = Len(t) /\ Len(s) \in Nat
      /\ \A k \in 1 .. Len(s) + 1 : Append(s, x)[k] = t[k]
  BY AppendProperties, LenProperties
<1> QED
  BY <1>1, SeqEqual

LEMMA Append1 ==
  ASSUME NEW a, NEW x
  PROVE  Append(<< a >>, x) = << a, x >>
<1> DEFINE S == {a, x}
           s == << a >>
           t == << a, x >>
<1>1. s \in Seq(S) /\ t \in Seq(S) /\ x \in S
  OBVIOUS
<1>2. Len(s) = 1 /\ Len(t) = 1 + 1
  OBVIOUS
<1>3. \A k \in 1 .. 1 : t[k] = s[k]
  OBVIOUS
<1>4. t[1 + 1] = x
  OBVIOUS
<1> HIDE DEF S, s, t
<1>5. Append(s, x) = t
  BY <1>1, <1>2, <1>3, <1>4, Appended
<1> QED
  BY <1>5 DEF s, t

LEMMA Append2 ==
  ASSUME NEW a, NEW b, NEW x
  PROVE  Append(<< a, b >>, x) = << a, b, x >>
<1> DEFINE S == {a, b, x}
           s == << a, b >>
           t == << a, b, x >>
<1>1. s \in Seq(S) /\ t \in Seq(S) /\ x \in S
  OBVIOUS
<1>2. Len(s) = 2 /\ Len(t) = 2 + 1
  OBVIOUS
<1>3. \A k \in 1 .. 2 : t[k] = s[k]
  OBVIOUS
<1>4. t[2 + 1] = x
  OBVIOUS
<1> HIDE DEF S, s, t
<1>5. Append(s, x) = t
  BY <1>1, <1>2, <1>3, <1>4, Appended
<1> QED
  BY <1>5 DEF s, t

LEMMA Append3 ==
  ASSUME NEW a, NEW b, NEW c, NEW x
  PROVE  Append(<< a, b, c >>, x) = << a, b, c, x >>
<1> DEFINE S == {a, b, c, x}
           s == << a, b, c >>
           t == << a, b, c, x >>
<1>1. s \in Seq(S) /\ t \in Seq(S) /\ x \in S
  OBVIOUS
<1>2. Len(s) = 3 /\ Len(t) = 3 + 1
  OBVIOUS
<1>3. \A k \in 1 .. 3 : t[k] = s[k]
  OBVIOUS
<1>4. t[3 + 1] = x
  OBVIOUS
<1> HIDE DEF S, s, t
<1>5. Append(s, x) = t
  BY <1>1, <1>2, <1>3, <1>4, Appended
<1> QED
  BY <1>5 DEF s, t

LEMMA Append4 ==
  ASSUME NEW a, NEW b, NEW c, NEW d, NEW x
  PROVE  Append(<< a, b, c, d >>, x) = << a, b, c, d, x >>
<1> DEFINE S == {a, b, c, d, x}
           s == << a, b, c, d >>
           t == << a, b, c, d, x >>
<1>1. s \in Seq(S) /\ t \in Seq(S) /\ x \in S
  OBVIOUS
<1>2. Len(s) = 4 /\ Len(t) = 4 + 1
  OBVIOUS
<1>3. \A k \in 1 .. 4 : t[k] = s[k]
  OBVIOUS
<1>4. t[4 + 1] = x
  OBVIOUS
<1> HIDE DEF S, s, t
<1>5. Append(s, x) = t
  BY <1>1, <1>2, <1>3, <1>4, Appended
<1> QED
  BY <1>5 DEF s, t

LEMMA JoinPair ==
  ASSUME NEW S, NEW s \in Seq(S), NEW p \in S, NEW q \in S
  PROVE  s \o << p, q >> = Append(Append(s, p), q)
<1> DEFINE one == << p >>
           two == << p, q >>
<1>1. one \in Seq(S) /\ << q >> \in Seq(S)
  OBVIOUS
<1>2. Append(one, q) = two
  BY Append1
<1>3. one = << p >>
  OBVIOUS
<1> HIDE DEF one, two
<1>4. Append(one, q) = one \o << q >>
  BY <1>1, AppendIsConcat
<1>5. s \o << p >> = Append(s, p) /\ Append(s, p) \in Seq(S)
  BY AppendIsConcat, AppendProperties
<1>6. s \o one = Append(s, p)
  BY <1>3, <1>5
<1>7. s \o (one \o << q >>) = (s \o one) \o << q >>
  BY <1>1, ConcatAssociative
<1>8. Append(Append(s, p), q) = Append(s, p) \o << q >>
  BY <1>5, AppendIsConcat
<1>9. s \o two = Append(Append(s, p), q)
  BY <1>2, <1>4, <1>6, <1>7, <1>8
<1> QED
  BY <1>9 DEF two

LEMMA JoinTuple ==
  /\ \A p, q : << >> \o << p, q >> = << p, q >>
  /\ \A a, p, q : << a >> \o << p, q >> = << a, p, q >>
  /\ \A a, b, p, q : << a, b >> \o << p, q >> = << a, b, p, q >>
  /\ \A a, b, c, p, q : << a, b, c >> \o << p, q >> = << a, b, c, p, q >>
<1>1. \A p, q : << >> \o << p, q >> = << p, q >>
  OBVIOUS
<1>2. ASSUME NEW a, NEW p, NEW q
      PROVE  << a >> \o << p, q >> = << a, p, q >>
  <2> DEFINE S == {a, p, q}
             s == << a >>
  <2>1. s \in Seq(S) /\ p \in S /\ q \in S
    OBVIOUS
  <2>2. Append(Append(s, p), q) = << a, p, q >>
    <3>1. Append(<< a >>, p) = << a, p >>
      BY Append1
    <3>2. Append(<< a, p >>, q) = << a, p, q >>
      BY Append2
    <3> QED
      BY <3>1, <3>2, Zenon
  <2> HIDE DEF S, s
  <2>3. s \o << p, q >> = Append(Append(s, p), q)
    BY <2>1, JoinPair
  <2> QED
    BY <2>2, <2>3 DEF s
<1>3. ASSUME NEW a, NEW b, NEW p, NEW q
      PROVE  << a, b >> \o << p, q >> = << a, b, p, q >>
  <2> DEFINE S == {a, b, p, q}
             s == << a, b >>
  <2>1. s \in Seq(S) /\ p \in S /\ q \in S
    OBVIOUS
  <2>2. Append(Append(s, p), q) = << a, b, p, q >>
    <3>1. Append(<< a, b >>, p) = << a, b, p >>
      BY Append2
    <3>2. Append(<< a, b, p >>, q) = << a, b, p, q >>
      BY Append3
    <3> QED
      BY <3>1, <3>2, Zenon
  <2> HIDE DEF S, s
  <2>3. s \o << p, q >> = Append(Append(s, p), q)
    BY <2>1, JoinPair
  <2> QED
    BY <2>2, <2>3 DEF s
<1>4. ASSUME NEW a, NEW b, NEW c, NEW p, NEW q
      PROVE  << a, b, c >> \o << p, q >> = << a, b, c, p, q >>
  <2> DEFINE S == {a, b, c, p, q}
             s == << a, b, c >>
  <2>1. s \in Seq(S) /\ p \in S /\ q \in S
    OBVIOUS
  <2>2. Append(Append(s, p), q) = << a, b, c, p, q >>
    <3>1. Append(<< a, b, c >>, p) = << a, b, c, p >>
      BY Append3
    <3>2. Append(<< a, b, c, p >>, q) = << a, b, c, p, q >>
      BY Append4
    <3> QED
      BY <3>1, <3>2, Zenon
  <2> HIDE DEF S, s
  <2>3. s \o << p, q >> = Append(Append(s, p), q)
    BY <2>1, JoinPair
  <2> QED
    BY <2>2, <2>3 DEF s
<1> QED
  BY <1>1, <1>2, <1>3, <1>4
==============================================================================
