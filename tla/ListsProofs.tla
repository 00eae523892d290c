----------------------------- MODULE ListsProofs -----------------------------
(***************************************************************************)
(* The list of a regular expression: its links are those of the heap, and  *)
(* what is done to them is what GroupSequence says of sequences.           *)
(***************************************************************************)
EXTENDS Lists, RegexpProofs, FiniteSetTheorems

\* c is the list that starts at first in the heap h: each link has the next
\* one of c, and the last link has none.
Chain(h, first, c) ==
    /\ c \in Seq(DOMAIN h)
    /\ first = IF Len(c) = 0 THEN NULL ELSE c[1]
    /\ \A k \in 1 .. Len(c) :
          h[c[k]].next = IF k = Len(c) THEN NULL ELSE c[k + 1]

\* No link twice in c, and all of the heap in it.
Covers(h, c) ==
    /\ \A j, k \in 1 .. Len(c) : c[j] = c[k] => j = k
    /\ \A x \in DOMAIN h : \E k \in 1 .. Len(c) : c[k] = x

LinkRecords == [content : GroupRecords, next : Nat]
HeapOK(h) ==
    /\ DOMAIN h \subseteq Links
    /\ h \in [DOMAIN h -> LinkRecords]

-----------------------------------------------------------------------------
(* LinksFrom follows a chain *)

LinksFollow ==
    \A first : \A c \in Seq(DOMAIN heap) :
        DOMAIN heap \subseteq Links /\ Chain(heap, first, c)
          /\ Len(c) <= LinkCount
        => LinksFrom(first) = c

LEMMA LinksFollowChains == LinksFollow
<1> SUFFICES ASSUME NEW first, NEW c \in Seq(DOMAIN heap),
                    DOMAIN heap \subseteq Links, Chain(heap, first, c),
                    Len(c) <= LinkCount
             PROVE  LinksFrom(first) = c
  BY DEF LinksFollow
<1> DEFINE next(link) == IF link \in DOMAIN heap THEN heap[link].next ELSE NULL
           N == 1 .. LinkCount + 1
           Def(n, f) == IF n = 1 THEN first ELSE next(f[n - 1])
           at == CHOOSE f : f = [n \in N |-> Def(n, f)]
           link(n) == IF n <= Len(c) THEN c[n] ELSE NULL
           w == [n \in N |-> link(n)]
<1>0. LinkCount \in Nat /\ Len(c) \in Nat /\ DOMAIN c = 1 .. Len(c)
      /\ \A k \in 1 .. Len(c) : c[k] \in DOMAIN heap /\ c[k] # NULL
  BY LinkCountAssumption, LenProperties, ElementOfSeq DEF Links, NULL
<1>1. ASSUME NEW n \in N PROVE w[n] = Def(n, w)
  <2>1. CASE n = 1
    <3>1. w[n] = IF Len(c) = 0 THEN NULL ELSE c[1]
      BY <2>1, <1>0
    <3>2. first = IF Len(c) = 0 THEN NULL ELSE c[1]
      BY DEF Chain
    <3> QED
      BY <3>1, <3>2, <2>1
  <2>2. CASE n # 1
    <3>1. n - 1 \in N /\ n - 1 # n
      BY <2>2, <1>0
    <3>2. CASE n - 1 <= Len(c)
      <4>1. w[n - 1] = c[n - 1] /\ n - 1 \in 1 .. Len(c)
        BY <3>1, <3>2, <1>0
      <4>2. heap[c[n - 1]].next = IF n - 1 = Len(c) THEN NULL ELSE c[n]
        BY <4>1, <2>2 DEF Chain
      <4>3. next(w[n - 1]) = IF n - 1 = Len(c) THEN NULL ELSE c[n]
        BY <4>1, <4>2, <1>0
      <4> QED
        BY <4>3, <2>2, <3>2, <1>0
    <3>3. CASE ~(n - 1 <= Len(c))
      <4>1. w[n - 1] = NULL /\ w[n] = NULL
        BY <3>1, <3>3, <1>0
      <4>2. NULL \notin DOMAIN heap
        BY DEF Links, NULL
      <4> QED
        BY <4>1, <4>2, <2>2
    <3> QED
      BY <3>2, <3>3
  <2> QED
    BY <2>1, <2>2
<1>2. w = [n \in N |-> Def(n, w)]
  <2> HIDE DEF Def, link
  <2>1. w = [n \in N |-> link(n)]
    OBVIOUS
  <2> HIDE DEF w
  <2>2. \A n \in N : w[n] = link(n)
    BY <2>1
  <2>3. ASSUME NEW n \in N PROVE link(n) = Def(n, w)
    <3>1. w[n] = Def(n, w)
      BY SMTT(20), <1>1
    <3> QED
      BY <2>2, <3>1
  <2> QED
    BY <2>1, <2>3
<1>3. at = [n \in N |-> Def(n, at)]
  <2> DEFINE P(f) == f = [n \in N |-> Def(n, f)]
  <2>1. P(w)
    BY <1>2
  <2> HIDE DEF P
  <2>2. P(CHOOSE f : P(f))
    BY <2>1
  <2> QED
    BY <2>2 DEF P
<1>4. at = w
  <2> HIDE DEF at, w
  <2> DEFINE T == {0} \cup {n \in Nat \ {0} : n \in N => at[n] = w[n]}
  <2>1. \A n \in Nat : n \in T => n + 1 \in T
    <3> SUFFICES ASSUME NEW n \in T, n \in Nat, n + 1 \in N
                 PROVE  at[n + 1] = w[n + 1]
      OBVIOUS
    <3>1. CASE n = 0
      BY <3>1, <1>2, <1>3
    <3>2. CASE n # 0
      <4>1. n \in N /\ at[n] = w[n] /\ (n + 1) - 1 = n /\ n + 1 # 1
        BY <3>2, <1>0
      <4>2. at[n + 1] = Def(n + 1, at) /\ w[n + 1] = Def(n + 1, w)
        BY <1>2, <1>3
      <4> QED
        BY <4>1, <4>2
    <3> QED
      BY <3>1, <3>2
  <2>2. 0 \in T /\ T \subseteq Nat
    OBVIOUS
  <2>3. \A n \in N : n \in T => at[n] = w[n]
    BY <1>0
  <2> HIDE DEF T
  <2>4. T = Nat
    BY <2>1, <2>2, SetInduction
  <2>5. \A n \in N : at[n] = w[n]
    BY <2>3, <2>4, <1>0
  <2> QED
    BY <2>5, <1>2, <1>3
<1>5. LinksFrom(first) = [n \in {k \in N : at[k] # NULL} |-> at[n]]
  BY DEF LinksFrom
<1>6. {k \in N : w[k] # NULL} = 1 .. Len(c)
  BY <1>0
<1>7. LinksFrom(first) = [n \in 1 .. Len(c) |-> c[n]]
  <2> HIDE DEF at
  <2>1. LinksFrom(first) = [n \in 1 .. Len(c) |-> w[n]]
    BY <1>4, <1>5, <1>6
  <2>2. \A n \in 1 .. Len(c) : w[n] = c[n]
    BY <1>0
  <2> HIDE DEF w
  <2> QED
    BY <2>1, <2>2
<1> QED
  BY <1>7, <1>0

-----------------------------------------------------------------------------
(* What the steps do to a chain *)

\* A list that has no link twice is no longer than the heap allows.
LEMMA ChainsAreShort ==
  ASSUME NEW h, DOMAIN h \subseteq Links, NEW c \in Seq(DOMAIN h), Covers(h, c)
  PROVE  Len(c) <= LinkCount
<1>1. Len(c) \in Nat /\ \A k \in 1 .. Len(c) : c[k] \in Links
  BY LenProperties, ElementOfSeq
<1> DEFINE f == [k \in 1 .. Len(c) |-> c[k]]
<1>2. f \in Injection(1 .. Len(c), Links)
  BY <1>1 DEF Covers, Injection, IsInjective
<1>3. IsFiniteSet(1 .. Len(c)) /\ Cardinality(1 .. Len(c)) = Len(c)
  <2>1. PICK n \in Nat : n = Len(c)
    BY <1>1
  <2>2. /\ IsFiniteSet(1 .. n)
        /\ Cardinality(1 .. n) = IF 1 > n THEN 0 ELSE n - 1 + 1
    BY FS_Interval
  <2> QED
    BY <2>1, <2>2
<1>4. IsFiniteSet(Links) /\ Cardinality(Links) = LinkCount
  BY LinkCountAssumption, FS_Interval DEF Links
<1>5. Cardinality(1 .. Len(c)) <= Cardinality(Links)
  BY <1>2, <1>4, FS_Injection
<1> QED
  BY <1>3, <1>4, <1>5

\* The heap after AddLast.
Grown(h, first, c, new, group) ==
    LET linked == IF first = NULL THEN h
                  ELSE [h EXCEPT ![c[Len(c)]].next = new]
    IN  [k \in DOMAIN h \cup {new} |->
            IF k = new THEN [content |-> group, next |-> NULL] ELSE linked[k]]

\* list_add_last: the last link of the list has the new one.
LEMMA AddKeeps ==
  ASSUME NEW h, HeapOK(h), NEW first, NEW c, Chain(h, first, c), Covers(h, c),
         NEW new \in Links \ DOMAIN h, NEW group \in GroupRecords,
         NEW h2, h2 = Grown(h, first, c, new, group)
  PROVE  /\ HeapOK(h2)
         /\ Chain(h2, IF first = NULL THEN new ELSE first, Append(c, new))
         /\ Covers(h2, Append(c, new))
         /\ h2[new].content = group
         /\ \A x \in DOMAIN h : h2[x].content = h[x].content
<1> DEFINE d == Append(c, new)
           n == Len(c)
<1>1. /\ c \in Seq(DOMAIN h) /\ n \in Nat /\ NULL \notin Links
      /\ \A k \in 1 .. n : c[k] \in DOMAIN h /\ c[k] # new /\ c[k] # NULL
  BY LenProperties, ElementOfSeq DEF Chain, HeapOK, Links, NULL
<1>2. (first = NULL) <=> (n = 0)
  BY <1>1 DEF Chain
<1>3. /\ DOMAIN h2 = DOMAIN h \cup {new}
      /\ h2[new] = [content |-> group, next |-> NULL]
      /\ \A x \in DOMAIN h :
            /\ x # new
            /\ h2[x] = IF n # 0 /\ x = c[n] THEN [h[x] EXCEPT !.next = new]
                       ELSE h[x]
  BY <1>1, <1>2 DEF HeapOK, Grown
<1>4. /\ d \in Seq(DOMAIN h2) /\ Len(d) = n + 1 /\ d[n + 1] = new
      /\ \A k \in 1 .. n : d[k] = c[k]
  <2>1. c \in Seq(DOMAIN h2) /\ new \in DOMAIN h2
    BY <1>1, <1>3, SeqMonotonic
  <2> QED
    BY <2>1, AppendProperties
<1>5. HeapOK(h2)
  <2>1. new \in Nat /\ NULL \in Nat
    BY LinkCountAssumption DEF Links, NULL
  <2>2. \A x \in DOMAIN h : h[x] \in LinkRecords
    BY DEF HeapOK
  <2>3. \A x \in DOMAIN h :
           [h[x] EXCEPT !.next = new] \in LinkRecords
    BY <2>1, <2>2 DEF LinkRecords
  <2>4. \A x \in DOMAIN h2 : h2[x] \in LinkRecords
    <3>1. [content |-> group, next |-> NULL] \in LinkRecords
      BY <2>1 DEF LinkRecords
    <3> QED
      BY <1>3, <2>2, <2>3, <3>1
  <2>5. h2 = [x \in DOMAIN h2 |-> h2[x]]
    BY DEF Grown
  <2> QED
    BY <1>3, <2>4, <2>5 DEF HeapOK
<1>6. Chain(h2, IF first = NULL THEN new ELSE first, d)
  <2>1. ASSUME NEW k \in 1 .. n + 1
        PROVE  h2[d[k]].next = IF k = n + 1 THEN NULL ELSE d[k + 1]
    <3>1. CASE k = n + 1
      BY <3>1, <1>3, <1>4
    <3>2. CASE k # n + 1 /\ k = n
      <4>1. h2[c[n]] = [h[c[n]] EXCEPT !.next = new]
        BY <3>2, <1>1, <1>3
      <4>2. h[c[n]] \in LinkRecords
        BY <3>2, <1>1 DEF HeapOK
      <4>3. h2[c[n]].next = new
        BY <4>1, <4>2
      <4> QED
        BY <4>3, <3>2, <1>1, <1>4
    <3>3. CASE k # n + 1 /\ k # n
      <4>1. k \in 1 .. n /\ k + 1 \in 1 .. n /\ n \in 1 .. n
        BY <3>3, <1>1
      <4>2. c[k] # c[n]
        BY <4>1, <3>3 DEF Covers
      <4>3. h2[c[k]] = h[c[k]]
        BY <4>1, <4>2, <1>1, <1>3
      <4>4. h[c[k]].next = c[k + 1]
        BY <4>1, <3>3 DEF Chain
      <4> QED
        BY <4>1, <4>3, <4>4, <3>3, <1>4
    <3> QED
      BY <3>1, <3>2, <3>3
  <2>2. (IF first = NULL THEN new ELSE first) = d[1]
    <3>1. n # 0 => first = c[1]
      BY DEF Chain
    <3> QED
      BY <3>1, <1>1, <1>2, <1>4
  <2>3. n + 1 # 0
    BY <1>1
  <2> HIDE DEF d, n
  <2> QED
    BY <1>4, <2>1, <2>2, <2>3 DEF Chain
<1>7. Covers(h2, d)
  <2>1. ASSUME NEW j \in 1 .. n + 1, NEW k \in 1 .. n + 1, d[j] = d[k]
        PROVE  j = k
    <3>1. \A m \in 1 .. n + 1 : m # n + 1 => m \in 1 .. n
      BY <1>1
    <3>2. \A m \in 1 .. n + 1 : m # n + 1 => d[m] # new
      BY <3>1, <1>1, <1>4
    <3>3. j # n + 1 /\ k # n + 1 => c[j] = c[k]
      BY <2>1, <3>1, <1>4
    <3> QED
      BY <2>1, <3>1, <3>2, <3>3, <1>4 DEF Covers
  <2>2. ASSUME NEW x \in DOMAIN h2 PROVE \E k \in 1 .. n + 1 : d[k] = x
    <3>1. CASE x = new
      BY <3>1, <1>1, <1>4
    <3>2. CASE x # new
      <4>1. PICK k \in 1 .. n : c[k] = x
        BY <3>2, <1>3 DEF Covers
      <4>2. k \in 1 .. n + 1
        BY <1>1
      <4> QED
        BY <4>1, <4>2, <1>4
    <3> QED
      BY <3>1, <3>2
  <2> HIDE DEF d, n
  <2> QED
    BY <2>1, <2>2, <1>4 DEF Covers
<1>8. \A x \in DOMAIN h : h2[x].content = h[x].content
  BY <1>3 DEF HeapOK, LinkRecords
<1>9. h2[new].content = group
  BY <1>3
<1> QED
  BY <1>5, <1>6, <1>7, <1>8, <1>9

\* The links of c but that at place i + 1.
Without(c, i) == [k \in 1 .. Len(c) - 1 |-> IF k <= i THEN c[k] ELSE c[k + 1]]

\* The heaps after DropSecond and after Exchange.
Dropped(h, kept, dropped, operator) ==
    [[k \in DOMAIN h \ {dropped} |-> h[k]]
        EXCEPT ![kept].content.operator = operator,
               ![kept].next = h[dropped].next]
Exchanged(h, before, after, one, other) ==
    [h EXCEPT ![before].content.operator = one,
              ![after].content.operator = other]

Relabel(link, operator) == [link EXCEPT !.content.operator = operator]
Relink(link, next) == [link EXCEPT !.next = next]

LEMMA Relabelled ==
  ASSUME NEW link \in LinkRecords, NEW operator \in Operators,
         NEW next \in Nat
  PROVE  /\ Relabel(link, operator) \in LinkRecords
         /\ Relabel(link, operator).next = link.next
         /\ Relabel(link, operator).content
              = Group(link.content.chars, operator)
         /\ Relink(link, next) \in LinkRecords
         /\ Relink(link, next).next = next
         /\ Relink(link, next).content = link.content
<1>1. PICK chars \in SUBSET Chars, before \in Operators, n \in Nat :
        link = [content |-> [chars |-> chars, operator |-> before], next |-> n]
  BY DEF LinkRecords, GroupRecords
<1>2. Relabel(link, operator)
        = [content |-> [chars |-> chars, operator |-> operator], next |-> n]
  BY <1>1 DEF Relabel
<1>3. Relink(link, next)
        = [content |-> [chars |-> chars, operator |-> before], next |-> next]
  BY <1>1 DEF Relink
<1>4. /\ [chars |-> chars, operator |-> operator] \in GroupRecords
      /\ [chars |-> chars, operator |-> before] \in GroupRecords
  BY DEF GroupRecords
<1> QED
  BY <1>1, <1>2, <1>3, <1>4 DEF LinkRecords, Group

\* opti_regexp frees the link after the i-th, which takes over its next.
LEMMA DropKeeps ==
  ASSUME NEW h, HeapOK(h), NEW first, NEW c, Chain(h, first, c), Covers(h, c),
         NEW i \in 1 .. Len(c), i + 1 <= Len(c), NEW operator \in Operators,
         NEW h2,
         h2 = Dropped(h, c[i], c[i + 1], operator)
  PROVE  /\ HeapOK(h2)
         /\ Chain(h2, first, Without(c, i))
         /\ Covers(h2, Without(c, i))
         /\ Len(Without(c, i)) = Len(c) - 1
         /\ \A k \in 1 .. Len(c) - 1 :
               Without(c, i)[k] = IF k <= i THEN c[k] ELSE c[k + 1]
         /\ h2[c[i]].next = h[c[i + 1]].next
         /\ h2[c[i]].content = Group(h[c[i]].content.chars, operator)
         /\ \A k \in 1 .. Len(c) : k \notin {i, i + 1} => h2[c[k]] = h[c[k]]
<1> DEFINE d == Without(c, i)
           n == Len(c)
<1>1. /\ c \in Seq(DOMAIN h) /\ n \in Nat /\ i \in Nat /\ i # 0
      /\ \A k \in 1 .. n : c[k] \in DOMAIN h
      /\ i + 1 \in 1 .. n
  BY LenProperties, ElementOfSeq DEF Chain
<1>2. c[i] # c[i + 1]
  <2>1. \A j, k \in 1 .. n : c[j] = c[k] => j = k
    BY DEF Covers
  <2>2. PICK k \in 1 .. n : k = i + 1 /\ k # i
    BY <1>1
  <2>3. c[i] # c[k]
    BY <2>1, <2>2
  <2> QED
    BY <2>2, <2>3
<1>3. /\ h[c[i]] \in LinkRecords /\ h[c[i + 1]] \in LinkRecords
      /\ h[c[i + 1]].next \in Nat
  BY <1>1 DEF HeapOK, LinkRecords
<1>4. /\ DOMAIN h2 = DOMAIN h \ {c[i + 1]}
      /\ \A x \in DOMAIN h \ {c[i], c[i + 1]} : h2[x] = h[x]
  BY <1>1, <1>2 DEF Dropped
<1>5. h2[c[i]] = Relink(Relabel(h[c[i]], operator), h[c[i + 1]].next)
  BY <1>1, <1>2 DEF Dropped, Relink, Relabel
<1>6. /\ h2[c[i]] \in LinkRecords
      /\ h2[c[i]].next = h[c[i + 1]].next
      /\ h2[c[i]].content = Group(h[c[i]].content.chars, operator)
  <2> DEFINE same == Relabel(h[c[i]], operator)
  <2>1. /\ same \in LinkRecords
        /\ same.content = Group(h[c[i]].content.chars, operator)
    BY <1>3, Relabelled
  <2> HIDE DEF same
  <2>2. /\ Relink(same, h[c[i + 1]].next) \in LinkRecords
        /\ Relink(same, h[c[i + 1]].next).next = h[c[i + 1]].next
        /\ Relink(same, h[c[i + 1]].next).content = same.content
    BY <2>1, <1>3, Relabelled
  <2>3. h2[c[i]] = Relink(same, h[c[i + 1]].next)
    BY <1>5 DEF same
  <2> QED
    BY <2>1, <2>2, <2>3
<1>7. HeapOK(h2)
  <2>1. \A x \in DOMAIN h : h[x] \in LinkRecords
    BY DEF HeapOK
  <2>2. \A x \in DOMAIN h2 : h2[x] \in LinkRecords
    BY SMTT(20), <2>1, <1>4, <1>6
  <2>3. h2 = [x \in DOMAIN h2 |-> h2[x]]
    BY DEF Dropped
  <2> QED
    BY <1>4, <2>2, <2>3 DEF HeapOK, LinkRecords
<1>8. \A k \in 1 .. n : k \notin {i, i + 1} => h2[c[k]] = h[c[k]]
  BY <1>1, <1>4 DEF Covers
<1>9. /\ d \in Seq(DOMAIN h2) /\ Len(d) = n - 1 /\ n - 1 \in Nat \ {0}
      /\ \A k \in 1 .. n - 1 :
            d[k] = IF k <= i THEN c[k] ELSE c[k + 1]
  <2>1. ASSUME NEW k \in 1 .. n - 1
        PROVE  (IF k <= i THEN c[k] ELSE c[k + 1]) \in DOMAIN h2
    <3> DEFINE m == IF k <= i THEN k ELSE k + 1
    <3>1. m \in 1 .. n /\ m # i + 1
      BY <1>1
    <3>2. c[m] \in DOMAIN h /\ c[m] # c[i + 1]
      BY <3>1, <1>1 DEF Covers
    <3> QED
      BY <3>2, <1>4
  <2>2. n - 1 \in Nat \ {0}
    BY <1>1
  <2>3. d = [k \in 1 .. n - 1 |-> IF k <= i THEN c[k] ELSE c[k + 1]]
    BY DEF Without
  <2>4. d \in Seq(DOMAIN h2)
    BY <2>1, <2>2, <2>3
  <2> HIDE DEF d
  <2> QED
    BY <2>2, <2>3, <2>4, LenProperties
<1>10. Chain(h2, first, d)
  <2>1. ASSUME NEW k \in 1 .. n - 1
        PROVE  h2[d[k]].next = IF k = n - 1 THEN NULL ELSE d[k + 1]
    <3>1. CASE k < i
      <4>1. k \in 1 .. n /\ k \notin {i, i + 1} /\ k # n /\ k # n - 1
              /\ k + 1 <= i /\ k + 1 \in 1 .. n - 1 /\ k <= i
        BY <3>1, <1>1
      <4>2. h[c[k]].next = c[k + 1]
        BY <4>1 DEF Chain
      <4> QED
        BY <4>1, <4>2, <1>8, <1>9
    <3>2. CASE k = i
      <4>1. h[c[i + 1]].next = IF i + 1 = n THEN NULL ELSE c[(i + 1) + 1]
        BY <1>1 DEF Chain
      <4>2. d[k] = c[i] /\ (i + 1 = n <=> k = n - 1)
        BY <3>2, <1>1, <1>9
      <4>3. k # n - 1 => d[k + 1] = c[(i + 1) + 1]
        BY <3>2, <1>1, <1>9
      <4> QED
        BY <4>1, <4>2, <4>3, <1>6
    <3>3. CASE k > i
      <4>1. /\ k + 1 \in 1 .. n /\ k + 1 \notin {i, i + 1} /\ ~(k <= i)
            /\ (k = n - 1 <=> k + 1 = n)
            /\ k # n - 1 => k + 1 \in 1 .. n - 1 /\ ~(k + 1 <= i)
        BY <3>3, <1>1
      <4>2. h[c[k + 1]].next = IF k + 1 = n THEN NULL ELSE c[(k + 1) + 1]
        BY <4>1 DEF Chain
      <4>3. d[k] = c[k + 1] /\ h2[c[k + 1]] = h[c[k + 1]]
        BY <4>1, <1>8, <1>9
      <4>4. k # n - 1 => d[k + 1] = c[(k + 1) + 1]
        BY <4>1, <1>9
      <4> QED
        BY <4>1, <4>2, <4>3, <4>4
    <3> QED
      BY <3>1, <3>2, <3>3, <1>1
  <2>2. first = d[1]
    <3>1. n # 0 /\ 1 <= i /\ 1 \in 1 .. n - 1
      BY <1>1, <1>9
    <3>2. first = c[1]
      BY <3>1 DEF Chain
    <3> QED
      BY <3>1, <3>2, <1>9
  <2>3. n - 1 # 0
    BY <1>9
  <2> HIDE DEF d
  <2> QED
    BY <1>9, <2>1, <2>2, <2>3 DEF Chain
<1>11. Covers(h2, d)
  <2> DEFINE at(k) == IF k <= i THEN k ELSE k + 1
  <2>1. \A k \in 1 .. n - 1 : at(k) \in 1 .. n /\ d[k] = c[at(k)]
    BY <1>1, <1>9
  <2>2. \A j, k \in 1 .. n - 1 : at(j) = at(k) => j = k
    BY <1>1
  <2>3. \A m \in 1 .. n : m # i + 1 => \E k \in 1 .. n - 1 : at(k) = m
    <3> SUFFICES ASSUME NEW m \in 1 .. n, m # i + 1
                 PROVE  \E k \in 1 .. n - 1 : at(k) = m
      OBVIOUS
    <3>1. CASE m <= i
      BY <3>1, <1>1
    <3>2. CASE m > i
      <4>1. PICK k \in 1 .. n - 1 : k = m - 1 /\ at(k) = m
        BY <3>2, <1>1
      <4> HIDE DEF at
      <4> QED
        BY <4>1
    <3>3. m \in Int /\ i \in Int
      BY <1>1
    <3> HIDE DEF at
    <3> QED
      BY <3>1, <3>2, <3>3
  <2> HIDE DEF at, d
  <2>4. ASSUME NEW j \in 1 .. n - 1, NEW k \in 1 .. n - 1, d[j] = d[k]
        PROVE  j = k
    <3>1. at(j) \in 1 .. n /\ at(k) \in 1 .. n /\ c[at(j)] = c[at(k)]
      BY <2>1, <2>4
    <3>2. at(j) = at(k)
      BY <3>1 DEF Covers
    <3> QED
      BY <3>2, <2>2
  <2>5. \A x \in DOMAIN h2 : \E k \in 1 .. n - 1 : d[k] = x
    <3> SUFFICES ASSUME NEW x \in DOMAIN h2
                 PROVE  \E k \in 1 .. n - 1 : d[k] = x
      OBVIOUS
    <3>1. PICK m \in 1 .. n : c[m] = x
      BY <1>4 DEF Covers
    <3>2. m # i + 1
      BY <3>1, <1>4
    <3> QED
      BY <2>1, <2>3, <3>1, <3>2
  <2> QED
    BY <1>9, <2>4, <2>5 DEF Covers
<1> QED
  BY <1>6, <1>7, <1>8, <1>9, <1>10, <1>11

\* A change of operators leaves the links as they are.
LEMMA ExchangeKeeps ==
  ASSUME NEW h, HeapOK(h), NEW first, NEW c, Chain(h, first, c), Covers(h, c),
         NEW i \in 1 .. Len(c), i + 1 <= Len(c),
         NEW one \in Operators, NEW other \in Operators,
         NEW h2, h2 = Exchanged(h, c[i], c[i + 1], one, other)
  PROVE  /\ HeapOK(h2)
         /\ Chain(h2, first, c)
         /\ Covers(h2, c)
         /\ \A x \in DOMAIN h : h2[x].next = h[x].next
         /\ h2[c[i]].content = Group(h[c[i]].content.chars, one)
         /\ h2[c[i + 1]].content = Group(h[c[i + 1]].content.chars, other)
         /\ \A k \in 1 .. Len(c) : k \notin {i, i + 1} => h2[c[k]] = h[c[k]]
<1> DEFINE n == Len(c)
<1>1. /\ c \in Seq(DOMAIN h) /\ n \in Nat /\ i \in Nat /\ i # 0
      /\ \A k \in 1 .. n : c[k] \in DOMAIN h
      /\ i + 1 \in 1 .. n
  BY LenProperties, ElementOfSeq DEF Chain
<1>2. c[i] # c[i + 1]
  <2>1. \A j, k \in 1 .. n : c[j] = c[k] => j = k
    BY DEF Covers
  <2>2. PICK k \in 1 .. n : k = i + 1 /\ k # i
    BY <1>1
  <2>3. c[i] # c[k]
    BY <2>1, <2>2
  <2> QED
    BY <2>2, <2>3
<1>3. \A x \in DOMAIN h : h[x] \in LinkRecords
  BY DEF HeapOK
<1>4. /\ DOMAIN h2 = DOMAIN h
      /\ h2[c[i]] = Relabel(h[c[i]], one)
      /\ h2[c[i + 1]] = Relabel(h[c[i + 1]], other)
      /\ \A x \in DOMAIN h \ {c[i], c[i + 1]} : h2[x] = h[x]
  BY <1>1, <1>2 DEF Exchanged, Relabel
<1>6. /\ h2[c[i]] \in LinkRecords /\ h2[c[i]].next = h[c[i]].next
      /\ h2[c[i]].content = Group(h[c[i]].content.chars, one)
      /\ h2[c[i + 1]] \in LinkRecords
      /\ h2[c[i + 1]].next = h[c[i + 1]].next
      /\ h2[c[i + 1]].content = Group(h[c[i + 1]].content.chars, other)
  <2>1. 0 \in Nat /\ h[c[i]] \in LinkRecords /\ h[c[i + 1]] \in LinkRecords
    BY <1>1, <1>3
  <2>2. /\ Relabel(h[c[i]], one) \in LinkRecords
        /\ Relabel(h[c[i]], one).next = h[c[i]].next
        /\ Relabel(h[c[i]], one).content = Group(h[c[i]].content.chars, one)
    BY <2>1, Relabelled
  <2>3. /\ Relabel(h[c[i + 1]], other) \in LinkRecords
        /\ Relabel(h[c[i + 1]], other).next = h[c[i + 1]].next
        /\ Relabel(h[c[i + 1]], other).content
             = Group(h[c[i + 1]].content.chars, other)
    BY <2>1, Relabelled
  <2> QED
    BY <2>2, <2>3, <1>4
<1>5. \A x \in DOMAIN h : h2[x] \in LinkRecords /\ h2[x].next = h[x].next
  BY <1>3, <1>4, <1>6
<1>7. HeapOK(h2)
  <2>1. h2 = [x \in DOMAIN h2 |-> h2[x]]
    BY DEF Exchanged
  <2> QED
    BY <1>4, <1>5, <2>1 DEF HeapOK, LinkRecords
<1>8. \A k \in 1 .. n : k \notin {i, i + 1} => h2[c[k]] = h[c[k]]
  BY <1>1, <1>4 DEF Covers
<1>9. Chain(h2, first, c)
  BY <1>1, <1>4, <1>5 DEF Chain
<1>10. Covers(h2, c)
  BY <1>4 DEF Covers
<1> QED
  BY <1>5, <1>6, <1>7, <1>8, <1>9, <1>10

\* list_del_first: the second link is the first of what is left.
LEMMA DeleteKeeps ==
  ASSUME NEW h, HeapOK(h), NEW first, NEW c, Chain(h, first, c), Covers(h, c),
         first # NULL,
         NEW h2, h2 = [k \in DOMAIN h \ {first} |-> h[k]]
  PROVE  /\ first \in DOMAIN h
         /\ HeapOK(h2)
         /\ Chain(h2, h[first].next, Tail(c))
         /\ Covers(h2, Tail(c))
<1> DEFINE d == Tail(c)
           n == Len(c)
<1>1. /\ c \in Seq(DOMAIN h) /\ n \in Nat
      /\ \A k \in 1 .. n : c[k] \in DOMAIN h
  BY LenProperties, ElementOfSeq DEF Chain
<1>2. n # 0 /\ first = c[1] /\ 1 \in 1 .. n
  BY <1>1 DEF Chain
<1>3. /\ d \in Seq(DOMAIN h) /\ Len(d) = n - 1 /\ n - 1 \in Nat
      /\ \A k \in 1 .. n - 1 : d[k] = c[k + 1]
  <2>1. c # << >>
    BY <1>2
  <2> QED
    BY <1>1, <1>2, <2>1, HeadTailProperties
<1> HIDE DEF d
<1>4. DOMAIN h2 = DOMAIN h \ {first} /\ \A x \in DOMAIN h2 : h2[x] = h[x]
  OBVIOUS
<1>5. \A k \in 1 .. n - 1 : k + 1 \in 1 .. n /\ c[k + 1] # first
  <2> SUFFICES ASSUME NEW k \in 1 .. n - 1
               PROVE  k + 1 \in 1 .. n /\ c[k + 1] # first
    OBVIOUS
  <2>1. k + 1 \in 1 .. n /\ k + 1 # 1
    BY <1>1
  <2> QED
    BY <2>1, <1>2 DEF Covers
<1>6. d \in Seq(DOMAIN h2)
  <2>1. \A k \in 1 .. n - 1 : d[k] \in DOMAIN h2
    BY <1>1, <1>3, <1>4, <1>5
  <2>2. d = [k \in 1 .. n - 1 |-> d[k]]
    BY <1>3, LenProperties
  <2> QED
    BY <2>1, <2>2, <1>3
<1>7. HeapOK(h2)
  BY <1>4 DEF HeapOK
<1>8. Chain(h2, h[first].next, d)
  <2>1. ASSUME NEW k \in 1 .. n - 1
        PROVE  h2[d[k]].next = IF k = n - 1 THEN NULL ELSE d[k + 1]
    <3>1. k + 1 \in 1 .. n /\ (k = n - 1 <=> k + 1 = n)
          /\ (k # n - 1 => k + 1 \in 1 .. n - 1)
      BY <1>1
    <3>2. h[c[k + 1]].next = IF k + 1 = n THEN NULL ELSE c[(k + 1) + 1]
      BY <3>1 DEF Chain
    <3>3. h2[d[k]] = h[c[k + 1]]
      BY <3>1, <1>1, <1>3, <1>4, <1>5
    <3> QED
      BY <3>1, <3>2, <3>3, <1>3
  <2>2. h[first].next = IF n - 1 = 0 THEN NULL ELSE d[1]
    <3>1. h[c[1]].next = IF 1 = n THEN NULL ELSE c[1 + 1]
      BY <1>2 DEF Chain
    <3>2. n - 1 # 0 => 1 \in 1 .. n - 1
      BY <1>3
    <3> QED
      BY <3>1, <3>2, <1>1, <1>2, <1>3
  <2> QED
    BY <1>3, <1>6, <2>1, <2>2 DEF Chain
<1>9. Covers(h2, d)
  <2>1. ASSUME NEW j \in 1 .. n - 1, NEW k \in 1 .. n - 1, d[j] = d[k]
        PROVE  j = k
    <3>1. c[j + 1] = c[k + 1] /\ j + 1 \in 1 .. n /\ k + 1 \in 1 .. n
      BY <2>1, <1>3, <1>5
    <3>2. j + 1 = k + 1
      BY <3>1 DEF Covers
    <3> QED
      BY <3>2
  <2>2. ASSUME NEW x \in DOMAIN h2 PROVE \E k \in 1 .. n - 1 : d[k] = x
    <3>1. PICK m \in 1 .. n : c[m] = x
      BY <1>4 DEF Covers
    <3>2. m # 1
      BY <3>1, <1>2, <1>4
    <3>3. m - 1 \in 1 .. n - 1 /\ (m - 1) + 1 = m
      BY <3>2, <1>1
    <3> QED
      BY <3>1, <3>3, <1>3
  <2> QED
    BY <2>1, <2>2, <1>3 DEF Covers
<1> QED
  BY <1>1, <1>2, <1>7, <1>8, <1>9 DEF d

-----------------------------------------------------------------------------
(* What the list shows of a chain *)

\* The groups of the links m + 1 to n of c.
Shown(h, c, m, n) == [k \in 1 .. n - m |-> h[c[m + k]].content]

\* What comes after the i-th link of a chain is a chain.
LEMMA ChainsEnd ==
  ASSUME NEW h, NEW first, NEW c, Chain(h, first, c), NEW i \in 1 .. Len(c)
  PROVE  /\ Chain(h, h[c[i]].next, SubSeq(c, i + 1, Len(c)))
         /\ Len(SubSeq(c, i + 1, Len(c))) = Len(c) - i
         /\ \A k \in 1 .. Len(c) - i : SubSeq(c, i + 1, Len(c))[k] = c[i + k]
<1> DEFINE d == SubSeq(c, i + 1, Len(c))
           n == Len(c)
<1>1. /\ n \in Nat /\ i \in Nat /\ i <= n /\ i + 1 \in Int
      /\ \A k \in i + 1 .. n : c[k] \in DOMAIN h
  BY LenProperties, ElementOfSeq DEF Chain
<1>2. d \in Seq(DOMAIN h)
  BY <1>1, SubSeqProperties
<1>3. Len(d) = IF i + 1 <= n THEN n - (i + 1) + 1 ELSE 0
  BY <1>1, SubSeqProperties
<1>4. \A k \in 1 .. n - (i + 1) + 1 : d[k] = c[i + 1 + k - 1]
  BY <1>1, SubSeqProperties
<1>5. Len(d) = n - i /\ n - i \in Nat
  BY <1>1, <1>3
<1>6. \A k \in 1 .. n - i : d[k] = c[i + k]
  <2> HIDE DEF d
  <2> SUFFICES ASSUME NEW k \in 1 .. n - i PROVE d[k] = c[i + k]
    OBVIOUS
  <2>1. k \in 1 .. n - (i + 1) + 1 /\ i + 1 + k - 1 = i + k
    BY <1>1
  <2> QED
    BY <2>1, <1>4
<1>7. \A k \in 1 .. n : h[c[k]].next = IF k = n THEN NULL ELSE c[k + 1]
  BY DEF Chain
<1> HIDE DEF d
<1>8. h[c[i]].next = IF n - i = 0 THEN NULL ELSE d[1]
  BY <1>1, <1>5, <1>6, <1>7
<1>9. ASSUME NEW k \in 1 .. n - i
      PROVE  h[d[k]].next = IF k = n - i THEN NULL ELSE d[k + 1]
  <2>1. /\ i + k \in 1 .. n /\ (k = n - i <=> i + k = n)
        /\ k # n - i => k + 1 \in 1 .. n - i
        /\ (i + k) + 1 = i + (k + 1)
    BY <1>1
  <2>2. h[c[i + k]].next = IF i + k = n THEN NULL ELSE c[(i + k) + 1]
    BY <2>1, <1>7
  <2> QED
    BY <2>1, <2>2, <1>6
<1>10. Chain(h, h[c[i]].next, d)
  BY <1>2, <1>5, <1>8, <1>9 DEF Chain
<1> QED
  BY <1>5, <1>6, <1>10 DEF d

First == IF phase \in {"list_delete", "regexp_free"} THEN l ELSE groups

\* c is the list, and the list is the heap.
Listed(c) == Chain(heap, First, c) /\ Covers(heap, c)

Views ==
    \A c \in Seq(DOMAIN heap) : HeapOK(heap) /\ Listed(c) =>
        /\ phase = "regexp_new" =>
              merged = << >> /\ rest = Shown(heap, c, 0, Len(c))
        /\ \A i \in 1 .. Len(c) :
              /\ phase \in {"opti_regexp", "in_use"} /\ groups # NULL
              /\ p = c[i] /\ l = heap[p].next
              => /\ merged = Shown(heap, c, 0, i)
                 /\ phase = "opti_regexp" => rest = Shown(heap, c, i, Len(c))
        /\ groups = NULL /\ l = NULL => merged = << >> /\ rest = << >>
        /\ phase = "in_use" => rest = << >>
        /\ phase \in {"list_delete", "regexp_free"} =>
              merged = << >> /\ rest = << >>

LEMMA ViewsShow == Views
<1> SUFFICES ASSUME NEW c \in Seq(DOMAIN heap), HeapOK(heap), Listed(c)
             PROVE
        /\ phase = "regexp_new" =>
              merged = << >> /\ rest = Shown(heap, c, 0, Len(c))
        /\ \A i \in 1 .. Len(c) :
              /\ phase \in {"opti_regexp", "in_use"} /\ groups # NULL
              /\ p = c[i] /\ l = heap[p].next
              => /\ merged = Shown(heap, c, 0, i)
                 /\ phase = "opti_regexp" => rest = Shown(heap, c, i, Len(c))
        /\ groups = NULL /\ l = NULL => merged = << >> /\ rest = << >>
        /\ phase = "in_use" => rest = << >>
        /\ phase \in {"list_delete", "regexp_free"} =>
              merged = << >> /\ rest = << >>
  BY DEF Views
<1> DEFINE n == Len(c)
<1>1. /\ n \in Nat /\ DOMAIN c = 1 .. n /\ DOMAIN heap \subseteq Links
      /\ n <= LinkCount /\ LinkCount \in Nat
      /\ c \in [1 .. n -> DOMAIN heap]
  BY LenProperties, ChainsAreShort, LinkCountAssumption DEF Listed, HeapOK
<1>2. Chain(heap, First, c) /\ Covers(heap, c)
  BY DEF Listed
<1>3. LinksFrom(First) = c
  BY <1>1, <1>2, LinksFollowChains DEF LinksFollow
<1>4. LinksFrom(NULL) = << >> /\ Contents(<< >>) = << >>
  <2> DEFINE none == << >>
  <2>1. none \in Seq(DOMAIN heap) /\ Len(none) = 0
    OBVIOUS
  <2> HIDE DEF none
  <2>2. Chain(heap, NULL, none) /\ Len(none) <= LinkCount
    BY <2>1, <1>1 DEF Chain
  <2>3. LinksFrom(NULL) = none
    BY <1>1, <2>1, <2>2, LinksFollowChains DEF LinksFollow
  <2>4. Contents(<< >>) = << >>
    BY DEF Contents
  <2> QED
    BY <2>3, <2>4 DEF none
<1>5. CASE phase = "regexp_new"
  <2>1. merged = << >> /\ rest = Contents(c)
    BY <1>3, <1>5 DEF merged, rest, First
  <2>2. Contents(c) = Shown(heap, c, 0, n)
    <3>1. 1 .. n - 0 = 1 .. n /\ \A k \in 1 .. n : 0 + k = k
      BY <1>1
    <3> QED
      BY <3>1, <1>1 DEF Contents, Shown
  <2>3. groups = NULL => rest = << >>
    BY <1>4, <1>5 DEF rest
  <2> QED
    BY <2>1, <2>2, <2>3, <1>5
<1>6. ASSUME phase \in {"opti_regexp", "in_use"}, groups # NULL,
             NEW i \in 1 .. n, p = c[i], l = heap[p].next
      PROVE  /\ merged = Shown(heap, c, 0, i)
             /\ phase = "opti_regexp" => rest = Shown(heap, c, i, n)
  <2>1. LinksFrom(groups) = c
    BY <1>3, <1>6 DEF First
  <2>2. \A k \in DOMAIN c : c[k] = p <=> k = i
    BY <1>1, <1>2, <1>6 DEF Covers
  <2>3. (CHOOSE k \in DOMAIN c : c[k] = p) = i
    BY <2>2, <1>1
  <2>4. UpToP = SubSeq(c, 1, i)
    BY <2>1, <2>3 DEF UpToP
  <2>5. /\ i \in Int /\ 1 <= i /\ i - 1 + 1 = i
        /\ \A k \in 1 .. i : c[k] \in DOMAIN heap
    BY <1>1
  <2>6. /\ SubSeq(c, 1, i) \in Seq(DOMAIN heap)
        /\ Len(SubSeq(c, 1, i)) = i
        /\ \A k \in 1 .. i : SubSeq(c, 1, i)[k] = c[1 + k - 1]
    BY <2>5, SubSeqProperties
  <2>7. Contents(UpToP) = Shown(heap, c, 0, i)
    <3> DEFINE d == SubSeq(c, 1, i)
    <3>1. DOMAIN d = 1 .. i
      BY <2>6, LenProperties
    <3>2. 1 .. i - 0 = 1 .. i /\ \A k \in 1 .. i : d[k] = c[0 + k]
      BY <2>5, <2>6
    <3> HIDE DEF d
    <3>3. Contents(d) = Shown(heap, c, 0, i)
      BY <3>1, <3>2 DEF Contents, Shown
    <3> QED
      BY <3>3, <2>4 DEF d
  <2>8. merged = Shown(heap, c, 0, i)
    BY <2>7, <1>6 DEF merged
  <2>9. ASSUME phase = "opti_regexp" PROVE rest = Shown(heap, c, i, n)
    <3> DEFINE d == SubSeq(c, i + 1, n)
    <3>1. /\ Chain(heap, l, d) /\ Len(d) = n - i
          /\ \A k \in 1 .. n - i : d[k] = c[i + k]
      BY <1>2, <1>6, ChainsEnd
    <3> HIDE DEF d
    <3>2. d \in Seq(DOMAIN heap) /\ Len(d) <= LinkCount /\ n - i \in Nat
      BY <3>1, <1>1 DEF Chain
    <3>3. LinksFrom(l) = d
      BY <3>1, <3>2, <1>1, LinksFollowChains DEF LinksFollow
    <3>4. DOMAIN d = 1 .. n - i
      BY <3>1, <3>2, LenProperties
    <3>5. Contents(d) = Shown(heap, c, i, n)
      BY <3>1, <3>4 DEF Contents, Shown
    <3>6. rest = Contents(LinksFrom(l))
      BY <2>9 DEF rest
    <3> QED
      BY <3>3, <3>5, <3>6
  <2> QED
    BY <2>8, <2>9
<1>7. groups = NULL /\ l = NULL => merged = << >> /\ rest = << >>
  BY <1>4 DEF merged, rest
<1>8. phase = "in_use" => rest = << >>
  BY DEF rest
<1>9. phase \in {"list_delete", "regexp_free"} => merged = << >> /\ rest = << >>
  BY DEF merged, rest
<1> QED
  BY <1>5, <1>6, <1>7, <1>8, <1>9

\* The first group shown, and the others.
LEMMA ShownRest ==
  ASSUME NEW h, HeapOK(h), NEW c \in Seq(DOMAIN h),
         NEW m \in 0 .. Len(c), m < Len(c)
  PROVE  /\ Shown(h, c, m, Len(c)) # << >>
         /\ Head(Shown(h, c, m, Len(c))) = h[c[m + 1]].content
         /\ Tail(Shown(h, c, m, Len(c))) = Shown(h, c, m + 1, Len(c))
<1> DEFINE n == Len(c)
           s == Shown(h, c, m, n)
           t == Shown(h, c, m + 1, n)
<1>1. /\ n \in Nat /\ m \in Nat /\ n - m \in Nat /\ n - (m + 1) \in Nat
      /\ \A k \in 1 .. n : c[k] \in DOMAIN h
  BY LenProperties, ElementOfSeq
<1>2. \A x \in DOMAIN h : h[x].content \in GroupRecords
  BY DEF HeapOK, LinkRecords
<1>3. /\ s \in Seq(GroupRecords) /\ Len(s) = n - m
      /\ \A k \in 1 .. n - m : s[k] = h[c[m + k]].content
  <2>1. \A k \in 1 .. n - m : h[c[m + k]].content \in GroupRecords
    BY <1>1, <1>2
  <2> QED
    BY SMTT(20), <1>1, <2>1 DEF Shown
<1>4. /\ t \in Seq(GroupRecords) /\ Len(t) = n - (m + 1)
      /\ \A k \in 1 .. n - (m + 1) : t[k] = h[c[(m + 1) + k]].content
  <2>1. \A k \in 1 .. n - (m + 1) : h[c[(m + 1) + k]].content \in GroupRecords
    BY <1>1, <1>2
  <2> QED
    BY <1>1, <2>1 DEF Shown
<1> HIDE DEF s, t
<1>5. s # << >> /\ Head(s) = h[c[m + 1]].content
  <2>1. n - m # 0 /\ 1 \in 1 .. n - m
    BY <1>1
  <2> QED
    BY <1>3, <2>1
<1>6. Tail(s) = t
  <2>1. /\ Tail(s) \in Seq(GroupRecords) /\ Len(Tail(s)) = Len(s) - 1
        /\ \A k \in 1 .. Len(Tail(s)) : Tail(s)[k] = s[k + 1]
    BY <1>3, <1>5, HeadTailProperties
  <2>2. Len(Tail(s)) = Len(t)
    BY <1>1, <1>3, <1>4, <2>1
  <2>3. ASSUME NEW k \in 1 .. Len(t) PROVE Tail(s)[k] = t[k]
    <3>1. k + 1 \in 1 .. n - m /\ m + (k + 1) = (m + 1) + k
      BY <1>1, <1>4
    <3>2. s[k + 1] = h[c[(m + 1) + k]].content
      BY <3>1, <1>3
    <3> QED
      BY <3>2, <1>4, <2>1, <2>2
  <2> QED
    BY <1>4, <2>1, <2>2, <2>3, SeqEqual
<1> QED
  BY <1>5, <1>6 DEF s, t

-----------------------------------------------------------------------------
(* What Merge makes of a sequence, element by element *)

Same(s, group, before, after) ==
    /\ s # << >> /\ Last(s).chars = group.chars
    /\ Last(s).operator = before /\ group.operator \in after

LEMMA MergeDrops ==
  ASSUME NEW s \in Seq(GroupRecords), NEW group \in GroupRecords,
         Same(s, group, "ZOM", {"NOP", "OOM"}),
         NEW t \in Seq(GroupRecords), Len(t) = Len(s),
         \A k \in 1 .. Len(s) - 1 : t[k] = s[k],
         t[Len(s)] = Group(group.chars, "OOM")
  PROVE  Merge(s, group) = t
<1>1. Group(group.chars, "OOM") \in GroupRecords
  BY DEF Group, GroupRecords, Operators
<1>2. s # << >>
  BY DEF Same
<1>3. Append(Front(s), Group(group.chars, "OOM")) = t
  <2>1. /\ Front(s) \in Seq(GroupRecords) /\ Len(Front(s)) = Len(s) - 1
        /\ \A k \in 1 .. Len(s) - 1 : Front(s)[k] = s[k]
        /\ Len(s) - 1 \in Nat /\ Len(s) \in Nat
    BY <1>2, FrontOf, LenProperties
  <2>2. /\ Len(t) = Len(Front(s)) + 1
        /\ \A k \in 1 .. Len(Front(s)) : t[k] = Front(s)[k]
        /\ t[Len(Front(s)) + 1] = Group(group.chars, "OOM")
    BY <2>1
  <2> QED
    BY <1>1, <2>1, <2>2, Appended
<1> QED
  BY <1>3 DEF Merge, Same

LEMMA MergeMoves ==
  ASSUME NEW s \in Seq(GroupRecords), NEW group \in GroupRecords,
         Same(s, group, "OOM", {"NOP"}),
         NEW t \in Seq(GroupRecords), Len(t) = Len(s) + 1,
         \A k \in 1 .. Len(s) - 1 : t[k] = s[k],
         t[Len(s)] = Group(group.chars, "NOP"),
         t[Len(s) + 1] = Group(group.chars, "OOM")
  PROVE  Merge(s, group) = t
<1>1. /\ Group(group.chars, "OOM") \in GroupRecords
      /\ Group(group.chars, "NOP") \in GroupRecords
  BY DEF Group, GroupRecords, Operators
<1>2. s # << >> /\ t # << >> /\ Len(s) \in Nat
  BY LenProperties DEF Same
<1>3. /\ Front(s) \in Seq(GroupRecords) /\ Len(Front(s)) = Len(s) - 1
      /\ \A k \in 1 .. Len(s) - 1 : Front(s)[k] = s[k]
      /\ Len(s) - 1 \in Nat
  BY <1>2, FrontOf
<1>4. /\ Front(t) \in Seq(GroupRecords) /\ Len(Front(t)) = Len(t) - 1
      /\ \A k \in 1 .. Len(t) - 1 : Front(t)[k] = t[k]
  BY <1>2, FrontOf
<1>5. Append(Front(s), Group(group.chars, "NOP")) = Front(t)
  <2>1. /\ Len(Front(t)) = Len(Front(s)) + 1
        /\ \A k \in 1 .. Len(Front(s)) : Front(t)[k] = Front(s)[k]
        /\ Front(t)[Len(Front(s)) + 1] = Group(group.chars, "NOP")
    BY <1>2, <1>3, <1>4
  <2> QED
    BY <1>1, <1>3, <1>4, <2>1, Appended
<1>6. Append(Front(t), Group(group.chars, "OOM")) = t
  <2>1. /\ Len(t) = Len(Front(t)) + 1
        /\ \A k \in 1 .. Len(Front(t)) : t[k] = Front(t)[k]
        /\ t[Len(Front(t)) + 1] = Group(group.chars, "OOM")
    BY <1>2, <1>4
  <2> QED
    BY <1>1, <1>4, <2>1, Appended
<1>7. ~Same(s, group, "ZOM", {"NOP", "OOM"})
  BY DEF Same
<1> QED
  BY <1>5, <1>6, <1>7 DEF Merge, Same

LEMMA MergeAppends ==
  ASSUME NEW s \in Seq(GroupRecords), NEW group \in GroupRecords,
         ~Same(s, group, "ZOM", {"NOP", "OOM"}),
         ~Same(s, group, "OOM", {"NOP"}),
         NEW t \in Seq(GroupRecords), Len(t) = Len(s) + 1,
         \A k \in 1 .. Len(s) : t[k] = s[k], t[Len(s) + 1] = group
  PROVE  Merge(s, group) = t
<1>1. Append(s, group) = t
  BY Appended
<1> QED
  BY <1>1 DEF Merge, Same

-----------------------------------------------------------------------------
(* The invariant, and what each step does *)

Phases ==
    {"regexp_new", "opti_regexp", "in_use", "list_delete", "regexp_free"}

\* The walk: its two links follow each other, and the flag is up at the
\* beginning of every turn.
Walk ==
    /\ phase \in Phases
    /\ same_group = TRUE
    /\ phase \in {"regexp_new", "in_use", "regexp_free"} => l = NULL
    /\ phase \in {"opti_regexp", "in_use"} =>
          IF groups = NULL THEN l = NULL
          ELSE p \in DOMAIN heap /\ l = heap[p].next

Inv == HeapOK(heap) /\ Walk /\ \E c \in Seq(DOMAIN heap) : Listed(c)

Simulated == [Abstract!Next]_<< merged, rest >>

LEMMA SameMerge ==
  \A s, group : Abstract!Merge(s, group) = Merge(s, group)
BY DEF Abstract!Merge, Merge, Abstract!Group, Group, Abstract!Last, Last,
       Abstract!Front, Front

\* The link that is freed or that the walk has come to.
LEMMA Walked ==
  ASSUME HeapOK(heap), Walk, NEW c \in Seq(DOMAIN heap), Listed(c),
         phase \in {"opti_regexp", "in_use"}, groups # NULL
  PROVE  \E i \in 1 .. Len(c) :
            /\ p = c[i]
            /\ l = IF i = Len(c) THEN NULL ELSE c[i + 1]
            /\ l = NULL <=> i = Len(c)
            /\ l # NULL => i + 1 <= Len(c) /\ l \in DOMAIN heap
<1>1. p \in DOMAIN heap /\ l = heap[p].next
  BY DEF Walk
<1>2. PICK i \in 1 .. Len(c) : c[i] = p
  BY <1>1 DEF Listed, Covers
<1>3. l = IF i = Len(c) THEN NULL ELSE c[i + 1]
  BY <1>1, <1>2 DEF Listed, Chain
<1>4. i # Len(c) => i + 1 \in 1 .. Len(c) /\ c[i + 1] \in DOMAIN heap
  BY LenProperties, ElementOfSeq
<1>5. NULL \notin DOMAIN heap
  BY DEF HeapOK, Links, NULL
<1> QED
  BY <1>2, <1>3, <1>4, <1>5

LEMMA Counted ==
  ASSUME NEW S, NEW n \in Nat, NEW f \in [1 .. n -> S]
  PROVE  f \in Seq(S) /\ Len(f) = n
<1>1. f \in Seq(S)
  OBVIOUS
<1> QED
  BY <1>1, LenProperties

LEMMA ShownSeq ==
  ASSUME NEW h, HeapOK(h), NEW c \in Seq(DOMAIN h),
         NEW m \in 0 .. Len(c), NEW n \in m .. Len(c)
  PROVE  /\ Shown(h, c, m, n) \in Seq(GroupRecords)
         /\ Len(Shown(h, c, m, n)) = n - m
         /\ \A k \in 1 .. n - m : Shown(h, c, m, n)[k] = h[c[m + k]].content
<1>1. /\ Len(c) \in Nat /\ m \in Nat /\ n \in Nat
      /\ \A k \in 1 .. Len(c) : c[k] \in DOMAIN h
  BY LenProperties, ElementOfSeq
<1>2. \A x \in DOMAIN h : h[x].content \in GroupRecords
  BY DEF HeapOK, LinkRecords
<1>3. \A k \in 1 .. n - m : h[c[m + k]].content \in GroupRecords
  BY <1>1, <1>2
<1>4. PICK q \in Nat : q = n - m
  BY <1>1
<1> DEFINE f == Shown(h, c, m, n)
<1>5. /\ f \in [1 .. q -> GroupRecords]
      /\ \A k \in 1 .. q : f[k] = h[c[m + k]].content
  BY <1>3, <1>4 DEF Shown
<1> HIDE DEF f
<1>6. f \in Seq(GroupRecords) /\ Len(f) = q
  BY <1>5, Counted
<1> QED
  BY <1>4, <1>5, <1>6 DEF f

LEMMA ShownFromFirst ==
  ASSUME NEW h, HeapOK(h), NEW c \in Seq(DOMAIN h), NEW n \in 0 .. Len(c)
  PROVE  /\ Shown(h, c, 0, n) \in Seq(GroupRecords)
         /\ Len(Shown(h, c, 0, n)) = n
         /\ \A k \in 1 .. n : Shown(h, c, 0, n)[k] = h[c[k]].content
<1>1. /\ n \in Nat /\ 1 .. n - 0 = 1 .. n
      /\ \A k \in 1 .. n : 0 + k = k /\ c[k] \in DOMAIN h
  BY LenProperties, ElementOfSeq
<1>2. \A x \in DOMAIN h : h[x].content \in GroupRecords
  BY DEF HeapOK, LinkRecords
<1> DEFINE f == Shown(h, c, 0, n)
<1>3. f = [k \in 1 .. n |-> h[c[k]].content]
  BY <1>1 DEF Shown
<1> HIDE DEF f
<1>4. /\ f \in [1 .. n -> GroupRecords]
      /\ \A k \in 1 .. n : f[k] = h[c[k]].content
  BY <1>1, <1>2, <1>3
<1>5. f \in Seq(GroupRecords) /\ Len(f) = n
  BY <1>1, <1>4, Counted
<1> QED
  BY <1>4, <1>5 DEF f

\* The next state, of which c is the list.
LEMMA InvNext ==
  ASSUME HeapOK(heap'), Walk', NEW c, Chain(heap', First', c), Covers(heap', c)
  PROVE  Inv'
<1>1. c \in Seq(DOMAIN heap')
  BY DEF Chain
<1>2. HeapOK(heap)'
  BY DEF HeapOK
<1>3. Listed(c)'
  BY DEF Listed, Chain, Covers
<1> QED
  BY <1>1, <1>2, <1>3 DEF Inv

LEMMA ViewsNext ==
  ASSUME HeapOK(heap'), NEW c, Chain(heap', First', c), Covers(heap', c)
  PROVE
    /\ phase' = "regexp_new" =>
          merged' = << >> /\ rest' = Shown(heap', c, 0, Len(c))
    /\ \A i \in 1 .. Len(c) :
          /\ phase' \in {"opti_regexp", "in_use"} /\ groups' # NULL
          /\ p' = c[i] /\ l' = heap'[p'].next
          => /\ merged' = Shown(heap', c, 0, i)
             /\ phase' = "opti_regexp" => rest' = Shown(heap', c, i, Len(c))
    /\ groups' = NULL /\ l' = NULL => merged' = << >> /\ rest' = << >>
    /\ phase' = "in_use" => rest' = << >>
    /\ phase' \in {"list_delete", "regexp_free"} =>
          merged' = << >> /\ rest' = << >>
<1>1. Views'
  BY ViewsShow, PTL
<1>2. c \in Seq(DOMAIN heap')
  BY DEF Chain
<1>3. HeapOK(heap)'
  BY DEF HeapOK
<1>4. Listed(c)'
  BY DEF Listed, Chain, Covers
<1>5. \A m, n : Shown(heap, c, m, n)' = Shown(heap', c, m, n)
  BY DEF Shown
<1> QED
  BY <1>1, <1>2, <1>3, <1>4, <1>5 DEF Views

LEMMA AddSteps ==
  ASSUME Inv, AddLast
  PROVE  Inv' /\ Simulated
<1>1. PICK c \in Seq(DOMAIN heap) : Listed(c)
  BY DEF Inv
<1>2. /\ HeapOK(heap) /\ Chain(heap, groups, c) /\ Covers(heap, c)
      /\ Len(c) <= LinkCount /\ DOMAIN heap \subseteq Links
  BY <1>1, ChainsAreShort DEF Inv, Listed, First, AddLast, HeapOK
<1>3. LinksFrom(groups) = c
  BY <1>2, LinksFollowChains DEF LinksFollow
<1> DEFINE new == CHOOSE k \in Links : k \notin DOMAIN heap
<1>4. new \in Links \ DOMAIN heap
  BY DEF AddLast
<1>5. PICK group \in Groups :
        /\ heap' = Grown(heap, groups, c, new, group)
        /\ groups' = IF groups = NULL THEN new ELSE groups
  BY <1>3 DEF AddLast, Last, Grown
<1>6. group \in GroupRecords
  BY GroupsAssumption DEF GroupRecords
<1> HIDE DEF new
<1> DEFINE d == Append(c, new)
<1>8. /\ HeapOK(heap') /\ Chain(heap', groups', d) /\ Covers(heap', d)
      /\ heap'[new].content = group
      /\ \A x \in DOMAIN heap : heap'[x].content = heap[x].content
  BY <1>2, <1>4, <1>5, <1>6, AddKeeps
<1>9. phase = "regexp_new" /\ phase' = "regexp_new" /\ l' = l
      /\ same_group' = same_group /\ First' = groups'
  BY DEF AddLast, First
<1>11. Walk'
  BY <1>9 DEF Inv, Walk
<1>12. Inv'
  BY <1>8, <1>9, <1>11, InvNext
<1>13. merged = << >> /\ rest = Shown(heap, c, 0, Len(c))
  BY <1>1, <1>2, <1>9, ViewsShow DEF Views
<1>14. merged' = << >> /\ rest' = Shown(heap', d, 0, Len(d))
  BY <1>8, <1>9, ViewsNext
<1>16. Shown(heap', d, 0, Len(d)) = Append(Shown(heap, c, 0, Len(c)), group)
  <2> DEFINE s == Shown(heap, c, 0, Len(c))
             t == Shown(heap', d, 0, Len(d))
  <2>1. /\ Len(c) \in Nat /\ Len(d) = Len(c) + 1 /\ d[Len(c) + 1] = new
        /\ \A k \in 1 .. Len(c) : d[k] = c[k] /\ c[k] \in DOMAIN heap
    <3>1. c \in Seq(Links) /\ new \in Links
      BY <1>2, <1>4, SeqMonotonic
    <3> QED
      BY <3>1, AppendProperties, LenProperties, ElementOfSeq
  <2> HIDE DEF d
  <2>2. /\ Len(c) \in 0 .. Len(c) /\ Len(d) \in 0 .. Len(d)
        /\ d \in Seq(DOMAIN heap')
    BY <2>1, <1>8 DEF Chain
  <2>3. /\ s \in Seq(GroupRecords) /\ Len(s) = Len(c)
        /\ \A k \in 1 .. Len(c) : s[k] = heap[c[k]].content
    BY <1>2, <2>2, ShownFromFirst
  <2>4. /\ t \in Seq(GroupRecords) /\ Len(t) = Len(d)
        /\ \A k \in 1 .. Len(d) : t[k] = heap'[d[k]].content
    BY <1>8, <2>2, ShownFromFirst
  <2> HIDE DEF s, t
  <2>5. \A k \in 1 .. Len(s) : t[k] = s[k]
    BY <1>8, <2>1, <2>3, <2>4
  <2>6. t[Len(s) + 1] = group /\ Len(t) = Len(s) + 1
    BY <1>8, <2>1, <2>3, <2>4
  <2>7. Append(s, group) = t
    BY <1>6, <2>3, <2>4, <2>5, <2>6, Appended
  <2> QED
    BY <2>7 DEF s, t
<1>17. Abstract!Add
  BY <1>13, <1>14, <1>16 DEF Abstract!Add
<1> QED
  BY <1>12, <1>17 DEF Simulated, Abstract!Next

\* The pass takes its first group.
LEMMA CallOptiSteps ==
  ASSUME Inv, CallOpti
  PROVE  Inv' /\ Simulated
<1>1. PICK c \in Seq(DOMAIN heap) : Listed(c)
  BY DEF Inv
<1>2. /\ phase = "regexp_new" /\ phase' = "opti_regexp" /\ heap' = heap
      /\ groups' = groups /\ p' = groups /\ First' = First /\ First = groups
      /\ l' = IF groups = NULL THEN NULL ELSE heap[groups].next
      /\ same_group' = TRUE /\ l = NULL
  BY DEF CallOpti, First, Inv, Walk
<1>3. /\ HeapOK(heap) /\ Chain(heap, groups, c) /\ Covers(heap, c)
      /\ HeapOK(heap') /\ Chain(heap', First', c) /\ Covers(heap', c)
  BY <1>1, <1>2 DEF Inv, Listed
<1>4. /\ Len(c) \in Nat /\ \A k \in 1 .. Len(c) : c[k] \in DOMAIN heap
      /\ NULL \notin DOMAIN heap
  BY <1>3, LenProperties, ElementOfSeq DEF HeapOK, Links, NULL
<1>5. merged = << >> /\ rest = Shown(heap, c, 0, Len(c))
  BY <1>1, <1>2, <1>3, ViewsShow DEF Views
<1>6. CASE groups = NULL
  <2>1. Walk'
    BY <1>2, <1>6 DEF Walk, Phases
  <2>2. rest = << >> /\ merged' = << >> /\ rest' = << >>
    <3>1. rest = << >>
      BY <1>1, <1>2, <1>3, <1>6, ViewsShow DEF Views
    <3>2. groups' = NULL /\ l' = NULL
      BY <1>2, <1>6
    <3> QED
      BY <3>1, <3>2, <1>3, ViewsNext
  <2> QED
    BY <2>1, <2>2, <1>3, <1>5, InvNext DEF Simulated
<1>7. CASE groups # NULL
  <2>1. /\ Len(c) # 0 /\ groups = c[1] /\ 1 \in 1 .. Len(c)
        /\ groups \in DOMAIN heap
    BY <1>3, <1>4, <1>7 DEF Chain
  <2>2. Walk'
    BY <1>2, <1>7, <2>1 DEF Walk, Phases
  <2>3. PICK zero \in 0 .. Len(c) : zero = 0 /\ zero < Len(c) /\ zero + 1 = 1
    BY <1>4, <2>1
  <2>4. /\ rest # << >> /\ Head(rest) = heap[c[1]].content
        /\ Tail(rest) = Shown(heap, c, 1, Len(c))
    BY <2>3, <1>3, <1>5, ShownRest
  <2>5. /\ merged' = Shown(heap, c, 0, 1)
        /\ rest' = Shown(heap, c, 1, Len(c))
    <3>1. p' = c[1] /\ l' = heap'[p'].next /\ groups' # NULL
      BY <1>2, <1>7, <2>1
    <3>2. /\ merged' = Shown(heap', c, 0, 1)
          /\ rest' = Shown(heap', c, 1, Len(c))
      BY <3>1, <1>2, <1>3, <2>1, ViewsNext
    <3> QED
      BY <3>2, <1>2
  <2>6. Merge(merged, Head(rest)) = Shown(heap, c, 0, 1)
    <3> DEFINE t == Shown(heap, c, 0, 1)
               s == << >>
    <3>1. 1 \in 0 .. Len(c) /\ Len(c) \in 0 .. Len(c)
      BY <1>4, <2>1
    <3>2. /\ t \in Seq(GroupRecords) /\ Len(t) = 1
          /\ \A k \in 1 .. 1 : t[k] = heap[c[k]].content
      BY <3>1, <1>3, ShownFromFirst
    <3>3. Head(rest) \in GroupRecords
      BY <2>1, <2>4 DEF HeapOK, LinkRecords, Inv
    <3>4. /\ s \in Seq(GroupRecords) /\ Len(s) = 0
          /\ ~Same(s, Head(rest), "ZOM", {"NOP", "OOM"})
          /\ ~Same(s, Head(rest), "OOM", {"NOP"})
      BY DEF Same
    <3> HIDE DEF s, t
    <3>5. /\ Len(t) = Len(s) + 1 /\ \A k \in 1 .. Len(s) : t[k] = s[k]
          /\ t[Len(s) + 1] = Head(rest)
      BY <3>2, <3>4, <2>4
    <3>6. Merge(s, Head(rest)) = t
      BY <3>2, <3>3, <3>4, <3>5, MergeAppends
    <3> QED
      BY <3>6, <1>5 DEF s, t
  <2>7. Abstract!MergeNext
    BY <2>4, <2>5, <2>6, SameMerge DEF Abstract!MergeNext
  <2> QED
    BY <2>2, <2>7, <1>3, InvNext DEF Simulated, Abstract!Next
<1> QED
  BY <1>6, <1>7

\* A turn of the pass that finds another group: where it is.
Turn(c, i) ==
    /\ c \in Seq(DOMAIN heap) /\ Listed(c)
    /\ HeapOK(heap) /\ Walk
    /\ i \in 1 .. Len(c) /\ i + 1 \in 1 .. Len(c)
    /\ p = c[i] /\ l = c[i + 1]
    /\ Chain(heap, First, c) /\ Covers(heap, c) /\ First = groups
    /\ phase = "opti_regexp" /\ groups # NULL /\ same_group = TRUE
    /\ merged = Shown(heap, c, 0, i)
    /\ rest # << >> /\ Head(rest) = heap[l].content
    /\ Tail(rest) = Shown(heap, c, i + 1, Len(c))
    /\ merged \in Seq(GroupRecords) /\ Len(merged) = i
    /\ \A k \in 1 .. i : merged[k] = heap[c[k]].content
    /\ Last(merged) = heap[p].content /\ merged # << >>
    /\ Head(rest) \in GroupRecords
    /\ SameGroup <=> Last(merged).chars = Head(rest).chars

LEMMA Turns ==
  ASSUME Inv, Walking
  PROVE  \E c, i : Turn(c, i)
<1>1. PICK c \in Seq(DOMAIN heap) : Listed(c)
  BY DEF Inv
<1>2. /\ phase = "opti_regexp" /\ l # NULL /\ groups # NULL
      /\ HeapOK(heap) /\ Walk /\ same_group = TRUE /\ First = groups
      /\ Chain(heap, First, c) /\ Covers(heap, c) /\ l = heap[p].next
  BY <1>1 DEF Inv, Walking, Walk, First, Listed
<1>3. PICK i \in 1 .. Len(c) :
        /\ p = c[i] /\ l = IF i = Len(c) THEN NULL ELSE c[i + 1]
        /\ l = NULL <=> i = Len(c)
        /\ l # NULL => i + 1 <= Len(c) /\ l \in DOMAIN heap
  BY <1>1, <1>2, Walked
<1>4. /\ Len(c) \in Nat /\ i + 1 \in 1 .. Len(c) /\ l = c[i + 1]
      /\ i \in 0 .. Len(c) /\ i < Len(c) /\ p \in DOMAIN heap
      /\ l \in DOMAIN heap /\ i \in 1 .. i /\ i # 0
  BY <1>2, <1>3, LenProperties, ElementOfSeq
<1>5. merged = Shown(heap, c, 0, i) /\ rest = Shown(heap, c, i, Len(c))
  BY <1>1, <1>2, <1>3, ViewsShow DEF Views
<1>6. /\ rest # << >> /\ Head(rest) = heap[l].content
      /\ Tail(rest) = Shown(heap, c, i + 1, Len(c))
  BY <1>2, <1>4, <1>5, ShownRest
<1>7. /\ merged \in Seq(GroupRecords) /\ Len(merged) = i
      /\ \A k \in 1 .. i : merged[k] = heap[c[k]].content
  BY <1>2, <1>4, <1>5, ShownFromFirst
<1>8. Last(merged) = heap[p].content /\ merged # << >>
  BY <1>3, <1>4, <1>7, EmptySeq DEF Last
<1>9. Head(rest) \in GroupRecords
  BY <1>2, <1>4, <1>6 DEF HeapOK, LinkRecords
<1>10. SameGroup <=> Last(merged).chars = Head(rest).chars
  BY <1>2, <1>6, <1>8 DEF SameGroup
<1>11. Turn(c, i)
  BY <1>1, <1>2, <1>3, <1>4, <1>5, <1>6, <1>7, <1>8, <1>9, <1>10 DEF Turn
<1> QED
  BY <1>11

LEMMA DropSteps ==
  ASSUME Inv, DropSecond
  PROVE  Inv' /\ Abstract!MergeNext
<1>1. PICK c, i : Turn(c, i)
  BY Turns DEF DropSecond
<1> DEFINE n == Len(c)
           d == Without(c, i)
<1>2. /\ phase' = "opti_regexp" /\ groups' = groups /\ p' = p
      /\ l' = heap[l].next /\ same_group' = SameGroup /\ Starred
      /\ First' = First /\ heap' = Dropped(heap, c[i], c[i + 1], "OOM")
  BY <1>1 DEF DropSecond, Dropped, Freed, Turn, First
<1>3. /\ n \in Nat /\ i \in Nat /\ i # 0 /\ i + 1 <= n /\ "OOM" \in Operators
      /\ i \in 1 .. n /\ n - 1 \in Nat /\ i \in 1 .. n - 1
  BY <1>1, LenProperties DEF Turn, Operators
<1>4. /\ HeapOK(heap) /\ Chain(heap, First, c) /\ Covers(heap, c)
  BY <1>1 DEF Turn
<1>5. /\ HeapOK(heap') /\ Chain(heap', First, d) /\ Covers(heap', d)
      /\ Len(d) = n - 1
      /\ \A k \in 1 .. n - 1 : d[k] = IF k <= i THEN c[k] ELSE c[k + 1]
      /\ heap'[c[i]].next = heap[c[i + 1]].next
      /\ heap'[c[i]].content = Group(heap[c[i]].content.chars, "OOM")
      /\ \A k \in 1 .. n : k \notin {i, i + 1} => heap'[c[k]] = heap[c[k]]
  BY <1>2, <1>3, <1>4, DropKeeps
<1> HIDE DEF d
<1>6. d[i] = p' /\ p' \in DOMAIN heap' /\ l' = heap'[p'].next
      /\ d \in Seq(DOMAIN heap')
  <2>1. d \in Seq(DOMAIN heap') /\ d[i] = c[i]
    BY <1>3, <1>5 DEF Chain
  <2>2. d[i] \in DOMAIN heap'
    BY <2>1, <1>3, <1>5, ElementOfSeq
  <2> QED
    BY <2>1, <2>2, <1>1, <1>2, <1>5 DEF Turn
<1>7. Walk'
  BY <1>1, <1>2, <1>6 DEF Walk, Phases, Turn, Starred
<1>8. Inv'
  BY <1>2, <1>5, <1>7, InvNext
<1>9. merged' = Shown(heap', d, 0, i) /\ rest' = Shown(heap', d, i, n - 1)
  <2>1. phase' = "opti_regexp" /\ groups' # NULL /\ i \in 1 .. Len(d)
    BY <1>1, <1>2, <1>3, <1>5 DEF Turn
  <2>2. merged' = Shown(heap', d, 0, i) /\ rest' = Shown(heap', d, i, Len(d))
    BY <2>1, <1>2, <1>5, <1>6, ViewsNext
  <2> QED
    BY <2>2, <1>5
<1>10. Tail(rest) = rest'
  <2>1. Tail(rest) = Shown(heap, c, i + 1, n)
    BY <1>1 DEF Turn
  <2>2. n - (i + 1) = (n - 1) - i
    BY <1>3
  <2>3. ASSUME NEW k \in 1 .. (n - 1) - i
        PROVE  heap[c[(i + 1) + k]].content = heap'[d[i + k]].content
    <3>1. /\ i + k \in 1 .. n - 1 /\ ~(i + k <= i) /\ (i + 1) + k = (i + k) + 1
          /\ (i + k) + 1 \in 1 .. n /\ (i + k) + 1 \notin {i, i + 1}
      BY <1>3
    <3> QED
      BY <3>1, <1>5
  <2>4. Shown(heap, c, i + 1, n) = Shown(heap', d, i, n - 1)
    BY <2>2, <2>3 DEF Shown
  <2> QED
    BY <2>1, <2>4, <1>9
<1>11. Merge(merged, Head(rest)) = merged'
  <2> DEFINE t == Shown(heap', d, 0, i)
  <2>1. /\ t \in Seq(GroupRecords) /\ Len(t) = i
        /\ \A k \in 1 .. i : t[k] = heap'[d[k]].content
    <3>1. i \in 0 .. Len(d)
      BY <1>3, <1>5
    <3> QED
      BY <3>1, <1>5, <1>6, ShownFromFirst
  <2> HIDE DEF t
  <2>2. Len(t) = Len(merged) /\ \A k \in 1 .. Len(merged) - 1 : t[k] = merged[k]
    <3>1. Len(merged) = i /\ \A k \in 1 .. i : merged[k] = heap[c[k]].content
      BY <1>1 DEF Turn
    <3>2. ASSUME NEW k \in 1 .. i - 1 PROVE t[k] = merged[k]
      <4>1. k \in 1 .. i /\ k \in 1 .. n - 1 /\ k \in 1 .. n /\ k <= i
            /\ k \notin {i, i + 1}
        BY <1>3
      <4> QED
        BY <4>1, <3>1, <2>1, <1>5
    <3> QED
      BY <3>1, <3>2, <2>1
  <2>3. t[Len(merged)] = Group(Head(rest).chars, "OOM")
    <3>1. /\ Len(merged) = i /\ heap[c[i]].content.chars = Head(rest).chars
      BY <1>1, <1>2 DEF Turn, Starred
    <3>2. t[i] = heap'[c[i]].content
      BY <2>1, <1>3, <1>5
    <3> QED
      BY <3>1, <3>2, <1>5
  <2>4. Same(merged, Head(rest), "ZOM", {"NOP", "OOM"})
    BY <1>1, <1>2 DEF Same, Turn, Starred, Operator
  <2>5. merged \in Seq(GroupRecords) /\ Head(rest) \in GroupRecords
    BY <1>1 DEF Turn
  <2>6. Merge(merged, Head(rest)) = t
    BY <2>1, <2>2, <2>3, <2>4, <2>5, MergeDrops
  <2> QED
    BY <2>6, <1>9 DEF t
<1>12. Abstract!MergeNext
  BY <1>1, <1>10, <1>11, SameMerge DEF Abstract!MergeNext, Turn
<1> QED
  BY <1>8, <1>12

LEMMA ExchangeSteps ==
  ASSUME Inv, Exchange
  PROVE  Inv' /\ Abstract!MergeNext
<1>1. PICK c, i : Turn(c, i)
  BY Turns DEF Exchange
<1> DEFINE n == Len(c)
<1>2. /\ phase' = "opti_regexp" /\ groups' = groups /\ p' = l
      /\ l' = heap[l].next /\ same_group' = SameGroup /\ Plus
      /\ First' = First
      /\ heap' = Exchanged(heap, c[i], c[i + 1], "NOP", "OOM")
  BY <1>1 DEF Exchange, Exchanged, NextLink, Turn, First
<1>3. /\ n \in Nat /\ i \in Nat /\ i # 0 /\ i + 1 <= n
      /\ "OOM" \in Operators /\ "NOP" \in Operators
      /\ i \in 1 .. n /\ i + 1 \in 1 .. n /\ c[i + 1] \in DOMAIN heap
  BY <1>1, LenProperties, ElementOfSeq DEF Turn, Operators
<1>4. /\ HeapOK(heap) /\ Chain(heap, First, c) /\ Covers(heap, c)
  BY <1>1 DEF Turn
<1>5. /\ HeapOK(heap') /\ Chain(heap', First, c) /\ Covers(heap', c)
      /\ \A x \in DOMAIN heap : heap'[x].next = heap[x].next
      /\ heap'[c[i]].content = Group(heap[c[i]].content.chars, "NOP")
      /\ heap'[c[i + 1]].content = Group(heap[c[i + 1]].content.chars, "OOM")
      /\ \A k \in 1 .. n : k \notin {i, i + 1} => heap'[c[k]] = heap[c[k]]
  BY <1>2, <1>3, <1>4, ExchangeKeeps
<1>6. c[i + 1] = p' /\ p' \in DOMAIN heap' /\ l' = heap'[p'].next
      /\ c \in Seq(DOMAIN heap')
  <2>1. c \in Seq(DOMAIN heap') /\ c[i + 1] = l
    BY <1>1, <1>5 DEF Chain, Turn
  <2>2. c[i + 1] \in DOMAIN heap'
    BY <2>1, <1>3, ElementOfSeq
  <2> QED
    BY <2>1, <2>2, <1>2, <1>3, <1>5
<1>7. Walk'
  BY <1>1, <1>2, <1>6 DEF Walk, Phases, Turn, Plus
<1>8. Inv'
  BY <1>2, <1>5, <1>7, InvNext
<1>9. merged' = Shown(heap', c, 0, i + 1) /\ rest' = Shown(heap', c, i + 1, n)
  <2>1. phase' = "opti_regexp" /\ groups' # NULL
    BY <1>1, <1>2 DEF Turn
  <2> QED
    BY <2>1, <1>2, <1>3, <1>5, <1>6, ViewsNext
<1>10. Tail(rest) = rest'
  <2>1. Tail(rest) = Shown(heap, c, i + 1, n)
    BY <1>1 DEF Turn
  <2>2. ASSUME NEW k \in 1 .. n - (i + 1)
        PROVE  heap[c[(i + 1) + k]].content = heap'[c[(i + 1) + k]].content
    <3>1. (i + 1) + k \in 1 .. n /\ (i + 1) + k \notin {i, i + 1}
      BY <1>3
    <3> QED
      BY <3>1, <1>5
  <2>3. Shown(heap, c, i + 1, n) = Shown(heap', c, i + 1, n)
    BY <2>2 DEF Shown
  <2> QED
    BY <2>1, <2>3, <1>9
<1>11. Merge(merged, Head(rest)) = merged'
  <2> DEFINE t == Shown(heap', c, 0, i + 1)
  <2>1. /\ t \in Seq(GroupRecords) /\ Len(t) = i + 1
        /\ \A k \in 1 .. i + 1 : t[k] = heap'[c[k]].content
    <3>1. i + 1 \in 0 .. Len(c)
      BY <1>3
    <3> QED
      BY <3>1, <1>5, <1>6, ShownFromFirst
  <2> HIDE DEF t
  <2>2. /\ Len(merged) = i /\ \A k \in 1 .. i : merged[k] = heap[c[k]].content
        /\ heap[c[i]].content.chars = Head(rest).chars
        /\ heap[c[i + 1]].content.chars = Head(rest).chars
    BY <1>1, <1>2 DEF Turn, Plus
  <2>3. ASSUME NEW k \in 1 .. i - 1 PROVE t[k] = merged[k]
    <3>1. /\ k \in 1 .. i /\ k \in 1 .. i + 1 /\ k \in 1 .. n
          /\ k \notin {i, i + 1}
      BY <1>3
    <3> QED
      BY <3>1, <2>1, <2>2, <1>5
  <2>4. /\ t[i] = Group(Head(rest).chars, "NOP")
        /\ t[i + 1] = Group(Head(rest).chars, "OOM")
    BY <2>1, <2>2, <1>3, <1>5
  <2>5. Same(merged, Head(rest), "OOM", {"NOP"})
    BY <1>1, <1>2 DEF Same, Turn, Plus, Operator
  <2>6. merged \in Seq(GroupRecords) /\ Head(rest) \in GroupRecords
    BY <1>1 DEF Turn
  <2>7. Merge(merged, Head(rest)) = t
    BY <2>1, <2>2, <2>3, <2>4, <2>5, <2>6, MergeMoves
  <2> QED
    BY <2>7, <1>9 DEF t
<1>12. Abstract!MergeNext
  BY <1>1, <1>10, <1>11, SameMerge DEF Abstract!MergeNext, Turn
<1> QED
  BY <1>8, <1>12

LEMMA StepOverSteps ==
  ASSUME Inv, StepOver
  PROVE  Inv' /\ Abstract!MergeNext
<1>1. PICK c, i : Turn(c, i)
  BY Turns DEF StepOver
<1> DEFINE n == Len(c)
<1>2. /\ phase' = "opti_regexp" /\ groups' = groups /\ p' = l
      /\ l' = heap[l].next /\ same_group' = TRUE /\ ~Starred /\ ~Plus
      /\ First' = First /\ heap' = heap
  BY <1>1 DEF StepOver, NextLink, Turn, First, FlagAfter
<1>3. /\ n \in Nat /\ i \in Nat /\ i # 0 /\ i + 1 <= n
      /\ i \in 1 .. n /\ i + 1 \in 1 .. n /\ c[i + 1] \in DOMAIN heap
      /\ c[i + 1] = l
  BY <1>1, LenProperties, ElementOfSeq DEF Turn
<1>4. /\ HeapOK(heap') /\ Chain(heap', First, c) /\ Covers(heap', c)
  BY <1>1, <1>2 DEF Turn
<1>5. Walk'
  BY <1>1, <1>2, <1>3 DEF Walk, Phases, Turn
<1>6. Inv'
  BY <1>2, <1>4, <1>5, InvNext
<1>7. merged' = Shown(heap, c, 0, i + 1) /\ rest' = Shown(heap, c, i + 1, n)
  <2>1. phase' = "opti_regexp" /\ groups' # NULL
    BY <1>1, <1>2 DEF Turn
  <2>2. p' = c[i + 1] /\ l' = heap'[p'].next
    BY <1>2, <1>3
  <2>3. /\ merged' = Shown(heap', c, 0, i + 1)
        /\ rest' = Shown(heap', c, i + 1, n)
    BY <2>1, <2>2, <1>2, <1>3, <1>4, ViewsNext
  <2> QED
    BY <2>3, <1>2
<1>8. Tail(rest) = rest'
  BY <1>1, <1>7 DEF Turn
<1>9. Merge(merged, Head(rest)) = merged'
  <2> DEFINE t == Shown(heap, c, 0, i + 1)
  <2>1. /\ t \in Seq(GroupRecords) /\ Len(t) = i + 1
        /\ \A k \in 1 .. i + 1 : t[k] = heap[c[k]].content
    <3>1. i + 1 \in 0 .. Len(c) /\ c \in Seq(DOMAIN heap) /\ HeapOK(heap)
      BY <1>1, <1>3 DEF Turn
    <3> QED
      BY <3>1, ShownFromFirst
  <2> HIDE DEF t
  <2>2. /\ Len(merged) = i /\ \A k \in 1 .. i : merged[k] = heap[c[k]].content
        /\ Head(rest) = heap[c[i + 1]].content
    BY <1>1 DEF Turn
  <2>3. /\ Len(t) = Len(merged) + 1
        /\ \A k \in 1 .. Len(merged) : t[k] = merged[k]
        /\ t[Len(merged) + 1] = Head(rest)
    BY <2>1, <2>2, <1>3
  <2>4. /\ ~Same(merged, Head(rest), "ZOM", {"NOP", "OOM"})
        /\ ~Same(merged, Head(rest), "OOM", {"NOP"})
    BY <1>1, <1>2 DEF Same, Turn, Starred, Plus, Operator
  <2>5. merged \in Seq(GroupRecords) /\ Head(rest) \in GroupRecords
    BY <1>1 DEF Turn
  <2>6. Merge(merged, Head(rest)) = t
    BY <2>1, <2>3, <2>4, <2>5, MergeAppends
  <2> QED
    BY <2>6, <1>7 DEF t
<1>10. Abstract!MergeNext
  BY <1>1, <1>8, <1>9, SameMerge DEF Abstract!MergeNext, Turn
<1> QED
  BY <1>6, <1>10

\* The pass is over when its second link is none: all has been read.
LEMMA OptiEndsSteps ==
  ASSUME Inv, OptiEnds
  PROVE  Inv' /\ Simulated
<1>1. PICK c \in Seq(DOMAIN heap) : Listed(c)
  BY DEF Inv
<1>2. /\ phase = "opti_regexp" /\ phase' = "in_use" /\ heap' = heap
      /\ groups' = groups /\ p' = p /\ l' = l /\ l = NULL
      /\ same_group' = same_group /\ First' = First /\ First = groups
  BY DEF OptiEnds, First
<1>3. /\ HeapOK(heap) /\ Walk
      /\ HeapOK(heap') /\ Chain(heap', First', c) /\ Covers(heap', c)
  BY <1>1, <1>2 DEF Inv, Listed
<1>4. Walk'
  BY <1>2, <1>3 DEF Walk, Phases
<1>5. Inv'
  BY <1>3, <1>4, InvNext
<1>6. rest' = << >>
  BY <1>2, <1>3, ViewsNext
<1>7. rest = << >> /\ merged' = merged
  <2>1. CASE groups = NULL
    <3>1. merged = << >> /\ rest = << >>
      BY <1>1, <1>2, <1>3, <2>1, ViewsShow DEF Views
    <3>2. merged' = << >>
      BY <1>2, <1>3, <2>1, ViewsNext
    <3> QED
      BY <3>1, <3>2
  <2>2. CASE groups # NULL
    <3>1. PICK i \in 1 .. Len(c) : p = c[i] /\ (l = NULL <=> i = Len(c))
      BY <1>1, <1>2, <1>3, <2>2, Walked
    <3>2. l = heap[p].next /\ l' = heap'[p'].next
      BY <1>2, <1>3, <2>2 DEF Walk
    <3>3. merged = Shown(heap, c, 0, i) /\ rest = Shown(heap, c, i, Len(c))
      BY <1>1, <1>2, <1>3, <2>2, <3>1, <3>2, ViewsShow DEF Views
    <3>4. merged' = Shown(heap', c, 0, i)
      BY <1>2, <1>3, <2>2, <3>1, <3>2, ViewsNext
    <3>5. rest = << >>
      <4>1. /\ Len(c) \in Nat /\ Len(c) \in 0 .. Len(c)
            /\ Len(c) \in Len(c) .. Len(c)
        BY LenProperties
      <4>2. rest \in Seq(GroupRecords) /\ Len(rest) = Len(c) - Len(c)
        BY <1>2, <1>3, <3>1, <3>3, <4>1, ShownSeq
      <4>3. Len(rest) = 0
        BY <4>1, <4>2
      <4> QED
        BY <4>2, <4>3, EmptySeq
    <3> QED
      BY <3>3, <3>4, <3>5, <1>2
  <2> QED
    BY <2>1, <2>2
<1> QED
  BY <1>5, <1>6, <1>7 DEF Simulated

LEMMA CallDeleteSteps ==
  ASSUME Inv, CallDelete
  PROVE  Inv' /\ Simulated
<1>1. PICK c \in Seq(DOMAIN heap) : Listed(c)
  BY DEF Inv
<1>2. /\ phase = "in_use" /\ phase' = "list_delete" /\ heap' = heap
      /\ l' = groups /\ same_group' = same_group
      /\ First' = groups /\ First = groups
  BY DEF CallDelete, First
<1>3. /\ HeapOK(heap) /\ Walk
      /\ HeapOK(heap') /\ Chain(heap', First', c) /\ Covers(heap', c)
  BY <1>1, <1>2 DEF Inv, Listed
<1>4. Walk'
  BY <1>2, <1>3 DEF Walk, Phases
<1>5. Inv'
  BY <1>3, <1>4, InvNext
<1>6. rest = << >>
  BY <1>1, <1>2, <1>3, ViewsShow DEF Views
<1>7. merged' = << >> /\ rest' = << >>
  BY <1>2, <1>3, ViewsNext
<1>8. Abstract!GiveUp
  BY <1>6, <1>7 DEF Abstract!GiveUp
<1> QED
  BY <1>5, <1>8 DEF Simulated, Abstract!Next

\* What is deleted is nobody's any more.
LEMMA DeleteSteps ==
  ASSUME Inv, Delete
  PROVE  Inv' /\ Simulated
<1>1. PICK c \in Seq(DOMAIN heap) : Listed(c)
  BY DEF Inv
<1>2. /\ phase = "list_delete" /\ phase' = "list_delete" /\ l # NULL
      /\ heap' = [k \in DOMAIN heap \ {l} |-> heap[k]]
      /\ l' = heap[l].next /\ same_group' = same_group
      /\ First' = l' /\ First = l
  BY DEF Delete, DelFirst, Freed, First
<1>3. /\ HeapOK(heap) /\ Walk /\ Chain(heap, l, c) /\ Covers(heap, c)
  BY <1>1, <1>2 DEF Inv, Listed
<1>4. /\ HeapOK(heap') /\ Chain(heap', l', Tail(c)) /\ Covers(heap', Tail(c))
  BY <1>2, <1>3, DeleteKeeps
<1>5. Walk'
  BY <1>2, <1>3 DEF Walk, Phases
<1>6. Inv'
  BY <1>2, <1>4, <1>5, InvNext
<1>7. merged = << >> /\ rest = << >>
  BY <1>1, <1>2, <1>3, ViewsShow DEF Views
<1>8. merged' = << >> /\ rest' = << >>
  BY <1>2, <1>4, ViewsNext
<1> QED
  BY <1>6, <1>7, <1>8 DEF Simulated

LEMMA DeleteEndsSteps ==
  ASSUME Inv, DeleteEnds
  PROVE  Inv' /\ Simulated
<1>1. PICK c \in Seq(DOMAIN heap) : Listed(c)
  BY DEF Inv
<1>2. /\ phase = "list_delete" /\ phase' = "regexp_free" /\ heap' = heap
      /\ l' = l /\ l = NULL /\ same_group' = same_group
      /\ First' = l /\ First = l
  BY DEF DeleteEnds, First
<1>3. /\ HeapOK(heap) /\ Walk
      /\ HeapOK(heap') /\ Chain(heap', First', c) /\ Covers(heap', c)
  BY <1>1, <1>2 DEF Inv, Listed
<1>4. Walk'
  BY <1>2, <1>3 DEF Walk, Phases
<1>5. Inv'
  BY <1>3, <1>4, InvNext
<1>6. merged = << >> /\ rest = << >>
  BY <1>1, <1>2, <1>3, ViewsShow DEF Views
<1>7. merged' = << >> /\ rest' = << >>
  BY <1>2, <1>3, ViewsNext
<1> QED
  BY <1>5, <1>6, <1>7 DEF Simulated

LEMMA StutterSteps ==
  ASSUME Inv, UNCHANGED vars
  PROVE  Inv' /\ Simulated
<1>1. Inv'
  BY DEF vars, Inv, HeapOK, Walk, Listed, Chain, Covers, First
<1>2. LinksFrom(groups)' = LinksFrom(groups) /\ LinksFrom(l)' = LinksFrom(l)
  BY DEF vars, LinksFrom
<1>3. UpToP' = UpToP
  BY <1>2 DEF vars, UpToP
<1>4. UNCHANGED << merged, rest >>
  BY <1>2, <1>3 DEF vars, merged, rest, Contents
<1> QED
  BY <1>1, <1>4 DEF Simulated

-----------------------------------------------------------------------------
(* The theorems *)

\* While the list is rewritten, it is what the pass has made and what is
\* left of the expression.
Splits(whole, before, after) ==
    /\ whole \in Seq(GroupRecords)
    /\ before \in Seq(GroupRecords) /\ after \in Seq(GroupRecords)
    /\ Len(whole) = Len(before) + Len(after)
    /\ \A k \in 1 .. Len(before) : whole[k] = before[k]
    /\ \A k \in 1 .. Len(after) : whole[Len(before) + k] = after[k]

Whole == Contents(LinksFrom(groups))

LEMMA WholeSplits ==
  Inv /\ phase = "opti_regexp" /\ groups # NULL => Splits(Whole, merged, rest)
<1> SUFFICES ASSUME Inv, phase = "opti_regexp", groups # NULL
             PROVE  Splits(Whole, merged, rest)
  OBVIOUS
<1>1. PICK c \in Seq(DOMAIN heap) : Listed(c)
  BY DEF Inv
<1>2. /\ HeapOK(heap) /\ Walk /\ First = groups
      /\ Chain(heap, groups, c) /\ Covers(heap, c)
  BY <1>1 DEF Inv, First, Listed
<1>3. PICK i \in 1 .. Len(c) : p = c[i]
  BY <1>1, <1>2, Walked
<1> DEFINE n == Len(c)
<1>4. /\ n \in Nat /\ i \in Nat /\ i \in 0 .. n /\ n \in i .. n /\ n \in 0 .. n
      /\ DOMAIN c = 1 .. n
  BY <1>3, LenProperties
<1>5. merged = Shown(heap, c, 0, i) /\ rest = Shown(heap, c, i, n)
  <2>1. l = heap[p].next
    BY <1>2 DEF Walk
  <2> QED
    BY <1>1, <1>2, <1>3, <2>1, ViewsShow DEF Views
<1>6. Whole = Shown(heap, c, 0, n)
  <2>1. LinksFrom(groups) = c
    <3>1. DOMAIN heap \subseteq Links
      BY <1>2 DEF HeapOK
    <3>2. Len(c) <= LinkCount
      BY <1>2, <3>1, ChainsAreShort
    <3> QED
      BY <1>2, <3>1, <3>2, LinksFollowChains DEF LinksFollow
  <2>2. 1 .. n - 0 = 1 .. n /\ \A k \in 1 .. n : 0 + k = k
    BY <1>4
  <2> QED
    BY <1>4, <2>1, <2>2 DEF Whole, Contents, Shown
<1>7. /\ merged \in Seq(GroupRecords) /\ Len(merged) = i
      /\ \A k \in 1 .. i : merged[k] = heap[c[k]].content
  BY <1>2, <1>4, <1>5, ShownFromFirst
<1>8. /\ Whole \in Seq(GroupRecords) /\ Len(Whole) = n
      /\ \A k \in 1 .. n : Whole[k] = heap[c[k]].content
  BY <1>2, <1>4, <1>6, ShownFromFirst
<1>9. /\ rest \in Seq(GroupRecords) /\ Len(rest) = n - i
      /\ \A k \in 1 .. n - i : rest[k] = heap[c[i + k]].content
  BY <1>2, <1>4, <1>5, ShownSeq
<1> HIDE DEF Whole, merged, rest, n
<1>10. Len(Whole) = Len(merged) + Len(rest)
  BY <1>4, <1>7, <1>8, <1>9
<1>11. \A k \in 1 .. Len(merged) : Whole[k] = merged[k]
  <2>1. \A k \in 1 .. i : k \in 1 .. n
    BY <1>4
  <2> QED
    BY <1>7, <1>8, <2>1
<1>12. \A k \in 1 .. Len(rest) : Whole[Len(merged) + k] = rest[k]
  <2>1. \A k \in 1 .. n - i : i + k \in 1 .. n
    BY <1>4
  <2> QED
    BY <1>7, <1>8, <1>9, <2>1
<1> QED
  BY <1>7, <1>8, <1>9, <1>10, <1>11, <1>12 DEF Splits

\* A merge keeps the words of the whole.
LEMMA MergeKeepsWords ==
  ASSUME NEW whole, NEW before, NEW after, Splits(whole, before, after),
         after # << >>,
         NEW whole2, Splits(whole2, Merge(before, Head(after)), Tail(after)),
         NEW text, Len(text) \in Nat, NEW from \in Nat
  PROVE  Reached(whole2, text, from) = Reached(whole, text, from)
<1> DEFINE group == Head(after)
           left == Tail(after)
           one == Append(before, group)
           other == Merge(before, group)
           m == Len(left)
<1>1. /\ whole \in Seq(GroupRecords) /\ before \in Seq(GroupRecords)
      /\ after \in Seq(GroupRecords) /\ Len(before) \in Nat
      /\ Len(whole) = Len(before) + Len(after)
      /\ \A k \in 1 .. Len(before) : whole[k] = before[k]
      /\ \A k \in 1 .. Len(after) : whole[Len(before) + k] = after[k]
  BY LenProperties DEF Splits
<1>2. /\ group \in GroupRecords /\ left \in Seq(GroupRecords) /\ m \in Nat
      /\ Len(after) = m + 1 /\ after[1] = group
      /\ \A k \in 1 .. m : left[k] = after[k + 1]
  BY <1>1, HeadTailProperties, LenProperties
<1>3. /\ one \in Seq(GroupRecords) /\ Len(one) = Len(before) + 1
      /\ one[Len(before) + 1] = group
      /\ \A k \in 1 .. Len(before) : one[k] = before[k]
  BY <1>1, <1>2, AppendProperties
<1>4. /\ whole2 \in Seq(GroupRecords) /\ other \in Seq(GroupRecords)
      /\ Len(other) \in Nat /\ Len(whole2) = Len(other) + m
      /\ \A k \in 1 .. Len(other) : whole2[k] = other[k]
      /\ \A k \in 1 .. m : whole2[Len(other) + k] = left[k]
  BY LenProperties DEF Splits
<1>5. Reached(one, text, from) = Reached(other, text, from)
  BY <1>1, <1>2, MergeReaches
<1> HIDE DEF group, left, one, other, m
<1>6. Begins(one, whole) /\ Len(whole) = Len(one) + m
  <2>1. ASSUME NEW k \in 1 .. Len(one) PROVE whole[k] = one[k]
    <3>1. CASE k = Len(before) + 1
      <4>1. 1 \in 1 .. Len(after)
        BY <1>2
      <4> QED
        BY <1>1, <1>2, <1>3, <3>1, <4>1
    <3>2. CASE k # Len(before) + 1
      <4>1. k \in 1 .. Len(before)
        BY <1>1, <1>3, <3>2
      <4> QED
        BY <1>1, <1>3, <4>1
    <3> QED
      BY <3>1, <3>2
  <2>2. Len(whole) = Len(one) + m /\ Len(one) <= Len(whole)
    BY <1>1, <1>2, <1>3
  <2> QED
    BY <2>1, <2>2 DEF Begins
<1>7. Begins(other, whole2)
  BY <1>2, <1>4 DEF Begins
<1>8. ASSUME NEW k \in 1 .. m
      PROVE  whole[Len(one) + k] = whole2[Len(other) + k]
  <2>1. /\ k + 1 \in 1 .. Len(after)
        /\ Len(one) + k = Len(before) + (k + 1)
    BY <1>1, <1>2, <1>3
  <2>2. whole[Len(one) + k] = after[k + 1]
    BY <1>1, <2>1
  <2> QED
    BY <1>2, <1>4, <2>2
<1>9. SameTail(one, whole, other, whole2, m)
  BY <1>4, <1>6, <1>7, <1>8 DEF SameTail
<1> QED
  BY <1>1, <1>2, <1>3, <1>4, <1>5, <1>9, SameBehind

LEMMA WordsStay ==
  ASSUME Inv, [Next]_vars, phase = "opti_regexp",
         NEW text, Len(text) \in Nat, NEW from \in Nat
  PROVE  Reached(Whole', text, from) = Reached(Whole, text, from)
<1>1. CASE heap' = heap /\ groups' = groups
  <2>1. LinksFrom(groups)' = LinksFrom(groups)
    BY <1>1 DEF LinksFrom
  <2>2. Whole' = Whole
    BY <1>1, <2>1 DEF Whole, Contents
  <2> QED
    BY <2>2
<1>2. CASE DropSecond \/ Exchange \/ StepOver
  <2>1. /\ phase' = "opti_regexp" /\ groups' = groups /\ groups # NULL
        /\ Abstract!MergeNext /\ Inv'
    <3>1. groups # NULL
      BY <1>2 DEF DropSecond, Exchange, StepOver, Walking, Inv, Walk
    <3>2. phase' = phase /\ groups' = groups
      BY <1>2 DEF DropSecond, Exchange, StepOver
    <3> QED
      BY <1>2, <3>1, <3>2, DropSteps, ExchangeSteps, StepOverSteps
  <2>2. Splits(Whole, merged, rest)
    BY <2>1, WholeSplits
  <2>3. (Inv /\ phase = "opti_regexp" /\ groups # NULL
            => Splits(Whole, merged, rest))'
    BY WholeSplits, PTL
  <2>4. Splits(Whole', merged', rest')
    BY <2>1, <2>3 DEF Splits
  <2>5. /\ rest # << >> /\ merged' = Merge(merged, Head(rest))
        /\ rest' = Tail(rest)
    BY <2>1, SameMerge DEF Abstract!MergeNext
  <2> QED
    BY <2>2, <2>4, <2>5, MergeKeepsWords
<1>3. \/ DropSecond \/ Exchange \/ StepOver
      \/ (heap' = heap /\ groups' = groups)
  <2>1. OptiEnds => heap' = heap /\ groups' = groups
    BY DEF OptiEnds
  <2>2. UNCHANGED vars => heap' = heap /\ groups' = groups
    BY DEF vars
  <2>3. ~AddLast /\ ~CallOpti /\ ~CallDelete /\ ~Delete /\ ~DeleteEnds
        /\ ~Terminated
    BY DEF AddLast, CallOpti, CallDelete, Delete, DeleteEnds, Terminated
  <2> QED
    BY <2>1, <2>2, <2>3 DEF Next
<1> QED
  BY <1>1, <1>2, <1>3

LEMMA InvInit ==
  ASSUME Init
  PROVE  Inv /\ Abstract!Init
<1> DEFINE none == << >>
<1>1. /\ heap = << >> /\ groups = NULL /\ p = NULL /\ l = NULL
      /\ same_group = TRUE /\ phase = "regexp_new" /\ First = groups
  BY DEF Init, First
<1>2. DOMAIN heap = {}
  BY <1>1
<1>3. HeapOK(heap) /\ Walk
  BY <1>1, <1>2 DEF HeapOK, Walk, Phases
<1>4. none \in Seq(DOMAIN heap) /\ Len(none) = 0
  OBVIOUS
<1> HIDE DEF none
<1>5. Listed(none)
  BY <1>1, <1>2, <1>4 DEF Listed, Chain, Covers
<1>6. Inv
  BY <1>3, <1>4, <1>5 DEF Inv
<1>7. merged = << >> /\ rest = << >>
  BY <1>1, <1>3, <1>4, <1>5, ViewsShow DEF Views
<1> QED
  BY <1>6, <1>7 DEF Abstract!Init

LEMMA InvSteps ==
  ASSUME Inv, [Next]_vars
  PROVE  Inv' /\ Simulated
<1>1. CASE AddLast
  BY <1>1, AddSteps
<1>2. CASE CallOpti
  BY <1>2, CallOptiSteps
<1>3. CASE DropSecond
  BY <1>3, DropSteps DEF Simulated, Abstract!Next
<1>4. CASE Exchange
  BY <1>4, ExchangeSteps DEF Simulated, Abstract!Next
<1>5. CASE StepOver
  BY <1>5, StepOverSteps DEF Simulated, Abstract!Next
<1>6. CASE OptiEnds
  BY <1>6, OptiEndsSteps
<1>7. CASE CallDelete
  BY <1>7, CallDeleteSteps
<1>8. CASE Delete
  BY <1>8, DeleteSteps
<1>9. CASE DeleteEnds
  BY <1>9, DeleteEndsSteps
<1>10. CASE Terminated
  BY <1>10, StutterSteps DEF Terminated
<1>11. CASE UNCHANGED vars
  BY <1>11, StutterSteps
<1> QED
  BY <1>1, <1>2, <1>3, <1>4, <1>5, <1>6, <1>7, <1>8, <1>9, <1>10, <1>11
  DEF Next

LEMMA Invariant == Spec => []Inv
<1>1. Init => Inv
  BY InvInit
<1>2. Inv /\ [Next]_vars => Inv'
  BY InvSteps
<1> QED
  BY <1>1, <1>2, PTL DEF Spec

LEMMA InvTypes == Inv => TypeOK
<1> SUFFICES ASSUME Inv PROVE TypeOK
  OBVIOUS
<1>1. PICK c \in Seq(DOMAIN heap) : Listed(c)
  BY DEF Inv
<1>2. /\ DOMAIN heap \subseteq Links
      /\ \A k \in DOMAIN heap : heap[k] \in LinkRecords
      /\ Chain(heap, First, c) /\ Covers(heap, c) /\ Walk
  BY <1>1 DEF Inv, HeapOK, Listed
<1>3. /\ Len(c) \in Nat /\ \A k \in 1 .. Len(c) : c[k] \in DOMAIN heap
  BY LenProperties, ElementOfSeq
<1>4. \A k \in DOMAIN heap : heap[k].next \in DOMAIN heap \cup {NULL}
  <2> SUFFICES ASSUME NEW x \in DOMAIN heap
               PROVE  heap[x].next \in DOMAIN heap \cup {NULL}
    OBVIOUS
  <2>1. PICK k \in 1 .. Len(c) : c[k] = x
    BY <1>2 DEF Covers
  <2>2. heap[x].next = IF k = Len(c) THEN NULL ELSE c[k + 1]
    BY <1>2, <2>1 DEF Chain
  <2>3. k # Len(c) => k + 1 \in 1 .. Len(c)
    BY <1>3
  <2> QED
    BY <2>2, <2>3, <1>3
<1>5. First \in DOMAIN heap \cup {NULL}
  <2>1. First = IF Len(c) = 0 THEN NULL ELSE c[1]
    BY <1>2 DEF Chain
  <2>2. Len(c) # 0 => 1 \in 1 .. Len(c)
    BY <1>3
  <2> QED
    BY <2>1, <2>2, <1>3
<1>6. phase # "regexp_free" => l \in DOMAIN heap \cup {NULL}
  BY <1>2, <1>4, <1>5 DEF Walk, Phases, First
<1>7. \A k \in DOMAIN heap :
        /\ heap[k].content.chars \subseteq Chars
        /\ heap[k].content.operator \in Operators
  BY <1>2 DEF LinkRecords, GroupRecords
<1> QED
  BY <1>2, <1>4, <1>6, <1>7 DEF TypeOK, Walk

LEMMA InvOwns == Inv => LinksOwned
<1> SUFFICES ASSUME Inv PROVE LinksOwned
  OBVIOUS
<1>1. PICK c \in Seq(DOMAIN heap) : Listed(c)
  BY DEF Inv
<1>2. /\ DOMAIN heap \subseteq Links /\ Chain(heap, First, c) /\ Covers(heap, c)
  BY <1>1 DEF Inv, HeapOK, Listed
<1>3. Len(c) <= LinkCount
  BY <1>2, ChainsAreShort
<1>4. LinksFrom(First) = c
  BY <1>2, <1>3, LinksFollowChains DEF LinksFollow
<1>5. DOMAIN c = 1 .. Len(c) /\ \A k \in 1 .. Len(c) : c[k] \in DOMAIN heap
  BY LenProperties, ElementOfSeq
<1>6. Range(c) = DOMAIN heap /\ IsInjective(c)
  <2>1. \A x \in DOMAIN heap : \E k \in DOMAIN c : c[k] = x
    BY <1>2, <1>5 DEF Covers
  <2>2. \A k \in DOMAIN c : c[k] \in DOMAIN heap
    BY <1>5
  <2>3. {c[k] : k \in DOMAIN c} = DOMAIN heap
    BY <2>1, <2>2
  <2>4. \A j, k \in DOMAIN c : c[j] = c[k] => j = k
    BY <1>2, <1>5 DEF Covers
  <2> QED
    BY <2>3, <2>4 DEF Range, IsInjective
<1> QED
  BY <1>4, <1>6 DEF LinksOwned, First

\* What list.c and opti_regexp read and write are links of the heap, with
\* contents that are groups, for every set of groups and every bound.
THEOREM TypeCorrect == Spec => []TypeOK
  BY Invariant, InvTypes, PTL

\* No link is lost or used after it was freed: at every step of building,
\* rewriting and deleting, the links in the heap are those of the list, each
\* once (list.c:75-87, regexp.c:52-57).
THEOREM Owned == Spec => []LinksOwned
  BY Invariant, InvOwns, PTL

\* An expression accepts the same words before, between and after the turns
\* of opti_regexp, although links are freed and operators moved under the
\* walk (regexp.c:51-74).
THEOREM RewritingKeepsWords == Spec => WordsKept
<1>1. Inv /\ [Next]_vars =>
        (phase = "opti_regexp" =>
           LET before == Contents(LinksFrom(groups))
               after  == Contents(LinksFrom(groups))'
           IN  \A text \in Texts : \A from \in DOMAIN text :
                  Reached(after, text, from) = Reached(before, text, from))
  <2> SUFFICES ASSUME Inv, [Next]_vars, phase = "opti_regexp",
                      NEW text \in Texts, NEW from \in DOMAIN text
               PROVE  Reached(Contents(LinksFrom(groups))', text, from)
                        = Reached(Contents(LinksFrom(groups)), text, from)
    OBVIOUS
  <2>1. text \in Seq(STRING)
    BY TextsAssumption
  <2>2. Len(text) \in Nat /\ from \in Nat
    BY <2>1, LenProperties
  <2>3. Reached(Whole', text, from) = Reached(Whole, text, from)
    BY <2>2, WordsStay
  <2> QED
    BY <2>3 DEF Whole
<1> QED
  BY <1>1, Invariant, PTL DEF Spec, WordsKept

\* The list implements the sequence of groups: every turn of opti_regexp is
\* one merge of that sequence (regexp.c:35-77).
THEOREM SequenceImplemented == Spec => ImplementsSequence
<1>1. Init => Abstract!Init
  BY InvInit
<1>2. Inv /\ [Next]_vars => [Abstract!Next]_<< merged, rest >>
  BY InvSteps DEF Simulated
<1> QED
  BY <1>1, <1>2, Invariant, PTL DEF Spec, ImplementsSequence, Abstract!Spec
==============================================================================
