---------------------------- MODULE BasicLemmas -----------------------------
(* Facts about data that the proofs share.

   Induction and recursion, in forms that take sets and functions where the
   theorems of the library take operators: a property is the set of numbers
   that have it, one step of a recursion a function.

   What the queue and vector operations of the models do to a sequence:
   VecDeque::pop_front (Head and Tail), push_back (Append) and Vec::remove
   (RemoveAt), as facts about indices and about the elements held. *)
EXTENDS Integers, Sequences, SequencesExt, SequenceTheorems, WellFoundedInduction, TLAPS

(* A set of numbers that is not empty has a least element. *)
LEMMA LeastNumber == ASSUME NEW S \in SUBSET Nat, S # {} PROVE \E n \in S : \A m \in S : n <= m
<1>1. PICK n \in S : \A m \in S : ~ (<<m, n>> \in OpToRel(<, Nat)) BY WFMin, NatLessThanWellFounded
<1>2. \A m \in S : ~(m < n) BY <1>1 DEF OpToRel
<1> QED BY <1>2

(* Induction: a set that contains zero and with every number the next one. *)
LEMMA SetInduction == ASSUME NEW S, 0 \in S, \A n \in Nat : n \in S => n + 1 \in S PROVE Nat \subseteq S
<1> SUFFICES ASSUME Nat \ S # {} PROVE FALSE OBVIOUS
<1>1. PICK n \in Nat \ S : \A m \in Nat \ S : n <= m
  <2>1. Nat \ S \in SUBSET Nat OBVIOUS
  <2> QED BY <2>1, LeastNumber
<1>2. n - 1 \in Nat /\ n - 1 \notin Nat \ S BY <1>1
<1> QED BY <1>1, <1>2

(* The same with the hypothesis for all smaller numbers. *)
LEMMA StrongInduction ==
  ASSUME NEW S, \A n \in Nat : (\A m \in Nat : m < n => m \in S) => n \in S PROVE Nat \subseteq S
<1> SUFFICES ASSUME Nat \ S # {} PROVE FALSE OBVIOUS
<1>1. PICK n \in Nat \ S : \A m \in Nat \ S : n <= m
  <2>1. Nat \ S \in SUBSET Nat OBVIOUS
  <2> QED BY <2>1, LeastNumber
<1> QED BY <1>1

(* Iteration: from x0, the step F taken once for each number. *)
Iterates(T, x0, F, n, a) ==
  /\ a \in [0 .. n -> T]
  /\ a[0] = x0
  /\ \A i \in 0 .. n - 1 : a[i + 1] = F[<<i, a[i]>>]

LEMMA IteratesUnique ==
  ASSUME NEW T, NEW x0, NEW F, NEW n \in Nat, NEW m \in Nat, NEW a, NEW b,
         Iterates(T, x0, F, n, a), Iterates(T, x0, F, m, b)
  PROVE  \A i \in Nat : i <= n /\ i <= m => a[i] = b[i]
<1> DEFINE S == {i \in Nat : i <= n /\ i <= m => a[i] = b[i]}
<1>1. 0 \in S BY DEF Iterates
<1>2. ASSUME NEW i \in Nat, i \in S PROVE i + 1 \in S
  <2> SUFFICES ASSUME i + 1 <= n, i + 1 <= m PROVE a[i + 1] = b[i + 1] OBVIOUS
  <2>1. i \in 0 .. n - 1 /\ i \in 0 .. m - 1 /\ a[i] = b[i] BY <1>2
  <2> QED BY <2>1 DEF Iterates
<1> HIDE DEF S
<1>3. Nat \subseteq S BY <1>1, <1>2, SetInduction
<1> QED BY <1>3 DEF S

LEMMA IteratesExist ==
  ASSUME NEW T, NEW x0 \in T, NEW F \in [Nat \X T -> T] PROVE \A n \in Nat : \E a : Iterates(T, x0, F, n, a)
<1> DEFINE S == {n \in Nat : \E a : Iterates(T, x0, F, n, a)}
<1>1. 0 \in S
  <2>1. Iterates(T, x0, F, 0, [i \in 0 .. 0 |-> x0]) BY DEF Iterates
  <2> QED BY <2>1
<1>2. ASSUME NEW n \in Nat, n \in S PROVE n + 1 \in S
  <2>1. PICK a : Iterates(T, x0, F, n, a) BY <1>2
  <2> DEFINE b == [i \in 0 .. n + 1 |-> IF i <= n THEN a[i] ELSE F[<<n, a[n]>>]]
  <2>2. a \in [0 .. n -> T] /\ a[n] \in T BY <2>1 DEF Iterates
  <2>3. F[<<n, a[n]>>] \in T BY <2>2
  <2>4. b \in [0 .. n + 1 -> T] BY <2>2, <2>3
  <2>5. b[0] = x0 BY <2>1 DEF Iterates
  <2>6. ASSUME NEW i \in 0 .. n PROVE b[i + 1] = F[<<i, b[i]>>]
    <3>1. CASE i = n BY <3>1
    <3>2. CASE i # n
      <4>1. i \in 0 .. n - 1 /\ i + 1 <= n /\ i + 1 \in 0 .. n + 1 /\ i \in 0 .. n + 1 BY <3>2
      <4>2. a[i + 1] = F[<<i, a[i]>>] BY <2>1, <4>1 DEF Iterates
      <4> QED BY <4>1, <4>2
    <3> QED BY <3>1, <3>2
  <2>7. Iterates(T, x0, F, n + 1, b)
    <3> HIDE DEF b
    <3> QED BY <2>4, <2>5, <2>6 DEF Iterates
  <2> QED BY <2>7
<1> HIDE DEF S
<1>3. Nat \subseteq S BY <1>1, <1>2, SetInduction
<1> QED BY <1>3 DEF S

IsIteration(T, x0, F, g) ==
  /\ g \in [Nat -> T]
  /\ g[0] = x0
  /\ \A n \in Nat : g[n + 1] = F[<<n, g[n]>>]

(* A recursive function over the numbers exists. *)
LEMMA Iteration == ASSUME NEW T, NEW x0 \in T, NEW F \in [Nat \X T -> T] PROVE \E g : IsIteration(T, x0, F, g)
<1> DEFINE A(n) == CHOOSE a : Iterates(T, x0, F, n, a)
           g == [n \in Nat |-> A(n)[n]]
<1>1. \A n \in Nat : Iterates(T, x0, F, n, A(n)) BY IteratesExist
<1> HIDE DEF A
<1>2. \A n \in Nat : A(n)[n] \in T BY <1>1 DEF Iterates
<1>3. g[0] = x0 BY <1>1 DEF Iterates
<1>4. ASSUME NEW n \in Nat PROVE g[n + 1] = F[<<n, g[n]>>]
  <2>1. A(n + 1)[n] = A(n)[n]
    <3>1. Iterates(T, x0, F, n, A(n)) /\ Iterates(T, x0, F, n + 1, A(n + 1)) BY <1>1
    <3> QED BY <3>1, IteratesUnique
  <2>2. A(n + 1)[n + 1] = F[<<n, A(n + 1)[n]>>] BY <1>1 DEF Iterates
  <2> QED BY <2>1, <2>2
<1>5. g \in [Nat -> T] BY <1>2
<1>6. IsIteration(T, x0, F, g)
  <2> HIDE DEF g
  <2> QED BY <1>3, <1>4, <1>5 DEF IsIteration
<1> QED BY <1>6

(* The recursion of a loop: a value for each number of iterations up to n. *)
IsLoop(T, x0, n, F, f) ==
  /\ f \in [0 .. n -> T]
  /\ f[0] = x0
  /\ \A k \in 1 .. n : f[k] = F[<<k, f[k - 1]>>]

LEMMA LoopRecursion ==
  ASSUME NEW T, NEW x0 \in T, NEW n \in Nat, NEW F \in [(1 .. n) \X T -> T] PROVE \E f : IsLoop(T, x0, n, F, f)
<1> DEFINE G == [p \in Nat \X T |-> IF p[1] + 1 <= n THEN F[<<p[1] + 1, p[2]>>] ELSE x0]
<1>1. \A p \in Nat \X T : (IF p[1] + 1 <= n THEN F[<<p[1] + 1, p[2]>>] ELSE x0) \in T
  <2> SUFFICES ASSUME NEW p \in Nat \X T, p[1] + 1 <= n PROVE F[<<p[1] + 1, p[2]>>] \in T OBVIOUS
  <2>1. p[1] + 1 \in 1 .. n /\ p[2] \in T OBVIOUS
  <2>2. <<p[1] + 1, p[2]>> \in (1 .. n) \X T BY <2>1
  <2> QED BY <2>2
<1>2. G \in [Nat \X T -> T] BY <1>1
<1>3. \A k \in Nat, x \in T : G[<<k, x>>] = IF k + 1 <= n THEN F[<<k + 1, x>>] ELSE x0 OBVIOUS
<1> HIDE DEF G
<1>4. PICK g : IsIteration(T, x0, G, g) BY <1>2, Iteration
<1> DEFINE f == [k \in 0 .. n |-> g[k]]
<1>5. f \in [0 .. n -> T] BY <1>4 DEF IsIteration
<1>6. f[0] = x0 BY <1>4 DEF IsIteration
<1>7. ASSUME NEW k \in 1 .. n PROVE f[k] = F[<<k, f[k - 1]>>]
  <2>1. k - 1 \in Nat /\ (k - 1) + 1 = k /\ k - 1 \in 0 .. n /\ k \in 0 .. n /\ k <= n OBVIOUS
  <2>2. g[k - 1] \in T /\ g[k] = G[<<k - 1, g[k - 1]>>] BY <1>4, <2>1 DEF IsIteration
  <2>3. g[k] = F[<<k, g[k - 1]>>] BY <1>3, <2>1, <2>2
  <2> QED BY <2>1, <2>3
<1>8. IsLoop(T, x0, n, F, f)
  <2> HIDE DEF f
  <2> QED BY <1>5, <1>6, <1>7 DEF IsLoop
<1> QED BY <1>8

(* Recursion along a rank: when one step looks only at values of a lower rank,
   a function that satisfies the recursive equation exists. *)
IsRanked(D, T, rank, F) ==
  /\ T # {} /\ rank \in [D -> Nat] /\ F \in [[D -> T] -> [D -> T]]
  /\ \A f, h \in [D -> T] : \A x \in D :
       (\A y \in D : rank[y] < rank[x] => f[y] = h[y]) => F[f][x] = F[h][x]

LEMMA RankedRecursion ==
  ASSUME NEW D, NEW T, NEW rank, NEW F, IsRanked(D, T, rank, F) PROVE \E f \in [D -> T] : f = F[f]
<1>0. /\ T # {} /\ rank \in [D -> Nat] /\ F \in [[D -> T] -> [D -> T]]
      /\ \A f, h \in [D -> T] : \A x \in D :
           (\A y \in D : rank[y] < rank[x] => f[y] = h[y]) => F[f][x] = F[h][x] BY DEF IsRanked
<1> USE <1>0
<1> DEFINE step == [p \in Nat \X [D -> T] |-> F[p[2]]]
<1>1. PICK f0 \in [D -> T] : TRUE
  <2>1. PICK t \in T : TRUE OBVIOUS
  <2>2. [x \in D |-> t] \in [D -> T] OBVIOUS
  <2> QED BY <2>2
<1>2. step \in [Nat \X [D -> T] -> [D -> T]] OBVIOUS
<1>3. \A n \in Nat, f \in [D -> T] : step[<<n, f>>] = F[f] OBVIOUS
<1> HIDE DEF step
<1>4. PICK g : IsIteration([D -> T], f0, step, g) BY <1>1, <1>2, Iteration
<1>5. \A n \in Nat : g[n] \in [D -> T] /\ g[n + 1] = F[g[n]] BY <1>3, <1>4 DEF IsIteration
<1> DEFINE S == {n \in Nat : \A x \in D : rank[x] < n => g[n + 1][x] = g[n][x]}
<1>6. Nat \subseteq S
  <2>1. 0 \in S OBVIOUS
  <2>2. ASSUME NEW n \in Nat, n \in S PROVE n + 1 \in S
    <3> SUFFICES ASSUME NEW x \in D, rank[x] < n + 1 PROVE g[n + 2][x] = g[n + 1][x] OBVIOUS
    <3>1. \A y \in D : rank[y] < rank[x] => g[n + 1][y] = g[n][y]
      <4>1. rank[x] \in Nat /\ \A y \in D : rank[y] \in Nat OBVIOUS
      <4> QED BY <2>2, <4>1
    <3>2. F[g[n + 1]][x] = F[g[n]][x]
      <4>1. g[n + 1] \in [D -> T] /\ g[n] \in [D -> T] BY <1>5
      <4> QED BY <3>1, <4>1
    <3>3. g[n + 1] = F[g[n]] /\ g[n + 2] = F[g[n + 1]]
      <4>1. (n + 1) + 1 = n + 2 OBVIOUS
      <4> QED BY <1>5, <4>1
    <3> QED BY <3>2, <3>3
  <2> HIDE DEF S
  <2> QED BY <2>1, <2>2, SetInduction
<1>7. ASSUME NEW x \in D PROVE \A n \in Nat : rank[x] < n => g[n][x] = g[rank[x] + 1][x]
  <2> DEFINE E == {n \in Nat : rank[x] < n => g[n][x] = g[rank[x] + 1][x]}
  <2>1. 0 \in E OBVIOUS
  <2>2. ASSUME NEW n \in Nat, n \in E PROVE n + 1 \in E
    <3>1. CASE rank[x] < n BY <1>6, <2>2, <3>1
    <3>2. CASE ~(rank[x] < n) BY <3>2
    <3> QED BY <3>1, <3>2
  <2> HIDE DEF E
  <2>3. Nat \subseteq E BY <2>1, <2>2, SetInduction
  <2> QED BY <2>3 DEF E
<1> DEFINE f == [x \in D |-> g[rank[x] + 1][x]]
<1>8. f \in [D -> T] BY <1>5
<1>9. ASSUME NEW x \in D PROVE f[x] = F[f][x]
  <2>1. f[x] = F[g[rank[x]]][x] BY <1>5
  <2>2. \A y \in D : rank[y] < rank[x] => f[y] = g[rank[x]][y] BY <1>7
  <2> HIDE DEF f
  <2> QED BY <1>5, <1>8, <2>1, <2>2
<1>10. F[f] \in [D -> T] BY <1>8
<1> QED
  <2> HIDE DEF f
  <2>1. f = F[f] BY <1>8, <1>9, <1>10
  <2> QED BY <1>8, <2>1
-----------------------------------------------------------------------------
(* An element of a sequence over S is in S. *)
LEMMA ElementType == ASSUME NEW S, NEW s \in Seq(S), NEW k \in DOMAIN s PROVE s[k] \in S OBVIOUS

(* Popping the front of a sequence: what is left and what was there. *)
LEMMA TailFacts ==
  ASSUME NEW S, NEW s \in Seq(S), s # <<>>
  PROVE  /\ Head(s) \in S
         /\ Tail(s) \in Seq(S)
         /\ Len(s) \in Nat \ {0}
         /\ Head(s) = s[1]
         /\ DOMAIN Tail(s) = 1 .. Len(s) - 1
         /\ \A k \in DOMAIN Tail(s) : Tail(s)[k] = s[k + 1] OBVIOUS

LEMMA AppendFacts ==
  ASSUME NEW S, NEW s \in Seq(S), NEW e \in S
  PROVE  /\ Append(s, e) \in Seq(S)
         /\ Len(s) \in Nat
         /\ DOMAIN s = 1 .. Len(s)
         /\ DOMAIN Append(s, e) = 1 .. Len(s) + 1
         /\ \A k \in DOMAIN s : Append(s, e)[k] = s[k]
         /\ Append(s, e)[Len(s) + 1] = e OBVIOUS

(* Every element a sequence holds is its head or is in its tail. *)
LEMMA TailSplits ==
  ASSUME NEW S, NEW s \in Seq(S), s # <<>>, NEW e
  PROVE  (\E k \in DOMAIN s : s[k] = e)
           <=> (e = Head(s) \/ \E k \in DOMAIN Tail(s) : Tail(s)[k] = e)
<1>1. ASSUME NEW k \in DOMAIN s, s[k] = e, k # 1 PROVE \E j \in DOMAIN Tail(s) : Tail(s)[j] = e
  <2>1. /\ k - 1 \in DOMAIN Tail(s)
        /\ Tail(s)[k - 1] = s[k] BY <1>1, TailFacts
  <2> QED BY <2>1, <1>1
<1>2. ASSUME NEW j \in DOMAIN Tail(s), Tail(s)[j] = e PROVE \E k \in DOMAIN s : s[k] = e
  <2>1. /\ j + 1 \in DOMAIN s
        /\ Tail(s)[j] = s[j + 1] BY <1>2, TailFacts
  <2> QED BY <2>1, <1>2
<1>3. Head(s) = s[1] /\ 1 \in DOMAIN s BY TailFacts
<1> QED BY <1>1, <1>2, <1>3

(* Vec::pop: what is left and what was there. *)
LEMMA FrontFacts ==
  ASSUME NEW S, NEW s \in Seq(S), s # <<>>
  PROVE  /\ Front(s) \in Seq(S)
         /\ Last(s) \in S
         /\ Len(s) \in Nat \ {0}
         /\ Last(s) = s[Len(s)]
         /\ DOMAIN s = 1 .. Len(s)
         /\ DOMAIN Front(s) = 1 .. Len(s) - 1
         /\ \A k \in DOMAIN Front(s) : Front(s)[k] = s[k]
<1>1. Len(s) \in Nat \ {0} /\ DOMAIN s = 1 .. Len(s) OBVIOUS
<1>2. Front(s) = SubSeq(s, 1, Len(s) - 1) BY DEF Front
<1>3. /\ SubSeq(s, 1, Len(s) - 1) \in Seq(S)
      /\ Len(SubSeq(s, 1, Len(s) - 1)) = Len(s) - 1
      /\ \A k \in 1 .. Len(s) - 1 : SubSeq(s, 1, Len(s) - 1)[k] = s[k] BY <1>1
<1>4. Last(s) = s[Len(s)] BY DEF Last
<1>5. Last(s) \in S BY <1>1, <1>4
<1> QED BY <1>1, <1>2, <1>3, <1>4, <1>5

(* Skipping the first element is what popping the front leaves. *)
LEMMA SubSeqTail == ASSUME NEW S, NEW s \in Seq(S), s # <<>> PROVE SubSeq(s, 2, Len(s)) = Tail(s) OBVIOUS

(* Vec::remove: the elements after the removed one move down by one. *)
LEMMA RemoveAtFacts ==
  ASSUME NEW S, NEW s \in Seq(S), NEW k \in DOMAIN s
  PROVE  /\ RemoveAt(s, k) \in Seq(S)
         /\ Len(s) \in Nat
         /\ DOMAIN s = 1 .. Len(s)
         /\ DOMAIN RemoveAt(s, k) = 1 .. Len(s) - 1
         /\ \A j \in 1 .. k - 1 : RemoveAt(s, k)[j] = s[j]
         /\ \A j \in k .. Len(s) - 1 : RemoveAt(s, k)[j] = s[j + 1]
<1> DEFINE before == SubSeq(s, 1, k - 1)
           after == SubSeq(s, k + 1, Len(s))
<1>1. Len(s) \in Nat /\ DOMAIN s = 1 .. Len(s) /\ k \in 1 .. Len(s) OBVIOUS
<1>2. /\ before \in Seq(S)
      /\ Len(before) = k - 1
      /\ \A j \in 1 .. k - 1 : before[j] = s[j] BY <1>1
<1>3. /\ after \in Seq(S)
      /\ Len(after) = Len(s) - k
      /\ \A j \in 1 .. Len(s) - k : after[j] = s[k + j] BY <1>1
<1>4. RemoveAt(s, k) = before \o after BY DEF RemoveAt
<1> HIDE DEF before, after
<1>5. /\ RemoveAt(s, k) \in Seq(S)
      /\ Len(RemoveAt(s, k)) = (k - 1) + (Len(s) - k)
      /\ \A j \in 1 .. (k - 1) + (Len(s) - k) :
           RemoveAt(s, k)[j] = IF j <= k - 1 THEN before[j] ELSE after[j - (k - 1)]
  <2>1. /\ before \o after \in Seq(S)
        /\ Len(before \o after) = Len(before) + Len(after)
        /\ \A j \in 1 .. Len(before) + Len(after) :
             (before \o after)[j] =
               IF j <= Len(before) THEN before[j] ELSE after[j - Len(before)]
    <3>1. before \in Seq(S) /\ after \in Seq(S) BY <1>2, <1>3
    <3> QED BY <3>1, ConcatProperties
  <2>2. Len(before) = k - 1 /\ Len(after) = Len(s) - k BY <1>2, <1>3
  <2> QED BY <2>1, <2>2, <1>4
<1>6. DOMAIN RemoveAt(s, k) = 1 .. Len(s) - 1 BY <1>1, <1>5
<1>7. ASSUME NEW j \in k .. Len(s) - 1 PROVE RemoveAt(s, k)[j] = s[j + 1]
  <2>1. RemoveAt(s, k)[j] = after[j - (k - 1)] BY <1>1, <1>5
  <2>2. j - (k - 1) \in 1 .. Len(s) - k /\ k + (j - (k - 1)) = j + 1 BY <1>1
  <2> QED BY <1>3, <2>1, <2>2
<1>8. ASSUME NEW j \in 1 .. k - 1 PROVE RemoveAt(s, k)[j] = s[j] BY <1>1, <1>2, <1>5
<1> QED BY <1>1, <1>5, <1>6, <1>7, <1>8

(* The same as sets: what remains is what was there at another index. *)
LEMMA RemovedElements ==
  ASSUME NEW S, NEW s \in Seq(S), NEW k \in DOMAIN s
  PROVE  /\ RemoveAt(s, k) \in Seq(S)
         /\ \A j \in DOMAIN RemoveAt(s, k) :
              \E i \in DOMAIN s \ {k} : RemoveAt(s, k)[j] = s[i]
         /\ \A i \in DOMAIN s \ {k} :
              \E j \in DOMAIN RemoveAt(s, k) : RemoveAt(s, k)[j] = s[i]
<1> DEFINE t == RemoveAt(s, k)
<1>0. /\ t \in Seq(S)
      /\ Len(s) \in Nat
      /\ DOMAIN s = 1 .. Len(s)
      /\ DOMAIN t = 1 .. Len(s) - 1
      /\ \A j \in 1 .. k - 1 : t[j] = s[j]
      /\ \A j \in k .. Len(s) - 1 : t[j] = s[j + 1] BY RemoveAtFacts
<1> HIDE DEF t
<1>1. ASSUME NEW j \in DOMAIN t PROVE \E i \in DOMAIN s \ {k} : t[j] = s[i]
  <2>1. CASE j < k
    <3>1. j \in DOMAIN s \ {k} /\ t[j] = s[j] BY <2>1, <1>0
    <3> QED BY <3>1
  <2>2. CASE ~(j < k)
    <3>1. j + 1 \in DOMAIN s \ {k} /\ t[j] = s[j + 1] BY <2>2, <1>0
    <3> QED BY <3>1
  <2> QED BY <2>1, <2>2
<1>2. ASSUME NEW i \in DOMAIN s \ {k} PROVE \E j \in DOMAIN t : t[j] = s[i]
  <2>1. CASE i < k
    <3>1. i \in DOMAIN t /\ t[i] = s[i] BY <2>1, <1>0
    <3> QED BY <3>1
  <2>2. CASE ~(i < k)
    <3>1. i - 1 \in DOMAIN t /\ i - 1 \in k .. Len(s) - 1 /\ (i - 1) + 1 = i BY <2>2, <1>0
    <3>2. t[i - 1] = s[i] BY <3>1, <1>0
    <3> QED BY <3>1, <3>2
  <2> QED BY <2>1, <2>2
<1> QED BY <1>0, <1>1, <1>2 DEF t

-----------------------------------------------------------------------------
(* Vec::extend: the elements of both. *)
LEMMA ConcatElements == ASSUME NEW S, NEW a \in Seq(S), NEW b \in Seq(S) PROVE ToSet(a \o b) = ToSet(a) \cup ToSet(b)
<1>1. PICK m \in Nat, n \in Nat : m = Len(a) /\ n = Len(b) OBVIOUS
<1>2. DOMAIN a = 1 .. m /\ DOMAIN b = 1 .. n /\ DOMAIN (a \o b) = 1 .. m + n BY <1>1
<1>3. \A k \in 1 .. m : (a \o b)[k] = a[k] BY <1>1
<1>4. \A k \in 1 .. n : (a \o b)[m + k] = b[k] BY <1>1
<1>5. \A k \in 1 .. m + n : k \in 1 .. m \/ (k - m \in 1 .. n /\ k = m + (k - m)) OBVIOUS
<1>6. \A k \in 1 .. n : m + k \in 1 .. m + n OBVIOUS
<1>7. \A k \in 1 .. m : k \in 1 .. m + n OBVIOUS
<1>8. ASSUME NEW e PROVE e \in ToSet(a \o b) <=> e \in ToSet(a) \/ e \in ToSet(b)
  <2>1. e \in ToSet(a) => e \in ToSet(a \o b) BY <1>2, <1>3, <1>7 DEF ToSet
  <2>2. e \in ToSet(b) => e \in ToSet(a \o b) BY <1>2, <1>4, <1>6 DEF ToSet
  <2>3. ASSUME NEW k \in DOMAIN (a \o b) PROVE (a \o b)[k] \in ToSet(a) \cup ToSet(b)
    <3>1. CASE k \in 1 .. m BY <1>2, <1>3, <3>1 DEF ToSet
    <3>2. CASE k - m \in 1 .. n /\ k = m + (k - m) BY <1>2, <1>4, <3>2 DEF ToSet
    <3> QED BY <1>2, <1>5, <3>1, <3>2
  <2> QED BY <2>1, <2>2, <2>3 DEF ToSet
<1> QED BY <1>8

(* At most one index holds an element of X. *)
OnceIn(s, X) == \A i, j \in DOMAIN s : s[i] \in X /\ s[j] \in X => i = j

LEMMA ConcatOnce ==
  ASSUME NEW S, NEW a \in Seq(S), NEW b \in Seq(S), NEW X,
         OnceIn(a, X), OnceIn(b, X),
         ToSet(a) \cap X = {} \/ ToSet(b) \cap X = {}
  PROVE  OnceIn(a \o b, X)
<1>1. PICK m \in Nat : m = Len(a) OBVIOUS
<1>2. PICK n \in Nat : n = Len(b) OBVIOUS
<1>3. DOMAIN a = 1 .. m /\ DOMAIN b = 1 .. n /\ DOMAIN (a \o b) = 1 .. m + n BY <1>1, <1>2
<1>4. ASSUME NEW k \in 1 .. m + n
      PROVE  \/ k \in 1 .. m /\ (a \o b)[k] = a[k]
             \/ k - m \in 1 .. n /\ (a \o b)[k] = b[k - m] BY <1>1, <1>2
<1> DEFINE ab == a \o b
<1> HIDE DEF ab
<1>5. SUFFICES ASSUME NEW i \in 1 .. m + n, NEW j \in 1 .. m + n, ab[i] \in X, ab[j] \in X
               PROVE  i = j BY <1>3 DEF OnceIn, ab
<1>6. /\ \/ i \in 1 .. m /\ ab[i] = a[i]
         \/ i - m \in 1 .. n /\ ab[i] = b[i - m]
      /\ \/ j \in 1 .. m /\ ab[j] = a[j]
         \/ j - m \in 1 .. n /\ ab[j] = b[j - m] BY <1>4 DEF ab
<1>7. CASE ToSet(a) \cap X = {}
  <2>1. \A k \in 1 .. m : a[k] \notin X BY <1>3, <1>7 DEF ToSet
  <2>2. i - m \in 1 .. n /\ j - m \in 1 .. n /\ b[i - m] \in X /\ b[j - m] \in X BY <1>5, <1>6, <2>1
  <2>3. i - m = j - m BY <1>3, <2>2 DEF OnceIn
  <2> QED BY <2>3
<1>8. CASE ToSet(b) \cap X = {}
  <2>1. \A k \in 1 .. n : b[k] \notin X BY <1>3, <1>8 DEF ToSet
  <2>2. i \in 1 .. m /\ j \in 1 .. m /\ a[i] \in X /\ a[j] \in X BY <1>5, <1>6, <2>1
  <2> QED BY <1>3, <2>2 DEF OnceIn
<1> QED BY <1>7, <1>8

(* A loop that extends a vector: the lists c[1], ..., c[n] in a row. *)
IsListing(S, n, c, f) ==
  /\ c \in [1 .. n -> Seq(S)]
  /\ f[0] = <<>>
  /\ \A k \in 1 .. n : f[k] = f[k - 1] \o c[k]

LEMMA ListingExists ==
  ASSUME NEW S, NEW n \in Nat, NEW c \in [1 .. n -> Seq(S)] PROVE \E f \in [0 .. n -> Seq(S)] : IsListing(S, n, c, f)
<1> DEFINE T == Seq(S)
           F == [p \in (1 .. n) \X T |-> p[2] \o c[p[1]]]
<1>1. <<>> \in T OBVIOUS
<1>2. \A p \in (1 .. n) \X T : p[2] \o c[p[1]] \in T OBVIOUS
<1>3. F \in [(1 .. n) \X T -> T] BY <1>2
<1>4. \A k \in 1 .. n, s \in T : F[<<k, s>>] = s \o c[k] OBVIOUS
<1> HIDE DEF F, T
<1>5. PICK f : IsLoop(T, <<>>, n, F, f) BY <1>1, <1>3, LoopRecursion
<1>6. f \in [0 .. n -> T] /\ f[0] = <<>> /\ \A k \in 1 .. n : f[k] = F[<<k, f[k - 1]>>] BY <1>5 DEF IsLoop
<1>7. \A k \in 1 .. n : k - 1 \in 0 .. n OBVIOUS
<1>8. \A k \in 1 .. n : f[k] = f[k - 1] \o c[k] BY <1>4, <1>6, <1>7
<1> QED BY <1>6, <1>8 DEF IsListing, T

ListsAll(S, n, c, s) ==
  /\ s \in Seq(S)
  /\ \A e : e \in ToSet(s) <=> \E k \in 1 .. n : e \in ToSet(c[k])

LEMMA ListingElements ==
  ASSUME NEW S, NEW n \in Nat, NEW c, NEW f, IsListing(S, n, c, f) PROVE ListsAll(S, n, c, f[n])
<1> DEFINE Listed(m) == /\ f[m] \in Seq(S)
                        /\ \A e : e \in ToSet(f[m]) <=> \E k \in 1 .. m : e \in ToSet(c[k])
           M == {m \in Nat : m <= n => Listed(m)}
<1>1. 0 \in M
  <2>1. f[0] = <<>> /\ ToSet(<<>>) = {} /\ 1 .. 0 = {} BY DEF IsListing, ToSet
  <2>2. f[0] \in Seq(S) BY <2>1
  <2> QED BY <2>1, <2>2
<1>2. ASSUME NEW m \in Nat, m \in M PROVE m + 1 \in M
  <2> SUFFICES ASSUME m + 1 <= n PROVE Listed(m + 1) OBVIOUS
  <2>1. m <= n /\ m + 1 \in 1 .. n /\ (m + 1) - 1 = m OBVIOUS
  <2>2. Listed(m) /\ f[m + 1] = f[m] \o c[m + 1] /\ c[m + 1] \in Seq(S) BY <1>2, <2>1 DEF IsListing
  <2>3. f[m] \o c[m + 1] \in Seq(S) BY <2>2
  <2>4. ToSet(f[m] \o c[m + 1]) = ToSet(f[m]) \cup ToSet(c[m + 1]) BY <2>2, ConcatElements
  <2>5. \A k : k \in 1 .. m + 1 <=> k \in 1 .. m \/ k = m + 1 OBVIOUS
  <2> QED BY <2>2, <2>3, <2>4, <2>5
<1> HIDE DEF M
<1>3. n \in M BY <1>1, <1>2, SetInduction
<1> QED BY <1>3 DEF M, ListsAll

LEMMA ListingPrefix ==
  ASSUME NEW S, NEW n \in Nat, NEW c, NEW f, IsListing(S, n, c, f),
         NEW m \in Nat, m <= n
  PROVE  ListsAll(S, m, c, f[m])
<1> DEFINE d == [k \in 1 .. m |-> c[k]]
<1>1. /\ c \in [1 .. n -> Seq(S)] /\ f[0] = <<>>
      /\ \A k \in 1 .. n : f[k] = f[k - 1] \o c[k] BY DEF IsListing
<1>2. \A k \in 1 .. m : k \in 1 .. n OBVIOUS
<1>3. d \in [1 .. m -> Seq(S)] BY <1>1, <1>2
<1>4. \A k \in 1 .. m : d[k] = c[k] OBVIOUS
<1> HIDE DEF d
<1>5. IsListing(S, m, d, f) BY <1>1, <1>2, <1>3, <1>4 DEF IsListing
<1>6. /\ f[m] \in Seq(S)
      /\ \A e : e \in ToSet(f[m]) <=> \E k \in 1 .. m : e \in ToSet(d[k]) BY <1>5, ListingElements DEF ListsAll
<1>7. \A k \in 1 .. m : ToSet(d[k]) = ToSet(c[k]) BY <1>4
<1> QED BY <1>6, <1>7 DEF ListsAll

(* When a single list has elements of X, and has one, so has the whole. *)
OnceAmong(n, c, X) ==
  /\ \A k \in 1 .. n : OnceIn(c[k], X)
  /\ \A k, m \in 1 .. n :
       ToSet(c[k]) \cap X # {} /\ ToSet(c[m]) \cap X # {} => k = m

LEMMA ListingOnce ==
  ASSUME NEW S, NEW n \in Nat, NEW c, NEW f, IsListing(S, n, c, f),
         NEW X, OnceAmong(n, c, X)
  PROVE  OnceIn(f[n], X)
<1> DEFINE M == {m \in Nat : m <= n => OnceIn(f[m], X)}
<1>1. 0 \in M BY DEF IsListing, OnceIn
<1>2. ASSUME NEW m \in Nat, m \in M PROVE m + 1 \in M
  <2> SUFFICES ASSUME m + 1 <= n PROVE OnceIn(f[m + 1], X) OBVIOUS
  <2>1. m <= n /\ m + 1 \in 1 .. n /\ (m + 1) - 1 = m OBVIOUS
  <2>2. OnceIn(f[m], X) /\ f[m + 1] = f[m] \o c[m + 1] /\ c[m + 1] \in Seq(S) BY <1>2, <2>1 DEF IsListing
  <2>4. /\ f[m] \in Seq(S)
        /\ \A e : e \in ToSet(f[m]) <=> \E k \in 1 .. m : e \in ToSet(c[k])
    <3>1. m <= n BY <2>1
    <3>2. ListsAll(S, m, c, f[m]) BY <3>1, ListingPrefix
    <3> QED BY <3>2 DEF ListsAll
  <2>5. ToSet(f[m]) \cap X = {} \/ ToSet(c[m + 1]) \cap X = {}
    <3> SUFFICES ASSUME NEW e \in ToSet(f[m]), e \in X, ToSet(c[m + 1]) \cap X # {} PROVE FALSE OBVIOUS
    <3>1. PICK k \in 1 .. m : e \in ToSet(c[k]) BY <2>4
    <3>2. k \in 1 .. n /\ k # m + 1 BY <2>1
    <3> QED BY <2>1, <3>1, <3>2 DEF OnceAmong
  <2>6. OnceIn(c[m + 1], X) BY <2>1 DEF OnceAmong
  <2> QED BY <2>2, <2>4, <2>5, <2>6, ConcatOnce
<1> HIDE DEF M
<1>3. n \in M BY <1>1, <1>2, SetInduction
<1> QED BY <1>3 DEF M
=============================================================================
