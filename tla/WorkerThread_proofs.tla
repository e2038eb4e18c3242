------------------------ MODULE WorkerThread_proofs -------------------------
(* Proofs about WorkerThread, for any tasks, threads and delays: its queues, *)
(* its types, what Cancel promises, that it implements TaskDispatcher, that  *)
(* no task runs early, that the worker does not oversleep, and that Join     *)
(* runs what is due.                                                         *)
EXTENDS WorkerThread, SequenceTheorems, WellFoundedInduction, TLAPS

-----------------------------------------------------------------------------
(* The queues as sequences of tasks: what inserting, erasing and taking the  *)
(* first keep of their elements and order                                    *)

\* No task is twice in a queue.
NoDup(s) == \A i, j \in 1..Len(s) : s[i] = s[j] => i = j

\* A queue is in the order of the times given.
Sorted(s, time) == \A i, j \in 1..Len(s) : i < j => time[s[i]] <= time[s[j]]

\* What the elements of a sequence are.
LEMMA ElementsOf ==
    ASSUME NEW S, NEW s \in Seq(S)
    PROVE  /\ Elements(s) = {s[i] : i \in 1..Len(s)}
           /\ Elements(s) \subseteq S
           /\ Elements(s) = {} <=> s = <<>>
  BY DEF Elements

\* Concatenation, position by position.
LEMMA Concat ==
    ASSUME NEW S, NEW u \in Seq(S), NEW v \in Seq(S)
    PROVE  /\ u \o v \in Seq(S)
           /\ Len(u \o v) = Len(u) + Len(v)
           /\ \A j \in 1..Len(u) : (u \o v)[j] = u[j]
           /\ \A j \in 1..Len(v) : (u \o v)[Len(u) + j] = v[j]
<1>1. /\ u \o v \in Seq(S) /\ Len(u \o v) = Len(u) + Len(v)
      /\ \A i \in 1..Len(u) + Len(v) : (u \o v)[i] = IF i <= Len(u) THEN u[i] ELSE v[i - Len(u)]
  BY ConcatProperties, Zenon
<1>2. Len(u) \in Nat /\ Len(v) \in Nat
  OBVIOUS
<1> DEFINE r == u \o v
           m == Len(u)
           n == Len(v)
<1> HIDE DEF r, m, n
<1>3. \A i \in 1..m + n : r[i] = IF i <= m THEN u[i] ELSE v[i - m]
  BY <1>1, Zenon DEF r, m, n
<1>4. \A j \in 1..m : r[j] = u[j]
  BY <1>2, <1>3 DEF m, n
<1>5. ASSUME NEW j \in 1..n PROVE r[m + j] = v[j]
  <2>1. m + j \in 1..m + n /\ ~(m + j <= m) /\ (m + j) - m = j
    BY <1>2 DEF m, n
  <2> QED
    BY <1>3, <2>1, Zenon
<1> QED
  BY <1>1, <1>4, <1>5, Zenon DEF r, m, n

\* r is s with a after the first n elements.
IsInserted(r, s, n, a, S) ==
    /\ r \in Seq(S)
    /\ Len(r) = Len(s) + 1
    /\ \A j \in 1..n : r[j] = s[j]
    /\ r[n + 1] = a
    /\ \A j \in n + 1..Len(s) : r[j + 1] = s[j]

\* std::list::insert before position n + 1.
LEMMA InsertedSeq ==
    ASSUME NEW S, NEW s \in Seq(S), NEW a \in S, NEW n \in 0..Len(s)
    PROVE  IsInserted(Inserted(s, n, a), s, n, a, S)
<1>1. /\ SubSeq(s, 1, n) \in Seq(S) /\ Len(SubSeq(s, 1, n)) = n
      /\ \A j \in 1..n : SubSeq(s, 1, n)[j] = s[j]
  BY SubSeqProperties
<1>2. /\ SubSeq(s, n + 1, Len(s)) \in Seq(S) /\ Len(SubSeq(s, n + 1, Len(s))) = Len(s) - n
      /\ \A j \in 1..Len(s) - n : SubSeq(s, n + 1, Len(s))[j] = s[n + j]
  BY SubSeqProperties
<1> DEFINE u == SubSeq(s, 1, n)
           v == SubSeq(s, n + 1, Len(s))
<1> HIDE DEF u, v
<1>3. /\ u \o <<a>> \in Seq(S) /\ Len(u \o <<a>>) = n + 1
      /\ \A j \in 1..n : (u \o <<a>>)[j] = s[j]
      /\ (u \o <<a>>)[n + 1] = a
  BY <1>1 DEF u
<1> DEFINE w == u \o <<a>>
<1> HIDE DEF w
<1>4. /\ w \o v \in Seq(S) /\ Len(w \o v) = Len(s) + 1
      /\ \A j \in 1..n + 1 : (w \o v)[j] = w[j]
      /\ \A j \in 1..Len(s) - n : (w \o v)[n + 1 + j] = v[j]
  <2>1. w \in Seq(S) /\ v \in Seq(S)
    BY <1>2, <1>3, Zenon DEF v, w
  <2>2. Len(w) = n + 1 /\ Len(v) = Len(s) - n /\ Len(s) \in Nat
    BY <1>2, <1>3 DEF v, w
  <2>3. /\ w \o v \in Seq(S) /\ Len(w \o v) = Len(w) + Len(v)
        /\ \A j \in 1..Len(w) : (w \o v)[j] = w[j]
        /\ \A j \in 1..Len(v) : (w \o v)[Len(w) + j] = v[j]
    BY <2>1, Concat
  <2> QED
    BY <2>2, <2>3, SMTT(30)
<1>5. Inserted(s, n, a) = w \o v
  BY Zenon DEF Inserted, u, v, w
<1>6. ASSUME NEW j \in n + 1..Len(s) PROVE (w \o v)[j + 1] = s[j]
  <2>1. j - n \in 1..Len(s) - n /\ n + 1 + (j - n) = j + 1 /\ n + (j - n) = j
    OBVIOUS
  <2> QED
    BY <1>2, <1>4, <2>1 DEF v
<1> QED
  BY <1>3, <1>4, <1>5, <1>6 DEF w, IsInserted

\* std::list::erase.
LEMMA ErasedSeq ==
    ASSUME NEW S, NEW s \in Seq(S), NEW n \in 1..Len(s)
    PROVE  /\ Erased(s, n) \in Seq(S)
           /\ Len(Erased(s, n)) = Len(s) - 1
           /\ \A j \in 1..n - 1 : Erased(s, n)[j] = s[j]
           /\ \A j \in n..Len(s) - 1 : Erased(s, n)[j] = s[j + 1]
<1>1. /\ SubSeq(s, 1, n - 1) \in Seq(S) /\ Len(SubSeq(s, 1, n - 1)) = n - 1
      /\ \A j \in 1..n - 1 : SubSeq(s, 1, n - 1)[j] = s[j]
  BY SubSeqProperties
<1>2. /\ SubSeq(s, n + 1, Len(s)) \in Seq(S) /\ Len(SubSeq(s, n + 1, Len(s))) = Len(s) - n
      /\ \A j \in 1..Len(s) - n : SubSeq(s, n + 1, Len(s))[j] = s[n + j]
  BY SubSeqProperties
<1> DEFINE u == SubSeq(s, 1, n - 1)
           v == SubSeq(s, n + 1, Len(s))
<1> HIDE DEF u, v
<1>3. /\ u \o v \in Seq(S) /\ Len(u \o v) = Len(s) - 1
      /\ \A j \in 1..n - 1 : (u \o v)[j] = u[j]
      /\ \A j \in 1..Len(s) - n : (u \o v)[n - 1 + j] = v[j]
  <2>1. u \in Seq(S) /\ v \in Seq(S) /\ Len(u) = n - 1 /\ Len(v) = Len(s) - n
    BY <1>1, <1>2, Zenon DEF u, v
  <2>2. /\ u \o v \in Seq(S) /\ Len(u \o v) = Len(u) + Len(v)
        /\ \A j \in 1..Len(u) : (u \o v)[j] = u[j]
        /\ \A j \in 1..Len(v) : (u \o v)[Len(u) + j] = v[j]
    <3>1. u \in Seq(S) /\ v \in Seq(S)
      BY <2>1, Zenon
    <3> QED
      BY <3>1, Concat
  <2>3. Len(s) \in Nat /\ (n - 1) + (Len(s) - n) = Len(s) - 1
    OBVIOUS
  <2> QED
    BY <2>1, <2>2, <2>3, Zenon
<1>4. ASSUME NEW j \in n..Len(s) - 1 PROVE (u \o v)[j] = s[j + 1]
  <2>1. j - n + 1 \in 1..Len(s) - n /\ n - 1 + (j - n + 1) = j /\ n + (j - n + 1) = j + 1
    OBVIOUS
  <2> QED
    BY <1>2, <1>3, <2>1 DEF v
<1> QED
  BY <1>1, <1>3, <1>4, Zenon DEF Erased, u, v

\* Insertion adds an element, once.
LEMMA InsertedElements ==
    ASSUME NEW S, NEW s \in Seq(S), NEW a \in S, NEW n \in 0..Len(s), a \notin Elements(s), NoDup(s)
    PROVE  /\ Elements(Inserted(s, n, a)) = Elements(s) \cup {a}
           /\ NoDup(Inserted(s, n, a))
<1> DEFINE r == Inserted(s, n, a)
<1>1. /\ r \in Seq(S) /\ Len(r) = Len(s) + 1
      /\ \A j \in 1..n : r[j] = s[j]
      /\ r[n + 1] = a
      /\ \A j \in n + 1..Len(s) : r[j + 1] = s[j]
  <2>1. IsInserted(Inserted(s, n, a), s, n, a, S)
    BY InsertedSeq, Zenon
  <2> HIDE DEF r
  <2>2. IsInserted(r, s, n, a, S)
    BY <2>1, Zenon DEF r
  <2> QED
    BY <2>2, Zenon DEF IsInserted
<1> HIDE DEF r
<1>2. Elements(r) = {r[i] : i \in 1..Len(r)} /\ Elements(s) = {s[i] : i \in 1..Len(s)}
  BY <1>1, ElementsOf, Zenon
<1>3. \A i \in 1..Len(r) : \/ i = n + 1
                           \/ i <= n /\ i \in 1..Len(s) /\ r[i] = s[i]
                           \/ i > n + 1 /\ i - 1 \in 1..Len(s) /\ r[i] = s[i - 1]
  <2>1. SUFFICES ASSUME NEW i \in 1..Len(r), i > n + 1
                 PROVE  i - 1 \in 1..Len(s) /\ r[i] = s[i - 1]
    BY <1>1
  <2>2. i - 1 \in n + 1..Len(s) /\ (i - 1) + 1 = i
    BY <1>1, <2>1
  <2> QED
    BY <1>1, <2>2
<1>4. \A i \in 1..Len(s) : \E j \in 1..Len(r) : r[j] = s[i]
  <2>1. SUFFICES ASSUME NEW i \in 1..Len(s) PROVE \E j \in 1..Len(r) : r[j] = s[i]
    BY Zenon
  <2>2. CASE i <= n
    BY <1>1, <2>2
  <2>3. CASE i > n
    <3>1. i + 1 \in 1..Len(r) /\ r[i + 1] = s[i]
      BY <1>1, <2>3
    <3> QED
      BY <3>1, Zenon
  <2> QED
    BY <2>2, <2>3
<1>5. Elements(r) = Elements(s) \cup {a}
  <2>1. ASSUME NEW x \in Elements(r) PROVE x \in Elements(s) \cup {a}
    <3>1. PICK i \in 1..Len(r) : x = r[i]
      BY <1>2, Zenon
    <3>2. r[i] = a \/ \E j \in 1..Len(s) : r[i] = s[j]
      BY <1>1, <1>3, Zenon
    <3> QED
      BY <1>2, <3>1, <3>2, Zenon
  <2>2. n + 1 \in 1..Len(r)
    BY <1>1
  <2>3. a \in Elements(r)
    BY <1>1, <1>2, <2>2, Zenon
  <2>4. Elements(s) \subseteq Elements(r)
    BY <1>2, <1>4, Zenon
  <2> QED
    BY <2>1, <2>3, <2>4, Zenon
<1>6. NoDup(r)
  <2>1. SUFFICES ASSUME NEW i \in 1..Len(r), NEW j \in 1..Len(r), r[i] = r[j] PROVE i = j
    BY Zenon DEF NoDup
  <2>2. \A k \in 1..Len(s) : s[k] # a
    BY <1>2, Zenon
  <2>3. CASE i = n + 1
    BY <1>1, <1>3, <2>1, <2>2, <2>3, Zenon
  <2>4. CASE j = n + 1
    BY <1>1, <1>3, <2>1, <2>2, <2>4, Zenon
  <2>5. CASE i # n + 1 /\ j # n + 1
    <3>1. PICK k \in 1..Len(s) : r[i] = s[k] /\ ((i <= n /\ k = i) \/ (i > n + 1 /\ k = i - 1))
      <4>1. \/ i <= n /\ i \in 1..Len(s) /\ r[i] = s[i]
            \/ i > n + 1 /\ i - 1 \in 1..Len(s) /\ r[i] = s[i - 1]
        BY <1>3, <2>5, Zenon
      <4> QED
        BY <4>1, Zenon
    <3>2. PICK l \in 1..Len(s) : r[j] = s[l] /\ ((j <= n /\ l = j) \/ (j > n + 1 /\ l = j - 1))
      <4>1. \/ j <= n /\ j \in 1..Len(s) /\ r[j] = s[j]
            \/ j > n + 1 /\ j - 1 \in 1..Len(s) /\ r[j] = s[j - 1]
        BY <1>3, <2>5, Zenon
      <4> QED
        BY <4>1, Zenon
    <3>3. k = l
      BY <2>1, <3>1, <3>2, Zenon DEF NoDup
    <3> QED
      BY <3>1, <3>2, <3>3
  <2> QED
    BY <2>3, <2>4, <2>5, Zenon
<1> QED
  BY <1>5, <1>6, Zenon DEF r

\* Erasure removes one.
LEMMA ErasedElements ==
    ASSUME NEW S, NEW s \in Seq(S), NEW n \in 1..Len(s), NoDup(s)
    PROVE  /\ Elements(Erased(s, n)) = Elements(s) \ {s[n]}
           /\ NoDup(Erased(s, n))
<1> DEFINE r == Erased(s, n)
<1>1. /\ r \in Seq(S) /\ Len(r) = Len(s) - 1
      /\ \A j \in 1..n - 1 : r[j] = s[j]
      /\ \A j \in n..Len(s) - 1 : r[j] = s[j + 1]
  BY ErasedSeq, Zenon
<1> HIDE DEF r
<1>2. Elements(r) = {r[i] : i \in 1..Len(r)} /\ Elements(s) = {s[i] : i \in 1..Len(s)}
  BY <1>1, ElementsOf, Zenon
<1>3. \A i \in 1..Len(r) : \/ i < n /\ r[i] = s[i] /\ i \in 1..Len(s)
                           \/ i >= n /\ r[i] = s[i + 1] /\ i + 1 \in 1..Len(s)
  BY <1>1
<1>4. ASSUME NEW i \in 1..Len(s), i # n PROVE \E j \in 1..Len(r) : r[j] = s[i]
  <2>1. CASE i < n
    BY <1>1, <2>1
  <2>2. CASE i > n
    <3>1. i - 1 \in n..Len(s) - 1 /\ (i - 1) + 1 = i
      BY <2>2
    <3>2. i - 1 \in 1..Len(r) /\ r[i - 1] = s[i]
      BY <1>1, <3>1
    <3> QED
      BY <3>2, Zenon
  <2> QED
    BY <1>4, <2>1, <2>2
<1>5. ASSUME NEW x \in Elements(r) PROVE x \in Elements(s) /\ x # s[n]
  <2>1. PICK i \in 1..Len(r) : x = r[i]
    BY <1>2, Zenon
  <2> QED
    BY <1>2, <1>3, <2>1, SMTT(30) DEF NoDup
<1>6. ASSUME NEW x \in Elements(s), x # s[n] PROVE x \in Elements(r)
  BY <1>2, <1>4, <1>6, Zenon
<1>7. NoDup(r)
  <2> SUFFICES ASSUME NEW i \in 1..Len(r), NEW j \in 1..Len(r), r[i] = r[j] PROVE i = j
    BY Zenon DEF NoDup
  <2> DEFINE At(k) == IF k < n THEN k ELSE k + 1
  <2>1. \A k \in 1..Len(r) : At(k) \in 1..Len(s) /\ r[k] = s[At(k)]
    BY <1>3
  <2>2. At(i) = At(j)
    <3> HIDE DEF At
    <3>1. At(i) \in 1..Len(s) /\ At(j) \in 1..Len(s) /\ s[At(i)] = s[At(j)]
      BY <2>1, Zenon
    <3> QED
      BY <3>1, Zenon DEF NoDup
  <2>3. i \in Nat /\ j \in Nat /\ n \in Nat
    OBVIOUS
  <2> QED
    BY <2>2, <2>3
<1> QED
  BY <1>5, <1>6, <1>7, Zenon DEF r

\* push_back and pop_front.
LEMMA AppendElements ==
    ASSUME NEW S, NEW s \in Seq(S), NEW a \in S
    PROVE  /\ Append(s, a) \in Seq(S)
           /\ Elements(Append(s, a)) = Elements(s) \cup {a}
           /\ NoDup(s) /\ a \notin Elements(s) => NoDup(Append(s, a))
<1> DEFINE r == Append(s, a)
<1>1. /\ r \in Seq(S) /\ Len(r) = Len(s) + 1
      /\ \A i \in 1..Len(s) : r[i] = s[i]
      /\ r[Len(s) + 1] = a
  BY AppendProperties
<1> HIDE DEF r
<1>2. Elements(r) = {r[i] : i \in 1..Len(r)} /\ Elements(s) = {s[i] : i \in 1..Len(s)}
  BY <1>1, ElementsOf, Zenon
<1>3. \A i \in 1..Len(r) : i \in 1..Len(s) \/ i = Len(s) + 1
  BY <1>1
<1>4. Elements(r) = Elements(s) \cup {a}
  <2>1. Len(s) + 1 \in 1..Len(r) /\ \A i \in 1..Len(s) : i \in 1..Len(r)
    BY <1>1
  <2> QED
    BY <1>1, <1>2, <1>3, <2>1, Zenon
<1>5. NoDup(s) /\ a \notin Elements(s) => NoDup(r)
  BY <1>1, <1>2, <1>3 DEF NoDup
<1> QED
  BY <1>1, <1>4, <1>5, Zenon DEF r

\* What is left of a queue without its first element.
LEMMA TailElements ==
    ASSUME NEW S, NEW s \in Seq(S), s # <<>>, NoDup(s)
    PROVE  /\ Head(s) \in Elements(s)
           /\ Tail(s) \in Seq(S)
           /\ Elements(Tail(s)) = Elements(s) \ {Head(s)}
           /\ NoDup(Tail(s))
           /\ Len(Tail(s)) = Len(s) - 1
           /\ \A i \in 1..Len(Tail(s)) : Tail(s)[i] = s[i + 1]
<1> DEFINE r == Tail(s)
<1>1. /\ r \in Seq(S) /\ Len(r) = Len(s) - 1
      /\ \A i \in 1..Len(r) : r[i] = s[i + 1]
      /\ Head(s) = s[1] /\ 1 \in 1..Len(s)
  BY HeadTailProperties
<1> HIDE DEF r
<1>2. Elements(r) = {r[i] : i \in 1..Len(r)} /\ Elements(s) = {s[i] : i \in 1..Len(s)}
  BY <1>1, ElementsOf, Zenon
<1>3. \A i \in 1..Len(r) : i + 1 \in 1..Len(s) /\ i + 1 # 1
  BY <1>1
<1>4. ASSUME NEW i \in 1..Len(s), i # 1 PROVE \E j \in 1..Len(r) : r[j] = s[i]
  <2>1. i - 1 \in 1..Len(r) /\ (i - 1) + 1 = i
    BY <1>1, <1>4
  <2> QED
    BY <1>1, <2>1, Zenon
<1>5. ASSUME NEW x \in Elements(r) PROVE x \in Elements(s) /\ x # s[1]
  <2>1. PICK i \in 1..Len(r) : x = r[i]
    BY <1>2, Zenon
  <2> QED
    BY <1>1, <1>2, <1>3, <2>1, Zenon DEF NoDup
<1>6. ASSUME NEW x \in Elements(s), x # s[1] PROVE x \in Elements(r)
  BY <1>2, <1>4, <1>6
<1>7. NoDup(r)
  <2>1. SUFFICES ASSUME NEW i \in 1..Len(r), NEW j \in 1..Len(r), r[i] = r[j] PROVE i = j
    BY Zenon DEF NoDup
  <2>2. i + 1 = j + 1
    BY <1>1, <1>3, <2>1, Zenon DEF NoDup
  <2> QED
    BY <2>2
<1>8. Head(s) \in Elements(s)
  BY <1>1, <1>2, Zenon
<1>9. Elements(r) = Elements(s) \ {Head(s)}
  BY <1>1, <1>5, <1>6, Zenon
<1> QED
  BY <1>1, <1>7, <1>8, <1>9, Zenon DEF r

\* A set of numbers has a least one.
LEMMA Minimum == ASSUME NEW S, S \subseteq Nat, S # {} PROVE \E x \in S : \A y \in S : x <= y
<1>1. S \subseteq Nat
  BY Zenon
<1>2. PICK x \in S : \A y \in S : ~ (<<y, x>> \in OpToRel(<, Nat))
  BY <1>1, WFMin, NatLessThanWellFounded, Zenon
<1>3. ASSUME NEW y \in S PROVE x <= y
  <2>1. y < x => <<y, x>> \in OpToRel(<, Nat)
    BY <1>1, Zenon DEF OpToRel
  <2>2. ~ (y < x)
    BY <1>2, <2>1, Zenon
  <2> QED
    BY <1>1, <2>2
<1> QED
  BY <1>3, Zenon

\* The place Queue finds for a timed task.
IsPlace(n, s, a, time) ==
    /\ \A i \in 1..n : time[s[i]] < time[a]
    /\ n < Len(s) => time[s[n + 1]] >= time[a]

\* There is one.
LEMMA InsertByTimePlace ==
    ASSUME NEW s \in Seq(Timed), NEW a \in Timed, NEW time \in [Tasks -> Int]
    PROVE  \E n \in 0..Len(s) : InsertByTime(s, a, time) = Inserted(s, n, a) /\ IsPlace(n, s, a, time)
<1> DEFINE P == {n \in 0..Len(s) : n < Len(s) => time[s[n + 1]] >= time[a]}
<1>1. Len(s) \in P /\ P \subseteq Nat
  OBVIOUS
<1>2. PICK n \in P : \A m \in P : n <= m
  BY <1>1, Minimum, Zenon
<1>3. n \in 0..Len(s) /\ (n < Len(s) => time[s[n + 1]] >= time[a])
  BY Zenon
<1>4. ASSUME NEW i \in 1..n PROVE time[s[i]] < time[a]
  <2>1. i - 1 \in 0..Len(s) /\ i - 1 < Len(s) /\ (i - 1) + 1 = i /\ ~(n <= i - 1) /\ i \in 1..Len(s)
    BY <1>3
  <2>2. i - 1 \notin P
    BY <1>2, <2>1, Zenon
  <2>3. ~(time[s[i]] >= time[a])
    BY <2>1, <2>2, Zenon
  <2>4. s[i] \in Tasks /\ a \in Tasks
    BY <2>1, DelayAssumption
  <2>5. time[s[i]] \in Int /\ time[a] \in Int
    BY <2>4, Zenon
  <2> QED
    BY <2>3, <2>5
<1>5. \E m \in 0..Len(s) : IsPlace(m, s, a, time)
  BY <1>3, <1>4, Zenon DEF IsPlace
<1> DEFINE m == CHOOSE m \in 0..Len(s) : IsPlace(m, s, a, time)
<1>6. m \in 0..Len(s) /\ IsPlace(m, s, a, time)
  BY <1>5, Zenon
<1>7. InsertByTime(s, a, time) = Inserted(s, m, a)
  BY Zenon DEF InsertByTime, IsPlace
<1> QED
  BY <1>6, <1>7, Zenon

\* A timed task is inserted in the order of time.
LEMMA InsertByTimeFacts ==
    ASSUME NEW s \in Seq(Timed), NEW a \in Timed, NEW time \in [Tasks -> Int],
           a \notin Elements(s), NoDup(s)
    PROVE  /\ InsertByTime(s, a, time) \in Seq(Timed)
           /\ Elements(InsertByTime(s, a, time)) = Elements(s) \cup {a}
           /\ NoDup(InsertByTime(s, a, time))
           /\ Sorted(s, time) => Sorted(InsertByTime(s, a, time), time)
<1>1. PICK n \in 0..Len(s) : InsertByTime(s, a, time) = Inserted(s, n, a) /\ IsPlace(n, s, a, time)
  BY InsertByTimePlace, Zenon
<1> DEFINE r == Inserted(s, n, a)
<1>2. IsInserted(r, s, n, a, Timed)
  BY InsertedSeq, Zenon
<1>3. Elements(r) = Elements(s) \cup {a} /\ NoDup(r)
  BY InsertedElements, Zenon
<1> HIDE DEF r
<1>4. ASSUME Sorted(s, time), NEW i \in 1..Len(r), NEW j \in 1..Len(r), i < j
      PROVE  time[r[i]] <= time[r[j]]
  <2>0. Len(r) = Len(s) + 1 /\ r[n + 1] = a
    BY <1>2, Zenon DEF IsInserted
  <2>1. \A k \in 1..Len(r) : k <= n => k \in 1..Len(s) /\ r[k] = s[k] /\ time[s[k]] < time[a]
    BY <1>1, <1>2, <2>0 DEF IsInserted, IsPlace
  <2>2. ASSUME NEW k \in 1..Len(r), k > n + 1
        PROVE  k - 1 \in 1..Len(s) /\ r[k] = s[k - 1] /\ time[a] <= time[s[k - 1]]
    <3>1. k - 1 \in n + 1..Len(s) /\ (k - 1) + 1 = k /\ k - 1 \in 1..Len(s)
      BY <2>0, <2>2
    <3>2. r[k] = s[k - 1]
      BY <1>2, <3>1, Zenon DEF IsInserted
    <3>3. n + 1 \in 1..Len(s) /\ time[a] <= time[s[n + 1]]
      <4>1. n < Len(s)
        BY <3>1
      <4>2. s[n + 1] \in Tasks /\ a \in Tasks
        BY <4>1, DelayAssumption
      <4>3. time[s[n + 1]] \in Int /\ time[a] \in Int
        BY <4>2, Zenon
      <4> QED
        BY <1>1, <4>1, <4>3 DEF IsPlace
    <3>4. time[s[n + 1]] <= time[s[k - 1]]
      <4>1. CASE k - 1 = n + 1
        <5>1. s[n + 1] \in Tasks
          BY <3>3, DelayAssumption
        <5>2. time[s[n + 1]] \in Int
          BY <5>1, Zenon
        <5> QED
          BY <4>1, <5>2
      <4>2. CASE n + 1 < k - 1
        BY <1>4, <3>1, <3>3, <4>2, Zenon DEF Sorted
      <4> QED
        BY <3>1, <4>1, <4>2
    <3>5. time[a] \in Int /\ time[s[n + 1]] \in Int /\ time[s[k - 1]] \in Int
      <4>1. a \in Tasks /\ s[n + 1] \in Tasks /\ s[k - 1] \in Tasks
        BY <3>1, <3>3, DelayAssumption
      <4> QED
        BY <4>1, Zenon
    <3> QED
      BY <3>1, <3>2, <3>3, <3>4, <3>5, SMTT(30)
  <2>3. ASSUME NEW k \in 1..Len(s) PROVE time[s[k]] \in Int
    <3>1. s[k] \in Tasks
      BY DelayAssumption
    <3> QED
      BY <3>1, Zenon
  <2>4. time[a] \in Int
    BY DelayAssumption, Zenon
  <2>5. CASE j <= n
    <3>1. i <= n
      BY <1>4, <2>5
    <3>2. i \in 1..Len(s) /\ j \in 1..Len(s) /\ r[i] = s[i] /\ r[j] = s[j]
      BY <2>1, <2>5, <3>1, Zenon
    <3> QED
      BY <1>4, <3>2, Zenon DEF Sorted
  <2>6. CASE j = n + 1
    <3>1. i <= n
      BY <1>4, <2>6
    <3>2. i \in 1..Len(s) /\ r[i] = s[i] /\ time[s[i]] < time[a]
      BY <2>1, <3>1, Zenon
    <3>3. r[j] = a
      BY <2>0, <2>6, Zenon
    <3>4. time[s[i]] \in Int
      BY <2>3, <3>2, Zenon
    <3> QED
      BY <2>4, <3>2, <3>3, <3>4
  <2>7. CASE j > n + 1
    <3>1. j - 1 \in 1..Len(s) /\ r[j] = s[j - 1] /\ time[a] <= time[s[j - 1]] /\ time[s[j - 1]] \in Int
      BY <2>2, <2>3, <2>7, Zenon
    <3>2. CASE i <= n
      <4>1. i \in 1..Len(s) /\ r[i] = s[i] /\ time[s[i]] < time[a] /\ time[s[i]] \in Int
        BY <2>1, <2>3, <3>2, Zenon
      <4> QED
        BY <2>4, <3>1, <4>1, SMTT(30)
    <3>3. CASE i = n + 1
      BY <2>0, <3>1, <3>3, Zenon
    <3>4. CASE i > n + 1
      <4>1. i - 1 \in 1..Len(s) /\ r[i] = s[i - 1] /\ i - 1 < j - 1
        BY <1>4, <2>2, <3>4
      <4> QED
        BY <1>4, <3>1, <4>1, Zenon DEF Sorted
    <3> QED
      BY <3>2, <3>3, <3>4
  <2> QED
    BY <2>5, <2>6, <2>7
<1>5. r \in Seq(Timed)
  BY <1>2, Zenon DEF IsInserted
<1>6. Sorted(s, time) => Sorted(r, time)
  BY <1>4, Zenon DEF Sorted
<1> QED
  BY <1>1, <1>3, <1>5, <1>6, Zenon DEF r

\* What keeps a queue sorted: the removal of a task ...
LEMMA SortedErased ==
    ASSUME NEW s \in Seq(Timed), NEW time, NEW n \in 1..Len(s), Sorted(s, time)
    PROVE  Sorted(Erased(s, n), time)
<1> DEFINE r == Erased(s, n)
<1>1. /\ Len(r) = Len(s) - 1
      /\ \A j \in 1..n - 1 : r[j] = s[j]
      /\ \A j \in n..Len(s) - 1 : r[j] = s[j + 1]
  BY ErasedSeq, Zenon
<1> HIDE DEF r
<1>2. \A i \in 1..Len(r) : \/ i < n /\ r[i] = s[i] /\ i \in 1..Len(s)
                           \/ i >= n /\ r[i] = s[i + 1] /\ i + 1 \in 1..Len(s)
  BY <1>1
<1>3. ASSUME NEW i \in 1..Len(r), NEW j \in 1..Len(r), i < j
      PROVE  time[r[i]] <= time[r[j]]
  <2>1. CASE j < n
    <3>1. i \in 1..Len(s) /\ j \in 1..Len(s) /\ r[i] = s[i] /\ r[j] = s[j]
      BY <1>2, <1>3, <2>1
    <3> QED
      BY <1>3, <3>1, Zenon DEF Sorted
  <2>2. CASE i < n /\ j >= n
    <3>1. i \in 1..Len(s) /\ j + 1 \in 1..Len(s) /\ r[i] = s[i] /\ r[j] = s[j + 1] /\ i < j + 1
      BY <1>2, <1>3, <2>2
    <3> QED
      BY <3>1, Zenon DEF Sorted
  <2>3. CASE i >= n
    <3>1. i + 1 \in 1..Len(s) /\ j + 1 \in 1..Len(s) /\ r[i] = s[i + 1] /\ r[j] = s[j + 1] /\ i + 1 < j + 1
      BY <1>2, <1>3, <2>3
    <3> QED
      BY <3>1, Zenon DEF Sorted
  <2> QED
    BY <2>1, <2>2, <2>3
<1> QED
  BY <1>3, Zenon DEF Sorted, r

\* ... of the first one ...
LEMMA SortedTail ==
    ASSUME NEW s \in Seq(Timed), NEW time, s # <<>>, NoDup(s), Sorted(s, time)
    PROVE  Sorted(Tail(s), time)
<1>1. Len(Tail(s)) = Len(s) - 1 /\ \A i \in 1..Len(Tail(s)) : Tail(s)[i] = s[i + 1]
  BY TailElements, Zenon
<1>2. \A i \in 1..Len(Tail(s)) : i + 1 \in 1..Len(s)
  BY <1>1
<1> QED
  BY <1>1, <1>2 DEF Sorted

\* ... and a change of the times of others.
LEMMA SortedSame ==
    ASSUME NEW s \in Seq(Timed), NEW time, NEW other, Sorted(s, time),
           \A a \in Elements(s) : other[a] = time[a]
    PROVE  Sorted(s, other)
<1>1. \A i \in 1..Len(s) : s[i] \in Elements(s)
  BY ElementsOf
<1> QED
  BY <1>1, Zenon DEF Sorted

\* The first task of a sorted queue is due first.
LEMMA SortedFirst ==
    ASSUME NEW s \in Seq(Timed), NEW time \in [Tasks -> Int], s # <<>>, Sorted(s, time)
    PROVE  \A a \in Elements(s) : time[Head(s)] <= time[a]
<1>1. SUFFICES ASSUME NEW a \in Elements(s) PROVE time[Head(s)] <= time[a]
  BY Zenon
<1>2. PICK i \in 1..Len(s) : a = s[i]
  BY ElementsOf
<1>3. Head(s) = s[1] /\ 1 \in 1..Len(s)
  OBVIOUS
<1>4. CASE i = 1
  <2>1. s[1] \in Tasks
    BY <1>3, DelayAssumption
  <2> QED
    BY <1>2, <1>3, <1>4, <2>1
<1>5. CASE i > 1
  BY <1>2, <1>3, <1>5, Zenon DEF Sorted
<1> QED
  BY <1>4, <1>5

-----------------------------------------------------------------------------
(* Invariants *)

\* The queues hold each task once, before it is run or cancelled, and not while the worker has it.
Queues ==
    /\ NoDup(m_timerQueue) /\ NoDup(m_queue)
    /\ Sorted(m_timerQueue, TargetTime)
    /\ Elements(m_timerQueue) \subseteq used \ (ran \cup cancelled)
    /\ Elements(m_queue) \subseteq (used \ (ran \cup Timed)) \cup {Shutdown}
    /\ item \notin Elements(m_timerQueue) /\ item \notin Elements(m_queue)
    /\ item \in used \cup {NoTask, Shutdown}

\* What m_itemInProgress says while the worker takes, runs and frees a task.
Progress ==
    /\ worker \in {"pick", "reset", "wait", "exit"} => item = NoTask /\ m_itemInProgress = NoTask
    /\ worker = "begin" =>
          /\ item # NoTask /\ item \notin ran
          /\ \/ m_itemInProgress = item /\ item \notin cancelled
             \/ m_itemInProgress = NoTask /\ item \in cancelled
    /\ worker \in {"run", "call"} =>
          item \in Tasks /\ m_itemInProgress = item /\ item \in ran /\ item \notin cancelled
    /\ worker = "free" =>
          item \in Tasks /\ m_itemInProgress = NoTask /\ item \in ran \cup cancelled

\* A thread that waits in Cancel keeps the worker from the next task.
Waiting ==
    \A u \in Users :
        /\ m_lock = u <=> pc[u] = "cancel"
        /\ pc[u] = "cancel" =>
              /\ arg[u] \in used \cap Timed
              /\ \/ m_itemInProgress = arg[u]
                 \/ m_itemInProgress = NoTask /\ arg[u] \in ran \cup cancelled

\* The inductive invariant.
WInv == TypeOK /\ Queues /\ Progress /\ Waiting

-----------------------------------------------------------------------------
(* Steps on the queues *)

\* Queue of a timed task, also when the worker moves one that is too far ahead.
LEMMA EnqueueTimed ==
    ASSUME NEW timers \in Seq(Timed), NoDup(timers), Sorted(timers, TargetTime),
           NEW a \in Timed, a \notin Elements(timers), NEW d \in Nat,
           TargetTime \in [Tasks -> Int], Enqueue(a, d, timers)
    PROVE  /\ TargetTime' \in [Tasks -> Int]
           /\ TargetTime'[a] = d
           /\ \A b \in Tasks \ {a} : TargetTime'[b] = TargetTime[b]
           /\ m_timerQueue' \in Seq(Timed)
           /\ Elements(m_timerQueue') = Elements(timers) \cup {a}
           /\ NoDup(m_timerQueue')
           /\ Sorted(m_timerQueue', TargetTime')
           /\ m_queue' = m_queue
           /\ m_bFlag' = TRUE
<1>1. /\ TargetTime' = [TargetTime EXCEPT ![a] = d]
      /\ m_timerQueue' = InsertByTime(timers, a, TargetTime')
      /\ m_queue' = m_queue /\ m_bFlag' = TRUE
  BY Zenon DEF Enqueue, Post
<1>2. /\ TargetTime' \in [Tasks -> Int] /\ TargetTime'[a] = d
      /\ \A b \in Tasks \ {a} : TargetTime'[b] = TargetTime[b]
  BY <1>1, DelayAssumption
<1>3. Sorted(timers, TargetTime')
  <2>1. \A b \in Elements(timers) : TargetTime'[b] = TargetTime[b]
    BY <1>2, ElementsOf, DelayAssumption
  <2> QED
    BY <2>1, SortedSame, Zenon
<1>4. /\ m_timerQueue' \in Seq(Timed)
      /\ Elements(m_timerQueue') = Elements(timers) \cup {a}
      /\ NoDup(m_timerQueue')
      /\ Sorted(m_timerQueue', TargetTime')
  BY <1>1, <1>2, <1>3, InsertByTimeFacts, Zenon
<1> QED
  BY <1>1, <1>2, <1>4, Zenon

\* Queue of any other task.
LEMMA EnqueueCall ==
    ASSUME m_queue \in Seq(Tasks \cup {Shutdown}), NoDup(m_queue),
           NEW a \in (Tasks \cup {Shutdown}) \ Timed, a \notin Elements(m_queue), NEW d, NEW timers,
           Enqueue(a, d, timers)
    PROVE  /\ m_queue' \in Seq(Tasks \cup {Shutdown})
           /\ m_queue' = Append(m_queue, a)
           /\ Elements(m_queue') = Elements(m_queue) \cup {a}
           /\ NoDup(m_queue')
           /\ UNCHANGED <<m_timerQueue, TargetTime>>
           /\ m_bFlag' = TRUE
<1>1. m_queue' = Append(m_queue, a) /\ UNCHANGED <<m_timerQueue, TargetTime>> /\ m_bFlag' = TRUE
  BY Zenon DEF Enqueue, Post
<1>2. a \in Tasks \cup {Shutdown}
  BY Zenon
<1> QED
  BY <1>1, <1>2, AppendElements

\* Cancel takes a task out of the timer queue.
LEMMA EraseTimed ==
    ASSUME NEW t, NEW a \in Timed, m_timerQueue \in Seq(Timed), NoDup(m_timerQueue),
           Sorted(m_timerQueue, TargetTime), TargetTime \in [Tasks -> Int], Cancel_Erase(t, a)
    PROVE  /\ TargetTime' \in [Tasks -> Int]
           /\ \A b \in Tasks \ {a} : TargetTime'[b] = TargetTime[b]
           /\ m_timerQueue' \in Seq(Timed)
           /\ Elements(m_timerQueue') = Elements(m_timerQueue) \ {a}
           /\ NoDup(m_timerQueue')
           /\ Sorted(m_timerQueue', TargetTime')
<1>1. /\ TargetTime' \in [Tasks -> Int]
      /\ \A b \in Tasks \ {a} : TargetTime'[b] = TargetTime[b]
  BY DelayAssumption DEF Cancel_Erase
<1>2. /\ m_timerQueue' \in Seq(Timed)
      /\ Elements(m_timerQueue') = Elements(m_timerQueue) \ {a}
      /\ NoDup(m_timerQueue')
      /\ Sorted(m_timerQueue', TargetTime)
  <2>1. CASE a \in Elements(m_timerQueue)
    <3> DEFINE n == CHOOSE i \in DOMAIN m_timerQueue : m_timerQueue[i] = a
    <3>1. n \in 1..Len(m_timerQueue) /\ m_timerQueue[n] = a
      BY <2>1 DEF Elements
    <3>2. m_timerQueue' = Erased(m_timerQueue, n)
      BY <2>1, Zenon DEF Cancel_Erase
    <3> HIDE DEF n
    <3> QED
      BY <3>1, <3>2, ErasedSeq, ErasedElements, SortedErased, Zenon
  <2>2. CASE a \notin Elements(m_timerQueue)
    BY <2>2, Zenon DEF Cancel_Erase
  <2> QED
    BY <2>1, <2>2, Zenon
<1>3. \A b \in Elements(m_timerQueue') : TargetTime'[b] = TargetTime[b]
  BY <1>1, <1>2, ElementsOf, DelayAssumption, Zenon
<1> QED
  BY <1>1, <1>2, <1>3, SortedSame, Zenon

-----------------------------------------------------------------------------
(* Calls *)

\* Threads and tasks are different things; what a call can be about.
LEMMA CallFacts ==
    /\ Timed \subseteq Tasks
    /\ NoTask \notin Tasks /\ Shutdown \notin Tasks /\ NoTask # Shutdown
    /\ NoUser \notin Users
    /\ MAX_FUTURE_DELTA_MS \in Nat \ {0} /\ MaxDrift \in Nat /\ Delays \subseteq Nat
  BY DelayAssumption, Zenon

\* Queue keeps the invariant.
LEMMA Queue_WInv ==
    ASSUME WInv, NEW t \in Users \cup {"worker"}, NEW a \in Tasks, NEW d \in Nat, Queue(t, a, d),
           a \notin Timed => d = 0
    PROVE  WInv'
<1>1. /\ a \notin used /\ used' = used \cup {a} /\ Enqueue(a, d, m_timerQueue)
      /\ toWait' = [toWait EXCEPT ![a] = Least(d, MAX_FUTURE_DELTA_MS)]
      /\ UNCHANGED <<workerVars, userVars, ran, cancelled, owed>>
  BY Zenon DEF Queue
<1>2. toWait' \in [Tasks -> Nat]
  <2>1. Least(d, MAX_FUTURE_DELTA_MS) \in Nat
    BY CallFacts, Zenon DEF Least
  <2> QED
    BY <1>1, <2>1, Zenon DEF WInv, TypeOK
<1>3. /\ a \notin Elements(m_timerQueue) /\ a \notin Elements(m_queue) /\ a # item
      /\ a \notin ran /\ a \notin cancelled
  BY <1>1, CallFacts, Zenon DEF WInv, TypeOK, Queues
<1>4. /\ m_timerQueue \in Seq(Timed) /\ m_queue \in Seq(Tasks \cup {Shutdown})
      /\ TargetTime \in [Tasks -> Int]
      /\ NoDup(m_timerQueue) /\ NoDup(m_queue) /\ Sorted(m_timerQueue, TargetTime)
  BY Zenon DEF WInv, TypeOK, Queues
<1>5. CASE a \in Timed
  <2>1. /\ TargetTime' \in [Tasks -> Int]
        /\ m_timerQueue' \in Seq(Timed)
        /\ Elements(m_timerQueue') = Elements(m_timerQueue) \cup {a}
        /\ NoDup(m_timerQueue')
        /\ Sorted(m_timerQueue', TargetTime')
        /\ m_queue' = m_queue
        /\ m_bFlag' = TRUE
    BY <1>1, <1>3, <1>4, <1>5, EnqueueTimed, Zenon
  <2>2. TypeOK'
    BY <1>1, <1>2, <2>1, CallFacts, Zenon DEF WInv, TypeOK, workerVars, userVars
  <2>3. Queues'
    BY <1>1, <1>3, <2>1, Zenon DEF WInv, Queues, workerVars
  <2>4. Progress' /\ Waiting'
    BY <1>1, Zenon DEF WInv, Progress, Waiting, workerVars, userVars
  <2> QED
    BY <2>2, <2>3, <2>4, Zenon DEF WInv
<1>6. CASE a \notin Timed
  <2>1. /\ m_queue' \in Seq(Tasks \cup {Shutdown})
        /\ Elements(m_queue') = Elements(m_queue) \cup {a}
        /\ NoDup(m_queue')
        /\ UNCHANGED <<m_timerQueue, TargetTime>>
        /\ m_bFlag' = TRUE
    BY <1>1, <1>3, <1>4, <1>6, EnqueueCall, ZenonT(30)
  <2>2. TypeOK'
    BY <1>1, <1>2, <2>1, CallFacts, SMTT(30) DEF WInv, TypeOK, workerVars, userVars
  <2>3. Queues'
    BY <1>1, <1>3, <1>6, <2>1, Zenon DEF WInv, Queues, workerVars
  <2>4. Progress' /\ Waiting'
    BY <1>1, Zenon DEF WInv, Progress, Waiting, workerVars, userVars
  <2> QED
    BY <2>2, <2>3, <2>4, Zenon DEF WInv
<1> QED
  BY <1>5, <1>6, Zenon

\* Cancel of a task that is not in progress.
LEMMA CancelErase_WInv ==
    ASSUME WInv, NEW t \in Users \cup {"worker"}, NEW a \in used \cap Timed, Cancel_Erase(t, a)
    PROVE  WInv'
<1>1. /\ m_itemInProgress # a /\ cancelled' = cancelled \cup {a}
      /\ UNCHANGED <<m_queue, m_bFlag, workerVars, userVars, used, ran, toWait, owed>>
  BY Zenon DEF Cancel_Erase
<1>2. /\ TargetTime' \in [Tasks -> Int]
      /\ m_timerQueue' \in Seq(Timed)
      /\ Elements(m_timerQueue') = Elements(m_timerQueue) \ {a}
      /\ NoDup(m_timerQueue')
      /\ Sorted(m_timerQueue', TargetTime')
  BY EraseTimed, Zenon DEF WInv, TypeOK, Queues
<1>3. TypeOK'
  BY <1>1, <1>2, CallFacts, SMTT(30) DEF WInv, TypeOK, workerVars, userVars
<1>4. Queues'
  BY <1>1, <1>2, Zenon DEF WInv, Queues, workerVars
<1>5. Progress'
  BY <1>1, Zenon DEF WInv, Progress, workerVars
<1>6. Waiting'
  BY <1>1, Zenon DEF WInv, Waiting, workerVars, userVars
<1> QED
  BY <1>3, <1>4, <1>5, <1>6, Zenon DEF WInv

\* A thread begins to wait in Cancel, and returns.
LEMMA CancelWait_WInv ==
    ASSUME WInv, NEW u \in Users,
           \/ \E a \in used \cap Timed : Cancel_Wait(u, a)
           \/ Cancel_Acquire(u)
           \/ Cancel_TimeOut(u)
    PROVE  WInv'
<1>1. CASE \E a \in used \cap Timed : Cancel_Wait(u, a)
  <2>1. PICK a \in used \cap Timed : Cancel_Wait(u, a)
    BY <1>1, Zenon
  <2>2. TypeOK' /\ Queues' /\ Progress'
    BY <2>1, CallFacts DEF WInv, TypeOK, Queues, Progress, Cancel_Wait, queueVars, workerVars, history
  <2>3. Waiting'
    BY <2>1, CallFacts, Zenon DEF WInv, TypeOK, Waiting, Cancel_Wait, Calls, queueVars, workerVars, history
  <2> QED
    BY <2>2, <2>3, Zenon DEF WInv
<1>2. CASE Cancel_Acquire(u)
  <2>1. /\ pc[u] = "cancel" /\ m_lock = u /\ arg[u] \in used \cap Timed
        /\ worker \notin {"run", "call", "free"}
        /\ \/ m_itemInProgress = arg[u]
           \/ m_itemInProgress = NoTask /\ arg[u] \in ran \cup cancelled
    BY <1>2, Zenon DEF Cancel_Acquire, Executing, WInv, Waiting
  <2>2. /\ m_itemInProgress' = NoTask /\ cancelled' = cancelled \cup {arg[u]} /\ m_lock' = NoUser
        /\ pc' = [pc EXCEPT ![u] = "idle"] /\ arg' = [arg EXCEPT ![u] = NoTask]
        /\ UNCHANGED <<queueVars, worker, item, nextTimerInMs, drift, used, ran, toWait, owed>>
    BY <1>2, Zenon DEF Cancel_Acquire, Return
  <2>3. arg[u] \notin Elements(m_timerQueue)
    BY <2>1, CallFacts DEF WInv, Queues, Progress, TypeOK
  <2>4. TypeOK'
    BY <2>1, <2>2, Zenon DEF WInv, TypeOK, queueVars
  <2>5. Queues'
    BY <2>1, <2>2, <2>3, Zenon DEF WInv, Queues, queueVars
  <2>6. Progress'
    BY <2>1, <2>2, CallFacts, Zenon DEF WInv, Progress, TypeOK
  <2>7. Waiting'
    BY <2>1, <2>2, CallFacts, SMTT(30) DEF WInv, Waiting, TypeOK
  <2> QED
    BY <2>4, <2>5, <2>6, <2>7, Zenon DEF WInv
<1>3. CASE Cancel_TimeOut(u)
  <2>1. /\ pc[u] = "cancel" /\ m_lock = u /\ arg[u] \in used \cap Timed
        /\ worker \in {"run", "call", "free"}
        /\ \/ m_itemInProgress = arg[u]
           \/ m_itemInProgress = NoTask /\ arg[u] \in ran \cup cancelled
    BY <1>3, Zenon DEF Cancel_TimeOut, Executing, WInv, Waiting
  <2>2. /\ UNCHANGED m_itemInProgress /\ m_lock' = NoUser
        /\ \/ cancelled' = cancelled /\ m_itemInProgress = arg[u]
           \/ cancelled' = cancelled \cup {arg[u]} /\ m_itemInProgress # arg[u]
        /\ pc' = [pc EXCEPT ![u] = "idle"] /\ arg' = [arg EXCEPT ![u] = NoTask]
        /\ UNCHANGED <<queueVars, worker, item, nextTimerInMs, drift, used, ran, toWait, owed>>
    BY <1>3, Zenon DEF Cancel_TimeOut, Return
  <2>3. m_itemInProgress # arg[u] => arg[u] \notin Elements(m_timerQueue) /\ worker = "free"
    BY <2>1, CallFacts, Zenon DEF WInv, Queues, Progress, TypeOK
  <2>4. TypeOK'
    BY <2>1, <2>2, Zenon DEF WInv, TypeOK, queueVars
  <2>5. Queues'
    BY <2>1, <2>2, <2>3, Zenon DEF WInv, Queues, queueVars
  <2>6. Progress'
    BY <2>1, <2>2, <2>3, CallFacts, Zenon DEF WInv, Progress, TypeOK
  <2>7. Waiting'
    BY <2>1, <2>2, CallFacts, Zenon DEF WInv, Waiting, TypeOK
  <2> QED
    BY <2>4, <2>5, <2>6, <2>7, Zenon DEF WInv
<1> QED
  BY <1>1, <1>2, <1>3, Zenon

\* Join queues the shutdown item.
LEMMA JoinQueue_WInv ==
    ASSUME WInv, NEW t \in Users \cup {"worker"}, Join_Queue(t)
    PROVE  WInv'
<1>1. /\ Shutdown \notin Elements(m_queue) /\ item # Shutdown
      /\ Enqueue(Shutdown, 0, m_timerQueue) /\ owed' = Due
      /\ t \in Users => pc[t] = "idle" /\ pc' = [pc EXCEPT ![t] = "join"]
      /\ t \notin Users => pc' = pc
      /\ UNCHANGED <<workerVars, m_lock, arg, used, ran, cancelled, toWait>>
  BY DelayAssumption, Zenon DEF Join_Queue, Calls
<1>2. /\ m_queue' \in Seq(Tasks \cup {Shutdown})
      /\ Elements(m_queue') = Elements(m_queue) \cup {Shutdown}
      /\ NoDup(m_queue')
      /\ UNCHANGED <<m_timerQueue, TargetTime>>
      /\ m_bFlag' = TRUE
  BY <1>1, CallFacts, EnqueueCall, Zenon DEF WInv, TypeOK, Queues
<1>3. Due \subseteq used
  BY <1>1, Zenon DEF WInv, Queues, Due
<1>4. /\ pc' \in [Users -> {"idle", "cancel", "join", "joined"}]
      /\ \A u \in Users : pc'[u] = "cancel" <=> pc[u] = "cancel"
  BY <1>1, Zenon DEF WInv, TypeOK
<1>5. TypeOK'
  BY <1>1, <1>2, <1>3, <1>4, Zenon DEF WInv, TypeOK, workerVars
<1>6. Queues'
  BY <1>1, <1>2, Zenon DEF WInv, Queues, workerVars
<1>7. Progress' /\ Waiting'
  BY <1>1, <1>4, Zenon DEF WInv, Progress, Waiting, workerVars
<1> QED
  BY <1>5, <1>6, <1>7, Zenon DEF WInv

\* Join returns.
LEMMA JoinReturn_WInv ==
    ASSUME WInv, NEW u \in Users, Join_Return(u)
    PROVE  WInv'
<1>1. /\ pc[u] = "join" /\ pc' = [pc EXCEPT ![u] = "joined"]
      /\ UNCHANGED <<queueVars, workerVars, m_lock, arg, history>>
  BY Zenon DEF Join_Return
<1>2. /\ pc' \in [Users -> {"idle", "cancel", "join", "joined"}]
      /\ \A v \in Users : pc'[v] = "cancel" <=> pc[v] = "cancel"
  BY <1>1, Zenon DEF WInv, TypeOK
<1>3. TypeOK' /\ Queues'
  BY <1>1, <1>2, SMTT(30) DEF WInv, TypeOK, Queues, queueVars, workerVars, history
<1>4. Progress' /\ Waiting'
  BY <1>1, <1>2, Zenon DEF WInv, Progress, Waiting, workerVars, history
<1> QED
  BY <1>3, <1>4, Zenon DEF WInv

-----------------------------------------------------------------------------
(* threadFunc *)

\* Nobody waits in Cancel while the worker has the lock.
LEMMA Unlocked ==
    ASSUME WInv, m_lock = NoUser
    PROVE  \A u \in Users : pc[u] # "cancel"
  BY CallFacts, Zenon DEF WInv, Waiting

\* The worker takes the first timed task.
LEMMA PickTimed_WInv ==
    ASSUME WInv, worker = "pick", m_lock = NoUser, PickTimed, UNCHANGED userVars
    PROVE  WInv'
<1> DEFINE a == Head(m_timerQueue)
<1>1. m_timerQueue # <<>> /\ m_timerQueue \in Seq(Timed)
  BY Zenon DEF PickTimed, FrontIsDue, WInv, TypeOK
<1>2. /\ m_timerQueue' = Tail(m_timerQueue)
      /\ item' = a /\ m_itemInProgress' = a /\ worker' = "begin"
      /\ UNCHANGED <<nextTimerInMs, drift, history, m_queue, TargetTime, m_bFlag>>
  BY Zenon DEF PickTimed, Take
<1> HIDE DEF a
<1>3. /\ a \in Elements(m_timerQueue) /\ a \in Timed
      /\ m_timerQueue' \in Seq(Timed)
      /\ Elements(m_timerQueue') = Elements(m_timerQueue) \ {a}
      /\ NoDup(m_timerQueue')
      /\ Sorted(m_timerQueue', TargetTime)
  BY <1>1, <1>2, TailElements, SortedTail, ElementsOf, Zenon DEF a, WInv, Queues
<1>4. a \notin Elements(m_queue)
  BY <1>3, CallFacts, Zenon DEF WInv, Queues
<1>5. TypeOK'
  BY <1>2, <1>3, CallFacts, Zenon DEF WInv, TypeOK, userVars, history
<1>6. Queues'
  BY <1>2, <1>3, <1>4, Zenon DEF WInv, Queues, history
<1>7. Progress'
  BY <1>2, <1>3, CallFacts, Zenon DEF WInv, Queues, Progress, history
<1>8. Waiting'
  BY <1>2, Unlocked, Zenon DEF WInv, Waiting, userVars, history
<1> QED
  BY <1>5, <1>6, <1>7, <1>8, Zenon DEF WInv

\* The worker moves a task that is too far ahead.
LEMMA Clamp_WInv ==
    ASSUME WInv, worker = "pick", m_lock = NoUser, Clamp, UNCHANGED userVars
    PROVE  WInv'
<1> DEFINE a == Head(m_timerQueue)
           timers == Tail(m_timerQueue)
<1>1. m_timerQueue # <<>> /\ m_timerQueue \in Seq(Timed)
  BY Zenon DEF Clamp, FrontIsFar, WInv, TypeOK
<1>2. Enqueue(a, MAX_FUTURE_DELTA_MS, timers) /\ UNCHANGED <<workerVars, history>>
  BY Zenon DEF Clamp
<1> HIDE DEF a, timers
<1>3. /\ a \in Elements(m_timerQueue) /\ a \in Timed
      /\ timers \in Seq(Timed)
      /\ Elements(timers) = Elements(m_timerQueue) \ {a}
      /\ NoDup(timers)
      /\ Sorted(timers, TargetTime)
  BY <1>1, TailElements, SortedTail, ElementsOf, Zenon DEF a, timers, WInv, Queues
<1>4. /\ TargetTime' \in [Tasks -> Int]
      /\ m_timerQueue' \in Seq(Timed)
      /\ Elements(m_timerQueue') = Elements(m_timerQueue)
      /\ NoDup(m_timerQueue')
      /\ Sorted(m_timerQueue', TargetTime')
      /\ m_queue' = m_queue
      /\ m_bFlag' = TRUE
  <2>1. a \notin Elements(timers) /\ MAX_FUTURE_DELTA_MS \in Nat /\ TargetTime \in [Tasks -> Int]
    BY <1>3, CallFacts, Zenon DEF WInv, TypeOK
  <2>2. /\ TargetTime' \in [Tasks -> Int]
        /\ m_timerQueue' \in Seq(Timed)
        /\ Elements(m_timerQueue') = Elements(timers) \cup {a}
        /\ NoDup(m_timerQueue')
        /\ Sorted(m_timerQueue', TargetTime')
        /\ m_queue' = m_queue
        /\ m_bFlag' = TRUE
    BY <1>2, <1>3, <2>1, EnqueueTimed, Zenon
  <2> QED
    BY <1>3, <2>2, Zenon
<1>5. TypeOK'
  BY <1>2, <1>4, Zenon DEF WInv, TypeOK, userVars, workerVars, history
<1>6. Queues'
  BY <1>2, <1>4, Zenon DEF WInv, Queues, workerVars, history
<1>7. Progress' /\ Waiting'
  BY <1>2 DEF WInv, Progress, Waiting, userVars, workerVars, history
<1> QED
  BY <1>5, <1>6, <1>7 DEF WInv

\* The worker takes the first of the other tasks.
LEMMA PickCall_WInv ==
    ASSUME WInv, worker = "pick", m_lock = NoUser, PickCall, UNCHANGED userVars
    PROVE  WInv'
<1> DEFINE a == Head(m_queue)
<1>1. m_queue # <<>> /\ m_queue \in Seq(Tasks \cup {Shutdown})
  BY Zenon DEF PickCall, WInv, TypeOK
<1>2. /\ m_queue' = Tail(m_queue)
      /\ item' = a /\ m_itemInProgress' = a /\ worker' = "begin"
      /\ UNCHANGED <<nextTimerInMs, drift, history, m_timerQueue, TargetTime, m_bFlag>>
  BY Zenon DEF PickCall, Take
<1> HIDE DEF a
<1>3. /\ a \in Elements(m_queue) /\ a \in Tasks \cup {Shutdown}
      /\ m_queue' \in Seq(Tasks \cup {Shutdown})
      /\ Elements(m_queue') = Elements(m_queue) \ {a}
      /\ NoDup(m_queue')
  BY <1>1, <1>2, TailElements, ElementsOf, Zenon DEF a, WInv, Queues
<1>4. a \notin Elements(m_timerQueue) /\ a \notin ran /\ a \notin cancelled /\ a # NoTask
  BY <1>3, CallFacts, ElementsOf, SMTT(30) DEF WInv, TypeOK, Queues
<1>5. TypeOK'
  BY <1>2, <1>3, CallFacts, Zenon DEF WInv, TypeOK, userVars, history
<1>6. Queues'
  BY <1>2, <1>3, <1>4, Zenon DEF WInv, Queues, history
<1>7. Progress'
  BY <1>2, <1>3, <1>4, CallFacts DEF WInv, Queues, Progress, history
<1>8. Waiting'
  BY <1>2, Unlocked, Zenon DEF WInv, Waiting, userVars, history
<1> QED
  BY <1>5, <1>6, <1>7, <1>8, Zenon DEF WInv

\* The worker finds nothing to do.
LEMMA PickNothing_WInv ==
    ASSUME WInv, worker = "pick", m_lock = NoUser, PickNothing, UNCHANGED userVars
    PROVE  WInv' /\ nextTimerInMs' > 0
<1>1. nextTimerInMs' \in 1..MAX_FUTURE_DELTA_MS
  <2>1. CASE m_timerQueue = <<>>
    BY <2>1, CallFacts DEF PickNothing
  <2>2. CASE m_timerQueue # <<>>
    <3>1. Head(m_timerQueue) \in Tasks
      BY <2>2, CallFacts DEF WInv, TypeOK
    <3>2. TargetTime[Head(m_timerQueue)] \in Int
      BY <3>1, Zenon DEF WInv, TypeOK
    <3> QED
      BY <2>2, <3>2, CallFacts DEF PickNothing, FrontIsDue, FrontIsFar
  <2> QED
    BY <2>1, <2>2, Zenon
<1>2. TypeOK'
  BY <1>1, CallFacts, SMTT(30) DEF WInv, TypeOK, PickNothing, queueVars, userVars, history
<1>3. Queues' /\ Progress' /\ Waiting'
  BY Zenon DEF WInv, Queues, Progress, Waiting, PickNothing, queueVars, userVars, history
<1> QED
  BY <1>1, <1>2, <1>3, CallFacts DEF WInv

\* Reset, the end of the wait, and the end of the thread.
LEMMA Idle_WInv ==
    ASSUME WInv, Reset \/ Wake \/ Exit
    PROVE  WInv'
<1>1. CASE Reset
  BY <1>1, ZenonT(30) DEF WInv, TypeOK, Queues, Progress, Waiting, Reset, userVars, history
<1>2. CASE Wake
  BY <1>2, CallFacts, SMTT(30) DEF WInv, TypeOK, Queues, Progress, Waiting, Wake, queueVars, userVars, history
<1>3. CASE Exit
  <2>1. ASSUME NEW x \in Seq(Timed) PROVE NoTask \notin Elements(x)
    BY CallFacts, ElementsOf
  <2>2. ASSUME NEW x \in Seq(Tasks \cup {Shutdown}) PROVE NoTask \notin Elements(x)
    BY CallFacts, ElementsOf, SMTT(30)
  <2>3. TypeOK'
    BY <1>3, CallFacts, Zenon DEF WInv, TypeOK, Exit, queueVars, userVars, history
  <2>4. Queues'
    BY <1>3, <2>1, <2>2, Zenon DEF WInv, TypeOK, Queues, Exit, queueVars, userVars, history
  <2>5. Progress'
    BY <1>3, Zenon DEF WInv, Progress, Exit
  <2>6. Waiting'
    <3>1. ASSUME NEW u \in Users PROVE pc[u] # "cancel"
      BY <1>3, CallFacts, Zenon DEF WInv, TypeOK, Progress, Waiting, Exit
    <3> QED
      BY <1>3, <3>1, Zenon DEF WInv, Waiting, Exit, userVars, history
  <2> QED
    BY <2>3, <2>4, <2>5, <2>6, Zenon DEF WInv
<1> QED
  BY <1>1, <1>2, <1>3, Zenon

\* The worker runs a task, or skips it.
LEMMA Begin_WInv ==
    ASSUME WInv, Begin
    PROVE  WInv'
<1>1. /\ worker = "begin" /\ item # Shutdown
      /\ UNCHANGED <<queueVars, item, m_itemInProgress, nextTimerInMs, drift, userVars,
                     used, cancelled, toWait, owed>>
  BY Zenon DEF Begin
<1>2. item \in Tasks /\ item \in used /\ item \notin ran
  BY <1>1, CallFacts, Zenon DEF WInv, TypeOK, Queues, Progress
<1>3. CASE m_itemInProgress # NoTask
  <2>1. worker' = "run" /\ ran' = ran \cup {item} /\ m_itemInProgress = item /\ item \notin cancelled
    BY <1>1, <1>3, Zenon DEF Begin, WInv, Progress
  <2>2. TypeOK'
    BY <1>1, <1>2, <2>1, Zenon DEF WInv, TypeOK, queueVars, userVars
  <2>3. Queues'
    BY <1>1, <1>2, <2>1, Zenon DEF WInv, Queues, queueVars
  <2>4. Progress' /\ Waiting'
    BY <1>1, <1>2, <2>1, Zenon DEF WInv, Progress, Waiting, userVars
  <2> QED
    BY <2>2, <2>3, <2>4, Zenon DEF WInv
<1>4. CASE m_itemInProgress = NoTask
  <2>1. worker' = "free" /\ ran' = ran /\ item \in cancelled
    BY <1>1, <1>2, <1>4, CallFacts, Zenon DEF Begin, WInv, Progress
  <2>2. TypeOK' /\ Queues'
    BY <1>1, <1>2, <2>1, Zenon DEF WInv, TypeOK, Queues, queueVars, userVars
  <2>3. Progress' /\ Waiting'
    BY <1>1, <1>2, <1>4, <2>1, Zenon DEF WInv, Progress, Waiting, userVars
  <2> QED
    BY <2>2, <2>3, Zenon DEF WInv
<1> QED
  BY <1>3, <1>4, Zenon

\* The task calls the dispatcher, returns, and is freed.
LEMMA Run_WInv ==
    ASSUME WInv, TaskCalls \/ TaskCallReturns \/ End \/ Free
    PROVE  WInv'
<1>1. CASE TaskCalls \/ TaskCallReturns
  BY <1>1, SMTT(30) DEF WInv, TypeOK, Queues, Progress, Waiting, TaskCalls, TaskCallReturns, queueVars,
              userVars, history
<1>2. CASE End
  <2>1. TypeOK' /\ Queues'
    BY <1>2, Zenon DEF WInv, TypeOK, Queues, End, queueVars, userVars, history
  <2>2. Progress' /\ Waiting'
    BY <1>2, CallFacts, Zenon DEF WInv, Progress, Waiting, End, userVars, history
  <2> QED
    BY <2>1, <2>2, Zenon DEF WInv
<1>3. CASE Free
  <2>1. NoTask \notin Elements(m_timerQueue) /\ NoTask \notin Elements(m_queue)
    BY CallFacts, ElementsOf DEF WInv, TypeOK
  <2>2. item \in Tasks /\ m_itemInProgress = NoTask /\ worker = "free"
    BY <1>3, Zenon DEF Free, WInv, Progress
  <2>3. TargetTime' \in [Tasks -> Int] /\ \A b \in Tasks \ {item} : TargetTime'[b] = TargetTime[b]
    BY <1>3, <2>2, SMTT(30) DEF Free, WInv, TypeOK
  <2>4. Sorted(m_timerQueue, TargetTime')
    <3>1. \A b \in Elements(m_timerQueue) : TargetTime'[b] = TargetTime[b]
      BY <2>3, CallFacts, ElementsOf, SMTT(30) DEF WInv, TypeOK, Queues
    <3> QED
      BY <3>1, SortedSame, Zenon DEF WInv, TypeOK, Queues
  <2>5. TypeOK'
    BY <1>3, <2>3, CallFacts, Zenon DEF WInv, TypeOK, Free, userVars, history
  <2>6. Queues'
    BY <1>3, <2>1, <2>4, Zenon DEF WInv, Queues, Free, history
  <2>7. Progress' /\ Waiting'
    BY <1>3, <2>2, Zenon DEF WInv, Progress, Waiting, Free, userVars, history
  <2> QED
    BY <2>5, <2>6, <2>7, Zenon DEF WInv
<1> QED
  BY <1>1, <1>2, <1>3, ZenonT(30)

\* Time passes for every queued task alike.
LEMMA TickTimes ==
    ASSUME WInv, Tick
    PROVE  /\ TargetTime' \in [Tasks -> Int]
           /\ \A a \in Elements(m_timerQueue) :
                 TargetTime'[a] = IF TargetTime[a] >= 0 THEN TargetTime[a] - 1 ELSE TargetTime[a]
           /\ Sorted(m_timerQueue, TargetTime')
<1>1. TargetTime' = [a \in Tasks |->
          IF a \in Elements(m_timerQueue) /\ TargetTime[a] >= 0 THEN TargetTime[a] - 1
          ELSE TargetTime[a]]
  BY Zenon DEF Tick
<1>2. TargetTime \in [Tasks -> Int] /\ m_timerQueue \in Seq(Timed)
  BY Zenon DEF WInv, TypeOK
<1>3. TargetTime' \in [Tasks -> Int]
  BY <1>1, <1>2
<1>4. ASSUME NEW a \in Elements(m_timerQueue)
      PROVE  /\ TargetTime[a] \in Int
             /\ TargetTime'[a] = IF TargetTime[a] >= 0 THEN TargetTime[a] - 1 ELSE TargetTime[a]
  <2>1. a \in Tasks
    BY <1>2, CallFacts, ElementsOf, Zenon
  <2> QED
    BY <1>1, <1>2, <2>1, Zenon
<1>5. ASSUME NEW i \in 1..Len(m_timerQueue), NEW j \in 1..Len(m_timerQueue), i < j
      PROVE  TargetTime'[m_timerQueue[i]] <= TargetTime'[m_timerQueue[j]]
  <2>1. m_timerQueue[i] \in Elements(m_timerQueue) /\ m_timerQueue[j] \in Elements(m_timerQueue)
    BY <1>2, ElementsOf
  <2>2. TargetTime[m_timerQueue[i]] <= TargetTime[m_timerQueue[j]]
    BY <1>5, Zenon DEF WInv, Queues, Sorted
  <2> DEFINE x == TargetTime[m_timerQueue[i]]
             y == TargetTime[m_timerQueue[j]]
  <2>3. /\ x \in Int /\ y \in Int /\ x <= y
        /\ TargetTime'[m_timerQueue[i]] = IF x >= 0 THEN x - 1 ELSE x
        /\ TargetTime'[m_timerQueue[j]] = IF y >= 0 THEN y - 1 ELSE y
    BY <1>4, <2>1, <2>2, Zenon
  <2> HIDE DEF x, y
  <2> QED
    BY <2>3
<1> QED
  BY <1>3, <1>4, <1>5, Zenon DEF Sorted

\* The clock.
LEMMA Tick_WInv ==
    ASSUME WInv, Tick
    PROVE  WInv'
<1>1. nextTimerInMs' \in 0..MAX_FUTURE_DELTA_MS /\ drift' \in 0..MaxDrift /\ toWait' \in [Tasks -> Nat]
  <2>1. nextTimerInMs' \in 0..MAX_FUTURE_DELTA_MS
    BY CallFacts, SMTT(30) DEF WInv, TypeOK, Tick
  <2>2. drift' \in 0..MaxDrift
    BY CallFacts DEF WInv, TypeOK, Tick
  <2>3. toWait' \in [Tasks -> Nat]
    <3>1. \A a \in Tasks : (IF toWait[a] > 0 THEN toWait[a] - 1 ELSE 0) \in Nat
      BY SMTT(30) DEF WInv, TypeOK
    <3> QED
      BY <3>1, Zenon DEF Tick
  <2> QED
    BY <2>1, <2>2, <2>3, Zenon
<1>2. TypeOK'
  BY <1>1, TickTimes, SMTT(30) DEF WInv, TypeOK, Tick, userVars
<1>3. Queues'
  BY TickTimes, Zenon DEF WInv, Queues, Tick
<1>4. Progress' /\ Waiting'
  BY Zenon DEF WInv, Progress, Waiting, Tick, userVars
<1> QED
  BY <1>2, <1>3, <1>4, Zenon DEF WInv

-----------------------------------------------------------------------------

\* Every step keeps the invariant.
LEMMA Next_WInv ==
    ASSUME WInv, [Next]_vars
    PROVE  WInv'
<1>1. CASE WorkerStep
  <2>1. CASE Pick
    BY <2>1, PickTimed_WInv, Clamp_WInv, PickCall_WInv, PickNothing_WInv, ZenonT(30) DEF Pick
  <2> QED
    BY <1>1, <2>1, Idle_WInv, Begin_WInv, Run_WInv, Zenon DEF WorkerStep
<1>2. CASE Tick
  BY <1>2, Tick_WInv, Zenon
<1>3. CASE \E t \in Users \cup {"worker"} : Call(t)
  <2>1. PICK t \in Users \cup {"worker"} : Call(t)
    BY <1>3, Zenon
  <2>2. CASE \E a \in Timed : \E d \in Delays : Queue(t, a, d)
    <3>1. PICK a \in Timed : \E d \in Delays : Queue(t, a, d)
      BY <2>2, Zenon
    <3>2. PICK d \in Delays : Queue(t, a, d)
      BY <3>1, Zenon
    <3>3. a \in Tasks /\ d \in Nat
      BY CallFacts, Zenon
    <3> QED
      BY <3>2, <3>3, Queue_WInv, Zenon
  <2>3. CASE \E a \in Tasks \ Timed : Queue(t, a, 0)
    BY <2>3, Queue_WInv, Zenon
  <2>4. CASE Cancel(t)
    <3>1. CASE \E a \in used \cap Timed : Cancel_Erase(t, a)
      BY <3>1, CancelErase_WInv, Zenon
    <3>2. CASE t \in Users /\ \E a \in used \cap Timed : Cancel_Wait(t, a)
      BY <3>2, CancelWait_WInv, Zenon
    <3>4. CASE t \in Users /\ (Cancel_Acquire(t) \/ Cancel_TimeOut(t))
      BY <3>4, CancelWait_WInv, Zenon
    <3>3. \/ \E a \in used \cap Timed : Cancel_Erase(t, a)
          \/ t \in Users /\ \E a \in used \cap Timed : Cancel_Wait(t, a)
          \/ t \in Users /\ (Cancel_Acquire(t) \/ Cancel_TimeOut(t))
      BY <2>4, Zenon DEF Cancel
    <3> QED
      BY <3>1, <3>2, <3>3, <3>4, Zenon
  <2>5. CASE Join_Queue(t)
    BY <2>5, JoinQueue_WInv, Zenon
  <2> QED
    BY <2>1, <2>2, <2>3, <2>4, <2>5, ZenonT(30) DEF Call
<1>4. CASE \E u \in Users : Join_Return(u)
  BY <1>4, JoinReturn_WInv, ZenonT(30)
<1>5. CASE UNCHANGED vars
  BY <1>5, SMTT(30) DEF WInv, TypeOK, Queues, Progress, Waiting, vars, queueVars, workerVars, userVars, history
<1> QED
  BY <1>1, <1>2, <1>3, <1>4, <1>5, Zenon DEF Next

\* The dispatcher starts with empty queues.
LEMMA Init_WInv == Init => WInv
<1>1. /\ <<>> \in Seq(Timed) /\ <<>> \in Seq(Tasks \cup {Shutdown})
      /\ Elements(<<>>) = {} /\ NoDup(<<>>) /\ \A time : Sorted(<<>>, time)
  BY DEF Elements, NoDup, Sorted
<1>2. Init => TypeOK
  <2>1. 0 \in 0..MAX_FUTURE_DELTA_MS /\ 0 \in 0..MaxDrift
    BY CallFacts
  <2>2. SUFFICES ASSUME Init PROVE TypeOK
    BY Zenon
  <2>3. /\ TargetTime \in [Tasks -> Int] /\ toWait \in [Tasks -> Nat]
        /\ pc \in [Users -> {"idle", "cancel", "join", "joined"}]
        /\ arg \in [Users -> Timed \cup {NoTask}]
    BY <2>2 DEF Init
  <2>4. /\ m_queue \in Seq(Tasks \cup {Shutdown}) /\ m_timerQueue \in Seq(Timed)
        /\ nextTimerInMs \in 0..MAX_FUTURE_DELTA_MS /\ drift \in 0..MaxDrift
    BY <1>1, <2>1, <2>2, Zenon DEF Init
  <2> QED
    BY <2>2, <2>3, <2>4, Zenon DEF Init, TypeOK
<1>3. Init => Queues /\ Progress /\ Waiting
  BY <1>1, CallFacts DEF Init, Queues, Progress, Waiting
<1> QED
  BY <1>2, <1>3, Zenon DEF WInv

\* The queues, the clock values and the threads' positions have their types.
THEOREM TypeCorrect == Spec => []TypeOK
<1>1. WInv => TypeOK
  BY Zenon DEF WInv
<1> QED
  BY <1>1, Init_WInv, Next_WInv, PTL DEF Spec

\* A task is neither run nor started once Cancel has returned true for it (WorkerThread.cpp,
\* Cancel and threadFunc), whatever other threads queue and cancel meanwhile.
THEOREM CancelledAlwaysIdle == Spec => []CancelledStaysIdle
<1>1. WInv => CancelledStaysIdle
  <2>1. SUFFICES ASSUME WInv, NEW a \in cancelled
                 PROVE  /\ a \notin Elements(m_timerQueue)
                        /\ item = a => worker \notin {"run", "call"} /\ m_itemInProgress # a
    BY Zenon DEF CancelledStaysIdle
  <2>2. a \notin Elements(m_timerQueue)
    BY <2>1, Zenon DEF WInv, Queues
  <2>3. ASSUME item = a PROVE worker \notin {"run", "call"} /\ m_itemInProgress # a
    BY <2>1, <2>3, CallFacts, Zenon DEF WInv, TypeOK, Progress
  <2> QED
    BY <2>2, <2>3, Zenon
<1> QED
  BY <1>1, Init_WInv, Next_WInv, PTL DEF Spec

-----------------------------------------------------------------------------
(* The dispatcher implements TaskDispatcher *)

\* A step that starts, ends, queues and cancels nothing is not seen.
LEMMA Unseen ==
    ASSUME UNCHANGED <<used, ran, cancelled>>, (worker' = "exit") <=> (worker = "exit"),
           \A a \in ran : (worker \in {"run", "call"} /\ item = a) <=> (worker' \in {"run", "call"} /\ item' = a)
    PROVE  UNCHANGED Promise!vars
<1>1. \A a \in Tasks : Status(a)' = Status(a)
  BY Zenon DEF Status
<1>2. [a \in Tasks |-> Status(a)]' = [a \in Tasks |-> Status(a)]
  BY <1>1, Zenon
<1> QED
  BY <1>2, Zenon DEF Promise!vars

\* A step that changes what has become of one task.
LEMMA Seen ==
    ASSUME NEW a \in Tasks, NEW from, NEW to, Status(a) = from, Status(a)' = to,
           \A b \in Tasks \ {a} : Status(b)' = Status(b)
    PROVE  Promise!Becomes(a, from, to)
<1> DEFINE s == [b \in Tasks |-> Status(b)]
<1>1. s' = [s EXCEPT ![a] = to]
  <2>1. \A b \in Tasks : s'[b] = [s EXCEPT ![a] = to][b]
    BY Zenon
  <2> QED
    BY <2>1, Zenon
<1> QED
  BY <1>1, Zenon DEF Promise!Becomes

\* Queue.
LEMMA Queue_Seen ==
    ASSUME WInv, NEW t \in Users \cup {"worker"}, NEW a \in Tasks, NEW d, Queue(t, a, d)
    PROVE  Promise!Queue(a)
<1>1. /\ a \notin used /\ a \notin ran /\ a \notin cancelled /\ a # item
      /\ used' = used \cup {a} /\ UNCHANGED <<ran, cancelled, worker, item>>
  BY CallFacts, Zenon DEF WInv, TypeOK, Queues, Queue, workerVars
<1>2. Status(a) = "new" /\ Status(a)' = "queued" /\ \A b \in Tasks \ {a} : Status(b)' = Status(b)
  BY <1>1, Zenon DEF Status
<1> QED
  BY <1>1, <1>2, Seen, Zenon DEF Promise!Queue

\* Cancel returns true for a task that does not run.
LEMMA Cancel_Seen ==
    ASSUME WInv, NEW a \in used \cap Timed, ~(worker \in {"run", "call"} /\ item = a),
           cancelled' = cancelled \cup {a}, UNCHANGED <<used, ran, worker, item>>
    PROVE  Promise!Cancel(a)
<1>1. a \in Tasks
  BY CallFacts, Zenon
<1>2. UNCHANGED (worker = "exit")
  BY Zenon
<1>3. CASE a \in ran \cup cancelled
  <2>1. Status(a) \in {"done", "cancelled"}
    BY <1>3, Zenon DEF Status
  <2>2. \A b \in Tasks : Status(b)' = Status(b)
    BY <1>3, Zenon DEF Status
  <2>3. [b \in Tasks |-> Status(b)]' = [b \in Tasks |-> Status(b)]
    BY <2>2, Zenon
  <2> QED
    BY <1>1, <1>2, <2>1, <2>3, Zenon DEF Promise!Cancel
<1>4. CASE a \notin ran \cup cancelled
  <2>1. /\ Status(a) = "queued" /\ Status(a)' = "cancelled"
        /\ \A b \in Tasks \ {a} : Status(b)' = Status(b)
    BY <1>4, Zenon DEF Status
  <2> QED
    BY <1>1, <1>2, <2>1, Seen, Zenon DEF Promise!Cancel
<1> QED
  BY <1>3, <1>4, Zenon

\* A task is started, or skipped when it is cancelled.
LEMMA Begin_Seen ==
    ASSUME WInv, Begin
    PROVE  [Promise!Next]_(Promise!vars)
<1>1. /\ worker = "begin" /\ item \in Tasks /\ item \in used /\ item \notin ran
      /\ UNCHANGED <<item, used, cancelled>>
  BY CallFacts, Zenon DEF Begin, WInv, TypeOK, Queues, Progress
<1>2. CASE m_itemInProgress # NoTask
  <2>1. worker' = "run" /\ ran' = ran \cup {item} /\ item \notin cancelled
    BY <1>1, <1>2, Zenon DEF Begin, WInv, Progress
  <2>2. /\ Status(item) = "queued" /\ Status(item)' = "running"
        /\ \A b \in Tasks \ {item} : Status(b)' = Status(b)
    BY <1>1, <2>1, Zenon DEF Status
  <2>3. \A b \in Tasks : Status(b) # "running"
    BY <1>1, Zenon DEF Status
  <2>4. Promise!Becomes(item, "queued", "running")
    BY <1>1, <2>2, Seen, Zenon
  <2>5. Promise!Run(item)
    BY <1>1, <2>1, <2>3, <2>4, ZenonT(30) DEF Promise!Run, Promise!Idle
  <2> QED
    BY <1>1, <2>5, Zenon DEF Promise!Next
<1>3. CASE m_itemInProgress = NoTask
  <2>1. worker' = "free" /\ ran' = ran
    BY <1>1, <1>3, Zenon DEF Begin
  <2> QED
    BY <1>1, <2>1, Unseen, Zenon
<1> QED
  BY <1>2, <1>3, Zenon

\* A task returns.
LEMMA End_Seen ==
    ASSUME WInv, End
    PROVE  item \in Tasks /\ Promise!Return(item)
<1>1. /\ worker = "run" /\ worker' = "free" /\ item \in Tasks /\ item \in ran /\ item \in used
      /\ UNCHANGED <<item, used, ran, cancelled>>
  BY Zenon DEF End, WInv, TypeOK, Progress, history
<1>2. /\ Status(item) = "running" /\ Status(item)' = "done"
      /\ \A b \in Tasks \ {item} : Status(b)' = Status(b)
  BY <1>1, Zenon DEF Status
<1>3. Promise!Becomes(item, "running", "done")
  BY <1>1, <1>2, Seen, Zenon
<1> QED
  BY <1>1, <1>3, Zenon DEF Promise!Return

\* The thread ends.
LEMMA Exit_Seen ==
    ASSUME WInv, Exit
    PROVE  Promise!Stop
<1>1. worker = "begin" /\ worker' = "exit" /\ UNCHANGED <<used, ran, cancelled>>
  BY Zenon DEF Exit, history
<1>2. \A b \in Tasks : Status(b) # "running" /\ Status(b)' = Status(b)
  BY <1>1, Zenon DEF Status
<1>3. [b \in Tasks |-> Status(b)]' = [b \in Tasks |-> Status(b)]
  BY <1>2, Zenon
<1> QED
  BY <1>1, <1>2, <1>3, Zenon DEF Promise!Stop, Promise!Idle

\* Every step of the dispatcher is a step of TaskDispatcher, or is not seen.
LEMMA Next_Seen ==
    ASSUME WInv, [Next]_vars
    PROVE  [Promise!Next]_(Promise!vars)
<1>1. CASE Begin \/ End \/ Exit
  BY <1>1, Begin_Seen, End_Seen, Exit_Seen, SMTT(30) DEF Promise!Next
<1>2. CASE Pick \/ Reset \/ Wake \/ TaskCalls \/ TaskCallReturns \/ Free \/ Tick
  <2>1. UNCHANGED <<used, ran, cancelled>>
    BY <1>2, Zenon DEF Pick, PickTimed, Clamp, PickCall, PickNothing, Take, Reset, Wake, TaskCalls,
                TaskCallReturns, Free, Tick, history
  <2>2. \/ worker \notin {"run", "call", "exit"} /\ worker' \notin {"run", "call", "exit"}
        \/ worker \in {"run", "call"} /\ worker' \in {"run", "call"} /\ item' = item
        \/ UNCHANGED <<worker, item>>
    BY <1>2, Zenon DEF Pick, PickTimed, Clamp, PickCall, PickNothing, Take, Reset, Wake, TaskCalls,
                TaskCallReturns, Free, Tick, workerVars
  <2> QED
    BY <2>1, <2>2, Unseen, Zenon
<1>3. CASE \E t \in Users \cup {"worker"} : Call(t)
  <2>1. PICK t \in Users \cup {"worker"} : Call(t)
    BY <1>3, Zenon
  <2>2. CASE \E a \in Tasks : \E d : Queue(t, a, d)
    BY <2>2, Queue_Seen, Zenon DEF Promise!Next
  <2>3. CASE \E a \in used \cap Timed : Cancel_Erase(t, a)
    <3>1. PICK a \in used \cap Timed : Cancel_Erase(t, a)
      BY <2>3, Zenon
    <3>2. ~(worker \in {"run", "call"} /\ item = a)
      BY <3>1, Zenon DEF Cancel_Erase, WInv, Progress
    <3>3. cancelled' = cancelled \cup {a} /\ UNCHANGED <<used, ran, worker, item>>
      BY <3>1, Zenon DEF Cancel_Erase, workerVars
    <3>4. Promise!Cancel(a) /\ a \in Tasks
      BY <3>2, <3>3, Cancel_Seen, CallFacts, Zenon
    <3> QED
      BY <3>4, Zenon DEF Promise!Next
  <2>4. CASE t \in Users /\ \E a \in used \cap Timed : Cancel_Wait(t, a)
    BY <2>4, Unseen, Zenon DEF Cancel_Wait, workerVars, history
  <2>5. CASE t \in Users /\ (Cancel_Acquire(t) \/ Cancel_TimeOut(t))
    <3>1. UNCHANGED <<used, ran, worker, item>> /\ arg[t] \in used \cap Timed
      BY <2>5, Zenon DEF Cancel_Acquire, Cancel_TimeOut, Return, WInv, Waiting
    <3>2. CASE cancelled' = cancelled
      BY <3>1, <3>2, Unseen, Zenon
    <3>3. CASE cancelled' # cancelled
      <4>1. cancelled' = cancelled \cup {arg[t]}
        BY <2>5, <3>3, Zenon DEF Cancel_Acquire, Cancel_TimeOut, Return
      <4>2. ~(worker \in {"run", "call"} /\ item = arg[t])
        BY <2>5, <3>3, Zenon DEF Cancel_Acquire, Cancel_TimeOut, Return, Executing, WInv, Progress
      <4>3. Promise!Cancel(arg[t]) /\ arg[t] \in Tasks
        BY <3>1, <4>1, <4>2, Cancel_Seen, CallFacts, Zenon
      <4> QED
        BY <4>3, Zenon DEF Promise!Next
    <3> QED
      BY <3>2, <3>3, Zenon
  <2>6. CASE Join_Queue(t)
    BY <2>6, Unseen, Zenon DEF Join_Queue, workerVars
  <2>7. \/ \E a \in Tasks : \E d : Queue(t, a, d)
        \/ Cancel(t)
        \/ Join_Queue(t)
    BY <2>1, CallFacts, Zenon DEF Call
  <2>8. Cancel(t) => \/ \E a \in used \cap Timed : Cancel_Erase(t, a)
                     \/ t \in Users /\ \E a \in used \cap Timed : Cancel_Wait(t, a)
                     \/ t \in Users /\ (Cancel_Acquire(t) \/ Cancel_TimeOut(t))
    BY Zenon DEF Cancel
  <2> QED
    BY <2>2, <2>3, <2>4, <2>5, <2>6, <2>7, <2>8, ZenonT(30)
<1>4. CASE \E u \in Users : Join_Return(u)
  BY <1>4, Unseen, ZenonT(30) DEF Join_Return, workerVars, history
<1>5. CASE UNCHANGED vars
  BY <1>5, Unseen, Zenon DEF vars, workerVars, history
<1> QED
  BY <1>1, <1>2, <1>3, <1>4, <1>5, Zenon DEF Next, WorkerStep

\* Whatever the tasks, threads and delays, what threads see of WorkerThread is what
\* ITaskDispatcher promises: tasks run one at a time and once, and none that Cancel reported
\* as cancelled.
THEOREM Implements == Spec => Promise!Spec
<1>1. Init => Promise!Init
  BY Zenon DEF Init, Status, Promise!Init
<1>2. WInv /\ [Next]_vars => [Promise!Next]_(Promise!vars)
  BY Next_Seen, Zenon
<1> QED
  BY <1>1, <1>2, Init_WInv, Next_WInv, PTL DEF Spec, Promise!Spec

-----------------------------------------------------------------------------
(* Time *)

\* The steps, one by one.
LEMMA Steps ==
    ASSUME [Next]_vars
    PROVE  \/ \E t \in Users \cup {"worker"}, a \in Tasks, d \in Nat :
                 Queue(t, a, d) /\ (a \notin Timed => d = 0)
           \/ \E t \in Users \cup {"worker"}, a \in used \cap Timed : Cancel_Erase(t, a)
           \/ \E u \in Users, a \in used \cap Timed : Cancel_Wait(u, a)
           \/ \E u \in Users : Cancel_Acquire(u) \/ Cancel_TimeOut(u) \/ Join_Return(u)
           \/ \E t \in Users \cup {"worker"} : Join_Queue(t)
           \/ Pick /\ (PickTimed \/ Clamp \/ PickCall \/ PickNothing)
           \/ Reset \/ Wake \/ Exit \/ Begin \/ TaskCalls \/ TaskCallReturns \/ End \/ Free
           \/ Tick
           \/ UNCHANGED vars
<1>1. CASE \E t \in Users \cup {"worker"} : Call(t)
  <2>1. PICK t \in Users \cup {"worker"} : Call(t)
    BY <1>1, Zenon
  <2>2. CASE \E a \in Timed : \E d \in Delays : Queue(t, a, d)
    BY <2>2, CallFacts, Zenon
  <2>3. CASE \E a \in Tasks \ Timed : Queue(t, a, 0)
    BY <2>3, Zenon
  <2>4. CASE Cancel(t)
    BY <2>4, Zenon DEF Cancel
  <2> QED
    BY <2>1, <2>2, <2>3, <2>4 DEF Call
<1> QED
  BY <1>1, ZenonT(30) DEF Next, WorkerStep, Pick

\* How long a task has yet to wait is no longer than its time in the queue says.
Timing ==
    /\ \A a \in Tasks : toWait[a] <= MAX_FUTURE_DELTA_MS
    /\ \A a \in Elements(m_timerQueue) : toWait[a] > 0 => toWait[a] <= TargetTime[a]
    /\ \A a \in Elements(m_queue) : a \in Tasks => toWait[a] = 0
    /\ item \in Tasks => toWait[item] = 0

\* What the worker knows when it goes to sleep holds until the event is set.
Sleep ==
    worker \in {"reset", "wait"} /\ nextTimerInMs > 0 =>
        \/ m_bFlag
        \/ /\ m_queue = <<>>
           /\ \A a \in Elements(m_timerQueue) : TargetTime[a] + drift >= nextTimerInMs

\* Queue.
LEMMA Queue_Timing ==
    ASSUME WInv, Timing, NEW t \in Users \cup {"worker"}, NEW a \in Tasks, NEW d \in Nat, Queue(t, a, d),
           a \notin Timed => d = 0
    PROVE  Timing' /\ Sleep'
<1>1. /\ a \notin used /\ Enqueue(a, d, m_timerQueue)
      /\ toWait' = [toWait EXCEPT ![a] = Least(d, MAX_FUTURE_DELTA_MS)]
      /\ UNCHANGED <<worker, item>>
  BY Zenon DEF Queue, workerVars
<1>2. /\ Least(d, MAX_FUTURE_DELTA_MS) <= MAX_FUTURE_DELTA_MS /\ Least(d, MAX_FUTURE_DELTA_MS) <= d
      /\ d = 0 => Least(d, MAX_FUTURE_DELTA_MS) = 0
  BY CallFacts DEF Least
<1>3. /\ a \notin Elements(m_timerQueue) /\ a \notin Elements(m_queue) /\ a # item
  BY <1>1, CallFacts, Zenon DEF WInv, TypeOK, Queues
<1>4. /\ m_timerQueue \in Seq(Timed) /\ m_queue \in Seq(Tasks \cup {Shutdown})
      /\ TargetTime \in [Tasks -> Int]
      /\ NoDup(m_timerQueue) /\ NoDup(m_queue) /\ Sorted(m_timerQueue, TargetTime)
  BY Zenon DEF WInv, TypeOK, Queues
<1>5. toWait'[a] = Least(d, MAX_FUTURE_DELTA_MS) /\ \A b \in Tasks \ {a} : toWait'[b] = toWait[b]
  BY <1>1, Zenon DEF WInv, TypeOK
<1>6. \A b \in Tasks : toWait'[b] <= MAX_FUTURE_DELTA_MS
  BY <1>2, <1>5, Zenon DEF Timing
<1>7. Elements(m_timerQueue) \subseteq Tasks
  BY <1>4, ElementsOf, CallFacts, Zenon
<1>8. item' \in Tasks => toWait'[item'] = 0
  BY <1>1, <1>3, <1>5, Zenon DEF Timing
<1>9. CASE a \in Timed
  <2>1. /\ TargetTime'[a] = d
        /\ \A b \in Tasks \ {a} : TargetTime'[b] = TargetTime[b]
        /\ Elements(m_timerQueue') = Elements(m_timerQueue) \cup {a}
        /\ m_queue' = m_queue /\ m_bFlag' = TRUE
    BY <1>1, <1>3, <1>4, <1>9, EnqueueTimed, ZenonT(30)
  <2>2. ASSUME NEW b \in Elements(m_timerQueue'), toWait'[b] > 0 PROVE toWait'[b] <= TargetTime'[b]
    <3>1. CASE b = a
      BY <1>2, <1>5, <2>1, <3>1, Zenon
    <3>2. CASE b # a
      BY <1>5, <1>7, <2>1, <2>2, <3>2 DEF Timing
    <3> QED
      BY <3>1, <3>2, Zenon
  <2>3. \A b \in Elements(m_queue') : b \in Tasks => toWait'[b] = 0
    BY <1>3, <1>5, <2>1, Zenon DEF Timing
  <2> QED
    BY <1>6, <1>8, <2>1, <2>2, <2>3 DEF Timing, Sleep
<1>10. CASE a \notin Timed
  <2>1. /\ Elements(m_queue') = Elements(m_queue) \cup {a}
        /\ UNCHANGED <<m_timerQueue, TargetTime>> /\ m_bFlag' = TRUE
    BY <1>1, <1>3, <1>4, <1>10, EnqueueCall, ZenonT(30)
  <2>2. \A b \in Elements(m_timerQueue') : toWait'[b] > 0 => toWait'[b] <= TargetTime'[b]
    BY <1>3, <1>5, <1>7, <2>1 DEF Timing
  <2>3. \A b \in Elements(m_queue') : b \in Tasks => toWait'[b] = 0
    BY <1>2, <1>3, <1>5, <1>10, <2>1 DEF Timing
  <2> QED
    BY <1>6, <1>8, <2>1, <2>2, <2>3 DEF Timing, Sleep
<1> QED
  BY <1>9, <1>10, Zenon

\* Cancel.
LEMMA CancelErase_Timing ==
    ASSUME WInv, Timing, Sleep, NEW t, NEW a \in used \cap Timed, Cancel_Erase(t, a)
    PROVE  Timing' /\ Sleep'
<1>1. UNCHANGED <<m_queue, m_bFlag, worker, item, nextTimerInMs, drift, toWait>>
  BY Zenon DEF Cancel_Erase, workerVars
<1>2. /\ \A b \in Tasks \ {a} : TargetTime'[b] = TargetTime[b]
      /\ Elements(m_timerQueue') = Elements(m_timerQueue) \ {a}
  BY EraseTimed, Zenon DEF WInv, TypeOK, Queues
<1>3. Elements(m_timerQueue) \subseteq Tasks
  BY ElementsOf, CallFacts, Zenon DEF WInv, TypeOK
<1>4. \A b \in Elements(m_timerQueue') : b \in Elements(m_timerQueue) /\ TargetTime'[b] = TargetTime[b]
  BY <1>2, <1>3, Zenon
<1>5. Timing'
  BY <1>1, <1>4, Zenon DEF Timing
<1>6. Sleep'
  BY <1>1, <1>4, Zenon DEF Sleep
<1> QED
  BY <1>5, <1>6, Zenon

\* The worker's look at the queues.
LEMMA Pick_Timing ==
    ASSUME WInv, Timing, worker = "pick", m_lock = NoUser, UNCHANGED userVars,
           PickTimed \/ Clamp \/ PickCall \/ PickNothing
    PROVE  Timing' /\ Sleep'
<1>0. /\ m_timerQueue \in Seq(Timed) /\ m_queue \in Seq(Tasks \cup {Shutdown})
      /\ TargetTime \in [Tasks -> Int] /\ toWait \in [Tasks -> Nat]
      /\ NoDup(m_timerQueue) /\ NoDup(m_queue) /\ Sorted(m_timerQueue, TargetTime)
      /\ Elements(m_timerQueue) \subseteq Tasks
  BY ElementsOf, CallFacts, Zenon DEF WInv, TypeOK, Queues
<1>1. CASE PickTimed
  <2> DEFINE a == Head(m_timerQueue)
  <2>1. /\ m_timerQueue # <<>> /\ TargetTime[a] <= 0 /\ m_timerQueue' = Tail(m_timerQueue)
        /\ item' = a /\ worker' = "begin" /\ UNCHANGED <<toWait, m_queue, TargetTime>>
    BY <1>1, Zenon DEF PickTimed, FrontIsDue, Take, history
  <2> HIDE DEF a
  <2>2. a \in Elements(m_timerQueue) /\ Elements(m_timerQueue') = Elements(m_timerQueue) \ {a}
    BY <1>0, <2>1, TailElements, ZenonT(30) DEF a
  <2>3. toWait[a] = 0
    <3>1. a \in Tasks
      BY <1>0, <2>2, ZenonT(30)
    <3>2. TargetTime[a] \in Int /\ toWait[a] \in Nat
      BY <1>0, <3>1, Zenon
    <3> QED
      BY <2>1, <2>2, <3>2, SMTT(30) DEF Timing
  <2> QED
    BY <2>1, <2>2, <2>3 DEF Timing, Sleep
<1>2. CASE Clamp
  <2> DEFINE a == Head(m_timerQueue)
             timers == Tail(m_timerQueue)
  <2>1. m_timerQueue # <<>> /\ Enqueue(a, MAX_FUTURE_DELTA_MS, timers) /\ UNCHANGED <<workerVars, history>>
    BY <1>2, Zenon DEF Clamp, FrontIsFar
  <2> HIDE DEF a, timers
  <2>2. /\ a \in Elements(m_timerQueue) /\ a \in Timed
        /\ timers \in Seq(Timed) /\ Elements(timers) = Elements(m_timerQueue) \ {a}
        /\ NoDup(timers) /\ Sorted(timers, TargetTime)
    BY <1>0, <2>1, TailElements, SortedTail, ElementsOf DEF a, timers
  <2>3. a \notin Elements(timers) /\ MAX_FUTURE_DELTA_MS \in Nat
    BY <2>2, CallFacts, Zenon
  <2>4. /\ TargetTime'[a] = MAX_FUTURE_DELTA_MS
        /\ \A b \in Tasks \ {a} : TargetTime'[b] = TargetTime[b]
        /\ Elements(m_timerQueue') = Elements(timers) \cup {a}
        /\ m_queue' = m_queue
    BY <1>0, <2>1, <2>2, <2>3, EnqueueTimed, ZenonT(30)
  <2>5. \A b \in Elements(m_timerQueue') : toWait[b] > 0 => toWait[b] <= TargetTime'[b]
    BY <1>0, <2>2, <2>4 DEF Timing
  <2> QED
    BY <2>1, <2>4, <2>5 DEF Timing, Sleep, workerVars, history
<1>3. CASE PickCall
  <2> DEFINE a == Head(m_queue)
  <2>1. /\ m_queue # <<>> /\ m_queue' = Tail(m_queue)
        /\ item' = a /\ worker' = "begin" /\ UNCHANGED <<toWait, m_timerQueue, TargetTime>>
    BY <1>3, Zenon DEF PickCall, Take, history
  <2> HIDE DEF a
  <2>2. a \in Elements(m_queue) /\ Elements(m_queue') = Elements(m_queue) \ {a}
    BY <1>0, <2>1, TailElements DEF a
  <2> QED
    BY <2>1, <2>2, Zenon DEF Timing, Sleep
<1>4. CASE PickNothing
  <2>1. UNCHANGED <<m_queue, m_timerQueue, TargetTime, item, toWait>> /\ m_queue = <<>> /\ drift' = 0
    BY <1>4, Zenon DEF PickNothing, queueVars, history
  <2>2. Timing'
    BY <2>1, Zenon DEF Timing
  <2>3. \A a \in Elements(m_timerQueue) : TargetTime[a] >= nextTimerInMs'
    <3>1. CASE m_timerQueue = <<>>
      BY <3>1, <1>0, ElementsOf, Zenon
    <3>2. CASE m_timerQueue # <<>>
      <4>1. nextTimerInMs' = TargetTime[Head(m_timerQueue)]
        BY <1>4, <3>2, Zenon DEF PickNothing
      <4>2. \A a \in Elements(m_timerQueue) : TargetTime[Head(m_timerQueue)] <= TargetTime[a]
        BY <1>0, <3>2, SortedFirst, Zenon
      <4>3. Head(m_timerQueue) \in Tasks
        BY <1>0, <3>2, CallFacts
      <4>4. TargetTime[Head(m_timerQueue)] \in Int /\ \A a \in Elements(m_timerQueue) : TargetTime[a] \in Int
        BY <1>0, <4>3, Zenon
      <4> QED
        BY <4>1, <4>2, <4>4, Zenon
    <3> QED
      BY <3>1, <3>2, Zenon
  <2>4. \A a \in Elements(m_timerQueue') : TargetTime'[a] + drift' >= nextTimerInMs'
    BY <1>0, <2>1, <2>3
  <2>5. Sleep'
    BY <2>1, <2>4, Zenon DEF Sleep
  <2> QED
    BY <2>2, <2>5, Zenon
<1> QED
  BY <1>1, <1>2, <1>3, <1>4, SMTT(30)

\* Time passes for the tasks and for the sleep.
LEMMA Tick_Timing ==
    ASSUME WInv, Timing, Sleep, Tick
    PROVE  Timing' /\ Sleep'
<1>1. /\ toWait' = [a \in Tasks |-> IF toWait[a] > 0 THEN toWait[a] - 1 ELSE 0]
      /\ nextTimerInMs' = (IF worker = "wait" /\ nextTimerInMs > 0 THEN nextTimerInMs - 1 ELSE nextTimerInMs)
      /\ drift' = (IF worker = "reset" THEN drift + 1 ELSE drift)
      /\ UNCHANGED <<m_queue, m_timerQueue, m_bFlag, worker, item>>
  BY Zenon DEF Tick
<1>2. toWait \in [Tasks -> Nat] /\ TargetTime \in [Tasks -> Int] /\ nextTimerInMs \in Nat /\ drift \in Nat
  BY CallFacts DEF WInv, TypeOK
<1>3. \A a \in Tasks : /\ toWait[a] \in Nat
                       /\ toWait'[a] = IF toWait[a] > 0 THEN toWait[a] - 1 ELSE 0
  BY <1>1, <1>2, Zenon
<1>4. Elements(m_timerQueue) \subseteq Tasks
  BY ElementsOf, CallFacts, Zenon DEF WInv, TypeOK
<1>5. \A a \in Elements(m_timerQueue) :
         /\ TargetTime[a] \in Int
         /\ TargetTime'[a] = IF TargetTime[a] >= 0 THEN TargetTime[a] - 1 ELSE TargetTime[a]
  BY <1>2, <1>4, TickTimes, Zenon
<1>6. Timing'
  <2>1. \A a \in Tasks : toWait'[a] <= MAX_FUTURE_DELTA_MS
    BY <1>3, CallFacts DEF Timing
  <2>2. ASSUME NEW a \in Elements(m_timerQueue), toWait'[a] > 0 PROVE toWait'[a] <= TargetTime'[a]
    <3>1. a \in Tasks
      BY <1>4, Zenon
    <3>2. toWait[a] > 0 /\ toWait'[a] = toWait[a] - 1 /\ toWait[a] \in Nat
      BY <1>3, <2>2, <3>1
    <3>3. toWait[a] <= TargetTime[a]
      BY <3>2, Zenon DEF Timing
    <3>4. TargetTime[a] \in Int /\ (TargetTime[a] >= 0 => TargetTime'[a] = TargetTime[a] - 1)
      BY <1>5, Zenon
    <3> QED
      BY <3>2, <3>3, <3>4
  <2>3. \A a \in Elements(m_queue) : a \in Tasks => toWait'[a] = 0
    BY <1>3 DEF Timing
  <2>4. item \in Tasks => toWait'[item] = 0
    BY <1>3 DEF Timing
  <2> QED
    BY <1>1, <2>1, <2>2, <2>3, <2>4, SMTT(30) DEF Timing
<1>7. Sleep'
  <2>1. SUFFICES ASSUME worker \in {"reset", "wait"}, nextTimerInMs' > 0, ~m_bFlag
                 PROVE  /\ m_queue = <<>>
                        /\ \A a \in Elements(m_timerQueue) : TargetTime'[a] + drift' >= nextTimerInMs'
    BY <1>1, Zenon DEF Sleep
  <2>2. nextTimerInMs > 0
    BY <1>1, <1>2, <2>1
  <2>3. m_queue = <<>> /\ \A a \in Elements(m_timerQueue) : TargetTime[a] + drift >= nextTimerInMs
    BY <2>1, <2>2, Zenon DEF Sleep
  <2>4. ASSUME NEW a \in Elements(m_timerQueue) PROVE TargetTime'[a] + drift' >= nextTimerInMs'
    <3>1. /\ TargetTime[a] \in Int /\ TargetTime[a] + drift >= nextTimerInMs
          /\ TargetTime'[a] = IF TargetTime[a] >= 0 THEN TargetTime[a] - 1 ELSE TargetTime[a]
      BY <1>5, <2>3, Zenon
    <3>2. CASE worker = "reset"
      <4>1. drift' = drift + 1 /\ nextTimerInMs' = nextTimerInMs
        BY <1>1, <3>2, Zenon
      <4> QED
        BY <1>2, <3>1, <4>1
    <3>3. CASE worker = "wait"
      <4>1. drift' = drift /\ nextTimerInMs' = nextTimerInMs - 1
        BY <1>1, <2>2, <3>3, ZenonT(30)
      <4> QED
        BY <1>2, <3>1, <4>1
    <3> QED
      BY <2>1, <3>2, <3>3, Zenon
  <2> QED
    BY <2>3, <2>4, Zenon
<1> QED
  BY <1>6, <1>7, Zenon

\* No other step brings a task nearer to its start, or the worker to sleep.
LEMMA Other_Timing ==
    ASSUME WInv, Timing, Sleep, Reset \/ Wake \/ Exit \/ Begin \/ TaskCalls \/ TaskCallReturns \/ End \/ Free
    PROVE  Timing' /\ Sleep'
<1>0. NoTask \notin Tasks
  BY CallFacts, Zenon
<1>1. CASE Reset
  BY <1>1, Zenon DEF Reset, Timing, Sleep, history
<1>2. CASE Wake
  BY <1>2, Zenon DEF Wake, Timing, Sleep, queueVars, history
<1>3. CASE Exit
  BY <1>0, <1>3, Zenon DEF Exit, Timing, Sleep, queueVars, history
<1>4. CASE Begin
  BY <1>4, Zenon DEF Begin, Timing, Sleep, queueVars
<1>5. CASE TaskCalls \/ TaskCallReturns \/ End
  BY <1>5, Zenon DEF TaskCalls, TaskCallReturns, End, Timing, Sleep, queueVars, history
<1>6. CASE Free
  <2>1. /\ UNCHANGED <<m_queue, m_timerQueue, toWait>> /\ item' = NoTask /\ worker' = "pick"
        /\ TargetTime' = [TargetTime EXCEPT ![item] = 0]
    BY <1>6, Zenon DEF Free, history
  <2>2. \A b \in Elements(m_timerQueue) : TargetTime'[b] = TargetTime[b]
    BY <2>1, ElementsOf, CallFacts DEF WInv, TypeOK, Queues
  <2> QED
    BY <1>0, <2>1, <2>2 DEF Timing, Sleep
<1> QED
  BY <1>1, <1>2, <1>3, <1>4, <1>5, <1>6, SMTT(30)

\* A step that leaves the queues, the times and the worker's wait alone keeps what is known of the
\* time.
LEMMA SameTiming ==
    ASSUME Timing, Sleep,
           UNCHANGED <<m_queue, m_timerQueue, TargetTime, m_bFlag, worker, item, nextTimerInMs,
                       drift, toWait>>
    PROVE  Timing' /\ Sleep'
<1>1. Timing'
  BY Zenon DEF Timing
<1>2. Sleep'
  BY Zenon DEF Sleep
<1> QED
  BY <1>1, <1>2, Zenon

\* Every step keeps what is known of the time.
LEMMA Next_Timing ==
    ASSUME WInv, Timing, Sleep, [Next]_vars
    PROVE  Timing' /\ Sleep'
<1>1. CASE \E t \in Users \cup {"worker"}, a \in Tasks, d \in Nat :
              Queue(t, a, d) /\ (a \notin Timed => d = 0)
  BY <1>1, Queue_Timing, Zenon
<1>2. CASE \E t \in Users \cup {"worker"}, a \in used \cap Timed : Cancel_Erase(t, a)
  BY <1>2, CancelErase_Timing, Zenon
<1>3. CASE \E u \in Users, a \in used \cap Timed : Cancel_Wait(u, a)
  <2>1. UNCHANGED <<queueVars, workerVars, history>>
    BY <1>3, Zenon DEF Cancel_Wait
  <2> QED
    BY <2>1, SameTiming, Zenon DEF queueVars, workerVars, history
<1>4. CASE \E u \in Users : Cancel_Acquire(u) \/ Cancel_TimeOut(u) \/ Join_Return(u)
  <2>1. UNCHANGED <<queueVars, worker, item, nextTimerInMs, drift, toWait>>
    BY <1>4, Zenon DEF Cancel_Acquire, Cancel_TimeOut, Join_Return, Return, workerVars, history
  <2> QED
    BY <2>1, SameTiming, Zenon DEF queueVars
<1>5. CASE \E t \in Users \cup {"worker"} : Join_Queue(t)
  <2>1. PICK t \in Users \cup {"worker"} : Join_Queue(t)
    BY <1>5, Zenon
  <2>2. /\ Elements(m_queue') = Elements(m_queue) \cup {Shutdown} /\ m_bFlag' = TRUE
        /\ UNCHANGED <<m_timerQueue, TargetTime, item, toWait>>
    <3>1. /\ Shutdown \notin Elements(m_queue) /\ Enqueue(Shutdown, 0, m_timerQueue)
          /\ UNCHANGED <<item, toWait>>
      BY <2>1, Zenon DEF Join_Queue, workerVars
    <3> QED
      BY <3>1, CallFacts, EnqueueCall, ZenonT(30) DEF WInv, TypeOK, Queues
  <2>3. Shutdown \notin Tasks
    BY CallFacts, Zenon
  <2> QED
    BY <2>2, <2>3, Zenon DEF Timing, Sleep
<1>6. CASE Pick /\ (PickTimed \/ Clamp \/ PickCall \/ PickNothing)
  BY <1>6, Pick_Timing, Zenon DEF Pick
<1>7. CASE Reset \/ Wake \/ Exit \/ Begin \/ TaskCalls \/ TaskCallReturns \/ End \/ Free
  BY <1>7, Other_Timing, Zenon
<1>8. CASE Tick
  BY <1>8, Tick_Timing, Zenon
<1>9. CASE UNCHANGED vars
  BY <1>9, Zenon DEF vars, Timing, Sleep, queueVars, workerVars, userVars, history
<1> QED
  BY <1>1, <1>2, <1>3, <1>4, <1>5, <1>6, <1>7, <1>8, <1>9, Steps, SMTT(30)

\* Nothing is queued at the start.
LEMMA Init_Timing == Init => Timing /\ Sleep
<1>1. Elements(<<>>) = {}
  BY DEF Elements
<1> QED
  BY <1>1, CallFacts DEF Init, Timing, Sleep

\* The worker starts no task before its delay is over, or MAX_FUTURE_DELTA_MS if that is less,
\* although threadFunc moves tasks that are further ahead (WorkerThread.cpp).
THEOREM NeverEarly == Spec => []NotEarly
<1>1. WInv /\ Timing => NotEarly
  BY Zenon DEF WInv, Progress, Timing, NotEarly
<1> QED
  BY <1>1, Init_WInv, Next_WInv, Init_Timing, Next_Timing, PTL DEF Spec

\* The worker does not sleep past the next task's time, nor with a task to run, unless the
\* event is set that wakes it (threadFunc's Reset and wait against Queue's post).
THEOREM SleepAlwaysEndsInTime == Spec => []SleepEndsInTime
<1>1. Sleep => SleepEndsInTime
  BY Zenon DEF Sleep, SleepEndsInTime
<1> QED
  BY <1>1, Init_WInv, Next_WInv, Init_Timing, Next_Timing, PTL DEF Spec

-----------------------------------------------------------------------------
(* Join *)

\* The thread has taken the shutdown item.
Ended == item = Shutdown \/ worker = "exit"

\* Task a comes before the shutdown item in queue s.
Ahead(s, a) == \E i, j \in 1..Len(s) : i < j /\ s[i] = a /\ s[j] = Shutdown

\* Where a task that was due when Join was called can be.
Kept(a) ==
    \/ a \in ran \cup cancelled
    \/ a = item
    \/ a \in Elements(m_timerQueue) /\ TargetTime[a] <= 0
    \/ Ahead(m_queue, a)

\* The due tasks are done when the shutdown item is taken; until then each is ahead of it.
Owing ==
    /\ Ended => owed \subseteq ran \cup cancelled
    /\ ~Ended => \A a \in owed : Kept(a)

\* push_back and pop_front keep the order.
LEMMA AheadAppend ==
    ASSUME NEW S, NEW s \in Seq(S), NEW b \in S, NEW a
    PROVE  /\ Ahead(s, a) => Ahead(Append(s, b), a)
           /\ a \in Elements(s) => Ahead(Append(s, Shutdown), a)
<1>1. ASSUME NEW c PROVE /\ Len(Append(s, c)) = Len(s) + 1 /\ Append(s, c)[Len(s) + 1] = c
                         /\ \A i \in 1..Len(s) : Append(s, c)[i] = s[i]
  <2> DEFINE T == S \cup {c}
  <2>1. S \subseteq T /\ c \in T
    BY Zenon
  <2> HIDE DEF T
  <2>2. s \in Seq(T)
    BY <2>1, SeqMonotonic, Zenon
  <2>3. c \in T
    BY <2>1, Zenon
  <2>4. /\ Append(s, c) \in Seq(T)
        /\ Append(s, c) # <<>>
        /\ Len(Append(s, c)) = Len(s) + 1
        /\ \A i \in 1..Len(s) : Append(s, c)[i] = s[i]
        /\ Append(s, c)[Len(s) + 1] = c
    BY <2>2, <2>3, AppendProperties, Zenon
  <2> QED
    BY <2>4, Zenon
<1>a. Len(s) \in Nat
  BY LenProperties, Zenon
<1>b. \A n \in Nat : n + 1 \in 1..(n + 1) /\ \A k \in 1..n : k \in 1..(n + 1) /\ k < n + 1
  OBVIOUS
<1>2. ASSUME Ahead(s, a) PROVE Ahead(Append(s, b), a)
  <2>1. PICK i \in 1..Len(s), j \in 1..Len(s) : i < j /\ s[i] = a /\ s[j] = Shutdown
    BY <1>2, Zenon DEF Ahead
  <2>2. i \in 1..Len(Append(s, b)) /\ j \in 1..Len(Append(s, b))
    BY <1>1, <1>a, <1>b, Zenon
  <2>3. Append(s, b)[i] = a /\ Append(s, b)[j] = Shutdown
    BY <1>1, <2>1, Zenon
  <2> QED
    BY <2>1, <2>2, <2>3, Zenon DEF Ahead
<1>3. ASSUME a \in Elements(s) PROVE Ahead(Append(s, Shutdown), a)
  <2>1. PICK i \in 1..Len(s) : s[i] = a
    BY <1>3, ElementsOf
  <2>2. i \in 1..Len(Append(s, Shutdown)) /\ Len(s) + 1 \in 1..Len(Append(s, Shutdown)) /\ i < Len(s) + 1
    BY <1>1, <1>a, <1>b, Zenon
  <2>3. Append(s, Shutdown)[i] = a /\ Append(s, Shutdown)[Len(s) + 1] = Shutdown
    BY <1>1, <2>1, Zenon
  <2> QED
    BY <2>2, <2>3, Zenon DEF Ahead
<1> QED
  BY <1>2, <1>3, Zenon

\* The task taken from the queue is the one asked for, or that one is still ahead.
LEMMA AheadTail ==
    ASSUME NEW S, NEW s \in Seq(S), s # <<>>, NoDup(s), NEW a, Ahead(s, a)
    PROVE  /\ Head(s) # a => Ahead(Tail(s), a)
           /\ Head(s) = Shutdown => FALSE
<1>1. PICK i \in 1..Len(s), j \in 1..Len(s) : i < j /\ s[i] = a /\ s[j] = Shutdown
  BY Zenon DEF Ahead
<1>2. Head(s) = s[1] /\ 1 \in 1..Len(s) /\ Len(s) \in Nat
  OBVIOUS
<1>3. Len(Tail(s)) = Len(s) - 1 /\ \A k \in 1..Len(s) - 1 : Tail(s)[k] = s[k + 1]
  OBVIOUS
<1>4. Head(s) # Shutdown
  <2>1. j # 1
    BY <1>1
  <2> QED
    BY <1>1, <1>2, <2>1 DEF NoDup
<1>5. ASSUME Head(s) # a PROVE Ahead(Tail(s), a)
  <2>1. i # 1
    BY <1>1, <1>2, <1>5
  <2>2. i - 1 \in 1..Len(Tail(s)) /\ j - 1 \in 1..Len(Tail(s)) /\ i - 1 < j - 1
    BY <1>1, <1>2, <1>3, <2>1
  <2>3. Tail(s)[i - 1] = a /\ Tail(s)[j - 1] = Shutdown
    <3>1. i - 1 \in 1..Len(s) - 1 /\ j - 1 \in 1..Len(s) - 1 /\ (i - 1) + 1 = i /\ (j - 1) + 1 = j
      BY <1>2, <2>2, <1>3
    <3>2. Tail(s)[i - 1] = s[i] /\ Tail(s)[j - 1] = s[j]
      BY <1>3, <3>1, Zenon
    <3> QED
      BY <1>1, <3>2, Zenon
  <2> QED
    BY <2>2, <2>3, Zenon DEF Ahead
<1> QED
  BY <1>4, <1>5, Zenon

\* Queue.
LEMMA Queue_Owing ==
    ASSUME WInv, Owing, NEW t \in Users \cup {"worker"}, NEW a \in Tasks, NEW d \in Nat, Queue(t, a, d)
    PROVE  Owing'
<1>1. /\ a \notin used /\ Enqueue(a, d, m_timerQueue)
      /\ UNCHANGED <<worker, item, ran, cancelled, owed>>
  BY Zenon DEF Queue, workerVars
<1>2. /\ a \notin Elements(m_timerQueue) /\ a \notin Elements(m_queue) /\ a \notin owed /\ owed \subseteq Tasks
  BY <1>1, CallFacts, Zenon DEF WInv, TypeOK, Queues
<1>3. /\ m_timerQueue \in Seq(Timed) /\ m_queue \in Seq(Tasks \cup {Shutdown})
      /\ TargetTime \in [Tasks -> Int]
      /\ NoDup(m_timerQueue) /\ NoDup(m_queue) /\ Sorted(m_timerQueue, TargetTime)
  BY Zenon DEF WInv, TypeOK, Queues
<1>4. ASSUME NEW b \in owed, Kept(b) PROVE Kept(b)'
  <2>1. CASE a \in Timed
    <3>1. /\ \A c \in Tasks \ {a} : TargetTime'[c] = TargetTime[c]
          /\ Elements(m_timerQueue') = Elements(m_timerQueue) \cup {a}
          /\ m_queue' = m_queue
      BY <1>1, <1>2, <1>3, <2>1, EnqueueTimed, ZenonT(30)
    <3> QED
      BY <1>1, <1>2, <1>4, <3>1, ZenonT(30) DEF Kept
  <2>2. CASE a \notin Timed
    <3>1. m_queue' = Append(m_queue, a) /\ UNCHANGED <<m_timerQueue, TargetTime>>
      BY <1>1, <1>2, <1>3, <2>2, EnqueueCall, ZenonT(30)
    <3>2. Ahead(m_queue, b) => Ahead(m_queue', b)
      BY <1>3, <3>1, AheadAppend
    <3> QED
      BY <1>1, <1>4, <3>1, <3>2, ZenonT(30) DEF Kept
  <2> QED
    BY <2>1, <2>2, Zenon
<1> QED
  BY <1>1, <1>4, Zenon DEF Owing, Ended

\* Cancel.
LEMMA CancelErase_Owing ==
    ASSUME WInv, Owing, NEW t, NEW a \in used \cap Timed, Cancel_Erase(t, a)
    PROVE  Owing'
<1>1. UNCHANGED <<m_queue, worker, item, ran, owed>> /\ cancelled' = cancelled \cup {a}
  BY Zenon DEF Cancel_Erase, workerVars
<1>2. /\ \A b \in Tasks \ {a} : TargetTime'[b] = TargetTime[b]
      /\ Elements(m_timerQueue') = Elements(m_timerQueue) \ {a}
  BY EraseTimed, Zenon DEF WInv, TypeOK, Queues
<1>3. owed \subseteq Tasks
  BY Zenon DEF WInv, TypeOK
<1>4. ASSUME NEW b \in owed, Kept(b) PROVE Kept(b)'
  BY <1>1, <1>2, <1>3, <1>4, ZenonT(30) DEF Kept
<1> QED
  BY <1>1, <1>4, Zenon DEF Owing, Ended

\* Join makes the due tasks owed, and queues the shutdown item behind them.
LEMMA JoinQueue_Owing ==
    ASSUME WInv, NEW t \in Users \cup {"worker"}, Join_Queue(t)
    PROVE  Owing'
<1>1. /\ Shutdown \notin Elements(m_queue) /\ item # Shutdown /\ worker # "exit"
      /\ Enqueue(Shutdown, 0, m_timerQueue) /\ owed' = Due
      /\ UNCHANGED <<worker, item>>
  BY Zenon DEF Join_Queue, workerVars
<1>2. m_queue \in Seq(Tasks \cup {Shutdown}) /\ NoDup(m_queue)
  BY Zenon DEF WInv, TypeOK, Queues
<1>3. m_queue' = Append(m_queue, Shutdown) /\ UNCHANGED <<m_timerQueue, TargetTime>>
  BY <1>1, <1>2, CallFacts, EnqueueCall, ZenonT(30)
<1>4. ASSUME NEW b \in Due PROVE Kept(b)'
  <2>1. CASE b \in Elements(m_queue)
    <3>1. Ahead(m_queue', b)
      BY <1>2, <1>3, <2>1, AheadAppend, ZenonT(30)
    <3> QED
      BY <3>1, Zenon DEF Kept
  <2>2. CASE b \in Elements(m_timerQueue) /\ TargetTime[b] <= 0
    BY <1>3, <2>2, Zenon DEF Kept
  <2> QED
    BY <2>1, <2>2, Zenon DEF Due
<1> QED
  BY <1>1, <1>4, Zenon DEF Owing, Ended

\* The worker takes the shutdown item only when no due task is left in front of it.
LEMMA Pick_Owing ==
    ASSUME WInv, Owing, worker = "pick", PickTimed \/ Clamp \/ PickCall \/ PickNothing
    PROVE  Owing'
<1>0. /\ m_timerQueue \in Seq(Timed) /\ m_queue \in Seq(Tasks \cup {Shutdown})
      /\ TargetTime \in [Tasks -> Int] /\ owed \subseteq Tasks
      /\ NoDup(m_timerQueue) /\ NoDup(m_queue) /\ Sorted(m_timerQueue, TargetTime)
  BY CallFacts, Zenon DEF WInv, TypeOK, Queues
<1>1. /\ item = NoTask /\ NoTask \notin Tasks /\ Shutdown \notin Tasks /\ ~Ended
      /\ \A b \in owed : Kept(b)
  BY CallFacts, Zenon DEF WInv, Progress, Ended, Owing
<1>2. CASE PickTimed
  <2> DEFINE a == Head(m_timerQueue)
  <2>1. /\ m_timerQueue # <<>> /\ m_timerQueue' = Tail(m_timerQueue)
        /\ item' = a /\ worker' = "begin" /\ UNCHANGED <<m_queue, TargetTime, ran, cancelled, owed>>
    BY <1>2, Zenon DEF PickTimed, FrontIsDue, Take, history
  <2> HIDE DEF a
  <2>2. Elements(m_timerQueue') = Elements(m_timerQueue) \ {a}
    BY <1>0, <2>1, TailElements, ZenonT(30) DEF a
  <2>3. a \in Tasks
    BY <1>0, <2>1, CallFacts, SMTT(30) DEF a
  <2>4. ASSUME NEW b \in owed PROVE Kept(b)'
    BY <1>0, <1>1, <2>1, <2>2, ZenonT(30) DEF Kept
  <2> QED
    BY <1>1, <2>1, <2>3, <2>4, ZenonT(30) DEF Owing, Ended
<1>3. CASE Clamp
  <2> DEFINE a == Head(m_timerQueue)
             timers == Tail(m_timerQueue)
  <2>1. /\ m_timerQueue # <<>> /\ TargetTime[a] > MAX_FUTURE_DELTA_MS
        /\ Enqueue(a, MAX_FUTURE_DELTA_MS, timers) /\ UNCHANGED <<worker, item, ran, cancelled, owed>>
    BY <1>3, Zenon DEF Clamp, FrontIsFar, workerVars, history
  <2> HIDE DEF a, timers
  <2>2. /\ a \in Timed /\ a \in Tasks
        /\ timers \in Seq(Timed) /\ Elements(timers) = Elements(m_timerQueue) \ {a}
        /\ NoDup(timers) /\ Sorted(timers, TargetTime)
    BY <1>0, <2>1, TailElements, SortedTail, CallFacts, SMTT(30) DEF a, timers
  <2>3. a \notin Elements(timers) /\ MAX_FUTURE_DELTA_MS \in Nat
    BY <2>2, CallFacts, Zenon
  <2>4. /\ \A b \in Tasks \ {a} : TargetTime'[b] = TargetTime[b]
        /\ Elements(m_timerQueue') = Elements(timers) \cup {a}
        /\ m_queue' = m_queue
    BY <1>0, <2>1, <2>2, <2>3, EnqueueTimed, ZenonT(30)
  <2>5. ~(TargetTime[a] <= 0)
    <3>1. TargetTime[a] \in Int
      BY <1>0, <2>2, Zenon
    <3> QED
      BY <2>1, <2>3, <3>1
  <2>6. ASSUME NEW b \in owed PROVE Kept(b)'
    BY <1>0, <1>1, <2>1, <2>2, <2>4, <2>5, ZenonT(30) DEF Kept
  <2> QED
    BY <1>1, <2>1, <2>6, ZenonT(30) DEF Owing, Ended
<1>4. CASE PickCall
  <2> DEFINE a == Head(m_queue)
  <2>1. /\ m_queue # <<>> /\ m_queue' = Tail(m_queue) /\ ~FrontIsDue
        /\ item' = a /\ worker' = "begin" /\ UNCHANGED <<m_timerQueue, TargetTime, ran, cancelled, owed>>
    BY <1>4, Zenon DEF PickCall, Take, history
  <2>2. ASSUME NEW b \in owed, Ahead(m_queue, b) PROVE a # Shutdown /\ (b # a => Ahead(m_queue', b))
    BY <1>0, <2>1, <2>2, AheadTail, ZenonT(30)
  <2> HIDE DEF a
  <2>3. ASSUME NEW b \in Elements(m_timerQueue), TargetTime[b] <= 0 PROVE FALSE
    <3>1. m_timerQueue # <<>>
      BY <1>0, <2>3, ElementsOf, Zenon
    <3>2. TargetTime[Head(m_timerQueue)] <= TargetTime[b]
      BY <1>0, <3>1, SortedFirst, Zenon
    <3>3. Head(m_timerQueue) \in Tasks /\ b \in Tasks
      BY <1>0, <3>1, ElementsOf, CallFacts, SMTT(30)
    <3>4. TargetTime[Head(m_timerQueue)] \in Int /\ TargetTime[b] \in Int
      BY <1>0, <3>3, Zenon
    <3>5. TargetTime[Head(m_timerQueue)] <= 0
      BY <2>3, <3>2, <3>4, SMTT(30)
    <3> QED
      BY <2>1, <3>1, <3>5, Zenon DEF FrontIsDue
  <2>4. ASSUME NEW b \in owed PROVE b \in ran \cup cancelled \/ Ahead(m_queue, b)
    BY <1>0, <1>1, <2>3, Zenon DEF Kept
  <2>5. CASE a = Shutdown
    BY <2>1, <2>2, <2>4, <2>5, Zenon DEF Owing, Ended
  <2>6. CASE a # Shutdown
    <3>1. ASSUME NEW b \in owed PROVE Kept(b)'
      BY <2>1, <2>2, <2>4, Zenon DEF Kept
    <3> QED
      BY <2>1, <2>6, <3>1, Zenon DEF Owing, Ended
  <2> QED
    BY <2>5, <2>6, Zenon
<1>5. CASE PickNothing
  BY <1>1, <1>5, Zenon DEF PickNothing, Owing, Ended, Kept, queueVars, history
<1> QED
  BY <1>2, <1>3, <1>4, <1>5, ZenonT(30)

\* The other steps of the worker: a task it has is run, or was cancelled, before it is freed.
LEMMA Work_Owing ==
    ASSUME WInv, Owing, Reset \/ Wake \/ Exit \/ Begin \/ TaskCalls \/ TaskCallReturns \/ End \/ Free
    PROVE  Owing'
<1>1. CASE Reset \/ Wake \/ TaskCalls \/ TaskCallReturns \/ End
  BY <1>1, Zenon DEF Reset, Wake, TaskCalls, TaskCallReturns, End, Owing, Ended, Kept, queueVars, history
<1>2. CASE Exit
  BY <1>2, Zenon DEF Exit, Owing, Ended, history
<1>3. CASE Begin
  <2>1. /\ item # Shutdown /\ ~Ended /\ worker' \in {"run", "free"} /\ ran \subseteq ran'
        /\ UNCHANGED <<m_queue, m_timerQueue, TargetTime, item, cancelled, owed>>
    BY <1>3, Zenon DEF Begin, Ended, queueVars
  <2>2. ASSUME NEW b \in owed PROVE Kept(b)'
    BY <2>1, Zenon DEF Owing, Kept
  <2> QED
    BY <2>1, <2>2, Zenon DEF Owing, Ended
<1>4. CASE Free
  <2>1. /\ item \in Tasks /\ item \in ran \cup cancelled /\ Shutdown \notin Tasks /\ NoTask # Shutdown
        /\ item' = NoTask /\ worker = "free" /\ worker' = "pick"
        /\ TargetTime' = [TargetTime EXCEPT ![item] = 0]
        /\ UNCHANGED <<m_queue, m_timerQueue, ran, cancelled, owed>>
    BY <1>4, CallFacts, Zenon DEF Free, WInv, Progress, history
  <2>2. item \notin Elements(m_timerQueue) /\ TargetTime \in [Tasks -> Int] /\ owed \subseteq Tasks
    BY Zenon DEF WInv, TypeOK, Queues
  <2>3. \A b \in owed : b # item => TargetTime'[b] = TargetTime[b]
    BY <2>1, <2>2, Zenon
  <2>4. ~Ended /\ \A b \in owed : Kept(b)
    BY <2>1, Zenon DEF Owing, Ended
  <2>5. ASSUME NEW b \in owed PROVE Kept(b)'
    BY <2>1, <2>2, <2>3, <2>4, ZenonT(30) DEF Kept
  <2> QED
    BY <2>1, <2>5, Zenon DEF Owing, Ended
<1> QED
  BY <1>1, <1>2, <1>3, <1>4, ZenonT(30)

\* Every step keeps the due tasks ahead of the shutdown item.
LEMMA Next_Owing ==
    ASSUME WInv, Owing, [Next]_vars
    PROVE  Owing'
<1>1. CASE \E t \in Users \cup {"worker"}, a \in Tasks, d \in Nat :
              Queue(t, a, d) /\ (a \notin Timed => d = 0)
  BY <1>1, Queue_Owing, Zenon
<1>2. CASE \E t \in Users \cup {"worker"}, a \in used \cap Timed : Cancel_Erase(t, a)
  BY <1>2, CancelErase_Owing, Zenon
<1>3. CASE \E u \in Users, a \in used \cap Timed : Cancel_Wait(u, a)
  BY <1>3, Zenon DEF Cancel_Wait, Owing, Ended, Kept, queueVars, workerVars, history
<1>4. CASE \E u \in Users : Cancel_Acquire(u) \/ Cancel_TimeOut(u) \/ Join_Return(u)
  <2>1. /\ UNCHANGED <<m_queue, m_timerQueue, TargetTime, worker, item, ran, owed>>
        /\ cancelled \subseteq cancelled'
    BY <1>4, Zenon DEF Cancel_Acquire, Cancel_TimeOut, Join_Return, Return, queueVars, workerVars, history
  <2>2. ASSUME NEW b \in owed, Kept(b) PROVE Kept(b)'
    BY <2>1, <2>2, Zenon DEF Kept
  <2> QED
    BY <2>1, <2>2, Zenon DEF Owing, Ended
<1>5. CASE \E t \in Users \cup {"worker"} : Join_Queue(t)
  BY <1>5, JoinQueue_Owing, Zenon
<1>6. CASE Pick /\ (PickTimed \/ Clamp \/ PickCall \/ PickNothing)
  BY <1>6, Pick_Owing, Zenon DEF Pick
<1>7. CASE Reset \/ Wake \/ Exit \/ Begin \/ TaskCalls \/ TaskCallReturns \/ End \/ Free
  BY <1>7, Work_Owing, Zenon
<1>8. CASE Tick
  <2>1. UNCHANGED <<m_queue, m_timerQueue, worker, item, ran, cancelled, owed>>
    BY <1>8, Zenon DEF Tick
  <2>2. \A b \in Elements(m_timerQueue) :
           /\ TargetTime[b] \in Int
           /\ TargetTime'[b] = IF TargetTime[b] >= 0 THEN TargetTime[b] - 1 ELSE TargetTime[b]
    <3>1. Elements(m_timerQueue) \subseteq Tasks /\ TargetTime \in [Tasks -> Int]
      BY ElementsOf, CallFacts, Zenon DEF WInv, TypeOK
    <3> QED
      BY <1>8, <3>1, TickTimes, Zenon
  <2>3. ASSUME NEW b \in owed, Kept(b) PROVE Kept(b)'
    <3>1. Elements(m_timerQueue)' = Elements(m_timerQueue) /\ (Ahead(m_queue, b) => Ahead(m_queue, b)')
      BY <2>1, Zenon
    <3>2. b \in Elements(m_timerQueue) /\ TargetTime[b] <= 0 => TargetTime'[b] <= 0
      BY <2>2, SMTT(30)
    <3> QED
      BY <2>1, <2>3, <3>1, <3>2, ZenonT(30) DEF Kept
  <2> QED
    BY <2>1, <2>3, Zenon DEF Owing, Ended
<1>9. CASE UNCHANGED vars
  BY <1>9, Zenon DEF vars, Owing, Ended, Kept, queueVars, workerVars, userVars, history
<1> QED
  BY <1>1, <1>2, <1>3, <1>4, <1>5, <1>6, <1>7, <1>8, <1>9, Steps, SMTT(30)

\* Join lets every task that was due when it was called run first, unless it is cancelled: the
\* worker takes the shutdown item after them (WorkerThread.cpp, Join and threadFunc).
THEOREM JoinAlwaysRunsDueTasks == Spec => []JoinRunsDueTasks
<1>1. Init => Owing
  BY Zenon DEF Init, Owing
<1>2. Owing => JoinRunsDueTasks
  BY Zenon DEF Owing, Ended, JoinRunsDueTasks
<1> QED
  BY <1>1, <1>2, Init_WInv, Next_WInv, Next_Owing, PTL DEF Spec
=============================================================================
