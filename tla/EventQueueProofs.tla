-------------------------- MODULE EventQueueProofs --------------------------
(***************************************************************************)
(* Theorems about EventQueue, for every number of events, batch size,      *)
(* depth of the queue and number of faults.                                *)
(***************************************************************************)
EXTENDS EventQueue, SequenceTheorems, TLAPS

-----------------------------------------------------------------------------
(* Queues of the events up to n, and what the slices of the code make of them. *)

Sorted(n) == {s \in Seq(1 .. n) : Ordered(s)}
Queues(n) == {s \in Sorted(n) : Len(s) <= MaxQueueDepth}

\* What Elems, Ordered and the slices are, on sequences.
LEMMA ElemsOfSeq ==
  ASSUME NEW S, NEW s \in Seq(S)
  PROVE  /\ DOMAIN s = 1 .. Len(s) /\ Len(s) \in Nat
         /\ \A i \in 1 .. Len(s) : s[i] \in S /\ s[i] \in Elems(s)
         /\ \A x : x \in Elems(s) <=> \E i \in 1 .. Len(s) : s[i] = x
         /\ Elems(s) \subseteq S
<1>1. DOMAIN s = 1 .. Len(s) /\ Len(s) \in Nat /\ s \in [1 .. Len(s) -> S]
  BY LenProperties
<1> QED
  BY <1>1, Zenon DEF Elems

\* The queue of an app that just started.
LEMMA EmptyQueue ==
  ASSUME NEW n \in Nat
  PROVE  <<>> \in Queues(n) /\ Elems(<<>>) = {}
<1>1. <<>> \in Seq(1 .. n) /\ Len(<<>>) = 0 /\ DOMAIN <<>> = {}
  BY EmptySeq
<1> QED
  BY <1>1, QueueAssumption DEF Queues, Sorted, Ordered, Elems

\* More events may only be emitted: a queue stays one.
LEMMA SortedGrow ==
  ASSUME NEW n \in Nat, NEW m \in Nat, n <= m
  PROVE  Sorted(n) \subseteq Sorted(m) /\ Queues(n) \subseteq Queues(m)
<1>1. 1 .. n \subseteq 1 .. m
  OBVIOUS
<1> QED
  BY <1>1 DEF Sorted, Queues

\* Positions in a tail.
LEMMA Shift ==
  ASSUME NEW k \in Nat, NEW a \in Nat, NEW b,
         b = IF k <= a THEN a - k ELSE 0, NEW i \in 1 .. b
  PROVE  /\ i \in 1 .. a - (k + 1) + 1 /\ k + 1 + i - 1 = i + k
         /\ i + k \in 1 .. a /\ i \in Nat
  OBVIOUS

\* q.slice(k).
LEMMA AfterIs ==
  ASSUME NEW n \in Nat, NEW s \in Sorted(n), NEW k \in Nat
  PROVE  /\ After(s, k) \in Sorted(n)
         /\ Len(After(s, k)) = IF k <= Len(s) THEN Len(s) - k ELSE 0
         /\ \A i \in 1 .. Len(After(s, k)) : After(s, k)[i] = s[i + k]
<1>1. s \in Seq(1 .. n) /\ Len(s) \in Nat /\ DOMAIN s = 1 .. Len(s)
      /\ \A i \in 1 .. Len(s) : s[i] \in 1 .. n
  BY ElemsOfSeq DEF Sorted
<1> DEFINE t == After(s, k)
<1>2. /\ t \in Seq(1 .. n)
      /\ Len(t) = IF k + 1 <= Len(s) THEN Len(s) - (k + 1) + 1 ELSE 0
      /\ \A i \in 1 .. Len(s) - (k + 1) + 1 : t[i] = s[k + 1 + i - 1]
  <2>1. k + 1 \in Int /\ \A i \in k + 1 .. Len(s) : s[i] \in 1 .. n
    BY <1>1
  <2> QED
    BY <1>1, <2>1, SubSeqProperties DEF After
<1> HIDE DEF t
<1>3. Len(t) = IF k <= Len(s) THEN Len(s) - k ELSE 0
  <2>1. Len(s) \in Nat /\ Len(t) = IF k + 1 <= Len(s) THEN Len(s) - (k + 1) + 1 ELSE 0
    BY <1>1, <1>2
  <2> QED
    BY <2>1
<1>4. \A i \in 1 .. Len(t) : t[i] = s[i + k]
  <2> SUFFICES ASSUME NEW i \in 1 .. Len(t) PROVE t[i] = s[i + k]
    OBVIOUS
  <2>1. Len(s) \in Nat /\ Len(t) \in Nat
    BY <1>1, <1>2, LenProperties
  <2>2. i \in 1 .. Len(s) - (k + 1) + 1 /\ k + 1 + i - 1 = i + k
    BY <1>3, <2>1, Shift, Zenon
  <2>3. t[i] = s[k + 1 + i - 1]
    BY <1>2, <2>2
  <2> QED
    BY <2>2, <2>3
<1>5. Ordered(t)
  <2>1. DOMAIN t = 1 .. Len(t)
    BY <1>2, LenProperties
  <2>2. ASSUME NEW i \in 1 .. Len(t), NEW j \in 1 .. Len(t), i < j PROVE t[i] < t[j]
    <3>1. Len(s) \in Nat /\ Len(t) \in Nat
      BY <1>1, <1>2, LenProperties
    <3>2. i + k \in 1 .. Len(s) /\ j + k \in 1 .. Len(s) /\ i \in Nat /\ j \in Nat
      BY <1>3, <2>2, <3>1, Shift, Zenon
    <3>4. i + k < j + k
      BY <2>2, <3>2
    <3>3. i + k \in DOMAIN s /\ j + k \in DOMAIN s
      BY <1>1, <3>2
    <3> QED
      BY <1>4, <3>2, <3>3, <3>4 DEF Sorted, Ordered
  <2> QED
    BY <2>1, <2>2 DEF Ordered
<1>7. t \in Sorted(n)
  BY <1>2, <1>5 DEF Sorted
<1> QED
  BY <1>3, <1>4, <1>7 DEF t

\* q.slice(0, k).
LEMMA FrontIs ==
  ASSUME NEW n \in Nat, NEW s \in Sorted(n), NEW k \in Nat
  PROVE  /\ Front(s, k) \in Sorted(n)
         /\ Len(Front(s, k)) = IF k < Len(s) THEN k ELSE Len(s)
         /\ \A i \in 1 .. Len(Front(s, k)) : Front(s, k)[i] = s[i]
<1>1. s \in Seq(1 .. n) /\ Len(s) \in Nat /\ DOMAIN s = 1 .. Len(s)
      /\ \A i \in 1 .. Len(s) : s[i] \in 1 .. n
  BY ElemsOfSeq DEF Sorted
<1> DEFINE m == IF k < Len(s) THEN k ELSE Len(s)
           t == Front(s, k)
<1>2. m \in Nat /\ m <= Len(s)
  BY <1>1
<1>3. /\ t \in Seq(1 .. n) /\ Len(t) = (IF 1 <= m THEN m - 1 + 1 ELSE 0)
      /\ \A i \in 1 .. m - 1 + 1 : t[i] = s[1 + i - 1]
  <2>1. \A i \in 1 .. m : s[i] \in 1 .. n
    BY <1>1, <1>2
  <2>2. t = SubSeq(s, 1, m)
    BY DEF Front
  <2> HIDE DEF m, t
  <2> QED
    BY <1>2, <2>1, <2>2, SubSeqProperties
<1>4. Len(t) = m
  BY <1>2, <1>3
<1>5. \A i \in 1 .. Len(t) : t[i] = s[i]
  BY <1>2, <1>3, <1>4
<1>6. Ordered(t)
  <2>1. DOMAIN t = 1 .. Len(t)
    BY <1>3, LenProperties
  <2>2. 1 .. Len(t) \subseteq DOMAIN s
    BY <1>1, <1>2, <1>4
  <2> HIDE DEF t, m
  <2> QED
    BY <1>5, <2>1, <2>2 DEF Ordered, Sorted
<1> HIDE DEF t
<1>8. t \in Sorted(n)
  BY <1>3, <1>6 DEF Sorted
<1> QED
  BY <1>4, <1>5, <1>8 DEF t

(***************************************************************************)
(* flush() cuts the queue into its batch and the rest: nothing is lost and *)
(* nothing is in both.                                                     *)
(***************************************************************************)
LEMMA Cut ==
  ASSUME NEW n \in Nat, NEW s \in Queues(n), NEW k \in Nat
  PROVE  /\ Front(s, k) \in Queues(n) /\ After(s, k) \in Queues(n)
         /\ Elems(Front(s, k)) \cup Elems(After(s, k)) = Elems(s)
         /\ Elems(Front(s, k)) \cap Elems(After(s, k)) = {}
<1> DEFINE f == Front(s, k)
           t == After(s, k)
<1>1. s \in Sorted(n) /\ s \in Seq(1 .. n) /\ Ordered(s) /\ Len(s) \in Nat /\ Len(s) <= MaxQueueDepth
      /\ DOMAIN s = 1 .. Len(s) /\ MaxQueueDepth \in Nat
  BY ElemsOfSeq, QueueAssumption DEF Queues, Sorted
<1>2. /\ f \in Sorted(n) /\ Len(f) = IF k < Len(s) THEN k ELSE Len(s)
      /\ \A i \in 1 .. Len(f) : f[i] = s[i]
  BY <1>1, FrontIs
<1>3. /\ t \in Sorted(n) /\ Len(t) = IF k <= Len(s) THEN Len(s) - k ELSE 0
      /\ \A i \in 1 .. Len(t) : t[i] = s[i + k]
  BY <1>1, AfterIs
<1> HIDE DEF f, t
<1>0. /\ Len(t) <= MaxQueueDepth /\ Len(f) <= MaxQueueDepth
      /\ \A i \in 1 .. Len(s) : i \notin 1 .. Len(f) => i - k \in 1 .. Len(t) /\ i = (i - k) + k
  <2> DEFINE a == Len(s)
             b == Len(t)
             c == Len(f)
  <2>1. a \in Nat /\ a <= MaxQueueDepth /\ MaxQueueDepth \in Nat
    BY <1>1
  <2>2. c = IF k < a THEN k ELSE a
    BY <1>2
  <2>3. b = IF k <= a THEN a - k ELSE 0
    BY <1>3
  <2> HIDE DEF a, b, c
  <2>4. /\ b <= MaxQueueDepth /\ c <= MaxQueueDepth
        /\ \A i \in 1 .. a : i \notin 1 .. c => i - k \in 1 .. b /\ i = (i - k) + k
    BY <2>1, <2>2, <2>3
  <2> QED
    BY <2>4 DEF a, b, c
<1>4. f \in Queues(n) /\ t \in Queues(n)
  <2>1. Len(f) <= MaxQueueDepth /\ Len(t) <= MaxQueueDepth
    BY <1>0
  <2> QED
    BY <1>2, <1>3, <2>1 DEF Queues
<1>5. /\ f \in Seq(1 .. n) /\ t \in Seq(1 .. n) /\ Len(f) \in Nat /\ Len(t) \in Nat
  BY <1>2, <1>3, ElemsOfSeq DEF Sorted
<1>6. /\ \A x : x \in Elems(s) <=> \E i \in 1 .. Len(s) : s[i] = x
      /\ \A x : x \in Elems(f) <=> \E i \in 1 .. Len(f) : f[i] = x
      /\ \A x : x \in Elems(t) <=> \E i \in 1 .. Len(t) : t[i] = x
  BY <1>1, <1>5, ElemsOfSeq, Zenon
<1>7. \A i \in 1 .. Len(f) : i \in 1 .. Len(s) /\ i <= k
  BY <1>1, <1>2
<1>8. \A i \in 1 .. Len(t) : i + k \in 1 .. Len(s) /\ i + k > k
  <2> SUFFICES ASSUME NEW i \in 1 .. Len(t) PROVE i + k \in 1 .. Len(s) /\ i + k > k
    OBVIOUS
  <2>1. i + k \in 1 .. Len(s) /\ i \in Nat
    BY <1>1, <1>3, Shift, Zenon
  <2> QED
    BY <2>1
<1>9. \A i \in 1 .. Len(s) : i \in 1 .. Len(f) \/ \E j \in 1 .. Len(t) : i = j + k
  <2> SUFFICES ASSUME NEW i \in 1 .. Len(s), i \notin 1 .. Len(f)
               PROVE  \E j \in 1 .. Len(t) : i = j + k
    OBVIOUS
  <2>1. i - k \in 1 .. Len(t) /\ i = (i - k) + k
    BY <1>0
  <2> QED
    BY <2>1, Zenon
<1>10. Elems(f) \cup Elems(t) = Elems(s)
  <2>1. ASSUME NEW x \in Elems(f) PROVE x \in Elems(s)
    BY <1>2, <1>6, <1>7, Zenon
  <2>2. ASSUME NEW x \in Elems(t) PROVE x \in Elems(s)
    BY <1>3, <1>6, <1>8, Zenon
  <2>3. ASSUME NEW x \in Elems(s) PROVE x \in Elems(f) \/ x \in Elems(t)
    <3>1. PICK i \in 1 .. Len(s) : s[i] = x
      BY <1>6
    <3>2. CASE i \in 1 .. Len(f)
      BY <1>2, <1>6, <3>1, <3>2, Zenon
    <3>3. CASE \E j \in 1 .. Len(t) : i = j + k
      <4>1. PICK j \in 1 .. Len(t) : i = j + k
        BY <3>3
      <4>2. t[j] = x
        BY <1>3, <3>1, <4>1, Zenon
      <4> QED
        BY <1>6, <4>2, Zenon
    <3> QED
      BY <1>9, <3>2, <3>3, Zenon
  <2> QED
    BY <2>1, <2>2, <2>3
<1>11. Elems(f) \cap Elems(t) = {}
  <2> SUFFICES ASSUME NEW x \in Elems(f), x \in Elems(t) PROVE FALSE
    OBVIOUS
  <2>1. PICK i \in 1 .. Len(f) : f[i] = x
    BY <1>6
  <2>2. PICK j \in 1 .. Len(t) : t[j] = x
    BY <1>6
  <2>3. s[i] = s[j + k]
    BY <1>2, <1>3, <2>1, <2>2, Zenon
  <2>4. i \in 1 .. Len(s) /\ j + k \in 1 .. Len(s) /\ i < j + k
    BY <1>7, <1>8
  <2>5. s[i] < s[j + k] /\ s[i] \in 1 .. n
    BY <1>1, <2>4, ElemsOfSeq DEF Ordered
  <2> QED
    BY <2>3, <2>5
<1> QED
  BY <1>4, <1>10, <1>11 DEF f, t

\* The depth cap sheds from the front.
LEMMA Capped ==
  ASSUME NEW n \in Nat, NEW s \in Sorted(n)
  PROVE  /\ Newest(s, MaxQueueDepth) \in Queues(n)
         /\ Elems(Newest(s, MaxQueueDepth)) \subseteq Elems(s)
<1>1. s \in Seq(1 .. n) /\ Len(s) \in Nat /\ MaxQueueDepth \in Nat
  BY ElemsOfSeq, QueueAssumption DEF Sorted
<1>2. CASE Len(s) > MaxQueueDepth
  <2> DEFINE k == Len(s) - MaxQueueDepth
             t == After(s, k)
  <2>1. k \in Nat /\ k <= Len(s) /\ Len(s) - k = MaxQueueDepth
    BY <1>1, <1>2
  <2> HIDE DEF k
  <2>2. /\ t \in Sorted(n) /\ Len(t) = MaxQueueDepth
        /\ \A i \in 1 .. Len(t) : t[i] = s[i + k]
    BY <2>1, AfterIs
  <2>3. \A i \in 1 .. Len(t) : i + k \in 1 .. Len(s)
    BY <1>1, <2>1, <2>2
  <2> HIDE DEF t
  <2>4. \A x \in Elems(t) : x \in Elems(s)
    <3>1. \A x \in Elems(t) : \E i \in 1 .. Len(t) : t[i] = x
      BY <2>2, ElemsOfSeq DEF Sorted
    <3>2. \A i \in 1 .. Len(s) : s[i] \in Elems(s)
      BY <1>1, ElemsOfSeq
    <3> QED
      BY <2>2, <2>3, <3>1, <3>2, Zenon
  <2>5. t \in Queues(n)
    BY <1>1, <2>2 DEF Queues
  <2>6. Newest(s, MaxQueueDepth) = t
    BY <1>2 DEF Newest, t, k
  <2> QED
    BY <2>4, <2>5, <2>6
<1>3. CASE ~(Len(s) > MaxQueueDepth)
  BY <1>1, <1>3 DEF Newest, Queues
<1> QED
  BY <1>2, <1>3

\* An event is emitted behind the others.
LEMMA Emitted ==
  ASSUME NEW n \in Nat, NEW s \in Sorted(n)
  PROVE  /\ Append(s, n + 1) \in Sorted(n + 1)
         /\ Elems(Append(s, n + 1)) = Elems(s) \cup {n + 1}
<1> DEFINE t == Append(s, n + 1)
<1>1. /\ s \in Seq(1 .. n) /\ Len(s) \in Nat /\ DOMAIN s = 1 .. Len(s) /\ Ordered(s)
      /\ \A i \in 1 .. Len(s) : s[i] \in 1 .. n
  BY ElemsOfSeq DEF Sorted
<1>2. s \in Seq(1 .. n + 1) /\ n + 1 \in 1 .. n + 1
  <2>1. 1 .. n \subseteq 1 .. n + 1
    OBVIOUS
  <2> QED
    BY <1>1, <2>1
<1>3. /\ t \in Seq(1 .. n + 1) /\ Len(t) = Len(s) + 1 /\ t[Len(s) + 1] = n + 1
      /\ \A i \in 1 .. Len(s) : t[i] = s[i]
  BY <1>2, AppendProperties
<1> HIDE DEF t
<1>4. DOMAIN t = 1 .. Len(s) + 1
  BY <1>3, ElemsOfSeq
<1>5. \A i \in 1 .. Len(s) + 1 : i \in 1 .. Len(s) \/ i = Len(s) + 1
  BY <1>1
<1>6. Ordered(t)
  <2> SUFFICES ASSUME NEW i \in 1 .. Len(s) + 1, NEW j \in 1 .. Len(s) + 1, i < j
               PROVE  t[i] < t[j]
    BY <1>4 DEF Ordered
  <2>1. i \in 1 .. Len(s) /\ t[i] = s[i] /\ s[i] \in 1 .. n
    <3>1. i \in 1 .. Len(s)
      BY <1>1
    <3> QED
      BY <1>1, <1>3, <3>1
  <2>2. CASE j \in 1 .. Len(s)
    BY <1>1, <1>3, <2>1, <2>2 DEF Ordered
  <2>3. CASE j = Len(s) + 1
    BY <1>3, <2>1, <2>3
  <2> QED
    BY <1>5, <2>2, <2>3
<1>7. Elems(t) = Elems(s) \cup {n + 1}
  <2>1. /\ \A x : x \in Elems(s) <=> \E i \in 1 .. Len(s) : s[i] = x
        /\ \A x : x \in Elems(t) <=> \E i \in 1 .. Len(s) + 1 : t[i] = x
    BY <1>1, <1>3, ElemsOfSeq
  <2>2. 1 .. Len(s) \subseteq 1 .. Len(s) + 1 /\ Len(s) + 1 \in 1 .. Len(s) + 1
    BY <1>1
  <2> QED
    BY <1>3, <1>5, <2>1, <2>2, Zenon
<1>8. t \in Sorted(n + 1)
  BY <1>3, <1>6 DEF Sorted
<1> QED
  BY <1>7, <1>8 DEF t

-----------------------------------------------------------------------------
(* The calls AsyncStorage has to run. *)

Calls(n) == {Get} \cup {Set(q, a) : q \in Queues(n), a \in BOOLEAN}

IsAwaited(c) == c.op = "set" /\ c.awaited
NoneAwaited(s) == \A i \in DOMAIN s : ~IsAwaited(s[i])
OneAwaited(s) == \A i, j \in DOMAIN s : IsAwaited(s[i]) /\ IsAwaited(s[j]) => i = j

\* A call is a getItem or a setItem of a queue.
LEMMA CallKinds ==
  ASSUME NEW n, NEW c \in Calls(n)
  PROVE  /\ c.op \in {"get", "set"}
         /\ c.op = "get" => c = Get
         /\ c.op = "set" => c.queue \in Queues(n) /\ c.awaited \in BOOLEAN
BY DEF Calls, Get, Set

\* Calls stay calls as more events are emitted.
LEMMA CallsGrow ==
  ASSUME NEW n \in Nat, NEW m \in Nat, n <= m
  PROVE  Seq(Calls(n)) \subseteq Seq(Calls(m))
<1>1. Calls(n) \subseteq Calls(m)
  BY SortedGrow DEF Calls
<1> QED
  BY <1>1

\* A setItem is called.
LEMMA Called ==
  ASSUME NEW n \in Nat, NEW s \in Seq(Calls(n)), NEW q \in Queues(n), NEW a \in BOOLEAN
  PROVE  /\ Append(s, Set(q, a)) \in Seq(Calls(n))
         /\ NoneAwaited(s) => OneAwaited(Append(s, Set(q, a)))
         /\ a = FALSE /\ NoneAwaited(s) => NoneAwaited(Append(s, Set(q, a)))
         /\ a = FALSE /\ OneAwaited(s) => OneAwaited(Append(s, Set(q, a)))
         /\ \A i \in DOMAIN Append(s, Set(q, a)) :
              Append(s, Set(q, a))[i].op = "get" => i \in DOMAIN s /\ s[i].op = "get"
<1> DEFINE x == Set(q, a)
           t == Append(s, x)
<1>1. x \in Calls(n) /\ x.op = "set" /\ x.awaited = a
  BY DEF Calls, Set
<1> HIDE DEF x
<1>2. /\ t \in Seq(Calls(n)) /\ DOMAIN t = 1 .. Len(s) + 1 /\ DOMAIN s = 1 .. Len(s) /\ Len(s) \in Nat
      /\ t[Len(s) + 1] = x
      /\ \A i \in DOMAIN s : t[i] = s[i]
  BY <1>1, AppendProperties, LenProperties
<1> HIDE DEF t
<1>3. \A i \in DOMAIN t : i \in DOMAIN s \/ i = Len(s) + 1
  BY <1>2
<1>4. NoneAwaited(s) => OneAwaited(t)
  BY <1>2, <1>3, Zenon DEF NoneAwaited, OneAwaited
<1>5. a = FALSE => ~IsAwaited(x)
  BY <1>1 DEF IsAwaited
<1>6. a = FALSE /\ NoneAwaited(s) => NoneAwaited(t)
  BY <1>2, <1>3, <1>5, Zenon DEF NoneAwaited
<1>7. a = FALSE /\ OneAwaited(s) => OneAwaited(t)
  <2> SUFFICES ASSUME a = FALSE, OneAwaited(s),
                      NEW i \in DOMAIN t, NEW j \in DOMAIN t, IsAwaited(t[i]), IsAwaited(t[j])
               PROVE  i = j
    BY DEF OneAwaited
  <2>1. i \in DOMAIN s /\ j \in DOMAIN s
    BY <1>2, <1>3, <1>5, Zenon
  <2> QED
    BY <1>2, <2>1, Zenon DEF OneAwaited
<1>8. \A i \in DOMAIN t : t[i].op = "get" => i \in DOMAIN s /\ s[i].op = "get"
  BY <1>1, <1>2, <1>3
<1> QED
  BY <1>2, <1>4, <1>6, <1>7, <1>8 DEF t, x

\* A setItem is no getItem.
LEMMA CallQuiet ==
  ASSUME NEW n \in Nat, NEW s \in Seq(Calls(n)), NEW q \in Queues(n), NEW a \in BOOLEAN,
         NEW t, t = Append(s, Set(q, a))
  PROVE  \A i \in DOMAIN t : t[i].op = "get" => i \in DOMAIN s /\ s[i].op = "get"
BY Called, Zenon

\* A call is run.
LEMMA Ran ==
  ASSUME NEW n \in Nat, NEW s \in Seq(Calls(n)), s # <<>>
  PROVE  /\ Tail(s) \in Seq(Calls(n)) /\ Head(s) \in Calls(n)
         /\ 1 \in DOMAIN s /\ s[1] = Head(s)
         /\ NoneAwaited(s) => NoneAwaited(Tail(s))
         /\ OneAwaited(s) => OneAwaited(Tail(s))
         /\ OneAwaited(s) /\ IsAwaited(Head(s)) => NoneAwaited(Tail(s))
         /\ \A i \in DOMAIN Tail(s) : i + 1 \in DOMAIN s /\ Tail(s)[i] = s[i + 1]
<1>1. /\ Head(s) = s[1] /\ Tail(s) \in Seq(Calls(n)) /\ Len(s) \in Nat /\ Len(s) # 0
      /\ Len(Tail(s)) = Len(s) - 1 /\ \A i \in 1 .. Len(s) - 1 : Tail(s)[i] = s[i + 1]
      /\ DOMAIN s = 1 .. Len(s) /\ DOMAIN Tail(s) = 1 .. Len(s) - 1
  BY EmptySeq, HeadTailProperties, LenProperties
<1> DEFINE a == Len(s)
<1>2. 1 \in 1 .. a /\ \A i \in 1 .. a - 1 : i \in Nat /\ i + 1 \in 1 .. a /\ i + 1 # 1
  <2>1. a \in Nat /\ a # 0
    BY <1>1
  <2> HIDE DEF a
  <2> QED
    BY <2>1
<1>3. 1 \in DOMAIN s /\ s[1] \in Calls(n)
  BY <1>1, <1>2, ElemsOfSeq
<1>4. \A i \in DOMAIN Tail(s) : i \in Nat /\ i + 1 \in DOMAIN s /\ i + 1 # 1 /\ Tail(s)[i] = s[i + 1]
  BY <1>1, <1>2, Zenon
<1>5. NoneAwaited(s) => NoneAwaited(Tail(s))
  BY <1>4, Zenon DEF NoneAwaited
<1>6. OneAwaited(s) => OneAwaited(Tail(s))
  <2> SUFFICES ASSUME OneAwaited(s), NEW i \in DOMAIN Tail(s), NEW j \in DOMAIN Tail(s),
                      IsAwaited(Tail(s)[i]), IsAwaited(Tail(s)[j])
               PROVE  i = j
    BY DEF OneAwaited
  <2>1. i + 1 = j + 1 /\ i \in Nat /\ j \in Nat
    BY <1>4, Zenon DEF OneAwaited
  <2> QED
    BY <2>1
<1>7. OneAwaited(s) /\ IsAwaited(Head(s)) => NoneAwaited(Tail(s))
  BY <1>1, <1>3, <1>4, Zenon DEF OneAwaited, NoneAwaited
<1> QED
  BY <1>1, <1>3, <1>4, <1>5, <1>6, <1>7

-----------------------------------------------------------------------------
(***************************************************************************)
(* Types.  The strengthening: every queue holds events emitted so far, and *)
(* AsyncStorage has a setItem that flush() awaits only while it does.      *)
(***************************************************************************)
TypeInv ==
  /\ emitted \in 0 .. LastEvent /\ restarts \in 0 .. MaxRestarts /\ faults \in 0 .. MaxFaults
  /\ started \in BOOLEAN /\ token \in BOOLEAN
  /\ queue \in Queues(emitted) /\ batch \in Queues(emitted) /\ rest \in Queues(emitted)
  /\ disk \in {Null} \cup Queues(emitted)
  /\ calls \in Seq(Calls(emitted))
  /\ flush \in {"idle", "posting", "persisting"}
  /\ net \in {"none", "sent", "ok", "413", "error"}
  /\ (net # "none") = (flush = "posting")
  /\ stored \in [Events -> Nat]
  /\ early \subseteq 1 .. emitted /\ during \subseteq 1 .. emitted
  /\ dropped \subseteq 1 .. emitted /\ saved \subseteq 1 .. emitted
  /\ OneAwaited(calls)
  /\ flush # "persisting" => NoneAwaited(calls)

\* What a step makes of flush() when it may call it.
MayBegin(q) == (flush = "idle" /\ BeginFlush(q)) \/ UNCHANGED flushVars

\* flush() begins or returns at once.
LEMMA FlushIfBegins ==
  ASSUME NEW w, NEW q, NEW t, FlushIf(w, q, t)
  PROVE  MayBegin(q)
BY DEF FlushIf, MayFlush, MayBegin

\* A batch and a rest are queues, and hold what the queue held.
LEMMA Begins ==
  ASSUME NEW n \in Nat, NEW q \in Queues(n), batch \in Queues(n), rest \in Queues(n),
         flush \in {"idle", "posting", "persisting"},
         net \in {"none", "sent", "ok", "413", "error"},
         (net # "none") = (flush = "posting"),
         MayBegin(q)
  PROVE  /\ batch' \in Queues(n) /\ rest' \in Queues(n)
         /\ flush' \in {"idle", "posting", "persisting"}
         /\ net' \in {"none", "sent", "ok", "413", "error"}
         /\ (net' # "none") = (flush' = "posting")
         /\ flush' = "persisting" <=> flush = "persisting"
         /\ \/ /\ net = "none" /\ net' = "sent"
               /\ Elems(batch') \cup Elems(rest') = Elems(q)
               /\ Elems(batch') \cap Elems(rest') = {}
            \/ net' = net /\ batch' = batch /\ rest' = rest
<1>1. CASE flush = "idle" /\ BeginFlush(q)
  <2>1. /\ Front(q, BatchSize) \in Queues(n) /\ After(q, BatchSize) \in Queues(n)
        /\ Elems(Front(q, BatchSize)) \cup Elems(After(q, BatchSize)) = Elems(q)
        /\ Elems(Front(q, BatchSize)) \cap Elems(After(q, BatchSize)) = {}
    BY Cut, QueueAssumption
  <2> QED
    BY <1>1, <2>1 DEF BeginFlush
<1>2. CASE UNCHANGED flushVars
  BY <1>2 DEF flushVars
<1> QED
  BY <1>1, <1>2 DEF MayBegin

\* An event counted by Inserted is an event.
LEMMA Counted ==
  ASSUME stored \in [Events -> Nat], NEW S, Inserted(S)
  PROVE  /\ stored' \in [Events -> Nat]
         /\ \A e \in Events : stored'[e] = IF e \in S THEN stored[e] + 1 ELSE stored[e]
         /\ \A e \in Events : stored[e] > 0 => stored'[e] > 0
BY DEF Inserted

\* Nothing is queued, stored or called at first.
LEMMA InitTypes == Init => TypeInv
<1> SUFFICES ASSUME Init PROVE TypeInv
  OBVIOUS
<1>1. <<>> \in Queues(0) /\ <<>> \in Seq(Calls(0))
  BY EmptyQueue, EmptySeq
<1>2. OneAwaited(<<>>) /\ NoneAwaited(<<>>)
  BY EmptySeq DEF OneAwaited, NoneAwaited
<1>3. /\ emitted = 0 /\ emitted \in 0 .. LastEvent /\ restarts \in 0 .. MaxRestarts
      /\ faults \in 0 .. MaxFaults /\ stored \in [Events -> Nat]
  BY QueueAssumption DEF Init
<1>4. /\ queue \in Queues(emitted) /\ batch \in Queues(emitted) /\ rest \in Queues(emitted)
      /\ calls \in Seq(Calls(emitted)) /\ OneAwaited(calls) /\ NoneAwaited(calls)
  BY <1>1, <1>2, <1>3, Zenon DEF Init
<1>5. /\ disk \in {Null} \cup Queues(emitted) /\ started \in BOOLEAN /\ token \in BOOLEAN
      /\ flush = "idle" /\ net = "none"
      /\ early = {} /\ during = {} /\ dropped = {} /\ saved = {}
  BY DEF Init
<1> QED
  BY <1>3, <1>4, <1>5 DEF TypeInv

\* Every step keeps the types.
LEMMA NextTypes == TypeInv /\ [Next]_vars => TypeInv'
<1> SUFFICES ASSUME TypeInv, [Next]_vars PROVE TypeInv'
  OBVIOUS
<1>0. emitted \in Nat /\ LastEvent \in Nat /\ queue \in Seq(1 .. emitted)
  BY QueueAssumption DEF TypeInv, Queues, Sorted
<1>a. /\ restarts \in 0 .. MaxRestarts /\ MaxRestarts \in Nat /\ \A r \in 0 .. MaxRestarts : r < MaxRestarts => r + 1 \in 0 .. MaxRestarts
      /\ faults \in 0 .. MaxFaults /\ MaxFaults \in Nat /\ \A r \in 0 .. MaxFaults : r < MaxFaults => r + 1 \in 0 .. MaxFaults
  BY QueueAssumption DEF TypeInv
<1>1. CASE Start
  <2>1. Append(calls, Get) \in Seq(Calls(emitted))
    BY AppendProperties DEF TypeInv, Calls
  <2>2. ~IsAwaited(Get)
    BY DEF IsAwaited, Get
  <2>3. /\ OneAwaited(Append(calls, Get))
        /\ NoneAwaited(calls) => NoneAwaited(Append(calls, Get))
    <3> DEFINE t == Append(calls, Get)
    <3>1. /\ DOMAIN t = 1 .. Len(calls) + 1 /\ DOMAIN calls = 1 .. Len(calls) /\ Len(calls) \in Nat
          /\ t[Len(calls) + 1] = Get /\ \A i \in DOMAIN calls : t[i] = calls[i]
      BY AppendProperties, LenProperties DEF TypeInv, Calls
    <3> HIDE DEF t
    <3>2. \A i \in DOMAIN t : IsAwaited(t[i]) => i \in DOMAIN calls /\ IsAwaited(calls[i])
      <4>1. \A i \in DOMAIN t : i \in DOMAIN calls \/ i = Len(calls) + 1
        BY <3>1
      <4> QED
        BY <2>2, <3>1, <4>1, Zenon
    <3>3. OneAwaited(calls)
      BY DEF TypeInv
    <3>4. OneAwaited(t)
      BY <3>2, <3>3, Zenon DEF OneAwaited
    <3>5. NoneAwaited(calls) => NoneAwaited(t)
      BY <3>2, Zenon DEF NoneAwaited
    <3> QED
      BY <3>4, <3>5 DEF t
  <2> QED
    BY <1>1, <2>1, <2>3 DEF TypeInv, Start, flushVars, ghosts
<1>2. CASE Restore
  <2>1. /\ calls' \in Seq(Calls(emitted)) /\ OneAwaited(calls')
        /\ NoneAwaited(calls) => NoneAwaited(calls')
    BY <1>2, Ran, <1>0 DEF Restore, TypeInv
  <2>2. queue' \in Queues(emitted)
    <3>1. CASE queue' = Newest(disk, MaxQueueDepth) /\ disk # Null
      BY <3>1, Capped, <1>0 DEF TypeInv, Queues
    <3>2. CASE queue' = queue
      BY <3>2 DEF TypeInv
    <3> QED
      BY <1>2, <3>1, <3>2 DEF Restore
  <2>3. MayBegin(queue')
    BY <1>2, FlushIfBegins DEF Restore
  <2>4. faults' \in 0 .. MaxFaults
    BY <1>2, <1>a, Zenon DEF Restore, Fault
  <2>5. /\ batch' \in Queues(emitted) /\ rest' \in Queues(emitted)
        /\ flush' \in {"idle", "posting", "persisting"}
        /\ net' \in {"none", "sent", "ok", "413", "error"}
        /\ (net' # "none") = (flush' = "posting")
        /\ flush' = "persisting" <=> flush = "persisting"
    BY <1>0, <2>2, <2>3, Begins DEF TypeInv
  <2>6. UNCHANGED <<started, token, disk, saved, stored, emitted, restarts, early, during, dropped>>
    BY <1>2 DEF Restore
  <2>7. flush' # "persisting" => NoneAwaited(calls')
    BY <2>1, <2>5 DEF TypeInv
  <2>8. /\ emitted' \in 0 .. LastEvent /\ restarts' \in 0 .. MaxRestarts
        /\ started' \in BOOLEAN /\ token' \in BOOLEAN /\ stored' \in [Events -> Nat]
        /\ disk' \in {Null} \cup Queues(emitted') /\ emitted' = emitted
        /\ early' \subseteq 1 .. emitted' /\ during' \subseteq 1 .. emitted'
        /\ dropped' \subseteq 1 .. emitted' /\ saved' \subseteq 1 .. emitted'
    BY <2>6 DEF TypeInv
  <2> QED
    <3>1. calls' \in Seq(Calls(emitted')) /\ OneAwaited(calls')
      BY <2>1, <2>8
    <3>2. queue' \in Queues(emitted') /\ batch' \in Queues(emitted') /\ rest' \in Queues(emitted')
      BY <2>2, <2>5, <2>8
    <3> QED
      BY <2>4, <2>5, <2>7, <2>8, <3>1, <3>2, Zenon DEF TypeInv
<1>3. CASE Stop
  <2>1. restarts' \in 0 .. MaxRestarts /\ started' \in BOOLEAN
    BY <1>3, <1>a, Zenon DEF Stop
  <2>2. UNCHANGED <<queue, token, flush, batch, rest, net, disk, calls, saved, stored,
                    emitted, faults, early, during, dropped>>
    BY <1>3 DEF Stop, flushVars, diskVars
  <2> QED
    BY <2>1, <2>2 DEF TypeInv
<1>4. CASE Emit
  <2> DEFINE n == emitted'
  <2>1. n = emitted + 1 /\ n \in Nat /\ n \in 0 .. LastEvent /\ emitted <= n /\ 1 .. emitted \subseteq 1 .. n /\ n \in 1 .. n
    BY <1>0, <1>4 DEF Emit, TypeInv
  <2>2. /\ batch \in Queues(n) /\ rest \in Queues(n) /\ disk \in {Null} \cup Queues(n)
        /\ calls \in Seq(Calls(n)) /\ Queues(emitted) \subseteq Queues(n)
    BY <1>0, <2>1, SortedGrow, CallsGrow DEF TypeInv
  <2>3. Append(queue, n) \in Sorted(n)
    BY <1>0, <2>1, Emitted DEF TypeInv, Queues
  <2>4. queue' = Newest(Append(queue, n), MaxQueueDepth)
    BY <1>4 DEF Emit
  <2> HIDE DEF n
  <2>5. queue' \in Queues(n)
    BY <2>1, <2>3, <2>4, Capped
  <2>6. MayBegin(queue')
    BY <1>4, FlushIfBegins DEF Emit
  <2>7. /\ batch' \in Queues(n) /\ rest' \in Queues(n)
        /\ flush' \in {"idle", "posting", "persisting"}
        /\ net' \in {"none", "sent", "ok", "413", "error"}
        /\ (net' # "none") = (flush' = "posting")
        /\ flush' = "persisting" <=> flush = "persisting"
    BY <2>1, <2>2, <2>5, <2>6, Begins DEF TypeInv
  <2>8. calls' = Append(calls, Set(queue', FALSE)) /\ UNCHANGED <<disk, saved>>
    BY <1>4 DEF Emit, Persist
  <2>9. /\ calls' \in Seq(Calls(n)) /\ OneAwaited(calls')
        /\ NoneAwaited(calls) => NoneAwaited(calls')
    BY <2>1, <2>2, <2>5, <2>8, Called DEF TypeInv
  <2>10. Elems(queue) \subseteq 1 .. emitted
    BY <1>0, ElemsOfSeq
  <2>11. /\ early' \subseteq 1 .. n /\ during' \subseteq 1 .. n /\ dropped' \subseteq 1 .. n
         /\ UNCHANGED <<started, token, stored, restarts, faults>>
    BY <1>4, <2>1, <2>10 DEF Emit, TypeInv, n
  <2> QED
    BY <2>1, <2>2, <2>5, <2>7, <2>8, <2>9, <2>11 DEF TypeInv, n
<1>5. CASE Flush
  <2>1. MayBegin(queue)
    BY <1>5 DEF Flush, MayFlush, MayBegin
  <2>2. /\ batch' \in Queues(emitted) /\ rest' \in Queues(emitted)
        /\ flush' \in {"idle", "posting", "persisting"}
        /\ net' \in {"none", "sent", "ok", "413", "error"}
        /\ (net' # "none") = (flush' = "posting")
        /\ flush' = "persisting" <=> flush = "persisting"
    BY <1>0, <2>1, Begins DEF TypeInv
  <2> QED
    BY <1>5, <2>2 DEF TypeInv, Flush, sdkVars, diskVars, ghosts
<1>6. ASSUME NEW tok \in BOOLEAN, SetAuthToken(tok) PROVE TypeInv'
  <2>1. MayBegin(queue)
    BY <1>6, FlushIfBegins DEF SetAuthToken
  <2>2. /\ batch' \in Queues(emitted) /\ rest' \in Queues(emitted)
        /\ flush' \in {"idle", "posting", "persisting"}
        /\ net' \in {"none", "sent", "ok", "413", "error"}
        /\ (net' # "none") = (flush' = "posting")
        /\ flush' = "persisting" <=> flush = "persisting"
    BY <1>0, <2>1, Begins DEF TypeInv
  <2> QED
    BY <1>6, <2>2 DEF TypeInv, SetAuthToken, diskVars, ghosts
<1>7. CASE Ingest
  <2>1. stored' \in [Events -> Nat]
    BY <1>7, Counted DEF Ingest, TypeInv
  <2>2. faults' \in 0 .. MaxFaults /\ net' \in {"ok", "413", "error"} /\ flush = "posting"
    BY <1>7, <1>a DEF Ingest, Fault, TypeInv
  <2> QED
    BY <1>7, <2>1, <2>2 DEF TypeInv, Ingest, sdkVars, diskVars
<1>8. CASE FlushDelivered
  <2>1. calls' = Append(calls, Set(rest, TRUE)) /\ NoneAwaited(calls)
    BY <1>8 DEF FlushDelivered, Persist, TypeInv
  <2>2. calls' \in Seq(Calls(emitted)) /\ OneAwaited(calls')
    BY <1>0, <2>1, Called DEF TypeInv
  <2> QED
    BY <1>8, <2>2 DEF TypeInv, FlushDelivered, Persist, ghosts
<1>9. CASE FlushTooLarge
  <2> DEFINE half == IF Len(batch) < 2 THEN 1 ELSE Len(batch) \div 2
  <2>1. half \in Nat
    <3>1. Len(batch) \in Nat
      BY ElemsOfSeq DEF TypeInv, Queues, Sorted
    <3>2. \A m \in Nat : m \div 2 \in Nat
      OBVIOUS
    <3> QED
      BY <3>1, <3>2
  <2>2. queue' = After(queue, half)
    BY <1>9 DEF FlushTooLarge
  <2> HIDE DEF half
  <2>3. queue' \in Queues(emitted) /\ Elems(queue) \subseteq 1 .. emitted
    BY <1>0, <2>1, <2>2, Cut, ElemsOfSeq DEF TypeInv
  <2>4. calls' = Append(calls, Set(queue', TRUE)) /\ NoneAwaited(calls)
    BY <1>9 DEF FlushTooLarge, Persist, TypeInv
  <2>5. calls' \in Seq(Calls(emitted)) /\ OneAwaited(calls')
    BY <1>0, <2>3, <2>4, Called DEF TypeInv
  <2>6. dropped' \subseteq 1 .. emitted
    BY <1>9, <2>3 DEF FlushTooLarge, TypeInv
  <2> QED
    BY <1>9, <2>3, <2>5, <2>6 DEF TypeInv, FlushTooLarge, Persist
<1>10. CASE FlushKeeps
  BY <1>10 DEF TypeInv, FlushKeeps, sdkVars, diskVars, ghosts
<1>11. CASE Write
  <2>1. /\ calls' \in Seq(Calls(emitted)) /\ Head(calls) \in Calls(emitted)
        /\ OneAwaited(calls')
        /\ NoneAwaited(calls) => NoneAwaited(calls')
        /\ IsAwaited(Head(calls)) => NoneAwaited(calls')
        /\ NoneAwaited(calls) => ~IsAwaited(Head(calls))
    <3>1. /\ Tail(calls) \in Seq(Calls(emitted)) /\ Head(calls) \in Calls(emitted)
          /\ 1 \in DOMAIN calls /\ calls[1] = Head(calls)
          /\ NoneAwaited(calls) => NoneAwaited(Tail(calls))
          /\ OneAwaited(calls) => OneAwaited(Tail(calls))
          /\ OneAwaited(calls) /\ IsAwaited(Head(calls)) => NoneAwaited(Tail(calls))
      BY <1>0, <1>11, Ran DEF Write, TypeInv
    <3>2. NoneAwaited(calls) => ~IsAwaited(Head(calls))
      BY <3>1 DEF NoneAwaited
    <3> QED
      BY <1>11, <3>1, <3>2 DEF Write, TypeInv
  <2>2. Head(calls).op = "set" /\ Head(calls).queue \in Queues(emitted) /\ Head(calls).awaited \in BOOLEAN
    BY <1>11, <2>1, CallKinds DEF Write
  <2>3. Elems(Head(calls).queue) \subseteq 1 .. emitted
    BY <2>2, ElemsOfSeq DEF Queues, Sorted
  <2>4. disk' \in {Null} \cup Queues(emitted) /\ saved' \subseteq 1 .. emitted /\ faults' \in 0 .. MaxFaults
    <3>1. CASE disk' = Head(calls).queue /\ saved' = saved \cup Elems(disk') /\ UNCHANGED faults
      BY <2>2, <2>3, <3>1 DEF TypeInv
    <3>2. CASE Fault /\ UNCHANGED <<disk, saved>>
      BY <3>2, <1>a DEF Fault, TypeInv
    <3> QED
      BY <1>11, <3>1, <3>2 DEF Write
  <2>5. CASE IsAwaited(Head(calls))
    <3>1. flush = "persisting" /\ flush' = "idle" /\ NoneAwaited(calls')
      BY <1>11, <2>1, <2>5 DEF TypeInv, Write, IsAwaited
    <3> QED
      BY <1>11, <2>1, <2>4, <3>1 DEF TypeInv, Write, sdkVars
  <2>6. CASE ~IsAwaited(Head(calls))
    <3>1. flush' = flush
      BY <1>11, <2>2, <2>6 DEF Write, IsAwaited
    <3> QED
      BY <1>11, <2>1, <2>4, <3>1 DEF TypeInv, Write, sdkVars
  <2> QED
    BY <2>5, <2>6
<1>12. CASE Kill
  <2>1. <<>> \in Queues(emitted) /\ <<>> \in Seq(Calls(emitted)) /\ OneAwaited(<<>>) /\ NoneAwaited(<<>>)
    BY <1>0, EmptyQueue, EmptySeq DEF OneAwaited, NoneAwaited
  <2>2. stored' \in [Events -> Nat]
    BY <1>12, Counted DEF Kill, TypeInv
  <2>3. restarts' \in 0 .. MaxRestarts
    BY <1>12, <1>a, Zenon DEF Kill
  <2> QED
    BY <1>12, <2>1, <2>2, <2>3 DEF TypeInv, Kill
<1>13. CASE UNCHANGED vars
  BY <1>13 DEF TypeInv, vars, sdkVars, flushVars, diskVars, ghosts
<1> QED
  BY <1>1, <1>2, <1>3, <1>4, <1>5, <1>6, <1>7, <1>8, <1>9, <1>10, <1>11, <1>12, <1>13 DEF Next

\* They hold always.
LEMMA TypesAlways == Spec => []TypeInv
<1> QED
  BY InitTypes, NextTypes, PTL DEF Spec

\* A queue of emitted events is one that TypeOK allows.
LEMMA QueuesWellFormed ==
  ASSUME TypeInv, NEW s \in Queues(emitted)
  PROVE  WellFormed(s)
<1>1. s \in Seq(1 .. emitted) /\ Ordered(s) /\ Len(s) <= MaxQueueDepth
  BY DEF Queues, Sorted
<1>2. Elems(s) \subseteq 1 .. emitted
  BY <1>1, ElemsOfSeq
<1>3. 1 .. emitted \subseteq Events
  BY QueueAssumption DEF TypeInv, Events
<1> QED
  BY <1>1, <1>2, <1>3 DEF WellFormed

(***************************************************************************)
(* In memory, on disk and in every snapshot taken across an await a queue  *)
(* never outgrows MAX_QUEUE_DEPTH, repeats no event and keeps the order of *)
(* emission, however the steps of start(), emit(), flush() and             *)
(* AsyncStorage interleave.                                                *)
(***************************************************************************)
THEOREM QueuesStayWellFormed == Spec => []TypeOK
<1>1. TypeInv => TypeOK
  <2> SUFFICES ASSUME TypeInv PROVE TypeOK
    OBVIOUS
  <2>1. WellFormed(queue) /\ WellFormed(batch) /\ WellFormed(rest)
    BY QueuesWellFormed DEF TypeInv
  <2>2. disk # Null => WellFormed(disk)
    BY QueuesWellFormed DEF TypeInv
  <2>3. \A i \in DOMAIN calls : calls[i].op = "set" => WellFormed(calls[i].queue)
    <3> SUFFICES ASSUME NEW i \in DOMAIN calls, calls[i].op = "set" PROVE WellFormed(calls[i].queue)
      OBVIOUS
    <3>1. calls[i] \in Calls(emitted)
      BY ElemsOfSeq DEF TypeInv
    <3> QED
      BY <3>1, CallKinds, QueuesWellFormed
  <2>4. 1 .. emitted \subseteq Events
    BY QueueAssumption DEF TypeInv, Events
  <2> QED
    BY <2>1, <2>2, <2>3, <2>4 DEF TypeOK, TypeInv
<1> QED
  BY <1>1, TypesAlways, PTL

-----------------------------------------------------------------------------
(* What the steps make of the queue and of the restore. *)

\* The elements of a queue were emitted.
LEMMA Within ==
  ASSUME NEW n, NEW s \in Queues(n)
  PROVE  Elems(s) \subseteq 1 .. n
BY ElemsOfSeq DEF Queues, Sorted

\* Only start() puts a getItem among the calls.
LEMMA RestoringEnds ==
  ASSUME TypeInv, TypeInv', Next, Restoring'
  PROVE  Restoring \/ Start
<1>0. emitted \in Nat /\ emitted' \in Nat /\ calls \in Seq(Calls(emitted))
  BY QueueAssumption DEF TypeInv
<1>1. CASE UNCHANGED calls
  BY <1>1 DEF Restoring
<1>2. CASE \E q, a : calls' = Append(calls, Set(q, a)) /\ q \in Queues(emitted') /\ a \in BOOLEAN
              /\ emitted <= emitted'
  <2>1. calls \in Seq(Calls(emitted'))
    BY <1>0, <1>2, CallsGrow
  <2>a. PICK q, a : calls' = Append(calls, Set(q, a)) /\ q \in Queues(emitted') /\ a \in BOOLEAN
    BY <1>2
  <2>2. \A i \in DOMAIN calls' : calls'[i].op = "get" => i \in DOMAIN calls /\ calls[i].op = "get"
    BY <1>0, <2>1, <2>a, CallQuiet
  <2> QED
    BY <2>2 DEF Restoring
<1>3. CASE calls # <<>> /\ calls' = Tail(calls)
  <2>1. \A i \in DOMAIN calls' : i + 1 \in DOMAIN calls /\ calls'[i] = calls[i + 1]
    BY <1>0, <1>3, Ran
  <2> QED
    BY <2>1 DEF Restoring
<1>4. CASE calls' = <<>>
  BY <1>4, EmptySeq DEF Restoring
<1>5. CASE Emit
  <2>1. emitted <= emitted'
    BY <1>0, <1>5 DEF Emit
  <2> QED
    BY <1>2, <1>5, <2>1 DEF Emit, Persist, TypeInv
<1>6. CASE FlushDelivered \/ FlushTooLarge
  <2>1. emitted <= emitted'
    <3>1. emitted' = emitted
      <4>1. FlushDelivered => emitted' = emitted
        BY DEF FlushDelivered, ghosts
      <4>2. FlushTooLarge => emitted' = emitted
        BY DEF FlushTooLarge
      <4> QED
        BY <1>6, <4>1, <4>2
    <3> QED
      BY <1>0, <3>1
  <2> QED
    BY <1>2, <1>6, <2>1 DEF FlushDelivered, FlushTooLarge, Persist, TypeInv
<1>7. CASE Stop \/ Flush \/ (\E tok \in BOOLEAN : SetAuthToken(tok)) \/ Ingest \/ FlushKeeps
  BY <1>1, <1>7 DEF Stop, Flush, SetAuthToken, Ingest, FlushKeeps, diskVars
<1>8. CASE Restore \/ Write
  BY <1>3, <1>8 DEF Restore, Write
<1>9. CASE Kill
  BY <1>4, <1>9 DEF Kill
<1> QED
  BY <1>5, <1>6, <1>7, <1>8, <1>9 DEF Next

\* Who writes what.
LEMMA Writers ==
  ASSUME Next
  PROVE  /\ Stop \/ Kill \/ restarts' = restarts
         /\ Start \/ Stop \/ Kill \/ started' = started
         /\ Emit \/ (emitted' = emitted /\ early' = early /\ during' = during)
<1>1. ASSUME NEW tok \in BOOLEAN, SetAuthToken(tok)
      PROVE  restarts' = restarts /\ started' = started /\ emitted' = emitted /\ early' = early /\ during' = during
  BY <1>1 DEF SetAuthToken, ghosts
<1>2. CASE Start \/ Restore \/ Stop \/ Emit \/ Flush
  BY <1>2 DEF Start, Restore, Stop, Emit, Flush, sdkVars, ghosts
<1>3. CASE Ingest \/ FlushDelivered \/ FlushTooLarge \/ FlushKeeps
  BY <1>3 DEF Ingest, FlushDelivered, FlushTooLarge, FlushKeeps, sdkVars, ghosts
<1>4. CASE Write \/ Kill
  BY <1>4 DEF Write, Kill, sdkVars
<1> QED
  BY <1>1, <1>2, <1>3, <1>4 DEF Next

\* While the SDK is not started or start() waits for the disk, every event was
\* emitted early.
EarlyInv == restarts = 0 /\ (~started \/ Restoring) => 1 .. emitted \subseteq early

\* Nothing was emitted at first.
LEMMA EarlyInit == Init => EarlyInv
BY EmptySeq DEF Init, EarlyInv

\* Only events emitted early come while the restore is due.
LEMMA EarlyNext == TypeInv /\ TypeInv' /\ EarlyInv /\ [Next]_vars => EarlyInv'
<1> SUFFICES ASSUME TypeInv, TypeInv', EarlyInv, [Next]_vars, restarts' = 0, ~started' \/ Restoring'
             PROVE  1 .. emitted' \subseteq early'
  BY DEF EarlyInv
<1>1. CASE UNCHANGED vars
  <2>1. /\ restarts' = restarts /\ started' = started /\ emitted' = emitted /\ early' = early /\ calls' = calls
    BY <1>1 DEF vars, sdkVars, diskVars, ghosts
  <2> QED
    BY <2>1 DEF EarlyInv, Restoring
<1>2. CASE Next
  <2>a. restarts \in Nat
    BY QueueAssumption DEF TypeInv
  <2>b. ~Stop /\ ~Kill
    BY <2>a DEF Stop, Kill
  <2>1. restarts = 0
    BY <1>2, <2>b, Writers
  <2>2. Restoring' => Restoring \/ Start
    BY <1>2, RestoringEnds
  <2>3. ~started \/ Restoring
    <3>1. ~started' => ~started
      BY <1>2, <2>b, Writers DEF Start
    <3>2. Start => ~started
      BY DEF Start
    <3> QED
      BY <2>2, <3>1, <3>2
  <2>4. 1 .. emitted \subseteq early
    BY <2>1, <2>3 DEF EarlyInv
  <2>5. CASE Emit
    <3>1. emitted' = emitted + 1 /\ early' = early \cup {emitted'} /\ emitted \in Nat
      BY <2>3, <2>5, QueueAssumption DEF Emit, TypeInv
    <3>2. 1 .. emitted + 1 = (1 .. emitted) \cup {emitted + 1}
      BY <3>1
    <3> QED
      BY <2>4, <3>1, <3>2
  <2>6. CASE ~Emit
    <3>1. emitted' = emitted /\ early' = early
      BY <1>2, <2>6, Writers
    <3> QED
      BY <2>4, <3>1
  <2> QED
    BY <2>5, <2>6
<1> QED
  BY <1>1, <1>2

-----------------------------------------------------------------------------
(* At least once. *)

\* The newest event survives the depth cap.
LEMMA NewestStays ==
  ASSUME NEW n \in Nat, NEW s \in Sorted(n)
  PROVE  n + 1 \in Elems(Newest(Append(s, n + 1), MaxQueueDepth))
<1> DEFINE t == Append(s, n + 1)
           l == Len(t)
<1>1. n + 1 \in Nat /\ t \in Sorted(n + 1) /\ MaxQueueDepth \in Nat /\ MaxQueueDepth >= 1
  BY Emitted, QueueAssumption
<1>2. t[l] = n + 1 /\ l \in Nat /\ l >= 1
  <2>1. s \in Seq(Nat) /\ n + 1 \in Nat /\ Len(s) \in Nat
    <3>1. 1 .. n \subseteq Nat
      OBVIOUS
    <3> QED
      BY <3>1, LenProperties DEF Sorted
  <2>2. l = Len(s) + 1 /\ t[Len(s) + 1] = n + 1
    BY <2>1, AppendProperties
  <2> HIDE DEF t, l
  <2> QED
    BY <2>1, <2>2
<1> HIDE DEF t, l
<1>3. CASE l > MaxQueueDepth
  <2> DEFINE k == l - MaxQueueDepth
             u == After(t, k)
  <2>1. k \in Nat /\ k <= l /\ l - k = MaxQueueDepth /\ MaxQueueDepth + k = l
        /\ MaxQueueDepth \in 1 .. MaxQueueDepth
    BY <1>1, <1>2, <1>3
  <2> HIDE DEF k
  <2>2. u \in Sorted(n + 1) /\ Len(u) = MaxQueueDepth /\ \A i \in 1 .. Len(u) : u[i] = t[i + k]
    BY <1>1, <2>1, AfterIs DEF l
  <2> HIDE DEF u
  <2>3. u[MaxQueueDepth] = n + 1
    BY <1>2, <2>1, <2>2, Zenon
  <2>4. u[MaxQueueDepth] \in Elems(u)
    <3>1. u \in Seq(1 .. n + 1)
      BY <2>2 DEF Sorted
    <3> QED
      BY <2>1, <2>2, <3>1, ElemsOfSeq
  <2>5. Newest(t, MaxQueueDepth) = u
    BY <1>3 DEF Newest, u, k, l
  <2> QED
    BY <2>3, <2>4, <2>5 DEF t
<1>4. CASE ~(l > MaxQueueDepth)
  <2>1. Newest(t, MaxQueueDepth) = t
    BY <1>4 DEF Newest, l
  <2>2. l \in 1 .. Len(t)
    BY <1>2 DEF l
  <2>3. t[l] \in Elems(t)
    BY <1>1, <2>2, ElemsOfSeq DEF Sorted
  <2> QED
    BY <1>2, <2>1, <2>3 DEF t
<1> QED
  BY <1>3, <1>4

\* Documents are never taken back.
LEMMA StoredGrows ==
  ASSUME TypeInv, [Next]_vars
  PROVE  \A e \in Events : stored[e] > 0 => stored'[e] > 0
<1>1. (\E S : Inserted(S)) => \A e \in Events : stored[e] > 0 => stored'[e] > 0
  <2> SUFFICES ASSUME NEW S, Inserted(S) PROVE \A e \in Events : stored[e] > 0 => stored'[e] > 0
    OBVIOUS
  <2> QED
    BY Counted DEF TypeInv
<1>2. (\E S : Inserted(S)) \/ stored' = stored
  <2>1. ASSUME NEW tok \in BOOLEAN, SetAuthToken(tok) PROVE stored' = stored
    BY <2>1 DEF SetAuthToken
  <2>2. CASE Start \/ Restore \/ Stop \/ Emit \/ Flush
    BY <2>2 DEF Start, Restore, Stop, Emit, Flush
  <2>3. CASE FlushDelivered \/ FlushTooLarge \/ FlushKeeps \/ Write
    BY <2>3 DEF FlushDelivered, FlushTooLarge, FlushKeeps, Write
  <2>4. CASE Ingest
    BY <2>4 DEF Ingest
  <2>5. CASE Kill
    BY <2>5 DEF Kill
  <2>6. CASE UNCHANGED vars
    BY <2>6 DEF vars
  <2> QED
    BY <2>1, <2>2, <2>3, <2>4, <2>5, <2>6 DEF Next
<1> QED
  BY <1>1, <1>2

\* A step that sends a batch or leaves the POST alone.
LEMMA Sends ==
  ASSUME TypeInv, TypeInv', NEW q \in Queues(emitted'), MayBegin(q), emitted <= emitted'
  PROVE  \/ /\ net = "none" /\ net' = "sent"
            /\ Elems(batch') \cup Elems(rest') = Elems(q)
            /\ Elems(batch') \cap Elems(rest') = {}
         \/ net' = net /\ batch' = batch /\ rest' = rest
<1> DEFINE n == emitted'
<1>1. n \in Nat /\ emitted \in Nat /\ emitted <= n
  BY QueueAssumption DEF TypeInv
<1> HIDE DEF n
<1>2. batch \in Queues(n) /\ rest \in Queues(n)
  BY <1>1, SortedGrow DEF TypeInv
<1>3. q \in Queues(n)
  BY DEF n
<1> QED
  BY <1>1, <1>2, <1>3, Begins DEF TypeInv

\* A delivered batch is in Mongo.
DeliveredInv == net = "ok" => \A e \in Elems(batch) : stored[e] > 0

\* Only the answer to a batch makes it delivered.
LEMMA DeliveredNext ==
  ASSUME TypeInv, TypeInv', DeliveredInv, [Next]_vars
  PROVE  DeliveredInv'
<1> SUFFICES ASSUME net' = "ok", NEW e \in Elems(batch') PROVE stored'[e] > 0
  BY DEF DeliveredInv
<1>1. Elems(batch) \subseteq Events
  BY QueuesWellFormed DEF TypeInv, WellFormed
<1>2. CASE net = "ok" /\ batch' = batch
  BY <1>1, <1>2, StoredGrows DEF DeliveredInv
<1>3. CASE Ingest
  <2>1. Inserted(Elems(batch)) /\ batch' = batch
    BY <1>3 DEF Ingest
  <2>2. e \in Events /\ stored[e] \in Nat
    BY <1>1, <2>1 DEF TypeInv
  <2>3. stored'[e] = stored[e] + 1
    BY <2>1, <2>2, Counted DEF TypeInv
  <2> QED
    BY <2>2, <2>3
<1>4. ASSUME NEW q, MayBegin(q) PROVE net = "ok" /\ batch' = batch
  BY <1>4 DEF MayBegin, BeginFlush, flushVars
<1>5. CASE Restore \/ Emit
  BY <1>2, <1>4, <1>5, FlushIfBegins DEF Restore, Emit
<1>6. CASE Flush
  BY <1>2, <1>4, <1>6 DEF Flush, MayFlush, MayBegin
<1>7. ASSUME NEW tok \in BOOLEAN, SetAuthToken(tok) PROVE stored'[e] > 0
  BY <1>2, <1>4, <1>7, FlushIfBegins DEF SetAuthToken
<1>8. CASE Start \/ Stop \/ Write \/ UNCHANGED vars
  BY <1>2, <1>8 DEF Start, Stop, Write, vars, flushVars
<1>9. ~FlushDelivered /\ ~FlushTooLarge /\ ~FlushKeeps /\ ~Kill
  BY DEF FlushDelivered, FlushTooLarge, FlushKeeps, Kill
<1> QED
  BY <1>3, <1>5, <1>6, <1>7, <1>8, <1>9 DEF Next

(***************************************************************************)
(* The inductive invariant of KeptUntilStored: what it says, and what the  *)
(* snapshot that a delivery puts in place of the queue leaves out.         *)
(***************************************************************************)
KeptInv == restarts = 0 =>
  /\ \A e \in (1 .. emitted) \ (early \cup during \cup dropped) : e \in Elems(queue) \/ stored[e] > 0
  /\ net # "none" => Elems(queue) \subseteq Elems(batch) \cup Elems(rest) \cup during \cup early

\* Nothing is owed at first.
LEMMA KeptInit == Init => KeptInv /\ DeliveredInv
<1> SUFFICES ASSUME Init PROVE KeptInv /\ DeliveredInv
  OBVIOUS
<1>1. emitted = 0 /\ net = "none" /\ 1 .. 0 = {}
  BY DEF Init
<1> QED
  BY <1>1 DEF KeptInv, DeliveredInv

\* Every step keeps what is owed in the queue or in Mongo.
LEMMA KeptNext ==
  ASSUME TypeInv, TypeInv', EarlyInv, DeliveredInv, KeptInv, [Next]_vars
  PROVE  KeptInv'
<1> SUFFICES ASSUME restarts' = 0 PROVE KeptInv'
  BY DEF KeptInv
<1> DEFINE Owed == (1 .. emitted) \ (early \cup during \cup dropped)
<1>0. /\ emitted \in Nat /\ restarts \in Nat
      /\ Elems(queue) \subseteq 1 .. emitted /\ 1 .. emitted \subseteq Events
  BY QueueAssumption, Within DEF TypeInv, Events
<1>1. ~Stop /\ ~Kill /\ restarts = 0
  <2>1. ~Stop /\ ~Kill
    BY <1>0 DEF Stop, Kill
  <2>2. UNCHANGED vars => restarts' = restarts
    BY DEF vars, ghosts
  <2> QED
    BY <2>1, <2>2, Writers
<1>2. /\ \A e \in Owed : e \in Elems(queue) \/ stored[e] > 0
      /\ net # "none" => Elems(queue) \subseteq Elems(batch) \cup Elems(rest) \cup during \cup early
  BY <1>1 DEF KeptInv
<1>3. \A e \in 1 .. emitted : stored[e] > 0 => stored'[e] > 0
  BY <1>0, StoredGrows
<1> HIDE DEF Owed
<1>4. ASSUME UNCHANGED <<emitted, early, during, dropped, queue>>,
             net' # "none" => net # "none" /\ batch' = batch /\ rest' = rest
      PROVE  KeptInv'
  <2>1. \A e \in Owed : e \in Elems(queue') \/ stored'[e] > 0
    BY <1>2, <1>3, <1>4 DEF Owed
  <2> QED
    BY <1>2, <1>4, <2>1 DEF KeptInv, Owed
<1>5. ASSUME UNCHANGED <<emitted, early, during, dropped, queue>>, MayBegin(queue)
      PROVE  KeptInv'
  <2>1. \/ net = "none" /\ net' = "sent" /\ Elems(batch') \cup Elems(rest') = Elems(queue)
        \/ net' = net /\ batch' = batch /\ rest' = rest
    <3>1. queue \in Queues(emitted') /\ emitted <= emitted'
      BY <1>0, <1>5 DEF TypeInv
    <3> QED
      BY <1>5, <3>1, Sends
  <2>2. \A e \in Owed : e \in Elems(queue') \/ stored'[e] > 0
    BY <1>2, <1>3, <1>5 DEF Owed
  <2> QED
    BY <1>2, <1>5, <2>1, <2>2 DEF KeptInv, Owed
<1>6. CASE Start
  BY <1>4, <1>6 DEF Start, flushVars, ghosts
<1>7. CASE Restore
  <2>1. Restoring
    <3>1. calls \in Seq(Calls(emitted)) /\ calls # <<>> /\ Head(calls).op = "get"
      BY <1>7 DEF Restore, Get, TypeInv
    <3>2. 1 \in DOMAIN calls /\ calls[1] = Head(calls)
      BY <1>0, <3>1, Ran
    <3> QED
      BY <3>1, <3>2 DEF Restoring
  <2>2. 1 .. emitted \subseteq early /\ emitted' = emitted /\ early' = early
    BY <1>1, <1>7, <2>1 DEF EarlyInv, Restore
  <2>3. Elems(queue') \subseteq 1 .. emitted
    BY <2>2, Within DEF TypeInv
  <2> QED
    BY <2>2, <2>3 DEF KeptInv
<1>8. CASE Emit
  <2>1. /\ emitted' = emitted + 1 /\ queue' = Newest(Append(queue, emitted + 1), MaxQueueDepth)
        /\ dropped' = dropped \cup (Elems(queue) \ Elems(queue'))
        /\ early \subseteq early' /\ during' = during \cup (IF flush = "posting" THEN {emitted'} ELSE {})
        /\ MayBegin(queue')
    BY <1>8, FlushIfBegins DEF Emit
  <2>2. emitted' \in Elems(queue') /\ Elems(queue') \subseteq Elems(queue) \cup {emitted'}
    <3>1. queue \in Sorted(emitted)
      BY DEF TypeInv, Queues
    <3>2. Append(queue, emitted + 1) \in Sorted(emitted + 1)
          /\ Elems(Append(queue, emitted + 1)) = Elems(queue) \cup {emitted + 1}
      BY <1>0, <3>1, Emitted
    <3>3. Elems(queue') \subseteq Elems(Append(queue, emitted + 1))
      BY <1>0, <2>1, <3>2, Capped
    <3> QED
      BY <1>0, <2>1, <3>1, <3>2, <3>3, NewestStays
  <2>3. 1 .. emitted' = (1 .. emitted) \cup {emitted'}
    BY <1>0, <2>1
  <2>4. \A e \in (1 .. emitted') \ (early' \cup during' \cup dropped') : e \in Elems(queue') \/ stored'[e] > 0
    <3> SUFFICES ASSUME NEW e \in (1 .. emitted') \ (early' \cup during' \cup dropped')
                 PROVE  e \in Elems(queue') \/ stored'[e] > 0
      OBVIOUS
    <3>1. CASE e = emitted'
      BY <2>2, <3>1
    <3>2. CASE e \in 1 .. emitted
      <4>1. e \in Owed
        BY <2>1, <3>2 DEF Owed
      <4> QED
        BY <1>2, <1>3, <2>1, <3>2, <4>1
    <3> QED
      BY <2>3, <3>1, <3>2
  <2>5. \/ net = "none" /\ net' = "sent" /\ Elems(batch') \cup Elems(rest') = Elems(queue')
        \/ net' = net /\ batch' = batch /\ rest' = rest
    <3>1. queue' \in Queues(emitted') /\ emitted <= emitted'
      BY <1>0, <2>1 DEF TypeInv
    <3> QED
      BY <2>1, <3>1, Sends
  <2>6. net' # "none" => Elems(queue') \subseteq Elems(batch') \cup Elems(rest') \cup during' \cup early'
    <3>1. net # "none" => emitted' \in during'
      BY <2>1 DEF TypeInv
    <3> QED
      BY <1>2, <2>1, <2>2, <2>5, <3>1
  <2> QED
    BY <2>4, <2>6 DEF KeptInv
<1>9. CASE Flush
  BY <1>5, <1>9 DEF Flush, MayFlush, MayBegin, sdkVars, ghosts
<1>10. ASSUME NEW tok \in BOOLEAN, SetAuthToken(tok) PROVE KeptInv'
  BY <1>5, <1>10, FlushIfBegins DEF SetAuthToken, ghosts
<1>11. CASE Ingest
  BY <1>4, <1>11 DEF Ingest, sdkVars
<1>12. CASE FlushDelivered
  <2>1. /\ net = "ok" /\ net' = "none" /\ queue' = rest
        /\ UNCHANGED <<emitted, early, during, dropped, stored>>
    BY <1>12 DEF FlushDelivered, ghosts
  <2>2. \A e \in Elems(batch) : stored[e] > 0
    BY <2>1 DEF DeliveredInv
  <2>3. \A e \in Owed : e \in Elems(queue') \/ stored'[e] > 0
    BY <1>2, <2>1, <2>2 DEF Owed
  <2> QED
    BY <2>1, <2>3 DEF KeptInv, Owed
<1>13. CASE FlushTooLarge
  <2>1. /\ net' = "none" /\ dropped' = dropped \cup (Elems(queue) \ Elems(queue'))
        /\ UNCHANGED <<emitted, early, during, stored>>
    BY <1>13 DEF FlushTooLarge
  <2>2. \A e \in (1 .. emitted) \ (early \cup during \cup dropped') : e \in Elems(queue') \/ stored'[e] > 0
    BY <1>2, <2>1 DEF Owed
  <2> QED
    BY <2>1, <2>2 DEF KeptInv
<1>14. CASE FlushKeeps
  BY <1>4, <1>14 DEF FlushKeeps, sdkVars, ghosts
<1>15. CASE Write
  BY <1>4, <1>15 DEF Write, sdkVars
<1>16. CASE UNCHANGED vars
  BY <1>4, <1>16 DEF vars, sdkVars, flushVars, ghosts
<1> QED
  BY <1>1, <1>6, <1>7, <1>8, <1>9, <1>10, <1>11, <1>12, <1>13, <1>14, <1>15, <1>16 DEF Next

(***************************************************************************)
(* At least once: until the app stops or dies for the first time, an event *)
(* emitted while start() and flush() wait for nothing stays queued until   *)
(* Mongo holds it, whatever POST or storage call fails and however the     *)
(* timer, the batch size, sign-in and AsyncStorage interleave, unless the  *)
(* depth cap or a 413 sheds it.                                            *)
(***************************************************************************)
THEOREM KeptAlways == Spec => []KeptUntilStored
<1> DEFINE Inv == TypeInv /\ EarlyInv /\ DeliveredInv /\ KeptInv
<1>1. Init => Inv
  BY InitTypes, EarlyInit, KeptInit
<1>2. Inv /\ [Next]_vars => Inv'
  BY NextTypes, EarlyNext, DeliveredNext, KeptNext
<1>3. Inv => KeptUntilStored
  BY DEF KeptInv, KeptUntilStored
<1> HIDE DEF Inv
<1> QED
  BY <1>1, <1>2, <1>3, PTL DEF Spec

-----------------------------------------------------------------------------
(* Exactly once while nothing fails. *)

(***************************************************************************)
(* The inductive invariant of OnceWhenHealthy: an event that is queued,    *)
(* sent or kept back is not in Mongo, but for the batch that was just      *)
(* delivered.                                                              *)
(***************************************************************************)
Unstored(S) == \A e \in S \ early : stored[e] = 0

OnceInv == faults = 0 /\ restarts = 0 =>
  /\ net \in {"none", "sent", "ok"}
  /\ \A e \in Events \ early : stored[e] <= 1
  /\ \A e \in Events : e > emitted => stored[e] = 0
  /\ Unstored(IF net = "ok" THEN Elems(queue) \ Elems(batch) ELSE Elems(queue))
  /\ net # "none" => Unstored(Elems(rest)) /\ Elems(batch) \cap Elems(rest) = {}
  /\ net = "sent" => Unstored(Elems(batch))

\* Nothing is stored at first.
LEMMA OnceInit == Init => OnceInv
<1> SUFFICES ASSUME Init PROVE OnceInv
  OBVIOUS
<1>1. net = "none" /\ \A e \in Events : stored[e] = 0
  BY DEF Init
<1>2. Elems(queue) = {}
  BY EmptySeq DEF Init, Elems
<1> QED
  BY <1>1, <1>2 DEF OnceInv, Unstored

\* No step stores an event that is stored.
LEMMA OnceNext ==
  ASSUME TypeInv, TypeInv', EarlyInv, OnceInv, [Next]_vars
  PROVE  OnceInv'
<1> SUFFICES ASSUME faults' = 0, restarts' = 0 PROVE OnceInv'
  BY DEF OnceInv
<1>0. /\ emitted \in Nat /\ restarts \in Nat /\ faults \in Nat
      /\ Elems(queue) \subseteq 1 .. emitted /\ Elems(batch) \subseteq 1 .. emitted
      /\ Elems(rest) \subseteq 1 .. emitted /\ 1 .. emitted \subseteq Events
      /\ stored \in [Events -> Nat]
  <2>1. /\ queue \in Queues(emitted) /\ batch \in Queues(emitted) /\ rest \in Queues(emitted)
        /\ stored \in [Events -> Nat] /\ emitted \in 0 .. LastEvent
        /\ restarts \in 0 .. MaxRestarts /\ faults \in 0 .. MaxFaults
    BY DEF TypeInv
  <2>2. /\ emitted \in Nat /\ restarts \in Nat /\ faults \in Nat /\ 1 .. emitted \subseteq Events
    BY <2>1, QueueAssumption DEF Events
  <2> QED
    BY <2>1, <2>2, Within
<1>1. ~Stop /\ ~Kill /\ restarts = 0
  <2>1. ~Stop /\ ~Kill
    BY <1>0 DEF Stop, Kill
  <2>2. UNCHANGED vars => restarts' = restarts
    BY DEF vars, ghosts
  <2> QED
    BY <2>1, <2>2, Writers
<1>a. ~Fault
  BY <1>0 DEF Fault
<1>b. faults = 0
  <2>1. ASSUME NEW tok \in BOOLEAN, SetAuthToken(tok) PROVE faults' = faults
    BY <2>1 DEF SetAuthToken, ghosts
  <2>2. CASE Start \/ Restore \/ Emit \/ Flush
    BY <1>a, <2>2 DEF Start, Restore, Emit, Flush, ghosts
  <2>3. CASE Ingest \/ FlushDelivered \/ FlushTooLarge \/ FlushKeeps \/ Write
    BY <1>a, <2>3 DEF Ingest, FlushDelivered, FlushTooLarge, FlushKeeps, Write, ghosts
  <2>4. CASE UNCHANGED vars
    BY <2>4 DEF vars, ghosts
  <2> QED
    BY <1>1, <2>1, <2>2, <2>3, <2>4 DEF Next
<1>2. /\ net \in {"none", "sent", "ok"}
      /\ \A e \in Events \ early : stored[e] <= 1
      /\ \A e \in Events : e > emitted => stored[e] = 0
      /\ Unstored(IF net = "ok" THEN Elems(queue) \ Elems(batch) ELSE Elems(queue))
      /\ net # "none" => Unstored(Elems(rest)) /\ Elems(batch) \cap Elems(rest) = {}
      /\ net = "sent" => Unstored(Elems(batch))
  BY <1>1, <1>b DEF OnceInv
\* The queue, the batch and the rest stay or are cut anew.
<1>3. ASSUME UNCHANGED <<emitted, early, stored, queue>>,
             (net' = "none" /\ net # "ok") \/ UNCHANGED <<net, batch, rest>>
      PROVE  OnceInv'
  BY <1>2, <1>3 DEF OnceInv, Unstored
<1>4. ASSUME UNCHANGED <<stored, early, emitted, queue>>, MayBegin(queue)
      PROVE  OnceInv'
  <2>1. \/ /\ net = "none" /\ net' = "sent" /\ Elems(batch') \cup Elems(rest') = Elems(queue)
           /\ Elems(batch') \cap Elems(rest') = {}
        \/ net' = net /\ batch' = batch /\ rest' = rest
    <3>1. queue \in Queues(emitted') /\ emitted <= emitted'
      BY <1>0, <1>4 DEF TypeInv
    <3> QED
      BY <1>4, <3>1, Sends
  <2>2. CASE net = "none" /\ net' = "sent" /\ Elems(batch') \cup Elems(rest') = Elems(queue)
             /\ Elems(batch') \cap Elems(rest') = {}
    BY <1>2, <1>4, <2>2 DEF OnceInv, Unstored
  <2>3. CASE net' = net /\ batch' = batch /\ rest' = rest
    BY <1>3, <1>4, <2>3
  <2> QED
    BY <2>1, <2>2, <2>3
<1>5. CASE Start
  BY <1>3, <1>5 DEF Start, flushVars, ghosts
<1>6. CASE Restore
  <2>1. Restoring
    <3>1. calls \in Seq(Calls(emitted)) /\ calls # <<>> /\ Head(calls).op = "get"
      BY <1>6 DEF Restore, Get, TypeInv
    <3>2. 1 \in DOMAIN calls /\ calls[1] = Head(calls)
      BY <1>0, <3>1, Ran
    <3> QED
      BY <3>1, <3>2 DEF Restoring
  <2>2. 1 .. emitted \subseteq early /\ emitted' = emitted /\ early' = early /\ stored' = stored
    BY <1>1, <1>6, <2>1 DEF EarlyInv, Restore
  <2>3. /\ Elems(queue') \subseteq early /\ Elems(batch') \subseteq early /\ Elems(rest') \subseteq early
    <3>1. Elems(queue') \subseteq 1 .. emitted' /\ Elems(batch') \subseteq 1 .. emitted'
          /\ Elems(rest') \subseteq 1 .. emitted'
      BY Within DEF TypeInv
    <3> QED
      BY <2>2, <3>1
  <2>4. MayBegin(queue') /\ queue' \in Queues(emitted') /\ emitted <= emitted'
    <3>1. MayBegin(queue')
      BY <1>6, FlushIfBegins DEF Restore
    <3>2. emitted <= emitted'
      BY <1>0, <2>2
    <3> QED
      BY <3>1, <3>2 DEF TypeInv
  <2>5. /\ net' \in {"none", "sent", "ok"}
        /\ net' # "none" => Elems(batch') \cap Elems(rest') = {}
    BY <1>2, <2>4, Sends
  <2> QED
    BY <1>2, <2>2, <2>3, <2>5 DEF OnceInv, Unstored
<1>7. CASE Emit
  <2> DEFINE n == emitted'
  <2>1. /\ n = emitted + 1 /\ queue' = Newest(Append(queue, n), MaxQueueDepth)
        /\ early \subseteq early' /\ stored' = stored /\ MayBegin(queue')
    BY <1>7, FlushIfBegins DEF Emit
  <2>2. n \in Events /\ stored[n] = 0 /\ n \notin 1 .. emitted
    <3>1. n \in Events
      BY <1>0, <2>1, QueueAssumption DEF TypeInv, Events
    <3> QED
      BY <1>0, <1>2, <2>1, <3>1
  <2>3. Elems(queue') \subseteq Elems(queue) \cup {n}
    <3>1. queue \in Sorted(emitted)
      BY DEF TypeInv, Queues
    <3>2. /\ Append(queue, emitted + 1) \in Sorted(emitted + 1)
          /\ Elems(Append(queue, emitted + 1)) = Elems(queue) \cup {emitted + 1}
      BY <1>0, <3>1, Emitted
    <3>3. Elems(queue') \subseteq Elems(Append(queue, emitted + 1))
      BY <1>0, <2>1, <3>2, Capped
    <3> QED
      BY <2>1, <3>2, <3>3
  <2>4. \/ /\ net = "none" /\ net' = "sent" /\ Elems(batch') \cup Elems(rest') = Elems(queue')
           /\ Elems(batch') \cap Elems(rest') = {}
        \/ net' = net /\ batch' = batch /\ rest' = rest
    <3>1. queue' \in Queues(emitted') /\ emitted <= emitted'
      BY <1>0, <2>1 DEF TypeInv
    <3> QED
      BY <2>1, <3>1, Sends
  <2>5. /\ \A e \in Events \ early' : stored'[e] <= 1
        /\ \A e \in Events : e > emitted' => stored'[e] = 0
    <3>1. \A e \in Events : e > emitted' => e > emitted
      BY <1>0, <2>1 DEF Events
    <3> QED
      BY <1>2, <2>1, <3>1
  <2> HIDE DEF n
  <2>6. CASE net = "none" /\ net' = "sent" /\ Elems(batch') \cup Elems(rest') = Elems(queue')
             /\ Elems(batch') \cap Elems(rest') = {}
    BY <1>2, <2>1, <2>2, <2>3, <2>5, <2>6 DEF OnceInv, Unstored
  <2>7. CASE net' = net /\ batch' = batch /\ rest' = rest
    BY <1>0, <1>2, <2>1, <2>2, <2>3, <2>5, <2>7 DEF OnceInv, Unstored
  <2> QED
    BY <2>4, <2>6, <2>7
<1>8. CASE Flush
  BY <1>4, <1>8 DEF Flush, MayFlush, MayBegin, sdkVars, ghosts
<1>9. ASSUME NEW tok \in BOOLEAN, SetAuthToken(tok) PROVE OnceInv'
  BY <1>4, <1>9, FlushIfBegins DEF SetAuthToken, ghosts
<1>10. CASE Ingest
  <2>1. /\ net = "sent" /\ net' = "ok" /\ Inserted(Elems(batch))
        /\ UNCHANGED <<queue, batch, rest, emitted, early>>
    BY <1>a, <1>10 DEF Ingest, sdkVars
  <2>2. \A e \in Events : stored'[e] = IF e \in Elems(batch) THEN stored[e] + 1 ELSE stored[e]
    BY <1>0, <2>1, Counted
  <2>3. /\ Unstored(Elems(batch)) /\ Unstored(Elems(queue)) /\ Unstored(Elems(rest))
        /\ Elems(batch) \cap Elems(rest) = {}
    BY <1>2, <2>1
  <2>4. \A e \in Events \ early : stored'[e] <= 1
    <3>1. \A e \in Events \ early : stored[e] <= 1 /\ (e \in Elems(batch) => stored[e] = 0)
      BY <1>2, <2>3 DEF Unstored
    <3> QED
      BY <2>2, <3>1
  <2>5. \A e \in Events : e > emitted => stored'[e] = 0
    <3>1. \A e \in Elems(batch) : ~(e > emitted)
      BY <1>0
    <3> QED
      BY <1>2, <2>2, <3>1
  <2>6. /\ \A e \in (Elems(queue) \ Elems(batch)) \ early : stored'[e] = 0
        /\ \A e \in Elems(rest) \ early : stored'[e] = 0
    BY <1>0, <2>2, <2>3 DEF Unstored
  <2> QED
    BY <2>1, <2>3, <2>4, <2>5, <2>6 DEF OnceInv, Unstored
<1>11. CASE FlushDelivered
  <2>1. net = "ok" /\ net' = "none" /\ queue' = rest /\ UNCHANGED <<emitted, early, stored>>
    BY <1>11 DEF FlushDelivered, ghosts
  <2> QED
    BY <1>2, <2>1 DEF OnceInv, Unstored
<1>12. ~FlushTooLarge /\ ~FlushKeeps
  BY <1>2 DEF FlushTooLarge, FlushKeeps
<1>13. CASE Write
  BY <1>3, <1>13 DEF Write, sdkVars
<1>14. CASE UNCHANGED vars
  BY <1>3, <1>14 DEF vars, sdkVars, flushVars, ghosts
<1> QED
  BY <1>1, <1>5, <1>6, <1>7, <1>8, <1>9, <1>10, <1>11, <1>12, <1>13, <1>14 DEF Next

(***************************************************************************)
(* Exactly once while nothing fails: timer, batch size, sign-in and forced *)
(* flushes that coincide never make the server insert an event twice,      *)
(* however many events are emitted and however they meet the POST in       *)
(* flight.                                                                 *)
(***************************************************************************)
THEOREM OnceAlways == Spec => []OnceWhenHealthy
<1> DEFINE Inv == TypeInv /\ EarlyInv /\ OnceInv
<1>1. Init => Inv
  BY InitTypes, EarlyInit, OnceInit
<1>2. Inv /\ [Next]_vars => Inv'
  BY NextTypes, EarlyNext, OnceNext
<1>3. Inv => OnceWhenHealthy
  BY DEF OnceInv, OnceWhenHealthy
<1> HIDE DEF Inv
<1> QED
  BY <1>1, <1>2, <1>3, PTL DEF Spec

=============================================================================
