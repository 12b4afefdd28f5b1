-------------------------- MODULE GenerationProofs --------------------------
(***************************************************************************)
(* Theorems about Generation, for every number of requests, length of the  *)
(* chain of providers, routing table and threshold of the health tracker.  *)
(***************************************************************************)
EXTENDS Generation, TLAPS

-----------------------------------------------------------------------------
(* Types. *)

Stages ==
  {"new", "wardrobe", "cache", "gate", "route", "routed", "seek", "calling",
   "record", "batch", "ended", "failed", "over"}
Batches == {"none", "empty", "full", "padded", "short", "hit"}
MaybeProvider == Providers \cup {NoProvider}
Progresses ==
  [at : Stages, pass : {1, 2}, pos : 1 .. Len(Chain) + 1, any : BOOLEAN,
   usage : MaybeProvider, prim : MaybeProvider, err : BOOLEAN,
   billed : SUBSET Providers, booked : SUBSET Providers,
   batch : Batches, by : MaybeProvider]
Tracked == [fails : 0 .. FailsToCooldown, cooling : BOOLEAN]
Wires == [last : {"none", "progress", "done", "error"}, late : BOOLEAN]

\* The cascade calls a provider of its chain; the routed call has a provider.
Placed(g) ==
  /\ g.at = "calling" => g.pos \in 1 .. Len(Chain)
  /\ g.at = "routed" => g.by \in Providers

\* Where a request is before a provider answered for it.
Early == {"new", "wardrobe", "cache", "gate", "route", "seek", "calling"}

\* What ServedIsBooked rests on, for a request whose caller left or not: nothing is
\* booked before "record", and there a success carries the Usage of the provider
\* that was paid for it.
Accounted(g, left) ==
  /\ g.at \in Early => g.by = NoProvider
  /\ g.at \in Early \cup {"routed"} => ~g.err
  /\ g.at \in Early \cup {"routed", "record"} => g.booked = {}
  /\ g.at = "record" /\ g.err => g.by = NoProvider
  /\ g.at = "record" /\ ~g.err => g.usage = g.by /\ g.by \in g.billed /\ g.by # NoProvider
  /\ g.at \in {"batch", "ended"} /\ g.by # NoProvider /\ ~left
       => g.booked = {g.by} /\ g.by \in g.billed

\* The types, and where the loops of the generators are.
GenTypes ==
  /\ gen \in [Requests -> Progresses]
  /\ hb \in [Requests -> {"none", "waiting", "writing", "gone"}]
  /\ wire \in [Requests -> Wires]
  /\ gone \subseteq Requests
  /\ health \in [Providers -> Tracked]
  /\ cached \in {"none", "full"}
  /\ \A r \in Requests : Placed(gen[r])

\* The chain is a function to the providers.
LEMMA ChainIs ==
  /\ Len(Chain) \in Nat /\ Len(Chain) > 0 /\ DOMAIN Chain = 1 .. Len(Chain)
  /\ \A i \in 1 .. Len(Chain) : Chain[i] \in Providers
  /\ FailsToCooldown \in Nat /\ FailsToCooldown >= 1
<1>1. Chain \in Seq(Providers) /\ Len(Chain) > 0 /\ FailsToCooldown \in Nat \ {0}
  BY GenAssumption
<1> QED
  BY <1>1

LEMMA AtTheStart == 1 \in 1 .. Len(Chain) + 1
<1>1. \A n \in Nat : 1 \in 1 .. n + 1
  OBVIOUS
<1> QED
  BY <1>1, ChainIs

LEMMA RoutesAre == \A p \in Routes \cup {NoProvider} : p # NoProvider => p \in Providers
BY GenAssumption

\* An answer is billed to the provider that gave it, and a good one carries its Usage.
LEMMA AnswersAre ==
  ASSUME NEW r, NEW p, NEW a \in Answers(r, p)
  PROVE  /\ a.ok \in BOOLEAN /\ a.ends \in BOOLEAN /\ a.billed \subseteq {p}
         /\ a.usage \in {p, NoProvider}
         /\ a.ok => a.billed = {p} /\ a.usage = p
<1>1. ASSUME NEW e \in BOOLEAN, a = [ok |-> FALSE, ends |-> e, billed |-> {}, usage |-> p]
      PROVE  a.ok = FALSE /\ a.ends \in BOOLEAN /\ a.billed = {} /\ a.usage = p
  BY <1>1
<1>2. ASSUME a = [ok |-> FALSE, ends |-> FALSE, billed |-> {p}, usage |-> p]
      PROVE  a.ok = FALSE /\ a.ends \in BOOLEAN /\ a.billed = {p} /\ a.usage = p
  BY <1>2
<1>3. ASSUME a = [ok |-> FALSE, ends |-> FALSE, billed |-> {}, usage |-> NoProvider]
      PROVE  a.ok = FALSE /\ a.ends \in BOOLEAN /\ a.billed = {} /\ a.usage = NoProvider
  BY <1>3
<1>4. ASSUME a = [ok |-> TRUE, ends |-> FALSE, billed |-> {p}, usage |-> p]
      PROVE  a.ok = TRUE /\ a.ends \in BOOLEAN /\ a.billed = {p} /\ a.usage = p
  BY <1>4
<1>5. \/ \E e \in BOOLEAN : a = [ok |-> FALSE, ends |-> e, billed |-> {}, usage |-> p]
      \/ a = [ok |-> FALSE, ends |-> FALSE, billed |-> {p}, usage |-> p]
      \/ a = [ok |-> FALSE, ends |-> FALSE, billed |-> {}, usage |-> NoProvider]
      \/ a = [ok |-> TRUE, ends |-> FALSE, billed |-> {p}, usage |-> p]
  BY DEF Answers
<1> QED
  BY <1>1, <1>2, <1>3, <1>4, <1>5, Zenon

\* A failure keeps the tracker's count within its threshold.
LEMMA WorseTracked ==
  ASSUME NEW h \in Tracked
  PROVE  Worse(h) \in Tracked
BY ChainIs DEF Worse, Tracked

LEMMA GenTypesInit == GenInit => GenTypes
<1> SUFFICES ASSUME GenInit PROVE GenTypes
  OBVIOUS
<1>1. gen \in [Requests -> Progresses]
  BY ChainIs DEF GenInit, Progresses, Stages, Batches, MaybeProvider
<1>2. health \in [Providers -> Tracked]
  BY DEF GenInit, Tracked
<1>3. \A r \in Requests : Placed(gen[r])
  BY DEF GenInit, Placed
<1> QED
  BY <1>1, <1>2, <1>3 DEF GenInit, GenTypes, Wires

\* A step that moves one request within its type, and leaves the others.
LEMMA OneMoves ==
  ASSUME GenTypes, NEW r \in Requests, NEW g \in Progresses, Placed(g),
         gen' = [gen EXCEPT ![r] = g]
  PROVE  /\ gen' \in [Requests -> Progresses]
         /\ \A q \in Requests : Placed(gen[q])'
         /\ \A q \in Requests \ {r} : gen'[q] = gen[q]
         /\ gen'[r] = g
<1>1. gen \in [Requests -> Progresses] /\ \A q \in Requests : Placed(gen[q])
  BY DEF GenTypes
<1>2. gen'[r] = g /\ \A q \in Requests \ {r} : gen'[q] = gen[q]
  BY <1>1
<1>3. \A q \in Requests : Placed(gen'[q])
  BY <1>1, <1>2
<1>4. \A q \in Requests : Placed(gen[q])'
  BY <1>3 DEF Placed
<1> QED
  BY <1>1, <1>2, <1>4

\* What each step of the generation does to the request it moves.
Advance(r) ==
  \E g \in Progresses :
    /\ Placed(g) /\ gen' = [gen EXCEPT ![r] = g]
    /\ g.at # "failed"
    /\ Accounted(gen[r], r \in gone) => Accounted(g, r \in gone)

LEMMA StepMoves ==
  ASSUME GenTypes, NEW r \in Requests,
         \/ ReadsWardrobe(r) \/ LooksUpCache(r) \/ PassesGate(r) \/ PicksRoute(r)
         \/ RoutedAnswers(r) \/ Seeks(r) \/ CascadeAnswers(r) \/ Records(r) \/ BuildsBatch(r)
  PROVE  Advance(r) /\ UNCHANGED <<hb, wire, gone>>
<1> DEFINE g0 == gen[r]
           left == r \in gone
<1>a. gen \in [Requests -> Progresses] /\ g0 \in Progresses /\ Placed(g0)
  BY DEF GenTypes
<1>c. left \in BOOLEAN
  OBVIOUS
<1>b. ASSUME NEW g \in Progresses, g.at \notin {"calling", "routed", "failed"},
             gen' = [gen EXCEPT ![r] = g], Accounted(g0, left) => Accounted(g, left)
      PROVE  Advance(r)
  BY <1>b DEF Placed, Advance
<1>d. ASSUME NEW g \in Progresses, Placed(g), g.at # "failed", gen' = [gen EXCEPT ![r] = g],
             Accounted(g0, left) => Accounted(g, left)
      PROVE  Advance(r)
  BY <1>d DEF Advance
<1> HIDE DEF g0, left
<1>1. CASE ReadsWardrobe(r)
  <2> DEFINE fails == [g0 EXCEPT !.at = "ended", !.err = TRUE]
             empty == [g0 EXCEPT !.at = "ended", !.batch = "empty"]
             reads == [g0 EXCEPT !.at = "cache"]
  <2>1. /\ g0.at = "wardrobe"
        /\ \/ gen' = [gen EXCEPT ![r] = fails]
           \/ gen' = [gen EXCEPT ![r] = empty]
           \/ gen' = [gen EXCEPT ![r] = reads]
    BY <1>a, <1>1 DEF ReadsWardrobe, Moves, g0
  <2>2. fails \in Progresses /\ empty \in Progresses /\ reads \in Progresses
    BY <1>a DEF Progresses, Stages, Batches
  <2>3. fails.at = "ended" /\ empty.at = "ended" /\ reads.at = "cache"
    BY <1>a DEF Progresses
  <2>4. Accounted(g0, left) =>
          Accounted(fails, left) /\ Accounted(empty, left) /\ Accounted(reads, left)
    BY <1>a, <2>1 DEF Accounted, Early, Progresses
  <2> HIDE DEF fails, empty, reads
  <2> QED
    BY <1>1, <1>b, <2>1, <2>2, <2>3, <2>4 DEF ReadsWardrobe
<1>2. CASE LooksUpCache(r) \/ PassesGate(r)
  <2> DEFINE denied == [g0 EXCEPT !.at = "ended", !.err = TRUE]
             hit    == [g0 EXCEPT !.at = "ended", !.batch = "hit"]
             miss   == [g0 EXCEPT !.at = "gate"]
             passed == [g0 EXCEPT !.at = "route"]
  <2>1. /\ g0.at \in {"cache", "gate"}
        /\ \/ gen' = [gen EXCEPT ![r] = denied]
           \/ gen' = [gen EXCEPT ![r] = hit]
           \/ gen' = [gen EXCEPT ![r] = miss]
           \/ gen' = [gen EXCEPT ![r] = passed]
    BY <1>a, <1>2 DEF LooksUpCache, PassesGate, Moves, g0
  <2>2. denied \in Progresses /\ hit \in Progresses /\ miss \in Progresses /\ passed \in Progresses
    BY <1>a DEF Progresses, Stages, Batches
  <2>3. denied.at = "ended" /\ hit.at = "ended" /\ miss.at = "gate" /\ passed.at = "route"
    BY <1>a DEF Progresses
  <2>4. Accounted(g0, left) =>
          Accounted(denied, left) /\ Accounted(hit, left) /\ Accounted(miss, left) /\ Accounted(passed, left)
    BY <1>a, <2>1 DEF Accounted, Early, Progresses
  <2> HIDE DEF denied, hit, miss, passed
  <2> QED
    BY <1>2, <1>b, <2>1, <2>2, <2>3, <2>4 DEF LooksUpCache, PassesGate
<1>3. CASE PicksRoute(r)
  <2>1. PICK p \in Routes \cup {NoProvider} :
          IF p = NoProvider THEN gen' = [gen EXCEPT ![r].at = "seek"]
          ELSE gen' = [gen EXCEPT ![r].at = "routed", ![r].by = p]
    BY <1>3 DEF PicksRoute, Moves
  <2>a. g0.at = "route"
    BY <1>3 DEF PicksRoute, g0
  <2>2. CASE p = NoProvider
    <3> DEFINE g == [g0 EXCEPT !.at = "seek"]
    <3>1. gen' = [gen EXCEPT ![r] = g]
      BY <1>a, <2>1, <2>2 DEF g0
    <3>2. g \in Progresses /\ g.at = "seek"
      BY <1>a DEF Progresses, Stages
    <3>3. Accounted(g0, left) => Accounted(g, left)
      BY <1>a, <2>a DEF Accounted, Early, Progresses
    <3> QED
      BY <1>3, <1>b, <3>1, <3>2, <3>3 DEF PicksRoute
  <2>3. CASE p # NoProvider
    <3> DEFINE g == [g0 EXCEPT !.at = "routed", !.by = p]
    <3>1. gen' = [gen EXCEPT ![r] = g]
      BY <1>a, <2>1, <2>3 DEF g0
    <3>2. p \in Providers
      BY <2>3, RoutesAre
    <3>3. g \in Progresses /\ Placed(g) /\ g.at # "failed"
      BY <1>a, <3>2 DEF Progresses, Stages, MaybeProvider, Placed
    <3>4. Accounted(g0, left) => Accounted(g, left)
      BY <1>a, <2>a DEF Accounted, Early, Progresses
    <3> QED
      BY <1>3, <1>d, <3>1, <3>3, <3>4 DEF PicksRoute
  <2> QED
    BY <2>2, <2>3
<1>4. CASE RoutedAnswers(r)
  <2>1. PICK a \in Answers(r, g0.by) :
          gen' = [gen EXCEPT ![r].billed = @ \cup a.billed,
                    ![r].at = IF a.ok THEN "record" ELSE "seek",
                    ![r].usage = IF a.ok THEN a.usage ELSE NoProvider,
                    ![r].prim = IF a.ok THEN NoProvider ELSE a.usage,
                    ![r].by = IF a.ok THEN @ ELSE NoProvider]
    BY <1>4 DEF RoutedAnswers, g0
  <2>2. g0.at = "routed" /\ g0.by \in Providers /\ g0.by # NoProvider
    BY <1>a, <1>4, GenAssumption DEF RoutedAnswers, Placed, g0
  <2>3. /\ a.ok \in BOOLEAN /\ a.billed \subseteq Providers /\ a.usage \in MaybeProvider
        /\ a.ok => a.usage = g0.by /\ g0.by \in a.billed
    BY <2>2, AnswersAre DEF MaybeProvider
  <2> DEFINE g == [g0 EXCEPT !.billed = g0.billed \cup a.billed,
                     !.at = IF a.ok THEN "record" ELSE "seek",
                     !.usage = IF a.ok THEN a.usage ELSE NoProvider,
                     !.prim = IF a.ok THEN NoProvider ELSE a.usage,
                     !.by = IF a.ok THEN g0.by ELSE NoProvider]
  <2>4. gen' = [gen EXCEPT ![r] = g]
    BY <1>a, <2>1 DEF g0
  <2>5. g \in Progresses
    BY <1>a, <2>3 DEF Progresses, Stages, MaybeProvider
  <2>6. /\ g.at \in {"record", "seek"} /\ (g.at = "record") = a.ok
        /\ g.err = g0.err /\ g.booked = g0.booked /\ g.billed = g0.billed \cup a.billed
        /\ g.by = (IF a.ok THEN g0.by ELSE NoProvider)
        /\ g.usage = (IF a.ok THEN a.usage ELSE NoProvider)
    BY <1>a, <2>3 DEF Progresses
  <2> HIDE DEF g
  <2>7. Accounted(g0, left) => Accounted(g, left)
    BY <2>2, <2>3, <2>6 DEF Accounted, Early
  <2> QED
    BY <1>4, <1>b, <2>4, <2>5, <2>6, <2>7 DEF RoutedAnswers
<1>5. CASE Seeks(r)
  <2> DEFINE skip == [g0 EXCEPT !.pos = g0.pos + 1]
             call == [g0 EXCEPT !.at = "calling", !.any = TRUE]
             again == [g0 EXCEPT !.pass = 2, !.pos = 1]
             give == [g0 EXCEPT !.at = "record", !.err = TRUE,
                                !.usage = IF g0.usage = NoProvider THEN g0.prim ELSE g0.usage]
  <2>1. /\ g0.at = "seek"
        /\ gen' = [gen EXCEPT ![r] =
             IF g0.pos <= Len(Chain)
             THEN IF g0.pass = 1 /\ health[Chain[g0.pos]].cooling THEN skip ELSE call
             ELSE IF g0.pass = 1 /\ ~g0.any THEN again ELSE give]
    BY <1>a, <1>5 DEF Seeks, g0
  <2>2. /\ again \in Progresses /\ again.at = "seek"
        /\ give \in Progresses /\ give.at = "record"
    <3>1. g0.usage \in MaybeProvider /\ g0.prim \in MaybeProvider
      BY <1>a DEF Progresses
    <3>2. again \in Progresses /\ again.at = "seek"
      BY <1>a, <2>1, AtTheStart DEF Progresses, Stages
    <3>3. give \in Progresses /\ give.at = "record"
      BY <1>a, <3>1 DEF Progresses, Stages
    <3> QED
      BY <3>2, <3>3
  <2>3. Placed(again) /\ Placed(give)
    BY <2>2 DEF Placed
  <2>4. ASSUME g0.pos <= Len(Chain)
        PROVE  /\ skip \in Progresses /\ Placed(skip) /\ skip.at # "failed"
               /\ call \in Progresses /\ Placed(call) /\ call.at # "failed"
    <3>1. g0.pos \in 1 .. Len(Chain) /\ g0.pos + 1 \in 1 .. Len(Chain) + 1
      BY <1>a, <2>4, ChainIs DEF Progresses
    <3> QED
      BY <1>a, <2>1, <3>1 DEF Progresses, Stages, Placed
  <2>5. Accounted(g0, left) =>
          Accounted(skip, left) /\ Accounted(call, left) /\ Accounted(again, left) /\ Accounted(give, left)
    BY <1>a, <2>1 DEF Accounted, Early, Progresses
  <2> HIDE DEF skip, call, again, give
  <2> QED
    BY <1>5, <1>d, <2>1, <2>2, <2>3, <2>4, <2>5 DEF Seeks
<1>6. CASE CascadeAnswers(r)
  <2> DEFINE p == Chain[g0.pos]
  <2>1. g0.at = "calling" /\ g0.pos \in 1 .. Len(Chain) /\ p \in Providers /\ p # NoProvider
    BY <1>a, <1>6, ChainIs, GenAssumption DEF CascadeAnswers, Placed, g0
  <2>2. PICK a \in Answers(r, p) :
          gen' = [gen EXCEPT ![r] =
            LET g == [g0 EXCEPT !.billed = g0.billed \cup a.billed] IN
            IF a.ok THEN [g EXCEPT !.at = "record", !.usage = p, !.by = p]
            ELSE IF a.ends
                 THEN [g EXCEPT !.at = "record", !.err = TRUE, !.usage = a.usage]
                 ELSE [g EXCEPT !.at = "seek", !.pos = g.pos + 1, !.usage = Known(g, a)]]
    BY <1>6 DEF CascadeAnswers, g0
  <2>3. a.billed \subseteq Providers /\ a.usage \in MaybeProvider /\ (a.ok => p \in a.billed)
    BY <2>1, AnswersAre DEF MaybeProvider
  <2> HIDE DEF p
  <2> DEFINE g == [g0 EXCEPT !.billed = g0.billed \cup a.billed]
             good == [g EXCEPT !.at = "record", !.usage = p, !.by = p]
             ends == [g EXCEPT !.at = "record", !.err = TRUE, !.usage = a.usage]
             next == [g EXCEPT !.at = "seek", !.pos = g.pos + 1, !.usage = Known(g, a)]
  <2>4. /\ g \in Progresses /\ g.pos = g0.pos /\ g.at = "calling"
        /\ g.billed = g0.billed \cup a.billed
        /\ g.by = g0.by /\ g.err = g0.err /\ g.booked = g0.booked
    BY <1>a, <2>1, <2>3 DEF Progresses
  <2>5. g.pos + 1 \in 1 .. Len(Chain) + 1
    BY <2>1, <2>4, ChainIs
  <2>6. gen' = [gen EXCEPT ![r] = IF a.ok THEN good ELSE IF a.ends THEN ends ELSE next]
    BY <2>2
  <2> HIDE DEF g
  <2>7. good \in Progresses /\ ends \in Progresses /\ next \in Progresses
    BY <2>1, <2>3, <2>4, <2>5 DEF Progresses, Stages, MaybeProvider, Known
  <2>8. /\ good.at = "record" /\ good.by = p /\ good.usage = p
        /\ good.billed = g.billed /\ good.booked = g.booked /\ good.err = g.err
        /\ ends.at = "record" /\ ends.by = g.by /\ ends.booked = g.booked /\ ends.err = TRUE
        /\ next.at = "seek" /\ next.by = g.by /\ next.booked = g.booked /\ next.err = g.err
    BY <2>4 DEF Progresses
  <2> HIDE DEF good, ends, next
  <2>9. Accounted(g0, left) => Accounted(ends, left) /\ Accounted(next, left)
    BY <2>1, <2>4, <2>8 DEF Accounted, Early
  <2>10. Accounted(g0, left) /\ a.ok => Accounted(good, left)
    BY <2>1, <2>3, <2>4, <2>8 DEF Accounted, Early
  <2> QED
    BY <1>6, <1>b, <2>6, <2>7, <2>8, <2>9, <2>10 DEF CascadeAnswers
<1>7. CASE Records(r)
  <2> DEFINE mid == [g0 EXCEPT !.booked = IF g0.usage = NoProvider THEN g0.booked ELSE {g0.usage}]
             kept == Returned(g0)
             row  == Returned(mid)
  <2>1. /\ g0.at = "record"
        /\ \/ gen' = [gen EXCEPT ![r] = row]
           \/ left /\ gen' = [gen EXCEPT ![r] = kept]
    <3>1. \/ gen' = [gen EXCEPT ![r] = Returned([gen[r] EXCEPT
                  !.booked = IF gen[r].usage = NoProvider THEN gen[r].booked ELSE {gen[r].usage}])]
          \/ r \in gone /\ gen' = [gen EXCEPT ![r] = Returned(gen[r])]
      BY <1>7 DEF Records
    <3>2. gen[r].at = "record"
      BY <1>7 DEF Records
    <3> QED
      BY <3>1, <3>2 DEF g0, left
  <2>2. mid \in Progresses
    BY <1>a DEF Progresses, MaybeProvider
  <2>3. /\ mid.booked = IF g0.usage = NoProvider THEN g0.booked ELSE {g0.usage}
        /\ mid.by = g0.by /\ mid.billed = g0.billed
    BY <1>a DEF Progresses
  <2> HIDE DEF mid
  <2>4. ASSUME NEW g \in Progresses
        PROVE  /\ Returned(g) \in Progresses /\ Returned(g).at = "batch"
               /\ Returned(g).by = g.by /\ Returned(g).booked = g.booked
               /\ Returned(g).billed = g.billed
    <3>1. NoProvider \in MaybeProvider /\ "batch" \in Stages
      BY DEF MaybeProvider, Stages
    <3> QED
      BY <3>1, AtTheStart DEF Progresses, Returned
  <2>5. /\ row \in Progresses /\ kept \in Progresses /\ row.at = "batch" /\ kept.at = "batch"
        /\ row.by = mid.by /\ row.booked = mid.booked /\ row.billed = mid.billed
    BY <1>a, <2>2, <2>4
  <2> HIDE DEF row, kept
  <2>6. Accounted(g0, left) => Accounted(row, left)
    BY <2>1, <2>3, <2>5 DEF Accounted, Early
  <2>7. left => Accounted(kept, left)
    BY <2>5 DEF Accounted, Early
  <2> QED
    BY <1>7, <1>b, <2>1, <2>5, <2>6, <2>7 DEF Records
<1>8. CASE BuildsBatch(r)
  <2>1. PICK b \in {"full", "padded", "short"} :
          gen' = [gen EXCEPT ![r].at = "ended", ![r].batch = b, ![r].err = FALSE]
    BY <1>8 DEF BuildsBatch
  <2> DEFINE g == [g0 EXCEPT !.at = "ended", !.batch = b, !.err = FALSE]
  <2>2. gen' = [gen EXCEPT ![r] = g] /\ g0.at = "batch"
    BY <1>a, <1>8, <2>1 DEF g0, BuildsBatch
  <2>3. /\ g \in Progresses /\ g.at = "ended"
        /\ g.by = g0.by /\ g.booked = g0.booked /\ g.billed = g0.billed
    BY <1>a DEF Progresses, Stages, Batches
  <2> HIDE DEF g
  <2>4. Accounted(g0, left) => Accounted(g, left)
    BY <2>2, <2>3 DEF Accounted, Early
  <2> QED
    BY <1>8, <1>b, <2>2, <2>3, <2>4 DEF BuildsBatch
<1> QED
  BY <1>1, <1>2, <1>3, <1>4, <1>5, <1>6, <1>7, <1>8


LEMMA AtIs ==
  ASSUME NEW g \in Progresses, NEW s \in Stages
  PROVE  [g EXCEPT !.at = s] \in Progresses /\ [g EXCEPT !.at = s].at = s
BY DEF Progresses

LEMMA AnsweredIs ==
  ASSUME NEW g \in Progresses
  PROVE  Answered(g) \in Progresses /\ Answered(g).at = IF g.err THEN "failed" ELSE "over"
<1>1. "failed" \in Stages /\ "over" \in Stages /\ NoProvider \in MaybeProvider /\ "none" \in Batches
  BY DEF Stages, MaybeProvider, Batches
<1> QED
  BY <1>1 DEF Answered, Progresses

LEMMA LastIs ==
  ASSUME NEW w \in [Requests -> Wires], NEW r \in Requests,
         NEW last \in {"none", "progress", "done", "error"}
  PROVE  /\ [w EXCEPT ![r].last = last] \in [Requests -> Wires]
         /\ [w EXCEPT ![r].last = last][r] = [w[r] EXCEPT !.last = last]
BY DEF Wires

LEMMA LateIs ==
  ASSUME NEW w \in [Requests -> Wires], NEW r \in Requests, NEW late \in BOOLEAN
  PROVE  /\ [w EXCEPT ![r].late = late] \in [Requests -> Wires]
         /\ [w EXCEPT ![r].late = late][r] = [w[r] EXCEPT !.late = late]
BY DEF Wires

\* The health tracker, the cache and the stream keep their types, too.
LEMMA GenTypesNext == GenTypes /\ [GenNext]_genVars => GenTypes'
<1> SUFFICES ASSUME GenTypes, [GenNext]_genVars PROVE GenTypes'
  OBVIOUS
<1>a. /\ gen \in [Requests -> Progresses] /\ \A r \in Requests : Placed(gen[r])
      /\ hb \in [Requests -> {"none", "waiting", "writing", "gone"}] /\ wire \in [Requests -> Wires]
      /\ gone \subseteq Requests /\ health \in [Providers -> Tracked]
      /\ cached \in {"none", "full"}
  BY DEF GenTypes
<1>b. ASSUME NEW r \in Requests, NEW g \in Progresses, Placed(g), gen' = [gen EXCEPT ![r] = g]
      PROVE  gen' \in [Requests -> Progresses] /\ \A q \in Requests : Placed(gen[q])'
  BY <1>b, OneMoves
<1>c. ASSUME NEW r \in Requests, Advance(r)
      PROVE  gen' \in [Requests -> Progresses] /\ \A q \in Requests : Placed(gen[q])'
  BY <1>b, <1>c DEF Advance
<1>d. UNCHANGED gen => gen' \in [Requests -> Progresses] /\ \A q \in Requests : Placed(gen[q])'
  BY <1>a DEF Placed
<1>1. ASSUME NEW r \in Requests, Begins(r) PROVE GenTypes'
  <2> DEFINE g == [gen[r] EXCEPT !.at = "wardrobe"]
  <2>1. gen' = [gen EXCEPT ![r] = g]
    BY <1>a, <1>1 DEF Begins, Moves
  <2>2. g \in Progresses /\ g.at = "wardrobe"
    <3>1. gen[r] \in Progresses /\ "wardrobe" \in Stages
      BY <1>a DEF Stages
    <3> QED
      BY <3>1, AtIs, Zenon
  <2>3. hb' \in [Requests -> {"none", "waiting", "writing", "gone"}]
    BY <1>a, <1>1 DEF Begins
  <2>6. wire' = wire \/ wire' = [wire EXCEPT ![r].last = "progress"]
    BY <1>1 DEF Begins
  <2>7. wire' \in [Requests -> Wires]
    <3>1. "progress" \in {"none", "progress", "done", "error"}
      OBVIOUS
    <3>2. [wire EXCEPT ![r].last = "progress"] \in [Requests -> Wires]
      BY <1>a, <3>1, LastIs
    <3> QED
      BY <1>a, <2>6, <3>2
  <2>4. Placed(g)
    BY <2>2 DEF Placed
  <2> HIDE DEF g
  <2>5. gen' \in [Requests -> Progresses] /\ \A q \in Requests : Placed(gen[q])'
    BY <1>b, <2>1, <2>2, <2>4
  <2> QED
    BY <1>a, <1>1, <2>3, <2>5, <2>7 DEF Begins, GenTypes
<1>2. ASSUME NEW r \in Requests,
             \/ ReadsWardrobe(r) \/ LooksUpCache(r) \/ PassesGate(r) \/ PicksRoute(r)
             \/ RoutedAnswers(r) \/ Seeks(r) \/ CascadeAnswers(r) \/ Records(r) \/ BuildsBatch(r)
      PROVE  GenTypes'
  <2>1. Advance(r) /\ UNCHANGED <<hb, wire, gone>>
    BY <1>2, StepMoves
  <2>2. health' \in [Providers -> Tracked]
    <3>1. CASE CascadeAnswers(r)
      <4>1. Chain[gen[r].pos] \in Providers
        BY <1>a, <3>1, ChainIs DEF CascadeAnswers, Placed
      <4>2. \E a \in Answers(r, Chain[gen[r].pos]) :
              health' = [health EXCEPT ![Chain[gen[r].pos]] =
                           IF a.ok THEN [fails |-> 0, cooling |-> FALSE]
                           ELSE Worse(health[Chain[gen[r].pos]])]
        BY <3>1 DEF CascadeAnswers
      <4>3. Worse(health[Chain[gen[r].pos]]) \in Tracked
        BY <1>a, <4>1, WorseTracked
      <4>4. [fails |-> 0, cooling |-> FALSE] \in Tracked
        BY ChainIs DEF Tracked
      <4> QED
        BY <1>a, <4>1, <4>2, <4>3, <4>4
    <3>2. CASE ~CascadeAnswers(r)
      BY <1>a, <1>2, <3>2 DEF ReadsWardrobe, LooksUpCache, PassesGate, PicksRoute, RoutedAnswers,
                              Seeks, Records, BuildsBatch
    <3> QED
      BY <3>1, <3>2
  <2>3. cached' \in {"none", "full"}
    BY <1>a, <1>2 DEF ReadsWardrobe, LooksUpCache, PassesGate, PicksRoute, RoutedAnswers,
                      Seeks, CascadeAnswers, Records, BuildsBatch
  <2> QED
    BY <1>a, <1>c, <2>1, <2>2, <2>3 DEF GenTypes
<1>3. ASSUME NEW r \in Requests, Ends(r) PROVE GenTypes'
  <2>1. gen' = [gen EXCEPT ![r] = Answered(gen[r])]
    BY <1>3 DEF Ends
  <2>2. Answered(gen[r]) \in Progresses /\ Answered(gen[r]).at \in {"failed", "over"}
    BY <1>a, AnsweredIs
  <2>3. wire' \in [Requests -> Wires]
    BY <1>a, <1>3 DEF Ends, Wires
  <2>4. Placed(Answered(gen[r]))
    BY <2>2 DEF Placed
  <2> QED
    BY <1>a, <1>b, <1>3, <2>1, <2>2, <2>3, <2>4 DEF Ends, GenTypes
<1>4. ASSUME NEW r \in Requests, RepeatsError(r) PROVE GenTypes'
  <2> DEFINE g == [gen[r] EXCEPT !.at = "over"]
  <2>1. gen' = [gen EXCEPT ![r] = g]
    BY <1>a, <1>4 DEF RepeatsError, Moves
  <2>2. g \in Progresses /\ g.at = "over"
    BY <1>a, AtIs DEF Stages
  <2>3. wire' \in [Requests -> Wires]
    BY <1>a, <1>4 DEF RepeatsError, Wires
  <2>4. Placed(g)
    BY <2>2 DEF Placed
  <2> HIDE DEF g
  <2> QED
    BY <1>a, <1>b, <1>4, <2>1, <2>2, <2>3, <2>4 DEF RepeatsError, GenTypes
<1>5. ASSUME NEW r \in Requests, Heartbeat(r) PROVE GenTypes'
  <2>1. /\ UNCHANGED <<gen, gone, health, cached>>
        /\ hb' \in [Requests -> {"none", "waiting", "writing", "gone"}]
    BY <1>a, <1>5 DEF Heartbeat, HeartbeatFires, HeartbeatWritten, HeartbeatEnds
  <2>3. \/ wire' = wire
        \/ wire' = [wire EXCEPT ![r].late = wire[r].late \/ wire[r].last # "progress"]
    BY <1>5 DEF Heartbeat, HeartbeatFires, HeartbeatWritten, HeartbeatEnds
  <2>2. wire' \in [Requests -> Wires]
    <3>1. (wire[r].late \/ wire[r].last # "progress") \in BOOLEAN
      OBVIOUS
    <3>2. [wire EXCEPT ![r].late = wire[r].late \/ wire[r].last # "progress"]
            \in [Requests -> Wires]
      BY <1>a, <3>1, LateIs
    <3> QED
      BY <1>a, <2>3, <3>2
  <2> QED
    BY <1>a, <1>d, <2>1, <2>2 DEF GenTypes
<1>6. ASSUME NEW r \in Requests, Cancelled(r) PROVE GenTypes'
  BY <1>a, <1>d, <1>6 DEF Cancelled, GenTypes
<1>7. ASSUME NEW p \in Providers, CoolsOff(p) PROVE GenTypes'
  <2>1. health' \in [Providers -> Tracked]
    BY <1>a, <1>7 DEF CoolsOff, Tracked
  <2> QED
    BY <1>a, <1>d, <1>7, <2>1 DEF CoolsOff, GenTypes
<1>8. CASE CacheExpires
  BY <1>a, <1>d, <1>8 DEF CacheExpires, GenTypes
<1>9. CASE UNCHANGED genVars
  BY <1>a, <1>d, <1>9 DEF genVars, GenTypes
<1> QED
  BY <1>1, <1>2, <1>3, <1>4, <1>5, <1>6, <1>7, <1>8, <1>9 DEF GenNext, GenStep

LEMMA GenTypesInvariant == GenSpec => []GenTypes
BY GenTypesInit, GenTypesNext, PTL DEF GenSpec

\* The variables of the generation keep their types: the cascade never indexes beyond
\* its chain and the tracker's counts stay within its threshold.
THEOREM GenTypeCorrect == GenSpec => []GenTypeOK
<1>1. GenTypes => GenTypeOK
  BY DEF GenTypes, GenTypeOK, Progresses, Stages, Batches, MaybeProvider, Tracked, Wires
<1> QED
  BY <1>1, GenTypesInvariant, PTL

-----------------------------------------------------------------------------
(* The stream. *)

\* A heartbeat that may still write has nothing but progress before it, and the
\* error that is repeated does not follow "done".
StreamInv ==
  \A r \in Streams :
    /\ ~wire[r].late
    /\ hb[r] \in {"waiting", "writing"} => wire[r].last = "progress"
    /\ gen[r].at = "failed" => wire[r].last # "done"

\* A step that leaves the stream and the heartbeats alone.
LEMMA StreamStands ==
  ASSUME StreamInv, UNCHANGED <<hb, wire>>,
         \A q \in Streams : gen'[q].at = "failed" => gen[q].at = "failed"
  PROVE  StreamInv'
BY DEF StreamInv

LEMMA StreamNext == GenTypes /\ StreamInv /\ [GenNext]_genVars => StreamInv'
<1> SUFFICES ASSUME GenTypes, StreamInv, [GenNext]_genVars PROVE StreamInv'
  OBVIOUS
<1>a. /\ gen \in [Requests -> Progresses]
      /\ hb \in [Requests -> {"none", "waiting", "writing", "gone"}] /\ wire \in [Requests -> Wires]
      /\ \A q \in Streams : q \in Requests
  BY DEF GenTypes, Requests
<1>b. ASSUME NEW r \in Requests, NEW g \in Progresses, gen' = [gen EXCEPT ![r] = g]
      PROVE  gen'[r] = g /\ \A q \in Requests \ {r} : gen'[q] = gen[q]
  BY <1>a, <1>b
<1>1. ASSUME NEW r \in Requests, Begins(r) PROVE StreamInv'
  <2>1. gen' = [gen EXCEPT ![r] = [gen[r] EXCEPT !.at = "wardrobe"]]
    BY <1>a, <1>1 DEF Begins, Moves
  <2>2. gen[r] \in Progresses /\ "wardrobe" \in Stages
    BY <1>a DEF Stages
  <2>3. [gen[r] EXCEPT !.at = "wardrobe"] \in Progresses /\ [gen[r] EXCEPT !.at = "wardrobe"].at = "wardrobe"
    BY <2>2, AtIs, Zenon
  <2>4. gen'[r].at = "wardrobe" /\ \A q \in Requests \ {r} : gen'[q] = gen[q]
    BY <1>b, <2>1, <2>3
  <2>5. CASE r \in Streams
    <3>1. hb' = [hb EXCEPT ![r] = "waiting"] /\ wire' = [wire EXCEPT ![r].last = "progress"]
      BY <1>1, <2>5 DEF Begins
    <3>2. hb'[r] = "waiting" /\ \A q \in Requests \ {r} : hb'[q] = hb[q] /\ wire'[q] = wire[q]
      BY <1>a, <3>1
    <3>3. "progress" \in {"none", "progress", "done", "error"}
      OBVIOUS
    <3>4. wire'[r] = [wire[r] EXCEPT !.last = "progress"]
      BY <1>a, <3>1, <3>3, LastIs
    <3>5. wire'[r].last = "progress" /\ wire'[r].late = wire[r].late
      BY <1>a, <3>4 DEF Wires
    <3> QED
      BY <1>a, <2>4, <3>2, <3>5 DEF StreamInv
  <2>6. CASE r \notin Streams
    <3>1. UNCHANGED <<hb, wire>>
      BY <1>1, <2>6 DEF Begins
    <3> QED
      BY <1>a, <2>4, <2>6, <3>1, StreamStands
  <2> QED
    BY <2>5, <2>6
<1>2. ASSUME NEW r \in Requests,
             \/ ReadsWardrobe(r) \/ LooksUpCache(r) \/ PassesGate(r) \/ PicksRoute(r)
             \/ RoutedAnswers(r) \/ Seeks(r) \/ CascadeAnswers(r) \/ Records(r) \/ BuildsBatch(r)
      PROVE  StreamInv'
  <2>1. Advance(r) /\ UNCHANGED <<hb, wire, gone>>
    BY <1>2, StepMoves
  <2>2. \A q \in Requests : gen'[q].at = "failed" => gen[q].at = "failed"
    BY <1>b, <2>1 DEF Advance
  <2> QED
    BY <1>a, <2>1, <2>2, StreamStands
<1>3. ASSUME NEW r \in Requests, Ends(r) PROVE StreamInv'
  <2>1. gen' = [gen EXCEPT ![r] = Answered(gen[r])] /\ UNCHANGED hb /\ (r \in Streams => hb[r] = "gone")
    BY <1>3 DEF Ends
  <2>2. gen[r] \in Progresses
    BY <1>a
  <2>3. Answered(gen[r]) \in Progresses /\ Answered(gen[r]).at = IF gen[r].err THEN "failed" ELSE "over"
    BY <2>2, AnsweredIs
  <2>4. /\ gen'[r].at = IF gen[r].err THEN "failed" ELSE "over"
        /\ \A q \in Requests \ {r} : gen'[q] = gen[q]
    BY <1>b, <2>1, <2>3
  <2>5. CASE r \in Streams
    <3> DEFINE last == IF gen[r].err THEN "error" ELSE "done"
    <3>1. wire' = [wire EXCEPT ![r].last = last]
      BY <1>3, <2>5 DEF Ends
    <3>2. last \in {"none", "progress", "done", "error"} /\ (gen[r].err => last = "error")
      OBVIOUS
    <3> HIDE DEF last
    <3>3. wire'[r] = [wire[r] EXCEPT !.last = last]
      BY <1>a, <3>1, <3>2, LastIs
    <3>4. /\ wire'[r].last = last /\ wire'[r].late = wire[r].late
          /\ \A q \in Requests \ {r} : wire'[q] = wire[q]
      BY <1>a, <3>1, <3>3 DEF Wires
    <3> QED
      BY <1>a, <2>1, <2>4, <2>5, <3>2, <3>4 DEF StreamInv
  <2>6. CASE r \notin Streams
    <3>1. UNCHANGED <<hb, wire>>
      BY <1>3, <2>6 DEF Ends
    <3> QED
      BY <1>a, <2>4, <2>6, <3>1, StreamStands
  <2> QED
    BY <2>5, <2>6
<1>4. ASSUME NEW r \in Requests, RepeatsError(r) PROVE StreamInv'
  <2>1. gen' = [gen EXCEPT ![r] = [gen[r] EXCEPT !.at = "over"]] /\ UNCHANGED hb /\ gen[r].at = "failed"
    BY <1>a, <1>4 DEF RepeatsError, Moves
  <2>2. gen[r] \in Progresses /\ "over" \in Stages
    BY <1>a DEF Stages
  <2>3. [gen[r] EXCEPT !.at = "over"] \in Progresses /\ [gen[r] EXCEPT !.at = "over"].at = "over"
    BY <2>2, AtIs, Zenon
  <2>4. gen'[r].at = "over" /\ \A q \in Requests \ {r} : gen'[q] = gen[q]
    BY <1>b, <2>1, <2>3
  <2> DEFINE late == wire[r].late \/ wire[r].last = "done"
  <2>5. wire' = [wire EXCEPT ![r].late = late] /\ late \in BOOLEAN
    BY <1>4 DEF RepeatsError
  <2>6. r \in Streams => ~late
    BY <2>1 DEF StreamInv
  <2> HIDE DEF late
  <2>7. wire'[r] = [wire[r] EXCEPT !.late = late]
    BY <1>a, <2>5, LateIs
  <2>8. /\ wire'[r].late = late /\ wire'[r].last = wire[r].last
        /\ \A q \in Requests \ {r} : wire'[q] = wire[q]
    BY <1>a, <2>5, <2>7 DEF Wires
  <2> QED
    BY <1>a, <2>1, <2>4, <2>6, <2>8 DEF StreamInv
<1>5. ASSUME NEW r \in Requests, HeartbeatWritten(r) PROVE StreamInv'
  <2> DEFINE late == wire[r].late \/ wire[r].last # "progress"
  <2>1. /\ hb[r] = "writing" /\ hb' = [hb EXCEPT ![r] = "waiting"] /\ UNCHANGED gen
        /\ wire' = [wire EXCEPT ![r].late = late] /\ late \in BOOLEAN
    BY <1>5 DEF HeartbeatWritten
  <2>2. r \in Streams => ~late
    BY <2>1 DEF StreamInv
  <2> HIDE DEF late
  <2>3. wire'[r] = [wire[r] EXCEPT !.late = late]
    BY <1>a, <2>1, LateIs
  <2>4. /\ wire'[r].late = late /\ wire'[r].last = wire[r].last
        /\ \A q \in Requests \ {r} : wire'[q] = wire[q] /\ hb'[q] = hb[q]
    BY <1>a, <2>1, <2>3 DEF Wires
  <2> QED
    BY <1>a, <2>1, <2>2, <2>4 DEF StreamInv
<1>6. ASSUME NEW r \in Requests, HeartbeatFires(r) \/ HeartbeatEnds(r) PROVE StreamInv'
  <2>1. /\ hb[r] = "waiting" /\ UNCHANGED <<gen, wire>>
        /\ hb' = [hb EXCEPT ![r] = "writing"] \/ hb' = [hb EXCEPT ![r] = "gone"]
    BY <1>6 DEF HeartbeatFires, HeartbeatEnds
  <2>2. \A q \in Requests : hb'[q] \in {"waiting", "writing"} => hb[q] \in {"waiting", "writing"}
    BY <1>a, <2>1
  <2> QED
    BY <1>a, <2>1, <2>2 DEF StreamInv
<1>7. ASSUME UNCHANGED <<gen, hb, wire>> PROVE StreamInv'
  BY <1>7 DEF StreamInv
<1>8. ASSUME NEW r \in Requests, Cancelled(r) PROVE StreamInv'
  BY <1>7, <1>8 DEF Cancelled
<1>9. ASSUME NEW p \in Providers, CoolsOff(p) PROVE StreamInv'
  BY <1>7, <1>9 DEF CoolsOff
<1>10. CASE CacheExpires \/ UNCHANGED genVars
  BY <1>7, <1>10 DEF CacheExpires, genVars
<1> QED
  BY <1>1, <1>2, <1>3, <1>4, <1>5, <1>6, <1>8, <1>9, <1>10 DEF GenNext, GenStep, Heartbeat

\* However the heartbeat, the cancelling of the request and its end interleave, no event
\* follows "done" on the wire: the goroutine is joined before it is emitted, and the
\* error that handleSSEStream repeats follows an error.
THEOREM NothingAfterDone == GenSpec => []DoneIsLast
<1>1. GenInit => StreamInv
  BY DEF GenInit, StreamInv, Requests
<1>2. StreamInv => DoneIsLast
  BY DEF StreamInv, DoneIsLast
<1> QED
  BY <1>1, <1>2, GenTypesInvariant, StreamNext, PTL DEF GenSpec

-----------------------------------------------------------------------------
(* The ledger. *)

\* Every request is accounted for.
LedgerInv == \A r \in Requests : Accounted(gen[r], r \in gone)

LEMMA LedgerNext == GenTypes /\ LedgerInv /\ [GenNext]_genVars => LedgerInv'
<1> SUFFICES ASSUME GenTypes, LedgerInv, [GenNext]_genVars PROVE LedgerInv'
  OBVIOUS
<1>a. gen \in [Requests -> Progresses] /\ gone \subseteq Requests
  BY DEF GenTypes
<1>b. ASSUME NEW r \in Requests, NEW g \in Progresses, gen' = [gen EXCEPT ![r] = g],
             UNCHANGED gone, Accounted(g, r \in gone)
      PROVE  LedgerInv'
  <2>1. \A q \in Requests : Accounted(gen'[q], q \in gone)
    BY <1>a, <1>b DEF LedgerInv
  <2> QED
    BY <1>b, <2>1 DEF LedgerInv, Accounted
<1>1. ASSUME NEW r \in Requests, Begins(r) PROVE LedgerInv'
  <2> DEFINE g == [gen[r] EXCEPT !.at = "wardrobe"]
  <2>1. gen' = [gen EXCEPT ![r] = g] /\ gen[r].at = "new" /\ UNCHANGED gone
    BY <1>a, <1>1 DEF Begins, Moves
  <2>2. gen[r] \in Progresses /\ "wardrobe" \in Stages
    BY <1>a DEF Stages
  <2>3. g \in Progresses /\ g.at = "wardrobe"
    BY <2>2, AtIs, Zenon
  <2>4. Accounted(gen[r], r \in gone)
    BY DEF LedgerInv
  <2>5. g.by = gen[r].by /\ g.err = gen[r].err /\ g.booked = gen[r].booked
    BY <2>2 DEF Progresses
  <2> HIDE DEF g
  <2>6. Accounted(g, r \in gone)
    BY <2>1, <2>3, <2>4, <2>5 DEF Accounted, Early
  <2> QED
    BY <1>b, <2>1, <2>3, <2>6
<1>2. ASSUME NEW r \in Requests,
             \/ ReadsWardrobe(r) \/ LooksUpCache(r) \/ PassesGate(r) \/ PicksRoute(r)
             \/ RoutedAnswers(r) \/ Seeks(r) \/ CascadeAnswers(r) \/ Records(r) \/ BuildsBatch(r)
      PROVE  LedgerInv'
  <2>1. Advance(r) /\ UNCHANGED gone
    BY <1>2, StepMoves
  <2>2. Accounted(gen[r], r \in gone)
    BY DEF LedgerInv
  <2> QED
    BY <1>b, <2>1, <2>2 DEF Advance
<1>3. ASSUME NEW r \in Requests, Ends(r) PROVE LedgerInv'
  <2>1. gen[r] \in Progresses /\ gen' = [gen EXCEPT ![r] = Answered(gen[r])] /\ UNCHANGED gone
    BY <1>a, <1>3 DEF Ends
  <2>2. Answered(gen[r]) \in Progresses /\ Answered(gen[r]).at \in {"failed", "over"}
    BY <2>1, AnsweredIs
  <2>3. Accounted(Answered(gen[r]), r \in gone)
    BY <2>2 DEF Accounted, Early
  <2> QED
    BY <1>b, <2>1, <2>2, <2>3
<1>4. ASSUME NEW r \in Requests, RepeatsError(r) PROVE LedgerInv'
  <2> DEFINE g == [gen[r] EXCEPT !.at = "over"]
  <2>1. gen' = [gen EXCEPT ![r] = g] /\ UNCHANGED gone
    BY <1>a, <1>4 DEF RepeatsError, Moves
  <2>2. gen[r] \in Progresses /\ "over" \in Stages
    BY <1>a DEF Stages
  <2>3. g \in Progresses /\ g.at = "over"
    BY <2>2, AtIs, Zenon
  <2> HIDE DEF g
  <2>4. Accounted(g, r \in gone)
    BY <2>3 DEF Accounted, Early
  <2> QED
    BY <1>b, <2>1, <2>3, <2>4
<1>5. ASSUME NEW r \in Requests, Cancelled(r) PROVE LedgerInv'
  <2>1. UNCHANGED gen /\ gone' = gone \cup {r}
    BY <1>5 DEF Cancelled
  <2> QED
    BY <2>1 DEF LedgerInv, Accounted
<1>6. ASSUME UNCHANGED <<gen, gone>> PROVE LedgerInv'
  BY <1>6 DEF LedgerInv, Accounted
<1>7. ASSUME NEW r \in Requests, Heartbeat(r) PROVE LedgerInv'
  BY <1>6, <1>7 DEF Heartbeat, HeartbeatFires, HeartbeatWritten, HeartbeatEnds
<1>8. ASSUME NEW p \in Providers, CoolsOff(p) PROVE LedgerInv'
  BY <1>6, <1>8 DEF CoolsOff
<1>9. CASE CacheExpires \/ UNCHANGED genVars
  BY <1>6, <1>9 DEF CacheExpires, genVars
<1> QED
  BY <1>1, <1>2, <1>3, <1>4, <1>5, <1>7, <1>8, <1>9 DEF GenNext, GenStep

\* The batch a provider was paid for is booked under that provider, for every chain,
\* routing table and past of the health tracker: neither the Usage of a routed call
\* that failed nor that of an earlier provider of the chain takes its place.
THEOREM ServedAlwaysBooked == GenSpec => []ServedIsBooked
<1>1. GenInit => LedgerInv
  BY DEF GenInit, LedgerInv, Accounted, Early
<1>2. LedgerInv => ServedIsBooked
  BY DEF LedgerInv, Accounted, ServedIsBooked
<1> QED
  BY <1>1, <1>2, GenTypesInvariant, LedgerNext, PTL DEF GenSpec
=============================================================================
