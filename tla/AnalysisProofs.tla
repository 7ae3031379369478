--------------------------- MODULE AnalysisProofs ---------------------------
(***************************************************************************)
(* What the analysis promises of single comparisons, merges and            *)
(* pseudonyms, whatever the clocks, the resolutions and the values are, and*)
(* of the order and the blind spots of a session, whatever happens in it.  *)
(***************************************************************************)
EXTENDS SessionAnalysis, FiniteSetTheorems, WellFoundedInduction, TLAPS

(* What a sighting is compared by.                                         *)
Stamped(o) == o.ordinal \in Int /\ o.moment \in Int /\ o.seq \in Int /\ o.wall \in Int

Opposite == [precedes |-> "contradicted", contradicted |-> "precedes", ambiguous |-> "ambiguous"]

-----------------------------------------------------------------------------
(* A comparison by a clock, seen from the other side.                      *)
LEMMA ClockOpposite ==
    ASSUME NEW method, NEW delta \in Int, NEW unsure \in Nat
    PROVE  ByClock(method, -delta, unsure).relation
               = Opposite[ByClock(method, delta, unsure).relation]
<1>1. delta \in (-unsure)..unsure <=> -delta \in (-unsure)..unsure
  OBVIOUS
<1>2. delta \notin (-unsure)..unsure => (delta > 0 <=> ~(-delta > 0))
  OBVIOUS
<1>3. QED
  BY <1>1, <1>2 DEF ByClock, Relation, Opposite

(* Two sightings are compared by the same evidence in both directions, and *)
(* the verdicts agree: of a producer that precedes its consumer the reverse*)
(* is contradicted, so that no dependency is ever drawn both ways on a     *)
(* proven order (correlation.py:173-223).                                  *)
THEOREM CompareOpposite ==
    ASSUME NEW a, NEW b, Stamped(a), Stamped(b)
    PROVE  CompareSightings(b, a).relation = Opposite[CompareSightings(a, b).relation]
<1>1. a.moment - b.moment = -(b.moment - a.moment) /\ a.wall - b.wall = -(b.wall - a.wall)
  BY DEF Stamped
<1>2. b.moment - a.moment \in Int /\ b.wall - a.wall \in Int
  BY DEF Stamped
<1>3. SameDocument(a, b) <=> SameDocument(b, a)
  BY DEF SameDocument
<1>4. CASE SameDocument(a, b) /\ a.world = b.world
  <2>1. CompareSightings(a, b) = Relation("probe_ordinal", a.ordinal = b.ordinal,
                                          a.ordinal < b.ordinal, b.moment - a.moment)
    BY <1>4 DEF CompareSightings
  <2>2. CompareSightings(b, a) = Relation("probe_ordinal", b.ordinal = a.ordinal,
                                          b.ordinal < a.ordinal, a.moment - b.moment)
    <3>1. SameDocument(b, a) /\ b.world = a.world
      BY <1>3, <1>4
    <3>2. QED
      BY <3>1 DEF CompareSightings
  <2>3. a.ordinal \in Int /\ b.ordinal \in Int
    BY DEF Stamped
  <2>4. Relation("probe_ordinal", b.ordinal = a.ordinal, b.ordinal < a.ordinal, a.moment - b.moment).relation
            = Opposite[Relation("probe_ordinal", a.ordinal = b.ordinal, a.ordinal < b.ordinal,
                                b.moment - a.moment).relation]
    BY <2>3 DEF Relation, Opposite
  <2>5. QED
    BY <2>1, <2>2, <2>4, Zenon
<1>5. CASE SameDocument(a, b) /\ a.world # b.world
  <2>1. CompareSightings(a, b) = ByClock("same_document_clock", b.moment - a.moment, Resolution)
    BY <1>5 DEF CompareSightings
  <2>2. CompareSightings(b, a) = ByClock("same_document_clock", -(b.moment - a.moment), Resolution)
    BY <1>1, <1>3, <1>5 DEF CompareSightings
  <2>3. QED
    BY <1>2, <2>1, <2>2, ClockOpposite, ClockAssumption
<1>6. CASE ~SameDocument(a, b) /\ a.source = b.source /\ a.world = b.world
  <2>1. CompareSightings(a, b) = Relation("same_source_seq", a.seq = b.seq, a.seq < b.seq,
                                          b.wall - a.wall)
    BY <1>6 DEF CompareSightings
  <2>2. CompareSightings(b, a) = Relation("same_source_seq", b.seq = a.seq, b.seq < a.seq,
                                          a.wall - b.wall)
    <3>1. ~SameDocument(b, a) /\ b.source = a.source /\ b.world = a.world
      BY <1>3, <1>6
    <3>2. QED
      BY <3>1 DEF CompareSightings
  <2>3. a.seq \in Int /\ b.seq \in Int
    BY DEF Stamped
  <2>4. Relation("same_source_seq", b.seq = a.seq, b.seq < a.seq, a.wall - b.wall).relation
            = Opposite[Relation("same_source_seq", a.seq = b.seq, a.seq < b.seq,
                                b.wall - a.wall).relation]
    BY <2>3 DEF Relation, Opposite
  <2>5. QED
    BY <2>1, <2>2, <2>4, Zenon
<1>7. CASE ~SameDocument(a, b) /\ ~(a.source = b.source /\ a.world = b.world)
  <2>1. CompareSightings(a, b) = ByClock("wall_clock", b.wall - a.wall, Tolerance)
    BY <1>7 DEF CompareSightings
  <2>2. CompareSightings(b, a) = ByClock("wall_clock", -(b.wall - a.wall), Tolerance)
    BY <1>1, <1>3, <1>7 DEF CompareSightings
  <2>3. QED
    BY <1>2, <2>1, <2>2, ClockOpposite, ClockAssumption
<1>8. QED
  BY <1>4, <1>5, <1>6, <1>7

-----------------------------------------------------------------------------
(* An edge, by what a merge of repeats looks at.                           *)
Weighed(e) ==
    /\ DOMAIN e = {"from", "to", "relation", "method", "delta", "confidence", "mechanism",
                   "uniqueness", "repeats", "cites"}
    /\ e.relation \in {"precedes", "ambiguous"}
    /\ e.confidence \in 0..990 /\ e.repeats \in Nat \ {0}
    /\ e.relation = "ambiguous" => e.confidence <= AmbiguousCeiling

(* Its numbers.                                                            *)
LEMMA WeighedNumbers ==
    ASSUME NEW e, Weighed(e)
    PROVE  e.confidence \in Nat /\ e.confidence <= 990 /\ e.repeats \in Nat
<1>1. e.confidence \in 0..990 /\ e.repeats \in Nat \ {0}
  BY DEF Weighed
<1>2. QED
  BY <1>1

(* What is known of a relationship stays within its bounds however often it*)
(* is seen again: a repeat never makes it worth less, never loses a proven *)
(* order or evidence, and never lifts a relationship without a proven order*)
(* above the ceiling (correlation.py:516-552).                             *)
THEOREM AgainBounded ==
    ASSUME NEW known, NEW edge, Weighed(known), Weighed(edge)
    PROVE  LET joined == Again(known, edge)
           IN  /\ Weighed(joined)
               /\ joined.confidence >= known.confidence
               /\ known.relation = "precedes" => joined.relation = "precedes"
               /\ known.cites \subseteq joined.cites /\ edge.cites \subseteq joined.cites
<1>0. known.confidence \in Nat /\ edge.confidence \in Nat
      /\ known.confidence <= 990 /\ known.repeats \in Nat
  BY WeighedNumbers
<1> DEFINE joined == Again(known, edge)
           order == IF edge.relation = "precedes" THEN edge ELSE known
           ceiling == IF order.relation = "ambiguous" THEN AmbiguousCeiling ELSE 990
           best == Greater(known.confidence, edge.confidence)
           sum == best + 30 * known.repeats
<1>1. /\ DOMAIN joined = DOMAIN known
      /\ joined.repeats = known.repeats + 1
      /\ joined.cites = known.cites \cup edge.cites
      /\ joined.relation = order.relation
      /\ joined.confidence = Lesser(ceiling, sum)
  BY DEF Again, Weighed
<1>2. order.relation \in {"precedes", "ambiguous"}
  BY DEF Weighed
<1>3. known.relation = "precedes" => order.relation = "precedes"
  OBVIOUS
<1>4. order.relation = "ambiguous" => known.relation = "ambiguous" /\ edge.relation = "ambiguous"
  BY DEF Weighed
<1>5. ceiling \in Nat /\ ceiling <= 990
  BY DEF AmbiguousCeiling
<1>6. known.confidence <= ceiling
  BY <1>0, <1>2, <1>4 DEF Weighed
<1>7. best \in Nat /\ known.confidence <= best
  BY <1>0 DEF Greater
<1>8. sum \in Nat /\ known.confidence <= sum
  <2>. HIDE DEF best
  <2>1. QED
    BY <1>0, <1>7
<1>9. Lesser(ceiling, sum) \in 0..ceiling /\ known.confidence <= Lesser(ceiling, sum)
  <2>. HIDE DEF ceiling, sum
  <2>1. QED
    BY <1>0, <1>5, <1>6, <1>8 DEF Lesser
<1>10. joined.confidence \in 0..990
       /\ (order.relation = "ambiguous" => joined.confidence <= AmbiguousCeiling)
  BY <1>1, <1>9 DEF AmbiguousCeiling
<1>11. Weighed(joined)
  <2>. HIDE DEF joined, order, ceiling, sum
  <2>1. joined.repeats \in Nat \ {0}
    BY <1>1 DEF Weighed
  <2>2. QED
    BY <1>1, <1>2, <1>10, <2>1 DEF Weighed
<1>. HIDE DEF joined, order, ceiling, sum
<1>12. QED
  BY <1>1, <1>3, <1>9, <1>11 DEF joined

-----------------------------------------------------------------------------
(* The pseudonyms that are given are numbered within their kind.           *)
Numbered(p) ==
    /\ \A k \in DOMAIN p.counters : p.counters[k] \in Nat
    /\ \A v \in DOMAIN p.assigned :
          \E k \in DOMAIN p.counters, n \in Nat :
              p.assigned[v] = <<k, n>> /\ n <= p.counters[k]
    /\ \A v, w \in DOMAIN p.assigned : p.assigned[v] = p.assigned[w] => v = w

(* It begins with none.                                                    *)
LEMMA NoneNumbered == Numbered(NoPseudonyms)
BY DEF Numbered, NoPseudonyms

(* Two values never share a pseudonym, however many are replaced and in    *)
(* whichever order, and a value keeps the one it has: what is exported     *)
(* tells apart what the session told apart (redact.py:106-113).             *)
THEOREM PseudonymsApart ==
    ASSUME NEW p, NEW value, NEW kind, Numbered(p)
    PROVE  /\ Numbered(WithPseudonym(p, value, kind))
           /\ \A v \in DOMAIN p.assigned :
                 /\ v \in DOMAIN WithPseudonym(p, value, kind).assigned
                 /\ WithPseudonym(p, value, kind).assigned[v] = p.assigned[v]
<1>1. CASE value \in DOMAIN p.assigned
  BY <1>1 DEF WithPseudonym
<1>2. CASE value \notin DOMAIN p.assigned
  <2> DEFINE n == 1 + (IF kind \in DOMAIN p.counters THEN p.counters[kind] ELSE 0)
             after == WithPseudonym(p, value, kind)
  <2>1. n \in Nat
    BY DEF Numbered
  <2>2. /\ after.assigned = Put(p.assigned, value, <<kind, n>>)
        /\ after.counters = Put(p.counters, kind, n)
    BY <1>2 DEF WithPseudonym
  <2>. HIDE DEF after
  <2>3. /\ DOMAIN after.assigned = DOMAIN p.assigned \cup {value}
        /\ after.assigned[value] = <<kind, n>>
        /\ \A v \in DOMAIN p.assigned : after.assigned[v] = p.assigned[v]
    <3>. HIDE DEF n
    <3>1. QED
      BY <1>2, <2>2 DEF Put
  <2>4. /\ DOMAIN after.counters = DOMAIN p.counters \cup {kind}
        /\ after.counters[kind] = n
        /\ \A k \in DOMAIN p.counters : k # kind => after.counters[k] = p.counters[k]
    <3>. HIDE DEF n
    <3>1. QED
      BY <2>2 DEF Put
  <2>5. \A k \in DOMAIN after.counters : after.counters[k] \in Nat
    <3>. HIDE DEF n
    <3>1. QED
      BY <2>1, <2>4 DEF Numbered
  <2>6. kind \in DOMAIN p.counters => p.counters[kind] \in Nat /\ p.counters[kind] < n
    BY DEF Numbered
  <2>. HIDE DEF n
  <2>7. ASSUME NEW v \in DOMAIN p.assigned
        PROVE  /\ \E k \in DOMAIN after.counters, m \in Nat :
                      after.assigned[v] = <<k, m>> /\ m <= after.counters[k]
               /\ after.assigned[v] # <<kind, n>>
    <3>1. PICK k \in DOMAIN p.counters, m \in Nat :
                  p.assigned[v] = <<k, m>> /\ m <= p.counters[k]
      BY <2>7 DEF Numbered
    <3>2. p.counters[k] \in Nat
      BY DEF Numbered
    <3>3. k \in DOMAIN after.counters /\ m <= after.counters[k]
      BY <2>1, <2>4, <2>6, <3>1, <3>2
    <3>4. after.assigned[v] = <<k, m>>
      BY <2>3, <3>1
    <3>5. ~(k = kind /\ m = n)
      BY <2>1, <2>6, <3>1, <3>2
    <3>6. QED
      BY <3>3, <3>4, <3>5
  <2>8. \A v \in DOMAIN after.assigned :
            \E k \in DOMAIN after.counters, m \in Nat :
                after.assigned[v] = <<k, m>> /\ m <= after.counters[k]
    BY <2>1, <2>3, <2>4, <2>7
  <2>9. \A v, w \in DOMAIN after.assigned : after.assigned[v] = after.assigned[w] => v = w
    BY <2>3, <2>7 DEF Numbered
  <2>10. QED
    BY <2>3, <2>5, <2>8, <2>9 DEF Numbered, after
<1>3. QED
  BY <1>1, <1>2

-----------------------------------------------------------------------------
(* The order of a page's records.  What the probes have observed, logged or*)
(* held, is told by where and when it was observed; being logged changes   *)
(* only its place and its wall clock.                                      *)
Probed == {e \in ToSet(log) : FromProbe(e)} \cup UNION {ToSet(held[p]) : p \in Pages}

Copy(r, s) ==
    /\ r.source = s.source /\ r.page = s.page /\ r.doc = s.doc /\ r.world = s.world
    /\ r.ordinal = s.ordinal /\ r.moment = s.moment /\ r.turn = s.turn

TimeInv ==
    /\ session \in DOMAIN Sessions
    /\ now \in Nat /\ turn \in Nat
    /\ doc \in [Pages -> Nat]
    /\ counted \in [Pages -> [Worlds -> Nat]]
    /\ due \in [Pages -> Nat]
    /\ DOMAIN held = Pages
    /\ \A e \in waiting : Complete(e) /\ ~FromProbe(e) /\ e.page \in Pages

(* A record was observed before now, in a document that was loaded, and no *)
(* ordinal is beyond what its document's world has counted.                *)
RecordOK(r) ==
    /\ Complete(r) /\ FromProbe(r) /\ r.page \in Pages /\ r.world \in Worlds
    /\ r.ordinal \in Nat /\ r.moment \in Nat /\ r.turn \in Nat /\ r.doc \in Nat
    /\ r.turn <= turn /\ r.moment <= now /\ r.doc <= doc[r.page]
    /\ r.doc = doc[r.page] => r.ordinal <= counted[r.page][r.world]

(* The ordinals of a world, the clock and the documents of a page all go   *)
(* with what happened.                                                     *)
Ordered(r, s) ==
    /\ r.page = s.page /\ r.doc = s.doc /\ r.world = s.world /\ r.ordinal < s.ordinal
           => r.turn < s.turn
    /\ r.moment < s.moment => r.turn < s.turn
    /\ r.page = s.page /\ r.doc < s.doc => r.turn < s.turn

RecordInv == \A r \in Probed : RecordOK(r)
OrderInv == \A r, s \in Probed : Ordered(r, s)

HeldInv ==
    \A p \in Pages : /\ held[p] \in Seq(ToSet(held[p]))
                     /\ \A r \in ToSet(held[p]) : r.page = p /\ r.doc = doc[p]

(* The log is in the order of its seq, and what a page's documents observed*)
(* is logged document after document.                                      *)
ByDocument(events) ==
    \A i, j \in DOMAIN events :
        i < j /\ FromProbe(events[i]) /\ FromProbe(events[j]) /\ events[i].page = events[j].page
            => events[i].doc <= events[j].doc
LogInv ==
    /\ log \in Seq(ToSet(log))
    /\ \A i \in DOMAIN log : log[i].seq = i /\ Complete(log[i])
    /\ ByDocument(log)

TimelineInv == TimeInv /\ RecordInv /\ OrderInv /\ HeldInv /\ LogInv

(* What is stamped is the same observation.                                *)
LEMMA StampCopies ==
    ASSUME NEW e, NEW n, NEW t, Complete(e)
    PROVE  Copy(Stamp(e, n, t), e) /\ Stamp(e, n, t).seq = n /\ Complete(Stamp(e, n, t))
BY DEF Copy, Stamp, Complete, Fields

(* What is ordered stays so when it is logged.                             *)
LEMMA CopyOrdered ==
    ASSUME NEW r, NEW s, NEW r1, NEW s1, Copy(r, r1), Copy(s, s1), Ordered(r1, s1)
    PROVE  Ordered(r, s)
BY DEF Copy, Ordered

(* The log with some events more.                                          *)
LEMMA LoggedIs ==
    ASSUME LogInv, NEW events, events \in Seq(ToSet(events)), NEW time,
           \A k \in DOMAIN events : Complete(events[k])
    PROVE  LET after == Logged(events, time)
           IN  /\ after \in Seq(ToSet(after))
               /\ Len(log) \in Nat /\ Len(events) \in Nat
               /\ DOMAIN log = 1..Len(log) /\ DOMAIN events = 1..Len(events)
               /\ DOMAIN after = 1..Len(log) + Len(events)
               /\ \A i \in 1..Len(log) : after[i] = log[i]
               /\ \A k \in 1..Len(events) :
                     after[Len(log) + k] = Stamp(events[k], Len(log) + k, time)
<1> DEFINE added == [k \in 1..Len(events) |-> Stamp(events[k], Len(log) + k, time)]
           after == Logged(events, time)
           S == ToSet(log) \cup {added[k] : k \in 1..Len(events)}
<1>1. /\ Len(log) \in Nat /\ Len(events) \in Nat
      /\ DOMAIN log = 1..Len(log) /\ DOMAIN events = 1..Len(events)
  BY DEF LogInv
<1>2. log \in Seq(S)
  BY DEF LogInv, ToSet
<1>3. added \in Seq(S) /\ Len(added) = Len(events)
  BY <1>1
<1>4. after = log \o added
  BY DEF Logged
<1> HIDE DEF after, S
<1>5. /\ after \in Seq(S) /\ DOMAIN after = 1..Len(log) + Len(events)
      /\ Len(after) = Len(log) + Len(events)
  BY <1>1, <1>2, <1>3, <1>4
<1>6. \A i \in 1..Len(log) : after[i] = log[i]
  BY <1>1, <1>2, <1>3, <1>4
<1>7. \A k \in 1..Len(events) : after[Len(log) + k] = added[k]
  BY <1>1, <1>2, <1>3, <1>4
<1>8. after \in Seq(ToSet(after))
  BY <1>5 DEF ToSet
<1>9. QED
  BY <1>1, <1>5, <1>6, <1>7, <1>8 DEF after

(* Logging keeps the order of the log if what is logged is no older than   *)
(* what is there, and brings nothing but copies.                           *)
LEMMA LoggedOK ==
    ASSUME LogInv, NEW events, events \in Seq(ToSet(events)), NEW time,
           \A k \in DOMAIN events :
               Complete(events[k]) /\ (FromProbe(events[k]) => events[k].doc \in Nat),
           \A r \in ToSet(log) : FromProbe(r) => r.doc \in Nat,
           ByDocument(events),
           \A k \in DOMAIN events, r \in ToSet(log) :
               FromProbe(events[k]) /\ FromProbe(r) /\ r.page = events[k].page
                   => r.doc <= events[k].doc,
           log' = Logged(events, time)
    PROVE  /\ LogInv'
           /\ \A r \in ToSet(log') : /\ Complete(r)
                                     /\ \/ r \in ToSet(log)
                                        \/ \E e \in ToSet(events) : Copy(r, e)
<1> DEFINE old == Len(log)
           new == Len(events)
<1>1. /\ log' \in Seq(ToSet(log')) /\ old \in Nat /\ new \in Nat
      /\ DOMAIN log = 1..old /\ DOMAIN events = 1..new /\ DOMAIN log' = 1..old + new
      /\ \A i \in 1..old : log'[i] = log[i]
      /\ \A k \in 1..new : log'[old + k] = Stamp(events[k], old + k, time)
  BY LoggedIs
<1> HIDE DEF old, new
<1>2. ASSUME NEW i \in 1..old + new, i \notin 1..old
      PROVE  /\ i - old \in 1..new /\ i - old \in DOMAIN events
             /\ Copy(log'[i], events[i - old]) /\ log'[i].seq = i /\ Complete(log'[i])
  <2>1. i - old \in 1..new /\ old + (i - old) = i
    BY <1>1, <1>2
  <2>2. log'[i] = Stamp(events[i - old], i, time)
    BY <1>1, <2>1
  <2>3. QED
    BY <1>1, <2>1, <2>2, StampCopies
<1>3. \A i \in DOMAIN log' : log'[i].seq = i /\ Complete(log'[i])
  <2>1. \A i \in 1..old : log'[i].seq = i /\ Complete(log'[i])
    BY <1>1 DEF LogInv
  <2>2. QED
    BY <1>1, <1>2, <2>1
<1>4. ASSUME NEW i \in DOMAIN log', NEW j \in DOMAIN log', i < j,
             FromProbe(log'[i]), FromProbe(log'[j]), log'[i].page = log'[j].page
      PROVE  log'[i].doc <= log'[j].doc
  <2>1. CASE j \in 1..old
    <3>1. i \in 1..old
      BY <1>1, <1>4, <2>1
    <3>2. i \in DOMAIN log /\ j \in DOMAIN log /\ log'[i] = log[i] /\ log'[j] = log[j]
      BY <1>1, <2>1, <3>1
    <3>3. QED
      BY <1>4, <3>2 DEF LogInv, ByDocument
  <2>2. CASE i \in 1..old /\ j \notin 1..old
    <3>1. log'[i] = log[i] /\ log[i] \in ToSet(log)
      BY <1>1, <2>2 DEF ToSet
    <3>2. j - old \in DOMAIN events /\ Copy(log'[j], events[j - old])
      BY <1>1, <1>2, <2>2
    <3>3. QED
      BY <1>4, <3>1, <3>2 DEF Copy, FromProbe
  <2>3. CASE i \notin 1..old
    <3>1. j \notin 1..old /\ i - old < j - old
      BY <1>1, <1>4, <2>3
    <3>2. /\ i - old \in DOMAIN events /\ Copy(log'[i], events[i - old])
          /\ j - old \in DOMAIN events /\ Copy(log'[j], events[j - old])
      BY <1>1, <1>2, <2>3, <3>1
    <3>3. QED
      BY <1>4, <3>1, <3>2 DEF Copy, FromProbe, ByDocument
  <2>4. QED
    BY <2>1, <2>2, <2>3
<1>5. LogInv'
  BY <1>1, <1>3, <1>4 DEF LogInv, ByDocument
<1>6. ASSUME NEW r \in ToSet(log')
      PROVE  Complete(r) /\ (r \in ToSet(log) \/ \E e \in ToSet(events) : Copy(r, e))
  <2>1. PICK i \in DOMAIN log' : r = log'[i]
    BY DEF ToSet
  <2>2. CASE i \in 1..old
    BY <1>1, <1>3, <2>1, <2>2 DEF ToSet
  <2>3. CASE i \notin 1..old
    <3>1. i - old \in DOMAIN events /\ Copy(r, events[i - old])
      BY <1>1, <1>2, <2>1, <2>3
    <3>2. events[i - old] \in ToSet(events)
      BY <3>1 DEF ToSet
    <3>3. QED
      BY <1>3, <2>1, <3>1, <3>2
  <2>4. QED
    BY <2>2, <2>3
<1>7. QED
  BY <1>5, <1>6

(* Two numbers that bound each other.                                      *)
LEMMA Between == \A m, n \in Nat : m <= n /\ n <= m => m = n
OBVIOUS

(* Time that goes on keeps the records in order, if there is nothing new   *)
(* but copies of them and what is observed after all of them.              *)
LEMMA RecordsKept ==
    ASSUME RecordInv, OrderInv, TimeInv,
           turn' \in Nat, now' \in Nat, turn <= turn', now <= now',
           doc' \in [Pages -> Nat], \A p \in Pages : doc[p] <= doc'[p],
           counted' \in [Pages -> [Worlds -> Nat]],
           \A p \in Pages, w \in Worlds : doc'[p] = doc[p] => counted[p][w] <= counted'[p][w],
           NEW New,
           \A x \in New : RecordOK(x)',
           \A x, y \in New : Ordered(x, y),
           \A x \in New, r \in Probed : Ordered(x, r) /\ Ordered(r, x),
           \A r \in Probed' : Complete(r) /\ \E s \in Probed \cup New : Copy(r, s)
    PROVE  RecordInv' /\ OrderInv'
<1>1. ASSUME NEW r \in Probed PROVE RecordOK(r)'
  <2>1. RecordOK(r)
    BY DEF RecordInv
  <2> DEFINE p == r.page
             w == r.world
  <2>2. /\ Complete(r) /\ FromProbe(r) /\ p \in Pages /\ w \in Worlds
        /\ r.ordinal \in Nat /\ r.moment \in Nat /\ r.turn \in Nat /\ r.doc \in Nat
        /\ r.turn <= turn /\ r.moment <= now /\ r.doc <= doc[p]
        /\ r.doc = doc[p] => r.ordinal <= counted[p][w]
    BY <2>1 DEF RecordOK
  <2>3. /\ turn \in Nat /\ now \in Nat /\ doc[p] \in Nat /\ doc'[p] \in Nat
        /\ counted[p][w] \in Nat /\ counted'[p][w] \in Nat
    BY <2>2 DEF TimeInv
  <2>4. doc[p] <= doc'[p] /\ (doc'[p] = doc[p] => counted[p][w] <= counted'[p][w])
    BY <2>2
  <2> HIDE DEF p, w
  <2>5. r.turn <= turn' /\ r.moment <= now' /\ r.doc <= doc'[p]
    BY <2>2, <2>3, <2>4
  <2>6. ASSUME r.doc = doc'[p] PROVE r.ordinal <= counted'[p][w]
    <3>0. doc'[p] <= doc[p]
      BY <2>2, <2>6
    <3>1. doc'[p] = doc[p] /\ r.doc = doc[p]
      BY <2>3, <2>4, <2>6, <3>0, Between
    <3>2. r.ordinal <= counted[p][w] /\ counted[p][w] <= counted'[p][w]
      BY <2>2, <2>4, <3>1
    <3>3. QED
      BY <2>2, <2>3, <3>2
  <2>7. QED
    BY <2>2, <2>5, <2>6 DEF RecordOK, p, w
<1>2. \A r, s \in Probed \cup New : Ordered(r, s)
  BY DEF OrderInv
<1>3. ASSUME NEW r \in Probed' PROVE RecordOK(r)'
  <2>1. PICK s \in Probed \cup New : Copy(r, s)
    OBVIOUS
  <2>2. RecordOK(s)' /\ Complete(r)
    BY <1>1
  <2>3. QED
    BY <2>1, <2>2 DEF Copy, RecordOK, FromProbe
<1>4. ASSUME NEW r \in Probed', NEW s \in Probed' PROVE Ordered(r, s)
  <2>1. PICK r1 \in Probed \cup New : Copy(r, r1)
    OBVIOUS
  <2>2. PICK s1 \in Probed \cup New : Copy(s, s1)
    OBVIOUS
  <2>3. QED
    BY <1>2, <2>1, <2>2, CopyOrdered
<1>5. QED
  BY <1>3, <1>4 DEF RecordInv, OrderInv, Ordered

-----------------------------------------------------------------------------
(* What a log is given to keep, of the records that a page holds: they are *)
(* of its present document, and no older than any that is logged.          *)
LEMMA HeldIsYoung ==
    ASSUME TimelineInv, NEW p \in Pages
    PROVE  /\ held[p] \in Seq(ToSet(held[p]))
           /\ \A r \in ToSet(held[p]) : /\ RecordOK(r) /\ r \in Probed
                                         /\ r.page = p /\ r.doc = doc[p]
BY DEF TimelineInv, HeldInv, RecordInv, Probed

(* What is logged of a probe's has been observed.                          *)
LEMMA LoggedIsKnown ==
    ASSUME TimelineInv
    PROVE  \A r \in ToSet(log) : FromProbe(r) => r \in Probed /\ RecordOK(r)
BY DEF TimelineInv, RecordInv, Probed

(* A session begins with what is not of its probes.                        *)
LEMMA InitTimeline == Init => TimelineInv
<1> SUFFICES ASSUME Init PROVE TimelineInv
  OBVIOUS
<1>1. session \in DOMAIN Sessions /\ Regular(Sessions[session])
  BY SessionAssumption DEF Init
<1>2. TimeInv
  BY <1>1 DEF Init, TimeInv
<1>3. /\ log \in Seq({log[i] : i \in DOMAIN log})
      /\ \A i \in DOMAIN log : Complete(log[i]) /\ log[i].source # "runtime" /\ log[i].seq = i
  BY <1>1 DEF Init, Regular
<1>4. LogInv
  BY <1>3 DEF LogInv, ByDocument, FromProbe, ToSet
<1>5. Probed = {}
  BY <1>3 DEF Probed, Init, FromProbe, ToSet
<1>6. HeldInv
  BY DEF HeldInv, Init, ToSet
<1>7. QED
  BY <1>2, <1>4, <1>5, <1>6 DEF TimelineInv, RecordInv, OrderInv

(* What a thing that happens is logged with.                               *)
LEMMA HappenedIs ==
    ASSUME NEW a, NEW time, Complete(a.event)
    PROVE  LET e == Happened(a, time)
           IN  /\ Complete(e) /\ e.source = a.event.source /\ e.page = a.page
               /\ e.turn = turn + 1 /\ e.moment = time
<1>1. Complete([a.event EXCEPT !.page = a.page])
  BY DEF Complete, Fields
<1>2. QED
  BY <1>1 DEF Happened, Complete, Fields

(* What a world's observation is recorded with.                            *)
LEMMA RecordedIs ==
    ASSUME NEW a, NEW time, Complete(a.event)
    PROVE  LET e == Recorded(a, time)
           IN  /\ Complete(e) /\ e.source = a.event.source /\ e.page = a.page
               /\ e.turn = turn + 1 /\ e.moment = time /\ e.doc = doc[a.page]
               /\ e.world = a.channel /\ e.ordinal = counted[a.page][a.channel] + 1
BY HappenedIs DEF Recorded, Complete, Fields

(* Time goes on.                                                           *)
LEMMA PassesTime ==
    ASSUME TimeInv, NEW d \in Nat, Passes(d)
    PROVE  /\ now' = now + d /\ turn' = turn + 1 /\ session' = session
           /\ now' \in Nat /\ turn' \in Nat /\ turn <= turn' /\ now <= now'
BY DEF TimeInv, Passes

(* What is logged at once of a page: of the probe's records only such as   *)
(* the page held or observes now, all of its present document.             *)
LEMMA PageLogged ==
    ASSUME TimelineInv, NEW p \in Pages, NEW New, NEW time,
           NEW events, events \in Seq(ToSet(events)),
           \A e \in ToSet(events) :
               /\ Complete(e)
               /\ FromProbe(e) => e \in Probed \cup New /\ e.page = p /\ e.doc = doc[p],
           log' = Logged(events, time)
    PROVE  /\ LogInv'
           /\ \A r \in ToSet(log') :
                 FromProbe(r) => Complete(r) /\ \E s \in Probed \cup New : Copy(r, s)
<1>1. doc[p] \in Nat /\ LogInv
  BY DEF TimelineInv, TimeInv
<1>2. \A k \in DOMAIN events : events[k] \in ToSet(events)
  BY DEF ToSet
<1>3. \A k \in DOMAIN events :
          /\ Complete(events[k])
          /\ FromProbe(events[k]) => /\ events[k] \in Probed \cup New
                                     /\ events[k].page = p /\ events[k].doc = doc[p]
  BY <1>2
<1>4. \A r \in ToSet(log) : FromProbe(r) => r \in Probed /\ RecordOK(r)
  BY LoggedIsKnown
<1>5. \A r \in ToSet(log) : FromProbe(r) => r.doc \in Nat /\ r.doc <= doc[r.page]
  BY <1>4 DEF RecordOK
<1>6. ByDocument(events)
  BY <1>1, <1>3 DEF ByDocument
<1>7. /\ LogInv'
      /\ \A r \in ToSet(log') : /\ Complete(r)
                                /\ \/ r \in ToSet(log)
                                   \/ \E e \in ToSet(events) : Copy(r, e)
  <2>1. /\ \A k \in DOMAIN events :
               Complete(events[k]) /\ (FromProbe(events[k]) => events[k].doc \in Nat)
        /\ \A r \in ToSet(log) : FromProbe(r) => r.doc \in Nat
        /\ \A k \in DOMAIN events, r \in ToSet(log) :
               FromProbe(events[k]) /\ FromProbe(r) /\ r.page = events[k].page
                   => r.doc <= events[k].doc
    BY <1>1, <1>3, <1>5
  <2>2. QED
    BY <1>1, <1>6, <2>1, LoggedOK
<1>8. ASSUME NEW r \in ToSet(log'), FromProbe(r) PROVE \E s \in Probed \cup New : Copy(r, s)
  <2>1. CASE r \in ToSet(log)
    BY <1>4, <1>8, <2>1 DEF Copy
  <2>2. ASSUME NEW e \in ToSet(events), Copy(r, e) PROVE e \in Probed \cup New
    BY <1>8, <2>2 DEF Copy, FromProbe
  <2>3. QED
    BY <1>7, <2>1, <2>2
<1>9. QED
  BY <1>7, <1>8

(* The same of a step that observes nothing of a probe's.                  *)
LEMMA SentLogged ==
    ASSUME TimelineInv, NEW p \in Pages, NEW time,
           NEW events, events \in Seq(ToSet(events)),
           \A e \in ToSet(events) :
               /\ Complete(e)
               /\ FromProbe(e) => e \in Probed /\ e.page = p /\ e.doc = doc[p],
           log' = Logged(events, time)
    PROVE  /\ LogInv'
           /\ \A r \in ToSet(log') :
                 FromProbe(r) => Complete(r) /\ \E s \in Probed : Copy(r, s)
<1> DEFINE New == {}
<1>1. Probed \cup New = Probed
  OBVIOUS
<1> HIDE DEF New
<1>2. \A e \in ToSet(events) :
          /\ Complete(e)
          /\ FromProbe(e) => e \in Probed \cup New /\ e.page = p /\ e.doc = doc[p]
  BY <1>1
<1>3. /\ LogInv'
      /\ \A r \in ToSet(log') :
            FromProbe(r) => Complete(r) /\ \E s \in Probed \cup New : Copy(r, s)
  BY <1>2, PageLogged
<1>4. QED
  BY <1>1, <1>3

(* The same of a step that logs nothing.                                   *)
LEMMA NothingLogged ==
    ASSUME TimelineInv, log' = log
    PROVE  /\ LogInv'
           /\ \A r \in ToSet(log') :
                 FromProbe(r) => Complete(r) /\ \E s \in Probed : Copy(r, s)
<1>1. LogInv' /\ ToSet(log') = ToSet(log)
  BY DEF TimelineInv, LogInv
<1>2. \A r \in ToSet(log) : FromProbe(r) => r \in Probed /\ RecordOK(r)
  BY LoggedIsKnown
<1>3. QED
  BY <1>1, <1>2 DEF RecordOK, Copy

(* After a step there is nothing but copies of what was observed.          *)
LEMMA ProbedStep ==
    ASSUME TimelineInv, NEW New, \A x \in New : Complete(x),
           \A r \in ToSet(log') :
                 FromProbe(r) => Complete(r) /\ \E s \in Probed \cup New : Copy(r, s),
           \A q \in Pages : ToSet(held'[q]) \subseteq ToSet(held[q]) \cup New
    PROVE  \A r \in Probed' : Complete(r) /\ \E s \in Probed \cup New : Copy(r, s)
<1>1. ASSUME NEW q \in Pages, NEW r \in ToSet(held'[q])
      PROVE  Complete(r) /\ \E s \in Probed \cup New : Copy(r, s)
  <2>1. r \in Probed \cup New
    BY DEF Probed
  <2>2. Complete(r)
    BY <2>1 DEF TimelineInv, RecordInv, RecordOK
  <2>3. QED
    BY <2>1, <2>2 DEF Copy
<1>2. QED
  BY <1>1 DEF Probed, FromProbe

(* An element appended.                                                    *)
LEMMA AppendIs ==
    ASSUME NEW s, s \in Seq(ToSet(s)), NEW x
    PROVE  /\ Append(s, x) \in Seq(ToSet(Append(s, x)))
           /\ ToSet(Append(s, x)) = ToSet(s) \cup {x}
<1> DEFINE S == ToSet(s) \cup {x}
           t == Append(s, x)
<1>1. /\ s \in Seq(S) /\ t \in Seq(S) /\ Len(s) \in Nat
      /\ DOMAIN t = 1..Len(s) + 1 /\ Len(t) = Len(s) + 1
  BY DEF ToSet
<1>2. DOMAIN s = 1..Len(s) /\ (\A i \in 1..Len(s) : t[i] = s[i]) /\ t[Len(s) + 1] = x
  BY <1>1
<1> HIDE DEF t, S
<1>3. ToSet(t) = S
  <2>1. ASSUME NEW e \in S PROVE e \in ToSet(t)
    BY <1>1, <1>2 DEF S, ToSet
  <2>2. ASSUME NEW e \in ToSet(t) PROVE e \in S
    BY <1>1, <1>2 DEF S, ToSet
  <2>3. QED
    BY <2>1, <2>2
<1>4. t \in Seq(ToSet(t))
  BY <1>1, <1>3
<1>5. QED
  BY <1>3, <1>4 DEF t, S

(* A world of a page observes something.                                   *)
LEMMA ObserveKeeps ==
    ASSUME TimelineInv, NEW a \in Sessions[session].acts, NEW d \in Sessions[session].lapses,
           Observe(a, d)
    PROVE  TimelineInv'
<1>0. PICK x : x = Recorded(a, now + d)
  OBVIOUS
<1> DEFINE p == a.page
           records == Append(held[p], x)
<1>1. Regular(Sessions[session]) /\ TimeInv /\ RecordInv /\ OrderInv /\ HeldInv
  BY SessionAssumption DEF TimelineInv, TimeInv
<1>2. p \in Pages /\ Complete(a.event) /\ d \in Nat /\ a.channel \in Worlds
      /\ a.event.source = "runtime"
  BY <1>1 DEF Regular, Observe
<1>3. /\ now' = now + d /\ turn' = turn + 1 /\ session' = session
      /\ now' \in Nat /\ turn' \in Nat /\ turn <= turn' /\ now <= now'
  BY <1>1, <1>2, PassesTime DEF Observe
<1>4. /\ counted' = [counted EXCEPT ![p][a.channel] = @ + 1] /\ doc' = doc /\ waiting' = waiting
  BY DEF Observe
<1>5. /\ doc' \in [Pages -> Nat] /\ counted' \in [Pages -> [Worlds -> Nat]]
      /\ counted'[p][a.channel] = counted[p][a.channel] + 1
      /\ \A q \in Pages : doc[q] <= doc'[q]
      /\ \A q \in Pages, w \in Worlds : counted[q][w] <= counted'[q][w]
  BY <1>1, <1>2, <1>4 DEF TimeInv
<1>6. /\ Complete(x) /\ x.source = "runtime" /\ x.page = p
      /\ x.turn = turn + 1 /\ x.moment = now + d /\ x.doc = doc[p]
      /\ x.world = a.channel /\ x.ordinal = counted[p][a.channel] + 1
  BY <1>0, <1>2, RecordedIs
<1> HIDE DEF p
<1>7. RecordOK(x)'
  BY <1>1, <1>2, <1>3, <1>4, <1>5, <1>6 DEF RecordOK, FromProbe, TimeInv
<1>8. ASSUME NEW r \in Probed PROVE Ordered(x, r) /\ Ordered(r, x)
  <2>1. RecordOK(r)
    BY <1>1 DEF RecordInv
  <2>2. r.turn < x.turn /\ ~(x.moment < r.moment)
    BY <1>1, <1>2, <1>6, <2>1 DEF RecordOK, TimeInv
  <2>3. ~(r.page = x.page /\ x.doc < r.doc)
    BY <1>1, <1>2, <1>6, <2>1 DEF RecordOK, TimeInv
  <2>4. ~(r.page = x.page /\ r.doc = x.doc /\ r.world = x.world /\ x.ordinal < r.ordinal)
    <3>1. SUFFICES ASSUME r.page = x.page, r.doc = x.doc, r.world = x.world
                   PROVE  ~(x.ordinal < r.ordinal)
      OBVIOUS
    <3>2. r.ordinal <= counted[p][a.channel] /\ r.ordinal \in Nat
      BY <1>6, <2>1, <3>1 DEF RecordOK
    <3>3. counted[p][a.channel] \in Nat
      BY <1>1, <1>2 DEF TimeInv
    <3>4. QED
      BY <1>6, <3>2, <3>3
  <2>5. QED
    BY <2>2, <2>3, <2>4 DEF Ordered
<1>9. Ordered(x, x)
  BY <1>1, <1>2, <1>6 DEF Ordered, TimeInv
<1>10. /\ held[p] \in Seq(ToSet(held[p]))
       /\ \A r \in ToSet(held[p]) : /\ RecordOK(r) /\ r \in Probed
                                     /\ r.page = p /\ r.doc = doc[p]
  BY <1>2, HeldIsYoung
<1>11. records \in Seq(ToSet(records)) /\ ToSet(records) = ToSet(held[p]) \cup {x}
  BY <1>10, AppendIs
<1> HIDE DEF records
<1>12. \A e \in ToSet(records) :
          /\ Complete(e)
          /\ e \in Probed \cup {x} /\ e.page = p /\ e.doc = doc[p]
  BY <1>6, <1>10, <1>11 DEF RecordOK
<1>13. /\ LogInv'
       /\ \A r \in ToSet(log') :
             FromProbe(r) => Complete(r) /\ \E s \in Probed \cup {x} : Copy(r, s)
       /\ held' = [held EXCEPT ![p] = <<>>] \/ held' = [held EXCEPT ![p] = records]
       /\ due' \in [Pages -> Nat]
  <2>1. CASE log' = Logged(records, now + d) /\ held' = [held EXCEPT ![p] = <<>>] /\ due' = due
    BY <1>1, <1>2, <1>11, <1>12, <2>1, PageLogged DEF TimeInv
  <2>2. CASE /\ held' = [held EXCEPT ![p] = records] /\ log' = log
             /\ due' = [due EXCEPT ![p] = IF held[p] = <<>> THEN now + d + FlushInterval ELSE @]
    <3>1. due' \in [Pages -> Nat]
      BY <1>1, <1>2, <2>2, FlushAssumption DEF TimeInv
    <3>2. QED
      BY <2>2, <3>1, NothingLogged, Zenon
  <2>3. QED
    BY <1>0, <2>1, <2>2 DEF Observe, p, records
<1>14. DOMAIN held' = Pages /\ \A q \in Pages : ToSet(held'[q]) \subseteq ToSet(held[q]) \cup {x}
  <2>1. DOMAIN held = Pages
    BY <1>1 DEF TimeInv
  <2>2. ToSet(<<>>) = {}
    BY DEF ToSet
  <2>3. QED
    BY <1>2, <1>11, <1>13, <2>1, <2>2
<1>15. RecordInv' /\ OrderInv'
  <2> DEFINE New == {x}
  <2>1. /\ \A y \in New : RecordOK(y)' /\ Complete(y)
        /\ \A y, z \in New : Ordered(y, z)
        /\ \A y \in New, r \in Probed : Ordered(y, r) /\ Ordered(r, y)
    BY <1>6, <1>7, <1>8, <1>9
  <2>2. /\ \A r \in ToSet(log') :
              FromProbe(r) => Complete(r) /\ \E s \in Probed \cup New : Copy(r, s)
        /\ \A q \in Pages : ToSet(held'[q]) \subseteq ToSet(held[q]) \cup New
    BY <1>13, <1>14
  <2> HIDE DEF New
  <2>3. \A r \in Probed' : Complete(r) /\ \E s \in Probed \cup New : Copy(r, s)
    BY <2>1, <2>2, ProbedStep
  <2>4. QED
    BY <1>1, <1>3, <1>5, <2>1, <2>3, RecordsKept
<1>16. HeldInv'
  <2>1. DOMAIN held = Pages /\ ToSet(<<>>) = {} /\ <<>> \in Seq({})
    BY <1>1 DEF TimeInv, ToSet
  <2>2. ASSUME NEW q \in Pages
        PROVE  /\ held'[q] \in Seq(ToSet(held'[q]))
               /\ \A r \in ToSet(held'[q]) : r.page = q /\ r.doc = doc'[q]
    <3>1. CASE q # p
      BY <1>1, <1>2, <1>4, <1>13, <2>1, <3>1 DEF HeldInv
    <3>2. CASE q = p
      BY <1>2, <1>4, <1>11, <1>12, <1>13, <2>1, <3>2
    <3>3. QED
      BY <3>1, <3>2
  <2>3. QED
    BY <2>2 DEF HeldInv
<1>17. TimeInv'
  BY <1>1, <1>3, <1>4, <1>5, <1>13, <1>14 DEF TimeInv
<1>18. QED
  BY <1>13, <1>15, <1>16, <1>17 DEF TimelineInv

(* A step that observes nothing of a probe's: a page keeps what it holds or*)
(* has sent it.                                                            *)
LEMMA StepKeeps ==
    ASSUME TimelineInv, TimeInv', turn <= turn', now <= now',
           \A q \in Pages : doc[q] <= doc'[q],
           \A q \in Pages, w \in Worlds : doc'[q] = doc[q] => counted[q][w] <= counted'[q][w],
           \A q \in Pages : held'[q] = <<>> \/ (held'[q] = held[q] /\ doc'[q] = doc[q]),
           LogInv',
           \A r \in ToSet(log') :
               FromProbe(r) => Complete(r) /\ \E s \in Probed : Copy(r, s)
    PROVE  TimelineInv'
<1> DEFINE New == {}
<1>1. ToSet(<<>>) = {} /\ <<>> \in Seq({})
  BY DEF ToSet
<1>2. RecordInv' /\ OrderInv'
  <2>1. \A q \in Pages : ToSet(held'[q]) \subseteq ToSet(held[q]) \cup New
    BY <1>1
  <2>2. \A x \in New : FALSE
    OBVIOUS
  <2>3. \A r \in ToSet(log') :
            FromProbe(r) => Complete(r) /\ \E s \in Probed \cup New : Copy(r, s)
    OBVIOUS
  <2> HIDE DEF New
  <2>4. \A r \in Probed' : Complete(r) /\ \E s \in Probed \cup New : Copy(r, s)
    BY <2>1, <2>2, <2>3, ProbedStep
  <2>5. /\ turn' \in Nat /\ now' \in Nat /\ doc' \in [Pages -> Nat]
        /\ counted' \in [Pages -> [Worlds -> Nat]] /\ RecordInv /\ OrderInv /\ TimeInv
    BY DEF TimeInv, TimelineInv
  <2>6. QED
    BY <2>2, <2>4, <2>5, RecordsKept
<1>3. HeldInv'
  <2>1. ASSUME NEW q \in Pages
        PROVE  /\ held'[q] \in Seq(ToSet(held'[q]))
               /\ \A r \in ToSet(held'[q]) : r.page = q /\ r.doc = doc'[q]
    <3>1. CASE held'[q] = <<>>
      BY <1>1, <3>1
    <3>2. CASE held'[q] = held[q] /\ doc'[q] = doc[q]
      BY <3>2 DEF TimelineInv, HeldInv
    <3>3. QED
      BY <3>1, <3>2
  <2>2. QED
    BY <2>1 DEF HeldInv
<1>4. QED
  BY <1>2, <1>3 DEF TimelineInv

(* A log of one event.                                                     *)
LEMMA OneEvent ==
    ASSUME NEW e PROVE <<e>> \in Seq(ToSet(<<e>>)) /\ ToSet(<<e>>) = {e}
BY DEF ToSet

(* What the driver tells of is none of a probe's observations.             *)
LEMMA DriverActs ==
    ASSUME TimelineInv, NEW a \in Sessions[session].acts, NEW d \in Sessions[session].lapses,
           a.channel \notin Worlds, Passes(d)
    PROVE  /\ a.page \in Pages /\ Complete(a.event) /\ d \in Nat
           /\ Complete(Happened(a, now + d)) /\ ~FromProbe(Happened(a, now + d))
           /\ Happened(a, now + d).page = a.page
           /\ now' = now + d /\ turn' = turn + 1 /\ session' = session
           /\ now' \in Nat /\ turn' \in Nat /\ turn <= turn' /\ now <= now'
<1>1. Regular(Sessions[session]) /\ TimeInv
  BY SessionAssumption DEF TimelineInv, TimeInv
<1>2. a.page \in Pages /\ Complete(a.event) /\ a.event.source # "runtime" /\ d \in Nat
  BY <1>1 DEF Regular
<1>3. /\ Complete(Happened(a, now + d)) /\ ~FromProbe(Happened(a, now + d))
      /\ Happened(a, now + d).page = a.page
  BY <1>2, HappenedIs DEF FromProbe
<1>4. QED
  BY <1>1, <1>2, <1>3, PassesTime

(* How the driver learns of something is no world of a page.               *)
LEMMA NotWorlds == {"driver", "handler", "load"} \cap Worlds = {}
BY DEF Worlds

(* The driver logs what it is told at once.                                *)
LEMMA TellKeeps ==
    ASSUME TimelineInv, NEW a \in Sessions[session].acts, NEW d \in Sessions[session].lapses,
           Tell(a, d)
    PROVE  TimelineInv'
<1>1. a.channel \notin Worlds /\ Passes(d) /\ UNCHANGED <<doc, counted, held, due, waiting>>
  BY NotWorlds DEF Tell
<1>2. /\ a.page \in Pages
      /\ Complete(Happened(a, now + d)) /\ ~FromProbe(Happened(a, now + d))
      /\ session' = session /\ now' \in Nat /\ turn' \in Nat /\ turn <= turn' /\ now <= now'
  BY <1>1, DriverActs
<1>3. PICK e : e = [Happened(a, now + d) EXCEPT !.doc = doc[a.page]]
  OBVIOUS
<1>4. Complete(e) /\ ~FromProbe(e)
  BY <1>2, <1>3 DEF Complete, FromProbe, Fields
<1>5. PICK events : events = <<e>> /\ events \in Seq(ToSet(events)) /\ ToSet(events) = {e}
  BY OneEvent
<1>6. log' = Logged(events, now + d)
  BY <1>3, <1>5 DEF Tell
<1>7. /\ LogInv'
      /\ \A r \in ToSet(log') :
            FromProbe(r) => Complete(r) /\ \E s \in Probed : Copy(r, s)
  BY <1>2, <1>4, <1>5, <1>6, SentLogged
<1>8. TimeInv'
  BY <1>1, <1>2 DEF TimelineInv, TimeInv
<1>9. /\ \A q \in Pages : doc[q] <= doc'[q] /\ held'[q] = held[q] /\ doc'[q] = doc[q]
      /\ \A q \in Pages, w \in Worlds : counted[q][w] <= counted'[q][w]
  BY <1>1 DEF TimelineInv, TimeInv
<1>10. QED
  BY <1>2, <1>7, <1>8, <1>9, StepKeeps

(* A handler begins to wait.                                               *)
LEMMA AskKeeps ==
    ASSUME TimelineInv, NEW a \in Sessions[session].acts, NEW d \in Sessions[session].lapses,
           Ask(a, d)
    PROVE  TimelineInv'
<1>1. /\ a.channel \notin Worlds /\ Passes(d) /\ UNCHANGED <<doc, counted, held, due, log>>
      /\ waiting' = waiting \cup {Happened(a, now + d)}
  BY NotWorlds DEF Ask
<1>2. /\ Complete(Happened(a, now + d)) /\ ~FromProbe(Happened(a, now + d))
      /\ Happened(a, now + d).page \in Pages
      /\ session' = session /\ now' \in Nat /\ turn' \in Nat /\ turn <= turn' /\ now <= now'
  BY <1>1, DriverActs
<1>3. /\ LogInv'
      /\ \A r \in ToSet(log') :
            FromProbe(r) => Complete(r) /\ \E s \in Probed : Copy(r, s)
  BY <1>1, NothingLogged
<1>4. TimeInv'
  BY <1>1, <1>2 DEF TimelineInv, TimeInv
<1>5. /\ \A q \in Pages : doc[q] <= doc'[q] /\ held'[q] = held[q] /\ doc'[q] = doc[q]
      /\ \A q \in Pages, w \in Worlds : counted[q][w] <= counted'[q][w]
  BY <1>1 DEF TimelineInv, TimeInv
<1>6. QED
  BY <1>2, <1>3, <1>4, <1>5, StepKeeps

(* A document ends and sends what it holds; the next one counts anew.      *)
LEMMA LoadKeeps ==
    ASSUME TimelineInv, NEW a \in Sessions[session].acts, NEW d \in Sessions[session].lapses,
           Load(a, d)
    PROVE  TimelineInv'
<1> DEFINE p == a.page
<1>1. a.channel \notin Worlds /\ Passes(d) /\ UNCHANGED <<due, waiting>>
  BY NotWorlds DEF Load
<1>2. /\ p \in Pages
      /\ Complete(Happened(a, now + d)) /\ ~FromProbe(Happened(a, now + d))
      /\ session' = session /\ now' \in Nat /\ turn' \in Nat /\ turn <= turn' /\ now <= now'
  BY <1>1, DriverActs
<1>3. PICK e : e = Happened(a, now + d)
  OBVIOUS
<1>4. /\ held[p] \in Seq(ToSet(held[p]))
      /\ \A r \in ToSet(held[p]) : /\ RecordOK(r) /\ r \in Probed
                                    /\ r.page = p /\ r.doc = doc[p]
  BY <1>2, HeldIsYoung
<1>5. PICK events : /\ events = Append(held[p], e) /\ events \in Seq(ToSet(events))
                    /\ ToSet(events) = ToSet(held[p]) \cup {e}
  BY <1>4, AppendIs
<1>6. log' = Logged(events, now + d)
  <2>1. held[p] \o <<e>> = Append(held[p], e)
    BY <1>4
  <2>2. QED
    BY <1>3, <1>5, <2>1 DEF Load
<1>7. /\ LogInv'
      /\ \A r \in ToSet(log') :
            FromProbe(r) => Complete(r) /\ \E s \in Probed : Copy(r, s)
  <2>1. \A x \in ToSet(events) :
            /\ Complete(x)
            /\ FromProbe(x) => x \in Probed /\ x.page = p /\ x.doc = doc[p]
    BY <1>2, <1>3, <1>4, <1>5 DEF RecordOK
  <2>2. QED
    BY <1>2, <1>5, <1>6, <2>1, SentLogged
<1>8. /\ held' = [held EXCEPT ![p] = <<>>] /\ doc' = [doc EXCEPT ![p] = @ + 1]
      /\ counted' = [counted EXCEPT ![p] = [w \in Worlds |-> 0]]
  BY DEF Load
<1> HIDE DEF p
<1>9. TimeInv'
  BY <1>1, <1>2, <1>8 DEF TimelineInv, TimeInv
<1>10. /\ \A q \in Pages : doc[q] <= doc'[q]
       /\ \A q \in Pages : held'[q] = <<>> \/ (held'[q] = held[q] /\ doc'[q] = doc[q])
       /\ \A q \in Pages, w \in Worlds : doc'[q] = doc[q] => counted[q][w] <= counted'[q][w]
  BY <1>2, <1>8 DEF TimelineInv, TimeInv
<1>11. QED
  BY <1>2, <1>7, <1>9, <1>10, StepKeeps, Zenon

(* A page's timer sends what it holds.                                     *)
LEMMA TimerKeeps ==
    ASSUME TimelineInv, NEW p \in Pages, Timer(p) PROVE TimelineInv'
<1>1. /\ held[p] \in Seq(ToSet(held[p]))
      /\ \A r \in ToSet(held[p]) : /\ RecordOK(r) /\ r \in Probed
                                    /\ r.page = p /\ r.doc = doc[p]
  BY HeldIsYoung
<1>2. PICK events : events = held[p]
  OBVIOUS
<1>3. PICK time : time = now'
  OBVIOUS
<1>4. /\ LogInv'
      /\ \A r \in ToSet(log') :
            FromProbe(r) => Complete(r) /\ \E s \in Probed : Copy(r, s)
  <2>1. events \in Seq(ToSet(events)) /\ log' = Logged(events, time)
    BY <1>1, <1>2, <1>3 DEF Timer
  <2>2. \A x \in ToSet(events) :
            /\ Complete(x)
            /\ FromProbe(x) => x \in Probed /\ x.page = p /\ x.doc = doc[p]
    BY <1>1, <1>2 DEF RecordOK
  <2>3. QED
    BY <2>1, <2>2, SentLogged
<1>5. /\ held' = [held EXCEPT ![p] = <<>>] /\ now' = IF now < due[p] THEN due[p] ELSE now
      /\ UNCHANGED <<session, turn, doc, counted, due, waiting>>
  BY DEF Timer
<1>6. TimeInv' /\ now <= now'
  BY <1>5 DEF TimelineInv, TimeInv
<1>7. /\ turn <= turn'
      /\ \A q \in Pages : doc[q] <= doc'[q]
      /\ \A q \in Pages : held'[q] = <<>> \/ (held'[q] = held[q] /\ doc'[q] = doc[q])
      /\ \A q \in Pages, w \in Worlds : doc'[q] = doc[q] => counted[q][w] <= counted'[q][w]
  BY <1>5 DEF TimelineInv, TimeInv
<1>8. QED
  BY <1>4, <1>6, <1>7, StepKeeps, Zenon

(* A handler ends and logs what it began with.                             *)
LEMMA FinishKeeps ==
    ASSUME TimelineInv, NEW e \in waiting, Finish(e) PROVE TimelineInv'
<1>1. Complete(e) /\ ~FromProbe(e) /\ e.page \in Pages
  BY DEF TimelineInv, TimeInv
<1>2. PICK events : events = <<e>> /\ events \in Seq(ToSet(events)) /\ ToSet(events) = {e}
  BY OneEvent
<1>3. PICK time : time = now
  OBVIOUS
<1>4. log' = Logged(events, time)
  BY <1>2, <1>3 DEF Finish
<1>5. UNCHANGED <<session, now, turn, doc, counted, held, due>> /\ waiting' = waiting \ {e}
  BY DEF Finish
<1>6. /\ LogInv'
      /\ \A r \in ToSet(log') :
            FromProbe(r) => Complete(r) /\ \E s \in Probed : Copy(r, s)
  BY <1>1, <1>2, <1>4, SentLogged
<1>7. TimeInv' /\ now <= now' /\ turn <= turn'
  BY <1>5 DEF TimelineInv, TimeInv
<1>8. /\ \A q \in Pages : doc[q] <= doc'[q] /\ held'[q] = held[q] /\ doc'[q] = doc[q]
      /\ \A q \in Pages, w \in Worlds : counted[q][w] <= counted'[q][w]
  BY <1>5 DEF TimelineInv, TimeInv
<1>9. QED
  BY <1>6, <1>7, <1>8, StepKeeps

(* The invariant is inductive.                                             *)
LEMMA NextTimeline == TimelineInv /\ [Next]_vars => TimelineInv'
<1> SUFFICES ASSUME TimelineInv, [Next]_vars PROVE TimelineInv'
  OBVIOUS
<1>1. ASSUME NEW a \in Sessions[session].acts, NEW d \in Sessions[session].lapses,
             Observe(a, d) \/ Tell(a, d) \/ Ask(a, d) \/ Load(a, d)
      PROVE  TimelineInv'
  BY <1>1, ObserveKeeps, TellKeeps, AskKeeps, LoadKeeps
<1>2. ASSUME NEW p \in Pages, Timer(p) PROVE TimelineInv'
  BY <1>2, TimerKeeps
<1>3. ASSUME NEW e \in waiting, Finish(e) PROVE TimelineInv'
  BY <1>3, FinishKeeps
<1>4. ASSUME UNCHANGED vars PROVE TimelineInv'
  BY <1>4 DEF vars, TimelineInv, TimeInv, RecordInv, OrderInv, HeldInv, LogInv, Probed, RecordOK
<1>5. QED
  BY <1>1, <1>2, <1>3, <1>4 DEF Next

(* Whatever happens in a session, in whichever order it is logged, its     *)
(* probes' records are ordered by what their documents observed            *)
(* (probe.js:84-147).                                                      *)
THEOREM TimelineInvariant == Spec => []TimelineInv
BY InitTimeline, NextTimeline, PTL DEF Spec

-----------------------------------------------------------------------------
(* A sighting is of an event of the log, whatever it is attributed to.     *)
LEMMA SightingIs ==
    ASSUME LogInv, NEW e \in ToSet(Known), NEW o \in ToSet(SightingsIn(e))
    PROVE  \E i \in DOMAIN log :
               /\ o.seq = i /\ o.source = log[i].source /\ o.page = log[i].page
               /\ o.document = <<log[i].page, log[i].doc>> /\ o.world = log[i].world
               /\ o.ordinal = log[i].ordinal /\ o.moment = log[i].moment
               /\ o.turn = log[i].turn
<1>1. PICK i \in DOMAIN Known : e = Known[i]
  BY DEF ToSet
<1>2. PICK key : i \in DOMAIN log /\ e = [log[i] EXCEPT !.endpoint = key]
  BY <1>1 DEF Known, Attributed
<1>3. Complete(log[i]) /\ log[i].seq = i
  BY <1>2 DEF LogInv
<1>4. /\ e.seq = i /\ e.source = log[i].source /\ e.page = log[i].page
      /\ e.doc = log[i].doc /\ e.world = log[i].world /\ e.ordinal = log[i].ordinal
      /\ e.moment = log[i].moment /\ e.turn = log[i].turn
  BY <1>2, <1>3 DEF Complete, Fields
<1>5. \E leaf : o = Sighting(e, leaf)
  <2>1. PICK kept : SightingsIn(e) = IF e.type \in Producing \cup Consuming /\ ~e.reduced
                                     THEN [k \in DOMAIN kept |-> Sighting(e, kept[k])]
                                     ELSE <<>>
    BY Zenon DEF SightingsIn
  <2>2. PICK k \in DOMAIN SightingsIn(e) : o = SightingsIn(e)[k]
    BY DEF ToSet
  <2>3. DOMAIN SightingsIn(e) # {}
    BY <2>2
  <2>4. QED
    BY <2>1, <2>2, <2>3
<1>6. QED
  BY <1>2, <1>4, <1>5 DEF Sighting

(* The comparison of two sightings that the probe made.                    *)
LEMMA CompareProbed ==
    ASSUME NEW a, NEW b, FromProbe(a), FromProbe(b),
           a.moment \in Int, b.moment \in Int, a.ordinal \in Int, b.ordinal \in Int,
           a.seq \in Int, b.seq \in Int,
           CompareSightings(a, b).method \in DOMAIN TieOf \ {"wall_clock"}
    PROVE  LET relation == CompareSightings(a, b).relation
           IN  \/ /\ a.document = b.document /\ a.world = b.world
                  /\ relation = "precedes" => a.ordinal < b.ordinal
                  /\ relation = "contradicted" => b.ordinal < a.ordinal
               \/ /\ a.document = b.document
                  /\ relation = "precedes" => a.moment < b.moment
                  /\ relation = "contradicted" => b.moment < a.moment
               \/ /\ a.document # b.document
                  /\ relation = "precedes" => a.seq < b.seq
                  /\ relation = "contradicted" => b.seq < a.seq
<1> DEFINE order == CompareSightings(a, b)
<1>1. SameDocument(a, b) <=> a.document = b.document
  BY DEF SameDocument
<1>2. CASE SameDocument(a, b) /\ a.world = b.world
  <2>1. order = Relation("probe_ordinal", a.ordinal = b.ordinal, a.ordinal < b.ordinal,
                         b.moment - a.moment)
    BY <1>2 DEF CompareSightings
  <2>2. /\ order.relation = "precedes" => a.ordinal < b.ordinal
        /\ order.relation = "contradicted" => b.ordinal < a.ordinal
    BY <2>1 DEF Relation
  <2>3. QED
    BY <1>1, <1>2, <2>2
<1>3. CASE SameDocument(a, b) /\ a.world # b.world
  <2>1. order = ByClock("same_document_clock", b.moment - a.moment, Resolution)
    BY <1>3 DEF CompareSightings
  <2>2. /\ order.relation = "precedes" => a.moment < b.moment
        /\ order.relation = "contradicted" => b.moment < a.moment
    BY <2>1, ClockAssumption DEF ByClock, Relation
  <2>3. QED
    BY <1>1, <1>3, <2>2
<1>4. CASE ~SameDocument(a, b) /\ a.source = b.source /\ a.world = b.world
  <2>1. order = Relation("same_source_seq", a.seq = b.seq, a.seq < b.seq, b.wall - a.wall)
    BY <1>4 DEF CompareSightings
  <2>2. /\ order.relation = "precedes" => a.seq < b.seq
        /\ order.relation = "contradicted" => b.seq < a.seq
    BY <2>1 DEF Relation
  <2>3. QED
    BY <1>1, <1>4, <2>2
<1>5. CASE ~SameDocument(a, b) /\ ~(a.source = b.source /\ a.world = b.world)
  <2>1. order = ByClock("wall_clock", b.wall - a.wall, Tolerance)
    BY <1>5 DEF CompareSightings
  <2>2. order.method \notin DOMAIN TieOf \ {"wall_clock"}
    BY <2>1 DEF ByClock, Relation, TieOf
  <2>3. QED
    BY <2>2
<1>6. QED
  BY <1>2, <1>3, <1>4, <1>5

(* What the comparison establishes between two records is what happened.   *)
LEMMA OrderFollows == TimelineInv => OrderTrueInDocument
<1> SUFFICES ASSUME TimelineInv,
                    NEW e1 \in ToSet(Known), NEW a \in ToSet(SightingsIn(e1)), FromProbe(a),
                    NEW e2 \in ToSet(Known), NEW b \in ToSet(SightingsIn(e2)), FromProbe(b),
                    a.page = b.page,
                    CompareSightings(a, b).method \in DOMAIN TieOf \ {"wall_clock"}
             PROVE  /\ CompareSightings(a, b).relation = "precedes" => a.turn < b.turn
                    /\ CompareSightings(a, b).relation = "contradicted" => b.turn < a.turn
  BY DEF OrderTrueInDocument
<1>1. PICK i \in DOMAIN log :
          /\ a.seq = i /\ a.source = log[i].source /\ a.page = log[i].page
          /\ a.document = <<log[i].page, log[i].doc>> /\ a.world = log[i].world
          /\ a.ordinal = log[i].ordinal /\ a.moment = log[i].moment /\ a.turn = log[i].turn
  BY SightingIs DEF TimelineInv
<1>2. PICK j \in DOMAIN log :
          /\ b.seq = j /\ b.source = log[j].source /\ b.page = log[j].page
          /\ b.document = <<log[j].page, log[j].doc>> /\ b.world = log[j].world
          /\ b.ordinal = log[j].ordinal /\ b.moment = log[j].moment /\ b.turn = log[j].turn
  BY SightingIs DEF TimelineInv
<1> DEFINE r == log[i]
           s == log[j]
<1>3. /\ r \in Probed /\ RecordOK(r) /\ s \in Probed /\ RecordOK(s)
      /\ FromProbe(r) /\ FromProbe(s) /\ r.page = s.page
  <2>1. r \in ToSet(log) /\ s \in ToSet(log) /\ FromProbe(r) /\ FromProbe(s)
    BY <1>1, <1>2 DEF ToSet, FromProbe
  <2>2. QED
    BY <1>1, <1>2, <2>1, LoggedIsKnown
<1>4. Ordered(r, s) /\ Ordered(s, r)
  BY <1>3 DEF TimelineInv, OrderInv
<1>5. /\ i \in Int /\ j \in Int
      /\ i < j => r.doc <= s.doc
      /\ j < i => s.doc <= r.doc
  <2>1. LogInv /\ i \in Int /\ j \in Int
    BY DEF TimelineInv, LogInv
  <2>2. QED
    BY <1>3, <2>1 DEF LogInv, ByDocument
<1>6. /\ r.ordinal \in Nat /\ r.moment \in Nat /\ r.doc \in Nat
      /\ s.ordinal \in Nat /\ s.moment \in Nat /\ s.doc \in Nat
  BY <1>3 DEF RecordOK
<1> HIDE DEF r, s
<1>7. a.document = b.document <=> r.doc = s.doc
  BY <1>1, <1>2, <1>3 DEF r, s
<1>8. PICK relation : relation = CompareSightings(a, b).relation
  OBVIOUS
<1>9. \/ /\ r.doc = s.doc /\ r.world = s.world
         /\ relation = "precedes" => r.ordinal < s.ordinal
         /\ relation = "contradicted" => s.ordinal < r.ordinal
      \/ /\ relation = "precedes" => r.moment < s.moment
         /\ relation = "contradicted" => s.moment < r.moment
      \/ /\ r.doc # s.doc
         /\ relation = "precedes" => i < j
         /\ relation = "contradicted" => j < i
  <2>1. /\ a.ordinal = r.ordinal /\ a.moment = r.moment /\ a.world = r.world /\ a.seq = i
        /\ b.ordinal = s.ordinal /\ b.moment = s.moment /\ b.world = s.world /\ b.seq = j
    BY <1>1, <1>2 DEF r, s
  <2>2. /\ a.ordinal \in Int /\ a.moment \in Int /\ a.seq \in Int
        /\ b.ordinal \in Int /\ b.moment \in Int /\ b.seq \in Int
    BY <1>5, <1>6, <2>1
  <2>3. QED
    BY <1>7, <1>8, <2>1, <2>2, CompareProbed
<1>10. /\ relation = "precedes" => r.turn < s.turn
       /\ relation = "contradicted" => s.turn < r.turn
  <2>1. /\ r.doc # s.doc /\ r.doc <= s.doc => r.doc < s.doc
        /\ r.doc # s.doc /\ s.doc <= r.doc => s.doc < r.doc
    BY <1>6
  <2>2. QED
    BY <1>3, <1>4, <1>5, <1>9, <2>1 DEF Ordered
<1>11. QED
  BY <1>1, <1>2, <1>8, <1>10 DEF r, s

(* The order that the probe's records establish is the order in which      *)
(* things happened, whatever the pages held back, however late handlers    *)
(* logged and however often documents were loaded (correlation.py:173-223  *)
(* against probe.js's flushes).                                            *)
THEOREM OrderTheorem == Spec => []OrderTrueInDocument
BY TimelineInvariant, OrderFollows, PTL

-----------------------------------------------------------------------------
(* If the page called and its patches told nothing, though the probe was   *)
(* there, the runtime probe is degraded and has a blind spot.              *)
LEMMA SilenceIsSpot ==
    ASSUME NEW events,
           \E e \in Requests(events) : e.resource \in {"xhr", "fetch"},
           OfType(events, PatchedTypes) = {},
           \E e \in ToSet(events) : e.source = "runtime",
           "runtime_probe_unavailable" \notin Gaps(events)
    PROVE  /\ "patches_silent" \in RuntimeHealth(events).spots
           /\ RuntimeHealth(events).status = Degraded
<1>1. ~RuntimeProbeMissing(events)
  BY DEF RuntimeProbeMissing
<1>2. \E e \in OfType(events, {"http_request"}) : e.resource \in {"xhr", "fetch"}
  BY DEF Requests, OfType
<1>3. QED
  BY <1>1, <1>2 DEF RuntimeHealth, Lossy, Sensor

(* Of the whole result, whatever else is derived.                          *)
LEMMA SpotNeverHidden == BlindSpotNeverHidden
<1> DEFINE r == RuntimeHealth(log)
<1> SUFFICES ASSUME \E e \in Requests(log) : e.resource \in {"xhr", "fetch"},
                    OfType(log, PatchedTypes) = {},
                    \E e \in ToSet(log) : e.source = "runtime",
                    "runtime_probe_unavailable" \notin Gaps(log)
             PROVE  /\ "SENSOR BLIND SPOT" \in Health(log).overall
                    /\ \E f \in Result.findings :
                          f.kind = "sensor_blind_spot" /\ f.severity = "critical"
  BY DEF BlindSpotNeverHidden
<1>1. "patches_silent" \in r.spots /\ r.status = Degraded
  BY SilenceIsSpot
<1>2. r \in Sensors(log)
  BY DEF Sensors
<1>3. Health(log).sensors = Sensors(log) /\ Health(log).overall = Overall(Sensors(log))
  BY DEF Health
<1> HIDE DEF r
<1>4. "SENSOR BLIND SPOT" \in Overall(Sensors(log))
  BY <1>1, <1>2 DEF Overall, Degraded, NotApplicable
<1>5. \E f \in Result.findings : f.kind = "sensor_blind_spot" /\ f.severity = "critical"
  <2>1. PICK derived : /\ Result.findings = CaptureFindings(log) \cup DerivedFindings(derived)
                       /\ derived.health = Health(log)
    BY DEF Result, ResultOf
  <2>2. FindingOf("sensor_blind_spot", "critical", "patches_silent", 1, {})
            \in DerivedFindings(derived)
    BY <1>1, <1>2, <1>3, <2>1 DEF DerivedFindings
  <2>3. QED
    BY <2>1, <2>2 DEF FindingOf
<1>6. QED
  BY <1>3, <1>4, <1>5

(* No state of a session hides that the patches were silent (health.py's   *)
(* _runtime and _overall, pipeline._findings).                             *)
THEOREM BlindSpotTheorem == Spec => []BlindSpotNeverHidden
BY SpotNeverHidden, PTL

-----------------------------------------------------------------------------
(* What is said.  Whatever is logged, held or waited for says what an event*)
(* of the session can say, and is logged at some time.                     *)
Says(e, b) ==
    /\ DOMAIN e = DOMAIN b /\ e.source = b.source
    /\ \A f \in DOMAIN b \ Fields : e[f] = b[f]

Spoken(e) == \E b \in Sayings(Sessions[session]) : Says(e, b)

SaidInv ==
    /\ \A e \in ToSet(log) : Spoken(e) /\ e.wall \in Nat
    /\ \A e \in waiting : Spoken(e)
    /\ \A p \in Pages : \A e \in ToSet(held[p]) : Spoken(e)

LEMMA StampSays ==
    ASSUME NEW e, NEW b, NEW n, NEW t, Complete(e), Says(e, b)
    PROVE  Says(Stamp(e, n, t), b) /\ Stamp(e, n, t).wall = t
BY DEF Says, Stamp, Complete, Fields

LEMMA ActSays ==
    ASSUME TimelineInv, NEW a \in Sessions[session].acts, NEW t
    PROVE  /\ Spoken(Happened(a, t))
           /\ Spoken([Happened(a, t) EXCEPT !.doc = doc[a.page]])
           /\ Spoken(Recorded(a, t))
<1>1. Complete(a.event)
  BY SessionAssumption DEF TimelineInv, TimeInv, Regular
<1>2. a.event \in Sayings(Sessions[session])
  BY DEF Sayings
<1>3. Says(Happened(a, t), a.event)
  BY <1>1 DEF Says, Happened, Complete, Fields
<1>4. Says([Happened(a, t) EXCEPT !.doc = doc[a.page]], a.event)
  BY <1>1, <1>3 DEF Says, Complete, Fields
<1>5. Says(Recorded(a, t), a.event)
  BY <1>1, <1>3 DEF Says, Recorded, Complete, Fields
<1>6. QED
  BY <1>2, <1>3, <1>4, <1>5 DEF Spoken

(* What is logged of what is said is said.                                 *)
LEMMA LoggedSays ==
    ASSUME TimelineInv, SaidInv, session' = session,
           NEW events, events \in Seq(ToSet(events)), NEW time \in Nat,
           \A e \in ToSet(events) : Complete(e) /\ Spoken(e),
           log' = Logged(events, time)
    PROVE  \A e \in ToSet(log') : Spoken(e)' /\ e.wall \in Nat
<1>1. LogInv /\ \A k \in DOMAIN events : Complete(events[k]) /\ Spoken(events[k])
  BY DEF TimelineInv, ToSet
<1> DEFINE old == Len(log)
           new == Len(events)
<1>2. /\ old \in Nat /\ new \in Nat
      /\ DOMAIN log = 1..old /\ DOMAIN events = 1..new /\ DOMAIN log' = 1..old + new
      /\ \A i \in 1..old : log'[i] = log[i]
      /\ \A k \in 1..new : log'[old + k] = Stamp(events[k], old + k, time)
  BY <1>1, LoggedIs
<1> HIDE DEF old, new
<1>3. ASSUME NEW i \in 1..old + new PROVE Spoken(log'[i]) /\ log'[i].wall \in Nat
  <2>1. CASE i \in 1..old
    BY <1>2, <2>1 DEF SaidInv, ToSet
  <2>2. CASE i \notin 1..old
    <3>1. i - old \in 1..new /\ old + (i - old) = i
      BY <1>2, <2>2
    <3>2. PICK k : k = i - old
      OBVIOUS
    <3>3. log'[i] = Stamp(events[k], i, time) /\ k \in DOMAIN events
      BY <1>2, <3>1, <3>2
    <3>4. PICK b \in Sayings(Sessions[session]) : Says(events[k], b)
      BY <1>1, <3>3 DEF Spoken
    <3>5. Says(log'[i], b) /\ log'[i].wall = time
      BY <1>1, <3>3, <3>4, StampSays
    <3>6. QED
      BY <3>4, <3>5 DEF Spoken
  <2>3. QED
    BY <2>1, <2>2
<1>4. QED
  BY <1>2, <1>3 DEF Spoken, ToSet

LEMMA HeldSaid ==
    ASSUME TimelineInv, SaidInv, NEW p \in Pages
    PROVE  /\ held[p] \in Seq(ToSet(held[p]))
           /\ \A r \in ToSet(held[p]) : Complete(r) /\ Spoken(r)
BY HeldIsYoung DEF SaidInv, RecordOK

LEMMA InitSaid == Init => SaidInv
<1> SUFFICES ASSUME Init PROVE SaidInv
  OBVIOUS
<1>1. session \in DOMAIN Sessions /\ Regular(Sessions[session]) /\ log = Sessions[session].before
  BY SessionAssumption DEF Init
<1>2. \A e \in ToSet(log) : Spoken(e) /\ e.wall \in Nat
  BY <1>1 DEF Regular, Sayings, Spoken, Says, ToSet
<1>3. QED
  BY <1>2 DEF SaidInv, Init, ToSet

LEMMA ActSaid ==
    ASSUME TimelineInv, SaidInv,
           NEW a \in Sessions[session].acts, NEW d \in Sessions[session].lapses,
           Observe(a, d) \/ Tell(a, d) \/ Ask(a, d) \/ Load(a, d)
    PROVE  SaidInv'
<1> DEFINE p == a.page
<1>1. /\ p \in Pages /\ d \in Nat /\ Complete(a.event) /\ now \in Nat /\ DOMAIN held = Pages
  BY SessionAssumption DEF TimelineInv, TimeInv, Regular
<1>2. PICK time \in Nat : time = now + d
  BY <1>1
<1>3. session' = session
  BY DEF Observe, Tell, Ask, Load, Passes
<1>4. /\ held[p] \in Seq(ToSet(held[p])) /\ \A r \in ToSet(held[p]) : Complete(r) /\ Spoken(r)
  BY <1>1, HeldSaid
<1>5. CASE Observe(a, d)
  <2>1. PICK e : e = Recorded(a, time)
    OBVIOUS
  <2>2. Complete(e) /\ Spoken(e)
    BY <1>1, <2>1, ActSays, RecordedIs
  <2>3. PICK events : /\ events = Append(held[p], e) /\ events \in Seq(ToSet(events))
                      /\ ToSet(events) = ToSet(held[p]) \cup {e}
    BY <1>4, AppendIs
  <2>4. /\ waiting' = waiting
        /\ \/ log' = Logged(events, time) /\ held' = [held EXCEPT ![p] = <<>>]
           \/ log' = log /\ held' = [held EXCEPT ![p] = events]
    BY <1>2, <1>5, <2>1, <2>3 DEF Observe
  <2> HIDE DEF p
  <2>5. \A x \in ToSet(events) : Complete(x) /\ Spoken(x)
    BY <1>4, <2>2, <2>3
  <2>6. \A x \in ToSet(log') : Spoken(x)' /\ x.wall \in Nat
    <3>1. CASE log' = log
      BY <1>3, <3>1 DEF SaidInv, Spoken
    <3>2. CASE log' = Logged(events, time)
      BY <1>3, <2>3, <2>5, <3>2, LoggedSays
    <3>3. QED
      BY <2>4, <3>1, <3>2
  <2>7. \A q \in Pages : held'[q] \in {held[q], <<>>, events}
    BY <1>1, <2>4
  <2>8. \A q \in Pages : \A x \in ToSet(held'[q]) : Spoken(x)
    BY <2>5, <2>7 DEF SaidInv, ToSet
  <2>9. QED
    BY <1>3, <2>4, <2>6, <2>8 DEF SaidInv, Spoken
<1>6. CASE Tell(a, d)
  <2>1. PICK e : e = [Happened(a, time) EXCEPT !.doc = doc[a.page]]
    OBVIOUS
  <2>2. Complete(e) /\ Spoken(e)
    BY <1>1, <2>1, ActSays, HappenedIs DEF Complete, Fields
  <2>3. PICK events : events = <<e>> /\ events \in Seq(ToSet(events)) /\ ToSet(events) = {e}
    BY OneEvent
  <2>4. log' = Logged(events, time) /\ UNCHANGED <<held, waiting>>
    BY <1>2, <1>6, <2>1, <2>3 DEF Tell
  <2>5. \A x \in ToSet(log') : Spoken(x)' /\ x.wall \in Nat
    BY <1>3, <2>2, <2>3, <2>4, LoggedSays
  <2>6. QED
    BY <1>3, <2>4, <2>5 DEF SaidInv, Spoken
<1>7. CASE Ask(a, d)
  <2>1. PICK e : e = Happened(a, time)
    OBVIOUS
  <2>2. Spoken(e)
    BY <2>1, ActSays
  <2>3. waiting' = waiting \cup {e} /\ UNCHANGED <<held, log>>
    BY <1>2, <1>7, <2>1 DEF Ask
  <2>4. QED
    BY <1>3, <2>2, <2>3 DEF SaidInv, Spoken
<1>8. CASE Load(a, d)
  <2>1. PICK e : e = Happened(a, time)
    OBVIOUS
  <2>2. Complete(e) /\ Spoken(e)
    BY <1>1, <2>1, ActSays, HappenedIs
  <2>3. PICK events : /\ events = Append(held[p], e) /\ events \in Seq(ToSet(events))
                      /\ ToSet(events) = ToSet(held[p]) \cup {e}
    BY <1>4, AppendIs
  <2>4. /\ log' = Logged(events, time) /\ waiting' = waiting
        /\ held' = [held EXCEPT ![p] = <<>>]
    <3>1. held[p] \o <<e>> = Append(held[p], e)
      BY <1>4
    <3>2. QED
      BY <1>2, <1>8, <2>1, <2>3, <3>1 DEF Load
  <2> HIDE DEF p
  <2>5. \A x \in ToSet(log') : Spoken(x)' /\ x.wall \in Nat
    BY <1>3, <1>4, <2>2, <2>3, <2>4, LoggedSays
  <2>6. \A q \in Pages : held'[q] \in {held[q], <<>>}
    BY <1>1, <2>4
  <2>7. \A q \in Pages : \A x \in ToSet(held'[q]) : Spoken(x)
    BY <2>6 DEF SaidInv, ToSet
  <2>8. QED
    BY <1>3, <2>4, <2>5, <2>7 DEF SaidInv, Spoken
<1>9. QED
  BY <1>5, <1>6, <1>7, <1>8

LEMMA NextSaid == TimelineInv /\ SaidInv /\ [Next]_vars => SaidInv'
<1> SUFFICES ASSUME TimelineInv, SaidInv, [Next]_vars PROVE SaidInv'
  OBVIOUS
<1>1. ASSUME NEW a \in Sessions[session].acts, NEW d \in Sessions[session].lapses,
             Observe(a, d) \/ Tell(a, d) \/ Ask(a, d) \/ Load(a, d)
      PROVE  SaidInv'
  BY <1>1, ActSaid
<1>2. ASSUME NEW p \in Pages, Timer(p) PROVE SaidInv'
  <2>1. PICK events : events = held[p]
    OBVIOUS
  <2>2. PICK time \in Nat : time = now'
    BY <1>2 DEF Timer, TimelineInv, TimeInv
  <2>3. /\ log' = Logged(events, time) /\ held' = [held EXCEPT ![p] = <<>>]
        /\ session' = session /\ waiting' = waiting /\ DOMAIN held = Pages
    BY <1>2, <2>1, <2>2 DEF Timer, TimelineInv, TimeInv
  <2>4. \A x \in ToSet(log') : Spoken(x)' /\ x.wall \in Nat
    BY <2>1, <2>3, HeldSaid, LoggedSays
  <2>5. \A q \in Pages : held'[q] \in {held[q], <<>>}
    BY <2>3
  <2>6. \A q \in Pages : \A x \in ToSet(held'[q]) : Spoken(x)
    BY <2>5 DEF SaidInv, ToSet
  <2>7. QED
    BY <2>3, <2>4, <2>6 DEF SaidInv, Spoken
<1>3. ASSUME NEW e \in waiting, Finish(e) PROVE SaidInv'
  <2>1. Complete(e) /\ Spoken(e)
    BY DEF SaidInv, TimelineInv, TimeInv
  <2>2. PICK events : events = <<e>> /\ events \in Seq(ToSet(events)) /\ ToSet(events) = {e}
    BY OneEvent
  <2>3. PICK time \in Nat : time = now
    BY DEF TimelineInv, TimeInv
  <2>4. /\ log' = Logged(events, time) /\ UNCHANGED <<session, held>>
        /\ waiting' = waiting \ {e}
    BY <1>3, <2>2, <2>3 DEF Finish
  <2>5. \A x \in ToSet(log') : Spoken(x)' /\ x.wall \in Nat
    BY <2>1, <2>2, <2>4, LoggedSays
  <2>6. QED
    BY <2>4, <2>5 DEF SaidInv, Spoken
<1>4. ASSUME UNCHANGED vars PROVE SaidInv'
  BY <1>4 DEF vars, SaidInv, Spoken
<1>5. QED
  BY <1>1, <1>2, <1>3, <1>4 DEF Next

(* What is logged of a session has been observed in it, but for where and  *)
(* when it was logged (EventLog.emit stamps and changes nothing else).     *)
THEOREM SaidInvariant == Spec => [](TimelineInv /\ SaidInv)
<1>1. Init => TimelineInv /\ SaidInv
  BY InitTimeline, InitSaid
<1>2. TimelineInv /\ SaidInv /\ [Next]_vars => (TimelineInv /\ SaidInv)'
  BY NextTimeline, NextSaid
<1>3. QED
  BY <1>1, <1>2, PTL DEF Spec

(* The events of a log are events.                                         *)
LEMMA LogIsOfEvents ==
    ASSUME TimelineInv, SaidInv
    PROVE  /\ log \in Seq(ToSet(log)) /\ Len(log) \in Nat /\ DOMAIN log = 1..Len(log)
           /\ \A i \in DOMAIN log : /\ log[i].seq = i /\ log[i].wall \in Nat
                                    /\ DOMAIN log[i] = DOMAIN Blank
                                    /\ log[i].method # "GRAPHQL"
                                    /\ Elementless(log[i]) /\ Carrying(log[i])
                                    /\ ToldByProbe(log[i])
<1>1. log \in Seq(ToSet(log)) /\ \A i \in DOMAIN log : log[i].seq = i
  BY DEF TimelineInv, LogInv
<1>2. ASSUME NEW i \in DOMAIN log
      PROVE  /\ DOMAIN log[i] = DOMAIN Blank /\ log[i].method # "GRAPHQL"
             /\ log[i].wall \in Nat /\ Elementless(log[i]) /\ Carrying(log[i])
             /\ ToldByProbe(log[i])
  <2>1. log[i].wall \in Nat /\ Spoken(log[i])
    BY DEF SaidInv, ToSet
  <2>2. PICK b \in Sayings(Sessions[session]) : Says(log[i], b)
    BY <2>1 DEF Spoken
  <2>3. /\ DOMAIN b = DOMAIN Blank /\ b.method # "GRAPHQL"
        /\ Elementless(b) /\ Carrying(b) /\ ToldByProbe(b)
    <3>1. session \in DOMAIN Sessions
      BY DEF TimelineInv, TimeInv
    <3>2. QED
      BY <3>1, EventAssumption, Zenon
  <2>4. /\ "method" \in DOMAIN b \ Fields /\ "type" \in DOMAIN b \ Fields
        /\ "element" \in DOMAIN b \ Fields /\ "leaves" \in DOMAIN b \ Fields
        /\ "body" \in DOMAIN b \ Fields /\ "fields" \in DOMAIN b \ Fields
        /\ "forms" \in DOMAIN b \ Fields
    BY <2>3 DEF Blank, Fields
  <2>5. /\ log[i].method = b.method /\ log[i].type = b.type /\ log[i].element = b.element
        /\ log[i].leaves = b.leaves /\ log[i].body = b.body
        /\ log[i].fields = b.fields /\ log[i].forms = b.forms /\ log[i].source = b.source
    BY <2>2, <2>4 DEF Says
  <2>6. Elementless(log[i])
    BY <2>3, <2>5, Zenon DEF Elementless
  <2>7. Carrying(log[i])
    BY <2>3, <2>5, Zenon DEF Carrying
  <2>8. ToldByProbe(log[i])
    BY <2>3, <2>5, Zenon DEF ToldByProbe
  <2>9. QED
    BY <2>1, <2>2, <2>3, <2>5, <2>6, <2>7, <2>8 DEF Says
<1>3. QED
  BY <1>1, <1>2

-----------------------------------------------------------------------------
(* Finite sets.                                                            *)

(* A set of naturals has a least element: a first-order induction.         *)
LEMMA LeastOne ==
    ASSUME NEW S \in SUBSET Nat, S # {} PROVE \E x \in S : \A y \in S : x <= y
<1>1. PICK x \in S : \A y \in S : <<y, x>> \notin OpToRel(<, Nat)
  BY WFMin, NatLessThanWellFounded, Zenon
<1>2. \A y \in S : ~(y < x)
  BY <1>1, Zenon DEF OpToRel
<1>3. QED
  BY <1>2

(* What a function with a finite domain takes is finite.                   *)
LEMMA ImageFinite ==
    ASSUME NEW f, IsFiniteSet(DOMAIN f)
    PROVE  IsFiniteSet({f[x] : x \in DOMAIN f})
<1>1. [x \in DOMAIN f |-> f[x]] \in Surjection(DOMAIN f, {f[x] : x \in DOMAIN f})
  BY DEF Surjection
<1>2. QED
  BY <1>1, FS_Surjection

(* A finite set has subsets of every size up to its own.                   *)
LEMMA SubsetOfSize ==
    ASSUME NEW S, IsFiniteSet(S), NEW n \in Nat, n <= Cardinality(S)
    PROVE  \E T \in SUBSET S : Cardinality(T) = n
<1>1. Cardinality(S) \in Nat /\ ExistsBijection(1..Cardinality(S), S)
  BY FS_CardinalityType
<1>2. PICK f : f \in Bijection(1..Cardinality(S), S)
  BY <1>1 DEF ExistsBijection
<1> DEFINE T == {f[i] : i \in 1..n}
<1>3. /\ f \in [1..Cardinality(S) -> S]
      /\ \A i, j \in 1..Cardinality(S) : f[i] = f[j] => i = j
  BY <1>2 DEF Bijection, Injection, IsInjective
<1>4. T \in SUBSET S
  BY <1>1, <1>3
<1>5. [i \in 1..n |-> f[i]] \in Bijection(1..n, T)
  BY <1>1, <1>3 DEF Bijection, Injection, Surjection, IsInjective
<1>6. ExistsBijection(1..n, T)
  BY <1>5 DEF ExistsBijection
<1>7. Cardinality(T) = n
  BY <1>6, FS_CountingElements
<1>8. QED
  BY <1>4, <1>7

-----------------------------------------------------------------------------
(* The endpoint of a call.                                                 *)

(* The paths that an endpoint keeps are paths of its requests, and all of  *)
(* them if there are not too many.                                         *)
LEMMA KeptIs ==
    ASSUME NEW paths, IsFiniteSet(paths)
    PROVE  /\ Kept(paths) \subseteq paths
           /\ Cardinality(paths) <= MaxPaths => Kept(paths) = paths
<1>1. CASE Cardinality(paths) <= MaxPaths
  BY <1>1 DEF Kept
<1>2. CASE ~(Cardinality(paths) <= MaxPaths)
  <2>1. MaxPaths \in Nat /\ MaxPaths <= Cardinality(paths)
    BY <1>2, PathsAssumption, FS_CardinalityType
  <2>2. \E T \in SUBSET paths : Cardinality(T) = MaxPaths
    BY <2>1, SubsetOfSize
  <2>3. QED
    BY <1>2, <2>2 DEF Kept
<1>3. QED
  BY <1>1, <1>2

(* The requests of a log, each at a place of its own.                      *)
LEMMA RequestsAre ==
    ASSUME TimelineInv, SaidInv
    PROVE  /\ IsFiniteSet(ToSet(log))
           /\ \A x, y \in ToSet(log) : x.seq = y.seq => x = y
           /\ \A x \in ToSet(log) : DOMAIN x = DOMAIN Blank /\ x.method # "GRAPHQL"
           /\ Requests(log) \subseteq ToSet(log)
           /\ RestRequests(log) \subseteq Requests(log)
<1>1. IsFiniteSet(DOMAIN log)
  BY LogIsOfEvents, FS_Interval
<1>2. QED
  BY <1>1, LogIsOfEvents, ImageFinite DEF ToSet, Requests, RestRequests

(* The endpoint that a request is counted under, and what it keeps.        *)
LEMMA CountedUnder ==
    ASSUME TimelineInv, SaidInv, NEW p \in EndpointsOf(log)
    PROVE  \/ \E y \in RestRequests(log) :
                 LET group == {x \in RestRequests(log) :
                                   x.method = y.method /\ Template(log, x) = Template(log, y)}
                 IN  p = Endpoint(KeyText(y.method, Template(log, y)), y.method, group)
           \/ \E y \in Requests(log) \ RestRequests(log) :
                 p = Endpoint(OperationKey(y), "GRAPHQL",
                              {x \in Requests(log) \ RestRequests(log) :
                                   x.operation = y.operation})
<1> DEFINE rest == RestRequests(log)
           asked == Requests(log) \ rest
           template == [e \in rest |-> Template(log, e)]
<1>1. \/ \E y \in rest : p = Endpoint(KeyText(y.method, template[y]), y.method,
                                      {x \in rest : x.method = y.method /\ template[x] = template[y]})
      \/ \E y \in asked : p = Endpoint(OperationKey(y), "GRAPHQL",
                                       {x \in asked : x.operation = y.operation})
  BY DEF EndpointsOf
<1>2. ASSUME NEW y \in rest
      PROVE  /\ template[y] = Template(log, y)
             /\ {x \in rest : x.method = y.method /\ template[x] = template[y]}
                  = {x \in rest : x.method = y.method /\ Template(log, x) = Template(log, y)}
  OBVIOUS
<1>3. QED
  BY <1>1, <1>2

LEMMA EndpointIs ==
    ASSUME NEW key, NEW method, NEW group, IsFiniteSet(group)
    PROVE  /\ Endpoint(key, method, group).key = key
           /\ Endpoint(key, method, group).method = method
           /\ \A n : n \in Endpoint(key, method, group).cites <=> \E e \in group : n = e.seq
           /\ \A u \in Endpoint(key, method, group).paths : \E e \in group : u = e.url.path
           /\ \A all : (\A u : u \in all <=> \E e \in group : u = e.url.path)
                       /\ Cardinality(all) <= MaxPaths
                           => all = Endpoint(key, method, group).paths
<1> DEFINE f == [e \in group |-> e.url.path]
           paths == {e.url.path : e \in group}
<1>1. IsFiniteSet({f[e] : e \in DOMAIN f})
  BY ImageFinite
<1>2. {f[e] : e \in DOMAIN f} = paths
  OBVIOUS
<1>3. IsFiniteSet(paths)
  BY <1>1, <1>2
<1> HIDE DEF paths, f
<1>4. Kept(paths) \subseteq paths /\ (Cardinality(paths) <= MaxPaths => Kept(paths) = paths)
  BY <1>3, KeptIs
<1>5. ASSUME NEW q, \A u : u \in q <=> \E e \in group : u = e.url.path
      PROVE  q = paths
  BY <1>5 DEF paths
<1>6. \A u \in paths : \E e \in group : u = e.url.path
  BY DEF paths
<1>7. Endpoint(key, method, group).paths = Kept(paths)
  BY DEF Endpoint, paths
<1>8. /\ Endpoint(key, method, group).key = key /\ Endpoint(key, method, group).method = method
      /\ \A n : n \in Endpoint(key, method, group).cites <=> \E e \in group : n = e.seq
  BY DEF Endpoint
<1>9. ASSUME NEW q, \A u : u \in q <=> \E e \in group : u = e.url.path,
             Cardinality(q) <= MaxPaths
      PROVE  q = Endpoint(key, method, group).paths
  <2>1. q = paths
    BY <1>5, <1>9
  <2>2. QED
    BY <1>4, <1>7, <1>9, <2>1
<1>10. \A u \in Endpoint(key, method, group).paths : \E e \in group : u = e.url.path
  BY <1>4, <1>6, <1>7
<1>11. QED
  BY <1>8, <1>9, <1>10, Zenon

(* Requests for one path by one method have one template.                  *)
LEMMA SameTemplate ==
    ASSUME NEW events, NEW x, NEW y, x.method = y.method, x.url.path = y.url.path
    PROVE  Template(events, x) = Template(events, y)
<1>1. Bucket(events, x) = Bucket(events, y)
  BY DEF Bucket
<1>2. \A i \in DOMAIN x.url.path : Varies(events, x, i) = Varies(events, y, i)
  BY <1>1 DEF Varies
<1>3. QED
  BY <1>2 DEF Template

(* A path is looked up under the endpoint its requests are counted under.  *)
LEMMA LookedUp ==
    ASSUME TimelineInv, SaidInv,
           NEW p \in EndpointsOf(log), NEW x \in Requests(log), x.seq \in p.cites,
           Cardinality({y.url.path : y \in {z \in Requests(log) : z.seq \in p.cites}}) <= MaxPaths,
           NEW r, r.method = x.method, r.url = x.url, r.operation = x.operation
    PROVE  KeyForRequest(r, EndpointsOf(log)) = p.key
<1> DEFINE Group(y) == {z \in RestRequests(log) :
                            z.method = y.method /\ Template(log, z) = Template(log, y)}
           Same(y) == {z \in Requests(log) \ RestRequests(log) : z.operation = y.operation}
<1>1. /\ IsFiniteSet(ToSet(log)) /\ \A a, b \in ToSet(log) : a.seq = b.seq => a = b
      /\ \A a \in ToSet(log) : a.method # "GRAPHQL"
      /\ Requests(log) \subseteq ToSet(log) /\ RestRequests(log) \subseteq Requests(log)
  BY RequestsAre
<1>2. \A y : IsFiniteSet(Group(y)) /\ IsFiniteSet(Same(y))
  BY <1>1, FS_Subset
<1>3. \/ \E y \in RestRequests(log) :
            p = Endpoint(KeyText(y.method, Template(log, y)), y.method, Group(y))
      \/ \E y \in Requests(log) \ RestRequests(log) :
            p = Endpoint(OperationKey(y), "GRAPHQL", Same(y))
  BY CountedUnder
<1>4. ASSUME NEW y \in Requests(log) \ RestRequests(log),
             p = Endpoint(OperationKey(y), "GRAPHQL", Same(y))
      PROVE  KeyForRequest(r, EndpointsOf(log)) = p.key
  <2>1. p.key = OperationKey(y) /\ p.cites = {z.seq : z \in Same(y)}
    BY <1>4 DEF Endpoint
  <2>2. x \in Same(y)
    BY <1>1, <2>1
  <2>3. x.operation # NoOperation /\ x.operation = y.operation
    BY <2>2 DEF RestRequests
  <2>4. QED
    BY <2>1, <2>3 DEF KeyForRequest, OperationKey
<1>5. ASSUME NEW y \in RestRequests(log),
             p = Endpoint(KeyText(y.method, Template(log, y)), y.method, Group(y))
      PROVE  KeyForRequest(r, EndpointsOf(log)) = p.key
  <2> DEFINE paths == {z.url.path : z \in Group(y)}
  <2>1. /\ p.method = y.method /\ p.cites = {z.seq : z \in Group(y)}
        /\ Cardinality(paths) <= MaxPaths => p.paths = paths
    <3>1. PICK key, group : key = KeyText(y.method, Template(log, y)) /\ group = Group(y)
      OBVIOUS
    <3>2. IsFiniteSet(group) /\ p = Endpoint(key, y.method, group)
      BY <1>2, <1>5, <3>1
    <3>3. p.method = y.method /\ \A n : n \in p.cites <=> \E e \in group : n = e.seq
      BY <3>2, EndpointIs
    <3>4. \A u : u \in paths <=> \E e \in group : u = e.url.path
      BY <3>1
    <3> HIDE DEF paths
    <3>5. Cardinality(paths) <= MaxPaths => p.paths = paths
      <4>1. \A q : (\A u : u \in q <=> \E e \in group : u = e.url.path)
                   /\ Cardinality(q) <= MaxPaths
                       => q = p.paths
        BY <3>2, EndpointIs
      <4>2. QED
        BY <3>4, <4>1, Zenon
    <3>6. p.cites = {z.seq : z \in Group(y)}
      BY <3>1, <3>3
    <3>7. QED
      BY <3>3, <3>5, <3>6, Zenon
  <2>2. {z \in Requests(log) : z.seq \in p.cites} = Group(y)
    BY <1>1, <2>1
  <2>3. p.paths = paths /\ x \in Group(y)
    <3>1. Cardinality(paths) <= MaxPaths
      BY <2>2
    <3>2. x \in {z \in Requests(log) : z.seq \in p.cites}
      OBVIOUS
    <3>3. QED
      BY <2>1, <2>2, <3>1, <3>2, Zenon
  <2>4. r.operation = NoOperation /\ p.method = r.method /\ r.url.path \in p.paths
    BY <2>1, <2>3 DEF RestRequests
  <2>5. ASSUME NEW q \in EndpointsOf(log), q.method = r.method, r.url.path \in q.paths
        PROVE  q = p
    <3>1. ASSUME NEW v \in Requests(log) \ RestRequests(log),
                 q = Endpoint(OperationKey(v), "GRAPHQL", Same(v))
          PROVE  FALSE
      <4>1. q.method = "GRAPHQL"
        BY <3>1 DEF Endpoint
      <4>2. x.method # "GRAPHQL"
        BY <1>1
      <4>3. QED
        BY <2>5, <4>1, <4>2
    <3>2. PICK v \in RestRequests(log) :
              q = Endpoint(KeyText(v.method, Template(log, v)), v.method, Group(v))
      BY <3>1, CountedUnder
    <3>3. q.method = v.method /\ q.paths \subseteq {z.url.path : z \in Group(v)}
      <4>1. PICK key, group : key = KeyText(v.method, Template(log, v)) /\ group = Group(v)
        OBVIOUS
      <4>2. IsFiniteSet(group) /\ q = Endpoint(key, v.method, group)
        BY <1>2, <3>2, <4>1
      <4>3. q.method = v.method /\ \A u \in q.paths : \E z \in group : u = z.url.path
        BY <4>2, EndpointIs
      <4>4. QED
        BY <4>1, <4>3
    <3>4. PICK z \in Group(v) : z.url.path = r.url.path
      BY <2>5, <3>3
    <3>5. z.method = x.method /\ z.url.path = x.url.path
      BY <2>5, <3>3, <3>4
    <3>6. Template(log, v) = Template(log, y) /\ v.method = y.method
      BY <2>3, <3>4, <3>5, SameTemplate
    <3>7. QED
      BY <1>5, <3>2, <3>6
  <2>6. {q \in EndpointsOf(log) : q.method = r.method /\ r.url.path \in q.paths} = {p}
    BY <2>4, <2>5
  <2>7. QED
    BY <2>4, <2>6 DEF KeyForRequest
<1>6. QED
  BY <1>3, <1>4, <1>5

(* The request that a response is taken to answer.                         *)
LEMMA AskedIs ==
    ASSUME TimelineInv, SaidInv, NEW e, Asked(log, e) # 0
    PROVE  LET x == log[Asked(log, e)]
           IN  x \in Requests(log) /\ x.method = e.method /\ x.url = e.url
<1> DEFINE I == {i \in 1..Len(log) : /\ log[i].type = "http_request"
                                     /\ log[i].method = e.method /\ log[i].url = e.url}
<1>1. Asked(log, e) = IF I # {} THEN Max(I) ELSE 0
  BY DEF Asked, SelectLastInSeq
<1>2. Len(log) \in Nat /\ DOMAIN log = 1..Len(log)
  BY LogIsOfEvents
<1>3. I # {}
  BY <1>1
<1>4. \E i \in I : \A j \in I : i >= j
  <2> DEFINE Below == {Len(log) - i : i \in I}
  <2>1. Below \in SUBSET Nat /\ Below # {}
    BY <1>2, <1>3
  <2> HIDE DEF Below
  <2>2. PICK b \in Below : \A c \in Below : b <= c
    BY <2>1, LeastOne
  <2>3. PICK i \in I : b = Len(log) - i
    BY DEF Below
  <2>4. ASSUME NEW j \in I PROVE i >= j
    <3>1. Len(log) - j \in Below
      BY DEF Below
    <3>2. b <= Len(log) - j
      BY <2>2, <3>1
    <3>3. QED
      BY <1>2, <2>3, <3>2
  <2>5. QED
    BY <2>4
<1>5. Max(I) \in I
  BY <1>4 DEF Max
<1> HIDE DEF I
<1>6. Asked(log, e) \in I
  BY <1>1, <1>3, <1>5
<1>7. QED
  BY <1>2, <1>6 DEF I, Requests, ToSet

(* Every call is attributed as the requests to its URL are.                *)
LEMMA OneEndpoint == TimelineInv /\ SaidInv => OneRequestOneEndpoint
<1> DEFINE Asks(e) == {x \in Requests(log) : x.method = e.method /\ x.url = e.url}
<1> SUFFICES ASSUME TimelineInv, SaidInv,
                    NEW e \in ToSet(Known),
                    e.type \in Consuming \cup {"http_response"}, ~e.reduced, e.endpoint # <<>>,
                    \A x \in Asks(e) : x.operation = e.operation,
                    NEW p \in EndpointsOf(log), NEW x \in Asks(e), x.seq \in p.cites,
                    Cardinality({y.url.path : y \in {z \in Requests(log) : z.seq \in p.cites}})
                        <= MaxPaths
             PROVE  e.endpoint = p.key
  BY DEF OneRequestOneEndpoint
<1>1. PICK i \in DOMAIN log : e = [log[i] EXCEPT !.endpoint = KeyOf(log, EndpointsOf(log), log[i])]
  BY DEF Known, Attributed, ToSet
<1>2. PICK b : b = log[i]
  OBVIOUS
<1>3. DOMAIN b = DOMAIN Blank
  BY <1>2, LogIsOfEvents
<1>4. /\ e.endpoint = KeyOf(log, EndpointsOf(log), b) /\ e.method = b.method /\ e.url = b.url
      /\ e.operation = b.operation /\ e.type = b.type /\ e.reduced = b.reduced
  BY <1>1, <1>2, <1>3 DEF Blank
<1>5. \E r : /\ e.endpoint = KeyForRequest(r, EndpointsOf(log))
             /\ r.method = e.method /\ r.url = e.url /\ r.operation = e.operation
  <2>1. CASE e.type \in Consuming
    <3>1. e.endpoint = KeyForRequest(b, EndpointsOf(log))
      BY <1>4, <2>1 DEF KeyOf, Consuming
    <3>2. QED
      BY <1>4, <3>1
  <2>2. CASE e.type = "http_response"
    <3>1. e.endpoint = IF Asked(log, b) = 0 THEN <<>>
                       ELSE KeyForRequest(log[Asked(log, b)], EndpointsOf(log))
      BY <1>4, <2>2 DEF KeyOf
    <3>2. Asked(log, b) # 0 /\ e.endpoint = KeyForRequest(log[Asked(log, b)], EndpointsOf(log))
      BY <3>1
    <3>3. PICK r : r = log[Asked(log, b)]
      OBVIOUS
    <3>4. r \in Requests(log) /\ r.method = b.method /\ r.url = b.url
      BY <3>2, <3>3, AskedIs
    <3>5. r.operation = e.operation
      BY <1>4, <3>4
    <3>6. QED
      BY <1>4, <3>2, <3>3, <3>4, <3>5
  <2>3. QED
    BY <2>1, <2>2
<1>6. QED
  BY <1>5, LookedUp

(* However the requests of a session are templated and whenever its calls  *)
(* are logged, the driver, the page and the responses agree on the endpoint*)
(* of a URL (pipeline._attribute_events).                                  *)
THEOREM OneEndpointTheorem == Spec => []OneRequestOneEndpoint
BY SaidInvariant, OneEndpoint, PTL

-----------------------------------------------------------------------------
(* Sublists.                                                               *)

(* The numbers of a set, in order: all of them, each once.                 *)
LEMMA InOrderIs ==
    ASSUME NEW I \in SUBSET Nat, IsFiniteSet(I)
    PROVE  /\ Cardinality(I) \in Nat
           /\ InOrder(I) \in [1..Cardinality(I) -> I]
           /\ \A j, k \in 1..Cardinality(I) : j < k => InOrder(I)[j] < InOrder(I)[k]
           /\ \A i \in I : \E k \in 1..Cardinality(I) : InOrder(I)[k] = i
<1> DEFINE n == Cardinality(I)
           Under(i) == {j \in I : j < i}
           rank == [i \in I |-> Cardinality(Under(i))]
<1>1. n \in Nat
  BY FS_CardinalityType
<1>2. \A i \in I : IsFiniteSet(Under(i)) /\ Cardinality(Under(i)) \in Nat
  BY FS_Subset, FS_CardinalityType
<1>3. \A i, j \in I : i < j => rank[i] < rank[j]
  <2> SUFFICES ASSUME NEW i \in I, NEW j \in I, i < j PROVE rank[i] < rank[j]
    OBVIOUS
  <2>1. Under(i) \cup {i} \in SUBSET Under(j) /\ i \notin Under(i)
    <3>1. i \in Nat /\ j \in Nat /\ \A x \in I : x \in Nat
      OBVIOUS
    <3>2. ~(i < i) /\ \A x \in I : x < i => x < j
      BY <3>1
    <3>3. QED
      BY <3>2
  <2>2. Cardinality(Under(i) \cup {i}) = Cardinality(Under(i)) + 1
    BY <1>2, <2>1, FS_AddElement
  <2>3. Cardinality(Under(i) \cup {i}) <= Cardinality(Under(j))
    BY <1>2, <2>1, FS_Subset
  <2>4. QED
    BY <1>2, <2>2, <2>3
<1>4. \A i \in I : rank[i] \in 0..(n - 1)
  <2> SUFFICES ASSUME NEW i \in I PROVE rank[i] \in 0..(n - 1)
    OBVIOUS
  <2>1. Under(i) \in SUBSET (I \ {i})
    OBVIOUS
  <2>2. IsFiniteSet(I \ {i}) /\ Cardinality(I \ {i}) = n - 1
    BY FS_RemoveElement
  <2>3. Cardinality(Under(i)) <= n - 1
    BY <2>1, <2>2, FS_Subset
  <2>4. QED
    BY <1>1, <1>2, <2>3
<1> HIDE DEF rank, Under
<1>5. rank \in Surjection(I, 0..(n - 1))
  <2>1. rank \in [I -> 0..(n - 1)]
    BY <1>4 DEF rank
  <2>2. \A i, j \in I : rank[i] = rank[j] => i = j
    <3> SUFFICES ASSUME NEW i \in I, NEW j \in I, rank[i] = rank[j] PROVE i = j
      OBVIOUS
    <3>1. ~(rank[i] < rank[j]) /\ ~(rank[j] < rank[i])
      BY <1>1, <1>4
    <3>2. QED
      BY <1>3, <3>1
  <2>3. rank \in Injection(I, 0..(n - 1))
    BY <2>1, <2>2 DEF Injection, IsInjective
  <2>4. IsFiniteSet(0..(n - 1)) /\ Cardinality(0..(n - 1)) = n
    <3>1. PICK m \in Int : m = n - 1
      BY <1>1
    <3>2. IsFiniteSet(0..m) /\ Cardinality(0..m) = IF 0 > m THEN 0 ELSE m - 0 + 1
      BY FS_Interval
    <3>3. QED
      BY <1>1, <3>1, <3>2
  <2>5. QED
    BY <2>3, <2>4, FS_Injection
<1>6. \A k \in 1..n : InOrder(I)[k] \in I /\ rank[InOrder(I)[k]] = k - 1
  <2> SUFFICES ASSUME NEW k \in 1..n
               PROVE  InOrder(I)[k] \in I /\ rank[InOrder(I)[k]] = k - 1
    OBVIOUS
  <2>1. k - 1 \in 0..(n - 1)
    BY <1>1
  <2>2. PICK i \in I : rank[i] = k - 1
    BY <1>5, <2>1 DEF Surjection
  <2>3. InOrder(I)[k] = CHOOSE x \in I : Cardinality({j \in I : j < x}) = k - 1
    BY DEF InOrder
  <2>4. \A x \in I : rank[x] = Cardinality({j \in I : j < x})
    BY DEF rank, Under
  <2>5. QED
    BY <2>2, <2>3, <2>4
<1>7. InOrder(I) \in [1..n -> I]
  BY <1>6 DEF InOrder
<1>8. \A j, k \in 1..n : j < k => InOrder(I)[j] < InOrder(I)[k]
  <2> SUFFICES ASSUME NEW j \in 1..n, NEW k \in 1..n, j < k PROVE InOrder(I)[j] < InOrder(I)[k]
    OBVIOUS
  <2> DEFINE x == InOrder(I)[j]
             y == InOrder(I)[k]
  <2>1. x \in I /\ y \in I /\ rank[x] < rank[y]
    BY <1>1, <1>6
  <2> HIDE DEF x, y
  <2>2. ~(y < x) /\ y # x
    BY <1>1, <1>3, <1>4, <2>1
  <2>3. x < y
    BY <2>1, <2>2
  <2>4. QED
    BY <2>3 DEF x, y
<1>9. \A i \in I : \E k \in 1..n : InOrder(I)[k] = i
  <2> SUFFICES ASSUME NEW i \in I PROVE \E k \in 1..n : InOrder(I)[k] = i
    OBVIOUS
  <2>1. rank[i] + 1 \in 1..n
    BY <1>1, <1>4
  <2>2. PICK k \in 1..n : k = rank[i] + 1
    BY <2>1
  <2>3. rank[InOrder(I)[k]] = rank[i] /\ InOrder(I)[k] \in I
    BY <1>1, <1>4, <1>6, <2>2
  <2>4. PICK x \in I : x = InOrder(I)[k]
    BY <2>3
  <2>5. InOrder(I)[k] = i
    <3>1. ~(rank[x] < rank[i]) /\ ~(rank[i] < rank[x])
      BY <1>1, <1>4, <2>3, <2>4
    <3>2. ~(x < i) /\ ~(i < x) /\ x \in Nat /\ i \in Nat
      BY <1>3, <3>1
    <3>3. QED
      BY <2>4, <3>2
  <2>6. QED
    BY <2>5
<1>10. QED
  BY <1>1, <1>7, <1>8, <1>9

(* What a list has at some of its positions is a list, in their order.     *)
LEMMA ThoseAre ==
    ASSUME NEW S, NEW s \in Seq(S), NEW I \in SUBSET (DOMAIN s)
    PROVE  \E order : /\ order \in [1..Len(Those(s, I)) -> I]
                      /\ \A k \in 1..Len(Those(s, I)) : Those(s, I)[k] = s[order[k]]
                      /\ \A j, k \in 1..Len(Those(s, I)) : j < k => order[j] < order[k]
                      /\ \A i \in I : \E k \in 1..Len(Those(s, I)) : order[k] = i
                      /\ Those(s, I) \in Seq(S)
                      /\ Len(Those(s, I)) = Cardinality(I)
<1>1. I \in SUBSET Nat /\ IsFiniteSet(I)
  <2>1. DOMAIN s = 1..Len(s) /\ Len(s) \in Nat
    OBVIOUS
  <2>2. IsFiniteSet(1..Len(s))
    BY <2>1, FS_Interval
  <2>3. QED
    BY <2>1, <2>2, FS_Subset
<1> DEFINE n == Cardinality(I)
<1>2. /\ n \in Nat /\ InOrder(I) \in [1..n -> I]
      /\ \A j, k \in 1..n : j < k => InOrder(I)[j] < InOrder(I)[k]
      /\ \A i \in I : \E k \in 1..n : InOrder(I)[k] = i
  BY <1>1, InOrderIs
<1> HIDE DEF n
<1>3. Those(s, I) = [k \in 1..n |-> s[InOrder(I)[k]]]
  BY <1>2 DEF Those
<1>4. \A k \in 1..n : s[InOrder(I)[k]] \in S
  BY <1>2
<1>5. Those(s, I) \in Seq(S) /\ Len(Those(s, I)) = n
  BY <1>2, <1>3, <1>4
<1>6. QED
  <2> WITNESS InOrder(I)
  <2> QED
    BY <1>2, <1>3, <1>5 DEF n

(* What a comprehension takes, and what is left without repeats.           *)
LEMMA ThoseHold ==
    ASSUME NEW S, NEW s \in Seq(S), NEW I \in SUBSET (DOMAIN s)
    PROVE  \A v : v \in ToSet(Those(s, I)) <=> (\E i \in I : v = s[i])
<1>1. PICK order : /\ order \in [1..Len(Those(s, I)) -> I]
                   /\ \A k \in 1..Len(Those(s, I)) : Those(s, I)[k] = s[order[k]]
                   /\ \A i \in I : \E k \in 1..Len(Those(s, I)) : order[k] = i
                   /\ Those(s, I) \in Seq(S)
  BY ThoseAre
<1>2. DOMAIN Those(s, I) = 1..Len(Those(s, I))
  BY <1>1
<1>3. QED
  BY <1>1, <1>2 DEF ToSet

LEMMA DistinctHolds ==
    ASSUME NEW S, NEW s \in Seq(S)
    PROVE  \A v : v \in ToSet(Distinct(s)) <=> v \in ToSet(s)
<1>1. Firsts(s) \in SUBSET (DOMAIN s)
  BY DEF Firsts
<1>2. \A v : v \in ToSet(Distinct(s)) <=> \E i \in Firsts(s) : v = s[i]
  BY <1>1, ThoseHold DEF Distinct
<1>3. ASSUME NEW i \in DOMAIN s PROVE \E j \in Firsts(s) : s[i] = s[j]
  <2> DEFINE Same == {j \in DOMAIN s : s[j] = s[i]}
  <2>1. Same \in SUBSET Nat /\ Same # {}
    OBVIOUS
  <2>2. PICK j \in Same : \A k \in Same : j <= k
    BY <2>1, LeastOne
  <2>3. ASSUME NEW k \in 1..(j - 1) PROVE s[k] # s[j]
    <3>1. k \in DOMAIN s /\ k \in Nat /\ j \in Nat /\ k < j
      BY <2>3
    <3>2. QED
      BY <2>2, <3>1
  <2>4. QED
    BY <2>2, <2>3 DEF Firsts
<1>4. QED
  BY <1>1, <1>2, <1>3 DEF ToSet

-----------------------------------------------------------------------------
(* The activities.                                                         *)

(* What a marker that begins no activity is not.                           *)
LEMMA NoBoundary ==
    ASSUME NEW markers, NEW i, i # 1, Boundary(markers, i) = "none"
    PROVE  /\ ~IsSubmit(markers[i - 1])
           /\ ~(markers[i].wall - markers[i - 1].wall > IdleGap)
           /\ IsNavigation(markers[i]) =>
                  SectionBefore(markers, i) \in {{}, {FirstSection(markers[i].url)}}
<1> DEFINE here == FirstSection(markers[i].url)
           was == SectionBefore(markers, i)
<1>1. ~IsSubmit(markers[i - 1])
  BY Zenon DEF Boundary
<1>2. ~(markers[i].wall - markers[i - 1].wall > IdleGap)
  BY <1>1, Zenon DEF Boundary
<1>3. QED
  BY <1>1, <1>2 DEF Boundary

(* The runs of a list of n that begin at the numbers of B, and where the    *)
(* one after the k-th begins.                                              *)
Heads(n, B) == n \in Nat /\ B \in SUBSET (1..n) /\ (n # 0 => 1 \in B)
After(n, B, k) == IF k = Len(InOrder(B)) THEN n + 1 ELSE InOrder(B)[k + 1]

(* They cover the list, without gaps or overlaps, and within one nothing   *)
(* else begins.                                                            *)
LEMMA HeadsCover ==
    ASSUME NEW n, NEW B, Heads(n, B)
    PROVE  LET st == InOrder(B)
               m == Len(st)
           IN  /\ m \in Nat /\ DOMAIN st = 1..m
               /\ \A k \in 1..m : /\ st[k] \in B /\ st[k] \in 1..n
                                  /\ After(n, B, k) \in 1..(n + 1)
                                  /\ k # m => After(n, B, k) \in B /\ After(n, B, k) \in 1..n
                                  /\ st[k] < After(n, B, k)
               /\ \A i \in 1..n : \E k \in 1..m : st[k] <= i /\ i < After(n, B, k)
               /\ \A j, k \in 1..m : j < k => After(n, B, j) <= st[k]
               /\ \A k \in 1..m : \A i \in 1..n :
                      st[k] < i /\ i < After(n, B, k) => i \notin B
<1> DEFINE st == InOrder(B)
           m == Cardinality(B)
           U(k) == IF k = m THEN n + 1 ELSE st[k + 1]
<1>1. n \in Nat /\ B \in SUBSET (1..n)
  BY DEF Heads
<1>2. B \in SUBSET Nat /\ IsFiniteSet(B)
  <2>1. \A i \in B : i \in Nat /\ i <= n
    BY <1>1
  <2>2. B \in SUBSET Nat
    BY <2>1
  <2>3. QED
    BY <1>1, <2>1, <2>2, FS_BoundedSetOfNaturals
<1>3. /\ m \in Nat /\ st \in [1..m -> B]
      /\ \A j, k \in 1..m : j < k => st[j] < st[k]
      /\ \A i \in B : \E k \in 1..m : st[k] = i
  BY <1>2, InOrderIs
<1>4. DOMAIN st = 1..m /\ Len(st) = m
  BY <1>3
<1>5. \A k \in 1..m : After(n, B, k) = U(k)
  BY <1>4 DEF After
<1>6. \A k \in 1..m : st[k] \in 1..n
  BY <1>1, <1>3
<1>7. \A k \in 1..m : k # m => k + 1 \in 1..m /\ k < k + 1
  BY <1>3
<1>8. \A k \in 1..m : /\ U(k) \in 1..(n + 1) /\ st[k] < U(k)
                      /\ k # m => U(k) \in B /\ U(k) \in 1..n
  <2> SUFFICES ASSUME NEW k \in 1..m
               PROVE  U(k) \in 1..(n + 1) /\ st[k] < U(k) /\ (k # m => U(k) \in B /\ U(k) \in 1..n)
    OBVIOUS
  <2>1. CASE k = m
    BY <1>1, <1>6, <2>1
  <2>2. CASE k # m
    <3>1. st[k + 1] \in B /\ st[k + 1] \in 1..n /\ st[k] < st[k + 1]
      BY <1>3, <1>6, <1>7, <2>2
    <3>2. QED
      BY <1>1, <2>2, <3>1
  <2>3. QED
    BY <2>1, <2>2
<1>9. 1 \in 1..n => 1 \in B
  BY <1>1 DEF Heads
<1>10. \A j, k \in 1..m : j < k => U(j) <= st[k]
  <2> SUFFICES ASSUME NEW j \in 1..m, NEW k \in 1..m, j < k PROVE U(j) <= st[k]
    OBVIOUS
  <2>1. j # m /\ j + 1 \in 1..m
    BY <1>3
  <2>2. CASE j + 1 = k
    BY <1>6, <2>1, <2>2
  <2>3. CASE j + 1 # k
    <3>1. j + 1 < k
      BY <2>3
    <3>2. st[j + 1] < st[k] /\ st[j + 1] \in 1..n /\ st[k] \in 1..n
      BY <1>3, <1>6, <2>1, <3>1
    <3>3. QED
      BY <1>1, <2>1, <3>2
  <2>4. QED
    BY <2>2, <2>3
<1>11. \A i \in 1..n : \E k \in 1..m : st[k] <= i /\ i < U(k)
  <2> SUFFICES ASSUME NEW i \in 1..n PROVE \E k \in 1..m : st[k] <= i /\ i < U(k)
    OBVIOUS
  <2> DEFINE Past == {k \in 1..m : i < st[k]}
  <2>1. 1 \in 1..n
    BY <1>1
  <2>2. PICK one \in 1..m : st[one] = 1
    BY <1>3, <1>9, <2>1
  <2>3. CASE Past = {}
    <3>1. m \in 1..m
      BY <1>3, <2>2
    <3>2. st[m] <= i /\ i < U(m)
      BY <1>1, <1>6, <2>3, <3>1
    <3>3. QED
      BY <3>1, <3>2
  <2>4. CASE Past # {}
    <3>1. PICK k \in Past : \A l \in Past : k <= l
      <4>1. Past \in SUBSET Nat
        BY <1>3
      <4> HIDE DEF Past
      <4>2. QED
        BY <2>4, <4>1, LeastOne
    <3>2. k # 1
      <4>1. i < st[k] /\ 1 <= i
        BY <1>1, <3>1
      <4>2. CASE one = 1
        BY <2>2, <4>1, <4>2, <1>1
      <4>3. CASE one # 1
        <5>1. 1 \in 1..m /\ 1 < one
          BY <1>3, <2>2, <4>3
        <5>2. st[1] < 1 /\ st[1] \in 1..n
          BY <1>3, <1>6, <2>2, <5>1
        <5>3. QED
          BY <1>1, <5>2
      <4>4. QED
        BY <4>2, <4>3
    <3>3. k - 1 \in 1..m /\ k - 1 # m /\ k - 1 + 1 = k
      BY <1>3, <3>1, <3>2
    <3>4. k - 1 \notin Past
      BY <1>3, <3>1, <3>3
    <3>5. st[k - 1] <= i /\ i < st[k]
      BY <1>1, <1>6, <3>1, <3>3, <3>4
    <3>6. QED
      BY <3>3, <3>5
  <2>5. QED
    BY <2>3, <2>4
<1>12. ASSUME NEW k \in 1..m, NEW i \in 1..n, st[k] < i, i < U(k)
       PROVE  i \notin B
  <2>1. ASSUME i \in B PROVE FALSE
    <3>1. PICK l \in 1..m : st[l] = i
      BY <1>3, <2>1
    <3>2. l \in Nat /\ k \in Nat /\ st[k] \in Nat /\ st[l] \in Nat
      BY <1>1, <1>3, <1>6
    <3>3. CASE l < k
      <4>1. st[l] < st[k]
        BY <1>3, <3>3
      <4>2. QED
        BY <1>12, <3>1, <3>2, <4>1
    <3>4. CASE l = k
      BY <1>12, <3>1, <3>2, <3>4
    <3>5. CASE k < l
      <4>1. U(k) <= i
        BY <1>10, <3>1, <3>5
      <4>2. U(k) \in Nat /\ i \in Nat
        BY <1>1, <1>8
      <4>3. QED
        BY <1>12, <4>1, <4>2
    <3>6. QED
      BY <3>2, <3>3, <3>4, <3>5
  <2>2. QED
    BY <1>1, <2>1
<1> HIDE DEF st, m, U
<1>13. QED
  <2>1. Len(st) = m /\ InOrder(B) = st
    BY <1>4 DEF st
  <2>2. \A k \in 1..m : U(k) = After(n, B, k)
    BY <1>5
  <2>3. QED
    BY <1>3, <1>4, <1>6, <1>8, <1>10, <1>11, <1>12, <2>1, <2>2

(* Where the activities begin, and where the next one begins.              *)
Begins(markers) == {i \in DOMAIN markers : Boundary(markers, i) # "none"}
Until(markers, k) == After(Len(markers), Begins(markers), k)

LEMMA StartsCover ==
    ASSUME NEW S, NEW markers \in Seq(S)
    PROVE  /\ Heads(Len(markers), Begins(markers))
           /\ \A i \in 1..Len(markers) : i \notin Begins(markers) => Boundary(markers, i) = "none"
<1>1. Len(markers) \in Nat /\ DOMAIN markers = 1..Len(markers)
  OBVIOUS
<1>2. 1 \in 1..Len(markers) => 1 \in Begins(markers)
  BY <1>1 DEF Boundary, Begins
<1>3. QED
  BY <1>1, <1>2 DEF Heads, Begins

(* The navigations of an activity are in one section: none begins another. *)
LEMMA OneSection ==
    ASSUME NEW S, NEW markers \in Seq(S), NEW a \in 1..Len(markers), NEW b \in 1..(Len(markers) + 1),
           \A i \in 1..Len(markers) : a < i /\ i < b => Boundary(markers, i) = "none",
           NEW i \in 1..Len(markers), NEW j \in 1..Len(markers), a <= i, i < j, j < b,
           IsNavigation(markers[i]), IsNavigation(markers[j])
    PROVE  FirstSection(markers[i].url) = FirstSection(markers[j].url)
<1> DEFINE n == Len(markers)
           Section(k) == FirstSection(markers[k].url)
           Wrong == {k \in 1..n : i < k /\ k < b /\ IsNavigation(markers[k]) /\ Section(k) # Section(i)}
<1>1. n \in Nat
  OBVIOUS
<1>2. ASSUME Wrong # {} PROVE FALSE
  <2>1. PICK k \in Wrong : \A l \in Wrong : k <= l
    <3>1. Wrong \in SUBSET Nat
      BY <1>1
    <3> HIDE DEF Wrong
    <3>2. QED
      BY <1>2, <3>1, LeastOne
  <2>2. k \in 1..n /\ i < k /\ k < b /\ IsNavigation(markers[k]) /\ Section(k) # Section(i)
    BY <2>1
  <2>3. Boundary(markers, k) = "none" /\ k # 1
    BY <1>1, <2>2
  <2> DEFINE before == {l \in 1..(k - 1) : IsNavigation(markers[l])}
             q == Max(before)
  <2>4. SectionBefore(markers, k) \in {{}, {Section(k)}}
    <3> HIDE DEF Wrong
    <3>1. SectionBefore(markers, k) \in {{}, {FirstSection(markers[k].url)}}
      BY <2>2, <2>3, NoBoundary
    <3>2. QED
      BY <3>1
  <2>5. i \in before /\ before \in SUBSET Nat
    BY <1>1, <2>2
  <2>6. q \in before /\ \A l \in before : l <= q
    <3>1. PICK top \in before : \A l \in before : l <= top
      <4> DEFINE Left == {k - l : l \in before}
      <4>1. Left \in SUBSET Nat /\ Left # {}
        BY <1>1, <2>2, <2>5
      <4> HIDE DEF Left
      <4>2. PICK x \in Left : \A y \in Left : x <= y
        BY <4>1, LeastOne
      <4>3. PICK top \in before : x = k - top
        BY <4>2 DEF Left
      <4>4. ASSUME NEW l \in before PROVE l <= top
        <5>1. k - l \in Left
          BY <4>4 DEF Left
        <5>2. k - top <= k - l
          BY <4>2, <4>3, <5>1
        <5>3. k \in Nat /\ l \in Nat /\ top \in Nat
          BY <1>1, <2>2, <2>5, <4>3, <4>4
        <5>4. QED
          BY <5>2, <5>3
      <4>5. QED
        BY <4>3, <4>4
    <3>2. QED
      BY <3>1 DEF Max
  <2> HIDE DEF q
  <2>7. SectionBefore(markers, k) = {Section(q)}
    BY <2>5 DEF SectionBefore, q
  <2>8. Section(q) = Section(k)
    BY <2>4, <2>7
  <2>9. q \in 1..n /\ i <= q /\ q < k /\ IsNavigation(markers[q])
    BY <1>1, <2>2, <2>5, <2>6
  <2>10. q # i
    BY <2>2, <2>8
  <2>11. q < b
    BY <1>1, <2>2, <2>9
  <2>12. q \in Wrong
    <3>1. i < q
      BY <1>1, <2>9, <2>10
    <3>2. Section(q) # Section(i)
      BY <2>2, <2>8
    <3> HIDE DEF Section
    <3>3. QED
      BY <2>9, <2>11, <3>1, <3>2
  <2>13. k <= q
    BY <2>1, <2>12
  <2>14. QED
    BY <1>1, <2>2, <2>9, <2>13
<1>3. QED
  BY <1>2

(* The markers are events of the log, in its order.                        *)
LEMMA MarkersAre ==
    ASSUME TimelineInv, SaidInv
    PROVE  LET markers == Markers(log)
           IN  /\ markers \in Seq(ToSet(log))
               /\ \A k \in 1..Len(markers) : markers[k].seq \in Nat /\ markers[k].wall \in Nat
               /\ \A j, k \in 1..Len(markers) : j < k => markers[j].seq < markers[k].seq
<1>1. log \in Seq(ToSet(log)) /\ (\A i \in DOMAIN log : log[i].seq = i /\ log[i].wall \in Nat)
  BY LogIsOfEvents
<1>2. Marked(log) \in SUBSET (DOMAIN log)
  BY DEF Marked
<1> DEFINE markers == Those(log, Marked(log))
<1>3. PICK order : /\ order \in [1..Len(markers) -> Marked(log)]
                   /\ \A k \in 1..Len(markers) : markers[k] = log[order[k]]
                   /\ \A j, k \in 1..Len(markers) : j < k => order[j] < order[k]
                   /\ markers \in Seq(ToSet(log))
  BY <1>1, <1>2, ThoseAre
<1> HIDE DEF markers
<1>4. \A k \in 1..Len(markers) : order[k] \in Nat /\ markers[k].seq = order[k] /\ markers[k].wall \in Nat
  BY <1>1, <1>2, <1>3
<1>5. Markers(log) = markers
  BY DEF Markers, markers
<1>6. QED
  BY <1>3, <1>4, <1>5

(* What an activity is made of.                                            *)
LEMMA ActivityIs ==
    ASSUME NEW S, NEW events \in Seq(S), NEW T, NEW markers \in Seq(T),
           NEW i \in 1..Len(markers), NEW j \in 1..(Len(markers) + 1), i < j
    PROVE  LET a == Activity(events, markers, i, j)
           IN  /\ a.start = markers[i].seq /\ a.end = markers[j - 1].seq
               /\ \A e : e \in a.cites <=> (\E x \in i..(j - 1) : e = markers[x])
               /\ \A x \in DOMAIN events :
                     /\ events[x].type \in RequestTypes /\ ~events[x].reduced
                     /\ events[x].seq >= markers[i].seq
                     /\ j <= Len(markers) => events[x].seq < markers[j].seq
                     => RouteShape(events[x].url) \in ToSet(a.endpoints)
<1> DEFINE a == Activity(events, markers, i, j)
           own == SubSeq(markers, i, j - 1)
           inside == {x \in DOMAIN events : /\ events[x].seq >= markers[i].seq
                                            /\ ~(j > Len(markers)) => events[x].seq < markers[j].seq}
           window == Those(events, inside)
<1>1. /\ a.start = markers[i].seq /\ a.end = markers[j - 1].seq
      /\ a.cites = ToSet(own) /\ a.endpoints = Called(window)
  BY Zenon DEF Activity
<1>2. \A e : e \in ToSet(own) <=> \E x \in i..(j - 1) : e = markers[x]
  <2>1. Len(markers) \in Nat /\ DOMAIN own = 1..(j - i) /\ \A y \in 1..(j - i) : own[y] = markers[i + y - 1]
    OBVIOUS
  <2> HIDE DEF own
  <2>2. \A x \in i..(j - 1) : x - i + 1 \in 1..(j - i) /\ i + (x - i + 1) - 1 = x
    BY <2>1
  <2>3. \A y \in 1..(j - i) : i + y - 1 \in i..(j - 1)
    BY <2>1
  <2>4. \A e : (\E x \in i..(j - 1) : e = markers[x]) => e \in ToSet(own)
    <3> SUFFICES ASSUME NEW x \in i..(j - 1) PROVE markers[x] \in ToSet(own)
      OBVIOUS
    <3>1. own[x - i + 1] = markers[x] /\ x - i + 1 \in DOMAIN own
      BY <2>1, <2>2
    <3>2. QED
      BY <3>1 DEF ToSet
  <2>5. QED
    BY <2>1, <2>3, <2>4 DEF ToSet
<1>3. ASSUME NEW x \in DOMAIN events, events[x].type \in RequestTypes, ~events[x].reduced, x \in inside
      PROVE  RouteShape(events[x].url) \in ToSet(Called(window))
  <2> DEFINE asked == {y \in DOMAIN window : window[y].type \in RequestTypes /\ ~window[y].reduced}
             calls == Those(window, asked)
             shapes == [y \in DOMAIN calls |-> RouteShape(calls[y].url)]
  <2>1. inside \in SUBSET (DOMAIN events)
    OBVIOUS
  <2>2. window \in Seq(S) /\ events[x] \in ToSet(window)
    <3> HIDE DEF inside
    <3>1. \A v : v \in ToSet(window) <=> (\E y \in inside : v = events[y])
      BY <2>1, ThoseHold
    <3>2. window \in Seq(S)
      BY <2>1, ThoseAre
    <3>3. QED
      BY <1>3, <3>1, <3>2
  <2> HIDE DEF window
  <2>3. PICK y \in DOMAIN window : window[y] = events[x]
    BY <2>2 DEF ToSet
  <2>4. asked \in SUBSET (DOMAIN window) /\ y \in asked
    BY <1>3, <2>3
  <2>5. calls \in Seq(S) /\ events[x] \in ToSet(calls)
    <3> HIDE DEF asked
    <3>1. \A v : v \in ToSet(calls) <=> (\E z \in asked : v = window[z])
      BY <2>2, <2>4, ThoseHold
    <3>2. calls \in Seq(S)
      BY <2>2, <2>4, ThoseAre
    <3>3. QED
      BY <2>3, <2>4, <3>1, <3>2
  <2>6. Called(window) = Distinct(shapes)
    BY DEF Called, Shapes
  <2> HIDE DEF calls
  <2>7. PICK z \in DOMAIN calls : calls[z] = events[x]
    BY <2>5 DEF ToSet
  <2>8. shapes \in Seq({RouteShape(v.url) : v \in S})
    BY <2>5
  <2>9. RouteShape(events[x].url) \in ToSet(shapes)
    <3>1. shapes[z] = RouteShape(events[x].url) /\ z \in DOMAIN shapes
      BY <2>7
    <3>2. QED
      BY <3>1 DEF ToSet
  <2> HIDE DEF shapes
  <2>10. QED
    BY <2>6, <2>8, <2>9, DistinctHolds
<1>4. \A x \in DOMAIN events : /\ events[x].seq >= markers[i].seq
                               /\ j <= Len(markers) => events[x].seq < markers[j].seq
                               => x \in inside
  <2>1. ~(j > Len(markers)) => j <= Len(markers)
    OBVIOUS
  <2>2. QED
    BY <2>1
<1> HIDE DEF a, own, inside, window
<1>5. QED
  BY <1>1, <1>2, <1>3, <1>4 DEF a

LEMMA Partitioned == TimelineInv /\ SaidInv => ActivitiesPartition
<1> SUFFICES ASSUME TimelineInv, SaidInv PROVE ActivitiesPartition
  OBVIOUS
<1>1. PICK markers : markers = Markers(log)
  OBVIOUS
<1> DEFINE n == Len(markers)
           st == InOrder(Begins(markers))
           m == Len(st)
           U(k) == Until(markers, k)
           act == Activities(log)
           Within(a, e) == a.start <= e.seq /\ e.seq <= a.end
           Before(a, e) == {x \in a.cites : x.seq < e.seq}
<1>2. log \in Seq(ToSet(log)) /\ (\A i \in DOMAIN log : log[i].seq = i)
  BY LogIsOfEvents
<1>3. /\ markers \in Seq(ToSet(log))
      /\ \A k \in 1..n : markers[k].seq \in Nat /\ markers[k].wall \in Nat
      /\ \A j, k \in 1..n : j < k => markers[j].seq < markers[k].seq
  BY <1>1, MarkersAre
<1>4. n \in Nat /\ DOMAIN markers = 1..n
  BY <1>3
<1>5. /\ m \in Nat /\ DOMAIN st = 1..m
      /\ \A k \in 1..m : /\ st[k] \in 1..n
                         /\ U(k) \in 1..(n + 1)
                         /\ k # m => U(k) \in 1..n
                         /\ st[k] < U(k)
      /\ \A i \in 1..n : \E k \in 1..m : st[k] <= i /\ i < U(k)
      /\ \A j, k \in 1..m : j < k => U(j) <= st[k]
      /\ \A k \in 1..m : \A i \in 1..n : st[k] < i /\ i < U(k) => Boundary(markers, i) = "none"
  <2>1. PICK B : B = Begins(markers)
    OBVIOUS
  <2>2. PICK l : l = n
    OBVIOUS
  <2>3. Heads(l, B) /\ \A i \in 1..l : i \notin B => Boundary(markers, i) = "none"
    BY <1>3, <2>1, <2>2, StartsCover
  <2>4. QED
    BY <2>1, <2>2, <2>3, HeadsCover DEF Until
<1>6. act = [k \in 1..m |-> Activity(log, markers, st[k], U(k))]
  <2>1. Activities(log) = [k \in DOMAIN st |-> Activity(log, markers, st[k],
                                IF k = Len(st) THEN Len(markers) + 1 ELSE st[k + 1])]
    BY <1>1 DEF Activities, Begins
  <2>2. QED
    BY <1>5, <2>1 DEF Until, After
<1> HIDE DEF st, m, U
<1>7. \A k \in 1..m :
          /\ act[k].start = markers[st[k]].seq /\ act[k].end = markers[U(k) - 1].seq
          /\ U(k) - 1 \in 1..n /\ st[k] <= U(k) - 1
          /\ \A e : e \in act[k].cites <=> (\E x \in st[k]..(U(k) - 1) : e = markers[x])
          /\ \A x \in DOMAIN log :
                /\ log[x].type \in RequestTypes /\ ~log[x].reduced
                /\ log[x].seq >= markers[st[k]].seq
                /\ U(k) <= n => log[x].seq < markers[U(k)].seq
                => RouteShape(log[x].url) \in ToSet(act[k].endpoints)
  <2> SUFFICES ASSUME NEW k \in 1..m
               PROVE  /\ act[k].start = markers[st[k]].seq /\ act[k].end = markers[U(k) - 1].seq
                      /\ U(k) - 1 \in 1..n /\ st[k] <= U(k) - 1
                      /\ \A e : e \in act[k].cites <=> (\E x \in st[k]..(U(k) - 1) : e = markers[x])
                      /\ \A x \in DOMAIN log :
                            /\ log[x].type \in RequestTypes /\ ~log[x].reduced
                            /\ log[x].seq >= markers[st[k]].seq
                            /\ U(k) <= n => log[x].seq < markers[U(k)].seq
                            => RouteShape(log[x].url) \in ToSet(act[k].endpoints)
    OBVIOUS
  <2>1. PICK i \in 1..n : i = st[k]
    BY <1>5
  <2>2. PICK j \in 1..(n + 1) : j = U(k) /\ i < j
    BY <1>5, <2>1
  <2>3. act[k] = Activity(log, markers, i, j)
    BY <1>6, <2>1, <2>2
  <2>4. j - 1 \in 1..n /\ i <= j - 1
    BY <1>4, <2>2
  <2> HIDE DEF act
  <2>5. LET a == Activity(log, markers, i, j)
        IN  /\ a.start = markers[i].seq /\ a.end = markers[j - 1].seq
            /\ \A e : e \in a.cites <=> (\E x \in i..(j - 1) : e = markers[x])
            /\ \A x \in DOMAIN log :
                  /\ log[x].type \in RequestTypes /\ ~log[x].reduced
                  /\ log[x].seq >= markers[i].seq
                  /\ j <= Len(markers) => log[x].seq < markers[j].seq
                  => RouteShape(log[x].url) \in ToSet(a.endpoints)
    <3>1. PICK S : log \in Seq(S) /\ markers \in Seq(S)
      BY <1>2, <1>3
    <3>2. QED
      BY <2>2, <3>1, ActivityIs
  <2>6. QED
    BY <2>1, <2>2, <2>3, <2>4, <2>5
<1>8. DOMAIN act = 1..m
  BY <1>6
<1> HIDE DEF act
<1>9. \A j, k \in 1..n : markers[j].seq <= markers[k].seq <=> j <= k
  <2> SUFFICES ASSUME NEW j \in 1..n, NEW k \in 1..n
               PROVE  markers[j].seq <= markers[k].seq <=> j <= k
    OBVIOUS
  <2>1. j < k \/ j = k \/ k < j
    BY <1>4
  <2>2. markers[j].seq \in Nat /\ markers[k].seq \in Nat /\ j \in Nat /\ k \in Nat
    BY <1>3, <1>4
  <2>3. QED
    BY <1>3, <2>1, <2>2
<1>10. UNION {a.cites : a \in ToSet(act)} = ToSet(markers)
  <2>1. ASSUME NEW k \in 1..m, NEW e \in act[k].cites PROVE e \in ToSet(markers)
    <3>1. PICK x \in st[k]..(U(k) - 1) : e = markers[x]
      BY <1>7, <2>1
    <3>2. st[k] \in 1..n /\ U(k) - 1 \in 1..n
      BY <1>5, <1>7
    <3>3. x \in 1..n
      BY <1>4, <3>1, <3>2
    <3>4. QED
      BY <1>4, <3>1, <3>3 DEF ToSet
  <2>2. ASSUME NEW x \in 1..n PROVE \E k \in 1..m : markers[x] \in act[k].cites
    <3>1. PICK k \in 1..m : st[k] <= x /\ x < U(k)
      BY <1>5, <2>2
    <3>2. x \in st[k]..(U(k) - 1)
      BY <1>4, <1>5, <3>1
    <3>3. QED
      BY <1>7, <3>2
  <2>3. \A a \in ToSet(act) : \E k \in 1..m : a = act[k]
    BY <1>8 DEF ToSet
  <2>4. \A k \in 1..m : act[k] \in ToSet(act)
    BY <1>8 DEF ToSet
  <2>5. \A e \in ToSet(markers) : \E x \in 1..n : e = markers[x]
    BY <1>4 DEF ToSet
  <2>6. QED
    BY <2>1, <2>2, <2>3, <2>4, <2>5
<1>11. \A i, j \in 1..m : i < j => act[i].end < act[j].start
  <2> SUFFICES ASSUME NEW i \in 1..m, NEW j \in 1..m, i < j PROVE act[i].end < act[j].start
    OBVIOUS
  <2>1. U(i) <= st[j] /\ U(i) \in 1..(n + 1) /\ U(i) - 1 \in 1..n /\ st[j] \in 1..n
    BY <1>5, <1>7
  <2>2. U(i) - 1 < st[j]
    BY <1>4, <2>1
  <2>3. QED
    BY <1>3, <1>7, <2>1, <2>2
<1>12. PICK S : markers \in Seq(S)
  BY <1>3
<1>13. ASSUME NEW k \in 1..m
       PROVE  /\ act[k].cites = {e \in ToSet(markers) : Within(act[k], e)}
              /\ \A e \in act[k].cites :
                    /\ IsSubmit(e) => e.seq = act[k].end
                    /\ e.seq # act[k].start => \E x \in Before(act[k], e) : e.wall - x.wall <= IdleGap
                    /\ \A x \in act[k].cites : IsNavigation(x) /\ IsNavigation(e)
                                               => FirstSection(x.url) = FirstSection(e.url)
              /\ \A x \in DOMAIN log : /\ log[x].type \in RequestTypes /\ ~log[x].reduced
                                       /\ Within(act[k], log[x])
                                       => RouteShape(log[x].url) \in ToSet(act[k].endpoints)
  <2>1. PICK a, b : a = st[k] /\ b = U(k)
    OBVIOUS
  <2>2. a \in 1..n /\ b \in 1..(n + 1) /\ b - 1 \in 1..n /\ a <= b - 1 /\ a < b
    BY <1>5, <1>7, <2>1
  <2>3. /\ act[k].start = markers[a].seq /\ act[k].end = markers[b - 1].seq
        /\ \A e : e \in act[k].cites <=> (\E x \in a..(b - 1) : e = markers[x])
    BY <1>7, <2>1
  <2>4. \A i \in 1..n : a < i /\ i < b => Boundary(markers, i) = "none"
    BY <1>5, <2>1
  <2>5. \A x \in a..(b - 1) : x \in 1..n /\ a <= x /\ x < b
    BY <1>4, <2>2
  <2>6. act[k].cites = {e \in ToSet(markers) : Within(act[k], e)}
    <3>1. \A x \in 1..n : Within(act[k], markers[x]) <=> x \in a..(b - 1)
      <4> SUFFICES ASSUME NEW x \in 1..n PROVE Within(act[k], markers[x]) <=> x \in a..(b - 1)
        OBVIOUS
      <4>1. markers[a].seq <= markers[x].seq <=> a <= x
        BY <1>9, <2>2
      <4>2. markers[x].seq <= markers[b - 1].seq <=> x <= b - 1
        BY <1>9, <2>2
      <4>3. QED
        BY <1>4, <2>2, <2>3, <4>1, <4>2
    <3> HIDE DEF Within
    <3>2. QED
      BY <1>4, <2>3, <2>5, <3>1 DEF ToSet
  <2>7. ASSUME NEW e \in act[k].cites
        PROVE  /\ IsSubmit(e) => e.seq = act[k].end
               /\ e.seq # act[k].start => \E x \in Before(act[k], e) : e.wall - x.wall <= IdleGap
               /\ \A x \in act[k].cites : IsNavigation(x) /\ IsNavigation(e)
                                          => FirstSection(x.url) = FirstSection(e.url)
    <3>1. PICK i \in a..(b - 1) : e = markers[i]
      BY <2>3, <2>7
    <3>2. i \in 1..n /\ a <= i /\ i < b
      BY <2>5
    <3>3. ASSUME IsSubmit(e) PROVE e.seq = act[k].end
      <4>1. CASE i = b - 1
        BY <2>3, <3>1, <4>1
      <4>2. CASE i # b - 1
        <5>1. PICK j \in 1..n : j = i + 1 /\ a < j /\ j < b /\ j # 1 /\ j - 1 = i
          BY <1>4, <2>2, <3>2, <4>2
        <5>2. Boundary(markers, j) = "none"
          BY <2>4, <5>1
        <5>3. ~IsSubmit(markers[j - 1])
          BY <5>1, <5>2, NoBoundary
        <5>4. QED
          BY <3>1, <3>3, <5>1, <5>3
      <4>3. QED
        BY <4>1, <4>2
    <3>4. ASSUME e.seq # act[k].start
          PROVE  \E x \in Before(act[k], e) : e.wall - x.wall <= IdleGap
      <4>1. i # a
        BY <2>3, <3>1, <3>4
      <4>2. a < i /\ i # 1 /\ i - 1 \in a..(b - 1) /\ i - 1 \in 1..n /\ i - 1 < i
        BY <1>4, <2>2, <3>2, <4>1
      <4>3. Boundary(markers, i) = "none"
        BY <2>4, <3>2, <4>2
      <4>4. ~(markers[i].wall - markers[i - 1].wall > IdleGap)
        BY <4>2, <4>3, NoBoundary
      <4>5. markers[i].wall \in Nat /\ markers[i - 1].wall \in Nat
        BY <1>3, <3>2, <4>2
      <4>6. e.wall - markers[i - 1].wall <= IdleGap
        BY <3>1, <4>4, <4>5, IdleAssumption
      <4>7. markers[i - 1].seq < e.seq
        BY <1>3, <3>1, <3>2, <4>2
      <4>8. markers[i - 1] \in act[k].cites
        BY <2>3, <4>2
      <4>9. QED
        BY <4>6, <4>7, <4>8
    <3>5. ASSUME NEW x \in act[k].cites, IsNavigation(x), IsNavigation(e)
          PROVE  FirstSection(x.url) = FirstSection(e.url)
      <4>1. PICK j \in a..(b - 1) : x = markers[j]
        BY <2>3, <3>5
      <4>2. j \in 1..n /\ a <= j /\ j < b
        BY <2>5
      <4>3. CASE i < j
        <5>1. IsNavigation(markers[i]) /\ IsNavigation(markers[j])
          BY <3>1, <3>5, <4>1
        <5>2. FirstSection(markers[i].url) = FirstSection(markers[j].url)
          BY <1>12, <2>2, <2>4, <3>2, <4>2, <4>3, <5>1, OneSection
        <5>3. QED
          BY <3>1, <4>1, <5>2
      <4>4. CASE j < i
        <5>1. IsNavigation(markers[i]) /\ IsNavigation(markers[j])
          BY <3>1, <3>5, <4>1
        <5>2. FirstSection(markers[j].url) = FirstSection(markers[i].url)
          BY <1>12, <2>2, <2>4, <3>2, <4>2, <4>4, <5>1, OneSection
        <5>3. QED
          BY <3>1, <4>1, <5>2
      <4>5. CASE i = j
        BY <3>1, <4>1, <4>5
      <4>6. QED
        BY <1>4, <3>2, <4>2, <4>3, <4>4, <4>5
    <3>6. QED
      BY <3>3, <3>4, <3>5
  <2>8. ASSUME NEW x \in DOMAIN log, log[x].type \in RequestTypes, ~log[x].reduced,
               Within(act[k], log[x])
        PROVE  RouteShape(log[x].url) \in ToSet(act[k].endpoints)
    <3>1. log[x].seq \in Nat
      BY <1>2, <2>8
    <3>2. log[x].seq >= markers[a].seq
      BY <1>3, <2>2, <2>3, <2>8, <3>1
    <3>3. ASSUME b <= n PROVE log[x].seq < markers[b].seq
      <4>1. b \in 1..n /\ b - 1 < b
        BY <1>4, <2>2, <3>3
      <4>2. markers[b - 1].seq < markers[b].seq /\ markers[b - 1].seq \in Nat /\ markers[b].seq \in Nat
        BY <1>3, <2>2, <4>1
      <4>3. log[x].seq <= markers[b - 1].seq
        BY <2>3, <2>8
      <4>4. QED
        BY <3>1, <4>2, <4>3
    <3>4. QED
      BY <1>7, <2>1, <2>8, <3>2, <3>3
  <2>9. QED
    BY <2>6, <2>7, <2>8
<1> HIDE DEF n
<1>14. \A a \in ToSet(act) : \E k \in 1..m : a = act[k]
  BY <1>8 DEF ToSet
<1>15. \A a \in ToSet(act) :
           /\ a.cites = {e \in ToSet(markers) : Within(a, e)}
           /\ \A e \in a.cites :
                 /\ IsSubmit(e) => e.seq = a.end
                 /\ e.seq # a.start => \E x \in Before(a, e) : e.wall - x.wall <= IdleGap
                 /\ \A x \in a.cites : IsNavigation(x) /\ IsNavigation(e)
                                       => FirstSection(x.url) = FirstSection(e.url)
           /\ \A e \in {x \in ToSet(log) : (x.type \in RequestTypes /\ ~x.reduced) /\ Within(a, x)} :
                 RouteShape(e.url) \in ToSet(a.endpoints)
  <2> SUFFICES ASSUME NEW k \in 1..m
               PROVE  LET a == act[k] IN
           /\ a.cites = {e \in ToSet(markers) : Within(a, e)}
           /\ \A e \in a.cites :
                 /\ IsSubmit(e) => e.seq = a.end
                 /\ e.seq # a.start => \E x \in Before(a, e) : e.wall - x.wall <= IdleGap
                 /\ \A x \in a.cites : IsNavigation(x) /\ IsNavigation(e)
                                       => FirstSection(x.url) = FirstSection(e.url)
           /\ \A e \in {x \in ToSet(log) : (x.type \in RequestTypes /\ ~x.reduced) /\ Within(a, x)} :
                 RouteShape(e.url) \in ToSet(a.endpoints)
    BY <1>14
  <2> HIDE DEF Within, Before
  <2>1. \A e \in ToSet(log) : \E x \in DOMAIN log : e = log[x]
    BY DEF ToSet
  <2>2. \A e \in {x \in ToSet(log) : (x.type \in RequestTypes /\ ~x.reduced) /\ Within(act[k], x)} :
            RouteShape(e.url) \in ToSet(act[k].endpoints)
    BY <1>13, <2>1
  <2>3. QED
    BY <1>13, <2>2, Zenon
<1>16. QED
  BY <1>1, <1>8, <1>10, <1>11, <1>15, Zenon DEF ActivitiesPartition, act

(* Whatever happens in a session and in whichever order it is logged, the  *)
(* activities share out what the operator did, end at a submission, a pause*)
(* or a change of section, and count the calls logged within them.         *)
THEOREM PartitionTheorem == Spec => []ActivitiesPartition
BY SaidInvariant, Partitioned, PTL

-----------------------------------------------------------------------------
(* The steps.                                                              *)

(* A list that is cut is joined again.                                     *)
LEMMA PiecesJoin ==
    ASSUME NEW T, NEW g \in Seq(T), NEW a \in Nat, NEW b \in Nat, a + b <= Len(g)
    PROVE  [i \in 1..a |-> g[i]] \o [i \in 1..b |-> g[a + i]] = [i \in 1..(a + b) |-> g[i]]
<1> DEFINE p == [i \in 1..a |-> g[i]]
           q == [i \in 1..b |-> g[a + i]]
           r == [i \in 1..(a + b) |-> g[i]]
<1>1. Len(g) \in Nat /\ \A i \in 1..Len(g) : g[i] \in T
  OBVIOUS
<1>2. p \in Seq(T) /\ Len(p) = a
  <2>1. \A i \in 1..a : g[i] \in T
    BY <1>1
  <2>2. QED
    BY <2>1
<1>3. q \in Seq(T) /\ Len(q) = b
  <2>1. \A i \in 1..b : g[a + i] \in T
    BY <1>1
  <2>2. QED
    BY <2>1
<1>4. r \in Seq(T) /\ Len(r) = a + b
  <2>1. \A i \in 1..(a + b) : g[i] \in T
    BY <1>1
  <2>2. QED
    BY <2>1
<1>5. \A i \in 1..a : p[i] = g[i]
  OBVIOUS
<1>6. \A i \in 1..b : q[i] = g[a + i]
  OBVIOUS
<1>7. \A i \in 1..(a + b) : r[i] = g[i]
  OBVIOUS
<1> HIDE DEF p, q, r
<1>8. p \o q \in Seq(T) /\ Len(p \o q) = a + b
  BY <1>2, <1>3
<1>9. ASSUME NEW i \in 1..(a + b) PROVE (p \o q)[i] = r[i]
  <2>1. CASE i <= a
    BY <1>2, <1>3, <1>5, <1>7, <2>1
  <2>2. CASE ~(i <= a)
    <3>1. i - a \in 1..b /\ a + (i - a) = i
      BY <2>2
    <3>2. (p \o q)[i] = q[i - a]
      BY <1>2, <1>3, <2>2
    <3>3. QED
      BY <1>6, <1>7, <3>1, <3>2
  <2>3. QED
    BY <2>1, <2>2
<1>10. p \o q = r
  BY <1>4, <1>8, <1>9
<1>11. QED
  BY <1>10 DEF p, q, r

IsList(s) == \E T : s \in Seq(T)

LEMMA EmptyIs ==
    ASSUME NEW s, IsList(s), Len(s) = 0 PROVE s = <<>>
<1>1. PICK T : s \in Seq(T)
  BY DEF IsList
<1>2. QED
  BY <1>1

(* The pieces of a list, from each head to before the next.                *)
CutAt(g, B, runs) ==
    /\ DOMAIN runs = 1..Len(InOrder(B)) /\ Len(runs) = Len(InOrder(B))
    /\ \A k \in 1..Len(InOrder(B)) :
           runs[k] = [i \in 1..(After(Len(g), B, k) - InOrder(B)[k]) |-> g[InOrder(B)[k] + i - 1]]

(* The runs of a list, put together again, are the list.                   *)
LEMMA FlattenRuns ==
    ASSUME NEW g, NEW B, NEW runs, IsList(g), IsList(runs), Heads(Len(g), B), CutAt(g, B, runs)
    PROVE  FlattenSeq(runs) = g
<1>1. PICK st, m, n : st = InOrder(B) /\ m = Len(InOrder(B)) /\ n = Len(g)
  OBVIOUS
<1> DEFINE U(k) == After(n, B, k)
<1>2. /\ m \in Nat /\ n \in Nat
      /\ \A k \in 1..m : /\ st[k] \in 1..n
                         /\ U(k) \in 1..(n + 1)
                         /\ st[k] < U(k)
      /\ \A i \in 1..n : \E k \in 1..m : st[k] <= i /\ i < U(k)
      /\ \A j, k \in 1..m : j < k => U(j) <= st[k]
  BY <1>1, HeadsCover
<1>3. \A k \in 1..m : U(k) = IF k = m THEN n + 1 ELSE st[k + 1]
  BY <1>1 DEF After
<1>4. \A k \in 1..m : runs[k] = [i \in 1..(U(k) - st[k]) |-> g[st[k] + i - 1]]
  BY <1>1 DEF CutAt
<1>5. DOMAIN runs = 1..m /\ Len(runs) = m
  BY <1>1 DEF CutAt
<1> HIDE DEF U
<1>6. CASE m = 0
  <2>1. n = 0
    <3>1. 1 \notin 1..n
      BY <1>2, <1>6
    <3>2. QED
      BY <1>2, <3>1
  <2>2. g = <<>> /\ runs = <<>>
    BY <1>1, <1>5, <1>6, <2>1, EmptyIs
  <2>3. QED
    BY <1>5, <1>6, <2>2 DEF FlattenSeq
<1>7. CASE m # 0
  <2> DEFINE Is(h) == h = [k \in 1..m |-> IF k = 1 THEN runs[k] ELSE h[k - 1] \o runs[k]]
             upto == [k \in 1..m |-> [i \in 1..(U(k) - 1) |-> g[i]]]
             chosen == CHOOSE h : Is(h)
  <2>1. 1 \in 1..m /\ st[1] = 1
    <3>1. 1 \in 1..m /\ 1 \in 1..n
      <4>1. 1 \in 1..m
        BY <1>2, <1>7
      <4>2. st[1] \in 1..n
        BY <1>2, <4>1
      <4>3. QED
        BY <1>2, <4>1, <4>2
    <3>2. PICK k \in 1..m : st[k] <= 1
      BY <1>2, <3>1
    <3>3. CASE k = 1
      BY <1>2, <3>1, <3>2, <3>3
    <3>4. CASE k # 1
      <4>1. U(1) <= st[k] /\ st[1] < U(1) /\ st[1] \in 1..n /\ U(1) \in 1..(n + 1) /\ st[k] \in 1..n
        BY <1>2, <3>1, <3>4
      <4>2. QED
        BY <1>2, <3>2, <4>1
    <3>5. QED
      BY <3>1, <3>3, <3>4
  <2>2. Is(upto)
    <3>1. ASSUME NEW k \in 1..m
          PROVE  upto[k] = IF k = 1 THEN runs[k] ELSE upto[k - 1] \o runs[k]
      <4>1. CASE k = 1
        <5>1. runs[1] = [i \in 1..(U(1) - 1) |-> g[i]]
          <6>1. runs[1] = [i \in 1..(U(1) - 1) |-> g[1 + i - 1]]
            BY <1>4, <2>1
          <6>2. \A i \in 1..(U(1) - 1) : 1 + i - 1 = i
            BY <1>2, <2>1
          <6>3. QED
            BY <6>1, <6>2
        <5>2. QED
          BY <2>1, <4>1, <5>1
      <4>2. CASE k # 1
        <5>1. k - 1 \in 1..m /\ k - 1 # m /\ (k - 1) + 1 = k
          BY <1>2, <4>2
        <5>2. U(k - 1) = st[k]
          BY <1>3, <5>1
        <5>3. PICK a, b : a = st[k] - 1 /\ b = U(k) - st[k]
          OBVIOUS
        <5>4. a \in Nat /\ b \in Nat /\ a + b = U(k) - 1 /\ a + b <= n
          <6>1. PICK x \in 1..n : x = st[k]
            BY <1>2
          <6>2. PICK y \in 1..(n + 1) : y = U(k) /\ x < y
            BY <1>2, <6>1
          <6>3. a = x - 1 /\ b = y - x
            BY <5>3, <6>1, <6>2
          <6>4. n \in Nat
            BY <1>2
          <6>5. QED
            BY <6>2, <6>3, <6>4
        <5>5. upto[k - 1] = [i \in 1..a |-> g[i]]
          BY <5>1, <5>2, <5>3
        <5>6. runs[k] = [i \in 1..b |-> g[a + i]]
          <6>1. PICK x \in 1..n : x = st[k]
            BY <1>2
          <6>2. \A i \in 1..b : x + i - 1 = a + i
            BY <1>2, <5>3, <5>4, <6>1
          <6>3. QED
            BY <1>4, <5>3, <6>1, <6>2
        <5>7. upto[k] = [i \in 1..(a + b) |-> g[i]]
          BY <5>4
        <5>8. [i \in 1..a |-> g[i]] \o [i \in 1..b |-> g[a + i]] = [i \in 1..(a + b) |-> g[i]]
          <6>1. PICK T : g \in Seq(T)
            BY DEF IsList
          <6>2. QED
            BY <1>1, <5>4, <6>1, PiecesJoin
        <5> HIDE DEF upto
        <5>9. QED
          BY <4>2, <5>5, <5>6, <5>7, <5>8
      <4>3. QED
        BY <4>1, <4>2
    <3>2. upto = [k \in 1..m |-> upto[k]]
      OBVIOUS
    <3> HIDE DEF upto
    <3>3. QED
      BY <3>1, <3>2
  <2>3. Is(chosen)
    <3> HIDE DEF upto
    <3>1. QED
      BY <2>2
  <2>4. FlattenSeq(runs) = chosen[m]
    <3>1. m # 0
      BY <1>7
    <3>2. QED
      BY <1>5, <3>1 DEF FlattenSeq
  <2> HIDE DEF chosen, upto
  <2>5. \A k \in 1..m : chosen[k] = upto[k]
    <3> DEFINE Apart == {k \in 1..m : chosen[k] # upto[k]}
    <3>1. ASSUME Apart # {} PROVE FALSE
      <4>1. PICK k \in Apart : \A l \in Apart : k <= l
        <5>1. Apart \in SUBSET Nat
          BY <1>2
        <5> HIDE DEF Apart
        <5>2. QED
          BY <3>1, <5>1, LeastOne
      <4>2. k \in 1..m /\ chosen[k] # upto[k]
        BY <4>1
      <4>3. chosen[k] = IF k = 1 THEN runs[k] ELSE chosen[k - 1] \o runs[k]
        BY <2>3, <4>2
      <4>4. upto[k] = IF k = 1 THEN runs[k] ELSE upto[k - 1] \o runs[k]
        BY <2>2, <4>2
      <4>5. k # 1
        BY <4>2, <4>3, <4>4
      <4>6. k - 1 \in 1..m /\ k - 1 \notin Apart
        BY <1>2, <4>1, <4>2, <4>5
      <4>7. QED
        BY <4>2, <4>3, <4>4, <4>6
    <3>2. QED
      BY <3>1
  <2>6. m \in 1..m /\ U(m) = n + 1
    BY <1>2, <1>3, <1>7
  <2>7. upto[m] = [i \in 1..n |-> g[i]]
    BY <1>2, <2>6 DEF upto
  <2>8. g = [i \in 1..n |-> g[i]]
    <3>1. PICK T : g \in Seq(T)
      BY DEF IsList
    <3>2. QED
      BY <1>1, <3>1
  <2>9. QED
    BY <2>4, <2>5, <2>6, <2>7, <2>8
<1>8. QED
  BY <1>6, <1>7

(* What a step says.                                                       *)
LEMMA StepIs ==
    ASSUME NEW e
    PROVE  /\ \E a, b, c, d, v : StepOf(e) = [kind |-> a, element |-> b, url |-> c, key |-> d,
                                              valued |-> v]
           /\ e.type \in {"navigation_committed", "runtime_history"} => StepOf(e).element = <<>>
           /\ e.type \notin {"navigation_committed", "runtime_history"} =>
                  StepOf(e).element = SemanticKey(e.element)
<1>1. PICK k : k = StepKind(e)
  OBVIOUS
<1>2. PICK r : r = RouteShape(e.url)
  OBVIOUS
<1>3. PICK s : s = SemanticKey(e.element)
  OBVIOUS
<1>4. CASE e.type \in {"navigation_committed", "runtime_history"}
  <2>1. PICK q, w, z, y : q = "navigate" /\ w = "" /\ z = <<>> /\ y = FALSE
    OBVIOUS
  <2>2. StepOf(e) = [kind |-> q, element |-> z, url |-> r, key |-> w, valued |-> y]
    BY <1>2, <1>4, <2>1, Zenon DEF StepOf
  <2>3. \E a, b, c, d, v : StepOf(e) = [kind |-> a, element |-> b, url |-> c, key |-> d,
                                         valued |-> v]
    BY <2>2, Zenon
  <2>4. StepOf(e).element = z
    BY <2>2
  <2>5. QED
    BY <1>4, <2>1, <2>3, <2>4, Zenon
<1>5. CASE e.type \notin {"navigation_committed", "runtime_history"}
  <2>1. PICK d, v : StepOf(e) = [kind |-> k, element |-> s, url |-> <<"none">>, key |-> d, valued |-> v]
    BY <1>1, <1>3, <1>5 DEF StepOf
  <2>2. \E a, b, c, f, w : StepOf(e) = [kind |-> a, element |-> b, url |-> c, key |-> f,
                                         valued |-> w]
    BY <2>1, Zenon
  <2>3. StepOf(e).element = s
    BY <2>1
  <2>4. QED
    BY <1>3, <1>5, <2>2, <2>3, Zenon
<1>6. QED
  BY <1>4, <1>5, Zenon

(* Steps that are alike differ at most in whether a value was recorded.    *)
LEMMA AlikeBare ==
    ASSUME NEW e, NEW f, Alike(StepOf(e), StepOf(f))
    PROVE  [StepOf(e) EXCEPT !.valued = FALSE] = [StepOf(f) EXCEPT !.valued = FALSE]
<1>1. PICK a, b, c, d, v : StepOf(e) = [kind |-> a, element |-> b, url |-> c, key |-> d, valued |-> v]
  BY StepIs, Zenon
<1>2. PICK a2, b2, c2, d2, v2 :
          StepOf(f) = [kind |-> a2, element |-> b2, url |-> c2, key |-> d2, valued |-> v2]
  BY StepIs, Zenon
<1>3. PICK s : s = StepOf(e)
  OBVIOUS
<1>4. PICK t : t = StepOf(f)
  OBVIOUS
<1>5. s.kind = t.kind /\ s.element = t.element /\ s.url = t.url /\ s.key = t.key
  BY <1>3, <1>4, Zenon DEF Alike
<1>6. s = [kind |-> a, element |-> b, url |-> c, key |-> d, valued |-> v]
  BY <1>1, <1>3, Zenon
<1>7. t = [kind |-> a2, element |-> b2, url |-> c2, key |-> d2, valued |-> v2]
  BY <1>2, <1>4, Zenon
<1>8. [s EXCEPT !.valued = FALSE] = [t EXCEPT !.valued = FALSE]
  BY <1>5, <1>6, <1>7
<1>9. QED
  BY <1>3, <1>4, <1>8, Zenon

(* Everything in a run is like its head.                                   *)
LEMMA RunAlike ==
    ASSUME NEW items, NEW n \in Nat, DOMAIN items = 1..n, NEW a \in 1..n, NEW b \in 1..(n + 1),
           \A i \in 1..n : a < i /\ i < b => i \notin Fresh(items),
           NEW j \in 1..n, a <= j, j < b
    PROVE  Alike(items[j], items[a])
<1> DEFINE Wrong == {i \in 1..n : a <= i /\ i < b /\ ~Alike(items[i], items[a])}
<1>1. ASSUME Wrong # {} PROVE FALSE
  <2>1. PICK i \in Wrong : \A l \in Wrong : i <= l
    <3>1. Wrong \in SUBSET Nat
      OBVIOUS
    <3> HIDE DEF Wrong
    <3>2. QED
      BY <1>1, <3>1, LeastOne
  <2>2. i \in 1..n /\ a <= i /\ i < b /\ ~Alike(items[i], items[a])
    BY <2>1
  <2>3. i # a
    BY <2>2 DEF Alike
  <2>4. i - 1 \in 1..n /\ a <= i - 1 /\ i - 1 < b /\ a < i /\ i - 1 < i
    BY <2>2, <2>3
  <2>5. i \notin Fresh(items)
    BY <2>2, <2>4
  <2>6. Alike(items[i], items[i - 1])
    BY <2>2, <2>5 DEF Fresh
  <2>7. i - 1 \notin Wrong
    BY <2>1, <2>2, <2>4
  <2>8. Alike(items[i - 1], items[a])
    BY <2>4, <2>7
  <2>9. QED
    BY <2>2, <2>6, <2>8 DEF Alike
<1>2. QED
  BY <1>1

(* The heads of the steps.                                                 *)
LEMMA FreshHeads ==
    ASSUME NEW items, NEW n \in Nat, DOMAIN items = 1..n
    PROVE  Heads(n, Fresh(items))
BY DEF Heads, Fresh

(* What the steps are.                                                     *)
LastOf(raw, st, k) == IF k = Len(st) THEN Len(raw) ELSE st[k + 1] - 1

LEMMA StepsAre ==
    ASSUME NEW events, NEW raw, raw = RawSteps(events), NEW items, items = Items(raw),
           NEW st, st = InOrder(Fresh(items))
    PROVE  /\ DOMAIN Steps(events) = DOMAIN st
           /\ \A k \in DOMAIN st :
                 /\ Steps(events)[k].step = items[st[k]]
                 /\ Steps(events)[k].repeats = Cardinality(st[k]..LastOf(raw, st, k))
                 /\ Steps(events)[k].cites = {raw[i].seq : i \in st[k]..LastOf(raw, st, k)}
<1>1. Steps(events) =
        [k \in DOMAIN st |->
            [step |-> items[st[k]], ordinal |-> k - 1, seq |-> raw[st[k]].seq,
             repeats |-> Cardinality(st[k]..LastOf(raw, st, k)),
             valued |-> \E i \in st[k]..LastOf(raw, st, k) : items[i].valued,
             cites |-> {raw[i].seq : i \in st[k]..LastOf(raw, st, k)}]]
  <2>1. Steps(events) =
        LET w == RawSteps(events)
            t == Items(w)
            f == InOrder(Fresh(t))
        IN [k \in DOMAIN f |->
            [step |-> t[f[k]], ordinal |-> k - 1, seq |-> w[f[k]].seq,
             repeats |-> Cardinality(f[k]..LastOf(w, f, k)),
             valued |-> \E i \in f[k]..LastOf(w, f, k) : t[i].valued,
             cites |-> {w[i].seq : i \in f[k]..LastOf(w, f, k)}]]
    BY Zenon DEF Steps, Collapsed, LastOf
  <2> DEFINE w == RawSteps(events)
             t == Items(w)
             f == InOrder(Fresh(t))
  <2>2. w = raw
    OBVIOUS
  <2>3. t = items
    BY <2>2, Zenon
  <2>4. f = st
    BY <2>3, Zenon
  <2> HIDE DEF w, t, f
  <2>5. QED
    BY <2>1, <2>2, <2>3, <2>4 DEF w, t, f
<1>2. QED
  BY <1>1

LEMMA RawAre ==
    ASSUME NEW S, NEW events \in Seq(S), NEW raw, raw = RawSteps(events)
    PROVE  \E order : /\ order \in [1..Len(raw) -> {i \in DOMAIN events : IsStep(events[i])}]
                      /\ \A k \in 1..Len(raw) : raw[k] = events[order[k]]
                      /\ raw \in Seq(S)
<1>1. PICK I : I = {i \in DOMAIN events : IsStep(events[i])}
  OBVIOUS
<1>2. I \in SUBSET (DOMAIN events) /\ raw = Those(events, I)
  BY <1>1 DEF RawSteps
<1>3. PICK order : /\ order \in [1..Len(raw) -> I]
                   /\ \A k \in 1..Len(raw) : raw[k] = events[order[k]]
                   /\ raw \in Seq(S)
  BY <1>2, ThoseAre
<1>4. QED
  BY <1>1, <1>3

(* An event in which an element is used, and the record of the element.    *)
Uses(e) == e.type \in UserActionTypes /\ e.element.tag # ""
KeyOfEvent(e) == SemanticKey(e.element)

LEMMA UsedIs ==
    ASSUME NEW events, NEW e \in ToSet(events), Uses(e)
    PROVE  \E u \in UsedElements(events) :
               /\ u.key = KeyOfEvent(e)
               /\ \A f \in ToSet(events) :
                      Uses(f) /\ KeyOfEvent(f) = KeyOfEvent(e) => f.seq \in u.cites
<1> DEFINE used == {f \in ToSet(events) : f.type \in UserActionTypes /\ f.element.tag # ""}
           Group(key) == {f \in used : SemanticKey(f.element) = key}
           types(key) == {f.type : f \in Group(key)}
           record(key) ==
               [key |-> key, observations |-> Cardinality(Group(key)),
                actions |-> [t \in types(key) |-> Cardinality({f \in Group(key) : f.type = t})],
                locators |-> Measured(Group(key)), cites |-> {f.seq : f \in Group(key)}]
<1>1. UsedElements(events) = {record(key) : key \in {SemanticKey(f.element) : f \in used}}
  BY Zenon DEF UsedElements
<1>2. e \in used
  BY DEF Uses
<1>3. KeyOfEvent(e) \in {SemanticKey(f.element) : f \in used}
  BY <1>2, Zenon DEF KeyOfEvent
<1>4. PICK u : u = record(KeyOfEvent(e))
  OBVIOUS
<1>5. u \in UsedElements(events)
  BY <1>1, <1>3, <1>4, Zenon
<1>6. u.key = KeyOfEvent(e) /\ u.cites = {f.seq : f \in Group(KeyOfEvent(e))}
  <2>1. PICK k, a, b, c, d : /\ k = KeyOfEvent(e) /\ a = record(k).observations /\ b = record(k).actions
                             /\ c = record(k).locators /\ d = {f.seq : f \in Group(k)}
    OBVIOUS
  <2> HIDE DEF Group, used, types
  <2>2. u = [key |-> k, observations |-> a, actions |-> b, locators |-> c, cites |-> d]
    BY <1>4, <2>1
  <2>3. QED
    BY <2>1, <2>2
<1>7. ASSUME NEW f \in ToSet(events), Uses(f), KeyOfEvent(f) = KeyOfEvent(e)
      PROVE  f.seq \in u.cites
  <2>1. f \in Group(KeyOfEvent(e))
    BY <1>7 DEF Uses, KeyOfEvent
  <2>2. QED
    BY <1>6, <2>1, Zenon
<1>8. QED
  BY <1>5, <1>6, <1>7, Zenon

(* A step on an element is a use of it, which is in the catalog.           *)
LEMMA StepUses ==
    ASSUME NEW e, IsStep(e), Elementless(e), StepOf(e).element # <<>>
    PROVE  Uses(e) /\ StepOf(e).element = KeyOfEvent(e)
<1>1. e.type \notin {"navigation_committed", "runtime_history"}
  BY StepIs, Zenon
<1>2. StepOf(e).element = KeyOfEvent(e)
  BY <1>1, StepIs, Zenon DEF KeyOfEvent
<1>3. PICK t, g : t = e.type /\ g = e.element.tag
  OBVIOUS
<1>4. /\ t \in {"user_click", "user_dblclick", "user_rightclick", "user_input",
                 "user_change", "user_submit", "user_key", "runtime_form_submit"}
      /\ g # ""
  BY <1>1, <1>3, Zenon DEF IsStep
<1>5. t # "runtime_form_submit"
  BY <1>3, <1>4, Zenon DEF Elementless
<1>6. t \in UserActionTypes
  BY <1>4, <1>5 DEF UserActionTypes
<1>7. QED
  BY <1>2, <1>3, <1>4, <1>6, Zenon DEF Uses

(* A function on the numbers up to n is a list.                            *)
LEMMA ListIs ==
    ASSUME NEW n \in Nat, NEW f, f = [i \in 1..n |-> f[i]]
    PROVE  IsList(f) /\ Len(f) = n /\ DOMAIN f = 1..n
<1>1. PICK T : T = {f[i] : i \in 1..n}
  OBVIOUS
<1>2. \A i \in 1..n : f[i] \in T
  BY <1>1
<1>3. f \in Seq(T)
  BY <1>2
<1>4. DOMAIN f = 1..n
  OBVIOUS
<1>5. QED
  BY <1>3, <1>4 DEF IsList

(* What StepsReplay says, of a list.                                       *)
ReplayOf(events) ==
    LET steps == Steps(events)
        raw == RawSteps(events)
        Repeated(s) == [i \in 1..s.repeats |-> s.step]
        Bare(s) == [s EXCEPT !.valued = FALSE]
        replayed == FlattenSeq([k \in DOMAIN steps |-> Repeated(steps[k])])
    IN  /\ Len(replayed) = Len(raw)
        /\ \A i \in DOMAIN raw : Bare(replayed[i]) = Bare(StepOf(raw[i]))
        /\ \A k \in 1..(Len(steps) - 1) : ~Alike(steps[k].step, steps[k + 1].step)
        /\ \A s \in ToSet(steps) : s.step.element # <<>> =>
              \E u \in UsedElements(events) : u.key = s.step.element /\ s.cites \subseteq u.cites

LEMMA ReplayedOf ==
    ASSUME NEW events, events \in Seq(ToSet(events)),
           \A i \in DOMAIN events : Elementless(events[i])
    PROVE  ReplayOf(events)
<1> DEFINE raw == RawSteps(events)
           items == Items(raw)
           B == Fresh(items)
           st == InOrder(B)
           m == Len(st)
           n == Len(raw)
           U(k) == After(n, B, k)
           End(k) == LastOf(raw, st, k)
           steps == Steps(events)
           Repeated(s) == [i \in 1..s.repeats |-> s.step]
           Bare(s) == [s EXCEPT !.valued = FALSE]
           runs == [k \in DOMAIN steps |-> Repeated(steps[k])]
           g == [i \in 1..n |-> items[st[CHOOSE k \in 1..m : st[k] <= i /\ i < U(k)]]]
<1>2. /\ raw \in Seq(ToSet(events)) /\ n \in Nat /\ DOMAIN raw = 1..n
      /\ \A i \in 1..n : raw[i] \in ToSet(events) /\ IsStep(raw[i]) /\ Elementless(raw[i])
  <2>2. PICK order : /\ order \in [1..n -> {i \in DOMAIN events : IsStep(events[i])}]
                     /\ \A k \in 1..n : raw[k] = events[order[k]]
                     /\ raw \in Seq(ToSet(events))
    BY RawAre
  <2> HIDE DEF raw
  <2>3. n \in Nat /\ DOMAIN raw = 1..n
    BY <2>2
  <2>4. ASSUME NEW i \in 1..n
        PROVE  raw[i] \in ToSet(events) /\ IsStep(raw[i]) /\ Elementless(raw[i])
    <3>1. PICK o : o = order[i]
      OBVIOUS
    <3>2. o \in DOMAIN events /\ IsStep(events[o]) /\ raw[i] = events[o]
      BY <2>2, <3>1
    <3>3. raw[i] \in ToSet(events)
      BY <2>2, <2>3
    <3>4. QED
      BY <3>2, <3>3, Zenon
  <2>5. QED
    BY <2>2, <2>3, <2>4
<1>3. DOMAIN items = 1..n /\ \A i \in 1..n : items[i] = StepOf(raw[i])
  <2> HIDE DEF raw
  <2>1. QED
    BY <1>2 DEF Items
<1>4. Heads(n, B)
  <2> HIDE DEF raw, items
  <2>1. QED
    BY <1>2, <1>3, FreshHeads
<1>5. /\ DOMAIN steps = DOMAIN st
      /\ \A k \in DOMAIN st : /\ steps[k].step = items[st[k]]
                             /\ steps[k].repeats = Cardinality(st[k]..End(k))
                             /\ steps[k].cites = {raw[i].seq : i \in st[k]..End(k)}
  <2>1. QED
    BY StepsAre DEF LastOf
<1> HIDE DEF raw, items, B, st, n, m, steps
<1>6. /\ m \in Nat /\ DOMAIN st = 1..m
      /\ \A k \in 1..m : /\ st[k] \in B /\ st[k] \in 1..n
                         /\ U(k) \in 1..(n + 1)
                         /\ k # m => U(k) \in B /\ U(k) \in 1..n
                         /\ st[k] < U(k)
      /\ \A i \in 1..n : \E k \in 1..m : st[k] <= i /\ i < U(k)
      /\ \A j, k \in 1..m : j < k => U(j) <= st[k]
      /\ \A k \in 1..m : \A i \in 1..n : st[k] < i /\ i < U(k) => i \notin B
  BY <1>4, HeadsCover DEF st, m
<1>7. \A k \in 1..m : U(k) = IF k = m THEN n + 1 ELSE st[k + 1]
  BY DEF After, st, m
<1> HIDE DEF U
<1>8. \A k \in 1..m : End(k) = U(k) - 1
  <2> SUFFICES ASSUME NEW k \in 1..m PROVE End(k) = U(k) - 1
    OBVIOUS
  <2>1. CASE k = m
    BY <1>2, <1>7, <2>1 DEF LastOf, n, m
  <2>2. CASE k # m
    BY <1>7, <2>2 DEF LastOf, n, m
  <2>3. QED
    BY <2>1, <2>2
<1> HIDE DEF End
<1>9. ASSUME NEW k \in 1..m
      PROVE  /\ steps[k].step = items[st[k]]
             /\ steps[k].repeats = U(k) - st[k]
             /\ steps[k].cites = {raw[i].seq : i \in st[k]..(U(k) - 1)}
  <2>1. PICK x \in 1..n : x = st[k]
    BY <1>6
  <2>2. PICK y \in 1..(n + 1) : y = U(k) /\ x < y
    BY <1>6, <2>1
  <2>3. Cardinality(x..(y - 1)) = y - x
    <3>1. x \in Int /\ y - 1 \in Int /\ x <= y - 1
      BY <1>2, <2>1, <2>2
    <3>2. Cardinality(x..(y - 1)) = y - 1 - x + 1
      BY <3>1, FS_Interval
    <3>3. QED
      BY <1>2, <3>2
  <2>4. QED
    BY <1>5, <1>6, <1>8, <2>1, <2>2, <2>3
<1>10. ASSUME NEW i \in 1..n, NEW j \in 1..m, NEW k \in 1..m,
              st[j] <= i, i < U(j), st[k] <= i, i < U(k)
       PROVE  j = k
  <2>1. st[j] \in 1..n /\ st[k] \in 1..n /\ U(j) \in 1..(n + 1) /\ U(k) \in 1..(n + 1)
    BY <1>6
  <2>2. PICK x, y, u, w : x = st[j] /\ y = st[k] /\ u = U(j) /\ w = U(k)
    OBVIOUS
  <2>3. (j < k => u <= y) /\ (k < j => w <= x)
    <3>1. j < k => U(j) <= st[k]
      BY <1>6
    <3>2. k < j => U(k) <= st[j]
      BY <1>6
    <3>3. QED
      BY <2>2, <3>1, <3>2
  <2>4. x \in 1..n /\ y \in 1..n /\ u \in 1..(n + 1) /\ w \in 1..(n + 1) /\ n \in Nat /\ m \in Nat
    BY <1>2, <1>6, <2>1, <2>2
  <2>5. x <= i /\ i < u /\ y <= i /\ i < w
    BY <1>10, <2>2
  <2>6. QED
    BY <2>3, <2>4, <2>5
<1>11. ASSUME NEW k \in 1..m, NEW i \in 1..n, st[k] <= i, i < U(k)
       PROVE  g[i] = items[st[k]]
  <2>1. PICK l : l = CHOOSE x \in 1..m : st[x] <= i /\ i < U(x)
    OBVIOUS
  <2>2. l \in 1..m /\ st[l] <= i /\ i < U(l)
    BY <1>11, <2>1
  <2>3. l = k
    BY <1>10, <1>11, <2>2
  <2>4. QED
    BY <2>1, <2>3
<1>12. IsList(g) /\ Len(g) = n /\ DOMAIN g = 1..n
  <2>1. g = [i \in 1..n |-> g[i]]
    OBVIOUS
  <2> HIDE DEF g
  <2>2. QED
    BY <1>2, <2>1, ListIs
<1> HIDE DEF g
<1>13. runs = [k \in 1..m |-> [i \in 1..(U(k) - st[k]) |-> items[st[k]]]]
  BY <1>5, <1>6, <1>9
<1> HIDE DEF runs
<1>14. CutAt(g, B, runs) /\ IsList(runs)
  <2>1. DOMAIN runs = 1..m /\ Len(runs) = m
    BY <1>6, <1>13
  <2>2. ASSUME NEW k \in 1..m
        PROVE  runs[k] = [i \in 1..(U(k) - st[k]) |-> g[st[k] + i - 1]]
    <3>1. PICK x \in 1..n : x = st[k]
      BY <1>6
    <3>2. PICK y \in 1..(n + 1) : y = U(k) /\ x < y
      BY <1>6, <3>1
    <3>3. ASSUME NEW i \in 1..(y - x) PROVE g[x + i - 1] = items[x]
      <4>1. x + i - 1 \in 1..n /\ x <= x + i - 1 /\ x + i - 1 < y
        BY <1>2, <3>2
      <4>2. QED
        BY <1>11, <3>1, <3>2, <4>1
    <3>4. QED
      BY <1>13, <3>1, <3>2, <3>3
  <2>3. runs = [k \in 1..m |-> runs[k]]
    BY <1>13
  <2>4. IsList(runs)
    BY <1>6, <2>3, ListIs
  <2>5. CutAt(g, B, runs)
    BY <1>12, <2>1, <2>2 DEF CutAt, st, m, U
  <2>6. QED
    BY <2>4, <2>5
<1>15. FlattenSeq(runs) = g
  BY <1>4, <1>12, <1>14, FlattenRuns
<1>16. ASSUME NEW i \in 1..n, NEW k \in 1..m, st[k] <= i, i < U(k)
       PROVE  Alike(items[i], items[st[k]])
  <2>1. PICK x \in 1..n : x = st[k]
    BY <1>6
  <2>2. PICK y \in 1..(n + 1) : y = U(k)
    BY <1>6
  <2>3. \A l \in 1..n : x < l /\ l < y => l \notin Fresh(items)
    BY <1>6, <2>1, <2>2 DEF B
  <2>4. QED
    BY <1>2, <1>3, <1>16, <2>1, <2>2, <2>3, RunAlike
<1>17. ASSUME NEW i \in 1..n PROVE Bare(g[i]) = Bare(StepOf(raw[i]))
  <2>1. PICK k \in 1..m : st[k] <= i /\ i < U(k)
    BY <1>6
  <2>2. st[k] \in 1..n
    BY <1>6
  <2>3. g[i] = StepOf(raw[st[k]]) /\ items[i] = StepOf(raw[i]) /\ items[st[k]] = StepOf(raw[st[k]])
    BY <1>3, <1>11, <2>1, <2>2
  <2>4. Alike(StepOf(raw[st[k]]), StepOf(raw[i]))
    BY <1>16, <2>1, <2>3 DEF Alike
  <2>5. Bare(StepOf(raw[st[k]])) = Bare(StepOf(raw[i]))
    BY <2>4, AlikeBare
  <2>6. QED
    BY <2>3, <2>5
<1>18. ASSUME NEW k \in 1..m, k # m PROVE ~Alike(steps[k].step, steps[k + 1].step)
  <2>1. PICK x \in 1..n : x = st[k]
    BY <1>6
  <2>2. PICK y \in 1..n : y = U(k) /\ x < y /\ y \in B
    BY <1>6, <1>18, <2>1
  <2>3. k + 1 \in 1..m /\ st[k + 1] = y
    BY <1>6, <1>7, <1>18, <2>2
  <2>4. y # 1 /\ y - 1 \in 1..n /\ x <= y - 1 /\ y - 1 < y
    BY <1>2, <2>2
  <2>5. ~Alike(items[y], items[y - 1])
    BY <2>2, <2>4 DEF B, Fresh
  <2>6. Alike(items[y - 1], items[x])
    BY <1>16, <2>1, <2>2, <2>4
  <2>7. ~Alike(items[x], items[y])
    BY <2>5, <2>6 DEF Alike
  <2>8. QED
    BY <1>9, <2>1, <2>3, <2>7
<1>19. ASSUME NEW k \in 1..m, steps[k].step.element # <<>>
       PROVE  \E u \in UsedElements(events) :
                  u.key = steps[k].step.element /\ steps[k].cites \subseteq u.cites
  <2>1. PICK x \in 1..n : x = st[k]
    BY <1>6
  <2>2. PICK y \in 1..(n + 1) : y = U(k) /\ x < y
    BY <1>6, <2>1
  <2>3. PICK e : e = raw[x]
    OBVIOUS
  <2>4. e \in ToSet(events) /\ IsStep(e) /\ Elementless(e)
    BY <1>2, <2>3
  <2>5. steps[k].step = StepOf(e)
    BY <1>3, <1>9, <2>1, <2>3
  <2>6. Uses(e) /\ StepOf(e).element = KeyOfEvent(e)
    BY <1>19, <2>4, <2>5, StepUses, Zenon
  <2>7. PICK u \in UsedElements(events) :
            /\ u.key = KeyOfEvent(e)
            /\ \A f \in ToSet(events) : Uses(f) /\ KeyOfEvent(f) = KeyOfEvent(e) => f.seq \in u.cites
    BY <2>4, <2>6, UsedIs, Zenon
  <2>8. ASSUME NEW i \in x..(y - 1) PROVE raw[i].seq \in u.cites
    <3>1. i \in 1..n /\ x <= i /\ i < y
      BY <1>2, <2>2, <2>8
    <3>2. PICK f : f = raw[i]
      OBVIOUS
    <3>3. f \in ToSet(events) /\ IsStep(f) /\ Elementless(f)
      BY <1>2, <3>1, <3>2
    <3>4. Alike(StepOf(f), StepOf(e))
      BY <1>3, <1>16, <2>1, <2>2, <2>3, <3>1, <3>2
    <3>5. StepOf(f).element = StepOf(e).element
      BY <3>4, Zenon DEF Alike
    <3>6. StepOf(f).element # <<>>
      BY <1>19, <2>5, <3>5, Zenon
    <3>7. Uses(f) /\ StepOf(f).element = KeyOfEvent(f)
      BY <3>3, <3>6, StepUses, Zenon
    <3>8. QED
      BY <2>6, <2>7, <3>2, <3>3, <3>5, <3>7, Zenon
  <2>9. steps[k].cites = {raw[i].seq : i \in x..(y - 1)}
    BY <1>9, <2>1, <2>2
  <2>10. steps[k].cites \subseteq u.cites
    BY <2>8, <2>9
  <2>11. u.key = steps[k].step.element
    BY <2>5, <2>6, <2>7, Zenon
  <2>12. QED
    BY <2>10, <2>11, Zenon
<1>20. DOMAIN steps = 1..m /\ Len(steps) = m
  BY <1>5, <1>6
<1>21. \A s \in ToSet(steps) : \E k \in 1..m : s = steps[k]
  BY <1>20 DEF ToSet
<1>22. ASSUME NEW s \in ToSet(steps), s.step.element # <<>>
       PROVE  \E u \in UsedElements(events) : u.key = s.step.element /\ s.cites \subseteq u.cites
  <2>1. PICK k \in 1..m : s = steps[k]
    BY <1>21
  <2>2. steps[k].step.element # <<>>
    BY <1>22, <2>1, Zenon
  <2>3. \E u \in UsedElements(events) :
            u.key = steps[k].step.element /\ steps[k].cites \subseteq u.cites
    BY <1>19, <2>2
  <2>4. QED
    BY <2>1, <2>3, Zenon
<1>23. \A k \in 1..(Len(steps) - 1) : ~Alike(steps[k].step, steps[k + 1].step)
  <2>1. \A k \in 1..(Len(steps) - 1) : k \in 1..m /\ k # m
    BY <1>6, <1>20
  <2>2. QED
    BY <1>18, <2>1, Zenon
<1>24. Len(FlattenSeq(runs)) = n
  BY <1>12, <1>15
<1>25. \A i \in DOMAIN raw : Bare(FlattenSeq(runs)[i]) = Bare(StepOf(raw[i]))
  BY <1>2, <1>15, <1>17
<1>26. QED
  BY <1>22, <1>23, <1>24, <1>25, Zenon DEF ReplayOf, runs, steps, raw, n

LEMMA Replayed == TimelineInv /\ SaidInv => StepsReplay
<1>1. ASSUME TimelineInv, SaidInv PROVE ReplayOf(log)
  <2>1. PICK events : events = log
    OBVIOUS
  <2>2. events \in Seq(ToSet(events)) /\ \A i \in DOMAIN events : Elementless(events[i])
    BY <1>1, <2>1, LogIsOfEvents
  <2>3. ReplayOf(events)
    BY <2>2, ReplayedOf
  <2>4. QED
    BY <2>1, <2>3, Zenon
<1>2. QED
  BY <1>1, Zenon DEF ReplayOf, StepsReplay

(* Whatever the operator does, whichever order it is logged in, the steps  *)
(* of the workflow are what was done, and each needs an element that the   *)
(* catalog has.                                                            *)
THEOREM StepsTheorem == Spec => []StepsReplay
BY SaidInvariant, Replayed, PTL

-----------------------------------------------------------------------------
(* The dependencies.                                                       *)

(* What is in lists that are put together is in one of them.               *)
LEMMA FlattenHolds ==
    ASSUME NEW T, NEW lists \in Seq(Seq(T))
    PROVE  /\ FlattenSeq(lists) \in Seq(T)
           /\ \A v \in ToSet(FlattenSeq(lists)) : \E k \in 1..Len(lists) : v \in ToSet(lists[k])
<1> DEFINE n == Len(lists)
           To(h, j) == h = [i \in 1..j |-> IF i = 1 THEN lists[i] ELSE h[i - 1] \o lists[i]]
           None == {j \in Nat : j <= n /\ ~\E h : To(h, j)}
           chosen == CHOOSE h : To(h, n)
           Fair(i) == /\ chosen[i] \in Seq(T)
                      /\ \A v \in ToSet(chosen[i]) : \E k \in 1..n : v \in ToSet(lists[k])
           Wrong == {i \in 1..n : ~Fair(i)}
<1>1. n \in Nat /\ \A i \in 1..n : lists[i] \in Seq(T)
  OBVIOUS
<1>2. ASSUME None # {} PROVE FALSE
  <2>1. PICK j \in None : \A l \in None : j <= l
    <3>1. None \in SUBSET Nat
      OBVIOUS
    <3> HIDE DEF None
    <3>2. QED
      BY <1>2, <3>1, LeastOne
  <2> HIDE DEF n
  <2>2. j # 0
    <3>1. To([i \in 1..0 |-> lists[1]], 0)
      OBVIOUS
    <3>2. QED
      BY <2>1, <3>1, Zenon
  <2>3. j - 1 \in Nat /\ j - 1 <= n /\ j - 1 \notin None
    <3>1. j \in Nat /\ j <= n
      BY <2>1
    <3>2. j - 1 \in Nat /\ j - 1 <= n /\ ~(j <= j - 1)
      BY <1>1, <2>2, <3>1
    <3> HIDE DEF None
    <3>3. QED
      BY <2>1, <3>2
  <2>4. PICK h : To(h, j - 1)
    BY <2>3
  <2> DEFINE f == [i \in 1..j |-> IF i = j THEN (IF j = 1 THEN lists[1] ELSE h[j - 1] \o lists[j])
                                  ELSE h[i]]
  <2>5. ASSUME NEW i \in 1..j
        PROVE  f[i] = IF i = 1 THEN lists[i] ELSE f[i - 1] \o lists[i]
    <3>1. CASE i = j
      BY <2>2, <2>3, <3>1
    <3>2. CASE i # j
      <4>1. i \in 1..(j - 1)
        BY <2>3, <3>2
      <4>2. h[i] = IF i = 1 THEN lists[i] ELSE h[i - 1] \o lists[i]
        BY <2>4, <4>1
      <4>3. f[i] = h[i] /\ (i # 1 => f[i - 1] = h[i - 1])
        BY <3>2, <4>1
      <4>4. QED
        BY <4>2, <4>3
    <3>3. QED
      BY <3>1, <3>2
  <2>6. f = [i \in 1..j |-> f[i]]
    OBVIOUS
  <2> HIDE DEF f
  <2>7. To(f, j)
    BY <2>5, <2>6
  <2>8. QED
    BY <2>1, <2>7, Zenon
<1>3. To(chosen, n)
  <2>1. \E h : To(h, n)
    <3>1. n \notin None /\ n \in Nat /\ n <= n
      <4> HIDE DEF None, n
      <4>1. QED
        BY <1>1, <1>2
    <3> HIDE DEF To, n
    <3>2. QED
      BY <3>1
  <2> HIDE DEF To
  <2>2. QED
    BY <2>1
<1>4. CASE n = 0
  <2>1. lists = <<>>
    BY <1>4
  <2>2. FlattenSeq(lists) = <<>>
    BY <1>4, <2>1 DEF FlattenSeq
  <2>3. QED
    BY <2>2 DEF ToSet
<1>5. CASE n # 0
  <2>1. FlattenSeq(lists) = chosen[n]
    BY <1>5 DEF FlattenSeq
  <2> HIDE DEF chosen, n
  <2>2. ASSUME Wrong # {} PROVE FALSE
    <3>1. PICK i \in Wrong : \A l \in Wrong : i <= l
      <4>1. Wrong \in SUBSET Nat
        BY <1>1
      <4> HIDE DEF Wrong
      <4>2. QED
        BY <2>2, <4>1, LeastOne
    <3>2. i \in 1..n /\ ~Fair(i)
      BY <3>1
    <3>3. chosen[i] = IF i = 1 THEN lists[i] ELSE chosen[i - 1] \o lists[i]
      BY <1>3, <3>2
    <3>4. CASE i = 1
      <4>1. chosen[i] = lists[i]
        BY <3>3, <3>4
      <4>2. QED
        BY <1>1, <3>2, <4>1
    <3>5. CASE i # 1
      <4>1. i - 1 \in 1..n /\ i - 1 < i
        BY <1>1, <3>2, <3>5
      <4>2. Fair(i - 1)
        <5>1. i \in Nat /\ i - 1 \in Nat /\ ~(i <= i - 1)
          BY <1>1, <3>2, <4>1
        <5>2. i - 1 \notin Wrong
          <6> HIDE DEF Wrong
          <6>1. QED
            BY <3>1, <5>1
        <5> HIDE DEF Fair
        <5>3. QED
          BY <4>1, <5>2
      <4>3. PICK a, b : a = chosen[i - 1] /\ b = lists[i]
        OBVIOUS
      <4>4. a \in Seq(T) /\ b \in Seq(T) /\ chosen[i] = a \o b
        BY <1>1, <3>2, <3>3, <3>5, <4>2, <4>3
      <4>5. a \o b \in Seq(T)
        BY <4>4
      <4>6. ASSUME NEW v \in ToSet(a \o b) PROVE v \in ToSet(a) \/ v \in ToSet(b)
        <5>1. PICK x \in 1..(Len(a) + Len(b)) : v = (a \o b)[x]
          <6>1. Len(a \o b) = Len(a) + Len(b) /\ DOMAIN (a \o b) = 1..Len(a \o b)
            BY <4>4, <4>5
          <6>2. QED
            BY <4>6, <6>1 DEF ToSet
        <5>2. CASE x <= Len(a)
          BY <4>4, <5>1, <5>2 DEF ToSet
        <5>3. CASE ~(x <= Len(a))
          <6>1. x - Len(a) \in 1..Len(b) /\ v = b[x - Len(a)]
            BY <4>4, <5>1, <5>3
          <6>2. QED
            BY <4>4, <6>1 DEF ToSet
        <5>4. QED
          BY <5>2, <5>3
      <4>7. QED
        BY <3>2, <4>2, <4>3, <4>4, <4>5, <4>6
    <3>6. QED
      BY <3>4, <3>5
  <2>3. n \in 1..n
    BY <1>1, <1>5
  <2>4. Fair(n)
    BY <2>2, <2>3
  <2>5. QED
    BY <2>1, <2>4 DEF n
<1>6. QED
  BY <1>4, <1>5

(* A list whose items are in lists.                                        *)
LEMMA ListsIn ==
    ASSUME NEW n \in Nat, NEW f, f = [i \in 1..n |-> f[i]], \A i \in 1..n : IsList(f[i])
    PROVE  \E T : f \in Seq(Seq(T))
<1> DEFINE T == UNION {{f[i][j] : j \in DOMAIN f[i]} : i \in 1..n}
<1>1. ASSUME NEW i \in 1..n PROVE f[i] \in Seq(T)
  <2>1. PICK S : f[i] \in Seq(S)
    BY DEF IsList
  <2>2. PICK g : g = f[i]
    OBVIOUS
  <2>3. g \in Seq(S) /\ \A j \in DOMAIN g : g[j] \in T
    BY <2>1, <2>2
  <2> HIDE DEF T
  <2>4. g \in Seq(T)
    BY <2>3
  <2>5. QED
    BY <2>2, <2>4
<1> HIDE DEF T
<1>2. f \in Seq(Seq(T))
  BY <1>1
<1>3. QED
  BY <1>2

(* The least of finitely many naturals that are given to the places of a   *)
(* list, and the first place it is given to.                               *)
LEMMA LeastPlace ==
    ASSUME NEW n \in Nat, n # 0, NEW rank, \A i \in 1..n : rank[i] \in Nat
    PROVE  \E i \in 1..n : /\ \A j \in 1..n : rank[i] <= rank[j]
                          /\ \A j \in 1..(i - 1) : rank[i] < rank[j]
<1> DEFINE Ranks == {rank[i] : i \in 1..n}
<1>1. Ranks \in SUBSET Nat /\ Ranks # {}
  OBVIOUS
<1>2. PICK r \in Ranks : \A x \in Ranks : r <= x
  BY <1>1, LeastOne
<1> DEFINE Places == {i \in 1..n : rank[i] = r}
<1>3. Places \in SUBSET Nat /\ Places # {}
  OBVIOUS
<1>4. PICK i \in Places : \A j \in Places : i <= j
  BY <1>3, LeastOne
<1>5. i \in 1..n /\ rank[i] = r /\ r \in Nat
  BY <1>1
<1>6. \A j \in 1..n : r <= rank[j]
  BY <1>2
<1>7. ASSUME NEW j \in 1..(i - 1) PROVE rank[i] < rank[j]
  <2>1. j \in 1..n /\ ~(i <= j)
    BY <1>5
  <2>2. j \notin Places
    BY <1>4, <2>1
  <2>3. rank[j] # r /\ r <= rank[j] /\ rank[j] \in Nat
    BY <1>6, <2>1, <2>2
  <2>4. QED
    BY <1>5, <2>3
<1>8. QED
  BY <1>5, <1>6, <1>7

(* What a comparison finds, and what it is worth.                          *)
LEMMA RelationIs ==
    ASSUME NEW a, NEW b
    PROVE  CompareSightings(a, b).relation \in {"precedes", "ambiguous", "contradicted"}
<1>1. \A m, t, s, d : Relation(m, t, s, d).relation \in {"precedes", "ambiguous", "contradicted"}
  BY DEF Relation
<1>2. \E m, t, s, d : CompareSightings(a, b) = Relation(m, t, s, d)
  BY Zenon DEF CompareSightings, ByClock
<1>3. QED
  BY <1>1, <1>2

LEMMA SimilarityIs ==
    ASSUME NEW f \in DOMAIN Tokens, NEW g \in DOMAIN Tokens PROVE Similarity(f, g) \in Int
<1>1. PICK s, t : s = Tokens[f] /\ t = Tokens[g]
  OBVIOUS
<1>2. IsFiniteSet(s) /\ IsFiniteSet(t)
  BY <1>1, TokensAssumption
<1>3. CASE s = {} \/ t = {}
  BY <1>1, <1>3 DEF Similarity
<1>4. CASE s # {} /\ t # {}
  <2>1. IsFiniteSet(s \cap t) /\ IsFiniteSet(s \cup t) /\ s \cup t # {}
    <3>1. IsFiniteSet(s \cap t)
      BY <1>2, FS_Intersection
    <3>2. IsFiniteSet(s \cup t)
      BY <1>2, FS_Union
    <3>3. QED
      BY <1>4, <3>1, <3>2
  <2>2. PICK x, y : x = Cardinality(s \cap t) /\ y = Cardinality(s \cup t)
    OBVIOUS
  <2>3. x \in Nat /\ y \in Nat /\ y # 0
    BY <2>1, <2>2, FS_CardinalityType, FS_EmptySet
  <2>4. Similarity(f, g) = (1000 * x) \div y
    BY <1>1, <1>4, <2>2 DEF Similarity
  <2>5. QED
    BY <2>3, <2>4
<1>5. QED
  BY <1>3, <1>4

LEMMA ScoreIs ==
    ASSUME NEW p, NEW c, p.field \in DOMAIN Tokens, c.field \in DOMAIN Tokens, NEW order, NEW touched
    PROVE  LET s == Score(p, c, order, touched)
           IN  s \in Int /\ s <= 990 /\ (order.relation = "ambiguous" => s <= AmbiguousCeiling)
<1> DEFINE a == IF touched <= 2 THEN 250 ELSE 0
           b == Similarity(p.field, c.field)
           d == MethodScore(order.method)
           e == IF Near(order.delta, Close) THEN 50 ELSE 0
           f == IF p.page = c.page THEN 50 ELSE 0
           g == IF c.trace THEN 50 ELSE 0
           sum == 300 + a + b \div 5 + d + e + f + g
<1>1. Score(p, c, order, touched) =
          Lesser(990, IF order.relation = "ambiguous" THEN Lesser(sum - 200, AmbiguousCeiling)
                      ELSE sum)
  BY Zenon DEF Score
<1>2. a \in Int /\ e \in Int /\ f \in Int /\ g \in Int
  OBVIOUS
<1>3. b \in Int
  BY SimilarityIs
<1>4. d \in Int
  BY DEF MethodScore
<1> HIDE DEF a, b, d, e, f, g
<1>5. sum \in Int
  BY <1>2, <1>3, <1>4
<1> HIDE DEF sum
<1>6. QED
  BY <1>1, <1>5 DEF Lesser, AmbiguousCeiling

(* The edge from one sighting to another.                                  *)
EdgeFields == {"from", "to", "relation", "method", "delta", "confidence", "mechanism",
               "uniqueness", "repeats", "cites"}

LEMMA EdgeIs ==
    ASSUME NEW p, NEW c, NEW touched
    PROVE  LET e == Edge(p, c, touched)
           IN  /\ DOMAIN e = EdgeFields
               /\ e.from = <<p.endpoint, p.field>> /\ e.to = <<c.endpoint, c.field>>
               /\ e.relation = CompareSightings(p, c).relation
               /\ e.confidence = Score(p, c, CompareSightings(p, c), touched)
               /\ e.repeats = 1 /\ e.cites = {<<p.seq, c.seq>>}
               /\ e.mechanism = Mechanism(p, c)
<1>1. PICK order : order = CompareSightings(p, c)
  OBVIOUS
<1>2. PICK x, y, r, m, d, s, z, w :
          /\ x = <<p.endpoint, p.field>> /\ y = <<c.endpoint, c.field>>
          /\ r = order.relation /\ m = order.method /\ d = order.delta
          /\ s = Score(p, c, order, touched) /\ z = Mechanism(p, c) /\ w = {<<p.seq, c.seq>>}
  OBVIOUS
<1>3. PICK e : e = Edge(p, c, touched)
  OBVIOUS
<1>4. e = [from |-> x, to |-> y, relation |-> r, method |-> m, delta |-> d, confidence |-> s,
           mechanism |-> z, uniqueness |-> touched, repeats |-> 1, cites |-> w]
  BY <1>1, <1>2, <1>3, Zenon DEF Edge
<1>5. /\ DOMAIN e = EdgeFields /\ e.from = x /\ e.to = y /\ e.relation = r /\ e.confidence = s
      /\ e.repeats = 1 /\ e.cites = w /\ e.mechanism = z
  BY <1>4 DEF EdgeFields
<1>6. QED
  BY <1>1, <1>2, <1>3, <1>5, Zenon

(* The best of some edges is one of them.                                  *)
LEMMA BestIs ==
    ASSUME NEW n \in Nat, n # 0, NEW edges, edges = [i \in 1..n |-> edges[i]],
           \A i \in 1..n : /\ edges[i].relation \in {"precedes", "ambiguous"}
                           /\ edges[i].confidence \in Int /\ edges[i].confidence <= 990
    PROVE  BestOf(edges) \in ToSet(edges)
<1> DEFINE P(i) == edges[i].relation = "precedes"
           Firm == {i \in 1..n : P(i)}
           Top(i) == /\ i \in 1..n
                     /\ \A j \in 1..n : ~Worse(edges[i], edges[j])
                     /\ \A j \in 1..(i - 1) : Worse(edges[j], edges[i])
           C(i) == edges[i].confidence
<1>1. DOMAIN edges = 1..n
  OBVIOUS
<1>2. \A i, j \in 1..n : Worse(edges[i], edges[j]) <=>
          \/ ~P(i) /\ P(j)
          \/ (P(i) <=> P(j)) /\ C(i) < C(j)
  BY DEF Worse
<1>3. \A i \in 1..n : C(i) \in Int /\ C(i) <= 990
  OBVIOUS
<1> HIDE DEF C, P
<1>4. \E i : Top(i)
  <2>1. CASE Firm = {}
    <3> DEFINE rank == [i \in 1..n |-> 990 - C(i)]
    <3>1. \A i \in 1..n : rank[i] \in Nat
      BY <1>3
    <3> HIDE DEF rank, Firm
    <3>2. PICK i \in 1..n : /\ \A j \in 1..n : rank[i] <= rank[j]
                            /\ \A j \in 1..(i - 1) : rank[i] < rank[j]
      <4>1. PICK r : r = rank
        OBVIOUS
      <4>2. n # 0 /\ n \in Nat /\ \A k \in 1..n : r[k] \in Nat
        BY <3>1, <4>1
      <4>3. \E k \in 1..n : /\ \A j \in 1..n : r[k] <= r[j]
                            /\ \A j \in 1..(k - 1) : r[k] < r[j]
        BY ONLY <4>2, LeastPlace
      <4>4. QED
        BY <4>1, <4>3
    <3>3. \A j \in 1..n : ~(C(i) < C(j))
      BY <1>3, <3>2 DEF rank
    <3>4. ASSUME NEW j \in 1..(i - 1) PROVE C(j) < C(i) /\ j \in 1..n
      <4>1. j \in 1..n /\ rank[i] < rank[j]
        BY <3>2
      <4>2. 990 - C(i) < 990 - C(j)
        BY <3>2, <4>1 DEF rank
      <4>3. QED
        BY <1>3, <3>2, <4>1, <4>2
    <3>5. \A j \in 1..n : ~P(j)
      BY <2>1 DEF Firm
    <3>6. \A j \in 1..n : ~Worse(edges[i], edges[j])
      BY <1>2, <3>2, <3>3, <3>5
    <3>7. ASSUME NEW j \in 1..(i - 1) PROVE Worse(edges[j], edges[i])
      <4>1. j \in 1..n /\ i \in 1..n /\ C(j) < C(i) /\ ~P(i) /\ ~P(j)
        BY <3>2, <3>4, <3>5
      <4>2. QED
        BY <1>2, <4>1
    <3>8. Top(i)
      BY <3>2, <3>6, <3>7
    <3>9. QED
      BY <3>8
  <2>2. CASE Firm # {}
    <3>1. PICK f : f \in 1..n /\ P(f)
      BY <2>2
    <3> DEFINE Values == {990 - C(i) : i \in Firm}
    <3>2. Values \in SUBSET Nat /\ Values # {}
      BY <1>3, <2>2
    <3> HIDE DEF Values
    <3>3. PICK v \in Values : \A w \in Values : v <= w
      BY <3>2, LeastOne
    <3> DEFINE Tops == {i \in Firm : 990 - C(i) = v}
    <3>4. Tops \in SUBSET Nat /\ Tops # {}
      BY <3>3 DEF Values
    <3> HIDE DEF Tops
    <3>5. PICK i \in Tops : \A j \in Tops : i <= j
      BY <3>4, LeastOne
    <3>6. i \in 1..n /\ P(i) /\ 990 - C(i) = v
      BY <3>5 DEF Tops
    <3>7. \A j \in 1..n : P(j) => 990 - C(i) <= 990 - C(j)
      <4>1. ASSUME NEW j \in 1..n, P(j) PROVE 990 - C(i) <= 990 - C(j)
        <5>1. 990 - C(j) \in Values
          BY <4>1 DEF Values
        <5> HIDE DEF Firm
        <5>2. QED
          BY <3>3, <3>6, <5>1
      <4>2. QED
        BY <4>1
    <3>8. \A j \in 1..n : ~Worse(edges[i], edges[j])
      BY <1>2, <1>3, <3>6, <3>7
    <3>9. ASSUME NEW j \in 1..(i - 1) PROVE Worse(edges[j], edges[i])
      <4>1. j \in 1..n /\ ~(i <= j)
        BY <3>6
      <4>2. j \notin Tops
        BY <3>5, <4>1
      <4>3. P(j) => C(j) < C(i)
        <5>1. P(j) => 990 - C(j) # v
          BY <4>1, <4>2 DEF Tops
        <5>2. QED
          BY <1>3, <3>6, <3>7, <4>1, <5>1
      <4>4. QED
        BY <1>2, <3>6, <4>1, <4>3
    <3>10. Top(i)
      BY <3>6, <3>8, <3>9
    <3>11. QED
      BY <3>10
  <2>3. QED
    BY <2>1, <2>2
<1>5. BestOf(edges) = edges[CHOOSE i : Top(i)]
  BY <1>1, Zenon DEF BestOf
<1> DEFINE best == CHOOSE i : Top(i)
<1>6. Top(best)
  <2> HIDE DEF Top
  <2>1. QED
    BY <1>4
<1>7. best \in 1..n
  BY <1>6
<1> HIDE DEF best
<1>8. edges[best] \in ToSet(edges)
  BY <1>1, <1>7 DEF ToSet
<1>9. QED
  BY <1>5, <1>8 DEF best

(* What a comparison of two sightings rests on.                            *)
Basis(o) == <<o.source, o.document, o.world, o.ordinal, o.moment, o.seq, o.wall>>

LEMMA CompareBasis ==
    ASSUME NEW a, NEW b, NEW x, NEW y, Basis(a) = Basis(x), Basis(b) = Basis(y)
    PROVE  CompareSightings(a, b) = CompareSightings(x, y)
<1>1. /\ a.source = x.source /\ a.document = x.document /\ a.world = x.world
      /\ a.ordinal = x.ordinal /\ a.moment = x.moment /\ a.seq = x.seq /\ a.wall = x.wall
  BY DEF Basis
<1>2. /\ b.source = y.source /\ b.document = y.document /\ b.world = y.world
      /\ b.ordinal = y.ordinal /\ b.moment = y.moment /\ b.seq = y.seq /\ b.wall = y.wall
  BY DEF Basis
<1>3. SameDocument(a, b) <=> SameDocument(x, y)
  BY <1>1, <1>2 DEF SameDocument, FromProbe
<1>4. QED
  BY <1>1, <1>2, <1>3, Zenon DEF CompareSightings

(* Sightings of which two at one place of the log have one basis, and each *)
(* is of a field that has a name.                                          *)
Sighted(seen) ==
    /\ \A a, b \in seen : a.seq = b.seq => Basis(a) = Basis(b)
    /\ \A o \in seen : o.field \in DOMAIN Tokens

(* The orders that a pair of events shows for two fields.                  *)
Shown(seen, from, to, pair) ==
    {CompareSightings(p, c).relation :
        p \in {o \in seen : o.seq = pair[1] /\ <<o.endpoint, o.field>> = from},
        c \in {o \in seen : o.seq = pair[2] /\ <<o.endpoint, o.field>> = to}}

LEMMA ShownIs ==
    ASSUME NEW seen, Sighted(seen), NEW p \in seen, NEW c \in seen
    PROVE  Shown(seen, <<p.endpoint, p.field>>, <<c.endpoint, c.field>>, <<p.seq, c.seq>>)
               = {CompareSightings(p, c).relation}
<1> DEFINE pair == <<p.seq, c.seq>>
           Ps == {o \in seen : o.seq = pair[1] /\ <<o.endpoint, o.field>> = <<p.endpoint, p.field>>}
           Cs == {o \in seen : o.seq = pair[2] /\ <<o.endpoint, o.field>> = <<c.endpoint, c.field>>}
<1>1. pair[1] = p.seq /\ pair[2] = c.seq
  OBVIOUS
<1>2. p \in Ps /\ c \in Cs
  BY <1>1
<1>3. \A x \in Ps : Basis(x) = Basis(p)
  BY <1>1 DEF Sighted
<1>4. \A y \in Cs : Basis(y) = Basis(c)
  BY <1>1 DEF Sighted
<1>5. PICK shown : shown = Shown(seen, <<p.endpoint, p.field>>, <<c.endpoint, c.field>>, pair)
  OBVIOUS
<1>6. \A v : v \in shown <=> \E x \in Ps, y \in Cs : v = CompareSightings(x, y).relation
  BY <1>5 DEF Shown
<1> HIDE DEF Ps, Cs
<1>7. ASSUME NEW x \in Ps, NEW y \in Cs PROVE CompareSightings(x, y) = CompareSightings(p, c)
  <2>1. Basis(x) = Basis(p) /\ Basis(y) = Basis(c)
    BY <1>3, <1>4
  <2>2. QED
    BY <2>1, CompareBasis
<1>8. PICK r : r = CompareSightings(p, c).relation
  OBVIOUS
<1>9. \A v : v \in shown => v = r
  BY <1>6, <1>7, <1>8, Zenon
<1>10. r \in shown
  BY <1>2, <1>6, <1>8, Zenon
<1>11. shown = {r}
  BY <1>9, <1>10
<1>12. QED
  BY <1>5, <1>8, <1>11, Zenon

(* A dependency that its observations show.                                *)
Sound(seen, e) ==
    /\ DOMAIN e = EdgeFields
    /\ e.mechanism \in Mechanisms
    /\ e.relation \in {"precedes", "ambiguous"}
    /\ e.confidence \in Int
    /\ e.relation = "ambiguous" => e.confidence <= AmbiguousCeiling
    /\ e.repeats \in Nat
    /\ IsFiniteSet(e.cites) /\ e.cites # {} /\ Cardinality(e.cites) <= e.repeats
    /\ \A pair \in e.cites : Shown(seen, e.from, e.to, pair) \subseteq {"precedes", "ambiguous"}
    /\ e.relation = "precedes"
           <=> \E pair \in e.cites : "precedes" \in Shown(seen, e.from, e.to, pair)

Single(e) == e.repeats = 1 /\ \E pair : e.cites = {pair}

LEMMA EdgeSound ==
    ASSUME NEW seen, Sighted(seen), NEW p \in seen, NEW c \in seen, NEW touched,
           Plausible(p, c, touched)
    PROVE  LET e == Edge(p, c, touched)
           IN  Sound(seen, e) /\ Single(e) /\ e.confidence <= 990
<1>1. PICK e : e = Edge(p, c, touched)
  OBVIOUS
<1>2. PICK pair : pair = <<p.seq, c.seq>>
  OBVIOUS
<1>3. PICK order : order = CompareSightings(p, c)
  OBVIOUS
<1>4. PICK s : s = Score(p, c, order, touched)
  OBVIOUS
<1>5. /\ DOMAIN e = EdgeFields
      /\ e.from = <<p.endpoint, p.field>> /\ e.to = <<c.endpoint, c.field>>
      /\ e.relation = order.relation /\ e.confidence = s
      /\ e.repeats = 1 /\ e.cites = {pair} /\ e.mechanism \in Mechanisms
  <2>1. LET f == Edge(p, c, touched)
        IN  /\ DOMAIN f = EdgeFields
            /\ f.from = <<p.endpoint, p.field>> /\ f.to = <<c.endpoint, c.field>>
            /\ f.relation = CompareSightings(p, c).relation
            /\ f.confidence = Score(p, c, CompareSightings(p, c), touched)
            /\ f.repeats = 1 /\ f.cites = {<<p.seq, c.seq>>} /\ f.mechanism = Mechanism(p, c)
    BY EdgeIs
  <2>2. /\ DOMAIN e = EdgeFields
        /\ e.from = <<p.endpoint, p.field>> /\ e.to = <<c.endpoint, c.field>>
        /\ e.repeats = 1 /\ e.cites = {pair}
    BY <1>1, <1>2, <2>1
  <2>3. e.relation = order.relation
    BY <1>1, <1>3, <2>1
  <2>4. e.confidence = s
    BY <1>1, <1>3, <1>4, <2>1
  <2>5. e.mechanism \in Mechanisms
    <3>1. Mechanism(p, c) \in Mechanisms
      BY DEF Mechanism, Mechanisms
    <3>2. QED
      BY <1>1, <2>1, <3>1
  <2>6. QED
    BY <2>2, <2>3, <2>4, <2>5
<1>6. p.field \in DOMAIN Tokens /\ c.field \in DOMAIN Tokens
  BY DEF Sighted
<1>7. s \in Int /\ s <= 990 /\ (order.relation = "ambiguous" => s <= AmbiguousCeiling)
  <2>1. LET z == Score(p, c, order, touched)
        IN  z \in Int /\ z <= 990 /\ (order.relation = "ambiguous" => z <= AmbiguousCeiling)
    BY <1>6, ScoreIs
  <2>2. QED
    BY <1>4, <2>1
<1>8. order.relation \in {"precedes", "ambiguous"}
  <2>1. order.relation # "contradicted"
    BY <1>3, Zenon DEF Plausible
  <2>2. QED
    BY <1>3, <2>1, RelationIs
<1>9. Shown(seen, e.from, e.to, pair) = {order.relation}
  <2>1. Shown(seen, <<p.endpoint, p.field>>, <<c.endpoint, c.field>>, <<p.seq, c.seq>>)
            = {CompareSightings(p, c).relation}
    BY ShownIs
  <2>2. QED
    BY <1>2, <1>3, <1>5, <2>1
<1>10. IsFiniteSet({pair}) /\ Cardinality({pair}) = 1
  BY FS_Singleton
<1>11. Sound(seen, e)
  <2>1. /\ \A q \in e.cites : Shown(seen, e.from, e.to, q) \subseteq {"precedes", "ambiguous"}
        /\ e.relation = "precedes"
               <=> \E q \in e.cites : "precedes" \in Shown(seen, e.from, e.to, q)
    BY <1>5, <1>8, <1>9
  <2>2. 1 \in Nat /\ 1 <= 1
    OBVIOUS
  <2>3. IsFiniteSet(e.cites) /\ e.cites # {} /\ Cardinality(e.cites) <= e.repeats
    BY <1>5, <1>10, <2>2
  <2>4. QED
    BY <1>5, <1>7, <1>8, <2>1, <2>2, <2>3 DEF Sound
<1>12. Single(e)
  BY <1>5 DEF Single
<1>13. QED
  BY <1>1, <1>5, <1>7, <1>11, <1>12, Zenon

(* The dependencies of one value, and of sightings that all have it.       *)
LEMMA EdgesOfSound ==
    ASSUME NEW seen, Sighted(seen), NEW s, s \in Seq(ToSet(s)), ToSet(s) \subseteq seen
    PROVE  /\ IsList(EdgesOf(s))
           /\ \A e \in ToSet(EdgesOf(s)) : Sound(seen, e) /\ Single(e)
<1> DEFINE touched == Cardinality({o.endpoint : o \in ToSet(s)})
           Gives(i, c) == s[i].role = "producer" /\ Plausible(s[i], c, touched)
           Giving(c) == {i \in DOMAIN s : Gives(i, c)}
           Givers(c) == Those(s, Giving(c))
           Taking == {i \in DOMAIN s : /\ touched <= MaxEndpoints
                                       /\ s[i].role = "consumer"
                                       /\ Givers(s[i]) # <<>>}
           given == Those(s, Taking)
           Edges(c) == [j \in DOMAIN Givers(c) |-> Edge(Givers(c)[j], c, touched)]
<1>1. EdgesOf(s) = [i \in DOMAIN given |-> BestOf(Edges(given[i]))]
  BY Zenon DEF EdgesOf
<1>2. PICK t : t = touched
  OBVIOUS
<1>3. /\ given \in Seq(ToSet(s)) /\ DOMAIN given = 1..Len(given) /\ Len(given) \in Nat
      /\ \A i \in DOMAIN given : given[i] \in seen /\ Givers(given[i]) # <<>>
  <2>1. Taking \in SUBSET (DOMAIN s)
    OBVIOUS
  <2>2. \A v : v \in ToSet(given) <=> (\E i \in Taking : v = s[i])
    BY <2>1, ThoseHold
  <2>3. given \in Seq(ToSet(s))
    <3> HIDE DEF Taking
    <3>1. QED
      BY <2>1, ThoseAre
  <2>4. \A i \in Taking : s[i] \in seen /\ Givers(s[i]) # <<>>
    BY DEF ToSet
  <2> HIDE DEF Taking, Givers, given
  <2>5. \A i \in DOMAIN given : given[i] \in ToSet(given)
    BY DEF ToSet
  <2>6. QED
    BY <2>2, <2>3, <2>4, <2>5
<1>4. ASSUME NEW c \in seen, Givers(c) # <<>>
      PROVE  Sound(seen, BestOf(Edges(c))) /\ Single(BestOf(Edges(c)))
  <2>1. Giving(c) \in SUBSET (DOMAIN s)
    OBVIOUS
  <2>2. \A v : v \in ToSet(Givers(c)) <=> (\E i \in Giving(c) : v = s[i])
    BY <2>1, ThoseHold
  <2>3. Givers(c) \in Seq(ToSet(s))
    <3> HIDE DEF Giving
    <3>1. QED
      BY <2>1, ThoseAre
  <2>4. \A i \in Giving(c) : s[i] \in seen /\ Plausible(s[i], c, touched)
    BY DEF ToSet
  <2> HIDE DEF Giving, Givers, touched
  <2>5. PICK g, n : g = Givers(c) /\ n = Len(g)
    OBVIOUS
  <2>6. n \in Nat /\ n # 0 /\ DOMAIN g = 1..n
    BY <1>4, <2>3, <2>5
  <2>7. \A j \in 1..n : g[j] \in seen /\ Plausible(g[j], c, touched)
    <3>1. \A j \in 1..n : g[j] \in ToSet(g)
      BY <2>6 DEF ToSet
    <3>2. QED
      BY <2>2, <2>4, <2>5, <3>1
  <2>8. PICK edges : edges = Edges(c)
    OBVIOUS
  <2>9. edges = [j \in 1..n |-> Edge(g[j], c, touched)]
    BY <2>5, <2>6, <2>8
  <2>10. ASSUME NEW j \in 1..n
         PROVE  Sound(seen, edges[j]) /\ Single(edges[j]) /\ edges[j].confidence <= 990
    <3>1. PICK p : p = g[j]
      OBVIOUS
    <3>2. p \in seen /\ Plausible(p, c, touched)
      BY <2>7, <3>1
    <3>3. LET e == Edge(p, c, touched)
          IN  Sound(seen, e) /\ Single(e) /\ e.confidence <= 990
      BY <3>2, EdgeSound
    <3>4. edges[j] = Edge(p, c, touched)
      BY <2>9, <3>1
    <3>5. QED
      BY <3>3, <3>4, Zenon
  <2>11. edges = [j \in 1..n |-> edges[j]]
    BY <2>9
  <2>12. \A j \in 1..n : /\ edges[j].relation \in {"precedes", "ambiguous"}
                         /\ edges[j].confidence \in Int /\ edges[j].confidence <= 990
    BY <2>10 DEF Sound
  <2>13. BestOf(edges) \in ToSet(edges)
    BY <2>6, <2>11, <2>12, BestIs
  <2>14. PICK j \in 1..n : BestOf(edges) = edges[j]
    BY <2>11, <2>13 DEF ToSet
  <2> HIDE DEF Edges
  <2>15. QED
    BY <2>8, <2>10, <2>14, Zenon
<1> HIDE DEF given, Givers, Edges
<1>5. PICK n : n = Len(given)
  OBVIOUS
<1>6. PICK f : f = EdgesOf(s)
  OBVIOUS
<1>7. f = [i \in 1..n |-> BestOf(Edges(given[i]))] /\ n \in Nat
  BY <1>1, <1>3, <1>5, <1>6
<1>8. IsList(f) /\ DOMAIN f = 1..n
  <2>1. f = [i \in 1..n |-> f[i]]
    BY <1>7
  <2>2. QED
    BY <1>7, <2>1, ListIs
<1>9. ASSUME NEW i \in 1..n PROVE Sound(seen, f[i]) /\ Single(f[i])
  BY <1>3, <1>4, <1>5, <1>7
<1>10. QED
  BY <1>6, <1>8, <1>9 DEF ToSet

(* A relationship seen again stays sound.                                  *)
LEMMA AgainSound ==
    ASSUME NEW seen, NEW known, NEW edge, Sound(seen, known), Sound(seen, edge), Single(edge),
           known.from = edge.from, known.to = edge.to
    PROVE  Sound(seen, Again(known, edge)) /\ Again(known, edge).from = known.from
           /\ Again(known, edge).to = known.to
<1> DEFINE order == IF edge.relation = "precedes" THEN edge ELSE known
           ceiling == IF order.relation = "ambiguous" THEN AmbiguousCeiling ELSE 990
           w == Lesser(ceiling, Greater(known.confidence, edge.confidence) + 30 * known.repeats)
           r == order.relation
           m == order.method
           d == order.delta
           n == known.repeats + 1
           k == known.cites \cup edge.cites
<1>1. PICK pair : edge.cites = {pair}
  BY DEF Single
<1>2. PICK a : a = Again(known, edge)
  OBVIOUS
<1>3. a = [known EXCEPT !.repeats = n, !.cites = k, !.relation = r, !.method = m, !.delta = d,
                        !.confidence = w]
  BY <1>2, Zenon DEF Again
<1>4. /\ w = Lesser(ceiling, Greater(known.confidence, edge.confidence) + 30 * known.repeats)
      /\ r = order.relation /\ n = known.repeats + 1 /\ k = known.cites \cup edge.cites
  OBVIOUS
<1> HIDE DEF w, r, m, d, n, k
<1>5. DOMAIN known = EdgeFields
  BY DEF Sound
<1>6. /\ DOMAIN a = EdgeFields /\ a.from = known.from /\ a.to = known.to /\ a.relation = r
      /\ a.confidence = w /\ a.repeats = n /\ a.cites = k /\ a.mechanism = known.mechanism
  BY <1>3, <1>5 DEF EdgeFields
<1>7. r \in {"precedes", "ambiguous"}
      /\ (r = "precedes" <=> known.relation = "precedes" \/ edge.relation = "precedes")
  BY <1>4 DEF Sound
<1>8. w \in Int /\ (r = "ambiguous" => w <= AmbiguousCeiling)
  <2>1. PICK x, y, z : x = known.confidence /\ y = edge.confidence /\ z = known.repeats
    OBVIOUS
  <2>2. x \in Int /\ y \in Int /\ z \in Nat
    BY <2>1 DEF Sound
  <2>3. w = Lesser(IF r = "ambiguous" THEN AmbiguousCeiling ELSE 990, Greater(x, y) + 30 * z)
    BY <1>4, <2>1
  <2>4. QED
    BY <2>2, <2>3 DEF Lesser, Greater, AmbiguousCeiling
<1>9. n \in Nat /\ IsFiniteSet(k) /\ k # {} /\ Cardinality(k) <= n
  <2>1. PICK c, z : c = known.cites /\ z = known.repeats
    OBVIOUS
  <2>2. IsFiniteSet(c) /\ c # {} /\ z \in Nat /\ Cardinality(c) <= z
    BY <2>1 DEF Sound
  <2>3. k = c \cup {pair} /\ n = z + 1
    BY <1>1, <1>4, <2>1
  <2>4. IsFiniteSet(k) /\ Cardinality(k) = IF pair \in c THEN Cardinality(c) ELSE Cardinality(c) + 1
    BY <2>2, <2>3, FS_AddElement
  <2>5. Cardinality(c) \in Nat
    BY <2>2, FS_CardinalityType
  <2>6. QED
    BY <2>2, <2>3, <2>4, <2>5
<1>10. PICK from, to : from = known.from /\ to = known.to
  OBVIOUS
<1>11. /\ \A q \in known.cites : Shown(seen, from, to, q) \subseteq {"precedes", "ambiguous"}
       /\ \A q \in edge.cites : Shown(seen, from, to, q) \subseteq {"precedes", "ambiguous"}
       /\ known.relation = "precedes"
              <=> \E q \in known.cites : "precedes" \in Shown(seen, from, to, q)
       /\ edge.relation = "precedes"
              <=> \E q \in edge.cites : "precedes" \in Shown(seen, from, to, q)
  BY <1>10 DEF Sound
<1>12. /\ \A q \in k : Shown(seen, from, to, q) \subseteq {"precedes", "ambiguous"}
       /\ r = "precedes" <=> \E q \in k : "precedes" \in Shown(seen, from, to, q)
  <2>1. k = known.cites \cup edge.cites
    BY <1>4
  <2>2. QED
    BY <1>7, <1>11, <2>1, Zenon
<1>13. Sound(seen, a)
  BY <1>6, <1>7, <1>8, <1>9, <1>10, <1>12 DEF Sound
<1>14. QED
  BY <1>2, <1>6, <1>13, Zenon

(* Relationships that are sound stay so when one more is seen.             *)
AllSound(seen, list) == IsList(list) /\ \A e \in ToSet(list) : Sound(seen, e)

LEMMA JoinedSound ==
    ASSUME NEW seen, NEW known, AllSound(seen, known), NEW edge, Sound(seen, edge), Single(edge)
    PROVE  AllSound(seen, Joined(known, edge))
<1> DEFINE I == {i \in 1..Len(known) : known[i].from = edge.from /\ known[i].to = edge.to}
           same == IF I # {} THEN Min(I) ELSE 0
<1>1. PICK T : known \in Seq(T)
  BY DEF AllSound, IsList
<1>2. /\ Len(known) \in Nat /\ DOMAIN known = 1..Len(known)
      /\ known = [i \in 1..Len(known) |-> known[i]]
  BY <1>1
<1>3. \A i \in 1..Len(known) : Sound(seen, known[i])
  BY <1>2 DEF AllSound, ToSet
<1>4. Joined(known, edge) = IF same = 0 THEN Append(known, edge)
                            ELSE [known EXCEPT ![same] = Again(known[same], edge)]
  BY DEF Joined, SelectInSeq
<1>5. CASE I = {}
  <2>1. PICK a : a = Append(known, edge)
    OBVIOUS
  <2>2. Joined(known, edge) = a
    BY <1>4, <1>5, <2>1
  <2>3. a \in Seq(T \cup {edge})
    BY <1>1, <2>1
  <2>4. DOMAIN a = 1..(Len(known) + 1)
        /\ \A i \in DOMAIN a : a[i] = IF i = Len(known) + 1 THEN edge ELSE known[i]
    BY <1>1, <1>2, <2>1
  <2>5. \A i \in DOMAIN a : Sound(seen, a[i])
    BY <1>2, <1>3, <2>4
  <2>6. QED
    BY <2>2, <2>3, <2>5 DEF AllSound, IsList, ToSet
<1>6. CASE I # {}
  <2>1. same \in I
    <3>1. I \in SUBSET Nat
      BY <1>2
    <3>2. \E i \in I : \A j \in I : i <= j
      BY <1>6, <3>1, LeastOne
    <3> HIDE DEF I
    <3>3. QED
      BY <1>6, <3>2 DEF Min
  <2> HIDE DEF same
  <2>2. same \in 1..Len(known) /\ known[same].from = edge.from /\ known[same].to = edge.to
    BY <2>1
  <2>3. same # 0
    BY <1>2, <2>2
  <2>4. PICK new : new = Again(known[same], edge)
    OBVIOUS
  <2>5. Sound(seen, new)
    <3>1. PICK k : k = known[same]
      OBVIOUS
    <3>2. Sound(seen, k) /\ k.from = edge.from /\ k.to = edge.to
      BY <1>3, <2>2, <3>1, Zenon
    <3>3. Sound(seen, Again(k, edge))
      BY <3>2, AgainSound
    <3>4. QED
      BY <2>4, <3>1, <3>3, Zenon
  <2>6. PICK a : a = Joined(known, edge)
    OBVIOUS
  <2>7. a = [known EXCEPT ![same] = new]
    BY <1>4, <2>3, <2>4, <2>6
  <2>8. /\ a = [i \in 1..Len(known) |-> a[i]]
        /\ \A i \in 1..Len(known) : a[i] = IF i = same THEN new ELSE known[i]
    BY <1>2, <2>2, <2>7
  <2>9. IsList(a) /\ DOMAIN a = 1..Len(known)
    BY <1>2, <2>8, ListIs
  <2>10. \A i \in DOMAIN a : Sound(seen, a[i])
    BY <1>3, <2>5, <2>8, <2>9
  <2>11. QED
    BY <2>6, <2>9, <2>10 DEF AllSound, ToSet
<1>7. QED
  BY <1>5, <1>6

LEMMA MergedSound ==
    ASSUME NEW seen, NEW edges, IsList(edges),
           \A e \in ToSet(edges) : Sound(seen, e) /\ Single(e)
    PROVE  AllSound(seen, Merged(edges))
<1> DEFINE n == Len(edges)
           To(h, j) == h = [i \in 0..j |-> IF i = 0 THEN <<>> ELSE Joined(h[i - 1], edges[i])]
           None == {j \in Nat : j <= n /\ ~\E h : To(h, j)}
           chosen == CHOOSE h : To(h, n)
           Wrong == {i \in 0..n : ~AllSound(seen, chosen[i])}
<1>1. n \in Nat /\ DOMAIN edges = 1..n
  BY DEF IsList
<1>2. \A i \in 1..n : Sound(seen, edges[i]) /\ Single(edges[i])
  BY <1>1 DEF ToSet
<1>3. Merged(edges) = chosen[n]
  BY Zenon DEF Merged
<1>4. ASSUME None # {} PROVE FALSE
  <2>1. PICK j \in None : \A l \in None : j <= l
    <3>1. None \in SUBSET Nat
      OBVIOUS
    <3> HIDE DEF None
    <3>2. QED
      BY <1>4, <3>1, LeastOne
  <2> HIDE DEF n
  <2>2. j # 0
    <3>1. To([i \in 0..0 |-> <<>>], 0)
      OBVIOUS
    <3>2. QED
      BY <2>1, <3>1, Zenon
  <2>3. j - 1 \in Nat /\ j - 1 <= n /\ j - 1 \notin None
    <3>1. j \in Nat /\ j <= n
      BY <2>1
    <3>2. j - 1 \in Nat /\ j - 1 <= n /\ ~(j <= j - 1)
      BY <1>1, <2>2, <3>1
    <3> HIDE DEF None
    <3>3. QED
      BY <2>1, <3>2
  <2>4. PICK h : To(h, j - 1)
    BY <2>3
  <2> DEFINE f == [i \in 0..j |-> IF i = j THEN Joined(h[j - 1], edges[j]) ELSE h[i]]
  <2>5. ASSUME NEW i \in 0..j
        PROVE  f[i] = IF i = 0 THEN <<>> ELSE Joined(f[i - 1], edges[i])
    <3>1. CASE i = j
      BY <2>2, <2>3, <3>1
    <3>2. CASE i # j
      <4>1. i \in 0..(j - 1)
        BY <2>3, <3>2
      <4>2. h[i] = IF i = 0 THEN <<>> ELSE Joined(h[i - 1], edges[i])
        BY <2>4, <4>1
      <4>3. f[i] = h[i] /\ (i # 0 => f[i - 1] = h[i - 1])
        BY <3>2, <4>1
      <4>4. QED
        BY <4>2, <4>3
    <3>3. QED
      BY <3>1, <3>2
  <2>6. f = [i \in 0..j |-> f[i]]
    OBVIOUS
  <2> HIDE DEF f
  <2>7. To(f, j)
    BY <2>5, <2>6
  <2>8. QED
    BY <2>1, <2>7, Zenon
<1>5. To(chosen, n)
  <2>1. \E h : To(h, n)
    <3>1. n \notin None /\ n \in Nat /\ n <= n
      <4> HIDE DEF None, n
      <4>1. QED
        BY <1>1, <1>4
    <3> HIDE DEF To, n
    <3>2. QED
      BY <3>1
  <2> HIDE DEF To
  <2>2. QED
    BY <2>1
<1> HIDE DEF chosen, n
<1>6. ASSUME Wrong # {} PROVE FALSE
  <2>1. PICK i \in Wrong : \A l \in Wrong : i <= l
    <3>1. Wrong \in SUBSET Nat
      BY <1>1
    <3> HIDE DEF Wrong
    <3>2. QED
      BY <1>6, <3>1, LeastOne
  <2>2. i \in 0..n /\ ~AllSound(seen, chosen[i])
    BY <2>1
  <2>3. chosen[i] = IF i = 0 THEN <<>> ELSE Joined(chosen[i - 1], edges[i])
    BY <1>5, <2>2
  <2>4. CASE i = 0
    <3>1. AllSound(seen, <<>>)
      BY DEF AllSound, IsList, ToSet
    <3>2. QED
      BY <2>2, <2>3, <2>4, <3>1
  <2>5. CASE i # 0
    <3>1. i - 1 \in 0..n /\ ~(i <= i - 1) /\ i \in 1..n
      BY <1>1, <2>2, <2>5
    <3>2. i - 1 \notin Wrong
      <4> HIDE DEF Wrong
      <4>1. QED
        BY <2>1, <3>1
    <3>3. AllSound(seen, chosen[i - 1])
      BY <3>1, <3>2
    <3>4. AllSound(seen, Joined(chosen[i - 1], edges[i]))
      BY <1>2, <3>1, <3>3, JoinedSound
    <3>5. QED
      BY <2>2, <2>3, <2>5, <3>4
  <2>6. QED
    BY <2>4, <2>5
<1>7. n \in 0..n
  BY <1>1
<1>8. QED
  BY <1>3, <1>6, <1>7

(* What is seen in a list of events: each sighting is of a leaf of one.    *)
Placed(events) ==
    /\ IsList(events)
    /\ \A i \in DOMAIN events : events[i].seq = i /\ Carrying(events[i])

LEMMA SightingsAre ==
    ASSUME NEW events, Placed(events)
    PROVE  /\ IsList(Sightings(events))
           /\ \A o \in ToSet(Sightings(events)) :
                  \E i \in DOMAIN events : \E leaf \in ToSet(events[i].leaves) :
                      o = Sighting(events[i], leaf)
<1>1. Len(events) \in Nat /\ DOMAIN events = 1..Len(events)
  BY DEF Placed, IsList
<1>2. ASSUME NEW e, Carrying(e)
      PROVE  /\ IsList(SightingsIn(e))
             /\ \A o \in ToSet(SightingsIn(e)) : \E leaf \in ToSet(e.leaves) : o = Sighting(e, leaf)
  <2> DEFINE I == {i \in DOMAIN e.leaves : Reached(e.leaves[i]) /\ Identifying(e.leaves[i].value)}
             kept == Those(e.leaves, I)
  <2>1. SightingsIn(e) = IF e.type \in Producing \cup Consuming /\ ~e.reduced
                         THEN [j \in DOMAIN kept |-> Sighting(e, kept[j])]
                         ELSE <<>>
    BY Zenon DEF SightingsIn
  <2>2. PICK s, leaves : s = SightingsIn(e) /\ leaves = e.leaves
    OBVIOUS
  <2>3. leaves \in Seq(ToSet(leaves)) /\ I \in SUBSET (DOMAIN leaves)
    <3>1. e.leaves \in Seq(ToSet(e.leaves))
      BY <1>2, Zenon DEF Carrying
    <3>2. I \in SUBSET (DOMAIN e.leaves)
      OBVIOUS
    <3> HIDE DEF I
    <3>3. QED
      BY <2>2, <3>1, <3>2, Zenon
  <2>4. PICK k, T : k = Those(e.leaves, I) /\ T = ToSet(leaves)
    OBVIOUS
  <2>5. k \in Seq(ToSet(leaves))
    <3> HIDE DEF I
    <3>1. leaves \in Seq(T) /\ I \in SUBSET (DOMAIN leaves)
      BY <2>3, <2>4
    <3>2. Those(leaves, I) \in Seq(T)
      BY <3>1, ThoseAre
    <3>3. k = Those(leaves, I)
      BY <2>2, <2>4
    <3>4. QED
      BY <2>4, <3>2, <3>3
  <2>6. s = [j \in DOMAIN k |-> Sighting(e, k[j])] \/ s = <<>>
    BY <2>1, <2>2, <2>4, Zenon
  <2>7. CASE s = <<>>
    BY <2>2, <2>7 DEF IsList, ToSet
  <2>8. CASE s = [j \in DOMAIN k |-> Sighting(e, k[j])]
    <3>1. Len(k) \in Nat /\ DOMAIN k = 1..Len(k)
      BY <2>5
    <3>2. s = [j \in 1..Len(k) |-> s[j]]
      BY <2>8, <3>1
    <3>3. IsList(s) /\ DOMAIN s = 1..Len(k)
      BY <3>1, <3>2, ListIs
    <3>4. \A j \in 1..Len(k) : k[j] \in ToSet(leaves) /\ s[j] = Sighting(e, k[j])
      BY <2>5, <2>8, <3>1
    <3>5. \A o \in ToSet(s) : \E j \in 1..Len(k) : o = s[j]
      BY <3>3 DEF ToSet
    <3>6. QED
      BY <2>2, <3>3, <3>4, <3>5, Zenon
  <2>9. QED
    BY <2>6, <2>7, <2>8
<1>3. PICK f : f = [i \in DOMAIN events |-> SightingsIn(events[i])]
  OBVIOUS
<1>4. PICK n : n = Len(events)
  OBVIOUS
<1>5. n \in Nat /\ DOMAIN events = 1..n /\ f = [i \in 1..n |-> f[i]]
  BY <1>1, <1>3, <1>4
<1>6. ASSUME NEW i \in 1..n
      PROVE  /\ IsList(f[i])
             /\ \A o \in ToSet(f[i]) :
                    \E leaf \in ToSet(events[i].leaves) : o = Sighting(events[i], leaf)
  <2>1. PICK e : e = events[i]
    OBVIOUS
  <2>2. Carrying(e)
    BY <1>5, <2>1 DEF Placed
  <2>3. f[i] = SightingsIn(e)
    BY <1>3, <1>5, <2>1
  <2>4. /\ IsList(SightingsIn(e))
        /\ \A o \in ToSet(SightingsIn(e)) : \E leaf \in ToSet(e.leaves) : o = Sighting(e, leaf)
    BY <1>2, <2>2
  <2>5. QED
    BY <2>1, <2>3, <2>4, Zenon
<1>7. PICK T : f \in Seq(Seq(T))
  BY <1>5, <1>6, ListsIn
<1>8. Sightings(events) = FlattenSeq(f)
  BY <1>3, Zenon DEF Sightings
<1>9. Len(f) = n
  BY <1>5, ListIs
<1>10. /\ FlattenSeq(f) \in Seq(T)
       /\ \A v \in ToSet(FlattenSeq(f)) : \E k \in 1..n : v \in ToSet(f[k])
  BY <1>7, <1>9, FlattenHolds
<1>11. IsList(Sightings(events))
  BY <1>8, <1>10 DEF IsList
<1>12. QED
  BY <1>5, <1>6, <1>8, <1>10, <1>11, Zenon

LEMMA SightedIs ==
    ASSUME NEW events, Placed(events) PROVE Sighted(ToSet(Sightings(events)))
<1>1. ASSUME NEW e, NEW leaf
      PROVE  /\ Sighting(e, leaf).seq = e.seq /\ Sighting(e, leaf).field = leaf.field
             /\ Basis(Sighting(e, leaf)) =
                    <<e.source, <<e.page, e.doc>>, e.world, e.ordinal, e.moment, e.seq, e.wall>>
  BY DEF Sighting, Basis
<1>2. ASSUME NEW o \in ToSet(Sightings(events))
      PROVE  /\ o.field \in DOMAIN Tokens
             /\ \E e : e = events[o.seq] /\
                    Basis(o) = <<e.source, <<e.page, e.doc>>, e.world, e.ordinal, e.moment, e.seq, e.wall>>
  <2>1. PICK i \in DOMAIN events : \E leaf \in ToSet(events[i].leaves) : o = Sighting(events[i], leaf)
    BY SightingsAre, Zenon
  <2>2. PICK e : e = events[i]
    OBVIOUS
  <2>3. PICK leaf \in ToSet(e.leaves) : o = Sighting(e, leaf)
    BY <2>1, <2>2, Zenon
  <2>4. e.seq = i /\ leaf.field \in DOMAIN Tokens
    BY <2>1, <2>2, <2>3 DEF Placed, Carrying
  <2>5. /\ o.seq = i /\ o.field = leaf.field
        /\ Basis(o) = <<e.source, <<e.page, e.doc>>, e.world, e.ordinal, e.moment, e.seq, e.wall>>
    BY <1>1, <2>3, <2>4, Zenon
  <2>6. QED
    BY <2>2, <2>4, <2>5, Zenon
<1>3. ASSUME NEW a \in ToSet(Sightings(events)), NEW b \in ToSet(Sightings(events)), a.seq = b.seq
      PROVE  Basis(a) = Basis(b)
  BY <1>2, <1>3, Zenon
<1>4. QED
  BY <1>2, <1>3, Zenon DEF Sighted

(* The dependencies of a list of events rest on what is seen in it.        *)
LEMMA DependenciesSound ==
    ASSUME NEW events, Placed(events)
    PROVE  \A e \in ToSet(Dependencies(events)) : Sound(ToSet(Sightings(events)), e)
<1>1. PICK seen, all : seen = Sightings(events) /\ all = ToSet(seen)
  OBVIOUS
<1>2. Sighted(all)
  BY <1>1, SightedIs, Zenon
<1>3. seen \in Seq(all)
  <2>1. IsList(seen)
    BY <1>1, SightingsAre, Zenon
  <2>2. QED
    BY <1>1, <2>1 DEF IsList, ToSet
<1> DEFINE firsts == Distinct([i \in DOMAIN seen |-> seen[i].value])
           At(v) == {i \in DOMAIN seen : seen[i].value = v}
           Of(v) == Those(seen, At(v))
           f == [k \in DOMAIN firsts |-> EdgesOf(Of(firsts[k]))]
<1>4. Dependencies(events) = Merged(FlattenSeq(f))
  BY <1>1, Zenon DEF Dependencies
<1>5. firsts \in Seq(ToSet(firsts))
  <2>1. PICK w : w = [i \in DOMAIN seen |-> seen[i].value]
    OBVIOUS
  <2>2. Len(seen) \in Nat /\ DOMAIN seen = 1..Len(seen)
    BY <1>3
  <2>3. w \in Seq(ToSet(w))
    BY <2>1, <2>2 DEF ToSet
  <2>4. Firsts(w) \in SUBSET (DOMAIN w)
    BY DEF Firsts
  <2>5. Those(w, Firsts(w)) \in Seq(ToSet(w))
    BY <2>3, <2>4, ThoseAre
  <2>6. firsts = Those(w, Firsts(w))
    BY <2>1, Zenon DEF Distinct
  <2> HIDE DEF firsts
  <2>7. QED
    BY <2>5, <2>6 DEF ToSet
<1>6. ASSUME NEW v
      PROVE  /\ IsList(EdgesOf(Of(v)))
             /\ \A e \in ToSet(EdgesOf(Of(v))) : Sound(all, e) /\ Single(e)
  <2>1. At(v) \in SUBSET (DOMAIN seen)
    OBVIOUS
  <2> HIDE DEF At
  <2>2. PICK s : s = Of(v)
    OBVIOUS
  <2>3. s \in Seq(all)
    BY <1>3, <2>1, <2>2, ThoseAre
  <2>4. s \in Seq(ToSet(s)) /\ ToSet(s) \subseteq all
    BY <2>3 DEF ToSet
  <2>5. IsList(EdgesOf(s)) /\ \A e \in ToSet(EdgesOf(s)) : Sound(all, e) /\ Single(e)
    BY <1>2, <2>4, EdgesOfSound
  <2>6. QED
    BY <2>2, <2>5, Zenon
<1> HIDE DEF Of, firsts
<1>7. PICK n, g : n = Len(firsts) /\ g = f
  OBVIOUS
<1>8. n \in Nat /\ DOMAIN firsts = 1..n /\ g = [k \in 1..n |-> EdgesOf(Of(firsts[k]))]
  BY <1>5, <1>7
<1>9. g = [k \in 1..n |-> g[k]] /\ \A k \in 1..n : g[k] = EdgesOf(Of(firsts[k]))
  BY <1>8
<1>10. \A k \in 1..n : IsList(g[k]) /\ \A e \in ToSet(g[k]) : Sound(all, e) /\ Single(e)
  BY <1>6, <1>9
<1>11. PICK T : g \in Seq(Seq(T))
  BY <1>8, <1>9, <1>10, ListsIn
<1>12. Len(g) = n
  BY <1>8, <1>9, ListIs
<1>13. /\ FlattenSeq(g) \in Seq(T)
       /\ \A v \in ToSet(FlattenSeq(g)) : \E k \in 1..n : v \in ToSet(g[k])
  BY <1>11, <1>12, FlattenHolds
<1>14. PICK edges : edges = FlattenSeq(g)
  OBVIOUS
<1>15. IsList(edges) /\ \A e \in ToSet(edges) : Sound(all, e) /\ Single(e)
  BY <1>10, <1>13, <1>14 DEF IsList
<1>16. AllSound(all, Merged(edges))
  BY <1>15, MergedSound
<1> HIDE DEF f
<1>17. Dependencies(events) = Merged(edges)
  BY <1>4, <1>7, <1>14, Zenon
<1>18. QED
  BY <1>1, <1>16, <1>17, Zenon DEF AllSound

LEMMA KnownPlaced ==
    ASSUME TimelineInv, SaidInv PROVE Placed(Known)
<1>1. /\ Len(log) \in Nat /\ DOMAIN log = 1..Len(log)
      /\ \A i \in DOMAIN log : /\ log[i].seq = i /\ DOMAIN log[i] = DOMAIN Blank
                               /\ Carrying(log[i])
  BY LogIsOfEvents
<1>2. PICK known, n : known = Known /\ n = Len(log)
  OBVIOUS
<1>3. PICK key : key = [i \in DOMAIN log |-> KeyOf(log, EndpointsOf(log), log[i])]
  OBVIOUS
<1>4. known = [i \in DOMAIN log |-> [log[i] EXCEPT !.endpoint = KeyOf(log, EndpointsOf(log), log[i])]]
  BY <1>2, Zenon DEF Known, Attributed
<1>5. known = [i \in 1..n |-> [log[i] EXCEPT !.endpoint = key[i]]]
  BY <1>1, <1>2, <1>3, <1>4
<1>6. IsList(known) /\ DOMAIN known = 1..n
  <2>1. known = [i \in 1..n |-> known[i]] /\ n \in Nat
    BY <1>1, <1>2, <1>5
  <2>2. QED
    BY <2>1, ListIs
<1>7. ASSUME NEW i \in 1..n PROVE known[i].seq = i /\ Carrying(known[i])
  <2>1. PICK e, x, d : e = log[i] /\ x = known[i] /\ d = key[i]
    OBVIOUS
  <2>2. e.seq = i /\ DOMAIN e = DOMAIN Blank /\ Carrying(e)
    BY <1>1, <1>2, <2>1, Zenon
  <2>3. x = [e EXCEPT !.endpoint = d]
    BY <1>5, <2>1
  <2>4. /\ x.seq = e.seq /\ x.leaves = e.leaves /\ x.body = e.body
        /\ x.fields = e.fields /\ x.forms = e.forms
    BY <2>2, <2>3 DEF Blank
  <2>5. Carrying(x)
    BY <2>2, <2>4, Zenon DEF Carrying
  <2>6. QED
    BY <2>1, <2>2, <2>4, <2>5, Zenon
<1>8. QED
  BY <1>2, <1>6, <1>7, Zenon DEF Placed

LEMMA Established == TimelineInv /\ SaidInv => EdgesEstablished
<1> SUFFICES ASSUME TimelineInv, SaidInv PROVE EdgesEstablished
  OBVIOUS
<1>1. PICK events : events = Known
  OBVIOUS
<1>2. Placed(events)
  BY <1>1, KnownPlaced, Zenon
<1>3. PICK seen, edges : seen = ToSet(Sightings(events)) /\ edges = ToSet(Dependencies(events))
  OBVIOUS
<1>4. \A e \in edges : Sound(seen, e)
  BY <1>2, <1>3, DependenciesSound, Zenon
<1> DEFINE Relations(edge, pair) ==
               {CompareSightings(p, c).relation :
                   p \in {o \in seen : o.seq = pair[1] /\ <<o.endpoint, o.field>> = edge.from},
                   c \in {o \in seen : o.seq = pair[2] /\ <<o.endpoint, o.field>> = edge.to}}
           Shows(edge) == UNION {Relations(edge, pair) : pair \in edge.cites}
<1>5. ASSUME NEW edge \in edges
      PROVE  LET shown == Shows(edge)
             IN  /\ shown \subseteq {"precedes", "ambiguous"}
                 /\ edge.relation = "precedes" <=> "precedes" \in shown
                 /\ edge.relation = "ambiguous" => edge.confidence <= AmbiguousCeiling
                 /\ edge.cites # {} /\ Cardinality(edge.cites) <= edge.repeats
  <2>1. Sound(seen, edge)
    BY <1>4
  <2>2. PICK from, to, cites : from = edge.from /\ to = edge.to /\ cites = edge.cites
    OBVIOUS
  <2>3. \A pair \in cites : \A v : v \in Relations(edge, pair) <=> v \in Shown(seen, from, to, pair)
    BY <2>2 DEF Shown
  <2>4. /\ \A pair \in cites : Shown(seen, from, to, pair) \subseteq {"precedes", "ambiguous"}
        /\ edge.relation = "precedes" <=> \E pair \in cites : "precedes" \in Shown(seen, from, to, pair)
        /\ edge.relation = "ambiguous" => edge.confidence <= AmbiguousCeiling
        /\ edge.cites # {} /\ Cardinality(edge.cites) <= edge.repeats
    BY <2>1, <2>2, Zenon DEF Sound
  <2> HIDE DEF Relations
  <2>5. \A v : v \in Shows(edge) <=> \E pair \in cites : v \in Shown(seen, from, to, pair)
    BY <2>2, <2>3
  <2> HIDE DEF Shows
  <2>6. QED
    BY <2>4, <2>5
<1>6. EdgesEstablished <=>
          \A edge \in edges :
              LET shown == Shows(edge)
              IN  /\ shown \subseteq {"precedes", "ambiguous"}
                  /\ edge.relation = "precedes" <=> "precedes" \in shown
                  /\ edge.relation = "ambiguous" => edge.confidence <= AmbiguousCeiling
                  /\ edge.cites # {} /\ Cardinality(edge.cites) <= edge.repeats
  BY <1>1, <1>3 DEF EdgesEstablished
<1>7. QED
  BY <1>5, <1>6

(* A dependency claims an order only if a pair of observations it cites    *)
(* shows it and none contradicts it, stays under the ceiling of what is    *)
(* unproven without one, and cites something.                              *)
THEOREM EdgesTheorem == Spec => []EdgesEstablished
BY SaidInvariant, Established, PTL

-----------------------------------------------------------------------------
(* The moves.                                                              *)

(* Nothing is logged before what was logged already, by the wall clock.    *)
Rising ==
    /\ \A i \in DOMAIN log : log[i].wall \in Nat /\ log[i].wall <= now
    /\ \A i, j \in DOMAIN log : i <= j => log[i].wall <= log[j].wall

LEMMA LoggedRises ==
    ASSUME LogInv, Rising, now \in Nat, NEW events, events \in Seq(ToSet(events)),
           \A e \in ToSet(events) : Complete(e),
           now' \in Nat, now <= now', log' = Logged(events, now')
    PROVE  Rising'
<1> DEFINE old == Len(log)
           new == Len(events)
<1>1. \A k \in DOMAIN events : Complete(events[k])
  BY DEF ToSet
<1>2. /\ old \in Nat /\ new \in Nat
      /\ DOMAIN log = 1..old /\ DOMAIN events = 1..new /\ DOMAIN log' = 1..old + new
      /\ \A i \in 1..old : log'[i] = log[i]
      /\ \A k \in 1..new : log'[old + k] = Stamp(events[k], old + k, now')
  BY <1>1, LoggedIs
<1> HIDE DEF old, new
<1>3. \A i \in 1..old : log[i].wall \in Nat /\ log[i].wall <= now
  BY <1>2 DEF Rising
<1>4. ASSUME NEW i \in 1..old + new
      PROVE  IF i \in 1..old THEN log'[i].wall = log[i].wall ELSE log'[i].wall = now'
  <2>1. CASE i \in 1..old
    BY <1>2, <2>1
  <2>2. CASE i \notin 1..old
    <3>1. PICK k : k = i - old
      OBVIOUS
    <3>2. k \in 1..new /\ i = old + k
      BY <1>2, <2>2, <3>1
    <3>3. log'[i] = Stamp(events[k], i, now') /\ Complete(events[k])
      BY <1>1, <1>2, <3>2
    <3>4. log'[i].wall = now'
      BY <3>3 DEF Stamp, Complete, Fields
    <3>5. QED
      BY <2>2, <3>4
  <2>3. QED
    BY <2>1, <2>2
<1>5. \A i \in 1..old + new : log'[i].wall \in Nat /\ log'[i].wall <= now'
  BY <1>3, <1>4
<1>6. ASSUME NEW i \in 1..old + new, NEW j \in 1..old + new, i <= j
      PROVE  log'[i].wall <= log'[j].wall
  <2>1. CASE j \in 1..old
    <3>1. i \in 1..old
      BY <1>2, <1>6, <2>1
    <3>2. QED
      BY <1>2, <1>4, <1>6, <2>1, <3>1 DEF Rising
  <2>2. CASE j \notin 1..old
    BY <1>4, <1>5, <2>2
  <2>3. QED
    BY <2>1, <2>2
<1>7. QED
  BY <1>2, <1>5, <1>6 DEF Rising

LEMMA InitRising == Init => Rising
<1> SUFFICES ASSUME Init PROVE Rising
  OBVIOUS
<1>1. Regular(Sessions[session]) /\ log = Sessions[session].before /\ now = 0
  BY SessionAssumption DEF Init
<1>2. QED
  BY <1>1 DEF Regular, Rising

LEMMA NextRising == TimelineInv /\ SaidInv /\ Rising /\ [Next]_vars => Rising'
<1> SUFFICES ASSUME TimelineInv, SaidInv, Rising, [Next]_vars PROVE Rising'
  OBVIOUS
<1>1. LogInv /\ now \in Nat /\ DOMAIN held = Pages
  BY DEF TimelineInv, TimeInv
<1>2. ASSUME log' = log, now' \in Nat, now <= now' PROVE Rising'
  BY <1>1, <1>2 DEF Rising
<1>3. ASSUME NEW a \in Sessions[session].acts, NEW d \in Sessions[session].lapses,
             Observe(a, d) \/ Tell(a, d) \/ Ask(a, d) \/ Load(a, d)
      PROVE  Rising'
  <2> DEFINE p == a.page
  <2>1. p \in Pages /\ d \in Nat /\ Complete(a.event)
    BY SessionAssumption DEF TimelineInv, TimeInv, Regular
  <2>2. now' = now + d
    BY <1>3 DEF Observe, Tell, Ask, Load, Passes
  <2>3. now' \in Nat /\ now <= now'
    BY <1>1, <2>1, <2>2
  <2>4. held[p] \in Seq(ToSet(held[p])) /\ \A r \in ToSet(held[p]) : Complete(r)
    BY <2>1, HeldSaid
  <2>5. CASE Observe(a, d)
    <3>1. PICK e : e = Recorded(a, now + d)
      OBVIOUS
    <3>2. Complete(e)
      BY <2>1, <3>1, RecordedIs
    <3>3. PICK events : /\ events = Append(held[p], e) /\ events \in Seq(ToSet(events))
                        /\ ToSet(events) = ToSet(held[p]) \cup {e}
      BY <2>4, AppendIs
    <3>4. log' = Logged(events, now') \/ log' = log
      BY <2>2, <2>5, <3>1, <3>3 DEF Observe
    <3>5. \A x \in ToSet(events) : Complete(x)
      BY <2>4, <3>2, <3>3
    <3>6. QED
      BY <1>1, <1>2, <2>3, <3>3, <3>4, <3>5, LoggedRises
  <2>6. CASE Tell(a, d)
    <3>1. PICK e : e = [Happened(a, now + d) EXCEPT !.doc = doc[a.page]]
      OBVIOUS
    <3>2. Complete(e)
      BY <2>1, <3>1, HappenedIs DEF Complete, Fields
    <3>3. PICK events : events = <<e>> /\ events \in Seq(ToSet(events)) /\ ToSet(events) = {e}
      BY OneEvent
    <3>4. log' = Logged(events, now')
      BY <2>2, <2>6, <3>1, <3>3 DEF Tell
    <3>5. \A x \in ToSet(events) : Complete(x)
      BY <3>2, <3>3
    <3>6. QED
      BY <1>1, <2>3, <3>3, <3>4, <3>5, LoggedRises
  <2>7. CASE Ask(a, d)
    BY <1>2, <2>3, <2>7 DEF Ask
  <2>8. CASE Load(a, d)
    <3>1. PICK e : e = Happened(a, now + d)
      OBVIOUS
    <3>2. Complete(e)
      BY <2>1, <3>1, HappenedIs
    <3>3. PICK events : /\ events = Append(held[p], e) /\ events \in Seq(ToSet(events))
                        /\ ToSet(events) = ToSet(held[p]) \cup {e}
      BY <2>4, AppendIs
    <3>4. held[p] \o <<e>> = Append(held[p], e)
      BY <2>4
    <3>5. log' = Logged(events, now')
      BY <2>2, <2>8, <3>1, <3>3, <3>4 DEF Load
    <3>6. \A x \in ToSet(events) : Complete(x)
      BY <2>4, <3>2, <3>3
    <3>7. QED
      BY <1>1, <2>3, <3>3, <3>5, <3>6, LoggedRises
  <2>9. QED
    BY <1>3, <2>5, <2>6, <2>7, <2>8
<1>4. ASSUME NEW p \in Pages, Timer(p) PROVE Rising'
  <2>1. PICK events : events = held[p]
    OBVIOUS
  <2>2. log' = Logged(events, now')
    BY <1>4, <2>1 DEF Timer
  <2>3. now' \in Nat /\ now <= now'
    BY <1>1, <1>4 DEF Timer, TimelineInv, TimeInv
  <2>4. events \in Seq(ToSet(events)) /\ \A x \in ToSet(events) : Complete(x)
    BY <2>1, HeldSaid
  <2>5. QED
    BY <1>1, <2>2, <2>3, <2>4, LoggedRises
<1>5. ASSUME NEW e \in waiting, Finish(e) PROVE Rising'
  <2>1. Complete(e)
    BY DEF TimelineInv, TimeInv
  <2>2. PICK events : events = <<e>> /\ events \in Seq(ToSet(events)) /\ ToSet(events) = {e}
    BY OneEvent
  <2>3. log' = Logged(events, now') /\ now' = now
    BY <1>5, <2>2 DEF Finish
  <2>4. \A x \in ToSet(events) : Complete(x)
    BY <2>1, <2>2
  <2>5. now' \in Nat /\ now <= now'
    BY <1>1, <2>3
  <2>6. QED
    BY <1>1, <2>2, <2>3, <2>4, <2>5, LoggedRises
<1>6. ASSUME UNCHANGED vars PROVE Rising'
  <2>1. log' = log /\ now' = now
    BY <1>6 DEF vars
  <2>2. QED
    BY <1>1, <1>2, <2>1
<1>7. QED
  BY <1>3, <1>4, <1>5, <1>6 DEF Next

(* The wall clocks of a log rise with its places.                          *)
THEOREM RisingInvariant == Spec => [](TimelineInv /\ SaidInv /\ Rising)
<1>1. Init => TimelineInv /\ SaidInv /\ Rising
  BY InitTimeline, InitSaid, InitRising
<1>2. TimelineInv /\ SaidInv /\ Rising /\ [Next]_vars => (TimelineInv /\ SaidInv /\ Rising)'
  BY NextTimeline, NextSaid, NextRising
<1>3. QED
  BY <1>1, <1>2, PTL DEF Spec

(* What holds at the start and goes on holding holds to the end.           *)
LEMMA Climb ==
    ASSUME NEW n \in Nat, NEW S, 0 \in S, \A i \in 1..n : i - 1 \in S => i \in S
    PROVE  \A i \in 0..n : i \in S
<1> DEFINE Wrong == {i \in 0..n : i \notin S}
<1>1. ASSUME Wrong # {} PROVE FALSE
  <2>1. PICK i \in Wrong : \A j \in Wrong : i <= j
    <3>1. Wrong \in SUBSET Nat
      OBVIOUS
    <3> HIDE DEF Wrong
    <3>2. QED
      BY <1>1, <3>1, LeastOne
  <2>2. i \in 1..n /\ i \notin S
    BY <2>1
  <2>3. i - 1 \in 0..n /\ ~(i <= i - 1)
    BY <2>2
  <2>4. i - 1 \notin Wrong
    <3> HIDE DEF Wrong
    <3>1. QED
      BY <2>1, <2>3
  <2>5. QED
    BY <2>2, <2>3, <2>4
<1>2. QED
  BY <1>1

(* A sum is reached through the sums of the list's beginnings.             *)
Sums(h, f, n) ==
    /\ h \in [0..n -> Int] /\ h[0] = 0
    /\ \A i \in 1..n : h[i] = h[i - 1] + f[i]

LEMMA TotalIs ==
    ASSUME NEW n \in Nat, NEW f \in [1..n -> Int]
    PROVE  \E h : Sums(h, f, n) /\ Total(f) = h[n]
<1> DEFINE To(h, j) == h = [i \in 0..j |-> IF i = 0 THEN 0 ELSE h[i - 1] + f[i]]
           Some == {j \in 0..n : \E h : To(h, j)}
           h == CHOOSE h : To(h, n)
<1>1. Len(f) = n
  BY ListIs
<1>2. Total(f) = h[n]
  BY <1>1 DEF Total
<1>3. 0 \in Some
  <2>1. To([i \in 0..0 |-> 0], 0)
    OBVIOUS
  <2> HIDE DEF To
  <2>2. 0 \in 0..n
    OBVIOUS
  <2>3. QED
    BY <2>1, <2>2
<1>4. ASSUME NEW j \in 1..n, j - 1 \in Some PROVE j \in Some
  <2>1. PICK g : To(g, j - 1)
    BY <1>4
  <2> DEFINE k == [i \in 0..j |-> IF i = j THEN g[j - 1] + f[j] ELSE g[i]]
  <2>2. ASSUME NEW i \in 0..j PROVE k[i] = IF i = 0 THEN 0 ELSE k[i - 1] + f[i]
    <3>1. CASE i = j
      BY <3>1
    <3>2. CASE i # j
      <4>1. i \in 0..(j - 1)
        BY <3>2
      <4>2. g[i] = IF i = 0 THEN 0 ELSE g[i - 1] + f[i]
        BY <2>1, <4>1
      <4>3. k[i] = g[i] /\ (i # 0 => k[i - 1] = g[i - 1])
        BY <3>2, <4>1
      <4>4. QED
        BY <4>2, <4>3
    <3>3. QED
      BY <3>1, <3>2
  <2>3. k = [i \in 0..j |-> k[i]]
    OBVIOUS
  <2> HIDE DEF k
  <2>4. To(k, j)
    BY <2>2, <2>3
  <2> HIDE DEF To
  <2>5. j \in 0..n
    OBVIOUS
  <2>6. QED
    BY <2>4, <2>5
<1>5. n \in Some
  <2> HIDE DEF Some
  <2>1. \A i \in 1..n : i - 1 \in Some => i \in Some
    BY <1>4
  <2>2. \A i \in 0..n : i \in Some
    BY <1>3, <2>1, Climb
  <2>3. QED
    BY <2>2
<1>6. To(h, n)
  <2> HIDE DEF To
  <2>1. QED
    BY <1>5
<1> HIDE DEF h
<1>7. h[0] = 0 /\ \A i \in 1..n : h[i] = h[i - 1] + f[i]
  BY <1>6
<1> DEFINE Whole == {i \in 0..n : h[i] \in Int}
<1>8. \A i \in 0..n : i \in Whole
  <2>1. 0 \in Whole
    BY <1>7
  <2>2. \A i \in 1..n : i - 1 \in Whole => i \in Whole
    BY <1>7
  <2> HIDE DEF Whole
  <2>3. QED
    BY <2>1, <2>2, Climb
<1>9. h \in [0..n -> Int]
  BY <1>6, <1>8
<1>10. QED
  BY <1>2, <1>7, <1>9 DEF Sums

(* There is only one way to add up.                                        *)
LEMMA SumsSame ==
    ASSUME NEW n \in Nat, NEW f, NEW g, NEW h, NEW k, Sums(h, f, n), Sums(k, g, n),
           NEW m \in 0..n, \A i \in 1..m : f[i] = g[i]
    PROVE  h[m] = k[m]
<1> DEFINE Alike1 == {i \in 0..m : h[i] = k[i]}
<1>1. 0 \in Alike1
  BY DEF Sums
<1>2. ASSUME NEW i \in 1..m, i - 1 \in Alike1 PROVE i \in Alike1
  <2>1. i \in 1..n
    OBVIOUS
  <2>2. h[i] = h[i - 1] + f[i] /\ k[i] = k[i - 1] + g[i]
    BY <2>1 DEF Sums
  <2>3. QED
    BY <1>2, <2>2
<1>3. m \in Nat
  OBVIOUS
<1> HIDE DEF Alike1
<1>4. \A i \in 0..m : i \in Alike1
  BY <1>1, <1>2, <1>3, Climb
<1>5. QED
  BY <1>3, <1>4 DEF Alike1

(* A list that is one longer, or differs in one place.                     *)
LEMMA TotalLonger ==
    ASSUME NEW n \in Nat, NEW f \in [1..n -> Int], NEW g \in [1..(n + 1) -> Int],
           \A i \in 1..n : f[i] = g[i]
    PROVE  Total(f) \in Int /\ Total(g) = Total(f) + g[n + 1]
<1>1. PICK h : Sums(h, f, n) /\ Total(f) = h[n]
  BY TotalIs
<1>2. n + 1 \in Nat
  OBVIOUS
<1>3. PICK k : Sums(k, g, n + 1) /\ Total(g) = k[n + 1]
  BY <1>2, TotalIs
<1> DEFINE l == [i \in 0..n |-> k[i]]
<1>4. Sums(l, g, n)
  BY <1>3 DEF Sums
<1>5. l[n] = k[n]
  OBVIOUS
<1> HIDE DEF l
<1>6. h[n] = l[n]
  BY <1>1, <1>4, SumsSame
<1>7. k[n + 1] = k[n] + g[n + 1]
  <2>1. n + 1 \in 1..(n + 1) /\ (n + 1) - 1 = n
    OBVIOUS
  <2>2. QED
    BY <1>3, <2>1 DEF Sums
<1>8. h[n] \in Int
  BY <1>1 DEF Sums
<1>9. QED
  BY <1>1, <1>3, <1>5, <1>6, <1>7, <1>8

LEMMA TotalChanged ==
    ASSUME NEW n \in Nat, NEW f \in [1..n -> Int], NEW g \in [1..n -> Int], NEW p \in 1..n,
           \A i \in 1..n : i # p => f[i] = g[i]
    PROVE  Total(g) = Total(f) + (g[p] - f[p])
<1>1. PICK h : Sums(h, f, n) /\ Total(f) = h[n]
  BY TotalIs
<1>2. PICK k : Sums(k, g, n) /\ Total(g) = k[n]
  BY TotalIs
<1> DEFINE Apart == {i \in 0..n : k[i] = h[i] + IF i < p THEN 0 ELSE g[p] - f[p]}
<1>3. 0 \in Apart
  BY <1>1, <1>2 DEF Sums
<1>4. ASSUME NEW i \in 1..n, i - 1 \in Apart PROVE i \in Apart
  <2>1. /\ h[i] = h[i - 1] + f[i] /\ k[i] = k[i - 1] + g[i]
        /\ h[i - 1] \in Int /\ k[i - 1] \in Int
    BY <1>1, <1>2 DEF Sums
  <2>2. CASE i = p
    BY <1>4, <2>1, <2>2
  <2>3. CASE i # p
    <3>1. f[i] = g[i] /\ (i - 1 < p <=> i < p)
      BY <2>3
    <3>2. QED
      BY <1>4, <2>1, <3>1
  <2>4. QED
    BY <2>2, <2>3
<1>5. \A i \in 0..n : i \in Apart
  <2> HIDE DEF Apart
  <2>1. QED
    BY <1>3, <1>4, Climb
<1>6. QED
  BY <1>1, <1>2, <1>5 DEF Sums

(* What a move adds to a state that is left, and takes from one that is    *)
(* entered.                                                                *)
MoveFields == {"from", "to", "type", "target", "element", "trigger", "method", "count", "cites"}

Weight(t, s) == (IF t.from = s THEN t.count ELSE 0) - (IF t.to = s THEN t.count ELSE 0)
Weights(list, s) == [k \in DOMAIN list |-> Weight(list[k], s)]

Weighty(list) ==
    /\ IsList(list)
    /\ \A k \in DOMAIN list : DOMAIN list[k] = MoveFields /\ list[k].count \in Int

LEMMA WeightsAre ==
    ASSUME NEW list, Weighty(list), NEW s
    PROVE  /\ Len(list) \in Nat /\ DOMAIN list = 1..Len(list)
           /\ Weights(list, s) \in [1..Len(list) -> Int]
<1>1. Len(list) \in Nat /\ DOMAIN list = 1..Len(list)
  BY DEF Weighty, IsList
<1>2. \A k \in DOMAIN list : Weight(list[k], s) \in Int
  BY DEF Weighty, Weight
<1>3. QED
  BY <1>1, <1>2 DEF Weights

(* Counting a move adds its weight.                                        *)
LEMMA CountedWeighs ==
    ASSUME NEW known, Weighty(known), NEW t, DOMAIN t = MoveFields, t.count = 1
    PROVE  /\ Weighty(Counted(known, t))
           /\ \A s : Total(Weights(Counted(known, t), s)) = Total(Weights(known, s)) + Weight(t, s)
<1> DEFINE I == {i \in 1..Len(known) : SameMove(known[i], t)}
           same == IF I # {} THEN Min(I) ELSE 0
           n == Len(known)
<1>1. PICK T : known \in Seq(T)
  BY DEF Weighty, IsList
<1>2. n \in Nat /\ DOMAIN known = 1..n
  BY <1>1
<1>3. \A i \in 1..n : DOMAIN known[i] = MoveFields /\ known[i].count \in Int
  BY <1>2 DEF Weighty
<1>4. PICK a : a = Counted(known, t)
  OBVIOUS
<1>5. a = IF same = 0 THEN Append(known, t)
          ELSE [known EXCEPT ![same].count = @ + 1, ![same].cites = @ \cup t.cites]
  BY <1>4 DEF Counted, SelectInSeq
<1>6. CASE I = {}
  <2>1. a = Append(known, t)
    BY <1>5, <1>6
  <2> HIDE DEF n
  <2>2. /\ a \in Seq(T \cup {t}) /\ Len(a) = n + 1 /\ DOMAIN a = 1..(n + 1)
        /\ \A i \in 1..n : a[i] = known[i]
        /\ a[n + 1] = t
    BY <1>1, <2>1 DEF n
  <2>3. \A i \in 1..(n + 1) : DOMAIN a[i] = MoveFields /\ a[i].count \in Int
    <3>1. ASSUME NEW i \in 1..(n + 1) PROVE DOMAIN a[i] = MoveFields /\ a[i].count \in Int
      <4>1. CASE i \in 1..n
        BY <1>3, <2>2, <4>1
      <4>2. CASE i \notin 1..n
        <5>1. i = n + 1
          BY <1>2, <4>2
        <5>2. QED
          BY <2>2, <5>1
      <4>3. QED
        BY <4>1, <4>2
    <3>2. QED
      BY <3>1
  <2>4. Weighty(a)
    BY <2>2, <2>3 DEF Weighty, IsList
  <2>5. ASSUME NEW s PROVE Total(Weights(a, s)) = Total(Weights(known, s)) + Weight(t, s)
    <3>1. PICK f, g : f = Weights(known, s) /\ g = Weights(a, s)
      OBVIOUS
    <3>2. f \in [1..n -> Int] /\ g \in [1..(n + 1) -> Int]
      BY <2>2, <2>4, <3>1, WeightsAre DEF n
    <3>3. \A i \in 1..n : f[i] = g[i]
      BY <1>2, <2>2, <3>1 DEF Weights
    <3>4. g[n + 1] = Weight(t, s)
      BY <1>2, <2>2, <3>1 DEF Weights
    <3>5. Total(g) = Total(f) + g[n + 1]
      BY <1>2, <3>2, <3>3, TotalLonger
    <3>6. QED
      BY <3>1, <3>4, <3>5
  <2>6. QED
    BY <1>4, <2>4, <2>5
<1>7. CASE I # {}
  <2>1. same \in I
    <3>1. I \in SUBSET Nat
      BY <1>2
    <3>2. \E i \in I : \A j \in I : i <= j
      BY <1>7, <3>1, LeastOne
    <3> HIDE DEF I
    <3>3. QED
      BY <1>7, <3>2 DEF Min
  <2> HIDE DEF same
  <2>2. same \in 1..n /\ SameMove(known[same], t) /\ same # 0
    BY <1>2, <2>1
  <2>3. PICK k : k = known[same]
    OBVIOUS
  <2>4. PICK u : u = [k EXCEPT !.count = @ + 1, !.cites = @ \cup t.cites]
    OBVIOUS
  <2>5. a = [known EXCEPT ![same] = u]
    <3>1. a = [known EXCEPT ![same].count = @ + 1, ![same].cites = @ \cup t.cites]
      BY <1>5, <2>2
    <3>2. DOMAIN k = MoveFields
      BY <1>3, <2>2, <2>3
    <3>3. [known EXCEPT ![same].count = @ + 1] = [known EXCEPT ![same] = [k EXCEPT !.count = @ + 1]]
      BY <1>1, <2>2, <2>3
    <3>4. QED
      BY <1>1, <2>2, <2>3, <2>4, <3>1, <3>2, <3>3
  <2>6. /\ DOMAIN u = MoveFields /\ u.count = k.count + 1
        /\ u.from = k.from /\ u.to = k.to /\ k.from = t.from /\ k.to = t.to /\ k.count \in Int
    BY <1>3, <2>2, <2>3, <2>4 DEF MoveFields, SameMove
  <2>7. /\ a = [i \in 1..n |-> a[i]]
        /\ \A i \in 1..n : a[i] = IF i = same THEN u ELSE known[i]
    BY <1>1, <1>2, <2>2, <2>5
  <2>8. IsList(a) /\ DOMAIN a = 1..n /\ Len(a) = n
    BY <1>2, <2>7, ListIs
  <2> HIDE DEF n
  <2>9. Weighty(a)
    BY <1>3, <2>6, <2>7, <2>8 DEF Weighty
  <2>10. ASSUME NEW s PROVE Total(Weights(a, s)) = Total(Weights(known, s)) + Weight(t, s)
    <3>1. PICK f, g : f = Weights(known, s) /\ g = Weights(a, s)
      OBVIOUS
    <3>2. f \in [1..n -> Int] /\ g \in [1..n -> Int]
      BY <2>8, <2>9, <3>1, WeightsAre DEF n
    <3>3. \A i \in 1..n : i # same => f[i] = g[i]
      BY <1>2, <2>7, <2>8, <3>1 DEF Weights
    <3>4. f[same] = Weight(k, s) /\ g[same] = Weight(u, s)
      BY <1>2, <2>2, <2>3, <2>7, <2>8, <3>1 DEF Weights
    <3>5. Weight(u, s) - Weight(k, s) = Weight(t, s)
      BY <2>6 DEF Weight
    <3>6. Total(g) = Total(f) + (g[same] - f[same])
      BY <1>2, <2>2, <3>2, <3>3, TotalChanged
    <3>7. QED
      BY <3>1, <3>4, <3>5, <3>6
  <2>11. QED
    BY <1>4, <2>9, <2>10
<1>8. QED
  BY <1>6, <1>7

(* The transitions weigh what the moves do.                                *)
LEMMA TransitionsWeigh ==
    ASSUME NEW events, Weighty(Moves(events)),
           \A k \in DOMAIN Moves(events) : Moves(events)[k].count = 1
    PROVE  /\ Weighty(Transitions(events))
           /\ \A s : Total(Weights(Transitions(events), s)) = Total(Weights(Moves(events), s))
<1>1. PICK moves : moves = Moves(events)
  OBVIOUS
<1> DEFINE n == Len(moves)
           To(h, j) == h = [i \in 0..j |-> IF i = 0 THEN <<>> ELSE Counted(h[i - 1], moves[i])]
           Some == {j \in 0..n : \E h : To(h, j)}
           chosen == CHOOSE h : To(h, n)
<1>2. Transitions(events) = chosen[n]
  BY <1>1, Zenon DEF Transitions, Tallied
<1>3. n \in Nat /\ DOMAIN moves = 1..n
  BY <1>1 DEF Weighty, IsList
<1>4. \A i \in 1..n : DOMAIN moves[i] = MoveFields /\ moves[i].count = 1
  BY <1>1, <1>3 DEF Weighty
<1>5. Weighty(moves)
  BY <1>1
<1> HIDE DEF n
<1>6. 0 \in Some
  <2>1. To([i \in 0..0 |-> <<>>], 0)
    OBVIOUS
  <2> HIDE DEF To
  <2>2. 0 \in 0..n
    BY <1>3
  <2>3. QED
    BY <2>1, <2>2
<1>7. ASSUME NEW j \in 1..n, j - 1 \in Some PROVE j \in Some
  <2>1. PICK g : To(g, j - 1)
    BY <1>7
  <2> DEFINE k == [i \in 0..j |-> IF i = j THEN Counted(g[j - 1], moves[j]) ELSE g[i]]
  <2>2. ASSUME NEW i \in 0..j PROVE k[i] = IF i = 0 THEN <<>> ELSE Counted(k[i - 1], moves[i])
    <3>1. CASE i = j
      BY <1>3, <3>1
    <3>2. CASE i # j
      <4>1. i \in 0..(j - 1)
        BY <1>3, <3>2
      <4>2. g[i] = IF i = 0 THEN <<>> ELSE Counted(g[i - 1], moves[i])
        BY <2>1, <4>1
      <4>3. k[i] = g[i] /\ (i # 0 => k[i - 1] = g[i - 1])
        BY <1>3, <3>2, <4>1
      <4>4. QED
        BY <4>2, <4>3
    <3>3. QED
      BY <3>1, <3>2
  <2>3. k = [i \in 0..j |-> k[i]]
    OBVIOUS
  <2> HIDE DEF k
  <2>4. To(k, j)
    BY <2>2, <2>3
  <2> HIDE DEF To
  <2>5. j \in 0..n
    BY <1>3
  <2>6. QED
    BY <2>4, <2>5
<1>8. To(chosen, n)
  <2>1. \E h : To(h, n)
    <3> HIDE DEF Some
    <3>1. \A i \in 1..n : i - 1 \in Some => i \in Some
      BY <1>7
    <3>2. \A i \in 0..n : i \in Some
      BY <1>3, <1>6, <3>1, Climb
    <3>3. n \in Some
      BY <1>3, <3>2
    <3> HIDE DEF To
    <3>4. QED
      BY <3>3 DEF Some
  <2> HIDE DEF To
  <2>2. QED
    BY <2>1
<1> HIDE DEF chosen
<1>9. chosen[0] = <<>> /\ \A i \in 1..n : chosen[i] = Counted(chosen[i - 1], moves[i])
  BY <1>3, <1>8
<1> DEFINE Good == {i \in 0..n : Weighty(chosen[i])}
<1>10. \A i \in 0..n : i \in Good
  <2>1. 0 \in Good
    <3>1. Weighty(<<>>)
      BY DEF Weighty, IsList
    <3>2. QED
      BY <1>3, <1>9, <3>1
  <2>2. \A i \in 1..n : i - 1 \in Good => i \in Good
    <3>1. ASSUME NEW i \in 1..n, Weighty(chosen[i - 1]) PROVE Weighty(chosen[i])
      BY <1>4, <1>9, <3>1, CountedWeighs
    <3>2. QED
      BY <1>3, <3>1
  <2> HIDE DEF Good
  <2>3. QED
    BY <1>3, <2>1, <2>2, Climb
<1>11. ASSUME NEW s PROVE Total(Weights(chosen[n], s)) = Total(Weights(moves, s))
  <2>1. PICK f : f = Weights(moves, s)
    OBVIOUS
  <2>2. f \in [1..n -> Int] /\ \A i \in 1..n : f[i] = Weight(moves[i], s)
    BY <1>3, <1>5, <2>1, WeightsAre DEF Weights, n
  <2>3. PICK h : Sums(h, f, n) /\ Total(f) = h[n]
    BY <1>3, <2>2, TotalIs
  <2> DEFINE Even == {i \in 0..n : Total(Weights(chosen[i], s)) = h[i]}
  <2>4. 0 \in Even
    <3>1. PICK g : g = Weights(<<>>, s)
      OBVIOUS
    <3>2. g \in [1..0 -> Int]
      BY <3>1 DEF Weights
    <3>3. PICK l : Sums(l, g, 0) /\ Total(g) = l[0]
      BY <3>2, TotalIs
    <3>4. Total(g) = 0 /\ h[0] = 0
      BY <2>3, <3>3 DEF Sums
    <3>5. QED
      BY <1>3, <1>9, <3>1, <3>4
  <2>5. ASSUME NEW i \in 1..n, i - 1 \in Even PROVE i \in Even
    <3>1. Total(Weights(chosen[i - 1], s)) = h[i - 1]
      BY <2>5
    <3>2. Weighty(chosen[i - 1])
      BY <1>3, <1>10
    <3>3. Total(Weights(chosen[i], s)) = Total(Weights(chosen[i - 1], s)) + Weight(moves[i], s)
      BY <1>4, <1>9, <3>2, CountedWeighs
    <3>4. h[i] = h[i - 1] + f[i]
      BY <2>3 DEF Sums
    <3>5. i \in 0..n
      BY <1>3
    <3>6. Total(Weights(chosen[i], s)) = h[i]
      BY <2>2, <3>1, <3>3, <3>4
    <3>7. QED
      BY <3>5, <3>6
  <2> HIDE DEF Even
  <2>6. \A i \in 1..n : i - 1 \in Even => i \in Even
    BY <2>5
  <2>7. \A i \in 0..n : i \in Even
    BY <1>3, <2>4, <2>6, Climb
  <2>8. n \in Even
    BY <1>3, <2>7
  <2>9. QED
    BY <2>1, <2>3, <2>8 DEF Even
<1>12. Weighty(chosen[n])
  BY <1>3, <1>10
<1>13. QED
  BY <1>1, <1>2, <1>11, <1>12

(* The moves of some events: the changes of state between their visits.    *)
LEMMA MovesAre ==
    ASSUME NEW events, NEW visits, visits = Occupancies(events), IsList(visits),
           NEW moves, moves = Moves(events), NEW order, order = InOrder(Changes(visits))
    PROVE  /\ Weighty(moves) /\ Len(moves) \in Nat /\ Len(moves) = Cardinality(Changes(visits))
           /\ \A k \in 1..Len(moves) :
                 LET i == order[k]
                     cause == Cause(Triggers(events), visits[i], visits[i + 1])
                 IN  /\ i \in Changes(visits)
                     /\ moves[k].from = visits[i].state /\ moves[k].to = visits[i + 1].state
                     /\ moves[k].count = 1 /\ moves[k].trigger = cause.seq
                     /\ moves[k].cites = {visits[i].seq, visits[i + 1].seq, cause.seq}
<1> DEFINE Why(i) == Cause(Triggers(events), visits[i], visits[i + 1])
           Move(i) == [from |-> visits[i].state, to |-> visits[i + 1].state,
                       type |-> Why(i).type, target |-> Why(i).target,
                       element |-> Why(i).element, trigger |-> Why(i).seq,
                       method |-> Method(Triggers(events), visits[i], visits[i + 1]), count |-> 1,
                       cites |-> {visits[i].seq, visits[i + 1].seq, Why(i).seq}]
<1>1. moves = [k \in DOMAIN order |-> Move(order[k])]
  BY Zenon DEF Moves, Moving, MoveOf
<1>2. PICK n : n = Cardinality(Changes(visits))
  OBVIOUS
<1>3. n \in Nat /\ order \in [1..n -> Changes(visits)]
  <2>1. Len(visits) \in Nat
    BY DEF IsList
  <2>2. Changes(visits) \in SUBSET (1..(Len(visits) - 1)) /\ Changes(visits) \in SUBSET Nat
    BY <2>1 DEF Changes
  <2>3. IsFiniteSet(1..(Len(visits) - 1))
    BY <2>1, FS_Interval
  <2>4. IsFiniteSet(Changes(visits))
    BY <2>2, <2>3, FS_Subset
  <2>5. QED
    BY <1>2, <2>2, <2>4, InOrderIs
<1>4. ASSUME NEW i
      PROVE  /\ DOMAIN Move(i) = MoveFields /\ Move(i).count = 1
             /\ Move(i).from = visits[i].state /\ Move(i).to = visits[i + 1].state
             /\ Move(i).trigger = Why(i).seq
             /\ Move(i).cites = {visits[i].seq, visits[i + 1].seq, Why(i).seq}
  <2> HIDE DEF Why
  <2>1. QED
    BY DEF MoveFields
<1> HIDE DEF Move
<1>5. moves = [k \in 1..n |-> Move(order[k])]
  BY <1>1, <1>3
<1>6. moves = [k \in 1..n |-> moves[k]] /\ \A k \in 1..n : moves[k] = Move(order[k])
  BY <1>5
<1>7. IsList(moves) /\ Len(moves) = n /\ DOMAIN moves = 1..n
  BY <1>3, <1>6, ListIs
<1>8. Weighty(moves)
  <2>1. \A k \in 1..n : DOMAIN moves[k] = MoveFields /\ moves[k].count = 1
    BY <1>4, <1>6
  <2>2. QED
    BY <1>7, <2>1 DEF Weighty
<1>9. ASSUME NEW k \in 1..n
      PROVE  LET i == order[k]
             IN  /\ i \in Changes(visits)
                 /\ moves[k].from = visits[i].state /\ moves[k].to = visits[i + 1].state
                 /\ moves[k].count = 1 /\ moves[k].trigger = Why(i).seq
                 /\ moves[k].cites = {visits[i].seq, visits[i + 1].seq, Why(i).seq}
  <2>1. moves[k] = Move(order[k]) /\ order[k] \in Changes(visits)
    BY <1>3, <1>6
  <2> HIDE DEF Why
  <2>2. QED
    BY <1>4, <2>1
<1>10. QED
  BY <1>2, <1>3, <1>7, <1>8, <1>9, Zenon

(* What does not change between two places is the same at both.            *)
LEMMA NoChange ==
    ASSUME NEW st, NEW a \in Nat, NEW b \in Nat, a <= b,
           \A i \in a..(b - 1) : st[i] = st[i + 1]
    PROVE  st[a] = st[b]
<1> DEFINE S == {j \in 0..(b - a) : st[a + j] = st[a]}
<1>1. b - a \in Nat
  OBVIOUS
<1>2. 0 \in S
  BY <1>1
<1>3. ASSUME NEW j \in 1..(b - a), j - 1 \in S PROVE j \in S
  <2>1. a + (j - 1) \in a..(b - 1) /\ a + (j - 1) + 1 = a + j
    BY <1>1
  <2>2. st[a + (j - 1)] = st[a]
    BY <1>3
  <2>3. st[a + (j - 1)] = st[a + (j - 1) + 1]
    BY <2>1
  <2>4. QED
    BY <1>1, <2>1, <2>2, <2>3
<1> HIDE DEF S
<1>4. \A j \in 1..(b - a) : j - 1 \in S => j \in S
  BY <1>3
<1>5. \A j \in 0..(b - a) : j \in S
  BY <1>1, <1>2, <1>4, Climb
<1>6. b - a \in S /\ a + (b - a) = b
  BY <1>1, <1>5
<1>7. QED
  BY <1>6 DEF S

(* Into every state as often as out of it, but for the ends.               *)
Telescope(n, v, changes, f) ==
    /\ n \in Nat /\ n # 0 /\ v \in [1..n -> Int] /\ changes \in SUBSET (1..(n - 1))
    /\ \A i \in 1..(n - 1) : i \notin changes => v[i] = v[i + 1]
    /\ f \in [1..Cardinality(changes) -> Int]
    /\ \A k \in 1..Cardinality(changes) :
          LET i == InOrder(changes)[k] IN f[k] = v[i] - v[i + 1]

LEMMA ChangesTelescope ==
    ASSUME NEW n, NEW v, NEW changes, NEW f, Telescope(n, v, changes, f)
    PROVE  Total(f) = v[1] - v[n]
<1>1. PICK order, m : order = InOrder(changes) /\ m = Cardinality(changes)
  OBVIOUS
<1>2. /\ n \in Nat /\ n # 0 /\ v \in [1..n -> Int] /\ changes \in SUBSET (1..(n - 1))
      /\ \A i \in 1..(n - 1) : i \notin changes => v[i] = v[i + 1]
      /\ f \in [1..m -> Int] /\ \A k \in 1..m : f[k] = v[order[k]] - v[order[k] + 1]
  BY <1>1 DEF Telescope
<1>3. /\ m \in Nat /\ order \in [1..m -> changes]
      /\ \A j, k \in 1..m : j < k => order[j] < order[k]
      /\ \A i \in changes : \E k \in 1..m : order[k] = i
  <2>1. changes \in SUBSET Nat
    BY <1>2
  <2>2. IsFiniteSet(1..(n - 1))
    BY <1>2, FS_Interval
  <2>3. IsFiniteSet(changes)
    BY <1>2, <2>2, FS_Subset
  <2>4. QED
    BY <1>1, <2>1, <2>3, InOrderIs
<1>4. \A k \in 1..m : f[k] = v[order[k]] - v[order[k] + 1]
  BY <1>2
<1>5. \A k \in 1..m : order[k] \in 1..(n - 1)
  BY <1>2, <1>3
<1>6. \A i \in 1..n : v[i] \in Int
  BY <1>2
<1> DEFINE at == [k \in 0..m |-> IF k = 0 THEN 1 ELSE order[k] + 1]
           to == [k \in 1..(m + 1) |-> IF k = m + 1 THEN n ELSE order[k]]
<1>7. ASSUME NEW k \in 1..(m + 1) PROVE v[at[k - 1]] = v[to[k]]
  <2>1. k - 1 \in 0..m /\ (k # 1 => k - 1 \in 1..m) /\ (k # m + 1 => k \in 1..m)
    BY <1>2, <1>3
  <2>2. PICK a, b : a = at[k - 1] /\ b = to[k]
    OBVIOUS
  <2>3. /\ a = (IF k = 1 THEN 1 ELSE order[k - 1] + 1)
        /\ b = (IF k = m + 1 THEN n ELSE order[k])
    BY <2>1, <2>2
  <2>4. a \in Nat /\ a \in 1..n /\ b \in 1..n /\ b \in Nat
    BY <1>2, <1>5, <2>1, <2>3
  <2>5. a <= b
    <3>1. CASE k = 1
      BY <1>2, <2>3, <2>4, <3>1
    <3>2. CASE k # 1 /\ k = m + 1
      <4>1. order[k - 1] \in 1..(n - 1)
        BY <1>2, <1>5, <2>1, <3>2
      <4>2. QED
        BY <1>2, <2>3, <3>2, <4>1
    <3>3. CASE k # 1 /\ k # m + 1
      <4>1. order[k - 1] < order[k] /\ order[k - 1] \in 1..(n - 1) /\ order[k] \in 1..(n - 1)
        BY <1>2, <1>3, <1>5, <2>1, <3>3
      <4>2. QED
        BY <2>3, <3>3, <4>1
    <3>4. QED
      BY <3>1, <3>2, <3>3, Zenon
  <2>6. ASSUME NEW i \in a..(b - 1) PROVE v[i] = v[i + 1]
    <3>1. i \in 1..(n - 1)
      BY <1>2, <2>4
    <3>2. SUFFICES ASSUME i \in changes PROVE FALSE
      BY <1>2, <3>1
    <3>3. PICK l \in 1..m : order[l] = i
      BY <1>2, <1>3, <3>2
    <3>4. k # 1 => k - 1 < l
      <4>1. SUFFICES ASSUME k # 1, ~(k - 1 < l) PROVE FALSE
        OBVIOUS
      <4>2. l = k - 1 \/ l < k - 1
        BY <1>2, <1>3, <2>1, <4>1
      <4>3. order[l] <= order[k - 1]
        BY <1>2, <1>3, <1>5, <2>1, <4>1, <4>2
      <4>4. order[k - 1] + 1 <= i
        BY <1>2, <2>3, <2>4, <4>1
      <4>5. QED
        BY <1>2, <1>5, <2>1, <3>1, <3>3, <4>1, <4>3, <4>4
    <3>5. k # m + 1 => l < k
      <4>1. SUFFICES ASSUME k # m + 1, ~(l < k) PROVE FALSE
        OBVIOUS
      <4>2. l = k \/ k < l
        BY <1>2, <1>3, <2>1, <4>1
      <4>3. order[k] <= order[l]
        <5>1. k \in 1..m /\ l \in 1..m /\ order[k] \in Nat
          BY <1>2, <1>5, <2>1, <4>1
        <5>2. k < l => order[k] < order[l]
          BY <1>2, <1>3, <5>1
        <5>3. order[l] \in Nat
          BY <1>2, <1>5, <5>1
        <5>4. QED
          BY <4>2, <5>1, <5>2, <5>3
      <4>4. i < order[k]
        <5>1. b = order[k] /\ i <= b - 1 /\ i \in Nat /\ b \in Nat
          BY <1>2, <2>3, <2>4, <3>1, <4>1
        <5>2. QED
          BY <5>1
      <4>5. QED
        BY <1>2, <1>5, <2>1, <3>1, <3>3, <4>1, <4>3, <4>4
    <3>6. QED
      BY <1>2, <1>3, <3>3, <3>4, <3>5
  <2>7. v[a] = v[b]
    BY <1>2, <2>4, <2>5, <2>6, NoChange
  <2>8. QED
    BY <2>2, <2>7
<1>8. PICK h : Sums(h, f, m) /\ Total(f) = h[m]
  <2>1. m \in Nat /\ f \in [1..m -> Int]
    BY <1>2, <1>3
  <2>2. QED
    BY ONLY <2>1, TotalIs
<1> DEFINE Even == {k \in 0..m : h[k] = v[1] - v[at[k]]}
<1>9. 0 \in Even
  BY <1>2, <1>3, <1>8 DEF Sums
<1>10. ASSUME NEW k \in 1..m, k - 1 \in Even PROVE k \in Even
  <2>1. h[k] = h[k - 1] + f[k]
    BY <1>8 DEF Sums
  <2>2. k \in 1..(m + 1) /\ k # m + 1 /\ k \in 0..m /\ k # 0
    BY <1>2, <1>3
  <2>3. v[at[k - 1]] = v[order[k]]
    BY <1>7, <2>2
  <2>4. at[k] = order[k] + 1
    BY <2>2
  <2>5. h[k - 1] = v[1] - v[at[k - 1]]
    BY <1>10
  <2>6. f[k] = v[order[k]] - v[order[k] + 1]
    BY <1>4
  <2> HIDE DEF at, to
  <2>7. h[k] = v[1] - v[at[k]]
    <3>1. order[k] \in 1..n /\ order[k] + 1 \in 1..n /\ 1 \in 1..n
      BY <1>2, <1>5
    <3>2. v[1] \in Int /\ v[order[k]] \in Int /\ v[order[k] + 1] \in Int
      BY <1>6, <3>1
    <3>3. QED
      BY <2>1, <2>3, <2>4, <2>5, <2>6, <3>2
  <2>8. QED
    BY <2>2, <2>7
<1>11. m \in Even
  <2> HIDE DEF Even
  <2>1. \A k \in 1..m : k - 1 \in Even => k \in Even
    BY <1>10
  <2>2. \A k \in 0..m : k \in Even
    BY <1>2, <1>3, <1>9, <2>1, Climb
  <2>3. QED
    BY <1>2, <1>3, <2>2
<1>12. v[at[m]] = v[n]
  <2>1. m + 1 \in 1..(m + 1) /\ (m + 1) - 1 = m
    BY <1>2, <1>3
  <2>2. QED
    BY <1>2, <1>7, <2>1
<1>13. Total(f) = v[1] - v[n]
  BY <1>8, <1>11, <1>12
<1>14. QED
  BY <1>13

(* The trigger that is found for a move was logged between its two visits, *)
(* or at a time between theirs.                                            *)
LEMMA LastOne ==
    ASSUME NEW n \in Nat, NEW S \in SUBSET (1..n), S # {} PROVE Max(S) \in S
<1> DEFINE Back == {n - i : i \in S}
<1>1. Back \in SUBSET Nat /\ Back # {}
  <2>1. \A i \in S : i \in 1..n
    OBVIOUS
  <2>2. \A i \in S : n - i \in Nat
    BY <2>1
  <2>3. QED
    BY <2>2
<1>2. PICK b \in Back : \A x \in Back : b <= x
  <2> HIDE DEF Back
  <2>1. QED
    BY <1>1, LeastOne
<1>3. PICK i \in S : b = n - i
  OBVIOUS
<1>4. \A j \in S : i >= j
  <2>1. ASSUME NEW j \in S PROVE i >= j
    <3>1. n - j \in Back
      OBVIOUS
    <3>2. n - i <= n - j
      BY <1>2, <1>3, <3>1
    <3>3. QED
      BY <3>2
  <2>2. QED
    BY <2>1
<1>5. QED
  BY <1>4 DEF Max

LEMMA CandidateIs ==
    ASSUME NEW triggers, Len(triggers) \in Nat, NEW previous, NEW current,
           Candidate(triggers, previous, current) # 0
    PROVE  LET c == Candidate(triggers, previous, current)
           IN  /\ c \in 1..Len(triggers)
               /\ \/ previous.seq < triggers[c].seq /\ triggers[c].seq < current.seq
                  \/ previous.wall <= triggers[c].wall /\ triggers[c].wall <= current.wall
<1> DEFINE BySeq == {i \in 1..Len(triggers) :
                        previous.seq < triggers[i].seq /\ triggers[i].seq < current.seq}
           ByClock1 == {i \in 1..Len(triggers) :
                        previous.wall <= triggers[i].wall /\ triggers[i].wall <= current.wall}
           s == IF BySeq # {} THEN Max(BySeq) ELSE 0
           w == IF ByClock1 # {} THEN Max(ByClock1) ELSE 0
<1>1. Candidate(triggers, previous, current) = IF s # 0 THEN s ELSE w
  BY DEF Candidate, SelectLastInSeq
<1>2. BySeq \in SUBSET (1..Len(triggers)) /\ ByClock1 \in SUBSET (1..Len(triggers))
  OBVIOUS
<1>3. PICK n : n = Len(triggers)
  OBVIOUS
<1>4. BySeq # {} => s \in BySeq
  <2> HIDE DEF BySeq
  <2>1. QED
    BY <1>2, LastOne
<1>5. ByClock1 # {} => w \in ByClock1
  <2> HIDE DEF ByClock1
  <2>1. QED
    BY <1>2, LastOne
<1>6. PICK c : c = Candidate(triggers, previous, current)
  OBVIOUS
<1>7. c \in BySeq \/ c \in ByClock1
  <2>1. s # 0 => s \in BySeq
    BY <1>4, Zenon
  <2>2. w # 0 => w \in ByClock1
    BY <1>5, Zenon
  <2> HIDE DEF s, w, BySeq, ByClock1
  <2>3. QED
    BY <1>1, <1>6, <2>1, <2>2
<1>8. QED
  BY <1>6, <1>7

(* The visits of a log, in its order and with its clock.                   *)
LEMMA VisitsAre ==
    ASSUME TimelineInv, SaidInv
    PROVE  LET visits == Occupancies(log)
           IN  /\ IsList(visits) /\ Len(visits) \in Nat /\ DOMAIN visits = 1..Len(visits)
               /\ \A i \in DOMAIN visits :
                     visits[i].seq \in DOMAIN log /\ visits[i].wall = log[visits[i].seq].wall
               /\ \A i, j \in DOMAIN visits : i < j => visits[i].seq < visits[j].seq
<1> DEFINE I == {i \in DOMAIN log : /\ log[i].type \in {"navigation_committed", "runtime_history"}
                                    /\ log[i].url # NoUrl}
           navigations == Those(log, I)
           Shape(i) == RouteShape(navigations[i].url)
<1>1. PICK events, S : events = log /\ S = ToSet(log)
  OBVIOUS
<1>2. events \in Seq(S) /\ \A i \in DOMAIN events : events[i].seq = i
  BY <1>1, LogIsOfEvents
<1>3. I \in SUBSET (DOMAIN events)
  BY <1>1
<1>4. Occupancies(log) =
          [i \in DOMAIN navigations |->
              [state |-> <<Shape(i), FormsAt(log, Shape(i))>>,
               seq |-> navigations[i].seq, wall |-> navigations[i].wall]]
  BY Zenon DEF Occupancies, Occupying, Navigations
<1> HIDE DEF I
<1>5. PICK nav : nav = Those(events, I)
  OBVIOUS
<1>6. PICK order : /\ order \in [1..Len(nav) -> I]
                   /\ \A k \in 1..Len(nav) : nav[k] = events[order[k]]
                   /\ \A j, k \in 1..Len(nav) : j < k => order[j] < order[k]
                   /\ nav \in Seq(S)
  <2>1. events \in Seq(S)
    BY <1>2
  <2>2. \E order : /\ order \in [1..Len(Those(events, I)) -> I]
                   /\ \A k \in 1..Len(Those(events, I)) : Those(events, I)[k] = events[order[k]]
                   /\ \A j, k \in 1..Len(Those(events, I)) : j < k => order[j] < order[k]
                   /\ \A i \in I : \E k \in 1..Len(Those(events, I)) : order[k] = i
                   /\ Those(events, I) \in Seq(S)
                   /\ Len(Those(events, I)) = Cardinality(I)
    BY ONLY <2>1, <1>3, ThoseAre, Zenon
  <2>3. QED
    BY <1>5, <2>2
<1>7. PICK n : n = Len(nav)
  OBVIOUS
<1>8. n \in Nat /\ DOMAIN nav = 1..n
  BY <1>6, <1>7
<1>9. PICK v : v = Occupancies(events)
  OBVIOUS
<1> DEFINE Visit(i) == [state |-> <<Shape(i), FormsAt(log, Shape(i))>>,
                        seq |-> navigations[i].seq, wall |-> navigations[i].wall]
<1> HIDE DEF navigations, Shape
<1>10. v = [i \in 1..n |-> Visit(i)]
  <2>1. navigations = nav
    BY <1>1, <1>5 DEF navigations
  <2>2. v = [i \in DOMAIN navigations |-> Visit(i)]
    BY <1>1, <1>4, <1>9
  <2> HIDE DEF Visit
  <2>3. QED
    BY <1>8, <2>1, <2>2
<1>11. v = [i \in 1..n |-> v[i]] /\ \A i \in 1..n : v[i].seq = nav[i].seq /\ v[i].wall = nav[i].wall
  <2>1. \A i : Visit(i).seq = nav[i].seq /\ Visit(i).wall = nav[i].wall
    BY <1>1, <1>5 DEF navigations
  <2> HIDE DEF Visit
  <2>2. QED
    BY <1>10, <2>1
<1>12. IsList(v) /\ Len(v) = n /\ DOMAIN v = 1..n
  BY <1>8, <1>11, ListIs
<1>13. ASSUME NEW i \in 1..n
       PROVE  v[i].seq = order[i] /\ v[i].seq \in DOMAIN events /\ v[i].wall = events[v[i].seq].wall
  <2>1. order[i] \in DOMAIN events /\ nav[i] = events[order[i]]
    BY <1>3, <1>6, <1>7
  <2>2. events[order[i]].seq = order[i]
    BY <1>2, <2>1
  <2>3. v[i].seq = order[i] /\ v[i].wall = events[order[i]].wall
    BY <1>11, <2>1, <2>2
  <2>4. QED
    BY <2>1, <2>3
<1>14. \A i, j \in 1..n : i < j => v[i].seq < v[j].seq
  BY <1>6, <1>7, <1>13
<1>15. QED
  BY <1>1, <1>8, <1>9, <1>12, <1>13, <1>14

(* What the transitions take from a state and give to it, over a session,  *)
(* is its first state and its last.                                        *)
LEMMA Balanced ==
    ASSUME TimelineInv, SaidInv, NEW s, Len(Occupancies(log)) # 0
    PROVE  LET visits == Occupancies(log)
           IN  Total(Weights(Transitions(log), s)) =
                   (IF visits[1].state = s THEN 1 ELSE 0)
                   - (IF visits[Len(visits)].state = s THEN 1 ELSE 0)
<1>1. PICK events, visits, moves :
          events = log /\ visits = Occupancies(events) /\ moves = Moves(events)
  OBVIOUS
<1>2. PICK n : n = Len(visits) /\ n \in Nat /\ n # 0 /\ IsList(visits)
  BY <1>1, VisitsAre
<1>3. PICK changes, order, m :
          changes = Changes(visits) /\ order = InOrder(changes) /\ m = Cardinality(changes)
  OBVIOUS
<1>4. \A i : i \in changes <=> i \in 1..(n - 1) /\ visits[i].state # visits[i + 1].state
  BY <1>2, <1>3 DEF Changes
<1>5. /\ m \in Nat /\ Weighty(moves) /\ Len(moves) = m
      /\ \A k \in 1..m : /\ order[k] \in changes
                         /\ moves[k].from = visits[order[k]].state
                         /\ moves[k].to = visits[order[k] + 1].state
                         /\ moves[k].count = 1
  <2>1. visits = Occupancies(events) /\ moves = Moves(events) /\ IsList(visits)
    BY <1>1, <1>2
  <2>2. QED
    BY ONLY <1>3, <2>1, MovesAre
<1>6. DOMAIN moves = 1..m /\ Weights(moves, s) \in [1..m -> Int]
  BY <1>5, WeightsAre
<1>7. \A k \in DOMAIN moves : moves[k].count = 1
  BY <1>5, <1>6
<1>8. Total(Weights(Transitions(log), s)) = Total(Weights(moves, s))
  <2>1. Moves(events) = moves
    BY <1>1
  <2>2. Weighty(Moves(events)) /\ \A k \in DOMAIN Moves(events) : Moves(events)[k].count = 1
    BY <1>5, <1>7, <2>1
  <2>3. \A t : Total(Weights(Transitions(events), t)) = Total(Weights(Moves(events), t))
    BY ONLY <2>2, TransitionsWeigh
  <2>4. QED
    BY <1>1, <2>1, <2>3
<1>9. PICK v, f : v = [i \in 1..n |-> IF visits[i].state = s THEN 1 ELSE 0]
                  /\ f = Weights(moves, s)
  OBVIOUS
<1>10. v \in [1..n -> Int]
  BY <1>9
<1>11. ASSUME NEW i \in 1..(n - 1)
      PROVE  /\ v[i] = (IF visits[i].state = s THEN 1 ELSE 0)
             /\ v[i + 1] = (IF visits[i + 1].state = s THEN 1 ELSE 0)
  <2>1. i \in 1..n /\ i + 1 \in 1..n
    BY <1>2
  <2>2. QED
    BY <1>9, <2>1
<1>12. \A i \in 1..(n - 1) : i \notin changes => v[i] = v[i + 1]
  BY <1>4, <1>11
<1>13. ASSUME NEW k \in 1..m PROVE f[k] = v[order[k]] - v[order[k] + 1]
  <2>1. PICK i : i = order[k] /\ i \in 1..(n - 1)
    BY <1>5, <1>4
  <2>2. moves[k].from = visits[i].state /\ moves[k].to = visits[i + 1].state /\ moves[k].count = 1
    BY <1>5, <2>1
  <2>3. f[k] = Weight(moves[k], s)
    BY <1>6, <1>9 DEF Weights
  <2>4. QED
    BY <1>11, <2>1, <2>2, <2>3 DEF Weight
<1>14. Telescope(n, v, changes, f)
  <2>1. n # 0 /\ n \in Nat /\ changes \in SUBSET (1..(n - 1)) /\ f \in [1..m -> Int]
    BY <1>2, <1>6, <1>9, <1>4
  <2>2. QED
    BY <1>3, <1>10, <1>12, <1>13, <2>1 DEF Telescope
<1>15. v[1] = (IF visits[1].state = s THEN 1 ELSE 0) /\ v[n] = (IF visits[n].state = s THEN 1 ELSE 0)
  <2>1. 1 \in 1..n /\ n \in 1..n
    BY <1>2
  <2>2. QED
    BY <1>9, <2>1
<1>16. QED
  <2>1. Total(f) = v[1] - v[n]
    BY <1>14, ChangesTelescope
  <2>2. QED
    BY <1>1, <1>2, <1>8, <1>9, <1>15, <2>1

LEMMA TriggerBetween ==
    ASSUME TimelineInv, SaidInv, Rising, NEW k \in DOMAIN Moves(log), Moves(log)[k].trigger # 0
    PROVE  \E v, w \in ToSet(Occupancies(log)) :
               /\ v.seq \in Moves(log)[k].cites /\ w.seq \in Moves(log)[k].cites
               /\ v.wall <= log[Moves(log)[k].trigger].wall
               /\ log[Moves(log)[k].trigger].wall <= w.wall
<1>1. PICK events, visits, moves, order :
          /\ events = log /\ visits = Occupancies(events) /\ moves = Moves(events)
          /\ order = InOrder(Changes(visits))
  OBVIOUS
<1>2. /\ IsList(visits) /\ Len(visits) \in Nat /\ DOMAIN visits = 1..Len(visits)
      /\ \A i \in DOMAIN visits :
            visits[i].seq \in DOMAIN events /\ visits[i].wall = events[visits[i].seq].wall
      /\ \A i, j \in DOMAIN visits : i < j => visits[i].seq < visits[j].seq
  BY <1>1, VisitsAre
<1>3. PICK i, cause :
          /\ i = order[k] /\ cause = Cause(Triggers(events), visits[i], visits[i + 1])
          /\ i \in Changes(visits) /\ moves[k].trigger = cause.seq
          /\ moves[k].cites = {visits[i].seq, visits[i + 1].seq, cause.seq}
  <2>1. Weighty(moves) /\ k \in 1..Len(moves)
    <3>1. Weighty(moves)
      BY <1>1, <1>2, MovesAre
    <3>2. QED
      BY <1>1, <3>1 DEF Weighty, IsList
  <2>2. visits = Occupancies(events) /\ IsList(visits) /\ moves = Moves(events)
    BY <1>1, <1>2
  <2>3. \A l \in 1..Len(moves) :
           LET o == order[l]
               why == Cause(Triggers(events), visits[o], visits[o + 1])
           IN  /\ o \in Changes(visits) /\ moves[l].trigger = why.seq
               /\ moves[l].cites = {visits[o].seq, visits[o + 1].seq, why.seq}
    BY <1>1, <2>2, MovesAre
  <2>4. QED
    BY <2>1, <2>3
<1>4. i \in DOMAIN visits /\ i + 1 \in DOMAIN visits /\ i \in Nat
  BY <1>2, <1>3 DEF Changes
<1>5. PICK previous, current : previous = visits[i] /\ current = visits[i + 1]
  OBVIOUS
<1>6. PICK triggers, c : triggers = Triggers(events) /\ c = Candidate(triggers, previous, current)
  OBVIOUS
<1>7. c # 0 /\ cause.seq = triggers[c].seq
  <2>1. cause.seq # 0
    BY <1>1, <1>3
  <2>2. cause = IF c = 0 THEN NoTrigger ELSE TriggerOf(triggers[c])
    BY <1>3, <1>5, <1>6 DEF Cause
  <2>3. QED
    BY <2>1, <2>2 DEF NoTrigger, TriggerOf
<1>8. events \in Seq(ToSet(events)) /\ \A e \in DOMAIN events : events[e].seq = e
  BY <1>1, LogIsOfEvents
<1>9. /\ Len(triggers) \in Nat
      /\ \A t \in 1..Len(triggers) : \E e \in DOMAIN events : triggers[t] = events[e]
  <2> DEFINE I == {e \in DOMAIN events : events[e].type \in TriggerTypes}
  <2>1. triggers = Those(events, I) /\ I \in SUBSET (DOMAIN events)
    BY <1>6 DEF Triggers
  <2> HIDE DEF I
  <2>2. PICK f : /\ f \in [1..Len(triggers) -> I]
                 /\ \A t \in 1..Len(triggers) : triggers[t] = events[f[t]]
                 /\ triggers \in Seq(ToSet(events))
    BY <1>8, <2>1, ThoseAre
  <2>3. QED
    BY <2>1, <2>2
<1>10. /\ c \in 1..Len(triggers)
       /\ \/ previous.seq < triggers[c].seq /\ triggers[c].seq < current.seq
          \/ previous.wall <= triggers[c].wall /\ triggers[c].wall <= current.wall
  BY <1>6, <1>7, <1>9, CandidateIs
<1>11. PICK e \in DOMAIN events : triggers[c] = events[e] /\ cause.seq = e
  BY <1>7, <1>8, <1>9, <1>10
<1>12. PICK a, b : /\ a = previous.seq /\ b = current.seq
                   /\ a \in DOMAIN events /\ b \in DOMAIN events
                   /\ previous.wall = events[a].wall /\ current.wall = events[b].wall
  BY <1>2, <1>4, <1>5
<1>13. previous.wall <= events[e].wall /\ events[e].wall <= current.wall
  <2>1. \A x, y \in DOMAIN events : x <= y => events[x].wall <= events[y].wall
    BY <1>1 DEF Rising
  <2>2. CASE previous.seq < triggers[c].seq /\ triggers[c].seq < current.seq
    <3>1. a < e /\ e < b
      BY <1>8, <1>11, <1>12, <2>2
    <3>2. DOMAIN events \subseteq Nat
      BY <1>8
    <3>3. a <= e /\ e <= b
      BY <1>12, <3>1, <3>2
    <3>4. QED
      BY <1>12, <2>1, <3>3
  <2>3. CASE previous.wall <= triggers[c].wall /\ triggers[c].wall <= current.wall
    BY <1>11, <2>3
  <2>4. QED
    BY <1>10, <2>2, <2>3
<1>14. previous \in ToSet(visits) /\ current \in ToSet(visits)
  BY <1>4, <1>5 DEF ToSet
<1>15. QED
  BY <1>1, <1>3, <1>5, <1>11, <1>12, <1>13, <1>14

LEMMA Accounted ==
    ASSUME TimelineInv, SaidInv, Rising PROVE MovesAccounted
<1> DEFINE visits == Occupancies(log)
<1>1. ASSUME visits # <<>>, NEW s
      PROVE  Total(Weights(Transitions(log), s)) =
                 (IF visits[1].state = s THEN 1 ELSE 0)
                 - (IF visits[Len(visits)].state = s THEN 1 ELSE 0)
  <2>1. Len(visits) # 0
    BY <1>1, VisitsAre DEF IsList
  <2>2. QED
    BY <2>1, Balanced
<1>2. ASSUME NEW m \in ToSet(Moves(log)), m.trigger # 0
      PROVE  LET at == {v \in ToSet(visits) : v.seq \in m.cites}
             IN  \E v, w \in at : v.wall <= log[m.trigger].wall /\ log[m.trigger].wall <= w.wall
  <2>1. PICK k \in DOMAIN Moves(log) : m = Moves(log)[k]
    BY DEF ToSet
  <2>2. QED
    BY <1>2, <2>1, TriggerBetween
<1>3. QED
  BY <1>1, <1>2, Zenon DEF MovesAccounted, Weights, Weight

(* Every move between states is counted once and leaves no state more often*)
(* than it is entered, but for the first and the last, and the trigger it  *)
(* is put down to was logged between two visits it cites                   *)
(* (_candidate_trigger, _transitions).                                     *)
THEOREM MovesTheorem == Spec => []MovesAccounted
<1>1. TimelineInv /\ SaidInv /\ Rising => MovesAccounted
  BY Accounted
<1>2. QED
  BY RisingInvariant, <1>1, PTL

-----------------------------------------------------------------------------
(* What is shared.                                                         *)
Statuses == {Healthy, Degraded, Unavailable, NotApplicable}

LEMMA SensorsAre ==
    ASSUME NEW events, NEW s \in Sensors(events)
    PROVE  s.name \in SensorNames /\ s.status \in Statuses
<1> DEFINE Fine(x) == x.name \in SensorNames /\ x.status \in Statuses
<1>1. ASSUME NEW name \in SensorNames
      PROVE  /\ \A status \in Statuses : Fine(Sensor(name, status))
             /\ \A lost : Fine(Lossy(name, lost))
             /\ \A lost, spots : Fine([Lossy(name, lost) EXCEPT !.spots = spots])
  BY DEF Sensor, Lossy, Statuses
<1>2. /\ "playwright_network" \in SensorNames /\ "runtime_probe" \in SensorNames
      /\ "dom_sensor" \in SensorNames /\ "storage_sensor" \in SensorNames
      /\ "websocket_sensor" \in SensorNames /\ "extension_network" \in SensorNames
  BY DEF SensorNames
<1>3. Unavailable \in Statuses /\ NotApplicable \in Statuses
  BY DEF Statuses
<1> HIDE DEF Fine
<1>4. Fine(PlaywrightHealth(events))
  BY <1>1, <1>2, <1>3 DEF PlaywrightHealth
<1>5. Fine(RuntimeHealth(events))
  <2>1. CASE RuntimeProbeMissing(events)
    BY <1>1, <1>2, <1>3, <2>1 DEF RuntimeHealth
  <2>2. CASE ~RuntimeProbeMissing(events)
    <3>1. \E lost, spots : RuntimeHealth(events) = [Lossy("runtime_probe", lost) EXCEPT !.spots = spots]
      BY <2>2 DEF RuntimeHealth
    <3>2. QED
      BY <1>1, <1>2, <3>1
  <2>3. QED
    BY <2>1, <2>2
<1>6. Fine(DomHealth(events))
  BY <1>1, <1>2, <1>3 DEF DomHealth
<1>7. Fine(WebSocketHealth(events))
  BY <1>1, <1>2, <1>3 DEF WebSocketHealth
<1>8. Fine(StorageHealth(events))
  BY <1>1, <1>2, <1>3 DEF StorageHealth
<1>9. Fine(ExtensionHealth(events))
  BY <1>1, <1>2, <1>3 DEF ExtensionHealth
<1>10. Fine(s)
  BY <1>4, <1>5, <1>6, <1>7, <1>8, <1>9 DEF Sensors
<1>11. QED
  BY <1>10 DEF Fine

LEMMA OverallIs == ASSUME NEW sensors PROVE Overall(sensors) \in OverallCodes
<1> DEFINE considered == {s \in sensors : s.status # NotApplicable}
           spotted == \E s \in considered : s.spots # {}
           absent == \E s \in considered : s.status = Unavailable
           missing == (IF spotted THEN {"SENSOR BLIND SPOT"} ELSE {})
                      \cup (IF absent THEN {"SENSOR UNAVAILABLE"} ELSE {})
<1>1. \/ Overall(sensors) = {"unknown"}
      \/ missing # {} /\ Overall(sensors) = missing
      \/ Overall(sensors) = {"HIGH COVERAGE"}
      \/ Overall(sensors) = {"COMPLETE"}
  BY DEF Overall
<1>2. missing \in {{}, {"SENSOR BLIND SPOT"}, {"SENSOR UNAVAILABLE"},
                   {"SENSOR BLIND SPOT", "SENSOR UNAVAILABLE"}}
  OBVIOUS
<1> HIDE DEF missing
<1>3. QED
  BY <1>1, <1>2 DEF OverallCodes

(* Every step is one thing that happened.                                  *)
LEMMA StepsHappened ==
    ASSUME NEW events, events \in Seq(ToSet(events))
    PROVE  \A k \in DOMAIN Steps(events) : \E e : Steps(events)[k].step = StepOf(e)
<1> DEFINE raw == RawSteps(events)
           items == Items(raw)
           st == InOrder(Fresh(items))
<1>1. PICK n : n = Len(raw) /\ n \in Nat /\ DOMAIN raw = 1..n
  <2>1. PICK order : /\ order \in [1..Len(raw) -> {i \in DOMAIN events : IsStep(events[i])}]
                     /\ raw \in Seq(ToSet(events))
    BY RawAre
  <2> HIDE DEF raw
  <2>2. QED
    BY <2>1
<1>2. DOMAIN items = 1..n /\ \A i \in 1..n : items[i] = StepOf(raw[i])
  <2> HIDE DEF raw
  <2>1. QED
    BY <1>1 DEF Items
<1>3. /\ DOMAIN Steps(events) = DOMAIN st
      /\ \A k \in DOMAIN st : Steps(events)[k].step = items[st[k]]
  BY StepsAre
<1> HIDE DEF raw, items
<1>4. \A k \in DOMAIN st : st[k] \in 1..n
  <2>1. Fresh(items) \in SUBSET (1..n) /\ Fresh(items) \in SUBSET Nat
    BY <1>2 DEF Fresh
  <2>2. IsFiniteSet(1..n)
    BY <1>1, FS_Interval
  <2>3. IsFiniteSet(Fresh(items))
    BY <2>1, <2>2, FS_Subset
  <2>4. st \in [1..Cardinality(Fresh(items)) -> Fresh(items)]
    BY <2>1, <2>3, InOrderIs
  <2>5. QED
    BY <2>1, <2>4
<1>5. QED
  BY <1>2, <1>3, <1>4

LEMMA KindsAre == ASSUME NEW e PROVE StepOf(e).kind \in WorkflowKinds
<1>1. StepKind(e) \in WorkflowKinds
  BY DEF StepKind, WorkflowKinds
<1>2. "navigate" \in WorkflowKinds
  BY DEF WorkflowKinds
<1>3. StepOf(e).kind \in {"navigate", StepKind(e)}
  <2> DEFINE key == IF StepKind(e) = "press" /\ e.key \in SafeKeys THEN e.key ELSE ""
             valued == e.type \in {"user_input", "user_change"}
  <2>1. CASE e.type \in {"navigation_committed", "runtime_history"}
    BY <2>1 DEF StepOf
  <2>2. CASE e.type \notin {"navigation_committed", "runtime_history"}
    <3>1. StepOf(e) = [kind |-> StepKind(e), element |-> SemanticKey(e.element), url |-> <<"none">>,
                       key |-> key, valued |-> valued]
      BY <2>2, Zenon DEF StepOf
    <3> HIDE DEF key, valued
    <3>2. QED
      BY <3>1
  <2>3. QED
    BY <2>1, <2>2
<1>4. QED
  BY <1>1, <1>2, <1>3

LEMMA MeasuredWarns ==
    ASSUME NEW group, NEW l \in DOMAIN Measured(group)
    PROVE  Measured(group)[l].warning \in WarningCodes \cup {"none"}
<1> DEFINE Values(s) == {e.element.locators[s] : e \in {x \in group : s \in DOMAIN x.element.locators}}
           Held(s, v) == Cardinality({e \in group : s \in DOMAIN e.element.locators
                                                    /\ e.element.locators[s] = v})
           strategies == UNION {DOMAIN e.element.locators : e \in group}
           Best(s) == CHOOSE v \in Values(s) : \A w \in Values(s) : Held(s, w) <= Held(s, v)
           framework(s) == s \in {"id", "css", "structural"} /\ Best(s) \in Generated
           Warning(s) == CASE framework(s) -> "framework_generated"
                           [] ~framework(s) /\ Cardinality(Values(s)) > 1 -> "value_varied"
                           [] OTHER -> "none"
<1>1. Measured(group) =
          [s \in strategies |->
              [value |-> Best(s), resolved |-> Held(s, Best(s)), samples |-> Cardinality(group),
               warning |-> Warning(s)]]
  BY Zenon DEF Measured
<1>2. \A s : Warning(s) \in WarningCodes \cup {"none"}
  <2> HIDE DEF framework, Values
  <2>1. QED
    BY DEF WarningCodes
<1> HIDE DEF Warning, Best, Held, strategies
<1>3. QED
  BY <1>1, <1>2

LEMMA WarningsAre ==
    ASSUME NEW events, NEW u \in UsedElements(events), NEW l \in DOMAIN u.locators
    PROVE  u.locators[l].warning \in WarningCodes \cup {"none"}
<1> DEFINE used == {f \in ToSet(events) : f.type \in UserActionTypes /\ f.element.tag # ""}
           Group(key) == {f \in used : SemanticKey(f.element) = key}
           types(key) == {f.type : f \in Group(key)}
           record(key) ==
               [key |-> key, observations |-> Cardinality(Group(key)),
                actions |-> [t \in types(key) |-> Cardinality({f \in Group(key) : f.type = t})],
                locators |-> Measured(Group(key)), cites |-> {f.seq : f \in Group(key)}]
<1>1. UsedElements(events) = {record(key) : key \in {SemanticKey(f.element) : f \in used}}
  BY Zenon DEF UsedElements
<1>2. \A key : record(key).locators = Measured(Group(key))
  <2> HIDE DEF Group, types
  <2>1. QED
    OBVIOUS
<1> HIDE DEF record
<1>3. \E key : u = record(key)
  BY <1>1
<1>4. PICK group : u.locators = Measured(group)
  BY <1>2, <1>3
<1>5. QED
  BY <1>4, MeasuredWarns

LEMMA FindingsAre == \A f \in Result.findings : f.kind \in FindingKinds
<1> DEFINE Fine(S) == \A f \in S : f.kind \in FindingKinds
<1>1. PICK derived : Result.findings = CaptureFindings(log) \cup DerivedFindings(derived)
  BY DEF Result, ResultOf
<1>2. ASSUME NEW kind \in FindingKinds
      PROVE  \A severity, about, count, cites : FindingOf(kind, severity, about, count, cites).kind \in FindingKinds
  BY DEF FindingOf
<1>3. /\ "capture_gap" \in FindingKinds /\ "sensor_error" \in FindingKinds
      /\ "sensor_blind_spot" \in FindingKinds /\ "thin_sample" \in FindingKinds
      /\ "weak_templating" \in FindingKinds /\ "unreplayable_step" \in FindingKinds
      /\ "workflow_value_gap" \in FindingKinds
  BY DEF FindingKinds
<1>4. Fine(CaptureFindings(log))
  BY <1>2, <1>3 DEF CaptureFindings
<1> DEFINE Told(kind, severity, S) ==
               IF S = {} THEN {} ELSE {FindingOf(kind, severity, "all", Cardinality(S), {})}
           Spots == {FindingOf("sensor_blind_spot", "critical", spot, 1, {}) :
                        spot \in UNION {s.spots : s \in derived.health.sensors}}
<1>5. \A kind \in FindingKinds : \A severity, S : Fine(Told(kind, severity, S))
  BY <1>2
<1>6. Fine(Spots)
  BY <1>2, <1>3
<1>7. PICK thin, weak, lost, valued :
          DerivedFindings(derived) =
              Spots \cup Told("thin_sample", "info", thin) \cup Told("weak_templating", "info", weak)
              \cup Told("unreplayable_step", "warning", lost)
              \cup Told("workflow_value_gap", "info", valued)
  BY Zenon DEF DerivedFindings
<1>8. Fine(DerivedFindings(derived))
  <2> HIDE DEF Told, Spots
  <2>1. /\ Fine(Told("thin_sample", "info", thin)) /\ Fine(Told("weak_templating", "info", weak))
        /\ Fine(Told("unreplayable_step", "warning", lost))
        /\ Fine(Told("workflow_value_gap", "info", valued))
    BY <1>3, <1>5
  <2>2. QED
    BY <1>6, <1>7, <2>1
<1>9. QED
  BY <1>1, <1>4, <1>8

LEMMA ResultIs ==
    /\ Result.dependencies = Dependencies(Known) /\ Result.workflow = Steps(log)
    /\ Result.elements = UsedElements(log)
    /\ Result.health.sensors = Sensors(log) /\ Result.health.overall = Overall(Sensors(log))
<1> DEFINE derived ==
            [endpoints |-> EndpointsOf(log), schemas |-> SchemasOf(Known),
             dependencies |-> Dependencies(Known), elements |-> UsedElements(log),
             states |-> VisitedStates(log), transitions |-> Transitions(log),
             workflow |-> Steps(log), segments |-> Activities(log),
             forms |-> Catalog(Known), tables |-> TablesOf(log),
             activities |-> Matches(log), health |-> Health(log), findings |-> {}]
           findings == CaptureFindings(log) \cup DerivedFindings(derived)
<1>1. Result = [derived EXCEPT !.findings = findings]
  BY Zenon DEF Result, ResultOf, Known
<1> HIDE DEF findings
<1>2. /\ Result.dependencies = Dependencies(Known) /\ Result.workflow = Steps(log)
      /\ Result.elements = UsedElements(log) /\ Result.health = Health(log)
  BY <1>1
<1>3. Health(log).sensors = Sensors(log) /\ Health(log).overall = Overall(Sensors(log))
  BY DEF Health
<1>4. QED
  BY <1>2, <1>3

LEMMA OnlyUnavailable ==
    ASSUME TimelineInv, SaidInv PROVE ExportRefusesOnlyUnavailable
<1> DEFINE Outside(where, values, allowed) == IF values \subseteq allowed THEN {} ELSE {where}
           mechanisms == {d.mechanism : d \in ToSet(Result.dependencies)}
           kinds == {s.step.kind : s \in ToSet(Result.workflow)}
           warnings == (UNION {{u.locators[l].warning : l \in DOMAIN u.locators} :
                                  u \in Result.elements}) \ {"none"}
           found == {f.kind : f \in Result.findings}
           overall == {Result.health.overall}
           names == {s.name : s \in Result.health.sensors}
           statuses == {s.status : s \in Result.health.sensors}
<1>1. Refused(Result) =
          Outside("DependencyEdge.mechanism", mechanisms, Mechanisms)
          \cup Outside("WorkflowStep.kind", kinds, WorkflowKinds)
          \cup Outside("LocatorCandidate.warning_code", warnings, WarningCodes)
          \cup Outside("Finding.kind", found, FindingKinds)
          \cup Outside("health.overall", overall, OverallCodes)
          \cup Outside("health.sensors.sensor", names, SensorNames)
          \cup Outside("health.sensors.status", statuses, SensorStatuses)
  BY Zenon DEF Refused
<1>2. mechanisms \subseteq Mechanisms
  <2>1. \A d \in ToSet(Dependencies(Known)) : Sound(ToSet(Sightings(Known)), d)
    BY KnownPlaced, DependenciesSound
  <2>2. \A d \in ToSet(Dependencies(Known)) : d.mechanism \in Mechanisms
    BY <2>1 DEF Sound
  <2>3. QED
    BY <2>2, ResultIs
<1>3. kinds \subseteq WorkflowKinds
  <2>1. \A k \in DOMAIN Steps(log) : \E e : Steps(log)[k].step = StepOf(e)
    BY LogIsOfEvents, StepsHappened
  <2>2. \A k \in DOMAIN Steps(log) : Steps(log)[k].step.kind \in WorkflowKinds
    BY <2>1, KindsAre
  <2>3. QED
    BY <2>2, ResultIs DEF ToSet
<1>4. warnings \subseteq WarningCodes
  <2>1. \A u \in UsedElements(log) : \A l \in DOMAIN u.locators :
            u.locators[l].warning \in WarningCodes \cup {"none"}
    BY WarningsAre
  <2>2. \A u \in Result.elements : \A l \in DOMAIN u.locators :
            u.locators[l].warning \in WarningCodes \cup {"none"}
    BY ResultIs, <2>1, Zenon
  <2>3. ASSUME NEW w \in warnings PROVE w \in WarningCodes
    <3>1. PICK u \in Result.elements : w \in {u.locators[l].warning : l \in DOMAIN u.locators}
      OBVIOUS
    <3>2. PICK l \in DOMAIN u.locators : w = u.locators[l].warning
      BY <3>1
    <3>3. w \in WarningCodes \cup {"none"}
      BY <2>2, <3>2, Zenon
    <3>4. w # "none"
      BY <2>3, Zenon
    <3>5. QED
      BY <3>3, <3>4
  <2>4. QED
    BY <2>3
<1>5. found \subseteq FindingKinds
  BY FindingsAre
<1>6. overall \subseteq OverallCodes
  <2>1. Overall(Sensors(log)) \in OverallCodes
    BY OverallIs
  <2>2. QED
    BY ResultIs, <2>1
<1>7. names \subseteq SensorNames
  BY ResultIs, SensorsAre
<1>8. statuses \subseteq SensorStatuses <=> ~(\E s \in Health(log).sensors : s.status = Unavailable)
  <2>1. Health(log).sensors = Sensors(log) /\ Result.health.sensors = Sensors(log)
    BY ResultIs DEF Health
  <2>2. \A s \in Sensors(log) : s.status \in SensorStatuses <=> s.status # Unavailable
    BY SensorsAre DEF Statuses, SensorStatuses, Healthy, Degraded, Unavailable, NotApplicable
  <2>3. QED
    BY <2>1, <2>2
<1> HIDE DEF mechanisms, kinds, warnings, found, overall, names, statuses
<1>9. Refused(Result) = Outside("health.sensors.status", statuses, SensorStatuses)
  BY <1>1, <1>2, <1>3, <1>4, <1>5, <1>6, <1>7
<1>10. QED
  BY <1>8, <1>9 DEF ExportRefusesOnlyUnavailable

(* Of whatever is logged an analysis is made that can be shared, but for   *)
(* the status of a sensor that was not there (policy.py's _reason_code and *)
(* its vocabularies against what the analyzers derive).                    *)
THEOREM ExportTheorem == Spec => []ExportRefusesOnlyUnavailable
<1>1. TimelineInv /\ SaidInv => ExportRefusesOnlyUnavailable
  BY OnlyUnavailable
<1>2. QED
  BY SaidInvariant, <1>1, PTL

-----------------------------------------------------------------------------
(* Presence.  What a walk meets in a body whose values come after what they*)
(* are in, while there is room for all the fields there are.               *)
Readable(body) ==
    /\ Len(body) \in Nat /\ DOMAIN body = 1..Len(body)
    /\ \A i \in DOMAIN body : /\ body[i].parent \in 0..(i - 1)
                              /\ body[i].item \in Nat /\ body[i].item <= MaxItems

Has(body, p) == \E i \in DOMAIN body : body[i].path = p
PathsTo(body, n) == {body[i].path : i \in 1..n}

AreFields(fields) == \A p \in DOMAIN fields : "present" \in DOMAIN fields[p]

Walked(state, fields, body, n) ==
    /\ state.entered = 0..n
    /\ state.met = PathsTo(body, n)
    /\ DOMAIN state.fields = DOMAIN fields \cup PathsTo(body, n)
    /\ AreFields(state.fields)
    /\ \A p \in DOMAIN state.fields : state.fields[p].present = FieldOf(fields, p).present

LEMMA MeetIs ==
    ASSUME NEW fields, NEW body, Readable(body), NEW n \in 1..Len(body), NEW state,
           Walked(state, fields, body, n - 1), NEW paths,
           IsFiniteSet(paths), Cardinality(paths) < MaxFields,
           DOMAIN fields \subseteq paths, PathsTo(body, Len(body)) \subseteq paths
    PROVE  Walked(Meet(state, body[n], n), fields, body, n)
<1> DEFINE node == body[n]
           old == FieldOf(state.fields, node.path)
           known == Put(state.fields, node.path, WithValue(old, node.type))
<1>1. Len(body) \in Nat /\ n \in DOMAIN body /\ n \in Nat \ {0} /\ DOMAIN body = 1..Len(body)
  BY DEF Readable
<1>2. node.parent \in state.entered /\ ~(node.item > MaxItems)
  <2>1. /\ node.parent \in 0..(n - 1)
        /\ node.item \in Nat /\ node.item <= MaxItems
    BY <1>1 DEF Readable
  <2>2. MaxItems \in Nat
    BY FieldsAssumption
  <2> HIDE DEF node
  <2>3. QED
    BY <1>1, <2>1, <2>2 DEF Walked
<1>3. PathsTo(body, n) = PathsTo(body, n - 1) \cup {node.path}
  BY <1>1 DEF PathsTo
<1>4. DOMAIN known = DOMAIN state.fields \cup {node.path}
  BY DEF Put
<1>5. DOMAIN known = DOMAIN fields \cup PathsTo(body, n)
  BY <1>3, <1>4 DEF Walked
<1>6. HasRoom(known)
  <2>1. DOMAIN known \subseteq paths
    <3>1. PathsTo(body, n) \subseteq PathsTo(body, Len(body))
      BY <1>1 DEF PathsTo
    <3> HIDE DEF known
    <3>2. QED
      BY <1>5, <3>1
  <2> HIDE DEF known
  <2>2. /\ Cardinality(DOMAIN known) <= Cardinality(paths)
        /\ Cardinality(DOMAIN known) \in Nat /\ Cardinality(paths) \in Nat
    BY <2>1, FS_Subset, FS_CardinalityType
  <2>3. QED
    BY <2>2, FieldsAssumption DEF HasRoom
<1>7. Meet(state, node, n) = [fields |-> known, met |-> state.met \cup {node.path},
                              entered |-> state.entered \cup {n}]
  <2>1. Meet(state, node, n) =
            [fields |-> known, met |-> state.met \cup {node.path},
             entered |-> IF HasRoom(known) THEN state.entered \cup {n} ELSE state.entered]
    BY <1>2 DEF Meet
  <2> HIDE DEF known
  <2>2. QED
    BY <1>6, <2>1
<1>8. "present" \in DOMAIN old
  BY DEF FieldOf, NewField, Walked, AreFields
<1>9. DOMAIN WithValue(old, node.type) = DOMAIN old /\ WithValue(old, node.type).present = old.present
  BY <1>8 DEF WithValue
<1>10. old.present = FieldOf(fields, node.path).present
  <2>1. CASE node.path \in DOMAIN state.fields
    BY <2>1 DEF FieldOf, Walked
  <2>2. CASE node.path \notin DOMAIN state.fields
    BY <2>2 DEF FieldOf, Walked
  <2>3. QED
    BY <2>1, <2>2
<1>11. ASSUME NEW p \in DOMAIN known
       PROVE  "present" \in DOMAIN known[p] /\ known[p].present = FieldOf(fields, p).present
  <2>1. CASE p = node.path
    <3>1. known[p] = WithValue(old, node.type)
      BY <2>1 DEF Put
    <3> HIDE DEF old, known
    <3>2. QED
      BY <1>8, <1>9, <1>10, <2>1, <3>1
  <2>2. CASE p # node.path
    <3>1. p \in DOMAIN state.fields /\ known[p] = state.fields[p]
      BY <1>4, <2>2 DEF Put
    <3> HIDE DEF old, known
    <3>2. QED
      BY <3>1 DEF Walked, AreFields
  <2>3. QED
    BY <2>1, <2>2
<1>12. state.entered \cup {n} = 0..n
  BY <1>1 DEF Walked
<1>13. state.met \cup {node.path} = PathsTo(body, n)
  BY <1>3 DEF Walked
<1> HIDE DEF known, node
<1>14. QED
  BY <1>5, <1>7, <1>11, <1>12, <1>13 DEF Walked, AreFields, node

LEMMA WalkIs ==
    ASSUME NEW fields, AreFields(fields), NEW body, Readable(body), NEW paths,
           IsFiniteSet(paths), Cardinality(paths) < MaxFields,
           DOMAIN fields \subseteq paths, PathsTo(body, Len(body)) \subseteq paths
    PROVE  Walked(Walk(fields, body), fields, body, Len(body))
<1> DEFINE n == Len(body)
           start == [fields |-> fields, met |-> {},
                     entered |-> IF HasRoom(fields) THEN {0} ELSE {}]
           To(h, j) == h = [i \in 0..j |-> IF i = 0 THEN start ELSE Meet(h[i - 1], body[i], i)]
           Some == {j \in 0..n : \E h : To(h, j)}
           chosen == CHOOSE h : To(h, n)
<1>1. Walk(fields, body) = chosen[n]
  BY Zenon DEF Walk
<1>2. n \in Nat /\ DOMAIN body = 1..n
  BY DEF Readable
<1>3. Walked(start, fields, body, 0)
  <2>1. /\ Cardinality(DOMAIN fields) <= Cardinality(paths)
        /\ Cardinality(DOMAIN fields) \in Nat /\ Cardinality(paths) \in Nat
    BY FS_Subset, FS_CardinalityType
  <2>2. HasRoom(fields)
    BY <2>1, FieldsAssumption DEF HasRoom
  <2>3. PathsTo(body, 0) = {} /\ {0} = 0..0
    BY DEF PathsTo
  <2>4. QED
    BY <2>2, <2>3 DEF Walked, FieldOf
<1> HIDE DEF n, start
<1>4. 0 \in Some
  <2>1. To([i \in 0..0 |-> start], 0)
    OBVIOUS
  <2> HIDE DEF To
  <2>2. 0 \in 0..n
    BY <1>2
  <2>3. QED
    BY <2>1, <2>2
<1>5. ASSUME NEW j \in 1..n, j - 1 \in Some PROVE j \in Some
  <2>1. PICK g : To(g, j - 1)
    BY <1>5
  <2> DEFINE k == [i \in 0..j |-> IF i = j THEN Meet(g[j - 1], body[j], j) ELSE g[i]]
  <2>2. ASSUME NEW i \in 0..j PROVE k[i] = IF i = 0 THEN start ELSE Meet(k[i - 1], body[i], i)
    <3>1. CASE i = j
      BY <1>2, <3>1
    <3>2. CASE i # j
      <4>1. i \in 0..(j - 1)
        BY <1>2, <3>2
      <4>2. g[i] = IF i = 0 THEN start ELSE Meet(g[i - 1], body[i], i)
        BY <2>1, <4>1
      <4>3. k[i] = g[i] /\ (i # 0 => k[i - 1] = g[i - 1])
        BY <1>2, <3>2, <4>1
      <4>4. QED
        BY <4>2, <4>3
    <3>3. QED
      BY <3>1, <3>2
  <2>3. k = [i \in 0..j |-> k[i]]
    OBVIOUS
  <2> HIDE DEF k
  <2>4. To(k, j)
    BY <2>2, <2>3
  <2> HIDE DEF To
  <2>5. j \in 0..n
    BY <1>2
  <2>6. QED
    BY <2>4, <2>5
<1>6. To(chosen, n)
  <2>1. \E h : To(h, n)
    <3> HIDE DEF Some
    <3>1. \A i \in 1..n : i - 1 \in Some => i \in Some
      BY <1>5
    <3>2. \A i \in 0..n : i \in Some
      BY <1>2, <1>4, <3>1, Climb
    <3>3. n \in Some
      BY <1>2, <3>2
    <3> HIDE DEF To
    <3>4. QED
      BY <3>3 DEF Some
  <2> HIDE DEF To
  <2>2. QED
    BY <2>1
<1> HIDE DEF chosen
<1>7. chosen[0] = start /\ \A i \in 1..n : chosen[i] = Meet(chosen[i - 1], body[i], i)
  BY <1>2, <1>6
<1> DEFINE Good == {i \in 0..n : Walked(chosen[i], fields, body, i)}
<1>8. \A i \in 0..n : i \in Good
  <2>1. 0 \in Good
    BY <1>2, <1>3, <1>7
  <2>2. \A i \in 1..n : i - 1 \in Good => i \in Good
    <3>1. ASSUME NEW i \in 1..n, Walked(chosen[i - 1], fields, body, i - 1)
          PROVE  Walked(chosen[i], fields, body, i)
      BY <1>7, <3>1, MeetIs DEF n
    <3>2. QED
      BY <1>2, <3>1
  <2> HIDE DEF Good
  <2>3. QED
    BY <1>2, <2>1, <2>2, Climb
<1>9. QED
  BY <1>1, <1>2, <1>8 DEF n

(* What is kept of the first n of some bodies.                             *)
Inferring(schema, bodies, n) ==
    /\ schema.samples = n
    /\ AreFields(schema.fields)
    /\ \A p : p \in DOMAIN schema.fields <=> \E i \in 1..n : Has(bodies[i], p)
    /\ \A p : LET c == FieldOf(schema.fields, p).present
              IN  c \in 0..n /\ (c = n <=> \A i \in 1..n : Has(bodies[i], p))

LEMMA ObservedIs ==
    ASSUME NEW bodies, NEW n \in Nat \ {0}, NEW schema, Inferring(schema, bodies, n - 1),
           Readable(bodies[n]), NEW paths, IsFiniteSet(paths), Cardinality(paths) < MaxFields,
           \A i \in 1..n : \A p : Has(bodies[i], p) => p \in paths
    PROVE  Inferring(Observed(schema, bodies[n]), bodies, n)
<1> DEFINE body == bodies[n]
           walked == Walk(schema.fields, body)
           tallies == Counting(walked)
           met == PathsTo(body, Len(body))
<1>1. \A p : p \in met <=> Has(body, p)
  BY DEF PathsTo, Has, Readable
<1>2. met \subseteq paths /\ DOMAIN schema.fields \subseteq paths
  <2>1. n \in 1..n /\ \A i \in 1..(n - 1) : i \in 1..n
    OBVIOUS
  <2>2. QED
    BY <1>1, <2>1 DEF Inferring
<1>3. Walked(walked, schema.fields, body, Len(body)) /\ AreFields(schema.fields)
  BY <1>2, WalkIs DEF Inferring
<1>4. /\ DOMAIN walked.fields = DOMAIN schema.fields \cup met /\ walked.met = met
      /\ AreFields(walked.fields)
      /\ \A p \in DOMAIN walked.fields : walked.fields[p].present = FieldOf(schema.fields, p).present
  BY <1>3 DEF Walked
<1> HIDE DEF met, walked
<1>5. DOMAIN tallies = DOMAIN walked.fields
  BY DEF Counting
<1>6. ASSUME NEW p \in DOMAIN tallies
      PROVE  /\ "present" \in DOMAIN tallies[p]
             /\ tallies[p].present = FieldOf(schema.fields, p).present + (IF p \in met THEN 1 ELSE 0)
  <2>1. "present" \in DOMAIN walked.fields[p]
    BY <1>4, <1>5 DEF AreFields
  <2>2. tallies[p] = [walked.fields[p] EXCEPT !.present = @ + (IF p \in walked.met THEN 1 ELSE 0)]
    BY <1>5 DEF Counting
  <2>3. /\ DOMAIN tallies[p] = DOMAIN walked.fields[p]
        /\ tallies[p].present = walked.fields[p].present + (IF p \in walked.met THEN 1 ELSE 0)
    BY <2>1, <2>2
  <2>4. QED
    BY <1>4, <1>5, <2>1, <2>3
<1> HIDE DEF tallies
<1>7. Observed(schema, body) = [samples |-> schema.samples + 1, fields |-> tallies]
  BY DEF Observed, tallies, walked
<1>8. ASSUME NEW p
      PROVE  p \in DOMAIN tallies <=> \E i \in 1..n : Has(bodies[i], p)
  <2>1. p \in DOMAIN tallies <=> p \in DOMAIN schema.fields \/ Has(bodies[n], p)
    BY <1>1, <1>4, <1>5
  <2>2. p \in DOMAIN schema.fields <=> \E i \in 1..(n - 1) : Has(bodies[i], p)
    BY DEF Inferring
  <2>3. \A i : i \in 1..n <=> i \in 1..(n - 1) \/ i = n
    OBVIOUS
  <2>4. QED
    BY <2>1, <2>2, <2>3
<1>9. ASSUME NEW p, NEW c, c = FieldOf(tallies, p).present
      PROVE  c \in 0..n /\ (c = n <=> \A i \in 1..n : Has(bodies[i], p))
  <2> DEFINE b == FieldOf(schema.fields, p).present
             all == \A i \in 1..(n - 1) : Has(bodies[i], p)
  <2>1. b \in 0..(n - 1) /\ (b = n - 1 <=> all)
    BY DEF Inferring
  <2>2. (\A i \in 1..n : Has(bodies[i], p)) <=> all /\ Has(bodies[n], p)
    <3>1. \A i : i \in 1..n <=> i \in 1..(n - 1) \/ i = n
      OBVIOUS
    <3>2. QED
      BY <3>1
  <2>3. p \in met <=> Has(bodies[n], p)
    BY <1>1
  <2>4. CASE p \in DOMAIN tallies
    <3>1. c = b + (IF p \in met THEN 1 ELSE 0)
      BY <1>6, <1>9, <2>4 DEF FieldOf
    <3> HIDE DEF b, all
    <3>2. QED
      BY <2>1, <2>2, <2>3, <3>1
  <2>5. CASE p \notin DOMAIN tallies
    <3>1. c = 0
      BY <1>9, <2>5 DEF FieldOf, NewField
    <3>2. ~Has(bodies[n], p)
      BY <1>4, <1>5, <2>3, <2>5
    <3>3. QED
      BY <3>1, <3>2
  <2>6. QED
    BY <2>4, <2>5
<1>10. schema.samples + 1 = n
  BY DEF Inferring
<1>11. AreFields(tallies)
  BY <1>6 DEF AreFields
<1>12. QED
  BY <1>7, <1>8, <1>9, <1>10, <1>11 DEF Inferring

LEMMA SchemaIs ==
    ASSUME NEW bodies, NEW n \in Nat, Len(bodies) = n, \A i \in 1..n : Readable(bodies[i]),
           NEW paths, IsFiniteSet(paths), Cardinality(paths) < MaxFields,
           \A i \in 1..n : \A p : Has(bodies[i], p) => p \in paths
    PROVE  Inferring(SchemaOf(bodies), bodies, n)
<1> DEFINE To(h, j) == h = [i \in 0..j |-> IF i = 0 THEN NewSchema
                                           ELSE Observed(h[i - 1], bodies[i])]
           Some == {j \in 0..n : \E h : To(h, j)}
           chosen == CHOOSE h : To(h, n)
<1>1. SchemaOf(bodies) = chosen[n]
  BY Zenon DEF SchemaOf
<1>3. Inferring(NewSchema, bodies, 0)
  BY DEF Inferring, NewSchema, AreFields, FieldOf, NewField
<1>4. 0 \in Some
  <2>1. To([i \in 0..0 |-> NewSchema], 0)
    OBVIOUS
  <2> HIDE DEF To
  <2>2. 0 \in 0..n
    OBVIOUS
  <2>3. QED
    BY <2>1, <2>2
<1>5. ASSUME NEW j \in 1..n, j - 1 \in Some PROVE j \in Some
  <2>1. PICK g : To(g, j - 1)
    BY <1>5
  <2> DEFINE k == [i \in 0..j |-> IF i = j THEN Observed(g[j - 1], bodies[j]) ELSE g[i]]
  <2>2. ASSUME NEW i \in 0..j
        PROVE  k[i] = IF i = 0 THEN NewSchema ELSE Observed(k[i - 1], bodies[i])
    <3>1. CASE i = j
      BY <3>1
    <3>2. CASE i # j
      <4>1. i \in 0..(j - 1)
        BY <3>2
      <4>2. g[i] = IF i = 0 THEN NewSchema ELSE Observed(g[i - 1], bodies[i])
        BY <2>1, <4>1
      <4>3. k[i] = g[i] /\ (i # 0 => k[i - 1] = g[i - 1])
        BY <3>2, <4>1
      <4>4. QED
        BY <4>2, <4>3
    <3>3. QED
      BY <3>1, <3>2
  <2>3. k = [i \in 0..j |-> k[i]]
    OBVIOUS
  <2> HIDE DEF k
  <2>4. To(k, j)
    BY <2>2, <2>3
  <2> HIDE DEF To
  <2>5. j \in 0..n
    OBVIOUS
  <2>6. QED
    BY <2>4, <2>5
<1>6. To(chosen, n)
  <2>1. \E h : To(h, n)
    <3> HIDE DEF Some
    <3>1. \A i \in 1..n : i - 1 \in Some => i \in Some
      BY <1>5
    <3>2. \A i \in 0..n : i \in Some
      BY <1>4, <3>1, Climb
    <3>3. n \in Some
      BY <3>2
    <3> HIDE DEF To
    <3>4. QED
      BY <3>3 DEF Some
  <2> HIDE DEF To
  <2>2. QED
    BY <2>1
<1> HIDE DEF chosen
<1>7. chosen[0] = NewSchema /\ \A i \in 1..n : chosen[i] = Observed(chosen[i - 1], bodies[i])
  BY <1>6
<1> DEFINE Good == {i \in 0..n : Inferring(chosen[i], bodies, i)}
<1>8. \A i \in 0..n : i \in Good
  <2>1. 0 \in Good
    BY <1>3, <1>7
  <2>2. ASSUME NEW i \in 1..n, Inferring(chosen[i - 1], bodies, i - 1)
        PROVE  Inferring(chosen[i], bodies, i)
    <3>1. i \in Nat \ {0} /\ \A j \in 1..i : j \in 1..n
      OBVIOUS
    <3>2. \A j \in 1..i : \A p : Has(bodies[j], p) => p \in paths
      BY <3>1
    <3>3. QED
      BY <1>7, <2>2, <3>1, <3>2, ObservedIs
  <2>3. \A i \in 1..n : i - 1 \in Good => i \in Good
    BY <2>2
  <2> HIDE DEF Good
  <2>4. QED
    BY <2>1, <2>3, Climb
<1>9. QED
  BY <1>1, <1>8

(* The bodies that a schema is inferred from.                              *)
LEMMA BodiedAre ==
    ASSUME NEW events, IsList(events)
    PROVE  /\ IsList(Bodied(events))
           /\ \A v : v \in ToSet(Bodied(events)) <=>
                     /\ v \in ToSet(events) /\ v.type \in {"http_request", "http_response"}
                     /\ v.endpoint # <<>> /\ v.body # <<>>
<1> DEFINE I == {i \in DOMAIN events : /\ events[i].type \in {"http_request", "http_response"}
                                       /\ events[i].endpoint # <<>> /\ events[i].body # <<>>}
<1>1. PICK T : events \in Seq(T)
  BY DEF IsList
<1>2. I \in SUBSET (DOMAIN events) /\ Bodied(events) = Those(events, I)
  BY DEF Bodied
<1>3. \A v : v \in ToSet(Bodied(events)) <=> \E i \in I : v = events[i]
  <2> HIDE DEF I
  <2>1. QED
    BY <1>1, <1>2, ThoseHold
<1>4. IsList(Bodied(events))
  <2> HIDE DEF I
  <2>1. QED
    BY <1>1, <1>2, ThoseAre DEF IsList
<1>5. QED
  BY <1>3, <1>4 DEF ToSet

LEMMA BodiesAre ==
    ASSUME NEW bodied, IsList(bodied), NEW k
    PROVE  \E own : /\ IsList(own)
                    /\ BodiesUnder(bodied, k) = [i \in DOMAIN own |-> own[i].body]
                    /\ \A v : v \in ToSet(own) <=> v \in ToSet(bodied) /\ SchemaKey(v) = k
<1> DEFINE I == {i \in DOMAIN bodied : SchemaKey(bodied[i]) = k}
           own == Those(bodied, I)
<1>1. PICK T : bodied \in Seq(T)
  BY DEF IsList
<1>2. I \in SUBSET (DOMAIN bodied)
  OBVIOUS
<1>3. BodiesUnder(bodied, k) = [i \in DOMAIN own |-> own[i].body]
  BY Zenon DEF BodiesUnder
<1>4. \A v : v \in ToSet(own) <=> \E i \in I : v = bodied[i]
  <2> HIDE DEF I
  <2>1. QED
    BY <1>1, <1>2, ThoseHold
<1>5. IsList(own)
  <2> HIDE DEF I
  <2>1. QED
    BY <1>1, <1>2, ThoseAre DEF IsList
<1>6. \A v : v \in ToSet(own) <=> v \in ToSet(bodied) /\ SchemaKey(v) = k
  <2> HIDE DEF own
  <2>1. QED
    BY <1>4 DEF ToSet
<1> HIDE DEF own
<1>7. QED
  BY <1>3, <1>5, <1>6

(* Who is asked for by the key of one of them is all that have its key.    *)
LEMMA KeyedAlike ==
    ASSUME NEW w, NEW v, NEW k, k = SchemaKey(w)
    PROVE  /\ k[1] = w.endpoint /\ k[2] = w.type
           /\ SchemaKey(v) = k <=> /\ v.type = k[2] /\ v.endpoint = k[1]
                                   /\ k[2] = "http_response" => v.status = k[3]
BY DEF SchemaKey

LEMMA PathsFinite ==
    ASSUME NEW S, IsFiniteSet(S), \A e \in S : IsFiniteSet(DOMAIN e.body)
    PROVE  IsFiniteSet(UNION {{e.body[i].path : i \in DOMAIN e.body} : e \in S})
<1> DEFINE Paths(e) == {e.body[i].path : i \in DOMAIN e.body}
           f == [e \in S |-> Paths(e)]
<1>1. ASSUME NEW e \in S PROVE IsFiniteSet(Paths(e))
  <2> DEFINE g == [i \in DOMAIN e.body |-> e.body[i].path]
  <2>1. DOMAIN g = DOMAIN e.body /\ Paths(e) = {g[i] : i \in DOMAIN g}
    OBVIOUS
  <2>2. IsFiniteSet({g[i] : i \in DOMAIN g})
    <3>1. IsFiniteSet(DOMAIN g)
      BY <2>1
    <3> HIDE DEF g
    <3>2. QED
      BY <3>1, ImageFinite
  <2>3. QED
    BY <2>1, <2>2
<1>2. IsFiniteSet({Paths(e) : e \in S})
  <2>1. DOMAIN f = S /\ {Paths(e) : e \in S} = {f[e] : e \in DOMAIN f}
    OBVIOUS
  <2>2. IsFiniteSet({f[e] : e \in DOMAIN f})
    <3>1. IsFiniteSet(DOMAIN f)
      BY <2>1
    <3> HIDE DEF f
    <3>2. QED
      BY <3>1, ImageFinite
  <2>3. QED
    BY <2>1, <2>2
<1>3. \A T \in {Paths(e) : e \in S} : IsFiniteSet(T)
  BY <1>1
<1> HIDE DEF Paths
<1>4. IsFiniteSet(UNION {Paths(e) : e \in S})
  BY <1>2, <1>3, FS_UNION
<1>5. QED
  BY <1>4 DEF Paths

BodiesOf(events, k) == {e \in ToSet(events) :
                           /\ e.type = k[2] /\ e.endpoint = k[1] /\ e.body # <<>>
                           /\ k[2] = "http_response" => e.status = k[3]}
PathsIn(S) == UNION {{e.body[i].path : i \in DOMAIN e.body} : e \in S}
ShortIn(S) == \A e \in S : \A i \in DOMAIN e.body : e.body[i].item <= MaxItems
LacksIn(S, p) == \E e \in S : ~\E i \in DOMAIN e.body : e.body[i].path = p

LEMMA SchemasHonest ==
    ASSUME NEW events, IsList(events), \A i \in DOMAIN events : Carrying(events[i]),
           NEW k \in DOMAIN SchemasOf(events),
           NEW S, S = BodiesOf(events, k), NEW paths, paths = PathsIn(S),
           Cardinality(paths) < MaxFields, ShortIn(S)
    PROVE  /\ DOMAIN SchemasOf(events)[k].fields = paths
           /\ \A p \in paths : ObservedOptional(SchemasOf(events)[k], p) <=> LacksIn(S, p)
<1>1. PICK bodied : bodied = Bodied(events)
  OBVIOUS
<1>2. /\ IsList(bodied)
      /\ \A v : v \in ToSet(bodied) <=>
                /\ v \in ToSet(events) /\ v.type \in {"http_request", "http_response"}
                /\ v.endpoint # <<>> /\ v.body # <<>>
  BY <1>1, BodiedAre
<1>3. SchemasOf(events) = [c \in {SchemaKey(bodied[i]) : i \in DOMAIN bodied} |->
                              SchemaOf(BodiesUnder(bodied, c))]
  BY <1>1, Zenon DEF SchemasOf, Inferred
<1>4. PICK w \in ToSet(bodied) : k = SchemaKey(w)
  BY <1>3 DEF ToSet
<1>5. SchemasOf(events)[k] = SchemaOf(BodiesUnder(bodied, k))
  BY <1>3
<1>6. PICK own : /\ IsList(own)
                 /\ BodiesUnder(bodied, k) = [i \in DOMAIN own |-> own[i].body]
                 /\ \A v : v \in ToSet(own) <=> v \in ToSet(bodied) /\ SchemaKey(v) = k
  BY <1>2, BodiesAre
<1>7. ToSet(own) = S
  <2>1. ASSUME NEW v PROVE v \in ToSet(own) <=> v \in S
    <3>1. /\ k[1] = w.endpoint /\ k[2] = w.type
          /\ SchemaKey(v) = k <=> /\ v.type = k[2] /\ v.endpoint = k[1]
                                  /\ k[2] = "http_response" => v.status = k[3]
      BY <1>4, KeyedAlike
    <3>2. w.type \in {"http_request", "http_response"} /\ w.endpoint # <<>>
      BY <1>2
    <3>3. v \in ToSet(own) <=> /\ v \in ToSet(events) /\ v.type \in {"http_request", "http_response"}
                               /\ v.endpoint # <<>> /\ v.body # <<>> /\ SchemaKey(v) = k
      BY <1>2, <1>6
    <3>4. QED
      BY <3>1, <3>2, <3>3 DEF BodiesOf
  <2>2. QED
    BY <2>1
<1>8. PICK n \in Nat : n = Len(own) /\ DOMAIN own = 1..n
  BY <1>6 DEF IsList
<1>9. PICK bodies : bodies = BodiesUnder(bodied, k)
  OBVIOUS
<1>10. bodies = [i \in 1..n |-> own[i].body]
  BY <1>6, <1>8, <1>9
<1>11. Len(bodies) = n
  <2>1. bodies = [i \in 1..n |-> bodies[i]]
    BY <1>10
  <2>2. QED
    BY <2>1, ListIs
<1>12. ASSUME NEW e \in S PROVE Readable(e.body) /\ IsFiniteSet(DOMAIN e.body)
  <2>1. Carrying(e)
    BY DEF BodiesOf, ToSet
  <2>2. PICK b : b = e.body
    OBVIOUS
  <2>3. /\ b \in Seq(ToSet(b))
        /\ \A i \in DOMAIN b : b[i].parent \in 0..(i - 1) /\ b[i].item \in Nat
    BY <2>1, <2>2 DEF Carrying
  <2>4. \A i \in DOMAIN b : b[i].item <= MaxItems
    BY <2>2 DEF ShortIn
  <2>5. Len(b) \in Nat /\ DOMAIN b = 1..Len(b)
    BY <2>3
  <2>6. IsFiniteSet(DOMAIN b)
    BY <2>5, FS_Interval
  <2>7. QED
    BY <2>2, <2>3, <2>4, <2>5, <2>6 DEF Readable
<1>13. \A i \in 1..n : own[i] \in S /\ bodies[i] = own[i].body
  BY <1>7, <1>8, <1>10 DEF ToSet
<1>14. \A e \in S : \E i \in 1..n : e = own[i]
  BY <1>7, <1>8 DEF ToSet
<1>15. IsFiniteSet(S)
  <2>1. IsFiniteSet(DOMAIN own)
    BY <1>8, FS_Interval
  <2>2. IsFiniteSet({own[x] : x \in DOMAIN own})
    BY <2>1, ImageFinite
  <2>3. ToSet(own) = {own[x] : x \in DOMAIN own}
    BY DEF ToSet
  <2>4. QED
    BY <1>7, <2>2, <2>3
<1>16. IsFiniteSet(paths)
  BY <1>12, <1>15, PathsFinite DEF PathsIn
<1>17. \A p : p \in paths <=> \E e \in S : Has(e.body, p)
  BY DEF Has, PathsIn
<1>18. Inferring(SchemaOf(bodies), bodies, n)
  <2>1. \A i \in 1..n : Readable(bodies[i])
    BY <1>12, <1>13
  <2>2. \A i \in 1..n : \A p : Has(bodies[i], p) => p \in paths
    BY <1>13, <1>17
  <2>3. QED
    BY ONLY <1>11, <1>16, <2>1, <2>2, n \in Nat, Cardinality(paths) < MaxFields, SchemaIs
<1>19. PICK schema : schema = SchemaOf(bodies)
  OBVIOUS
<1>20. SchemasOf(events)[k] = schema
  BY <1>5, <1>9, <1>19
<1>21. ASSUME NEW p PROVE p \in DOMAIN schema.fields <=> p \in paths
  <2>1. p \in DOMAIN schema.fields <=> \E i \in 1..n : Has(bodies[i], p)
    BY <1>18, <1>19 DEF Inferring
  <2>2. (\E i \in 1..n : Has(bodies[i], p)) <=> \E e \in S : Has(e.body, p)
    BY <1>13, <1>14
  <2>3. QED
    BY <1>17, <2>1, <2>2
<1>22. ASSUME NEW p \in paths
       PROVE  ObservedOptional(schema, p) <=> LacksIn(S, p)
  <2>1. PICK c : c = schema.fields[p].present
    OBVIOUS
  <2>2. FieldOf(schema.fields, p).present = c
    BY <1>21, <2>1 DEF FieldOf
  <2>3. c \in 0..n /\ (c = n <=> \A i \in 1..n : Has(bodies[i], p)) /\ schema.samples = n
    BY <1>18, <1>19, <2>2 DEF Inferring
  <2>4. ObservedOptional(schema, p) <=> c < n
    BY <2>1, <2>3 DEF ObservedOptional
  <2>5. c < n <=> \E i \in 1..n : ~Has(bodies[i], p)
    BY <2>3
  <2>6. (\E i \in 1..n : ~Has(bodies[i], p)) <=> \E e \in S : ~Has(e.body, p)
    BY <1>13, <1>14
  <2>7. QED
    BY <2>4, <2>5, <2>6 DEF Has, LacksIn
<1>23. QED
  BY <1>20, <1>21, <1>22

LEMMA Honest == TimelineInv /\ SaidInv => PresenceHonest
<1> SUFFICES ASSUME TimelineInv, SaidInv PROVE PresenceHonest
  OBVIOUS
<1>1. PICK events : events = Known
  OBVIOUS
<1>2. IsList(events) /\ \A i \in DOMAIN events : Carrying(events[i])
  BY <1>1, KnownPlaced, Zenon DEF Placed
<1>3. ASSUME NEW k \in DOMAIN SchemasOf(events), NEW S, S = BodiesOf(events, k),
             Cardinality(PathsIn(S)) < MaxFields, ShortIn(S)
      PROVE  /\ DOMAIN SchemasOf(events)[k].fields = PathsIn(S)
             /\ \A p \in PathsIn(S) : ObservedOptional(SchemasOf(events)[k], p) <=> LacksIn(S, p)
  BY <1>2, <1>3, SchemasHonest
<1>4. PresenceHonest <=>
          \A k \in DOMAIN SchemasOf(events) :
              Cardinality(PathsIn(BodiesOf(events, k))) < MaxFields /\ ShortIn(BodiesOf(events, k))
              => /\ DOMAIN SchemasOf(events)[k].fields = PathsIn(BodiesOf(events, k))
                 /\ \A p \in PathsIn(BodiesOf(events, k)) :
                        ObservedOptional(SchemasOf(events)[k], p) <=> LacksIn(BodiesOf(events, k), p)
  BY <1>1 DEF PresenceHonest, PathsIn, BodiesOf, ShortIn, LacksIn
<1>5. QED
  BY <1>3, <1>4

(* Below the bounds on fields and items a field of a body is called        *)
(* optional exactly if another body of the same schema lacked it           *)
(* (SchemaInferrer, pipeline._infer_schemas).                              *)
THEOREM PresenceTheorem == Spec => []PresenceHonest
BY SaidInvariant, Honest, PTL

-----------------------------------------------------------------------------
(* The values typed.                                                       *)

(* What the probe of a page records reaches the log in the order in which  *)
(* it happened, however it is held back: every record of a page before the *)
(* later ones, and what is held after what is logged.                      *)
ByTurn(events) ==
    \A i, j \in DOMAIN events :
        i < j /\ FromProbe(events[i]) /\ FromProbe(events[j]) /\ events[i].page = events[j].page
            => events[i].turn < events[j].turn

InTurn ==
    /\ ByTurn(log)
    /\ \A p \in Pages :
          /\ ByTurn(held[p])
          /\ \A r \in ToSet(log), s \in ToSet(held[p]) :
                FromProbe(r) /\ r.page = p => r.turn < s.turn

LEMMA LoggedInTurn ==
    ASSUME LogInv, InTurn, HeldInv, NEW time,
           NEW events, events \in Seq(ToSet(events)), ByTurn(events),
           \A q \in Pages : held'[q] = held[q] \/ held'[q] = <<>>,
           \A e \in ToSet(events) :
              Complete(e) /\ (FromProbe(e) => e.page \in Pages /\ held'[e.page] = <<>>),
           \A r \in ToSet(log), e \in ToSet(events) :
              FromProbe(r) /\ FromProbe(e) /\ r.page = e.page => r.turn < e.turn,
           log' = Logged(events, time)
    PROVE  InTurn'
<1> DEFINE old == Len(log)
           new == Len(events)
<1>1. \A k \in DOMAIN events : events[k] \in ToSet(events) /\ Complete(events[k])
  BY DEF ToSet
<1>2. /\ old \in Nat /\ new \in Nat
      /\ DOMAIN log = 1..old /\ DOMAIN events = 1..new /\ DOMAIN log' = 1..old + new
      /\ \A i \in 1..old : log'[i] = log[i]
      /\ \A k \in 1..new : log'[old + k] = Stamp(events[k], old + k, time)
  BY <1>1, LoggedIs
<1> HIDE DEF old, new
<1>3. ASSUME NEW i \in 1..old + new, i \notin 1..old
      PROVE  /\ i - old \in DOMAIN events /\ events[i - old] \in ToSet(events)
             /\ Copy(log'[i], events[i - old])
  <2>1. PICK k : k = i - old
    OBVIOUS
  <2>2. k \in 1..new /\ i = old + k
    BY <1>2, <1>3, <2>1
  <2>3. log'[i] = Stamp(events[k], i, time)
    BY <1>2, <2>2
  <2>4. QED
    BY <1>1, <1>2, <2>1, <2>2, <2>3, StampCopies
<1>4. ASSUME NEW i \in DOMAIN log', NEW j \in DOMAIN log', i < j,
             FromProbe(log'[i]), FromProbe(log'[j]), log'[i].page = log'[j].page
      PROVE  log'[i].turn < log'[j].turn
  <2>1. CASE j \in 1..old
    <3>1. i \in 1..old
      BY <1>2, <1>4, <2>1
    <3>2. i \in DOMAIN log /\ j \in DOMAIN log /\ log'[i] = log[i] /\ log'[j] = log[j]
      BY <1>2, <2>1, <3>1
    <3>3. QED
      BY <1>4, <3>2 DEF InTurn, ByTurn
  <2>2. CASE i \in 1..old /\ j \notin 1..old
    <3>1. log'[i] = log[i] /\ log[i] \in ToSet(log)
      BY <1>2, <2>2 DEF ToSet
    <3>2. events[j - old] \in ToSet(events) /\ Copy(log'[j], events[j - old])
      BY <1>2, <1>3, <2>2
    <3>3. QED
      BY <1>4, <3>1, <3>2 DEF Copy, FromProbe
  <2>3. CASE i \notin 1..old
    <3>1. j \notin 1..old /\ i - old < j - old
      BY <1>2, <1>4, <2>3
    <3>2. /\ i - old \in DOMAIN events /\ Copy(log'[i], events[i - old])
          /\ j - old \in DOMAIN events /\ Copy(log'[j], events[j - old])
      BY <1>2, <1>3, <2>3, <3>1
    <3>3. QED
      BY <1>4, <3>1, <3>2 DEF Copy, FromProbe, ByTurn
  <2>4. QED
    BY <2>1, <2>2, <2>3
<1>5. ASSUME NEW p \in Pages
      PROVE  /\ ByTurn(held'[p])
             /\ \A r \in ToSet(log'), s \in ToSet(held'[p]) :
                   FromProbe(r) /\ r.page = p => r.turn < s.turn
  <2>1. CASE held'[p] = <<>>
    BY <2>1 DEF ByTurn, ToSet
  <2>2. CASE held'[p] = held[p] /\ held'[p] # <<>>
    <3>1. ASSUME NEW r \in ToSet(log'), FromProbe(r), r.page = p PROVE r \in ToSet(log)
      <4>1. PICK i \in DOMAIN log' : r = log'[i]
        BY DEF ToSet
      <4>2. ASSUME i \notin 1..old PROVE FALSE
        <5>1. events[i - old] \in ToSet(events) /\ Copy(r, events[i - old])
          BY <1>2, <1>3, <4>1, <4>2
        <5>2. held'[p] = <<>>
          BY <3>1, <5>1 DEF Copy, FromProbe
        <5>3. QED
          BY <2>2, <5>2
      <4>3. QED
        BY <1>2, <4>1, <4>2 DEF ToSet
    <3>2. QED
      BY <2>2, <3>1 DEF InTurn
  <2>3. QED
    BY <2>1, <2>2
<1>6. QED
  BY <1>4, <1>5 DEF InTurn, ByTurn

LEMMA AppendInTurn ==
    ASSUME NEW s, s \in Seq(ToSet(s)), ByTurn(s), NEW x,
           \A r \in ToSet(s) : FromProbe(r) /\ FromProbe(x) /\ r.page = x.page => r.turn < x.turn
    PROVE  ByTurn(Append(s, x))
<1> DEFINE n == Len(s)
           t == Append(s, x)
<1>1. n \in Nat /\ DOMAIN s = 1..n
  OBVIOUS
<1>2. /\ DOMAIN t = 1..n + 1
      /\ \A i \in 1..n : t[i] = s[i] /\ s[i] \in ToSet(s)
      /\ t[n + 1] = x
  BY <1>1 DEF ToSet
<1> HIDE DEF n, t
<1>3. ASSUME NEW i \in 1..n + 1, NEW j \in 1..n + 1, i < j,
             FromProbe(t[i]), FromProbe(t[j]), t[i].page = t[j].page
      PROVE  t[i].turn < t[j].turn
  <2>1. i \in 1..n /\ (j \in 1..n \/ j = n + 1)
    BY <1>1, <1>3
  <2>2. QED
    BY <1>1, <1>2, <1>3, <2>1 DEF ByTurn
<1>4. QED
  BY <1>2, <1>3 DEF ByTurn, t

LEMMA InitInTurn == Init => InTurn
<1> SUFFICES ASSUME Init PROVE InTurn
  OBVIOUS
<1>1. Regular(Sessions[session]) /\ log = Sessions[session].before
  BY SessionAssumption DEF Init
<1>2. \A i \in DOMAIN log : ~FromProbe(log[i])
  BY <1>1 DEF Regular, FromProbe
<1>3. \A p \in Pages : held[p] = <<>>
  BY DEF Init
<1>4. QED
  BY <1>2, <1>3 DEF InTurn, ByTurn, ToSet

LEMMA NextInTurn == TimelineInv /\ InTurn /\ [Next]_vars => InTurn'
<1> SUFFICES ASSUME TimelineInv, InTurn, [Next]_vars PROVE InTurn'
  OBVIOUS
<1>1. LogInv /\ HeldInv /\ turn \in Nat /\ DOMAIN held = Pages
  BY DEF TimelineInv, TimeInv
<1>2. ASSUME log' = log, held' = held PROVE InTurn'
  BY <1>2 DEF InTurn, ByTurn
<1>3. \A r \in ToSet(log) : FromProbe(r) => r.turn \in Nat /\ r.turn <= turn
  BY LoggedIsKnown DEF RecordOK
<1>4. ASSUME NEW p \in Pages
      PROVE  /\ held[p] \in Seq(ToSet(held[p])) /\ ByTurn(held[p])
             /\ \A r \in ToSet(held[p]) : /\ Complete(r) /\ FromProbe(r) /\ r.page = p
                                          /\ r.turn \in Nat /\ r.turn <= turn
             /\ \A r \in ToSet(log), s \in ToSet(held[p]) :
                   FromProbe(r) /\ r.page = p => r.turn < s.turn
  BY HeldIsYoung DEF RecordOK, InTurn
(* What a page holds is logged, with one event more. *)
<1>5. ASSUME NEW p \in Pages, NEW e, Complete(e), e.page = p, e.turn = turn + 1, NEW time,
             held' = [held EXCEPT ![p] = <<>>], log' = Logged(Append(held[p], e), time)
      PROVE  InTurn'
  <2>1. held[p] \in Seq(ToSet(held[p])) /\ ByTurn(held[p])
    BY <1>4
  <2>2. PICK events : /\ events = Append(held[p], e) /\ events \in Seq(ToSet(events))
                      /\ ToSet(events) = ToSet(held[p]) \cup {e}
    BY <2>1, AppendIs
  <2>3. \A r \in ToSet(held[p]) : r.turn < e.turn
    BY <1>1, <1>4, <1>5
  <2>4. ByTurn(events)
    BY <2>1, <2>2, <2>3, AppendInTurn
  <2>5. held'[p] = <<>> /\ \A q \in Pages : held'[q] = held[q] \/ held'[q] = <<>>
    BY <1>1, <1>5
  <2>6. \A x \in ToSet(events) :
            Complete(x) /\ (FromProbe(x) => x.page \in Pages /\ held'[x.page] = <<>>)
    BY <1>4, <1>5, <2>2, <2>5
  <2>7. \A r \in ToSet(log), x \in ToSet(events) :
            FromProbe(r) /\ FromProbe(x) /\ r.page = x.page => r.turn < x.turn
    <3>1. \A r \in ToSet(log) : FromProbe(r) => r.turn < e.turn
      BY <1>1, <1>3, <1>5
    <3>2. QED
      BY <1>4, <2>2, <3>1
  <2>8. log' = Logged(events, time)
    BY <1>5, <2>2
  <2>9. QED
    BY <1>1, <2>2, <2>4, <2>5, <2>6, <2>7, <2>8, LoggedInTurn
(* One event that is not a probe's is logged. *)
<1>6. ASSUME NEW e, Complete(e), ~FromProbe(e), NEW time, held' = held,
             log' = Logged(<<e>>, time)
      PROVE  InTurn'
  <2>1. PICK events : events = <<e>> /\ events \in Seq(ToSet(events)) /\ ToSet(events) = {e}
    BY OneEvent
  <2>2. ByTurn(events)
    BY <1>6, <2>1 DEF ByTurn, ToSet
  <2>3. \A x \in ToSet(events) : Complete(x) /\ ~FromProbe(x)
    BY <1>6, <2>1
  <2>4. log' = Logged(events, time) /\ \A q \in Pages : held'[q] = held[q] \/ held'[q] = <<>>
    BY <1>6, <2>1
  <2>5. QED
    BY <1>1, <2>1, <2>2, <2>3, <2>4, LoggedInTurn
<1>7. ASSUME NEW a \in Sessions[session].acts, NEW d \in Sessions[session].lapses,
             Observe(a, d) \/ Tell(a, d) \/ Ask(a, d) \/ Load(a, d)
      PROVE  InTurn'
  <2> DEFINE p == a.page
  <2>1. /\ p \in Pages /\ d \in Nat /\ Complete(a.event)
        /\ a.event.source = "runtime" <=> a.channel \in Worlds
    BY SessionAssumption DEF TimelineInv, TimeInv, Regular
  <2>2. CASE Observe(a, d)
    <3>1. PICK e : e = Recorded(a, now + d)
      OBVIOUS
    <3>2. Complete(e) /\ e.page = p /\ e.turn = turn + 1
      BY <2>1, <3>1, RecordedIs
    <3>3. CASE held' = [held EXCEPT ![p] = <<>>]
               /\ log' = Logged(Append(held[p], e), now + d)
      BY <1>5, <2>1, <3>2, <3>3
    <3>4. CASE held' = [held EXCEPT ![p] = Append(held[p], e)] /\ log' = log
      <4>1. /\ held'[p] = Append(held[p], e)
            /\ \A q \in Pages : q # p => held'[q] = held[q]
        BY <1>1, <2>1, <3>4
      <4>2. held[p] \in Seq(ToSet(held[p])) /\ ByTurn(held[p])
        BY <1>4, <2>1
      <4>3. \A r \in ToSet(held[p]) : r.turn < e.turn
        BY <1>1, <1>4, <2>1, <3>2
      <4>4. ByTurn(held'[p])
        BY <4>1, <4>2, <4>3, AppendInTurn
      <4>5. ToSet(held'[p]) = ToSet(held[p]) \cup {e}
        BY <4>1, <4>2, AppendIs
      <4>6. \A r \in ToSet(log) : FromProbe(r) => r.turn < e.turn
        BY <1>1, <1>3, <3>2
      <4>7. \A r \in ToSet(log'), s \in ToSet(held'[p]) :
                FromProbe(r) /\ r.page = p => r.turn < s.turn
        BY <1>4, <2>1, <3>4, <4>5, <4>6
      <4>8. ASSUME NEW q \in Pages
            PROVE  /\ ByTurn(held'[q])
                   /\ \A r \in ToSet(log'), s \in ToSet(held'[q]) :
                         FromProbe(r) /\ r.page = q => r.turn < s.turn
        <5>1. CASE q = p
          BY <4>4, <4>7, <5>1
        <5>2. CASE q # p
          BY <1>4, <3>4, <4>1, <5>2
        <5>3. QED
          BY <5>1, <5>2
      <4>9. ByTurn(log')
        BY <3>4 DEF InTurn
      <4>10. QED
        BY <4>8, <4>9 DEF InTurn, ByTurn
    <3>5. QED
      BY <2>2, <3>1, <3>3, <3>4 DEF Observe
  <2>3. CASE Tell(a, d)
    <3>1. PICK e : e = [Happened(a, now + d) EXCEPT !.doc = doc[a.page]]
      OBVIOUS
    <3>2. Complete(e) /\ e.source = a.event.source
      BY <2>1, <3>1, HappenedIs DEF Complete, Fields
    <3>3. a.channel \notin Worlds
      BY <2>3, NotWorlds DEF Tell
    <3>4. ~FromProbe(e)
      BY <2>1, <3>2, <3>3 DEF FromProbe
    <3>5. log' = Logged(<<e>>, now + d) /\ held' = held
      BY <2>3, <3>1 DEF Tell
    <3>6. QED
      BY <1>6, <3>2, <3>4, <3>5
  <2>4. CASE Ask(a, d)
    BY <1>2, <2>4 DEF Ask
  <2>5. CASE Load(a, d)
    <3>1. PICK e : e = Happened(a, now + d)
      OBVIOUS
    <3>2. Complete(e) /\ e.page = p /\ e.turn = turn + 1
      BY <2>1, <3>1, HappenedIs
    <3>3. held[p] \o <<e>> = Append(held[p], e)
      BY <1>4, <2>1
    <3>4. held' = [held EXCEPT ![p] = <<>>] /\ log' = Logged(Append(held[p], e), now + d)
      BY <2>5, <3>1, <3>3 DEF Load
    <3>5. QED
      BY <1>5, <2>1, <3>2, <3>4
  <2>6. QED
    BY <1>7, <2>2, <2>3, <2>4, <2>5
<1>8. ASSUME NEW p \in Pages, Timer(p) PROVE InTurn'
  <2>1. PICK events : events = held[p]
    OBVIOUS
  <2>2. log' = Logged(events, now') /\ held' = [held EXCEPT ![p] = <<>>]
    BY <1>8, <2>1 DEF Timer
  <2>3. held'[p] = <<>> /\ \A q \in Pages : held'[q] = held[q] \/ held'[q] = <<>>
    BY <1>1, <2>2
  <2>4. /\ events \in Seq(ToSet(events)) /\ ByTurn(events)
        /\ \A e \in ToSet(events) :
               Complete(e) /\ (FromProbe(e) => e.page \in Pages /\ held'[e.page] = <<>>)
        /\ \A r \in ToSet(log), e \in ToSet(events) :
              FromProbe(r) /\ FromProbe(e) /\ r.page = e.page => r.turn < e.turn
    BY <1>4, <2>1, <2>3
  <2>5. QED
    BY <1>1, <2>2, <2>3, <2>4, LoggedInTurn
<1>9. ASSUME NEW e \in waiting, Finish(e) PROVE InTurn'
  <2>1. Complete(e) /\ ~FromProbe(e)
    BY DEF TimelineInv, TimeInv
  <2>2. QED
    BY <1>6, <1>9, <2>1 DEF Finish
<1>10. ASSUME UNCHANGED vars PROVE InTurn'
  BY <1>2, <1>10 DEF vars
<1>11. QED
  BY <1>7, <1>8, <1>9, <1>10 DEF Next

(* The records of a page's probe are logged in the order they were made.   *)
THEOREM TurnsInvariant == Spec => [](TimelineInv /\ SaidInv /\ InTurn)
<1>1. Init => TimelineInv /\ SaidInv /\ InTurn
  BY InitTimeline, InitSaid, InitInTurn
<1>2. TimelineInv /\ SaidInv /\ InTurn /\ [Next]_vars => (TimelineInv /\ SaidInv /\ InTurn)'
  BY NextTimeline, NextSaid, NextInTurn
<1>3. QED
  BY <1>1, <1>2, PTL DEF Spec

-----------------------------------------------------------------------------
(* The catalog of forms.                                                   *)

(* A catalog's entries and controls have what is kept of them.             *)
IsEntry(entry) ==
    /\ "controls" \in DOMAIN entry
    /\ \A ck \in DOMAIN entry.controls : "final" \in DOMAIN entry.controls[ck]

IsCatalog(catalog) == \A key \in DOMAIN catalog : IsEntry(catalog[key])

Bears(entry, ck, v) == ck \in DOMAIN entry.controls /\ entry.controls[ck].final = v

(* What a description leaves of the value of a control.                    *)
Leaves(source, f, ck) ==
    \/ ControlKey(f) # ck
    \/ /\ f.type # "radio"
       /\ source = "submission" \/ (source = "input" /\ f.value = NoValue /\ ~f.secret)

Origins == {"scan", "input", "submission"}

LEMMA RadioIs == ASSUME NEW c, NEW f PROVE DOMAIN Radio(c, f) = DOMAIN c
BY DEF Radio

LEMMA CheckboxIs ==
    ASSUME NEW c, "final" \in DOMAIN c, NEW f
    PROVE  DOMAIN Checkbox(c, f) = DOMAIN c /\ Checkbox(c, f).final = c.final
BY DEF Checkbox

LEMMA SeededIs == ASSUME NEW c, NEW f, "final" \in DOMAIN c PROVE "final" \in DOMAIN Seeded(c, f)
<1> DEFINE marked == [c EXCEPT !.secret = @ \/ f.secret]
<1>1. "final" \in DOMAIN marked
  OBVIOUS
<1>2. CASE f.type = "radio"
  <2>1. Seeded(c, f) = Radio(c, f)
    BY <1>2 DEF Seeded
  <2>2. QED
    BY <2>1, RadioIs
<1>3. CASE f.type = "checkbox"
  <2>1. Seeded(c, f) = Checkbox(marked, f)
    BY <1>3 DEF Seeded
  <2> HIDE DEF marked
  <2>2. QED
    BY <1>1, <2>1, CheckboxIs
<1>4. CASE f.type \notin {"radio", "checkbox"}
  <2>1. Seeded(c, f) =
            [marked EXCEPT !.checked = f.checked,
                           !.options = IF f.options = {} THEN @
                                       ELSE [v \in f.options |-> v = f.chosen],
                           !.complete = @ \/ f.options # {},
                           !.selected = IF f.chosen = NoValue THEN @ ELSE f.chosen,
                           !.final = IF @ = NoValue THEN f.value ELSE @]
    BY <1>4 DEF Seeded
  <2> HIDE DEF marked
  <2>2. QED
    BY <1>1, <2>1
<1>5. QED
  BY <1>2, <1>3, <1>4

(* An operator's value, and what leaves a value as it is.                  *)
LEMMA ValuedIs ==
    ASSUME NEW c, NEW f, "final" \in DOMAIN c
    PROVE  /\ "final" \in DOMAIN Valued(c, f)
           /\ f.type # "radio" /\ f.value = NoValue /\ ~f.secret => Valued(c, f).final = c.final
           /\ f.type = "text" /\ f.value # NoValue /\ ~f.secret => Valued(c, f).final = f.value
<1>1. CASE f.type = "radio"
  <2>1. Valued(c, f) = Radio(c, f)
    BY <1>1 DEF Valued
  <2>2. QED
    BY <1>1, <2>1, RadioIs
<1>2. CASE f.type # "radio" /\ f.secret
  <2>1. Valued(c, f) = [c EXCEPT !.secret = TRUE, !.final = NoValue]
    BY <1>2 DEF Valued
  <2>2. QED
    BY <1>2, <2>1
<1>3. CASE f.type = "checkbox" /\ ~f.secret
  <2>1. Valued(c, f) = Checkbox(c, f)
    BY <1>3 DEF Valued
  <2>2. QED
    BY <1>3, <2>1, CheckboxIs
<1>4. CASE f.type \notin {"radio", "checkbox"} /\ ~f.secret
  <2>1. Valued(c, f) = [c EXCEPT !.checked = f.checked,
                                 !.selected = IF f.chosen = NoValue THEN @ ELSE f.chosen,
                                 !.final = IF f.value = NoValue THEN @ ELSE f.value]
    BY <1>4 DEF Valued
  <2>2. QED
    BY <1>4, <2>1
<1>5. QED
  BY <1>1, <1>2, <1>3, <1>4

LEMMA SubmittedIs ==
    ASSUME NEW c, NEW f, "final" \in DOMAIN c
    PROVE  /\ "final" \in DOMAIN Submitted(c, f)
           /\ f.type # "radio" /\ c.final # NoValue => Submitted(c, f).final = c.final
<1>1. CASE f.type = "radio"
  <2>1. Submitted(c, f) = Radio(c, f)
    BY <1>1 DEF Submitted
  <2>2. QED
    BY <1>1, <2>1, RadioIs
<1>2. CASE f.type # "radio" /\ f.secret
  <2>1. Submitted(c, f) = [c EXCEPT !.secret = TRUE]
    BY <1>2 DEF Submitted
  <2>2. QED
    BY <1>2, <2>1
<1>3. CASE f.type = "checkbox" /\ ~f.secret
  <2>1. Submitted(c, f) = Checkbox(c, f)
    BY <1>3 DEF Submitted
  <2>2. QED
    BY <1>3, <2>1, CheckboxIs
<1>4. CASE f.type \notin {"radio", "checkbox"} /\ ~f.secret
  <2>1. Submitted(c, f) = [c EXCEPT !.final = IF @ = NoValue THEN f.value ELSE @]
    BY <1>4 DEF Submitted
  <2>2. QED
    BY <1>4, <2>1
<1>5. QED
  BY <1>1, <1>2, <1>3, <1>4

LEMMA FromSourceIs ==
    ASSUME NEW c, NEW f, "final" \in DOMAIN c, NEW source \in Origins
    PROVE  /\ "final" \in DOMAIN FromSource(source, c, f)
           /\ c.final # NoValue /\ Leaves(source, f, ControlKey(f))
                  => FromSource(source, c, f).final = c.final
           /\ source = "input" /\ f.type = "text" /\ f.value # NoValue /\ ~f.secret
                  => FromSource(source, c, f).final = f.value
<1>1. CASE source = "scan"
  BY <1>1, SeededIs DEF FromSource, Leaves
<1>2. CASE source = "input"
  BY <1>2, ValuedIs DEF FromSource, Leaves
<1>3. CASE source = "submission"
  BY <1>3, SubmittedIs DEF FromSource, Leaves
<1>4. QED
  BY <1>1, <1>2, <1>3 DEF Origins

LEMMA DescribeIs ==
    ASSUME NEW entry, IsEntry(entry), NEW f, NEW source \in Origins
    PROVE  /\ IsEntry(Describe(entry, f, source))
           /\ \A ck, v : v # NoValue /\ Bears(entry, ck, v) /\ Leaves(source, f, ck)
                  => Bears(Describe(entry, f, source), ck, v)
           /\ source = "input" /\ f.type = "text" /\ f.value # NoValue /\ ~f.secret
                  => ControlKey(f) = NoControl \/ Bears(Describe(entry, f, source), ControlKey(f), f.value)
<1> DEFINE after == Describe(entry, f, source)
<1>1. CASE ControlKey(f) = NoControl
  <2>1. after = entry
    BY <1>1 DEF Describe
  <2> HIDE DEF after
  <2>2. QED
    BY <1>1, <2>1 DEF after
<1>2. CASE ControlKey(f) # NoControl
  <2>1. PICK key : key = ControlKey(f)
    OBVIOUS
  <2>2. PICK c : c = ControlOf(entry, key)
    OBVIOUS
  <2>3. PICK told : told = FromSource(source, c, f)
    OBVIOUS
  <2>4. "final" \in DOMAIN c /\ (key \in DOMAIN entry.controls => c = entry.controls[key])
    BY <2>2 DEF ControlOf, NewControl, IsEntry
  <2>5. /\ "final" \in DOMAIN told
        /\ c.final # NoValue /\ Leaves(source, f, key) => told.final = c.final
        /\ source = "input" /\ f.type = "text" /\ f.value # NoValue /\ ~f.secret
               => told.final = f.value
    BY <2>1, <2>3, <2>4, FromSourceIs
  <2>6. after = [entry EXCEPT !.controls = Put(@, key, told)]
    BY <1>2, <2>1, <2>2, <2>3 DEF Describe
  <2>7. "controls" \in DOMAIN after /\ after.controls = Put(entry.controls, key, told)
    BY <2>6 DEF IsEntry
  <2> HIDE DEF after
  <2>8. /\ DOMAIN after.controls = DOMAIN entry.controls \cup {key}
        /\ after.controls[key] = told
        /\ \A ck \in DOMAIN entry.controls : ck # key => after.controls[ck] = entry.controls[ck]
    BY <2>7 DEF Put
  <2>9. IsEntry(after)
    BY <2>5, <2>7, <2>8 DEF IsEntry
  <2>10. ASSUME NEW ck, NEW v, v # NoValue, Bears(entry, ck, v), Leaves(source, f, ck)
         PROVE  Bears(after, ck, v)
    <3>1. CASE ck = key
      BY <2>4, <2>5, <2>8, <2>10, <3>1 DEF Bears
    <3>2. CASE ck # key
      BY <2>8, <2>10, <3>2 DEF Bears
    <3>3. QED
      BY <3>1, <3>2
  <2>11. source = "input" /\ f.type = "text" /\ f.value # NoValue /\ ~f.secret
             => Bears(after, key, f.value)
    BY <2>5, <2>8 DEF Bears
  <2>12. QED
    <3>1. ControlKey(f) = key
      BY <2>1
    <3>2. IsEntry(Describe(entry, f, source))
      BY <2>9 DEF after
    <3>3. \A ck, v : v # NoValue /\ Bears(entry, ck, v) /\ Leaves(source, f, ck)
             => Bears(Describe(entry, f, source), ck, v)
      BY <2>10 DEF after
    <3>4. source = "input" /\ f.type = "text" /\ f.value # NoValue /\ ~f.secret
             => Bears(Describe(entry, f, source), ControlKey(f), f.value)
      BY <2>11, <3>1 DEF after
    <3>5. QED
      BY <3>2, <3>3, <3>4
<1>3. QED
  BY <1>1, <1>2

LEMMA AllDescribed ==
    ASSUME NEW entry, IsEntry(entry), NEW fields, IsList(fields), NEW source \in Origins
    PROVE  /\ IsEntry(DescribeAll(entry, fields, source))
           /\ \A ck, v : v # NoValue /\ Bears(entry, ck, v)
                         /\ (\A f \in ToSet(fields) : Leaves(source, f, ck))
                  => Bears(DescribeAll(entry, fields, source), ck, v)
<1> DEFINE n == Len(fields)
           start == entry
           To(h, j) == h = [i \in 0..j |-> IF i = 0 THEN start ELSE Describe(h[i - 1], fields[i], source)]
           Some == {j \in 0..n : \E h : To(h, j)}
           chosen == CHOOSE h : To(h, n)
<1>1. DescribeAll(entry, fields, source) = chosen[n]
  BY Zenon DEF DescribeAll
<1>2. n \in Nat
  BY DEF IsList
<1>3. DOMAIN fields = 1..n
  BY DEF IsList
<1> DEFINE Lasts(ck, v) == v # NoValue /\ Bears(entry, ck, v)
                          /\ \A f \in ToSet(fields) : Leaves(source, f, ck)
<1> HIDE DEF n, start
<1>4. 0 \in Some
  <2>1. To([i \in 0..0 |-> start], 0)
    OBVIOUS
  <2> HIDE DEF To
  <2>2. 0 \in 0..n
    BY <1>2
  <2>3. QED
    BY <2>1, <2>2
<1>5. ASSUME NEW j \in 1..n, j - 1 \in Some PROVE j \in Some
  <2>1. PICK g : To(g, j - 1)
    BY <1>5
  <2> DEFINE k == [i \in 0..j |-> IF i = j THEN Describe(g[j - 1], fields[j], source) ELSE g[i]]
  <2>2. ASSUME NEW i \in 0..j
        PROVE  k[i] = IF i = 0 THEN start ELSE Describe(k[i - 1], fields[i], source)
    <3>1. CASE i = j
      BY <1>2, <3>1
    <3>2. CASE i # j
      <4>1. i \in 0..(j - 1)
        BY <1>2, <3>2
      <4>2. g[i] = IF i = 0 THEN start ELSE Describe(g[i - 1], fields[i], source)
        BY <2>1, <4>1
      <4>3. k[i] = g[i] /\ (i # 0 => k[i - 1] = g[i - 1])
        BY <1>2, <3>2, <4>1
      <4>4. QED
        BY <4>2, <4>3
    <3>3. QED
      BY <3>1, <3>2
  <2>3. k = [i \in 0..j |-> k[i]]
    OBVIOUS
  <2> HIDE DEF k
  <2>4. To(k, j)
    BY <2>2, <2>3
  <2> HIDE DEF To
  <2>5. j \in 0..n
    BY <1>2
  <2>6. QED
    BY <2>4, <2>5
<1>6. To(chosen, n)
  <2>1. \E h : To(h, n)
    <3> HIDE DEF Some
    <3>1. \A i \in 1..n : i - 1 \in Some => i \in Some
      BY <1>5
    <3>2. \A i \in 0..n : i \in Some
      BY <1>2, <1>4, <3>1, Climb
    <3>3. n \in Some
      BY <1>2, <3>2
    <3> HIDE DEF To
    <3>4. QED
      BY <3>3 DEF Some
  <2> HIDE DEF To
  <2>2. QED
    BY <2>1
<1> HIDE DEF chosen
<1>7. chosen[0] = start /\ \A i \in 1..n : chosen[i] = Describe(chosen[i - 1], fields[i], source)
  BY <1>2, <1>6
<1> DEFINE Good == {i \in 0..n : IsEntry(chosen[i]) /\ \A ck, v : Lasts(ck, v) => Bears(chosen[i], ck, v)}
<1> HIDE DEF Lasts
<1>8. \A i \in 0..n : i \in Good
  <2>1. 0 \in Good
    BY <1>2, <1>7 DEF start, Lasts
  <2>2. \A i \in 1..n : i - 1 \in Good => i \in Good
    <3>1. ASSUME NEW i \in 1..n, IsEntry(chosen[i - 1]),
                 \A ck, v : Lasts(ck, v) => Bears(chosen[i - 1], ck, v)
          PROVE  IsEntry(chosen[i]) /\ \A ck, v : Lasts(ck, v) => Bears(chosen[i], ck, v)
      <4>1. PICK f : f = fields[i] /\ f \in ToSet(fields)
        BY <1>3 DEF ToSet
      <4>2. chosen[i] = Describe(chosen[i - 1], f, source)
        BY <1>7, <4>1
      <4>3. /\ IsEntry(chosen[i])
            /\ \A ck, v : v # NoValue /\ Bears(chosen[i - 1], ck, v) /\ Leaves(source, f, ck)
                   => Bears(chosen[i], ck, v)
        BY <3>1, <4>2, DescribeIs
      <4>4. QED
        BY <3>1, <4>1, <4>3 DEF Lasts
    <3>2. QED
      BY <1>2, <3>1
  <2> HIDE DEF Good
  <2>3. QED
    BY <1>2, <2>1, <2>2, Climb
<1>9. QED
  <2>1. IsEntry(chosen[n]) /\ \A ck, v : Lasts(ck, v) => Bears(chosen[n], ck, v)
    BY <1>2, <1>8
  <2> HIDE DEF Good
  <2>2. QED
    BY <1>1, <2>1 DEF Lasts

LEMMA EntryIs ==
    ASSUME NEW catalog, IsCatalog(catalog), NEW key, NEW seqs
    PROVE  /\ IsEntry(EntryOf(catalog, key)) /\ IsEntry(Cite(EntryOf(catalog, key), seqs))
           /\ Cite(EntryOf(catalog, key), seqs).controls = EntryOf(catalog, key).controls
<1>1. PICK entry : entry = EntryOf(catalog, key)
  OBVIOUS
<1>2. IsEntry(entry)
  BY <1>1 DEF IsCatalog, EntryOf, NewEntry, IsEntry
<1>3. Cite(entry, seqs).controls = entry.controls /\ "controls" \in DOMAIN Cite(entry, seqs)
  BY <1>2 DEF IsEntry, Cite
<1>4. IsEntry(Cite(entry, seqs))
  BY <1>2, <1>3 DEF IsEntry
<1>5. QED
  BY <1>1, <1>2, <1>3, <1>4

LEMMA PutIs ==
    ASSUME NEW catalog, IsCatalog(catalog), NEW key, NEW entry, IsEntry(entry)
    PROVE  IsCatalog(Put(catalog, key, entry))
BY DEF Put, IsCatalog

LEMMA FormScanned ==
    ASSUME NEW catalog, IsCatalog(catalog), NEW e, NEW form, IsList(form.fields)
    PROVE  IsCatalog(ScannedForm(catalog, e, form))
<1>1. PICK key : key = Occurrence(e, FormIdentity(form))
  OBVIOUS
<1>2. PICK entry : entry = Cite(EntryOf(catalog, key), {e.seq})
  OBVIOUS
<1>3. PICK after : after = DescribeAll(entry, form.fields, "scan")
  OBVIOUS
<1>4. IsEntry(entry)
  BY <1>2, EntryIs
<1>5. IsEntry(after)
  BY <1>3, <1>4, AllDescribed DEF Origins
<1>6. ScannedForm(catalog, e, form) = Put(catalog, key, after)
  BY <1>1, <1>2, <1>3, Zenon DEF ScannedForm
<1>7. IsCatalog(Put(catalog, key, after))
  BY <1>5, PutIs
<1>8. QED
  BY <1>6, <1>7

LEMMA ScanIs ==
    ASSUME NEW catalog, IsCatalog(catalog), NEW e, Carrying(e)
    PROVE  IsCatalog(Scanned(catalog, e))
<1> DEFINE n == Len(e.forms)
           start == catalog
           To(h, j) == h = [i \in 0..j |-> IF i = 0 THEN start ELSE ScannedForm(h[i - 1], e, e.forms[i])]
           Some == {j \in 0..n : \E h : To(h, j)}
           chosen == CHOOSE h : To(h, n)
<1>1. Scanned(catalog, e) = chosen[n]
  BY Zenon DEF Scanned
<1>2. n \in Nat /\ DOMAIN e.forms = 1..n
  BY DEF Carrying
<1>3. IsCatalog(start)
  BY DEF IsCatalog
<1> HIDE DEF n, start
<1>4. 0 \in Some
  <2>1. To([i \in 0..0 |-> start], 0)
    OBVIOUS
  <2> HIDE DEF To
  <2>2. 0 \in 0..n
    BY <1>2
  <2>3. QED
    BY <2>1, <2>2
<1>5. ASSUME NEW j \in 1..n, j - 1 \in Some PROVE j \in Some
  <2>1. PICK g : To(g, j - 1)
    BY <1>5
  <2> DEFINE k == [i \in 0..j |-> IF i = j THEN ScannedForm(g[j - 1], e, e.forms[j]) ELSE g[i]]
  <2>2. ASSUME NEW i \in 0..j
        PROVE  k[i] = IF i = 0 THEN start ELSE ScannedForm(k[i - 1], e, e.forms[i])
    <3>1. CASE i = j
      BY <1>2, <3>1
    <3>2. CASE i # j
      <4>1. i \in 0..(j - 1)
        BY <1>2, <3>2
      <4>2. g[i] = IF i = 0 THEN start ELSE ScannedForm(g[i - 1], e, e.forms[i])
        BY <2>1, <4>1
      <4>3. k[i] = g[i] /\ (i # 0 => k[i - 1] = g[i - 1])
        BY <1>2, <3>2, <4>1
      <4>4. QED
        BY <4>2, <4>3
    <3>3. QED
      BY <3>1, <3>2
  <2>3. k = [i \in 0..j |-> k[i]]
    OBVIOUS
  <2> HIDE DEF k
  <2>4. To(k, j)
    BY <2>2, <2>3
  <2> HIDE DEF To
  <2>5. j \in 0..n
    BY <1>2
  <2>6. QED
    BY <2>4, <2>5
<1>6. To(chosen, n)
  <2>1. \E h : To(h, n)
    <3> HIDE DEF Some
    <3>1. \A i \in 1..n : i - 1 \in Some => i \in Some
      BY <1>5
    <3>2. \A i \in 0..n : i \in Some
      BY <1>2, <1>4, <3>1, Climb
    <3>3. n \in Some
      BY <1>2, <3>2
    <3> HIDE DEF To
    <3>4. QED
      BY <3>3 DEF Some
  <2> HIDE DEF To
  <2>2. QED
    BY <2>1
<1> HIDE DEF chosen
<1>7. chosen[0] = start /\ \A i \in 1..n : chosen[i] = ScannedForm(chosen[i - 1], e, e.forms[i])
  BY <1>2, <1>6
<1> DEFINE Good == {i \in 0..n : IsCatalog(chosen[i])}
<1>8. \A i \in 0..n : i \in Good
  <2>1. 0 \in Good
    BY <1>2, <1>3, <1>7
  <2>2. \A i \in 1..n : i - 1 \in Good => i \in Good
    <3>1. ASSUME NEW i \in 1..n, IsCatalog(chosen[i - 1]) PROVE IsCatalog(chosen[i])
      <4>1. PICK form : form = e.forms[i] /\ form \in ToSet(e.forms)
        BY <1>2 DEF ToSet
      <4>2. IsList(form.fields)
        BY <4>1 DEF Carrying, IsList
      <4>3. chosen[i] = ScannedForm(chosen[i - 1], e, form)
        BY <1>7, <4>1
      <4>4. QED
        BY <3>1, <4>2, <4>3, FormScanned
    <3>2. QED
      BY <1>2, <3>1
  <2> HIDE DEF Good
  <2>3. QED
    BY <1>2, <2>1, <2>2, Climb
<1>9. QED
  <2>1. IsCatalog(chosen[n])
    BY <1>2, <1>8
  <2> HIDE DEF Good
  <2>2. QED
    BY <1>1, <2>1

LEMMA ScansAre ==
    ASSUME NEW scans, IsList(scans), \A i \in DOMAIN scans : Carrying(scans[i])
    PROVE  IsCatalog(ScannedAll(scans))
<1> DEFINE n == Len(scans)
           start == <<>>
           To(h, j) == h = [i \in 0..j |-> IF i = 0 THEN start ELSE Scanned(h[i - 1], scans[i])]
           Some == {j \in 0..n : \E h : To(h, j)}
           chosen == CHOOSE h : To(h, n)
<1>1. ScannedAll(scans) = chosen[n]
  BY Zenon DEF ScannedAll
<1>2. n \in Nat /\ DOMAIN scans = 1..n
  BY DEF IsList
<1>3. IsCatalog(start)
  BY DEF IsCatalog
<1> HIDE DEF n, start
<1>4. 0 \in Some
  <2>1. To([i \in 0..0 |-> start], 0)
    OBVIOUS
  <2> HIDE DEF To
  <2>2. 0 \in 0..n
    BY <1>2
  <2>3. QED
    BY <2>1, <2>2
<1>5. ASSUME NEW j \in 1..n, j - 1 \in Some PROVE j \in Some
  <2>1. PICK g : To(g, j - 1)
    BY <1>5
  <2> DEFINE k == [i \in 0..j |-> IF i = j THEN Scanned(g[j - 1], scans[j]) ELSE g[i]]
  <2>2. ASSUME NEW i \in 0..j
        PROVE  k[i] = IF i = 0 THEN start ELSE Scanned(k[i - 1], scans[i])
    <3>1. CASE i = j
      BY <1>2, <3>1
    <3>2. CASE i # j
      <4>1. i \in 0..(j - 1)
        BY <1>2, <3>2
      <4>2. g[i] = IF i = 0 THEN start ELSE Scanned(g[i - 1], scans[i])
        BY <2>1, <4>1
      <4>3. k[i] = g[i] /\ (i # 0 => k[i - 1] = g[i - 1])
        BY <1>2, <3>2, <4>1
      <4>4. QED
        BY <4>2, <4>3
    <3>3. QED
      BY <3>1, <3>2
  <2>3. k = [i \in 0..j |-> k[i]]
    OBVIOUS
  <2> HIDE DEF k
  <2>4. To(k, j)
    BY <2>2, <2>3
  <2> HIDE DEF To
  <2>5. j \in 0..n
    BY <1>2
  <2>6. QED
    BY <2>4, <2>5
<1>6. To(chosen, n)
  <2>1. \E h : To(h, n)
    <3> HIDE DEF Some
    <3>1. \A i \in 1..n : i - 1 \in Some => i \in Some
      BY <1>5
    <3>2. \A i \in 0..n : i \in Some
      BY <1>2, <1>4, <3>1, Climb
    <3>3. n \in Some
      BY <1>2, <3>2
    <3> HIDE DEF To
    <3>4. QED
      BY <3>3 DEF Some
  <2> HIDE DEF To
  <2>2. QED
    BY <2>1
<1> HIDE DEF chosen
<1>7. chosen[0] = start /\ \A i \in 1..n : chosen[i] = Scanned(chosen[i - 1], scans[i])
  BY <1>2, <1>6
<1> DEFINE Good == {i \in 0..n : IsCatalog(chosen[i])}
<1>8. \A i \in 0..n : i \in Good
  <2>1. 0 \in Good
    BY <1>2, <1>3, <1>7
  <2>2. \A i \in 1..n : i - 1 \in Good => i \in Good
    <3>1. ASSUME NEW i \in 1..n, IsCatalog(chosen[i - 1]) PROVE IsCatalog(chosen[i])
      <4>1. PICK e : e = scans[i] /\ Carrying(e)
        BY <1>2
      <4>2. chosen[i] = Scanned(chosen[i - 1], e)
        BY <1>7, <4>1
      <4>3. QED
        BY <3>1, <4>1, <4>2, ScanIs
    <3>2. QED
      BY <1>2, <3>1
  <2> HIDE DEF Good
  <2>3. QED
    BY <1>2, <2>1, <2>2, Climb
<1>9. QED
  <2>1. IsCatalog(chosen[n])
    BY <1>2, <1>8
  <2> HIDE DEF Good
  <2>2. QED
    BY <1>1, <2>1

(* What the operator puts in, where it is kept, and what leaves it there.  *)
PlaceOf(e) == Occurrence(e, FormIdentity(OwnForm(e)))
KeyTyped(e) == ControlKey(e.fields[1])

TypesText(e) ==
    /\ e.type \in ValueTypes /\ e.fields[1].type = "text"
    /\ e.fields[1].value # NoValue /\ ~e.fields[1].secret
    /\ ControlKey(e.fields[1]) # NoControl

Tells(x, f) == f.type = "radio" \/ (x.type \in ValueTypes /\ (f.value # NoValue \/ f.secret))

Spares(x, e) ==
    PlaceOf(x) = PlaceOf(e)
        => \A f \in ToSet(x.fields) : ControlKey(f) = KeyTyped(e) => ~Tells(x, f)

Listed(catalog, e) ==
    /\ PlaceOf(e) \in DOMAIN catalog
    /\ Bears(catalog[PlaceOf(e)], KeyTyped(e), e.fields[1].value)

Act(e) == /\ e.type \in ValueTypes \cup SubmitTypes /\ IsList(e.fields)
          /\ e.type \in ValueTypes => Len(e.fields) = 1

LEMMA TypedIs ==
    ASSUME NEW catalog, IsCatalog(catalog), NEW x, Act(x), x.type \in ValueTypes
    PROVE  /\ IsCatalog(Typed(catalog, x))
           /\ TypesText(x) => Listed(Typed(catalog, x), x)
           /\ \A e : TypesText(e) /\ Listed(catalog, e) /\ Spares(x, e)
                         => Listed(Typed(catalog, x), e)
<1>1. PICK f, key : f = x.fields[1] /\ key = PlaceOf(x)
  OBVIOUS
<1>2. PICK old : old = EntryOf(catalog, key)
  OBVIOUS
<1>3. PICK entry : entry = Cite(old, {x.seq})
  OBVIOUS
<1>4. PICK new : new = Describe(entry, f, "input")
  OBVIOUS
<1>5. PICK after : after = Typed(catalog, x)
  OBVIOUS
<1>6. after = IF ControlKey(f) = NoControl THEN catalog ELSE Put(catalog, key, new)
  BY <1>1, <1>2, <1>3, <1>4, <1>5, Zenon DEF Typed, PlaceOf
<1>7. CASE ControlKey(f) = NoControl
  <2>1. after = catalog
    BY <1>6, <1>7
  <2>2. ~TypesText(x)
    BY <1>1, <1>7 DEF TypesText
  <2>3. QED
    BY <1>5, <2>1, <2>2
<1>8. CASE ControlKey(f) # NoControl
  <2>1. IsEntry(entry) /\ entry.controls = old.controls
    BY <1>2, <1>3, EntryIs
  <2>2. f \in ToSet(x.fields)
    BY <1>1 DEF Act, ToSet, IsList
  <2>3. /\ IsEntry(new)
        /\ \A ck, v : v # NoValue /\ Bears(entry, ck, v) /\ Leaves("input", f, ck)
               => Bears(new, ck, v)
        /\ f.type = "text" /\ f.value # NoValue /\ ~f.secret
               => Bears(new, ControlKey(f), f.value)
    BY <1>4, <1>8, <2>1, DescribeIs DEF Origins
  <2>4. after = Put(catalog, key, new)
    BY <1>6, <1>8
  <2>5. /\ IsCatalog(after) /\ DOMAIN after = DOMAIN catalog \cup {key} /\ after[key] = new
        /\ \A k \in DOMAIN catalog : k # key => after[k] = catalog[k]
    <3>1. IsEntry(new)
      BY <2>3
    <3>2. IsCatalog(Put(catalog, key, new))
      BY <3>1, PutIs
    <3>3. QED
      BY <2>4, <3>2 DEF Put
  <2>6. TypesText(x) => Listed(after, x)
    BY <1>1, <2>3, <2>5 DEF TypesText, Listed, KeyTyped
  <2>7. ASSUME NEW e, TypesText(e), Listed(catalog, e), Spares(x, e) PROVE Listed(after, e)
    <3>1. CASE PlaceOf(e) # key
      BY <2>5, <2>7, <3>1 DEF Listed
    <3>2. CASE PlaceOf(e) = key
      <4>1. PICK ck, v : ck = KeyTyped(e) /\ v = e.fields[1].value
        OBVIOUS
      <4>2. v # NoValue /\ Bears(old, ck, v)
        BY <1>2, <2>7, <3>2, <4>1 DEF TypesText, Listed, EntryOf
      <4>3. Bears(entry, ck, v)
        BY <2>1, <4>2 DEF Bears
      <4>4. Leaves("input", f, ck)
        BY <1>1, <2>2, <2>7, <3>2, <4>1 DEF Spares, Leaves, Tells
      <4>5. Bears(new, ck, v)
        BY <2>3, <4>2, <4>3, <4>4
      <4>6. QED
        BY <2>5, <3>2, <4>1, <4>5 DEF Listed
    <3>3. QED
      BY <3>1, <3>2
  <2>8. QED
    BY <1>5, <2>5, <2>6, <2>7
<1>9. QED
  BY <1>7, <1>8

LEMMA CorrelatedIs ==
    ASSUME NEW entry, IsEntry(entry), NEW e, NEW events
    PROVE  /\ IsEntry(Correlated(entry, e, events))
           /\ Correlated(entry, e, events).controls = entry.controls
<1> DEFINE soon == {x \in ToSet(events) :
                      e.seq < x.seq /\ x.seq <= e.seq + RequestWindow /\ x.page = e.page}
           request == Earliest({x \in soon : x.type \in RequestEvents /\ ~x.reduced})
           navigation == Earliest({x \in soon : x.type = "navigation_committed" /\ x.url # NoUrl})
           response == Earliest({x \in soon :
                        /\ x.type = "http_response"
                        /\ request # 0 => x.endpoint = events[request].endpoint})
           told == IF navigation # 0 THEN navigation ELSE response
           after == Correlated(entry, e, events)
<1>1. after = [entry EXCEPT !.request = IF request = 0 THEN @ ELSE request,
                            !.outcome = IF told = 0 THEN @ ELSE told,
                            !.cites = @ \cup ({request, told} \ {0})]
  BY Zenon DEF Correlated
<1> HIDE DEF request, told, after
<1>2. "controls" \in DOMAIN after /\ after.controls = entry.controls
  BY <1>1 DEF IsEntry
<1>3. IsEntry(after)
  BY <1>2 DEF IsEntry
<1>4. QED
  BY <1>2, <1>3 DEF after

LEMMA SentIs ==
    ASSUME NEW catalog, IsCatalog(catalog), NEW x, Act(x), x.type \notin ValueTypes, NEW events
    PROVE  /\ IsCatalog(Sent(catalog, x, events))
           /\ \A e : TypesText(e) /\ Listed(catalog, e) /\ Spares(x, e)
                         => Listed(Sent(catalog, x, events), e)
<1>1. PICK form, key : form = OwnForm(x) /\ key = PlaceOf(x)
  OBVIOUS
<1>2. PICK old : old = EntryOf(catalog, key)
  OBVIOUS
<1>3. PICK entry : entry = [old EXCEPT !.submitted = TRUE, !.cites = @ \cup {x.seq}]
  OBVIOUS
<1>4. PICK named : named = Nameable(x.fields)
  OBVIOUS
<1>5. PICK filled : filled = DescribeAll(entry, named, "submission")
  OBVIOUS
<1>6. PICK new : new = Correlated(filled, x, events)
  OBVIOUS
<1>7. PICK after : after = Sent(catalog, x, events)
  OBVIOUS
<1>8. after = IF ToldTwice(x) \/ (form.id = Absent /\ form.path = Absent) THEN catalog
              ELSE Put(catalog, key, new)
  BY <1>1, <1>2, <1>3, <1>4, <1>5, <1>6, <1>7, Zenon DEF Sent, PlaceOf
<1>9. CASE after = catalog
  BY <1>7, <1>9
<1>10. CASE after = Put(catalog, key, new)
  <2>1. IsEntry(entry) /\ entry.controls = old.controls
    <3>1. IsEntry(old)
      BY <1>2, EntryIs
    <3>2. "controls" \in DOMAIN entry /\ entry.controls = old.controls
      BY <1>3, <3>1 DEF IsEntry
    <3>3. QED
      BY <3>1, <3>2 DEF IsEntry
  <2>2. IsList(named) /\ ToSet(named) \subseteq ToSet(x.fields)
    <3>1. PICK T : x.fields \in Seq(T)
      BY DEF Act, IsList
    <3>2. PICK I : /\ named = Those(x.fields, I) /\ I \in SUBSET (DOMAIN x.fields)
      BY <1>4 DEF Nameable
    <3>3. named \in Seq(T)
      BY <3>1, <3>2, ThoseAre
    <3>4. \A v : v \in ToSet(named) <=> (\E i \in I : v = x.fields[i])
      BY <3>1, <3>2, ThoseHold
    <3>5. QED
      BY <3>2, <3>3, <3>4 DEF IsList, ToSet
  <2>3. /\ IsEntry(filled)
        /\ \A ck, v : v # NoValue /\ Bears(entry, ck, v)
                      /\ (\A f \in ToSet(named) : Leaves("submission", f, ck))
               => Bears(filled, ck, v)
    BY <1>5, <2>1, <2>2, AllDescribed DEF Origins
  <2>4. IsEntry(new) /\ new.controls = filled.controls
    BY <1>6, <2>3, CorrelatedIs
  <2>5. /\ IsCatalog(after) /\ DOMAIN after = DOMAIN catalog \cup {key} /\ after[key] = new
        /\ \A k \in DOMAIN catalog : k # key => after[k] = catalog[k]
    <3>1. IsEntry(new)
      BY <2>4
    <3>2. IsCatalog(Put(catalog, key, new))
      BY <3>1, PutIs
    <3>3. QED
      BY <1>10, <3>2 DEF Put
  <2>6. ASSUME NEW e, TypesText(e), Listed(catalog, e), Spares(x, e) PROVE Listed(after, e)
    <3>1. CASE PlaceOf(e) # key
      BY <2>5, <2>6, <3>1 DEF Listed
    <3>2. CASE PlaceOf(e) = key
      <4>1. PICK ck, v : ck = KeyTyped(e) /\ v = e.fields[1].value
        OBVIOUS
      <4>2. v # NoValue /\ Bears(old, ck, v)
        BY <1>2, <2>6, <3>2, <4>1 DEF TypesText, Listed, EntryOf
      <4>3. Bears(entry, ck, v)
        BY <2>1, <4>2 DEF Bears
      <4>4. \A f \in ToSet(named) : Leaves("submission", f, ck)
        BY <1>1, <2>2, <2>6, <3>2, <4>1 DEF Spares, Leaves, Tells
      <4>5. Bears(filled, ck, v)
        BY <2>3, <4>2, <4>3, <4>4
      <4>6. Bears(new, ck, v)
        BY <2>4, <4>5 DEF Bears
      <4>7. QED
        BY <2>5, <3>2, <4>1, <4>6 DEF Listed
    <3>3. QED
      BY <3>1, <3>2
  <2>7. QED
    BY <1>7, <2>5, <2>6
<1>11. QED
  BY <1>8, <1>9, <1>10

LEMMA ActedIs ==
    ASSUME NEW catalog, IsCatalog(catalog), NEW x, Act(x), NEW events
    PROVE  /\ IsCatalog(Acted(catalog, x, events))
           /\ TypesText(x) => Listed(Acted(catalog, x, events), x)
           /\ \A e : TypesText(e) /\ Listed(catalog, e) /\ Spares(x, e)
                         => Listed(Acted(catalog, x, events), e)
<1>1. CASE x.type \in ValueTypes
  <2>1. Acted(catalog, x, events) = Typed(catalog, x)
    BY <1>1 DEF Acted
  <2>2. QED
    BY <1>1, <2>1, TypedIs
<1>2. CASE x.type \notin ValueTypes
  <2>1. Acted(catalog, x, events) = Sent(catalog, x, events) /\ ~TypesText(x)
    BY <1>2 DEF Acted, TypesText
  <2>2. QED
    BY <1>2, <2>1, SentIs
<1>3. QED
  BY <1>1, <1>2

LEMMA AllActed ==
    ASSUME NEW catalog, IsCatalog(catalog), NEW acts, IsList(acts),
           \A i \in DOMAIN acts : Act(acts[i]), NEW events
    PROVE  /\ IsCatalog(ActedAll(catalog, acts, events))
           /\ \A m \in DOMAIN acts :
                 TypesText(acts[m]) /\ (\A j \in (m + 1)..Len(acts) : Spares(acts[j], acts[m]))
                     => Listed(ActedAll(catalog, acts, events), acts[m])
<1> DEFINE n == Len(acts)
           start == catalog
           To(h, j) == h = [i \in 0..j |-> IF i = 0 THEN start ELSE Acted(h[i - 1], acts[i], events)]
           Some == {j \in 0..n : \E h : To(h, j)}
           chosen == CHOOSE h : To(h, n)
<1>1. ActedAll(catalog, acts, events) = chosen[n]
  BY Zenon DEF ActedAll
<1>2. n \in Nat
  BY DEF IsList
<1>3. DOMAIN acts = 1..n
  BY DEF IsList
<1> DEFINE Lasts(m, i) == TypesText(acts[m])
                          /\ \A j \in (m + 1)..i : Spares(acts[j], acts[m])
<1> HIDE DEF n, start
<1>4. 0 \in Some
  <2>1. To([i \in 0..0 |-> start], 0)
    OBVIOUS
  <2> HIDE DEF To
  <2>2. 0 \in 0..n
    BY <1>2
  <2>3. QED
    BY <2>1, <2>2
<1>5. ASSUME NEW j \in 1..n, j - 1 \in Some PROVE j \in Some
  <2>1. PICK g : To(g, j - 1)
    BY <1>5
  <2> DEFINE k == [i \in 0..j |-> IF i = j THEN Acted(g[j - 1], acts[j], events) ELSE g[i]]
  <2>2. ASSUME NEW i \in 0..j
        PROVE  k[i] = IF i = 0 THEN start ELSE Acted(k[i - 1], acts[i], events)
    <3>1. CASE i = j
      BY <1>2, <3>1
    <3>2. CASE i # j
      <4>1. i \in 0..(j - 1)
        BY <1>2, <3>2
      <4>2. g[i] = IF i = 0 THEN start ELSE Acted(g[i - 1], acts[i], events)
        BY <2>1, <4>1
      <4>3. k[i] = g[i] /\ (i # 0 => k[i - 1] = g[i - 1])
        BY <1>2, <3>2, <4>1
      <4>4. QED
        BY <4>2, <4>3
    <3>3. QED
      BY <3>1, <3>2
  <2>3. k = [i \in 0..j |-> k[i]]
    OBVIOUS
  <2> HIDE DEF k
  <2>4. To(k, j)
    BY <2>2, <2>3
  <2> HIDE DEF To
  <2>5. j \in 0..n
    BY <1>2
  <2>6. QED
    BY <2>4, <2>5
<1>6. To(chosen, n)
  <2>1. \E h : To(h, n)
    <3> HIDE DEF Some
    <3>1. \A i \in 1..n : i - 1 \in Some => i \in Some
      BY <1>5
    <3>2. \A i \in 0..n : i \in Some
      BY <1>2, <1>4, <3>1, Climb
    <3>3. n \in Some
      BY <1>2, <3>2
    <3> HIDE DEF To
    <3>4. QED
      BY <3>3 DEF Some
  <2> HIDE DEF To
  <2>2. QED
    BY <2>1
<1> HIDE DEF chosen
<1>7. chosen[0] = start /\ \A i \in 1..n : chosen[i] = Acted(chosen[i - 1], acts[i], events)
  BY <1>2, <1>6
<1> DEFINE Good == {i \in 0..n : IsCatalog(chosen[i]) /\ \A m \in 1..i : Lasts(m, i) => Listed(chosen[i], acts[m])}
<1> HIDE DEF Lasts
<1>8. \A i \in 0..n : i \in Good
  <2>1. 0 \in Good
    BY <1>2, <1>7 DEF start
  <2>2. \A i \in 1..n : i - 1 \in Good => i \in Good
    <3>1. ASSUME NEW i \in 1..n, IsCatalog(chosen[i - 1]),
                 \A m \in 1..(i - 1) : Lasts(m, i - 1) => Listed(chosen[i - 1], acts[m])
          PROVE  IsCatalog(chosen[i]) /\ \A m \in 1..i : Lasts(m, i) => Listed(chosen[i], acts[m])
      <4>1. PICK x : x = acts[i] /\ Act(x)
        BY <1>3
      <4>2. chosen[i] = Acted(chosen[i - 1], x, events)
        BY <1>7, <4>1
      <4>3. /\ IsCatalog(chosen[i])
            /\ TypesText(x) => Listed(chosen[i], x)
            /\ \A e : TypesText(e) /\ Listed(chosen[i - 1], e) /\ Spares(x, e)
                         => Listed(chosen[i], e)
        BY <3>1, <4>1, <4>2, ActedIs
      <4>4. ASSUME NEW m \in 1..i, Lasts(m, i) PROVE Listed(chosen[i], acts[m])
        <5>1. TypesText(acts[m])
          BY <4>4 DEF Lasts
        <5>2. CASE m = i
          BY <4>1, <4>3, <5>1, <5>2
        <5>3. CASE m # i
          <6>1. m \in 1..(i - 1) /\ i \in (m + 1)..i /\ \A j \in (m + 1)..(i - 1) : j \in (m + 1)..i
            BY <1>2, <5>3
          <6>2. Lasts(m, i - 1) /\ Spares(x, acts[m])
            BY <4>1, <4>4, <6>1 DEF Lasts
          <6>3. Listed(chosen[i - 1], acts[m])
            BY <3>1, <6>1, <6>2
          <6>4. QED
            BY <4>3, <5>1, <6>2, <6>3
        <5>4. QED
          BY <5>2, <5>3
      <4>5. QED
        BY <4>3, <4>4
    <3>2. QED
      BY <1>2, <3>1
  <2> HIDE DEF Good
  <2>3. QED
    BY <1>2, <2>1, <2>2, Climb
<1>9. QED
  <2>1. IsCatalog(chosen[n]) /\ \A m \in 1..n : Lasts(m, n) => Listed(chosen[n], acts[m])
    BY <1>2, <1>8
  <2> HIDE DEF Good
  <2>2. QED
    BY <1>1, <1>3, <2>1 DEF Lasts, n

(* A choice in a combobox is kept under a key of its own.                  *)
LEMMA TextKeyIs ==
    ASSUME NEW e, TypesText(e), NEW name PROVE KeyTyped(e) # <<"combobox", name>>
<1>1. PICK f : f = e.fields[1]
  OBVIOUS
<1>2. f.type = "text" /\ ControlKey(f) # NoControl
  BY <1>1 DEF TypesText
<1>3. ControlKey(f) = IF f.id # Absent THEN <<"id", f.id>>
                      ELSE IF f.name # Absent THEN <<"name", f.name>>
                      ELSE IF f.path # Absent THEN <<"path", f.path>>
                      ELSE NoControl
  BY <1>2 DEF ControlKey
<1>4. ControlKey(f) \in {<<"id", f.id>>, <<"name", f.name>>, <<"path", f.path>>}
  BY <1>2, <1>3
<1>5. ControlKey(f)[1] \in {"id", "name", "path"}
  BY <1>4
<1>6. ControlKey(f) # <<"combobox", name>>
  BY <1>5
<1>7. QED
  BY <1>1, <1>6 DEF KeyTyped

LEMMA ChosenIs ==
    ASSUME NEW catalog, IsCatalog(catalog), NEW trigger, NEW x
    PROVE  /\ IsCatalog(Chosen(catalog, trigger, x))
           /\ \A e : TypesText(e) /\ Listed(catalog, e) => Listed(Chosen(catalog, trigger, x), e)
<1> DEFINE key == Occurrence(trigger, Region(trigger))
           ck == <<"combobox", trigger.element.name>>
           entry == Cite(EntryOf(catalog, key), {trigger.seq, x.seq})
           exact == trigger.aria.controls # Absent /\ trigger.aria.controls = x.aria.listbox
           c == ControlOf(entry, ck)
           chosen == [c EXCEPT !.kind = "combobox", !.listbox = x.aria.listbox, !.complete = FALSE,
                         !.connection = IF exact THEN "aria-controls" ELSE "proximity_same_frame",
                         !.selected = x.element.name, !.options = Put(@, x.element.name, TRUE)]
           new == [entry EXCEPT !.controls = Put(@, ck, chosen)]
           after == Chosen(catalog, trigger, x)
<1>1. after = Put(catalog, key, new)
  BY Zenon DEF Chosen
<1>2. IsEntry(entry) /\ entry.controls = EntryOf(catalog, key).controls
  BY EntryIs
<1> HIDE DEF key, exact, after
<1>3. "final" \in DOMAIN c
  <2> HIDE DEF entry, ck
  <2>1. QED
    BY <1>2 DEF ControlOf, NewControl, IsEntry
<1>4. "final" \in DOMAIN chosen
  <2> HIDE DEF c
  <2>1. QED
    BY <1>3
<1>5. "controls" \in DOMAIN new /\ new.controls = Put(entry.controls, ck, chosen)
  <2> HIDE DEF entry, ck, chosen
  <2>1. QED
    BY <1>2 DEF IsEntry
<1> HIDE DEF entry, c, chosen, new
<1>6. /\ DOMAIN new.controls = DOMAIN entry.controls \cup {ck}
      /\ new.controls[ck] = chosen
      /\ \A k \in DOMAIN entry.controls : k # ck => new.controls[k] = entry.controls[k]
  <2> HIDE DEF ck
  <2>1. QED
    BY <1>5 DEF Put
<1>7. IsEntry(new)
  <2> HIDE DEF ck
  <2>1. QED
    BY <1>2, <1>4, <1>5, <1>6 DEF IsEntry
<1>8. IsCatalog(after)
  <2>1. IsCatalog(Put(catalog, key, new))
    BY <1>7, PutIs
  <2>2. QED
    BY <1>1, <2>1
<1>9. /\ DOMAIN after = DOMAIN catalog \cup {key} /\ after[key] = new
      /\ \A k \in DOMAIN catalog : k # key => after[k] = catalog[k]
  BY <1>1 DEF Put
<1>10. ASSUME NEW e, TypesText(e), Listed(catalog, e) PROVE Listed(after, e)
  <2>1. CASE PlaceOf(e) # key
    BY <1>9, <1>10, <2>1 DEF Listed
  <2>2. CASE PlaceOf(e) = key
    <3>1. PICK k, v : k = KeyTyped(e) /\ v = e.fields[1].value
      OBVIOUS
    <3>2. k # ck
      BY <1>10, <3>1, TextKeyIs
    <3> HIDE DEF ck
    <3>3. Bears(entry, k, v)
      <4>1. EntryOf(catalog, key) = catalog[key]
        BY <1>10, <2>2 DEF EntryOf, Listed
      <4>2. QED
        BY <1>2, <1>10, <2>2, <3>1, <4>1 DEF Listed, Bears
    <3>4. Bears(new, k, v)
      BY <1>6, <3>2, <3>3 DEF Bears
    <3>5. QED
      BY <1>9, <2>2, <3>1, <3>4 DEF Listed
  <2>3. QED
    BY <2>1, <2>2
<1>11. QED
  BY <1>8, <1>10 DEF after

Clicking(state) == DOMAIN state = {"catalog", "pending", "since"} /\ IsCatalog(state.catalog)

LEMMA ClickedIs ==
    ASSUME NEW state, Clicking(state), NEW x
    PROVE  /\ Clicking(Clicked(state, x))
           /\ \A e : TypesText(e) /\ Listed(state.catalog, e) => Listed(Clicked(state, x).catalog, e)
<1> DEFINE p == x.page
           trigger == state.pending[p]
           live == trigger # <<>> /\ state.since[p] < ComboWindow
<1>1. PICK after : after = Clicked(state, x)
  OBVIOUS
<1>2. PICK chosen : chosen = Chosen(state.catalog, trigger[1], x)
  OBVIOUS
<1>3. /\ IsCatalog(state.catalog) /\ IsCatalog(chosen)
      /\ \A e : TypesText(e) /\ Listed(state.catalog, e) => Listed(chosen, e)
  BY <1>2, ChosenIs DEF Clicking
<1>4. /\ DOMAIN after = DOMAIN state
      /\ after.catalog = state.catalog \/ after.catalog = chosen
  <2>1. CASE IsTrigger(x)
    <3>1. after = [state EXCEPT !.pending[p] = <<x>>, !.since[p] = 0]
      BY <1>1, <2>1 DEF Clicked
    <3>2. QED
      BY <3>1 DEF Clicking
  <2>2. CASE ~IsTrigger(x) /\ x.aria.role = "option" /\ live
    <3>1. after = [state EXCEPT !.catalog = Chosen(@, trigger[1], x), !.pending[p] = <<>>,
                                !.since[p] = @ + 1]
      BY <1>1, <2>2 DEF Clicked
    <3>2. after = [state EXCEPT !.catalog = chosen, !.pending[p] = <<>>, !.since[p] = @ + 1]
      BY <1>2, <3>1
    <3>3. QED
      BY <3>2 DEF Clicking
  <2>3. CASE ~IsTrigger(x) /\ ~(x.aria.role = "option" /\ live)
    <3>1. after = [state EXCEPT !.since[p] = @ + 1]
      BY <1>1, <2>3 DEF Clicked
    <3>2. QED
      BY <3>1 DEF Clicking
  <2>4. QED
    BY <2>1, <2>2, <2>3
<1>5. QED
  BY <1>1, <1>3, <1>4 DEF Clicking

LEMMA AllClicked ==
    ASSUME NEW catalog, IsCatalog(catalog), NEW clicks, IsList(clicks)
    PROVE  \A e : TypesText(e) /\ Listed(catalog, e) => Listed(ClickedAll(catalog, clicks), e)
<1> DEFINE pages == {clicks[i].page : i \in DOMAIN clicks}
           n == Len(clicks)
           start == [catalog |-> catalog, pending |-> [p \in pages |-> <<>>],
                     since |-> [p \in pages |-> 0]]
           To(h, j) == h = [i \in 0..j |-> IF i = 0 THEN start ELSE Clicked(h[i - 1], clicks[i])]
           Some == {j \in 0..n : \E h : To(h, j)}
           chosen == CHOOSE h : To(h, n)
<1>1. ClickedAll(catalog, clicks) = chosen[n].catalog
  BY Zenon DEF ClickedAll
<1>2. n \in Nat
  BY DEF IsList
<1>3. start.catalog = catalog /\ Clicking(start)
  BY DEF Clicking
<1> HIDE DEF n, start
<1>4. 0 \in Some
  <2>1. To([i \in 0..0 |-> start], 0)
    OBVIOUS
  <2> HIDE DEF To
  <2>2. 0 \in 0..n
    BY <1>2
  <2>3. QED
    BY <2>1, <2>2
<1>5. ASSUME NEW j \in 1..n, j - 1 \in Some PROVE j \in Some
  <2>1. PICK g : To(g, j - 1)
    BY <1>5
  <2> DEFINE k == [i \in 0..j |-> IF i = j THEN Clicked(g[j - 1], clicks[j]) ELSE g[i]]
  <2>2. ASSUME NEW i \in 0..j
        PROVE  k[i] = IF i = 0 THEN start ELSE Clicked(k[i - 1], clicks[i])
    <3>1. CASE i = j
      BY <1>2, <3>1
    <3>2. CASE i # j
      <4>1. i \in 0..(j - 1)
        BY <1>2, <3>2
      <4>2. g[i] = IF i = 0 THEN start ELSE Clicked(g[i - 1], clicks[i])
        BY <2>1, <4>1
      <4>3. k[i] = g[i] /\ (i # 0 => k[i - 1] = g[i - 1])
        BY <1>2, <3>2, <4>1
      <4>4. QED
        BY <4>2, <4>3
    <3>3. QED
      BY <3>1, <3>2
  <2>3. k = [i \in 0..j |-> k[i]]
    OBVIOUS
  <2> HIDE DEF k
  <2>4. To(k, j)
    BY <2>2, <2>3
  <2> HIDE DEF To
  <2>5. j \in 0..n
    BY <1>2
  <2>6. QED
    BY <2>4, <2>5
<1>6. To(chosen, n)
  <2>1. \E h : To(h, n)
    <3> HIDE DEF Some
    <3>1. \A i \in 1..n : i - 1 \in Some => i \in Some
      BY <1>5
    <3>2. \A i \in 0..n : i \in Some
      BY <1>2, <1>4, <3>1, Climb
    <3>3. n \in Some
      BY <1>2, <3>2
    <3> HIDE DEF To
    <3>4. QED
      BY <3>3 DEF Some
  <2> HIDE DEF To
  <2>2. QED
    BY <2>1
<1> HIDE DEF chosen
<1>7. chosen[0] = start /\ \A i \in 1..n : chosen[i] = Clicked(chosen[i - 1], clicks[i])
  BY <1>2, <1>6
<1> DEFINE Good == {i \in 0..n : Clicking(chosen[i]) /\ \A e : TypesText(e) /\ Listed(catalog, e) => Listed(chosen[i].catalog, e)}
<1>8. \A i \in 0..n : i \in Good
  <2>1. 0 \in Good
    BY <1>2, <1>3, <1>7
  <2>2. \A i \in 1..n : i - 1 \in Good => i \in Good
    <3>1. ASSUME NEW i \in 1..n, Clicking(chosen[i - 1]),
                 \A e : TypesText(e) /\ Listed(catalog, e) => Listed(chosen[i - 1].catalog, e)
          PROVE  /\ Clicking(chosen[i])
                 /\ \A e : TypesText(e) /\ Listed(catalog, e) => Listed(chosen[i].catalog, e)
      <4>1. chosen[i] = Clicked(chosen[i - 1], clicks[i])
        BY <1>7
      <4>2. /\ Clicking(chosen[i])
            /\ \A e : TypesText(e) /\ Listed(chosen[i - 1].catalog, e) => Listed(chosen[i].catalog, e)
        BY <3>1, <4>1, ClickedIs
      <4>3. QED
        BY <3>1, <4>2
    <3>2. QED
      BY <1>2, <3>1
  <2> HIDE DEF Good
  <2>3. QED
    BY <1>2, <2>1, <2>2, Climb
<1>9. QED
  <2>1. \A e : TypesText(e) /\ Listed(catalog, e) => Listed(chosen[n].catalog, e)
    BY <1>2, <1>8
  <2> HIDE DEF Good
  <2>2. QED
    BY <1>1, <2>1

(* The last that the operator put in a control is what the catalog gives.  *)
LEMMA CatalogIs ==
    ASSUME NEW events, IsList(events), \A i \in DOMAIN events : Carrying(events[i]),
           \A i \in DOMAIN events :
               events[i].type \in ValueTypes \cup SubmitTypes => Act(events[i]),
           NEW i \in DOMAIN events, TypesText(events[i]),
           \A j \in DOMAIN events :
               i < j /\ events[j].type \in ValueTypes \cup SubmitTypes => Spares(events[j], events[i])
    PROVE  Listed(Catalog(events), events[i])
<1> DEFINE OfTypes(types) == Those(events, {k \in DOMAIN events : events[k].type \in types})
           acting == {k \in DOMAIN events : events[k].type \in ValueTypes \cup SubmitTypes}
<1>1. PICK scans, acts, clicks :
          /\ scans = OfTypes({"dom_forms"}) /\ clicks = OfTypes(ClickTypes)
          /\ acts = Those(events, acting)
  OBVIOUS
<1>2. PICK scanned : scanned = ScannedAll(scans)
  OBVIOUS
<1>3. PICK acted : acted = ActedAll(scanned, acts, events)
  OBVIOUS
<1>4. Catalog(events) = ClickedAll(acted, clicks)
  <2>1. Catalog(events) = ClickedAll(ActedAll(ScannedAll(OfTypes({"dom_forms"})),
                                              OfTypes(ValueTypes \cup SubmitTypes), events),
                                     OfTypes(ClickTypes))
    BY Zenon DEF Catalog
  <2>2. acts = OfTypes(ValueTypes \cup SubmitTypes)
    BY <1>1
  <2> HIDE DEF OfTypes
  <2>3. QED
    BY <1>1, <1>2, <1>3, <2>1, <2>2
<1>5. PICK T : events \in Seq(T)
  BY DEF IsList
<1>6. ASSUME NEW I \in SUBSET (DOMAIN events)
      PROVE  /\ IsList(Those(events, I))
             /\ \A v : v \in ToSet(Those(events, I)) <=> \E k \in I : v = events[k]
  <2>1. Those(events, I) \in Seq(T)
    BY <1>5, ThoseAre
  <2>2. QED
    BY <1>5, <2>1, ThoseHold DEF IsList
<1>7. IsCatalog(scanned)
  <2>1. IsList(scans) /\ \A v : v \in ToSet(scans) => \E k \in DOMAIN events : v = events[k]
    BY <1>1, <1>6
  <2>2. \A k \in DOMAIN scans : Carrying(scans[k])
    BY <2>1 DEF ToSet
  <2>3. QED
    BY <1>2, <2>1, <2>2, ScansAre
<1> HIDE DEF OfTypes
<1>8. acting \in SUBSET (DOMAIN events) /\ i \in acting
  BY DEF TypesText
<1>9. PICK order : /\ order \in [1..Len(acts) -> acting]
                   /\ \A k \in 1..Len(acts) : acts[k] = events[order[k]]
                   /\ \A j, k \in 1..Len(acts) : j < k => order[j] < order[k]
                   /\ \A k \in acting : \E m \in 1..Len(acts) : order[m] = k
  <2>1. PICK I : I = acting
    OBVIOUS
  <2>2. acts = Those(events, I) /\ I \in SUBSET (DOMAIN events)
    BY <1>1, <1>8, <2>1
  <2> HIDE DEF acting
  <2>3. \E order : /\ order \in [1..Len(acts) -> I]
                   /\ \A k \in 1..Len(acts) : acts[k] = events[order[k]]
                   /\ \A j, k \in 1..Len(acts) : j < k => order[j] < order[k]
                   /\ \A k \in I : \E m \in 1..Len(acts) : order[m] = k
    BY <1>5, <2>2, ThoseAre
  <2>4. QED
    BY <2>1, <2>3
<1>10. IsList(acts)
  BY <1>1, <1>6, <1>8
<1>11. DOMAIN acts = 1..Len(acts) /\ Len(acts) \in Nat
  BY <1>10 DEF IsList
<1>12. \A k \in acting : Act(events[k])
  OBVIOUS
<1>13. \A k \in acting : i < k => Spares(events[k], events[i])
  OBVIOUS
<1> HIDE DEF acting
<1>14. \A k \in DOMAIN acts : Act(acts[k])
  BY <1>9, <1>11, <1>12
<1>15. PICK m \in DOMAIN acts : order[m] = i
  BY <1>8, <1>9, <1>11
<1>16. \A j \in (m + 1)..Len(acts) : Spares(acts[j], acts[m])
  <2>1. ASSUME NEW j \in (m + 1)..Len(acts) PROVE Spares(acts[j], acts[m])
    <3>1. j \in 1..Len(acts) /\ m \in 1..Len(acts) /\ m < j
      BY <1>11
    <3>2. order[m] < order[j] /\ acts[j] = events[order[j]] /\ acts[m] = events[i] /\ order[j] \in acting
      BY <1>9, <1>15, <3>1
    <3>3. QED
      BY <1>13, <1>15, <3>2
  <2>2. QED
    BY <2>1
<1>17. acts[m] = events[i]
  BY <1>9, <1>11, <1>15
<1>18. IsCatalog(acted) /\ Listed(acted, events[i])
  <2>1. /\ IsCatalog(acted)
        /\ \A k \in DOMAIN acts :
              TypesText(acts[k]) /\ (\A j \in (k + 1)..Len(acts) : Spares(acts[j], acts[k]))
                  => Listed(acted, acts[k])
    BY <1>3, <1>7, <1>10, <1>14, AllActed
  <2>2. QED
    BY <1>16, <1>17, <2>1
<1>19. IsList(clicks)
  BY <1>1, <1>6 DEF OfTypes
<1>20. Listed(ClickedAll(acted, clicks), events[i])
  BY <1>18, <1>19, AllClicked
<1>21. QED
  BY <1>4, <1>20

LaterThan(e, x) ==
    /\ x.turn > e.turn /\ PlaceOf(x) = PlaceOf(e)
    /\ \E f \in ToSet(x.fields) : ControlKey(f) = KeyTyped(e) /\ Tells(x, f)

LEMMA LastTyped == TimelineInv /\ SaidInv /\ InTurn => FinalIsLastTyped
<1> SUFFICES ASSUME TimelineInv, SaidInv, InTurn PROVE FinalIsLastTyped
  OBVIOUS
<1>1. /\ Len(log) \in Nat /\ DOMAIN log = 1..Len(log)
      /\ \A i \in DOMAIN log : DOMAIN log[i] = DOMAIN Blank /\ ToldByProbe(log[i])
  BY LogIsOfEvents
<1>2. PICK known : known = Known
  OBVIOUS
<1>3. IsList(known) /\ \A i \in DOMAIN known : Carrying(known[i])
  BY <1>2, KnownPlaced DEF Placed
<1>4. DOMAIN known = DOMAIN log
  BY <1>2, Zenon DEF Known, Attributed
<1>5. ASSUME NEW i \in DOMAIN log
      PROVE  /\ known[i].turn = log[i].turn /\ known[i].page = log[i].page
             /\ known[i].source = log[i].source
             /\ known[i].type \in ValueTypes \cup SubmitTypes
                    => FromProbe(log[i]) /\ Act(known[i])
  <2>1. PICK e, x, d : e = log[i] /\ x = known[i] /\ d = KeyOf(log, EndpointsOf(log), log[i])
    OBVIOUS
  <2>2. x = [e EXCEPT !.endpoint = d]
    BY <1>2, <2>1, Zenon DEF Known, Attributed
  <2>3. DOMAIN e = DOMAIN Blank /\ ToldByProbe(e)
    BY <1>1, <2>1
  <2>4. /\ x.turn = e.turn /\ x.page = e.page /\ x.source = e.source /\ x.type = e.type
        /\ x.fields = e.fields
    BY <2>2, <2>3 DEF Blank
  <2>5. IsList(x.fields)
    BY <1>3, <1>4, <2>1 DEF Carrying, IsList
  <2>6. x.type \in ValueTypes \cup SubmitTypes => FromProbe(e) /\ Act(x)
    BY <2>3, <2>4, <2>5 DEF ToldByProbe, FromProbe, Act
  <2>7. QED
    BY <2>1, <2>4, <2>6
<1>6. ASSUME NEW i \in DOMAIN log, TypesText(known[i]),
             \A k \in DOMAIN log : known[k].type \in ValueTypes \cup SubmitTypes
                                       => ~LaterThan(known[i], known[k])
      PROVE  Listed(Catalog(known), known[i])
  <2>1. known[i].type \in ValueTypes \cup SubmitTypes
    BY <1>6 DEF TypesText
  <2>2. ASSUME NEW k \in DOMAIN log, i < k, known[k].type \in ValueTypes \cup SubmitTypes
        PROVE  Spares(known[k], known[i])
    <3>1. SUFFICES ASSUME PlaceOf(known[k]) = PlaceOf(known[i])
                   PROVE  \A f \in ToSet(known[k].fields) :
                              ControlKey(f) = KeyTyped(known[i]) => ~Tells(known[k], f)
      BY DEF Spares
    <3>2. known[k].page = known[i].page
      BY <3>1 DEF PlaceOf, Occurrence
    <3>3. FromProbe(log[i]) /\ FromProbe(log[k]) /\ log[i].page = log[k].page
      BY <1>5, <2>1, <2>2, <3>2
    <3>4. log[i].turn < log[k].turn
      BY <2>2, <3>3 DEF InTurn, ByTurn
    <3>5. known[k].turn > known[i].turn
      BY <1>5, <3>4
    <3>6. ~LaterThan(known[i], known[k])
      BY <1>6, <2>2
    <3>7. QED
      BY <3>1, <3>5, <3>6 DEF LaterThan
  <2>3. \A k \in DOMAIN known : known[k].type \in ValueTypes \cup SubmitTypes => Act(known[k])
    BY <1>4, <1>5
  <2>4. QED
    BY <1>3, <1>4, <1>6, <2>2, <2>3, CatalogIs
<1>7. ASSUME NEW e \in ToSet(known), TypesText(e),
             \A x \in ToSet(known) : x.type \in ValueTypes \cup SubmitTypes => ~LaterThan(e, x)
      PROVE  Listed(Catalog(known), e)
  <2>1. PICK i \in DOMAIN log : e = known[i]
    BY <1>4 DEF ToSet
  <2>2. \A k \in DOMAIN log : known[k] \in ToSet(known)
    BY <1>4 DEF ToSet
  <2>3. QED
    BY <1>6, <1>7, <2>1, <2>2
<1>8. QED
  BY <1>2, <1>7 DEF FinalIsLastTyped, TypesText, LaterThan, Listed, Bears, PlaceOf, KeyTyped, Tells

(* The value that the catalog of forms gives a control is the one typed in *)
(* it last.                                                                *)
THEOREM FinalTheorem == Spec => []FinalIsLastTyped
BY TurnsInvariant, LastTyped, PTL
=============================================================================
