------------------------- MODULE ProbeChannelProofs -------------------------
(***************************************************************************)
(* Proofs about the probe's channel, for any actions, buffer, documents,   *)
(* probes and navigations.                                                 *)
(***************************************************************************)
EXTENDS ProbeChannel, SequenceTheorems, WellFoundedInduction, TLAPS

-----------------------------------------------------------------------------
(* What the reports of a sequence of records add up to.                    *)

(* A set of naturals has a least element: a first-order induction.         *)
LEMMA Least ==
    ASSUME NEW S \in SUBSET Nat, S # {} PROVE \E x \in S : \A y \in S : x <= y
<1>1. PICK x \in S : \A y \in S : <<y, x>> \notin OpToRel(<, Nat)
  BY WFMin, NatLessThanWellFounded, Zenon
<1>2. \A y \in S : ~(y < x)
  BY <1>1, Zenon DEF OpToRel
<1>3. QED
  BY <1>2

(* The sums that Reported goes through.                                    *)
Sums(f, s, n) ==
    /\ DOMAIN f = 0..n /\ f[0] = 0
    /\ \A k \in 1..n : f[k] = f[k - 1] + s[k].drops

Naturals(f, n) == \A k \in 0..n : f[k] \in Nat

LEMMA SumsExist ==
    ASSUME NEW s \in Seq(Record), NEW m \in 0..Len(s)
    PROVE  \E f : Sums(f, s, m) /\ Naturals(f, m)
<1> DEFINE None == {n \in 0..Len(s) : ~\E f : Sums(f, s, n) /\ Naturals(f, n)}
<1>1. Len(s) \in Nat /\ \A k \in 1..Len(s) : s[k].drops \in Nat
  <2>1. \A k \in 1..Len(s) : s[k] \in Record
    BY ElementOfSeq
  <2>2. QED
    BY <2>1 DEF Record
<1>2. ASSUME None # {} PROVE FALSE
  <2>1. PICK n \in None : \A k \in None : n <= k
    <3>1. None \in SUBSET Nat
      BY <1>1
    <3> HIDE DEF None
    <3>2. QED
      BY <1>2, <3>1, Least
  <2>2. n \in 0..Len(s) /\ n \in Nat
    BY <1>1, <2>1
  <2>3. CASE n = 0
    <3> DEFINE f == [k \in 0..0 |-> 0]
    <3>1. Sums(f, s, 0) /\ Naturals(f, 0)
      BY DEF Sums, Naturals
    <3>2. QED
      BY <2>1, <2>3, <3>1
  <2>4. CASE n # 0
    <3>1. n - 1 \in 0..Len(s) /\ n - 1 \notin None /\ n \in 1..Len(s)
      BY <2>1, <2>2, <2>4, <1>1
    <3>2. PICK f : Sums(f, s, n - 1) /\ Naturals(f, n - 1)
      BY <3>1
    <3> DEFINE g == [k \in 0..n |-> IF k = n THEN f[n - 1] + s[n].drops ELSE f[k]]
    <3>3. f[n - 1] \in Nat /\ s[n].drops \in Nat
      BY <3>1, <3>2, <1>1, <2>2 DEF Naturals
    <3>4. \A k \in 0..n : g[k] \in Nat
      BY <3>2, <3>3, <2>2 DEF Naturals
    <3>5. \A k \in 1..n : g[k] = g[k - 1] + s[k].drops
      <4>1. \A k \in 1..n - 1 : f[k] = f[k - 1] + s[k].drops
        BY <3>2 DEF Sums
      <4>2. QED
        BY <4>1, <2>2
    <3>6. g[0] = 0
      BY <3>2, <2>2, <2>4 DEF Sums
    <3>7. Sums(g, s, n) /\ Naturals(g, n)
      BY <3>4, <3>5, <3>6 DEF Sums, Naturals
    <3>8. QED
      BY <2>1, <3>7
  <2>5. QED
    BY <2>3, <2>4
<1>3. QED
  BY <1>2

LEMMA SumsAgree ==
    ASSUME NEW s, NEW t, NEW m \in Nat, NEW n \in Nat, m <= n,
           \A k \in 1..m : s[k] = t[k],
           NEW f, NEW g, Sums(f, s, m), Sums(g, t, n)
    PROVE  f[m] = g[m]
<1> DEFINE Apart == {k \in 0..m : f[k] # g[k]}
<1>1. ASSUME Apart # {} PROVE FALSE
  <2>1. PICK k \in Apart : \A l \in Apart : k <= l
    <3>1. Apart \in SUBSET Nat
      OBVIOUS
    <3> HIDE DEF Apart
    <3>2. QED
      BY <1>1, <3>1, Least
  <2>2. k # 0 /\ k \in 0..m
    BY <2>1 DEF Sums
  <2>3. k - 1 \in 0..m /\ k - 1 \notin Apart /\ k \in 1..m /\ k \in 1..n
    BY <2>1, <2>2
  <2>4. f[k - 1] = g[k - 1] /\ s[k] = t[k]
    BY <2>3
  <2>5. f[k] = f[k - 1] + s[k].drops /\ g[k] = g[k - 1] + t[k].drops
    BY <2>3 DEF Sums
  <2>6. QED
    BY <2>1, <2>4, <2>5
<1>2. QED
  BY <1>1

LEMMA ReportedIs ==
    ASSUME NEW s \in Seq(Record), NEW f, Sums(f, s, Len(s))
    PROVE  Reported(s) = f[Len(s)]
<1> DEFINE Is(h) == h = [k \in 0..Len(s) |-> IF k = 0 THEN 0 ELSE h[k - 1] + s[k].drops]
           chosen == CHOOSE h : Is(h)
<1>1. Len(s) \in Nat
  OBVIOUS
<1>2. Is([k \in 0..Len(s) |-> f[k]])
  BY <1>1 DEF Sums
<1>3. Is(chosen)
  BY <1>2
<1>4. Reported(s) = chosen[Len(s)]
  BY DEF Reported
<1> HIDE DEF chosen
<1>5. Sums(chosen, s, Len(s))
  BY <1>1, <1>3 DEF Sums
<1>6. chosen[Len(s)] = f[Len(s)]
  BY <1>1, <1>5, SumsAgree
<1>7. QED
  BY <1>4, <1>6

(* What a longer sequence reports, of one it begins with.                  *)
LEMMA ReportedPart ==
    ASSUME NEW s \in Seq(Record), NEW t \in Seq(Record), Len(s) <= Len(t),
           \A k \in 1..Len(s) : s[k] = t[k],
           NEW g, Sums(g, t, Len(t)), Naturals(g, Len(t))
    PROVE  Reported(s) = g[Len(s)] /\ Reported(s) \in Nat
<1>1. Len(s) \in Nat /\ Len(t) \in Nat /\ Len(s) \in 0..Len(s)
  OBVIOUS
<1>2. PICK f : Sums(f, s, Len(s))
  BY <1>1, SumsExist
<1> DEFINE m == Len(s)
           n == Len(t)
<1>3. m \in Nat /\ n \in Nat /\ m <= n /\ Sums(f, s, m) /\ Sums(g, t, n)
  BY <1>1, <1>2
<1>4. \A k \in 1..m : s[k] = t[k]
  OBVIOUS
<1> HIDE DEF m, n
<1>5. f[m] = g[m]
  BY <1>3, <1>4, SumsAgree
<1>6. g[m] \in Nat
  BY <1>3 DEF Naturals, n
<1>7. QED
  BY <1>2, <1>5, <1>6, ReportedIs DEF m

(* One record more reports its own drops more.                             *)
LEMMA ReportedAppend ==
    ASSUME NEW s \in Seq(Record), NEW x \in Record
    PROVE  Reported(Append(s, x)) = Reported(s) + x.drops
<1> DEFINE t == Append(s, x)
<1>1. /\ t \in Seq(Record) /\ Len(s) \in Nat /\ Len(t) = Len(s) + 1
      /\ \A k \in 1..Len(s) : s[k] = t[k]
      /\ t[Len(s) + 1] = x
  OBVIOUS
<1> HIDE DEF t
<1>2. PICK g : Sums(g, t, Len(t)) /\ Naturals(g, Len(t))
  BY <1>1, SumsExist
<1>3. Reported(s) = g[Len(s)]
  BY <1>1, <1>2, ReportedPart
<1>4. Reported(t) = g[Len(t)]
  BY <1>1, <1>2, ReportedIs
<1>5. Len(t) \in 1..Len(t) /\ Len(t) - 1 = Len(s)
  BY <1>1
<1>6. g[Len(t)] = g[Len(s)] + x.drops
  BY <1>1, <1>2, <1>5 DEF Sums
<1>7. QED
  BY <1>3, <1>4, <1>6 DEF t

(* Records that report nothing add nothing.                                *)
LEMMA ReportedConcat ==
    ASSUME NEW s \in Seq(Record), NEW b \in Seq(Record),
           \A k \in 1..Len(b) : b[k].drops = 0
    PROVE  Reported(s \o b) = Reported(s)
<1> DEFINE t == s \o b
           low == Len(s)
           high == Len(t)
<1>1. /\ t \in Seq(Record) /\ low \in Nat /\ Len(b) \in Nat /\ high = low + Len(b)
      /\ \A k \in 1..low : s[k] = t[k]
      /\ \A k \in 1..Len(b) : t[low + k] = b[k]
  OBVIOUS
<1> HIDE DEF t
<1>2. high \in Nat /\ low <= high /\ \A k \in low + 1..high : t[k].drops = 0
  <2>1. high \in Nat /\ low <= high
    BY <1>1
  <2>2. ASSUME NEW k \in low + 1..high PROVE t[k].drops = 0
    <3>1. k - low \in 1..Len(b) /\ low + (k - low) = k
      BY <1>1
    <3>2. QED
      BY <1>1, <3>1
  <2>3. QED
    BY <2>1, <2>2
<1>3. PICK g : Sums(g, t, high) /\ Naturals(g, high)
  BY <1>1, <1>2, SumsExist
<1>4. Reported(s) = g[low]
  BY <1>1, <1>2, <1>3, ReportedPart
<1>5. Reported(t) = g[high]
  BY <1>1, <1>3, ReportedIs
<1> DEFINE Apart == {k \in low..high : g[k] # g[low]}
<1> HIDE DEF low, high
<1>6. ASSUME Apart # {} PROVE FALSE
  <2>1. PICK k \in Apart : \A l \in Apart : k <= l
    <3>1. Apart \in SUBSET Nat
      BY <1>1, <1>2
    <3> HIDE DEF Apart
    <3>2. QED
      BY <1>6, <3>1, Least
  <2>2. k \in low..high /\ k # low
    BY <2>1
  <2>3. k \in low + 1..high /\ k \in 1..high /\ k - 1 \in low..high
    BY <1>1, <1>2, <2>2
  <2>4. g[k - 1] = g[low]
    BY <1>1, <1>2, <2>1, <2>3
  <2>5. g[k] = g[k - 1] + t[k].drops /\ t[k].drops = 0 /\ g[k - 1] \in Nat
    BY <1>1, <1>2, <1>3, <2>3 DEF Sums, Naturals
  <2>6. QED
    BY <2>1, <2>4, <2>5
<1>7. g[high] = g[low]
  <2>1. low \in Nat /\ high \in Nat /\ low <= high
    BY <1>1, <1>2
  <2>2. high \in low..high /\ high \notin Apart
    BY <1>6, <2>1
  <2>3. QED
    BY <2>2
<1>8. QED
  BY <1>4, <1>5, <1>7 DEF t

-----------------------------------------------------------------------------
(* What a probe has handed over and what it holds, as one queue.           *)

Before(x, y) == x.world = y.world => x.ord < y.ord \/ (x.drops > 0 /\ x.ord = y.ord + 1)
Given(ord, m, x) == IF x.world = "isolated" THEN x.ord <= ord ELSE x.ord < m

Ordered(q) == \A i, j \in 1..Len(q) : i < j => Before(q[i], q[j])
AllBefore(q, x) == \A i \in 1..Len(q) : Before(q[i], x)

LEMMA Joined ==
    ASSUME NEW s \in Seq(Record), NEW t \in Seq(Record)
    PROVE  s \o t \in Seq(Record) /\ s \o <<>> = s
BY ConcatProperties, ConcatEmptySeq

LEMMA JoinedAgain ==
    ASSUME NEW s \in Seq(Record), NEW t \in Seq(Record), NEW u \in Seq(Record)
    PROVE  s \o (t \o u) = (s \o t) \o u
BY ConcatAssociative

LEMMA JoinedAppend ==
    ASSUME NEW s \in Seq(Record), NEW t \in Seq(Record), NEW x \in Record
    PROVE  s \o Append(t, x) = Append(s \o t, x)
<1> DEFINE left == s \o Append(t, x)
           right == Append(s \o t, x)
<1>1. left \in Seq(Record) /\ right \in Seq(Record) /\ Len(left) = Len(right)
  OBVIOUS
<1>2. \A i \in 1..Len(left) : left[i] = right[i]
  OBVIOUS
<1>3. QED
  BY <1>1, <1>2, SeqEqual

(* A queue in order, of records that were numbered up to ord by the probe  *)
(* and below m by the main world's.                                        *)
QueueOK(q, ord, m) ==
    /\ q \in Seq(Record)
    /\ Ordered(q)
    /\ \A i \in 1..Len(q) : Given(ord, m, q[i])

LEMMA QueueAppend ==
    ASSUME NEW q, NEW ord \in Nat, NEW m \in Nat, QueueOK(q, ord, m),
           NEW x \in Record, AllBefore(q, x), Given(ord, m, x)
    PROVE  QueueOK(Append(q, x), ord, m)
<1> DEFINE r == Append(q, x)
<1>1. /\ q \in Seq(Record) /\ r \in Seq(Record)
      /\ Len(q) \in Nat /\ Len(r) = Len(q) + 1 /\ r[Len(q) + 1] = x
      /\ \A i \in 1..Len(q) : r[i] = q[i]
  BY DEF QueueOK
<1> HIDE DEF r
<1>2. \A i \in 1..Len(r) : i \in 1..Len(q) \/ i = Len(q) + 1
  BY <1>1
<1>3. ASSUME NEW i \in 1..Len(r), NEW j \in 1..Len(r), i < j PROVE Before(r[i], r[j])
  <2>1. i \in 1..Len(q)
    BY <1>1, <1>3
  <2>2. CASE j \in 1..Len(q)
    BY <1>1, <1>3, <2>1, <2>2 DEF QueueOK, Ordered
  <2>3. CASE j = Len(q) + 1
    BY <1>1, <2>1, <2>3 DEF AllBefore
  <2>4. QED
    BY <1>2, <2>2, <2>3
<1>4. \A i \in 1..Len(r) : Given(ord, m, r[i])
  BY <1>1, <1>2 DEF QueueOK
<1>5. QED
  BY <1>1, <1>3, <1>4 DEF QueueOK, Ordered, r

(* A queue bears higher counts.                                            *)
LEMMA QueueLater ==
    ASSUME NEW q, NEW ord \in Nat, NEW m \in Nat, QueueOK(q, ord, m),
           NEW ord2 \in Nat, NEW m2 \in Nat, ord <= ord2, m <= m2
    PROVE  QueueOK(q, ord2, m2)
<1>1. \A i \in 1..Len(q) : q[i].ord \in Nat
  <2>1. \A i \in 1..Len(q) : q[i] \in Record
    BY ElementOfSeq DEF QueueOK
  <2>2. QED
    BY <2>1 DEF Record
<1>2. \A i \in 1..Len(q) : Given(ord2, m2, q[i])
  BY <1>1 DEF QueueOK, Given
<1>3. QED
  BY <1>2 DEF QueueOK

(* The next number comes after all of the queue.                           *)
LEMMA QueueNext ==
    ASSUME NEW q, NEW ord \in Nat, NEW m \in Nat, QueueOK(q, ord, m),
           NEW x, x.world \in Worlds,
           x.ord = IF x.world = "isolated" THEN ord + 1 ELSE m
    PROVE  AllBefore(q, x)
<1>1. \A i \in 1..Len(q) : q[i].ord \in Nat /\ Given(ord, m, q[i])
  <2>1. \A i \in 1..Len(q) : q[i] \in Record
    BY ElementOfSeq DEF QueueOK
  <2>2. QED
    BY <2>1 DEF Record, QueueOK
<1>2. QED
  BY <1>1 DEF AllBefore, Before, Given

(* The report of drops goes behind the queue, and may overtake the record  *)
(* that was numbered last.                                                 *)
LEMMA QueueReport ==
    ASSUME NEW q, NEW ord \in Nat, NEW m \in Nat, QueueOK(q, ord, m),
           NEW drops \in Nat, drops > 0
    PROVE  LET x == Made("isolated", ord + 1, {}, drops)
           IN  /\ QueueOK(Append(q, x), ord + 1, m)
               /\ \A y \in Record : AllBefore(q, y) /\ (y.world = "isolated" => y.ord = ord)
                     => AllBefore(Append(q, x), y)
<1> DEFINE x == Made("isolated", ord + 1, {}, drops)
           r == Append(q, x)
<1>1. /\ x \in Record /\ x.world = "isolated" /\ x.ord = ord + 1 /\ x.drops = drops
  BY DEF Made, Record, Worlds
<1> HIDE DEF x
<1>2. QueueOK(q, ord + 1, m)
  BY QueueLater
<1>3. AllBefore(q, x)
  BY <1>1, QueueNext DEF Worlds
<1>4. QueueOK(r, ord + 1, m)
  BY <1>1, <1>2, <1>3, QueueAppend DEF Given
<1>5. ASSUME NEW y \in Record, AllBefore(q, y), y.world = "isolated" => y.ord = ord
      PROVE  AllBefore(r, y)
  <2>1. /\ q \in Seq(Record) /\ Len(q) \in Nat /\ Len(r) = Len(q) + 1 /\ r[Len(q) + 1] = x
        /\ \A i \in 1..Len(q) : r[i] = q[i]
    BY <1>1 DEF QueueOK
  <2> HIDE DEF r
  <2>2. Before(x, y)
    BY <1>1, <1>5 DEF Before
  <2>3. \A i \in 1..Len(r) : i \in 1..Len(q) \/ i = Len(q) + 1
    BY <2>1
  <2>4. QED
    BY <1>5, <2>1, <2>2, <2>3 DEF AllBefore
<1>6. QED
  BY <1>4, <1>5 DEF x

(* What is left of a queue when its end is lost.                           *)
LEMMA QueuePart ==
    ASSUME NEW t \in Seq(Record), NEW b \in Seq(Record)
    PROVE  /\ \A ord, m \in Nat : QueueOK(t \o b, ord, m) => QueueOK(t, ord, m)
           /\ \A y : AllBefore(t \o b, y) => AllBefore(t, y)
<1> DEFINE q == t \o b
<1>1. /\ Len(t) \in Nat /\ Len(b) \in Nat /\ Len(q) = Len(t) + Len(b)
      /\ \A i \in 1..Len(t) : q[i] = t[i]
  OBVIOUS
<1> HIDE DEF q
<1>2. \A i \in 1..Len(t) : i \in 1..Len(q)
  BY <1>1
<1>3. Ordered(q) => Ordered(t)
  BY <1>1, <1>2 DEF Ordered
<1>4. \A ord, m \in Nat : QueueOK(q, ord, m) => QueueOK(t, ord, m)
  BY <1>1, <1>2, <1>3 DEF QueueOK
<1>5. \A y : AllBefore(q, y) => AllBefore(t, y)
  BY <1>1, <1>2 DEF AllBefore
<1>6. QED
  BY <1>4, <1>5 DEF q

-----------------------------------------------------------------------------
(* One probe, of which the sensor has s and is being given p.out.          *)

Parts == {"buffer", "gathered", "dropped", "ord", "timer", "listens", "out", "lost", "threw"}

ProbeType(p) ==
    /\ DOMAIN p = Parts
    /\ p.buffer \in Seq(Record) /\ p.out \in Seq(Record) /\ p.gathered \subseteq Changes
    /\ p.dropped \in Nat /\ p.ord \in Nat /\ p.lost \in Nat
    /\ p.timer \in BOOLEAN /\ p.listens \in BOOLEAN /\ p.threw \in BOOLEAN

Queue(s, p) == (s \o p.out) \o p.buffer

Told(s, p) == p.dropped + Reported(s \o p.out)
LossOK(s, p) == IF p.threw THEN Told(s, p) > 0 ELSE Told(s, p) >= p.lost

ProbeOK(s, p, m) ==
    /\ ProbeType(p)
    /\ QueueOK(Queue(s, p), p.ord, m)
    /\ \A k \in 1..Len(p.buffer) : p.buffer[k].drops = 0
    /\ Len(p.buffer) <= MaxBuffer
    /\ LossOK(s, p)

LEMMA ReportedNat == ASSUME NEW s \in Seq(Record) PROVE Reported(s) \in Nat
<1>1. Len(s) \in Nat /\ Len(s) \in 0..Len(s)
  OBVIOUS
<1>2. PICK f : Sums(f, s, Len(s)) /\ Naturals(f, Len(s))
  BY <1>1, SumsExist
<1>3. QED
  BY <1>1, <1>2, ReportedPart

(* flush, told apart by what the binding does and whether there are drops. *)
LEMMA FlushParts ==
    ASSUME NEW p, ProbeType(p), NEW ok \in BOOLEAN, p.buffer # <<>>, bound
    PROVE  LET q == Flush(p, ok)
           IN  /\ ProbeType(q) /\ q.buffer = <<>> /\ q.gathered = p.gathered
               /\ q.ord = IF p.dropped = 0 THEN p.ord ELSE p.ord + 1
               /\ Batch(p) \in Seq(Record)
               /\ q.listens = p.listens
               /\ ok => /\ q.out = p.out \o Batch(p) /\ q.dropped = 0
                         /\ q.threw = p.threw /\ q.lost = p.lost
               /\ ~ok => /\ q.out = p.out /\ q.dropped = Len(Batch(p)) /\ q.threw
                          /\ q.dropped > 0
<1> DEFINE batch == Batch(p)
           base == [p EXCEPT !.buffer = <<>>, !.dropped = 0,
                             !.ord = @ + (IF p.dropped = 0 THEN 0 ELSE 1)]
           sent == [base EXCEPT !.out = @ \o batch]
           lost == [base EXCEPT !.dropped = Len(batch), !.threw = TRUE,
                                !.lost = @ + Len(p.buffer)]
<1>1. batch \in Seq(Record) /\ Len(batch) \in Nat /\ Len(batch) > 0 /\ Len(p.buffer) \in Nat
  <2>1. p.buffer \in Seq(Record) /\ Len(p.buffer) \in Nat /\ Len(p.buffer) > 0
    BY EmptySeq DEF ProbeType
  <2>2. p.dropped # 0 => Made("isolated", p.ord + 1, {}, p.dropped) \in Record
    BY DEF Made, Record, Worlds, ProbeType
  <2>3. QED
    BY <2>1, <2>2 DEF Batch
<1>2. Flush(p, ok) = IF ok THEN sent ELSE lost
  BY DEF Flush
<1> HIDE DEF batch
<1>3. /\ DOMAIN base = Parts /\ base.buffer = <<>> /\ base.dropped = 0
      /\ base.ord = IF p.dropped = 0 THEN p.ord ELSE p.ord + 1
      /\ base.gathered = p.gathered /\ base.timer = p.timer /\ base.listens = p.listens
      /\ base.out = p.out /\ base.lost = p.lost /\ base.threw = p.threw
      /\ base.ord \in Nat
  BY DEF ProbeType, Parts
<1>9. p.out \o batch \in Seq(Record)
  BY <1>1, Joined DEF ProbeType
<1>4. /\ ProbeType(sent) /\ sent.buffer = <<>> /\ sent.gathered = p.gathered
      /\ sent.ord = base.ord /\ sent.listens = p.listens
      /\ sent.out = p.out \o batch /\ sent.dropped = 0
      /\ sent.threw = p.threw /\ sent.lost = p.lost
  BY <1>1, <1>9 DEF ProbeType, Parts
<1>5. /\ ProbeType(lost) /\ lost.buffer = <<>> /\ lost.gathered = p.gathered
      /\ lost.ord = base.ord /\ lost.listens = p.listens
      /\ lost.out = p.out /\ lost.dropped = Len(batch) /\ lost.threw
  BY <1>1 DEF ProbeType, Parts
<1> HIDE DEF sent, lost, base
<1>6. QED
  BY <1>1, <1>2, <1>3, <1>4, <1>5 DEF batch

LEMMA FlushOK ==
    ASSUME NEW s \in Seq(Record), NEW p, NEW m \in Nat, NEW ok \in BOOLEAN,
           ProbeOK(s, p, m)
    PROVE  LET q == Flush(p, ok)
           IN  /\ ProbeOK(s, q, m)
               /\ q.gathered = p.gathered /\ p.ord <= q.ord
               /\ bound => q.buffer = <<>>
               /\ \A y \in Record :
                    AllBefore(Queue(s, p), y) /\ (y.world = "isolated" => y.ord = p.ord)
                        => AllBefore(Queue(s, q), y)
<1> DEFINE q == Flush(p, ok)
           t == s \o p.out
           b == p.buffer
           batch == Batch(p)
<1>1. /\ ProbeType(p) /\ p.buffer \in Seq(Record) /\ p.out \in Seq(Record)
      /\ p.ord \in Nat /\ p.dropped \in Nat
  BY DEF ProbeOK, ProbeType
<1>2. CASE p.buffer = <<>> \/ ~bound
  BY <1>1, <1>2 DEF Flush
<1>3. CASE p.buffer # <<>> /\ bound
  <2>1. /\ ProbeType(q) /\ q.buffer = <<>> /\ q.gathered = p.gathered
        /\ q.ord = IF p.dropped = 0 THEN p.ord ELSE p.ord + 1
        /\ batch \in Seq(Record)
        /\ ok => /\ q.out = p.out \o batch /\ q.dropped = 0
                  /\ q.threw = p.threw /\ q.lost = p.lost
        /\ ~ok => /\ q.out = p.out /\ q.dropped = Len(batch) /\ q.threw /\ q.dropped > 0
    BY <1>1, <1>3, FlushParts
  <2>2. t \in Seq(Record) /\ b \in Seq(Record) /\ Reported(t) \in Nat
    BY <1>1, Joined, ReportedNat
  <2>3. /\ QueueOK(t \o b, p.ord, m) /\ Reported(t \o b) = Reported(t)
        /\ t \o b \in Seq(Record)
    BY <1>1, <2>2, Joined, ReportedConcat DEF ProbeOK, Queue
  <2>4. p.ord <= q.ord /\ q.ord \in Nat
    BY <1>1, <2>1
  <2>5. Len(q.buffer) = 0 /\ Len(q.buffer) <= MaxBuffer
    BY <2>1, BoundAssumption
  <2> HIDE DEF q, t, b, batch
  <2>6. CASE ~ok
    <3>1. Queue(s, q) = t
      BY <2>1, <2>2, <2>6, Joined DEF Queue, t
    <3>2. QueueOK(t, q.ord, m)
      <4>1. QueueOK(t, p.ord, m)
        BY <2>2, <2>3, <1>1, QueuePart
      <4>2. QED
        BY <2>4, <1>1, <4>1, QueueLater
    <3>3. \A y \in Record : AllBefore(Queue(s, p), y) => AllBefore(t, y)
      BY <2>2, QueuePart DEF Queue, t, b
    <3>4. LossOK(s, q)
      <4>1. q.dropped \in Nat
        BY <2>1 DEF ProbeType
      <4>2. Told(s, q) > 0
        BY <2>1, <2>2, <2>6, <4>1 DEF Told, t
      <4>3. QED
        BY <2>1, <2>6, <4>2 DEF LossOK
    <3>5. QED
      BY <2>1, <2>4, <2>5, <3>1, <3>2, <3>3, <3>4 DEF ProbeOK, q
  <2>7. CASE ok
    <3>1. /\ s \o q.out = t \o batch /\ Queue(s, q) = t \o batch
          /\ t \o batch \in Seq(Record)
      <4>1. s \o q.out = t \o batch
        <5>1. s \o (p.out \o batch) = (s \o p.out) \o batch
          <6>1. p.out \in Seq(Record) /\ batch \in Seq(Record)
            BY <1>1, <2>1
          <6>2. QED
            BY <6>1, JoinedAgain, Zenon
        <5>2. QED
          BY <2>1, <2>7, <5>1 DEF t
      <4>2. QED
        BY <2>1, <2>2, <4>1, Joined DEF Queue
    <3>2. /\ QueueOK(t \o batch, q.ord, m)
          /\ \A y \in Record : AllBefore(t \o b, y) /\ (y.world = "isolated" => y.ord = p.ord)
                => AllBefore(t \o batch, y)
          /\ Reported(t \o batch) = Reported(t) + p.dropped
      <4>1. CASE p.dropped = 0
        <5>1. batch = b
          BY <4>1 DEF Batch, batch, b
        <5>2. QED
          BY <1>1, <2>1, <2>2, <2>3, <4>1, <5>1
      <4>2. CASE p.dropped # 0
        <5> DEFINE x == Made("isolated", p.ord + 1, {}, p.dropped)
        <5>1. x \in Record /\ x.drops = p.dropped
          BY <1>1 DEF Made, Record, Worlds
        <5>2. batch = Append(b, x)
          BY <4>2 DEF Batch, batch, b
        <5>8. t \o b \in Seq(Record) /\ p.dropped > 0
          BY <1>1, <2>3, <4>2
        <5>3. QueueOK(Append(t \o b, x), p.ord + 1, m)
          BY <1>1, <2>3, <5>8, QueueReport
        <5>4. \A y \in Record :
                AllBefore(t \o b, y) /\ (y.world = "isolated" => y.ord = p.ord)
                    => AllBefore(Append(t \o b, x), y)
          BY <1>1, <2>3, <5>8, QueueReport
        <5>5. Reported(Append(t \o b, x)) = Reported(t \o b) + x.drops
          BY <2>3, <5>1, ReportedAppend
        <5> HIDE DEF x
        <5>6. t \o Append(b, x) = Append(t \o b, x)
          BY <2>2, <5>1, JoinedAppend
        <5>7. QED
          BY <2>1, <2>3, <4>2, <5>1, <5>2, <5>3, <5>4, <5>5, <5>6
      <4>3. QED
        BY <4>1, <4>2
    <3>3. Told(s, q) = Told(s, p)
      BY <1>1, <2>1, <2>2, <2>7, <3>1, <3>2 DEF Told, t
    <3>4. LossOK(s, q)
      BY <2>1, <2>7, <3>3 DEF LossOK, ProbeOK
    <3>5. ProbeOK(s, q, m)
      BY <2>1, <2>5, <3>1, <3>2, <3>4 DEF ProbeOK
    <3>6. QED
      BY <2>1, <2>4, <3>1, <3>2, <3>5 DEF q, Queue, t, b
  <2>8. QED
    BY <2>6, <2>7
<1>4. QED
  BY <1>2, <1>3

(* A count of drops is raised; numbers and counts grow.                    *)
LEMMA ProbeLater ==
    ASSUME NEW s \in Seq(Record), NEW p, NEW m \in Nat, ProbeOK(s, p, m),
           NEW m2 \in Nat, m <= m2, NEW ord \in Nat, p.ord <= ord
    PROVE  LET q == [p EXCEPT !.ord = ord]
           IN  /\ ProbeOK(s, q, m2) /\ Queue(s, q) = Queue(s, p) /\ q.buffer = p.buffer
               /\ q.gathered = p.gathered /\ q.ord = ord
<1> DEFINE q == [p EXCEPT !.ord = ord]
<1>1. /\ ProbeType(q) /\ q.buffer = p.buffer /\ q.out = p.out /\ q.dropped = p.dropped
      /\ q.threw = p.threw /\ q.lost = p.lost /\ q.gathered = p.gathered /\ q.ord = ord
  BY DEF ProbeOK, ProbeType, Parts
<1> HIDE DEF q
<1>2. Queue(s, q) = Queue(s, p) /\ (LossOK(s, p) => LossOK(s, q))
  BY <1>1 DEF Queue, LossOK, Told
<1>3. QueueOK(Queue(s, p), ord, m2)
  BY QueueLater DEF ProbeOK, ProbeType
<1>4. QED
  BY <1>1, <1>2, <1>3 DEF ProbeOK, q

(* What accept does to a probe: a record that comes after all of the queue *)
(* keeps its order, whatever is flushed or dropped to make room.           *)
LEMMA AcceptOK ==
    ASSUME NEW s \in Seq(Record), NEW p, NEW m \in Nat, ProbeOK(s, p, m),
           NEW x \in Record, AllBefore(Queue(s, p), x), Given(p.ord, m, x), x.drops = 0,
           x.world = "isolated" => x.ord = p.ord,
           NEW fast \in BOOLEAN, NEW ok \in BOOLEAN
    PROVE  LET q == Accept(p, x, fast, ok)
           IN  ProbeOK(s, q, m) /\ q.gathered = p.gathered
<1> DEFINE more == [p EXCEPT !.dropped = @ + 1]
           roomy == IF Len(p.buffer) < MaxBuffer THEN p ELSE Flush(more, ok)
           taken == [roomy EXCEPT !.buffer = Append(@, x)]
           refused == [roomy EXCEPT !.lost = @ + 1]
           timed == [taken EXCEPT !.timer = TRUE]
<1>1. Accept(p, x, fast, ok) =
        IF Len(roomy.buffer) >= MaxBuffer THEN refused
        ELSE IF Len(taken.buffer) >= MaxBuffer \/ fast THEN Flush(taken, ok) ELSE timed
  BY DEF Accept
<1>2. /\ p.buffer \in Seq(Record) /\ Len(p.buffer) \in Nat /\ MaxBuffer \in Nat
      /\ MaxBuffer > 0 /\ p.out \in Seq(Record) /\ p.ord \in Nat
      /\ Reported(s \o p.out) \in Nat
  <2>1. p.buffer \in Seq(Record) /\ p.out \in Seq(Record) /\ p.ord \in Nat
    BY DEF ProbeOK, ProbeType
  <2>2. Reported(s \o p.out) \in Nat
    BY <2>1, Joined, ReportedNat
  <2>3. QED
    BY BoundAssumption, <2>1, <2>2
<1>3. /\ ProbeOK(s, more, m) /\ Queue(s, more) = Queue(s, p) /\ more.ord = p.ord
      /\ more.gathered = p.gathered /\ more.buffer = p.buffer /\ more.out = p.out
      /\ more.lost = p.lost /\ more.threw = p.threw /\ more.dropped = p.dropped + 1
  <2>1. /\ ProbeType(more) /\ more.ord = p.ord
        /\ more.gathered = p.gathered /\ more.buffer = p.buffer /\ more.out = p.out
        /\ more.lost = p.lost /\ more.threw = p.threw /\ more.dropped = p.dropped + 1
    BY DEF ProbeOK, ProbeType, Parts
  <2> HIDE DEF more
  <2>2. Queue(s, more) = Queue(s, p)
    BY <2>1 DEF Queue
  <2>3. Told(s, more) = Told(s, p) + 1 /\ Told(s, p) \in Nat /\ p.lost \in Nat
    BY <1>2, <2>1 DEF Told, ProbeOK, ProbeType
  <2>4. LossOK(s, more)
    BY <2>1, <2>3 DEF LossOK, ProbeOK
  <2>5. QED
    BY <2>1, <2>2, <2>4 DEF ProbeOK
<1>4. /\ ProbeOK(s, roomy, m) /\ roomy.gathered = p.gathered /\ p.ord <= roomy.ord
      /\ AllBefore(Queue(s, roomy), x)
      /\ Len(roomy.buffer) >= MaxBuffer => roomy = more
  <2>1. CASE Len(p.buffer) < MaxBuffer
    BY <1>2, <2>1
  <2>2. CASE Len(p.buffer) >= MaxBuffer
    <3> HIDE DEF more
    <3>1. roomy = Flush(more, ok)
      BY <1>2, <2>2
    <3>2. /\ ProbeOK(s, roomy, m) /\ roomy.gathered = p.gathered /\ p.ord <= roomy.ord
          /\ AllBefore(Queue(s, roomy), x) /\ (bound => roomy.buffer = <<>>)
      BY <1>3, <3>1, FlushOK
    <3>3. ~bound => roomy = more
      BY <3>1 DEF Flush
    <3>4. roomy.buffer = <<>> => Len(roomy.buffer) < MaxBuffer
      BY <1>2
    <3>5. QED
      BY <1>2, <3>2, <3>3, <3>4
  <2>3. QED
    BY <1>2, <2>1, <2>2
<1> HIDE DEF roomy, more
<1>5. CASE Len(roomy.buffer) >= MaxBuffer
  <2>1. roomy = more
    BY <1>4, <1>5
  <2>2. /\ ProbeType(refused) /\ refused.ord = p.ord
        /\ refused.gathered = p.gathered /\ refused.buffer = p.buffer /\ refused.out = p.out
        /\ refused.lost = p.lost + 1 /\ refused.threw = p.threw
        /\ refused.dropped = p.dropped + 1
    BY <1>3, <2>1 DEF ProbeOK, ProbeType, Parts
  <2> HIDE DEF refused
  <2>3. Queue(s, refused) = Queue(s, p)
    BY <2>2 DEF Queue
  <2>4. Told(s, refused) = Told(s, p) + 1 /\ Told(s, p) \in Nat /\ p.lost \in Nat
    <3>1. p.dropped \in Nat /\ p.lost \in Nat
      BY DEF ProbeOK, ProbeType
    <3>2. s \o refused.out = s \o p.out /\ refused.dropped = p.dropped + 1
      BY <2>2
    <3>3. QED
      BY <1>2, <3>1, <3>2 DEF Told
  <2>5. LossOK(s, refused)
    BY <2>2, <2>4 DEF LossOK, ProbeOK
  <2>6. ProbeOK(s, refused, m)
    BY <2>2, <2>3, <2>5 DEF ProbeOK
  <2>7. QED
    BY <1>1, <1>5, <2>2, <2>6
<1>6. CASE ~(Len(roomy.buffer) >= MaxBuffer)
  <2>1. /\ roomy.buffer \in Seq(Record) /\ roomy.out \in Seq(Record) /\ roomy.ord \in Nat
        /\ s \o roomy.out \in Seq(Record)
    BY <1>4, Joined DEF ProbeOK, ProbeType
  <2>2. /\ ProbeType(taken) /\ taken.ord = roomy.ord
        /\ taken.gathered = p.gathered /\ taken.buffer = Append(roomy.buffer, x)
        /\ taken.out = roomy.out /\ taken.lost = roomy.lost /\ taken.threw = roomy.threw
        /\ taken.dropped = roomy.dropped
    BY <1>4, <2>1 DEF ProbeOK, ProbeType, Parts
  <2>3. /\ ProbeType(timed) /\ timed.ord = roomy.ord
        /\ timed.gathered = p.gathered /\ timed.buffer = Append(roomy.buffer, x)
        /\ timed.out = roomy.out /\ timed.lost = roomy.lost /\ timed.threw = roomy.threw
        /\ timed.dropped = roomy.dropped
    BY <2>2 DEF ProbeType, Parts
  <2>4. QueueOK(Append(Queue(s, roomy), x), roomy.ord, m)
    <3>1. Given(roomy.ord, m, x)
      BY <1>2, <1>4, <2>1 DEF Given, Record
    <3>2. QED
      BY <1>4, <2>1, <3>1, QueueAppend DEF ProbeOK
  <2>5. (s \o roomy.out) \o Append(roomy.buffer, x) = Append(Queue(s, roomy), x)
    BY <2>1, JoinedAppend DEF Queue
  <2>6. /\ Len(Append(roomy.buffer, x)) <= MaxBuffer
        /\ \A k \in 1..Len(Append(roomy.buffer, x)) : Append(roomy.buffer, x)[k].drops = 0
    <3>1. \A k \in 1..Len(roomy.buffer) : roomy.buffer[k].drops = 0
      BY <1>4 DEF ProbeOK
    <3> DEFINE b == roomy.buffer
               c == Append(b, x)
    <3>2. /\ Len(b) \in Nat /\ Len(c) = Len(b) + 1 /\ c[Len(b) + 1] = x
          /\ \A k \in 1..Len(b) : c[k] = b[k]
      BY <2>1
    <3> HIDE DEF c
    <3>3. Len(b) < MaxBuffer
      BY <1>2, <1>6, <3>2
    <3>4. \A k \in 1..Len(c) : k \in 1..Len(b) \/ k = Len(b) + 1
      BY <3>2
    <3>5. \A k \in 1..Len(c) : c[k].drops = 0
      BY <3>1, <3>2, <3>4
    <3>6. Len(c) <= MaxBuffer
      BY <1>2, <3>2, <3>3
    <3>7. QED
      BY <3>5, <3>6 DEF c
  <2> HIDE DEF taken, timed
  <2>7. ASSUME NEW q, ProbeType(q), q.ord = roomy.ord, q.buffer = Append(roomy.buffer, x),
               q.out = roomy.out, q.lost = roomy.lost, q.threw = roomy.threw,
               q.dropped = roomy.dropped
        PROVE  ProbeOK(s, q, m)
    <3>1. Queue(s, q) = Append(Queue(s, roomy), x)
      BY <2>5, <2>7 DEF Queue
    <3>2. LossOK(s, q)
      BY <1>4, <2>7 DEF LossOK, Told, ProbeOK
    <3>3. QED
      BY <2>4, <2>6, <2>7, <3>1, <3>2 DEF ProbeOK
  <2>8. ProbeOK(s, taken, m) /\ ProbeOK(s, timed, m)
    BY <2>2, <2>3, <2>7
  <2>9. ProbeOK(s, Flush(taken, ok), m) /\ Flush(taken, ok).gathered = p.gathered
    BY <2>2, <2>8, FlushOK
  <2>10. QED
    BY <1>1, <1>6, <2>3, <2>8, <2>9
<1>7. QED
  BY <1>5, <1>6

LEMMA EmitOK ==
    ASSUME NEW s \in Seq(Record), NEW p, NEW m \in Nat, ProbeOK(s, p, m),
           NEW what \in SUBSET Actions, NEW fast \in BOOLEAN, NEW ok \in BOOLEAN
    PROVE  /\ ProbeOK(s, Emit(p, what, fast, ok), m)
           /\ Emit(p, what, fast, ok).gathered = p.gathered
<1> DEFINE x == Made("isolated", p.ord + 1, what, 0)
           numbered == [p EXCEPT !.ord = @ + 1]
           next == [p EXCEPT !.ord = p.ord + 1]
<1>1. p.ord \in Nat /\ p.ord + 1 \in Nat /\ p.ord <= p.ord + 1
  BY DEF ProbeOK, ProbeType
<1>2. numbered = next
  OBVIOUS
<1>3. /\ ProbeOK(s, next, m) /\ Queue(s, next) = Queue(s, p)
      /\ next.gathered = p.gathered /\ next.ord = p.ord + 1
  BY <1>1, ProbeLater
<1>4. /\ x \in Record /\ x.world = "isolated" /\ x.ord = p.ord + 1 /\ x.drops = 0
  BY <1>1 DEF Made, Record, Worlds
<1>5. Emit(p, what, fast, ok) = Accept(next, x, fast, ok)
  BY <1>2 DEF Emit
<1> HIDE DEF x, next, numbered
<1>6. AllBefore(Queue(s, next), x)
  BY <1>1, <1>3, <1>4, QueueNext DEF ProbeOK, Worlds
<1>7. Given(next.ord, m, x)
  BY <1>1, <1>3, <1>4 DEF Given
<1>8. QED
  BY <1>3, <1>4, <1>5, <1>6, <1>7, AcceptOK

LEMMA FlushMutationsOK ==
    ASSUME NEW s \in Seq(Record), NEW p, NEW m \in Nat, ProbeOK(s, p, m), NEW ok \in BOOLEAN
    PROVE  LET q == FlushMutations(p, ok)
           IN  ProbeOK(s, q, m) /\ q.gathered = {}
<1>1. CASE p.gathered = {}
  BY <1>1 DEF FlushMutations
<1>2. CASE p.gathered # {}
  <2> DEFINE none == [p EXCEPT !.gathered = {}]
  <2>1. /\ ProbeType(none) /\ none.ord = p.ord /\ none.gathered = {}
        /\ none.buffer = p.buffer /\ none.out = p.out
        /\ none.lost = p.lost /\ none.threw = p.threw /\ none.dropped = p.dropped
    BY DEF ProbeOK, ProbeType, Parts
  <2>2. p.gathered \in SUBSET Actions
    BY DEF ProbeOK, ProbeType, Actions
  <2>3. FlushMutations(p, ok) = Emit(none, p.gathered, FALSE, ok)
    BY <1>2 DEF FlushMutations
  <2> HIDE DEF none
  <2>4. ProbeOK(s, none, m)
    BY <2>1 DEF ProbeOK, Queue, LossOK, Told
  <2> DEFINE q == Emit(none, p.gathered, FALSE, ok)
  <2>5. ProbeOK(s, q, m) /\ q.gathered = none.gathered
    <3>1. \A fast \in BOOLEAN :
            LET e == Emit(none, p.gathered, fast, ok)
            IN  ProbeOK(s, e, m) /\ e.gathered = none.gathered
      BY <2>2, <2>4, EmitOK
    <3>2. QED
      BY <3>1, Zenon
  <2> HIDE DEF q
  <2>6. QED
    BY <2>1, <2>3, <2>5 DEF q
<1>3. QED
  BY <1>1, <1>2

(* Pushed out to a binding, a probe holds nothing.                         *)
LEMMA PushOutOK ==
    ASSUME NEW s \in Seq(Record), NEW p, NEW m \in Nat, ProbeOK(s, p, m), NEW ok \in BOOLEAN
    PROVE  LET q == PushOut(p, ok)
           IN  /\ ProbeOK(s, q, m) /\ q.gathered = {}
               /\ bound => q.buffer = <<>>
BY FlushMutationsOK, FlushOK DEF PushOut

-----------------------------------------------------------------------------
(* The probes of a document and the log.                                   *)

Channel(ps, lg, d, m) ==
    /\ DOMAIN ps = 1..Len(ps) /\ Len(ps) \in 1..MaxProbes
    /\ ps = [i \in 1..Len(ps) |-> ps[i]]
    /\ \A i \in 1..Len(ps) : ps[i].out = <<>> /\ ProbeOK(lg[d][i], ps[i], m)
    /\ lg \in [1..MaxDocs -> [1..MaxProbes -> Seq(Record)]]
    /\ \A e \in 1..MaxDocs, v \in 1..MaxProbes : Ordered(lg[e][v])
    /\ \A v \in 1..MaxProbes : v > Len(ps) => lg[d][v] = <<>>
    /\ \A e \in 1..MaxDocs, v \in 1..MaxProbes : e > d => lg[e][v] = <<>>

(* What a probe puts out is logged and forgotten.                          *)
LEMMA SettledOK ==
    ASSUME NEW s \in Seq(Record), NEW p, NEW m \in Nat, ProbeOK(s, p, m)
    PROVE  LET q == [p EXCEPT !.out = <<>>]
           IN  /\ q.out = <<>> /\ ProbeOK(s \o p.out, q, m)
               /\ s \o p.out \in Seq(Record) /\ Ordered(s \o p.out)
<1> DEFINE q == [p EXCEPT !.out = <<>>]
           t == s \o p.out
<1>1. p.out \in Seq(Record) /\ p.buffer \in Seq(Record) /\ p.ord \in Nat
  BY DEF ProbeOK, ProbeType
<1>2. t \in Seq(Record) /\ t \o <<>> = t
  BY <1>1, Joined
<1>3. /\ ProbeType(q) /\ q.out = <<>> /\ q.buffer = p.buffer /\ q.dropped = p.dropped
      /\ q.threw = p.threw /\ q.lost = p.lost /\ q.ord = p.ord
  BY DEF ProbeOK, ProbeType, Parts
<1> HIDE DEF q
<1>4. Queue(t, q) = Queue(s, p)
  BY <1>2, <1>3 DEF Queue
<1>5. Told(t, q) = Told(s, p)
  BY <1>2, <1>3 DEF Told
<1>6. ProbeOK(t, q, m)
  BY <1>3, <1>4, <1>5 DEF ProbeOK, LossOK
<1>7. Ordered(t)
  <2>1. QueueOK(t \o p.buffer, p.ord, m)
    BY DEF ProbeOK, Queue
  <2>2. QueueOK(t, p.ord, m)
    BY <1>1, <1>2, <2>1, QueuePart
  <2>3. QED
    BY <2>2 DEF QueueOK
<1>8. QED
  BY <1>2, <1>3, <1>6, <1>7 DEF q

LEMMA ChannelStep ==
    ASSUME doc \in 1..MaxDocs, NEW m \in Nat, Channel(probes, log, doc, m),
           NEW after, DOMAIN after = 1..Len(probes), NEW m2 \in Nat,
           \A i \in 1..Len(probes) : ProbeOK(log[doc][i], after[i], m2)
    PROVE  Channel(Settle(after), Logged(after), doc, m2) /\ Len(Settle(after)) = Len(probes)
<1> DEFINE ps == Settle(after)
           lg == Logged(after)
           n == Len(probes)
<1>1. /\ n \in 1..MaxProbes /\ n \in Nat
      /\ log \in [1..MaxDocs -> [1..MaxProbes -> Seq(Record)]]
  BY BoundAssumption DEF Channel
<1>2. DOMAIN ps = 1..n /\ Len(ps) = n /\ \A i \in 1..n : ps[i] = [after[i] EXCEPT !.out = <<>>]
  BY <1>1 DEF Settle
<1>3. \A i \in 1..n : i \in 1..MaxProbes /\ log[doc][i] \in Seq(Record)
  BY <1>1, BoundAssumption
<1>4. \A v \in 1..MaxProbes :
        lg[doc][v] = IF v \in 1..n THEN log[doc][v] \o after[v].out ELSE log[doc][v]
  BY <1>1 DEF Logged
<1>5. \A e \in 1..MaxDocs : e # doc => lg[e] = log[e]
  BY <1>1 DEF Logged
<1>6. DOMAIN lg = 1..MaxDocs /\ DOMAIN lg[doc] = 1..MaxProbes
  BY <1>1 DEF Logged
<1>7. \A i \in 1..n :
        /\ ps[i].out = <<>> /\ ProbeOK(lg[doc][i], ps[i], m2)
        /\ lg[doc][i] \in Seq(Record) /\ Ordered(lg[doc][i])
  <2> SUFFICES ASSUME NEW i \in 1..n
               PROVE  /\ ps[i].out = <<>> /\ ProbeOK(lg[doc][i], ps[i], m2)
                      /\ lg[doc][i] \in Seq(Record) /\ Ordered(lg[doc][i])
    OBVIOUS
  <2> DEFINE s == log[doc][i]
             p == after[i]
             q == [p EXCEPT !.out = <<>>]
  <2>1. s \in Seq(Record) /\ ProbeOK(s, p, m2) /\ ps[i] = q /\ lg[doc][i] = s \o p.out
    BY <1>2, <1>3, <1>4
  <2> HIDE DEF s, p, ps, lg
  <2>2. /\ q.out = <<>> /\ ProbeOK(s \o p.out, q, m2)
        /\ s \o p.out \in Seq(Record) /\ Ordered(s \o p.out)
    BY <2>1, SettledOK
  <2> HIDE DEF q
  <2>3. QED
    BY <2>1, <2>2
<1>8. \A v \in 1..MaxProbes : v > n => lg[doc][v] = <<>>
  <2>1. \A v \in 1..MaxProbes : v > n => v \notin 1..n
    BY <1>1
  <2>2. QED
    BY <1>4, <2>1 DEF Channel
<1> HIDE DEF ps, lg
<1>9. \A v \in 1..MaxProbes : lg[doc][v] \in Seq(Record) /\ Ordered(lg[doc][v])
  <2>1. \A v \in 1..MaxProbes : v \in 1..n \/ v > n
    BY <1>1
  <2>2. <<>> \in Seq(Record) /\ Ordered(<<>>)
    BY DEF Ordered
  <2>3. QED
    BY <1>7, <1>8, <2>1, <2>2
<1>10. lg \in [1..MaxDocs -> [1..MaxProbes -> Seq(Record)]]
  <2>1. DOMAIN lg[doc] = 1..MaxProbes /\ lg[doc] \in [1..MaxProbes -> Seq(Record)]
    <3>1. lg[doc] = [v \in 1..MaxProbes |-> lg[doc][v]]
      BY <1>1 DEF lg, Logged
    <3>2. QED
      BY <1>9, <3>1
  <2>2. \A e \in 1..MaxDocs : lg[e] \in [1..MaxProbes -> Seq(Record)]
    BY <1>1, <1>5, <2>1
  <2>3. lg = [e \in 1..MaxDocs |-> lg[e]]
    BY <1>1 DEF lg, Logged
  <2>4. QED
    BY <2>2, <2>3
<1>11. \A e \in 1..MaxDocs, v \in 1..MaxProbes :
        Ordered(lg[e][v]) /\ (e > doc => lg[e][v] = <<>>)
  <2>1. \A e \in 1..MaxDocs : e > doc => e # doc
    BY BoundAssumption
  <2>2. QED
    BY <1>5, <1>9, <2>1 DEF Channel
<1>14. ps = [i \in 1..Len(ps) |-> ps[i]]
  <2>1. ps = [i \in 1..n |-> ps[i]]
    BY <1>1 DEF ps, Settle
  <2>2. QED
    BY <1>2, <2>1
<1>12. Channel(ps, lg, doc, m2)
  BY <1>1, <1>2, <1>14, <1>7, <1>8, <1>10, <1>11 DEF Channel
<1>13. QED
  BY <1>2, <1>12 DEF ps, lg

(* A probe that starts, in a document of which nothing was logged for it.  *)
LEMMA NewProbeOK ==
    ASSUME NEW listens \in BOOLEAN, NEW m \in Nat
    PROVE  /\ ProbeOK(<<>>, NewProbe(listens), m)
           /\ NewProbe(listens).out = <<>>
<1> DEFINE p == NewProbe(listens)
<1>1. /\ ProbeType(p) /\ p.out = <<>> /\ p.buffer = <<>> /\ p.dropped = 0
      /\ p.lost = 0 /\ p.ord = 0 /\ p.threw = FALSE
  BY DEF NewProbe, ProbeType, Parts
<1> HIDE DEF p
<1>2. <<>> \in Seq(Record) /\ Len(<<>>) = 0
  BY EmptySeq
<1>3. Queue(<<>>, p) = <<>> /\ <<>> \o p.out = <<>>
  BY <1>1, <1>2, Joined DEF Queue
<1>4. QueueOK(<<>>, 0, m)
  BY <1>2 DEF QueueOK, Ordered
<1>5. Told(<<>>, p) \in Nat
  <2>1. Reported(<<>>) \in Nat
    BY <1>2, ReportedNat
  <2>2. Reported(<<>> \o p.out) = Reported(<<>>)
    BY <1>3
  <2>3. QED
    BY <1>1, <2>1, <2>2 DEF Told
<1>6. LossOK(<<>>, p)
  BY <1>1, <1>5 DEF LossOK
<1>7. QED
  BY <1>1, <1>2, <1>3, <1>4, <1>6, BoundAssumption DEF ProbeOK, p

-----------------------------------------------------------------------------
(* The inductive invariant.                                                *)

PageInv ==
    /\ initial \in BOOLEAN /\ doc \in 1..MaxDocs /\ bound \in BOOLEAN /\ main \in Nat
    /\ task \in [Tasks -> {"none", "main", "rearm", "done"}]
    /\ acted \subseteq Actions /\ phase \in {"capturing", "drained"}

(* The first page is armed by its init script alone.                       *)
ArmInv ==
    initial => Len(probes) = 1 /\ \A t \in Tasks : task[t] = "rearm" => t = "cover"

DrainInv == NothingLeft /\ undrained \subseteq Actions

IInv == PageInv /\ Channel(probes, log, doc, main) /\ ArmInv /\ DrainInv

LEMMA ThrowsType == Throws \subseteq BOOLEAN
BY DEF Throws

(* A step that makes the probes of the page what they become.              *)
LEMMA BecomesStep ==
    ASSUME IInv, NEW after, DOMAIN after = 1..Len(probes),
           \A i \in 1..Len(probes) : ProbeOK(log[doc][i], after[i], main'),
           Becomes(after), main' \in Nat, acted' \subseteq Actions,
           phase' \in {"capturing", "drained"}, UNCHANGED <<page, task>>, DrainInv'
    PROVE  IInv'
<1>1. Channel(probes', log', doc, main') /\ Len(probes') = Len(probes)
  BY ChannelStep DEF IInv, PageInv, Becomes
<1>2. PageInv'
  BY DEF IInv, PageInv, page
<1>3. ArmInv'
  BY <1>1 DEF IInv, ArmInv, page
<1>4. QED
  BY <1>1, <1>2, <1>3 DEF IInv, page

LEMMA ProbesAre ==
    ASSUME IInv
    PROVE  /\ DOMAIN probes = 1..Len(probes) /\ Len(probes) \in 1..MaxProbes
           /\ Len(probes) \in Nat /\ main \in Nat
           /\ \A i \in 1..Len(probes) :
                /\ log[doc][i] \in Seq(Record)
                /\ ProbeOK(log[doc][i], probes[i], main)
<1>1. \A i \in 1..Len(probes) : i \in 1..MaxProbes
  BY BoundAssumption DEF IInv, Channel
<1>2. QED
  BY <1>1, BoundAssumption DEF IInv, Channel, PageInv

LEMMA Quiet == ASSUME IInv, UNCHANGED <<page, history>> PROVE DrainInv'
BY DEF IInv, DrainInv, NothingLeft, page, history

LEMMA InitIInv == Init => IInv
<1> SUFFICES ASSUME Init PROVE IInv
  OBVIOUS
<1>1. PageInv /\ ArmInv /\ DrainInv
  BY BoundAssumption DEF Init, PageInv, ArmInv, DrainInv, NothingLeft, Tasks
<1>2. Channel(probes, log, doc, main)
  <2>1. /\ DOMAIN probes = 1..1 /\ Len(probes) = 1 /\ probes[1] = NewProbe(initial)
        /\ initial \in BOOLEAN /\ main = 0 /\ doc = 1
    BY DEF Init
  <2>2. 1 \in 1..MaxProbes /\ 1 \in 1..MaxDocs
    BY BoundAssumption
  <2>3. /\ log \in [1..MaxDocs -> [1..MaxProbes -> Seq(Record)]]
        /\ \A e \in 1..MaxDocs, v \in 1..MaxProbes : log[e][v] = <<>>
    BY DEF Init
  <2>4. ProbeOK(<<>>, probes[1], main) /\ probes[1].out = <<>>
    BY <2>1, NewProbeOK
  <2>5. Ordered(<<>>)
    BY DEF Ordered
  <2>6. probes = [i \in 1..Len(probes) |-> probes[i]]
    BY DEF Init
  <2>7. QED
    BY <2>1, <2>2, <2>3, <2>4, <2>5, <2>6 DEF Channel
<1>3. QED
  BY <1>1, <1>2 DEF IInv

(* What the probes hold when they have been pushed out to a binding.       *)
LEMMA LeftNone ==
    ASSUME NEW after, \A i \in DOMAIN after : after[i].gathered = {} /\ after[i].buffer = <<>>
    PROVE  Left(after) = {}
BY DEF Left, Range

LEMMA LeftActions ==
    ASSUME NEW after, \A i \in DOMAIN after : ProbeType(after[i])
    PROVE  Left(after) \subseteq Actions
<1>1. \A i \in DOMAIN after : after[i].gathered \subseteq Actions
  BY DEF ProbeType, Actions
<1>2. \A i \in DOMAIN after : \A k \in DOMAIN after[i].buffer :
        after[i].buffer[k].what \subseteq Actions
  <2> SUFFICES ASSUME NEW i \in DOMAIN after, NEW k \in DOMAIN after[i].buffer
               PROVE  after[i].buffer[k].what \subseteq Actions
    OBVIOUS
  <2> DEFINE b == after[i].buffer
  <2>1. b \in Seq(Record) /\ k \in 1..Len(b)
    BY DEF ProbeType
  <2> HIDE DEF b
  <2>2. b[k] \in Record
    BY <2>1, ElementOfSeq
  <2>3. QED
    BY <2>2 DEF Record, b
<1>3. QED
  BY <1>1, <1>2 DEF Left, Range

-----------------------------------------------------------------------------
(* The steps.                                                              *)

LEMMA ExposeIInv == ASSUME IInv, Expose PROVE IInv'
BY DEF IInv, Expose, PageInv, ArmInv, DrainInv, NothingLeft, history

LEMMA ClickIInv == ASSUME IInv, NEW a \in Actions, Click(a) PROVE IInv'
<1>1. PICK ok \in BOOLEAN, submit \in BOOLEAN :
        Becomes([i \in DOMAIN probes |->
            IF probes[i].listens THEN Emit(probes[i], {a}, submit, ok) ELSE probes[i]])
  BY ThrowsType DEF Click
<1> DEFINE after == [i \in DOMAIN probes |->
            IF probes[i].listens THEN Emit(probes[i], {a}, submit, ok) ELSE probes[i]]
<1>2. /\ UNCHANGED <<page, main, task, phase, history>> /\ acted' \subseteq Actions
      /\ phase' \in {"capturing", "drained"}
  BY DEF Click, IInv, PageInv
<1>3. DOMAIN after = 1..Len(probes) /\ main' = main /\ main' \in Nat
  BY <1>2, ProbesAre
<1>4. ASSUME NEW i \in 1..Len(probes) PROVE ProbeOK(log[doc][i], after[i], main')
  <2>1. log[doc][i] \in Seq(Record) /\ ProbeOK(log[doc][i], probes[i], main)
    BY ProbesAre
  <2>2. {a} \in SUBSET Actions
    OBVIOUS
  <2>3. ProbeOK(log[doc][i], Emit(probes[i], {a}, submit, ok), main)
    BY <1>3, <2>1, <2>2, EmitOK
  <2>4. after[i] = IF probes[i].listens THEN Emit(probes[i], {a}, submit, ok) ELSE probes[i]
    BY ProbesAre
  <2>5. QED
    BY <1>3, <2>1, <2>3, <2>4
<1> HIDE DEF after
<1>5. QED
  BY <1>1, <1>2, <1>3, <1>4, BecomesStep, Quiet DEF after

(* A record of the main world takes that world's next number.              *)
LEMMA CrossedOK ==
    ASSUME NEW s \in Seq(Record), NEW p, NEW m \in Nat, ProbeOK(s, p, m),
           NEW a \in Actions, NEW fast \in BOOLEAN, NEW ok \in BOOLEAN
    PROVE  /\ ProbeOK(s, Accept(p, Made("main", m, {a}, 0), fast, ok), m + 1)
           /\ ProbeOK(s, p, m + 1)
<1> DEFINE x == Made("main", m, {a}, 0)
<1>1. x \in Record /\ x.world = "main" /\ x.ord = m /\ x.drops = 0
  BY DEF Made, Record, Worlds
<1> HIDE DEF x
<1>2. p.ord \in Nat /\ QueueOK(Queue(s, p), p.ord, m)
  BY DEF ProbeOK, ProbeType
<1>3. AllBefore(Queue(s, p), x)
  BY <1>1, <1>2, QueueNext DEF Worlds
<1>4. ProbeOK(s, p, m + 1)
  <2>1. QueueOK(Queue(s, p), p.ord, m + 1)
    BY <1>2, QueueLater
  <2>2. QED
    BY <2>1 DEF ProbeOK
<1>5. Given(p.ord, m + 1, x)
  BY <1>1 DEF Given
<1>6. ProbeOK(s, Accept(p, x, fast, ok), m + 1)
  BY <1>1, <1>3, <1>4, <1>5, AcceptOK
<1>7. QED
  BY <1>4, <1>6 DEF x

LEMMA CallIInv == ASSUME IInv, NEW a \in Actions, Call(a) PROVE IInv'
<1>1. /\ UNCHANGED <<page, task, phase, history>> /\ acted' \subseteq Actions
      /\ phase' \in {"capturing", "drained"}
  BY DEF Call, IInv, PageInv
<1>2. CASE UNCHANGED <<probes, log, main>>
  BY <1>1, <1>2, Quiet DEF IInv, PageInv, ArmInv, page
<1>3. ASSUME NEW ok \in BOOLEAN, NEW fast \in BOOLEAN, main' = main + 1,
             Becomes([i \in DOMAIN probes |->
                IF probes[i].listens
                THEN Accept(probes[i], Made("main", main, {a}, 0), fast, ok) ELSE probes[i]])
      PROVE  IInv'
  <2> DEFINE got(i) == Accept(probes[i], Made("main", main, {a}, 0), fast, ok)
             after == [i \in DOMAIN probes |->
                IF probes[i].listens THEN got(i) ELSE probes[i]]
  <2>1. DOMAIN after = 1..Len(probes) /\ main' \in Nat
    BY <1>3, ProbesAre
  <2>2. ASSUME NEW i \in 1..Len(probes) PROVE ProbeOK(log[doc][i], after[i], main')
    <3>1. /\ log[doc][i] \in Seq(Record) /\ ProbeOK(log[doc][i], probes[i], main)
          /\ main \in Nat
      BY ProbesAre
    <3>2. /\ ProbeOK(log[doc][i], got(i), main + 1)
          /\ ProbeOK(log[doc][i], probes[i], main + 1)
      BY <3>1, CrossedOK
    <3>3. after[i] = IF probes[i].listens THEN got(i) ELSE probes[i]
      BY ProbesAre
    <3> HIDE DEF got, after
    <3>4. QED
      BY <1>3, <3>2, <3>3
  <2>3. Becomes(after)
    BY <1>3
  <2> HIDE DEF after
  <2>4. QED
    BY <1>1, <2>1, <2>2, <2>3, BecomesStep, Quiet
<1>4. QED
  <2>1. CASE main = 0
    BY <1>2, <2>1 DEF Call
  <2>2. CASE main # 0
    <3>1. /\ main' = main + 1
          /\ \E ok \in BOOLEAN, fast \in BOOLEAN :
                Becomes([i \in DOMAIN probes |->
                    IF probes[i].listens
                    THEN Accept(probes[i], Made("main", main, {a}, 0), fast, ok) ELSE probes[i]])
      BY <2>2, ThrowsType, Zenon DEF Call
    <3>2. QED
      BY <1>3, <3>1
  <2>3. QED
    BY <2>1, <2>2

LEMMA ChangeIInv == ASSUME IInv, NEW a \in Actions, Change(a) PROVE IInv'
<1> DEFINE seen(p) == [p EXCEPT !.gathered = @ \cup {a}]
           n == Len(probes)
<1>1. /\ UNCHANGED <<page, main, task, log, phase, history>> /\ acted' \subseteq Actions
      /\ a \in Changes
  BY DEF Change, IInv, PageInv
<1>2. /\ DOMAIN probes = 1..n /\ n \in 1..MaxProbes /\ n \in Nat
      /\ \A i \in 1..n : ProbeOK(log[doc][i], probes[i], main) /\ probes[i].out = <<>>
  BY ProbesAre DEF IInv, Channel
<1>3. /\ DOMAIN probes' = 1..n
      /\ \A i \in 1..n : probes'[i] = IF probes[i].listens THEN seen(probes[i]) ELSE probes[i]
  BY <1>2 DEF Change
<1>4. ASSUME NEW s, NEW p, ProbeOK(s, p, main), p.out = <<>>
      PROVE  ProbeOK(s, seen(p), main) /\ seen(p).out = <<>>
  <2> DEFINE q == seen(p)
  <2>1. /\ ProbeType(q) /\ q.out = p.out /\ q.buffer = p.buffer /\ q.dropped = p.dropped
        /\ q.threw = p.threw /\ q.lost = p.lost /\ q.ord = p.ord
    BY <1>1, <1>4 DEF ProbeOK, ProbeType, Parts
  <2> HIDE DEF q
  <2>2. QED
    BY <1>4, <2>1 DEF ProbeOK, Queue, LossOK, Told, q
<1> HIDE DEF seen
<1>5. /\ Len(probes') = n
      /\ \A i \in 1..n : ProbeOK(log[doc][i], probes'[i], main) /\ probes'[i].out = <<>>
  BY <1>2, <1>3, <1>4
<1>9. probes' = [i \in 1..Len(probes') |-> probes'[i]]
  <2>1. probes' = [i \in 1..n |-> probes'[i]]
    BY <1>2 DEF Change
  <2>2. QED
    BY <1>5, <2>1
<1>6. Channel(probes', log, doc, main)
  BY <1>2, <1>3, <1>5, <1>9 DEF IInv, Channel
<1>7. PageInv' /\ ArmInv'
  BY <1>1, <1>5 DEF IInv, PageInv, ArmInv, page
<1>8. QED
  BY <1>1, <1>6, <1>7, Quiet DEF IInv, page

(* One probe of the page takes a step.                                     *)
LEMMA OneProbe ==
    ASSUME IInv, NEW j \in DOMAIN probes, NEW p, ProbeOK(log[doc][j], p, main), BecomesAt(j, p),
           UNCHANGED <<page, main, task, acted, phase, history>>
    PROVE  IInv'
<1> DEFINE after == [probes EXCEPT ![j] = p]
<1>1. DOMAIN after = 1..Len(probes) /\ main' = main /\ main \in Nat
  BY ProbesAre
<1>2. \A i \in 1..Len(probes) : ProbeOK(log[doc][i], after[i], main')
  BY <1>1, ProbesAre
<1>3. Becomes(after)
  BY DEF BecomesAt
<1>4. acted' \subseteq Actions /\ phase' \in {"capturing", "drained"}
  BY DEF IInv, PageInv
<1> HIDE DEF after
<1>5. QED
  BY <1>1, <1>2, <1>3, <1>4, BecomesStep, Quiet

LEMMA TimerIInv == ASSUME IInv, NEW j, Timer(j) \/ MutationTimer(j) PROVE IInv'
<1> DEFINE s == log[doc][j]
           p == probes[j]
<1>1. j \in DOMAIN probes /\ UNCHANGED <<page, main, task, acted, phase, history>>
  BY DEF Timer, MutationTimer
<1>2. s \in Seq(Record) /\ ProbeOK(s, p, main) /\ main \in Nat
  BY <1>1, ProbesAre
<1>3. CASE MutationTimer(j)
  <2>1. PICK ok \in BOOLEAN : BecomesAt(j, FlushMutations(p, ok))
    BY <1>3, ThrowsType DEF MutationTimer
  <2>2. ProbeOK(s, FlushMutations(p, ok), main)
    BY <1>2, FlushMutationsOK
  <2>3. QED
    BY <1>1, <2>1, <2>2, OneProbe
<1>4. CASE Timer(j)
  <2> DEFINE q == [p EXCEPT !.timer = FALSE]
  <2>1. PICK ok \in BOOLEAN : BecomesAt(j, Flush(q, ok))
    BY <1>4, ThrowsType DEF Timer
  <2>2. /\ ProbeType(q) /\ q.out = p.out /\ q.buffer = p.buffer /\ q.dropped = p.dropped
        /\ q.threw = p.threw /\ q.lost = p.lost /\ q.ord = p.ord
    BY <1>2 DEF ProbeOK, ProbeType, Parts
  <2> HIDE DEF q, p, s
  <2>3. ProbeOK(s, q, main)
    BY <1>2, <2>2 DEF ProbeOK, Queue, LossOK, Told
  <2>4. ProbeOK(s, Flush(q, ok), main)
    BY <1>2, <2>3, FlushOK
  <2>5. QED
    BY <1>1, <2>1, <2>4, OneProbe DEF s
<1>5. QED
  BY <1>3, <1>4

(* All probes of the page are pushed out.                                  *)
LEMMA AllPushed ==
    ASSUME IInv, NEW ok \in BOOLEAN
    PROVE  LET after == [i \in DOMAIN probes |-> PushOut(probes[i], ok)]
           IN  /\ DOMAIN after = 1..Len(probes)
               /\ \A i \in 1..Len(probes) : ProbeOK(log[doc][i], after[i], main)
               /\ bound => Left(after) = {}
<1> DEFINE after == [i \in DOMAIN probes |-> PushOut(probes[i], ok)]
<1>1. DOMAIN after = 1..Len(probes)
  BY ProbesAre
<1>2. ASSUME NEW i \in 1..Len(probes)
      PROVE  /\ ProbeOK(log[doc][i], after[i], main) /\ after[i].gathered = {}
             /\ bound => after[i].buffer = <<>>
  <2>1. log[doc][i] \in Seq(Record) /\ ProbeOK(log[doc][i], probes[i], main) /\ main \in Nat
    BY ProbesAre
  <2>2. after[i] = PushOut(probes[i], ok)
    BY ProbesAre
  <2> HIDE DEF after
  <2>3. QED
    BY <2>1, <2>2, PushOutOK
<1> HIDE DEF after
<1>3. bound => Left(after) = {}
  BY <1>1, <1>2, LeftNone
<1>4. QED
  BY <1>1, <1>2, <1>3 DEF after

LEMMA HideIInv == ASSUME IInv, Hide PROVE IInv'
<1>1. PICK ok \in BOOLEAN : Becomes([i \in DOMAIN probes |-> PushOut(probes[i], ok)])
  BY ThrowsType DEF Hide
<1> DEFINE after == [i \in DOMAIN probes |-> PushOut(probes[i], ok)]
<1>2. /\ UNCHANGED <<page, main, task, acted, phase, history>>
      /\ acted' \subseteq Actions /\ phase' \in {"capturing", "drained"} /\ main' \in Nat
  BY DEF Hide, IInv, PageInv
<1>3. /\ DOMAIN after = 1..Len(probes)
      /\ \A i \in 1..Len(probes) : ProbeOK(log[doc][i], after[i], main)
  BY AllPushed
<1> HIDE DEF after
<1>4. QED
  BY <1>1, <1>2, <1>3, BecomesStep, Quiet DEF after

LEMMA DrainIInv == ASSUME IInv, Drain PROVE IInv'
<1> DEFINE last == Len(probes)
<1>1. PICK ok \in BOOLEAN :
        LET after == [probes EXCEPT ![last] = PushOut(probes[last], ok)]
        IN  Becomes(after) /\ undrained' = IF bound THEN Left(after) ELSE {}
  BY ThrowsType DEF Drain
<1> DEFINE p == PushOut(probes[last], ok)
           after == [probes EXCEPT ![last] = p]
<1>2. /\ UNCHANGED <<page, main, task, acted, abandoned>>
      /\ acted' \subseteq Actions /\ phase' \in {"capturing", "drained"} /\ main' \in Nat
  BY DEF Drain, IInv, PageInv
<1>3. last \in 1..last /\ last \in Nat /\ DOMAIN probes = 1..last
  BY ProbesAre
<1>4. ProbeOK(log[doc][last], p, main) /\ p.gathered = {} /\ (bound => p.buffer = <<>>)
  <2>1. /\ log[doc][last] \in Seq(Record) /\ ProbeOK(log[doc][last], probes[last], main)
        /\ main \in Nat
    BY <1>3, ProbesAre
  <2>2. QED
    BY <2>1, PushOutOK
<1> HIDE DEF p
<1>5. /\ DOMAIN after = 1..last /\ after[last] = p
      /\ \A i \in 1..last : ProbeOK(log[doc][i], after[i], main)
  BY <1>3, <1>4, ProbesAre
<1>6. Becomes(after) /\ undrained' = IF bound THEN Left(after) ELSE {}
  BY <1>1 DEF p
<1> HIDE DEF after
<1>7. initial => undrained' = {}
  <2>1. initial => last = 1
    BY DEF IInv, ArmInv
  <2>2. initial /\ bound => \A i \in DOMAIN after : after[i].gathered = {} /\ after[i].buffer = <<>>
    <3> SUFFICES ASSUME initial, bound, NEW i \in DOMAIN after
                 PROVE  after[i].gathered = {} /\ after[i].buffer = <<>>
      OBVIOUS
    <3>1. i = last
      <4>1. last = 1
        BY <2>1
      <4> HIDE DEF last
      <4>2. i \in 1..1
        BY <1>5, <4>1
      <4>3. QED
        BY <4>1, <4>2
    <3>2. QED
      BY <1>4, <1>5, <3>1
  <2>3. initial /\ bound => Left(after) = {}
    BY <2>2, LeftNone
  <2>4. QED
    BY <1>6, <2>3
<1>8. undrained' \subseteq Actions
  <2>1. \A i \in DOMAIN after : ProbeType(after[i])
    BY <1>5 DEF ProbeOK
  <2>2. QED
    BY <1>6, <2>1, LeftActions
<1>9. DrainInv'
  BY <1>2, <1>7, <1>8 DEF IInv, DrainInv, NothingLeft, page
<1>10. QED
  BY <1>2, <1>3, <1>5, <1>6, <1>9, BecomesStep

LEMMA NavigateIInv == ASSUME IInv, NEW t \in Tasks, Navigate(t) PROVE IInv'
<1>1. PICK ok \in BOOLEAN :
        LET after == [i \in DOMAIN probes |-> PushOut(probes[i], ok)]
        IN  log' = Logged(after) /\ abandoned' = abandoned \cup (IF bound THEN Left(after) ELSE {})
  BY ThrowsType DEF Navigate
<1> DEFINE after == [i \in DOMAIN probes |-> PushOut(probes[i], ok)]
           next == doc + 1
<1>2. /\ DOMAIN after = 1..Len(probes)
      /\ \A i \in 1..Len(probes) : ProbeOK(log[doc][i], after[i], main)
      /\ bound => Left(after) = {}
  BY AllPushed
<1>3. log' = Logged(after) /\ abandoned' = abandoned \cup (IF bound THEN Left(after) ELSE {})
  BY <1>1
<1> HIDE DEF after
<1>4. Channel(Settle(after), log', doc, main)
  BY <1>2, <1>3, ChannelStep DEF IInv, PageInv
<1>5. /\ doc' = next /\ next \in 1..MaxDocs /\ doc \in 1..MaxDocs /\ next > doc
      /\ bound' \in BOOLEAN /\ main' = 0 /\ probes' = <<NewProbe(initial)>>
      /\ initial' = initial /\ initial \in BOOLEAN
      /\ t \in Navs /\ task' = [task EXCEPT ![t] = "main"]
      /\ UNCHANGED <<acted, phase, undrained>>
  BY BoundAssumption DEF Navigate, Heard, IInv, PageInv
<1> HIDE DEF next
<1>6. Channel(probes', log', doc', main')
  <2>1. ProbeOK(<<>>, NewProbe(initial), 0) /\ NewProbe(initial).out = <<>>
    BY <1>5, NewProbeOK
  <2>2. 1 \in 1..MaxProbes /\ 0 \in Nat
    BY BoundAssumption
  <2>3. \A v \in 1..MaxProbes : log'[next][v] = <<>>
    BY <1>4, <1>5 DEF Channel
  <2>4. \A e \in 1..MaxDocs : e > next => e > doc
    BY <1>5, BoundAssumption
  <2>5. /\ DOMAIN probes' = 1..1 /\ Len(probes') = 1 /\ probes'[1] = NewProbe(initial)
    BY <1>5
  <2>6. /\ log' \in [1..MaxDocs -> [1..MaxProbes -> Seq(Record)]]
        /\ \A e \in 1..MaxDocs, v \in 1..MaxProbes : Ordered(log'[e][v])
        /\ \A e \in 1..MaxDocs, v \in 1..MaxProbes : e > next => log'[e][v] = <<>>
    BY <1>4, <2>4 DEF Channel
  <2>7. probes' = [i \in 1..Len(probes') |-> probes'[i]]
    BY <1>5
  <2>8. \A i \in 1..Len(probes') :
            probes'[i].out = <<>> /\ ProbeOK(log'[next][i], probes'[i], 0)
    <3>1. \A i \in 1..Len(probes') : i = 1
      BY <2>5
    <3>2. log'[next][1] = <<>>
      BY <2>2, <2>3
    <3>3. QED
      BY <2>1, <2>5, <3>1, <3>2
  <2>9. Channel(probes', log', next, 0)
    BY <2>2, <2>3, <2>5, <2>6, <2>7, <2>8 DEF Channel
  <2>10. QED
    BY <1>5, <2>9
<1>7. PageInv'
  BY <1>5 DEF IInv, PageInv, Tasks
<1>8. ArmInv'
  <2>1. Len(probes') = 1
    BY <1>5
  <2>2. \A u \in Tasks : task'[u] = "rearm" => task[u] = "rearm"
    BY <1>5 DEF IInv, PageInv
  <2>3. QED
    BY <1>5, <2>1, <2>2 DEF IInv, ArmInv
<1>9. DrainInv'
  BY <1>2, <1>3, <1>5 DEF IInv, DrainInv, NothingLeft
<1>10. QED
  BY <1>6, <1>7, <1>8, <1>9 DEF IInv

LEMMA NavigateWithinIInv == ASSUME IInv, NEW t \in Tasks, NavigateWithin(t) PROVE IInv'
<1>1. /\ UNCHANGED <<page, probes, main, log, acted, phase, history>>
      /\ t \in Navs /\ task' = [task EXCEPT ![t] = "main"]
  BY DEF NavigateWithin, Heard
<1>2. PageInv'
  BY <1>1 DEF IInv, PageInv, page, Tasks
<1>3. ArmInv'
  <2>1. \A u \in Tasks : task'[u] = "rearm" => task[u] = "rearm"
    BY <1>1 DEF IInv, PageInv
  <2>2. QED
    BY <1>1, <2>1 DEF IInv, ArmInv, page
<1>4. Channel(probes', log', doc', main')
  BY <1>1 DEF IInv, page
<1>5. QED
  BY <1>1, <1>2, <1>3, <1>4, Quiet DEF IInv

LEMMA InstallMainIInv == ASSUME IInv, NEW t \in Tasks, InstallMain(t) PROVE IInv'
<1>1. /\ UNCHANGED <<page, probes, log, acted, phase, history>> /\ main \in Nat
      /\ main' \in Nat /\ main <= main'
      /\ task' = [task EXCEPT ![t] = IF initial THEN "done" ELSE "rearm"]
  BY DEF InstallMain, IInv, PageInv
<1>2. PageInv'
  BY <1>1 DEF IInv, PageInv, page
<1>3. ArmInv'
  <2>1. initial => \A u \in Tasks : task'[u] = "rearm" => task[u] = "rearm"
    BY <1>1 DEF IInv, PageInv
  <2>2. QED
    BY <1>1, <2>1 DEF IInv, ArmInv, page
<1>4. ASSUME NEW s, NEW p, ProbeOK(s, p, main) PROVE ProbeOK(s, p, main')
  <2>1. p.ord \in Nat /\ QueueOK(Queue(s, p), p.ord, main)
    BY <1>4 DEF ProbeOK, ProbeType
  <2>2. QueueOK(Queue(s, p), p.ord, main')
    BY <1>1, <2>1, QueueLater
  <2>3. QED
    BY <1>4, <2>2 DEF ProbeOK
<1>5. Channel(probes, log, doc, main')
  BY <1>4 DEF IInv, Channel
<1>6. QED
  BY <1>1, <1>2, <1>3, <1>5, Quiet DEF IInv, page

LEMMA RearmIInv == ASSUME IInv, NEW t \in Tasks, Rearm(t) PROVE IInv'
<1> DEFINE n == Len(probes)
<1>1. /\ UNCHANGED <<page, main, log, acted, phase, history>>
      /\ task[t] = "rearm" /\ (t = "cover" => ~initial)
      /\ task' = [task EXCEPT ![t] = "done"]
  BY DEF Rearm
<1>2. ~initial
  BY <1>1 DEF IInv, ArmInv
<1>3. PageInv' /\ ArmInv' /\ DrainInv'
  BY <1>1, <1>2, Quiet DEF IInv, PageInv, ArmInv, page
<1>4. Channel(probes', log, doc, main)
  <2>1. CASE UNCHANGED probes
    BY <2>1 DEF IInv
  <2>2. CASE n < MaxProbes /\ probes' = Append(probes, NewProbe(TRUE))
    <3>1. /\ DOMAIN probes = 1..n /\ n \in Nat /\ n + 1 \in 1..MaxProbes /\ main \in Nat
          /\ doc \in 1..MaxDocs
          /\ \A i \in 1..n : probes[i].out = <<>> /\ ProbeOK(log[doc][i], probes[i], main)
      BY <2>2, ProbesAre, BoundAssumption DEF IInv, Channel, PageInv
    <3>2. /\ DOMAIN probes' = 1..n + 1 /\ Len(probes') = n + 1
          /\ \A i \in 1..n : probes'[i] = probes[i]
          /\ probes'[n + 1] = NewProbe(TRUE)
          /\ probes' = [i \in 1..n + 1 |-> probes'[i]]
      <4> DEFINE P == {probes[i] : i \in 1..n} \cup {NewProbe(TRUE)}
                 new == NewProbe(TRUE)
      <4>1. probes = [i \in 1..n |-> probes[i]]
        BY DEF IInv, Channel
      <4>2. \A i \in 1..n : probes[i] \in P
        OBVIOUS
      <4>3. new \in P
        OBVIOUS
      <4> HIDE DEF P, n, new
      <4>4. probes \in [1..n -> P]
        BY <4>1, <4>2
      <4>5. probes \in Seq(P) /\ Len(probes) = n
        BY <3>1, <4>4 DEF n
      <4>6. /\ Append(probes, new) \in Seq(P) /\ Len(Append(probes, new)) = n + 1
            /\ \A i \in 1..n : Append(probes, new)[i] = probes[i]
            /\ Append(probes, new)[n + 1] = new
        BY <4>3, <4>5
      <4>7. probes' = Append(probes, new)
        BY <2>2 DEF new
      <4>8. probes' \in [1..n + 1 -> P]
        <5>1. probes' \in Seq(P) /\ Len(probes') = n + 1
          BY <4>6, <4>7
        <5>2. QED
          BY <5>1, LenProperties
      <4>9. QED
        BY <4>6, <4>7, <4>8 DEF new
    <3>3. ProbeOK(<<>>, NewProbe(TRUE), main) /\ NewProbe(TRUE).out = <<>>
      <4>1. \A listens \in BOOLEAN :
                ProbeOK(<<>>, NewProbe(listens), main) /\ NewProbe(listens).out = <<>>
        BY <3>1, NewProbeOK
      <4>2. QED
        BY <4>1, Zenon
    <3>4. log[doc][n + 1] = <<>>
      BY <3>1 DEF IInv, Channel
    <3>5. \A i \in 1..n + 1 :
            probes'[i].out = <<>> /\ ProbeOK(log[doc][i], probes'[i], main)
      <4>1. \A i \in 1..n + 1 : i \in 1..n \/ i = n + 1
        BY <3>1
      <4>2. QED
        BY <3>1, <3>2, <3>3, <3>4, <4>1
    <3>6. \A v \in 1..MaxProbes : v > n + 1 => v > n
      BY <3>1
    <3>7. QED
      BY <3>1, <3>2, <3>5, <3>6 DEF IInv, Channel
  <2>3. QED
    BY <2>1, <2>2 DEF Rearm
<1>5. QED
  BY <1>1, <1>3, <1>4 DEF IInv, page

LEMMA NextIInv == IInv /\ [Next]_vars => IInv'
<1> SUFFICES ASSUME IInv, [Next]_vars PROVE IInv'
  OBVIOUS
<1>1. CASE Expose \/ Hide \/ Drain
  BY <1>1, ExposeIInv, HideIInv, DrainIInv
<1>2. CASE Observe
  BY <1>2, ClickIInv, CallIInv, ChangeIInv DEF Observe
<1>3. CASE Timers
  BY <1>3, TimerIInv DEF Timers
<1>4. CASE Install
  BY <1>4, NavigateIInv, NavigateWithinIInv, InstallMainIInv, RearmIInv DEF Install
<1>5. CASE UNCHANGED vars
  BY <1>5 DEF vars, page, history, IInv, PageInv, ArmInv, DrainInv, NothingLeft
<1>6. QED
  BY <1>1, <1>2, <1>3, <1>4, <1>5, Zenon DEF Next

-----------------------------------------------------------------------------
(* What a page, its probes and the log may be at any time: what a probe    *)
(* has handed over and what it holds are one queue in the order of the     *)
(* ordinals, and the drops of a live probe are accounted for.              *)
THEOREM ProbeInvariant == Spec => []IInv
BY InitIInv, NextIInv, PTL DEF Spec

(* The types of the page, its probes and the log.                          *)
THEOREM TypeTheorem == Spec => []TypeOK
<1>1. IInv => TypeOK
  <2> SUFFICES ASSUME IInv PROVE TypeOK
    OBVIOUS
  <2>1. \A i \in DOMAIN probes :
        /\ probes[i].buffer \in Seq(Record) /\ Len(probes[i].buffer) <= MaxBuffer
        /\ probes[i].gathered \subseteq Changes
        /\ {probes[i].dropped, probes[i].ord, probes[i].lost} \subseteq Nat
        /\ {probes[i].timer, probes[i].listens, probes[i].threw} \subseteq BOOLEAN
        /\ probes[i].out = <<>>
    <3> SUFFICES ASSUME NEW i \in DOMAIN probes
                 PROVE  /\ probes[i].buffer \in Seq(Record) /\ Len(probes[i].buffer) <= MaxBuffer
                        /\ probes[i].gathered \subseteq Changes
                        /\ {probes[i].dropped, probes[i].ord, probes[i].lost} \subseteq Nat
                        /\ {probes[i].timer, probes[i].listens, probes[i].threw} \subseteq BOOLEAN
                        /\ probes[i].out = <<>>
      OBVIOUS
    <3>1. ProbeOK(log[doc][i], probes[i], main) /\ probes[i].out = <<>>
      BY DEF IInv, Channel
    <3>2. QED
      BY <3>1 DEF ProbeOK, ProbeType
  <2>2. QED
    BY <2>1 DEF IInv, PageInv, Channel, DrainInv, NothingLeft, TypeOK
<1>2. QED
  BY <1>1, ProbeInvariant, PTL

(* What one probe carried of one world is in the log once and in the order *)
(* of its ordinals, whatever overflowed, threw or was torn down; only the  *)
(* report of drops may overtake the record it made room for.               *)
THEOREM OrderTheorem == Spec => []RecordsInOrder
<1>1. IInv => RecordsInOrder
  <2> SUFFICES ASSUME IInv, NEW d \in 1..MaxDocs, NEW via \in 1..MaxProbes,
                      NEW i \in DOMAIN log[d][via], NEW j \in DOMAIN log[d][via],
                      i < j, log[d][via][i].world = log[d][via][j].world
               PROVE  \/ log[d][via][i].ord < log[d][via][j].ord
                      \/ /\ log[d][via][i].drops > 0
                         /\ log[d][via][i].ord = log[d][via][j].ord + 1
    BY DEF RecordsInOrder
  <2>1. log[d][via] \in Seq(Record) /\ Ordered(log[d][via])
    BY DEF IInv, Channel
  <2>2. i \in 1..Len(log[d][via]) /\ j \in 1..Len(log[d][via])
    BY <2>1
  <2>3. QED
    BY <2>1, <2>2 DEF Ordered, Before
<1>2. QED
  BY <1>1, ProbeInvariant, PTL

(* The drops of a live probe are reported or still to be: all of them      *)
(* while the binding has not thrown, some of them afterwards.              *)
THEOREM LossTheorem == Spec => []LossReported
<1>1. IInv => LossReported
  <2> SUFFICES ASSUME IInv, NEW i \in DOMAIN probes
               PROVE  LET told == probes[i].dropped + Reported(log[doc][i])
                      IN  IF probes[i].threw THEN probes[i].lost > 0 => told > 0
                          ELSE told >= probes[i].lost
    BY DEF LossReported
  <2>1. /\ ProbeOK(log[doc][i], probes[i], main) /\ probes[i].out = <<>>
        /\ log[doc][i] \in Seq(Record)
    BY ProbesAre DEF IInv, Channel
  <2>2. log[doc][i] \o probes[i].out = log[doc][i]
    BY <2>1, Joined
  <2>3. QED
    BY <2>1, <2>2 DEF ProbeOK, LossOK, Told
<1>2. QED
  BY <1>1, ProbeInvariant, PTL

(* A navigation abandons nothing, and a drain leaves nothing in the first  *)
(* page, if there is a binding to take it.                                 *)
THEOREM NothingLeftTheorem == Spec => []NothingLeft
<1>1. IInv => NothingLeft
  BY DEF IInv, DrainInv
<1>2. QED
  BY <1>1, ProbeInvariant, PTL
=============================================================================
