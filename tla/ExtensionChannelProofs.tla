----------------------- MODULE ExtensionChannelProofs -----------------------
(***************************************************************************)
(* What holds of the forensic layer for any buffer size, any number of     *)
(* connections, however much there is to observe and however often a send  *)
(* raises.                                                                 *)
(***************************************************************************)
EXTENDS ExtensionChannel, TLAPS

(* Ordinals are not bounded here.                                          *)
Item == [id : Nat \ {0}, kind : Kinds, dropped : Nat]
Logged == [kind : Kinds \cup {"error", "sensorStopped", "neverConnected", "sessionEnd"},
           id : Nat]
(* The records of the page and of the history, as the functions they are.  *)
PageType(p) ==
    /\ DOMAIN p = {"buffer", "dropped", "ordinal", "timer", "sent"}
    /\ p.buffer \in Seq(Item) /\ p.dropped \in Nat /\ p.ordinal \in Nat
    /\ p.timer \in BOOLEAN /\ p.sent \in Seq(Seq(Item))
TallyType(t) ==
    /\ DOMAIN t = {"lost", "reported", "failures", "opens"}
    /\ t.lost \in Nat /\ t.reported \in Nat /\ t.failures \in Nat /\ t.opens \in Nat

TypeInv ==
    /\ PageType(page) /\ TallyType(tally)
    /\ opened \in Sockets
    /\ socket \in [Sockets -> {"none", "connecting", "open", "closing", "closed"}]
    /\ wire \in [Sockets -> Seq(Seq(Item))]
    /\ thread \in [Sockets -> {"none", "handshake", "reading", "ingesting", "ended"}]
    /\ todo \in [Sockets -> Seq(Item)]
    /\ phase \in Phases
    /\ log \in [Senders -> Seq(Logged)]

-----------------------------------------------------------------------------
(* The ordinals of a connection, from the log back to the page.            *)

First(batch) == batch[1].id
Final(batch) == batch[Len(batch)].id

(* A batch numbers its records without a hole.                             *)
Run(batch) ==
    batch # <<>> /\ \A i \in 1..Len(batch) : batch[i].id = batch[1].id + i - 1

(* y may come after x, the last ordinal before it (0 when there is none),  *)
(* when f sends have raised.                                               *)
Link(x, y, f) == x = 0 \/ (x < y /\ (f = 0 => y = x + 1))

Chained(batches, f) ==
    /\ \A b \in 1..Len(batches) : Run(batches[b])
    /\ \A b \in 1..Len(batches) - 1 : Link(Final(batches[b]), First(batches[b + 1]), f)

(* The last ordinal of a connection whose events, read records and unread  *)
(* batches are l, t and w.                                                 *)
LogTip(l) == IF l = <<>> THEN 0 ELSE Final(l)
ReadTip(l, t) == IF t = <<>> THEN LogTip(l) ELSE Final(t)
SentTip(l, t, w) == IF w = <<>> THEN ReadTip(l, t) ELSE Final(w[Len(w)])

ConnOK(l, t, w, f) ==
    /\ Chained(w, f)
    /\ t # <<>> => Run(t) /\ Link(LogTip(l), First(t), f)
    /\ w # <<>> => Link(ReadTip(l, t), First(w[1]), f)

LogOK(l, f) ==
    \A i \in 1..Len(l) - 1 :
        /\ l[i].id < l[i + 1].id
        /\ f = 0 => l[i + 1].id = l[i].id + 1

BatchIds(batch) == {batch[i].id : i \in DOMAIN batch}
SentIds(w) == UNION {BatchIds(w[b]) : b \in DOMAIN w}
On(l, t, w) == BatchIds(l) \cup BatchIds(t) \cup SentIds(w)

(* The last ordinal that is no longer in the page's buffer.                *)
Level(p) == p.ordinal - Len(p.buffer)

OnConn(s) == On(log[s], todo[s], wire[s])
TipOf(s) == SentTip(log[s], todo[s], wire[s])

Buffered(p) ==
    /\ Level(p) \in Nat
    /\ \A j \in 1..Len(p.buffer) : p.buffer[j].id = Level(p) + j

PageInv ==
    /\ page.sent = <<>>
    /\ phase = "capture" => Buffered(page)
    /\ phase = "capture" /\ socket[opened] = "open" =>
           connected /\ Len(page.buffer) < MaxBuffer

ThreadInv ==
    \A s \in Sockets : thread[s] # "ingesting" => todo[s] = <<>>

(* Nothing is on a connection before its socket has opened.                *)
QuietInv ==
    \A s \in Sockets : s > opened \/ socket[s] \in {"none", "connecting"} =>
        log[s] = <<>> /\ todo[s] = <<>> /\ wire[s] = <<>>

LogInv == \A s \in Sockets : LogOK(log[s], tally.failures)

ChainInv ==
    phase # "closed" =>
        \A s \in Sockets : ConnOK(log[s], todo[s], wire[s], tally.failures)

(* Ordinals grow from one connection to the next, and what is on any is    *)
(* older than what the page still holds.                                   *)
OrderInv ==
    /\ \A s \in Sockets : \A x \in OnConn(s) :
        /\ x > 0
        /\ phase = "capture" => x <= Level(page)
    /\ \A s, t \in Sockets : s < t => \A x \in OnConn(s), y \in OnConn(t) : x < y
    /\ phase = "capture" /\ socket[opened] = "open" /\ tally.failures = 0 =>
           TipOf(opened) \in {0, Level(page)}

IInv ==
    /\ TypeInv /\ PageInv /\ ThreadInv /\ QuietInv /\ LogInv
    /\ ChainInv /\ OrderInv

-----------------------------------------------------------------------------
(* What a handler of the page holds, on its way: low is the last ordinal   *)
(* that had left the buffer when it began and tip the last one sent on the *)
(* socket there is, if it can send.                                        *)

HoldType(h) ==
    DOMAIN h = {"page", "tally"} /\ PageType(h.page) /\ TallyType(h.tally)

HeldTip(h, tip) ==
    IF h.page.sent = <<>> THEN tip ELSE Final(h.page.sent[Len(h.page.sent)])

HoldInv(h, can, low, tip) ==
    /\ HoldType(h)
    /\ Buffered(h.page) /\ low <= Level(h.page)
    /\ Chained(h.page.sent, h.tally.failures)
    /\ \A b \in 1..Len(h.page.sent) : \A i \in 1..Len(h.page.sent[b]) :
           low < h.page.sent[b][i].id /\ h.page.sent[b][i].id <= Level(h.page)
    /\ h.page.sent # <<>> => Link(tip, First(h.page.sent[1]), h.tally.failures)
    /\ can /\ h.tally.failures = 0 => HeldTip(h, tip) \in {0, Level(h.page)}
    /\ ~can => h.page.sent = <<>>

(* A handler that could send leaves room in the buffer.                    *)
Roomy(h) == Len(h.page.buffer) < MaxBuffer

LEMMA ReportShape ==
    ASSUME NEW p, PageType(p)
    PROVE  /\ Report(p) \in Seq(Item) /\ Len(Report(p)) \in {0, 1}
           /\ Len(Report(p)) = 1 => Report(p)[1].id = p.ordinal + 1
           /\ p.dropped = 0 => Len(Report(p)) = 0
<1>1. CASE p.dropped = 0
  BY <1>1 DEF Report
<1>2. CASE p.dropped # 0
  <2>1. /\ Rec(p.ordinal + 1, "overflow", p.dropped) \in Item
        /\ Rec(p.ordinal + 1, "overflow", p.dropped).id = p.ordinal + 1
    BY <1>2 DEF Rec, Item, Kinds, PageType
  <2>2. QED
    BY <1>2, <2>1 DEF Report
<1>3. QED
  BY <1>1, <1>2

(* A batch takes up where the buffer's ordinals begin, the report of the   *)
(* drops last.                                                             *)
LEMMA BatchRun ==
    ASSUME NEW p, PageType(p), Buffered(p), p.buffer # <<>>
    PROVE  LET batch == p.buffer \o Report(p)
           IN  /\ batch \in Seq(Item) /\ batch # <<>>
               /\ Len(batch) = Len(p.buffer) + Len(Report(p))
               /\ \A i \in 1..Len(batch) : batch[i].id = Level(p) + i
               /\ Run(batch) /\ First(batch) = Level(p) + 1
               /\ Final(batch) = p.ordinal + Len(Report(p))
<1> DEFINE r == Report(p)
           batch == p.buffer \o r
<1>1. /\ p.buffer \in Seq(Item) /\ p.ordinal \in Nat
      /\ Len(p.buffer) \in Nat \ {0}
  BY DEF PageType
<1>2. /\ r \in Seq(Item) /\ Len(r) \in {0, 1}
      /\ Len(r) = 1 => r[1].id = p.ordinal + 1
  BY ReportShape
<1> HIDE DEF r
<1>3. /\ batch \in Seq(Item) /\ Len(batch) = Len(p.buffer) + Len(r)
      /\ \A i \in 1..Len(batch) :
             batch[i] = IF i <= Len(p.buffer) THEN p.buffer[i] ELSE r[i - Len(p.buffer)]
  BY <1>1, <1>2
<1>4. \A i \in 1..Len(batch) : batch[i].id = Level(p) + i
  <2> TAKE i \in 1..Len(batch)
  <2>1. CASE i <= Len(p.buffer)
    BY <1>1, <1>3, <2>1 DEF Buffered
  <2>2. CASE i > Len(p.buffer)
    <3>1. i = Len(p.buffer) + 1 /\ Len(r) = 1
      BY <1>1, <1>2, <1>3, <2>2
    <3>2. batch[i] = r[1]
      BY <1>1, <1>3, <2>2, <3>1
    <3>3. QED
      BY <1>1, <1>2, <3>1, <3>2 DEF Level
  <2>3. QED
    BY <1>1, <2>1, <2>2
<1>5. Len(batch) \in Nat \ {0} /\ batch # <<>> /\ Level(p) \in Nat
  BY <1>1, <1>2, <1>3 DEF Buffered
<1> HIDE DEF batch
<1>6. /\ batch[1].id = Level(p) + 1
      /\ batch[Len(batch)].id = Level(p) + Len(batch)
  BY <1>4, <1>5
<1>7. Run(batch)
  BY <1>4, <1>5, <1>6 DEF Run
<1>8. Level(p) + Len(batch) = p.ordinal + Len(r)
  BY <1>1, <1>2, <1>3 DEF Level
<1>9. QED
  BY <1>3, <1>4, <1>5, <1>6, <1>7, <1>8 DEF First, Final, batch, r

LEMMA ChainedAppend ==
    ASSUME NEW f, NEW w \in Seq(Seq(Item)), NEW b \in Seq(Item), Chained(w, f), Run(b),
           w # <<>> => Link(Final(w[Len(w)]), First(b), f)
    PROVE  Chained(Append(w, b), f)
<1> DEFINE u == Append(w, b)
<1>1. /\ Len(u) = Len(w) + 1 /\ Len(w) \in Nat
      /\ \A i \in 1..Len(w) : u[i] = w[i]
      /\ u[Len(w) + 1] = b
  OBVIOUS
<1>2. Len(w) > 0 => w # <<>>
  OBVIOUS
<1> HIDE DEF u
<1>3. \A i \in 1..Len(u) : Run(u[i])
  BY <1>1 DEF Chained
<1>4. ASSUME NEW i \in 1..Len(u) - 1
      PROVE  Link(Final(u[i]), First(u[i + 1]), f)
  <2>1. CASE i = Len(w)
    <3>1. u[i] = w[Len(w)] /\ u[i + 1] = b /\ w # <<>>
      BY <1>1, <1>2, <2>1
    <3>2. QED
      BY <3>1
  <2>2. CASE i # Len(w)
    <3>1. i \in 1..Len(w) - 1 /\ u[i] = w[i] /\ u[i + 1] = w[i + 1]
      BY <1>1, <2>2
    <3>2. QED
      BY <3>1 DEF Chained
  <2>3. QED
    BY <2>1, <2>2
<1>5. QED
  BY <1>3, <1>4 DEF Chained, u

(* One more send that raises asks no more of what has been sent.           *)
LEMMA LinkWeaker ==
    ASSUME NEW f \in Nat, NEW g \in Nat, f <= g, NEW x, NEW y, Link(x, y, f)
    PROVE  Link(x, y, g)
BY DEF Link
LEMMA ChainedWeaker ==
    ASSUME NEW f \in Nat, NEW g \in Nat, f <= g, NEW w, Chained(w, f)
    PROVE  Chained(w, g)
BY LinkWeaker DEF Chained

-----------------------------------------------------------------------------
LEMMA Held ==
    ASSUME NEW p, NEW t, NEW k, k = [page |-> p, tally |-> t]
    PROVE  k.page = p /\ k.tally = t /\ DOMAIN k = {"page", "tally"}
OBVIOUS

(* flush, field by field.                                                  *)
LEMMA FlushIdle ==
    ASSUME NEW h, NEW can \in BOOLEAN, NEW throws \in BOOLEAN,
           ~can \/ h.page.buffer = <<>>
    PROVE  Flush(h, can, throws) = h
BY DEF Flush

LEMMA FlushSent ==
    ASSUME NEW h, HoldType(h), h.page.buffer # <<>>
    PROVE  LET k == Flush(h, TRUE, FALSE)
               p == h.page
           IN  /\ HoldType(k)
               /\ k.page.buffer = <<>> /\ k.page.dropped = 0
               /\ k.page.ordinal = p.ordinal + Len(Report(p))
               /\ k.page.timer = p.timer
               /\ k.page.sent = Append(p.sent, p.buffer \o Report(p))
               /\ k.tally.lost = h.tally.lost /\ k.tally.failures = h.tally.failures
               /\ k.tally.reported = h.tally.reported + p.dropped
               /\ k.tally.opens = h.tally.opens
<1> DEFINE p == h.page
           batch == p.buffer \o Report(p)
           out == [p EXCEPT !.buffer = <<>>, !.ordinal = @ + Len(Report(p))]
           P == [out EXCEPT !.dropped = 0, !.sent = Append(@, batch)]
           T == [h.tally EXCEPT !.reported = @ + p.dropped]
<1>1. /\ PageType(p) /\ TallyType(h.tally)
      /\ Report(p) \in Seq(Item) /\ Len(Report(p)) \in Nat
  BY ReportShape DEF HoldType
<1>2. batch \in Seq(Item)
  BY <1>1 DEF PageType
<1> DEFINE k == Flush(h, TRUE, FALSE)
<1>3. k = [page |-> P, tally |-> T]
  BY DEF Flush
<1> HIDE DEF batch
<1>4. /\ PageType(P) /\ P.buffer = <<>> /\ P.dropped = 0
      /\ P.ordinal = p.ordinal + Len(Report(p)) /\ P.timer = p.timer
      /\ P.sent = Append(p.sent, batch)
  BY <1>1, <1>2 DEF PageType
<1>5. /\ TallyType(T) /\ T.lost = h.tally.lost /\ T.failures = h.tally.failures
      /\ T.reported = h.tally.reported + p.dropped /\ T.opens = h.tally.opens
  BY <1>1 DEF TallyType, PageType
<1> HIDE DEF P, T, out, k
<1>6. k.page = P /\ k.tally = T /\ DOMAIN k = {"page", "tally"}
  BY <1>3, Held
<1>7. QED
  BY <1>4, <1>5, <1>6 DEF HoldType, batch, k

LEMMA FlushRaised ==
    ASSUME NEW h, HoldType(h), h.page.buffer # <<>>
    PROVE  LET k == Flush(h, TRUE, TRUE)
               p == h.page
           IN  /\ HoldType(k)
               /\ k.page.buffer = <<>> /\ k.page.dropped = Len(p.buffer \o Report(p))
               /\ k.page.ordinal = p.ordinal + Len(Report(p))
               /\ k.page.timer = p.timer /\ k.page.sent = p.sent
               /\ k.tally.lost = h.tally.lost + Len(p.buffer)
               /\ k.tally.failures = h.tally.failures + 1
               /\ k.tally.reported = h.tally.reported
               /\ k.tally.opens = h.tally.opens
<1> DEFINE p == h.page
           batch == p.buffer \o Report(p)
           out == [p EXCEPT !.buffer = <<>>, !.ordinal = @ + Len(Report(p))]
           P == [out EXCEPT !.dropped = Len(batch)]
           T == [h.tally EXCEPT !.lost = @ + Len(p.buffer), !.failures = @ + 1]
<1>1. /\ PageType(p) /\ TallyType(h.tally)
      /\ Report(p) \in Seq(Item) /\ Len(Report(p)) \in Nat
  BY ReportShape DEF HoldType
<1>2. p.buffer \in Seq(Item) /\ Len(p.buffer) \in Nat
  BY <1>1 DEF PageType
<1>3. batch \in Seq(Item)
  BY <1>1, <1>2
<1> DEFINE k == Flush(h, TRUE, TRUE)
<1>4. k = [page |-> P, tally |-> T]
  BY DEF Flush
<1> HIDE DEF batch
<1>5. Len(batch) \in Nat
  BY <1>3
<1>6. /\ PageType(P) /\ P.buffer = <<>> /\ P.dropped = Len(batch)
      /\ P.ordinal = p.ordinal + Len(Report(p)) /\ P.timer = p.timer
      /\ P.sent = p.sent
  BY <1>1, <1>5 DEF PageType
<1>7. /\ TallyType(T) /\ T.lost = h.tally.lost + Len(p.buffer)
      /\ T.failures = h.tally.failures + 1
      /\ T.reported = h.tally.reported /\ T.opens = h.tally.opens
  BY <1>1, <1>2 DEF TallyType
<1> HIDE DEF P, T, out, k
<1>8. k.page = P /\ k.tally = T /\ DOMAIN k = {"page", "tally"}
  BY <1>4, Held
<1>9. QED
  BY <1>6, <1>7, <1>8 DEF HoldType, batch, k

-----------------------------------------------------------------------------
(* flush keeps what a handler relies on.                                   *)
LEMMA FlushHold ==
    ASSUME NEW h, NEW can \in BOOLEAN, NEW throws \in BOOLEAN,
           NEW low \in Nat, NEW tip \in 0..low, HoldInv(h, can, low, tip)
    PROVE  HoldInv(Flush(h, can, throws), can, low, tip)
<1>1. CASE ~can \/ h.page.buffer = <<>>
  BY <1>1, FlushIdle
<1>2. CASE can /\ h.page.buffer # <<>> /\ ~throws
  <2> DEFINE k == Flush(h, can, throws)
             p == h.page
             batch == p.buffer \o Report(p)
             w == p.sent
             f == h.tally.failures
  <2>1. /\ HoldType(h) /\ PageType(p) /\ w \in Seq(Seq(Item)) /\ f \in Nat
        /\ p.ordinal \in Nat /\ Len(Report(p)) \in Nat /\ Level(p) \in Nat
        /\ Buffered(p) /\ p.buffer # <<>> /\ low <= Level(p)
        /\ Level(p) < p.ordinal
    BY <1>2, ReportShape DEF HoldInv, HoldType, PageType, TallyType, Buffered, Level
  <2>2. /\ HoldType(k) /\ k.page.buffer = <<>>
        /\ k.page.ordinal = p.ordinal + Len(Report(p))
        /\ k.page.sent = Append(w, batch) /\ k.tally.failures = f
    BY <1>2, <2>1, FlushSent
  <2>3. /\ batch \in Seq(Item) /\ Run(batch) /\ batch # <<>>
        /\ First(batch) = Level(p) + 1 /\ Final(batch) = p.ordinal + Len(Report(p))
        /\ \A i \in 1..Len(batch) : batch[i].id = Level(p) + i
        /\ Len(batch) = Len(p.buffer) + Len(Report(p))
    BY <2>1, BatchRun
  <2>4. Level(k.page) = p.ordinal + Len(Report(p)) /\ Level(k.page) \in Nat
    BY <2>1, <2>2 DEF Level
  <2>5. Buffered(k.page)
    BY <2>2, <2>4 DEF Buffered
  <2>6. /\ Chained(w, f)
        /\ \A b \in 1..Len(w) : \A i \in 1..Len(w[b]) :
               low < w[b][i].id /\ w[b][i].id <= Level(p)
        /\ w # <<>> => Link(tip, First(w[1]), f)
        /\ w # <<>> /\ f = 0 => Final(w[Len(w)]) \in {0, Level(p)}
        /\ w = <<>> /\ f = 0 => tip \in {0, Level(p)}
    BY <1>2 DEF HoldInv, HeldTip
  <2> HIDE DEF k, p, batch, f, w
  <2> DEFINE u == Append(w, batch)
  <2>u. /\ Len(w) \in Nat /\ Len(u) = Len(w) + 1 /\ u # <<>>
        /\ \A b \in 1..Len(w) : u[b] = w[b]
        /\ u[Len(w) + 1] = batch
    BY <2>1, <2>3
  <2> HIDE DEF u
  <2>7. low <= Level(k.page)
    BY <2>1, <2>4
  <2>8. ASSUME w # <<>>
        PROVE  Link(Final(w[Len(w)]), First(batch), f)
    <3>1. Len(w) \in 1..Len(w) /\ w[Len(w)] \in Seq(Item)
      BY <2>1, <2>8
    <3>2. Run(w[Len(w)])
      BY <2>6, <3>1 DEF Chained
    <3>3. Len(w[Len(w)]) \in 1..Len(w[Len(w)])
      BY <3>1, <3>2 DEF Run
    <3>4. w[Len(w)][Len(w[Len(w)])] \in Item
      BY <3>1, <3>3
    <3>5. Final(w[Len(w)]) \in Nat
      BY <3>4 DEF Final, Item
    <3>6. Final(w[Len(w)]) <= Level(p)
      BY <2>6, <3>1, <3>3 DEF Final
    <3>7. QED
      BY <2>1, <2>3, <2>6, <2>8, <3>5, <3>6 DEF Link
  <2>9. Chained(u, f)
    BY <2>1, <2>3, <2>6, <2>8, ChainedAppend DEF u
  <2>10. ASSUME NEW b \in 1..Len(u), NEW i \in 1..Len(u[b])
         PROVE  /\ low < u[b][i].id
                /\ u[b][i].id <= Level(k.page)
    <3>1. CASE b \in 1..Len(w)
      <4>1. u[b] = w[b] /\ w[b] \in Seq(Item)
        BY <2>1, <2>u, <3>1
      <4>2. i \in 1..Len(w[b]) /\ w[b][i] \in Item /\ u[b][i] = w[b][i]
        BY <4>1, <2>10
      <4>3. low < w[b][i].id /\ w[b][i].id <= Level(p) /\ w[b][i].id \in Nat
        BY <2>6, <3>1, <4>2 DEF Item
      <4>4. Level(p) <= Level(k.page)
        BY <2>1, <2>4
      <4>5. w[b][i].id <= Level(k.page)
        <5>1. Level(p) \in Nat /\ Level(k.page) \in Nat
          BY <2>1, <2>4
        <5>2. QED
          BY <4>3, <4>4, <5>1
      <4>6. QED
        BY <4>2, <4>3, <4>5
    <3>2. CASE b = Len(w) + 1
      <4>1. u[b] = batch
        BY <2>u, <3>2
      <4>2. u[b][i].id = Level(p) + i /\ i \in 1..Len(batch) /\ Len(batch) \in Nat
        BY <2>3, <2>10, <4>1
      <4>3. Level(p) + Len(batch) = Level(k.page)
        BY <2>1, <2>3, <2>4 DEF Level, PageType
      <4>4. low < Level(p) + i /\ Level(p) + i <= Level(p) + Len(batch)
        BY <2>1, <4>2
      <4>5. QED
        BY <4>2, <4>3, <4>4
    <3>3. QED
      BY <2>u, <2>10, <3>1, <3>2
  <2>11. Link(tip, First(u[1]), f)
    <3>1. CASE w = <<>>
      <4>1. u[1] = batch
        BY <2>u, <3>1
      <4>2. QED
        BY <2>1, <2>3, <2>6, <3>1, <4>1 DEF Link
    <3>2. CASE w # <<>>
      <4>1. u[1] = w[1]
        BY <2>1, <2>u, <3>2
      <4>2. QED
        BY <2>6, <3>2, <4>1
    <3>3. QED
      BY <3>1, <3>2
  <2>12. HeldTip(k, tip) = Level(k.page)
    <3>1. u # <<>> /\ u[Len(u)] = batch
      BY <2>u
    <3>2. k.page.sent = u
      BY <2>2 DEF u, w
    <3>3. QED
      BY <2>3, <2>4, <3>1, <3>2 DEF HeldTip
  <2>13. QED
    BY <1>2, <2>2, <2>5, <2>7, <2>9, <2>10, <2>11, <2>12 DEF HoldInv, k, u, w
<1>3. CASE can /\ h.page.buffer # <<>> /\ throws
  <2> DEFINE k == Flush(h, can, throws)
             p == h.page
             w == p.sent
             f == h.tally.failures
  <2>1. /\ HoldType(h) /\ PageType(p) /\ f \in Nat /\ w \in Seq(Seq(Item))
        /\ p.ordinal \in Nat /\ Len(Report(p)) \in Nat /\ Level(p) \in Nat
        /\ low <= Level(p) /\ Level(p) <= p.ordinal
    BY <1>3, ReportShape DEF HoldInv, HoldType, PageType, TallyType, Buffered, Level
  <2>2. /\ HoldType(k) /\ k.page.buffer = <<>>
        /\ k.page.ordinal = p.ordinal + Len(Report(p))
        /\ k.page.sent = w /\ k.tally.failures = f + 1
    BY <1>3, <2>1, FlushRaised
  <2>3. Level(k.page) = p.ordinal + Len(Report(p)) /\ Level(k.page) \in Nat
    BY <2>1, <2>2 DEF Level
  <2>4. Buffered(k.page)
    BY <2>2, <2>3 DEF Buffered
  <2>5. /\ Chained(w, f)
        /\ \A b \in 1..Len(w) : \A i \in 1..Len(w[b]) :
               low < w[b][i].id /\ w[b][i].id <= Level(p)
        /\ w # <<>> => Link(tip, First(w[1]), f)
    BY DEF HoldInv
  <2> HIDE DEF k, p, f, w
  <2>6. low <= Level(k.page) /\ Level(p) <= Level(k.page)
    BY <2>1, <2>3
  <2>7. Chained(w, f + 1)
    BY <2>1, <2>5, ChainedWeaker
  <2>8. w # <<>> => Link(tip, First(w[1]), f + 1)
    BY <2>1, <2>5, LinkWeaker
  <2>9. ASSUME NEW b \in 1..Len(w), NEW i \in 1..Len(w[b])
        PROVE  low < w[b][i].id /\ w[b][i].id <= Level(k.page)
    <3>1. w[b] \in Seq(Item)
      BY <2>1
    <3>2. w[b][i] \in Item
      BY <3>1
    <3>3. low < w[b][i].id /\ w[b][i].id <= Level(p) /\ w[b][i].id \in Nat
      BY <2>5, <3>2 DEF Item
    <3>4. QED
      BY <2>1, <2>3, <2>6, <3>3
  <2>10. f + 1 # 0
    BY <2>1
  <2>11. /\ k.page.sent = w /\ ~(k.tally.failures = 0)
         /\ Chained(k.page.sent, k.tally.failures)
         /\ k.page.sent # <<>> => Link(tip, First(k.page.sent[1]), k.tally.failures)
    BY <2>2, <2>7, <2>8, <2>10
  <2> HIDE DEF k
  <2>12. HoldInv(k, can, low, tip)
    BY <1>3, <2>2, <2>4, <2>6, <2>9, <2>11 DEF HoldInv
  <2>13. QED
    BY <2>12 DEF k
<1>4. QED
  BY <1>1, <1>2, <1>3

(* One more record goes into the buffer.                                   *)
LEMMA PushFields ==
    ASSUME NEW h, HoldType(h), NEW kind \in Kinds
    PROVE  LET k == Push(h, kind)
               p == h.page
           IN  /\ HoldType(k) /\ k.tally = h.tally
               /\ Len(k.page.buffer) = Len(p.buffer) + 1
               /\ \A j \in 1..Len(p.buffer) : k.page.buffer[j] = p.buffer[j]
               /\ k.page.buffer[Len(p.buffer) + 1].id = p.ordinal + 1
               /\ k.page.ordinal = p.ordinal + 1 /\ k.page.dropped = p.dropped
               /\ k.page.timer = p.timer /\ k.page.sent = p.sent
<1> DEFINE k == Push(h, kind)
           p == h.page
           r == Rec(p.ordinal + 1, kind, 0)
           P == [p EXCEPT !.ordinal = @ + 1, !.buffer = Append(@, r)]
<1>1. PageType(p) /\ DOMAIN h = {"page", "tally"} /\ TallyType(h.tally)
  BY DEF HoldType
<1>2. r \in Item /\ r.id = p.ordinal + 1
  BY <1>1 DEF Rec, Item, PageType
<1>3. k = [h EXCEPT !.page = P]
  BY DEF Push
<1> HIDE DEF r
<1>4. /\ DOMAIN P = {"buffer", "dropped", "ordinal", "timer", "sent"}
      /\ P.buffer = Append(p.buffer, r) /\ P.ordinal = p.ordinal + 1
      /\ P.dropped = p.dropped /\ P.timer = p.timer /\ P.sent = p.sent
  BY <1>1 DEF PageType
<1>5. /\ P.buffer \in Seq(Item) /\ Len(P.buffer) = Len(p.buffer) + 1
      /\ \A j \in 1..Len(p.buffer) : P.buffer[j] = p.buffer[j]
      /\ P.buffer[Len(p.buffer) + 1] = r
  BY <1>1, <1>2, <1>4 DEF PageType
<1>6. PageType(P)
  BY <1>1, <1>4, <1>5 DEF PageType
<1> HIDE DEF P, k
<1>7. k.page = P /\ k.tally = h.tally /\ DOMAIN k = {"page", "tally"}
  BY <1>1, <1>3
<1>8. QED
  BY <1>1, <1>2, <1>4, <1>5, <1>6, <1>7 DEF HoldType, k

LEMMA PushHold ==
    ASSUME NEW h, NEW kind \in Kinds, NEW can \in BOOLEAN,
           NEW low \in Nat, NEW tip \in 0..low, HoldInv(h, can, low, tip)
    PROVE  HoldInv(Push(h, kind), can, low, tip)
<1> DEFINE k == Push(h, kind)
           p == h.page
<1>1. /\ HoldType(h) /\ PageType(p) /\ p.ordinal \in Nat /\ Len(p.buffer) \in Nat
      /\ Buffered(p) /\ Level(p) \in Nat
  BY DEF HoldInv, HoldType, PageType, Buffered
<1>2. /\ HoldType(k) /\ k.tally = h.tally
      /\ Len(k.page.buffer) = Len(p.buffer) + 1
      /\ \A j \in 1..Len(p.buffer) : k.page.buffer[j] = p.buffer[j]
      /\ k.page.buffer[Len(p.buffer) + 1].id = p.ordinal + 1
      /\ k.page.ordinal = p.ordinal + 1 /\ k.page.sent = p.sent
  BY <1>1, PushFields
<1> HIDE DEF k
<1> HIDE DEF p
<1>3. Level(k.page) = Level(p)
  <2>1. /\ p.ordinal \in Nat /\ Len(p.buffer) \in Nat
        /\ Len(k.page.buffer) = Len(p.buffer) + 1 /\ k.page.ordinal = p.ordinal + 1
    BY <1>1, <1>2
  <2>2. QED
    BY <2>1 DEF Level
<1>4. ASSUME NEW j \in 1..Len(k.page.buffer)
      PROVE  k.page.buffer[j].id = Level(p) + j
  <2>1. CASE j \in 1..Len(p.buffer)
    <3>1. p.buffer[j].id = Level(p) + j
      BY <1>1, <2>1 DEF Buffered
    <3>2. QED
      BY <1>2, <2>1, <3>1
  <2>2. CASE j = Len(p.buffer) + 1
    BY <1>1, <1>2, <2>2 DEF Level
  <2>3. QED
    BY <1>1, <1>2, <2>1, <2>2
<1>5. Buffered(k.page)
  BY <1>1, <1>3, <1>4 DEF Buffered
<1>6. HeldTip(k, tip) = HeldTip(h, tip)
  BY <1>2 DEF HeldTip, p
<1>7. HoldInv(k, can, low, tip)
  BY <1>2, <1>3, <1>5, <1>6 DEF HoldInv, p
<1>8. QED
  BY <1>7 DEF k

(* Changing only the count of the drops, the timer or the history leaves   *)
(* the ordinals alone.                                                     *)
LEMMA SameHold ==
    ASSUME NEW h, NEW k, HoldType(k), NEW can, NEW low, NEW tip,
           HoldInv(h, can, low, tip),
           k.page.buffer = h.page.buffer, k.page.ordinal = h.page.ordinal,
           k.page.sent = h.page.sent, k.tally.failures = h.tally.failures
    PROVE  HoldInv(k, can, low, tip)
<1>1. Level(k.page) = Level(h.page)
  BY DEF Level
<1>2. Buffered(h.page) => Buffered(k.page)
  BY <1>1 DEF Buffered
<1>3. HeldTip(k, tip) = HeldTip(h, tip)
  BY DEF HeldTip
<1>4. QED
  BY <1>1, <1>2, <1>3 DEF HoldInv

-----------------------------------------------------------------------------
(* The count of the drops: it is not short of the loss, nor over it by     *)
(* more than n, unless a send has raised, and a loss leaves it over zero.  *)
Counted(h) == h.page.dropped + h.tally.reported

DropHold(h, n) ==
    /\ h.tally.failures = 0 => Counted(h) \in h.tally.lost..(h.tally.lost + n)
    /\ h.tally.lost > 0 => Counted(h) > 0

LEMMA FlushStep ==
    ASSUME NEW h, HoldType(h), NEW can \in BOOLEAN, NEW throws \in BOOLEAN
    PROVE  LET k == Flush(h, can, throws)
           IN  /\ HoldType(k) /\ k.tally.opens = h.tally.opens
               /\ h.tally.failures <= k.tally.failures
               /\ can => k.page.buffer = <<>>
               /\ ~can => k = h
               /\ \A n \in Nat : DropHold(h, n) => DropHold(k, n)
<1> DEFINE k == Flush(h, can, throws)
           p == h.page
           batch == p.buffer \o Report(p)
<1>0. h.tally.failures \in Nat /\ h.tally.failures <= h.tally.failures
  BY DEF HoldType, TallyType
<1>1. CASE ~can \/ h.page.buffer = <<>>
  <2>1. k = h
    BY <1>1, FlushIdle
  <2> HIDE DEF k
  <2>2. QED
    BY <1>0, <1>1, <2>1 DEF k
<1>2. CASE can /\ h.page.buffer # <<>> /\ ~throws
  <2>1. /\ HoldType(k) /\ k.page.buffer = <<>> /\ k.page.dropped = 0
        /\ k.tally.lost = h.tally.lost /\ k.tally.failures = h.tally.failures
        /\ k.tally.reported = h.tally.reported + p.dropped
        /\ k.tally.opens = h.tally.opens
    BY <1>2, FlushSent
  <2>2. h.tally.reported \in Nat /\ p.dropped \in Nat
    BY DEF HoldType, PageType, TallyType
  <2> HIDE DEF k
  <2>3. Counted(k) = Counted(h)
    BY <2>1, <2>2 DEF Counted
  <2>4. \A n \in Nat : DropHold(h, n) => DropHold(k, n)
    BY <2>1, <2>3 DEF DropHold
  <2>5. QED
    BY <1>0, <1>2, <2>1, <2>4 DEF k
<1>3. CASE can /\ h.page.buffer # <<>> /\ throws
  <2>1. /\ HoldType(k) /\ k.page.buffer = <<>> /\ k.page.dropped = Len(batch)
        /\ k.tally.failures = h.tally.failures + 1
        /\ k.tally.reported = h.tally.reported
        /\ k.tally.opens = h.tally.opens
    BY <1>3, FlushRaised
  <2>2. h.tally.reported \in Nat /\ h.tally.failures \in Nat /\ PageType(p)
    BY DEF HoldType, TallyType
  <2>3. Len(batch) \in Nat \ {0}
    <3> DEFINE r == Report(p)
    <3>1. r \in Seq(Item) /\ Len(r) \in Nat
      BY <2>2, ReportShape
    <3>2. p.buffer \in Seq(Item) /\ Len(p.buffer) \in Nat \ {0}
      BY <1>3, <2>2 DEF PageType
    <3> HIDE DEF r, p
    <3>3. Len(p.buffer \o r) = Len(p.buffer) + Len(r)
      BY <3>1, <3>2
    <3>4. Len(p.buffer \o r) \in Nat \ {0}
      BY <3>1, <3>2, <3>3
    <3>5. QED
      BY <3>4 DEF r
  <2> HIDE DEF k, batch
  <2>4. Counted(k) > 0 /\ k.tally.failures # 0
    BY <2>1, <2>2, <2>3 DEF Counted
  <2>5. \A n \in Nat : DropHold(k, n)
    BY <2>4 DEF DropHold
  <2>6. h.tally.failures <= k.tally.failures
    BY <2>1, <2>2
  <2>7. QED
    BY <1>3, <2>1, <2>5, <2>6 DEF k
<1>4. QED
  BY <1>1, <1>2, <1>3

LEMMA PushedStep ==
    ASSUME NEW h, NEW can \in BOOLEAN, NEW throws \in BOOLEAN,
           NEW low \in Nat, NEW tip \in 0..low, HoldInv(h, can, low, tip)
    PROVE  LET k == Pushed(h, can, throws)
           IN  /\ HoldInv(k, can, low, tip) /\ k.tally.opens = h.tally.opens
               /\ h.tally.failures <= k.tally.failures
               /\ can => Roomy(k)
               /\ \A n \in Nat : DropHold(h, n) => DropHold(k, n)
<1> DEFINE k == Pushed(h, can, throws)
<1>1. HoldType(h)
  BY DEF HoldInv
<1>2. CASE Full(h)
  <2>1. k = Flush(h, can, throws)
    BY <1>2 DEF Pushed
  <2>2. \A q : q.page.buffer = <<>> => Roomy(q)
    BY BufferAssumption DEF Roomy
  <2> HIDE DEF k
  <2>3. QED
    BY <1>1, <2>1, <2>2, FlushStep, FlushHold DEF k
<1>3. CASE ~Full(h)
  <2> DEFINE P == [h.page EXCEPT !.timer = TRUE]
  <2>1. k = [h EXCEPT !.page = P]
    BY <1>3 DEF Pushed
  <2>2. /\ PageType(P) /\ P.buffer = h.page.buffer /\ P.dropped = h.page.dropped
        /\ P.ordinal = h.page.ordinal /\ P.sent = h.page.sent
    BY <1>1 DEF HoldType, PageType
  <2> HIDE DEF P, k
  <2>3. k.page = P /\ k.tally = h.tally /\ HoldType(k)
    BY <1>1, <2>1, <2>2 DEF HoldType
  <2>4. HoldInv(k, can, low, tip)
    BY <2>2, <2>3, SameHold
  <2>5. Roomy(k)
    <3>1. Len(h.page.buffer) \in Nat
      BY <1>1 DEF HoldType, PageType
    <3>2. QED
      BY <1>3, <2>2, <2>3, <3>1, BufferAssumption DEF Full, Roomy
  <2>6. \A n \in Nat : DropHold(h, n) => DropHold(k, n)
    BY <2>2, <2>3 DEF DropHold, Counted
  <2>7. h.tally.failures <= h.tally.failures
    BY <1>1 DEF HoldType, TallyType
  <2>8. QED
    BY <2>3, <2>4, <2>5, <2>6, <2>7 DEF k
<1>4. QED
  BY <1>2, <1>3

(* emit.                                                                   *)
LEMMA EmitStep ==
    ASSUME NEW h, NEW kind \in Kinds, NEW can \in BOOLEAN, NEW throws \in BOOLEAN,
           NEW low \in Nat, NEW tip \in 0..low, HoldInv(h, can, low, tip)
    PROVE  LET k == Emit(h, kind, can, throws)
           IN  /\ HoldInv(k, can, low, tip) /\ k.tally.opens = h.tally.opens
               /\ h.tally.failures <= k.tally.failures
               /\ can => Roomy(k)
               /\ \A n \in Nat : DropHold(h, n) =>
                      DropHold(k, IF can /\ Full(h) THEN n + 1 ELSE n)
<1> DEFINE k == Emit(h, kind, can, throws)
           one == [h EXCEPT !.page.dropped = @ + 1]
           room == IF Full(h) THEN Flush(one, can, throws) ELSE h
<1>1. k = IF Full(room) THEN [room EXCEPT !.tally.lost = @ + 1]
          ELSE Pushed(Push(room, kind), can, throws)
  BY DEF Emit
<1>2. HoldType(h)
  BY DEF HoldInv
<1>3. /\ HoldInv(one, can, low, tip) /\ HoldType(one) /\ one.tally = h.tally
      /\ one.page.buffer = h.page.buffer /\ one.page.dropped = h.page.dropped + 1
  <2> DEFINE P == [h.page EXCEPT !.dropped = @ + 1]
  <2>1. one = [h EXCEPT !.page = P]
    OBVIOUS
  <2>2. /\ PageType(P) /\ P.buffer = h.page.buffer /\ P.dropped = h.page.dropped + 1
        /\ P.ordinal = h.page.ordinal /\ P.sent = h.page.sent
    BY <1>2 DEF HoldType, PageType
  <2> HIDE DEF P, one
  <2>3. one.page = P /\ one.tally = h.tally /\ HoldType(one)
    BY <1>2, <2>1, <2>2 DEF HoldType
  <2>4. HoldInv(one, can, low, tip)
    BY <2>2, <2>3, SameHold
  <2>5. QED
    BY <2>2, <2>3, <2>4
<1> HIDE DEF k, one
<1>4. /\ HoldInv(room, can, low, tip) /\ HoldType(room)
      /\ room.tally.opens = h.tally.opens /\ h.tally.failures <= room.tally.failures
  <2>1. CASE Full(h)
    <3>1. room = Flush(one, can, throws)
      BY <2>1
    <3>2. HoldInv(Flush(one, can, throws), can, low, tip)
      BY <1>3, FlushHold
    <3>3. /\ HoldType(Flush(one, can, throws))
          /\ Flush(one, can, throws).tally.opens = one.tally.opens
          /\ one.tally.failures <= Flush(one, can, throws).tally.failures
      BY <1>3, FlushStep
    <3> HIDE DEF room
    <3>4. QED
      BY <1>3, <3>1, <3>2, <3>3
  <2>2. CASE ~Full(h)
    BY <1>2, <2>2 DEF HoldType, TallyType
  <2>3. QED
    BY <2>1, <2>2
<1>5. CASE Full(room)
  <2>1. Full(h) /\ ~can /\ room = one
    <3>1. ~can \/ ~Full(h)
      BY <1>3, <1>5, FlushStep, BufferAssumption DEF Full
    <3>2. Full(h)
      BY <1>5
    <3>3. QED
      BY <1>3, <3>1, <3>2, FlushStep
  <2> HIDE DEF room
  <2> DEFINE T == [one.tally EXCEPT !.lost = @ + 1]
  <2>2. k = [one EXCEPT !.tally = T]
    BY <1>1, <1>5, <2>1
  <2>3. /\ TallyType(T) /\ T.lost = h.tally.lost + 1 /\ T.failures = h.tally.failures
        /\ T.reported = h.tally.reported /\ T.opens = h.tally.opens
    BY <1>2, <1>3 DEF HoldType, TallyType
  <2> HIDE DEF T
  <2>4. k.page = one.page /\ k.tally = T /\ HoldType(k)
    BY <1>3, <2>2, <2>3 DEF HoldType
  <2>5. HoldInv(k, can, low, tip)
    BY <1>3, <2>3, <2>4, SameHold
  <2>6. \A n \in Nat : DropHold(h, n) => DropHold(k, n)
    <3>1. /\ h.tally.lost \in Nat /\ h.tally.reported \in Nat /\ h.page.dropped \in Nat
      BY <1>2 DEF HoldType, PageType, TallyType
    <3>2. Counted(k) = Counted(h) + 1 /\ k.tally.lost = h.tally.lost + 1 /\ Counted(h) \in Nat
      BY <1>3, <2>3, <2>4, <3>1 DEF Counted
    <3>3. k.tally.failures = h.tally.failures
      BY <2>3, <2>4
    <3>4. QED
      BY <3>1, <3>2, <3>3 DEF DropHold
  <2>7. QED
    BY <1>2, <2>1, <2>3, <2>4, <2>5, <2>6 DEF k, HoldType, TallyType
<1>6. CASE ~Full(room)
  <2>1. HoldInv(Push(room, kind), can, low, tip)
    BY <1>4, PushHold
  <2>2. /\ Push(room, kind).tally = room.tally
        /\ Push(room, kind).page.dropped = room.page.dropped
    BY <1>4, PushFields
  <2>3. \A n \in Nat : DropHold(room, n) => DropHold(Push(room, kind), n)
    BY <2>2 DEF DropHold, Counted
  <2>4. k = Pushed(Push(room, kind), can, throws)
    BY <1>1, <1>6
  <2>5. \A n \in Nat : DropHold(h, n) =>
            DropHold(room, IF can /\ Full(h) THEN n + 1 ELSE n)
    <3>1. CASE ~Full(h)
      BY <3>1
    <3>2. CASE Full(h)
      <4>1. can
        BY <1>3, <1>6, <3>2, FlushStep DEF Full
      <4>2. ASSUME NEW n \in Nat, DropHold(h, n)
            PROVE  DropHold(one, n + 1)
        <5>1. h.tally.lost \in Nat /\ h.tally.reported \in Nat /\ h.page.dropped \in Nat
          BY <1>2 DEF HoldType, PageType, TallyType
        <5>2. Counted(one) = Counted(h) + 1 /\ Counted(h) \in Nat
          BY <1>3, <5>1 DEF Counted
        <5>3. QED
          BY <1>3, <4>2, <5>1, <5>2 DEF DropHold
      <4>3. \A n \in Nat : DropHold(one, n) => DropHold(Flush(one, can, throws), n)
        BY <1>3, FlushStep
      <4>4. room = Flush(one, can, throws)
        BY <3>2
      <4> HIDE DEF room
      <4>5. SUFFICES ASSUME NEW n \in Nat, DropHold(h, n) PROVE DropHold(room, n + 1)
        BY <3>2, <4>1
      <4>6. n + 1 \in Nat /\ DropHold(one, n + 1)
        BY <4>2, <4>5
      <4>7. QED
        BY <4>3, <4>4, <4>6
    <3>3. QED
      BY <3>1, <3>2
  <2> HIDE DEF room
  <2> DEFINE q == Push(room, kind)
  <2> HIDE DEF q
  <2>6. /\ HoldInv(k, can, low, tip) /\ k.tally.opens = q.tally.opens
        /\ q.tally.failures <= k.tally.failures /\ k.tally.failures \in Nat
        /\ can => Roomy(k)
        /\ \A n \in Nat : DropHold(q, n) => DropHold(k, n)
    <3>1. HoldInv(q, can, low, tip) /\ k = Pushed(q, can, throws)
      BY <2>1, <2>4 DEF q
    <3>2. k.tally.failures \in Nat
      <4>1. HoldInv(k, can, low, tip)
        BY <3>1, PushedStep
      <4>2. QED
        BY <4>1 DEF HoldInv, HoldType, TallyType
    <3> DEFINE r == Pushed(q, can, throws)
    <3>3. /\ HoldInv(r, can, low, tip) /\ r.tally.opens = q.tally.opens
          /\ q.tally.failures <= r.tally.failures
          /\ can => Roomy(r)
          /\ \A n \in Nat : DropHold(q, n) => DropHold(r, n)
      BY <3>1, PushedStep
    <3> HIDE DEF r
    <3>4. k = r
      BY <3>1 DEF r
    <3>5. QED
      BY <3>2, <3>3, <3>4
  <2>7. k.tally.opens = h.tally.opens /\ h.tally.failures <= k.tally.failures
    <3>1. q.tally = room.tally /\ room.tally.failures \in Nat /\ h.tally.failures \in Nat
      BY <1>2, <1>4, <2>2 DEF q, HoldType, TallyType
    <3>2. QED
      BY <1>4, <2>6, <3>1
  <2>8. QED
    BY <2>3, <2>5, <2>6, <2>7 DEF k, q
<1>7. QED
  BY <1>5, <1>6

-----------------------------------------------------------------------------
(* What the steps of a connection do to its ordinals.                      *)

LEMMA EmptyLen ==
    ASSUME NEW T, NEW q \in Seq(T)
    PROVE  q = <<>> <=> Len(q) = 0
OBVIOUS

LEMMA RunTail ==
    ASSUME NEW t \in Seq(Item), t # <<>>, Run(t)
    PROVE  /\ Head(t) \in Item /\ Tail(t) \in Seq(Item) /\ Head(t).id = First(t)
           /\ First(t) \in Nat \ {0} /\ Final(t) \in Nat
           /\ Tail(t) # <<>> =>
                  Run(Tail(t)) /\ First(Tail(t)) = First(t) + 1 /\ Final(Tail(t)) = Final(t)
           /\ Tail(t) = <<>> => Final(t) = First(t)
           /\ BatchIds(t) = {First(t)} \cup BatchIds(Tail(t))
<1> DEFINE u == Tail(t)
<1>1. /\ Len(t) \in Nat \ {0} /\ Head(t) = t[1] /\ t[1] \in Item /\ t[Len(t)] \in Item
      /\ u \in Seq(Item) /\ Len(u) = Len(t) - 1
      /\ \A i \in 1..Len(u) : u[i] = t[i + 1]
  OBVIOUS
<1>2. First(t) \in Nat \ {0} /\ Final(t) \in Nat /\ Head(t).id = First(t)
  BY <1>1 DEF First, Final, Item
<1>3. \A i \in 1..Len(t) : t[i].id = First(t) + i - 1
  BY DEF Run, First
<1> HIDE DEF u
<1>4. ASSUME u # <<>>
      PROVE  Run(u) /\ First(u) = First(t) + 1 /\ Final(u) = Final(t)
  <2>1. Len(u) \in Nat \ {0}
    BY <1>1, <1>4
  <2>2. ASSUME NEW i \in 1..Len(u) PROVE u[i].id = First(t) + i
    <3>1. i + 1 \in 1..Len(t) /\ u[i] = t[i + 1]
      BY <1>1
    <3>2. t[i + 1].id = First(t) + (i + 1) - 1
      BY <1>3, <3>1
    <3>3. QED
      BY <1>2, <3>1, <3>2
  <2>3. u[1].id = First(t) + 1
    BY <2>1, <2>2
  <2>4. Run(u)
    BY <1>2, <1>4, <2>2, <2>3 DEF Run
  <2>5. u[Len(u)] = t[Len(t)]
    BY <1>1, <2>1
  <2>6. QED
    BY <2>3, <2>4, <2>5 DEF First, Final
<1>5. ASSUME u = <<>> PROVE Final(t) = First(t)
  <2>1. Len(t) = 1
    BY <1>1, <1>5
  <2>2. QED
    BY <2>1 DEF First, Final
<1>6. BatchIds(t) = {First(t)} \cup BatchIds(u)
  <2>1. ASSUME NEW x \in BatchIds(t) PROVE x \in {First(t)} \cup BatchIds(u)
    <3>1. PICK i \in 1..Len(t) : x = t[i].id
      BY DEF BatchIds
    <3>2. CASE i = 1
      BY <3>1, <3>2 DEF First
    <3>3. CASE i # 1
      <4>1. i - 1 \in DOMAIN u /\ u[i - 1] = t[i]
        BY <1>1, <3>3
      <4>2. QED
        BY <3>1, <4>1 DEF BatchIds
    <3>4. QED
      BY <3>2, <3>3
  <2>2. First(t) \in BatchIds(t)
    BY <1>1 DEF BatchIds, First
  <2>3. ASSUME NEW x \in BatchIds(u) PROVE x \in BatchIds(t)
    <3>1. PICK i \in 1..Len(u) : x = u[i].id
      BY <1>1 DEF BatchIds
    <3>2. i + 1 \in DOMAIN t /\ u[i] = t[i + 1]
      BY <1>1
    <3>3. QED
      BY <3>1, <3>2 DEF BatchIds
  <2>4. QED
    BY <2>1, <2>2, <2>3
<1>7. QED
  BY <1>1, <1>2, <1>4, <1>5, <1>6 DEF u

LEMMA BatchIdsAppend ==
    ASSUME NEW T, NEW l \in Seq(T), NEW e
    PROVE  BatchIds(Append(l, e)) = BatchIds(l) \cup {e.id}
<1> DEFINE u == Append(l, e)
<1>1. /\ DOMAIN u = 1..Len(l) + 1 /\ DOMAIN l = 1..Len(l) /\ Len(l) \in Nat
      /\ \A i \in 1..Len(l) : u[i] = l[i]
      /\ u[Len(l) + 1] = e
  OBVIOUS
<1> HIDE DEF u
<1>2. \A i \in DOMAIN u : i \in DOMAIN l \/ i = Len(l) + 1
  BY <1>1
<1>3. \A i \in DOMAIN l : i \in DOMAIN u
  BY <1>1
<1>4. Len(l) + 1 \in DOMAIN u
  BY <1>1
<1>5. BatchIds(u) = BatchIds(l) \cup {e.id}
  BY <1>1, <1>2, <1>3, <1>4 DEF BatchIds
<1>6. QED
  BY <1>5 DEF u

LEMMA SentIdsConcat ==
    ASSUME NEW v \in Seq(Seq(Item)), NEW w \in Seq(Seq(Item))
    PROVE  SentIds(v \o w) = SentIds(v) \cup SentIds(w)
<1> DEFINE u == v \o w
<1>1. /\ DOMAIN u = 1..Len(u) /\ DOMAIN v = 1..Len(v) /\ DOMAIN w = 1..Len(w)
      /\ Len(u) = Len(v) + Len(w) /\ Len(v) \in Nat /\ Len(w) \in Nat
      /\ \A i \in 1..Len(v) : u[i] = v[i]
      /\ \A i \in 1..Len(w) : u[Len(v) + i] = w[i]
  OBVIOUS
<1> HIDE DEF u
<1>2. ASSUME NEW b \in DOMAIN u
      PROVE  \/ b \in DOMAIN v /\ u[b] = v[b]
             \/ b - Len(v) \in DOMAIN w /\ u[b] = w[b - Len(v)]
  BY <1>1
<1>3. \A b \in DOMAIN v : b \in DOMAIN u /\ u[b] = v[b]
  BY <1>1
<1>4. \A b \in DOMAIN w : Len(v) + b \in DOMAIN u /\ u[Len(v) + b] = w[b]
  BY <1>1
<1>5. SentIds(u) \subseteq SentIds(v) \cup SentIds(w)
  BY <1>2 DEF SentIds
<1>6. SentIds(v) \subseteq SentIds(u)
  BY <1>3 DEF SentIds
<1>7. SentIds(w) \subseteq SentIds(u)
  BY <1>4 DEF SentIds
<1>8. QED
  BY <1>5, <1>6, <1>7 DEF u

LEMMA SentIdsTail ==
    ASSUME NEW w \in Seq(Seq(Item)), w # <<>>
    PROVE  SentIds(w) = BatchIds(Head(w)) \cup SentIds(Tail(w))
<1> DEFINE u == Tail(w)
<1>1. /\ DOMAIN u = 1..Len(u) /\ DOMAIN w = 1..Len(w) /\ Len(w) \in Nat \ {0}
      /\ Len(u) = Len(w) - 1 /\ Head(w) = w[1]
      /\ \A i \in 1..Len(u) : u[i] = w[i + 1]
  OBVIOUS
<1> HIDE DEF u
<1>2. ASSUME NEW b \in DOMAIN w
      PROVE  b = 1 \/ (b - 1 \in DOMAIN u /\ u[b - 1] = w[b])
  BY <1>1
<1>3. \A b \in DOMAIN u : b + 1 \in DOMAIN w /\ u[b] = w[b + 1]
  BY <1>1
<1>4. 1 \in DOMAIN w
  BY <1>1
<1>5. SentIds(w) \subseteq BatchIds(w[1]) \cup SentIds(u)
  BY <1>2 DEF SentIds
<1>6. SentIds(u) \subseteq SentIds(w) /\ BatchIds(w[1]) \subseteq SentIds(w)
  BY <1>3, <1>4 DEF SentIds
<1>7. QED
  BY <1>1, <1>5, <1>6 DEF u

LEMMA SentIdsPrefix ==
    ASSUME NEW w \in Seq(Seq(Item)), NEW n \in 0..Len(w)
    PROVE  SentIds(SubSeq(w, 1, n)) \subseteq SentIds(w)
<1> DEFINE u == SubSeq(w, 1, n)
<1>1. DOMAIN u = 1..n /\ DOMAIN w = 1..Len(w) /\ \A i \in 1..n : u[i] = w[i]
  OBVIOUS
<1> HIDE DEF u
<1>2. \A i \in DOMAIN u : i \in DOMAIN w /\ u[i] = w[i]
  BY <1>1
<1>3. SentIds(u) \subseteq SentIds(w)
  BY <1>2 DEF SentIds
<1>4. QED
  BY <1>3 DEF u

(* A batch is read.                                                        *)
LEMMA ReadConn ==
    ASSUME NEW T, NEW l \in Seq(T), NEW w \in Seq(Seq(Item)), w # <<>>, NEW f \in Nat,
           ConnOK(l, <<>>, w, f)
    PROVE  /\ ConnOK(l, Head(w), Tail(w), f)
           /\ On(l, Head(w), Tail(w)) = On(l, <<>>, w)
           /\ SentTip(l, Head(w), Tail(w)) = SentTip(l, <<>>, w)
<1> DEFINE u == Tail(w)
           t == Head(w)
<1>1. /\ Len(w) \in Nat \ {0} /\ t = w[1] /\ u \in Seq(Seq(Item)) /\ Len(u) = Len(w) - 1
      /\ \A i \in 1..Len(u) : u[i] = w[i + 1]
  OBVIOUS
<1> HIDE DEF u, t
<1>0. u = <<>> <=> Len(w) = 1
  <2>1. u = <<>> <=> Len(u) = 0
    BY <1>1, EmptyLen
  <2>2. QED
    BY <1>1, <2>1
<1>2. /\ \A b \in 1..Len(w) : Run(w[b])
      /\ \A b \in 1..Len(w) - 1 : Link(Final(w[b]), First(w[b + 1]), f)
      /\ Link(LogTip(l), First(w[1]), f)
  BY DEF ConnOK, Chained, ReadTip
<1>3. Run(t) /\ t # <<>> /\ Link(LogTip(l), First(t), f)
  BY <1>1, <1>2 DEF Run
<1>4. Chained(u, f)
  <2>1. ASSUME NEW b \in 1..Len(u) PROVE Run(u[b])
    <3>1. b + 1 \in 1..Len(w) /\ u[b] = w[b + 1]
      BY <1>1
    <3>2. QED
      BY <1>2, <3>1
  <2>2. ASSUME NEW b \in 1..Len(u) - 1
        PROVE  Link(Final(u[b]), First(u[b + 1]), f)
    <3>1. b + 1 \in 1..Len(w) - 1 /\ b \in 1..Len(u) /\ b + 1 \in 1..Len(u)
      BY <1>1
    <3>2. u[b] = w[b + 1] /\ u[b + 1] = w[b + 1 + 1]
      BY <1>1, <3>1
    <3>3. QED
      BY <1>2, <3>1, <3>2
  <2>3. QED
    BY <2>1, <2>2 DEF Chained
<1>5. ASSUME u # <<>>
      PROVE  Link(Final(t), First(u[1]), f) /\ u[Len(u)] = w[Len(w)]
  <2>1. 1 \in 1..Len(w) - 1 /\ Len(u) \in 1..Len(u) /\ u[1] = w[1 + 1]
    BY <1>1, <1>5
  <2>2. u[Len(u)] = w[Len(w)]
    BY <1>1, <2>1
  <2>3. QED
    BY <1>1, <1>2, <2>1, <2>2
<1>6. ConnOK(l, t, u, f)
  BY <1>3, <1>4, <1>5 DEF ConnOK, ReadTip
<1>7. SentTip(l, t, u) = SentTip(l, <<>>, w)
  <2>1. CASE u = <<>>
    BY <1>0, <1>1, <1>3, <2>1 DEF SentTip, ReadTip
  <2>2. CASE u # <<>>
    BY <1>5, <2>2 DEF SentTip
  <2>3. QED
    BY <2>1, <2>2
<1>8. On(l, t, u) = On(l, <<>>, w)
  <2>1. SentIds(w) = BatchIds(t) \cup SentIds(u)
    BY SentIdsTail DEF t, u
  <2>2. BatchIds(<<>>) = {}
    BY DEF BatchIds
  <2>3. QED
    BY <2>1, <2>2 DEF On
<1>9. QED
  BY <1>6, <1>7, <1>8 DEF t, u

(* The first record read becomes an event.                                 *)
LEMMA RecordConn ==
    ASSUME NEW l \in Seq(Logged), NEW t \in Seq(Item), t # <<>>,
           NEW w \in Seq(Seq(Item)), NEW f \in Nat, NEW e \in Logged,
           ConnOK(l, t, w, f), LogOK(l, f), e.id = Head(t).id,
           \A x \in BatchIds(l) : x > 0
    PROVE  /\ ConnOK(Append(l, e), Tail(t), w, f) /\ LogOK(Append(l, e), f)
           /\ On(Append(l, e), Tail(t), w) = On(l, t, w)
           /\ SentTip(Append(l, e), Tail(t), w) = SentTip(l, t, w)
<1> DEFINE m == Append(l, e)
           u == Tail(t)
<1>1. /\ Run(t) /\ Link(LogTip(l), First(t), f) /\ Chained(w, f)
      /\ w # <<>> => Link(Final(t), First(w[1]), f)
  BY DEF ConnOK, ReadTip
<1>2. /\ u \in Seq(Item) /\ e.id = First(t) /\ First(t) \in Nat \ {0}
      /\ u # <<>> => Run(u) /\ First(u) = First(t) + 1 /\ Final(u) = Final(t)
      /\ u = <<>> => Final(t) = First(t)
      /\ BatchIds(t) = {First(t)} \cup BatchIds(u)
  BY <1>1, RunTail
<1>3. /\ Len(l) \in Nat /\ Len(m) = Len(l) + 1 /\ m[Len(l) + 1] = e
      /\ \A i \in 1..Len(l) : m[i] = l[i]
      /\ m \in Seq(Logged)
  OBVIOUS
<1>4. BatchIds(m) = BatchIds(l) \cup {First(t)}
  BY <1>2, BatchIdsAppend
<1>5. l = <<>> <=> Len(l) = 0
  BY EmptyLen
<1> HIDE DEF m, u
<1>6. LogTip(m) = First(t)
  <2>1. m # <<>>
    BY <1>3, EmptyLen
  <2>2. QED
    BY <1>2, <1>3, <2>1 DEF LogTip, Final
<1>7. ReadTip(m, u) = Final(t)
  BY <1>2, <1>6 DEF ReadTip
<1>8. u # <<>> => Link(LogTip(m), First(u), f)
  BY <1>2, <1>6 DEF Link
<1>9. ConnOK(m, u, w, f)
  BY <1>1, <1>2, <1>7, <1>8 DEF ConnOK
<1>10. ASSUME NEW i \in 1..Len(m) - 1
       PROVE  m[i].id < m[i + 1].id /\ (f = 0 => m[i + 1].id = m[i].id + 1)
  <2>1. CASE i = Len(l)
    <3>1. Len(l) \in 1..Len(l) /\ l # <<>>
      BY <1>3, <1>5, <2>1
    <3>2. Final(l) > 0
      BY <3>1 DEF Final, BatchIds
    <3>3. Link(Final(l), First(t), f)
      BY <1>1, <3>1 DEF LogTip
    <3>4. Final(l) < First(t) /\ (f = 0 => First(t) = Final(l) + 1)
      BY <3>2, <3>3 DEF Link
    <3>5. m[i].id = Final(l) /\ m[i + 1].id = First(t)
      BY <1>2, <1>3, <2>1, <3>1 DEF Final
    <3>6. QED
      BY <3>4, <3>5
  <2>2. CASE i # Len(l)
    <3>1. i \in 1..Len(l) - 1 /\ i \in 1..Len(l) /\ i + 1 \in 1..Len(l)
      BY <1>3, <2>2
    <3>2. m[i] = l[i] /\ m[i + 1] = l[i + 1]
      BY <1>3, <3>1
    <3>3. QED
      BY <3>1, <3>2 DEF LogOK
  <2>3. QED
    BY <2>1, <2>2
<1>11. SentTip(m, u, w) = SentTip(l, t, w)
  BY <1>7 DEF SentTip, ReadTip
<1>12. On(m, u, w) = On(l, t, w)
  BY <1>2, <1>4 DEF On
<1>13. QED
  BY <1>9, <1>10, <1>11, <1>12 DEF LogOK, m, u

(* Batches under way are lost with the socket.                             *)
LEMMA LoseConn ==
    ASSUME NEW l, NEW t, NEW w \in Seq(Seq(Item)), NEW n \in 0..Len(w), NEW f \in Nat
    PROVE  /\ SubSeq(w, 1, n) \in Seq(Seq(Item))
           /\ ConnOK(l, t, w, f) => ConnOK(l, t, SubSeq(w, 1, n), f)
           /\ On(l, t, SubSeq(w, 1, n)) \subseteq On(l, t, w)
<1> DEFINE u == SubSeq(w, 1, n)
<1>1. u \in Seq(Seq(Item)) /\ Len(u) = n /\ \A b \in 1..n : u[b] = w[b]
  OBVIOUS
<1>2. u # <<>> => 1 \in 1..n
  <2>1. u = <<>> <=> Len(u) = 0
    BY <1>1, EmptyLen
  <2>2. QED
    BY <1>1, <2>1
<1>3. SentIds(u) \subseteq SentIds(w)
  BY SentIdsPrefix
<1> HIDE DEF u
<1>4. ASSUME ConnOK(l, t, w, f) PROVE ConnOK(l, t, u, f)
  <2>1. Chained(w, f)
    BY <1>4 DEF ConnOK
  <2>2. \A b \in 1..n : b \in 1..Len(w) /\ u[b] = w[b]
    BY <1>1
  <2>3. \A b \in 1..n - 1 : b \in 1..Len(w) - 1 /\ u[b] = w[b] /\ u[b + 1] = w[b + 1]
    BY <1>1
  <2>4. Chained(u, f)
    BY <1>1, <2>1, <2>2, <2>3 DEF Chained
  <2>5. u # <<>> => u[1] = w[1] /\ w # <<>>
    BY <1>2, <2>2
  <2>6. QED
    BY <1>4, <2>4, <2>5 DEF ConnOK
<1>5. QED
  BY <1>1, <1>3, <1>4 DEF On, u

LEMMA ConnWeaker ==
    ASSUME NEW l, NEW t, NEW w, NEW f \in Nat, NEW g \in Nat, f <= g
    PROVE  /\ ConnOK(l, t, w, f) => ConnOK(l, t, w, g)
           /\ LogOK(l, f) => LogOK(l, g)
<1>1. ConnOK(l, t, w, f) => ConnOK(l, t, w, g)
  BY LinkWeaker, ChainedWeaker DEF ConnOK
<1>2. g = 0 => f = 0
  OBVIOUS
<1>3. QED
  BY <1>1, <1>2 DEF LogOK

(* What a handler has sent follows what was sent before.                   *)
LEMMA SendConn ==
    ASSUME NEW l, NEW t, NEW w \in Seq(Seq(Item)), NEW f \in Nat,
           NEW u \in Seq(Seq(Item)), NEW g \in Nat, f <= g,
           ConnOK(l, t, w, f), Chained(u, g),
           u # <<>> => Link(SentTip(l, t, w), First(u[1]), g)
    PROVE  /\ ConnOK(l, t, w \o u, g)
           /\ SentTip(l, t, w \o u) =
                  IF u = <<>> THEN SentTip(l, t, w) ELSE Final(u[Len(u)])
           /\ On(l, t, w \o u) = On(l, t, w) \cup SentIds(u)
<1> DEFINE v == w \o u
<1>1. /\ Len(v) = Len(w) + Len(u) /\ Len(w) \in Nat /\ Len(u) \in Nat
      /\ \A b \in 1..Len(w) : v[b] = w[b]
      /\ \A b \in 1..Len(u) : v[Len(w) + b] = u[b]
      /\ u = <<>> => v = w
      /\ v \in Seq(Seq(Item))
  OBVIOUS
<1>2. ConnOK(l, t, w, g)
  BY ConnWeaker
<1>3. On(l, t, v) = On(l, t, w) \cup SentIds(u)
  BY SentIdsConcat DEF On
<1>4. /\ u = <<>> <=> Len(u) = 0
      /\ w = <<>> <=> Len(w) = 0
      /\ v = <<>> <=> Len(v) = 0
  BY <1>1, EmptyLen
<1> HIDE DEF v
<1>5. CASE u = <<>>
  BY <1>1, <1>2, <1>3, <1>5 DEF v
<1>6. CASE u # <<>>
  <2>1. Len(u) \in 1..Len(u) /\ 1 \in 1..Len(u) /\ v # <<>>
    BY <1>1, <1>4, <1>6
  <2>2. v[Len(v)] = u[Len(u)] /\ v[Len(w) + 1] = u[1]
    BY <1>1, <2>1
  <2>3. /\ \A b \in 1..Len(w) : Run(w[b])
        /\ \A b \in 1..Len(w) - 1 : Link(Final(w[b]), First(w[b + 1]), g)
    BY <1>2 DEF ConnOK, Chained
  <2>4. ASSUME NEW b \in 1..Len(v) PROVE Run(v[b])
    <3>1. CASE b \in 1..Len(w)
      BY <1>1, <2>3, <3>1
    <3>2. CASE b \notin 1..Len(w)
      <4>1. b - Len(w) \in 1..Len(u) /\ b = Len(w) + (b - Len(w))
        BY <1>1, <3>2
      <4>2. v[b] = u[b - Len(w)]
        BY <1>1, <4>1
      <4>3. QED
        BY <4>1, <4>2 DEF Chained
    <3>3. QED
      BY <3>1, <3>2
  <2>5. ASSUME NEW b \in 1..Len(v) - 1 PROVE Link(Final(v[b]), First(v[b + 1]), g)
    <3>1. CASE b < Len(w)
      <4>0. b \in Nat \ {0} /\ Len(w) \in Nat
        BY <1>1
      <4>1. b \in 1..Len(w) - 1 /\ b \in 1..Len(w) /\ b + 1 \in 1..Len(w)
        BY <3>1, <4>0
      <4>2. v[b] = w[b] /\ v[b + 1] = w[b + 1]
        BY <1>1, <4>1
      <4>3. QED
        BY <2>3, <4>1, <4>2
    <3>2. CASE b = Len(w)
      <4>1. v[b] = w[Len(w)] /\ v[b + 1] = u[1] /\ w # <<>>
        BY <1>1, <1>4, <2>2, <3>2
      <4>2. QED
        BY <1>6, <4>1 DEF SentTip
    <3>3. CASE b > Len(w)
      <4>1. PICK c \in 1..Len(u) - 1 : b = Len(w) + c /\ b + 1 = Len(w) + (c + 1)
        <5>1. b - Len(w) \in 1..Len(u) - 1
          BY <1>1, <3>3
        <5>2. b = Len(w) + (b - Len(w)) /\ b + 1 = Len(w) + ((b - Len(w)) + 1)
          BY <1>1
        <5>3. QED
          BY <5>1, <5>2
      <4>2. c \in 1..Len(u) /\ c + 1 \in 1..Len(u)
        BY <1>1
      <4>3. v[b] = u[c] /\ v[b + 1] = u[c + 1]
        BY <1>1, <4>1, <4>2
      <4>4. QED
        BY <4>1, <4>3 DEF Chained
    <3>4. QED
      BY <1>1, <3>1, <3>2, <3>3
  <2>6. Chained(v, g)
    BY <2>4, <2>5 DEF Chained
  <2>7. Link(ReadTip(l, t), First(v[1]), g)
    <3>1. CASE w = <<>>
      <4>1. v[1] = u[1]
        BY <1>1, <1>4, <2>2, <3>1
      <4>2. QED
        BY <1>6, <3>1, <4>1 DEF SentTip
    <3>2. CASE w # <<>>
      <4>1. v[1] = w[1]
        BY <1>1, <1>4, <3>2
      <4>2. QED
        BY <1>2, <3>2, <4>1 DEF ConnOK
    <3>3. QED
      BY <3>1, <3>2
  <2>8. ConnOK(l, t, v, g)
    BY <1>2, <2>6, <2>7 DEF ConnOK
  <2>9. SentTip(l, t, v) = Final(u[Len(u)])
    BY <2>1, <2>2 DEF SentTip
  <2>10. QED
    BY <1>3, <1>6, <2>8, <2>9 DEF v
<1>7. QED
  BY <1>5, <1>6

LEMMA TipIn ==
    ASSUME NEW l \in Seq(Logged), NEW t \in Seq(Item), NEW w \in Seq(Seq(Item)), NEW f,
           Chained(w, f)
    PROVE  SentTip(l, t, w) = 0 \/ SentTip(l, t, w) \in On(l, t, w)
<1>1. CASE w # <<>>
  <2>1. Len(w) \in 1..Len(w) /\ w[Len(w)] \in Seq(Item)
    BY <1>1
  <2>2. w[Len(w)] # <<>>
    BY <2>1 DEF Chained, Run
  <2>3. Len(w[Len(w)]) \in DOMAIN w[Len(w)]
    BY <2>1, <2>2
  <2>4. Final(w[Len(w)]) \in BatchIds(w[Len(w)])
    BY <2>3 DEF Final, BatchIds
  <2>5. Final(w[Len(w)]) \in SentIds(w)
    BY <2>1, <2>4 DEF SentIds
  <2>6. QED
    BY <1>1, <2>5 DEF SentTip, On
<1>2. CASE w = <<>> /\ t # <<>>
  <2>1. Len(t) \in DOMAIN t
    BY <1>2
  <2>2. QED
    BY <1>2, <2>1 DEF SentTip, ReadTip, Final, On, BatchIds
<1>3. CASE w = <<>> /\ t = <<>> /\ l # <<>>
  <2>1. Len(l) \in DOMAIN l
    BY <1>3
  <2>2. QED
    BY <1>3, <2>1 DEF SentTip, ReadTip, LogTip, Final, On, BatchIds
<1>4. CASE w = <<>> /\ t = <<>> /\ l = <<>>
  BY <1>4 DEF SentTip, ReadTip, LogTip
<1>5. QED
  BY <1>1, <1>2, <1>3, <1>4

-----------------------------------------------------------------------------
LEMMA OnNat ==
    ASSUME NEW l \in Seq(Logged), NEW t \in Seq(Item), NEW w \in Seq(Seq(Item))
    PROVE  On(l, t, w) \subseteq Nat
<1>1. BatchIds(l) \subseteq Nat
  <2>1. \A i \in DOMAIN l : l[i] \in Logged
    OBVIOUS
  <2>2. QED
    BY <2>1 DEF BatchIds, Logged
<1>2. ASSUME NEW q \in Seq(Item) PROVE BatchIds(q) \subseteq Nat
  <2>1. \A i \in DOMAIN q : q[i] \in Item
    OBVIOUS
  <2>2. QED
    BY <2>1 DEF BatchIds, Item
<1>3. SentIds(w) \subseteq Nat
  <2>1. \A b \in DOMAIN w : w[b] \in Seq(Item)
    OBVIOUS
  <2>2. QED
    BY <1>2, <2>1 DEF SentIds
<1>4. QED
  BY <1>1, <1>2, <1>3 DEF On

LEMMA InitIInv == Init => IInv
<1> SUFFICES ASSUME Init PROVE IInv
  OBVIOUS
<1>1. <<>> \in Seq(Item) /\ <<>> \in Seq(Seq(Item)) /\ <<>> \in Seq(Logged)
  OBVIOUS
<1>2. 1 \in Sockets /\ Sockets \subseteq Senders
  BY SocketAssumption DEF Sockets, Senders
<1>3. PageType(page) /\ TallyType(tally) /\ page.buffer = <<>> /\ page.sent = <<>>
  BY <1>1 DEF Init, NoPage, NoTally, PageType, TallyType
<1>4. TypeInv
  BY <1>1, <1>2, <1>3 DEF Init, TypeInv, Phases, Senders
<1>5. \A s \in Sockets : log[s] = <<>> /\ todo[s] = <<>> /\ wire[s] = <<>> /\ socket[s] # "open"
  BY <1>2 DEF Init
<1>6. PageInv
  <2>1. Level(page) = 0
    BY <1>3 DEF Level, Init, NoPage
  <2>2. Buffered(page)
    BY <1>3, <2>1 DEF Buffered
  <2>3. QED
    BY <1>3, <1>4, <1>5, <2>2 DEF PageInv, TypeInv
<1>7. ThreadInv /\ QuietInv
  BY <1>5 DEF ThreadInv, QuietInv
<1>8. LogInv /\ ChainInv
  BY <1>5 DEF LogInv, ChainInv, LogOK, ConnOK, Chained
<1>9. OrderInv
  <2>1. \A s \in Sockets : OnConn(s) = {}
    BY <1>5 DEF OnConn, On, BatchIds, SentIds
  <2>2. opened = 1 /\ socket[1] = "connecting"
    BY <1>2 DEF Init
  <2>3. QED
    BY <2>1, <2>2 DEF OrderInv
<1>10. QED
  BY <1>4, <1>6, <1>7, <1>8, <1>9 DEF IInv

(* A handler of the page ends.                                             *)
LEMMA PageStep ==
    ASSUME IInv, phase = "capture", NEW h, NEW can \in BOOLEAN,
           HoldInv(h, can, Level(page), TipOf(opened)), can => Roomy(h),
           tally.failures <= h.tally.failures, Becomes(h),
           socket' = socket \/ (can /\ socket' = [socket EXCEPT ![opened] = "open"]),
           can <=> socket'[opened] = "open", can => connected',
           UNCHANGED <<opened, thread, todo, phase, log>>
    PROVE  IInv'
<1> DEFINE u == h.page.sent
           f == tally.failures
           g == h.tally.failures
           lv == Level(page)
           lw == Level(h.page)
<1>1. /\ HoldType(h) /\ PageType(h.page) /\ TallyType(h.tally) /\ u \in Seq(Seq(Item))
      /\ f \in Nat /\ g \in Nat /\ f <= g /\ opened \in Sockets
      /\ Buffered(h.page) /\ lw \in Nat /\ lv \in Nat /\ lv <= lw
  BY DEF IInv, TypeInv, PageInv, HoldInv, HoldType, PageType, TallyType, Buffered
<1>2. /\ page' = [h.page EXCEPT !.sent = <<>>] /\ tally' = h.tally
      /\ wire' = [wire EXCEPT ![opened] = wire[opened] \o u]
  BY DEF Becomes
<1>3. /\ PageType(page') /\ page'.buffer = h.page.buffer
      /\ page'.ordinal = h.page.ordinal /\ page'.sent = <<>>
  BY <1>1, <1>2 DEF PageType
<1>4. Level(page') = lw /\ Buffered(page')
  BY <1>1, <1>3 DEF Level, Buffered
<1>5. /\ \A s \in Sockets : wire[s] \in Seq(Seq(Item)) /\ todo[s] \in Seq(Item)
      /\ \A s \in Sockets : ConnOK(log[s], todo[s], wire[s], f) /\ LogOK(log[s], f)
  BY DEF IInv, TypeInv, ChainInv, LogInv
<1>6. /\ Chained(u, g)
      /\ u # <<>> => Link(TipOf(opened), First(u[1]), g)
      /\ ~can => u = <<>>
      /\ \A b \in 1..Len(u) : \A i \in 1..Len(u[b]) : lv < u[b][i].id /\ u[b][i].id <= lw
      /\ can /\ g = 0 => HeldTip(h, TipOf(opened)) \in {0, lw}
  BY DEF HoldInv
<1>7. /\ wire'[opened] = wire[opened] \o u
      /\ \A s \in Sockets : s # opened => wire'[s] = wire[s]
      /\ wire' \in [Sockets -> Seq(Seq(Item))]
  BY <1>1, <1>2, <1>5 DEF IInv, TypeInv
<1>8. \A x \in SentIds(u) : x \in Nat /\ lv < x /\ x <= lw
  <2> TAKE x \in SentIds(u)
  <2>0. DOMAIN u = 1..Len(u)
    BY <1>1
  <2>1. PICK b \in 1..Len(u) : x \in BatchIds(u[b])
    BY <2>0 DEF SentIds
  <2>2. u[b] \in Seq(Item)
    BY <1>1
  <2>3. PICK i \in 1..Len(u[b]) : x = u[b][i].id
    BY <2>1, <2>2 DEF BatchIds
  <2>4. u[b][i] \in Item
    BY <2>2
  <2>5. QED
    BY <1>6, <2>3, <2>4 DEF Item
<1> HIDE DEF u, f, g, lv, lw
<1>9. /\ ConnOK(log[opened], todo[opened], wire'[opened], g)
      /\ SentTip(log[opened], todo[opened], wire'[opened]) = HeldTip(h, TipOf(opened))
      /\ On(log[opened], todo[opened], wire'[opened]) = OnConn(opened) \cup SentIds(u)
  <2> DEFINE w == wire[opened]
             l == log[opened]
             t == todo[opened]
  <2>1. /\ ConnOK(l, t, w \o u, g)
        /\ SentTip(l, t, w \o u) = IF u = <<>> THEN SentTip(l, t, w) ELSE Final(u[Len(u)])
        /\ On(l, t, w \o u) = On(l, t, w) \cup SentIds(u)
    BY <1>1, <1>5, <1>6, SendConn DEF TipOf
  <2>2. QED
    BY <1>7, <2>1 DEF HeldTip, OnConn, TipOf, u
<1>10. TypeInv'
  BY <1>1, <1>2, <1>3, <1>7 DEF IInv, TypeInv
<1>11. PageInv'
  BY <1>3, <1>4 DEF PageInv, Roomy
<1>12. ThreadInv'
  BY DEF ThreadInv, IInv
<1>13. QuietInv'
  <2>1. ASSUME NEW s \in Sockets, s > opened \/ socket'[s] \in {"none", "connecting"}
        PROVE  log[s] = <<>> /\ todo[s] = <<>> /\ wire'[s] = <<>>
    <3>1. CASE s = opened
      <4>1. ~can /\ socket' = socket /\ u = <<>>
        BY <1>1, <1>6, <2>1, <3>1 DEF Sockets
      <4>2. wire[opened] = <<>> /\ log[s] = <<>> /\ todo[s] = <<>>
        BY <1>1, <2>1, <3>1, <4>1 DEF IInv, QuietInv, Sockets
      <4>3. QED
        BY <1>7, <3>1, <4>1, <4>2
    <3>2. CASE s # opened
      <4>1. socket'[s] = socket[s]
        BY <1>1, <3>2 DEF IInv, TypeInv
      <4>2. QED
        BY <1>7, <2>1, <3>2, <4>1 DEF IInv, QuietInv
    <3>3. QED
      BY <3>1, <3>2
  <2>2. QED
    BY <2>1 DEF QuietInv
<1>14. LogInv'
  <2>1. \A s \in Sockets : LogOK(log[s], g)
    BY <1>1, <1>5, ConnWeaker
  <2>2. QED
    BY <1>2, <2>1 DEF LogInv, g
<1>15. ChainInv'
  <2>1. \A s \in Sockets : ConnOK(log[s], todo[s], wire'[s], g)
    BY <1>1, <1>5, <1>7, <1>9, ConnWeaker
  <2>2. QED
    BY <1>2, <2>1 DEF ChainInv, g
<1>16. OrderInv'
  <2> DEFINE O(s) == On(log[s], todo[s], wire'[s])
  <2>1. /\ O(opened) = OnConn(opened) \cup SentIds(u)
        /\ \A s \in Sockets : s # opened => O(s) = OnConn(s)
    BY <1>7, <1>9 DEF OnConn
  <2>2. /\ \A s \in Sockets : \A x \in OnConn(s) : x > 0 /\ x <= lv
        /\ \A s, t \in Sockets : s < t => \A x \in OnConn(s), y \in OnConn(t) : x < y
    BY DEF IInv, OrderInv, lv
  <2>3. \A s \in Sockets : s > opened => OnConn(s) = {}
    BY DEF IInv, QuietInv, OnConn, On, BatchIds, SentIds
  <2>4. \A s \in Sockets : OnConn(s) \subseteq Nat
    <3>2. \A s \in Sockets : log[s] \in Seq(Logged)
      BY DEF IInv, TypeInv, Senders
    <3>3. QED
      BY <1>5, <3>2, OnNat DEF OnConn
  <2> HIDE DEF O
  <2>5. ASSUME NEW s \in Sockets, NEW x \in O(s)
        PROVE  x > 0 /\ x <= lw /\ x \in Nat
    <3>1. CASE x \in OnConn(s)
      <4>1. x \in Nat /\ x > 0 /\ x <= lv
        BY <2>2, <2>4, <3>1
      <4>2. QED
        BY <1>1, <4>1
    <3>2. CASE x \notin OnConn(s)
      <4>1. x \in SentIds(u)
        BY <2>1, <2>5, <3>2
      <4>2. QED
        BY <1>1, <1>8, <4>1
    <3>3. QED
      BY <3>1, <3>2
  <2>6. ASSUME NEW s \in Sockets, NEW t \in Sockets, s < t, NEW x \in O(s), NEW y \in O(t)
        PROVE  x < y
    <3>1. CASE t = opened
      <4>1. x \in OnConn(s) /\ x \in Nat /\ x <= lv
        BY <2>1, <2>2, <2>4, <2>6, <3>1 DEF Sockets
      <4>2. CASE y \in OnConn(t)
        BY <2>2, <2>6, <4>1, <4>2
      <4>3. CASE y \in SentIds(u)
        BY <1>1, <1>8, <4>1, <4>3
      <4>4. QED
        BY <2>1, <3>1, <4>2, <4>3
    <3>2. CASE t # opened
      <4>1. y \in OnConn(t)
        BY <2>1, <3>2
      <4>2. ~(t > opened)
        BY <2>3, <4>1
      <4>3. s # opened
        BY <1>1, <2>6, <3>2, <4>2 DEF Sockets
      <4>4. QED
        BY <2>1, <2>2, <2>6, <4>1, <4>3
    <3>3. QED
      BY <3>1, <3>2
  <2>7. can /\ g = 0 => SentTip(log[opened], todo[opened], wire'[opened]) \in {0, lw}
    BY <1>6, <1>9
  <2>8. \A s \in Sockets : OnConn(s)' = O(s)
    BY DEF OnConn, O
  <2>9. TipOf(opened)' = SentTip(log[opened], todo[opened], wire'[opened])
    BY DEF TipOf
  <2>10. /\ Level(page)' = lw /\ (socket[opened])' = socket'[opened]
         /\ tally'.failures = g
    BY <1>2, <1>4 DEF g
  <2>11. QED
    BY <2>5, <2>6, <2>7, <2>8, <2>9, <2>10 DEF OrderInv
<1>17. QED
  BY <1>10, <1>11, <1>12, <1>13, <1>14, <1>15, <1>16 DEF IInv

(* What the page holds when one of its handlers begins.                    *)
LEMMA HereHold ==
    ASSUME IInv, phase = "capture", NEW can \in BOOLEAN,
           can /\ tally.failures = 0 => TipOf(opened) \in {0, Level(page)}
    PROVE  /\ HoldInv(Here, can, Level(page), TipOf(opened))
           /\ Level(page) \in Nat /\ TipOf(opened) \in 0..Level(page)
           /\ HoldType(Here) /\ Here.page = page /\ Here.tally = tally
<1>1. /\ PageType(page) /\ TallyType(tally) /\ page.sent = <<>> /\ Buffered(page)
      /\ opened \in Sockets
  BY DEF IInv, TypeInv, PageInv
<1>2. HoldType(Here) /\ Here.page = page /\ Here.tally = tally
  BY <1>1, Held DEF Here, HoldType
<1>3. Level(page) \in Nat
  BY <1>1 DEF Buffered
<1>4. TipOf(opened) \in 0..Level(page)
  <2> DEFINE l == log[opened]
             t == todo[opened]
             w == wire[opened]
  <2>1. l \in Seq(Logged) /\ t \in Seq(Item) /\ w \in Seq(Seq(Item))
    BY <1>1 DEF IInv, TypeInv, Senders
  <2>2. Chained(w, tally.failures)
    BY <1>1 DEF IInv, ChainInv, ConnOK
  <2>3. SentTip(l, t, w) = 0 \/ SentTip(l, t, w) \in On(l, t, w)
    BY <2>1, <2>2, TipIn
  <2>4. On(l, t, w) \subseteq Nat
    BY <2>1, OnNat
  <2>5. \A x \in On(l, t, w) : x <= Level(page)
    BY <1>1 DEF IInv, OrderInv, OnConn
  <2> HIDE DEF l, t, w
  <2>6. SentTip(l, t, w) \in 0..Level(page)
    BY <1>3, <2>3, <2>4, <2>5
  <2>7. QED
    BY <2>6 DEF TipOf, l, t, w
<1>5. Chained(page.sent, tally.failures)
  BY <1>1 DEF Chained
<1>6. HeldTip(Here, TipOf(opened)) = TipOf(opened)
  BY <1>1, <1>2 DEF HeldTip
<1> DEFINE H == Here
<1> HIDE DEF H
<1>7. H = Here
  BY DEF H
<1>8. Level(page) <= Level(page)
  BY <1>3
<1>9. HoldInv(H, can, Level(page), TipOf(opened))
  BY <1>1, <1>2, <1>5, <1>6, <1>7, <1>8 DEF HoldInv
<1>10. QED
  BY <1>2, <1>3, <1>4, <1>7, <1>9

LEMMA TimerOff ==
    ASSUME NEW h, HoldType(h)
    PROVE  LET g == [h EXCEPT !.page.timer = FALSE]
           IN  /\ HoldType(g) /\ g.tally = h.tally /\ g.page.buffer = h.page.buffer
               /\ g.page.ordinal = h.page.ordinal /\ g.page.sent = h.page.sent
               /\ g.page.dropped = h.page.dropped
<1> DEFINE P == [h.page EXCEPT !.timer = FALSE]
           g == [h EXCEPT !.page = P]
<1>1. /\ PageType(P) /\ P.buffer = h.page.buffer /\ P.ordinal = h.page.ordinal
      /\ P.sent = h.page.sent /\ P.dropped = h.page.dropped
  BY DEF HoldType, PageType
<1> HIDE DEF P
<1>2. g.page = P /\ g.tally = h.tally /\ HoldType(g)
  BY <1>1 DEF HoldType
<1>3. QED
  BY <1>1, <1>2 DEF P

LEMMA OneMoreOpen ==
    ASSUME NEW h, HoldType(h)
    PROVE  LET g == [h EXCEPT !.tally.opens = @ + 1]
           IN  /\ HoldType(g) /\ g.page = h.page /\ g.tally.opens = h.tally.opens + 1
               /\ g.tally.failures = h.tally.failures /\ g.tally.lost = h.tally.lost
               /\ g.tally.reported = h.tally.reported
<1> DEFINE T == [h.tally EXCEPT !.opens = @ + 1]
           g == [h EXCEPT !.tally = T]
<1>1. /\ TallyType(T) /\ T.opens = h.tally.opens + 1 /\ T.failures = h.tally.failures
      /\ T.lost = h.tally.lost /\ T.reported = h.tally.reported
  BY DEF HoldType, TallyType
<1> HIDE DEF T
<1>2. g.tally = T /\ g.page = h.page /\ HoldType(g)
  BY <1>1 DEF HoldType
<1>3. QED
  BY <1>1, <1>2 DEF T

LEMMA ObserveIInv ==
    ASSUME IInv, NEW kind \in Observable, NEW throws \in BOOLEAN, Observe(kind, throws)
    PROVE  IInv'
<1> DEFINE h == Emit(Here, kind, CanSend, throws)
<1>1. /\ phase = "capture" /\ Becomes(h)
      /\ UNCHANGED <<connected, opened, socket, thread, todo, phase, log>>
  BY DEF Observe, serverVars, logVars
<1>2. CanSend \in BOOLEAN /\ (CanSend <=> socket[opened] = "open") /\ kind \in Kinds
  BY <1>1, ObservableAssumption DEF CanSend, IInv, PageInv, Kinds
<1>3. CanSend /\ tally.failures = 0 => TipOf(opened) \in {0, Level(page)}
  BY <1>1, <1>2 DEF IInv, OrderInv
<1>4. /\ HoldInv(Here, CanSend, Level(page), TipOf(opened))
      /\ Level(page) \in Nat /\ TipOf(opened) \in 0..Level(page)
      /\ Here.tally = tally
  BY <1>1, <1>2, <1>3, HereHold
<1>5. /\ HoldInv(h, CanSend, Level(page), TipOf(opened))
      /\ Here.tally.failures <= h.tally.failures /\ (CanSend => Roomy(h))
  BY <1>2, <1>4, EmitStep
<1> HIDE DEF h
<1>6. CanSend => connected'
  BY <1>1 DEF CanSend
<1>7. CanSend <=> socket'[opened] = "open"
  BY <1>1, <1>2
<1>8. QED
  BY <1>1, <1>2, <1>4, <1>5, <1>6, <1>7, PageStep

LEMMA TickIInv ==
    ASSUME IInv, NEW throws \in BOOLEAN, Tick(throws)
    PROVE  IInv'
<1> DEFINE g == [Here EXCEPT !.page.timer = FALSE]
           h == Flush(g, CanSend, throws)
<1>1. /\ phase = "capture" /\ Becomes(h)
      /\ UNCHANGED <<connected, opened, socket, thread, todo, phase, log>>
  BY DEF Tick, serverVars, logVars
<1>2. CanSend \in BOOLEAN /\ (CanSend <=> socket[opened] = "open")
  BY <1>1 DEF CanSend, IInv, PageInv
<1>3. CanSend /\ tally.failures = 0 => TipOf(opened) \in {0, Level(page)}
  BY <1>1, <1>2 DEF IInv, OrderInv
<1>4. /\ HoldInv(Here, CanSend, Level(page), TipOf(opened))
      /\ Level(page) \in Nat /\ TipOf(opened) \in 0..Level(page)
      /\ HoldType(Here) /\ Here.tally = tally
  BY <1>1, <1>2, <1>3, HereHold
<1>5. HoldType(g) /\ g.tally = tally /\ HoldInv(g, CanSend, Level(page), TipOf(opened))
  <2>1. /\ HoldType(g) /\ g.tally = Here.tally /\ g.page.buffer = Here.page.buffer
        /\ g.page.ordinal = Here.page.ordinal /\ g.page.sent = Here.page.sent
    BY <1>4, TimerOff
  <2> HIDE DEF g
  <2>2. QED
    BY <1>4, <2>1, SameHold
<1> HIDE DEF g
<1>6. HoldInv(h, CanSend, Level(page), TipOf(opened))
  BY <1>2, <1>4, <1>5, FlushHold
<1>7. /\ g.tally.failures <= h.tally.failures
      /\ CanSend => h.page.buffer = <<>>
  BY <1>2, <1>5, FlushStep
<1> HIDE DEF h
<1>8. CanSend => Roomy(h)
  BY <1>7, BufferAssumption DEF Roomy
<1>9. CanSend => connected'
  BY <1>1 DEF CanSend
<1>10. CanSend <=> socket'[opened] = "open"
  BY <1>1, <1>2
<1>11. QED
  BY <1>1, <1>2, <1>5, <1>6, <1>7, <1>8, <1>9, <1>10, PageStep

LEMMA OpenIInv ==
    ASSUME IInv, NEW throws \in BOOLEAN, Open(throws)
    PROVE  IInv'
<1> DEFINE g == [Here EXCEPT !.tally.opens = @ + 1]
           e == Emit(g, "started", TRUE, throws)
           h == Flush(e, TRUE, throws)
<1>1. /\ phase = "capture" /\ socket[opened] = "connecting"
      /\ socket' = [socket EXCEPT ![opened] = "open"]
      /\ connected' = TRUE /\ Becomes(h)
      /\ UNCHANGED <<opened, thread, todo, phase, log>>
  BY DEF Open, serverVars, logVars
<1>2. opened \in Sockets /\ socket'[opened] = "open"
  BY <1>1 DEF IInv, TypeInv
<1>3. TipOf(opened) = 0
  BY <1>1, <1>2 DEF IInv, QuietInv, TipOf, SentTip, ReadTip, LogTip
<1>4. /\ HoldInv(Here, TRUE, Level(page), TipOf(opened))
      /\ Level(page) \in Nat /\ TipOf(opened) \in 0..Level(page)
      /\ HoldType(Here) /\ Here.tally = tally
  BY <1>1, <1>3, HereHold
<1>5. HoldType(g) /\ g.tally.failures = tally.failures /\ HoldInv(g, TRUE, Level(page), TipOf(opened))
  <2>1. /\ HoldType(g) /\ g.page = Here.page /\ g.tally.failures = Here.tally.failures
    BY <1>4, OneMoreOpen
  <2> HIDE DEF g
  <2>2. QED
    BY <1>4, <2>1, SameHold
<1> HIDE DEF g
<1>6. /\ HoldInv(e, TRUE, Level(page), TipOf(opened)) /\ g.tally.failures <= e.tally.failures
  BY <1>4, <1>5, EmitStep DEF Kinds
<1> HIDE DEF e
<1>7. HoldType(e)
  BY <1>6 DEF HoldInv
<1>8. HoldInv(h, TRUE, Level(page), TipOf(opened))
  BY <1>4, <1>6, FlushHold
<1>9. e.tally.failures <= h.tally.failures /\ h.page.buffer = <<>>
  BY <1>7, FlushStep
<1> HIDE DEF h
<1>10. tally.failures <= h.tally.failures
  <2>1. /\ tally.failures \in Nat /\ e.tally.failures \in Nat /\ h.tally.failures \in Nat
    BY <1>7, <1>8 DEF IInv, TypeInv, TallyType, HoldInv, HoldType
  <2>2. QED
    BY <1>5, <1>6, <1>9, <2>1
<1>11. Roomy(h)
  BY <1>9, BufferAssumption DEF Roomy
<1>12. QED
  BY <1>1, <1>2, <1>8, <1>10, <1>11, PageStep

-----------------------------------------------------------------------------
(* The other steps: the page's ordinals are left alone or the page is      *)
(* gone, and nothing comes onto a connection.                              *)
LEMMA Shrink ==
    ASSUME IInv, TypeInv', opened' = opened, tally'.failures = tally.failures,
           phase' = "capture" => phase = "capture" /\ page' = page,
           phase' # "closed" => phase # "closed",
           phase' = "capture" /\ socket'[opened] = "open" =>
               socket[opened] = "open" /\ TipOf(opened)' = TipOf(opened),
           \A s \in Sockets :
               /\ OnConn(s)' \subseteq OnConn(s)
               /\ LogOK(log'[s], tally.failures)
               /\ phase' # "closed" =>
                      ConnOK(log'[s], todo'[s], wire'[s], tally.failures)
    PROVE  LogInv' /\ ChainInv' /\ OrderInv'
<1>1. LogInv'
  BY DEF LogInv
<1>2. ChainInv'
  BY DEF ChainInv
<1>3. \A s \in Sockets : \A x \in OnConn(s)' :
          x > 0 /\ (phase' = "capture" => x <= Level(page)')
  BY DEF IInv, OrderInv
<1>4. \A s, t \in Sockets : s < t => \A x \in OnConn(s)', y \in OnConn(t)' : x < y
  BY DEF IInv, OrderInv
<1>5. phase' = "capture" /\ socket'[opened] = "open" /\ tally'.failures = 0 =>
          TipOf(opened)' \in {0, Level(page)'}
  BY DEF IInv, OrderInv
<1>6. OrderInv'
  BY <1>3, <1>4, <1>5 DEF OrderInv
<1>7. QED
  BY <1>1, <1>2, <1>6

(* The same where nothing moves on the connections.                        *)
LEMMA Still ==
    ASSUME IInv, TypeInv', opened' \in {opened, opened + 1}, tally'.failures = tally.failures,
           phase' = "capture" => phase = "capture" /\ page' = page,
           phase' # "closed" => phase # "closed",
           phase' = "capture" /\ socket'[opened'] = "open" =>
               opened' = opened /\ socket[opened] = "open",
           UNCHANGED <<todo, wire>>, \A s \in Sockets : log'[s] = log[s]
    PROVE  LogInv' /\ ChainInv' /\ OrderInv'
<1>1. /\ \A s \in Sockets : LogOK(log'[s], tally.failures)
      /\ phase' # "closed" =>
             \A s \in Sockets : ConnOK(log'[s], todo'[s], wire'[s], tally.failures)
  BY DEF IInv, LogInv, ChainInv
<1>2. LogInv' /\ ChainInv'
  BY <1>1 DEF LogInv, ChainInv
<1>3. \A s \in Sockets : OnConn(s)' = OnConn(s) /\ TipOf(s)' = TipOf(s)
  BY DEF OnConn, TipOf
<1>4. opened \in Sockets /\ opened' \in Sockets
  BY DEF IInv, TypeInv
<1>5. \A s \in Sockets : \A x \in OnConn(s)' :
          x > 0 /\ (phase' = "capture" => x <= Level(page)')
  BY <1>3 DEF IInv, OrderInv
<1>6. \A s, t \in Sockets : s < t => \A x \in OnConn(s)', y \in OnConn(t)' : x < y
  BY <1>3 DEF IInv, OrderInv
<1>7. ASSUME phase' = "capture", socket'[opened'] = "open", tally'.failures = 0
      PROVE  SentTip(log'[opened'], todo'[opened'], wire'[opened']) \in {0, Level(page')}
  <2>1. opened' = opened /\ page' = page /\ TipOf(opened) \in {0, Level(page)}
    BY <1>7 DEF IInv, OrderInv
  <2>2. log'[opened'] = log[opened] /\ todo' = todo /\ wire' = wire
    BY <1>4, <2>1
  <2>3. QED
    BY <2>1, <2>2 DEF TipOf
<1>8. OrderInv'
  BY <1>5, <1>6, <1>7 DEF OrderInv, TipOf
<1>9. QED
  BY <1>2, <1>8

(* The socket there is breaks, and the last batches on it with it.         *)
LEMMA Lost ==
    ASSUME IInv, NEW state \in {"closing", "closed"},
           NEW n \in 0..Len(wire[opened]),
           wire' = [wire EXCEPT ![opened] = SubSeq(wire[opened], 1, n)],
           socket' = [socket EXCEPT ![opened] = state],
           phase = "capture", phase' \in {"capture", "exited"},
           phase' = "capture" => page' = page,
           PageType(page'), page'.sent = <<>>, TallyType(tally'),
           tally'.failures = tally.failures, UNCHANGED <<opened, thread, todo, log>>
    PROVE  IInv'
<1> DEFINE w == SubSeq(wire[opened], 1, n)
<1>1. /\ opened \in Sockets /\ wire[opened] \in Seq(Seq(Item))
      /\ tally.failures \in Nat
  BY DEF IInv, TypeInv, TallyType
<1>2. /\ w \in Seq(Seq(Item))
      /\ ConnOK(log[opened], todo[opened], w, tally.failures)
      /\ On(log[opened], todo[opened], w) \subseteq OnConn(opened)
      /\ wire[opened] = <<>> => w = <<>>
  <2>1. ConnOK(log[opened], todo[opened], wire[opened], tally.failures)
    BY <1>1 DEF IInv, ChainInv
  <2>2. wire[opened] = <<>> => w = <<>>
    BY <1>1
  <2>3. QED
    BY <1>1, <2>1, <2>2, LoseConn DEF OnConn
<1> HIDE DEF w
<1>3. /\ wire'[opened] = w /\ \A s \in Sockets : s # opened => wire'[s] = wire[s]
      /\ wire' \in [Sockets -> Seq(Seq(Item))]
      /\ socket'[opened] = state /\ \A s \in Sockets : s # opened => socket'[s] = socket[s]
  BY <1>1, <1>2 DEF w, IInv, TypeInv
<1>4. TypeInv'
  BY <1>3 DEF IInv, TypeInv, Phases
<1>5. \A s \in Sockets :
          /\ OnConn(s)' \subseteq OnConn(s)
          /\ LogOK(log'[s], tally.failures)
          /\ ConnOK(log'[s], todo'[s], wire'[s], tally.failures)
  <2> TAKE s \in Sockets
  <2>1. LogOK(log[s], tally.failures) /\ ConnOK(log[s], todo[s], wire[s], tally.failures)
    BY DEF IInv, LogInv, ChainInv
  <2>2. CASE s = opened
    BY <1>2, <1>3, <2>1, <2>2 DEF OnConn
  <2>3. CASE s # opened
    BY <1>3, <2>1, <2>3 DEF OnConn
  <2>4. QED
    BY <2>2, <2>3
<1>6. LogInv' /\ ChainInv' /\ OrderInv'
  BY <1>3, <1>4, <1>5, Shrink
<1>7. PageInv'
  BY <1>3 DEF IInv, PageInv
<1>8. ThreadInv'
  BY DEF IInv, ThreadInv
<1>9. QuietInv'
  <2>1. \A s \in Sockets : wire[s] = <<>> => wire'[s] = <<>>
    BY <1>2, <1>3
  <2>2. \A s \in Sockets : s > opened \/ socket'[s] \in {"none", "connecting"} =>
            s > opened \/ socket[s] \in {"none", "connecting"}
    BY <1>3
  <2>3. QED
    BY <2>1, <2>2 DEF IInv, QuietInv
<1>10. QED
  BY <1>4, <1>6, <1>7, <1>8, <1>9 DEF IInv

LEMMA BreakIInv ==
    ASSUME IInv, Break PROVE IInv'
<1>1. /\ phase = "capture" /\ socket[opened] \in {"connecting", "open"}
      /\ socket' = [socket EXCEPT ![opened] = "closing"]
      /\ UNCHANGED <<page, connected, opened, tally, thread, todo, phase, log>>
  BY DEF Break, pageVars, serverVars, logVars
<1>2. PICK n \in 0..Len(wire[opened]) :
          wire' = [wire EXCEPT ![opened] = SubSeq(wire[opened], 1, n)]
  BY DEF Break, LoseSome
<1>3. PageType(page') /\ page'.sent = <<>> /\ TallyType(tally')
  BY <1>1 DEF IInv, TypeInv, PageInv
<1>4. QED
  BY <1>1, <1>2, <1>3, Lost

LEMMA BrowserExitIInv ==
    ASSUME IInv, BrowserExit PROVE IInv'
<1>1. /\ phase = "capture" /\ phase' = "exited"
      /\ page' = NoPage /\ tally' = [NoTally EXCEPT !.failures = tally.failures]
      /\ socket' = [socket EXCEPT ![opened] = "closed"]
      /\ UNCHANGED <<opened, thread, todo, log>>
  BY DEF BrowserExit, Goes, serverVars, logVars
<1>2. PICK n \in 0..Len(wire[opened]) :
          wire' = [wire EXCEPT ![opened] = SubSeq(wire[opened], 1, n)]
  BY DEF BrowserExit, LoseSome
<1>3. PageType(page') /\ page'.sent = <<>>
  <2>1. <<>> \in Seq(Item) /\ <<>> \in Seq(Seq(Item))
    OBVIOUS
  <2>2. QED
    BY <1>1, <2>1 DEF NoPage, PageType
<1>4. TallyType(tally') /\ tally'.failures = tally.failures
  BY <1>1 DEF IInv, TypeInv, TallyType, NoTally
<1>5. QED
  BY <1>1, <1>2, <1>3, <1>4, Lost

LEMMA ClosedIInv ==
    ASSUME IInv, Closed PROVE IInv'
<1>1. /\ phase = "capture" /\ socket[opened] = "closing"
      /\ socket' = [socket EXCEPT ![opened] = "closed"]
      /\ UNCHANGED <<page, opened, tally, wire, thread, todo, phase, log>>
  BY DEF Closed, serverVars, logVars
<1>2. /\ opened \in Sockets /\ socket'[opened] = "closed"
      /\ \A s \in Sockets : s # opened => socket'[s] = socket[s]
  BY <1>1 DEF IInv, TypeInv
<1>3. TypeInv'
  BY <1>1 DEF IInv, TypeInv
<1>4. LogInv' /\ ChainInv' /\ OrderInv'
  BY <1>1, <1>2, <1>3, Still
<1>5. PageInv' /\ ThreadInv' /\ QuietInv'
  BY <1>1, <1>2 DEF IInv, PageInv, ThreadInv, QuietInv
<1>6. QED
  BY <1>3, <1>4, <1>5 DEF IInv

LEMMA ReconnectIInv ==
    ASSUME IInv, Reconnect PROVE IInv'
<1>1. /\ phase = "capture" /\ socket[opened] = "closed" /\ opened < MaxSockets
      /\ opened' = opened + 1
      /\ socket' = [socket EXCEPT ![opened + 1] = "connecting"]
      /\ UNCHANGED <<page, tally, wire, thread, todo, phase, log>>
  BY DEF Reconnect, serverVars, logVars
<1>2. /\ opened \in Sockets /\ opened + 1 \in Sockets
      /\ socket'[opened + 1] = "connecting"
      /\ \A s \in Sockets : s # opened + 1 => socket'[s] = socket[s]
  BY <1>1, SocketAssumption DEF IInv, TypeInv, Sockets
<1>3. TypeInv'
  BY <1>1, <1>2 DEF IInv, TypeInv
<1>4. LogInv' /\ ChainInv' /\ OrderInv'
  BY <1>1, <1>2, <1>3, Still
<1>5. PageInv' /\ ThreadInv'
  BY <1>1, <1>2 DEF IInv, PageInv, ThreadInv
<1>6. QuietInv'
  <2>1. \A s \in Sockets : s > opened' \/ s = opened + 1 => s > opened
    BY <1>1, <1>2 DEF Sockets
  <2>2. QED
    BY <1>1, <1>2, <2>1 DEF IInv, QuietInv
<1>7. QED
  BY <1>3, <1>4, <1>5, <1>6 DEF IInv

-----------------------------------------------------------------------------
(* The transport's threads.                                                *)

(* A step that leaves the connections and what is on them alone.           *)
LEMMA Settled ==
    ASSUME IInv, TypeInv', UNCHANGED <<page, connected, opened, tally, socket, wire, todo>>,
           \A s \in Sockets :
               log'[s] = log[s] /\ (thread'[s] # "ingesting" => todo[s] = <<>>),
           phase' = "capture" => phase = "capture",
           phase' # "closed" => phase # "closed"
    PROVE  IInv'
<1>1. LogInv' /\ ChainInv' /\ OrderInv'
  BY Still
<1>2. PageInv' /\ ThreadInv' /\ QuietInv'
  BY DEF IInv, PageInv, ThreadInv, QuietInv
<1>3. QED
  BY <1>1, <1>2 DEF IInv

LEMMA LogOneFields ==
    ASSUME TypeInv, NEW s \in Senders, NEW id \in Nat, NEW kind,
           [kind |-> kind, id |-> id] \in Logged, LogOne(kind, id, s)
    PROVE  /\ log' \in [Senders -> Seq(Logged)]
           /\ \A r \in Senders : r # s => log'[r] = log[r]
           /\ phase = "closed" => log' = log
           /\ phase # "closed" =>
                  log'[s] = Append(log[s], [kind |-> kind, id |-> id])
<1> DEFINE e == [kind |-> kind, id |-> id]
<1>1. e \in Logged
  OBVIOUS
<1>2. log \in [Senders -> Seq(Logged)]
  BY DEF TypeInv
<1>3. /\ phase = "closed" => log' = log
      /\ phase # "closed" => log' = [log EXCEPT ![s] = Append(log[s], e)]
  BY DEF LogOne, logVars
<1> HIDE DEF e
<1>4. Append(log[s], e) \in Seq(Logged)
  BY <1>1, <1>2
<1>5. QED
  BY <1>2, <1>3, <1>4 DEF e

LEMMA ConnectionSenders ==
    Sockets \subseteq Senders /\ 0 \in Senders /\ 0 \notin Sockets
BY DEF Senders, Sockets

LEMMA AcceptIInv ==
    ASSUME IInv, NEW s \in Sockets, Accept(s) \/ Handshake(s)
    PROVE  IInv'
<1>1. /\ thread[s] \in {"none", "handshake"}
      /\ \E state \in {"handshake", "reading"} : thread' = [thread EXCEPT ![s] = state]
      /\ UNCHANGED <<page, connected, opened, tally, socket, wire, todo, phase, log>>
  BY DEF Accept, Handshake, pageVars, logVars
<1>2. \A r \in Sockets : thread'[r] # "ingesting" => todo[r] = <<>>
  BY <1>1 DEF IInv, ThreadInv, TypeInv
<1>3. TypeInv'
  BY <1>1 DEF IInv, TypeInv
<1>4. QED
  BY <1>1, <1>2, <1>3, Settled

LEMMA EndIInv ==
    ASSUME IInv, NEW s \in Sockets, End(s)
    PROVE  IInv'
<1>1. /\ thread[s] \in {"handshake", "reading"}
      /\ thread' = [thread EXCEPT ![s] = "ended"]
      /\ UNCHANGED <<page, connected, opened, tally, socket, wire, todo, phase, log>>
  BY DEF End, pageVars, logVars
<1>2. \A r \in Sockets : thread'[r] # "ingesting" => todo[r] = <<>>
  BY <1>1 DEF IInv, ThreadInv, TypeInv
<1>3. TypeInv'
  BY <1>1 DEF IInv, TypeInv
<1>4. QED
  BY <1>1, <1>2, <1>3, Settled

LEMMA StoreBodyIInv ==
    ASSUME IInv, NEW s \in Sockets, StoreBody(s)
    PROVE  IInv'
<1>1. UNCHANGED <<page, connected, opened, tally, socket, wire, thread, todo, phase, log>>
  BY DEF StoreBody, pageVars, logVars
<1>2. \A r \in Sockets : thread'[r] # "ingesting" => todo[r] = <<>>
  BY <1>1 DEF IInv, ThreadInv
<1>3. TypeInv'
  BY <1>1 DEF IInv, TypeInv
<1>4. QED
  BY <1>1, <1>2, <1>3, Settled

LEMMA ReadBatchIInv ==
    ASSUME IInv, NEW s \in Sockets, ReadBatch(s)
    PROVE  IInv'
<1>1. /\ phase # "closed" /\ thread[s] = "reading" /\ wire[s] # <<>>
      /\ todo' = [todo EXCEPT ![s] = Head(wire[s])]
      /\ wire' = [wire EXCEPT ![s] = Tail(wire[s])]
      /\ thread' = [thread EXCEPT ![s] = "ingesting"]
      /\ UNCHANGED <<page, connected, opened, tally, socket, phase, log>>
  BY DEF ReadBatch, Stopped, pageVars, logVars
<1>2. /\ log[s] \in Seq(Logged) /\ wire[s] \in Seq(Seq(Item)) /\ tally.failures \in Nat
      /\ todo[s] = <<>>
  BY <1>1, ConnectionSenders DEF IInv, TypeInv, ThreadInv, TallyType
<1>3. Head(wire[s]) \in Seq(Item) /\ Tail(wire[s]) \in Seq(Seq(Item))
  BY <1>1, <1>2
<1>4. ConnOK(log[s], <<>>, wire[s], tally.failures)
  BY <1>1, <1>2 DEF IInv, ChainInv
<1>5. /\ todo'[s] = Head(wire[s]) /\ wire'[s] = Tail(wire[s]) /\ thread'[s] = "ingesting"
      /\ \A r \in Sockets : r # s =>
             todo'[r] = todo[r] /\ wire'[r] = wire[r] /\ thread'[r] = thread[r]
      /\ TypeInv'
  BY <1>1, <1>3 DEF IInv, TypeInv
<1>6. /\ ConnOK(log'[s], todo'[s], wire'[s], tally.failures)
      /\ OnConn(s)' = OnConn(s) /\ TipOf(s)' = TipOf(s)
  <2>1. /\ ConnOK(log[s], Head(wire[s]), Tail(wire[s]), tally.failures)
        /\ On(log[s], Head(wire[s]), Tail(wire[s])) = On(log[s], <<>>, wire[s])
        /\ SentTip(log[s], Head(wire[s]), Tail(wire[s])) = SentTip(log[s], <<>>, wire[s])
    BY <1>1, <1>2, <1>4, ReadConn
  <2>2. QED
    BY <1>1, <1>2, <1>5, <2>1 DEF OnConn, TipOf
<1>7. \A r \in Sockets :
          /\ OnConn(r)' = OnConn(r) /\ TipOf(r)' = TipOf(r)
          /\ LogOK(log'[r], tally.failures)
          /\ ConnOK(log'[r], todo'[r], wire'[r], tally.failures)
  <2> TAKE r \in Sockets
  <2>1. CASE r = s
    BY <1>1, <1>6, <2>1 DEF IInv, LogInv
  <2>2. CASE r # s
    BY <1>1, <1>5, <2>2 DEF IInv, LogInv, ChainInv, OnConn, TipOf
  <2>3. QED
    BY <2>1, <2>2
<1>8. LogInv' /\ ChainInv' /\ OrderInv'
  <2>1. opened \in Sockets
    BY DEF IInv, TypeInv
  <2>2. QED
    BY <1>1, <1>5, <1>7, <2>1, Shrink
<1>9. PageInv' /\ ThreadInv'
  BY <1>1, <1>5 DEF IInv, PageInv, ThreadInv
<1>10. QuietInv'
  <2>1. ~(s > opened \/ socket[s] \in {"none", "connecting"})
    BY <1>1 DEF IInv, QuietInv
  <2>2. QED
    BY <1>1, <1>5, <2>1 DEF IInv, QuietInv
<1>11. QED
  BY <1>5, <1>8, <1>9, <1>10 DEF IInv

(* A record leaves the batch; its event enters the log unless the log is   *)
(* closed.                                                                 *)
LEMMA RecordDoneIInv ==
    ASSUME IInv, NEW s \in Sockets, NEW kind \in Kinds \cup {"error"}, Ingesting(s),
           RecordDone(s, kind),
           UNCHANGED <<page, connected, opened, tally, socket, wire, phase>>
    PROVE  IInv'
<1> DEFINE l == log[s]
           t == todo[s]
           w == wire[s]
           e == [kind |-> kind, id |-> Head(t).id]
<1>1. /\ thread[s] = "ingesting" /\ t # <<>>
      /\ LogOne(kind, Head(t).id, s)
      /\ todo' = [todo EXCEPT ![s] = Tail(t)]
      /\ thread' = [thread EXCEPT ![s] = IF Len(t) = 1 THEN "reading" ELSE "ingesting"]
  BY DEF Ingesting, RecordDone
<1>2. /\ l \in Seq(Logged) /\ t \in Seq(Item) /\ w \in Seq(Seq(Item))
      /\ tally.failures \in Nat /\ s \in Senders
  BY ConnectionSenders DEF IInv, TypeInv, TallyType
<1>3. /\ Head(t) \in Item /\ Head(t).id \in Nat /\ Tail(t) \in Seq(Item)
      /\ Len(t) = 1 => Tail(t) = <<>>
  <2>1. Head(t) \in Item /\ Tail(t) \in Seq(Item) /\ Len(Tail(t)) = Len(t) - 1
    BY <1>1, <1>2
  <2>2. Tail(t) = <<>> <=> Len(Tail(t)) = 0
    BY <2>1, EmptyLen
  <2>3. QED
    BY <2>1, <2>2 DEF Item
<1>4. e \in Logged
  BY <1>3 DEF Logged
<1>5. /\ log' \in [Senders -> Seq(Logged)]
      /\ \A r \in Senders : r # s => log'[r] = log[r]
      /\ phase = "closed" => log' = log
      /\ phase # "closed" => log'[s] = Append(l, e)
  <2>1. TypeInv
    BY DEF IInv
  <2>2. QED
    BY <1>1, <1>2, <1>3, <1>4, <2>1, LogOneFields
<1>6. /\ todo'[s] = Tail(t)
      /\ thread'[s] = IF Len(t) = 1 THEN "reading" ELSE "ingesting"
      /\ \A r \in Sockets : r # s => todo'[r] = todo[r] /\ thread'[r] = thread[r]
      /\ TypeInv'
  BY <1>1, <1>3, <1>5 DEF IInv, TypeInv
<1>7. ASSUME phase = "closed"
      PROVE  OnConn(s)' \subseteq OnConn(s)
  <2>1. DOMAIN t = 1..Len(t) /\ DOMAIN Tail(t) = 1..Len(t) - 1 /\ Len(t) \in Nat \ {0}
        /\ \A i \in 1..Len(t) - 1 : Tail(t)[i] = t[i + 1]
    BY <1>1, <1>2
  <2>2. \A i \in DOMAIN Tail(t) : i + 1 \in DOMAIN t /\ Tail(t)[i] = t[i + 1]
    BY <2>1
  <2>3. BatchIds(Tail(t)) \subseteq BatchIds(t)
    BY <2>2 DEF BatchIds
  <2>4. log'[s] = l /\ wire'[s] = w
    BY <1>5, <1>7
  <2>5. QED
    BY <1>6, <2>3, <2>4 DEF OnConn, On
<1>8. ASSUME phase # "closed"
      PROVE  /\ OnConn(s)' = OnConn(s) /\ TipOf(s)' = TipOf(s)
             /\ LogOK(log'[s], tally.failures)
             /\ ConnOK(log'[s], todo'[s], wire'[s], tally.failures)
  <2>1. ConnOK(l, t, w, tally.failures) /\ LogOK(l, tally.failures)
    BY <1>8 DEF IInv, ChainInv, LogInv
  <2>2. \A x \in BatchIds(l) : x > 0
    BY DEF IInv, OrderInv, OnConn, On
  <2>3. e.id = Head(t).id
    OBVIOUS
  <2>4. log'[s] = Append(l, e) /\ todo'[s] = Tail(t) /\ wire'[s] = w
    BY <1>5, <1>6, <1>8
  <2> HIDE DEF e
  <2>5. /\ ConnOK(Append(l, e), Tail(t), w, tally.failures)
        /\ LogOK(Append(l, e), tally.failures)
        /\ On(Append(l, e), Tail(t), w) = On(l, t, w)
        /\ SentTip(Append(l, e), Tail(t), w) = SentTip(l, t, w)
    BY <1>1, <1>2, <1>4, <2>1, <2>2, <2>3, RecordConn
  <2>6. QED
    BY <2>4, <2>5 DEF OnConn, TipOf
<1>9. \A r \in Sockets :
          /\ OnConn(r)' \subseteq OnConn(r)
          /\ LogOK(log'[r], tally.failures)
          /\ phase # "closed" =>
                 /\ TipOf(r)' = TipOf(r)
                 /\ ConnOK(log'[r], todo'[r], wire'[r], tally.failures)
  <2> TAKE r \in Sockets
  <2>1. CASE r # s
    BY <1>5, <1>6, <2>1, ConnectionSenders DEF IInv, LogInv, ChainInv, OnConn, TipOf
  <2>2. CASE r = s
    <3>1. CASE phase = "closed"
      BY <1>5, <1>7, <2>2, <3>1 DEF IInv, LogInv
    <3>2. CASE phase # "closed"
      BY <1>8, <2>2, <3>2
    <3>3. QED
      BY <3>1, <3>2
  <2>3. QED
    BY <2>1, <2>2
<1>10. LogInv' /\ ChainInv' /\ OrderInv'
  <2>1. opened \in Sockets
    BY DEF IInv, TypeInv
  <2>2. QED
    BY <1>6, <1>9, <2>1, Shrink
<1>11. PageInv'
  BY DEF IInv, PageInv
<1>12. ThreadInv'
  BY <1>3, <1>6 DEF IInv, ThreadInv
<1>13. QuietInv'
  <2>1. ~(s > opened \/ socket[s] \in {"none", "connecting"})
    BY <1>1 DEF IInv, QuietInv
  <2>2. \A r \in Sockets : r # s => log'[r] = log[r]
    BY <1>5, ConnectionSenders
  <2>3. QED
    BY <1>6, <2>1, <2>2 DEF IInv, QuietInv
<1>14. QED
  BY <1>6, <1>10, <1>11, <1>12, <1>13 DEF IInv

LEMMA IngestIInv ==
    ASSUME IInv, NEW s \in Sockets, IngestPlain(s) \/ IngestBody(s)
    PROVE  IInv'
<1>1. /\ Ingesting(s)
      /\ UNCHANGED <<page, connected, opened, tally, socket, wire, phase>>
  BY DEF IngestPlain, IngestBody, pageVars
<1>2. \E kind \in Kinds \cup {"error"} : RecordDone(s, kind)
  <2>1. CASE IngestPlain(s)
    <3>1. Head(todo[s]) \in Item
      BY <1>1 DEF Ingesting, IInv, TypeInv
    <3>2. QED
      BY <2>1, <3>1 DEF IngestPlain, Item
  <2>2. CASE IngestBody(s)
    BY <2>2 DEF IngestBody, Kinds
  <2>3. QED
    BY <2>1, <2>2
<1>3. QED
  BY <1>1, <1>2, RecordDoneIInv

-----------------------------------------------------------------------------
(* The engine's main thread.                                               *)

LEMMA EngineIInv ==
    ASSUME IInv, ReportStopped \/ CheckConnected \/ EndSession \/ CloseLog
    PROVE  IInv'
<1>1. /\ phase # "capture" /\ phase # "closed" /\ phase' \in Phases /\ phase' # "capture"
      /\ UNCHANGED <<page, connected, opened, tally, socket, wire, thread, todo>>
      /\ \/ log' = log
         \/ \E kind \in {"sensorStopped", "neverConnected", "sessionEnd"} : LogOne(kind, 0, 0)
  BY DEF ReportStopped, CheckConnected, EndSession, CloseLog, Goes, Phases, pageVars,
         serverVars, logVars
<1>2. log' \in [Senders -> Seq(Logged)] /\ \A s \in Sockets : log'[s] = log[s]
  <2>1. CASE log' = log
    BY <2>1 DEF IInv, TypeInv
  <2>2. CASE \E kind \in {"sensorStopped", "neverConnected", "sessionEnd"} : LogOne(kind, 0, 0)
    <3>1. PICK kind \in {"sensorStopped", "neverConnected", "sessionEnd"} : LogOne(kind, 0, 0)
      BY <2>2
    <3>2. [kind |-> kind, id |-> 0] \in Logged
      BY DEF Logged
    <3>3. TypeInv
      BY DEF IInv
    <3>4. /\ log' \in [Senders -> Seq(Logged)]
          /\ \A r \in Senders : r # 0 => log'[r] = log[r]
      BY <3>1, <3>2, <3>3, ConnectionSenders, LogOneFields
    <3>5. QED
      BY <3>4, ConnectionSenders
  <2>3. QED
    BY <1>1, <2>1, <2>2
<1>3. TypeInv'
  BY <1>1, <1>2 DEF IInv, TypeInv
<1>4. \A s \in Sockets : thread'[s] # "ingesting" => todo[s] = <<>>
  BY <1>1 DEF IInv, ThreadInv
<1>5. QED
  BY <1>1, <1>2, <1>3, <1>4, Settled

LEMMA StopTransportIInv ==
    ASSUME IInv, StopTransport PROVE IInv'
<1>1. /\ phase = "checked" /\ phase' = "stopped"
      /\ wire' = [s \in Sockets |-> <<>>]
      /\ UNCHANGED <<page, connected, opened, tally, socket, thread, todo, log>>
  BY DEF StopTransport, Goes, pageVars, logVars
<1>2. TypeInv'
  <2>1. <<>> \in Seq(Seq(Item))
    OBVIOUS
  <2>2. QED
    BY <1>1, <2>1 DEF IInv, TypeInv, Phases
<1>3. SentIds(<<>>) = {} /\ Chained(<<>>, tally.failures)
  BY DEF SentIds, Chained
<1>4. ASSUME NEW s \in Sockets
      PROVE  /\ OnConn(s)' \subseteq OnConn(s)
             /\ LogOK(log'[s], tally.failures)
             /\ ConnOK(log'[s], todo'[s], wire'[s], tally.failures)
  <2>1. wire'[s] = <<>> /\ log'[s] = log[s] /\ todo'[s] = todo[s]
    BY <1>1
  <2>2. LogOK(log[s], tally.failures) /\ ConnOK(log[s], todo[s], wire[s], tally.failures)
    BY <1>1 DEF IInv, LogInv, ChainInv
  <2>3. QED
    BY <1>3, <2>1, <2>2 DEF OnConn, On, ConnOK
<1>5. LogInv' /\ ChainInv' /\ OrderInv'
  BY <1>1, <1>2, <1>4, Shrink
<1>6. PageInv' /\ ThreadInv' /\ QuietInv'
  BY <1>1 DEF IInv, PageInv, ThreadInv, QuietInv
<1>7. QED
  BY <1>2, <1>5, <1>6 DEF IInv

LEMMA NextIInv ==
    ASSUME IInv, [Next]_vars PROVE IInv'
<1>1. CASE \E throws \in BOOLEAN :
               (\E kind \in Observable : Observe(kind, throws)) \/ Tick(throws) \/ Open(throws)
  BY <1>1, ObserveIInv, TickIInv, OpenIInv
<1>2. CASE Break \/ Closed \/ Reconnect \/ BrowserExit
  BY <1>2, BreakIInv, ClosedIInv, ReconnectIInv, BrowserExitIInv
<1>3. CASE \E s \in Sockets : Thread(s)
  BY <1>3, AcceptIInv, EndIInv, StoreBodyIInv, ReadBatchIInv, IngestIInv DEF Thread
<1>4. CASE Teardown
  BY <1>4, EngineIInv, StopTransportIInv DEF Teardown
<1>5. CASE UNCHANGED vars
  <2>1. UNCHANGED <<page, connected, opened, tally, socket, wire, thread, todo, phase, log>>
    BY <1>5 DEF vars, pageVars, serverVars, logVars
  <2>2. TypeInv'
    BY <2>1 DEF IInv, TypeInv
  <2>3. \A s \in Sockets : thread'[s] # "ingesting" => todo[s] = <<>>
    BY <2>1 DEF IInv, ThreadInv
  <2>4. QED
    BY <2>1, <2>2, <2>3, Settled
<1>6. QED
  BY <1>1, <1>2, <1>3, <1>4, <1>5, Zenon DEF Next

-----------------------------------------------------------------------------
(* What the transport's threads and the page share is what IInv says of    *)
(* it, at every moment of a capture and of its teardown.                   *)
THEOREM ChannelInvariant == Spec => []IInv
<1>1. Init => IInv
  BY InitIInv
<1>2. IInv /\ [Next]_vars => IInv'
  BY NextIInv
<1>3. QED
  BY <1>1, <1>2, PTL DEF Spec

(* Whatever breaks, and whenever the transport is stopped: the records in  *)
(* the log from one connection are in the page's order and, if no send     *)
(* raised, without a hole, and no record is there twice.                   *)
THEOREM SequenceTheorem == Spec => []LoggedInSequence
<1>1. ASSUME IInv PROVE LoggedInSequence
  <2>1. \A s \in Sockets : \A i \in 1..Len(log[s]) - 1 :
            /\ log[s][i].id < log[s][i + 1].id
            /\ tally.failures = 0 => log[s][i + 1].id = log[s][i].id + 1
    BY <1>1 DEF IInv, LogInv, LogOK
  <2>2. ASSUME NEW s \in Sockets, NEW t \in Sockets, s < t
        PROVE  Ids(s) \cap Ids(t) = {}
    <3>1. \A r \in Sockets : Ids(r) \subseteq OnConn(r)
      BY DEF Ids, OnConn, On, BatchIds
    <3>2. \A x \in Ids(s), y \in Ids(t) : x < y
      BY <1>1, <2>2, <3>1 DEF IInv, OrderInv
    <3>3. \A x \in Ids(s) : x \in Nat
      <4>1. log[s] \in Seq(Logged)
        BY <1>1, ConnectionSenders DEF IInv, TypeInv
      <4>2. \A i \in DOMAIN log[s] : log[s][i] \in Logged
        BY <4>1
      <4>3. QED
        BY <4>2 DEF Ids, Logged
    <3>4. QED
      BY <3>2, <3>3
  <2>3. ASSUME NEW s \in Sockets, NEW t \in Sockets, s # t
        PROVE  Ids(s) \cap Ids(t) = {}
    <3>1. s < t \/ t < s
      BY <2>3, SocketAssumption DEF Sockets
    <3>2. QED
      BY <2>2, <3>1
  <2>4. QED
    BY <2>1, <2>3 DEF LoggedInSequence
<1>2. QED
  BY <1>1, ChannelInvariant, PTL

-----------------------------------------------------------------------------
(* The count of drops.                                                     *)

LEMMA DropsOfHere ==
    ASSUME IInv PROVE DropsCovered <=> DropHold(Here, tally.opens)
<1> DEFINE H == Here
<1>1. H.page = page /\ H.tally = tally
  BY Held DEF Here
<1> HIDE DEF H
<1>2. DropsCovered <=> DropHold(H, tally.opens)
  BY <1>1 DEF DropsCovered, DropHold, Counted
<1>3. QED
  BY <1>2 DEF H

LEMMA DropsBecome ==
    ASSUME NEW h, HoldType(h), DropHold(h, h.tally.opens), Becomes(h)
    PROVE  DropsCovered'
<1>1. page'.dropped = h.page.dropped /\ tally' = h.tally
  BY DEF Becomes, HoldType, PageType
<1>2. QED
  BY <1>1 DEF DropsCovered, DropHold, Counted

LEMMA PageDrops ==
    ASSUME IInv, DropsCovered, NEW throws \in BOOLEAN,
           (\E kind \in Observable : Observe(kind, throws)) \/ Tick(throws) \/ Open(throws)
    PROVE  DropsCovered'
<1>1. phase = "capture"
  BY DEF Observe, Tick, Open
<1>2. /\ HoldType(Here) /\ Here.page = page /\ Here.tally = tally
      /\ tally.opens \in Nat /\ DropHold(Here, tally.opens)
      /\ HoldInv(Here, FALSE, Level(page), TipOf(opened))
      /\ Level(page) \in Nat /\ TipOf(opened) \in 0..Level(page)
  BY <1>1, HereHold, DropsOfHere DEF HoldType, TallyType
<1>3. ASSUME NEW kind \in Observable, Observe(kind, throws) PROVE DropsCovered'
  <2> DEFINE h == Emit(Here, kind, CanSend, throws)
  <2>1. Becomes(h)
    BY <1>3 DEF Observe
  <2>2. CanSend \in BOOLEAN /\ (CanSend <=> socket[opened] = "open") /\ kind \in Kinds
    BY <1>1, ObservableAssumption DEF CanSend, IInv, PageInv, Kinds
  <2>3. CanSend /\ tally.failures = 0 => TipOf(opened) \in {0, Level(page)}
    BY <1>1, <2>2 DEF IInv, OrderInv
  <2>4. HoldInv(Here, CanSend, Level(page), TipOf(opened))
    BY <1>1, <2>2, <2>3, HereHold
  <2>5. ~(CanSend /\ Full(Here))
    <3>1. CanSend => Len(page.buffer) < MaxBuffer
      BY <1>1, <2>2 DEF IInv, PageInv
    <3>2. Len(page.buffer) \in Nat /\ MaxBuffer \in Nat
      BY BufferAssumption DEF IInv, TypeInv, PageType
    <3>3. QED
      BY <1>2, <3>1, <3>2 DEF Full
  <2>6. /\ HoldInv(h, CanSend, Level(page), TipOf(opened))
        /\ h.tally.opens = Here.tally.opens
        /\ \A n \in Nat : DropHold(Here, n) =>
               DropHold(h, IF CanSend /\ Full(Here) THEN n + 1 ELSE n)
    <3> DEFINE low == Level(page)
               tip == TipOf(opened)
               H == Here
    <3>1. low \in Nat /\ tip \in 0..low /\ HoldInv(H, CanSend, low, tip)
      BY <1>2, <2>4
    <3> HIDE DEF low, tip, H
    <3>2. /\ HoldInv(Emit(H, kind, CanSend, throws), CanSend, low, tip)
          /\ Emit(H, kind, CanSend, throws).tally.opens = H.tally.opens
          /\ \A n \in Nat : DropHold(H, n) =>
                 DropHold(Emit(H, kind, CanSend, throws),
                          IF CanSend /\ Full(H) THEN n + 1 ELSE n)
      BY <2>2, <3>1, EmitStep
    <3>3. QED
      BY <3>2 DEF low, tip, H
  <2> HIDE DEF h
  <2>7. DropHold(h, tally.opens)
    BY <1>2, <2>5, <2>6
  <2>8. QED
    BY <1>2, <2>1, <2>6, <2>7, DropsBecome DEF HoldInv
<1>4. ASSUME Tick(throws) PROVE DropsCovered'
  <2> DEFINE g == [Here EXCEPT !.page.timer = FALSE]
             h == Flush(g, CanSend, throws)
  <2>1. Becomes(h)
    BY <1>4 DEF Tick
  <2>2. CanSend \in BOOLEAN
    BY <1>1 DEF CanSend, IInv, PageInv
  <2>3. HoldType(g) /\ g.tally = tally /\ g.page.dropped = page.dropped
    BY <1>2, TimerOff
  <2> HIDE DEF g
  <2>4. DropHold(g, tally.opens)
    BY <1>2, <2>3 DEF DropHold, Counted
  <2>5. /\ HoldType(h) /\ h.tally.opens = g.tally.opens
        /\ \A n \in Nat : DropHold(g, n) => DropHold(h, n)
    BY <2>2, <2>3, FlushStep
  <2> HIDE DEF h
  <2>6. HoldType(h) /\ h.tally.opens = tally.opens /\ DropHold(h, tally.opens)
    BY <1>2, <2>3, <2>4, <2>5
  <2>7. QED
    BY <2>1, <2>6, DropsBecome
<1>5. ASSUME Open(throws) PROVE DropsCovered'
  <2> DEFINE g == [Here EXCEPT !.tally.opens = @ + 1]
             e == Emit(g, "started", TRUE, throws)
             h == Flush(e, TRUE, throws)
  <2>1. Becomes(h) /\ socket[opened] = "connecting"
    BY <1>5 DEF Open
  <2>2. TipOf(opened) = 0
    BY <1>1, <2>1 DEF IInv, TypeInv, QuietInv, TipOf, SentTip, ReadTip, LogTip
  <2>3. /\ HoldType(g) /\ g.page = page /\ g.tally.opens = tally.opens + 1
        /\ g.tally.failures = tally.failures /\ g.tally.lost = tally.lost
        /\ g.tally.reported = tally.reported
    BY <1>2, OneMoreOpen
  <2> HIDE DEF g
  <2>4. HoldInv(g, TRUE, Level(page), TipOf(opened))
    <3>1. HoldInv(Here, TRUE, Level(page), TipOf(opened))
      BY <1>1, <2>2, HereHold
    <3>2. QED
      BY <1>2, <2>3, <3>1, SameHold
  <2>5. DropHold(g, tally.opens)
    BY <1>2, <2>3 DEF DropHold, Counted
  <2>6. /\ HoldInv(e, TRUE, Level(page), TipOf(opened))
        /\ e.tally.opens = tally.opens + 1
        /\ DropHold(e, IF TRUE /\ Full(g) THEN tally.opens + 1 ELSE tally.opens)
    BY <1>2, <2>3, <2>4, <2>5, EmitStep DEF Kinds
  <2> HIDE DEF e
  <2>7. HoldType(e)
    BY <2>6 DEF HoldInv
  <2>8. DropHold(e, tally.opens + 1)
    <3>1. /\ e.tally.lost \in Nat /\ Counted(e) \in Nat
      BY <2>7 DEF HoldType, PageType, TallyType, Counted
    <3>2. DropHold(e, tally.opens + 1) \/ DropHold(e, tally.opens)
      BY <2>6
    <3>3. QED
      BY <1>2, <3>1, <3>2 DEF DropHold
  <2>9. HoldType(h) /\ h.tally.opens = tally.opens + 1 /\ DropHold(h, tally.opens + 1)
    <3>1. tally.opens + 1 \in Nat
      BY <1>2
    <3>2. QED
      BY <2>6, <2>7, <2>8, <3>1, FlushStep
  <2> HIDE DEF h
  <2>10. QED
    BY <2>1, <2>9, DropsBecome
<1>6. QED
  BY <1>3, <1>4, <1>5

(* What the page drops for want of room is counted or has been reported,   *)
(* however its sockets open and break and its sends raise.                 *)
THEOREM DropsTheorem == Spec => []DropsCovered
<1>1. Init => DropsCovered
  BY DEF Init, NoPage, NoTally, DropsCovered
<1>2. IInv /\ DropsCovered /\ [Next]_vars => DropsCovered'
  <2> SUFFICES ASSUME IInv, DropsCovered, [Next]_vars PROVE DropsCovered'
    OBVIOUS
  <2>1. CASE \E throws \in BOOLEAN :
                 (\E kind \in Observable : Observe(kind, throws)) \/ Tick(throws) \/ Open(throws)
    BY <2>1, PageDrops
  <2>2. CASE BrowserExit
    <3>1. page'.dropped = 0 /\ tally'.reported = 0 /\ tally'.lost = 0 /\ tally'.opens = 0
      BY <2>2 DEF BrowserExit, NoPage, NoTally
    <3>2. QED
      BY <3>1 DEF DropsCovered
  <2>3. CASE UNCHANGED <<page, tally>>
    BY <2>3 DEF DropsCovered
  <2>4. Break \/ Closed \/ Reconnect => UNCHANGED <<page, tally>>
    BY DEF Break, Closed, Reconnect, pageVars
  <2>5. (\E s \in Sockets : Thread(s)) => UNCHANGED <<page, tally>>
    BY DEF Thread, Accept, Handshake, ReadBatch, IngestPlain, StoreBody, IngestBody, End,
           pageVars
  <2>6. Teardown \/ UNCHANGED vars => UNCHANGED <<page, tally>>
    BY DEF Teardown, ReportStopped, CheckConnected, StopTransport, EndSession, CloseLog,
           vars, pageVars
  <2>7. QED
    BY <2>1, <2>2, <2>3, <2>4, <2>5, <2>6, Zenon DEF Next
<1>3. QED
  BY <1>1, <1>2, ChannelInvariant, PTL DEF Spec

-----------------------------------------------------------------------------
(* Bodies and the blob store.                                              *)

(* An event that refers to a blob is in the log only once the whole blob   *)
(* is on disk: the rename is one step, nothing removes a blob, and a put   *)
(* that found the path taken found a whole file there.                     *)
THEOREM BlobTheorem == Spec => []BlobBehindRef
<1> DEFINE PutOK == \A s \in Sockets : putting[s] = "stored" => blob = "whole"
           Inv == /\ IInv /\ BlobBehindRef
                  /\ blob \in {"absent", "whole"} /\ DOMAIN putting = Sockets /\ PutOK
<1>1. Init => Inv
  <2> SUFFICES ASSUME Init PROVE Inv
    OBVIOUS
  <2>1. \A s \in Sockets : log[s] = <<>>
    BY ConnectionSenders DEF Init
  <2>2. QED
    BY <2>1, InitIInv, SocketAssumption DEF Init, BlobInit, BlobBehindRef
<1>2. Inv /\ [Next]_vars => Inv'
  <2> SUFFICES ASSUME Inv, [Next]_vars PROVE Inv'
    OBVIOUS
  <2>1. IInv'
    BY NextIInv
  <2> DEFINE Quiet == /\ UNCHANGED blobVars
                      /\ \A s \in Sockets : log'[s] = log[s]
  <2>2. CASE Quiet
    BY <2>1, <2>2 DEF blobVars, BlobBehindRef
  <2>3. CASE \E s \in Sockets : StoreBody(s)
    <3>1. PICK s \in Sockets : PutCheck(s) \/ PutPlace(s) \/ PutFail(s)
      BY <2>3 DEF StoreBody
    <3>2. log' = log
      BY <2>3 DEF StoreBody, logVars
    <3>3. /\ blob' \in {"absent", "whole"}
          /\ blob = "whole" => blob' = "whole"
          /\ DOMAIN putting' = Sockets
          /\ \A r \in Sockets : putting'[r] = "stored" => blob' = "whole"
      BY <3>1 DEF PutCheck, PutPlace, PutFail
    <3>4. QED
      BY <2>1, <3>2, <3>3 DEF BlobBehindRef
  <2>4. CASE \E s \in Sockets : IngestPlain(s) \/ IngestBody(s)
    <3>1. PICK s \in Sockets : IngestPlain(s) \/ IngestBody(s)
      BY <2>4
    <3>2. /\ blob' = blob /\ DOMAIN putting' = Sockets
          /\ \A r \in Sockets : putting'[r] = "stored" => putting[r] = "stored"
      BY <3>1 DEF IngestPlain, IngestBody, PutReturn, blobVars
    <3>3. PICK kind : /\ LogOne(kind, Head(todo[s]).id, s) /\ kind \in Kinds \cup {"error"}
                      /\ kind = "body" => blob = "whole"
      <4>1. CASE IngestPlain(s)
        <5>1. Head(todo[s]) \in Item
          BY <4>1 DEF IngestPlain, Ingesting, IInv, TypeInv
        <5>2. QED
          BY <4>1, <5>1 DEF IngestPlain, RecordDone, Item
      <4>2. CASE IngestBody(s)
        BY <4>2 DEF IngestBody, RecordDone, Kinds
      <4>3. QED
        BY <3>1, <4>1, <4>2
    <3>4. s \in Senders /\ Head(todo[s]) \in Item /\ log[s] \in Seq(Logged)
      BY <3>1, ConnectionSenders DEF IngestPlain, IngestBody, Ingesting, IInv, TypeInv
    <3> DEFINE e == [kind |-> kind, id |-> Head(todo[s]).id]
    <3>5. e \in Logged /\ e.kind = kind
      BY <3>3, <3>4 DEF Logged, Item
    <3>6. /\ \A r \in Sockets : r # s => log'[r] = log[r]
          /\ log'[s] = log[s] \/ log'[s] = Append(log[s], e)
      <4>1. Head(todo[s]).id \in Nat /\ TypeInv
        BY <3>4 DEF Item, IInv
      <4>2. QED
        BY <3>3, <3>4, <3>5, <4>1, ConnectionSenders, LogOneFields
    <3> HIDE DEF e
    <3>7. ASSUME NEW r \in Sockets, NEW i \in DOMAIN log'[r], log'[r][i].kind = "body"
          PROVE  blob = "whole"
      <4>1. CASE log'[r] = log[r]
        BY <3>7, <4>1 DEF BlobBehindRef
      <4>2. CASE log'[r] # log[r]
        <5>1. r = s /\ log'[s] = Append(log[s], e)
          BY <3>6, <4>2
        <5>2. log'[s][i] = e \/ (i \in DOMAIN log[s] /\ log'[s][i] = log[s][i])
          BY <3>4, <3>5, <5>1
        <5>3. QED
          BY <3>3, <3>5, <3>7, <5>1, <5>2 DEF BlobBehindRef
      <4>3. QED
        BY <4>1, <4>2
    <3>8. BlobBehindRef'
      BY <3>2, <3>7 DEF BlobBehindRef
    <3>9. QED
      BY <2>1, <3>2, <3>8
  <2>5. (\E throws \in BOOLEAN :
            (\E kind \in Observable : Observe(kind, throws)) \/ Tick(throws) \/ Open(throws))
        \/ Break \/ Closed \/ Reconnect \/ BrowserExit => Quiet
    BY DEF Observe, Tick, Open, Break, Closed, Reconnect, BrowserExit, serverVars, logVars
  <2>6. ASSUME NEW s \in Sockets, Thread(s)
        PROVE  Quiet \/ StoreBody(s) \/ IngestPlain(s) \/ IngestBody(s)
    BY <2>6 DEF Thread, Accept, Handshake, ReadBatch, End, logVars
  <2>7. Teardown => Quiet
    <3> SUFFICES ASSUME Teardown PROVE Quiet
      OBVIOUS
    <3>1. UNCHANGED blobVars /\ (log' = log \/ \E kind : LogOne(kind, 0, 0))
      BY DEF Teardown, ReportStopped, CheckConnected, StopTransport, EndSession, CloseLog,
             serverVars, logVars
    <3>2. ASSUME NEW kind, LogOne(kind, 0, 0), NEW s \in Sockets PROVE log'[s] = log[s]
      BY <3>2, ConnectionSenders DEF LogOne, logVars, IInv, TypeInv
    <3>3. QED
      BY <3>1, <3>2
  <2>8. UNCHANGED vars => Quiet
    BY DEF vars, serverVars, logVars
  <2> HIDE DEF Quiet, Inv
  <2>9. QED
    BY <2>2, <2>3, <2>4, <2>5, <2>6, <2>7, <2>8, Zenon DEF Next
<1>3. Inv => BlobBehindRef
  OBVIOUS
<1> HIDE DEF Inv
<1>4. QED
  BY <1>1, <1>2, <1>3, PTL DEF Spec
=============================================================================
