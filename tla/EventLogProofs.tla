--------------------------- MODULE EventLogProofs ---------------------------
(***************************************************************************)
(* What holds of the event spine for any number of threads, any fsync      *)
(* period and any number of events: its invariants, and that it implements *)
(* EvidenceLog.                                                            *)
(***************************************************************************)
EXTENDS EventLog, FiniteSetTheorems, WellFoundedInduction, TLAPS

(* Mutual exclusion: a thread is inside emit or close exactly when it has  *)
(* the lock, and the event being emitted carries the last number given.    *)
LockInv ==
    /\ \A t \in Threads : pc[t] # "idle" <=> lock = t
    /\ \A t \in Threads : pc[t] \in {"write", "sync"} => mine[t] = seq /\ seq > 0

(* The pieces of the file carry allocated numbers, smaller than the one a  *)
(* thread is about to write.                                               *)
NumberInv ==
    /\ \A i \in DOMAIN image : image[i].seq \in 1..seq
    /\ up => \A t \in Threads : pc[t] = "write" =>
                 \A i \in DOMAIN image : image[i].seq < seq

(* The line whose fsync is due is in the file.                             *)
SyncInv ==
    up => \A t \in Threads : pc[t] = "sync" =>
              \E i \in 1..flushed : image[i] = Whole(mine[t])

IInv == TypeOK /\ LockInv /\ NumberInv /\ LogOrdered /\ SyncInv /\ AckedInFile

-----------------------------------------------------------------------------
(* What a crash leaves is a prefix of the pieces, and at most one cut      *)
(* piece after it.                                                         *)
LEMMA RemainsShape ==
    ASSUME image \in Seq(Piece), NEW k \in 0..Len(image),
           NEW half \in SUBSET Nat, NEW f \in Remains(k, half)
    PROVE  /\ f \in Seq(Piece)
           /\ Len(f) \in {k, k + 1}
           /\ \A i \in 1..k : f[i] = image[i]
           /\ Len(f) = k + 1 => \E n \in half : f[k + 1] = Cut(n)
<1>1. /\ SubSeq(image, 1, k) \in Seq(Piece)
      /\ Len(SubSeq(image, 1, k)) = k
      /\ \A i \in 1..k : SubSeq(image, 1, k)[i] = image[i]
  OBVIOUS
<1>2. CASE f = SubSeq(image, 1, k)
  BY <1>1, <1>2
<1>3. ASSUME NEW n \in half, f = Append(SubSeq(image, 1, k), Cut(n))
      PROVE  /\ f \in Seq(Piece)
             /\ Len(f) = k + 1
             /\ \A i \in 1..k : f[i] = image[i]
             /\ f[k + 1] = Cut(n)
  <2>1. Cut(n) \in Piece
    BY <1>3 DEF Cut, Piece
  <2>2. QED
    BY <1>1, <1>3, <2>1
<1>4. QED
  BY <1>2, <1>3 DEF Remains

LEMMA HalfOutType ==
    ASSUME TypeOK PROVE HalfOut \in SUBSET Nat
<1>1. CASE flushed < Len(image)
  <2>1. image[flushed + 1] \in Piece
    BY <1>1 DEF TypeOK
  <2>2. QED
    BY <1>1, <2>1 DEF HalfOut, Piece
<1>2. CASE ~(flushed < Len(image))
  <2>1. \A t \in Threads : mine[t] \in Nat
    BY MaxSeqAssumption DEF TypeOK
  <2>2. QED
    BY <1>2, <2>1 DEF HalfOut
<1>3. QED
  BY <1>1, <1>2

-----------------------------------------------------------------------------
LEMMA InitIInv == Init => IInv
<1> SUFFICES ASSUME Init PROVE IInv
  OBVIOUS
<1>1. TypeOK
  <2>1. <<>> \in Seq(Piece) /\ Len(<<>>) = 0
    OBVIOUS
  <2>2. image \in Seq(Piece) /\ flushed \in 0..Len(image) /\ synced \in 0..flushed
    BY <2>1 DEF Init
  <2>3. /\ seq \in 0..MaxSeq /\ sinceSync \in Nat
        /\ mine \in [Threads -> 0..MaxSeq]
    BY MaxSeqAssumption DEF Init
  <2>4. pc \in [Threads -> PC]
    BY DEF Init, PC
  <2>5. QED
    BY <2>2, <2>3, <2>4 DEF Init, TypeOK
<1>2. LockInv
  BY ThreadAssumption DEF Init, LockInv
<1>3. NumberInv /\ LogOrdered /\ SyncInv /\ AckedInFile
  BY DEF Init, NumberInv, LogOrdered, SyncInv, AckedInFile
<1>4. QED
  BY <1>1, <1>2, <1>3 DEF IInv

(* Appending the line or the beginning of the line being emitted.          *)
LEMMA AppendKeeps ==
    ASSUME IInv, up, NEW t \in Threads, pc[t] = "write",
           NEW p \in Piece, p.seq = mine[t], image' = Append(image, p), seq' = seq
    PROVE  /\ image' \in Seq(Piece)
           /\ Len(image') = Len(image) + 1
           /\ \A i \in 1..Len(image) : image'[i] = image[i]
           /\ image'[Len(image) + 1] = p
           /\ LogOrdered'
           /\ \A i \in DOMAIN image' : image'[i].seq \in 1..seq
<1>1. /\ image' \in Seq(Piece)
      /\ Len(image') = Len(image) + 1
      /\ \A i \in 1..Len(image) : image'[i] = image[i]
      /\ image'[Len(image) + 1] = p
      /\ DOMAIN image' = 1..(Len(image) + 1) /\ DOMAIN image = 1..Len(image)
      /\ Len(image) \in Nat
  BY DEF IInv, TypeOK
<1>2. mine[t] = seq /\ seq > 0 /\ \A i \in DOMAIN image : image[i].seq < seq
  BY DEF IInv, LockInv, NumberInv
<1>3. \A i \in DOMAIN image : image[i].seq \in 1..seq
  BY DEF IInv, NumberInv
<1>4. seq \in Nat
  BY MaxSeqAssumption DEF IInv, TypeOK
<1>5. \A i \in DOMAIN image' : image'[i].seq \in 1..seq
  BY <1>1, <1>2, <1>3, <1>4
<1>6. LogOrdered'
  <2> SUFFICES ASSUME NEW i \in DOMAIN image', NEW j \in DOMAIN image', i < j
               PROVE  image'[i].seq < image'[j].seq
    BY DEF LogOrdered
  <2>1. CASE j = Len(image) + 1
    BY <1>1, <1>2, <2>1
  <2>2. CASE j # Len(image) + 1
    BY <1>1, <2>2 DEF IInv, LogOrdered
  <2>3. QED
    BY <2>1, <2>2
<1>7. QED
  BY <1>1, <1>5, <1>6

(* A crash leaves an ordered file with allocated numbers in it.            *)
LEMMA RemainsKeeps ==
    ASSUME IInv, NEW k \in 0..flushed, NEW half \in SUBSET (1..seq),
           \A n \in half, i \in 1..k : image[i].seq < n,
           image' \in Remains(k, half), seq' = seq
    PROVE  /\ image' \in Seq(Piece)
           /\ Len(image') \in {k, k + 1}
           /\ \A i \in 1..k : image'[i] = image[i]
           /\ LogOrdered'
           /\ \A i \in DOMAIN image' : image'[i].seq \in 1..seq
<1>1. /\ seq \in Nat /\ image \in Seq(Piece) /\ Len(image) \in Nat
      /\ flushed \in 0..Len(image) /\ half \in SUBSET Nat
      /\ k \in 0..Len(image)
  BY MaxSeqAssumption DEF IInv, TypeOK
<1>2. /\ image' \in Seq(Piece)
      /\ Len(image') \in {k, k + 1}
      /\ \A i \in 1..k : image'[i] = image[i]
      /\ Len(image') = k + 1 => \E n \in half : image'[k + 1] = Cut(n)
  BY <1>1, RemainsShape
<1>3. DOMAIN image' = 1..Len(image') /\ DOMAIN image = 1..Len(image)
  BY <1>1, <1>2
<1>a. /\ \A i \in 1..Len(image) : image[i].seq \in 1..seq
      /\ \A i, j \in 1..Len(image) : i < j => image[i].seq < image[j].seq
  BY <1>3 DEF IInv, NumberInv, LogOrdered
<1>b. \A i \in 1..k : i \in 1..Len(image)
  BY <1>1
<1>c. ASSUME Len(image') = k + 1
      PROVE  /\ image'[k + 1].seq \in 1..seq
             /\ \A i \in 1..k : image[i].seq < image'[k + 1].seq
  <2>1. PICK n \in half : image'[k + 1] = Cut(n)
    BY <1>2, <1>c
  <2>2. image'[k + 1].seq = n
    BY <2>1 DEF Cut
  <2>3. QED
    BY <2>2
<1>4. \A i \in DOMAIN image' : image'[i].seq \in 1..seq
  <2> SUFFICES ASSUME NEW i \in 1..Len(image')
               PROVE  image'[i].seq \in 1..seq
    BY <1>3
  <2>1. CASE i \in 1..k
    BY <1>2, <1>a, <1>b, <2>1
  <2>2. CASE i \notin 1..k
    BY <1>1, <1>2, <1>c, <2>2
  <2>3. QED
    BY <2>1, <2>2
<1>5. LogOrdered'
  <2> SUFFICES ASSUME NEW i \in 1..Len(image'), NEW j \in 1..Len(image'), i < j
               PROVE  image'[i].seq < image'[j].seq
    BY <1>3 DEF LogOrdered
  <2>1. i \in 1..k /\ image'[i] = image[i]
    BY <1>1, <1>2
  <2>2. CASE j \in 1..k
    BY <1>2, <1>a, <1>b, <2>1, <2>2
  <2>3. CASE j \notin 1..k
    BY <1>1, <1>2, <1>c, <2>1, <2>3
  <2>4. QED
    BY <2>2, <2>3
<1>6. QED
  BY <1>2, <1>4, <1>5

-----------------------------------------------------------------------------
(* Only the thread that has the lock is busy, so when it leaves all are    *)
(* idle, and nothing is promised of a write or an fsync to come.           *)
LEMMA ReturnKeeps ==
    ASSUME IInv, NEW t \in Threads, pc[t] # "idle", Return(t),
           UNCHANGED <<seq, mine>>
    PROVE  /\ pc' \in [Threads -> PC] /\ lock' \in Threads \cup {NoThread}
           /\ \A u \in Threads : pc'[u] = "idle"
           /\ LockInv'
<1>1. \A u \in Threads : u # t => pc[u] = "idle"
  BY DEF IInv, LockInv
<1>2. pc' = [pc EXCEPT ![t] = "idle"] /\ lock' = NoThread
  BY DEF Return
<1>3. pc' \in [Threads -> PC] /\ \A u \in Threads : pc'[u] = "idle"
  BY <1>1, <1>2 DEF IInv, TypeOK, PC
<1>4. LockInv'
  BY <1>2, <1>3, ThreadAssumption DEF LockInv
<1>5. QED
  BY <1>2, <1>3, <1>4

LEMMA EmitKeeps ==
    ASSUME IInv, NEW t \in Threads, Emit(t) PROVE IInv'
<1> USE DEF Emit, fileVars, history
<1>1. seq \in Nat /\ seq' = seq + 1 /\ seq' \in 0..MaxSeq
  BY MaxSeqAssumption DEF IInv, TypeOK
<1>2. pc' \in [Threads -> PC] /\ mine' \in [Threads -> 0..MaxSeq]
  BY <1>1 DEF IInv, TypeOK, PC
<1>3. TypeOK'
  BY <1>1, <1>2 DEF IInv, TypeOK
<1>4. \A u \in Threads : pc[u] = "idle"
  BY ThreadAssumption DEF IInv, LockInv
<1>5. /\ pc'[t] = "write" /\ mine'[t] = seq'
      /\ \A u \in Threads : u # t => pc'[u] = "idle"
  BY <1>1, <1>4 DEF IInv, TypeOK
<1>6. LockInv'
  BY <1>1, <1>5, ThreadAssumption DEF LockInv
<1>7. \A i \in DOMAIN image : image[i].seq \in 1..seq
  BY DEF IInv, NumberInv
<1>8. NumberInv'
  BY <1>1, <1>7 DEF NumberInv
<1>9. LogOrdered' /\ SyncInv' /\ AckedInFile'
  BY <1>5 DEF IInv, LogOrdered, SyncInv, AckedInFile
<1>10. QED
  BY <1>3, <1>6, <1>8, <1>9 DEF IInv

(* The facts about the file that a write of a piece leaves behind.         *)
LEMMA WriteKeeps ==
    ASSUME IInv, up, NEW t \in Threads, pc[t] = "write",
           NEW p \in Piece, p.seq = mine[t],
           image' = Append(image, p), seq' = seq,
           flushed' \in {flushed, Len(image')}, synced' = synced
    PROVE  /\ image' \in Seq(Piece)
           /\ flushed' \in 0..Len(image') /\ synced' \in 0..flushed'
           /\ flushed <= flushed'
           /\ \A i \in 1..flushed : i \in 1..flushed' /\ image'[i] = image[i]
           /\ flushed' = Len(image') => flushed' \in 1..flushed' /\ image'[flushed'] = p
           /\ LogOrdered'
           /\ \A i \in DOMAIN image' : image'[i].seq \in 1..seq
<1>1. /\ image' \in Seq(Piece)
      /\ Len(image') = Len(image) + 1
      /\ \A i \in 1..Len(image) : image'[i] = image[i]
      /\ image'[Len(image) + 1] = p
      /\ LogOrdered'
      /\ \A i \in DOMAIN image' : image'[i].seq \in 1..seq
  BY AppendKeeps
<1>2. /\ Len(image) \in Nat /\ flushed \in 0..Len(image) /\ synced \in 0..flushed
  BY DEF IInv, TypeOK
<1>3. QED
  BY <1>1, <1>2

LEMMA WriteLineKeeps ==
    ASSUME IInv, NEW t \in Threads, WriteLine(t) PROVE IInv'
<1>1. /\ up /\ pc[t] = "write" /\ seq' = seq /\ mine' = mine /\ up' = up
      /\ image' = Append(image, Whole(mine[t])) /\ flushed' = Len(image')
      /\ synced' = synced /\ sinceSync' = sinceSync + 1 /\ closed' = closed
  BY DEF WriteLine
<1>2. mine[t] = seq /\ seq > 0 /\ seq \in 1..MaxSeq
  BY <1>1 DEF IInv, LockInv, TypeOK
<1>3. Whole(mine[t]) \in Piece /\ Whole(mine[t]).seq = mine[t]
  BY <1>2, MaxSeqAssumption DEF Whole, Piece
<1>4. /\ image' \in Seq(Piece)
      /\ flushed' \in 0..Len(image') /\ synced' \in 0..flushed'
      /\ \A i \in 1..flushed : i \in 1..flushed' /\ image'[i] = image[i]
      /\ flushed' \in 1..flushed' /\ image'[flushed'] = Whole(mine[t])
      /\ LogOrdered'
      /\ \A i \in DOMAIN image' : image'[i].seq \in 1..seq
  BY <1>1, <1>3, WriteKeeps
<1>5. \A n \in acked : \E i \in 1..flushed' : image'[i] = Whole(n)
  BY <1>1, <1>4 DEF IInv, AckedInFile
<1>6. CASE SyncDue
  <2>1. pc' = [pc EXCEPT ![t] = "sync"] /\ UNCHANGED <<lock, acked, refused>>
    BY <1>6 DEF WriteLine, history
  <2>2. TypeOK'
    BY <1>1, <1>4, <2>1 DEF IInv, TypeOK, PC
  <2>3. LockInv'
    BY <1>1, <1>2, <2>1 DEF IInv, LockInv, TypeOK
  <2>4. \A u \in Threads : pc'[u] # "write"
    BY <1>1, <2>1 DEF IInv, LockInv, TypeOK
  <2>5. NumberInv'
    BY <1>1, <1>4, <2>4 DEF NumberInv
  <2>6. SyncInv'
    BY <1>1, <1>4, <2>1 DEF IInv, SyncInv, LockInv, TypeOK
  <2>7. AckedInFile'
    BY <1>5, <2>1 DEF AckedInFile, Whole
  <2>8. QED
    BY <1>4, <2>2, <2>3, <2>5, <2>6, <2>7 DEF IInv
<1>7. CASE ~SyncDue
  <2>1. Return(t) /\ acked' = acked \cup {mine[t]} /\ refused' = refused
    BY <1>7 DEF WriteLine, Answer
  <2>2. /\ pc' \in [Threads -> PC] /\ lock' \in Threads \cup {NoThread}
        /\ \A u \in Threads : pc'[u] = "idle"
        /\ LockInv'
    BY <1>1, <2>1, ReturnKeeps
  <2>3. TypeOK'
    BY <1>1, <1>2, <1>4, <2>1, <2>2 DEF IInv, TypeOK
  <2>4. NumberInv' /\ SyncInv'
    BY <1>1, <1>4, <2>2 DEF NumberInv, SyncInv
  <2>5. AckedInFile'
    BY <1>4, <1>5, <2>1 DEF AckedInFile, Whole
  <2>6. QED
    BY <1>4, <2>2, <2>3, <2>4, <2>5 DEF IInv
<1>8. QED
  BY <1>6, <1>7

(* A failed write: the caller is refused, and the file is as it was, or    *)
(* one piece longer.                                                       *)
LEMMA WriteFailsKeeps ==
    ASSUME IInv, NEW t \in Threads,
           WriteNothing(t) \/ WriteBuffered(t) \/ WriteCut(t)
    PROVE  IInv'
<1>1. /\ up /\ pc[t] = "write" /\ seq' = seq /\ mine' = mine /\ up' = up
      /\ synced' = synced /\ sinceSync' = sinceSync /\ closed' = closed
      /\ Return(t) /\ refused' = refused \cup {mine[t]} /\ acked' = acked
  BY DEF WriteNothing, WriteBuffered, WriteCut, Refuse, fileVars
<1>2. mine[t] = seq /\ seq > 0 /\ seq \in 1..MaxSeq
  BY <1>1 DEF IInv, LockInv, TypeOK
<1>3. /\ pc' \in [Threads -> PC] /\ lock' \in Threads \cup {NoThread}
      /\ \A u \in Threads : pc'[u] = "idle"
      /\ LockInv'
  BY <1>1, ReturnKeeps
<1>4. /\ image' \in Seq(Piece)
      /\ flushed' \in 0..Len(image') /\ synced' \in 0..flushed'
      /\ \A i \in 1..flushed : i \in 1..flushed' /\ image'[i] = image[i]
      /\ LogOrdered'
      /\ \A i \in DOMAIN image' : image'[i].seq \in 1..seq
  <2>1. CASE image' = image /\ flushed' = flushed
    BY <1>1, <2>1 DEF IInv, TypeOK, LogOrdered, NumberInv
  <2>2. mine[t] \in Nat
    BY <1>2, MaxSeqAssumption
  <2>3. CASE WriteBuffered(t)
    <3>1. image' = Append(image, Whole(mine[t])) /\ flushed' = flushed
      BY <2>3 DEF WriteBuffered
    <3>2. Whole(mine[t]) \in Piece /\ Whole(mine[t]).seq = mine[t]
      BY <2>2 DEF Whole, Piece
    <3>3. QED
      BY <1>1, <3>1, <3>2, WriteKeeps
  <2>4. CASE WriteCut(t)
    <3>1. image' = Append(image, Cut(mine[t])) /\ flushed' = Len(image')
      BY <2>4 DEF WriteCut
    <3>2. Cut(mine[t]) \in Piece /\ Cut(mine[t]).seq = mine[t]
      BY <2>2 DEF Cut, Piece
    <3>3. QED
      BY <1>1, <3>1, <3>2, WriteKeeps
  <2>5. QED
    BY <2>1, <2>3, <2>4 DEF WriteNothing, fileVars
<1>5. TypeOK'
  BY <1>1, <1>2, <1>3, <1>4 DEF IInv, TypeOK
<1>6. NumberInv' /\ SyncInv'
  BY <1>1, <1>3, <1>4 DEF NumberInv, SyncInv
<1>7. AckedInFile'
  BY <1>1, <1>4 DEF IInv, AckedInFile, Whole
<1>8. QED
  BY <1>3, <1>4, <1>5, <1>6, <1>7 DEF IInv

LEMMA SyncKeeps ==
    ASSUME IInv, NEW t \in Threads, Sync(t) \/ SyncFails(t) PROVE IInv'
<1>1. /\ up /\ pc[t] = "sync" /\ seq' = seq /\ mine' = mine /\ up' = up
      /\ image' = image /\ flushed' = flushed /\ synced' \in {synced, flushed}
      /\ sinceSync' \in {sinceSync, 0} /\ closed' = closed /\ Return(t)
      /\ acked' \in {acked, acked \cup {mine[t]}}
      /\ refused' \in {refused, refused \cup {mine[t]}}
  BY DEF Sync, SyncFails, Answer, Refuse, fileVars
<1>2. mine[t] \in 1..MaxSeq
  BY <1>1 DEF IInv, LockInv, TypeOK
<1>3. /\ pc' \in [Threads -> PC] /\ lock' \in Threads \cup {NoThread}
      /\ \A u \in Threads : pc'[u] = "idle"
      /\ LockInv'
  BY <1>1, ReturnKeeps
<1>4. TypeOK'
  BY <1>1, <1>2, <1>3 DEF IInv, TypeOK
<1>5. NumberInv' /\ SyncInv' /\ LogOrdered'
  BY <1>1, <1>3 DEF IInv, NumberInv, SyncInv, LogOrdered
<1>6. AckedInFile'
  BY <1>1 DEF IInv, AckedInFile, SyncInv, Whole
<1>7. QED
  BY <1>3, <1>4, <1>5, <1>6 DEF IInv

LEMMA CloseKeeps ==
    ASSUME IInv, NEW t \in Threads, Close(t) PROVE IInv'
<1> USE DEF Close, fileVars, history
<1>1. \A u \in Threads : pc[u] = "idle"
  BY ThreadAssumption DEF IInv, LockInv
<1>2. TypeOK'
  BY DEF IInv, TypeOK, PC
<1>3. LockInv'
  BY <1>1, ThreadAssumption DEF IInv, LockInv, TypeOK
<1>4. NumberInv' /\ SyncInv' /\ LogOrdered' /\ AckedInFile'
  BY <1>1 DEF IInv, NumberInv, SyncInv, LogOrdered, AckedInFile, TypeOK
<1>5. QED
  BY <1>2, <1>3, <1>4 DEF IInv

(* A number that may be half out is larger than all that is out.           *)
LEMMA HalfOutAfter ==
    ASSUME IInv, up
    PROVE  /\ HalfOut \in SUBSET (1..seq)
           /\ \A n \in HalfOut, i \in 1..flushed : image[i].seq < n
<1>1. /\ Len(image) \in Nat /\ flushed \in 0..Len(image)
      /\ DOMAIN image = 1..Len(image) /\ seq \in Nat
  BY MaxSeqAssumption DEF IInv, TypeOK
<1>2. CASE flushed < Len(image)
  <2>1. flushed + 1 \in DOMAIN image /\ \A i \in 1..flushed : i \in DOMAIN image
    BY <1>1, <1>2
  <2>2. HalfOut = {image[flushed + 1].seq}
    BY <1>2 DEF HalfOut
  <2>3. QED
    BY <1>1, <2>1, <2>2 DEF IInv, NumberInv, LogOrdered
<1>3. CASE ~(flushed < Len(image))
  <2>1. HalfOut = {mine[t] : t \in {u \in Threads : pc[u] = "write"}}
    BY <1>3 DEF HalfOut
  <2>2. \A n \in HalfOut : n = seq /\ n \in 1..seq
               /\ \E t \in Threads : pc[t] = "write"
    BY <1>1, <2>1 DEF IInv, LockInv
  <2>3. QED
    BY <1>1, <2>2 DEF IInv, NumberInv
<1>4. QED
  BY <1>2, <1>3

(* Whatever the crash leaves of the pieces: the pieces that survive whole  *)
(* are the same as before, and the file is still in order.                 *)
LEMMA CrashKeeps ==
    ASSUME IInv, NEW k \in synced..flushed, NEW half \in SUBSET (1..seq),
           \A n \in half, i \in 1..k : image[i].seq < n,
           image' \in Remains(k, half), flushed' = Len(image'),
           seq' = seq, synced' = synced
    PROVE  /\ image' \in Seq(Piece)
           /\ flushed' \in 0..Len(image') /\ synced' \in 0..flushed'
           /\ LogOrdered'
           /\ \A i \in DOMAIN image' : image'[i].seq \in 1..seq
           /\ \A i \in 1..k : i \in 1..flushed' /\ image'[i] = image[i]
<1>1. k \in 0..flushed /\ synced \in 0..k
  BY DEF IInv, TypeOK
<1>2. /\ image' \in Seq(Piece)
      /\ Len(image') \in {k, k + 1}
      /\ \A i \in 1..k : image'[i] = image[i]
      /\ LogOrdered'
      /\ \A i \in DOMAIN image' : image'[i].seq \in 1..seq
  BY <1>1, RemainsKeeps
<1>3. flushed' \in 0..Len(image') /\ synced' \in 0..flushed'
  BY <1>1, <1>2 DEF IInv, TypeOK
<1>4. \A i \in 1..k : i \in 1..flushed'
  BY <1>1, <1>2 DEF IInv, TypeOK
<1>5. QED
  BY <1>2, <1>3, <1>4

LEMMA KillKeeps ==
    ASSUME IInv, Kill \/ PowerLoss PROVE IInv'
<1>1. /\ seq' = seq /\ sinceSync' = sinceSync /\ closed' = closed /\ lock' = lock
      /\ pc' = pc /\ mine' = mine /\ synced' = synced
      /\ acked' = acked /\ refused' = refused
      /\ up' = FALSE /\ flushed' = Len(image')
  BY DEF Kill, PowerLoss, logVars, history
<1>2. /\ image' \in Seq(Piece)
      /\ flushed' \in 0..Len(image') /\ synced' \in 0..flushed'
      /\ LogOrdered'
      /\ \A i \in DOMAIN image' : image'[i].seq \in 1..seq
  <2>1. CASE Kill
    <3>1. up /\ image' \in Remains(flushed, HalfOut)
      BY <2>1 DEF Kill
    <3>2. flushed \in synced..flushed
      BY DEF IInv, TypeOK
    <3>3. /\ HalfOut \in SUBSET (1..seq)
          /\ \A n \in HalfOut, i \in 1..flushed : image[i].seq < n
      BY <3>1, HalfOutAfter
    <3>4. QED
      BY <1>1, <3>1, <3>2, <3>3, CrashKeeps
  <2>2. CASE PowerLoss
    <3> DEFINE Half(k) == IF k < flushed THEN {image[k + 1].seq} ELSE {}
    <3>1. PICK k \in synced..flushed : image' \in Remains(k, Half(k))
      BY <2>2 DEF PowerLoss
    <3>2. /\ k \in Nat /\ flushed \in 0..Len(image) /\ Len(image) \in Nat
          /\ DOMAIN image = 1..Len(image)
      BY DEF IInv, TypeOK
    <3>3. /\ Half(k) \in SUBSET (1..seq)
          /\ \A n \in Half(k), i \in 1..k : image[i].seq < n
      <4>1. CASE k < flushed
        <5>1. k + 1 \in DOMAIN image /\ \A i \in 1..k : i \in DOMAIN image /\ i < k + 1
          BY <3>2, <4>1
        <5>2. QED
          BY <4>1, <5>1 DEF IInv, NumberInv, LogOrdered
      <4>2. QED
        BY <4>1
    <3> HIDE DEF Half
    <3>4. QED
      BY <1>1, <3>1, <3>3, CrashKeeps
  <2>3. QED
    BY <2>1, <2>2
<1>3. TypeOK'
  BY <1>1, <1>2 DEF IInv, TypeOK
<1>4. LockInv'
  BY <1>1 DEF IInv, LockInv
<1>5. NumberInv' /\ SyncInv' /\ AckedInFile'
  BY <1>1, <1>2 DEF NumberInv, SyncInv, AckedInFile
<1>6. QED
  BY <1>2, <1>3, <1>4, <1>5 DEF IInv

LEMMA CloseFileKeeps ==
    ASSUME IInv, NEW t \in Threads, CloseFile(t) PROVE IInv'
<1>1. /\ up /\ pc[t] = "close" /\ Return(t)
      /\ seq' = seq /\ sinceSync' = sinceSync /\ closed' = closed
      /\ mine' = mine /\ up' = up /\ acked' = acked /\ refused' = refused
  BY DEF CloseFile, history
<1>2. /\ pc' \in [Threads -> PC] /\ lock' \in Threads \cup {NoThread}
      /\ \A u \in Threads : pc'[u] = "idle"
      /\ LockInv'
  BY <1>1, ReturnKeeps
<1>3. /\ image' \in Seq(Piece)
      /\ flushed' \in 0..Len(image') /\ synced' \in 0..flushed'
      /\ LogOrdered'
      /\ \A i \in DOMAIN image' : image'[i].seq \in 1..seq
      /\ \A i \in 1..flushed : i \in 1..flushed' /\ image'[i] = image[i]
  <2>1. CASE image' = image /\ flushed' = Len(image) /\ synced' \in {synced, flushed'}
    BY <1>1, <2>1 DEF IInv, TypeOK, LogOrdered, NumberInv
  <2>2. CASE image' \in Remains(flushed, HalfOut) /\ flushed' = Len(image')
             /\ synced' = synced
    <3>1. flushed \in synced..flushed
      BY DEF IInv, TypeOK
    <3>2. /\ HalfOut \in SUBSET (1..seq)
          /\ \A n \in HalfOut, i \in 1..flushed : image[i].seq < n
      BY <1>1, HalfOutAfter
    <3>3. QED
      BY <1>1, <2>2, <3>1, <3>2, CrashKeeps
  <2>3. QED
    BY <2>1, <2>2 DEF CloseFile
<1>4. TypeOK'
  BY <1>1, <1>2, <1>3 DEF IInv, TypeOK
<1>5. NumberInv' /\ SyncInv'
  BY <1>1, <1>2, <1>3 DEF NumberInv, SyncInv
<1>6. AckedInFile'
  BY <1>1, <1>3 DEF IInv, AckedInFile, Whole
<1>7. QED
  BY <1>2, <1>3, <1>4, <1>5, <1>6 DEF IInv

LEMMA NextKeeps == IInv /\ [Next]_vars => IInv'
<1> SUFFICES ASSUME IInv, [Next]_vars PROVE IInv'
  OBVIOUS
<1>1. ASSUME NEW t \in Threads, Emit(t) PROVE IInv'
  BY <1>1, EmitKeeps
<1>2. ASSUME NEW t \in Threads, WriteLine(t) PROVE IInv'
  BY <1>2, WriteLineKeeps
<1>3. ASSUME NEW t \in Threads, WriteNothing(t) \/ WriteBuffered(t) \/ WriteCut(t)
      PROVE  IInv'
  BY <1>3, WriteFailsKeeps
<1>4. ASSUME NEW t \in Threads, Sync(t) \/ SyncFails(t) PROVE IInv'
  BY <1>4, SyncKeeps
<1>5. ASSUME NEW t \in Threads, Close(t) PROVE IInv'
  BY <1>5, CloseKeeps
<1>6. ASSUME NEW t \in Threads, CloseFile(t) PROVE IInv'
  BY <1>6, CloseFileKeeps
<1>7. CASE Kill \/ PowerLoss
  BY <1>7, KillKeeps
<1>8. CASE UNCHANGED vars
  BY <1>8 DEF vars, logVars, fileVars, history, IInv, TypeOK, LockInv, NumberInv,
              LogOrdered, SyncInv, AckedInFile
<1>9. QED
  BY <1>1, <1>2, <1>3, <1>4, <1>5, <1>6, <1>7, <1>8 DEF Next

(* The types, the total order and what an acknowledgement means hold in    *)
(* every reachable state.                                                  *)
THEOREM Invariance == Spec => []IInv
BY InitIInv, NextKeeps, PTL DEF Spec

THEOREM TypeCorrect == Spec => []TypeOK
<1>1. IInv => TypeOK
  BY DEF IInv
<1>2. QED
  BY <1>1, Invariance, PTL

(* log.py:9-10: one writer, one total order of the events in the file.     *)
THEOREM OrderTheorem == Spec => []LogOrdered
<1>1. IInv => LogOrdered
  BY DEF IInv
<1>2. QED
  BY <1>1, Invariance, PTL

(* log.py:43-46: an acknowledged event is out of the process.              *)
THEOREM AckedTheorem == Spec => []AckedInFile
<1>1. IInv => AckedInFile
  BY DEF IInv
<1>2. QED
  BY <1>1, Invariance, PTL

-----------------------------------------------------------------------------
(* What any step does to the file: what an fsync covered stays as it is,   *)
(* and while the process lives so does everything that reached the         *)
(* operating system.                                                       *)
LEMMA FileStep ==
    ASSUME IInv, [Next]_vars
    PROVE  /\ synced \in 0..synced'
           /\ \A i \in 1..synced : image'[i] = image[i]
           /\ up' => \A i \in 1..flushed : i \in 1..flushed' /\ image'[i] = image[i]
<1> USE DEF fileVars
<1>1. flushed \in 0..Len(image) /\ synced \in 0..flushed /\ Len(image) \in Nat
  BY DEF IInv, TypeOK
<1>2. CASE image' = image /\ flushed' = flushed /\ synced' \in {synced, flushed}
  BY <1>1, <1>2
<1>3. ASSUME NEW t \in Threads, WriteLine(t) \/ WriteBuffered(t) \/ WriteCut(t)
      PROVE  /\ synced' = synced /\ flushed' \in {flushed, Len(image')}
             /\ image' \in {Append(image, Whole(mine[t])), Append(image, Cut(mine[t]))}
  BY <1>3 DEF WriteLine, WriteBuffered, WriteCut
<1>4. ASSUME synced' = synced, flushed' \in {flushed, Len(image')},
             NEW p, image' = Append(image, p)
      PROVE  /\ \A i \in 1..flushed : i \in 1..flushed' /\ image'[i] = image[i]
             /\ \A i \in 1..synced : image'[i] = image[i]
  BY <1>1, <1>4 DEF IInv, TypeOK
<1>5. ASSUME NEW k \in synced..flushed, NEW half, image' \in Remains(k, half)
      PROVE  /\ \A i \in 1..synced : image'[i] = image[i]
             /\ k = flushed => \A i \in 1..flushed : i \in 1..Len(image')
                                                        /\ image'[i] = image[i]
  <2>1. k \in 0..Len(image) /\ image \in Seq(Piece)
    BY <1>1 DEF IInv, TypeOK
  <2>2. /\ SubSeq(image, 1, k) \in Seq(Piece)
        /\ Len(SubSeq(image, 1, k)) = k
        /\ \A i \in 1..k : SubSeq(image, 1, k)[i] = image[i]
    BY <2>1
  <2>3. image' = SubSeq(image, 1, k)
            \/ \E n \in half : image' = Append(SubSeq(image, 1, k), Cut(n))
    BY <1>5 DEF Remains
  <2>4. /\ \A i \in 1..k : image'[i] = image[i]
        /\ Len(image') \in {k, k + 1}
    BY <2>2, <2>3
  <2>5. QED
    BY <1>1, <2>1, <2>4
<1>6. ASSUME NEW t \in Threads, CloseFile(t)
      PROVE  /\ synced \in 0..synced'
             /\ \A i \in 1..synced : image'[i] = image[i]
             /\ \A i \in 1..flushed : i \in 1..flushed' /\ image'[i] = image[i]
  <2>1. CASE image' = image /\ flushed' = Len(image) /\ synced' \in {synced, flushed'}
    BY <1>1, <2>1
  <2>2. CASE image' \in Remains(flushed, HalfOut) /\ flushed' = Len(image')
             /\ synced' = synced
    BY <1>1, <1>5, <2>2
  <2>3. QED
    BY <1>6, <2>1, <2>2 DEF CloseFile
<1>7. CASE Kill \/ PowerLoss
  <2>1. up' = FALSE /\ synced' = synced
    BY <1>7 DEF Kill, PowerLoss
  <2>2. \E k \in synced..flushed : \E half : image' \in Remains(k, half)
    <3>1. CASE Kill
      BY <1>1, <3>1 DEF Kill
    <3>2. CASE PowerLoss
      BY <3>2 DEF PowerLoss
    <3>3. QED
      BY <1>7, <3>1, <3>2
  <2>3. \A i \in 1..synced : image'[i] = image[i]
    BY <1>5, <2>2
  <2>4. QED
    BY <1>1, <2>1, <2>3
<1>8. CASE UNCHANGED vars
  BY <1>2, <1>8 DEF vars
<1>9. QED
  <2>1. ASSUME NEW t \in Threads, WriteLine(t) \/ WriteBuffered(t) \/ WriteCut(t)
        PROVE  /\ synced' = synced
               /\ \A i \in 1..flushed : i \in 1..flushed' /\ image'[i] = image[i]
               /\ \A i \in 1..synced : image'[i] = image[i]
    BY <1>3, <1>4, <2>1
  <2>2. ASSUME NEW t \in Threads,
               Emit(t) \/ WriteNothing(t) \/ Sync(t) \/ SyncFails(t) \/ Close(t)
        PROVE  image' = image /\ flushed' = flushed /\ synced' \in {synced, flushed}
    BY <2>2 DEF Emit, WriteNothing, Sync, SyncFails, Close
  <2>3. QED
    BY <1>1, <1>2, <1>6, <1>7, <1>8, <2>1, <2>2 DEF Next

-----------------------------------------------------------------------------
(* _since_sync counts at least the acknowledged events no fsync covers,    *)
(* and an event is acknowledged only while it stays below FsyncEvery.      *)
RiskInv ==
    FsyncEvery # 0 => /\ Cardinality(AtRisk) < FsyncEvery
                      /\ up => Cardinality(AtRisk) <= sinceSync

LEMMA AtRiskFinite == TypeOK => IsFiniteSet(AtRisk)
<1> SUFFICES ASSUME TypeOK PROVE IsFiniteSet(AtRisk)
  OBVIOUS
<1>1. IsFiniteSet(1..MaxSeq)
  BY MaxSeqAssumption, FS_Interval
<1>2. AtRisk \in SUBSET (1..MaxSeq)
  BY DEF AtRisk, TypeOK
<1>3. QED
  BY <1>1, <1>2, FS_Subset

(* Fewer or the same events at risk, and the count not reset.              *)
LEMMA RiskShrinks ==
    ASSUME IInv, IInv', RiskInv, AtRisk' \subseteq AtRisk,
           up' => up /\ sinceSync <= sinceSync'
    PROVE  RiskInv'
<1>1. IsFiniteSet(AtRisk) /\ AtRisk' \in SUBSET AtRisk
  BY AtRiskFinite DEF IInv
<1>2. /\ Cardinality(AtRisk') <= Cardinality(AtRisk)
      /\ Cardinality(AtRisk') \in Nat /\ Cardinality(AtRisk) \in Nat
  BY <1>1, FS_Subset, FS_CardinalityType
<1>3. sinceSync \in Nat /\ sinceSync' \in Nat
  BY DEF IInv, TypeOK
<1>4. Cardinality(AtRisk)' = Cardinality(AtRisk')
  OBVIOUS
<1>5. QED
  BY <1>2, <1>3, <1>4, FsyncAssumption DEF RiskInv

LEMMA RiskStep == IInv /\ RiskInv /\ [Next]_vars => RiskInv'
<1> SUFFICES ASSUME IInv, RiskInv, [Next]_vars PROVE RiskInv'
  OBVIOUS
<1>1. IInv'
  BY NextKeeps
<1>2. /\ synced \in 0..synced'
      /\ \A i \in 1..synced : image'[i] = image[i]
  BY FileStep
<1>3. /\ synced \in Nat /\ synced' \in Nat /\ \A i \in 1..synced : i \in 1..synced'
      /\ sinceSync \in Nat /\ sinceSync' \in Nat
  BY <1>1, <1>2 DEF IInv, TypeOK
<1>4. ASSUME acked' = acked PROVE AtRisk' \subseteq AtRisk
  BY <1>2, <1>3, <1>4 DEF AtRisk, Whole
<1>5. CASE acked' = acked /\ (up' => up /\ sinceSync <= sinceSync')
  BY <1>1, <1>4, <1>5, RiskShrinks
<1>6. ASSUME NEW t \in Threads, WriteLine(t), ~SyncDue PROVE RiskInv'
  <2>1. /\ acked' = acked \cup {mine[t]} /\ synced' = synced
        /\ sinceSync' = sinceSync + 1 /\ up' = up
    BY <1>6 DEF WriteLine, Answer
  <2>2. AtRisk' \subseteq AtRisk \cup {mine[t]}
    BY <1>2, <1>3, <2>1 DEF AtRisk, Whole
  <2>3. IsFiniteSet(AtRisk)
    BY AtRiskFinite DEF IInv
  <2>4. /\ IsFiniteSet(AtRisk \cup {mine[t]})
        /\ Cardinality(AtRisk \cup {mine[t]}) <= Cardinality(AtRisk) + 1
        /\ Cardinality(AtRisk) \in Nat
    <3>1. Cardinality(AtRisk) \in Nat
      BY <2>3, FS_CardinalityType
    <3>2. /\ IsFiniteSet(AtRisk \cup {mine[t]})
          /\ Cardinality(AtRisk \cup {mine[t]})
                = IF mine[t] \in AtRisk THEN Cardinality(AtRisk)
                  ELSE Cardinality(AtRisk) + 1
      BY <2>3, FS_AddElement, Zenon
    <3>3. QED
      BY <3>1, <3>2
  <2>5. AtRisk' \in SUBSET (AtRisk \cup {mine[t]})
    BY <2>2
  <2>6. /\ Cardinality(AtRisk') <= Cardinality(AtRisk \cup {mine[t]})
        /\ Cardinality(AtRisk') \in Nat
        /\ Cardinality(AtRisk \cup {mine[t]}) \in Nat
    BY <2>4, <2>5, FS_Subset, FS_CardinalityType
  <2>7. Cardinality(AtRisk)' = Cardinality(AtRisk')
    OBVIOUS
  <2>8. FsyncEvery # 0 => sinceSync + 1 < FsyncEvery
    BY <1>3, <1>6, FsyncAssumption DEF SyncDue
  <2>9. up
    BY <1>6 DEF WriteLine
  <2>10. QED
    BY <1>3, <2>1, <2>4, <2>6, <2>7, <2>8, <2>9, FsyncAssumption DEF RiskInv
<1>7. ASSUME NEW t \in Threads, Sync(t) PROVE RiskInv'
  <2>1. up' /\ synced' = flushed'
    BY <1>7 DEF Sync
  <2>2. AtRisk' = {}
    BY <1>1, <2>1 DEF AtRisk, IInv, AckedInFile
  <2>3. Cardinality(AtRisk)' = 0
    BY <2>2, FS_EmptySet
  <2>4. QED
    BY <1>3, <2>3, FsyncAssumption DEF RiskInv
<1>8. ASSUME NEW t \in Threads,
             \/ Emit(t) \/ (WriteLine(t) /\ SyncDue) \/ WriteNothing(t)
             \/ WriteBuffered(t) \/ WriteCut(t) \/ SyncFails(t) \/ Close(t)
             \/ CloseFile(t)
      PROVE  acked' = acked /\ (up' => up /\ sinceSync <= sinceSync')
  BY <1>3, <1>8 DEF Emit, WriteLine, WriteNothing, WriteBuffered, WriteCut, SyncFails,
              Close, CloseFile, Refuse, history
<1>9. ASSUME Kill \/ PowerLoss \/ UNCHANGED vars
      PROVE  acked' = acked /\ (up' => up /\ sinceSync <= sinceSync')
  BY <1>3, <1>9 DEF Kill, PowerLoss, vars, logVars, history
<1>10. ASSUME NEW t \in Threads,
              \/ Emit(t) \/ WriteLine(t) \/ WriteNothing(t) \/ WriteBuffered(t)
              \/ WriteCut(t) \/ Sync(t) \/ SyncFails(t) \/ Close(t) \/ CloseFile(t)
       PROVE  RiskInv'
  <2>1. CASE WriteLine(t) /\ ~SyncDue
    BY <1>6, <2>1
  <2>2. CASE Sync(t)
    BY <1>7, <2>2
  <2>3. CASE ~(WriteLine(t) /\ ~SyncDue) /\ ~Sync(t)
    <3>1. \/ Emit(t) \/ (WriteLine(t) /\ SyncDue) \/ WriteNothing(t)
          \/ WriteBuffered(t) \/ WriteCut(t) \/ SyncFails(t) \/ Close(t)
          \/ CloseFile(t)
      BY <1>10, <2>3, Zenon
    <3>2. acked' = acked /\ (up' => up /\ sinceSync <= sinceSync')
      BY <1>8, <3>1, Zenon
    <3>3. QED
      BY <1>5, <3>2
  <2>4. QED
    BY <2>1, <2>2, <2>3
<1>11. QED
  BY <1>5, <1>9, <1>10 DEF Next

(* log.py:43-46 and 128-134: with fsync_every = n, a power loss costs at   *)
(* most n - 1 acknowledged events, whichever fsyncs fail.                  *)
THEOREM RiskTheorem == Spec => []AckedLossBounded
<1>1. Init => RiskInv
  <2> SUFFICES ASSUME Init, FsyncEvery # 0
               PROVE  Cardinality(AtRisk) < FsyncEvery /\ Cardinality(AtRisk) <= sinceSync
    BY DEF RiskInv
  <2>1. AtRisk = {}
    BY DEF Init, AtRisk
  <2>2. QED
    BY <2>1, FS_EmptySet, FsyncAssumption DEF Init
<1>2. RiskInv => AckedLossBounded
  BY DEF RiskInv, AckedLossBounded
<1>3. QED
  BY <1>1, <1>2, RiskStep, Invariance, InitIInv, PTL DEF Spec

-----------------------------------------------------------------------------
(* What a log without problems is worth.                                   *)

LEMMA Least ==
    ASSUME NEW S \in SUBSET Nat, S # {} PROVE \E x \in S : \A y \in S : x <= y
<1>1. PICK x \in S : \A y \in S : <<y, x>> \notin OpToRel(<, Nat)
  BY WFMin, NatLessThanWellFounded, Zenon
<1>2. \A y \in S : ~(y < x)
  BY <1>1, Zenon DEF OpToRel
<1>3. QED
  BY <1>2

LEMMA Greatest ==
    ASSUME NEW n \in Nat, NEW S \in SUBSET (0..n), S # {}
    PROVE  \E x \in S : \A y \in S : y <= x
<1> DEFINE T == {n - y : y \in S}
<1>1. T \in SUBSET Nat /\ T # {}
  <2>1. \A y \in S : n - y \in Nat
    <3>1. \A y \in S : y \in 0..n
      OBVIOUS
    <3>2. QED
      BY <3>1
  <2>2. QED
    BY <2>1
<1> HIDE DEF T
<1>2. PICK d \in T : \A e \in T : d <= e
  BY <1>1, Least
<1>3. PICK x \in S : d = n - x
  BY DEF T
<1>4. ASSUME NEW y \in S PROVE y <= x
  <2>1. n - y \in T
    BY DEF T
  <2>2. n - x <= n - y /\ x \in 0..n /\ y \in 0..n
    BY <1>2, <1>3, <2>1
  <2>3. QED
    BY <2>2
<1>5. QED
  BY <1>4

(* Without a truncated last line and without a line that does not parse,   *)
(* no line is cut: behind the last cut one there is nothing, or a line     *)
(* that it spoils.                                                         *)
LEMMA CleanLogWhole ==
    ASSUME NEW f \in Seq(Piece), LoadProblems(f) = {}
    PROVE  \A i \in DOMAIN f : Intact(f, i)
<1> DEFINE cut == {i \in DOMAIN f : ~f[i].whole}
<1>1. DOMAIN f = 1..Len(f) /\ Len(f) \in Nat /\ (f # <<>> => Len(f) > 0)
  OBVIOUS
<1>2. /\ f # <<>> => f[Len(f)].whole
      /\ \A i \in DOMAIN f : i > 1 /\ f[i].whole => f[i - 1].whole
  BY DEF LoadProblems
<1>3. cut = {}
  <2> SUFFICES ASSUME cut # {} PROVE FALSE
    OBVIOUS
  <2>1. cut \in SUBSET (0..Len(f))
    BY <1>1
  <2>2. PICK i \in cut : \A j \in cut : j <= i
    BY <1>1, <2>1, Greatest
  <2>3. i \in 1..Len(f) /\ ~f[i].whole /\ f # <<>>
    BY <1>1
  <2>4. i + 1 \in DOMAIN f /\ i + 1 > 1 /\ (i + 1) - 1 = i
    BY <1>1, <1>2, <2>3
  <2>5. ~f[i + 1].whole
    BY <1>2, <2>3, <2>4
  <2>6. i + 1 \in cut
    BY <2>4, <2>5
  <2>7. QED
    BY <1>1, <2>2, <2>3, <2>6
<1>4. \A i \in DOMAIN f : i > 1 => i - 1 \in DOMAIN f
  BY <1>1
<1>5. QED
  BY <1>3, <1>4 DEF Intact

(* A number that lies between two that were read is in a gap.              *)
LEMMA HoleIsGap ==
    ASSUME NEW seqs \in SUBSET Nat, NEW low \in seqs, NEW high \in seqs,
           NEW n \in Nat \ seqs, low < n, n < high
    PROVE  Gaps(seqs) # {}
<1> DEFINE above == {m \in seqs : n < m}
           below == {m \in seqs : m < n}
<1>1. PICK p \in below : \A m \in below : m <= p
  <2>1. \A m \in below : m \in 0..n
    <3> TAKE m \in below
    <3>1. m \in Nat /\ m < n
      OBVIOUS
    <3>2. QED
      BY <3>1
  <2>2. low \in below
    OBVIOUS
  <2> HIDE DEF below
  <2>3. QED
    BY <2>1, <2>2, Greatest
<1>2. PICK q \in above : \A m \in above : q <= m
  <2>1. above \in SUBSET Nat /\ above # {}
    OBVIOUS
  <2>2. QED
    BY <2>1, Least
<1>3. p \in seqs /\ q \in seqs /\ p < n /\ n < q
  OBVIOUS
<1>4. q > p + 1
  BY <1>3
<1>5. \A m \in seqs : m <= p \/ m >= q
  BY <1>1, <1>2
<1> DEFINE pair == <<p, q>>
           neighbours == {r \in seqs \X seqs :
                             /\ r[2] > r[1] + 1
                             /\ \A m \in seqs : m <= r[1] \/ m >= r[2]}
<1>6. pair \in neighbours
  BY <1>3, <1>4, <1>5
<1> HIDE DEF pair
<1>7. <<pair[1] + 1, pair[2] - 1>> \in Gaps(seqs)
  BY <1>6 DEF Gaps
<1>8. QED
  BY <1>7

(* A reader with no complaint about the file has read every event whose    *)
(* emit returned it, unless power was lost, and every number between the   *)
(* first event it read and the last.                                       *)
THEOREM CleanTheorem == Spec => []CleanLogIsComplete
<1>1. ASSUME IInv PROVE CleanLogIsComplete
  <2> SUFFICES ASSUME Problems(OnDisk) = {}
               PROVE  /\ up => acked \subseteq Parsed(OnDisk)
                      /\ \A n \in (1..seq) \ Parsed(OnDisk) :
                             \/ \A m \in Parsed(OnDisk) : m < n
                             \/ \A m \in Parsed(OnDisk) : n < m
    BY DEF CleanLogIsComplete
  <2>1. /\ OnDisk \in Seq(Piece) /\ Len(OnDisk) = flushed /\ seq \in Nat
        /\ flushed \in Nat /\ DOMAIN OnDisk = 1..flushed
        /\ \A i \in 1..flushed : OnDisk[i] = image[i]
    BY <1>1, MaxSeqAssumption DEF IInv, TypeOK, OnDisk
  <2>2. LoadProblems(OnDisk) = {} /\ Gaps(Parsed(OnDisk)) = {}
    BY DEF Problems
  <2>3. \A i \in 1..flushed : Intact(OnDisk, i)
    BY <2>1, <2>2, CleanLogWhole
  <2>4. Parsed(OnDisk) = {image[i].seq : i \in 1..flushed}
    BY <2>1, <2>3 DEF Parsed
  <2>5. ASSUME up, NEW n \in acked PROVE n \in Parsed(OnDisk)
    <3>1. PICK i \in 1..flushed : image[i] = Whole(n)
      BY <1>1, <2>5 DEF IInv, AckedInFile
    <3>2. image[i].seq = n
      BY <3>1 DEF Whole
    <3>3. QED
      BY <2>4, <3>2
  <2>6. Parsed(OnDisk) \in SUBSET Nat
    <3>1. \A i \in 1..flushed : OnDisk[i] \in Piece
      BY <2>1
    <3>2. QED
      BY <2>1, <2>4, <3>1 DEF Piece
  <2>7. ASSUME NEW n \in (1..seq) \ Parsed(OnDisk), NEW low \in Parsed(OnDisk), ~(n < low),
               NEW high \in Parsed(OnDisk), ~(high < n)
        PROVE  FALSE
    <3>1. n \in Nat \ Parsed(OnDisk) /\ low \in Nat /\ high \in Nat
      BY <2>1, <2>6
    <3>2. low < n /\ n < high
      BY <2>7, <3>1
    <3>3. QED
      BY <2>2, <2>6, <3>1, <3>2, HoleIsGap
  <2>8. QED
    BY <2>5, <2>7
<1>2. QED
  BY <1>1, Invariance, PTL

-----------------------------------------------------------------------------
(* The event spine implements EvidenceLog: seen through the reader, the    *)
(* file only grows at its end, keeps what was fsynced, and is final once   *)
(* closed.                                                                 *)

Read(k) == Parsed(SubSeq(image, 1, k))

(* A closed log has no emit in flight, and only close itself closes it.    *)
ClosedInv ==
    /\ closed => \A t \in Threads : pc[t] \in {"idle", "close"}
    /\ \A t \in Threads : pc[t] = "close" => closed

LEMMA ClosedStep == IInv /\ ClosedInv /\ [Next]_vars => ClosedInv'
<1> SUFFICES ASSUME IInv, ClosedInv, [Next]_vars PROVE ClosedInv'
  OBVIOUS
<1>1. pc \in [Threads -> PC]
  BY DEF IInv, TypeOK
<1>2. ASSUME NEW t \in Threads, Emit(t) PROVE ClosedInv'
  BY <1>1, <1>2 DEF Emit, ClosedInv
<1>3. ASSUME NEW t \in Threads, pc[t] # "idle", closed' = closed,
             Return(t) \/ (pc' = [pc EXCEPT ![t] = "sync"] /\ pc[t] = "write")
      PROVE  ClosedInv'
  BY <1>1, <1>3 DEF Return, ClosedInv
<1>4. ASSUME NEW t \in Threads,
             \/ WriteLine(t) \/ WriteNothing(t) \/ WriteBuffered(t) \/ WriteCut(t)
             \/ Sync(t) \/ SyncFails(t) \/ CloseFile(t)
      PROVE  /\ pc[t] # "idle" /\ closed' = closed
             /\ Return(t) \/ (pc' = [pc EXCEPT ![t] = "sync"] /\ pc[t] = "write")
  BY <1>4 DEF WriteLine, WriteNothing, WriteBuffered, WriteCut, Sync, SyncFails,
              CloseFile, Answer, Refuse
<1>5. ASSUME NEW t \in Threads, Close(t) PROVE ClosedInv'
  <2>1. \A u \in Threads : pc[u] = "idle"
    BY <1>5, ThreadAssumption DEF Close, IInv, LockInv
  <2>2. closed' = TRUE /\ pc' = [pc EXCEPT ![t] = "close"]
    BY <1>5 DEF Close
  <2>3. QED
    BY <1>1, <2>1, <2>2 DEF ClosedInv
<1>6. CASE Kill \/ PowerLoss \/ UNCHANGED vars
  BY <1>6 DEF Kill, PowerLoss, vars, logVars, ClosedInv
<1>7. QED
  BY <1>2, <1>3, <1>4, <1>5, <1>6 DEF Next

-----------------------------------------------------------------------------
(* Reading a prefix of the file is reading the pieces in it.               *)
LEMMA ReadPrefix ==
    ASSUME NEW f \in Seq(Piece), NEW k \in 0..Len(f)
    PROVE  Parsed(SubSeq(f, 1, k)) = {f[i].seq : i \in {j \in 1..k : Intact(f, j)}}
<1> DEFINE g == SubSeq(f, 1, k)
<1>1. /\ DOMAIN g = 1..k
      /\ \A i \in 1..k : g[i] = f[i]
  OBVIOUS
<1>2. \A i \in 1..k : Intact(g, i) <=> Intact(f, i)
  <2> SUFFICES ASSUME NEW i \in 1..k PROVE Intact(g, i) <=> Intact(f, i)
    OBVIOUS
  <2>1. i > 1 => i - 1 \in 1..k
    OBVIOUS
  <2>2. QED
    BY <1>1, <2>1 DEF Intact
<1> HIDE DEF g
<1>3. Parsed(g) = {g[i].seq : i \in {j \in 1..k : Intact(g, j)}}
  BY <1>1 DEF Parsed
<1>4. {j \in 1..k : Intact(g, j)} = {j \in 1..k : Intact(f, j)}
  BY <1>2
<1>5. Parsed(g) = {f[i].seq : i \in {j \in 1..k : Intact(f, j)}}
  BY <1>1, <1>3, <1>4
<1>6. QED
  BY <1>5 DEF g

(* A file that keeps its first k pieces reads the same up to k, and what   *)
(* is read beyond comes later in the order.                                *)
LEMMA ReadGrows ==
    ASSUME IInv, IInv', NEW k \in 0..Len(image), NEW l \in k..Len(image'),
           \A i \in 1..k : image'[i] = image[i]
    PROVE  /\ Read(k) = Parsed(SubSeq(image', 1, k))
           /\ Read(k) \subseteq Parsed(SubSeq(image', 1, l))
           /\ \A n \in Parsed(SubSeq(image', 1, l)) \ Read(k), m \in Read(k) : m < n
           /\ (\A i \in k + 1..l : ~image'[i].whole)
                  => Parsed(SubSeq(image', 1, l)) = Read(k)
<1>1. /\ image \in Seq(Piece) /\ image' \in Seq(Piece)
      /\ Len(image) \in Nat /\ Len(image') \in Nat
      /\ k \in 0..Len(image') /\ l \in 0..Len(image')
      /\ DOMAIN image' = 1..Len(image')
  BY DEF IInv, TypeOK
<1>2. /\ Read(k) = {image[i].seq : i \in {j \in 1..k : Intact(image, j)}}
      /\ Parsed(SubSeq(image', 1, k)) = {image'[i].seq : i \in {j \in 1..k : Intact(image', j)}}
      /\ Parsed(SubSeq(image', 1, l)) = {image'[i].seq : i \in {j \in 1..l : Intact(image', j)}}
  BY <1>1, ReadPrefix DEF Read
<1>3. ASSUME NEW i \in 1..k PROVE Intact(image, i) <=> Intact(image', i)
  <2>1. i > 1 => i - 1 \in 1..k
    OBVIOUS
  <2>2. QED
    BY <2>1 DEF Intact
<1>4. Read(k) = Parsed(SubSeq(image', 1, k))
  BY <1>2, <1>3
<1>5. Read(k) \subseteq Parsed(SubSeq(image', 1, l))
  <2>1. \A i \in 1..k : i \in 1..l
    OBVIOUS
  <2>2. QED
    BY <1>2, <1>4, <2>1
<1>6. ASSUME NEW n \in Parsed(SubSeq(image', 1, l)) \ Read(k)
      PROVE  \E i \in k + 1..l : Intact(image', i) /\ image'[i].seq = n
  <2>1. PICK i \in 1..l : Intact(image', i) /\ image'[i].seq = n
    BY <1>2, <1>6
  <2>2. i \notin 1..k
    BY <1>2, <1>4, <1>6, <2>1
  <2>3. QED
    BY <2>1, <2>2
<1>7. ASSUME NEW n \in Parsed(SubSeq(image', 1, l)) \ Read(k), NEW m \in Read(k)
      PROVE  m < n
  <2>1. PICK i \in k + 1..l : image'[i].seq = n
    BY <1>6
  <2>2. PICK j \in 1..k : image'[j].seq = m
    BY <1>2, <1>4
  <2>3. i \in DOMAIN image' /\ j \in DOMAIN image' /\ j < i
    BY <1>1
  <2>4. QED
    BY <2>1, <2>2, <2>3 DEF IInv, LogOrdered
<1>8. ASSUME \A i \in k + 1..l : ~image'[i].whole
      PROVE  Parsed(SubSeq(image', 1, l)) = Read(k)
  BY <1>5, <1>6, <1>8 DEF Intact
<1>9. QED
  BY <1>4, <1>5, <1>7, <1>8

-----------------------------------------------------------------------------
(* The abstract state.                                                     *)
Recorded == Parsed(OnDisk)
Durable  == Parsed(SubSeq(image, 1, synced))
Sealed   == ~up \/ (closed /\ lock = NoThread)

(* While the process lives, a step extends what is read.                   *)
LEMMA LiveStepExtends ==
    ASSUME IInv, [Next]_vars, up'
    PROVE  /\ Recorded \subseteq Recorded'
           /\ \A n \in Recorded' \ Recorded, m \in Recorded : m < n
<1>1. IInv'
  BY NextKeeps
<1>2. /\ flushed \in 0..Len(image) /\ flushed' \in flushed..Len(image')
      /\ \A i \in 1..flushed : image'[i] = image[i]
  <2>1. \A i \in 1..flushed : i \in 1..flushed' /\ image'[i] = image[i]
    BY FileStep
  <2>2. flushed \in 0..Len(image) /\ flushed' \in 0..Len(image')
        /\ Len(image) \in Nat /\ Len(image') \in Nat
    BY <1>1 DEF IInv, TypeOK
  <2>3. flushed <= flushed'
    BY <2>1, <2>2
  <2>4. QED
    BY <2>1, <2>2, <2>3
<1>3. QED
  BY <1>1, <1>2, ReadGrows DEF Recorded, OnDisk, Read

(* What was fsynced reads the same after any step that syncs nothing.      *)
LEMMA DurableKept ==
    ASSUME IInv, [Next]_vars, synced' = synced PROVE Durable' = Durable
<1>1. IInv'
  BY NextKeeps
<1>2. synced \in 0..Len(image) /\ synced \in synced..Len(image')
      /\ \A i \in 1..synced : image'[i] = image[i]
  BY <1>1, FileStep DEF IInv, TypeOK
<1>3. QED
  BY <1>1, <1>2, ReadGrows DEF Durable, Read

(* A crash that leaves the first k pieces and perhaps a cut one.           *)
LEMMA CrashReads ==
    ASSUME IInv, IInv', NEW k \in 0..flushed, NEW half, image' \in Remains(k, half),
           flushed' = Len(image')
    PROVE  Recorded' = Read(k)
<1>1. /\ k \in 0..Len(image) /\ image \in Seq(Piece) /\ Len(image) \in Nat
      /\ image' \in Seq(Piece) /\ Len(image') \in Nat
  BY DEF IInv, TypeOK
<1>2. /\ SubSeq(image, 1, k) \in Seq(Piece)
      /\ Len(SubSeq(image, 1, k)) = k
      /\ \A i \in 1..k : SubSeq(image, 1, k)[i] = image[i]
  BY <1>1
<1>3. image' = SubSeq(image, 1, k)
          \/ \E n \in half : image' = Append(SubSeq(image, 1, k), Cut(n))
  BY DEF Remains
<1>4. /\ \A i \in 1..k : image'[i] = image[i]
      /\ Len(image') \in {k, k + 1}
      /\ \A i \in k + 1..Len(image') : ~image'[i].whole
  <2>1. CASE image' = SubSeq(image, 1, k)
    BY <1>1, <1>2, <2>1
  <2>2. ASSUME NEW n \in half, image' = Append(SubSeq(image, 1, k), Cut(n))
        PROVE  /\ \A i \in 1..k : image'[i] = image[i]
               /\ Len(image') = k + 1
               /\ image'[k + 1] = Cut(n) /\ ~Cut(n).whole
    BY <1>1, <1>2, <2>2 DEF Cut
  <2>3. QED
    BY <1>1, <1>3, <2>1, <2>2
<1>5. flushed' \in k..Len(image')
  BY <1>1, <1>4
<1>6. Parsed(SubSeq(image', 1, flushed')) = Read(k)
  BY <1>1, <1>4, <1>5, ReadGrows
<1>7. QED
  BY <1>6 DEF Recorded, OnDisk

LEMMA ExtendStep ==
    ASSUME IInv, [Next]_vars, up', ~Sealed, Durable' = Durable, Sealed' \in BOOLEAN
    PROVE  [Evidence!Next]_(Evidence!vars)
<1>1. Evidence!Extend
  BY LiveStepExtends DEF Evidence!Extend, Recorded
<1>2. CASE Sealed' = FALSE
  <2>1. Sealed' = Sealed
    BY <1>2 DEF Sealed
  <2>2. Evidence!Record
    BY <1>1, <2>1 DEF Evidence!Record, Sealed, Durable
  <2>3. QED
    BY <2>2 DEF Evidence!Next
<1>3. CASE Sealed' = TRUE
  <2>1. Evidence!Seal
    BY <1>1, <1>3 DEF Evidence!Seal, Sealed, Durable
  <2>2. QED
    BY <2>1 DEF Evidence!Next
<1>4. QED
  BY <1>2, <1>3

LEMMA CrashStep ==
    ASSUME IInv, Kill \/ PowerLoss PROVE [Evidence!Next]_(Evidence!vars)
<1>1. IInv' /\ [Next]_vars
  BY KillKeeps DEF Next
<1>2. /\ flushed' = Len(image') /\ up' = FALSE /\ synced' = synced
      /\ flushed \in 0..Len(image) /\ synced \in 0..flushed /\ Len(image) \in Nat
      /\ synced' \in 0..flushed' /\ flushed' \in 0..Len(image')
  <2>1. flushed' = Len(image') /\ up' = FALSE /\ synced' = synced
    BY DEF Kill, PowerLoss
  <2>2. /\ flushed \in 0..Len(image) /\ synced \in 0..flushed /\ Len(image) \in Nat
        /\ synced' \in 0..flushed' /\ flushed' \in 0..Len(image')
    BY <1>1 DEF IInv, TypeOK
  <2>3. QED
    BY <2>1, <2>2
<1>3. Durable' = Durable /\ Sealed' = TRUE
  BY <1>1, <1>2, DurableKept DEF Sealed
<1>4. CASE Kill
  <2>1. up /\ image' \in Remains(flushed, HalfOut) /\ flushed \in 0..flushed
    BY <1>2, <1>4 DEF Kill
  <2>2. Recorded' = Recorded
    BY <1>1, <1>2, <2>1, CrashReads DEF Recorded, OnDisk, Read
  <2>3. CASE Sealed
    BY <1>3, <2>2, <2>3 DEF Evidence!vars, Recorded, Durable, Sealed
  <2>4. CASE ~Sealed
    <3>1. Evidence!Seal
      BY <1>3, <2>2, <2>4 DEF Evidence!Seal, Evidence!Extend, Recorded, Durable, Sealed
    <3>2. QED
      BY <3>1 DEF Evidence!Next
  <2>5. QED
    BY <2>3, <2>4
<1>5. CASE PowerLoss
  <2> DEFINE Half(k) == IF k < flushed THEN {image[k + 1].seq} ELSE {}
  <2>1. PICK k \in synced..flushed : image' \in Remains(k, Half(k))
    BY <1>5 DEF PowerLoss
  <2> HIDE DEF Half
  <2>2. k \in 0..flushed /\ k \in 0..Len(image) /\ flushed \in k..Len(image)
        /\ synced \in 0..k
    BY <1>2, <2>1
  <2>3. Recorded' = Read(k)
    BY <1>1, <1>2, <2>1, <2>2, CrashReads
  <2>4. /\ Read(k) = {image[i].seq : i \in {j \in 1..k : Intact(image, j)}}
        /\ Recorded = {image[i].seq : i \in {j \in 1..flushed : Intact(image, j)}}
        /\ Durable = {image[i].seq : i \in {j \in 1..synced : Intact(image, j)}}
    <3>1. image \in Seq(Piece) /\ synced \in 0..Len(image)
      BY <1>2 DEF IInv, TypeOK
    <3>2. QED
      BY <1>2, <2>2, <3>1, ReadPrefix DEF Read, Recorded, OnDisk, Durable
  <2>5. /\ \A i \in 1..k : i \in 1..flushed
        /\ \A i \in 1..synced : i \in 1..k
        /\ \A i \in 1..flushed : i \in DOMAIN image
    <3>1. image \in Seq(Piece)
      BY DEF IInv, TypeOK
    <3>2. QED
      BY <1>2, <2>2, <3>1
  <2>6. Read(k) \subseteq Recorded /\ Durable \subseteq Read(k)
    BY <2>4, <2>5
  <2>7. ASSUME NEW n \in Read(k), NEW m \in Recorded \ Read(k) PROVE n < m
    <3>1. PICK i \in 1..k : image[i].seq = n
      BY <2>4
    <3>2. PICK j \in 1..flushed : Intact(image, j) /\ image[j].seq = m
      BY <2>4
    <3>3. j \notin 1..k
      BY <2>4, <2>7, <3>2
    <3>4. i < j /\ i \in DOMAIN image /\ j \in DOMAIN image
      BY <1>2, <2>2, <2>5, <3>1, <3>3
    <3>5. QED
      BY <3>1, <3>2, <3>4 DEF IInv, LogOrdered
  <2>8. Evidence!LosePower
    BY <1>3, <2>3, <2>6, <2>7 DEF Evidence!LosePower, Recorded, Durable, Sealed
  <2>9. QED
    BY <2>8 DEF Evidence!Next
<1>6. QED
  BY <1>4, <1>5

LEMMA EvidenceStep ==
    IInv /\ ClosedInv /\ [Next]_vars => [Evidence!Next]_(Evidence!vars)
<1> SUFFICES ASSUME IInv, ClosedInv, [Next]_vars
             PROVE  [Evidence!Next]_(Evidence!vars)
  OBVIOUS
<1>1. IInv' /\ closed \in BOOLEAN /\ closed' \in BOOLEAN /\ up \in BOOLEAN
      /\ up' \in BOOLEAN
  BY NextKeeps DEF IInv, TypeOK
<1>2. Sealed' \in BOOLEAN
  BY DEF Sealed
<1>3. ASSUME NEW t \in Threads, Emit(t) \/ Close(t)
      PROVE  [Evidence!Next]_(Evidence!vars)
  <2>1. /\ image' = image /\ flushed' = flushed /\ synced' = synced /\ up' = up /\ up
        /\ ~closed /\ lock' = t
    BY <1>3 DEF Emit, Close, fileVars
  <2>2. UNCHANGED Evidence!vars
    BY <2>1, ThreadAssumption DEF Evidence!vars, OnDisk
  <2>3. QED
    BY <2>2
<1>4. ASSUME NEW t \in Threads,
             \/ WriteLine(t) \/ WriteNothing(t) \/ WriteBuffered(t) \/ WriteCut(t)
             \/ SyncFails(t)
      PROVE  [Evidence!Next]_(Evidence!vars)
  <2>1. up /\ up' = up /\ pc[t] \in {"write", "sync"} /\ synced' = synced
    BY <1>4 DEF WriteLine, WriteNothing, WriteBuffered, WriteCut, SyncFails, fileVars
  <2>2. ~Sealed
    BY <2>1 DEF ClosedInv, Sealed
  <2>3. Durable' = Durable
    BY <2>1, DurableKept
  <2>4. QED
    BY <1>2, <2>1, <2>2, <2>3, ExtendStep
<1>5. ASSUME NEW t \in Threads, Sync(t) PROVE [Evidence!Next]_(Evidence!vars)
  <2>1. /\ up /\ up' = up /\ pc[t] = "sync" /\ synced' = flushed /\ closed' = closed
        /\ image' = image /\ flushed' = flushed
    BY <1>5 DEF Sync
  <2>2. ~closed
    BY <2>1 DEF ClosedInv
  <2>3. Evidence!Harden
    BY <2>1, <2>2 DEF Evidence!Harden, OnDisk
  <2>4. QED
    BY <2>3 DEF Evidence!Next
<1>6. ASSUME NEW t \in Threads, CloseFile(t) PROVE [Evidence!Next]_(Evidence!vars)
  <2>1. up /\ up' = up /\ pc[t] = "close" /\ closed' = closed /\ lock' = NoThread
    BY <1>6 DEF CloseFile, Return
  <2>2. closed /\ lock = t /\ lock # NoThread
    BY <2>1, ThreadAssumption DEF ClosedInv, IInv, LockInv
  <2>3. ~Sealed /\ Sealed' = TRUE
    BY <1>1, <2>1, <2>2 DEF Sealed
  <2>4. Durable' \in {Durable, Recorded'}
    <3>1. CASE synced' = synced
      BY <3>1, DurableKept
    <3>2. CASE synced' = flushed'
      BY <3>2 DEF Durable, Recorded, OnDisk
    <3>3. QED
      BY <1>6, <3>1, <3>2 DEF CloseFile
  <2>5. Evidence!Seal
    BY <2>1, <2>3, <2>4, LiveStepExtends
    DEF Evidence!Seal, Evidence!Extend, Recorded, Durable, Sealed
  <2>6. QED
    BY <2>5 DEF Evidence!Next
<1>7. CASE Kill \/ PowerLoss
  BY <1>7, CrashStep
<1>8. CASE UNCHANGED vars
  <2>1. UNCHANGED Evidence!vars
    BY <1>8 DEF vars, logVars, fileVars, Evidence!vars, OnDisk
  <2>2. QED
    BY <2>1
<1>9. QED
  BY <1>3, <1>4, <1>5, <1>6, <1>7, <1>8 DEF Next

(* The spine is an append-only record: see EvidenceLog.                    *)
THEOREM Refinement == Spec => Implements
<1>1. Init => Evidence!Init
  <2> SUFFICES ASSUME Init PROVE Evidence!Init
    OBVIOUS
  <2>1. image = <<>> /\ <<>> \in Seq(Piece) /\ Len(<<>>) = 0
    BY DEF Init
  <2>2. Parsed(SubSeq(image, 1, 0)) = {}
    <3>1. Parsed(SubSeq(image, 1, 0))
              = {image[i].seq : i \in {j \in 1..0 : Intact(image, j)}}
      <4>1. image \in Seq(Piece) /\ 0 \in 0..Len(image)
        BY <2>1
      <4>2. QED
        BY <4>1, ReadPrefix
    <3>2. QED
      BY <3>1
  <2>3. flushed = 0 /\ synced = 0 /\ up = TRUE /\ closed = FALSE
    BY DEF Init
  <2>4. Recorded = {} /\ Durable = {}
    BY <2>1, <2>2, <2>3 DEF Recorded, OnDisk, Durable
  <2>5. Sealed = FALSE
    BY <2>3 DEF Sealed
  <2>6. QED
    BY <2>4, <2>5 DEF Evidence!Init, Recorded, Durable, Sealed
<1>2. Init => ClosedInv
  BY DEF Init, ClosedInv
<1>3. QED
  BY <1>1, <1>2, ClosedStep, EvidenceStep, Invariance, PTL
  DEF Spec, Implements, Evidence!Spec
=============================================================================
