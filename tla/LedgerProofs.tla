---------------------------- MODULE LedgerProofs ----------------------------
(***************************************************************************)
(* Theorems about the sums of SimulationRun: what an answer shows of ETH   *)
(* and of coins is what the execution has moved, in human amounts too.     *)
(*                                                                         *)
(* The books are what the tracer has recorded of value and of events.      *)
(* They balance with the journal under every weighing of events, at the    *)
(* end and at the beginning of each frame that runs.                       *)
(***************************************************************************)
EXTENDS SimulationRunProofs, SumLemmas

-----------------------------------------------------------------------------
\* Frame k has an entry <<k, 0>> for the value it carries, if any, and one for
\* each of its logs.
Booked(fs, k) ==
  {p \in (1..k) \X Nat : IF p[2] = 0 THEN fs[p[1]].value > 0
                         ELSE p[2] \in DOMAIN fs[p[1]].logs}

Entry(fs, p) == IF p[2] = 0 THEN ValueEvent(fs[p[1]]) ELSE fs[p[1]].logs[p[2]]

BookSum(fs, w, k) ==
  SumFunctionOnSet([p \in Booked(fs, k) |-> w[Entry(fs, p)]], Booked(fs, k))

JournalSum(js, w, n) == SumFunctionOnSet([i \in 1..n |-> w[js[i]]], 1..n)

Weighing == [EventRec -> Int]

\* Without a plain tree the value of frames says nothing.
Fits(w) == PlainTree \/ \A e \in EventRec : e.kind = "native" => w[e] = 0

Balanced(w, n, k) == JournalSum(journal, w, n) = BookSum(frames, w, k)

Ledger ==
  \A w \in Weighing :
    Fits(w) => /\ Balanced(w, Len(journal), Len(frames))
               /\ \A m \in DOMAIN open : Balanced(w, open[m].mark, open[m].frame - 1)

\* What is entered while a frame runs is entered inside it.
NestInv ==
  \A m \in DOMAIN open : \A k \in DOMAIN frames :
    k > open[m].frame => frames[k].caller >= open[m].frame

\* An NFT's Transfer has no amount.
NftInv == \A i \in DOMAIN journal : journal[i].kind = "nft" => journal[i].amount = 0

\* The logs that a node tells of keep their places.
LogsTold == raw # None => raw.logs \in {<<>>, CollectLogs(frames)}

BooksInv == NestInv /\ NftInv /\ Ledger /\ LogsTold

-----------------------------------------------------------------------------
\* Journals that are equal as far as n have equal sums that far.
LEMMA JournalSame ==
  ASSUME NEW js, NEW gs, NEW w, NEW n, \A i \in 1..n : gs[i] = js[i]
  PROVE  JournalSum(gs, w, n) = JournalSum(js, w, n)
<1>1. [i \in 1..n |-> w[gs[i]]] = [i \in 1..n |-> w[js[i]]]
  OBVIOUS
<1>. QED  BY <1>1, Zenon DEF JournalSum

\* An event more in the journal is a term more in its sum.
LEMMA JournalMore ==
  ASSUME NEW js \in Seq(EventRec), NEW e \in EventRec, NEW w \in Weighing
  PROVE  JournalSum(Append(js, e), w, Len(js) + 1)
           = JournalSum(js, w, Len(js)) + w[e]
<1>. DEFINE n == Len(js)
            gs == Append(js, e)
            f == [i \in 1..n |-> w[js[i]]]
            g == [i \in 1..(n + 1) |-> w[gs[i]]]
<1>1. /\ n \in Nat /\ \A i \in 1..n : js[i] \in EventRec /\ gs[i] = js[i]
      /\ gs[n + 1] = e
  BY AppendProperties, LenProperties, ElementOfSeq
<1>i. 1..(n + 1) = (1..n) \cup {n + 1} /\ n + 1 \notin 1..n
  BY <1>1
<1>2. n + 1 \notin 1..n /\ IsFiniteSet(1..n)
  BY <1>1, <1>i, FS_Interval
<1>3. \A i \in 1..n : f[i] \in Int /\ g[i] = f[i]
  BY <1>1 DEF Weighing
<1>4. g[n + 1] = w[e] /\ w[e] \in Int
  BY <1>1 DEF Weighing
<1>. HIDE DEF f, g, n
<1>5. SumFunctionOnSet(g, 1..n) = SumFunctionOnSet(f, 1..n)
  BY <1>2, <1>3, SumCongruence
<1>6. \A i \in (1..n) \cup {n + 1} : g[i] \in Int
  BY <1>3, <1>4
<1>7. SumFunctionOnSet(g, (1..n) \cup {n + 1}) = SumFunctionOnSet(g, 1..n) + g[n + 1]
  BY <1>2, <1>6, SumWith
<1>8. SumFunctionOnSet(g, 1..(n + 1)) = SumFunctionOnSet(f, 1..n) + w[e]
  BY <1>i, <1>4, <1>5, <1>7
<1>. QED  BY <1>8 DEF JournalSum, f, g, n

-----------------------------------------------------------------------------
\* The books of a tree are finite, and their entries are events.
LEMMA BooksType ==
  ASSUME NEW fs \in Seq(FrameRec), NEW k \in 0..Len(fs)
  PROVE  /\ IsFiniteSet(Booked(fs, k))
         /\ \A p \in Booked(fs, k) : Entry(fs, p) \in EventRec
<1>1. /\ Len(fs) \in Nat
      /\ \A i \in 1..Len(fs) :
           /\ fs[i].from \in Addr /\ fs[i].to \in Addr /\ fs[i].value \in Nat
           /\ fs[i].logs \in Seq(EventRec)
  <2>1. Len(fs) \in Nat /\ \A i \in 1..Len(fs) : fs[i] \in FrameRec
    BY LenProperties, ElementOfSeq
  <2>. QED  BY <2>1 DEF FrameRec
<1>l. \A i \in 1..Len(fs) : /\ Len(fs[i].logs) \in Nat
                            /\ DOMAIN fs[i].logs = 1..Len(fs[i].logs)
                            /\ \A l \in DOMAIN fs[i].logs : fs[i].logs[l] \in EventRec
  BY <1>1, LenProperties, ElementOfSeq
<1>. DEFINE F == {n \in Nat : n <= Len(fs) => IsFiniteSet(Booked(fs, n))}
<1>2. 0 \in F
  <2>1. Booked(fs, 0) = {}
    BY DEF Booked
  <2>. QED  BY <2>1, FS_EmptySet
<1>3. ASSUME NEW n \in F
      PROVE  n + 1 \in F
  <2>1. SUFFICES ASSUME n + 1 <= Len(fs)
                 PROVE  IsFiniteSet(Booked(fs, n + 1))
    OBVIOUS
  <2>2. n \in Nat /\ IsFiniteSet(Booked(fs, n)) /\ n + 1 \in 1..Len(fs)
    BY <1>1, <2>1
  <2>. DEFINE top == {n + 1} \X (0..Len(fs[n + 1].logs))
  <2>3. IsFiniteSet(top)
    <3>1. IsFiniteSet({n + 1})
      BY FS_Singleton, Zenon
    <3>2. IsFiniteSet(0..Len(fs[n + 1].logs))
      <4>. DEFINE l == Len(fs[n + 1].logs)
      <4>1. l \in Int /\ 0 \in Int
        BY <1>l, <2>2
      <4>2. IsFiniteSet(0..l)
        <5>. HIDE DEF l
        <5>. QED  BY <4>1, FS_Interval
      <4>. QED  BY <4>2
    <3>. DEFINE A == {n + 1}
                B == 0..Len(fs[n + 1].logs)
    <3>3. IsFiniteSet(A) /\ IsFiniteSet(B)
      BY <3>1, <3>2
    <3>4. IsFiniteSet(A \X B)
      <4>. HIDE DEF A, B
      <4>. QED  BY <3>3, FS_Product
    <3>. QED  BY <3>4
  <2>4. Booked(fs, n + 1) \in SUBSET (Booked(fs, n) \cup top)
    BY <1>l, <2>2 DEF Booked
  <2>. HIDE DEF top
  <2>. QED  BY <2>2, <2>3, <2>4, FS_Union, FS_Subset
<1>4. F \in SUBSET Nat
  OBVIOUS
<1>5. F = Nat
  <2>. HIDE DEF F
  <2>. QED  BY <1>2, <1>3, <1>4, NumberInduction, Zenon
<1>6. IsFiniteSet(Booked(fs, k))
  BY <1>1, <1>5
<1>7. ASSUME NEW p \in Booked(fs, k)
      PROVE  Entry(fs, p) \in EventRec
  <2>1. p[1] \in 1..Len(fs)
    BY <1>1 DEF Booked
  <2>2. ValueEvent(fs[p[1]]) \in EventRec
    BY <1>1, <2>1 DEF ValueEvent, Event, EventRec
  <2>3. p[2] # 0 => fs[p[1]].logs[p[2]] \in EventRec
    BY <1>l, <2>1 DEF Booked
  <2>. QED  BY <2>2, <2>3 DEF Entry
<1>. QED  BY <1>6, <1>7

\* The books come to a number.
LEMMA BooksSumType ==
  ASSUME NEW fs \in Seq(FrameRec), NEW k \in 0..Len(fs), NEW w \in Weighing
  PROVE  BookSum(fs, w, k) \in Int
<1>. DEFINE B == Booked(fs, k)
            f == [p \in B |-> w[Entry(fs, p)]]
<1>1. IsFiniteSet(B) /\ \A p \in B : f[p] \in Int
  BY BooksType DEF Weighing
<1>2. SumFunctionOnSet(f, B) \in Int
  <2>. HIDE DEF B, f
  <2>. QED  BY <1>1, SumType
<1>. QED  BY <1>2, Zenon DEF BookSum

\* Frames that carry the same and have emitted the same are booked alike.
LEMMA BooksSame ==
  ASSUME NEW fs, NEW gs, NEW w, NEW k \in Nat,
         \A i \in 1..k : /\ gs[i].from = fs[i].from /\ gs[i].to = fs[i].to
                         /\ gs[i].value = fs[i].value /\ gs[i].logs = fs[i].logs
  PROVE  BookSum(gs, w, k) = BookSum(fs, w, k)
<1>1. Booked(gs, k) = Booked(fs, k)
  BY DEF Booked
<1>2. \A p \in Booked(fs, k) : Entry(gs, p) = Entry(fs, p)
  BY DEF Booked, Entry, ValueEvent
<1>3. [p \in Booked(gs, k) |-> w[Entry(gs, p)]] = [p \in Booked(fs, k) |-> w[Entry(fs, p)]]
  BY <1>1, <1>2
<1>. QED  BY <1>1, <1>3, Zenon DEF BookSum

\* One more entry.
LEMMA BooksMore ==
  ASSUME NEW fs \in Seq(FrameRec), NEW k \in 0..Len(fs), NEW w \in Weighing,
         NEW gs, NEW n, NEW q,
         q \notin Booked(fs, k), Booked(gs, n) = Booked(fs, k) \cup {q},
         \A p \in Booked(fs, k) : Entry(gs, p) = Entry(fs, p),
         Entry(gs, q) \in EventRec
  PROVE  BookSum(gs, w, n) = BookSum(fs, w, k) + w[Entry(gs, q)]
<1>. DEFINE B == Booked(fs, k)
            f == [p \in B |-> w[Entry(fs, p)]]
            g == [p \in B \cup {q} |-> w[Entry(gs, p)]]
<1>1. IsFiniteSet(B) /\ \A p \in B : f[p] \in Int /\ g[p] = f[p]
  BY BooksType DEF Weighing
<1>2. q \notin B /\ g[q] = w[Entry(gs, q)] /\ g[q] \in Int
  BY DEF Weighing
<1>3. BookSum(fs, w, k) = SumFunctionOnSet(f, B)
  BY Zenon DEF BookSum
<1>4. BookSum(gs, w, n) = SumFunctionOnSet(g, B \cup {q})
  BY Zenon DEF BookSum
<1>. HIDE DEF f, g, B
<1>5. SumFunctionOnSet(g, B) = SumFunctionOnSet(f, B)
  BY <1>1, SumCongruence
<1>6. \A p \in B \cup {q} : g[p] \in Int
  BY <1>1, <1>2
<1>7. SumFunctionOnSet(g, B \cup {q}) = SumFunctionOnSet(g, B) + g[q]
  BY <1>1, <1>2, <1>6, SumWith
<1>. QED  BY <1>2, <1>3, <1>4, <1>5, <1>7

-----------------------------------------------------------------------------
\* A tree that is plain was plain: value and caller stay, and so does a failure.
LEMMA TreeKept ==
  ASSUME frames \in Seq(FrameRec), frames' \in Seq(FrameRec),
         \A i \in DOMAIN frames : /\ i \in DOMAIN frames'
                                  /\ frames'[i].value = frames[i].value
                                  /\ frames'[i].type = frames[i].type
                                  /\ frames'[i].caller = frames[i].caller
                                  /\ frames[i].error => frames'[i].error,
         NEW w, Fits(w)'
  PROVE  Fits(w)
<1>1. ASSUME PlainTree'
      PROVE  PlainTree
  <2>1. DOMAIN frames = 1..Len(frames) /\ Len(frames) \in Nat
    BY LenProperties
  <2>2. SUFFICES ASSUME NEW i \in Walk(frames)
                 PROVE  /\ frames[i].type # "DELEGATECALL"
                        /\ \A j \in DOMAIN frames : j = i \/ i \in InsideOf(j)
                             => ~frames[j].error
    BY DEF PlainTree
  <2>3. i \in Walk(frames') /\ i \in DOMAIN frames
    BY DEF Walk
  <2>4. ASSUME NEW j \in DOMAIN frames, i \in InsideOf(j)
        PROVE  (i \in InsideOf(j))'
    <3>1. i > j /\ \A k \in (j + 1)..i : frames[k].caller >= j
      BY <2>4 DEF InsideOf
    <3>2. \A k \in (j + 1)..i : k \in DOMAIN frames
      BY <2>1, <2>3, <2>4
    <3>. QED  BY <2>3, <3>1, <3>2 DEF InsideOf
  <2>. QED  BY <1>1, <2>3, <2>4 DEF PlainTree
<1>. QED  BY <1>1 DEF Fits

\* A frame that goes on running is balanced at its beginning as long as what was
\* there before it is.
LEMMA BegunBefore ==
  ASSUME EvmInv, Ledger, NEW w \in Weighing, Fits(w), NEW m \in DOMAIN open,
         \A i \in 1..open[m].mark : journal'[i] = journal[i],
         \A i \in 1..(open[m].frame - 1) :
           /\ frames'[i].from = frames[i].from /\ frames'[i].to = frames[i].to
           /\ frames'[i].value = frames[i].value /\ frames'[i].logs = frames[i].logs
  PROVE  JournalSum(journal', w, open[m].mark) = BookSum(frames', w, open[m].frame - 1)
<1>. DEFINE n == open[m].mark
            k == open[m].frame - 1
<1>1. JournalSum(journal, w, n) = BookSum(frames, w, k)
  BY DEF Ledger, Balanced
<1>2. k \in Nat
  BY Shapes DEF EvmInv, StackInv
<1>3. JournalSum(journal', w, n) = JournalSum(journal, w, n)
  BY JournalSame
<1>4. BookSum(frames', w, k) = BookSum(frames, w, k)
  <2>. HIDE DEF n
  <2>. QED  BY <1>2, BooksSame
<1>. QED  BY <1>1, <1>3, <1>4

\* The frames and events that a step adds, the same on both sides.
LEMMA EnteredBooks ==
  ASSUME EvmInv, Ledger, NEW f, NEW moved, Entered(f, moved)
  PROVE  Ledger'
<1>1. /\ frames \in Seq(FrameRec) /\ Len(frames) \in Nat
      /\ DOMAIN frames = 1..Len(frames)
      /\ journal \in Seq(EventRec) /\ Len(journal) \in Nat
      /\ open \in Seq([frame : Nat, self : Addr, mark : Nat])
      /\ Len(open) \in Nat /\ DOMAIN open = 1..Len(open)
  BY Shapes DEF EvmInv
<1>2. /\ frames' = Append(frames, f) /\ frames' \in Seq(FrameRec)
      /\ Len(frames') = Len(frames) + 1 /\ DOMAIN frames' = 1..(Len(frames) + 1)
      /\ \A i \in DOMAIN frames : frames'[i] = frames[i]
      /\ frames'[Len(frames) + 1] = f
      /\ f \in FrameRec /\ DOMAIN f.logs = {}
  BY <1>1, AppendProperties, LenProperties DEF Entered
<1>3. /\ Len(journal') \in Nat /\ Len(journal') >= Len(journal)
      /\ \A i \in 1..Len(journal) : journal'[i] = journal[i]
  <2>1. moved = <<>> \/ moved = <<ValueEvent(f)>>
    BY DEF Entered
  <2>. QED  BY <1>1, <2>1 DEF Entered
<1>4. ASSUME NEW w \in Weighing, Fits(w)'
      PROVE  Fits(w)
  BY <1>1, <1>2, <1>4, TreeKept
<1>5. ASSUME NEW w \in Weighing, Fits(w)'
      PROVE  /\ JournalSum(journal', w, Len(journal)) = JournalSum(journal, w, Len(journal))
             /\ BookSum(frames', w, Len(frames)) = BookSum(frames, w, Len(frames))
             /\ JournalSum(journal, w, Len(journal)) = BookSum(frames, w, Len(frames))
             /\ BookSum(frames, w, Len(frames)) \in Int
  <2>1. JournalSum(journal', w, Len(journal)) = JournalSum(journal, w, Len(journal))
    BY <1>3, JournalSame
  <2>2. BookSum(frames', w, Len(frames)) = BookSum(frames, w, Len(frames))
    <3>1. /\ Len(frames) \in Nat
          /\ \A i \in 1..Len(frames) :
               /\ frames'[i].from = frames[i].from /\ frames'[i].to = frames[i].to
               /\ frames'[i].value = frames[i].value /\ frames'[i].logs = frames[i].logs
      BY <1>1, <1>2
    <3>. QED  BY <3>1, BooksSame
  <2>3. JournalSum(journal, w, Len(journal)) = BookSum(frames, w, Len(frames))
    BY <1>4, <1>5 DEF Ledger, Balanced
  <2>. QED  BY <1>1, <2>1, <2>2, <2>3, BooksSumType
<1>6. ASSUME NEW w \in Weighing, Fits(w)'
      PROVE  JournalSum(journal', w, Len(journal')) = BookSum(frames', w, Len(frames'))
  <2>. DEFINE n == Len(frames)
              q == <<n + 1, 0>>
  <2>1. CASE moved = <<>> /\ f.value = 0
    <3>1. journal' = journal
      BY <1>1, <2>1, ConcatEmptySeq DEF Entered
    <3>2. Booked(frames', n + 1) = Booked(frames', n)
      BY <1>1, <1>2, <2>1 DEF Booked
    <3>3. BookSum(frames', w, n + 1) = BookSum(frames', w, n)
      BY <3>2, Zenon DEF BookSum
    <3>. QED  BY <1>2, <1>5, <1>6, <3>1, <3>3
  <2>2. ASSUME f.value # 0
        PROVE  /\ q \notin Booked(frames, n)
               /\ Booked(frames', n + 1) = Booked(frames, n) \cup {q}
               /\ \A p \in Booked(frames, n) : Entry(frames', p) = Entry(frames, p)
               /\ Entry(frames', q) = ValueEvent(f) /\ ValueEvent(f) \in EventRec
    <3>1. f.value > 0 /\ ValueEvent(f) \in EventRec
      BY <1>2, <2>2 DEF FrameRec, ValueEvent, Event, EventRec
    <3>2. Booked(frames', n + 1) = Booked(frames, n) \cup {q}
      BY <1>1, <1>2, <3>1 DEF Booked
    <3>3. q \notin Booked(frames, n)
      BY <1>1 DEF Booked
    <3>4. \A p \in Booked(frames, n) : Entry(frames', p) = Entry(frames, p)
      BY <1>1, <1>2 DEF Booked, Entry
    <3>5. Entry(frames', q) = ValueEvent(f)
      BY <1>2 DEF Entry
    <3>. QED  BY <3>1, <3>2, <3>3, <3>4, <3>5
  <2>3. ASSUME f.value # 0
        PROVE  BookSum(frames', w, n + 1) = BookSum(frames, w, n) + w[ValueEvent(f)]
    <3>. DEFINE n1 == n + 1
    <3>1. n \in 0..Len(frames)
      BY <1>1
    <3>2. /\ q \notin Booked(frames, n)
          /\ Booked(frames', n1) = Booked(frames, n) \cup {q}
          /\ \A p \in Booked(frames, n) : Entry(frames', p) = Entry(frames, p)
          /\ Entry(frames', q) = ValueEvent(f) /\ Entry(frames', q) \in EventRec
      BY <2>2, <2>3
    <3>3. BookSum(frames', w, n1) = BookSum(frames, w, n) + w[Entry(frames', q)]
      <4>. HIDE DEF q, n1
      <4>. QED  BY <1>1, <1>6, <3>1, <3>2, BooksMore
    <3>. QED  BY <3>2, <3>3
  <2>4. CASE moved = <<>> /\ f.value # 0 /\ f.type = "DELEGATECALL"
    <3>1. ~PlainTree'
      <4>1. n + 1 \in DOMAIN frames' /\ f.value > 0
        BY <1>1, <1>2, <2>4 DEF FrameRec
      <4>. QED  BY <1>2, <2>4, <4>1 DEF PlainTree, Walk
    <3>2. w[ValueEvent(f)] = 0
      BY <1>6, <2>2, <2>4, <3>1 DEF Fits, ValueEvent, Event
    <3>3. journal' = journal
      BY <1>1, <2>4, ConcatEmptySeq DEF Entered
    <3>. QED  BY <1>2, <1>5, <1>6, <2>3, <2>4, <3>2, <3>3
  <2>5. CASE moved = <<ValueEvent(f)>> /\ f.value > 0
    <3>1. f.value # 0 /\ ValueEvent(f) \in EventRec
      BY <1>2, <2>2, <2>5 DEF FrameRec
    <3>2. journal' = Append(journal, ValueEvent(f)) /\ Len(journal') = Len(journal) + 1
      BY <1>1, <2>5, <3>1 DEF Entered
    <3>3. JournalSum(journal', w, Len(journal) + 1)
            = JournalSum(journal, w, Len(journal)) + w[ValueEvent(f)]
      BY <1>1, <3>1, <3>2, JournalMore
    <3>. QED  BY <1>2, <1>5, <1>6, <2>3, <3>1, <3>2, <3>3
  <2>. QED  BY <2>1, <2>4, <2>5 DEF Entered
<1>7. ASSUME NEW w \in Weighing, Fits(w)', NEW m \in DOMAIN open'
      PROVE  JournalSum(journal', w, open'[m].mark) = BookSum(frames', w, open'[m].frame - 1)
  <2>1. CASE m \in DOMAIN open /\ open'[m] = open[m]
    <3>1. /\ \A i \in 1..open[m].mark : i \in 1..Len(journal)
          /\ \A i \in 1..(open[m].frame - 1) : i \in DOMAIN frames
      BY <1>1, <2>1, Shapes DEF EvmInv, StackInv
    <3>2. /\ \A i \in 1..open[m].mark : journal'[i] = journal[i]
          /\ \A i \in 1..(open[m].frame - 1) :
               /\ frames'[i].from = frames[i].from /\ frames'[i].to = frames[i].to
               /\ frames'[i].value = frames[i].value /\ frames'[i].logs = frames[i].logs
      BY <1>2, <1>3, <3>1
    <3>. QED  BY <1>4, <1>7, <2>1, <3>2, BegunBefore
  <2>2. CASE \E self \in Addr : open'[m] = Running(self)
    <3>1. open'[m].mark = Len(journal) /\ open'[m].frame - 1 = Len(frames)
      BY <1>1, <2>2 DEF Running
    <3>. QED  BY <1>5, <1>7, <3>1
  <2>3. CASE \E self \in Addr : open' = Append(open, Running(self))
    BY <1>1, <2>1, <2>2, <2>3
  <2>4. CASE open # <<>> /\ open' = Front(open)
    BY <1>1, <2>1, <2>4, Top
  <2>. QED  BY <2>3, <2>4 DEF Entered
<1>. QED  BY <1>6, <1>7 DEF Ledger, Balanced

\* An event of the frame that runs: one entry more, one log more.
LEMMA EmittedBooks ==
  ASSUME EvmInv, Ledger, NEW e \in EventRec, Emitted(e)
  PROVE  Ledger'
<1>. DEFINE c == Current
<1>1. /\ frames \in Seq(FrameRec) /\ Len(frames) \in Nat
      /\ DOMAIN frames = 1..Len(frames)
      /\ journal \in Seq(EventRec) /\ Len(journal) \in Nat
      /\ c \in DOMAIN frames /\ \A m \in DOMAIN open : open[m].frame <= c
  BY Shapes, Uppermost DEF EvmInv, Emitted
<1>2. /\ open' = open /\ journal' = Append(journal, e)
      /\ frames' = [frames EXCEPT ![c] =
                      [frames[c] EXCEPT !.logs = Append(frames[c].logs, e)]]
  BY DEF Emitted, Emit
<1>3. frames[c] \in FrameRec /\ frames[c].logs \in Seq(EventRec)
  <2>1. frames[c] \in FrameRec
    BY <1>1, ElementOfSeq
  <2>. QED  BY <2>1 DEF FrameRec
<1>. DEFINE g == [frames[c] EXCEPT !.logs = Append(frames[c].logs, e)]
<1>. HIDE DEF c
<1>4. /\ frames'[c] = g /\ DOMAIN frames' = DOMAIN frames
      /\ \A i \in DOMAIN frames : i # c => frames'[i] = frames[i]
  <2>1. frames' = [frames EXCEPT ![c] = g] /\ frames \in [1..Len(frames) -> FrameRec]
    BY <1>1, <1>2, LenProperties, ElementOfSeq
  <2>. HIDE DEF g
  <2>. QED  BY <1>1, <2>1
<1>5. /\ frames' \in Seq(FrameRec) /\ Len(frames') = Len(frames)
      /\ \A i \in DOMAIN frames :
           /\ frames'[i].value = frames[i].value /\ frames'[i].type = frames[i].type
           /\ frames'[i].caller = frames[i].caller /\ frames'[i].error = frames[i].error
           /\ frames'[i].from = frames[i].from /\ frames'[i].to = frames[i].to
  <2>4. frames' \in Seq(FrameRec) /\ Len(frames') = Len(frames)
    <3>1. frames' \in Seq(FrameRec)
      BY EmittedKeeps DEF Emitted, EvmInv, EvmTypeOK
    <3>. QED  BY <1>1, <1>4, <3>1, LenProperties
  <2>5. \A i \in DOMAIN frames :
           /\ frames'[i].value = frames[i].value /\ frames'[i].type = frames[i].type
           /\ frames'[i].caller = frames[i].caller /\ frames'[i].error = frames[i].error
           /\ frames'[i].from = frames[i].from /\ frames'[i].to = frames[i].to
    BY <1>3, <1>4 DEF FrameRec
  <2>. QED  BY <2>4, <2>5
<1>6. ASSUME NEW w \in Weighing, Fits(w)'
      PROVE  Fits(w)
  BY <1>1, <1>4, <1>5, <1>6, TreeKept
<1>7. ASSUME NEW w \in Weighing, Fits(w)'
      PROVE  JournalSum(journal', w, Len(journal')) = BookSum(frames', w, Len(frames'))
  <2>. DEFINE q == <<c, Len(frames[c].logs) + 1>>
  <2>1. /\ Len(frames[c].logs) \in Nat
        /\ DOMAIN frames[c].logs = 1..Len(frames[c].logs)
        /\ DOMAIN frames'[c].logs = 1..(Len(frames[c].logs) + 1)
        /\ \A l \in DOMAIN frames[c].logs : frames'[c].logs[l] = frames[c].logs[l]
        /\ frames'[c].logs[Len(frames[c].logs) + 1] = e
    <3>1. frames'[c].logs = Append(frames[c].logs, e)
      BY <1>3, <1>4 DEF FrameRec
    <3>. QED  BY <1>3, <3>1, AppendProperties, LenProperties
  <2>2. q \notin Booked(frames, Len(frames))
    BY <2>1 DEF Booked
  <2>3. Booked(frames', Len(frames)) = Booked(frames, Len(frames)) \cup {q}
    <3>1. q \in (1..Len(frames)) \X Nat /\ q[1] = c /\ q[2] = Len(frames[c].logs) + 1
      BY <1>1, <2>1
    <3>2. ASSUME NEW p \in (1..Len(frames)) \X Nat
          PROVE  p \in Booked(frames', Len(frames))
                   <=> p \in Booked(frames, Len(frames)) \/ p = q
      <4>1. p[1] \in 1..Len(frames) /\ p[2] \in Nat /\ p = <<p[1], p[2]>>
        OBVIOUS
      <4>2. CASE p[1] = c
        BY <1>1, <1>5, <2>1, <3>1, <4>1, <4>2 DEF Booked
      <4>3. CASE p[1] # c
        BY <1>1, <1>4, <3>1, <4>1, <4>3 DEF Booked
      <4>. QED  BY <4>2, <4>3
    <3>. QED  BY <3>1, <3>2 DEF Booked
  <2>4. ASSUME NEW p \in Booked(frames, Len(frames))
        PROVE  Entry(frames', p) = Entry(frames, p)
    <3>1. p[1] \in DOMAIN frames /\ (p[2] # 0 => p[2] \in DOMAIN frames[p[1]].logs)
      BY <1>1 DEF Booked
    <3>2. ValueEvent(frames'[p[1]]) = ValueEvent(frames[p[1]])
      BY <1>5, <3>1 DEF ValueEvent
    <3>3. p[2] # 0 => frames'[p[1]].logs[p[2]] = frames[p[1]].logs[p[2]]
      BY <1>4, <2>1, <3>1
    <3>. QED  BY <3>2, <3>3 DEF Entry
  <2>5. Entry(frames', q) = e
    BY <2>1 DEF Entry
  <2>6. BookSum(frames', w, Len(frames)) = BookSum(frames, w, Len(frames)) + w[e]
    <3>1. Len(frames) \in 0..Len(frames) /\ Entry(frames', q) \in EventRec
      BY <1>1, <2>5
    <3>2. BookSum(frames', w, Len(frames))
            = BookSum(frames, w, Len(frames)) + w[Entry(frames', q)]
      BY ONLY <1>1, <1>7, <2>2, <2>3, <2>4, <3>1, BooksMore
    <3>. QED  BY <2>5, <3>2
  <2>7. JournalSum(journal', w, Len(journal) + 1)
          = JournalSum(journal, w, Len(journal)) + w[e]
    BY <1>1, <1>2, <1>7, JournalMore
  <2>8. JournalSum(journal, w, Len(journal)) = BookSum(frames, w, Len(frames))
    BY <1>6, <1>7 DEF Ledger, Balanced
  <2>9. Len(journal') = Len(journal) + 1
    BY <1>1, <1>2, AppendProperties
  <2>. QED  BY <1>5, <2>6, <2>7, <2>8, <2>9
<1>8. ASSUME NEW w \in Weighing, Fits(w)', NEW m \in DOMAIN open'
      PROVE  JournalSum(journal', w, open'[m].mark) = BookSum(frames', w, open'[m].frame - 1)
  <2>1. /\ m \in DOMAIN open /\ open'[m] = open[m] /\ open[m].frame <= c
        /\ open[m].mark <= Len(journal) /\ open[m].mark \in Nat
        /\ open[m].frame \in DOMAIN frames
    BY <1>1, <1>2, Shapes DEF EvmInv, StackInv
  <2>2. /\ \A i \in 1..open[m].mark : journal'[i] = journal[i]
        /\ \A i \in 1..(open[m].frame - 1) :
             /\ frames'[i].from = frames[i].from /\ frames'[i].to = frames[i].to
             /\ frames'[i].value = frames[i].value /\ frames'[i].logs = frames[i].logs
    <3>1. \A i \in 1..open[m].mark : i \in 1..Len(journal)
      BY <1>1, <2>1
    <3>2. \A i \in 1..(open[m].frame - 1) : i \in DOMAIN frames /\ i # c
      BY <1>1, <2>1
    <3>. QED  BY <1>1, <1>2, <1>4, <1>5, <3>1, <3>2, AppendProperties
  <2>. QED  BY <1>6, <1>8, <2>1, <2>2, BegunBefore
<1>. QED  BY <1>7, <1>8 DEF Ledger, Balanced

\* A return adds nothing.
LEMMA ReturnBooks ==
  ASSUME EvmInv, Ledger, Return
  PROVE  Ledger'
<1>1. /\ frames' = frames /\ journal' = journal
      /\ \A m \in DOMAIN open' : m \in DOMAIN open /\ open'[m] = open[m]
  BY Shapes, Top DEF EvmInv, Return, Leave
<1>2. ASSUME NEW w, Fits(w)'
      PROVE  Fits(w)
  BY <1>1, <1>2 DEF Fits, PlainTree, InsideOf
<1>. QED  BY <1>1, <1>2 DEF Ledger, Balanced

\* What the frame that fails and those inside it have carried stays in the books,
\* but a tree that is plain has none of it: under a weighing that fits, the books
\* are back where they were at its beginning, as the journal is.
LEMMA RevertedSum ==
  ASSUME EvmInv, NestInv, Runs, Revert, NEW w \in Weighing, Fits(w)'
  PROVE  BookSum(frames', w, Len(frames)) = BookSum(frames', w, Current - 1)
<1>c. PICK c : c = Current
  OBVIOUS
<1>. DEFINE n == Len(frames)
            All == Booked(frames', n)
            Left == Booked(frames', c - 1)
            f == [p \in All |-> w[Entry(frames', p)]]
<1>1. /\ n \in Nat /\ DOMAIN frames = 1..n /\ c \in 1..n
      /\ \A k \in DOMAIN frames : k > c => frames[k].caller >= c
  <2>1. c \in DOMAIN frames /\ Len(open) \in DOMAIN open /\ c = open[Len(open)].frame
    BY <1>c, Uppermost DEF Runs
  <2>. QED  BY <2>1, Shapes DEF EvmInv, NestInv
<1>2. /\ frames' \in Seq(FrameRec) /\ DOMAIN frames' = 1..n /\ Len(frames') = n
      /\ \A k \in 1..n : ~(k < c) => DOMAIN frames'[k].logs = {}
      /\ \A k \in 1..n : frames'[k].caller = frames[k].caller
      /\ frames'[c].error
  BY <1>c, <1>1, RevertedFrames, LenProperties
<1>3. IsFiniteSet(All) /\ \A p \in All : f[p] \in Int
  <2>1. n \in 0..Len(frames')
    BY <1>1, <1>2
  <2>2. IsFiniteSet(All) /\ \A p \in All : Entry(frames', p) \in EventRec
    BY ONLY <1>2, <2>1, BooksType
  <2>. QED  BY <2>2 DEF Weighing
<1>4. Left \in SUBSET All
  BY <1>1 DEF Booked
<1>5. ASSUME NEW p \in All \ Left
      PROVE  f[p] = 0
  <2>1. p[1] \in 1..n /\ ~(p[1] < c) /\ p \in (1..n) \X Nat
    <3>1. p \in (1..n) \X Nat /\ p[1] \in 1..n /\ p[2] \in Nat /\ p = <<p[1], p[2]>>
      BY DEF Booked
    <3>. QED  BY <1>1, <3>1 DEF Booked
  <2>2. p[2] = 0 /\ frames'[p[1]].value > 0
    <3>1. DOMAIN frames'[p[1]].logs = {}
      BY <1>2, <2>1
    <3>. QED  BY <2>1, <3>1 DEF Booked
  <2>3. ~PlainTree'
    <3>1. p[1] \in Walk(frames') /\ c \in DOMAIN frames'
      BY <1>1, <1>2, <2>1, <2>2 DEF Walk
    <3>2. p[1] # c => p[1] > c /\ \A k \in (c + 1)..p[1] : frames'[k].caller >= c
      <4>1. \A k \in (c + 1)..p[1] : k \in 1..n /\ k > c
        BY <1>1, <2>1
      <4>. QED  BY <1>1, <1>2, <2>1, <4>1
    <3>3. p[1] = c \/ (p[1] \in InsideOf(c))'
      BY <1>2, <2>1, <3>2 DEF InsideOf
    <3>. QED  BY <1>2, <3>1, <3>3 DEF PlainTree
  <2>4. Entry(frames', p) \in EventRec /\ Entry(frames', p).kind = "native"
    <3>1. n \in 0..Len(frames')
      BY <1>1, <1>2
    <3>2. Entry(frames', p) \in EventRec
      BY ONLY <1>2, <1>5, <3>1, BooksType
    <3>. QED  BY <2>2, <3>2 DEF Entry, ValueEvent, Event
  <2>. QED  BY <1>5, <2>3, <2>4 DEF Fits
<1>6. SumFunctionOnSet(f, Left) = SumFunctionOnSet(f, All)
  <2>. HIDE DEF f, Left, All
  <2>. QED  BY <1>3, <1>4, <1>5, SumWithoutZeros
<1>7. SumFunctionOnSet([p \in Left |-> w[Entry(frames', p)]], Left)
        = SumFunctionOnSet(f, Left)
  <2>. DEFINE g == [p \in Left |-> w[Entry(frames', p)]]
  <2>1. \A p \in Left : f[p] \in Int /\ g[p] = f[p]
    BY <1>3, <1>4
  <2>2. IsFiniteSet(Left)
    BY <1>3, <1>4, FS_Subset
  <2>3. SumFunctionOnSet(g, Left) = SumFunctionOnSet(f, Left)
    <3>. HIDE DEF f, g, Left, All
    <3>. QED  BY <2>1, <2>2, SumCongruence
  <2>. QED  BY <2>3
<1>8. BookSum(frames', w, n) = SumFunctionOnSet(f, All)
  BY Zenon DEF BookSum
<1>9. BookSum(frames', w, c - 1)
        = SumFunctionOnSet([p \in Left |-> w[Entry(frames', p)]], Left)
  BY Zenon DEF BookSum
<1>. QED  BY <1>c, <1>6, <1>7, <1>8, <1>9

\* A failure takes from the books what it takes from the journal.
LEMMA RevertedBooks ==
  ASSUME EvmInv, NestInv, Ledger, Runs, Revert
  PROVE  Ledger'
<1>. DEFINE top == Len(open)
<1>1. /\ frames \in Seq(FrameRec) /\ Len(frames) \in Nat
      /\ DOMAIN frames = 1..Len(frames)
      /\ journal \in Seq(EventRec) /\ Len(journal) \in Nat
      /\ open # <<>> /\ top \in Nat
  BY Shapes DEF EvmInv, Runs
<1>2. /\ top \in DOMAIN open /\ Current = open[top].frame
      /\ Last(open).mark = open[top].mark /\ open[top].mark \in 0..Len(journal)
      /\ Current \in DOMAIN frames
  BY Uppermost DEF Runs
<1>3. /\ journal' = SubSeq(journal, 1, open[top].mark)
      /\ Len(journal') = open[top].mark
      /\ \A i \in 1..open[top].mark : journal'[i] = journal[i]
  <2>1. journal' = SubSeq(journal, 1, open[top].mark)
    BY <1>2 DEF Revert
  <2>. QED  BY <1>1, <1>2, <2>1, Prefix
<1>4. /\ frames' \in Seq(FrameRec) /\ DOMAIN frames' = DOMAIN frames
      /\ \A k \in DOMAIN frames :
           /\ k < Current => frames'[k] = frames[k]
           /\ frames'[k].caller = frames[k].caller /\ frames'[k].type = frames[k].type
           /\ frames'[k].value = frames[k].value
           /\ frames[k].error => frames'[k].error
      /\ Len(frames') = Len(frames)
  BY <1>1, RevertedFrames, LenProperties
<1>5. ASSUME NEW w \in Weighing, Fits(w)'
      PROVE  Fits(w)
  BY <1>1, <1>4, <1>5, TreeKept
<1>6. ASSUME NEW w \in Weighing, Fits(w)', NEW m \in DOMAIN open
      PROVE  JournalSum(journal', w, open[m].mark) = BookSum(frames', w, open[m].frame - 1)
  <2>1. /\ open[m].mark \in Nat /\ open[m].mark <= open[top].mark
        /\ open[m].frame \in DOMAIN frames /\ open[m].frame <= Current
    <3>1. m = top \/ m \in 1..(top - 1)
      BY <1>1, Shapes DEF EvmInv
    <3>2. \A k \in 1..(top - 1) : /\ open[k].frame < open[top].frame
                                  /\ open[k].mark <= open[top].mark
      BY <1>2 DEF EvmInv, StackInv
    <3>3. open[m].mark \in Nat /\ open[m].frame \in Nat /\ open[m].frame \in DOMAIN frames
      BY Shapes DEF EvmInv, StackInv
    <3>4. open[top].frame \in Nat /\ open[top].mark \in Nat
      BY <1>2, Shapes DEF EvmInv
    <3>. QED  BY <1>2, <3>1, <3>2, <3>3, <3>4
  <2>2. /\ \A i \in 1..open[m].mark : i \in 1..open[top].mark
        /\ \A i \in 1..(open[m].frame - 1) : i \in DOMAIN frames /\ i < Current
    BY <1>1, <1>2, <2>1
  <2>3. /\ \A i \in 1..open[m].mark : journal'[i] = journal[i]
        /\ \A i \in 1..(open[m].frame - 1) :
             /\ frames'[i].from = frames[i].from /\ frames'[i].to = frames[i].to
             /\ frames'[i].value = frames[i].value /\ frames'[i].logs = frames[i].logs
    BY <1>3, <1>4, <2>2
  <2>. QED  BY <1>5, <1>6, <2>3, BegunBefore
<1>7. ASSUME NEW w \in Weighing, Fits(w)'
      PROVE  JournalSum(journal', w, Len(journal')) = BookSum(frames', w, Len(frames'))
  BY <1>2, <1>3, <1>4, <1>6, <1>7, RevertedSum
<1>8. \A m \in DOMAIN open' : m \in DOMAIN open /\ open'[m] = open[m]
  BY <1>1, Shapes, Top DEF EvmInv, Revert, Leave
<1>. QED  BY <1>6, <1>7, <1>8 DEF Ledger, Balanced

-----------------------------------------------------------------------------
\* The frames that run are around those entered since, whatever a step does.
LEMMA NestKept ==
  ASSUME EvmInv, NestInv, Execute
  PROVE  NestInv'
<1>1. /\ Len(frames) \in Nat /\ DOMAIN frames = 1..Len(frames)
      /\ frames \in Seq(FrameRec) /\ Len(open) \in Nat /\ DOMAIN open = 1..Len(open)
      /\ \A m \in DOMAIN open : open[m].frame \in DOMAIN frames
  BY Shapes DEF EvmInv, StackInv
<1>2. ASSUME NEW f, NEW moved, Entered(f, moved)
      PROVE  NestInv'
  <2>1. /\ DOMAIN frames' = 1..(Len(frames) + 1)
        /\ \A k \in DOMAIN frames : frames'[k] = frames[k]
        /\ frames'[Len(frames) + 1] = f
    BY <1>1, <1>2, AppendProperties, LenProperties DEF Entered
  <2>2. ASSUME NEW m \in DOMAIN open', NEW k \in DOMAIN frames', k > open'[m].frame
        PROVE  frames'[k].caller >= open'[m].frame
    <3>1. CASE m \in DOMAIN open /\ open'[m] = open[m]
      <4>1. f.caller = Current /\ open[m].frame <= Current
        BY <1>1, <1>2, <3>1, Uppermost DEF Entered
      <4>2. CASE k = Len(frames) + 1
        <5>1. Current \in Nat /\ open[m].frame \in Nat
          BY <1>1, <3>1, Uppermost
        <5>. QED  BY <2>1, <3>1, <4>1, <4>2, <5>1
      <4>3. CASE k \in DOMAIN frames
        BY <2>1, <2>2, <3>1, <4>3 DEF NestInv
      <4>. QED  BY <1>1, <2>1, <4>2, <4>3
    <3>2. CASE \E self \in Addr : open'[m] = Running(self)
      BY <1>1, <2>1, <2>2, <3>2 DEF Running
    <3>3. CASE \E self \in Addr : open' = Append(open, Running(self))
      <4>1. open \in Seq([frame : Nat, self : Addr, mark : Nat])
        BY Shapes DEF EvmInv
      <4>. QED  BY <1>1, <3>1, <3>2, <3>3, <4>1
    <3>4. CASE open # <<>> /\ open' = Front(open)
      <4>1. open \in Seq([frame : Nat, self : Addr, mark : Nat])
        BY Shapes DEF EvmInv
      <4>. QED  BY <1>1, <3>1, <3>4, <4>1, Top
    <3>. QED  BY <1>2, <3>3, <3>4 DEF Entered
  <2>. QED  BY <2>2 DEF NestInv
<1>3. ASSUME NEW e \in EventRec, Emitted(e)
      PROVE  NestInv'
  <2>1. open' = open /\ Current \in DOMAIN frames
        /\ frames' = [frames EXCEPT ![Current] =
                [frames[Current] EXCEPT !.logs = Append(frames[Current].logs, e)]]
    BY <1>3, Uppermost DEF Emitted, Emit
  <2>2. frames[Current] \in FrameRec
    BY <1>1, <2>1, ElementOfSeq
  <2>3. \A k \in DOMAIN frames : frames'[k].caller = frames[k].caller
    <3>. DEFINE c == Current
                g == [frames[c] EXCEPT !.logs = Append(frames[c].logs, e)]
    <3>1. g.caller = frames[c].caller
      BY <2>2 DEF FrameRec
    <3>2. frames' = [frames EXCEPT ![c] = g]
      BY <2>1
    <3>. HIDE DEF c, g
    <3>. QED  BY <3>1, <3>2
  <2>. QED  BY <2>1, <2>3 DEF NestInv
<1>4. ASSUME Return
      PROVE  NestInv'
  <2>1. \A m \in DOMAIN open' : m \in DOMAIN open /\ open'[m] = open[m]
    BY <1>4, Shapes, Top DEF EvmInv, Return, Leave
  <2>. QED  BY <1>4, <2>1 DEF Return, NestInv
<1>5. ASSUME Runs, Revert
      PROVE  NestInv'
  <2>1. \A m \in DOMAIN open' : m \in DOMAIN open /\ open'[m] = open[m]
    BY <1>5, Shapes, Top DEF EvmInv, Runs, Revert, Leave
  <2>. QED  BY <1>5, <2>1, RevertedFrames DEF NestInv
<1>. QED  BY <1>2, <1>3, <1>4, <1>5, ExecuteSteps

\* No step gives an NFT an amount.
LEMMA NftKept ==
  ASSUME EvmInv, NftInv, Execute
  PROVE  NftInv'
<1>1. journal \in Seq(EventRec) /\ Len(journal) \in Nat /\ DOMAIN journal = 1..Len(journal)
  BY Shapes DEF EvmInv
<1>2. ASSUME NEW f, NEW moved, Entered(f, moved)
      PROVE  NftInv'
  <2>1. moved = <<>> \/ moved = <<ValueEvent(f)>>
    BY <1>2 DEF Entered
  <2>2. journal' = journal \/ journal' = Append(journal, ValueEvent(f))
    <3>1. journal' = journal \o moved
      BY <1>2 DEF Entered
    <3>2. CASE moved = <<>>
      BY <1>1, <3>1, <3>2, ConcatEmptySeq
    <3>3. CASE moved = <<ValueEvent(f)>>
      <4>1. ValueEvent(f) \in EventRec
        BY <1>2 DEF Entered, FrameRec, ValueEvent, Event, EventRec
      <4>2. journal' = journal \o <<ValueEvent(f)>>
        BY <3>1, <3>3
      <4>. QED  BY <1>1, <4>1, <4>2, AppendIsConcat
    <3>. QED  BY <2>1, <3>2, <3>3
  <2>3. ValueEvent(f).kind = "native"
    BY DEF ValueEvent, Event
  <2>4. \A i \in DOMAIN Append(journal, ValueEvent(f)) :
          \/ i \in DOMAIN journal /\ Append(journal, ValueEvent(f))[i] = journal[i]
          \/ Append(journal, ValueEvent(f))[i] = ValueEvent(f)
    BY <1>1
  <2>. QED  BY <2>2, <2>3, <2>4 DEF NftInv
<1>3. ASSUME NEW e \in EventRec, Emitted(e)
      PROVE  NftInv'
  <2>1. journal' = Append(journal, e) /\ (e.kind = "nft" => e.amount = 0)
    BY <1>3 DEF Emitted, Emit
  <2>2. \A i \in DOMAIN journal' : \/ i \in DOMAIN journal /\ journal'[i] = journal[i]
                                   \/ journal'[i] = e
    BY <1>1, <2>1
  <2>. QED  BY <2>1, <2>2 DEF NftInv
<1>4. ASSUME Return
      PROVE  NftInv'
  BY <1>4 DEF Return, NftInv
<1>5. ASSUME Runs, Revert
      PROVE  NftInv'
  <2>1. /\ journal' = SubSeq(journal, 1, Last(open).mark)
        /\ Last(open).mark \in 0..Len(journal)
    BY <1>5, Uppermost DEF Runs, Revert
  <2>2. \A i \in DOMAIN journal' : i \in DOMAIN journal /\ journal'[i] = journal[i]
    BY <1>1, <2>1, Prefix, LenProperties
  <2>. QED  BY <2>2 DEF NftInv
<1>. QED  BY <1>2, <1>3, <1>4, <1>5, ExecuteSteps

\* The books balance at the beginning and after every step.
LEMMA BooksInvIsInductive ==
  /\ Init => BooksInv
  /\ RunInv /\ BooksInv /\ [Next]_vars => BooksInv'
<1>1. ASSUME Init
      PROVE  BooksInv
  <2>1. frames = <<>> /\ open = <<>> /\ journal = <<>> /\ raw = None
    BY <1>1 DEF Init, EvmInit
  <2>2. ASSUME NEW w \in Weighing
        PROVE  Balanced(w, Len(journal), Len(frames))
    <3>1. JournalSum(journal, w, 0) = 0
      <4>1. 1..0 = {}
        OBVIOUS
      <4>. QED  BY <4>1, SumOfNone, Zenon DEF JournalSum
    <3>2. BookSum(frames, w, 0) = 0
      <4>1. Booked(frames, 0) = {}
        BY DEF Booked
      <4>. QED  BY <4>1, SumOfNone, Zenon DEF BookSum
    <3>. QED  BY <2>1, <3>1, <3>2 DEF Balanced
  <2>. QED  BY <2>1, <2>2 DEF BooksInv, NestInv, NftInv, Ledger, LogsTold
<1>2. ASSUME RunInv, BooksInv, raw = None, Execute, UNCHANGED <<raw, result>>
      PROVE  BooksInv'
  <2>1. EvmInv /\ NestInv /\ NftInv /\ Ledger
    BY <1>2 DEF RunInv, BooksInv
  <2>2. Ledger'
    BY <1>2, <2>1, ExecuteSteps, EnteredBooks, EmittedBooks, ReturnBooks, RevertedBooks
  <2>3. LogsTold'
    BY <1>2 DEF LogsTold
  <2>. QED  BY <1>2, <2>1, <2>2, <2>3, NestKept, NftKept DEF BooksInv
<1>3. ASSUME BooksInv, frames' = frames, open' = open, journal' = journal
      PROVE  NestInv' /\ NftInv' /\ Ledger'
  <2>1. \A w : Fits(w)' => Fits(w)
    BY <1>3 DEF Fits, PlainTree, InsideOf
  <2>. QED  BY <1>3, <2>1 DEF BooksInv, NestInv, NftInv, Ledger, Balanced
<1>4. ASSUME BooksInv, NEW tracing \in Tracing, NEW alchemy \in BOOLEAN,
             Run(tracing, alchemy)
      PROVE  BooksInv'
  <2>1. frames' = frames /\ open' = open /\ journal' = journal
    BY <1>4 DEF Run, evmVars
  <2>2. raw'.logs \in {<<>>, CollectLogs(frames)}
    BY <1>4 DEF Run, Simulated, TraceCall
  <2>3. LogsTold'
    BY <2>1, <2>2 DEF LogsTold
  <2>. QED  BY <1>3, <1>4, <2>1, <2>3 DEF BooksInv
<1>5. ASSUME BooksInv, UNCHANGED vars
      PROVE  BooksInv'
  <2>1. frames' = frames /\ open' = open /\ journal' = journal /\ raw' = raw
    BY <1>5 DEF vars, evmVars
  <2>2. LogsTold'
    BY <1>5, <2>1 DEF BooksInv, LogsTold
  <2>. QED  BY <1>3, <1>5, <2>1, <2>2 DEF BooksInv
<1>. QED  BY <1>1, <1>2, <1>4, <1>5 DEF Next

\* Whatever an execution does, fails at and takes back: under every weighing of
\* events, the value and the events that its tree shows weigh what its journal
\* does (tracer.go:35-77, token_decoder.go:160-200).
THEOREM BooksBalance == Spec => []BooksInv
<1>1. Init => BooksInv
  BY BooksInvIsInductive
<1>2. RunInv /\ BooksInv /\ [Next]_vars => BooksInv'
  BY BooksInvIsInductive
<1>. QED  BY <1>1, <1>2, RunCorrect, PTL DEF Spec

-----------------------------------------------------------------------------
(***************************************************************************)
(* What an answer shows, as the books under a weighing.                    *)
(***************************************************************************)
\* How much an event changes a balance of a, or what a may spend by approvals.
NetWeight(kind, contract, a) ==
  [e \in EventRec |->
     IF e.kind = kind /\ (kind = "native" \/ e.contract = contract) THEN Net(e, a) ELSE 0]

ApprovalWeight(coin, a) ==
  [e \in EventRec |->
     IF e.kind = "approve" /\ e.contract = coin /\ e.to = a THEN e.amount ELSE 0]

\* They are weighings, and say nothing of value unless they are about it.
LEMMA Weighings ==
  ASSUME NEW kind, NEW contract, NEW coin, NEW a
  PROVE  /\ NetWeight(kind, contract, a) \in Weighing
         /\ ApprovalWeight(coin, a) \in Weighing
         /\ kind # "native" => Fits(NetWeight(kind, contract, a))
         /\ PlainTree => Fits(NetWeight(kind, contract, a))
         /\ Fits(ApprovalWeight(coin, a))
<1>1. \A e \in EventRec : e.amount \in Int /\ Net(e, a) \in Int
  BY DEF EventRec, Net
<1>2. NetWeight(kind, contract, a) \in Weighing
  BY <1>1 DEF NetWeight, Weighing
<1>3. ApprovalWeight(coin, a) \in Weighing
  BY <1>1 DEF ApprovalWeight, Weighing
<1>4. kind # "native" =>
        \A e \in EventRec : e.kind = "native" => NetWeight(kind, contract, a)[e] = 0
  BY DEF NetWeight
<1>5. \A e \in EventRec : e.kind = "native" => ApprovalWeight(coin, a)[e] = 0
  BY DEF ApprovalWeight
<1>. QED  BY <1>2, <1>3, <1>4, <1>5 DEF Fits

\* A sum over those events of the journal that weigh anything.
LEMMA JournalSelected ==
  ASSUME EvmInv, NEW w \in Weighing, NEW T \in SUBSET DOMAIN journal,
         \A i \in DOMAIN journal \ T : w[journal[i]] = 0,
         NEW e, \A i \in T : e[i] = w[journal[i]]
  PROVE  SumFunctionOnSet(e, T) = JournalSum(journal, w, Len(journal))
<1>. DEFINE n == Len(journal)
            D == 1..n
            f == [i \in D |-> w[journal[i]]]
<1>1. n \in Nat /\ DOMAIN journal = 1..n /\ \A i \in 1..n : journal[i] \in EventRec
  BY Shapes DEF EvmInv
<1>2. IsFiniteSet(D)
  <2>1. n \in Int /\ 1 \in Int
    BY <1>1
  <2>2. IsFiniteSet(1..n)
    <3>. HIDE DEF n
    <3>. QED  BY <2>1, FS_Interval
  <2>. QED  BY <2>2
<1>3. /\ \A i \in D : f[i] \in Int
      /\ T \in SUBSET D
      /\ \A i \in D \ T : f[i] = 0
      /\ \A i \in T : e[i] = f[i]
  BY <1>1 DEF Weighing
<1>4. SumFunctionOnSet(e, T) = SumFunctionOnSet(f, D)
  <2>. HIDE DEF f, D
  <2>. QED  BY <1>2, <1>3, SumSelected
<1>. QED  BY <1>4, Zenon DEF JournalSum

\* A sum over those entries of the books that weigh anything.
LEMMA BooksSelected ==
  ASSUME EvmInv, NEW w \in Weighing, NEW T \in SUBSET Booked(frames, Len(frames)),
         \A p \in Booked(frames, Len(frames)) \ T : w[Entry(frames, p)] = 0,
         NEW e, \A p \in T : e[p] = w[Entry(frames, p)]
  PROVE  SumFunctionOnSet(e, T) = BookSum(frames, w, Len(frames))
<1>. DEFINE B == Booked(frames, Len(frames))
            f == [p \in B |-> w[Entry(frames, p)]]
<1>1. frames \in Seq(FrameRec) /\ Len(frames) \in 0..Len(frames)
  BY Shapes DEF EvmInv
<1>2. IsFiniteSet(B) /\ \A p \in B : Entry(frames, p) \in EventRec
  BY <1>1, BooksType
<1>3. /\ \A p \in B : f[p] \in Int
      /\ \A p \in B \ T : f[p] = 0
      /\ \A p \in T : e[p] = f[p]
  BY <1>2 DEF Weighing
<1>4. T \in SUBSET B
  OBVIOUS
<1>5. SumFunctionOnSet(e, T) = SumFunctionOnSet(f, B)
  <2>. HIDE DEF f, B
  <2>. QED  BY <1>2, <1>3, <1>4, SumSelected
<1>. QED  BY <1>5, Zenon DEF BookSum

\* The balances that the journal comes to.
LEMMA NetIsWeighed ==
  ASSUME EvmInv, NEW kind, NEW contract, NEW a
  PROVE  NetOf(kind, contract, a)
           = JournalSum(journal, NetWeight(kind, contract, a), Len(journal))
<1>. DEFINE w == NetWeight(kind, contract, a)
            of == {i \in Happened(kind) : kind = "native" \/ journal[i].contract = contract}
            e == [i \in of |-> Net(journal[i], a)]
<1>1. w \in Weighing
  BY Weighings
<1>2. \A i \in DOMAIN journal : journal[i] \in EventRec
  BY Shapes DEF EvmInv
<1>3. /\ of \in SUBSET DOMAIN journal
      /\ \A i \in DOMAIN journal \ of : w[journal[i]] = 0
      /\ \A i \in of : e[i] = w[journal[i]]
  BY <1>2 DEF Happened, NetWeight
<1>4. SumFunctionOnSet(e, of) = JournalSum(journal, w, Len(journal))
  <2>. HIDE DEF w, of, e
  <2>. QED  BY <1>1, <1>3, JournalSelected
<1>. QED  BY <1>4 DEF NetOf

-----------------------------------------------------------------------------
\* The value of the frames that the walk finds, as the books have it.
LEMMA WalkIsBooked ==
  ASSUME EvmInv, NEW a
  PROVE  /\ Delta(frames, Walk(frames), [i \in DOMAIN frames |-> frames[i].value], a)
              = BookSum(frames, NetWeight("native", NoToken, a), Len(frames))
         /\ Delta(frames, Walk(frames), [i \in DOMAIN frames |-> frames[i].value], a) \in Int
<1>. DEFINE w == NetWeight("native", NoToken, a)
            W == Walk(frames)
            B == Booked(frames, Len(frames))
            v == [i \in DOMAIN frames |-> frames[i].value]
            f == [i \in W |-> (IF frames[i].to = a THEN v[i] ELSE 0)
                                - (IF frames[i].from = a THEN v[i] ELSE 0)]
            b == [i \in W |-> <<i, 0>>]
            T == {b[i] : i \in W}
            e == [p \in T |-> w[Entry(frames, p)]]
<1>1. /\ DOMAIN frames = 1..Len(frames) /\ Len(frames) \in Nat
      /\ \A i \in DOMAIN frames : frames[i] \in FrameRec
  BY Shapes DEF EvmInv
<1>2. W \in SUBSET DOMAIN frames /\ \A i \in W : frames[i].value > 0
  BY DEF Walk
<1>3. IsFiniteSet(W)
  <2>1. IsFiniteSet(1..Len(frames))
    BY <1>1, FS_Interval
  <2>. QED  BY <1>1, <1>2, <2>1, FS_Subset
<1>4. T \in SUBSET B
  BY <1>1, <1>2 DEF Booked
<1>5. w \in Weighing
  BY Weighings
<1>6. ASSUME NEW i \in W
      PROVE  w[Entry(frames, b[i])] = f[i] /\ f[i] \in Int
  <2>1. Entry(frames, b[i]) = ValueEvent(frames[i])
    BY DEF Entry
  <2>2. /\ ValueEvent(frames[i]) \in EventRec
        /\ ValueEvent(frames[i]).kind = "native"
        /\ ValueEvent(frames[i]).from = frames[i].from
        /\ ValueEvent(frames[i]).to = frames[i].to
        /\ ValueEvent(frames[i]).amount = frames[i].value
        /\ frames[i].value \in Nat
    BY <1>1, <1>2 DEF FrameRec, ValueEvent, Event, EventRec
  <2>3. w[ValueEvent(frames[i])] = f[i]
    BY <1>2, <2>2 DEF NetWeight, Net
  <2>. QED  BY <1>2, <2>1, <2>2, <2>3
<1>7. ASSUME NEW p \in B \ T
      PROVE  w[Entry(frames, p)] = 0
  <2>1. /\ p[1] \in DOMAIN frames /\ p = <<p[1], p[2]>>
        /\ IF p[2] = 0 THEN frames[p[1]].value > 0 ELSE p[2] \in DOMAIN frames[p[1]].logs
    BY <1>1 DEF Booked
  <2>2. p[2] # 0
    <3>1. ASSUME p[2] = 0
          PROVE  FALSE
      <4>1. p[1] \in W /\ p = b[p[1]]
        BY <2>1, <3>1 DEF Walk
      <4>. QED  BY <4>1
    <3>. QED  BY <3>1
  <2>3. Entry(frames, p).kind # "native"
    BY <2>1, <2>2 DEF Entry, EvmInv, LogsAreJournal
  <2>4. Entry(frames, p) \in EventRec
    <3>1. frames \in Seq(FrameRec) /\ Len(frames) \in 0..Len(frames)
      BY Shapes DEF EvmInv
    <3>. QED  BY <3>1, BooksType
  <2>. QED  BY <2>3, <2>4 DEF NetWeight
<1>8. SumFunctionOnSet(e, T) = BookSum(frames, w, Len(frames))
  <2>1. \A p \in T : e[p] = w[Entry(frames, p)]
    OBVIOUS
  <2>. HIDE DEF e, T, w
  <2>. QED  BY <1>4, <1>5, <1>7, <2>1, BooksSelected
<1>9. SumFunctionOnSet(e, T) = SumFunctionOnSet(f, W)
  <2>1. \A i \in W : f[i] \in Int /\ e[b[i]] = f[i]
    BY <1>6
  <2>2. \A i, j \in W : b[i] = b[j] => i = j
    OBVIOUS
  <2>. HIDE DEF e, f, b, W
  <2>. QED  BY <1>3, <2>1, <2>2, SumReindexed
<1>10. SumFunctionOnSet(f, W) \in Int
  <2>1. \A i \in W : f[i] \in Int
    BY <1>6
  <2>. HIDE DEF f, W
  <2>. QED  BY <1>3, <2>1, SumType
<1>11. Delta(frames, W, v, a) = SumFunctionOnSet(f, W)
  BY Zenon DEF Delta
<1>. QED  BY <1>8, <1>9, <1>10, <1>11

\* What the walk finds for a.
WalkDelta(a) ==
  Delta(frames, Walk(frames), [i \in DOMAIN frames |-> frames[i].value], a)

\* An address that no value goes to or comes from gets and loses nothing.
LEMMA NoPartyNoDelta ==
  ASSUME EvmInv, NEW a, a \notin Parties(frames, Walk(frames))
  PROVE  WalkDelta(a) = 0
<1>. DEFINE W == Walk(frames)
            v == [i \in DOMAIN frames |-> frames[i].value]
            f == [i \in W |-> (IF frames[i].to = a THEN v[i] ELSE 0)
                                - (IF frames[i].from = a THEN v[i] ELSE 0)]
<1>1. \A i \in W : frames[i].to # a /\ frames[i].from # a
  BY DEF Parties
<1>2. \A i \in W : f[i] = 0
  BY <1>1
<1>3. IsFiniteSet(W)
  <2>1. DOMAIN frames = 1..Len(frames) /\ Len(frames) \in Nat
    BY Shapes DEF EvmInv
  <2>2. IsFiniteSet(1..Len(frames))
    BY <2>1, FS_Interval
  <2>3. W \in SUBSET (1..Len(frames))
    BY <2>1 DEF Walk
  <2>. QED  BY <2>2, <2>3, FS_Subset
<1>4. SumFunctionOnSet(f, W) = 0
  <2>. HIDE DEF f, W
  <2>. QED  BY <1>2, <1>3, SumOfZeros
<1>5. Delta(frames, W, v, a) = SumFunctionOnSet(f, W)
  BY Zenon DEF Delta
<1>. QED  BY <1>4, <1>5 DEF WalkDelta

\* With a call tree, an answer shows for each address one native change, of what
\* the walk finds, or none where that is nothing.
LEMMA TraceShows ==
  ASSUME RunInv, Answered, FromTrace, NEW a
  PROVE  /\ ShownOf("native", NoToken, a) = WalkDelta(a)
         /\ WalkDelta(a) # 0 =>
              \E c \in result.changes :
                c.type = "native" /\ c.address = a /\ c.raw = WalkDelta(a)
<1>. DEFINE change(p) == AssetChange("native", p, NoToken, 0, WalkDelta(p),
                                     FormatAmount(WalkDelta(p), NativeDecimals), <<>>)
            of == {c \in result.changes :
                     c.type = "native" /\ c.token = NoToken /\ c.address = a}
            raws == [c \in of |-> c.raw]
<1>1. EvmInv
  BY DEF RunInv
<1>2. result.changes = Decode(raw.logs, frames)
  BY Answers DEF FromTrace, FromAlchemy, AssetChangesOf, ToldOK
<1>3. WalkDelta(a) \in Int
  BY <1>1, WalkIsBooked DEF WalkDelta
<1>4. ExtractNativeChanges(frames)
        = {change(p) : p \in {q \in Parties(frames, Walk(frames)) : WalkDelta(q) # 0}}
  BY DEF ExtractNativeChanges, WalkDelta
<1>5. of = {change(p) : p \in {q \in Parties(frames, Walk(frames)) :
                                 WalkDelta(q) # 0 /\ q = a}}
  <2>1. \A c \in ApprovalChanges(raw.logs) \cup TokenChanges(raw.logs) : c.type = "erc20"
    BY DEF ApprovalChanges, TokenChanges, AssetChange
  <2>2. of = {c \in ExtractNativeChanges(frames) :
                c.type = "native" /\ c.token = NoToken /\ c.address = a}
    BY <1>2, <2>1 DEF Decode
  <2>3. \A p : change(p).type = "native" /\ change(p).token = NoToken
                 /\ change(p).address = p
    BY DEF AssetChange
  <2>. HIDE DEF change, of
  <2>. QED  BY <1>4, <2>2, <2>3
<1>6. CASE WalkDelta(a) # 0
  <2>1. a \in Parties(frames, Walk(frames))
    BY <1>1, <1>6, NoPartyNoDelta
  <2>2. of = {change(a)} /\ change(a) \in of
    <3>. HIDE DEF change, of
    <3>. QED  BY <1>5, <1>6, <2>1
  <2>3. change(a).raw = WalkDelta(a) /\ change(a).type = "native" /\ change(a).address = a
    BY DEF AssetChange
  <2>4. raws[change(a)] = WalkDelta(a)
    BY <2>2, <2>3
  <2>5. SumFunctionOnSet(raws, {change(a)}) = WalkDelta(a)
    <3>. HIDE DEF raws, change
    <3>. QED  BY <1>3, <2>4, SumOfOne
  <2>6. SumFunctionOnSet(raws, of) = SumFunctionOnSet(raws, {change(a)})
    BY <2>2, Zenon
  <2>7. ShownOf("native", NoToken, a) = WalkDelta(a)
    BY <2>5, <2>6 DEF ShownOf
  <2>. QED  BY <2>2, <2>3, <2>7
<1>7. CASE WalkDelta(a) = 0
  <2>1. of = {}
    <3>. HIDE DEF change, of
    <3>. QED  BY <1>5, <1>7
  <2>2. SumFunctionOnSet(raws, of) = SumFunctionOnSet(raws, {})
    BY <2>1, Zenon
  <2>3. SumFunctionOnSet(raws, {}) = 0
    BY SumOfNone
  <2>. QED  BY <1>7, <2>2, <2>3 DEF ShownOf
<1>. QED  BY <1>6, <1>7

\* What the walk of a plain tree finds is what the balances gain and lose.
LEMMA WalkIsNet ==
  ASSUME EvmInv, BooksInv, PlainTree, NEW a
  PROVE  WalkDelta(a) = NetOf("native", NoToken, a)
<1>. DEFINE w == NetWeight("native", NoToken, a)
<1>1. w \in Weighing /\ Fits(w)
  BY Weighings
<1>2. JournalSum(journal, w, Len(journal)) = BookSum(frames, w, Len(frames))
  BY <1>1 DEF BooksInv, Ledger, Balanced
<1>3. WalkDelta(a) = BookSum(frames, w, Len(frames))
  BY WalkIsBooked DEF WalkDelta
<1>4. NetOf("native", NoToken, a) = JournalSum(journal, w, Len(journal))
  BY NetIsWeighed
<1>. QED  BY <1>2, <1>3, <1>4

\* A sender who loses the threshold or more, in however many frames, is warned
\* where the changes come from a plain call tree (risk_analyzer.go:138-164).
THEOREM HighLossFlagged == Spec => []HighLossIsFlagged
<1>1. ASSUME RunInv, BooksInv, Answered, FromTrace, PlainTree,
             -NetOf("native", NoToken, Sender) >= HighNativeThreshold
      PROVE  Flagged("HIGH_NATIVE_TRANSFER", Sender)
  <2>1. EvmInv
    BY <1>1 DEF RunInv
  <2>2. WalkDelta(Sender) = NetOf("native", NoToken, Sender) /\ WalkDelta(Sender) \in Int
    BY <1>1, <2>1, WalkIsNet, WalkIsBooked DEF WalkDelta
  <2>3. -WalkDelta(Sender) >= HighNativeThreshold /\ WalkDelta(Sender) # 0
    BY <1>1, <2>2, RiskAssumption
  <2>4. PICK c \in result.changes : /\ c.type = "native" /\ c.address = Sender
                                    /\ c.raw = WalkDelta(Sender)
    BY <1>1, <2>3, TraceShows
  <2>5. Flag("HIGH_NATIVE_TRANSFER", "warning", Sender)
          \in CheckHighNativeTransfer(Sender, result.changes)
    BY <2>3, <2>4 DEF CheckHighNativeTransfer
  <2>6. result.flags = Analyze(Sender, raw, result.changes)
    BY <1>1, Answers
  <2>7. Flag("HIGH_NATIVE_TRANSFER", "warning", Sender) \in result.flags
    BY <2>5, <2>6 DEF Analyze
  <2>. QED  BY <2>7 DEF Flagged, Flag
<1>2. RunInv /\ BooksInv => HighLossIsFlagged
  BY <1>1 DEF HighLossIsFlagged
<1>. QED  BY <1>2, RunCorrect, BooksBalance, PTL

-----------------------------------------------------------------------------
\* Two changes for each of some events, one for who gives and one for who gets, and
\* those that are about a.
TwoSides(K, gave, got) ==
  \A i \in K : /\ gave[i].at = <<i, 1>> /\ gave[i].raw = -journal[i].amount
               /\ got[i].at = <<i, 2>> /\ got[i].raw = journal[i].amount

SidesOf(K, gave, got, a) ==
  {gave[i] : i \in {j \in K : journal[j].from = a}}
    \cup {got[i] : i \in {j \in K : journal[j].to = a}}

RawSum(changes) == SumFunctionOnSet([c \in changes |-> c.raw], changes)

NetSum(K, a) == SumFunctionOnSet([i \in K |-> Net(journal[i], a)], K)

\* They come to what the balance of a gains or loses.
LEMMA SidesSum ==
  ASSUME EvmInv, NEW K \in SUBSET DOMAIN journal, NEW gave, NEW got,
         TwoSides(K, gave, got), NEW a
  PROVE  RawSum(SidesOf(K, gave, got, a)) = NetSum(K, a)
<1>s. \A i \in K : /\ gave[i].at = <<i, 1>> /\ gave[i].raw = -journal[i].amount
                   /\ got[i].at = <<i, 2>> /\ got[i].raw = journal[i].amount
  BY DEF TwoSides
<1>. DEFINE of == SidesOf(K, gave, got, a)
            G == {j \in K : journal[j].from = a}
            H == {j \in K : journal[j].to = a}
            A == {gave[i] : i \in G}
            B == {got[i] : i \in H}
            raws == [c \in of |-> c.raw]
            fG == [i \in K |-> IF journal[i].from = a THEN -journal[i].amount ELSE 0]
            fH == [i \in K |-> IF journal[i].to = a THEN journal[i].amount ELSE 0]
            net == [i \in K |-> Net(journal[i], a)]
<1>1. /\ DOMAIN journal = 1..Len(journal) /\ Len(journal) \in Nat
      /\ \A i \in DOMAIN journal : journal[i] \in EventRec
  BY Shapes DEF EvmInv
<1>2. IsFiniteSet(K) /\ IsFiniteSet(G) /\ IsFiniteSet(H)
  <2>1. IsFiniteSet(1..Len(journal))
    BY <1>1, FS_Interval
  <2>. QED  BY <1>1, <2>1, FS_Subset
<1>3. \A i \in K : journal[i].amount \in Nat /\ -journal[i].amount \in Int
  BY <1>1 DEF EventRec
<1>4. SumFunctionOnSet(raws, A) = SumFunctionOnSet(fG, K)
  <2>1. \A i \in G : fG[i] \in Int /\ raws[gave[i]] = fG[i]
    BY <1>s, <1>3 DEF SidesOf
  <2>2. \A i, j \in G : gave[i] = gave[j] => i = j
    <3>1. ASSUME NEW i \in G, NEW j \in G, gave[i] = gave[j]
          PROVE  i = j
      <4>1. <<i, 1>> = <<j, 1>>
        BY <1>s, <3>1
      <4>. QED  BY <4>1
    <3>. QED  BY <3>1
  <2>3. SumFunctionOnSet(raws, A) = SumFunctionOnSet(fG, G)
    <3>. HIDE DEF raws, fG, G
    <3>. QED  BY ONLY <1>2, <2>1, <2>2, SumReindexed
  <2>4. /\ \A i \in K : fG[i] \in Int
        /\ G \in SUBSET K /\ \A i \in K \ G : fG[i] = 0
    BY <1>3
  <2>5. SumFunctionOnSet(fG, G) = SumFunctionOnSet(fG, K)
    <3>. HIDE DEF fG, G
    <3>. QED  BY <1>2, <2>4, SumWithoutZeros
  <2>. QED  BY <2>3, <2>5
<1>5. SumFunctionOnSet(raws, B) = SumFunctionOnSet(fH, K)
  <2>1. \A i \in H : fH[i] \in Int /\ raws[got[i]] = fH[i]
    BY <1>s, <1>3 DEF SidesOf
  <2>2. \A i, j \in H : got[i] = got[j] => i = j
    <3>1. ASSUME NEW i \in H, NEW j \in H, got[i] = got[j]
          PROVE  i = j
      <4>1. <<i, 2>> = <<j, 2>>
        BY <1>s, <3>1
      <4>. QED  BY <4>1
    <3>. QED  BY <3>1
  <2>3. SumFunctionOnSet(raws, B) = SumFunctionOnSet(fH, H)
    <3>. HIDE DEF raws, fH, H
    <3>. QED  BY ONLY <1>2, <2>1, <2>2, SumReindexed
  <2>4. /\ \A i \in K : fH[i] \in Int
        /\ H \in SUBSET K /\ \A i \in K \ H : fH[i] = 0
    BY <1>3
  <2>5. SumFunctionOnSet(fH, H) = SumFunctionOnSet(fH, K)
    <3>. HIDE DEF fH, H
    <3>. QED  BY <1>2, <2>4, SumWithoutZeros
  <2>. QED  BY <2>3, <2>5
<1>6. A \cap B = {}
  <2>1. ASSUME NEW i \in G, NEW j \in H, gave[i] = got[j]
        PROVE  FALSE
    <3>1. <<i, 1>> = <<j, 2>>
      BY <1>s, <2>1
    <3>. QED  BY <3>1
  <2>. QED  BY <2>1
<1>7. IsFiniteSet(A) /\ IsFiniteSet(B)
  <2>. HIDE DEF G, H
  <2>. QED  BY <1>2, FiniteImage
<1>8. of = A \cup B /\ \A c \in A \cup B : raws[c] \in Int
  BY <1>s, <1>3 DEF SidesOf
<1>9. SumFunctionOnSet(raws, A \cup B)
        = SumFunctionOnSet(raws, A) + SumFunctionOnSet(raws, B)
  <2>. HIDE DEF raws, A, B
  <2>. QED  BY <1>6, <1>7, <1>8, SumOfUnion
<1>10. SumFunctionOnSet(net, K) = SumFunctionOnSet(fH, K) + SumFunctionOnSet(fG, K)
  <2>1. \A i \in K : fH[i] \in Int /\ fG[i] \in Int /\ net[i] = fH[i] + fG[i]
    BY <1>3 DEF Net
  <2>. HIDE DEF net, fH, fG
  <2>. QED  BY <1>2, <2>1, SumOfSums
<1>11. SumFunctionOnSet(fH, K) \in Int /\ SumFunctionOnSet(fG, K) \in Int
  <2>1. \A i \in K : fH[i] \in Int /\ fG[i] \in Int
    BY <1>3
  <2>. HIDE DEF fH, fG
  <2>. QED  BY <1>2, <2>1, SumType
<1>12. SumFunctionOnSet(raws, of) = SumFunctionOnSet(raws, A \cup B)
  <2>. HIDE DEF raws
  <2>. QED  BY <1>8, Zenon
<1>. QED  BY <1>4, <1>5, <1>9, <1>10, <1>11, <1>12 DEF RawSum, NetSum

\* The changes of Alchemy's item for an event.
ItemChanges(i) == ConvertAlchemyChange(AlchemyItem(journal[i]), i)

Gave(i, type, token, decimals, unit) ==
  AssetChange(type, journal[i].from, token, decimals, -journal[i].amount,
              NormaliseHumanAmount(Negated(HumanOf(journal[i].amount, unit))), <<i, 1>>)

Got(i, type, token, decimals, unit) ==
  AssetChange(type, journal[i].to, token, decimals, journal[i].amount,
              NormaliseHumanAmount(HumanOf(journal[i].amount, unit)), <<i, 2>>)

NativeGave == [i \in DOMAIN journal |-> Gave(i, "native", NoToken, 0, NativeDecimals)]
NativeGot  == [i \in DOMAIN journal |-> Got(i, "native", NoToken, 0, NativeDecimals)]

CoinGave ==
  [i \in DOMAIN journal |->
     Gave(i, "erc20", journal[i].contract, CoinUnit, CoinDecimals)]

CoinGot ==
  [i \in DOMAIN journal |->
     Got(i, "erc20", journal[i].contract, CoinUnit, CoinDecimals)]

\* They have two sides, except for an NFT.
LEMMA ItemSides ==
  ASSUME NEW i \in DOMAIN journal
  PROVE  /\ journal[i].kind = "native" =>
              ItemChanges(i) = {NativeGave[i], NativeGot[i]}
         /\ journal[i].kind \in {"transfer", "approve"} =>
              ItemChanges(i) = {CoinGave[i], CoinGot[i]}
         /\ journal[i].kind = "nft" => \A c \in ItemChanges(i) : c.type = "erc721"
<1>. DEFINE e == journal[i]
<1>1. ASSUME e.kind = "native"
      PROVE  ItemChanges(i) = {NativeGave[i], NativeGot[i]}
  <2>1. AlchemyItem(e) = Item("NATIVE", e, NativeDecimals)
    BY <1>1 DEF AlchemyItem
  <2>2. ItemChanges(i) = BothSides(Item("NATIVE", e, NativeDecimals), "native", NoToken, 0, i)
    BY <2>1 DEF ItemChanges, ConvertAlchemyChange, Item
  <2>. QED  BY <2>2 DEF BothSides, Item, NativeGave, NativeGot, Gave, Got
<1>2. ASSUME e.kind \in {"transfer", "approve"}
      PROVE  ItemChanges(i) = {CoinGave[i], CoinGot[i]}
  <2>1. AlchemyItem(e) = Item("ERC20", e, CoinDecimals)
    BY <1>2 DEF AlchemyItem
  <2>2. ItemChanges(i) = BothSides(Item("ERC20", e, CoinDecimals), "erc20",
                                   e.contract, CoinUnit, i)
    BY <2>1 DEF ItemChanges, ConvertAlchemyChange, Item, CoinUnit
  <2>. QED  BY <2>2 DEF BothSides, Item, CoinGave, CoinGot, Gave, Got
<1>3. ASSUME e.kind = "nft", NEW c \in ItemChanges(i)
      PROVE  c.type = "erc721"
  <2>1. AlchemyItem(e) = Item("ERC721", e, 0)
    BY <1>3 DEF AlchemyItem
  <2>. QED  BY <1>3, <2>1 DEF ItemChanges, ConvertAlchemyChange, Item, AssetChange
<1>. QED  BY <1>1, <1>2, <1>3

\* The items K, and no others, are about one asset.
AboutAsset(type, token, K, gave, got) ==
  /\ TwoSides(K, gave, got)
  /\ \A i \in K :
       /\ journal[i].kind # "operator" /\ ItemChanges(i) = {gave[i], got[i]}
       /\ gave[i].type = type /\ gave[i].token = token /\ gave[i].address = journal[i].from
       /\ got[i].type = type /\ got[i].token = token /\ got[i].address = journal[i].to
  /\ \A i \in DOMAIN journal \ K : journal[i].kind # "operator" =>
       \A c \in ItemChanges(i) : ~(c.type = type /\ c.token = token)

\* What Alchemy's list shows of it for a comes to what a gains or loses.
LEMMA ShownBySides ==
  ASSUME EvmInv, result.changes = ConvertAlchemyChanges(AlchemyItems),
         NEW type, NEW token, NEW a, NEW K \in SUBSET DOMAIN journal, NEW gave, NEW got,
         AboutAsset(type, token, K, gave, got)
  PROVE  ShownOf(type, token, a) = NetSum(K, a)
<1>. DEFINE of == {c \in result.changes :
                     c.type = type /\ c.token = token /\ c.address = a}
            listed == {j \in DOMAIN journal : journal[j].kind # "operator"}
            sides == SidesOf(K, gave, got, a)
<1>1. result.changes = UNION {ItemChanges(i) : i \in listed}
  <2>1. /\ DOMAIN AlchemyItems = listed
        /\ \A i \in listed : AlchemyItems[i] = AlchemyItem(journal[i])
    BY DEF AlchemyItems
  <2>2. result.changes
          = UNION {ConvertAlchemyChange(AlchemyItems[i], i) : i \in DOMAIN AlchemyItems}
    BY Zenon DEF ConvertAlchemyChanges
  <2>. HIDE DEF listed
  <2>. QED  BY <2>1, <2>2 DEF ItemChanges
<1>2. of \in SUBSET sides
  <2>1. SUFFICES ASSUME NEW c \in of
                 PROVE  c \in sides
    OBVIOUS
  <2>2. PICK i \in listed : c \in ItemChanges(i)
    BY <1>1
  <2>3. i \in K
    <3>1. i \in DOMAIN journal /\ journal[i].kind # "operator"
          /\ c.type = type /\ c.token = token
      BY <2>2
    <3>. QED  BY <2>2, <3>1 DEF AboutAsset
  <2>4. c = gave[i] \/ c = got[i]
    BY <2>2, <2>3 DEF AboutAsset
  <2>5. CASE c = gave[i]
    BY <2>1, <2>3, <2>5 DEF AboutAsset, SidesOf
  <2>6. CASE c = got[i]
    BY <2>1, <2>3, <2>6 DEF AboutAsset, SidesOf
  <2>. QED  BY <2>4, <2>5, <2>6
<1>3. sides \in SUBSET of
  <2>1. \A i \in K : gave[i] \in result.changes /\ got[i] \in result.changes
    BY <1>1 DEF AboutAsset
  <2>. QED  BY <2>1 DEF AboutAsset, SidesOf
<1>4. of = sides
  BY <1>2, <1>3
<1>5. RawSum(sides) = NetSum(K, a)
  BY SidesSum DEF AboutAsset
<1>6. RawSum(of) = RawSum(sides)
  <2>. HIDE DEF of, sides
  <2>. QED  BY <1>4, Zenon
<1>7. ShownOf(type, token, a) = RawSum(of)
  BY Zenon DEF ShownOf, RawSum
<1>. QED  BY <1>5, <1>6, <1>7

\* Alchemy's list shows what the balances gain and lose of ETH.
LEMMA ListIsNet ==
  ASSUME RunInv, Answered, FromAlchemy, NEW a
  PROVE  ShownOf("native", NoToken, a) = NetOf("native", NoToken, a)
<1>. DEFINE K == Happened("native")
<1>1. EvmInv /\ result.changes = ConvertAlchemyChanges(AlchemyItems)
  BY Answers DEF RunInv, ToldOK, FromAlchemy, AssetChangesOf
<1>2. K \in SUBSET DOMAIN journal
  BY DEF Happened
<1>3. ASSUME NEW i \in K
      PROVE  /\ journal[i].kind = "native" /\ i \in DOMAIN journal
             /\ ItemChanges(i) = {NativeGave[i], NativeGot[i]}
             /\ NativeGave[i] = Gave(i, "native", NoToken, 0, NativeDecimals)
             /\ NativeGot[i] = Got(i, "native", NoToken, 0, NativeDecimals)
  <2>1. journal[i].kind = "native" /\ i \in DOMAIN journal
    BY DEF Happened
  <2>2. ItemChanges(i) = {NativeGave[i], NativeGot[i]}
    BY <2>1, ItemSides
  <2>. QED  BY <2>1, <2>2 DEF NativeGave, NativeGot
<1>4. ASSUME NEW i \in DOMAIN journal \ K, journal[i].kind # "operator",
             NEW c \in ItemChanges(i)
      PROVE  c.type # "native"
  <2>1. /\ journal[i].kind # "native"
        /\ journal[i].kind \in {"transfer", "approve", "nft"}
    <3>1. journal[i] \in EventRec
      BY <1>1, Shapes DEF EvmInv
    <3>. QED  BY <1>4, <3>1 DEF Happened, EventRec
  <2>2. CASE journal[i].kind = "nft"
    BY <2>2, ItemSides
  <2>3. CASE journal[i].kind \in {"transfer", "approve"}
    <3>1. c = CoinGave[i] \/ c = CoinGot[i]
      BY <2>3, ItemSides
    <3>. QED  BY <3>1 DEF CoinGave, CoinGot, Gave, Got, AssetChange
  <2>. QED  BY <2>1, <2>2, <2>3
<1>5. AboutAsset("native", NoToken, K, NativeGave, NativeGot)
  <2>1. ASSUME NEW i \in K
        PROVE  /\ NativeGave[i].type = "native" /\ NativeGave[i].token = NoToken
               /\ NativeGave[i].address = journal[i].from
               /\ NativeGot[i].type = "native" /\ NativeGot[i].token = NoToken
               /\ NativeGot[i].address = journal[i].to
               /\ NativeGave[i].at = <<i, 1>> /\ NativeGave[i].raw = -journal[i].amount
               /\ NativeGot[i].at = <<i, 2>> /\ NativeGot[i].raw = journal[i].amount
    <3>1. /\ NativeGave[i] = Gave(i, "native", NoToken, 0, NativeDecimals)
          /\ NativeGot[i] = Got(i, "native", NoToken, 0, NativeDecimals)
      BY <1>3
    <3>. QED  BY <3>1 DEF Gave, Got, AssetChange
  <2>2. \A i \in K : /\ journal[i].kind # "operator"
                     /\ ItemChanges(i) = {NativeGave[i], NativeGot[i]}
    BY <1>3
  <2>3. \A i \in DOMAIN journal \ K : journal[i].kind # "operator" =>
          \A c \in ItemChanges(i) : ~(c.type = "native" /\ c.token = NoToken)
    BY <1>4
  <2>. HIDE DEF K
  <2>. QED  BY <2>1, <2>2, <2>3 DEF AboutAsset, TwoSides
<1>6. ShownOf("native", NoToken, a) = NetSum(K, a)
  <2>. HIDE DEF K
  <2>. QED  BY <1>1, <1>2, <1>5, ShownBySides
<1>7. {i \in Happened("native") : "native" = "native" \/ journal[i].contract = NoToken} = K
  OBVIOUS
<1>8. NetOf("native", NoToken, a) = NetSum(K, a)
  <2>. HIDE DEF K
  <2>. QED  BY <1>7, Zenon DEF NetOf, NetSum
<1>. QED  BY <1>6, <1>8

\* The native changes of an answer are what the balances gain and lose: with
\* Alchemy's list always, with a call tree if it is plain, for any execution
\* (token_decoder.go:160-200, fork.go:152-166).
THEOREM NativeShownRight == Spec => []NativeIsBalanceChange
<1>1. ASSUME RunInv, BooksInv, Answered, FromAlchemy \/ (FromTrace /\ PlainTree),
             NEW a \in Addr
      PROVE  ShownOf("native", NoToken, a) = NetOf("native", NoToken, a)
  <2>1. CASE FromAlchemy
    BY <1>1, <2>1, ListIsNet
  <2>2. CASE FromTrace /\ PlainTree
    BY <1>1, <2>2, TraceShows, WalkIsNet DEF RunInv
  <2>. QED  BY <1>1, <2>1, <2>2
<1>2. RunInv /\ BooksInv => NativeIsBalanceChange
  BY <1>1 DEF NativeIsBalanceChange, NativeShown
<1>. QED  BY <1>2, RunCorrect, BooksBalance, PTL

-----------------------------------------------------------------------------
\* A coin's transfers and approvals in Alchemy's list.
LEMMA ListIsCoinNet ==
  ASSUME RunInv, Answered, FromAlchemy, NEW coin, NEW a
  PROVE  ShownOf("erc20", coin, a)
           = NetOf("transfer", coin, a) + NetOf("approve", coin, a)
<1>. DEFINE Kt == {i \in Happened("transfer") : journal[i].contract = coin}
            Ka == {i \in Happened("approve") : journal[i].contract = coin}
            K == Kt \cup Ka
            f == [i \in K |-> Net(journal[i], a)]
<1>1. EvmInv /\ result.changes = ConvertAlchemyChanges(AlchemyItems)
  BY Answers DEF RunInv, ToldOK, FromAlchemy, AssetChangesOf
<1>2. /\ K \in SUBSET DOMAIN journal /\ Kt \cap Ka = {}
      /\ DOMAIN journal = 1..Len(journal) /\ Len(journal) \in Nat
      /\ \A i \in DOMAIN journal : journal[i] \in EventRec
  BY <1>1, Shapes DEF EvmInv, Happened
<1>3. ASSUME NEW i \in DOMAIN journal, journal[i].kind \in {"transfer", "approve"}
      PROVE  /\ ItemChanges(i) = {CoinGave[i], CoinGot[i]}
             /\ CoinGave[i].type = "erc20" /\ CoinGave[i].token = journal[i].contract
             /\ CoinGave[i].address = journal[i].from
             /\ CoinGot[i].type = "erc20" /\ CoinGot[i].token = journal[i].contract
             /\ CoinGot[i].address = journal[i].to
             /\ CoinGave[i].at = <<i, 1>> /\ CoinGave[i].raw = -journal[i].amount
             /\ CoinGot[i].at = <<i, 2>> /\ CoinGot[i].raw = journal[i].amount
  <2>1. /\ CoinGave[i] = Gave(i, "erc20", journal[i].contract, CoinUnit, CoinDecimals)
        /\ CoinGot[i] = Got(i, "erc20", journal[i].contract, CoinUnit, CoinDecimals)
    BY DEF CoinGave, CoinGot
  <2>2. ItemChanges(i) = {CoinGave[i], CoinGot[i]}
    BY <1>3, ItemSides
  <2>. QED  BY <2>1, <2>2 DEF Gave, Got, AssetChange
<1>4. ASSUME NEW i \in DOMAIN journal \ K, journal[i].kind # "operator",
             NEW c \in ItemChanges(i)
      PROVE  ~(c.type = "erc20" /\ c.token = coin)
  <2>1. journal[i].kind \in {"native", "transfer", "approve", "nft"}
    BY <1>2, <1>4 DEF EventRec
  <2>2. CASE journal[i].kind = "nft"
    BY <2>2, ItemSides
  <2>3. CASE journal[i].kind \in {"transfer", "approve"}
    <3>1. journal[i].contract # coin
      BY <2>3 DEF Happened
    <3>. QED  BY <1>3, <2>3, <3>1
  <2>4. CASE journal[i].kind = "native"
    <3>1. c = NativeGave[i] \/ c = NativeGot[i]
      BY <2>4, ItemSides
    <3>. QED  BY <3>1 DEF NativeGave, NativeGot, Gave, Got, AssetChange
  <2>. QED  BY <2>1, <2>2, <2>3, <2>4
<1>5. AboutAsset("erc20", coin, K, CoinGave, CoinGot)
  <2>1. \A i \in K : /\ i \in DOMAIN journal /\ journal[i].contract = coin
                     /\ journal[i].kind \in {"transfer", "approve"}
    BY DEF Happened
  <2>2. \A i \in DOMAIN journal \ K : journal[i].kind # "operator" =>
          \A c \in ItemChanges(i) : ~(c.type = "erc20" /\ c.token = coin)
    BY <1>4
  <2>. HIDE DEF K
  <2>. QED  BY <1>3, <2>1, <2>2 DEF AboutAsset, TwoSides
<1>6. ShownOf("erc20", coin, a) = NetSum(K, a)
  <2>. HIDE DEF K
  <2>. QED  BY <1>1, <1>2, <1>5, ShownBySides
<1>7. IsFiniteSet(Kt) /\ IsFiniteSet(Ka)
  <2>1. IsFiniteSet(1..Len(journal))
    BY <1>2, FS_Interval
  <2>. QED  BY <1>2, <2>1, FS_Subset
<1>8. \A i \in K : f[i] \in Int
  <2>. HIDE DEF K
  <2>. QED  BY <1>2 DEF Net, EventRec
<1>9. SumFunctionOnSet(f, Kt \cup Ka) = SumFunctionOnSet(f, Kt) + SumFunctionOnSet(f, Ka)
  <2>. HIDE DEF f, Kt, Ka
  <2>. QED  BY <1>2, <1>7, <1>8, SumOfUnion
<1>10. NetSum(Kt, a) = SumFunctionOnSet(f, Kt)
  <2>. DEFINE g == [i \in Kt |-> Net(journal[i], a)]
  <2>1. \A i \in Kt : f[i] \in Int /\ g[i] = f[i]
    BY <1>8
  <2>2. SumFunctionOnSet(g, Kt) = SumFunctionOnSet(f, Kt)
    <3>. HIDE DEF f, g, Kt
    <3>. QED  BY <1>7, <2>1, SumCongruence
  <2>. QED  BY <2>2, Zenon DEF NetSum
<1>11. NetSum(Ka, a) = SumFunctionOnSet(f, Ka)
  <2>. DEFINE g == [i \in Ka |-> Net(journal[i], a)]
  <2>1. \A i \in Ka : f[i] \in Int /\ g[i] = f[i]
    BY <1>8
  <2>2. SumFunctionOnSet(g, Ka) = SumFunctionOnSet(f, Ka)
    <3>. HIDE DEF f, g, Ka
    <3>. QED  BY <1>7, <2>1, SumCongruence
  <2>. QED  BY <2>2, Zenon DEF NetSum
<1>12. /\ NetOf("transfer", coin, a) = NetSum(Kt, a)
       /\ NetOf("approve", coin, a) = NetSum(Ka, a)
  <2>1. /\ {i \in Happened("transfer") :
              "transfer" = "native" \/ journal[i].contract = coin} = Kt
        /\ {i \in Happened("approve") :
              "approve" = "native" \/ journal[i].contract = coin} = Ka
    OBVIOUS
  <2>. HIDE DEF Kt, Ka
  <2>. QED  BY <2>1, Zenon DEF NetOf, NetSum
<1>13. NetSum(K, a) = SumFunctionOnSet(f, Kt \cup Ka)
  BY Zenon DEF NetSum
<1>. QED  BY <1>6, <1>9, <1>10, <1>11, <1>12, <1>13

\* The places of the logs are the entries of the books that are not about value.
LEMMA PlacesAreBooked ==
  ASSUME EvmInv
  PROVE  /\ Places(frames) \in SUBSET Booked(frames, Len(frames))
         /\ \A p \in Places(frames) :
              /\ CollectLogs(frames)[p] = Entry(frames, p)
              /\ Entry(frames, p) \in EventRec
              /\ \E i \in DOMAIN journal : journal[i] = Entry(frames, p)
              /\ p # <<>>
         /\ \A p \in Booked(frames, Len(frames)) \ Places(frames) :
              Entry(frames, p) \in EventRec /\ Entry(frames, p).kind = "native"
         /\ IsFiniteSet(Places(frames))
<1>. DEFINE B == Booked(frames, Len(frames))
<1>1. /\ DOMAIN frames = 1..Len(frames) /\ Len(frames) \in Nat
      /\ frames \in Seq(FrameRec) /\ Len(frames) \in 0..Len(frames)
      /\ \A k \in DOMAIN frames : frames[k] \in FrameRec
  BY Shapes DEF EvmInv
<1>2. \A k \in DOMAIN frames : /\ DOMAIN frames[k].logs = 1..Len(frames[k].logs)
                               /\ Len(frames[k].logs) \in Nat
  BY <1>1, LenProperties DEF FrameRec
<1>3. IsFiniteSet(B) /\ \A p \in B : Entry(frames, p) \in EventRec
  BY <1>1, BooksType
<1>4. ASSUME NEW p \in Places(frames)
      PROVE  /\ p[1] \in DOMAIN frames /\ p[2] \in DOMAIN frames[p[1]].logs
             /\ p = <<p[1], p[2]>> /\ p[2] # 0 /\ p[2] \in Nat
  <2>1. PICK k \in DOMAIN frames : p \in {k} \X DOMAIN frames[k].logs
    BY DEF Places
  <2>2. p[1] = k /\ p[2] \in DOMAIN frames[k].logs /\ p = <<p[1], p[2]>>
    BY <2>1
  <2>. QED  BY <1>2, <2>2
<1>5. ASSUME NEW p \in B, p[2] # 0
      PROVE  p \in Places(frames)
  <2>1. p[1] \in DOMAIN frames /\ p[2] \in DOMAIN frames[p[1]].logs /\ p = <<p[1], p[2]>>
    BY <1>1, <1>5 DEF Booked
  <2>2. p \in {p[1]} \X DOMAIN frames[p[1]].logs
    BY <2>1
  <2>. QED  BY <2>1, <2>2 DEF Places
<1>6. ASSUME NEW p \in Places(frames)
      PROVE  p \in B
  BY <1>1, <1>4 DEF Booked
<1>7. ASSUME NEW p \in Places(frames)
      PROVE  /\ CollectLogs(frames)[p] = Entry(frames, p)
             /\ Entry(frames, p) \in EventRec
             /\ \E i \in DOMAIN journal : journal[i] = Entry(frames, p)
             /\ p # <<>>
  <2>1. Entry(frames, p) = frames[p[1]].logs[p[2]]
    BY <1>4 DEF Entry
  <2>2. \E i \in DOMAIN journal : journal[i] = frames[p[1]].logs[p[2]]
    BY <1>4 DEF EvmInv, LogsAreJournal
  <2>3. <<p[1], p[2]>> # <<>>
    OBVIOUS
  <2>4. p # <<>>
    BY <1>4, <2>3, Zenon
  <2>. QED  BY <1>3, <1>6, <2>1, <2>2, <2>4 DEF CollectLogs
<1>8. ASSUME NEW p \in B \ Places(frames)
      PROVE  Entry(frames, p) \in EventRec /\ Entry(frames, p).kind = "native"
  <2>1. p[2] = 0
    BY <1>5
  <2>. QED  BY <1>3, <2>1 DEF Entry, ValueEvent, Event
<1>9. Places(frames) \in SUBSET B
  BY <1>6
<1>10. IsFiniteSet(Places(frames))
  <2>. HIDE DEF B
  <2>. QED  BY <1>3, <1>9, FS_Subset
<1>. QED  BY <1>7, <1>8, <1>9, <1>10

\* The logs of a tree: the transfers of a coin, and the approvals of it to a.
Logged        == CollectLogs(frames)
MovesOf(coin) == {p \in TransferLogs(Logged) : Logged[p].contract = coin}
GivenTo(coin, a) ==
  {p \in DOMAIN Logged : Logged[p].kind = "approve" /\ Logged[p].contract = coin
                           /\ Logged[p].to = a}

\* What they move is what the books have; an NFT's Transfer moves nothing.
LEMMA MovesAreBooked ==
  ASSUME EvmInv, NftInv, NEW coin, NEW a
  PROVE  /\ TokenDelta(Logged, a, coin)
              = BookSum(frames, NetWeight("transfer", coin, a), Len(frames))
         /\ TokenDelta(Logged, a, coin) \in Int
         /\ (\A p \in MovesOf(coin) : Logged[p].from # a /\ Logged[p].to # a) =>
              TokenDelta(Logged, a, coin) = 0
<1>. DEFINE w == NetWeight("transfer", coin, a)
            M == MovesOf(coin)
            B == Booked(frames, Len(frames))
            n == [i \in DOMAIN Logged |-> Logged[i].amount]
            f == [i \in M |-> (IF Logged[i].to = a THEN n[i] ELSE 0)
                                - (IF Logged[i].from = a THEN n[i] ELSE 0)]
<1>1. DOMAIN Logged = Places(frames)
  BY DEF Logged, CollectLogs
<1>2. M \in SUBSET Places(frames)
  BY <1>1 DEF MovesOf, TransferLogs
<1>3. w \in Weighing
  BY Weighings
<1>4. ASSUME NEW p \in M
      PROVE  f[p] = w[Entry(frames, p)] /\ f[p] \in Int
  <2>1. p \in Places(frames) /\ p \in DOMAIN Logged /\ Logged[p] = Entry(frames, p)
        /\ Entry(frames, p) \in EventRec
    BY <1>1, <1>2, PlacesAreBooked DEF Logged
  <2>2. Entry(frames, p).kind \in {"transfer", "nft"} /\ Entry(frames, p).contract = coin
    BY <2>1 DEF MovesOf, TransferLogs
  <2>3. Entry(frames, p).amount \in Nat
    BY <2>1 DEF EventRec
  <2>4. Entry(frames, p).kind = "nft" => Entry(frames, p).amount = 0
    <3>1. PICK i \in DOMAIN journal : journal[i] = Entry(frames, p)
      BY <2>1, PlacesAreBooked
    <3>. QED  BY <3>1 DEF NftInv
  <2>5. f[p] = Net(Entry(frames, p), a)
    BY <2>1 DEF Net
  <2>6. w[Entry(frames, p)] = IF Entry(frames, p).kind = "transfer"
                              THEN Net(Entry(frames, p), a) ELSE 0
    BY <2>1, <2>2 DEF NetWeight
  <2>7. Entry(frames, p).kind = "nft" => Net(Entry(frames, p), a) = 0
    BY <2>4 DEF Net
  <2>8. Net(Entry(frames, p), a) \in Int
    BY <2>3 DEF Net
  <2>. HIDE DEF f, w
  <2>. QED  BY <2>2, <2>5, <2>6, <2>7, <2>8
<1>5. ASSUME NEW p \in B \ M
      PROVE  w[Entry(frames, p)] = 0
  <2>1. Entry(frames, p) \in EventRec
    BY PlacesAreBooked
  <2>2. CASE p \in Places(frames)
    <3>1. p \in DOMAIN Logged /\ Logged[p] = Entry(frames, p)
      BY <1>1, <2>2, PlacesAreBooked DEF Logged
    <3>2. ~(Entry(frames, p).kind = "transfer" /\ Entry(frames, p).contract = coin)
      BY <3>1 DEF MovesOf, TransferLogs
    <3>. QED  BY <2>1, <3>2 DEF NetWeight
  <2>3. CASE p \notin Places(frames)
    <3>1. Entry(frames, p).kind = "native"
      BY <2>3, PlacesAreBooked
    <3>. QED  BY <2>1, <3>1 DEF NetWeight
  <2>. QED  BY <2>2, <2>3
<1>6. M \in SUBSET B
  BY <1>2, PlacesAreBooked
<1>7. SumFunctionOnSet(f, M) = BookSum(frames, w, Len(frames))
  <2>1. \A p \in M : f[p] = w[Entry(frames, p)]
    BY <1>4
  <2>. HIDE DEF f, M, w
  <2>. QED  BY <1>3, <1>5, <1>6, <2>1, BooksSelected
<1>8. IsFiniteSet(M) /\ \A p \in M : f[p] \in Int
  BY <1>2, <1>4, PlacesAreBooked, FS_Subset
<1>9. SumFunctionOnSet(f, M) \in Int
  <2>. HIDE DEF f, M
  <2>. QED  BY <1>8, SumType
<1>10. ASSUME \A p \in M : Logged[p].from # a /\ Logged[p].to # a
       PROVE  SumFunctionOnSet(f, M) = 0
  <2>1. \A p \in M : f[p] = 0
    BY <1>10
  <2>. HIDE DEF f, M
  <2>. QED  BY <1>8, <2>1, SumOfZeros
<1>11. TokenDelta(Logged, a, coin) = SumFunctionOnSet(f, M)
  BY Zenon DEF TokenDelta, Delta, MovesOf
<1>. QED  BY <1>7, <1>9, <1>10, <1>11

\* What they approve is what the books have.
LEMMA GivenIsBooked ==
  ASSUME EvmInv, NEW coin, NEW a
  PROVE  LET P == GivenTo(coin, a)
         IN  /\ SumFunctionOnSet([p \in P |-> Logged[p].amount], P)
                  = BookSum(frames, ApprovalWeight(coin, a), Len(frames))
             /\ IsFiniteSet(P) /\ \A p \in P : Logged[p].amount \in Int /\ p # <<>>
<1>. DEFINE w == ApprovalWeight(coin, a)
            P == GivenTo(coin, a)
            B == Booked(frames, Len(frames))
            f == [p \in P |-> Logged[p].amount]
<1>1. DOMAIN Logged = Places(frames)
  BY DEF Logged, CollectLogs
<1>2. P \in SUBSET Places(frames)
  BY <1>1 DEF GivenTo
<1>3. w \in Weighing
  BY Weighings
<1>4. ASSUME NEW p \in P
      PROVE  f[p] = w[Entry(frames, p)] /\ Logged[p].amount \in Int
  <2>1. p \in Places(frames) /\ Logged[p] = Entry(frames, p)
        /\ Entry(frames, p) \in EventRec
    BY <1>2, PlacesAreBooked DEF Logged
  <2>2. Entry(frames, p).kind = "approve" /\ Entry(frames, p).contract = coin
        /\ Entry(frames, p).to = a /\ Entry(frames, p).amount \in Int
    BY <2>1 DEF GivenTo, EventRec
  <2>. QED  BY <2>1, <2>2 DEF ApprovalWeight
<1>5. ASSUME NEW p \in B \ P
      PROVE  w[Entry(frames, p)] = 0
  <2>1. Entry(frames, p) \in EventRec
    BY PlacesAreBooked
  <2>2. CASE p \in Places(frames)
    <3>1. p \in DOMAIN Logged /\ Logged[p] = Entry(frames, p)
      BY <1>1, <2>2, PlacesAreBooked DEF Logged
    <3>2. ~(Entry(frames, p).kind = "approve" /\ Entry(frames, p).contract = coin
              /\ Entry(frames, p).to = a)
      BY <3>1 DEF GivenTo
    <3>. QED  BY <2>1, <3>2 DEF ApprovalWeight
  <2>3. CASE p \notin Places(frames)
    <3>1. Entry(frames, p).kind = "native"
      BY <2>3, PlacesAreBooked
    <3>. QED  BY <2>1, <3>1 DEF ApprovalWeight
  <2>. QED  BY <2>2, <2>3
<1>6. P \in SUBSET B
  BY <1>2, PlacesAreBooked
<1>7. SumFunctionOnSet(f, P) = BookSum(frames, w, Len(frames))
  <2>1. \A p \in P : f[p] = w[Entry(frames, p)]
    BY <1>4
  <2>. HIDE DEF f, P, w
  <2>. QED  BY <1>3, <1>5, <1>6, <2>1, BooksSelected
<1>8. IsFiniteSet(P) /\ \A p \in P : Logged[p].amount \in Int /\ p # <<>>
  BY <1>2, <1>4, PlacesAreBooked, FS_Subset
<1>. QED  BY <1>7, <1>8

\* With logs, an answer shows for a and a coin each approval to a, and one change
\* of what its transfers come to, or none where that is nothing.
LEMMA LogsShow ==
  ASSUME RunInv, BooksInv, Answered, FromLogs, NEW coin, NEW a
  PROVE  LET P == GivenTo(coin, a)
         IN  ShownOf("erc20", coin, a)
               = TokenDelta(Logged, a, coin)
                   + SumFunctionOnSet([p \in P |-> Logged[p].amount], P)
<1>. DEFINE P == GivenTo(coin, a)
            amount == [p \in P |-> Logged[p].amount]
            delta == TokenDelta(Logged, a, coin)
            shown == [i \in DOMAIN Logged |->
                        AssetChange("erc20", Logged[i].to, Logged[i].contract, 0,
                          Logged[i].amount,
                          NormaliseHumanAmount(FormatAmount(Logged[i].amount, 0)), i)]
            A == {shown[p] : p \in P}
            total == AssetChange("erc20", a, coin, CoinUnit, delta,
                                 FormatAmount(delta, CoinUnit), <<>>)
            T == IF delta = 0 THEN {} ELSE {total}
            of == {c \in result.changes :
                     c.type = "erc20" /\ c.token = coin /\ c.address = a}
            raws == [c \in A \cup T |-> c.raw]
<1>1. EvmInv /\ NftInv /\ raw.logs = Logged
  BY DEF RunInv, BooksInv, LogsTold, FromLogs, Logged, Answered, AnswerInv
<1>2. result.changes = Decode(Logged, raw.callTrace)
  BY <1>1, Answers DEF ToldOK, FromAlchemy, AssetChangesOf
<1>3. /\ IsFiniteSet(P) /\ \A p \in P : Logged[p].amount \in Int /\ p # <<>>
      /\ delta \in Int
  BY <1>1, GivenIsBooked, MovesAreBooked
<1>4. {c \in ApprovalChanges(Logged) : c.token = coin /\ c.address = a} = A
  <2>1. ApprovalChanges(Logged)
          = {shown[i] : i \in {j \in DOMAIN Logged : Logged[j].kind = "approve"}}
    BY DEF ApprovalChanges
  <2>2. \A i \in DOMAIN Logged : /\ shown[i].token = Logged[i].contract
                                 /\ shown[i].address = Logged[i].to
    BY DEF AssetChange
  <2>. HIDE DEF shown
  <2>. QED  BY <2>1, <2>2 DEF GivenTo
<1>5. {c \in TokenChanges(Logged) : c.token = coin /\ c.address = a} = T
  <2>. DEFINE moves == TransferLogs(Logged)
              keys == Parties(Logged, moves) \X {Logged[i].contract : i \in moves}
              change(k) == AssetChange("erc20", k[1], k[2], CoinUnit,
                             TokenDelta(Logged, k[1], k[2]),
                             FormatAmount(TokenDelta(Logged, k[1], k[2]), CoinUnit),
                             <<>>)
  <2>1. TokenChanges(Logged)
          = {change(k) : k \in {key \in keys : TokenDelta(Logged, key[1], key[2]) # 0}}
    BY Zenon DEF TokenChanges
  <2>2. \A k : change(k).token = k[2] /\ change(k).address = k[1]
    BY DEF AssetChange
  <2>3. change(<<a, coin>>) = total
    OBVIOUS
  <2>4. delta # 0 => <<a, coin>> \in keys
    <3>1. SUFFICES ASSUME delta # 0
                   PROVE  <<a, coin>> \in keys
      OBVIOUS
    <3>2. PICK p \in MovesOf(coin) : Logged[p].from = a \/ Logged[p].to = a
      BY <1>1, <3>1, MovesAreBooked
    <3>3. p \in moves /\ Logged[p].contract = coin
      BY <3>2 DEF MovesOf
    <3>4. a \in Parties(Logged, moves)
      BY <3>2, <3>3 DEF Parties
    <3>5. coin \in {Logged[i].contract : i \in moves}
      BY <3>3
    <3>. HIDE DEF moves
    <3>. QED  BY <3>4, <3>5
  <2>5. \A k \in keys : k = <<k[1], k[2]>>
    <3>. HIDE DEF moves
    <3>. QED  OBVIOUS
  <2>6. ASSUME NEW c \in TokenChanges(Logged), c.token = coin, c.address = a
        PROVE  c \in T
    <3>1. PICK k \in keys : c = change(k) /\ TokenDelta(Logged, k[1], k[2]) # 0
      <4>. HIDE DEF change, keys
      <4>. QED  BY <2>1, <2>6
    <3>2. k[1] = a /\ k[2] = coin
      BY <2>2, <2>6, <3>1
    <3>3. k = <<a, coin>>
      BY <2>5, <3>2
    <3>4. c = total /\ delta # 0
      BY <2>3, <3>1, <3>2, <3>3
    <3>. QED
      <4>. HIDE DEF total, delta
      <4>. QED  BY <3>4
  <2>7. ASSUME NEW c \in T
        PROVE  c \in TokenChanges(Logged) /\ c.token = coin /\ c.address = a
    <3>1. c = total /\ delta # 0
      <4>. HIDE DEF total, delta
      <4>. QED  BY <2>7
    <3>2. change(<<a, coin>>) \in TokenChanges(Logged)
      <4>. DEFINE key == <<a, coin>>
      <4>1. key \in keys /\ TokenDelta(Logged, key[1], key[2]) # 0
        BY <2>4, <3>1
      <4>2. change(key) \in TokenChanges(Logged)
        <5>. HIDE DEF change, keys, key
        <5>. QED  BY <2>1, <4>1
      <4>. QED  BY <4>2
    <3>3. total.token = coin /\ total.address = a
      BY DEF AssetChange
    <3>. QED
      <4>. HIDE DEF total, change
      <4>. QED  BY <2>3, <3>1, <3>2, <3>3
  <2>. QED
    <3>. HIDE DEF T
    <3>. QED  BY <2>6, <2>7
<1>6. of = A \cup T
  <2>1. \A c \in ApprovalChanges(Logged) : c.type = "erc20"
    BY DEF ApprovalChanges, AssetChange
  <2>2. \A c \in TokenChanges(Logged) : c.type = "erc20"
    BY DEF TokenChanges, AssetChange
  <2>3. ASSUME NEW c \in ExtractNativeChanges(raw.callTrace)
        PROVE  c.type = "native"
    <3>. DEFINE fs == raw.callTrace
                net(x) == Delta(fs, Walk(fs), [i \in DOMAIN fs |-> fs[i].value], x)
                change(x) == AssetChange("native", x, NoToken, 0, net(x),
                               FormatAmount(net(x), NativeDecimals), <<>>)
    <3>1. ExtractNativeChanges(fs)
            = {change(x) : x \in {p \in Parties(fs, Walk(fs)) : net(p) # 0}}
      BY Zenon DEF ExtractNativeChanges
    <3>2. \A x : change(x).type = "native"
      BY DEF AssetChange
    <3>. HIDE DEF change, net
    <3>. QED  BY <2>3, <3>1, <3>2
  <2>. HIDE DEF A, T
  <2>. QED  BY <1>2, <1>4, <1>5, <2>1, <2>2, <2>3 DEF Decode
<1>7. ASSUME NEW p \in P
      PROVE  shown[p].raw = Logged[p].amount /\ shown[p].at = p
  <2>1. p \in DOMAIN Logged
    BY DEF GivenTo
  <2>. QED  BY <2>1 DEF AssetChange
<1>8. SumFunctionOnSet(raws, A) = SumFunctionOnSet(amount, P)
  <2>1. \A p \in P : amount[p] \in Int /\ raws[shown[p]] = amount[p]
    <3>. HIDE DEF shown, T
    <3>. QED  BY <1>3, <1>7
  <2>2. \A p, q \in P : shown[p] = shown[q] => p = q
    <3>. HIDE DEF shown, P
    <3>. QED  BY <1>7
  <2>. HIDE DEF raws, shown, amount, P
  <2>. QED  BY ONLY <1>3, <2>1, <2>2, SumReindexed
<1>9. A \cap T = {}
  <2>1. total.at = <<>>
    BY DEF AssetChange
  <2>2. \A c \in T : c = total
    <3>. HIDE DEF total, delta
    <3>. QED  OBVIOUS
  <2>3. \A p \in P : shown[p].at # <<>>
    BY <1>3, <1>7
  <2>. HIDE DEF shown, total, T, P
  <2>. QED  BY <2>1, <2>2, <2>3
<1>10. SumFunctionOnSet(raws, T) = delta /\ IsFiniteSet(T)
       /\ \A c \in T : raws[c] \in Int
  <2>1. CASE delta = 0
    <3>1. T = {}
      BY <2>1
    <3>. HIDE DEF T, raws, delta
    <3>2. SumFunctionOnSet(raws, T) = SumFunctionOnSet(raws, {})
      BY <3>1, Zenon
    <3>. QED  BY <2>1, <3>1, <3>2, SumOfNone, FS_EmptySet
  <2>2. CASE delta # 0
    <3>1. T = {total}
      BY <2>2
    <3>2. total.raw = delta
      BY DEF AssetChange
    <3>. HIDE DEF total, delta
    <3>3. raws[total] = delta
      <4>. HIDE DEF A, T
      <4>. QED  BY <3>1, <3>2
    <3>. HIDE DEF T, raws
    <3>4. SumFunctionOnSet(raws, T) = SumFunctionOnSet(raws, {total})
      BY <3>1, Zenon
    <3>5. SumFunctionOnSet(raws, {total}) = delta
      BY <1>3, <3>3, SumOfOne
    <3>6. IsFiniteSet(T)
      BY <3>1, FS_Singleton, Zenon
    <3>. QED  BY <1>3, <3>1, <3>3, <3>4, <3>5, <3>6
  <2>. QED  BY <2>1, <2>2
<1>11. IsFiniteSet(A) /\ \A c \in A : raws[c] \in Int
  <2>1. IsFiniteSet(A)
    <3>. HIDE DEF shown, P
    <3>. QED  BY <1>3, FiniteImage
  <2>2. \A p \in P : raws[shown[p]] \in Int
    <3>. HIDE DEF shown, T
    <3>. QED  BY <1>3, <1>7
  <2>. HIDE DEF raws, shown, P
  <2>. QED  BY <2>1, <2>2
<1>12. SumFunctionOnSet(raws, A \cup T)
         = SumFunctionOnSet(raws, A) + SumFunctionOnSet(raws, T)
  <2>. HIDE DEF raws, A, T
  <2>. QED  BY <1>9, <1>10, <1>11, SumOfUnion
<1>13. SumFunctionOnSet(amount, P) \in Int
  <2>1. \A p \in P : amount[p] \in Int
    BY <1>3
  <2>. HIDE DEF amount, P
  <2>. QED  BY <1>3, <2>1, SumType
<1>14. ShownOf("erc20", coin, a) = RawSum(of)
  BY Zenon DEF ShownOf, RawSum
<1>15. RawSum(of) = RawSum(A \cup T)
  <2>. HIDE DEF of, A, T
  <2>. QED  BY <1>6, Zenon
<1>16. RawSum(A \cup T) = SumFunctionOnSet(raws, A \cup T)
  <2>. HIDE DEF A, T
  <2>. QED  BY Zenon DEF RawSum
<1>17. ShownOf("erc20", coin, a) = delta + SumFunctionOnSet(amount, P)
  <2>. HIDE DEF raws, A, T, of, delta, amount, P
  <2>. QED  BY <1>3, <1>8, <1>10, <1>12, <1>13, <1>14, <1>15, <1>16
<1>. QED  BY <1>17

\* For each address and coin, the changes of an answer add up to the transfers
\* and approvals that no failure has taken back, from logs and from Alchemy's
\* list (token_decoder.go:66-153, fork.go:168-189).
THEOREM CoinChangesRight == Spec => []CoinChangesAddUp
<1>1. ASSUME RunInv, BooksInv, Answered, FromLogs, NEW a \in Addr, NEW coin \in Coin
      PROVE  LET given == {i \in Happened("approve") :
                             journal[i].contract = coin /\ journal[i].to = a}
             IN  ShownOf("erc20", coin, a)
                   = NetOf("transfer", coin, a)
                       + SumFunctionOnSet([i \in given |-> journal[i].amount], given)
  <2>. DEFINE given == {i \in Happened("approve") :
                          journal[i].contract = coin /\ journal[i].to = a}
              amounts == [i \in given |-> journal[i].amount]
              wm == NetWeight("transfer", coin, a)
              wa == ApprovalWeight(coin, a)
              P == GivenTo(coin, a)
  <2>1. EvmInv /\ NftInv
    BY <1>1 DEF RunInv, BooksInv
  <2>2. /\ wm \in Weighing /\ Fits(wm) /\ wa \in Weighing /\ Fits(wa)
    BY Weighings
  <2>3. /\ JournalSum(journal, wm, Len(journal)) = BookSum(frames, wm, Len(frames))
        /\ JournalSum(journal, wa, Len(journal)) = BookSum(frames, wa, Len(frames))
    <3>. HIDE DEF wm, wa
    <3>. QED  BY <1>1, <2>2 DEF BooksInv, Ledger, Balanced
  <2>4. SumFunctionOnSet(amounts, given) = JournalSum(journal, wa, Len(journal))
    <3>1. \A i \in DOMAIN journal : journal[i] \in EventRec
      BY <2>1, Shapes DEF EvmInv
    <3>2. /\ given \in SUBSET DOMAIN journal
          /\ \A i \in DOMAIN journal \ given : wa[journal[i]] = 0
          /\ \A i \in given : amounts[i] = wa[journal[i]]
      BY <3>1 DEF Happened, ApprovalWeight
    <3>. HIDE DEF wa, given, amounts
    <3>. QED  BY <2>1, <2>2, <3>2, JournalSelected
  <2>5. NetOf("transfer", coin, a) = JournalSum(journal, wm, Len(journal))
    BY <2>1, NetIsWeighed
  <2>6. TokenDelta(Logged, a, coin) = BookSum(frames, wm, Len(frames))
    BY <2>1, MovesAreBooked
  <2>7. SumFunctionOnSet([p \in P |-> Logged[p].amount], P)
          = BookSum(frames, wa, Len(frames))
    BY <2>1, GivenIsBooked
  <2>8. ShownOf("erc20", coin, a)
          = TokenDelta(Logged, a, coin)
              + SumFunctionOnSet([p \in P |-> Logged[p].amount], P)
    BY <1>1, LogsShow
  <2>. HIDE DEF wm, wa, P
  <2>9. ShownOf("erc20", coin, a)
          = NetOf("transfer", coin, a) + SumFunctionOnSet(amounts, given)
    <3>. HIDE DEF amounts, given
    <3>. QED  BY <2>3, <2>4, <2>5, <2>6, <2>7, <2>8
  <2>. QED  BY <2>9
<1>2. ASSUME RunInv, BooksInv, Answered, FromAlchemy \/ FromLogs,
             NEW a \in Addr, NEW coin \in Coin
      PROVE  LET given    == {i \in Happened("approve") :
                                journal[i].contract = coin /\ journal[i].to = a}
                 approved == SumFunctionOnSet([i \in given |-> journal[i].amount], given)
             IN  ShownOf("erc20", coin, a) =
                   NetOf("transfer", coin, a)
                     + IF FromAlchemy THEN NetOf("approve", coin, a) ELSE approved
  BY <1>1, <1>2, ListIsCoinNet
<1>3. RunInv /\ BooksInv => CoinChangesAddUp
  BY <1>2 DEF CoinChangesAddUp
<1>. QED  BY <1>3, RunCorrect, BooksBalance, PTL

-----------------------------------------------------------------------------
(***************************************************************************)
(* Human amounts.                                                          *)
(***************************************************************************)

\* TenTo is what its recursion says.
LEMMA TenToPowers == PowersOfTen(TenTo)
<1>1. TenTo = [n \in Nat |-> IF n = 0 THEN 1 ELSE 10 * TenTo[n - 1]]
  BY PowersExist, Zenon DEF TenTo
<1>. QED  BY <1>1, PowersDefined

\* So it is 1 at 0, and positive everywhere.
LEMMA TenToFacts ==
  /\ TenTo[0] = 1
  /\ \A n \in Nat : TenTo[n] \in Nat \ {0}
BY TenToPowers DEF PowersOfTen

\* A number below a power of ten has no more digits than that.
LEMMA DigitsShape ==
  ASSUME NEW d \in Nat \ {0}, NEW m \in Nat, m < TenTo[d]
  PROVE  \E k \in 1..d : /\ m < TenTo[k]
                         /\ Digits(m) = [i \in 1..k |-> DigitOf(TenTo, m, k, i)]
<1>. DEFINE Fit(k) == m < TenTo[k] /\ (k = 1 \/ m >= TenTo[k - 1])
            W == CHOOSE k \in 1..(m + 1) : Fit(k)
            S == {k \in Nat : k >= 1 /\ m < TenTo[k]}
<1>1. m + 1 \in S
  <2>1. m + 1 \in Nat
    OBVIOUS
  <2>2. m + 1 < TenTo[m + 1] /\ TenTo[m + 1] \in Nat
    BY <2>1, TenToPowers, TenToFacts, PowersGrow
  <2>. QED  BY <2>1, <2>2
<1>2. PICK k \in S : \A n \in S : k <= n
  <2>. HIDE DEF S
  <2>1. S \in SUBSET Nat
    BY DEF S
  <2>. QED  BY <1>1, <2>1, SmallestNumber
<1>3. k \in 1..(m + 1)
  BY <1>1, <1>2
<1>4. Fit(k)
  <2>1. CASE k # 1
    <3>1. k - 1 \in Nat /\ k - 1 >= 1 /\ k - 1 \notin S
      BY <1>2, <2>1
    <3>2. ~(m < TenTo[k - 1])
      BY <3>1
    <3>. QED  BY <1>2, <3>1, <3>2, TenToFacts
  <2>. QED  BY <1>2, <2>1
<1>5. W \in 1..(m + 1) /\ Fit(W)
  <2>. HIDE DEF Fit
  <2>. QED  BY <1>3, <1>4
<1>6. W <= d
  <2>1. SUFFICES ASSUME W > d
                 PROVE  FALSE
    <3>. HIDE DEF W
    <3>. QED  BY <1>5
  <2>. HIDE DEF W
  <2>2. W - 1 \in Nat /\ d <= W - 1 /\ m >= TenTo[W - 1]
    BY <1>5, <2>1
  <2>3. TenTo[d] <= TenTo[W - 1]
    BY <2>2, TenToPowers, PowersGrow
  <2>. QED  BY <2>2, <2>3, TenToFacts
<1>7. Digits(m) = [i \in 1..W |-> DigitOf(TenTo, m, W, i)]
  BY Zenon DEF Digits, DigitOf
<1>. HIDE DEF W
<1>. QED  BY <1>5, <1>6, <1>7

\* Padded to d places, they are its d digits.
LEMMA PaddedDigits ==
  ASSUME NEW d \in Nat \ {0}, NEW m \in Nat, m < TenTo[d]
  PROVE  Padded(Digits(m), d) = [i \in 1..d |-> DigitOf(TenTo, m, d, i)]
<1>1. PICK k \in 1..d : /\ m < TenTo[k]
                        /\ Digits(m) = [i \in 1..k |-> DigitOf(TenTo, m, k, i)]
  BY DigitsShape
<1>. DEFINE z == [i \in 1..(d - k) |-> 0]
            t == [i \in 1..k |-> DigitOf(TenTo, m, k, i)]
<1>2. \A j \in Nat : \A i \in 1..j : DigitOf(TenTo, m, j, i) \in Nat
  <2>1. ASSUME NEW j \in Nat, NEW i \in 1..j
        PROVE  DigitOf(TenTo, m, j, i) \in Nat
    <3>1. TenTo[j - i] \in Nat \ {0}
      BY TenToFacts
    <3>2. m \div TenTo[j - i] \in Nat
      BY <3>1
    <3>. QED  BY <3>2 DEF DigitOf
  <2>. QED  BY <2>1
<1>3. z \in Seq(Nat) /\ Len(z) = d - k /\ DOMAIN z = 1..(d - k)
  BY <1>1
<1>4. t \in Seq(Nat) /\ Len(t) = k
  BY <1>1, <1>2
<1>5. Padded(Digits(m), d) = z \o t
  BY <1>1, <1>4 DEF Padded
<1>6. /\ z \o t \in Seq(Nat) /\ Len(z \o t) = d
      /\ \A i \in 1..d : (z \o t)[i] = IF i <= d - k THEN z[i] ELSE t[i - (d - k)]
  <2>1. d - k \in Nat /\ k \in Nat /\ (d - k) + k = d
    BY <1>1
  <2>. HIDE DEF z, t
  <2>2. /\ z \o t \in Seq(Nat) /\ Len(z \o t) = Len(z) + Len(t)
        /\ \A i \in 1..(Len(z) + Len(t)) :
             (z \o t)[i] = IF i <= Len(z) THEN z[i] ELSE t[i - Len(z)]
    BY ONLY <1>3, <1>4, ConcatProperties
  <2>3. Len(z) + Len(t) = d /\ Len(z) = d - k
    BY ONLY <1>3, <1>4, <2>1
  <2>. QED  BY ONLY <2>2, <2>3
<1>7. ASSUME NEW i \in 1..d
      PROVE  (z \o t)[i] = DigitOf(TenTo, m, d, i)
  <2>1. CASE i <= d - k
    <3>1. d - i \in Nat /\ k <= d - i /\ k \in Nat
      BY <1>1, <2>1
    <3>2. TenTo[k] <= TenTo[d - i] /\ TenTo[d - i] \in Nat \ {0} /\ TenTo[k] \in Nat
      BY <3>1, TenToPowers, TenToFacts, PowersGrow
    <3>3. m \div TenTo[d - i] = 0
      <4>1. m = TenTo[d - i] * 0 + m /\ m \in 0..(TenTo[d - i] - 1)
        BY <1>1, <3>2
      <4>. QED  BY <3>2, <4>1
    <3>4. DigitOf(TenTo, m, d, i) = 0
      BY <3>3 DEF DigitOf
    <3>5. z[i] = 0
      BY <1>1, <2>1
    <3>. HIDE DEF z, t
    <3>. QED  BY <1>6, <2>1, <3>4, <3>5
  <2>2. CASE i > d - k
    <3>1. i - (d - k) \in 1..k /\ k - (i - (d - k)) = d - i
      BY <1>1, <2>2
    <3>2. t[i - (d - k)] = DigitOf(TenTo, m, d, i)
      BY <3>1 DEF DigitOf
    <3>3. ~(i <= d - k)
      BY <1>1, <2>2
    <3>. HIDE DEF z, t
    <3>. QED  BY ONLY <1>6, <1>7, <3>2, <3>3
  <2>. QED  BY <1>1, <2>1, <2>2
<1>8. z \o t = [i \in 1..d |-> DigitOf(TenTo, m, d, i)]
  <2>1. z \o t = [i \in 1..d |-> (z \o t)[i]]
    <3>. DEFINE s == z \o t
    <3>. HIDE DEF s
    <3>1. s \in Seq(Nat) /\ Len(s) = d
      BY <1>6 DEF s
    <3>2. DOMAIN s = 1..d /\ s \in [1..d -> Nat]
      BY ONLY <3>1, LenProperties
    <3>3. s = [i \in 1..d |-> s[i]]
      BY ONLY <3>2
    <3>. QED  BY <3>3 DEF s
  <2>. HIDE DEF z, t
  <2>. QED  BY <1>7, <2>1
<1>. QED  BY <1>5, <1>8

\* What is trimmed off is zeros.
LEMMA Trimmed ==
  ASSUME NEW s \in Seq(Nat)
  PROVE  \E n \in 0..Len(s) : /\ TrimRight(s) = SubSeq(s, 1, n)
                              /\ \A i \in DOMAIN s : s[i] # 0 => i <= n
<1>. DEFINE S == {0} \cup {i \in DOMAIN s : s[i] # 0}
<1>1. Len(s) \in Nat /\ DOMAIN s = 1..Len(s)
  BY LenProperties
<1>2. S \in SUBSET (0..Len(s)) /\ S # {}
  BY <1>1
<1>3. \E m \in S : \A n \in S : m >= n
  <2>. HIDE DEF S
  <2>. QED  BY <1>1, <1>2, GreatestNumber
<1>4. Max(S) \in S /\ \A n \in S : Max(S) >= n
  <2>. HIDE DEF S
  <2>. QED  BY <1>3 DEF Max
<1>5. TrimRight(s) = SubSeq(s, 1, Max(S))
  BY Zenon DEF TrimRight
<1>6. Max(S) \in 0..Len(s) /\ \A i \in DOMAIN s : s[i] # 0 => i <= Max(S)
  <2>1. \A i \in DOMAIN s : s[i] # 0 => i \in S
    OBVIOUS
  <2>. HIDE DEF S
  <2>. QED  BY <1>1, <1>2, <1>4, <2>1
<1>. HIDE DEF S
<1>. QED  BY <1>5, <1>6

\* What the digits after the point come to.
FractionOf(t, d) ==
  LET digits == {i \in DOMAIN t : t[i] # 0}
  IN  SumFunctionOnSet([i \in digits |-> t[i] * TenTo[d - i]], digits)

\* The digits that are left of a fraction read as the fraction.
LEMMA FractionReads ==
  ASSUME NEW d \in Nat \ {0}, NEW m \in Nat, m < TenTo[d]
  PROVE  /\ FractionOf(TrimRight(Padded(Digits(m), d)), d) = m
         /\ TrimRight(Padded(Digits(m), d)) \in Seq(Nat)
<1>. DEFINE digit(i) == DigitOf(TenTo, m, d, i)
            s == [i \in 1..d |-> digit(i)]
            f == [i \in 1..d |-> digit(i) * TenTo[d - i]]
            Z == {i \in 1..d : digit(i) # 0}
            e == [i \in Z |-> digit(i) * TenTo[d - i]]
<1>1. \A i \in 1..d : digit(i) \in Nat /\ TenTo[d - i] \in Nat
  <2>1. ASSUME NEW i \in 1..d
        PROVE  digit(i) \in Nat /\ TenTo[d - i] \in Nat
    <3>1. TenTo[d - i] \in Nat \ {0}
      BY TenToFacts
    <3>2. m \div TenTo[d - i] \in Nat
      BY <3>1
    <3>. QED  BY <3>1, <3>2 DEF DigitOf
  <2>. QED  BY <2>1
<1>2. Padded(Digits(m), d) = s
  BY PaddedDigits
<1>3. s \in Seq(Nat) /\ Len(s) = d /\ DOMAIN s = 1..d
  <2>. HIDE DEF digit
  <2>. QED  BY <1>1
<1>4. PICK n \in 0..d : /\ TrimRight(s) = SubSeq(s, 1, n)
                        /\ \A i \in 1..d : s[i] # 0 => i <= n
  <2>. HIDE DEF s
  <2>. QED  BY <1>3, Trimmed
<1>. DEFINE t == SubSeq(s, 1, n)
<1>5. t \in Seq(Nat) /\ DOMAIN t = 1..n /\ \A i \in 1..n : t[i] = s[i]
  <2>1. 1 \in 1..(Len(s) + 1) /\ n \in (1 - 1)..Len(s)
    BY <1>3, <1>4
  <2>. HIDE DEF s
  <2>. QED  BY <1>3, <1>4, <2>1, SubSeqProperties, LenProperties
<1>6. {i \in DOMAIN t : t[i] # 0} = Z
  <2>1. \A i \in 1..d : s[i] = digit(i)
    OBVIOUS
  <2>2. \A i \in 1..n : i \in 1..d
    BY <1>4
  <2>3. \A i \in 1..d : s[i] # 0 => i \in 1..n
    BY <1>4
  <2>. HIDE DEF s, t, digit
  <2>. QED  BY <1>5, <2>1, <2>2, <2>3
<1>7. \A i \in Z : t[i] = digit(i)
  <2>1. \A i \in 1..d : s[i] = digit(i)
    OBVIOUS
  <2>2. \A i \in Z : i \in 1..d /\ i \in DOMAIN t
    BY <1>6
  <2>. HIDE DEF s, t, digit, Z
  <2>. QED  BY <1>5, <2>1, <2>2
<1>8. [i \in Z |-> t[i] * TenTo[d - i]] = e
  <2>. HIDE DEF t, Z, digit
  <2>. QED  BY <1>7
<1>9. FractionOf(t, d) = SumFunctionOnSet(e, Z)
  <2>. HIDE DEF e, Z, t
  <2>. QED  BY <1>6, <1>8, Zenon DEF FractionOf
<1>10. SumFunctionOnSet(e, Z) = SumFunctionOnSet(f, 1..d)
  <2>1. IsFiniteSet(1..d)
    BY FS_Interval
  <2>2. /\ \A i \in 1..d : f[i] \in Int
        /\ Z \in SUBSET (1..d) /\ \A i \in (1..d) \ Z : f[i] = 0
        /\ \A i \in Z : e[i] = f[i]
    <3>1. \A i \in 1..d : f[i] = digit(i) * TenTo[d - i]
      OBVIOUS
    <3>2. \A i \in Z : e[i] = digit(i) * TenTo[d - i] /\ i \in 1..d
      OBVIOUS
    <3>3. \A i \in (1..d) \ Z : digit(i) = 0
      OBVIOUS
    <3>4. Z \in SUBSET (1..d)
      OBVIOUS
    <3>5. \A i \in 1..d : f[i] \in Int
      <4>. HIDE DEF f, digit
      <4>. QED  BY <1>1, <3>1
    <3>. HIDE DEF f, e, Z, digit
    <3>. QED  BY <1>1, <3>1, <3>2, <3>3, <3>4, <3>5
  <2>. DEFINE I == 1..d
  <2>3. /\ IsFiniteSet(I) /\ \A i \in I : f[i] \in Int
        /\ Z \in SUBSET I /\ \A i \in I \ Z : f[i] = 0
        /\ \A i \in Z : e[i] = f[i]
    BY <2>1, <2>2
  <2>4. SumFunctionOnSet(e, Z) = SumFunctionOnSet(f, I)
    <3>. HIDE DEF e, f, Z, I
    <3>. QED  BY ONLY <2>3, SumSelected
  <2>. QED  BY <2>4
<1>11. SumFunctionOnSet(f, 1..d) = m
  <2>1. \A i \in 1..d : f[i] = DigitOf(TenTo, m, d, i) * TenTo[d - i]
    OBVIOUS
  <2>. HIDE DEF f
  <2>. QED  BY <2>1, TenToPowers, DigitsSum
<1>. HIDE DEF s, t, f, e, Z
<1>. QED  BY <1>2, <1>4, <1>5, <1>9, <1>10, <1>11 DEF t

\* As FormatAmount and Alchemy write them.
Human == [neg : BOOLEAN, whole : Nat, frac : Seq(Nat)]

\* What a human amount comes to, whatever its sign.
SizeOf(h, d) == h.whole * TenTo[d] + FractionOf(h.frac, d)

\* Reading back is the size with its sign.
LEMMA ReadBackIsSize ==
  ASSUME NEW h, NEW d
  PROVE  ReadBack(h, d) = IF h.neg THEN -SizeOf(h, d) ELSE SizeOf(h, d)
BY Zenon DEF ReadBack, SizeOf, FractionOf

\* Digits that are 0 come to nothing.
LEMMA NoFraction ==
  ASSUME NEW t, NEW d, \A i \in DOMAIN t : t[i] = 0
  PROVE  FractionOf(t, d) = 0
<1>. DEFINE Z == {i \in DOMAIN t : t[i] # 0}
<1>1. Z = {}
  OBVIOUS
<1>2. FractionOf(t, d) = SumFunctionOnSet([i \in Z |-> t[i] * TenTo[d - i]], Z)
  BY Zenon DEF FractionOf
<1>. HIDE DEF Z
<1>. QED  BY <1>1, <1>2, SumOfNone

\* Another way to write the same amount.
LEMMA NormaliseReads ==
  ASSUME NEW h \in Human, NEW d
  PROVE  LET g == NormaliseHumanAmount(h)
         IN  g \in Human /\ g.neg = h.neg /\ SizeOf(g, d) = SizeOf(h, d)
<1>1. CASE h.frac = <<>>
  <2>. DEFINE g == [h EXCEPT !.frac = <<0>>]
  <2>1. NormaliseHumanAmount(h) = g
    BY <1>1 DEF NormaliseHumanAmount
  <2>2. g \in Human /\ g.neg = h.neg /\ g.whole = h.whole /\ g.frac = <<0>>
    BY DEF Human
  <2>3. FractionOf(<<0>>, d) = 0
    BY NoFraction
  <2>4. FractionOf(<<>>, d) = 0
    BY NoFraction
  <2>. HIDE DEF g
  <2>. QED  BY <1>1, <2>1, <2>2, <2>3, <2>4 DEF SizeOf
<1>2. CASE h.frac # <<>>
  BY <1>2 DEF NormaliseHumanAmount
<1>. QED  BY <1>1, <1>2

\* With a minus sign it is as large.
LEMMA NegatedReads ==
  ASSUME NEW h \in Human, NEW d
  PROVE  Negated(h) \in Human /\ Negated(h).neg = TRUE /\ SizeOf(Negated(h), d) = SizeOf(h, d)
BY DEF Negated, Human, SizeOf

\* formatAmount keeps the sign and the size.
LEMMA FormatReads ==
  ASSUME NEW n \in Int, NEW d \in Nat
  PROVE  LET h == FormatAmount(n, d)
         IN  h \in Human /\ h.neg = (n < 0) /\ SizeOf(h, d) = Magnitude(n)
<1>. DEFINE m == Magnitude(n)
            p == TenTo[d]
            human(t) == [neg |-> n < 0, whole |-> m \div p, frac |-> t]
<1>1. m \in Nat
  BY DEF Magnitude
<1>2. p \in Nat \ {0}
  BY TenToFacts
<1>3. m \div p \in Nat /\ m % p \in Nat /\ m % p < p /\ m = (m \div p) * p + (m % p)
  <2>. HIDE DEF m, p
  <2>. QED  BY <1>1, <1>2
<1>4. ASSUME NEW t \in Seq(Nat)
      PROVE  human(t) \in Human /\ human(t).neg = (n < 0)
             /\ SizeOf(human(t), d) = (m \div p) * p + FractionOf(t, d)
  <2>. HIDE DEF m
  <2>. QED  BY <1>3 DEF Human, SizeOf
<1>5. CASE d = 0
  <2>1. FormatAmount(n, d) = human(<<>>)
    BY <1>5 DEF FormatAmount
  <2>2. FractionOf(<<>>, d) = 0
    BY NoFraction
  <2>3. p = 1 /\ m % p = 0
    <3>1. p = 1
      BY <1>5, TenToFacts
    <3>. HIDE DEF m, p
    <3>. QED  BY <1>1, <3>1
  <2>4. <<>> \in Seq(Nat)
    OBVIOUS
  <2>. HIDE DEF human, m, p
  <2>. QED  BY <1>3, <1>4, <2>1, <2>2, <2>3, <2>4 DEF m
<1>6. CASE d # 0
  <2>. DEFINE t == TrimRight(Padded(Digits(m % p), d))
  <2>1. FormatAmount(n, d) = NormaliseHumanAmount(human(t))
    BY <1>6, Zenon DEF FormatAmount
  <2>2. FractionOf(t, d) = m % p /\ t \in Seq(Nat)
    <3>. DEFINE r == m % p
    <3>1. r \in Nat /\ r < TenTo[d] /\ d \in Nat \ {0}
      BY <1>3, <1>6
    <3>. HIDE DEF r
    <3>2. FractionOf(TrimRight(Padded(Digits(r), d)), d) = r
          /\ TrimRight(Padded(Digits(r), d)) \in Seq(Nat)
      BY <3>1, FractionReads
    <3>. QED  BY <3>2 DEF r
  <2>3. human(t) \in Human /\ human(t).neg = (n < 0)
        /\ SizeOf(human(t), d) = (m \div p) * p + FractionOf(t, d)
    <3>. HIDE DEF t, human, m, p
    <3>. QED  BY <1>4, <2>2
  <2>4. SizeOf(human(t), d) = m
    <3>. HIDE DEF t, human, m, p
    <3>. QED  BY <1>3, <2>2, <2>3
  <2>. HIDE DEF human, t, m
  <2>5. FormatAmount(n, d) \in Human /\ FormatAmount(n, d).neg = (n < 0)
        /\ SizeOf(FormatAmount(n, d), d) = m
    BY <2>1, <2>3, <2>4, NormaliseReads
  <2>. QED  BY <2>5 DEF m
<1>. QED  BY <1>5, <1>6

\* So does what Alchemy writes.
LEMMA HumanReads ==
  ASSUME NEW n \in Nat, NEW d \in Nat
  PROVE  LET h == HumanOf(n, d)
         IN  h \in Human /\ h.neg = FALSE /\ SizeOf(h, d) = n
<1>1. CASE n % TenTo[d] = 0
  <2>. DEFINE p == TenTo[d]
              h == [neg |-> FALSE, whole |-> n \div p, frac |-> <<>>]
  <2>1. p \in Nat \ {0}
    BY TenToFacts
  <2>2. n \div p \in Nat /\ n = (n \div p) * p
    <3>1. n % p = 0
      BY <1>1
    <3>. HIDE DEF p
    <3>. QED  BY <2>1, <3>1
  <2>3. HumanOf(n, d) = h
    BY <1>1 DEF HumanOf
  <2>4. FractionOf(<<>>, d) = 0
    BY NoFraction
  <2>5. h \in Human /\ SizeOf(h, d) = (n \div p) * p + 0
    BY <2>2, <2>4 DEF Human, SizeOf
  <2>. HIDE DEF p
  <2>. QED  BY <2>2, <2>3, <2>5
<1>2. CASE n % TenTo[d] # 0
  <2>1. HumanOf(n, d) = FormatAmount(n, d)
    BY <1>2 DEF HumanOf
  <2>2. n \in Int /\ Magnitude(n) = n /\ (n < 0) = FALSE
    BY DEF Magnitude
  <2>3. /\ FormatAmount(n, d) \in Human /\ FormatAmount(n, d).neg = (n < 0)
        /\ SizeOf(FormatAmount(n, d), d) = Magnitude(n)
    BY <2>2, FormatReads
  <2>. QED  BY <2>1, <2>2, <2>3
<1>. QED  BY <1>1, <1>2

\* A change whose human amount reads back.
ReadsBack(c) ==
  c.type # "erc721" =>
    c.raw = ReadBack(c.human, IF c.type = "native" THEN NativeDecimals ELSE c.decimals)

\* A number that formatAmount has written reads back, with or without the point that
\* NormaliseHumanAmount adds.
LEMMA FormattedReadsBack ==
  ASSUME NEW type, type # "erc721", NEW address, NEW token, NEW decimals,
         NEW n \in Int, NEW at,
         NEW unit \in Nat, unit = IF type = "native" THEN NativeDecimals ELSE decimals
  PROVE  /\ ReadsBack(AssetChange(type, address, token, decimals, n,
                                 FormatAmount(n, unit), at))
         /\ ReadsBack(AssetChange(type, address, token, decimals, n,
                                 NormaliseHumanAmount(FormatAmount(n, unit)), at))
<1>. DEFINE h == FormatAmount(n, unit)
            g == NormaliseHumanAmount(h)
<1>1. h \in Human /\ h.neg = (n < 0) /\ SizeOf(h, unit) = Magnitude(n)
  BY FormatReads
<1>2. g \in Human /\ g.neg = (n < 0) /\ SizeOf(g, unit) = Magnitude(n)
  <2>. HIDE DEF h
  <2>. QED  BY <1>1, NormaliseReads
<1>3. ReadBack(h, unit) = n /\ ReadBack(g, unit) = n
  <2>1. (IF n < 0 THEN -Magnitude(n) ELSE Magnitude(n)) = n
    BY DEF Magnitude
  <2>. HIDE DEF g, h
  <2>2. /\ ReadBack(h, unit) = IF h.neg THEN -SizeOf(h, unit) ELSE SizeOf(h, unit)
        /\ ReadBack(g, unit) = IF g.neg THEN -SizeOf(g, unit) ELSE SizeOf(g, unit)
    BY ReadBackIsSize
  <2>3. CASE n < 0
    BY <1>1, <1>2, <2>1, <2>2, <2>3
  <2>4. CASE ~(n < 0)
    BY <1>1, <1>2, <2>1, <2>2, <2>4
  <2>. QED  BY <2>3, <2>4
<1>. HIDE DEF g
<1>4. ReadsBack(AssetChange(type, address, token, decimals, n, h, at))
  <2>. HIDE DEF h
  <2>. QED  BY <1>3 DEF ReadsBack, AssetChange
<1>5. ReadsBack(AssetChange(type, address, token, decimals, n, g, at))
  BY <1>3 DEF ReadsBack, AssetChange
<1>. QED  BY <1>4, <1>5 DEF g

\* A byte is a number.
LEMMA CoinUnitIs == CoinUnit \in Nat
  BY DecimalsAssumption DEF CoinUnit, Uint8

\* Both sides of an item of Alchemy's list.
LEMMA SidesReadBack ==
  ASSUME NEW type, type # "erc721", NEW address, NEW token, NEW decimals,
         NEW n \in Nat, NEW at,
         NEW unit \in Nat, unit = IF type = "native" THEN NativeDecimals ELSE decimals
  PROVE  /\ ReadsBack(AssetChange(type, address, token, decimals, -n,
                         NormaliseHumanAmount(Negated(HumanOf(n, unit))), at))
         /\ ReadsBack(AssetChange(type, address, token, decimals, n,
                         NormaliseHumanAmount(HumanOf(n, unit)), at))
<1>. DEFINE h == HumanOf(n, unit)
            k == Negated(h)
            got == NormaliseHumanAmount(h)
            gave == NormaliseHumanAmount(k)
<1>1. h \in Human /\ h.neg = FALSE /\ SizeOf(h, unit) = n
  BY HumanReads
<1>2. k \in Human /\ k.neg = TRUE /\ SizeOf(k, unit) = n
  <2>. HIDE DEF h
  <2>. QED  BY <1>1, NegatedReads
<1>3. got.neg = FALSE /\ SizeOf(got, unit) = n
  <2>. HIDE DEF h
  <2>. QED  BY <1>1, NormaliseReads
<1>4. gave.neg = TRUE /\ SizeOf(gave, unit) = n
  <2>. HIDE DEF k
  <2>. QED  BY <1>2, NormaliseReads
<1>5. ReadBack(got, unit) = n /\ ReadBack(gave, unit) = -n
  <2>. HIDE DEF got, gave
  <2>. QED  BY <1>3, <1>4, ReadBackIsSize
<1>. HIDE DEF got, gave
<1>6. ReadsBack(AssetChange(type, address, token, decimals, -n, gave, at))
  BY <1>5 DEF ReadsBack, AssetChange
<1>7. ReadsBack(AssetChange(type, address, token, decimals, n, got, at))
  BY <1>5 DEF ReadsBack, AssetChange
<1>. QED  BY <1>6, <1>7 DEF got, gave

\* Decoded changes, of no logs or all, and of no call tree or the whole.
LEMMA DecodedReadBack ==
  ASSUME EvmInv, NftInv, NEW logs \in {<<>>, Logged}, NEW fs \in {<<>>, frames},
         NEW c \in Decode(logs, fs)
  PROVE  ReadsBack(c)
<1>1. NativeDecimals \in Nat /\ CoinUnit \in Nat /\ 0 \in Nat
  BY DecimalsAssumption, CoinUnitIs
<1>2. CASE c \in ExtractNativeChanges(fs)
  <2>. DEFINE net(x) == Delta(fs, Walk(fs), [i \in DOMAIN fs |-> fs[i].value], x)
              change(x) == AssetChange("native", x, NoToken, 0, net(x),
                             FormatAmount(net(x), NativeDecimals), <<>>)
  <2>1. ExtractNativeChanges(fs)
          = {change(x) : x \in {p \in Parties(fs, Walk(fs)) : net(p) # 0}}
    BY Zenon DEF ExtractNativeChanges
  <2>2. PICK x \in Parties(fs, Walk(fs)) : c = change(x)
    <3>. HIDE DEF change, net
    <3>. QED  BY <1>2, <2>1
  <2>3. fs # <<>>
    BY <2>2 DEF Parties, Walk
  <2>4. net(x) \in Int
    <3>1. fs = frames
      BY <2>3
    <3>. QED  BY <3>1, WalkIsBooked
  <2>5. ReadsBack(change(x))
    <3>. HIDE DEF net
    <3>. QED  BY <1>1, <2>4, FormattedReadsBack
  <2>. HIDE DEF change
  <2>. QED  BY <2>2, <2>5
<1>3. CASE c \in ApprovalChanges(logs)
  <2>1. PICK p \in DOMAIN logs :
          /\ logs[p].kind = "approve"
          /\ c = AssetChange("erc20", logs[p].to, logs[p].contract, 0, logs[p].amount,
                  NormaliseHumanAmount(FormatAmount(logs[p].amount, 0)), p)
    BY <1>3 DEF ApprovalChanges
  <2>2. logs[p].amount \in Int
    <3>1. logs = Logged
      BY <2>1
    <3>2. p \in GivenTo(logs[p].contract, logs[p].to)
      BY <2>1, <3>1 DEF GivenTo
    <3>. QED  BY <3>1, <3>2, GivenIsBooked
  <2>. DEFINE n == logs[p].amount
  <2>. HIDE DEF n
  <2>3. ReadsBack(AssetChange("erc20", logs[p].to, logs[p].contract, 0, n,
                    NormaliseHumanAmount(FormatAmount(n, 0)), p))
    BY <1>1, <2>2, FormattedReadsBack DEF n
  <2>. QED  BY <2>1, <2>3 DEF n
<1>4. CASE c \in TokenChanges(logs)
  <2>. DEFINE moves == TransferLogs(logs)
              keys == Parties(logs, moves) \X {logs[i].contract : i \in moves}
              net(k) == TokenDelta(logs, k[1], k[2])
              change(k) == AssetChange("erc20", k[1], k[2], CoinUnit, net(k),
                             FormatAmount(net(k), CoinUnit), <<>>)
  <2>1. TokenChanges(logs) = {change(k) : k \in {key \in keys : net(key) # 0}}
    BY Zenon DEF TokenChanges
  <2>2. PICK k \in keys : c = change(k)
    <3>. HIDE DEF change, keys, net
    <3>. QED  BY <1>4, <2>1
  <2>3. logs # <<>>
    BY <2>2 DEF TransferLogs
  <2>4. net(k) \in Int
    <3>1. logs = Logged
      BY <2>3
    <3>. QED  BY <3>1, MovesAreBooked
  <2>5. ReadsBack(change(k))
    <3>. HIDE DEF net
    <3>. QED  BY <1>1, <2>4, FormattedReadsBack
  <2>. HIDE DEF change
  <2>. QED  BY <2>2, <2>5
<1>. QED  BY <1>2, <1>3, <1>4 DEF Decode

\* Changes of Alchemy's list, if it has the decimals that are kept.
LEMMA ListReadsBack ==
  ASSUME EvmInv, CoinUnit = CoinDecimals, NEW c \in ConvertAlchemyChanges(AlchemyItems)
  PROVE  ReadsBack(c)
<1>1. PICK i \in DOMAIN journal : journal[i].kind # "operator" /\ c \in ItemChanges(i)
  BY DEF ConvertAlchemyChanges, AlchemyItems, ItemChanges
<1>2. journal[i] \in EventRec
  BY Shapes DEF EvmInv
<1>. DEFINE n == journal[i].amount
<1>3. n \in Nat /\ journal[i].kind \in {"native", "transfer", "approve", "nft"}
  BY <1>1, <1>2 DEF EventRec
<1>. HIDE DEF n
<1>4. CASE journal[i].kind = "nft"
  BY <1>1, <1>4, ItemSides DEF ReadsBack
<1>5. CASE journal[i].kind = "native"
  <2>1. c = NativeGave[i] \/ c = NativeGot[i]
    BY <1>1, <1>5, ItemSides
  <2>2. /\ NativeGave[i] = AssetChange("native", journal[i].from, NoToken, 0, -n,
             NormaliseHumanAmount(Negated(HumanOf(n, NativeDecimals))), <<i, 1>>)
        /\ NativeGot[i] = AssetChange("native", journal[i].to, NoToken, 0, n,
             NormaliseHumanAmount(HumanOf(n, NativeDecimals)), <<i, 2>>)
    BY DEF NativeGave, NativeGot, Gave, Got, n
  <2>3. ReadsBack(NativeGave[i]) /\ ReadsBack(NativeGot[i])
    BY <1>3, <2>2, DecimalsAssumption, SidesReadBack
  <2>. QED  BY <2>1, <2>3
<1>6. CASE journal[i].kind \in {"transfer", "approve"}
  <2>1. c = CoinGave[i] \/ c = CoinGot[i]
    BY <1>1, <1>6, ItemSides
  <2>2. /\ CoinGave[i] = AssetChange("erc20", journal[i].from, journal[i].contract,
             CoinUnit, -n,
             NormaliseHumanAmount(Negated(HumanOf(n, CoinDecimals))), <<i, 1>>)
        /\ CoinGot[i] = AssetChange("erc20", journal[i].to, journal[i].contract,
             CoinUnit, n,
             NormaliseHumanAmount(HumanOf(n, CoinDecimals)), <<i, 2>>)
    BY DEF CoinGave, CoinGot, Gave, Got, n
  <2>3. ReadsBack(CoinGave[i]) /\ ReadsBack(CoinGot[i])
    BY <1>3, <2>2, DecimalsAssumption, SidesReadBack
  <2>. QED  BY <2>1, <2>3
<1>. QED  BY <1>3, <1>4, <1>5, <1>6

\* Every human amount of an answer reads back as the raw amount, however large, for
\* all decimals where it comes from logs and for those that fit into a byte where
\* it comes from Alchemy: no digit is lost where formatAmount pads and trims the
\* fraction, or where Alchemy's amounts get a sign and a point
\* (token_decoder.go:232 and 267-287, fork.go:152-189, asset_change.go:59-74).
THEOREM HumanAmountsRight == Spec => []HumanAmountsReadBack
<1>1. ASSUME RunInv, BooksInv, Answered, FromAlchemy => CoinUnit = CoinDecimals,
             NEW c \in result.changes
      PROVE  ReadsBack(c)
  <2>1. /\ raw.callTrace \in {<<>>, frames}
        /\ raw.alchemyChanges \in {{}, ConvertAlchemyChanges(AlchemyItems)}
        /\ result.changes = AssetChangesOf(raw)
    BY <1>1, Answers DEF ToldOK
  <2>2. raw.logs \in {<<>>, Logged}
    BY <1>1 DEF BooksInv, LogsTold, RunInv, AnswerInv, Answered, Logged
  <2>3. EvmInv /\ NftInv
    BY <1>1 DEF RunInv, BooksInv
  <2>4. CASE raw.alchemyChanges # {}
    BY <1>1, <2>1, <2>3, <2>4, ListReadsBack DEF AssetChangesOf, FromAlchemy
  <2>5. CASE raw.alchemyChanges = {}
    <3>1. c \in Decode(raw.logs, raw.callTrace)
      BY <1>1, <2>1, <2>5 DEF AssetChangesOf
    <3>. QED  BY <2>1, <2>2, <2>3, <3>1, DecodedReadBack
  <2>. QED  BY <2>4, <2>5
<1>2. RunInv /\ BooksInv => HumanAmountsReadBack
  BY <1>1 DEF HumanAmountsReadBack, ReadsBack
<1>. QED  BY <1>2, RunCorrect, BooksBalance, PTL
=============================================================================
