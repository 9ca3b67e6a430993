------------------------ MODULE SimulationRunProofs ------------------------
(***************************************************************************)
(* Theorems about SimulationRun for every execution, of any length, of     *)
(* every set of contracts and amounts.                                     *)
(***************************************************************************)
EXTENDS SimulationRun, SequenceTheorems, TLAPS

-----------------------------------------------------------------------------
\* The top of a stack, and what is under it.
LEMMA Top ==
  ASSUME NEW S, NEW s \in Seq(S), s # <<>>
  PROVE  /\ Len(s) \in Nat /\ Len(s) > 0 /\ Len(s) \in DOMAIN s
         /\ Last(s) = s[Len(s)] /\ Last(s) \in S
         /\ Front(s) \in Seq(S) /\ Len(Front(s)) = Len(s) - 1
         /\ DOMAIN Front(s) = 1..(Len(s) - 1)
         /\ \A m \in DOMAIN Front(s) : m \in DOMAIN s /\ Front(s)[m] = s[m]
<1>1. Len(s) \in Nat /\ Len(s) > 0 /\ DOMAIN s = 1..Len(s)
  BY EmptySeq, LenProperties
<1>2. Last(s) = s[Len(s)] /\ Last(s) \in S
  BY <1>1, ElementOfSeq DEF Last
<1>3. \A i \in 1..(Len(s) - 1) : s[i] \in S
  BY <1>1, ElementOfSeq
<1>4. /\ Front(s) \in Seq(S) /\ Len(Front(s)) = Len(s) - 1
      /\ \A m \in 1..(Len(s) - 1) : Front(s)[m] = s[m]
  BY <1>1, <1>3 DEF Front
<1>. QED  BY <1>1, <1>2, <1>4, LenProperties

\* A prefix of a sequence.
LEMMA Prefix ==
  ASSUME NEW S, NEW s \in Seq(S), NEW n \in 0..Len(s)
  PROVE  /\ SubSeq(s, 1, n) \in Seq(S) /\ Len(SubSeq(s, 1, n)) = n
         /\ \A i \in 1..n : SubSeq(s, 1, n)[i] = s[i]
<1>1. Len(s) \in Nat /\ \A i \in 1..n : s[i] \in S
  BY LenProperties, ElementOfSeq
<1>. QED  BY <1>1

-----------------------------------------------------------------------------
\* The parts of EvmTypeOK, as sequences.
LEMMA Shapes ==
  ASSUME EvmTypeOK
  PROVE  /\ frames \in Seq(FrameRec) /\ Len(frames) \in Nat
         /\ DOMAIN frames = 1..Len(frames)
         /\ \A i \in DOMAIN frames : frames[i] \in FrameRec
         /\ open \in Seq([frame : Nat, self : Addr, mark : Nat]) /\ Len(open) \in Nat
         /\ DOMAIN open = 1..Len(open)
         /\ \A m \in DOMAIN open : open[m] \in [frame : Nat, self : Addr, mark : Nat]
         /\ journal \in Seq(EventRec) /\ Len(journal) \in Nat
         /\ DOMAIN journal = 1..Len(journal)
         /\ \A i \in DOMAIN journal : journal[i] \in EventRec
  BY LenProperties, ElementOfSeq DEF EvmTypeOK

\* What a frame moves on its entry.
ValueEvent(f) == Event("native", f.from, f.from, f.to, f.value)

\* A frame is entered, with nothing emitted yet; it runs, or has destructed the
\* one it is called from.  All value that it carries is moved, except by a
\* DELEGATECALL.
Entered(f, moved) ==
  /\ f \in FrameRec /\ f.logs = <<>> /\ f.caller < Len(frames) + 1
  /\ open # <<>> => f.caller = Current
  /\ moved \in Seq(EventRec)
  /\ \A i \in DOMAIN moved : moved[i].kind = "native"
  /\ \/ moved = <<>> /\ (f.value = 0 \/ f.type = "DELEGATECALL")
     \/ moved = <<ValueEvent(f)>> /\ f.value > 0
  /\ frames' = Append(frames, f)
  /\ journal' = journal \o moved
  /\ \/ \E self \in Addr : open' = Append(open, Running(self))
     \/ open # <<>> /\ open' = Front(open)

\* Entering a frame keeps the invariant.
LEMMA EnteredKeeps ==
  ASSUME EvmInv, NEW f, NEW moved, Entered(f, moved)
  PROVE  EvmInv'
<1>. DEFINE Rec == [frame : Nat, self : Addr, mark : Nat]
<1>1. EvmTypeOK /\ StackInv /\ LogsAreJournal
  BY DEF EvmInv
<1>s. /\ Len(frames) \in Nat /\ DOMAIN frames = 1..Len(frames)
      /\ Len(open) \in Nat /\ DOMAIN open = 1..Len(open) /\ open \in Seq(Rec)
      /\ \A m \in DOMAIN open : open[m].frame \in Nat /\ open[m].mark \in Nat
      /\ Len(journal) \in Nat /\ DOMAIN journal = 1..Len(journal)
  BY <1>1, Shapes
<1>2. /\ frames' \in Seq(FrameRec) /\ Len(frames') = Len(frames) + 1
      /\ DOMAIN frames' = 1..(Len(frames) + 1)
      /\ \A k \in DOMAIN frames : k \in DOMAIN frames' /\ frames'[k] = frames[k]
      /\ frames'[Len(frames) + 1] = f /\ DOMAIN f.logs = {}
      /\ f.caller < Len(frames) + 1
  BY <1>1, Shapes, AppendProperties, LenProperties DEF Entered
<1>3. /\ journal' \in Seq(EventRec) /\ Len(journal') >= Len(journal)
      /\ DOMAIN journal' = 1..Len(journal') /\ Len(journal') \in Nat
      /\ \A i \in DOMAIN journal : i \in DOMAIN journal' /\ journal'[i] = journal[i]
      /\ \A i \in DOMAIN journal' : i \notin DOMAIN journal => journal'[i].kind = "native"
  <2>1. Len(moved) \in Nat /\ DOMAIN moved = 1..Len(moved)
    BY LenProperties DEF Entered
  <2>2. /\ journal' \in Seq(EventRec) /\ Len(journal') = Len(journal) + Len(moved)
        /\ \A i \in 1..Len(journal) + Len(moved) : journal'[i] =
             IF i <= Len(journal) THEN journal[i] ELSE moved[i - Len(journal)]
    BY <1>1, Shapes, ConcatProperties DEF Entered
  <2>3. DOMAIN journal' = 1..(Len(journal) + Len(moved))
    BY <2>2, LenProperties
  <2>4. \A i \in DOMAIN moved : moved[i].kind = "native"
    BY DEF Entered
  <2>5. ASSUME NEW i \in DOMAIN journal', i \notin DOMAIN journal
        PROVE  journal'[i].kind = "native"
    <3>1. i - Len(journal) \in DOMAIN moved /\ ~(i <= Len(journal))
      BY <1>s, <2>1, <2>3, <2>5
    <3>. QED  BY <2>2, <2>3, <2>4, <3>1
  <2>6. \A i \in DOMAIN journal : i \in DOMAIN journal' /\ journal'[i] = journal[i]
    BY <1>s, <2>1, <2>2, <2>3
  <2>. QED  BY <1>s, <2>1, <2>2, <2>3, <2>5, <2>6
<1>4. /\ open' \in Seq(Rec) /\ Len(open') \in Nat /\ Len(open') <= Len(open) + 1
      /\ DOMAIN open' = 1..Len(open')
      /\ \A m \in DOMAIN open' :
           \/ m \in DOMAIN open /\ open'[m] = open[m]
           \/ /\ m = Len(open) + 1
              /\ open'[m].frame = Len(frames) + 1 /\ open'[m].mark = Len(journal)
  <2>1. CASE \E self \in Addr : open' = Append(open, Running(self))
    <3>1. PICK self \in Addr : open' = Append(open, Running(self))
      BY <2>1
    <3>2. Running(self) \in Rec
      BY <1>s DEF Running
    <3>3. /\ open' \in Seq(Rec)
          /\ DOMAIN open' = 1..(Len(open) + 1)
          /\ \A m \in DOMAIN open : open'[m] = open[m]
          /\ open'[Len(open) + 1] = Running(self)
      BY <1>s, <3>1, <3>2, AppendProperties, LenProperties
    <3>. QED  BY <1>s, <3>3 DEF Running
  <2>2. CASE open # <<>> /\ open' = Front(open)
    <3>1. /\ Len(open) > 0 /\ open' \in Seq(Rec) /\ Len(open') = Len(open) - 1
          /\ \A m \in DOMAIN open' : m \in DOMAIN open /\ open'[m] = open[m]
      BY <1>s, <2>2, Top
    <3>2. DOMAIN open' = 1..Len(open') /\ Len(open') \in Nat
      BY <3>1, LenProperties
    <3>. QED  BY <1>s, <3>1, <3>2
  <2>. QED  BY <2>1, <2>2 DEF Entered
<1>5. EvmTypeOK'
  BY <1>2, <1>3, <1>4 DEF EvmTypeOK
<1>6. StackInv'
  <2>1. \A i \in DOMAIN frames' : frames'[i].caller < i
    <3>. SUFFICES ASSUME NEW i \in DOMAIN frames', i \notin DOMAIN frames
                  PROVE  frames'[i].caller < i
      BY <1>1, <1>2 DEF StackInv
    <3>. QED  BY <1>s, <1>2
  <2>2. ASSUME NEW m \in DOMAIN open'
        PROVE  /\ open'[m].frame \in DOMAIN frames'
               /\ open'[m].mark <= Len(journal')
               /\ \A n \in 1..(m - 1) : /\ open'[n].frame < open'[m].frame
                                        /\ open'[n].mark <= open'[m].mark
    <3>. DEFINE old == m \in DOMAIN open /\ open'[m] = open[m]
    <3>1. ASSUME NEW n \in 1..(m - 1)
          PROVE  n \in DOMAIN open /\ open'[n] = open[n]
      <4>1. m \in 1..Len(open') /\ Len(open') \in Nat /\ Len(open') <= Len(open) + 1
        BY <1>4, <2>2
      <4>2. n \in 1..Len(open') /\ n # Len(open) + 1
        BY <1>s, <4>1
      <4>. QED  BY <1>4, <4>2
    <3>2. CASE old
      <4>1. /\ open[m].frame \in DOMAIN frames
            /\ open[m].mark <= Len(journal)
            /\ \A n \in 1..(m - 1) : /\ open[n].frame < open[m].frame
                                     /\ open[n].mark <= open[m].mark
        BY <1>1, <3>2 DEF StackInv
      <4>2. open[m].mark <= Len(journal')
        BY <1>s, <1>3, <3>2, <4>1
      <4>. QED  BY <1>2, <3>1, <3>2, <4>1, <4>2
    <3>3. CASE ~old
      <4>1. open'[m].frame = Len(frames) + 1 /\ open'[m].mark = Len(journal)
        BY <1>4, <2>2, <3>3
      <4>2. \A n \in 1..(m - 1) : /\ open[n].frame < Len(frames) + 1
                                  /\ open[n].mark <= Len(journal)
        <5>1. \A n \in DOMAIN open : /\ open[n].frame \in DOMAIN frames
                                     /\ open[n].mark <= Len(journal)
          BY <1>1 DEF StackInv
        <5>2. \A n \in DOMAIN frames : n < Len(frames) + 1
          BY <1>s
        <5>. QED  BY <3>1, <5>1, <5>2
      <4>. QED  BY <1>s, <1>2, <1>3, <3>1, <4>1, <4>2
    <3>. QED  BY <3>2, <3>3
  <2>. QED  BY <2>1, <2>2 DEF StackInv
<1>7. ASSUME NEW i \in DOMAIN journal, NEW k \in DOMAIN frames, SameSide(i, k)
      PROVE  SameSide(i, k)'
  <2>1. ASSUME NEW m \in DOMAIN open'
        PROVE  i <= open'[m].mark <=> k < open'[m].frame
    <3>1. CASE m \in DOMAIN open /\ open'[m] = open[m]
      BY <1>7, <3>1 DEF SameSide
    <3>2. CASE open'[m].frame = Len(frames) + 1 /\ open'[m].mark = Len(journal)
      BY <1>s, <3>2
    <3>. QED  BY <1>4, <2>1, <3>1, <3>2
  <2>. QED  BY <2>1 DEF SameSide
<1>8. LogsAreJournal'
  <2>1. ASSUME NEW i \in DOMAIN journal', journal'[i].kind # "native"
        PROVE  \E k \in DOMAIN frames' : /\ SameSide(i, k)'
                                         /\ \E l \in DOMAIN frames'[k].logs :
                                              frames'[k].logs[l] = journal'[i]
    <3>1. i \in DOMAIN journal /\ journal'[i] = journal[i]
      BY <1>3, <2>1
    <3>. QED  BY <1>1, <1>2, <1>7, <2>1, <3>1 DEF LogsAreJournal
  <2>2. ASSUME NEW k \in DOMAIN frames', NEW l \in DOMAIN frames'[k].logs
        PROVE  /\ frames'[k].logs[l].kind # "native"
               /\ \E i \in DOMAIN journal' : /\ SameSide(i, k)'
                                             /\ journal'[i] = frames'[k].logs[l]
    <3>1. k \in DOMAIN frames /\ frames'[k] = frames[k]
      BY <1>s, <1>2
    <3>. QED  BY <1>1, <1>3, <1>7, <3>1 DEF LogsAreJournal
  <2>. QED  BY <2>1, <2>2 DEF LogsAreJournal
<1>. QED  BY <1>5, <1>6, <1>8 DEF EvmInv

\* The frame that runs: it is one of the tree, and none that runs was entered
\* after it.
LEMMA Uppermost ==
  ASSUME EvmInv, open # <<>>
  PROVE  /\ Current \in DOMAIN frames /\ Self \in Addr
         /\ Len(open) \in DOMAIN open
         /\ Last(open) = open[Len(open)] /\ Current = open[Len(open)].frame
         /\ Last(open).mark \in 0..Len(journal)
         /\ \A m \in DOMAIN open : open[m].frame <= Current
<1>1. EvmTypeOK /\ StackInv
  BY DEF EvmInv
<1>2. /\ Len(open) \in Nat /\ Len(open) > 0 /\ DOMAIN open = 1..Len(open)
      /\ Last(open) = open[Len(open)] /\ Len(open) \in DOMAIN open
      /\ Last(open) \in [frame : Nat, self : Addr, mark : Nat]
      /\ \A m \in DOMAIN open : open[m].frame \in Nat
      /\ Len(journal) \in Nat
  BY <1>1, Shapes, Top
<1>3. Current \in DOMAIN frames /\ Self \in Addr
  BY <1>1, <1>2 DEF StackInv, Current, Self
<1>4. Last(open).mark \in 0..Len(journal)
  BY <1>1, <1>2 DEF StackInv
<1>5. ASSUME NEW m \in DOMAIN open
      PROVE  open[m].frame <= Current
  <2>1. CASE m = Len(open)
    BY <1>2, <2>1 DEF Current
  <2>2. CASE m # Len(open)
    <3>1. m \in 1..(Len(open) - 1)
      BY <1>2, <2>2
    <3>. QED  BY <1>1, <1>2, <3>1 DEF StackInv, Current
  <2>. QED  BY <2>1, <2>2
<1>. QED  BY <1>2, <1>3, <1>4, <1>5 DEF Current

\* An event goes to the journal and to the logs of the frame that runs.
LEMMA EmittedKeeps ==
  ASSUME EvmInv, open # <<>>, NEW e \in EventRec, e.kind # "native", Emit(e)
  PROVE  EvmInv'
<1>. DEFINE c == Current
<1>1. EvmTypeOK /\ StackInv /\ LogsAreJournal
  BY DEF EvmInv
<1>2. /\ c \in DOMAIN frames
      /\ \A m \in DOMAIN open : open[m].frame <= c
  BY Uppermost
<1>3. /\ frames' = [frames EXCEPT ![c] = [frames[c] EXCEPT !.logs = Append(frames[c].logs, e)]]
      /\ journal' = Append(journal, e) /\ open' = open
  BY DEF Emit
<1>4. /\ Len(frames) \in Nat /\ DOMAIN frames = 1..Len(frames) /\ frames \in Seq(FrameRec)
      /\ \A m \in DOMAIN open : open[m].frame \in Nat /\ open[m].mark \in Nat
      /\ Len(journal) \in Nat /\ DOMAIN journal = 1..Len(journal)
      /\ journal \in Seq(EventRec) /\ frames[c] \in FrameRec
  BY <1>1, <1>2, Shapes
<1>. DEFINE logs == frames[c].logs
            g == [frames[c] EXCEPT !.logs = Append(logs, e)]
<1>5. /\ Len(logs) \in Nat /\ DOMAIN logs = 1..Len(logs)
      /\ Append(logs, e) \in Seq(EventRec)
      /\ DOMAIN Append(logs, e) = 1..(Len(logs) + 1)
      /\ \A l \in DOMAIN logs : l \in DOMAIN Append(logs, e) /\ Append(logs, e)[l] = logs[l]
      /\ Append(logs, e)[Len(logs) + 1] = e
  <2>1. logs \in Seq(EventRec)
    BY <1>4 DEF FrameRec
  <2>2. Len(logs) \in Nat /\ DOMAIN logs = 1..Len(logs)
    BY <2>1, LenProperties
  <2>. QED  BY <2>1, <2>2, AppendProperties, LenProperties
<1>6. g \in FrameRec /\ g.caller = frames[c].caller /\ g.logs = Append(logs, e)
  BY <1>4, <1>5 DEF FrameRec
<1>7. /\ frames' \in Seq(FrameRec) /\ DOMAIN frames' = DOMAIN frames
      /\ frames'[c] = g
      /\ \A k \in DOMAIN frames : k # c => frames'[k] = frames[k]
  BY <1>2, <1>3, <1>4, <1>6, ExceptSeq, LenProperties
<1>8. /\ journal' \in Seq(EventRec) /\ Len(journal') = Len(journal) + 1
      /\ DOMAIN journal' = 1..(Len(journal) + 1)
      /\ \A i \in DOMAIN journal : i \in DOMAIN journal' /\ journal'[i] = journal[i]
      /\ journal'[Len(journal) + 1] = e
  BY <1>3, <1>4, AppendProperties, LenProperties
<1>9. EvmTypeOK'
  BY <1>1, <1>3, <1>7, <1>8 DEF EvmTypeOK
<1>10. StackInv'
  <2>1. \A i \in DOMAIN frames' : frames'[i].caller < i
    BY <1>1, <1>2, <1>6, <1>7 DEF StackInv
  <2>2. \A m \in DOMAIN open : open[m].mark <= Len(journal')
    BY <1>1, <1>4, <1>8 DEF StackInv
  <2>. QED  BY <1>1, <1>3, <1>7, <2>1, <2>2 DEF StackInv
<1>11. \A i, k : SameSide(i, k) => SameSide(i, k)'
  BY <1>3 DEF SameSide
<1>12. ASSUME NEW i, NEW k, i = Len(journal) + 1, k = c
       PROVE  SameSide(i, k)'
  <2>1. ASSUME NEW m \in DOMAIN open
        PROVE  ~(Len(journal) + 1 <= open[m].mark) /\ ~(c < open[m].frame)
    <3>1. open[m].mark <= Len(journal) /\ open[m].frame <= c
      BY <1>1, <1>2 DEF StackInv
    <3>. QED  BY <1>2, <1>4, <3>1
  <2>. QED  BY <1>3, <1>12, <2>1 DEF SameSide
<1>l. /\ frames'[c].logs[Len(logs) + 1] = e /\ Len(logs) + 1 \in DOMAIN frames'[c].logs
      /\ \A k \in DOMAIN frames : \A l \in DOMAIN frames[k].logs :
           l \in DOMAIN frames'[k].logs /\ frames'[k].logs[l] = frames[k].logs[l]
      /\ \A k \in DOMAIN frames : \A l \in DOMAIN frames'[k].logs :
           \/ l \in DOMAIN frames[k].logs /\ frames'[k].logs[l] = frames[k].logs[l]
           \/ k = c /\ frames'[k].logs[l] = e
  <2>1. frames'[c].logs = Append(logs, e)
    BY <1>6, <1>7
  <2>2. \A l \in DOMAIN Append(logs, e) : l \in DOMAIN logs \/ Append(logs, e)[l] = e
    BY <1>5
  <2>3. ASSUME NEW k \in DOMAIN frames, NEW l \in DOMAIN frames[k].logs
        PROVE  l \in DOMAIN frames'[k].logs /\ frames'[k].logs[l] = frames[k].logs[l]
    BY <1>5, <1>7, <2>1
  <2>4. ASSUME NEW k \in DOMAIN frames, NEW l \in DOMAIN frames'[k].logs
        PROVE  \/ l \in DOMAIN frames[k].logs /\ frames'[k].logs[l] = frames[k].logs[l]
               \/ k = c /\ frames'[k].logs[l] = e
    BY <1>5, <1>7, <2>1, <2>2
  <2>5. Len(logs) + 1 \in DOMAIN Append(logs, e)
    BY <1>5
  <2>. QED  BY <1>5, <2>1, <2>3, <2>4, <2>5
<1>13. LogsAreJournal'
  <2>1. ASSUME NEW i \in DOMAIN journal', journal'[i].kind # "native"
        PROVE  \E k \in DOMAIN frames' : /\ SameSide(i, k)'
                                         /\ \E l \in DOMAIN frames'[k].logs :
                                              frames'[k].logs[l] = journal'[i]
    <3>1. CASE i \in DOMAIN journal
      BY <1>1, <1>7, <1>8, <1>11, <1>l, <2>1, <3>1 DEF LogsAreJournal
    <3>2. CASE i = Len(journal) + 1
      <4>1. PICK k \in DOMAIN frames : k = c
        BY <1>2
      <4>2. SameSide(i, k)'
        BY <1>12, <3>2, <4>1
      <4>3. \E l \in DOMAIN frames'[c].logs : frames'[c].logs[l] = e
        BY <1>l
      <4>4. k \in DOMAIN frames' /\ journal'[i] = e
        BY <1>7, <1>8, <3>2, <4>1
      <4>. QED  BY <4>1, <4>2, <4>3, <4>4
    <3>. QED  BY <1>4, <1>8, <3>1, <3>2
  <2>2. ASSUME NEW k \in DOMAIN frames', NEW l \in DOMAIN frames'[k].logs
        PROVE  /\ frames'[k].logs[l].kind # "native"
               /\ \E i \in DOMAIN journal' : /\ SameSide(i, k)'
                                             /\ journal'[i] = frames'[k].logs[l]
    <3>1. CASE /\ l \in DOMAIN frames[k].logs
               /\ frames'[k].logs[l] = frames[k].logs[l]
      BY <1>1, <1>7, <1>8, <1>11, <3>1 DEF LogsAreJournal
    <3>2. CASE k = c /\ frames'[k].logs[l] = e
      <4>1. Len(journal) + 1 \in DOMAIN journal'
        BY <1>4, <1>8
      <4>2. PICK i \in DOMAIN journal' : i = Len(journal) + 1
        BY <4>1
      <4>3. SameSide(i, k)'
        BY <1>12, <3>2, <4>2
      <4>. QED  BY <1>8, <3>2, <4>2, <4>3
    <3>. QED  BY <1>7, <1>l, <3>1, <3>2
  <2>. QED  BY <2>1, <2>2 DEF LogsAreJournal
<1>. QED  BY <1>9, <1>10, <1>13 DEF EvmInv

\* A frame ends without having failed.
LEMMA ReturnKeeps ==
  ASSUME EvmInv, Return
  PROVE  EvmInv'
<1>. DEFINE Rec == [frame : Nat, self : Addr, mark : Nat]
<1>1. EvmTypeOK /\ StackInv /\ LogsAreJournal
  BY DEF EvmInv
<1>2. /\ open' \in Seq(Rec) /\ frames' = frames /\ journal' = journal
      /\ \A m \in DOMAIN open' : m \in DOMAIN open /\ open'[m] = open[m]
      /\ DOMAIN open' = 1..(Len(open) - 1)
  BY <1>1, Shapes, Top DEF Return, Leave
<1>3. EvmTypeOK'
  BY <1>1, <1>2 DEF EvmTypeOK
<1>4. \A m \in DOMAIN open' : \A n \in 1..(m - 1) : n \in DOMAIN open'
  BY <1>1, <1>2, Shapes
<1>5. StackInv'
  BY <1>1, <1>2, <1>4 DEF StackInv
<1>6. \A i, k : SameSide(i, k) => SameSide(i, k)'
  BY <1>2 DEF SameSide
<1>7. LogsAreJournal'
  BY <1>1, <1>2, <1>6 DEF LogsAreJournal
<1>. QED  BY <1>3, <1>5, <1>7 DEF EvmInv

\* What the revert of the frame that runs leaves of the tree.
LEMMA RevertedFrames ==
  ASSUME EvmInv, Runs, Revert
  PROVE  /\ frames' \in Seq(FrameRec) /\ DOMAIN frames' = DOMAIN frames
         /\ \A k \in DOMAIN frames :
              /\ k < Current => frames'[k] = frames[k]
              /\ ~(k < Current) => DOMAIN frames'[k].logs = {}
              /\ frames'[k].caller = frames[k].caller
              /\ frames'[k].type = frames[k].type
              /\ frames'[k].from = frames[k].from /\ frames'[k].to = frames[k].to
              /\ frames'[k].value = frames[k].value
              /\ frames[k].error \/ k = Current => frames'[k].error
<1>1. EvmTypeOK
  BY DEF EvmInv
<1>2. /\ Len(frames) \in Nat /\ DOMAIN frames = 1..Len(frames)
      /\ \A k \in DOMAIN frames : frames[k] \in FrameRec
  BY <1>1, Shapes
<1>. DEFINE g(k) == IF k < Current THEN frames[k]
                    ELSE [frames[k] EXCEPT !.logs = <<>>,
                                           !.error = @ \/ k = Current]
<1>3. frames' = [k \in 1..Len(frames) |-> g(k)]
  BY <1>2 DEF Revert
<1>4. ASSUME NEW k \in DOMAIN frames
      PROVE  /\ g(k) \in FrameRec /\ g(k).caller = frames[k].caller
             /\ g(k).type = frames[k].type
             /\ g(k).from = frames[k].from /\ g(k).to = frames[k].to
             /\ g(k).value = frames[k].value
             /\ frames[k].error \/ k = Current => g(k).error
             /\ ~(k < Current) => g(k).logs = <<>>
  <2>0. Current \in Nat /\ k \in Nat
    BY <1>2, Uppermost DEF Runs
  <2>1. frames[k] \in FrameRec /\ (frames[k].error \/ k = Current) \in BOOLEAN
    BY <1>2
  <2>2. <<>> \in Seq(EventRec)
    BY EmptySeq
  <2>3. frames[k].error \/ k = Current => g(k).error
    <3>. DEFINE b == frames[k].error \/ k = Current
    <3>1. CASE k < Current
      BY <2>0, <3>1
    <3>2. CASE ~(k < Current)
      <4>1. g(k) = [frames[k] EXCEPT !.logs = <<>>, !.error = b]
        BY <3>2
      <4>. HIDE DEF b, g
      <4>2. g(k).error = b
        BY <2>1, <4>1 DEF FrameRec
      <4>. QED  BY <4>2 DEF b
    <3>. QED  BY <3>1, <3>2
  <2>4. /\ g(k).caller = frames[k].caller /\ g(k).type = frames[k].type
        /\ g(k).from = frames[k].from /\ g(k).to = frames[k].to
        /\ g(k).value = frames[k].value /\ g(k) \in FrameRec
        /\ ~(k < Current) => g(k).logs = <<>>
    BY <2>1, <2>2 DEF FrameRec
  <2>. QED
    <3>. HIDE DEF g
    <3>. QED  BY <2>3, <2>4
<1>5. /\ frames' \in [1..Len(frames) -> FrameRec] /\ DOMAIN frames' = DOMAIN frames
      /\ \A k \in DOMAIN frames : frames'[k] = g(k)
  <2>. HIDE DEF g
  <2>. QED  BY <1>2, <1>3, <1>4
<1>6. frames' \in Seq(FrameRec)
  BY <1>2, <1>5, SeqDef
<1>7. \A k \in DOMAIN frames :
        /\ k < Current => g(k) = frames[k]
        /\ ~(k < Current) => DOMAIN g(k).logs = {}
  <2>1. DOMAIN <<>> = {}
    OBVIOUS
  <2>2. \A k : k < Current => g(k) = frames[k]
    OBVIOUS
  <2>. HIDE DEF g
  <2>. QED  BY <1>4, <2>1, <2>2
<1>8. ASSUME NEW k \in DOMAIN frames
      PROVE  /\ k < Current => frames'[k] = frames[k]
             /\ ~(k < Current) => DOMAIN frames'[k].logs = {}
  <2>1. frames'[k] = g(k)
    BY <1>5
  <2>. HIDE DEF g
  <2>. QED  BY <1>7, <2>1
<1>9. ASSUME NEW k \in DOMAIN frames
      PROVE  /\ frames'[k].caller = frames[k].caller
             /\ frames'[k].type = frames[k].type
             /\ frames'[k].from = frames[k].from /\ frames'[k].to = frames[k].to
             /\ frames'[k].value = frames[k].value
             /\ frames[k].error \/ k = Current => frames'[k].error
  <2>1. frames'[k] = g(k)
    BY <1>5
  <2>. HIDE DEF g
  <2>. QED  BY <1>4, <2>1
<1>. QED  BY <1>5, <1>6, <1>8, <1>9

\* A revert takes back what the frame and those under it have done, in the
\* journal and in the logs.
LEMMA RevertKeeps ==
  ASSUME EvmInv, Runs, Revert
  PROVE  EvmInv'
<1>. DEFINE Rec == [frame : Nat, self : Addr, mark : Nat]
            top == Len(open)
<1>1. EvmTypeOK /\ StackInv /\ LogsAreJournal
  BY DEF EvmInv
<1>2. /\ top \in DOMAIN open
      /\ Current = open[top].frame /\ Last(open).mark = open[top].mark
      /\ open[top].mark \in 0..Len(journal)
  BY Uppermost DEF Runs
<1>3. /\ Len(journal) \in Nat /\ DOMAIN journal = 1..Len(journal)
      /\ journal \in Seq(EventRec)
      /\ Len(open) \in Nat /\ DOMAIN open = 1..Len(open)
      /\ \A m \in DOMAIN open : open[m].frame \in Nat /\ open[m].mark \in Nat
  BY <1>1, Shapes
<1>4. /\ open' \in Seq(Rec)
      /\ \A m \in DOMAIN open' : m \in DOMAIN open /\ m < top /\ open'[m] = open[m]
      /\ \A m \in DOMAIN open' : \A n \in 1..(m - 1) : n \in DOMAIN open'
  <2>1. /\ open' \in Seq(Rec) /\ DOMAIN open' = 1..(Len(open) - 1)
        /\ \A m \in DOMAIN open' : m \in DOMAIN open /\ open'[m] = open[m]
    BY <1>1, Shapes, Top DEF Revert, Runs, Leave
  <2>. QED  BY <1>3, <2>1
<1>5. /\ journal' \in Seq(EventRec) /\ Len(journal') = open[top].mark
      /\ DOMAIN journal' = 1..open[top].mark
      /\ \A i \in DOMAIN journal' : i \in DOMAIN journal /\ journal'[i] = journal[i]
  <2>1. journal' = SubSeq(journal, 1, open[top].mark)
    BY <1>2 DEF Revert
  <2>2. /\ journal' \in Seq(EventRec) /\ Len(journal') = open[top].mark
        /\ \A i \in 1..open[top].mark : journal'[i] = journal[i]
    BY <1>2, <1>3, <2>1, Prefix
  <2>3. DOMAIN journal' = 1..open[top].mark
    BY <2>2, LenProperties
  <2>. QED  BY <1>2, <1>3, <2>2, <2>3
<1>6. EvmTypeOK'
  BY <1>4, <1>5, RevertedFrames DEF EvmTypeOK
<1>7. StackInv'
  <2>1. \A k \in DOMAIN frames' : frames'[k].caller < k
    BY <1>1, RevertedFrames DEF StackInv
  <2>2. ASSUME NEW m \in DOMAIN open'
        PROVE  open'[m].mark <= Len(journal')
    <3>1. m \in 1..(top - 1) /\ open'[m] = open[m]
      BY <1>3, <1>4, <2>2
    <3>. QED  BY <1>1, <1>2, <1>5, <3>1 DEF StackInv
  <2>3. ASSUME NEW m \in DOMAIN open'
        PROVE  /\ open'[m].frame \in DOMAIN frames'
               /\ \A n \in 1..(m - 1) : /\ open'[n].frame < open'[m].frame
                                        /\ open'[n].mark <= open'[m].mark
    BY <1>1, <1>4, <2>3, RevertedFrames DEF StackInv
  <2>. QED  BY <2>1, <2>2, <2>3 DEF StackInv
<1>8. \A i, k : SameSide(i, k) => SameSide(i, k)'
  BY <1>4 DEF SameSide
<1>9. \A i, k : SameSide(i, k) => (i <= open[top].mark <=> k < Current)
  BY <1>2 DEF SameSide
<1>10. LogsAreJournal'
  <2>1. ASSUME NEW i \in DOMAIN journal', journal'[i].kind # "native"
        PROVE  \E k \in DOMAIN frames' : /\ SameSide(i, k)'
                                         /\ \E l \in DOMAIN frames'[k].logs :
                                              frames'[k].logs[l] = journal'[i]
    <3>1. PICK k \in DOMAIN frames : /\ SameSide(i, k)
                                     /\ \E l \in DOMAIN frames[k].logs :
                                         frames[k].logs[l] = journal[i]
      BY <1>1, <1>5, <2>1 DEF LogsAreJournal
    <3>2. k < Current
      BY <1>2, <1>5, <1>9, <3>1
    <3>. QED  BY <1>5, <1>8, <3>1, <3>2, RevertedFrames
  <2>2. ASSUME NEW k \in DOMAIN frames', NEW l \in DOMAIN frames'[k].logs
        PROVE  /\ frames'[k].logs[l].kind # "native"
               /\ \E i \in DOMAIN journal' : /\ SameSide(i, k)'
                                             /\ journal'[i] = frames'[k].logs[l]
    <3>1. k \in DOMAIN frames /\ k < Current /\ frames'[k] = frames[k]
      BY <2>2, RevertedFrames
    <3>2. /\ frames[k].logs[l].kind # "native"
          /\ \E i \in DOMAIN journal : SameSide(i, k) /\ journal[i] = frames[k].logs[l]
      BY <1>1, <3>1 DEF LogsAreJournal
    <3>3. PICK i \in DOMAIN journal : SameSide(i, k) /\ journal[i] = frames[k].logs[l]
      BY <3>2
    <3>4. i \in DOMAIN journal'
      BY <1>2, <1>3, <1>5, <1>9, <3>1, <3>3
    <3>. QED  BY <1>5, <1>8, <3>1, <3>2, <3>3, <3>4
  <2>. QED  BY <2>1, <2>2 DEF LogsAreJournal
<1>. QED  BY <1>6, <1>7, <1>10 DEF EvmInv

\* Code that runs emits the event e, an NFT's without an amount.
Emitted(e) ==
  /\ open # <<>> /\ e.kind # "native" /\ (e.kind = "nft" => e.amount = 0)
  /\ Emit(e)

\* A step of the execution enters a frame, emits an event, returns or reverts.
LEMMA ExecuteSteps ==
  ASSUME EvmInv, Execute
  PROVE  \/ \E f, moved : Entered(f, moved)
         \/ \E e \in EventRec : Emitted(e)
         \/ Return
         \/ Runs /\ Revert
<1>1. EvmTypeOK /\ StackInv
  BY DEF EvmInv
<1>2. /\ Len(frames) \in Nat /\ DOMAIN frames = 1..Len(frames)
      /\ Len(journal) \in Nat /\ Sender \in Addr /\ Contract \subseteq Addr
      /\ Coin \subseteq Contract /\ <<>> \in Seq(EventRec)
      /\ TxValue \subseteq Nat /\ Value \subseteq Nat
      /\ TransferAmount \subseteq Nat /\ ApproveAmount \subseteq Nat
  BY <1>1, Shapes, EvmAssumption, EmptySeq DEF Addr
<1>3. open # <<>> => /\ Current \in DOMAIN frames /\ Self \in Addr
                     /\ frames[Current].value \in Nat
  <2>. SUFFICES ASSUME open # <<>>
                PROVE  /\ Current \in DOMAIN frames /\ Self \in Addr
                       /\ frames[Current].value \in Nat
    OBVIOUS
  <2>1. Current \in DOMAIN frames /\ Self \in Addr
    BY Uppermost
  <2>2. frames[Current] \in FrameRec
    BY <1>1, <2>1, Shapes
  <2>. QED  BY <2>1, <2>2 DEF FrameRec
<1>4. ASSUME NEW type \in {"CALL", "DELEGATECALL", "SELFDESTRUCT"},
             NEW from \in Addr, NEW to \in Addr, NEW v \in Nat
      PROVE  LET f == Frame(type, from, to, v)
             IN  /\ f \in FrameRec /\ f.logs = <<>> /\ f.caller < Len(frames) + 1
                 /\ open # <<>> => f.caller = Current
                 /\ f.type = type /\ f.value = v
                 /\ ValueEvent(f) = Event("native", from, from, to, v)
  <2>. DEFINE around == IF open = <<>> THEN 0 ELSE Last(open).frame
  <2>1. /\ around \in Nat /\ around < Len(frames) + 1
        /\ open # <<>> => around = Current
    BY <1>2, <1>3 DEF Current
  <2>. HIDE DEF around
  <2>2. Frame(type, from, to, v)
          = [type |-> type, from |-> from, to |-> to, value |-> v, error |-> FALSE,
             logs |-> <<>>, caller |-> around]
    BY DEF Frame, around
  <2>. QED  BY <1>2, <2>1, <2>2 DEF FrameRec, ValueEvent
<1>5. ASSUME NEW type \in {"CALL", "SELFDESTRUCT"},
             NEW from \in Addr, NEW to \in Addr, NEW v \in Nat,
             frames' = Append(frames, Frame(type, from, to, v)),
             journal' = journal \o Moved(from, to, v),
             \/ \E self \in Addr : open' = Append(open, Running(self))
             \/ open # <<>> /\ open' = Front(open)
      PROVE  \E f, moved : Entered(f, moved)
  <2>. DEFINE f == Frame(type, from, to, v)
              moved == Moved(from, to, v)
  <2>1. Event("native", from, from, to, v) \in EventRec
    BY DEF Event, EventRec
  <2>2. moved \in Seq(EventRec) /\ \A i \in DOMAIN moved : moved[i].kind = "native"
    BY <1>2, <2>1 DEF Moved, Event
  <2>3. \/ moved = <<>> /\ f.value = 0
        \/ moved = <<ValueEvent(f)>> /\ f.value > 0
    BY <1>4 DEF Moved
  <2>4. f \in FrameRec /\ f.logs = <<>> /\ f.caller < Len(frames) + 1
        /\ (open # <<>> => f.caller = Current)
    BY <1>4
  <2>5. Entered(f, moved)
    <3>. HIDE DEF f, moved
    <3>1. frames' = Append(frames, f) /\ journal' = journal \o moved
      BY <1>5 DEF f, moved
    <3>. QED  BY <1>5, <2>2, <2>3, <2>4, <3>1 DEF Entered
  <2>. QED  BY <2>5
<1>6. ASSUME NEW to \in Contract, NEW v \in TxValue, Begin(to, v)
      PROVE  \E f, moved : Entered(f, moved)
  BY <1>2, <1>5, <1>6 DEF Begin, Enter
<1>7. ASSUME NEW to \in Addr, NEW v \in Value, Call(to, v)
      PROVE  \E f, moved : Entered(f, moved)
  BY <1>2, <1>3, <1>5, <1>7 DEF Call, Enter, Runs
<1>8. ASSUME NEW to \in Contract, DelegateCall(to)
      PROVE  \E f, moved : Entered(f, moved)
  <2>1. journal \in Seq(EventRec) /\ journal' = journal
    BY <1>1, <1>8 DEF EvmTypeOK, DelegateCall
  <2>2. journal' = journal \o <<>>
    BY <2>1, ConcatEmptySeq
  <2>3. Entered(Frame("DELEGATECALL", Self, to, frames[Current].value), <<>>)
    BY <1>2, <1>3, <1>4, <1>8, <2>2 DEF Entered, DelegateCall, Enter, Runs
  <2>. QED  BY <2>3
<1>9. ASSUME NEW to \in Addr, NEW v \in Value, SelfDestruct(to, v)
      PROVE  \E f, moved : Entered(f, moved)
  BY <1>2, <1>3, <1>5, <1>9 DEF SelfDestruct, Leave, Runs
<1>10. ASSUME EmitOfCoin
       PROVE  \E e \in EventRec : Emitted(e)
  BY <1>2, <1>3, <1>10 DEF EmitOfCoin, Runs, Event, EventRec, Emitted
<1>11. ASSUME EmitOfNft
       PROVE  \E e \in EventRec : Emitted(e)
  <2>1. open # <<>> /\ Self \in Addr
    BY <1>3, <1>11 DEF EmitOfNft, Runs
  <2>2. CASE Emit(Event("nft", Self, Self, Sender, 0))
    <3>1. Event("nft", Self, Self, Sender, 0) \in EventRec
      BY <1>2, <2>1 DEF Event, EventRec
    <3>. QED  BY <2>1, <2>2, <3>1 DEF Event, Emitted
  <2>3. ASSUME NEW operator \in Contract, NEW yes \in {0, 1},
               Emit(Event("operator", Self, Sender, operator, yes))
        PROVE  \E e \in EventRec : Emitted(e)
    <3>1. Event("operator", Self, Sender, operator, yes) \in EventRec
      BY <1>2, <2>1 DEF Event, EventRec
    <3>. QED  BY <2>1, <2>3, <3>1 DEF Event, Emitted
  <2>. QED  BY <1>11, <2>2, <2>3 DEF EmitOfNft
<1>. QED  BY <1>6, <1>7, <1>8, <1>9, <1>10, <1>11 DEF Execute, Revert

\* Every step of the execution keeps the invariant.
LEMMA ExecuteKeeps ==
  ASSUME EvmInv, Execute
  PROVE  EvmInv'
BY ExecuteSteps, EnteredKeeps, EmittedKeeps, ReturnKeeps, RevertKeeps DEF Emitted

-----------------------------------------------------------------------------
\* All logs of the tree are the events that count, and no other.
LEMMA AllLogs ==
  ASSUME EvmInv
  PROVE  LET logs == CollectLogs(frames) IN {logs[p] : p \in DOMAIN logs} = Events
<1>. DEFINE logs == CollectLogs(frames)
<1>1. /\ DOMAIN logs = Places(frames)
      /\ \A p \in Places(frames) : logs[p] = frames[p[1]].logs[p[2]]
  BY DEF CollectLogs
<1>2. ASSUME NEW p \in DOMAIN logs
      PROVE  logs[p] \in Events
  <2>1. PICK k \in DOMAIN frames : \E l \in DOMAIN frames[k].logs : p = <<k, l>>
    BY <1>1, <1>2 DEF Places
  <2>l. PICK l \in DOMAIN frames[k].logs : p = <<k, l>>
    BY <2>1
  <2>2. logs[p] = frames[k].logs[l]
    BY <1>1, <2>l
  <2>3. \E i \in DOMAIN journal :
          journal[i] = frames[k].logs[l] /\ journal[i].kind # "native"
    BY DEF EvmInv, LogsAreJournal
  <2>. QED  BY <2>2, <2>3 DEF Events
<1>3. ASSUME NEW i \in DOMAIN journal, journal[i].kind # "native"
      PROVE  \E p \in DOMAIN logs : logs[p] = journal[i]
  <2>1. PICK k \in DOMAIN frames : \E l \in DOMAIN frames[k].logs :
          frames[k].logs[l] = journal[i]
    BY <1>3 DEF EvmInv, LogsAreJournal
  <2>l. PICK l \in DOMAIN frames[k].logs : frames[k].logs[l] = journal[i]
    BY <2>1
  <2>2. <<k, l>> \in Places(frames)
    BY DEF Places
  <2>. QED  BY <1>1, <2>l, <2>2
<1>. HIDE DEF logs
<1>. QED  BY <1>2, <1>3 DEF Events, logs

\* What a node tells of an execution that has ended, and what is made of it.
LEMMA RunKeeps ==
  ASSUME EvmInv, NEW tracing \in Tracing, NEW alchemy \in BOOLEAN,
         Run(tracing, alchemy)
  PROVE  RunInv'
<1>1. frames' = frames /\ open' = open /\ journal' = journal
  BY DEF Run, evmVars
<1>2. EvmInv'
  BY <1>1 DEF EvmInv, EvmTypeOK, StackInv, LogsAreJournal, SameSide
<1>3. /\ raw' = Simulated(tracing, alchemy)
      /\ result'.changes = AssetChangesOf(raw')
      /\ result'.flags = Analyze(Sender, raw', AssetChangesOf(raw'))
      /\ result'.riskLevel = DeriveRiskLevel(result'.flags)
  BY DEF Run
<1>4. /\ raw'.callTrace \in {<<>>, frames}
      /\ raw'.logs \in {<<>>, CollectLogs(frames)}
      /\ raw'.alchemyChanges \in {{}, ConvertAlchemyChanges(AlchemyItems)}
      /\ raw'.alchemyChanges # {} => raw'.logs = <<>> /\ ~frames[1].error
  BY <1>3 DEF Simulated, TraceCall
<1>5. raw' # None
  <2>1. "success" \in DOMAIN raw'
    BY <1>3 DEF Simulated
  <2>2. DOMAIN None = {"none"}
    BY DEF None
  <2>. QED  BY <2>1, <2>2
<1>6. Events' = Events /\ AlchemyItems' = AlchemyItems /\ None' = None
  BY <1>1 DEF Events, AlchemyItems, None
<1>7. ToldOK'
  <2>1. Executed'
    BY <1>1 DEF Run, Executed
  <2>2. raw'.logs # <<>> => {raw'.logs[p] : p \in DOMAIN raw'.logs} = Events
    BY <1>4, AllLogs
  <2>. QED  BY <1>1, <1>4, <1>6, <2>1, <2>2 DEF ToldOK, FromAlchemy, FromLogs
<1>. QED  BY <1>2, <1>3, <1>5, <1>6, <1>7 DEF RunInv, AnswerInv, AssetChangesOf

\* RunInv holds at the start and no step breaks it.
LEMMA RunInvIsInductive ==
  /\ Init => RunInv
  /\ RunInv /\ [Next]_vars => RunInv'
<1>1. ASSUME Init PROVE RunInv
  <2>1. EvmInv
    BY <1>1, EmptySeq DEF Init, EvmInit, EvmInv, EvmTypeOK, StackInv, LogsAreJournal
  <2>. QED  BY <1>1, <2>1 DEF Init, RunInv, AnswerInv
<1>2. ASSUME RunInv, raw = None, Execute, UNCHANGED <<raw, result>>
      PROVE  RunInv'
  BY <1>2, ExecuteKeeps DEF RunInv, AnswerInv, None
<1>3. ASSUME RunInv, UNCHANGED vars
      PROVE  RunInv'
  <2>1. EvmInv'
    BY <1>3 DEF RunInv, vars, evmVars, EvmInv, EvmTypeOK, StackInv, LogsAreJournal,
                SameSide
  <2>2. AnswerInv'
    BY <1>3 DEF RunInv, vars, evmVars, AnswerInv, ToldOK, None, Executed, Events,
                AlchemyItems, FromAlchemy, FromLogs, AssetChangesOf
  <2>. QED  BY <2>1, <2>2 DEF RunInv
<1>. QED  BY <1>1, <1>2, <1>3, RunKeeps DEF Next, RunInv

\* Whatever is executed, the journal and the logs agree on what has been taken
\* back, and an answer is about what the execution has come to.
THEOREM RunCorrect == Spec => []RunInv
  BY RunInvIsInductive, PTL DEF Spec

-----------------------------------------------------------------------------
\* What an answer is made of.
LEMMA Answers ==
  ASSUME RunInv, Answered
  PROVE  /\ ToldOK
         /\ result.changes = AssetChangesOf(raw)
         /\ result.flags = Analyze(Sender, raw, AssetChangesOf(raw))
         /\ result.riskLevel = DeriveRiskLevel(result.flags)
  BY DEF RunInv, AnswerInv, Answered

\* One critical flag makes a result critical, whatever the others are.
LEMMA OneIsEnough ==
  ASSUME NEW flags, NEW f \in flags, f.severity = "critical"
  PROVE  DeriveRiskLevel(flags) = "critical"
  BY DEF DeriveRiskLevel

\* An event is among the logs of an answer, if it has any.
LEMMA EventIsLogged ==
  ASSUME ToldOK, FromLogs, NEW i \in DOMAIN journal, journal[i].kind # "native"
  PROVE  \E p \in DOMAIN raw.logs : raw.logs[p] = journal[i]
<1>1. journal[i] \in Events
  BY DEF Events
<1>. QED  BY <1>1 DEF ToldOK, FromLogs

\* With Alchemy's changes, an answer shows what an event brings and what it takes.
LEMMA EventIsItem ==
  ASSUME ToldOK, FromAlchemy, NEW i \in DOMAIN journal
  PROVE  /\ journal[i].kind = "approve" =>
              \E c \in raw.alchemyChanges : c.type = "erc20" /\ c.raw = journal[i].amount
         /\ journal[i].kind = "native" =>
              \E c \in raw.alchemyChanges :
                c.type = "native" /\ c.address = journal[i].from
                  /\ c.raw = -journal[i].amount
<1>. DEFINE e == journal[i]
<1>1. raw.alchemyChanges = ConvertAlchemyChanges(AlchemyItems)
  BY DEF ToldOK, FromAlchemy
<1>2. ASSUME e.kind # "operator"
      PROVE  ConvertAlchemyChange(AlchemyItem(e), i) \subseteq raw.alchemyChanges
  BY <1>1, <1>2 DEF ConvertAlchemyChanges, AlchemyItems
<1>3. ASSUME e.kind = "approve"
      PROVE  \E c \in raw.alchemyChanges : c.type = "erc20" /\ c.raw = e.amount
  <2>1. AlchemyItem(e) = Item("ERC20", e, CoinDecimals)
    BY <1>3 DEF AlchemyItem
  <2>2. ConvertAlchemyChange(AlchemyItem(e), i)
          = BothSides(AlchemyItem(e), "erc20", e.contract, CoinUnit, i)
    BY <2>1 DEF ConvertAlchemyChange, Item, CoinUnit
  <2>3. \E c \in BothSides(AlchemyItem(e), "erc20", e.contract, CoinUnit, i) :
          c.type = "erc20" /\ c.raw = e.amount
    BY <2>1 DEF BothSides, AssetChange, Item
  <2>. QED  BY <1>2, <1>3, <2>2, <2>3
<1>4. ASSUME e.kind = "native"
      PROVE  \E c \in raw.alchemyChanges :
               c.type = "native" /\ c.address = e.from /\ c.raw = -e.amount
  <2>1. AlchemyItem(e) = Item("NATIVE", e, NativeDecimals)
    BY <1>4 DEF AlchemyItem
  <2>2. ConvertAlchemyChange(AlchemyItem(e), i)
          = BothSides(AlchemyItem(e), "native", NoToken, 0, i)
    BY <2>1 DEF ConvertAlchemyChange, Item
  <2>3. \E c \in BothSides(AlchemyItem(e), "native", NoToken, 0, i) :
          c.type = "native" /\ c.address = e.from /\ c.raw = -e.amount
    BY <2>1 DEF BothSides, AssetChange, Item
  <2>. QED  BY <1>2, <1>4, <2>2, <2>3
<1>. QED  BY <1>3, <1>4

\* Every answer that knows of something grave has a critical flag.
LEMMA GraveIsFlagged ==
  ASSUME RunInv, Answered, Grave
  PROVE  \E f \in result.flags : f.severity = "critical"
<1>. DEFINE changes == AssetChangesOf(raw)
<1>1. /\ ToldOK
      /\ result.flags = Analyze(Sender, raw, changes)
  BY Answers
<1>2. ASSUME NEW c \in changes, c.type = "erc20", c.raw = MaxUint256
      PROVE  \E f \in result.flags : f.severity = "critical"
  <2>1. UnlimitedApproval("critical", c) \in CheckUnlimitedApprovals(changes)
    BY <1>2 DEF CheckUnlimitedApprovals, Erc20
  <2>2. UnlimitedApproval("critical", c).severity = "critical"
    BY DEF UnlimitedApproval, Flag
  <2>. QED  BY <1>1, <2>1, <2>2 DEF Analyze
<1>3. CASE Unlimited # {} /\ FromAlchemy
  <2>1. PICK i \in DOMAIN journal :
          journal[i].kind = "approve" /\ journal[i].amount = MaxUint256
    BY <1>3 DEF Unlimited, Happened
  <2>2. changes = raw.alchemyChanges
    BY <1>3 DEF AssetChangesOf, FromAlchemy
  <2>. QED  BY <1>1, <1>2, <1>3, <2>1, <2>2, EventIsItem
<1>4. CASE Unlimited # {} /\ FromLogs
  <2>1. PICK i \in DOMAIN journal :
          journal[i].kind = "approve" /\ journal[i].amount = MaxUint256
    BY <1>4 DEF Unlimited, Happened
  <2>2. PICK p \in DOMAIN raw.logs : raw.logs[p] = journal[i]
    BY <1>1, <1>4, <2>1, EventIsLogged
  <2>3. changes = Decode(raw.logs, raw.callTrace)
    BY <1>1, <1>4 DEF ToldOK, FromAlchemy, AssetChangesOf
  <2>4. \E c \in ApprovalChanges(raw.logs) : c.type = "erc20" /\ c.raw = MaxUint256
    <3>. DEFINE c == AssetChange("erc20", raw.logs[p].to, raw.logs[p].contract, 0,
                       raw.logs[p].amount,
                       NormaliseHumanAmount(FormatAmount(raw.logs[p].amount, 0)), p)
    <3>1. c \in ApprovalChanges(raw.logs)
      BY <2>1, <2>2 DEF ApprovalChanges
    <3>2. c.type = "erc20" /\ c.raw = MaxUint256
      BY <2>1, <2>2 DEF AssetChange
    <3>. QED  BY <3>1, <3>2
  <2>. QED  BY <1>2, <2>3, <2>4 DEF Decode
<1>5. CASE Granted # {} /\ FromLogs
  <2>1. PICK i \in DOMAIN journal : journal[i].kind = "operator"
    BY <1>5 DEF Granted, Happened
  <2>2. PICK p \in DOMAIN raw.logs : raw.logs[p] = journal[i]
    BY <1>1, <1>5, <2>1, EventIsLogged
  <2>3. \E f \in CheckNFTApprovals(raw.logs) : f.severity = "critical"
    <3>1. Flag("SET_APPROVAL_FOR_ALL", "critical", raw.logs[p].contract)
            \in CheckNFTApprovals(raw.logs)
      BY <2>1, <2>2 DEF CheckNFTApprovals
    <3>. QED  BY <3>1 DEF Flag
  <2>. QED  BY <1>1, <2>3 DEF Analyze
<1>6. CASE Destructed \ Failed # {} /\ raw.callTrace # <<>>
  <2>1. raw.callTrace = frames
    BY <1>1, <1>6 DEF ToldOK
  <2>2. PICK i \in DOMAIN frames : frames[i].type = "SELFDESTRUCT"
    BY <1>6 DEF Destructed
  <2>3. Flag("SELFDESTRUCT", "critical", frames[i].from)
          \in CheckSelfdestruct(raw.callTrace)
    BY <2>1, <2>2 DEF CheckSelfdestruct, OfType
  <2>. QED  BY <1>1, <2>3 DEF Analyze, Flag
<1>. QED  BY <1>3, <1>4, <1>5, <1>6 DEF Grave

\* What an answer knows of that is grave makes it critical.
THEOREM GraveMakesCritical == Spec => []GraveIsCritical
<1>1. ASSUME RunInv, Answered, Grave
      PROVE  result.riskLevel = "critical"
  BY <1>1, GraveIsFlagged, OneIsEnough, Answers
<1>2. RunInv => GraveIsCritical
  BY <1>1 DEF GraveIsCritical
<1>. QED  BY <1>2, RunCorrect, PTL

\* A result is critical because of a flag, and only three rules make such flags.
LEMMA CriticalFlags ==
  ASSUME NEW from, NEW r, NEW changes,
         DeriveRiskLevel(Analyze(from, r, changes)) = "critical"
  PROVE  \/ \E c \in changes \cup r.alchemyChanges : c.type = "erc20" /\ c.raw = MaxUint256
         \/ \E p \in DOMAIN r.logs : r.logs[p].kind = "operator"
         \/ \E i \in DOMAIN r.callTrace : r.callTrace[i].type = "SELFDESTRUCT"
<1>1. PICK f \in Analyze(from, r, changes) : f.severity = "critical"
  BY DEF DeriveRiskLevel
<1>2. \/ f \in CheckUnlimitedApprovals(changes)
      \/ f \in CheckUnlimitedApprovals(r.alchemyChanges)
      \/ f \in CheckNFTApprovals(r.logs)
      \/ f \in CheckSelfdestruct(r.callTrace)
  <2>1. \A c : /\ UnlimitedApproval("warning", c).severity # "critical"
               /\ Flag("HIGH_NATIVE_TRANSFER", "warning", c).severity # "critical"
               /\ Flag("UNEXPECTED_DELEGATECALL", "warning", c).severity # "critical"
               /\ Flag("REENTRANCY_PATTERN", "warning", c).severity # "critical"
    BY DEF UnlimitedApproval, Flag
  <2>2. f \in CheckAlchemyApprovals(r.alchemyChanges) =>
          f \in CheckUnlimitedApprovals(r.alchemyChanges)
    BY <1>1, <2>1 DEF CheckAlchemyApprovals
  <2>3. f \notin CheckHighNativeTransfer(from, changes)
    BY <1>1, <2>1 DEF CheckHighNativeTransfer
  <2>4. f \notin CheckDelegatecall(r.callTrace)
    BY <1>1, <2>1 DEF CheckDelegatecall
  <2>5. f \notin CheckReentrancy(r.callTrace)
    BY <1>1, <2>1 DEF CheckReentrancy
  <2>. QED  BY <1>1, <2>2, <2>3, <2>4, <2>5 DEF Analyze
<1>3. ASSUME NEW s, f \in CheckUnlimitedApprovals(s)
      PROVE  \E c \in s : c.type = "erc20" /\ c.raw = MaxUint256
  BY <1>3 DEF CheckUnlimitedApprovals, Erc20
<1>4. f \in CheckNFTApprovals(r.logs) => \E p \in DOMAIN r.logs : r.logs[p].kind = "operator"
  BY DEF CheckNFTApprovals
<1>5. f \in CheckSelfdestruct(r.callTrace) =>
        \E i \in DOMAIN r.callTrace : r.callTrace[i].type = "SELFDESTRUCT"
  BY DEF CheckSelfdestruct, OfType
<1>. QED  BY <1>2, <1>3, <1>4, <1>5

\* A log of an answer is an event that has happened.
LEMMA LogHasHappened ==
  ASSUME ToldOK, NEW p \in DOMAIN raw.logs
  PROVE  FromLogs /\ \E i \in DOMAIN journal : journal[i] = raw.logs[p]
<1>1. FromLogs
  BY DEF FromLogs
<1>2. raw.logs[p] \in Events
  BY <1>1 DEF ToldOK, FromLogs
<1>. QED  BY <1>1, <1>2 DEF Events

\* A coin's change of MaxUint256 comes from an approval or from movements.
LEMMA WhereMaxComesFrom ==
  ASSUME RunInv, Answered,
         NEW c \in AssetChangesOf(raw), c.type = "erc20", c.raw = MaxUint256
  PROVE  \/ Unlimited # {} /\ (FromAlchemy \/ FromLogs)
         \/ \E i \in DOMAIN journal : /\ journal[i].kind \in {"transfer", "nft"}
                                      /\ c.token = journal[i].contract
<1>1. ToldOK
  BY Answers
<1>2. CASE FromAlchemy
  <2>1. c \in ConvertAlchemyChanges(AlchemyItems)
    BY <1>1, <1>2 DEF ToldOK, FromAlchemy, AssetChangesOf
  <2>2. PICK i \in DOMAIN journal : /\ journal[i].kind # "operator"
                                    /\ c \in ConvertAlchemyChange(AlchemyItem(journal[i]), i)
    BY <2>1 DEF ConvertAlchemyChanges, AlchemyItems
  <2>. DEFINE e == journal[i]
  <2>3. e.kind \in {"native", "transfer", "approve", "nft"} /\ e.amount \in Nat
    <3>1. e \in EventRec
      BY Shapes DEF RunInv, EvmInv
    <3>. QED  BY <2>2, <3>1 DEF EventRec
  <2>4. CASE e.kind \in {"transfer", "approve"}
    <3>1. AlchemyItem(e) = Item("ERC20", e, CoinDecimals)
      BY <2>4 DEF AlchemyItem
    <3>2. c \in BothSides(AlchemyItem(e), "erc20", e.contract, CoinUnit, i)
      BY <2>2, <3>1 DEF ConvertAlchemyChange, Item, CoinUnit
    <3>3. c.token = e.contract /\ (c.raw = e.amount \/ c.raw = -e.amount)
      BY <3>1, <3>2 DEF BothSides, AssetChange, Item
    <3>4. e.amount = MaxUint256
      BY <2>3, <3>3, RiskAssumption
    <3>. QED  BY <1>2, <2>4, <3>3, <3>4 DEF Unlimited, Happened
  <2>5. CASE e.kind = "native"
    <3>1. AlchemyItem(e) = Item("NATIVE", e, NativeDecimals)
      BY <2>5 DEF AlchemyItem
    <3>2. c \in BothSides(AlchemyItem(e), "native", NoToken, 0, i)
      BY <2>2, <3>1 DEF ConvertAlchemyChange, Item
    <3>3. c.type = "native"
      BY <3>2 DEF BothSides, AssetChange
    <3>. QED  BY <3>3
  <2>6. CASE e.kind = "nft"
    <3>1. AlchemyItem(e) = Item("ERC721", e, 0)
      BY <2>6 DEF AlchemyItem
    <3>2. c.type = "erc721"
      BY <2>2, <3>1 DEF ConvertAlchemyChange, Item, AssetChange
    <3>. QED  BY <3>2
  <2>. QED  BY <2>3, <2>4, <2>5, <2>6
<1>3. CASE ~FromAlchemy
  <2>1. c \in Decode(raw.logs, raw.callTrace)
    BY <1>3 DEF FromAlchemy, AssetChangesOf
  <2>2. CASE c \in ExtractNativeChanges(raw.callTrace)
    <3>1. \E a, n, h : c = AssetChange("native", a, NoToken, 0, n, h, <<>>)
      BY <2>2, Zenon DEF ExtractNativeChanges
    <3>. QED  BY <3>1 DEF AssetChange
  <2>3. CASE c \in ApprovalChanges(raw.logs)
    <3>1. PICK p \in DOMAIN raw.logs :
            raw.logs[p].kind = "approve" /\ c.raw = raw.logs[p].amount
      BY <2>3 DEF ApprovalChanges, AssetChange
    <3>2. FromLogs /\ \E i \in DOMAIN journal : journal[i] = raw.logs[p]
      BY <1>1, LogHasHappened
    <3>. QED  BY <3>1, <3>2 DEF Unlimited, Happened
  <2>4. CASE c \in TokenChanges(raw.logs)
    <3>1. PICK p \in TransferLogs(raw.logs) : c.token = raw.logs[p].contract
      BY <2>4 DEF TokenChanges, AssetChange
    <3>2. p \in DOMAIN raw.logs /\ raw.logs[p].kind \in {"transfer", "nft"}
      BY DEF TransferLogs
    <3>3. \E i \in DOMAIN journal : journal[i] = raw.logs[p]
      BY <1>1, <3>2, LogHasHappened
    <3>. QED  BY <3>1, <3>2, <3>3
  <2>. QED  BY <2>1, <2>2, <2>3, <2>4 DEF Decode
<1>. QED  BY <1>2, <1>3

\* No answer is critical without something grave that the transaction has done, but
\* for the three false alarms: coins that come to MaxUint256, an operator that is
\* taken back, a SELFDESTRUCT inside a frame that failed.
THEOREM CriticalNeedsReason == Spec => []CriticalHasReason
<1>1. ASSUME RunInv, Answered, result.riskLevel = "critical"
      PROVE  Grave \/ FalseAlarm
  <2>. DEFINE changes == AssetChangesOf(raw)
  <2>1. ToldOK /\ result.changes = changes
    BY <1>1, Answers
  <2>2. DeriveRiskLevel(Analyze(Sender, raw, changes)) = "critical"
    BY <1>1, Answers
  <2>3. ASSUME NEW c \in changes, c.type = "erc20", c.raw = MaxUint256
        PROVE  Grave \/ FalseAlarm
    BY <1>1, <2>1, <2>3, WhereMaxComesFrom
    DEF Grave, FalseAlarm, LooksUnlimited, Happened
  <2>4. raw.alchemyChanges \subseteq changes
    BY DEF AssetChangesOf
  <2>5. ASSUME NEW p \in DOMAIN raw.logs, raw.logs[p].kind = "operator"
        PROVE  Grave \/ FalseAlarm
    <3>1. raw.logs # <<>> /\ Happened("operator") # {}
      BY <2>1, <2>5, LogHasHappened DEF Happened
    <3>. QED  BY <3>1 DEF Grave, FalseAlarm, FromLogs
  <2>6. ASSUME NEW i \in DOMAIN raw.callTrace, raw.callTrace[i].type = "SELFDESTRUCT"
        PROVE  Grave \/ FalseAlarm
    <3>1. raw.callTrace # <<>> /\ Destructed # {}
      BY <2>1, <2>6 DEF ToldOK, Destructed
    <3>. QED  BY <3>1 DEF Grave, FalseAlarm
  <2>7. \/ \E c \in changes \cup raw.alchemyChanges :
             c.type = "erc20" /\ c.raw = MaxUint256
        \/ \E p \in DOMAIN raw.logs : raw.logs[p].kind = "operator"
        \/ \E i \in DOMAIN raw.callTrace : raw.callTrace[i].type = "SELFDESTRUCT"
    BY <2>2, CriticalFlags
  <2>. QED  BY <2>3, <2>4, <2>5, <2>6, <2>7
<1>2. RunInv => CriticalHasReason
  BY <1>1 DEF CriticalHasReason
<1>. QED  BY <1>2, RunCorrect, PTL

\* A contract that is entered again while it runs is flagged.
THEOREM ReentryFlagged == Spec => []ReentryIsFlagged
<1>1. ASSUME RunInv, Answered, raw.callTrace # <<>>,
             NEW i \in DOMAIN frames, NEW j \in InsideOf(i),
             frames[j].to = frames[i].to
      PROVE  Flagged("REENTRANCY_PATTERN", frames[i].to)
  <2>1. j \in DOMAIN frames \ {i}
    <3>1. DOMAIN frames = 1..Len(frames)
      BY <1>1, Shapes DEF RunInv, EvmInv
    <3>. QED  BY <3>1 DEF InsideOf
  <2>2. raw.callTrace = frames
    BY <1>1, Answers DEF ToldOK
  <2>3. Flag("REENTRANCY_PATTERN", "warning", frames[i].to) \in CheckReentrancy(frames)
    BY <1>1, <2>1 DEF CheckReentrancy
  <2>4. Flag("REENTRANCY_PATTERN", "warning", frames[i].to) \in result.flags
    BY <1>1, <2>2, <2>3, Answers DEF Analyze
  <2>. QED  BY <2>4 DEF Flagged, Flag
<1>2. RunInv => ReentryIsFlagged
  BY <1>1 DEF ReentryIsFlagged
<1>. QED  BY <1>2, RunCorrect, PTL

\* A sender whom one of Alchemy's items costs the threshold is warned.
THEOREM ItemLossFlagged == Spec => []ItemLossIsFlagged
<1>1. ASSUME RunInv, Answered, FromAlchemy, NEW i \in Happened("native"), Loss(i)
      PROVE  Flagged("HIGH_NATIVE_TRANSFER", Sender)
  <2>1. /\ i \in DOMAIN journal /\ journal[i].kind = "native"
        /\ journal[i].from = Sender /\ journal[i].amount >= HighNativeThreshold
        /\ journal[i].amount \in Nat
    <3>1. journal[i] \in EventRec
      BY <1>1, Shapes DEF RunInv, EvmInv, Happened
    <3>. QED  BY <1>1, <3>1 DEF Happened, Loss, EventRec
  <2>2. PICK c \in raw.alchemyChanges : /\ c.type = "native" /\ c.address = Sender
                                       /\ c.raw = -journal[i].amount
    BY <1>1, <2>1, Answers, EventIsItem
  <2>3. -c.raw >= HighNativeThreshold
    BY <2>1, <2>2
  <2>4. c \in AssetChangesOf(raw)
    BY <1>1 DEF AssetChangesOf, FromAlchemy
  <2>5. Flag("HIGH_NATIVE_TRANSFER", "warning", Sender)
          \in CheckHighNativeTransfer(Sender, AssetChangesOf(raw))
    BY <2>2, <2>3, <2>4 DEF CheckHighNativeTransfer
  <2>6. Flag("HIGH_NATIVE_TRANSFER", "warning", Sender) \in result.flags
    BY <1>1, <2>5, Answers DEF Analyze
  <2>. QED  BY <2>6 DEF Flagged, Flag
<1>2. RunInv => ItemLossIsFlagged
  BY <1>1 DEF ItemLossIsFlagged
<1>. QED  BY <1>2, RunCorrect, PTL

=============================================================================
