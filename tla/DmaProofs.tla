----------------------------- MODULE DmaProofs ------------------------------
(***************************************************************************)
(* Proofs about DmaAcq for any number of clients, any lengths, FIFO depth  *)
(* and margin: every counted trigger is reported once, the buffer is not   *)
(* written by another trigger while it is read, an undisturbed capture is  *)
(* whole, and a disturbed one does not spoil the next.                     *)
(***************************************************************************)
EXTENDS DmaAcq, TLAPS

---------------------------------------------------------------------------
(* The inductive invariant *)

p == pc["dmadata"]

\* What the FIFO holds.
Words == [beat : Beats, last : BOOLEAN]

\* What the bounds of the types rest on.
RoomInv ==
  /\ \A c \in Clients : pc[c] \in ArmSteps \cup {"idle"}
  /\ dma.room > 0 => dma.at + dma.room <= MaxLen + Margin

\* Counter, burst and what the software knows of them, whatever slipped.
CountInv ==
  /\ burst.trig = IF burst.counted THEN cnt ELSE cnt + 1
  /\ burst.counted => BurstOver
  /\ ~burst.counted => cnt < MaxTrigs
  /\ prev <= cnt
  /\ slipped => disturbed
  /\ IF Reporting THEN sent < prev ELSE sent = prev

\* The latch, as long as no trigger has slipped under the acknowledge.
ReportInv ==
  ~slipped =>
    /\ ~burst.counted => lat /\ cnt = prev /\ ~Processing
    /\ Processing => cnt = prev /\ (lat <=> ~AckHigh)
    /\ cnt # prev => lat /\ cnt = prev + 1
    /\ Reporting => sent + 1 = prev

\* From the reset of the FIFO to the acknowledge it holds beats of one trigger,
\* and none when all is quiet.
FifoInv ==
  p \notin {"readlen", "rston"} =>
    /\ Quiet => fifo = <<>>
    /\ ~slipped => \A j \in 1 .. Len(fifo) : fifo[j].beat[1] = burst.trig

\* Who has begun to arm is not done before the DMA is ready.
ReadyDma == /\ dma.run /\ dma.at = 0
            /\ \E t \in Threads : dma.room = armLen[t] + Margin
            /\ ~raced => dma.room > adcReg
RearmInv ==
  /\ fifoRst => \E t \in Threads : pc[t] = "rstoff"
  /\ ~raced => \A t \in Threads : Arming(t) /\ pc[t] # "readlen" => armLen[t] = adcReg
  /\ Quiet =>
       \/ \E t \in Threads : pc[t] \in {"readlen", "rston", "rstoff", "reset"}
       \/ ReadyDma
       \/ /\ dma.room = 0
          /\ \E t \in Threads : pc[t] = "run" \/ (dma.run /\ pc[t] = "length")

\* An undisturbed acquisition: the beats up to the next are in the DDR and in
\* the FIFO, in order, and there is room for the rest.
Undisturbed == ~disturbed /\ ~raced /\ lat
BeatAt(b, i) == [beat |-> <<b.trig, i>>, last |-> i = b.len]
CaptureInv ==
  Undisturbed =>
    /\ \A t \in Threads : ~Arming(t)
    /\ ~fifoRst /\ adcReg = burst.len /\ dma.run
    /\ burst.next <= burst.len + 1 /\ dma.at + Len(fifo) = burst.next
    /\ dma.at <= burst.len => dma.room > burst.len - dma.at
    /\ dma.at > burst.len => dma.room = 0
    /\ \A i \in 0 .. dma.at - 1 : ddr[i] = <<burst.trig, i>>
    /\ \A j \in 1 .. Len(fifo) : fifo[j] = BeatAt(burst, dma.at + j - 1)
    /\ p \in {"read", "send"} => adclen = burst.len
    /\ p = "send" => msg = WholeBurst

DmaInv == /\ TypeOK /\ RoomInv /\ CountInv /\ ReportInv /\ FifoInv /\ RearmInv
          /\ CaptureInv
---------------------------------------------------------------------------
(* The steps *)

USE DEF history

\* A trigger is latched and a burst begins.
LEMMA TriggerStep ==
  ASSUME DmaInv, Trigger
  PROVE  DmaInv'
<1> DEFINE fresh == [trig |-> cnt + 1, len |-> adcReg, next |-> 0, counted |-> FALSE]
<1>a. /\ cnt \in Nat /\ burst.next \in Nat /\ burst.len \in Nat /\ adcReg \in Nat
      /\ adcReg <= MaxLen /\ ~(0 > adcReg)
  BY DmaAcqAssumption DEF DmaInv, TypeOK
<1>b. /\ ~lat /\ lat' = ~AckHigh
      /\ disturbed' = (disturbed \/ ~Armed)
      /\ slipped' = IF Quiet THEN FALSE ELSE slipped \/ AckHigh
      /\ UNCHANGED <<cnt, dma, ddr, adcReg, fifoRst, fifo, pc, armLen, prev, adclen, msg,
                     sent, raced>>
  BY DEF Trigger, dmaVars, swLocal
<1>c. \/ BurstOver /\ cnt < MaxTrigs /\ burst' = fresh
      \/ ~BurstOver /\ burst' = burst
  BY <1>a DEF Trigger, BurstOver
\* A trigger that leaves nothing slipped has found all quiet.
<1>d. ~slipped' => Quiet /\ burst' = fresh /\ lat'
  BY <1>a, <1>b, <1>c DEF DmaInv, CountInv, ReportInv, Quiet, AckHigh, Processing
<1>e. Armed => ~AckHigh
  BY DEF Armed
<1>1. TypeOK'
  <2>1. burst' \in [trig : 0 .. MaxTrigs, len : 0 .. MaxLen, next : 0 .. MaxLen + 1,
                    counted : BOOLEAN]
    <3>1. CASE burst' = burst
      BY <3>1 DEF DmaInv, TypeOK
    <3>2. CASE cnt < MaxTrigs /\ burst' = fresh
      BY <3>2, <1>a, DmaAcqAssumption
    <3> QED
      BY <3>1, <3>2, <1>c
  <2>2. lat' \in BOOLEAN /\ disturbed' \in BOOLEAN /\ slipped' \in BOOLEAN
    BY <1>b DEF DmaInv, TypeOK, AckHigh, Armed
  <2> QED
    BY <2>1, <2>2, <1>b DEF DmaInv, TypeOK
<1>2. RoomInv'
  BY <1>b DEF DmaInv, RoomInv
<1>3. CountInv' /\ ReportInv'
  <2>1. CountInv'
    <3>1. slipped' => disturbed'
      BY <1>b, <1>e DEF DmaInv, CountInv
    <3>2. CASE burst' = burst
      BY <1>b, <3>1, <3>2 DEF DmaInv, CountInv, BurstOver, Reporting
    <3>3. CASE cnt < MaxTrigs /\ burst' = fresh
      BY <1>b, <3>1, <3>3 DEF DmaInv, CountInv, Reporting
    <3> QED
      BY <3>2, <3>3, <1>c
  <2>2. ReportInv'
    BY <1>b, <1>d DEF DmaInv, CountInv, ReportInv, Quiet, Processing, Reporting, AckHigh
  <2> QED
    BY <2>1, <2>2
<1>f. ~Quiet'
  <2>1. ~burst'.counted
    BY <1>c DEF DmaInv, CountInv
  <2> QED
    BY <2>1 DEF Quiet
<1>4. FifoInv'
  <2>1. \A j \in 1 .. Len(<<>>) : <<>>[j].beat[1] = burst'.trig
    OBVIOUS
  <2> QED
    BY <2>1, <1>b, <1>d, <1>f DEF DmaInv, FifoInv, p
<1>5. RearmInv'
  BY <1>b, <1>f DEF DmaInv, RearmInv, Arming
<1>6. CaptureInv'
  <2> SUFFICES ASSUME Undisturbed' PROVE CaptureInv'
    BY DEF CaptureInv
  <2>1. Armed /\ ~slipped'
    BY <1>b, <1>3 DEF Undisturbed, CountInv
  <2>2. burst' = fresh /\ Quiet
    BY <1>d, <2>1
  <2>3. p \notin {"read", "send"}
    BY <2>2 DEF Quiet, Processing, p
  <2>4. adcReg \in Nat /\ dma.room > adcReg /\ dma.at = 0 /\ fifo = <<>> /\ Len(fifo) = 0
    BY <1>a, <2>1 DEF Armed
  <2>5. ~fifoRst /\ dma.run /\ \A t \in Threads : ~Arming(t)
    BY <2>1 DEF Armed
  <2> QED
    BY <1>b, <2>2, <2>3, <2>4, <2>5 DEF CaptureInv, Arming, p
<1> QED
  BY <1>1, <1>2, <1>3, <1>4, <1>5, <1>6 DEF DmaInv

\* A beat is written, or lost.
LEMMA WriteBeatStep ==
  ASSUME DmaInv, WriteBeat
  PROVE  DmaInv'
<1>1. TypeOK'
  <2>a. /\ burst.trig \in 0 .. MaxTrigs /\ burst.len \in 0 .. MaxLen /\ burst.next \in Nat
        /\ burst.next <= burst.len /\ burst.counted \in BOOLEAN
    BY DmaAcqAssumption DEF DmaInv, TypeOK, WriteBeat, BurstOver
  <2>b. burst' = [trig |-> burst.trig, len |-> burst.len, next |-> burst.next + 1,
                  counted |-> burst.counted]
    BY DEF DmaInv, TypeOK, WriteBeat
  <2>c. burst.next \in 0 .. MaxLen /\ burst.next + 1 \in 0 .. MaxLen + 1
    BY <2>a, DmaAcqAssumption
  <2>1. Beat \in [beat : Beats, last : BOOLEAN]
    BY <2>a, <2>c DEF Beats, Beat
  <2>2. fifo' \in Seq(Words) /\ Len(fifo') <= FifoDepth
    <3>1. fifo \in Seq(Words) /\ Len(fifo) \in Nat /\ Len(fifo) <= FifoDepth
      BY DEF DmaInv, TypeOK, Words
    <3>2. Beat \in Words
      BY <2>1 DEF Words
    <3>3. \/ fifo' = fifo
          \/ ~(Len(fifo) >= FifoDepth) /\ fifo' = Append(fifo, Beat)
      BY DEF WriteBeat
    <3> QED
      BY <3>1, <3>2, <3>3, DmaAcqAssumption
  <2>3. burst' \in [trig : 0 .. MaxTrigs, len : 0 .. MaxLen, next : 0 .. MaxLen + 1,
                    counted : BOOLEAN]
    BY <2>a, <2>b, <2>c
  <2>4. disturbed' \in BOOLEAN
    BY DEF DmaInv, TypeOK, WriteBeat
  <2> QED
    BY <2>2, <2>3, <2>4 DEF DmaInv, TypeOK, WriteBeat, dmaVars, swLocal, Words
<1>2. RoomInv'
  BY DEF DmaInv, WriteBeat, RoomInv, dmaVars, ArmSteps
<1>3. CountInv' /\ ReportInv'
  <2>1. /\ burst'.trig = burst.trig /\ burst'.counted = burst.counted
        /\ UNCHANGED <<lat, cnt, pc, prev, sent, slipped>>
    BY DEF DmaInv, TypeOK, WriteBeat, swLocal
  <2>2. ~burst.counted /\ (disturbed => disturbed')
    BY DEF DmaInv, CountInv, WriteBeat
  <2> QED
    BY <2>1, <2>2 DEF DmaInv, CountInv, ReportInv, Processing, Reporting, AckHigh
<1>a. ~burst.counted /\ ~burst'.counted
  BY DEF DmaInv, TypeOK, CountInv, WriteBeat
<1>b. /\ Len(Append(fifo, Beat)) = Len(fifo) + 1
      /\ \A j \in 1 .. Len(fifo) : Append(fifo, Beat)[j] = fifo[j]
      /\ Append(fifo, Beat)[Len(fifo) + 1] = Beat
      /\ Len(fifo) \in Nat
  BY DEF DmaInv, TypeOK
<1>4. FifoInv'
  <2>1. Beat.beat[1] = burst.trig
    BY DEF Beat
  <2>2. burst'.trig = burst.trig /\ UNCHANGED <<pc, slipped>>
    BY DEF DmaInv, TypeOK, WriteBeat
  <2>3. fifo' = fifo \/ fifo' = Append(fifo, Beat)
    BY DEF WriteBeat
  <2>4. ASSUME p \notin {"readlen", "rston"}, ~slipped, NEW j \in 1 .. Len(fifo')
        PROVE  fifo'[j].beat[1] = burst.trig
    BY <1>b, <2>1, <2>3, <2>4 DEF DmaInv, FifoInv
  <2> QED
    BY <1>a, <2>2, <2>4 DEF FifoInv, p, Quiet
<1>5. RearmInv'
  BY <1>a DEF DmaInv, WriteBeat, RearmInv, dmaVars, Arming, Quiet
<1>6. CaptureInv'
  <2> SUFFICES ASSUME Undisturbed' PROVE CaptureInv'
    BY DEF CaptureInv
  <2>1. Undisturbed /\ ~slipped
    BY DEF Undisturbed, WriteBeat, DmaInv, CountInv
  <2>3. /\ burst'.trig = burst.trig /\ burst'.len = burst.len
        /\ burst'.next = burst.next + 1
        /\ UNCHANGED <<lat, cnt, dmaVars, adcReg, fifoRst, pc, armLen, swLocal, raced>>
    BY DEF DmaInv, TypeOK, WriteBeat
  <2>4. fifo' = Append(fifo, Beat)
    BY DEF WriteBeat, Undisturbed
  <2>5. burst.next <= burst.len /\ p \notin {"read", "send"}
    <3>1. burst.next \in Nat /\ burst.len \in Nat
      BY DmaAcqAssumption DEF DmaInv, TypeOK
    <3>2. ~(burst.next > burst.len)
      BY DEF WriteBeat, BurstOver
    <3>3. ~Processing
      BY <1>a, <2>1 DEF DmaInv, ReportInv
    <3> QED
      BY <3>1, <3>2, <3>3 DEF Processing, p
  <2>6. dma.at + Len(fifo) = burst.next
    BY <2>1 DEF DmaInv, CaptureInv
  <2>7. \A j \in 1 .. Len(fifo') : fifo'[j] = BeatAt(burst', dma.at + j - 1)
    <3>1. Beat = BeatAt(burst, dma.at + (Len(fifo) + 1) - 1)
      <4>1. burst.next = dma.at + (Len(fifo) + 1) - 1
        BY <1>b, <2>6, DmaAcqAssumption DEF DmaInv, TypeOK
      <4> QED
        BY <4>1 DEF Beat, BeatAt
    <3>2. \A j \in 1 .. Len(fifo) : fifo[j] = BeatAt(burst, dma.at + j - 1)
      BY <2>1 DEF DmaInv, CaptureInv
    <3>3. \A i : BeatAt(burst', i) = BeatAt(burst, i)
      BY <2>3 DEF BeatAt
    <3> QED
      BY <1>b, <2>4, <3>1, <3>2, <3>3
  <2>8. \A t \in Threads : ~Arming(t)'
    BY <2>1, <2>3 DEF DmaInv, CaptureInv, Arming
  <2>9. dma'.at + Len(fifo') = burst'.next /\ burst'.next <= burst'.len + 1
    <3>1. dma.at \in Nat /\ burst.next \in Nat /\ burst.len \in Nat
      BY DmaAcqAssumption DEF DmaInv, TypeOK
    <3>2. dma'.at = dma.at /\ Len(fifo') = Len(fifo) + 1
      BY <1>b, <2>3, <2>4 DEF dmaVars
    <3>3. dma.at + (Len(fifo) + 1) = burst.next + 1
      BY <1>b, <2>6, <3>1
    <3>4. burst.next + 1 <= burst.len + 1
      BY <2>5, <3>1
    <3> QED
      BY <2>3, <3>2, <3>3, <3>4
  <2> QED
    BY <2>1, <2>3, <2>5, <2>7, <2>8, <2>9 DEF DmaInv, CaptureInv, dmaVars, p
<1> QED
  BY <1>1, <1>2, <1>3, <1>4, <1>5, <1>6 DEF DmaInv

\* The trigger is counted.
LEMMA CountStep ==
  ASSUME DmaInv, CountTrigger
  PROVE  DmaInv'
<1>a. cnt \in Nat /\ cnt' = cnt + 1 /\ cnt < MaxTrigs /\ prev <= cnt /\ prev \in Nat
      /\ burst.trig = cnt + 1
  BY DmaAcqAssumption DEF DmaInv, TypeOK, CountInv, CountTrigger
<1>b. ~Quiet' /\ ~burst.counted /\ BurstOver
  BY <1>a DEF Quiet, CountTrigger, swLocal
<1>1. TypeOK'
  <2>1. cnt' \in 0 .. MaxTrigs
    BY <1>a, DmaAcqAssumption
  <2>2. burst' = [trig |-> burst.trig, len |-> burst.len, next |-> burst.next,
                  counted |-> TRUE]
    BY DEF DmaInv, TypeOK, CountTrigger
  <2>3. burst' \in [trig : 0 .. MaxTrigs, len : 0 .. MaxLen, next : 0 .. MaxLen + 1,
                    counted : BOOLEAN]
    BY <2>2 DEF DmaInv, TypeOK
  <2> QED
    BY <2>1, <2>3 DEF DmaInv, TypeOK, CountTrigger, dmaVars, swLocal
<1>2. RoomInv'
  BY DEF DmaInv, CountTrigger, RoomInv, dmaVars, ArmSteps
<1>3. CountInv' /\ ReportInv'
  <2>1. /\ burst'.counted /\ burst'.trig = burst.trig /\ BurstOver'
        /\ UNCHANGED <<lat, pc, swLocal, history>>
    BY <1>b DEF DmaInv, TypeOK, CountTrigger, BurstOver
  <2> QED
    BY <1>a, <1>b, <2>1 DEF DmaInv, CountInv, ReportInv, swLocal, Processing, Reporting,
       AckHigh
<1>4. FifoInv'
  BY <1>b DEF DmaInv, TypeOK, CountTrigger, FifoInv, p
<1>5. RearmInv'
  BY <1>b DEF DmaInv, CountTrigger, RearmInv, Arming
<1>6. CaptureInv'
  <2>1. /\ burst'.trig = burst.trig /\ burst'.len = burst.len /\ burst'.next = burst.next
        /\ UNCHANGED <<lat, dmaVars, adcReg, fifoRst, fifo, pc, armLen, swLocal, history>>
    BY DEF DmaInv, TypeOK, CountTrigger
  <2>2. WholeBurst' = WholeBurst /\ \A i : BeatAt(burst', i) = BeatAt(burst, i)
    BY <2>1 DEF WholeBurst, BeatAt, swLocal
  <2> QED
    BY <2>1, <2>2 DEF DmaInv, CaptureInv, Undisturbed, dmaVars, swLocal, Arming, p
<1> QED
  BY <1>1, <1>2, <1>3, <1>4, <1>5, <1>6 DEF DmaInv

\* The DMA takes a beat.
LEMMA MoveBeatStep ==
  ASSUME DmaInv, MoveBeat
  PROVE  DmaInv'
<1>1. TypeOK'
  <2>1. Head(fifo) \in Words /\ Tail(fifo) \in Seq(Words) /\ Len(Tail(fifo)) <= FifoDepth
    <3>1. fifo \in Seq(Words) /\ fifo # <<>> /\ Len(fifo) <= FifoDepth
      BY DEF DmaInv, TypeOK, MoveBeat, Words
    <3>2. Len(Tail(fifo)) = Len(fifo) - 1 /\ Len(fifo) \in Nat
      BY <3>1
    <3> QED
      BY <3>1, <3>2, DmaAcqAssumption
  <2>2. PICK r \in {0, dma.room - 1} :
           dma' = [run |-> dma.run, room |-> r, at |-> dma.at + 1]
    BY DEF DmaInv, TypeOK, MoveBeat
  <2>3. r \in 0 .. MaxLen + Margin /\ dma.at + 1 \in 0 .. MaxLen + Margin /\ dma.run
    <3>1. /\ dma.run /\ dma.room > 0 /\ dma.at + dma.room <= MaxLen + Margin
      BY DEF DmaInv, RoomInv, MoveBeat
    <3>2. MaxLen + Margin \in Nat
      BY DmaAcqAssumption
    <3>3. dma.room \in Nat /\ dma.at \in Nat
      BY <3>2 DEF DmaInv, TypeOK
    <3> QED
      BY <3>1, <3>2, <3>3
  <2>4. dma' \in [run : BOOLEAN, room : 0 .. MaxLen + Margin, at : 0 .. MaxLen + Margin]
    BY <2>2, <2>3
  <2>5. ddr' \in [Addrs -> Beats]
    BY <2>1 DEF DmaInv, TypeOK, MoveBeat, Words
  <2>6. history' = history /\ disturbed \in BOOLEAN /\ slipped \in BOOLEAN
        /\ raced \in BOOLEAN
    BY DEF DmaInv, TypeOK, MoveBeat
  <2> QED
    BY <2>1, <2>4, <2>5, <2>6 DEF DmaInv, TypeOK, MoveBeat, pl, swLocal, Words
<1>2. RoomInv'
  <2>1. /\ dma'.at = dma.at + 1
        /\ dma'.room = 0 \/ dma'.room = dma.room - 1
        /\ dma.room > 0 /\ UNCHANGED pc
    BY DEF DmaInv, TypeOK, MoveBeat
  <2> QED
    BY <2>1, DmaAcqAssumption DEF DmaInv, TypeOK, RoomInv
<1>3. CountInv' /\ ReportInv'
  BY DEF DmaInv, MoveBeat, ReportInv, pl, swLocal, ArmSteps, Processing, Reporting, p,
     BurstOver, CountInv, Quiet, AckHigh
<1>4. FifoInv'
  <2>1. /\ fifo # <<>> /\ Len(Tail(fifo)) = Len(fifo) - 1
        /\ \A j \in 1 .. Len(fifo) - 1 : Tail(fifo)[j] = fifo[j + 1]
    BY DEF DmaInv, TypeOK, MoveBeat
  <2>2. fifo' = Tail(fifo) /\ UNCHANGED <<pl, pc, prev, slipped>>
    BY DEF MoveBeat, swLocal
  <2>3. ASSUME p \notin {"readlen", "rston"}, ~slipped, NEW j \in 1 .. Len(Tail(fifo))
        PROVE  Tail(fifo)[j].beat[1] = burst.trig
    <3>1. Tail(fifo)[j] = fifo[j + 1] /\ j + 1 \in 1 .. Len(fifo)
      BY <2>1 DEF DmaInv, TypeOK
    <3> QED
      BY <2>3, <3>1 DEF DmaInv, FifoInv
  <2>4. p \notin {"readlen", "rston"} => ~Quiet
    BY <2>1 DEF DmaInv, FifoInv
  <2> QED
    BY <2>2, <2>3, <2>4 DEF FifoInv, Quiet, Processing, pl, p
\* In a quiet system it can be running only before dmadata has reset the FIFO.
<1>5. RearmInv'
  <2>1. fifo # <<>> /\ UNCHANGED <<pl, fifoRst, pc, armLen, prev, adcReg, raced>>
    BY DEF MoveBeat, swLocal
  <2>2. Quiet => p \in {"readlen", "rston"}
    BY <2>1 DEF DmaInv, FifoInv
  <2> QED
    BY <2>1, <2>2 DEF DmaInv, RearmInv, pl, Threads, Arming, p, Quiet, Processing
<1>6. CaptureInv'
  <2> SUFFICES ASSUME Undisturbed' PROVE CaptureInv'
    BY DEF CaptureInv
  <2>1. Undisturbed
    BY DEF Undisturbed, MoveBeat, pl
  <2>2. /\ fifo # <<>> /\ Len(fifo) \in Nat /\ Len(Tail(fifo)) = Len(fifo) - 1
        /\ \A j \in 1 .. Len(fifo) - 1 : Tail(fifo)[j] = fifo[j + 1]
        /\ Head(fifo) = fifo[1]
    BY DEF DmaInv, TypeOK, MoveBeat
  <2>3. /\ fifo' = Tail(fifo) /\ ddr' = [ddr EXCEPT ![dma.at] = Head(fifo).beat]
        /\ UNCHANGED <<pl, adcReg, fifoRst, pc, armLen, swLocal, history>>
    BY DEF MoveBeat
  <2>4. Head(fifo) = BeatAt(burst, dma.at)
    <3>1. Len(fifo) > 0
      BY <2>2 DEF DmaInv, TypeOK
    <3>2. 1 \in 1 .. Len(fifo) /\ dma.at + 1 - 1 = dma.at
      BY <2>2, <3>1, DmaAcqAssumption DEF DmaInv, TypeOK
    <3>3. fifo[1] = BeatAt(burst, dma.at + 1 - 1)
      BY <2>1, <3>2 DEF DmaInv, CaptureInv
    <3> QED
      BY <2>2, <3>2, <3>3
  <2>5. dma.at <= burst.len
    BY <2>1, <2>2 DEF DmaInv, TypeOK, CaptureInv
  <2>6. /\ dma'.at = dma.at + 1 /\ dma'.run = dma.run
        /\ dma'.room = IF dma.at = burst.len THEN 0 ELSE dma.room - 1
    <3>1. /\ dma' = [run |-> dma.run, at |-> dma.at + 1,
                     room |-> IF Head(fifo).last THEN 0 ELSE dma.room - 1]
      BY DEF DmaInv, TypeOK, MoveBeat
    <3>2. Head(fifo).last = (dma.at = burst.len)
      BY <2>4 DEF BeatAt
    <3>3. CASE dma.at = burst.len
      BY <3>1, <3>2, <3>3
    <3>4. CASE dma.at # burst.len
      BY <3>1, <3>2, <3>4
    <3> QED
      BY <3>3, <3>4
  <2>a. /\ dma.at \in Nat /\ dma.room \in Nat /\ burst.len \in Nat /\ burst.next \in Nat
        /\ burst.len <= MaxLen
    BY DmaAcqAssumption DEF DmaInv, TypeOK
  <2>b. /\ dma.at + Len(fifo) = burst.next
        /\ \A j \in 1 .. Len(fifo) : fifo[j] = BeatAt(burst, dma.at + j - 1)
        /\ \A i \in 0 .. dma.at - 1 : ddr[i] = <<burst.trig, i>>
        /\ dma.room > burst.len - dma.at
    BY <2>1, <2>5 DEF DmaInv, CaptureInv
  <2>7. \A i \in 0 .. dma'.at - 1 : ddr'[i] = <<burst.trig, i>>
    <3>1. dma.at \in Addrs /\ dma.at \in Nat
      BY <2>5, DmaAcqAssumption DEF DmaInv, TypeOK, Addrs
    <3>2. 0 .. dma.at - 1 \subseteq Addrs
      BY <2>a, <2>5, DmaAcqAssumption DEF Addrs
    <3>3. ASSUME NEW i \in Addrs
          PROVE  ddr'[i] = IF i = dma.at THEN Head(fifo).beat ELSE ddr[i]
      BY <2>3, <3>1 DEF DmaInv, TypeOK
    <3>4. ASSUME NEW i \in 0 .. dma.at
          PROVE  ddr'[i] = <<burst.trig, i>>
      <4>1. CASE i = dma.at
        BY <4>1, <2>4, <3>1, <3>3 DEF BeatAt
      <4>2. CASE i # dma.at
        <5>1. i \in 0 .. dma.at - 1
          BY <4>2, <2>a
        <5> QED
          BY <5>1, <4>2, <2>b, <3>2, <3>3
      <4> QED
        BY <4>1, <4>2
    <3> QED
      BY <2>6, <2>a, <3>4
  <2>8. \A j \in 1 .. Len(fifo') : fifo'[j] = BeatAt(burst, dma'.at + j - 1)
    <3>1. ASSUME NEW j \in 1 .. Len(fifo) - 1
          PROVE  Tail(fifo)[j] = BeatAt(burst, dma.at + 1 + j - 1)
      <4>1. j + 1 \in 1 .. Len(fifo) /\ dma.at + (j + 1) - 1 = dma.at + 1 + j - 1
        BY <2>2, <2>a
      <4>2. fifo[j + 1] = BeatAt(burst, dma.at + (j + 1) - 1)
        BY <4>1, <2>b
      <4> QED
        BY <4>1, <4>2, <2>2
    <3> QED
      BY <2>2, <2>3, <2>6, <3>1
  <2>9. /\ dma'.at + Len(fifo') = burst.next
        /\ dma'.at <= burst.len => dma'.room > burst.len - dma'.at
        /\ dma'.at > burst.len => dma'.room = 0
    <3>1. Len(fifo') = Len(fifo) - 1
      BY <2>2, <2>3
    <3>2. dma.at + 1 + (Len(fifo) - 1) = burst.next
      BY <2>a, <2>b, <2>2
    <3>3. dma.at + 1 <= burst.len =>
            dma.at # burst.len /\ dma.room - 1 > burst.len - (dma.at + 1)
      BY <2>a, <2>b
    <3>4. dma.at + 1 > burst.len => dma.at = burst.len
      BY <2>a, <2>5
    <3> QED
      BY <2>6, <3>1, <3>2, <3>3, <3>4
  <2>10. \A t \in Threads : ~Arming(t)'
    BY <2>1, <2>3 DEF DmaInv, CaptureInv, Arming
  <2>11. /\ (p = "send" => msg = WholeBurst)'
         /\ (p \in {"read", "send"} => adclen = burst.len)'
    BY <2>1, <2>3 DEF DmaInv, CaptureInv, p, WholeBurst, pl, swLocal
  <2>12. \A i : BeatAt(burst, i)' = BeatAt(burst, i)
    BY <2>3 DEF BeatAt, pl
  <2> QED
    BY <2>1, <2>3, <2>6, <2>7, <2>8, <2>9, <2>10, <2>11, <2>12
    DEF DmaInv, CaptureInv, BeatAt, pl
<1> QED
  BY <1>1, <1>2, <1>3, <1>4, <1>5, <1>6 DEF DmaInv

\* The parts of dma_arm.
LEMMA ReadLenStep ==
  ASSUME DmaInv, NEW t \in Threads, ArmReadLen(t)
  PROVE  DmaInv'
<1>1. TypeOK'
  BY DmaAcqAssumption DEF DmaInv, ArmReadLen, TypeOK, pl, dmaVars, swLocal, At,
     ArmSteps
<1>2. RoomInv'
  BY DEF DmaInv, ArmReadLen, RoomInv, dmaVars, At, ArmSteps
<1>3. CountInv' /\ ReportInv'
  BY DEF DmaInv, ArmReadLen, ReportInv, pl, swLocal, At, ArmSteps, Processing,
     Reporting, p, BurstOver, CountInv, Quiet, AckHigh
<1>4. FifoInv'
  BY DEF DmaInv, ArmReadLen, TypeOK, FifoInv, pl, swLocal, At, ArmSteps, p, Quiet,
     Processing
<1>5. RearmInv'
  BY DEF DmaInv, ArmReadLen, TypeOK, RearmInv, At, ArmSteps, Arming, ReadyDma, Quiet,
     Processing
<1>6. CaptureInv'
  BY DEF DmaInv, ArmReadLen, CaptureInv, Undisturbed, pl, At, ArmSteps, Arming
<1> QED
  BY <1>1, <1>2, <1>3, <1>4, <1>5, <1>6 DEF DmaInv

LEMMA ResetFifoStep ==
  ASSUME DmaInv, NEW t \in Threads, ArmResetFifo(t)
  PROVE  DmaInv'
<1>1. TypeOK'
  BY DmaAcqAssumption DEF DmaInv, ArmResetFifo, TypeOK, pl, dmaVars, swLocal, At,
     ArmSteps
<1>2. RoomInv'
  BY DEF DmaInv, ArmResetFifo, RoomInv, dmaVars, At, ArmSteps
<1>3. CountInv' /\ ReportInv'
  BY DEF DmaInv, ArmResetFifo, ReportInv, pl, swLocal, At, ArmSteps, Processing,
     Reporting, p, BurstOver, CountInv, Quiet, AckHigh
<1>4. FifoInv'
  BY DEF ArmResetFifo, FifoInv, ArmSteps, CountInv, Quiet, Processing, p
<1>5. RearmInv'
  BY DEF DmaInv, ArmResetFifo, TypeOK, RearmInv, At, ArmSteps, Arming, ReadyDma, Quiet,
     Processing
<1>6. CaptureInv'
  BY DEF DmaInv, ArmResetFifo, CaptureInv, Undisturbed, pl, At, ArmSteps, Arming
<1> QED
  BY <1>1, <1>2, <1>3, <1>4, <1>5, <1>6 DEF DmaInv

LEMMA ReleaseFifoStep ==
  ASSUME DmaInv, NEW t \in Threads, ArmReleaseFifo(t)
  PROVE  DmaInv'
<1>1. TypeOK'
  BY DEF DmaInv, ArmReleaseFifo, TypeOK, pl, dmaVars, swLocal, At, ArmSteps
<1>2. RoomInv'
  BY DEF DmaInv, ArmReleaseFifo, RoomInv, dmaVars, At, ArmSteps
<1>3. CountInv' /\ ReportInv'
  BY DEF DmaInv, ArmReleaseFifo, ReportInv, pl, swLocal, At, ArmSteps, Processing,
     Reporting, p, BurstOver, CountInv, Quiet, AckHigh
<1>4. FifoInv'
  BY DEF DmaInv, ArmReleaseFifo, TypeOK, FifoInv, pl, swLocal, At, ArmSteps, p, Quiet,
     Processing
<1>5. RearmInv'
  BY DEF DmaInv, ArmReleaseFifo, RearmInv, At, ArmSteps, Arming, ReadyDma, Quiet,
     Processing
<1>6. CaptureInv'
  BY DEF DmaInv, ArmReleaseFifo, CaptureInv, Undisturbed, pl, At, ArmSteps, Arming
<1> QED
  BY <1>1, <1>2, <1>3, <1>4, <1>5, <1>6 DEF DmaInv

LEMMA ResetDmaStep ==
  ASSUME DmaInv, NEW t \in Threads, ArmResetDma(t)
  PROVE  DmaInv'
<1>1. TypeOK'
  BY DmaAcqAssumption DEF DmaInv, ArmResetDma, TypeOK, pl, swLocal, At, ArmSteps
<1>2. RoomInv'
  BY DEF DmaInv, ArmResetDma, RoomInv, At, ArmSteps
<1>3. CountInv' /\ ReportInv'
  BY DEF DmaInv, ArmResetDma, ReportInv, pl, swLocal, At, ArmSteps, Processing,
     Reporting, p, BurstOver, CountInv, Quiet, AckHigh
<1>4. FifoInv'
  BY DEF DmaInv, ArmResetDma, TypeOK, FifoInv, pl, swLocal, At, ArmSteps, p, Quiet,
     Processing
<1>5. RearmInv'
  BY DEF DmaInv, ArmResetDma, RearmInv, At, ArmSteps, Arming, ReadyDma, Quiet,
     Processing
<1>6. CaptureInv'
  BY DEF DmaInv, ArmResetDma, CaptureInv, Undisturbed, pl, At, ArmSteps, Arming
<1> QED
  BY <1>1, <1>2, <1>3, <1>4, <1>5, <1>6 DEF DmaInv

LEMMA RunDmaStep ==
  ASSUME DmaInv, NEW t \in Threads, ArmRunDma(t)
  PROVE  DmaInv'
<1>1. TypeOK'
  BY DEF DmaInv, ArmRunDma, TypeOK, pl, swLocal, At, ArmSteps
<1>2. RoomInv'
  BY DEF DmaInv, ArmRunDma, RoomInv, At, ArmSteps
<1>3. CountInv' /\ ReportInv'
  BY DEF DmaInv, ArmRunDma, ReportInv, pl, swLocal, At, ArmSteps, Processing,
     Reporting, p, BurstOver, CountInv, Quiet, AckHigh
<1>4. FifoInv'
  BY DEF DmaInv, ArmRunDma, TypeOK, FifoInv, pl, swLocal, At, ArmSteps, p, Quiet,
     Processing
<1>5. RearmInv'
  <2>1. /\ pc[t] = "run" /\ pc' = [pc EXCEPT ![t] = "length"] /\ pc'[t] = "length"
        /\ UNCHANGED <<cnt, burst, adcReg, fifoRst, armLen, prev, raced>>
        /\ dma'.run /\ dma'.room = dma.room /\ dma'.at = dma.at
        /\ \A u \in Threads \ {t} : pc'[u] = pc[u]
    BY DEF DmaInv, TypeOK, ArmRunDma, At, pl, swLocal
  <2>2. fifoRst' => \E u \in Threads : pc'[u] = "rstoff"
    BY <2>1 DEF DmaInv, RearmInv
  <2>3. ~raced =>
          \A u \in Threads : Arming(u)' /\ pc'[u] # "readlen" => armLen'[u] = adcReg'
    BY <2>1 DEF DmaInv, TypeOK, RearmInv, Arming, ArmSteps
  <2>4. Quiet' => Quiet
    BY <2>1 DEF DmaInv, TypeOK, Quiet, Processing
  <2>5. (\E u \in Threads : pc[u] \in {"readlen", "rston", "rstoff", "reset"}) =>
          \E u \in Threads : pc'[u] \in {"readlen", "rston", "rstoff", "reset"}
    BY <2>1
  <2>6. ReadyDma => ReadyDma'
    BY <2>1 DEF ReadyDma
  <2> QED
    BY <2>1, <2>2, <2>3, <2>4, <2>5, <2>6 DEF DmaInv, RearmInv
<1>6. CaptureInv'
  BY DEF DmaInv, ArmRunDma, CaptureInv, Undisturbed, pl, At, ArmSteps, Arming
<1> QED
  BY <1>1, <1>2, <1>3, <1>4, <1>5, <1>6 DEF DmaInv

LEMMA LengthStep ==
  ASSUME DmaInv, NEW t \in Threads, ArmLength(t)
  PROVE  DmaInv'
<1>1. TypeOK'
  <2>1. armLen[t] + Margin \in 0 .. MaxLen + Margin
    <3>1. armLen[t] \in 0 .. MaxLen /\ MaxLen \in Nat /\ Margin \in Nat
      BY DmaAcqAssumption DEF DmaInv, TypeOK
    <3> QED
      BY <3>1
  <2>2. 0 \in 0 .. MaxLen + Margin
    BY DmaAcqAssumption
  <2>3. dma' \in [run : BOOLEAN, room : 0 .. MaxLen + Margin, at : 0 .. MaxLen + Margin]
    BY <2>1, <2>2 DEF DmaInv, TypeOK, ArmLength
  <2>4. pc' = [pc EXCEPT ![t] = "idle"]
        /\ UNCHANGED <<pl, ddr, adcReg, fifoRst, fifo, armLen, swLocal, history>>
    BY DEF ArmLength, At
  <2> QED
    BY <2>3, <2>4 DEF DmaInv, TypeOK, pl, swLocal
<1>2. RoomInv'
  BY DmaAcqAssumption DEF DmaInv, ArmLength, TypeOK, RoomInv, At, ArmSteps
<1>3. CountInv' /\ ReportInv'
  BY DEF DmaInv, ArmLength, ReportInv, pl, swLocal, At, ArmSteps, Processing,
     Reporting, p, BurstOver, CountInv, Quiet, AckHigh
<1>4. FifoInv'
  <2>1. /\ pc[t] = "length" /\ pc' = [pc EXCEPT ![t] = "idle"]
        /\ UNCHANGED <<fifo, burst, cnt, prev, slipped>>
    BY DEF ArmLength, At, pl, swLocal
  <2>2. Quiet' => Quiet
    BY <2>1 DEF DmaInv, TypeOK, Quiet, Processing
  <2>3. p' \notin {"readlen", "rston"} => p \notin {"readlen", "rston"}
    BY <2>1 DEF DmaInv, TypeOK, p
  <2> QED
    BY <2>1, <2>2, <2>3 DEF DmaInv, FifoInv
<1>5. RearmInv'
  <2>1. /\ pc[t] = "length" /\ pc' = [pc EXCEPT ![t] = "idle"] /\ pc'[t] = "idle"
        /\ UNCHANGED <<cnt, burst, adcReg, fifoRst, armLen, prev, raced>>
        /\ \A u \in Threads \ {t} : pc'[u] = pc[u]
    BY DEF DmaInv, TypeOK, ArmLength, At, pl, swLocal
  <2>2. fifoRst' => \E u \in Threads : pc'[u] = "rstoff"
    BY <2>1 DEF DmaInv, RearmInv
  <2>3. ~raced =>
          \A u \in Threads : Arming(u)' /\ pc'[u] # "readlen" => armLen'[u] = adcReg'
    BY <2>1 DEF DmaInv, TypeOK, RearmInv, Arming, ArmSteps
  <2>4. Quiet' => Quiet
    BY <2>1 DEF DmaInv, TypeOK, Quiet, Processing
  <2>5. ASSUME Quiet
        PROVE  \/ \E u \in Threads : pc'[u] \in {"readlen", "rston", "rstoff", "reset"}
               \/ ReadyDma'
               \/ /\ dma'.room = 0
                  /\ \E u \in Threads : pc'[u] = "run" \/ (dma'.run /\ pc'[u] = "length")
    <3>1. dma.room \in Nat /\ adcReg \in Nat /\ armLen[t] \in Nat /\ Margin \in Nat \ {0}
      BY DmaAcqAssumption DEF DmaInv, TypeOK
    <3>2. CASE \E u \in Threads : pc[u] \in {"readlen", "rston", "rstoff", "reset"}
      BY <2>1, <3>2
    <3>3. CASE ReadyDma
      <4>1. PICK u \in Threads : dma.room = armLen[u] + Margin
        BY <3>3 DEF ReadyDma
      <4>2. armLen[u] \in Nat
        BY DmaAcqAssumption DEF DmaInv, TypeOK
      <4>3. dma' = dma
        BY <3>1, <4>1, <4>2 DEF ArmLength
      <4> QED
        BY <2>1, <3>3, <4>3 DEF ReadyDma
    <3>4. CASE dma.room = 0 /\ dma.run
      <4>1. ~raced => armLen[t] = adcReg
        BY <2>1 DEF DmaInv, RearmInv, Arming, ArmSteps
      <4>2. dma' = [run |-> TRUE, room |-> armLen[t] + Margin, at |-> 0]
        BY <3>4 DEF ArmLength
      <4>3. ~raced => armLen[t] + Margin > adcReg
        BY <3>1, <4>1
      <4>4. dma'.run /\ dma'.at = 0 /\ dma'.room = armLen'[t] + Margin
        BY <2>1, <4>2
      <4> QED
        BY <2>1, <4>3, <4>4 DEF ReadyDma
    <3>5. CASE dma.room = 0 /\ ~dma.run /\ \E u \in Threads : pc[u] = "run"
      BY <2>1, <3>5 DEF ArmLength
    <3> QED
      BY <2>5, <3>2, <3>3, <3>4, <3>5 DEF DmaInv, RearmInv
  <2> QED
    BY <2>1, <2>2, <2>3, <2>4, <2>5 DEF RearmInv
<1>6. CaptureInv'
  BY DEF DmaInv, ArmLength, CaptureInv, Undisturbed, pl, At, ArmSteps, Arming
<1> QED
  BY <1>1, <1>2, <1>3, <1>4, <1>5, <1>6 DEF DmaInv

\* The loop of dmadata.
LEMMA PollStep ==
  ASSUME DmaInv, Poll
  PROVE  DmaInv'
<1>1. TypeOK'
  BY DEF DmaInv, Poll, TypeOK, pl, dmaVars, At, Threads, ArmSteps
<1>2. RoomInv'
  BY DmaAcqAssumption DEF DmaInv, Poll, RoomInv, dmaVars, At, ArmSteps
<1>3. CountInv' /\ ReportInv'
  <2>1. /\ pc["dmadata"] = "idle" /\ pc'["dmadata"] = "getlen"
        /\ prev' = cnt /\ cnt # prev /\ UNCHANGED <<lat, cnt, burst, sent, history>>
        /\ prev \in Nat /\ cnt \in Nat
    BY DmaAcqAssumption DEF DmaInv, Poll, TypeOK, pl, At, Threads
  <2> QED
    BY <2>1 DEF DmaInv, CountInv, ReportInv, Processing, Reporting, p, BurstOver, AckHigh
<1>4. FifoInv'
  <2>1. /\ pc["dmadata"] = "idle" /\ pc'["dmadata"] = "getlen"
        /\ UNCHANGED <<fifo, burst, slipped>>
    BY DEF DmaInv, Poll, TypeOK, pl, At, Threads
  <2> QED
    BY <2>1 DEF DmaInv, FifoInv, p, Quiet, Processing
<1>5. RearmInv'
  <2>1. /\ pc["dmadata"] = "idle" /\ pc' = [pc EXCEPT !["dmadata"] = "getlen"]
        /\ UNCHANGED <<adcReg, fifoRst, armLen, raced>>
        /\ "dmadata" \in Threads /\ pc'["dmadata"] = "getlen"
    BY DEF DmaInv, Poll, TypeOK, At, Threads
  <2> QED
    BY <2>1 DEF DmaInv, TypeOK, RearmInv, Arming, ArmSteps, Quiet, Processing
<1>6. CaptureInv'
  BY DEF DmaInv, Poll, CaptureInv, Undisturbed, pl, dmaVars, At, ArmSteps, Arming, p
<1> QED
  BY <1>1, <1>2, <1>3, <1>4, <1>5, <1>6 DEF DmaInv

LEMMA GetLenStep ==
  ASSUME DmaInv, GetLen
  PROVE  DmaInv'
<1>1. TypeOK'
  BY DmaAcqAssumption DEF DmaInv, GetLen, TypeOK, pl, dmaVars, At, Threads, ArmSteps
<1>2. RoomInv'
  BY DEF DmaInv, GetLen, RoomInv, dmaVars, At, ArmSteps
<1>3. CountInv' /\ ReportInv'
  BY DEF DmaInv, GetLen, ReportInv, pl, At, ArmSteps, Processing, Reporting, p,
     BurstOver, CountInv, Quiet, AckHigh
<1>4. FifoInv'
  BY DEF DmaInv, GetLen, FifoInv, pl, At, ArmSteps, p, CountInv, Quiet, Processing
<1>5. RearmInv'
  BY DEF DmaInv, GetLen, RearmInv, pl, dmaVars, At, ArmSteps, Arming, ReadyDma, Quiet,
     Processing
<1>6. CaptureInv'
  BY DEF DmaInv, GetLen, CaptureInv, Undisturbed, pl, dmaVars, At, ArmSteps, Arming, p
<1> QED
  BY <1>1, <1>2, <1>3, <1>4, <1>5, <1>6 DEF DmaInv

LEMMA ReadDmaStep ==
  ASSUME DmaInv, ReadDma
  PROVE  DmaInv'
<1>1. TypeOK'
  <2>1. \A i \in 1 .. adclen : ddr[i - 1] \in Beats
    BY DmaAcqAssumption DEF DmaInv, TypeOK, Addrs
  <2>2. msg' \in Seq(Beats)
    BY <2>1 DEF DmaInv, TypeOK, ReadDma
  <2> QED
    BY <2>2 DEF DmaInv, TypeOK, ReadDma, At, pl, dmaVars
<1>2. RoomInv'
  BY DEF DmaInv, ReadDma, RoomInv, dmaVars, At, ArmSteps
<1>3. CountInv' /\ ReportInv'
  <2>1. /\ p = "read" /\ p' = "send" /\ UNCHANGED <<pl, prev, sent, slipped>>
        /\ disturbed => disturbed'
    BY DEF DmaInv, TypeOK, ReadDma, At, p, Threads
  <2> QED
    BY <2>1 DEF DmaInv, CountInv, ReportInv, pl, Processing, Reporting, p, BurstOver,
       AckHigh
<1>4. FifoInv'
  BY DEF DmaInv, ReadDma, FifoInv, pl, At, ArmSteps, p, CountInv, Quiet, Processing
<1>5. RearmInv'
  BY DEF DmaInv, ReadDma, RearmInv, pl, dmaVars, At, ArmSteps, Arming, ReadyDma, Quiet,
     Processing
<1>6. CaptureInv'
  <2> SUFFICES ASSUME Undisturbed' PROVE CaptureInv'
    BY DEF CaptureInv
  <2>1. Undisturbed /\ (fifo = <<>> \/ ~(dma.room > 0))
    BY DEF Undisturbed, ReadDma, pl
  <2>2. burst.counted /\ burst.trig = prev /\ burst.next = burst.len + 1
    <3>1. ~slipped /\ Processing
      BY <2>1 DEF DmaInv, CountInv, Undisturbed, ReadDma, At, Processing
    <3>2. burst.counted /\ cnt = prev /\ burst.trig = cnt /\ burst.next > burst.len
      BY <3>1 DEF DmaInv, CountInv, ReportInv, BurstOver
    <3>3. burst.next <= burst.len + 1 /\ burst.next \in Nat /\ burst.len \in Nat
      BY <2>1, DmaAcqAssumption DEF DmaInv, TypeOK, CaptureInv
    <3> QED
      BY <3>2, <3>3
  <2>3. dma.at = burst.len + 1
    BY <2>1, <2>2 DEF DmaInv, TypeOK, CaptureInv
  <2>4. adclen = burst.len
    BY <2>1 DEF DmaInv, ReadDma, At, CaptureInv, p
  <2>5. \A i \in 1 .. burst.len : ddr[i - 1] = <<prev, i - 1>>
    <3>1. \A i \in 0 .. dma.at - 1 : ddr[i] = <<prev, i>>
      BY <2>1, <2>2 DEF DmaInv, CaptureInv
    <3>2. burst.len \in Nat
      BY DmaAcqAssumption DEF DmaInv, TypeOK
    <3>3. \A i \in 1 .. burst.len : i - 1 \in 0 .. dma.at - 1
      BY <2>3, <3>2
    <3> QED
      BY <3>1, <3>3
  <2>6. msg' = WholeBurst
    BY <2>4, <2>5 DEF ReadDma, WholeBurst
  <2>7. WholeBurst' = WholeBurst
    BY DEF ReadDma, WholeBurst, pl
  <2>8. UNCHANGED <<pl, dmaVars, adcReg, fifoRst, fifo, armLen, prev, adclen, sent, raced>>
        /\ pc' = [pc EXCEPT !["dmadata"] = "send"]
    BY DEF ReadDma, At
  <2> QED
    BY <2>1, <2>4, <2>6, <2>7, <2>8 DEF DmaInv, CaptureInv, pl, dmaVars, Arming,
       ArmSteps
<1> QED
  BY <1>1, <1>2, <1>3, <1>4, <1>5, <1>6 DEF DmaInv

LEMMA SendDataStep ==
  ASSUME DmaInv, SendData
  PROVE  DmaInv'
<1>1. TypeOK'
  BY DEF DmaInv, SendData, TypeOK, pl, dmaVars, At, Threads, ArmSteps
<1>2. RoomInv'
  BY DEF DmaInv, SendData, RoomInv, dmaVars, At, ArmSteps
<1>3. CountInv' /\ ReportInv'
  BY DEF DmaInv, SendData, TypeOK, ReportInv, pl, At, Threads, ArmSteps, Processing,
     Reporting, p, BurstOver, CountInv, Quiet, AckHigh
<1>4. FifoInv'
  BY DEF DmaInv, SendData, FifoInv, pl, At, ArmSteps, p, CountInv, Quiet, Processing
<1>5. RearmInv'
  BY DEF DmaInv, SendData, RearmInv, pl, dmaVars, At, ArmSteps, Arming, ReadyDma,
     Quiet, Processing
<1>6. CaptureInv'
  BY DEF DmaInv, SendData, TypeOK, CaptureInv, Undisturbed, pl, dmaVars, At, Threads,
     ArmSteps, Arming, p
<1> QED
  BY <1>1, <1>2, <1>3, <1>4, <1>5, <1>6 DEF DmaInv

\* The two writes of the acknowledge.
LEMMA AckHighStep ==
  ASSUME DmaInv, AcknowledgeHigh
  PROVE  DmaInv'
<1>1. TypeOK'
  BY DEF DmaInv, AcknowledgeHigh, TypeOK, dmaVars, swLocal, At, ArmSteps
<1>2. RoomInv'
  BY DEF DmaInv, AcknowledgeHigh, RoomInv, dmaVars, At, ArmSteps
<1>3. CountInv' /\ ReportInv'
  BY DEF DmaInv, AcknowledgeHigh, TypeOK, CountInv, ReportInv, swLocal, At, Threads,
     ArmSteps, Processing, Reporting, p, BurstOver, AckHigh
<1>4. FifoInv'
  BY DEF DmaInv, AcknowledgeHigh, TypeOK, FifoInv, At, Threads, ArmSteps, p, Quiet,
     Processing
<1>5. RearmInv'
  BY DEF DmaInv, AcknowledgeHigh, TypeOK, RearmInv, At, Threads, ArmSteps, Arming, Quiet,
     Processing
<1>6. CaptureInv'
  BY DEF AcknowledgeHigh, CaptureInv, Undisturbed, ArmSteps
<1> QED
  BY <1>1, <1>2, <1>3, <1>4, <1>5, <1>6 DEF DmaInv

LEMMA AckLowStep ==
  ASSUME DmaInv, AcknowledgeLow
  PROVE  DmaInv'
<1>1. TypeOK'
  BY DEF DmaInv, AcknowledgeLow, TypeOK, pl, dmaVars, swLocal, At, ArmSteps
<1>2. RoomInv'
  BY DEF DmaInv, AcknowledgeLow, RoomInv, dmaVars, At, ArmSteps
<1>3. CountInv' /\ ReportInv'
  BY DEF DmaInv, AcknowledgeLow, TypeOK, CountInv, ReportInv, pl, swLocal, At, Threads,
     ArmSteps, Processing, Reporting, p, BurstOver, AckHigh
<1>4. FifoInv'
  BY DEF DmaInv, AcknowledgeLow, TypeOK, FifoInv, At, Threads, ArmSteps, p
<1>5. RearmInv'
  BY DEF DmaInv, AcknowledgeLow, TypeOK, RearmInv, At, Threads, ArmSteps, Arming
<1>6. CaptureInv'
  <2>1. ~Undisturbed
    <3>1. AckHigh /\ Processing
      BY DEF AcknowledgeLow, At, AckHigh, Processing
    <3>2. ~slipped => ~lat
      BY <3>1 DEF DmaInv, ReportInv
    <3> QED
      BY <3>2 DEF DmaInv, CountInv, Undisturbed
  <2> QED
    BY <2>1 DEF AcknowledgeLow, CaptureInv, Undisturbed, pl
<1> QED
  BY <1>1, <1>2, <1>3, <1>4, <1>5, <1>6 DEF DmaInv

\* A client sets a length, or re-arms.
LEMMA SetLenStep ==
  ASSUME DmaInv, NEW c \in Clients, SetDmaLen(c)
  PROVE  DmaInv'
<1>1. TypeOK'
  <2>1. adcReg' \in MinLen .. MaxLen
    BY DmaAcqAssumption DEF DmaInv, SetDmaLen, TypeOK, Clamp
  <2>2. pc' = [pc EXCEPT ![c] = "readlen"] /\ raced' \in BOOLEAN
        /\ UNCHANGED <<pl, dmaVars, fifoRst, fifo, armLen, swLocal, disturbed, slipped>>
    BY DEF DmaInv, SetDmaLen, At, TypeOK
  <2> QED
    BY <2>1, <2>2 DEF DmaInv, TypeOK, pl, dmaVars, swLocal, ArmSteps
<1>2. RoomInv'
  BY DEF DmaInv, SetDmaLen, RoomInv, dmaVars, At, ArmSteps
<1>3. CountInv' /\ ReportInv'
  BY DEF DmaInv, SetDmaLen, ReportInv, pl, swLocal, At, ArmSteps, Processing,
     Reporting, p, BurstOver, CountInv, Quiet, AckHigh
<1>4. FifoInv'
  BY DEF DmaInv, SetDmaLen, TypeOK, FifoInv, pl, swLocal, At, ArmSteps, p, Quiet,
     Processing
<1>5. RearmInv'
  BY DEF DmaInv, SetDmaLen, TypeOK, ReportInv, RearmInv, At, Threads, ArmSteps, Arming,
     Reporting, BurstOver, ReadyDma, Quiet, Processing
<1>6. CaptureInv'
  BY DEF DmaInv, SetDmaLen, TypeOK, CaptureInv, Undisturbed, pl, ArmSteps
<1> QED
  BY <1>1, <1>2, <1>3, <1>4, <1>5, <1>6 DEF DmaInv
---------------------------------------------------------------------------
LEMMA InitInv == Init => DmaInv
<1> SUFFICES ASSUME Init PROVE DmaInv
  OBVIOUS
<1> USE DmaAcqAssumption DEF Init, Threads, ArmSteps, Processing, Reporting, p, BurstOver
<1>1. TypeOK
  <2>1. NoBeat \in Beats
    BY DEF Beats, NoBeat
  <2>2. fifo \in Seq([beat : Beats, last : BOOLEAN]) /\ msg \in Seq(Beats) /\ Len(fifo) = 0
    OBVIOUS
  <2>3. burst \in [trig : 0 .. MaxTrigs, len : 0 .. MaxLen, next : 0 .. MaxLen + 1,
                   counted : BOOLEAN]
    OBVIOUS
  <2>4. dma \in [run : BOOLEAN, room : 0 .. MaxLen + Margin, at : 0 .. MaxLen + Margin]
    OBVIOUS
  <2>5. /\ pc \in [Threads -> ArmSteps \cup {"idle", "getlen", "read", "send", "ack",
                                             "acklow"}]
        /\ armLen \in [Threads -> 0 .. MaxLen] /\ ddr \in [Addrs -> Beats]
    BY <2>1
  <2>6. /\ adcReg \in MinLen .. MaxLen /\ 0 \in 0 .. MaxTrigs /\ 0 \in 0 .. MaxLen
        /\ 0 <= FifoDepth
    OBVIOUS
  <2> QED
    BY <2>2, <2>3, <2>4, <2>5, <2>6 DEF TypeOK
<1>2. RoomInv /\ CountInv /\ ReportInv
  BY DEF RoomInv, CountInv, ReportInv
<1>3. FifoInv /\ RearmInv
  BY DEF FifoInv, RearmInv, Arming
<1>4. CaptureInv
  BY DEF CaptureInv, Undisturbed
<1> QED
  BY <1>1, <1>2, <1>3, <1>4 DEF DmaInv

LEMMA Stutter ==
  ASSUME DmaInv, UNCHANGED vars
  PROVE  DmaInv'
<1> USE DEF vars, pl, dmaVars, swLocal, Arming, Processing, Reporting, p, BurstOver
<1>1. TypeOK' /\ RoomInv' /\ CountInv' /\ ReportInv' /\ FifoInv'
  BY DEF DmaInv, TypeOK, RoomInv, CountInv, ReportInv, FifoInv, Quiet, AckHigh
<1>2. RearmInv'
  BY DEF DmaInv, RearmInv, ReadyDma, Quiet, Processing
<1>3. CaptureInv'
  BY DEF DmaInv, CaptureInv, Undisturbed, WholeBurst, BeatAt
<1> QED
  BY <1>1, <1>2, <1>3 DEF DmaInv

LEMMA NextInv == DmaInv /\ [Next]_vars => DmaInv'
<1> SUFFICES ASSUME DmaInv, [Next]_vars PROVE DmaInv'
  OBVIOUS
<1>1. ASSUME NEW t \in Threads, DmaArm(t)
      PROVE  DmaInv'
  BY <1>1, ReadLenStep, ResetFifoStep, ReleaseFifoStep, ResetDmaStep, RunDmaStep,
     LengthStep DEF DmaArm
<1>2. ASSUME NEW c \in Clients, SetDmaLen(c) \/ DmaArm(c)
      PROVE  DmaInv'
  BY <1>1, <1>2, SetLenStep DEF Threads
<1>3. CASE DmaData
  BY <1>1, <1>3, PollStep, GetLenStep, ReadDmaStep, SendDataStep, AckHighStep,
     AckLowStep DEF DmaData, Threads
<1>4. CASE Trigger \/ WriteBeat \/ CountTrigger \/ MoveBeat
  BY <1>4, TriggerStep, WriteBeatStep, CountStep, MoveBeatStep
<1> QED
  BY <1>2, <1>3, <1>4, Stutter DEF Next

LEMMA Invariant == Spec => []DmaInv
BY InitInv, NextInv, PTL DEF Spec

\* Every variable has its type, for any lengths, FIFO depth and margin.
THEOREM TypeCorrect == Spec => []TypeOK
<1>1. DmaInv => TypeOK
  BY DEF DmaInv
<1> QED
  BY <1>1, Invariant, PTL

\* Every counted trigger is reported once, whatever was lost, unless a trigger
\* has slipped under the acknowledge; and when all is quiet the last one is
\* reported, even then (dmadata_push).
THEOREM Reports == Spec => []OneReport
<1>1. ASSUME DmaInv PROVE OneReport
  <2>1. cnt \in Nat /\ prev \in Nat /\ sent \in Nat
    BY <1>1, DmaAcqAssumption DEF DmaInv, TypeOK
  <2>2. sent # prev <=> Reporting
    <3>1. IF Reporting THEN sent < prev ELSE sent = prev
      BY <1>1 DEF DmaInv, CountInv
    <3> QED
      BY <2>1, <3>1 DEF Reporting
  <2>3. Quiet => sent = cnt
    BY <2>2 DEF Quiet, Processing, Reporting
  <2>4. ~slipped => /\ sent \in {prev, prev - 1} /\ prev \in {cnt, cnt - 1}
                    /\ prev # cnt => lat
    <3> SUFFICES ASSUME ~slipped
                 PROVE  /\ sent \in {prev, prev - 1} /\ prev \in {cnt, cnt - 1}
                        /\ prev # cnt => lat
      OBVIOUS
    <3>1. prev # cnt => lat /\ cnt = prev + 1
      BY <1>1 DEF DmaInv, ReportInv
    <3>2. sent # prev => sent + 1 = prev
      BY <1>1, <2>2 DEF DmaInv, ReportInv
    <3>3. sent \in {prev, prev - 1} /\ prev \in {cnt, cnt - 1}
      BY <2>1, <3>1, <3>2
    <3> QED
      BY <3>1, <3>3
  <2> QED
    BY <2>2, <2>3, <2>4 DEF OneReport
<1> QED
  BY <1>1, Invariant, PTL

\* An undisturbed waveform is the trigger's, whole and in order (adc2dma,
\* dmadata_push).
THEOREM Captures == Spec => []CaptureComplete
<1>1. ASSUME DmaInv PROVE CaptureComplete
  <2> SUFFICES ASSUME ~disturbed, ~raced, p = "send" PROVE msg = WholeBurst
    BY DEF CaptureComplete, p
  <2>1. ~slipped
    BY <1>1 DEF DmaInv, CountInv
  <2>2. lat
    BY <1>1, <2>1 DEF DmaInv, ReportInv, Processing, AckHigh, p
  <2> QED
    BY <1>1, <2>2 DEF DmaInv, CaptureInv, Undisturbed
<1> QED
  BY <1>1, Invariant, PTL

\* Whatever was lost, slipped or raced, the DMA is ready when all is reported
\* and the software waits again (dma_arm).
THEOREM Rearms == Spec => []RearmRecovers
<1>1. ASSUME DmaInv PROVE RearmRecovers
  <2> SUFFICES ASSUME Quiet, \A t \in Threads : pc[t] = "idle"
               PROVE  ReadyDma /\ fifo = <<>> /\ ~fifoRst
    BY DEF RearmRecovers, ReadyDma
  <2>1. p \notin {"readlen", "rston"}
    BY DEF p, Threads
  <2> QED
    BY <1>1, <2>1 DEF DmaInv, FifoInv, RearmInv
<1> QED
  BY <1>1, Invariant, PTL

\* Unless a trigger has slipped under the acknowledge, no beat of another
\* trigger gets into the buffer that is being read (dma_arm, dmadata_push).
THEOREM OwnBuffer == Spec => BufferIsOwn
<1>1. DmaInv /\ [Next]_vars =>
        [~slipped /\ Processing /\ ddr' # ddr => Head(fifo).beat[1] = prev]_vars
  <2> SUFFICES ASSUME DmaInv, Next, ~slipped, Processing, ddr' # ddr
               PROVE  Head(fifo).beat[1] = prev
    OBVIOUS
  <2>1. MoveBeat
    BY DEF Next, Trigger, WriteBeat, CountTrigger, DmaData, DmaArm, SetDmaLen,
       ArmReadLen, ArmResetFifo, ArmReleaseFifo, ArmResetDma, ArmRunDma, ArmLength, Poll,
       GetLen, ReadDma, SendData, AcknowledgeHigh, AcknowledgeLow, dmaVars
  <2>2. burst.counted /\ cnt = prev /\ burst.trig = prev
    BY DEF DmaInv, CountInv, ReportInv
  <2>3. Head(fifo) = fifo[1] /\ 1 \in 1 .. Len(fifo)
    BY <2>1 DEF DmaInv, TypeOK, MoveBeat
  <2> QED
    BY <2>2, <2>3 DEF DmaInv, FifoInv, Processing, p
<1> QED
  BY <1>1, Invariant, PTL DEF Spec, BufferIsOwn
=============================================================================
