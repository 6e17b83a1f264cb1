------------------------------- MODULE DmaAcq -------------------------------
(***************************************************************************)
(* One triggered acquisition from the trigger to the message: the burst    *)
(* the PL writes into its FIFO (adc2dma.vhd), the AXI DMA that moves it to *)
(* DDR (external: PG021, direct register mode), the dmadata thread that    *)
(* polls the trigger counter, reads DDR, sends and re-arms (dmadata.c),    *)
(* and the client threads that change the burst length meanwhile           *)
(* (set_dmalen in control.c).  The latch and the counter of the trigger    *)
(* logic are those of TrigLogic, one step per event instead of one per     *)
(* clock.                                                                  *)
(*                                                                         *)
(* Every register write of the software that has an effect of its own is a *)
(* step: threads of one priority are switched between any two of them, and *)
(* triggers arrive between any two.  The acknowledge is two writes, 1 and  *)
(* 0, and the latch is cleared by the level: a trigger accepted between    *)
(* them is unlatched at once, and its burst runs with the logic open to    *)
(* further triggers.  Nothing forbids that trigger; `slipped` records it.  *)
(*                                                                         *)
(* A beat is the pair of the number its trigger will be counted as and its *)
(* index in the burst.                                                     *)
(***************************************************************************)
EXTENDS Naturals, Sequences

CONSTANTS
  Clients,            \* client threads that send set_dmalen requests
  Requests,           \* lengths they ask for
  MinLen, MaxLen,     \* the clamp of set_dmalen (1000 and 1000000)
  Margin,             \* beats the DMA is armed for beyond the length (16)
  FifoDepth,          \* beats the FIFO holds (4096)
  MaxTrigs            \* bound: triggers in a behaviour

ASSUME DmaAcqAssumption ==
  /\ Requests \subseteq Nat /\ MinLen \in Nat \ {0} /\ MaxLen \in Nat
  /\ MinLen <= MaxLen /\ Margin \in Nat \ {0} /\ FifoDepth \in Nat \ {0}
  /\ MaxTrigs \in Nat /\ "dmadata" \notin Clients

VARIABLES
  lat, cnt,           \* trigger latch, trigger counter
  adcReg, fifoRst,    \* registers: DMA_ADCBURSTLEN, DMA_FIFORST
  burst,              \* the burst: trigger, length, next beat; done when counted
  fifo,               \* beats in the FIFO, with their tlast
  dma,                \* the AXI DMA: running, beats it still takes, next address
  ddr,                \* the DDR buffer, a beat (or NoBeat) per address
  pc, armLen,         \* per thread: where it is, dma_arm's adclen
  prev, adclen, msg,  \* dmadata_push: prevtrignum, adclen, the samples read
  sent,               \* history: the trigger of the last waveform sent
  disturbed,          \* history: a trigger or a beat came when it must be lost
  slipped,            \* history: a trigger since the logic was last quiet has
                      \* found the acknowledge high
  raced               \* history: a client set a length during an acquisition

pl       == <<lat, cnt, burst>>
dmaVars  == <<dma, ddr>>
swLocal  == <<prev, adclen, msg, sent>>
history  == <<disturbed, slipped, raced>>
vars     == <<pl, dmaVars, adcReg, fifoRst, fifo, pc, armLen, swLocal, history>>

Threads == Clients \cup {"dmadata"}
NoBeat  == <<0, 0>>
Beats   == (0 .. MaxTrigs) \X (0 .. MaxLen)
Addrs   == 0 .. MaxLen + Margin - 1

Clamp(val, min, max) == IF val < min THEN min ELSE IF val > max THEN max ELSE val

ArmSteps == {"readlen", "rston", "rstoff", "reset", "run", "length"}
Arming(t) == pc[t] \in ArmSteps

\* From the poll to the end of the acknowledge.
Processing == pc["dmadata"] \in {"getlen", "read", "send", "ack", "acklow"}

\* TXTOIOC_DONE is 1.
AckHigh == pc["dmadata"] = "acklow"

\* Ready for the next trigger: the DMA runs and has room for a whole burst,
\* tlast included, nothing is left in the FIFO, and the latch will hold.
Armed == /\ dma.run /\ dma.at = 0 /\ dma.room > adcReg
         /\ fifo = <<>> /\ ~fifoRst /\ ~AckHigh /\ \A t \in Threads : ~Arming(t)

BurstOver == burst.next > burst.len

\* No burst runs, and all that was counted is dealt with.
Quiet == burst.counted /\ prev = cnt /\ ~Processing

---------------------------------------------------------------------------
(* The programmable logic.                                                 *)

\* Accepted when the latch is open; it closes unless the acknowledge is high.
\* A burst in progress takes no notice of it; one whose end is not counted
\* yet, because another engine still runs, is counted together with the new.
Trigger ==
  /\ ~lat
  /\ lat' = ~AckHigh
  /\ \/ /\ BurstOver /\ cnt < MaxTrigs
        /\ burst' = [trig |-> cnt + 1, len |-> adcReg, next |-> 0, counted |-> FALSE]
     \/ burst.next < burst.len /\ UNCHANGED burst
  /\ disturbed' = (disturbed \/ ~Armed)
  /\ slipped' = IF Quiet THEN FALSE ELSE slipped \/ AckHigh
  /\ UNCHANGED <<cnt, dmaVars, adcReg, fifoRst, fifo, pc, armLen, swLocal, raced>>

Beat == [beat |-> <<burst.trig, burst.next>>, last |-> burst.next = burst.len]

\* Mutated form: fullness is noticed a beat late.
WriteBeatOver ==
  /\ ~BurstOver
  /\ burst' = [burst EXCEPT !.next = @ + 1]
  /\ LET lost == fifoRst \/ Len(fifo) > FifoDepth
     IN  /\ fifo' = IF lost THEN fifo ELSE Append(fifo, Beat)
         /\ disturbed' = (disturbed \/ lost)
  /\ UNCHANGED <<lat, cnt, dmaVars, adcReg, fifoRst, pc, armLen, swLocal, slipped, raced>>

\* A burst of length len is len + 1 beats: tvalid is raised with the trigger
\* and falls only in the clock after fifo_wrlen has reached zero.  tready is
\* not looked at: a beat that finds the FIFO full, or in reset, is lost.
WriteBeat ==
  /\ ~BurstOver
  /\ burst' = [burst EXCEPT !.next = @ + 1]
  /\ LET lost == fifoRst \/ Len(fifo) >= FifoDepth
     IN  /\ fifo' = IF lost THEN fifo ELSE Append(fifo, Beat)
         /\ disturbed' = (disturbed \/ lost)
  /\ UNCHANGED <<lat, cnt, dmaVars, adcReg, fifoRst, pc, armLen, swLocal, slipped, raced>>

\* All three engines have counted down.
\* Mutated form: the latch is released with the count.
CountTriggerUnlatch ==
  /\ BurstOver /\ ~burst.counted
  /\ cnt' = cnt + 1 /\ lat' = FALSE
  /\ burst' = [burst EXCEPT !.counted = TRUE]
  /\ UNCHANGED <<dmaVars, adcReg, fifoRst, fifo, pc, armLen, swLocal, history>>

\* Mutated form: the count does not wait for the end of the burst.
CountTriggerEarly ==
  /\ ~burst.counted
  /\ cnt' = cnt + 1
  /\ burst' = [burst EXCEPT !.counted = TRUE]
  /\ UNCHANGED <<lat, dmaVars, adcReg, fifoRst, fifo, pc, armLen, swLocal, history>>

CountTrigger ==
  /\ BurstOver /\ ~burst.counted
  /\ cnt' = cnt + 1
  /\ burst' = [burst EXCEPT !.counted = TRUE]
  /\ UNCHANGED <<lat, dmaVars, adcReg, fifoRst, fifo, pc, armLen, swLocal, history>>

\* The DMA takes a beat; it stops at tlast or when its length is used up.
MoveBeat ==
  /\ dma.run /\ dma.room > 0 /\ fifo # <<>> /\ ~fifoRst
  /\ fifo' = Tail(fifo)
  /\ ddr' = [ddr EXCEPT ![dma.at] = Head(fifo).beat]
  /\ dma' = [dma EXCEPT !.at = @ + 1, !.room = IF Head(fifo).last THEN 0 ELSE @ - 1]
  /\ UNCHANGED <<pl, adcReg, fifoRst, pc, armLen, swLocal, history>>

---------------------------------------------------------------------------
(* dma_arm, by whichever thread runs it.                                   *)

At(t, label, next) == pc[t] = label /\ pc' = [pc EXCEPT ![t] = next]

ArmReadLen(t) ==
  /\ At(t, "readlen", "rston")
  /\ armLen' = [armLen EXCEPT ![t] = adcReg]
  /\ UNCHANGED <<pl, dmaVars, adcReg, fifoRst, fifo, swLocal, history>>

ArmResetFifo(t) ==
  /\ At(t, "rston", "rstoff")
  /\ fifoRst' = TRUE /\ fifo' = <<>>
  /\ UNCHANGED <<pl, dmaVars, adcReg, armLen, swLocal, history>>

ArmReleaseFifo(t) ==
  /\ At(t, "rstoff", "reset")
  /\ fifoRst' = FALSE
  /\ UNCHANGED <<pl, dmaVars, adcReg, fifo, armLen, swLocal, history>>

\* Mutated form: the core is left as the last acquisition left it.
ArmResetDmaNot(t) ==
  /\ At(t, "reset", "run")
  /\ UNCHANGED <<pl, dmaVars, adcReg, fifoRst, fifo, armLen, swLocal, history>>

ArmResetDma(t) ==
  /\ At(t, "reset", "run")
  /\ dma' = [run |-> FALSE, room |-> 0, at |-> 0]
  /\ UNCHANGED <<pl, ddr, adcReg, fifoRst, fifo, armLen, swLocal, history>>

ArmRunDma(t) ==
  /\ At(t, "run", "length")
  /\ dma' = [dma EXCEPT !.run = TRUE]
  /\ UNCHANGED <<pl, ddr, adcReg, fifoRst, fifo, armLen, swLocal, history>>

\* Writing the length starts the transfer, if the core runs and has none.
ArmLength(t) ==
  /\ At(t, "length", "idle")
  /\ dma' = IF dma.run /\ dma.room = 0
            THEN [run |-> TRUE, room |-> armLen[t] + Margin, at |-> 0]
            ELSE dma
  /\ UNCHANGED <<pl, ddr, adcReg, fifoRst, fifo, armLen, swLocal, history>>

DmaArm(t) == \/ ArmReadLen(t) \/ ArmResetFifo(t) \/ ArmReleaseFifo(t)
             \/ ArmResetDma(t) \/ ArmRunDma(t) \/ ArmLength(t)

---------------------------------------------------------------------------
(* dmadata_push.  "idle" is the loop's head.                               *)

Poll ==
  /\ cnt # prev
  /\ At("dmadata", "idle", "getlen")
  /\ prev' = cnt
  /\ UNCHANGED <<pl, dmaVars, adcReg, fifoRst, fifo, armLen, adclen, msg, sent,
                 history>>

GetLen ==
  /\ At("dmadata", "getlen", "read")
  /\ adclen' = adcReg
  /\ UNCHANGED <<pl, dmaVars, adcReg, fifoRst, fifo, armLen, prev, msg, sent,
                 history>>

ReadDma ==
  /\ At("dmadata", "read", "send")
  /\ msg' = [i \in 1 .. adclen |-> ddr[i - 1]]
  /\ disturbed' = (disturbed \/ (fifo # <<>> /\ dma.room > 0))
  /\ UNCHANGED <<pl, dmaVars, adcReg, fifoRst, fifo, armLen, prev, adclen, sent,
                 slipped, raced>>

\* Mutated form: a path around the acknowledge.
SendDataOnly ==
  /\ At("dmadata", "send", "readlen")
  /\ sent' = prev /\ msg' = <<>>
  /\ UNCHANGED <<pl, dmaVars, adcReg, fifoRst, fifo, armLen, prev, adclen,
                 history>>

\* The waveform (message 53) and the position computed from it (31).
SendData ==
  /\ At("dmadata", "send", "ack")
  /\ sent' = prev /\ msg' = <<>>
  /\ UNCHANGED <<pl, dmaVars, adcReg, fifoRst, fifo, armLen, prev, adclen,
                 history>>

\* TXTOIOC_DONE := 1, the latch is cleared and stays open; := 0.
AcknowledgeHigh ==
  /\ At("dmadata", "ack", "acklow")
  /\ lat' = FALSE
  /\ UNCHANGED <<cnt, burst, dmaVars, adcReg, fifoRst, fifo, armLen, swLocal, history>>

AcknowledgeLow ==
  /\ At("dmadata", "acklow", "readlen")
  /\ UNCHANGED <<pl, dmaVars, adcReg, fifoRst, fifo, armLen, swLocal, history>>

---------------------------------------------------------------------------
(* set_dmalen: the ADC length is written (the other channels only re-arm), *)
(* then dma_arm is called on the client's thread.                          *)

SetDmaLen(c) ==
  /\ At(c, "idle", "readlen")
  /\ \/ \E v \in Requests : adcReg' = Clamp(v, MinLen, MaxLen)
     \/ UNCHANGED adcReg
  /\ raced' = (raced \/ lat \/ ~burst.counted \/ \E t \in Threads \ {c} : pc[t] # "idle")
  /\ UNCHANGED <<pl, dmaVars, fifoRst, fifo, armLen, swLocal, disturbed, slipped>>

---------------------------------------------------------------------------
Init ==
  /\ lat = FALSE /\ cnt = 0
  /\ adcReg \in {MinLen, MaxLen} /\ fifoRst = FALSE
  /\ burst = [trig |-> 0, len |-> 0, next |-> 1, counted |-> TRUE]
  /\ fifo = <<>>
  /\ dma = [run |-> FALSE, room |-> 0, at |-> 0]
  /\ ddr = [a \in Addrs |-> NoBeat]
  /\ pc = [t \in Threads |-> IF t = "dmadata" THEN "readlen" ELSE "idle"]
  /\ armLen = [t \in Threads |-> 0]
  /\ prev = 0 /\ adclen = 0 /\ msg = <<>> /\ sent = 0
  /\ disturbed = FALSE /\ slipped = FALSE /\ raced = FALSE

DmaData == \/ DmaArm("dmadata") \/ Poll \/ GetLen \/ ReadDma \/ SendData
           \/ AcknowledgeHigh \/ AcknowledgeLow

Next ==
  \/ Trigger \/ WriteBeat \/ CountTrigger \/ MoveBeat
  \/ DmaData
  \/ \E c \in Clients : SetDmaLen(c) \/ DmaArm(c)

\* The clock of the logic runs and dmadata is scheduled.  Nobody has to send a
\* trigger or a request, and neither the DMA nor a client's thread has to go on.
Fairness == WF_vars(WriteBeat \/ CountTrigger) /\ WF_vars(DmaData)

Spec == Init /\ [][Next]_vars /\ Fairness

---------------------------------------------------------------------------
TypeOK ==
  /\ lat \in BOOLEAN /\ fifoRst \in BOOLEAN
  /\ disturbed \in BOOLEAN /\ slipped \in BOOLEAN /\ raced \in BOOLEAN
  /\ cnt \in 0 .. MaxTrigs /\ prev \in 0 .. MaxTrigs /\ sent \in 0 .. MaxTrigs
  /\ adcReg \in MinLen .. MaxLen /\ adclen \in 0 .. MaxLen
  /\ burst \in [trig : 0 .. MaxTrigs, len : 0 .. MaxLen, next : 0 .. MaxLen + 1,
                counted : BOOLEAN]
  /\ fifo \in Seq([beat : Beats, last : BOOLEAN]) /\ Len(fifo) <= FifoDepth
  /\ dma \in [run : BOOLEAN, room : 0 .. MaxLen + Margin, at : 0 .. MaxLen + Margin]
  /\ ddr \in [Addrs -> Beats] /\ msg \in Seq(Beats)
  /\ pc \in [Threads -> ArmSteps \cup {"idle", "getlen", "read", "send", "ack", "acklow"}]
  /\ armLen \in [Threads -> 0 .. MaxLen]

WholeBurst == [i \in 1 .. burst.len |-> <<prev, i - 1>>]

(* The waveform sent for a trigger is that trigger's, whole and in order,  *)
(* as long as triggers arrive when the DMA is armed and the acknowledge    *)
(* low, the FIFO keeps up and has drained before the software reads, and   *)
(* no client sets a length during an acquisition.                          *)
CaptureComplete ==
  ~disturbed /\ ~raced /\ pc["dmadata"] = "send" => msg = WholeBurst

(* Even when they do not: while dmadata works on a trigger, from the poll  *)
(* to the acknowledge, the DMA writes no beat of another trigger into the  *)
(* buffer that is being read, whoever re-arms it.  Not promised after a    *)
(* trigger that slipped under the acknowledge, until the logic is quiet    *)
(* again: the latch is then open while that trigger is read.               *)
BufferIsOwn ==
  [][~slipped /\ Processing /\ ddr' # ddr => Head(fifo).beat[1] = prev]_vars

(* Every counted trigger is reported once: counter, prevtrignum and what   *)
(* was sent never drift apart, whatever was lost on the way; what is       *)
(* reported is the last that was polled.  After a trigger that slipped     *)
(* under the acknowledge two may be counted between two polls, and one is  *)
(* then left out; when all is quiet the two agree again.                   *)
Reporting == pc["dmadata"] \in {"getlen", "read", "send"}
OneReport ==
  /\ sent # prev <=> Reporting
  /\ Quiet => sent = cnt
  /\ ~slipped => /\ sent \in {prev, prev - 1} /\ prev \in {cnt, cnt - 1}
                 /\ prev # cnt => lat

(* Nothing spoils the next acquisition: once everything counted is         *)
(* reported and all threads wait, the FIFO is empty and the DMA runs from  *)
(* the start of the buffer, armed for a length a thread has read -         *)
(* whatever was lost, whatever triggers slipped under the acknowledge, and *)
(* however client threads ran through dma_arm beside dmadata.  Without     *)
(* such a race the length is the one in force.                             *)
RearmRecovers ==
  Quiet /\ (\A t \in Threads : pc[t] = "idle") =>
    /\ dma.run /\ dma.at = 0 /\ fifo = <<>> /\ ~fifoRst
    /\ \E t \in Threads : dma.room = armLen[t] + Margin
    /\ ~raced => dma.room > adcReg

(* The board never stops acquiring: what a trigger latched is reported and *)
(* the latch cleared, even if the DMA lost the data.                       *)
LatchReleased == lat ~> ~lat

(* Finding: clearing the latch "allows for next trigger" and re-arming is  *)
(* "for next trigger" (dmadata.c 414, 418): a trigger the logic accepts    *)
(* when the software lets it, after the first, is sent whole.  A trigger   *)
(* under the acknowledge itself is left out here (`slipped`).              *)
AcceptedIsCaptured ==
  ~raced /\ ~slipped /\ prev > 1 /\ pc["dmadata"] = "send" => msg = WholeBurst
=============================================================================
