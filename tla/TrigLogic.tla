----------------------------- MODULE TrigLogic -----------------------------
(***************************************************************************)
(* The trigger logic of the programmable logic, clock by clock:            *)
(*   sync_cdc.vhd    the synchroniser of an asynchronous input,            *)
(*   trig_logic.vhd  source selection, the trigger latch, the running and  *)
(*                   done flags, the trigger counter, the timestamp latch, *)
(*   adc2dma.vhd, tbt2dma.vhd, fa2dma.vhd                                  *)
(*                   the three burst engines (their FIFO words are         *)
(*                   counted, not told apart; DmaAcq has the ADC's beats), *)
(* and the software that writes the registers the logic looks at: the      *)
(* acknowledge of dmadata_push, soft_trig and set_trigsrc.                 *)
(*                                                                         *)
(* Clock is one rising edge of adc_clk: every VHDL process runs once, on   *)
(* the values before the edge.  Register writes and the EVR input change   *)
(* between edges, at any time.                                             *)
(***************************************************************************)
EXTENDS Naturals

CONSTANTS
  Sources,        \* trigger sources in use: "evr" and, or not, "soft"
  BurstLens,      \* lengths the three burst-length registers may hold
  TbtWords,       \* FIFO words of a turn-by-turn sample (8 in the code)
  FaWords,        \* FIFO words of a fast-acquisition sample (5 in the code)
  CountMod,       \* trig_cnt counts modulo this (2^32 in the code)
  SwClocks,       \* clocks the software needs, at least, to send what it read,
                  \* and at most, to lower the acknowledge it has raised
  TrigDuringAck   \* may a trigger edge arrive while the acknowledge is high?

ASSUME TrigLogicAssumption ==
  /\ Sources \in {{"evr"}, {"evr", "soft"}}
  /\ BurstLens \subseteq Nat \ {0} /\ BurstLens # {}
  /\ TbtWords \in Nat \ {0} /\ FaWords \in Nat \ {0}
  /\ CountMod \in Nat /\ CountMod > 1
  /\ SwClocks \in Nat /\ SwClocks >= TbtWords /\ SwClocks >= FaWords
  /\ TrigDuringAck \in BOOLEAN

VARIABLES
  evrPin, softReg, ackReg, \* inputs: evr_trig and two register bits
  trigsrc,                 \* register: "evr" (0) or "soft" (1)
  evrSr, softSr,           \* the synchronisers' shift registers
  dmaTrig,                 \* dma_trig: starts the engines
  lat, running, done,      \* dma_trig_lat, dma_running, dma_done
  trigCnt,                 \* trig_cnt
  adcLen,                  \* fifo_wrlen of adc2dma (ACTIVE while not zero)
  tbt, fa,                 \* the tbt2dma and fa2dma engines
  tsMatches,               \* history: the latched timestamp is that of the
                           \* burst the ADC engine started last
  swpc, prev,              \* dmadata_push: where it is, prevtrignum
  lag                      \* clocks since its last step (up to SwClocks)

pins   == <<evrPin, softReg, trigsrc>>
sync   == <<evrSr, softSr>>
logic  == <<dmaTrig, lat, running, done, trigCnt, tsMatches>>
engine == <<adcLen, tbt, fa>>
sw     == <<swpc, prev, ackReg, lag>>
vars   == <<pins, sync, logic, engine, sw>>

Succ(n) == IF n = CountMod - 1 THEN 0 ELSE n + 1

---------------------------------------------------------------------------
(* The synchroniser: three flip-flops, an edge when the third lags.        *)

Shift(sr, din) == <<din, sr[1], sr[2]>>
Rise(sr)       == sr[2] /\ ~sr[3]

RiseSelected == IF trigsrc = "evr" THEN Rise(evrSr) ELSE Rise(softSr)

---------------------------------------------------------------------------
(* The engines.  len is fifo_wrlen; in state "WRITE" word is the index of  *)
(* the FIFO_WRITE_Wn state.                                                *)

IdleEngine == [st |-> "IDLE", len |-> 0, word |-> 0]

\* Mutated form: the last word of a sample does not look at fifo_wrlen.
EngineStepEndless(e, words, tick, burstLen) ==
  CASE e.st = "IDLE"   -> IF dmaTrig
                          THEN [st |-> "ACTIVE", len |-> burstLen, word |-> 0]
                          ELSE e
    [] e.st = "ACTIVE" -> IF tick
                          THEN [st |-> "WRITE", len |-> e.len - 1, word |-> 0]
                          ELSE e
    [] e.st = "WRITE"  -> IF e.word < words - 1
                          THEN [e EXCEPT !.word = @ + 1]
                          ELSE [e EXCEPT !.word = 0, !.st = "ACTIVE"]

EngineStep(e, words, tick, burstLen) ==
  CASE e.st = "IDLE"   -> IF dmaTrig
                          THEN [st |-> "ACTIVE", len |-> burstLen, word |-> 0]
                          ELSE e
    [] e.st = "ACTIVE" -> IF tick
                          THEN [st |-> "WRITE", len |-> e.len - 1, word |-> 0]
                          ELSE e
    [] e.st = "WRITE"  -> IF e.word < words - 1
                          THEN [e EXCEPT !.word = @ + 1]
                          ELSE [e EXCEPT !.word = 0,
                                         !.st = IF e.len = 0 THEN "IDLE"
                                                             ELSE "ACTIVE"]

AdcStep(burstLen) ==
  IF adcLen = 0 THEN IF dmaTrig THEN burstLen ELSE 0
                ELSE adcLen - 1

\* Mutated form: the fast-acquisition engine left out of the disjunction.
dmaActiveNoFa == adcLen # 0 \/ tbt.len # 0

dmaActive == adcLen # 0 \/ tbt.len # 0 \/ fa.len # 0

---------------------------------------------------------------------------
(* The processes of trig_logic.                                            *)

\* Mutated form: the latch does not hold triggers off.
TriggerProcessUnlatched == dmaTrig' = RiseSelected

TriggerProcess == dmaTrig' = (RiseSelected /\ ~lat)

\* Mutated form: the acknowledge clears the latch only while a burst runs.
LatchProcessRunning ==
  /\ lat'     = ((lat \/ dmaTrig) /\ ~(running /\ ackReg))
  /\ done'    = (running /\ ~dmaActive)
  /\ running' = ((running \/ (lat /\ dmaActive)) /\ ~(running /\ ~dmaActive))

\* Mutated form: a burst is noticed at the trigger instead of under the latch.
LatchProcessEarly ==
  /\ lat'     = ((lat \/ dmaTrig) /\ ~(lat /\ ackReg))
  /\ done'    = (running /\ ~dmaActive)
  /\ running' = ((running \/ dmaTrig) /\ ~(running /\ ~dmaActive) /\ ~ackReg)

LatchProcess ==
  /\ lat'     = ((lat \/ dmaTrig) /\ ~(lat /\ ackReg))
  /\ done'    = (running /\ ~dmaActive)
  /\ running' = ((running \/ (lat /\ dmaActive)) /\ ~(running /\ ~dmaActive))

\* Mutated form: triggers are counted as they arrive.
CountProcessAtTrigger == trigCnt' = IF dmaTrig THEN Succ(trigCnt) ELSE trigCnt

CountProcess == trigCnt' = IF done THEN Succ(trigCnt) ELSE trigCnt

TimestampProcess == tsMatches' = IF dmaTrig THEN adcLen = 0 ELSE tsMatches

Clock(tbtTick, faTick) ==
  /\ ackReg => lag < SwClocks
  /\ ackReg /\ ~lat /\ RiseSelected => TrigDuringAck
  /\ evrSr'  = Shift(evrSr, evrPin)
  /\ softSr' = Shift(softSr, softReg)
  /\ TriggerProcess
  /\ LatchProcess
  /\ CountProcess
  /\ TimestampProcess
  /\ \E l \in BurstLens : adcLen' = AdcStep(l)
  /\ \E l \in BurstLens : tbt' = EngineStep(tbt, TbtWords, tbtTick, l)
  /\ \E l \in BurstLens : fa' = EngineStep(fa, FaWords, faTick, l)
  /\ lag' = IF lag < SwClocks THEN lag + 1 ELSE lag
  /\ UNCHANGED <<pins, swpc, prev, ackReg>>

---------------------------------------------------------------------------
(* The trigger inputs.  A register write lasts at least one adc_clk, and   *)
(* the register writes of one bus are far enough apart for a soft trigger  *)
(* to have left its synchroniser before the source is switched.            *)

EvrToggle == evrPin' = ~evrPin
             /\ UNCHANGED <<softReg, trigsrc, sync, logic, engine, sw>>

SoftTrigHigh ==
  /\ "soft" \in Sources /\ ~softReg /\ ~softSr[1]
  /\ softReg' = TRUE
  /\ UNCHANGED <<evrPin, trigsrc, sync, logic, engine, sw>>

SoftTrigLow ==
  /\ softReg /\ softSr[1]
  /\ softReg' = FALSE
  /\ UNCHANGED <<evrPin, trigsrc, sync, logic, engine, sw>>

SetTrigsrc ==
  /\ ~softReg /\ softSr = <<FALSE, FALSE, FALSE>>
  /\ trigsrc' \in Sources
  /\ UNCHANGED <<evrPin, softReg, sync, logic, engine, sw>>

---------------------------------------------------------------------------
(* dmadata_push, as the trigger logic sees it.                             *)

SwPoll ==               \* trignum # prevtrignum
  /\ swpc = "poll" /\ trigCnt # prev
  /\ swpc' = "send" /\ prev' = trigCnt /\ lag' = 0
  /\ UNCHANGED <<ackReg, pins, sync, logic, engine>>

SwAckHigh ==            \* TXTOIOC_DONE := 1, after both messages are sent
  /\ swpc = "send" /\ lag = SwClocks
  /\ swpc' = "ack" /\ ackReg' = TRUE /\ lag' = 0
  /\ UNCHANGED <<prev, pins, sync, logic, engine>>

SwAckLow ==             \* TXTOIOC_DONE := 0
  /\ swpc = "ack" /\ lag > 0
  /\ swpc' = "poll" /\ ackReg' = FALSE /\ lag' = 0
  /\ UNCHANGED <<prev, pins, sync, logic, engine>>

---------------------------------------------------------------------------
Init ==
  /\ evrPin = FALSE /\ softReg = FALSE /\ ackReg = FALSE /\ trigsrc = "evr"
  /\ evrSr = <<FALSE, FALSE, FALSE>> /\ softSr = <<FALSE, FALSE, FALSE>>
  /\ dmaTrig = FALSE /\ lat = FALSE /\ running = FALSE /\ done = FALSE
  /\ trigCnt = 0 /\ tsMatches = TRUE
  /\ adcLen = 0 /\ tbt = IdleEngine /\ fa = IdleEngine
  /\ swpc = "poll" /\ prev = 0 /\ lag = 0

Next ==
  \/ \E tbtTick, faTick \in BOOLEAN : Clock(tbtTick, faTick)
  \/ EvrToggle
  \/ SoftTrigHigh
  \/ SoftTrigLow
  \/ SetTrigsrc
  \/ SwPoll
  \/ SwAckHigh
  \/ SwAckLow

Spec == Init /\ [][Next]_vars

(* Fairness: adc_clk runs; turns and fast-acquisition periods keep coming  *)
(* while an engine waits for one (trig_cnt never advances otherwise); the  *)
(* dmadata thread, which polls every 10 ms, is scheduled.                  *)
SomeClock == \E tbtTick, faTick \in BOOLEAN : Clock(tbtTick, faTick)
TurnComes == tbt.st = "ACTIVE" /\ \E faTick \in BOOLEAN : Clock(TRUE, faTick)
FaComes   == fa.st = "ACTIVE" /\ \E tbtTick \in BOOLEAN : Clock(tbtTick, TRUE)

FairSpec ==
  /\ Spec
  /\ WF_vars(SomeClock) /\ WF_vars(TurnComes) /\ WF_vars(FaComes)
  /\ WF_vars(SwPoll) /\ WF_vars(SwAckHigh) /\ WF_vars(SwAckLow)

---------------------------------------------------------------------------
(* Types of the variables of the trigger logic and of its environment.     *)
Engine(words) == [st : {"IDLE", "ACTIVE", "WRITE"}, len : Nat, word : 0 .. words - 1]

TypeOK ==
  /\ evrPin \in BOOLEAN /\ softReg \in BOOLEAN /\ ackReg \in BOOLEAN
  /\ trigsrc \in {"evr", "soft"}
  /\ evrSr \in BOOLEAN \X BOOLEAN \X BOOLEAN
  /\ softSr \in BOOLEAN \X BOOLEAN \X BOOLEAN
  /\ dmaTrig \in BOOLEAN /\ lat \in BOOLEAN
  /\ running \in BOOLEAN /\ done \in BOOLEAN /\ tsMatches \in BOOLEAN
  /\ trigCnt \in 0 .. CountMod - 1 /\ prev \in 0 .. CountMod - 1
  /\ adcLen \in Nat /\ tbt \in Engine(TbtWords) /\ fa \in Engine(FaWords)
  /\ swpc \in {"poll", "send", "ack"} /\ lag \in 0 .. SwClocks

(* The latch outlives the whole burst it was set for, the FIFO words that  *)
(* the turn-by-turn and fast-acquisition engines still write after         *)
(* dma_active has dropped included: no trigger gets in until the software  *)
(* has acknowledged (trig_logic.vhd 98-100, 119-131).                      *)
LatchCoversBurst == (adcLen # 0 \/ tbt.st # "IDLE" \/ fa.st # "IDLE") => lat

(* A trigger pulse finds all three engines idle, so that they capture the  *)
(* same trigger, and the latched timestamp is the captured burst's own.    *)
OneBurstPerPulse ==
  /\ dmaTrig => adcLen = 0 /\ tbt.st = "IDLE" /\ fa.st = "IDLE"
  /\ tsMatches

(* Whatever the software has still to acknowledge either is counted or is  *)
(* going to be: a set latch never waits for a count that cannot come.      *)
LatchHasReason ==
  lat => swpc # "poll" \/ trigCnt # prev \/ done \/ running \/ dmaActive

(* The board never stops acquiring: a set latch is cleared in the end.     *)
LatchReleased == lat ~> ~lat

(* The cycle AcqCycle promises: accepted, captured and counted once,       *)
(* acknowledged, and only then ready again.                                *)
phase == IF ~lat THEN "ready"
         ELSE IF swpc = "poll" /\ trigCnt = prev THEN "capturing"
         ELSE "captured"

Cycle == INSTANCE AcqCycle WITH phase <- phase, count <- trigCnt

CycleSpec == Cycle!Spec

---------------------------------------------------------------------------
(* The invariant behind these properties when the source is quiet during   *)
(* an acknowledge: where the latch, the flags, the engines and the         *)
(* software stand in each part of the cycle.  TrigLogicProofs proves it    *)
(* inductive.                                                              *)

EngineShape(e) ==
  /\ e.st = "IDLE" => e.len = 0 /\ e.word = 0
  /\ e.st = "ACTIVE" => e.len > 0

AllIdle == adcLen = 0 /\ tbt.st = "IDLE" /\ fa.st = "IDLE"

\* A pulse is one clock long, and the edge it came from is spent.
PulseInv ==
  /\ dmaTrig => ~lat /\ swpc = "poll" /\ (evrSr[3] \/ softSr[3])
  /\ dmaTrig /\ trigsrc = "evr" => evrSr[3]
  /\ dmaTrig /\ trigsrc = "soft" =>
       softSr[3] \/ (~softSr[1] /\ ~softSr[2])

SoftwareInv ==
  /\ (ackReg <=> swpc = "ack")
  /\ swpc # "poll" => trigCnt = prev
  /\ swpc = "send" => /\ lat
                      /\ tbt.st # "IDLE" => tbt.word >= lag
                      /\ fa.st # "IDLE" => fa.word >= lag
  /\ swpc = "ack" => AllIdle /\ (lag > 0 => ~lat)

PhaseInv ==
  /\ phase = "ready" => /\ AllIdle /\ ~running /\ ~done /\ trigCnt = prev
  /\ phase = "capturing" => /\ running \/ done \/ dmaActive
                            /\ done => ~running /\ ~dmaActive
  /\ phase = "captured" => ~running /\ ~done /\ ~dmaActive

QuietInv == /\ TypeOK /\ EngineShape(tbt) /\ EngineShape(fa)
            /\ PulseInv /\ SoftwareInv /\ PhaseInv /\ tsMatches
=============================================================================
