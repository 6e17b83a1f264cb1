-------------------------- MODULE TrigLogicProofs --------------------------
(***************************************************************************)
(* Proofs about TrigLogic for every value of its constants: the types;     *)
(* when no trigger edge arrives while the acknowledge is high, that the    *)
(* latch covers the burst, that a pulse starts all three engines, and that *)
(* the logic implements AcqCycle; and, whenever triggers arrive, that a    *)
(* set latch never waits for a count that cannot come.                     *)
(***************************************************************************)
EXTENDS TrigLogic, TLAPS

---------------------------------------------------------------------------
(* The synchroniser and the engines, one clock at a time.                  *)

\* Shifting keeps three Booleans.
LEMMA ShiftType ==
  ASSUME NEW sr \in BOOLEAN \X BOOLEAN \X BOOLEAN, NEW din \in BOOLEAN
  PROVE  /\ Shift(sr, din) \in BOOLEAN \X BOOLEAN \X BOOLEAN
         /\ Shift(sr, din)[1] = din
         /\ Shift(sr, din)[2] = sr[1]
         /\ Shift(sr, din)[3] = sr[2]
BY DEF Shift

\* An engine step keeps the engine's shape: fifo_wrlen never goes below zero.
LEMMA EngineStepShape ==
  ASSUME NEW words \in Nat \ {0}, NEW e \in Engine(words), EngineShape(e),
         NEW tick \in BOOLEAN, NEW l \in Nat \ {0}, dmaTrig \in BOOLEAN
  PROVE  /\ EngineStep(e, words, tick, l) \in Engine(words)
         /\ EngineShape(EngineStep(e, words, tick, l))
<1> DEFINE n == EngineStep(e, words, tick, l)
<1>0. /\ e = [st |-> e.st, len |-> e.len, word |-> e.word]
      /\ e.st \in {"IDLE", "ACTIVE", "WRITE"} /\ e.len \in Nat
      /\ e.word \in 0 .. words - 1
  BY DEF Engine
<1>1. CASE e.st = "IDLE"
  <2>1. n = IF dmaTrig THEN [st |-> "ACTIVE", len |-> l, word |-> 0] ELSE e
    BY <1>1 DEF EngineStep
  <2> QED
    BY <2>1, <1>1 DEF Engine, EngineShape
<1>2. CASE e.st = "ACTIVE"
  <2>1. n = IF tick THEN [st |-> "WRITE", len |-> e.len - 1, word |-> 0] ELSE e
    BY <1>2 DEF EngineStep
  <2>2. e.len - 1 \in Nat
    BY <1>0, <1>2 DEF EngineShape
  <2> QED
    BY <2>1, <2>2, <1>2 DEF Engine, EngineShape
<1>3. CASE e.st = "WRITE" /\ e.word < words - 1
  <2>1. n = [e EXCEPT !.word = e.word + 1]
    BY <1>3 DEF EngineStep
  <2>2. n = [st |-> "WRITE", len |-> e.len, word |-> e.word + 1]
    BY <2>1, <1>0, <1>3
  <2>3. e.word + 1 \in 0 .. words - 1
    BY <1>0, <1>3
  <2> QED
    BY <2>2, <2>3, <1>0 DEF Engine, EngineShape
<1>4. CASE e.st = "WRITE" /\ ~(e.word < words - 1)
  <2> DEFINE s == IF e.len = 0 THEN "IDLE" ELSE "ACTIVE"
  <2>1. n = [e EXCEPT !.word = 0, !.st = s]
    BY <1>4 DEF EngineStep
  <2>2. n = [st |-> s, len |-> e.len, word |-> 0]
    BY <2>1, <1>0
  <2> QED
    BY <2>2, <1>0 DEF Engine, EngineShape
<1> QED
  BY <1>0, <1>1, <1>2, <1>3, <1>4

\* Without a trigger an engine that has counted down only finishes the words
\* of its last sample; an idle one stays idle.
LEMMA EngineStepQuiet ==
  ASSUME NEW words \in Nat \ {0}, NEW e \in Engine(words), EngineShape(e),
         NEW tick \in BOOLEAN, NEW l \in Nat \ {0}, ~dmaTrig
  PROVE  LET n == EngineStep(e, words, tick, l) IN
         /\ e.st = "IDLE" => n.st = "IDLE"
         /\ e.len = 0 => /\ n.len = 0
                         /\ n.st # "IDLE" => n.word = e.word + 1 /\ e.st # "IDLE"
<1> DEFINE n == EngineStep(e, words, tick, l)
<1>0. /\ e = [st |-> e.st, len |-> e.len, word |-> e.word]
      /\ e.st \in {"IDLE", "ACTIVE", "WRITE"} /\ e.len \in Nat
      /\ e.word \in 0 .. words - 1
  BY DEF Engine
<1>1. CASE e.st = "IDLE"
  <2>1. n = e
    BY <1>1 DEF EngineStep
  <2> QED
    BY <2>1, <1>1
<1>2. CASE e.st = "ACTIVE"
  BY <1>2, <1>0 DEF EngineStep, EngineShape
<1>3. CASE e.st = "WRITE" /\ e.word < words - 1
  <2>1. n = [e EXCEPT !.word = e.word + 1]
    BY <1>3 DEF EngineStep
  <2>2. n = [st |-> "WRITE", len |-> e.len, word |-> e.word + 1]
    BY <2>1, <1>0, <1>3
  <2> QED
    BY <2>2, <1>3
<1>4. CASE e.st = "WRITE" /\ ~(e.word < words - 1)
  <2> DEFINE s == IF e.len = 0 THEN "IDLE" ELSE "ACTIVE"
  <2>1. n = [e EXCEPT !.word = 0, !.st = s]
    BY <1>4 DEF EngineStep
  <2>2. n = [st |-> s, len |-> e.len, word |-> 0]
    BY <2>1, <1>0
  <2> QED
    BY <2>2, <1>4
<1> QED
  BY <1>0, <1>1, <1>2, <1>3, <1>4

---------------------------------------------------------------------------
TInv == TypeOK /\ EngineShape(tbt) /\ EngineShape(fa)

LEMMA InitTInv == Init => TInv
<1> SUFFICES ASSUME Init PROVE TInv
  OBVIOUS
<1> USE TrigLogicAssumption
<1>1. <<FALSE, FALSE, FALSE>> \in BOOLEAN \X BOOLEAN \X BOOLEAN
  OBVIOUS
<1>2. IdleEngine \in Engine(TbtWords) /\ IdleEngine \in Engine(FaWords)
  BY DEF IdleEngine, Engine
<1>3. EngineShape(IdleEngine)
  BY DEF IdleEngine, EngineShape
<1>4. EngineShape(tbt) /\ EngineShape(fa)
  BY <1>3 DEF Init, EngineShape
<1>5. trigCnt \in 0 .. CountMod - 1 /\ prev \in 0 .. CountMod - 1
      /\ adcLen \in Nat /\ lag \in 0 .. SwClocks
  BY DEF Init
<1>6. tbt \in Engine(TbtWords) /\ fa \in Engine(FaWords)
  BY <1>2 DEF Init
<1>7. TypeOK
  BY <1>1, <1>5, <1>6, Zenon DEF Init, TypeOK
<1> QED
  BY <1>4, <1>7 DEF TInv

LEMMA ClockTInv ==
  ASSUME TInv, NEW tbtTick \in BOOLEAN, NEW faTick \in BOOLEAN,
         Clock(tbtTick, faTick)
  PROVE  TInv'
<1> USE TrigLogicAssumption
<1>1. evrSr' \in BOOLEAN \X BOOLEAN \X BOOLEAN
  BY ShiftType DEF TInv, TypeOK, Clock
<1>2. softSr' \in BOOLEAN \X BOOLEAN \X BOOLEAN
  BY ShiftType DEF TInv, TypeOK, Clock
<1>3. tbt' \in Engine(TbtWords) /\ EngineShape(tbt)'
  <2>1. PICK l \in BurstLens : tbt' = EngineStep(tbt, TbtWords, tbtTick, l)
    BY DEF Clock
  <2>2. l \in Nat \ {0} /\ dmaTrig \in BOOLEAN
    BY DEF TInv, TypeOK
  <2>3. EngineShape(EngineStep(tbt, TbtWords, tbtTick, l)) /\
        EngineStep(tbt, TbtWords, tbtTick, l) \in Engine(TbtWords)
    BY <2>2, EngineStepShape DEF TInv, TypeOK
  <2> QED
    BY <2>1, <2>3 DEF EngineShape
<1>4. fa' \in Engine(FaWords) /\ EngineShape(fa)'
  <2>1. PICK l \in BurstLens : fa' = EngineStep(fa, FaWords, faTick, l)
    BY DEF Clock
  <2>2. l \in Nat \ {0} /\ dmaTrig \in BOOLEAN
    BY DEF TInv, TypeOK
  <2>3. EngineShape(EngineStep(fa, FaWords, faTick, l)) /\
        EngineStep(fa, FaWords, faTick, l) \in Engine(FaWords)
    BY <2>2, EngineStepShape DEF TInv, TypeOK
  <2> QED
    BY <2>1, <2>3 DEF EngineShape
<1>5. adcLen' \in Nat
  BY DEF TInv, TypeOK, Clock, AdcStep
<1>6. trigCnt' \in 0 .. CountMod - 1 /\ lag' \in 0 .. SwClocks
  BY DEF TInv, TypeOK, Clock, CountProcess, Succ
<1>7. /\ dmaTrig' \in BOOLEAN /\ lat' \in BOOLEAN /\ running' \in BOOLEAN
      /\ done' \in BOOLEAN /\ tsMatches' \in BOOLEAN
  BY DEF TInv, TypeOK, Clock, TriggerProcess, LatchProcess, TimestampProcess
<1>8. UNCHANGED <<evrPin, softReg, ackReg, trigsrc, swpc, prev>>
  BY DEF Clock, pins
<1> QED
  BY <1>1, <1>2, <1>3, <1>4, <1>5, <1>6, <1>7, <1>8 DEF TInv, TypeOK

LEMMA NextTInv == TInv /\ [Next]_vars => TInv'
<1> SUFFICES ASSUME TInv, [Next]_vars PROVE TInv'
  OBVIOUS
<1> USE TrigLogicAssumption
<1>1. ASSUME NEW tbtTick \in BOOLEAN, NEW faTick \in BOOLEAN, Clock(tbtTick, faTick)
      PROVE  TInv'
  BY <1>1, ClockTInv
<1> USE DEF TInv, TypeOK, EngineShape, pins, sync, logic, engine, sw
<1>2. CASE EvrToggle
  BY <1>2 DEF EvrToggle
<1>3. CASE SoftTrigHigh
  BY <1>3 DEF SoftTrigHigh
<1>4. CASE SoftTrigLow
  <2>1. softReg' \in BOOLEAN
    BY <1>4, Zenon DEF SoftTrigLow
  <2> QED
    BY <1>4, <2>1 DEF SoftTrigLow
<1>5. CASE SetTrigsrc
  <2>1. trigsrc' \in {"evr", "soft"}
    BY <1>5 DEF SetTrigsrc, TrigLogicAssumption
  <2>2. UNCHANGED <<evrPin, softReg, sync, logic, engine, sw>>
    BY <1>5 DEF SetTrigsrc
  <2> QED
    BY <2>1, <2>2
<1>6. CASE SwPoll
  BY <1>6 DEF SwPoll
<1>7. CASE SwAckHigh
  BY <1>7 DEF SwAckHigh
<1>8. CASE SwAckLow
  <2>1. lag' \in 0 .. SwClocks /\ swpc' \in {"poll", "send", "ack"}
    BY <1>8 DEF SwAckLow
  <2>2. ackReg' \in BOOLEAN
    BY <1>8, Zenon DEF SwAckLow
  <2> QED
    BY <1>8, <2>1, <2>2 DEF SwAckLow
<1>9. CASE UNCHANGED vars
  BY <1>9 DEF vars
<1> QED
  BY <1>1, <1>2, <1>3, <1>4, <1>5, <1>6, <1>7, <1>8, <1>9 DEF Next

\* Types, whatever the trigger source does: in particular no fifo_wrlen
\* counts below zero, which would keep dma_active high for 2^32 clocks.
THEOREM TypeCorrect == Spec => []TypeOK
<1>1. TInv => TypeOK
  BY DEF TInv
<1> QED
  BY <1>1, InitTInv, NextTInv, PTL DEF Spec

---------------------------------------------------------------------------
(* The cycle, when the trigger source is quiet during an acknowledge.      *)

LEMMA QuietIsTyped == QuietInv => TInv
BY DEF QuietInv, TInv

LEMMA InitQuietInv == Init => QuietInv
<1> SUFFICES ASSUME Init PROVE QuietInv
  OBVIOUS
<1>1. TInv
  BY InitTInv
<1>2. PulseInv
  BY DEF Init, PulseInv
<1>3. SoftwareInv
  BY DEF Init, SoftwareInv
<1>4. PhaseInv
  BY DEF Init, PhaseInv, phase, AllIdle, IdleEngine
<1>5. tsMatches
  BY DEF Init
<1> QED
  BY <1>1, <1>2, <1>3, <1>4, <1>5 DEF QuietInv, TInv

\* What the engines do in a clock, by the phase the cycle is in.
LEMMA ClockEngines ==
  ASSUME QuietInv, NEW tbtTick \in BOOLEAN, NEW faTick \in BOOLEAN,
         Clock(tbtTick, faTick)
  PROVE  /\ ~dmaTrig /\ AllIdle => AllIdle'
         /\ ~dmaTrig /\ ~dmaActive => ~dmaActive'
         /\ dmaTrig => dmaActive'
         /\ ~dmaTrig /\ ~dmaActive =>
              /\ tbt'.st # "IDLE" => tbt'.word = tbt.word + 1 /\ tbt.st # "IDLE"
              /\ fa'.st # "IDLE" => fa'.word = fa.word + 1 /\ fa.st # "IDLE"
<1> USE TrigLogicAssumption
<1>1. PICK lt \in BurstLens : tbt' = EngineStep(tbt, TbtWords, tbtTick, lt)
  BY DEF Clock
<1>2. PICK lf \in BurstLens : fa' = EngineStep(fa, FaWords, faTick, lf)
  BY DEF Clock
<1>3. PICK la \in BurstLens : adcLen' = AdcStep(la)
  BY DEF Clock
<1>4. la \in Nat \ {0} /\ lt \in Nat \ {0} /\ lf \in Nat \ {0} /\ adcLen \in Nat
      /\ tbt \in Engine(TbtWords) /\ EngineShape(tbt)
      /\ fa \in Engine(FaWords) /\ EngineShape(fa)
  BY DEF QuietInv, TypeOK
<1>5. ASSUME ~dmaTrig
      PROVE  /\ tbt.st = "IDLE" => tbt'.st = "IDLE"
             /\ tbt.len = 0 =>
                  /\ tbt'.len = 0
                  /\ tbt'.st # "IDLE" => tbt'.word = tbt.word + 1 /\ tbt.st # "IDLE"
  BY <1>1, <1>4, <1>5, EngineStepQuiet
<1>6. ASSUME ~dmaTrig
      PROVE  /\ fa.st = "IDLE" => fa'.st = "IDLE"
             /\ fa.len = 0 =>
                  /\ fa'.len = 0
                  /\ fa'.st # "IDLE" => fa'.word = fa.word + 1 /\ fa.st # "IDLE"
  BY <1>2, <1>4, <1>6, EngineStepQuiet
<1>7. ASSUME ~dmaTrig, adcLen = 0 PROVE adcLen' = 0
  BY <1>3, <1>7 DEF AdcStep
<1>8. ASSUME dmaTrig PROVE adcLen' # 0
  <2>1. AllIdle
    BY <1>8 DEF QuietInv, PulseInv, PhaseInv, phase
  <2> QED
    BY <1>3, <1>4, <1>8, <2>1 DEF AdcStep, AllIdle
<1> QED
  BY <1>5, <1>6, <1>7, <1>8 DEF AllIdle, dmaActive

LEMMA ClockPulse ==
  ASSUME QuietInv, TrigDuringAck = FALSE,
         NEW tbtTick \in BOOLEAN, NEW faTick \in BOOLEAN, Clock(tbtTick, faTick)
  PROVE  PulseInv' /\ tsMatches'
<1>1. evrSr'[3] = evrSr[2] /\ softSr'[3] = softSr[2]
      /\ softSr'[2] = softSr[1] /\ softSr'[1] = softReg
  BY ShiftType DEF QuietInv, TypeOK, Clock
<1>2. dmaTrig => ~RiseSelected
  <2>1. CASE trigsrc = "evr"
    BY <2>1 DEF QuietInv, PulseInv, RiseSelected, Rise
  <2>2. CASE trigsrc = "soft"
    BY <2>2 DEF QuietInv, PulseInv, RiseSelected, Rise
  <2> QED
    BY <2>1, <2>2 DEF QuietInv, TypeOK
<1>3. SUFFICES ASSUME dmaTrig'
               PROVE  /\ ~lat' /\ swpc' = "poll"
                      /\ trigsrc' = "evr" => evrSr'[3]
                      /\ trigsrc' = "soft" => softSr'[3]
                      /\ evrSr'[3] \/ softSr'[3]
  <2>1. tsMatches'
    <3>1. CASE dmaTrig
      BY <3>1 DEF QuietInv, PulseInv, PhaseInv, phase, AllIdle, Clock,
                  TimestampProcess
    <3>2. CASE ~dmaTrig
      BY <3>2 DEF QuietInv, Clock, TimestampProcess
    <3> QED
      BY <3>1, <3>2
  <2> QED
    BY <2>1 DEF PulseInv
<1>4. RiseSelected /\ ~lat
  BY <1>3 DEF Clock, TriggerProcess
<1>5. ~lat'
  BY <1>2, <1>4 DEF Clock, LatchProcess
<1>6. swpc' = "poll"
  <2>1. ~ackReg
    BY <1>4 DEF Clock
  <2>2. swpc # "ack" /\ swpc # "send"
    BY <1>4, <2>1 DEF QuietInv, SoftwareInv
  <2> QED
    BY <2>2 DEF QuietInv, TypeOK, Clock
<1>7. trigsrc' = trigsrc /\ trigsrc \in {"evr", "soft"}
  BY DEF QuietInv, TypeOK, Clock, pins
<1>8. CASE trigsrc = "evr"
  BY <1>1, <1>4, <1>5, <1>6, <1>7, <1>8 DEF RiseSelected, Rise
<1>9. CASE trigsrc = "soft"
  BY <1>1, <1>4, <1>5, <1>6, <1>7, <1>9 DEF RiseSelected, Rise
<1> QED
  BY <1>7, <1>8, <1>9

\* The acknowledge and the engines' last words.
LEMMA ClockSoftware ==
  ASSUME QuietInv, TrigDuringAck = FALSE,
         NEW tbtTick \in BOOLEAN, NEW faTick \in BOOLEAN, Clock(tbtTick, faTick)
  PROVE  SoftwareInv'
<1> USE TrigLogicAssumption
<1>1. swpc' = swpc /\ prev' = prev /\ ackReg' = ackReg
  BY DEF Clock
<1>2. swpc # "poll" => ~done /\ ~dmaTrig /\ ~dmaActive
  BY DEF QuietInv, PulseInv, PhaseInv, phase, SoftwareInv, AllIdle, dmaActive,
         EngineShape
<1>3. swpc # "poll" => trigCnt' = trigCnt
  BY <1>2 DEF Clock, CountProcess
<1>4. ASSUME swpc = "send"
      PROVE  /\ lat'
             /\ tbt'.st # "IDLE" => tbt'.word >= lag'
             /\ fa'.st # "IDLE" => fa'.word >= lag'
  <2>1. lat /\ ~ackReg
    BY <1>4 DEF QuietInv, SoftwareInv
  <2>2. lat'
    BY <2>1 DEF Clock, LatchProcess
  <2>3. lag' <= lag + 1 /\ lag \in Nat /\ lag' \in Nat
    BY DEF QuietInv, TypeOK, Clock
  <2>4. /\ tbt'.st # "IDLE" => tbt'.word = tbt.word + 1 /\ tbt.st # "IDLE"
        /\ fa'.st # "IDLE" => fa'.word = fa.word + 1 /\ fa.st # "IDLE"
    BY <1>2, <1>4, ClockEngines
  <2>5. /\ tbt.st # "IDLE" => tbt.word >= lag
        /\ fa.st # "IDLE" => fa.word >= lag
        /\ tbt.word \in Nat /\ fa.word \in Nat
    BY <1>4 DEF QuietInv, SoftwareInv, TypeOK, Engine
  <2> QED
    BY <2>2, <2>3, <2>4, <2>5
<1>5. ASSUME swpc = "ack"
      PROVE  AllIdle' /\ ~lat'
  <2>1. AllIdle /\ ackReg
    BY <1>5 DEF QuietInv, SoftwareInv
  <2>2. ~dmaTrig
    BY <1>2, <1>5
  <2>3. AllIdle'
    BY <2>1, <2>2, ClockEngines
  <2>4. ~lat'
    BY <2>1, <2>2 DEF Clock, LatchProcess
  <2> QED
    BY <2>3, <2>4
<1>6. ackReg' <=> swpc' = "ack"
  BY <1>1 DEF QuietInv, SoftwareInv
<1>7. swpc' # "poll" => trigCnt' = prev'
  BY <1>1, <1>3 DEF QuietInv, SoftwareInv
<1> QED
  BY <1>1, <1>4, <1>5, <1>6, <1>7 DEF SoftwareInv

\* The counter never stands still when it counts.
LEMMA SuccMoves ==
  ASSUME NEW n \in 0 .. CountMod - 1 PROVE Succ(n) # n
BY TrigLogicAssumption DEF Succ

---------------------------------------------------------------------------
(* A clock moves the cycle as AcqCycle says, or not at all.                *)

CycleStep == Cycle!Accept \/ Cycle!Complete \/ Cycle!Release
             \/ UNCHANGED <<phase, trigCnt>>

LEMMA ClockPhase ==
  ASSUME QuietInv, TrigDuringAck = FALSE,
         NEW tbtTick \in BOOLEAN, NEW faTick \in BOOLEAN, Clock(tbtTick, faTick)
  PROVE  PhaseInv' /\ CycleStep
<1> USE TrigLogicAssumption
<1>1. swpc' = swpc /\ prev' = prev /\ (ackReg <=> swpc = "ack")
      /\ (swpc # "poll" => trigCnt = prev)
  BY DEF QuietInv, SoftwareInv, Clock
<1>2. trigCnt' = IF done THEN Succ(trigCnt) ELSE trigCnt
  BY DEF Clock, CountProcess
<1>3. CASE phase = "ready"
  <2>1. AllIdle /\ ~running /\ ~done /\ trigCnt = prev /\ ~lat /\ ~dmaActive
        /\ (dmaTrig => swpc = "poll")
    BY <1>3 DEF QuietInv, PhaseInv, PulseInv, phase, AllIdle, EngineShape, dmaActive
  <2>2. ~running' /\ ~done' /\ (lat' <=> dmaTrig) /\ trigCnt' = prev'
    BY <2>1, <1>1, <1>2 DEF Clock, LatchProcess
  <2>3. CASE dmaTrig
    <3>1. dmaActive'
      BY <2>3, ClockEngines
    <3>2. phase' = "capturing"
      BY <1>1, <2>1, <2>2, <2>3 DEF phase
    <3> QED
      BY <1>3, <1>2, <2>1, <2>2, <3>1, <3>2 DEF PhaseInv, CycleStep, Cycle!Accept
  <2>4. CASE ~dmaTrig
    <3>1. AllIdle'
      BY <2>1, <2>4, ClockEngines
    <3>2. phase' = "ready"
      BY <2>2, <2>4 DEF phase
    <3> QED
      BY <1>3, <1>2, <2>1, <2>2, <3>1, <3>2 DEF PhaseInv, CycleStep
  <2> QED
    BY <2>3, <2>4
<1>4. CASE phase = "capturing"
  <2>1. /\ lat /\ swpc = "poll" /\ trigCnt = prev /\ ~ackReg /\ ~dmaTrig
        /\ running \/ done \/ dmaActive
        /\ done => ~running /\ ~dmaActive
    BY <1>1, <1>4 DEF QuietInv, PhaseInv, PulseInv, phase
  <2>2. lat'
    BY <2>1 DEF Clock, LatchProcess
  <2>3. CASE done
    <3>1. ~running' /\ ~done' /\ ~dmaActive'
      BY <2>1, <2>3, ClockEngines DEF Clock, LatchProcess
    <3>2. trigCnt' = Succ(trigCnt) /\ trigCnt' # prev'
      BY <1>1, <1>2, <2>1, <2>3, SuccMoves DEF QuietInv, TypeOK
    <3>3. phase' = "captured"
      BY <1>1, <2>2, <3>2 DEF phase
    <3>4. Cycle!Complete
      BY <1>4, <3>2, <3>3 DEF Cycle!Complete, Cycle!Succ, Succ
    <3> QED
      BY <3>1, <3>3, <3>4 DEF PhaseInv, CycleStep
  <2>4. CASE ~done
    <3>1. trigCnt' = trigCnt /\ phase' = "capturing"
      BY <1>1, <1>2, <2>1, <2>2, <2>4 DEF phase
    <3>2. CASE dmaActive
      <4>1. running' /\ ~done'
        BY <2>1, <3>2 DEF Clock, LatchProcess
      <4> QED
        BY <1>4, <3>1, <4>1 DEF PhaseInv, CycleStep
    <3>3. CASE ~dmaActive
      <4>1. done' /\ ~running' /\ ~dmaActive'
        BY <2>1, <2>4, <3>3, ClockEngines DEF Clock, LatchProcess
      <4> QED
        BY <1>4, <3>1, <4>1 DEF PhaseInv, CycleStep
    <3> QED
      BY <3>2, <3>3
  <2> QED
    BY <2>3, <2>4
<1>5. CASE phase = "captured"
  <2>1. lat /\ ~running /\ ~done /\ ~dmaActive /\ ~dmaTrig
        /\ (swpc # "poll" \/ trigCnt # prev)
    BY <1>5 DEF QuietInv, PhaseInv, PulseInv, phase
  <2>2. ~running' /\ ~done' /\ ~dmaActive' /\ trigCnt' = trigCnt
    BY <1>2, <2>1, ClockEngines DEF Clock, LatchProcess
  <2>3. CASE ackReg
    <3>1. ~lat' /\ AllIdle /\ AllIdle' /\ trigCnt' = prev'
      BY <1>1, <2>1, <2>2, <2>3, ClockEngines
         DEF QuietInv, SoftwareInv, Clock, LatchProcess
    <3>2. phase' = "ready"
      BY <3>1 DEF phase
    <3> QED
      BY <1>5, <2>2, <3>1, <3>2 DEF PhaseInv, CycleStep, Cycle!Release
  <2>4. CASE ~ackReg
    <3>1. lat'
      BY <2>1, <2>4 DEF Clock, LatchProcess
    <3>2. phase' = "captured"
      BY <1>1, <2>1, <2>2, <3>1 DEF phase
    <3> QED
      BY <1>5, <2>2, <3>2 DEF PhaseInv, CycleStep
  <2> QED
    BY <2>3, <2>4
<1> QED
  BY <1>3, <1>4, <1>5 DEF phase

---------------------------------------------------------------------------
\* A register write, or a change of the EVR input, between two clocks.
LEMMA BetweenClocks ==
  ASSUME QuietInv,
         \/ EvrToggle \/ SoftTrigHigh \/ SoftTrigLow \/ SetTrigsrc
         \/ SwPoll \/ SwAckHigh \/ SwAckLow \/ UNCHANGED vars
  PROVE  PulseInv' /\ SoftwareInv' /\ PhaseInv' /\ tsMatches' /\ CycleStep
<1> USE TrigLogicAssumption DEF pins, sync, logic, engine, sw
<1>1. CASE EvrToggle \/ SoftTrigHigh \/ SoftTrigLow \/ UNCHANGED vars
  <2>1. UNCHANGED <<trigsrc, sync, logic, engine, sw>>
    BY <1>1 DEF EvrToggle, SoftTrigHigh, SoftTrigLow, vars
  <2> QED
    BY <2>1 DEF QuietInv, PulseInv, SoftwareInv, PhaseInv, phase, AllIdle,
                dmaActive, CycleStep
<1>2. CASE SetTrigsrc
  <2>1. UNCHANGED <<sync, logic, engine, sw>>
    BY <1>2 DEF SetTrigsrc
  <2>2. ~softSr[1] /\ ~softSr[2] /\ ~softSr[3]
    BY <1>2 DEF SetTrigsrc
  <2>3. PulseInv'
    BY <2>1, <2>2 DEF QuietInv, PulseInv
  <2> QED
    BY <2>1, <2>3 DEF QuietInv, SoftwareInv, PhaseInv, phase, AllIdle,
                      dmaActive, CycleStep
<1>3. CASE SwPoll
  <2>1. swpc = "poll" /\ trigCnt # prev /\ swpc' = "send" /\ prev' = trigCnt
        /\ lag' = 0 /\ UNCHANGED <<ackReg, pins, sync, logic, engine>>
    BY <1>3 DEF SwPoll
  <2>2. phase = "captured" /\ phase' = "captured" /\ lat /\ ~ackReg
    BY <2>1 DEF QuietInv, PhaseInv, SoftwareInv, phase
  <2>3. ~dmaTrig
    BY <2>2 DEF QuietInv, PulseInv
  <2>4. tbt.word \in Nat /\ fa.word \in Nat
    BY DEF QuietInv, TypeOK, Engine
  <2>5. SoftwareInv'
    BY <2>1, <2>2, <2>4 DEF SoftwareInv
  <2>6. PulseInv' /\ PhaseInv'
    BY <2>1, <2>2, <2>3 DEF QuietInv, PulseInv, PhaseInv, dmaActive
  <2> QED
    BY <2>1, <2>2, <2>5, <2>6 DEF QuietInv, CycleStep
<1>4. CASE SwAckHigh
  <2>1. swpc = "send" /\ lag = SwClocks /\ swpc' = "ack" /\ ackReg' = TRUE
        /\ lag' = 0 /\ UNCHANGED <<prev, pins, sync, logic, engine>>
    BY <1>4 DEF SwAckHigh
  <2>2. phase = "captured" /\ phase' = "captured" /\ lat /\ trigCnt = prev
    BY <2>1 DEF QuietInv, SoftwareInv, phase
  <2>3. ~dmaTrig
    BY <2>2 DEF QuietInv, PulseInv
  <2>4. AllIdle
    BY <2>1, <2>2 DEF QuietInv, SoftwareInv, PhaseInv, TypeOK, Engine, AllIdle,
                      dmaActive
  <2>5. SoftwareInv'
    BY <2>1, <2>2, <2>4 DEF SoftwareInv, AllIdle
  <2>6. PulseInv' /\ PhaseInv'
    BY <2>1, <2>2, <2>3 DEF QuietInv, PulseInv, PhaseInv, dmaActive
  <2> QED
    BY <2>1, <2>2, <2>5, <2>6 DEF QuietInv, CycleStep
<1>5. CASE SwAckLow
  <2>1. swpc = "ack" /\ lag > 0 /\ swpc' = "poll" /\ ackReg' = FALSE
        /\ lag' = 0 /\ UNCHANGED <<prev, pins, sync, logic, engine>>
    BY <1>5 DEF SwAckLow
  <2>2. phase = "ready" /\ phase' = "ready" /\ ~lat
    BY <2>1 DEF QuietInv, SoftwareInv, phase
  <2>3. ~dmaTrig
    BY <2>1 DEF QuietInv, PulseInv
  <2>4. SoftwareInv'
    BY <2>1 DEF SoftwareInv
  <2>5. PulseInv' /\ PhaseInv'
    BY <2>1, <2>2, <2>3 DEF QuietInv, PulseInv, PhaseInv, AllIdle
  <2> QED
    BY <2>1, <2>2, <2>4, <2>5 DEF QuietInv, CycleStep
<1> QED
  BY <1>1, <1>2, <1>3, <1>4, <1>5

\* The invariant is inductive and every step is a step of the cycle.
LEMMA QuietStep ==
  ASSUME QuietInv, TrigDuringAck = FALSE, [Next]_vars
  PROVE  QuietInv' /\ CycleStep
<1>1. TInv'
  BY QuietIsTyped, NextTInv
<1>2. PulseInv' /\ SoftwareInv' /\ PhaseInv' /\ tsMatches' /\ CycleStep
  <2>1. ASSUME NEW tbtTick \in BOOLEAN, NEW faTick \in BOOLEAN,
               Clock(tbtTick, faTick)
        PROVE  PulseInv' /\ SoftwareInv' /\ PhaseInv' /\ tsMatches' /\ CycleStep
    BY <2>1, ClockPulse, ClockSoftware, ClockPhase
  <2> QED
    BY <2>1, BetweenClocks DEF Next
<1> QED
  BY <1>1, <1>2 DEF QuietInv, TInv

---------------------------------------------------------------------------
LEMMA QuietIsSafe == QuietInv => LatchCoversBurst /\ OneBurstPerPulse
<1> SUFFICES ASSUME QuietInv PROVE LatchCoversBurst /\ OneBurstPerPulse
  OBVIOUS
<1>1. ~lat => AllIdle
  BY DEF QuietInv, PhaseInv, phase
<1>2. dmaTrig => ~lat
  BY DEF QuietInv, PulseInv
<1> QED
  BY <1>1, <1>2 DEF QuietInv, LatchCoversBurst, OneBurstPerPulse, AllIdle

\* Every burst, its trailing words included, is under the trigger latch, for
\* all burst lengths and sample sizes, if no trigger edge arrives while the
\* acknowledge is high.
THEOREM QuietSafety ==
  ASSUME TrigDuringAck = FALSE
  PROVE  Spec => []LatchCoversBurst
<1>1. QuietInv /\ [Next]_vars => QuietInv'
  BY QuietStep
<1> QED
  BY <1>1, QuietIsSafe, InitQuietInv, PTL DEF Spec

\* A trigger pulse finds every engine idle, so that the three capture the
\* same trigger, and the latched timestamp is that trigger's, under the same
\* assumption.
THEOREM OneBurst ==
  ASSUME TrigDuringAck = FALSE
  PROVE  Spec => []OneBurstPerPulse
<1>1. QuietInv /\ [Next]_vars => QuietInv'
  BY QuietStep
<1> QED
  BY <1>1, QuietIsSafe, InitQuietInv, PTL DEF Spec

\* The trigger logic implements the acquisition cycle, under the same
\* assumption: accepted, captured, counted once, acknowledged, ready.
THEOREM Refinement ==
  ASSUME TrigDuringAck = FALSE
  PROVE  Spec => CycleSpec
<1>1. QuietInv /\ [Next]_vars => QuietInv'
  BY QuietStep
<1>2. Init => Cycle!Init
  BY DEF Init, Cycle!Init, phase
<1>3. QuietInv /\ [Next]_vars => [Cycle!Next]_(Cycle!cycleVars)
  BY QuietStep DEF CycleStep, Cycle!Next, Cycle!cycleVars
<1> QED
  BY <1>1, <1>2, <1>3, InitQuietInv, PTL DEF Spec, CycleSpec, Cycle!Spec

---------------------------------------------------------------------------
(* Triggers at any time.  Bursts may now overlap the acknowledge, so the   *)
(* phases of the cycle are gone; what is left is an account of the counts  *)
(* that can still come.  Between two acknowledges the latch lets in one    *)
(* more trigger; while the acknowledge is high, one for each clock at most.*)

\* How far the counter is ahead of what the software has read.
Ahead(n, p) == IF n >= p THEN n - p ELSE n + CountMod - p
Unit(b)     == IF b THEN 1 ELSE 0

\* Counts on their way: one due now, one of the burst in flight, and one of
\* the trigger that an open latch would let in.
Coming == Unit(done) + Unit(running \/ dmaActive) + Unit(~lat)

\* What the acknowledge may have let in on top of that.
Slack == IF swpc = "poll" THEN SwClocks ELSE IF swpc = "ack" THEN lag ELSE 0

\* A pulse comes with an open latch, and the edge it came from is spent.
PulseSpent ==
  /\ dmaTrig => ~lat /\ (evrSr[3] \/ softSr[3])
  /\ dmaTrig /\ trigsrc = "evr" => evrSr[3]
  /\ dmaTrig /\ trigsrc = "soft" =>
       softSr[3] \/ (~softSr[1] /\ ~softSr[2])

\* A burst is running, or is just about to be noticed.
Flight == running \/ dmaActive

ReasonInv ==
  /\ TInv
  /\ PulseSpent
  /\ (ackReg <=> swpc = "ack")
  /\ dmaActive => running \/ lat
  /\ Ahead(trigCnt, prev) + Coming <= 3 + Slack
  /\ swpc = "ack" /\ lag > 0 /\ lat => Flight
  /\ swpc = "poll" /\ lat => trigCnt # prev \/ done \/ Flight

\* The distance to the counter's last reading grows with every count.
LEMMA AheadSucc ==
  ASSUME NEW n \in 0 .. CountMod - 1, NEW p \in 0 .. CountMod - 1
  PROVE  /\ Ahead(n, p) \in 0 .. CountMod - 1
         /\ Ahead(n, p) = 0 <=> n = p
         /\ Ahead(n, p) + 1 < CountMod => Ahead(Succ(n), p) = Ahead(n, p) + 1
BY TrigLogicAssumption DEF Ahead, Succ

LEMMA InitReasonInv == Init => ReasonInv
<1> SUFFICES ASSUME Init PROVE ReasonInv
  OBVIOUS
<1>1. TInv
  BY InitTInv
<1>2. ~dmaActive
  BY DEF Init, dmaActive, IdleEngine
<1>3. Ahead(trigCnt, prev) + Coming <= 3 + Slack
  BY <1>2, TrigLogicAssumption DEF Init, Ahead, Coming, Unit, Slack
<1> QED
  BY <1>1, <1>2, <1>3 DEF Init, ReasonInv, PulseSpent

\* A pulse starts the ADC engine or finds it running; without one no engine
\* that has counted down starts again.
LEMMA ClockActive ==
  ASSUME TInv, NEW tbtTick \in BOOLEAN, NEW faTick \in BOOLEAN,
         Clock(tbtTick, faTick)
  PROVE  /\ dmaTrig => dmaActive \/ dmaActive'
         /\ ~dmaTrig /\ ~dmaActive => ~dmaActive'
<1> USE TrigLogicAssumption
<1>1. PICK lt \in BurstLens : tbt' = EngineStep(tbt, TbtWords, tbtTick, lt)
  BY DEF Clock
<1>2. PICK lf \in BurstLens : fa' = EngineStep(fa, FaWords, faTick, lf)
  BY DEF Clock
<1>3. PICK la \in BurstLens : adcLen' = AdcStep(la)
  BY DEF Clock
<1>4. la \in Nat \ {0} /\ lt \in Nat \ {0} /\ lf \in Nat \ {0} /\ adcLen \in Nat
      /\ tbt \in Engine(TbtWords) /\ EngineShape(tbt)
      /\ fa \in Engine(FaWords) /\ EngineShape(fa)
  BY DEF TInv, TypeOK
<1>5. ~dmaTrig /\ tbt.len = 0 => tbt'.len = 0
  BY <1>1, <1>4, EngineStepQuiet
<1>6. ~dmaTrig /\ fa.len = 0 => fa'.len = 0
  BY <1>2, <1>4, EngineStepQuiet
<1>7. ~dmaTrig /\ adcLen = 0 => adcLen' = 0
  BY <1>3 DEF AdcStep
<1>8. dmaTrig /\ adcLen = 0 => adcLen' # 0
  BY <1>3, <1>4 DEF AdcStep
<1> QED
  BY <1>5, <1>6, <1>7, <1>8 DEF dmaActive

\* The edge behind a pulse does not give a second pulse.
LEMMA ClockSpent ==
  ASSUME ReasonInv, NEW tbtTick \in BOOLEAN, NEW faTick \in BOOLEAN,
         Clock(tbtTick, faTick)
  PROVE  PulseSpent'
<1>1. evrSr'[3] = evrSr[2] /\ softSr'[3] = softSr[2]
  BY ShiftType DEF ReasonInv, TInv, TypeOK, Clock
<1>2. trigsrc' = trigsrc /\ trigsrc \in {"evr", "soft"}
  BY DEF ReasonInv, TInv, TypeOK, Clock, pins
<1>3. dmaTrig => ~RiseSelected
  <2>1. CASE trigsrc = "evr"
    BY <2>1 DEF ReasonInv, PulseSpent, RiseSelected, Rise
  <2>2. CASE trigsrc = "soft"
    BY <2>2 DEF ReasonInv, PulseSpent, RiseSelected, Rise
  <2> QED
    BY <1>2, <2>1, <2>2
<1>4. SUFFICES ASSUME dmaTrig'
               PROVE  /\ ~lat' /\ (evrSr'[3] \/ softSr'[3])
                      /\ trigsrc' = "evr" => evrSr'[3]
                      /\ trigsrc' = "soft" => softSr'[3]
  BY DEF PulseSpent
<1>5. RiseSelected /\ ~lat
  BY <1>4 DEF Clock, TriggerProcess
<1>6. ~lat'
  BY <1>3, <1>5 DEF Clock, LatchProcess
<1>7. CASE trigsrc = "evr"
  BY <1>1, <1>2, <1>5, <1>6, <1>7 DEF RiseSelected, Rise
<1>8. CASE trigsrc = "soft"
  BY <1>1, <1>2, <1>5, <1>6, <1>8 DEF RiseSelected, Rise
<1> QED
  BY <1>2, <1>7, <1>8

\* What a clock does to the latch, the flags and the counter.
LEMMA ClockReason ==
  ASSUME ReasonInv, CountMod > SwClocks + 3,
         NEW tbtTick \in BOOLEAN, NEW faTick \in BOOLEAN, Clock(tbtTick, faTick)
  PROVE  ReasonInv'
<1> USE TrigLogicAssumption
<1>1. TInv' /\ PulseSpent'
  BY ClockTInv, ClockSpent DEF ReasonInv
<1>2. /\ swpc' = swpc /\ prev' = prev /\ ackReg' = ackReg
      /\ (ackReg <=> swpc = "ack") /\ swpc \in {"poll", "send", "ack"}
  BY DEF ReasonInv, TInv, TypeOK, Clock
<1>3. /\ lat' = ((lat \/ dmaTrig) /\ ~(lat /\ ackReg))
      /\ done' = (running /\ ~dmaActive)
      /\ running' = ((running \/ (lat /\ dmaActive)) /\ ~(running /\ ~dmaActive))
  BY DEF Clock, LatchProcess
<1>4. /\ lat \in BOOLEAN /\ done \in BOOLEAN /\ running \in BOOLEAN
      /\ dmaTrig \in BOOLEAN /\ dmaActive \in BOOLEAN /\ dmaActive' \in BOOLEAN
      /\ ackReg \in BOOLEAN
  BY DEF ReasonInv, TInv, TypeOK, dmaActive
<1>5. /\ dmaTrig => dmaActive \/ dmaActive'
      /\ ~dmaTrig /\ ~dmaActive => ~dmaActive'
      /\ dmaTrig => ~lat
      /\ dmaActive => running \/ lat
  BY ClockActive DEF ReasonInv, PulseSpent
<1>6. dmaActive' => running' \/ lat'
  BY <1>3, <1>4, <1>5
<1>7. lat' /\ ~lat => Flight'
  BY <1>3, <1>4, <1>5 DEF Flight
<1>8. lat /\ Flight => done' \/ Flight'
  BY <1>3, <1>4 DEF Flight
<1>9. /\ trigCnt \in 0 .. CountMod - 1 /\ prev \in 0 .. CountMod - 1
      /\ lag \in 0 .. SwClocks
  BY DEF ReasonInv, TInv, TypeOK
<1>10. /\ Ahead(trigCnt, prev) \in 0 .. CountMod - 1
       /\ Ahead(trigCnt, prev) = 0 <=> trigCnt = prev
  BY <1>9, AheadSucc
<1>11. Ahead(trigCnt, prev) + Coming <= 3 + Slack
  BY DEF ReasonInv
<1>12. Slack \in 0 .. SwClocks
  BY <1>9 DEF Slack
<1>13. trigCnt' = IF done THEN Succ(trigCnt) ELSE trigCnt
  BY DEF Clock, CountProcess
<1>14. Ahead(trigCnt', prev') = Ahead(trigCnt, prev) + Unit(done)
  <2>1. CASE done
    <3>1. Ahead(trigCnt, prev) + 1 < CountMod
      <4>1. Coming >= 1
        BY <1>4, <2>1 DEF Coming, Unit
      <4>2. Coming \in Nat
        BY DEF Coming, Unit
      <4> QED
        BY <4>1, <4>2, <1>10, <1>11, <1>12, <2>1 DEF Coming, Unit
    <3> QED
      BY <3>1, <2>1, <1>2, <1>9, <1>13, AheadSucc DEF Unit
  <2>2. CASE ~done
    BY <2>2, <1>2, <1>10, <1>13 DEF Unit
  <2> QED
    BY <2>1, <2>2
<1>15. Unit(done) + Coming' <= Coming + Unit(ackReg)
  BY <1>3, <1>4, <1>5 DEF Coming, Unit
<1>16. Slack' = Slack + Unit(ackReg)
  BY <1>2, <1>9 DEF Slack, Unit, Clock
<1>17. Ahead(trigCnt, prev)' + Coming' <= 3 + Slack'
  BY <1>10, <1>11, <1>12, <1>14, <1>15, <1>16 DEF Coming, Unit
<1>18. swpc = "ack" /\ lat' => Flight'
  BY <1>2, <1>3, <1>4, <1>7
<1>19. swpc = "poll" /\ lat' => trigCnt' # prev' \/ done' \/ Flight'
  <2> SUFFICES ASSUME swpc = "poll", lat, ~Flight PROVE trigCnt' # prev'
    BY <1>7, <1>8
  <2>1. trigCnt # prev \/ done
    BY DEF ReasonInv
  <2>2. Ahead(trigCnt', prev') # 0
    BY <2>1, <1>10, <1>14 DEF Unit
  <2> QED
    BY <2>2, <1>1, AheadSucc DEF TInv, TypeOK
<1> QED
  BY <1>1, <1>2, <1>6, <1>17, <1>18, <1>19 DEF ReasonInv

\* Between two clocks only the software's own steps touch the account.
LEMMA ReasonStep ==
  ASSUME ReasonInv, CountMod > SwClocks + 3, [Next]_vars
  PROVE  ReasonInv'
<1> USE TrigLogicAssumption DEF pins, sync, logic, engine, sw
<1>1. TInv'
  BY NextTInv DEF ReasonInv
<1>2. ASSUME NEW tbtTick \in BOOLEAN, NEW faTick \in BOOLEAN, Clock(tbtTick, faTick)
      PROVE  ReasonInv'
  BY <1>2, ClockReason
<1>3. CASE EvrToggle \/ SoftTrigHigh \/ SoftTrigLow \/ UNCHANGED vars
  <2>1. UNCHANGED <<trigsrc, sync, logic, engine, sw>>
    BY <1>3 DEF EvrToggle, SoftTrigHigh, SoftTrigLow, vars
  <2> QED
    BY <2>1, <1>1 DEF ReasonInv, PulseSpent, Coming, Slack, Flight, dmaActive
<1>4. CASE SetTrigsrc
  <2>1. UNCHANGED <<sync, logic, engine, sw>>
    BY <1>4 DEF SetTrigsrc
  <2>2. ~softSr[1] /\ ~softSr[2] /\ ~softSr[3]
    BY <1>4 DEF SetTrigsrc
  <2>3. PulseSpent'
    BY <2>1, <2>2 DEF ReasonInv, PulseSpent
  <2> QED
    BY <2>1, <2>3, <1>1 DEF ReasonInv, Coming, Slack, Flight, dmaActive
<1>5. CASE SwPoll
  <2>1. /\ swpc = "poll" /\ swpc' = "send" /\ prev' = trigCnt
        /\ UNCHANGED <<ackReg, pins, sync, logic, engine>>
    BY <1>5 DEF SwPoll
  <2>2. Ahead(trigCnt', prev') \in Nat /\ Ahead(trigCnt', prev') <= 0
    BY <2>1, AheadSucc DEF ReasonInv, TInv, TypeOK
  <2>3. Coming' \in 0 .. 3 /\ Slack' = 0
    BY <2>1 DEF Coming, Unit, Slack
  <2>4. Ahead(trigCnt', prev') + Coming' <= 3 + Slack'
    BY <2>2, <2>3
  <2>5. PulseSpent' /\ ~ackReg' /\ (dmaActive' => running' \/ lat')
    BY <2>1 DEF ReasonInv, PulseSpent, dmaActive
  <2> QED
    BY <2>1, <2>4, <2>5, <1>1 DEF ReasonInv
<1>6. CASE SwAckHigh
  <2>1. /\ swpc = "send" /\ swpc' = "ack" /\ ackReg' = TRUE /\ lag' = 0
        /\ UNCHANGED <<prev, pins, sync, logic, engine>>
    BY <1>6 DEF SwAckHigh
  <2>2. Ahead(trigCnt, prev)' + Coming' <= 3 + Slack'
    BY <2>1 DEF ReasonInv, Coming, Slack, dmaActive
  <2> QED
    BY <2>1, <2>2, <1>1 DEF ReasonInv, PulseSpent, dmaActive
<1>7. CASE SwAckLow
  <2>1. /\ swpc = "ack" /\ lag > 0 /\ swpc' = "poll" /\ ackReg' = FALSE
        /\ UNCHANGED <<prev, pins, sync, logic, engine>>
    BY <1>7 DEF SwAckLow
  <2>2. Ahead(trigCnt, prev)' + Coming' <= 3 + Slack'
    <3>1. Slack <= Slack' /\ Slack \in Nat /\ Slack' \in Nat
      BY <2>1 DEF ReasonInv, TInv, TypeOK, Slack
    <3>2. Ahead(trigCnt, prev) \in Nat
      BY AheadSucc DEF ReasonInv, TInv, TypeOK
    <3>3. Coming \in Nat
      BY DEF Coming, Unit
    <3>4. Ahead(trigCnt, prev)' = Ahead(trigCnt, prev) /\ Coming' = Coming
      BY <2>1 DEF Coming, dmaActive
    <3> QED
      BY <3>1, <3>2, <3>3, <3>4 DEF ReasonInv
  <2> QED
    BY <2>1, <2>2, <1>1 DEF ReasonInv, PulseSpent, Flight, dmaActive
<1> QED
  BY <1>2, <1>3, <1>4, <1>5, <1>6, <1>7 DEF Next

\* A set latch never waits for a count that cannot come, whenever triggers
\* arrive, as long as the counter cannot come round while the software
\* sends and acknowledges (2^32 bursts in the code).
THEOREM LatchHasItsReason ==
  ASSUME CountMod > SwClocks + 3
  PROVE  Spec => []LatchHasReason
<1>1. ReasonInv /\ [Next]_vars => ReasonInv'
  BY ReasonStep
<1>2. ReasonInv => LatchHasReason
  BY DEF ReasonInv, LatchHasReason, Flight
<1> QED
  BY <1>1, <1>2, InitReasonInv, PTL DEF Spec
=============================================================================
