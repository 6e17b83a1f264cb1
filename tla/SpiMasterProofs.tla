-------------------------- MODULE SpiMasterProofs --------------------------
(***************************************************************************)
(* A transfer of an SPI master can always end, whichever of the two kinds, *)
(* whatever is strobed and when.                                           *)
(***************************************************************************)
EXTENDS SpiMaster, TLAPS

\* A word that waits is a word written; a transfer that clears at its end
\* keeps its latch until then.
SpiInv ==
  /\ TypeOK /\ CanEnd
  /\ m.latch => m.data \in Words

LEMMA InitSpiInv == Init => SpiInv
BY DEF Init, Ready, SpiInv, TypeOK, CanEnd

\* The record after each step.
LEMMA Steps ==
  ASSUME TypeOK
  PROVE  /\ \A w : Strobe(w) /\ ~Clearing =>
              m' = [state |-> m.state, latch |-> TRUE, data |-> w, treg |-> m.treg]
         /\ Begin => m' = [state |-> "shift", latch |-> ~ClearsAtStart, data |-> m.data,
                           treg |-> m.data]
         /\ End => m' = [state |-> "done", latch |-> FALSE,
                         data |-> IF ClearsAtStart THEN m.data ELSE NoWord, treg |-> m.treg]
         /\ Release => m' = [state |-> "idle", latch |-> m.latch, data |-> m.data,
                             treg |-> m.treg]
BY DEF TypeOK, Strobe, Begin, End, Release

LEMMA NextSpiInv ==
  ASSUME ClearsAtStart \in BOOLEAN, SpiInv, [Next]_m
  PROVE  SpiInv'
<1>0. TypeOK
  BY DEF SpiInv
<1>1. ASSUME NEW w \in Words, Strobe(w)
      PROVE  SpiInv'
  <2>1. CASE Clearing
    BY <1>1, <2>1 DEF Strobe, SpiInv, TypeOK, CanEnd
  <2>2. CASE ~Clearing
    <3>1. m' = [state |-> m.state, latch |-> TRUE, data |-> w, treg |-> m.treg]
      BY <1>0, <1>1, <2>2, Steps
    <3> QED
      BY <3>1 DEF SpiInv, TypeOK, CanEnd
  <2> QED
    BY <2>1, <2>2
<1>2. CASE Begin
  <2>1. m' = [state |-> "shift", latch |-> ~ClearsAtStart, data |-> m.data, treg |-> m.data]
    BY <1>0, <1>2, Steps
  <2>2. m.data \in Words
    BY <1>2 DEF Begin, SpiInv
  <2> QED
    BY <2>1, <2>2 DEF SpiInv, TypeOK, CanEnd
<1>3. CASE End
  <2>1. m' = [state |-> "done", latch |-> FALSE,
              data |-> IF ClearsAtStart THEN m.data ELSE NoWord, treg |-> m.treg]
    BY <1>0, <1>3, Steps
  <2> QED
    BY <2>1 DEF SpiInv, TypeOK, CanEnd
<1>4. CASE Release
  <2>1. m' = [state |-> "idle", latch |-> m.latch, data |-> m.data, treg |-> m.treg]
    BY <1>0, <1>4, Steps
  <2> QED
    BY <2>1 DEF SpiInv, TypeOK, CanEnd
<1>5. CASE UNCHANGED m
  BY <1>5 DEF SpiInv, TypeOK, CanEnd
<1> QED
  BY <1>1, <1>2, <1>3, <1>4, <1>5 DEF Next

\* A transfer that has begun finds the latch its last bit may need, and
\* shifts out a word that was written.
THEOREM TransfersCanEnd ==
  ASSUME ClearsAtStart \in BOOLEAN
  PROVE  Spec => []CanEnd
<1>1. SpiInv /\ [Next]_m => SpiInv'
  BY NextSpiInv
<1>2. SpiInv => CanEnd
  BY DEF SpiInv
<1> QED
  BY <1>1, <1>2, InitSpiInv, PTL DEF Spec
=============================================================================
