--------------------------- MODULE CommandsProofs ---------------------------
(***************************************************************************)
(* Proofs about Commands for any number of slots, clients and messages:    *)
(* what is executed is the client's own, and what the attenuator, the      *)
(* input delays and the converters end up with.                            *)
(***************************************************************************)
EXTENDS Commands, TLAPS

---------------------------------------------------------------------------
(* The types, with the buffers'; a handler runs if and only if a client is *)
(* connected; what waits for the attenuator, or is on its way, is a word   *)
(* that was written.                                                       *)

Buffers == [addr : Sent \cup {"SOFT_TRIG_MSG"}, addrFrom : Clients \cup {0},
            data : Clients \cup {0}]

HandlersOK ==
  /\ conn \in [Slots -> Clients \cup {0}] /\ msgs \in 0 .. MaxMsgs
  /\ at \in [Slots -> {"off", "recv", "exec", "idlyOn", "idlyOff",
                       "read0", "check0", "read1", "check1"}]
  /\ rx \in [Slots -> Buffers]
  /\ \A s \in Slots : conn[s] = 0 <=> at[s] = "off"

DsaOK == /\ Dsa!TypeOK
         /\ dsa.latch => dsa.data # DsaWords
         /\ dsa.state = "shift" => dsa.treg # DsaWords

RestOK ==
  /\ wait \subseteq Slots /\ shared \subseteq Slots /\ Adc!TypeOK
  /\ dsaReg \in 0 .. DsaWords - 1 /\ dsaDev \in 0 .. DsaWords - 1
  /\ wval \in Clients \cup {0} /\ taps \in Clients \cup {0} /\ str \in BOOLEAN
  /\ adcDev \in Clients \cup {0} /\ rdata \in Clients \cup {0, Any} /\ lost \in BOOLEAN

TInv == HandlersOK /\ DsaOK /\ RestOK

Owned == \A s \in Slots : rx[s].addrFrom \in {0, conn[s]} /\ rx[s].data \in {0, conn[s]}

\* A strobe that is high is some handler's, and has loaded the register.
DelayInv ==
  /\ str => taps = wval /\ \E s \in Slots : at[s] = "idlyOff"
  /\ (\A s \in Slots : at[s] # "idlyOn") => taps = wval

\* The word of the last write that was not lost is in the latch, in the
\* shift register or in the attenuator.
AttenInv ==
  /\ dsa.state # "idle" => ~dsa.latch
  /\ ~lost => /\ dsa.latch => dsa.data = dsaReg
              /\ dsa.state = "shift" => dsa.treg = dsaReg
              /\ dsa.state # "shift" /\ ~dsa.latch => dsaDev = dsaReg

\* The converters' master is busy only while a handler waits for it.
BusyInv ==
  /\ wait \subseteq InSpi
  /\ adc.state = "done" => ~adc.latch
  /\ adc.state = "shift" => adc.latch
  /\ adc.state # "idle" \/ adc.latch => wait # {}
  /\ \A s \in wait : at[s] # "read1"
  /\ \A s \in InSpi \ shared : InSpi = {s}

Holds(op, v) == \/ adc.state = "idle" /\ adc.latch /\ adc.data = [op |-> op, val |-> v]
                \/ adc.state = "shift" /\ adc.treg = [op |-> op, val |-> v]

\* Where the word of a handler without company is.
AloneInv == \A s \in InSpi \ shared :
  /\ at[s] = "read0" /\ s \in wait =>
       Holds("write", rx[s].data) \/ (adc.state = "done" /\ adcDev = rx[s].data)
  /\ at[s] # "read0" \/ s \notin wait => adcDev = rx[s].data
  /\ at[s] \in {"check0", "check1"} /\ s \in wait =>
       Holds("read", rx[s].data) \/ (adc.state = "done" /\ rdata = rx[s].data)
  /\ at[s] \in {"check0", "check1"} /\ s \notin wait => rdata = rx[s].data

CmdInv == TInv /\ Owned /\ DelayInv /\ AttenInv /\ BusyInv /\ AloneInv

---------------------------------------------------------------------------
(* Types *)

LEMMA TypesOfTInv == TInv => TypeOK
BY DEF TInv, HandlersOK, DsaOK, RestOK, TypeOK

LEMMA InitTInv == Init => TInv
<1> SUFFICES ASSUME Init PROVE TInv
  OBVIOUS
<1> USE CommandsAssumption
<1>1. HandlersOK
  BY DEF Init, HandlersOK, Buffers, Cleared
<1>2. DsaOK
  BY DEF Init, DsaOK, Dsa!Ready, Dsa!TypeOK
<1>3. Adc!TypeOK
  BY DEF Init, Adc!Ready, Adc!TypeOK
<1>4. rdata \in Clients \cup {0, Any}
  BY Zenon DEF Init
<1>5. wait \subseteq Slots /\ shared \subseteq Slots /\ str \in BOOLEAN /\ lost \in BOOLEAN
  BY DEF Init
<1>6. /\ dsaReg \in 0 .. DsaWords - 1 /\ dsaDev \in 0 .. DsaWords - 1
      /\ wval \in Clients \cup {0} /\ taps \in Clients \cup {0} /\ adcDev \in Clients \cup {0}
  BY DEF Init
<1> QED
  BY <1>1, <1>2, <1>3, <1>4, <1>5, <1>6 DEF TInv, RestOK

\* A handler that goes from one place to another keeps its client.
LEMMA GotoTypes ==
  ASSUME HandlersOK, NEW s \in Slots, at[s] # "off",
         NEW l \in {"recv", "idlyOn", "idlyOff", "read0", "check0", "read1", "check1"},
         Goto(s, l)
  PROVE  HandlersOK'
BY DEF HandlersOK, Goto

\* The masters keep their shape.
LEMMA DsaTypes ==
  ASSUME DsaOK, DsaWords \in Nat \ {0},
         (\E w \in 0 .. DsaWords - 1 : Dsa!Strobe(w)) \/ Dsa!Begin \/ Dsa!End \/ Dsa!Release
  PROVE  DsaOK'
<1>1. Dsa!TypeOK'
  BY DEF DsaOK, Dsa!TypeOK, Dsa!Strobe, Dsa!Clearing, Dsa!Begin, Dsa!End, Dsa!Release
<1>2. ASSUME NEW w \in 0 .. DsaWords - 1, Dsa!Strobe(w)
      PROVE  DsaOK'
  <2>1. CASE Dsa!Clearing
    BY <1>1, <1>2, <2>1 DEF DsaOK, Dsa!Strobe
  <2>2. CASE ~Dsa!Clearing
    <3>1. dsa' = [state |-> dsa.state, latch |-> TRUE, data |-> w, treg |-> dsa.treg]
      BY <1>2, <2>2 DEF DsaOK, Dsa!Strobe, Dsa!TypeOK
    <3> QED
      BY <1>1, <3>1 DEF DsaOK
  <2> QED
    BY <2>1, <2>2
<1>3. CASE Dsa!Begin \/ Dsa!End \/ Dsa!Release
  BY <1>1, <1>3 DEF DsaOK, Dsa!Begin, Dsa!End, Dsa!Release, Dsa!TypeOK
<1> QED
  BY <1>2, <1>3

LEMMA AdcTypes ==
  ASSUME Adc!TypeOK,
         (\E w \in AdcWords : Adc!Strobe(w)) \/ Adc!Begin \/ Adc!End \/ Adc!Release
  PROVE  Adc!TypeOK'
BY DEF Adc!TypeOK, Adc!Strobe, Adc!Clearing, Adc!Begin, Adc!End, Adc!Release

LEMMA WordsAreNat == \A x \in Clients \cup {0} : x \in Nat
BY CommandsAssumption

LEMMA NextTInv ==
  ASSUME TInv, [Next]_vars
  PROVE  TInv'
<1> USE CommandsAssumption
<1>1. ASSUME NEW s \in Slots, NEW c \in Clients, Connect(s, c)
      PROVE  TInv'
  <2>1. HandlersOK'
    BY <1>1 DEF Connect, TInv, HandlersOK, Buffers, Cleared
  <2> QED
    BY <1>1, <2>1 DEF Connect, TInv, RestOK, DsaOK, atten, delays, spi, Dsa!TypeOK, Adc!TypeOK
<1>2. ASSUME NEW s \in Slots, Disconnect(s)
      PROVE  TInv'
  <2>1. HandlersOK'
    BY <1>2 DEF Disconnect, TInv, HandlersOK, Buffers, Cleared
  <2> QED
    BY <1>2, <2>1 DEF Disconnect, TInv, RestOK, DsaOK, atten, delays, spi, Dsa!TypeOK, Adc!TypeOK
<1>3. ASSUME NEW s \in Slots, Receive(s)
      PROVE  TInv'
  <2>1. rx' \in [Slots -> Buffers]
    BY <1>3 DEF Receive, TInv, HandlersOK, Buffers
  <2>2. HandlersOK'
    BY <1>3, <2>1 DEF Receive, TInv, HandlersOK
  <2> QED
    BY <1>3, <2>2 DEF Receive, TInv, RestOK, DsaOK, atten, delays, spi, Dsa!TypeOK, Adc!TypeOK
<1>4. ASSUME NEW s \in Slots, Execute(s)
      PROVE  TInv'
  <2>0. rx[s].data \in Clients \cup {0}
    <3>1. rx[s] \in Buffers
      BY DEF TInv, HandlersOK
    <3> QED
      BY <3>1 DEF Buffers
  <2>1. rx[s].data \in Nat /\ rx[s].data \in Clients \cup {0}
    BY <2>0, WordsAreNat, Zenon
  <2>2. HandlersOK'
    <3>1. CASE Ignore(s) \/ SetPlain(s) \/ SetAtten(s)
      BY <3>1, GotoTypes DEF Ignore, SetPlain, SetAtten, TInv
    <3>2. CASE IdlyValue(s) \/ IdlyOn(s) \/ IdlyOff(s)
      BY <3>2, GotoTypes DEF IdlyValue, IdlyOn, IdlyOff, TInv
    <3>3. CASE SpiWrite(s) \/ SpiRead(s) \/ SpiCheck(s)
      <4>1. at[s] # "off" /\ \E l \in {"recv", "read0", "check0", "read1", "check1"} : Goto(s, l)
        BY <3>3 DEF SpiWrite, SpiRead, SpiCheck
      <4> QED
        BY <4>1, GotoTypes DEF TInv
    <3> QED
      BY <1>4, <3>1, <3>2, <3>3 DEF Execute
  <2>3. CASE Ignore(s) \/ SetPlain(s) \/ SpiCheck(s)
    BY <2>2, <2>3 DEF Ignore, SetPlain, SpiCheck, TInv, RestOK, DsaOK, atten, delays, spi,
                      Dsa!TypeOK, Adc!TypeOK
  <2>4. CASE SetAtten(s)
    <3>1. dsaReg' \in 0 .. DsaWords - 1
      BY <2>1, <2>4 DEF SetAtten
    <3>2. DsaOK'
      BY <2>4, <3>1, DsaTypes DEF SetAtten, TInv
    <3>3. lost' \in BOOLEAN
      BY <2>4 DEF SetAtten, Dsa!Clearing
    <3> QED
      BY <2>2, <2>4, <3>1, <3>2, <3>3 DEF SetAtten, TInv, RestOK, delays, spi, Adc!TypeOK
  <2>5. CASE IdlyValue(s) \/ IdlyOn(s) \/ IdlyOff(s)
    BY <2>1, <2>2, <2>5 DEF IdlyValue, IdlyOn, IdlyOff, TInv, RestOK, DsaOK, atten, spi,
                            Dsa!TypeOK, Adc!TypeOK
  <2>6. CASE SpiWrite(s) \/ SpiRead(s)
    <3>1. Adc!TypeOK'
      BY <2>1, <2>6, AdcTypes DEF SpiWrite, SpiRead, TInv, RestOK, AdcWords
    <3>2. DsaOK'
      BY <2>6 DEF SpiWrite, SpiRead, TInv, DsaOK, atten, Dsa!TypeOK
    <3> QED
      BY <2>2, <2>6, <3>1, <3>2 DEF SpiWrite, SpiRead, InSpi, TInv, RestOK, atten, delays
  <2> QED
    BY <1>4, <2>3, <2>4, <2>5, <2>6 DEF Execute
<1>5. CASE DsaStep
  <2>1. DsaOK'
    BY <1>5, DsaTypes DEF DsaStep, TInv
  <2>2. dsaDev' \in 0 .. DsaWords - 1
    BY <1>5 DEF DsaStep, Dsa!End, TInv, RestOK, DsaOK, Dsa!TypeOK
  <2> QED
    BY <1>5, <2>1, <2>2 DEF DsaStep, TInv, HandlersOK, RestOK, handlers, delays, spi, Adc!TypeOK
<1>6. CASE AdcBegin \/ AdcEnd \/ AdcRelease
  <2>1. Adc!TypeOK'
    BY <1>6, AdcTypes DEF AdcBegin, AdcEnd, AdcRelease, TInv, RestOK
  <2>2. adcDev' \in Clients \cup {0} /\ rdata' \in Clients \cup {0, Any}
    BY <1>6 DEF AdcBegin, AdcEnd, AdcRelease, TInv, RestOK, Adc!TypeOK, AdcWords
  <2>3. wait' \subseteq Slots
    BY <1>6 DEF AdcBegin, AdcEnd, AdcRelease, TInv, RestOK
  <2>4. HandlersOK' /\ DsaOK'
    BY <1>6 DEF AdcBegin, AdcEnd, AdcRelease, TInv, HandlersOK, DsaOK, handlers, atten, Dsa!TypeOK
  <2> QED
    BY <1>6, <2>1, <2>2, <2>3, <2>4 DEF AdcBegin, AdcEnd, AdcRelease, TInv, RestOK, atten, delays
<1>7. CASE UNCHANGED vars
  BY <1>7 DEF vars, handlers, atten, delays, spi, TInv, HandlersOK, RestOK, DsaOK,
              Dsa!TypeOK, Adc!TypeOK
<1> QED
  BY <1>1, <1>2, <1>3, <1>4, <1>5, <1>6, <1>7 DEF Next, Handler, Masters

---------------------------------------------------------------------------
(* Each part of the invariant, over the steps that touch it *)

\* A word in a buffer stays until the connection ends, which clears it.
LEMMA NextOwned ==
  ASSUME TInv, Owned, [Next]_vars
  PROVE  Owned'
<1>1. ASSUME NEW s \in Slots, \/ \E c \in Clients : Connect(s, c)
                              \/ Disconnect(s)
      PROVE  Owned'
  BY <1>1 DEF Connect, Disconnect, Owned, Cleared, TInv, HandlersOK, Buffers
<1>2. ASSUME NEW s \in Slots, Receive(s)
      PROVE  Owned'
  <2>1. PICK words \in 0 .. 2, cmd \in Sent :
          rx' = [rx EXCEPT ![s] =
                   [addr |-> IF words > 0 THEN cmd ELSE rx[s].addr,
                    addrFrom |-> IF words > 0 THEN conn[s] ELSE rx[s].addrFrom,
                    data |-> IF words > 1 THEN conn[s] ELSE rx[s].data]]
    BY <1>2 DEF Receive
  <2>2. rx'[s].addrFrom \in {conn[s], rx[s].addrFrom} /\ rx'[s].data \in {conn[s], rx[s].data}
    BY <2>1 DEF TInv, HandlersOK
  <2>3. \A t \in Slots \ {s} : rx'[t] = rx[t]
    BY <2>1 DEF TInv, HandlersOK
  <2>4. conn' = conn
    BY <1>2 DEF Receive
  <2> QED
    BY <2>2, <2>3, <2>4 DEF Owned
<1>3. ASSUME NEW s \in Slots, Execute(s)
      PROVE  Owned'
  <2>1. conn' = conn /\ rx' = rx
    BY <1>3 DEF Execute, Ignore, SetPlain, SetAtten, IdlyValue, IdlyOn, IdlyOff,
                SpiWrite, SpiRead, SpiCheck, Goto
  <2> QED
    BY <2>1 DEF Owned
<1>4. CASE Masters \/ UNCHANGED vars
  BY <1>4 DEF Masters, DsaStep, AdcBegin, AdcEnd, AdcRelease, vars, handlers, Owned
<1> QED
  BY <1>1, <1>2, <1>3, <1>4 DEF Next, Handler

\* No other action goes to or from the two places of a strobe.
LEMMA NextDelay ==
  ASSUME TInv, DelayInv, [Next]_vars
  PROVE  DelayInv'
<1>0. at \in [Slots -> {"off", "recv", "exec", "idlyOn", "idlyOff",
                       "read0", "check0", "read1", "check1"}]
  BY DEF TInv, HandlersOK
<1>1. ASSUME NEW s \in Slots, IdlyValue(s)
      PROVE  DelayInv'
  BY <1>0, <1>1 DEF IdlyValue, Goto, DelayInv
<1>2. ASSUME NEW s \in Slots, IdlyOn(s)
      PROVE  DelayInv'
  BY <1>0, <1>2 DEF IdlyOn, Goto, DelayInv
<1>3. ASSUME NEW s \in Slots, IdlyOff(s)
      PROVE  DelayInv'
  BY <1>0, <1>3 DEF IdlyOff, Goto, DelayInv
<1>4. ASSUME NEW s \in Slots, NEW l \in {"off", "recv", "exec", "read0", "check0", "read1", "check1"},
             at[s] \notin {"idlyOn", "idlyOff"}, at' = [at EXCEPT ![s] = l], UNCHANGED delays
      PROVE  DelayInv'
  BY <1>0, <1>4 DEF DelayInv, delays
<1>5. ASSUME NEW s \in Slots,
             \/ \E c \in Clients : Connect(s, c)
             \/ Disconnect(s) \/ Receive(s)
      PROVE  DelayInv'
  <2>1. CASE \E c \in Clients : Connect(s, c)
    <3>1. at[s] = "off"
      BY <2>1 DEF Connect, TInv, HandlersOK
    <3> QED
      BY <2>1, <3>1, <1>4 DEF Connect
  <2> QED
    BY <1>5, <2>1, <1>4 DEF Disconnect, Receive
<1>6. ASSUME NEW s \in Slots,
             \/ Ignore(s) \/ SetPlain(s) \/ SetAtten(s)
             \/ SpiWrite(s) \/ SpiRead(s) \/ SpiCheck(s)
      PROVE  DelayInv'
  <2>1. CASE Ignore(s) \/ SetPlain(s) \/ SetAtten(s)
    BY <2>1, <1>4 DEF Ignore, SetPlain, SetAtten, Goto
  <2>2. CASE SpiWrite(s) \/ SpiRead(s) \/ SpiCheck(s)
    BY <2>2, <1>4 DEF SpiWrite, SpiRead, SpiCheck, Goto
  <2> QED
    BY <1>6, <2>1, <2>2
<1>7. CASE Masters \/ UNCHANGED vars
  <2>1. at' = at /\ wval' = wval /\ str' = str /\ taps' = taps
    BY <1>7 DEF Masters, DsaStep, AdcBegin, AdcEnd, AdcRelease, vars, handlers, delays
  <2> QED
    BY <2>1 DEF DelayInv
<1> QED
  BY <1>1, <1>2, <1>3, <1>5, <1>6, <1>7 DEF Next, Handler, Execute

LEMMA NextAtten ==
  ASSUME TInv, AttenInv, [Next]_vars
  PROVE  AttenInv'
<1>0. Dsa!TypeOK
  BY DEF TInv, DsaOK
<1>1. ASSUME NEW s \in Slots, SetAtten(s)
      PROVE  AttenInv'
  <2>0. /\ dsaDev' = dsaDev /\ lost' = Dsa!Clearing
        /\ Dsa!Clearing <=> dsa.state # "idle"
    BY <1>1 DEF SetAtten, Dsa!Clearing
  <2>1. CASE dsa.state # "idle"
    BY <1>1, <2>0, <2>1 DEF SetAtten, AttenInv, Dsa!Strobe
  <2>2. CASE dsa.state = "idle"
    <3>1. dsa' = [state |-> dsa.state, latch |-> TRUE, data |-> dsaReg', treg |-> dsa.treg]
      BY <1>0, <1>1, <2>0, <2>2 DEF SetAtten, Dsa!Strobe, Dsa!TypeOK
    <3> QED
      BY <3>1, <2>0, <2>2 DEF AttenInv
  <2> QED
    BY <2>1, <2>2
<1>2. CASE DsaStep
  <2>1. CASE Dsa!Begin /\ UNCHANGED dsaDev
    <3>1. dsa' = [state |-> "shift", latch |-> FALSE, data |-> dsa.data, treg |-> dsa.data]
      BY <1>0, <2>1 DEF Dsa!Begin, Dsa!TypeOK
    <3> QED
      BY <1>2, <2>1, <3>1 DEF DsaStep, Dsa!Begin, AttenInv
  <2>2. CASE Dsa!End /\ dsaDev' = dsa.treg
    <3>1. dsa' = [state |-> "done", latch |-> FALSE, data |-> dsa.data, treg |-> dsa.treg]
      BY <1>0, <2>2 DEF Dsa!End, Dsa!TypeOK
    <3> QED
      BY <1>2, <2>2, <3>1 DEF DsaStep, Dsa!End, AttenInv
  <2>3. CASE Dsa!Release /\ UNCHANGED dsaDev
    <3>1. dsa' = [state |-> "idle", latch |-> dsa.latch, data |-> dsa.data, treg |-> dsa.treg]
      BY <1>0, <2>3 DEF Dsa!Release, Dsa!TypeOK
    <3> QED
      BY <1>2, <2>3, <3>1 DEF DsaStep, Dsa!Release, AttenInv
  <2> QED
    BY <1>2, <2>1, <2>2, <2>3 DEF DsaStep
<1>3. CASE UNCHANGED atten
  BY <1>3 DEF atten, AttenInv
<1>4. ASSUME NEW s \in Slots, Handler(s), ~SetAtten(s)
      PROVE  UNCHANGED atten
  <2>1. ASSUME Execute(s)
        PROVE  UNCHANGED atten
    BY <1>4, <2>1 DEF Execute, Ignore, SetPlain, IdlyValue, IdlyOn, IdlyOff,
                      SpiWrite, SpiRead, SpiCheck
  <2> QED
    BY <1>4, <2>1 DEF Handler, Connect, Disconnect, Receive
<1>5. CASE AdcBegin \/ AdcEnd \/ AdcRelease \/ UNCHANGED vars
  BY <1>5, <1>3 DEF AdcBegin, AdcEnd, AdcRelease, vars
<1> QED
  BY <1>1, <1>2, <1>3, <1>4, <1>5 DEF Next, Masters
---------------------------------------------------------------------------
(* The converters' port.  First what a handler's step does to InSpi and    *)
(* what the master's steps do to its record.                               *)

LEMMA InSpiChanges ==
  ASSUME TInv, NEW s \in Slots, NEW l, at' = [at EXCEPT ![s] = l]
  PROVE  /\ l \in {"read0", "check0", "read1", "check1"} => InSpi' = InSpi \cup {s}
         /\ l \notin {"read0", "check0", "read1", "check1"} => InSpi' = InSpi \ {s}
         /\ at'[s] = l /\ \A t \in Slots \ {s} : at'[t] = at[t]
BY DEF TInv, HandlersOK, InSpi

LEMMA AdcSteps ==
  ASSUME Adc!TypeOK
  PROVE  /\ \A w : Adc!Strobe(w) =>
              adc' = IF adc.state = "done" THEN adc
                     ELSE [state |-> adc.state, latch |-> TRUE, data |-> w, treg |-> adc.treg]
         /\ Adc!Begin => adc' = [state |-> "shift", latch |-> TRUE, data |-> adc.data,
                                treg |-> adc.data]
         /\ Adc!End => adc' = [state |-> "done", latch |-> FALSE,
                              data |-> [op |-> "none", val |-> 0], treg |-> adc.treg]
         /\ Adc!Release => adc' = [state |-> "idle", latch |-> adc.latch, data |-> adc.data,
                                  treg |-> adc.treg]
BY DEF Adc!TypeOK, Adc!Strobe, Adc!Clearing, Adc!Begin, Adc!End, Adc!Release

\* Every other step of a handler is outside the command and leaves the port.
LEMMA OtherSteps ==
  ASSUME TInv, [Next]_vars
  PROVE  \/ \E s \in Slots : SpiWrite(s) \/ SpiRead(s) \/ SpiCheck(s)
         \/ Masters \/ UNCHANGED vars
         \/ \E s \in Slots : /\ s \notin InSpi /\ UNCHANGED spi
                            /\ \E l \in {"off", "recv", "exec", "idlyOn", "idlyOff"} :
                                 at' = [at EXCEPT ![s] = l]
<1>1. ASSUME NEW s \in Slots, \/ \E c \in Clients : Connect(s, c)
                              \/ Disconnect(s) \/ Receive(s)
      PROVE  /\ s \notin InSpi /\ UNCHANGED spi
             /\ \E l \in {"off", "recv", "exec", "idlyOn", "idlyOff"} : at' = [at EXCEPT ![s] = l]
  <2>1. at[s] \in {"off", "recv"}
    BY <1>1 DEF Connect, Disconnect, Receive, TInv, HandlersOK
  <2>2. UNCHANGED spi
    BY <1>1 DEF Connect, Disconnect, Receive
  <2>3. \E l \in {"off", "recv", "exec"} : at' = [at EXCEPT ![s] = l]
    BY <1>1 DEF Connect, Disconnect, Receive
  <2> QED
    BY <2>1, <2>2, <2>3 DEF InSpi
<1>2. ASSUME NEW s \in Slots, \/ Ignore(s) \/ SetPlain(s) \/ SetAtten(s)
                              \/ IdlyValue(s) \/ IdlyOn(s) \/ IdlyOff(s)
      PROVE  /\ s \notin InSpi /\ UNCHANGED spi
             /\ \E l \in {"off", "recv", "exec", "idlyOn", "idlyOff"} : at' = [at EXCEPT ![s] = l]
  <2>1. at[s] \in {"exec", "idlyOn", "idlyOff"} /\ UNCHANGED spi
    BY <1>2 DEF Ignore, SetPlain, SetAtten, IdlyValue, IdlyOn, IdlyOff
  <2>2. \E l \in {"recv", "idlyOn", "idlyOff"} : at' = [at EXCEPT ![s] = l]
    BY <1>2 DEF Ignore, SetPlain, SetAtten, IdlyValue, IdlyOn, IdlyOff, Goto
  <2> QED
    BY <2>1, <2>2 DEF InSpi
<1> QED
  BY <1>1, <1>2 DEF Next, Handler, Execute

\* The handlers that wait are in the command, and the master is at rest
\* unless one waits.
LEMMA NextBusy ==
  ASSUME TInv, BusyInv, [Next]_vars
  PROVE  BusyInv'
<1>0. Adc!TypeOK
  BY DEF TInv, RestOK
<1>1. ASSUME NEW s \in Slots, SpiWrite(s)
      PROVE  BusyInv'
  <2>1. InSpi' = InSpi \cup {s} /\ at'[s] = "read0" /\ \A t \in Slots \ {s} : at'[t] = at[t]
    BY <1>1, InSpiChanges DEF SpiWrite, Goto
  <2>2. wait' = wait \cup {s} /\ shared' = IF InSpi = {} THEN {} ELSE shared \cup InSpi \cup {s}
    BY <1>1 DEF SpiWrite
  <2>3. \/ adc' = adc
        \/ adc'.state = adc.state /\ adc'.latch /\ adc.state # "done"
    BY <1>0, <1>1, AdcSteps DEF SpiWrite
  <2>4. \A t \in InSpi' \ shared' : InSpi' = {t}
    BY <2>1, <2>2
  <2>5. \A t \in wait' : at'[t] # "read1"
    BY <2>1, <2>2 DEF BusyInv, InSpi
  <2>6. /\ adc'.state = "done" => ~adc'.latch
        /\ adc'.state = "shift" => adc'.latch
    BY <2>3 DEF BusyInv
  <2> QED
    BY <2>1, <2>2, <2>4, <2>5, <2>6 DEF BusyInv
<1>2. ASSUME NEW s \in Slots, SpiRead(s)
      PROVE  BusyInv'
  <2>0. PICK l \in {"check0", "check1"} : at' = [at EXCEPT ![s] = l]
    BY <1>2 DEF SpiRead, Goto
  <2>1. s \in InSpi /\ at'[s] # "read1" /\ at'[s] \in {"check0", "check1"}
        /\ InSpi' = InSpi \cup {s} /\ \A t \in Slots \ {s} : at'[t] = at[t]
    <3>1. s \in InSpi
      BY <1>2 DEF SpiRead, InSpi
    <3> QED
      BY <2>0, <3>1, InSpiChanges
  <2>2. wait' = wait \cup {s} /\ shared' = shared /\ InSpi' = InSpi
    BY <1>2, <2>1 DEF SpiRead
  <2>3. \/ adc' = adc
        \/ adc'.state = adc.state /\ adc'.latch /\ adc.state # "done"
    BY <1>0, <1>2, AdcSteps DEF SpiRead
  <2>5. \A t \in wait' : at'[t] # "read1"
    BY <2>1, <2>2 DEF BusyInv, InSpi
  <2>6. /\ adc'.state = "done" => ~adc'.latch
        /\ adc'.state = "shift" => adc'.latch
    BY <2>3 DEF BusyInv
  <2> QED
    BY <2>1, <2>2, <2>5, <2>6 DEF BusyInv
<1>3. ASSUME NEW s \in Slots, SpiCheck(s)
      PROVE  BusyInv'
  <2>1. s \in InSpi /\ s \notin wait /\ UNCHANGED spi
        /\ \A t \in Slots \ {s} : at'[t] = at[t]
    BY <1>3, InSpiChanges DEF SpiCheck, Goto, InSpi
  <2>2. InSpi' = InSpi \/ InSpi' = InSpi \ {s}
    <3>1. PICK l \in {"read1", "recv"} : at' = [at EXCEPT ![s] = l]
      BY <1>3 DEF SpiCheck, Goto
    <3>2. InSpi' = InSpi \cup {s} \/ InSpi' = InSpi \ {s}
      BY <3>1, InSpiChanges
    <3> QED
      BY <2>1, <3>2
  <2>3. \A t \in wait' : at'[t] # "read1"
    BY <2>1 DEF BusyInv, InSpi, spi
  <2> QED
    BY <2>1, <2>2, <2>3 DEF BusyInv, spi
<1>4. ASSUME NEW s \in Slots, NEW l \in {"off", "recv", "exec", "idlyOn", "idlyOff"},
             s \notin InSpi, at' = [at EXCEPT ![s] = l], UNCHANGED spi
      PROVE  BusyInv'
  <2>1. InSpi' = InSpi \ {s} /\ \A t \in Slots \ {s} : at'[t] = at[t]
    BY <1>4, InSpiChanges
  <2>2. InSpi' = InSpi
    BY <1>4, <2>1
  <2> QED
    BY <1>4, <2>1, <2>2 DEF BusyInv, spi
<1>5. CASE AdcBegin
  <2>1. adc'.state = "shift" /\ adc'.latch /\ at' = at /\ wait' = wait /\ shared' = shared
        /\ adc.latch
    BY <1>0, <1>5, AdcSteps DEF AdcBegin, handlers, Adc!Begin
  <2> QED
    BY <2>1 DEF BusyInv, InSpi
<1>6. CASE AdcEnd
  <2>1. adc'.state = "done" /\ ~adc'.latch /\ at' = at /\ wait' = wait /\ shared' = shared
        /\ adc.state = "shift"
    BY <1>0, <1>6, AdcSteps DEF AdcEnd, handlers, Adc!End
  <2> QED
    BY <2>1 DEF BusyInv, InSpi
<1>7. CASE AdcRelease
  <2>1. adc'.state = "idle" /\ adc'.latch = adc.latch /\ at' = at /\ wait' = {} /\ shared' = shared
        /\ adc.state = "done"
    BY <1>0, <1>7, AdcSteps DEF AdcRelease, handlers, Adc!Release
  <2> QED
    BY <2>1 DEF BusyInv, InSpi
<1>8. CASE DsaStep \/ UNCHANGED vars
  <2>1. at' = at /\ UNCHANGED spi
    BY <1>8 DEF DsaStep, vars, handlers
  <2> QED
    BY <2>1 DEF BusyInv, InSpi, spi
<1> QED
  BY <1>1, <1>2, <1>3, <1>4, <1>5, <1>6, <1>7, <1>8, OtherSteps DEF Masters
\* What a handler writes to the converters does not change under it.
LEMMA WordKept ==
  ASSUME TInv, [Next]_vars
  PROVE  \A s \in InSpi : rx'[s] = rx[s]
<1> SUFFICES ASSUME NEW s \in Slots, at[s] \in {"read0", "check0", "read1", "check1"}
             PROVE  rx'[s] = rx[s]
  BY DEF InSpi
<1>1. ASSUME NEW t \in Slots, \/ \E c \in Clients : Connect(t, c)
                              \/ Disconnect(t) \/ Receive(t)
      PROVE  rx'[s] = rx[s]
  <2>1. t # s
    BY <1>1 DEF Connect, Disconnect, Receive, TInv, HandlersOK
  <2>2. \E v : rx' = [rx EXCEPT ![t] = v]
    BY <1>1 DEF Connect, Disconnect, Receive
  <2> QED
    BY <2>1, <2>2 DEF TInv, HandlersOK
<1>2. ASSUME NEW t \in Slots, Execute(t)
      PROVE  rx'[s] = rx[s]
  BY <1>2 DEF Execute, Ignore, SetPlain, SetAtten, IdlyValue, IdlyOn, IdlyOff,
              SpiWrite, SpiRead, SpiCheck, Goto
<1>3. CASE Masters \/ UNCHANGED vars
  BY <1>3 DEF Masters, DsaStep, AdcBegin, AdcEnd, AdcRelease, vars, handlers
<1> QED
  BY <1>1, <1>2, <1>3 DEF Next, Handler

\* A handler that is alone finds the master at rest when it writes, and its
\* word goes through the latch and the shift register to the converters.
LEMMA NextAlone ==
  ASSUME TInv, BusyInv, AloneInv, [Next]_vars
  PROVE  AloneInv'
<1> SUFFICES ASSUME NEW s \in InSpi' \ shared'
             PROVE  /\ at'[s] = "read0" /\ s \in wait' =>
                         Holds("write", rx[s].data)' \/ (adc'.state = "done" /\ adcDev' = rx'[s].data)
                    /\ at'[s] # "read0" \/ s \notin wait' => adcDev' = rx'[s].data
                    /\ at'[s] \in {"check0", "check1"} /\ s \in wait' =>
                         Holds("read", rx[s].data)' \/ (adc'.state = "done" /\ rdata' = rx'[s].data)
                    /\ at'[s] \in {"check0", "check1"} /\ s \notin wait' => rdata' = rx'[s].data
  BY DEF AloneInv
<1> DEFINE v == rx[s].data
<1>0. Adc!TypeOK
  BY DEF TInv, RestOK
<1>a. ASSUME s \in InSpi \ shared
      PROVE  /\ InSpi = {s} /\ wait \subseteq {s} /\ rx'[s] = rx[s]
             /\ s \notin wait => adc.state = "idle" /\ ~adc.latch
             /\ s \in wait => at[s] # "read1"
  <2>1. InSpi = {s} /\ wait \subseteq InSpi /\ (s \in wait => at[s] # "read1")
        /\ (adc.state # "idle" \/ adc.latch => wait # {})
    BY <1>a DEF BusyInv
  <2>2. rx'[s] = rx[s]
    BY <1>a, WordKept
  <2> QED
    BY <2>1, <2>2
<1>1. ASSUME NEW t \in Slots, SpiWrite(t)
      PROVE  /\ at'[s] = "read0" /\ s \in wait' /\ adc'.state = "idle" /\ adc'.latch
             /\ adc'.data = [op |-> "write", val |-> rx'[s].data]
  <2>1. InSpi' = InSpi \cup {t} /\ at'[t] = "read0"
    BY <1>1, InSpiChanges DEF SpiWrite, Goto
  <2>2. wait' = wait \cup {t} /\ shared' = (IF InSpi = {} THEN {} ELSE shared \cup InSpi \cup {t})
        /\ rx' = rx /\ Adc!Strobe([op |-> "write", val |-> rx[t].data])
    BY <1>1 DEF SpiWrite, Goto
  <2>3. InSpi = {} /\ s = t
    BY <2>1, <2>2
  <2>4. adc.state = "idle" /\ ~adc.latch
    BY <2>3 DEF BusyInv
  <2>5. adc' = [state |-> adc.state, latch |-> TRUE, data |-> [op |-> "write", val |-> rx[t].data],
                treg |-> adc.treg]
    BY <1>0, <2>2, <2>4, AdcSteps
  <2> QED
    BY <2>1, <2>2, <2>3, <2>4, <2>5
<1>2. ASSUME NEW t \in Slots, SpiRead(t)
      PROVE  /\ at'[s] \in {"check0", "check1"} /\ s \in wait' /\ adc'.state = "idle" /\ adc'.latch
             /\ adc'.data = [op |-> "read", val |-> rx'[s].data] /\ adcDev' = rx'[s].data
  <2>0. PICK l \in {"check0", "check1"} : at' = [at EXCEPT ![t] = l]
    BY <1>2 DEF SpiRead, Goto
  <2>1. t \in InSpi /\ InSpi' = InSpi \cup {t} /\ at'[t] = l
    <3>1. t \in InSpi
      BY <1>2 DEF SpiRead, InSpi
    <3> QED
      BY <2>0, <3>1, InSpiChanges
  <2>2. wait' = wait \cup {t} /\ shared' = shared /\ t \notin wait
        /\ adcDev' = adcDev /\ Adc!Strobe([op |-> "read", val |-> rx[t].data])
    BY <1>2 DEF SpiRead
  <2>3. s \in InSpi \ shared
    BY <2>1, <2>2
  <2>4. s = t
    BY <2>1, <2>3, <1>a
  <2>5. adc.state = "idle" /\ adcDev = rx[s].data /\ rx'[s] = rx[s]
    BY <2>2, <2>3, <2>4, <1>a DEF AloneInv
  <2>6. adc' = [state |-> adc.state, latch |-> TRUE, data |-> [op |-> "read", val |-> rx[t].data],
                treg |-> adc.treg]
    BY <1>0, <2>2, <2>5, AdcSteps
  <2> QED
    BY <2>0, <2>1, <2>2, <2>4, <2>5, <2>6
<1>3. ASSUME NEW t \in Slots, SpiCheck(t)
      PROVE  at'[s] = "read1" /\ adcDev' = rx'[s].data
  <2>0. PICK l \in {"read1", "recv"} : at' = [at EXCEPT ![t] = l]
    BY <1>3 DEF SpiCheck, Goto
  <2>1. t \in InSpi
    BY <1>3 DEF SpiCheck, InSpi
  <2>2. \/ InSpi' = InSpi \cup {t} /\ l = "read1"
        \/ InSpi' = InSpi \ {t}
    BY <2>0, InSpiChanges
  <2>3. shared' = shared /\ t \notin wait /\ adcDev' = adcDev
    BY <1>3 DEF SpiCheck, spi
  <2>4. s \in InSpi \ shared /\ s = t /\ l = "read1"
    <3>1. s \in InSpi \ shared
      BY <2>1, <2>2, <2>3
    <3> QED
      BY <3>1, <2>1, <2>2, <1>a
  <2>5. at'[s] = "read1"
    BY <2>0, <2>4, InSpiChanges
  <2> QED
    BY <2>3, <2>4, <2>5, <1>a DEF AloneInv
<1>4. ASSUME NEW t \in Slots, NEW l \in {"off", "recv", "exec", "idlyOn", "idlyOff"},
             t \notin InSpi, at' = [at EXCEPT ![t] = l], UNCHANGED spi
      PROVE  s \in InSpi \ shared /\ at'[s] = at[s]
  <2>1. InSpi' = InSpi \ {t} /\ \A u \in Slots \ {t} : at'[u] = at[u]
    BY <1>4, InSpiChanges
  <2>2. s \in InSpi \ shared /\ s # t
    BY <1>4, <2>1 DEF spi
  <2> QED
    BY <2>1, <2>2 DEF InSpi
<1>5. CASE AdcBegin
  <2>1. s \in InSpi \ shared /\ at' = at /\ wait' = wait /\ adcDev' = adcDev
    BY <1>5 DEF AdcBegin, handlers, InSpi
  <2>2. adc.state = "idle" /\ adc.latch /\ adc'.state = "shift" /\ adc'.treg = adc.data
    BY <1>0, <1>5, AdcSteps DEF AdcBegin, Adc!Begin
  <2>3. s \in wait /\ rx'[s] = rx[s]
    BY <2>1, <2>2, <1>a
  <2> QED
    BY <2>1, <2>2, <2>3 DEF AloneInv, Holds
<1>6. CASE AdcEnd
  <2>1. s \in InSpi \ shared /\ at' = at /\ wait' = wait
    BY <1>6 DEF AdcEnd, handlers, InSpi
  <2>2. adc.state = "shift" /\ adc'.state = "done"
    BY <1>0, <1>6, AdcSteps DEF AdcEnd, Adc!End
  <2>3. s \in wait /\ rx'[s] = rx[s] /\ at[s] # "read1"
    BY <2>1, <2>2, <1>a
  <2>4. CASE at[s] = "read0"
    <3>1. adc.treg = [op |-> "write", val |-> rx[s].data]
      BY <2>1, <2>2, <2>3, <2>4 DEF AloneInv, Holds
    <3>2. adcDev' = rx[s].data
      BY <1>6, <3>1 DEF AdcEnd
    <3> QED
      BY <2>1, <2>2, <2>3, <2>4, <3>2
  <2>5. CASE at[s] \in {"check0", "check1"}
    <3>1. adc.treg = [op |-> "read", val |-> rx[s].data] /\ adcDev = rx[s].data
      BY <2>1, <2>2, <2>3, <2>5 DEF AloneInv, Holds
    <3>2. adcDev' = adcDev /\ rdata' = adcDev
      BY <1>6, <3>1 DEF AdcEnd
    <3> QED
      BY <2>1, <2>2, <2>3, <2>5, <3>1, <3>2
  <2> QED
    BY <2>1, <2>3, <2>4, <2>5 DEF InSpi
<1>7. CASE AdcRelease
  <2>1. s \in InSpi \ shared /\ at' = at /\ wait' = {} /\ adcDev' = adcDev /\ rdata' = rdata
    BY <1>7 DEF AdcRelease, handlers, InSpi
  <2>2. adc.state = "done"
    BY <1>7 DEF AdcRelease, Adc!Release
  <2>3. s \in wait /\ rx'[s] = rx[s]
    BY <2>1, <2>2, <1>a
  <2> QED
    BY <2>1, <2>2, <2>3 DEF AloneInv, Holds
<1>8. CASE DsaStep \/ UNCHANGED vars
  BY <1>8, <1>a DEF DsaStep, vars, handlers, spi, AloneInv, Holds, InSpi
<1>9. ASSUME s \in InSpi \ shared, at'[s] = at[s], UNCHANGED spi
      PROVE  /\ at'[s] = "read0" /\ s \in wait' =>
                  Holds("write", rx[s].data)' \/ (adc'.state = "done" /\ adcDev' = rx'[s].data)
             /\ at'[s] # "read0" \/ s \notin wait' => adcDev' = rx'[s].data
             /\ at'[s] \in {"check0", "check1"} /\ s \in wait' =>
                  Holds("read", rx[s].data)' \/ (adc'.state = "done" /\ rdata' = rx'[s].data)
             /\ at'[s] \in {"check0", "check1"} /\ s \notin wait' => rdata' = rx'[s].data
  <2>1. rx'[s] = rx[s]
    BY <1>9, <1>a
  <2> QED
    BY <1>9, <2>1 DEF spi, AloneInv, Holds
<1> QED
  BY <1>1, <1>2, <1>3, <1>4, <1>5, <1>6, <1>7, <1>8, <1>9, OtherSteps DEF Masters, Holds

---------------------------------------------------------------------------
LEMMA InitCmdInv == Init => CmdInv
<1> SUFFICES ASSUME Init PROVE CmdInv
  OBVIOUS
<1>1. TInv
  BY InitTInv
<1>2. InSpi = {}
  BY DEF Init, InSpi
<1>3. Owned /\ DelayInv
  BY DEF Init, Owned, DelayInv, Cleared
<1>4. AttenInv
  BY DEF Init, AttenInv, Dsa!Ready
<1>5. BusyInv /\ AloneInv
  BY <1>2 DEF Init, BusyInv, AloneInv, Adc!Ready
<1> QED
  BY <1>1, <1>3, <1>4, <1>5 DEF CmdInv

LEMMA Invariant == Spec => []CmdInv
<1>1. CmdInv /\ [Next]_vars => CmdInv'
  BY NextTInv, NextOwned, NextDelay, NextAtten, NextBusy, NextAlone DEF CmdInv
<1> QED
  BY <1>1, InitCmdInv, PTL DEF Spec

\* Every variable has its type, for any number of slots and clients.
THEOREM TypeCorrect == Spec => []TypeOK
<1>1. CmdInv => TypeOK
  BY TypesOfTInv DEF CmdInv
<1> QED
  BY <1>1, Invariant, PTL

\* Whatever a handler executes was sent on its own connection or by nobody.
THEOREM OwnCommands == Spec => []OwnWords
<1>1. CmdInv => OwnWords
  BY DEF CmdInv, Owned, OwnWords
<1> QED
  BY <1>1, Invariant, PTL

\* The attenuator has the register's value, unless the last write was lost.
THEOREM Attenuation == Spec => []AttenFollows
<1>1. CmdInv => AttenFollows
  BY DEF CmdInv, AttenInv, AttenFollows
<1> QED
  BY <1>1, Invariant, PTL

\* However many handlers mix their strobes, the delays end up with the
\* register's value and the strobe ends up low.
THEOREM Delays == Spec => []DelaysFollow
<1>1. CmdInv => DelaysFollow
  BY DEF CmdInv, DelayInv, DelaysFollow
<1> QED
  BY <1>1, Invariant, PTL

\* A handler that has had the converters for itself reads back its word.
THEOREM ReadBack == Spec => []ReadsBack
<1>1. CmdInv => ReadsBack
  BY DEF CmdInv, AloneInv, ReadsBack, InSpi
<1> QED
  BY <1>1, Invariant, PTL
=============================================================================
