------------------------------ MODULE Commands ------------------------------
(***************************************************************************)
(* The commands of the clients: client_msg (main.c) and reg_settings       *)
(* (control.c) in the handler thread of each connection, the registers     *)
(* they write and the SPI masters behind two of them.  The handlers have   *)
(* one priority and share the processor by time slices: each access to a   *)
(* register is one step.                                                   *)
(*                                                                         *)
(* A client is known by the value it writes, so that every word tells who  *)
(* sent it; 0 is the word nobody sent.  Trigger and DMA commands are in    *)
(* TrigLogic and DmaAcq; the MMCM strobes end in a register nothing reads. *)
(***************************************************************************)
EXTENDS Naturals, FiniteSets

CONSTANTS
  Slots,                \* of the PSC server, 1 .. n
  Clients,              \* the clients, and what each of them writes
  Sent,                 \* the commands they send
  DsaWords,             \* the attenuator's register is modulo DsaWords (256)
  MaxMsgs,              \* bound: messages in all
  Any                   \* what ADC_SPI_REG shows when no converter drives the line

ASSUME CommandsAssumption ==
  /\ Slots \subseteq Nat \ {0} /\ Clients \subseteq Nat \ {0}
  /\ MaxMsgs \in Nat /\ DsaWords \in Nat \ {0} /\ Any \notin Nat

VARIABLES
  conn,                 \* per slot, the client connected, or 0
  rx,                   \* C->rxbuf: its first two words, and who sent them
  at,                   \* where the handler is
  wait,                 \* handlers in usleep(1000) with a transfer to wait for
  regs,                 \* registers a command only writes
  dsaReg, dsa, dsaDev,  \* RF_DSA_REG, its SPI master, the attenuator
  wval, str, taps,      \* ADC_IDLYWVAL_REG, ADC_IDLYSTR_REG, the input delays
  adc, adcDev, rdata,   \* the converters' SPI master, their register, ADC_SPI_REG
  lost,                 \* history: the last write of RF_DSA_REG was not taken over,
  shared,               \* handlers whose ADC_SPI command overlaps with another's,
  msgs                  \* messages so far

handlers == <<conn, rx, at>>
atten    == <<dsaReg, dsa, dsaDev, lost>>
delays   == <<wval, str, taps>>
spi      == <<adc, adcDev, rdata, wait, shared>>
vars     == <<handlers, regs, atten, delays, spi, msgs>>

Dsa == INSTANCE SpiMaster WITH ClearsAtStart <- TRUE, m <- dsa,
                               Words <- 0 .. DsaWords - 1, NoWord <- DsaWords
AdcWords == [op : {"write", "read"}, val : Clients \cup {0}]
Adc == INSTANCE SpiMaster WITH ClearsAtStart <- FALSE, m <- adc,
                               Words <- AdcWords, NoWord <- [op |-> "none", val |-> 0]

\* One write of one register each.
Plain == {"KX_MSG", "KY_MSG", "BBA_XOFF_MSG", "BBA_YOFF_MSG", "CHA_GAIN_MSG",
          "CHB_GAIN_MSG", "CHC_GAIN_MSG", "CHD_GAIN_MSG", "DMA_TRIG_DLY_MSG",
          "TRIGTOBEAM_THRESH_MSG", "DDC_LPFILT_SEL_MSG", "EVENT_NO_MSG",
          "EVENT_SRC_SEL_MSG", "RFFESW_ENB_MSG", "RFFESW_TRIGDLY_MSG",
          "RFFESW_DEMUXDLY_MSG", "RFFESW_ADCDMASEL_MSG"}
\* The zero word is the address of SOFT_TRIG_MSG; a zero does not trigger.
Ignored == {"SOFT_TRIG_MSG", "FP_LED_MSG", "not supported"}

Cleared == [addr |-> "SOFT_TRIG_MSG", addrFrom |-> 0, data |-> 0]

---------------------------------------------------------------------------
(* Connections (listener.c; the whole of it is in PscServer) *)

\* psc_client_alloc: the first free slot, all of it set to zero.
Connect(s, c) ==
  /\ conn[s] = 0 /\ \A t \in Slots : t < s => conn[t] # 0
  /\ \A t \in Slots : conn[t] # c
  /\ conn' = [conn EXCEPT ![s] = c] /\ at' = [at EXCEPT ![s] = "recv"]
  /\ rx' = [rx EXCEPT ![s] = Cleared]
  /\ UNCHANGED <<regs, atten, delays, spi, msgs>>

\* psc_client_free: the slot is zeroed again.
Disconnect(s) ==
  /\ at[s] = "recv"
  /\ conn' = [conn EXCEPT ![s] = 0] /\ at' = [at EXCEPT ![s] = "off"]
  /\ rx' = [rx EXCEPT ![s] = Cleared]
  /\ UNCHANGED <<regs, atten, delays, spi, msgs>>

\* Mutated form: one buffer for all clients.
ReceiveShared(s) ==
  /\ at[s] = "recv" /\ msgs < MaxMsgs /\ msgs' = msgs + 1
  /\ \E words \in 0 .. 2, cmd \in Sent :
       rx' = [t \in Slots |->
                [addr |-> IF words > 0 THEN cmd ELSE rx[s].addr,
                 addrFrom |-> IF words > 0 THEN conn[s] ELSE rx[s].addrFrom,
                 data |-> IF words > 1 THEN conn[s] ELSE rx[s].data]]
  /\ \E l \in {"exec", "recv"} : at' = [at EXCEPT ![s] = l]
  /\ UNCHANGED <<conn, regs, atten, delays, spi>>

\* psc_recvmsg, client_msg: a body of no, one or two words and more goes over
\* what the buffer holds; message 1 is executed whatever its length, message 5
\* and every other is not.
Receive(s) ==
  /\ at[s] = "recv" /\ msgs < MaxMsgs /\ msgs' = msgs + 1
  /\ \E words \in 0 .. 2, cmd \in Sent :
       rx' = [rx EXCEPT ![s] =
                [addr |-> IF words > 0 THEN cmd ELSE @.addr,
                 addrFrom |-> IF words > 0 THEN conn[s] ELSE @.addrFrom,
                 data |-> IF words > 1 THEN conn[s] ELSE @.data]]
  /\ \E l \in {"exec", "recv"} : at' = [at EXCEPT ![s] = l]
  /\ UNCHANGED <<conn, regs, atten, delays, spi>>

---------------------------------------------------------------------------
(* reg_settings *)

Goto(s, l) == at' = [at EXCEPT ![s] = l] /\ UNCHANGED <<conn, rx, msgs>>

Ignore(s) ==
  /\ at[s] = "exec" /\ rx[s].addr \in Ignored /\ Goto(s, "recv")
  /\ UNCHANGED <<regs, atten, delays, spi>>

SetPlain(s) ==
  /\ at[s] = "exec" /\ rx[s].addr \in Plain /\ Goto(s, "recv")
  /\ regs' = [regs EXCEPT ![rx[s].addr] =
                IF rx[s].addr = "DMA_TRIG_DLY_MSG" THEN rx[s].data + 1 ELSE rx[s].data]
  /\ UNCHANGED <<atten, delays, spi>>

\* Mutated form: the register keeps all of the value.
SetAttenWide(s) ==
  /\ at[s] = "exec" /\ rx[s].addr = "RF_ATTEN_MSG" /\ Goto(s, "recv")
  /\ dsaReg' = 4 * rx[s].data /\ Dsa!Strobe(dsaReg')
  /\ lost' = Dsa!Clearing
  /\ UNCHANGED <<regs, dsaDev, delays, spi>>

\* The attenuator counts in quarters of a dB; the register has eight bits.
SetAtten(s) ==
  /\ at[s] = "exec" /\ rx[s].addr = "RF_ATTEN_MSG" /\ Goto(s, "recv")
  /\ dsaReg' = (4 * rx[s].data) % DsaWords /\ Dsa!Strobe(dsaReg')
  /\ lost' = Dsa!Clearing
  /\ UNCHANGED <<regs, dsaDev, delays, spi>>

\* ADC_IDLY_MSG: value, strobe on, strobe off.  The delays load while the
\* strobe is high.
IdlyValue(s) ==
  /\ at[s] = "exec" /\ rx[s].addr = "ADC_IDLY_MSG" /\ Goto(s, "idlyOn")
  /\ wval' = rx[s].data /\ taps' = IF str THEN wval' ELSE taps
  /\ UNCHANGED <<regs, atten, str, spi>>

\* Mutated form: a strobe loads the value of its own handler.
IdlyOnOwn(s) ==
  /\ at[s] = "idlyOn" /\ Goto(s, "idlyOff")
  /\ str' = TRUE /\ taps' = rx[s].data
  /\ UNCHANGED <<regs, atten, wval, spi>>

IdlyOn(s) ==
  /\ at[s] = "idlyOn" /\ Goto(s, "idlyOff")
  /\ str' = TRUE /\ taps' = wval
  /\ UNCHANGED <<regs, atten, wval, spi>>

IdlyOff(s) ==
  /\ at[s] = "idlyOff" /\ Goto(s, "recv")
  /\ str' = FALSE
  /\ UNCHANGED <<regs, atten, wval, taps, spi>>

\* ADC_SPI_MSG: write, then read back from one converter and the other, with
\* usleep(1000), a hundred times a transfer, after each write.
InSpi == {s \in Slots : at[s] \in {"read0", "check0", "read1", "check1"}}

SpiWrite(s) ==
  /\ at[s] = "exec" /\ rx[s].addr = "ADC_SPI_MSG" /\ Goto(s, "read0")
  /\ Adc!Strobe([op |-> "write", val |-> rx[s].data])
  /\ wait' = wait \cup {s}
  /\ shared' = IF InSpi = {} THEN {} ELSE shared \cup InSpi \cup {s}
  /\ UNCHANGED <<regs, atten, delays, adcDev, rdata>>

\* Mutated form: the write is not waited for.
SpiReadAtOnce(s) ==
  /\ at[s] \in {"read0", "read1"}
  /\ Goto(s, IF at[s] = "read0" THEN "check0" ELSE "check1")
  /\ Adc!Strobe([op |-> "read", val |-> rx[s].data])
  /\ wait' = wait \cup {s}
  /\ UNCHANGED <<regs, atten, delays, adcDev, rdata, shared>>

SpiRead(s) ==
  /\ at[s] \in {"read0", "read1"} /\ s \notin wait
  /\ Goto(s, IF at[s] = "read0" THEN "check0" ELSE "check1")
  /\ Adc!Strobe([op |-> "read", val |-> rx[s].data])
  /\ wait' = wait \cup {s}
  /\ UNCHANGED <<regs, atten, delays, adcDev, rdata, shared>>

\* What is read is only printed.
SpiCheck(s) ==
  /\ at[s] \in {"check0", "check1"} /\ s \notin wait
  /\ Goto(s, IF at[s] = "check0" THEN "read1" ELSE "recv")
  /\ UNCHANGED <<regs, atten, delays, spi>>

Execute(s) == \/ Ignore(s) \/ SetPlain(s) \/ SetAtten(s)
              \/ IdlyValue(s) \/ IdlyOn(s) \/ IdlyOff(s)
              \/ SpiWrite(s) \/ SpiRead(s) \/ SpiCheck(s)

---------------------------------------------------------------------------
(* The masters, and the devices at the end of a transfer *)

DsaStep ==
  /\ \/ Dsa!Begin /\ UNCHANGED dsaDev
     \/ Dsa!End /\ dsaDev' = dsa.treg
     \/ Dsa!Release /\ UNCHANGED dsaDev
  /\ UNCHANGED <<handlers, regs, dsaReg, lost, delays, spi, msgs>>

\* Both converters take every word, and both drive their line in a read; the
\* bits come into ADC_SPI_REG one by one.
AdcBegin ==
  /\ Adc!Begin /\ rdata' = Any
  /\ UNCHANGED <<handlers, regs, atten, delays, adcDev, wait, shared, msgs>>

AdcEnd ==
  /\ Adc!End
  /\ IF adc.treg.op = "write" THEN adcDev' = adc.treg.val /\ UNCHANGED rdata
                              ELSE rdata' = adcDev /\ UNCHANGED adcDev
  /\ UNCHANGED <<handlers, regs, atten, delays, wait, shared, msgs>>

\* By the end of its usleep a handler has seen the master idle.
AdcRelease ==
  /\ Adc!Release /\ wait' = {}
  /\ UNCHANGED <<handlers, regs, atten, delays, adcDev, rdata, shared, msgs>>

Masters == DsaStep \/ AdcBegin \/ AdcEnd \/ AdcRelease

---------------------------------------------------------------------------
\* 0 stands for what the reset and main have left in a register.
Init ==
  /\ conn = [s \in Slots |-> 0] /\ rx = [s \in Slots |-> Cleared]
  /\ at = [s \in Slots |-> "off"] /\ wait = {}
  /\ regs = [r \in Sent \cap Plain |-> 0]
  /\ dsaReg = 0 /\ dsa = Dsa!Ready /\ dsaDev = 0
  /\ wval = 0 /\ str = FALSE /\ taps = 0
  /\ adc = Adc!Ready /\ adcDev = 0 /\ rdata = Any
  /\ lost = FALSE /\ shared = {} /\ msgs = 0

Handler(s) ==
  \/ \E c \in Clients : Connect(s, c)
  \/ Disconnect(s) \/ Receive(s) \/ Execute(s)

Next == (\E s \in Slots : Handler(s)) \/ Masters

\* The clocks of the masters run.
Spec == Init /\ [][Next]_vars /\ WF_vars(DsaStep) /\ WF_vars(AdcBegin \/ AdcEnd \/ AdcRelease)

---------------------------------------------------------------------------
TypeOK ==
  /\ conn \in [Slots -> Clients \cup {0}] /\ msgs \in 0 .. MaxMsgs
  /\ at \in [Slots -> {"off", "recv", "exec", "idlyOn", "idlyOff",
                       "read0", "check0", "read1", "check1"}]
  /\ wait \subseteq Slots /\ shared \subseteq Slots
  /\ Dsa!TypeOK /\ Adc!TypeOK
  /\ dsaReg \in 0 .. DsaWords - 1 /\ dsaDev \in 0 .. DsaWords - 1
  /\ wval \in Clients \cup {0} /\ taps \in Clients \cup {0} /\ str \in BOOLEAN
  /\ adcDev \in Clients \cup {0} /\ rdata \in Clients \cup {0, Any} /\ lost \in BOOLEAN

\* A message shorter than two words is completed from the buffer.  What the
\* handler then executes may be old, but never another client's: not of the
\* connection that had the slot before.
OwnWords ==
  \A s \in Slots : at[s] \notin {"off", "recv"} =>
    rx[s].addrFrom \in {0, conn[s]} /\ rx[s].data \in {0, conn[s]}

\* The attenuator ends up with the register's value, but for a write that fell
\* into a transfer: that one is lost for good.
AttenFollows == dsa.state = "idle" /\ ~dsa.latch /\ ~lost => dsaDev = dsaReg

\* When no handler is in the middle of ADC_IDLY_MSG the delays have the
\* register's value, and the strobe is low, however two of them have mixed.
DelaysFollow ==
  (\A s \in Slots : at[s] \notin {"idlyOn", "idlyOff"}) => taps = wval /\ ~str

\* A handler that has had the converters for itself reads back what it wrote.
ReadsBack ==
  \A s \in Slots : at[s] \in {"check0", "check1"} /\ s \notin wait \cup shared
                     => rdata = rx[s].data /\ adcDev = rx[s].data

\* Each transfer ends and each word that is latched is taken over.
SpiReturns == /\ dsa.state # "idle" \/ dsa.latch ~> dsa.state = "idle" /\ ~dsa.latch
              /\ adc.state # "idle" \/ adc.latch ~> adc.state = "idle" /\ ~adc.latch
=============================================================================
