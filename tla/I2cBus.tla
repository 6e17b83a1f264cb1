------------------------------- MODULE I2cBus -------------------------------
(***************************************************************************)
(* The I2C bus of the board (i2c_devices.c): two port expanders, each of   *)
(* which connects at most one of its channels to the bus, and devices      *)
(* behind them that share addresses.  A function of the driver is a        *)
(* script, the sequence of its bus operations: nothing reserves the bus    *)
(* from the selection of a channel to the last transfer through it.        *)
(*                                                                         *)
(* A polled transfer waits for the bus to be free and is one operation,    *)
(* the bytes of a long read that pass through the controller's FIFO        *)
(* included; a device that does not answer is not noticed by most callers. *)
(* Transfers in a row with one device are one operation in the scripts of  *)
(* the main thread and of brdstats, which nothing that uses the bus can    *)
(* interrupt.                                                              *)
(***************************************************************************)
EXTENDS Naturals, Sequences

CONSTANT Fitted         \* the SFP slots, of 0 .. 5, that hold a module

ASSUME FittedAssumption == Fitted \subseteq 0 .. 5

VARIABLE mux            \* the channel each port expander connects, or Off

Off == 8

\* A device is known by its place: port expander, channel and address.
Dev(m, c, a) == [mux |-> m, chan |-> c, addr |-> a]

Dfe(i)     == Dev(1, 0, \h48 + i)
Afe(i)     == Dev(1, 6, \h48 + i)
Ina226     == Dev(1, 6, \h40)
Si569      == Dev(1, 6, \h56)
Ltc2991(i) == Dev(1, 2, \h48 + i)
Ltc2977    == Dev(1, 3, \h5C)
Lmk61e2    == Dev(1, 5, \h5A)
Eeprom     == Dev(0, 6, \h50)
Sfp(s)     == Dev(0, s, \h51)       \* diagnostics of the module in slot s,
SfpId(s)   == Dev(0, s, \h50)       \* and its own memory

Devices == {Dfe(i) : i \in 0 .. 3} \cup {Afe(0), Afe(2), Ina226, Si569}
             \cup {Ltc2991(i) : i \in 0 .. 2} \cup {Ltc2977, Lmk61e2, Eeprom}
             \cup {Sfp(s) : s \in Fitted} \cup {SfpId(s) : s \in Fitted}

\* The devices that answer to d's address as the port expanders stand.
Answers(d) == {e \in Devices : e.addr = d.addr /\ mux[e.mux] = e.chan}

---------------------------------------------------------------------------
(* Scripts *)

Select(m, c) == [op |-> "select", mux |-> m, chan |-> c]
\* n transfers in a row with one device.
Xfers(d, n)  == [op |-> "xfer", dev |-> d, n |-> n]
Xfer(d)      == Xfers(d, 1)
\* Write a register pointer, then read.
PtrRead(d)   == Xfers(d, 2)
\* Channel of the EEPROM on one expander, none on the other.
ToEeprom     == <<Select(0, 6), Select(1, Off)>>

\* Mutated form: through the channels as they stand.
EepromWriteAsLeft == <<Xfer(Eeprom)>>
EepromWrite  == ToEeprom \o <<Xfer(Eeprom)>>
EepromRead   == ToEeprom \o <<Xfer(Eeprom), Xfer(Eeprom)>>
GetMac       == EepromRead

ReadSi569    == Xfers(Si569, 9 * 2)
ProgSi569    == Xfers(Si569, 15)
WriteLmk     == <<Select(1, 5), Xfers(Lmk61e2, 34)>>

ConfigureLtc2991 ==
  LET chips == <<Xfer(Ltc2991(0)), Xfer(Ltc2991(1)), Xfer(Ltc2991(2))>>
  IN  <<Select(1, 2)>> \o chips \o chips \o chips
\* One reading per measurement, chip by chip as brdstats asks for them:
\* regulators, VIN, 3.3, 2.5, 1.8, 1.2 DDR, 0.85 and the three MGT supplies.
ReadLtc2991 ==
  LET n(i, k) == Xfers(Ltc2991(i), 2 * k)
  IN  <<n(0, 5), n(1, 2), n(2, 2), n(1, 6), n(2, 6)>>

SfpStats(s)  == <<Select(0, s), Select(1, Off), PtrRead(Sfp(s))>>
\* Mutated form: the channel of the last SFP slot stays connected.
Ltc2977StatsOne == <<Select(1, 3), PtrRead(Ltc2977)>>
Ltc2977Stats == <<Select(0, Off), Select(1, 3), PtrRead(Ltc2977)>>

\* brdstats_push, between its delay and psc_send.
Sweep ==
  <<Select(1, 0), Xfer(Dfe(0)), Xfer(Dfe(1)), Xfer(Dfe(2)), Xfer(Dfe(3))>>
    \o <<Select(1, 6), Xfer(Afe(0)), Xfer(Afe(2)), PtrRead(Ina226), PtrRead(Ina226)>>
    \o <<Select(1, 2)>> \o ConfigureLtc2991 \o ReadLtc2991
    \o SfpStats(0) \o SfpStats(1) \o SfpStats(2) \o SfpStats(3) \o SfpStats(4) \o SfpStats(5)
    \o <<Select(1, 3)>> \o Ltc2977Stats

\* main, up to the start of the scheduler.
Boot ==
  <<Select(1, 6), Xfer(Ina226), ReadSi569, ProgSi569, ReadSi569>> \o WriteLmk
    \o <<Select(1, 6), Xfer(Afe(0)), Xfer(Afe(2)), Select(1, Off)>>
    \o EepromRead

Script == [boot |-> Boot, sweep |-> Sweep, mac |-> GetMac,
           save |-> EepromWrite, dump |-> EepromRead]

\* Mutated form: the mask is taken for the channel.
PerformMask(o) == mux' = IF o.op = "select" THEN [mux EXCEPT ![o.mux] = 2 ^ o.chan] ELSE mux

\* One operation moves the port expander it addresses, or nothing.
Perform(o) == mux' = IF o.op = "select" THEN [mux EXCEPT ![o.mux] = o.chan] ELSE mux
=============================================================================
