---------------------------- MODULE BoardProofs -----------------------------
(***************************************************************************)
(* Proofs about Board for any settings, any modules fitted and any length  *)
(* of NET.CNF: what a start restores, what it leaves on the card, where    *)
(* the bytes of an interrupted command of the console can go, that the     *)
(* start and the board statistics reach the devices they mean, what the    *)
(* lines of NET.CNF mean together, and the types.                          *)
(***************************************************************************)
EXTENDS Board, SequenceTheorems, TLAPS

---------------------------------------------------------------------------
(* The inductive invariant *)

\* Who executes which script, and when.
ProgInv ==
  /\ prog \in [Threads -> {"boot", "sweep", "mac", "save", "dump", "none"}]
  /\ pc \in [Threads -> Nat \ {0}]
  /\ prog["main"] \in {"boot", "mac", "none"}
  /\ prog["main"] = "boot" <=> stage = "boot"
  /\ prog["main"] = "mac" => stage = "mac"
  /\ prog["brdstats"] \in {"sweep", "none"}
  /\ prog["brdstats"] = "sweep" => stage = "ready" /\ swept
  /\ prog["console"] = (IF menu \in {"save", "dump"} THEN menu ELSE "none")
  /\ menu # "off" <=> stage = "ready"
  /\ menu \in {"off", "menu", "kx", "ky", "setx", "sety", "save", "dump", "reboot"}

\* Where the scripts leave the first port expander.
MuxInv ==
  /\ mux = [m \in 0 .. 1 |-> mux[m]]
  /\ prog["main"] = "boot" /\ pc["main"] > 12 => mux[0] = 6
  /\ prog["brdstats"] = "sweep" /\ pc["brdstats"] > Len(Sweep) - 2 => mux[0] = Off
  /\ menu \in {"save", "dump"} /\ MayRun /\ pc["console"] > 1 =>
       mux[0] = 6 \/ (mux[0] = Off /\ swept)

\* The EEPROM writes only what was set in this start, and is done before the
\* next command.
CycleInv ==
  /\ cycle # <<>> => menu \in {"menu", "save"} /\ ~fresh
  /\ menu \in {"sety", "save"} => ~fresh

\* A command that saves has written when its transfer is over.
SaveInv ==
  menu = "save" =>
    /\ pc["console"] <= 3 => cycle = <<>>
    /\ pc["console"] > 3 /\ ~swept => cycle = want \/ (cycle = <<>> /\ eeprom = want)

\* Before the EEPROM is read the registers are as after the reset.
RestoreInv ==
  /\ stage = "boot" => fresh /\ pl[1] = PlReset /\ pl[2] = PlReset
  /\ SettingsRestored

\* What the steps on the card have achieved so far.
CardInv ==
  ~cardError =>
    /\ stage \in {"dat", "rewrite", "write", "net"} => ~new
    /\ stage = "net" => dat = "whole"

BoardInv == ProgInv /\ MuxInv /\ CycleInv /\ SaveInv /\ RestoreInv /\ CardInv
---------------------------------------------------------------------------
(* What the proofs need of the scripts *)

LEMMA ScriptOf ==
  /\ Script["boot"] = Boot /\ Script["sweep"] = Sweep
  /\ Script["save"] = EepromWrite /\ Script["dump"] = EepromRead
BY DEF Script

LEMMA BootScript ==
  /\ Len(Boot) = 15
  /\ Boot[12] = Select(0, 6) /\ Boot[13] = Select(1, Off)
  /\ Boot[14].op = "xfer" /\ Boot[15].op = "xfer"
BY DEF Boot, WriteLmk, EepromRead, ToEeprom, Select, Xfer, Xfers, ReadSi569, ProgSi569

LEMMA ConsoleScripts ==
  /\ Len(EepromWrite) = 3 /\ Len(EepromRead) = 4
  /\ EepromWrite[1] = Select(0, 6) /\ EepromRead[1] = Select(0, 6)
  /\ EepromWrite[2] = Select(1, Off) /\ EepromRead[2] = Select(1, Off)
  /\ EepromWrite[3] = Xfer(Eeprom) /\ EepromRead[3] = Xfer(Eeprom)
  /\ EepromRead[4] = Xfer(Eeprom)
BY DEF EepromWrite, EepromRead, ToEeprom

LEMMA SweepScript ==
  /\ Len(Sweep) \in Nat /\ Len(Sweep) > 3
  /\ Sweep[Len(Sweep) - 2] = Select(0, Off)
  /\ Sweep[Len(Sweep) - 1] = Select(1, 3)
  /\ Sweep[Len(Sweep)].op = "xfer"
BY DEF Sweep, ConfigureLtc2991, ReadLtc2991, SfpStats, Ltc2977Stats, Select, PtrRead,
   Xfer, Xfers

LEMMA EepromAlone ==
  ASSUME mux[0] = 6
  PROVE  Answers(Eeprom) = {Eeprom}
BY DEF Answers, Devices, Eeprom, Dev, Dfe, Afe, Ina226, Si569, Ltc2991, Ltc2977,
   Lmk61e2, Sfp, SfpId

LEMMA EepromNone ==
  ASSUME mux[0] = Off
  PROVE  Answers(Eeprom) = {}
BY FittedAssumption DEF Answers, Devices, Eeprom, Dev, Dfe, Afe, Ina226, Si569,
   Ltc2991, Ltc2977, Lmk61e2, Sfp, SfpId, Off

\* The operations of a command of the console.
LEMMA CommandOp ==
  ASSUME pc["console"] \in Nat \ {0}, prog["console"] \in {"save", "dump"},
         ~AtEnd("console")
  PROVE  /\ pc["console"] \in 1 .. 4
         /\ \/ Op("console") = EepromWrite[pc["console"]] /\ pc["console"] < 4
            \/ Op("console") = EepromRead[pc["console"]]
<1>1. CASE prog["console"] = "save"
  <2>1. Script[prog["console"]] = EepromWrite
    BY <1>1, ScriptOf
  <2>2. ~(pc["console"] > 3)
    BY <2>1, ConsoleScripts DEF AtEnd
  <2>3. pc["console"] \in 1 .. 4 /\ pc["console"] < 4
    BY <2>2
  <2> QED
    BY <2>1, <2>3 DEF Op
<1>2. CASE prog["console"] = "dump"
  <2>1. Script[prog["console"]] = EepromRead
    BY <1>2, ScriptOf
  <2>2. ~(pc["console"] > 4)
    BY <2>1, ConsoleScripts DEF AtEnd
  <2>3. pc["console"] \in 1 .. 4
    BY <2>2
  <2> QED
    BY <2>1, <2>3 DEF Op
<1> QED
  BY <1>1, <1>2

---------------------------------------------------------------------------
(* The steps *)

\* main and realmain.
LEMMA MainBusStep ==
  ASSUME BoardInv, MainBus
  PROVE  BoardInv'
<1>1. ProgInv'
  BY DEF BoardInv, MainBus, BusStep, ProgInv, Threads, startupVars
<1>2. MuxInv'
  <2>1. /\ prog["main"] \in {"boot", "mac"} /\ stage \in {"boot", "mac"}
        /\ UNCHANGED <<prog, menu, swept>> /\ pc' = [pc EXCEPT !["main"] = @ + 1]
        /\ ~AtEnd("main") /\ Perform(Op("main"))
    BY DEF BoardInv, ProgInv, MainBus, BusStep, Running
  <2>2. prog["brdstats"] = "none" /\ menu = "off"
    BY <2>1 DEF BoardInv, ProgInv
  <2>3. mux' = [m \in 0 .. 1 |-> mux'[m]]
    BY <2>1 DEF BoardInv, MuxInv, Perform
  <2>4. ASSUME prog["main"] = "boot", pc["main"] + 1 > 12
        PROVE  mux'[0] = 6
    <3>1. pc["main"] \in 12 .. 15 /\ Op("main") = Boot[pc["main"]]
      <4>1. Len(Script[prog["main"]]) = 15 /\ pc["main"] \in Nat
        BY <2>4, BootScript, ScriptOf DEF BoardInv, ProgInv, Threads
      <4> QED
        BY <2>1, <2>4, <4>1, ScriptOf DEF AtEnd, Op
    <3>2. CASE pc["main"] = 12
      BY <2>1, <3>1, <3>2, BootScript DEF BoardInv, MuxInv, Perform, Select
    <3>3. CASE pc["main"] = 13
      BY <2>1, <2>4, <3>1, <3>3, BootScript DEF BoardInv, MuxInv, Perform, Select
    <3>4. CASE pc["main"] \in {14, 15}
      BY <2>1, <2>4, <3>1, <3>4, BootScript DEF BoardInv, MuxInv, Perform
    <3> QED
      BY <3>1, <3>2, <3>3, <3>4
  <2> QED
    BY <2>1, <2>2, <2>3, <2>4 DEF BoardInv, ProgInv, MuxInv, Threads
<1>3. CycleInv'
  BY DEF BoardInv, MainBus, BusStep, CycleInv, settings
<1>4. SaveInv'
  BY DEF BoardInv, MainBus, BusStep, SaveInv, settings
<1>5. RestoreInv'
  BY DEF BoardInv, MainBus, BusStep, RestoreInv, SettingsRestored, startupVars,
     settings
<1>6. CardInv'
  BY DEF MainBus, BusStep, CardInv, startupVars
<1> QED
  BY <1>1, <1>2, <1>3, <1>4, <1>5, <1>6 DEF BoardInv

LEMMA BootEndStep ==
  ASSUME BoardInv, BootEnd
  PROVE  BoardInv'
<1>1. ProgInv'
  BY DEF BoardInv, BootEnd, Finish, ProgInv, Threads
<1>2. MuxInv'
  BY DEF BoardInv, BootEnd, Finish, MuxInv, Running, MayRun
<1>3. CycleInv'
  BY DEF BoardInv, BootEnd, CycleInv
<1>4. SaveInv'
  BY DEF BoardInv, BootEnd, Finish, SaveInv
<1>5. RestoreInv'
  <2>1. /\ stage = "boot" /\ prog["main"] = "boot" /\ fresh /\ cycle = <<>>
        /\ pl[1] = PlReset /\ pl[2] = PlReset
    BY DEF BoardInv, ProgInv, CycleInv, RestoreInv, BootEnd
  <2>2. pc["main"] > 12
    <3>1. Len(Script[prog["main"]]) = 15 /\ pc["main"] \in Nat
      BY <2>1, BootScript, ScriptOf DEF BoardInv, ProgInv, Threads
    <3> QED
      BY <3>1 DEF BootEnd, AtEnd
  <2>3. ReadEeprom = eeprom
    BY <2>1, <2>2, EepromAlone DEF BoardInv, MuxInv, ReadEeprom
  <2>4. \A i \in 1 .. 2 : pl'[i] = IF Valid(eeprom[i]) THEN eeprom[i] ELSE PlReset
    BY <2>1, <2>3 DEF BootEnd, Restore
  <2>5. eeprom' = eeprom /\ stage' # "boot"
    BY DEF BootEnd
  <2> QED
    BY <2>4, <2>5 DEF RestoreInv, SettingsRestored, Valid
<1>6. CardInv'
  BY DEF BootEnd, CardInv
<1> QED
  BY <1>1, <1>2, <1>3, <1>4, <1>5, <1>6 DEF BoardInv

LEMMA MacBeginStep ==
  ASSUME BoardInv, MacBegin
  PROVE  BoardInv'
<1>1. ProgInv'
  BY DEF BoardInv, MacBegin, Start, ProgInv, Threads, startupVars
<1>2. MuxInv'
  BY DEF BoardInv, MacBegin, Start, MuxInv, Running, MayRun
<1>3. CycleInv'
  BY DEF BoardInv, MacBegin, CycleInv, settings
<1>4. SaveInv'
  BY DEF BoardInv, MacBegin, Start, SaveInv, settings
<1>5. RestoreInv'
  BY DEF BoardInv, MacBegin, RestoreInv, SettingsRestored, startupVars, settings
<1>6. CardInv'
  BY DEF MacBegin, CardInv, startupVars
<1> QED
  BY <1>1, <1>2, <1>3, <1>4, <1>5, <1>6 DEF BoardInv

LEMMA MacEndStep ==
  ASSUME BoardInv, MacEnd
  PROVE  BoardInv'
<1>1. ProgInv'
  <2>1. /\ prog' = [prog EXCEPT !["main"] = "none"] /\ pc' = [pc EXCEPT !["main"] = 1]
        /\ stage = "mac" /\ stage' = "lines" /\ UNCHANGED <<menu, swept>>
    BY DEF MacEnd, Finish, Hwaddr
  <2> QED
    BY <2>1 DEF BoardInv, ProgInv, Threads
<1>2. MuxInv'
  BY DEF BoardInv, MacEnd, Finish, Hwaddr, ProgInv, MuxInv, Threads
<1>3. CycleInv'
  BY DEF BoardInv, MacEnd, CycleInv, settings
<1>4. SaveInv'
  BY DEF BoardInv, MacEnd, Hwaddr, ProgInv, SaveInv
<1>5. RestoreInv'
  BY DEF BoardInv, MacEnd, Hwaddr, RestoreInv, SettingsRestored, settings
<1>6. CardInv'
  BY DEF MacEnd, Hwaddr, CardInv
<1> QED
  BY <1>1, <1>2, <1>3, <1>4, <1>5, <1>6 DEF BoardInv

LEMMA RealmainStep ==
  ASSUME BoardInv, Realmain
  PROVE  BoardInv'
<1>1. ProgInv'
  BY DEF BoardInv, Realmain, StartupStep, Mount, Netconf, NetconfEnd, SyncNew,
     UnlinkNew, SyncDat, TruncateDat, WriteDat, NetSetup, Serve, ProgInv
<1>2. MuxInv'
  BY DEF BoardInv, Realmain, StartupStep, MuxInv, Running, MayRun
<1>3. CycleInv'
  BY DEF BoardInv, Realmain, StartupStep, CycleInv, settings
<1>4. SaveInv'
  BY DEF BoardInv, Realmain, StartupStep, SaveInv, settings
<1>5. RestoreInv'
  BY DEF BoardInv, Realmain, StartupStep, Mount, Netconf, NetconfEnd, SyncNew,
     UnlinkNew, SyncDat, TruncateDat, WriteDat, NetSetup, Serve, RestoreInv,
     SettingsRestored, settings
<1>6. CardInv'
  BY DEF BoardInv, Realmain, StartupStep, Mount, Netconf, NetconfEnd, SyncNew,
     UnlinkNew, SyncDat, TruncateDat, WriteDat, NetSetup, Serve, CardInv
<1> QED
  BY <1>1, <1>2, <1>3, <1>4, <1>5, <1>6 DEF BoardInv

\* brdstats_push.
LEMMA WakeStep ==
  ASSUME BoardInv, Wake
  PROVE  BoardInv'
<1>1. ProgInv'
  BY DEF BoardInv, Wake, Start, ProgInv, Threads, startupVars
<1>2. MuxInv'
  <2>1. /\ prog' = [prog EXCEPT !["brdstats"] = "sweep"]
        /\ pc' = [pc EXCEPT !["brdstats"] = 1]
        /\ UNCHANGED <<mux, menu>>
    BY DEF Wake, Start, settings
  <2>2. ~(1 > Len(Sweep) - 2)
    BY SweepScript
  <2> QED
    BY <2>1, <2>2 DEF BoardInv, ProgInv, MuxInv, Threads, MayRun, Running
<1>3. CycleInv'
  BY DEF BoardInv, Wake, CycleInv, settings
<1>4. SaveInv'
  BY DEF BoardInv, Wake, Start, SaveInv, settings
<1>5. RestoreInv'
  BY DEF BoardInv, Wake, RestoreInv, SettingsRestored, startupVars, settings
<1>6. CardInv'
  BY DEF Wake, CardInv, startupVars
<1> QED
  BY <1>1, <1>2, <1>3, <1>4, <1>5, <1>6 DEF BoardInv

LEMMA SweepBusStep ==
  ASSUME BoardInv, SweepBus
  PROVE  BoardInv'
<1>1. ProgInv'
  BY DEF BoardInv, SweepBus, BusStep, ProgInv, Threads, startupVars
<1>2. MuxInv'
  <2>1. /\ prog["brdstats"] = "sweep" /\ stage = "ready" /\ prog["main"] # "boot"
        /\ UNCHANGED <<prog, menu, swept>> /\ pc' = [pc EXCEPT !["brdstats"] = @ + 1]
        /\ ~AtEnd("brdstats") /\ Perform(Op("brdstats"))
    BY DEF BoardInv, ProgInv, SweepBus, BusStep, Running
  <2>2. mux' = [m \in 0 .. 1 |-> mux'[m]]
    BY <2>1 DEF BoardInv, MuxInv, Perform
  <2>3. ASSUME pc["brdstats"] + 1 > Len(Sweep) - 2
        PROVE  mux'[0] = Off
    <3>1. /\ pc["brdstats"] \in Len(Sweep) - 2 .. Len(Sweep)
          /\ Op("brdstats") = Sweep[pc["brdstats"]]
      BY <2>1, <2>3, SweepScript, ScriptOf DEF BoardInv, ProgInv, Threads, AtEnd, Op
    <3>2. CASE pc["brdstats"] = Len(Sweep) - 2
      BY <2>1, <3>1, <3>2, SweepScript DEF BoardInv, MuxInv, Perform, Select
    <3>3. CASE pc["brdstats"] = Len(Sweep) - 1
      BY <2>1, <3>1, <3>3, SweepScript DEF BoardInv, MuxInv, Perform, Select
    <3>4. CASE pc["brdstats"] = Len(Sweep)
      BY <2>1, <3>1, <3>4, SweepScript DEF BoardInv, MuxInv, Perform
    <3> QED
      <4>1. \A n \in Nat : \A i \in n - 2 .. n : i = n - 2 \/ i = n - 1 \/ i = n
        OBVIOUS
      <4>2. Len(Sweep) \in Nat
        BY SweepScript
      <4> QED
        BY <3>1, <3>2, <3>3, <3>4, <4>1, <4>2
  <2> QED
    BY <2>1, <2>2, <2>3 DEF BoardInv, ProgInv, MuxInv, Threads, MayRun, Running
<1>3. CycleInv'
  BY DEF BoardInv, SweepBus, BusStep, CycleInv, settings
<1>4. SaveInv'
  BY DEF BoardInv, SweepBus, BusStep, SaveInv, settings
<1>5. RestoreInv'
  BY DEF BoardInv, SweepBus, BusStep, RestoreInv, SettingsRestored, startupVars,
     settings
<1>6. CardInv'
  BY DEF BoardInv, SweepBus, BusStep, CardInv, startupVars
<1> QED
  BY <1>1, <1>2, <1>3, <1>4, <1>5, <1>6 DEF BoardInv

LEMMA SweepEndStep ==
  ASSUME BoardInv, SweepEnd
  PROVE  BoardInv'
<1>1. ProgInv'
  BY DEF BoardInv, SweepEnd, Finish, ProgInv, Threads, startupVars
<1>2. MuxInv'
  <2>1. pc["brdstats"] > Len(Sweep) - 2 /\ prog["brdstats"] = "sweep"
    BY SweepScript, ScriptOf DEF BoardInv, ProgInv, Threads, SweepEnd, AtEnd, Running
  <2>2. mux[0] = Off /\ swept
    BY <2>1 DEF BoardInv, ProgInv, MuxInv
  <2> QED
    BY <2>1, <2>2 DEF BoardInv, MuxInv, SweepEnd, Finish
<1>3. CycleInv'
  BY DEF BoardInv, SweepEnd, CycleInv, settings
<1>4. SaveInv'
  BY DEF BoardInv, SweepEnd, Finish, SaveInv, settings
<1>5. RestoreInv'
  BY DEF BoardInv, SweepEnd, RestoreInv, SettingsRestored, startupVars, settings
<1>6. CardInv'
  BY DEF BoardInv, SweepEnd, CardInv, startupVars
<1> QED
  BY <1>1, <1>2, <1>3, <1>4, <1>5, <1>6 DEF BoardInv

\* The console.
LEMMA ChooseStep ==
  ASSUME BoardInv, Choose
  PROVE  BoardInv'
<1>1. ProgInv'
  BY DEF BoardInv, Choose, Start, ProgInv, Threads, startupVars, Running, MayRun
<1>2. MuxInv'
  BY DEF BoardInv, Choose, Start, ProgInv, MuxInv, Threads
<1>3. CycleInv'
  BY DEF Choose, CycleInv, settings
<1>4. SaveInv'
  BY DEF Choose, SaveInv
<1>5. RestoreInv'
  BY DEF BoardInv, Choose, RestoreInv, SettingsRestored, startupVars, settings
<1>6. CardInv'
  BY DEF BoardInv, Choose, CardInv, startupVars
<1> QED
  BY <1>1, <1>2, <1>3, <1>4, <1>5, <1>6 DEF BoardInv

LEMMA EnterKxStep ==
  ASSUME BoardInv, EnterKx
  PROVE  BoardInv'
<1>1. ProgInv'
  BY DEF BoardInv, EnterKx, ProgInv, startupVars
<1>2. MuxInv'
  BY DEF BoardInv, EnterKx, MuxInv
<1>3. CycleInv'
  BY DEF BoardInv, EnterKx, CycleInv
<1>4. SaveInv'
  BY DEF EnterKx, SaveInv
<1>5. RestoreInv'
  BY DEF BoardInv, EnterKx, RestoreInv, SettingsRestored, startupVars
<1>6. CardInv'
  BY DEF BoardInv, EnterKx, CardInv, startupVars
<1> QED
  BY <1>1, <1>2, <1>3, <1>4, <1>5, <1>6 DEF BoardInv

LEMMA EnterKyStep ==
  ASSUME BoardInv, EnterKy
  PROVE  BoardInv'
<1>1. ProgInv'
  BY DEF BoardInv, EnterKy, ProgInv, startupVars
<1>2. MuxInv'
  BY DEF BoardInv, EnterKy, MuxInv
<1>3. CycleInv'
  BY DEF BoardInv, EnterKy, CycleInv
<1>4. SaveInv'
  BY DEF EnterKy, SaveInv
<1>5. RestoreInv'
  BY DEF BoardInv, EnterKy, RestoreInv, SettingsRestored, startupVars
<1>6. CardInv'
  BY DEF BoardInv, EnterKy, CardInv, startupVars
<1> QED
  BY <1>1, <1>2, <1>3, <1>4, <1>5, <1>6 DEF BoardInv

LEMMA SetXStep ==
  ASSUME BoardInv, SetX
  PROVE  BoardInv'
<1>1. ProgInv'
  BY DEF BoardInv, SetX, ProgInv, startupVars
<1>2. MuxInv'
  BY DEF BoardInv, SetX, MuxInv
<1>3. CycleInv'
  BY DEF BoardInv, SetX, CycleInv
<1>4. SaveInv'
  BY DEF SetX, SaveInv
<1>5. RestoreInv'
  BY DEF BoardInv, SetX, ProgInv, RestoreInv, SettingsRestored, startupVars
<1>6. CardInv'
  BY DEF BoardInv, SetX, CardInv, startupVars
<1> QED
  BY <1>1, <1>2, <1>3, <1>4, <1>5, <1>6 DEF BoardInv

LEMMA SetYStep ==
  ASSUME BoardInv, SetY
  PROVE  BoardInv'
<1>1. ProgInv'
  BY DEF BoardInv, SetY, Start, ProgInv, Threads, startupVars, Running, MayRun
<1>2. MuxInv'
  BY DEF BoardInv, SetY, Start, ProgInv, MuxInv, Threads
<1>3. CycleInv'
  BY DEF SetY, CycleInv
<1>4. SaveInv'
  BY DEF BoardInv, SetY, Start, ProgInv, CycleInv, SaveInv, Threads
<1>5. RestoreInv'
  BY DEF BoardInv, SetY, CycleInv, RestoreInv, SettingsRestored, startupVars
<1>6. CardInv'
  BY DEF BoardInv, SetY, CardInv, startupVars
<1> QED
  BY <1>1, <1>2, <1>3, <1>4, <1>5, <1>6 DEF BoardInv

LEMMA ConsoleBusStep ==
  ASSUME BoardInv, ConsoleBus
  PROVE  BoardInv'
<1>1. ProgInv'
  BY DEF BoardInv, ConsoleBus, BusStep, ProgInv, Threads, startupVars
<1>2. MuxInv'
  <2>1. /\ menu \in {"save", "dump"} /\ prog["console"] = menu /\ stage = "ready"
        /\ prog["main"] # "boot" /\ prog["brdstats"] = "none" /\ MayRun
        /\ UNCHANGED <<prog, menu, swept>> /\ pc' = [pc EXCEPT !["console"] = @ + 1]
        /\ ~AtEnd("console") /\ Perform(Op("console"))
    BY DEF BoardInv, ProgInv, ConsoleBus, BusStep, Running, MayRun
  <2>2. mux' = [m \in 0 .. 1 |-> mux'[m]]
    BY <2>1 DEF BoardInv, MuxInv, Perform
  <2>3. mux'[0] = 6 \/ (mux'[0] = Off /\ swept)
    <3>1. /\ pc["console"] \in 1 .. 4
          /\ \/ Op("console") = EepromWrite[pc["console"]] /\ pc["console"] < 4
             \/ Op("console") = EepromRead[pc["console"]]
      BY <2>1, CommandOp DEF BoardInv, ProgInv, Threads
    <3>2. CASE pc["console"] = 1
      BY <2>1, <3>1, <3>2, ConsoleScripts DEF BoardInv, MuxInv, Perform, Select
    <3>3. CASE pc["console"] = 2
      BY <2>1, <3>1, <3>3, ConsoleScripts DEF BoardInv, MuxInv, Perform, Select
    <3>4. CASE pc["console"] \in {3, 4}
      <4>1. Op("console") = Xfer(Eeprom)
        BY <3>1, <3>4, ConsoleScripts
      <4> QED
        BY <2>1, <3>4, <4>1 DEF BoardInv, MuxInv, Perform, Xfer, Xfers
    <3> QED
      BY <3>1, <3>2, <3>3, <3>4
  <2> QED
    BY <2>1, <2>2, <2>3 DEF BoardInv, ProgInv, MuxInv, Threads
<1>3. CycleInv'
  BY DEF BoardInv, ConsoleBus, BusStep, CycleInv
<1>4. SaveInv'
  <2> SUFFICES ASSUME menu = "save" PROVE SaveInv'
    BY DEF ConsoleBus, SaveInv
  <2>1. /\ pc["console"] \in 1 .. 3 /\ Op("console") = EepromWrite[pc["console"]]
        /\ pc' = [pc EXCEPT !["console"] = @ + 1] /\ UNCHANGED <<eeprom, want, menu, swept>>
        /\ cycle = <<>> /\ MayRun
    <3>1. Script[prog["console"]] = EepromWrite /\ pc["console"] \in Nat \ {0}
      BY ScriptOf DEF BoardInv, ProgInv, Threads
    <3>2. pc["console"] \in 1 .. 3
      BY <3>1, ConsoleScripts DEF ConsoleBus, BusStep, AtEnd
    <3> QED
      BY <3>1, <3>2 DEF BoardInv, SaveInv, ConsoleBus, BusStep, Op
  <2>2. CASE pc["console"] < 3
    <3>1. Op("console").op # "xfer"
      BY <2>1, <2>2, ConsoleScripts DEF Select
    <3>2. cycle' = <<>>
      BY <2>1, <3>1 DEF ConsoleBus, Reached
    <3> QED
      BY <2>1, <2>2, <3>2 DEF BoardInv, ProgInv, SaveInv, Threads
  <2>3. CASE pc["console"] = 3
    <3>1. Op("console").op = "xfer" /\ Op("console").dev = Eeprom
      BY <2>1, <2>3, ConsoleScripts DEF Xfer, Xfers
    <3>2. swept \/ Eeprom \in Answers(Eeprom)
      BY <2>1, <2>3, EepromAlone DEF BoardInv, MuxInv
    <3>3. swept \/ cycle' = want
      BY <2>1, <3>1, <3>2 DEF ConsoleBus, Reached
    <3> QED
      BY <2>1, <2>3, <3>3 DEF BoardInv, ProgInv, SaveInv, Threads
  <2> QED
    BY <2>1, <2>2, <2>3
<1>5. RestoreInv'
  BY DEF BoardInv, ConsoleBus, BusStep, RestoreInv, SettingsRestored, startupVars
<1>6. CardInv'
  BY DEF BoardInv, ConsoleBus, BusStep, CardInv, startupVars
<1> QED
  BY <1>1, <1>2, <1>3, <1>4, <1>5, <1>6 DEF BoardInv

LEMMA CommandEndStep ==
  ASSUME BoardInv, CommandEnd
  PROVE  BoardInv'
<1>1. ProgInv'
  BY DEF BoardInv, CommandEnd, Finish, ProgInv, Threads, startupVars, Running
<1>2. MuxInv'
  BY DEF BoardInv, CommandEnd, Finish, MuxInv
<1>3. CycleInv'
  BY DEF BoardInv, CommandEnd, CycleInv
<1>4. SaveInv'
  BY DEF CommandEnd, SaveInv
<1>5. RestoreInv'
  BY DEF BoardInv, CommandEnd, RestoreInv, SettingsRestored, startupVars
<1>6. CardInv'
  BY DEF BoardInv, CommandEnd, CardInv, startupVars
<1> QED
  BY <1>1, <1>2, <1>3, <1>4, <1>5, <1>6 DEF BoardInv

LEMMA RebootStep ==
  ASSUME BoardInv, Reboot
  PROVE  BoardInv'
<1>1. ProgInv'
  BY DEF BoardInv, Reboot, Restart, Reset, ProgInv, Threads, startupVars
<1>2. MuxInv'
  BY DEF BoardInv, Reboot, Restart, MuxInv, Threads
<1>3. CycleInv'
  BY DEF BoardInv, Reboot, Restart, CycleInv, settings
<1>4. SaveInv'
  BY DEF Reboot, Restart, SaveInv
<1>5. RestoreInv'
  BY DEF BoardInv, Reboot, Restart, Reset, RestoreInv, SettingsRestored, startupVars,
     settings
<1>6. CardInv'
  BY DEF BoardInv, Reboot, Restart, Reset, CardInv, startupVars
<1> QED
  BY <1>1, <1>2, <1>3, <1>4, <1>5, <1>6 DEF BoardInv

\* The surroundings.
LEMMA WriteCycleStep ==
  ASSUME BoardInv, WriteCycle
  PROVE  BoardInv'
<1>1. ProgInv'
  BY DEF BoardInv, WriteCycle, ProgInv, startupVars
<1>2. MuxInv'
  BY DEF BoardInv, WriteCycle, MuxInv, Running, MayRun
<1>3. CycleInv'
  BY DEF BoardInv, WriteCycle, CycleInv
<1>4. SaveInv'
  BY DEF BoardInv, WriteCycle, SaveInv
<1>5. RestoreInv'
  BY DEF BoardInv, WriteCycle, CycleInv, RestoreInv, SettingsRestored, startupVars
<1>6. CardInv'
  BY DEF BoardInv, WriteCycle, CardInv, startupVars
<1> QED
  BY <1>1, <1>2, <1>3, <1>4, <1>5, <1>6 DEF BoardInv

LEMMA ClientSetStep ==
  ASSUME BoardInv, ClientSet
  PROVE  BoardInv'
<1>1. ProgInv'
  BY DEF BoardInv, ClientSet, ProgInv, startupVars
<1>2. MuxInv'
  BY DEF BoardInv, ClientSet, MuxInv, Running, MayRun
<1>3. CycleInv'
  BY DEF BoardInv, ClientSet, CycleInv
<1>4. SaveInv'
  BY DEF BoardInv, ClientSet, SaveInv
<1>5. RestoreInv'
  BY DEF ClientSet, RestoreInv, SettingsRestored, startupVars
<1>6. CardInv'
  BY DEF ClientSet, CardInv, startupVars
<1> QED
  BY <1>1, <1>2, <1>3, <1>4, <1>5, <1>6 DEF BoardInv

LEMMA PowerFailsStep ==
  ASSUME BoardInv, PowerFails
  PROVE  BoardInv'
<1>1. ProgInv'
  BY DEF PowerFails, Restart, Reset, ProgInv, Threads
<1>2. MuxInv'
  BY DEF PowerFails, Restart, MuxInv, Threads
<1>3. CycleInv'
  BY DEF PowerFails, Restart, CycleInv
<1>4. SaveInv'
  BY DEF PowerFails, Restart, SaveInv
<1>5. RestoreInv'
  BY DEF PowerFails, Restart, Reset, RestoreInv, SettingsRestored
<1>6. CardInv'
  BY DEF PowerFails, Restart, Reset, CardInv
<1> QED
  BY <1>1, <1>2, <1>3, <1>4, <1>5, <1>6 DEF BoardInv
---------------------------------------------------------------------------
LEMMA InitInv == Init => BoardInv
<1> SUFFICES ASSUME Init PROVE BoardInv
  OBVIOUS
<1> USE DEF Init, StartupInit, Threads
<1>1. ProgInv
  BY DEF ProgInv
<1>2. MuxInv
  BY DEF MuxInv
<1>3. CycleInv /\ SaveInv /\ RestoreInv /\ CardInv
  BY DEF CycleInv, SaveInv, RestoreInv, SettingsRestored, CardInv
<1> QED
  BY <1>1, <1>2, <1>3 DEF BoardInv

LEMMA Stutter ==
  ASSUME BoardInv, UNCHANGED vars
  PROVE  BoardInv'
BY DEF BoardInv, ProgInv, MuxInv, CycleInv, SaveInv, RestoreInv, SettingsRestored,
   CardInv, vars, startupVars, settings, MayRun, Running

LEMMA NextInv == BoardInv /\ [Next]_vars => BoardInv'
<1> SUFFICES ASSUME BoardInv, [Next]_vars PROVE BoardInv'
  OBVIOUS
<1>1. CASE Main
  BY <1>1, MainBusStep, BootEndStep, MacBeginStep, MacEndStep, RealmainStep DEF Main
<1>2. CASE Brdstats
  BY <1>2, WakeStep, SweepBusStep, SweepEndStep DEF Brdstats
<1>3. CASE Console
  BY <1>3, ChooseStep, EnterKxStep, EnterKyStep, SetXStep, SetYStep, ConsoleBusStep,
     CommandEndStep, RebootStep DEF Console
<1>4. CASE WriteCycle \/ ClientSet \/ PowerFails
  BY <1>4, WriteCycleStep, ClientSetStep, PowerFailsStep
<1> QED
  BY <1>1, <1>2, <1>3, <1>4, Stutter DEF Next

LEMMA Invariant == Spec => []BoardInv
BY InitInv, NextInv, PTL DEF Spec

\* The bytes of a command of the console go to the EEPROM or, after a sweep, to
\* nobody, whichever SFP slots are fitted (i2c_eeprom_writeBytes).
THEOREM NoStray == Spec => []NoStrayTransfer
<1>1. BoardInv => NoStrayTransfer
  <2> SUFFICES ASSUME BoardInv, Transferring("console"), MayRun
               PROVE  \/ Answers(Op("console").dev) = {Eeprom}
                      \/ Answers(Op("console").dev) = {} /\ swept
    BY DEF NoStrayTransfer
  <2>1. /\ menu \in {"save", "dump"} /\ prog["console"] = menu
        /\ ~AtEnd("console") /\ Op("console").op = "xfer" /\ pc["console"] \in Nat \ {0}
    BY DEF BoardInv, ProgInv, Transferring, Running, Threads
  <2>2. /\ pc["console"] \in 1 .. 4
        /\ \/ Op("console") = EepromWrite[pc["console"]] /\ pc["console"] < 4
           \/ Op("console") = EepromRead[pc["console"]]
    BY <2>1, CommandOp
  <2>3. Select(0, 6).op # "xfer" /\ Select(1, Off).op # "xfer" /\ Xfer(Eeprom).dev = Eeprom
    BY DEF Select, Xfer, Xfers
  <2>4. pc["console"] \in {3, 4}
    BY <2>1, <2>2, <2>3, ConsoleScripts
  <2>5. Op("console").dev = Eeprom
    BY <2>2, <2>3, <2>4, ConsoleScripts
  <2>6. mux[0] = 6 \/ (mux[0] = Off /\ swept)
    BY <2>1, <2>4 DEF BoardInv, MuxInv
  <2> QED
    BY <2>5, <2>6, EepromAlone, EepromNone
<1> QED
  BY <1>1, Invariant, PTL

\* Kx and Ky are restored from the EEPROM, each by itself, after any restarts
\* and power failures (ReadEEPROMHardwareSettings).
THEOREM Restored == Spec => []SettingsRestored
<1>1. BoardInv => SettingsRestored
  BY DEF BoardInv, RestoreInv
<1> QED
  BY <1>1, Invariant, PTL

\* "Saved Kx/Ky" is true, unless a sweep has cut in (set_kx_ky_console).
THEOREM Saved == Spec => SavedUnlessSwept
<1>1. BoardInv /\ [Next]_vars => [menu = "save" /\ CommandEnd =>
                                   swept \/ want \in {eeprom, cycle}]_vars
  <2> SUFFICES ASSUME BoardInv, menu = "save", CommandEnd, ~swept
               PROVE  want \in {eeprom, cycle}
    OBVIOUS
  <2>1. Script[prog["console"]] = EepromWrite /\ pc["console"] \in Nat
    BY ScriptOf DEF BoardInv, ProgInv, Threads
  <2>2. pc["console"] > 3
    BY <2>1, ConsoleScripts DEF CommandEnd, AtEnd
  <2> QED
    BY <2>2 DEF BoardInv, SaveInv
<1> QED
  BY <1>1, Invariant, PTL DEF Spec, SavedUnlessSwept

\* A start without an error of the card leaves its files settled, wherever
\* earlier ones were cut off (sdcard_handle).
THEOREM Settled == Spec => []CardSettled
<1>1. BoardInv => CardSettled
  BY DEF BoardInv, CardInv, CardSettled
<1> QED
  BY <1>1, Invariant, PTL

---------------------------------------------------------------------------
(* Every transfer goes through a channel its own script has connected *)

\* The places of the devices, those in empty SFP slots with them.
Places == {Dfe(i) : i \in 0 .. 3} \cup {Afe(0), Afe(2), Ina226, Si569}
            \cup {Ltc2991(i) : i \in 0 .. 2} \cup {Ltc2977, Lmk61e2, Eeprom}
            \cup {Sfp(s) : s \in 0 .. 5} \cup {SfpId(s) : s \in 0 .. 5}

Operations == [op : {"select"}, mux : 0 .. 1, chan : 0 .. Off]
                \cup [op : {"xfer"}, dev : Places, n : Nat]

\* Before its k-th operation s has connected channel c of expander m.
Connects(s, k, m, c) ==
  \E j \in 1 .. k - 1 :
    /\ s[j] = Select(m, c)
    /\ \A i \in j + 1 .. k - 1 : s[i].op = "select" => s[i].mux # m

Prepared(s) ==
  /\ s \in Seq(Operations)
  /\ \A k \in 1 .. Len(s) :
       s[k].op = "xfer" => Connects(s, k, s[k].dev.mux, s[k].dev.chan)

\* Prepared, and ready for more transfers through c.
Ready(s, m, c) == Prepared(s) /\ Connects(s, Len(s) + 1, m, c)

\* Transfers only, all of them through c.
Through(s, m, c) ==
  /\ s \in Seq(Operations)
  /\ \A k \in 1 .. Len(s) :
       s[k].op = "xfer" /\ s[k].dev.mux = m /\ s[k].dev.chan = c

LEMMA PlacesFacts ==
  /\ \A i \in 0 .. 3 : Dfe(i) \in Places
  /\ {Afe(0), Afe(2), Ina226, Si569, Ltc2977, Lmk61e2, Eeprom} \subseteq Places
  /\ \A i \in 0 .. 2 : Ltc2991(i) \in Places
  /\ \A s \in 0 .. 5 : Sfp(s) \in Places
BY DEF Places

\* The address of a device says which expander it is behind.
LEMMA PlaceOf ==
  ASSUME NEW d \in Places
  PROVE  /\ d = Dev(d.mux, d.chan, d.addr)
         /\ d.mux \in 0 .. 1 /\ d.chan \in 0 .. 7
         /\ d.mux = 0 <=> d.addr \in {\h50, \h51}
<1>1. \/ d.mux = 0 /\ d.chan \in 0 .. 7 /\ d.addr \in {\h50, \h51}
      \/ d.mux = 1 /\ d.chan \in 0 .. 7 /\ d.addr \notin {\h50, \h51}
  <2>1. CASE d \in {Eeprom} \cup {Sfp(s) : s \in 0 .. 5} \cup {SfpId(s) : s \in 0 .. 5}
    BY <2>1 DEF Eeprom, Sfp, SfpId, Dev
  <2>2. CASE d \in {Dfe(i) : i \in 0 .. 3} \cup {Ltc2991(i) : i \in 0 .. 2}
    BY <2>2 DEF Dfe, Ltc2991, Dev
  <2>3. CASE d \in {Afe(0), Afe(2), Ina226, Si569, Ltc2977, Lmk61e2}
    BY <2>3 DEF Afe, Ina226, Si569, Ltc2977, Lmk61e2, Dev
  <2> QED
    BY <2>1, <2>2, <2>3 DEF Places
<1>2. \E m, c, a : d = Dev(m, c, a)
  BY Zenon DEF Places, Dfe, Afe, Ina226, Si569, Ltc2991, Ltc2977, Lmk61e2, Eeprom, Sfp,
     SfpId
<1>3. d = Dev(d.mux, d.chan, d.addr)
  BY <1>2 DEF Dev
<1> QED
  BY <1>1, <1>3

LEMMA DevicesAtPlaces == Devices \subseteq Places
BY FittedAssumption DEF Devices, Places

\* What a connected channel answers with.
LEMMA Answered ==
  ASSUME NEW d \in Places, mux[d.mux] = d.chan
  PROVE  Answers(d) = {d} \cap Devices
<1>1. ASSUME NEW e \in Devices, e.addr = d.addr, mux[e.mux] = e.chan
      PROVE  e = d
  BY <1>1, PlaceOf, DevicesAtPlaces
<1> QED
  BY <1>1 DEF Answers

LEMMA OpFacts ==
  /\ \A m \in 0 .. 1, c \in 0 .. Off : Select(m, c) \in Operations
  /\ \A d \in Places, n \in Nat : Xfers(d, n) \in Operations
  /\ \A m, c : Select(m, c).op = "select" /\ Select(m, c).mux = m
  /\ \A d, n : Xfers(d, n).op = "xfer" /\ Xfers(d, n).dev = d
BY DEF Operations, Select, Xfers, Off

LEMMA JoinFacts ==
  ASSUME NEW s \in Seq(Operations), NEW t \in Seq(Operations)
  PROVE  /\ s \o t \in Seq(Operations) /\ Len(s \o t) = Len(s) + Len(t)
         /\ \A k \in 1 .. Len(s) : (s \o t)[k] = s[k]
         /\ \A k \in 1 .. Len(t) : (s \o t)[Len(s) + k] = t[k]
OBVIOUS

\* What a script has connected, it has also connected after another one.
LEMMA ConnectsAfter ==
  ASSUME NEW s \in Seq(Operations), NEW t \in Seq(Operations), NEW m, NEW c,
         NEW k \in 1 .. Len(t) + 1, Connects(t, k, m, c)
  PROVE  Connects(s \o t, Len(s) + k, m, c)
<1>1. PICK j \in 1 .. k - 1 :
        /\ t[j] = Select(m, c)
        /\ \A i \in j + 1 .. k - 1 : t[i].op = "select" => t[i].mux # m
  BY DEF Connects
<1>2. Len(s) \in Nat /\ Len(t) \in Nat
  OBVIOUS
<1>3. Len(s) + j \in 1 .. (Len(s) + k) - 1 /\ (s \o t)[Len(s) + j] = Select(m, c)
  BY <1>1, <1>2, JoinFacts
<1>4. ASSUME NEW i \in (Len(s) + j) + 1 .. (Len(s) + k) - 1, (s \o t)[i].op = "select"
      PROVE  (s \o t)[i].mux # m
  <2>1. i - Len(s) \in j + 1 .. k - 1 /\ i - Len(s) \in 1 .. Len(t)
    BY <1>2
  <2>2. (s \o t)[i] = t[i - Len(s)]
    BY <1>2, <2>1, JoinFacts
  <2> QED
    BY <1>1, <1>4, <2>1, <2>2
<1> QED
  BY <1>3, <1>4 DEF Connects

\* And it stays connected while transfers follow.
LEMMA ConnectsOn ==
  ASSUME NEW s \in Seq(Operations), NEW t \in Seq(Operations), NEW m, NEW c,
         Connects(s, Len(s) + 1, m, c),
         NEW k \in 1 .. Len(t) + 1,
         \A i \in 1 .. k - 1 : t[i].op = "xfer"
  PROVE  Connects(s \o t, Len(s) + k, m, c)
<1>1. PICK j \in 1 .. Len(s) :
        /\ s[j] = Select(m, c)
        /\ \A i \in j + 1 .. Len(s) : s[i].op = "select" => s[i].mux # m
  BY DEF Connects
<1>2. Len(s) \in Nat /\ Len(t) \in Nat
  OBVIOUS
<1>3. j \in 1 .. (Len(s) + k) - 1 /\ (s \o t)[j] = Select(m, c)
  BY <1>1, <1>2, JoinFacts
<1>4. ASSUME NEW i \in j + 1 .. (Len(s) + k) - 1, (s \o t)[i].op = "select"
      PROVE  (s \o t)[i].mux # m
  <2>1. CASE i <= Len(s)
    BY <1>1, <1>2, <1>4, <2>1, JoinFacts
  <2>2. CASE i > Len(s)
    <3>1. i - Len(s) \in 1 .. k - 1 /\ i - Len(s) \in 1 .. Len(t)
      BY <1>2, <2>2
    <3>2. (s \o t)[i] = t[i - Len(s)]
      BY <1>2, <3>1, JoinFacts
    <3> QED
      BY <1>4, <3>1, <3>2
  <2> QED
    BY <1>2, <2>1, <2>2
<1> QED
  BY <1>3, <1>4 DEF Connects

LEMMA ConnectsFirst ==
  ASSUME NEW s \in Seq(Operations), NEW t \in Seq(Operations), NEW m, NEW c,
         NEW k \in 1 .. Len(s), Connects(s, k, m, c)
  PROVE  Connects(s \o t, k, m, c)
<1>1. \A j \in 1 .. k - 1 : j \in 1 .. Len(s)
  OBVIOUS
<1>2. \A j \in 1 .. k - 1 : (s \o t)[j] = s[j]
  BY <1>1, JoinFacts
<1>3. PICK j \in 1 .. k - 1 :
        /\ s[j] = Select(m, c)
        /\ \A i \in j + 1 .. k - 1 : s[i].op = "select" => s[i].mux # m
  BY DEF Connects
<1>4. \A i \in j + 1 .. k - 1 : i \in 1 .. k - 1
  BY <1>3
<1> QED
  BY <1>2, <1>3, <1>4 DEF Connects

LEMMA Joined ==
  ASSUME NEW s, NEW t, Prepared(s), Prepared(t)
  PROVE  Prepared(s \o t)
<1>1. /\ s \in Seq(Operations) /\ t \in Seq(Operations)
      /\ Len(s) \in Nat /\ Len(t) \in Nat
  BY DEF Prepared
<1>2. ASSUME NEW k \in 1 .. Len(s \o t), (s \o t)[k].op = "xfer"
      PROVE  Connects(s \o t, k, (s \o t)[k].dev.mux, (s \o t)[k].dev.chan)
  <2>1. CASE k <= Len(s)
    BY <1>1, <1>2, <2>1, JoinFacts, ConnectsFirst DEF Prepared
  <2>2. CASE k > Len(s)
    <3>1. k - Len(s) \in 1 .. Len(t) /\ k = Len(s) + (k - Len(s))
      BY <1>1, <2>2, JoinFacts
    <3>2. (s \o t)[k] = t[k - Len(s)]
      BY <1>1, <3>1, JoinFacts
    <3> QED
      BY <1>1, <1>2, <3>1, <3>2, ConnectsAfter DEF Prepared
  <2> QED
    BY <1>1, <2>1, <2>2, JoinFacts
<1> QED
  BY <1>1, <1>2, JoinFacts DEF Prepared

LEMMA JoinedReady ==
  ASSUME NEW s, NEW t, NEW m, NEW c, Prepared(s), Ready(t, m, c)
  PROVE  Ready(s \o t, m, c)
<1>1. /\ s \in Seq(Operations) /\ t \in Seq(Operations)
      /\ Len(s) \in Nat /\ Len(t) \in Nat
  BY DEF Prepared, Ready
<1>2. Connects(s \o t, Len(s) + (Len(t) + 1), m, c)
  BY <1>1, ConnectsAfter DEF Ready
<1>3. Len(s) + (Len(t) + 1) = Len(s \o t) + 1
  BY <1>1, JoinFacts
<1> QED
  BY <1>2, <1>3, Joined DEF Ready

LEMMA Continued ==
  ASSUME NEW s, NEW t, NEW m, NEW c, Ready(s, m, c), Through(t, m, c)
  PROVE  Ready(s \o t, m, c)
<1>1. /\ s \in Seq(Operations) /\ t \in Seq(Operations)
      /\ Len(s) \in Nat /\ Len(t) \in Nat
  BY DEF Prepared, Ready, Through
<1>2. ASSUME NEW k \in 1 .. Len(t) + 1
      PROVE  Connects(s \o t, Len(s) + k, m, c)
  BY <1>1, ConnectsOn DEF Ready, Through
<1>3. ASSUME NEW k \in 1 .. Len(s \o t), (s \o t)[k].op = "xfer"
      PROVE  Connects(s \o t, k, (s \o t)[k].dev.mux, (s \o t)[k].dev.chan)
  <2>1. CASE k <= Len(s)
    BY <1>1, <1>3, <2>1, JoinFacts, ConnectsFirst DEF Prepared, Ready
  <2>2. CASE k > Len(s)
    <3>1. k - Len(s) \in 1 .. Len(t) /\ k = Len(s) + (k - Len(s))
      BY <1>1, <2>2, JoinFacts
    <3>2. (s \o t)[k] = t[k - Len(s)]
      BY <1>1, <3>1, JoinFacts
    <3> QED
      BY <1>2, <3>1, <3>2 DEF Through
  <2> QED
    BY <1>1, <2>1, <2>2, JoinFacts
<1>4. Connects(s \o t, Len(s \o t) + 1, m, c)
  <2>1. Connects(s \o t, Len(s) + (Len(t) + 1), m, c)
    BY <1>1, <1>2
  <2>2. Len(s) + (Len(t) + 1) = Len(s \o t) + 1
    BY <1>1, JoinFacts
  <2> QED
    BY <2>1, <2>2
<1> QED
  BY <1>1, <1>3, <1>4, JoinFacts DEF Prepared, Ready

LEMMA Selected ==
  ASSUME NEW m \in 0 .. 1, NEW c \in 0 .. Off
  PROVE  Ready(<<Select(m, c)>>, m, c)
BY OpFacts DEF Ready, Prepared, Connects

LEMMA Same ==
  ASSUME NEW d \in Places, NEW n \in Nat
  PROVE  Through(<<Xfers(d, n)>>, d.mux, d.chan)
BY OpFacts DEF Through

\* Two or more transfers.
LEMMA SameMore ==
  ASSUME NEW m, NEW c, NEW s, NEW t, Through(s, m, c), Through(t, m, c)
  PROVE  Through(s \o t, m, c)
<1>1. /\ s \in Seq(Operations) /\ t \in Seq(Operations)
      /\ Len(s) \in Nat /\ Len(t) \in Nat
  BY DEF Through
<1>2. ASSUME NEW k \in 1 .. Len(s \o t)
      PROVE  /\ (s \o t)[k].op = "xfer"
             /\ (s \o t)[k].dev.mux = m /\ (s \o t)[k].dev.chan = c
  <2>1. CASE k <= Len(s)
    BY <1>1, <2>1, JoinFacts DEF Through
  <2>2. CASE k > Len(s)
    <3>1. k - Len(s) \in 1 .. Len(t) /\ k = Len(s) + (k - Len(s))
      BY <1>1, <2>2, JoinFacts
    <3>2. (s \o t)[k] = t[k - Len(s)]
      BY <1>1, <3>1, JoinFacts
    <3> QED
      BY <3>1, <3>2 DEF Through
  <2> QED
    BY <1>1, <2>1, <2>2, JoinFacts
<1> QED
  BY <1>1, <1>2, JoinFacts DEF Through

LEMMA PlaceFields ==
  /\ \A i \in 0 .. 3 : Dfe(i).mux = 1 /\ Dfe(i).chan = 0
  /\ \A d \in {Afe(0), Afe(2), Ina226, Si569} : d.mux = 1 /\ d.chan = 6
  /\ \A i \in 0 .. 2 : Ltc2991(i).mux = 1 /\ Ltc2991(i).chan = 2
  /\ Ltc2977.mux = 1 /\ Ltc2977.chan = 3 /\ Lmk61e2.mux = 1 /\ Lmk61e2.chan = 5
  /\ Eeprom.mux = 0 /\ Eeprom.chan = 6
  /\ \A s \in 0 .. 5 : Sfp(s).mux = 0 /\ Sfp(s).chan = s
BY DEF Dfe, Afe, Ina226, Si569, Ltc2991, Ltc2977, Lmk61e2, Eeprom, Sfp, Dev

LEMMA Opened ==
  ASSUME NEW m \in 0 .. 1, NEW c \in 0 .. 6, NEW t, Through(t, m, c)
  PROVE  Prepared(<<Select(m, c)>> \o t)
<1>1. c \in 0 .. Off
  BY DEF Off
<1>2. Ready(<<Select(m, c)>>, m, c)
  BY <1>1, Selected
<1>3. Ready(<<Select(m, c)>> \o t, m, c)
  BY <1>2, Continued
<1> QED
  BY <1>3 DEF Ready

LEMMA SelectedBoth ==
  ASSUME NEW c \in 0 .. 6
  PROVE  Ready(<<Select(0, c), Select(1, Off)>>, 0, c)
<1> DEFINE s == <<Select(0, c), Select(1, Off)>>
<1>1. s \in Seq(Operations) /\ Len(s) = 2
  BY OpFacts DEF Off
<1>2. s[1] = Select(0, c) /\ s[2] = Select(1, Off)
  OBVIOUS
<1>3. \A k \in 1 .. Len(s) : s[k].op # "xfer"
  BY <1>1, <1>2, OpFacts
<1>4. Connects(s, Len(s) + 1, 0, c)
  <2>1. \A i \in 1 + 1 .. 3 - 1 : s[i].mux # 0
    BY <1>2, OpFacts
  <2>2. Connects(s, 3, 0, c)
    BY <1>2, <2>1 DEF Connects
  <2> QED
    BY <1>1, <2>2
<1> QED
  BY <1>1, <1>3, <1>4 DEF Ready, Prepared

LEMMA SfpStatsPrepared ==
  ASSUME NEW n \in 0 .. 5
  PROVE  Prepared(SfpStats(n))
<1>1. Through(<<PtrRead(Sfp(n))>>, 0, n)
  BY Same, PlacesFacts, PlaceFields DEF PtrRead
<1>2. SfpStats(n) = <<Select(0, n), Select(1, Off)>> \o <<PtrRead(Sfp(n))>>
  BY DEF SfpStats
<1>3. Ready(SfpStats(n), 0, n)
  BY <1>1, <1>2, SelectedBoth, Continued
<1> QED
  BY <1>3 DEF Ready

LEMMA GetMacReady == Ready(GetMac, 0, 6)
<1>1. Through(<<Xfer(Eeprom), Xfer(Eeprom)>>, 0, 6)
  BY OpFacts, PlacesFacts, PlaceFields DEF Through, Xfer
<1>2. Ready(ToEeprom, 0, 6)
  BY SelectedBoth DEF ToEeprom
<1> QED
  BY <1>1, <1>2, Continued DEF GetMac, EepromRead

LEMMA LtcPrepared == Ready(ConfigureLtc2991, 1, 2) /\ Through(ReadLtc2991, 1, 2)
<1> DEFINE chips == <<Xfer(Ltc2991(0)), Xfer(Ltc2991(1)), Xfer(Ltc2991(2))>>
<1>1. Through(chips, 1, 2)
  BY OpFacts, PlacesFacts, PlaceFields DEF Through, Xfer
<1>2. Ready(<<Select(1, 2)>>, 1, 2)
  BY Selected DEF Off
<1>3. ConfigureLtc2991 = <<Select(1, 2)>> \o chips \o chips \o chips
  BY DEF ConfigureLtc2991
<1>4. Ready(ConfigureLtc2991, 1, 2)
  <2> HIDE DEF chips
  <2> QED
    BY <1>1, <1>2, <1>3, Continued
<1>5. Through(ReadLtc2991, 1, 2)
  BY OpFacts, PlacesFacts, PlaceFields DEF Through, ReadLtc2991
<1> QED
  BY <1>4, <1>5

LEMMA SweepPrepared == Prepared(Sweep)
<1> DEFINE dfe    == <<Xfer(Dfe(0)), Xfer(Dfe(1)), Xfer(Dfe(2)), Xfer(Dfe(3))>>
           afe    == <<Xfer(Afe(0)), Xfer(Afe(2)), PtrRead(Ina226), PtrRead(Ina226)>>
           dfePart == <<Select(1, 0), Xfer(Dfe(0)), Xfer(Dfe(1)), Xfer(Dfe(2)),
                        Xfer(Dfe(3))>>
           afePart == <<Select(1, 6), Xfer(Afe(0)), Xfer(Afe(2)), PtrRead(Ina226),
                        PtrRead(Ina226)>>
<1>1. Prepared(dfePart)
  <2>1. Through(dfe, 1, 0)
    BY OpFacts, PlacesFacts, PlaceFields DEF Through, Xfer
  <2>2. dfePart = <<Select(1, 0)>> \o dfe
    OBVIOUS
  <2>3. Prepared(<<Select(1, 0)>> \o dfe)
    BY <2>1, Opened
  <2> QED
    BY <2>2, <2>3
<1>2. Prepared(afePart)
  <2>1. Through(afe, 1, 6)
    BY OpFacts, PlacesFacts, PlaceFields DEF Through, Xfer, PtrRead
  <2>2. afePart = <<Select(1, 6)>> \o afe
    OBVIOUS
  <2>3. Prepared(<<Select(1, 6)>> \o afe)
    BY <2>1, Opened
  <2> QED
    BY <2>2, <2>3
<1>3. Prepared(<<Select(1, 2)>>) /\ Prepared(<<Select(1, 3)>>)
  BY Selected DEF Ready, Off
<1>4. Prepared(Ltc2977Stats)
  <2>1. Through(<<PtrRead(Ltc2977)>>, 1, 3)
    BY Same, PlacesFacts, PlaceFields DEF PtrRead
  <2>2. Prepared(<<Select(0, Off)>>) /\ Ready(<<Select(1, 3)>>, 1, 3)
    BY Selected DEF Ready, Off
  <2>3. Prepared(<<Select(0, Off)>> \o (<<Select(1, 3)>> \o <<PtrRead(Ltc2977)>>))
    BY <2>1, <2>2, Continued, Joined DEF Ready
  <2>4. Ltc2977Stats = <<Select(0, Off)>> \o (<<Select(1, 3)>> \o <<PtrRead(Ltc2977)>>)
    BY DEF Ltc2977Stats
  <2> QED
    BY <2>3, <2>4
<1>5. \A n \in 0 .. 5 : Prepared(SfpStats(n))
  BY SfpStatsPrepared
<1>6. Sweep = dfePart \o afePart \o <<Select(1, 2)>> \o ConfigureLtc2991 \o ReadLtc2991
                \o SfpStats(0) \o SfpStats(1) \o SfpStats(2) \o SfpStats(3) \o SfpStats(4)
                \o SfpStats(5) \o <<Select(1, 3)>> \o Ltc2977Stats
  BY DEF Sweep
<1> HIDE DEF dfePart, afePart
<1>7. Prepared(dfePart \o afePart \o <<Select(1, 2)>> \o ConfigureLtc2991 \o ReadLtc2991)
  BY <1>1, <1>2, <1>3, LtcPrepared, Joined, JoinedReady, Continued DEF Ready
<1> QED
  BY <1>3, <1>4, <1>5, <1>6, <1>7, Joined

LEMMA BootPrepared == Prepared(Boot)
<1> DEFINE first == <<Xfer(Ina226), ReadSi569, ProgSi569, ReadSi569>>
           afe   == <<Xfer(Afe(0)), Xfer(Afe(2))>>
<1>1. Prepared(<<Select(1, 6)>> \o first)
  <2>1. Through(first, 1, 6)
    BY OpFacts, PlacesFacts, PlaceFields DEF Through, Xfer, ReadSi569, ProgSi569
  <2> QED
    BY <2>1, Opened
<1>2. Prepared(WriteLmk)
  <2>1. Through(<<Xfers(Lmk61e2, 34)>>, 1, 5)
    BY Same, PlacesFacts, PlaceFields
  <2>2. WriteLmk = <<Select(1, 5)>> \o <<Xfers(Lmk61e2, 34)>>
    BY DEF WriteLmk
  <2> QED
    BY <2>1, <2>2, Opened
<1>3. Prepared((<<Select(1, 6)>> \o afe) \o <<Select(1, Off)>>)
  <2>1. Through(afe, 1, 6)
    BY OpFacts, PlacesFacts, PlaceFields DEF Through, Xfer
  <2>2. Prepared(<<Select(1, Off)>>)
    BY Selected DEF Ready, Off
  <2> QED
    BY <2>1, <2>2, Opened, Joined
<1>4. Boot = (<<Select(1, 6)>> \o first) \o WriteLmk
               \o ((<<Select(1, 6)>> \o afe) \o <<Select(1, Off)>>) \o GetMac
  BY DEF Boot, GetMac
<1> HIDE DEF first, afe
<1> QED
  BY <1>1, <1>2, <1>3, <1>4, GetMacReady, Joined DEF Ready

---------------------------------------------------------------------------
(* The port expanders while main starts and while brdstats sweeps *)

\* A channel that the running script has connected still is: nobody else moves
\* the expanders meanwhile.
ChannelInv ==
  \A t \in {"main", "brdstats"} : Running(t) =>
    \A m \in 0 .. 1, c \in 0 .. Off :
      Connects(Script[prog[t]], pc[t], m, c) => mux[m] = c

LEMMA Programs ==
  ASSUME BoardInv, NEW t \in {"main", "brdstats"}, Running(t)
  PROVE  Prepared(Script[prog[t]]) /\ pc[t] \in Nat \ {0}
<1>1. prog[t] \in {"boot", "mac", "sweep"} /\ pc[t] \in Nat \ {0}
  BY DEF BoardInv, ProgInv, Running, Threads
<1>2. /\ Script["boot"] = Boot /\ Script["sweep"] = Sweep /\ Script["mac"] = GetMac
  BY DEF Script
<1> QED
  BY <1>1, <1>2, BootPrepared, SweepPrepared, GetMacReady DEF Ready

\* Its own operations.
LEMMA OwnStep ==
  ASSUME BoardInv, ChannelInv, NEW t \in {"main", "brdstats"}, BusStep(t),
         NEW m \in 0 .. 1, NEW c \in 0 .. Off,
         Connects(Script[prog[t]], pc[t], m, c)'
  PROVE  mux'[m] = c
<1> DEFINE s == Script[prog[t]]
           k == pc[t]
<1>1. /\ Prepared(s) /\ k \in Nat \ {0} /\ k <= Len(s) /\ Len(s) \in Nat
  <2>1. Prepared(s) /\ k \in Nat \ {0} /\ ~(k > Len(s))
    BY Programs DEF BusStep, AtEnd
  <2>2. Len(s) \in Nat
    BY <2>1 DEF Prepared
  <2> QED
    BY <2>1, <2>2
<1>2. Connects(s, k + 1, m, c)
  <2>1. prog' = prog /\ pc'[t] = k + 1
    BY DEF BusStep, BoardInv, ProgInv, Threads
  <2> QED
    BY <2>1
<1>3. s[k] = Op(t) /\ Perform(s[k])
  BY DEF BusStep, Op
<1>4. mux = [n \in 0 .. 1 |-> mux[n]]
  BY DEF BoardInv, MuxInv
<1>5. s[k] \in Operations
  BY <1>1 DEF Prepared
<1> HIDE DEF s, k
<1>6. PICK j \in 1 .. (k + 1) - 1 :
        /\ s[j] = Select(m, c)
        /\ \A i \in j + 1 .. (k + 1) - 1 : s[i].op = "select" => s[i].mux # m
  BY <1>2 DEF Connects
<1>7. CASE j = k
  BY <1>3, <1>4, <1>6, <1>7 DEF Perform, Select
<1>8. CASE j < k
  <2>1. Connects(s, k, m, c)
    <3>1. j \in 1 .. k - 1
      BY <1>1, <1>8
    <3>2. \A i \in j + 1 .. k - 1 : i \in j + 1 .. (k + 1) - 1
      BY <1>1
    <3> QED
      BY <1>6, <3>1, <3>2 DEF Connects
  <2>2. mux[m] = c
    BY <2>1 DEF ChannelInv, BusStep, s, k
  <2>3. s[k].op = "select" => s[k].mux # m
    BY <1>1, <1>6, <1>8
  <2> QED
    BY <1>3, <1>4, <1>5, <2>2, <2>3 DEF Perform
<1> QED
  BY <1>1, <1>6, <1>7, <1>8

\* What does not move the expanders, or begins every script again.
LEMMA Undisturbed ==
  ASSUME ChannelInv,
         \/ mux' = mux
         \/ \A t \in {"main", "brdstats"} : pc'[t] = 1 \/ prog'[t] = "none",
         \A t \in {"main", "brdstats"} :
           \/ prog'[t] = prog[t] /\ pc'[t] = pc[t]
           \/ pc'[t] = 1 \/ prog'[t] = "none"
  PROVE  ChannelInv'
<1> SUFFICES ASSUME NEW t \in {"main", "brdstats"}, prog'[t] # "none",
                    NEW m \in 0 .. 1, NEW c \in 0 .. Off,
                    Connects(Script[prog'[t]], pc'[t], m, c)
             PROVE  mux'[m] = c
  BY DEF ChannelInv, Running
<1>1. pc'[t] # 1
  <2>1. \A s : ~Connects(s, 1, m, c)
    BY DEF Connects
  <2> QED
    BY <2>1
<1> QED
  BY <1>1 DEF ChannelInv, Running

LEMMA NextChannel == BoardInv /\ ChannelInv /\ [Next]_vars => ChannelInv'
<1> SUFFICES ASSUME BoardInv, ChannelInv, [Next]_vars PROVE ChannelInv'
  OBVIOUS
<1>1. CASE MainBus
  <2>1. prog["brdstats"] = "none" /\ BusStep("main")
    BY <1>1 DEF BoardInv, ProgInv, MainBus
  <2>2. prog'["brdstats"] = "none"
    BY <2>1 DEF BusStep
  <2> QED
    BY <2>1, <2>2, OwnStep DEF ChannelInv, Running
<1>2. CASE SweepBus
  <2>1. prog["main"] = "none" /\ BusStep("brdstats")
    BY <1>2 DEF BoardInv, ProgInv, SweepBus, BusStep, Running
  <2>2. prog'["main"] = "none"
    BY <2>1 DEF BusStep
  <2> QED
    BY <2>1, <2>2, OwnStep DEF ChannelInv, Running
<1>3. CASE ConsoleBus
  <2>1. prog["main"] = "none" /\ prog["brdstats"] = "none" /\ prog' = prog
    BY <1>3 DEF BoardInv, ProgInv, ConsoleBus, MayRun, BusStep, Running
  <2> QED
    BY <2>1 DEF ChannelInv, Running
<1>4. CASE Reboot \/ PowerFails
  <2>1. (Restart \/ UNCHANGED <<mux, prog, pc>>)
    BY <1>4 DEF Reboot, PowerFails
  <2>2. CASE Restart
    BY <2>2, Undisturbed DEF Restart, Threads
  <2>3. CASE UNCHANGED <<mux, prog, pc>>
    BY <2>3, Undisturbed
  <2> QED
    BY <2>1, <2>2, <2>3
<1>5. CASE \/ BootEnd \/ MacBegin \/ MacEnd \/ Wake \/ SweepEnd
           \/ Choose \/ SetY \/ CommandEnd
  BY <1>5, Undisturbed DEF BootEnd, MacBegin, MacEnd, Wake, SweepEnd, CommandEnd, Choose,
     SetY, Start, Finish, BoardInv, ProgInv, Threads
<1>6. CASE \/ Realmain \/ EnterKx \/ EnterKy \/ SetX \/ WriteCycle \/ ClientSet
           \/ UNCHANGED vars
  BY <1>6, Undisturbed DEF Realmain, EnterKx, EnterKy, SetX, WriteCycle, ClientSet, vars
<1> QED
  BY <1>1, <1>2, <1>3, <1>4, <1>5, <1>6 DEF Next, Main, Brdstats, Console

LEMMA Channels == Spec => []ChannelInv
<1>1. Init => ChannelInv
  BY DEF Init, Threads, ChannelInv, Connects
<1> QED
  BY <1>1, NextChannel, Invariant, PTL DEF Spec

\* The start and the board statistics talk to the devices they mean, whichever
\* SFP slots are fitted (brdstats_push, main).
THEOREM EachItsOwn == Spec => []OwnDevice
<1>1. BoardInv /\ ChannelInv => OwnDevice
  <2> SUFFICES ASSUME BoardInv, ChannelInv, NEW t \in {"main", "brdstats"},
                      Transferring(t)
               PROVE  Answers(Op(t).dev) = {Op(t).dev} \cap Devices
    BY DEF OwnDevice
  <2> DEFINE s == Script[prog[t]]
             k == pc[t]
  <2>1. Prepared(s) /\ k \in Nat \ {0} /\ ~(k > Len(s)) /\ s[k].op = "xfer"
    BY Programs DEF Transferring, AtEnd, Op
  <2>2. k \in 1 .. Len(s)
    <3>1. Len(s) \in Nat
      BY <2>1 DEF Prepared
    <3> QED
      BY <2>1, <3>1
  <2>3. s[k].dev \in Places /\ Connects(s, k, s[k].dev.mux, s[k].dev.chan)
    <3>1. s[k] \in Operations
      BY <2>1, <2>2 DEF Prepared
    <3> QED
      BY <2>1, <2>2, <3>1 DEF Prepared, Operations
  <2>4. mux[s[k].dev.mux] = s[k].dev.chan
    <3>1. s[k].dev.mux \in 0 .. 1 /\ s[k].dev.chan \in 0 .. Off
      <4>1. \A d \in Places : d.mux \in 0 .. 1 /\ d.chan \in 0 .. 7
        BY PlaceOf
      <4>2. \A c \in 0 .. 7 : c \in 0 .. Off
        BY DEF Off
      <4> QED
        BY <2>3, <4>1, <4>2
    <3> QED
      BY <2>3, <3>1 DEF ChannelInv, Transferring
  <2> QED
    BY <2>3, <2>4, Answered DEF Op
<1> QED
  BY <1>1, Invariant, Channels, PTL

---------------------------------------------------------------------------
(* Types *)

PlVals == EeVals \cup {PlReset}

\* The pair entered, as far as the command has come.
ValueInv ==
  /\ menu = "ky" => \E k \in KxVals : want = <<k>>
  /\ menu \in {"setx", "sety", "save"} => want \in KxVals \X KyVals
  /\ menu \notin {"ky", "setx", "sety", "save"} => want = <<>>

BusTypeOK ==
  /\ mux \in [0 .. 1 -> 0 .. Off]
  /\ prog \in [Threads -> DOMAIN Script \cup {"none"}] /\ pc \in [Threads -> 1 .. 128]

SettingsTypeOK ==
  /\ eeprom \in EeVals \X EeVals /\ cycle \in {<<>>} \cup (KxVals \X KyVals)
  /\ pl \in PlVals \X PlVals
  /\ want \in {<<>>} \cup {<<k>> : k \in KxVals} \cup (KxVals \X KyVals)
  /\ swept \in BOOLEAN /\ fresh \in BOOLEAN

\* No thread runs over the end of its script.
PcInv == \A t \in Threads : pc[t] <= IF Running(t) THEN Len(Script[prog[t]]) + 1 ELSE 1

TypeInv == BusTypeOK /\ SettingsTypeOK /\ ValueInv /\ PcInv

LEMMA ScriptTypes ==
  ASSUME NEW p \in DOMAIN Script
  PROVE  /\ Script[p] \in Seq(Operations)
         /\ Len(Script[p]) \in Nat /\ Len(Script[p]) <= 127
<1>1. Prepared(EepromWrite)
  <2>1. Through(<<Xfer(Eeprom)>>, 0, 6)
    BY Same, PlacesFacts, PlaceFields DEF Xfer
  <2>2. Ready(ToEeprom, 0, 6)
    BY SelectedBoth DEF ToEeprom
  <2>3. Ready(EepromWrite, 0, 6)
    BY <2>1, <2>2, Continued DEF EepromWrite
  <2> QED
    BY <2>3 DEF Ready
<1>2. Len(Sweep) <= 127
  BY DEF Sweep, ConfigureLtc2991, ReadLtc2991, SfpStats, Ltc2977Stats
<1>3. Len(Boot) <= 127 /\ Len(EepromWrite) <= 127 /\ Len(EepromRead) <= 127
  BY BootScript, ConsoleScripts
<1>4. /\ p \in {"boot", "sweep", "mac", "save", "dump"}
      /\ Script[p] \in {Boot, Sweep, EepromRead, EepromWrite}
  BY DEF Script, GetMac
<1>5. \A s \in {Boot, Sweep, EepromRead, EepromWrite} :
        s \in Seq(Operations) /\ Len(s) <= 127
  BY <1>1, <1>2, <1>3, BootPrepared, SweepPrepared, GetMacReady DEF Prepared, Ready, GetMac
<1> QED
  BY <1>4, <1>5

\* One operation of one thread.
LEMMA BusStepType ==
  ASSUME TypeInv, NEW t \in Threads, BusStep(t)
  PROVE  BusTypeOK' /\ PcInv'
<1> DEFINE n == Len(Script[prog[t]])
           k == pc[t]
<1>1. /\ prog[t] \in DOMAIN Script /\ prog' = prog /\ pc' = [pc EXCEPT ![t] = k + 1]
      /\ k \in 1 .. 128 /\ ~(k > n) /\ Perform(Op(t))
  BY DEF TypeInv, BusTypeOK, BusStep, Running, AtEnd
<1>2. Script[prog[t]] \in Seq(Operations) /\ n \in Nat /\ n <= 127
  BY <1>1, ScriptTypes
<1>3. k \in 1 .. n /\ k + 1 \in 1 .. 128 /\ k + 1 <= n + 1
  <2> HIDE DEF n, k
  <2> QED
    BY <1>1, <1>2
<1>4. Op(t) \in Operations
  BY <1>2, <1>3 DEF Op
<1>5. mux' \in [0 .. 1 -> 0 .. Off]
  BY <1>1, <1>4 DEF TypeInv, BusTypeOK, Perform, Operations
<1>6. pc' \in [Threads -> 1 .. 128]
  <2> HIDE DEF k
  <2> QED
    BY <1>1, <1>3 DEF TypeInv, BusTypeOK
<1>7. ASSUME NEW u \in Threads
      PROVE  pc'[u] <= IF Running(u)' THEN Len(Script[prog'[u]]) + 1 ELSE 1
  <2>1. CASE u = t
    <3>1. pc'[u] = k + 1 /\ Running(u)' /\ Len(Script[prog'[u]]) = n
      BY <1>1, <2>1 DEF TypeInv, BusTypeOK, BusStep, Running
    <3> QED
      BY <1>3, <3>1
  <2>2. CASE u # t
    <3>1. pc'[u] = pc[u] /\ prog'[u] = prog[u]
      BY <1>1, <2>2 DEF TypeInv, BusTypeOK
    <3> QED
      BY <3>1 DEF TypeInv, PcInv, Running
  <2> QED
    BY <2>1, <2>2
<1> QED
  BY <1>1, <1>5, <1>6, <1>7 DEF TypeInv, BusTypeOK, PcInv

\* The start of a script, its end, and what leaves all of them alone.
LEMMA ProgStepType ==
  ASSUME TypeInv,
         \/ UNCHANGED <<prog, pc>>
         \/ \E t \in Threads : Finish(t) \/ \E p \in DOMAIN Script : Start(t, p)
  PROVE  /\ prog' \in [Threads -> DOMAIN Script \cup {"none"}]
         /\ pc' \in [Threads -> 1 .. 128]
         /\ PcInv'
<1>1. CASE UNCHANGED <<prog, pc>>
  BY <1>1 DEF TypeInv, BusTypeOK, PcInv, Running
<1>2. ASSUME NEW t \in Threads, NEW p \in DOMAIN Script \cup {"none"},
             prog' = [prog EXCEPT ![t] = p], pc' = [pc EXCEPT ![t] = 1]
      PROVE  /\ prog' \in [Threads -> DOMAIN Script \cup {"none"}]
             /\ pc' \in [Threads -> 1 .. 128]
             /\ PcInv'
  <2>1. /\ prog' \in [Threads -> DOMAIN Script \cup {"none"}]
        /\ pc' \in [Threads -> 1 .. 128]
    BY <1>2 DEF TypeInv, BusTypeOK
  <2>2. ASSUME NEW u \in Threads
        PROVE  pc'[u] <= IF Running(u)' THEN Len(Script[prog'[u]]) + 1 ELSE 1
    <3>1. CASE u = t
      <4>1. pc'[u] = 1 /\ prog'[u] = p
        BY <1>2, <3>1 DEF TypeInv, BusTypeOK
      <4>2. p # "none" => Len(Script[p]) \in Nat
        BY <1>2, ScriptTypes
      <4> QED
        BY <4>1, <4>2 DEF Running
    <3>2. CASE u # t
      <4>1. pc'[u] = pc[u] /\ prog'[u] = prog[u]
        BY <1>2, <3>2 DEF TypeInv, BusTypeOK
      <4> QED
        BY <4>1 DEF TypeInv, PcInv, Running
    <3> QED
      BY <3>1, <3>2
  <2> QED
    BY <2>1, <2>2 DEF PcInv
<1> QED
  BY <1>1, <1>2 DEF Start, Finish

LEMMA RestartType ==
  ASSUME Restart, mux' \in [0 .. 1 -> 0 .. Off], eeprom' \in EeVals \X EeVals,
         cycle' \in {<<>>} \cup (KxVals \X KyVals)
  PROVE  TypeInv'
<1>1. BusTypeOK'
  BY DEF Restart, BusTypeOK, Threads, Script
<1>2. SettingsTypeOK'
  BY DEF Restart, SettingsTypeOK, PlVals
<1>3. ValueInv'
  BY DEF Restart, ValueInv
<1>4. PcInv'
  <2>1. Len(Script["boot"]) = 15
    BY ScriptOf, BootScript
  <2> QED
    BY <2>1 DEF Restart, PcInv, Threads, Running
<1> QED
  BY <1>1, <1>2, <1>3, <1>4 DEF TypeInv

LEMMA AppendOne ==
  ASSUME NEW k, NEW l
  PROVE  Append(<<k>>, l) = <<k, l>>
<1>1. <<k>> \in Seq({k, l}) /\ <<k, l>> \in Seq({k, l}) /\ l \in {k, l}
  OBVIOUS
<1> DEFINE s == Append(<<k>>, l)
<1>2. s \in Seq({k, l}) /\ Len(s) = 2 /\ s[1] = k /\ s[2] = l
  BY <1>1, AppendProperties
<1> HIDE DEF s
<1>3. Len(<<k, l>>) = 2 /\ <<k, l>>[1] = k /\ <<k, l>>[2] = l
  OBVIOUS
<1>4. Len(s) = Len(<<k, l>>) /\ \A i \in 1 .. Len(s) : s[i] = <<k, l>>[i]
  BY <1>2, <1>3
<1>5. s = <<k, l>>
  BY <1>1, <1>2, <1>4, SeqEqual
<1> QED
  BY <1>5 DEF s

LEMMA PairWith ==
  ASSUME NEW p \in PlVals \X PlVals, NEW v \in PlVals, NEW i \in 1 .. 2
  PROVE  [p EXCEPT ![i] = v] \in PlVals \X PlVals
OBVIOUS

LEMMA RestoreType ==
  ASSUME SettingsTypeOK
  PROVE  Restore(pl) \in PlVals \X PlVals
<1>1. ReadEeprom \in EeVals \X EeVals
  BY DEF SettingsTypeOK, ReadEeprom, EeVals
<1>2. Restore(pl) = <<IF Valid(ReadEeprom[1]) THEN ReadEeprom[1] ELSE pl[1],
                      IF Valid(ReadEeprom[2]) THEN ReadEeprom[2] ELSE pl[2]>>
  BY DEF Restore
<1>3. /\ ReadEeprom[1] \in PlVals /\ ReadEeprom[2] \in PlVals
      /\ pl[1] \in PlVals /\ pl[2] \in PlVals
  BY <1>1 DEF SettingsTypeOK, PlVals
<1> QED
  BY <1>2, <1>3

LEMMA NextType == BoardInv /\ TypeInv /\ [Next]_vars => TypeInv'
<1> SUFFICES ASSUME BoardInv, TypeInv, [Next]_vars PROVE TypeInv'
  OBVIOUS
<1> USE DEF TypeInv
<1>1. CASE MainBus \/ SweepBus
  <2>1. BusTypeOK' /\ PcInv'
    BY <1>1, BusStepType DEF MainBus, SweepBus, Threads
  <2> QED
    BY <1>1, <2>1 DEF MainBus, SweepBus, SettingsTypeOK, ValueInv, settings
<1>2. CASE ConsoleBus
  <2>1. BusTypeOK' /\ PcInv'
    BY <1>2, BusStepType DEF ConsoleBus, Threads
  <2> QED
    BY <1>2, <2>1 DEF ConsoleBus, SettingsTypeOK, ValueInv
<1>3. CASE BootEnd
  <2>1. BusTypeOK' /\ PcInv'
    BY <1>3, ProgStepType DEF BootEnd, BusTypeOK, Threads
  <2> QED
    BY <1>3, <2>1, RestoreType DEF BootEnd, SettingsTypeOK, ValueInv
<1>4. CASE MacBegin \/ MacEnd \/ Wake \/ SweepEnd
  <2>1. BusTypeOK' /\ PcInv'
    BY <1>4, ProgStepType DEF MacBegin, MacEnd, Wake, SweepEnd, BusTypeOK, Threads, Script
  <2> QED
    BY <1>4, <2>1 DEF MacBegin, MacEnd, Wake, SweepEnd, SettingsTypeOK, ValueInv, settings
<1>5. CASE Realmain
  <2>1. BusTypeOK' /\ PcInv'
    BY <1>5, ProgStepType DEF Realmain, BusTypeOK
  <2> QED
    BY <1>5, <2>1 DEF BoardInv, ProgInv, Realmain, SettingsTypeOK, ValueInv, settings,
       StartupStep, Mount, Netconf, NetconfEnd, SyncNew, UnlinkNew, SyncDat, TruncateDat,
       WriteDat, NetSetup, Serve
<1>6. CASE Choose
  <2>1. BusTypeOK' /\ PcInv'
    BY <1>6, ProgStepType DEF Choose, BusTypeOK, Threads, Script
  <2> QED
    BY <1>6, <2>1 DEF Choose, SettingsTypeOK, ValueInv, settings
<1>7. CASE EnterKx \/ EnterKy
  <2>1. BusTypeOK' /\ PcInv'
    BY <1>7, ProgStepType DEF EnterKx, EnterKy, BusTypeOK
  <2>2. want' \in {<<>>} \cup {<<k>> : k \in KxVals} \cup (KxVals \X KyVals) /\ ValueInv'
    <3>1. CASE EnterKx
      BY <3>1 DEF EnterKx, SettingsTypeOK, ValueInv
    <3>2. CASE EnterKy /\ menu' = "menu"
      BY <3>2 DEF EnterKy, ValueInv
    <3>3. CASE EnterKy /\ menu' = "setx"
      <4>1. PICK k \in KxVals, l \in KyVals : want = <<k>> /\ want' = Append(want, l)
        BY <3>3 DEF EnterKy, ValueInv
      <4>2. want' = <<k, l>>
        BY <4>1, AppendOne
      <4> QED
        BY <3>3, <4>2 DEF ValueInv
    <3> QED
      BY <1>7, <3>1, <3>2, <3>3 DEF EnterKy
  <2> QED
    BY <1>7, <2>1, <2>2 DEF EnterKx, EnterKy, SettingsTypeOK
<1>8. CASE SetX
  <2>1. BusTypeOK' /\ PcInv'
    BY <1>8, ProgStepType DEF SetX, BusTypeOK
  <2>2. want[1] \in PlVals
    BY <1>8 DEF SetX, ValueInv, PlVals, EeVals
  <2>3. pl' \in PlVals \X PlVals
    BY <1>8, <2>2, PairWith DEF SetX, SettingsTypeOK
  <2> QED
    BY <1>8, <2>1, <2>3 DEF SetX, SettingsTypeOK, ValueInv
<1>9. CASE SetY
  <2>1. BusTypeOK' /\ PcInv'
    BY <1>9, ProgStepType DEF SetY, BusTypeOK, Threads, Script
  <2>2. want[2] \in PlVals
    BY <1>9 DEF SetY, ValueInv, PlVals, EeVals
  <2>3. pl' \in PlVals \X PlVals
    BY <1>9, <2>2, PairWith DEF SetY, SettingsTypeOK
  <2> QED
    BY <1>9, <2>1, <2>3 DEF SetY, SettingsTypeOK, ValueInv
<1>10. CASE CommandEnd
  <2>1. BusTypeOK' /\ PcInv'
    BY <1>10, ProgStepType DEF CommandEnd, BusTypeOK, Threads
  <2> QED
    BY <1>10, <2>1 DEF CommandEnd, SettingsTypeOK, ValueInv
<1>11. CASE Reboot
  <2>1. CASE Restart /\ UNCHANGED <<mux, eeprom, cycle>>
    BY <2>1, RestartType DEF BusTypeOK, SettingsTypeOK
  <2>2. CASE menu' = "menu" /\ UNCHANGED <<mux, prog, pc, settings, swept, fresh>>
    <3>1. BusTypeOK' /\ PcInv'
      BY <2>2, ProgStepType DEF BusTypeOK
    <3> QED
      BY <1>11, <2>2, <3>1 DEF Reboot, SettingsTypeOK, ValueInv, settings
  <2> QED
    BY <1>11, <2>1, <2>2 DEF Reboot
<1>12. CASE WriteCycle
  <2>1. BusTypeOK' /\ PcInv'
    BY <1>12, ProgStepType DEF WriteCycle, BusTypeOK
  <2>2. cycle \in EeVals \X EeVals
    BY <1>12 DEF WriteCycle, SettingsTypeOK, EeVals
  <2> QED
    BY <1>12, <2>1, <2>2 DEF WriteCycle, SettingsTypeOK, ValueInv
<1>13. CASE ClientSet
  <2>1. BusTypeOK' /\ PcInv'
    BY <1>13, ProgStepType DEF ClientSet, BusTypeOK
  <2>2. PICK i \in 1 .. 2, k \in KxVals \cup KyVals : pl' = [pl EXCEPT ![i] = k]
    BY <1>13 DEF ClientSet
  <2>3. pl' \in PlVals \X PlVals
    BY <2>2, PairWith DEF SettingsTypeOK, PlVals, EeVals
  <2> QED
    BY <1>13, <2>1, <2>3 DEF ClientSet, SettingsTypeOK, ValueInv
<1>14. CASE PowerFails
  <2>1. mux' \in [0 .. 1 -> 0 .. Off] /\ cycle' = <<>>
    BY <1>14 DEF PowerFails, Off
  <2>2. eeprom' \in EeVals \X EeVals
    <3>1. CASE eeprom' = eeprom
      BY <3>1 DEF SettingsTypeOK
    <3>2. CASE /\ cycle # <<>>
               /\ eeprom' \in {eeprom[1], cycle[1], Any} \X {eeprom[2], cycle[2], Any}
      <4>1. cycle \in KxVals \X KyVals
        BY <3>2 DEF SettingsTypeOK
      <4>2. /\ {eeprom[1], cycle[1], Any} \subseteq EeVals
            /\ {eeprom[2], cycle[2], Any} \subseteq EeVals
        BY <4>1 DEF SettingsTypeOK, EeVals
      <4> QED
        BY <3>2, <4>2
    <3> QED
      BY <1>14, <3>1, <3>2 DEF PowerFails
  <2> QED
    BY <1>14, <2>1, <2>2, RestartType DEF PowerFails
<1>15. CASE UNCHANGED vars
  BY <1>15 DEF vars, BusTypeOK, SettingsTypeOK, ValueInv, PcInv, Running, settings
<1> QED
  BY <1>1, <1>2, <1>3, <1>4, <1>5, <1>6, <1>7, <1>8, <1>9, <1>10, <1>11, <1>12, <1>13,
     <1>14, <1>15 DEF Next, Main, Brdstats, Console

\* The types of realmain.
LEMMA FreshConf ==
  /\ NoConf \in [static : BOOLEAN, addr : BOOLEAN, mac : {"zero", "eeprom", "file"}]
  /\ <<>> \in Seq(Lines) /\ Len(<<>>) <= MaxLines
BY StartupAssumption DEF NoConf

LEMMA StartupType == BoardInv /\ StartupTypeOK /\ [Next]_vars => StartupTypeOK'
<1> SUFFICES ASSUME BoardInv, StartupTypeOK, [Next]_vars PROVE StartupTypeOK'
  OBVIOUS
<1>1. CASE Realmain
  <2>1. CASE Mount \/ NetconfEnd \/ SyncNew \/ UnlinkNew \/ Serve
    BY <2>1 DEF Mount, NetconfEnd, SyncNew, UnlinkNew, Serve, StartupTypeOK, Stages
  <2>2. CASE Netconf
    <3>1. PICK l \in Lines : /\ Len(lines) < MaxLines /\ lines' = Append(lines, l)
                             /\ conf' = ParseLine(conf, l)
      BY <2>2 DEF Netconf
    <3>2. lines' \in Seq(Lines) /\ Len(lines') <= MaxLines
      BY <3>1, StartupAssumption DEF StartupTypeOK
    <3>3. conf' \in [static : BOOLEAN, addr : BOOLEAN, mac : {"zero", "eeprom", "file"}]
      BY <3>1 DEF StartupTypeOK, ParseLine
    <3> QED
      BY <2>2, <3>2, <3>3 DEF Netconf, StartupTypeOK, Stages
  <2>3. CASE SyncDat \/ TruncateDat \/ WriteDat
    BY <2>3 DEF SyncDat, TruncateDat, WriteDat, StartupTypeOK, Stages, Files
  <2>4. CASE NetSetup
    BY <2>4, FreshConf DEF NetSetup, StartupTypeOK, Stages
  <2> QED
    BY <1>1, <2>1, <2>2, <2>3, <2>4 DEF Realmain, StartupStep
<1>2. CASE MacEnd
  BY <1>2 DEF MacEnd, Hwaddr, StartupTypeOK, Stages
<1>3. CASE BootEnd
  BY <1>3 DEF BootEnd, StartupTypeOK, Stages
<1>4. CASE Reboot \/ PowerFails
  <2>1. CASE Restart
    BY <2>1, FreshConf DEF Restart, Reset, StartupTypeOK, Stages
  <2>2. CASE UNCHANGED startupVars
    BY <2>2 DEF startupVars, StartupTypeOK
  <2> QED
    BY <1>4, <2>1, <2>2 DEF Reboot, PowerFails
<1>5. CASE UNCHANGED startupVars
  BY <1>5 DEF startupVars, StartupTypeOK
<1> QED
  BY <1>1, <1>2, <1>3, <1>4, <1>5 DEF Next, Main, Brdstats, Console, MainBus, MacBegin,
     Wake, SweepBus, SweepEnd, Choose, EnterKx, EnterKy, SetX, SetY, ConsoleBus, CommandEnd,
     WriteCycle, ClientSet, vars

LEMMA Types == Spec => [](TypeInv /\ StartupTypeOK)
<1>1. Init => TypeInv /\ StartupTypeOK
  <2> SUFFICES ASSUME Init PROVE TypeInv /\ StartupTypeOK
    OBVIOUS
  <2>1. BusTypeOK
    BY DEF Init, BusTypeOK, Threads, Script, Off
  <2>2. SettingsTypeOK
    BY DEF Init, SettingsTypeOK, PlVals, EeVals
  <2>3. ValueInv
    BY DEF Init, ValueInv
  <2>4. PcInv
    <3>1. Len(Script["boot"]) = 15
      BY ScriptOf, BootScript
    <3> QED
      BY <3>1 DEF Init, PcInv, Threads, Running
  <2>5. StartupTypeOK
    BY FreshConf DEF Init, StartupInit, StartupTypeOK, Stages
  <2> QED
    BY <2>1, <2>2, <2>3, <2>4, <2>5 DEF TypeInv
<1> QED
  BY <1>1, NextType, StartupType, Invariant, PTL DEF Spec

\* The values in the registers, in the EEPROM and on the way between them, and
\* where every thread is (set_kx_ky_console, sdcard_netconf, brdstats_push).
THEOREM TypeCorrect == Spec => []TypeOK
<1>1. BoardInv /\ TypeInv /\ StartupTypeOK => TypeOK
  BY DEF BoardInv, ProgInv, TypeInv, BusTypeOK, SettingsTypeOK, PlVals, TypeOK
<1> QED
  BY <1>1, Types, Invariant, PTL

---------------------------------------------------------------------------
(* What the lines of NET.CNF mean, taken in their order *)

ModeLines == {"dhcp yes", "dhcp no", "addr", "addr bad"}
HwLines   == {"hwaddr", "hwaddr full", "hwaddr bad"}

LastIn(s, K) ==
  {i \in 1 .. Len(s) : s[i] \in K /\ \A j \in 1 .. Len(s) : s[j] \in K => j <= i}

StaticIn(s) == \E i \in LastIn(s, ModeLines) : s[i] # "dhcp yes"
AddrIn(s)   == \E i \in 1 .. Len(s) : s[i] = "addr"
MacIn(s)    == IF LastIn(s, HwLines) = {} THEN "zero"
               ELSE IF \E i \in LastIn(s, HwLines) : s[i] = "hwaddr full" THEN "file"
               ELSE "eeprom"

LEMMA AppendFacts ==
  ASSUME NEW s \in Seq(Lines), NEW l \in Lines
  PROVE  /\ Len(s) \in Nat /\ Len(Append(s, l)) = Len(s) + 1
         /\ \A i \in 1 .. Len(s) : Append(s, l)[i] = s[i]
         /\ Append(s, l)[Len(s) + 1] = l
OBVIOUS

\* A line of a kind is the last of its kind, and changes nothing for others.
LEMMA LastAppend ==
  ASSUME NEW s \in Seq(Lines), NEW l \in Lines, NEW K
  PROVE  LastIn(Append(s, l), K) = IF l \in K THEN {Len(s) + 1} ELSE LastIn(s, K)
<1> DEFINE t == Append(s, l)
           n == Len(s)
<1>1. /\ n \in Nat /\ Len(t) = n + 1 /\ t[n + 1] = l
      /\ \A i \in 1 .. n : t[i] = s[i]
  BY AppendFacts
<1> HIDE DEF t, n
<1>2. CASE l \in K
  BY <1>1, <1>2 DEF LastIn, t
<1>3. CASE l \notin K
  <2>1. \A i \in 1 .. n + 1 : t[i] \in K <=> i \in 1 .. n /\ s[i] \in K
    BY <1>1, <1>3
  <2>2. ASSUME NEW i \in 1 .. n
        PROVE  (\A j \in 1 .. n + 1 : t[j] \in K => j <= i)
                 <=> (\A j \in 1 .. n : s[j] \in K => j <= i)
    BY <1>1, <2>1
  <2>3. LastIn(t, K) = {i \in 1 .. n + 1 : /\ t[i] \in K
                                           /\ \A j \in 1 .. n + 1 : t[j] \in K => j <= i}
    BY <1>1 DEF LastIn
  <2>4. LastIn(s, K) = {i \in 1 .. n : s[i] \in K /\ \A j \in 1 .. n : s[j] \in K => j <= i}
    BY DEF LastIn, n
  <2>5. \A i \in 1 .. n : i \in 1 .. n + 1
    BY <1>1
  <2>6. LastIn(t, K) = LastIn(s, K)
    BY <2>1, <2>2, <2>3, <2>4, <2>5
  <2> QED
    BY <1>3, <2>6 DEF t
<1> QED
  BY <1>2, <1>3 DEF n

LEMMA MeaningOfNext ==
  ASSUME NEW s \in Seq(Lines), NEW l \in Lines
  PROVE  /\ StaticIn(Append(s, l)) <=>
              IF l \in ModeLines THEN l # "dhcp yes" ELSE StaticIn(s)
         /\ AddrIn(Append(s, l)) <=> l = "addr" \/ AddrIn(s)
         /\ l \notin HwLines => MacIn(Append(s, l)) = MacIn(s)
<1>1. StaticIn(Append(s, l)) <=> IF l \in ModeLines THEN l # "dhcp yes" ELSE StaticIn(s)
  <2>1. CASE l \in ModeLines
    <3>1. LastIn(Append(s, l), ModeLines) = {Len(s) + 1}
      BY <2>1, LastAppend
    <3>2. StaticIn(Append(s, l)) <=> Append(s, l)[Len(s) + 1] # "dhcp yes"
      BY <3>1 DEF StaticIn
    <3> QED
      BY <2>1, <3>2, AppendFacts
  <2>2. CASE l \notin ModeLines
    <3>1. LastIn(Append(s, l), ModeLines) = LastIn(s, ModeLines)
      BY <2>2, LastAppend
    <3>2. \A i \in LastIn(s, ModeLines) : Append(s, l)[i] = s[i]
      BY AppendFacts DEF LastIn
    <3> QED
      BY <2>2, <3>1, <3>2 DEF StaticIn
  <2> QED
    BY <2>1, <2>2
<1>2. AddrIn(Append(s, l)) <=> l = "addr" \/ AddrIn(s)
  <2> DEFINE t == Append(s, l)
             n == Len(s)
  <2>1. /\ n \in Nat /\ Len(t) = n + 1 /\ t[n + 1] = l
        /\ \A i \in 1 .. n : t[i] = s[i]
    BY AppendFacts
  <2> HIDE DEF t, n
  <2>2. (\E i \in 1 .. n + 1 : t[i] = "addr")
          <=> l = "addr" \/ \E i \in 1 .. n : s[i] = "addr"
    <3>1. n + 1 \in 1 .. n + 1 /\ \A i \in 1 .. n : i \in 1 .. n + 1
      BY <2>1
    <3>2. \A i \in 1 .. n + 1 : i = n + 1 \/ i \in 1 .. n
      BY <2>1
    <3> QED
      BY <2>1, <3>1, <3>2
  <2> QED
    BY <2>1, <2>2 DEF AddrIn, t, n
<1>3. l \notin HwLines => MacIn(Append(s, l)) = MacIn(s)
  <2> SUFFICES ASSUME l \notin HwLines PROVE MacIn(Append(s, l)) = MacIn(s)
    OBVIOUS
  <2>1. LastIn(Append(s, l), HwLines) = LastIn(s, HwLines)
    BY LastAppend
  <2>2. \A i \in LastIn(s, HwLines) : Append(s, l)[i] = s[i]
    BY AppendFacts DEF LastIn
  <2> QED
    BY <2>1, <2>2 DEF MacIn
<1> QED
  BY <1>1, <1>2, <1>3

LEMMA MacOfLast ==
  ASSUME NEW s \in Seq(Lines), s # <<>>, s[Len(s)] \in HwLines
  PROVE  MacIn(s) = IF s[Len(s)] = "hwaddr full" THEN "file" ELSE "eeprom"
<1>1. Len(s) \in Nat \ {0}
  BY EmptySeq
<1>2. LastIn(s, HwLines) = {Len(s)}
  BY <1>1 DEF LastIn
<1> QED
  BY <1>2 DEF MacIn

\* As far as the lines have been read; the EEPROM is still to be asked for the
\* last of them while stage is "mac".
ConfInv ==
  /\ stage \in {"boot", "card"} => conf = NoConf /\ lines = <<>>
  /\ stage \in {"lines", "mac", "new"} =>
       (conf.static <=> StaticIn(lines)) /\ (conf.addr <=> AddrIn(lines))
  /\ stage \in {"lines", "new"} => conf.mac = MacIn(lines)
  /\ stage = "mac" => lines # <<>> /\ lines[Len(lines)] \in HwLines

LEMMA NetconfConf ==
  ASSUME StartupTypeOK, ConfInv, Netconf
  PROVE  ConfInv'
<1>1. PICK l \in Lines :
        /\ lines' = Append(lines, l) /\ conf' = ParseLine(conf, l)
        /\ stage' = IF l \in HwLines THEN "mac" ELSE "lines"
  BY DEF Netconf, HwLines
<1>2. /\ lines \in Seq(Lines)
      /\ conf \in [static : BOOLEAN, addr : BOOLEAN, mac : {"zero", "eeprom", "file"}]
      /\ conf.static <=> StaticIn(lines)
      /\ conf.addr <=> AddrIn(lines)
      /\ conf.mac = MacIn(lines)
  BY DEF StartupTypeOK, ConfInv, Netconf
<1>3. /\ StaticIn(lines') <=> IF l \in ModeLines THEN l # "dhcp yes" ELSE StaticIn(lines)
      /\ AddrIn(lines') <=> l = "addr" \/ AddrIn(lines)
      /\ l \notin HwLines => MacIn(lines') = MacIn(lines)
  BY <1>1, <1>2, MeaningOfNext
<1>4. /\ conf'.static <=> IF l \in ModeLines THEN l # "dhcp yes" ELSE StaticIn(lines)
      /\ conf'.addr <=> l = "addr" \/ AddrIn(lines)
      /\ conf'.mac = MacIn(lines)
  BY <1>1, <1>2 DEF ParseLine, ModeLines
<1>5. lines' # <<>> /\ lines'[Len(lines')] = l
  BY <1>1, <1>2, AppendFacts
<1>6. (conf'.static <=> StaticIn(lines')) /\ (conf'.addr <=> AddrIn(lines'))
  BY <1>3, <1>4
<1> QED
  BY <1>1, <1>3, <1>4, <1>5, <1>6 DEF ConfInv

\* The EEPROM has answered whenever its address was asked for.
LEMMA MacAnswered ==
  ASSUME BoardInv, ChannelInv, TypeInv, MacEnd
  PROVE  Eeprom \in Answers(Eeprom)
<1>1. Running("main") /\ prog["main"] = "mac" /\ Script[prog["main"]] = GetMac
  <2>1. prog["main"] = "mac"
    BY DEF BoardInv, ProgInv, MacEnd, Hwaddr, Running
  <2>2. Script["mac"] = GetMac
    BY DEF Script
  <2> QED
    BY <2>1, <2>2 DEF Running
<1>2. pc["main"] = Len(GetMac) + 1
  <2> DEFINE n == Len(Script[prog["main"]])
  <2>1. n = Len(GetMac) /\ n \in Nat
    BY <1>1, GetMacReady DEF Ready, Prepared
  <2>2. pc["main"] <= n + 1
    BY <1>1 DEF TypeInv, PcInv, Threads
  <2>3. pc["main"] > n
    BY DEF MacEnd, AtEnd
  <2>4. pc["main"] \in Nat
    BY DEF TypeInv, BusTypeOK, Threads
  <2> HIDE DEF n
  <2>5. pc["main"] = n + 1
    BY <2>1, <2>2, <2>3, <2>4
  <2> QED
    BY <2>1, <2>5
<1>3. mux[0] = 6
  <2>1. 6 \in 0 .. Off
    BY DEF Off
  <2> QED
    BY <1>1, <1>2, <2>1, GetMacReady DEF Ready, ChannelInv
<1> QED
  BY <1>3, EepromAlone

LEMMA HwaddrConf ==
  ASSUME StartupTypeOK, ConfInv, Hwaddr(TRUE)
  PROVE  ConfInv'
<1>1. MacIn(lines) = IF lines[Len(lines)] = "hwaddr full" THEN "file" ELSE "eeprom"
  BY MacOfLast DEF StartupTypeOK, ConfInv, Hwaddr
<1>2. /\ conf'.mac = MacIn(lines) /\ conf'.static = conf.static /\ conf'.addr = conf.addr
      /\ stage' = "lines" /\ lines' = lines
  BY <1>1 DEF StartupTypeOK, Hwaddr
<1> QED
  BY <1>2 DEF ConfInv, Hwaddr

LEMMA NextConf ==
  BoardInv /\ ChannelInv /\ TypeInv /\ StartupTypeOK /\ ConfInv /\ [Next]_vars => ConfInv'
<1> SUFFICES ASSUME BoardInv, ChannelInv, TypeInv, StartupTypeOK, ConfInv, [Next]_vars
             PROVE  ConfInv'
  OBVIOUS
<1>1. CASE Realmain
  <2>1. CASE Mount
    <3>1. /\ ~StaticIn(<<>>) /\ ~AddrIn(<<>>) /\ MacIn(<<>>) = "zero"
      <4>1. \A K : LastIn(<<>>, K) = {}
        BY DEF LastIn
      <4>2. ~AddrIn(<<>>)
        BY DEF AddrIn
      <4> QED
        BY <4>1, <4>2 DEF StaticIn, MacIn
    <3>2. ~NoConf.static /\ ~NoConf.addr /\ NoConf.mac = "zero"
      BY DEF NoConf
    <3>3. conf' = NoConf /\ lines' = <<>> /\ stage' \in {"lines", "new", "net"}
      BY <2>1 DEF Mount, ConfInv
    <3> QED
      BY <3>1, <3>2, <3>3 DEF ConfInv
  <2>2. CASE NetconfEnd \/ SyncNew \/ UnlinkNew \/ SyncDat \/ TruncateDat \/ WriteDat
             \/ NetSetup \/ Serve
    BY <2>2 DEF NetconfEnd, SyncNew, UnlinkNew, SyncDat, TruncateDat, WriteDat,
       NetSetup, Serve,
       ConfInv
  <2> QED
    BY <1>1, <2>1, <2>2, NetconfConf DEF Realmain, StartupStep
<1>2. CASE MacEnd
  <2>1. Hwaddr(TRUE)
    BY <1>2, MacAnswered DEF MacEnd, Hwaddr
  <2> QED
    BY <2>1, HwaddrConf
<1>3. CASE BootEnd
  BY <1>3 DEF BootEnd, ConfInv
<1>4. CASE Reboot \/ PowerFails
  <2>1. CASE Restart
    BY <2>1 DEF Restart, Reset, ConfInv
  <2>2. CASE UNCHANGED startupVars
    BY <2>2 DEF startupVars, ConfInv
  <2> QED
    BY <1>4, <2>1, <2>2 DEF Reboot, PowerFails
<1>5. CASE UNCHANGED startupVars
  BY <1>5 DEF startupVars, ConfInv
<1> QED
  BY <1>1, <1>2, <1>3, <1>4, <1>5 DEF Next, Main, Brdstats, Console, MainBus, MacBegin,
     Wake, SweepBus, SweepEnd, Choose, EnterKx, EnterKy, SetX, SetY, ConsoleBus, CommandEnd,
     WriteCycle, ClientSet, vars

\* NET.CNF means what its lines say, in whatever order they stand, and a hwaddr
\* line never leaves the board without an address (sdcard_netconf).
THEOREM AsWritten == Spec => []ConfigAsWritten
<1>1. Init => ConfInv
  BY DEF Init, StartupInit, ConfInv
<1>2. StartupTypeOK /\ ConfInv => ConfigAsWritten
  <2> SUFFICES ASSUME StartupTypeOK, ConfInv PROVE ConfigAsWritten
    OBVIOUS
  <2>1. DOMAIN lines = 1 .. Len(lines)
    BY DEF StartupTypeOK
  <2>2. Last(Says) = LastIn(lines, ModeLines)
    BY <2>1 DEF Last, Says, LastIn, ModeLines
  <2>3. Last(IsHw) = LastIn(lines, HwLines)
    BY <2>1 DEF Last, IsHw, LastIn, HwLines
  <2> SUFFICES ASSUME stage \in {"lines", "new"}
               PROVE  /\ conf.static = \E i \in Last(Says) : lines[i] # "dhcp yes"
                      /\ conf.addr = \E i \in DOMAIN lines : lines[i] = "addr"
                      /\ conf.mac = IF Last(IsHw) = {} THEN "zero"
                                    ELSE IF \E i \in Last(IsHw) : lines[i] = "hwaddr full"
                                    THEN "file"
                                    ELSE "eeprom"
    BY DEF ConfigAsWritten
  <2>4. conf.static \in BOOLEAN /\ conf.addr \in BOOLEAN
    BY DEF StartupTypeOK
  <2>5. conf.static <=> \E i \in Last(Says) : lines[i] # "dhcp yes"
    BY <2>2 DEF ConfInv, StaticIn
  <2>6. conf.addr <=> \E i \in DOMAIN lines : lines[i] = "addr"
    BY <2>1 DEF ConfInv, AddrIn
  <2>7. conf.mac = IF Last(IsHw) = {} THEN "zero"
                   ELSE IF \E i \in Last(IsHw) : lines[i] = "hwaddr full" THEN "file"
                   ELSE "eeprom"
    BY <2>3 DEF ConfInv, MacIn
  <2> QED
    BY <2>4, <2>5, <2>6, <2>7
<1> QED
  BY <1>1, <1>2, NextConf, Invariant, Channels, Types, PTL DEF Spec
=============================================================================
