------------------------------- MODULE Board --------------------------------
(***************************************************************************)
(* The board from power-on: main and realmain, then the board statistics   *)
(* (brdstats.c) and the console (console.c) on the one I2C bus, and Kx and *)
(* Ky, which live in registers of the programmable logic, in the EEPROM    *)
(* and in what the console prints.                                         *)
(*                                                                         *)
(* The console has the lowest priority: it runs when brdstats sleeps or    *)
(* waits for psc_send, and brdstats can start between any two of its       *)
(* steps.  A transfer is one step: what happens when brdstats preempts the *)
(* console inside one, on the driver instance they share, is not modelled. *)
(* The other threads do not touch the bus.                                 *)
(***************************************************************************)
EXTENDS I2cBus, Startup

CONSTANTS
  KxVals, KyVals,       \* what is entered or sent for Kx, Ky
  Zero, Erased,         \* the words 0 and 16#FFFFFFFF
  Any,                  \* any other word: what the power failed on, what nothing has set
  PlReset               \* the registers' value in the bitstream

ASSUME BoardAssumption ==
  /\ Erased \notin KxVals \cup KyVals /\ Any \notin {Zero, Erased}
  /\ PlReset \notin KxVals \cup KyVals \cup {Zero, Erased, Any}

VARIABLES
  prog, pc,             \* per thread: the script it executes, or none, and where
  eeprom,               \* Kx and Ky in the EEPROM,
  cycle,                \* and the pair it is writing into its cells, or <<>>
  pl,                   \* KX_REG, KY_REG
  menu,                 \* the console: where it waits or what it does
  want,                 \* the pair entered
  swept,                \* history: brdstats has run since the console's command began
  fresh                 \* history: nobody has set Kx or Ky since the start

settings == <<eeprom, cycle, pl, want>>
vars == <<mux, startupVars, prog, pc, settings, menu, swept, fresh>>

Threads == {"main", "brdstats", "console"}
EeVals  == KxVals \cup KyVals \cup {Erased, Any}

Running(t) == prog[t] # "none"
Op(t)      == Script[prog[t]][pc[t]]
AtEnd(t)   == pc[t] > Len(Script[prog[t]])
Reached(t) == Op(t).op = "xfer" /\ Op(t).dev \in Answers(Op(t).dev) /\ cycle = <<>>

Start(t, s) == prog' = [prog EXCEPT ![t] = s] /\ pc' = [pc EXCEPT ![t] = 1]
Finish(t)   == prog' = [prog EXCEPT ![t] = "none"] /\ pc' = [pc EXCEPT ![t] = 1]

BusStep(t) ==
  /\ Running(t) /\ ~AtEnd(t)
  /\ Perform(Op(t))
  /\ pc' = [pc EXCEPT ![t] = @ + 1]
  /\ UNCHANGED prog

---------------------------------------------------------------------------
(* main and realmain *)

\* ReadEEPROMHardwareSettings: 0 and the erased value are not taken.  Nothing
\* fills the buffer when the EEPROM does not answer.
ReadEeprom      == IF Eeprom \in Answers(Eeprom) /\ cycle = <<>> THEN eeprom ELSE <<Any, Any>>
Valid(v)        == v \notin {Zero, Erased}
\* Mutated form: one test for both.
RestoreBoth(old) == IF Valid(ReadEeprom[1]) THEN ReadEeprom ELSE old
Restore(old)    == [i \in 1 .. 2 |-> IF Valid(ReadEeprom[i]) THEN ReadEeprom[i] ELSE old[i]]

MainBus ==
  /\ stage \in {"boot", "mac"} /\ BusStep("main")
  /\ UNCHANGED <<startupVars, settings, menu, swept, fresh>>

\* The settings are in the registers before the threads start.
BootEnd ==
  /\ stage = "boot" /\ AtEnd("main")
  /\ pl' = Restore(pl)
  /\ stage' = "card" /\ Finish("main")
  /\ UNCHANGED <<mux, conf, lines, cardError, new, dat, found,
                 eeprom, cycle, want, menu, swept, fresh>>

MacBegin ==
  /\ stage = "mac" /\ ~Running("main") /\ Start("main", "mac")
  /\ UNCHANGED <<mux, startupVars, settings, menu, swept, fresh>>

MacEnd ==
  /\ Running("main") /\ AtEnd("main") /\ Hwaddr(Eeprom \in Answers(Eeprom))
  /\ Finish("main")
  /\ UNCHANGED <<mux, settings, menu, swept, fresh>>

Realmain ==
  /\ StartupStep
  /\ menu' = IF stage' = "ready" THEN "menu" ELSE menu     \* on_startup
  /\ UNCHANGED <<mux, prog, pc, settings, swept, fresh>>

Main == MainBus \/ BootEnd \/ MacBegin \/ MacEnd \/ Realmain

---------------------------------------------------------------------------
(* brdstats_push *)

Wake ==
  /\ stage = "ready" /\ ~Running("brdstats") /\ Start("brdstats", "sweep")
  /\ swept' = TRUE
  /\ UNCHANGED <<mux, startupVars, settings, menu, fresh>>

SweepBus ==
  /\ BusStep("brdstats")
  /\ UNCHANGED <<startupVars, settings, menu, swept, fresh>>

\* Mutated form: no delay.
SweepEndAgain ==
  /\ Running("brdstats") /\ AtEnd("brdstats") /\ Start("brdstats", "sweep")
  /\ UNCHANGED <<mux, startupVars, settings, menu, swept, fresh>>

\* psc_send, then the delay.
SweepEnd ==
  /\ Running("brdstats") /\ AtEnd("brdstats") /\ Finish("brdstats")
  /\ UNCHANGED <<mux, startupVars, settings, menu, swept, fresh>>

Brdstats == Wake \/ SweepBus \/ SweepEnd

---------------------------------------------------------------------------
(* The console *)

\* Mutated form: the priorities are equal.
MayRunAny == TRUE

\* brdstats holds the processor while it sweeps: nothing in it blocks.
MayRun == ~Running("brdstats")

\* exec_menu: the delay before it is longer than a write cycle.
Choose ==
  /\ MayRun /\ menu = "menu" /\ cycle = <<>>
  /\ \/ menu' \in {"kx", "reboot"} /\ UNCHANGED <<prog, pc>>
     \/ menu' = "dump" /\ Start("console", "dump")
  /\ swept' = FALSE
  /\ UNCHANGED <<mux, startupVars, settings, fresh>>

\* set_kx_ky_console: the first number, and the second; either may not be one.
EnterKx ==
  /\ MayRun /\ menu = "kx"
  /\ \/ menu' = "ky" /\ \E k \in KxVals : want' = <<k>>
     \/ menu' = "menu" /\ UNCHANGED want
  /\ UNCHANGED <<mux, startupVars, prog, pc, eeprom, cycle, pl, swept, fresh>>

EnterKy ==
  /\ MayRun /\ menu = "ky"
  /\ \/ menu' = "setx" /\ \E k \in KyVals : want' = Append(want, k)
     \/ menu' = "menu" /\ want' = <<>>
  /\ UNCHANGED <<mux, startupVars, prog, pc, eeprom, cycle, pl, swept, fresh>>

SetX ==
  /\ MayRun /\ menu = "setx" /\ menu' = "sety"
  /\ pl' = [pl EXCEPT ![1] = want[1]] /\ fresh' = FALSE
  /\ UNCHANGED <<mux, startupVars, prog, pc, eeprom, cycle, want, swept>>

SetY ==
  /\ MayRun /\ menu = "sety" /\ menu' = "save" /\ Start("console", "save")
  /\ pl' = [pl EXCEPT ![2] = want[2]] /\ fresh' = FALSE
  /\ swept' = FALSE
  /\ UNCHANGED <<mux, startupVars, eeprom, cycle, want>>

\* The EEPROM takes the bytes and writes them when the transfer has ended.
ConsoleBus ==
  /\ MayRun /\ BusStep("console")
  /\ cycle' = IF menu = "save" /\ Reached("console") THEN want ELSE cycle
  /\ UNCHANGED <<startupVars, eeprom, pl, want, menu, swept, fresh>>

WriteCycle ==
  /\ cycle # <<>>
  /\ eeprom' = cycle /\ cycle' = <<>>
  /\ UNCHANGED <<mux, startupVars, prog, pc, pl, menu, want, swept, fresh>>

\* "Saved Kx/Ky to EEPROM", or the dump.
CommandEnd ==
  /\ MayRun /\ Running("console") /\ AtEnd("console") /\ Finish("console")
  /\ menu' = "menu" /\ want' = <<>>
  /\ UNCHANGED <<mux, startupVars, eeprom, cycle, pl, swept, fresh>>

Restart == /\ Reset /\ UNCHANGED <<new, dat>>
           /\ prog' = [t \in Threads |-> IF t = "main" THEN "boot" ELSE "none"]
           /\ pc' = [t \in Threads |-> 1]
           /\ pl' = <<PlReset, PlReset>> /\ want' = <<>>
           /\ menu' = "off" /\ swept' = FALSE /\ fresh' = TRUE

\* The port expanders are not reset with the processor.
Reboot ==
  /\ MayRun /\ menu = "reboot"
  /\ \/ Restart /\ UNCHANGED <<mux, eeprom, cycle>>
     \/ /\ menu' = "menu"
        /\ UNCHANGED <<mux, startupVars, prog, pc, settings, swept, fresh>>

Console == Choose \/ EnterKx \/ EnterKy \/ SetX \/ SetY \/ ConsoleBus \/ CommandEnd \/ Reboot

---------------------------------------------------------------------------
(* The surroundings *)

\* KX_MSG and KY_MSG of a client, in its handler thread.
ClientSet ==
  /\ stage = "ready"
  /\ \E i \in 1 .. 2 : \E k \in IF i = 1 THEN KxVals ELSE KyVals : pl' = [pl EXCEPT ![i] = k]
  /\ fresh' = FALSE
  /\ UNCHANGED <<mux, startupVars, prog, pc, eeprom, cycle, menu, want, swept>>

\* Each of the two values is the old one, the new one, or neither.
PowerFails ==
  /\ Restart
  /\ mux' = [m \in 0 .. 1 |-> Off]
  /\ cycle' = <<>>
  /\ \/ cycle = <<>> /\ UNCHANGED eeprom
     \/ cycle # <<>> /\ eeprom' \in {eeprom[1], cycle[1], Any} \X {eeprom[2], cycle[2], Any}

Init ==
  /\ mux = [m \in 0 .. 1 |-> Off] /\ StartupInit
  /\ prog = [t \in Threads |-> IF t = "main" THEN "boot" ELSE "none"]
  /\ pc = [t \in Threads |-> 1]
  /\ eeprom = <<Erased, Erased>> /\ cycle = <<>> /\ pl = <<PlReset, PlReset>>
  /\ menu = "off" /\ want = <<>> /\ swept = FALSE /\ fresh = TRUE

Next == Main \/ Brdstats \/ Console \/ WriteCycle \/ ClientSet \/ PowerFails

\* The processor runs what can run; brdstats sleeps a second between two sweeps,
\* so that the console comes to its turn again and again.
Spec == /\ Init /\ [][Next]_vars
        /\ WF_vars(Main) /\ WF_vars(SweepBus \/ SweepEnd)
        /\ SF_vars(ConsoleBus \/ CommandEnd)

---------------------------------------------------------------------------
TypeOK ==
  /\ StartupTypeOK
  /\ mux \in [0 .. 1 -> 0 .. Off]
  /\ prog \in [Threads -> DOMAIN Script \cup {"none"}] /\ pc \in [Threads -> 1 .. 128]
  /\ eeprom \in EeVals \X EeVals /\ cycle \in {<<>>} \cup (KxVals \X KyVals)
  /\ pl \in (EeVals \cup {PlReset}) \X (EeVals \cup {PlReset})
  /\ menu \in {"off", "menu", "kx", "ky", "setx", "sety", "save", "dump", "reboot"}
  /\ want \in {<<>>} \cup {<<k>> : k \in KxVals} \cup (KxVals \X KyVals)
  /\ swept \in BOOLEAN /\ fresh \in BOOLEAN

Transferring(t) == Running(t) /\ ~AtEnd(t) /\ Op(t).op = "xfer"

\* Every transfer of the start and of the board statistics is answered by the
\* device it is meant for, by no other, and by none only in an empty SFP slot -
\* wherever a sweep has cut into a command of the console, and whatever
\* channels a restart has left connected.
OwnDevice ==
  \A t \in {"main", "brdstats"} :
    Transferring(t) => Answers(Op(t).dev) = {Op(t).dev} \cap Devices

\* A command of the console that a sweep has cut into may find no EEPROM, but
\* its bytes never go to the memory of an SFP module, which has the same address.
NoStrayTransfer ==
  Transferring("console") /\ MayRun =>
    \/ Answers(Op("console").dev) = {Eeprom}
    \/ Answers(Op("console").dev) = {} /\ swept

\* When the console says that Kx and Ky are saved they are in the EEPROM -
\* unless brdstats has run since the command began to save: then they may not be.
SavedUnlessSwept ==
  [][menu = "save" /\ CommandEnd => swept \/ want \in {eeprom, cycle}]_vars

\* Until somebody sets them, Kx and Ky are what the EEPROM holds, each of them
\* that is valid, after any history of restarts and power failures.
SettingsRestored ==
  fresh /\ stage # "boot" =>
    \A i \in 1 .. 2 : pl[i] = IF Valid(eeprom[i]) THEN eeprom[i] ELSE PlReset

\* A start that is not cut off ends: with the servers, or without a socket -
\* whatever is on the card and whatever fails.
StartEnds ==
  <>[][~PowerFails /\ ~Reboot]_vars => <>(stage \in {"ready", "stuck"})

\* brdstats, though it goes first, does not keep the console from finishing.
SaveEnds == menu = "save" ~> menu # "save"
=============================================================================
