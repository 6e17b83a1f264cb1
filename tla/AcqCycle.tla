------------------------------ MODULE AcqCycle ------------------------------
(***************************************************************************)
(* What the trigger logic promises to whoever reads triggered data: an     *)
(* acquisition is one strict cycle.  A trigger is accepted only when the   *)
(* board is ready; it makes one capture; the capture is counted once; and  *)
(* no other trigger is accepted before the software has acknowledged it.   *)
(*                                                                         *)
(* TrigLogic (the logic of trig_logic.vhd, clock by clock) implements it   *)
(* under the mapping given there.                                          *)
(***************************************************************************)
EXTENDS Naturals

CONSTANT CountMod   \* the trigger counter counts modulo this, at least 2

VARIABLES phase,    \* "ready", "capturing" or "captured"
          count     \* captures counted so far

cycleVars == <<phase, count>>

Succ(n) == IF n = CountMod - 1 THEN 0 ELSE n + 1

Init == phase = "ready" /\ count = 0

Accept   == phase = "ready"     /\ phase' = "capturing" /\ UNCHANGED count
Complete == phase = "capturing" /\ phase' = "captured"  /\ count' = Succ(count)
Release  == phase = "captured"  /\ phase' = "ready"     /\ UNCHANGED count

Next == Accept \/ Complete \/ Release

Spec == Init /\ [][Next]_cycleVars
=============================================================================
