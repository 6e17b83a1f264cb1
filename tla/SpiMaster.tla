----------------------------- MODULE SpiMaster -----------------------------
(***************************************************************************)
(* The SPI masters of the programmable logic.  A write of the register     *)
(* strobes: the word is latched, and the state machine, which runs on a    *)
(* slower clock, takes it over when it is idle.  The latch is cleared by   *)
(* the state machine, and while the clear is held strobes are lost:        *)
(* spi_pe43712 and spi_ad9510 hold it from the start of a transfer until   *)
(* they are idle again; ltc2195_spi and ltc2986_spi only at the end, so    *)
(* that a word strobed during a transfer is cleared unsent.                *)
(***************************************************************************)
EXTENDS Naturals

CONSTANTS
  ClearsAtStart,      \* which of the two kinds, a Boolean
  Words, NoWord       \* what is written; the cleared word register

VARIABLE m            \* state, latch (str_lat, adc_we_lat, we_lat), data, treg

Ready    == [state |-> "idle", latch |-> FALSE, data |-> NoWord, treg |-> NoWord]

\* str_lat_clr, adc_we_lat_clr, we_lat_clr
Clearing == IF ClearsAtStart THEN m.state # "idle" ELSE m.state = "done"

\* Mutated form: a word that waits for the state machine is not replaced.
StrobeFirst(w) ==
  m' = IF Clearing \/ m.latch THEN m ELSE [m EXCEPT !.latch = TRUE, !.data = w]

Strobe(w) ==
  m' = IF Clearing THEN m ELSE [m EXCEPT !.latch = TRUE, !.data = w]

\* Mutated form: cleared at the start, whichever kind.
BeginClears ==
  /\ m.state = "idle" /\ m.latch
  /\ m' = [m EXCEPT !.state = "shift", !.treg = m.data, !.latch = FALSE]

Begin ==
  /\ m.state = "idle" /\ m.latch
  /\ m' = [m EXCEPT !.state = "shift", !.treg = m.data, !.latch = ~ClearsAtStart]

\* The last bit.  ltc2195_spi leaves the transfer only with the latch set.
End ==
  /\ m.state = "shift" /\ (ClearsAtStart \/ m.latch)
  /\ m' = [m EXCEPT !.state = "done", !.latch = FALSE,
                    !.data = IF ClearsAtStart THEN @ ELSE NoWord]

\* The next tick of the idle state takes the clear away.
Release == m.state = "done" /\ m' = [m EXCEPT !.state = "idle"]

Init == m = Ready
Next == (\E w \in Words : Strobe(w)) \/ Begin \/ End \/ Release
Spec == Init /\ [][Next]_m

---------------------------------------------------------------------------
TypeOK == m \in [state : {"idle", "shift", "done"}, latch : BOOLEAN,
                 data : Words \cup {NoWord}, treg : Words \cup {NoWord}]

\* A transfer that has begun can end: the latch a transfer of ltc2195_spi
\* needs at its last bit is there, and what is shifted out is a word written,
\* never the cleared register.
CanEnd == m.state = "shift" => /\ ClearsAtStart \/ m.latch
                               /\ m.treg \in Words
=============================================================================
