# Verification of the zuBPM firmware

The zuBPM is a beam position monitor on a Zynq UltraScale+: programmable logic
(VHDL, `src/src/hw/hdl`) samples four antennas, and a FreeRTOS/lwIP program
(C, `src/src/sw/src`) moves triggered data to the control system. This
directory holds TLA+ models of its control logic, the TLC runs that check them
and the TLAPS proofs. Paths below are relative to the repository; `X.c` is
`src/src/sw/src/X.c` and `X.vhd` is `src/src/hw/hdl/X.vhd`.

    tlc -config TrigLogic.cfg TrigLogic.tla        # a run (see "Runs")
    tlapm TrigLogicProofs.tla                      # the proofs

## 1. The system

    EVR fibre --> event receiver --evr_trig--> trig_logic --dma_trig--> adc2dma --FIFO--> AXI DMA --> DDR
                                                  ^  |    \--> tbt2dma, fa2dma                         |
      register writes (soft_trig, trigsrc,        |  | trig_cnt                                        |
      txtoioc_done, burst lengths)  --------------/  v                                                 v
    control.c (one thread per client) <-- PSC server <------------------- dmadata.c (polls, reads, sends, re-arms)
                                             ^  ^
                       lstats, brdstats, gendata, thermistor (broadcast every 1 ms .. 1 s)

All threads but the console have one priority, so any two can be switched
between any two statements; registers are shared without locks; the only mutex
is `sendguard` of the PSC server.

| component | state | operations | interacts with | hard part | what makes it correct |
|---|---|---|---|---|---|
| Trigger logic (`trig_logic.vhd`, `sync_cdc.vhd`) | latch, running, done, counter, latched time | one clock edge | EVR, registers, three engines, software | asynchronous inputs, register levels of any duration, order of flags | one trigger per burst, counted once, held until acknowledged, always released |
| Burst engines (`adc2dma`, `tbt2dma`, `fa2dma`) | length, state, word | trigger, tick | trigger logic, FIFO, DMA | different ends of one trigger; full FIFO | the three capture one trigger; L+1 beats with `tlast` |
| Triggered acquisition (`dmadata.c`) | `prevtrignum`, buffer | arm, poll, read, send, acknowledge | DMA, FIFO reset, PSC server, clients | every register write is a step; clients call `dma_arm` too | every count reported once, with its own data; a loss does not stop or spoil the next |
| Register commands (`control.c`) | PL registers | one per message | trigger logic, `dma_arm`, ADC SPI | several client threads, multi-write sequences | a command has its effect whatever runs beside it |
| PSC server (`listener.c`, `pscmsg.c`) | descriptors, slots, mutex | accept, adopt, receive, broadcast, give up, free, close | lwIP, all daemons, clients | descriptors are reused; senders close sockets under handlers; slot visible before its socket | slots never leak or are shared; streams keep their framing; nobody touches another's socket; the listener survives |
| Start-up (`main.c`, `net_setup.c`, `sdcard.c`) | configuration, files on the card | read card, EEPROM, start servers | everything | any operation may fail, power may fail between any two | the start ends; the configuration is what the file says; the files are settled by the next good start |
| TFTP server (`tftp_server.c`, `tftp_handler.c`) | one transfer: block, retries, timer | request, data, ack, timer | lossy UDP, SD card | loss, repeats, late packets, leftover timers | a file arrives whole or the transfer ends; the server becomes free again |
| I2C and EEPROM (`i2c_devices.c`, `brdstats.c`, `console.c`) | two expanders, device registers, Kx/Ky | select, write, read; save, restore | main, brdstats, console; restart | no lock; one address on several branches; expanders outlive a restart | a transfer is answered by the device it is meant for; settings come back |
| Discovery (`discover.c`) | socket buffers | answer a datagram | network | buffer ownership | every buffer is freed |
| Reports (`lstats`, `gendata`, `thermistors`) | none | read registers, broadcast | PSC server | - | they get the guard |
| Event receiver (`evr/*.vhd`) | shift register, seconds, nanoseconds, trigger delays | one event | fibre | lost or misplaced events | a time-stamp is one second's, whole |
| Acquisition timing (`dsp_cntrl`, `rffe_switch`, `beam_detect`) | counters, gates | one clock | EVR, engines | phase of several dividers | ticks keep coming, in their ratio |
| SPI masters (`spi_*.vhd`, `ltc*_spi.vhd`) | latched word, shift register | strobe, begin, end | registers, several handlers | strobe during a transfer | the device holds what was written last; a transfer can end |
| Signal processing (`dsp/*`), ADC interface (`adc_*`) | sample pipelines | one clock | - | arithmetic | numeric |

`PROJECT.json` lists each with its status, and the hazards with their lines.

## 2. Plan

Modules in order of importance; those marked * exist.

1. * `AcqCycle` (abstract), * `TrigLogic`, * `TrigLogicProofs`: the trigger cycle.
2. * `DmaAcq`, * `DmaProofs`: the acquisition from trigger to message (composes the trigger
   logic, one step per event, with the FIFO, the DMA and the software).
3. * `PscServer`, * `MCPscServer`, * `PscProofs`: the server every report goes
   through.
4. * `FileTransfer` (abstract), * `Tftp`, * `TftpProofs`, * `TftpReadProofs`: the file server over a
   network that loses, repeats and delays.
5. * `I2cBus`, * `Startup`, composed by * `Board`, * `BoardProofs`: the bus, the
   settings and the start, through restarts and power failures.
6. * `SpiMaster`, * `SpiMasterProofs`, composed by * `Commands`,
   * `CommandsProofs`: the clients' commands and what is behind them.
7. `EvrTime`: time-stamp shift register and trigger channel, with lost events.
   `PlTiming`: gates, ticks and the switch phase.

Every safety property of the passing runs has its theorem (section 6). Worth
proving next are lemmas towards liveness: of each wait, that the step that ends
it is there, as `TransfersCanEnd` says of the SPI masters.

## 3. The modules

### AcqCycle, TrigLogic

`AcqCycle` says what a reader of triggered data relies on: ready, capturing,
captured, ready; the count grows once per capture, by one.

`TrigLogic!Clock` is one rising edge of `adc_clk`. Each VHDL process is a
conjunct named after what it drives (`TriggerProcess`, `LatchProcess`,
`CountProcess`, `TimestampProcess`, `EngineStep`, `AdcStep`); signals are read
before the edge, as in VHDL. The synchronisers are their three flip-flops. EVR
pin, soft trigger, source and acknowledge change between edges. The three
steps of `dmadata_push` that matter here are `SwPoll`, `SwAckHigh`, `SwAckLow`;
`lag` counts clocks since the last of them.

Abstractions: sample words are counted, not told apart; the latched time is
the flag `tsMatches` (is it the time of the burst the ADC engine started?); the
`reset` branches are the initial state; burst lengths may change at any edge
(`\E l \in BurstLens`), as a client can at any time.

Assumptions, each a constant or a guard that can be seen:
- `SwClocks`: the software needs at least this many clocks between the count
  and the acknowledge, more than the engines need for their last words (8 and 5
  clocks; sending a waveform takes milliseconds), and at most this many between
  the acknowledge's two writes.
- `TrigDuringAck = FALSE`: no trigger edge while the acknowledge is high. The
  EVR triggers at about 1 Hz and the two writes are a microsecond apart, so the
  code gets away with it; the run `trig_ack_level` shows what happens otherwise.
- A register write lasts at least one `adc_clk`, and a soft trigger has left its
  synchroniser before the source is switched (`SoftTrigLow`, `SetTrigsrc`).
- `TbtWords`, `FaWords`, `CountMod` are 8, 5 and 2^32 in the code.

### DmaAcq

Trigger, FIFO, DMA and software as one system. One action per register access:
`ArmReadLen` .. `ArmLength` are `dma_arm`, run by dmadata and, from
`set_dmalen`, by clients. `Trigger`, `WriteBeat`, `CountTrigger` are the logic,
one step per event. A beat carries its trigger's number, so that "the data of
this trigger" can be stated. `MoveBeat` is the AXI DMA (external; PG021, direct
register mode): it stops at `tlast` or when its length is used up, and a length
written while a transfer runs starts nothing. `ReadDma` reads the buffer in one
step; that no other trigger's beat can be written meanwhile is `BufferIsOwn`.

The acknowledge is two writes, and the latch is cleared by the level of the
register: a trigger between `AcknowledgeHigh` and `AcknowledgeLow` starts a
burst with the latch open, and further triggers may come during it (a running
burst takes no notice of them; one that comes when the ADC engine is done and
another is not is counted together with it). The source is not assumed to be
quiet here; `TrigDuringAck` is an assumption of TrigLogic only.

Three history variables say when something cannot be promised: `disturbed` (a
trigger found the DMA not armed, a beat was lost, or the software read before
the FIFO had drained), `slipped` (a trigger has found the acknowledge high since
the logic was last quiet) and `raced` (a client set a length during an
acquisition). `CaptureComplete` excepts `disturbed` and `raced`, `BufferIsOwn`
and the count-by-count half of `OneReport` except `slipped`: after such a trigger
two may be counted between two polls. `RearmRecovers` and the last half of
`OneReport` except nothing: when all is quiet again the last count is the one
reported and the DMA is armed, though after a race for a length that need not be
the one in force. The software's 10 ms poll normally leaves the DMA time to drain;
the comment at dmadata.c:313 ("incremented after DMA data is pushed to DDR") is
not literally so: `trig_cnt` follows the engines, not the DMA.

### PscServer

`fds` is lwIP's descriptor table, `used`/`sock` are the slots, `lpc` the
listener, `hpc` one handler thread per connection, `send` the thread that holds
`sendguard` to send. psc_client_alloc, psc_client_free and the close of
handle_client are single steps that need the guard; a broadcast is a step per
header and per body, because other threads run in between. Outside the guard
are the steps the code takes outside it: `DropClient`, `SetSock`, `Spawn`,
`HandlerStart`. `accept` takes the lowest free descriptor (lwIP `alloc_socket`),
and 0 is the listening socket, the first one opened. A send may fail at any
time (peer gone, or time-out of a peer that does not read), a receive too
(`SO_RCVTIMEO`); both options are switched on in src/src/sw/tcl/main.tcl:83.
`sendFailed` and `earlySend` are histories. Bytes, and messages that are too
long or malformed, are `RecvMsg` or `RecvFails`.

### FileTransfer, Tftp

`FileTransfer` is what the server promises about the card: one client at a
time, its blocks one after the other from the first, each once, nobody else in
the file. `Tftp` has the server's static record (`handle`, `blknum`,
`lastData`, `retries`), the list of time-outs, the card, the network as a set
of datagrams, and clients. `recv` and `tftp_tmr` both run on lwIP's tcpip
thread, so each branch of either is one step (`Request*`, `Data*`, `Ack*`,
`Timer*`); the branches that answer with an error are there too. Memory that
runs out (`last_data` stays NULL), read errors, partial writes and a failing
`f_close` are choices. `timers` counts the pending entries for `tftp_tmr`:
`sys_timeout` adds one before a request is checked, `sys_untimeout` takes any
one away. A block is the pair of its writer and its number, so that what is in
the file tells where it came from. A transfer that is given up (`TimerGiveUp`) leaves
its datagrams in the network: they may arrive in the client's next transfer, or
open one.

The histories `seen` (the files a reader's transfers were opened on) and `skipped`
(the readers whose acknowledgement was taken while `last_data` was NULL) say when
`ReaderWhole` promises nothing: when the file was written between two transfers
of one client, so that there is no one file to have, and when the server had no
memory for a packet and an old acknowledgement then made it go on to the next
(tftp_server.c:342-350). `DoneIsStored` excepts a failed `f_close`
(tftp_handler.c:36 prints it; the acknowledgement has gone out), and a shorter
file does not truncate an older one (`FA_OPEN_ALWAYS`). Clients (external) follow RFC 1350 with a port per transfer.

### I2cBus, Startup, Board

`I2cBus` is the bus: two expanders (`mux`), the devices by place, and each
function of the driver as a script of selections and transfers. Addresses are
shared (the LTC2991s, the temperature sensors, and the EEPROM with the memory
of every SFP module), so which device answers depends on `mux`. `Startup` is
`realmain`: the card with NET.CNF line by line, EEPROM.NEW and EEPROM.DAT, the
interface, the servers; every operation on the card may fail. `Board` runs the
scripts in three threads and adds Kx and Ky in the registers, in the EEPROM and
in the console's buffer, the restart and the power failure.

- The console has the lowest priority (console.c:411) and brdstats never
  blocks inside a sweep (the bus is polled), hence `MayRun`: a sweep cuts into
  the console between any two of its transfers, never the reverse. Transfers in
  a row of main and of brdstats are therefore one operation.
- A transfer (`BusStep`) is atomic. In the code brdstats can preempt the console
  inside one as well: then it waits in `XIicPs_BusIsBusy` for a bus that the
  hardware may free without the console, on a driver instance both share, and
  the dump's read of 128 bytes (i2c_devices.c:346) needs the processor to empty
  the controller's FIFO meanwhile. None of this is modelled, and no property
  speaks of a thread cut off inside a transfer.
- The expanders are not reset with the processor: `Reboot` keeps `mux`,
  `PowerFails` does not.
- The write cycle of the EEPROM (5 ms) is shorter than `exec_menu`'s delay of
  100 ms (`Choose`); the eight bytes fit one 16-byte page (0x24-0x2B), so a save
  is one write. What a power failure leaves of a word is the old one, the new
  one, or any (`Any`).
- That a save may be lost to a sweep (the bytes go to no device) is known and
  stated: `SavedUnlessSwept`; that they never go to an SFP module is
  `NoStrayTransfer`.
- EEPROM.DAT is absent, empty, of some other length or whole, and truncating and
  writing it are two steps with every length between. `CardSettled` speaks of a
  file met empty or whole. About the others the header of sdcard.c ("Write
  EEPROM.DAT if present with zero size", line 6) and the code disagree: it creates
  an absent file (`FA_OPEN_ALWAYS`, line 244) and rewrites one of another length
  or content (lines 182-211). `SyncDat` does what the code does, and no property
  takes a side.
- The outcome of `net_setup` is not kept: nothing that follows depends on it.

### SpiMaster, Commands

`SpiMaster` is the latch and the state machine that all four masters share, in
their two kinds: `spi_pe43712` and `spi_ad9510` clear the latch from the start
of a transfer, `ltc2195_spi` and `ltc2986_spi` at its end. `Commands` is
`client_msg` and `reg_settings` in the handler thread of each connection. All
handlers have one priority and are time-sliced, so every register access is a
step: `IdlyValue`, `IdlyOn`, `IdlyOff` for the input delays, `SpiWrite`,
`SpiRead`, `SpiCheck` for the converters. A client is the number it writes, so
a word tells its sender. `rx` is the first two words of the slot's buffer: a
short message leaves the rest of an older one there, and psc_client_alloc and
psc_client_free both clear it (Cleared is the zero word, the address of
SOFT_TRIG_MSG, whose data of zero does nothing).

`usleep(1000)` is some hundred times a transfer (about 11 us), so a handler in
`wait` goes on only after the master has been idle. One register address of the
converters is modelled; both converters take every word and drive every read.
`lost` and `shared` say when nothing is promised: a strobe into a running
transfer, and overlapping ADC_SPI commands, of which the code prevents neither.
Trigger and length commands are in TrigLogic and DmaAcq.

## 4. Runs

| run | module, cfg | shows |
|---|---|---|
| trig_logic | TrigLogic, TrigLogic.cfg | with both sources and a quiet acknowledge: refinement of `AcqCycle`, latch over the whole burst, one burst per pulse |
| trig_stress | TrigLogic, TrigStress.cfg | triggers at any time: a set latch always has a count or an acknowledge to come, and is released |
| trig_ack_level | TrigLogic, TrigAckLevel.cfg | **violation**: a trigger during the acknowledge loses its latch |
| dma_acq | DmaAcq, DmaAcq.cfg | counts, reports, buffer and re-arming under races, overflow, lost `tlast` and triggers under the acknowledge |
| dma_window | DmaAcq, DmaAccepted.cfg | **violation**: a trigger between acknowledge and re-arm is reported with old data |
| psc | MCPscServer, Psc.cfg | slots, sockets and framing (safety, symmetric connections) |
| psc_live | PscServer, PscLive.cfg | the guard and the slots come back |
| psc_fd_reuse | PscServer, PscFdReuse.cfg | **violation**: a handler on another client's descriptor |
| psc_adoption | PscServer, PscAdoption.cfg | **violation**: a broadcast closes the listening socket |
| tftp | Tftp, Tftp.cfg | refinement of `FileTransfer`; a client that is done has its file, also over transfers given up; a transfer always has a timer, and always ends |
| board | Board, Board.cfg | right device, settings after any history, configuration as written, files on the card settled where header and code agree; start and save end |
| commands | Commands, Commands.cfg | own words only; attenuator, delays and converters end up with what was written; transfers end |

Bounds and why they are enough.
- TrigLogic: bursts of two samples (a last one and one before it), words long
  enough that `dma_active` falls before the last word is written, a counter that
  wraps during the run. In trig_stress the counter must not wrap between two
  polls (2^32 triggers cannot happen in 10 ms); 8 is the hypothesis of
  `LatchHasItsReason` for `SwClocks` of 4.
- DmaAcq: two triggers, the one that is disturbed and the next; a FIFO of two
  beats under bursts of two and three, so that it fits or overflows depending on
  the DMA; lengths 1 and 2 stand for a shorter and a longer burst; a request
  above the clamp; one client against dmadata is every pair of threads in
  `dma_arm`.
- PscServer: two slots are needed to confuse two clients, the third connection
  finds the slots or the descriptors exhausted and reuses a descriptor. Each
  connection is made once; a client that reconnects is another connection.
- Tftp: a writer and a reader are the two ways to use the one connection and to
  disturb each other; two blocks have a first and a last; one retry and one tick
  before a time-out have both sides of each limit. `MaxTimers` bounds leftover
  timers (two: the transfer's and another), `MaxOpens` the transfers opened in
  all, and is never reset (three: one that is given up or ends, another's in
  between, and one in which the late datagrams of the first arrive). Block numbers wrap at `BlkMod`, larger than a file (a file that
  wraps is beyond RFC 1350).
- Board: modules in the first and the last SFP slot, as a select that follows
  or none; two lines of NET.CNF (`MaxLines`), any pair in any order; two values
  of Kx, one of which the restore does not take, one of Ky. The number of
  restarts and power failures is not bounded.
- Commands: two handlers, two clients that come and go in any slot, a command of
  each kind, three messages in all (`MaxMsgs`): two that overlap and one before
  that fills a buffer; an attenuator register in which one client's value
  overflows.

`CHECK_DEADLOCK FALSE`: DmaAcq stops when its triggers are used up, PscServer
when all connections are over, Tftp when the clients have ended and nothing is
in the network, Board when the start has no socket, Commands after `MaxMsgs`.

## 5. Fairness

- `TrigLogic!FairSpec`: the clock ticks (WF); turns and fast-acquisition ticks
  keep coming while an engine waits for one, which is the machine's revolution
  clock (without it the acquisition does stop: top.vhd 433-444); dmadata is
  scheduled. No trigger has to come.
- `DmaAcq`: the clock of the logic runs and dmadata is scheduled (WF). No trigger
  or request has to come, and neither the DMA nor a client's thread has to go on:
  dmadata waits for neither.
- `PscServer`: threads run; a send ends (`SO_SNDTIMEO` of 1 s or 5 s); receives
  on a dead connection return (`SO_RCVTIMEO`); waiters of one priority get a
  FreeRTOS mutex in turn, hence strong fairness for the steps that take it. No
  client has to connect, go, or send.
- `Tftp`: weak fairness for the timer only; no client or datagram has to do
  anything.
- `Board`: the main thread and the sweep run (WF); strong fairness for the
  console's transfers, which brdstats's delay of a second between two sweeps
  justifies. No restart, power failure, entry or client has to happen, and
  `StartEnds` speaks of starts that are not cut off for ever.
- `Commands`: the clocks of the masters run (WF); no handler has to.

## 6. Proofs

`TrigLogicProofs` proves for every value of the constants that satisfies
`TrigLogicAssumption`:
- `TypeCorrect`: `Spec => []TypeOK`.
- `QuietSafety` and `OneBurst`: if `TrigDuringAck = FALSE`,
  `Spec => []LatchCoversBurst` and `Spec => []OneBurstPerPulse`.
- `Refinement`: under the same assumption `Spec => CycleSpec`.
- `LatchHasItsReason`: with triggers at any time, if `CountMod > SwClocks + 3`,
  `Spec => []LatchHasReason`.

Neither of the first two safety properties is inductive: that a burst is covered by the latch
depends on when the software may acknowledge, which depends on the count, the
flags and the engines. `QuietInv` (end of `TrigLogic`) says where everything
stands in each phase of the cycle: `PulseInv` (a pulse comes from a spent edge
and finds the logic ready), `SoftwareInv` (software past the poll implies
counted; engines still writing their last word are further than the software),
`PhaseInv` (what ready, capturing and captured mean for flags and engines). The
proof has a step per action; `Clock` is split into the processes, then by phase.
Each step of `Spec` then is an `AcqCycle` step or a stutter, read off the
invariant before and after.

Without the quiet acknowledge the phases mean nothing, and `LatchHasItsReason`
needs an invariant of its own. `ReasonInv` is an account of counts: what the
counter is ahead of the software (`Ahead`) and the counts on their way
(`Coming`: one that is due, one of a burst in flight, one of the trigger an open
latch would let in) are three at most, and one more for each clock of an
acknowledge (`Slack`), which has at most `SwClocks`. Hence `CountMod > SwClocks
+ 3`, in the code 2^32 against a microsecond: the counter then never comes round
to the value the software has seen. `PulseSpent` says that a pulse has used up
the edge it came from.

`TftpProofs` proves, for every value of the constants that satisfies
`TftpAssumption` (block numbers do not wrap within a file: `BlkMod > NBlocks +
NOld + 1`), `TransferHasTimer`, `DoneMeansStored` and `Implements`. The
invariant is `TftpInv`: `Shape` (types of the record, the file and the
datagrams), `TimerRuns`, `WriterInv` (a writer's blocks up to `fptr` are in the
file, and the next number is `fptr + 1`), `NetInv` (an acknowledgement in the
network is of a block that was stored, and of the last one only if the file was
whole), `LastInv` (what may be sent again) and `ClientInv` (what the client has
acknowledged). That a client is done says nothing about the file without
`NetInv`, which remembers in the datagrams what the server has done since. Each
action is then a step of `FileTransfer` or leaves owner, position and file
alone (`Keeps`).

`TftpReadProofs` proves `TypeCorrect` and `WholeFile`, from the same assumption
and `NullAssumption` (`None`, the NULL pointer, is no packet). `TypeInv` is
`TypeOK` with what ticks and block numbers need to stay in it. `ReadInv` says of
each reader whose transfers, however many, were opened on one file and which has
lost no block to a missing packet: every block on its way to it, of whichever
transfer, is the block of that file with its number, and short exactly if it is
the last (`OnTheWay`); what it has is a prefix of the file (`Whole`); and a
transfer it is in stands at the block sent last, or before the one that found no
memory (`Served`). Nothing in it depends on when a datagram was sent, so late
ones of a transfer given up need no case of their own. A reader no transfer was
opened for has no block on its way (`Unopened`).

`CommandsProofs` proves `TypeCorrect`, `OwnCommands`, `Attenuation`, `Delays`
and `ReadBack` for any number of slots, clients and messages. `CmdInv` is the
types, `Owned` (every word in a buffer is the connected client's or nobody's,
also while nothing is executed), `DelayInv` (a strobe that is high has a
handler that will take it away), `AttenInv` (what is latched or shifted is the
register, unless the write was lost), `BusyInv` (a handler that has strobed
waits, and the master is busy) and `AloneInv` (where a lone handler and the
master stand together in each phase). Each part is inductive with the types, so
each has a lemma of its own with a step per action.

`SpiMasterProofs!TransfersCanEnd`: in both kinds of master the latch that the
last bit needs is there, and what is shifted out was written, whatever is
strobed and when (`SpiInv`; the hypothesis is that the kind is a Boolean).

`PscProofs` proves `TypeCorrect`, `SlotsOwned`, `OwnSockets`, `Framing` and
`Listening` for any number of connections, slots and descriptors. Who owns a
socket depends on numbers that are reused, so none of them is inductive.
`PscInv` adds: `Shape` (which fields mean something where), `OnceInv` (a
connection is adopted once, so a descriptor that was closed is not adopted
again), `FdInv` (descriptor 0, an empty slot's, never gets into a handler),
`ListenInv` (what is being sent does not go to the listening socket) and, until
a send fails, `SockInv` and `FrameInv` (whose each descriptor is, and where the
one message that is being sent has its header). Each action has a lemma, with a
step per conjunct.

`DmaProofs` proves all the safety properties of `DmaAcq`, for any clients,
lengths, FIFO depth and margin: `TypeCorrect`, `Reports`, `Captures`, `Rearms`
and `OwnBuffer`. `DmaInv` has `CountInv` (counter, burst and `prevtrignum`,
whatever has slipped under the acknowledge), `ReportInv` (the latch with them, by
what dmadata is doing, as long as nothing has), `FifoInv` (from the reset to the
acknowledge the FIFO holds beats of one trigger, and none when all is quiet),
`CaptureInv` (an undisturbed burst stands in order
in DDR and FIFO, and the DMA has room for the rest), `RearmInv` (whoever of the
threads in `dma_arm` is last leaves the DMA ready: while the logic is quiet and
the DMA is not, one of them still has the step that makes it so) and `RoomInv` (bounds).

`BoardProofs` proves `TypeCorrect`, `EachItsOwn`, `NoStray`, `Restored`, `Saved`,
`AsWritten` and `Settled` for any settings, any SFP modules and any length of
`NET.CNF`. `BoardInv` has `ProgInv`
(which thread executes which script, and when), `MuxInv` (where a script that is
cut short leaves the first port expander: the EEPROM's channel, or none after a
sweep), `CycleInv` and `SaveInv` (what the EEPROM still has to write, and that
a command that saves has given it the pair), `RestoreInv` (the registers are
untouched until the EEPROM is read) and `CardInv` (what the steps on the card
have achieved, from which `Settled` follows for the files it speaks of). What the scripts do at their ends is stated in lemmas first.

`EachItsOwn` has a static and a dynamic half. Static: in every script of the
start and of the statistics a transfer goes through a channel the script itself
has connected (`Prepared`); lemmas about sequences put the scripts together from
pieces (`Joined`, `JoinedReady`, `Continued`, `Opened`), and an address tells
the expander (`PlaceOf`), so a connected channel answers with one device
(`Answered`). Dynamic: a channel the running script has connected still is,
because nobody else moves the expanders meanwhile (`ChannelInv`). `AsWritten`
follows from lemmas that say what one more line changes in the meaning of all
lines (`MeaningOfNext`), and from `ChannelInv`: the EEPROM has always answered
when a hwaddr line has asked it (`MacAnswered`).

The prover's SMT back end has an axiom about `Len` that holds of sequences only
and is stated for every function; the proofs also pass with the axiom restricted
to sequences.

Only model-checked is liveness, whose fairness and ENABLED are out of the
prover's reach: `TrigLogic!LatchReleased`, `DmaAcq!LatchReleased`,
`PscServer!SendEnds` and `SlotReturned`, `Tftp!Released`, `Board!StartEnds` and
`SaveEnds`, `Commands!SpiReturns`.

## 7. Not modelled

- Signal processing and the ADC interface (arithmetic on wide words, vendor
  primitives), generated register files and the block design, constraints and
  build scripts.
- The event receiver and the acquisition timing: planned (section 2). TrigLogic
  takes triggers and ticks in any clock.
- The slow and live streams are not started by the program (main.c 225-226);
  `set_geo_dly` and `set_fpleds`, which nobody calls; the MMCM strobes, whose
  register no entity reads; the access LED and its counter.
- What the reports read, and the conversions of readings: no state is kept.
- The discovery responder answers one datagram and keeps no state; that it does
  not free the one it got is listed under the hazards.
- Preemption inside an I2C transfer (section 3, Board).
- Reads of a multi-bit register across clock domains are taken as atomic; a
  power failure or restart is modelled for the board, not inside a TFTP
  transfer.
