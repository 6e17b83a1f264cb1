-------------------------------- MODULE Tftp --------------------------------
(***************************************************************************)
(* The TFTP server (tftp_server.c), its files on the SD card               *)
(* (tftp_handler.c) and its clients, over UDP: a datagram in `net` may be  *)
(* received at any time, again, late, or never.  recv and tftp_tmr run on  *)
(* the tcpip thread, one after the other: each is one step.                *)
(*                                                                         *)
(* A client (external: RFC 1350) makes one transfer, from a port of its    *)
(* own, of the one file of the model.  A block of data is the pair of its  *)
(* writer and its number; the last block a client sends is short.          *)
(***************************************************************************)
EXTENDS Naturals, Sequences

CONSTANTS
  Writers, Readers,   \* clients, by what they ask for
  NBlocks,            \* blocks a writing client sends
  NOld,               \* blocks of the file before, the last one short
  Timeout,            \* ticks of silence until a time-out (10)
  MaxRetries,         \* TFTP_MAX_RETRIES (5)
  BlkMod,             \* block numbers are modulo BlkMod (2^16)
  MaxTimers,          \* bound: requests while this many timers are pending
  MaxOpens,           \* bound: transfers opened, repeated requests included
  None

ASSUME TftpAssumption ==
  /\ NBlocks \in Nat \ {0} /\ NOld \in Nat \ {0}
  /\ Timeout \in Nat /\ MaxRetries \in Nat /\ MaxTimers \in Nat \ {0} /\ MaxOpens \in Nat \ {0}
  /\ BlkMod \in Nat /\ BlkMod > NBlocks + NOld + 1
  /\ Writers \cap Readers = {} /\ None \notin Writers \cup Readers

VARIABLES
  handle,             \* tftp_state: handle, addr, port - the client served, or None
  blknum,             \* tftp_state.blknum
  lastData,           \* tftp_state.last_data: the packet, or None
  age,                \* timer - last_pkt, counted up to Timeout + 1
  retries,            \* tftp_state.retries
  timers,             \* pending sys_timeout entries for tftp_tmr
  fptr, file,         \* the FIL's pointer in blocks; the file's blocks
  net,                \* datagrams to and from the server
  cst, cblk, got,     \* per client: state, blocks acknowledged or received, what was received
  saved,              \* history: writers whose whole file was there at a close,
  closeFailed,        \* writers whose f_close failed,
  opens,              \* transfers opened,
  seen,               \* per reader, the files its transfers read,
  skipped             \* readers whose ACK was taken with no last_data to acknowledge

server  == <<handle, blknum, lastData, age, retries, timers>>
card    == <<fptr, file>>
opened  == <<opens, seen, skipped>>
history == <<saved, closeFailed, opened>>
clients == <<cst, cblk, got>>
vars    == <<server, card, net, clients, history>>

Clients == Writers \cup Readers
Torn    == <<None, 0>>
OldFile == [i \in 1 .. NOld |-> <<None, i>>]
EndMark == <<None, NOld + 1>>          \* the empty block after a full last one

To(c, op, n)      == [dir |-> "to",   who |-> c, op |-> op, blk |-> n]
From(c, op, n)    == [dir |-> "from", who |-> c, op |-> op, blk |-> n]
DataFrom(c, n, b, s) == [dir |-> "from", who |-> c, op |-> "DATA", blk |-> n,
                         data |-> b, short |-> s]
ErrorTo(c)        == From(c, "ERROR", 0)

\* last_data: NULL is not a packet.
ASSUME NullAssumption ==
  None \notin [dir : {"from"}, who : Readers, op : {"DATA"}, blk : Nat,
               data : (Clients \cup {None}) \X Nat, short : BOOLEAN]

\* A client takes no more when it has ended, and no block twice.
Awaited(m) == m.dir = "to" \/ /\ cst[m.who] \in {"asking", "moving"}
                              /\ m.op = "ERROR" \/ m.blk >= cblk[m.who]
\* A pbuf_alloc that fails is a datagram that nobody receives.
Send(m)    == net' = {x \in net \cup {m} : Awaited(x)}

---------------------------------------------------------------------------
(* FatFs through tftp_handler.c (external: ff.h).  FA_OPEN_ALWAYS does not *)
(* truncate: blocks behind the last one written stay.                      *)

Put(f, i, b) == IF i > Len(f) THEN Append(f, b) ELSE [f EXCEPT ![i] = b]
ShortBlocks  == {Torn, <<None, NOld>>} \cup {<<c, NBlocks>> : c \in Writers}
BlockAt(i)   == IF i <= Len(file) THEN file[i] ELSE EndMark
ShortAt(i)   == \/ i > Len(file)
                \/ i = Len(file) /\ file[i] \in ShortBlocks
Holds(f, c)  == Len(f) >= NBlocks /\ \A i \in 1 .. NBlocks : f[i] = <<c, i>>

---------------------------------------------------------------------------
(* tftp_server.c                                                           *)

Pred(n) == IF n = 0 THEN 0 ELSE n - 1

\* close_handle: it takes one timer off the list, the transfer's or another;
\* the result of f_close is only printed.
CloseHandle(n, f) ==
  /\ handle' = None /\ lastData' = None
  /\ timers' = n
  /\ IF handle \in Writers
     THEN \/ /\ saved' = IF Holds(f, handle) THEN saved \cup {handle} ELSE saved
             /\ UNCHANGED closeFailed
          \/ closeFailed' = closeFailed \cup {handle} /\ UNCHANGED saved
     ELSE UNCHANGED <<saved, closeFailed>>

\* send_data: the block at the file pointer; without memory for it nothing is
\* read and last_data stays NULL; a read error ends the transfer.
SendData(c, n, at, tmrs) ==
  LET m == DataFrom(c, n, BlockAt(at), ShortAt(at)) IN
  \/ /\ lastData' = None /\ handle' = c /\ timers' = tmrs
     /\ fptr' = at - 1
     /\ UNCHANGED <<net, saved, closeFailed>>
  \/ /\ Send(ErrorTo(c))
     /\ handle' = None /\ lastData' = None /\ timers' = Pred(tmrs)
     /\ fptr' = at - 1
     /\ UNCHANGED <<saved, closeFailed>>
  \/ /\ Send(m)
     /\ lastData' = m /\ handle' = c /\ timers' = tmrs
     /\ fptr' = IF at <= Len(file) THEN at ELSE at - 1
     /\ UNCHANGED <<saved, closeFailed>>

\* Somebody else's datagram while a client is served (212-217).
Refuse(m) ==
  /\ handle # None /\ m.who # handle
  /\ Send(ErrorTo(m.who))
  /\ UNCHANGED <<server, card, clients, history>>

\* Every datagram of the client served counts as a sign of life (221-222).
Heard(m) == handle \in {None, m.who} /\ age' = 0 /\ retries' = 0

\* RRQ or WRQ (225-280).
RequestBusy(m) ==
  /\ m.op \in {"RRQ", "WRQ"} /\ Heard(m) /\ handle # None
  /\ Send(ErrorTo(m.who))
  /\ UNCHANGED <<handle, blknum, lastData, timers, card, clients, history>>

\* The timer is started before anything is checked.  Name, mode and f_open:
\* any of them may be at fault.
RequestBad(m) ==
  /\ m.op \in {"RRQ", "WRQ"} /\ Heard(m) /\ handle = None
  /\ timers < MaxTimers /\ timers' = timers + 1
  /\ Send(ErrorTo(m.who))
  /\ blknum' \in {blknum, 1}
  /\ UNCHANGED <<handle, lastData, card, clients, history>>

RequestWrite(m) ==
  /\ m.op = "WRQ" /\ Heard(m) /\ handle = None
  /\ timers < MaxTimers /\ timers' = timers + 1
  /\ opens < MaxOpens /\ opens' = opens + 1
  /\ handle' = m.who /\ blknum' = 1 /\ fptr' = 0
  /\ Send(From(m.who, "ACK", 0))
  /\ UNCHANGED <<lastData, file, clients, saved, closeFailed, seen, skipped>>

RequestRead(m) ==
  /\ m.op = "RRQ" /\ Heard(m) /\ handle = None
  /\ timers < MaxTimers
  /\ opens < MaxOpens /\ opens' = opens + 1
  /\ seen' = [seen EXCEPT ![m.who] = @ \cup {file}]
  /\ blknum' = 1
  /\ SendData(m.who, 1, 1, timers + 1)
  /\ UNCHANGED <<file, clients, skipped>>

\* DATA or ACK without a connection (286-289, 326-329).
NoConnection(m) ==
  /\ m.op \in {"DATA", "ACK"} /\ Heard(m) /\ handle = None
  /\ Send(ErrorTo(m.who))
  /\ UNCHANGED <<handle, blknum, lastData, timers, card, clients, history>>

\* DATA (282-320).
Next16(n) == (n + 1) % BlkMod

DataNext(m) ==
  /\ m.op = "DATA" /\ Heard(m) /\ handle = m.who /\ m.blk = blknum
  /\ LET f    == Put(file, fptr + 1, <<handle, m.blk>>)
         last == m.blk = NBlocks
     IN  /\ file' = f /\ fptr' = fptr + 1
         /\ Send(From(handle, "ACK", m.blk))
         /\ IF last THEN /\ CloseHandle(Pred(timers), f)
                         /\ UNCHANGED <<blknum, opened>>
                    ELSE /\ blknum' = Next16(blknum)
                         /\ UNCHANGED <<handle, lastData, timers, history>>
  /\ UNCHANGED clients

\* Mutated form: a failed write is acknowledged like any other.
DataFailsAcked(m) ==
  /\ m.op = "DATA" /\ Heard(m) /\ handle = m.who /\ m.blk = blknum
  /\ Send(From(handle, "ACK", m.blk))
  /\ CloseHandle(Pred(timers), file)
  /\ UNCHANGED <<blknum, fptr, file, clients, opened>>

\* The write fails, whole or in part; a short block closes a second time.
DataFails(m) ==
  /\ m.op = "DATA" /\ Heard(m) /\ handle = m.who /\ m.blk = blknum
  /\ Send(ErrorTo(handle))
  /\ \E f \in {file, Put(file, fptr + 1, Torn)} :
       /\ file' = f
       /\ CloseHandle(IF m.blk = NBlocks THEN Pred(Pred(timers)) ELSE Pred(timers), f)
  /\ blknum' = IF m.blk = NBlocks THEN blknum ELSE Next16(blknum)
  /\ UNCHANGED <<fptr, clients, opened>>

\* Mutated form: the previous block is taken for the next.
DataRepeatedStore(m) ==
  /\ m.op = "DATA" /\ Heard(m) /\ handle = m.who /\ Next16(m.blk) = blknum
  /\ file' = Put(file, fptr + 1, <<handle, m.blk>>) /\ fptr' = fptr + 1
  /\ Send(From(handle, "ACK", m.blk))
  /\ UNCHANGED <<handle, blknum, lastData, timers, clients, history>>

DataRepeated(m) ==
  /\ m.op = "DATA" /\ Heard(m) /\ handle = m.who /\ Next16(m.blk) = blknum
  /\ Send(From(handle, "ACK", m.blk))
  /\ UNCHANGED <<handle, blknum, lastData, timers, card, clients, history>>

DataWrong(m) ==
  /\ m.op = "DATA" /\ Heard(m) /\ handle = m.who
  /\ m.blk # blknum /\ Next16(m.blk) # blknum
  /\ Send(ErrorTo(handle))
  /\ UNCHANGED <<handle, blknum, lastData, timers, card, clients, history>>

\* ACK (322-356).  Without a last_data the block acknowledged was never sent
\* in this transfer: the next one read goes out under the next number.
AckNext(m) ==
  /\ m.op = "ACK" /\ Heard(m) /\ handle = m.who /\ m.blk = blknum
  /\ lastData # None => ~lastData.short
  /\ skipped' = IF lastData = None THEN skipped \cup {handle} ELSE skipped
  /\ blknum' = Next16(blknum)
  /\ SendData(handle, Next16(blknum), fptr + 1, timers)
  /\ UNCHANGED <<file, clients, opens, seen>>

AckLast(m) ==
  /\ m.op = "ACK" /\ Heard(m) /\ handle = m.who /\ m.blk = blknum
  /\ lastData # None /\ lastData.short
  /\ CloseHandle(Pred(timers), file)
  /\ UNCHANGED <<blknum, card, net, clients, opened>>

AckWrong(m) ==
  /\ m.op = "ACK" /\ Heard(m) /\ handle = m.who /\ m.blk # blknum
  /\ Send(ErrorTo(handle))
  /\ UNCHANGED <<handle, blknum, lastData, timers, card, clients, history>>

Recv(m) ==
  \/ Refuse(m)
  \/ RequestBusy(m) \/ RequestBad(m) \/ RequestWrite(m) \/ RequestRead(m)
  \/ NoConnection(m)
  \/ DataNext(m) \/ DataFails(m) \/ DataRepeated(m) \/ DataWrong(m)
  \/ AckNext(m) \/ AckLast(m) \/ AckWrong(m)

\* tftp_tmr.  Without a connection the timer is not started again.
TimerIdle ==
  /\ timers > 0 /\ handle = None
  /\ timers' = timers - 1
  /\ UNCHANGED <<handle, blknum, lastData, age, retries, card, net, clients, history>>

Silent == age >= Timeout      \* with this tick, timer - last_pkt > Timeout

\* Mutated form: the timer is not started again.
TimerWaitOnce ==
  /\ timers > 0 /\ handle # None /\ ~Silent
  /\ age' = age + 1 /\ timers' = timers - 1
  /\ UNCHANGED <<handle, blknum, lastData, retries, card, net, clients, history>>

TimerWait ==
  /\ timers > 0 /\ handle # None /\ ~Silent
  /\ age' = age + 1
  /\ UNCHANGED <<handle, blknum, lastData, retries, timers, card, net, clients, history>>

\* Mutated forms: the retry reads again, is not counted, is not limited.
TimerRetryReads ==
  /\ timers > 0 /\ handle # None /\ Silent
  /\ lastData # None /\ retries < MaxRetries
  /\ retries' = retries + 1 /\ age' = Timeout + 1
  /\ SendData(handle, blknum, fptr + 1, timers)
  /\ UNCHANGED <<blknum, file, clients, opened>>

TimerRetryUncounted ==
  /\ timers > 0 /\ handle # None /\ Silent /\ lastData # None
  /\ age' = Timeout + 1 /\ Send(lastData)
  /\ UNCHANGED <<handle, blknum, lastData, retries, timers, card, clients, history>>

TimerRetryUnlimited ==
  /\ timers > 0 /\ handle # None /\ Silent /\ lastData # None
  /\ retries' = retries + 1 /\ age' = Timeout + 1
  /\ Send(lastData)
  /\ UNCHANGED <<handle, blknum, lastData, timers, card, clients, history>>

\* resend_data (156-171)
TimerRetry ==
  /\ timers > 0 /\ handle # None /\ Silent
  /\ lastData # None /\ retries < MaxRetries
  /\ retries' = retries + 1 /\ age' = Timeout + 1
  /\ Send(lastData)
  /\ UNCHANGED <<handle, blknum, lastData, timers, card, clients, history>>

TimerGiveUp ==
  /\ timers > 0 /\ handle # None /\ Silent
  /\ lastData = None \/ retries >= MaxRetries
  /\ CloseHandle(Pred(timers), file)
  /\ UNCHANGED <<blknum, age, retries, card, net, clients, opened>>

Timer == TimerIdle \/ TimerWait \/ TimerRetry \/ TimerGiveUp

---------------------------------------------------------------------------
(* The clients: external.  A client repeats its last datagram at will, and *)
(* takes an ERROR for the end.                                             *)

LastSent(c) ==
  CASE cst[c] # "moving" -> To(c, IF c \in Writers THEN "WRQ" ELSE "RRQ", 0)
    [] cst[c] = "moving" /\ c \in Writers -> To(c, "DATA", cblk[c] + 1)
    [] cst[c] = "moving" /\ c \in Readers -> To(c, "ACK", cblk[c])

Request(c) ==
  /\ cst[c] = "idle"
  /\ cst' = [cst EXCEPT ![c] = "asking"]
  /\ Send(To(c, IF c \in Writers THEN "WRQ" ELSE "RRQ", 0))
  /\ UNCHANGED <<server, card, cblk, got, history>>

Repeat(c) ==
  /\ cst[c] \in {"asking", "moving"}
  /\ Send(LastSent(c))
  /\ UNCHANGED <<server, card, clients, history>>

ClientAck(c) ==
  /\ c \in Writers
  /\ \/ cst[c] = "asking" /\ From(c, "ACK", 0) \in net /\ UNCHANGED cblk
     \/ /\ cst[c] = "moving" /\ From(c, "ACK", cblk[c] + 1) \in net
        /\ cblk' = [cblk EXCEPT ![c] = @ + 1]
  /\ IF cblk'[c] = NBlocks
     THEN cst' = [cst EXCEPT ![c] = "done"] /\ UNCHANGED net
     ELSE cst' = [cst EXCEPT ![c] = "moving"] /\ Send(To(c, "DATA", cblk'[c] + 1))
  /\ UNCHANGED <<server, card, got, history>>

ClientData(c) ==
  /\ c \in Readers /\ cst[c] \in {"asking", "moving"}
  /\ \E m \in net :
       /\ m.dir = "from" /\ m.who = c /\ m.op = "DATA" /\ m.blk = cblk[c] + 1
       /\ got' = [got EXCEPT ![c] = IF m.data = EndMark THEN @ ELSE Append(@, m.data)]
       /\ cblk' = [cblk EXCEPT ![c] = @ + 1]
       /\ cst' = [cst EXCEPT ![c] = IF m.short THEN "done" ELSE "moving"]
       /\ Send(To(c, "ACK", m.blk))
  /\ UNCHANGED <<server, card, history>>

ClientError(c) ==
  /\ cst[c] \in {"asking", "moving"} /\ ErrorTo(c) \in net
  /\ cst' = [cst EXCEPT ![c] = "failed"]
  /\ UNCHANGED <<server, card, net, cblk, got, history>>

Client(c) == Request(c) \/ Repeat(c) \/ ClientAck(c) \/ ClientData(c) \/ ClientError(c)

---------------------------------------------------------------------------
Init ==
  /\ handle = None /\ blknum = 0 /\ lastData = None
  /\ age = 0 /\ retries = 0 /\ timers = 0
  /\ fptr = 0 /\ file = OldFile
  /\ net = {} /\ cst = [c \in Clients |-> "idle"]
  /\ cblk = [c \in Clients |-> 0] /\ got = [c \in Readers |-> <<>>]
  /\ saved = {} /\ closeFailed = {} /\ opens = 0
  /\ seen = [c \in Readers |-> {}] /\ skipped = {}

Receive == \E m \in net : m.dir = "to" /\ Recv(m)

Next == Receive \/ Timer \/ \E c \in Clients : Client(c)

\* lwIP runs its time-outs; nothing else has to happen.
Spec == Init /\ [][Next]_vars /\ WF_vars(Timer)

---------------------------------------------------------------------------
TypeOK ==
  /\ handle \in Clients \cup {None} /\ blknum \in 0 .. BlkMod - 1
  /\ age \in 0 .. Timeout + 1 /\ retries \in 0 .. MaxRetries /\ timers \in 0 .. MaxTimers
  /\ file \in Seq((Clients \cup {None}) \X (0 .. NBlocks + NOld)) /\ fptr \in 0 .. Len(file)
  /\ cst \in [Clients -> {"idle", "asking", "moving", "done", "failed"}]
  /\ cblk \in [Clients -> 0 .. BlkMod - 1]
  /\ saved \subseteq Writers /\ closeFailed \subseteq Writers
  /\ opens \in 0 .. MaxOpens /\ skipped \subseteq Readers

\* The server and the card do what FileTransfer promises.
Transfer == INSTANCE FileTransfer WITH
  owner <- handle, moved <- IF handle = None THEN 0 ELSE fptr
TransferSpec == Transfer!Spec

\* A transfer is never left without its timer, however many timers failed
\* requests have left behind and close_handle has taken off the list.
TimerRuns == handle # None => timers > 0

\* A client that has the acknowledgement of its last block has its file on
\* the card: the blocks of one transfer, in order and complete - unless
\* f_close failed, which close_handle does not tell (the acknowledgement is
\* sent first).
DoneIsStored == \A c \in Writers : cst[c] = "done" => c \in saved \cup closeFailed

\* What a reading client ends up with is the file its transfers read, every
\* block once and in order, whatever was lost, repeated or late: also when the
\* server has given it up and its request, or an ACK or a block of the transfer
\* before, arrives in the next one.  Not promised: one file, when the
\* client's transfers were opened on different ones; and anything to a client
\* whose old ACK met a last_data that found no memory (342-350), for the
\* server then leaves out the block it could not send.
ReaderWhole ==
  [][\A c \in Readers : cst[c] # "done" /\ cst'[c] = "done" /\ c \notin skipped
       => \A f \in seen[c] : seen[c] = {f} => got'[c] = f]_vars

\* When nothing more is received the server ends the transfer, after its
\* retries, and the timers of failed requests end too.
Released == <>[][~Receive]_vars => <>[](handle = None /\ timers = 0)
=============================================================================
