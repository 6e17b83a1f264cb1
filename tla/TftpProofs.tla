----------------------------- MODULE TftpProofs -----------------------------
(***************************************************************************)
(* Proofs about Tftp for any clients, file sizes, time-outs and retries:   *)
(* a transfer has a timer, a client that is done has its file, and the     *)
(* server implements FileTransfer.  The one thing asked of the constants   *)
(* is that no transfer is long enough for a block number to come back.     *)
(***************************************************************************)
EXTENDS Tftp, TLAPS

---------------------------------------------------------------------------
(* The inductive invariant *)

Blocks == (Clients \cup {None}) \X Nat

Shape ==
  /\ handle \in Clients \cup {None} /\ timers \in Nat
  /\ file \in Seq(Blocks) /\ fptr \in Nat /\ fptr <= Len(file)
  /\ cst \in [Clients -> {"idle", "asking", "moving", "done", "failed"}]
  /\ cblk \in [Clients -> Nat]

\* What a writing client has sent stands in the file from the first block on.
WriterInv == handle \in Writers =>
  /\ fptr < NBlocks /\ blknum = fptr + 1
  /\ \A i \in 1 .. fptr : file[i] = <<handle, i>>

\* Who sends what; and the last block is acknowledged after it was stored.
MsgOK(m) ==
  /\ m.who \in Clients
  /\ m.dir = "to" /\ m.op = "DATA" => m.who \in Writers /\ m.blk \in 1 .. NBlocks
  /\ m.dir = "to" /\ m.op = "WRQ" => m.who \in Writers
  /\ m.dir = "to" /\ m.op \in {"RRQ", "ACK"} => m.who \in Readers
  /\ m.dir = "from" /\ m.op = "ACK" /\ m.blk = NBlocks /\ m.who \in Writers
       => m.who \in saved \cup closeFailed

NetInv  == \A m \in net : MsgOK(m)
LastInv == lastData # None =>
             lastData.dir = "from" /\ lastData.op = "DATA" /\ lastData.who \in Clients

ClientInv == \A c \in Writers :
  /\ cst[c] \in {"idle", "asking"} => cblk[c] = 0
  /\ cst[c] = "moving" => cblk[c] < NBlocks
  /\ cst[c] = "done" => c \in saved \cup closeFailed

TftpInv == Shape /\ TimerRuns /\ WriterInv /\ NetInv /\ LastInv /\ ClientInv

\* The history only grows.
Grows == saved \subseteq saved' /\ closeFailed \subseteq closeFailed'

---------------------------------------------------------------------------
(* Blocks and block numbers *)

LEMMA PutBlock ==
  ASSUME NEW f \in Seq(Blocks), NEW n \in Nat, n <= Len(f), NEW b \in Blocks
  PROVE  /\ Put(f, n + 1, b) \in Seq(Blocks)
         /\ Len(Put(f, n + 1, b)) >= n + 1 /\ Len(Put(f, n + 1, b)) >= Len(f)
         /\ Put(f, n + 1, b)[n + 1] = b
         /\ \A i \in 1 .. n : Put(f, n + 1, b)[i] = f[i]
<1>1. CASE n + 1 > Len(f)
  BY <1>1 DEF Put
<1>2. CASE ~(n + 1 > Len(f))
  BY <1>2 DEF Put
<1> QED
  BY <1>1, <1>2

LEMMA SmallMod ==
  ASSUME NEW a \in Nat, NEW b \in Nat, a < b
  PROVE  a % b = a
OBVIOUS

\* The number after one of a transfer's.
LEMMA NextNumber ==
  ASSUME NEW n \in 0 .. NBlocks
  PROVE  Next16(n) = n + 1
<1>1. n + 1 \in Nat /\ n + 1 < BlkMod
  BY TftpAssumption
<1> QED
  BY <1>1, SmallMod, TftpAssumption DEF Next16
---------------------------------------------------------------------------
(* The network.  Send adds at most its datagram.                           *)

LEMMA SendOne ==
  ASSUME NetInv, Grows, NEW m, Send(m), MsgOK(m)'
  PROVE  NetInv'
<1>1. net' \subseteq net \cup {m}
  BY DEF Send
<1>2. ASSUME NEW x \in net
      PROVE  MsgOK(x)'
  BY <1>2 DEF NetInv, MsgOK, Grows
<1> QED
  BY <1>1, <1>2 DEF NetInv

LEMMA SendError ==
  ASSUME NetInv, Grows, NEW c \in Clients, Send(ErrorTo(c))
  PROVE  NetInv'
<1>1. MsgOK(ErrorTo(c))'
  BY DEF MsgOK, ErrorTo, From
<1> QED
  BY <1>1, SendOne

LEMMA SendAck ==
  ASSUME NetInv, Grows, NEW c \in Clients, NEW n, Send(From(c, "ACK", n)),
         n = NBlocks => c \in saved' \cup closeFailed'
  PROVE  NetInv'
<1>1. MsgOK(From(c, "ACK", n))'
  BY DEF MsgOK, From
<1> QED
  BY <1>1, SendOne

LEMMA SendBlock ==
  ASSUME NetInv, Grows, NEW m, Send(m),
         m.dir = "from", m.op = "DATA", m.who \in Clients
  PROVE  NetInv'
<1>1. MsgOK(m)'
  BY DEF MsgOK
<1> QED
  BY <1>1, SendOne

LEMMA SendTo ==
  ASSUME NetInv, Grows, NEW c \in Clients, NEW op, NEW n, Send(To(c, op, n)),
         op = "DATA" => c \in Writers /\ n \in 1 .. NBlocks,
         op = "WRQ" => c \in Writers,
         op \in {"RRQ", "ACK"} => c \in Readers
  PROVE  NetInv'
<1>1. MsgOK(To(c, op, n))'
  BY DEF MsgOK, To
<1> QED
  BY <1>1, SendOne

---------------------------------------------------------------------------
(* The kinds of steps of the server *)

\* Only the network, the timers, or the block number of no transfer change.
LEMMA Quiet ==
  ASSUME TftpInv, UNCHANGED <<handle, lastData, fptr, file, cst, cblk, saved, closeFailed>>,
         timers' \in Nat, handle # None => timers' > 0,
         blknum' = blknum \/ handle = None, NetInv'
  PROVE  TftpInv' /\ UNCHANGED Transfer!vars
<1>1. None \notin Writers
  BY TftpAssumption
<1>2. Shape' /\ TimerRuns' /\ LastInv' /\ ClientInv'
  BY DEF TftpInv, Shape, TimerRuns, LastInv, ClientInv
<1>3. WriterInv'
  BY <1>1 DEF TftpInv, WriterInv
<1> QED
  BY <1>2, <1>3 DEF TftpInv, Transfer!vars

LEMMA Ended ==
  ASSUME TftpInv, handle' = None, lastData' = None, timers' \in Nat, Grows,
         UNCHANGED <<cst, cblk>>, fptr' \in Nat, file' \in Seq(Blocks), fptr' <= Len(file'),
         NetInv'
  PROVE  TftpInv'
<1>1. None \notin Writers
  BY TftpAssumption
<1>2. Shape' /\ TimerRuns' /\ LastInv' /\ WriterInv'
  BY <1>1 DEF TftpInv, Shape, TimerRuns, LastInv, WriterInv
<1>3. ClientInv'
  BY DEF TftpInv, ClientInv, Grows
<1> QED
  BY <1>2, <1>3 DEF TftpInv

LEMMA Closed ==
  ASSUME handle # None, NEW n, NEW f, CloseHandle(n, f)
  PROVE  /\ handle' = None /\ lastData' = None /\ timers' = n /\ Grows
         /\ handle \in Writers /\ Holds(f, handle) => handle \in saved' \cup closeFailed'
BY DEF CloseHandle, Grows

\* A block goes out to a reader, or nothing for want of memory, or the
\* session ends with a read error.
LEMMA Fetched ==
  ASSUME TftpInv, NEW c \in Readers, NEW n, NEW at \in Nat \ {0}, NEW t \in Nat \ {0},
         at <= Len(file) + 1, SendData(c, n, at, t), UNCHANGED <<file, cst, cblk>>
  PROVE  /\ TftpInv'
         /\ \/ handle' = c /\ fptr' \in {at - 1, at} /\ fptr' <= Len(file)
            \/ handle' = None
<1> DEFINE m == DataFrom(c, n, BlockAt(at), ShortAt(at))
<1>1. c \in Clients /\ c # None /\ c \notin Writers
  BY TftpAssumption DEF Clients
<1>2. m.dir = "from" /\ m.op = "DATA" /\ m.who = c
  BY DEF DataFrom
<1>3. m # None => m.dir = "from" /\ m.op = "DATA" /\ m.who \in Clients
  BY <1>1, <1>2
<1>4. file \in Seq(Blocks) /\ NetInv
  BY DEF TftpInv, Shape
<1>5. CASE /\ lastData' = None /\ handle' = c /\ timers' = t /\ fptr' = at - 1
           /\ UNCHANGED <<net, saved, closeFailed>>
  <2>1. NetInv' /\ LastInv' /\ TimerRuns' /\ ClientInv' /\ WriterInv'
    BY <1>1, <1>5 DEF TftpInv, NetInv, MsgOK, LastInv, TimerRuns, ClientInv, WriterInv
  <2>2. Shape'
    BY <1>1, <1>5 DEF TftpInv, Shape
  <2> QED
    BY <1>5, <2>1, <2>2 DEF TftpInv, Shape
<1>6. CASE /\ Send(ErrorTo(c)) /\ handle' = None /\ lastData' = None /\ timers' = Pred(t)
           /\ fptr' = at - 1 /\ UNCHANGED <<saved, closeFailed>>
  <2>1. NetInv' /\ Grows /\ timers' \in Nat
    BY <1>1, <1>4, <1>6, SendError DEF Grows, Pred
  <2> QED
    BY <1>4, <1>6, <2>1, Ended
<1>7. CASE /\ Send(m) /\ lastData' = m /\ handle' = c /\ timers' = t
           /\ fptr' = (IF at <= Len(file) THEN at ELSE at - 1)
           /\ UNCHANGED <<saved, closeFailed>>
  <2>1. NetInv' /\ Grows
    BY <1>1, <1>2, <1>4, <1>7, SendBlock DEF Grows
  <2>2. LastInv'
    BY <1>3, <1>7 DEF LastInv
  <2>3. TimerRuns' /\ ClientInv' /\ WriterInv'
    BY <1>1, <1>7 DEF TftpInv, TimerRuns, ClientInv, WriterInv
  <2>4. Shape' /\ fptr' \in {at - 1, at} /\ fptr' <= Len(file)
    BY <1>1, <1>4, <1>7 DEF TftpInv, Shape
  <2> QED
    BY <1>7, <2>1, <2>2, <2>3, <2>4 DEF TftpInv
<1> QED
  BY <1>5, <1>6, <1>7 DEF SendData
---------------------------------------------------------------------------
(* The steps of the server, each with the step of FileTransfer it is *)

Keeps == TftpInv' /\ [Transfer!Next]_(Transfer!vars)

\* A datagram that is answered with an error, or not at all.
LEMMA AnsweredWithError ==
  ASSUME TftpInv, NEW m \in net, m.dir = "to",
         \/ Refuse(m) \/ RequestBusy(m) \/ RequestBad(m) \/ NoConnection(m)
         \/ DataWrong(m) \/ AckWrong(m)
  PROVE  Keeps
<1>0. m.who \in Clients /\ NetInv /\ timers \in Nat /\ (handle # None => timers > 0)
  BY DEF TftpInv, Shape, TimerRuns, NetInv, MsgOK
<1>1. CASE Refuse(m) \/ RequestBusy(m)
  <2>1. UNCHANGED <<handle, blknum, lastData, timers, card, clients, history>>
    BY <1>1 DEF Refuse, RequestBusy, server
  <2>2. Send(ErrorTo(m.who)) \/ Send(ErrorTo(handle))
    BY <1>1 DEF Refuse, RequestBusy
  <2>3. NetInv'
    BY <1>0, <1>1, <2>1, SendError DEF Refuse, RequestBusy, Grows, history
  <2> QED
    BY <1>0, <2>1, <2>3, Quiet DEF card, clients, history, Keeps
<1>2. CASE RequestBad(m)
  <2>1. /\ UNCHANGED <<handle, lastData, card, clients, history>> /\ handle = None
        /\ timers' = timers + 1 /\ Send(ErrorTo(m.who))
    BY <1>2 DEF RequestBad
  <2>2. NetInv'
    BY <1>0, <2>1, SendError DEF Grows, history
  <2> QED
    BY <1>0, <2>1, <2>2, Quiet DEF card, clients, history, Keeps
<1>3. CASE NoConnection(m) \/ DataWrong(m) \/ AckWrong(m)
  <2>1. /\ UNCHANGED <<handle, blknum, lastData, timers, card, clients, history>>
        /\ Send(ErrorTo(m.who))
    BY <1>3 DEF NoConnection, DataWrong, AckWrong
  <2>2. NetInv'
    BY <1>0, <2>1, SendError DEF Grows, history
  <2> QED
    BY <1>0, <2>1, <2>2, Quiet DEF card, clients, history, Keeps
<1> QED
  BY <1>1, <1>2, <1>3

LEMMA Opened ==
  ASSUME TftpInv, NEW m \in net, m.dir = "to", RequestWrite(m) \/ RequestRead(m)
  PROVE  Keeps
<1>0. /\ timers \in Nat /\ file \in Seq(Blocks) /\ NetInv /\ None \notin Clients
      /\ NBlocks \in Nat \ {0}
  BY TftpAssumption DEF TftpInv, Shape, Clients
<1>1. CASE RequestWrite(m)
  <2>1. /\ m.who \in Writers /\ handle = None /\ handle' = m.who /\ blknum' = 1 /\ fptr' = 0
        /\ timers' = timers + 1 /\ Send(From(m.who, "ACK", 0))
        /\ UNCHANGED <<lastData, file, cst, cblk, saved, closeFailed>>
    BY <1>1 DEF RequestWrite, clients, TftpInv, NetInv, MsgOK
  <2>2. m.who \in Clients /\ m.who # None
    BY <1>0, <2>1 DEF Clients
  <2>3. NetInv' /\ Grows
    BY <1>0, <2>1, <2>2, SendAck DEF Grows
  <2>4. Shape' /\ TimerRuns' /\ WriterInv' /\ LastInv' /\ ClientInv'
    <3>1. Shape'
      BY <1>0, <2>1, <2>2 DEF TftpInv, Shape
    <3> QED
      BY <3>1, <1>0, <2>1, <2>2 DEF TftpInv, TimerRuns, WriterInv, LastInv, ClientInv
  <2>5. Transfer!OpenToWrite
    BY <2>1, <2>2 DEF Transfer!OpenToWrite
  <2> QED
    BY <2>3, <2>4, <2>5 DEF Keeps, TftpInv, Transfer!Next
<1>2. CASE RequestRead(m)
  <2>1. /\ m.who \in Readers /\ handle = None /\ SendData(m.who, 1, 1, timers + 1)
        /\ UNCHANGED <<file, cst, cblk>>
    BY <1>2 DEF RequestRead, clients, TftpInv, NetInv, MsgOK
  <2>2. 1 <= Len(file) + 1 /\ timers + 1 \in Nat \ {0}
    BY <1>0
  <2>3. /\ TftpInv'
        /\ \/ handle' = m.who /\ fptr' \in {1 - 1, 1} /\ fptr' <= Len(file)
           \/ handle' = None
    BY <2>1, <2>2, Fetched
  <2>4. CASE handle' = m.who
    <3>1. m.who # None
      BY <1>0, <2>1 DEF Clients
    <3>2. fptr' \in {0, 1} /\ fptr' <= Len(file)
      BY <2>3, <2>4, <3>1
    <3>3. Transfer!OpenToRead
      BY <2>1, <2>4, <3>1, <3>2 DEF Transfer!OpenToRead
    <3> QED
      BY <2>3, <3>3 DEF Keeps, Transfer!Next
  <2>5. CASE handle' = None
    BY <2>1, <2>3, <2>5 DEF Keeps, Transfer!vars
  <2> QED
    BY <2>3, <2>4, <2>5
<1> QED
  BY <1>1, <1>2

\* The block a writer is served for is the next one.
LEMMA DataIsNext ==
  ASSUME TftpInv, NEW m \in net, m.dir = "to", m.op = "DATA", handle = m.who
  PROVE  /\ handle \in Writers /\ handle # None /\ handle \in Clients
         /\ m.blk \in 1 .. NBlocks /\ Next16(m.blk) = m.blk + 1
         /\ fptr \in Nat /\ fptr < NBlocks /\ blknum = fptr + 1
         /\ \A i \in 1 .. fptr : file[i] = <<handle, i>>
<1>1. m.who \in Writers /\ m.blk \in 1 .. NBlocks
  BY DEF TftpInv, NetInv, MsgOK
<1>2. Next16(m.blk) = m.blk + 1
  BY <1>1, NextNumber, TftpAssumption
<1>3. None \notin Writers /\ Writers \subseteq Clients
  BY TftpAssumption DEF Clients
<1> QED
  BY <1>1, <1>2, <1>3 DEF TftpInv, Shape, WriterInv

LEMMA Stored ==
  ASSUME TftpInv, NEW m \in net, m.dir = "to", DataNext(m)
  PROVE  Keeps
<1> DEFINE f == Put(file, fptr + 1, <<handle, m.blk>>)
<1>1. /\ m.op = "DATA" /\ handle = m.who /\ m.blk = blknum
      /\ file' = f /\ fptr' = fptr + 1 /\ Send(From(handle, "ACK", m.blk))
      /\ UNCHANGED <<cst, cblk>>
      /\ IF m.blk = NBlocks THEN CloseHandle(Pred(timers), f) /\ UNCHANGED <<blknum, opened>>
         ELSE blknum' = Next16(blknum) /\ UNCHANGED <<handle, lastData, timers, history>>
  BY DEF DataNext, clients
<1>2. /\ handle \in Writers /\ handle # None /\ handle \in Clients
      /\ m.blk \in 1 .. NBlocks /\ Next16(m.blk) = m.blk + 1
      /\ fptr \in Nat /\ fptr < NBlocks /\ m.blk = fptr + 1
      /\ \A i \in 1 .. fptr : file[i] = <<handle, i>>
  BY <1>1, DataIsNext
<1>3. /\ file \in Seq(Blocks) /\ fptr <= Len(file) /\ NetInv /\ timers \in Nat
      /\ NBlocks \in Nat
  BY TftpAssumption DEF TftpInv, Shape
<1>4. <<handle, m.blk>> \in Blocks
  BY <1>2, <1>3 DEF Blocks
<1>5. /\ f \in Seq(Blocks) /\ Len(f) >= fptr + 1 /\ Len(f) >= Len(file)
      /\ f[fptr + 1] = <<handle, m.blk>> /\ \A i \in 1 .. fptr : f[i] = file[i]
  BY <1>2, <1>3, <1>4, PutBlock
<1> HIDE DEF f
<1>6. \A i \in 1 .. fptr + 1 : f[i] = <<handle, i>>
  <2> TAKE i \in 1 .. fptr + 1
  <2>1. CASE i = fptr + 1
    BY <1>2, <1>5, <2>1
  <2>2. CASE i # fptr + 1
    <3>1. i \in 1 .. fptr
      BY <1>2, <2>2
    <3> QED
      BY <1>2, <1>5, <3>1
  <2> QED
    BY <2>1, <2>2
<1>7. CASE m.blk = NBlocks
  <2>1. CloseHandle(Pred(timers), f)
    BY <1>1, <1>7
  <2>2. Holds(f, handle)
    BY <1>2, <1>3, <1>5, <1>6, <1>7 DEF Holds
  <2>3. /\ handle' = None /\ lastData' = None /\ timers' = Pred(timers) /\ Grows
        /\ handle \in saved' \cup closeFailed'
    BY <1>2, <2>1, <2>2, Closed
  <2>4. NetInv'
    BY <1>1, <1>2, <1>3, <2>3, SendAck
  <2>5. TftpInv'
    <3>1. timers' \in Nat /\ fptr' \in Nat /\ file' \in Seq(Blocks) /\ fptr' <= Len(file')
      BY <1>1, <1>2, <1>3, <1>5, <2>3 DEF Pred
    <3> QED
      BY <1>1, <2>3, <2>4, <3>1, Ended
  <2>6. Transfer!Store
    <3>1. file' = Transfer!Put(file, fptr + 1, <<handle, fptr + 1>>)
      BY <1>1, <1>2 DEF f, Put, Transfer!Put
    <3> QED
      BY <1>2, <1>7, <2>3, <3>1 DEF Transfer!Store
  <2> QED
    BY <2>5, <2>6 DEF Keeps, Transfer!Next
<1>8. CASE m.blk # NBlocks
  <2>1. /\ blknum' = fptr' + 1 /\ fptr' < NBlocks
        /\ UNCHANGED <<handle, lastData, timers, saved, closeFailed>>
    BY <1>1, <1>2, <1>3, <1>8 DEF history
  <2>2. NetInv' /\ Grows
    BY <1>1, <1>2, <1>3, <1>8, <2>1, SendAck DEF Grows
  <2>3. Shape'
    BY <1>1, <1>2, <1>3, <1>5, <2>1 DEF TftpInv, Shape
  <2>4. TimerRuns' /\ LastInv' /\ ClientInv'
    BY <1>1, <2>1 DEF TftpInv, TimerRuns, LastInv, ClientInv
  <2>5. WriterInv'
    BY <1>1, <1>2, <1>6, <2>1 DEF WriterInv
  <2>6. Transfer!Store
    <3>1. file' = Transfer!Put(file, fptr + 1, <<handle, fptr + 1>>)
      BY <1>1, <1>2 DEF f, Put, Transfer!Put
    <3> QED
      BY <1>1, <1>2, <2>1, <3>1 DEF Transfer!Store
  <2> QED
    BY <2>2, <2>3, <2>4, <2>5, <2>6 DEF Keeps, TftpInv, Transfer!Next
<1> QED
  BY <1>7, <1>8
LEMMA StoreFailed ==
  ASSUME TftpInv, NEW m \in net, m.dir = "to", DataFails(m)
  PROVE  Keeps
<1>1. /\ m.op = "DATA" /\ handle = m.who /\ Send(ErrorTo(handle))
      /\ UNCHANGED <<fptr, cst, cblk>>
  BY DEF DataFails, clients
<1>2. PICK f \in {file, Put(file, fptr + 1, Torn)} :
        /\ file' = f
        /\ CloseHandle(IF m.blk = NBlocks THEN Pred(Pred(timers)) ELSE Pred(timers), f)
  BY DEF DataFails
<1>3. handle \in Writers /\ handle # None /\ handle \in Clients
  BY <1>1, DataIsNext
<1>4. file \in Seq(Blocks) /\ fptr \in Nat /\ fptr <= Len(file) /\ NetInv /\ timers \in Nat
  BY DEF TftpInv, Shape
<1>5. Torn \in Blocks
  BY DEF Torn, Blocks
<1>6. f \in Seq(Blocks) /\ fptr <= Len(f)
  <2>1. Put(file, fptr + 1, Torn) \in Seq(Blocks) /\ Len(Put(file, fptr + 1, Torn)) >= Len(file)
    BY <1>4, <1>5, PutBlock
  <2>2. CASE f = file
    BY <1>4, <2>2
  <2>3. CASE f = Put(file, fptr + 1, Torn)
    <3>1. Len(f) >= Len(file) /\ f \in Seq(Blocks)
      BY <2>1, <2>3, Zenon
    <3> QED
      BY <1>4, <3>1
  <2> QED
    BY <1>2, <2>2, <2>3
<1>7. handle' = None /\ lastData' = None /\ timers' \in Nat /\ Grows
  BY <1>2, <1>3, <1>4, Closed DEF Pred
<1>8. NetInv'
  BY <1>1, <1>3, <1>4, <1>7, SendError
<1>9. TftpInv'
  BY <1>1, <1>2, <1>4, <1>6, <1>7, <1>8, Ended
<1>10. CASE f = file
  BY <1>2, <1>3, <1>7, <1>9, <1>10 DEF Keeps, Transfer!Next, Transfer!Close
<1>11. CASE f = Put(file, fptr + 1, Torn)
  <2>1. file' = Transfer!Put(file, fptr + 1, Transfer!Torn)
    BY <1>2, <1>11 DEF Put, Transfer!Put, Torn, Transfer!Torn
  <2> QED
    BY <1>3, <1>7, <1>9, <2>1 DEF Keeps, Transfer!Next, Transfer!Spoil
<1> QED
  BY <1>2, <1>10, <1>11

\* A block that was stored before is acknowledged again; it is not the last,
\* whose acknowledgement ended the session.
LEMMA Repeated ==
  ASSUME TftpInv, NEW m \in net, m.dir = "to", DataRepeated(m)
  PROVE  Keeps
<1>1. /\ m.op = "DATA" /\ handle = m.who /\ Next16(m.blk) = blknum
      /\ Send(From(handle, "ACK", m.blk))
      /\ UNCHANGED <<handle, blknum, lastData, timers, card, clients, history>>
  BY DEF DataRepeated
<1>2. /\ handle \in Clients /\ m.blk \in 1 .. NBlocks /\ blknum = m.blk + 1
      /\ fptr \in Nat /\ fptr < NBlocks /\ blknum = fptr + 1
  BY <1>1, DataIsNext
<1>3. m.blk # NBlocks
  BY <1>2, TftpAssumption
<1>4. NetInv'
  BY <1>1, <1>2, <1>3, SendAck DEF TftpInv, Grows, history
<1>5. timers' \in Nat /\ (handle # None => timers' > 0)
  BY <1>1 DEF TftpInv, Shape, TimerRuns
<1> QED
  BY <1>1, <1>4, <1>5, Quiet DEF card, clients, history, Keeps

LEMMA Acknowledged ==
  ASSUME TftpInv, NEW m \in net, m.dir = "to", AckNext(m) \/ AckLast(m)
  PROVE  Keeps
<1>0. /\ timers \in Nat /\ file \in Seq(Blocks) /\ fptr \in Nat /\ fptr <= Len(file) /\ NetInv
      /\ None \notin Clients /\ (handle # None => timers > 0)
  BY TftpAssumption DEF TftpInv, Shape, TimerRuns, Clients
<1>1. handle \in Readers /\ handle # None
  BY <1>0 DEF AckNext, AckLast, TftpInv, NetInv, MsgOK, Clients
<1>2. CASE AckNext(m)
  <2>1. SendData(handle, Next16(blknum), fptr + 1, timers) /\ UNCHANGED <<file, cst, cblk>>
    BY <1>2 DEF AckNext, clients
  <2>2. PICK at \in Nat \ {0} : at = fptr + 1
    BY <1>0
  <2>3. timers \in Nat \ {0} /\ at <= Len(file) + 1 /\ at - 1 = fptr
    BY <1>0, <1>1, <2>2
  <2>4. SendData(handle, Next16(blknum), at, timers)
    BY <2>1, <2>2, Zenon
  <2>5. /\ TftpInv'
        /\ \/ handle' = handle /\ fptr' \in {at - 1, at} /\ fptr' <= Len(file)
           \/ handle' = None
    BY <1>1, <2>1, <2>3, <2>4, Fetched
  <2>6. CASE handle' = handle /\ fptr' = fptr
    BY <2>1, <2>5, <2>6 DEF Keeps, Transfer!vars
  <2>7. CASE handle' = handle /\ fptr' = fptr + 1 /\ fptr' <= Len(file)
    <3>1. Transfer!Fetch
      BY <1>0, <1>1, <2>1, <2>7 DEF Transfer!Fetch
    <3> QED
      BY <2>5, <3>1 DEF Keeps, Transfer!Next
  <2>8. CASE handle' = None
    BY <1>1, <2>1, <2>5, <2>8 DEF Keeps, Transfer!Next, Transfer!Close
  <2> QED
    BY <2>2, <2>3, <2>5, <2>6, <2>7, <2>8
<1>3. CASE AckLast(m)
  <2>1. CloseHandle(Pred(timers), file) /\ UNCHANGED <<file, fptr, net, cst, cblk>>
    BY <1>3 DEF AckLast, card, clients
  <2>2. handle' = None /\ lastData' = None /\ timers' \in Nat /\ Grows
    BY <1>0, <1>1, <2>1, Closed DEF Pred
  <2>3. NetInv'
    BY <1>0, <2>1, <2>2 DEF NetInv, MsgOK, Grows
  <2>4. TftpInv'
    BY <1>0, <2>1, <2>2, <2>3, Ended
  <2> QED
    BY <1>1, <2>1, <2>2, <2>4 DEF Keeps, Transfer!Next, Transfer!Close
<1> QED
  BY <1>2, <1>3

LEMMA Ticked ==
  ASSUME TftpInv, Timer
  PROVE  Keeps
<1>0. timers \in Nat /\ (handle # None => timers > 0) /\ NetInv
  BY DEF TftpInv, Shape, TimerRuns
<1>1. CASE TimerIdle \/ TimerWait
  <2>1. /\ UNCHANGED <<handle, blknum, lastData, card, net, clients, history>>
        /\ timers' \in Nat /\ (handle # None => timers' > 0)
    BY <1>0, <1>1 DEF TimerIdle, TimerWait
  <2>2. NetInv'
    BY <1>0, <2>1 DEF NetInv, MsgOK, history
  <2> QED
    BY <2>1, <2>2, Quiet DEF card, clients, history, Keeps
<1>2. CASE TimerRetry
  <2>1. /\ UNCHANGED <<handle, blknum, lastData, timers, card, clients, history>>
        /\ lastData # None /\ Send(lastData)
    BY <1>2 DEF TimerRetry
  <2>2. NetInv'
    BY <1>0, <2>1, SendBlock DEF TftpInv, LastInv, Grows, history
  <2> QED
    BY <1>0, <2>1, <2>2, Quiet DEF card, clients, history, Keeps
<1>3. CASE TimerGiveUp
  <2>1. /\ handle # None /\ CloseHandle(Pred(timers), file) /\ net' = net
        /\ UNCHANGED <<file, fptr, cst, cblk>>
    BY <1>3 DEF TimerGiveUp, card, clients
  <2>2. handle' = None /\ lastData' = None /\ timers' \in Nat /\ Grows
    BY <1>0, <2>1, Closed DEF Pred
  <2>3. NetInv'
    BY <1>0, <2>1, <2>2 DEF NetInv, MsgOK, Grows
  <2>4. file \in Seq(Blocks) /\ fptr \in Nat /\ fptr <= Len(file)
    BY DEF TftpInv, Shape
  <2>5. TftpInv'
    BY <2>1, <2>2, <2>3, <2>4, Ended
  <2> QED
    BY <2>1, <2>2, <2>5 DEF Keeps, Transfer!Next, Transfer!Close
<1> QED
  BY <1>1, <1>2, <1>3 DEF Timer
---------------------------------------------------------------------------
(* The clients *)

LEMMA Clienting ==
  ASSUME TftpInv, NEW c \in Clients, Client(c)
  PROVE  Keeps
<1>0. /\ Shape /\ NetInv /\ ClientInv /\ NBlocks \in Nat \ {0}
      /\ \A w \in Writers : w \in Clients /\ w \notin Readers
      /\ \A w \in Clients : w \in Writers \/ w \in Readers
  BY TftpAssumption DEF TftpInv, Clients
<1>1. UNCHANGED <<server, card, history>>
  BY DEF Client, Request, Repeat, ClientAck, ClientData, ClientError
<1>2. Grows
  BY <1>1 DEF Grows, history
<1>3. ASSUME NetInv', ClientInv', cst' \in [Clients -> {"idle", "asking", "moving", "done", "failed"}],
             cblk' \in [Clients -> Nat]
      PROVE  Keeps
  <2>1. Shape' /\ TimerRuns' /\ WriterInv' /\ LastInv'
    BY <1>1, <1>3 DEF TftpInv, Shape, TimerRuns, WriterInv, LastInv, server, card
  <2>2. UNCHANGED Transfer!vars
    BY <1>1 DEF Transfer!vars, server, card
  <2> QED
    BY <1>3, <2>1, <2>2 DEF Keeps, TftpInv
<1>4. CASE Request(c)
  <2>1. /\ cst[c] = "idle" /\ cst' = [cst EXCEPT ![c] = "asking"] /\ cblk' = cblk
        /\ Send(To(c, IF c \in Writers THEN "WRQ" ELSE "RRQ", 0))
    BY <1>4 DEF Request
  <2>2. NetInv'
    BY <1>0, <1>2, <2>1, SendTo
  <2>3. ClientInv'
    BY <1>0, <1>1, <2>1 DEF Shape, ClientInv, history
  <2>4. cst' \in [Clients -> {"idle", "asking", "moving", "done", "failed"}] /\ cblk' \in [Clients -> Nat]
    BY <1>0, <2>1 DEF Shape
  <2> QED
    BY <1>3, <2>2, <2>3, <2>4
<1>5. CASE Repeat(c)
  <2>1. cst[c] \in {"asking", "moving"} /\ UNCHANGED <<cst, cblk>> /\ Send(LastSent(c))
    BY <1>5 DEF Repeat, clients
  <2>2. NetInv'
    <3>1. CASE cst[c] = "asking"
      <4>1. Send(To(c, IF c \in Writers THEN "WRQ" ELSE "RRQ", 0))
        BY <2>1, <3>1 DEF LastSent
      <4> QED
        BY <1>0, <1>2, <4>1, SendTo
    <3>2. CASE cst[c] = "moving" /\ c \in Writers
      <4>0. c \notin Readers
        BY <1>0, <3>2
      <4>1. Send(To(c, "DATA", cblk[c] + 1))
        BY <2>1, <3>2, <4>0 DEF LastSent
      <4>2. cblk[c] + 1 \in 1 .. NBlocks
        BY <1>0, <3>2 DEF Shape, ClientInv
      <4> QED
        BY <1>0, <1>2, <3>2, <4>1, <4>2, SendTo
    <3>3. CASE cst[c] = "moving" /\ c \notin Writers
      <4>0. c \in Readers
        BY <1>0, <3>3
      <4>1. Send(To(c, "ACK", cblk[c]))
        BY <2>1, <3>3, <4>0 DEF LastSent
      <4> QED
        BY <1>2, <4>0, <4>1, SendTo DEF TftpInv
    <3> QED
      BY <2>1, <3>1, <3>2, <3>3
  <2>3. ClientInv' /\ cst' = cst /\ cblk' = cblk
    BY <1>0, <1>1, <2>1 DEF ClientInv, history
  <2> QED
    BY <1>0, <1>3, <2>2, <2>3 DEF Shape
<1>6. CASE ClientAck(c)
  <2>1. /\ c \in Writers /\ cblk[c] \in Nat
        /\ \/ cst[c] = "asking" /\ cblk' = cblk
           \/ /\ cst[c] = "moving" /\ From(c, "ACK", cblk[c] + 1) \in net
              /\ cblk' = [cblk EXCEPT ![c] = cblk[c] + 1]
        /\ IF cblk'[c] = NBlocks
           THEN cst' = [cst EXCEPT ![c] = "done"] /\ net' = net
           ELSE cst' = [cst EXCEPT ![c] = "moving"] /\ Send(To(c, "DATA", cblk'[c] + 1))
    BY <1>0, <1>6 DEF ClientAck, Shape
  <2>2. /\ cblk'[c] \in 0 .. NBlocks /\ cblk' \in [Clients -> Nat]
        /\ \A d \in Clients \ {c} : cblk'[d] = cblk[d]
    BY <1>0, <2>1 DEF Shape, ClientInv
  <2>3. cblk'[c] = NBlocks => c \in saved \cup closeFailed
    <3>1. SUFFICES ASSUME cblk'[c] = NBlocks PROVE c \in saved \cup closeFailed
      OBVIOUS
    <3>2. cst[c] = "moving" /\ From(c, "ACK", cblk[c] + 1) \in net /\ cblk[c] + 1 = NBlocks
      BY <1>0, <2>1, <3>1 DEF Shape, ClientInv
    <3>3. From(c, "ACK", NBlocks) \in net
      BY <3>2
    <3>4. MsgOK(From(c, "ACK", NBlocks))
      BY <1>0, <3>3 DEF NetInv
    <3> QED
      BY <2>1, <3>4 DEF MsgOK, From
  <2>4. CASE cblk'[c] = NBlocks
    <3>1. cst' = [cst EXCEPT ![c] = "done"] /\ net' = net
      BY <2>1, <2>4
    <3>2. NetInv'
      BY <1>0, <1>1, <3>1 DEF NetInv, MsgOK, history
    <3>3. ClientInv' /\ cst' \in [Clients -> {"idle", "asking", "moving", "done", "failed"}]
      BY <1>0, <1>1, <2>2, <2>3, <2>4, <3>1 DEF ClientInv, Shape, history
    <3> QED
      BY <1>3, <2>2, <3>2, <3>3
  <2>5. CASE cblk'[c] # NBlocks
    <3>1. cst' = [cst EXCEPT ![c] = "moving"] /\ Send(To(c, "DATA", cblk'[c] + 1))
      BY <2>1, <2>5
    <3>2. cblk'[c] + 1 \in 1 .. NBlocks /\ cblk'[c] < NBlocks
      BY <1>0, <2>2, <2>5
    <3>3. NetInv'
      BY <1>0, <1>2, <2>1, <3>1, <3>2, SendTo
    <3>4. ClientInv' /\ cst' \in [Clients -> {"idle", "asking", "moving", "done", "failed"}]
      BY <1>0, <1>1, <2>2, <3>1, <3>2 DEF ClientInv, Shape, history
    <3> QED
      BY <1>3, <2>2, <3>3, <3>4
  <2> QED
    BY <2>4, <2>5
<1>7. CASE ClientData(c)
  <2>1. PICK m \in net :
          /\ c \in Readers /\ cblk' = [cblk EXCEPT ![c] = cblk[c] + 1]
          /\ cst' = [cst EXCEPT ![c] = IF m.short THEN "done" ELSE "moving"]
          /\ Send(To(c, "ACK", m.blk))
    BY <1>0, <1>7 DEF ClientData, Shape
  <2>2. NetInv'
    BY <1>0, <1>2, <2>1, SendTo
  <2>3. \A w \in Writers : cst'[w] = cst[w] /\ cblk'[w] = cblk[w]
    BY <1>0, <2>1 DEF Shape
  <2>4. ClientInv'
    BY <1>0, <1>1, <2>3 DEF ClientInv, history
  <2>5. cst' \in [Clients -> {"idle", "asking", "moving", "done", "failed"}] /\ cblk' \in [Clients -> Nat]
    BY <1>0, <2>1 DEF Shape
  <2> QED
    BY <1>3, <2>2, <2>4, <2>5
<1>8. CASE ClientError(c)
  <2>1. cst' = [cst EXCEPT ![c] = "failed"] /\ UNCHANGED <<cblk, net>>
    BY <1>8 DEF ClientError
  <2>2. NetInv' /\ ClientInv'
    BY <1>0, <1>1, <2>1 DEF NetInv, MsgOK, ClientInv, Shape, history
  <2>3. cst' \in [Clients -> {"idle", "asking", "moving", "done", "failed"}] /\ cblk' \in [Clients -> Nat]
    BY <1>0, <2>1 DEF Shape
  <2> QED
    BY <1>3, <2>2, <2>3
<1> QED
  BY <1>4, <1>5, <1>6, <1>7, <1>8 DEF Client

---------------------------------------------------------------------------
LEMMA InitTftpInv == Init => TftpInv /\ Transfer!Init
<1> SUFFICES ASSUME Init PROVE TftpInv /\ Transfer!Init
  OBVIOUS
<1>0. /\ None \notin Clients /\ Writers \subseteq Clients /\ NOld \in Nat
  BY TftpAssumption DEF Clients
<1>1. OldFile \in Seq(Blocks)
  <2>1. \A i \in 1 .. NOld : <<None, i>> \in Blocks
    BY <1>0 DEF Blocks
  <2> QED
    BY <1>0, <2>1 DEF OldFile
<1>2. Shape
  BY <1>0, <1>1 DEF Init, Shape
<1>3. TimerRuns /\ WriterInv /\ NetInv /\ LastInv /\ ClientInv
  BY <1>0 DEF Init, TimerRuns, WriterInv, NetInv, LastInv, ClientInv
<1>4. Transfer!Init
  BY DEF Init, Transfer!Init, OldFile, Transfer!OldFile
<1> QED
  BY <1>2, <1>3, <1>4 DEF TftpInv

LEMMA NextKeeps ==
  ASSUME TftpInv, [Next]_vars
  PROVE  Keeps
<1>1. ASSUME NEW m \in net, m.dir = "to", Recv(m)
      PROVE  Keeps
  BY <1>1, AnsweredWithError, Opened, Stored, StoreFailed, Repeated, Acknowledged DEF Recv
<1>2. CASE UNCHANGED vars
  <2>1. timers' \in Nat /\ (handle # None => timers' > 0)
    BY <1>2 DEF TftpInv, Shape, TimerRuns, vars, server
  <2>2. NetInv'
    BY <1>2 DEF TftpInv, NetInv, MsgOK, vars, history
  <2> QED
    BY <1>2, <2>1, <2>2, Quiet DEF vars, server, card, clients, history, Keeps
<1> QED
  BY <1>1, <1>2, Ticked, Clienting DEF Next, Receive

LEMMA Invariant == Spec => []TftpInv
<1>1. TftpInv /\ [Next]_vars => TftpInv'
  BY NextKeeps DEF Keeps
<1> QED
  BY <1>1, InitTftpInv, PTL DEF Spec

\* A transfer always has a timer that will end it, whatever requests were
\* refused before and while it ran.
THEOREM TransferHasTimer == Spec => []TimerRuns
<1>1. TftpInv => TimerRuns
  BY DEF TftpInv
<1> QED
  BY <1>1, Invariant, PTL

\* A client whose last block was acknowledged had its whole file on the card,
\* unless closing it failed, for any number of clients and blocks.
THEOREM DoneMeansStored == Spec => []DoneIsStored
<1>1. TftpInv => DoneIsStored
  BY DEF TftpInv, ClientInv, DoneIsStored
<1> QED
  BY <1>1, Invariant, PTL

\* The server implements FileTransfer over a network that loses, repeats and
\* reorders.
THEOREM Implements == Spec => TransferSpec
<1>1. TftpInv /\ [Next]_vars => TftpInv' /\ [Transfer!Next]_(Transfer!vars)
  BY NextKeeps DEF Keeps
<1> QED
  BY <1>1, InitTftpInv, PTL DEF Spec, TransferSpec, Transfer!Spec
=============================================================================
