--------------------------- MODULE TftpReadProofs ---------------------------
(***************************************************************************)
(* What a reading client ends up with, proved for any clients, file sizes, *)
(* time-outs, retries and repeated requests; and the types of Tftp, which  *)
(* the proof stands on.  TftpProofs has the invariant of the server and of *)
(* the writing clients.                                                    *)
(***************************************************************************)
EXTENDS TftpProofs, SequenceTheorems

---------------------------------------------------------------------------
(* Types, and what can stand in the file *)

FileBlocks == (Clients \X (1 .. NBlocks)) \cup ({None} \X (0 .. NOld))

InFile(f) ==
  /\ f \in Seq(Blocks) /\ Len(f) <= NBlocks + NOld
  /\ \A i \in 1 .. Len(f) : f[i] \in FileBlocks

IsBlock(m) == m.dir = "from" /\ m.op = "DATA"
DataOK(m)  == m.blk \in 0 .. BlkMod - 1 /\ m.data \in Blocks

\* The packet kept for a retry belongs to the client served.
LastOwn == lastData # None => lastData.who = handle /\ DataOK(lastData)
NetData == \A m \in net : IsBlock(m) => DataOK(m)

Counters ==
  /\ blknum \in 0 .. BlkMod - 1 /\ timers \in 0 .. MaxTimers
  /\ age \in 0 .. Timeout + 1 /\ retries \in 0 .. MaxRetries

ClientTypes ==
  /\ got \in [Readers -> Seq(Blocks)]
  /\ \A c \in Clients : cblk[c] \in 0 .. BlkMod - 1
  /\ \A c \in Writers : cblk[c] <= NBlocks

HistoryTypes ==
  /\ saved \subseteq Writers /\ closeFailed \subseteq Writers
  /\ opens \in 0 .. MaxOpens /\ skipped \subseteq Readers
  /\ seen \in [Readers -> SUBSET Seq(Blocks)]

TypeInv == /\ Counters /\ ClientTypes /\ HistoryTypes
           /\ InFile(file) /\ LastOwn /\ NetData

\* Without a client there is no packet.
LEMMA NoPacket ==
  ASSUME TftpInv, TypeInv, handle = None
  PROVE  lastData = None
<1>1. None \notin Clients
  BY TftpAssumption DEF Clients
<1> QED
  BY <1>1 DEF TftpInv, LastInv, TypeInv, LastOwn

LEMMA NumberInRange ==
  ASSUME NEW n \in Nat
  PROVE  Next16(n) \in 0 .. BlkMod - 1
BY TftpAssumption DEF Next16

\* Writing a block at the file pointer of a writing client.
LEMMA PutInFile ==
  ASSUME NEW f, InFile(f), NEW n \in Nat, n <= Len(f), n < NBlocks,
         NEW b \in FileBlocks
  PROVE  InFile(Put(f, n + 1, b))
<1>0. NBlocks \in Nat \ {0} /\ NOld \in Nat \ {0}
  BY TftpAssumption
<1>1. f \in Seq(Blocks) /\ Len(f) \in Nat /\ b \in Blocks
  BY DEF InFile, FileBlocks, Blocks
<1>2. CASE n + 1 > Len(f)
  <2>1. Put(f, n + 1, b) = Append(f, b) /\ Len(f) = n
    BY <1>1, <1>2 DEF Put
  <2>2. /\ Append(f, b) \in Seq(Blocks) /\ Len(Append(f, b)) = n + 1
        /\ \A i \in 1 .. n : Append(f, b)[i] = f[i]
        /\ Append(f, b)[n + 1] = b
    BY <1>1, <2>1, AppendProperties
  <2>3. \A i \in 1 .. n + 1 : i = n + 1 \/ i \in 1 .. n
    OBVIOUS
  <2> QED
    BY <1>0, <2>1, <2>2, <2>3 DEF InFile
<1>3. CASE ~(n + 1 > Len(f))
  <2>1. Put(f, n + 1, b) = [f EXCEPT ![n + 1] = b]
    BY <1>3 DEF Put
  <2>2. n + 1 \in 1 .. Len(f)
    BY <1>1, <1>3
  <2>3. /\ [f EXCEPT ![n + 1] = b] \in Seq(Blocks)
        /\ Len([f EXCEPT ![n + 1] = b]) = Len(f)
        /\ \A i \in 1 .. Len(f) :
             [f EXCEPT ![n + 1] = b][i] = IF i = n + 1 THEN b ELSE f[i]
    BY <1>1, <2>2
  <2> QED
    BY <2>1, <2>3 DEF InFile
<1> QED
  BY <1>2, <1>3

\* Every block the server reads, the empty one after the end included.
LEMMA ReadBlock ==
  ASSUME InFile(file), NEW at \in Nat \ {0}
  PROVE  BlockAt(at) \in Blocks
<1>1. EndMark \in Blocks
  BY TftpAssumption DEF EndMark, Blocks
<1>2. at <= Len(file) => file[at] \in Blocks
  BY ElementOfSeq DEF InFile
<1> QED
  BY <1>1, <1>2 DEF BlockAt

---------------------------------------------------------------------------
(* The network: what Send leaves is what there was, and its datagram.      *)

LEMMA SentIn ==
  ASSUME NEW m, Send(m)
  PROVE  \A x \in net' : x \in net \/ x = m
BY DEF Send

LEMMA NetDataSend ==
  ASSUME NetData, NEW m, Send(m), IsBlock(m) => DataOK(m)
  PROVE  NetData'
BY SentIn DEF NetData, IsBlock, DataOK

LEMMA NetDataError ==
  ASSUME NetData, NEW c, Send(ErrorTo(c))
  PROVE  NetData'
<1>1. ~IsBlock(ErrorTo(c))
  BY DEF IsBlock, ErrorTo, From
<1> QED
  BY <1>1, NetDataSend

LEMMA NetDataAck ==
  ASSUME NetData, NEW c, NEW n, Send(From(c, "ACK", n))
  PROVE  NetData'
<1>1. ~IsBlock(From(c, "ACK", n))
  BY DEF IsBlock, From
<1> QED
  BY <1>1, NetDataSend

LEMMA NetDataTo ==
  ASSUME NetData, NEW c, NEW op, NEW n, Send(To(c, op, n))
  PROVE  NetData'
<1>1. ~IsBlock(To(c, op, n))
  BY DEF IsBlock, To
<1> QED
  BY <1>1, NetDataSend

\* What send_data does to the packet, the timers and the network.
LEMMA FetchedTypes ==
  ASSUME InFile(file), NetData, NEW c, NEW n \in 0 .. BlkMod - 1,
         NEW at \in Nat \ {0}, NEW t \in 0 .. MaxTimers, SendData(c, n, at, t)
  PROVE  /\ NetData' /\ LastOwn' /\ timers' \in 0 .. MaxTimers
         /\ UNCHANGED <<saved, closeFailed>>
<1> DEFINE m == DataFrom(c, n, BlockAt(at), ShortAt(at))
<1>1. DataOK(m) /\ m.who = c
  BY ReadBlock DEF DataFrom, DataOK
<1>2. Pred(t) \in 0 .. MaxTimers
  BY TftpAssumption DEF Pred
<1> HIDE DEF m
<1>3. CASE /\ lastData' = None /\ handle' = c /\ timers' = t /\ fptr' = at - 1
           /\ UNCHANGED <<net, saved, closeFailed>>
  BY <1>3 DEF NetData, LastOwn, IsBlock, DataOK
<1>4. CASE /\ Send(ErrorTo(c)) /\ handle' = None /\ lastData' = None /\ timers' = Pred(t)
           /\ fptr' = at - 1 /\ UNCHANGED <<saved, closeFailed>>
  BY <1>2, <1>4, NetDataError DEF LastOwn
<1>5. CASE /\ Send(m) /\ lastData' = m /\ handle' = c /\ timers' = t
           /\ UNCHANGED <<saved, closeFailed>>
  <2>1. NetData'
    BY <1>1, <1>5, NetDataSend
  <2>2. LastOwn'
    BY <1>1, <1>5 DEF LastOwn, DataOK
  <2> QED
    BY <1>5, <2>1, <2>2
<1> QED
  BY <1>3, <1>4, <1>5 DEF SendData, m

LEMMA ClosedTypes ==
  ASSUME HistoryTypes, handle \in Clients, NEW n, NEW f, CloseHandle(n, f)
  PROVE  /\ LastOwn' /\ timers' = n
         /\ saved' \subseteq Writers /\ closeFailed' \subseteq Writers
BY DEF CloseHandle, HistoryTypes, LastOwn

---------------------------------------------------------------------------
(* Every step keeps the types. *)

\* Requests and refusals.
LEMMA TypesAnswered ==
  ASSUME TftpInv, TypeInv, NEW m \in net, m.dir = "to",
         \/ Refuse(m) \/ RequestBusy(m) \/ RequestBad(m) \/ NoConnection(m)
         \/ DataWrong(m) \/ AckWrong(m) \/ DataRepeated(m)
  PROVE  TypeInv'
<1> USE TftpAssumption
<1>1. /\ UNCHANGED <<handle, lastData, card, clients, history>>
      /\ blknum' \in {blknum, 1} /\ timers' \in {timers, timers + 1}
      /\ timers' = timers \/ timers < MaxTimers
      /\ age' \in {age, 0} /\ retries' \in {retries, 0}
  BY DEF Refuse, RequestBusy, RequestBad, NoConnection, DataWrong, AckWrong, DataRepeated,
         Heard, server
<1>2. NetData'
  <2>1. \/ \E c : Send(ErrorTo(c))
        \/ \E c, n : Send(From(c, "ACK", n))
    BY DEF Refuse, RequestBusy, RequestBad, NoConnection, DataWrong, AckWrong, DataRepeated
  <2> QED
    BY <2>1, NetDataError, NetDataAck DEF TypeInv
<1>3. Counters'
  BY <1>1 DEF TypeInv, Counters
<1>4. ClientTypes' /\ HistoryTypes' /\ InFile(file)' /\ LastOwn'
  BY <1>1 DEF TypeInv, ClientTypes, HistoryTypes, InFile, LastOwn, DataOK, card, clients,
              history, opened
<1> QED
  BY <1>2, <1>3, <1>4 DEF TypeInv

LEMMA TypesOpened ==
  ASSUME TftpInv, TypeInv, NEW m \in net, m.dir = "to", RequestWrite(m) \/ RequestRead(m)
  PROVE  TypeInv'
<1> USE TftpAssumption
<1>0. m.who \in Clients
  BY DEF TftpInv, NetInv, MsgOK
<1>1. /\ UNCHANGED <<file, clients>> /\ blknum' = 1 /\ age' = 0 /\ retries' = 0
      /\ opens < MaxOpens /\ opens' = opens + 1 /\ skipped' = skipped
      /\ timers < MaxTimers /\ handle = None
  BY DEF RequestWrite, RequestRead, Heard
<1>2. /\ opens' \in 0 .. MaxOpens /\ skipped' \subseteq Readers
      /\ seen' \in [Readers -> SUBSET Seq(Blocks)]
  <2>1. CASE RequestWrite(m)
    BY <1>1, <2>1 DEF RequestWrite, TypeInv, HistoryTypes
  <2>2. CASE RequestRead(m)
    <3>1. m.who \in Readers /\ file \in Seq(Blocks)
      BY <2>2 DEF RequestRead, TftpInv, NetInv, MsgOK, Shape
    <3>2. seen' = [seen EXCEPT ![m.who] = seen[m.who] \cup {file}]
      BY <2>2 DEF RequestRead
    <3> QED
      BY <1>1, <3>1, <3>2 DEF TypeInv, HistoryTypes
  <2> QED
    BY <2>1, <2>2
<1>3. timers + 1 \in 0 .. MaxTimers
  BY <1>1 DEF TypeInv, Counters
<1>4. NetData' /\ LastOwn' /\ timers' \in 0 .. MaxTimers /\ UNCHANGED <<saved, closeFailed>>
  <2>1. CASE RequestWrite(m)
    <3>1. lastData' = None
      BY <1>1, <2>1, NoPacket DEF RequestWrite
    <3>2. NetData'
      BY <2>1, NetDataAck DEF RequestWrite, TypeInv
    <3> QED
      BY <1>3, <2>1, <3>1, <3>2 DEF RequestWrite, LastOwn
  <2>2. CASE RequestRead(m)
    <3>1. SendData(m.who, 1, 1, timers + 1)
      BY <2>2 DEF RequestRead
    <3>2. 1 \in 0 .. BlkMod - 1 /\ 1 \in Nat \ {0}
      OBVIOUS
    <3> QED
      BY <1>3, <3>1, <3>2, FetchedTypes DEF TypeInv
  <2> QED
    BY <2>1, <2>2
<1>5. Counters'
  BY <1>1, <1>4 DEF Counters
<1>6. ClientTypes' /\ HistoryTypes' /\ InFile(file)'
  BY <1>1, <1>2, <1>4 DEF TypeInv, ClientTypes, HistoryTypes, InFile, clients
<1> QED
  BY <1>4, <1>5, <1>6 DEF TypeInv

\* A block of data arrives for the file.
LEMMA TypesData ==
  ASSUME TftpInv, TypeInv, NEW m \in net, m.dir = "to", DataNext(m) \/ DataFails(m)
  PROVE  TypeInv'
<1> USE TftpAssumption
<1>1. /\ m.op = "DATA" /\ handle = m.who /\ m.blk = blknum
      /\ UNCHANGED <<clients, opens, seen, skipped>> /\ age' = 0 /\ retries' = 0
  BY DEF DataNext, DataFails, Heard, history, opened
<1>2. /\ handle \in Writers /\ handle \in Clients /\ m.blk \in 1 .. NBlocks
      /\ fptr \in Nat /\ fptr < NBlocks /\ fptr <= Len(file) /\ blknum = fptr + 1
  BY <1>1, DataIsNext DEF TftpInv, Shape
<1>3. <<handle, m.blk>> \in FileBlocks /\ Torn \in FileBlocks
  BY <1>2 DEF FileBlocks, Torn
<1>4. InFile(file)'
  <2>1. InFile(Put(file, fptr + 1, <<handle, m.blk>>)) /\ InFile(Put(file, fptr + 1, Torn))
    BY <1>2, <1>3, PutInFile DEF TypeInv
  <2>2. \/ file' = file
        \/ file' = Put(file, fptr + 1, <<handle, m.blk>>)
        \/ file' = Put(file, fptr + 1, Torn)
    BY DEF DataNext, DataFails
  <2> QED
    BY <2>1, <2>2 DEF TypeInv, InFile
<1>5. blknum' \in 0 .. BlkMod - 1
  <2>1. blknum' \in {blknum, Next16(blknum)}
    BY DEF DataNext, DataFails
  <2>2. blknum \in 0 .. BlkMod - 1 /\ blknum \in Nat
    BY <1>2 DEF TypeInv, Counters
  <2>3. Next16(blknum) \in 0 .. BlkMod - 1
    BY <2>2, NumberInRange
  <2> QED
    BY <2>1, <2>2, <2>3
<1>6. NetData'
  BY NetDataAck, NetDataError DEF DataNext, DataFails, TypeInv
<1>7. /\ Pred(timers) \in 0 .. MaxTimers /\ Pred(Pred(timers)) \in 0 .. MaxTimers
      /\ timers \in 0 .. MaxTimers
  BY DEF TypeInv, Counters, Pred
<1>8. LastOwn' /\ timers' \in 0 .. MaxTimers /\ saved' \subseteq Writers
      /\ closeFailed' \subseteq Writers
  <2>1. CASE UNCHANGED <<handle, lastData, timers, saved, closeFailed>>
    BY <2>1, <1>7 DEF TypeInv, LastOwn, DataOK, HistoryTypes
  <2>2. CASE \E n \in {Pred(timers), Pred(Pred(timers))} : \E f : CloseHandle(n, f)
    BY <2>2, <1>2, <1>7, ClosedTypes DEF TypeInv
  <2>3. \/ UNCHANGED <<handle, lastData, timers, saved, closeFailed>>
        \/ \E n \in {Pred(timers), Pred(Pred(timers))} : \E f : CloseHandle(n, f)
    BY DEF DataNext, DataFails, history
  <2> QED
    BY <2>1, <2>2, <2>3
<1>9. Counters' /\ ClientTypes' /\ HistoryTypes'
  BY <1>1, <1>5, <1>8 DEF TypeInv, Counters, ClientTypes, HistoryTypes, clients
<1> QED
  BY <1>4, <1>6, <1>8, <1>9 DEF TypeInv

LEMMA TypesAck ==
  ASSUME TftpInv, TypeInv, NEW m \in net, m.dir = "to", AckNext(m) \/ AckLast(m)
  PROVE  TypeInv'
<1> USE TftpAssumption
<1>1. /\ UNCHANGED <<file, clients, opens, seen>> /\ age' = 0 /\ retries' = 0
      /\ handle \in Clients /\ handle \in Readers
      /\ skipped' \in {skipped, skipped \cup {handle}}
  BY DEF AckNext, AckLast, Heard, card, TftpInv, NetInv, MsgOK, opened
<1>2. blknum \in Nat /\ timers \in 0 .. MaxTimers /\ fptr + 1 \in Nat \ {0}
      /\ Pred(timers) \in 0 .. MaxTimers
  BY DEF TypeInv, Counters, TftpInv, Shape, Pred
<1>3. /\ NetData' /\ LastOwn' /\ timers' \in 0 .. MaxTimers /\ blknum' \in 0 .. BlkMod - 1
      /\ saved' \subseteq Writers /\ closeFailed' \subseteq Writers
  <2>1. CASE AckNext(m)
    <3>1. SendData(handle, Next16(blknum), fptr + 1, timers) /\ blknum' = Next16(blknum)
      BY <2>1 DEF AckNext
    <3>2. Next16(blknum) \in 0 .. BlkMod - 1
      BY <1>2, NumberInRange
    <3>3. /\ NetData' /\ LastOwn' /\ timers' \in 0 .. MaxTimers
          /\ UNCHANGED <<saved, closeFailed>>
      BY <1>2, <3>1, <3>2, FetchedTypes DEF TypeInv
    <3> QED
      BY <3>1, <3>2, <3>3 DEF TypeInv, HistoryTypes
  <2>2. CASE AckLast(m)
    <3>1. CloseHandle(Pred(timers), file) /\ UNCHANGED <<blknum, net>>
      BY <2>2 DEF AckLast
    <3>2. /\ LastOwn' /\ timers' = Pred(timers) /\ saved' \subseteq Writers
          /\ closeFailed' \subseteq Writers
      BY <1>1, <3>1, ClosedTypes DEF TypeInv
    <3> QED
      BY <1>2, <3>1, <3>2 DEF TypeInv, NetData, IsBlock, DataOK, Counters
  <2> QED
    BY <2>1, <2>2
<1>4. Counters' /\ ClientTypes' /\ HistoryTypes' /\ InFile(file)'
  BY <1>1, <1>3 DEF TypeInv, Counters, ClientTypes, HistoryTypes, InFile, clients
<1> QED
  BY <1>3, <1>4 DEF TypeInv

LEMMA TypesTicked ==
  ASSUME TftpInv, TypeInv, Timer
  PROVE  TypeInv'
<1> USE TftpAssumption
<1>1. CASE TimerIdle \/ TimerWait \/ TimerRetry
  <2>1. UNCHANGED <<handle, blknum, lastData, card, clients, history>>
    BY <1>1 DEF TimerIdle, TimerWait, TimerRetry
  <2>2. Counters'
    BY <1>1, <2>1 DEF TimerIdle, TimerWait, TimerRetry, Silent, TypeInv, Counters
  <2>3. NetData'
    <3>1. CASE UNCHANGED net
      BY <3>1 DEF TypeInv, NetData, IsBlock, DataOK
    <3>2. CASE Send(lastData) /\ lastData # None
      BY <3>2, NetDataSend DEF TypeInv, LastOwn
    <3> QED
      BY <1>1, <3>1, <3>2 DEF TimerIdle, TimerWait, TimerRetry
  <2>4. ClientTypes' /\ HistoryTypes' /\ InFile(file)' /\ LastOwn'
    BY <2>1 DEF TypeInv, ClientTypes, HistoryTypes, InFile, LastOwn, DataOK, card, clients,
                history, opened
  <2> QED
    BY <2>2, <2>3, <2>4 DEF TypeInv
<1>2. CASE TimerGiveUp
  <2>1. /\ handle \in Clients /\ CloseHandle(Pred(timers), file)
        /\ UNCHANGED <<blknum, age, retries, card, net, clients, opens, seen, skipped>>
    BY <1>2 DEF TimerGiveUp, TftpInv, Shape, opened
  <2>2. LastOwn' /\ timers' = Pred(timers) /\ saved' \subseteq Writers
        /\ closeFailed' \subseteq Writers
    BY <2>1, ClosedTypes DEF TypeInv
  <2>3. Counters'
    BY <2>1, <2>2 DEF TypeInv, Counters, Pred
  <2>4. NetData'
    BY <2>1 DEF TypeInv, NetData, IsBlock, DataOK
  <2>5. ClientTypes' /\ HistoryTypes' /\ InFile(file)'
    BY <2>1, <2>2 DEF TypeInv, ClientTypes, HistoryTypes, InFile, card, clients
  <2> QED
    BY <2>2, <2>3, <2>4, <2>5 DEF TypeInv
<1> QED
  BY <1>1, <1>2 DEF Timer

LEMMA TypesClient ==
  ASSUME TftpInv, TypeInv, NEW c \in Clients, Client(c)
  PROVE  TypeInv'
<1> USE TftpAssumption
<1>1. UNCHANGED <<server, card, history>>
  BY DEF Client, Request, Repeat, ClientAck, ClientData, ClientError
<1>2. Counters' /\ HistoryTypes' /\ InFile(file)' /\ LastOwn'
  BY <1>1 DEF TypeInv, Counters, HistoryTypes, InFile, LastOwn, DataOK, server, card,
     history, opened
<1>3. NetData'
  <2>1. CASE UNCHANGED net
    BY <2>1 DEF TypeInv, NetData, IsBlock, DataOK
  <2>2. CASE \E d, op, n : Send(To(d, op, n))
    BY <2>2, NetDataTo DEF TypeInv
  <2>3. UNCHANGED net \/ \E d, op, n : Send(To(d, op, n))
    <3>1. CASE Request(c)
      BY <3>1 DEF Request
    <3>2. CASE Repeat(c)
      BY <3>2 DEF Repeat, LastSent, Clients
    <3>3. CASE ClientAck(c)
      BY <3>3 DEF ClientAck
    <3>4. CASE ClientData(c)
      BY <3>4 DEF ClientData
    <3>5. CASE ClientError(c)
      BY <3>5 DEF ClientError
    <3> QED
      BY <3>1, <3>2, <3>3, <3>4, <3>5 DEF Client
  <2> QED
    BY <2>1, <2>2, <2>3
<1>4. ClientTypes'
  <2>1. CASE UNCHANGED <<cblk, got>>
    BY <2>1 DEF TypeInv, ClientTypes
  <2>2. CASE ClientAck(c)
    <3>1. /\ c \in Writers /\ got' = got
          /\ cblk' = cblk \/ (cst[c] = "moving" /\ cblk' = [cblk EXCEPT ![c] = cblk[c] + 1])
      BY <2>2 DEF ClientAck
    <3>2. cst[c] = "moving" => cblk[c] + 1 <= NBlocks /\ cblk[c] \in Nat
      BY <3>1 DEF TftpInv, ClientInv, Shape
    <3>3. c \notin Readers /\ cblk \in [Clients -> Nat] /\ NBlocks < BlkMod - 1
      BY <3>1 DEF TftpInv, Shape
    <3>4. ASSUME NEW d \in Clients
          PROVE  /\ cblk'[d] \in 0 .. BlkMod - 1
                 /\ d \in Writers => cblk'[d] <= NBlocks
      <4>1. cblk'[d] = cblk[d] \/ (d = c /\ cst[c] = "moving" /\ cblk'[d] = cblk[c] + 1)
        BY <3>1, <3>3, <3>4
      <4>2. cblk[d] \in 0 .. BlkMod - 1 /\ (d \in Writers => cblk[d] <= NBlocks)
        BY <3>4 DEF TypeInv, ClientTypes
      <4> QED
        BY <3>2, <3>3, <4>1, <4>2
    <3>5. \A d \in Writers : d \in Clients
      BY DEF Clients
    <3> QED
      BY <3>1, <3>4, <3>5 DEF TypeInv, ClientTypes
  <2>3. CASE ClientData(c)
    <3>1. PICK m \in net :
            /\ c \in Readers /\ IsBlock(m) /\ m.blk = cblk[c] + 1
            /\ got' = [got EXCEPT ![c] =
                         IF m.data = EndMark THEN got[c] ELSE Append(got[c], m.data)]
            /\ cblk' = [cblk EXCEPT ![c] = cblk[c] + 1]
      BY <2>3 DEF ClientData, IsBlock
    <3>2. m.blk \in 0 .. BlkMod - 1 /\ m.data \in Blocks
      BY <3>1 DEF TypeInv, NetData, DataOK
    <3>3. got[c] \in Seq(Blocks) /\ Append(got[c], m.data) \in Seq(Blocks)
      BY <3>1, <3>2, AppendProperties DEF TypeInv, ClientTypes
    <3>4. got' \in [Readers -> Seq(Blocks)]
      BY <3>1, <3>3 DEF TypeInv, ClientTypes
    <3>5. cblk \in [Clients -> Nat] /\ c \notin Writers
      BY <3>1 DEF TftpInv, Shape
    <3>6. \A d \in Clients : cblk'[d] \in 0 .. BlkMod - 1
      BY <3>1, <3>2, <3>5 DEF TypeInv, ClientTypes
    <3>7. \A d \in Writers : cblk'[d] = cblk[d]
      BY <3>1, <3>5 DEF Clients
    <3> QED
      BY <3>4, <3>6, <3>7 DEF TypeInv, ClientTypes
  <2>4. ClientAck(c) \/ ClientData(c) \/ UNCHANGED <<cblk, got>>
    BY DEF Client, Request, Repeat, ClientError, clients
  <2> QED
    BY <2>1, <2>2, <2>3, <2>4
<1> QED
  BY <1>2, <1>3, <1>4 DEF TypeInv

LEMMA InitTypes == Init => TypeInv
<1> SUFFICES ASSUME Init PROVE TypeInv
  OBVIOUS
<1> USE TftpAssumption
<1>1. InFile(file)
  <2>1. file \in Seq(Blocks)
    BY InitTftpInv DEF TftpInv, Shape
  <2>2. Len(file) = NOld /\ \A i \in 1 .. NOld : file[i] = <<None, i>>
    BY <2>1 DEF Init, OldFile
  <2>3. \A i \in 1 .. NOld : <<None, i>> \in FileBlocks
    BY DEF FileBlocks
  <2>4. \A i \in 1 .. Len(file) : file[i] \in FileBlocks
    BY <2>2, <2>3
  <2>5. Len(file) <= NBlocks + NOld
    BY <2>2
  <2> QED
    BY <2>1, <2>4, <2>5 DEF InFile
<1>2. Counters /\ HistoryTypes /\ LastOwn /\ NetData
  BY DEF Init, Counters, HistoryTypes, LastOwn, NetData
<1>3. ClientTypes
  BY EmptySeq DEF Init, ClientTypes, Clients
<1> QED
  BY <1>1, <1>2, <1>3 DEF TypeInv

LEMMA TypesStep ==
  ASSUME TftpInv, TypeInv, [Next]_vars
  PROVE  TypeInv'
<1>1. ASSUME NEW m \in net, m.dir = "to", Recv(m)
      PROVE  TypeInv'
  BY <1>1, TypesAnswered, TypesOpened, TypesData, TypesAck DEF Recv
<1>2. CASE UNCHANGED vars
  BY <1>2 DEF vars, server, card, clients, history, opened, TypeInv, Counters, ClientTypes,
              HistoryTypes, InFile, LastOwn, NetData, IsBlock, DataOK
<1> QED
  BY <1>1, <1>2, TypesTicked, TypesClient DEF Next, Receive

LEMMA TypesAlways == Spec => [](TftpInv /\ TypeInv)
<1>1. TftpInv /\ TypeInv /\ [Next]_vars => (TftpInv /\ TypeInv)'
  BY TypesStep, NextKeeps DEF Keeps
<1>2. Init => TftpInv /\ TypeInv
  BY InitTftpInv, InitTypes
<1> QED
  BY <1>1, <1>2, PTL DEF Spec

\* Types: above all, block numbers stay in their 16 bits, retries below their
\* maximum, and the blocks of the file are of its writers and in range.
THEOREM TypeCorrect == Spec => []TypeOK
<1>1. TftpInv /\ TypeInv => TypeOK
  <2> SUFFICES ASSUME TftpInv, TypeInv PROVE TypeOK
    OBVIOUS
  <2> DEFINE T == (Clients \cup {None}) \X (0 .. NBlocks + NOld)
  <2>1. FileBlocks \subseteq T
    BY TftpAssumption DEF FileBlocks
  <2>2. file \in Seq(T)
    <3>1. file \in Seq(Blocks) /\ \A i \in 1 .. Len(file) : file[i] \in T
      BY <2>1 DEF TypeInv, InFile
    <3> HIDE DEF T
    <3> QED
      BY <3>1
  <2>3. cblk \in [Clients -> 0 .. BlkMod - 1]
    BY DEF TftpInv, Shape, TypeInv, ClientTypes
  <2>4. fptr \in 0 .. Len(file)
    BY DEF TftpInv, Shape
  <2> QED
    BY <2>2, <2>3, <2>4 DEF TypeOK, TftpInv, Shape, TypeInv, Counters, HistoryTypes
<1> QED
  BY <1>1, TypesAlways, PTL

---------------------------------------------------------------------------
(* A reading client.  As long as its transfers have all read one file f,   *)
(* every block that is on its way to it, from whichever of them, is the    *)
(* block of f with its number; and a transfer goes on to the next block    *)
(* only when the one before has been sent, so that it leaves none out.     *)

IsData(m, c) == IsBlock(m) /\ m.who = c
Fewer(a, b)  == IF a <= b THEN a ELSE b

BlockOf(f, i) == IF i <= Len(f) THEN f[i] ELSE EndMark
ShortOf(f, i) == \/ i > Len(f)
                 \/ i = Len(f) /\ f[i] \in ShortBlocks

\* No transfer was opened for it.
Unopened(c) ==
  /\ handle # c /\ cblk[c] = 0 /\ got[c] = <<>>
  /\ \A m \in net : ~IsData(m, c)

BlockOfFile(m, f) ==
  m.blk \in 1 .. Len(f) + 1 /\ m.data = BlockOf(f, m.blk) /\ m.short = ShortOf(f, m.blk)

OnTheWay(c, f) == \A m \in net : IsData(m, c) => BlockOfFile(m, f)

Whole(c, f) ==
  /\ got[c] \in Seq(Blocks) /\ Len(got[c]) = Fewer(cblk[c], Len(f))
  /\ \A i \in 1 .. Len(got[c]) : got[c][i] = f[i]

\* The transfer it is in: the file pointer is behind the block last sent, or
\* before the one that found no memory.
Served(c, f) ==
  /\ file = f /\ blknum \in 1 .. Len(f) + 1
  /\ IF lastData = None
     THEN fptr = blknum - 1
     ELSE /\ fptr = Fewer(blknum, Len(f))
          /\ lastData = DataFrom(c, blknum, BlockOf(f, blknum), ShortOf(f, blknum))

Steady(c, f) ==
  InFile(f) /\ OnTheWay(c, f) /\ Whole(c, f) /\ (handle = c => Served(c, f))

ReaderOK(c) ==
  /\ seen[c] = {} => Unopened(c)
  /\ \A f \in seen[c] : seen[c] = {f} /\ c \notin skipped => Steady(c, f)

ReadInv == TftpInv /\ TypeInv /\ \A c \in Readers : ReaderOK(c)

\* Datagrams that change nothing for a client: what is no block for it, and
\* the last block again.
Harmless(m, c) == ~IsData(m, c) \/ (handle = c /\ lastData # None /\ m = lastData)

\* A step that moves no data to the client: its transfer goes on as it was, or
\* has ended, or is another client's.
LEMMA Aside ==
  ASSUME NEW c \in Readers, ReaderOK(c),
         UNCHANGED <<cblk[c], got[c], seen[c]>>, skipped \subseteq skipped',
         \A m \in net' : m \in net \/ Harmless(m, c),
         handle' # c \/ UNCHANGED <<handle, blknum, lastData, fptr, file>>
  PROVE  ReaderOK(c)'
<1>1. seen[c] = {} => Unopened(c)'
  BY DEF ReaderOK, Unopened, Harmless, IsData, IsBlock
<1>2. ASSUME NEW f \in seen[c], seen[c] = {f}, c \notin skipped
      PROVE  Steady(c, f)'
  <2>1. InFile(f) /\ OnTheWay(c, f) /\ Whole(c, f) /\ (handle = c => Served(c, f))
    BY <1>2 DEF ReaderOK, Steady
  <2>2. Whole(c, f)'
    BY <2>1 DEF Whole
  <2>3. OnTheWay(c, f)'
    <3> SUFFICES ASSUME NEW m \in net', IsData(m, c) PROVE BlockOfFile(m, f)
      BY DEF OnTheWay, IsData, IsBlock, BlockOfFile, BlockOf, ShortOf
    <3>1. CASE m \in net
      BY <2>1, <3>1 DEF OnTheWay
    <3>2. CASE handle = c /\ lastData # None /\ m = lastData
      <4>1. /\ m = DataFrom(c, blknum, BlockOf(f, blknum), ShortOf(f, blknum))
            /\ blknum \in 1 .. Len(f) + 1
        BY <2>1, <3>2 DEF Served
      <4> QED
        BY <4>1 DEF DataFrom, BlockOfFile
    <3> QED
      BY <3>1, <3>2 DEF Harmless
  <2>4. (handle = c => Served(c, f))'
    BY <2>1 DEF Served, DataFrom
  <2> QED
    BY <2>1, <2>2, <2>3, <2>4 DEF Steady, InFile
<1> QED
  BY <1>1, <1>2 DEF ReaderOK

LEMMA ErrorHarmless ==
  ASSUME NEW d, NEW c, Send(ErrorTo(d))
  PROVE  \A m \in net' : m \in net \/ Harmless(m, c)
<1>1. Harmless(ErrorTo(d), c)
  BY DEF Harmless, IsData, IsBlock, ErrorTo, From
<1> QED
  BY <1>1, SentIn

LEMMA AckHarmless ==
  ASSUME NEW d, NEW n, NEW c, Send(From(d, "ACK", n))
  PROVE  \A m \in net' : m \in net \/ Harmless(m, c)
<1>1. Harmless(From(d, "ACK", n), c)
  BY DEF Harmless, IsData, IsBlock, From
<1> QED
  BY <1>1, SentIn

LEMMA ToHarmless ==
  ASSUME NEW d, NEW op, NEW n, NEW c, Send(To(d, op, n))
  PROVE  \A m \in net' : m \in net \/ Harmless(m, c)
<1>1. Harmless(To(d, op, n), c)
  BY DEF Harmless, IsData, IsBlock, To
<1> QED
  BY <1>1, SentIn

\* A block for one reader is nothing to another.
LEMMA FetchedElsewhere ==
  ASSUME NEW d, NEW c, c # d, c # None, NEW n, NEW at, NEW t, SendData(d, n, at, t)
  PROVE  /\ handle' # c
         /\ \A m \in net' : m \in net \/ Harmless(m, c)
<1> DEFINE b == DataFrom(d, n, BlockAt(at), ShortAt(at))
<1>1. Harmless(b, c)
  BY DEF Harmless, IsData, DataFrom
<1>2. CASE net' = net /\ handle' = d
  BY <1>2
<1>3. CASE Send(ErrorTo(d)) /\ handle' = None
  BY <1>3, ErrorHarmless
<1>4. CASE Send(b) /\ handle' = d
  <2> HIDE DEF b
  <2> QED
    BY <1>1, <1>4, SentIn
<1> QED
  BY <1>2, <1>3, <1>4 DEF SendData

---------------------------------------------------------------------------
(* The steps of the server that send the client no new block *)

LEMMA ReaderAside ==
  ASSUME TftpInv, TypeInv, NEW c \in Readers, ReaderOK(c), NEW m \in net, m.dir = "to",
         \/ Refuse(m) \/ RequestBusy(m) \/ NoConnection(m) \/ DataWrong(m)
         \/ AckWrong(m) \/ DataRepeated(m) \/ RequestBad(m)
         \/ DataNext(m) \/ DataFails(m) \/ RequestWrite(m) \/ AckLast(m)
         \/ (RequestRead(m) \/ AckNext(m)) /\ m.who # c
  PROVE  ReaderOK(c)'
<1>0. c # None /\ c \notin Writers
  BY TftpAssumption
<1>1. UNCHANGED clients
  BY DEF Refuse, RequestBusy, NoConnection, DataWrong, AckWrong, DataRepeated, RequestBad,
         DataNext, DataFails, RequestWrite, RequestRead, AckNext, AckLast
<1>2. seen'[c] = seen[c] /\ skipped \subseteq skipped'
  <2>1. CASE RequestRead(m) /\ m.who # c
    BY <2>1 DEF RequestRead, TypeInv, HistoryTypes
  <2>2. CASE AckNext(m) \/ RequestWrite(m)
    BY <2>2 DEF AckNext, RequestWrite
  <2>3. CASE \/ Refuse(m) \/ RequestBusy(m) \/ NoConnection(m) \/ DataWrong(m)
             \/ AckWrong(m) \/ DataRepeated(m) \/ RequestBad(m)
    BY <2>3 DEF Refuse, RequestBusy, NoConnection, DataWrong, AckWrong, DataRepeated,
                RequestBad, history, opened
  <2>4. CASE DataNext(m) \/ DataFails(m) \/ AckLast(m)
    BY <2>4 DEF DataNext, DataFails, AckLast, history, opened
  <2> QED
    BY <2>1, <2>2, <2>3, <2>4
<1>3. ASSUME \A x \in net' : x \in net \/ Harmless(x, c),
             handle' # c \/ UNCHANGED <<handle, blknum, lastData, fptr, file>>
      PROVE  ReaderOK(c)'
  BY <1>1, <1>2, <1>3, Aside DEF clients
<1>4. CASE \/ Refuse(m) \/ RequestBusy(m) \/ NoConnection(m) \/ DataWrong(m)
           \/ AckWrong(m) \/ DataRepeated(m)
  <2>1. UNCHANGED <<handle, blknum, lastData, card>>
    BY <1>4 DEF Refuse, RequestBusy, NoConnection, DataWrong, AckWrong, DataRepeated, server
  <2>2. (\E d : Send(ErrorTo(d))) \/ \E d, n : Send(From(d, "ACK", n))
    BY <1>4 DEF Refuse, RequestBusy, NoConnection, DataWrong, AckWrong, DataRepeated
  <2>3. \A x \in net' : x \in net \/ Harmless(x, c)
    BY <2>2, ErrorHarmless, AckHarmless
  <2> QED
    BY <1>3, <2>1, <2>3 DEF card
<1>5. CASE RequestBad(m)
  <2>1. handle' = None /\ Send(ErrorTo(m.who))
    BY <1>5 DEF RequestBad
  <2> QED
    BY <1>0, <1>3, <2>1, ErrorHarmless
<1>6. CASE DataNext(m) \/ DataFails(m)
  <2>1. handle \in Writers /\ handle' \in {handle, None}
    BY <1>6, DataIsNext DEF DataNext, DataFails, CloseHandle
  <2>2. (\E d : Send(ErrorTo(d))) \/ \E d, n : Send(From(d, "ACK", n))
    BY <1>6 DEF DataNext, DataFails
  <2>3. \A x \in net' : x \in net \/ Harmless(x, c)
    BY <2>2, ErrorHarmless, AckHarmless
  <2> QED
    BY <1>0, <1>3, <2>1, <2>3
<1>7. CASE RequestWrite(m)
  <2>1. m.who \in Writers /\ handle' = m.who /\ Send(From(m.who, "ACK", 0))
    BY <1>7 DEF RequestWrite, TftpInv, NetInv, MsgOK
  <2> QED
    BY <1>0, <1>3, <2>1, AckHarmless
<1>8. CASE RequestRead(m) /\ m.who # c
  <2>1. SendData(m.who, 1, 1, timers + 1)
    BY <1>8 DEF RequestRead
  <2> QED
    BY <1>0, <1>3, <1>8, <2>1, FetchedElsewhere
<1>9. CASE AckNext(m) /\ m.who # c
  <2>1. handle = m.who /\ SendData(handle, Next16(blknum), fptr + 1, timers)
    BY <1>9 DEF AckNext
  <2> QED
    BY <1>0, <1>3, <1>9, <2>1, FetchedElsewhere
<1>10. CASE AckLast(m)
  <2>1. handle' = None /\ net' = net
    BY <1>10 DEF AckLast, CloseHandle
  <2> QED
    BY <1>0, <1>3, <2>1
<1> QED
  BY <1>4, <1>5, <1>6, <1>7, <1>8, <1>9, <1>10

\* Time-outs: a retry sends the last block again; giving up leaves what is on
\* its way where it is.
LEMMA ReaderTicked ==
  ASSUME TftpInv, TypeInv, NEW c \in Readers, ReaderOK(c), Timer
  PROVE  ReaderOK(c)'
<1>0. c # None
  BY TftpAssumption
<1>1. UNCHANGED <<clients, seen, skipped>>
  BY DEF Timer, TimerIdle, TimerWait, TimerRetry, TimerGiveUp, history, opened
<1>2. ASSUME \A x \in net' : x \in net \/ Harmless(x, c),
             handle' # c \/ UNCHANGED <<handle, blknum, lastData, fptr, file>>
      PROVE  ReaderOK(c)'
  BY <1>1, <1>2, Aside DEF clients
<1>3. CASE TimerIdle \/ TimerWait
  <2>1. UNCHANGED <<handle, blknum, lastData, fptr, file, net>>
    BY <1>3 DEF TimerIdle, TimerWait, card
  <2> QED
    BY <1>2, <2>1
<1>4. CASE TimerRetry
  <2>1. /\ UNCHANGED <<handle, blknum, lastData, fptr, file>> /\ lastData # None
        /\ Send(lastData)
    BY <1>4 DEF TimerRetry, card
  <2>2. Harmless(lastData, c)
    BY <2>1 DEF Harmless, IsData, TypeInv, LastOwn
  <2>3. \A x \in net' : x \in net \/ Harmless(x, c)
    BY <2>1, <2>2, SentIn
  <2> QED
    BY <1>2, <2>1, <2>3
<1>5. CASE TimerGiveUp
  <2>1. handle' = None /\ net' = net
    BY <1>5 DEF TimerGiveUp, CloseHandle
  <2> QED
    BY <1>0, <1>2, <2>1
<1> QED
  BY <1>3, <1>4, <1>5 DEF Timer

---------------------------------------------------------------------------
(* The steps that send it a new block *)

\* send_data for block n with the file pointer before block n.
LEMMA FetchedHere ==
  ASSUME NEW c \in Readers, NEW f, f = file, InFile(f), OnTheWay(c, f), Whole(c, f),
         NEW n \in 1 .. Len(f) + 1, NEW t, SendData(c, n, n, t),
         UNCHANGED <<file, clients>>, blknum' = n
  PROVE  Steady(c, f)'
<1> DEFINE b == DataFrom(c, n, BlockOf(f, n), ShortOf(f, n))
<1>0. c # None /\ Len(f) \in Nat /\ n \in Nat \ {0}
  BY TftpAssumption DEF InFile
<1>1. BlockAt(n) = BlockOf(f, n) /\ ShortAt(n) = ShortOf(f, n)
  BY DEF BlockAt, ShortAt, BlockOf, ShortOf
<1>2. BlockOfFile(b, f)
  BY DEF DataFrom, BlockOfFile
<1>3. Whole(c, f)' /\ InFile(f)'
  BY DEF Whole, InFile, clients
<1>4. ASSUME \A m \in net' : IsData(m, c) => m \in net \/ m = b
      PROVE  OnTheWay(c, f)'
  <2> HIDE DEF b
  <2> QED
    BY <1>2, <1>4 DEF OnTheWay, IsData, IsBlock, BlockOfFile, BlockOf, ShortOf
<1>5. CASE lastData' = None /\ handle' = c /\ fptr' = n - 1 /\ net' = net
  <2>1. Served(c, f)'
    BY <1>5 DEF Served
  <2> QED
    BY <1>3, <1>4, <1>5, <2>1 DEF Steady
<1>6. CASE Send(ErrorTo(c)) /\ handle' = None
  <2>1. ~IsData(ErrorTo(c), c)
    BY DEF IsData, IsBlock, ErrorTo, From
  <2>2. \A m \in net' : m \in net \/ m = ErrorTo(c)
    BY <1>6, SentIn
  <2>3. OnTheWay(c, f)'
    BY <1>4, <2>1, <2>2
  <2> QED
    BY <1>0, <1>3, <1>6, <2>3 DEF Steady
<1>7. CASE /\ Send(b) /\ lastData' = b /\ handle' = c
           /\ fptr' = (IF n <= Len(file) THEN n ELSE n - 1)
  <2>1. OnTheWay(c, f)'
    <3> HIDE DEF b
    <3> QED
      BY <1>4, <1>7, SentIn
  <2>2. lastData' # None
    <3>1. BlockAt(n) \in (Clients \cup {None}) \X Nat
      BY <1>0, ReadBlock DEF Blocks
    <3>2. ShortOf(f, n) \in BOOLEAN
      BY DEF ShortOf
    <3> QED
      BY <1>0, <1>1, <1>7, <3>1, <3>2, NullAssumption DEF DataFrom
  <2>3. fptr' = Fewer(n, Len(f))
    BY <1>0, <1>7 DEF Fewer
  <2>4. Served(c, f)'
    BY <1>7, <2>2, <2>3 DEF Served, DataFrom, BlockOf, ShortOf
  <2> QED
    BY <1>3, <2>1, <2>4 DEF Steady
<1> QED
  BY <1>1, <1>5, <1>6, <1>7 DEF SendData

\* A request opens a transfer: of the file read before, or of another.
LEMMA ReaderOpened ==
  ASSUME TftpInv, TypeInv, NEW c \in Readers, ReaderOK(c), NEW m \in net, m.dir = "to",
         RequestRead(m), m.who = c
  PROVE  ReaderOK(c)'
<1>1. /\ blknum' = 1 /\ SendData(c, 1, 1, timers + 1) /\ UNCHANGED <<file, clients, skipped>>
      /\ seen' = [seen EXCEPT ![c] = seen[c] \cup {file}]
  BY DEF RequestRead
<1>2. seen'[c] = seen[c] \cup {file}
  BY <1>1 DEF TypeInv, HistoryTypes
<1>3. InFile(file) /\ Len(file) \in Nat
  BY DEF TypeInv, InFile
<1>4. ASSUME c \notin skipped', NEW f \in seen'[c], seen'[c] = {f}
      PROVE  Steady(c, f)'
  <2>1. f = file /\ seen[c] \in {{}, {f}} /\ c \notin skipped
    BY <1>1, <1>2, <1>4
  <2>2. OnTheWay(c, f) /\ Whole(c, f)
    <3>1. CASE seen[c] = {}
      <4>1. got[c] = <<>> /\ cblk[c] = 0 /\ \A x \in net : ~IsData(x, c)
        BY <3>1 DEF ReaderOK, Unopened
      <4>2. <<>> \in Seq(Blocks) /\ Len(<<>>) = 0 /\ Fewer(0, Len(f)) = 0
        BY <1>3, <2>1, EmptySeq DEF Fewer
      <4> QED
        BY <4>1, <4>2 DEF OnTheWay, Whole
    <3>2. CASE seen[c] = {f}
      BY <2>1, <3>2 DEF ReaderOK, Steady
    <3> QED
      BY <2>1, <3>1, <3>2
  <2>3. 1 \in 1 .. Len(f) + 1
    BY <1>3, <2>1
  <2> QED
    BY <1>1, <1>3, <2>1, <2>2, <2>3, FetchedHere
<1> QED
  BY <1>2, <1>4 DEF ReaderOK

\* The acknowledgement of the block last sent, its own or one of a transfer
\* before: the next block is the next of the file.
LEMMA ReaderNext ==
  ASSUME TftpInv, TypeInv, NEW c \in Readers, ReaderOK(c), NEW m \in net, m.dir = "to",
         AckNext(m), m.who = c
  PROVE  ReaderOK(c)'
<1>1. /\ handle = c /\ blknum' = Next16(blknum) /\ (lastData # None => ~lastData.short)
      /\ SendData(c, Next16(blknum), fptr + 1, timers) /\ UNCHANGED <<file, clients, seen>>
      /\ skipped' = IF lastData = None THEN skipped \cup {c} ELSE skipped
  BY DEF AckNext
<1>2. seen[c] # {}
  BY <1>1 DEF ReaderOK, Unopened
<1>3. ASSUME c \notin skipped', NEW f \in seen[c], seen[c] = {f}
      PROVE  Steady(c, f)'
  <2>1. lastData # None /\ c \notin skipped
    BY <1>1, <1>3
  <2>2. InFile(f) /\ OnTheWay(c, f) /\ Whole(c, f) /\ Served(c, f)
    BY <1>1, <1>3, <2>1 DEF ReaderOK, Steady
  <2>3. Len(f) \in Nat /\ Len(f) <= NBlocks + NOld
    BY <2>2 DEF InFile
  <2>4. ~ShortOf(f, blknum)
    BY <1>1, <2>1, <2>2 DEF Served, DataFrom
  <2>5. blknum \in 1 .. Len(f) /\ fptr = blknum
    BY <2>1, <2>2, <2>3, <2>4 DEF ShortOf, Served, Fewer
  <2>6. Next16(blknum) = blknum + 1
    <3>1. blknum + 1 \in Nat /\ blknum + 1 < BlkMod /\ BlkMod \in Nat
      BY <2>3, <2>5, TftpAssumption
    <3> QED
      BY <3>1, SmallMod DEF Next16
  <2>7. PICK n \in 1 .. Len(f) + 1 : n = blknum + 1
    BY <2>3, <2>5
  <2>8. SendData(c, n, n, timers) /\ blknum' = n /\ f = file
    BY <1>1, <2>2, <2>5, <2>6, <2>7 DEF Served
  <2> QED
    BY <1>1, <2>2, <2>8, FetchedHere
<1> QED
  BY <1>1, <1>2, <1>3 DEF ReaderOK

---------------------------------------------------------------------------
(* The clients *)

\* Another client's step, and its own that move no data.
LEMMA ReaderSpeaks ==
  ASSUME TftpInv, TypeInv, NEW c \in Readers, ReaderOK(c), NEW d \in Clients, Client(d),
         d # c \/ Request(d) \/ Repeat(d) \/ ClientError(d)
  PROVE  ReaderOK(c)'
<1>0. c \in Clients
  BY DEF Clients
<1>1. UNCHANGED <<server, card, history>>
  BY DEF Client, Request, Repeat, ClientAck, ClientData, ClientError
<1>2. UNCHANGED net \/ \E e, op, n : Send(To(e, op, n))
  <2>1. CASE Request(d)
    BY <2>1 DEF Request
  <2>2. CASE Repeat(d)
    BY <2>2 DEF Repeat, LastSent, Clients
  <2>3. CASE ClientAck(d)
    BY <2>3 DEF ClientAck
  <2>4. CASE ClientData(d)
    BY <2>4 DEF ClientData
  <2>5. CASE ClientError(d)
    BY <2>5 DEF ClientError
  <2> QED
    BY <2>1, <2>2, <2>3, <2>4, <2>5 DEF Client
<1>3. \A m \in net' : m \in net \/ Harmless(m, c)
  BY <1>2, ToHarmless
<1>4. cblk'[c] = cblk[c] /\ got'[c] = got[c]
  <2>1. CASE Request(d) \/ Repeat(d) \/ ClientError(d)
    BY <2>1 DEF Request, Repeat, ClientError, clients
  <2>2. CASE ClientAck(d) /\ d # c
    BY <1>0, <2>2 DEF ClientAck, TftpInv, Shape
  <2>3. CASE ClientData(d) /\ d # c
    BY <1>0, <2>3 DEF ClientData, TftpInv, Shape, TypeInv, ClientTypes
  <2> QED
    BY <2>1, <2>2, <2>3 DEF Client
<1> QED
  BY <1>1, <1>3, <1>4, Aside DEF server, card, history, opened

\* A block arrives; with the short one the client has the file.
LEMMA ReaderTakes ==
  ASSUME TftpInv, TypeInv, NEW c \in Readers, ReaderOK(c), ClientData(c)
  PROVE  /\ ReaderOK(c)'
         /\ \A f \in seen[c] : cst'[c] = "done" /\ c \notin skipped /\ seen[c] = {f}
                                 => got'[c] = f
<1>0. c \in Clients /\ cblk[c] \in Nat
  BY DEF Clients, TypeInv, ClientTypes
<1>1. PICK m \in net :
        /\ IsData(m, c) /\ m.blk = cblk[c] + 1
        /\ got' = [got EXCEPT ![c] =
                     IF m.data = EndMark THEN got[c] ELSE Append(got[c], m.data)]
        /\ cblk' = [cblk EXCEPT ![c] = cblk[c] + 1]
        /\ cst' = [cst EXCEPT ![c] = IF m.short THEN "done" ELSE "moving"]
        /\ Send(To(c, "ACK", m.blk))
  BY DEF ClientData, IsData, IsBlock
<1>2. UNCHANGED <<handle, blknum, lastData, fptr, file, seen, skipped>>
  BY DEF ClientData, server, card, history, opened
<1>3. /\ cblk'[c] = cblk[c] + 1
      /\ cst'[c] = IF m.short THEN "done" ELSE "moving"
      /\ got'[c] = IF m.data = EndMark THEN got[c] ELSE Append(got[c], m.data)
  BY <1>0, <1>1 DEF TftpInv, Shape, TypeInv, ClientTypes
<1>4. \A x \in net' : IsData(x, c) => x \in net
  <2>1. ~IsData(To(c, "ACK", m.blk), c)
    BY DEF IsData, IsBlock, To
  <2> QED
    BY <1>1, <2>1, SentIn
<1>5. seen[c] # {}
  BY <1>1 DEF ReaderOK, Unopened
<1>6. ASSUME NEW f \in seen[c], seen[c] = {f}, c \notin skipped
      PROVE  Steady(c, f)' /\ (cst'[c] = "done" => got'[c] = f)
  <2> DEFINE n == cblk[c] + 1
  <2>1. InFile(f) /\ OnTheWay(c, f) /\ Whole(c, f) /\ (handle = c => Served(c, f))
    BY <1>6 DEF ReaderOK, Steady
  <2>2. f \in Seq(Blocks) /\ Len(f) \in Nat
    BY <2>1 DEF InFile
  <2>3. n \in 1 .. Len(f) + 1 /\ m.data = BlockOf(f, n) /\ m.short = ShortOf(f, n)
    BY <1>1, <2>1 DEF OnTheWay, BlockOfFile
  <2>4. Len(got[c]) = cblk[c]
    BY <1>0, <2>1, <2>2, <2>3 DEF Whole, Fewer
  <2>5. Whole(c, f)'
    <3>1. CASE n <= Len(f)
      <4>1. m.data = f[n] /\ f[n] \in FileBlocks
        BY <1>0, <2>1, <2>3, <3>1 DEF BlockOf, InFile
      <4>2. m.data # EndMark
        <5>1. EndMark \notin FileBlocks
          BY TftpAssumption DEF EndMark, FileBlocks, Clients
        <5> QED
          BY <4>1, <5>1
      <4>3. m.data \in Blocks
        BY <4>1 DEF FileBlocks, Blocks
      <4>4. /\ got'[c] \in Seq(Blocks) /\ Len(got'[c]) = n
            /\ \A i \in 1 .. cblk[c] : got'[c][i] = f[i]
            /\ got'[c][n] = f[n]
        BY <1>3, <2>1, <2>4, <4>1, <4>2, <4>3, AppendProperties DEF Whole
      <4>5. \A i \in 1 .. n : i = n \/ i \in 1 .. cblk[c]
        BY <1>0
      <4>6. Fewer(n, Len(f)) = n
        BY <3>1 DEF Fewer
      <4> HIDE DEF n
      <4> QED
        BY <1>3, <4>4, <4>5, <4>6 DEF Whole, n
    <3>2. CASE n > Len(f)
      <4>1. m.data = EndMark /\ got'[c] = got[c]
        BY <1>0, <1>3, <2>2, <2>3, <3>2 DEF BlockOf
      <4> QED
        BY <1>0, <1>3, <2>1, <2>2, <2>3, <2>4, <3>2, <4>1 DEF Whole, Fewer
    <3> QED
      BY <1>0, <2>2, <3>1, <3>2
  <2>6. OnTheWay(c, f)'
    BY <1>4, <2>1 DEF OnTheWay, IsData, IsBlock, BlockOfFile, BlockOf, ShortOf
  <2>7. (handle = c => Served(c, f))'
    BY <1>2, <2>1 DEF Served, DataFrom
  <2>8. cst'[c] = "done" => got'[c] = f
    <3> SUFFICES ASSUME cst'[c] = "done" PROVE got'[c] = f
      OBVIOUS
    <3>1. ShortOf(f, n)
      BY <1>3, <2>3
    <3>2. n >= Len(f)
      BY <1>0, <2>2, <3>1 DEF ShortOf
    <3>3. Len(got'[c]) = Len(f)
      BY <1>0, <1>3, <2>2, <2>5, <3>2 DEF Whole, Fewer
    <3> QED
      BY <2>2, <2>5, <3>3, SeqEqual DEF Whole
  <2> QED
    BY <2>1, <2>5, <2>6, <2>7, <2>8 DEF Steady, InFile
<1> QED
  BY <1>2, <1>5, <1>6 DEF ReaderOK

---------------------------------------------------------------------------
LEMMA InitReaders == Init => \A c \in Readers : ReaderOK(c)
<1> SUFFICES ASSUME Init, NEW c \in Readers PROVE ReaderOK(c)
  OBVIOUS
<1>1. c \in Clients /\ c # None
  BY TftpAssumption DEF Clients
<1> QED
  BY <1>1 DEF Init, ReaderOK, Unopened

\* What ReaderWhole says of one reader and one step.
Ends(c) == cst[c] # "done" /\ cst'[c] = "done" /\ c \notin skipped
             => \A f \in seen[c] : seen[c] = {f} => got'[c] = f

LEMMA ReaderStep ==
  ASSUME TftpInv, TypeInv, NEW c \in Readers, ReaderOK(c), [Next]_vars
  PROVE  ReaderOK(c)' /\ Ends(c)
<1>0. c \in Clients
  BY DEF Clients
<1>1. ASSUME NEW m \in net, m.dir = "to", Recv(m)
      PROVE  ReaderOK(c)' /\ UNCHANGED clients
  <2>1. ReaderOK(c)'
    BY <1>1, ReaderAside, ReaderOpened, ReaderNext DEF Recv
  <2>2. UNCHANGED clients
    BY <1>1 DEF Recv, Refuse, RequestBusy, RequestBad, RequestWrite, RequestRead,
                NoConnection, DataNext, DataFails, DataRepeated, DataWrong, AckNext,
                AckLast, AckWrong
  <2> QED
    BY <2>1, <2>2
<1>2. CASE Timer
  BY <1>2, ReaderTicked
     DEF Timer, TimerIdle, TimerWait, TimerRetry, TimerGiveUp, clients, Ends
<1>3. ASSUME NEW d \in Clients, d # c, Client(d)
      PROVE  ReaderOK(c)' /\ cst'[c] = cst[c]
  <2>1. cst'[c] = cst[c]
    BY <1>0, <1>3 DEF Client, Request, Repeat, ClientAck, ClientData, ClientError, clients,
                      TftpInv, Shape
  <2> QED
    BY <1>3, <2>1, ReaderSpeaks
<1>4. CASE Client(c)
  <2>1. ~ClientAck(c)
    BY TftpAssumption DEF ClientAck
  <2>2. CASE Request(c) \/ Repeat(c) \/ ClientError(c)
    <3>1. cst[c] # "done" => cst'[c] # "done"
      BY <1>0, <2>2 DEF Request, Repeat, ClientError, clients, TftpInv, Shape
    <3> QED
      BY <1>0, <1>4, <2>2, <3>1, ReaderSpeaks DEF Ends
  <2>3. CASE ClientData(c)
    BY <2>3, ReaderTakes DEF Ends
  <2> QED
    BY <1>4, <2>1, <2>2, <2>3 DEF Client
<1>5. CASE UNCHANGED vars
  <2>1. UNCHANGED <<handle, blknum, lastData, fptr, file, net, cst, cblk, got, seen, skipped>>
    BY <1>5 DEF vars, server, card, clients, history, opened
  <2>2. ReaderOK(c)'
    BY <2>1, Aside
  <2> QED
    BY <2>1, <2>2 DEF Ends
<1> QED
  BY <1>1, <1>2, <1>3, <1>4, <1>5 DEF Next, Receive, clients, Ends

\* What a reading client ends up with is the file its transfers read, every
\* block once and in order, over a network that loses, repeats and reorders,
\* with blocks that find no memory, time-outs at any point, and datagrams of a
\* transfer given up that arrive in the next - unless another client has
\* written the file between two of its transfers, or an old ACK has met a
\* last_data without memory.
THEOREM WholeFile == Spec => ReaderWhole
<1>1. ReadInv /\ [Next]_vars => ReadInv'
  BY ReaderStep, TypesStep, NextKeeps DEF ReadInv, Keeps
<1>2. ReadInv /\ [Next]_vars =>
        [\A c \in Readers : cst[c] # "done" /\ cst'[c] = "done" /\ c \notin skipped
            => \A f \in seen[c] : seen[c] = {f} => got'[c] = f]_vars
  BY ReaderStep DEF ReadInv, Ends
<1>3. Init => ReadInv
  BY InitTftpInv, InitTypes, InitReaders DEF ReadInv
<1> QED
  BY <1>1, <1>2, <1>3, PTL DEF Spec, ReaderWhole
=============================================================================
