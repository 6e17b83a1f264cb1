----------------------------- MODULE PscProofs ------------------------------
(***************************************************************************)
(* Proofs about PscServer for any number of connections, slots and         *)
(* descriptors: slots have one owner, messages are not mixed, sockets are  *)
(* not confused before a send fails, and the listening socket survives.    *)
(***************************************************************************)
EXTENDS PscServer, TLAPS

---------------------------------------------------------------------------
(* The inductive invariant *)

\* Which fields mean something where.
Shape ==
  /\ lpc.at # "accept" => lpc.conn \in Conns /\ lpc.fd \in Fds \ {0}
  /\ Adopting => lpc.slot \in Slots
  /\ \A c \in Conns : Holding(c) => hpc[c].slot \in Slots
  /\ send.at = "idle" <=> GuardFree
  /\ ~GuardFree => send.slot \in Slots
  /\ send.who \in Conns => hpc[send.who].at = "hello" /\ send.slot = hpc[send.who].slot

\* A connection is adopted once.
OnceInv ==
  /\ lpc.at # "accept" => hpc[lpc.conn].at = "none" /\ net[lpc.conn] \in {"up", "gone"}
  /\ \A c \in Conns : net[c] \in {"new", "queued"} => hpc[c].at = "none"

\* Descriptor 0 gets into a slot only while the slot is being adopted, and so
\* never into a handler.
HasFd(c) == hpc[c].at \in {"hello", "recv", "msg", "free", "close"}
FdInv ==
  /\ lpc.at = "spawn" => sock[lpc.slot] # 0
  /\ \A c \in Conns : /\ Holding(c) => sock[hpc[c].slot] # 0
                      /\ HasFd(c) => hpc[c].fd # 0

\* What is being sent is not sent to the listening socket.
ListenInv ==
  ~earlySend =>
    /\ fds[0] = "listen"
    /\ send.at = "body" => send.fd # 0
    /\ send.at \in {"body", "giveup"} => sock[send.slot] # 0

\* Until a send fails: whose the sockets are, and where the one message that is
\* being sent has its header.
Clean == ~sendFailed /\ ~earlySend
SockInv ==
  Clean =>
    /\ lpc.at # "accept" => Of(lpc.fd) = lpc.conn
    /\ lpc.at = "setsock" => sock[lpc.slot] = 0
    /\ lpc.at = "spawn" => sock[lpc.slot] = lpc.fd
    /\ \A c \in Conns : /\ HasFd(c) => Of(hpc[c].fd) = c
                        /\ Holding(c) => Of(sock[hpc[c].slot]) = c
    /\ send.at = "body" => used[send.slot] /\ send.fd = sock[send.slot]
    /\ send.at # "giveup"
FrameInv ==
  Clean =>
    /\ send.at # "body" => \A c \in Conns : body[c] = None
    /\ send.at = "body" => \A c \in Conns :
         body[c] = IF c = Of(send.fd) THEN send.who ELSE None

PscInv == /\ TypeOK /\ Shape /\ OnceInv /\ SlotOwned
          /\ FdInv /\ ListenInv /\ SockInv /\ FrameInv
---------------------------------------------------------------------------
(* Parts of steps *)

\* Slots keep their owners when handlers keep theirs and the listener does.
LEMMA OwnersKept ==
  ASSUME SlotOwned, UNCHANGED <<used, lpc>>,
         \A c \in Conns : /\ Holding(c)' = Holding(c)
                          /\ Holding(c) => hpc'[c].slot = hpc[c].slot
  PROVE  SlotOwned'
BY DEF SlotOwned, Adopting

HandlerRecs == [at : {"none", "start", "hello", "recv", "msg", "free", "close", "done"},
                slot : Slots \cup {0}, fd : Fds \cup {-1}]

LEMMA HandlerTypes ==
  ASSUME TypeOK, NEW c \in Conns, NEW r \in HandlerRecs, hpc' = [hpc EXCEPT ![c] = r]
  PROVE  hpc' \in [Conns -> HandlerRecs]
BY DEF TypeOK, HandlerRecs

\* A handler that goes from one place to another.
LEMMA SetAt ==
  ASSUME TypeOK, NEW c \in Conns, NEW l, hpc' = [hpc EXCEPT ![c].at = l]
  PROVE  hpc' = [hpc EXCEPT ![c] = [at |-> l, slot |-> hpc[c].slot, fd |-> hpc[c].fd]]
<1>1. hpc[c] \in HandlerRecs
  BY DEF TypeOK, HandlerRecs
<1>2. [hpc[c] EXCEPT !.at = l] = [at |-> l, slot |-> hpc[c].slot, fd |-> hpc[c].fd]
  BY <1>1 DEF HandlerRecs
<1> QED
  BY <1>2

LEMMA CloseTypes ==
  ASSUME TypeOK, NEW fd, Close(fd)
  PROVE  /\ net' \in [Conns -> {"new", "queued", "up", "gone"}]
         /\ fds' \in [Fds -> Conns \cup {"listen", None}]
BY DEF TypeOK, Close

\* On to the next slot, or out of the guard: the handler that was sending
\* receives now.
Moved == /\ hpc' \in [Conns -> HandlerRecs]
         /\ \A c \in Conns :
              /\ hpc'[c].slot = hpc[c].slot /\ hpc'[c].fd = hpc[c].fd
              /\ \/ hpc'[c].at = hpc[c].at /\ send'.who # c
                 \/ hpc[c].at = "hello" /\ hpc'[c].at = "recv"
         /\ send' \in [who : {"daemon", None}, slot : Slots \cup {0},
                       at : {"idle", "head"}, fd : {-1}]
         /\ send'.at = "idle" <=> send'.who = None
         /\ send'.who # None => send'.slot \in Slots

LEMMA NextMoves ==
  ASSUME TypeOK, Shape, ~GuardFree, SendNext
  PROVE  Moved
<1> USE PscAssumption DEF Slots
<1>1. CASE send.who = "daemon" /\ send.slot < NSlots
  <2>1. send' = [send EXCEPT !.slot = @ + 1, !.at = "head", !.fd = -1]
    BY <1>1 DEF SendNext
  <2>2. send' = [who |-> "daemon", slot |-> send.slot + 1, at |-> "head", fd |-> -1]
    BY <1>1, <2>1 DEF TypeOK
  <2>3. send.slot + 1 \in Slots
    BY <1>1 DEF Shape
  <2>4. hpc' = hpc
    BY <1>1 DEF SendNext
  <2>5. hpc' \in [Conns -> HandlerRecs]
    BY <2>4 DEF TypeOK, HandlerRecs
  <2> QED
    BY <2>2, <2>3, <2>4, <2>5 DEF Moved
<1>2. CASE ~(send.who = "daemon" /\ send.slot < NSlots)
  <2>1. send' = NoSend
    BY <1>2 DEF SendNext
  <2>2. hpc' = [c \in Conns |-> IF c = send.who THEN [at |-> "recv", slot |-> hpc[c].slot,
                                                     fd |-> hpc[c].fd]
                                ELSE hpc[c]]
    BY <1>2 DEF SendNext, TypeOK
  <2> QED
    BY <2>1, <2>2 DEF Moved, NoSend, TypeOK, Shape, HandlerRecs
<1> QED
  BY <1>1, <1>2

---------------------------------------------------------------------------
(* The steps *)

\* A client connects or goes.
LEMMA NetStep ==
  ASSUME PscInv, NEW c \in Conns, Connect(c) \/ PeerGone(c)
  PROVE  PscInv'
<1>1. TypeOK'
  BY DEF PscInv, Connect, PeerGone, slotVars, sendVars, TypeOK
<1>2. Shape'
  BY DEF PscInv, Connect, PeerGone, sendVars, Shape, Holding, Adopting, GuardFree
<1>3. OnceInv'
  BY DEF PscInv, Connect, PeerGone, OnceInv, TypeOK, Shape
<1>4. SlotOwned'
  BY DEF PscInv, Connect, PeerGone, slotVars, SlotOwned, Holding, Adopting
<1>5. FdInv'
  BY DEF PscInv, Connect, PeerGone, slotVars, FdInv, HasFd, Holding
<1>6. ListenInv'
  BY DEF PscInv, Connect, PeerGone, slotVars, sendVars, ListenInv
<1>7. SockInv'
  BY DEF PscInv, Connect, PeerGone, slotVars, sendVars, SockInv, Clean, HasFd,
     Holding, Of
<1>8. FrameInv'
  BY DEF PscInv, Connect, PeerGone, sendVars, FrameInv, Clean, Of
<1> QED
  BY <1>1, <1>2, <1>3, <1>4, <1>5, <1>6, <1>7, <1>8 DEF PscInv

\* A handler takes its socket from the slot it owns.
LEMMA HandlerStartStep ==
  ASSUME PscInv, NEW c \in Conns, HandlerStart(c)
  PROVE  PscInv'
<1>0. /\ hpc[c].at = "start" /\ Holding(c) /\ UNCHANGED <<netVars, slotVars, lpc, sendVars>>
      /\ hpc' = [hpc EXCEPT ![c] = [at |-> "hello", slot |-> hpc[c].slot, fd |-> sock[hpc[c].slot]]]
  BY DEF HandlerStart, Holding
<1>1. TypeOK'
  <2>1. [at |-> "hello", slot |-> hpc[c].slot, fd |-> sock[hpc[c].slot]] \in HandlerRecs
    BY <1>0 DEF PscInv, TypeOK, Shape, HandlerRecs
  <2> QED
    BY <1>0, <2>1 DEF PscInv, TypeOK, HandlerRecs, netVars, slotVars, sendVars
<1>2. Shape'
  BY <1>0 DEF PscInv, sendVars, Shape, Holding, Adopting, GuardFree
<1>3. OnceInv'
  BY <1>0 DEF PscInv, netVars, OnceInv
<1>4. SlotOwned'
  BY <1>0, OwnersKept DEF PscInv, Holding, slotVars
<1>5. FdInv'
  BY <1>0 DEF PscInv, slotVars, FdInv, HasFd, Holding
<1>6. ListenInv'
  BY <1>0 DEF PscInv, netVars, slotVars, sendVars, ListenInv
<1>7. SockInv'
  BY <1>0 DEF PscInv, netVars, slotVars, sendVars, SockInv, Clean, HasFd, Holding, Of
<1>8. FrameInv'
  BY <1>0 DEF PscInv, netVars, sendVars, FrameInv, Clean, Of
<1> QED
  BY <1>1, <1>2, <1>3, <1>4, <1>5, <1>6, <1>7, <1>8 DEF PscInv

\* A handler receives, answers, or has lost its client.
LEMMA HandlerMoves ==
  ASSUME PscInv, NEW c \in Conns, RecvMsg(c) \/ ClientMsg(c) \/ RecvFails(c)
  PROVE  PscInv'
<1>0. /\ Holding(c) /\ UNCHANGED <<netVars, slotVars, lpc, sendVars>> /\ hpc[c].at # "hello"
      /\ \E l \in {"recv", "msg", "free"} :
           hpc' = [hpc EXCEPT ![c] = [at |-> l, slot |-> hpc[c].slot, fd |-> hpc[c].fd]]
  BY DEF PscInv, TypeOK, RecvMsg, ClientMsg, RecvFails, Holding
<1>1. TypeOK'
  BY <1>0 DEF PscInv, netVars, slotVars, sendVars, TypeOK
<1>2. Shape'
  BY <1>0 DEF PscInv, sendVars, Shape, Holding, Adopting, GuardFree
<1>3. OnceInv'
  BY <1>0 DEF PscInv, RecvMsg, ClientMsg, RecvFails, netVars, OnceInv
<1>4. SlotOwned'
  BY <1>0, OwnersKept DEF PscInv, Holding, slotVars
<1>5. FdInv'
  BY <1>0 DEF PscInv, RecvMsg, ClientMsg, RecvFails, slotVars, FdInv, HasFd, Holding
<1>6. ListenInv'
  BY <1>0 DEF PscInv, netVars, slotVars, sendVars, ListenInv
<1>7. SockInv'
  BY <1>0 DEF PscInv, RecvMsg, ClientMsg, RecvFails, netVars, slotVars, sendVars,
     SockInv, Clean, HasFd, Holding, Of
<1>8. FrameInv'
  BY <1>0 DEF PscInv, netVars, sendVars, FrameInv, Clean, Of
<1> QED
  BY <1>1, <1>2, <1>3, <1>4, <1>5, <1>6, <1>7, <1>8 DEF PscInv

\* A daemon or a handler takes the guard to send.
LEMMA SendBegins ==
  ASSUME PscInv, BroadcastBegin \/ \E c \in Conns : HelloBegin(c)
  PROVE  PscInv'
<1>1. TypeOK'
  BY PscAssumption DEF PscInv, BroadcastBegin, HelloBegin, netVars, slotVars, TypeOK,
     Slots
<1>2. Shape'
  BY PscAssumption DEF PscInv, BroadcastBegin, HelloBegin, Shape, Slots, Holding,
     Adopting, GuardFree
<1>3. OnceInv'
  BY DEF PscInv, BroadcastBegin, HelloBegin, netVars, OnceInv
<1>4. SlotOwned'
  BY DEF PscInv, BroadcastBegin, HelloBegin, slotVars, SlotOwned, Holding, Adopting
<1>5. FdInv'
  BY DEF PscInv, BroadcastBegin, HelloBegin, slotVars, FdInv, HasFd, Holding
<1>6. ListenInv'
  BY DEF PscInv, BroadcastBegin, HelloBegin, netVars, ListenInv
<1>7. SockInv'
  BY DEF PscInv, BroadcastBegin, HelloBegin, netVars, slotVars, SockInv, Clean,
     HasFd, Holding, Of
<1>8. FrameInv'
  BY DEF PscInv, BroadcastBegin, HelloBegin, FrameInv, Clean, GuardFree
<1> QED
  BY <1>1, <1>2, <1>3, <1>4, <1>5, <1>6, <1>7, <1>8 DEF PscInv

\* A handler gives its slot back.
LEMMA ClientFreeStep ==
  ASSUME PscInv, NEW c \in Conns, ClientFree(c)
  PROVE  PscInv'
<1>a. hpc' = [hpc EXCEPT ![c].at = "close"]
  BY DEF ClientFree
<1>0. /\ hpc[c].at = "free" /\ Holding(c) /\ GuardFree /\ UNCHANGED <<netVars, lpc, sendVars>>
      /\ hpc[c].slot \in Slots
      /\ used' = [used EXCEPT ![hpc[c].slot] = FALSE] /\ sock' = [sock EXCEPT ![hpc[c].slot] = 0]
  BY DEF PscInv, Shape, ClientFree, Holding
<1>b. hpc' = [hpc EXCEPT ![c] = [at |-> "close", slot |-> hpc[c].slot, fd |-> hpc[c].fd]]
  BY <1>a, SetAt DEF PscInv
<1>1. TypeOK'
  <2>1. [at |-> "close", slot |-> hpc[c].slot, fd |-> hpc[c].fd] \in HandlerRecs
    BY DEF PscInv, TypeOK, HandlerRecs
  <2>2. hpc' \in [Conns -> HandlerRecs]
    BY <1>b, <2>1, HandlerTypes DEF PscInv
  <2>3. used' \in [Slots -> BOOLEAN] /\ sock' \in [Slots -> Fds \cup {-1}]
    BY <1>0, PscAssumption DEF PscInv, TypeOK, Fds
  <2> QED
    BY <1>0, <2>2, <2>3 DEF PscInv, TypeOK, HandlerRecs, netVars, sendVars
<1>2. Shape'
  BY <1>0, <1>b DEF PscInv, sendVars, Shape, Holding, Adopting, GuardFree
<1>3. OnceInv'
  BY <1>0, <1>b DEF PscInv, netVars, OnceInv
<1>4. SlotOwned'
  BY <1>0, <1>b DEF PscInv, SlotOwned, Holding, Adopting, TypeOK
<1>5. FdInv'
  BY <1>0, <1>b DEF PscInv, FdInv, HasFd, Holding, Adopting, TypeOK, SlotOwned
<1>6. ListenInv'
  BY <1>0, <1>b DEF PscInv, netVars, sendVars, ListenInv, Shape
<1>7. SockInv'
  BY <1>0, <1>b DEF PscInv, netVars, sendVars, SockInv, Clean, HasFd, Holding, Of,
     TypeOK, Shape, OnceInv
<1>8. FrameInv'
  BY <1>0, <1>b DEF PscInv, netVars, sendVars, FrameInv, Clean, Of
<1> QED
  BY <1>1, <1>2, <1>3, <1>4, <1>5, <1>6, <1>7, <1>8 DEF PscInv

\* A handler closes its socket.
LEMMA CloseSockStep ==
  ASSUME PscInv, NEW c \in Conns, CloseSock(c)
  PROVE  PscInv'
<1>a. hpc' = [hpc EXCEPT ![c].at = "done"]
  BY DEF CloseSock
<1>0. hpc[c].at = "close" /\ ~Holding(c) /\ UNCHANGED <<slotVars, lpc, sendVars>> /\ GuardFree
  BY DEF CloseSock, Holding
<1>b. hpc' = [hpc EXCEPT ![c] = [at |-> "done", slot |-> hpc[c].slot, fd |-> hpc[c].fd]]
  BY <1>a, SetAt DEF PscInv
<1>1. TypeOK'
  <2>1. [at |-> "done", slot |-> hpc[c].slot, fd |-> hpc[c].fd] \in HandlerRecs
    BY DEF PscInv, TypeOK, HandlerRecs
  <2>2. hpc' \in [Conns -> HandlerRecs]
    BY <1>b, <2>1, HandlerTypes DEF PscInv
  <2> QED
    BY <1>0, <2>2, CloseTypes DEF PscInv, CloseSock, TypeOK, slotVars, sendVars
<1>2. Shape'
  BY <1>0, <1>b DEF PscInv, sendVars, Shape, Holding, Adopting, GuardFree
<1>3. OnceInv'
  BY <1>0, <1>b DEF PscInv, CloseSock, Close, OnceInv, Shape
<1>4. SlotOwned'
  BY <1>0, <1>b, OwnersKept DEF PscInv, Holding, slotVars
<1>5. FdInv'
  BY <1>0, <1>b DEF PscInv, slotVars, FdInv, HasFd, Holding
<1>6. ListenInv'
  BY PscAssumption, <1>0, <1>b DEF PscInv, CloseSock, Close, slotVars, sendVars,
     ListenInv, Fds, FdInv, HasFd
<1>7. SockInv'
  BY <1>0, <1>b DEF PscInv, CloseSock, Close, slotVars, sendVars, SockInv, Clean,
     HasFd, Holding, Of, TypeOK, OnceInv
<1>8. FrameInv'
  BY <1>0, <1>b DEF PscInv, sendVars, FrameInv, Clean, GuardFree
<1> QED
  BY <1>1, <1>2, <1>3, <1>4, <1>5, <1>6, <1>7, <1>8 DEF PscInv

\* A connection gets a descriptor that nobody has.
LEMMA AcceptStep ==
  ASSUME PscInv, NEW c \in Conns, Accept(c)
  PROVE  PscInv'
<1>1. TypeOK'
  <2>1. CASE {f \in Fds : fds[f] = None} = {}
    BY <2>1 DEF PscInv, TypeOK, Accept, slotVars, sendVars
  <2>2. CASE {f \in Fds : fds[f] = None} # {}
    <3>1. PICK f \in Fds : /\ fds' = [fds EXCEPT ![f] = c] /\ net' = [net EXCEPT ![c] = "up"]
                           /\ lpc' = [at |-> "alloc", conn |-> c, fd |-> f, slot |-> 0]
      BY <2>2 DEF Accept
    <3>2. UNCHANGED <<slotVars, hpc, sendVars>>
      BY DEF Accept
    <3> QED
      BY <3>1, <3>2 DEF PscInv, TypeOK, slotVars, sendVars
  <2> QED
    BY <2>1, <2>2
<1>2. Shape'
  BY PscAssumption DEF PscInv, Accept, sendVars, Shape, Holding, Adopting, GuardFree
<1>3. OnceInv'
  BY DEF PscInv, Accept, Waiting, OnceInv, TypeOK
<1>4. SlotOwned'
  BY DEF PscInv, Accept, Waiting, slotVars, SlotOwned, Holding, Shape, Slots
<1>5. FdInv'
  BY DEF PscInv, Accept, slotVars, FdInv, HasFd, Holding
<1>6. ListenInv'
  BY PscAssumption DEF PscInv, Accept, slotVars, sendVars, ListenInv, TypeOK, Fds
<1>7. SockInv'
  BY PscAssumption DEF PscInv, Accept, slotVars, sendVars, SockInv, Clean, HasFd,
     Holding, Of, TypeOK, SlotOwned
<1>8. FrameInv'
  BY PscAssumption DEF PscInv, Accept, sendVars, FrameInv, SockInv, Clean, Of, TypeOK,
     Shape, Slots, GuardFree, SlotOwned, Adopting
<1> QED
  BY <1>1, <1>2, <1>3, <1>4, <1>5, <1>6, <1>7, <1>8 DEF PscInv

\* The listener takes a slot that nobody has.
LEMMA ClientAllocStep ==
  ASSUME PscInv, ClientAlloc
  PROVE  PscInv'
<1>1. TypeOK'
  <2>1. PICK i \in Slots : /\ used' = [used EXCEPT ![i] = TRUE] /\ sock' = [sock EXCEPT ![i] = 0]
                           /\ lpc' = [lpc EXCEPT !.at = "setsock", !.slot = i]
    BY DEF ClientAlloc
  <2>2. lpc' = [at |-> "setsock", conn |-> lpc.conn, fd |-> lpc.fd, slot |-> i]
    BY <2>1 DEF PscInv, TypeOK
  <2>3. UNCHANGED <<netVars, hpc, sendVars>>
    BY DEF ClientAlloc
  <2> QED
    BY <2>1, <2>2, <2>3, PscAssumption DEF PscInv, TypeOK, Fds, netVars, sendVars
<1>2. Shape'
  BY DEF PscInv, ClientAlloc, sendVars, Shape, Holding, GuardFree
<1>3. OnceInv'
  BY DEF PscInv, ClientAlloc, netVars, OnceInv
<1>4. SlotOwned'
  BY DEF PscInv, ClientAlloc, SlotOwned, Holding, Adopting, TypeOK
<1>5. FdInv'
  BY DEF PscInv, ClientAlloc, FdInv, HasFd, Holding, SlotOwned
<1>6. ListenInv'
  BY DEF PscInv, ClientAlloc, netVars, sendVars, ListenInv, Shape
<1>7. SockInv'
  BY DEF PscInv, ClientAlloc, netVars, sendVars, SockInv, Clean, HasFd, Holding, Of,
     TypeOK, SlotOwned
<1>8. FrameInv'
  BY DEF PscInv, ClientAlloc, netVars, sendVars, FrameInv, Clean, Of
<1> QED
  BY <1>1, <1>2, <1>3, <1>4, <1>5, <1>6, <1>7, <1>8 DEF PscInv

\* There is none, and the connection is to be closed.
LEMMA NoSlotStep ==
  ASSUME PscInv, ClientAllocNone
  PROVE  PscInv'
<1>1. TypeOK'
  BY DEF PscInv, ClientAllocNone, netVars, slotVars, sendVars, TypeOK
<1>2. Shape'
  BY DEF PscInv, ClientAllocNone, sendVars, Shape, Holding, Adopting, GuardFree
<1>3. OnceInv'
  BY DEF PscInv, ClientAllocNone, netVars, OnceInv
<1>4. SlotOwned'
  BY DEF PscInv, ClientAllocNone, slotVars, SlotOwned, Holding, Adopting
<1>5. FdInv'
  BY DEF PscInv, ClientAllocNone, slotVars, FdInv, HasFd, Holding
<1>6. ListenInv'
  BY DEF PscInv, ClientAllocNone, netVars, slotVars, sendVars, ListenInv
<1>7. SockInv'
  BY DEF PscInv, ClientAllocNone, netVars, slotVars, sendVars, SockInv, Clean, HasFd,
     Holding, Of
<1>8. FrameInv'
  BY DEF PscInv, ClientAllocNone, netVars, sendVars, FrameInv, Clean, Of
<1> QED
  BY <1>1, <1>2, <1>3, <1>4, <1>5, <1>6, <1>7, <1>8 DEF PscInv

\* Its socket is closed.
LEMMA DropClientStep ==
  ASSUME PscInv, DropClient
  PROVE  PscInv'
<1>1. TypeOK'
  BY DEF PscInv, DropClient, Close, Waiting, slotVars, sendVars, TypeOK
<1>2. Shape'
  BY DEF PscInv, DropClient, Waiting, sendVars, Shape, Holding, Adopting, GuardFree
<1>3. OnceInv'
  BY DEF PscInv, DropClient, Close, Waiting, OnceInv
<1>4. SlotOwned'
  BY DEF PscInv, DropClient, Waiting, slotVars, SlotOwned, Holding, Adopting
<1>5. FdInv'
  BY DEF PscInv, DropClient, Waiting, slotVars, FdInv, HasFd, Holding
<1>6. ListenInv'
  BY PscAssumption DEF PscInv, DropClient, Close, slotVars, sendVars, ListenInv,
     Shape, Fds
<1>7. SockInv'
  BY DEF PscInv, DropClient, Close, Waiting, slotVars, sendVars, SockInv, Clean,
     HasFd, Holding, Of, OnceInv
<1>8. FrameInv'
  <2>1. CASE Clean /\ send.at = "body"
    <3>1. PICK c \in Conns : Of(send.fd) = c /\ Holding(c)
      BY <2>1 DEF PscInv, SlotOwned, SockInv, DropClient, Adopting, Shape
    <3>2. c # lpc.conn /\ Of(lpc.fd) = lpc.conn
      BY <2>1, <3>1 DEF PscInv, OnceInv, SockInv, DropClient, Holding
    <3>3. Of(send.fd)' = Of(send.fd)
      BY <3>1, <3>2 DEF DropClient, Close, Of, sendVars
    <3> QED
      BY <2>1, <3>3 DEF PscInv, FrameInv, DropClient, sendVars
  <2>2. CASE ~(Clean /\ send.at = "body")
    BY <2>2 DEF PscInv, FrameInv, Clean, DropClient, sendVars
  <2> QED
    BY <2>1, <2>2
<1> QED
  BY <1>1, <1>2, <1>3, <1>4, <1>5, <1>6, <1>7, <1>8 DEF PscInv

\* The slot gets its socket.
LEMMA SetSockStep ==
  ASSUME PscInv, SetSock
  PROVE  PscInv'
<1>1. TypeOK'
  BY DEF PscInv, SetSock, netVars, sendVars, TypeOK
<1>2. Shape'
  BY DEF PscInv, SetSock, sendVars, Shape, Holding, Adopting, GuardFree
<1>3. OnceInv'
  BY DEF PscInv, SetSock, netVars, OnceInv
<1>4. SlotOwned'
  BY DEF PscInv, SetSock, SlotOwned, Holding, Adopting
<1>5. FdInv'
  BY DEF PscInv, SetSock, FdInv, HasFd, Holding, Adopting, TypeOK, Shape
<1>6. ListenInv'
  BY DEF PscInv, SetSock, netVars, sendVars, ListenInv, Shape
<1>7. SockInv'
  BY DEF PscInv, SetSock, netVars, sendVars, SockInv, Clean, HasFd, Holding,
     Adopting, Of, TypeOK, Shape, FdInv, ListenInv
<1>8. FrameInv'
  BY DEF PscInv, SetSock, netVars, sendVars, FrameInv, Clean, Of
<1> QED
  BY <1>1, <1>2, <1>3, <1>4, <1>5, <1>6, <1>7, <1>8 DEF PscInv

\* The slot goes from the listener to the handler.
LEMMA SpawnStep ==
  ASSUME PscInv, Spawn
  PROVE  PscInv'
<1>1. TypeOK'
  BY DEF PscInv, Spawn, Waiting, netVars, slotVars, sendVars, TypeOK
<1>2. Shape'
  BY DEF PscInv, Spawn, Waiting, OnceInv, sendVars, Shape, Holding, Adopting, GuardFree
<1>3. OnceInv'
  BY DEF PscInv, Spawn, Waiting, netVars, OnceInv
<1>4. SlotOwned'
  BY DEF PscInv, Spawn, Waiting, slotVars, SlotOwned, Holding, Adopting,
     TypeOK, Shape, OnceInv
<1>5. FdInv'
  BY DEF PscInv, Spawn, Waiting, slotVars, FdInv, HasFd, Holding
<1>6. ListenInv'
  BY DEF PscInv, Spawn, netVars, slotVars, sendVars, ListenInv
<1>7. SockInv'
  BY DEF PscInv, Spawn, Waiting, netVars, slotVars, sendVars, SockInv, Clean, HasFd,
     Holding, Of
<1>8. FrameInv'
  BY DEF PscInv, Spawn, netVars, sendVars, FrameInv, Clean, Of
<1> QED
  BY <1>1, <1>2, <1>3, <1>4, <1>5, <1>6, <1>7, <1>8 DEF PscInv

\* A slot without a client, or given up, is passed over.
LEMMA SkipSlotStep ==
  ASSUME PscInv, SkipSlot
  PROVE  PscInv'
<1>0. ~GuardFree /\ Moved
  BY NextMoves DEF PscInv, SkipSlot, Shape
<1>1. TypeOK'
  BY <1>0 DEF PscInv, SkipSlot, HandlerRecs, Moved, netVars, slotVars, TypeOK
<1>2. Shape'
  BY PscAssumption, <1>0 DEF PscInv, SkipSlot, Moved, Shape, Holding, Adopting,
     GuardFree
<1>3. OnceInv'
  BY <1>0 DEF PscInv, SkipSlot, Moved, netVars, OnceInv, Shape
<1>4. SlotOwned'
  BY <1>0, OwnersKept DEF PscInv, Moved, Holding, SkipSlot, slotVars
<1>5. FdInv'
  BY <1>0 DEF PscInv, SkipSlot, Moved, slotVars, FdInv, HasFd, Holding
<1>6. ListenInv'
  BY <1>0 DEF PscInv, SkipSlot, Moved, netVars, ListenInv
<1>7. SockInv'
  BY <1>0 DEF PscInv, SkipSlot, Moved, netVars, slotVars, SockInv, Clean, HasFd,
     Holding, Of
<1>8. FrameInv'
  BY <1>0 DEF PscInv, SkipSlot, Moved, FrameInv, Clean
<1> QED
  BY <1>1, <1>2, <1>3, <1>4, <1>5, <1>6, <1>7, <1>8 DEF PscInv

\* A header.
LEMMA SendHeadStep ==
  ASSUME PscInv, SendHead
  PROVE  PscInv'
<1>1. TypeOK'
  <2>1. send' = [who |-> send.who, slot |-> send.slot, at |-> "body", fd |-> sock[send.slot]]
    BY DEF PscInv, TypeOK, SendHead
  <2>2. send.slot \in Slots
    BY DEF PscInv, Shape, SendHead
  <2>3. PICK d \in Conns : body' = [body EXCEPT ![d] = send.who]
    BY DEF SendHead
  <2> QED
    BY <2>1, <2>2, <2>3 DEF PscInv, TypeOK, SendHead, netVars, slotVars
<1>2. Shape'
  BY DEF PscInv, SendHead, Shape, Holding, Adopting, GuardFree
<1>3. OnceInv'
  BY DEF PscInv, SendHead, netVars, OnceInv
<1>4. SlotOwned'
  BY DEF PscInv, SendHead, slotVars, SlotOwned, Holding, Adopting
<1>5. FdInv'
  BY DEF PscInv, SendHead, slotVars, FdInv, HasFd, Holding
<1>6. ListenInv'
  BY PscAssumption DEF PscInv, SendHead, netVars, slotVars, ListenInv, Of
<1>7. SockInv'
  BY DEF PscInv, SendHead, netVars, slotVars, SockInv, Clean, HasFd, Holding, Of
<1>8. FrameInv'
  BY DEF PscInv, SendHead, netVars, FrameInv, Clean, Of, TypeOK
<1> QED
  BY <1>1, <1>2, <1>3, <1>4, <1>5, <1>6, <1>7, <1>8 DEF PscInv

\* A body.
LEMMA SendBodyStep ==
  ASSUME PscInv, SendBody
  PROVE  PscInv'
<1>0. ~GuardFree /\ Moved
  BY NextMoves DEF PscInv, SendBody, Shape
<1>1. TypeOK'
  BY <1>0 DEF PscInv, SendBody, HandlerRecs, Moved, netVars, slotVars, TypeOK
<1>2. Shape'
  BY PscAssumption, <1>0 DEF PscInv, SendBody, Moved, Shape, Holding, Adopting,
     GuardFree
<1>3. OnceInv'
  BY <1>0 DEF PscInv, SendBody, Moved, netVars, OnceInv, Shape
<1>4. SlotOwned'
  BY <1>0, OwnersKept DEF PscInv, Moved, Holding, SendBody, slotVars
<1>5. FdInv'
  BY <1>0 DEF PscInv, SendBody, Moved, slotVars, FdInv, HasFd, Holding
<1>6. ListenInv'
  BY <1>0 DEF PscInv, SendBody, Moved, netVars, ListenInv
<1>7. SockInv'
  BY <1>0 DEF PscInv, SendBody, Moved, netVars, slotVars, SockInv, Clean, HasFd,
     Holding, Of
<1>8. FrameInv'
  BY <1>0 DEF PscInv, SendBody, Moved, FrameInv, Clean, TypeOK
<1> QED
  BY <1>1, <1>2, <1>3, <1>4, <1>5, <1>6, <1>7, <1>8 DEF PscInv

\* A send that fails: what is promised until then is promised no more.
LEMMA SendFailsStep ==
  ASSUME PscInv, SendFails
  PROVE  PscInv'
<1>1. TypeOK'
  <2>1. PICK fd \in Fds \cup {-1} :
          /\ send' = [send EXCEPT !.at = "giveup", !.fd = fd]
          /\ sendFailed' \in BOOLEAN /\ earlySend' \in BOOLEAN
    BY DEF PscInv, TypeOK, Shape, SendFails
  <2>2. send' = [who |-> send.who, slot |-> send.slot, at |-> "giveup", fd |-> fd]
    BY <2>1 DEF PscInv, TypeOK
  <2> QED
    BY <2>1, <2>2 DEF PscInv, TypeOK, SendFails, netVars, slotVars
<1>2. Shape'
  BY DEF PscInv, SendFails, Shape, Holding, Adopting, GuardFree
<1>3. OnceInv'
  BY DEF PscInv, SendFails, netVars, OnceInv
<1>4. SlotOwned'
  BY DEF PscInv, SendFails, slotVars, SlotOwned, Holding, Adopting
<1>5. FdInv'
  BY DEF PscInv, SendFails, slotVars, FdInv, HasFd, Holding
<1>6. ListenInv'
  BY DEF PscInv, SendFails, netVars, slotVars, ListenInv, TypeOK, Shape
<1>7. SockInv'
  BY DEF PscInv, SendFails, SockInv, Clean, Adopting, TypeOK, Shape, SlotOwned
<1>8. FrameInv'
  BY DEF PscInv, SendFails, FrameInv, SockInv, Clean, TypeOK, Shape
<1> QED
  BY <1>1, <1>2, <1>3, <1>4, <1>5, <1>6, <1>7, <1>8 DEF PscInv

\* The sender closes the socket of the slot.
LEMMA GiveUpStep ==
  ASSUME PscInv, GiveUp
  PROVE  PscInv'
<1>0. ~GuardFree /\ Moved
  BY NextMoves DEF PscInv, GiveUp, Shape
<1>1. TypeOK'
  BY <1>0 DEF PscInv, GiveUp, HandlerRecs, Moved, Close, TypeOK
<1>2. Shape'
  BY PscAssumption, <1>0 DEF PscInv, GiveUp, Moved, Shape, Holding, Adopting, GuardFree
<1>3. OnceInv'
  BY <1>0 DEF PscInv, GiveUp, Moved, Close, OnceInv, Shape
<1>4. SlotOwned'
  BY <1>0, OwnersKept DEF PscInv, Moved, Holding, GiveUp
<1>5. FdInv'
  BY <1>0 DEF PscInv, GiveUp, Moved, FdInv, HasFd, Holding, TypeOK
<1>6. ListenInv'
  BY PscAssumption, <1>0 DEF PscInv, GiveUp, Moved, Close, ListenInv, Fds
<1>7. SockInv'
  BY <1>0 DEF PscInv, GiveUp, SockInv, Clean
<1>8. FrameInv'
  BY <1>0 DEF PscInv, GiveUp, FrameInv, SockInv, Clean
<1> QED
  BY <1>1, <1>2, <1>3, <1>4, <1>5, <1>6, <1>7, <1>8 DEF PscInv

---------------------------------------------------------------------------
LEMMA InitInv == Init => PscInv
<1> SUFFICES ASSUME Init PROVE PscInv
  OBVIOUS
<1> USE PscAssumption DEF Init, NoSend, NoHandle, Waiting, Slots, Fds
<1>1. TypeOK
  <2>1. /\ net \in [Conns -> {"new", "queued", "up", "gone"}]
        /\ fds \in [Fds -> Conns \cup {"listen", None}]
    OBVIOUS
  <2>2. used \in [Slots -> BOOLEAN] /\ sock \in [Slots -> Fds \cup {-1}]
    OBVIOUS
  <2>3. /\ lpc \in [at : {"accept", "alloc", "drop", "setsock", "spawn"},
                    conn : Conns \cup {None}, fd : Fds \cup {-1}, slot : Slots \cup {0}]
        /\ hpc \in [Conns -> HandlerRecs]
    BY DEF HandlerRecs
  <2>4. /\ send \in [who : Conns \cup {"daemon", None}, slot : Slots \cup {0},
                     at : {"idle", "head", "body", "giveup"}, fd : Fds \cup {-1}]
        /\ body \in [Conns -> Conns \cup {"daemon", None}]
    OBVIOUS
  <2> QED
    BY <2>1, <2>2, <2>3, <2>4 DEF TypeOK
<1>2. Shape /\ OnceInv
  BY DEF Shape, OnceInv, Adopting, Holding, GuardFree
<1>3. SlotOwned
  BY DEF SlotOwned, Holding
<1>4. FdInv /\ ListenInv
  BY DEF FdInv, ListenInv, Holding
<1>5. SockInv /\ FrameInv
  BY DEF SockInv, FrameInv, Holding, HasFd
<1> QED
  BY <1>1, <1>2, <1>3, <1>4, <1>5 DEF PscInv

LEMMA Stutter ==
  ASSUME PscInv, UNCHANGED vars
  PROVE  PscInv'
BY DEF PscInv, TypeOK, Shape, OnceInv, SlotOwned, FdInv, ListenInv, SockInv,
   FrameInv, Clean, Of, HasFd, Holding, Adopting, GuardFree, vars, netVars, slotVars,
   sendVars

LEMMA NextInv == PscInv /\ [Next]_vars => PscInv'
<1> SUFFICES ASSUME PscInv, [Next]_vars PROVE PscInv'
  OBVIOUS
<1>1. ASSUME NEW c \in Conns, Connect(c) \/ PeerGone(c) \/ Handler(c)
      PROVE  PscInv'
  BY <1>1, NetStep, HandlerStartStep, SendBegins, HandlerMoves, ClientFreeStep,
     CloseSockStep DEF Handler
<1>2. CASE Listener
  BY <1>2, AcceptStep, ClientAllocStep, NoSlotStep, DropClientStep, SetSockStep,
     SpawnStep DEF Listener
<1>3. CASE BroadcastBegin \/ Sending
  BY <1>3, SendBegins, SkipSlotStep, SendHeadStep, SendBodyStep, SendFailsStep,
     GiveUpStep DEF Sending
<1> QED
  BY <1>1, <1>2, <1>3, Stutter DEF Next

LEMMA Invariant == Spec => []PscInv
BY InitInv, NextInv, PTL DEF Spec

\* Every variable has its type, for any number of connections, slots and
\* descriptors.
THEOREM TypeCorrect == Spec => []TypeOK
<1>1. PscInv => TypeOK
  BY DEF PscInv
<1> QED
  BY <1>1, Invariant, PTL

\* Each slot in use is one handler's or the listener's, and none is lost
\* (clients_used).
THEOREM SlotsOwned == Spec => []SlotOwned
<1>1. PscInv => SlotOwned
  BY DEF PscInv
<1> QED
  BY <1>1, Invariant, PTL

\* Until a send fails each handler's socket, and its slot's, is its client's.
THEOREM OwnSockets == Spec => []OwnSocket
<1>1. PscInv => OwnSocket
  BY DEF PscInv, SockInv, OwnSocket, Clean, HasFd
<1> QED
  BY <1>1, Invariant, PTL

\* Messages are not mixed in a client's stream, until a send fails.
THEOREM Framing == Spec => []Framed
<1>1. PscInv => Framed
  BY DEF PscInv, FrameInv, Framed, Clean
<1> QED
  BY <1>1, Invariant, PTL

\* The listening socket is closed by nobody, whichever sends fail, as long as
\* none meets a slot that has no socket yet.
THEOREM Listening == Spec => []ListenerOpen
<1>1. PscInv => ListenerOpen
  BY DEF PscInv, ListenInv, ListenerOpen
<1> QED
  BY <1>1, Invariant, PTL
=============================================================================
