----------------------------- MODULE PscServer ------------------------------
(***************************************************************************)
(* The control-system server on TCP port 3000 (listener.c, pscmsg.c): the  *)
(* listener that adopts connections, a handler thread per client, and the  *)
(* daemons (lstats, brdstats, dmadata, gendata, thermistor) that broadcast *)
(* to every client under sendguard.                                        *)
(*                                                                         *)
(* Threads are switched between any two calls.  A socket is a descriptor   *)
(* of lwIP, an index into a table: accept takes the lowest free one, and a *)
(* closed descriptor names the next connection that is accepted.           *)
(*                                                                         *)
(* Message contents are left out: a message is a header and a body.        *)
(***************************************************************************)
EXTENDS Integers, FiniteSets

CONSTANTS
  Conns,         \* the connections clients make; each is made once
  NSlots,        \* PSC_MAX_CLIENTS
  NFds,          \* descriptors in lwIP's table
  None

ASSUME PscAssumption ==
  /\ NSlots \in Nat \ {0} /\ NFds \in Nat /\ NFds > 1
  /\ IsFiniteSet(Conns)
  /\ None \notin Conns \cup {"listen", "daemon"}
  /\ "listen" \notin Conns /\ "daemon" \notin Conns

Slots == 1 .. NSlots
Fds   == 0 .. NFds - 1

VARIABLES
  net,           \* per connection: "new", "queued", "up" or "gone"
  fds,           \* descriptor table: a connection, "listen", or None
  used, sock,    \* clients_used, and sock of each slot
  lpc,           \* the listener: where it is, the connection, client, C
  hpc,           \* the handler of each connection: where it is, slot, sock
  send,          \* who holds sendguard to send, at which slot, doing what
  body,          \* per connection: who owes its stream the body of a message
  sendFailed,    \* history: a send to a client has failed
  earlySend      \* history: a send met a slot still without its socket

netVars  == <<net, fds>>
slotVars == <<used, sock>>
sendVars == <<send, body, sendFailed, earlySend>>
vars     == <<netVars, slotVars, lpc, hpc, sendVars>>

NoSend   == [who |-> None, slot |-> 0, at |-> "idle", fd |-> -1]
NoHandle == [at |-> "none", slot |-> 0, fd |-> -1]
Waiting  == [at |-> "accept", conn |-> None, fd |-> -1, slot |-> 0]

Of(fd) == IF fd \in Fds THEN fds[fd] ELSE None

\* close(fd); on a descriptor that is not open, an error nobody looks at.
Close(fd) ==
  /\ fds' = [f \in Fds |-> IF f = fd THEN None ELSE fds[f]]
  /\ net' = [c \in Conns |-> IF Of(fd) = c THEN "gone" ELSE net[c]]

GuardFree == send.who = None

---------------------------------------------------------------------------
(* The network (external): clients connect and go.                         *)

Connect(c) ==
  /\ net[c] = "new" /\ fds[0] = "listen"
  /\ net' = [net EXCEPT ![c] = "queued"]
  /\ UNCHANGED <<fds, slotVars, lpc, hpc, sendVars>>

PeerGone(c) ==
  /\ net[c] \in {"queued", "up"}
  /\ net' = [net EXCEPT ![c] = "gone"]
  /\ UNCHANGED <<fds, slotVars, lpc, hpc, sendVars>>

---------------------------------------------------------------------------
(* The listener loop of psc_run.  An accept on a closed socket fails and   *)
(* is tried again: nothing changes.                                        *)

\* accept; without a free descriptor lwIP drops the connection.
Accept(c) ==
  /\ lpc = Waiting /\ fds[0] = "listen" /\ net[c] = "queued"
  /\ LET free == {f \in Fds : fds[f] = None}
     IN  IF free = {}
         THEN net' = [net EXCEPT ![c] = "gone"] /\ UNCHANGED <<fds, lpc>>
         ELSE \E f \in free :
                /\ \A g \in free : f <= g
                /\ net' = [net EXCEPT ![c] = "up"]
                /\ fds' = [fds EXCEPT ![f] = c]
                /\ lpc' = [at |-> "alloc", conn |-> c, fd |-> f, slot |-> 0]
  /\ UNCHANGED <<slotVars, hpc, sendVars>>

\* Mutated form: a slot is taken without looking at clients_used.
ClientAllocAny ==
  /\ lpc.at = "alloc" /\ GuardFree
  /\ used' = [used EXCEPT ![1] = TRUE] /\ sock' = [sock EXCEPT ![1] = 0]
  /\ lpc' = [lpc EXCEPT !.at = "setsock", !.slot = 1]
  /\ UNCHANGED <<netVars, hpc, sendVars>>

\* psc_client_alloc, one critical section.  The slot is zeroed, its sock too.
ClientAlloc ==
  /\ lpc.at = "alloc" /\ GuardFree
  /\ \E i \in Slots :
       /\ ~used[i] /\ \A j \in Slots : j < i => used[j]
       /\ used' = [used EXCEPT ![i] = TRUE]
       /\ sock' = [sock EXCEPT ![i] = 0]
       /\ lpc' = [lpc EXCEPT !.at = "setsock", !.slot = i]
  /\ UNCHANGED <<netVars, hpc, sendVars>>

\* psc_client_alloc finds no slot; its answer is acted on outside the guard.
ClientAllocNone ==
  /\ lpc.at = "alloc" /\ GuardFree /\ \A i \in Slots : used[i]
  /\ lpc' = [lpc EXCEPT !.at = "drop"]
  /\ UNCHANGED <<netVars, slotVars, hpc, sendVars>>

DropClient ==
  /\ lpc.at = "drop"
  /\ Close(lpc.fd) /\ lpc' = Waiting
  /\ UNCHANGED <<slotVars, hpc, sendVars>>

SetSock ==      \* C->sock = client, outside the guard
  /\ lpc.at = "setsock"
  /\ sock' = [sock EXCEPT ![lpc.slot] = lpc.fd]
  /\ lpc' = [lpc EXCEPT !.at = "spawn"]
  /\ UNCHANGED <<netVars, used, hpc, sendVars>>

Spawn ==        \* sys_thread_new cannot fail
  /\ lpc.at = "spawn"
  /\ hpc' = [hpc EXCEPT ![lpc.conn] = [at |-> "start", slot |-> lpc.slot, fd |-> -1]]
  /\ lpc' = Waiting
  /\ UNCHANGED <<netVars, slotVars, sendVars>>

---------------------------------------------------------------------------
(* psc_send by a daemon and psc_send_one by a handler, under sendguard.    *)

BroadcastBegin ==
  /\ GuardFree
  /\ send' = [who |-> "daemon", slot |-> 1, at |-> "head", fd |-> -1]
  /\ UNCHANGED <<netVars, slotVars, lpc, hpc, body, sendFailed, earlySend>>

HelloBegin(c) ==
  /\ hpc[c].at = "hello" /\ GuardFree
  /\ send' = [who |-> c, slot |-> hpc[c].slot, at |-> "head", fd |-> -1]
  /\ UNCHANGED <<netVars, slotVars, lpc, hpc, body, sendFailed, earlySend>>

\* Mutated form: the loop runs one slot too far.
SendNextPast ==
  IF send.who = "daemon" /\ send.slot <= NSlots
  THEN /\ send' = [send EXCEPT !.slot = @ + 1, !.at = "head", !.fd = -1]
       /\ UNCHANGED hpc
  ELSE /\ send' = NoSend
       /\ hpc' = [c \in Conns |-> IF c = send.who THEN [hpc[c] EXCEPT !.at = "recv"]
                                  ELSE hpc[c]]

\* On to the next slot, or out of the guard.
SendNext ==
  IF send.who = "daemon" /\ send.slot < NSlots
  THEN /\ send' = [send EXCEPT !.slot = @ + 1, !.at = "head", !.fd = -1]
       /\ UNCHANGED hpc
  ELSE /\ send' = NoSend
       /\ hpc' = [c \in Conns |-> IF c = send.who THEN [hpc[c] EXCEPT !.at = "recv"]
                                  ELSE hpc[c]]

SkipSlot ==
  /\ send.at = "head" /\ (~used[send.slot] \/ sock[send.slot] = -1)
  /\ SendNext
  /\ UNCHANGED <<netVars, slotVars, lpc, body, sendFailed, earlySend>>

\* The header; psc_sendmsg keeps the socket it was given for the body.
SendHead ==
  LET fd == sock[send.slot]  d == Of(fd) IN
  /\ send.at = "head" /\ used[send.slot] /\ fd # -1
  /\ d \in Conns
  /\ body' = [body EXCEPT ![d] = send.who]
  /\ send' = [send EXCEPT !.at = "body", !.fd = fd]
  /\ UNCHANGED <<netVars, slotVars, lpc, hpc, sendFailed, earlySend>>

SendBody ==
  LET d == Of(send.fd) IN
  /\ send.at = "body"
  /\ d \in Conns
  /\ body' = [body EXCEPT ![d] = None]
  /\ SendNext
  /\ UNCHANGED <<netVars, slotVars, lpc, sendFailed, earlySend>>

\* Either fails: the peer is gone or has not read for too long, or the
\* descriptor is not a connection's.
SendFails ==
  LET fd == IF send.at = "body" THEN send.fd ELSE sock[send.slot] IN
  /\ send.at \in {"head", "body"}
  /\ send.at = "head" => used[send.slot] /\ fd # -1
  /\ send' = [send EXCEPT !.at = "giveup", !.fd = fd]
  /\ sendFailed' = (sendFailed \/ Of(fd) \in Conns)
  /\ earlySend' = (earlySend \/ fd = 0)
  /\ UNCHANGED <<netVars, slotVars, lpc, hpc, body>>

\* Mutated form: a return that forgets the guard.
GiveUpReturns ==
  /\ send.at = "giveup"
  /\ Close(sock[send.slot])
  /\ sock' = [sock EXCEPT ![send.slot] = -1]
  /\ send' = [send EXCEPT !.at = "idle"]
  /\ UNCHANGED <<used, lpc, hpc, body, sendFailed, earlySend>>

GiveUp ==       \* close(C->sock); C->sock = -1, and C->sock is read again
  /\ send.at = "giveup"
  /\ Close(sock[send.slot])
  /\ sock' = [sock EXCEPT ![send.slot] = -1]
  /\ SendNext
  /\ UNCHANGED <<used, lpc, body, sendFailed, earlySend>>

---------------------------------------------------------------------------
(* handle_client: the thread of one connection.                            *)

HandlerStart(c) ==
  /\ hpc[c].at = "start"
  /\ hpc' = [hpc EXCEPT ![c] = [at |-> "hello", slot |-> @.slot, fd |-> sock[@.slot]]]
  /\ UNCHANGED <<netVars, slotVars, lpc, sendVars>>

\* A whole message arrives, on whatever connection the descriptor names.
RecvMsg(c) ==
  /\ hpc[c].at = "recv"
  /\ \E d \in Conns : Of(hpc[c].fd) = d /\ net[d] = "up"
  /\ hpc' = [hpc EXCEPT ![c].at = "msg"]
  /\ UNCHANGED <<netVars, slotVars, lpc, sendVars>>

ClientMsg(c) ==
  /\ hpc[c].at = "msg"
  /\ hpc' = [hpc EXCEPT ![c].at = "recv"]
  /\ UNCHANGED <<netVars, slotVars, lpc, sendVars>>

\* Mutated form: a failed receive is tried again.
RecvFailsRetry(c) ==
  /\ hpc[c].at = "recv"
  /\ UNCHANGED vars

\* The peer is gone or silent for too long, the message is not one, or the
\* descriptor is closed.
RecvFails(c) ==
  /\ hpc[c].at = "recv"
  /\ hpc' = [hpc EXCEPT ![c].at = "free"]
  /\ UNCHANGED <<netVars, slotVars, lpc, sendVars>>

\* Mutated form: slot and socket are given up together, without the guard.
ClientFreeUnguarded(c) ==
  /\ hpc[c].at = "free"
  /\ used' = [used EXCEPT ![hpc[c].slot] = FALSE]
  /\ sock' = [sock EXCEPT ![hpc[c].slot] = 0]
  /\ Close(hpc[c].fd)
  /\ hpc' = [hpc EXCEPT ![c].at = "done"]
  /\ UNCHANGED <<lpc, sendVars>>

\* Mutated form: the socket is closed, the slot stays in use.
ClientFreeNot(c) ==
  /\ hpc[c].at = "free" /\ GuardFree
  /\ hpc' = [hpc EXCEPT ![c].at = "close"]
  /\ UNCHANGED <<netVars, slotVars, lpc, sendVars>>

ClientFree(c) ==
  /\ hpc[c].at = "free" /\ GuardFree
  /\ used' = [used EXCEPT ![hpc[c].slot] = FALSE]
  /\ sock' = [sock EXCEPT ![hpc[c].slot] = 0]
  /\ hpc' = [hpc EXCEPT ![c].at = "close"]
  /\ UNCHANGED <<netVars, lpc, sendVars>>

\* Mutated form: the socket is taken from the slot just zeroed.
CloseSockOfSlot(c) ==
  /\ hpc[c].at = "close" /\ GuardFree
  /\ Close(sock[hpc[c].slot])
  /\ hpc' = [hpc EXCEPT ![c].at = "done"]
  /\ UNCHANGED <<slotVars, lpc, sendVars>>

CloseSock(c) ==
  /\ hpc[c].at = "close" /\ GuardFree
  /\ Close(hpc[c].fd)
  /\ hpc' = [hpc EXCEPT ![c].at = "done"]
  /\ UNCHANGED <<slotVars, lpc, sendVars>>

---------------------------------------------------------------------------
Init ==
  /\ net = [c \in Conns |-> "new"]
  /\ fds = [f \in Fds |-> IF f = 0 THEN "listen" ELSE None]
  /\ used = [i \in Slots |-> FALSE] /\ sock = [i \in Slots |-> 0]
  /\ lpc = Waiting /\ hpc = [c \in Conns |-> NoHandle]
  /\ send = NoSend /\ body = [c \in Conns |-> None]
  /\ sendFailed = FALSE /\ earlySend = FALSE

Listener ==
  \/ \E c \in Conns : Accept(c)
  \/ ClientAlloc \/ ClientAllocNone \/ DropClient \/ SetSock \/ Spawn

Sending == SkipSlot \/ SendHead \/ SendBody \/ SendFails \/ GiveUp

Handler(c) ==
  \/ HandlerStart(c) \/ HelloBegin(c)
  \/ RecvMsg(c) \/ ClientMsg(c) \/ RecvFails(c)
  \/ ClientFree(c) \/ CloseSock(c)

Next ==
  \/ \E c \in Conns : Connect(c) \/ PeerGone(c) \/ Handler(c)
  \/ Listener \/ BroadcastBegin \/ Sending

(* Fairness: every thread runs; a send ends (SO_SNDTIMEO); the mutex is    *)
(* granted to waiters of one priority in turn; a recv on a connection that *)
(* is gone, or on a closed descriptor, returns (SO_RCVTIMEO).              *)
RecvEnds(c) ==
  /\ \A d \in Conns : Of(hpc[c].fd) = d => net[d] = "gone"
  /\ RecvFails(c)

Fairness ==
  /\ SF_vars(Listener) /\ WF_vars(Sending)
  /\ \A c \in Conns :
       /\ WF_vars(HandlerStart(c)) /\ SF_vars(HelloBegin(c))
       /\ WF_vars(ClientMsg(c)) /\ WF_vars(RecvEnds(c))
       /\ SF_vars(ClientFree(c)) /\ SF_vars(CloseSock(c))

Spec == Init /\ [][Next]_vars /\ Fairness

---------------------------------------------------------------------------
Holding(c) == hpc[c].at \in {"start", "hello", "recv", "msg", "free"}
Adopting   == lpc.at \in {"setsock", "spawn"}

TypeOK ==
  /\ net \in [Conns -> {"new", "queued", "up", "gone"}]
  /\ fds \in [Fds -> Conns \cup {"listen", None}]
  /\ used \in [Slots -> BOOLEAN] /\ sock \in [Slots -> Fds \cup {-1}]
  /\ lpc \in [at : {"accept", "alloc", "drop", "setsock", "spawn"},
              conn : Conns \cup {None}, fd : Fds \cup {-1}, slot : Slots \cup {0}]
  /\ hpc \in [Conns -> [at : {"none", "start", "hello", "recv", "msg", "free",
                              "close", "done"},
                        slot : Slots \cup {0}, fd : Fds \cup {-1}]]
  /\ send \in [who : Conns \cup {"daemon", None}, slot : Slots \cup {0},
               at : {"idle", "head", "body", "giveup"}, fd : Fds \cup {-1}]
  /\ body \in [Conns -> Conns \cup {"daemon", None}]
  /\ sendFailed \in BOOLEAN /\ earlySend \in BOOLEAN

(* Every slot in use has one owner, the handler it was given to or the     *)
(* listener that is adopting a connection into it, and no slot is in use   *)
(* without one: none is shared, none leaks, whatever fails on the way      *)
(* (clients_used, listener.c 61-65, 84, 226).                              *)
SlotOwned ==
  /\ \A i \in Slots : used[i] <=>
       (Adopting /\ lpc.slot = i) \/ \E c \in Conns : Holding(c) /\ hpc[c].slot = i
  /\ \A c \in Conns : Holding(c) =>
       /\ Adopting => lpc.slot # hpc[c].slot
       /\ \A d \in Conns \ {c} : Holding(d) => hpc[c].slot # hpc[d].slot

(* A body is sent only where its header went, and a header never into the  *)
(* middle of another message, unless a send has failed before.             *)
Framed ==
  ~sendFailed /\ ~earlySend /\ GuardFree = FALSE =>
    /\ send.at = "body" /\ Of(send.fd) \in Conns => body[Of(send.fd)] = send.who
    /\ send.at = "head" => \A c \in Conns : body[c] = None

(* Until a send fails, a handler's socket is its own connection, and so is *)
(* the socket of its slot: nobody reads, writes or closes another client's.*)
OwnSocket ==
  ~sendFailed /\ ~earlySend =>
    \A c \in Conns :
      /\ hpc[c].at \in {"hello", "recv", "msg", "free", "close"} => Of(hpc[c].fd) = c
      /\ Holding(c) => Of(sock[hpc[c].slot]) = c

(* The server goes on listening, whichever sends fail and whatever is      *)
(* closed twice, as long as no send meets a slot without its socket.       *)
ListenerOpen == ~earlySend => fds[0] = "listen"

(* Every thread that waits for sendguard gets it: a send comes to an end.  *)
SendEnds == ~GuardFree ~> GuardFree

(* A client that has gone gives its slot back, until a send fails.         *)
SlotReturned ==
  \A c \in Conns :
    Holding(c) /\ net[c] = "gone" ~> ~Holding(c) \/ sendFailed \/ earlySend

(* Finding: "close(C->sock); will wake up RX thread" (listener.c 251): the *)
(* thread woken up is to find its own socket closed.                       *)
ClosedUnderHandler ==
  ~earlySend => \A c \in Conns : hpc[c].at \in {"recv", "free", "close"} =>
                                  Of(hpc[c].fd) \in {c, None}

(* Finding: a failed send is a "client error" (listener.c 250), answered by *)
(* closing the client's socket; it must not close another one.             *)
ClientErrorOnly ==
  send.at = "giveup" => Of(sock[send.slot]) # "listen"
=============================================================================
