----------------------------- MODULE EventLoop -----------------------------
(***************************************************************************)
(* event_loop.c: the connection slots, the epoll loop with its batches of  *)
(* events, the default callbacks, the idle timeout, the send buffer and    *)
(* the lifecycle el_create / el_run / el_stop / el_destroy, with the       *)
(* signal handler of main.c.                                               *)
(*                                                                         *)
(* The loop is one thread: an event is handled in one step, the outcome of *)
(* each system call being a choice.  A handler that calls another one is   *)
(* a function from loop states to loop states, so that the order of the    *)
(* calls is kept.  ServerMode is the set of callbacks main.c installs      *)
(* (on_read alone); otherwise the defaults are in place.  A message is     *)
(* Units units long; the fd of a closed socket is used again.              *)
(***************************************************************************)
EXTENDS Naturals, Sequences, FiniteSets

CONSTANTS
  Capacity,     \* conn_capacity
  ServerMode,   \* main.c's callbacks
  IdleTimeout,  \* idle_timeout_sec, in units of Tick
  MaxSends,     \* bound on the calls of el_send_data
  Units         \* the length of a message

ASSUME CapacityAssumption == Capacity \in Nat \ {0}
ASSUME ModeAssumption == ServerMode \in BOOLEAN
ASSUME BoundsAssumption == IdleTimeout \in Nat \ {0} /\ MaxSends \in Nat /\ Units \in Nat \ {0}

Slots == 1..Capacity
Fds == 1..(Capacity + 1)
NoFd == 0

VARIABLES
  el,       \* [conn, active, open, out]: the slots, active_count, the open
            \*   sockets and those registered for EPOLLOUT
  sipFd,    \* sip_listen_fd
  batch,    \* the events of this epoll_wait still to be handled
  pc,       \* where main is: "created" (before el_run), "wait", "dispatch",
            \*   "tidy", "exited" (el_run returned), "destroyed"
  running,  \* running
  signal,   \* history: SIGINT or SIGTERM was delivered
  sends     \* how many messages were given to el_send_data

vars == <<el, sipFd, batch, pc, running, signal, sends>>

Fresh(type, fd) ==
  [type |-> type, state |-> "active", fd |-> fd, idle |-> 0,
   len |-> 0, off |-> 0, msg |-> 0, wire |-> <<>>, refused |-> {}]
FreeSlot == Fresh("free", NoFd)

Lowest(S) == CHOOSE x \in S : \A y \in S : x <= y
IsFree(e, s) == e.conn[s].type = "free"
IsUdp(e, s) == e.conn[s].type = "sip"
NewFd(e) == Lowest(Fds \ e.open)

-----------------------------------------------------------------------------
(* Slots *)

(* el_add_connection of a socket just opened: the first free slot.         *)
Added(e, type) ==
  [e EXCEPT !.conn[Lowest({s \in Slots : IsFree(e, s)})] =
                Fresh(type, NewFd(e)),
            !.active = @ + 1,
            !.open = @ \cup {NewFd(e)}]

(* Slots S are closed and freed, active_count falling by n.                *)
Freed(e, S, n) ==
  [e EXCEPT !.conn = [s \in Slots |-> IF s \in S THEN FreeSlot ELSE @[s]],
            !.active = @ - n,
            !.open = @ \ {e.conn[s].fd : s \in S}, !.out = @ \ {e.conn[s].fd : s \in S}]

Taken(e, S) == {s \in S : ~IsFree(e, s)}

(* Faulty: the type is not looked at first.                                *)
RemovedTwice(e, S) == Freed(e, S, Cardinality(S))

(* Faulty: the socket stays open.                                          *)
RemovedOpen(e, S) ==
  [Freed(e, Taken(e, S), Cardinality(Taken(e, S))) EXCEPT !.open = e.open]

(* el_remove_connection, of one slot or of several in turn: nothing for a  *)
(* free slot, else close and free.                                         *)
Removed(e, S) == Freed(e, Taken(e, S), Cardinality(Taken(e, S)))

(* callbacks.on_close and callbacks.on_error, where they are set; the      *)
(* latter removes the connection again after on_close did.                 *)
OnClose(e, S) == IF ServerMode THEN e ELSE Removed(e, S)
OnError(e, s) ==
  IF ServerMode THEN e
  ELSE Removed(OnClose([e EXCEPT !.conn[s].state = "error"], {s}), {s})

-----------------------------------------------------------------------------
(* Sending.  off units of a message are on the wire.                       *)

Sent(e, s, n) ==
  LET c == e.conn[s]
      new == [i \in 1..n |-> <<c.msg, c.off + i>>]
  IN [e EXCEPT !.conn[s] = [c EXCEPT !.off = c.off + n, !.wire = c.wire \o new]]

Complete(e, s) == e.conn[s].off >= e.conn[s].len
Dropped(e, s) == [e EXCEPT !.conn[s] = [@ EXCEPT !.len = 0, !.off = 0]]
Begun(e, s, m) ==
  [e EXCEPT !.conn[s] = [@ EXCEPT !.msg = m, !.len = Units, !.off = 0]]
Refused(e, s, m) == [e EXCEPT !.conn[s].refused = @ \cup {m}]
WantsOut(e, s) == [e EXCEPT !.out = @ \cup {e.conn[s].fd}]

(* What the socket may take: a datagram goes out whole or not at all.      *)
Accepted(e, s, left) == IF IsUdp(e, s) THEN {0, left} ELSE 0..left

(* el_send_data: a message still pending is replaced.  One that went out   *)
(* at once leaves the registration for EPOLLOUT as it was; the rest of a   *)
(* partial one waits for it.  A failing send or epoll_ctl refuses it.      *)
SendResults(e, s, m) ==
  LET begun == Begun(e, s, m)
      tries == {Sent(begun, s, n) : n \in Accepted(e, s, Units)}
  IN UNION {IF Complete(t, s) THEN {Dropped(t, s)}
            ELSE {WantsOut(t, s), Refused(Dropped(t, s), s, m)} : t \in tries}

(* default_on_write, after the send: a complete message leaves EPOLLOUT.   *)
Continued(e, s) ==
  IF Complete(e, s) THEN [Dropped(e, s) EXCEPT !.out = @ \ {e.conn[s].fd}] ELSE e

(* Faulty: the offset is not advanced.                                     *)
WriteResultsAgain(e, s) ==
  LET c == e.conn[s]
  IN IF c.len = 0 THEN {Continued(e, s)}
     ELSE {[Sent(e, s, n) EXCEPT !.conn[s].off = c.off] : n \in 1..(c.len - c.off)}

(* default_on_write: the rest of the message.  The address of a datagram   *)
(* was not kept, and sendto fails without one.                             *)
WriteResults(e, s) ==
  LET c == e.conn[s]
      failed == OnError(Dropped(e, s), s)
  IN IF ServerMode THEN {e}
     ELSE IF c.len = 0 THEN {Continued(e, s)}
     ELSE IF IsUdp(e, s) THEN {failed}
     ELSE {Continued(Sent(e, s, n), s) : n \in 0..(c.len - c.off)} \cup {failed}

-----------------------------------------------------------------------------
(* Events *)

(* el_default_on_read, which sip_handler_on_read calls for what is not the *)
(* SIP socket: until EAGAIN, the end of the stream, or an error, which is  *)
(* what the closed fd of a connection just removed gives.                  *)
ReadResults(e, s) ==
  IF IsUdp(e, s) THEN {e}
  ELSE IF e.conn[s].fd = NoFd THEN {OnError(e, s)}
  ELSE {e, OnClose(e, {s}), OnError(e, s)}

(* handle_client_event: an error or a hangup that has a callback ends it;  *)
(* a write comes before a read.                                            *)
ClientResults(e, s, flags) ==
  IF e.conn[s].state # "active" THEN {e}
  ELSE LET touched == [e EXCEPT !.conn[s].idle = 0]
       IN IF "err" \in flags /\ ~ServerMode THEN {OnError(touched, s)}
          ELSE IF "rdhup" \in flags /\ ~ServerMode THEN {OnClose(touched, {s})}
          ELSE LET written == IF "out" \in flags THEN WriteResults(touched, s) ELSE {touched}
               IN IF "in" \in flags THEN UNION {ReadResults(w, s) : w \in written}
                  ELSE written

-----------------------------------------------------------------------------
(* el_create: the SIP socket is bound and registered, or not.              *)
Init ==
  /\ LET none == [conn |-> [s \in Slots |-> FreeSlot], active |-> 0,
                  open |-> {}, out |-> {}]
     IN \/ el = Added(none, "sip") /\ sipFd = NewFd(none)
        \/ el = none /\ sipFd = NoFd
  /\ batch = <<>>
  /\ pc = "created"
  /\ running = FALSE /\ signal = FALSE
  /\ sends = 0

(* A user of the default callbacks registers a listening socket.           *)
AddListener ==
  /\ pc = "created" /\ ~ServerMode
  /\ el.active < Capacity /\ \A s \in Slots : el.conn[s].type # "listen"
  /\ el' = Added(el, "listen")
  /\ UNCHANGED <<sipFd, batch, pc, running, signal, sends>>

(* el_run, with a buffer for the events or without one.                    *)
Run ==
  /\ pc = "created"
  /\ \/ running' = TRUE /\ pc' = "wait"
     \/ pc' = "exited" /\ UNCHANGED running
  /\ UNCHANGED <<el, sipFd, batch, signal, sends>>

Forever == "wait"  \* faulty: running is not tested
Again == IF running THEN "wait" ELSE "exited"

(* What epoll may report of a registered socket.                           *)
Flags(s) ==
  LET c == el.conn[s]
      out == IF c.fd \in el.out THEN {"out"} ELSE {}
  IN CASE c.type = "listen" -> {{"in"}}
       [] c.type = "sip"    -> SUBSET ({"in", "err"} \cup out) \ {{}}
       [] c.type = "client" -> SUBSET ({"in", "err", "rdhup"} \cup out) \ {{}}
       [] OTHER             -> {}

Events ==
  UNION {{[slot |-> s, flags |-> f, fd |-> el.conn[s].fd] : f \in Flags(s)} : s \in Slots}

(* At most this many sockets in a batch: a bound on max_events.            *)
MaxBatch == 2

(* epoll_wait reports some sockets, each once, or times out.  A connection *)
(* is known by the pointer registered with it.                             *)
EpollWait ==
  /\ pc = "wait" /\ running
  /\ pc' = "dispatch"
  /\ batch' \in {b \in UNION {[1..n -> Events] : n \in 0..MaxBatch} :
                   \A i, j \in DOMAIN b : b[i].slot = b[j].slot => i = j}
  /\ UNCHANGED <<el, sipFd, running, signal, sends>>

(* EINTR, or running was cleared before the call.                          *)
Interrupted ==
  /\ pc = "wait"
  /\ pc' = Again
  /\ UNCHANGED <<el, sipFd, batch, running, signal, sends>>

(* Any other error of epoll_wait ends the loop, which still counts as running. *)
EpollFails ==
  /\ pc = "wait" /\ running
  /\ pc' = "exited"
  /\ UNCHANGED <<el, sipFd, batch, running, signal, sends>>

Event == Head(batch)
Dispatching == pc = "dispatch" /\ batch # <<>>

(* handle_accept, one client: turned away when the slots are used up, when *)
(* a system call fails or when nobody registers it.                        *)
Accept ==
  /\ Dispatching /\ el.conn[Event.slot].type = "listen"
  /\ el.active < Capacity
  /\ el' = Added(el, "client")
  /\ UNCHANGED <<sipFd, batch, pc, running, signal, sends>>

AcceptDone ==
  /\ Dispatching /\ el.conn[Event.slot].type = "listen"
  /\ batch' = Tail(batch)
  /\ UNCHANGED <<el, sipFd, pc, running, signal, sends>>

ClientEvent ==
  /\ Dispatching /\ el.conn[Event.slot].type # "listen"
  /\ el' \in ClientResults(el, Event.slot, Event.flags)
  /\ batch' = Tail(batch)
  /\ UNCHANGED <<sipFd, pc, running, signal, sends>>

BatchDone ==
  /\ pc = "dispatch" /\ batch = <<>>
  /\ pc' = "tidy"
  /\ UNCHANGED <<el, sipFd, batch, running, signal, sends>>

(* cleanup_idle_connections: everything but a listening socket; on_close,  *)
(* if there is one, has removed it already.                                *)
IdleOthers(s) ==  \* faulty: the clients are spared
  /\ el.conn[s].type \notin {"free", "client"}
  /\ el.conn[s].state = "active"
  /\ el.conn[s].idle = IdleTimeout
Idle(s) ==
  /\ el.conn[s].type \notin {"free", "listen"}
  /\ el.conn[s].state = "active"
  /\ el.conn[s].idle = IdleTimeout
IdleSlots == {s \in Slots : Idle(s)}
TidyNow(e) == Removed(OnClose(e, IdleSlots), IdleSlots)

(* Faulty: the connections are checked between two events.                 *)
CleanupEarly ==
  /\ pc \in {"tidy", "dispatch"}
  /\ el' = TidyNow(el)
  /\ pc' = IF pc = "tidy" THEN Again ELSE pc
  /\ UNCHANGED <<sipFd, batch, running, signal, sends>>

Cleanup ==
  /\ pc = "tidy"
  /\ el' = TidyNow(el)
  /\ pc' = Again
  /\ UNCHANGED <<sipFd, batch, running, signal, sends>>

NoCleanup ==
  /\ pc = "tidy"
  /\ pc' = Again
  /\ UNCHANGED <<el, sipFd, batch, running, signal, sends>>

(* el_destroy closes what is left; without an on_close nobody counts.      *)
Destroy ==
  /\ pc = "exited"
  /\ LET closed == OnClose(el, Slots)
     IN el' = Freed(closed, Taken(closed, Slots), 0)
  /\ pc' = "destroyed"
  /\ UNCHANGED <<sipFd, batch, running, signal, sends>>

-----------------------------------------------------------------------------
(* el_send_data, called by the application between two events.             *)
SendData(s) ==
  /\ pc = "tidy" /\ sends < MaxSends
  /\ el.conn[s].type \in {"client", "sip"}
  /\ sends' = sends + 1
  /\ el' \in SendResults(el, s, sends + 1)
  /\ UNCHANGED <<sipFd, batch, pc, running, signal>>

(* signal_handler calls el_stop, at any moment once the loop exists.       *)
Signal ==
  /\ pc # "destroyed" /\ ~signal
  /\ signal' = TRUE
  /\ running' = FALSE
  /\ UNCHANGED <<el, sipFd, batch, pc, sends>>

(* last_activity grows old.                                                *)
Older(c) ==
  IF c.type = "free" \/ c.idle = IdleTimeout THEN c ELSE [c EXCEPT !.idle = @ + 1]

Tick ==
  /\ pc = "wait"
  /\ \E s \in Slots : ~IsFree(el, s) /\ el.conn[s].idle < IdleTimeout
  /\ el' = [el EXCEPT !.conn = [s \in Slots |-> Older(el.conn[s])]]
  /\ UNCHANGED <<sipFd, batch, pc, running, signal, sends>>

Loop == Run \/ EpollWait \/ Interrupted \/ EpollFails \/ AcceptDone \/ ClientEvent \/ BatchDone
        \/ Cleanup \/ NoCleanup \/ Destroy

Next == Loop \/ AddListener \/ Accept \/ (\E s \in Slots : SendData(s)) \/ Signal \/ Tick

Spec == Init /\ [][Next]_vars

(* The thread of el_run is scheduled, time passes, and the interval between *)
(* two idle checks ends again and again.  Nothing is assumed of clients,    *)
(* of signals or of epoll_wait.                                             *)
FairSpec == Spec /\ WF_vars(Loop) /\ SF_vars(Cleanup) /\ WF_vars(Tick)

-----------------------------------------------------------------------------
Connections == [type : {"free", "listen", "client", "sip"},
                state : {"active", "error"}, fd : {NoFd} \cup Fds,
                idle : 0..IdleTimeout, len : {0, Units}, off : 0..Units,
                msg : 0..MaxSends, wire : Seq(Nat \X Nat), refused : SUBSET (1..MaxSends)]

TypeOK ==
  /\ el.conn \in [Slots -> Connections]
  /\ el.active \in 0..Capacity
  /\ el.open \subseteq Fds /\ el.out \subseteq el.open
  /\ sipFd \in {NoFd} \cup Fds
  /\ pc \in {"created", "wait", "dispatch", "tidy", "exited", "destroyed"}
  /\ batch \in Seq([slot : Slots, flags : SUBSET {"in", "err", "rdhup", "out"}, fd : Fds])
  /\ running \in BOOLEAN /\ signal \in BOOLEAN /\ sends \in 0..MaxSends

(* active_count, which admits or rejects clients, is the number of slots   *)
(* in use, although default_on_error and the idle check remove connections *)
(* that on_close removed before.                                           *)
ActiveCountTruth == pc # "destroyed" => el.active = Cardinality({s \in Slots : ~IsFree(el, s)})

(* Every open socket belongs to one connection, whose fd it is: none is    *)
(* leaked, closed twice or shared.                                         *)
SocketsOwned ==
  /\ el.open = {el.conn[s].fd : s \in {t \in Slots : ~IsFree(el, t)}}
  /\ \A s, t \in Slots : ~IsFree(el, s) /\ ~IsFree(el, t) /\ s # t
                            => el.conn[s].fd # el.conn[t].fd

(* An event still in the batch is handled for the connection epoll         *)
(* reported it for: its slot was not closed or given to another client     *)
(* while the events before it were handled.                                *)
NoStaleEvent == \A i \in DOMAIN batch : el.conn[batch[i].slot].fd = batch[i].fd

(* The units of the messages go out in order, none twice, over any number  *)
(* of partial sends.                                                       *)
NoUnitTwice ==
  \A s \in Slots : LET w == el.conn[s].wire IN
    \A i, j \in DOMAIN w : i < j =>
      w[i][1] < w[j][1] \/ (w[i][1] = w[j][1] /\ w[i][2] < w[j][2])

(* README: the loop receives SIP signalling on its UDP socket.  The socket *)
(* stays registered while the loop runs.                                   *)
SipStaysOpen ==
  sipFd # NoFd /\ pc \in {"wait", "dispatch", "tidy"} =>
    \E s \in Slots : el.conn[s].type = "sip" /\ el.conn[s].fd = sipFd

(* A stopped loop runs to its end, whatever events come.                   *)
StopEnds == pc \in {"wait", "dispatch", "tidy"} /\ ~running ~> pc = "destroyed"

(* An idle client does not keep its slot.                                  *)
IdleReleased ==
  \A s \in Slots : el.conn[s].type = "client" /\ el.conn[s].idle = IdleTimeout
                     ~> el.conn[s].type # "client" \/ el.conn[s].idle = 0 \/ ~running

-----------------------------------------------------------------------------
(* Statements of the comments that the code does not satisfy: TLC refutes *)
(* each of them; no run is kept for them.                                  *)

(* event_loop.h, el_send_data: what could not be sent is kept and sent     *)
(* when the socket is writable: no message it accepted is cut short by the *)
(* next one.                                                               *)
MessagesWhole ==
  \A s \in Slots : LET w == el.conn[s].wire IN
    \A i \in 1..(Len(w) - 1) : w[i + 1][1] # w[i][1] =>
      w[i][2] = Units \/ w[i][1] \in el.conn[s].refused

(* The same for the SIP socket: EPOLLOUT continues the sending, it does    *)
(* not close the socket.                                                   *)
WritingKeepsSip ==
  [][ClientEvent /\ IsUdp(el, Event.slot) /\ Event.flags = {"out"}
       => ~IsFree(el', Event.slot)]_vars

(* main.c, "received shutdown signal, exiting gracefully": whenever the    *)
(* signal comes.                                                           *)
SignalHonoured == signal ~> pc = "destroyed"
=============================================================================
