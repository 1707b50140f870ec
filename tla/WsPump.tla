------------------------------- MODULE WsPump -------------------------------
(***************************************************************************)
(* One websocket of xous-net-bridge/src/ws_pump.rs: the setup, reader and  *)
(* writer threads around a Mutex<WebSocket>, and the two bounded frame     *)
(* channels to the async caller.                                           *)
(*                                                                         *)
(* A thread's step runs from one blocking call to the next: taking the     *)
(* mutex, WebSocket::read (which holds it for up to the 5 s read timeout), *)
(* WebSocket::send, a channel operation, the 50 ms sleep.  Frame contents  *)
(* are left out; a mutex poisoned by a panicking thread is too.            *)
(*                                                                         *)
(* The caller, libsignal-service-rs, and the network are outside the       *)
(* repository.  The caller is taken to drop the channel pair together, as  *)
(* reader_loop's documentation says, at any time, and at the latest when   *)
(* it is told that the connection is over.                                 *)
(***************************************************************************)
EXTENDS Naturals, Sequences

CONSTANT Capacity   \* FRAME_CHANNEL_CAPACITY (16)

ASSUME CapacityAssumption == Capacity \in Nat \ {0}

VARIABLES
    setup,      \* the setup thread
    reader,     \* the reader thread
    writer,     \* the writer thread
    mutex,      \* who holds the Mutex<WebSocket>
    item,       \* what the reader is about to forward
    incoming,   \* the channel to the caller
    outgoing,   \* frames in the channel from the caller
    caller,     \* "waiting" for the handshake, "holding" the pair, or "gone"
    socket      \* "up", or "down" once the peer is no longer there

vars == <<setup, reader, writer, mutex, item, incoming, outgoing, caller, socket>>

threadVars == <<reader, writer, mutex, item>>
channelVars == <<incoming, outgoing>>

Item == {"frame", "err", "close"}

Init ==
    /\ setup = "handshake"
    /\ reader = "none"
    /\ writer = "none"
    /\ mutex = "free"
    /\ item = "frame"
    /\ incoming = <<>>
    /\ outgoing = 0
    /\ caller = "waiting"
    /\ socket = "up"

(* async_channel: a sender sees the channel closed once the receiver is    *)
(* dropped; a receiver sees it once every sender is dropped and it is      *)
(* drained.  The setup thread keeps a sender of incoming until it ends.    *)
IncomingEnded == reader = "done" /\ setup = "done" /\ incoming = <<>>

-----------------------------------------------------------------------------
(* The setup thread.                                                       *)

handshake_err ==
    /\ setup = "handshake"
    /\ setup' = "done"
    /\ caller' = "gone"
    /\ UNCHANGED <<socket>>
    /\ UNCHANGED <<threadVars, channelVars>>

(* The threads are spawned whether or not the caller still waits. *)
handshake_ok ==
    /\ setup = "handshake"
    /\ setup' = "join reader"
    /\ reader' = "lock"
    /\ writer' = "recv"
    /\ caller' = IF caller = "waiting" THEN "holding" ELSE caller
    /\ UNCHANGED <<mutex, item, socket>>
    /\ UNCHANGED channelVars

join_reader ==
    /\ setup = "join reader"
    /\ reader = "done"
    /\ setup' = "join writer"
    /\ UNCHANGED <<caller, socket>>
    /\ UNCHANGED <<threadVars, channelVars>>

(* The last sender of incoming is dropped. *)
join_writer ==
    /\ setup = "join writer"
    /\ writer = "done"
    /\ setup' = "done"
    /\ UNCHANGED <<caller, socket>>
    /\ UNCHANGED <<threadVars, channelVars>>

-----------------------------------------------------------------------------
(* reader_loop.                                                            *)

reader_lock ==
    /\ reader = "lock"
    /\ mutex = "free"
    /\ mutex' = "reader"
    /\ reader' = "reading"
    /\ UNCHANGED <<setup, writer, item, caller, socket>>
    /\ UNCHANGED channelVars

(* A frame, a Close from the peer, or an error that is not a timeout: the  *)
(* mutex is released, then the item is forwarded.  What a vanished peer    *)
(* had sent can still be read.                                             *)
reads(i) ==
    /\ reader = "reading"
    /\ mutex' = "free"
    /\ reader' = "forward"
    /\ item' = i
    /\ \/ i = "frame" /\ socket' = socket
       \/ i = "close" /\ socket' = "down"
       \/ i = "err" /\ socket' \in {socket, "down"}
    /\ UNCHANGED <<setup, writer, caller>>
    /\ UNCHANGED channelVars

(* A raw control frame is skipped. *)
reads_raw ==
    /\ reader = "reading"
    /\ mutex' = "free"
    /\ reader' = "lock"
    /\ UNCHANGED <<setup, writer, item, caller, socket>>
    /\ UNCHANGED channelVars

(* ConnectionClosed or AlreadyClosed: nothing is forwarded. *)
reads_closed ==
    /\ reader = "reading"
    /\ socket = "down"
    /\ mutex' = "free"
    /\ reader' = "done"
    /\ UNCHANGED <<setup, writer, item, caller, socket>>
    /\ UNCHANGED channelVars

reads_timeout_unchecked ==
    /\ reader = "reading"
    /\ mutex' = "free"
    /\ reader' = "sleep"
    /\ UNCHANGED <<setup, writer, item, caller, socket>>
    /\ UNCHANGED channelVars

reads_timeout_without_sleep ==
    /\ reader = "reading"
    /\ mutex' = "free"
    /\ reader' = IF caller = "gone" THEN "done" ELSE "lock"
    /\ UNCHANGED <<setup, writer, item, caller, socket>>
    /\ UNCHANGED channelVars

(* The idle timeout, the teardown checkpoint.  A peer that vanished looks  *)
(* the same.                                                               *)
reads_timeout ==
    /\ reader = "reading"
    /\ mutex' = "free"
    /\ reader' = IF caller = "gone" THEN "done" ELSE "sleep"
    /\ UNCHANGED <<setup, writer, item, caller, socket>>
    /\ UNCHANGED channelVars

reader_wakes ==
    /\ reader = "sleep"
    /\ reader' = "lock"
    /\ UNCHANGED <<setup, writer, mutex, item, caller, socket>>
    /\ UNCHANGED channelVars

(* tx.send_blocking: waits while the channel is full, ends the reader when *)
(* the receiver is gone; after a Close the reader ends, after an error it  *)
(* goes on.                                                                *)
forward ==
    /\ reader = "forward"
    /\ \/ /\ caller = "gone"
          /\ reader' = "done"
          /\ UNCHANGED incoming
       \/ /\ caller # "gone"
          /\ Len(incoming) < Capacity
          /\ incoming' = Append(incoming, item)
          /\ reader' = IF item = "close" THEN "done" ELSE "lock"
    /\ UNCHANGED <<setup, writer, mutex, item, outgoing, caller, socket>>

-----------------------------------------------------------------------------
(* writer_loop.                                                            *)

writer_recv ==
    /\ writer = "recv"
    /\ \/ /\ outgoing > 0
          /\ outgoing' = outgoing - 1
          /\ writer' = "lock"
       \/ /\ outgoing = 0
          /\ caller = "gone"
          /\ writer' = "done"
          /\ UNCHANGED outgoing
    /\ UNCHANGED <<setup, reader, mutex, item, incoming, caller, socket>>

writer_lock ==
    /\ writer = "lock"
    /\ mutex = "free"
    /\ mutex' = "writer"
    /\ writer' = "sending"
    /\ UNCHANGED <<setup, reader, item, caller, socket>>
    /\ UNCHANGED channelVars

(* A send to a lost peer may still fit the socket buffer. *)
sends_ok ==
    /\ writer = "sending"
    /\ mutex' = "free"
    /\ writer' = "recv"
    /\ UNCHANGED <<setup, reader, item, caller, socket>>
    /\ UNCHANGED channelVars

sends_err_continuing ==
    /\ writer = "sending"
    /\ mutex' = "free"
    /\ writer' = "recv"
    /\ UNCHANGED <<setup, reader, item, caller, socket>>
    /\ UNCHANGED channelVars

(* Any send error, the write timeout included, ends the writer. *)
sends_err ==
    /\ writer = "sending"
    /\ mutex' = "free"
    /\ writer' = "done"
    /\ UNCHANGED <<setup, reader, item, caller, socket>>
    /\ UNCHANGED channelVars

-----------------------------------------------------------------------------
(* The caller and the network.                                             *)

(* An error or a Close tells the caller that the connection is over. *)
caller_recv ==
    /\ caller = "holding"
    /\ incoming # <<>>
    /\ incoming' = Tail(incoming)
    /\ caller' = IF Head(incoming) = "frame" THEN "holding" ELSE "gone"
    /\ UNCHANGED <<setup, outgoing, socket>>
    /\ UNCHANGED threadVars

caller_sees_end ==
    /\ caller = "holding"
    /\ IncomingEnded
    /\ caller' = "gone"
    /\ UNCHANGED <<setup, socket>>
    /\ UNCHANGED <<threadVars, channelVars>>

(* A request or a keepalive; sending fails once the writer has ended. *)
caller_send ==
    /\ caller = "holding"
    /\ \/ /\ writer # "done"
          /\ outgoing < Capacity
          /\ outgoing' = outgoing + 1
          /\ UNCHANGED caller
       \/ /\ writer = "done"
          /\ caller' = "gone"
          /\ UNCHANGED outgoing
    /\ UNCHANGED <<setup, incoming, socket>>
    /\ UNCHANGED threadVars

(* The pair, or the future still waiting for the handshake, is dropped. *)
caller_drops ==
    /\ caller # "gone"
    /\ caller' = "gone"
    /\ UNCHANGED <<setup, socket>>
    /\ UNCHANGED <<threadVars, channelVars>>

peer_vanishes ==
    /\ socket = "up"
    /\ socket' = "down"
    /\ UNCHANGED <<setup, caller>>
    /\ UNCHANGED <<threadVars, channelVars>>

-----------------------------------------------------------------------------
Setup == handshake_err \/ handshake_ok \/ join_reader \/ join_writer

Reading == (\E i \in Item : reads(i)) \/ reads_raw \/ reads_closed \/ reads_timeout

Reader == reader_lock \/ Reading \/ reader_wakes \/ forward

Writer == writer_recv \/ writer_lock \/ sends_ok \/ sends_err

Next ==
    \/ Setup
    \/ Reader
    \/ Writer
    \/ caller_recv
    \/ caller_sees_end
    \/ caller_send
    \/ caller_drops
    \/ peer_vanishes

(* Fairness.  The threads run, and their socket calls return: the TCP read *)
(* and write timeouts see to that.  The mutex is not fair, so a waiting    *)
(* thread gets it only when it stays free, or, for the writer, over the    *)
(* reader's 50 ms sleeps; inbound traffic leaves a read timeout now and    *)
(* then.  Writes to a vanished peer fail in the end.  The caller polls its *)
(* channel and keeps sending keepalives.                                   *)
Fairness ==
    /\ WF_vars(Setup)
    /\ WF_vars(Reader)
    /\ WF_vars(Writer)
    /\ SF_vars(reads_timeout)
    /\ SF_vars(reader = "sleep" /\ writer_lock)
    /\ SF_vars(socket = "down" /\ sends_err)
    /\ WF_vars(caller_recv \/ caller_sees_end)
    /\ WF_vars(caller_send)

Spec == Init /\ [][Next]_vars /\ Fairness

-----------------------------------------------------------------------------
(* Properties.                                                             *)

(* A dropped connection leaks nothing: once the caller has let go of the   *)
(* pair, even before the handshake is over or on a silent socket, all      *)
(* three threads end (the is_closed check of the idle timeout).            *)
AbandonedPumpEnds == caller = "gone" ~> setup = "done"

(* A connection whose peer has vanished without a word is noticed: the     *)
(* caller does not hold on to it for ever, although the reader only sees   *)
(* timeouts and incoming closes only when both threads have ended.         *)
DeadSocketIsNoticed == socket = "down" /\ caller = "holding" ~> caller = "gone"

(* An outgoing frame gets its turn on the mutex although the reader comes  *)
(* back for it after every read: the wait ends with a send or the writer   *)
(* has ended.                                                              *)
QueuedIsWritten == outgoing > 0 \/ writer = "lock" ~> writer \in {"sending", "done"}
=============================================================================
