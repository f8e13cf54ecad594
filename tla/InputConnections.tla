-------------------------- MODULE InputConnections --------------------------
(***************************************************************************)
(* The input connections of a port (YARPSocketMulti.cpp): an acceptor      *)
(* thread fills a list of connections, every connection has a thread that  *)
(* receives from its TCP stream, and the port thread - the reader - takes  *)
(* a message from whichever connection offers one, piece by piece, holding *)
(* the mutex of the list while it waits for the connection's thread.       *)
(*                                                                         *)
(* The reader is what BlockReceiver and YARPSocketSyncComm make of it: a   *)
(* message is one read, one or two receiveMore for the prefix, some for    *)
(* the content and a reply; between messages it may detach connections,    *)
(* and it closes the list at the end. Only TCP connections are modelled.   *)
(* The peers are what the receive calls return.                            *)
(***************************************************************************)
EXTENDS Naturals, FiniteSets

CONSTANTS
  PoolSize,     \* ports in the pool, at most one per connection (setPool)
  MaxPieces,    \* bound: pieces of content a message has at most
  MaxDetaches,  \* bound: connections that are closed by name
  Acks,         \* the values of the request for acknowledgements
  Failures,     \* what peers do: close or reset the connection in the middle
                \* of a message, send the acceptor a corrupt header
  HandlesReused \* whether a descriptor may be given out again at once

ASSUME ConnectionsAssumption ==
  /\ PoolSize \in Nat \ {0} /\ MaxPieces \in Nat \ {0} /\ MaxDetaches \in Nat
  /\ Acks \subseteq BOOLEAN /\ Failures \subseteq {"close", "reset", "corrupt"}
  /\ HandlesReused \in BOOLEAN

Entries == 1..PoolSize
NoHandle == 0
Handles == 1..(2 * PoolSize + 1)   \* enough for every stream and every entry

VARIABLES
  \* members of _SocketThreadListMulti
  conn,               \* _list, one record of members per connection thread
  length,             \* entries of the list in use
  last_assigned,      \* ports taken from the pool so far
  pool,               \* _number_o_ports
  listProtect,        \* who holds the mutex of the list
  new_data, new_data_written,
  initialized,
  \* the acceptor thread
  acceptor,           \* where it is
  acceptor_running,   \* ~IsTerminated()
  pending,            \* the handle of the stream it has accepted
  knock,              \* End has connected to the acceptor itself
  \* the reader
  reader,             \* where it is
  op,                 \* the operation it is in
  at,                 \* the entry its walk through the list has reached
  pid,                \* the handle read returned
  phase, left,        \* what it reads of the message: pieces still to come
  again,              \* the next piece is the first after another read
  result,             \* what the last receiveMore returned
  \* history
  source,             \* the entry the open message comes from, 0 if none
  detaches, late      \* late: entries filled after closeAll walked the list

list == <<conn, length, last_assigned, pool, initialized>>
tokens == <<new_data, new_data_written>>
accepting == <<acceptor, acceptor_running, pending, knock>>
reading == <<reader, op, at, pid, phase, left, again, result,
             source, detaches>>
vars == <<list, tokens, listProtect, accepting, reading, late>>

NewConn ==
  [thread |-> "none", available |-> TRUE, running |-> FALSE,
   stream |-> NoHandle, id |-> NoHandle, ack |-> FALSE,
   waiting |-> FALSE, buffer |-> FALSE,
   read_more |-> FALSE, reply_preamble |-> FALSE, wakeup |-> 0,
   reply_made |-> 0, got |-> "data"]

Init ==
  /\ conn = [i \in Entries |-> NewConn]
  /\ length = 0 /\ last_assigned = 0 /\ pool = 0 /\ initialized = TRUE
  /\ new_data = 0 /\ new_data_written = 0 /\ listProtect = "none"
  /\ acceptor = "loop" /\ acceptor_running = TRUE
  /\ pending = NoHandle /\ knock = FALSE
  /\ reader = "prepare" /\ op = "read" /\ at = 1 /\ pid = NoHandle
  /\ phase = "prefix" /\ left = 0 /\ again = FALSE /\ result = "data"
  /\ source = 0 /\ detaches = 0 /\ late = {}

-----------------------------------------------------------------------------
(* The thread of a connection: _SocketThreadMultiTcp::Body *)

Move(i, to) == conn' = [conn EXCEPT ![i].thread = to]

\* Steps that change nothing but the connection.
Private(i, from) ==
  /\ conn[i].thread = from
  /\ UNCHANGED <<length, last_assigned, pool, initialized, tokens, listProtect,
                 accepting, reading, late>>

\* The members are reset and the name is copied, which needs the address.
Begun(i) ==
  /\ Private(i, "begun")
  /\ conn' = [conn EXCEPT ![i] = [conn[i] EXCEPT
       !.thread = IF conn[i].id = NoHandle THEN "crashed" ELSE "started",
       !.buffer = FALSE, !.waiting = FALSE, !.read_more = FALSE,
       !.reply_preamble = FALSE]]

\* ACE_ASSERT (_stream != NULL)
Started(i) ==
  /\ Private(i, "started")
  /\ Move(i, IF conn[i].stream = NoHandle THEN "crashed" ELSE "loop")

\* Mutant: the thread returns without making its place available.
LoopKeepsPlace(i) ==
  /\ Private(i, "loop")
  /\ Move(i, IF conn[i].running THEN "header" ELSE "done")

\* while (!IsTerminated ()); afterwards the thread returns from its Body.
Loop(i) ==
  /\ Private(i, "loop")
  /\ IF conn[i].running
     THEN Move(i, "header")
     ELSE conn' = [conn EXCEPT ![i] = [conn[i] EXCEPT
                    !.thread = "done", !.available = TRUE]]

\* _stream->recv_n is called for a header ...
CallReceive(i) ==
  /\ Private(i, "header")
  /\ Move(i, IF conn[i].stream = NoHandle THEN "crashed" ELSE "receiving")

\* ... and returns with one, after a time-out, or because the peer has gone,
\* the header is bad or the stream has been closed.
Received(i) ==
  /\ Private(i, "receiving")
  /\ \/ conn[i].stream # NoHandle /\ Move(i, "offer")
     \/ conn[i].running /\ Move(i, "header")
     \/ Move(i, "failed")

\* if (_stream != NULL) { close; delete; _stream = NULL; } AskForEnd ()
Failed(i) ==
  /\ Private(i, "failed")
  /\ IF conn[i].stream # NoHandle
     THEN Move(i, "closing")
     ELSE conn' = [conn EXCEPT ![i] = [conn[i] EXCEPT
                    !.thread = "loop", !.running = FALSE]]

CloseStream(i) ==
  /\ Private(i, "closing")
  /\ conn' = IF conn[i].stream = NoHandle
             THEN [conn EXCEPT ![i].thread = "crashed"]
             ELSE [conn EXCEPT ![i] = [conn[i] EXCEPT
                    !.thread = "loop", !.stream = NoHandle,
                    !.running = FALSE]]

\* Mutant: the offer is not announced.
OfferSilently(i) ==
  /\ Private(i, "offer")
  /\ conn' = [conn EXCEPT ![i] = [conn[i] EXCEPT
               !.thread = "waiting", !.buffer = FALSE,
               !.waiting = TRUE]]

\* With _mutex held: the buffer is forgotten, the reader is told. A list that
\* is no longer there is an assertion, or memory that has been freed.
Offer(i) ==
  /\ conn[i].thread = "offer"
  /\ IF initialized
     THEN /\ conn' = [conn EXCEPT ![i] = [conn[i] EXCEPT
                       !.thread = "waiting", !.buffer = FALSE,
                       !.waiting = TRUE]]
          /\ new_data' = new_data + 1
     ELSE Move(i, "crashed") /\ UNCHANGED new_data
  /\ UNCHANGED <<length, last_assigned, pool, initialized, new_data_written,
                 listProtect, accepting, reading, late>>

\* _wakeup.Wait (): whoever woke the thread has left it a buffer, or ended it.
Woken(i) ==
  /\ Private(i, "waiting") /\ conn[i].wakeup > 0
  /\ conn' = [conn EXCEPT ![i] = [conn[i] EXCEPT
               !.wakeup = @ - 1,
               !.thread = IF conn[i].buffer THEN "body" ELSE "loop"]]

\* The prefix is received into the reader's buffer. If the peer reset the
\* connection, the result -1 is the length of the following memset.
ReceiveBody(i) ==
  /\ Private(i, "body")
  /\ \/ conn[i].stream = NoHandle /\ Move(i, "crashed")
     \/ /\ conn[i].stream # NoHandle
        /\ Move(i, "written")
     \/ /\ "close" \in Failures
        /\ conn' = [conn EXCEPT ![i] = [conn[i] EXCEPT
                     !.thread = "written", !.running = FALSE]]
     \/ "reset" \in Failures /\ Move(i, "crashed")

\* declareDataWritten; since read has set _needs_reply, the thread then waits
\* for the reader's next wish.
Written(i) ==
  /\ conn[i].thread = "written"
  /\ IF initialized
     THEN Move(i, "held") /\ new_data_written' = new_data_written + 1
     ELSE Move(i, "crashed") /\ UNCHANGED new_data_written
  /\ UNCHANGED <<length, last_assigned, pool, initialized, new_data,
                 listProtect, accepting, reading, late>>

\* _wakeup.Wait (): the wish is another piece, a reply, or nothing.
Wished(i) ==
  /\ Private(i, "held") /\ conn[i].wakeup > 0
  /\ conn' = [conn EXCEPT ![i] = [conn[i] EXCEPT
       !.wakeup = @ - 1,
       !.thread = IF conn[i].read_more THEN "part"
                  ELSE IF conn[i].ack /\ conn[i].id # NoHandle THEN "ack"
                  ELSE "loop"]]

\* Mutant: _read_more is not reset.
PartKeepsWish(i) ==
  /\ Private(i, "part")
  /\ conn' = [conn EXCEPT ![i] = [conn[i] EXCEPT
               !.thread = "held", !.reply_made = @ + 1]]

\* A piece is received, or the peer is gone; a wish for no bytes only waits
\* until there is something to receive.
Part(i) ==
  /\ Private(i, "part")
  /\ \E g \in {"data"} \cup (IF "close" \in Failures THEN {"none"} ELSE {})
                       \cup (IF "reset" \in Failures THEN {"error"} ELSE {}) :
       LET got == IF phase = "select" THEN "none" ELSE g
           gone == phase # "select" /\ g # "data"
       IN conn' = [conn EXCEPT ![i] = [conn[i] EXCEPT
            !.thread = IF conn[i].stream = NoHandle THEN "crashed" ELSE "held",
            !.got = got, !.read_more = FALSE,
            !.running = @ /\ ~gone, !.reply_made = @ + 1]]

\* A reply is sent; after its preamble the thread waits for the rest of it.
Ack(i) ==
  /\ Private(i, "ack")
  /\ \E fails \in {FALSE, Failures \cap {"close", "reset"} # {}} :
       conn' = [conn EXCEPT ![i] = [conn[i] EXCEPT
         !.thread = IF conn[i].stream = NoHandle THEN "crashed"
                    ELSE IF conn[i].reply_preamble THEN "preamble"
                    ELSE "loop",
         !.running = @ /\ ~fails,
         !.reply_made = @ + 1]]

AckWoken(i) ==
  /\ Private(i, "preamble") /\ conn[i].wakeup > 0
  /\ conn' = [conn EXCEPT ![i] = [conn[i] EXCEPT
               !.wakeup = @ - 1, !.thread = "ack"]]

Thread(i) ==
  \/ Begun(i) \/ Started(i) \/ Loop(i) \/ CallReceive(i) \/ Received(i)
  \/ Failed(i) \/ CloseStream(i) \/ Offer(i) \/ Woken(i) \/ ReceiveBody(i)
  \/ Written(i) \/ Wished(i) \/ Part(i) \/ Ack(i) \/ AckWoken(i)

-----------------------------------------------------------------------------
(* The acceptor thread: _SocketThreadListMulti::Body and addSocket *)

Accepting == UNCHANGED <<tokens, acceptor_running, knock, reading>>

\* while (!IsTerminated ())
AcceptorLoop ==
  /\ acceptor = "loop"
  /\ acceptor' = IF acceptor_running THEN "accept" ELSE "done"
  /\ UNCHANGED <<list, listProtect, pending, late>> /\ Accepting

\* Descriptors that are not open; one that was closed a moment ago may still
\* be the identifier of a connection whose thread is about to return.
FreshHandles ==
  {h \in Handles : \A i \in Entries :
     /\ conn[i].stream # h
     /\ HandlesReused \/ conn[i].available \/ conn[i].id # h}

\* A connection is made, and its first header and its name arrive.
Accept ==
  /\ acceptor = "accept"
  /\ \E h \in FreshHandles :
       (\A k \in FreshHandles : h <= k) /\ pending' = h
  /\ acceptor' = "lock"
  /\ UNCHANGED <<list, listProtect, late>> /\ Accepting

\* A bad header, from End or from any other peer: the acceptor asks itself to
\* end, although its log says that it goes on listening.
Knocked ==
  /\ acceptor = "accept" /\ (knock \/ "corrupt" \in Failures)
  /\ acceptor' = "loop" /\ acceptor_running' = FALSE
  /\ UNCHANGED <<list, listProtect, pending, tokens, knock, reading, late>>

\* The entries the walk of closeAll has left behind.
LateEntries == IF reader \in {"stop", "joinacceptor"} THEN Entries ELSE {}

\* Mutant: the stream is handed over too late.
ReuseWithoutStream(i, r) ==
  [conn EXCEPT ![i] = [conn[i] EXCEPT
    !.thread = "begun", !.available = FALSE,
    !.running = TRUE, !.stream = NoHandle, !.id = pending,
    !.ack = r]]

\* What Begin asserts, after CleanState or for a new object: there is no thread
\* any more. The name, the stream and the identifier are those of the new
\* connection; the members of the protocol stay as the old thread left them.
Reuse(i, r) ==
  [conn EXCEPT ![i] = [conn[i] EXCEPT
    !.thread = "begun", !.available = FALSE,
    !.running = TRUE, !.stream = pending, !.id = pending,
    !.ack = r, !.wakeup = IF @ > 0 THEN @ - 1 ELSE 0]]

FirstAvailable(i) ==
  /\ i <= length /\ conn[i].available
  /\ \A j \in Entries : j < i => ~conn[j].available

\* With the mutex of the list held, which nobody waits for meanwhile: the
\* stream is given to the first thread that has ended, or to a new one with a
\* port from the pool; without a port it is refused.
Assign ==
  /\ acceptor = "lock" /\ listProtect = "none"
  /\ \/ \E i \in Entries, r \in Acks :
          \/ /\ FirstAvailable(i)
             /\ conn' = Reuse(i, r) /\ late' = late \cup ({i} \cap LateEntries)
             /\ UNCHANGED <<length, last_assigned>>
          \/ /\ \A j \in Entries : ~FirstAvailable(j)
             /\ last_assigned < pool
             /\ i = length + 1
             /\ conn' = Reuse(i, r) /\ late' = late \cup ({i} \cap LateEntries)
             /\ length' = i /\ last_assigned' = last_assigned + 1
     \/ /\ \A j \in Entries : ~FirstAvailable(j)
        /\ last_assigned >= pool
        /\ UNCHANGED <<conn, length, last_assigned, late>>
  /\ acceptor' = "loop" /\ pending' = NoHandle
  /\ UNCHANGED <<pool, initialized, listProtect>> /\ Accepting

Acceptor == AcceptorLoop \/ Accept \/ Knocked \/ Assign

-----------------------------------------------------------------------------
(* The reader: the list's operations, called as BlockReceiver calls them *)

Reading == UNCHANGED <<initialized, accepting, late>>
AtRest == UNCHANGED <<list, tokens, accepting, late>>

\* Prepare: the acceptor is at work already when the list gets its pool.
SetPool ==
  /\ reader = "prepare"
  /\ reader' = "idle" /\ pool' = PoolSize /\ last_assigned' = 0
  /\ UNCHANGED <<conn, length, initialized, tokens, listProtect, accepting, op,
                 at, pid, phase, left, again, result, source, detaches, late>>

\* BlockReceiver::Get: a message of so many pieces is wanted.
StartRead ==
  /\ reader = "idle"
  /\ reader' = "wait" /\ op' = "read" /\ again' = FALSE
  /\ left' \in 1..MaxPieces
  /\ UNCHANGED <<listProtect, at, pid, phase, result, source, detaches>>
  /\ AtRest

\* closeByName, from the port thread, which holds no message then
StartDetach ==
  /\ reader = "idle" /\ detaches < MaxDetaches
  /\ reader' = "lock" /\ op' = "detach" /\ detaches' = detaches + 1
  /\ UNCHANGED <<listProtect, at, pid, phase, left, again, result, source>>
  /\ AtRest

StartCloseAll ==
  /\ reader = "idle"
  /\ reader' = "lock" /\ op' = "closeall"
  /\ UNCHANGED <<listProtect, at, pid, phase, left, again, result, source,
                 detaches>>
  /\ AtRest

\* _new_data.Wait ()
NewData ==
  /\ reader = "wait" /\ new_data > 0
  /\ new_data' = new_data - 1 /\ reader' = "lock"
  /\ UNCHANGED <<list, new_data_written, listProtect, accepting, op, at, pid,
                 phase, left, again, result, source, detaches, late>>

\* _listProtect.Wait (), and the walk starts at the head of the list.
Lock ==
  /\ reader = "lock" /\ listProtect = "none"
  /\ listProtect' = "reader" /\ reader' = "scan" /\ at' = 1
  /\ result' = "fail"
  /\ UNCHANGED <<op, pid, phase, left, again, source, detaches>> /\ AtRest

\* Mutant: the identifier is not compared.
MatchesAnyOpen(i) ==
  \/ op = "closeall"
  \/ ~conn[i].available /\ (op = "read" => conn[i].waiting)

\* The connections the walk stops at.
Matches(i) ==
  CASE op = "read" -> ~conn[i].available /\ conn[i].waiting
    [] op \in {"more", "begin", "end"} ->
         ~conn[i].available /\ conn[i].id = pid
    [] op = "detach" -> ~conn[i].available
    [] op = "closeall" -> TRUE

Pass ==
  /\ reader = "scan" /\ at <= length
  /\ Matches(at) => op = "detach"   \* another name
  /\ at' = at + 1
  /\ UNCHANGED <<listProtect, reader, op, pid, phase, left, again, result,
                 source, detaches>>
  /\ AtRest

Walking(o) ==
  /\ reader = "scan" /\ at <= length /\ op = o /\ Matches(at)
  /\ UNCHANGED <<length, last_assigned, pool, tokens, listProtect, op, pid,
                 phase, left, again, detaches>>
  /\ Reading

\* Mutant: the offer is not withdrawn when it is taken.
TakeOfferAgain ==
  /\ Walking("read")
  /\ conn' = [conn EXCEPT ![at] = [conn[at] EXCEPT
               !.buffer = TRUE, !.wakeup = @ + 1]]
  /\ reader' = "written" /\ source' = at
  /\ UNCHANGED <<at, result>>

\* read: the connection that waits gets the buffer and is woken.
TakeOffer ==
  /\ Walking("read")
  /\ conn' = [conn EXCEPT ![at] = [conn[at] EXCEPT
               !.waiting = FALSE, !.buffer = TRUE,
               !.wakeup = @ + 1]]
  /\ reader' = "written" /\ source' = at
  /\ UNCHANGED <<at, result>>

\* _new_data_written.Wait (); the identifier of the connection is returned,
\* and the mutex of the list. A message of one block has no prefix.
NewDataWritten ==
  /\ reader = "written" /\ new_data_written > 0
  /\ new_data_written' = new_data_written - 1
  /\ pid' = conn[at].id
  /\ listProtect' = "none" /\ reader' = "lock" /\ op' = "more"
  /\ phase' \in {"prefix", "select"}
  /\ UNCHANGED <<list, new_data, accepting, at, left, again, result, source,
                 detaches, late>>

\* Mutant: the thread is woken and not told what for.
AskMoreWordless ==
  /\ Walking("more")
  /\ conn' = [conn EXCEPT ![at].wakeup = @ + 1]
  /\ reader' = "answer"
  /\ UNCHANGED <<at, result, source>>

\* receiveMore: the connection's thread is asked for a piece.
AskMore ==
  /\ Walking("more")
  /\ conn' = [conn EXCEPT ![at] = [conn[at] EXCEPT
               !.read_more = TRUE, !.got = "data",
               !.wakeup = @ + 1]]
  /\ reader' = "answer"
  /\ UNCHANGED <<at, result, source>>

\* beginReply: nothing to do for a peer that did not ask for acknowledgements.
BeginReply ==
  /\ Walking("begin")
  /\ IF conn[at].ack
     THEN /\ conn' = [conn EXCEPT ![at] = [conn[at] EXCEPT
               !.got = "data", !.read_more = FALSE,
               !.reply_preamble = TRUE, !.wakeup = @ + 1]]
          /\ reader' = "answer" /\ UNCHANGED at
     ELSE at' = at + 1 /\ UNCHANGED <<conn, reader>>
  /\ UNCHANGED <<result, source>>

\* reply: the thread is released, with or without an acknowledgement to send.
EndReply ==
  /\ Walking("end")
  /\ IF conn[at].ack
     THEN /\ conn' = [conn EXCEPT ![at] = [conn[at] EXCEPT
               !.got = "data", !.read_more = FALSE,
               !.reply_preamble = FALSE, !.wakeup = @ + 1]]
          /\ reader' = "answer" /\ UNCHANGED at
     ELSE /\ conn' = [conn EXCEPT ![at].wakeup = @ + 1]
          /\ at' = at + 1 /\ UNCHANGED reader
  /\ source' = 0
  /\ UNCHANGED result

\* _reply_made.Wait (), and the walk goes on.
Answered ==
  /\ reader = "answer" /\ conn[at].reply_made > 0
  /\ conn' = [conn EXCEPT ![at].reply_made = @ - 1]
  /\ result' = IF op = "more" THEN conn[at].got ELSE result
  /\ reader' = "scan" /\ at' = at + 1
  /\ UNCHANGED <<length, last_assigned, pool, tokens, listProtect, op, pid,
                 phase, left, again, source, detaches>>
  /\ Reading

\* Mutant: End without "awful thing. to wakeup the reader".
EndConnectionSilently(o) ==
  /\ Walking(o)
  /\ conn' = [conn EXCEPT ![at] = [conn[at] EXCEPT
               !.running = FALSE, !.stream = NoHandle,
               !.id = NoHandle]]
  /\ reader' = "join"
  /\ UNCHANGED <<at, result, source>>

\* _SocketThreadMultiTcp::End up to the wake-up: the stream is closed under the
\* hands of the connection's thread, and its name and identifier are gone.
EndConnection(o) ==
  /\ Walking(o)
  /\ conn' = [conn EXCEPT ![at] = [conn[at] EXCEPT
               !.running = FALSE, !.stream = NoHandle,
               !.id = NoHandle, !.wakeup = @ + 1]]
  /\ reader' = "join"
  /\ UNCHANGED <<at, result, source>>

\* Mutant: End does not join the thread.
JoinedAtOnce ==
  /\ reader = "join"
  /\ conn' = [conn EXCEPT ![at].available = @ \/ op = "detach"]
  /\ reader' = "scan" /\ at' = at + 1
  /\ UNCHANGED <<length, last_assigned, pool, tokens, listProtect, op, pid,
                 phase, left, again, result, source, detaches>>
  /\ Reading

\* Join; closeByName marks the connection as available once more.
Joined ==
  /\ reader = "join" /\ conn[at].thread \in {"none", "done"}
  /\ conn' = [conn EXCEPT ![at].available = @ \/ op = "detach"]
  /\ reader' = "scan" /\ at' = at + 1
  /\ UNCHANGED <<length, last_assigned, pool, tokens, listProtect, op, pid,
                 phase, left, again, result, source, detaches>>
  /\ Reading

\* Mutant: an operation returns with the mutex of the list.
WalkedKeepsLock(o) ==
  /\ reader = "scan" /\ at > length /\ op = o
  /\ at' = 1
  /\ UNCHANGED <<listProtect, detaches>> /\ AtRest

\* The end of a walk: the mutex is released and the operation returns.
Walked(o) ==
  /\ reader = "scan" /\ at > length /\ op = o
  /\ listProtect' = "none" /\ at' = 1
  /\ UNCHANGED detaches /\ AtRest

\* read, without a source for its token, waits for the next one.
NothingFound ==
  /\ Walked("read")
  /\ reader' = "wait"
  /\ UNCHANGED <<op, pid, phase, left, again, result, source>>

\* The prefix: only the result of its last part is looked at.
PrefixRead ==
  /\ Walked("more") /\ phase # "content"
  /\ IF phase = "select" /\ result = "fail"
     THEN reader' = "idle" /\ source' = 0 /\ pid' = NoHandle /\ UNCHANGED phase
     ELSE /\ reader' = "lock"
          /\ phase' = IF phase = "prefix" THEN "select" ELSE "content"
          /\ UNCHANGED <<source, pid>>
  /\ UNCHANGED <<op, left, again, result>>

\* BlockReceiver::Get: the next piece, the reply, or nothing more.
PieceRead ==
  /\ Walked("more") /\ phase = "content" /\ result = "data"
  /\ reader' = "lock" /\ left' = left - 1 /\ again' = FALSE
  /\ op' = IF left = 1 THEN "begin" ELSE "more"
  /\ UNCHANGED <<pid, phase, result, source>>

\* A peer that has gone: the message is replied to and the rest of it is
\* looked for in the next one, from whomever that comes.
PeerGone ==
  /\ Walked("more") /\ phase = "content" /\ result = "none"
  /\ reader' = "lock" /\ again' = FALSE
  /\ op' = IF again THEN "more" ELSE "begin"
  /\ UNCHANGED <<pid, phase, left, result, source>>

\* A peer that broke the connection: without an identifier there is no reply.
ReadFailed ==
  /\ Walked("more") /\ phase = "content" /\ result \in {"error", "fail"}
  /\ reader' = "idle" /\ source' = 0 /\ pid' = NoHandle
  /\ UNCHANGED <<op, phase, left, again, result>>

ReplyBegun ==
  /\ Walked("begin")
  /\ reader' = "lock" /\ op' = "end"
  /\ UNCHANGED <<pid, phase, left, again, result, source>>

\* BlockReceiver::End has returned.
Replied ==
  /\ Walked("end")
  /\ IF left = 0
     THEN reader' = "idle" /\ UNCHANGED <<op, again>>
     ELSE reader' = "wait" /\ op' = "read" /\ again' = TRUE
  /\ pid' = NoHandle
  /\ UNCHANGED <<phase, left, result, source>>

Detached ==
  /\ Walked("detach")
  /\ reader' = "idle"
  /\ UNCHANGED <<op, pid, phase, left, again, result, source>>

AllEnded ==
  /\ Walked("closeall")
  /\ reader' = "stop"
  /\ UNCHANGED <<op, pid, phase, left, again, result, source>>

\* _SocketThreadListMulti::End: AskForEnd, and a connection to itself
StopAcceptor ==
  /\ reader = "stop"
  /\ acceptor_running' = FALSE /\ knock' = TRUE
  /\ reader' = "joinacceptor"
  /\ UNCHANGED <<list, tokens, listProtect, acceptor, pending, op, at, pid,
                 phase, left, again, result, source, detaches, late>>

Closed ==
  /\ reader = "joinacceptor" /\ acceptor = "done"
  /\ initialized' = FALSE /\ reader' = "closed"
  /\ UNCHANGED <<conn, length, last_assigned, pool, tokens, listProtect,
                 accepting, op, at, pid, phase, left, again, result, source,
                 detaches, late>>

Message ==
  \/ NewData \/ Lock \/ Pass \/ TakeOffer \/ NewDataWritten \/ AskMore
  \/ BeginReply \/ EndReply \/ Answered \/ NothingFound \/ PrefixRead
  \/ PieceRead \/ PeerGone \/ ReadFailed \/ ReplyBegun \/ Replied

Closing ==
  \/ EndConnection("detach") \/ EndConnection("closeall") \/ Joined \/ Detached
  \/ AllEnded \/ StopAcceptor \/ Closed

Reader ==
  \/ SetPool \/ StartRead \/ StartDetach \/ StartCloseAll \/ Message \/ Closing

\* A failed assertion or a null stream ends the program.
Crashed == \E i \in Entries : conn[i].thread = "crashed"

Next ==
  /\ ~Crashed
  /\ \/ \E i \in Entries : Thread(i)
     \/ Acceptor
     \/ Reader

Spec == Init /\ [][Next]_vars

-----------------------------------------------------------------------------
(* Properties *)

ThreadPlaces ==
  {"none", "begun", "started", "loop", "header", "receiving", "failed",
   "closing", "offer", "waiting", "body", "written", "held", "part", "ack",
   "preamble", "done", "crashed"}

Streams == Handles \cup {NoHandle}

ConnType ==
  [thread : ThreadPlaces, available : BOOLEAN, running : BOOLEAN,
   stream : Streams, id : Streams, ack : BOOLEAN, waiting : BOOLEAN,
   buffer : BOOLEAN, read_more : BOOLEAN, reply_preamble : BOOLEAN,
   wakeup : Nat, reply_made : Nat,
   got : {"data", "none", "error"}]

\* Every member of the list, of the connections, of the acceptor and of the
\* reader keeps its type.
TypeOK ==
  /\ conn \in [Entries -> ConnType]
  /\ length \in 0..PoolSize /\ last_assigned \in Nat /\ pool \in {0, PoolSize}
  /\ listProtect \in {"none", "reader"}
  /\ new_data \in Nat /\ new_data_written \in Nat /\ initialized \in BOOLEAN
  /\ acceptor \in {"loop", "accept", "lock", "done"}
  /\ acceptor_running \in BOOLEAN /\ pending \in Streams /\ knock \in BOOLEAN
  /\ reader \in {"prepare", "idle", "wait", "lock", "scan", "written",
                 "answer", "join", "stop", "joinacceptor", "closed"}
  /\ op \in {"read", "more", "begin", "end", "detach", "closeall"}
  /\ at \in 1..(PoolSize + 1) /\ pid \in Streams
  /\ phase \in {"prefix", "select", "content"} /\ left \in 0..MaxPieces
  /\ again \in BOOLEAN /\ result \in {"data", "none", "error", "fail"}
  /\ source \in 0..PoolSize /\ detaches \in 0..MaxDetaches
  /\ late \subseteq Entries

\* Nothing was ended from outside the connections' own threads so far.
NothingEnded == detaches = 0 /\ op # "closeall"

\* A connection is free for reuse exactly when its thread has returned: no
\* connection thread is started twice, and none keeps its port for ever after
\* it has returned.
AvailableMeansEnded ==
  \A i \in Entries : conn[i].available <=> conn[i].thread \in {"none", "done"}

\* A thread that still owes the reader something it waits for.
WillWrite(c) ==
  \/ c.buffer /\ c.thread = "waiting" /\ c.wakeup > 0
  \/ c.thread \in {"body", "written"}

WillAnswer(c) ==
  \/ c.thread = "held" /\ c.wakeup > 0
  \/ c.thread = "preamble" /\ c.wakeup > 0 /\ op = "end"
  \/ c.thread \in {"part", "ack"}

\* A connection whose thread has closed the stream and is about to return. The
\* entry keeps its descriptor, which the system may give to the next stream.
Leaving(i) ==
  conn[i].thread \in {"loop", "done"} /\ conn[i].stream = NoHandle
    /\ ~conn[i].running

\* The reader asks such a connection, which has the descriptor of the one it
\* reads from: there will be no answer, and the list is locked for ever.
Astray ==
  /\ reader = "answer" /\ op = "more" /\ at # source
  /\ Leaving(at) /\ conn[at].id = pid /\ conn[at].reply_made = 0

\* The reader, which holds the mutex of the list while it waits for one
\* connection's thread, waits for a thread that has answered or still will:
\* as long as no connection was ended under the thread's hands. The exception
\* is a piece asked of a connection that leaves and whose descriptor has been
\* given to the message's connection.
WaitIsAnswered ==
  NothingEnded =>
    /\ reader = "written" => new_data_written > 0 \/ WillWrite(conn[at])
    /\ reader = "answer" =>
         conn[at].reply_made > 0 \/ WillAnswer(conn[at]) \/ Astray

\* No thread uses a null stream or name, or a list that is gone, unless a
\* connection was ended under its hands or its peer reset the connection.
NoCrash == NothingEnded /\ "reset" \notin Failures => ~Crashed

\* Every answer is the answer to the reader's last wish: between messages no
\* thread writes or answers, and no token of an earlier message is left over.
NoStaleToken ==
  NothingEnded =>
    /\ reader # "written" =>
         /\ new_data_written = 0
         /\ \A i \in Entries : conn[i].thread \notin {"body", "written"}
    /\ reader # "answer" =>
         \A i \in Entries : conn[i].reply_made = 0 /\ conn[i].thread # "part"

\* While a message is open it is read from the connection that offered it and
\* from no other that lives, although the reader knows the connection by its
\* descriptor and a descriptor may have been another connection's a moment ago:
\* a piece is asked of another one only if that one's stream is closed, and then
\* it never comes (the exception of WaitIsAnswered).
OneSource ==
  NothingEnded /\ reader = "answer" /\ op \in {"more", "begin"} =>
    at = source \/ Astray

\* The connections that offer a message.
Offers == {i \in Entries : conn[i].thread = "waiting" /\ conn[i].waiting}

\* The list implements Inbox: an offer is kept until the reader opens it or the
\* list is closed, and a connection offers its next message only when the
\* reader is done with the last one.
AbstractInbox == INSTANCE Inbox WITH
  Connections <- Entries, offered <- Offers, open <- source,
  closing <- op = "closeall"

ImplementsInbox == AbstractInbox!Spec

\* Once the list is closed, only a connection that was accepted while it was
\* being closed still has a thread.
OnlyLateOnesLeft ==
  reader = "closed" =>
    \A i \in Entries \ late : conn[i].thread \in {"none", "done"}

-----------------------------------------------------------------------------
(* Liveness *)

\* The steps of a connection's thread that do not wait for a new message. A
\* peer that has started a message is taken to finish it or to go away: the
\* receive calls within a message have no time-out.
ThreadGoesOn(i) ==
  \/ Begun(i) \/ Started(i) \/ Loop(i) \/ CallReceive(i) \/ Failed(i)
  \/ CloseStream(i) \/ Offer(i) \/ Woken(i) \/ ReceiveBody(i) \/ Written(i)
  \/ Wished(i) \/ Part(i) \/ Ack(i) \/ AckWoken(i)
  \/ ~conn[i].running /\ Received(i)

\* Threads run, the port thread reads again, and the semaphore of the list
\* serves the acceptor in the end although the port thread takes it often.
Fairness ==
  /\ \A i \in Entries : WF_vars(~Crashed /\ ThreadGoesOn(i))
  /\ WF_vars(~Crashed /\ (AcceptorLoop \/ (knock /\ Knocked)))
  /\ SF_vars(~Crashed /\ Assign)
  /\ WF_vars(~Crashed /\ Reader)

FairSpec == Spec /\ Fairness

\* The connection at the head of the list has every message read, however many
\* the others send: read looks at the list from its head. (Those behind it may
\* wait for ever.)
HeadServed ==
  1 \in Offers ~> 1 \notin Offers \/ 1 \in late \/ detaches > 0 \/ Crashed

\* A connection that is being made is accepted or refused in the end, although
\* the reader holds the mutex of the list while it waits for a peer.
AcceptorServed ==
  acceptor = "lock" ~> acceptor # "lock" \/ detaches > 0 \/ Crashed

\* A connection whose peer has gone gives its place and its port back.
BrokenFreed ==
  \A i \in Entries :
    conn[i].thread = "failed" ~> conn[i].available \/ Crashed

\* closeByName and closeAll return, unless the program crashes: no thread keeps
\* waiting for the reader that joins it.
ClosingReturns ==
  op \in {"detach", "closeall"} /\ reader = "lock"
    ~> reader \in {"idle", "closed"} \/ Crashed

-----------------------------------------------------------------------------
(* The inductive invariant of the proofs (module InputConnectionsProofs) *)

Ended == {"none", "done"}
WithMutex == {"scan", "written", "answer", "join"}
Protocol == {"more", "begin", "end"}   \* operations within a message

\* The list: what is in use was taken from the pool, what is not has no thread.
ListInv ==
  /\ listProtect = "reader" <=> reader \in WithMutex
  /\ length = last_assigned /\ last_assigned <= pool
  /\ pool = 0 <=> reader = "prepare"
  /\ \A i \in Entries : i > length => conn[i] = NewConn
  /\ reader \in {"written", "answer", "join"} => at <= length
  /\ op \in {"read", "more"}
       /\ reader \in {"wait", "lock", "scan", "written", "answer"} => left > 0
  /\ op = "detach" => detaches > 0
  /\ reader = "join" => op \in {"detach", "closeall"}
  /\ reader \in {"stop", "joinacceptor", "closed"} => op = "closeall"
  /\ op = "closeall" =>
       reader \in {"lock", "scan", "join", "stop", "joinacceptor", "closed"}
  /\ reader \in {"wait", "written"} => op = "read"
  /\ ~initialized => reader = "closed"

\* closeAll leaves ended threads behind it, and nobody starts one meanwhile.
CloseInv ==
  /\ op = "closeall" /\ reader \in {"scan", "join"} =>
       \A i \in Entries : i < at => conn[i].thread \in Ended
  /\ reader \in {"stop", "joinacceptor", "closed"} =>
       \A i \in Entries \ late : conn[i].thread \in Ended
  /\ reader = "closed" => acceptor = "done"

\* A thread that is not about to return has its stream; connections that have a
\* stream have different descriptors, and none has that of the next one.
StreamInv ==
  /\ \A i \in Entries :
       conn[i].thread \notin Ended =>
         /\ conn[i].id # NoHandle
         /\ \/ conn[i].stream # NoHandle
            \/ conn[i].thread = "loop" /\ ~conn[i].running
         /\ conn[i].stream \in {NoHandle, conn[i].id}
  /\ \A i, j \in Entries :
       /\ ~conn[i].available /\ ~conn[j].available
       /\ conn[i].stream # NoHandle /\ conn[j].stream # NoHandle
       /\ conn[i].id = conn[j].id
       => i = j
  /\ acceptor = "lock" =>
       /\ pending # NoHandle
       /\ \A i \in Entries :
            ~conn[i].available /\ conn[i].stream # NoHandle
              => conn[i].id # pending

\* The reader waits for an answer of connection i.
Asks(i, o) == reader = "answer" /\ at = i /\ op \in o

\* A token of a connection's semaphores is there for the wait it is meant for.
Signals(i) ==
  LET c == conn[i] IN
  /\ c.wakeup \in {0, 1} /\ c.reply_made \in {0, 1}
  /\ c.wakeup = 1 => c.thread \in {"waiting", "held", "preamble"}
  /\ c.waiting => c.thread = "waiting" /\ c.wakeup = 0
  /\ c.reply_made = 1 =>
       /\ Asks(i, Protocol) /\ c.wakeup = 0
       /\ op = "more" => c.thread = "held"
       /\ op = "begin" => c.thread = "preamble"

\* A thread that reads, answers or has been told to does it for the reader.
Places(i) ==
  LET c == conn[i] IN
  /\ c.thread # "crashed"
  /\ c.thread = "waiting" /\ ~c.waiting => c.wakeup = 1 /\ c.buffer
  /\ \/ c.thread \in {"body", "written"}
     \/ c.thread = "waiting" /\ ~c.waiting
     => reader = "written" /\ at = i /\ new_data_written = 0
  /\ c.read_more => /\ c.thread = "part" \/ (c.thread = "held" /\ c.wakeup = 1)
                    /\ Asks(i, {"more"}) /\ c.reply_made = 0
  /\ c.thread = "part" => Asks(i, {"more"}) /\ c.reply_made = 0
  /\ c.thread = "ack" =>
       /\ Asks(i, {"begin", "end"}) /\ c.reply_made = 0 /\ c.ack
       /\ c.reply_preamble <=> op = "begin"
  /\ c.thread = "held" /\ c.wakeup = 1 /\ ~c.read_more =>
       \/ /\ c.ack /\ Asks(i, {"begin", "end"}) /\ c.reply_made = 0
          /\ c.reply_preamble <=> op = "begin"
       \/ ~c.ack /\ i # source

\* A thread that has sent the preamble of a reply waits for the end of it.
Preambles(i) ==
  LET c == conn[i] IN
  c.thread = "preamble" =>
    /\ c.ack
    /\ c.wakeup = 1 =>
         Asks(i, {"end"}) /\ c.reply_made = 0 /\ ~c.reply_preamble
    /\ c.wakeup = 0 =>
         /\ i = source
         /\ \/ Asks(i, {"begin"}) /\ c.reply_made = 1
            \/ reader = "scan" /\ op = "begin" /\ at > i
            \/ reader \in {"lock", "scan"} /\ op = "end"

\* The reader waits for a thread that has done its part or still will.
Serves(i) ==
  LET c == conn[i] IN
  /\ reader = "written" /\ at = i =>
       IF new_data_written = 0 THEN WillWrite(c)
       ELSE c.thread = "held" /\ c.wakeup = 0
  /\ reader = "answer" /\ at = i =>
       /\ c.reply_made = 1 \/ WillAnswer(c)
       /\ op # "more" => c.ack

\* The connection whose message is open keeps its identifier and waits for the
\* next wish. Another one has that identifier only until the first walk for a
\* piece has passed it, and none has it once the connection is released.
Opened(i) ==
  LET c == conn[i] IN
  /\ source = i /\ reader # "written" =>
       /\ pid = c.id /\ c.thread \notin Ended
       /\ ~Asks(i, Protocol) =>
            c.wakeup = 0 /\ c.thread \in {"held", "preamble"}
       /\ \/ op = "more" /\ ~Asks(i, {"more"})
          \/ reader = "lock" /\ op = "begin"
          \/ reader = "scan" /\ op = "begin" /\ at <= i
          => c.thread = "held"
  /\ (source \notin {0, i} /\ reader # "written" /\ ~c.available /\ c.id = pid)
     => /\ op = "more"
        /\ reader = "lock" \/ (reader \in {"scan", "answer"} /\ at <= i)
  /\ (op = "end" /\ source = 0 /\ reader \in {"scan", "answer"}
        /\ i >= at /\ ~c.available /\ c.id = pid)
     => reader = "answer" /\ i = at

ThreadInv(i) ==
  Signals(i) /\ Places(i) /\ Preambles(i) /\ Serves(i) /\ Opened(i)

\* The reader's own members.
ReaderInv ==
  /\ new_data_written \in {0, 1}
  /\ reader # "written" => new_data_written = 0
  /\ reader = "written" => op = "read" /\ source = at
  /\ reader = "answer" =>
       op \in Protocol
         /\ IF op = "end" THEN source = 0 ELSE source = at \/ Astray
  /\ reader \in {"lock", "scan"} /\ op \in {"more", "begin"} => source # 0
  /\ reader = "lock" /\ op = "end" => source # 0
  /\ source # 0 =>
       /\ reader \in {"written", "lock", "scan", "answer"}
       /\ reader = "written" \/ op \in Protocol
       /\ source <= length
       /\ reader = "scan" /\ op = "end" => at <= source

\* The connection the reader waits for in vain.
Lost(i) == Astray /\ at = i

\* What holds as long as nothing was ended from outside and peers close their
\* connections instead of resetting them.
Undisturbed == NothingEnded /\ "reset" \notin Failures

UndisturbedInv ==
  Undisturbed =>
    StreamInv /\ ReaderInv /\ \A i \in Entries : Lost(i) \/ ThreadInv(i)

ConnInv ==
  TypeOK /\ AvailableMeansEnded /\ ListInv /\ CloseInv /\ UndisturbedInv

=============================================================================
