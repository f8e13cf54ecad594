# Verification of YARP's ports

TLA+ models, TLC configurations and TLAPS proofs for the communication library
of YARP 1, `src/src/libYARP_OS`. Line numbers below refer to the files under
`src/src/libYARP_OS/src` and `include`. `PROJECT.json` maps every definition to
the lines it stands for, lists the components, the hazards with the properties
that cover them, the runs, the mutants and the theorems.

## The system

A program owns *ports* (`YARPInputPort<T>`, `YARPOutputPort<T>`). A port
registers a name, messages written to an output port travel over any number of
*connections* to input ports, and each port runs threads of its own. The parts:

| component | state | operations | hard about it |
|---|---|---|---|
| Port, input side (`Port.cpp`, `Port.h`, `YARPPort.cpp`) | three counted pointers `p_receiver_access/latest/incoming`, the flags `receiving, accessing, asleep, has_input, ignore_data`, semaphores `something_to_read, wakeup, out_mutex`, events `complete_msg_thread, complete_terminate` | port thread `Body` (`MSG_ID_DATA`, `MSG_ID_DETACH_ALL`), `Acquire`, `Relinquish`, `SaySelfEnd`/`End`, `OnRead` | three threads exchange buffers; the network writes into one of them without the lock; two kinds of waiting; shutdown while anybody is blocked |
| Port, output side (same files) | the list of `OutputTarget`s, `p_sendable`, `require_complete_send`, semaphores `okay_to_send, out_mutex, list_mutex`, per target `active, deactivate, deactivated, ticking, sending, something_to_send, space_available` | `Write`/`Share`, `FinishSend`, sender thread `_strange_select::Body`, connection thread `OutputTarget::Body`, the commands ATTACH, DETACH, DETACH_ALL | a pipeline of three kinds of thread; connections are created and deleted by two threads while their own thread runs; failures and late sends |
| Life of a port (same files, `YARPThread.cpp`) | `_started, name_set, asleep, self_id`, the same `okay_to_send` and events, `running` and handle of two threads | `Register`/`SetName`, `Unregister`/`End`, `Deactivate`, start and end of `Body` and of the sender thread | one semaphore serves registration and sending; every call is a handshake with a thread that may have gone |
| Buffer pool (`RefCounted.h`, `Sendables.h`, `Sendable.cpp`) | reference counts, free list, the counted pointers of user, port and connections | `Content`, `Write`, `Set`, `Reset`, `AddRef`, `RemoveRef`, `Get`, `Put` | the last of several threads that drop a pointer puts the buffer back while the user takes buffers out |
| Input connections (`YARPSocketMulti.cpp`) | list of connection threads with `available, running, _stream, _waiting, _read_more, _reply_preamble, _wakeup, _reply_made`, mutex of the list, tokens `_new_data, _new_data_written`, pool of local ports | acceptor thread, thread of a connection, `read`, `receiveMore`, `beginReply`, `reply`, `closeByName`, `closeAll`, `setPool` | the port thread waits for one connection's thread with the list locked; streams are closed by two threads; places and descriptors are used again |
| Synchronous messages and framing (`YARPSocketSyncComm.cpp`, `BlockReceiver.cpp`, `BlockSender.cpp`) | the phase of a message, pieces still to come | `BlockingReceive`, `ContinuedReceive`, `Reply`, `Get`, `End` | a peer may go away at every piece |
| Connection list of the output side (`mesh.cpp`) | doubly linked links, owner, label | `NewLink`, `SetOwner`, `GetByLabel`, `GetMeshNext` | walked while links are removed |
| Threads, semaphores, events (`YARPThread.cpp`, `YARPSemaphore.cpp`) | `running`, handle, counts | `Begin`, `Join`, `AskForEnd`, `Wait`, `PollingWait`, `Post`, `Signal` | life cycle driven from two sides |
| Output sockets (`YARPSocket.cpp`, `YARPSocketDgram.cpp`, `YARPSocketMcast.cpp`) | sockets, pools | `Connect`, `SendBegin`, `SendContinue`, ... | partial failure |
| Endpoint manager, name-service client (`YARPSocketNameService.cpp`, `YARPNameService.cpp`, `YARPNameClient*.cpp`) | endpoint per thread, cache | `CreateInputEndpoint`, `ConnectEndpoints`, `Locate` | every return path must leave the mutex |
| Containers, utilities; devices, robot, signal, mathematics; applications, tools, Java | - | - | sequential, or users of the library |

How they interact. `Write` puts a message into `p_sendable` and pulses the
sender thread (a semaphore); the sender thread takes `list_mutex` and
`out_mutex`, deletes failed connections and hands the message to every
`OutputTarget` (a field and a semaphore under that target's mutex); the
target's thread sends it over a socket, and the last pointer to the message
that is dropped puts it back into the pool from which `Content` takes the next
one. At the other end the acceptor has given the stream to a connection thread;
that thread receives a header and offers it, the port thread takes the offer
and asks the connection for the message piece by piece, filling
`p_receiver_incoming`, makes it `p_receiver_latest` and posts
`something_to_read`; `Read` exchanges it with `p_receiver_access`. `Connect`
from another program is a message to the *output* port's thread, which takes
`list_mutex` to change the list. `Register` starts the port thread and waits
for it at `okay_to_send`; `End` sends its own port a `DETACH_ALL` message, and
a two-event handshake and three joins follow.

What makes each part correct. Input: no buffer is lost, shared or overwritten
while it is looked at, a reader gets the newest message once, nobody sleeps
through his wake-up, `End` returns. Output: no message is overwritten or sent
as null, `Write(true)` loses nothing, no deleted connection is used, `Write`
and `End` return. Life: what the owner is told is so, the two uses of
`okay_to_send` do not meet, no thread is begun twice, the calls return. Pool:
counts are the numbers of pointers, a buffer is in exactly one place and its
writer is alone with it. Input connections: whoever the reader waits for will
answer, an answer belongs to the last wish, a message comes from one
connection, a place is free exactly when its thread has returned.

## Modules

| module | models | state and actions |
|---|---|---|
| `PortInput` | the input side of one port from `Register` to the end of its thread | the members above under their own names; `port`, `reader`, `closer` say where the port thread, the thread in `Read` and the thread in `End` are. An action is one critical section of `out_mutex`, one semaphore or event operation, or one unlocked access to a member that another thread writes |
| `Mailbox` | what an input port promises its owner | newest message, last one given out, whether the owner holds one |
| `PortOutput` | the output side of one port: the user's thread, the sender thread, the port thread and one thread per connection | the members above; `target[t]` is the `OutputTarget` of label `t` with the place of its thread; `list` the targets that exist; `todo`, `current` the walk of the holder of `list_mutex` |
| `Outbox` | what `Write(true)` promises each connection | messages written, connections, last message sent over each |
| `InputConnections` | the list of TCP connections below the input side: the acceptor, one thread per connection, the port thread as the reader | `conn[i]` is the i-th entry of `_list` with the place of its thread; `reader`, `op`, `at`, `phase` say what the reader does and how far its walk through the list has come; `acceptor` likewise |
| `Inbox` | what the list promises the port thread | connections that offer a message, the one whose message is open, whether the list is being closed |
| `PortLife` | registration, deactivation and end of a port, with both its threads | the members above; `thread` holds `running`, asked for end and handle of each `YARPBareThread`; `owner`, `writer`, `port`, `tsender` the places |
| `SendablePool` | the counted pointers to the buffers of an output port, with everything that moves or delays them: the permission to write, the walk of the sender thread, which after `Write(true)` waits for each connection's space | `ptr` what each pointer points to, `ref_count`, `in_list`, `releasing` a thread between the last drop and the list |
| `PortInputProofs`, `PortInputRefinement`, `PortOutputProofs`, `PortOutputRefinement`, `InputConnectionsProofs`, `InputConnectionsRefinement`, `PortLifeProofs`, `SendablePoolProofs` | the theorems about the module they are named after | - |

The modules cut the port at its handshakes. `PortInput` and `PortOutput` share
the port thread: `PortInput` has what it does for data messages and at the end,
`PortOutput` what it does for commands, with data reduced to the lock they
take. `PortLife` has what comes before and after, with the life of a message
reduced to `p_sendable`. `InputConnections` is what lies under "a header is
received, the body is read" of `PortInput`, and `Inbox` is the part of it the
port thread uses; `SendablePool` is what lies under the message numbers of
`PortOutput`.

The network. In `PortInput` it offers the header of the next message whenever
the thread asks for one; the body is read without the lock and may break off;
the buffer being written is `torn` until the read ends. In `PortOutput` looking
up, reaching and sending fail as `Failures` says, and a send may at any time
have lasted five seconds if `MayBeLate`. In `InputConnections` the peers are
what the receive calls return: data, a time-out between messages, an orderly
end ("close") or an error ("reset"), and a peer that connects may send a header
that is none ("corrupt"); a descriptor is the smallest one that is
not open, and `HandlesReused` says whether it may be one that was closed while
the connection that had it still exists, as the operating system allows.

Next to some operators stands a wrong version of the same operator (the lock
not waited for, the post forgotten, an assignment for an exchange).
`PROJECT.json` lists under `mutants` which property tells it from the code.

Semaphores count, events are level flags that a wait clears, waits are guards.
The walk through the output connections is in any order, since its order is
that of creation and no property depends on it; the walk through the input
connections is in the order of the list, on which `HeadServed` does depend.

## Runs

| run | instance | shows |
|---|---|---|
| `InputPort` (`PortInput`, fair) | 1, 2 or 3 buffers, blocking and polling mixed, read by the ending thread, another one or `OnRead`, 3 messages; 150 thousand states | no buffer lost or shared, the network's buffer undisturbed, nobody waits for a signal that no one will give, only the owner can block the port thread, what is read is complete; with two or three buffers `End` returns, and a message that is waited for is read |
| `InputRead` (`PortInput`) | the same, an owner that only blocks or only polls, the port ended by him or by another thread, breaking connections, 4 messages; 733 thousand states | `PortInput` implements `Mailbox`: the newest message, never twice; a port read from `OnRead` never waits for a buffer |
| `OutputSafety` (`PortOutput`) | two connections, every failure, late sends, `Write(true)` and `Write(false)`, 3 messages, 2 commands; 2.75 million states | no null message is sent, none overwritten or overtaken, space means sent, no use after deletion, nobody waits for a signal that no one will give |
| `OutputWait` (`PortOutput`) | two connections, `Write(true)` only, connections that cannot be looked up or reached, `FinishSend`, 3 messages, 2 commands; 550 thousand states | `PortOutput` implements `Outbox` |
| `OutputLive` (`PortOutput`, fair) | one connection that fails to be looked up or to send, `Write(true)` only, 3 messages, 2 commands; 88 thousand states | `Write` and `End` return, commands are only delayed |
| `ConnSafety` (`InputConnections`) | two connections, messages of one piece, with and without acknowledgements, peers that go away anywhere or knock with a bad header, places and descriptors used again; 3.38 million states | the reader waits for a thread that will answer and reads a message from one source, both but for one case they name (see Disagreements); tokens match wishes, no null stream, places are free when threads have returned, only connections accepted during `closeAll` outlive it; `InputConnections` implements `Inbox` |
| `ConnLive` (`InputConnections`, fair) | two connections that stay, peers that knock with a bad header, no descriptor used again; 214 thousand states | the connection at the head of the list is served, the acceptor gets the mutex of the list |
| `ConnDetach` (`InputConnections`, fair) | one connection, messages of two pieces, closing by name, resets, bad headers, descriptors used again; 70 thousand states | a broken connection gives its place back, closing returns |
| `PortLife` (fair) | four calls, three messages, a name server that may refuse, `Deactivate`; 2.7 thousand states | what the owner is told is so, the token is free only without a message, `Register` and `Unregister` return |
| `SendablePool` (fair) | two connections, `Write(true)` and `Write(false)`, at most five buffers; 486 thousand states | counts right, one place for each buffer, the writer alone with his, at most targets + 2 buffers, all of them back in the end but what a dead connection keeps or makes the port keep |

Two runs show where the code does not do what an assertion or a comment says
(`findings` in `PROJECT.json` has the quotations):

| run | what happens |
|---|---|
| `LifeRetry` | `Register` after one that the name server refused meets the assertion `running == 0` of `YARPBareThread::Begin` (`YARPThread.cpp:133`), since nothing resets `running` when `Body` returns by itself |
| `OutputDeadTarget` | a connection thread that finds its peer unreachable (`Port.cpp:519`) returns without posting `space_available`; the sender thread waits for it with both mutexes held |

No run checks a `TypeOK`: it is proved of all five modules, each time for every
value of the constants (in `PortLife` of those that are `LegalCalls`).

### Bounds

Three buffers are all there are; three messages fill every slot and leave one
to replace an unread one, four let it happen twice. Two output connections let
one be walked over, removed or late while another holds the sender thread; one
is enough where the question is whether a thread ever gets on. Two commands
connect and disconnect a target, or connect both. Of three messages one is
being sent, one waits for its connection and the third `Write` has to wait for
both. Two input connections are the one the reader is busy with and another
that offers, breaks or is accepted meanwhile; a place is used again as often as
the checker likes, since nothing bounds the messages or the connections made.
Messages of two pieces are read on after a peer has gone, those of one piece
end there. `MaxSendables` is one more than the property `PoolBounded` allows for
two connections, so a fifth would be seen. `PortLife` lets the owner register,
deactivate twice and unregister, with three messages before, between and after.
The semaphores are unbounded and stay small by themselves.

Deadlock is not checked: a port that has been ended, an owner who does nothing
more, a reader without peers are legal ends. Whether somebody waits for ever
is asked by the liveness properties instead.

### Fairness

Weak fairness of each thread: the port thread, a call of the user that has
begun, the sender thread, every connection thread, the acceptor. The operating
system runs threads that can run; nobody has to write, read, register, connect
or end. A read from or a write to the network that has begun ends, with or
without success; in `InputConnections` this says that a peer that has begun a
message finishes it or goes away (the code has no time-out there), while no
peer has to begin one, and the port thread goes back to `read`, as
`Port::Body` does. Strong fairness is assumed once: the semaphore of the list
serves the acceptor although the port thread takes it again and again. The code
leaves this to the operating system; with a semaphore that may pass over a
waiting thread for ever `AcceptorServed` would not hold. Elsewhere semaphores need
not be fair, because the number of messages is bounded.

`SendablePool` takes no `Content`, `Attach`, `Stop` or `Delete` for granted:
`EverythingReturns` therefore excepts what a dead connection holds until the
next message or command deletes it (`HeldByDead`). It also excepts the buffer of
the port while the sender thread waits, after `Write(true)`, for the space of
a connection that died with a message (`HeldByWalk`, `Port.cpp:799`): that wait
has no end, as `OutputDeadTarget` shows, and the walk never comes to its `Reset`.
With `WaitModes = {FALSE}` the first exception is enough.

`ConnLive` has `HandlesReused = FALSE`: a reader that has gone astray (see
Disagreements) keeps the mutex of the list, and neither property could hold.
The acceptor is fair in taking `End`'s own connection; no other peer has to
connect, with a good header or a bad one.

## Proofs

`tlapm` checks the theorems for every number of messages, calls and commands,
every set of targets and size of the pool, and every combination of failures,
bufferings and read modes that the assumptions of the modules allow. These
only type the constants; what else a theorem assumes is in its statement.

*Input* (`PortInputProofs`, `PortInputRefinement`). The invariant is `InputInv`.
`NoBufferLostOrShared` alone is not inductive: `Relinquish` gives the access
buffer to whichever slot is empty, so one must know that with fewer than three
buffers the access slot is filled only while it is accessed
(`AccessMeansAccessing`), and that the port thread is "filling" only with a
buffer (`Places`). From it follow `TypeOK`, `NoBufferLostOrShared`,
`NoLostWakeup`, `ReaderOwnsContent`, `AcquireAssertion`, `BlockedOnlyByReader`
and the action property `FillUndisturbed`. `CallbackInv` follows the
incoming slot of a port that is read from `OnRead`: it is empty only from the
publication of a message to the `Relinquish` at the beginning of the `Read` that
the callback makes, and never when the port thread comes for a buffer
(`EventDriven`: `EventDrivenReceives` for two and three buffers, also while
another thread ends the port). `WaitInv` adds what makes `End` safe to wait
(`WaitsAreMet`, which also has `NoLostWakeup` in it): once data are ignored the
incoming slot stays full (`EndKeepsIncoming`), so a port thread that sleeps has
been woken by one of the `Relinquish` of `SaySelfEnd`; `End` and the port thread
take turns over the detach message, the two events and the running flag
(`Handshake`); and an `OnRead` finds the message it was called for, so the
port thread does not wait for itself (`OnReadInv`). What is left to fairness in
`EndReturns` is that threads that can run do run. `TornInv` and `NewsInv` (message numbers grow from
the network to the owner; when `has_input` is set the latest slot holds the
newest message) give, when no connection breaks (`BrokenReads = FALSE`), that
what is read is complete, and, for an owner that only blocks or only polls
(`SteadyReads`), that no message is read twice and that the port implements
`Mailbox`. For the polling owner it takes `PollInv`: `something_to_read` has one
token when `has_input` is set and none otherwise, which is just what is lost when
the two ways of reading are mixed.

*Output* (`PortOutputProofs`, `PortOutputRefinement`). The invariant is
`OutputInv`: who holds the two mutexes follows from the places of the threads
(`LockPlaces`); the walk is over existing targets (`WalkInv`); the port thread leaves its loop only for an `End`
(`CommandInv`); the permission to write is a baton that is in the semaphore,
with the user's thread, in the signal, or with the sender thread (`BatonInv`,
which makes `okay_to_send` binary and `p_sendable` safe to set); and for each
connection `sending`, `space_available`, `something_to_send` and the two message
fields agree with the place of its thread (`LinkOK`). From it follow `TypeOK`,
`NoNullSend`, `SpaceMeansSent`, `UsedWhileListed` and the action property
`NothingOverwritten`. `SpaceMeansSent` and `NoNullSend` need all of `LinkOK`,
because a connection thread is woken by the same semaphore for a message and
for its end.

That nobody waits in vain (`WaitsAreMet`) is a safety property, the part of
`WriteReturns` and `EndReturns` that does not depend on fairness. It needs what
the other properties can do without (`ServeInv`): that the baton is never lost
while the sender thread runs (`PermitInv`, where `BatonInv` only says that it is
never doubled), that a connection which is still sending has its message and
one which was told to end has the token to be woken (`ServedInv`), and that a
thread is told before it is joined (`JoinInv`). The one exception is in the
property: a connection thread that has died keeps its `space_available`, which
is how `OutputDeadTarget` comes about.

The order of the messages (`SentInOrder`) is proved for every owner and every
failure. `WriteInv` says that the message waiting for the sender thread is the
newest one, or the one before it while the next is being shared, and `OrderInv`
that the message a connection was handed last is newer than what it sent, and
not newer than what has been distributed to it. `WalkInv` has the part that
matters: the connection being handed a message is no longer in the rest of the
walk, so none gets a message twice, which `Outbox` could not tell, since there a
repeated message is a stutter.

For an owner that always waits (`AlwaysWaits`) `SequenceInv` adds that each connection was handed exactly the
message being distributed when the walk has passed it, otherwise the one before
it. From them `WaitingOwnerHasOutbox` proves that the port implements
`Outbox`. It assumes `SendsWork`, as the run does: a sender thread that already
waits for the connection when it fails gives it the next message before it is
removed, and the peer may get that one without the one that failed
(`ImplementsOutbox` is violated with "send" in `Failures`).

*Input connections* (`InputConnectionsProofs`, `InputConnectionsRefinement`).
The invariant is `ConnInv`. Unconditionally, for any failure and with closing by name, it has the types, the list
(`ListInv`: what is in use was taken from the pool, what is not has no thread;
which places of the reader hold the mutex), `AvailableMeansEnded` and the
progress of `closeAll` (`CloseInv`); `ConnTypeCorrect`, `PlacesFreed` and
`ClosedList` therefore assume nothing. As long as the state is `Undisturbed`
(nothing was ended from outside, no peer resets its connection) it has, in
addition, distinct descriptors of the open streams, and streams that are there
(`StreamInv`), the reader's own members (`ReaderInv`), and for each connection
`ThreadInv`, except of the one, `Lost`, that the reader asks by mistake because it
has the descriptor of the message's connection and has not returned yet: a token is there for the wait it is meant for (`Signals`), a thread
that reads or answers does it for the reader (`Places`, `Preambles`), the
reader waits for a thread that has done its part or still will (`Serves`), and
the connection of the open message keeps its identifier until it is released
(`Opened`). The properties are not inductive one by one: that the thread the
reader waits for will answer depends on nobody having left a token in its
semaphores before, and that on which connection the open message belongs to.
The proof rests on two frame lemmas, one for a step of a connection's thread
(`ThreadKeeps`: the other connections and the reader do not notice it) and one
for a step of the reader that touches one connection (`PlacesKept`). From the
invariant follow all safety properties of `ConnSafety`; those that need the
second half assume `SafeEnvironment`: no resets. Descriptors may be given out
again in all of them; that the reader asks no other connection than a `Lost`
one follows from `StreamInv` and `Opened`: two streams that are open differ, and
the connection of the open message has its stream.
With no closing by name besides
(`MaxDetaches = 0`) `ListIsInbox` shows that the list implements `Inbox`.

*Life of a port* (`PortLifeProofs`). The invariant is `LifeInv`: where the token
of `okay_to_send` is (`Baton`), that the sender thread is signalled once per
message and after it was put in place (`Pulses`), which places of the port
thread go with what the owner is doing and was told (`Phases`), and what each
of these places says about the name server, the endpoint and the sender thread
(`Stages`). `ResultTrue` needs `Phases` and `Stages`, `TokenMeansSent` needs
`Baton`, which needs `Pulses`, since a second signal would distribute a message
that is being replaced. The theorems assume `LegalCalls`: the program registers
its port once, writes after that, and may call `Deactivate`. `BeginsOnce` says
that under this assumption the assertion that `LifeRetry` violates holds.
`CallsGetAnswers` is the part of `RegisterReturns` and `UnregisterReturns` that
does not depend on fairness: at every wait of the owner and at the join of the
sender thread the answer is there or on its way (`CallsAreAnswered`, from
`Answers`, which follows the events and the detach messages between the
threads). It also assumes that the port's own name can be looked up, since
`SaySelfEnd` waits even when it sent nothing.

*Pool* (`SendablePoolProofs`). `IInv` adds to the types, `CountsPointers` and
`OnePlace` (in pieces that do not speak of cardinalities: `Listed`, `Released`,
`Gotten`, `Pointed`, `Somewhere`) that a buffer on its way has a count of zero
and that no pointer of the port or of a connection appears while the user fills
in a buffer (`Owned`). From it follow `CountsPointers`, `OnePlace`,
`WriterOwnsContent` and that no count falls below zero. `PoolBounded` is a
pigeonhole argument over the set of connections: a buffer is made only when the
list is empty, then every buffer is with the port or a connection (`BoundInv`,
which gives each of them at most one), and the one that is made is with the
user.

What no passing run names: the types of the five modules, `AssertionHolds`,
`WakeupsKept` (a part of `WaitsAreMet`), `SteadyReadReturnsNews` (implied by
`Mailbox`), `BeginsOnce` and `CallsGetAnswers`, whose liveness half is what
`PortLife` checks. TLC found all of them and their inductive invariants to hold
on the instances of the runs before they were proved.

Every safety and action property and every refinement that a passing run checks
is the statement of a theorem. Only model-checked is everything about liveness,
since the prover does not reason about fairness here. Neither proved nor checked
are the properties where the code does not have them: reads that block and poll
in turn, the connections of the list after a closing by name or a reset, the
`Outbox` when sends fail or `Write(false)` is mixed in.

## Disagreements

Seen while modelling, and reached by the models when a constant or a property is
changed as said; they have no run of their own.

- A blocking `Read` that finds `has_input` set leaves the token in
  `something_to_read`; a later `Read(false)` takes it and returns an old message
  (`Port.cpp:1556`; `ReadReturnsNews` with `MixedReads = TRUE`).
- With `NO_BUFFERS` an unread message keeps the port thread asleep, and `End`
  waits for ever for its detach message (`Port.cpp:1284`; `EndReturns` without
  its exception).
- A reader that has passed the test of `IsTerminated()` clears the `has_input`
  that the ending thread has just set; its next blocking `Read` never returns
  (`Port.cpp:1567`, `1480`).
- With fewer than three buffers the object behind `Content()` is reused when
  another thread calls `End` (`YARPPort.h:337`); with `DOUBLE_BUFFERS` a third
  message replaces the second while the first is being accessed
  (`YARPPort.h:270`); a message whose connection broke is published
  (`Port.cpp:1302`).
- `Write(false)` clears `require_complete_send` while the message of the previous
  `Write(true)` still waits for the sender thread, and a busy connection drops
  it (`YARPPort.cpp:663`; `ImplementsOutbox` with `WaitModes = {TRUE, FALSE}`).
- `FinishSend` looks at `pending`, which nothing sets, and walks the connections
  without `list_mutex` (`Port.cpp:1636`); a peer that never takes a message makes
  the sender thread join its connection's thread with `list_mutex` held
  (`Port.cpp:713`).
- `closeAll` ends the connections before it ends the acceptor; a connection that
  is accepted in between keeps its thread, and with it a list that is gone
  (`YARPSocketMulti.cpp:3189`, `270`; the exception `late` of
  `OnlyLateOnesLeft`).
- `closeByName` leaves `_waiting` set on the connection it ends; the next
  connection in that place is taken for one that offers a message
  (`YARPSocketMulti.cpp:3297`; `WaitIsAnswered` without its exception
  `NothingEnded`, and `MaxDetaches = 1`).
- The reader knows the connection of its message by the descriptor. A thread
  closes its stream some steps before it makes its place available, and the
  operating system may give the descriptor to the next connection meanwhile; when
  that one offers a message, the reader asks the place nearer to the head of the
  list, whose thread is about to return, and waits for ever with the list locked
  (`YARPSocketMulti.cpp:3375`, `3466`; `Astray`, the exception of `WaitIsAnswered`
  and `OneSource`, which `ConnSafety` reaches and without which both are
  violated there).
- A peer that closes in the middle of a message ends the message for its
  connection, not for the reader: the rest is read from whatever message comes
  next, from any connection (`BlockReceiver.cpp:140`). Each offer sets `source`
  anew, so no property speaks of it.
- A bad header from any peer makes the acceptor ask itself to end, although its
  log says that it goes on listening (`YARPSocketMulti.cpp:3165-3172`): one such
  peer and the port accepts no other connection. It is the action `Knocked`;
  `AcceptorServed` is about connections whose header was good.
- A peer that resets the connection makes the result -1 the length of a `memset`
  (`YARPSocketMulti.cpp:886`; `NoCrash` without its exception, and "reset" in
  `Failures`).
- `PortLife` with other values of `Calls`: with "reuse" the sender thread of the
  second registration follows a null `_owner` (`Port.cpp:828`); with "twice" or
  "early" `Register` never returns (`Port.h:631`); with "abandon" `Unregister`
  after a refused `Register` never returns (`Port.cpp:898`); with
  `Failures = {"locate"}` `Unregister` waits for the answer to a message that was
  not sent (`Port.cpp:1787`).
- `Deactivate` sends `DETACH_ALL` without the handshake of `SaySelfEnd`
  (`Port.h:737`): the port takes no further command and `Write` blocks; the
  comment at `Port.h:115` promises a disconnection only.
- `Write` without `Content` shares a null pointer (`YARPPort.cpp:665`).

Smaller hazards that are plain to a reader and not modelled: the endpoint
manager returns with its mutex held when an endpoint cannot be created
(`YARPSocketNameService.cpp:243`, `345`); a connection that cannot be made
releases its thread's mutex twice (`Port.cpp:515`); `pollingRead` of the input
connections returns with the mutex of the list (`YARPSocketMulti.cpp:3346`; no
caller); `DeactivateAll` holds the mutex of the list of ports while it waits for
one of them (`YARPPort.cpp:543`), and a destroyed port stays in that list
(`YARPPort.cpp:113`).

## Not modelled

- Endpoint manager and name-service client: looking up, registering and reaching
  succeed or fail in `PortOutput` and `PortLife`. Behind them is a table with one
  mutex and nothing that waits inside it; its faulty return paths are above.
- Output sockets: blocking calls of the operating system; in `PortOutput` a send
  succeeds, fails or is late.
- UDP, multicast, shared-memory and QNX connections: threads of the same kind as
  those of `InputConnections`, without a stream that may break in the middle. The
  multicast target of the output side takes commands of its own.
- Two ports that write to each other and wait: each side is in `PortOutput`, the
  pair is beyond what can be enumerated.
- The doubly linked connection list (`mesh.cpp`) is sequential code under
  `list_mutex` and a set in `PortOutput`. Destruction of ports, the list of all
  ports, rate threads, time and the scheduler have no part in the protocols of a
  port that is in use.
- `BlockSender` and the layout of headers and messages, containers,
  configuration files, devices, robot, image and mathematical code, applications,
  tools, the Java port: sequential or numeric code, and users of the library,
  most of the repository's lines. Payloads are numbers throughout.
