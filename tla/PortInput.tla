----------------------------- MODULE PortInput -----------------------------
(***************************************************************************)
(* The input side of a port (libYARP_OS): the port thread receives         *)
(* messages into up to three buffers (Port::Body, MSG_ID_DATA), the owner  *)
(* reads them with YARPInputPort::Read, and Port::End shuts the thread     *)
(* down while either of them may be blocked.                               *)
(*                                                                         *)
(* One action is one critical section of out_mutex, one semaphore or event *)
(* operation, or one unlocked access to a member another thread writes.    *)
(* A message is its number in the order the port thread receives it; a     *)
(* buffer is "torn" while the network is writing into it, and stays torn   *)
(* when the connection breaks half-way.                                    *)
(***************************************************************************)
EXTENDS Naturals, FiniteSets

CONSTANTS
  ServiceTypes,  \* which bufferings to explore (argument of the constructor)
  ReadModes,     \* the values of Read's argument wait that the owner may use
  MixedReads,    \* whether one owner may use both of them
  ReaderKinds,   \* who may call Read, relative to the thread that calls End
  MaxMessages,   \* bound: messages that arrive in one behaviour
  BrokenReads    \* whether a connection may break in the middle of a message

AllReaderKinds ==
  {"ending",    \* the thread that reads is the one that calls End
   "separate",  \* another thread calls End
   "callback"}  \* OnRead reads, in the port thread itself

ASSUME InputAssumption ==
  /\ ServiceTypes \subseteq {"NO_BUFFERS", "DOUBLE_BUFFERS", "TRIPLE_BUFFERS"}
  /\ ReadModes \subseteq BOOLEAN /\ MixedReads \in BOOLEAN
  /\ ReaderKinds \subseteq AllReaderKinds
  /\ MaxMessages \in Nat
  /\ BrokenReads \in BOOLEAN

NULL == 0
Buffers == 1..3
Slots == {NULL} \union Buffers
Messages == 1..MaxMessages

VARIABLES
  \* members of Port, guarded by out_mutex
  reader_kind,         \* who calls Read
  service_type,        \* PortData::service_type
  access,              \* p_receiver_access
  latest,              \* p_receiver_latest
  incoming,            \* p_receiver_incoming
  receiving, accessing, asleep, has_input, ignore_data,
  \* semaphores, events and the thread's running flag
  something_to_read, wakeup,
  complete_msg_thread, complete_terminate,
  running,             \* YARPBareThread::running: IsTerminated() is ~running
  \* the network as the port thread sees it
  arrived,             \* messages whose header has been received
  detach,              \* a MSG_ID_DETACH_ALL is waiting to be received
  data,                \* the message each buffer holds, 0 if none yet
  torn,                \* the buffers whose message is not complete
  \* where each thread is
  port, reader, closer,
  wait,                \* the argument of the Read in progress
  content,             \* YARPPort::content, what Content() returns
  \* history
  newest,              \* the message that entered the latest slot last
  delivered            \* the message the last successful Read gave out

slots == <<access, latest, incoming>>
flags == <<receiving, accessing, asleep, has_input, ignore_data>>
signals == <<something_to_read, wakeup, complete_msg_thread,
             complete_terminate, running>>
network == <<arrived, detach, data, torn>>
history == <<newest, delivered>>
vars == <<service_type, reader_kind, slots, flags, signals, network, port,
          reader, closer, wait, content, history>>

PortStates == {"idle", "data", "asleep", "resumed", "filling", "received",
               "notify", "onread", "inread", "detached", "tail", "waking", "done"}
ReaderStates == {"user", "relinquish", "check", "waiting", "poll", "go", "take"}
CloserStates == {"open", "relinquish1", "ignore", "relinquish2", "say",
                 "relinquish3", "awaitDetach", "signal", "join", "ended"}

(***************************************************************************)
(* YARPInputPort::Register hands one, two or three buffers to the port     *)
(* before its thread is started; the behaviours start there.               *)
(***************************************************************************)
BuffersOf(s) ==
  {1} \union (IF s = "NO_BUFFERS" THEN {} ELSE {2})
      \union (IF s = "TRIPLE_BUFFERS" THEN {3} ELSE {})

Init ==
  /\ service_type \in ServiceTypes /\ reader_kind \in ReaderKinds
  /\ incoming = 1
  /\ latest = IF service_type = "NO_BUFFERS" THEN NULL ELSE 2
  /\ access = IF service_type = "TRIPLE_BUFFERS" THEN 3 ELSE NULL
  /\ receiving = FALSE /\ accessing = FALSE /\ asleep = FALSE
  /\ has_input = FALSE /\ ignore_data = FALSE
  /\ something_to_read = 0 /\ wakeup = 0
  /\ complete_msg_thread = FALSE /\ complete_terminate = FALSE
  /\ running = TRUE
  /\ arrived = 0 /\ detach = FALSE
  /\ data = [b \in Buffers |-> 0] /\ torn = {}
  /\ port = "idle" /\ reader = "user" /\ closer = "open"
  /\ wait \in ReadModes /\ content = NULL
  /\ newest = 0 /\ delivered = 0

-----------------------------------------------------------------------------
(* The port thread: Port::Body *)

\* receiver.Get delivers the header of a data message.
ReceiveData ==
  /\ port = "idle" /\ arrived < MaxMessages
  /\ arrived' = arrived + 1
  /\ port' = "data"
  /\ UNCHANGED <<service_type, reader_kind, slots, flags, signals, detach,
                 data, torn, reader, closer, wait, content, history>>

\* With the lock held: go to sleep if there is no incoming buffer, else
\* release the lock and let the network write into it.
FillOrSleep ==
  IF incoming = NULL
  THEN /\ asleep' = TRUE
       /\ port' = "asleep"
       /\ UNCHANGED <<data, torn>>
  ELSE /\ asleep' = FALSE
       /\ port' = "filling"
       /\ data' = [data EXCEPT ![incoming] = arrived]
       /\ torn' = torn \union {incoming}

\* case MSG_ID_DATA, first critical section.
StartData ==
  /\ port = "data"
  /\ receiving' = TRUE
  /\ IF ignore_data
     THEN /\ port' = "received"
          /\ UNCHANGED <<asleep, data, torn>>
     ELSE FillOrSleep
  /\ UNCHANGED <<service_type, reader_kind, slots, accessing, has_input,
                 ignore_data, signals, arrived, detach, reader, closer, wait,
                 content, history>>

\* wakeup.Wait returns; the lock is taken again in the next step.
WakeUp ==
  /\ port = "asleep" /\ wakeup > 0
  /\ wakeup' = wakeup - 1
  /\ port' = "resumed"
  /\ UNCHANGED <<service_type, reader_kind, slots, flags, something_to_read,
                 complete_msg_thread, complete_terminate, running, network,
                 reader, closer, wait, content, history>>

\* while (p_receiver_incoming.Ptr() == NULL), evaluated again.
RetryFill ==
  /\ port = "resumed"
  /\ FillOrSleep
  /\ UNCHANGED <<service_type, reader_kind, slots, receiving, accessing,
                 has_input, ignore_data, signals, arrived, detach, reader,
                 closer, wait, content, history>>

\* p_receiver_incoming.Ptr()->Read(receiver) returns; its result is not used.
FinishFill ==
  /\ port = "filling"
  /\ \/ torn' = torn \ {incoming}
     \/ BrokenReads /\ UNCHANGED torn
  /\ port' = "received"
  /\ UNCHANGED <<service_type, reader_kind, slots, flags, signals, arrived,
                 detach, data, reader, closer, wait, content, history>>

\* has_input = 1 and something_to_read.Post() if has_input was 0, and a version
\* that never posts.
AnnounceNever == has_input' = TRUE /\ UNCHANGED something_to_read

Announce ==
  /\ has_input' = TRUE
  /\ something_to_read' = IF has_input THEN something_to_read
                                       ELSE something_to_read + 1

\* case MSG_ID_DATA, last critical section: the incoming buffer becomes the
\* latest, and the reader is told if it has not been told already.
Publish ==
  /\ port = "received"
  /\ receiving' = FALSE
  /\ IF ignore_data
     THEN UNCHANGED <<slots, has_input, something_to_read, newest>>
     ELSE /\ latest' = incoming /\ incoming' = latest
          /\ newest' = data[incoming]
          /\ Announce
          /\ UNCHANGED access
  /\ port' = "notify"
  /\ UNCHANGED <<service_type, reader_kind, accessing, asleep, ignore_data,
                 wakeup, complete_msg_thread, complete_terminate, running,
                 network, reader, closer, wait, content, delivered>>

\* ignore_data is read once more, without the lock, to decide on OnRead.
Notify ==
  /\ port = "notify"
  /\ port' = IF ignore_data THEN "idle" ELSE "onread"
  /\ UNCHANGED <<service_type, reader_kind, slots, flags, signals, network,
                 reader, closer, wait, content, history>>

\* OnRead returns. The base class does nothing in it; a callback calls Read,
\* which "is still essential" (YARPPort.h:330), once.
OnReadReturn ==
  /\ \/ port = "onread" /\ reader_kind # "callback"
     \/ port = "inread" /\ reader = "user"
  /\ port' = "idle"
  /\ UNCHANGED <<service_type, reader_kind, slots, flags, signals, network,
                 reader, closer, wait, content, history>>

\* complete_msg_thread.Signal(), and a version that forgets it.
NoAnswerDetach == UNCHANGED complete_msg_thread

AnswerDetach == complete_msg_thread' = TRUE

\* case MSG_ID_DETACH_ALL up to complete_terminate.Wait (the output targets it
\* deactivates belong to the output side).
ReceiveDetachAll ==
  /\ port = "idle" /\ detach
  /\ detach' = FALSE
  /\ AnswerDetach
  /\ port' = "detached"
  /\ UNCHANGED <<service_type, reader_kind, slots, flags, something_to_read,
                 wakeup, complete_terminate, running, arrived, data, torn,
                 reader, closer, wait, content, history>>

\* complete_terminate.Wait returns, AskForEnd() makes IsTerminated() true and
\* the thread leaves its loop.
AskForEnd ==
  /\ port = "detached" /\ complete_terminate
  /\ complete_terminate' = FALSE
  /\ running' = FALSE
  /\ port' = "tail"
  /\ UNCHANGED <<service_type, reader_kind, slots, flags, something_to_read,
                 wakeup, complete_msg_thread, network, reader, closer, wait,
                 content, history>>

\* has_input = 1, without the lock ...
TailSetInput ==
  /\ port = "tail"
  /\ has_input' = TRUE
  /\ port' = "waking"
  /\ UNCHANGED <<service_type, reader_kind, slots, receiving, accessing,
                 asleep, ignore_data, signals, network, reader, closer, wait,
                 content, history>>

\* ... and then something_to_read.Post(): the thread returns.
TailPost ==
  /\ port = "waking"
  /\ something_to_read' = something_to_read + 1
  /\ port' = "done"
  /\ UNCHANGED <<service_type, reader_kind, slots, flags, wakeup,
                 complete_msg_thread, complete_terminate, running, network,
                 reader, closer, wait, content, history>>

-----------------------------------------------------------------------------
(* Port::Relinquish, called by the reader and by SaySelfEnd *)

\* The exchange of buffers. The first three definitions of this section are
\* wrong versions, to compare the code with: assigning instead of
\* exchanging, forgetting one of the two cases, ignoring who uses the slot.
GiveBackByAssignment ==
  IF incoming = NULL THEN incoming' = access /\ UNCHANGED <<access, latest>>
                     ELSE UNCHANGED slots

GiveBackIncomingOnly ==
  IF incoming = NULL
  THEN incoming' = access /\ access' = incoming /\ UNCHANGED latest
  ELSE UNCHANGED slots

GiveBackAlways == incoming' = access /\ access' = incoming /\ UNCHANGED latest

GiveBack ==
  \/ /\ incoming = NULL
     /\ incoming' = access /\ access' = incoming /\ UNCHANGED latest
  \/ /\ incoming # NULL /\ latest = NULL
     /\ latest' = access /\ access' = latest /\ UNCHANGED incoming
  \/ /\ incoming # NULL /\ latest # NULL
     /\ UNCHANGED slots

\* if (asleep) wakeup.Post(), and a version that forgets it.
NoWakeSleeper == UNCHANGED wakeup

WakeSleeper == wakeup' = IF asleep THEN wakeup + 1 ELSE wakeup

\* accessing = 0.
StopAccessing == accessing' = FALSE

Relinquish ==
  /\ IF accessing THEN GiveBack /\ WakeSleeper /\ StopAccessing
                  ELSE UNCHANGED <<slots, wakeup, accessing>>
  /\ UNCHANGED <<service_type, reader_kind, receiving, asleep, has_input,
                 ignore_data, something_to_read, complete_msg_thread,
                 complete_terminate, running, network, history>>

-----------------------------------------------------------------------------
(* The reader: YARPInputPort::Read, that is Relinquish and then Acquire *)

MayRead ==
  /\ reader_kind = "ending" => closer \in {"open", "ended"}
  /\ reader_kind = "callback" => port = "onread"

StartRead ==
  /\ reader = "user" /\ MayRead
  /\ wait' \in ReadModes /\ (MixedReads \/ wait' = wait)
  /\ reader' = "relinquish"
  /\ port' = IF reader_kind = "callback" THEN "inread" ELSE port
  /\ UNCHANGED <<service_type, reader_kind, slots, flags, signals, network,
                 closer, content, history>>

\* content = NULL, and a version that forgets it.
KeepContent == UNCHANGED content

DropContent == content' = NULL

\* Relinquish, then content = NULL.
ReadRelinquish ==
  /\ reader = "relinquish"
  /\ Relinquish
  /\ DropContent
  /\ reader' = IF wait THEN "check" ELSE "poll"
  /\ UNCHANGED <<port, closer, wait>>

\* while (!has_input), under the lock.
CheckInput ==
  /\ reader = "check"
  /\ reader' = IF has_input THEN "go" ELSE "waiting"
  /\ UNCHANGED <<service_type, reader_kind, slots, flags, signals, network,
                 port, closer, wait, content, history>>

\* What a wait on something_to_read needs.
TokenAvailable == something_to_read > 0

\* something_to_read.Wait returns.
InputSignalled ==
  /\ reader = "waiting" /\ TokenAvailable
  /\ something_to_read' = something_to_read - 1
  /\ reader' = "check"
  /\ UNCHANGED <<service_type, reader_kind, slots, flags, wakeup,
                 complete_msg_thread, complete_terminate, running, network,
                 port, closer, wait, content, history>>

\* something_to_read.PollingWait: the only thing a polling Read looks at.
PollInput ==
  /\ reader = "poll"
  /\ IF TokenAvailable
     THEN /\ something_to_read' = something_to_read - 1
          /\ reader' = "go"
     ELSE /\ reader' = "user"
          /\ UNCHANGED something_to_read
  /\ UNCHANGED <<service_type, reader_kind, slots, flags, wakeup,
                 complete_msg_thread, complete_terminate, running, network,
                 port, closer, wait, content, history>>

\* if (go && !IsTerminated()), evaluated before the lock is taken.
CheckTerminated ==
  /\ reader = "go"
  /\ reader' = IF running THEN "take" ELSE "user"
  /\ UNCHANGED <<service_type, reader_kind, slots, flags, signals, network,
                 port, closer, wait, content, history>>

\* The exchange in Acquire, without the reset of has_input and with the wrong
\* slot, and as it is.
TakeLatestKeepInput ==
  /\ access' = latest /\ latest' = access
  /\ UNCHANGED <<incoming, has_input>>

TakeIncoming ==
  /\ access' = incoming /\ incoming' = access
  /\ has_input' = FALSE
  /\ UNCHANGED latest

TakeLatest ==
  /\ access' = latest /\ latest' = access
  /\ has_input' = FALSE
  /\ UNCHANGED incoming

\* The critical section of Acquire.
Take ==
  /\ reader = "take"
  /\ IF latest # NULL THEN TakeLatest ELSE UNCHANGED <<slots, has_input>>
  /\ content' = access'
  /\ delivered' = IF access' = NULL THEN delivered ELSE data[access']
  /\ WakeSleeper
  /\ accessing' = TRUE
  /\ reader' = "user"
  /\ UNCHANGED <<service_type, reader_kind, receiving, asleep, ignore_data,
                 something_to_read, complete_msg_thread, complete_terminate,
                 running, network, port, closer, wait, newest>>

-----------------------------------------------------------------------------
(* Port::End: SaySelfEnd, then Join *)

closerOnly == <<service_type, reader_kind, slots, flags, something_to_read,
                wakeup, running, arrived, data, torn, port, reader, wait,
                content, history>>

StartEnd ==
  /\ closer = "open"
  /\ reader_kind = "ending" => reader = "user"
  /\ closer' = "relinquish1"
  /\ UNCHANGED <<closerOnly, complete_msg_thread, complete_terminate, detach>>

EndRelinquish(from, to) ==
  /\ closer = from
  /\ Relinquish
  /\ closer' = to
  /\ UNCHANGED <<port, reader, wait, content>>

EndIgnoreData ==
  /\ closer = "ignore"
  /\ ignore_data' = TRUE
  /\ closer' = "relinquish2"
  /\ UNCHANGED <<service_type, reader_kind, slots, receiving, accessing,
                 asleep, has_input, signals, network, port, reader, wait,
                 content, history>>

\* SendHelper (*self_id, NULL, 0, MSG_ID_DETACH_ALL)
EndSay ==
  /\ closer = "say"
  /\ detach' = TRUE
  /\ closer' = "relinquish3"
  /\ UNCHANGED <<closerOnly, complete_msg_thread, complete_terminate>>

EndDetachReceived ==
  /\ closer = "awaitDetach" /\ complete_msg_thread
  /\ complete_msg_thread' = FALSE
  /\ closer' = "signal"
  /\ UNCHANGED <<closerOnly, complete_terminate, detach>>

EndSignal ==
  /\ closer = "signal"
  /\ complete_terminate' = TRUE
  /\ closer' = "join"
  /\ UNCHANGED <<closerOnly, complete_msg_thread, detach>>

EndJoin ==
  /\ closer = "join" /\ port = "done"
  /\ closer' = "ended"
  /\ UNCHANGED <<closerOnly, complete_msg_thread, complete_terminate, detach>>

-----------------------------------------------------------------------------
PortThread ==
  \/ StartData \/ WakeUp \/ RetryFill \/ FinishFill \/ Publish \/ Notify
  \/ OnReadReturn \/ ReceiveDetachAll \/ AskForEnd \/ TailSetInput \/ TailPost

ReadStep ==
  \/ ReadRelinquish \/ CheckInput \/ InputSignalled \/ PollInput
  \/ CheckTerminated \/ Take

EndStep ==
  \/ EndRelinquish("relinquish1", "ignore")
  \/ EndIgnoreData
  \/ EndRelinquish("relinquish2", "say")
  \/ EndSay
  \/ EndRelinquish("relinquish3", "awaitDetach")
  \/ EndDetachReceived \/ EndSignal \/ EndJoin

Next == ReceiveData \/ PortThread \/ StartRead \/ ReadStep \/ StartEnd \/ EndStep

Spec == Init /\ [][Next]_vars

\* Threads that can run do run, and a message that is being received is
\* received to its end; nobody is obliged to send, to call End or to call Read,
\* but an OnRead that is overridden calls it before it returns.
Fairness ==
  /\ WF_vars(PortThread) /\ WF_vars(ReadStep) /\ WF_vars(EndStep)
  /\ WF_vars(reader_kind = "callback" /\ StartRead)

FairSpec == Spec /\ Fairness
-----------------------------------------------------------------------------
(* Properties *)

TypeOK ==
  /\ service_type \in ServiceTypes /\ reader_kind \in ReaderKinds
  /\ access \in Slots /\ latest \in Slots /\ incoming \in Slots
  /\ receiving \in BOOLEAN /\ accessing \in BOOLEAN /\ asleep \in BOOLEAN
  /\ has_input \in BOOLEAN /\ ignore_data \in BOOLEAN
  /\ something_to_read \in Nat /\ wakeup \in Nat
  /\ complete_msg_thread \in BOOLEAN /\ complete_terminate \in BOOLEAN
  /\ running \in BOOLEAN
  /\ arrived \in 0..MaxMessages /\ detach \in BOOLEAN
  /\ data \in [Buffers -> 0..MaxMessages] /\ torn \in SUBSET Buffers
  /\ port \in PortStates /\ reader \in ReaderStates /\ closer \in CloserStates
  /\ wait \in BOOLEAN /\ content \in Slots
  /\ newest \in 0..MaxMessages /\ delivered \in 0..MaxMessages

\* Port::Relinquish, Acquire and Body exchange three pointers under the lock
\* but the network writes through one of them without it. No exchange loses a
\* buffer or leaves the same buffer in two slots.
NoBufferLostOrShared ==
  /\ {access, latest, incoming} \ {NULL} = BuffersOf(service_type)
  /\ access # NULL => access \notin {latest, incoming}
  /\ latest # NULL => latest # incoming

\* Body dereferences p_receiver_incoming outside the lock (Port.cpp:1302)
\* while Read and End run Relinquish: the buffer is there, and the exchanges of
\* the other threads leave it alone until it is published.
FillUndisturbed ==
  [][port = "filling" => incoming # NULL /\ incoming' = incoming]_vars

\* YARPPort.h: the object Content() returns "is valid until the next time that
\* Read() is called". While the owner may look at it the network does not
\* write into it - with three buffers not even while another thread ends the
\* port, with fewer until End is called.
ReaderOwnsContent ==
  content # NULL /\ (closer = "open" \/ service_type = "TRIPLE_BUFFERS")
    => content = access

\* Neither side sleeps through the event it sleeps for: a port thread that
\* waits for a buffer while there is one has been woken, and so has a reader
\* that waits for input while there is some (the closing thread sets has_input
\* just before it posts).
NoLostWakeup ==
  /\ port = "asleep" /\ incoming # NULL => wakeup > 0
  /\ reader = "waiting" /\ has_input /\ port # "waking" => something_to_read > 0

\* The same for End, from the moment it has told the port thread to ignore data
\* and given back the owner's buffer: the port thread still has its message to
\* read or has answered it, does not sleep for want of a buffer (unless there is
\* only one), does not wait for itself in OnRead, and ends when End joins it.
EndIsAnswered ==
  /\ closer = "awaitDetach" => detach \/ (complete_msg_thread /\ port = "detached")
  /\ detach /\ service_type # "NO_BUFFERS" /\ port = "asleep" => wakeup > 0
  /\ reader_kind = "callback" => reader # "waiting"
  /\ closer = "join" => \/ port = "detached" /\ complete_terminate
                       \/ port \in {"tail", "waking", "done"}

\* Nobody waits for a signal that no one will give.
WaitsAreMet == NoLostWakeup /\ EndIsAnswered

\* ACE_ASSERT (!accessing) in Acquire never fires, although End resets
\* accessing from another thread.
AcquireAssertion == reader = "take" => ~accessing

\* With two or three buffers only the owner, by holding a message, can keep
\* the port thread from receiving, and with three nobody can; with one buffer
\* an unread message can too.
BlockedOnlyByReader ==
  port \in {"asleep", "resumed"} /\ incoming = NULL =>
    \/ accessing /\ service_type # "TRIPLE_BUFFERS"
    \/ latest # NULL /\ service_type = "NO_BUFFERS"

\* A Read that succeeds gives out a complete message when no connection has
\* broken: a buffer is never published or read while it is being written.
DeliveredComplete == content # NULL /\ closer = "open" => content \notin torn

\* YARPPort.h: Read returns "true if a message is available, otherwise false".
\* A Read that succeeds returns a message no earlier Read has returned.
ReadReturnsNews ==
  [][Take => delivered' > delivered /\ content' # NULL]_vars

\* YARPPort.h: messages "can be received either in an event-driven way, by
\* overriding the OnRead() method, or by blocking/polling": a port that is read
\* from OnRead never stops to wait for a buffer.
EventDrivenReceives ==
  reader_kind = "callback" /\ service_type # "NO_BUFFERS" => port # "asleep"

\* What the owner is promised (module Mailbox): the newest message, once.
Abstract == INSTANCE Mailbox WITH holding <- content # NULL
ImplementsMailbox == Abstract!Spec

\* Port::Acquire: Read(true) returns once a message has been published, however
\* the test of has_input, the wait and the post are interleaved.
InputIsRead ==
  reader = "waiting" /\ has_input /\ running ~> reader = "user"

\* Port::End returns: the comment in SaySelfEnd makes "sure the detach message
\* will be read, even if other messages are arriving" (Port.cpp:1773). With one
\* buffer it does not when a published message is not read: the port thread
\* sleeps and Relinquish has nothing to give back.
EndReturns ==
  closer = "relinquish1" /\ service_type # "NO_BUFFERS" ~> closer = "ended"

-----------------------------------------------------------------------------
(* The inductive invariant of the proofs (module PortInputProofs) *)

\* What the place of a thread says about the flags.
Places ==
  /\ port \in {"asleep", "resumed"} => asleep
  /\ running <=> port \notin {"tail", "waking", "done"}
  /\ port = "filling" \/ (port = "received" /\ ~ignore_data) => incoming # NULL
  /\ reader \notin {"user", "relinquish"} => ~accessing /\ content = NULL

\* With fewer than three buffers the access slot is only filled while the owner
\* accesses it: Relinquish always finds a slot to give the buffer back to.
AccessMeansAccessing ==
  service_type # "TRIPLE_BUFFERS" /\ access # NULL => accessing

InputInv ==
  /\ TypeOK /\ Places /\ NoBufferLostOrShared /\ AccessMeansAccessing
  /\ NoLostWakeup /\ ReaderOwnsContent

\* Only the buffer that is being filled is incomplete.
TornInv == torn = IF port = "filling" THEN {incoming} ELSE {}

\* Message numbers grow on their way from the network to the owner.
InFlight == port \in {"data", "asleep", "resumed", "filling", "received"}

\* The latest slot holds the newest message, which the owner has not seen.
Unread == latest # NULL /\ data[latest] = newest /\ newest > delivered

\* An owner that polls takes a token for every message that was announced and
\* not read yet; one that blocks tests has_input and may leave the token behind.
PollInv ==
  ~wait =>
    /\ reader \notin {"check", "waiting"}
    /\ running =>
         something_to_read = IF has_input /\ reader \notin {"go", "take"}
                             THEN 1 ELSE 0

NewsInv ==
  /\ wait \in ReadModes /\ PollInv
  /\ wait => reader # "poll"
  /\ delivered <= newest /\ newest <= arrived
  /\ InFlight => newest < arrived
  /\ port = "filling" \/ (port = "received" /\ ~ignore_data)
       => data[incoming] = arrived
  /\ has_input /\ running => Unread
  /\ reader = "go" /\ running => has_input
  /\ reader = "take" => has_input /\ Unread

\* A port that is read from OnRead has given its incoming buffer away only until
\* Relinquish, at the beginning of that Read, brings one back.
CallbackInv ==
  reader_kind = "callback" /\ service_type # "NO_BUFFERS" =>
    /\ port \notin {"asleep", "resumed"}
    /\ incoming = NULL /\ ~ignore_data =>
         \/ port \in {"notify", "onread"}
         \/ port = "inread" /\ reader = "relinquish"
    /\ reader # "user" => port = "inread"

\* What End does to the buffers: data are ignored before the second Relinquish,
\* after which the incoming slot stays full.
EndKeepsIncoming ==
  /\ ignore_data <=> closer \notin {"open", "relinquish1", "ignore"}
  /\ closer \notin {"open", "relinquish1", "ignore", "relinquish2"}
       /\ service_type # "NO_BUFFERS" => incoming # NULL

\* How far End and the port thread have come with each other.
Handshake ==
  /\ closer \in {"relinquish3", "awaitDetach"} => detach \/ complete_msg_thread
  /\ detach => /\ closer \in {"relinquish3", "awaitDetach"} /\ running
               /\ port # "detached"
  /\ complete_msg_thread => /\ closer \in {"relinquish3", "awaitDetach"}
                            /\ port = "detached"
  /\ port = "detached" => complete_msg_thread \/ closer \in {"signal", "join"}
  /\ closer = "signal" => port = "detached"
  /\ complete_terminate => closer = "join" /\ port = "detached"
  /\ closer = "join" => complete_terminate \/ ~running
  /\ ~running => closer \in {"join", "ended"}

\* Read from OnRead finds the message that OnRead was called for.
OnReadInv ==
  reader_kind = "callback" =>
    /\ port = "notify" /\ ~ignore_data => has_input
    /\ port = "onread" \/ reader \in {"relinquish", "check"} => has_input
    /\ reader # "user" => port = "inread"
    /\ reader # "waiting"

WaitInv == InputInv /\ EndKeepsIncoming /\ Handshake /\ OnReadInv
=============================================================================
