------------------------------ MODULE PortLife ------------------------------
(***************************************************************************)
(* The life of a port (libYARP_OS): Register starts the port thread and    *)
(* waits until it has registered its name; the port thread starts and ends *)
(* the sender thread; Unregister sends the port thread a message and joins *)
(* it; Deactivate sends the same message without what follows it.          *)
(*                                                                         *)
(* One thread, the owner, makes these calls (they share self_id without a  *)
(* lock), another one writes. Messages that arrive are left out, and so is *)
(* what the sender thread does with a message: PortInput and PortOutput    *)
(* model the time between the two handshakes modelled here.                *)
(***************************************************************************)
EXTENDS Naturals

CONSTANTS
  Calls,       \* what the owner does besides Register once and Unregister
  Failures,    \* what the name server may refuse
  MaxCalls,    \* bound: calls of the owner
  MaxWrites    \* bound: messages written

\* "retry": Register after a Register that failed; "reuse": Register after
\* Unregister; "twice": Register a registered port; "abandon": Unregister after
\* a Register that failed; "early": Write before Register has returned.
ASSUME LifeAssumption ==
  /\ Calls \subseteq
       {"retry", "reuse", "twice", "abandon", "early", "deactivate"}
  /\ Failures \subseteq {"register", "locate"}
  /\ MaxCalls \in Nat /\ MaxWrites \in Nat

VARIABLES
  \* members of Port
  started, name_set, asleep,
  okay_to_send,          \* semaphore
  p_sendable,            \* a message waits for the sender thread
  complete_msg_thread,   \* event, signalled
  complete_terminate,    \* event, signalled
  self_id,               \* the port's own address, while a call uses it
  \* members of _strange_select
  ready_to_go,           \* semaphore
  owner_set,             \* _owner # NULL
  \* YARPBareThread of the port and of its sender thread
  thread,
  \* outside
  registered,            \* the name server knows the name
  listening,             \* the port thread has its input endpoint
  inbox,                 \* DETACH_ALL messages sent and not read
  \* where each thread is
  owner, writer, port, tsender,
  aborted,               \* what stopped the program
  \* history
  result,                \* what the owner was last told about the port
  calls, writes

handshake == <<complete_msg_thread, complete_terminate>>
registration == <<started, name_set, asleep>>
sending == <<okay_to_send, p_sendable, ready_to_go>>
outside == <<registered, listening, inbox>>
history == <<result, calls, writes>>
vars == <<handshake, registration, sending, outside, history, self_id,
          owner_set, thread, owner, writer, port, tsender, aborted>>

\* A YARPBareThread that has not begun, or has been joined.
NoThread == [running |-> FALSE, asked |-> FALSE, handle |-> FALSE]

Init ==
  /\ started = FALSE /\ name_set = FALSE /\ asleep = FALSE
  /\ okay_to_send = 1 /\ p_sendable = FALSE
  /\ complete_msg_thread = FALSE /\ complete_terminate = FALSE
  /\ self_id = "null"
  /\ ready_to_go = 0 /\ owner_set = TRUE
  /\ thread = [t \in {"port", "tsender"} |-> NoThread]
  /\ registered = FALSE /\ listening = FALSE /\ inbox = 0
  /\ owner = "idle" /\ writer = "idle" /\ port = "none" /\ tsender = "none"
  /\ aborted = "no"
  /\ result = "new" /\ calls = 0 /\ writes = 0

-----------------------------------------------------------------------------
(* YARPBareThread *)

\* The assertions at the head of Begin.
MayBegin(t) ==
  ~thread[t].running /\ ~thread[t].asked /\ ~thread[t].handle

Begun(t) == [thread EXCEPT ![t].running = TRUE, ![t].handle = TRUE]

AskedForEnd(t) == [thread EXCEPT ![t].running = FALSE, ![t].asked = TRUE]

\* Join takes the handle and resets the state, but not running.
JoinedThread(t) == [thread EXCEPT ![t].asked = FALSE, ![t].handle = FALSE]

\* What Join waits for.
Returned(pc) == pc = "returned"

-----------------------------------------------------------------------------
(* The owner: YARPPort::Register, Port::SetName *)

MayRegister ==
  \/ result = "new"
  \/ result = "failed" /\ "retry" \in Calls
  \/ result = "unregistered" /\ "reuse" \in Calls
  \/ result = "registered" /\ "twice" \in Calls

Register ==
  /\ owner = "idle" /\ MayRegister /\ calls < MaxCalls
  /\ calls' = calls + 1
  /\ asleep' = TRUE
  /\ owner' = "take_token"
  /\ UNCHANGED <<handshake, started, name_set, sending, outside, result,
                 writes, self_id, owner_set, thread, writer, port, tsender,
                 aborted>>

TakeToken ==
  /\ owner = "take_token" /\ okay_to_send > 0
  /\ okay_to_send' = okay_to_send - 1
  /\ owner' = "begin"
  /\ UNCHANGED <<handshake, registration, p_sendable, ready_to_go, outside,
                 history, self_id, owner_set, thread, writer, port, tsender,
                 aborted>>

\* Port::Begin: _started is tested and set under list_mutex ...
Begin ==
  /\ owner = "begin"
  /\ started' = TRUE
  /\ owner' = IF started THEN "await_port" ELSE "spawn"
  /\ UNCHANGED <<handshake, name_set, asleep, sending, outside, history,
                 self_id, owner_set, thread, writer, port, tsender, aborted>>

\* ... and YARPBareThread::Begin starts the thread.
Spawn ==
  /\ owner = "spawn"
  /\ IF MayBegin("port")
     THEN /\ thread' = Begun("port")
          /\ port' = "begun"
          /\ owner' = "await_port"
          /\ UNCHANGED aborted
     ELSE /\ aborted' = "begin"
          /\ UNCHANGED <<thread, port, owner>>
  /\ UNCHANGED <<handshake, registration, sending, outside, history, self_id,
                 owner_set, writer, tsender>>

\* The second okay_to_send.Wait () of SetName, and a version without it.
NoWait == TRUE

PortAnswered == okay_to_send > 0

\* name_set is read between this wait and the post.
RegisterResult ==
  /\ owner = "await_port" /\ PortAnswered
  /\ result' = IF name_set THEN "registered" ELSE "failed"
  /\ owner' = "idle"
  /\ UNCHANGED <<handshake, registration, sending, outside, calls, writes,
                 self_id, owner_set, thread, writer, port, tsender, aborted>>

-----------------------------------------------------------------------------
(* The owner: YARPPort::Unregister, Port::End, Port::SaySelfEnd *)

MayUnregister == result = "failed" => "abandon" \in Calls

\* _started is tested and reset under list_mutex.
Unregister ==
  /\ owner = "idle" /\ MayUnregister /\ calls < MaxCalls
  /\ calls' = calls + 1
  /\ started' = FALSE
  /\ owner' = IF started THEN "locate" ELSE "idle"
  /\ UNCHANGED <<handshake, name_set, asleep, sending, outside, result, writes,
                 self_id, owner_set, thread, writer, port, tsender, aborted>>

\* Say and SaySelfEnd: LocateName, CreateOutputEndpoint, ConnectEndpoints. A
\* name nobody has, or that nobody listens to, leaves an invalid address.
Reachable == registered /\ listening

Locate(here, next) ==
  /\ owner = here
  /\ \/ Reachable /\ self_id' = "valid"
     \/ (~Reachable \/ "locate" \in Failures) /\ self_id' = "invalid"
  /\ owner' = next
  /\ UNCHANGED <<handshake, registration, sending, outside, history, owner_set,
                 thread, writer, port, tsender, aborted>>

\* The message is sent only to a valid address.
SayEnd ==
  /\ owner = "say_end"
  /\ inbox' = IF self_id = "valid" /\ listening THEN inbox + 1 ELSE inbox
  /\ owner' = "await_message"
  /\ UNCHANGED <<handshake, registration, sending, registered, listening,
                 history, self_id, owner_set, thread, writer, port, tsender,
                 aborted>>

\* complete_msg_thread.Wait (); the endpoint is closed and the address deleted.
MessageReceived ==
  /\ owner = "await_message" /\ complete_msg_thread
  /\ complete_msg_thread' = FALSE
  /\ self_id' = "null"
  /\ owner' = "signal"
  /\ UNCHANGED <<complete_terminate, registration, sending, outside, history,
                 owner_set, thread, writer, port, tsender, aborted>>

SignalTerminate ==
  /\ owner = "signal"
  /\ complete_terminate' = TRUE
  /\ owner' = "join"
  /\ UNCHANGED <<complete_msg_thread, registration, sending, outside, history,
                 self_id, owner_set, thread, writer, port, tsender, aborted>>

JoinPort ==
  /\ owner = "join" /\ Returned(port)
  /\ thread' = JoinedThread("port")
  /\ port' = "none"
  /\ result' = "unregistered"
  /\ owner' = "idle"
  /\ UNCHANGED <<handshake, registration, sending, outside, calls, writes,
                 self_id, owner_set, writer, tsender, aborted>>

-----------------------------------------------------------------------------
(* The owner: Port::Deactivate *)

Deactivate ==
  /\ owner = "idle" /\ "deactivate" \in Calls
  /\ result = "registered" /\ calls < MaxCalls
  /\ calls' = calls + 1
  /\ owner' = "take_for_good"
  /\ UNCHANGED <<handshake, registration, sending, outside, result, writes,
                 self_id, owner_set, thread, writer, port, tsender, aborted>>

\* okay_to_send.Wait (), which nobody gives back.
TakeForGood ==
  /\ owner = "take_for_good" /\ okay_to_send > 0
  /\ okay_to_send' = okay_to_send - 1
  /\ owner' = "locate_say"
  /\ UNCHANGED <<handshake, registration, p_sendable, ready_to_go, outside,
                 history, self_id, owner_set, thread, writer, port, tsender,
                 aborted>>

\* Say: the message, then Close and DeleteName.
SayDetachAll ==
  /\ owner = "say"
  /\ inbox' = IF self_id = "valid" /\ listening THEN inbox + 1 ELSE inbox
  /\ self_id' = "null"
  /\ owner' = "idle"
  /\ UNCHANGED <<handshake, registration, sending, registered, listening,
                 history, owner_set, thread, writer, port, tsender, aborted>>

Owner ==
  \/ TakeToken \/ Begin \/ Spawn \/ RegisterResult
  \/ Locate("locate", "say_end") \/ SayEnd \/ MessageReceived
  \/ SignalTerminate \/ JoinPort
  \/ TakeForGood \/ Locate("locate_say", "say") \/ SayDetachAll

-----------------------------------------------------------------------------
(* The writer: Port::Share *)

Write ==
  /\ writer = "idle" /\ writes < MaxWrites
  /\ result = "registered" \/ "early" \in Calls
  /\ writes' = writes + 1
  /\ writer' = "share"
  /\ UNCHANGED <<handshake, registration, sending, outside, result, calls,
                 self_id, owner_set, thread, owner, port, tsender, aborted>>

Share ==
  /\ writer = "share" /\ okay_to_send > 0
  /\ okay_to_send' = okay_to_send - 1
  /\ p_sendable' = TRUE
  /\ writer' = "pulse"
  /\ UNCHANGED <<handshake, registration, ready_to_go, outside, history,
                 self_id, owner_set, thread, owner, port, tsender, aborted>>

PulseGo ==
  /\ writer = "pulse"
  /\ ready_to_go' = ready_to_go + 1
  /\ writer' = "idle"
  /\ UNCHANGED <<handshake, registration, okay_to_send, p_sendable, outside,
                 history, self_id, owner_set, thread, owner, port, tsender,
                 aborted>>

-----------------------------------------------------------------------------
(* The port thread: Port::Body *)

StartBody ==
  /\ port = "begun"
  /\ name_set' = TRUE
  /\ port' = "registering"
  /\ UNCHANGED <<handshake, started, asleep, sending, outside, history,
                 self_id, owner_set, thread, owner, writer, tsender, aborted>>

\* An answer that forgets the post.
AnswerSilently ==
  /\ asleep' = FALSE
  /\ UNCHANGED okay_to_send

\* if (asleep) { asleep = 0; okay_to_send.Post (); }
Answer ==
  /\ asleep' = FALSE
  /\ okay_to_send' = IF asleep THEN okay_to_send + 1 ELSE okay_to_send

\* RegisterName fails: the owner is answered ...
RegisterFails ==
  /\ port = "registering" /\ "register" \in Failures
  /\ name_set' = FALSE
  /\ Answer
  /\ port' = "failing"
  /\ UNCHANGED <<handshake, started, p_sendable, ready_to_go, outside, history,
                 self_id, owner_set, thread, owner, writer, tsender, aborted>>

\* ... before _started is reset; running stays true.
BodyFails ==
  /\ port = "failing"
  /\ started' = FALSE
  /\ port' = "returned"
  /\ UNCHANGED <<handshake, name_set, asleep, sending, outside, history,
                 self_id, owner_set, thread, owner, writer, tsender, aborted>>

RegisterName ==
  /\ port = "registering"
  /\ registered' = TRUE
  /\ port' = "endpoint"
  /\ UNCHANGED <<handshake, registration, sending, listening, inbox, history,
                 self_id, owner_set, thread, owner, writer, tsender, aborted>>

\* CreateInputEndpoint and tsender.Begin ().
StartTsender ==
  /\ port = "endpoint"
  /\ listening' = TRUE
  /\ IF MayBegin("tsender")
     THEN /\ thread' = Begun("tsender")
          /\ tsender' = "head"
          /\ port' = "answer"
          /\ UNCHANGED aborted
     ELSE /\ aborted' = "begin"
          /\ UNCHANGED <<thread, tsender, port>>
  /\ UNCHANGED <<handshake, registration, sending, registered, inbox, history,
                 self_id, owner_set, owner, writer>>

AnswerOwner ==
  /\ port = "answer"
  /\ Answer
  /\ port' = "loop"
  /\ UNCHANGED <<handshake, started, name_set, p_sendable, ready_to_go,
                 outside, history, self_id, owner_set, thread, owner, writer,
                 tsender, aborted>>

\* A body that forgets the signal, and complete_msg_thread.Signal ().
NoSignalReceived == UNCHANGED complete_msg_thread

SignalReceived == complete_msg_thread' = TRUE

ReceiveDetachAll ==
  /\ port = "loop" /\ thread["port"].running
  /\ inbox > 0
  /\ inbox' = inbox - 1
  /\ SignalReceived
  /\ port' = "await_terminate"
  /\ UNCHANGED <<complete_terminate, registration, sending, registered,
                 listening, history, self_id, owner_set, thread, owner, writer,
                 tsender, aborted>>

\* complete_terminate.Wait (); AskForEnd ();
Terminate ==
  /\ port = "await_terminate" /\ complete_terminate
  /\ complete_terminate' = FALSE
  /\ thread' = AskedForEnd("port")
  /\ port' = "loop"
  /\ UNCHANGED <<complete_msg_thread, registration, sending, outside, history,
                 self_id, owner_set, owner, writer, tsender, aborted>>

EndTsender ==
  /\ port = "loop" /\ ~thread["port"].running
  /\ thread' = AskedForEnd("tsender")
  /\ port' = "pulse"
  /\ UNCHANGED <<handshake, registration, sending, outside, history, self_id,
                 owner_set, owner, writer, tsender, aborted>>

PulseTsender ==
  /\ port = "pulse"
  /\ ready_to_go' = ready_to_go + 1
  /\ port' = "join"
  /\ UNCHANGED <<handshake, registration, okay_to_send, p_sendable, outside,
                 history, self_id, owner_set, thread, owner, writer, tsender,
                 aborted>>

JoinTsender ==
  /\ port = "join" /\ Returned(tsender)
  /\ thread' = JoinedThread("tsender")
  /\ tsender' = "none"
  /\ port' = "close"
  /\ UNCHANGED <<handshake, registration, sending, outside, history, self_id,
                 owner_set, owner, writer, aborted>>

\* Close of __All__: messages on their way are lost.
CloseAll ==
  /\ port = "close"
  /\ listening' = FALSE /\ inbox' = 0
  /\ port' = "unregister"
  /\ UNCHANGED <<handshake, registration, sending, registered, history,
                 self_id, owner_set, thread, owner, writer, tsender, aborted>>

UnregisterName ==
  /\ port = "unregister"
  /\ registered' = FALSE
  /\ port' = "returned"
  /\ UNCHANGED <<handshake, registration, sending, listening, inbox, history,
                 self_id, owner_set, thread, owner, writer, tsender, aborted>>

PortThread ==
  \/ StartBody \/ RegisterFails \/ BodyFails \/ RegisterName \/ StartTsender
  \/ AnswerOwner \/ ReceiveDetachAll \/ Terminate \/ EndTsender \/ PulseTsender
  \/ JoinTsender \/ CloseAll \/ UnregisterName

-----------------------------------------------------------------------------
(* The sender thread: _strange_select::Body *)

\* while (!IsTerminated ()); after the loop _owner = NULL.
TsenderHead ==
  /\ tsender = "head"
  /\ IF thread["tsender"].running
     THEN tsender' = "wait" /\ UNCHANGED owner_set
     ELSE tsender' = "returned" /\ owner_set' = FALSE
  /\ UNCHANGED <<handshake, registration, sending, outside, history, self_id,
                 thread, owner, writer, port, aborted>>

TsenderWait ==
  /\ tsender = "wait" /\ ready_to_go > 0
  /\ ready_to_go' = ready_to_go - 1
  /\ tsender' = "woken"
  /\ UNCHANGED <<handshake, registration, okay_to_send, p_sendable, outside,
                 history, self_id, owner_set, thread, owner, writer, port,
                 aborted>>

\* A sender thread that gives the token back when it is woken to end.
TsenderWokenPosts ==
  /\ tsender = "woken"
  /\ IF thread["tsender"].running
     THEN tsender' = "distribute" /\ UNCHANGED okay_to_send
     ELSE tsender' = "head" /\ okay_to_send' = okay_to_send + 1
  /\ UNCHANGED <<handshake, registration, p_sendable, ready_to_go, outside,
                 history, self_id, owner_set, thread, owner, writer, port,
                 aborted>>

\* IsTerminated () again, or on to _owner->list_mutex.
TsenderWoken ==
  /\ tsender = "woken"
  /\ IF ~thread["tsender"].running
     THEN tsender' = "head" /\ UNCHANGED aborted
     ELSE IF owner_set
          THEN tsender' = "distribute" /\ UNCHANGED aborted
          ELSE aborted' = "owner" /\ UNCHANGED tsender
  /\ UNCHANGED <<handshake, registration, sending, outside, history, self_id,
                 owner_set, thread, owner, writer, port>>

\* p_sendable.Reset (); ... okay_to_send.Post ();
Distribute ==
  /\ tsender = "distribute"
  /\ p_sendable' = FALSE
  /\ okay_to_send' = okay_to_send + 1
  /\ tsender' = "head"
  /\ UNCHANGED <<handshake, registration, ready_to_go, outside, history,
                 self_id, owner_set, thread, owner, writer, port, aborted>>

Tsender == TsenderHead \/ TsenderWait \/ TsenderWoken \/ Distribute

-----------------------------------------------------------------------------
CallOwner == Register \/ Unregister \/ Deactivate

Next ==
  /\ aborted = "no"
  /\ CallOwner \/ Owner \/ Write \/ Share \/ PulseGo \/ PortThread \/ Tsender

Spec == Init /\ [][Next]_vars

\* Every thread goes on when it can; calls need not be made.
Fairness ==
  /\ WF_vars(aborted = "no" /\ Owner)
  /\ WF_vars(aborted = "no" /\ (Share \/ PulseGo))
  /\ WF_vars(aborted = "no" /\ PortThread)
  /\ WF_vars(aborted = "no" /\ Tsender)

FairSpec == Spec /\ Fairness

-----------------------------------------------------------------------------
(* Properties *)

TypeOK ==
  /\ started \in BOOLEAN /\ name_set \in BOOLEAN /\ asleep \in BOOLEAN
  /\ okay_to_send \in {0, 1} /\ p_sendable \in BOOLEAN
  /\ complete_msg_thread \in BOOLEAN /\ complete_terminate \in BOOLEAN
  /\ self_id \in {"null", "valid", "invalid"}
  /\ ready_to_go \in Nat /\ owner_set \in BOOLEAN
  /\ thread \in [{"port", "tsender"} ->
       [running : BOOLEAN, asked : BOOLEAN, handle : BOOLEAN]]
  /\ registered \in BOOLEAN /\ listening \in BOOLEAN /\ inbox \in Nat
  /\ owner \in {"idle", "take_token", "begin", "spawn", "await_port", "locate",
       "say_end", "await_message", "signal", "join", "take_for_good",
       "locate_say", "say"}
  /\ writer \in {"idle", "share", "pulse"}
  /\ port \in {"none", "begun", "registering", "failing", "endpoint", "answer",
       "loop", "await_terminate", "pulse", "join", "close", "unregister",
       "returned"}
  /\ tsender \in {"none", "head", "wait", "woken", "distribute", "returned"}
  /\ aborted \in {"no", "begin", "owner"}
  /\ result \in {"new", "registered", "failed", "unregistered"}
  /\ calls \in Nat /\ writes \in Nat

\* The token of okay_to_send, which registration and sending share, is free
\* only when no message waits for the sender thread: a Write never replaces a
\* message that was not handed out (Port.cpp, Share and SetName).
TokenMeansSent == okay_to_send > 0 => ~p_sendable /\ tsender # "distribute"

\* What the owner was told is so: after a successful Register the name is
\* known and somebody listens to it; after a failed one, or after Unregister,
\* neither the name, nor the endpoint, nor the sender thread is left.
ResultTrue ==
  owner = "idle" =>
    CASE result = "registered" /\ started -> registered /\ listening
      [] result \in {"failed", "unregistered"} ->
           ~registered /\ ~listening /\ tsender = "none"
      [] OTHER -> TRUE

\* The assertions of YARPBareThread::Begin (YARPThread.cpp).
BeginAssertion == aborted # "begin"

Registering == {"take_token", "begin", "spawn", "await_port"}
Unregistering == {"locate", "say_end", "await_message", "signal", "join"}

\* Nobody waits for an answer that no one will give: Register's token is free or
\* the port thread will post it; the thread that Unregister sent its message to
\* reads it or has said that it did, and ends; the sender thread that is joined
\* has been signalled. (The token that Deactivate takes never comes back.)
CallsAreAnswered ==
  /\ owner = "take_token" => okay_to_send > 0
  /\ owner = "await_port" =>
       \/ okay_to_send > 0
       \/ asleep /\ port \in {"begun", "registering", "endpoint", "answer"}
  /\ owner = "await_message" =>
       complete_msg_thread \/ (port = "loop" /\ inbox > 0 /\ thread["port"].running)
  /\ owner = "join" =>
       \/ port = "await_terminate" /\ complete_terminate
       \/ port \notin {"none", "await_terminate"} /\ ~thread["port"].running
  /\ port = "join" =>
       tsender \in {"head", "woken", "distribute", "returned"} \/ ready_to_go > 0

\* Register returns, whether the name server agrees or not.
RegisterReturns == owner \in Registering ~> owner = "idle"

\* Unregister returns, whatever was written, and after a Deactivate too.
UnregisterReturns == owner \in Unregistering ~> owner = "idle"

-----------------------------------------------------------------------------
(* The inductive invariant of the proofs (module PortLifeProofs) *)

\* Places of the port thread: the port is open; it is on its way there; it is
\* on its way out.
Up == {"answer", "loop", "await_terminate", "pulse", "join"}
Starting == {"begun", "registering", "endpoint", "answer"}
Ending == {"pulse", "join", "close", "unregister", "returned"}

\* The token is in the semaphore, with the registration, with a Deactivate, or
\* with a message until it is distributed.
Baton ==
  /\ okay_to_send = 1 => ~p_sendable
  /\ tsender = "distribute" => p_sendable /\ writer # "pulse"
  /\ writer = "pulse" => p_sendable
  /\ owner \in {"begin", "spawn"} => okay_to_send = 0
  /\ port \in Starting => asleep
  /\ owner = "await_port" /\ asleep => okay_to_send = 0

\* As long as the sender thread runs it is signalled once for each message, and
\* only after the message was put in its place.
Pulses ==
  thread["tsender"].running =>
    /\ ready_to_go > 0 => /\ ready_to_go = 1
                          /\ p_sendable /\ writer # "pulse"
                          /\ tsender \notin {"woken", "distribute"}
    /\ tsender = "woken" => p_sendable /\ writer # "pulse"

\* Where the port thread may be, by what the owner is doing and was told.
Phases ==
  /\ result = "new" => owner \in Registering \union {"idle"}
  /\ result = "new" /\ owner # "await_port" =>
       /\ port = "none" /\ thread["port"] = NoThread
       /\ owner # "spawn" => ~started
  /\ owner \in Registering => result = "new"
  /\ owner \in Unregistering => ~started
  /\ owner = "await_port" =>
       \/ port \in {"failing", "returned"} /\ ~name_set
       \/ port \in Starting \union {"loop"} /\ thread["port"].running
  /\ owner = "await_port" /\ ~asleep => port \in {"loop", "failing", "returned"}
  /\ port \in {"registering", "endpoint", "answer"} => name_set
  /\ owner = "await_port" /\ port = "loop" => name_set
  /\ result \in {"new", "failed"} =>
       writer = "idle" /\ ~p_sendable /\ ready_to_go = 0 /\ inbox = 0
  /\ result = "failed" => owner = "idle" /\ port \in {"failing", "returned"}
  /\ result = "unregistered" => owner = "idle" /\ port = "none" /\ ~started
  /\ result = "registered" =>
       /\ port \in {"loop", "await_terminate"} \union Ending
       /\ owner # "join" => /\ port \in {"loop", "await_terminate"}
                            /\ thread["port"].running
       /\ port \in Ending => ~thread["port"].running
  /\ complete_terminate => owner = "join" /\ thread["port"].running

\* What each place of the port thread says about the outside and about the
\* sender thread.
Stages ==
  /\ registered <=> port \in Up \union {"endpoint", "close", "unregister"}
  /\ listening <=> port \in Up \union {"close"}
  /\ tsender # "none" => port \in Up
  /\ thread["tsender"].running =>
       port \in {"answer", "loop", "await_terminate"}
  /\ result = "new" /\ port \notin Up => thread["tsender"] = NoThread
  /\ tsender \in {"head", "wait", "woken", "distribute"} => owner_set
  /\ result = "new" /\ port \notin Up => owner_set

\* The answer to the owner and to the port thread, and where it is until they
\* take it.
Answers ==
  /\ result = "new" /\ owner \in {"idle", "take_token"} => okay_to_send = 1
  /\ owner = "await_port" => IF asleep THEN port \in Starting ELSE okay_to_send = 1
  /\ owner \in {"say_end", "await_message"} => self_id = "valid"
  /\ owner = "await_message" => port = "await_terminate" \/ inbox > 0
  /\ port = "await_terminate" /\ owner \notin {"signal", "join"} => complete_msg_thread
  /\ complete_msg_thread => port = "await_terminate" /\ owner \notin {"signal", "join"}
  /\ owner = "signal" => port = "await_terminate"
  /\ owner = "join" =>
       IF thread["port"].running THEN port = "await_terminate" /\ complete_terminate
                                 ELSE port \in {"loop"} \union Ending
  /\ port \in Up => tsender # "none"
  /\ port = "join" /\ tsender = "wait" => ready_to_go > 0

LifeInv ==
  TypeOK /\ aborted = "no" /\ Baton /\ Pulses /\ Phases /\ Stages

=============================================================================
