---------------------------- MODULE SendablePool ----------------------------
(***************************************************************************)
(* The buffers of an output port (libYARP_OS): a YARPSendable holds what   *)
(* the user writes; counted pointers to it travel from the user (p_s) to   *)
(* the port (p_sendable), to each OutputTarget (p_sendable) and its thread *)
(* (p_local_sendable). When the last pointer is gone the sendable goes     *)
(* back to the list of the port, from which Content () takes the next one. *)
(*                                                                         *)
(* Everything that moves a pointer is here; why a connection fails or is   *)
(* removed is in PortOutput. The last entry of the list is the one taken;  *)
(* the order of the list is left open.                                     *)
(***************************************************************************)
EXTENDS Naturals, FiniteSets

CONSTANTS
  Targets,       \* labels of connections
  WaitModes,     \* the values of 'wait' that Write is called with
  MaxSendables   \* bound: sendables ever allocated

ASSUME PoolAssumption ==
  /\ IsFiniteSet(Targets)
  /\ {"user", "tsender", "port", "none"} \intersect Targets = {}
  /\ WaitModes \subseteq BOOLEAN
  /\ MaxSendables \in Nat

NULL == 0
Sendables == 1..MaxSendables
Threads == {"user", "tsender", "port"} \union Targets

\* The counted pointers.
Pointers == {<<"p_s", "port">>, <<"p_sendable", "port">>}
            \union ({"p_sendable", "p_local_sendable"} \X Targets)

Content_ == <<"p_s", "port">>
Shared == <<"p_sendable", "port">>
Handed(t) == <<"p_sendable", t>>
Local(t) == <<"p_local_sendable", t>>

VARIABLES
  ptr,           \* what each counted pointer points to
  ref_count,     \* of each sendable
  allocated,     \* how many sendables there are
  in_list,       \* the entries the list has for each sendable
  releasing,     \* the sendable a thread has dropped the last pointer to
  \* the user
  user, got,
  require_complete_send,       \* of the last Write
  okay_to_send, ready_to_go,   \* semaphores of the port and the sender thread
  \* the sender thread, which holds list_mutex and out_mutex in its walk
  tsender, todo, current,
  \* the connections: thread, mutex, flag, semaphores
  connection, mutex, sending, space_available, something_to_send

pool == <<ptr, ref_count, releasing>>
list == <<allocated, in_list>>
userVars == <<user, got, require_complete_send>>
walk == <<tsender, todo, current>>
connections == <<connection, mutex, sending, space_available,
                 something_to_send>>
vars == <<pool, list, userVars, okay_to_send, ready_to_go, walk, connections>>

Init ==
  /\ ptr = [p \in Pointers |-> NULL]
  /\ ref_count = [s \in Sendables |-> 0]
  /\ allocated = 0 /\ in_list = [s \in Sendables |-> 0]
  /\ releasing = [th \in Threads |-> NULL]
  /\ user = "idle" /\ got = NULL /\ require_complete_send = FALSE
  /\ okay_to_send = 1 /\ ready_to_go = 0
  /\ tsender = "wait" /\ todo = {} /\ current = "none"
  /\ connection = [t \in Targets |-> "none"]
  /\ mutex = [t \in Targets |-> "free"]
  /\ sending = [t \in Targets |-> FALSE]
  /\ space_available = [t \in Targets |-> 0]
  /\ something_to_send = [t \in Targets |-> 0]

-----------------------------------------------------------------------------
(* CountedPtr and RefCounted *)

\* The counts after a Set that forgets the old pointer, ...
OnlyAdded(p, s) ==
  [x \in Sendables |-> IF x = s THEN ref_count[x] + 1 ELSE ref_count[x]]

\* ... and after pointer p was dropped and s, if it is not null, was added.
Counted(p, s) ==
  [x \in Sendables |->
     LET added == IF x = s THEN ref_count[x] + 1 ELSE ref_count[x]
     IN  IF x = ptr[p] THEN added - 1 ELSE added]

\* A RemoveRef that tests the count before it is decremented.
TestedBefore(p) ==
  IF ptr[p] # NULL /\ ref_count[ptr[p]] = 0 THEN ptr[p] ELSE NULL

\* The sendable whose count RemoveRef brings to zero, for Destroy.
Dropped(p) ==
  IF ptr[p] # NULL /\ ref_count[ptr[p]] = 1 THEN ptr[p] ELSE NULL

\* CountedPtr::Set (s), or Reset () for s = NULL, by a thread that has nothing
\* left to take back. Nobody else looks at the pointer meanwhile.
Assign(th, p, s) ==
  /\ releasing[th] = NULL
  /\ ref_count' = Counted(p, s)
  /\ ptr' = [ptr EXCEPT ![p] = s]
  /\ releasing' = [releasing EXCEPT ![th] = Dropped(p)]

\* Destroy, after the mutex was given up: TakeBack, PutSendable.
TakeBack(th) ==
  /\ releasing[th] # NULL
  /\ in_list' = [in_list EXCEPT ![releasing[th]] = in_list[releasing[th]] + 1]
  /\ releasing' = [releasing EXCEPT ![th] = NULL]
  /\ UNCHANGED <<ptr, ref_count, allocated, userVars, okay_to_send,
                 ready_to_go, walk, connections>>

-----------------------------------------------------------------------------
(* The user: YARPOutputPort::Content, Write *)

\* A GetSendable that leaves the entry in the list.
Peek(s) ==
  /\ in_list[s] > 0
  /\ UNCHANGED <<allocated, in_list>>

\* GetSendable takes an entry out of the list ...
Reuse(s) ==
  /\ in_list[s] > 0
  /\ in_list' = [in_list EXCEPT ![s] = in_list[s] - 1]
  /\ UNCHANGED allocated

\* (a Get that does not look at the list)
AllocateAlways(s) ==
  /\ s = allocated + 1
  /\ allocated' = s
  /\ UNCHANGED in_list

\* ... and Get allocates one only when the list is empty.
Allocate(s) ==
  /\ \A x \in Sendables : in_list[x] = 0
  /\ s = allocated + 1
  /\ allocated' = s
  /\ UNCHANGED in_list

Content ==
  /\ user = "idle" /\ releasing["user"] = NULL
  /\ \E s \in Sendables :
       /\ Reuse(s) \/ Allocate(s)
       /\ ref_count' = [ref_count EXCEPT ![s] = 0]
       /\ got' = s
  /\ user' = "got"
  /\ UNCHANGED <<ptr, releasing, require_complete_send, okay_to_send,
                 ready_to_go, walk, connections>>

SetContent ==
  /\ user = "got"
  /\ Assign("user", Content_, got)
  /\ got' = NULL
  /\ user' = "content"
  /\ UNCHANGED <<list, require_complete_send, okay_to_send, ready_to_go, walk,
                 connections>>

\* The user has filled in the content. RequireCompleteSend (wait), although the
\* sender thread may still be at work on the last message.
Write ==
  /\ user = "content"
  /\ require_complete_send' \in WaitModes
  /\ user' = "ask"
  /\ UNCHANGED <<pool, list, got, okay_to_send, ready_to_go, walk, connections>>

\* Port::Share: okay_to_send.Wait () ...
WaitOkay ==
  /\ user = "ask" /\ okay_to_send > 0
  /\ okay_to_send' = okay_to_send - 1
  /\ user' = "share"
  /\ UNCHANGED <<pool, list, got, require_complete_send, ready_to_go, walk,
                 connections>>

\* The sender thread has list_mutex and out_mutex.
Walking == tsender \in {"walk", "space", "share", "hand"}

\* ... p_sendable.Set under out_mutex ...
Share ==
  /\ user = "share" /\ ~Walking
  /\ Assign("user", Shared, ptr[Content_])
  /\ user' = "pulse"
  /\ UNCHANGED <<list, got, require_complete_send, okay_to_send, ready_to_go,
                 walk, connections>>

\* ... and pulseGo.
PulseGo ==
  /\ user = "pulse"
  /\ ready_to_go' = ready_to_go + 1
  /\ user' = "reset"
  /\ UNCHANGED <<pool, list, got, require_complete_send, okay_to_send, walk,
                 connections>>

\* Write forgets the content; a version that keeps it, for the next message.
KeepContent ==
  /\ user = "reset"
  /\ user' = "content"
  /\ UNCHANGED <<pool, list, got, require_complete_send, okay_to_send,
                 ready_to_go, walk, connections>>

ResetContent ==
  /\ user = "reset"
  /\ Assign("user", Content_, NULL)
  /\ user' = "idle"
  /\ UNCHANGED <<list, got, require_complete_send, okay_to_send, ready_to_go,
                 walk, connections>>

-----------------------------------------------------------------------------
(* The sender thread: _strange_select::Body *)

\* The walk needs list_mutex, which whoever deletes or makes a connection has
\* too, and out_mutex, which Share takes within one action.
ListFree == ~Walking /\ releasing["port"] = NULL

StartWalk ==
  /\ tsender = "wait" /\ ready_to_go > 0 /\ ListFree
  /\ ready_to_go' = ready_to_go - 1
  /\ todo' = {t \in Targets : connection[t] # "none"}
  /\ tsender' = "walk"
  /\ UNCHANGED <<pool, list, userVars, okay_to_send, current, connections>>

\* The next connection. With require_complete_send ...
Choose(t) ==
  /\ tsender = "walk" /\ t \in todo
  /\ current' = t /\ todo' = todo \ {t}
  /\ tsender' = IF require_complete_send THEN "space" ELSE "share"
  /\ UNCHANGED <<pool, list, userVars, okay_to_send, ready_to_go, connections>>

\* ... its space_available is waited for and posted again, whether its thread is
\* still sending, has nothing to do or has ended.
AwaitSpace(t) ==
  /\ tsender = "space" /\ current = t /\ space_available[t] > 0
  /\ tsender' = "share"
  /\ UNCHANGED <<pool, list, userVars, okay_to_send, ready_to_go, todo, current,
                 connections>>

\* OutputTarget::Share: nothing for a connection that is still sending ...
Skip(t) ==
  /\ tsender = "share" /\ current = t
  /\ mutex[t] = "free" /\ sending[t]
  /\ tsender' = "walk" /\ current' = "none"
  /\ UNCHANGED <<pool, list, userVars, okay_to_send, ready_to_go, todo,
                 connections>>

\* ... or wait for its thread, with its mutex, ...
Enter(t) ==
  /\ tsender = "share" /\ current = t
  /\ mutex[t] = "free" /\ ~sending[t]
  /\ mutex' = [mutex EXCEPT ![t] = "tsender"]
  /\ tsender' = "hand"
  /\ UNCHANGED <<pool, list, userVars, okay_to_send, ready_to_go, todo, current,
                 connection, sending, space_available, something_to_send>>

\* ... and hand it the message.
Hand(t) ==
  /\ tsender = "hand" /\ current = t
  /\ space_available[t] > 0
  /\ Assign("tsender", Handed(t), ptr[Shared])
  /\ space_available' = [space_available EXCEPT ![t] = @ - 1]
  /\ something_to_send' = [something_to_send EXCEPT ![t] = @ + 1]
  /\ sending' = [sending EXCEPT ![t] = TRUE]
  /\ mutex' = [mutex EXCEPT ![t] = "free"]
  /\ tsender' = "walk" /\ current' = "none"
  /\ UNCHANGED <<list, userVars, okay_to_send, ready_to_go, todo, connection>>

\* p_sendable.Reset (), still under the mutexes ...
EndWalk ==
  /\ tsender = "walk" /\ todo = {}
  /\ Assign("tsender", Shared, NULL)
  /\ tsender' = "release"
  /\ UNCHANGED <<list, userVars, okay_to_send, ready_to_go, todo, current,
                 connections>>

\* ... and okay_to_send.Post ().
OkayToSend ==
  /\ tsender = "release" /\ releasing["tsender"] = NULL
  /\ okay_to_send' = okay_to_send + 1
  /\ tsender' = "wait"
  /\ UNCHANGED <<pool, list, userVars, ready_to_go, todo, current,
                 connections>>

-----------------------------------------------------------------------------
(* A connection's thread: OutputTarget::Body *)

\* something_to_send.Wait (), then the message under the mutex:
\* p_local_sendable.Set (p_sendable) ...
Take(t) ==
  /\ connection[t] = "wait" /\ something_to_send[t] > 0 /\ mutex[t] = "free"
  /\ Assign(t, Local(t), ptr[Handed(t)])
  /\ something_to_send' = [something_to_send EXCEPT ![t] = @ - 1]
  /\ mutex' = [mutex EXCEPT ![t] = "thread"]
  /\ connection' = [connection EXCEPT ![t] = "taken"]
  /\ UNCHANGED <<list, userVars, okay_to_send, ready_to_go, walk, sending,
                 space_available>>

\* ... and p_sendable.Reset ().
Taken(t) ==
  /\ connection[t] = "taken"
  /\ Assign(t, Handed(t), NULL)
  /\ mutex' = [mutex EXCEPT ![t] = "free"]
  /\ connection' = [connection EXCEPT ![t] = "send"]
  /\ UNCHANGED <<list, userVars, okay_to_send, ready_to_go, walk, sending,
                 space_available, something_to_send>>

\* Write (sender) and sender.End () have returned.
Sent(t) ==
  /\ connection[t] = "send" /\ mutex[t] = "free"
  /\ releasing[t] = NULL
  /\ sending' = [sending EXCEPT ![t] = FALSE]
  /\ connection' = [connection EXCEPT ![t] = "sent"]
  /\ UNCHANGED <<pool, list, userVars, okay_to_send, ready_to_go, walk, mutex,
                 space_available, something_to_send>>

\* p_local_sendable.Reset ().
DropLocal(t) ==
  /\ connection[t] = "sent"
  /\ Assign(t, Local(t), NULL)
  /\ connection' = [connection EXCEPT ![t] = "done"]
  /\ UNCHANGED <<list, userVars, okay_to_send, ready_to_go, walk, mutex,
                 sending, space_available, something_to_send>>

PostSpace(t) ==
  /\ connection[t] = "done" /\ releasing[t] = NULL
  /\ space_available' = [space_available EXCEPT ![t] = @ + 1]
  /\ connection' = [connection EXCEPT ![t] = "wait"]
  /\ UNCHANGED <<pool, list, userVars, okay_to_send, ready_to_go, walk, mutex,
                 sending, something_to_send>>

-----------------------------------------------------------------------------
(* Connections come and go *)

\* new OutputTarget, by the port thread.
Attach(t) ==
  /\ connection[t] = "none" /\ ListFree
  /\ connection' = [connection EXCEPT ![t] = "wait"]
  /\ sending' = [sending EXCEPT ![t] = FALSE]
  /\ space_available' = [space_available EXCEPT ![t] = 1]
  /\ something_to_send' = [something_to_send EXCEPT ![t] = 0]
  /\ UNCHANGED <<pool, list, userVars, okay_to_send, ready_to_go, walk, mutex>>

\* The thread ends: it was asked to, or could not send. A message that it was
\* handed and has not taken stays where it is ...
Stop(t) ==
  /\ connection[t] = "wait" /\ mutex[t] = "free"
  /\ connection' = [connection EXCEPT ![t] = "dead"]
  /\ UNCHANGED <<pool, list, userVars, okay_to_send, ready_to_go, walk, mutex,
                 sending, space_available, something_to_send>>

\* ... until the OutputTarget is deleted, and its pointer with it.
Delete(t) ==
  /\ connection[t] = "dead" /\ ListFree
  /\ Assign("port", Handed(t), NULL)
  /\ connection' = [connection EXCEPT ![t] = "none"]
  /\ UNCHANGED <<list, userVars, okay_to_send, ready_to_go, walk, mutex,
                 sending, space_available, something_to_send>>

-----------------------------------------------------------------------------
UserThread ==
  SetContent \/ Write \/ WaitOkay \/ Share \/ PulseGo \/ ResetContent

SenderThread ==
  \/ StartWalk \/ EndWalk \/ OkayToSend
  \/ \E t \in Targets :
       Choose(t) \/ AwaitSpace(t) \/ Skip(t) \/ Enter(t) \/ Hand(t)

Connection(t) ==
  Take(t) \/ Taken(t) \/ Sent(t) \/ DropLocal(t) \/ PostSpace(t)

Next ==
  \/ Content \/ UserThread
  \/ SenderThread
  \/ \E t \in Targets : Connection(t) \/ Attach(t) \/ Stop(t) \/ Delete(t)
  \/ \E th \in Threads : TakeBack(th)

Spec == Init /\ [][Next]_vars

\* Threads go on and transmissions end. The user need not write, and nobody need
\* make or delete a connection.
Fairness ==
  /\ WF_vars(UserThread) /\ WF_vars(SenderThread)
  /\ \A t \in Targets : WF_vars(Connection(t))
  /\ \A th \in Threads : WF_vars(TakeBack(th))

FairSpec == Spec /\ Fairness

-----------------------------------------------------------------------------
(* Properties *)

TypeOK ==
  /\ ptr \in [Pointers -> {NULL} \union Sendables]
  /\ ref_count \in [Sendables -> Nat]
  /\ allocated \in 0..MaxSendables
  /\ in_list \in [Sendables -> Nat]
  /\ releasing \in [Threads -> {NULL} \union Sendables]
  /\ user \in {"idle", "got", "content", "ask", "share", "pulse", "reset"}
  /\ got \in {NULL} \union Sendables /\ require_complete_send \in BOOLEAN
  /\ okay_to_send \in Nat /\ ready_to_go \in Nat
  /\ tsender \in {"wait", "walk", "space", "share", "hand", "release"}
  /\ todo \subseteq Targets /\ current \in {"none"} \union Targets
  /\ connection \in [Targets ->
       {"none", "wait", "taken", "send", "sent", "done", "dead"}]
  /\ mutex \in [Targets -> {"free", "tsender", "thread"}]
  /\ sending \in [Targets -> BOOLEAN]
  /\ space_available \in [Targets -> Nat]
  /\ something_to_send \in [Targets -> Nat]

PointersTo(s) == {p \in Pointers : ptr[p] = s}

\* A sendable's count is the number of pointers to it, however threads set and
\* reset them (RefCounted, CountedPtr).
CountsPointers ==
  \A s \in Sendables : ref_count[s] = Cardinality(PointersTo(s))

Releasers(s) == {th \in Threads : releasing[th] = s}

\* Every allocated sendable is in use, or on its way to the user or the list, or
\* in the list, and only one of these and once: none is lost, none is given out
\* twice (Sendables::GetSendable, PutSendable).
OnePlace ==
  \A s \in Sendables :
    in_list[s] + Cardinality(Releasers(s)) + (IF got = s THEN 1 ELSE 0)
      + (IF PointersTo(s) # {} THEN 1 ELSE 0)
    = (IF s <= allocated THEN 1 ELSE 0)

\* While the user fills in the content, nobody else points to it (Content,
\* Write).
WriterOwnsContent ==
  user = "content" => PointersTo(ptr[Content_]) = {Content_}

\* The port never needs more sendables than the user, the port and each
\* connection can hold at one time.
PoolBounded == allocated <= Cardinality(Targets) + 2

\* A dead connection keeps the message it did not take until it is deleted, at
\* the next message or command.
HeldByDead(s) ==
  \E t \in Targets : connection[t] = "dead" /\ ptr[Handed(t)] = s

\* After Write (true) the sender thread may wait for a dead connection to take a
\* message: the port keeps the one that is to be sent, and the rest of the walk
\* never comes.
HeldByWalk(s) ==
  /\ tsender = "space" /\ ptr[Shared] = s
  /\ connection[current] = "dead" /\ space_available[current] = 0

\* When the user has stopped writing every sendable comes back to the list:
\* nothing is kept for connections that were busy, have failed or are gone but
\* what a dead one has not taken, and what the port keeps if its sender thread
\* waits for that one for ever.
EverythingReturns ==
  <>[](user = "idle") =>
    <>[](\A s \in Sendables : s <= allocated =>
           in_list[s] > 0 \/ HeldByDead(s) \/ HeldByWalk(s))

-----------------------------------------------------------------------------
(* What PoolBounded rests on (module SendablePoolProofs) *)

\* Write's permission is in okay_to_send, with the user, in ready_to_go or with
\* the sender thread.
BatonInv ==
  okay_to_send + (IF user \in {"share", "pulse"} THEN 1 ELSE 0) + ready_to_go
    + (IF tsender # "wait" THEN 1 ELSE 0) = 1

\* The port's pointer is set from Share to the end of the walk, and the sender
\* thread has something to take back only after it.
SharedInv ==
  /\ okay_to_send > 0 \/ user = "share" \/ tsender = "release"
       => ptr[Shared] = NULL
  /\ releasing["tsender"] # NULL => tsender = "release"
  /\ user \in {"idle", "got"} => ptr[Content_] = NULL

\* The walk is over connections that exist.
WalkInv ==
  /\ current # "none" <=> tsender \in {"space", "share", "hand"}
  /\ current # "none" => connection[current] # "none"
  /\ Walking => \A t \in todo : connection[t] # "none"

\* The sender thread has the connection's mutex.
Holding(t) == tsender = "hand" /\ current = t

\* A connection has one message at a time: handed to it and not taken, being
\* moved under its mutex, being sent, or dropped and on its way to the list.
LinkInv(t) ==
  /\ mutex[t] = "tsender" <=> Holding(t)
  /\ mutex[t] = "thread" <=> connection[t] = "taken"
  /\ connection[t] # "none" =>
       space_available[t] + something_to_send[t]
         + (IF connection[t] \in {"taken", "send", "sent", "done"}
            THEN 1 ELSE 0) = 1
  /\ ptr[Handed(t)] # NULL =>
       \/ connection[t] \in {"wait", "dead"} /\ something_to_send[t] = 1
       \/ connection[t] = "taken" /\ ptr[Local(t)] = ptr[Handed(t)]
  /\ ptr[Local(t)] # NULL => connection[t] \in {"taken", "send", "sent"}
  /\ releasing[t] # NULL => connection[t] = "done"

\* A deleted connection's message is on its way to the list before another
\* connection can be made in its place.
BoundInv ==
  /\ BatonInv /\ SharedInv /\ WalkInv
  /\ \A t \in Targets : LinkInv(t)
  /\ releasing["port"] # NULL => \E t \in Targets : connection[t] = "none"

=============================================================================
