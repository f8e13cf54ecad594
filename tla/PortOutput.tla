----------------------------- MODULE PortOutput -----------------------------
(***************************************************************************)
(* The output side of a port (libYARP_OS): YARPOutputPort::Write hands a   *)
(* message to the sender thread (_strange_select, "tsender"), which hands  *)
(* it to one OutputTarget thread per connection, which sends it; the port  *)
(* thread adds and removes connections, and deletes those that failed.     *)
(*                                                                         *)
(* A message is its number in the order of the calls of Write. One action  *)
(* is one critical section of out_mutex or of a target's mutex, one        *)
(* semaphore operation, or one step of the walk through the targets that   *)
(* list_mutex protects. The order of that walk is left open. The targets   *)
(* are not the MCAST one, which also takes commands.                       *)
(***************************************************************************)
EXTENDS Naturals, FiniteSets

CONSTANTS
  Targets,      \* the labels of the ports this port may be connected to
  NoTarget,     \* no target, the end of a walk
  WaitModes,    \* the values of Write's argument wait
  MaxMessages,  \* bound: messages written in one behaviour
  MaxCommands,  \* bound: messages the port thread receives
  Failures,     \* what may fail: looking up or reaching a target, sending to it
  MayBeLate,    \* whether a send may last more than five seconds
  Finishing     \* whether FinishSend is called

ASSUME OutputAssumption ==
  /\ NoTarget \notin Targets
  /\ WaitModes \subseteq BOOLEAN
  /\ MaxMessages \in Nat /\ MaxCommands \in Nat
  /\ Failures \subseteq {"locate", "connect", "send"}
  /\ MayBeLate \in BOOLEAN /\ Finishing \in BOOLEAN

NULL == 0

VARIABLES
  \* members of Port
  list,                   \* targets: the labels with an OutputTarget
  p_sendable,             \* the message being distributed
  require_complete_send,
  okay_to_send,           \* semaphore: Share may overwrite p_sendable
  list_owner,             \* which thread holds list_mutex
  out_locked,             \* tsender holds out_mutex
  ready_to_go,            \* semaphore tsender waits for
  tsender_running,        \* YARPBareThread::running of tsender
  target,                 \* the OutputTarget of each label
  \* where each thread is
  user, tsender, port,
  message,                \* what the Write in progress writes (p_s)
  command, label,         \* the command the port thread executes
  todo,                   \* the rest of the walk of the holder of list_mutex
  current,                \* the target it is at
  cursor, unvisited,      \* FinishSend's walk, which holds no lock
  \* history
  written,                \* number of messages written
  sent,                   \* the message each connection was sent last
  commands

shared == <<p_sendable, require_complete_send, okay_to_send>>
locks == <<list_owner, out_locked>>
walk == <<todo, current>>
finish == <<cursor, unvisited>>
history == <<written, sent, commands>>
vars == <<list, shared, locks, ready_to_go, tsender_running, target, user,
          message, tsender, port, command, label, walk, finish, history>>

Threads == {"tsender", "port"}
UserStates == {"idle", "share", "set", "pulse", "finish", "ending", "saying",
               "joining", "ended"}
TsenderStates == {"head", "wait", "woken", "lock", "scan", "condemned", "join",
                  "out", "share", "space", "hand", "okay", "release", "done"}
PortStates == {"idle", "received", "lock", "scan", "condemned", "join",
               "dispatch", "data", "detach", "joined", "detachall", "tail", "pulse",
               "joining", "done"}
Commands == {"data", "attach", "detach", "detached", "detach_all"}
WorkerStates == {"none", "init", "check", "wait", "woken", "sending", "sent",
                 "failed", "post", "closing", "dead"}

\* OutputTarget::OutputTarget, and the thread after Begin, which holds the
\* target's mutex while it connects.
NewTarget ==
  [active |-> TRUE, deactivate |-> FALSE, deactivated |-> FALSE,
   ticking |-> FALSE, sending |-> FALSE,
   something_to_send |-> 0, space_available |-> 1,
   p_sendable |-> NULL, local |-> NULL, thread |-> "init"]

Init ==
  /\ list = {} /\ p_sendable = NULL /\ require_complete_send = FALSE
  /\ okay_to_send = 1
  /\ list_owner = "none" /\ out_locked = FALSE
  /\ ready_to_go = 0 /\ tsender_running = TRUE
  /\ target = [t \in Targets |-> [NewTarget EXCEPT !.thread = "none"]]
  /\ user = "idle" /\ tsender = "head" /\ port = "idle" /\ message = NULL
  /\ command = "data" /\ label = NoTarget
  /\ todo = {} /\ current = NoTarget
  /\ cursor = NoTarget /\ unvisited = {}
  /\ written = 0 /\ sent = [t \in Targets |-> 0] /\ commands = 0

-----------------------------------------------------------------------------
(* The user's thread: YARPOutputPort::Write, FinishSend, End *)

\* RequireCompleteSend (wait), which takes no lock.
Write(wait) ==
  /\ user = "idle"
  /\ written < MaxMessages
  /\ written' = written + 1 /\ message' = written'
  /\ require_complete_send' = wait
  /\ user' = "share"
  /\ UNCHANGED <<list, p_sendable, okay_to_send, locks, ready_to_go,
                 tsender_running, target, tsender, port, command, label, walk,
                 finish, sent, commands>>

\* What okay_to_send.Wait needs, and a version without the wait.
NoPermission == TRUE

Permission == okay_to_send > 0

ShareWait ==
  /\ user = "share" /\ Permission
  /\ okay_to_send' = IF okay_to_send > 0 THEN okay_to_send - 1 ELSE 0
  /\ user' = "set"
  /\ UNCHANGED <<list, p_sendable, require_complete_send, locks, ready_to_go,
                 tsender_running, target, tsender, port, command, label, walk,
                 finish, message, history>>

\* out_mutex ... p_sendable.Set (nsendable)
ShareSet ==
  /\ user = "set" /\ ~out_locked
  /\ p_sendable' = message
  /\ user' = "pulse"
  /\ UNCHANGED <<list, require_complete_send, okay_to_send, locks, ready_to_go,
                 tsender_running, target, tsender, port, command, label, walk,
                 finish, message, history>>

\* tsender.pulseGo ()
SharePulse ==
  /\ user = "pulse"
  /\ ready_to_go' = ready_to_go + 1
  /\ user' = "idle"
  /\ UNCHANGED <<list, shared, locks, tsender_running, target, tsender, port,
                 command, label, walk, finish, message, history>>

\* FinishSend: pending is never set (Fire has no caller), so the walk starts at
\* once, at any target.
FinishSend ==
  /\ Finishing /\ user = "idle"
  /\ IF list = {}
     THEN UNCHANGED <<user, finish>>
     ELSE /\ cursor' \in list
          /\ unvisited' = list \ {cursor'}
          /\ user' = "finish"
  /\ UNCHANGED <<list, shared, locks, ready_to_go, tsender_running, target,
                 tsender, port, command, label, walk, message, history>>

\* space_available.Wait (), Post (), GetMeshNext ()
FinishWait ==
  /\ user = "finish"
  /\ target[cursor].space_available > 0
  /\ IF unvisited \intersect list = {}
     THEN /\ user' = "idle"
          /\ cursor' = NoTarget /\ unvisited' = {}
     ELSE /\ cursor' \in unvisited \intersect list
          /\ unvisited' = unvisited \ {cursor'}
          /\ UNCHANGED user
  /\ UNCHANGED <<list, shared, locks, ready_to_go, tsender_running, target,
                 tsender, port, command, label, walk, message, history>>

\* End: _started, under list_mutex ...
StartEnd ==
  /\ user = "idle"
  /\ user' = "ending"
  /\ UNCHANGED <<list, shared, locks, ready_to_go, tsender_running, target,
                 message, tsender, port, command, label, walk, finish, history>>

\* ... and the message to the port's own thread is on its way.
SayEnd ==
  /\ user = "ending" /\ list_owner = "none"
  /\ user' = "saying"
  /\ UNCHANGED <<list, shared, locks, ready_to_go, tsender_running, target,
                 message, tsender, port, command, label, walk, finish, history>>

EndJoin ==
  /\ user = "joining" /\ port = "done"
  /\ user' = "ended"
  /\ UNCHANGED <<list, shared, locks, ready_to_go, tsender_running, target,
                 tsender, port, command, label, walk, finish, message, history>>

-----------------------------------------------------------------------------
(* What both threads do with list_mutex held *)

\* A thread's place, so that the walk is written once.
Goes(who, place) ==
  IF who = "tsender" THEN tsender' = place /\ UNCHANGED port
                     ELSE port' = place /\ UNCHANGED tsender

At(who, place) == IF who = "tsender" THEN tsender = place ELSE port = place

\* list_mutex.Wait (), and the walk starts at GetRoot ().
LockList(who) ==
  /\ At(who, "lock") /\ list_owner = "none"
  /\ list_owner' = who
  /\ todo' = list
  /\ Goes(who, "scan")
  /\ UNCHANGED <<list, shared, out_locked, ready_to_go, tsender_running, target,
                 user, command, label, current, finish, message, history>>

\* The target's flags, read under its mutex, say that it is alive ...
ScanKeep(who, t) ==
  /\ At(who, "scan") /\ list_owner = who
  /\ t \in todo /\ target[t].thread # "init"
  /\ target[t].active
  /\ todo' = todo \ {t}
  /\ UNCHANGED <<list, shared, locks, ready_to_go, tsender_running, target, user,
                 tsender, port, command, label, current, finish, message, history>>

\* ... or that it has failed or takes too long.
ScanCondemn(who, t) ==
  /\ At(who, "scan") /\ list_owner = who
  /\ t \in todo /\ target[t].thread # "init"
  /\ ~target[t].active \/ (MayBeLate /\ target[t].ticking)
  /\ todo' = todo \ {t}
  /\ current' = t
  /\ Goes(who, "condemned")
  /\ UNCHANGED <<list, shared, locks, ready_to_go, tsender_running, target, user,
                 command, label, finish, message, history>>

\* OutputTarget::Deactivate up to Join, under the target's mutex.
Deactivated(t) ==
  [target EXCEPT ![t] = [target[t] EXCEPT
    !.deactivate = TRUE, !.something_to_send = target[t].something_to_send + 1]]

\* delete target: the destructor deactivates the target and joins its thread ...
Destroy(who) ==
  /\ At(who, "condemned") /\ list_owner = who
  /\ target' = Deactivated(current)
  /\ Goes(who, "join")
  /\ UNCHANGED <<list, shared, locks, ready_to_go, tsender_running, user, command,
                 label, walk, finish, message, history>>

\* What Join waits for, and a version that does not wait.
NoJoin(t) == TRUE

Joined(t) == target[t].thread = "dead"

\* ... and when Join returns the link leaves the list.
Delete(who) ==
  /\ At(who, "join") /\ list_owner = who
  /\ Joined(current)
  /\ list' = list \ {current}
  /\ current' = NoTarget
  /\ Goes(who, "scan")
  /\ UNCHANGED <<shared, locks, ready_to_go, tsender_running, target, user, command,
                 label, todo, finish, message, history>>

-----------------------------------------------------------------------------
(* The sender thread: _strange_select::Body *)

\* while (!IsTerminated())
TsenderHead ==
  /\ tsender = "head"
  /\ tsender' = IF tsender_running THEN "wait" ELSE "done"
  /\ UNCHANGED <<list, shared, locks, ready_to_go, tsender_running, target, user,
                 port, command, label, walk, finish, message, history>>

TsenderWait ==
  /\ tsender = "wait" /\ ready_to_go > 0
  /\ ready_to_go' = ready_to_go - 1
  /\ tsender' = "woken"
  /\ UNCHANGED <<list, shared, locks, tsender_running, target, user, port, command,
                 label, walk, finish, message, history>>

\* if (IsTerminated()) continue
TsenderWoken ==
  /\ tsender = "woken"
  /\ tsender' = IF tsender_running THEN "lock" ELSE "head"
  /\ UNCHANGED <<list, shared, locks, ready_to_go, tsender_running, target, user,
                 port, command, label, walk, finish, message, history>>

TsenderScanned ==
  /\ tsender = "scan" /\ todo = {}
  /\ tsender' = "out"
  /\ UNCHANGED <<list, shared, locks, ready_to_go, tsender_running, target, user,
                 port, command, label, walk, finish, message, history>>

\* out_mutex.Wait (), kept until the message has been handed to every target.
LockOut ==
  /\ tsender = "out" /\ ~out_locked
  /\ out_locked' = TRUE
  /\ todo' = list
  /\ tsender' = "share"
  /\ UNCHANGED <<list, shared, list_owner, ready_to_go, tsender_running, target,
                 user, port, command, label, current, finish, message, history>>

\* if (require_complete_send), and a version that never waits.
NeverWait == "hand"

WaitIfRequired == IF require_complete_send THEN "space" ELSE "hand"

\* target = target->GetMeshNext (), and a version in which the walk stays.
StayAt(t) == todo

MoveOn(t) == todo \ {t}

\* The next target, if there is a message.
ShareNext(t) ==
  /\ tsender = "share" /\ t \in todo
  /\ todo' = MoveOn(t)
  /\ IF p_sendable = NULL
     THEN UNCHANGED <<tsender, current>>
     ELSE /\ current' = t
          /\ tsender' = WaitIfRequired
  /\ UNCHANGED <<list, shared, locks, ready_to_go, tsender_running, target, user,
                 port, command, label, finish, message, history>>

\* target->space_available.Wait (), Post (), with both mutexes held.
ShareSpace ==
  /\ tsender = "space" /\ target[current].space_available > 0
  /\ tsender' = "hand"
  /\ UNCHANGED <<list, shared, locks, ready_to_go, tsender_running, target, user,
                 port, command, label, walk, finish, message, history>>

\* The space_available.Wait () in OutputTarget::Share, and a version without it.
KeepSpace(t) == target[t].space_available

TakeSpace(t) == target[t].space_available - 1

\* target->Share (p_sendable): under the target's mutex; a message for a target
\* that is still sending is dropped.
ShareHand ==
  /\ tsender = "hand" /\ target[current].thread # "init"
  /\ IF ~target[current].sending
     THEN /\ target[current].space_available > 0
          /\ target' = [target EXCEPT ![current] = [target[current] EXCEPT
               !.space_available = TakeSpace(current), !.p_sendable = p_sendable,
               !.something_to_send = target[current].something_to_send + 1,
               !.sending = TRUE]]
     ELSE UNCHANGED target
  /\ current' = NoTarget
  /\ tsender' = "share"
  /\ UNCHANGED <<list, shared, locks, ready_to_go, tsender_running, user, port,
                 command, label, todo, finish, message, history>>

\* p_sendable.Reset (); out_mutex.Post ()
ShareReset ==
  /\ tsender = "share" /\ todo = {}
  /\ p_sendable' = NULL
  /\ out_locked' = FALSE
  /\ tsender' = "okay"
  /\ UNCHANGED <<list, require_complete_send, okay_to_send, list_owner,
                 ready_to_go, tsender_running, target, user, port, command, label,
                 walk, finish, message, history>>

\* okay_to_send.Post ()
ShareOkay ==
  /\ tsender = "okay"
  /\ okay_to_send' = okay_to_send + 1
  /\ tsender' = "release"
  /\ UNCHANGED <<list, p_sendable, require_complete_send, locks, ready_to_go,
                 tsender_running, target, user, port, command, label, walk, finish,
                 message, history>>

TsenderRelease ==
  /\ tsender = "release"
  /\ list_owner' = "none"
  /\ tsender' = "head"
  /\ UNCHANGED <<list, shared, out_locked, ready_to_go, tsender_running, target,
                 user, port, command, label, walk, finish, message, history>>

-----------------------------------------------------------------------------
(* The port thread: Port::Body *)

\* A message for the port arrives: data or a command from YARPPort::Connect.
Receive(c, t) ==
  /\ port = "idle" /\ commands < MaxCommands
  /\ commands' = commands + 1
  /\ command' = c /\ label' = t
  /\ port' = "received"
  /\ UNCHANGED <<list, shared, locks, ready_to_go, tsender_running, target, user,
                 tsender, walk, finish, message, written, sent>>

\* The message End sent arrives.
ReceiveDetachAll ==
  /\ port = "idle" /\ user = "saying"
  /\ user' = "joining"
  /\ command' = "detach_all" /\ label' = NoTarget
  /\ port' = "received"
  /\ UNCHANGED <<list, shared, locks, ready_to_go, tsender_running, target,
                 tsender, walk, finish, message, history>>

\* expect_header, read under out_mutex.
ReadHeader ==
  /\ port = "received" /\ ~out_locked
  /\ port' = "lock"
  /\ UNCHANGED <<list, shared, locks, ready_to_go, tsender_running, target, user,
                 tsender, command, label, walk, finish, message, history>>

\* The walk that deletes failed targets ends, before a command is executed and
\* again after a DETACH.
PortScanned ==
  /\ port = "scan" /\ todo = {}
  /\ list_owner' = "none"
  /\ port' = IF command = "detached" THEN "idle" ELSE "dispatch"
  /\ UNCHANGED <<list, shared, out_locked, ready_to_go, tsender_running, target,
                 user, tsender, command, label, walk, finish, message, history>>

\* MSG_ID_DATA: out_mutex, twice (what happens between is module PortInput).
Data ==
  /\ port = "dispatch" /\ command = "data" /\ ~out_locked
  /\ port' = "data"
  /\ UNCHANGED <<list, shared, locks, ready_to_go, tsender_running, target, user,
                 message, tsender, command, label, walk, finish, history>>

DataReceived ==
  /\ port = "data" /\ ~out_locked
  /\ port' = "idle"
  /\ UNCHANGED <<list, shared, locks, ready_to_go, tsender_running, target, user,
                 message, tsender, command, label, walk, finish, history>>

\* MSG_ID_ATTACH: a new target and its thread, unless the label is there.
Attach ==
  /\ port = "dispatch" /\ command = "attach" /\ list_owner = "none"
  /\ IF label \in list
     THEN UNCHANGED <<list, target, sent>>
     ELSE /\ list' = list \union {label}
          /\ target' = [target EXCEPT ![label] = NewTarget]
          /\ sent' = [sent EXCEPT ![label] = 0]
  /\ port' = "idle"
  /\ UNCHANGED <<shared, locks, ready_to_go, tsender_running, user, tsender,
                 command, label, walk, finish, message, written, commands>>

\* MSG_ID_DETACH: targets.GetByLabel (buf+1).
DetachLock ==
  /\ port = "dispatch" /\ command = "detach" /\ list_owner = "none"
  /\ list_owner' = "port"
  /\ IF label \in list
     THEN /\ current' = label
          /\ port' = "detach"
          /\ UNCHANGED <<command, todo>>
     ELSE /\ command' = "detached"
          /\ todo' = list
          /\ port' = "scan"
          /\ UNCHANGED current
  /\ UNCHANGED <<list, shared, out_locked, ready_to_go, tsender_running, target,
                 user, tsender, label, finish, message, history>>

\* target->Deactivate (), up to its Join ...
DetachTarget ==
  /\ port = "detach" /\ target[current].thread # "init"
  /\ target' = Deactivated(current)
  /\ port' = "joined"
  /\ UNCHANGED <<list, shared, locks, ready_to_go, tsender_running, user, tsender,
                 command, label, walk, finish, message, history>>

\* ... and its Join. The target stays in the list: after a DETACH the walk that
\* follows deletes it.
DetachJoined ==
  /\ port = "joined" /\ Joined(current)
  /\ current' = NoTarget
  /\ IF command = "detach"
     THEN /\ command' = "detached" /\ todo' = list /\ port' = "scan"
     ELSE /\ port' = "detachall" /\ UNCHANGED <<command, todo>>
  /\ UNCHANGED <<list, shared, locks, ready_to_go, tsender_running, target, user,
                 tsender, label, finish, message, history>>

\* MSG_ID_DETACH_ALL: every target in turn.
DetachAllLock ==
  /\ port = "dispatch" /\ command = "detach_all" /\ list_owner = "none"
  /\ list_owner' = "port"
  /\ todo' = list
  /\ port' = "detachall"
  /\ UNCHANGED <<list, shared, out_locked, ready_to_go, tsender_running, target,
                 user, tsender, command, label, current, finish, message, history>>

DetachAllNext(t) ==
  /\ port = "detachall" /\ t \in todo
  /\ todo' = todo \ {t} /\ current' = t
  /\ port' = "detach"
  /\ UNCHANGED <<list, shared, locks, ready_to_go, tsender_running, target, user,
                 tsender, command, label, finish, message, history>>

\* The handshake with End that follows is in PortInput.
DetachAllDone ==
  /\ port = "detachall" /\ todo = {}
  /\ list_owner' = "none"
  /\ port' = "tail"
  /\ UNCHANGED <<list, shared, out_locked, ready_to_go, tsender_running, target,
                 user, tsender, command, label, walk, finish, message, history>>

\* tsender.AskForEnd ()
TailAskForEnd ==
  /\ port = "tail"
  /\ tsender_running' = FALSE
  /\ port' = "pulse"
  /\ UNCHANGED <<list, shared, locks, ready_to_go, target, user, tsender, command,
                 label, walk, finish, message, history>>

\* tsender.pulseGo (), and a version of the tail without it.
NoTailPulse == UNCHANGED ready_to_go

TailPulse == ready_to_go' = ready_to_go + 1

TailWakeTsender ==
  /\ port = "pulse"
  /\ TailPulse
  /\ port' = "joining"
  /\ UNCHANGED <<list, shared, locks, tsender_running, target, user, tsender,
                 command, label, walk, finish, message, history>>

\* tsender.Join ()
TailJoin ==
  /\ port = "joining" /\ tsender = "done"
  /\ port' = "done"
  /\ UNCHANGED <<list, shared, locks, ready_to_go, tsender_running, target, user,
                 tsender, command, label, walk, finish, message, history>>

-----------------------------------------------------------------------------
(* The thread of one connection: OutputTarget::Body *)

workerOnly == <<list, shared, locks, ready_to_go, tsender_running, user, tsender,
                port, command, label, walk, finish, message, written, commands>>

Moves(t, place) ==
  target' = [target EXCEPT ![t] = [target[t] EXCEPT !.thread = place]]

Dies(t) ==
  target' = [target EXCEPT ![t] = [target[t] EXCEPT
    !.active = FALSE, !.deactivated = TRUE, !.thread = "dead"]]

\* The address is looked up and connected to, with the target's mutex held; the
\* thread may bail out with it still held ...
Locate(t) ==
  /\ target[t].thread = "init"
  /\ \/ Moves(t, "check")
     \/ "locate" \in Failures /\ Dies(t)
  /\ UNCHANGED <<workerOnly, sent>>

\* ... or when it has been released: if (!target_pid->isValid ()).
CheckPid(t) ==
  /\ target[t].thread = "check"
  /\ \/ Moves(t, "wait")
     \/ "connect" \in Failures /\ Dies(t)
  /\ UNCHANGED <<workerOnly, sent>>

\* something_to_send.Wait ()
Collect(t) ==
  /\ target[t].thread = "wait" /\ target[t].something_to_send > 0
  /\ target' = [target EXCEPT ![t] = [target[t] EXCEPT
       !.something_to_send = target[t].something_to_send - 1, !.thread = "woken"]]
  /\ UNCHANGED <<workerOnly, sent>>

\* if (deactivate) ... else the message is taken, under the target's mutex.
\* NeverEnds is a version that does not look at deactivate.
FetchMessage(t) ==
  [target EXCEPT ![t] = [target[t] EXCEPT
    !.ticking = TRUE, !.local = target[t].p_sendable, !.p_sendable = NULL,
    !.thread = "sending"]]

NeverEnds(t) == FALSE

ShouldEnd(t) == target[t].deactivate

Fetch(t) ==
  /\ target[t].thread = "woken"
  /\ target' = IF ShouldEnd(t)
               THEN [target EXCEPT ![t] = [target[t] EXCEPT
                      !.active = FALSE, !.deactivated = TRUE, !.thread = "closing"]]
               ELSE FetchMessage(t)
  /\ UNCHANGED <<workerOnly, sent>>

\* p_local_sendable.Ptr ()->Write (sender) and sender.End ()
Transmit(t) ==
  /\ target[t].thread = "sending"
  /\ \/ /\ Moves(t, "sent")
        /\ sent' = [sent EXCEPT ![t] = target[t].local]
     \/ /\ "send" \in Failures /\ Moves(t, "failed")
        /\ UNCHANGED sent
  /\ UNCHANGED workerOnly

\* The critical section after a send.
Finish(t) ==
  /\ target[t].thread \in {"sent", "failed"}
  /\ target' = [target EXCEPT ![t] = [target[t] EXCEPT
       !.active = /\ target[t].active /\ ~target[t].deactivate
                  /\ target[t].thread = "sent",
       !.deactivated = target[t].deactivated \/ target[t].deactivate,
       !.sending = FALSE, !.ticking = FALSE, !.thread = "post"]]
  /\ UNCHANGED <<workerOnly, sent>>

\* space_available.Post (), and a version without it.
NoPost(t) == target[t].space_available

OnePost(t) == target[t].space_available + 1

PostSpace(t) ==
  /\ target[t].thread = "post"
  /\ target' = [target EXCEPT ![t] = [target[t] EXCEPT
       !.local = NULL, !.space_available = OnePost(t),
       !.thread = IF target[t].deactivated THEN "closing" ELSE "wait"]]
  /\ UNCHANGED <<workerOnly, sent>>

\* YARPEndpointManager::Close (*target_pid): the thread returns.
CloseEndpoint(t) ==
  /\ target[t].thread = "closing"
  /\ Moves(t, "dead")
  /\ UNCHANGED <<workerOnly, sent>>

-----------------------------------------------------------------------------
User ==
  \/ ShareWait \/ ShareSet \/ SharePulse
  \/ FinishWait \/ SayEnd \/ EndJoin

Sender ==
  \/ TsenderHead \/ TsenderWait \/ TsenderWoken
  \/ LockList("tsender") \/ Destroy("tsender") \/ Delete("tsender")
  \/ \E t \in Targets : ScanKeep("tsender", t) \/ ScanCondemn("tsender", t)
                        \/ ShareNext(t)
  \/ TsenderScanned \/ LockOut \/ ShareSpace \/ ShareHand \/ ShareReset
  \/ ShareOkay \/ TsenderRelease

PortThread ==
  \/ ReceiveDetachAll \/ ReadHeader
  \/ LockList("port") \/ Destroy("port") \/ Delete("port")
  \/ \E t \in Targets : ScanKeep("port", t) \/ ScanCondemn("port", t)
                        \/ DetachAllNext(t)
  \/ PortScanned \/ Data \/ DataReceived \/ Attach
  \/ DetachLock \/ DetachTarget \/ DetachJoined \/ DetachAllLock \/ DetachAllDone
  \/ TailAskForEnd \/ TailWakeTsender \/ TailJoin

Worker(t) ==
  \/ Locate(t) \/ CheckPid(t) \/ Collect(t) \/ Fetch(t) \/ Transmit(t)
  \/ Finish(t) \/ PostSpace(t) \/ CloseEndpoint(t)

\* What other programs and the owner of the port choose to do.
Environment ==
  \/ \E wait \in WaitModes : Write(wait)
  \/ FinishSend \/ StartEnd
  \/ \E c \in {"data", "attach", "detach"}, t \in Targets : Receive(c, t)

Next ==
  Environment \/ User \/ Sender \/ PortThread \/ \E t \in Targets : Worker(t)

Spec == Init /\ [][Next]_vars

\* Threads that can run do run; nobody is obliged to write, to connect or to
\* end. Every transmission ends, with or without success.
Fairness ==
  /\ WF_vars(User) /\ WF_vars(Sender) /\ WF_vars(PortThread)
  /\ \A t \in Targets : WF_vars(Worker(t))

FairSpec == Spec /\ Fairness
-----------------------------------------------------------------------------
(* Properties *)

TargetType ==
  [active : BOOLEAN, deactivate : BOOLEAN, deactivated : BOOLEAN,
   ticking : BOOLEAN, sending : BOOLEAN,
   something_to_send : Nat, space_available : Nat,
   p_sendable : 0..MaxMessages, local : 0..MaxMessages, thread : WorkerStates]

TypeOK ==
  /\ list \subseteq Targets
  /\ p_sendable \in 0..MaxMessages /\ require_complete_send \in BOOLEAN
  /\ okay_to_send \in 0..1
  /\ list_owner \in Threads \union {"none"} /\ out_locked \in BOOLEAN
  /\ ready_to_go \in Nat /\ tsender_running \in BOOLEAN
  /\ target \in [Targets -> TargetType]
  /\ user \in UserStates /\ tsender \in TsenderStates /\ port \in PortStates
  /\ command \in Commands /\ label \in Targets \union {NoTarget}
  /\ todo \subseteq Targets /\ current \in Targets \union {NoTarget}
  /\ cursor \in Targets \union {NoTarget} /\ unvisited \subseteq Targets
  /\ message \in 0..MaxMessages
  /\ written \in 0..MaxMessages
  /\ sent \in [Targets -> 0..MaxMessages] /\ commands \in 0..MaxCommands

\* OutputTarget::Body dereferences p_local_sendable whenever it is woken
\* (Port.cpp:639), be it by a message, by Deactivate or by both.
NoNullSend ==
  \A t \in Targets : target[t].thread = "sending" => target[t].local # NULL

\* A message is never replaced before the next thread has taken it: neither
\* that of the port, guarded by okay_to_send, nor that of a connection,
\* guarded by sending and space_available.
NothingOverwritten ==
  [][/\ user = "set" /\ user' = "pulse" => p_sendable = NULL
     /\ \A t \in list : target[t].p_sendable # NULL
          => target'[t].p_sendable \in {NULL, target[t].p_sendable}]_vars

\* Where the sender thread is between a wake-up and the permission it gives.
Sharing == {"lock", "scan", "condemned", "join", "out", "share", "space", "hand",
            "okay"}

\* The sender thread and FinishSend take space_available for the end of the
\* transmission: a connection that has space has no message left.
SpaceMeansSent ==
  \A t \in list : target[t].space_available > 0 =>
     /\ target[t].p_sendable = NULL /\ target[t].local = NULL
     /\ target[t].something_to_send > 0 => target[t].deactivate

\* list_mutex and Join: a connection's thread runs, and the sender thread looks
\* at a connection, only while the OutputTarget exists.
UsedWhileListed ==
  /\ \A t \in Targets : target[t].thread \notin {"none", "dead"} => t \in list
  /\ tsender \in {"condemned", "join", "space", "hand"} => current \in list
  /\ list_owner = "port" => current \in list \union {NoTarget}

\* okay_to_send, out_mutex and the flags of a connection keep the messages in
\* order: whatever fails, and whether or not the owner of the port waits, what
\* goes over a connection was written after all that went over it before.
SentInOrder ==
  [][\A t \in Targets :
       target[t].thread = "sending" /\ target'[t].thread = "sent" =>
         sent'[t] \in {m \in 1..written : m > sent[t]}]_vars

\* Nobody waits for a signal that no one will give: the permission to write is
\* with the sender thread or on its way there; a connection without space has a
\* thread that sends or has been told to, or that has ended (Port.cpp:299: it
\* returns without posting); a thread that is joined has been told to end.
WaitsAreMet ==
  /\ user = "share" =>
       okay_to_send > 0 \/ ready_to_go > 0 \/ tsender \in {"woken"} \union Sharing
  /\ \A t \in list :
       LET l == target[t] IN
       l.space_available = 0 =>
         \/ l.thread \in {"sending", "sent", "failed", "post", "closing", "dead"}
         \/ /\ l.p_sendable # NULL
            /\ l.thread = "wait" => l.something_to_send > 0
  /\ tsender = "join" \/ port \in {"join", "joined"} =>
       LET l == target[current] IN
       l.deactivate /\ (l.thread = "wait" => l.something_to_send > 0)

\* Write(true) for every message makes each connection complete (module Outbox).
Abstract == INSTANCE Outbox WITH connected <- list
ImplementsOutbox == Abstract!Spec

\* YARPPort.h: Write(true) waits "for any transmission already in progress to
\* complete": when every transmission ends, with or without success, Write
\* returns.
WriteReturns == user = "share" ~> user = "idle"

\* End returns: the port thread deactivates and joins every thread it started.
EndReturns == user = "ending" ~> user = "ended"

\* Port.cpp:713: holding list_mutex in the sender thread "should only (on
\* average) just cause a delay in receiving a command".
CommandOnlyDelayed == port = "lock" ~> port # "lock"

-----------------------------------------------------------------------------
(* The inductive invariant of the proofs (module PortOutputProofs) *)

\* Who holds the two mutexes follows from where the threads are.
WithList == {"scan", "condemned", "join", "out", "share", "space", "hand", "okay",
             "release"}

LockPlaces ==
  /\ list_owner = "tsender" <=> tsender \in WithList
  /\ list_owner = "port" <=>
       port \in {"scan", "condemned", "join", "detach", "joined", "detachall"}
  /\ out_locked <=> tsender \in {"share", "space", "hand"}

\* The holder of list_mutex walks over targets that are there.
WalkInv ==
  /\ todo \subseteq list
  /\ (tsender \in {"condemned", "join"} \/ port \in {"condemned", "join"})
       => current \in list \ todo
  /\ tsender \in {"space", "hand"} => current \in list \ todo /\ p_sendable # NULL
  /\ port \in {"detach", "joined"} => current \in list
  /\ \/ tsender \in {"condemned", "join", "space", "hand"}
     \/ port \in {"condemned", "join", "detach", "joined"}
     \/ current = NoTarget

\* A command names the target it is about; the port thread leaves its loop only
\* after End has begun to wait for it.
CommandInv ==
  /\ command \in {"attach", "detach"} => label \in Targets
  /\ port \in {"detachall", "tail", "pulse", "joining", "done"}
       => command = "detach_all"
  /\ port \in {"detach", "joined"} => command \in {"detach", "detach_all"}
  /\ command = "detach_all" => user \in {"joining", "ended"}
  /\ ~tsender_running <=> port \in {"pulse", "joining", "done"}
  /\ tsender = "done" => ~tsender_running

\* The permission to write is in one place: in the semaphore, with the user's
\* thread, in the signal to the sender thread, or with the sender thread.
BatonInv ==
  /\ okay_to_send = 1 => /\ user \notin {"set", "pulse"} /\ p_sendable = NULL
                         /\ tsender \notin Sharing
                         /\ tsender_running => ready_to_go = 0 /\ tsender # "woken"
  /\ user \in {"set", "pulse"} => /\ ready_to_go = 0
                                  /\ tsender \in {"head", "wait", "release"}
  /\ user = "set" \/ tsender = "okay" => p_sendable = NULL
  /\ tsender_running /\ ready_to_go > 0 =>
       ready_to_go = 1 /\ tsender \in {"head", "wait", "release"}

\* One connection: its message is with nobody, with the target, or with its
\* thread, and what announces it agrees.
LinkOK(l) ==
  /\ l.thread # "none"
  /\ l.sending => l.space_available = 0
  /\ ~l.sending => /\ l.p_sendable = NULL
                   /\ l.thread \notin {"sending", "sent", "failed"}
                   /\ l.thread # "post" => l.local = NULL /\ l.space_available = 1
  /\ l.thread = "post" => ~l.sending /\ l.space_available = 0
  /\ l.thread \in {"sending", "sent", "failed"} => l.local # NULL /\ l.p_sendable = NULL
  /\ l.local # NULL => l.thread \in {"sending", "sent", "failed", "post"}
  /\ ~l.deactivate =>
       /\ l.p_sendable = NULL => l.something_to_send = 0 /\ l.thread # "woken"
       /\ l.p_sendable # NULL => l.something_to_send = IF l.thread = "woken" THEN 0 ELSE 1

LinksInv ==
  \A t \in Targets : IF t \in list THEN LinkOK(target[t])
                                    ELSE target[t].thread \in {"none", "dead"}

OutputInv ==
  /\ TypeOK /\ LockPlaces /\ WalkInv /\ CommandInv /\ BatonInv /\ LinksInv

\* What it takes that nobody waits in vain. The permission is with somebody ...
PermitInv ==
  tsender_running =>
    \/ okay_to_send = 1 \/ user \in {"set", "pulse"} \/ ready_to_go > 0
    \/ tsender \in {"woken"} \union Sharing

\* ... a connection that is still sending has its message, and one that has been
\* told to end has the signal to do so ...
ServedOK(l) ==
  /\ l.sending => l.p_sendable # NULL \/ l.thread \in {"sending", "sent", "failed"}
  /\ l.deactivate /\ l.thread \notin {"woken", "closing", "dead"} =>
       l.something_to_send > 0

ServedInv == \A t \in list : ServedOK(target[t])

\* ... and it has been told before it is joined.
JoinInv ==
  tsender = "join" \/ port \in {"join", "joined"} => target[current].deactivate

ServeInv == OutputInv /\ PermitInv /\ ServedInv /\ JoinInv

\* What it takes to send in order. The message handed to a target last, whether
\* it was sent or not.
Pending(t) == target[t].p_sendable # NULL \/ target[t].thread = "sending"

Last(t) ==
  IF target[t].p_sendable # NULL THEN target[t].p_sendable
  ELSE IF target[t].thread = "sending" THEN target[t].local ELSE sent[t]

\* The messages up to this one have been handed to every target, and the next
\* one to those that the walk has passed.
Distributed ==
  IF p_sendable # NULL THEN p_sendable - 1
  ELSE IF user \in {"share", "set"} THEN written - 1 ELSE written

Passed(t) ==
  out_locked /\ p_sendable # NULL /\ t \notin todo /\ t # current

WriteInv ==
  /\ message = written
  /\ user \in {"share", "set", "pulse"} => written > 0
  /\ p_sendable # NULL =>
       /\ written > 0
       /\ p_sendable = IF user = "share" THEN written - 1 ELSE written

Handed(t) == IF Passed(t) THEN p_sendable ELSE Distributed

OrderInv ==
  \A t \in list : /\ Pending(t) => sent[t] < Last(t)
                  /\ Last(t) <= Handed(t)

OrderedInv == OutputInv /\ WriteInv /\ OrderInv

\* What it takes to implement Outbox, for an owner that always waits.
SequenceInv ==
  /\ written > 0 => require_complete_send
  /\ tsender = "hand" => ~target[current].sending
  /\ \A t \in list :
       /\ target[t].thread # "failed"
       /\ Pending(t) => sent[t] = 0 \/ Last(t) = sent[t] + 1
       /\ Last(t) \in {0, Handed(t)}

OutboxInv == OutputInv /\ WriteInv /\ SequenceInv

=============================================================================
