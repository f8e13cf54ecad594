------------------------ MODULE PortOutputRefinement ------------------------
(***************************************************************************)
(* What Write(true) promises, proved from the inductive invariant of       *)
(* PortOutputProofs: an output port whose owner always waits, and whose    *)
(* transmissions do not fail half-way, is an Outbox.                       *)
(***************************************************************************)
EXTENDS PortOutputProofs

AlwaysWaits == WaitModes \subseteq {TRUE}

\* A connection that failed to send a message may be given the next one before
\* it is removed.
SendsWork == "send" \notin Failures

\* The fields of a target that say what it has been handed.
SameMessages(t) ==
  /\ target'[t].p_sendable = target[t].p_sendable
  /\ target'[t].local = target[t].local
  /\ target'[t].thread = target[t].thread
  /\ target'[t].sending = target[t].sending

\* A step that hands nothing on.
Quiet ==
  /\ list' = list \/ \E t \in Targets : list' = list \ {t}
  /\ UNCHANGED <<p_sendable, require_complete_send, message, written, sent>>
  /\ \A t \in list : SameMessages(t)
  /\ user' \in {"share", "set"} <=> user \in {"share", "set"}
  /\ user' = "share" => user = "share"
  /\ user = "share" /\ user' # "share" => p_sendable = NULL
  /\ user' = "pulse" => user = "pulse"
  /\ \/ UNCHANGED <<out_locked, todo, current>>
     \/ ~out_locked /\ ~out_locked'
  /\ tsender' \in {"space", "hand"} => UNCHANGED <<tsender, current>>

\* Deactivate wakes a connection's thread and leaves its messages alone.
LEMMA DeactivatedSame ==
  ASSUME TypeOK, target' = Deactivated(current)
  PROVE  \A t \in list : SameMessages(t)
<1> SUFFICES ASSUME NEW t \in list PROVE SameMessages(t)
  OBVIOUS
<1>1. target \in [Targets -> TargetType] /\ t \in Targets
      /\ target[t] \in TargetType
  BY DEF TypeOK
<1>2. CASE current = t
  BY <1>1, <1>2 DEF Deactivated, TargetType, SameMessages
<1>3. CASE current # t
  BY <1>1, <1>3 DEF Deactivated, SameMessages
<1>4. QED BY <1>2, <1>3

\* The user's steps, except for a new message and its hand-over to the port.
LEMMA UserQuiet ==
  ASSUME OutputInv,
         \/ ShareWait \/ SharePulse \/ FinishSend \/ FinishWait
         \/ StartEnd \/ SayEnd \/ EndJoin
  PROVE  Quiet
<1>1. okay_to_send = 1 => p_sendable = NULL
  BY DEF OutputInv, BatonInv
<1>2. okay_to_send \in 0..1
  BY DEF OutputInv, TypeOK
<1>3. CASE ShareWait
  BY <1>1, <1>2, <1>3
     DEF ShareWait, Permission, Quiet, SameMessages, locks, walk, history
<1>4. CASE SharePulse \/ FinishSend \/ FinishWait
  BY <1>4
     DEF SharePulse, FinishSend, FinishWait, Quiet, SameMessages, shared,
         locks, walk, history
<1>5. CASE StartEnd \/ SayEnd \/ EndJoin
  BY <1>5
     DEF StartEnd, SayEnd, EndJoin, Quiet, SameMessages, shared, locks, walk,
         history
<1>6. QED BY <1>3, <1>4, <1>5

\* The walk that deletes targets, by either thread.
LEMMA WalkQuiet ==
  ASSUME OutputInv, NEW who \in Threads,
         \/ LockList(who) \/ Destroy(who) \/ Delete(who)
         \/ \E t \in Targets : ScanKeep(who, t) \/ ScanCondemn(who, t)
  PROVE  Quiet
<1>1. TypeOK /\ LockPlaces /\ WalkInv
  BY DEF OutputInv
<1>2. ~out_locked
  BY <1>1 DEF LockPlaces, WithList, LockList, Destroy, Delete, ScanKeep,
              ScanCondemn, At, Threads
<1>3. /\ UNCHANGED <<p_sendable, require_complete_send, message, written, sent>>
      /\ UNCHANGED <<user, out_locked>>
  BY DEF LockList, Destroy, Delete, ScanKeep, ScanCondemn, shared, locks,
         history
<1>4. tsender' \in {"space", "hand"} => tsender \in {"space", "hand"}
  BY DEF LockList, Destroy, Delete, ScanKeep, ScanCondemn, Goes, Threads
<1>5. tsender \notin {"space", "hand"}
  BY <1>1, <1>2 DEF LockPlaces
<1>6. list' = list \/ \E t \in Targets : list' = list \ {t}
  <2>1. CASE Delete(who)
    <3>1. current \in Targets
      BY <1>1, <2>1 DEF WalkInv, TypeOK, Delete, At, Threads
    <3>2. QED BY <2>1, <3>1 DEF Delete
  <2>2. CASE ~Delete(who)
    BY <2>2 DEF LockList, Destroy, ScanKeep, ScanCondemn
  <2>3. QED BY <2>1, <2>2
<1>7. \A t \in list : SameMessages(t)
  <2>1. CASE Destroy(who)
    BY <1>1, <2>1, DeactivatedSame DEF Destroy
  <2>2. CASE ~Destroy(who)
    BY <2>2 DEF LockList, Delete, ScanKeep, ScanCondemn, SameMessages
  <2>3. QED BY <2>1, <2>2
<1>8. QED BY <1>2, <1>3, <1>4, <1>5, <1>6, <1>7 DEF Quiet

\* The other steps of the sender thread that hand nothing on.
LEMMA SenderQuiet ==
  ASSUME \/ TsenderHead \/ TsenderWait \/ TsenderWoken \/ TsenderScanned
         \/ ShareOkay \/ TsenderRelease
  PROVE  Quiet
<1>1. CASE TsenderHead \/ TsenderWait \/ TsenderWoken
  BY <1>1
     DEF TsenderHead, TsenderWait, TsenderWoken, Quiet, SameMessages, shared,
         locks, walk, history
<1>2. CASE TsenderScanned \/ ShareOkay \/ TsenderRelease
  BY <1>2
     DEF TsenderScanned, ShareOkay, TsenderRelease, Quiet, SameMessages,
         shared, locks, walk, history
<1>3. QED BY <1>1, <1>2

\* The port thread hands nothing on; a new connection has nothing.
LEMMA PortQuiet ==
  ASSUME OutputInv, PortThread \/ \E c \in Commands, t \in Targets : Receive(c, t)
  PROVE  Quiet \/ Attach
<1>1. TypeOK /\ LockPlaces
  BY DEF OutputInv
<1>2. CASE \/ \E c \in Commands, t \in Targets : Receive(c, t)
           \/ ReceiveDetachAll \/ ReadHeader \/ PortScanned
  BY <1>2
     DEF Receive, ReceiveDetachAll, ReadHeader, PortScanned, Quiet,
         SameMessages, shared, locks, walk, history
<1>3. CASE \/ Data \/ DataReceived \/ DetachAllDone
           \/ TailAskForEnd \/ TailWakeTsender \/ TailJoin
  BY <1>3
     DEF Data, DataReceived, DetachAllDone, TailAskForEnd, TailWakeTsender,
         TailJoin, Quiet, SameMessages, shared, locks, walk, history
<1>4. CASE \/ DetachLock \/ DetachJoined \/ DetachAllLock
           \/ \E t \in Targets : DetachAllNext(t)
  <2>1. ~out_locked /\ tsender \notin {"space", "hand"}
    BY <1>1, <1>4
       DEF LockPlaces, WithList, DetachLock, DetachJoined, DetachAllLock,
           DetachAllNext
  <2>2. QED
    BY <1>4, <2>1
       DEF DetachLock, DetachJoined, DetachAllLock, DetachAllNext, Quiet,
           SameMessages, shared, locks, history
<1>5. CASE DetachTarget
  <2>1. \A t \in list : SameMessages(t)
    BY <1>1, <1>5, DeactivatedSame DEF DetachTarget
  <2>2. QED
    BY <1>5, <2>1 DEF DetachTarget, Quiet, shared, locks, walk, history
<1>6. CASE LockList("port") \/ Destroy("port") \/ Delete("port")
  BY <1>6, WalkQuiet DEF Threads
<1>7. CASE \E t \in Targets : ScanKeep("port", t) \/ ScanCondemn("port", t)
  BY <1>7, WalkQuiet DEF Threads
<1>8. QED
  BY <1>2, <1>3, <1>4, <1>5, <1>6, <1>7 DEF PortThread

\* What hands a message on.
Hands ==
  \/ \E wait \in WaitModes : Write(wait)
  \/ ShareSet \/ LockOut \/ ShareSpace \/ ShareHand \/ ShareReset \/ Attach
  \/ \E t \in Targets : ShareNext(t) \/ Worker(t)

LEMMA QuietOrHands ==
  ASSUME OutputInv, Next
  PROVE  Quiet \/ Hands
<1>1. CASE Environment
  <2>1. CASE \E wait \in WaitModes : Write(wait)
    BY <2>1 DEF Hands
  <2>2. CASE FinishSend \/ StartEnd
    BY <2>2, UserQuiet
  <2>3. CASE \E c \in {"data", "attach", "detach"}, t \in Targets : Receive(c, t)
    BY <2>3, PortQuiet DEF Commands, Hands
  <2>4. QED BY <1>1, <2>1, <2>2, <2>3 DEF Environment
<1>2. CASE User
  BY <1>2, UserQuiet DEF User, Hands
<1>3. CASE Sender
  <2>1. CASE \/ LockList("tsender") \/ Destroy("tsender") \/ Delete("tsender")
             \/ \E t \in Targets :
                  ScanKeep("tsender", t) \/ ScanCondemn("tsender", t)
    BY <2>1, WalkQuiet DEF Threads
  <2>2. CASE \/ TsenderHead \/ TsenderWait \/ TsenderWoken \/ TsenderScanned
             \/ ShareOkay \/ TsenderRelease
    BY <2>2, SenderQuiet
  <2>3. QED BY <1>3, <2>1, <2>2 DEF Sender, Hands
<1>4. CASE PortThread
  BY <1>4, PortQuiet DEF Hands
<1>5. CASE \E t \in Targets : Worker(t)
  BY <1>5 DEF Hands
<1>6. QED BY <1>1, <1>2, <1>3, <1>4, <1>5 DEF Next

-----------------------------------------------------------------------------
(* The message the port distributes is the last one written, or the one     *)
(* before it.                                                               *)

LEMMA WriteStep ==
  ASSUME OutputInv, WriteInv, Next
  PROVE  WriteInv'
<1>1. /\ p_sendable \in 0..MaxMessages /\ written \in 0..MaxMessages
      /\ MaxMessages \in Nat /\ user \in UserStates
  BY OutputAssumption DEF OutputInv, TypeOK
<1>2. CASE Quiet
  BY <1>1, <1>2 DEF Quiet, WriteInv
<1>3. CASE \E wait \in WaitModes : Write(wait)
  BY <1>1, <1>3 DEF Write, WriteInv
<1>4. CASE ShareSet
  BY <1>1, <1>4 DEF ShareSet, WriteInv, history
<1>5. CASE ShareReset
  BY <1>1, <1>5 DEF ShareReset, WriteInv, history
<1>6. CASE \/ LockOut \/ ShareSpace \/ ShareHand
           \/ \E t \in Targets : ShareNext(t)
  BY <1>6 DEF LockOut, ShareSpace, ShareHand, ShareNext, WriteInv, shared,
              history
<1>7. CASE Attach
  BY <1>7 DEF Attach, WriteInv, shared
<1>8. CASE \E t \in Targets : Worker(t)
  <2>1. UNCHANGED workerOnly
    BY <1>8, WorkerFrame DEF OutputInv
  <2>2. QED BY <2>1 DEF workerOnly, shared, WriteInv
<1>9. QED
  BY <1>2, <1>3, <1>4, <1>5, <1>6, <1>7, <1>8, QuietOrHands DEF Hands

\* What has been handed to a target has been written.
LEMMA HandedWritten ==
  ASSUME OutputInv, WriteInv, NEW t \in list
  PROVE  Handed(t) \in Nat /\ Handed(t) <= written
<1>1. /\ p_sendable \in 0..MaxMessages /\ written \in 0..MaxMessages
      /\ MaxMessages \in Nat
  BY OutputAssumption DEF OutputInv, TypeOK
<1>2. QED BY <1>1 DEF Handed, Distributed, WriteInv, NULL

-----------------------------------------------------------------------------
(* What each step hands on: the connections keep what they have, ...        *)

LEMMA QuietKeeps ==
  ASSUME OutputInv, Quiet, NEW t \in list
  PROVE  /\ Last(t)' = Last(t) /\ Pending(t)' = Pending(t)
         /\ Handed(t)' = Handed(t) /\ sent'[t] = sent[t]
<1>1. SameMessages(t) /\ sent'[t] = sent[t]
  BY DEF Quiet
<1>2. Distributed' = Distributed
  BY DEF Quiet, Distributed
<1>3. Passed(t)' = Passed(t)
  BY DEF Quiet, Passed
<1>4. p_sendable' = p_sendable
  BY DEF Quiet
<1>5. QED BY <1>1, <1>2, <1>3, <1>4 DEF Last, Pending, Handed, SameMessages

\* ... also when a message is written, given to the port or carried along the
\* walk of the sender thread, ...
CarriesOn ==
  \/ \E wait \in WaitModes : Write(wait)
  \/ ShareSet \/ LockOut \/ ShareSpace \/ ShareReset
  \/ \E u \in Targets : ShareNext(u)

LEMMA CarriedOn ==
  ASSUME OutputInv, WriteInv, CarriesOn
  PROVE  /\ UNCHANGED <<list, target, sent>>
         /\ \A t \in list : Handed(t)' = Handed(t)
<1>1. /\ p_sendable \in 0..MaxMessages /\ written \in 0..MaxMessages
      /\ MaxMessages \in Nat /\ list \subseteq Targets
      /\ LockPlaces /\ WalkInv
  BY OutputAssumption DEF OutputInv, TypeOK
<1>2. CASE \E wait \in WaitModes : Write(wait)
  <2>1. /\ UNCHANGED <<list, target, sent, p_sendable, out_locked, todo>>
        /\ UNCHANGED current
        /\ user = "idle" /\ user' = "share" /\ written' = written + 1
    BY <1>2 DEF Write, locks, walk
  <2>2. QED BY <1>1, <2>1 DEF Handed, Passed, Distributed
<1>3. CASE ShareSet
  <2>1. p_sendable = NULL /\ ~out_locked
    BY <1>3 DEF OutputInv, BatonInv, ShareSet
  <2>2. /\ UNCHANGED <<list, target, sent, out_locked, written>>
        /\ user = "set" /\ user' = "pulse" /\ p_sendable' = written
    BY <1>3 DEF ShareSet, WriteInv, locks, history
  <2>3. written > 0
    BY <2>2 DEF WriteInv
  <2>4. QED BY <1>1, <2>1, <2>2, <2>3 DEF Handed, Passed, Distributed, NULL
<1>4. CASE LockOut
  <2>1. /\ UNCHANGED <<list, target, sent, p_sendable, user, written>>
        /\ ~out_locked /\ todo' = list
    BY <1>4 DEF LockOut, shared, history
  <2>2. QED BY <2>1 DEF Handed, Passed, Distributed
<1>5. ASSUME NEW u \in Targets, ShareNext(u)
      PROVE  /\ UNCHANGED <<list, target, sent>>
             /\ \A t \in list : Handed(t)' = Handed(t)
  <2>1. /\ UNCHANGED <<list, target, sent, p_sendable, user, written>>
        /\ UNCHANGED out_locked
        /\ tsender = "share" /\ u \in todo /\ todo' = todo \ {u}
        /\ p_sendable # NULL => current' = u
    BY <1>5 DEF ShareNext, MoveOn, shared, locks, history
  <2>2. current = NoTarget
    BY <1>1, <2>1 DEF WalkInv, LockPlaces, WithList
  <2>3. QED
    BY <1>1, <2>1, <2>2, OutputAssumption DEF Handed, Passed, Distributed
<1>6. CASE ShareSpace
  BY <1>6
     DEF ShareSpace, shared, locks, walk, history, Handed, Passed, Distributed
<1>7. CASE ShareReset
  <2>1. /\ UNCHANGED <<list, target, sent, user, written, current>>
        /\ tsender = "share" /\ todo = {} /\ p_sendable' = NULL /\ ~out_locked'
    BY <1>7 DEF ShareReset, walk, history
  <2>2. current = NoTarget /\ out_locked /\ user # "set"
    BY <1>1, <2>1 DEF WalkInv, LockPlaces, WithList, OutputInv, BatonInv
  <2>3. QED
    BY <1>1, <2>1, <2>2, OutputAssumption
       DEF Handed, Passed, Distributed, WriteInv, NULL
<1>8. QED BY <1>2, <1>3, <1>4, <1>5, <1>6, <1>7 DEF CarriesOn

\* ... one connection is handed the next message, unless it is still sending,
\* ...
LEMMA HandedOn ==
  ASSUME OutputInv, ShareHand
  PROVE  /\ UNCHANGED <<list, sent, require_complete_send, written>>
         /\ tsender = "hand" /\ tsender' = "share" /\ p_sendable \in Nat \ {0}
         /\ \E c \in list :
              /\ c = current
              /\ Handed(c) = p_sendable - 1 /\ Handed(c)' = p_sendable
              /\ target[c].sending =>
                   /\ Last(c)' = Last(c) /\ Pending(c)' = Pending(c)
              /\ ~target[c].sending =>
                   /\ Last(c) = sent[c] /\ Last(c)' = p_sendable
              /\ target'[c].thread = target[c].thread
              /\ \A t \in list \ {c} :
                   /\ target'[t] = target[t] /\ Handed(t)' = Handed(t)
                   /\ Last(t)' = Last(t) /\ Pending(t)' = Pending(t)
<1>1. /\ p_sendable \in 0..MaxMessages /\ MaxMessages \in Nat
      /\ list \subseteq Targets /\ target \in [Targets -> TargetType]
      /\ LockPlaces /\ WalkInv
  BY OutputAssumption DEF OutputInv, TypeOK
<1>2. /\ UNCHANGED <<list, sent, p_sendable, user, written, out_locked, todo>>
      /\ UNCHANGED require_complete_send
      /\ tsender = "hand" /\ tsender' = "share" /\ current' = NoTarget
  BY DEF ShareHand, shared, locks, history
<1>3. /\ current \in list \ todo /\ p_sendable # NULL /\ out_locked
  BY <1>1, <1>2 DEF WalkInv, LockPlaces
<1>4. PICK c \in list : c = current
  BY <1>3
<1>5. LinkOK(target[c]) /\ target[c] \in TargetType
  BY <1>1 DEF OutputInv, LinksInv
<1>6. Handed(c) = p_sendable - 1
  BY <1>3, <1>4 DEF Handed, Passed, Distributed
<1>7. Handed(c)' = p_sendable
  <2>1. c # NoTarget
    BY <1>1, OutputAssumption
  <2>2. QED BY <1>2, <1>3, <1>4, <2>1 DEF Handed, Passed
<1>8. \A t \in list \ {c} : target'[t] = target[t]
  BY <1>1, <1>4 DEF ShareHand
<1>9. \A t \in list \ {c} :
        /\ Handed(t)' = Handed(t)
        /\ Last(t)' = Last(t) /\ Pending(t)' = Pending(t)
  BY <1>1, <1>2, <1>4, <1>8, OutputAssumption
     DEF Handed, Passed, Distributed, Last, Pending
<1>10. CASE target[c].sending
  <2>1. target' = target
    BY <1>4, <1>10 DEF ShareHand
  <2>2. Last(c)' = Last(c) /\ Pending(c)' = Pending(c)
    BY <1>2, <2>1 DEF Last, Pending
  <2> HIDE DEF Last, Pending, Handed
  <2>3. QED
    BY <1>1, <1>2, <1>3, <1>4, <1>6, <1>7, <1>8, <1>9, <1>10, <2>1, <2>2
       DEF NULL
<1>11. CASE ~target[c].sending
  <2>1. target' = [target EXCEPT ![c] = [target[c] EXCEPT
          !.space_available = TakeSpace(c), !.p_sendable = p_sendable,
          !.something_to_send = target[c].something_to_send + 1,
          !.sending = TRUE]]
    BY <1>4, <1>11 DEF ShareHand, TakeSpace
  <2>2. /\ target'[c].p_sendable = p_sendable
        /\ target'[c].thread = target[c].thread
    BY <1>1, <1>5, <2>1 DEF TargetType
  <2>3. Last(c) = sent[c]
    BY <1>5, <1>11 DEF Last, LinkOK
  <2>4. Last(c)' = p_sendable
    BY <1>2, <1>3, <2>2 DEF Last
  <2> HIDE DEF Last, Pending, Handed
  <2>5. QED
    BY <1>1, <1>2, <1>3, <1>4, <1>6, <1>7, <1>8, <1>9, <1>11, <2>2, <2>3, <2>4
       DEF NULL
<1>12. QED BY <1>10, <1>11

\* ... a new connection has nothing ...
LEMMA AttachedEmpty ==
  ASSUME OutputInv, Attach
  PROVE  /\ tsender \notin {"space", "hand"} /\ UNCHANGED tsender
         /\ UNCHANGED <<require_complete_send, written>>
         /\ \A t \in Targets : Handed(t)' = Handed(t)
         /\ \/ UNCHANGED <<list, target, sent>>
            \/ \E c \in Targets :
                 /\ c \notin list /\ list' = list \union {c}
                 /\ sent'[c] = 0 /\ Last(c)' = 0 /\ ~Pending(c)'
                 /\ target'[c].thread # "failed"
                 /\ \A t \in list :
                      /\ target'[t].thread = target[t].thread
                      /\ Last(t)' = Last(t) /\ Pending(t)' = Pending(t)
                 /\ \A t \in Targets \ {c} : sent'[t] = sent[t]
<1>1. /\ list \subseteq Targets /\ target \in [Targets -> TargetType]
      /\ sent \in [Targets -> 0..MaxMessages]
      /\ LockPlaces
  BY DEF OutputInv, TypeOK
<1>2. /\ UNCHANGED <<p_sendable, user, written, out_locked, todo, current>>
      /\ UNCHANGED <<tsender, require_complete_send>>
      /\ ~out_locked /\ tsender \notin {"space", "hand"}
  BY <1>1 DEF Attach, shared, locks, walk, LockPlaces, WithList
<1>3. \A t \in Targets : Handed(t)' = Handed(t)
  BY <1>2 DEF Handed, Passed, Distributed
<1>4. CASE label \in list
  BY <1>2, <1>3, <1>4 DEF Attach
<1>5. CASE label \notin list
  <2>1. label \in Targets
    BY DEF OutputInv, CommandInv, Attach
  <2>2. PICK c \in Targets : c = label
    BY <2>1
  <2>3. /\ list' = list \union {c} /\ target'[c] = NewTarget /\ sent'[c] = 0
        /\ \A t \in Targets \ {c} : target'[t] = target[t] /\ sent'[t] = sent[t]
    BY <1>1, <1>5, <2>2 DEF Attach
  <2>4. \A t \in list : Last(t)' = Last(t) /\ Pending(t)' = Pending(t)
    BY <1>1, <1>5, <2>2, <2>3 DEF Last, Pending
  <2>5. Last(c)' = 0 /\ ~Pending(c)' /\ target'[c].thread # "failed"
    BY <2>3 DEF Last, Pending, NewTarget
  <2> HIDE DEF Last, Pending, Handed
  <2>6. QED BY <1>1, <1>2, <1>3, <1>5, <2>2, <2>3, <2>4, <2>5
<1>6. QED BY <1>4, <1>5

\* ... and a connection's thread takes the message handed to it on its way, or
\* loses it.
LEMMA WorkerEffect ==
  ASSUME OutputInv, NEW t \in Targets, Worker(t)
  PROVE  /\ t \in list
         /\ \A u \in Targets : u # t => sent'[u] = sent[u]
         /\ Pending(t)' => Pending(t) /\ sent'[t] = sent[t]
         /\ \/ Last(t)' = Last(t) /\ target'[t].thread # "failed"
            \/ /\ "send" \in Failures /\ ~Pending(t)'
               /\ Last(t)' = sent[t] /\ Pending(t)
         /\ target'[t].sending => target[t].sending
<1>1. /\ target \in [Targets -> TargetType] /\ target[t] \in TargetType
      /\ sent \in [Targets -> 0..MaxMessages]
  BY DEF OutputInv, TypeOK
<1>2. t \in list /\ LinkOK(target[t])
  <2>1. target[t].thread \notin {"none", "dead"}
    BY DEF Worker, Locate, CheckPid, Collect, Fetch, Transmit, Finish,
           PostSpace, CloseEndpoint
  <2>2. QED BY <2>1 DEF OutputInv, LinksInv
<1> DEFINE Keeps ==
      /\ Last(t)' = Last(t) /\ target'[t].thread # "failed"
      /\ Pending(t)' => Pending(t) /\ sent'[t] = sent[t]
      /\ target'[t].sending => target[t].sending
      /\ \A u \in Targets : u # t => sent'[u] = sent[u]
<1>3. ASSUME NEW p \in WorkerStates \ {"sending", "failed"}, Moves(t, p),
              target[t].thread # "sending", UNCHANGED sent
       PROVE  Keeps
  BY <1>1, <1>3 DEF Moves, Last, Pending, TargetType
<1>4. ASSUME Dies(t), target[t].thread # "sending", UNCHANGED sent
       PROVE  Keeps
  BY <1>1, <1>4 DEF Dies, Last, Pending, TargetType
<1>5. CASE Locate(t) \/ CheckPid(t)
  BY <1>2, <1>5, <1>3, <1>4 DEF Locate, CheckPid, WorkerStates
<1>6. CASE CloseEndpoint(t)
  BY <1>2, <1>6, <1>3 DEF CloseEndpoint, WorkerStates
<1>7. CASE Collect(t)
  BY <1>1, <1>2, <1>7 DEF Collect, Last, Pending, TargetType
<1>8. CASE Fetch(t)
  <2>1. target[t].deactivate \/ target[t].p_sendable # NULL
    BY <1>2, <1>8 DEF Fetch, LinkOK
  <2>2. CASE target[t].deactivate
    BY <1>1, <1>2, <1>8, <2>2
       DEF Fetch, ShouldEnd, Last, Pending, TargetType
  <2>3. CASE ~target[t].deactivate
    BY <1>1, <1>2, <1>8, <2>1, <2>3
       DEF Fetch, ShouldEnd, FetchMessage, Last, Pending, TargetType
  <2>4. QED BY <1>2, <2>2, <2>3
<1>9. CASE Transmit(t)
  <2>1. target[t].p_sendable = NULL /\ target[t].thread = "sending"
    BY <1>2, <1>9 DEF Transmit, LinkOK
  <2>2. CASE Moves(t, "sent") /\ sent' = [sent EXCEPT ![t] = target[t].local]
    BY <1>1, <1>2, <2>1, <2>2 DEF Moves, Last, Pending, TargetType
  <2>3. CASE "send" \in Failures /\ Moves(t, "failed") /\ UNCHANGED sent
    BY <1>1, <1>2, <2>1, <2>3 DEF Moves, Last, Pending, TargetType
  <2>4. QED BY <1>9, <2>2, <2>3 DEF Transmit
<1>10. CASE Finish(t)
  BY <1>1, <1>2, <1>10 DEF Finish, LinkOK, Last, Pending, TargetType
<1>11. CASE PostSpace(t)
  BY <1>1, <1>2, <1>11 DEF PostSpace, Last, Pending, TargetType
<1>12. QED BY <1>5, <1>6, <1>7, <1>8, <1>9, <1>10, <1>11 DEF Worker

\* Nothing else changes for the other connections.
LEMMA OtherWorkers ==
  ASSUME OutputInv, NEW t \in Targets, Worker(t)
  PROVE  /\ UNCHANGED <<list, tsender, current, require_complete_send, written>>
         /\ \A u \in list : Handed(u)' = Handed(u)
         /\ \A u \in list \ {t} :
              /\ target'[u] = target[u] /\ sent'[u] = sent[u]
              /\ Last(u)' = Last(u) /\ Pending(u)' = Pending(u)
<1>1. UNCHANGED <<list, p_sendable, user, tsender, out_locked, written, todo,
                  current, require_complete_send>>
  BY WorkerFrame DEF OutputInv, workerOnly, shared, locks, walk
<1>2. \A u \in list : Handed(u)' = Handed(u)
  BY <1>1 DEF Handed, Passed, Distributed
<1>3. \A u \in list \ {t} :
        /\ target'[u] = target[u] /\ sent'[u] = sent[u]
        /\ Last(u)' = Last(u) /\ Pending(u)' = Pending(u)
  BY WorkerFrame, WorkerEffect DEF OutputInv, TypeOK, Last, Pending
<1>4. QED BY <1>1, <1>2, <1>3

LEMMA HandsCases ==
  ASSUME Hands
  PROVE  CarriesOn \/ ShareHand \/ Attach \/ \E t \in Targets : Worker(t)
BY DEF Hands, CarriesOn

-----------------------------------------------------------------------------
(* Messages go over a connection in order, for every owner and whatever     *)
(* fails.                                                                   *)

LEMMA OrderStep ==
  ASSUME OutputInv, WriteInv, OrderInv, Next
  PROVE  OrderInv'
<1>1. /\ p_sendable \in Nat /\ list \subseteq Targets
      /\ sent \in [Targets -> 0..MaxMessages] /\ MaxMessages \in Nat
  BY OutputAssumption DEF OutputInv, TypeOK
<1>2. \A t \in list : Handed(t) \in Nat
  BY HandedWritten
<1>3. CASE Quiet
  <2>1. \A t \in list : /\ Last(t)' = Last(t) /\ Pending(t)' = Pending(t)
                        /\ Handed(t)' = Handed(t) /\ sent'[t] = sent[t]
    BY <1>3, QuietKeeps
  <2>2. list' \subseteq list
    BY <1>3 DEF Quiet
  <2> HIDE DEF Last, Pending, Handed
  <2>3. QED BY <2>1, <2>2 DEF OrderInv
<1>4. CASE CarriesOn
  <2>1. /\ UNCHANGED <<list, target, sent>>
        /\ \A t \in list : Handed(t)' = Handed(t)
    BY <1>4, CarriedOn
  <2>2. \A t \in list : Last(t)' = Last(t) /\ Pending(t)' = Pending(t)
    BY <2>1 DEF Last, Pending
  <2> HIDE DEF Last, Pending, Handed
  <2>3. QED BY <2>1, <2>2 DEF OrderInv
<1>5. CASE ShareHand
  <2> HIDE DEF Last, Pending, Handed
  <2>1. PICK c \in list :
          /\ c = current
          /\ Handed(c) = p_sendable - 1 /\ Handed(c)' = p_sendable
          /\ target[c].sending =>
               /\ Last(c)' = Last(c) /\ Pending(c)' = Pending(c)
          /\ ~target[c].sending =>
               /\ Last(c) = sent[c] /\ Last(c)' = p_sendable
          /\ \A t \in list \ {c} :
               /\ Handed(t)' = Handed(t)
               /\ Last(t)' = Last(t) /\ Pending(t)' = Pending(t)
    BY <1>5, HandedOn
  <2>2. UNCHANGED <<list, sent>>
    BY <1>5, HandedOn
  <2>3. /\ Pending(c)' => sent'[c] < Last(c)'
        /\ Last(c)' <= Handed(c)'
    <3>1. CASE target[c].sending
      <4>1. Last(c) \in Nat
        BY DEF OutputInv, TypeOK, TargetType, Last
      <4>2. QED BY <1>1, <2>1, <2>2, <3>1, <4>1 DEF OrderInv
    <3>2. CASE ~target[c].sending
      BY <1>1, <2>1, <2>2, <3>2 DEF OrderInv
    <3>3. QED BY <3>1, <3>2
  <2>4. QED BY <2>1, <2>2, <2>3 DEF OrderInv
<1>6. CASE Attach
  <2>1. \A t \in list : Handed(t)' = Handed(t)
    BY <1>1, <1>6, AttachedEmpty
  <2>2. CASE UNCHANGED <<list, target, sent>>
    <3>1. \A t \in list : Last(t)' = Last(t) /\ Pending(t)' = Pending(t)
      BY <2>2 DEF Last, Pending
    <3> HIDE DEF Last, Pending, Handed
    <3>2. QED BY <2>1, <2>2, <3>1 DEF OrderInv
  <2>3. ASSUME NEW c \in Targets,
               c \notin list, list' = list \union {c},
               Last(c)' = 0, ~Pending(c)',
               \A t \in list : Last(t)' = Last(t) /\ Pending(t)' = Pending(t),
               \A t \in Targets \ {c} : sent'[t] = sent[t]
        PROVE  OrderInv'
    <3>1. Handed(c)' = Handed(c)
      BY <1>6, AttachedEmpty
    <3>2. Handed(c) \in Nat
      BY DEF OutputInv, TypeOK, Handed, Passed, Distributed, WriteInv, NULL
    <3> HIDE DEF Last, Pending, Handed
    <3>3. QED BY <1>1, <2>1, <2>3, <3>1, <3>2 DEF OrderInv
  <2>4. QED BY <1>6, <2>2, <2>3, AttachedEmpty
<1>7. ASSUME NEW t \in Targets, Worker(t)
      PROVE  OrderInv'
  <2>1. Last(t) \in Nat /\ sent[t] \in Nat
    BY DEF OutputInv, TypeOK, TargetType, Last
  <2> HIDE DEF Last, Pending, Handed
  <2>2. /\ Pending(t)' => sent'[t] < Last(t)'
        /\ Last(t)' <= Handed(t)'
    BY <1>2, <1>7, <2>1, WorkerEffect, OtherWorkers DEF OrderInv
  <2>3. QED BY <1>7, <2>2, OtherWorkers DEF OrderInv
<1>8. QED
  BY <1>3, <1>4, <1>5, <1>6, <1>7, QuietOrHands, HandsCases

LEMMA OrderedInvariant == Spec => []OrderedInv
<1>1. Init => WriteInv /\ OrderInv
  BY DEF Init, WriteInv, OrderInv, NULL
<1>2. OutputInv /\ WriteInv /\ OrderInv /\ [Next]_vars => WriteInv' /\ OrderInv'
  <2> SUFFICES ASSUME OutputInv, WriteInv, OrderInv, [Next]_vars
               PROVE  WriteInv' /\ OrderInv'
    OBVIOUS
  <2>1. CASE Next
    BY <2>1, WriteStep, OrderStep
  <2>2. CASE UNCHANGED vars
    <3>1. /\ UNCHANGED <<list, p_sendable, out_locked, target, user, message>>
          /\ UNCHANGED <<tsender, todo, current, written, sent>>
      BY <2>2 DEF vars, shared, locks, walk, history
    <3>2. QED
      BY <3>1 DEF WriteInv, OrderInv, Last, Pending, Handed, Passed, Distributed
  <2>3. QED BY <2>1, <2>2
<1>3. QED BY <1>1, <1>2, OutputInvariant, PTL DEF Spec, OrderedInv

\* No connection is sent a message twice or after a later one: for any number of
\* connections that come and go, whatever fails on the way, and whether the owner
\* of the port waits always, never or now and then.
THEOREM EveryOwnerSendsInOrder == Spec => SentInOrder
<1>1. ASSUME OutputInv, WriteInv, OrderInv, [Next]_vars, NEW t \in Targets,
             target[t].thread = "sending", target'[t].thread = "sent"
      PROVE  sent'[t] \in {m \in 1..written : m > sent[t]}
  <2>1. t \in list
    BY <1>1 DEF OutputInv, LinksInv
  <2>2. LinkOK(target[t]) /\ target[t] \in TargetType
        /\ sent \in [Targets -> 0..MaxMessages] /\ written \in Nat
    BY <1>1, <2>1 DEF OutputInv, LinksInv, TypeOK
  <2>3. ~UNCHANGED target[t].thread
    BY <1>1
  <2>4. ~UNCHANGED vars
    BY <2>3 DEF vars
  <2>5. ~Quiet
    BY <2>1, <2>3 DEF Quiet, SameMessages
  <2>6. ~CarriesOn
    BY <1>1, <2>3, CarriedOn
  <2>7. ~ShareHand
    BY <1>1, <2>1, <2>3, HandedOn
  <2>8. ~Attach
    BY <1>1, <2>1, <2>3, AttachedEmpty
  <2>9. PICK u \in Targets : Worker(u)
    BY <1>1, <2>4, <2>5, <2>6, <2>7, <2>8, QuietOrHands, HandsCases
  <2>10. u = t
    BY <1>1, <2>1, <2>3, <2>9, OtherWorkers
  <2>11. sent' = [sent EXCEPT ![t] = target[t].local]
    <3>1. Transmit(t)
      BY <1>1, <2>9, <2>10
         DEF Worker, Locate, CheckPid, Collect, Fetch, Finish, PostSpace,
             CloseEndpoint
    <3>2. ~Moves(t, "failed")
      BY <1>1, <2>2 DEF Moves, OutputInv, TypeOK, TargetType
    <3>3. QED BY <3>1, <3>2 DEF Transmit
  <2>12. /\ Last(t) = target[t].local /\ Pending(t)
         /\ target[t].local \in Nat
    BY <1>1, <2>2 DEF LinkOK, Last, Pending, TargetType
  <2>13. target[t].local <= written /\ sent[t] < target[t].local
    BY <1>1, <2>1, <2>2, <2>12, HandedWritten DEF OrderInv
  <2>14. QED BY <2>2, <2>11, <2>12, <2>13
<1>2. OrderedInv /\ [Next]_vars =>
        \A t \in Targets :
          target[t].thread = "sending" /\ target'[t].thread = "sent" =>
            sent'[t] \in {m \in 1..written : m > sent[t]}
  BY <1>1 DEF OrderedInv
<1>3. QED
  BY <1>2, OrderedInvariant, PTL DEF Spec, SentInOrder

-----------------------------------------------------------------------------
(* Every connection is handed one message after the other, for an owner     *)
(* that always waits.                                                       *)

LEMMA SequenceQuiet ==
  ASSUME OutputInv, SequenceInv, Quiet
  PROVE  SequenceInv'
<1>1. list \subseteq Targets /\ list' \subseteq list
  BY DEF OutputInv, TypeOK, Quiet
<1>2. written' > 0 => require_complete_send'
  BY DEF Quiet, SequenceInv
<1>3. tsender' = "hand" => ~target'[current'].sending
  <2>1. tsender = "hand" => current \in list
    BY DEF OutputInv, WalkInv
  <2>2. QED BY <2>1 DEF Quiet, SequenceInv, SameMessages
<1>4. \A t \in list' :
        /\ target'[t].thread # "failed" /\ sent'[t] = sent[t]
        /\ Last(t)' = Last(t) /\ Pending(t)' = Pending(t)
        /\ Handed(t)' = Handed(t)
  BY <1>1, QuietKeeps DEF Quiet, SequenceInv, SameMessages
<1> HIDE DEF Last, Pending, Handed
<1>5. QED BY <1>1, <1>2, <1>3, <1>4 DEF SequenceInv

LEMMA SequenceCarriedOn ==
  ASSUME OutputInv, WriteInv, SequenceInv, AlwaysWaits, CarriesOn
  PROVE  SequenceInv'
<1>1. /\ UNCHANGED <<list, target, sent>>
      /\ \A t \in list : Handed(t)' = Handed(t)
  BY CarriedOn
<1>2. \A t \in list : Last(t)' = Last(t) /\ Pending(t)' = Pending(t)
  BY <1>1 DEF Last, Pending
<1>3. written' > 0 => require_complete_send'
  <2>1. ASSUME NEW wait \in WaitModes, Write(wait)
        PROVE  require_complete_send'
    <3>1. wait = TRUE
      BY DEF AlwaysWaits
    <3>2. QED BY <2>1, <3>1 DEF Write
  <2>2. CASE UNCHANGED <<require_complete_send, written>>
    BY <2>2 DEF SequenceInv
  <2>3. QED
    BY <2>1, <2>2
       DEF CarriesOn, ShareSet, LockOut, ShareSpace, ShareReset, ShareNext,
           shared, history
<1>4. tsender' = "hand" => ~target'[current'].sending
  <2>1. CASE ShareSpace
    <3>1. /\ tsender = "space" /\ UNCHANGED <<target, current>>
          /\ target[current].space_available > 0
      BY <2>1 DEF ShareSpace, walk
    <3>2. PICK c \in list : c = current
      BY <3>1 DEF OutputInv, WalkInv
    <3>3. LinkOK(target[c])
      BY DEF OutputInv, LinksInv, TypeOK
    <3>4. QED BY <3>1, <3>2, <3>3 DEF LinkOK
  <2>2. ASSUME NEW u \in Targets, ShareNext(u)
        PROVE  tsender' # "hand"
    <3>1. tsender = "share" /\ tsender' \in {tsender, WaitIfRequired}
          /\ (p_sendable # NULL \/ tsender' = tsender)
      BY <2>2 DEF ShareNext
    <3>2. p_sendable # NULL => require_complete_send
      BY DEF WriteInv, SequenceInv
    <3>3. QED BY <3>1, <3>2 DEF WaitIfRequired
  <2>3. CASE \/ \E wait \in WaitModes : Write(wait)
             \/ ShareSet \/ LockOut \/ ShareReset
    BY <1>1, <2>3
       DEF Write, ShareSet, LockOut, ShareReset, walk, SequenceInv
  <2>4. QED BY <2>1, <2>2, <2>3 DEF CarriesOn
<1> HIDE DEF Last, Pending, Handed
<1>5. QED BY <1>1, <1>2, <1>3, <1>4 DEF SequenceInv

LEMMA SequenceHandedOn ==
  ASSUME OutputInv, SequenceInv, ShareHand
  PROVE  SequenceInv'
<1> HIDE DEF Last, Pending, Handed
<1>1. /\ UNCHANGED <<list, sent, require_complete_send, written>>
      /\ tsender = "hand" /\ tsender' = "share" /\ p_sendable \in Nat \ {0}
  BY HandedOn
<1>2. PICK c \in list :
        /\ c = current
        /\ Handed(c) = p_sendable - 1 /\ Handed(c)' = p_sendable
        /\ ~target[c].sending => Last(c) = sent[c] /\ Last(c)' = p_sendable
        /\ target'[c].thread = target[c].thread
        /\ \A t \in list \ {c} :
             /\ target'[t] = target[t] /\ Handed(t)' = Handed(t)
             /\ Last(t)' = Last(t) /\ Pending(t)' = Pending(t)
  BY HandedOn
<1>3. ~target[c].sending
  BY <1>1, <1>2 DEF SequenceInv
<1>4. sent[c] \in {0, p_sendable - 1}
  BY <1>2, <1>3 DEF SequenceInv
<1>5. sent'[c] = 0 \/ Last(c)' = sent'[c] + 1
  BY <1>1, <1>2, <1>3, <1>4
<1>6. QED BY <1>1, <1>2, <1>3, <1>5 DEF SequenceInv

LEMMA SequenceAttached ==
  ASSUME OutputInv, SequenceInv, Attach
  PROVE  SequenceInv'
<1>1. /\ tsender' # "hand" /\ UNCHANGED <<require_complete_send, written>>
      /\ \A t \in Targets : Handed(t)' = Handed(t)
      /\ list \subseteq Targets
  BY AttachedEmpty DEF OutputInv, TypeOK
<1>2. CASE UNCHANGED <<list, target, sent>>
  <2>1. \A t \in list : Last(t)' = Last(t) /\ Pending(t)' = Pending(t)
    BY <1>2 DEF Last, Pending
  <2> HIDE DEF Last, Pending, Handed
  <2>2. QED BY <1>1, <1>2, <2>1 DEF SequenceInv
<1>3. ASSUME NEW c \in Targets,
             c \notin list, list' = list \union {c}, sent'[c] = 0,
             Last(c)' = 0, ~Pending(c)', target'[c].thread # "failed",
             \A t \in list : /\ target'[t].thread = target[t].thread
                             /\ Last(t)' = Last(t) /\ Pending(t)' = Pending(t),
             \A t \in Targets \ {c} : sent'[t] = sent[t]
      PROVE  SequenceInv'
  <2> HIDE DEF Last, Pending, Handed
  <2>1. QED BY <1>1, <1>3 DEF SequenceInv
<1>4. QED BY <1>2, <1>3, AttachedEmpty

LEMMA SequenceWorker ==
  ASSUME OutputInv, SequenceInv, SendsWork, NEW t \in Targets, Worker(t)
  PROVE  SequenceInv'
<1>1. tsender' = "hand" => ~target'[current'].sending
  <2>1. tsender = "hand" => current \in list
    BY DEF OutputInv, WalkInv
  <2>2. QED BY <2>1, WorkerEffect, OtherWorkers DEF SequenceInv
<1>2. /\ t \in list /\ target'[t].thread # "failed"
      /\ Last(t)' = Last(t)
      /\ Pending(t)' => Pending(t) /\ sent'[t] = sent[t]
  BY WorkerEffect DEF SendsWork
<1> HIDE DEF Last, Pending, Handed
<1>3. QED BY <1>1, <1>2, OtherWorkers DEF SequenceInv

LEMMA SequenceStep ==
  ASSUME OutputInv, WriteInv, SequenceInv, Next, AlwaysWaits, SendsWork
  PROVE  SequenceInv'
BY QuietOrHands, HandsCases, SequenceQuiet, SequenceCarriedOn, SequenceHandedOn,
   SequenceAttached, SequenceWorker

\* The invariant of an output port whose owner always waits.
LEMMA OutboxInvariant ==
  ASSUME AlwaysWaits, SendsWork
  PROVE  Spec => []OutboxInv
<1>1. Init => WriteInv /\ SequenceInv
  BY DEF Init, WriteInv, SequenceInv, NULL
<1>2. OutputInv /\ WriteInv /\ SequenceInv /\ [Next]_vars
        => WriteInv' /\ SequenceInv'
  <2> SUFFICES ASSUME OutputInv, WriteInv, SequenceInv, [Next]_vars
               PROVE  WriteInv' /\ SequenceInv'
    OBVIOUS
  <2>1. CASE Next
    BY <2>1, WriteStep, SequenceStep
  <2>2. CASE UNCHANGED vars
    <3>1. /\ UNCHANGED <<list, p_sendable, require_complete_send, out_locked>>
          /\ UNCHANGED <<target, user, message, tsender, todo, current>>
          /\ UNCHANGED <<written, sent>>
      BY <2>2 DEF vars, shared, locks, walk, history
    <3>2. WriteInv'
      BY <3>1 DEF WriteInv
    <3>3. Quiet
      BY <3>1 DEF Quiet, SameMessages
    <3>4. QED BY <3>2, <3>3, SequenceQuiet
  <2>3. QED BY <2>1, <2>2
<1>3. QED BY <1>1, <1>2, OutputInvariant, PTL DEF Spec, OutboxInv

-----------------------------------------------------------------------------
(* The refinement *)

\* A transmission is what the Outbox sends.
LEMMA TransmitSends ==
  ASSUME OutputInv, WriteInv, SequenceInv, SendsWork,
         NEW t \in Targets, Transmit(t)
  PROVE  Abstract!Send(t)
<1>1. /\ sent' = [sent EXCEPT ![t] = target[t].local]
      /\ UNCHANGED <<written, list>> /\ target[t].thread = "sending"
  BY DEF Transmit, SendsWork, workerOnly
<1>2. t \in list /\ LinkOK(target[t]) /\ target[t] \in TargetType
  BY <1>1 DEF OutputInv, LinksInv, TypeOK
<1>3. target[t].local # NULL /\ Last(t) = target[t].local /\ Pending(t)
  BY <1>1, <1>2 DEF LinkOK, Last, Pending
<1>4. target[t].local \in Handed(t)..Handed(t)
  BY <1>2, <1>3 DEF SequenceInv, NULL, TargetType
<1>5. Handed(t) <= written
  BY <1>2, HandedWritten
<1>6. target[t].local \in 1..written
  BY <1>2, <1>3, <1>4, <1>5 DEF TargetType, NULL, OutputInv, TypeOK
<1>7. sent[t] # 0 => target[t].local = sent[t] + 1
  BY <1>2, <1>3 DEF SequenceInv
<1>8. QED BY <1>1, <1>2, <1>6, <1>7 DEF Abstract!Send

LEMMA StepRefines ==
  ASSUME OutputInv, WriteInv, SequenceInv, AlwaysWaits, SendsWork, Next
  PROVE  Abstract!Next \/ UNCHANGED <<written, list, sent>>
<1>1. CASE Quiet
  <2>1. UNCHANGED <<written, sent>>
    BY <1>1 DEF Quiet
  <2>2. CASE list' = list
    BY <2>1, <2>2
  <2>3. ASSUME NEW t \in Targets, list' = list \ {t}
        PROVE  Abstract!Next
    BY <2>1, <2>3 DEF Abstract!Disconnect, Abstract!Next
  <2>4. QED BY <1>1, <2>2, <2>3 DEF Quiet
<1>2. CASE \E wait \in WaitModes : Write(wait)
  BY <1>2 DEF Write, Abstract!Write, Abstract!Next
<1>3. CASE \/ ShareSet \/ LockOut \/ ShareSpace \/ ShareHand \/ ShareReset
           \/ \E t \in Targets : ShareNext(t)
  BY <1>3 DEF ShareSet, LockOut, ShareSpace, ShareHand, ShareReset, ShareNext,
              history
<1>4. CASE Attach
  <2>1. label \in Targets
    BY <1>4 DEF OutputInv, CommandInv, Attach
  <2>2. CASE label \in list
    BY <1>4, <2>2 DEF Attach
  <2>3. CASE label \notin list
    BY <1>4, <2>1, <2>3 DEF Attach, Abstract!Connect, Abstract!Next
  <2>4. QED BY <2>2, <2>3
<1>5. ASSUME NEW t \in Targets, Worker(t)
      PROVE  Abstract!Next \/ UNCHANGED <<written, list, sent>>
  <2>1. CASE Transmit(t)
    BY <2>1, TransmitSends DEF Abstract!Next
  <2>2. CASE ~Transmit(t)
    BY <1>5, <2>2
       DEF Worker, Locate, CheckPid, Collect, Fetch, Finish, PostSpace,
           CloseEndpoint, workerOnly
  <2>3. QED BY <2>1, <2>2
<1>6. QED BY <1>1, <1>2, <1>3, <1>4, <1>5, QuietOrHands DEF Hands

\* Write(true) for every message makes every connection complete: over each one
\* the messages are sent one after the other, none twice and none left out,
\* until it is removed - for any number of connections that come, take too long,
\* cannot be reached and go, if a transmission that ends has succeeded.
THEOREM WaitingOwnerHasOutbox ==
  ASSUME AlwaysWaits, SendsWork
  PROVE  Spec => ImplementsOutbox
<1>1. Init => Abstract!Init
  BY DEF Init, Abstract!Init
<1>2. OutboxInv /\ [Next]_vars => [Abstract!Next]_<<written, list, sent>>
  <2> SUFFICES ASSUME OutputInv, WriteInv, SequenceInv, [Next]_vars
               PROVE  Abstract!Next \/ UNCHANGED <<written, list, sent>>
    BY DEF OutboxInv
  <2>1. CASE Next
    BY <2>1, StepRefines
  <2>2. CASE UNCHANGED vars
    BY <2>2 DEF vars, history
  <2>3. QED BY <2>1, <2>2
<1>3. QED
  BY <1>1, <1>2, OutboxInvariant, PTL
  DEF Spec, ImplementsOutbox, Abstract!Spec, Abstract!outboxVars
=============================================================================
