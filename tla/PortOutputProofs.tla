-------------------------- MODULE PortOutputProofs --------------------------
(***************************************************************************)
(* Proofs about PortOutput for every set of targets, every number of       *)
(* messages and commands, and every combination of failures.               *)
(***************************************************************************)
EXTENDS PortOutput, TLAPS

(***************************************************************************)
(* The record of one connection                                            *)
(***************************************************************************)

\* Updates of one field keep the type; updates of several follow.
LEMMA FieldTypes ==
  ASSUME NEW r \in TargetType
  PROVE  /\ \A b \in BOOLEAN :
              /\ [r EXCEPT !.active = b] \in TargetType
              /\ [r EXCEPT !.deactivate = b] \in TargetType
              /\ [r EXCEPT !.deactivated = b] \in TargetType
              /\ [r EXCEPT !.ticking = b] \in TargetType
              /\ [r EXCEPT !.sending = b] \in TargetType
         /\ \A n \in Nat : /\ [r EXCEPT !.something_to_send = n] \in TargetType
                           /\ [r EXCEPT !.space_available = n] \in TargetType
         /\ \A m \in 0..MaxMessages : /\ [r EXCEPT !.p_sendable = m] \in TargetType
                                      /\ [r EXCEPT !.local = m] \in TargetType
         /\ \A w \in WorkerStates : [r EXCEPT !.thread = w] \in TargetType
BY DEF TargetType

LEMMA FieldsTyped ==
  ASSUME NEW r \in TargetType
  PROVE  /\ r.active \in BOOLEAN /\ r.deactivate \in BOOLEAN
         /\ r.deactivated \in BOOLEAN /\ r.ticking \in BOOLEAN
         /\ r.sending \in BOOLEAN
         /\ r.something_to_send \in Nat /\ r.space_available \in Nat
         /\ r.p_sendable \in 0..MaxMessages /\ r.local \in 0..MaxMessages
         /\ r.thread \in WorkerStates
BY DEF TargetType

\* A step of a connection's thread leaves everything else alone.
LEMMA WorkerFrame ==
  ASSUME NEW t \in Targets, TypeOK, Worker(t)
  PROVE  /\ UNCHANGED workerOnly
         /\ \A u \in Targets : u # t => target'[u] = target[u]
<1>1. target \in [Targets -> TargetType]
  BY DEF TypeOK
<1>2. CASE Locate(t)
  BY <1>1, <1>2 DEF Locate, Moves, Dies
<1>3. CASE CheckPid(t)
  BY <1>1, <1>3 DEF CheckPid, Moves, Dies
<1>4. CASE Collect(t)
  BY <1>1, <1>4 DEF Collect
<1>5. CASE Fetch(t)
  BY <1>1, <1>5 DEF Fetch, ShouldEnd, FetchMessage
<1>6. CASE Transmit(t)
  BY <1>1, <1>6 DEF Transmit, Moves
<1>7. CASE Finish(t)
  BY <1>1, <1>7 DEF Finish
<1>8. CASE PostSpace(t)
  BY <1>1, <1>8 DEF PostSpace, OnePost
<1>9. CASE CloseEndpoint(t)
  BY <1>1, <1>9 DEF CloseEndpoint, Moves
<1>10. QED BY <1>2, <1>3, <1>4, <1>5, <1>6, <1>7, <1>8, <1>9 DEF Worker

\* A step of a connection's thread keeps the type of its record: the fields it
\* assigns, one after the other.
LEMMA WorkerType ==
  ASSUME NEW t \in Targets, TypeOK, Worker(t)
  PROVE  target' \in [Targets -> TargetType] /\ sent' \in [Targets -> 0..MaxMessages]
<1> DEFINE r == target[t]
<1>1. /\ target \in [Targets -> TargetType] /\ sent \in [Targets -> 0..MaxMessages]
      /\ r \in TargetType /\ NULL \in 0..MaxMessages
  BY OutputAssumption DEF TypeOK, NULL
<1>2. /\ r.active \in BOOLEAN /\ r.deactivate \in BOOLEAN /\ r.deactivated \in BOOLEAN
      /\ r.something_to_send \in Nat /\ r.space_available \in Nat
      /\ r.p_sendable \in 0..MaxMessages /\ r.local \in 0..MaxMessages
  BY <1>1, FieldsTyped
<1>3. ASSUME NEW q \in TargetType, target' = [target EXCEPT ![t] = q]
      PROVE  target' \in [Targets -> TargetType]
  BY <1>1, <1>3
<1>4. \A p \in WorkerStates : [r EXCEPT !.thread = p] \in TargetType
  BY <1>1, FieldTypes
<1>5. ASSUME \E p \in WorkerStates : Moves(t, p)
      PROVE  target' \in [Targets -> TargetType]
  BY <1>3, <1>4, <1>5 DEF Moves
<1>6. ASSUME Dies(t)
      PROVE  target' \in [Targets -> TargetType]
  <2>1. [r EXCEPT !.active = FALSE, !.deactivated = TRUE, !.thread = "dead"]
          \in TargetType
    BY Zenon, <1>1, FieldTypes DEF WorkerStates
  <2>2. QED BY <1>3, <1>6, <2>1 DEF Dies
<1>7. CASE Locate(t) \/ CheckPid(t) \/ CloseEndpoint(t)
  <2>1. UNCHANGED sent
    BY <1>7 DEF Locate, CheckPid, CloseEndpoint, workerOnly
  <2>2. (\E p \in WorkerStates : Moves(t, p)) \/ Dies(t)
    BY <1>7 DEF Locate, CheckPid, CloseEndpoint, WorkerStates
  <2>3. QED BY <1>1, <1>5, <1>6, <2>1, <2>2
<1>8. CASE Collect(t)
  <2>1. r.something_to_send - 1 \in Nat
    BY <1>2, <1>8 DEF Collect
  <2>2. [r EXCEPT !.something_to_send = r.something_to_send - 1, !.thread = "woken"]
          \in TargetType
    BY Zenon, <1>1, <2>1, FieldTypes DEF WorkerStates
  <2>3. QED BY <1>1, <1>3, <1>8, <2>2 DEF Collect
<1>9. CASE Fetch(t)
  <2>1. [r EXCEPT !.active = FALSE, !.deactivated = TRUE, !.thread = "closing"]
          \in TargetType
    BY Zenon, <1>1, FieldTypes DEF WorkerStates
  <2>2. [r EXCEPT !.ticking = TRUE, !.local = r.p_sendable, !.p_sendable = NULL,
                  !.thread = "sending"] \in TargetType
    BY Zenon, <1>1, <1>2, FieldTypes DEF WorkerStates
  <2>3. QED BY <1>1, <1>3, <1>9, <2>1, <2>2 DEF Fetch, FetchMessage
<1>10. CASE Transmit(t)
  <2>1. \E p \in WorkerStates : Moves(t, p)
    BY <1>10 DEF Transmit, WorkerStates
  <2>2. sent' \in [Targets -> 0..MaxMessages]
    BY <1>1, <1>2, <1>10 DEF Transmit
  <2>3. QED BY <1>5, <2>1, <2>2
<1>11. CASE Finish(t)
  <2> DEFINE a == r.active /\ ~r.deactivate /\ r.thread = "sent"
             d == r.deactivated \/ r.deactivate
  <2>1. a \in BOOLEAN /\ d \in BOOLEAN
    BY <1>2
  <2>2. [r EXCEPT !.active = a, !.deactivated = d, !.sending = FALSE,
                  !.ticking = FALSE, !.thread = "post"] \in TargetType
    <3> HIDE DEF a, d
    <3>1. QED BY Zenon, <1>1, <2>1, FieldTypes DEF WorkerStates
  <2>3. QED BY <1>1, <1>3, <1>11, <2>2 DEF Finish
<1>12. CASE PostSpace(t)
  <2> DEFINE p == IF r.deactivated THEN "closing" ELSE "wait"
  <2>1. r.space_available + 1 \in Nat /\ p \in WorkerStates
    BY <1>2 DEF WorkerStates
  <2>2. [r EXCEPT !.local = NULL, !.space_available = r.space_available + 1,
                  !.thread = p] \in TargetType
    <3> HIDE DEF p
    <3>1. QED BY Zenon, <1>1, <2>1, FieldTypes
  <2>3. QED BY <1>1, <1>3, <1>12, <2>2 DEF PostSpace, OnePost
<1>13. QED BY <1>7, <1>8, <1>9, <1>10, <1>11, <1>12 DEF Worker

\* A step of a connection's thread keeps what is said of its connection.
LEMMA WorkerLink ==
  ASSUME NEW t \in Targets, TypeOK, LinkOK(target[t]), Worker(t)
  PROVE  LinkOK(target'[t])
<1>1. target \in [Targets -> TargetType]
  BY DEF TypeOK
<1>2. CASE target[t].thread = "init" /\ Moves(t, "check")
  BY <1>1, <1>2 DEF Moves, LinkOK, TargetType, NULL
<1>3. CASE target[t].thread = "check" /\ Moves(t, "wait")
  BY <1>1, <1>3 DEF Moves, LinkOK, TargetType, NULL
<1>11. CASE target[t].thread \in {"init", "check"} /\ Dies(t)
  BY <1>1, <1>11 DEF Dies, LinkOK, TargetType, NULL
<1>4. CASE Collect(t)
  BY <1>1, <1>4 DEF Collect, LinkOK, TargetType, NULL
<1>5. CASE Fetch(t)
  BY <1>1, <1>5 DEF Fetch, ShouldEnd, FetchMessage, LinkOK, TargetType, NULL
<1>6. CASE Transmit(t)
  BY <1>1, <1>6 DEF Transmit, Moves, LinkOK, TargetType, NULL
<1>7. CASE Finish(t)
  BY <1>1, <1>7 DEF Finish, LinkOK, TargetType, NULL
<1>8. CASE PostSpace(t)
  BY <1>1, <1>8 DEF PostSpace, OnePost, LinkOK, TargetType, NULL
<1>9. CASE CloseEndpoint(t)
  BY <1>1, <1>9 DEF CloseEndpoint, Moves, LinkOK, TargetType, NULL
<1>10. CASE Locate(t) \/ CheckPid(t)
  BY <1>2, <1>3, <1>11, <1>10 DEF Locate, CheckPid
<1>12. QED BY <1>4, <1>5, <1>6, <1>7, <1>8, <1>9, <1>10 DEF Worker

\* What NewTarget, Deactivate and Share do to one connection.
LEMMA NewLink == NewTarget \in TargetType /\ LinkOK(NewTarget)
<1>1. 0 \in 0..MaxMessages
  BY OutputAssumption
<1>2. QED BY <1>1 DEF NewTarget, TargetType, LinkOK, WorkerStates, NULL

LEMMA DeactivatedLink ==
  ASSUME TypeOK, NEW t \in Targets, target' = Deactivated(t)
  PROVE  /\ target' \in [Targets -> TargetType]
         /\ LinkOK(target[t]) => LinkOK(target'[t])
         /\ target'[t].thread = target[t].thread
         /\ \A u \in Targets : u # t => target'[u] = target[u]
<1> DEFINE r == target[t]
           n == r.something_to_send + 1
<1>1. target \in [Targets -> TargetType] /\ r \in TargetType /\ n \in Nat
  BY DEF TypeOK, TargetType
<1>2. target' \in [Targets -> TargetType]
  <2>1. target' = [target EXCEPT ![t] =
                     [r EXCEPT !.deactivate = TRUE, !.something_to_send = n]]
    BY DEF Deactivated
  <2>2. [r EXCEPT !.deactivate = TRUE, !.something_to_send = n] \in TargetType
    <3> HIDE DEF n
    <3>1. QED BY Zenon, <1>1, FieldTypes
  <2>3. QED BY <1>1, <2>1, <2>2
<1>3. /\ \A u \in Targets : u # t => target'[u] = target[u]
      /\ target'[t].thread = target[t].thread
  BY <1>1 DEF Deactivated, TargetType
<1>4. LinkOK(target[t]) => LinkOK(target'[t])
  BY <1>1 DEF Deactivated, LinkOK, TargetType
<1>5. QED BY <1>2, <1>3, <1>4

LEMMA HandedLink ==
  ASSUME TypeOK, current \in Targets, LinkOK(target[current]), p_sendable # NULL,
         ShareHand
  PROVE  /\ target' \in [Targets -> TargetType]
         /\ LinkOK(target'[current])
         /\ target'[current].thread = target[current].thread
         /\ \A u \in Targets : u # current => target'[u] = target[u]
<1> DEFINE r == target[current]
           n == r.space_available - 1
           m == r.something_to_send + 1
           q == [r EXCEPT !.space_available = n, !.p_sendable = p_sendable,
                          !.something_to_send = m, !.sending = TRUE]
<1>1. /\ target \in [Targets -> TargetType] /\ p_sendable \in 0..MaxMessages
      /\ r \in TargetType
  BY DEF TypeOK
<1>2. CASE target[current].sending
  BY <1>1, <1>2 DEF ShareHand
<1>3. CASE ~target[current].sending
  <2>1. r.space_available > 0 /\ target' = [target EXCEPT ![current] = q]
    BY <1>3 DEF ShareHand, TakeSpace
  <2>2. r.space_available = 1
    BY <1>1, <1>3, <2>1 DEF LinkOK, TargetType
  <2>3. n \in Nat /\ m \in Nat
    BY <1>1, <2>2 DEF TargetType
  <2>4. q \in TargetType
    <3> HIDE DEF n, m
    <3>1. QED BY Zenon, <1>1, <2>3, FieldTypes
  <2>5. LinkOK(q) /\ q.thread = r.thread
    BY <1>1, <1>3, <2>2 DEF LinkOK, TargetType, NULL
  <2>6. QED BY <1>1, <2>1, <2>4, <2>5
<1>4. QED BY <1>2, <1>3

(***************************************************************************)
(* The steps of the three threads                                          *)
(***************************************************************************)

\* okay_to_send stays below 2 because its permission is in one place (BatonInv).
LEMMA TypeStep ==
  ASSUME OutputInv, Next
  PROVE  TypeOK'
<1>1. TypeOK /\ BatonInv /\ WalkInv /\ LockPlaces /\ LinksInv /\ CommandInv
  BY DEF OutputInv
<1>2. CASE \E wait \in WaitModes : Write(wait)
  <2>1. /\ written' \in 0..MaxMessages /\ message' \in 0..MaxMessages
        /\ require_complete_send' \in BOOLEAN
    BY <1>1, <1>2, OutputAssumption DEF Write, TypeOK
  <2>2. QED BY <1>1, <1>2, <2>1
       DEF Write, shared, locks, walk, finish, history, TypeOK, UserStates,
           TsenderStates, PortStates, Commands, Threads
<1>3. CASE ShareWait
  BY <1>1, <1>3
       DEF ShareWait, Permission, shared, locks, walk, finish, history, TypeOK,
           UserStates, TsenderStates, PortStates, Commands, Threads
<1>4. CASE ShareSet
  BY <1>1, <1>4
       DEF ShareSet, shared, locks, walk, finish, history, TypeOK, UserStates,
           TsenderStates, PortStates, Commands, Threads
<1>5. CASE SharePulse
  BY <1>1, <1>5
       DEF SharePulse, shared, locks, walk, finish, history, TypeOK,
           UserStates, TsenderStates, PortStates, Commands, Threads
<1>6. CASE FinishSend
  BY <1>1, <1>6
       DEF FinishSend, shared, locks, walk, finish, history, TypeOK,
           UserStates, TsenderStates, PortStates, Commands, Threads
<1>7. CASE FinishWait
  BY <1>1, <1>7
       DEF FinishWait, shared, locks, walk, finish, history, TypeOK,
           UserStates, TsenderStates, PortStates, Commands, Threads
<1>8. CASE StartEnd
  BY <1>1, <1>8
       DEF StartEnd, shared, locks, walk, finish, history, TypeOK, UserStates,
           TsenderStates, PortStates, Commands, Threads
<1>9. CASE SayEnd
  BY <1>1, <1>9
       DEF SayEnd, shared, locks, walk, finish, history, TypeOK, UserStates,
           TsenderStates, PortStates, Commands, Threads
<1>10. CASE EndJoin
  BY <1>1, <1>10
       DEF EndJoin, shared, locks, walk, finish, history, TypeOK, UserStates,
           TsenderStates, PortStates, Commands, Threads
<1>11. CASE TsenderHead
  BY <1>1, <1>11
       DEF TsenderHead, shared, locks, walk, finish, history, TypeOK,
           UserStates, TsenderStates, PortStates, Commands, Threads
<1>12. CASE TsenderWait
  BY <1>1, <1>12
       DEF TsenderWait, shared, locks, walk, finish, history, TypeOK,
           UserStates, TsenderStates, PortStates, Commands, Threads
<1>13. CASE TsenderWoken
  BY <1>1, <1>13
       DEF TsenderWoken, shared, locks, walk, finish, history, TypeOK,
           UserStates, TsenderStates, PortStates, Commands, Threads
<1>14. CASE LockList("tsender")
  BY <1>1, <1>14
       DEF LockList, At, Goes, shared, locks, walk, finish, history, TypeOK,
           UserStates, TsenderStates, PortStates, Commands, Threads
<1>15. CASE \E t \in Targets : ScanKeep("tsender", t)
  BY <1>1, <1>15
       DEF ScanKeep, At, shared, locks, walk, finish, history, TypeOK,
           UserStates, TsenderStates, PortStates, Commands, Threads
<1>16. CASE \E t \in Targets : ScanCondemn("tsender", t)
  BY <1>1, <1>16
       DEF ScanCondemn, At, Goes, shared, locks, walk, finish, history, TypeOK,
           UserStates, TsenderStates, PortStates, Commands, Threads
<1>17. CASE Destroy("tsender")
  <2>1. current \in Targets
    BY <1>1, <1>17 DEF TypeOK, WalkInv, Destroy, At
  <2>2. target' \in [Targets -> TargetType]
    BY <1>1, <2>1, <1>17, DeactivatedLink DEF Destroy
  <2>3. QED BY <1>1, <1>17, <2>2
       DEF Destroy, At, Goes, shared, locks, walk, finish, history, TypeOK,
           UserStates, TsenderStates, PortStates, Commands, Threads
<1>18. CASE Delete("tsender")
  BY <1>1, <1>18
       DEF Delete, At, Goes, Joined, shared, locks, walk, finish, history,
           TypeOK, UserStates, TsenderStates, PortStates, Commands, Threads
<1>19. CASE TsenderScanned
  BY <1>1, <1>19
       DEF TsenderScanned, shared, locks, walk, finish, history, TypeOK,
           UserStates, TsenderStates, PortStates, Commands, Threads
<1>20. CASE LockOut
  BY <1>1, <1>20
       DEF LockOut, shared, locks, walk, finish, history, TypeOK, UserStates,
           TsenderStates, PortStates, Commands, Threads
<1>21. CASE \E t \in Targets : ShareNext(t)
  BY <1>1, <1>21
       DEF ShareNext, MoveOn, WaitIfRequired, shared, locks, walk, finish, history,
           TypeOK, UserStates, TsenderStates, PortStates, Commands, Threads
<1>22. CASE ShareSpace
  BY <1>1, <1>22
       DEF ShareSpace, shared, locks, walk, finish, history, TypeOK,
           UserStates, TsenderStates, PortStates, Commands, Threads
<1>23. CASE ShareHand
  <2>1. current \in Targets /\ LinkOK(target[current]) /\ p_sendable # NULL
    BY <1>1, <1>23 DEF TypeOK, WalkInv, LinksInv, ShareHand
  <2>2. target' \in [Targets -> TargetType]
    BY <1>1, <1>23, <2>1, HandedLink
  <2>3. QED BY <1>1, <1>23, <2>2
       DEF ShareHand, shared, locks, walk, finish, history, TypeOK, UserStates,
           TsenderStates, PortStates, Commands, Threads
<1>24. CASE ShareReset
  <2>1. out_locked' \in BOOLEAN
    BY <1>24 DEF ShareReset
  <2>2. p_sendable' \in 0..MaxMessages
    BY <1>24, OutputAssumption DEF ShareReset, NULL
  <2>3. QED BY <1>1, <1>24, <2>1, <2>2
       DEF ShareReset, shared, locks, walk, finish, history, TypeOK,
           UserStates, TsenderStates, PortStates, Commands, Threads
<1>25. CASE ShareOkay
  BY <1>1, <1>25
       DEF ShareOkay, BatonInv, Sharing, WithList, shared, locks, walk,
           finish, history, TypeOK, UserStates, TsenderStates, PortStates,
           Commands, Threads
<1>26. CASE TsenderRelease
  BY <1>1, <1>26
       DEF TsenderRelease, shared, locks, walk, finish, history, TypeOK,
           UserStates, TsenderStates, PortStates, Commands, Threads
<1>27. CASE \E c \in {"data", "attach", "detach"}, t \in Targets : Receive(c, t)
  BY <1>1, <1>27, OutputAssumption
       DEF Receive, shared, locks, walk, finish, history, TypeOK, UserStates,
           TsenderStates, PortStates, Commands, Threads
<1>28. CASE ReceiveDetachAll
  BY <1>1, <1>28
       DEF ReceiveDetachAll, shared, locks, walk, finish, history, TypeOK,
           UserStates, TsenderStates, PortStates, Commands, Threads
<1>29. CASE ReadHeader
  BY <1>1, <1>29
       DEF ReadHeader, shared, locks, walk, finish, history, TypeOK,
           UserStates, TsenderStates, PortStates, Commands, Threads
<1>30. CASE LockList("port")
  BY <1>1, <1>30
       DEF LockList, At, Goes, shared, locks, walk, finish, history, TypeOK,
           UserStates, TsenderStates, PortStates, Commands, Threads
<1>31. CASE \E t \in Targets : ScanKeep("port", t)
  BY <1>1, <1>31
       DEF ScanKeep, At, shared, locks, walk, finish, history, TypeOK,
           UserStates, TsenderStates, PortStates, Commands, Threads
<1>32. CASE \E t \in Targets : ScanCondemn("port", t)
  BY <1>1, <1>32
       DEF ScanCondemn, At, Goes, shared, locks, walk, finish, history, TypeOK,
           UserStates, TsenderStates, PortStates, Commands, Threads
<1>33. CASE Destroy("port")
  <2>1. current \in Targets
    BY <1>1, <1>33 DEF TypeOK, WalkInv, Destroy, At
  <2>2. target' \in [Targets -> TargetType]
    BY <1>1, <2>1, <1>33, DeactivatedLink DEF Destroy
  <2>3. QED BY <1>1, <1>33, <2>2
       DEF Destroy, At, Goes, shared, locks, walk, finish, history, TypeOK,
           UserStates, TsenderStates, PortStates, Commands, Threads
<1>34. CASE Delete("port")
  BY <1>1, <1>34
       DEF Delete, At, Goes, Joined, shared, locks, walk, finish, history,
           TypeOK, UserStates, TsenderStates, PortStates, Commands, Threads
<1>35. CASE PortScanned
  BY <1>1, <1>35
       DEF PortScanned, shared, locks, walk, finish, history, TypeOK,
           UserStates, TsenderStates, PortStates, Commands, Threads
<1>36. CASE DataReceived
  BY <1>1, <1>36
       DEF DataReceived, shared, locks, walk, finish, history, TypeOK, UserStates,
           TsenderStates, PortStates, Commands, Threads
<1>37. CASE Data
  BY <1>1, <1>37
       DEF Data, shared, locks, walk, finish, history, TypeOK, UserStates,
           TsenderStates, PortStates, Commands, Threads
<1>38. CASE Attach
  <2>1. /\ list' \subseteq Targets
        /\ target' \in [Targets -> TargetType]
        /\ sent' \in [Targets -> 0..MaxMessages]
    BY <1>1, <1>38, NewLink, OutputAssumption DEF Attach, TypeOK, CommandInv
  <2>2. QED BY <1>1, <1>38, <2>1
       DEF Attach, shared, locks, walk, finish, history, TypeOK, UserStates,
           TsenderStates, PortStates, Commands, Threads
<1>39. CASE DetachLock
  BY <1>1, <1>39
       DEF DetachLock, shared, locks, walk, finish, history, TypeOK,
           UserStates, TsenderStates, PortStates, Commands, Threads
<1>40. CASE DetachTarget
  <2>1. current \in Targets
    BY <1>1, <1>40 DEF TypeOK, WalkInv, DetachTarget
  <2>2. target' \in [Targets -> TargetType]
    BY <1>1, <2>1, <1>40, DeactivatedLink DEF DetachTarget
  <2>3. QED BY <1>1, <1>40, <2>2
       DEF DetachTarget, shared, locks, walk, finish, history, TypeOK,
           UserStates, TsenderStates, PortStates, Commands, Threads
<1>41. CASE DetachJoined
  BY <1>1, <1>41
       DEF DetachJoined, Joined, shared, locks, walk, finish, history, TypeOK,
           UserStates, TsenderStates, PortStates, Commands, Threads
<1>42. CASE DetachAllLock
  BY <1>1, <1>42
       DEF DetachAllLock, shared, locks, walk, finish, history, TypeOK,
           UserStates, TsenderStates, PortStates, Commands, Threads
<1>43. CASE \E t \in Targets : DetachAllNext(t)
  BY <1>1, <1>43
       DEF DetachAllNext, shared, locks, walk, finish, history, TypeOK,
           UserStates, TsenderStates, PortStates, Commands, Threads
<1>44. CASE DetachAllDone
  BY <1>1, <1>44
       DEF DetachAllDone, shared, locks, walk, finish, history, TypeOK,
           UserStates, TsenderStates, PortStates, Commands, Threads
<1>45. CASE TailAskForEnd
  <2>1. tsender_running' \in BOOLEAN
    BY <1>45 DEF TailAskForEnd
  <2>2. QED BY <1>1, <1>45, <2>1
       DEF TailAskForEnd, shared, locks, walk, finish, history, TypeOK,
           UserStates, TsenderStates, PortStates, Commands, Threads
<1>46. CASE TailWakeTsender
  BY <1>1, <1>46
       DEF TailWakeTsender, TailPulse, shared, locks, walk, finish, history,
           TypeOK, UserStates, TsenderStates, PortStates, Commands, Threads
<1>47. CASE TailJoin
  BY <1>1, <1>47
       DEF TailJoin, shared, locks, walk, finish, history, TypeOK, UserStates,
           TsenderStates, PortStates, Commands, Threads
<1>48. CASE \E t \in Targets : Worker(t)
  BY <1>1, <1>48, WorkerFrame, WorkerType
       DEF TypeOK, workerOnly, shared, locks, walk, finish, history
<1>49. QED
  BY <1>2, <1>3, <1>4, <1>5, <1>6, <1>7, <1>8, <1>9, <1>10, <1>11, <1>12,
     <1>13, <1>14, <1>15, <1>16, <1>17, <1>18, <1>19, <1>20, <1>21, <1>22,
     <1>23, <1>24, <1>25, <1>26, <1>27, <1>28, <1>29, <1>30, <1>31, <1>32,
     <1>33, <1>34, <1>35, <1>36, <1>37, <1>38, <1>39, <1>40, <1>41, <1>42,
     <1>43, <1>44, <1>45, <1>46, <1>47, <1>48
  DEF Next, Environment, User, Sender, PortThread

\* The two mutexes.
LEMMA LockStep ==
  ASSUME OutputInv, Next
  PROVE  LockPlaces'
<1>1. TypeOK /\ LockPlaces
  BY DEF OutputInv
<1>2. CASE Environment \/ User
  BY <1>1, <1>2
     DEF Environment, User, Write, FinishSend, StartEnd, Receive, ShareWait,
         ShareSet, SharePulse, FinishWait, SayEnd, EndJoin, LockPlaces, WithList,
         locks
<1>3. CASE \/ TsenderHead \/ TsenderWait \/ TsenderWoken \/ TsenderScanned
         \/ LockOut \/ ShareSpace \/ ShareHand \/ ShareReset \/ ShareOkay
         \/ TsenderRelease \/ \E t \in Targets : ShareNext(t)
  BY <1>1, <1>3
     DEF TsenderHead, TsenderWait, TsenderWoken, TsenderScanned, LockOut,
         ShareNext, WaitIfRequired, ShareSpace, ShareHand, ShareReset,
         ShareOkay, TsenderRelease, LockPlaces, WithList, locks
<1>4. CASE \E who \in Threads : LockList(who) \/ Destroy(who) \/ Delete(who)
  BY <1>1, <1>4
     DEF Threads, LockList, Destroy, Delete, At, Goes, LockPlaces, WithList,
         locks
<1>5. CASE \E who \in Threads, t \in Targets : ScanKeep(who, t) \/ ScanCondemn(who, t)
  BY <1>1, <1>5
     DEF Threads, ScanKeep, ScanCondemn, At, Goes, LockPlaces, WithList, locks
<1>6. CASE \/ ReceiveDetachAll \/ ReadHeader \/ PortScanned \/ Data
         \/ DataReceived \/ Attach
  BY <1>1, <1>6
     DEF ReceiveDetachAll, ReadHeader, PortScanned, Data, DataReceived, Attach, LockPlaces,
         WithList, locks
<1>7. CASE \/ DetachLock \/ DetachTarget \/ DetachJoined \/ DetachAllLock
         \/ DetachAllDone \/ \E t \in Targets : DetachAllNext(t)
  BY <1>1, <1>7
     DEF DetachLock, DetachTarget, DetachJoined, DetachAllLock, DetachAllNext,
         DetachAllDone, LockPlaces, WithList, locks
<1>8. CASE TailAskForEnd \/ TailWakeTsender \/ TailJoin
  BY <1>1, <1>8
     DEF TailAskForEnd, TailWakeTsender, TailPulse, TailJoin, LockPlaces,
         WithList, locks
<1>9. CASE \E t \in Targets : Worker(t)
  BY <1>1, <1>9, WorkerFrame DEF workerOnly, LockPlaces, WithList, locks
<1>10. QED
  BY <1>2, <1>3, <1>4, <1>5, <1>6, <1>7, <1>8, <1>9
  DEF Next, Sender, PortThread, Threads

\* The walk of the holder of list_mutex, and the target it is at.
LEMMA WalkStep ==
  ASSUME OutputInv, Next
  PROVE  WalkInv'
<1>1. TypeOK /\ LockPlaces /\ WalkInv /\ BatonInv
  BY DEF OutputInv
<1>2. CASE Environment \/ User
  BY <1>1, <1>2
     DEF Environment, User, Write, FinishSend, StartEnd, Receive, ShareWait,
         ShareSet, SharePulse, FinishWait, SayEnd, EndJoin, WalkInv, LockPlaces,
         WithList, NULL, walk, shared, locks
<1>3. CASE \/ TsenderHead \/ TsenderWait \/ TsenderWoken \/ TsenderScanned
         \/ LockOut \/ ShareSpace \/ ShareHand \/ ShareReset \/ ShareOkay
         \/ TsenderRelease \/ \E t \in Targets : ShareNext(t)
  BY <1>1, <1>3
     DEF TsenderHead, TsenderWait, TsenderWoken, TsenderScanned, LockOut,
         ShareNext, MoveOn, WaitIfRequired, ShareSpace, ShareHand, ShareReset,
         ShareOkay, TsenderRelease, WalkInv, LockPlaces, WithList, NULL, walk,
         shared, locks
<1>4. CASE \E who \in Threads : LockList(who) \/ Destroy(who) \/ Delete(who)
  BY <1>1, <1>4
     DEF Threads, LockList, Destroy, Delete, At, Goes, WalkInv, LockPlaces,
         WithList, NULL, walk, shared, locks
<1>5. CASE \E who \in Threads, t \in Targets : ScanKeep(who, t) \/ ScanCondemn(who, t)
  BY <1>1, <1>5
     DEF Threads, ScanKeep, ScanCondemn, At, Goes, WalkInv, LockPlaces,
         WithList, NULL, walk, shared, locks
<1>6. CASE \/ ReceiveDetachAll \/ ReadHeader \/ PortScanned \/ Data
         \/ DataReceived \/ Attach
  BY <1>1, <1>6
     DEF ReceiveDetachAll, ReadHeader, PortScanned, Data, DataReceived, Attach, WalkInv,
         LockPlaces, WithList, NULL, walk, shared, locks
<1>7. CASE \/ DetachLock \/ DetachTarget \/ DetachJoined \/ DetachAllLock
         \/ DetachAllDone \/ \E t \in Targets : DetachAllNext(t)
  BY <1>1, <1>7
     DEF DetachLock, DetachTarget, DetachJoined, DetachAllLock, DetachAllNext,
         DetachAllDone, WalkInv, LockPlaces, WithList, NULL, walk, shared,
         locks
<1>8. CASE TailAskForEnd \/ TailWakeTsender \/ TailJoin
  BY <1>1, <1>8
     DEF TailAskForEnd, TailWakeTsender, TailPulse, TailJoin, WalkInv,
         LockPlaces, WithList, NULL, walk, shared, locks
<1>9. CASE \E t \in Targets : Worker(t)
  BY <1>1, <1>9, WorkerFrame
       DEF workerOnly, WalkInv, LockPlaces, WithList, NULL, walk, shared, locks
<1>10. QED
  BY <1>2, <1>3, <1>4, <1>5, <1>6, <1>7, <1>8, <1>9
  DEF Next, Sender, PortThread, Threads

\* The command of the port thread.
LEMMA CommandStep ==
  ASSUME OutputInv, Next
  PROVE  CommandInv'
<1>1. TypeOK /\ LockPlaces /\ CommandInv
  BY DEF OutputInv
<1>2. CASE Environment \/ User
  BY <1>1, <1>2
     DEF Environment, User, Write, FinishSend, StartEnd, Receive, ShareWait,
         ShareSet, SharePulse, FinishWait, SayEnd, EndJoin, CommandInv
<1>3. CASE \/ TsenderHead \/ TsenderWait \/ TsenderWoken \/ TsenderScanned
         \/ LockOut \/ ShareSpace \/ ShareHand \/ ShareReset \/ ShareOkay
         \/ TsenderRelease \/ \E t \in Targets : ShareNext(t)
  BY <1>1, <1>3
     DEF TsenderHead, TsenderWait, TsenderWoken, TsenderScanned, LockOut,
         ShareNext, WaitIfRequired, ShareSpace, ShareHand, ShareReset,
         ShareOkay, TsenderRelease, CommandInv
<1>4. CASE \E who \in Threads : LockList(who) \/ Destroy(who) \/ Delete(who)
  BY <1>1, <1>4
     DEF Threads, LockList, Destroy, Delete, At, Goes, CommandInv
<1>5. CASE \E who \in Threads, t \in Targets : ScanKeep(who, t) \/ ScanCondemn(who, t)
  BY <1>1, <1>5
     DEF Threads, ScanKeep, ScanCondemn, At, Goes, CommandInv
<1>6. CASE \/ ReceiveDetachAll \/ ReadHeader \/ PortScanned \/ Data
         \/ DataReceived \/ Attach
  BY <1>1, <1>6
     DEF ReceiveDetachAll, ReadHeader, PortScanned, Data, DataReceived, Attach, CommandInv
<1>7. CASE \/ DetachLock \/ DetachTarget \/ DetachJoined \/ DetachAllLock
         \/ DetachAllDone \/ \E t \in Targets : DetachAllNext(t)
  BY <1>1, <1>7
     DEF DetachLock, DetachTarget, DetachJoined, DetachAllLock, DetachAllNext,
         DetachAllDone, CommandInv
<1>8. CASE TailAskForEnd \/ TailWakeTsender \/ TailJoin
  BY <1>1, <1>8
     DEF TailAskForEnd, TailWakeTsender, TailPulse, TailJoin, CommandInv
<1>9. CASE \E t \in Targets : Worker(t)
  BY <1>1, <1>9, WorkerFrame DEF workerOnly, CommandInv
<1>10. QED
  BY <1>2, <1>3, <1>4, <1>5, <1>6, <1>7, <1>8, <1>9
  DEF Next, Sender, PortThread, Threads

\* The permission to write.
LEMMA BatonStep ==
  ASSUME OutputInv, Next
  PROVE  BatonInv'
<1>1. TypeOK /\ LockPlaces /\ CommandInv /\ BatonInv
  BY DEF OutputInv
<1>2. CASE Environment \/ User
  <2>1. CASE Environment
    BY <1>1, <2>1
       DEF Environment, Write, FinishSend, StartEnd, Receive, BatonInv,
           CommandInv, Sharing, WithList, shared
  <2>2. CASE ShareWait
    BY <1>1, <2>2
       DEF ShareWait, Permission, TypeOK, TsenderStates, BatonInv, CommandInv,
           Sharing, WithList
  <2>3. CASE ShareSet
    BY <1>1, <2>3 DEF ShareSet, BatonInv, Sharing, WithList
  <2>4. CASE SharePulse
    BY <1>1, <2>4 DEF SharePulse, BatonInv, Sharing, WithList, shared
  <2>5. CASE FinishWait \/ SayEnd \/ EndJoin
    BY <1>1, <2>5 DEF FinishWait, SayEnd, EndJoin, BatonInv, shared
  <2>6. QED BY <1>2, <2>1, <2>2, <2>3, <2>4, <2>5 DEF User
<1>3. CASE \/ TsenderHead \/ TsenderWait \/ TsenderWoken \/ TsenderScanned
         \/ LockOut \/ ShareSpace \/ ShareHand \/ ShareReset \/ ShareOkay
         \/ TsenderRelease \/ \E t \in Targets : ShareNext(t)
  BY <1>1, <1>3
     DEF TsenderHead, TsenderWait, TsenderWoken, TsenderScanned, LockOut,
         ShareNext, WaitIfRequired, ShareSpace, ShareHand, ShareReset,
         ShareOkay, TsenderRelease, TypeOK, TsenderStates, BatonInv,
         LockPlaces, CommandInv, Sharing, WithList, NULL, shared, locks
<1>4. CASE \E who \in Threads : LockList(who) \/ Destroy(who) \/ Delete(who)
  BY <1>1, <1>4
     DEF Threads, LockList, Destroy, Delete, At, Goes, TypeOK, TsenderStates,
         BatonInv, LockPlaces, CommandInv, Sharing, WithList, NULL,
         shared, locks
<1>5. CASE \E who \in Threads, t \in Targets : ScanKeep(who, t) \/ ScanCondemn(who, t)
  BY <1>1, <1>5
     DEF Threads, ScanKeep, ScanCondemn, At, Goes, TypeOK, TsenderStates,
         BatonInv, LockPlaces, CommandInv, Sharing, WithList, NULL,
         shared, locks
<1>6. CASE \/ ReceiveDetachAll \/ ReadHeader \/ PortScanned \/ Data
         \/ DataReceived \/ Attach
  BY <1>1, <1>6
     DEF ReceiveDetachAll, ReadHeader, PortScanned, Data, DataReceived, Attach, TypeOK,
         TsenderStates, BatonInv, LockPlaces, CommandInv, Sharing,
         WithList, NULL, shared, locks
<1>7. CASE \/ DetachLock \/ DetachTarget \/ DetachJoined \/ DetachAllLock
         \/ DetachAllDone \/ \E t \in Targets : DetachAllNext(t)
  BY <1>1, <1>7
     DEF DetachLock, DetachTarget, DetachJoined, DetachAllLock, DetachAllNext,
         DetachAllDone, TypeOK, TsenderStates, BatonInv, LockPlaces,
         CommandInv, Sharing, WithList, NULL, shared, locks
<1>8. CASE TailAskForEnd \/ TailWakeTsender \/ TailJoin
  BY <1>1, <1>8
     DEF TailAskForEnd, TailWakeTsender, TailPulse, TailJoin, TypeOK,
         TsenderStates, BatonInv, LockPlaces, CommandInv, Sharing,
         WithList, NULL, shared, locks
<1>9. CASE \E t \in Targets : Worker(t)
  BY <1>1, <1>9, WorkerFrame
       DEF workerOnly, TypeOK, TsenderStates, BatonInv, LockPlaces, CommandInv,
           Sharing, WithList, NULL, shared, locks
<1>10. QED
  BY <1>2, <1>3, <1>4, <1>5, <1>6, <1>7, <1>8, <1>9
  DEF Next, Sender, PortThread, Threads


(***************************************************************************)
(* The connections                                                         *)
(***************************************************************************)

\* Who touches the list of targets and the targets.
LEMMA TargetMoves ==
  ASSUME Next
  PROVE  \/ UNCHANGED <<list, target>>
         \/ Attach \/ DetachTarget \/ ShareHand
         \/ \E who \in Threads : Destroy(who) \/ Delete(who)
         \/ \E t \in Targets : Worker(t)
<1>1. CASE Environment \/ User
  BY <1>1
     DEF Environment, User, Write, FinishSend, StartEnd, Receive, ShareWait,
         ShareSet, SharePulse, FinishWait, SayEnd, EndJoin
<1>2. CASE Sender
  BY <1>2
     DEF Sender, Threads, TsenderHead, TsenderWait, TsenderWoken, LockList,
         ScanKeep, ScanCondemn, ShareNext, TsenderScanned, LockOut, ShareSpace,
         ShareReset, ShareOkay, TsenderRelease
<1>3. CASE PortThread
  BY <1>3
     DEF PortThread, Threads, ReceiveDetachAll, ReadHeader, LockList, ScanKeep,
         ScanCondemn, DetachAllNext, PortScanned, Data, DataReceived, DetachLock, DetachJoined,
         DetachAllLock, DetachAllDone, TailAskForEnd, TailWakeTsender, TailJoin
<1>4. QED BY <1>1, <1>2, <1>3 DEF Next

\* What is said of each connection.
LEMMA LinksStep ==
  ASSUME OutputInv, Next
  PROVE  LinksInv'
<1>1. TypeOK /\ WalkInv /\ LinksInv /\ CommandInv
  BY DEF OutputInv
<1>2. CASE UNCHANGED <<list, target>>
  BY <1>1, <1>2 DEF LinksInv
<1>3. CASE Attach
  BY <1>1, <1>3, NewLink DEF Attach, LinksInv, TypeOK
<1>4. CASE DetachTarget
  <2>1. current \in list /\ list \subseteq Targets /\ UNCHANGED list
    BY <1>1, <1>4 DEF DetachTarget, WalkInv, TypeOK
  <2>2. /\ LinkOK(target[current]) => LinkOK(target'[current])
        /\ \A u \in Targets : u # current => target'[u] = target[u]
    BY <1>1, <1>4, <2>1, DeactivatedLink DEF DetachTarget
  <2>3. QED BY <1>1, <2>1, <2>2 DEF LinksInv
<1>5. CASE ShareHand
  <2>1. /\ current \in list /\ list \subseteq Targets /\ UNCHANGED list
        /\ p_sendable # NULL
    BY <1>1, <1>5 DEF ShareHand, WalkInv, TypeOK
  <2>2. LinkOK(target[current])
    BY <1>1, <2>1 DEF LinksInv
  <2>3. /\ LinkOK(target'[current])
        /\ \A u \in Targets : u # current => target'[u] = target[u]
    BY <1>1, <1>5, <2>1, <2>2, HandedLink
  <2>4. QED BY <1>1, <2>1, <2>3 DEF LinksInv
<1>6. ASSUME NEW who \in Threads, Destroy(who)
      PROVE  LinksInv'
  <2>1. current \in list /\ list \subseteq Targets /\ UNCHANGED list
    BY <1>1, <1>6 DEF Destroy, At, Threads, WalkInv, TypeOK
  <2>2. /\ LinkOK(target[current]) => LinkOK(target'[current])
        /\ \A u \in Targets : u # current => target'[u] = target[u]
    BY <1>1, <1>6, <2>1, DeactivatedLink DEF Destroy
  <2>3. QED BY <1>1, <2>1, <2>2 DEF LinksInv
<1>7. ASSUME NEW who \in Threads, Delete(who)
      PROVE  LinksInv'
  BY <1>1, <1>7 DEF Delete, Joined, LinksInv
<1>8. ASSUME NEW t \in Targets, Worker(t)
      PROVE  LinksInv'
  <2>1. /\ UNCHANGED list
        /\ \A u \in Targets : u # t => target'[u] = target[u]
    BY <1>1, <1>8, WorkerFrame DEF workerOnly
  <2>2. target[t].thread \notin {"none", "dead"}
    BY <1>8
         DEF Worker, Locate, CheckPid, Collect, Fetch, Transmit, Finish,
             PostSpace, CloseEndpoint
  <2>3. t \in list /\ LinkOK(target[t])
    BY <1>1, <2>2 DEF LinksInv
  <2>4. LinkOK(target'[t])
    BY <1>1, <1>8, <2>3, WorkerLink
  <2>5. QED BY <1>1, <2>1, <2>3, <2>4 DEF LinksInv
<1>9. QED BY <1>2, <1>3, <1>4, <1>5, <1>6, <1>7, <1>8, TargetMoves

(***************************************************************************)
(* The inductive invariant                                                 *)
(***************************************************************************)

\* The initial states satisfy it.
LEMMA InitOutputInv == Init => OutputInv
<1> SUFFICES ASSUME Init PROVE OutputInv
  OBVIOUS
<1>1. TypeOK
  <2>1. /\ p_sendable \in 0..MaxMessages /\ written \in 0..MaxMessages
        /\ message \in 0..MaxMessages
        /\ commands \in 0..MaxCommands
        /\ sent \in [Targets -> 0..MaxMessages]
    BY OutputAssumption DEF Init, NULL
  <2>2. [NewTarget EXCEPT !.thread = "none"] \in TargetType
    BY NewLink, FieldTypes DEF WorkerStates
  <2>3. target \in [Targets -> TargetType]
    BY <2>2 DEF Init
  <2>4. require_complete_send \in BOOLEAN /\ out_locked \in BOOLEAN
        /\ tsender_running \in BOOLEAN
    BY Zenon DEF Init
  <2>5. QED BY <2>1, <2>3, <2>4
       DEF Init, TypeOK, Threads, UserStates, TsenderStates, PortStates,
           Commands
<1>2. LockPlaces /\ WalkInv /\ CommandInv
  BY DEF Init, LockPlaces, WalkInv, CommandInv, WithList
<1>3. BatonInv
  BY DEF Init, BatonInv, Sharing, WithList
<1>4. LinksInv
  BY DEF Init, LinksInv, NewTarget
<1>5. QED BY <1>1, <1>2, <1>3, <1>4 DEF OutputInv

\* A step that changes nothing.
LEMMA StutterOutputInv ==
  ASSUME OutputInv, UNCHANGED vars
  PROVE  OutputInv'
<1>1. /\ UNCHANGED <<list, p_sendable, require_complete_send, okay_to_send>>
      /\ UNCHANGED <<list_owner, out_locked, ready_to_go, tsender_running, target>>
      /\ UNCHANGED <<user, message, tsender, port, command, label, todo, current>>
      /\ UNCHANGED <<cursor, unvisited, written, sent, commands>>
  BY DEF vars, shared, locks, walk, finish, history
<1>2. TypeOK'
  BY <1>1 DEF OutputInv, TypeOK
<1>3. LockPlaces' /\ WalkInv' /\ CommandInv'
  BY <1>1 DEF OutputInv, LockPlaces, WalkInv, CommandInv
<1>4. BatonInv'
  BY <1>1 DEF OutputInv, BatonInv
<1>5. LinksInv'
  BY <1>1 DEF OutputInv, LinksInv
<1>6. QED BY <1>2, <1>3, <1>4, <1>5 DEF OutputInv

\* Every step keeps it.
LEMMA OutputInvStep ==
  ASSUME OutputInv, [Next]_vars
  PROVE  OutputInv'
<1>1. CASE Next
  BY <1>1, TypeStep, LockStep, WalkStep, CommandStep, BatonStep, LinksStep
     DEF OutputInv
<1>2. QED BY <1>1, StutterOutputInv

\* The invariant holds in every reachable state.
THEOREM OutputInvariant == Spec => []OutputInv
BY InitOutputInv, OutputInvStep, PTL DEF Spec

\* Type correctness; in particular okay_to_send is a binary semaphore.
THEOREM OutputTypeCorrect == Spec => []TypeOK
BY OutputInvariant, PTL DEF OutputInv

\* OutputTarget::Body never writes through a null p_local_sendable.
THEOREM SendsSomething == Spec => []NoNullSend
<1>1. OutputInv => NoNullSend
  BY DEF OutputInv, LinksInv, LinkOK, NoNullSend
<1>2. QED BY <1>1, OutputInvariant, PTL

\* Space in a connection means that its last transmission has ended.
THEOREM SpaceAfterSending == Spec => []SpaceMeansSent
<1>1. OutputInv => SpaceMeansSent
  <2> SUFFICES ASSUME OutputInv, NEW t \in list, target[t].space_available > 0
               PROVE  /\ target[t].p_sendable = NULL /\ target[t].local = NULL
                      /\ target[t].something_to_send > 0 => target[t].deactivate
    BY DEF SpaceMeansSent
  <2>1. t \in Targets /\ LinkOK(target[t]) /\ target[t] \in TargetType
    BY DEF OutputInv, TypeOK, LinksInv
  <2>2. QED BY <2>1 DEF LinkOK, TargetType
<1>2. QED BY <1>1, OutputInvariant, PTL

\* No OutputTarget is used, and no thread of one runs, after its deletion.
THEOREM TargetsOutliveUse == Spec => []UsedWhileListed
<1>1. OutputInv => UsedWhileListed
  BY DEF OutputInv, LockPlaces, WithList, WalkInv, LinksInv, UsedWhileListed
<1>2. QED BY <1>1, OutputInvariant, PTL

\* What a step does to the message of a connection that is there.
LEMMA MessageKept ==
  ASSUME OutputInv, Next, NEW t \in list, target[t].p_sendable # NULL
  PROVE  target'[t].p_sendable \in {NULL, target[t].p_sendable}
<1>1. /\ TypeOK /\ LinksInv /\ t \in Targets /\ LinkOK(target[t])
      /\ target \in [Targets -> TargetType] /\ target[t] \in TargetType
  BY DEF OutputInv, TypeOK, LinksInv
<1>2. CASE UNCHANGED <<list, target>>
  BY <1>2
<1>3. CASE Attach
  BY <1>1, <1>3 DEF Attach
<1>4. CASE DetachTarget
  BY <1>1, <1>4 DEF DetachTarget, Deactivated, TargetType
<1>5. CASE ShareHand
  BY <1>1, <1>5 DEF ShareHand, LinkOK
<1>6. ASSUME NEW who \in Threads, Destroy(who) \/ Delete(who)
      PROVE  target'[t].p_sendable = target[t].p_sendable
  <2>1. CASE UNCHANGED target
    BY <2>1
  <2>2. CASE target' = Deactivated(current) /\ current = t
    BY <1>1, <2>2 DEF Deactivated, TargetType
  <2>3. CASE target' = Deactivated(current) /\ current # t
    BY <1>1, <2>3 DEF Deactivated
  <2>4. QED BY <1>6, <2>1, <2>2, <2>3 DEF Destroy, Delete
<1>7. ASSUME NEW u \in Targets, Worker(u), u # t
      PROVE  target'[t].p_sendable = target[t].p_sendable
  BY <1>1, <1>7, WorkerFrame
<1>8. CASE Worker(t)
  <2>1. CASE (\E p \in WorkerStates : Moves(t, p)) \/ Dies(t)
    BY <1>1, <2>1 DEF Moves, Dies, TargetType
  <2>2. CASE Collect(t)
    BY <1>1, <2>2 DEF Collect, TargetType
  <2>3. CASE Finish(t)
    BY <1>1, <2>3 DEF Finish, TargetType
  <2>4. CASE PostSpace(t)
    BY <1>1, <2>4 DEF PostSpace, OnePost, TargetType
  <2>5. CASE Fetch(t)
    BY <1>1, <2>5 DEF Fetch, ShouldEnd, FetchMessage, TargetType
  <2>6. CASE Locate(t) \/ CheckPid(t) \/ Transmit(t) \/ CloseEndpoint(t)
    BY <2>1, <2>6 DEF Locate, CheckPid, Transmit, CloseEndpoint, WorkerStates
  <2>7. QED BY <1>8, <2>2, <2>3, <2>4, <2>5, <2>6 DEF Worker
<1>9. QED BY <1>2, <1>3, <1>4, <1>5, <1>6, <1>7, <1>8, TargetMoves

\* Neither the port's message nor a connection's is replaced before it is taken.
THEOREM MessagesTaken == Spec => NothingOverwritten
<1>1. OutputInv /\ [Next]_vars
        => [/\ user = "set" /\ user' = "pulse" => p_sendable = NULL
            /\ \A t \in list : target[t].p_sendable # NULL
                 => target'[t].p_sendable \in {NULL, target[t].p_sendable}]_vars
  <2> SUFFICES ASSUME OutputInv, Next
               PROVE  /\ user = "set" => p_sendable = NULL
                      /\ \A t \in list : target[t].p_sendable # NULL
                           => target'[t].p_sendable \in {NULL, target[t].p_sendable}
    OBVIOUS
  <2>1. user = "set" => p_sendable = NULL
    BY DEF OutputInv, BatonInv
  <2>2. QED BY <2>1, MessageKept
<1>2. QED BY <1>1, OutputInvariant, PTL DEF Spec, NothingOverwritten

(***************************************************************************)
(* Nobody waits in vain                                                    *)
(***************************************************************************)

\* The permission does not get lost between the three threads.
LEMMA PermitStep ==
  ASSUME OutputInv, PermitInv, Next
  PROVE  PermitInv'
<1>1. TypeOK /\ CommandInv /\ BatonInv
  BY DEF OutputInv
<1>2. CASE Environment \/ User
  <2>1. CASE Environment
    BY <2>1
       DEF Environment, Write, FinishSend, StartEnd, Receive, PermitInv, shared
  <2>2. CASE ShareWait \/ ShareSet
    BY <2>2 DEF ShareWait, ShareSet, PermitInv, shared
  <2>3. CASE SharePulse
    BY <1>1, <2>3 DEF SharePulse, TypeOK, PermitInv
  <2>4. CASE FinishWait \/ SayEnd \/ EndJoin
    BY <2>4 DEF FinishWait, SayEnd, EndJoin, PermitInv, shared
  <2>5. QED BY <1>2, <2>1, <2>2, <2>3, <2>4 DEF User
<1>3. CASE \/ TsenderHead \/ TsenderWait \/ TsenderWoken \/ TsenderScanned
         \/ LockOut \/ ShareSpace \/ ShareHand \/ ShareReset \/ ShareOkay
         \/ TsenderRelease \/ \E t \in Targets : ShareNext(t)
  <2>1. CASE TsenderHead \/ TsenderWait \/ TsenderWoken
    BY <2>1 DEF TsenderHead, TsenderWait, TsenderWoken, PermitInv, Sharing, shared
  <2>2. CASE TsenderScanned \/ LockOut \/ ShareSpace \/ ShareHand \/ ShareReset
    BY <2>2
       DEF TsenderScanned, LockOut, ShareSpace, ShareHand, ShareReset, PermitInv,
           Sharing, shared
  <2>3. CASE \E t \in Targets : ShareNext(t)
    BY <2>3 DEF ShareNext, WaitIfRequired, PermitInv, Sharing, shared
  <2>4. CASE ShareOkay
    BY <1>1, <2>4 DEF ShareOkay, TypeOK, PermitInv, BatonInv, Sharing
  <2>5. CASE TsenderRelease
    BY <2>5 DEF TsenderRelease, PermitInv, Sharing, shared
  <2>6. QED BY <1>3, <2>1, <2>2, <2>3, <2>4, <2>5
<1>4. CASE \E who \in Threads : LockList(who) \/ Destroy(who) \/ Delete(who)
  BY <1>1, <1>4
     DEF Threads, LockList, Destroy, Delete, At, Goes, PermitInv, Sharing, shared
<1>5. CASE \E who \in Threads, t \in Targets : ScanKeep(who, t) \/ ScanCondemn(who, t)
  BY <1>1, <1>5
     DEF Threads, ScanKeep, ScanCondemn, At, Goes, PermitInv, Sharing, shared
<1>6. CASE \/ ReceiveDetachAll \/ ReadHeader \/ PortScanned \/ Data
         \/ DataReceived \/ Attach
  BY <1>1, <1>6
     DEF ReceiveDetachAll, ReadHeader, PortScanned, Data, DataReceived, Attach,
         PermitInv, shared
<1>7. CASE \/ DetachLock \/ DetachTarget \/ DetachJoined \/ DetachAllLock
         \/ DetachAllDone \/ \E t \in Targets : DetachAllNext(t)
  BY <1>1, <1>7
     DEF DetachLock, DetachTarget, DetachJoined, DetachAllLock, DetachAllNext,
         DetachAllDone, PermitInv, shared
<1>8. CASE TailAskForEnd \/ TailWakeTsender \/ TailJoin
  BY <1>1, <1>8
     DEF TailAskForEnd, TailWakeTsender, TailPulse, TailJoin, TypeOK, CommandInv,
         PermitInv, shared
<1>9. CASE \E t \in Targets : Worker(t)
  BY <1>1, <1>9, WorkerFrame DEF workerOnly, PermitInv, shared
<1>10. QED
  BY <1>2, <1>3, <1>4, <1>5, <1>6, <1>7, <1>8, <1>9
  DEF Next, Sender, PortThread, Threads

\* What the steps of its own thread do to one connection.
LEMMA WorkerServed ==
  ASSUME NEW t \in Targets, TypeOK, LinkOK(target[t]), ServedOK(target[t]), Worker(t)
  PROVE  ServedOK(target'[t]) /\ target'[t].deactivate = target[t].deactivate
<1>1. target \in [Targets -> TargetType]
  BY DEF TypeOK
<1>2. CASE target[t].thread = "init" /\ Moves(t, "check")
  BY <1>1, <1>2 DEF Moves, LinkOK, ServedOK, TargetType, NULL
<1>3. CASE target[t].thread = "check" /\ Moves(t, "wait")
  BY <1>1, <1>3 DEF Moves, LinkOK, ServedOK, TargetType, NULL
<1>4. CASE target[t].thread \in {"init", "check"} /\ Dies(t)
  BY <1>1, <1>4 DEF Dies, LinkOK, ServedOK, TargetType, NULL
<1>5. CASE Locate(t) \/ CheckPid(t)
  BY <1>2, <1>3, <1>4, <1>5 DEF Locate, CheckPid
<1>6. CASE Collect(t)
  BY <1>1, <1>6 DEF Collect, LinkOK, ServedOK, TargetType, NULL
<1>7. CASE Fetch(t)
  BY <1>1, <1>7 DEF Fetch, ShouldEnd, FetchMessage, LinkOK, ServedOK, TargetType, NULL
<1>8. CASE Transmit(t)
  BY <1>1, <1>8 DEF Transmit, Moves, LinkOK, ServedOK, TargetType, NULL
<1>9. CASE Finish(t)
  BY <1>1, <1>9 DEF Finish, LinkOK, ServedOK, TargetType, NULL
<1>10. CASE PostSpace(t)
  BY <1>1, <1>10 DEF PostSpace, OnePost, LinkOK, ServedOK, TargetType, NULL
<1>11. CASE CloseEndpoint(t)
  BY <1>1, <1>11 DEF CloseEndpoint, Moves, LinkOK, ServedOK, TargetType, NULL
<1>12. QED BY <1>5, <1>6, <1>7, <1>8, <1>9, <1>10, <1>11 DEF Worker

\* Deactivate tells the thread of a connection to end, and wakes it.
LEMMA DeactivatedServed ==
  ASSUME TypeOK, NEW t \in Targets, target' = Deactivated(t), ServedOK(target[t])
  PROVE  ServedOK(target'[t]) /\ target'[t].deactivate
<1>1. target \in [Targets -> TargetType] /\ target[t] \in TargetType
  BY DEF TypeOK
<1>2. QED BY <1>1 DEF Deactivated, ServedOK, TargetType

\* A connection keeps its message, or the signal to end, whoever moves.
LEMMA ServedStep ==
  ASSUME OutputInv, ServedInv, Next
  PROVE  ServedInv'
<1>1. TypeOK /\ WalkInv /\ LinksInv /\ CommandInv /\ list \subseteq Targets
  BY DEF OutputInv, TypeOK
<1>2. CASE UNCHANGED <<list, target>>
  BY <1>2 DEF ServedInv
<1>3. CASE Attach
  <2>1. ServedOK(NewTarget)
    BY DEF NewTarget, ServedOK
  <2>2. CASE label \in list
    BY <1>3, <2>2 DEF Attach, ServedInv
  <2>3. CASE label \notin list
    <3>1. list' = list \union {label} /\ target' = [target EXCEPT ![label] = NewTarget]
      BY <1>3, <2>3 DEF Attach
    <3>2. target \in [Targets -> TargetType] /\ label \in Targets
      BY <1>1, <1>3 DEF TypeOK, CommandInv, Attach
    <3>3. QED BY <1>1, <2>1, <3>1, <3>2 DEF ServedInv
  <2>4. QED BY <2>2, <2>3
<1>4. CASE DetachTarget \/ \E who \in Threads : Destroy(who)
  <2>1. /\ current \in list /\ UNCHANGED list
        /\ target' = Deactivated(current)
    BY <1>1, <1>4 DEF DetachTarget, Destroy, At, Threads, WalkInv
  <2>2. ServedOK(target[current])
    BY <2>1 DEF ServedInv
  <2>3. /\ ServedOK(target'[current])
        /\ \A u \in Targets : u # current => target'[u] = target[u]
    BY <1>1, <2>1, <2>2, DeactivatedServed, DeactivatedLink
  <2>4. QED BY <1>1, <2>1, <2>3 DEF ServedInv
<1>5. CASE ShareHand
  <2>1. /\ current \in list /\ UNCHANGED list /\ p_sendable # NULL
    BY <1>1, <1>5 DEF ShareHand, WalkInv
  <2>2. /\ LinkOK(target[current]) /\ target[current] \in TargetType
        /\ target \in [Targets -> TargetType]
    BY <1>1, <2>1 DEF LinksInv, TypeOK
  <2>3. ServedOK(target[current])
    BY <2>1 DEF ServedInv
  <2>4. ServedOK(target'[current])
    <3>1. CASE target[current].sending
      BY <1>5, <2>3, <3>1 DEF ShareHand
    <3>2. CASE ~target[current].sending
      <4>1. /\ target'[current].p_sendable # NULL
            /\ target'[current].something_to_send = target[current].something_to_send + 1
        BY <1>1, <1>5, <2>1, <2>2, <3>2 DEF ShareHand, TargetType
      <4>2. target[current].something_to_send \in Nat
        BY <2>2, FieldsTyped
      <4>3. QED BY <4>1, <4>2 DEF ServedOK
    <3>3. QED BY <3>1, <3>2
  <2>5. \A u \in Targets : u # current => target'[u] = target[u]
    BY <1>1, <1>5, <2>1, <2>2, HandedLink
  <2>6. QED BY <1>1, <2>1, <2>4, <2>5 DEF ServedInv
<1>6. CASE \E who \in Threads : Delete(who)
  BY <1>1, <1>6 DEF Delete, ServedInv
<1>7. ASSUME NEW t \in Targets, Worker(t)
      PROVE  ServedInv'
  <2>1. /\ UNCHANGED list
        /\ \A u \in Targets : u # t => target'[u] = target[u]
    BY <1>1, <1>7, WorkerFrame DEF workerOnly
  <2>2. CASE t \in list
    <3>1. LinkOK(target[t]) /\ ServedOK(target[t])
      BY <1>1, <2>2 DEF LinksInv, ServedInv
    <3>2. ServedOK(target'[t])
      BY <1>1, <1>7, <3>1, WorkerServed
    <3>3. QED BY <1>1, <2>1, <3>2 DEF ServedInv
  <2>3. CASE t \notin list
    BY <1>1, <2>1, <2>3 DEF ServedInv
  <2>4. QED BY <2>2, <2>3
<1>8. QED BY <1>2, <1>3, <1>4, <1>5, <1>6, <1>7, TargetMoves

\* Who comes to join a thread has told it to end, and no step takes that back.
LEMMA JoinStep ==
  ASSUME OutputInv, ServedInv, JoinInv, Next
  PROVE  JoinInv'
<1> DEFINE joining == tsender = "join" \/ port \in {"join", "joined"}
<1>1. /\ TypeOK /\ WalkInv /\ LockPlaces /\ LinksInv /\ list \subseteq Targets
      /\ target \in [Targets -> TargetType]
  BY DEF OutputInv, TypeOK
<1>2. CASE DetachTarget \/ \E who \in Threads : Destroy(who)
  <2>1. /\ current \in list /\ UNCHANGED current
        /\ target' = Deactivated(current)
    BY <1>1, <1>2 DEF DetachTarget, Destroy, At, Threads, WalkInv, walk
  <2>2. target'[current].deactivate
    BY <1>1, <2>1, DeactivatedServed DEF ServedInv
  <2>3. QED BY <2>1, <2>2 DEF JoinInv
<1>3. CASE ~(DetachTarget \/ \E who \in Threads : Destroy(who)) /\ joining'
  <2>1. joining /\ UNCHANGED current
    <3>1. CASE Environment \/ User
      BY <1>3, <3>1
         DEF Environment, User, Write, FinishSend, StartEnd, Receive, ShareWait,
             ShareSet, SharePulse, FinishWait, SayEnd, EndJoin, walk
    <3>2. CASE Sender
      BY <1>1, <1>3, <3>2
         DEF Sender, Threads, TsenderHead, TsenderWait, TsenderWoken, LockList,
             ScanKeep, ScanCondemn, Delete, At, Goes, ShareNext, WaitIfRequired,
             TsenderScanned, LockOut, ShareSpace, ShareHand, ShareReset, ShareOkay,
             TsenderRelease, LockPlaces, WithList, walk
    <3>3. CASE PortThread
      BY <1>1, <1>3, <3>3
         DEF PortThread, Threads, ReceiveDetachAll, ReadHeader, LockList, ScanKeep,
             ScanCondemn, Delete, At, Goes, DetachAllNext, PortScanned, Data,
             DataReceived, Attach, DetachLock, DetachJoined, DetachAllLock,
             DetachAllDone, TailAskForEnd, TailWakeTsender, TailJoin, LockPlaces,
             WithList, walk
    <3>4. CASE \E t \in Targets : Worker(t)
      BY <1>1, <1>3, <3>4, WorkerFrame DEF workerOnly, walk
    <3>5. QED BY <3>1, <3>2, <3>3, <3>4 DEF Next
  <2>2. current \in list /\ target[current].deactivate
    BY <1>1, <2>1 DEF WalkInv, JoinInv
  <2>3. target'[current].deactivate
    <3>1. CASE UNCHANGED <<list, target>>
      BY <2>2, <3>1
    <3>2. CASE Attach
      BY <1>1, <2>2, <3>2 DEF Attach
    <3>3. CASE ShareHand
      BY <1>1, <2>2, <3>3 DEF ShareHand, TargetType
    <3>4. CASE \E who \in Threads : Delete(who)
      BY <2>2, <3>4 DEF Delete
    <3>5. ASSUME NEW t \in Targets, Worker(t)
          PROVE  target'[current].deactivate
      <4>1. CASE t = current
        BY <1>1, <2>2, <3>5, <4>1, WorkerServed DEF LinksInv, ServedInv
      <4>2. CASE t # current
        BY <1>1, <2>2, <3>5, <4>2, WorkerFrame
      <4>3. QED BY <4>1, <4>2
    <3>6. QED BY <1>3, <3>1, <3>2, <3>3, <3>4, <3>5, TargetMoves
  <2>4. QED BY <2>1, <2>3 DEF JoinInv
<1>4. QED BY <1>2, <1>3 DEF JoinInv

\* What the proof of WaitsAreMet needs, in every reachable state.
LEMMA ServeInvariant == Spec => []ServeInv
<1>1. Init => ServeInv
  BY InitOutputInv DEF Init, ServeInv, PermitInv, ServedInv, JoinInv
<1>2. ServeInv /\ [Next]_vars => ServeInv'
  <2> SUFFICES ASSUME ServeInv, [Next]_vars PROVE ServeInv'
    OBVIOUS
  <2>1. OutputInv'
    BY OutputInvStep DEF ServeInv
  <2>2. CASE Next
    BY <2>1, <2>2, PermitStep, ServedStep, JoinStep DEF ServeInv
  <2>3. CASE UNCHANGED vars
    BY <2>1, <2>3
       DEF ServeInv, PermitInv, ServedInv, JoinInv, vars, shared, walk
  <2>4. QED BY <2>2, <2>3
<1>3. QED BY <1>1, <1>2, PTL DEF Spec

\* Nobody waits in vain: a Write for the permission, the sender thread or
\* FinishSend for the space of a connection, or Deactivate for a thread to end.
THEOREM EveryWaitIsMet == Spec => []WaitsAreMet
<1>1. ServeInv => WaitsAreMet
  <2> SUFFICES ASSUME ServeInv PROVE WaitsAreMet
    OBVIOUS
  <2>1. /\ TypeOK /\ WalkInv /\ CommandInv /\ LinksInv /\ PermitInv
        /\ ServedInv /\ JoinInv
    BY DEF ServeInv, OutputInv
  <2>2. user = "share" =>
          okay_to_send > 0 \/ ready_to_go > 0 \/ tsender \in {"woken"} \union Sharing
    BY <2>1 DEF PermitInv, CommandInv
  <2>3. ASSUME NEW t \in list
        PROVE  /\ LinkOK(target[t]) /\ ServedOK(target[t]) /\ target[t] \in TargetType
    BY <2>1, <2>3 DEF TypeOK, LinksInv, ServedInv
  <2>4. ASSUME NEW t \in list, target[t].space_available = 0
        PROVE  \/ target[t].thread \in
                    {"sending", "sent", "failed", "post", "closing", "dead"}
               \/ /\ target[t].p_sendable # NULL
                  /\ target[t].thread = "wait" => target[t].something_to_send > 0
    BY <2>3, <2>4 DEF LinkOK, ServedOK, TargetType, WorkerStates
  <2>5. tsender = "join" \/ port \in {"join", "joined"} =>
          /\ target[current].deactivate
          /\ target[current].thread = "wait" => target[current].something_to_send > 0
    BY <2>1, <2>3 DEF WalkInv, JoinInv, ServedOK
  <2>6. QED BY <2>2, <2>4, <2>5 DEF WaitsAreMet
<1>2. QED BY <1>1, ServeInvariant, PTL
=============================================================================
