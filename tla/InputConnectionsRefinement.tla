--------------------- MODULE InputConnectionsRefinement ---------------------
(***************************************************************************)
(* What the port thread can rely on, proved from the inductive invariant   *)
(* of InputConnectionsProofs: as long as no connection is ended by name,   *)
(* the list of input connections is the Inbox.                             *)
(***************************************************************************)
EXTENDS InputConnectionsProofs

\* No message is open while the list is being closed.
ClosedEmpty == op = "closeall" => source = 0

InboxInv == ConnInv /\ ClosedEmpty

\* Without closeByName a list that is not being closed was never disturbed.
LEMMA NeverDisturbed ==
  ASSUME SafeEnvironment, ConnInv, MaxDetaches = 0
  PROVE  /\ detaches = 0 /\ op # "detach"
         /\ op # "closeall" =>
              ReaderInv /\ StreamInv
                /\ \A j \in Entries : Lost(j) \/ ThreadInv(j)
<1>1. detaches = 0
  BY DEF ConnInv, TypeOK
<1>2. op # "detach"
  BY <1>1 DEF ConnInv, ListInv
<1>3. QED BY <1>1, <1>2 DEF ConnInv, UndisturbedInv, Undisturbed, NothingEnded,
                              SafeEnvironment

\* The offers do not change when no thread begins or ends to wait for a reader
\* and no offer is withdrawn.
LEMMA OffersKept ==
  ASSUME \A j \in Entries :
           /\ conn'[j].thread = "waiting" <=> conn[j].thread = "waiting"
           /\ conn[j].thread = "waiting" => conn'[j].waiting = conn[j].waiting
  PROVE  Offers' = Offers
BY DEF Offers

\* A connection's thread makes an offer, or drops one because it was ended.
LEMMA ThreadRefines ==
  ASSUME SafeEnvironment, InboxInv, MaxDetaches = 0, NEW i \in Entries, Thread(i)
  PROVE  \/ AbstractInbox!Arrive(i) \/ AbstractInbox!Drop(i)
         \/ UNCHANGED <<Offers, source, op = "closeall">>
<1>1. /\ conn \in [Entries -> ConnType]
      /\ op # "closeall" => ReaderInv /\ (Lost(i) \/ ThreadInv(i))
      /\ op = "closeall" => source = 0
  BY NeverDisturbed DEF InboxInv, ConnInv, TypeOK, ClosedEmpty
<1>2. UNCHANGED <<op, source>>
  BY DEF Thread, Begun, Started, Loop, CallReceive, Received, Failed,
         CloseStream, Offer, Woken, ReceiveBody, Written, Wished, Part, Ack,
         AckWoken, Private, reading
<1>3. \A j \in Entries : j # i => conn'[j] = conn[j]
  BY <1>1 DEF Thread, Begun, Started, Loop, CallReceive, Received, Failed,
         CloseStream, Offer, Woken, ReceiveBody, Written, Wished, Part, Ack,
         AckWoken, Private, Move
<1>4. CASE Offer(i) /\ initialized
  <2>1. conn'[i].thread = "waiting" /\ conn'[i].waiting
    BY <1>1, <1>4 DEF Offer, ConnType
  <2>2. Offers' = Offers \cup {i} /\ i \notin Offers
    BY <1>3, <1>4, <2>1 DEF Offers, Offer
  <2>3. source # i
    <3> SUFFICES ASSUME source = i PROVE FALSE
      OBVIOUS
    <3>1. i # 0 /\ conn[i].thread = "offer" /\ op # "closeall"
      BY <1>1, <1>4 DEF Offer, Entries
    <3>2. ReaderInv /\ Signals(i) /\ Serves(i) /\ Opened(i)
      BY <1>1, <3>1 DEF ThreadInv, Lost, Astray, Leaving
    <3>3. reader # "written"
      BY <3>1, <3>2 DEF ReaderInv, Serves, WillWrite
    <3>4. Asks(i, Protocol)
      BY <3>1, <3>2, <3>3 DEF Opened
    <3>5. QED BY <3>1, <3>2, <3>4
             DEF ReaderInv, Serves, Signals, WillAnswer, Asks, Protocol
  <2>4. QED BY <1>2, <2>2, <2>3 DEF AbstractInbox!Arrive
<1>5. CASE Woken(i)
  <2>1. conn'[i].thread # "waiting"
    BY <1>1, <1>5 DEF Woken
  <2>2. Offers' = Offers \ {i}
    BY <1>3, <2>1 DEF Offers
  <2>3. i \in Offers => op = "closeall"
    BY <1>1, <1>5
       DEF Offers, ThreadInv, Signals, Woken, Private, Lost, Astray, Leaving
  <2>4. CASE i \in Offers
    BY <1>2, <2>2, <2>3, <2>4 DEF AbstractInbox!Drop
  <2>5. CASE i \notin Offers
    BY <1>2, <2>2, <2>5
  <2>6. QED BY <2>4, <2>5
<1>6. CASE ~(Offer(i) /\ initialized) /\ ~Woken(i)
  <2>1. conn[i].thread # "waiting"
    BY <1>6 DEF Thread, Begun, Started, Loop, CallReceive, Received, Failed,
                CloseStream, Offer, ReceiveBody, Written, Wished, Part, Ack,
                AckWoken, Private
  <2>2. conn'[i].thread # "waiting"
    <3>1. conn[i] \in ConnType
      BY <1>1
    <3>2. CASE Begun(i)
      BY <1>1, <3>1, <3>2 DEF Begun, Private, Move, ConnType
    <3>3. CASE Started(i)
      BY <1>1, <3>1, <3>3 DEF Started, Private, Move, ConnType
    <3>4. CASE Loop(i)
      BY <1>1, <3>1, <3>4 DEF Loop, Private, Move, ConnType
    <3>5. CASE CallReceive(i)
      BY <1>1, <3>1, <3>5 DEF CallReceive, Private, Move, ConnType
    <3>6. CASE Received(i)
      BY <1>1, <3>1, <3>6 DEF Received, Private, Move, ConnType
    <3>7. CASE Failed(i)
      BY <1>1, <3>1, <3>7 DEF Failed, Private, Move, ConnType
    <3>8. CASE CloseStream(i)
      BY <1>1, <3>1, <3>8 DEF CloseStream, Private, Move, ConnType
    <3>9. CASE ReceiveBody(i)
      BY <1>1, <3>1, <3>9 DEF ReceiveBody, Private, Move, ConnType
    <3>10. CASE Written(i)
      BY <1>1, <3>1, <3>10 DEF Written, Private, Move, ConnType
    <3>11. CASE Offer(i)
      <4>1. ~initialized
        BY <1>6, <3>11
      <4>2. QED BY <1>1, <3>1, <3>11, <4>1 DEF Offer, Move, ConnType
    <3>12. CASE Wished(i)
      BY <1>1, <3>12 DEF Wished, Private
    <3>13. CASE Part(i)
      BY <1>1, <3>13 DEF Part, Private
    <3>14. CASE Ack(i)
      BY <1>1, <3>14 DEF Ack, Private
    <3>15. CASE AckWoken(i)
      BY <1>1, <3>15 DEF AckWoken, Private
    <3>16. QED
      BY <1>6, <3>2, <3>3, <3>4, <3>5, <3>6, <3>7, <3>8, <3>9, <3>10, <3>11,
         <3>12, <3>13, <3>14, <3>15
      DEF Thread
  <2>3. Offers' = Offers
    BY <1>3, <2>1, <2>2, OffersKept
  <2>4. QED BY <1>2, <2>3
<1>7. QED BY <1>4, <1>5, <1>6

\* The acceptor fills places whose threads have returned.
LEMMA AcceptorRefines ==
  ASSUME InboxInv, Acceptor
  PROVE  UNCHANGED <<Offers, source, op = "closeall">>
<1>1. /\ conn \in [Entries -> ConnType] /\ length = last_assigned
      /\ AvailableMeansEnded
      /\ \A j \in Entries : j > length => conn[j] = NewConn
      /\ length \in Nat
  BY DEF InboxInv, ConnInv, TypeOK, ListInv
<1>2. UNCHANGED <<op, source>>
  BY DEF Acceptor, AcceptorLoop, Accept, Knocked, Assign, Accepting, reading
<1>3. CASE UNCHANGED conn
  BY <1>2, <1>3 DEF Offers
<1>4. ASSUME NEW i \in Entries, NEW r \in Acks, conn' = Reuse(i, r),
             FirstAvailable(i) \/ i = length + 1
      PROVE  Offers' = Offers
  <2>1. conn[i].thread \in Ended
    BY <1>1, <1>4
       DEF FirstAvailable, AvailableMeansEnded, NewConn, Entries, Ended
  <2>2. /\ conn'[i].thread = "begun"
        /\ \A j \in Entries : j # i => conn'[j] = conn[j]
    BY <1>1, <1>4 DEF Reuse
  <2>3. QED BY <2>1, <2>2, OffersKept DEF Ended
<1>5. QED
  BY <1>2, <1>3, <1>4
  DEF Acceptor, AcceptorLoop, Accept, Knocked, Assign, list

\* The reader opens an offer, is done with the open message, or closes the list.
LEMMA ReaderRefines ==
  ASSUME SafeEnvironment, InboxInv, MaxDetaches = 0, Reader
  PROVE  /\ \/ \E i \in Entries : AbstractInbox!Take(i)
            \/ AbstractInbox!Finish \/ AbstractInbox!Close
            \/ UNCHANGED <<Offers, source, op = "closeall">>
         /\ ClosedEmpty'
<1>1. /\ conn \in [Entries -> ConnType] /\ TypeOK /\ ListInv /\ ClosedEmpty
      /\ op # "detach" /\ detaches = 0
      /\ op # "closeall" =>
           ReaderInv /\ \A j \in Entries : Lost(j) \/ ThreadInv(j)
  BY NeverDisturbed DEF InboxInv, ConnInv, TypeOK
<1>2. CASE TakeOffer
  <2>1. /\ at \in Entries /\ op = "read" /\ reader = "scan"
        /\ conn[at].waiting
    BY <1>1, <1>2, ConnectionsAssumption
       DEF TakeOffer, Walking, Matches, TypeOK, Entries
  <2>2. source = 0 /\ conn[at].thread = "waiting"
    BY <1>1, <2>1 DEF ReaderInv, Protocol, ThreadInv, Signals, Lost, Astray
  <2>3. /\ ~conn'[at].waiting
        /\ \A j \in Entries : j # at => conn'[j] = conn[j]
    BY <1>1, <1>2, <2>1 DEF TakeOffer
  <2>4. at \in Offers /\ Offers' = Offers \ {at}
    BY <2>1, <2>2, <2>3 DEF Offers
  <2>5. source' = at /\ op' = "read"
    BY <1>2, <2>1 DEF TakeOffer, Walking
  <2>6. QED BY <2>1, <2>2, <2>4, <2>5
           DEF AbstractInbox!Take, AbstractInbox!None, ClosedEmpty
<1>3. CASE StartCloseAll
  <2>1. UNCHANGED <<conn, source>> /\ op' = "closeall" /\ op # "closeall"
    BY <1>1, <1>3 DEF StartCloseAll, AtRest, list, ListInv
  <2>2. Offers' = Offers
    BY <2>1, OffersKept
  <2>3. source = 0
    BY <1>1, <1>3, <2>1 DEF ReaderInv, StartCloseAll
  <2>4. QED BY <2>1, <2>2, <2>3 DEF AbstractInbox!Close, ClosedEmpty
<1>4. CASE ~TakeOffer /\ ~StartCloseAll
  <2>1. \A j \in Entries : /\ conn'[j].thread = conn[j].thread
                           /\ conn'[j].waiting = conn[j].waiting
    <3>1. /\ at \in Entries => conn[at] \in ConnType
          /\ reader = "scan" /\ at <= length => at \in Entries
      BY <1>1, ConnectionsAssumption DEF TypeOK, Entries
    <3>2. CASE AskMore
      BY <1>1, <3>1, <3>2 DEF AskMore, Walking, ConnType
    <3>3. CASE Answered \/ Joined
      BY <1>1, <3>3 DEF Answered, Joined, ConnType
    <3>4. CASE EndConnection("detach") \/ EndConnection("closeall")
      <4>1. conn[at] \in ConnType
        BY <3>1, <3>4 DEF EndConnection, Walking
      <4>2. [conn[at] EXCEPT !.running = FALSE, !.stream = NoHandle,
               !.id = NoHandle, !.wakeup = @ + 1].thread = conn[at].thread
        BY <4>1 DEF ConnType
      <4>3. [conn[at] EXCEPT !.running = FALSE, !.stream = NoHandle,
               !.id = NoHandle, !.wakeup = @ + 1].waiting = conn[at].waiting
        BY <4>1 DEF ConnType
      <4>4. QED BY <1>1, <3>1, <3>4, <4>2, <4>3 DEF EndConnection
    <3>5. CASE BeginReply
      <4>1. CASE conn[at].ack
        <5>1. conn[at] \in ConnType
          BY <3>1, <3>5 DEF BeginReply, Walking
        <5>2. PICK r :
                /\ conn' = [conn EXCEPT ![at] = r]
                /\ r.thread = conn[at].thread /\ r.waiting = conn[at].waiting
          <6> DEFINE q == [conn[at] EXCEPT
                !.got = "data", !.read_more = FALSE,
                !.reply_preamble = TRUE, !.wakeup = @ + 1]
          <6>1. q.thread = conn[at].thread /\ q.waiting = conn[at].waiting
            BY <5>1 DEF ConnType
          <6>2. conn' = [conn EXCEPT ![at] = q]
            BY <3>5, <4>1 DEF BeginReply
          <6> HIDE DEF q
          <6>3. QED BY <6>1, <6>2
        <5>3. QED BY <1>1, <5>2
      <4>2. CASE ~conn[at].ack
        BY <3>5, <4>2 DEF BeginReply
      <4>3. QED BY <4>1, <4>2
    <3>6. CASE EndReply
      <4>1. CASE conn[at].ack
        <5>1. conn[at] \in ConnType
          BY <3>1, <3>6 DEF EndReply, Walking
        <5>2. PICK r :
                /\ conn' = [conn EXCEPT ![at] = r]
                /\ r.thread = conn[at].thread /\ r.waiting = conn[at].waiting
          <6> DEFINE q == [conn[at] EXCEPT
                !.got = "data", !.read_more = FALSE,
                !.reply_preamble = FALSE, !.wakeup = @ + 1]
          <6>1. q.thread = conn[at].thread /\ q.waiting = conn[at].waiting
            BY <5>1 DEF ConnType
          <6>2. conn' = [conn EXCEPT ![at] = q]
            BY <3>6, <4>1 DEF EndReply
          <6> HIDE DEF q
          <6>3. QED BY <6>1, <6>2
        <5>3. QED BY <1>1, <5>2
      <4>2. CASE ~conn[at].ack
        BY <1>1, <3>6, <4>2 DEF EndReply, ConnType
      <4>3. QED BY <4>1, <4>2
    <3>7. CASE \/ SetPool \/ StartRead \/ StartDetach \/ Closed \/ Pass
               \/ StopAcceptor \/ NewData \/ Lock \/ NewDataWritten
      BY <3>7 DEF SetPool, StartRead, StartDetach, Closed, Pass, StopAcceptor,
                  NewData, Lock, NewDataWritten, AtRest, list
    <3>8. CASE \/ NothingFound \/ PrefixRead \/ PieceRead \/ PeerGone
               \/ ReadFailed \/ ReplyBegun \/ Replied \/ Detached \/ AllEnded
      BY <3>8 DEF NothingFound, PrefixRead, PieceRead, PeerGone, ReadFailed,
                  ReplyBegun, Replied, Detached, AllEnded, Walked, AtRest, list
    <3>9. QED
      BY <1>4, <3>2, <3>3, <3>4, <3>5, <3>6, <3>7, <3>8
      DEF Reader, Message, Closing
  <2>2. Offers' = Offers
    BY <2>1, OffersKept
  <2>3. op' = "closeall" <=> op = "closeall"
    BY <1>1, <1>4
       DEF Reader, Message, Closing, SetPool, StartRead, StartDetach, NewData,
           Lock, Pass, NewDataWritten, AskMore, BeginReply, EndReply, Answered,
           NothingFound, PrefixRead, PieceRead, PeerGone, ReadFailed,
           ReplyBegun, Replied, EndConnection, Joined, Detached, AllEnded,
           StopAcceptor, Closed, Walking, Walked, Reading, AtRest, ListInv,
           TypeOK
  <2>4. source' = source \/ source' = 0
    BY <1>4
       DEF Reader, Message, Closing, SetPool, StartRead, StartDetach, NewData,
           Lock, Pass, NewDataWritten, AskMore, BeginReply, EndReply, Answered,
           NothingFound, PrefixRead, PieceRead, PeerGone, ReadFailed,
           ReplyBegun, Replied, EndConnection, Joined, Detached, AllEnded,
           StopAcceptor, Closed, Walking, Walked, Reading, AtRest
  <2>5. ClosedEmpty'
    BY <1>1, <2>3, <2>4 DEF ClosedEmpty
  <2>6. CASE source' = source
    BY <2>2, <2>3, <2>5, <2>6
  <2>7. CASE source' # source
    BY <2>2, <2>3, <2>4, <2>5, <2>7
       DEF AbstractInbox!Finish, AbstractInbox!None
  <2>8. QED BY <2>6, <2>7
<1>5. QED BY <1>2, <1>3, <1>4

\* As long as no connection is ended by name, the list of input connections is
\* an inbox: an offer stays until the reader opens it or the list is closed, one
\* message is open at a time, and a connection offers its next message when the
\* reader is done with the last one.
THEOREM ListIsInbox ==
  ASSUME SafeEnvironment, MaxDetaches = 0
  PROVE  Spec => ImplementsInbox
<1>1. Init => AbstractInbox!Init /\ ClosedEmpty
  <2> SUFFICES ASSUME Init PROVE AbstractInbox!Init /\ ClosedEmpty
    OBVIOUS
  <2>1. Offers = {}
    BY DEF Init, Offers, NewConn
  <2>2. QED BY <2>1 DEF Init, AbstractInbox!Init, AbstractInbox!None, ClosedEmpty
<1>2. ConnInv /\ ClosedEmpty /\ [Next]_vars =>
        /\ [AbstractInbox!Next]_<<Offers, source, op = "closeall">>
        /\ ClosedEmpty'
  <2> SUFFICES ASSUME ConnInv, ClosedEmpty, [Next]_vars
               PROVE  /\ \/ AbstractInbox!Next
                         \/ UNCHANGED <<Offers, source, op = "closeall">>
                      /\ ClosedEmpty'
    OBVIOUS
  <2>1. InboxInv
    BY DEF InboxInv
  <2>2. ASSUME NEW i \in Entries, Thread(i)
        PROVE  \/ AbstractInbox!Next
               \/ UNCHANGED <<Offers, source, op = "closeall">>
    BY <2>1, <2>2, ThreadRefines DEF AbstractInbox!Next
  <2>3. ASSUME NEW i \in Entries, Thread(i) PROVE ClosedEmpty'
    BY <2>3
       DEF Thread, Begun, Started, Loop, CallReceive, Received, Failed,
           CloseStream, Offer, Woken, ReceiveBody, Written, Wished, Part, Ack,
           AckWoken, Private, reading, ClosedEmpty
  <2>4. CASE Acceptor
    <3>1. UNCHANGED <<Offers, source, op = "closeall">>
      BY <2>1, <2>4, AcceptorRefines
    <3>2. ClosedEmpty'
      BY <3>1 DEF ClosedEmpty
    <3>3. QED BY <3>1, <3>2
  <2>5. CASE Reader
    BY <2>1, <2>5, ReaderRefines DEF AbstractInbox!Next
  <2>6. CASE UNCHANGED vars
    BY <2>6 DEF vars, list, reading, Offers, ClosedEmpty
  <2>7. QED BY <2>2, <2>3, <2>4, <2>5, <2>6 DEF Next
<1>3. QED
  BY <1>1, <1>2, Invariance, PTL DEF Spec, ImplementsInbox, AbstractInbox!Spec
=============================================================================
