----------------------- MODULE InputConnectionsProofs -----------------------
(***************************************************************************)
(* Proofs about InputConnections, for every size of the pool and every     *)
(* length of a message, however descriptors are reused. Whatever fails and *)
(* whatever is closed by name: the type invariant, that a place is free    *)
(* exactly when its thread has returned, and what closeAll leaves behind.  *)
(* As long as no connection is ended from outside and none is reset: that  *)
(* reader and threads mix up no messages, and wait for each other in vain  *)
(* only where the reader has gone Astray.                                  *)
(***************************************************************************)
EXTENDS InputConnections, TLAPS

\* Peers close their connections and do not reset them.
SafeEnvironment == "reset" \notin Failures

-----------------------------------------------------------------------------
(* Connection records *)

\* A record of members whose members are updated within their types.
LEMMA FieldTypes ==
  ASSUME NEW r \in ConnType
  PROVE  /\ \A b \in BOOLEAN :
              /\ [r EXCEPT !.available = b] \in ConnType
              /\ [r EXCEPT !.running = b] \in ConnType
              /\ [r EXCEPT !.ack = b] \in ConnType
              /\ [r EXCEPT !.waiting = b] \in ConnType
              /\ [r EXCEPT !.buffer = b] \in ConnType
              /\ [r EXCEPT !.read_more = b] \in ConnType
              /\ [r EXCEPT !.reply_preamble = b] \in ConnType
         /\ \A n \in Nat : /\ [r EXCEPT !.wakeup = n] \in ConnType
                           /\ [r EXCEPT !.reply_made = n] \in ConnType
         /\ \A h \in Streams : /\ [r EXCEPT !.stream = h] \in ConnType
                               /\ [r EXCEPT !.id = h] \in ConnType
         /\ \A p \in ThreadPlaces : [r EXCEPT !.thread = p] \in ConnType
         /\ \A g \in {"data", "none", "error"} :
              [r EXCEPT !.got = g] \in ConnType
BY DEF ConnType

\* The types of a record's members.
LEMMA FieldsTyped ==
  ASSUME NEW r \in ConnType
  PROVE  /\ r.thread \in ThreadPlaces /\ r.available \in BOOLEAN
         /\ r.running \in BOOLEAN /\ r.stream \in Streams /\ r.id \in Streams
         /\ r.ack \in BOOLEAN /\ r.waiting \in BOOLEAN /\ r.buffer \in BOOLEAN
         /\ r.read_more \in BOOLEAN /\ r.reply_preamble \in BOOLEAN
         /\ r.wakeup \in Nat /\ r.reply_made \in Nat
         /\ r.got \in {"data", "none", "error"}
BY DEF ConnType

\* What the steps of a connection's thread leave alone.
Elsewhere ==
  <<length, last_assigned, pool, initialized, listProtect, accepting, reading,
    late>>

Becomes(i, q) == conn' = [conn EXCEPT ![i] = q] /\ UNCHANGED Elsewhere

-----------------------------------------------------------------------------
(* The threads of the connections *)

\* A thread that runs touches neither the list nor what closeAll relies on.
LEMMA ThreadFrame ==
  ASSUME TypeOK, AvailableMeansEnded, ListInv, CloseInv,
         NEW i \in Entries, NEW q \in ConnType, Becomes(i, q),
         conn[i].thread \notin Ended, q.thread # "none",
         q.available <=> q.thread = "done",
         new_data' \in Nat, new_data_written' \in Nat
  PROVE  TypeOK' /\ AvailableMeansEnded' /\ ListInv' /\ CloseInv'
<1>1. conn \in [Entries -> ConnType]
  BY DEF TypeOK
<1>2. /\ conn' \in [Entries -> ConnType] /\ conn'[i] = q
      /\ \A j \in Entries : j # i => conn'[j] = conn[j]
  BY <1>1 DEF Becomes
<1> HIDE DEF Elsewhere
<1>3. UNCHANGED <<length, last_assigned, pool, initialized, listProtect,
        acceptor, acceptor_running, pending, knock, reader, op, at, pid, phase,
        left, again, result, source, detaches, late>>
  BY DEF Becomes, Elsewhere, accepting, reading
<1>4. TypeOK'
  BY <1>2, <1>3 DEF TypeOK
<1>5. AvailableMeansEnded'
  BY <1>2 DEF AvailableMeansEnded, Ended
<1>6. ListInv'
  <2>1. conn[i] # NewConn
    BY DEF NewConn, Ended
  <2>2. i <= length /\ length \in Nat /\ i \in Nat
    BY <2>1 DEF ListInv, TypeOK, Entries
  <2>3. \A j \in Entries : j > length' => conn'[j] = NewConn
    BY <1>2, <1>3, <2>2 DEF ListInv, Entries, TypeOK
  <2>4. QED BY <1>3, <2>3 DEF ListInv
<1>7. CloseInv'
  <2>1. \A j \in Entries :
          conn[j].thread \in Ended => conn'[j].thread \in Ended
    BY <1>2
  <2>2. QED BY <1>3, <2>1 DEF CloseInv, Entries
<1>8. QED BY <1>4, <1>5, <1>6, <1>7

\* What a step of one thread has to show for itself: the other threads and the
\* reader do not notice it.
LEMMA ThreadKeeps ==
  ASSUME ConnInv, NEW i \in Entries, NEW q \in ConnType, Becomes(i, q),
         conn[i].thread \notin Ended, q.thread # "none",
         q.available <=> q.thread = "done",
         new_data' \in Nat, new_data_written' \in Nat,
         Undisturbed =>
           /\ q.thread \notin Ended =>
                q.stream # NoHandle \/ (q.thread = "loop" /\ ~q.running)
           /\ q.id = conn[i].id
           /\ q.stream \in {NoHandle, conn[i].stream}
           /\ \/ new_data_written' = new_data_written
              \/ reader = "written" /\ at = i /\ new_data_written' = 1
           /\ Lost(i) => Lost(i)'
           /\ ~Lost(i) => ThreadInv(i)'
  PROVE  ConnInv'
<1>1. /\ TypeOK /\ AvailableMeansEnded /\ ListInv /\ CloseInv
      /\ Undisturbed => /\ StreamInv /\ ReaderInv
                         /\ \A j \in Entries : Lost(j) \/ ThreadInv(j)
  BY DEF ConnInv, UndisturbedInv
<1>2. TypeOK' /\ AvailableMeansEnded' /\ ListInv' /\ CloseInv'
  BY <1>1, ThreadFrame
<1>3. conn \in [Entries -> ConnType]
  BY <1>1 DEF TypeOK
<1>4. /\ conn'[i] = q
      /\ \A j \in Entries : j # i => conn'[j] = conn[j]
  BY <1>3 DEF Becomes
<1>5. UNCHANGED <<acceptor, pending, reader, op, at, source, pid, length,
                  detaches>>
  BY DEF Becomes, Elsewhere, accepting, reading
<1>6. ASSUME Undisturbed'
      PROVE  /\ StreamInv' /\ ReaderInv'
             /\ \A j \in Entries : Lost(j)' \/ ThreadInv(j)'
  <2>1. Undisturbed
    BY <1>5, <1>6 DEF Undisturbed, NothingEnded
  <2>2. ~conn[i].available
    BY <1>1 DEF AvailableMeansEnded, Ended
  <2>3. StreamInv'
    <3>1. /\ \A j \in Entries : conn'[j].id = conn[j].id
          /\ \A j \in Entries : ~conn'[j].available => ~conn[j].available
          /\ \A j \in Entries : conn'[j].stream \in {NoHandle, conn[j].stream}
      BY <1>4, <2>1, <2>2
    <3>2. \A j \in Entries :
            conn'[j].thread \notin Ended =>
              /\ conn'[j].id # NoHandle
              /\ \/ conn'[j].stream # NoHandle
                 \/ conn'[j].thread = "loop" /\ ~conn'[j].running
              /\ conn'[j].stream \in {NoHandle, conn'[j].id}
      <4>1. /\ conn[i].id # NoHandle
            /\ conn[i].stream \in {NoHandle, conn[i].id}
        BY <1>1, <2>1 DEF StreamInv
      <4>2. QED BY <1>1, <1>4, <2>1, <4>1 DEF StreamInv
    <3>3. QED BY <1>1, <1>5, <2>1, <3>1, <3>2 DEF StreamInv
  <2>4. ASSUME NEW j \in Entries, Lost(j) PROVE Lost(j)'
    <3>1. CASE j = i
      BY <2>1, <2>4, <3>1
    <3>2. CASE j # i
      BY <1>4, <1>5, <2>4, <3>2 DEF Lost, Astray, Leaving
    <3>3. QED BY <3>1, <3>2
  <2>5. ReaderInv'
    <3>1. Astray => Astray'
      <4>1. Astray => at \in Entries
        BY <1>1 DEF Astray, ListInv, TypeOK, Entries
      <4>2. QED BY <2>4, <4>1 DEF Lost
    <3>2. QED BY <1>1, <1>5, <2>1, <3>1 DEF ReaderInv
  <2>6. ASSUME NEW j \in Entries, j # i, ThreadInv(j) PROVE ThreadInv(j)'
    <3>1. ThreadInv(j) /\ conn'[j] = conn[j]
      BY <1>1, <1>4, <2>1, <2>6
    <3>2. reader = "written" /\ at = j => UNCHANGED new_data_written
      BY <2>1, <2>6
    <3>3. Signals(j)' /\ Preambles(j)' /\ Opened(j)'
      BY <1>5, <3>1 DEF ThreadInv, Signals, Preambles, Opened, Asks
    <3>4. Places(j)' /\ Serves(j)'
      BY <1>5, <3>1, <3>2
         DEF ThreadInv, Places, Serves, Asks, WillWrite, WillAnswer
    <3>5. QED BY <3>3, <3>4 DEF ThreadInv
  <2>7. QED BY <1>1, <2>1, <2>3, <2>4, <2>5, <2>6
<1>7. QED BY <1>2, <1>6 DEF ConnInv, UndisturbedInv

\* Where a thread is between messages: it owes the reader nothing.
Apart ==
  {"begun", "started", "loop", "header", "receiving", "failed", "closing"}

StaysApart(i, q) ==
  /\ q.thread \in Apart \cup {"offer", "done"}
  /\ q.thread # "done" =>
       q.stream # NoHandle \/ (q.thread = "loop" /\ ~q.running)
  /\ q.wakeup = conn[i].wakeup /\ q.reply_made = conn[i].reply_made
  /\ q.id = conn[i].id /\ q.ack = conn[i].ack
  /\ q.stream \in {NoHandle, conn[i].stream}
  /\ q.waiting \in {FALSE, conn[i].waiting}
  /\ q.read_more \in {FALSE, conn[i].read_more}

\* A step between messages that keeps the tokens and the identifier.
LEMMA ApartStep ==
  ASSUME ConnInv, NEW i \in Entries, NEW q \in ConnType, Becomes(i, q),
         UNCHANGED tokens, conn[i].thread \in Apart, q.thread # "none",
         q.available <=> q.thread = "done",
         Undisturbed => ~Lost(i) /\ StaysApart(i, q)
  PROVE  ConnInv'
<1> DEFINE c == conn[i]
<1>1. /\ TypeOK /\ AvailableMeansEnded
      /\ Undisturbed => StreamInv /\ ReaderInv /\ ThreadInv(i)
  BY DEF ConnInv, UndisturbedInv
<1>2. ASSUME Undisturbed PROVE ThreadInv(i)'
  <2>1. ReaderInv /\ ThreadInv(i) /\ ~c.available
    BY <1>1, <1>2 DEF Apart, AvailableMeansEnded
  <2>2. /\ conn'[i] = q
        /\ UNCHANGED <<reader, op, at, pid, source, new_data_written>>
    BY <1>1 DEF TypeOK, Becomes, Elsewhere, reading, tokens
  <2>3. ~(source = i /\ reader # "written")
    <3>1. i # 0
      BY DEF Entries
    <3>2. QED BY <2>1, <3>1
            DEF ThreadInv, Opened, Serves, Signals, WillAnswer, ReaderInv,
                Protocol, Apart, Asks
  <2>4. /\ ~c.waiting /\ ~c.read_more /\ c.wakeup = 0
        /\ ~(reader = "written" /\ at = i)
    BY <2>1 DEF ThreadInv, Signals, Places, Serves, WillWrite, Apart
  <2>5. ~q.waiting /\ ~q.read_more /\ q.wakeup = 0
    BY <1>2, <2>4 DEF StaysApart
  <2>6. Signals(i)' /\ Places(i)' /\ Preambles(i)'
    BY <1>2, <2>1, <2>2, <2>5
       DEF ThreadInv, Signals, Places, Preambles, Asks, Apart, StaysApart
  <2>7. Serves(i)' /\ Opened(i)'
    BY <1>2, <2>1, <2>2, <2>3, <2>4
       DEF ThreadInv, Serves, Opened, WillAnswer, Apart, StaysApart
  <2>8. QED BY <2>6, <2>7 DEF ThreadInv
<1>3. new_data' \in Nat /\ new_data_written' \in Nat
  BY <1>1 DEF TypeOK, tokens
<1>4. QED BY <1>2, <1>3, ThreadKeeps DEF Apart, StaysApart, Ended, tokens

\* Every step of a connection's thread keeps the invariant, as long as the
\* reader does not wait for it in vain.
LEMMA LiveThreadStep ==
  ASSUME ConnInv, NEW i \in Entries, Thread(i), Undisturbed => ~Lost(i)
  PROVE  ConnInv'
<1> DEFINE c == conn[i]
<1>1. /\ TypeOK /\ AvailableMeansEnded /\ ListInv /\ CloseInv
      /\ Undisturbed => ~Lost(i) /\ StreamInv /\ ReaderInv /\ ThreadInv(i)
  BY DEF ConnInv, UndisturbedInv
<1>2. /\ c \in ConnType /\ conn \in [Entries -> ConnType]
      /\ new_data \in Nat /\ new_data_written \in Nat
      /\ c.reply_made \in Nat /\ c.wakeup \in Nat
      /\ c.available \in BOOLEAN /\ c.ack \in BOOLEAN /\ c.buffer \in BOOLEAN
      /\ c.running \in BOOLEAN /\ NoHandle \in Streams
  BY <1>1, FieldsTyped DEF TypeOK, Streams
<1>3. CASE Begun(i)
  <2> DEFINE q == [c EXCEPT !.thread = IF c.id = NoHandle THEN "crashed"
                                    ELSE "started",
                  !.buffer = FALSE, !.waiting = FALSE, !.read_more = FALSE,
                  !.reply_preamble = FALSE]
  <2>1. /\ Becomes(i, q) /\ c.thread = "begun"
        /\ UNCHANGED tokens
    BY <1>3 DEF Begun, Private, Becomes, Elsewhere
  <2>2. q \in ConnType
    <3> DEFINE t == IF c.id = NoHandle THEN "crashed"
                    ELSE "started"
    <3>1. t \in ThreadPlaces
      BY <1>2, <2>1 DEF ThreadPlaces
    <3> HIDE DEF t
    <3>2. [c EXCEPT !.thread = t,
                    !.buffer = FALSE, !.waiting = FALSE, !.read_more = FALSE,
                    !.reply_preamble = FALSE] \in ConnType
      BY Zenon, <1>2, <3>1, FieldTypes
    <3>3. QED BY <3>2 DEF t
  <2>3. /\ c.thread \in Apart /\ q.thread # "none"
        /\ q.available <=> q.thread = "done"
    BY <1>1, <1>2, <2>1 DEF Apart, AvailableMeansEnded
  <2>4. Undisturbed => ~Lost(i) /\ StaysApart(i, q)
    BY <1>1, <1>2, <1>3, <2>1 DEF StaysApart, StreamInv, Apart, Ended
  <2>5. QED BY <2>1, <2>2, <2>3, <2>4, ApartStep
<1>4. CASE Started(i)
  <2> DEFINE q == [c EXCEPT !.thread = IF c.stream = NoHandle THEN "crashed"
                                    ELSE "loop"]
  <2>1. /\ Becomes(i, q) /\ c.thread = "started"
        /\ UNCHANGED tokens
    BY <1>4 DEF Started, Private, Move, Becomes, Elsewhere
  <2>2. q \in ConnType
    <3> DEFINE t == IF c.stream = NoHandle THEN "crashed"
                    ELSE "loop"
    <3>1. t \in ThreadPlaces
      BY <1>2, <2>1 DEF ThreadPlaces
    <3> HIDE DEF t
    <3>2. [c EXCEPT !.thread = t] \in ConnType
      BY Zenon, <1>2, <3>1, FieldTypes
    <3>3. QED BY <3>2 DEF t
  <2>3. /\ c.thread \in Apart /\ q.thread # "none"
        /\ q.available <=> q.thread = "done"
    BY <1>1, <1>2, <2>1 DEF Apart, AvailableMeansEnded
  <2>4. Undisturbed => ~Lost(i) /\ StaysApart(i, q)
    BY <1>1, <1>2, <1>4, <2>1 DEF StaysApart, StreamInv, Apart, Ended
  <2>5. QED BY <2>1, <2>2, <2>3, <2>4, ApartStep
<1>5. CASE Loop(i) /\ c.running
  <2> DEFINE q == [c EXCEPT !.thread = "header"]
  <2>1. /\ Becomes(i, q) /\ c.thread = "loop"
        /\ UNCHANGED tokens
    BY <1>5 DEF Loop, Private, Move, Becomes, Elsewhere
  <2>2. q \in ConnType
    BY Zenon, <1>2, FieldTypes DEF ThreadPlaces
  <2>3. /\ c.thread \in Apart /\ q.thread # "none"
        /\ q.available <=> q.thread = "done"
    BY <1>1, <1>2, <2>1 DEF Apart, AvailableMeansEnded
  <2>4. Undisturbed => ~Lost(i) /\ StaysApart(i, q)
    BY <1>1, <1>2, <1>5, <2>1 DEF StaysApart, StreamInv, Apart, Ended
  <2>5. QED BY <2>1, <2>2, <2>3, <2>4, ApartStep
<1>6. CASE Loop(i) /\ ~c.running
  <2> DEFINE q == [c EXCEPT !.thread = "done", !.available = TRUE]
  <2>1. /\ Becomes(i, q) /\ c.thread = "loop"
        /\ UNCHANGED tokens
    BY <1>6 DEF Loop, Private, Move, Becomes, Elsewhere
  <2>2. q \in ConnType
    BY Zenon, <1>2, FieldTypes DEF ThreadPlaces
  <2>3. /\ c.thread \in Apart /\ q.thread # "none"
        /\ q.available <=> q.thread = "done"
    BY <1>1, <1>2, <2>1 DEF Apart, AvailableMeansEnded
  <2>4. Undisturbed => ~Lost(i) /\ StaysApart(i, q)
    BY <1>1, <1>2, <1>6, <2>1 DEF StaysApart, StreamInv, Apart, Ended
  <2>5. QED BY <2>1, <2>2, <2>3, <2>4, ApartStep
<1>7. CASE CallReceive(i)
  <2> DEFINE q == [c EXCEPT !.thread = IF c.stream = NoHandle THEN "crashed"
                                    ELSE "receiving"]
  <2>1. /\ Becomes(i, q) /\ c.thread = "header"
        /\ UNCHANGED tokens
    BY <1>7 DEF CallReceive, Private, Move, Becomes, Elsewhere
  <2>2. q \in ConnType
    <3> DEFINE t == IF c.stream = NoHandle THEN "crashed"
                    ELSE "receiving"
    <3>1. t \in ThreadPlaces
      BY <1>2, <2>1 DEF ThreadPlaces
    <3> HIDE DEF t
    <3>2. [c EXCEPT !.thread = t] \in ConnType
      BY Zenon, <1>2, <3>1, FieldTypes
    <3>3. QED BY <3>2 DEF t
  <2>3. /\ c.thread \in Apart /\ q.thread # "none"
        /\ q.available <=> q.thread = "done"
    BY <1>1, <1>2, <2>1 DEF Apart, AvailableMeansEnded
  <2>4. Undisturbed => ~Lost(i) /\ StaysApart(i, q)
    BY <1>1, <1>2, <1>7, <2>1 DEF StaysApart, StreamInv, Apart, Ended
  <2>5. QED BY <2>1, <2>2, <2>3, <2>4, ApartStep
<1>8. CASE Received(i) /\ c.stream # NoHandle /\ Move(i, "offer")
  <2> DEFINE q == [c EXCEPT !.thread = "offer"]
  <2>1. /\ Becomes(i, q) /\ c.thread = "receiving"
        /\ UNCHANGED tokens
    BY <1>8 DEF Received, Private, Move, Becomes, Elsewhere
  <2>2. q \in ConnType
    BY Zenon, <1>2, FieldTypes DEF ThreadPlaces
  <2>3. /\ c.thread \in Apart /\ q.thread # "none"
        /\ q.available <=> q.thread = "done"
    BY <1>1, <1>2, <2>1 DEF Apart, AvailableMeansEnded
  <2>4. Undisturbed => ~Lost(i) /\ StaysApart(i, q)
    BY <1>1, <1>2, <1>8, <2>1 DEF StaysApart, StreamInv, Apart, Ended
  <2>5. QED BY <2>1, <2>2, <2>3, <2>4, ApartStep
<1>9. CASE Received(i) /\ c.running /\ Move(i, "header")
  <2> DEFINE q == [c EXCEPT !.thread = "header"]
  <2>1. /\ Becomes(i, q) /\ c.thread = "receiving"
        /\ UNCHANGED tokens
    BY <1>9 DEF Received, Private, Move, Becomes, Elsewhere
  <2>2. q \in ConnType
    BY Zenon, <1>2, FieldTypes DEF ThreadPlaces
  <2>3. /\ c.thread \in Apart /\ q.thread # "none"
        /\ q.available <=> q.thread = "done"
    BY <1>1, <1>2, <2>1 DEF Apart, AvailableMeansEnded
  <2>4. Undisturbed => ~Lost(i) /\ StaysApart(i, q)
    BY <1>1, <1>2, <1>9, <2>1 DEF StaysApart, StreamInv, Apart, Ended
  <2>5. QED BY <2>1, <2>2, <2>3, <2>4, ApartStep
<1>10. CASE Received(i) /\ Move(i, "failed")
  <2> DEFINE q == [c EXCEPT !.thread = "failed"]
  <2>1. /\ Becomes(i, q) /\ c.thread = "receiving"
        /\ UNCHANGED tokens
    BY <1>10 DEF Received, Private, Move, Becomes, Elsewhere
  <2>2. q \in ConnType
    BY Zenon, <1>2, FieldTypes DEF ThreadPlaces
  <2>3. /\ c.thread \in Apart /\ q.thread # "none"
        /\ q.available <=> q.thread = "done"
    BY <1>1, <1>2, <2>1 DEF Apart, AvailableMeansEnded
  <2>4. Undisturbed => ~Lost(i) /\ StaysApart(i, q)
    BY <1>1, <1>2, <1>10, <2>1 DEF StaysApart, StreamInv, Apart, Ended
  <2>5. QED BY <2>1, <2>2, <2>3, <2>4, ApartStep
<1>11. CASE Failed(i) /\ c.stream # NoHandle
  <2> DEFINE q == [c EXCEPT !.thread = "closing"]
  <2>1. /\ Becomes(i, q) /\ c.thread = "failed"
        /\ UNCHANGED tokens
    BY <1>11 DEF Failed, Private, Move, Becomes, Elsewhere
  <2>2. q \in ConnType
    BY Zenon, <1>2, FieldTypes DEF ThreadPlaces
  <2>3. /\ c.thread \in Apart /\ q.thread # "none"
        /\ q.available <=> q.thread = "done"
    BY <1>1, <1>2, <2>1 DEF Apart, AvailableMeansEnded
  <2>4. Undisturbed => ~Lost(i) /\ StaysApart(i, q)
    BY <1>1, <1>2, <1>11, <2>1 DEF StaysApart, StreamInv, Apart, Ended
  <2>5. QED BY <2>1, <2>2, <2>3, <2>4, ApartStep
<1>12. CASE Failed(i) /\ c.stream = NoHandle
  <2> DEFINE q == [c EXCEPT !.thread = "loop", !.running = FALSE]
  <2>1. /\ Becomes(i, q) /\ c.thread = "failed"
        /\ UNCHANGED tokens
    BY <1>12 DEF Failed, Private, Move, Becomes, Elsewhere
  <2>2. q \in ConnType
    BY Zenon, <1>2, FieldTypes DEF ThreadPlaces
  <2>3. /\ c.thread \in Apart /\ q.thread # "none"
        /\ q.available <=> q.thread = "done"
    BY <1>1, <1>2, <2>1 DEF Apart, AvailableMeansEnded
  <2>4. Undisturbed => ~Lost(i) /\ StaysApart(i, q)
    BY <1>1, <1>2, <1>12, <2>1 DEF StaysApart, StreamInv, Apart, Ended
  <2>5. QED BY <2>1, <2>2, <2>3, <2>4, ApartStep
<1>13. CASE CloseStream(i) /\ c.stream # NoHandle
  <2> DEFINE q == [c EXCEPT !.thread = "loop", !.stream = NoHandle,
                            !.running = FALSE]
  <2>1. /\ Becomes(i, q) /\ c.thread = "closing"
        /\ UNCHANGED tokens
    BY <1>13 DEF CloseStream, Private, Becomes, Elsewhere
  <2>2. q \in ConnType
    BY Zenon, <1>2, FieldTypes DEF ThreadPlaces
  <2>3. /\ c.thread \in Apart /\ q.thread # "none"
        /\ q.available <=> q.thread = "done"
    BY <1>1, <1>2, <2>1 DEF Apart, AvailableMeansEnded
  <2>4. Undisturbed => ~Lost(i) /\ StaysApart(i, q)
    BY <1>1, <1>2, <1>13, <2>1 DEF StaysApart, StreamInv, Apart, Ended
  <2>5. QED BY <2>1, <2>2, <2>3, <2>4, ApartStep
<1>14. CASE CloseStream(i) /\ c.stream = NoHandle
  <2> DEFINE q == [c EXCEPT !.thread = "crashed"]
  <2>1. /\ Becomes(i, q) /\ c.thread = "closing"
        /\ UNCHANGED tokens
    BY <1>14 DEF CloseStream, Private, Becomes, Elsewhere
  <2>2. q \in ConnType
    BY Zenon, <1>2, FieldTypes DEF ThreadPlaces
  <2>3. /\ c.thread \in Apart /\ q.thread # "none"
        /\ q.available <=> q.thread = "done"
    BY <1>1, <1>2, <2>1 DEF Apart, AvailableMeansEnded
  <2>4. Undisturbed => ~Lost(i) /\ StaysApart(i, q)
    BY <1>1, <1>2, <1>14, <2>1 DEF StaysApart, StreamInv, Apart, Ended
  <2>5. QED BY <2>1, <2>2, <2>3, <2>4, ApartStep
<1>15. CASE Offer(i) /\ initialized
  <2> DEFINE q == [c EXCEPT !.thread = "waiting", !.buffer = FALSE,
                            !.waiting = TRUE]
  <2>1. /\ Becomes(i, q) /\ c.thread = "offer"
        /\ new_data' = new_data + 1 /\ UNCHANGED new_data_written
    BY <1>15 DEF Offer, Move, Becomes, Elsewhere
  <2>2. q \in ConnType
    BY Zenon, <1>2, FieldTypes DEF ThreadPlaces
  <2>3. /\ c.thread \notin Ended /\ q.thread # "none"
        /\ q.available <=> q.thread = "done"
        /\ new_data' \in Nat /\ new_data_written' \in Nat
    BY <1>1, <1>2, <2>1 DEF AvailableMeansEnded, Ended, tokens
  <2>4. ASSUME Undisturbed
        PROVE  /\ q.thread \notin Ended =>
                    q.stream # NoHandle \/ (q.thread = "loop" /\ ~q.running)
               /\ q.id = c.id /\ q.stream \in {NoHandle, c.stream}
               /\ \/ new_data_written' = new_data_written
                  \/ reader = "written" /\ at = i /\ new_data_written' = 1
               /\ ~Lost(i) /\ ThreadInv(i)'
    <3>1. /\ ReaderInv /\ ThreadInv(i) /\ c.id # NoHandle
          /\ c.stream # NoHandle \/ (c.thread = "loop" /\ ~c.running)
      BY <1>1, <2>3, <2>4 DEF StreamInv
    <3>2. /\ conn'[i] = q
          /\ UNCHANGED <<reader, op, at, pid, source>>
      BY <1>2, <2>1 DEF Becomes, Elsewhere, reading
    <3>3. /\ q.thread \notin Ended =>
               q.stream # NoHandle \/ (q.thread = "loop" /\ ~q.running)
          /\ q.id = c.id /\ q.stream \in {NoHandle, c.stream}
          /\ \/ new_data_written' = new_data_written
             \/ reader = "written" /\ at = i /\ new_data_written' = 1
      BY <1>2, <1>15, <2>1, <3>1 DEF ThreadInv, Places, Ended, tokens
    <3>4. ThreadInv(i)'
      BY <1>2, <1>15, <2>1, <3>1, <3>2
         DEF ThreadInv, Signals, Places, Preambles, Serves, Opened, Asks,
             WillWrite, WillAnswer, Protocol, Ended, tokens, ReaderInv
    <3>5. QED BY <1>1, <2>4, <3>3, <3>4
  <2>5. QED BY <2>1, <2>2, <2>3, <2>4, ThreadKeeps
<1>16. CASE Offer(i) /\ ~initialized
  <2> DEFINE q == [c EXCEPT !.thread = "crashed"]
  <2>1. /\ Becomes(i, q) /\ c.thread = "offer"
        /\ UNCHANGED tokens
    BY <1>16 DEF Offer, Move, Becomes, Elsewhere, tokens
  <2>2. q \in ConnType
    BY Zenon, <1>2, FieldTypes DEF ThreadPlaces
  <2>3. /\ c.thread \notin Ended /\ q.thread # "none"
        /\ q.available <=> q.thread = "done"
        /\ new_data' \in Nat /\ new_data_written' \in Nat
    BY <1>1, <1>2, <2>1 DEF AvailableMeansEnded, Ended, tokens
  <2>4. ~Undisturbed
    BY <1>1, <1>16 DEF ListInv, Undisturbed, NothingEnded
  <2>5. QED BY <2>1, <2>2, <2>3, <2>4, ThreadKeeps
<1>17. CASE Woken(i)
  <2> DEFINE q == [c EXCEPT !.wakeup = c.wakeup - 1,
                  !.thread = IF c.buffer THEN "body"
                                    ELSE "loop"]
  <2>1. /\ Becomes(i, q) /\ c.thread = "waiting"
        /\ UNCHANGED tokens /\ c.wakeup > 0
    <3>1. conn' = [conn EXCEPT ![i] = q]
      BY Zenon, <1>17 DEF Woken
    <3>2. QED BY <3>1, <1>17 DEF Woken, Private, Becomes, Elsewhere
  <2>2. q \in ConnType
    <3> DEFINE m == c.wakeup - 1
               t == IF c.buffer THEN "body"
                    ELSE "loop"
    <3>1. m \in Nat /\ t \in ThreadPlaces
      BY <1>2, <2>1 DEF ThreadPlaces
    <3> HIDE DEF m, t
    <3>2. [c EXCEPT !.wakeup = m,
                    !.thread = t] \in ConnType
      BY Zenon, <1>2, <3>1, FieldTypes
    <3>3. QED BY <3>2 DEF m, t
  <2>3. /\ c.thread \notin Ended /\ q.thread # "none"
        /\ q.available <=> q.thread = "done"
        /\ new_data' \in Nat /\ new_data_written' \in Nat
    BY <1>1, <1>2, <2>1 DEF AvailableMeansEnded, Ended, tokens
  <2>4. ASSUME Undisturbed
        PROVE  /\ q.thread \notin Ended =>
                    q.stream # NoHandle \/ (q.thread = "loop" /\ ~q.running)
               /\ q.id = c.id /\ q.stream \in {NoHandle, c.stream}
               /\ \/ new_data_written' = new_data_written
                  \/ reader = "written" /\ at = i /\ new_data_written' = 1
               /\ ~Lost(i) /\ ThreadInv(i)'
    <3>1. /\ ReaderInv /\ ThreadInv(i) /\ c.id # NoHandle
          /\ c.stream # NoHandle \/ (c.thread = "loop" /\ ~c.running)
      BY <1>1, <2>3, <2>4 DEF StreamInv
    <3>2. /\ conn'[i] = q
          /\ UNCHANGED <<reader, op, at, pid, source>>
      BY <1>2, <2>1 DEF Becomes, Elsewhere, reading
    <3>3. /\ q.thread \notin Ended =>
               q.stream # NoHandle \/ (q.thread = "loop" /\ ~q.running)
          /\ q.id = c.id /\ q.stream \in {NoHandle, c.stream}
          /\ \/ new_data_written' = new_data_written
             \/ reader = "written" /\ at = i /\ new_data_written' = 1
      BY <1>2, <1>17, <2>1, <3>1 DEF ThreadInv, Places, Ended, tokens
    <3>4. ThreadInv(i)'
      BY <1>2, <1>17, <2>1, <3>1, <3>2
         DEF ThreadInv, Signals, Places, Preambles, Serves, Opened, Asks,
             WillWrite, WillAnswer, Protocol, Ended, tokens, ReaderInv
    <3>5. QED BY <1>1, <2>4, <3>3, <3>4
  <2>5. QED BY <2>1, <2>2, <2>3, <2>4, ThreadKeeps
<1>18. CASE ReceiveBody(i) /\ c.stream = NoHandle /\ Move(i, "crashed")
  <2> DEFINE q == [c EXCEPT !.thread = "crashed"]
  <2>1. /\ Becomes(i, q) /\ c.thread = "body"
        /\ UNCHANGED tokens
    BY <1>18 DEF ReceiveBody, Private, Move, Becomes, Elsewhere
  <2>2. q \in ConnType
    BY Zenon, <1>2, FieldTypes DEF ThreadPlaces
  <2>3. /\ c.thread \notin Ended /\ q.thread # "none"
        /\ q.available <=> q.thread = "done"
        /\ new_data' \in Nat /\ new_data_written' \in Nat
    BY <1>1, <1>2, <2>1 DEF AvailableMeansEnded, Ended, tokens
  <2>4. ~Undisturbed
    BY <1>1, <1>18, <2>1 DEF StreamInv, Ended
  <2>5. QED BY <2>1, <2>2, <2>3, <2>4, ThreadKeeps
<1>19. CASE ReceiveBody(i) /\ c.stream # NoHandle /\ Move(i, "written")
  <2> DEFINE q == [c EXCEPT !.thread = "written"]
  <2>1. /\ Becomes(i, q) /\ c.thread = "body"
        /\ UNCHANGED tokens
    BY <1>19 DEF ReceiveBody, Private, Move, Becomes, Elsewhere
  <2>2. q \in ConnType
    BY Zenon, <1>2, FieldTypes DEF ThreadPlaces
  <2>3. /\ c.thread \notin Ended /\ q.thread # "none"
        /\ q.available <=> q.thread = "done"
        /\ new_data' \in Nat /\ new_data_written' \in Nat
    BY <1>1, <1>2, <2>1 DEF AvailableMeansEnded, Ended, tokens
  <2>4. ASSUME Undisturbed
        PROVE  /\ q.thread \notin Ended =>
                    q.stream # NoHandle \/ (q.thread = "loop" /\ ~q.running)
               /\ q.id = c.id /\ q.stream \in {NoHandle, c.stream}
               /\ \/ new_data_written' = new_data_written
                  \/ reader = "written" /\ at = i /\ new_data_written' = 1
               /\ ~Lost(i) /\ ThreadInv(i)'
    <3>1. /\ ReaderInv /\ ThreadInv(i) /\ c.id # NoHandle
          /\ c.stream # NoHandle \/ (c.thread = "loop" /\ ~c.running)
      BY <1>1, <2>3, <2>4 DEF StreamInv
    <3>2. /\ conn'[i] = q
          /\ UNCHANGED <<reader, op, at, pid, source>>
      BY <1>2, <2>1 DEF Becomes, Elsewhere, reading
    <3>3. /\ q.thread \notin Ended =>
               q.stream # NoHandle \/ (q.thread = "loop" /\ ~q.running)
          /\ q.id = c.id /\ q.stream \in {NoHandle, c.stream}
          /\ \/ new_data_written' = new_data_written
             \/ reader = "written" /\ at = i /\ new_data_written' = 1
      BY <1>2, <1>19, <2>1, <3>1 DEF ThreadInv, Places, Ended, tokens
    <3>4. ThreadInv(i)'
      BY <1>2, <1>19, <2>1, <3>1, <3>2
         DEF ThreadInv, Signals, Places, Preambles, Serves, Opened, Asks,
             WillWrite, WillAnswer, Protocol, Ended, tokens, ReaderInv
    <3>5. QED BY <1>1, <2>4, <3>3, <3>4
  <2>5. QED BY <2>1, <2>2, <2>3, <2>4, ThreadKeeps
<1>20. CASE ReceiveBody(i) /\ conn' = [conn EXCEPT ![i] = [conn[i] EXCEPT
                                 !.thread = "written", !.running = FALSE]]
  <2> DEFINE q == [c EXCEPT !.thread = "written", !.running = FALSE]
  <2>1. /\ Becomes(i, q) /\ c.thread = "body"
        /\ UNCHANGED tokens
    BY <1>20 DEF ReceiveBody, Private, Becomes, Elsewhere
  <2>2. q \in ConnType
    BY Zenon, <1>2, FieldTypes DEF ThreadPlaces
  <2>3. /\ c.thread \notin Ended /\ q.thread # "none"
        /\ q.available <=> q.thread = "done"
        /\ new_data' \in Nat /\ new_data_written' \in Nat
    BY <1>1, <1>2, <2>1 DEF AvailableMeansEnded, Ended, tokens
  <2>4. ASSUME Undisturbed
        PROVE  /\ q.thread \notin Ended =>
                    q.stream # NoHandle \/ (q.thread = "loop" /\ ~q.running)
               /\ q.id = c.id /\ q.stream \in {NoHandle, c.stream}
               /\ \/ new_data_written' = new_data_written
                  \/ reader = "written" /\ at = i /\ new_data_written' = 1
               /\ ~Lost(i) /\ ThreadInv(i)'
    <3>1. /\ ReaderInv /\ ThreadInv(i) /\ c.id # NoHandle
          /\ c.stream # NoHandle \/ (c.thread = "loop" /\ ~c.running)
      BY <1>1, <2>3, <2>4 DEF StreamInv
    <3>2. /\ conn'[i] = q
          /\ UNCHANGED <<reader, op, at, pid, source>>
      BY <1>2, <2>1 DEF Becomes, Elsewhere, reading
    <3>3. /\ q.thread \notin Ended =>
               q.stream # NoHandle \/ (q.thread = "loop" /\ ~q.running)
          /\ q.id = c.id /\ q.stream \in {NoHandle, c.stream}
          /\ \/ new_data_written' = new_data_written
             \/ reader = "written" /\ at = i /\ new_data_written' = 1
      BY <1>2, <1>20, <2>1, <3>1 DEF ThreadInv, Places, Ended, tokens
    <3>4. ThreadInv(i)'
      BY <1>2, <1>20, <2>1, <3>1, <3>2
         DEF ThreadInv, Signals, Places, Preambles, Serves, Opened, Asks,
             WillWrite, WillAnswer, Protocol, Ended, tokens, ReaderInv
    <3>5. QED BY <1>1, <2>4, <3>3, <3>4
  <2>5. QED BY <2>1, <2>2, <2>3, <2>4, ThreadKeeps
<1>21. CASE ReceiveBody(i) /\ "reset" \in Failures /\ Move(i, "crashed")
  <2> DEFINE q == [c EXCEPT !.thread = "crashed"]
  <2>1. /\ Becomes(i, q) /\ c.thread = "body"
        /\ UNCHANGED tokens
    BY <1>21 DEF ReceiveBody, Private, Move, Becomes, Elsewhere
  <2>2. q \in ConnType
    BY Zenon, <1>2, FieldTypes DEF ThreadPlaces
  <2>3. /\ c.thread \notin Ended /\ q.thread # "none"
        /\ q.available <=> q.thread = "done"
        /\ new_data' \in Nat /\ new_data_written' \in Nat
    BY <1>1, <1>2, <2>1 DEF AvailableMeansEnded, Ended, tokens
  <2>4. ~Undisturbed
    BY <1>21 DEF Undisturbed
  <2>5. QED BY <2>1, <2>2, <2>3, <2>4, ThreadKeeps
<1>22. CASE Written(i) /\ initialized
  <2> DEFINE q == [c EXCEPT !.thread = "held"]
  <2>1. /\ Becomes(i, q) /\ c.thread = "written"
        /\ new_data_written' = new_data_written + 1 /\ UNCHANGED new_data
    BY <1>22 DEF Written, Move, Becomes, Elsewhere
  <2>2. q \in ConnType
    BY Zenon, <1>2, FieldTypes DEF ThreadPlaces
  <2>3. /\ c.thread \notin Ended /\ q.thread # "none"
        /\ q.available <=> q.thread = "done"
        /\ new_data' \in Nat /\ new_data_written' \in Nat
    BY <1>1, <1>2, <2>1 DEF AvailableMeansEnded, Ended, tokens
  <2>4. ASSUME Undisturbed
        PROVE  /\ q.thread \notin Ended =>
                    q.stream # NoHandle \/ (q.thread = "loop" /\ ~q.running)
               /\ q.id = c.id /\ q.stream \in {NoHandle, c.stream}
               /\ \/ new_data_written' = new_data_written
                  \/ reader = "written" /\ at = i /\ new_data_written' = 1
               /\ ~Lost(i) /\ ThreadInv(i)'
    <3>1. /\ ReaderInv /\ ThreadInv(i) /\ c.id # NoHandle
          /\ c.stream # NoHandle \/ (c.thread = "loop" /\ ~c.running)
      BY <1>1, <2>3, <2>4 DEF StreamInv
    <3>2. /\ conn'[i] = q
          /\ UNCHANGED <<reader, op, at, pid, source>>
      BY <1>2, <2>1 DEF Becomes, Elsewhere, reading
    <3>3. /\ q.thread \notin Ended =>
               q.stream # NoHandle \/ (q.thread = "loop" /\ ~q.running)
          /\ q.id = c.id /\ q.stream \in {NoHandle, c.stream}
          /\ \/ new_data_written' = new_data_written
             \/ reader = "written" /\ at = i /\ new_data_written' = 1
      BY <1>2, <1>22, <2>1, <3>1 DEF ThreadInv, Places, Ended, tokens
    <3>4. ThreadInv(i)'
      BY <1>2, <1>22, <2>1, <3>1, <3>2
         DEF ThreadInv, Signals, Places, Preambles, Serves, Opened, Asks,
             WillWrite, WillAnswer, Protocol, Ended, tokens, ReaderInv
    <3>5. QED BY <1>1, <2>4, <3>3, <3>4
  <2>5. QED BY <2>1, <2>2, <2>3, <2>4, ThreadKeeps
<1>23. CASE Written(i) /\ ~initialized
  <2> DEFINE q == [c EXCEPT !.thread = "crashed"]
  <2>1. /\ Becomes(i, q) /\ c.thread = "written"
        /\ UNCHANGED tokens
    BY <1>23 DEF Written, Move, Becomes, Elsewhere, tokens
  <2>2. q \in ConnType
    BY Zenon, <1>2, FieldTypes DEF ThreadPlaces
  <2>3. /\ c.thread \notin Ended /\ q.thread # "none"
        /\ q.available <=> q.thread = "done"
        /\ new_data' \in Nat /\ new_data_written' \in Nat
    BY <1>1, <1>2, <2>1 DEF AvailableMeansEnded, Ended, tokens
  <2>4. ~Undisturbed
    BY <1>1, <1>23 DEF ListInv, Undisturbed, NothingEnded
  <2>5. QED BY <2>1, <2>2, <2>3, <2>4, ThreadKeeps
<1>24. CASE Wished(i)
  <2> DEFINE q == [c EXCEPT !.wakeup = c.wakeup - 1,
                  !.thread = IF c.read_more THEN "part"
                             ELSE IF c.ack /\ c.id # NoHandle THEN "ack"
                             ELSE "loop"]
  <2>1. /\ Becomes(i, q) /\ c.thread = "held"
        /\ UNCHANGED tokens /\ c.wakeup > 0
    <3>1. conn' = [conn EXCEPT ![i] = q]
      BY Zenon, <1>24 DEF Wished
    <3>2. QED BY <3>1, <1>24 DEF Wished, Private, Becomes, Elsewhere
  <2>2. q \in ConnType
    <3> DEFINE m == c.wakeup - 1
               t == IF c.read_more THEN "part"
                    ELSE IF c.ack /\ c.id # NoHandle THEN "ack"
                    ELSE "loop"
    <3>1. m \in Nat /\ t \in ThreadPlaces
      BY <1>2, <2>1 DEF ThreadPlaces
    <3> HIDE DEF m, t
    <3>2. [c EXCEPT !.wakeup = m,
                    !.thread = t] \in ConnType
      BY Zenon, <1>2, <3>1, FieldTypes
    <3>3. QED BY <3>2 DEF m, t
  <2>3. /\ c.thread \notin Ended /\ q.thread # "none"
        /\ q.available <=> q.thread = "done"
        /\ new_data' \in Nat /\ new_data_written' \in Nat
    BY <1>1, <1>2, <2>1 DEF AvailableMeansEnded, Ended, tokens
  <2>4. ASSUME Undisturbed
        PROVE  /\ q.thread \notin Ended =>
                    q.stream # NoHandle \/ (q.thread = "loop" /\ ~q.running)
               /\ q.id = c.id /\ q.stream \in {NoHandle, c.stream}
               /\ \/ new_data_written' = new_data_written
                  \/ reader = "written" /\ at = i /\ new_data_written' = 1
               /\ ~Lost(i) /\ ThreadInv(i)'
    <3>1. /\ ReaderInv /\ ThreadInv(i) /\ c.id # NoHandle
          /\ c.stream # NoHandle \/ (c.thread = "loop" /\ ~c.running)
          /\ at = i => ~Astray
      BY <1>1, <2>3, <2>4 DEF StreamInv, Lost
    <3>2. /\ conn'[i] = q
          /\ UNCHANGED <<reader, op, at, pid, source>>
      BY <1>2, <2>1 DEF Becomes, Elsewhere, reading
    <3>3. /\ q.thread \notin Ended =>
               q.stream # NoHandle \/ (q.thread = "loop" /\ ~q.running)
          /\ q.id = c.id /\ q.stream \in {NoHandle, c.stream}
          /\ \/ new_data_written' = new_data_written
             \/ reader = "written" /\ at = i /\ new_data_written' = 1
      BY <1>2, <1>24, <2>1, <3>1 DEF ThreadInv, Places, Ended, tokens
    <3>4. ThreadInv(i)'
      <4>1. Signals(i)' /\ Places(i)' /\ Preambles(i)'
        BY <1>2, <1>24, <2>1, <3>1, <3>2
           DEF ThreadInv, Signals, Places, Preambles, Serves, Opened, Asks,
               WillWrite, WillAnswer, Protocol, Ended, tokens, ReaderInv
      <4>2. Serves(i)'
        BY <1>2, <1>24, <2>1, <3>1, <3>2
           DEF ThreadInv, Signals, Places, Preambles, Serves, Opened, Asks,
               WillWrite, WillAnswer, Protocol, Ended, tokens, ReaderInv
      <4>3. Opened(i)'
        BY <1>2, <1>24, <2>1, <3>1, <3>2
           DEF ThreadInv, Signals, Places, Preambles, Serves, Opened, Asks,
               WillWrite, WillAnswer, Protocol, Ended, tokens, ReaderInv
      <4>4. QED BY <4>1, <4>2, <4>3 DEF ThreadInv
    <3>5. QED BY <1>1, <2>4, <3>3, <3>4
  <2>5. QED BY <2>1, <2>2, <2>3, <2>4, ThreadKeeps
<1>25. CASE Part(i)
  <2>1. PICK g \in {"data", "none", "error"}, b \in BOOLEAN :
           conn' = [conn EXCEPT ![i] =
                      [c EXCEPT !.thread = IF c.stream = NoHandle THEN "crashed"
                                           ELSE "held",
                                !.got = g, !.read_more = FALSE, !.running = b,
                                !.reply_made = c.reply_made + 1]]
    <3> DEFINE G == {"data"}
                  \cup (IF "close" \in Failures THEN {"none"} ELSE {})
                  \cup (IF "reset" \in Failures THEN {"error"} ELSE {})
    <3>1. PICK h \in G :
             conn' = [conn EXCEPT ![i] = [conn[i] EXCEPT
               !.thread = IF conn[i].stream = NoHandle THEN "crashed"
                          ELSE "held",
               !.got = IF phase = "select" THEN "none" ELSE h,
               !.read_more = FALSE,
               !.running = @ /\ ~(phase # "select" /\ h # "data"),
               !.reply_made = @ + 1]]
      BY Zenon, <1>25 DEF Part
    <3>2. h \in {"data", "none", "error"}
      OBVIOUS
    <3> DEFINE g == IF phase = "select" THEN "none" ELSE h
               b == c.running /\ ~(phase # "select" /\ h # "data")
    <3>3. g \in {"data", "none", "error"} /\ b \in BOOLEAN
      BY <3>2
    <3>4. WITNESS g \in {"data", "none", "error"}, b \in BOOLEAN
    <3>5. QED BY Zenon, <3>1, <3>3
  <2> DEFINE q == [c EXCEPT !.thread = IF c.stream = NoHandle THEN "crashed"
                                    ELSE "held",
                  !.got = g, !.read_more = FALSE, !.running = b,
                  !.reply_made = c.reply_made + 1]
  <2>2. /\ Becomes(i, q) /\ c.thread = "part"
        /\ UNCHANGED tokens
    BY <2>1, <1>25 DEF Part, Private, Becomes, Elsewhere
  <2>3. q \in ConnType
    <3> DEFINE m == c.reply_made + 1
               t == IF c.stream = NoHandle THEN "crashed"
                    ELSE "held"
    <3>1. m \in Nat /\ t \in ThreadPlaces
      BY <1>2, <2>2 DEF ThreadPlaces
    <3> HIDE DEF m, t
    <3>2. [c EXCEPT !.thread = t,
                    !.got = g, !.read_more = FALSE, !.running = b,
                    !.reply_made = m] \in ConnType
      BY Zenon, <1>2, <2>1, <3>1, FieldTypes
    <3>3. QED BY <3>2 DEF m, t
  <2>4. /\ c.thread \notin Ended /\ q.thread # "none"
        /\ q.available <=> q.thread = "done"
        /\ new_data' \in Nat /\ new_data_written' \in Nat
    BY <1>1, <1>2, <2>2 DEF AvailableMeansEnded, Ended, tokens
  <2>5. ASSUME Undisturbed
        PROVE  /\ q.thread \notin Ended =>
                    q.stream # NoHandle \/ (q.thread = "loop" /\ ~q.running)
               /\ q.id = c.id /\ q.stream \in {NoHandle, c.stream}
               /\ \/ new_data_written' = new_data_written
                  \/ reader = "written" /\ at = i /\ new_data_written' = 1
               /\ ~Lost(i) /\ ThreadInv(i)'
    <3>1. /\ ReaderInv /\ ThreadInv(i) /\ c.id # NoHandle
          /\ c.stream # NoHandle \/ (c.thread = "loop" /\ ~c.running)
      BY <1>1, <2>4, <2>5 DEF StreamInv
    <3>2. /\ conn'[i] = q
          /\ UNCHANGED <<reader, op, at, pid, source>>
      BY <1>2, <2>2 DEF Becomes, Elsewhere, reading
    <3>3. /\ q.thread \notin Ended =>
               q.stream # NoHandle \/ (q.thread = "loop" /\ ~q.running)
          /\ q.id = c.id /\ q.stream \in {NoHandle, c.stream}
          /\ \/ new_data_written' = new_data_written
             \/ reader = "written" /\ at = i /\ new_data_written' = 1
      BY <1>2, <1>25, <2>2, <3>1 DEF ThreadInv, Places, Ended, tokens
    <3>4. ThreadInv(i)'
      BY <1>2, <1>25, <2>2, <3>1, <3>2
         DEF ThreadInv, Signals, Places, Preambles, Serves, Opened, Asks,
             WillWrite, WillAnswer, Protocol, Ended, tokens, ReaderInv
    <3>5. QED BY <1>1, <2>5, <3>3, <3>4
  <2>6. QED BY <2>2, <2>3, <2>4, <2>5, ThreadKeeps
<1>26. CASE Ack(i)
  <2>1. PICK b \in BOOLEAN :
           conn' = [conn EXCEPT ![i] =
                      [c EXCEPT !.thread = IF c.stream = NoHandle THEN "crashed"
                                           ELSE IF c.reply_preamble
                                           THEN "preamble" ELSE "loop",
                                !.running = b, !.reply_made = c.reply_made + 1]]
    <3>1. PICK fails \in {FALSE, Failures \cap {"close", "reset"} # {}} :
             conn' = [conn EXCEPT ![i] = [conn[i] EXCEPT
               !.thread = IF conn[i].stream = NoHandle THEN "crashed"
                          ELSE IF conn[i].reply_preamble THEN "preamble"
                          ELSE "loop",
               !.running = @ /\ ~fails, !.reply_made = @ + 1]]
      BY Zenon, <1>26 DEF Ack
    <3> DEFINE b == c.running /\ ~fails
    <3>2. b \in BOOLEAN
      OBVIOUS
    <3>3. WITNESS b \in BOOLEAN
    <3>4. QED BY Zenon, <3>1, <3>2
  <2> DEFINE q == [c EXCEPT !.thread = IF c.stream = NoHandle THEN "crashed"
                                    ELSE IF c.reply_preamble THEN "preamble"
                                    ELSE "loop",
                  !.running = b, !.reply_made = c.reply_made + 1]
  <2>2. /\ Becomes(i, q) /\ c.thread = "ack"
        /\ UNCHANGED tokens
    BY <2>1, <1>26 DEF Ack, Private, Becomes, Elsewhere
  <2>3. q \in ConnType
    <3> DEFINE m == c.reply_made + 1
               t == IF c.stream = NoHandle THEN "crashed"
                    ELSE IF c.reply_preamble THEN "preamble" ELSE "loop"
    <3>1. m \in Nat /\ t \in ThreadPlaces
      BY <1>2, <2>2 DEF ThreadPlaces
    <3> HIDE DEF m, t
    <3>2. [c EXCEPT !.thread = t,
                    !.running = b, !.reply_made = m] \in ConnType
      BY Zenon, <1>2, <2>1, <3>1, FieldTypes
    <3>3. QED BY <3>2 DEF m, t
  <2>4. /\ c.thread \notin Ended /\ q.thread # "none"
        /\ q.available <=> q.thread = "done"
        /\ new_data' \in Nat /\ new_data_written' \in Nat
    BY <1>1, <1>2, <2>2 DEF AvailableMeansEnded, Ended, tokens
  <2>5. ASSUME Undisturbed
        PROVE  /\ q.thread \notin Ended =>
                    q.stream # NoHandle \/ (q.thread = "loop" /\ ~q.running)
               /\ q.id = c.id /\ q.stream \in {NoHandle, c.stream}
               /\ \/ new_data_written' = new_data_written
                  \/ reader = "written" /\ at = i /\ new_data_written' = 1
               /\ ~Lost(i) /\ ThreadInv(i)'
    <3>1. /\ ReaderInv /\ ThreadInv(i) /\ c.id # NoHandle
          /\ c.stream # NoHandle \/ (c.thread = "loop" /\ ~c.running)
          /\ at = i => ~Astray
      BY <1>1, <2>4, <2>5 DEF StreamInv, Lost
    <3>2. /\ conn'[i] = q
          /\ UNCHANGED <<reader, op, at, pid, source>>
      BY <1>2, <2>2 DEF Becomes, Elsewhere, reading
    <3>3. /\ q.thread \notin Ended =>
               q.stream # NoHandle \/ (q.thread = "loop" /\ ~q.running)
          /\ q.id = c.id /\ q.stream \in {NoHandle, c.stream}
          /\ \/ new_data_written' = new_data_written
             \/ reader = "written" /\ at = i /\ new_data_written' = 1
      BY <1>2, <1>26, <2>2, <3>1 DEF ThreadInv, Places, Ended, tokens
    <3>4. ThreadInv(i)'
      <4>1. Signals(i)' /\ Places(i)' /\ Preambles(i)'
        BY <1>2, <1>26, <2>2, <3>1, <3>2
           DEF ThreadInv, Signals, Places, Preambles, Serves, Opened, Asks,
               WillWrite, WillAnswer, Protocol, Ended, tokens, ReaderInv
      <4>2. Serves(i)'
        BY <1>2, <1>26, <2>2, <3>1, <3>2
           DEF ThreadInv, Signals, Places, Preambles, Serves, Opened, Asks,
               WillWrite, WillAnswer, Protocol, Ended, tokens, ReaderInv
      <4>3. Opened(i)'
        BY <1>2, <1>26, <2>2, <3>1, <3>2
           DEF ThreadInv, Signals, Places, Preambles, Serves, Opened, Asks,
               WillWrite, WillAnswer, Protocol, Ended, tokens, ReaderInv
      <4>4. QED BY <4>1, <4>2, <4>3 DEF ThreadInv
    <3>5. QED BY <1>1, <2>5, <3>3, <3>4
  <2>6. QED BY <2>2, <2>3, <2>4, <2>5, ThreadKeeps
<1>27. CASE AckWoken(i)
  <2> DEFINE q == [c EXCEPT !.wakeup = c.wakeup - 1, !.thread = "ack"]
  <2>1. /\ Becomes(i, q) /\ c.thread = "preamble"
        /\ UNCHANGED tokens /\ c.wakeup > 0
    <3>1. conn' = [conn EXCEPT ![i] = q]
      BY Zenon, <1>27 DEF AckWoken
    <3>2. QED BY <3>1, <1>27 DEF AckWoken, Private, Becomes, Elsewhere
  <2>2. q \in ConnType
    <3> DEFINE m == c.wakeup - 1
    <3>1. m \in Nat
      BY <1>2, <2>1 DEF ThreadPlaces
    <3> HIDE DEF m
    <3>2. [c EXCEPT !.wakeup = m, !.thread = "ack"] \in ConnType
      BY Zenon, <1>2, <3>1, FieldTypes DEF ThreadPlaces
    <3>3. QED BY <3>2 DEF m
  <2>3. /\ c.thread \notin Ended /\ q.thread # "none"
        /\ q.available <=> q.thread = "done"
        /\ new_data' \in Nat /\ new_data_written' \in Nat
    BY <1>1, <1>2, <2>1 DEF AvailableMeansEnded, Ended, tokens
  <2>4. ASSUME Undisturbed
        PROVE  /\ q.thread \notin Ended =>
                    q.stream # NoHandle \/ (q.thread = "loop" /\ ~q.running)
               /\ q.id = c.id /\ q.stream \in {NoHandle, c.stream}
               /\ \/ new_data_written' = new_data_written
                  \/ reader = "written" /\ at = i /\ new_data_written' = 1
               /\ ~Lost(i) /\ ThreadInv(i)'
    <3>1. /\ ReaderInv /\ ThreadInv(i) /\ c.id # NoHandle
          /\ c.stream # NoHandle \/ (c.thread = "loop" /\ ~c.running)
      BY <1>1, <2>3, <2>4 DEF StreamInv
    <3>2. /\ conn'[i] = q
          /\ UNCHANGED <<reader, op, at, pid, source>>
      BY <1>2, <2>1 DEF Becomes, Elsewhere, reading
    <3>3. /\ q.thread \notin Ended =>
               q.stream # NoHandle \/ (q.thread = "loop" /\ ~q.running)
          /\ q.id = c.id /\ q.stream \in {NoHandle, c.stream}
          /\ \/ new_data_written' = new_data_written
             \/ reader = "written" /\ at = i /\ new_data_written' = 1
      BY <1>2, <1>27, <2>1, <3>1 DEF ThreadInv, Places, Ended, tokens
    <3>4. ThreadInv(i)'
      BY <1>2, <1>27, <2>1, <3>1, <3>2
         DEF ThreadInv, Signals, Places, Preambles, Serves, Opened, Asks,
             WillWrite, WillAnswer, Protocol, Ended, tokens, ReaderInv
    <3>5. QED BY <1>1, <2>4, <3>3, <3>4
  <2>5. QED BY <2>1, <2>2, <2>3, <2>4, ThreadKeeps
<1>28. QED
  BY <1>3, <1>4, <1>5, <1>6, <1>7, <1>8, <1>9, <1>10, <1>11, <1>12, <1>13,
     <1>14, <1>15, <1>16, <1>17, <1>18, <1>19, <1>20, <1>21, <1>22, <1>23,
     <1>24, <1>25, <1>26, <1>27
  DEF Thread, Loop, Received, Failed, CloseStream, Offer, ReceiveBody, Written

\* A connection the reader waits for in vain returns from its Body: the reader
\* goes on waiting.
LEMMA LostStep ==
  ASSUME ConnInv, NEW i \in Entries, Thread(i), Undisturbed, Lost(i)
  PROVE  ConnInv'
<1> DEFINE c == conn[i]
           q == [c EXCEPT !.thread = "done", !.available = TRUE]
<1>1. TypeOK /\ conn \in [Entries -> ConnType] /\ c \in ConnType
  BY DEF ConnInv, TypeOK
<1>2. /\ at = i /\ reader = "answer" /\ op = "more" /\ at # source
      /\ c.thread \in {"loop", "done"} /\ c.stream = NoHandle /\ ~c.running
      /\ c.id = pid /\ c.reply_made = 0
  BY DEF Lost, Astray, Leaving
<1>3. Loop(i)
  BY <1>2 DEF Thread, Begun, Started, CallReceive, Received, Failed,
              CloseStream, Offer, Woken, ReceiveBody, Written, Wished, Part,
              Ack, AckWoken, Private
<1>4. Becomes(i, q) /\ c.thread = "loop" /\ UNCHANGED tokens
  BY <1>2, <1>3 DEF Loop, Private, Becomes, Elsewhere
<1>5. q \in ConnType
  BY Zenon, <1>1, FieldTypes DEF ThreadPlaces
<1>6. /\ q.thread = "done" /\ q.available = TRUE /\ q.id = c.id
      /\ q.stream = c.stream /\ q.running = c.running
      /\ q.reply_made = c.reply_made
  BY <1>1 DEF ConnType
<1>7. new_data' \in Nat /\ new_data_written' = new_data_written
      /\ new_data_written \in Nat
  BY <1>1, <1>4 DEF TypeOK, tokens
<1> HIDE DEF q
<1>8. Lost(i)'
  <2>1. conn'[i] = q /\ UNCHANGED <<reader, op, at, source, pid>>
    BY <1>1, <1>4 DEF Becomes, Elsewhere, reading
  <2>2. QED BY <1>2, <1>6, <2>1 DEF Lost, Astray, Leaving
<1>9. QED BY <1>4, <1>5, <1>6, <1>7, <1>8, ThreadKeeps DEF Ended

\* Every step of a connection's thread keeps the invariant.
LEMMA ThreadStep ==
  ASSUME ConnInv, NEW i \in Entries, Thread(i)
  PROVE  ConnInv'
BY LiveThreadStep, LostStep

-----------------------------------------------------------------------------
(* The acceptor and the reader *)

\* Steps that change neither where the threads are nor what they are connected
\* to: what is left to show is about the reader's members and the wishes.
LEMMA PlacesKept ==
  ASSUME ConnInv, TypeOK', ListInv', CloseInv',
         UNCHANGED <<acceptor, pending>>,
         \A j \in Entries :
           /\ conn'[j].thread = conn[j].thread
           /\ conn'[j].available = conn[j].available
           /\ conn'[j].running = conn[j].running
           /\ conn'[j].stream = conn[j].stream
           /\ conn'[j].id = conn[j].id,
         Undisturbed' =>
           /\ Undisturbed /\ ReaderInv'
           /\ \A j \in Entries : Lost(j)' \/ ThreadInv(j)'
  PROVE  ConnInv'
<1>1. AvailableMeansEnded'
  BY DEF ConnInv, AvailableMeansEnded
<1>2. ASSUME Undisturbed' PROVE StreamInv'
  BY <1>2 DEF ConnInv, UndisturbedInv, StreamInv
<1>3. QED BY <1>1, <1>2 DEF ConnInv, UndisturbedInv

\* A reader that waits in vain takes no step.
LEMMA NotAstray ==
  ASSUME Reader, TypeOK
  PROVE  ~Astray
<1> SUFFICES ASSUME reader = "answer", conn[at].reply_made = 0 PROVE FALSE
  BY DEF Astray
<1> QED
  BY DEF Reader, Message, Closing, SetPool, StartRead, StartDetach,
         StartCloseAll, NewData, Lock, Pass, TakeOffer, NewDataWritten, AskMore,
         BeginReply, EndReply, Answered, NothingFound, PrefixRead, PieceRead,
         PeerGone, ReadFailed, ReplyBegun, Replied, EndConnection, Joined,
         Detached, AllEnded, StopAcceptor, Closed, Walking, Walked

\* Every step of the reader keeps the invariant.
LEMMA ReaderStep ==
  ASSUME ConnInv, Reader
  PROVE  ConnInv'
<1>1. /\ TypeOK /\ AvailableMeansEnded /\ ListInv /\ CloseInv /\ ~Astray
      /\ Undisturbed => ReaderInv /\ \A j \in Entries : ThreadInv(j)
      /\ PoolSize \in Nat \ {0} /\ MaxPieces \in Nat \ {0}
      /\ MaxDetaches \in Nat
  BY NotAstray, ConnectionsAssumption DEF ConnInv, UndisturbedInv, Lost
<1>2. conn \in [Entries -> ConnType] /\ NoHandle \in Streams
  BY <1>1 DEF TypeOK, Streams
<1> USE DEF list, tokens, accepting, reading
<1>3. CASE SetPool
  <2>1. UNCHANGED conn
    BY <1>3 DEF SetPool
  <2>2. TypeOK'
    BY <1>1, <1>3, <2>1 DEF SetPool, TypeOK
  <2>3. ListInv' /\ CloseInv'
    BY <1>1, <1>3, <2>1 DEF SetPool, ListInv, CloseInv, TypeOK, WithMutex,
           Entries, Ended
  <2>4. ASSUME Undisturbed'
        PROVE  Undisturbed /\ ReaderInv' /\ \A j \in Entries : ThreadInv(j)'
    <3>1. Undisturbed
      BY <1>1, <1>3, <2>4 DEF SetPool, Undisturbed, NothingEnded
    <3>2. ReaderInv /\ \A j \in Entries : ThreadInv(j)
      BY <1>1, <3>1
    <3>3. ReaderInv'
      BY <1>1, <1>3, <2>1, <3>1, <3>2 DEF SetPool, ReaderInv, Protocol,
             Undisturbed, NothingEnded
    <3>4. ASSUME NEW j \in Entries PROVE ThreadInv(j)'
      <4>1. ThreadInv(j)
        BY <3>2
      <4>2. QED
        BY <1>1, <1>3, <2>1, <3>2, <4>1 DEF SetPool, ThreadInv, Signals,
               Places, Preambles, Serves, Opened, Asks, WillWrite, WillAnswer,
               Ended, ReaderInv, Protocol, TypeOK, Entries
    <3>5. QED BY <3>1, <3>3, <3>4
  <2>5. UNCHANGED <<acceptor, pending>>
    BY <1>3 DEF SetPool
  <2>6. QED BY <2>1, <2>2, <2>3, <2>4, <2>5, PlacesKept
<1>4. CASE StartRead
  <2>1. UNCHANGED conn
    BY <1>4 DEF StartRead, AtRest
  <2>2. TypeOK'
    <3>1. again' \in BOOLEAN
      BY Zenon, <1>1, <1>4 DEF StartRead
    <3>2. QED BY <1>1, <1>4, <2>1, <3>1 DEF StartRead, AtRest, TypeOK
  <2>3. ListInv' /\ CloseInv'
    BY <1>1, <1>4, <2>1 DEF StartRead, AtRest, ListInv, CloseInv, TypeOK,
           WithMutex, Entries, Ended
  <2>4. ASSUME Undisturbed'
        PROVE  Undisturbed /\ ReaderInv' /\ \A j \in Entries : ThreadInv(j)'
    <3>1. Undisturbed
      BY <1>1, <1>4, <2>4 DEF StartRead, AtRest, Undisturbed, NothingEnded,
             ListInv
    <3>2. ReaderInv /\ \A j \in Entries : ThreadInv(j)
      BY <1>1, <3>1
    <3>3. ReaderInv'
      BY <1>1, <1>4, <2>1, <3>1, <3>2 DEF StartRead, AtRest, ReaderInv,
             Protocol, Undisturbed, NothingEnded
    <3>4. ASSUME NEW j \in Entries PROVE ThreadInv(j)'
      <4>1. ThreadInv(j)
        BY <3>2
      <4>2. QED
        BY <1>1, <1>4, <2>1, <3>2, <4>1 DEF StartRead, AtRest, ThreadInv,
               Signals, Places, Preambles, Serves, Opened, Asks, WillWrite,
               WillAnswer, Ended, ReaderInv, Protocol, TypeOK, Entries
    <3>5. QED BY <3>1, <3>3, <3>4
  <2>5. UNCHANGED <<acceptor, pending>>
    BY <1>4 DEF StartRead, AtRest
  <2>6. QED BY <2>1, <2>2, <2>3, <2>4, <2>5, PlacesKept
<1>5. CASE StartDetach
  <2>1. UNCHANGED conn
    BY <1>5 DEF StartDetach, AtRest
  <2>2. TypeOK'
    BY <1>1, <1>5, <2>1 DEF StartDetach, AtRest, TypeOK
  <2>3. ListInv' /\ CloseInv'
    BY <1>1, <1>5, <2>1 DEF StartDetach, AtRest, ListInv, CloseInv, TypeOK,
           WithMutex, Entries, Ended
  <2>4. ~Undisturbed'
    BY <1>1, <1>5 DEF StartDetach, AtRest, Undisturbed, NothingEnded, ListInv,
           TypeOK
  <2>5. UNCHANGED <<acceptor, pending>>
    BY <1>5 DEF StartDetach, AtRest
  <2>6. QED BY <2>1, <2>2, <2>3, <2>4, <2>5, PlacesKept
<1>6. CASE StartCloseAll
  <2>1. UNCHANGED conn
    BY <1>6 DEF StartCloseAll, AtRest
  <2>2. TypeOK'
    BY <1>1, <1>6, <2>1 DEF StartCloseAll, AtRest, TypeOK
  <2>3. ListInv' /\ CloseInv'
    BY <1>1, <1>6, <2>1 DEF StartCloseAll, AtRest, ListInv, CloseInv, TypeOK,
           WithMutex, Entries, Ended
  <2>4. ~Undisturbed'
    BY <1>1, <1>6 DEF StartCloseAll, AtRest, Undisturbed, NothingEnded,
           ListInv, TypeOK
  <2>5. UNCHANGED <<acceptor, pending>>
    BY <1>6 DEF StartCloseAll, AtRest
  <2>6. QED BY <2>1, <2>2, <2>3, <2>4, <2>5, PlacesKept
<1>7. CASE NewData
  <2>1. UNCHANGED conn
    BY <1>7 DEF NewData
  <2>2. TypeOK'
    BY <1>1, <1>7, <2>1 DEF NewData, TypeOK
  <2>3. ListInv' /\ CloseInv'
    BY <1>1, <1>7, <2>1 DEF NewData, ListInv, CloseInv, TypeOK, WithMutex,
           Entries, Ended
  <2>4. ASSUME Undisturbed'
        PROVE  Undisturbed /\ ReaderInv' /\ \A j \in Entries : ThreadInv(j)'
    <3>1. Undisturbed
      BY <1>1, <1>7, <2>4 DEF NewData, Undisturbed, NothingEnded
    <3>2. ReaderInv /\ \A j \in Entries : ThreadInv(j)
      BY <1>1, <3>1
    <3>3. ReaderInv'
      BY <1>1, <1>7, <2>1, <3>1, <3>2 DEF NewData, ReaderInv, Protocol,
             Undisturbed, NothingEnded, ListInv
    <3>4. ASSUME NEW j \in Entries PROVE ThreadInv(j)'
      <4>1. ThreadInv(j)
        BY <3>2
      <4>2. QED
        BY <1>1, <1>7, <2>1, <3>2, <4>1 DEF NewData, ThreadInv, Signals,
               Places, Preambles, Serves, Opened, Asks, WillWrite, WillAnswer,
               Ended, ReaderInv, Protocol, TypeOK, Entries
    <3>5. QED BY <3>1, <3>3, <3>4
  <2>5. UNCHANGED <<acceptor, pending>>
    BY <1>7 DEF NewData
  <2>6. QED BY <2>1, <2>2, <2>3, <2>4, <2>5, PlacesKept
<1>8. CASE Lock
  <2>1. UNCHANGED conn
    BY <1>8 DEF Lock, AtRest
  <2>2. TypeOK'
    BY <1>1, <1>8, <2>1 DEF Lock, AtRest, TypeOK
  <2>3. ListInv' /\ CloseInv'
    BY <1>1, <1>8, <2>1 DEF Lock, AtRest, ListInv, CloseInv, TypeOK, WithMutex,
           Entries, Ended
  <2>4. ASSUME Undisturbed'
        PROVE  Undisturbed /\ ReaderInv' /\ \A j \in Entries : ThreadInv(j)'
    <3>1. Undisturbed
      BY <1>1, <1>8, <2>4 DEF Lock, AtRest, Undisturbed, NothingEnded
    <3>2. ReaderInv /\ \A j \in Entries : ThreadInv(j)
      BY <1>1, <3>1
    <3>3. ReaderInv'
      BY <1>1, <1>8, <2>1, <3>1, <3>2 DEF Lock, AtRest, ReaderInv, Protocol,
             Undisturbed, NothingEnded, TypeOK
    <3>4. ASSUME NEW j \in Entries PROVE ThreadInv(j)'
      <4>1. ThreadInv(j)
        BY <3>2
      <4>2. QED
        BY <1>1, <1>8, <2>1, <3>2, <4>1 DEF Lock, AtRest, ThreadInv, Signals,
               Places, Preambles, Serves, Opened, Asks, WillWrite, WillAnswer,
               Ended, ReaderInv, Protocol, TypeOK, Entries
    <3>5. QED BY <3>1, <3>3, <3>4
  <2>5. UNCHANGED <<acceptor, pending>>
    BY <1>8 DEF Lock, AtRest
  <2>6. QED BY <2>1, <2>2, <2>3, <2>4, <2>5, PlacesKept
<1>9. CASE Pass
  <2>1. UNCHANGED conn
    BY <1>9 DEF Pass, Matches, AtRest
  <2>2. TypeOK'
    BY <1>1, <1>9, <2>1 DEF Pass, Matches, AtRest, TypeOK
  <2>3. ListInv' /\ CloseInv'
    BY <1>1, <1>9, <2>1 DEF Pass, Matches, AtRest, ListInv, CloseInv, TypeOK,
           WithMutex, Entries, Ended
  <2>4. ASSUME Undisturbed'
        PROVE  Undisturbed /\ ReaderInv' /\ \A j \in Entries : ThreadInv(j)'
    <3>1. Undisturbed
      BY <1>1, <1>9, <2>4 DEF Pass, Matches, AtRest, Undisturbed, NothingEnded
    <3>2. ReaderInv /\ \A j \in Entries : ThreadInv(j)
      BY <1>1, <3>1
    <3>3. op = "end" /\ source # 0 => at # source
      <4>1. source # 0 => source \in Entries /\ ThreadInv(source)
        BY <1>1, <3>2 DEF TypeOK, Entries
      <4>2. QED BY <1>1, <1>9, <4>1
              DEF Pass, Matches, ThreadInv, Opened, AvailableMeansEnded, Ended
    <3>4. ReaderInv'
      BY <1>1, <1>9, <2>1, <3>3, <3>1, <3>2 DEF Pass, Matches, AtRest,
             ReaderInv, Protocol, Undisturbed, NothingEnded, TypeOK
    <3>5. ASSUME NEW j \in Entries PROVE ThreadInv(j)'
      <4>1. ThreadInv(j)
        BY <3>2
      <4>2. QED
        <5>1. Signals(j)' /\ Places(j)' /\ Preambles(j)' /\ Serves(j)'
          BY <1>1, <1>9, <2>1, <3>3, <3>2, <4>1 DEF Pass, Matches, AtRest,
                 ThreadInv, Signals, Places, Preambles, Serves, Opened, Asks,
                 WillWrite, WillAnswer, Ended, ReaderInv, Protocol, TypeOK,
                 Entries
        <5>2. /\ op \in Protocol => conn[at].available \/ conn[at].id # pid
              /\ at' = at + 1 /\ at \in Nat /\ j \in Nat /\ reader = "scan"
              /\ UNCHANGED <<reader, op, pid, source>>
          <6>1. op \in Protocol => ~Matches(at)
            BY <1>9 DEF Pass, Protocol
          <6>2. op \in Protocol => conn[at].available \/ conn[at].id # pid
            <7>1. CASE op \in {"more", "begin", "end"}
              BY <6>1, <7>1 DEF Matches, Protocol
            <7>2. QED BY <7>1 DEF Protocol
          <6>3. /\ at' = at + 1 /\ reader = "scan"
                /\ UNCHANGED <<reader, op, pid, source>>
            BY <1>9 DEF Pass
          <6>4. at \in Nat /\ j \in Nat
            BY <1>1 DEF TypeOK, Entries
          <6>5. QED BY <6>2, <6>3, <6>4
        <5>3. Opened(j)'
          BY <2>1, <4>1, <5>2 DEF ThreadInv, Opened, Asks, Protocol
        <5>4. QED BY <5>1, <5>3 DEF ThreadInv
    <3>6. QED BY <3>1, <3>4, <3>5
  <2>5. UNCHANGED <<acceptor, pending>>
    BY <1>9 DEF Pass, Matches, AtRest
  <2>6. QED BY <2>1, <2>2, <2>3, <2>4, <2>5, PlacesKept
<1>10. CASE TakeOffer
  <2> DEFINE q == [conn[at] EXCEPT !.waiting = FALSE, !.buffer = TRUE,
                                !.wakeup = conn[at].wakeup + 1]
  <2>1. /\ at \in Entries /\ conn' = [conn EXCEPT ![at] = q]
        /\ conn[at] \in ConnType
    BY <1>1, <1>2, <1>10 DEF TakeOffer, Walking, Matches, Reading, TypeOK,
           Entries, ListInv
  <2>2. q \in ConnType
    <3> DEFINE m == conn[at].wakeup + 1
    <3>1. m \in Nat
      BY <1>10, <2>1, FieldsTyped DEF TakeOffer
    <3> HIDE DEF m
    <3>2. [conn[at] EXCEPT !.waiting = FALSE, !.buffer = TRUE,
                          !.wakeup = m] \in ConnType
      BY Zenon, <1>2, <2>1, <3>1, FieldTypes
    <3>3. QED BY <3>2 DEF m
  <2>3. /\ conn' \in [Entries -> ConnType] /\ conn'[at] = q
        /\ \A j \in Entries : j # at => conn'[j] = conn[j]
    BY <1>2, <2>1, <2>2
  <2>4. TypeOK'
    BY <1>1, <1>10, <2>1, <2>3 DEF TakeOffer, Walking, Matches, Reading, TypeOK
  <2>5. ListInv'
    BY <1>1, <1>10, <2>1, <2>3 DEF TakeOffer, Walking, Matches, Reading,
           ListInv, TypeOK, WithMutex, Entries
  <2>6. CloseInv'
    BY <1>1, <1>10, <2>1, <2>3 DEF TakeOffer, Walking, Matches, Reading,
           CloseInv, ListInv, TypeOK, Entries, Ended
  <2>7. ASSUME Undisturbed'
        PROVE  Undisturbed /\ ReaderInv' /\ \A j \in Entries : ThreadInv(j)'
    <3>1. Undisturbed
      BY <1>1, <1>10, <2>7 DEF TakeOffer, Walking, Matches, Reading,
             Undisturbed, NothingEnded
    <3>2. ReaderInv /\ \A j \in Entries : ThreadInv(j)
      BY <1>1, <3>1
    <3>3. ReaderInv'
      BY <1>1, <1>10, <2>1, <2>3, <3>1, <3>2 DEF TakeOffer, Walking, Matches,
             Reading, ReaderInv, Protocol, Undisturbed, NothingEnded
    <3>4. ASSUME NEW j \in Entries PROVE ThreadInv(j)'
      <4>1. ThreadInv(j)
        BY <3>2
      <4>2. QED
        BY <1>1, <1>10, <2>1, <2>3, <3>2, <4>1 DEF TakeOffer, Walking, Matches,
               Reading, ThreadInv, Signals, Places, Preambles, Serves, Opened,
               Asks, WillWrite, WillAnswer, Ended, ReaderInv, Protocol, TypeOK,
               Entries
    <3>5. QED BY <3>1, <3>3, <3>4
  <2>8. UNCHANGED <<acceptor, pending>>
    BY <1>10 DEF TakeOffer, Walking, Matches, Reading
  <2>9. QED BY <2>1, <2>3, <2>4, <2>5, <2>6, <2>7, <2>8, PlacesKept
<1>11. CASE NewDataWritten
  <2>1. UNCHANGED conn
    BY <1>11 DEF NewDataWritten
  <2>2. TypeOK'
    <3>1. pid' \in Streams /\ new_data_written' \in Nat
      BY <1>1, <1>2, <1>11, FieldsTyped DEF NewDataWritten, TypeOK, ListInv,
           Entries
    <3>2. QED BY <1>1, <1>11, <2>1, <3>1 DEF NewDataWritten, TypeOK
  <2>3. ListInv' /\ CloseInv'
    BY <1>1, <1>11, <2>1 DEF NewDataWritten, ListInv, CloseInv, TypeOK,
           WithMutex, Entries, Ended
  <2>4. ASSUME Undisturbed'
        PROVE  Undisturbed /\ ReaderInv' /\ \A j \in Entries : ThreadInv(j)'
    <3>1. Undisturbed
      BY <1>1, <1>11, <2>4 DEF NewDataWritten, Undisturbed, NothingEnded,
             ListInv
    <3>2. ReaderInv /\ \A j \in Entries : ThreadInv(j)
      BY <1>1, <3>1
    <3>3. ReaderInv'
      BY <1>1, <1>11, <2>1, <3>1, <3>2 DEF NewDataWritten, ReaderInv, Protocol,
             Undisturbed, NothingEnded, TypeOK, Entries, ListInv
    <3>4. ASSUME NEW j \in Entries PROVE ThreadInv(j)'
      <4>1. ThreadInv(j)
        BY <3>2
      <4>2. QED
        BY <1>1, <1>11, <2>1, <3>2, <4>1 DEF NewDataWritten, ThreadInv,
               Signals, Places, Preambles, Serves, Opened, Asks, WillWrite,
               WillAnswer, Ended, ReaderInv, Protocol, TypeOK, Entries
    <3>5. QED BY <3>1, <3>3, <3>4
  <2>5. UNCHANGED <<acceptor, pending>>
    BY <1>11 DEF NewDataWritten
  <2>6. QED BY <2>1, <2>2, <2>3, <2>4, <2>5, PlacesKept
<1>12. CASE AskMore
  <2> DEFINE q == [conn[at] EXCEPT !.read_more = TRUE, !.got = "data",
                                !.wakeup = conn[at].wakeup + 1]
  <2>1. /\ at \in Entries /\ conn' = [conn EXCEPT ![at] = q]
        /\ conn[at] \in ConnType
    BY <1>1, <1>2, <1>12 DEF AskMore, Walking, Matches, Reading, TypeOK,
           Entries, ListInv
  <2>2. q \in ConnType
    <3> DEFINE m == conn[at].wakeup + 1
    <3>1. m \in Nat
      BY <1>12, <2>1, FieldsTyped DEF AskMore
    <3> HIDE DEF m
    <3>2. [conn[at] EXCEPT !.read_more = TRUE, !.got = "data",
                          !.wakeup = m] \in ConnType
      BY Zenon, <1>2, <2>1, <3>1, FieldTypes
    <3>3. QED BY <3>2 DEF m
  <2>3. /\ conn' \in [Entries -> ConnType] /\ conn'[at] = q
        /\ \A j \in Entries : j # at => conn'[j] = conn[j]
    BY <1>2, <2>1, <2>2
  <2>4. TypeOK'
    BY <1>1, <1>12, <2>1, <2>3 DEF AskMore, Walking, Matches, Reading, TypeOK
  <2>5. ListInv'
    BY <1>1, <1>12, <2>1, <2>3 DEF AskMore, Walking, Matches, Reading, ListInv,
           TypeOK, WithMutex, Entries
  <2>6. CloseInv'
    BY <1>1, <1>12, <2>1, <2>3 DEF AskMore, Walking, Matches, Reading,
           CloseInv, ListInv, TypeOK, Entries, Ended
  <2>7. ASSUME Undisturbed'
        PROVE  /\ Undisturbed /\ ReaderInv'
               /\ \A j \in Entries : Lost(j)' \/ ThreadInv(j)'
    <3>1. Undisturbed
      BY <1>1, <1>12, <2>7 DEF AskMore, Walking, Matches, Reading, Undisturbed,
             NothingEnded
    <3>2. ReaderInv /\ StreamInv /\ \A j \in Entries : ThreadInv(j)
      BY <1>1, <3>1 DEF ConnInv, UndisturbedInv
    <3>3. /\ reader = "scan" /\ op = "more" /\ reader' = "answer"
          /\ UNCHANGED <<op, at, pid, source, new_data_written, length>>
          /\ ~conn[at].available /\ conn[at].id = pid
      BY <1>12 DEF AskMore, Walking, Matches, Reading
    <3>4. source # 0 /\ source \in Entries /\ at \in Nat
      BY <1>1, <2>1, <3>2, <3>3 DEF ReaderInv, TypeOK, Entries
    <3>5. CASE at = source
      <4>1. ReaderInv'
        BY <1>1, <3>2, <3>3, <3>4, <3>5
           DEF ReaderInv, Protocol, TypeOK, ListInv, Entries
      <4>2. ASSUME NEW j \in Entries PROVE ThreadInv(j)'
        <5>1. ThreadInv(j)
          BY <3>2
        <5>2. QED
          BY <1>1, <2>1, <2>3, <3>2, <3>3, <3>4, <3>5, <5>1
             DEF ThreadInv, Signals, Places, Preambles, Serves, Opened, Asks,
                 WillWrite, WillAnswer, Ended, ReaderInv, Protocol
      <4>3. QED BY <3>1, <4>1, <4>2
    <3>6. CASE at # source
      <4>1. conn[source].thread = "held" /\ conn[source].id = pid
        BY <3>2, <3>3, <3>4 DEF ThreadInv, Opened, Asks
      <4>2. ~conn[source].available /\ conn[source].stream # NoHandle
        BY <1>1, <3>2, <3>4, <4>1 DEF AvailableMeansEnded, StreamInv, Ended
      <4>3. /\ conn[at].thread \notin Ended /\ conn[at].stream = NoHandle
            /\ conn[at].thread = "loop" /\ ~conn[at].running
        BY <1>1, <2>1, <3>2, <3>3, <3>4, <3>6, <4>1, <4>2
           DEF AvailableMeansEnded, StreamInv, Ended
      <4>4. conn[at].reply_made = 0
        BY <2>1, <3>2, <3>3 DEF ThreadInv, Signals, Asks
      <4>5. Lost(at)'
        <5>1. /\ q.thread = "loop" /\ q.stream = NoHandle /\ ~q.running
              /\ q.id = pid /\ q.reply_made = 0
          BY <2>1, <3>3, <4>3, <4>4 DEF ConnType
        <5> HIDE DEF q
        <5>2. QED BY <2>3, <3>3, <3>6, <5>1 DEF Lost, Astray, Leaving
      <4>6. ReaderInv'
        BY <1>1, <3>2, <3>3, <3>4, <4>5 DEF ReaderInv, Protocol, Lost
      <4>7. ASSUME NEW j \in Entries, j # at PROVE ThreadInv(j)'
        <5>1. ThreadInv(j) /\ conn'[j] = conn[j]
          BY <2>3, <3>2, <4>7
        <5>2. QED
          BY <3>2, <3>3, <3>4, <4>7, <5>1
             DEF ThreadInv, Signals, Places, Preambles, Serves, Opened, Asks,
                 WillWrite, WillAnswer, Ended, ReaderInv, Protocol
      <4>8. QED BY <3>1, <3>3, <4>5, <4>6, <4>7
    <3>7. QED BY <3>5, <3>6
  <2>8. UNCHANGED <<acceptor, pending>>
    BY <1>12 DEF AskMore, Walking, Matches, Reading
  <2>9. QED BY <2>1, <2>3, <2>4, <2>5, <2>6, <2>7, <2>8, PlacesKept
<1>13. CASE BeginReply /\ conn[at].ack
  <2> DEFINE q == [conn[at] EXCEPT !.got = "data", !.read_more = FALSE,
                                !.reply_preamble = TRUE,
                                !.wakeup = conn[at].wakeup + 1]
  <2>1. /\ at \in Entries /\ conn' = [conn EXCEPT ![at] = q]
        /\ conn[at] \in ConnType
    BY <1>1, <1>2, <1>13 DEF BeginReply, Walking, Matches, Reading, TypeOK,
           Entries, ListInv
  <2>2. q \in ConnType
    <3> DEFINE m == conn[at].wakeup + 1
    <3>1. m \in Nat
      BY <1>13, <2>1, FieldsTyped DEF BeginReply
    <3> HIDE DEF m
    <3>2. [conn[at] EXCEPT !.got = "data", !.read_more = FALSE,
                          !.reply_preamble = TRUE,
                          !.wakeup = m] \in ConnType
      BY Zenon, <1>2, <2>1, <3>1, FieldTypes
    <3>3. QED BY <3>2 DEF m
  <2>3. /\ conn' \in [Entries -> ConnType] /\ conn'[at] = q
        /\ \A j \in Entries : j # at => conn'[j] = conn[j]
    BY <1>2, <2>1, <2>2
  <2>4. TypeOK'
    BY <1>1, <1>13, <2>1, <2>3 DEF BeginReply, Walking, Matches, Reading,
           TypeOK
  <2>5. ListInv'
    BY <1>1, <1>13, <2>1, <2>3 DEF BeginReply, Walking, Matches, Reading,
           ListInv, TypeOK, WithMutex, Entries
  <2>6. CloseInv'
    BY <1>1, <1>13, <2>1, <2>3 DEF BeginReply, Walking, Matches, Reading,
           CloseInv, ListInv, TypeOK, Entries, Ended
  <2>7. ASSUME Undisturbed'
        PROVE  Undisturbed /\ ReaderInv' /\ \A j \in Entries : ThreadInv(j)'
    <3>1. Undisturbed
      BY <1>1, <1>13, <2>7 DEF BeginReply, Walking, Matches, Reading,
             Undisturbed, NothingEnded
    <3>2. ReaderInv /\ \A j \in Entries : ThreadInv(j)
      BY <1>1, <3>1
    <3>3. /\ source # 0 /\ at = source /\ at \in Nat
          /\ \A k \in Entries :
               ~conn[k].available /\ conn[k].id = pid => k = at
      <4>1. source # 0 => source \in Entries /\ ThreadInv(source)
        BY <1>1, <3>2 DEF TypeOK, Entries
      <4>2. source # 0
        BY <1>13, <3>2, <2>1 DEF BeginReply, Walking, Matches, ReaderInv
      <4>3. \A k \in Entries :
              ~conn[k].available /\ conn[k].id = pid => k = source
        BY <1>13, <3>2, <4>2
           DEF BeginReply, Walking, ThreadInv, Opened
      <4>4. QED BY <1>1, <1>13, <2>1, <4>1, <4>2, <4>3
              DEF BeginReply, Walking, Matches, Entries
    <3>4. ReaderInv'
      BY <1>1, <1>13, <2>1, <2>3, <3>3, <3>1, <3>2 DEF BeginReply, Walking,
             Matches, Reading, ReaderInv, Protocol, Undisturbed, NothingEnded, TypeOK,
             ListInv, Entries
    <3>5. ASSUME NEW j \in Entries PROVE ThreadInv(j)'
      <4>1. ThreadInv(j)
        BY <3>2
      <4>2. QED
        BY <1>1, <1>13, <2>1, <2>3, <3>3, <3>2, <4>1 DEF BeginReply, Walking,
               Matches, Reading, ThreadInv, Signals, Places, Preambles, Serves,
               Opened, Asks, WillWrite, WillAnswer, Ended, ReaderInv, Protocol,
               TypeOK, Entries
    <3>6. QED BY <3>1, <3>4, <3>5
  <2>8. UNCHANGED <<acceptor, pending>>
    BY <1>13 DEF BeginReply, Walking, Matches, Reading
  <2>9. QED BY <2>1, <2>3, <2>4, <2>5, <2>6, <2>7, <2>8, PlacesKept
<1>14. CASE BeginReply /\ ~conn[at].ack
  <2>1. UNCHANGED conn
    BY <1>14 DEF BeginReply, Walking, Matches, Reading
  <2>2. TypeOK'
    BY <1>1, <1>14, <2>1 DEF BeginReply, Walking, Matches, Reading, TypeOK
  <2>3. ListInv' /\ CloseInv'
    BY <1>1, <1>14, <2>1 DEF BeginReply, Walking, Matches, Reading, ListInv,
           CloseInv, TypeOK, WithMutex, Entries, Ended
  <2>4. ASSUME Undisturbed'
        PROVE  Undisturbed /\ ReaderInv' /\ \A j \in Entries : ThreadInv(j)'
    <3>1. Undisturbed
      BY <1>1, <1>14, <2>4 DEF BeginReply, Walking, Matches, Reading,
             Undisturbed, NothingEnded
    <3>2. ReaderInv /\ \A j \in Entries : ThreadInv(j)
      BY <1>1, <3>1
    <3>3. ReaderInv'
      BY <1>1, <1>14, <2>1, <3>1, <3>2 DEF BeginReply, Walking, Matches,
             Reading, ReaderInv, Protocol, Undisturbed, NothingEnded, TypeOK, ListInv,
             Entries
    <3>4. ASSUME NEW j \in Entries PROVE ThreadInv(j)'
      <4>1. ThreadInv(j)
        BY <3>2
      <4>2. QED
        BY <1>1, <1>14, <2>1, <3>2, <4>1 DEF BeginReply, Walking, Matches,
               Reading, ThreadInv, Signals, Places, Preambles, Serves, Opened,
               Asks, WillWrite, WillAnswer, Ended, ReaderInv, Protocol, TypeOK,
               Entries
    <3>5. QED BY <3>1, <3>3, <3>4
  <2>5. UNCHANGED <<acceptor, pending>>
    BY <1>14 DEF BeginReply, Walking, Matches, Reading
  <2>6. QED BY <2>1, <2>2, <2>3, <2>4, <2>5, PlacesKept
<1>15. CASE EndReply /\ conn[at].ack
  <2> DEFINE q == [conn[at] EXCEPT !.got = "data", !.read_more = FALSE,
                                !.reply_preamble = FALSE,
                                !.wakeup = conn[at].wakeup + 1]
  <2>1. /\ at \in Entries /\ conn' = [conn EXCEPT ![at] = q]
        /\ conn[at] \in ConnType
    BY <1>1, <1>2, <1>15 DEF EndReply, Walking, Matches, Reading, TypeOK,
           Entries, ListInv
  <2>2. q \in ConnType
    <3> DEFINE m == conn[at].wakeup + 1
    <3>1. m \in Nat
      BY <1>15, <2>1, FieldsTyped DEF EndReply
    <3> HIDE DEF m
    <3>2. [conn[at] EXCEPT !.got = "data", !.read_more = FALSE,
                          !.reply_preamble = FALSE,
                          !.wakeup = m] \in ConnType
      BY Zenon, <1>2, <2>1, <3>1, FieldTypes
    <3>3. QED BY <3>2 DEF m
  <2>3. /\ conn' \in [Entries -> ConnType] /\ conn'[at] = q
        /\ \A j \in Entries : j # at => conn'[j] = conn[j]
    BY <1>2, <2>1, <2>2
  <2>4. TypeOK'
    BY <1>1, <1>15, <2>1, <2>3 DEF EndReply, Walking, Matches, Reading, TypeOK
  <2>5. ListInv'
    BY <1>1, <1>15, <2>1, <2>3 DEF EndReply, Walking, Matches, Reading,
           ListInv, TypeOK, WithMutex, Entries
  <2>6. CloseInv'
    BY <1>1, <1>15, <2>1, <2>3 DEF EndReply, Walking, Matches, Reading,
           CloseInv, ListInv, TypeOK, Entries, Ended
  <2>7. ASSUME Undisturbed'
        PROVE  Undisturbed /\ ReaderInv' /\ \A j \in Entries : ThreadInv(j)'
    <3>1. Undisturbed
      BY <1>1, <1>15, <2>7 DEF EndReply, Walking, Matches, Reading,
             Undisturbed, NothingEnded
    <3>2. ReaderInv /\ \A j \in Entries : ThreadInv(j)
      BY <1>1, <3>1
    <3>3. /\ source # 0 /\ at = source /\ at \in Nat
          /\ \A k \in Entries :
               ~conn[k].available /\ conn[k].id = pid => k = at
      <4>1. source # 0 => source \in Entries /\ ThreadInv(source)
        BY <1>1, <3>2 DEF TypeOK, Entries
      <4>2. source # 0
        <5>1. ThreadInv(at) /\ at \in Nat
          BY <2>1, <3>2 DEF Entries
        <5>2. QED BY <1>15, <3>2, <5>1
                DEF EndReply, Walking, Matches, ThreadInv, Opened
      <4>3. \A k \in Entries :
              ~conn[k].available /\ conn[k].id = pid => k = source
        BY <1>15, <3>2, <4>2
           DEF EndReply, Walking, ThreadInv, Opened
      <4>4. QED BY <1>1, <1>15, <2>1, <4>1, <4>2, <4>3
              DEF EndReply, Walking, Matches, Entries
    <3>4. ReaderInv'
      BY <1>1, <1>15, <2>1, <2>3, <3>3, <3>1, <3>2 DEF EndReply, Walking,
             Matches, Reading, ReaderInv, Protocol, Undisturbed, NothingEnded, TypeOK,
             ListInv, Entries
    <3>5. ASSUME NEW j \in Entries PROVE ThreadInv(j)'
      <4>1. ThreadInv(j)
        BY <3>2
      <4>2. QED
        BY <1>1, <1>15, <2>1, <2>3, <3>3, <3>2, <4>1 DEF EndReply, Walking,
               Matches, Reading, ThreadInv, Signals, Places, Preambles, Serves,
               Opened, Asks, WillWrite, WillAnswer, Ended, ReaderInv, Protocol,
               TypeOK, Entries
    <3>6. QED BY <3>1, <3>4, <3>5
  <2>8. UNCHANGED <<acceptor, pending>>
    BY <1>15 DEF EndReply, Walking, Matches, Reading
  <2>9. QED BY <2>1, <2>3, <2>4, <2>5, <2>6, <2>7, <2>8, PlacesKept
<1>16. CASE EndReply /\ ~conn[at].ack
  <2> DEFINE q == [conn[at] EXCEPT !.wakeup = conn[at].wakeup + 1]
  <2>1. /\ at \in Entries /\ conn' = [conn EXCEPT ![at] = q]
        /\ conn[at] \in ConnType
    BY <1>1, <1>2, <1>16 DEF EndReply, Walking, Matches, Reading, TypeOK,
           Entries, ListInv
  <2>2. q \in ConnType
    <3> DEFINE m == conn[at].wakeup + 1
    <3>1. m \in Nat
      BY <1>16, <2>1, FieldsTyped DEF EndReply
    <3> HIDE DEF m
    <3>2. [conn[at] EXCEPT !.wakeup = m] \in ConnType
      BY Zenon, <1>2, <2>1, <3>1, FieldTypes
    <3>3. QED BY <3>2 DEF m
  <2>3. /\ conn' \in [Entries -> ConnType] /\ conn'[at] = q
        /\ \A j \in Entries : j # at => conn'[j] = conn[j]
    BY <1>2, <2>1, <2>2
  <2>4. TypeOK'
    BY <1>1, <1>16, <2>1, <2>3 DEF EndReply, Walking, Matches, Reading, TypeOK
  <2>5. ListInv'
    BY <1>1, <1>16, <2>1, <2>3 DEF EndReply, Walking, Matches, Reading,
           ListInv, TypeOK, WithMutex, Entries
  <2>6. CloseInv'
    BY <1>1, <1>16, <2>1, <2>3 DEF EndReply, Walking, Matches, Reading,
           CloseInv, ListInv, TypeOK, Entries, Ended
  <2>7. ASSUME Undisturbed'
        PROVE  Undisturbed /\ ReaderInv' /\ \A j \in Entries : ThreadInv(j)'
    <3>1. Undisturbed
      BY <1>1, <1>16, <2>7 DEF EndReply, Walking, Matches, Reading,
             Undisturbed, NothingEnded
    <3>2. ReaderInv /\ \A j \in Entries : ThreadInv(j)
      BY <1>1, <3>1
    <3>3. /\ source # 0 /\ at = source /\ at \in Nat
          /\ \A k \in Entries :
               ~conn[k].available /\ conn[k].id = pid => k = at
      <4>1. source # 0 => source \in Entries /\ ThreadInv(source)
        BY <1>1, <3>2 DEF TypeOK, Entries
      <4>2. source # 0
        <5>1. ThreadInv(at) /\ at \in Nat
          BY <2>1, <3>2 DEF Entries
        <5>2. QED BY <1>16, <3>2, <5>1
                DEF EndReply, Walking, Matches, ThreadInv, Opened
      <4>3. \A k \in Entries :
              ~conn[k].available /\ conn[k].id = pid => k = source
        BY <1>16, <3>2, <4>2
           DEF EndReply, Walking, ThreadInv, Opened
      <4>4. QED BY <1>1, <1>16, <2>1, <4>1, <4>2, <4>3
              DEF EndReply, Walking, Matches, Entries
    <3>4. ReaderInv'
      BY <1>1, <1>16, <2>1, <2>3, <3>3, <3>1, <3>2 DEF EndReply, Walking,
             Matches, Reading, ReaderInv, Protocol, Undisturbed, NothingEnded, TypeOK,
             ListInv, Entries
    <3>5. ASSUME NEW j \in Entries PROVE ThreadInv(j)'
      <4>1. ThreadInv(j)
        BY <3>2
      <4>2. QED
        BY <1>1, <1>16, <2>1, <2>3, <3>3, <3>2, <4>1 DEF EndReply, Walking,
               Matches, Reading, ThreadInv, Signals, Places, Preambles, Serves,
               Opened, Asks, WillWrite, WillAnswer, Ended, ReaderInv, Protocol,
               TypeOK, Entries
    <3>6. QED BY <3>1, <3>4, <3>5
  <2>8. UNCHANGED <<acceptor, pending>>
    BY <1>16 DEF EndReply, Walking, Matches, Reading
  <2>9. QED BY <2>1, <2>3, <2>4, <2>5, <2>6, <2>7, <2>8, PlacesKept
<1>17. CASE Answered
  <2> DEFINE q == [conn[at] EXCEPT !.reply_made = conn[at].reply_made - 1]
  <2>1. /\ at \in Entries /\ conn' = [conn EXCEPT ![at] = q]
        /\ conn[at] \in ConnType
    BY <1>1, <1>2, <1>17 DEF Answered, Reading, TypeOK, Entries, ListInv
  <2>2. q \in ConnType
    <3> DEFINE m == conn[at].reply_made - 1
    <3>1. m \in Nat
      BY <1>17, <2>1, FieldsTyped DEF Answered
    <3> HIDE DEF m
    <3>2. [conn[at] EXCEPT !.reply_made = m] \in ConnType
      BY Zenon, <1>2, <2>1, <3>1, FieldTypes
    <3>3. QED BY <3>2 DEF m
  <2>3. /\ conn' \in [Entries -> ConnType] /\ conn'[at] = q
        /\ \A j \in Entries : j # at => conn'[j] = conn[j]
    BY <1>2, <2>1, <2>2
  <2>4. TypeOK'
    <3>1. /\ result' \in {"data", "none", "error", "fail"}
          /\ at' \in 1..(PoolSize + 1)
      BY <1>1, <1>17, <2>1, FieldsTyped DEF Answered, TypeOK, Entries
    <3>2. QED BY <1>1, <1>17, <2>1, <2>3, <3>1 DEF Answered, Reading, TypeOK
  <2>5. ListInv'
    BY <1>1, <1>17, <2>1, <2>3 DEF Answered, Reading, ListInv, TypeOK,
           WithMutex, Entries
  <2>6. CloseInv'
    BY <1>1, <1>17, <2>1, <2>3 DEF Answered, Reading, CloseInv, ListInv,
           TypeOK, Entries, Ended
  <2>7. ASSUME Undisturbed'
        PROVE  Undisturbed /\ ReaderInv' /\ \A j \in Entries : ThreadInv(j)'
    <3>1. Undisturbed
      BY <1>1, <1>17, <2>7 DEF Answered, Reading, Undisturbed, NothingEnded
    <3>2. ReaderInv /\ \A j \in Entries : ThreadInv(j)
      BY <1>1, <3>1
    <3>3. ReaderInv'
      BY <1>1, <1>17, <2>1, <2>3, <3>1, <3>2 DEF Answered, Reading, ReaderInv,
             Protocol, Undisturbed, NothingEnded, TypeOK, Entries, Signals, ThreadInv
    <3>4. ASSUME NEW j \in Entries PROVE ThreadInv(j)'
      <4>1. ThreadInv(j)
        BY <3>2
      <4>2. QED
        BY <1>1, <1>17, <2>1, <2>3, <3>2, <4>1 DEF Answered, Reading,
               ThreadInv, Signals, Places, Preambles, Serves, Opened, Asks,
               WillWrite, WillAnswer, Ended, ReaderInv, Protocol, TypeOK,
               Entries
    <3>5. QED BY <3>1, <3>3, <3>4
  <2>8. UNCHANGED <<acceptor, pending>>
    BY <1>17 DEF Answered, Reading
  <2>9. QED BY <2>1, <2>3, <2>4, <2>5, <2>6, <2>7, <2>8, PlacesKept
<1>18. CASE NothingFound
  <2>1. UNCHANGED conn
    BY <1>18 DEF NothingFound, Walked, AtRest
  <2>2. TypeOK'
    BY <1>1, <1>18, <2>1 DEF NothingFound, Walked, AtRest, TypeOK
  <2>3. ListInv' /\ CloseInv'
    BY <1>1, <1>18, <2>1 DEF NothingFound, Walked, AtRest, ListInv, CloseInv,
           TypeOK, WithMutex, Entries, Ended
  <2>4. ASSUME Undisturbed'
        PROVE  Undisturbed /\ ReaderInv' /\ \A j \in Entries : ThreadInv(j)'
    <3>1. Undisturbed
      BY <1>1, <1>18, <2>4 DEF NothingFound, Walked, AtRest, Undisturbed,
             NothingEnded
    <3>2. ReaderInv /\ \A j \in Entries : ThreadInv(j)
      BY <1>1, <3>1
    <3>3. ReaderInv'
      BY <1>1, <1>18, <2>1, <3>1, <3>2 DEF NothingFound, Walked, AtRest,
             ReaderInv, Protocol, Undisturbed, NothingEnded
    <3>4. ASSUME NEW j \in Entries PROVE ThreadInv(j)'
      <4>1. ThreadInv(j)
        BY <3>2
      <4>2. QED
        BY <1>1, <1>18, <2>1, <3>2, <4>1 DEF NothingFound, Walked, AtRest,
               ThreadInv, Signals, Places, Preambles, Serves, Opened, Asks,
               WillWrite, WillAnswer, Ended, ReaderInv, Protocol, TypeOK,
               Entries
    <3>5. QED BY <3>1, <3>3, <3>4
  <2>5. UNCHANGED <<acceptor, pending>>
    BY <1>18 DEF NothingFound, Walked, AtRest
  <2>6. QED BY <2>1, <2>2, <2>3, <2>4, <2>5, PlacesKept
<1>19. CASE PrefixRead
  <2>1. UNCHANGED conn
    BY <1>19 DEF PrefixRead, Walked, AtRest
  <2>2. TypeOK'
    <3>1. /\ pid' \in Streams /\ source' \in 0..PoolSize
          /\ phase' \in {"prefix", "select", "content"}
          /\ reader' \in {"idle", "lock"}
      BY <1>1, <1>2, <1>19 DEF PrefixRead, TypeOK
    <3>2. QED BY <1>1, <1>19, <2>1, <3>1 DEF PrefixRead, Walked, AtRest, TypeOK
  <2>3. ListInv' /\ CloseInv'
    BY <1>1, <1>19, <2>1 DEF PrefixRead, Walked, AtRest, ListInv, CloseInv,
           TypeOK, WithMutex, Entries, Ended
  <2>4. ASSUME Undisturbed'
        PROVE  Undisturbed /\ ReaderInv' /\ \A j \in Entries : ThreadInv(j)'
    <3>1. Undisturbed
      BY <1>1, <1>19, <2>4 DEF PrefixRead, Walked, AtRest, Undisturbed,
             NothingEnded
    <3>2. ReaderInv /\ \A j \in Entries : ThreadInv(j)
      BY <1>1, <3>1
    <3>3. ReaderInv'
      BY <1>1, <1>19, <2>1, <3>1, <3>2 DEF PrefixRead, Walked, AtRest,
             ReaderInv, Protocol, Undisturbed, NothingEnded
    <3>4. ASSUME NEW j \in Entries PROVE ThreadInv(j)'
      <4>1. ThreadInv(j)
        BY <3>2
      <4>2. QED
        BY <1>1, <1>19, <2>1, <3>2, <4>1 DEF PrefixRead, Walked, AtRest,
               ThreadInv, Signals, Places, Preambles, Serves, Opened, Asks,
               WillWrite, WillAnswer, Ended, ReaderInv, Protocol, TypeOK,
               Entries
    <3>5. QED BY <3>1, <3>3, <3>4
  <2>5. UNCHANGED <<acceptor, pending>>
    BY <1>19 DEF PrefixRead, Walked, AtRest
  <2>6. QED BY <2>1, <2>2, <2>3, <2>4, <2>5, PlacesKept
<1>20. CASE PieceRead
  <2>1. UNCHANGED conn
    BY <1>20 DEF PieceRead, Walked, AtRest
  <2>2. TypeOK'
    <3>1. again' \in BOOLEAN
      BY Zenon, <1>1, <1>20 DEF PieceRead
    <3>2. QED BY <1>1, <1>20, <2>1, <3>1 DEF PieceRead, Walked, AtRest, TypeOK,
                 ListInv
  <2>3. ListInv' /\ CloseInv'
    BY <1>1, <1>20, <2>1 DEF PieceRead, Walked, AtRest, ListInv, CloseInv,
           TypeOK, WithMutex, Entries, Ended
  <2>4. ASSUME Undisturbed'
        PROVE  Undisturbed /\ ReaderInv' /\ \A j \in Entries : ThreadInv(j)'
    <3>1. Undisturbed
      BY <1>1, <1>20, <2>4 DEF PieceRead, Walked, AtRest, Undisturbed,
             NothingEnded
    <3>2. ReaderInv /\ \A j \in Entries : ThreadInv(j)
      BY <1>1, <3>1
    <3>3. ReaderInv'
      BY <1>1, <1>20, <2>1, <3>1, <3>2 DEF PieceRead, Walked, AtRest,
             ReaderInv, Protocol, Undisturbed, NothingEnded
    <3>4. ASSUME NEW j \in Entries PROVE ThreadInv(j)'
      <4>1. ThreadInv(j) /\ (at <= j => conn[j].available)
        BY <1>1, <1>20, <3>2
           DEF PieceRead, Walked, ListInv, NewConn, TypeOK, Entries
      <4>2. QED
        BY <1>1, <1>20, <2>1, <3>2, <4>1 DEF PieceRead, Walked, AtRest,
               ThreadInv, Signals, Places, Preambles, Serves, Opened, Asks,
               WillWrite, WillAnswer, Ended, ReaderInv, Protocol, TypeOK,
               Entries
    <3>5. QED BY <3>1, <3>3, <3>4
  <2>5. UNCHANGED <<acceptor, pending>>
    BY <1>20 DEF PieceRead, Walked, AtRest
  <2>6. QED BY <2>1, <2>2, <2>3, <2>4, <2>5, PlacesKept
<1>21. CASE PeerGone
  <2>1. UNCHANGED conn
    BY <1>21 DEF PeerGone, Walked, AtRest
  <2>2. TypeOK'
    <3>1. again' \in BOOLEAN
      BY Zenon, <1>1, <1>21 DEF PeerGone
    <3>2. QED BY <1>1, <1>21, <2>1, <3>1 DEF PeerGone, Walked, AtRest, TypeOK
  <2>3. ListInv' /\ CloseInv'
    BY <1>1, <1>21, <2>1 DEF PeerGone, Walked, AtRest, ListInv, CloseInv,
           TypeOK, WithMutex, Entries, Ended
  <2>4. ASSUME Undisturbed'
        PROVE  Undisturbed /\ ReaderInv' /\ \A j \in Entries : ThreadInv(j)'
    <3>1. Undisturbed
      BY <1>1, <1>21, <2>4 DEF PeerGone, Walked, AtRest, Undisturbed,
             NothingEnded
    <3>2. ReaderInv /\ \A j \in Entries : ThreadInv(j)
      BY <1>1, <3>1
    <3>3. ReaderInv'
      BY <1>1, <1>21, <2>1, <3>1, <3>2 DEF PeerGone, Walked, AtRest, ReaderInv,
             Protocol, Undisturbed, NothingEnded
    <3>4. ASSUME NEW j \in Entries PROVE ThreadInv(j)'
      <4>1. ThreadInv(j) /\ (at <= j => conn[j].available)
        BY <1>1, <1>21, <3>2
           DEF PeerGone, Walked, ListInv, NewConn, TypeOK, Entries
      <4>2. QED
        BY <1>1, <1>21, <2>1, <3>2, <4>1 DEF PeerGone, Walked, AtRest,
               ThreadInv, Signals, Places, Preambles, Serves, Opened, Asks,
               WillWrite, WillAnswer, Ended, ReaderInv, Protocol, TypeOK,
               Entries
    <3>5. QED BY <3>1, <3>3, <3>4
  <2>5. UNCHANGED <<acceptor, pending>>
    BY <1>21 DEF PeerGone, Walked, AtRest
  <2>6. QED BY <2>1, <2>2, <2>3, <2>4, <2>5, PlacesKept
<1>22. CASE ReadFailed
  <2>1. UNCHANGED conn
    BY <1>22 DEF ReadFailed, Walked, AtRest
  <2>2. TypeOK'
    <3>1. pid' \in Streams /\ source' \in 0..PoolSize
      BY <1>1, <1>2, <1>22 DEF ReadFailed, TypeOK
    <3>2. QED BY <1>1, <1>22, <2>1, <3>1 DEF ReadFailed, Walked, AtRest, TypeOK
  <2>3. ListInv' /\ CloseInv'
    BY <1>1, <1>22, <2>1 DEF ReadFailed, Walked, AtRest, ListInv, CloseInv,
           TypeOK, WithMutex, Entries, Ended
  <2>4. ASSUME Undisturbed'
        PROVE  Undisturbed /\ ReaderInv' /\ \A j \in Entries : ThreadInv(j)'
    <3>1. Undisturbed
      BY <1>1, <1>22, <2>4 DEF ReadFailed, Walked, AtRest, Undisturbed,
             NothingEnded
    <3>2. ReaderInv /\ \A j \in Entries : ThreadInv(j)
      BY <1>1, <3>1
    <3>3. ReaderInv'
      BY <1>1, <1>22, <2>1, <3>1, <3>2 DEF ReadFailed, Walked, AtRest,
             ReaderInv, Protocol, Undisturbed, NothingEnded
    <3>4. ASSUME NEW j \in Entries PROVE ThreadInv(j)'
      <4>1. ThreadInv(j)
        BY <3>2
      <4>2. QED
        BY <1>1, <1>22, <2>1, <3>2, <4>1 DEF ReadFailed, Walked, AtRest,
               ThreadInv, Signals, Places, Preambles, Serves, Opened, Asks,
               WillWrite, WillAnswer, Ended, ReaderInv, Protocol, TypeOK,
               Entries
    <3>5. QED BY <3>1, <3>3, <3>4
  <2>5. UNCHANGED <<acceptor, pending>>
    BY <1>22 DEF ReadFailed, Walked, AtRest
  <2>6. QED BY <2>1, <2>2, <2>3, <2>4, <2>5, PlacesKept
<1>23. CASE ReplyBegun
  <2>1. UNCHANGED conn
    BY <1>23 DEF ReplyBegun, Walked, AtRest
  <2>2. TypeOK'
    BY <1>1, <1>23, <2>1 DEF ReplyBegun, Walked, AtRest, TypeOK
  <2>3. ListInv' /\ CloseInv'
    BY <1>1, <1>23, <2>1 DEF ReplyBegun, Walked, AtRest, ListInv, CloseInv,
           TypeOK, WithMutex, Entries, Ended
  <2>4. ASSUME Undisturbed'
        PROVE  Undisturbed /\ ReaderInv' /\ \A j \in Entries : ThreadInv(j)'
    <3>1. Undisturbed
      BY <1>1, <1>23, <2>4 DEF ReplyBegun, Walked, AtRest, Undisturbed,
             NothingEnded
    <3>2. ReaderInv /\ \A j \in Entries : ThreadInv(j)
      BY <1>1, <3>1
    <3>3. ReaderInv'
      BY <1>1, <1>23, <2>1, <3>1, <3>2 DEF ReplyBegun, Walked, AtRest,
             ReaderInv, Protocol, Undisturbed, NothingEnded
    <3>4. ASSUME NEW j \in Entries PROVE ThreadInv(j)'
      <4>1. ThreadInv(j)
        BY <3>2
      <4>2. QED
        BY <1>1, <1>23, <2>1, <3>2, <4>1 DEF ReplyBegun, Walked, AtRest,
               ThreadInv, Signals, Places, Preambles, Serves, Opened, Asks,
               WillWrite, WillAnswer, Ended, ReaderInv, Protocol, TypeOK,
               Entries
    <3>5. QED BY <3>1, <3>3, <3>4
  <2>5. UNCHANGED <<acceptor, pending>>
    BY <1>23 DEF ReplyBegun, Walked, AtRest
  <2>6. QED BY <2>1, <2>2, <2>3, <2>4, <2>5, PlacesKept
<1>24. CASE Replied
  <2>1. UNCHANGED conn
    BY <1>24 DEF Replied, Walked, AtRest
  <2>2. TypeOK'
    <3>1. /\ pid' \in Streams /\ reader' \in {"idle", "wait"}
          /\ op' \in {"end", "read"} /\ again' \in BOOLEAN
      BY <1>1, <1>2, <1>24 DEF Replied, Walked, TypeOK
    <3>2. QED BY <1>1, <1>24, <2>1, <3>1 DEF Replied, Walked, AtRest, TypeOK
  <2>3. ListInv' /\ CloseInv'
    BY <1>1, <1>24, <2>1 DEF Replied, Walked, AtRest, ListInv, CloseInv,
           TypeOK, WithMutex, Entries, Ended
  <2>4. ASSUME Undisturbed'
        PROVE  Undisturbed /\ ReaderInv' /\ \A j \in Entries : ThreadInv(j)'
    <3>1. Undisturbed
      BY <1>1, <1>24, <2>4 DEF Replied, Walked, AtRest, Undisturbed,
             NothingEnded, ListInv
    <3>2. ReaderInv /\ \A j \in Entries : ThreadInv(j)
      BY <1>1, <3>1
    <3>3. source = 0
      BY <1>1, <1>24, <3>2 DEF Replied, Walked, ReaderInv, TypeOK
    <3>4. ReaderInv'
      BY <1>1, <1>24, <2>1, <3>3, <3>1, <3>2 DEF Replied, Walked, AtRest,
             ReaderInv, Protocol, Undisturbed, NothingEnded
    <3>5. ASSUME NEW j \in Entries PROVE ThreadInv(j)'
      <4>1. ThreadInv(j)
        BY <3>2
      <4>2. QED
        BY <1>1, <1>24, <2>1, <3>3, <3>2, <4>1 DEF Replied, Walked, AtRest,
               ThreadInv, Signals, Places, Preambles, Serves, Opened, Asks,
               WillWrite, WillAnswer, Ended, ReaderInv, Protocol, TypeOK,
               Entries
    <3>6. QED BY <3>1, <3>4, <3>5
  <2>5. UNCHANGED <<acceptor, pending>>
    BY <1>24 DEF Replied, Walked, AtRest
  <2>6. QED BY <2>1, <2>2, <2>3, <2>4, <2>5, PlacesKept
<1>25. CASE EndConnection("detach")
  <2> DEFINE q == [conn[at] EXCEPT !.running = FALSE, !.stream = NoHandle,
                                !.id = NoHandle,
                                !.wakeup = conn[at].wakeup + 1]
  <2>1. /\ at \in Entries /\ conn' = [conn EXCEPT ![at] = q]
        /\ conn[at] \in ConnType
    BY <1>1, <1>2, <1>25 DEF EndConnection, Walking, Matches, Reading, TypeOK,
           Entries, ListInv
  <2>2. q \in ConnType
    <3> DEFINE m == conn[at].wakeup + 1
    <3>1. m \in Nat
      BY <1>25, <2>1, FieldsTyped DEF EndConnection
    <3> HIDE DEF m
    <3>2. [conn[at] EXCEPT !.running = FALSE, !.stream = NoHandle,
                          !.id = NoHandle,
                          !.wakeup = m] \in ConnType
      BY Zenon, <1>2, <2>1, <3>1, FieldTypes
    <3>3. QED BY <3>2 DEF m
  <2>3. /\ conn' \in [Entries -> ConnType] /\ conn'[at] = q
        /\ \A j \in Entries : j # at => conn'[j] = conn[j]
    BY <1>2, <2>1, <2>2
  <2>4. TypeOK'
    BY <1>1, <1>25, <2>1, <2>3 DEF EndConnection, Walking, Matches, Reading,
           TypeOK
  <2>5. ListInv'
    BY <1>1, <1>25, <2>1, <2>3 DEF EndConnection, Walking, Matches, Reading,
           ListInv, TypeOK, WithMutex, Entries
  <2>6. CloseInv'
    BY <1>1, <1>25, <2>1, <2>3 DEF EndConnection, Walking, Matches, Reading,
           CloseInv, ListInv, TypeOK, Entries, Ended
  <2>7. ~Undisturbed'
    BY <1>1, <1>25 DEF EndConnection, Walking, Matches, Reading, Undisturbed,
           NothingEnded,
           ListInv, TypeOK
  <2>8. AvailableMeansEnded'
    BY <1>1, <1>25, <2>1, <2>3, FieldsTyped DEF EndConnection,
           AvailableMeansEnded
  <2>9. QED BY <2>4, <2>5, <2>6, <2>7, <2>8 DEF ConnInv, UndisturbedInv
<1>26. CASE EndConnection("closeall")
  <2> DEFINE q == [conn[at] EXCEPT !.running = FALSE, !.stream = NoHandle,
                                !.id = NoHandle,
                                !.wakeup = conn[at].wakeup + 1]
  <2>1. /\ at \in Entries /\ conn' = [conn EXCEPT ![at] = q]
        /\ conn[at] \in ConnType
    BY <1>1, <1>2, <1>26 DEF EndConnection, Walking, Matches, Reading, TypeOK,
           Entries, ListInv
  <2>2. q \in ConnType
    <3> DEFINE m == conn[at].wakeup + 1
    <3>1. m \in Nat
      BY <1>26, <2>1, FieldsTyped DEF EndConnection
    <3> HIDE DEF m
    <3>2. [conn[at] EXCEPT !.running = FALSE, !.stream = NoHandle,
                          !.id = NoHandle,
                          !.wakeup = m] \in ConnType
      BY Zenon, <1>2, <2>1, <3>1, FieldTypes
    <3>3. QED BY <3>2 DEF m
  <2>3. /\ conn' \in [Entries -> ConnType] /\ conn'[at] = q
        /\ \A j \in Entries : j # at => conn'[j] = conn[j]
    BY <1>2, <2>1, <2>2
  <2>4. TypeOK'
    BY <1>1, <1>26, <2>1, <2>3 DEF EndConnection, Walking, Matches, Reading,
           TypeOK
  <2>5. ListInv'
    BY <1>1, <1>26, <2>1, <2>3 DEF EndConnection, Walking, Matches, Reading,
           ListInv, TypeOK, WithMutex, Entries
  <2>6. CloseInv'
    BY <1>1, <1>26, <2>1, <2>3 DEF EndConnection, Walking, Matches, Reading,
           CloseInv, ListInv, TypeOK, Entries, Ended
  <2>7. ~Undisturbed'
    BY <1>1, <1>26 DEF EndConnection, Walking, Matches, Reading, Undisturbed,
           NothingEnded,
           ListInv, TypeOK
  <2>8. AvailableMeansEnded'
    BY <1>1, <1>26, <2>1, <2>3, FieldsTyped DEF EndConnection,
           AvailableMeansEnded
  <2>9. QED BY <2>4, <2>5, <2>6, <2>7, <2>8 DEF ConnInv, UndisturbedInv
<1>27. CASE Joined
  <2> DEFINE q == [conn[at] EXCEPT
                   !.available = conn[at].available \/ op = "detach"]
  <2>1. /\ at \in Entries /\ conn' = [conn EXCEPT ![at] = q]
        /\ conn[at] \in ConnType
    BY <1>1, <1>2, <1>27 DEF Joined, Reading, TypeOK, Entries, ListInv
  <2>2. q \in ConnType
    BY Zenon, <2>1, FieldTypes, FieldsTyped
  <2>3. /\ conn' \in [Entries -> ConnType] /\ conn'[at] = q
        /\ \A j \in Entries : j # at => conn'[j] = conn[j]
    BY <1>2, <2>1, <2>2
  <2>4. TypeOK'
    BY <1>1, <1>27, <2>1, <2>3 DEF Joined, Reading, TypeOK, Entries
  <2>5. ListInv'
    BY <1>1, <1>27, <2>1, <2>3 DEF Joined, Reading, ListInv, TypeOK, WithMutex,
           Entries
  <2>6. CloseInv'
    BY <1>1, <1>27, <2>1, <2>3 DEF Joined, Reading, CloseInv, ListInv, TypeOK,
           Entries, Ended
  <2>7. ~Undisturbed'
    BY <1>1, <1>27 DEF Joined, Reading, Undisturbed, NothingEnded, ListInv,
           TypeOK
  <2>8. AvailableMeansEnded'
    BY <1>1, <1>27, <2>1, <2>3, FieldsTyped DEF Joined, AvailableMeansEnded
  <2>9. QED BY <2>4, <2>5, <2>6, <2>7, <2>8 DEF ConnInv, UndisturbedInv
<1>28. CASE Detached
  <2>1. UNCHANGED conn
    BY <1>28 DEF Detached, Walked, AtRest
  <2>2. TypeOK'
    BY <1>1, <1>28, <2>1 DEF Detached, Walked, AtRest, TypeOK
  <2>3. ListInv' /\ CloseInv'
    BY <1>1, <1>28, <2>1 DEF Detached, Walked, AtRest, ListInv, CloseInv,
           TypeOK, WithMutex, Entries, Ended
  <2>4. ~Undisturbed'
    BY <1>1, <1>28 DEF Detached, Walked, AtRest, Undisturbed, NothingEnded,
           ListInv, TypeOK
  <2>5. UNCHANGED <<acceptor, pending>>
    BY <1>28 DEF Detached, Walked, AtRest
  <2>6. QED BY <2>1, <2>2, <2>3, <2>4, <2>5, PlacesKept
<1>29. CASE AllEnded
  <2>1. UNCHANGED conn
    BY <1>29 DEF AllEnded, Walked, AtRest
  <2>2. TypeOK'
    BY <1>1, <1>29, <2>1 DEF AllEnded, Walked, AtRest, TypeOK
  <2>3. ListInv' /\ CloseInv'
    BY <1>1, <1>29, <2>1 DEF AllEnded, Walked, AtRest, ListInv, CloseInv,
           TypeOK, WithMutex, Entries, Ended, NewConn
  <2>4. ~Undisturbed'
    BY <1>1, <1>29 DEF AllEnded, Walked, AtRest, Undisturbed, NothingEnded,
           ListInv, TypeOK
  <2>5. UNCHANGED <<acceptor, pending>>
    BY <1>29 DEF AllEnded, Walked, AtRest
  <2>6. QED BY <2>1, <2>2, <2>3, <2>4, <2>5, PlacesKept
<1>30. CASE StopAcceptor
  <2>1. UNCHANGED conn
    BY <1>30 DEF StopAcceptor
  <2>2. TypeOK'
    <3>1. acceptor_running' \in BOOLEAN
      BY Zenon, <1>1, <1>30 DEF StopAcceptor
    <3>2. QED BY <1>1, <1>30, <2>1, <3>1 DEF StopAcceptor, TypeOK
  <2>3. ListInv' /\ CloseInv'
    BY <1>1, <1>30, <2>1 DEF StopAcceptor, ListInv, CloseInv, TypeOK,
           WithMutex, Entries, Ended
  <2>4. ~Undisturbed'
    BY <1>1, <1>30 DEF StopAcceptor, Undisturbed, NothingEnded, ListInv, TypeOK
  <2>5. UNCHANGED <<acceptor, pending>>
    BY <1>30 DEF StopAcceptor
  <2>6. QED BY <2>1, <2>2, <2>3, <2>4, <2>5, PlacesKept
<1>31. CASE Closed
  <2>1. UNCHANGED conn
    BY <1>31 DEF Closed
  <2>2. TypeOK'
    <3>1. initialized' \in BOOLEAN
      BY Zenon, <1>1, <1>31 DEF Closed
    <3>2. QED BY <1>1, <1>31, <2>1, <3>1 DEF Closed, TypeOK
  <2>3. ListInv' /\ CloseInv'
    BY <1>1, <1>31, <2>1 DEF Closed, ListInv, CloseInv, TypeOK, WithMutex,
           Entries, Ended
  <2>4. ~Undisturbed'
    BY <1>1, <1>31 DEF Closed, Undisturbed, NothingEnded, ListInv, TypeOK
  <2>5. UNCHANGED <<acceptor, pending>>
    BY <1>31 DEF Closed
  <2>6. QED BY <2>1, <2>2, <2>3, <2>4, <2>5, PlacesKept
<1>32. QED BY <1>3, <1>4, <1>5, <1>6, <1>7, <1>8, <1>9, <1>10, <1>11, <1>12,
         <1>13, <1>14, <1>15, <1>16, <1>17, <1>18, <1>19, <1>20, <1>21, <1>22,
         <1>23, <1>24, <1>25, <1>26, <1>27, <1>28, <1>29, <1>30, <1>31
  DEF Reader, Message, Closing, BeginReply, EndReply

\* Every step of the acceptor keeps the invariant.
LEMMA AcceptorStep ==
  ASSUME ConnInv, Acceptor
  PROVE  ConnInv'
<1>1. /\ TypeOK /\ AvailableMeansEnded /\ ListInv /\ CloseInv
      /\ Undisturbed => /\ StreamInv /\ ReaderInv
                         /\ \A j \in Entries : Lost(j) \/ ThreadInv(j)
      /\ PoolSize \in Nat \ {0}
  BY ConnectionsAssumption DEF ConnInv, UndisturbedInv
<1>2. conn \in [Entries -> ConnType] /\ NoHandle \in Streams
  BY <1>1 DEF TypeOK, Streams
<1>3. UNCHANGED <<tokens, reader, op, at, pid, source, detaches, pool,
                  listProtect, initialized>>
  BY DEF Acceptor, AcceptorLoop, Accept, Knocked, Assign, Accepting, reading,
         tokens, list
<1>4. Undisturbed' => Undisturbed
  BY <1>3 DEF Undisturbed, NothingEnded
<1>5. CASE AcceptorLoop \/ Accept \/ Knocked
  <2>1. UNCHANGED <<list, late>>
    BY <1>5 DEF AcceptorLoop, Accept, Knocked
  <2>2. acceptor_running' \in BOOLEAN
    BY Zenon, <1>1, <1>5
       DEF AcceptorLoop, Accept, Knocked, Accepting, TypeOK
  <2>3. TypeOK'
    BY <1>1, <1>5, <2>1, <2>2
       DEF AcceptorLoop, Accept, Knocked, Accepting, TypeOK, FreshHandles,
           Streams, list, tokens, reading
  <2>4. ListInv' /\ AvailableMeansEnded'
    BY <1>1, <1>3, <1>5, <2>1
       DEF AcceptorLoop, Accept, Knocked, Accepting, ListInv,
           AvailableMeansEnded, list, reading
  <2>5. CloseInv'
    BY <1>1, <1>3, <1>5, <2>1
       DEF AcceptorLoop, Accept, Knocked, CloseInv, list
  <2>6. ASSUME Undisturbed'
        PROVE  /\ StreamInv' /\ ReaderInv'
               /\ \A j \in Entries : Lost(j)' \/ ThreadInv(j)'
    <3>1. UNCHANGED <<conn, length, new_data_written>>
      BY <1>3, <2>1 DEF list, tokens
    <3>2. ReaderInv' /\ \A j \in Entries : Lost(j)' \/ ThreadInv(j)'
      BY <1>1, <1>3, <1>4, <2>6, <3>1
         DEF ReaderInv, ThreadInv, Signals, Places, Preambles, Serves, Opened,
             Asks, WillWrite, WillAnswer, Lost, Astray, Leaving
    <3>3. StreamInv'
      <4>1. StreamInv
        BY <1>1, <1>4, <2>6
      <4>2. CASE Accept
        <5>1. pending' \in FreshHandles
          BY <4>2 DEF Accept
        <5>2. pending' # NoHandle
          BY <5>1 DEF FreshHandles, Handles, NoHandle
        <5>3. \A j \in Entries : ~conn[j].available /\ conn[j].stream # NoHandle
                                 => conn[j].id # pending'
          BY <1>1, <4>1, <5>1
             DEF FreshHandles, StreamInv, AvailableMeansEnded, Ended
        <5>4. QED BY <3>1, <4>1, <5>2, <5>3 DEF StreamInv
      <4>3. CASE AcceptorLoop \/ Knocked
        <5>1. acceptor' # "lock"
          BY <4>3 DEF AcceptorLoop, Knocked
        <5>2. QED BY <3>1, <4>1, <5>1 DEF StreamInv
      <4>4. QED BY <1>5, <4>2, <4>3
    <3>4. QED BY <3>2, <3>3
  <2>7. QED BY <2>3, <2>4, <2>5, <2>6 DEF ConnInv, UndisturbedInv
<1>6. CASE Assign /\ UNCHANGED <<conn, length, last_assigned, late>>
  <2>1. TypeOK' /\ ListInv' /\ AvailableMeansEnded'
    BY <1>1, <1>2, <1>3, <1>6
       DEF Assign, Accepting, TypeOK, ListInv, AvailableMeansEnded, tokens,
           reading
  <2>2. CloseInv'
    BY <1>1, <1>3, <1>6 DEF Assign, CloseInv
  <2>3. ASSUME Undisturbed'
        PROVE  /\ StreamInv' /\ ReaderInv'
               /\ \A j \in Entries : Lost(j)' \/ ThreadInv(j)'
    <3>1. ReaderInv' /\ \A j \in Entries : Lost(j)' \/ ThreadInv(j)'
      BY <1>1, <1>3, <1>4, <1>6, <2>3
         DEF ReaderInv, ThreadInv, Signals, Places, Preambles, Serves, Opened,
             Asks, WillWrite, WillAnswer, Lost, Astray, Leaving, tokens
    <3>2. StreamInv'
      BY <1>1, <1>4, <1>6, <2>3 DEF Assign, StreamInv
    <3>3. QED BY <3>1, <3>2
  <2>4. QED BY <2>1, <2>2, <2>3 DEF ConnInv, UndisturbedInv
<1>7. ASSUME NEW i \in Entries, NEW r \in Acks, conn' = Reuse(i, r),
             acceptor = "lock", acceptor' = "loop", pending' = NoHandle,
             listProtect = "none", conn[i].thread \in Ended,
             late' = late \cup ({i} \cap LateEntries), Accepting,
             \/ UNCHANGED <<length, last_assigned>> /\ i <= length
             \/ /\ last_assigned < pool /\ i = length + 1
                /\ length' = i /\ last_assigned' = last_assigned + 1
      PROVE  ConnInv'
  <2> DEFINE c == conn[i]
             w == IF c.wakeup > 0 THEN c.wakeup - 1 ELSE 0
             q == [c EXCEPT !.thread = "begun", !.available = FALSE,
                            !.running = TRUE, !.stream = pending,
                            !.id = pending, !.ack = r, !.wakeup = w]
  <2>1. c \in ConnType /\ w \in Nat /\ r \in BOOLEAN /\ pending \in Streams
    <3>1. c \in ConnType /\ pending \in Streams
      BY <1>1, <1>2 DEF TypeOK
    <3>2. r \in BOOLEAN
      BY ConnectionsAssumption
    <3>3. QED BY <3>1, <3>2, FieldsTyped
  <2>2. q \in ConnType
    <3> HIDE DEF c, w
    <3>1. QED BY Zenon, <2>1, FieldTypes DEF ThreadPlaces
  <2>3. conn' = [conn EXCEPT ![i] = q]
    BY <1>7 DEF Reuse
  <2>4. /\ conn' \in [Entries -> ConnType] /\ conn'[i] = q
        /\ \A j \in Entries : j # i => conn'[j] = conn[j]
    BY <1>2, <2>2, <2>3
  <2>5. /\ conn'[i].thread = "begun" /\ ~conn'[i].available
         /\ conn'[i].id = pending /\ conn'[i].stream = pending
    <3> HIDE DEF w
    <3>1. /\ q.thread = "begun" /\ q.available = FALSE
          /\ q.id = pending /\ q.stream = pending
      BY <2>1 DEF ConnType
    <3>2. QED BY <2>4, <3>1
  <2>6. reader \notin WithMutex
    BY <1>1, <1>7 DEF ListInv
  <2>7. TypeOK'
    <3>1. /\ length' \in 0..PoolSize /\ last_assigned' \in Nat
      BY <1>1, <1>7 DEF TypeOK, ListInv, Entries
    <3>2. late' \subseteq Entries
      BY <1>1, <1>7 DEF TypeOK
    <3>3. QED BY <1>1, <1>2, <1>3, <1>7, <2>4, <3>1, <3>2
             DEF TypeOK, Accepting, tokens, reading
  <2>8. AvailableMeansEnded'
    BY <1>1, <2>4, <2>5 DEF AvailableMeansEnded
  <2>9. ListInv'
    <3>1. /\ length' = last_assigned' /\ last_assigned' <= pool
          /\ i <= length' /\ length <= length'
      BY <1>1, <1>7 DEF ListInv, TypeOK, Entries
    <3>2. \A j \in Entries : j > length' => conn'[j] = NewConn
      BY <1>1, <1>7, <2>4, <3>1 DEF ListInv, TypeOK, Entries
    <3>3. QED BY <1>1, <1>3, <1>7, <2>6, <3>1, <3>2
             DEF ListInv, WithMutex, Accepting, reading
  <2>10. CloseInv'
    BY <1>1, <1>3, <1>7, <2>4, <2>6 DEF CloseInv, WithMutex, LateEntries
  <2>11. ASSUME Undisturbed'
         PROVE  /\ StreamInv' /\ ReaderInv'
               /\ \A j \in Entries : Lost(j)' \/ ThreadInv(j)'
    <3>1. StreamInv /\ ReaderInv /\ \A j \in Entries : ThreadInv(j)
      BY <1>1, <1>4, <2>6, <2>11 DEF Lost, Astray, WithMutex
    <3>2. StreamInv'
      <4> HIDE DEF q
      <4>1. \A j \in Entries : j # i => conn'[j] = conn[j]
        BY <2>4
      <4>2. pending # NoHandle
        BY <1>7, <3>1 DEF StreamInv
      <4>3. \A j \in Entries :
              conn'[j].thread \notin Ended =>
                /\ conn'[j].id # NoHandle
                /\ \/ conn'[j].stream # NoHandle
                   \/ conn'[j].thread = "loop" /\ ~conn'[j].running
                /\ conn'[j].stream \in {NoHandle, conn'[j].id}
        BY <2>5, <3>1, <4>2, <4>1 DEF StreamInv
      <4>4. \A j \in Entries : ~conn[j].available /\ conn[j].stream # NoHandle
                               => conn[j].id # pending
        BY <1>7, <3>1 DEF StreamInv
      <4>5. \A j, k \in Entries :
              /\ ~conn'[j].available /\ ~conn'[k].available
              /\ conn'[j].stream # NoHandle /\ conn'[k].stream # NoHandle
              /\ conn'[j].id = conn'[k].id
              => j = k
        BY <2>5, <3>1, <4>4, <4>1 DEF StreamInv
      <4>6. QED BY <1>7, <4>3, <4>5 DEF StreamInv
    <3>3. ReaderInv'
      BY <1>1, <1>3, <1>7, <2>6, <3>1
         DEF ReaderInv, tokens, TypeOK, Entries, WithMutex
    <3>4. ASSUME NEW j \in Entries, j # i PROVE ThreadInv(j)'
      BY <1>3, <2>4, <3>1, <3>4
         DEF ThreadInv, Signals, Places, Preambles, Serves, Opened, Asks,
             WillWrite, WillAnswer, tokens
    <3>5. ThreadInv(i)'
      <4>1. ThreadInv(i)
        BY <3>1
      <4>2. /\ c.wakeup = 0 /\ ~c.waiting /\ ~c.read_more /\ c.reply_made = 0
            /\ source # i
        BY <1>7, <2>6, <3>1, <4>1
           DEF ThreadInv, Signals, Places, Opened, Asks, Ended, WithMutex
      <4>3. Signals(i)' /\ Places(i)' /\ Preambles(i)'
        BY <2>4, <4>2 DEF Signals, Places, Preambles
      <4>4. Serves(i)'
        BY <1>3, <2>4, <2>6, <4>2 DEF Serves, WithMutex
      <4>5. source # 0 /\ reader # "written" => reader = "lock"
        BY <2>6, <3>1 DEF ReaderInv, WithMutex
      <4>6. source # 0 /\ reader # "written" => pid # pending /\ op \in Protocol
        <5> SUFFICES ASSUME source # 0, reader # "written"
                     PROVE  pid # pending /\ op \in Protocol
          OBVIOUS
        <5>1. source \in Entries
          BY <1>1 DEF TypeOK, Entries
        <5>2. Opened(source)
          BY <3>1, <5>1 DEF ThreadInv
        <5>3. /\ pid = conn[source].id
              /\ conn[source].thread \in {"held", "preamble"}
          BY <4>5, <5>1, <5>2 DEF Opened, Asks
        <5>4. conn[source].stream # NoHandle /\ ~conn[source].available
          BY <1>1, <3>1, <5>1, <5>3 DEF StreamInv, AvailableMeansEnded, Ended
        <5>5. pid # pending
          BY <1>7, <3>1, <5>1, <5>3, <5>4 DEF StreamInv
        <5>6. QED BY <3>1, <5>5 DEF ReaderInv
      <4>7. Opened(i)'
        BY <1>3, <2>4, <2>5, <2>6, <4>2, <4>5, <4>6 DEF Opened, WithMutex
      <4>8. QED BY <4>3, <4>4, <4>7 DEF ThreadInv
    <3>6. QED BY <3>2, <3>3, <3>4, <3>5
  <2>12. QED BY <2>7, <2>8, <2>9, <2>10, <2>11 DEF ConnInv, UndisturbedInv
<1>8. CASE Assign /\ ~UNCHANGED <<conn, length, last_assigned, late>>
  <2>1. PICK i \in Entries, r \in Acks :
          /\ conn' = Reuse(i, r) /\ late' = late \cup ({i} \cap LateEntries)
          /\ \/ FirstAvailable(i) /\ UNCHANGED <<length, last_assigned>>
             \/ /\ last_assigned < pool /\ i = length + 1
                /\ length' = i /\ last_assigned' = last_assigned + 1
    BY <1>8 DEF Assign
  <2>2. conn[i].thread \in Ended
    BY <1>1, <2>1
       DEF FirstAvailable, AvailableMeansEnded, ListInv, TypeOK, Entries,
           NewConn, Ended
  <2>3. /\ acceptor = "lock" /\ acceptor' = "loop" /\ pending' = NoHandle
        /\ listProtect = "none" /\ Accepting
    BY <1>8 DEF Assign
  <2>4. \/ UNCHANGED <<length, last_assigned>> /\ i <= length
        \/ /\ last_assigned < pool /\ i = length + 1
           /\ length' = i /\ last_assigned' = last_assigned + 1
    BY <2>1 DEF FirstAvailable
  <2>5. QED BY <1>7, <2>1, <2>2, <2>3, <2>4
<1>9. QED BY <1>5, <1>6, <1>8 DEF Acceptor

-----------------------------------------------------------------------------
(* The theorems *)

\* The invariant holds at first.
LEMMA InitInv ==
  ASSUME Init
  PROVE  ConnInv
<1>1. \A i \in Entries : conn[i] = NewConn
  BY DEF Init
<1>2. NewConn \in ConnType
  BY DEF NewConn, ConnType, ThreadPlaces, Streams
<1>3. TypeOK
  <2>1. initialized \in BOOLEAN /\ acceptor_running \in BOOLEAN
    BY Zenon DEF Init
  <2>2. knock \in BOOLEAN /\ again \in BOOLEAN
    BY Zenon DEF Init
  <2>3. QED BY <1>2, <2>1, <2>2, ConnectionsAssumption
           DEF Init, TypeOK, Streams, Entries
<1>4. AvailableMeansEnded /\ ListInv /\ CloseInv
  BY <1>1 DEF Init, AvailableMeansEnded, ListInv, CloseInv, NewConn, WithMutex
<1>5. StreamInv /\ ReaderInv
  BY <1>1 DEF Init, StreamInv, ReaderInv, NewConn, Ended
<1>6. \A i \in Entries : ThreadInv(i)
  BY <1>1 DEF Init, ThreadInv, Signals, Places, Preambles, Serves, Opened,
              NewConn, Entries
<1>7. QED BY <1>3, <1>4, <1>5, <1>6 DEF ConnInv, UndisturbedInv

\* The invariant is inductive.
LEMMA Invariance == Spec => []ConnInv
<1>1. Init => ConnInv
  BY InitInv
<1>2. ConnInv /\ [Next]_vars => ConnInv'
  <2> SUFFICES ASSUME ConnInv, [Next]_vars PROVE ConnInv'
    OBVIOUS
  <2>1. ASSUME NEW i \in Entries, Thread(i) PROVE ConnInv'
    BY <2>1, ThreadStep
  <2>2. CASE Acceptor
    BY <2>2, AcceptorStep
  <2>3. CASE Reader
    BY <2>3, ReaderStep
  <2>4. CASE UNCHANGED vars
    BY <2>4 DEF vars, list, tokens, accepting, reading, ConnInv, TypeOK,
                AvailableMeansEnded, ListInv, CloseInv, UndisturbedInv,
                Undisturbed, NothingEnded, StreamInv, ReaderInv, ThreadInv, Signals,
                Places, Preambles, Serves, Opened, Asks, WillWrite, WillAnswer,
                Lost, Astray, Leaving
  <2>5. QED BY <2>1, <2>2, <2>3, <2>4 DEF Next
<1>3. QED BY <1>1, <1>2, PTL DEF Spec

\* Every member of the list, of the connections, of the acceptor and of the
\* reader keeps its type.
THEOREM ConnTypeCorrect == Spec => []TypeOK
<1>1. ConnInv => TypeOK
  BY DEF ConnInv
<1>2. QED BY <1>1, Invariance, PTL

\* A connection is free for reuse exactly when its thread has returned, so that
\* addSocket never starts a second thread in a place that has one - whatever
\* peers do, whatever is closed by name and however descriptors are reused.
THEOREM PlacesFreed == Spec => []AvailableMeansEnded
<1>1. ConnInv => AvailableMeansEnded
  BY DEF ConnInv
<1>2. QED BY <1>1, Invariance, PTL

\* closeAll leaves no thread behind but those of connections that were accepted
\* after its walk through the list, whatever happened before.
THEOREM ClosedList == Spec => []OnlyLateOnesLeft
<1>1. ConnInv => OnlyLateOnesLeft
  BY DEF ConnInv, CloseInv, OnlyLateOnesLeft, Ended
<1>2. QED BY <1>1, Invariance, PTL

\* A reader that waits with the mutex of the list held - for a buffer to be
\* filled, or for the answer to a wish - waits for a thread that has signalled
\* already or still will, or it asks a connection that is about to return and
\* whose descriptor the open message's connection was given.
THEOREM WaitsAreAnswered ==
  ASSUME SafeEnvironment
  PROVE  Spec => []WaitIsAnswered
<1>1. ConnInv => WaitIsAnswered
  <2> SUFFICES ASSUME ConnInv, NothingEnded, Undisturbed,
                      reader \in {"written", "answer"}
               PROVE  /\ reader = "written" =>
                           new_data_written > 0 \/ WillWrite(conn[at])
                      /\ reader = "answer" =>
                           \/ conn[at].reply_made > 0
                           \/ WillAnswer(conn[at]) \/ Astray
    BY DEF WaitIsAnswered, Undisturbed, SafeEnvironment
  <2>1. at \in Entries
    BY DEF ConnInv, ListInv, TypeOK, Entries
  <2>2. (Astray \/ Serves(at)) /\ ReaderInv
    BY <2>1 DEF ConnInv, UndisturbedInv, ThreadInv, Lost
  <2>3. QED BY <2>2 DEF Serves, ReaderInv, Astray
<1>2. QED BY <1>1, Invariance, PTL

\* No thread of a connection uses a stream, a name or a list that is gone.
THEOREM NoThreadCrashes ==
  ASSUME SafeEnvironment
  PROVE  Spec => []NoCrash
<1>1. ConnInv => NoCrash
  BY DEF ConnInv, UndisturbedInv, ThreadInv, Places, NoCrash, Crashed,
         Lost, Astray, Leaving, Undisturbed, SafeEnvironment
<1>2. QED BY <1>1, Invariance, PTL

\* Between messages no token of an earlier answer is left over, and no thread
\* is still about to write into a buffer of the reader.
THEOREM TokensMatch ==
  ASSUME SafeEnvironment
  PROVE  Spec => []NoStaleToken
<1>1. ConnInv => NoStaleToken
  <2> SUFFICES ASSUME ConnInv, NothingEnded, Undisturbed
               PROVE  /\ reader # "written" =>
                           /\ new_data_written = 0
                           /\ \A i \in Entries :
                                conn[i].thread \notin {"body", "written"}
                      /\ reader # "answer" =>
                           \A i \in Entries :
                             conn[i].reply_made = 0 /\ conn[i].thread # "part"
    BY DEF NoStaleToken, Undisturbed, SafeEnvironment
  <2>1. /\ ReaderInv
        /\ \A i \in Entries : Lost(i) \/ (Places(i) /\ Signals(i))
    BY DEF ConnInv, UndisturbedInv, ThreadInv
  <2>2. QED BY <2>1
           DEF ReaderInv, Places, Signals, Asks, Lost, Astray, Leaving
<1>2. QED BY <1>1, Invariance, PTL

\* While a message is open no other connection that lives is asked for a piece
\* or for the preamble of a reply, although the reader knows the connection by
\* its descriptor and descriptors are given out again at once: at worst it asks
\* one whose stream is closed, and gets no answer.
THEOREM SourceKept ==
  ASSUME SafeEnvironment
  PROVE  Spec => []OneSource
<1>1. ConnInv => OneSource
  BY DEF ConnInv, UndisturbedInv, ReaderInv, OneSource, Undisturbed,
         SafeEnvironment
<1>2. QED BY <1>1, Invariance, PTL
=============================================================================
