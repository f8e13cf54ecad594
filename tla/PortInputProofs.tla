-------------------------- MODULE PortInputProofs --------------------------
(***************************************************************************)
(* Proofs about PortInput for every set of bufferings, every kind of       *)
(* reader and every number of messages.                                    *)
(***************************************************************************)
EXTENDS PortInput, TLAPS

(***************************************************************************)
(* Exchanges of buffers                                                    *)
(***************************************************************************)

\* What the invariant says of the three slots alone.
SlotsOK ==
  /\ service_type \in {"NO_BUFFERS", "DOUBLE_BUFFERS", "TRIPLE_BUFFERS"}
  /\ access \in Slots /\ latest \in Slots /\ incoming \in Slots
  /\ NoBufferLostOrShared

\* With three buffers all slots are filled; with fewer, one of them is empty.
LEMMA SlotCount ==
  ASSUME SlotsOK
  PROVE  /\ service_type = "TRIPLE_BUFFERS"
              => access # NULL /\ latest # NULL /\ incoming # NULL
         /\ service_type # "TRIPLE_BUFFERS"
              => access = NULL \/ latest = NULL \/ incoming = NULL
<1>1. CASE service_type = "TRIPLE_BUFFERS"
  BY <1>1 DEF SlotsOK, NoBufferLostOrShared, BuffersOf, NULL, Slots, Buffers
<1>2. CASE service_type = "DOUBLE_BUFFERS"
  BY <1>2 DEF SlotsOK, NoBufferLostOrShared, BuffersOf, NULL, Slots, Buffers
<1>3. CASE service_type = "NO_BUFFERS"
  BY <1>3 DEF SlotsOK, NoBufferLostOrShared, BuffersOf, NULL, Slots, Buffers
<1>4. QED BY <1>1, <1>2, <1>3 DEF SlotsOK

\* A permutation of the slots keeps every buffer in exactly one of them.
LEMMA PermutedSlots ==
  ASSUME NoBufferLostOrShared, UNCHANGED service_type,
         \/ UNCHANGED slots
         \/ access' = latest /\ latest' = access /\ UNCHANGED incoming
         \/ access' = incoming /\ incoming' = access /\ UNCHANGED latest
         \/ latest' = incoming /\ incoming' = latest /\ UNCHANGED access
  PROVE  NoBufferLostOrShared'
<1>1. {access, latest, incoming}' = {access, latest, incoming}
  BY DEF slots
<1>2. BuffersOf(service_type)' = BuffersOf(service_type)
  BY DEF BuffersOf
<1>3. (access # NULL => access \notin {latest, incoming})'
  BY DEF NoBufferLostOrShared, slots, NULL
<1>4. (latest # NULL => latest # incoming)'
  BY DEF NoBufferLostOrShared, slots, NULL
<1>5. QED BY <1>1, <1>2, <1>3, <1>4 DEF NoBufferLostOrShared, NULL

(***************************************************************************)
(* Relinquish, whoever calls it                                            *)
(***************************************************************************)

\* It only moves the access buffer, only to an empty slot, and wakes the port
\* thread if it sleeps.
LEMMA RelinquishMoves ==
  ASSUME InputInv, Relinquish
  PROVE  /\ NoBufferLostOrShared' /\ AccessMeansAccessing'
         /\ access' \in Slots /\ latest' \in Slots /\ incoming' \in Slots
         /\ incoming # NULL => incoming' = incoming
         /\ latest # NULL => latest' = latest
         /\ service_type = "TRIPLE_BUFFERS" => UNCHANGED slots
         /\ incoming' # incoming /\ asleep => wakeup' > 0
         /\ wakeup' \in Nat /\ wakeup' >= wakeup
         /\ accessing' = FALSE
         /\ UNCHANGED <<service_type, reader_kind, receiving, asleep, has_input,
                        ignore_data,
                        something_to_read, complete_msg_thread,
                        complete_terminate, running, network, history>>
<1>1. SlotsOK
  BY InputAssumption DEF SlotsOK, InputInv, TypeOK
<1>2. CASE ~accessing
  BY <1>2 DEF Relinquish, InputInv, TypeOK, slots, NoBufferLostOrShared,
              AccessMeansAccessing
<1>3. CASE accessing
  <2>1. GiveBack /\ WakeSleeper /\ accessing' = FALSE
    BY <1>3 DEF Relinquish, StopAccessing
  <2>2. NoBufferLostOrShared'
    BY <2>1, PermutedSlots DEF GiveBack, Relinquish, InputInv, slots
  <2>3. service_type # "TRIPLE_BUFFERS" => access' = NULL
    BY <2>1, <1>1, SlotCount DEF GiveBack, slots
  <2>4. service_type = "TRIPLE_BUFFERS" => UNCHANGED slots
    BY <2>1, <1>1, SlotCount DEF GiveBack
  <2>5. AccessMeansAccessing'
    BY <2>3 DEF AccessMeansAccessing, Relinquish
  <2>6. /\ access' \in Slots /\ latest' \in Slots /\ incoming' \in Slots
        /\ incoming # NULL => incoming' = incoming
        /\ latest # NULL => latest' = latest
    BY <2>1 DEF GiveBack, slots, InputInv, TypeOK
  <2>7. /\ wakeup' \in Nat /\ wakeup' >= wakeup
        /\ asleep => wakeup' > 0
    BY <2>1 DEF WakeSleeper, InputInv, TypeOK
  <2>8. QED BY <2>1, <2>2, <2>4, <2>5, <2>6, <2>7 DEF Relinquish
<1>4. QED BY <1>2, <1>3 DEF InputInv, TypeOK

(***************************************************************************)
(* The invariant                                                           *)
(***************************************************************************)

LEMMA InitInputInv == Init => InputInv
<1> SUFFICES ASSUME Init PROVE InputInv
  OBVIOUS
<1>1. TypeOK
  <2>1. /\ service_type \in ServiceTypes /\ wait \in BOOLEAN
        /\ data \in [Buffers -> 0..MaxMessages] /\ torn \in SUBSET Buffers
    BY InputAssumption DEF Init
  <2>2. /\ access \in Slots /\ latest \in Slots /\ incoming \in Slots
        /\ content \in Slots
    BY DEF Init, Slots, Buffers, NULL
  <2>3. /\ port \in PortStates /\ reader \in ReaderStates
        /\ closer \in CloserStates
    BY DEF Init, PortStates, ReaderStates, CloserStates
  <2>4. /\ arrived \in 0..MaxMessages /\ newest \in 0..MaxMessages
        /\ delivered \in 0..MaxMessages
        /\ something_to_read \in Nat /\ wakeup \in Nat
    BY InputAssumption DEF Init
  <2>5. QED BY <2>1, <2>2, <2>3, <2>4 DEF Init, TypeOK
<1>2. NoBufferLostOrShared
  <2>1. service_type \in {"NO_BUFFERS", "DOUBLE_BUFFERS", "TRIPLE_BUFFERS"}
    BY InputAssumption DEF Init
  <2>2. CASE service_type = "TRIPLE_BUFFERS"
    BY <2>2 DEF Init, NoBufferLostOrShared, BuffersOf, NULL
  <2>3. CASE service_type = "DOUBLE_BUFFERS"
    BY <2>3 DEF Init, NoBufferLostOrShared, BuffersOf, NULL
  <2>4. CASE service_type = "NO_BUFFERS"
    BY <2>4 DEF Init, NoBufferLostOrShared, BuffersOf, NULL
  <2>5. QED BY <2>1, <2>2, <2>3, <2>4
<1>3. Places /\ AccessMeansAccessing /\ NoLostWakeup /\ ReaderOwnsContent
  BY DEF Init, Places, AccessMeansAccessing, NoLostWakeup, ReaderOwnsContent,
         NULL
<1>4. QED BY <1>1, <1>2, <1>3 DEF InputInv

\* Every step keeps the types. Places is needed by Publish, which reads the
\* message of the incoming buffer.
LEMMA TypeStep == ASSUME InputInv, Next PROVE TypeOK'
<1>1. ASSUME ReceiveData PROVE TypeOK'
  BY <1>1, InputAssumption DEF ReceiveData, InputInv, TypeOK, PortStates, slots,
       flags, signals, history
<1>2. ASSUME StartData \/ RetryFill PROVE TypeOK'
  <2>1. /\ data' \in [Buffers -> 0..MaxMessages] /\ torn' \in SUBSET Buffers
        /\ asleep' \in BOOLEAN
    BY <1>2 DEF StartData, RetryFill, FillOrSleep, InputInv, TypeOK, Slots, Buffers,
         NULL
  <2>2. port' \in PortStates
    BY <1>2 DEF StartData, RetryFill, FillOrSleep, PortStates
  <2>3. QED
    BY <1>2, <2>1, <2>2 DEF StartData, RetryFill, InputInv, TypeOK, slots, signals,
         history
<1>3. ASSUME WakeUp PROVE TypeOK'
  BY <1>3 DEF WakeUp, InputInv, TypeOK, PortStates, slots, flags, network, history
<1>4. ASSUME FinishFill PROVE TypeOK'
  BY <1>4 DEF FinishFill, InputInv, TypeOK, PortStates, slots, flags, signals,
       history
<1>5. ASSUME Publish PROVE TypeOK'
  <2>1. /\ latest' \in Slots /\ incoming' \in Slots /\ access' \in Slots
    BY <1>5 DEF Publish, InputInv, TypeOK, slots
  <2>2. newest' \in 0..MaxMessages
    <3>1. CASE ignore_data
      BY <1>5, <3>1 DEF Publish, InputInv, TypeOK
    <3>2. CASE ~ignore_data
      <4>1. incoming \in Buffers /\ newest' = data[incoming]
        BY <1>5, <3>2 DEF Publish, InputInv, TypeOK, Places, Slots
      <4>2. QED BY <4>1 DEF InputInv, TypeOK
    <3>3. QED BY <3>1, <3>2
  <2>3. has_input' \in BOOLEAN /\ something_to_read' \in Nat
    <3>1. CASE ignore_data
      BY <1>5, <3>1 DEF Publish, InputInv, TypeOK
    <3>2. CASE ~ignore_data
      <4>1. has_input' = TRUE /\ something_to_read' \in {something_to_read, something_to_read + 1}
        BY <1>5, <3>2 DEF Publish, Announce
      <4>2. QED BY <4>1 DEF InputInv, TypeOK
    <3>3. QED BY <3>1, <3>2
  <2>4. QED
    BY <1>5, <2>1, <2>2, <2>3 DEF Publish, InputInv, TypeOK, PortStates, network
<1>6. ASSUME Notify \/ OnReadReturn PROVE TypeOK'
  BY <1>6 DEF Notify, OnReadReturn, InputInv, TypeOK, PortStates, slots, flags,
       signals, network, history
<1>7. ASSUME ReceiveDetachAll \/ AskForEnd \/ TailSetInput \/ TailPost PROVE TypeOK'
  <2>1. CASE ReceiveDetachAll
    BY <2>1 DEF ReceiveDetachAll, AnswerDetach, InputInv, TypeOK, PortStates, slots,
         flags, history
  <2>2. CASE AskForEnd
    BY <2>2 DEF AskForEnd, InputInv, TypeOK, PortStates, slots, flags, network,
         history
  <2>3. CASE TailSetInput
    BY <2>3 DEF TailSetInput, InputInv, TypeOK, PortStates, slots, signals, network,
         history
  <2>4. CASE TailPost
    BY <2>4 DEF TailPost, InputInv, TypeOK, PortStates, slots, flags, network,
         history
  <2>5. QED BY <1>7, <2>1, <2>2, <2>3, <2>4
<1>8. ASSUME StartRead PROVE TypeOK'
  BY <1>8, InputAssumption DEF StartRead, InputInv, TypeOK, PortStates,
       ReaderStates, slots, flags, signals, network, history
<1>9. ASSUME ReadRelinquish PROVE TypeOK'
  <2>1. Relinquish
    BY <1>9 DEF ReadRelinquish
  <2>2. reader' \in ReaderStates /\ content' \in Slots
    BY <1>9 DEF ReadRelinquish, DropContent, ReaderStates, Slots
  <2>3. QED
    BY <1>9, <2>1, <2>2, RelinquishMoves
       DEF ReadRelinquish, InputInv, TypeOK, network, history
<1>10. ASSUME CheckInput \/ CheckTerminated PROVE TypeOK'
  BY <1>10 DEF CheckInput, CheckTerminated, InputInv, TypeOK, ReaderStates,
       slots, flags, signals, network, history
<1>11. ASSUME InputSignalled \/ PollInput PROVE TypeOK'
  BY <1>11 DEF InputSignalled, PollInput, TokenAvailable, InputInv, TypeOK,
       ReaderStates, slots, flags, network, history
<1>12. ASSUME Take PROVE TypeOK'
  <2>1. /\ access' \in Slots /\ latest' \in Slots /\ incoming' \in Slots
        /\ has_input' \in BOOLEAN
    BY <1>12 DEF Take, TakeLatest, InputInv, TypeOK, slots
  <2>2. content' \in Slots /\ wakeup' \in Nat
    BY <1>12, <2>1 DEF Take, WakeSleeper, InputInv, TypeOK
  <2>3. delivered' \in 0..MaxMessages
    BY <1>12, <2>1 DEF Take, InputInv, TypeOK, Slots
  <2>4. QED
    BY <1>12, <2>1, <2>2, <2>3 DEF Take, InputInv, TypeOK, ReaderStates, network
<1>13. ASSUME StartEnd \/ EndSay \/ EndDetachReceived \/ EndSignal \/ EndJoin
       PROVE  TypeOK'
  <2>1. UNCHANGED closerOnly
    BY <1>13 DEF StartEnd, EndSay, EndDetachReceived, EndSignal, EndJoin
  <2>2. /\ closer' \in CloserStates
        /\ complete_msg_thread' \in BOOLEAN /\ complete_terminate' \in BOOLEAN
        /\ detach' \in BOOLEAN
    BY <1>13 DEF StartEnd, EndSay, EndDetachReceived, EndSignal, EndJoin,
         InputInv, TypeOK, CloserStates
  <2>3. QED
    BY <2>1, <2>2 DEF closerOnly, InputInv, TypeOK, slots, flags, history
<1>14. ASSUME EndIgnoreData PROVE TypeOK'
  BY <1>14 DEF EndIgnoreData, InputInv, TypeOK, CloserStates, slots, signals,
       network, history
<1>15. ASSUME NEW from, NEW to \in CloserStates, EndRelinquish(from, to)
       PROVE  TypeOK'
  <2>1. Relinquish
    BY <1>15 DEF EndRelinquish
  <2>2. QED
    BY <1>15, <2>1, RelinquishMoves
       DEF EndRelinquish, InputInv, TypeOK, network, history
<1>16. QED
  BY <1>1, <1>2, <1>3, <1>4, <1>5, <1>6, <1>7, <1>8, <1>9, <1>10, <1>11, <1>12,
     <1>13, <1>14, <1>15
     DEF Next, PortThread, ReadStep, EndStep, CloserStates

\* Every step keeps the buffers apart, and the access slot empty while nobody
\* accesses it.
LEMMA SlotsStep ==
  ASSUME InputInv, Next PROVE NoBufferLostOrShared' /\ AccessMeansAccessing'
<1> DEFINE Goal == (NoBufferLostOrShared /\ AccessMeansAccessing)'
<1>1. ASSUME UNCHANGED <<service_type, slots, accessing>> PROVE Goal
  BY <1>1, PermutedSlots DEF InputInv, AccessMeansAccessing, slots
<1>2. ASSUME Publish PROVE Goal
  <2>1. /\ UNCHANGED <<service_type, access, accessing>>
        /\ \/ UNCHANGED slots
           \/ latest' = incoming /\ incoming' = latest
    BY <1>2 DEF Publish, slots
  <2>2. QED BY <2>1, PermutedSlots DEF InputInv, AccessMeansAccessing, slots
<1>3. ASSUME Relinquish PROVE Goal
  BY <1>3, RelinquishMoves
<1>4. ASSUME Take PROVE Goal
  <2>1. /\ UNCHANGED service_type /\ accessing' = TRUE
        /\ \/ UNCHANGED slots
           \/ access' = latest /\ latest' = access /\ UNCHANGED incoming
    BY <1>4 DEF Take, TakeLatest
  <2>2. QED BY <2>1, PermutedSlots DEF InputInv, AccessMeansAccessing
<1>5. CASE PortThread \/ ReceiveData
  BY <1>1, <1>2, <1>5
     DEF PortThread, ReceiveData, StartData, WakeUp, RetryFill, FinishFill,
         Notify, OnReadReturn, ReceiveDetachAll, AskForEnd, TailSetInput,
         TailPost, flags
<1>6. CASE ReadStep \/ StartRead
  BY <1>1, <1>3, <1>4, <1>6
     DEF ReadStep, StartRead, ReadRelinquish, CheckInput, InputSignalled,
         PollInput, CheckTerminated, flags
<1>7. CASE EndStep \/ StartEnd
  BY <1>1, <1>3, <1>7
     DEF EndStep, StartEnd, EndRelinquish, EndIgnoreData, EndSay,
         EndDetachReceived, EndSignal, EndJoin, closerOnly, flags
<1>8. QED BY <1>5, <1>6, <1>7 DEF Next

\* Every step keeps what the place of each thread says.
LEMMA PlacesStep == ASSUME InputInv, Next PROVE Places'
<1>1. CASE ReceiveData \/ Notify \/ OnReadReturn
  BY <1>1 DEF ReceiveData, Notify, OnReadReturn, InputInv, Places, slots, flags,
       signals
<1>2. CASE StartData
  BY <1>2 DEF StartData, FillOrSleep, InputInv, Places, slots, signals
<1>3. CASE RetryFill
  BY <1>3 DEF RetryFill, FillOrSleep, InputInv, Places, slots, signals
<1>4. CASE WakeUp \/ FinishFill
  BY <1>4 DEF WakeUp, FinishFill, InputInv, Places, slots, flags, signals
<1>5. CASE Publish
  BY <1>5 DEF Publish, InputInv, Places
<1>6. CASE ReceiveDetachAll \/ AskForEnd \/ TailSetInput \/ TailPost
  BY <1>6 DEF ReceiveDetachAll, AskForEnd, TailSetInput, TailPost, InputInv,
       Places, slots, flags, signals
<1>7. CASE StartRead
  BY <1>7 DEF StartRead, MayRead, InputInv, Places, slots, flags, signals
<1>8. CASE ReadRelinquish
  <2>1. Relinquish /\ UNCHANGED port /\ content' = NULL
    BY <1>8 DEF ReadRelinquish, DropContent
  <2>2. /\ incoming # NULL => incoming' = incoming
        /\ accessing' = FALSE
        /\ UNCHANGED <<asleep, running, ignore_data>>
    BY <2>1, RelinquishMoves
  <2>3. Places
    BY DEF InputInv
  <2>4. QED BY <1>8, <2>1, <2>2, <2>3 DEF Places
<1>9. CASE CheckInput \/ InputSignalled \/ PollInput \/ CheckTerminated
  BY <1>9 DEF CheckInput, InputSignalled, PollInput, CheckTerminated, InputInv,
       Places, slots, flags, signals
<1>10. CASE Take
  BY <1>10 DEF Take, TakeLatest, InputInv, Places, slots
<1>11. CASE StartEnd \/ EndSay \/ EndDetachReceived \/ EndSignal \/ EndJoin
  BY <1>11 DEF StartEnd, EndSay, EndDetachReceived, EndSignal, EndJoin, closerOnly,
       InputInv, Places, slots, flags
<1>12. CASE EndIgnoreData
  BY <1>12 DEF EndIgnoreData, InputInv, Places, slots, signals
<1>13. ASSUME NEW from, NEW to, EndRelinquish(from, to) PROVE Places'
  <2>1. Relinquish /\ UNCHANGED <<port, reader, content>>
    BY <1>13 DEF EndRelinquish
  <2>2. /\ incoming # NULL => incoming' = incoming
        /\ accessing' = FALSE
        /\ UNCHANGED <<asleep, running, ignore_data>>
    BY <2>1, RelinquishMoves
  <2>3. Places
    BY DEF InputInv
  <2>4. QED BY <2>1, <2>2, <2>3 DEF Places
<1>14. QED
  BY <1>1, <1>2, <1>3, <1>4, <1>5, <1>6, <1>7, <1>8, <1>9, <1>10, <1>11, <1>12,
     <1>13 DEF Next, PortThread, ReadStep, EndStep

\* Every step that makes a sleeper's condition true has posted what it waits
\* for, and every step that takes the post makes it look again.
LEMMA WakeupStep == ASSUME InputInv, Next PROVE NoLostWakeup'
<1>1. CASE ReceiveData \/ Notify \/ OnReadReturn
  BY <1>1 DEF ReceiveData, Notify, OnReadReturn, InputInv, NoLostWakeup, slots,
       flags, signals
<1>2. CASE StartData \/ RetryFill
  BY <1>2 DEF StartData, RetryFill, FillOrSleep, InputInv, NoLostWakeup, slots,
       signals
<1>3. CASE WakeUp \/ FinishFill
  BY <1>3 DEF WakeUp, FinishFill, InputInv, NoLostWakeup, slots, flags, signals
<1>4. CASE Publish
  <2>1. something_to_read \in Nat /\ has_input \in BOOLEAN
    BY DEF InputInv, TypeOK
  <2>2. CASE ignore_data
    BY <1>4, <2>2 DEF Publish, InputInv, NoLostWakeup, slots
  <2>3. CASE ~ignore_data
    BY <1>4, <2>1, <2>3 DEF Publish, Announce, InputInv, NoLostWakeup
  <2>4. QED BY <2>2, <2>3
<1>5. CASE ReceiveDetachAll \/ AskForEnd \/ TailSetInput
  BY <1>5 DEF ReceiveDetachAll, AskForEnd, TailSetInput, InputInv, NoLostWakeup,
       slots, flags, signals
<1>6. CASE TailPost
  <2>1. something_to_read \in Nat
    BY DEF InputInv, TypeOK
  <2>2. QED BY <1>6, <2>1 DEF TailPost, NoLostWakeup
<1>7. CASE StartRead
  BY <1>7 DEF StartRead, MayRead, InputInv, NoLostWakeup, slots, flags, signals
<1>8. ASSUME Relinquish, UNCHANGED port, reader' = "waiting" => reader = "waiting"
      PROVE  NoLostWakeup'
  <2>1. /\ incoming # NULL => incoming' = incoming
        /\ incoming' # incoming /\ asleep => wakeup' > 0
        /\ wakeup' \in Nat /\ wakeup' >= wakeup
        /\ UNCHANGED <<has_input, something_to_read>>
    BY <1>8, RelinquishMoves
  <2>2. NoLostWakeup /\ (port = "asleep" => asleep) /\ wakeup \in Nat
    BY DEF InputInv, Places, TypeOK
  <2>3. QED BY <1>8, <2>1, <2>2 DEF NoLostWakeup
<1>9. CASE CheckInput \/ CheckTerminated
  BY <1>9 DEF CheckInput, CheckTerminated, InputInv, NoLostWakeup, slots, flags,
       signals
<1>10. CASE InputSignalled \/ PollInput
  BY <1>10 DEF InputSignalled, PollInput, TokenAvailable, InputInv, NoLostWakeup,
       slots, flags
<1>11. CASE Take
  <2>1. wakeup \in Nat /\ UNCHANGED incoming
    BY <1>11 DEF Take, TakeLatest, InputInv, TypeOK, slots
  <2>2. wakeup' >= wakeup /\ wakeup' \in Nat
    BY <1>11, <2>1 DEF Take, WakeSleeper
  <2>3. QED BY <1>11, <2>1, <2>2 DEF Take, InputInv, NoLostWakeup
<1>12. CASE StartEnd \/ EndSay \/ EndDetachReceived \/ EndSignal \/ EndJoin
  BY <1>12 DEF StartEnd, EndSay, EndDetachReceived, EndSignal, EndJoin, closerOnly,
       InputInv, NoLostWakeup, slots, flags
<1>13. CASE EndIgnoreData
  BY <1>13 DEF EndIgnoreData, InputInv, NoLostWakeup, slots, signals
<1>14. CASE ReadRelinquish
  BY <1>8, <1>14 DEF ReadRelinquish
<1>15. ASSUME NEW from, NEW to, EndRelinquish(from, to) PROVE NoLostWakeup'
  BY <1>8, <1>15 DEF EndRelinquish
<1>16. QED
  BY <1>1, <1>2, <1>3, <1>4, <1>5, <1>6, <1>7, <1>9, <1>10, <1>11, <1>12, <1>13,
     <1>14, <1>15 DEF Next, PortThread, ReadStep, EndStep

\* Every step leaves the buffer that Content() names in the access slot, until
\* the next Read or, with fewer than three buffers, until End.
LEMMA ContentStep == ASSUME InputInv, Next PROVE ReaderOwnsContent'
<1>1. ASSUME UNCHANGED <<service_type, access, content>>,
             closer' = "open" => closer = "open"
      PROVE  ReaderOwnsContent'
  BY <1>1 DEF InputInv, ReaderOwnsContent
<1>2. CASE ReadRelinquish
  BY <1>2 DEF ReadRelinquish, DropContent, ReaderOwnsContent
<1>3. CASE Take
  BY <1>3 DEF Take, ReaderOwnsContent
<1>4. ASSUME NEW from, NEW to \in CloserStates \ {"open"}, EndRelinquish(from, to)
      PROVE  ReaderOwnsContent'
  <2>1. Relinquish /\ closer' # "open" /\ UNCHANGED content
    BY <1>4 DEF EndRelinquish
  <2>2. service_type = "TRIPLE_BUFFERS" => UNCHANGED access
    BY <2>1, RelinquishMoves DEF slots
  <2>3. UNCHANGED service_type
    BY <2>1 DEF Relinquish
  <2>4. QED BY <2>1, <2>2, <2>3 DEF InputInv, ReaderOwnsContent
<1>5. CASE ReceiveData \/ PortThread
  BY <1>1, <1>5
     DEF PortThread, ReceiveData, StartData, WakeUp, RetryFill, FinishFill, Publish,
         Notify, OnReadReturn, ReceiveDetachAll, AskForEnd, TailSetInput,
         TailPost, slots
<1>6. CASE StartRead \/ CheckInput \/ InputSignalled \/ PollInput \/ CheckTerminated
  BY <1>1, <1>6
     DEF StartRead, CheckInput, InputSignalled, PollInput, CheckTerminated, slots
<1>7. CASE StartEnd \/ EndIgnoreData \/ EndSay \/ EndDetachReceived \/ EndSignal
           \/ EndJoin
  BY <1>1, <1>7
     DEF StartEnd, EndIgnoreData, EndSay, EndDetachReceived, EndSignal, EndJoin,
         closerOnly, slots
<1>8. QED
  BY <1>2, <1>3, <1>4, <1>5, <1>6, <1>7
     DEF Next, ReadStep, EndStep, CloserStates

LEMMA StutterInputInv == ASSUME InputInv, UNCHANGED vars PROVE InputInv'
<1>1. TypeOK'
  BY DEF InputInv, TypeOK, vars, slots, flags, signals, network, history
<1>2. Places' /\ AccessMeansAccessing' /\ NoLostWakeup' /\ ReaderOwnsContent'
  BY DEF InputInv, Places, AccessMeansAccessing, NoLostWakeup, ReaderOwnsContent,
       vars, slots, flags, signals
<1>3. NoBufferLostOrShared'
  BY PermutedSlots DEF InputInv, vars
<1>4. QED BY <1>1, <1>2, <1>3 DEF InputInv

LEMMA InputStep == ASSUME InputInv, [Next]_vars PROVE InputInv'
BY TypeStep, SlotsStep, PlacesStep, WakeupStep, ContentStep, StutterInputInv
   DEF InputInv

\* The inductive invariant holds of the input side of every port.
THEOREM InputInvariant == Spec => []InputInv
BY InitInputInv, InputStep, PTL DEF Spec

\* Type correctness.
THEOREM TypeCorrect == Spec => []TypeOK
BY InputInvariant, PTL DEF InputInv

\* The exchanges of Relinquish, Acquire and Body keep every buffer registered
\* by YARPInputPort::Register in exactly one slot.
THEOREM BuffersKeptApart == Spec => []NoBufferLostOrShared
BY InputInvariant, PTL DEF InputInv

\* Neither the port thread nor a blocking Read misses its wakeup.
THEOREM WakeupsKept == Spec => []NoLostWakeup
BY InputInvariant, PTL DEF InputInv

\* What Content() returns stays out of the network's reach.
THEOREM ContentOwned == Spec => []ReaderOwnsContent
BY InputInvariant, PTL DEF InputInv

\* ACE_ASSERT (!accessing) in Port::Acquire never fires.
THEOREM AssertionHolds == Spec => []AcquireAssertion
<1>1. InputInv => AcquireAssertion
  BY DEF InputInv, Places, AcquireAssertion
<1>2. QED BY <1>1, InputInvariant, PTL

\* A port thread that waits for a buffer waits for its owner to read on.
THEOREM OnlyOwnerBlocks == Spec => []BlockedOnlyByReader
<1>1. InputInv => BlockedOnlyByReader
  <2> SUFFICES ASSUME InputInv, incoming = NULL
               PROVE  \/ accessing /\ service_type # "TRIPLE_BUFFERS"
                      \/ latest # NULL /\ service_type = "NO_BUFFERS"
    BY DEF BlockedOnlyByReader
  <2>1. SlotsOK
    BY InputAssumption DEF SlotsOK, InputInv, TypeOK
  <2>2. service_type # "TRIPLE_BUFFERS" /\ (access # NULL => accessing)
    BY <2>1, SlotCount DEF InputInv, AccessMeansAccessing
  <2>3. CASE service_type = "DOUBLE_BUFFERS"
    BY <2>1, <2>2, <2>3 DEF SlotsOK, NoBufferLostOrShared, BuffersOf, NULL
  <2>4. CASE service_type = "NO_BUFFERS"
    BY <2>1, <2>2, <2>4 DEF SlotsOK, NoBufferLostOrShared, BuffersOf, NULL
  <2>5. QED BY <2>1, <2>2, <2>3, <2>4 DEF SlotsOK
<1>2. QED BY <1>1, InputInvariant, PTL

\* Who touches the slots.
LEMMA SlotMoves ==
  ASSUME Next PROVE UNCHANGED slots \/ Publish \/ Relinquish \/ Take
<1>1. CASE ReceiveData \/ PortThread
  BY <1>1
     DEF ReceiveData, PortThread, StartData, WakeUp, RetryFill, FinishFill,
         Notify, OnReadReturn, ReceiveDetachAll, AskForEnd, TailSetInput,
         TailPost
<1>2. CASE StartRead \/ ReadStep
  BY <1>2
     DEF StartRead, ReadStep, ReadRelinquish, CheckInput, InputSignalled,
         PollInput, CheckTerminated
<1>3. CASE StartEnd \/ EndStep
  BY <1>3
     DEF StartEnd, EndStep, EndRelinquish, EndIgnoreData, EndSay,
         EndDetachReceived, EndSignal, EndJoin, closerOnly
<1>4. QED BY <1>1, <1>2, <1>3 DEF Next

LEMMA FillingStep ==
  ASSUME InputInv, Next, port = "filling"
  PROVE  incoming # NULL /\ incoming' = incoming
<1>1. incoming # NULL
  BY DEF InputInv, Places
<1>2. CASE UNCHANGED slots
  BY <1>1, <1>2 DEF slots
<1>3. CASE Relinquish
  BY <1>1, <1>3, RelinquishMoves
<1>4. CASE Take
  BY <1>1, <1>4 DEF Take, TakeLatest, slots
<1>5. ~Publish
  BY DEF Publish
<1>6. QED BY <1>2, <1>3, <1>4, <1>5, SlotMoves

\* The buffer the network writes into without the lock stays where it is while
\* Read and End exchange the others.
THEOREM FillKept == Spec => FillUndisturbed
<1>1. InputInv /\ [Next]_vars
        => [port = "filling" => incoming # NULL /\ incoming' = incoming]_vars
  BY FillingStep
<1>2. QED BY <1>1, InputInvariant, PTL DEF Spec, FillUndisturbed

(***************************************************************************)
(* A port that is read from OnRead                                         *)
(***************************************************************************)

\* What is chosen once.
LEMMA KindKept == ASSUME Next PROVE UNCHANGED <<service_type, reader_kind>>
<1>1. CASE ReceiveData \/ PortThread
  BY <1>1
     DEF ReceiveData, PortThread, StartData, WakeUp, RetryFill, FinishFill,
         Publish, Notify, OnReadReturn, ReceiveDetachAll, AskForEnd,
         TailSetInput, TailPost
<1>2. CASE StartRead \/ ReadStep
  BY <1>2
     DEF StartRead, ReadStep, ReadRelinquish, Relinquish, CheckInput,
         InputSignalled, PollInput, CheckTerminated, Take
<1>3. CASE StartEnd \/ EndStep
  BY <1>3
     DEF StartEnd, EndStep, EndRelinquish, Relinquish, EndIgnoreData, EndSay,
         EndDetachReceived, EndSignal, EndJoin, closerOnly
<1>4. QED BY <1>1, <1>2, <1>3 DEF Next

\* The Relinquish at the beginning of a Read brings the incoming buffer back.
LEMMA ReadHasIncoming ==
  ASSUME InputInv, Relinquish, service_type # "NO_BUFFERS"
  PROVE  incoming' # NULL
<1>1. SlotsOK
  BY InputAssumption DEF SlotsOK, InputInv, TypeOK
<1>2. CASE incoming # NULL
  BY <1>2, RelinquishMoves
<1>3. CASE incoming = NULL
  <2>1. service_type = "DOUBLE_BUFFERS"
    BY <1>1, <1>3, SlotCount DEF SlotsOK
  <2>2. access # NULL
    BY <1>1, <1>3, <2>1 DEF SlotsOK, NoBufferLostOrShared, BuffersOf, NULL
  <2>3. accessing
    BY <2>1, <2>2 DEF InputInv, AccessMeansAccessing
  <2>4. QED BY <1>3, <2>2, <2>3 DEF Relinquish, GiveBack
<1>4. QED BY <1>2, <1>3

LEMMA CallbackStep ==
  ASSUME InputInv, CallbackInv, Next PROVE CallbackInv'
<1> SUFFICES ASSUME reader_kind = "callback", service_type # "NO_BUFFERS",
                    UNCHANGED <<reader_kind, service_type>>
             PROVE  CallbackInv'
  BY KindKept DEF CallbackInv
<1> DEFINE Away == incoming = NULL /\ ~ignore_data
<1>1. /\ port \notin {"asleep", "resumed"}
      /\ Away => \/ port \in {"notify", "onread"}
                 \/ port = "inread" /\ reader = "relinquish"
      /\ reader # "user" => port = "inread"
  BY DEF CallbackInv
<1>2. CASE ReceiveData \/ FinishFill \/ Notify \/ OnReadReturn
  BY <1>1, <1>2
     DEF ReceiveData, FinishFill, Notify, OnReadReturn, CallbackInv, slots, flags
<1>3. CASE StartData
  BY <1>1, <1>3 DEF StartData, FillOrSleep, CallbackInv, slots
<1>4. ~WakeUp /\ ~RetryFill
  BY <1>1 DEF WakeUp, RetryFill
<1>5. CASE Publish
  BY <1>1, <1>5 DEF Publish, CallbackInv, slots
<1>6. CASE ReceiveDetachAll \/ AskForEnd \/ TailSetInput \/ TailPost
  BY <1>1, <1>6
     DEF ReceiveDetachAll, AskForEnd, TailSetInput, TailPost, CallbackInv, slots,
         flags
<1>7. CASE StartRead
  BY <1>1, <1>7 DEF StartRead, MayRead, CallbackInv, slots, flags
<1>8. CASE ReadRelinquish
  <2>1. incoming' # NULL
    BY <1>8, ReadHasIncoming DEF ReadRelinquish
  <2>2. QED BY <1>1, <1>8, <2>1 DEF ReadRelinquish, CallbackInv
<1>9. CASE CheckInput \/ InputSignalled \/ PollInput \/ CheckTerminated
  BY <1>1, <1>9
     DEF CheckInput, InputSignalled, PollInput, CheckTerminated, CallbackInv,
         slots, flags
<1>10. CASE Take
  BY <1>1, <1>10 DEF Take, TakeLatest, CallbackInv, slots
<1>11. CASE StartEnd \/ EndSay \/ EndDetachReceived \/ EndSignal \/ EndJoin
  BY <1>1, <1>11
     DEF StartEnd, EndSay, EndDetachReceived, EndSignal, EndJoin, closerOnly,
         CallbackInv, slots, flags
<1>12. CASE EndIgnoreData
  BY <1>1, <1>12 DEF EndIgnoreData, CallbackInv, slots
<1>13. ASSUME NEW from, NEW to, EndRelinquish(from, to) PROVE CallbackInv'
  <2>1. incoming' # NULL
    BY <1>13, ReadHasIncoming DEF EndRelinquish
  <2>2. QED BY <1>1, <1>13, <2>1 DEF EndRelinquish, CallbackInv
<1>14. QED
  BY <1>2, <1>3, <1>4, <1>5, <1>6, <1>7, <1>8, <1>9, <1>10, <1>11, <1>12, <1>13
     DEF Next, PortThread, ReadStep, EndStep

\* With two or three buffers a port that is read from OnRead always has a buffer
\* for the next message, also while End takes the buffers from the reader.
THEOREM EventDriven == Spec => []EventDrivenReceives
<1>1. Init => CallbackInv
  BY DEF Init, CallbackInv, NULL
<1>2. InputInv /\ CallbackInv /\ [Next]_vars => CallbackInv'
  BY CallbackStep DEF CallbackInv, vars, slots, flags
<1>3. CallbackInv => EventDrivenReceives
  BY DEF CallbackInv, EventDrivenReceives
<1>4. QED BY <1>1, <1>2, <1>3, InputInvariant, PTL DEF Spec

(***************************************************************************)
(* Nobody waits in vain                                                    *)
(***************************************************************************)

\* Who touches ignore_data, and what each thread's steps leave alone.
LEMMA ThreadFrames ==
  ASSUME Next
  PROVE  /\ UNCHANGED ignore_data \/ EndIgnoreData
         /\ UNCHANGED closer \/ StartEnd \/ EndStep
<1>1. CASE ReceiveData \/ PortThread
  BY <1>1
     DEF ReceiveData, PortThread, StartData, WakeUp, RetryFill, FinishFill,
         Publish, Notify, OnReadReturn, ReceiveDetachAll, AskForEnd,
         TailSetInput, TailPost, flags
<1>2. CASE StartRead \/ ReadStep
  BY <1>2
     DEF StartRead, ReadStep, ReadRelinquish, Relinquish, CheckInput,
         InputSignalled, PollInput, CheckTerminated, Take, flags
<1>3. CASE StartEnd \/ EndStep
  BY <1>3
     DEF StartEnd, EndStep, EndRelinquish, Relinquish, EndIgnoreData, EndSay,
         EndDetachReceived, EndSignal, EndJoin, closerOnly, flags
<1>4. QED BY <1>1, <1>2, <1>3 DEF Next

\* Once data are ignored nobody takes the incoming buffer away.
LEMMA IncomingStep ==
  ASSUME InputInv, EndKeepsIncoming, Next PROVE EndKeepsIncoming'
<1>1. UNCHANGED service_type
  BY KindKept
<1>2. CASE UNCHANGED closer
  <2>1. UNCHANGED ignore_data
    BY <1>2, ThreadFrames DEF EndIgnoreData
  <2>2. CASE UNCHANGED slots
    BY <1>1, <1>2, <2>1, <2>2 DEF EndKeepsIncoming, slots
  <2>3. CASE Publish
    BY <1>1, <1>2, <2>1, <2>3 DEF Publish, EndKeepsIncoming, slots
  <2>4. CASE Relinquish
    BY <1>1, <1>2, <2>1, <2>4, RelinquishMoves DEF EndKeepsIncoming
  <2>5. CASE Take
    BY <1>1, <1>2, <2>1, <2>5 DEF Take, TakeLatest, EndKeepsIncoming, slots
  <2>6. QED BY <2>2, <2>3, <2>4, <2>5, SlotMoves
<1>3. CASE EndIgnoreData
  BY <1>3 DEF EndIgnoreData, EndKeepsIncoming
<1>4. CASE StartEnd \/ EndSay \/ EndDetachReceived \/ EndSignal \/ EndJoin
  BY <1>4
     DEF StartEnd, EndSay, EndDetachReceived, EndSignal, EndJoin, closerOnly,
         EndKeepsIncoming, slots, flags
<1>5. CASE EndRelinquish("relinquish1", "ignore")
  BY <1>5 DEF EndRelinquish, Relinquish, EndKeepsIncoming
<1>6. CASE \/ EndRelinquish("relinquish2", "say")
           \/ EndRelinquish("relinquish3", "awaitDetach")
  <2>1. service_type # "NO_BUFFERS" => incoming' # NULL
    BY <1>6, ReadHasIncoming DEF EndRelinquish
  <2>2. QED BY <1>1, <1>6, <2>1 DEF EndRelinquish, Relinquish, EndKeepsIncoming
<1>7. QED BY <1>2, <1>3, <1>4, <1>5, <1>6, ThreadFrames DEF EndStep

\* End and the port thread take turns.
LEMMA HandshakeStep ==
  ASSUME InputInv, Handshake, Next PROVE Handshake'
<1>1. Places /\ closer \in CloserStates /\ port \in PortStates
  BY DEF InputInv, TypeOK
<1>2. CASE ReceiveData \/ WakeUp \/ FinishFill \/ Publish \/ Notify \/ OnReadReturn
  BY <1>2
     DEF ReceiveData, WakeUp, FinishFill, Publish, Notify, OnReadReturn, Handshake,
         signals, network
<1>3. CASE StartData \/ RetryFill
  BY <1>3 DEF StartData, RetryFill, FillOrSleep, Handshake, signals, network
<1>4. CASE ReceiveDetachAll \/ AskForEnd
  BY <1>1, <1>4
     DEF ReceiveDetachAll, AnswerDetach, AskForEnd, Handshake, Places, network
<1>5. CASE TailSetInput \/ TailPost
  BY <1>1, <1>5 DEF TailSetInput, TailPost, Handshake, Places, signals, network
<1>6. CASE StartRead \/ ReadStep
  BY <1>6
     DEF StartRead, ReadStep, ReadRelinquish, Relinquish, CheckInput,
         InputSignalled, PollInput, CheckTerminated, Take, MayRead, Handshake,
         signals, network
<1>7. CASE StartEnd \/ EndIgnoreData \/ EndSay \/ EndDetachReceived \/ EndSignal
  BY <1>1, <1>7
     DEF StartEnd, EndIgnoreData, EndSay, EndDetachReceived, EndSignal, closerOnly,
         Handshake, Places, signals, network
<1>8. CASE EndJoin
  BY <1>1, <1>8 DEF EndJoin, closerOnly, Handshake, Places
<1>9. CASE \/ EndRelinquish("relinquish1", "ignore")
           \/ EndRelinquish("relinquish2", "say")
           \/ EndRelinquish("relinquish3", "awaitDetach")
  BY <1>9 DEF EndRelinquish, Relinquish, Handshake, network
<1>10. QED
  BY <1>2, <1>3, <1>4, <1>5, <1>6, <1>7, <1>8, <1>9
     DEF Next, PortThread, EndStep

\* A message that OnRead was called for is there when OnRead asks for it.
LEMMA OnReadStep ==
  ASSUME InputInv, EndKeepsIncoming, OnReadInv, Next PROVE OnReadInv'
<1> SUFFICES ASSUME reader_kind = "callback", UNCHANGED reader_kind
             PROVE  OnReadInv'
  BY KindKept DEF OnReadInv
<1> USE DEF OnReadInv
<1>1. CASE ReceiveData \/ WakeUp \/ FinishFill \/ OnReadReturn \/ ReceiveDetachAll
  BY <1>1 DEF ReceiveData, WakeUp, FinishFill, OnReadReturn, ReceiveDetachAll, flags
<1>2. CASE StartData \/ RetryFill
  BY <1>2 DEF StartData, RetryFill, FillOrSleep
<1>3. CASE Publish \/ AskForEnd \/ TailSetInput \/ TailPost
  BY <1>3 DEF Publish, Announce, AskForEnd, TailSetInput, TailPost, flags
<1>4. CASE Notify
  BY <1>4 DEF Notify, flags
<1>5. CASE StartRead
  BY <1>5 DEF StartRead, MayRead, flags
<1>6. CASE ReadStep
  BY <1>6
     DEF ReadStep, ReadRelinquish, Relinquish, CheckInput, InputSignalled,
         PollInput, CheckTerminated, Take, flags
<1>7. CASE StartEnd \/ EndIgnoreData \/ EndSay \/ EndDetachReceived \/ EndSignal
           \/ EndJoin
  BY <1>7
     DEF StartEnd, EndIgnoreData, EndSay, EndDetachReceived, EndSignal, EndJoin,
         closerOnly, flags
<1>8. CASE \E from, to \in CloserStates : EndRelinquish(from, to)
  BY <1>8 DEF EndRelinquish, Relinquish
<1>9. QED
  BY <1>1, <1>2, <1>3, <1>4, <1>5, <1>6, <1>7, <1>8
     DEF Next, PortThread, EndStep, CloserStates

\* Neither the port thread nor its reader nor End waits in vain.
THEOREM InputWaitsAreMet == Spec => []WaitsAreMet
<1>1. Init => WaitInv
  BY InitInputInv
     DEF Init, WaitInv, EndKeepsIncoming, Handshake, OnReadInv
<1>2. WaitInv /\ [Next]_vars => WaitInv'
  <2> SUFFICES ASSUME WaitInv, [Next]_vars PROVE WaitInv'
    OBVIOUS
  <2>1. InputInv'
    BY InputStep DEF WaitInv
  <2>2. CASE Next
    BY <2>1, <2>2, IncomingStep, HandshakeStep, OnReadStep DEF WaitInv
  <2>3. CASE UNCHANGED vars
    BY <2>1, <2>3
       DEF WaitInv, EndKeepsIncoming, Handshake, OnReadInv, vars, slots, flags,
           signals, network
  <2>4. QED BY <2>2, <2>3
<1>3. WaitInv => WaitsAreMet
  BY DEF WaitInv, InputInv, TypeOK, Places, NoLostWakeup, EndKeepsIncoming,
         Handshake, OnReadInv, WaitsAreMet, EndIsAnswered, PortStates
<1>4. QED BY <1>1, <1>2, <1>3, PTL DEF Spec
=============================================================================
