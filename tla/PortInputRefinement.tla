------------------------ MODULE PortInputRefinement ------------------------
(***************************************************************************)
(* What the owner of a port can rely on, proved from the inductive         *)
(* invariant of PortInputProofs: complete messages if connections do not   *)
(* break, and the mailbox of module Mailbox if it only calls Read(true) or *)
(* only calls Read(false).                                                 *)
(***************************************************************************)
EXTENDS PortInputProofs

(***************************************************************************)
(* Complete messages                                                       *)
(***************************************************************************)

\* When no connection breaks, only the buffer being filled is incomplete.
LEMMA TornStep ==
  ASSUME InputInv, TornInv, Next, BrokenReads = FALSE PROVE TornInv'
<1>1. ASSUME UNCHANGED torn, (port = "filling") <=> (port' = "filling")
      PROVE  TornInv'
  BY <1>1, FillingStep DEF TornInv
<1>2. CASE StartData
  BY <1>2 DEF StartData, FillOrSleep, TornInv, slots
<1>3. CASE RetryFill
  BY <1>3 DEF RetryFill, FillOrSleep, TornInv, slots
<1>4. CASE FinishFill
  BY <1>4 DEF FinishFill, TornInv
<1>5. CASE ReceiveData \/ WakeUp \/ Publish \/ Notify \/ OnReadReturn
  BY <1>1, <1>5
     DEF ReceiveData, WakeUp, Publish, Notify, OnReadReturn, network
<1>6. CASE ReceiveDetachAll \/ AskForEnd \/ TailSetInput \/ TailPost
  BY <1>1, <1>6 DEF ReceiveDetachAll, AskForEnd, TailSetInput, TailPost, network
<1>7. CASE StartRead
  BY <1>1, <1>7 DEF StartRead, MayRead, network
<1>8. CASE ReadStep
  BY <1>1, <1>8
     DEF ReadStep, ReadRelinquish, Relinquish, CheckInput, InputSignalled, PollInput,
         CheckTerminated, Take, network
<1>9. CASE StartEnd \/ EndStep
  BY <1>1, <1>9
     DEF StartEnd, EndStep, EndRelinquish, Relinquish, EndIgnoreData, EndSay,
         EndDetachReceived, EndSignal, EndJoin, closerOnly, network
<1>10. QED
  BY <1>2, <1>3, <1>4, <1>5, <1>6, <1>7, <1>8, <1>9 DEF Next, PortThread

\* A message is published, and read, only when all of it has arrived - unless
\* a connection breaks, which Body does not notice.
THEOREM CompleteMessages ==
  ASSUME BrokenReads = FALSE PROVE Spec => []DeliveredComplete
<1>1. Init => TornInv
  BY DEF Init, TornInv
<1>2. InputInv /\ TornInv /\ [Next]_vars => TornInv'
  BY TornStep DEF TornInv, vars, slots, network
<1>3. InputInv /\ TornInv => DeliveredComplete
  BY DEF InputInv, TornInv, DeliveredComplete, ReaderOwnsContent,
         NoBufferLostOrShared
<1>4. QED BY <1>1, <1>2, <1>3, InputInvariant, PTL DEF Spec

(***************************************************************************)
(* Fresh messages                                                          *)
(***************************************************************************)

\* The owner reads in one way only: it always blocks or it always polls.
SteadyReads == MixedReads = FALSE \/ \A m, n \in ReadModes : m = n

\* An exchange by Relinquish leaves an unread message unread.
LEMMA RelinquishKeepsNews ==
  ASSUME InputInv, NewsInv, Relinquish,
         UNCHANGED <<port, wait>>,
         \/ UNCHANGED reader
         \/ /\ reader = "relinquish"
            /\ reader' = IF wait THEN "check" ELSE "poll"
  PROVE  NewsInv'
<1>1. /\ incoming # NULL => incoming' = incoming
      /\ latest # NULL => latest' = latest
      /\ UNCHANGED <<has_input, something_to_read, ignore_data, running, arrived,
                     data, newest, delivered>>
  BY RelinquishMoves DEF network, history
<1>2. Unread => Unread'
  BY <1>1 DEF Unread
<1>3. port = "filling" \/ (port = "received" /\ ~ignore_data) => incoming # NULL
  BY DEF InputInv, Places
<1>4. QED BY <1>1, <1>2, <1>3 DEF NewsInv, PollInv, InFlight

\* Every step keeps what the reader relies on.
LEMMA NewsStep ==
  ASSUME InputInv, NewsInv, Next, SteadyReads PROVE NewsInv'
<1> USE DEF InFlight, Unread, PollInv
<1>1. /\ arrived \in Nat /\ newest \in Nat /\ delivered \in Nat
      /\ data \in [Buffers -> 0..MaxMessages]
      /\ latest \in Slots /\ incoming \in Slots
      /\ latest # NULL => latest # incoming
      /\ something_to_read \in Nat
  BY InputAssumption DEF InputInv, TypeOK, NoBufferLostOrShared
<1>2. CASE ReceiveData
  BY <1>1, <1>2 DEF ReceiveData, NewsInv, slots, flags, signals, history
<1>3. ASSUME FillOrSleep, port \in {"data", "resumed"},
             UNCHANGED <<slots, has_input, ignore_data, something_to_read, running,
                         arrived, reader, wait, history>>
      PROVE  NewsInv'
  <2>1. CASE incoming = NULL
    BY <1>3, <2>1 DEF FillOrSleep, NewsInv, slots, history
  <2>2. CASE incoming # NULL
    <3>1. /\ data' = [data EXCEPT ![incoming] = arrived] /\ port' = "filling"
      BY <1>3, <2>2 DEF FillOrSleep
    <3>2. data'[incoming] = arrived
      BY <1>1, <2>2, <3>1 DEF Slots
    <3>3. latest # NULL => data'[latest] = data[latest]
      BY <1>1, <3>1 DEF Slots
    <3>4. QED BY <1>3, <3>1, <3>2, <3>3 DEF NewsInv, slots, history
  <2>3. QED BY <2>1, <2>2
<1>4. CASE StartData
  <2>1. CASE ignore_data
    BY <1>4, <2>1 DEF StartData, NewsInv, slots, signals, history
  <2>2. CASE ~ignore_data
    BY <1>3, <1>4, <2>2 DEF StartData, signals
  <2>3. QED BY <2>1, <2>2
<1>5. CASE RetryFill
  BY <1>3, <1>5 DEF RetryFill, signals
<1>6. CASE WakeUp \/ FinishFill
  <2>1. CASE WakeUp
    BY <2>1 DEF WakeUp, NewsInv, slots, flags, network, history
  <2>2. CASE FinishFill
    BY <2>2 DEF FinishFill, NewsInv, slots, flags, signals, history
  <2>3. QED BY <1>6, <2>1, <2>2
<1>7. CASE Publish
  <2>1. CASE ignore_data
    BY <1>7, <2>1 DEF Publish, NewsInv, slots, network
  <2>2. CASE ~ignore_data
    <3>1. latest' # NULL /\ data'[latest'] = newest' /\ newest' = arrived
      BY <1>7, <2>2 DEF Publish, InputInv, Places, NewsInv, network
    <3>2. /\ has_input' = TRUE /\ port' = "notify" /\ running
          /\ something_to_read' = IF has_input THEN something_to_read
                                               ELSE something_to_read + 1
          /\ UNCHANGED <<running, arrived, reader, wait, delivered>>
      BY <1>7, <2>2 DEF Publish, Announce, network, InputInv, Places
    <3>3. PollInv'
      BY <3>2 DEF NewsInv
    <3>4. delivered' <= newest' /\ newest' <= arrived' /\ Unread'
      BY <1>1, <1>7, <3>1, <3>2 DEF Publish, NewsInv
    <3>5. QED BY <1>7, <3>2, <3>3, <3>4 DEF Publish, NewsInv
  <2>3. QED BY <2>1, <2>2
<1>8. CASE Notify \/ OnReadReturn \/ ReceiveDetachAll \/ TailPost
  <2>1. CASE Notify
    BY <2>1 DEF Notify, NewsInv, slots, flags, signals, network, history
  <2>2. CASE OnReadReturn
    BY <2>2 DEF OnReadReturn, NewsInv, slots, flags, signals, network, history
  <2>3. CASE ReceiveDetachAll
    BY <2>3 DEF ReceiveDetachAll, NewsInv, slots, flags, history
  <2>4. CASE TailPost
    BY <2>4 DEF TailPost, InputInv, Places, NewsInv, slots, flags, network,
         history
  <2>5. QED BY <1>8, <2>1, <2>2, <2>3, <2>4
<1>9. CASE AskForEnd \/ TailSetInput
  <2>1. CASE AskForEnd
    BY <2>1 DEF AskForEnd, NewsInv, slots, flags, network,
         history
  <2>2. CASE TailSetInput
    BY <2>2 DEF TailSetInput, InputInv, Places, NewsInv, slots, signals,
         network, history
  <2>3. QED BY <1>9, <2>1, <2>2
<1>10. CASE StartRead
  <2>1. wait' = wait
    BY <1>10 DEF StartRead, SteadyReads, NewsInv
  <2>2. /\ reader = "user" /\ reader' = "relinquish"
        /\ port' = port \/ (port = "onread" /\ port' = "inread")
        /\ UNCHANGED <<slots, flags, signals, network, history>>
    BY <1>10 DEF StartRead, MayRead
  <2>3. QED BY <2>1, <2>2 DEF NewsInv, slots, flags, signals, network, history
<1>11. CASE ReadRelinquish
  BY <1>11, RelinquishKeepsNews DEF ReadRelinquish, NewsInv
<1>12. CASE CheckInput \/ InputSignalled \/ PollInput
  <2>1. CASE CheckInput
    BY <2>1 DEF CheckInput, NewsInv, slots, flags, signals, network, history
  <2>2. CASE InputSignalled
    BY <2>2 DEF InputSignalled, NewsInv, slots, flags, network, history
  <2>3. CASE PollInput
    <3>1. /\ ~wait /\ reader = "poll"
          /\ running => something_to_read = IF has_input THEN 1 ELSE 0
      BY <2>3 DEF PollInput, NewsInv
    <3>2. CASE TokenAvailable
      BY <1>1, <2>3, <3>1, <3>2
         DEF PollInput, TokenAvailable, NewsInv, slots, flags, network, history
    <3>3. CASE ~TokenAvailable
      BY <1>1, <2>3, <3>1, <3>3
         DEF PollInput, TokenAvailable, NewsInv, slots, flags, network, history
    <3>4. QED BY <3>2, <3>3
  <2>4. QED BY <1>12, <2>1, <2>2, <2>3
<1>13. CASE CheckTerminated
  BY <1>13 DEF CheckTerminated, NewsInv, slots, flags, signals, network, history
<1>14. CASE Take
  <2>1. /\ latest # NULL /\ delivered' = newest
        /\ UNCHANGED <<incoming, port, ignore_data, running, arrived, data, newest, wait>>
        /\ has_input' = FALSE /\ reader = "take" /\ reader' = "user"
        /\ UNCHANGED something_to_read
    BY <1>14 DEF Take, TakeLatest, NewsInv, network
  <2>2. PollInv'
    BY <2>1 DEF NewsInv
  <2>3. QED BY <1>1, <2>1, <2>2 DEF NewsInv
<1>15. CASE StartEnd \/ EndSay \/ EndDetachReceived \/ EndSignal \/ EndJoin
  <2>1. UNCHANGED closerOnly
    BY <1>15 DEF StartEnd, EndSay, EndDetachReceived, EndSignal, EndJoin
  <2>2. QED BY <2>1 DEF closerOnly, NewsInv, slots, flags, history
<1>16. CASE EndIgnoreData
  BY <1>16 DEF EndIgnoreData, NewsInv, slots, signals, network, history
<1>17. ASSUME NEW from, NEW to, EndRelinquish(from, to) PROVE NewsInv'
  BY <1>17, RelinquishKeepsNews DEF EndRelinquish
<1>18. QED
  BY <1>2, <1>4, <1>5, <1>6, <1>7, <1>8, <1>9, <1>10, <1>11, <1>12, <1>13, <1>14,
     <1>15, <1>16, <1>17 DEF Next, PortThread, ReadStep, EndStep

\* With reads of one kind the invariant of fresh messages holds.
THEOREM NewsInvariant ==
  ASSUME SteadyReads PROVE Spec => []NewsInv
<1>1. Init => NewsInv
  BY DEF Init, NewsInv, PollInv, InFlight, Unread
<1>2. InputInv /\ NewsInv /\ [Next]_vars => NewsInv'
  <2>1. ASSUME NewsInv, UNCHANGED vars PROVE NewsInv'
    BY <2>1 DEF NewsInv, PollInv, InFlight, Unread, vars, slots, flags, signals, network,
         history
  <2>2. QED BY <2>1, NewsStep
<1>3. QED BY <1>1, <1>2, InputInvariant, PTL DEF Spec

\* What Take does under the invariant.
LEMMA TakeDelivers ==
  ASSUME InputInv, NewsInv, Take
  PROVE  /\ content = NULL /\ content' # NULL
         /\ newest > delivered /\ delivered' = newest /\ UNCHANGED newest
<1>1. latest # NULL /\ data[latest] = newest /\ newest > delivered
  BY DEF Take, NewsInv, Unread
<1>2. content = NULL
  BY DEF Take, InputInv, Places
<1>3. content' = latest /\ delivered' = data[latest] /\ UNCHANGED newest
  BY <1>1 DEF Take, TakeLatest
<1>4. QED BY <1>1, <1>2, <1>3

\* A Read that succeeds returns a message newer than all that were returned
\* before, if the owner does not mix blocking and polling.
THEOREM SteadyReadReturnsNews ==
  ASSUME SteadyReads PROVE Spec => ReadReturnsNews
<1>1. InputInv /\ NewsInv /\ [Next]_vars
        => [Take => delivered' > delivered /\ content' # NULL]_vars
  BY TakeDelivers DEF InputInv, TypeOK
<1>2. QED BY <1>1, InputInvariant, NewsInvariant, PTL DEF Spec, ReadReturnsNews

\* Who changes what the owner of the port sees.
LEMMA OwnerSees ==
  ASSUME Next
  PROVE  Publish \/ Take \/ ReadRelinquish \/ UNCHANGED <<newest, delivered, content>>
<1>1. CASE ReceiveData \/ PortThread
  BY <1>1
     DEF ReceiveData, PortThread, StartData, WakeUp, RetryFill, FinishFill,
         Notify, OnReadReturn, ReceiveDetachAll, AskForEnd, TailSetInput,
         TailPost, history
<1>2. CASE StartRead \/ ReadStep
  BY <1>2
     DEF StartRead, ReadStep, CheckInput, InputSignalled, PollInput,
         CheckTerminated, history
<1>3. CASE StartEnd \/ EndStep
  BY <1>3
     DEF StartEnd, EndStep, EndRelinquish, Relinquish, EndIgnoreData, EndSay,
         EndDetachReceived, EndSignal, EndJoin, closerOnly, history
<1>4. QED BY <1>1, <1>2, <1>3 DEF Next

\* With blocking or with polling reads every buffering, with any number of
\* messages and End called from any thread, implements the mailbox: Publish is
\* Arrive, Take is Deliver, the Relinquish in Read is Release.
THEOREM SteadyReadsImplementMailbox ==
  ASSUME SteadyReads PROVE Spec => ImplementsMailbox
<1>1. Init => Abstract!Init
  BY DEF Init, Abstract!Init
<1>2. ASSUME InputInv, NewsInv, Next
      PROVE  Abstract!Next \/ UNCHANGED Abstract!mailboxVars
  <2>1. CASE Publish
    <3>1. CASE ignore_data
      BY <2>1, <3>1 DEF Publish, Abstract!mailboxVars
    <3>2. CASE ~ignore_data
      <4>1. newest' = arrived /\ UNCHANGED <<delivered, content>>
        BY <1>2, <2>1, <3>2 DEF Publish, NewsInv
      <4>2. arrived \in Nat /\ newest \in Nat /\ arrived > newest
        BY <1>2, <2>1, InputAssumption
           DEF Publish, InputInv, TypeOK, NewsInv, InFlight
      <4>3. Abstract!Arrive
        BY <4>1, <4>2 DEF Abstract!Arrive
      <4>4. QED BY <4>3 DEF Abstract!Next
    <3>3. QED BY <3>1, <3>2
  <2>2. CASE Take
    <3>1. Abstract!Deliver
      BY <1>2, <2>2, TakeDelivers DEF Abstract!Deliver
    <3>2. QED BY <3>1 DEF Abstract!Next
  <2>3. CASE ReadRelinquish
    <3>1. content' = NULL /\ UNCHANGED <<newest, delivered>>
      BY <2>3 DEF ReadRelinquish, DropContent, Relinquish, history
    <3>2. CASE content = NULL
      BY <3>1, <3>2 DEF Abstract!mailboxVars
    <3>3. CASE content # NULL
      BY <3>1, <3>3 DEF Abstract!Release, Abstract!Next
    <3>4. QED BY <3>2, <3>3
  <2>4. CASE UNCHANGED <<newest, delivered, content>>
    BY <2>4 DEF Abstract!mailboxVars
  <2>5. QED BY <1>2, <2>1, <2>2, <2>3, <2>4, OwnerSees
<1>3. UNCHANGED vars => UNCHANGED Abstract!mailboxVars
  BY DEF vars, history, Abstract!mailboxVars
<1>4. InputInv /\ NewsInv /\ [Next]_vars => [Abstract!Next]_(Abstract!mailboxVars)
  BY <1>2, <1>3
<1>5. QED
  BY <1>1, <1>4, InputInvariant, NewsInvariant, PTL
     DEF Spec, ImplementsMailbox, Abstract!Spec
=============================================================================
