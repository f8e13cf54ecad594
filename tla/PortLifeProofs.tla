--------------------------- MODULE PortLifeProofs ---------------------------
(***************************************************************************)
(* Proofs about PortLife, for a program that registers a port once, writes *)
(* only when Register has returned, may deactivate the port, and           *)
(* unregisters it; for any number of calls and messages, and whatever the  *)
(* name server refuses.                                                    *)
(***************************************************************************)
EXTENDS PortLife, TLAPS

LegalCalls == Calls \subseteq {"deactivate"}

(***************************************************************************)
(* The threads' records                                                    *)
(***************************************************************************)

\* Begin, AskForEnd and Join keep the type of the records.
LEMMA ThreadTypes ==
  ASSUME TypeOK, NEW t \in {"port", "tsender"}
  PROVE  LET Threads == [{"port", "tsender"} ->
                [running : BOOLEAN, asked : BOOLEAN, handle : BOOLEAN]]
         IN  /\ Begun(t) \in Threads
             /\ AskedForEnd(t) \in Threads
             /\ JoinedThread(t) \in Threads
BY DEF TypeOK, Begun, AskedForEnd, JoinedThread

\* A new thread passes the assertions of Begin.
LEMMA FreshBegins ==
  ASSUME NEW t, thread[t] = NoThread
  PROVE  MayBegin(t)
BY DEF MayBegin, NoThread

(***************************************************************************)
(* The steps of each thread keep the invariant                             *)
(***************************************************************************)

\* The owner's steps.
LEMMA OwnerStep ==
  ASSUME LegalCalls, LifeInv, CallOwner \/ Owner
  PROVE  LifeInv'
<1> USE DEF handshake, registration, sending, outside, history, Up, Starting,
            Ending, Registering, Unregistering
<1>1. /\ TypeOK /\ aborted = "no" /\ Baton /\ Pulses /\ Phases /\ Stages
  BY DEF LifeInv
<1>2. CASE Register
  <2>1. TypeOK'
    BY LegalCalls, <1>1, <1>2 DEF Register, TypeOK
  <2>2. aborted' = "no" /\ Baton'
    BY LegalCalls, <1>1, <1>2 DEF Register,
      Baton
  <2>3. Pulses'
    BY LegalCalls, <1>1, <1>2 DEF Register, Pulses
  <2>4. Phases'
    BY LegalCalls, <1>1, <1>2 DEF Register, Phases,
      MayRegister, LegalCalls
  <2>5. Stages'
    BY LegalCalls, <1>1, <1>2 DEF Register, Stages
  <2>6. QED BY <2>1, <2>2, <2>3, <2>4, <2>5 DEF LifeInv
<1>3. CASE Unregister
  <2>0. started' \in BOOLEAN
    BY Zenon, <1>1, <1>3 DEF Unregister
  <2>1. TypeOK'
    BY LegalCalls, <1>1, <1>3, <2>0 DEF Unregister, TypeOK
  <2>2. aborted' = "no" /\ Baton'
    BY LegalCalls, <1>1, <1>3 DEF Unregister,
      Baton
  <2>3. Pulses'
    BY LegalCalls, <1>1, <1>3 DEF Unregister, Pulses
  <2>4. Phases'
    BY LegalCalls, <1>1, <1>3 DEF Unregister, Phases,
      MayUnregister, LegalCalls
  <2>5. Stages'
    BY LegalCalls, <1>1, <1>3 DEF Unregister, Stages
  <2>6. QED BY <2>1, <2>2, <2>3, <2>4, <2>5 DEF LifeInv
<1>4. CASE Deactivate
  <2>1. TypeOK'
    BY <1>1, <1>4 DEF Deactivate, TypeOK
  <2>2. aborted' = "no" /\ Baton'
    BY <1>1, <1>4 DEF Deactivate, Baton
  <2>3. Pulses'
    BY <1>1, <1>4 DEF Deactivate, Pulses
  <2>4. Phases'
    BY <1>1, <1>4 DEF Deactivate, Phases
  <2>5. Stages'
    BY <1>1, <1>4 DEF Deactivate, Stages
  <2>6. QED BY <2>1, <2>2, <2>3, <2>4, <2>5 DEF LifeInv
<1>5. CASE TakeToken
  <2>1. TypeOK'
    BY <1>1, <1>5 DEF TakeToken, TypeOK
  <2>2. aborted' = "no" /\ Baton'
    BY <1>1, <1>5 DEF TakeToken, Baton,
      TypeOK
  <2>3. Pulses'
    BY <1>1, <1>5 DEF TakeToken, Pulses
  <2>4. Phases'
    BY <1>1, <1>5 DEF TakeToken, Phases
  <2>5. Stages'
    BY <1>1, <1>5 DEF TakeToken, Stages
  <2>6. QED BY <2>1, <2>2, <2>3, <2>4, <2>5 DEF LifeInv
<1>6. CASE Begin
  <2>1. TypeOK'
    BY <1>1, <1>6 DEF Begin, TypeOK
  <2>2. aborted' = "no" /\ Baton'
    BY <1>1, <1>6 DEF Begin, Baton
  <2>3. Pulses'
    BY <1>1, <1>6 DEF Begin, Pulses
  <2>4. Phases'
    BY <1>1, <1>6 DEF Begin, Phases
  <2>5. Stages'
    BY <1>1, <1>6 DEF Begin, Stages
  <2>6. QED BY <2>1, <2>2, <2>3, <2>4, <2>5 DEF LifeInv
<1>7. CASE Spawn
  <2>0. MayBegin("port")
    BY <1>1, <1>7, FreshBegins DEF Spawn, Phases, TypeOK
  <2>1. TypeOK'
    BY <1>1, <1>7, <2>0, ThreadTypes DEF Spawn, TypeOK
  <2>2. aborted' = "no" /\ Baton'
    BY <1>1, <1>7, <2>0 DEF Spawn, TypeOK,
      Baton, Pulses, Phases, Stages, Begun, NoThread
  <2>3. Pulses'
    BY <1>1, <1>7, <2>0 DEF Spawn, Pulses, TypeOK, Begun
  <2>4. Phases'
    BY <1>1, <1>7, <2>0 DEF Spawn, TypeOK, Baton, Pulses,
      Phases, Stages, Begun, NoThread
  <2>5. Stages'
    BY <1>1, <1>7, <2>0 DEF Spawn, Stages, TypeOK, Phases,
      Begun
  <2>6. QED BY <2>1, <2>2, <2>3, <2>4, <2>5 DEF LifeInv
<1>8. CASE RegisterResult
  <2>1. TypeOK'
    BY <1>1, <1>8 DEF RegisterResult, TypeOK, PortAnswered
  <2>2. aborted' = "no" /\ Baton'
    BY <1>1, <1>8 DEF RegisterResult, Baton
  <2>3. Pulses'
    BY <1>1, <1>8 DEF RegisterResult, Pulses
  <2>4. Phases'
    BY <1>1, <1>8 DEF RegisterResult, Phases, TypeOK, Baton,
      PortAnswered
  <2>5. Stages'
    BY <1>1, <1>8 DEF RegisterResult, Stages
  <2>6. QED BY <2>1, <2>2, <2>3, <2>4, <2>5 DEF LifeInv
<1>9. CASE Locate("locate", "say_end")
  <2>1. TypeOK'
    BY <1>1, <1>9 DEF Locate, TypeOK
  <2>2. aborted' = "no" /\ Baton'
    BY <1>1, <1>9 DEF Locate, Baton
  <2>3. Pulses'
    BY <1>1, <1>9 DEF Locate, Pulses
  <2>4. Phases'
    BY <1>1, <1>9 DEF Locate, Phases
  <2>5. Stages'
    BY <1>1, <1>9 DEF Locate, Stages
  <2>6. QED BY <2>1, <2>2, <2>3, <2>4, <2>5 DEF LifeInv
<1>10. CASE SayEnd
  <2>1. TypeOK'
    BY <1>1, <1>10 DEF SayEnd, TypeOK
  <2>2. aborted' = "no" /\ Baton'
    BY <1>1, <1>10 DEF SayEnd, Baton
  <2>3. Pulses'
    BY <1>1, <1>10 DEF SayEnd, Pulses
  <2>4. Phases'
    BY <1>1, <1>10 DEF SayEnd, Phases
  <2>5. Stages'
    BY <1>1, <1>10 DEF SayEnd, Stages
  <2>6. QED BY <2>1, <2>2, <2>3, <2>4, <2>5 DEF LifeInv
<1>11. CASE MessageReceived
  <2>0. complete_msg_thread' \in BOOLEAN
    BY Zenon, <1>1, <1>11 DEF MessageReceived
  <2>1. TypeOK'
    BY <1>1, <1>11, <2>0 DEF MessageReceived, TypeOK
  <2>2. aborted' = "no" /\ Baton'
    BY <1>1, <1>11 DEF MessageReceived, Baton
  <2>3. Pulses'
    BY <1>1, <1>11 DEF MessageReceived, Pulses
  <2>4. Phases'
    BY <1>1, <1>11 DEF MessageReceived, Phases
  <2>5. Stages'
    BY <1>1, <1>11 DEF MessageReceived, Stages
  <2>6. QED BY <2>1, <2>2, <2>3, <2>4, <2>5 DEF LifeInv
<1>12. CASE SignalTerminate
  <2>1. TypeOK'
    BY <1>1, <1>12 DEF SignalTerminate, TypeOK
  <2>2. aborted' = "no" /\ Baton'
    BY <1>1, <1>12 DEF SignalTerminate, Baton
  <2>3. Pulses'
    BY <1>1, <1>12 DEF SignalTerminate, Pulses
  <2>4. Phases'
    BY <1>1, <1>12 DEF SignalTerminate, Phases, TypeOK
  <2>5. Stages'
    BY <1>1, <1>12 DEF SignalTerminate, Stages
  <2>6. QED BY <2>1, <2>2, <2>3, <2>4, <2>5 DEF LifeInv
<1>13. CASE JoinPort
  <2>1. TypeOK'
    BY <1>1, <1>13, ThreadTypes DEF JoinPort, TypeOK, Returned
  <2>2. aborted' = "no" /\ Baton'
    BY <1>1, <1>13 DEF JoinPort, Baton
  <2>3. Pulses'
    BY <1>1, <1>13 DEF JoinPort, Pulses, TypeOK, JoinedThread,
      Returned
  <2>4. Phases'
    <3>1. result = "registered" /\ ~complete_terminate
      BY <1>1, <1>13 DEF JoinPort, TypeOK, Phases, Returned
    <3>2. QED BY <1>1, <1>13, <3>1 DEF JoinPort, TypeOK, Phases
  <2>5. Stages'
    BY <1>1, <1>13 DEF JoinPort, Stages, TypeOK, JoinedThread,
      Returned
  <2>6. QED BY <2>1, <2>2, <2>3, <2>4, <2>5 DEF LifeInv
<1>14. CASE TakeForGood
  <2>1. TypeOK'
    BY <1>1, <1>14 DEF TakeForGood, TypeOK
  <2>2. aborted' = "no" /\ Baton'
    BY <1>1, <1>14 DEF TakeForGood, Baton,
      TypeOK
  <2>3. Pulses'
    BY <1>1, <1>14 DEF TakeForGood, Pulses
  <2>4. Phases'
    BY <1>1, <1>14 DEF TakeForGood, Phases
  <2>5. Stages'
    BY <1>1, <1>14 DEF TakeForGood, Stages
  <2>6. QED BY <2>1, <2>2, <2>3, <2>4, <2>5 DEF LifeInv
<1>15. CASE Locate("locate_say", "say")
  <2>1. TypeOK'
    BY <1>1, <1>15 DEF Locate, TypeOK
  <2>2. aborted' = "no" /\ Baton'
    BY <1>1, <1>15 DEF Locate, Baton
  <2>3. Pulses'
    BY <1>1, <1>15 DEF Locate, Pulses
  <2>4. Phases'
    BY <1>1, <1>15 DEF Locate, Phases
  <2>5. Stages'
    BY <1>1, <1>15 DEF Locate, Stages
  <2>6. QED BY <2>1, <2>2, <2>3, <2>4, <2>5 DEF LifeInv
<1>16. CASE SayDetachAll
  <2>1. TypeOK'
    BY <1>1, <1>16 DEF SayDetachAll, TypeOK
  <2>2. aborted' = "no" /\ Baton'
    BY <1>1, <1>16 DEF SayDetachAll, Baton
  <2>3. Pulses'
    BY <1>1, <1>16 DEF SayDetachAll, Pulses
  <2>4. Phases'
    BY <1>1, <1>16 DEF SayDetachAll, Phases
  <2>5. Stages'
    BY <1>1, <1>16 DEF SayDetachAll, Stages
  <2>6. QED BY <2>1, <2>2, <2>3, <2>4, <2>5 DEF LifeInv
<1>17. QED BY <1>2, <1>3, <1>4, <1>5, <1>6, <1>7, <1>8, <1>9, <1>10, <1>11,
         <1>12, <1>13, <1>14, <1>15, <1>16 DEF CallOwner, Owner

\* The writer's steps.
LEMMA WriterStep ==
  ASSUME LegalCalls, LifeInv, Write \/ Share \/ PulseGo
  PROVE  LifeInv'
<1> USE DEF handshake, registration, sending, outside, history, Up, Starting,
            Ending, Registering, Unregistering
<1>1. /\ TypeOK /\ aborted = "no" /\ Baton /\ Pulses /\ Phases /\ Stages
  BY DEF LifeInv
<1>2. CASE Write
  <2>1. TypeOK'
    BY LegalCalls, <1>1, <1>2 DEF Write, TypeOK
  <2>2. aborted' = "no" /\ Baton'
    BY LegalCalls, <1>1, <1>2 DEF Write,
      Baton
  <2>3. Pulses'
    BY LegalCalls, <1>1, <1>2 DEF Write, Pulses
  <2>4. Phases'
    BY LegalCalls, <1>1, <1>2 DEF Write, Phases, LegalCalls
  <2>5. Stages'
    BY LegalCalls, <1>1, <1>2 DEF Write, Stages
  <2>6. QED BY <2>1, <2>2, <2>3, <2>4, <2>5 DEF LifeInv
<1>3. CASE Share
  <2>1. TypeOK'
    BY <1>1, <1>3 DEF Share, TypeOK
  <2>2. aborted' = "no" /\ Baton'
    BY <1>1, <1>3 DEF Share, Baton, TypeOK
  <2>3. Pulses'
    BY <1>1, <1>3 DEF Share, Pulses, TypeOK, Phases, Baton
  <2>4. Phases'
    BY <1>1, <1>3 DEF Share, Phases
  <2>5. Stages'
    BY <1>1, <1>3 DEF Share, Stages
  <2>6. QED BY <2>1, <2>2, <2>3, <2>4, <2>5 DEF LifeInv
<1>4. CASE PulseGo
  <2>1. TypeOK'
    BY <1>1, <1>4 DEF PulseGo, TypeOK
  <2>2. aborted' = "no" /\ Baton'
    BY <1>1, <1>4 DEF PulseGo, Baton
  <2>3. Pulses'
    BY <1>1, <1>4 DEF PulseGo, Pulses, TypeOK, Phases, Baton
  <2>4. Phases'
    BY <1>1, <1>4 DEF PulseGo, Phases
  <2>5. Stages'
    BY <1>1, <1>4 DEF PulseGo, Stages
  <2>6. QED BY <2>1, <2>2, <2>3, <2>4, <2>5 DEF LifeInv
<1>5. QED BY <1>2, <1>3, <1>4

\* The port thread's steps.
LEMMA PortStep ==
  ASSUME LegalCalls, LifeInv, PortThread
  PROVE  LifeInv'
<1> USE DEF handshake, registration, sending, outside, history, Up, Starting,
            Ending, Registering, Unregistering
<1>1. /\ TypeOK /\ aborted = "no" /\ Baton /\ Pulses /\ Phases /\ Stages
  BY DEF LifeInv
<1>2. CASE StartBody
  <2>1. TypeOK'
    BY <1>1, <1>2 DEF StartBody, TypeOK
  <2>2. aborted' = "no" /\ Baton'
    BY <1>1, <1>2 DEF StartBody, Baton
  <2>3. Pulses'
    BY <1>1, <1>2 DEF StartBody, Pulses
  <2>4. Phases'
    BY <1>1, <1>2 DEF StartBody, Phases
  <2>5. Stages'
    BY <1>1, <1>2 DEF StartBody, Stages
  <2>6. QED BY <2>1, <2>2, <2>3, <2>4, <2>5 DEF LifeInv
<1>3. CASE RegisterFails
  <2>0. name_set' \in BOOLEAN /\ asleep' \in BOOLEAN
    BY Zenon, <1>1, <1>3 DEF RegisterFails, Answer
  <2>1. TypeOK'
    BY <1>1, <1>3, <2>0 DEF RegisterFails, TypeOK, Baton,
      Phases, Answer
  <2>2. aborted' = "no" /\ Baton'
    BY <1>1, <1>3 DEF RegisterFails, Baton,
      TypeOK, Phases, Answer
  <2>3. Pulses'
    BY <1>1, <1>3 DEF RegisterFails, Pulses
  <2>4. Phases'
    BY <1>1, <1>3 DEF RegisterFails, Phases
  <2>5. Stages'
    BY <1>1, <1>3 DEF RegisterFails, Stages
  <2>6. QED BY <2>1, <2>2, <2>3, <2>4, <2>5 DEF LifeInv
<1>4. CASE BodyFails
  <2>0. started' \in BOOLEAN
    BY Zenon, <1>1, <1>4 DEF BodyFails
  <2>1. TypeOK'
    BY <1>1, <1>4, <2>0 DEF BodyFails, TypeOK
  <2>2. aborted' = "no" /\ Baton'
    BY <1>1, <1>4 DEF BodyFails, Baton
  <2>3. Pulses'
    BY <1>1, <1>4 DEF BodyFails, Pulses
  <2>4. Phases'
    BY <1>1, <1>4 DEF BodyFails, Phases
  <2>5. Stages'
    BY <1>1, <1>4 DEF BodyFails, Stages
  <2>6. QED BY <2>1, <2>2, <2>3, <2>4, <2>5 DEF LifeInv
<1>5. CASE RegisterName
  <2>1. TypeOK'
    BY <1>1, <1>5 DEF RegisterName, TypeOK
  <2>2. aborted' = "no" /\ Baton'
    BY <1>1, <1>5 DEF RegisterName, Baton
  <2>3. Pulses'
    BY <1>1, <1>5 DEF RegisterName, Pulses
  <2>4. Phases'
    BY <1>1, <1>5 DEF RegisterName, Phases
  <2>5. Stages'
    BY <1>1, <1>5 DEF RegisterName, Stages
  <2>6. QED BY <2>1, <2>2, <2>3, <2>4, <2>5 DEF LifeInv
<1>6. CASE StartTsender
  <2>0. MayBegin("tsender")
    BY <1>1, <1>6, FreshBegins DEF StartTsender, Phases, Stages, Up, TypeOK
  <2>1. TypeOK'
    BY <1>1, <1>6, <2>0, ThreadTypes DEF StartTsender, TypeOK
  <2>2. aborted' = "no" /\ Baton'
    BY <1>1, <1>6, <2>0 DEF StartTsender,
      Baton
  <2>3. Pulses'
    BY <1>1, <1>6, <2>0 DEF StartTsender, Pulses, TypeOK,
      Phases, Begun
  <2>4. Phases'
    BY <1>1, <1>6, <2>0 DEF StartTsender, Phases, TypeOK, Begun
  <2>5. Stages'
    BY <1>1, <1>6, <2>0 DEF StartTsender, Stages, TypeOK,
      Phases, Begun
  <2>6. QED BY <2>1, <2>2, <2>3, <2>4, <2>5 DEF LifeInv
<1>7. CASE AnswerOwner
  <2>0. asleep' \in BOOLEAN
    BY Zenon, <1>1, <1>7 DEF AnswerOwner, Answer
  <2>1. TypeOK'
    BY <1>1, <1>7, <2>0 DEF AnswerOwner, TypeOK, Baton, Phases,
      Answer
  <2>2. aborted' = "no" /\ Baton'
    BY <1>1, <1>7 DEF AnswerOwner, Baton,
      TypeOK, Phases, Answer
  <2>3. Pulses'
    BY <1>1, <1>7 DEF AnswerOwner, Pulses
  <2>4. Phases'
    BY <1>1, <1>7 DEF AnswerOwner, Phases
  <2>5. Stages'
    BY <1>1, <1>7 DEF AnswerOwner, Stages
  <2>6. QED BY <2>1, <2>2, <2>3, <2>4, <2>5 DEF LifeInv
<1>8. CASE ReceiveDetachAll
  <2>1. TypeOK'
    BY <1>1, <1>8 DEF ReceiveDetachAll, TypeOK, SignalReceived
  <2>2. aborted' = "no" /\ Baton'
    BY <1>1, <1>8 DEF ReceiveDetachAll, Baton
  <2>3. Pulses'
    BY <1>1, <1>8 DEF ReceiveDetachAll, Pulses
  <2>4. Phases'
    BY <1>1, <1>8 DEF ReceiveDetachAll, Phases
  <2>5. Stages'
    BY <1>1, <1>8 DEF ReceiveDetachAll, Stages
  <2>6. QED BY <2>1, <2>2, <2>3, <2>4, <2>5 DEF LifeInv
<1>9. CASE Terminate
  <2>0. complete_terminate' \in BOOLEAN
    BY Zenon, <1>1, <1>9 DEF Terminate
  <2>1. TypeOK'
    BY <1>1, <1>9, <2>0, ThreadTypes DEF Terminate, TypeOK
  <2>2. aborted' = "no" /\ Baton'
    BY <1>1, <1>9 DEF Terminate, Baton
  <2>3. Pulses'
    BY <1>1, <1>9 DEF Terminate, Pulses, TypeOK, AskedForEnd
  <2>4. Phases'
    BY <1>1, <1>9 DEF Terminate, Phases
  <2>5. Stages'
    BY <1>1, <1>9 DEF Terminate, Stages
  <2>6. QED BY <2>1, <2>2, <2>3, <2>4, <2>5 DEF LifeInv
<1>10. CASE EndTsender
  <2>1. TypeOK'
    BY <1>1, <1>10, ThreadTypes DEF EndTsender, TypeOK
  <2>2. aborted' = "no" /\ Baton'
    BY <1>1, <1>10 DEF EndTsender, Baton
  <2>3. Pulses'
    BY <1>1, <1>10 DEF EndTsender, Pulses, TypeOK, AskedForEnd
  <2>4. Phases'
    BY <1>1, <1>10 DEF EndTsender, Phases, TypeOK, AskedForEnd
  <2>5. Stages'
    BY <1>1, <1>10 DEF EndTsender, Stages, TypeOK, AskedForEnd
  <2>6. QED BY <2>1, <2>2, <2>3, <2>4, <2>5 DEF LifeInv
<1>11. CASE PulseTsender
  <2>1. TypeOK'
    BY <1>1, <1>11 DEF PulseTsender, TypeOK
  <2>2. aborted' = "no" /\ Baton'
    BY <1>1, <1>11 DEF PulseTsender, Baton
  <2>3. Pulses'
    BY <1>1, <1>11 DEF PulseTsender, Pulses, TypeOK, Phases,
      Stages
  <2>4. Phases'
    BY <1>1, <1>11 DEF PulseTsender, Phases
  <2>5. Stages'
    BY <1>1, <1>11 DEF PulseTsender, Stages
  <2>6. QED BY <2>1, <2>2, <2>3, <2>4, <2>5 DEF LifeInv
<1>12. CASE JoinTsender
  <2>1. TypeOK'
    BY <1>1, <1>12, ThreadTypes DEF JoinTsender, TypeOK,
      Returned
  <2>2. aborted' = "no" /\ Baton'
    BY <1>1, <1>12 DEF JoinTsender, Baton
  <2>3. Pulses'
    BY <1>1, <1>12 DEF JoinTsender, Pulses, TypeOK,
      JoinedThread, Returned
  <2>4. Phases'
    BY <1>1, <1>12 DEF JoinTsender, Phases, TypeOK,
      JoinedThread, Returned
  <2>5. Stages'
    BY <1>1, <1>12 DEF JoinTsender, Stages, TypeOK, Phases,
      JoinedThread, Returned
  <2>6. QED BY <2>1, <2>2, <2>3, <2>4, <2>5 DEF LifeInv
<1>13. CASE CloseAll
  <2>0. listening' \in BOOLEAN
    BY Zenon, <1>1, <1>13 DEF CloseAll
  <2>1. TypeOK'
    BY <1>1, <1>13, <2>0 DEF CloseAll, TypeOK
  <2>2. aborted' = "no" /\ Baton'
    BY <1>1, <1>13 DEF CloseAll, Baton
  <2>3. Pulses'
    BY <1>1, <1>13 DEF CloseAll, Pulses
  <2>4. Phases'
    BY <1>1, <1>13 DEF CloseAll, Phases
  <2>5. Stages'
    BY <1>1, <1>13 DEF CloseAll, Stages
  <2>6. QED BY <2>1, <2>2, <2>3, <2>4, <2>5 DEF LifeInv
<1>14. CASE UnregisterName
  <2>0. registered' \in BOOLEAN
    BY Zenon, <1>1, <1>14 DEF UnregisterName
  <2>1. TypeOK'
    BY <1>1, <1>14, <2>0 DEF UnregisterName, TypeOK
  <2>2. aborted' = "no" /\ Baton'
    BY <1>1, <1>14 DEF UnregisterName, Baton
  <2>3. Pulses'
    BY <1>1, <1>14 DEF UnregisterName, Pulses
  <2>4. Phases'
    BY <1>1, <1>14 DEF UnregisterName, Phases
  <2>5. Stages'
    BY <1>1, <1>14 DEF UnregisterName, Stages
  <2>6. QED BY <2>1, <2>2, <2>3, <2>4, <2>5 DEF LifeInv
<1>15. QED BY <1>2, <1>3, <1>4, <1>5, <1>6, <1>7, <1>8, <1>9, <1>10, <1>11,
         <1>12, <1>13, <1>14 DEF PortThread

\* The sender thread's steps.
LEMMA TsenderStep ==
  ASSUME LegalCalls, LifeInv, Tsender
  PROVE  LifeInv'
<1> USE DEF handshake, registration, sending, outside, history, Up, Starting,
            Ending, Registering, Unregistering
<1>1. /\ TypeOK /\ aborted = "no" /\ Baton /\ Pulses /\ Phases /\ Stages
  BY DEF LifeInv
<1>2. CASE TsenderHead
  <2>0. owner_set' \in BOOLEAN
    BY Zenon, <1>1, <1>2 DEF TsenderHead, TypeOK
  <2>1. TypeOK'
    BY <1>1, <1>2, <2>0 DEF TsenderHead, TypeOK
  <2>2. aborted' = "no" /\ Baton'
    BY <1>1, <1>2 DEF TsenderHead, Baton
  <2>3. Pulses'
    BY <1>1, <1>2 DEF TsenderHead, Pulses
  <2>4. Phases'
    BY <1>1, <1>2 DEF TsenderHead, Phases
  <2>5. Stages'
    BY <1>1, <1>2 DEF TsenderHead, Stages
  <2>6. QED BY <2>1, <2>2, <2>3, <2>4, <2>5 DEF LifeInv
<1>3. CASE TsenderWait
  <2>1. TypeOK'
    BY <1>1, <1>3 DEF TsenderWait, TypeOK
  <2>2. aborted' = "no" /\ Baton'
    BY <1>1, <1>3 DEF TsenderWait, Baton
  <2>3. Pulses'
    BY <1>1, <1>3 DEF TsenderWait, Pulses
  <2>4. Phases'
    BY <1>1, <1>3 DEF TsenderWait, Phases
  <2>5. Stages'
    BY <1>1, <1>3 DEF TsenderWait, Stages
  <2>6. QED BY <2>1, <2>2, <2>3, <2>4, <2>5 DEF LifeInv
<1>4. CASE TsenderWoken
  <2>1. TypeOK'
    BY <1>1, <1>4 DEF TsenderWoken, TypeOK
  <2>2. aborted' = "no" /\ Baton'
    BY <1>1, <1>4 DEF TsenderWoken, TypeOK,
      Baton, Pulses, Phases, Stages, NoThread
  <2>3. Pulses'
    BY <1>1, <1>4 DEF TsenderWoken, Pulses
  <2>4. Phases'
    BY <1>1, <1>4 DEF TsenderWoken, Phases
  <2>5. Stages'
    BY <1>1, <1>4 DEF TsenderWoken, Stages
  <2>6. QED BY <2>1, <2>2, <2>3, <2>4, <2>5 DEF LifeInv
<1>5. CASE Distribute
  <2>0. p_sendable' \in BOOLEAN
    BY Zenon, <1>1, <1>5 DEF Distribute
  <2>1. TypeOK'
    BY <1>1, <1>5, <2>0 DEF Distribute, TypeOK, Baton
  <2>2. aborted' = "no" /\ Baton'
    BY <1>1, <1>5 DEF Distribute, Baton,
      Phases
  <2>3. Pulses'
    BY <1>1, <1>5 DEF Distribute, Pulses
  <2>4. Phases'
    BY <1>1, <1>5 DEF Distribute, Phases
  <2>5. Stages'
    BY <1>1, <1>5 DEF Distribute, Stages
  <2>6. QED BY <2>1, <2>2, <2>3, <2>4, <2>5 DEF LifeInv
<1>6. QED BY <1>2, <1>3, <1>4, <1>5 DEF Tsender

(***************************************************************************)
(* The inductive invariant and what follows from it                        *)
(***************************************************************************)

\* The initial states satisfy it.
LEMMA InitLifeInv == Init => LifeInv
<1> SUFFICES ASSUME Init PROVE LifeInv
  OBVIOUS
<1> USE DEF Up, Starting, Ending, Registering, Unregistering
<1>1. TypeOK
  BY DEF Init, TypeOK, NoThread
<1>2. aborted = "no" /\ Baton /\ Pulses /\ Phases /\ Stages
  BY DEF Init, Baton, Pulses, Phases, Stages, NoThread
<1>3. QED BY <1>1, <1>2 DEF LifeInv

\* A step that changes nothing keeps it.
LEMMA StutterLifeInv ==
  ASSUME LifeInv, UNCHANGED vars
  PROVE  LifeInv'
BY DEF LifeInv, TypeOK, Baton, Pulses, Phases, Stages, vars, handshake,
       registration, sending, outside, history

LEMMA LifeInvariant ==
  ASSUME LegalCalls
  PROVE  Spec => []LifeInv
<1>1. LifeInv /\ [Next]_vars => LifeInv'
  <2> SUFFICES ASSUME LifeInv, [Next]_vars PROVE LifeInv'
    OBVIOUS
  <2>1. CASE Next
    BY <2>1, OwnerStep, WriterStep, PortStep, TsenderStep DEF Next
  <2>2. CASE UNCHANGED vars
    BY <2>2, StutterLifeInv
  <2>3. QED BY <2>1, <2>2
<1>2. QED BY <1>1, InitLifeInv, PTL DEF Spec

\* Every variable keeps its type; okay_to_send is a binary semaphore although
\* the port thread, the sender thread and the owner all post it.
THEOREM LifeTypeCorrect ==
  ASSUME LegalCalls
  PROVE  Spec => []TypeOK
<1>1. LifeInv => TypeOK
  BY DEF LifeInv
<1>2. QED BY <1>1, LifeInvariant, PTL

\* The token that registration and sending share (Port::SetName, Port::Share)
\* is never free while a message waits for the sender thread.
THEOREM TokenKept ==
  ASSUME LegalCalls
  PROVE  Spec => []TokenMeansSent
<1>1. LifeInv => TokenMeansSent
  BY DEF LifeInv, TypeOK, Baton, TokenMeansSent
<1>2. QED BY <1>1, LifeInvariant, PTL

\* What Register and Unregister report agrees with the name server, the input
\* endpoint and the sender thread.
THEOREM ResultKept ==
  ASSUME LegalCalls
  PROVE  Spec => []ResultTrue
<1>1. LifeInv => ResultTrue
  BY DEF LifeInv, TypeOK, Phases, Stages, ResultTrue, Up, Starting, Ending,
         Registering
<1>2. QED BY <1>1, LifeInvariant, PTL

\* A program that registers its port once never meets the assertions of
\* YARPBareThread::Begin; one that tries again after a failure does (run
\* LifeRetry).
THEOREM BeginsOnce ==
  ASSUME LegalCalls
  PROVE  Spec => []BeginAssertion
<1>1. LifeInv => BeginAssertion
  BY DEF LifeInv, BeginAssertion
<1>2. QED BY <1>1, LifeInvariant, PTL

(***************************************************************************)
(* Every call is answered                                                  *)
(***************************************************************************)

\* The owner's steps keep what will answer.
LEMMA OwnerAnswers ==
  ASSUME LegalCalls, "locate" \notin Failures, LifeInv, Answers,
         CallOwner \/ Owner
  PROVE  Answers'
<1> USE DEF handshake, registration, sending, outside, history, Up, Starting,
            Ending, Registering, Unregistering
<1>1. TypeOK /\ Baton /\ Phases /\ Stages
  BY DEF LifeInv
<1>2. CASE Register
  BY <1>1, <1>2 DEF Register, MayRegister, LegalCalls, Answers, TypeOK, Baton, Phases, Stages
<1>3. CASE TakeToken
  BY <1>1, <1>3 DEF TakeToken, Answers, TypeOK, Baton, Phases, Stages
<1>4. CASE Begin
  BY <1>1, <1>4 DEF Begin, Answers, TypeOK, Baton, Phases, Stages
<1>5. CASE Spawn
  BY <1>1, <1>5 DEF Spawn, MayBegin, Begun, Answers, TypeOK, Baton, Phases, Stages
<1>6. CASE RegisterResult
  BY <1>1, <1>6 DEF RegisterResult, PortAnswered, Answers, TypeOK, Baton, Phases, Stages
<1>7. CASE Unregister
  BY <1>1, <1>7 DEF Unregister, Answers, TypeOK, Baton, Phases, Stages
<1>8. CASE Locate("locate", "say_end") \/ Locate("locate_say", "say")
  BY <1>1, <1>8 DEF Locate, Reachable, Answers, TypeOK, Baton, Phases, Stages
<1>9. CASE SayEnd
  BY <1>1, <1>9 DEF SayEnd, Answers, TypeOK, Baton, Phases, Stages
<1>10. CASE MessageReceived
  BY <1>1, <1>10 DEF MessageReceived, Answers, TypeOK, Baton, Phases, Stages
<1>11. CASE SignalTerminate
  BY <1>1, <1>11 DEF SignalTerminate, Answers, TypeOK, Baton, Phases, Stages
<1>12. CASE JoinPort
  BY <1>1, <1>12 DEF JoinPort, JoinedThread, Returned, Answers, TypeOK, Baton, Phases, Stages
<1>13. CASE Deactivate
  BY <1>1, <1>13 DEF Deactivate, Answers, TypeOK, Baton, Phases, Stages
<1>14. CASE TakeForGood
  BY <1>1, <1>14 DEF TakeForGood, Answers, TypeOK, Baton, Phases, Stages
<1>15. CASE SayDetachAll
  BY <1>1, <1>15 DEF SayDetachAll, Answers, TypeOK, Baton, Phases, Stages
<1>16. QED BY <1>2, <1>3, <1>4, <1>5, <1>6, <1>7, <1>8, <1>9, <1>10, <1>11, <1>12, <1>13, <1>14, <1>15
       DEF CallOwner, Owner

\* The port thread's steps.
LEMMA PortAnswers ==
  ASSUME LegalCalls, "locate" \notin Failures, LifeInv, Answers,
         PortThread
  PROVE  Answers'
<1> USE DEF handshake, registration, sending, outside, history, Up, Starting,
            Ending, Registering, Unregistering
<1>1. TypeOK /\ Baton /\ Phases /\ Stages
  BY DEF LifeInv
<1>2. CASE StartBody
  BY <1>1, <1>2 DEF StartBody, Answers, TypeOK, Baton, Phases, Stages
<1>3. CASE RegisterFails
  BY <1>1, <1>3 DEF RegisterFails, Answer, Answers, TypeOK, Baton, Phases, Stages
<1>4. CASE BodyFails
  BY <1>1, <1>4 DEF BodyFails, Answers, TypeOK, Baton, Phases, Stages
<1>5. CASE RegisterName
  BY <1>1, <1>5 DEF RegisterName, Answers, TypeOK, Baton, Phases, Stages
<1>6. CASE StartTsender
  BY <1>1, <1>6 DEF StartTsender, MayBegin, Begun, Answers, TypeOK, Baton, Phases, Stages
<1>7. CASE AnswerOwner
  BY <1>1, <1>7 DEF AnswerOwner, Answer, Answers, TypeOK, Baton, Phases, Stages
<1>8. CASE ReceiveDetachAll
  BY <1>1, <1>8 DEF ReceiveDetachAll, SignalReceived, Answers, TypeOK, Baton, Phases, Stages
<1>9. CASE Terminate
  BY <1>1, <1>9 DEF Terminate, AskedForEnd, Answers, TypeOK, Baton, Phases, Stages
<1>10. CASE EndTsender
  BY <1>1, <1>10 DEF EndTsender, AskedForEnd, Answers, TypeOK, Baton, Phases, Stages
<1>11. CASE PulseTsender
  BY <1>1, <1>11 DEF PulseTsender, Answers, TypeOK, Baton, Phases, Stages
<1>12. CASE JoinTsender
  BY <1>1, <1>12 DEF JoinTsender, JoinedThread, Returned, Answers, TypeOK, Baton, Phases, Stages
<1>13. CASE CloseAll
  BY <1>1, <1>13 DEF CloseAll, Answers, TypeOK, Baton, Phases, Stages
<1>14. CASE UnregisterName
  BY <1>1, <1>14 DEF UnregisterName, Answers, TypeOK, Baton, Phases, Stages
<1>15. QED BY <1>2, <1>3, <1>4, <1>5, <1>6, <1>7, <1>8, <1>9, <1>10, <1>11, <1>12, <1>13, <1>14
       DEF PortThread

\* The writer's and the sender thread's steps.
LEMMA OtherAnswers ==
  ASSUME LegalCalls, "locate" \notin Failures, LifeInv, Answers,
         Write \/ Share \/ PulseGo \/ Tsender
  PROVE  Answers'
<1> USE DEF handshake, registration, sending, outside, history, Up, Starting,
            Ending, Registering, Unregistering
<1>1. TypeOK /\ Baton /\ Phases /\ Stages
  BY DEF LifeInv
<1>2. CASE Write
  BY <1>1, <1>2 DEF Write, LegalCalls, Answers, TypeOK, Baton, Phases, Stages
<1>3. CASE Share
  BY <1>1, <1>3 DEF Share, Answers, TypeOK, Baton, Phases, Stages
<1>4. CASE PulseGo
  BY <1>1, <1>4 DEF PulseGo, Answers, TypeOK, Baton, Phases, Stages
<1>5. CASE TsenderHead
  BY <1>1, <1>5 DEF TsenderHead, Answers, TypeOK, Baton, Phases, Stages
<1>6. CASE TsenderWait
  BY <1>1, <1>6 DEF TsenderWait, Answers, TypeOK, Baton, Phases, Stages
<1>7. CASE TsenderWoken
  BY <1>1, <1>7 DEF TsenderWoken, Answers, TypeOK, Baton, Phases, Stages
<1>8. CASE Distribute
  BY <1>1, <1>8 DEF Distribute, Answers, TypeOK, Baton, Phases, Stages
<1>9. QED BY <1>2, <1>3, <1>4, <1>5, <1>6, <1>7, <1>8 DEF Tsender

\* What the owner and the port thread wait for is there or on its way.
THEOREM CallsGetAnswers ==
  ASSUME LegalCalls, "locate" \notin Failures
  PROVE  Spec => []CallsAreAnswered
<1>1. Init => Answers
  BY DEF Init, Answers, Up, Starting, Ending, NoThread
<1>2. LifeInv /\ Answers /\ [Next]_vars => Answers'
  <2> SUFFICES ASSUME LifeInv, Answers, [Next]_vars PROVE Answers'
    OBVIOUS
  <2>1. CASE Next
    BY <2>1, OwnerAnswers, PortAnswers, OtherAnswers DEF Next
  <2>2. CASE UNCHANGED vars
    BY <2>2
       DEF Answers, vars, handshake, registration, sending, outside, history
  <2>3. QED BY <2>1, <2>2
<1>3. LifeInv /\ Answers => CallsAreAnswered
  BY DEF LifeInv, TypeOK, Phases, Stages, Answers, CallsAreAnswered, Up, Starting,
         Ending, Registering, Unregistering
<1>4. QED BY <1>1, <1>2, <1>3, LifeInvariant, PTL DEF Spec
=============================================================================
