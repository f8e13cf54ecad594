------------------------------- MODULE Outbox -------------------------------
(***************************************************************************)
(* What an output port whose owner always calls Write(true) promises: over *)
(* each connection every message is sent, once and in the order of the     *)
(* calls, from some message on and until the connection is removed.        *)
(***************************************************************************)
EXTENDS Naturals

CONSTANT Targets

VARIABLES written,    \* number of messages written
          connected,  \* the targets the port is connected to
          sent        \* the last message sent over the connection, 0 if none

outboxVars == <<written, connected, sent>>

Init == /\ written = 0 /\ connected = {}
        /\ sent = [t \in Targets |-> 0]

Write == written' = written + 1 /\ UNCHANGED <<connected, sent>>

Connect(t) == /\ t \notin connected
              /\ connected' = connected \union {t}
              /\ sent' = [sent EXCEPT ![t] = 0]
              /\ UNCHANGED written

Disconnect(t) == /\ connected' = connected \ {t}
                 /\ UNCHANGED <<written, sent>>

\* The first message may be any that has been written, then none is missed.
Send(t) == /\ t \in connected
           /\ \E m \in 1..written :
                /\ sent[t] # 0 => m = sent[t] + 1
                /\ sent' = [sent EXCEPT ![t] = m]
           /\ UNCHANGED <<written, connected>>

Next == Write \/ \E t \in Targets : Connect(t) \/ Disconnect(t) \/ Send(t)

Spec == Init /\ [][Next]_outboxVars
=============================================================================
