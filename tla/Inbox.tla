------------------------------- MODULE Inbox --------------------------------
(***************************************************************************)
(* What the list of input connections promises to the port thread: every   *)
(* connection offers one message at a time, an offer is opened once and by *)
(* nobody else than the reader, one message is open at a time, and an      *)
(* offer is dropped only when the list is being closed.                    *)
(***************************************************************************)
EXTENDS Naturals

CONSTANT Connections

VARIABLES offered, open, closing

None == 0

Init == offered = {} /\ open = None /\ closing = FALSE

\* A message arrives on a connection whose last message is done with.
Arrive(i) ==
  /\ i \notin offered /\ open # i
  /\ offered' = offered \cup {i}
  /\ UNCHANGED <<open, closing>>

Take(i) ==
  /\ open = None /\ i \in offered
  /\ offered' = offered \ {i} /\ open' = i
  /\ UNCHANGED closing

\* The message was read and replied to, or it could not be read.
Finish ==
  /\ open # None /\ open' = None
  /\ UNCHANGED <<offered, closing>>

Close == closing' = TRUE /\ UNCHANGED <<offered, open>>

Drop(i) ==
  /\ closing /\ i \in offered
  /\ offered' = offered \ {i}
  /\ UNCHANGED <<open, closing>>

Next ==
  \/ \E i \in Connections : Arrive(i) \/ Take(i) \/ Drop(i)
  \/ Finish \/ Close

Spec == Init /\ [][Next]_<<offered, open, closing>>
=============================================================================
