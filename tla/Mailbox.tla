------------------------------ MODULE Mailbox ------------------------------
(***************************************************************************)
(* What an input port promises its owner, whatever its buffering: Read     *)
(* gives out the most recently received message, never one that was given  *)
(* out before, and the owner keeps it until the next Read.                 *)
(***************************************************************************)
EXTENDS Naturals

VARIABLES newest,     \* the most recent complete message, 0 if none
          delivered,  \* the message given out last, 0 if none
          holding     \* whether the owner has a message to look at

mailboxVars == <<newest, delivered, holding>>

Init == newest = 0 /\ delivered = 0 /\ holding = FALSE

\* Messages may be lost between two arrivals, but never arrive out of order.
Arrive == /\ newest' \in Nat /\ newest' > newest
          /\ UNCHANGED <<delivered, holding>>

Deliver == /\ ~holding /\ newest > delivered
           /\ delivered' = newest
           /\ holding' = TRUE
           /\ UNCHANGED newest

Release == /\ holding
           /\ holding' = FALSE
           /\ UNCHANGED <<newest, delivered>>

Next == Arrive \/ Deliver \/ Release

Spec == Init /\ [][Next]_mailboxVars
=============================================================================
