---------------------------- MODULE IngressOrder ----------------------------
(***************************************************************************)
(* What the subscriber's ingress promises its user under the drop-out-of-  *)
(* order policy (spec P1, section 4.4): the samples it delivers, taken    *)
(* together as one stream, carry for each publisher strictly increasing   *)
(* send clocks. Nothing is promised about which samples are delivered.    *)
(***************************************************************************)
EXTENDS Naturals, Sequences

CONSTANTS Pubs, Clocks

VARIABLE delivered   \* the samples delivered so far, as <<pub, clock>>

\* c is above every clock delivered from p so far
Fresh(p, c) ==
  \A i \in 1..Len(delivered) : delivered[i][1] = p => delivered[i][2] < c

OrderInit == delivered = << >>

\* one more sample is delivered
Deliver(p, c) ==
  /\ Fresh(p, c)
  /\ delivered' = Append(delivered, <<p, c>>)

OrderNext == \E p \in Pubs, c \in Clocks : Deliver(p, c)

OrderSpec == OrderInit /\ [][OrderNext]_delivered

=============================================================================
