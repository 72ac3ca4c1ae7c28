---------------------------- MODULE Subscription ----------------------------
(***************************************************************************)
(* The Pulsar subscription the workspace-status consumers share            *)
(* (internal/events/consumer.go): a Shared subscription, so any consumer   *)
(* may be handed any message of the backlog, in any order, with a          *)
(* dead-letter policy of MaxDeliveries attempts.                           *)
(*                                                                         *)
(* The broker is not part of the repository; the operators say what the    *)
(* consumers can observe of it.  A message is handed out at least once:    *)
(* what a consumer holds when its connection breaks, or when its process   *)
(* restarts, goes back to the backlog whether or not it was processed.     *)
(***************************************************************************)
EXTENDS Naturals

CONSTANTS Msgs,          \* the messages the workspace manager may publish
          Consumers,     \* the processes running `workspace-services consume`
          MaxDeliveries  \* DLQPolicy.MaxDeliveries

\* Where a message is when no consumer holds it.
Places == {"unsent", "backlog", "acked", "dlq"}

ASSUME SubscriptionAssumption ==
    /\ MaxDeliveries \in Nat \ {0}
    /\ Consumers \cap Places = {}

VARIABLES place,         \* place[m]: one of Places, or the consumer holding m
          deliveries     \* deliveries[m]: redeliveries of m counted so far

queueVars == <<place, deliveries>>

QueueTypeOK == /\ place \in [Msgs -> Places \cup Consumers]
               /\ deliveries \in [Msgs -> 0..MaxDeliveries]

QueueInit == /\ place = [m \in Msgs |-> "unsent"]
             /\ deliveries = [m \in Msgs |-> 0]

Settled(m) == place[m] \in {"acked", "dlq"}

Send(m) == /\ place[m] = "unsent"
           /\ place' = [place EXCEPT ![m] = "backlog"]
           /\ UNCHANGED deliveries

\* Mutant: no dead-letter policy.
DeliverWithoutLimit(m, c) == /\ place[m] = "backlog"
                             /\ place' = [place EXCEPT ![m] = c]
                             /\ UNCHANGED deliveries

Deliver(m, c) == /\ place[m] = "backlog"
                 /\ deliveries[m] < MaxDeliveries
                 /\ place' = [place EXCEPT ![m] = c]
                 /\ UNCHANGED deliveries

\* A message that used up its deliveries is not handed out again.
DeadLetter(m) == /\ place[m] = "backlog"
                 /\ deliveries[m] = MaxDeliveries
                 /\ place' = [place EXCEPT ![m] = "dlq"]
                 /\ UNCHANGED deliveries

\* An individual acknowledgement names the message, whoever holds it now.
Ack(m) == /\ place' = IF place[m] = "dlq" THEN place
                      ELSE [place EXCEPT ![m] = "acked"]
          /\ UNCHANGED deliveries

\* A negative acknowledgement counts only while the consumer holds the message.
Nack(m, c) == IF place[m] = c
              THEN /\ place' = [place EXCEPT ![m] = "backlog"]
                   /\ deliveries' = [deliveries EXCEPT ![m] = @ + 1]
              ELSE UNCHANGED queueVars

\* The connection of c is lost: everything it holds returns to the backlog,
\* and the broker may or may not count that as a redelivery.
Release(c) ==
    LET held == {m \in Msgs : place[m] = c}
    IN  /\ place' = [m \in Msgs |-> IF m \in held THEN "backlog" ELSE place[m]]
        /\ \E counted \in {0, 1} :
              deliveries' = [m \in Msgs |-> IF m \in held
                                            THEN deliveries[m] + counted
                                            ELSE deliveries[m]]
=============================================================================
