------------------------ MODULE Subscription_proofs ------------------------
(* What every operation on the subscription preserves, for any consumer. *)
EXTENDS Subscription, TLAPS

HeldBelowLimit == \A m \in Msgs : place[m] \in Consumers => deliveries[m] < MaxDeliveries

QueueInv == QueueTypeOK /\ HeldBelowLimit

\* No message becomes unsent again.
SentStaysSent == \A m \in Msgs : place[m] # "unsent" => place'[m] # "unsent"

\* No message ceases to be unsent.
NothingPublished == \A m \in Msgs : place'[m] # "unsent" => place[m] # "unsent"

\* No message becomes acknowledged, other than those of the set A.
AcksOnly(A) == \A m \in Msgs \ A : place'[m] = "acked" => place[m] = "acked"

\* The subscription starts with every message unsent.
LEMMA QueueInitInv == QueueInit => QueueInv
  BY SubscriptionAssumption DEF QueueInit, QueueInv, QueueTypeOK, HeldBelowLimit, Places

\* Publishing a message keeps the subscription well formed.
LEMMA SendStep ==
    ASSUME QueueInv, NEW m \in Msgs, Send(m)
    PROVE  QueueInv' /\ SentStaysSent /\ AcksOnly({}) /\ place'[m] # "unsent"
  BY SubscriptionAssumption
     DEF Send, QueueInv, QueueTypeOK, HeldBelowLimit, SentStaysSent, NothingPublished,
         AcksOnly, Places

\* So does handing one to a consumer, which only a sent message can be,
LEMMA DeliverStep ==
    ASSUME QueueInv, NEW m \in Msgs, NEW c \in Consumers, Deliver(m, c)
    PROVE  QueueInv' /\ SentStaysSent /\ NothingPublished /\ AcksOnly({}) /\ place[m] # "unsent"
  BY SubscriptionAssumption
     DEF Deliver, QueueInv, QueueTypeOK, HeldBelowLimit, SentStaysSent, NothingPublished,
         AcksOnly, Places

\* dead-lettering one,
LEMMA DeadLetterStep ==
    ASSUME QueueInv, NEW m \in Msgs, DeadLetter(m)
    PROVE  QueueInv' /\ SentStaysSent /\ NothingPublished /\ AcksOnly({})
  BY SubscriptionAssumption
     DEF DeadLetter, QueueInv, QueueTypeOK, HeldBelowLimit, SentStaysSent, NothingPublished,
         AcksOnly, Places

\* acknowledging one, which acknowledges no other,
LEMMA AckStep ==
    ASSUME QueueInv, NEW m \in Msgs, place[m] # "unsent", Ack(m)
    PROVE  QueueInv' /\ SentStaysSent /\ NothingPublished /\ AcksOnly({m})
  BY SubscriptionAssumption
     DEF Ack, QueueInv, QueueTypeOK, HeldBelowLimit, SentStaysSent, NothingPublished,
         AcksOnly, Places

\* refusing one: a message is held only while it has deliveries left,
LEMMA NackStep ==
    ASSUME QueueInv, NEW m \in Msgs, NEW c \in Consumers, Nack(m, c)
    PROVE  QueueInv' /\ SentStaysSent /\ NothingPublished /\ AcksOnly({})
  BY SubscriptionAssumption
     DEF Nack, QueueInv, QueueTypeOK, HeldBelowLimit, SentStaysSent, NothingPublished,
         AcksOnly, Places,
         queueVars

\* and losing a connection.
LEMMA ReleaseStep ==
    ASSUME QueueInv, NEW c \in Consumers, Release(c)
    PROVE  QueueInv' /\ SentStaysSent /\ NothingPublished /\ AcksOnly({})
  BY SubscriptionAssumption
     DEF Release, QueueInv, QueueTypeOK, HeldBelowLimit, SentStaysSent, NothingPublished,
         AcksOnly, Places

\* A step of something else preserves all of it.
LEMMA QueueUnchanged ==
    ASSUME QueueInv, UNCHANGED queueVars
    PROVE  QueueInv' /\ SentStaysSent /\ NothingPublished /\ AcksOnly({})
  BY DEF QueueInv, QueueTypeOK, HeldBelowLimit, SentStaysSent, NothingPublished,
         AcksOnly, queueVars
=============================================================================
