----------------------- MODULE StatusConsumer_proofs -----------------------
(***************************************************************************)
(* Theorems about StatusConsumer, for every set of names, messages and     *)
(* consumers and every value of the bounds.                                *)
(***************************************************************************)
EXTENDS StatusConsumer, Subscription_proofs

-----------------------------------------------------------------------------
(* Type correctness *)

\* What was published is a status, stamped no later than now.
BodiesOK == \A m \in Msgs : place[m] # "unsent" =>
                body[m] \in Statuses /\ Stamp(m) <= clock

\* A consumer at work works on a message that was published.
CurOK == \A c \in Consumers : pc[c] # "receive" =>
             cur[c] \in Msgs /\ place[cur[c]] # "unsent"

TInv == TypeOK /\ HeldBelowLimit /\ BodiesOK /\ CurOK

\* The initial state is well formed.
LEMMA TypeInit == Init => TInv
<1> SUFFICES ASSUME Init PROVE TInv
  OBVIOUS
<1>1. QueueInv
  BY QueueInitInv DEF Init
<1> QED
  BY <1>1, ConsumerAssumption
     DEF Init, QueueInit, TInv, TypeOK, QueueInv, BodiesOK, CurOK, Row, Rows, Labels

\* A consumer at work names a workspace.
LEMMA AtWork ==
    ASSUME TInv, NEW c \in Consumers, pc[c] # "receive"
    PROVE  /\ cur[c] \in Msgs /\ place[cur[c]] # "unsent" /\ body[cur[c]] \in Statuses
           /\ Name(c) \in Names /\ Stamp(cur[c]) \in 0..clock
  BY DEF TInv, BodiesOK, CurOK, Statuses, Name, Stamp

\* GiveUp and Finish are operations of the subscription.
LEMMA SettleStep ==
    ASSUME TInv, NEW c \in Consumers, pc[c] # "receive", GiveUp(c) \/ Finish(c)
    PROVE  /\ QueueInv' /\ SentStaysSent /\ NothingPublished /\ AcksOnly({cur[c]})
           /\ GiveUp(c) => AcksOnly({})
           /\ pc' = [pc EXCEPT ![c] = "receive"]
<1>1. cur[c] \in Msgs /\ place[cur[c]] # "unsent" /\ QueueInv
  BY AtWork DEF TInv, TypeOK, QueueInv
<1>2. CASE GiveUp(c)
  BY <1>1, <1>2, NackStep DEF GiveUp, Goto, AcksOnly
<1>3. CASE Finish(c) /\ ~GiveUp(c)
  BY <1>1, <1>3, AckStep DEF Finish, Goto
<1> QED
  BY <1>2, <1>3

\* Every step keeps the state well formed, and no message becomes unsent.
LEMMA TypeStep == TInv /\ [Next]_vars => TInv' /\ SentStaysSent
<1> SUFFICES ASSUME TInv, [Next]_vars PROVE TInv' /\ SentStaysSent
  OBVIOUS
<1>0. QueueInv
  BY DEF TInv, TypeOK, QueueInv
<1> USE SubscriptionAssumption, ConsumerAssumption
<1>1. CASE Tick
  <2>1. QueueInv' /\ SentStaysSent
    BY <1>0, <1>1, QueueUnchanged DEF Tick
  <2> QED
    BY <1>1, <2>1 DEF Tick, TInv, TypeOK, QueueInv, BodiesOK, CurOK, Statuses, Rows,
       Stamp, store, process, queueVars
<1>2. ASSUME NEW m \in Msgs, NEW n \in Names, NEW k \in Kinds, Publish(m, n, k)
      PROVE  TInv' /\ SentStaysSent
  <2>1. QueueInv' /\ SentStaysSent /\ place[m] = "unsent" /\ place'[m] # "unsent"
    BY <1>0, <1>2, SendStep DEF Publish, Send
  <2>2. [kind |-> k, name |-> n, stamp |-> clock] \in Statuses
    BY DEF Statuses, TInv, TypeOK
  <2>3. \A x \in Msgs \ {m} : place'[x] = place[x]
    BY <1>0, <1>2 DEF Publish, Send, QueueInv, QueueTypeOK
  <2> QED
    BY <1>2, <2>1, <2>2, <2>3 DEF Publish, TInv, TypeOK, QueueInv, BodiesOK, CurOK,
       Stamp, Statuses, store, process
<1>3. ASSUME NEW n \in Names, NEW t \in 0..clock, CreateRow(n, t)
      PROVE  TInv' /\ SentStaysSent
  <2>1. QueueInv' /\ SentStaysSent
    BY <1>0, <1>3, QueueUnchanged DEF CreateRow
  <2>2. t \in 0..MaxClock
    BY DEF TInv, TypeOK
  <2> QED
    BY <1>3, <2>1, <2>2 DEF CreateRow, TInv, TypeOK, QueueInv, BodiesOK, CurOK, Stamp,
       Row, Rows, process, queueVars
<1>4. ASSUME NEW n \in Names, DropRow(n)
      PROVE  TInv' /\ SentStaysSent
  <2>1. QueueInv' /\ SentStaysSent
    BY <1>0, <1>4, QueueUnchanged DEF DropRow
  <2> QED
    BY <1>4, <2>1 DEF DropRow, TInv, TypeOK, QueueInv, BodiesOK, CurOK, Stamp,
       Row, Rows, process, queueVars
<1>5. ASSUME NEW c \in Consumers, NEW m \in Msgs, Receive(c, m)
      PROVE  TInv' /\ SentStaysSent
  <2>1. QueueInv' /\ SentStaysSent /\ place[m] # "unsent"
    BY <1>0, <1>5, DeliverStep DEF Receive
  <2>2. pc' \in [Consumers -> Labels] /\ \A d \in Consumers \ {c} : pc'[d] = pc[d]
    BY <1>5 DEF Receive, Goto, TInv, TypeOK, Labels
  <2>3. \A x \in Msgs : place'[x] # "unsent" => place[x] # "unsent"
    BY <1>0, <1>5, <2>1 DEF Receive, Deliver, QueueInv, QueueTypeOK
  <2> QED
    BY <1>5, <2>1, <2>2, <2>3 DEF Receive, TInv, TypeOK, QueueInv, BodiesOK, CurOK,
       Stamp, store, SentStaysSent
<1>6. ASSUME NEW c \in Consumers, Disable(c)
      PROVE  TInv' /\ SentStaysSent
  <2>0. pc[c] # "receive"
    BY <1>6 DEF Disable
  <2>1. QueueInv' /\ SentStaysSent /\ NothingPublished
    BY <1>0, <1>6, <2>0, QueueUnchanged, SettleStep DEF Disable
  <2>2. pc' \in [Consumers -> Labels] /\ \A d \in Consumers \ {c} : pc'[d] = pc[d]
    BY <1>6, <2>0, SettleStep DEF Disable, Goto, TInv, TypeOK, Labels
  <2>3. row' \in [Names -> Rows] /\ faults' \in 0..MaxFaults
    BY <1>6 DEF Disable, Fault, NoFault, TInv, TypeOK, Row, Rows
  <2> QED
    BY <1>6, <2>0, <2>1, <2>2, <2>3 DEF Disable, TInv, TypeOK, QueueInv, BodiesOK,
       CurOK, Stamp, SentStaysSent, NothingPublished
<1>7. ASSUME NEW c \in Consumers, GetToken(c)
      PROVE  TInv' /\ SentStaysSent
  <2>0. pc[c] # "receive"
    BY <1>7 DEF GetToken
  <2>1. QueueInv' /\ SentStaysSent /\ NothingPublished
    BY <1>0, <1>7, <2>0, QueueUnchanged, SettleStep DEF GetToken
  <2>2. pc' \in [Consumers -> Labels] /\ \A d \in Consumers \ {c} : pc'[d] = pc[d]
    BY <1>7, <2>0, SettleStep DEF GetToken, Goto, TInv, TypeOK, Labels
  <2>3. faults' \in 0..MaxFaults
    BY <1>7 DEF GetToken, Fault, NoFault, TInv, TypeOK
  <2> QED
    BY <1>7, <2>0, <2>1, <2>2, <2>3 DEF GetToken, TInv, TypeOK, QueueInv, BodiesOK,
       CurOK, Stamp, SentStaysSent, NothingPublished, store
<1>8. ASSUME NEW c \in Consumers, DeleteGroup(c)
      PROVE  TInv' /\ SentStaysSent
  <2>0. pc[c] # "receive"
    BY <1>8 DEF DeleteGroup
  <2>1. QueueInv' /\ SentStaysSent /\ NothingPublished
    BY <1>0, <1>8, <2>0, QueueUnchanged, SettleStep DEF DeleteGroup
  <2>2. pc' \in [Consumers -> Labels] /\ \A d \in Consumers \ {c} : pc'[d] = pc[d]
    BY <1>8, <2>0, SettleStep DEF DeleteGroup, Goto, TInv, TypeOK, Labels
  <2>3. groups' \in SUBSET Names /\ faults' \in 0..MaxFaults
    BY <1>8 DEF DeleteGroup, Fault, NoFault, TInv, TypeOK
  <2> QED
    BY <1>8, <2>0, <2>1, <2>2, <2>3 DEF DeleteGroup, TInv, TypeOK, QueueInv, BodiesOK,
       CurOK, Stamp, SentStaysSent, NothingPublished
<1>9. ASSUME NEW c \in Consumers, DeleteSecret(c)
      PROVE  TInv' /\ SentStaysSent
  <2>0. pc[c] # "receive"
    BY <1>9 DEF DeleteSecret
  <2>1. QueueInv' /\ SentStaysSent /\ NothingPublished
    BY <1>0, <1>9, <2>0, AtWork, AckStep, SettleStep DEF DeleteSecret
  <2>2. pc' \in [Consumers -> Labels] /\ \A d \in Consumers \ {c} : pc'[d] = pc[d]
    BY <1>9, <2>0, SettleStep DEF DeleteSecret, Goto, TInv, TypeOK, Labels
  <2>3. secrets' \in SUBSET Names /\ faults' \in 0..MaxFaults
    BY <1>9 DEF DeleteSecret, Fault, NoFault, TInv, TypeOK
  <2> QED
    BY <1>9, <2>0, <2>1, <2>2, <2>3 DEF DeleteSecret, TInv, TypeOK, QueueInv, BodiesOK,
       CurOK, Stamp, SentStaysSent, NothingPublished
<1>10. ASSUME NEW c \in Consumers, Lookup(c)
      PROVE  TInv' /\ SentStaysSent
  <2>0. pc[c] # "receive"
    BY <1>10 DEF Lookup
  <2>1. QueueInv' /\ SentStaysSent /\ NothingPublished
    BY <1>0, <1>10, <2>0, QueueUnchanged, SettleStep DEF Lookup
  <2>2. pc' \in [Consumers -> Labels] /\ \A d \in Consumers \ {c} : pc'[d] = pc[d]
    BY <1>10, <2>0, SettleStep DEF Lookup, Goto, TInv, TypeOK, Labels
  <2>3. /\ call' \in [Consumers -> {"deleting", "gone"}]
        /\ faults' \in 0..MaxFaults
    BY <1>10 DEF Lookup, Fault, NoFault, TInv, TypeOK
  <2> QED
    BY <1>10, <2>0, <2>1, <2>2, <2>3 DEF Lookup, TInv, TypeOK, QueueInv, BodiesOK,
       CurOK, Stamp, SentStaysSent, NothingPublished, store
<1>11. ASSUME NEW c \in Consumers, UpdateWorkspaceStatus(c)
      PROVE  TInv' /\ SentStaysSent
  <2>0. pc[c] # "receive"
    BY <1>11 DEF UpdateWorkspaceStatus
  <2>1. QueueInv' /\ SentStaysSent /\ NothingPublished
    BY <1>0, <1>11, <2>0, QueueUnchanged, SettleStep DEF UpdateWorkspaceStatus
  <2>2. pc' \in [Consumers -> Labels] /\ \A d \in Consumers \ {c} : pc'[d] = pc[d]
    BY <1>11, <2>0, SettleStep DEF UpdateWorkspaceStatus, Goto, TInv, TypeOK, Labels
  <2>a. ASSUME NEW n \in Names, NEW m \in Msgs,
               NEW mounted \in Msgs \cup {None}
        PROVE  [life |-> "live", at |-> clock, from |-> m, mount |-> mounted] \in Rows
    BY DEF Rows, TInv, TypeOK
  <2>b. row[Name(c)].mount \in Msgs \cup {None}
    BY <2>0, AtWork DEF TInv, TypeOK, Rows
  <2>3. /\ row' \in [Names -> Rows]
        /\ applied' \in [Names -> SUBSET Msgs]
        /\ faults' \in 0..MaxFaults
    BY <1>11, <2>0, <2>a, <2>b, AtWork
       DEF UpdateWorkspaceStatus, RootDirectory, Fault, NoFault, TInv, TypeOK
  <2> QED
    BY <1>11, <2>0, <2>1, <2>2, <2>3 DEF UpdateWorkspaceStatus, TInv, TypeOK,
       QueueInv, BodiesOK, CurOK, Stamp, SentStaysSent, NothingPublished
<1>12. ASSUME NEW c \in Consumers, Break(c) \/ Restart(c)
       PROVE  TInv' /\ SentStaysSent
  <2>1. QueueInv' /\ SentStaysSent /\ NothingPublished
    BY <1>0, <1>12, ReleaseStep DEF Break, Restart
  <2> QED
    BY <1>12, <2>1 DEF Break, Restart, Goto, TInv, TypeOK, QueueInv, BodiesOK,
       CurOK, Labels, Stamp, SentStaysSent, NothingPublished, store, process
<1>13. ASSUME NEW m \in Msgs, DeadLettered(m)
       PROVE  TInv' /\ SentStaysSent
  <2>1. QueueInv' /\ SentStaysSent /\ NothingPublished
    BY <1>0, <1>13, DeadLetterStep DEF DeadLettered
  <2> QED
    BY <1>13, <2>1 DEF DeadLettered, TInv, TypeOK, QueueInv, BodiesOK,
       CurOK, Stamp, SentStaysSent, NothingPublished, store, process
<1>14. CASE UNCHANGED vars
  BY <1>0, <1>14, QueueUnchanged DEF vars, queueVars, TInv, TypeOK, QueueInv, BodiesOK,
     CurOK, Stamp
<1> QED
  BY <1>1, <1>2, <1>3, <1>4, <1>5, <1>6, <1>7, <1>8, <1>9, <1>10, <1>11, <1>12, <1>13,
     <1>14 DEF Next, Environment, Step

\* The state is always well formed: what is in a row, in the subscription or in
\* the hands of a consumer has the type the code gives it, and no message is
\* delivered more often than the dead-letter policy allows.
THEOREM TypeCorrect == Spec => [](TypeOK /\ HeldBelowLimit)
<1>1. TInv /\ [Next]_vars => TInv'
  BY TypeStep
<1>2. TInv => TypeOK /\ HeldBelowLimit
  BY DEF TInv
<1> QED
  BY <1>1, <1>2, TypeInit, PTL DEF Spec

-----------------------------------------------------------------------------
(* Statuses are stored in order, and Unavailable is final, while nobody comes  *)
(* between the look at a row and its update                                    *)

\* Lookup and UpdateWorkspaceStatus are two transactions: no other consumer is
\* about to write the row that one has looked at and is about to update.
Undisturbed ==
    \A c, d \in Consumers :
        /\ pc[c] = "update"
        /\ pc[d] \in {"disable", "update"}
        /\ Name(c) = Name(d)
        => c = d

\* No row is written with a time to come.
TimeOK == \A n \in Names : row[n].at <= clock

\* What was stored in a row was published no later than the row was written.
AppliedOK == \A n \in Names : \A m \in applied[n] :
                 /\ place[m] # "unsent"
                 /\ row[n].life = "live" => Stamp(m) <= row[n].at

\* Between Lookup and UpdateWorkspaceStatus nobody else writes the row, except
\* that its account may be deleted and its name taken again.
UpdateOK == \A c \in Consumers : pc[c] = "update" =>
                /\ Stamp(cur[c]) > 0
                /\ row[Name(c)].life # "Unavailable"
                /\ row[Name(c)].life = "live" =>
                      \A m \in applied[Name(c)] : Stamp(m) < Stamp(cur[c])

\* A live row that shows a status shows one that was stored in it, and no other
\* row shows any.
ShownOK == \A n \in Names :
               /\ row[n].life # "live" => row[n].from = None
               /\ row[n].life = "live" =>
                     /\ row[n].from = None \/ row[n].from \in applied[n]
                     /\ row[n].mount = None \/ row[n].mount \in applied[n]

OrderInv == TInv /\ TimeOK /\ AppliedOK /\ UpdateOK /\ ShownOK /\ RowShowsNewest

\* Initially there is no row.
LEMMA OrderInit == Init => OrderInv
<1> SUFFICES ASSUME Init PROVE OrderInv
  OBVIOUS
<1> QED
  BY TypeInit, ConsumerAssumption DEF Init, OrderInv, TimeOK, AppliedOK, UpdateOK, ShownOK,
     RowShowsNewest, Row

\* A step that writes no row, and brings no consumer to the point of writing one,
\* preserves the invariant.
LEMMA OtherStep ==
    ASSUME OrderInv, TInv', SentStaysSent, UNCHANGED <<row, applied>>, clock' >= clock,
           \A m \in Msgs : place[m] # "unsent" => body'[m] = body[m],
           \A c \in Consumers : pc'[c] = "update" => pc[c] = "update" /\ cur'[c] = cur[c]
    PROVE  OrderInv'
<1>1. TimeOK'
  BY DEF OrderInv, TimeOK, TInv, TypeOK, Rows
<1>2. \A n \in Names : \A m \in applied[n] : m \in Msgs /\ body'[m] = body[m]
  BY DEF OrderInv, AppliedOK, TInv, TypeOK
<1>3. AppliedOK'
  BY <1>2 DEF OrderInv, AppliedOK, SentStaysSent, Stamp
<1>4. UpdateOK'
  <2> SUFFICES ASSUME NEW c \in Consumers, pc'[c] = "update"
               PROVE  /\ Stamp(cur[c])' > 0
                      /\ row'[Name(c)'].life # "Unavailable"
                      /\ row'[Name(c)'].life = "live" =>
                            \A m \in applied'[Name(c)'] : Stamp(m)' < Stamp(cur[c])'
    BY DEF UpdateOK
  <2>1. pc[c] = "update" /\ cur'[c] = cur[c] /\ body'[cur[c]] = body[cur[c]]
    BY AtWork DEF OrderInv
  <2>2. Name(c) \in Names /\ Name(c)' = Name(c) /\ Stamp(cur[c])' = Stamp(cur[c])
    BY <2>1, AtWork DEF OrderInv, Name, Stamp
  <2> QED
    BY <1>2, <2>1, <2>2 DEF OrderInv, UpdateOK, Stamp
<1>5. ShownOK'
  BY DEF OrderInv, ShownOK
<1>6. RowShowsNewest'
  BY <1>2 DEF OrderInv, ShownOK, RowShowsNewest, Stamp
<1> QED
  BY <1>1, <1>3, <1>4, <1>5, <1>6 DEF OrderInv

\* The transaction of UpdateWorkspaceStatus stores a status newer than those the
\* row has seen.
LEMMA UpdateStep ==
    ASSUME Undisturbed, OrderInv, TInv', SentStaysSent,
           NEW c \in Consumers, UpdateWorkspaceStatus(c)
    PROVE  OrderInv'
<1> DEFINE m == cur[c]
           n == Name(c)
<1>0. /\ pc[c] = "update" /\ m \in Msgs /\ n \in Names
      /\ place[m] # "unsent" /\ Stamp(m) \in 0..clock
  BY AtWork DEF UpdateWorkspaceStatus, OrderInv
<1>1. \A d \in Consumers : pc'[d] = "update" => pc[d] = "update" /\ Name(d) # n
  <2>1. GiveUp(c) \/ Finish(c)
    BY DEF UpdateWorkspaceStatus
  <2>2. pc' = [pc EXCEPT ![c] = "receive"]
    BY <1>0, <2>1, SettleStep DEF OrderInv
  <2> QED
    BY <1>0, <2>2 DEF Undisturbed, OrderInv, TInv, TypeOK
<1>2. CASE UNCHANGED <<row, applied>>
  BY <1>1, <1>2, OtherStep DEF UpdateWorkspaceStatus, TInv, TypeOK, OrderInv
<1>3. CASE ~UNCHANGED <<row, applied>>
  <2>1. /\ row[n].life = "live"
        /\ applied' = [applied EXCEPT ![n] = @ \cup {m}]
        /\ row' = [row EXCEPT ![n] =
                      [life |-> "live", at |-> clock, from |-> m,
                       mount |-> IF RootBlank(Kind(c)) THEN row[n].mount ELSE m]]
    BY <1>0, <1>3 DEF UpdateWorkspaceStatus, OrderInv, UpdateOK, TInv, TypeOK, Rows,
       RootBlank, RootDirectory, Kind
  <2>2. UNCHANGED <<clock, body, cur>>
    BY DEF UpdateWorkspaceStatus
  <2>3. \A x \in applied[n] : x \in Msgs /\ Stamp(x) < Stamp(m)
    BY <1>0, <2>1 DEF OrderInv, UpdateOK, TInv, TypeOK
  <2>4. TimeOK'
    BY <1>0, <2>1, <2>2 DEF OrderInv, TimeOK, TInv, TypeOK
  <2>5. AppliedOK'
    <3>1. \A x \in applied[n] : x \in Msgs /\ place[x] # "unsent" /\ Stamp(x) <= clock
      BY <1>0, <2>3 DEF OrderInv, AppliedOK, TInv, BodiesOK
    <3>2. \A x \in Msgs : Stamp(x)' = Stamp(x)
      BY <2>2 DEF Stamp
    <3>3. ASSUME NEW k \in Names, NEW x \in applied'[k]
          PROVE  place'[x] # "unsent" /\ (row'[k].life = "live" => Stamp(x) <= row'[k].at)
      <4>1. CASE k = n
        <5>1. x \in applied[n] \/ x = m
          BY <1>0, <2>1, <4>1, <3>3 DEF OrderInv, TInv, TypeOK
        <5>2. row'[k].at = clock
          BY <1>0, <2>1, <4>1 DEF OrderInv, TInv, TypeOK
        <5> QED
          BY <1>0, <3>1, <5>1, <5>2 DEF SentStaysSent, OrderInv, TInv, TypeOK
      <4>2. CASE k # n
        BY <1>0, <2>1, <4>2, <3>3 DEF OrderInv, AppliedOK, TInv, TypeOK, SentStaysSent
      <4> QED
        BY <4>1, <4>2
    <3> QED
      BY <3>2, <3>3 DEF AppliedOK, TInv, TypeOK
  <2>6. UpdateOK'
    <3> SUFFICES ASSUME NEW d \in Consumers, pc'[d] = "update"
                 PROVE  /\ Stamp(cur[d])' > 0
                        /\ row'[Name(d)'].life # "Unavailable"
                        /\ row'[Name(d)'].life = "live" =>
                              \A x \in applied'[Name(d)'] : Stamp(x)' < Stamp(cur[d])'
      BY DEF UpdateOK
    <3>1. pc[d] = "update" /\ Name(d) # n /\ Name(d) \in Names
      BY <1>1, AtWork DEF OrderInv
    <3>2. row'[Name(d)] = row[Name(d)] /\ applied'[Name(d)] = applied[Name(d)]
      BY <1>0, <2>1, <3>1 DEF OrderInv, TInv, TypeOK
    <3> QED
      BY <2>2, <3>1, <3>2 DEF OrderInv, UpdateOK, Name, Stamp
  <2>7. ShownOK'
    BY <1>0, <2>1 DEF OrderInv, ShownOK, TInv, TypeOK
  <2>8. RowShowsNewest'
    <3> SUFFICES ASSUME NEW k \in Names, row'[k].life = "live", NEW x \in applied'[k]
                 PROVE  /\ row'[k].from # None
                        /\ Stamp(x)' <= Stamp(row[k].from)'
                        /\ body'[x].kind = "Ready" =>
                              row'[k].mount # None /\ Stamp(x)' <= Stamp(row[k].mount)'
      BY DEF RowShowsNewest
    <3>1. CASE k # n
      BY <1>0, <2>1, <2>2, <3>1 DEF OrderInv, RowShowsNewest, TInv, TypeOK, Stamp
    <3>2. CASE k = n
      <4>1. row'[n].from = m /\ row'[n].from # None
        BY <1>0, <2>1, ConsumerAssumption DEF OrderInv, TInv, TypeOK
      <4>2. x \in applied[n] \/ x = m
        BY <1>0, <2>1, <3>2 DEF OrderInv, TInv, TypeOK
      <4>3. Stamp(x)' <= Stamp(m)
        BY <1>0, <2>2, <2>3, <4>2 DEF Stamp, OrderInv, TInv, BodiesOK, AppliedOK, Statuses
      <4>4. CASE RootBlank(Kind(c))
        BY <1>0, <2>1, <2>2, <3>2, <4>1, <4>2, <4>3, <4>4
           DEF OrderInv, RowShowsNewest, TInv, TypeOK, Stamp, RootBlank, Kind
      <4>5. CASE ~RootBlank(Kind(c))
        BY <1>0, <2>1, <2>2, <3>2, <4>1, <4>3, <4>5 DEF OrderInv, TInv, TypeOK, Stamp
      <4> QED
        BY <4>4, <4>5
    <3> QED
      BY <3>1, <3>2
  <2> QED
    BY <2>4, <2>5, <2>6, <2>7, <2>8 DEF OrderInv
<1> QED
  BY <1>2, <1>3

\* GetWorkspace and the comparison of times bring a consumer to the update only
\* with a status newer than the row.
LEMMA LookupStep ==
    ASSUME OrderInv, TInv', SentStaysSent, NEW c \in Consumers, Lookup(c)
    PROVE  OrderInv'
<1>0. pc[c] = "lookup" /\ UNCHANGED <<clock, body, cur, row, applied>>
  BY DEF Lookup, store
<1>a. \A d \in Consumers \ {c} : pc'[d] = pc[d]
  BY DEF Lookup, Goto, Finish, OrderInv, TInv, TypeOK
<1>1. CASE pc'[c] # "update"
  BY <1>0, <1>a, <1>1, OtherStep DEF OrderInv, TInv, TypeOK
<1>2. CASE pc'[c] = "update"
  <2>0. /\ Name(c) \in Names /\ cur[c] \in Msgs /\ Stamp(cur[c]) \in 0..clock
    BY <1>0, AtWork DEF OrderInv
  <2>1. row[Name(c)].life = "live" /\ Stamp(cur[c]) > row[Name(c)].at
    <3>1. CASE Finish(c)
      BY <1>0, <1>2, <3>1, SettleStep DEF OrderInv, TInv, TypeOK
    <3> QED
      BY <3>1 DEF Lookup, Visible, Newer
  <2>2. \A m \in applied[Name(c)] : Stamp(m) < Stamp(cur[c])
    <3> SUFFICES ASSUME NEW m \in applied[Name(c)] PROVE Stamp(m) < Stamp(cur[c])
      OBVIOUS
    <3>1. m \in Msgs /\ Stamp(m) <= row[Name(c)].at /\ Stamp(m) \in Nat
      BY <2>0, <2>1 DEF OrderInv, AppliedOK, TInv, TypeOK, BodiesOK, Statuses, Stamp
    <3>2. row[Name(c)].at \in Nat
      BY <2>0 DEF OrderInv, TInv, TypeOK, Rows
    <3> QED
      BY <2>0, <2>1, <3>1, <3>2 DEF OrderInv, TInv, TypeOK
  <2>3. UpdateOK'
    <3>1. row[Name(c)].at \in Nat
      BY <2>0 DEF OrderInv, TInv, TypeOK, Rows
    <3>2. Stamp(cur[c]) > 0
      BY <2>0, <2>1, <3>1 DEF OrderInv, TInv, TypeOK
    <3> QED
      BY <1>0, <1>a, <2>1, <2>2, <3>2 DEF OrderInv, UpdateOK, Name, Stamp
  <2>4. TimeOK' /\ AppliedOK' /\ ShownOK' /\ RowShowsNewest'
    BY <1>0 DEF OrderInv, TimeOK, AppliedOK, ShownOK, RowShowsNewest, Stamp, SentStaysSent,
       TInv, TypeOK
  <2> QED
    BY <2>3, <2>4 DEF OrderInv
<1> QED
  BY <1>1, <1>2

\* DisableWorkspace and the environment leave no row that breaks the invariant.
LEMMA BlankRowStep ==
    ASSUME OrderInv, TInv', SentStaysSent, UNCHANGED <<clock, body, cur>>,
           NEW n \in Names, NEW t \in 0..clock,
           NEW l \in {"absent", "live", "Unavailable"},
           row' = [row EXCEPT ![n] = Row(l, t)],
           \/ l # "live" /\ UNCHANGED applied
           \/ applied' = [applied EXCEPT ![n] = {}],
           \A c \in Consumers : pc'[c] = "update" =>
               /\ pc[c] = "update"
               /\ Name(c) = n => l # "Unavailable"
    PROVE  OrderInv'
<1>1. row'[n] = Row(l, t) /\ \A k \in Names \ {n} : row'[k] = row[k]
  BY DEF OrderInv, TInv, TypeOK
<1>2. /\ \A k \in Names \ {n} : applied'[k] = applied[k]
      /\ applied'[n] = {} \/ (l # "live" /\ applied'[n] = applied[n])
  BY DEF OrderInv, TInv, TypeOK
<1>3. \A m : Stamp(m)' = Stamp(m)
  BY DEF Stamp
<1>4. TimeOK'
  BY <1>1 DEF OrderInv, TimeOK, Row
<1>5. AppliedOK'
  BY <1>1, <1>2, <1>3 DEF OrderInv, AppliedOK, Row, SentStaysSent, TInv, TypeOK
<1>6. UpdateOK'
  BY <1>1, <1>2, <1>3, AtWork DEF OrderInv, UpdateOK, Row, Name
<1>7. ShownOK' /\ RowShowsNewest'
  BY <1>1, <1>2, <1>3 DEF OrderInv, ShownOK, RowShowsNewest, Row
<1> QED
  BY <1>4, <1>5, <1>6, <1>7 DEF OrderInv

\* While no update is disturbed every step preserves the invariant.
LEMMA OrderStep == Undisturbed /\ OrderInv /\ [Next]_vars => OrderInv'
<1> SUFFICES ASSUME Undisturbed, OrderInv, [Next]_vars PROVE OrderInv'
  OBVIOUS
<1>0. /\ TInv' /\ SentStaysSent
      /\ clock \in Nat /\ 0 \in 0..clock /\ clock \in 0..clock
      /\ row \in [Names -> Rows] /\ pc \in [Consumers -> Labels]
  BY TypeStep DEF OrderInv, TInv, TypeOK
<1>1. CASE Tick
  BY <1>0, <1>1, OtherStep DEF Tick, store, process
<1>2. ASSUME NEW m \in Msgs, NEW n \in Names, NEW k \in Kinds, Publish(m, n, k)
      PROVE  OrderInv'
  <2>1. \A x \in Msgs : place[x] # "unsent" => body'[x] = body[x]
    BY <1>2 DEF Publish, Send, OrderInv, TInv, TypeOK
  <2>2. UNCHANGED <<row, applied, clock, pc, cur>>
    BY <1>2 DEF Publish, store, process
  <2> QED
    BY <1>0, <2>1, <2>2, OtherStep
<1>3. ASSUME NEW n \in Names, NEW t \in 0..clock, CreateRow(n, t)
      PROVE  OrderInv'
  <2>1. /\ row' = [row EXCEPT ![n] = Row("live", t)]
        /\ applied' = [applied EXCEPT ![n] = {}]
        /\ UNCHANGED <<clock, body, pc, cur>>
    BY <1>3 DEF CreateRow, process
  <2> QED
    BY <1>0, <2>1, BlankRowStep
<1>4. ASSUME NEW n \in Names, DropRow(n)
      PROVE  OrderInv'
  <2>1. /\ row' = [row EXCEPT ![n] = Row("absent", 0)]
        /\ UNCHANGED <<applied, clock, body, pc, cur>>
    BY <1>4 DEF DropRow, process
  <2> QED
    BY <1>0, <2>1, BlankRowStep
<1>5. ASSUME NEW c \in Consumers, NEW m \in Msgs, Receive(c, m)
      PROVE  OrderInv'
  <2>1. \A d \in Consumers : pc'[d] = "update" => pc[d] = "update" /\ cur'[d] = cur[d]
    BY <1>0, <1>5 DEF Receive, Goto
  <2> QED
    BY <1>0, <1>5, <2>1, OtherStep DEF Receive, store
<1>6. ASSUME NEW c \in Consumers, Disable(c)
      PROVE  OrderInv'
  <2>0. pc[c] = "disable" /\ pc'[c] # "update" /\ \A d \in Consumers \ {c} : pc'[d] = pc[d]
    BY <1>0, <1>6, SettleStep DEF Disable, Goto, OrderInv
  <2>1. \A d \in Consumers : pc'[d] = "update" => pc[d] = "update" /\ Name(d) # Name(c)
    BY <2>0 DEF Undisturbed
  <2>2. CASE UNCHANGED row
    <3>1. UNCHANGED <<row, applied, clock, body, cur>>
      BY <1>6, <2>2 DEF Disable
    <3> QED
      BY <1>0, <2>1, <3>1, OtherStep
  <2>3. CASE row' = [row EXCEPT ![Name(c)] = Row("Unavailable", clock)]
    <3>1. Name(c) \in Names /\ UNCHANGED <<applied, clock, body, cur>>
      BY <1>6, AtWork DEF Disable, OrderInv
    <3> QED
      BY <1>0, <2>1, <2>3, <3>1, BlankRowStep
  <2> QED
    BY <1>6, <2>2, <2>3 DEF Disable
<1>7. ASSUME NEW c \in Consumers, GetToken(c) \/ DeleteGroup(c) \/ DeleteSecret(c)
      PROVE  OrderInv'
  <2>1. \A d \in Consumers : pc'[d] = "update" => pc[d] = "update"
    BY <1>0, <1>7, SettleStep DEF GetToken, DeleteGroup, DeleteSecret, Goto, OrderInv
  <2> QED
    BY <1>0, <1>7, <2>1, OtherStep DEF GetToken, DeleteGroup, DeleteSecret, store
<1>8. ASSUME NEW c \in Consumers, Lookup(c)
      PROVE  OrderInv'
  BY <1>0, <1>8, LookupStep
<1>9. ASSUME NEW c \in Consumers, UpdateWorkspaceStatus(c)
      PROVE  OrderInv'
  BY <1>0, <1>9, UpdateStep
<1>10. ASSUME NEW c \in Consumers, Break(c) \/ Restart(c)
       PROVE  OrderInv'
  <2>1. \A d \in Consumers : pc'[d] = "update" => pc[d] = "update"
    BY <1>0, <1>10 DEF Break, Restart, Goto, process
  <2> QED
    BY <1>0, <1>10, <2>1, OtherStep DEF Break, Restart, store, process
<1>11. ASSUME NEW m \in Msgs, DeadLettered(m)
       PROVE  OrderInv'
  BY <1>0, <1>11, OtherStep DEF DeadLettered, store, process
<1>12. CASE UNCHANGED vars
  BY <1>0, <1>12, OtherStep DEF vars
<1> QED
  BY <1>1, <1>2, <1>3, <1>4, <1>5, <1>6, <1>7, <1>8, <1>9, <1>10, <1>11, <1>12
     DEF Next, Environment, Step

\* However many consumers there are, a row always shows the newest of the statuses
\* stored in it, whatever the order of delivery, the redeliveries and the failures,
\* as long as no update is disturbed.
THEOREM StatusesInOrder == Spec /\ []Undisturbed => []RowShowsNewest
<1>1. Undisturbed /\ OrderInv /\ [Next]_vars => OrderInv'
  BY OrderStep
<1>2. OrderInv => RowShowsNewest
  BY DEF OrderInv
<1> QED
  BY <1>1, <1>2, OrderInit, PTL DEF Spec

\* What was published does not change.
LEMMA BodyKept ==
    ASSUME TInv, [Next]_vars, NEW m \in Msgs, place[m] # "unsent"
    PROVE  body'[m] = body[m]
  BY DEF Next, Environment, Step, Tick, Publish, Send, CreateRow, DropRow, Receive,
     Disable, GetToken, DeleteGroup, DeleteSecret, Lookup, UpdateWorkspaceStatus, Break,
     Restart, DeadLettered, vars, TInv, TypeOK

\* What a step may do to the rows.
RowKept(n)    == row'[n] = row[n]
RowCreated(n) == row[n].life = "absent" /\ \E t \in 0..clock : row'[n] = Row("live", t)
RowDropped(n) == row[n].life # "absent" /\ row'[n] = Row("absent", 0)
RowClosed(n)  == row[n].life # "absent" /\ row'[n] = Row("Unavailable", clock)
RowShows(n)   == /\ row[n].life = "live" /\ row'[n].life = "live"
                 /\ row'[n].from \in Msgs
                 /\ Stamp(row'[n].from) > 0
                 /\ \A x \in applied[n] : Stamp(x) < Stamp(row'[n].from)

\* A step writes at most one row, and a status is written only
\* in a live row and only if it is newer than all that row has seen.
LEMMA RowStep ==
    ASSUME OrderInv, [Next]_vars
    PROVE  \/ \A k \in Names : RowKept(k)
           \/ /\ UNCHANGED body
              /\ \E n \in Names :
                    /\ RowCreated(n) \/ RowDropped(n) \/ RowClosed(n) \/ RowShows(n)
                    /\ \A k \in Names \ {n} : RowKept(k)
<1> DEFINE One(n) == /\ UNCHANGED body
                     /\ RowCreated(n) \/ RowDropped(n) \/ RowClosed(n) \/ RowShows(n)
                     /\ \A k \in Names \ {n} : RowKept(k)
<1> SUFFICES UNCHANGED row \/ \E n \in Names : One(n)
  BY DEF RowKept
<1>0. row \in [Names -> Rows]
  BY DEF OrderInv, TInv, TypeOK
<1>1. ASSUME NEW n \in Names, NEW t \in 0..clock, CreateRow(n, t)
      PROVE  One(n)
  BY <1>0, <1>1 DEF CreateRow, RowCreated, RowKept
<1>2. ASSUME NEW n \in Names, DropRow(n)
      PROVE  One(n)
  BY <1>0, <1>2 DEF DropRow, RowDropped, RowKept
<1>3. ASSUME NEW c \in Consumers, Disable(c)
      PROVE  UNCHANGED row \/ (Name(c) \in Names /\ One(Name(c)))
  <2>1. Name(c) \in Names
    BY <1>3, AtWork DEF Disable, OrderInv
  <2> QED
    BY <1>0, <1>3, <2>1 DEF Disable, RowClosed, RowKept
<1>4. ASSUME NEW c \in Consumers, UpdateWorkspaceStatus(c)
      PROVE  UNCHANGED row \/ (Name(c) \in Names /\ One(Name(c)))
  <2>1. Name(c) \in Names /\ cur[c] \in Msgs /\ pc[c] = "update"
    BY <1>4, AtWork DEF UpdateWorkspaceStatus, OrderInv
  <2>2. CASE row[Name(c)].life = "live"
    <3>1. Stamp(cur[c]) > 0 /\ \A x \in applied[Name(c)] : Stamp(x) < Stamp(cur[c])
      BY <2>1, <2>2 DEF OrderInv, UpdateOK
    <3> QED
      BY <1>0, <1>4, <2>1, <2>2, <3>1 DEF UpdateWorkspaceStatus, RowShows, RowKept
  <2>3. CASE row[Name(c)].life = "absent"
    BY <1>4, <2>3 DEF UpdateWorkspaceStatus
  <2>4. row[Name(c)].life \in {"live", "absent"}
    BY <1>0, <2>1 DEF OrderInv, UpdateOK, Rows
  <2> QED
    BY <2>2, <2>3, <2>4
<1>5. \/ \E n \in Names : DropRow(n) \/ \E t \in 0..clock : CreateRow(n, t)
      \/ \E c \in Consumers : Disable(c) \/ UpdateWorkspaceStatus(c)
      \/ UNCHANGED row
  BY DEF Next, Environment, Step, Tick, Publish, Receive, GetToken, DeleteGroup,
     DeleteSecret, Lookup, Break, Restart, DeadLettered, store, vars
<1> HIDE DEF One
<1> QED
  BY <1>1, <1>2, <1>3, <1>4, <1>5

\* Likewise a disabled workspace is never brought back: between Lookup and
\* UpdateWorkspaceStatus nobody can disable it.
THEOREM NoResurrection == Spec /\ []Undisturbed => DisabledForGood
<1>1. Undisturbed /\ OrderInv /\ [Next]_vars => OrderInv'
  BY OrderStep
<1>2. ASSUME OrderInv, [Next]_vars, NEW n \in Names, row[n].life = "Unavailable"
      PROVE  row'[n].life # "live"
  BY <1>2, RowStep
     DEF RowKept, RowCreated, RowDropped, RowClosed, RowShows, Row
<1>3. OrderInv /\ [Next]_vars =>
         [\A n \in Names : row[n].life = "Unavailable" => row'[n].life # "live"]_vars
  BY <1>2
<1> QED
  BY <1>1, <1>3, OrderInit, PTL DEF Spec, DisabledForGood

\* Likewise the table is a workspace lifecycle: every step of the consumers and of
\* their environment is one step of the lifecycle or none.
THEOREM Refinement == Spec /\ []Undisturbed => ImplementsLifecycle
<1> DEFINE Show(n) == IF row[n].from = None THEN 0 ELSE Stamp(row[n].from)
           lifes == [n \in Names |-> row[n].life]
           shows == [n \in Names |-> Show(n)]
<1>1. Init => Lifecycle!Init
  BY DEF Init, Row, Lifecycle!Init
<1>2. Undisturbed /\ OrderInv /\ [Next]_vars => OrderInv'
  BY OrderStep
<1>3. ASSUME OrderInv, [Next]_vars
      PROVE  [Lifecycle!Next]_(Lifecycle!vars)
  <2>0. ASSUME NEW k \in Names, RowKept(k)
        PROVE  row'[k].life = row[k].life /\ Show(k)' = Show(k)
    <3>1. CASE row[k].from = None
      BY <2>0, <3>1 DEF RowKept
    <3>2. CASE row[k].from # None
      <4>1. row[k].from \in Msgs /\ place[row[k].from] # "unsent"
        BY <1>3, <3>2 DEF OrderInv, ShownOK, AppliedOK, TInv, TypeOK
      <4>2. body'[row[k].from] = body[row[k].from]
        BY <1>3, <4>1, BodyKept DEF OrderInv
      <4> QED
        BY <2>0, <3>2, <4>2 DEF RowKept, Stamp
    <3> QED
      BY <3>1, <3>2
  <2>1. CASE \A k \in Names : RowKept(k)
    BY <2>0, <2>1 DEF Lifecycle!vars
  <2>2. ASSUME UNCHANGED body, NEW n \in Names,
               RowCreated(n) \/ RowDropped(n) \/ RowClosed(n) \/ RowShows(n),
               \A k \in Names \ {n} : RowKept(k)
        PROVE  [Lifecycle!Next]_(Lifecycle!vars)
    <3>1. /\ lifes' = [lifes EXCEPT ![n] = row'[n].life]
          /\ shows' = [shows EXCEPT ![n] = Show(n)']
      BY <2>0, <2>2
    <3>2. CASE RowCreated(n)
      <4>1. Lifecycle!Create(n)
        BY <3>1, <3>2 DEF RowCreated, Row, Lifecycle!Create, Lifecycle!Become
      <4> QED
        BY <4>1 DEF Lifecycle!Next
    <3>3. CASE RowDropped(n)
      <4>1. Lifecycle!Forget(n)
        BY <3>1, <3>3 DEF RowDropped, Row, Lifecycle!Forget, Lifecycle!Become
      <4> QED
        BY <4>1 DEF Lifecycle!Next
    <3>4. CASE RowClosed(n) /\ row[n].life = "live"
      <4>1. Lifecycle!Retire(n)
        BY <3>1, <3>4 DEF RowClosed, Row, Lifecycle!Retire, Lifecycle!Become
      <4> QED
        BY <4>1 DEF Lifecycle!Next
    <3>5. CASE RowClosed(n) /\ row[n].life # "live"
      <4>1. row[n].life = "Unavailable" /\ row[n].from = None
        BY <1>3, <3>5 DEF RowClosed, OrderInv, ShownOK, TInv, TypeOK, Rows
      <4>2. row'[n].life = row[n].life /\ Show(n)' = Show(n)
        BY <3>5, <4>1 DEF RowClosed, Row
      <4>3. UNCHANGED <<lifes, shows>>
        BY <2>0, <2>2, <4>2
      <4> QED
        BY <4>3 DEF Lifecycle!vars
    <3>6. CASE RowShows(n)
      <4>1. Show(n)' = Stamp(row'[n].from)
        BY <2>2, <3>6, ConsumerAssumption DEF RowShows, Stamp
      <4>2. Show(n)' > Show(n)
        BY <1>3, <3>6, <4>1 DEF RowShows, OrderInv, ShownOK
      <4>3. Lifecycle!Report(n)
        BY <3>1, <3>6, <4>2 DEF RowShows, Lifecycle!Report
      <4> QED
        BY <4>3 DEF Lifecycle!Next
    <3> QED
      BY <2>2, <3>2, <3>3, <3>4, <3>5, <3>6
  <2> QED
    BY <1>3, <2>1, <2>2, RowStep
<1> QED
  BY <1>1, <1>2, <1>3, OrderInit, PTL DEF Spec, ImplementsLifecycle, Lifecycle!Spec

-----------------------------------------------------------------------------
(* No account deleted yet: deletions are carried out in order *)

\* No account has been deleted, this step included.
NoDrops == drops = 0 /\ drops' = 0

Done(n) == row[n].life = "Unavailable" /\ n \notin groups /\ n \notin secrets

\* A name without a row has no group and no secret.
AbsentOK == \A n \in Names : row[n].life = "absent" => n \notin groups /\ n \notin secrets

\* Within deleteWorkspace, what comes before the next call has been done.
DeletingAt(c) ==
    /\ pc[c] \in {"token", "group", "secret"} => row[Name(c)].life = "Unavailable"
    /\ pc[c] = "secret" => Name(c) \notin groups
    /\ pc[c] \in {"lookup", "update"} /\ SaysDeleting(Kind(c)) => Done(Name(c))

DeletingOK == \A c \in Consumers : DeletingAt(c)

CleanInv == OrderInv /\ AbsentOK /\ DeletingOK /\ AckedDeletionIsComplete

\* Initially there is no workspace.
LEMMA CleanInit == Init => CleanInv
<1> SUFFICES ASSUME Init PROVE CleanInv
  OBVIOUS
<1>1. OrderInv
  BY OrderInit
<1> QED
  BY <1>1 DEF Init, QueueInit, CleanInv, AbsentOK, DeletingOK, DeletingAt,
     AckedDeletionIsComplete, Row

\* A row is not dropped, and a disabled one stays disabled.
LEMMA RowLife ==
    ASSUME NoDrops, OrderInv, [Next]_vars, NEW n \in Names
    PROVE  /\ row[n].life # "absent" => row'[n].life # "absent"
           /\ row[n].life = "Unavailable" => row'[n].life = "Unavailable"
<1>1. ~DropRow(n)
  BY DEF NoDrops, DropRow, OrderInv, TInv, TypeOK
<1>2. RowDropped(n) => DropRow(n)
  <2> SUFFICES ASSUME RowDropped(n) PROVE DropRow(n)
    OBVIOUS
  <2>1. row \in [Names -> Rows] /\ row'[n].life = "absent" /\ row[n].life # "absent"
    BY DEF RowDropped, Row, OrderInv, TInv, TypeOK
  <2> QED
    BY <2>1 DEF Next, Environment, Step, Tick, Publish, CreateRow, DropRow, Receive,
       Disable, GetToken, DeleteGroup, DeleteSecret, Lookup, UpdateWorkspaceStatus,
       Break, Restart, DeadLettered, vars, store, Row, NoDrops, OrderInv, TInv, TypeOK
<1> QED
  BY <1>1, <1>2, RowStep DEF RowKept, RowCreated, RowClosed, RowShows, Row

\* Groups, and secrets if any, come with a row and go, in this order, with a deletion.
LEMMA NamesStep ==
    ASSUME TInv, DeletingOK, [Next]_vars, NEW n \in Names
    PROVE  /\ n \in groups' \cup secrets' =>
                 \/ row[n].life = "absent"
                 \/ (n \in groups' => n \in groups) /\ (n \in secrets' => n \in secrets)
           /\ row[n].life = "absent" /\ row'[n].life = "absent" =>
                 (n \in groups' => n \in groups) /\ (n \in secrets' => n \in secrets)
           /\ n \in groups /\ n \notin groups' => row[n].life = "Unavailable"
           /\ n \in secrets /\ n \notin secrets' =>
                 row[n].life = "Unavailable" /\ n \notin groups
<1>1. ASSUME NEW k \in Names, NEW t \in 0..clock, CreateRow(k, t)
      PROVE  /\ row[k].life = "absent" /\ row'[k].life = "live"
             /\ \A j \in Names \ {k} : row'[j] = row[j]
             /\ groups' = groups \cup {k}
             /\ secrets' = secrets \/ secrets' = secrets \cup {k}
  BY <1>1 DEF CreateRow, Row, TInv, TypeOK
<1>2. ASSUME NEW c \in Consumers, DeleteGroup(c)
      PROVE  /\ row[Name(c)].life = "Unavailable" /\ UNCHANGED <<row, secrets>>
             /\ groups' = groups \/ groups' = groups \ {Name(c)}
  BY <1>2 DEF DeleteGroup, DeletingOK, DeletingAt
<1>3. ASSUME NEW c \in Consumers, DeleteSecret(c)
      PROVE  /\ row[Name(c)].life = "Unavailable" /\ Name(c) \notin groups
             /\ secrets' = secrets \/ secrets' = secrets \ {Name(c)}
             /\ UNCHANGED <<row, groups>>
  BY <1>3 DEF DeleteSecret, DeletingOK, DeletingAt
<1>4. ASSUME NEW c \in Consumers, Disable(c) \/ UpdateWorkspaceStatus(c)
      PROVE  /\ UNCHANGED <<groups, secrets>>
             /\ \A k \in Names : row[k].life = "absent" => row'[k] = row[k]
  <2>1. \A k \in Names : k # Name(c) => row'[k] = row[k]
    BY <1>4 DEF Disable, UpdateWorkspaceStatus, TInv, TypeOK
  <2> QED
    BY <1>4, <2>1 DEF Disable, UpdateWorkspaceStatus
<1>5. ASSUME NEW k \in Names, DropRow(k)
      PROVE  /\ UNCHANGED <<groups, secrets>>
             /\ \A j \in Names : row[j].life = "absent" => row'[j] = row[j]
  BY <1>5 DEF DropRow, TInv, TypeOK
<1>6. \/ \E k \in Names : DropRow(k) \/ \E t \in 0..clock : CreateRow(k, t)
      \/ \E c \in Consumers : \/ DeleteGroup(c) \/ DeleteSecret(c)
                             \/ Disable(c) \/ UpdateWorkspaceStatus(c)
      \/ UNCHANGED <<row, groups, secrets>>
  BY DEF Next, Environment, Step, Tick, Publish, Receive, GetToken, Lookup, Break,
     Restart, DeadLettered, store, vars
<1> QED
  BY <1>1, <1>2, <1>3, <1>4, <1>5, <1>6

\* What has been deleted stays deleted.
LEMMA DoneStays ==
    ASSUME NoDrops, CleanInv, [Next]_vars, NEW n \in Names, Done(n)
    PROVE  Done(n)'
  BY NamesStep, RowLife DEF CleanInv, OrderInv, Done

\* A step in which c stays where it is, or returns to ReceiveMessage, keeps what
\* is known of the deletion it carries out.
LEMMA Staying ==
    ASSUME NoDrops, CleanInv, [Next]_vars, NEW c \in Consumers,
           pc'[c] = "receive" \/ (pc'[c] = pc[c] /\ cur'[c] = cur[c])
    PROVE  DeletingAt(c)'
<1> SUFFICES ASSUME pc'[c] # "receive" PROVE DeletingAt(c)'
  BY DEF DeletingAt
<1>1. pc'[c] = pc[c] /\ cur'[c] = cur[c]
  OBVIOUS
<1>2. Name(c) \in Names /\ body'[cur[c]] = body[cur[c]]
  BY <1>1, AtWork, BodyKept DEF CleanInv, OrderInv
<1>3. Name(c)' = Name(c) /\ Kind(c)' = Kind(c)
  BY <1>1, <1>2 DEF Name, Kind
<1>4. Done(Name(c)) => Done(Name(c))'
  BY <1>2, <1>3, DoneStays DEF Done
<1>5. row[Name(c)].life = "Unavailable" => row'[Name(c)].life = "Unavailable"
  BY <1>2, RowLife DEF CleanInv
<1>6. row[Name(c)].life = "Unavailable" /\ Name(c) \notin groups => Name(c) \notin groups'
  BY <1>2, NamesStep DEF CleanInv, OrderInv
<1> QED
  BY <1>1, <1>3, <1>4, <1>5, <1>6 DEF CleanInv, DeletingOK, DeletingAt

\* A step of c itself does what the next one counts on.
LEMMA Moving ==
    ASSUME NoDrops, CleanInv, [Next]_vars, NEW c \in Consumers, Step(c)
    PROVE  DeletingAt(c)'
<1>0. /\ TInv /\ row \in [Names -> Rows] /\ pc \in [Consumers -> Labels]
      /\ cur \in [Consumers -> Msgs \cup {None}]
  BY DEF CleanInv, OrderInv, TInv, TypeOK
<1>1. ASSUME NEW m \in Msgs, Receive(c, m)
      PROVE  DeletingAt(c)'
  BY <1>0, <1>1 DEF Receive, Goto, DeletingAt, Kind, SaysDeleting
<1>2. CASE Disable(c)
  <2>0. pc[c] = "disable" /\ Name(c) \in Names
    BY <1>0, <1>2, AtWork DEF Disable
  <2>1. CASE pc'[c] = "receive"
    BY <2>1, Staying
  <2>2. CASE pc'[c] # "receive"
    <3>1. ~GiveUp(c)
      BY <1>0, <2>0, <2>2, SettleStep
    <3>2. pc'[c] = "token" /\ row'[Name(c)].life = "Unavailable" /\ UNCHANGED <<cur, body>>
      BY <1>0, <1>2, <2>0, <3>1 DEF Disable, Goto, Row
    <3> QED
      BY <3>2 DEF DeletingAt, Name
  <2> QED
    BY <2>1, <2>2
<1>3. CASE GetToken(c)
  <2>0. pc[c] = "token"
    BY <1>3 DEF GetToken
  <2>1. CASE pc'[c] = "receive"
    BY <2>1, Staying
  <2>2. CASE pc'[c] # "receive"
    <3>1. pc'[c] = "group" /\ UNCHANGED <<cur, body, row>>
      BY <1>0, <1>3, <2>0, <2>2, SettleStep DEF GetToken, Goto, store
    <3> QED
      BY <2>0, <3>1 DEF CleanInv, DeletingOK, DeletingAt, Name
  <2> QED
    BY <2>1, <2>2
<1>4. CASE DeleteGroup(c)
  <2>0. pc[c] = "group"
    BY <1>4 DEF DeleteGroup
  <2>1. CASE pc'[c] = "receive"
    BY <2>1, Staying
  <2>2. CASE pc'[c] # "receive"
    <3>1. /\ pc'[c] = "secret" /\ UNCHANGED <<cur, body, row>>
          /\ Name(c) \notin groups'
      BY <1>0, <1>4, <2>0, <2>2, SettleStep DEF DeleteGroup, Goto
    <3> QED
      BY <2>0, <3>1 DEF CleanInv, DeletingOK, DeletingAt, Name
  <2> QED
    BY <2>1, <2>2
<1>5. CASE DeleteSecret(c)
  <2>0. pc[c] = "secret"
    BY <1>5 DEF DeleteSecret
  <2>1. CASE pc'[c] = "receive"
    BY <2>1, Staying
  <2>2. CASE pc'[c] # "receive"
    <3>1. /\ pc'[c] = "lookup" /\ UNCHANGED <<cur, body, row, groups>>
          /\ secrets' = secrets \ {Name(c)}
      BY <1>0, <1>5, <2>0, <2>2, SettleStep DEF DeleteSecret, Goto
    <3> QED
      BY <2>0, <3>1 DEF CleanInv, DeletingOK, DeletingAt, Name, Done
  <2> QED
    BY <2>1, <2>2
<1>6. CASE Lookup(c)
  <2>0. pc[c] = "lookup" /\ UNCHANGED <<cur, body, store>>
    BY <1>6 DEF Lookup
  <2>1. CASE pc'[c] = "receive"
    BY <2>1, Staying
  <2>2. CASE pc'[c] # "receive"
    <3>1. pc'[c] \in {"disable", "update"}
      BY <1>0, <1>6, <2>0, <2>2, SettleStep DEF Lookup, Goto
    <3>2. SaysDeleting(Kind(c)) => Done(Name(c))
      BY <2>0 DEF CleanInv, DeletingOK, DeletingAt
    <3> QED
      BY <2>0, <3>1, <3>2 DEF DeletingAt, Name, Kind, Done, store
  <2> QED
    BY <2>1, <2>2
<1>7. CASE UpdateWorkspaceStatus(c)
  <2>1. pc'[c] = "receive"
    BY <1>0, <1>7, SettleStep DEF UpdateWorkspaceStatus
  <2> QED
    BY <2>1, Staying
<1> QED
  BY <1>1, <1>2, <1>3, <1>4, <1>5, <1>6, <1>7 DEF Step

\* Every step of the system keeps what is known of the deletions under way.
LEMMA DeletingStep ==
    ASSUME NoDrops, CleanInv, [Next]_vars
    PROVE  DeletingOK'
<1>0. TInv /\ pc \in [Consumers -> Labels] /\ cur \in [Consumers -> Msgs \cup {None}]
  BY DEF CleanInv, OrderInv, TInv, TypeOK
<1> SUFFICES ASSUME NEW c \in Consumers PROVE DeletingAt(c)'
  BY DEF DeletingOK
<1>1. CASE Step(c)
  BY <1>1, Moving
<1>2. ASSUME NEW d \in Consumers \ {c}, Step(d)
      PROVE  pc'[c] = pc[c] /\ cur'[c] = cur[c]
  BY <1>0, <1>2 DEF Step, Receive, Disable, GetToken, DeleteGroup, DeleteSecret, Lookup,
     UpdateWorkspaceStatus, Finish, GiveUp, Goto
<1>3. ASSUME \/ Environment \/ \E d \in Consumers : Break(d) \/ Restart(d)
             \/ \E m \in Msgs : DeadLettered(m)
             \/ UNCHANGED vars
      PROVE  (pc'[c] = "receive" \/ pc'[c] = pc[c]) /\ cur'[c] = cur[c]
  BY <1>0, <1>3 DEF Environment, Tick, Publish, CreateRow, DropRow, Break, Restart,
     DeadLettered, Goto, process, vars
<1> QED
  BY <1>1, <1>2, <1>3, Staying DEF Next

\* Every step acknowledges only the message a consumer holds in its hands, and
\* a Deleting one only when all is done.
LEMMA AckedStep ==
    ASSUME NoDrops, CleanInv, [Next]_vars
    PROVE  AckedDeletionIsComplete'
<1>0. TInv /\ QueueInv /\ TInv'
  BY TypeStep DEF CleanInv, OrderInv, TInv, TypeOK, QueueInv
<1>1. ASSUME NEW m \in Msgs, place[m] = "acked", SaysDeleting(body[m].kind),
             NEW n \in Names, n = body[m].name
      PROVE  Done(n)'
  <2>1. Done(n)
    BY <1>1 DEF CleanInv, AckedDeletionIsComplete, Done, NoDrops
  <2> QED
    BY <2>1, DoneStays
<1>2. ASSUME NEW m \in Msgs, place[m] # "unsent"
      PROVE  body'[m] = body[m] /\ body[m].name \in Names
  BY <1>0, <1>2, BodyKept DEF TInv, BodiesOK, Statuses
<1>3. SUFFICES ASSUME NEW m \in Msgs, place[m] # "acked", place'[m] = "acked",
                      SaysDeleting(body'[m].kind),
                      NEW n \in Names, n = body'[m].name
               PROVE  Done(n)'
  <2> SUFFICES ASSUME NEW m \in Msgs, place'[m] = "acked", SaysDeleting(body'[m].kind)
               PROVE  Done(body[m].name)'
    BY DEF AckedDeletionIsComplete, Done
  <2>1. body'[m].name \in Names
    BY <1>0 DEF TInv, BodiesOK, Statuses
  <2>2. ASSUME NEW n \in Names, n = body'[m].name
        PROVE  Done(n)'
    BY <1>1, <1>2, <1>3, <2>2
  <2> QED
    BY <2>1, <2>2 DEF Done
<1>4. ~AcksOnly({})
  BY <1>3 DEF AcksOnly
<1>5. ASSUME NEW c \in Consumers, pc[c] # "receive", AcksOnly({cur[c]}),
             SaysDeleting(Kind(c)) /\ n = Name(c) => Done(n)'
      PROVE  Done(n)'
  BY <1>2, <1>3, <1>5, AtWork, <1>0 DEF AcksOnly, Kind, Name
<1>6. ASSUME NEW c \in Consumers, DeleteSecret(c)
      PROVE  Done(n)'
  <2>1. pc[c] = "secret"
    BY <1>6 DEF DeleteSecret
  <2>2. ~GiveUp(c)
    BY <1>0, <1>4, <2>1, SettleStep
  <2>3. Ack(cur[c]) /\ UNCHANGED <<row, groups>> /\ secrets' = secrets \ {Name(c)}
    BY <1>6, <2>2 DEF DeleteSecret
  <2>4. AcksOnly({cur[c]})
    BY <1>0, <2>1, <2>3, AtWork, AckStep
  <2>5. n = Name(c) => Done(n)'
    BY <2>1, <2>3 DEF CleanInv, DeletingOK, DeletingAt, Done
  <2> QED
    BY <1>5, <2>1, <2>4, <2>5
<1>7. ASSUME NEW c \in Consumers, Lookup(c) \/ UpdateWorkspaceStatus(c)
      PROVE  Done(n)'
  <2>1. pc[c] \in {"lookup", "update"}
    BY <1>7 DEF Lookup, UpdateWorkspaceStatus
  <2>2. ASSUME SaysDeleting(Kind(c)), n = Name(c)
        PROVE  Done(n)'
    BY <2>1, <2>2, DoneStays DEF CleanInv, DeletingOK, DeletingAt
  <2>3. CASE GiveUp(c) \/ Finish(c)
    BY <1>0, <1>5, <2>1, <2>2, <2>3, SettleStep
  <2>4. CASE UNCHANGED queueVars
    BY <1>0, <1>4, <2>4, QueueUnchanged
  <2> QED
    BY <1>7, <2>3, <2>4 DEF Lookup, UpdateWorkspaceStatus
<1>8. ASSUME NEW c \in Consumers, Disable(c) \/ GetToken(c) \/ DeleteGroup(c)
      PROVE  FALSE
  <2>1. pc[c] # "receive" /\ (GiveUp(c) \/ UNCHANGED queueVars)
    BY <1>8 DEF Disable, GetToken, DeleteGroup
  <2> QED
    BY <1>0, <1>4, <2>1, SettleStep, QueueUnchanged
<1>9. ASSUME \/ Tick \/ UNCHANGED vars
             \/ \E k \in Names : DropRow(k) \/ \E t \in 0..clock : CreateRow(k, t)
      PROVE  FALSE
  BY <1>0, <1>4, <1>9, QueueUnchanged DEF Tick, DropRow, CreateRow, vars, queueVars
<1>10. ~\E x \in Msgs : \/ DeadLettered(x)
                        \/ \E k \in Names, l \in Kinds : Publish(x, k, l)
                        \/ \E c \in Consumers : Receive(c, x)
  BY <1>0, <1>4, SendStep, DeliverStep, DeadLetterStep DEF DeadLettered, Publish, Receive
<1>11. ~\E c \in Consumers : Break(c) \/ Restart(c)
  BY <1>0, <1>4, ReleaseStep DEF Break, Restart
<1> QED
  BY <1>6, <1>7, <1>8, <1>9, <1>10, <1>11 DEF Next, Environment, Step

\* A step that deletes no account preserves the invariant.
LEMMA CleanStep == Undisturbed /\ NoDrops /\ CleanInv /\ [Next]_vars => CleanInv'
<1> SUFFICES ASSUME Undisturbed, NoDrops, CleanInv, [Next]_vars PROVE CleanInv'
  OBVIOUS
<1>1. OrderInv'
  BY OrderStep DEF CleanInv
<1>2. DeletingOK' /\ AckedDeletionIsComplete'
  BY DeletingStep, AckedStep
<1>3. AbsentOK'
  BY NamesStep, RowLife DEF CleanInv, OrderInv, AbsentOK
<1> QED
  BY <1>1, <1>2, <1>3 DEF CleanInv

\* The invariant holds until an account is deleted.
CleanUntilDrop == OrderInv /\ (drops = 0 => CleanInv)

\* Deletions of accounts are counted.
LEMMA DropsCounted ==
    ASSUME TInv, [Next]_vars, drops' = 0
    PROVE  NoDrops
<1>1. drops \in Nat
  BY ConsumerAssumption DEF TInv, TypeOK
<1>2. drops' = drops \/ drops' = drops + 1
  BY DEF Next, Environment, Step, Tick, Publish, CreateRow, DropRow, Receive,
     Disable, GetToken, DeleteGroup, DeleteSecret, Lookup, UpdateWorkspaceStatus,
     Break, Restart, DeadLettered, vars
<1> QED
  BY <1>1, <1>2 DEF NoDrops

\* The invariant is inductive.
LEMMA CleanUntilDropStep == Undisturbed /\ CleanUntilDrop /\ [Next]_vars => CleanUntilDrop'
<1> SUFFICES ASSUME Undisturbed, CleanUntilDrop, [Next]_vars PROVE CleanUntilDrop'
  OBVIOUS
<1>1. OrderInv'
  BY OrderStep DEF CleanUntilDrop
<1>2. ASSUME drops' = 0 PROVE CleanInv'
  <2>1. NoDrops
    BY <1>2, DropsCounted DEF CleanUntilDrop, OrderInv
  <2>2. CleanInv
    BY <2>1 DEF NoDrops, CleanUntilDrop
  <2> QED
    BY <2>1, <2>2, CleanStep
<1> QED
  BY <1>1, <1>2 DEF CleanUntilDrop

\* As long as no update is disturbed, and until an account is deleted, the clean-up
\* of a deletion runs in its order, whatever fails, breaks or is delivered again, and
\* though several consumers may carry out the same deletion at once.
THEOREM CleanOrder == Spec /\ []Undisturbed => CleanupInOrder
<1> DEFINE InOrder == drops = 0 =>
               \A n \in Names :
                   /\ n \in groups \ groups' => row[n].life = "Unavailable"
                   /\ n \in secrets \ secrets' =>
                         row[n].life = "Unavailable" /\ n \notin groups
<1>1. Init => CleanUntilDrop
  BY CleanInit DEF CleanUntilDrop, CleanInv
<1>2. CleanUntilDrop /\ [Next]_vars => InOrder
  BY NamesStep DEF CleanUntilDrop, CleanInv, OrderInv
<1>3. (Spec /\ []Undisturbed) => [][InOrder]_vars
  BY <1>1, <1>2, CleanUntilDropStep, PTL DEF Spec
<1> QED
  BY <1>3 DEF CleanupInOrder

\* Likewise an acknowledged deletion was carried out in full.
THEOREM CleanDeletion == Spec /\ []Undisturbed => []AckedDeletionIsComplete
<1>1. Init => CleanUntilDrop
  BY CleanInit DEF CleanUntilDrop, CleanInv
<1>2. CleanUntilDrop => AckedDeletionIsComplete
  BY DEF CleanUntilDrop, CleanInv, AckedDeletionIsComplete
<1> QED
  BY <1>1, <1>2, CleanUntilDropStep, PTL DEF Spec

-----------------------------------------------------------------------------
(* One consumer *)

OneConsumer == \A c, d \in Consumers : c = d

\* A single consumer disturbs nobody: all of the above holds without a condition.
THEOREM WithOneConsumer ==
    ASSUME OneConsumer
    PROVE  Spec => /\ []RowShowsNewest
                   /\ DisabledForGood
                   /\ ImplementsLifecycle
                   /\ CleanupInOrder
                   /\ []AckedDeletionIsComplete
<1>1. Undisturbed
  BY DEF OneConsumer, Undisturbed
<1> QED
  BY <1>1, StatusesInOrder, NoResurrection, Refinement, CleanOrder, CleanDeletion, PTL
-----------------------------------------------------------------------------
(* Why a status settles: a consumer holds only what it works on, and it has *)
(* a bounded number of calls left.  That it makes them is fairness.         *)

\* A message that can be read is held only by a consumer that works on it, so none
\* is forgotten in the hands of one that went on to the next: every way back to
\* ReceiveMessage acknowledges it, refuses it or loses the connection.
HeldIsWorkedOn ==
    \A m \in Msgs, c \in Consumers :
        place[m] = c /\ body[m].kind # "Garbage" => pc[c] # "receive" /\ cur[c] = m

HeldInv == TInv /\ HeldIsWorkedOn

\* A consumer that is done with its message does not hold it any more, whoever does.
LEMMA LetsGo ==
    ASSUME TInv, NEW c \in Consumers, pc[c] # "receive", GiveUp(c) \/ Ack(cur[c])
    PROVE  /\ place'[cur[c]] # c
           /\ \A m \in Msgs, d \in Consumers : place'[m] = d => place[m] = d
<1>1. cur[c] \in Msgs
  BY AtWork
<1>2. place \in [Msgs -> Places \cup Consumers] /\ Consumers \cap Places = {}
  BY SubscriptionAssumption DEF TInv, TypeOK, QueueTypeOK
<1>3. CASE GiveUp(c)
  BY <1>1, <1>2, <1>3 DEF GiveUp, Nack, queueVars, Places
<1>4. CASE Ack(cur[c])
  BY <1>1, <1>2, <1>4 DEF Ack, Places
<1> QED
  BY <1>3, <1>4

\* A step of a consumer at work goes on with its message or lets it go.
LEMMA WorkStep ==
    ASSUME HeldInv, NEW c \in Consumers, pc[c] # "receive", UNCHANGED <<body, cur>>,
           NEW l \in Labels, Goto(c, l),
           (UNCHANGED queueVars /\ l # "receive") \/ GiveUp(c) \/ Ack(cur[c])
    PROVE  HeldIsWorkedOn'
<1> SUFFICES ASSUME NEW m \in Msgs, NEW d \in Consumers, place'[m] = d,
                    body'[m].kind # "Garbage"
             PROVE  pc'[d] # "receive" /\ cur'[d] = m
  BY DEF HeldIsWorkedOn
<1>1. pc \in [Consumers -> Labels]
  BY DEF HeldInv, TInv, TypeOK
<1>2. CASE UNCHANGED queueVars /\ l # "receive"
  BY <1>1, <1>2 DEF queueVars, Goto, HeldInv, HeldIsWorkedOn
<1>3. CASE GiveUp(c) \/ Ack(cur[c])
  <2>1. place[m] = d /\ place'[cur[c]] # c
    BY <1>3, LetsGo DEF HeldInv
  <2>2. pc[d] # "receive" /\ cur[d] = m
    BY <2>1 DEF HeldInv, HeldIsWorkedOn
  <2>3. d # c
    BY <2>1, <2>2
  <2> QED
    BY <1>1, <2>2, <2>3 DEF Goto
<1> QED
  BY <1>2, <1>3

\* Every step preserves it.
LEMMA HeldStep == HeldInv /\ [Next]_vars => HeldIsWorkedOn'
<1> SUFFICES ASSUME HeldInv, [Next]_vars PROVE HeldIsWorkedOn'
  OBVIOUS
<1>0. /\ pc \in [Consumers -> Labels] /\ place \in [Msgs -> Places \cup Consumers]
      /\ cur \in [Consumers -> Msgs \cup {None}] /\ body \in [Msgs -> Statuses \cup {None}]
      /\ Consumers \cap Places = {}
  BY SubscriptionAssumption DEF HeldInv, TInv, TypeOK, QueueTypeOK
<1> USE <1>0
<1>1. CASE UNCHANGED <<place, body, pc, cur>>
  BY <1>1 DEF HeldInv, HeldIsWorkedOn
\* What is published is in nobody's hands.
<1>2. ASSUME NEW m \in Msgs, NEW n \in Names, NEW k \in Kinds, Publish(m, n, k)
      PROVE  HeldIsWorkedOn'
  BY <1>2 DEF Publish, Send, process, Places, HeldInv, HeldIsWorkedOn
<1>3. ASSUME NEW m \in Msgs, DeadLettered(m)
      PROVE  HeldIsWorkedOn'
  BY <1>3 DEF DeadLettered, DeadLetter, process, Places, HeldInv, HeldIsWorkedOn
\* A consumer receives when it holds nothing that can be read.
<1>4. ASSUME NEW c \in Consumers, NEW m \in Msgs, Receive(c, m)
      PROVE  HeldIsWorkedOn'
  <2>1. /\ pc[c] = "receive" /\ body' = body
        /\ place' = [place EXCEPT ![m] = c] /\ cur' = [cur EXCEPT ![c] = m]
    BY <1>4 DEF Receive, Deliver
  <2>2. \A d \in Consumers \ {c} : pc'[d] = pc[d]
    BY <1>4 DEF Receive, Goto
  <2>3. body[m].kind # "Garbage" => pc'[c] # "receive"
    BY <1>4 DEF Receive, Goto, SaysDeleting
  <2> QED
    BY <2>1, <2>2, <2>3 DEF HeldInv, HeldIsWorkedOn
<1>5. ASSUME NEW c \in Consumers, Disable(c) \/ GetToken(c) \/ DeleteGroup(c)
      PROVE  HeldIsWorkedOn'
  <2>1. pc[c] # "receive" /\ UNCHANGED <<body, cur>>
    BY <1>5 DEF Disable, GetToken, DeleteGroup
  <2>2. GiveUp(c) \/ \E l \in Labels \ {"receive"} : Goto(c, l) /\ UNCHANGED queueVars
    BY <1>5 DEF Disable, GetToken, DeleteGroup, Labels
  <2>3. GiveUp(c) => Goto(c, "receive") /\ "receive" \in Labels
    BY DEF GiveUp, Labels
  <2> QED
    BY <2>1, <2>2, <2>3, WorkStep
<1>6. ASSUME NEW c \in Consumers, DeleteSecret(c)
      PROVE  HeldIsWorkedOn'
  <2>1. pc[c] # "receive" /\ UNCHANGED <<body, cur>>
    BY <1>6 DEF DeleteSecret
  <2>2. GiveUp(c) \/ \E l \in Labels : Goto(c, l) /\ Ack(cur[c])
    BY <1>6 DEF DeleteSecret, Labels
  <2>3. GiveUp(c) => Goto(c, "receive") /\ "receive" \in Labels
    BY DEF GiveUp, Labels
  <2> QED
    BY <2>1, <2>2, <2>3, WorkStep
<1>7. ASSUME NEW c \in Consumers, Lookup(c) \/ UpdateWorkspaceStatus(c)
      PROVE  HeldIsWorkedOn'
  <2>1. pc[c] # "receive" /\ UNCHANGED <<body, cur>>
    BY <1>7 DEF Lookup, UpdateWorkspaceStatus
  <2>2. \/ GiveUp(c) \/ Finish(c)
        \/ \E l \in Labels \ {"receive"} : Goto(c, l) /\ UNCHANGED queueVars
    BY <1>7 DEF Lookup, UpdateWorkspaceStatus, Labels
  <2>3. /\ GiveUp(c) => Goto(c, "receive") /\ "receive" \in Labels
        /\ Finish(c) => Goto(c, "receive") /\ Ack(cur[c]) /\ "receive" \in Labels
    BY DEF GiveUp, Finish, Labels
  <2> QED
    BY <2>1, <2>2, <2>3, WorkStep
\* With its connection a consumer loses all it holds.
<1>8. ASSUME NEW c \in Consumers, Break(c) \/ Restart(c)
      PROVE  HeldIsWorkedOn'
  <2>1. /\ UNCHANGED <<body, cur>>
        /\ place' = [m \in Msgs |-> IF place[m] = c THEN "backlog" ELSE place[m]]
        /\ \A d \in Consumers \ {c} : pc'[d] = pc[d]
    BY <1>8 DEF Break, Restart, Release, Goto, process
  <2> QED
    BY <2>1 DEF Places, HeldInv, HeldIsWorkedOn
<1>9. CASE Environment /\ UNCHANGED <<place, body>>
  BY <1>1, <1>9 DEF Environment, Tick, Publish, DropRow, CreateRow, process
<1> QED
  BY <1>1, <1>2, <1>3, <1>4, <1>5, <1>6, <1>7, <1>8, <1>9
     DEF Next, Environment, Step, Tick, DropRow, CreateRow, process, queueVars, vars

\* No status that can be read is left in the hands of a consumer that is done with
\* it, whatever fails, breaks or restarts, with any number of consumers.
THEOREM NothingIsStuck == Spec => []HeldIsWorkedOn
<1>1. Init => HeldIsWorkedOn
  BY SubscriptionAssumption DEF Init, QueueInit, HeldIsWorkedOn, Places
<1> QED
  BY <1>1, TypeInit, TypeStep, HeldStep, PTL DEF Spec, HeldInv

\* The calls c may still make for its message: a deletion is looked up afterwards,
\* and may find the workspace again under another account, with no namespace.
CallsLeft(c) == CASE pc[c] = "receive" -> 0
                  [] pc[c] = "update"  -> 1
                  [] pc[c] = "secret"  -> IF call[c] = "gone" THEN 1 ELSE 6
                  [] pc[c] = "group"   -> IF call[c] = "gone" THEN 2 ELSE 7
                  [] pc[c] = "token"   -> IF call[c] = "gone" THEN 3 ELSE 8
                  [] pc[c] = "disable" -> IF call[c] = "gone" THEN 4 ELSE 9
                  [] pc[c] = "lookup"  -> 5

\* A step of a consumer at work takes one of the calls left.
CallsRunOut == \A c \in Consumers : pc[c] # "receive" =>
                  /\ CallsLeft(c)' <= CallsLeft(c)
                  /\ Step(c) => CallsLeft(c)' < CallsLeft(c)

\* A consumer is done with a message after nine calls at most: no status, and no
\* failure, sends it round the clean-up for ever (consume.go:38-128).
THEOREM DeliveriesEnd == Spec => [][CallsRunOut]_vars
<1>1. TInv /\ TInv' /\ Next => CallsRunOut
  <2> SUFFICES ASSUME TInv, TInv', Next, NEW c \in Consumers, pc[c] # "receive"
               PROVE  /\ CallsLeft(c)' <= CallsLeft(c)
                      /\ Step(c) => CallsLeft(c)' < CallsLeft(c)
    BY DEF CallsRunOut
  <2>0. /\ pc \in [Consumers -> Labels]
        /\ call \in [Consumers -> {"deleting", "gone"}]
    BY DEF TInv, TypeOK
  <2> USE <2>0
  <2>1. ASSUME UNCHANGED <<pc, call>> \/ (pc'[c] = pc[c] /\ call'[c] = call[c])
        PROVE  CallsLeft(c)' = CallsLeft(c)
    BY <2>1 DEF CallsLeft
  <2>2. CallsLeft(c) \in 1..9
    BY DEF CallsLeft, Labels
  <2>3. ASSUME Goto(c, "receive")
        PROVE  CallsLeft(c)' < CallsLeft(c)
    <3>1. CallsLeft(c)' = 0
      BY <2>3 DEF CallsLeft, Goto
    <3> QED
      BY <2>2, <3>1
  <2>4. ASSUME Step(c)
        PROVE  CallsLeft(c)' < CallsLeft(c)
    <3> USE DEF Goto, CallsLeft
    <3>1. CASE Disable(c)
      BY <2>3, <3>1 DEF Disable, GiveUp
    <3>2. CASE GetToken(c)
      BY <2>3, <3>2 DEF GetToken, GiveUp
    <3>3. CASE DeleteGroup(c)
      BY <2>3, <3>3 DEF DeleteGroup, GiveUp
    <3>4. CASE DeleteSecret(c)
      BY <2>3, <3>4 DEF DeleteSecret, GiveUp
    <3>5. CASE Lookup(c)
      BY <2>3, <3>5 DEF Lookup, Finish
    <3>6. CASE UpdateWorkspaceStatus(c)
      BY <2>3, <3>6 DEF UpdateWorkspaceStatus, Finish, GiveUp
    <3> QED
      BY <2>4, <3>1, <3>2, <3>3, <3>4, <3>5, <3>6 DEF Step, Receive
  <2>5. ASSUME NEW d \in Consumers \ {c}, Step(d) \/ Break(d) \/ Restart(d)
        PROVE  pc'[c] = pc[c] /\ call'[c] = call[c]
    <3>1. CASE Step(d)
      BY <2>5, <3>1
         DEF Step, Receive, Disable, GetToken, DeleteGroup, DeleteSecret, Lookup,
             UpdateWorkspaceStatus, Finish, GiveUp, Goto
    <3>2. CASE Break(d) \/ Restart(d)
      BY <2>5, <3>2 DEF Break, Restart, Goto, process
    <3> QED
      BY <2>5, <3>1, <3>2
  <2>6. ASSUME ~Step(c), ~Restart(c), ~\E d \in Consumers \ {c} : Step(d) \/ Restart(d)
        PROVE  UNCHANGED <<pc, call>>
    BY <2>6 DEF Next, Environment, Tick, Publish, DropRow, CreateRow, Break,
       DeadLettered, process
  <2>7. ASSUME Restart(c)
        PROVE  CallsLeft(c)' < CallsLeft(c)
    BY <2>3, <2>7 DEF Restart
  <2>8. ASSUME ~Step(c), ~Restart(c)
        PROVE  CallsLeft(c)' = CallsLeft(c)
    BY <2>1, <2>5, <2>6, <2>8
  <2>9. CallsLeft(c)' \in 0..9
    <3>1. pc' \in [Consumers -> Labels] /\ call' \in [Consumers -> {"deleting", "gone"}]
      BY DEF TInv, TypeOK
    <3> QED
      BY <3>1 DEF CallsLeft, Labels
  <2> QED
    BY <2>2, <2>4, <2>7, <2>8, <2>9
<1> QED
  BY <1>1, TypeInit, TypeStep, PTL DEF Spec
=============================================================================
