----------------------- MODULE WorkspaceCreation_proofs -----------------------
(***************************************************************************)
(* Theorems about WorkspaceCreation, for any number of requests, names and *)
(* accounts and every value of the bounds.                                 *)
(***************************************************************************)
EXTENDS WorkspaceCreation, TLAPS

-----------------------------------------------------------------------------
(* Type correctness *)

\* A request that is not done has an attempt left.
AttemptsLeft == \A r \in Requests : pc[r] # "done" => attempt[r] < maxRetries

TInv == TypeOK /\ AttemptsLeft

\* The initial state is well formed.
LEMMA TypeInit == Init => TInv
  BY CreationAssumption DEF Init, TInv, AttemptsLeft, TypeOK, Labels, Answers

\* Every step keeps the state well formed.
LEMMA TypeStep == TInv /\ [Next]_vars => TInv'
<1> SUFFICES ASSUME TInv, [Next]_vars PROVE TInv'
  OBVIOUS
<1> USE CreationAssumption
<1> USE DEF TInv, AttemptsLeft, TypeOK, Labels, Answers, Goto, Reply, Continue, Fault,
        NoFault
<1>1. ASSUME NEW r \in Requests, CheckAccount(r)
      PROVE  TInv'
  BY <1>1, SMTT(60) DEF CheckAccount, input, external
<1>2. ASSUME NEW r \in Requests, CheckExists(r)
      PROVE  TInv'
  BY <1>2, SMTT(60) DEF CheckExists, input, external
<1>3. ASSUME NEW r \in Requests, CreateGroup(r)
      PROVE  TInv'
  BY <1>3, SMTT(60) DEF CreateGroup, input, external
<1>4. ASSUME NEW r \in Requests, GetGroup(r)
      PROVE  TInv'
  BY <1>4, SMTT(60) DEF GetGroup, input, external
<1>5. ASSUME NEW r \in Requests, AddMember(r)
      PROVE  TInv'
  BY <1>5, SMTT(60) DEF AddMember, input, external
<1>6. ASSUME NEW r \in Requests, Insert(r)
      PROVE  TInv'
  BY <1>6, SMTT(60) DEF Insert, input, external
<1>7. ASSUME NEW r \in Requests, Publish(r)
      PROVE  TInv'
  BY <1>7, SMTT(60) DEF Publish, StopPublishing, LastAttempt, input, external
<1>8. ASSUME NEW r \in Requests, Commit(r)
      PROVE  TInv'
  BY <1>8, SMTT(60) DEF Commit, input, external
<1>9. ASSUME NEW a \in Accounts, Approve(a)
      PROVE  TInv'
  BY <1>9, SMTT(60) DEF Approve, local, input, external
<1>10. ASSUME NEW a \in Accounts, DeleteAccount(a)
      PROVE  TInv'
  BY <1>10, SMTT(60) DEF DeleteAccount, Owned, local, input, external
<1>11. CASE Crash
  BY <1>11, SMTT(60) DEF Crash, local, input, external
<1>12. ASSUME NEW n \in Names, Retire(n)
      PROVE  TInv'
  BY <1>12, SMTT(60) DEF Retire, local, input, external
<1>13. ASSUME NEW n \in Names, RemoveGroup(n)
      PROVE  TInv'
  BY <1>13, SMTT(60) DEF RemoveGroup, local, input, external
<1>14. CASE UNCHANGED vars
  BY <1>14 DEF vars, input, external
<1> QED
  BY <1>1, <1>2, <1>3, <1>4, <1>5, <1>6, <1>7, <1>8, <1>9, <1>10, <1>11, <1>12, <1>13, <1>14
     DEF Next, Step

\* The state stays well formed; in particular no request sends more often than
\* maxRetries times.
THEOREM TypeCorrect == Spec => []TypeOK
<1>1. Init => TInv
  BY TypeInit
<1>2. TInv /\ [Next]_vars => TInv'
  BY TypeStep
<1>3. TInv => TypeOK
  BY DEF TInv
<1> QED
  BY <1>1, <1>2, <1>3, PTL DEF Spec

-----------------------------------------------------------------------------
(* The inductive invariant *)

\* A request at work on a name whose group nobody deletes made that group, and its
\* user is in it by the time the row is inserted.
HoldsGroup == \A r \in Requests : Building(r) /\ name[r] \notin leaving =>
                /\ group[name[r]] = r
                /\ pc[r] \in {"insert", "publish", "commit"} => r \in members[name[r]]

\* While a transaction is open its request can still succeed.
OpenIsHopeful == \A r \in Requests :
                   /\ pc[r] \in {"publish", "commit"} => tx[r] = "open"
                   /\ tx[r] = "open" => pc[r] \in {"publish", "commit"} /\ Hopeful(r)

\* Of the transactions for a name one is open: the INSERT of another one waits.
OneOpen == \A r, s \in Requests :
              tx[r] = "open" /\ tx[s] = "open" /\ name[r] = name[s] => r = s

\* Only groups of deleted workspaces are deleted.
LeavingIsUnavailable == \A n \in leaving \ orphaned : life[n] = "Unavailable"

\* The rows that exist are those of the live and of the Unavailable workspaces.
RowsAgree == \A n \in Names : row[n] = None <=> life[n] = "absent"

AnnouncedFirst == \A r \in Requests : pc[r] = "commit" => r \in announced

IInv == /\ HoldsGroup /\ OpenIsHopeful /\ OneOpen /\ LeavingIsUnavailable /\ RowsAgree
        /\ AnnouncedFirst
        /\ CreatorIsMember /\ CommittedIsAnnounced

\* The initial state satisfies the invariant.
LEMMA InvInit == Init => IInv
  BY CreationAssumption
     DEF Init, IInv, HoldsGroup, OpenIsHopeful, OneOpen, LeavingIsUnavailable, RowsAgree,
     AnnouncedFirst, CreatorIsMember, CommittedIsAnnounced, Hopeful, Building

\* Every step preserves the invariant.
LEMMA InvStep == TypeOK /\ IInv /\ [Next]_vars => IInv'
<1> SUFFICES ASSUME TypeOK, IInv, [Next]_vars PROVE IInv'
  OBVIOUS
<1> USE CreationAssumption
<1> USE DEF TypeOK, IInv, Hopeful, Building
<1>1. ASSUME NEW r \in Requests, CheckAccount(r)
      PROVE  IInv'
  BY <1>1
     DEF CheckAccount, Goto, Reply, Continue, input, external,
     HoldsGroup, OpenIsHopeful, OneOpen, LeavingIsUnavailable, RowsAgree,
     AnnouncedFirst, CreatorIsMember, CommittedIsAnnounced
<1>2. ASSUME NEW r \in Requests, CheckExists(r)
      PROVE  IInv'
  BY <1>2
     DEF CheckExists, Goto, Reply, Continue, input, external,
     HoldsGroup, OpenIsHopeful, OneOpen, LeavingIsUnavailable, RowsAgree,
     AnnouncedFirst, CreatorIsMember, CommittedIsAnnounced
\* The group of another request at work on the name would still be there.
<1>3. ASSUME NEW r \in Requests, CreateGroup(r)
      PROVE  IInv'
  <2> USE <1>3 DEF CreateGroup, Goto, Reply, Continue, input, external
  <2>1. HoldsGroup'
    BY DEF HoldsGroup
  <2>2. OpenIsHopeful'
    BY DEF OpenIsHopeful
  <2>3. CreatorIsMember'
    BY DEF CreatorIsMember
  <2>4. /\ OneOpen' /\ LeavingIsUnavailable' /\ RowsAgree'
        /\ AnnouncedFirst' /\ CommittedIsAnnounced'
    BY DEF OneOpen, LeavingIsUnavailable, RowsAgree,
       AnnouncedFirst, CommittedIsAnnounced
  <2> QED
    BY <2>1, <2>2, <2>3, <2>4
<1>4. ASSUME NEW r \in Requests, GetGroup(r)
      PROVE  IInv'
  BY <1>4
     DEF GetGroup, Goto, Reply, Continue, input, external,
     HoldsGroup, OpenIsHopeful, OneOpen, LeavingIsUnavailable, RowsAgree,
     AnnouncedFirst, CreatorIsMember, CommittedIsAnnounced
\* GetGroup found the group of r, unless the consumer deletes groups of the name.
<1>5. ASSUME NEW r \in Requests, AddMember(r)
      PROVE  IInv'
  <2> USE <1>5 DEF AddMember, Goto, Reply, Continue, input, external
  <2>1. HoldsGroup'
    BY DEF HoldsGroup
  <2>2. OpenIsHopeful'
    BY DEF OpenIsHopeful
  <2>3. CreatorIsMember'
    BY DEF CreatorIsMember
  <2>4. /\ OneOpen' /\ LeavingIsUnavailable' /\ RowsAgree'
        /\ AnnouncedFirst' /\ CommittedIsAnnounced'
    BY DEF OneOpen, LeavingIsUnavailable, RowsAgree,
       AnnouncedFirst, CommittedIsAnnounced
  <2> QED
    BY <2>1, <2>2, <2>3, <2>4
\* No other transaction for the name is open, and the name has no row.
<1>6. ASSUME NEW r \in Requests, Insert(r)
      PROVE  IInv'
  <2> USE <1>6 DEF Insert, Goto, Reply, Continue, input, external
  <2>1. HoldsGroup'
    BY DEF HoldsGroup
  <2>2. OpenIsHopeful'
    BY DEF OpenIsHopeful
  <2>3. OneOpen'
    BY DEF OneOpen
  <2>4. /\ LeavingIsUnavailable' /\ RowsAgree' /\ AnnouncedFirst'
        /\ CreatorIsMember' /\ CommittedIsAnnounced'
    BY DEF LeavingIsUnavailable, RowsAgree, AnnouncedFirst,
       CreatorIsMember, CommittedIsAnnounced
  <2> QED
    BY <2>1, <2>2, <2>3, <2>4
<1>7. ASSUME NEW r \in Requests, Publish(r)
      PROVE  IInv'
  <2> USE <1>7 DEF Publish, StopPublishing, LastAttempt, Goto, Reply, Continue, input, external
  <2>1. HoldsGroup'
    BY DEF HoldsGroup
  <2>2. OpenIsHopeful'
    BY DEF OpenIsHopeful
  <2>3. OneOpen'
    BY DEF OneOpen
  <2>4. AnnouncedFirst'
    BY DEF AnnouncedFirst
  <2>5. CommittedIsAnnounced'
    BY DEF CommittedIsAnnounced
  <2>6. LeavingIsUnavailable' /\ RowsAgree' /\ CreatorIsMember'
    BY DEF LeavingIsUnavailable, RowsAgree, CreatorIsMember
  <2> QED
    BY <2>1, <2>2, <2>3, <2>4, <2>5, <2>6
\* The transaction is open, so the name has no row and, unless it was orphaned, the
\* consumer deletes no group of it: the group is that of r, and r is a member.
<1>8. ASSUME NEW r \in Requests, Commit(r)
      PROVE  IInv'
  <2> USE <1>8 DEF Commit, Goto, Reply, Continue, input, external
  <2>1. HoldsGroup'
    BY DEF HoldsGroup
  <2>2. OpenIsHopeful'
    BY DEF OpenIsHopeful, OneOpen
  <2>3. OneOpen'
    BY DEF OneOpen
  <2>4. LeavingIsUnavailable'
    BY DEF LeavingIsUnavailable, OpenIsHopeful
  <2>5. RowsAgree'
    BY DEF RowsAgree
  <2>6. CreatorIsMember'
    BY DEF CreatorIsMember, HoldsGroup, OpenIsHopeful, LeavingIsUnavailable
  <2>7. CommittedIsAnnounced'
    BY DEF CommittedIsAnnounced, AnnouncedFirst
  <2>8. AnnouncedFirst'
    BY DEF AnnouncedFirst
  <2> QED
    BY <2>1, <2>2, <2>3, <2>4, <2>5, <2>6, <2>7, <2>8
<1>9. ASSUME NEW a \in Accounts, Approve(a)
      PROVE  IInv'
  BY <1>9
     DEF Approve, local, input, external,
     HoldsGroup, OpenIsHopeful, OneOpen, LeavingIsUnavailable, RowsAgree,
     AnnouncedFirst, CreatorIsMember, CommittedIsAnnounced
\* No transaction of the account is open; a name it had that the consumer works on
\* is orphaned.
<1>10. ASSUME NEW a \in Accounts, DeleteAccount(a)
      PROVE  IInv'
  <2> USE <1>10 DEF DeleteAccount, Owned, local, input, external
  <2>1. OpenIsHopeful'
    BY DEF OpenIsHopeful
  <2>2. LeavingIsUnavailable'
    BY DEF LeavingIsUnavailable
  <2>3. RowsAgree'
    BY DEF RowsAgree
  <2>4. CreatorIsMember'
    BY DEF CreatorIsMember, RowsAgree
  <2>5. CommittedIsAnnounced'
    BY DEF CommittedIsAnnounced
  <2>6. HoldsGroup' /\ OneOpen' /\ AnnouncedFirst'
    BY DEF HoldsGroup, OneOpen, AnnouncedFirst
  <2> QED
    BY <2>1, <2>2, <2>3, <2>4, <2>5, <2>6
<1>11. CASE Crash
  <2> USE <1>11 DEF Crash, local, input, external
  <2>1. HoldsGroup'
    BY DEF HoldsGroup
  <2>2. OpenIsHopeful'
    BY DEF OpenIsHopeful
  <2>3. OneOpen'
    BY DEF OneOpen
  <2>4. /\ LeavingIsUnavailable' /\ RowsAgree' /\ AnnouncedFirst'
        /\ CreatorIsMember' /\ CommittedIsAnnounced'
    BY DEF LeavingIsUnavailable, RowsAgree, AnnouncedFirst,
       CreatorIsMember, CommittedIsAnnounced
  <2> QED
    BY <2>1, <2>2, <2>3, <2>4
\* A name with a row has no open transaction.
<1>12. ASSUME NEW n \in Names, Retire(n)
      PROVE  IInv'
  <2> USE <1>12 DEF Retire, local, input, external
  <2>1. HoldsGroup'
    BY DEF HoldsGroup
  <2>2. OpenIsHopeful'
    BY DEF OpenIsHopeful, RowsAgree
  <2>3. LeavingIsUnavailable'
    BY DEF LeavingIsUnavailable
  <2>4. RowsAgree'
    BY DEF RowsAgree
  <2>5. CreatorIsMember'
    BY DEF CreatorIsMember
  <2>6. OneOpen' /\ AnnouncedFirst' /\ CommittedIsAnnounced'
    BY DEF OneOpen, AnnouncedFirst, CommittedIsAnnounced
  <2> QED
    BY <2>1, <2>2, <2>3, <2>4, <2>5, <2>6
\* The name is orphaned or Unavailable.
<1>13. ASSUME NEW n \in Names, RemoveGroup(n)
      PROVE  IInv'
  <2> USE <1>13 DEF RemoveGroup, local, input, external
  <2>1. HoldsGroup'
    BY DEF HoldsGroup
  <2>2. CreatorIsMember'
    BY DEF CreatorIsMember, LeavingIsUnavailable
  <2>3. /\ OpenIsHopeful' /\ OneOpen' /\ LeavingIsUnavailable'
        /\ RowsAgree' /\ AnnouncedFirst' /\ CommittedIsAnnounced'
    BY DEF OpenIsHopeful, OneOpen, LeavingIsUnavailable,
       RowsAgree, AnnouncedFirst, CommittedIsAnnounced
  <2> QED
    BY <2>1, <2>2, <2>3
<1>14. CASE UNCHANGED vars
  BY <1>14
     DEF vars, input, external, HoldsGroup, OpenIsHopeful, OneOpen, LeavingIsUnavailable,
     RowsAgree, AnnouncedFirst, CreatorIsMember, CommittedIsAnnounced
<1> QED
  BY <1>1, <1>2, <1>3, <1>4, <1>5, <1>6, <1>7, <1>8, <1>9, <1>10, <1>11, <1>12, <1>13, <1>14
     DEF Next, Step

\* The state is always well formed and satisfies the invariant.
LEMMA Invariant == Spec => [](TypeOK /\ IInv)
<1>1. Init => IInv
  BY InvInit
<1>2. TypeOK /\ IInv /\ [Next]_vars => IInv'
  BY InvStep
<1> QED
  BY <1>1, <1>2, TypeCorrect, PTL DEF Spec

-----------------------------------------------------------------------------
(* The properties *)

\* Of two requests for a name that was not orphaned at most one can still succeed
\* (the group of a name is a lock, workspaces.go:216-282).
THEOREM GroupIsLock == Spec => []OneBuilder
<1>1. IInv => OneBuilder
  BY DEF IInv, HoldsGroup, LeavingIsUnavailable, OneBuilder, Hopeful
<1> QED
  BY <1>1, Invariant, PTL

\* The creator of a live workspace is a member of its group.
THEOREM CreatorEnters == Spec => []CreatorIsMember
<1>1. IInv => CreatorIsMember
  BY DEF IInv
<1> QED
  BY <1>1, Invariant, PTL

\* What is committed was announced.
THEOREM Announced == Spec => []CommittedIsAnnounced
<1>1. IInv => CommittedIsAnnounced
  BY DEF IInv
<1> QED
  BY <1>1, Invariant, PTL

\* While its account lives a row stays that of the request that committed it.
THEOREM NamesAreKept == Spec => NameIsKept
<1> DEFINE Kept == \A n \in Names : row[n] # None /\ account'[owner[row[n]]] # "gone"
                                      => row'[n] = row[n]
<1>1. TypeOK /\ IInv /\ [Next]_vars => [Kept]_vars
  <2> SUFFICES ASSUME TypeOK, IInv, Next
               PROVE  Kept
    OBVIOUS
  <2>1. ASSUME NEW r \in Requests, Commit(r)
        PROVE  Kept
    <3>1. row[name[r]] = None
      BY <2>1 DEF IInv, OpenIsHopeful, RowsAgree, Hopeful, Commit, TypeOK
    <3> QED
      BY <2>1, <3>1 DEF Commit, TypeOK
  <2>2. ASSUME NEW a \in Accounts, DeleteAccount(a)
        PROVE  Kept
    BY <2>2 DEF DeleteAccount, Owned, TypeOK
  <2>3. CASE UNCHANGED row
    BY <2>3
  <2> QED
    BY <2>1, <2>2, <2>3 DEF Next, Step, CheckAccount, CheckExists, CreateGroup, GetGroup,
       AddMember, Insert, Publish, Approve, Crash, Retire, RemoveGroup, local, external
<1> QED
  BY <1>1, Invariant, PTL DEF Spec, NameIsKept
-----------------------------------------------------------------------------
(* Why a request ends: it has a bounded number of steps left, and whoever it *)
(* waits for is at work.  That the steps are taken is fairness.              *)

\* The calls r may still make; CreateWorkspace, Publish and CommitTransaction come
\* after the others, and Publish is tried maxRetries times.
StepsLeft(r) == CASE pc[r] = "account"  -> maxRetries + 7
                  [] pc[r] = "exists"   -> maxRetries + 6
                  [] pc[r] = "group"    -> maxRetries + 5
                  [] pc[r] = "getGroup" -> maxRetries + 4
                  [] pc[r] = "member"   -> maxRetries + 3
                  [] pc[r] = "insert"   -> maxRetries + 2
                  [] pc[r] = "publish"  -> maxRetries - attempt[r] + 1
                  [] pc[r] = "commit"   -> 1
                  [] pc[r] = "done"     -> 0

\* There is an end to the steps.
LEMMA StepsLeftIsNat ==
    ASSUME TInv, NEW r \in Requests
    PROVE  StepsLeft(r) \in Nat /\ (StepsLeft(r) = 0 <=> pc[r] = "done")
<1>1. pc[r] \in Labels /\ attempt[r] \in 0..maxRetries
  BY DEF TInv, TypeOK
<1>2. pc[r] = "publish" => attempt[r] < maxRetries
  BY DEF TInv, AttemptsLeft
<1> QED
  BY <1>1, <1>2, CreationAssumption DEF StepsLeft, Labels

\* A step of r takes one of the steps left; no step of anybody else changes r but
\* the restart of the server, which ends it.
StepsRunOut == \A r \in Requests : /\ StepsLeft(r)' <= StepsLeft(r)
                                   /\ Step(r) => StepsLeft(r)' < StepsLeft(r)

\* Only the step of r moves r.
LEMMA StepCounts ==
    ASSUME TInv, TInv', NEW r \in Requests, Step(r)
    PROVE  /\ StepsLeft(r)' \in Nat /\ StepsLeft(r)' < StepsLeft(r)
           /\ \A s \in Requests \ {r} : pc'[s] = pc[s] /\ attempt'[s] = attempt[s]
<1>1. pc \in [Requests -> Labels] /\ attempt \in [Requests -> 0..maxRetries]
  BY DEF TInv, TypeOK
<1>2. pc' \in [Requests -> Labels] /\ attempt' \in [Requests -> 0..maxRetries]
  BY DEF TInv, TypeOK
<1>3. /\ pc[r] # "done" => attempt[r] < maxRetries
      /\ pc'[r] # "done" => attempt'[r] < maxRetries
  BY DEF TInv, AttemptsLeft
<1> USE <1>1, <1>2, <1>3, CreationAssumption
<1> USE DEF StepsLeft, Labels, Goto, Reply, Continue
<1>4. CASE CheckAccount(r)
  BY <1>4 DEF CheckAccount
<1>5. CASE CheckExists(r)
  BY <1>5 DEF CheckExists
<1>6. CASE CreateGroup(r)
  BY <1>6 DEF CreateGroup
<1>7. CASE GetGroup(r)
  BY <1>7 DEF GetGroup
<1>8. CASE AddMember(r)
  BY <1>8 DEF AddMember
<1>9. CASE Insert(r)
  BY <1>9 DEF Insert
<1>10. CASE Publish(r)
  BY <1>10 DEF Publish, StopPublishing
<1>11. CASE Commit(r)
  <2>1. pc[r] = "commit" /\ pc' = [pc EXCEPT ![r] = "done"] /\ attempt' = attempt
    BY <1>11 DEF Commit
  <2>2. StepsLeft(r) = 1 /\ StepsLeft(r)' = 0
    BY <2>1
  <2>3. \A s \in Requests \ {r} : pc'[s] = pc[s] /\ attempt'[s] = attempt[s]
    BY <2>1
  <2> HIDE DEF StepsLeft
  <2> QED
    BY <2>2, <2>3
<1> QED
  BY <1>4, <1>5, <1>6, <1>7, <1>8, <1>9, <1>10, <1>11 DEF Step

\* A request makes at most maxRetries + 7 calls, whatever fails and whoever else
\* is at work on the name (workspaces.go:189-285, publisher.go).
THEOREM RequestsAreBounded == Spec => [][StepsRunOut]_vars
<1>1. TInv /\ TInv' /\ Next => StepsRunOut
  <2> SUFFICES ASSUME TInv, TInv', Next
               PROVE  StepsRunOut
    OBVIOUS
  <2>1. \A s \in Requests : StepsLeft(s) \in Nat
    BY StepsLeftIsNat
  <2>2. ASSUME NEW s \in Requests, pc'[s] = pc[s], attempt'[s] = attempt[s]
        PROVE  StepsLeft(s)' = StepsLeft(s)
    BY <2>2 DEF StepsLeft
  <2>3. ASSUME NEW r \in Requests, Step(r)
        PROVE  StepsRunOut
    <3>1. ASSUME NEW s \in Requests, s # r
          PROVE  StepsLeft(s)' <= StepsLeft(s)
      BY <2>1, <2>2, <2>3, <3>1, StepCounts
    <3>2. StepsLeft(r)' <= StepsLeft(r)
      BY <2>1, <2>3, StepCounts
    <3>3. ASSUME NEW s \in Requests, Step(s)
          PROVE  StepsLeft(s)' < StepsLeft(s)
      BY <3>3, StepCounts
    <3> QED
      BY <3>1, <3>2, <3>3 DEF StepsRunOut
  <2>4. CASE Crash
    <3>1. ASSUME NEW s \in Requests
          PROVE  StepsLeft(s)' = 0
      BY <2>4 DEF Crash, StepsLeft
    <3>2. \A s \in Requests : ~Step(s) \/ StepsRunOut
      BY <2>3
    <3> QED
      BY <2>1, <3>1, <3>2 DEF StepsRunOut
  <2>5. CASE \/ \E a \in Accounts : Approve(a) \/ DeleteAccount(a)
             \/ \E n \in Names : Retire(n) \/ RemoveGroup(n)
    <3>1. UNCHANGED <<pc, attempt>>
      BY <2>5 DEF Approve, DeleteAccount, Retire, RemoveGroup, local
    <3>2. \A s \in Requests : ~Step(s) \/ StepsRunOut
      BY <2>3
    <3> QED
      BY <2>1, <2>2, <3>1, <3>2 DEF StepsRunOut
  <2> QED
    BY <2>3, <2>4, <2>5 DEF Next
<1> QED
  <2>1. TInv /\ TInv' /\ [Next]_vars => [StepsRunOut]_vars
    BY <1>1
  <2>2. Spec => []TInv
    BY TypeInit, TypeStep, PTL DEF Spec
  <2> QED
    BY <2>1, <2>2, PTL DEF Spec

\* The INSERT of r waits for the open transaction that holds its name
\* (db/workspaces.go:134, UNIQUE (name)).
WaitsFor(r, s) == /\ pc[r] = "insert"
                  /\ name[s] = name[r] /\ tx[s] = "open"

\* Whoever is waited for is about to publish or to commit, with attempts left, and
\* waits for nobody itself: there is no chain of waiting requests, so no circle,
\* and no transaction is left open by a request that gave up.
THEOREM NobodyWaitsForTheIdle ==
    Spec => [](\A r, s \in Requests : WaitsFor(r, s) =>
                  /\ pc[s] \in {"publish", "commit"}
                  /\ attempt[s] < maxRetries
                  /\ \A t \in Requests : ~WaitsFor(s, t))
<1>1. TInv /\ IInv => \A r, s \in Requests : WaitsFor(r, s) =>
                         /\ pc[s] \in {"publish", "commit"}
                         /\ attempt[s] < maxRetries
                         /\ \A t \in Requests : ~WaitsFor(s, t)
  BY DEF IInv, OpenIsHopeful, WaitsFor, TInv, AttemptsLeft
<1>2. Spec => []TInv
  BY TypeInit, TypeStep, PTL DEF Spec
<1> QED
  BY <1>1, <1>2, Invariant, PTL
=============================================================================
