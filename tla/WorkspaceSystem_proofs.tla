----------------------- MODULE WorkspaceSystem_proofs -----------------------
(***************************************************************************)
(* Theorems about WorkspaceSystem, for every set of names, statuses and    *)
(* consumers and every value of the bounds.                                *)
(***************************************************************************)
EXTENDS WorkspaceSystem, StatusConsumer_proofs

-----------------------------------------------------------------------------
(* The settings topic *)

TopicTypeOK == /\ settings \in [1..MaxSettings -> Settings \cup {None}]
               /\ sent \in 0..MaxSettings /\ taken \in 0..sent
               /\ \A i \in 1..sent : settings[i] \in Settings
               /\ cluster \in SUBSET Names
               /\ asked \in SUBSET Names
               /\ handled \in SUBSET asked
               /\ crossed \in SUBSET asked

Asks(i, n)      == settings[i] = [status |-> "deleting", name |-> n]
Announces(i, n) == settings[i] = [status |-> "creating", name |-> n]

\* A name is asked to be deleted when a message says so.
AskedOK == \A n \in Names, i \in 1..sent : Asks(i, n) => n \in asked

\* What is announced after that is counted as crossed.
CrossedOK == \A n \in Names, i, j \in 1..sent :
                 i < j /\ Asks(i, n) /\ Announces(j, n) => n \in crossed

\* What the manager has removed was asked for in what it has taken, and it has
\* resources for such a name only if it was announced once more.
HandledOK == \A n \in handled : /\ \E i \in 1..taken : Asks(i, n)
                                /\ n \in cluster => n \in crossed

\* What the manager was told to provide for has its resources, unless its deletion
\* was asked for.
ProvidedOK == \A n \in Names, i \in 1..taken : Announces(i, n) => n \in cluster \cup asked

TopicInv == TopicTypeOK /\ AskedOK /\ CrossedOK /\ HandledOK /\ ProvidedOK

\* What a step may do to the topic and to what the manager made of it.
LEMMA TopicActions ==
    ASSUME [SystemNext]_systemVars
    PROVE  \/ \E n \in Names : AnnounceCreating(n) /\ UNCHANGED cluster
           \/ \E n \in Names : DeleteWorkspace(n)
           \/ Provision
           \/ \E m \in Msgs : Remove(m)
           \/ UNCHANGED <<topic, cluster, history>>
<1>1. ASSUME NEW n \in Names, Announce(n) \/ JobAnnounce(n)
      PROVE  \/ AnnounceCreating(n) /\ UNCHANGED cluster
             \/ UNCHANGED <<topic, cluster, history>>
  BY <1>1 DEF Announce, JobAnnounce, Unannounced
<1>2. ASSUME NEW n \in Names,
             \/ Insert(n) \/ Commit(n) \/ LoseCommit(n)
             \/ \E m \in Msgs, k \in Kinds : Report(m, n, k)
      PROVE  UNCHANGED <<topic, cluster, history>>
  BY <1>2 DEF Insert, Commit, LoseCommit, Report
<1>3. StartJob \/ ConsumerStep \/ UNCHANGED systemVars
      => UNCHANGED <<topic, cluster, history>>
  BY DEF StartJob, ConsumerStep, systemVars
<1> QED
  BY <1>1, <1>2, <1>3 DEF SystemNext, Take

\* Announcing a workspace keeps the topic in order.
LEMMA AnnounceStep ==
    ASSUME TopicInv, NEW n \in Names, AnnounceCreating(n), UNCHANGED cluster
    PROVE  TopicInv'
<1> DEFINE s == [status |-> "creating", name |-> n]
<1> USE SystemAssumption
<1>0. s \in Settings
  BY DEF Settings
<1>1. /\ sent' = sent + 1 /\ sent' \in 0..MaxSettings
      /\ settings'[sent'] = s
      /\ \A i \in 1..sent : settings'[i] = settings[i]
      /\ settings' \in [1..MaxSettings -> Settings \cup {None}]
      /\ UNCHANGED <<taken, cluster, asked, handled>>
      /\ crossed' = crossed \cup ({n} \cap asked)
  BY <1>0 DEF AnnounceCreating, Append, Crosses, TopicInv, TopicTypeOK
<1>2. TopicTypeOK'
  BY <1>0, <1>1 DEF TopicInv, TopicTypeOK
<1>3. \A k \in Names : settings'[sent'] # [status |-> "deleting", name |-> k]
  BY <1>1
<1>4. \A i \in 1..sent', k \in Names : Asks(i, k)' => i \in 1..sent /\ Asks(i, k)
  BY <1>1, <1>3 DEF Asks, TopicInv, TopicTypeOK
<1>5. AskedOK'
  BY <1>1, <1>4 DEF TopicInv, AskedOK
<1>6. CrossedOK'
  <2> SUFFICES ASSUME NEW k \in Names, NEW i \in 1..sent', NEW j \in 1..sent', i < j,
                      Asks(i, k)', Announces(j, k)'
               PROVE  k \in crossed'
    BY DEF CrossedOK
  <2>1. i \in 1..sent /\ Asks(i, k) /\ k \in asked
    BY <1>4 DEF TopicInv, AskedOK
  <2>2. CASE j \in 1..sent
    BY <1>1, <2>1, <2>2 DEF TopicInv, CrossedOK, Announces
  <2>3. CASE j \notin 1..sent
    <3>1. j = sent'
      BY <1>1, <2>3 DEF TopicInv, TopicTypeOK
    <3>2. k = n
      BY <1>1, <3>1 DEF Announces
    <3> QED
      BY <1>1, <2>1, <3>2
  <2> QED
    BY <2>2, <2>3
<1>7. HandledOK' /\ ProvidedOK'
  BY <1>1 DEF TopicInv, TopicTypeOK, HandledOK, ProvidedOK, Asks, Announces
<1> QED
  BY <1>2, <1>5, <1>6, <1>7 DEF TopicInv

\* So does asking for a deletion.
LEMMA DeleteStep ==
    ASSUME TopicInv, NEW n \in Names, DeleteWorkspace(n)
    PROVE  TopicInv'
<1> DEFINE s == [status |-> "deleting", name |-> n]
<1> USE SystemAssumption
<1>0. s \in Settings
  BY DEF Settings
<1>1. /\ sent' = sent + 1 /\ sent' \in 0..MaxSettings
      /\ settings'[sent'] = s
      /\ \A i \in 1..sent : settings'[i] = settings[i]
      /\ settings' \in [1..MaxSettings -> Settings \cup {None}]
      /\ UNCHANGED <<taken, cluster, handled, crossed>>
      /\ asked' = asked \cup {n}
  BY <1>0 DEF DeleteWorkspace, Append, TopicInv, TopicTypeOK
<1>2. TopicTypeOK'
  BY <1>0, <1>1 DEF TopicInv, TopicTypeOK
<1>3. \A i \in 1..sent', k \in Names : Asks(i, k)' => (i \in 1..sent /\ Asks(i, k)) \/ k = n
  BY <1>1 DEF Asks, TopicInv, TopicTypeOK
<1>4. AskedOK'
  BY <1>1, <1>3 DEF TopicInv, AskedOK
<1>5. CrossedOK'
  <2> SUFFICES ASSUME NEW k \in Names, NEW i \in 1..sent', NEW j \in 1..sent', i < j,
                      Asks(i, k)', Announces(j, k)'
               PROVE  k \in crossed'
    BY DEF CrossedOK
  <2>1. j # sent'
    BY <1>1 DEF Announces
  <2>2. i \in 1..sent /\ j \in 1..sent
    BY <1>1, <2>1 DEF TopicInv, TopicTypeOK
  <2> QED
    BY <1>1, <2>2 DEF TopicInv, CrossedOK, Asks, Announces
<1>6. HandledOK' /\ ProvidedOK'
  BY <1>1 DEF TopicInv, TopicTypeOK, HandledOK, ProvidedOK, Asks, Announces
<1> QED
  BY <1>2, <1>4, <1>5, <1>6 DEF TopicInv

\* The manager provides for a name whose removal it has taken only if the name
\* was announced after that removal was asked for.
LEMMA ProvisionStep ==
    ASSUME TopicInv, Provision
    PROVE  TopicInv'
<1> USE SystemAssumption
<1>0. /\ taken + 1 \in 1..sent /\ taken' = taken + 1
      /\ Taken \in Settings /\ Taken.status = "creating"
      /\ cluster' = cluster \cup {Taken.name}
      /\ UNCHANGED <<settings, sent, asked, handled, crossed>>
  BY DEF Provision, Taken, TopicInv, TopicTypeOK, history
<1>1. Taken.name \in Names /\ Announces(taken + 1, Taken.name)
  BY <1>0 DEF Settings, Announces, Taken
<1>2. TopicTypeOK' /\ AskedOK' /\ CrossedOK'
  BY <1>0, <1>1 DEF TopicInv, TopicTypeOK, AskedOK, CrossedOK, Asks, Announces
<1>3. ASSUME NEW n \in handled
      PROVE  (\E i \in 1..taken' : Asks(i, n)') /\ (n \in cluster' => n \in crossed)
  <2>0. n \in Names
    BY DEF TopicInv, TopicTypeOK
  <2>1. PICK i \in 1..taken : Asks(i, n)
    BY DEF TopicInv, HandledOK
  <2>2. i \in 1..sent /\ i < taken + 1 /\ i \in 1..taken' /\ Asks(i, n)'
    BY <1>0, <2>1 DEF Asks, TopicInv, TopicTypeOK
  <2>3. n = Taken.name => n \in crossed
    BY <1>0, <1>1, <2>0, <2>1, <2>2 DEF TopicInv, CrossedOK
  <2> QED
    BY <1>0, <2>2, <2>3 DEF TopicInv, HandledOK
<1>4. HandledOK'
  BY <1>0, <1>3 DEF HandledOK
<1>5. ProvidedOK'
  BY <1>0, <1>1 DEF TopicInv, TopicTypeOK, ProvidedOK, Announces
<1> QED
  BY <1>2, <1>4, <1>5 DEF TopicInv

\* A removal leaves nothing of the name, and was asked for.
LEMMA RemoveStep ==
    ASSUME TopicInv, NEW m \in Msgs, Remove(m)
    PROVE  TopicInv' /\ Taken.name \in Names /\ handled' = handled \cup {Taken.name}
<1> USE SystemAssumption
<1>0. /\ taken + 1 \in 1..sent /\ taken' = taken + 1
      /\ Taken \in Settings /\ Taken.status = "deleting"
      /\ cluster' = cluster \ {Taken.name}
      /\ handled' = handled \cup {Taken.name}
      /\ UNCHANGED <<settings, sent, asked, crossed>>
  BY DEF Remove, Taken, TopicInv, TopicTypeOK
<1>1. Taken.name \in Names /\ Asks(taken + 1, Taken.name)
  BY <1>0 DEF Settings, Asks, Taken
<1>2. Taken.name \in asked
  BY <1>0, <1>1 DEF TopicInv, AskedOK
<1>3. TopicTypeOK' /\ AskedOK' /\ CrossedOK'
  BY <1>0, <1>2 DEF TopicInv, TopicTypeOK, AskedOK, CrossedOK, Asks, Announces
<1>4. ASSUME NEW n \in handled'
      PROVE  (\E i \in 1..taken' : Asks(i, n)') /\ (n \in cluster' => n \in crossed)
  <2>1. CASE n = Taken.name
    BY <1>0, <1>1, <2>1 DEF Asks, TopicInv, TopicTypeOK
  <2>2. CASE n # Taken.name
    <3>1. n \in handled
      BY <1>0, <2>2
    <3>2. PICK i \in 1..taken : Asks(i, n)
      BY <3>1 DEF TopicInv, HandledOK
    <3>3. i \in 1..taken' /\ Asks(i, n)'
      BY <1>0, <3>2 DEF Asks, TopicInv, TopicTypeOK
    <3> QED
      BY <1>0, <3>1, <3>3 DEF TopicInv, HandledOK
  <2> QED
    BY <2>1, <2>2
<1>5. HandledOK'
  BY <1>0, <1>4 DEF HandledOK
<1>6. ProvidedOK'
  BY <1>0, <1>1, <1>2 DEF TopicInv, TopicTypeOK, ProvidedOK, Asks, Announces
<1> QED
  BY <1>0, <1>1, <1>3, <1>5, <1>6 DEF TopicInv

\* Every step keeps the topic in order, and what was removed stays in the history.
LEMMA TopicStep ==
    ASSUME TopicInv, [SystemNext]_systemVars
    PROVE  TopicInv' /\ handled \subseteq handled'
<1>1. ASSUME NEW n \in Names, AnnounceCreating(n), UNCHANGED cluster
      PROVE  TopicInv' /\ handled \subseteq handled'
  BY <1>1, AnnounceStep DEF AnnounceCreating
<1>2. ASSUME NEW n \in Names, DeleteWorkspace(n)
      PROVE  TopicInv' /\ handled \subseteq handled'
  BY <1>2, DeleteStep DEF DeleteWorkspace
<1>3. CASE Provision
  BY <1>3, ProvisionStep DEF Provision, history
<1>4. ASSUME NEW m \in Msgs, Remove(m)
      PROVE  TopicInv' /\ handled \subseteq handled'
  BY <1>4, RemoveStep
<1>5. CASE UNCHANGED <<topic, cluster, history>>
  BY <1>5 DEF topic, history, TopicInv, TopicTypeOK, AskedOK, CrossedOK, HandledOK,
     ProvidedOK, Asks, Announces
<1> QED
  BY <1>1, <1>2, <1>3, <1>4, <1>5, TopicActions

-----------------------------------------------------------------------------
(* The consumer and the API *)

ApiOK == /\ creation \in [Names -> Progress]
         /\ began \in [Names -> 0..MaxClock]
         /\ \A n \in Names : began[n] <= clock
         /\ snapshot \in SUBSET Names
         /\ reports \in 0..MaxReports
         /\ jobs \in 0..MaxJobs
         /\ failures \in 0..MaxFailures

\* A status that lets the consumer disable a workspace says so of a name whose
\* deletion the manager took.
Disables(m) == SaysDeleting(body[m].kind) \/ NamespaceEmpty(body[m].kind)

StatusesOK  == \A m \in Msgs : place[m] # "unsent" /\ Disables(m) => body[m].name \in handled

\* The consumer disables, and has disabled, no other.
DisablingOK == \A c \in Consumers : pc[c] = "disable" => Name(c) \in handled

ClosedOK    == \A n \in Names : row[n].life = "Unavailable" => n \in handled

\* A workspace is committed, and has a row, only when it was announced.
Announced(n) == \E i \in 1..sent : Announces(i, n)

AnnouncedOK == \A n \in Names :
                   \/ creation[n] \in {"announced", "committed"}
                   \/ row[n].life # "absent"
                   => Announced(n)

SystemInv == /\ TInv /\ ApiOK /\ TopicInv /\ StatusesOK /\ DisablingOK /\ ClosedOK
             /\ AnnouncedOK

\* Initially nothing was announced.
LEMMA SystemInitInv == SystemInit => SystemInv
<1> SUFFICES ASSUME SystemInit PROVE SystemInv
  OBVIOUS
<1> USE SystemAssumption, ConsumerAssumption
<1>1. TInv
  BY TypeInit DEF SystemInit
<1>2. ApiOK
  BY DEF SystemInit, Init, ApiOK, Progress
<1>3. TopicInv
  BY DEF SystemInit, TopicInv, TopicTypeOK, AskedOK, CrossedOK, HandledOK, ProvidedOK
<1>4. StatusesOK /\ DisablingOK /\ ClosedOK /\ AnnouncedOK
  BY DEF SystemInit, Init, QueueInit, StatusesOK, DisablingOK, ClosedOK, AnnouncedOK, Row
<1> QED
  BY <1>1, <1>2, <1>3, <1>4 DEF SystemInv

\* Every step of the system is a step of the consumer, one of its environment as
\* the consumer knows it, or one the consumer does not see.
LEMMA ConsumerSees ==
    ASSUME SystemInv, [SystemNext]_systemVars
    PROVE  [Next]_vars
<1>1. CASE ConsumerStep
  BY <1>1 DEF ConsumerStep, Next, Environment
<1>2. ASSUME NEW n \in Names, Commit(n)
      PROVE  Next
  <2>1. began[n] \in 0..clock
    BY DEF SystemInv, ApiOK, TInv, TypeOK
  <2> QED
    BY <1>2, <2>1 DEF Commit, Next, Environment
<1>3. ASSUME NEW m \in Msgs, Remove(m)
      PROVE  Next
  BY <1>3, RemoveStep, SystemAssumption DEF SystemInv, Remove, Next, Environment
<1>4. ASSUME NEW n \in Names, NEW m \in Msgs, NEW k \in Kinds, Report(m, n, k)
      PROVE  Next
  BY <1>4 DEF Report, Next, Environment
<1>5. ASSUME NEW n \in Names,
             \/ Insert(n) \/ Announce(n) \/ LoseCommit(n)
             \/ DeleteWorkspace(n) \/ JobAnnounce(n)
      PROVE  UNCHANGED vars
  BY <1>5 DEF Insert, Announce, LoseCommit, DeleteWorkspace, JobAnnounce
<1>6. StartJob \/ Provision \/ UNCHANGED systemVars => UNCHANGED vars
  BY DEF StartJob, Provision, systemVars
<1> QED
  BY <1>1, <1>2, <1>3, <1>4, <1>5, <1>6 DEF SystemNext, Take

\* What the API and the reconcile job keep is well formed.
LEMMA ApiStep ==
    ASSUME SystemInv, [SystemNext]_systemVars
    PROVE  ApiOK'
<1> USE SystemAssumption DEF SystemInv, ApiOK
<1>0. clock \in 0..MaxClock /\ clock' \in Nat /\ clock' >= clock
  <2>1. clock' = clock \/ clock' = clock + 1
    BY ConsumerSees DEF Next, Environment, Step, Tick, Publish, CreateRow, DropRow, Receive,
       Disable, GetToken, DeleteGroup, DeleteSecret, Lookup, UpdateWorkspaceStatus,
       Break, Restart, DeadLettered, vars
  <2> QED
    BY <2>1, ConsumerAssumption DEF TInv, TypeOK
<1>1. CASE UNCHANGED <<api, snapshot, bounds>>
  BY <1>0, <1>1, ConsumerAssumption DEF api, bounds
<1>2. ASSUME NEW n \in Names, Insert(n)
      PROVE  ApiOK'
  BY <1>0, <1>2 DEF Insert, Advance, Progress, bounds, vars
<1>3. ASSUME NEW n \in Names, Announce(n) \/ LoseCommit(n)
      PROVE  ApiOK'
  BY <1>0, <1>3 DEF Announce, LoseCommit, Advance, Progress, Failure, NoFailure, vars
<1>4. ASSUME NEW n \in Names, Commit(n)
      PROVE  ApiOK'
  BY <1>0, <1>4 DEF Commit, CreateRow, Advance, Progress, bounds
<1>5. ASSUME NEW n \in Names, JobAnnounce(n)
      PROVE  ApiOK'
  BY <1>0, <1>5 DEF JobAnnounce, Failure, NoFailure, api, vars
<1>6. ASSUME NEW n \in Names, NEW m \in Msgs, NEW k \in Kinds, Report(m, n, k)
      PROVE  ApiOK'
  BY <1>0, <1>6 DEF Report, Publish, api
<1>7. CASE StartJob
  BY <1>0, <1>7 DEF StartJob, Listed, api, vars
<1>8. ASSUME \/ ConsumerStep \/ Take \/ UNCHANGED systemVars
             \/ \E n \in Names : DeleteWorkspace(n)
      PROVE  UNCHANGED <<api, snapshot, bounds>>
  BY <1>8 DEF ConsumerStep, Take, Provision, Remove, systemVars, DeleteWorkspace
<1> QED
  BY <1>1, <1>2, <1>3, <1>4, <1>5, <1>6, <1>7, <1>8 DEF SystemNext

\* The consumer publishes nothing.
LEMMA ConsumerQuiet ==
    ASSUME TInv, ConsumerStep
    PROVE  UNCHANGED body /\ NothingPublished
<1>0. QueueInv
  BY DEF TInv, TypeOK, QueueInv
<1>1. CASE Tick
  BY <1>0, <1>1, QueueUnchanged DEF Tick
<1>2. ASSUME NEW c \in Consumers, NEW m \in Msgs, Receive(c, m)
      PROVE  UNCHANGED body /\ NothingPublished
  BY <1>0, <1>2, DeliverStep DEF Receive
<1>3. ASSUME NEW c \in Consumers,
             \/ Disable(c) \/ GetToken(c) \/ DeleteGroup(c)
             \/ Lookup(c) \/ UpdateWorkspaceStatus(c)
      PROVE  UNCHANGED body /\ NothingPublished
  <2>1. /\ pc[c] # "receive" /\ UNCHANGED body
        /\ GiveUp(c) \/ Finish(c) \/ UNCHANGED queueVars
    BY <1>3 DEF Disable, GetToken, DeleteGroup, Lookup, UpdateWorkspaceStatus
  <2> QED
    BY <1>0, <2>1, SettleStep, QueueUnchanged
<1>4. ASSUME NEW c \in Consumers, DeleteSecret(c)
      PROVE  UNCHANGED body /\ NothingPublished
  <2>1. /\ pc[c] # "receive" /\ UNCHANGED body
        /\ GiveUp(c) \/ Ack(cur[c])
    BY <1>4 DEF DeleteSecret
  <2> QED
    BY <1>0, <2>1, AtWork, AckStep, SettleStep
<1>5. ASSUME NEW c \in Consumers, Break(c) \/ Restart(c)
      PROVE  UNCHANGED body /\ NothingPublished
  BY <1>0, <1>5, ReleaseStep DEF Break, Restart
<1>6. ASSUME NEW m \in Msgs, DeadLettered(m)
      PROVE  UNCHANGED body /\ NothingPublished
  BY <1>0, <1>6, DeadLetterStep DEF DeadLettered
<1> QED
  BY <1>1, <1>2, <1>3, <1>4, <1>5, <1>6 DEF ConsumerStep, Step

\* Only what the manager publishes lets the consumer disable a workspace, and only
\* one whose deletion it took.
LEMMA StatusStep ==
    ASSUME SystemInv, TopicInv', handled \subseteq handled', [SystemNext]_systemVars
    PROVE  StatusesOK'
<1>0. \A m \in Msgs : place[m] # "unsent" => body'[m] = body[m]
  BY ConsumerSees, BodyKept DEF SystemInv
<1>1. CASE NothingPublished
  BY <1>0, <1>1 DEF SystemInv, StatusesOK, NothingPublished, Disables
<1>2. ASSUME NEW x \in Msgs, NEW n \in Names, NEW k \in Kinds, Publish(x, n, k),
             SaysDeleting(k) \/ NamespaceEmpty(k) => n \in handled'
      PROVE  StatusesOK'
  <2>1. \A m \in Msgs \ {x} : place'[m] = place[m]
    BY <1>2 DEF Publish, Send, SystemInv, TInv, TypeOK, QueueTypeOK
  <2>2. body'[x] = [kind |-> k, name |-> n, stamp |-> clock]
    BY <1>2 DEF Publish, SystemInv, TInv, TypeOK
  <2> QED
    BY <1>0, <1>2, <2>1, <2>2 DEF SystemInv, StatusesOK, Disables
<1>3. ASSUME NEW x \in Msgs, Remove(x)
      PROVE  StatusesOK'
  <2>1. Taken.name \in Names /\ Taken.name \in handled'
    BY <1>3, RemoveStep DEF SystemInv
  <2> QED
    BY <1>2, <1>3, <2>1, SystemAssumption DEF Remove
<1>4. ASSUME NEW n \in Names, NEW x \in Msgs, NEW k \in Kinds, Report(x, n, k)
      PROVE  StatusesOK'
  <2>1. k # "Gone" => ~SaysDeleting(k) /\ ~NamespaceEmpty(k)
    BY <1>4 DEF Report, SaysDeleting, NamespaceEmpty
  <2>2. k = "Gone" => n \in handled
    BY <1>4 DEF Report
  <2> QED
    BY <1>2, <1>4, <2>1, <2>2 DEF Report
<1>5. CASE ConsumerStep
  BY <1>1, <1>5, ConsumerQuiet DEF SystemInv
<1>6. ASSUME NEW n \in Names,
             \/ Insert(n) \/ Announce(n) \/ LoseCommit(n) \/ Commit(n)
             \/ DeleteWorkspace(n) \/ JobAnnounce(n)
      PROVE  NothingPublished
  BY <1>6 DEF Insert, Announce, LoseCommit, Commit, CreateRow, DeleteWorkspace,
     JobAnnounce, NothingPublished, vars, queueVars
<1>7. StartJob \/ Provision \/ UNCHANGED systemVars => NothingPublished
  BY DEF StartJob, Provision, systemVars, vars, NothingPublished
<1> QED
  BY <1>1, <1>3, <1>4, <1>5, <1>6, <1>7 DEF SystemNext, Take

\* No step of the system deletes an account.
LEMMA NoAccountDeleted == ASSUME [SystemNext]_systemVars PROVE drops' = drops
<1>1. ConsumerStep => drops' = drops
  BY DEF ConsumerStep, Tick, Step, Receive, Disable, GetToken, DeleteGroup, DeleteSecret,
     Lookup, UpdateWorkspaceStatus, Break, Restart, DeadLettered
<1>2. ASSUME NEW n \in Names,
             \/ Insert(n) \/ Announce(n) \/ LoseCommit(n) \/ Commit(n)
             \/ DeleteWorkspace(n) \/ JobAnnounce(n)
             \/ \E m \in Msgs, k \in Kinds : Report(m, n, k)
      PROVE  drops' = drops
  BY <1>2 DEF Insert, Announce, LoseCommit, Commit, CreateRow, DeleteWorkspace,
     JobAnnounce, Report, Publish, vars
<1>3. StartJob \/ Take \/ UNCHANGED systemVars => drops' = drops
  BY DEF StartJob, Take, Provision, Remove, Publish, systemVars, vars
<1> QED
  BY <1>1, <1>2, <1>3 DEF SystemNext

\* A step of a consumer that brings it to DisableWorkspace has read such a status,
\* and any other leaves a disabled row alone.
LEMMA DisablingStep ==
    ASSUME SystemInv, handled \subseteq handled', [SystemNext]_systemVars
    PROVE  DisablingOK' /\ ClosedOK'
<1>0. /\ TInv /\ pc \in [Consumers -> Labels] /\ row \in [Names -> Rows]
      /\ cur \in [Consumers -> Msgs \cup {None}]
      /\ [Next]_vars
  BY ConsumerSees DEF SystemInv, TInv, TypeOK
<1>1. ASSUME NEW c \in Consumers, pc[c] # "receive"
      PROVE  /\ body'[cur[c]] = body[cur[c]] /\ Name(c) \in Names
             /\ Disables(cur[c]) => Name(c) \in handled'
  BY <1>0, <1>1, AtWork, BodyKept DEF SystemInv, StatusesOK, Name
<1>2. ASSUME NEW c \in Consumers, pc[c] = "disable", cur'[c] = cur[c]
      PROVE  Name(c)' \in handled'
  BY <1>1, <1>2 DEF SystemInv, DisablingOK, Name
<1>3. ASSUME UNCHANGED row \/ \E n \in Names : \E t : row' = [row EXCEPT ![n] = Row("live", t)],
             UNCHANGED <<pc, cur>>
      PROVE  DisablingOK' /\ ClosedOK'
  BY <1>0, <1>2, <1>3 DEF SystemInv, DisablingOK, ClosedOK, Row
<1>4. ASSUME NEW c \in Consumers, NEW m \in Msgs, Receive(c, m)
      PROVE  DisablingOK' /\ ClosedOK'
  <2>1. place[m] # "unsent" /\ UNCHANGED <<row, body>>
    BY <1>0, <1>4, DeliverStep DEF Receive, store, TInv, TypeOK, QueueInv
  <2>2. pc'[c] = "disable" => Name(c)' \in handled'
    BY <1>0, <1>4, <2>1 DEF Receive, Goto, Name, SystemInv, StatusesOK, Disables
  <2>3. \A d \in Consumers \ {c} : pc'[d] = pc[d] /\ cur'[d] = cur[d]
    BY <1>0, <1>4 DEF Receive, Goto
  <2> QED
    BY <1>2, <2>1, <2>2, <2>3 DEF DisablingOK, SystemInv, ClosedOK
<1>5. ASSUME NEW c \in Consumers, Lookup(c)
      PROVE  DisablingOK' /\ ClosedOK'
  <2>1. pc[c] = "lookup" /\ UNCHANGED <<row, body, cur>>
    BY <1>5 DEF Lookup, store
  <2>2. pc'[c] = "disable" => NamespaceEmpty(Kind(c))
    BY <1>0, <1>5, <2>1, SettleStep DEF Lookup, Goto
  <2>3. pc'[c] = "disable" => Name(c)' \in handled'
    BY <1>1, <2>1, <2>2 DEF Disables, Kind, Name
  <2>4. \A d \in Consumers \ {c} : pc'[d] = pc[d]
    BY <1>0, <1>5 DEF Lookup, Goto, Finish
  <2> QED
    BY <1>2, <2>1, <2>3, <2>4 DEF DisablingOK, SystemInv, ClosedOK
<1>6. ASSUME NEW c \in Consumers,
             \/ Disable(c) \/ GetToken(c) \/ DeleteGroup(c) \/ DeleteSecret(c)
             \/ UpdateWorkspaceStatus(c)
      PROVE  DisablingOK' /\ ClosedOK'
  <2>1. pc[c] # "receive" /\ UNCHANGED <<body, cur>>
    BY <1>6 DEF Disable, GetToken, DeleteGroup, DeleteSecret, UpdateWorkspaceStatus
  <2>2. pc'[c] # "disable" /\ \A d \in Consumers \ {c} : pc'[d] = pc[d]
    BY <1>0, <1>6, <2>1, SettleStep
       DEF Disable, GetToken, DeleteGroup, DeleteSecret, UpdateWorkspaceStatus, Goto
  <2>3. DisablingOK'
    BY <1>2, <2>1, <2>2 DEF DisablingOK
  <2>4. \A n \in Names \ {Name(c)} : row'[n] = row[n]
    BY <1>0, <1>6 DEF Disable, GetToken, DeleteGroup, DeleteSecret, UpdateWorkspaceStatus,
       store
  <2>5. row'[Name(c)].life = "Unavailable" =>
           row[Name(c)].life = "Unavailable" \/ pc[c] = "disable"
    BY <1>0, <1>1, <1>6, <2>1
       DEF Disable, GetToken, DeleteGroup, DeleteSecret, UpdateWorkspaceStatus, store
  <2> QED
    BY <1>1, <2>1, <2>3, <2>4, <2>5 DEF SystemInv, DisablingOK, ClosedOK
<1>7. ASSUME NEW c \in Consumers, Break(c) \/ Restart(c)
      PROVE  DisablingOK' /\ ClosedOK'
  <2>1. UNCHANGED <<row, cur>> /\ \A d \in Consumers : pc'[d] \in {"receive", pc[d]}
    BY <1>0, <1>7 DEF Break, Restart, Goto, store, process
  <2> QED
    BY <1>2, <2>1 DEF SystemInv, DisablingOK, ClosedOK
<1>8. ASSUME Tick \/ \E m \in Msgs : DeadLettered(m)
      PROVE  DisablingOK' /\ ClosedOK'
  BY <1>3, <1>8 DEF Tick, DeadLettered, store, process
<1>9. ASSUME NEW n \in Names, NEW t \in 0..clock, CreateRow(n, t)
      PROVE  DisablingOK' /\ ClosedOK'
  BY <1>3, <1>9 DEF CreateRow, process
<1>10. ASSUME NEW m \in Msgs, NEW n \in Names, NEW k \in Kinds, Publish(m, n, k)
       PROVE  DisablingOK' /\ ClosedOK'
  BY <1>3, <1>10 DEF Publish, store, process
<1>11. CASE UNCHANGED vars
  BY <1>3, <1>11 DEF vars
<1>12. ~\E n \in Names : DropRow(n)
  <2>1. drops' = drops /\ drops \in Nat
    BY NoAccountDeleted, ConsumerAssumption DEF SystemInv, TInv, TypeOK
  <2> QED
    BY <2>1 DEF DropRow
<1> QED
  BY <1>0, <1>4, <1>5, <1>6, <1>7, <1>8, <1>9, <1>10, <1>11, <1>12
     DEF Next, Environment, Step

\* What was published on the settings topic stays there.
LEMMA TopicGrows ==
    ASSUME TopicInv, [SystemNext]_systemVars, NEW n \in Names
    PROVE  /\ Announced(n) => Announced(n)'
           /\ AnnounceCreating(n) => Announced(n)'
<1>1. ASSUME NEW s \in Settings, Append(s)
      PROVE  sent' = sent + 1 /\ sent' \in 1..sent' /\ settings'[sent'] = s
             /\ \A i \in 1..sent : i \in 1..sent' /\ settings'[i] = settings[i]
  BY <1>1, SystemAssumption DEF Append, TopicInv, TopicTypeOK
<1>2. \A k \in Names : [status |-> "creating", name |-> k] \in Settings
                      /\ [status |-> "deleting", name |-> k] \in Settings
  BY DEF Settings
<1>3. AnnounceCreating(n) => Announced(n)'
  BY <1>1, <1>2 DEF AnnounceCreating, Announced, Announces
<1>4. ASSUME Announced(n)
      PROVE  Announced(n)'
  <2>1. CASE \E k \in Names : AnnounceCreating(k) \/ DeleteWorkspace(k)
    BY <1>1, <1>2, <1>4, <2>1 DEF AnnounceCreating, DeleteWorkspace, Announced, Announces
  <2>2. CASE Provision \/ (\E m \in Msgs : Remove(m)) \/ UNCHANGED topic
    BY <1>4, <2>2 DEF Provision, Remove, topic, Announced, Announces
  <2> QED
    BY <2>1, <2>2, TopicActions
<1> QED
  BY <1>3, <1>4

\* A name gets a row only when its creation is committed.
LEMMA RowComesWithCommit ==
    ASSUME SystemInv, [SystemNext]_systemVars, NEW n \in Names,
           row[n].life = "absent", row'[n].life # "absent"
    PROVE  creation[n] = "announced"
<1>0. TInv /\ row \in [Names -> Rows]
  BY DEF SystemInv, TInv, TypeOK
<1>1. CASE ConsumerStep
  <2>1. ASSUME NEW c \in Consumers, Disable(c) \/ UpdateWorkspaceStatus(c)
        PROVE  row'[n] = row[n]
    BY <1>0, <2>1 DEF Disable, UpdateWorkspaceStatus
  <2>2. \/ \E c \in Consumers : Disable(c) \/ UpdateWorkspaceStatus(c)
        \/ UNCHANGED row
    BY <1>1 DEF ConsumerStep, Tick, Step, Receive, GetToken, DeleteGroup, DeleteSecret,
       Lookup, Break, Restart, DeadLettered, store
  <2> QED
    BY <2>1, <2>2
<1>2. ASSUME NEW k \in Names, Commit(k)
      PROVE  creation[n] = "announced"
  BY <1>0, <1>2 DEF Commit, CreateRow
<1>3. ASSUME NEW k \in Names,
             \/ Insert(k) \/ Announce(k) \/ LoseCommit(k)
             \/ DeleteWorkspace(k) \/ JobAnnounce(k)
             \/ \E m \in Msgs, l \in Kinds : Report(m, k, l)
      PROVE  UNCHANGED row
  BY <1>3 DEF Insert, Announce, LoseCommit, DeleteWorkspace, JobAnnounce, Report, Publish,
     store, vars
<1>4. StartJob \/ Take \/ UNCHANGED systemVars => UNCHANGED row
  BY DEF StartJob, Take, Provision, Remove, Publish, store, systemVars, vars
<1> QED
  BY <1>1, <1>2, <1>3, <1>4 DEF SystemNext

\* A creation goes on to its commit only when Publish delivered.
LEMMA AnnouncedStep ==
    ASSUME SystemInv, [SystemNext]_systemVars
    PROVE  AnnouncedOK'
<1> SUFFICES ASSUME NEW n \in Names,
                    \/ creation'[n] \in {"announced", "committed"}
                    \/ row'[n].life # "absent"
             PROVE  Announced(n)'
  BY DEF AnnouncedOK
<1>0. TopicInv /\ creation \in [Names -> Progress]
  BY DEF SystemInv, ApiOK
<1>1. CASE Announced(n)
  BY <1>0, <1>1, TopicGrows
<1>2. CASE ~Announced(n)
  <2>1. creation[n] \notin {"announced", "committed"} /\ row[n].life = "absent"
    BY <1>2 DEF SystemInv, AnnouncedOK
  <2>2. creation'[n] \in {"announced", "committed"}
    BY <2>1, RowComesWithCommit
  <2>3. ASSUME NEW k \in Names, Insert(k) \/ Commit(k) \/ LoseCommit(k)
        PROVE  FALSE
    BY <1>0, <2>1, <2>2, <2>3 DEF Insert, Commit, LoseCommit, Advance
  <2>4. ASSUME NEW k \in Names,
               \/ DeleteWorkspace(k) \/ JobAnnounce(k)
               \/ \E m \in Msgs, l \in Kinds : Report(m, k, l)
        PROVE  FALSE
    BY <2>1, <2>2, <2>4 DEF DeleteWorkspace, JobAnnounce, Report, api
  <2>5. ~(StartJob \/ Take \/ ConsumerStep \/ UNCHANGED systemVars)
    BY <2>1, <2>2 DEF StartJob, Take, Provision, Remove, ConsumerStep, systemVars, api
  <2>6. ASSUME NEW k \in Names, Announce(k)
        PROVE  AnnounceCreating(n)
    BY <1>0, <2>1, <2>2, <2>6 DEF Announce, Advance
  <2> QED
    BY <1>0, <2>3, <2>4, <2>5, <2>6, TopicGrows DEF SystemNext
<1> QED
  BY <1>1, <1>2

\* The invariant is inductive.
LEMMA SystemStep == SystemInv /\ [SystemNext]_systemVars => SystemInv'
<1> SUFFICES ASSUME SystemInv, [SystemNext]_systemVars PROVE SystemInv'
  OBVIOUS
<1>1. TInv'
  BY ConsumerSees, TypeStep DEF SystemInv
<1>2. ApiOK'
  BY ApiStep
<1>3. TopicInv' /\ handled \subseteq handled'
  BY TopicStep DEF SystemInv
<1>4. StatusesOK'
  BY <1>3, StatusStep
<1>5. DisablingOK' /\ ClosedOK'
  BY <1>3, DisablingStep
<1>6. AnnouncedOK'
  BY AnnouncedStep
<1> QED
  BY <1>1, <1>2, <1>3, <1>4, <1>5, <1>6 DEF SystemInv

-----------------------------------------------------------------------------
(* The theorems *)

\* The API, the reconcile job, the manager and the consumer together keep the
\* state well formed; what the manager has removed was asked for.
THEOREM SystemTypeCorrect == SystemSpec => []SystemTypeOK
<1>1. SystemInv => SystemTypeOK
  BY SystemAssumption, ConsumerAssumption
     DEF SystemInv, TInv, ApiOK, TopicInv, TopicTypeOK, SystemTypeOK, Settings
<1> QED
  BY <1>1, SystemInitInv, SystemStep, PTL DEF SystemSpec

\* What the API, the reconcile job and the manager do is what StatusConsumer
\* takes its environment to do: everything proved of the consumer holds in the
\* system.
THEOREM SystemImplementsConsumer == SystemSpec => Spec
<1>1. SystemInit => Init
  BY DEF SystemInit
<1>2. SystemInv /\ [SystemNext]_systemVars => [Next]_vars
  BY ConsumerSees
<1> QED
  BY <1>1, <1>2, SystemInitInv, SystemStep, PTL DEF SystemSpec, Spec

\* A workspace that the table gives up has no resources left, whatever is
\* repeated, fails or overlaps, except when it was announced after its deletion
\* was asked for.  It holds for any number of consumers.
THEOREM NothingIsLeftBehind == SystemSpec => []NothingLeftBehind
<1>1. SystemInv => NothingLeftBehind
  BY DEF SystemInv, ClosedOK, TopicInv, HandledOK, NothingLeftBehind
<1> QED
  BY <1>1, SystemInitInv, SystemStep, PTL DEF SystemSpec

\* Whatever Publish answers and whichever attempt fails, a committed workspace
\* without resources whose deletion nobody asked for is announced ahead of the
\* manager: the safety half of CommittedIsProvisioned.
THEOREM NothingIsForgotten == SystemSpec => []CommittedIsAnnounced
<1>1. SystemInv => CommittedIsAnnounced
  <2> SUFFICES ASSUME SystemInv, NEW n \in Names, row[n].life = "live",
                      n \notin cluster \cup asked
               PROVE  \E i \in taken + 1 .. sent : Announces(i, n)
    BY DEF CommittedIsAnnounced, Announces
  <2>1. PICK i \in 1..sent : Announces(i, n)
    BY DEF SystemInv, AnnouncedOK, Announced
  <2>2. i \notin 1..taken
    BY <2>1 DEF SystemInv, TopicInv, ProvidedOK
  <2>3. i \in taken + 1 .. sent
    BY <2>2, SystemAssumption DEF SystemInv, TopicInv, TopicTypeOK
  <2> QED
    BY <2>1, <2>3
<1> QED
  BY <1>1, SystemInitInv, SystemStep, PTL DEF SystemSpec

\* What is proved of any number of consumers that do not disturb each other's
\* updates holds in the system: a workspace that was disabled stays so,
THEOREM SystemNoResurrection == SystemSpec /\ []Undisturbed => DisabledForGood
  BY NoResurrection, SystemImplementsConsumer, PTL

\* the table its API, its reconcile job and its consumers work on is a workspace
\* lifecycle,
THEOREM SystemImplementsLifecycle == SystemSpec /\ []Undisturbed => ImplementsLifecycle
  BY Refinement, SystemImplementsConsumer, PTL

\* and, as nothing in it deletes an account, an acknowledged deletion was always
\* carried out in full.
THEOREM SystemDeletionComplete ==
    SystemSpec /\ []Undisturbed => [](drops = 0 /\ AckedDeletionIsComplete)
<1>1. SystemInit => drops = 0
  BY DEF SystemInit, Init
<1>2. drops = 0 /\ [SystemNext]_systemVars => (drops = 0)'
  BY NoAccountDeleted
<1> QED
  BY <1>1, <1>2, CleanDeletion, SystemImplementsConsumer, PTL DEF SystemSpec

-----------------------------------------------------------------------------
(* Deletions *)

\* The manager has reported that the deletion of n was asked for.
ReportedBy(m, n) == place[m] # "unsent" /\ body[m].kind = "Deleting" /\ body[m].name = n

\* Every deletion that was asked for is on the settings topic, and for each that
\* the manager took there is a Deleting status.
AsksOK == /\ \A n \in asked : \E i \in 1..sent : Asks(i, n)
          /\ \A n \in Names, i \in 1..taken : Asks(i, n) => \E m \in Msgs : ReportedBy(m, n)

\* The topics forget nothing.
LEMMA AsksStep == SystemInv /\ AsksOK /\ [SystemNext]_systemVars => AsksOK'
<1> SUFFICES ASSUME SystemInv, AsksOK, [SystemNext]_systemVars PROVE AsksOK'
  OBVIOUS
<1>0. TopicInv /\ TInv /\ taken \in 0..sent /\ sent \in Nat
  BY SystemAssumption DEF SystemInv, TopicInv, TopicTypeOK
<1>1. ASSUME NEW n \in Names, NEW m \in Msgs, ReportedBy(m, n)
      PROVE  ReportedBy(m, n)'
  BY <1>0, <1>1, ConsumerSees, BodyKept, TypeStep DEF SystemInv, ReportedBy, SentStaysSent
<1>2. ASSUME NEW s \in Settings, Append(s)
      PROVE  /\ sent' = sent + 1 /\ taken' = taken /\ settings'[sent + 1] = s
             /\ \A i \in 1..sent : settings'[i] = settings[i]
  BY <1>2, SystemAssumption DEF Append, TopicInv, TopicTypeOK, SystemInv
<1>3. ASSUME sent' \in {sent, sent + 1}, taken' = taken,
             \A i \in 1..sent : settings'[i] = settings[i],
             \A n \in asked' : n \in asked \/ \E i \in 1..sent' : Asks(i, n)'
      PROVE  AsksOK'
  <2>1. \A i \in 1..sent, n \in Names \cup asked : Asks(i, n)' <=> Asks(i, n)
    BY <1>3 DEF Asks
  <2>2. 1..sent \subseteq 1..sent' /\ 1..taken' \subseteq 1..sent
    BY <1>0, <1>3
  <2>3. \A n \in asked' : \E i \in 1..sent' : Asks(i, n)'
    BY <1>3, <2>1, <2>2 DEF AsksOK
  <2>4. ASSUME NEW n \in Names, NEW i \in 1..taken', Asks(i, n)'
        PROVE  \E m \in Msgs : ReportedBy(m, n)'
    BY <1>1, <1>3, <2>1, <2>2, <2>4 DEF AsksOK
  <2> QED
    BY <2>3, <2>4 DEF AsksOK
<1>4. ASSUME NEW n \in Names, AnnounceCreating(n)
      PROVE  AsksOK'
  <2>1. [status |-> "creating", name |-> n] \in Settings
    BY DEF Settings
  <2> QED
    BY <1>2, <1>3, <1>4, <2>1 DEF AnnounceCreating
<1>5. ASSUME NEW n \in Names, DeleteWorkspace(n)
      PROVE  AsksOK'
  <2>1. [status |-> "deleting", name |-> n] \in Settings
    BY DEF Settings
  <2>2. /\ sent' = sent + 1 /\ taken' = taken
        /\ settings'[sent + 1] = [status |-> "deleting", name |-> n]
        /\ \A i \in 1..sent : settings'[i] = settings[i]
    BY <1>2, <1>5, <2>1 DEF DeleteWorkspace
  <2>3. sent + 1 \in 1..sent' /\ asked' = asked \cup {n}
    BY <1>0, <1>5, <2>2 DEF DeleteWorkspace
  <2>4. \E i \in 1..sent' : Asks(i, n)'
    BY <2>2, <2>3 DEF Asks
  <2> QED
    BY <1>3, <2>2, <2>3, <2>4
<1>6. CASE UNCHANGED <<topic, cluster, history>>
  BY <1>3, <1>6 DEF topic, history
<1>7. ASSUME UNCHANGED <<settings, sent, asked>>, taken' = taken + 1, taken < sent,
             \A n \in Names : Asks(taken + 1, n) => \E m \in Msgs : ReportedBy(m, n)'
      PROVE  AsksOK'
  <2>1. \A i \in 1..taken' : i \in 1..taken \/ i = taken + 1
    BY <1>0, <1>7
  <2> QED
    BY <1>1, <1>7, <2>1 DEF AsksOK, Asks
<1>8. CASE Provision
  BY <1>7, <1>8 DEF Provision, Taken, Asks, history
<1>9. ASSUME NEW m \in Msgs, Remove(m)
      PROVE  AsksOK'
  <2>1. ASSUME NEW n \in Names, Asks(taken + 1, n)
        PROVE  ReportedBy(m, n)'
    <3>1. Publish(m, n, "Deleting") /\ place \in [Msgs -> Places \cup Consumers]
          /\ body \in [Msgs -> Statuses \cup {None}]
      BY <1>0, <1>9, <2>1 DEF Remove, Taken, Asks, TInv, TypeOK, QueueTypeOK
    <3> QED
      BY <3>1 DEF Publish, Send, ReportedBy
  <2> QED
    BY <1>7, <1>9, <2>1 DEF Remove
<1> QED
  BY <1>4, <1>5, <1>6, <1>8, <1>9, TopicActions

\* The deletion of n is on its way: asked for ahead of the manager, or reported in a
\* status that is not acknowledged, so still to be delivered or dead-lettered.
Underway(n) == \/ \E i \in taken + 1 .. sent : Asks(i, n)
               \/ \E m \in Msgs : ReportedBy(m, n) /\ place[m] # "acked"

\* It was carried out: the row is disabled, the group and the secret are gone.
CarriedOut(n) == row[n].life = "Unavailable" /\ n \notin groups \cup secrets

DeletionIsNotLost == \A n \in asked : Underway(n) \/ CarriedOut(n)

\* A deletion that DeleteWorkspaceService published (workspaces.go:320) is never lost
\* on its way through both topics and the clean-up: it is underway, on the dead-letter
\* topic at worst, or was carried out in full.  This is the safety half of
\* DeletionTakesEffect, whatever fails and for any number of consumers.
THEOREM NoDeletionIsLost == SystemSpec /\ []Undisturbed => []DeletionIsNotLost
<1>1. SystemInit => AsksOK
  BY DEF SystemInit, AsksOK
<1>2. SystemInv /\ AsksOK /\ drops = 0 /\ AckedDeletionIsComplete => DeletionIsNotLost
  <2> SUFFICES ASSUME SystemInv, AsksOK, drops = 0, AckedDeletionIsComplete,
                      NEW n \in asked, ~Underway(n)
               PROVE  CarriedOut(n)
    BY DEF DeletionIsNotLost
  <2>1. PICK i \in 1..sent : Asks(i, n)
    BY DEF AsksOK
  <2>2. i \in 1..taken /\ n \in Names
    BY <2>1, SystemAssumption DEF Underway, SystemInv, TopicInv, TopicTypeOK
  <2>3. PICK m \in Msgs : ReportedBy(m, n)
    BY <2>1, <2>2 DEF AsksOK
  <2>4. place[m] = "acked" /\ SaysDeleting(body[m].kind) /\ body[m].name = n
    BY <2>3 DEF Underway, ReportedBy, SaysDeleting
  <2> QED
    BY <2>4 DEF AckedDeletionIsComplete, CarriedOut
<1> QED
  BY <1>1, <1>2, SystemInitInv, SystemStep, AsksStep, SystemDeletionComplete, PTL
     DEF SystemSpec
=============================================================================
