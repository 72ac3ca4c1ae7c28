--------------------------- MODULE WorkspaceSystem ---------------------------
(***************************************************************************)
(* The round trip of a workspace: the API announces it on the settings     *)
(* topic and commits its row (api/services/workspaces.go), a deletion and  *)
(* the reconcile job (cmd/reconcile.go) announce on the same topic, the    *)
(* workspace manager works through the topic and reports on the status     *)
(* topic, and the consumer of StatusConsumer writes what it reports into   *)
(* the row.  The names, the rows and the status topic are those of         *)
(* StatusConsumer, and its steps are taken as they are.                    *)
(*                                                                         *)
(* The manager is not part of the repository.  It is taken to be as good   *)
(* as it can be: it takes the settings in the order they were published,   *)
(* each once, never fails, and answers every deletion with one Deleting    *)
(* status.  No account is deleted, so no name is used twice, and the group *)
(* of a name, which the consumer asks for only once the row is disabled,   *)
(* may appear with the row instead of before it.                           *)
(***************************************************************************)
EXTENDS StatusConsumer, FiniteSets

CONSTANTS MaxSettings,  \* bound: messages on the settings topic
          MaxDeletions, \* bound: those that ask for a deletion
          MaxReports,   \* bound: statuses other than Deleting
          MaxJobs,      \* bound: runs of the reconcile job
          MaxFailures   \* bound: failures of Publish and CommitTransaction

ASSUME SystemAssumption ==
    /\ {"Deleting", "Gone", "Ready", "Partial"} \subseteq Kinds
    /\ MaxSettings \in Nat /\ MaxDeletions \in Nat
    /\ MaxReports \in Nat /\ MaxJobs \in Nat /\ MaxFailures \in Nat

VARIABLES creation,     \* creation[n]: how far the creation of n has come
          began,        \* began[n]: when its transaction began
          settings,     \* settings[i]: the i-th message on the settings topic
          sent, taken,  \* the messages published, and taken by the manager
          cluster,      \* the names the manager has resources for
          snapshot,     \* the names the reconcile job has still to announce
          reports, jobs, failures,
          asked,        \* history: the names whose deletion was asked for
          handled,      \* history: those whose deletion the manager took
          crossed       \* history: those announced again after that was asked

api        == <<creation, began>>
topic      == <<settings, sent, taken>>
history    == <<asked, handled, crossed>>
bounds     == <<reports, jobs, failures>>
systemVars == <<vars, api, topic, cluster, snapshot, bounds, history>>

Settings == [status : {"creating", "deleting"}, name : Names]

Progress == {"none", "inserted", "announced", "committed", "abandoned"}

SystemTypeOK == /\ TypeOK
                /\ creation \in [Names -> Progress]
                /\ began \in [Names -> 0..MaxClock]
                /\ settings \in [1..MaxSettings -> Settings \cup {None}]
                /\ sent \in 0..MaxSettings
                /\ taken \in 0..sent
                /\ \A i \in 1..sent : settings[i] \in Settings
                /\ cluster \in SUBSET Names
                /\ snapshot \in SUBSET Names
                /\ reports \in 0..MaxReports
                /\ jobs \in 0..MaxJobs
                /\ failures \in 0..MaxFailures
                /\ asked \in SUBSET Names
                /\ handled \in SUBSET asked
                /\ crossed \in SUBSET asked

SystemInit == /\ Init
              /\ creation = [n \in Names |-> "none"]
              /\ began = [n \in Names |-> 0]
              /\ settings = [i \in 1..MaxSettings |-> None]
              /\ sent = 0 /\ taken = 0
              /\ cluster = {}
              /\ snapshot = {}
              /\ reports = 0 /\ jobs = 0 /\ failures = 0
              /\ asked = {} /\ handled = {} /\ crossed = {}

-----------------------------------------------------------------------------
(* The settings topic *)

\* One Send that reaches the topic.  Whether Publish is told so is up to the
\* caller's step: a Send that answers an error may have delivered.
Append(s) == /\ sent < MaxSettings
             /\ settings' = [settings EXCEPT ![sent + 1] = s]
             /\ sent' = sent + 1
             /\ UNCHANGED taken

NoFailure == UNCHANGED failures
Failure   == /\ failures < MaxFailures
             /\ failures' = failures + 1

\* What announcing n as "creating" adds to the history.
Crosses(n) == crossed' = crossed \cup ({n} \cap asked)

AnnounceCreating(n) == /\ Append([status |-> "creating", name |-> n])
                       /\ Crosses(n)
                       /\ UNCHANGED <<asked, handled>>

Unannounced == UNCHANGED <<topic, history>>

-----------------------------------------------------------------------------
(* CreateWorkspaceService, from its INSERT on *)

Advance(n, p) == creation' = [creation EXCEPT ![n] = p]

\* The name is free and its group is new, so nobody else is creating n.  A
\* creation that failed leaves the group, and the name is never tried again.
Insert(n) ==
    /\ creation[n] = "none"
    /\ Advance(n, "inserted")
    /\ began' = [began EXCEPT ![n] = clock]
    /\ UNCHANGED <<vars, topic, cluster, snapshot, bounds, history>>

\* Mutant: the transaction is committed though Publish answers an error.
AnnounceUnchecked(n) ==
    /\ creation[n] = "inserted"
    /\ Advance(n, "announced")
    /\ \/ AnnounceCreating(n) /\ NoFailure
       \/ Failure /\ Unannounced
    /\ UNCHANGED <<vars, began, cluster, snapshot, reports, jobs>>

\* One attempt of Publish: it delivers, and then either answers so or is
\* repeated, or the last one fails and the transaction is rolled back.
Announce(n) ==
    /\ creation[n] = "inserted"
    /\ \/ AnnounceCreating(n) /\ NoFailure /\ Advance(n, "announced")
       \/ AnnounceCreating(n) /\ Failure /\ UNCHANGED creation
       \/ AnnounceCreating(n) /\ Failure /\ Advance(n, "abandoned")
       \/ Unannounced /\ Failure /\ Advance(n, "abandoned")
    /\ UNCHANGED <<vars, began, cluster, snapshot, reports, jobs>>

\* CommitTransaction, which may fail before it takes effect.
Commit(n) ==
    /\ creation[n] = "announced"
    /\ CreateRow(n, began[n])
    /\ Advance(n, "committed")
    /\ UNCHANGED <<began, topic, cluster, snapshot, bounds, history>>

LoseCommit(n) ==
    /\ creation[n] = "announced"
    /\ Failure
    /\ Advance(n, "abandoned")
    /\ UNCHANGED <<vars, began, topic, cluster, snapshot, reports, jobs, history>>

-----------------------------------------------------------------------------
(* The other publishers *)

Deletions == {i \in 1..sent : settings[i].status = "deleting"}

\* Mutant: the settings carry no name.
DeleteNamesNone(n) ==
    /\ Cardinality(Deletions) < MaxDeletions
    /\ Append([status |-> "deleting", name |-> None])
    /\ asked' = asked \cup {n}
    /\ UNCHANGED <<vars, api, cluster, snapshot, bounds, handled, crossed>>

\* DeleteWorkspaceService only publishes: it does not look whether there is a
\* workspace n, whether it is still being created or its deletion under way.  A
\* repeated attempt of Publish is another such step.
DeleteWorkspace(n) ==
    /\ Cardinality(Deletions) < MaxDeletions
    /\ Append([status |-> "deleting", name |-> n])
    /\ asked' = asked \cup {n}
    /\ UNCHANGED <<vars, api, cluster, snapshot, bounds, handled, crossed>>

\* GetAllWorkspaces.
Listed == {n \in Names : row[n].life = "live"}

\* The reconcile job starts with the names of all workspaces ...
StartJob == /\ jobs < MaxJobs
            /\ snapshot = {}
            /\ jobs' = jobs + 1
            /\ snapshot' = Listed
            /\ UNCHANGED <<vars, api, topic, cluster, reports, failures, history>>

\* ... and announces one after the other.  An error is logged and the next one is
\* announced; until then a repeated attempt may deliver once more.
JobAnnounce(n) ==
    /\ n \in snapshot
    /\ \/ AnnounceCreating(n) /\ NoFailure /\ snapshot' = snapshot \ {n}
       \/ AnnounceCreating(n) /\ Failure /\ snapshot' \in {snapshot, snapshot \ {n}}
       \/ Unannounced /\ Failure /\ snapshot' = snapshot \ {n}
    /\ UNCHANGED <<vars, api, cluster, reports, jobs>>

-----------------------------------------------------------------------------
(* The workspace manager *)

Taken == settings[taken + 1]

\* Messages have no identity of their own: each status takes the next one.
Fresh(m) == /\ place[m] = "unsent"
            /\ m = CHOOSE x \in Msgs : place[x] = "unsent"

\* The manager takes the next message: it provides the resources of a workspace
\* or removes them and says so.
Provision == /\ taken < sent
             /\ Taken.status = "creating"
             /\ taken' = taken + 1
             /\ cluster' = cluster \cup {Taken.name}
             /\ UNCHANGED <<vars, api, settings, sent, snapshot, bounds, history>>

Remove(m) == /\ taken < sent
             /\ Taken.status = "deleting"
             /\ taken' = taken + 1
             /\ cluster' = cluster \ {Taken.name}
             /\ handled' = handled \cup {Taken.name}
             /\ Fresh(m) /\ Publish(m, Taken.name, "Deleting")
             /\ UNCHANGED <<api, settings, sent, snapshot, bounds, asked, crossed>>

Take == Provision \/ \E m \in Msgs : Remove(m)

\* It reports on a workspace it has resources for, and that a workspace it has
\* removed is gone.
Report(m, n, k) ==
    /\ reports < MaxReports
    /\ reports' = reports + 1
    /\ \/ n \in cluster /\ k \in {"Ready", "Partial"}
       \/ n \in handled \ cluster /\ k = "Gone"
    /\ Fresh(m) /\ Publish(m, n, k)
    /\ UNCHANGED <<api, topic, cluster, snapshot, jobs, failures, history>>

-----------------------------------------------------------------------------
ConsumerStep == /\ \/ Tick
                   \/ \E c \in Consumers : Step(c) \/ Break(c) \/ Restart(c)
                   \/ \E m \in Msgs : DeadLettered(m)
                /\ UNCHANGED <<api, topic, cluster, snapshot, bounds, history>>

SystemNext ==
    \/ ConsumerStep
    \/ \E n \in Names : \/ Insert(n) \/ Announce(n) \/ Commit(n) \/ LoseCommit(n)
                        \/ DeleteWorkspace(n) \/ JobAnnounce(n)
                        \/ \E m \in Msgs, k \in Kinds : Report(m, n, k)
    \/ StartJob
    \/ Take

SystemSpec == SystemInit /\ [][SystemNext]_systemVars

\* The consumer and the manager go on as long as they can.  A client may stop
\* asking at any point, and so may a request: the API server may restart.
FairSystemSpec == SystemSpec /\ Fairness /\ WF_systemVars(Take)

-----------------------------------------------------------------------------
(* Properties *)

\* A workspace that the table gives up has no resources left in the cluster,
\* except when it was announced again after its deletion was asked for: by a
\* reconcile job that read the names before (reconcile.go:26), or by a creation
\* that was still to announce it (workspaces.go:320 looks at neither).
NothingLeftBehind ==
    \A n \in Names : row[n].life = "Unavailable" /\ n \in cluster => n \in crossed

\* A committed workspace is never forgotten between the API and the manager: while
\* it has no resources and nobody asked for its deletion, its announcement is still
\* on the settings topic, ahead of the manager.  CreateWorkspaceService publishes
\* before it commits and commits nothing that it could not publish
\* (workspaces.go:269-283).
CommittedIsAnnounced ==
    \A n \in Names : row[n].life = "live" /\ n \notin cluster \cup asked =>
        \E i \in taken + 1 .. sent : settings[i] = [status |-> "creating", name |-> n]

\* A workspace that was committed gets its resources, or its deletion was asked
\* for: it is announced before it is committed, whatever Publish answers
\* (workspaces.go:269).
CommittedIsProvisioned ==
    \A n \in Names : row[n].life = "live" ~> n \in cluster \/ n \in asked

DeletionAsked(n) ==
    \E i \in taken + 1 .. sent : settings[i] = [status |-> "deleting", name |-> n]

\* A deletion asked for while the manager has not seen it yet takes effect in the
\* table, as long as fewer things go wrong than a status has deliveries.
DeletionTakesEffect ==
    \A n \in Names : row[n].life = "live" /\ DeletionAsked(n) ~> row[n].life # "live"
=============================================================================
