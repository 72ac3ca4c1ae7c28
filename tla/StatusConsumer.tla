--------------------------- MODULE StatusConsumer ---------------------------
(***************************************************************************)
(* The consumer of the workspace-status topic (cmd/consume.go) with the    *)
(* database operations it calls (db/workspaces.go) and the Keycloak and    *)
(* AWS calls of deleteWorkspace.  The loop is cut at every external call,  *)
(* each of which may fail, with or without having taken effect.            *)
(*                                                                         *)
(* The workspace manager that publishes statuses, the API server that      *)
(* creates workspaces and the deletion of accounts are the environment:    *)
(* Publish, CreateRow and DropRow.                                         *)
(*                                                                         *)
(* One clock stamps the messages (LastUpdated, set by the manager) and     *)
(* the rows (last_updated = CURRENT_TIMESTAMP, set by the database when    *)
(* the row is written): the clocks of both are taken to agree.             *)
(***************************************************************************)
EXTENDS Subscription

CONSTANTS Names,      \* workspace names
          Kinds,      \* the kinds of status the manager publishes, of AllKinds
          None,       \* no message
          MaxClock,   \* bound: the clock
          MaxFaults,  \* bound: failures of external calls
          MaxBreaks,  \* bound: lost connections and restarts of consumers
          MaxDrops    \* bound: deletions of the account owning a workspace

\* Garbage: not a WorkspaceStatus in JSON.  Deleting: State "Deleting".
\* DeletingGone: that with an empty Namespace.  Gone: an empty Namespace.
\* Ready: an access point, with a RootDirectory, of the block store of the workspace.
\* Partial: none such, its RootDirectory is blank or its Name that of no such store.
AllKinds == {"Garbage", "Deleting", "DeletingGone", "Gone", "Ready", "Partial"}

ASSUME ConsumerAssumption ==
    /\ Kinds \subseteq AllKinds
    /\ None \notin Msgs
    /\ MaxClock \in Nat /\ MaxFaults \in Nat
    /\ MaxBreaks \in Nat /\ MaxDrops \in Nat

VARIABLES clock,     \* the time
          body,      \* body[m]: the WorkspaceStatus message m carries
          row,       \* row[n]: the row of workspace n
          applied,   \* history: the statuses stored in the present row of n
          groups,    \* the names with a Keycloak group
          secrets,   \* the names with a secret ws-<name>
          pc,        \* pc[c]: the external call consumer c makes next
          cur,       \* cur[c]: the message c processes
          call,      \* call[c]: which call of deleteWorkspace c is in
          faults, breaks, drops

store    == <<row, applied, groups, secrets>>
process  == <<pc, cur, call>>
vars     == <<place, deliveries, clock, body, row, applied, groups, secrets,
              pc, cur, call, faults, breaks, drops>>

Statuses == [kind : AllKinds, name : Names, stamp : 0..MaxClock]

\* from: the message whose State and role the row shows, None while the row is
\* still as the API or DisableWorkspace wrote it.  mount: the message whose
\* RootDirectory is the mount_point of the block store, None when it is blank.
Rows == [life : {"absent", "live", "Unavailable"}, at : 0..MaxClock,
         from : Msgs \cup {None}, mount : Msgs \cup {None}]

Row(l, t) == [life |-> l, at |-> t, from |-> None, mount |-> None]

Labels == {"receive", "disable", "token", "group", "secret", "lookup", "update"}

TypeOK == /\ QueueTypeOK
          /\ clock \in 0..MaxClock
          /\ body \in [Msgs -> Statuses \cup {None}]
          /\ row \in [Names -> Rows]
          /\ applied \in [Names -> SUBSET Msgs]
          /\ groups \in SUBSET Names
          /\ secrets \in SUBSET Names
          /\ pc \in [Consumers -> Labels]
          /\ cur \in [Consumers -> Msgs \cup {None}]
          /\ call \in [Consumers -> {"deleting", "gone"}]
          /\ faults \in 0..MaxFaults
          /\ breaks \in 0..MaxBreaks
          /\ drops \in 0..MaxDrops

Init == /\ QueueInit
        /\ clock = 0
        /\ body = [m \in Msgs |-> None]
        /\ row = [n \in Names |-> Row("absent", 0)]
        /\ applied = [n \in Names |-> {}]
        /\ groups = {}
        /\ secrets = {}
        /\ pc = [c \in Consumers |-> "receive"]
        /\ cur = [c \in Consumers |-> None]
        /\ call = [c \in Consumers |-> "deleting"]
        /\ faults = 0 /\ breaks = 0 /\ drops = 0

-----------------------------------------------------------------------------
(* The environment *)

Tick == /\ clock < MaxClock
        /\ clock' = clock + 1
        /\ UNCHANGED <<queueVars, body, store, process, faults, breaks, drops>>

\* The manager publishes a status of workspace n.
Publish(m, n, k) ==
    /\ Send(m)
    /\ body' = [body EXCEPT ![m] = [kind |-> k, name |-> n, stamp |-> clock]]
    /\ UNCHANGED <<clock, store, process, faults, breaks, drops>>

\* The API creates workspace n: CreateGroup answers 409 while the group exists,
\* the INSERT needs the name to be free, and last_updated is the time at which
\* the transaction began.  Nothing in the repository stores a secret ws-<n>: there
\* may be one, from outside, or not.  One stored later, while the row is live, is no
\* different, because only DeleteSecret looks and the row is Unavailable by then.
CreateRow(n, t) ==
    /\ row[n].life = "absent"
    /\ n \notin groups
    /\ row' = [row EXCEPT ![n] = Row("live", t)]
    /\ applied' = [applied EXCEPT ![n] = {}]
    /\ groups' = groups \cup {n}
    /\ secrets' \in {secrets, secrets \cup {n}}
    /\ UNCHANGED <<queueVars, clock, body, process, faults, breaks, drops>>

\* The account owning workspace n is deleted: the row goes, by the cascade of
\* the foreign key, and the group and the secret stay.
DropRow(n) ==
    /\ drops < MaxDrops
    /\ drops' = drops + 1
    /\ row[n].life # "absent"
    /\ row' = [row EXCEPT ![n] = Row("absent", 0)]
    /\ UNCHANGED <<queueVars, clock, body, applied, groups, secrets, process,
                   faults, breaks>>

-----------------------------------------------------------------------------
(* The consumer loop *)

Kind(c)  == body[cur[c]].kind
Name(c)  == body[cur[c]].name
Stamp(m) == body[m].stamp

\* Mutant: a blank RootDirectory is taken for an empty Namespace.
NoStore(k) == k \in {"Gone", "DeletingGone", "Partial"}

SaysDeleting(k)   == k \in {"Deleting", "DeletingGone"}
NamespaceEmpty(k) == k \in {"Gone", "DeletingGone"}

\* Mutant: a blank RootDirectory is written like any other.
RootNeverBlank(k) == FALSE

RootBlank(k) == k # "Ready"

RootDirectory(m) == IF body[m].kind = "Ready" THEN m ELSE None

Goto(c, l) == pc' = [pc EXCEPT ![c] = l]

NoFault == UNCHANGED faults
Fault   == /\ faults < MaxFaults
           /\ faults' = faults + 1

\* Mutant: the acknowledgement is forgotten.
FinishUnacknowledged(c) == /\ UNCHANGED queueVars
                           /\ Goto(c, "receive")

\* Back to ReceiveMessage, having acknowledged the message ...
Finish(c) == /\ Ack(cur[c])
             /\ Goto(c, "receive")

\* Mutants: a failure is acknowledged; DisableWorkspace's error is not returned.
AckFailure(c)    == Finish(c)
IgnoreFailure(c) == /\ UNCHANGED queueVars
                    /\ Goto(c, IF pc[c] = "disable" THEN "token" ELSE "receive")

\* ... or having negatively acknowledged it because a call failed.
GiveUp(c) == /\ Nack(cur[c], c)
             /\ Goto(c, "receive")

\* A message that does not unmarshal is left as it is, neither acknowledged nor
\* negatively acknowledged.
Receive(c, m) ==
    /\ pc[c] = "receive"
    /\ Deliver(m, c)
    /\ cur' = [cur EXCEPT ![c] = m]
    /\ call' = [call EXCEPT ![c] = "deleting"]
    /\ Goto(c, CASE body[m].kind = "Garbage" -> "receive"
                 [] SaysDeleting(body[m].kind) -> "disable"
                 [] OTHER -> "lookup")
    /\ UNCHANGED <<clock, body, store, faults, breaks, drops>>

\* DisableWorkspace, one transaction: the stores go, the status becomes
\* Unavailable.  A commit may succeed and still answer with an error.
Disable(c) ==
    LET n == Name(c) IN
    /\ pc[c] = "disable"
    /\ \/ /\ row[n].life # "absent"
          /\ row' = [row EXCEPT ![n] = Row("Unavailable", clock)]
          /\ \/ Goto(c, "token") /\ NoFault /\ UNCHANGED queueVars
             \/ Fault /\ GiveUp(c)
       \/ /\ row[n].life = "absent"
          /\ NoFault
          /\ GiveUp(c)
          /\ UNCHANGED row
       \/ /\ Fault
          /\ GiveUp(c)
          /\ UNCHANGED row
    /\ UNCHANGED <<clock, body, applied, groups, secrets, cur, call, breaks,
                   drops>>

GetToken(c) ==
    /\ pc[c] = "token"
    /\ \/ Goto(c, "group") /\ NoFault /\ UNCHANGED queueVars
       \/ Fault /\ GiveUp(c)
    /\ UNCHANGED <<clock, body, store, cur, call, breaks, drops>>

\* KeycloakClient.DeleteGroup: GetGroup answers an error when there is no group
\* of that name.
DeleteGroup(c) ==
    LET n == Name(c) IN
    /\ pc[c] = "group"
    /\ \/ /\ n \in groups
          /\ groups' = groups \ {n}
          /\ \/ Goto(c, "secret") /\ NoFault /\ UNCHANGED queueVars
             \/ Fault /\ GiveUp(c)
       \/ /\ n \notin groups
          /\ NoFault
          /\ GiveUp(c)
          /\ UNCHANGED groups
       \/ /\ Fault
          /\ GiveUp(c)
          /\ UNCHANGED groups
    /\ UNCHANGED <<clock, body, row, applied, secrets, cur, call, breaks, drops>>

\* DeleteSecret with ForceDeleteWithoutRecovery, which does not mind a missing
\* secret, and the way back into the loop: a Deleting status is acknowledged and
\* then looked up like any other, any other one is done with.
DeleteSecret(c) ==
    LET n == Name(c) IN
    /\ pc[c] = "secret"
    /\ \/ /\ secrets' = secrets \ {n}
          /\ \/ /\ Ack(cur[c])
                /\ Goto(c, IF call[c] = "deleting" THEN "lookup" ELSE "receive")
                /\ NoFault
             \/ Fault /\ GiveUp(c)
       \/ /\ Fault
          /\ GiveUp(c)
          /\ UNCHANGED secrets
    /\ UNCHANGED <<clock, body, row, applied, groups, cur, call, breaks, drops>>

\* Mutants: disabled rows are not filtered out; times are not compared.
VisibleDisabled(n) == row[n].life # "absent"
NewerAlways(c)     == Stamp(cur[c]) > 0

\* GetWorkspace finds the row unless it is Unavailable, and a status is taken
\* for newer if it was made after the row was written.
Visible(n) == row[n].life = "live"
Newer(c)   == Stamp(cur[c]) > row[Name(c)].at

\* GetWorkspace and the comparison of the times.  Any error of the query is
\* taken for a workspace that is not there, and the message is discarded.
Lookup(c) ==
    /\ pc[c] = "lookup"
    /\ \/ /\ Visible(Name(c)) /\ Newer(c)
          /\ NoFault
          /\ UNCHANGED queueVars
          /\ IF NamespaceEmpty(Kind(c))
             THEN Goto(c, "disable") /\ call' = [call EXCEPT ![c] = "gone"]
             ELSE Goto(c, "update") /\ UNCHANGED call
       \/ /\ ~(Visible(Name(c)) /\ Newer(c))
          /\ NoFault
          /\ Finish(c)
          /\ UNCHANGED call
       \/ /\ Fault
          /\ Finish(c)
          /\ UNCHANGED call
    /\ UNCHANGED <<clock, body, store, cur, breaks, drops>>

\* UpdateWorkspaceStatus, one transaction on the row of that name whatever its
\* status.  A blank RootDirectory leaves the mount point alone, as does the name of
\* a store that the workspace does not have (the UPDATE of no rows is no error), and
\* there is no block store left to update in a row that was disabled.
UpdateWorkspaceStatus(c) ==
    LET m == cur[c]
        n == Name(c)
        mounted == IF RootBlank(Kind(c)) \/ row[n].life = "Unavailable"
                   THEN row[n].mount ELSE RootDirectory(m)
    IN
    /\ pc[c] = "update"
    /\ \/ /\ row[n].life # "absent"
          /\ row' = [row EXCEPT ![n] = [life |-> "live", at |-> clock,
                                        from |-> m, mount |-> mounted]]
          /\ applied' = [applied EXCEPT ![n] = @ \cup {m}]
          /\ \/ Finish(c) /\ NoFault
             \/ Fault /\ GiveUp(c)
       \/ /\ row[n].life = "absent"
          /\ NoFault
          /\ GiveUp(c)
          /\ UNCHANGED <<row, applied>>
       \/ /\ Fault
          /\ GiveUp(c)
          /\ UNCHANGED <<row, applied>>
    /\ UNCHANGED <<clock, body, groups, secrets, cur, call, breaks, drops>>

\* The connection of c breaks while it works, or its process restarts.
Break(c) == /\ breaks < MaxBreaks
            /\ breaks' = breaks + 1
            /\ Release(c)
            /\ UNCHANGED <<clock, body, store, process, faults, drops>>

Restart(c) == /\ breaks < MaxBreaks
              /\ breaks' = breaks + 1
              /\ Release(c)
              /\ Goto(c, "receive")
              /\ UNCHANGED <<clock, body, store, cur, call, faults, drops>>

DeadLettered(m) == /\ DeadLetter(m)
                   /\ UNCHANGED <<clock, body, store, process, faults, breaks,
                                  drops>>

Step(c) == \/ \E m \in Msgs : Receive(c, m)
           \/ Disable(c) \/ GetToken(c) \/ DeleteGroup(c) \/ DeleteSecret(c)
           \/ Lookup(c) \/ UpdateWorkspaceStatus(c)

Environment == \/ Tick
               \/ \E m \in Msgs, n \in Names, k \in Kinds : Publish(m, n, k)
               \/ \E n \in Names : DropRow(n) \/ \E t \in 0..clock : CreateRow(n, t)

Next == \/ Environment
        \/ \E c \in Consumers : Step(c) \/ Break(c) \/ Restart(c)
        \/ \E m \in Msgs : DeadLettered(m)

Spec == Init /\ [][Next]_vars

\* A consumer that can go on does, and the client library routes exhausted
\* messages to the dead-letter topic.
Fairness == /\ \A c \in Consumers : WF_vars(Step(c))
            /\ WF_vars(\E m \in Msgs : DeadLettered(m))

FairSpec == Spec /\ Fairness

-----------------------------------------------------------------------------
(* Properties *)

\* What a live row shows is the newest of the statuses stored in it, and its
\* mount point is that of the newest one that had a RootDirectory: an older
\* status never replaces a newer one (consume.go:74) and a partial status never
\* takes a mount point away (workspaces.go:441-443).
RowShowsNewest ==
    \A n \in Names : row[n].life = "live" =>
        \A m \in applied[n] :
            /\ row[n].from # None
            /\ Stamp(m) <= Stamp(row[n].from)
            /\ body[m].kind = "Ready" => /\ row[n].mount # None
                                        /\ Stamp(m) <= Stamp(row[n].mount)

\* A workspace that was disabled is never brought back by a status: its row
\* stays Unavailable until the account it belongs to is deleted, although
\* UpdateWorkspaceStatus does not look at the status of the row it writes.
DisabledForGood ==
    [][\A n \in Names : row[n].life = "Unavailable" => row'[n].life # "live"]_vars

\* The clean-up of deleteWorkspace runs in its order whatever fails between the
\* steps: a workspace loses its group only once its row is Unavailable, and the
\* secret, where there is one, only once its group is gone.  It holds until an
\* account is deleted: then a name can be used again while the clean-up of its last
\* use goes on.
CleanupInOrder ==
    [][drops = 0 =>
         \A n \in Names :
             /\ n \in groups \ groups' => row[n].life = "Unavailable"
             /\ n \in secrets \ secrets' =>
                   row[n].life = "Unavailable" /\ n \notin groups]_vars

\* A Deleting status is acknowledged only when all of the deletion is done: one
\* that failed half-way is never lost by an acknowledgement.  It holds until an
\* account is deleted.
AckedDeletionIsComplete ==
    drops = 0 =>
        \A m \in Msgs : place[m] = "acked" /\ SaysDeleting(body[m].kind) =>
            LET n == body[m].name IN
            row[n].life = "Unavailable" /\ n \notin groups /\ n \notin secrets

\* Every status that can be read is settled, acknowledged or dead-lettered,
\* whatever fails and however often it is redelivered.
EveryStatusSettles ==
    \A m \in Msgs :
        place[m] # "unsent" /\ body[m].kind # "Garbage" ~> Settled(m)

DeletionPending(n) ==
    \E m \in Msgs : /\ place[m] = "backlog" /\ deliveries[m] = 0
                   /\ SaysDeleting(body[m].kind)
                   /\ body[m].name = n

\* The table the consumer writes is a workspace lifecycle: statuses only get
\* newer, and Unavailable is the end of a workspace.
Lifecycle == INSTANCE WorkspaceLifecycle WITH
                 life  <- [n \in Names |-> row[n].life],
                 shown <- [n \in Names |-> IF row[n].from = None THEN 0
                                           ELSE Stamp(row[n].from)]

ImplementsLifecycle == Lifecycle!Spec

(* What comments of the code say and the code does not do *)

\* consume.go:74 "Update the workspace in the database if the incoming status is
\* newer", and consume.go:105 logs the others as older: a status is discarded
\* only when the row already shows one at least as new.
DiscardedOnlyIfOlder ==
    [][\A c \in Consumers :
         LET n == Name(c) IN
         /\ pc[c] = "lookup" /\ pc'[c] = "receive" /\ place'[cur[c]] = "acked"
         /\ Visible(n) /\ row[n].from # None
         => Stamp(cur[c]) <= Stamp(row[n].from)]_vars

\* consume.go:56 "Nack the message if there is an error and attempt redelivery",
\* and consume.go:114-115 "removing its Keycloak group, and deleting any
\* lingering secrets": one failure is made good by the redelivery.
DeletionIsRetried ==
    \A n \in Names :
        row[n].life = "live" /\ n \in secrets /\ DeletionPending(n)
        ~> n \notin secrets
=============================================================================
