-------------------------- MODULE WorkspaceCreation --------------------------
(***************************************************************************)
(* Concurrent requests to create a workspace: CreateWorkspaceService       *)
(* (api/services/workspaces.go) with the calls it makes to the database    *)
(* (db/workspaces.go), Keycloak (keycloak.go) and Pulsar (publisher.go).   *)
(*                                                                         *)
(* A request is cut at its external calls.  Every call may fail, and one   *)
(* that changes something may fail after it did.  The transaction of       *)
(* CreateWorkspace stays open while the workspace is announced.            *)
(***************************************************************************)
EXTENDS Naturals, FiniteSets

CONSTANTS Requests,    \* the requests, each of a user of its own
          Names,       \* workspace names
          Accounts,    \* billing accounts
          None,        \* no request
          maxRetries,  \* publisher.go: attempts to send
          MaxFaults,   \* bound: failures of external calls
          MaxCrashes   \* bound: restarts of the API server

ASSUME CreationAssumption ==
    /\ None \notin Requests
    /\ maxRetries \in Nat \ {0}
    /\ MaxFaults \in Nat /\ MaxCrashes \in Nat

VARIABLES name,       \* name[r]: the name r asks for
          owner,      \* owner[r]: the account that is to own the workspace
          pc,         \* pc[r]: the external call r makes next
          answer,     \* answer[r]: the status code sent, 0 while there is none
          tx,         \* tx[r]: the transaction r began
          attempt,    \* attempt[r]: failed attempts to send
          account,    \* account[a]: "pending", "approved" or "gone"
          row,        \* row[n]: the request that committed the row of n
          life,       \* life[n]: "absent", "live" or "Unavailable"
          group,      \* group[n]: the request that made the Keycloak group n
          gid,        \* gid[r]: the group that GetGroup found for r
          members,    \* members[n]: the requests whose user is in group n
          leaving,    \* the names whose deletion the consumer works on
          orphaned,   \* history: the names whose account was deleted meanwhile
          announced,  \* the requests whose workspace was announced
          faults, crashes

external == <<account, row, life, group, members, leaving, orphaned, announced>>
input == <<name, owner>>
vars == <<input, pc, answer, tx, attempt, gid, external, faults, crashes>>

Labels == {"account", "exists", "group", "getGroup", "member", "insert",
           "publish", "commit", "done"}

\* 0: none was sent.  599 stands for the answer that cannot be sent: the status
\* code of CreateGroup is 0 when Keycloak was not reached (keycloak.go:365).
Answers == {0, 201, 403, 409, 500, 599}

TypeOK == /\ name \in [Requests -> Names]
          /\ owner \in [Requests -> Accounts]
          /\ pc \in [Requests -> Labels]
          /\ answer \in [Requests -> Answers]
          /\ tx \in [Requests -> {"none", "open", "aborted"}]
          /\ attempt \in [Requests -> 0..maxRetries]
          /\ account \in [Accounts -> {"approved", "pending", "gone"}]
          /\ row \in [Names -> Requests \cup {None}]
          /\ life \in [Names -> {"absent", "live", "Unavailable"}]
          /\ group \in [Names -> Requests \cup {None}]
          /\ gid \in [Requests -> Requests \cup {None}]
          /\ members \in [Names -> SUBSET Requests]
          /\ leaving \in SUBSET Names
          /\ orphaned \in SUBSET Names
          /\ announced \in SUBSET Requests
          /\ faults \in 0..MaxFaults
          /\ crashes \in 0..MaxCrashes

Init == /\ name \in [Requests -> Names]
        /\ owner \in [Requests -> Accounts]
        /\ pc = [r \in Requests |-> "account"]
        /\ answer = [r \in Requests |-> 0]
        /\ tx = [r \in Requests |-> "none"]
        /\ attempt = [r \in Requests |-> 0]
        /\ account \in [Accounts -> {"approved", "pending"}]
        /\ row = [n \in Names |-> None]
        /\ life = [n \in Names |-> "absent"]
        /\ group = [n \in Names |-> None]
        /\ gid = [r \in Requests |-> None]
        /\ members = [n \in Names |-> {}]
        /\ leaving = {}
        /\ orphaned = {}
        /\ announced = {}
        /\ faults = 0 /\ crashes = 0

-----------------------------------------------------------------------------
(* A request *)

Goto(r, l) == pc' = [pc EXCEPT ![r] = l]

\* WriteResponse and return.
Reply(r, code) == /\ Goto(r, "done")
                  /\ answer' = [answer EXCEPT ![r] = code]

Continue(r, l) == Goto(r, l) /\ UNCHANGED answer

NoFault == UNCHANGED faults
Fault   == /\ faults < MaxFaults
           /\ faults' = faults + 1

\* CheckAccountIsVerified.
CheckAccount(r) ==
    /\ pc[r] = "account"
    /\ \/ account[owner[r]] = "approved" /\ Continue(r, "exists") /\ NoFault
       \/ account[owner[r]] # "approved" /\ Reply(r, 403) /\ NoFault
       \/ Fault /\ Reply(r, 500)
    /\ UNCHANGED <<input, tx, attempt, gid, external, crashes>>

\* CheckWorkspaceExists counts the Unavailable rows, too.
CheckExists(r) ==
    /\ pc[r] = "exists"
    /\ \/ life[name[r]] = "absent" /\ Continue(r, "group") /\ NoFault
       \/ life[name[r]] # "absent" /\ Reply(r, 409) /\ NoFault
       \/ Fault /\ Reply(r, 500)
    /\ UNCHANGED <<input, tx, attempt, gid, external, crashes>>

\* Mutant: a group that exists already is as good as a new one.
CreateGroupOrReuse(r) ==
    /\ pc[r] = "group"
    /\ group' = [group EXCEPT ![name[r]] = IF @ = None THEN r ELSE @]
    /\ Continue(r, "getGroup")
    /\ UNCHANGED <<input, tx, attempt, gid, account, row, life, members, leaving,
                   orphaned, announced, faults, crashes>>

\* KeycloakClient.CreateGroup: 409 while there is a group of that name.  When the
\* group was made and the body of the answer is lost, the code comes with an
\* error, so CreateWorkspaceService stops and sends it on: 201.
CreateGroup(r) ==
    /\ pc[r] = "group"
    /\ \/ /\ group[name[r]] = None
          /\ group' = [group EXCEPT ![name[r]] = r]
          /\ \/ Continue(r, "getGroup") /\ NoFault
             \/ Fault /\ \E code \in {201, 599} : Reply(r, code)
       \/ /\ group[name[r]] # None
          /\ NoFault
          /\ Reply(r, 409)
          /\ UNCHANGED group
       \/ /\ Fault
          /\ \E code \in {500, 599} : Reply(r, code)
          /\ UNCHANGED group
    /\ UNCHANGED <<input, tx, attempt, gid, account, row, life, members, leaving,
                   orphaned, announced, crashes>>

\* GetGroup finds the group by its name; from here on r uses its ID.
GetGroup(r) ==
    /\ pc[r] = "getGroup"
    /\ \/ /\ group[name[r]] # None
          /\ gid' = [gid EXCEPT ![r] = group[name[r]]]
          /\ Continue(r, "member")
          /\ NoFault
       \/ /\ group[name[r]] = None
          /\ NoFault
          /\ Reply(r, 500)
          /\ UNCHANGED gid
       \/ /\ Fault
          /\ Reply(r, 500)
          /\ UNCHANGED gid
    /\ UNCHANGED <<input, tx, attempt, external, crashes>>

\* Mutant: the error of AddMemberToGroup is not looked at.
AddMemberUnchecked(r) ==
    /\ pc[r] = "member"
    /\ \/ /\ members' = [members EXCEPT ![name[r]] = @ \cup {r}]
          /\ NoFault
       \/ Fault /\ UNCHANGED members
    /\ Continue(r, "insert")
    /\ UNCHANGED <<input, tx, attempt, gid, account, row, life, group, leaving,
                   orphaned, announced, crashes>>

\* AddMemberToGroup fails when the group found was deleted in the meantime.
AddMember(r) ==
    /\ pc[r] = "member"
    /\ \/ /\ group[name[r]] = gid[r]
          /\ members' = [members EXCEPT ![name[r]] = @ \cup {r}]
          /\ \/ Continue(r, "insert") /\ NoFault
             \/ Fault /\ Reply(r, 500)
       \/ /\ group[name[r]] # gid[r]
          /\ NoFault
          /\ Reply(r, 500)
          /\ UNCHANGED members
       \/ /\ Fault
          /\ Reply(r, 500)
          /\ UNCHANGED members
    /\ UNCHANGED <<input, tx, attempt, gid, account, row, life, group, leaving,
                   orphaned, announced, crashes>>

\* Mutant: the INSERT does without the UNIQUE constraint on the name.
InsertAnyway(r) ==
    /\ pc[r] = "insert"
    /\ account[owner[r]] # "gone"
    /\ tx' = [tx EXCEPT ![r] = "open"]
    /\ Continue(r, "publish")
    /\ UNCHANGED <<input, attempt, gid, external, faults, crashes>>

\* CreateWorkspace: BEGIN and the INSERTs.  The INSERT of a name waits for the
\* open transaction that holds it.  When the first one fails, because the name
\* is taken or the account is gone or for any other reason, the function returns
\* without a rollback; when a store cannot be inserted it rolls back.
Insert(r) ==
    /\ pc[r] = "insert"
    /\ \A s \in Requests : name[s] = name[r] => tx[s] # "open"
    /\ \/ /\ life[name[r]] = "absent" /\ account[owner[r]] # "gone"
          /\ tx' = [tx EXCEPT ![r] = "open"]
          /\ Continue(r, "publish")
          /\ NoFault
       \/ /\ life[name[r]] # "absent" \/ account[owner[r]] = "gone"
          /\ tx' = [tx EXCEPT ![r] = "aborted"]
          /\ Reply(r, 500)
          /\ NoFault
       \/ /\ Fault
          /\ \E left \in {"none", "aborted"} : tx' = [tx EXCEPT ![r] = left]
          /\ Reply(r, 500)
    /\ UNCHANGED <<input, attempt, gid, external, crashes>>

\* Mutant: the error of Publish is logged and the transaction committed.
GiveUpPublishing(r) == /\ Continue(r, "commit")
                       /\ UNCHANGED tx

\* Mutant: the transaction stays open.
StopWithoutRollback(r) == /\ Reply(r, 500)
                          /\ UNCHANGED tx

\* Publish gave up: Rollback.
StopPublishing(r) == /\ tx' = [tx EXCEPT ![r] = "none"]
                     /\ Reply(r, 500)

\* Mutant: one attempt too many.
OneMoreAttempt(r) == attempt[r] >= maxRetries

LastAttempt(r) == attempt[r] + 1 >= maxRetries

\* One attempt of Publish.  An attempt that answers with an error may have
\* delivered the message.
Publish(r) ==
    /\ pc[r] = "publish"
    /\ \/ /\ announced' = announced \cup {r}
          /\ Continue(r, "commit")
          /\ NoFault
          /\ UNCHANGED <<tx, attempt>>
       \/ /\ Fault
          /\ announced' \in {announced, announced \cup {r}}
          /\ attempt' = [attempt EXCEPT ![r] = @ + 1]
          /\ IF LastAttempt(r)
             THEN StopPublishing(r)
             ELSE Continue(r, "publish") /\ UNCHANGED tx
    /\ UNCHANGED <<input, gid, account, row, life, group, members, leaving,
                   orphaned, crashes>>

\* CommitTransaction.
Commit(r) ==
    /\ pc[r] = "commit"
    /\ tx' = [tx EXCEPT ![r] = "none"]
    /\ \/ /\ row' = [row EXCEPT ![name[r]] = r]
          /\ life' = [life EXCEPT ![name[r]] = "live"]
          /\ \/ Reply(r, 201) /\ NoFault
             \/ Reply(r, 500) /\ Fault
       \/ /\ Fault
          /\ Reply(r, 500)
          /\ UNCHANGED <<row, life>>
    /\ UNCHANGED <<input, attempt, gid, account, group, members, leaving, orphaned,
                   announced, crashes>>

-----------------------------------------------------------------------------
(* The rest of the system *)

local == <<input, pc, answer, tx, attempt, gid, faults, crashes>>

\* AccountApprovalService approves the account.
Approve(a) == /\ account[a] = "pending"
              /\ account' = [account EXCEPT ![a] = "approved"]
              /\ UNCHANGED <<local, row, life, group, members, leaving, orphaned,
                             announced>>

Owned(a) == {n \in Names : row[n] # None /\ owner[row[n]] = a}

\* DeleteAccount takes the rows of the account with it; it waits for the
\* transactions that refer to the account.  The groups stay, and a deletion the
\* consumer works on goes on.
DeleteAccount(a) ==
    /\ account[a] # "gone"
    /\ \A r \in Requests : owner[r] = a => tx[r] # "open"
    /\ account' = [account EXCEPT ![a] = "gone"]
    /\ row' = [n \in Names |-> IF n \in Owned(a) THEN None ELSE row[n]]
    /\ life' = [n \in Names |-> IF n \in Owned(a) THEN "absent" ELSE life[n]]
    /\ orphaned' = orphaned \cup (leaving \cap Owned(a))
    /\ UNCHANGED <<local, group, members, leaving, announced>>

\* The status consumer begins the deletion of workspace n: DisableWorkspace.
Retire(n) == /\ life[n] = "live"
             /\ life' = [life EXCEPT ![n] = "Unavailable"]
             /\ leaving' = leaving \cup {n}
             /\ UNCHANGED <<local, account, row, group, members, orphaned, announced>>

\* The consumer deletes the group of n, and does so again when the message is
\* redelivered.
RemoveGroup(n) == /\ n \in leaving
                  /\ group[n] # None
                  /\ group' = [group EXCEPT ![n] = None]
                  /\ members' = [members EXCEPT ![n] = {}]
                  /\ UNCHANGED <<local, account, row, life, leaving, orphaned,
                                 announced>>

\* The API server restarts: its requests end without an answer, and the
\* database rolls their transactions back.
Crash == /\ crashes < MaxCrashes
         /\ crashes' = crashes + 1
         /\ pc' = [r \in Requests |-> "done"]
         /\ tx' = [r \in Requests |-> "none"]
         /\ UNCHANGED <<input, answer, attempt, gid, external, faults>>

Step(r) == \/ CheckAccount(r) \/ CheckExists(r) \/ CreateGroup(r) \/ GetGroup(r)
           \/ AddMember(r) \/ Insert(r) \/ Publish(r) \/ Commit(r)

Next == \/ \E r \in Requests : Step(r)
        \/ \E a \in Accounts : Approve(a) \/ DeleteAccount(a)
        \/ Crash
        \/ \E n \in Names : Retire(n) \/ RemoveGroup(n)

Spec == Init /\ [][Next]_vars

\* The Go scheduler runs every request, and its calls return.
FairSpec == Spec /\ \A r \in Requests : WF_vars(Step(r))

-----------------------------------------------------------------------------
(* Properties *)

\* The group of a name is a lock: of two requests for a name at most one can still
\* succeed, whatever fails, so the announcements of two workspaces of one name
\* never cross (workspaces.go:216-282).  It holds for a name unless its account
\* was deleted while the consumer deleted its workspace: then the consumer may
\* delete the group of the next use of the name.
Building(r) == pc[r] \in {"getGroup", "member", "insert", "publish", "commit"}
Hopeful(r)  == /\ Building(r)
               /\ life[name[r]] = "absent"
               /\ account[owner[r]] # "gone"

OneBuilder ==
    \A r, s \in Requests :
        Hopeful(r) /\ Hopeful(s) /\ name[r] = name[s] /\ name[r] \notin orphaned
        => r = s

\* A live workspace has a group, and its creator is a member of it: no failure
\* between the calls, no account deleted between them, and no late deletion of a
\* group leaves a workspace nobody can enter (workspaces.go:216-243), with the
\* same exception.
CreatorIsMember ==
    \A n \in Names \ orphaned :
        life[n] = "live" => group[n] # None /\ row[n] \in members[n]

\* A workspace is in the database only if it was announced, so there is always
\* somebody to provision it (workspaces.go:268-278).
CommittedIsAnnounced == \A n \in Names : row[n] # None => row[n] \in announced

\* While its account lives, a name that was given to a workspace is not given to
\* another one, not even when the workspace was deleted after the second request
\* had found the name free (workspaces.go:201-214, UNIQUE (name)).
NameIsKept ==
    [][\A n \in Names : row[n] # None /\ account'[owner[row[n]]] # "gone"
                            => row'[n] = row[n]]_vars

\* Every request comes to its end: neither the INSERT that waits for another
\* transaction nor the retries of Publish hold it for ever.
EveryRequestEnds == \A r \in Requests : <>(pc[r] = "done")

\* workspaces.go:209 "Return a conflict response if the workspace name already
\* exists": 409 means that there is a workspace of that name or that another
\* request is making one.
ConflictMeansTaken ==
    [][\A r \in Requests :
         answer[r] # 409 /\ answer'[r] = 409 =>
            \/ life[name[r]] # "absent"
            \/ \E s \in Requests : Building(s) /\ name[s] = name[r]]_vars
=============================================================================
