------------------------------ MODULE Membership ------------------------------
(***************************************************************************)
(* The members of one workspace (api/services/users.go): listing, getting, *)
(* adding and removing members of its Keycloak group, any number of        *)
(* requests at a time.  A request is cut at each query and each call to    *)
(* Keycloak, every one of which may fail, before or after it takes effect. *)
(*                                                                         *)
(* Beside the requests the workspace is created (WorkspaceCreation has the *)
(* detail), disabled and its group removed by the status consumer          *)
(* (StatusConsumer), its account given to another owner or deleted.  The   *)
(* account and the group of a workspace are named by its number: a name    *)
(* used again has another account and another group.                       *)
(***************************************************************************)
EXTENDS Naturals, KeycloakToken

CONSTANTS Users,      \* user names
          Registered, \* those with a user in Keycloak
          Admins,     \* those with the role hub_admin
          Requests,   \* the requests clients send, of AllRequests
          None,       \* no request, no owner
          MaxLives,   \* bound: how often the name is used
          MaxOwners   \* bound: updates of the account

AllRequests == [op : {"list", "get", "add", "remove"}, who : Registered,
                user : Users]

ASSUME MembershipAssumption ==
    /\ Registered \subseteq Users
    /\ Requests \subseteq AllRequests
    /\ None \notin AllRequests \cup Users
    /\ MaxLives \in Nat /\ MaxOwners \in Nat

VARIABLES life,     \* the number of the workspace the name belongs or belonged to
          row,      \* its row: "absent", "live" or "Unavailable"
          owner,    \* account_owner of its account, None when that is deleted
          group,    \* the number of the group of that name, 0 if there is none
          members,  \* the members of that group
          leaving,  \* the consumer was told to delete the workspace
          pc,       \* pc[w]: the call worker w makes next
          req,      \* req[w]: its request
          acct,     \* acct[w]: the account it read from the row
          gid,      \* gid[w]: the group it found
          answer,   \* answer[w]: the status code of its last request, or Panic
          moved,    \* history: the requests during which the account changed
          owners

keycloak == <<group, members>>
database == <<life, row, owner, owners>>
local    == <<req, acct, gid>>
vars     == <<pointer, length, disturbed, life, row, owner, group, members,
              leaving, pc, req, acct, gid, answer, moved, owners>>

Calls  == {"groups", "ownerRow", "ownerAccount", "targetRow", "targetAccount",
           "workspace", "group", "user", "member"}
Labels == Calls \cup {"idle", "token", "store", "storePointer", "storeLength"}

\* Panic: the handler panics, the client gets no answer.
Panic == 0

TypeOK == /\ TokenTypeOK
          /\ life \in 0..MaxLives
          /\ row \in {"absent", "live", "Unavailable"}
          /\ owner \in Registered \cup {None}
          /\ group \in {0, life}
          /\ members \in SUBSET Registered
          /\ leaving \in BOOLEAN
          /\ pc \in [Workers -> Labels]
          /\ req \in [Workers -> Requests \cup {None}]
          /\ acct \in [Workers -> 0..MaxLives]
          /\ gid \in [Workers -> 0..MaxLives]
          /\ answer \in [Workers -> {Panic, 200, 204, 403, 404, 500}]
          /\ moved \in SUBSET Workers
          /\ owners \in 0..MaxOwners

Init == /\ TokenInit
        /\ life = 0
        /\ row = "absent"
        /\ owner = None
        /\ group = 0
        /\ members = {}
        /\ leaving = FALSE
        /\ pc = [w \in Workers |-> "idle"]
        /\ req = [w \in Workers |-> None]
        /\ acct = [w \in Workers |-> 0]
        /\ gid = [w \in Workers |-> 0]
        /\ answer = [w \in Workers |-> Panic]
        /\ moved = {}
        /\ owners = 0

-----------------------------------------------------------------------------
(* What happens beside the requests *)

\* The requests being served see the account change.
Moved == moved' = {w \in Workers : pc[w] # "idle"}

\* User u creates the workspace of that name in an account of user o.
CreateWorkspace(u, o) ==
    /\ life < MaxLives
    /\ row = "absent" /\ group = 0
    /\ life' = life + 1
    /\ row' = "live"
    /\ owner' = o
    /\ group' = life'
    /\ members' = {u}
    /\ Moved
    /\ UNCHANGED <<token, leaving, pc, local, answer, owners>>

\* The consumer disables the workspace and then removes its group, the second
\* again whenever the status is redelivered.
Retire == /\ row = "live"
          /\ row' = "Unavailable"
          /\ leaving' = TRUE
          /\ UNCHANGED <<token, life, owner, owners, keycloak, pc, local, answer,
                         moved>>

RemoveGroup == /\ leaving /\ group # 0
               /\ group' = 0
               /\ members' = {}
               /\ UNCHANGED <<token, database, leaving, pc, local, answer, moved>>

\* UpdateAccount writes every field of the account, its owner among them.
UpdateAccount(o) ==
    /\ owners < MaxOwners
    /\ owners' = owners + 1
    /\ row # "absent"
    /\ owner' = o
    /\ Moved
    /\ UNCHANGED <<token, life, row, keycloak, leaving, pc, local, answer>>

DeleteAccount == /\ row # "absent"
                 /\ row' = "absent"
                 /\ owner' = None
                 /\ Moved
                 /\ UNCHANGED <<token, life, owners, keycloak, leaving, pc, local,
                                answer>>

-----------------------------------------------------------------------------
(* The requests *)

Op(w)   == req[w].op
Who(w)  == req[w].who
User(w) == req[w].user

Changes(w) == Op(w) \in {"add", "remove"}

Goto(w, l) == pc' = [pc EXCEPT ![w] = l]

Continue(w, l) == Goto(w, l) /\ UNCHANGED <<token, local, answer, moved>>

\* The request of w is over, and all that was kept for it.
Reply(w, code) == /\ Goto(w, "idle")
                  /\ answer' = [answer EXCEPT ![w] = code]
                  /\ req' = [req EXCEPT ![w] = None]
                  /\ acct' = [acct EXCEPT ![w] = 0]
                  /\ gid' = [gid EXCEPT ![w] = 0]
                  /\ moved' = moved \ {w}
                  /\ TokenLeft(w)

\* A call fails, and the request with it.  Keycloak refuses a call whose header
\* has the words of two tokens, or a token that has expired, so any call may fail.
Fail(w, code) == Reply(w, code)

Begin(w, r) == /\ pc[w] = "idle"
               /\ Goto(w, "token")
               /\ req' = [req EXCEPT ![w] = r]
               /\ answer' = [answer EXCEPT ![w] = Panic]
               /\ UNCHANGED <<token, database, keycloak, leaving, acct, gid, moved>>

\* Mutant: a token that is there already is used again.
FetchMissing(w) ==
    /\ pc[w] = "token"
    /\ Continue(w, IF pointer = "none" THEN "store" ELSE "workspace")
    /\ UNCHANGED <<database, keycloak, leaving>>

\* ensureKeycloakToken: the token endpoint answers with a new token.
FetchToken(w) ==
    /\ pc[w] = "token"
    /\ \/ Continue(w, "store")
       \/ Fail(w, 500)
    /\ UNCHANGED <<database, keycloak, leaving>>

\* Mutant: nobody asks whether the user to be removed owns the account.
TargetUnasked(w) == "workspace"

\* isUserWorkspaceAuthorized asks nothing of an administrator.  Account owners
\* cannot be removed, so a removal asks about its target as well.
AfterOwner(w) == IF Op(w) = "remove" THEN "targetRow" ELSE "workspace"
AfterToken(w) == IF Who(w) \in Admins THEN AfterOwner(w) ELSE "groups"

Holders == {w \in Workers : pc[w] \notin {"idle", "token", "store"}}

\* The two words are written in the order the compiler chose.
StoreToken(w) ==
    /\ \/ /\ pc[w] = "store"
          /\ \/ StorePointer(w, Holders) /\ Goto(w, "storeLength")
             \/ StoreLength(w, Holders) /\ Goto(w, "storePointer")
       \/ /\ pc[w] = "storeLength"
          /\ StoreLength(w, Holders) /\ Goto(w, AfterToken(w))
       \/ /\ pc[w] = "storePointer"
          /\ StorePointer(w, Holders) /\ Goto(w, AfterToken(w))
    /\ UNCHANGED <<database, keycloak, leaving, local, answer, moved>>

\* GetUserGroups: is the requester a member of the group of that name?
GetUserGroups(w) ==
    /\ pc[w] = "groups"
    /\ \/ /\ Who(w) \in members
          /\ Continue(w, IF Changes(w) THEN "ownerRow" ELSE "workspace")
       \/ /\ Who(w) \notin members
          /\ Reply(w, 403)
       \/ Fail(w, 500)
    /\ UNCHANGED <<database, keycloak, leaving>>

\* IsUserAccountOwner, first query: GetWorkspace gives the account.
ReadRow(w) ==
    /\ pc[w] \in {"ownerRow", "targetRow"}
    /\ \/ /\ row = "live"
          /\ Goto(w, IF pc[w] = "ownerRow" THEN "ownerAccount" ELSE "targetAccount")
          /\ acct' = [acct EXCEPT ![w] = life]
          /\ UNCHANGED <<token, req, gid, answer, moved>>
       \/ row # "live" /\ Reply(w, 500)
       \/ Fail(w, 500)
    /\ UNCHANGED <<database, keycloak, leaving>>

AccountGone(w) == row = "absent" \/ acct[w] # life

\* Mutants: any member may change members; owners are removed like anyone else.
EveryMemberAllowed(w) == TRUE

\* claims.Username is the owner of the account; username is not.
RequesterAllowed(w) == Who(w) = owner

TargetUnguarded(w) == TRUE
TargetAllowed(w)   == User(w) # owner

\* IsUserAccountOwner, second query: GetAccount has no account and no error when
\* the account is gone, and the handler panics.
ReadAccount(w) ==
    /\ \/ /\ pc[w] = "ownerAccount" /\ ~AccountGone(w)
          /\ IF RequesterAllowed(w) THEN Continue(w, AfterOwner(w))
                                    ELSE Reply(w, 403)
       \/ /\ pc[w] = "targetAccount" /\ ~AccountGone(w)
          /\ IF TargetAllowed(w) THEN Continue(w, "workspace") ELSE Reply(w, 403)
       \/ /\ pc[w] \in {"ownerAccount", "targetAccount"} /\ AccountGone(w)
          /\ Reply(w, Panic)
       \/ pc[w] \in {"ownerAccount", "targetAccount"} /\ Fail(w, 500)
    /\ UNCHANGED <<database, keycloak, leaving>>

GetWorkspace(w) ==
    /\ pc[w] = "workspace"
    /\ \/ row = "live" /\ Continue(w, "group")
       \/ row # "live" /\ Reply(w, 500)
       \/ Fail(w, 500)
    /\ UNCHANGED <<database, keycloak, leaving>>

\* GetGroup: the number of the group that has the name now.
GetGroup(w) ==
    /\ pc[w] = "group"
    /\ \/ /\ group # 0
          /\ Goto(w, IF Op(w) = "list" THEN "member" ELSE "user")
          /\ gid' = [gid EXCEPT ![w] = group]
          /\ UNCHANGED <<token, req, acct, answer, moved>>
       \/ group = 0 /\ Reply(w, 500)
       \/ Fail(w, 500)
    /\ UNCHANGED <<database, keycloak, leaving>>

\* Mutant: the name is not compared with those of the users found.
AnyUser(w) == TRUE

UserFound(w) == User(w) \in Registered

\* Every error of GetUser is answered 404.
GetUser(w) ==
    /\ pc[w] = "user"
    /\ \/ UserFound(w) /\ Continue(w, "member")
       \/ ~UserFound(w) /\ Reply(w, 404)
       \/ Fail(w, 404)
    /\ UNCHANGED <<database, keycloak, leaving>>

\* Mutant: the group is not named by its number but by its name.
FoundByName(w) == group # 0

\* A call that names a group by its number fails when that one is gone.
Found(w) == gid[w] = group

\* GetGroupMembers, for GetUsersService and GetUserService.
GetMembers(w) ==
    /\ pc[w] = "member" /\ ~Changes(w)
    /\ \/ /\ Reply(w, IF Found(w) /\ (Op(w) = "get" => User(w) \in members)
                      THEN 200 ELSE 500)
       \/ Fail(w, 500)
    /\ UNCHANGED <<database, keycloak, leaving>>

\* AddMemberToGroup and RemoveMemberFromGroup; neither minds if it was so already.
ChangeMembers(w) ==
    /\ pc[w] = "member" /\ Changes(w)
    /\ \/ /\ Found(w)
          /\ members' = IF Op(w) = "add" THEN members \cup {User(w)}
                                         ELSE members \ {User(w)}
          /\ \/ Reply(w, 204)
             \/ Fail(w, 500)
       \/ /\ ~Found(w)
          /\ Reply(w, 500)
          /\ UNCHANGED members
       \/ Fail(w, 500) /\ UNCHANGED members
    /\ UNCHANGED <<database, group, leaving>>

-----------------------------------------------------------------------------
Environment == \/ \E u, o \in Registered : CreateWorkspace(u, o)
               \/ Retire \/ RemoveGroup
               \/ \E o \in Registered : UpdateAccount(o)
               \/ DeleteAccount

\* Every request asks for a token, for the groups of its requester, for the
\* workspace, for its group and for the user ...
CommonStep(w) == \/ FetchToken(w) \/ StoreToken(w) \/ GetUserGroups(w)
                 \/ GetWorkspace(w) \/ GetGroup(w) \/ GetUser(w)

\* ... then GetUsersService and GetUserService read the members, ...
ShowMembers(w) == (CommonStep(w) \/ GetMembers(w)) /\ ~Changes(w)

\* ... while AddUserService and RemoveUserService ask for the owner, and change them.
EditMembers(w) == /\ \/ CommonStep(w) \/ ReadRow(w) \/ ReadAccount(w)
                     \/ ChangeMembers(w)
                  /\ Changes(w)

Step(w) == ShowMembers(w) \/ EditMembers(w)

Next == \/ Environment
        \/ \E w \in Workers : Step(w) \/ \E r \in Requests : Begin(w, r)

Spec == Init /\ [][Next]_vars

-----------------------------------------------------------------------------
(* Properties *)

\* Whatever other requests do to the shared token, a call never finds it missing,
\* and a request that none of them disturbed since it stored its token finds that
\* one, whole, though earlier requests may have left the words of two behind
\* (keycloak.go:94, 357).
TokenIsOwn ==
    \A w \in Workers : pc[w] \in Calls =>
        /\ pointer # "none" /\ length # "none"
        /\ w \notin disturbed => pointer = w /\ length = w

\* The step with which w changes the members.
ChangesNow(w) == pc[w] = "member" /\ pc'[w] = "idle" /\ members' # members

\* The owner of the account stays a member of the workspace: no request removes
\* the owner, although the check is four calls before the removal, unless the
\* account changed hands or was deleted in between (users.go:232-273).
OwnerStays ==
    [][\A w \in Workers :
          ChangesNow(w) /\ w \notin moved /\ owner \in members
          => owner \in members']_vars

\* Members are added and removed only on behalf of an administrator or of the one
\* who owns the account at that moment, and only of the group of the workspace
\* whose account was checked, unless the account changed hands or was deleted in
\* between (utils.go:76-109, users.go:151-189, 211-270).
OnlyOwnerChanges ==
    [][\A w \in Workers : ChangesNow(w) /\ w \notin moved =>
          Who(w) \in Admins \cup {owner}]_vars

\* Request w ends.
Ends(w) == pc[w] # "idle" /\ pc'[w] = "idle"

\* What w is answered is so.
Truth(w) ==
    CASE answer'[w] = 204 -> /\ gid[w] = group
                             /\ (User(w) \in members') <=> Op(w) = "add"
      [] answer'[w] = 200 -> /\ gid[w] = group
                             /\ Op(w) = "get" => User(w) \in members
      [] answer'[w] = Panic -> w \in moved
      [] OTHER -> TRUE

\* What a request was answered is so when it is answered: the user added by a 204
\* is a member, the one removed is not, the one a 200 shows is.  A request goes
\* unanswered only if the account changed or was deleted meanwhile.
AnswerIsTrue == [][\A w \in Workers : Ends(w) => Truth(w)]_vars

\* To its clients the API is a set of members that every request reads or changes
\* at the moment of its answer, after its requester was entitled, and its target
\* not the owner, at some moments since it was made - whatever else happens, the
\* account changed or not (users.go:135-284).
AfterTarget == {"workspace", "group", "user", "member"}

Allowed == {w \in Workers : /\ pc[w] \in AfterTarget \cup {"targetRow", "targetAccount"}
                            /\ Changes(w)}
Cleared == {w \in Workers : pc[w] \in AfterTarget /\ Op(w) = "remove"}

MemberSet == INSTANCE MemberSet WITH
    NoAnswer <- Panic, open <- group # 0, asked <- req,
    allowed <- Allowed, cleared <- Cleared

ImplementsMemberSet == MemberSet!Spec
=============================================================================
