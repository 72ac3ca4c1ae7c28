# Workspace services: TLA+ models, checks and proofs

This directory is a verification project for the workspace services: a Go API
server, a Pulsar consumer and a reconcile job around one PostgreSQL database.
All references `path:line` are to `src/`.

## 1. The system

| Component | Code | State it keeps | Operations |
|---|---|---|---|
| Workspace API | `api/services/workspaces.go` | none of its own: rows of `workspaces` and its stores, a Keycloak group per workspace | create, list, get, delete (which only publishes) |
| Workspaces table | `db/workspaces.go`, `db/migrations` | `workspaces` (name UNIQUE, status, last_updated, role), `workspace_stores`, `object_stores`, `block_stores` | CreateWorkspace (leaves its transaction open), UpdateWorkspaceStatus, DisableWorkspace, the reads |
| Status consumer | `cmd/consume.go`, `internal/events/consumer.go` | a loop, one message at a time; the Shared subscription with a dead-letter policy | receive, update, delete (row, group, secret), ack, nack |
| Publisher | `internal/events/publisher.go` | none | Publish, three attempts |
| Reconcile job | `cmd/reconcile.go` | a snapshot of the names | publishes "creating" for each |
| Accounts API | `api/services/accounts.go`, `db/accounts.go` | `accounts` (status), `account_approvals` (one-time tokens) | create, update, delete (cascades to workspaces), approve, deny |
| Membership API | `api/services/users.go` | Keycloak group members | list, get, add, remove |
| Keycloak client | `api/services/keycloak.go` | one shared, mutable access token | token, groups, members, users, token exchange |
| Linked accounts | `api/services/linked-accounts.go` | per workspace and provider: a ciphertext in AWS, a one-time pad in Kubernetes | create, delete, list, OpenCosmos session, validation |
| Files | `api/services/files*.go`, `block_nginx_client.go` | none: objects in S3, files behind the workspace's nginx | list, upload, delete, metadata, upload URL |
| Sessions and credentials | `api/handlers/sessions.go`, `s3.go`, `data-loader.go` | none | token exchange, temporary credentials, data loading |
| HTTP plumbing | `api/middleware`, `cmd/serve.go`, `internal/authn`, `internal/appconfig`, `docs` | none | routing, claims, configuration |

How they interact: the API creates a workspace by calling Keycloak (group,
member), then the database (a transaction left open), then Pulsar, then commits.
A workspace manager outside this repository provisions the workspace and
publishes a `WorkspaceStatus` for every change; the consumer stores it. Deleting
a workspace publishes a request; the manager answers with `Deleting`, and the
consumer disables the row and removes the group and the secret. Accounts own
workspaces by a foreign key with ON DELETE CASCADE.

## 2. What is hard here

The hazards are listed with their lines in `PROJECT.json`. In short: the
consumer reads a row and writes it in a later transaction; its messages come in
any order and more than once; a deletion is four calls to four systems with a
retry of the whole; creating a workspace spreads over Keycloak, a transaction
kept open during a publish, and a commit after it; one-time tokens are checked
and used in two transactions; two stores that must agree (ciphertext and pad) are
written one after the other; a listing of files is read page by page and an upload
stored file by file while other requests change the same files; the access token of
the Keycloak client is written by every request and read by all; the checks before a
member is removed are separate queries; and the announcements of creations, deletions
and the reconcile job meet on one topic that nobody coordinates.

What makes each part correct:

- **Status consumer, workspaces table**: an older status never replaces a newer
  one; a disabled workspace never comes back; a deletion runs in its order (row,
  group, secret) and is acknowledged only when it is complete; every readable
  message is settled.
- **Workspace creation**: of the requests for one name at most one can still
  succeed; what is committed was announced and has a group with its creator in it;
  a name is not given twice while its account lives; every request ends.
- **Accounts**: a token is there only while its account is pending; a decision
  stands; the owner is told what the account says.
- **Linked accounts**: no ciphertext without a pad that was stored; a request that no
  other overlaps keeps the entries of other providers and is answered the truth; the two stores agree; of
  overlapping OpenCosmos sessions none is overwritten unseen.
- **Membership**: the owner of the account is never removed from a group; only the
  owner and administrators change members; 200 and 204 are the truth.
- **Keycloak client**: a request that no other one disturbed uses its own token, whole.
- **The round trip** (API, reconcile job, manager, consumer): a committed workspace is
  provisioned; a deletion takes effect in the table; announcing a workspace that is
  being deleted is the only way its resources are left behind.
- **Files**: a listing shows every file that was there all along and none that never
  was; 200 and 201 are the truth about each file of a request; no upload is refused
  for its token once its files were read.

## 3. Modules

| Module | What it is |
|---|---|
| `Subscription` | What the consumer sees of the Pulsar broker: a Shared subscription with at-least-once delivery in any order and a dead-letter policy. Operators only, no `Next` |
| `StatusConsumer` | Extends `Subscription`: the loop of `cmd/consume.go` with the database, Keycloak and AWS calls of every path |
| `WorkspaceLifecycle` | The abstract specification: what readers of the workspaces table may rely on. `StatusConsumer` implements it (`ImplementsLifecycle`) |
| `WorkspaceCreation` | `CreateWorkspaceService` with the database, Keycloak and Pulsar calls it makes, any number of requests at a time |
| `AccountApproval` | Creation of an account, the one-time links, the decision, expiry and deletion |
| `AccountDecision` | The abstract specification: accounts decided by votes that were cast while they were pending, and owners told of them. `AccountApproval` implements it (`ImplementsDecision`) |
| `LinkedAccounts` | Linking and unlinking of providers of one workspace over Kubernetes and AWS, and its OpenCosmos session |
| `KeycloakToken` | The access token that all requests of the server share, as the two words of a Go string. Operators only, no `Next` |
| `Membership` | Extends `KeycloakToken`: listing, getting, adding and removing members of one workspace, against its deletion, the next use of its name and changes of its account |
| `MemberSet` | The abstract specification: a set of members that each request reads or changes at the moment of its answer, having been allowed to before. `Membership` implements it (`ImplementsMemberSet`) |
| `WorkspaceSystem` | Extends `StatusConsumer`: the API, the reconcile job and the manager around the consumer. It implements `StatusConsumer` (`SystemImplementsConsumer`), whose environment was free to do anything |
| `WorkspaceFiles` | The files of one workspace: requests over S3 and the nginx of its block store |
| `*_proofs` | The theorems about the module whose name they bear |
| `MC*` | The module and, where it is sound, the symmetry set of its runs |

In every module a handler is cut at its external calls: what the code computes
between two calls belongs to the action of the first, and other handlers may run
between any two actions. Every call may fail, and one that changes something may
fail before or after the change (`Fault`), because that is what an error of a
remote call means. `PROJECT.json` gives the lines of each definition.

**StatusConsumer.** `row[n]` is a row of `workspaces`: `life` is the status as
`GetWorkspace` filters it, `at` is `last_updated`, `from` the message whose state
and role it shows, `mount` the one whose root directory is the mount point. `pc[c]`
is the call the consumer makes next: `disable`, `token`, `group` and `secret` are
`deleteWorkspace`, `lookup` is `GetWorkspace` with the comparison of the times,
`update` is `UpdateWorkspaceStatus`. `call[c]` says from which of its two places
`deleteWorkspace` was called, for the code goes on differently: after the one for
`Deleting` it acknowledges and falls through to the lookup, as the code does.
`applied[n]` is history: the statuses stored in the present row. A status is one of
six kinds (`AllKinds`), those the code tells apart; names and payloads are model
values. A status without a usable mount point is `Partial`: its root directory is blank, or
its access points name no store of the workspace, and then the UPDATE changes no row and
is no error. The secret `ws-<name>` that `deleteWorkspace` removes is stored by nothing in
this repository, so a workspace has one or not (`CreateRow`). Environment: the manager publishes any kind for any name at any time, a
workspace is created, an account is deleted with the rows it owns, a connection
breaks (`Break`) or the process restarts (`Restart`).

**WorkspaceCreation.** `pc[r]` runs through `account`, `exists`, `group`,
`getGroup`, `member`, `insert`, `publish`, `commit`. `tx[r] = "open"` is the
transaction of `CreateWorkspace` that stays open while `Publish` tries; the INSERT
of the same name waits for it, as PostgreSQL makes it wait. `"aborted"` is the
transaction that a failed INSERT leaves without a rollback. `gid[r]` is the
group ID that `GetGroup` found: the member is added to that group and to no
later one of the name. The deletion of a workspace by the consumer is there as two
actions (`Retire`, `RemoveGroup`), the second possible again and again, because
messages are redelivered. `orphaned` is history: the names whose account was
deleted while the consumer deleted their workspace. Such a name is free again at
once, and the group of its next use may be the one the consumer deletes.

**AccountApproval.** `creating[a]` is `CreateAccountService`, `pc[h]`
`AccountApprovalService`. An account gets one token, so `token[a]` is the row of
`account_approvals`. `Click` is `ValidateApprovalToken`; `UpdateAccountStatus` is the
later transaction that writes the status and deletes the token. `crossed` is
history: the accounts two requests decided on at a time. For `AccountDecision`, a request
that validated a token is a vote (`Ballots`), counted from the transaction on that writes
the status until its e-mail is sent (`Mailing`).

**LinkedAccounts.** A pad and a ciphertext are named by the key they belong to, so
a key can be read back when `pad[p] = cipher[p]`. `read[w]` is the map of all
entries a request read and will write back. `alone` and `served` are history: the
request about a provider that no other such request has overlapped so far, if there is
one, and whether no two ever overlapped (`InTurn`).
`session` is the secret `oauth-open-cosmos`, one for all members; `seen[w]` is what
stands for its ResourceVersion, for no session is stored twice.

**Membership.** `pc[w]` runs through `token`, the two halves of storing it (`store`, then
`storePointer` or `storeLength`, for the compiler may order them either way),
`groups`, `ownerRow` and `ownerAccount` (the two queries of `IsUserAccountOwner` about
the requester), `targetRow` and `targetAccount` (the same about the one to be removed),
`workspace`, `group`, `user` and `member`; which of them a request makes depends on its
operation and on whether the requester is an administrator (`AfterToken`,
`AfterOwner`). `life` numbers the uses of the name, and a group and an account
are named by that number: `gid[w]` is the group ID a request found, `acct[w]` the account
it read from the row. `Panic` is a request without an answer. `moved` is history: the
requests during which the account changed hands, was deleted or came with a new use
of the name. `disturbed` is history: the requests whose token another one wrote over. For
`MemberSet`, `Allowed` and `Cleared` are the requests that are past the question about their
requester and about their target, which their `pc` tells.

**WorkspaceSystem.** `settings` is the topic the API and the job publish on; `creation[n]`
is how far `CreateWorkspaceService` has come with `n` (`inserted`, then `announced` while
the transaction is open, then `committed`, or `abandoned` when a publish or the commit
failed). `Announce` is one attempt of `Publish`: it may deliver and be told so, deliver and
be repeated, deliver and give up, or give up. `DeleteWorkspace` only publishes, as
the code does. `snapshot` is what the job read and has still to announce. `Provision`, `Remove` and
`Report` are the manager, which is external. The consumer's steps are those of
`StatusConsumer`, taken as they are, so its rows and its subscription are the same.
`asked`, `handled` and `crossed` are history: the names whose deletion was asked for, those
whose deletion the manager took, and those announced after the deletion was asked for.

**WorkspaceFiles.** `content[s]` is what store `s` holds, names are numbers in the
order in which S3 lists them, and `Bad` is a name `validateFileName` refuses. `pc[w]`
is the call the request makes next: `workspace` is `GetWorkspace`, `creds` the token
exchange with STS, `body` the reading of the upload, `page` and `listBlock` the two
listings, `put` the next file of an upload, and `file` the one call of a deletion, of
metadata and of an upload URL (which is signed without one). `has[w]` are the stores
`GetWorkspace` found set up, `page[w]` where the last page ended, `left[w]` the files
of the upload still to store. `body` fails when the body breaks off or is not a form
(400), and otherwise goes on with the files it holds. `Stored(s, n)` is the name under which
store `s` keeps what a client calls `n`, after `Kept`: the object store drops surrounding space
(`safeS3Key`), the block store has the name escaped twice; the model only needs that each
maps names to names. The block store serves an index file in place of its directory (`Index`). A
client with a presigned URL stores a file at any time (`UseURL`), and a token expires
while it is needed (`ExpireToken`). `always[w]` and `ever[w]` are history: of the files
that the request is about, those that were there all along and those that were at
some time. They end with the answer.

## 4. Runs

| Run | Question | Expected |
|---|---|---|
| `consumer_safety` | Do the safety properties of the consumer hold, and is the table a `WorkspaceLifecycle`? | pass |
| `creation` | Is the group a lock, are committed workspaces announced and usable, does every request end? | pass |
| `approval` | Are tokens, decisions and e-mails consistent, and is the approval an `AccountDecision`? | pass |
| `linked` | Are pads and ciphertexts consistent, the answers true, and sessions never overwritten unseen? | pass |
| `membership` | Does a request use its own token, does the owner stay and decide, and are the answers true, whatever changes between the calls? Are the members a `MemberSet`? | pass |
| `system` | From the API to the table and back: is what is committed announced until it is provisioned, is it provisioned, does a deletion take effect, is every status settled, and what can be left behind? | pass |
| `files` | Are listings, uploads, deletions and metadata true while others change the files? | pass |
| `consumer_discards_newer` | Is a status discarded only when it is older? | violated |
| `consumer_deletion_retry` | Does a redelivery make good one failed call? | violated |
| `creation_conflict` | Does 409 mean that the name is taken? | violated |
| `approval_twice` | Is a token used once? | violated |
| `linked_lost` | Does a request change the entry of its own provider only? | violated |

### Bounds

`MaxClock`, `MaxFaults`, `MaxBreaks`, `MaxDrops`, `MaxCrashes`, `MaxListings`, `MaxLives`,
`MaxOwners`, `MaxSettings`, `MaxDeletions`, `MaxReports`, `MaxJobs` and `MaxFailures` cut off
counters of the models; the code has none of them.

- `consumer_safety`: one consumer, one workspace, two messages of any two of the
  six kinds, a clock of three values, two failures, one broken connection or
  restart, one deleted account. Two messages give every order and repetition of an
  older and a newer status; three clock values put a row between two statuses; two
  failures are enough for a deletion that fails twice at different calls. The
  invariants speak of pairs of messages on one name, and the theorems hold for any
  number of messages, names and failures.
- `system`: one name, one consumer, two statuses of the four kinds the manager sends,
  two deliveries of each, one failure of the consumer's calls and one of the API or the job, one
  run of the job, one deletion asked for at any time, one report beside the `Deleting` status, and
  four settings: the creation and its repetition, the deletion, and the announcement of
  the job. One failure against two deliveries is fewer than there are deliveries, which is
  when `DeletionTakesEffect` is asked; with as many the message goes to the
  dead-letter topic, as the policy wants. Broken connections and restarts are in
  `consumer_safety`, and no account is deleted here.
- `membership`: two requests at a time, one of the two users an administrator, any number of
  failures, a name used twice, one change of the owner. Two requests give every
  mixture of two tokens and every change of members between two calls; a second use of the name
  is what makes a group ID or an account stale. `MCRequests` has each operation that
  differs, on the owner, on another member and on a name without a user; that the owner removes the
  other member is the request of the administrator for the same one with one query more, and listing
  makes the calls of getting without the one for the user: both are left to the theorems, which hold
  for all requests.
- `creation`: three requests for one name, from two accounts, two attempts to
  publish, three failures, one crash. Names meet only in their accounts; three requests
  are enough for a name that is created, deleted, orphaned, created again and asked
  for once more, which is where an INSERT has to wait for another transaction.
- `approval`: two accounts, two requests at a time, two failures. `linked`: two
  providers, three keys or sessions, two requests at a time, two failures: a key is
  replaced by another and one is linked beside it, and a session is replaced while a third
  request stores its own.
- `files`: two requests at a time, three names, of which one is what a store
  makes of another, one failure. Two names that clients use give uploads of several
  files and listings of several pages; one name that one request writes and another
  reads or deletes is enough for each answer to be put in question. `MCSent` is a
  selection: each operation, on each store where the code differs, with a plain name,
  a reserved one or a refused one, and every listing but that of the object store
  alone, which is the first half of that of both. The theorems hold for all requests.
  `MaxListings` is one because a listing changes nothing another request reads.

Deadlock is not checked where the system may stop: when all messages are settled,
all requests have ended, or all accounts are decided. `LinkedAccounts`, `Membership` and
`WorkspaceFiles` never stop and are checked for deadlock. Symmetry is used only where no temporal
property under fairness is checked, over constants no definition names.

### Fairness

`StatusConsumer!FairSpec` has weak fairness of each consumer's `Step` and of the
dead-lettering: `cmd/consume.go` is a loop without an exit, its calls return
(with an error if need be), and the Pulsar client moves exhausted messages by
itself. Nothing is assumed about the environment: no status need be published and
no failure need stop; that a bounded number of them happens is a bound of the run.
`WorkspaceSystem!FairSystemSpec` adds weak fairness of the manager (`Take`), without which
nothing that depends on it could be asked; a creation, a deletion, the job or
a report may stop at any point.
`WorkspaceCreation!FairSpec` has weak fairness of each request: Go runs every
goroutine. The INSERT that waits needs no more than that, because the
transaction it waits for is closed for good, and while it is, the INSERT stays
enabled. The safety runs and the other modules assume no fairness.

## 5. Proofs

The theorems hold for every value of the constants: any number of consumers,
messages, names, requests, accounts, providers, failures and crashes. They assume
the named `ASSUME`s of the modules (bounds are natural numbers, `None` is none of
the values) and what is said below.

- **StatusConsumer** (`StatusConsumer_proofs`, resting on the lemmas of
  `Subscription_proofs`: what each operation of the subscription keeps).
  `TypeCorrect` needs more than `TypeOK`: `TInv` adds that a published message has a
  body and that a consumer at work holds a message, which only the order of the
  actions guarantees. It holds for any number of consumers without a condition, and so do
  `NothingIsStuck` and `DeliveriesEnd` (below). The other theorems speak of behaviours in
  which nobody is disturbed (`[]Undisturbed`): while a consumer is between its lookup
  and its update of a row, no other is about to write that row. They have to: two consumers
  of the Shared subscription can interleave the lookup of one with the update of
  the other (`cmd/consume.go:64`), and then the older status stays, or a disabled row comes
  back. The condition is about states, not about how many consumers there are; one
  consumer satisfies it always, and `WithOneConsumer` draws the five conclusions for it.
  `StatusesInOrder` rests on `OrderInv`: a row is never written with a time to
  come; what was stored in a row was published before the row was last written; and
  a consumer about to update still holds a status newer than all that were stored
  (`UpdateOK`), because between its lookup and its update only the deletion of the
  account can change the row. It follows that each stored status is newer than
  all before it. `NoResurrection` uses that a consumer about to update does not
  see an Unavailable row. `Refinement` maps every step to one step of
  `WorkspaceLifecycle` or to none, by `RowStep`: what a step can do to a row.
  `CleanOrder` and `CleanDeletion` need `CleanInv`: of all consumers inside
  `deleteWorkspace`, each has behind it what comes before its next call, and a name without
  a row has neither group nor secret; it holds until an account is deleted, which the two
  properties say themselves (`drops = 0`). `CleanupInOrder` is a property of steps: the
  group goes only from an Unavailable row, and a secret only after the group.
- **WorkspaceCreation**. `IInv` strengthens the invariants: a request at work on a
  name whose group the consumer does not delete made that group and, from the INSERT
  on, is in it (`HoldsGroup`); an open transaction belongs to a request that can still
  succeed (`OpenIsHopeful`) and is the only one for its name (`OneOpen`); a name whose
  group the consumer deletes is Unavailable or orphaned (`LeavingIsUnavailable`).
  `GroupIsLock` and `CreatorEnters` hold for the names that are not orphaned,
  `Announced` and `NamesAreKept` for all.
- **AccountApproval**. `NoTokenLeft` is inductive with the types. `OwnerToldTruth`
  and `OneTimeUse` rest on `CrossedIsKnown` (of two requests at work on an account
  both are known to be) and `DecidesOnPending` (the request of an account that was
  not crossed finds it as it was when it validated the token). `Refinement` has no such
  exception: with any number of overlapping requests the approval implements
  `AccountDecision`. Each action of a request is a vote, its count, the message to the owner, its
  end or nothing, and what two overlapping votes do is what that specification allows.
- **LinkedAccounts**. `PadsComeFirst` holds for requests at the same time. Of a
  request that no other overlaps `OInv` says that it is the only one at work and that what it
  read is still so (`Fresh`): `AnswersAreTrue` and `NoLostUpdate` follow for it,
  whatever overlapped or failed before. `StoresAgree` needs all requests in turn and no failure
  (`Match`). `SessionsAreKept` holds for
  sessions at the same time; it needs that none was seen while there is none (`SInv`).
- **Membership**. `TInv` adds to the types that a worker at work has a request and that only users Keycloak
  knew are added or removed.
  `TokensAreWhole` rests on `TokenStored`: each half a request has stored is there, and its
  own as long as no other request stored one after it. `OwnersStay` and `OnlyOwnersChange`
  rest on `CheckedHolds`: as long as the account did not change, what a request found in
  the two queries is still so at every later call. `AnswersAreTrue` uses only the last step
  of a request, for Keycloak names the group by its ID. `Refinement` maps every step to one of
  `MemberSet` or to none: the queries about the owner are the moments at which a change is allowed and
  cleared, the last call is the answer, and all calls between are none. `MapInv` ties what a request
  has behind it to its place and its operation. Nothing is assumed of the account, which may change
  at any time: `MemberSet` says that the owner was asked about, not that the owner is still the same.
- **WorkspaceSystem**. `SystemInv` adds to the types what ties the two topics together:
  a message that asks for a deletion is known to (`AskedOK`), what is announced behind one is
  counted as crossed (`CrossedOK`), a name the manager has removed has resources only if it was
  announced behind its deletion (`HandledOK`), and what a status lets the consumer disable the manager has
  removed (`StatusesOK`, `DisablingOK`, `ClosedOK`). `NothingIsLeftBehind` follows, for any
  number of consumers. `NothingIsForgotten` adds that what was committed was announced
  (`AnnouncedOK`) and that the manager provides for what it takes (`ProvidedOK`).
  `SystemImplementsConsumer` shows every step of the system to be a step of
  `StatusConsumer` or none (`ConsumerSees`), so its theorems hold here too,
  with the same condition: `SystemNoResurrection`, `SystemImplementsLifecycle` and
  `SystemDeletionComplete`, without an exception for accounts. `NoDeletionIsLost` puts the pieces
  together: what was asked for is on the settings topic (`AsksOK`), what the manager took has a
  `Deleting` status, and one that is acknowledged was carried out in full.
- **WorkspaceFiles**. `IInv` says, for every request at work: what the history has for
  it is of the files it is about and agrees with the stores (`Tracked`); what it has
  listed is right up to the page it is at, which is where it matters that S3 goes on
  after the last name of a page (`Listed`); what it has stored it has stored
  (`Uploaded`). A change by another request keeps all that because it is noted in both
  histories (lemma `Others`). `UploadsKeepTheirToken` has an invariant of its own: past
  the body the S3 credentials are there.

Liveness under fairness is beyond the prover, which has no rule for it and cannot reason
about ENABLED, so `EveryStatusSettles`, `CommittedIsProvisioned`, `DeletionTakesEffect` and
`EveryRequestEnds` are only model-checked. What they rest on apart from fairness is proved:

| Property | Proved for every instance |
|---|---|
| `EveryStatusSettles` | `NothingIsStuck`: a readable status a consumer holds is one it works on. `DeliveriesEnd`: each call takes one of at most nine that are left (`CallsLeft`). `HeldBelowLimit`: no status is delivered more often than the policy allows |
| `EveryRequestEnds` | `RequestsAreBounded`: each call takes one of at most `maxRetries + 7` (`StepsLeft`). `NobodyWaitsForTheIdle`: whoever holds the name an INSERT waits for waits for nobody and has calls left |
| `CommittedIsProvisioned` | `NothingIsForgotten`: the announcement is ahead of the manager until there are resources |
| `DeletionTakesEffect` | `NoDeletionIsLost`: the deletion is ahead of the manager, in a status not acknowledged, or carried out |

What remains for TLC is that a step that stays possible is taken, and that nothing but a finite
number of failures stands between. The violations are counterexamples and have no theorem.

## 6. Where the code does not do what it says

| Run | What happens |
|---|---|
| `consumer_discards_newer` | `last_updated` is set to the time of processing (`db/workspaces.go:492`) and compared with the time the manager made the next status (`cmd/consume.go:75`): a status made before its predecessor was processed is discarded as older |
| `consumer_deletion_retry` | After the group was deleted a repeated deletion fails at the missing group every time, and never comes to the secret |
| `creation_conflict` | A request that failed after `CreateGroup` leaves the group: the name is answered 409 though there is no workspace |
| `approval_twice` | Two requests validate the same token before either uses it, and the second decision replaces the first |
| `linked_lost` | Two requests read the same map of entries, and the later write drops the entry of the earlier |

Other things the models show, on which no comment says otherwise. A workspace whose
deletion was asked for before it was announced, or that the reconcile job read
before, is announced behind its deletion; the table gives it up and its resources stay
(`crossed`). `IsUserAccountOwner` panics on an account that is deleted between its two queries
(`db/accounts.go:225`, `Panic`). A file name with a reserved character is escaped twice (`block_nginx_client.go:261` and
`String` at line 268), so the name in the listing of the block store is not the one
that finds the file; an uploaded `index.html` is served in place of the directory
(`config/efs-nginx/nginx.conf:17`), so every later listing answers 500.

Two consumers of the Shared subscription can read one row before either updates it
(`cmd/consume.go:64` and `db/workspaces.go:489`), and then the older of two statuses may be stored last; nothing keeps a
second consumer from subscribing, and `Undisturbed` is the condition that it does not happen.

Seen in the code and not modelled: a deletion removes the secret `ws-<name>`
(`cmd/consume.go:140`), while linking an account stores `ws-<id>-<prefix>`
(`linked-accounts.go:277`), so the secret of the linked accounts lingers. `README.md:167` names the secret of a session
`oauth-open-cosmos-<user-sub>`, one for each user, while `linked-accounts.go:75` has one for the
workspace, so the session of one member replaces that of another; and three reads go on after
they have answered 500 (`workspaces.go:57` and `:126`, `linked-accounts.go:128`), and answer twice.

## 7. Assumptions and what is not modelled

- The clocks of the manager and the database agree: one `clock` stamps both. With
  clocks apart the comparison in `cmd/consume.go:75` goes wrong in more ways.
- `CURRENT_TIMESTAMP` is the time at which a transaction began. The consumer's
  transactions are short and take one moment; that of the API may be long, so
  `CreateRow` takes any time up to the present.
- PostgreSQL serialises conflicting row writes; Keycloak, AWS and Kubernetes
  perform each call atomically, or not at all.
- A failed INSERT leaves a connection with an aborted transaction
  (`db/workspaces.go:134`). The state is in the model; the pool has no configured
  size, so there is no bound at which requests would wait.
- A secret `ws-<name>` comes from outside the repository, if at all, with the workspace;
  one stored later, while the row is live, makes no difference to the deletion.
- A page of S3 and a directory of nginx are read at one moment. S3 credentials outlive
  the request they are for (STS gives an hour).
- Of the files: the key pair of a local S3 (`files_object.go:227`), the parameters of a
  URL that are checked before anything is called (`size`) and parts of a form without
  a name are not modelled.
- Not modelled: reads that only fill answers, the token exchanges and temporary
  credentials (one call, no state), routing, configuration and generated API
  documentation, the wording of e-mails and logs.

- The workspace manager (`WorkspaceSystem`) is as good as it can be: it takes the settings in
  order, each once, never fails and answers every deletion with one `Deleting` status. What goes
  wrong with it goes wrong with a worse one too, and what holds is the
  code's part of the promise. The settings topic loses nothing that was delivered to it.
- Keycloak answers a call with the header of two mixed tokens, or an expired one, with an
  error, so the failure of any call stands for it; the race on the string is two writes in either
  order, and a read sees whatever is there.
- The database of `Membership` gives an account and a group to each use of a name; that the
  group of an earlier use is removed late is in `WorkspaceCreation`.

## 8. Plan

Done, in this order because a wrong row, a lost deletion or an unusable workspace is
what hurts most: `Subscription`, `StatusConsumer`, `WorkspaceLifecycle`,
`WorkspaceCreation`, `AccountApproval`, `LinkedAccounts`, `WorkspaceFiles`, `KeycloakToken`,
`Membership`, `WorkspaceSystem`, and then the abstract specifications `MemberSet` and
`AccountDecision`. Every safety property a run checks has a theorem. What is left is worth
less than what is there:

1. The deletion of an account inside `WorkspaceSystem`: `StatusConsumer` has it, but the
   system assumes that no name is used twice, which only holds without it.
2. An abstract specification of `WorkspaceFiles` (a listing as a read between the request and
   its answer); `ListingIsTrue` says what it would.
3. That requests of `LinkedAccounts`, `Membership` and `WorkspaceFiles` end: their calls are a
   straight line and wait for nobody, so there is less to get wrong than in a creation.
4. Two names in `WorkspaceSystem`: they meet only in the subscription, which hands their
   statuses out in any order anyway; the theorems hold for any number.
