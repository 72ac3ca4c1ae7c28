---------------------------- MODULE LinkedAccounts ----------------------------
(***************************************************************************)
(* The linked accounts of one workspace (api/services/linked-accounts.go). *)
(*                                                                         *)
(* The key of a provider is encrypted with a one-time pad.  The pad goes   *)
(* to a Kubernetes secret of the provider, the ciphertext into a map from  *)
(* providers to ciphertexts, the one AWS secret of the workspace.  A pad   *)
(* and a ciphertext are named by the key they belong to: the key can be    *)
(* read back when both stores name it.                                     *)
(*                                                                         *)
(* The OpenCosmos session is a Kubernetes secret of its own, replaced only *)
(* in the version that was read.  A session is named by a key as well.     *)
(*                                                                         *)
(* A request is cut at its calls to Kubernetes and AWS.  Every call may    *)
(* fail, before or after it takes effect, which also stands for a restart  *)
(* of the server at that point.                                            *)
(***************************************************************************)
EXTENDS Naturals

CONSTANTS Providers, \* airbus, planet, ...
          Keys,      \* API keys, each with its pad, and sessions; none comes twice
          Workers,   \* the requests that can be served at a time
          None,      \* no pad, no ciphertext
          MaxFaults  \* bound: failures of external calls

ASSUME LinkedAssumption == /\ None \notin Keys
                           /\ MaxFaults \in Nat

VARIABLES pad,     \* pad[p]: the Kubernetes secret otp-p
          cipher,  \* cipher[p]: the entry of p in the AWS secret
          secret,  \* the AWS secret of the workspace: "none" or "made"
          pc,      \* pc[w]: the call worker w makes next
          prov,    \* prov[w]: the provider in the request
          key,     \* key[w]: the key in the request
          read,    \* read[w]: the entries w read from the AWS secret
          answer,  \* answer[w]: the status code of its last request
          used,    \* the keys and sessions that came in a request
          stored,  \* the keys whose pad was in Kubernetes once
          alone,   \* history: the workers beside whose last request about a
                   \* provider no other such request was at work
          served,  \* history: "inTurn" until two such requests were at work at
                   \* a time, "atOnce" from then on
          session, \* the Kubernetes secret oauth-open-cosmos
          seen,    \* seen[w]: the session w read last, when it began if not since
          faults

stores  == <<pad, cipher, secret, stored>>
overlap == <<alone, served>>
request == <<prov, key, used, overlap>>
cosmos  == <<session, seen>>
vars    == <<stores, request, cosmos, pc, read, answer, faults>>

Entries == [Providers -> Keys \cup {None}]
Nothing == [p \in Providers |-> None]

SessionLabels == {"createSession", "readSession", "updateSession"}

Labels == {"idle", "createPad", "updatePad", "getSecret", "putSecret",
           "createSecret", "deletePad", "getKeys", "updateKeys"} \cup SessionLabels

\* Worker w is at work on a provider.
Linking(w) == pc[w] \notin {"idle"} \cup SessionLabels

TypeOK == /\ pad \in Entries
          /\ cipher \in Entries
          /\ secret \in {"none", "made"}
          /\ pc \in [Workers -> Labels]
          /\ prov \in [Workers -> Providers]
          /\ key \in [Workers -> Keys]
          /\ read \in [Workers -> Entries]
          /\ answer \in [Workers -> {0, 201, 204, 500}]
          /\ used \in SUBSET Keys
          /\ stored \in SUBSET Keys
          /\ alone \in SUBSET Workers
          /\ served \in {"inTurn", "atOnce"}
          /\ session \in Keys \cup {None}
          /\ seen \in [Workers -> Keys \cup {None}]
          /\ faults \in 0..MaxFaults

Init == /\ pad = Nothing
        /\ cipher = Nothing
        /\ secret = "none"
        /\ pc = [w \in Workers |-> "idle"]
        /\ prov \in [Workers -> Providers]
        /\ key \in [Workers -> Keys]
        /\ read = [w \in Workers |-> Nothing]
        /\ answer = [w \in Workers |-> 0]
        /\ used = {}
        /\ stored = {}
        /\ alone = {}
        /\ served = "inTurn"
        /\ session = None
        /\ seen = [w \in Workers |-> None]
        /\ faults = 0

Goto(w, l) == pc' = [pc EXCEPT ![w] = l]

Continue(w, l) == Goto(w, l) /\ UNCHANGED answer

Reply(w, code) == /\ Goto(w, "idle")
                  /\ answer' = [answer EXCEPT ![w] = code]

NoFault == UNCHANGED faults
Fault   == /\ faults < MaxFaults
           /\ faults' = faults + 1

\* A call of worker w fails, and the request with it.
Fail(w) == Fault /\ Reply(w, 500)

-----------------------------------------------------------------------------
(* CreateLinkedAccountService *)

\* Worker w begins a request.
Begin(w, l) == /\ pc[w] = "idle"
               /\ Goto(w, l)
               /\ answer' = [answer EXCEPT ![w] = 0]

\* Whoever is at work when another one begins is not alone.
NoteOverlap(w) == IF \E v \in Workers : Linking(v)
                  THEN alone' = {} /\ served' = "atOnce"
                  ELSE alone' = {w} /\ UNCHANGED served

\* A request to link provider p, its key encrypted with a fresh pad.
BeginLink(w, p, k) ==
    /\ k \notin used
    /\ Begin(w, "createPad")
    /\ NoteOverlap(w)
    /\ prov' = [prov EXCEPT ![w] = p]
    /\ key' = [key EXCEPT ![w] = k]
    /\ used' = used \cup {k}
    /\ UNCHANGED <<stores, cosmos, read, faults>>

StorePad(w) == /\ pad' = [pad EXCEPT ![prov[w]] = key[w]]
               /\ stored' = stored \cup {key[w]}
               /\ UNCHANGED <<cipher, secret>>

\* Mutant: the error of storeK8sSecrets is not looked at.
IgnorePadFailure(w) == Fault /\ Continue(w, "getSecret")

PadFailed(w) == Fail(w)

\* Create of the Kubernetes secret.
CreatePad(w) ==
    /\ pc[w] = "createPad"
    /\ \/ /\ pad[prov[w]] = None
          /\ StorePad(w)
          /\ \/ Continue(w, "getSecret") /\ NoFault
             \/ Fail(w)
       \/ /\ pad[prov[w]] # None
          /\ Continue(w, "updatePad")
          /\ NoFault
          /\ UNCHANGED stores
       \/ PadFailed(w) /\ UNCHANGED stores
    /\ UNCHANGED <<request, cosmos, read>>

\* Mutant: a pad that is there already is kept.
KeepOldPad(w) == /\ stored' = stored \cup {key[w]}
                 /\ UNCHANGED <<pad, cipher, secret>>

\* Mutant: the secret is updated to the contracts alone, without the pad.
ReplaceByContracts(w) == /\ pad' = [pad EXCEPT ![prov[w]] = "contracts"]
                         /\ UNCHANGED <<cipher, secret, stored>>

ReplacePad(w) == StorePad(w)

\* Update of the Kubernetes secret, whatever its version; it fails when the
\* secret was deleted in the meantime.
UpdatePad(w) ==
    /\ pc[w] = "updatePad"
    /\ \/ /\ pad[prov[w]] # None
          /\ ReplacePad(w)
          /\ \/ Continue(w, "getSecret") /\ NoFault
             \/ Fail(w)
       \/ /\ pad[prov[w]] = None
          /\ Reply(w, 500)
          /\ NoFault
          /\ UNCHANGED stores
       \/ Fail(w) /\ UNCHANGED stores
    /\ UNCHANGED <<request, cosmos, read>>

\* GetSecretValue in storeCiphertextInAWSSecrets; no entries without a secret.
GetSecret(w) ==
    /\ pc[w] = "getSecret"
    /\ \/ /\ Continue(w, "putSecret")
          /\ read' = [read EXCEPT ![w] = IF secret = "made" THEN cipher ELSE Nothing]
          /\ NoFault
       \/ Fail(w) /\ UNCHANGED read
    /\ UNCHANGED <<stores, request, cosmos>>

\* Mutant: the entries that were read are forgotten.
OnlyNewEntry(w) == [Nothing EXCEPT ![prov[w]] = key[w]]

\* existingKeys[payloadName] = ciphertext
WithEntry(w) == [read[w] EXCEPT ![prov[w]] = key[w]]

\* Mutant: the answer is 201 though PutSecretValue failed.
IgnorePutFailure(w) == Fault /\ Reply(w, 201)

PutFailed(w) == Fail(w)

\* PutSecretValue replaces the whole map by the one that was read and changed.
PutSecret(w) ==
    /\ pc[w] = "putSecret"
    /\ \/ /\ secret = "made"
          /\ cipher' = WithEntry(w)
          /\ \/ Reply(w, 201) /\ NoFault
             \/ Fail(w)
       \/ /\ secret = "none"
          /\ Continue(w, "createSecret")
          /\ NoFault
          /\ UNCHANGED cipher
       \/ PutFailed(w) /\ UNCHANGED cipher
    /\ UNCHANGED <<pad, secret, stored, request, cosmos, read>>

\* CreateSecret fails when another request created the secret.
CreateSecret(w) ==
    /\ pc[w] = "createSecret"
    /\ \/ /\ secret = "none"
          /\ secret' = "made"
          /\ cipher' = WithEntry(w)
          /\ \/ Reply(w, 201) /\ NoFault
             \/ Fail(w)
       \/ /\ secret = "made"
          /\ Reply(w, 500)
          /\ NoFault
          /\ UNCHANGED <<cipher, secret>>
       \/ Fail(w) /\ UNCHANGED <<cipher, secret>>
    /\ UNCHANGED <<pad, stored, request, cosmos, read>>

-----------------------------------------------------------------------------
(* DeleteLinkedAccountService *)

BeginUnlink(w, p) ==
    /\ Begin(w, "deletePad")
    /\ NoteOverlap(w)
    /\ prov' = [prov EXCEPT ![w] = p]
    /\ UNCHANGED <<stores, cosmos, key, used, read, faults>>

\* deleteOTPSecret fails when there is no pad, after which nothing is deleted.
DeletePad(w) ==
    /\ pc[w] = "deletePad"
    /\ \/ /\ pad[prov[w]] # None
          /\ pad' = [pad EXCEPT ![prov[w]] = None]
          /\ \/ Continue(w, "getKeys") /\ NoFault
             \/ Fail(w)
       \/ /\ pad[prov[w]] = None
          /\ Reply(w, 500)
          /\ NoFault
          /\ UNCHANGED pad
       \/ Fail(w) /\ UNCHANGED pad
    /\ UNCHANGED <<cipher, secret, stored, request, cosmos, read>>

\* GetSecretValue in deleteSecretKeyFromAWS.
GetKeys(w) ==
    /\ pc[w] = "getKeys"
    /\ \/ /\ secret = "made"
          /\ Continue(w, "updateKeys")
          /\ read' = [read EXCEPT ![w] = cipher]
          /\ NoFault
       \/ /\ secret = "none"
          /\ Reply(w, 500)
          /\ NoFault
          /\ UNCHANGED read
       \/ Fail(w) /\ UNCHANGED read
    /\ UNCHANGED <<stores, request, cosmos>>

\* UpdateSecret.
UpdateKeys(w) ==
    /\ pc[w] = "updateKeys"
    /\ \/ /\ cipher' = [read[w] EXCEPT ![prov[w]] = None]
          /\ \/ Reply(w, 204) /\ NoFault
             \/ Fail(w)
       \/ Fail(w) /\ UNCHANGED cipher
    /\ UNCHANGED <<pad, secret, stored, request, cosmos, read>>

-----------------------------------------------------------------------------
(* CreateOpenCosmosSessionService *)

\* A request of any member to store session k.
BeginSession(w, k) ==
    /\ k \notin used
    /\ Begin(w, "createSession")
    /\ key' = [key EXCEPT ![w] = k]
    /\ used' = used \cup {k}
    /\ seen' = [seen EXCEPT ![w] = session]
    /\ UNCHANGED <<stores, session, prov, overlap, read, faults>>

\* The session of worker w is stored, and the answer may be lost.
StoreSession(w) == /\ session' = key[w]
                   /\ \/ Reply(w, 201) /\ NoFault
                      \/ Fail(w)

\* Mutant: a session that is there already is an error.
RefuseSecond(w) == Reply(w, 500) /\ NoFault

\* Create answers AlreadyExists.
SessionExists(w) == Continue(w, "readSession") /\ NoFault

\* Create of the secret.
CreateSession(w) ==
    /\ pc[w] = "createSession"
    /\ \/ session = None /\ StoreSession(w)
       \/ session # None /\ SessionExists(w) /\ UNCHANGED session
       \/ Fail(w) /\ UNCHANGED session
    /\ UNCHANGED <<stores, request, read, seen>>

\* Get, for the version of the secret; nothing deletes it.
ReadSession(w) ==
    /\ pc[w] = "readSession"
    /\ \/ /\ Continue(w, "updateSession")
          /\ seen' = [seen EXCEPT ![w] = session]
          /\ NoFault
       \/ Fail(w) /\ UNCHANGED seen
    /\ UNCHANGED <<stores, request, read, session>>

\* Mutant: the ResourceVersion is not set.
AnyVersion(w) == TRUE

\* The secret still has the version that was read.
SameVersion(w) == session = seen[w]

\* Update, which conflicts with any other since the Get.
UpdateSession(w) ==
    /\ pc[w] = "updateSession"
    /\ \/ SameVersion(w) /\ StoreSession(w)
       \/ ~SameVersion(w) /\ Reply(w, 500) /\ NoFault /\ UNCHANGED session
       \/ Fail(w) /\ UNCHANGED session
    /\ UNCHANGED <<stores, request, read, seen>>

SessionStep(w) == CreateSession(w) \/ ReadSession(w) \/ UpdateSession(w)

-----------------------------------------------------------------------------
Step(w) == \/ CreatePad(w) \/ UpdatePad(w) \/ GetSecret(w) \/ PutSecret(w)
           \/ CreateSecret(w) \/ DeletePad(w) \/ GetKeys(w) \/ UpdateKeys(w)

Next == \E w \in Workers :
           \/ \E p \in Providers, k \in Keys : BeginLink(w, p, k)
           \/ \E p \in Providers : BeginUnlink(w, p)
           \/ \E k \in Keys : BeginSession(w, k)
           \/ Step(w)
           \/ SessionStep(w)

Spec == Init /\ [][Next]_vars

-----------------------------------------------------------------------------
(* Properties *)

\* No ciphertext is in AWS before its pad was in Kubernetes, whatever fails and
\* however many requests run at a time (linked-accounts.go:252-283).
PadFirst == \A p \in Providers : cipher[p] # None => cipher[p] \in stored

\* The request of w is about a provider and no other such request was at work
\* since it began.
Undisturbed(w) == w \in alone /\ Linking(w)

\* A request beside which no other is at work changes no entry but that of its own
\* provider, though it writes the whole map back, and earlier ones may have
\* overlapped and failed at any call (linked-accounts.go:653-713).
OthersAreKept ==
    [][\A w \in Workers : Undisturbed(w) =>
          \A p \in Providers : cipher'[p] # cipher[p] => prov[w] = p]_vars

\* To a request beside which no other was at work 201 and 204 are the truth: the
\* key just linked can be read back, the one just unlinked is gone from both stores,
\* whatever earlier requests that overlapped or failed have left behind
\* (linked-accounts.go:252-283, 166-185).
AnswerIsTrue ==
    [][\A w \in Workers : Undisturbed(w) /\ pc'[w] = "idle" =>
          /\ answer'[w] = 201 => /\ pad'[prov[w]] = key[w]
                                 /\ cipher'[prov[w]] = key[w]
          /\ answer'[w] = 204 => /\ pad'[prov[w]] = None
                                 /\ cipher'[prov[w]] = None]_vars

InTurn == served = "inTurn"

\* As long as requests are served in turn and nothing fails, the two stores agree
\* between the requests (linked-accounts.go:252-283, 166-185).
PairsMatch ==
    InTurn /\ faults = 0 /\ (\A w \in Workers : ~Linking(w)) => pad = cipher

\* Of the requests to store a session, however many overlap, one that is answered
\* 201 replaced the session it knew of, and one is turned away without a failure
\* only when another session was stored since it looked
\* (linked-accounts.go:349-354, 632-648).
SessionsTakeTurns ==
    [][\A w \in Workers : pc[w] \in SessionLabels /\ pc'[w] = "idle" =>
          /\ answer'[w] = 201 => session = seen[w] /\ session' = key[w]
          /\ answer'[w] = 500 /\ faults' = faults => session # seen[w]]_vars

\* linked-accounts.go:680 "Add/Update key-value pair": a request changes the
\* entry of its own provider and no other, whatever runs beside it.
OwnKeyOnly ==
    [][\A p \in Providers : cipher'[p] # cipher[p] =>
          \E w \in Workers : prov[w] = p /\ Linking(w)]_vars
=============================================================================
