---------------------------- MODULE WorkspaceFiles ----------------------------
(***************************************************************************)
(* The files of one workspace: the handlers of api/services/files.go over  *)
(* its object store (files_object.go, S3) and its block store              *)
(* (files_block.go and block_nginx_client.go, a directory behind nginx).   *)
(*                                                                         *)
(* The service keeps no state between requests.  What can go wrong is that *)
(* a request is many calls: a listing is read page by page, an upload is   *)
(* stored file by file, and other requests, clients with presigned URLs    *)
(* and the expiry of tokens come in between.  A request is cut at its      *)
(* external calls, and every one of them may fail.                         *)
(*                                                                         *)
(* File names are numbers in the order in which S3 lists them, and Bad is  *)
(* a name that validateFileName refuses.                                   *)
(***************************************************************************)
EXTENDS Naturals, FiniteSets

CONSTANTS Files,     \* the names files can have in the stores
          Offered,   \* the names that clients use in requests
          Kept,      \* Kept[s][n]: the name under which store s keeps n
          Index,     \* the files nginx serves in place of a directory
          Sent,      \* the requests that clients send
          Workers,   \* the requests that can be served at a time
          MaxListings, \* bound: listings at a time, which change nothing
          MaxFaults    \* bound: failures of external calls

Stores == {"object", "block"}
Bad    == 0

\* The requests: the stores they name and the files they are about.  A listing
\* without a store is of both, one with an unknown store is of none.  A URL is
\* asked for a file of a size that can be uploaded.
Requests ==
    [op : {"list"}, stores : SUBSET Stores, names : {{}}]
      \cup [op : {"upload"}, stores : {{s} : s \in Stores},
            names : SUBSET (Offered \cup {Bad})]
      \cup [op : {"delete", "metadata"}, stores : {{s} : s \in Stores},
            names : {{n} : n \in Offered \cup {Bad}}]
      \cup [op : {"url"}, stores : {{"object"}},
            names : {{n} : n \in Offered \cup {Bad}}]

ASSUME FilesAssumption == /\ Files \subseteq Nat \ {0}
                          /\ Offered \subseteq Files
                          /\ Sent \subseteq Requests
                          /\ MaxListings \in Nat /\ MaxFaults \in Nat

ASSUME KeptAssumption == Kept \in [Stores -> [Offered -> Files]]

VARIABLES content,      \* content[s]: the files in store s
          provisioned,  \* the stores that the manager has set up
          urls,         \* the files with a presigned URL that is valid
          pc,           \* pc[w]: what w does next
          req,          \* req[w]: the request w serves
          has,          \* has[w]: the stores of its request w found set up
          token,        \* token[w]: the bearer token of the request
          left,         \* left[w]: the files w has still to store
          page,         \* page[w]: the last name of the pages w has read
          seen,         \* seen[w]: the files of store s that w has listed
          code,         \* code[w]: the status code w answers
          always,       \* history: the files that were in store s all along
          ever,         \* history: the files that were in store s at some time
          faults

stores  == <<content, always, ever>>
outside == <<provisioned, urls>>
locals  == <<req, has, token, left, page, seen>>
vars    == <<stores, outside, locals, pc, code, faults>>

Labels == {"idle", "workspace", "creds", "body", "page",
           "listBlock", "put", "file", "answer"}

NoRequest == [op |-> "none", stores |-> {}, names |-> {}]
Empty     == [s \in Stores |-> {}]

Contents == [Stores -> SUBSET Files]

TypeOK == /\ content \in Contents
          /\ provisioned \in SUBSET Stores
          /\ urls \in SUBSET (Offered \cup {Bad})
          /\ pc \in [Workers -> Labels]
          /\ req \in [Workers -> Requests \cup {NoRequest}]
          /\ has \in [Workers -> SUBSET Stores]
          /\ token \in [Workers -> {"valid", "expired"}]
          /\ left \in [Workers -> SUBSET (Offered \cup {Bad})]
          /\ page \in [Workers -> Nat]
          /\ seen \in [Workers -> Contents]
          /\ code \in [Workers -> {0, 200, 201, 400, 403, 404, 409, 500}]
          /\ always \in [Workers -> Contents]
          /\ ever \in [Workers -> Contents]
          /\ faults \in 0..MaxFaults

Init == /\ content = Empty
        /\ provisioned = {}
        /\ urls = {}
        /\ pc = [w \in Workers |-> "idle"]
        /\ req = [w \in Workers |-> NoRequest]
        /\ has = [w \in Workers |-> {}]
        /\ token = [w \in Workers |-> "valid"]
        /\ left = [w \in Workers |-> {}]
        /\ page = [w \in Workers |-> 0]
        /\ seen = [w \in Workers |-> Empty]
        /\ code = [w \in Workers |-> 0]
        /\ always = [w \in Workers |-> Empty]
        /\ ever = [w \in Workers |-> Empty]
        /\ faults = 0

Goto(w, l) == /\ pc' = [pc EXCEPT ![w] = l]
              /\ UNCHANGED code

Answer(w, c) == /\ pc' = [pc EXCEPT ![w] = "answer"]
                /\ code' = [code EXCEPT ![w] = c]

NoFault == UNCHANGED faults
Fault   == /\ faults < MaxFaults
           /\ faults' = faults + 1

\* The name under which store s keeps the file that a request calls n.  safeS3Key
\* drops the space around an object's name.  The path of a block file is escaped by
\* hand and then again with the URL, so a name with a reserved character becomes
\* another one.
Stored(s, n) == IF n \in Offered THEN Kept[s][n] ELSE n

\* The files that request r is about in store s.
Concern(r, s) == IF s \notin r.stores THEN {}
                 ELSE IF r.op = "list" THEN Files
                 ELSE IF r.op = "url" THEN {}
                 ELSE (r.names \cup {Stored(s, n) : n \in r.names}) \cap Files

\* Store s now holds the files C; the requests that are served take note.
Change(s, C) ==
    LET noted(w) == IF pc[w] = "answer" THEN {} ELSE Concern(req[w], s)
    IN  /\ content' = [content EXCEPT ![s] = C]
        /\ always' = [w \in Workers |->
                         [always[w] EXCEPT ![s] = @ \ (noted(w) \ C)]]
        /\ ever' = [w \in Workers |->
                       [ever[w] EXCEPT ![s] = @ \cup (noted(w) \cap C)]]

\* Mutant: names are not looked at.
AnyName(n) == FALSE

\* validateFileName.
Refused(n) == n = Bad

-----------------------------------------------------------------------------
(* What every request begins with *)

Listings == {w \in Workers : req[w].op = "list"}

\* Keycloak is asked for a token and for the groups of the user; who is not in the
\* group of the workspace is sent away.
Authorize(w) == \/ Goto(w, "workspace") /\ NoFault
                \/ Answer(w, 403) /\ NoFault
                \/ Answer(w, 500) /\ Fault

\* A client sends request r.
Begin(w, r) == /\ pc[w] = "idle"
               /\ r.op = "list" => Cardinality(Listings) < MaxListings
               /\ Authorize(w)
               /\ req' = [req EXCEPT ![w] = r]
               /\ LET now == [s \in Stores |-> content[s] \cap Concern(r, s)]
                  IN  /\ always' = [always EXCEPT ![w] = now]
                      /\ ever' = [ever EXCEPT ![w] = now]
               /\ UNCHANGED <<content, outside, has, token, left, page, seen>>

\* The first call for request r, once there are credentials.
Main(r) == CASE r.op = "list"   -> IF "object" \in r.stores THEN "page" ELSE "listBlock"
             [] r.op = "upload" -> "body"
             [] OTHER           -> "file"

\* A store of request r is not among the stores S that are set up: it has no bucket
\* and prefix, or no mount point.
Bare(r, S) == ~(r.stores \subseteq S)

\* The code for a request that ends before any call to its store, where the
\* workspace has set up the stores S; 0 for one that goes on.
Refusal(r, S) ==
    LET bad  == \E n \in r.names : Refused(n)
        bare == Bare(r, S)
    IN  CASE r.op = "list" /\ (r.stores = {} \/ "object" \in r.stores \ S) -> 400
          [] r.op \in {"delete", "metadata"} /\ bad    -> 400
          [] r.op = "metadata" /\ ~bad /\ bare         -> 404
          [] r.op = "delete" /\ ~bad /\ bare           -> 500
          [] r.op = "url" /\ (bare \/ bad)             -> 500
          [] OTHER                                     -> 0

\* GetWorkspace answers an error for a workspace that is gone and when it fails.
GetWorkspace(w) ==
    /\ pc[w] = "workspace"
    /\ \/ /\ Answer(w, 404)
          /\ UNCHANGED has
       \/ /\ has' = [has EXCEPT ![w] = provisioned \cap req[w].stores]
          /\ IF Refusal(req[w], provisioned) # 0
             THEN Answer(w, Refusal(req[w], provisioned))
             ELSE Goto(w, IF "object" \in req[w].stores THEN "creds" ELSE Main(req[w]))
    /\ UNCHANGED <<stores, outside, req, token, left, page, seen, faults>>

\* The code for a request whose call to the store fails.
Failed(r) == IF r.op = "metadata" THEN 404 ELSE 500

\* newS3Client: STS exchanges the bearer token for S3 credentials, unless the
\* token has expired.
AssumeRole(w) ==
    /\ pc[w] = "creds"
    /\ \/ token[w] = "valid" /\ Goto(w, Main(req[w])) /\ NoFault
       \/ token[w] = "expired" /\ Answer(w, Failed(req[w])) /\ NoFault
       \/ Answer(w, Failed(req[w])) /\ Fault
    /\ UNCHANGED <<stores, outside, locals>>

-----------------------------------------------------------------------------
(* ListFilesService *)

\* A listing hands on the status of the store, where it has one.
StoreFailed(w) == Fault /\ \E c \in {403, 500} : Answer(w, c)

\* What follows the last page.
Rest(w) == IF "block" \in req[w].stores THEN Goto(w, "listBlock") ELSE Answer(w, 200)

\* Mutant: only the first page is read.
NeverMore(last) == FALSE

\* IsTruncated: there is more in the object store after a page that ends at last.
More(last) == \E f \in content["object"] : f > last

\* The page that w reads next, if it ends at last.
PageOf(w, last) == {f \in content["object"] : page[w] < f /\ f <= last}

\* One page of ListObjectsV2, which ends where S3 likes; the next one begins
\* after it, as long as S3 says there is more.
ListPage(w) ==
    /\ pc[w] = "page"
    /\ \/ /\ \E last \in Files :
               /\ last > page[w]
               /\ seen' = [seen EXCEPT ![w]["object"] = @ \cup PageOf(w, last)]
               /\ page' = [page EXCEPT ![w] = last]
               /\ IF More(last) THEN Goto(w, "page") ELSE Rest(w)
          /\ NoFault
       \/ /\ StoreFailed(w)
          /\ UNCHANGED <<seen, page>>
    /\ UNCHANGED <<stores, outside, req, has, token, left>>

\* The directory as nginx lists it, unless it serves an index file instead, which
\* is not the JSON that the client expects.
ListDirectory(w) ==
    IF content["block"] \cap Index = {}
    THEN /\ seen' = [seen EXCEPT ![w]["block"] = content["block"]]
         /\ Answer(w, 200)
    ELSE UNCHANGED seen /\ Answer(w, 500)

\* The block store is listed last, and the listing answered.
ListBlock(w) ==
    /\ pc[w] = "listBlock"
    /\ \/ /\ "block" \notin has[w]
          /\ Answer(w, 400) /\ NoFault
          /\ UNCHANGED seen
       \/ /\ "block" \in has[w]
          /\ ListDirectory(w) /\ NoFault
       \/ /\ "block" \in has[w]
          /\ StoreFailed(w)
          /\ UNCHANGED seen
    /\ UNCHANGED <<stores, outside, req, has, token, left, page>>

-----------------------------------------------------------------------------
(* UploadFilesService, for one store *)

\* Mutant: the token is exchanged after the body was read.
ReadBodyFirst(w) ==
    /\ pc[w] = "body"
    /\ IF req[w].names = {} THEN Answer(w, 400) /\ UNCHANGED left
       ELSE /\ left' = [left EXCEPT ![w] = req[w].names]
            /\ IF req[w].stores \subseteq has[w] /\ token[w] = "valid"
               THEN Goto(w, "put") ELSE Answer(w, 500)
    /\ UNCHANGED <<stores, outside, req, has, token, page, seen, faults>>

\* The body is read, which can take minutes, and the files in it are taken out.  It
\* may break off, or not be a form at all.
ReadBody(w) ==
    /\ pc[w] = "body"
    /\ \/ /\ Answer(w, 400)
          /\ UNCHANGED left
       \/ /\ req[w].names # {}
          /\ left' = [left EXCEPT ![w] = req[w].names]
          /\ IF req[w].stores \subseteq has[w] THEN Goto(w, "put") ELSE Answer(w, 500)
    /\ UNCHANGED <<stores, outside, req, has, token, page, seen, faults>>

\* What follows file n.
NextFile(w, n) ==
    /\ left' = [left EXCEPT ![w] = @ \ {n}]
    /\ IF left[w] = {n} THEN Answer(w, 201) ELSE Goto(w, "put")

\* Mutant: a failure is ignored.
IgnorePutFailure(w, n) == NextFile(w, n) /\ Fault

\* Storing file n failed.
PutFailed(w, n) == /\ Answer(w, 500) /\ Fault
                   /\ UNCHANGED left

\* The files are stored one by one in no particular order; the first that is
\* refused or fails ends the request, and those before it stay.
PutFile(w) ==
    /\ pc[w] = "put"
    /\ \E s \in req[w].stores, n \in left[w] :
         LET add == Change(s, content[s] \cup {Stored(s, n)})
         IN  \/ /\ Refused(n)
                /\ Answer(w, 500) /\ NoFault
                /\ UNCHANGED <<stores, left>>
             \/ /\ ~Refused(n)
                /\ add /\ NoFault
                /\ NextFile(w, n)
             \/ /\ ~Refused(n)
                /\ add \/ UNCHANGED stores
                /\ PutFailed(w, n)
    /\ UNCHANGED <<outside, req, has, token, page, seen>>

-----------------------------------------------------------------------------
(* DeleteFilesService, GetFileMetadataService, GetUploadURLService *)

\* Mutant: the error of a deletion is ignored.
IgnoreDeleteFailure(w) == Answer(w, 200) /\ Fault

\* The file is reported among those that failed.
DeleteFailed(w) == Answer(w, 409) /\ Fault

\* deleteObjectStoreFiles: S3 deletes a file that is not there without an error.
DeleteObject(w, n) ==
    LET remove == Change("object", content["object"] \ {Stored("object", n)})
    IN  \/ remove /\ Answer(w, 200) /\ NoFault
        \/ (remove \/ UNCHANGED stores) /\ DeleteFailed(w)

\* deleteBlockStoreFiles: nginx answers 404 for a file that is not there.
DeleteBlock(w, n) ==
    LET f == Stored("block", n)
    IN  \/ /\ f \in content["block"]
           /\ Change("block", content["block"] \ {f})
           /\ Answer(w, 200) /\ NoFault
        \/ /\ f \notin content["block"]
           /\ Answer(w, 409) /\ NoFault
           /\ UNCHANGED stores
        \/ /\ Change("block", content["block"] \ {f}) \/ UNCHANGED stores
           /\ DeleteFailed(w)

DeleteFile(w) ==
    /\ pc[w] = "file" /\ req[w].op = "delete"
    /\ \E s \in req[w].stores, n \in req[w].names :
         IF s = "object" THEN DeleteObject(w, n) ELSE DeleteBlock(w, n)
    /\ UNCHANGED <<outside, locals>>

\* HeadObject, or HEAD to nginx, finds a file.
Found(s, n) == Stored(s, n) \in content[s]

\* A missing file and a failure look the same.
ReadMetadata(w) ==
    /\ pc[w] = "file" /\ req[w].op = "metadata"
    /\ \E s \in req[w].stores, n \in req[w].names :
         \/ /\ Answer(w, IF Found(s, n) THEN 200 ELSE 404)
            /\ NoFault
         \/ Answer(w, 404) /\ Fault
    /\ UNCHANGED <<stores, outside, locals>>

\* A URL is signed without a call; the client stores the file with it later.
Presign(w) ==
    /\ pc[w] = "file" /\ req[w].op = "url"
    /\ urls' = urls \cup req[w].names
    /\ Answer(w, 200)
    /\ UNCHANGED <<stores, provisioned, locals, faults>>

\* The answer reaches the client.
Done(w) == /\ pc[w] = "answer"
           /\ pc' = [pc EXCEPT ![w] = "idle"]
           /\ req' = [req EXCEPT ![w] = NoRequest]
           /\ has' = [has EXCEPT ![w] = {}]
           /\ token' = [token EXCEPT ![w] = "valid"]
           /\ left' = [left EXCEPT ![w] = {}]
           /\ page' = [page EXCEPT ![w] = 0]
           /\ seen' = [seen EXCEPT ![w] = Empty]
           /\ code' = [code EXCEPT ![w] = 0]
           /\ always' = [always EXCEPT ![w] = Empty]
           /\ ever' = [ever EXCEPT ![w] = Empty]
           /\ UNCHANGED <<content, outside, faults>>

-----------------------------------------------------------------------------
(* Outside the service *)

\* The manager sets up store s and the consumer writes it to the database.
Provision(s) == /\ s \notin provisioned
                /\ provisioned' = provisioned \cup {s}
                /\ UNCHANGED <<stores, urls, locals, pc, code, faults>>

\* The bearer token of a request expires while it is served; it is for the object
\* store, and nothing looks at it after the body.
ExpireToken(w) == /\ pc[w] \in {"workspace", "creds", "body"}
                  /\ "object" \in req[w].stores /\ token[w] = "valid"
                  /\ token' = [token EXCEPT ![w] = "expired"]
                  /\ UNCHANGED <<stores, outside, req, has, left, page, seen, pc, code,
                                 faults>>

\* A client stores a file with its presigned URL, as often as he likes and never
\* after it has expired.
UseURL(n) == /\ n \in urls
             /\ Change("object", content["object"] \cup {Stored("object", n)})
             /\ UNCHANGED <<outside, locals, pc, code, faults>>

Serve(w) == \/ GetWorkspace(w) \/ AssumeRole(w)
            \/ ListPage(w) \/ ListBlock(w)
            \/ ReadBody(w) \/ PutFile(w)
            \/ DeleteFile(w) \/ ReadMetadata(w) \/ Presign(w)
            \/ Done(w)

Outside == \/ \E s \in Stores : Provision(s)
           \/ \E n \in Offered : UseURL(n)

Next == \/ \E w \in Workers, r \in Sent : Begin(w, r)
        \/ \E w \in Workers : Serve(w) \/ ExpireToken(w)
        \/ Outside

Spec == Init /\ [][Next]_vars

-----------------------------------------------------------------------------
(* Properties *)

Answers(w, op, c) == pc[w] = "answer" /\ req[w].op = op /\ code[w] = c

\* A listing that is answered 200 shows every file that was in the store from its
\* beginning to its end, and none that was never there meanwhile, although the
\* pages are read at different times (listS3Objects, ListFilesService).
ListingIsTrue ==
    \A w \in Workers : Answers(w, "list", 200) =>
        \A s \in req[w].stores : /\ always[w][s] \subseteq seen[w][s]
                                 /\ seen[w][s] \subseteq ever[w][s]

\* An upload is answered 201 only if every file in it was stored, each under the
\* name its store has for it (uploadObjectStoreFiles, uploadBlockStoreFiles).
UploadIsTrue ==
    \A w \in Workers : Answers(w, "upload", 201) =>
        \A s \in req[w].stores, n \in req[w].names : Stored(s, n) \in ever[w][s]

\* A file whose deletion is answered 200 was gone at some time of the request, and
\* one whose metadata are answered was there (files_object.go, files_block.go).
FileAnswersAreTrue ==
    \A w \in Workers : \A s \in req[w].stores, n \in req[w].names :
        /\ Answers(w, "delete", 200) => Stored(s, n) \notin always[w][s]
        /\ Answers(w, "metadata", 200) => Stored(s, n) \in ever[w][s]

\* Nobody uploads for minutes to be told that his token has expired: without a
\* failure, a request whose files were read fails only for a name that is refused
\* or a store that is not set up (files.go:202, "Resolve S3 credentials before
\* reading the request body so the JWT is still valid").
UploadKeepsItsToken ==
    \A w \in Workers :
        Answers(w, "upload", 500) /\ left[w] # {} /\ faults = 0 =>
            \/ \E n \in left[w] : Refused(n)
            \/ ~(req[w].stores \subseteq has[w])
=============================================================================
