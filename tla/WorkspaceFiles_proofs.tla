------------------------ MODULE WorkspaceFiles_proofs -------------------------
(***************************************************************************)
(* Theorems about WorkspaceFiles, for every set of files, every way names  *)
(* are escaped and any number of requests and failures.                    *)
(***************************************************************************)
EXTENDS WorkspaceFiles, TLAPS

-----------------------------------------------------------------------------
(* Lemmas about requests and stores *)

\* What a request is made of.
LEMMA RequestType ==
    ASSUME NEW r \in Requests \cup {NoRequest}
    PROVE  /\ r.stores \in SUBSET Stores
           /\ r.names \in SUBSET (Offered \cup {Bad})
           /\ r.op \in {"none", "list", "upload", "delete", "metadata", "url"}
  BY DEF Requests, NoRequest, Stores

\* A name that is not refused is kept under a name that files can have.
LEMMA StoredType ==
    ASSUME NEW s \in Stores, NEW n \in Offered \cup {Bad}, ~Refused(n)
    PROVE  Stored(s, n) \in Files
  BY KeptAssumption DEF Stored, Refused

\* What the first call of a request can be.
LEMMA MainType ==
    ASSUME NEW r \in Requests \cup {NoRequest}
    PROVE  Main(r) \in {"page", "listBlock", "body", "file"}
  BY RequestType DEF Main

\* A request is refused with one of three codes.
LEMMA RefusalType ==
    ASSUME NEW r \in Requests \cup {NoRequest}, NEW S \in SUBSET Stores
    PROVE  Refusal(r, S) \in {0, 400, 404, 500}
<1> DEFINE bad == \E n \in r.names : Refused(n)
<1>1. CASE r.op = "list"
  BY <1>1 DEF Refusal
<1>2. CASE r.op = "url"
  BY <1>2 DEF Refusal
<1>3. CASE r.op = "delete"
  <2>1. CASE bad
    BY <1>3, <2>1 DEF Refusal
  <2>2. CASE ~bad
    BY <1>3, <2>2 DEF Refusal
  <2> QED BY <2>1, <2>2
<1>4. CASE r.op = "metadata"
  <2>1. CASE bad
    BY <1>4, <2>1 DEF Refusal
  <2>2. CASE ~bad
    BY <1>4, <2>2 DEF Refusal
  <2> QED BY <2>1, <2>2
<1>5. CASE r.op \notin {"list", "url", "delete", "metadata"}
  BY <1>5 DEF Refusal
<1> QED
  BY <1>1, <1>2, <1>3, <1>4, <1>5

\* A change of a store leaves the contents and histories well formed.
LEMMA ChangeType ==
    ASSUME TypeOK, NEW s \in Stores, NEW C \in SUBSET Files, Change(s, C)
    PROVE  /\ content' \in Contents
           /\ always' \in [Workers -> Contents]
           /\ ever' \in [Workers -> Contents]
<1> DEFINE noted(w) == IF pc[w] = "answer" THEN {} ELSE Concern(req[w], s)
<1>1. content' \in Contents
  BY DEF TypeOK, Contents, Change
<1>2. \A w \in Workers : [always[w] EXCEPT ![s] = @ \ (noted(w) \ C)] \in Contents
  BY DEF TypeOK, Contents
<1>3. \A w \in Workers : [ever[w] EXCEPT ![s] = @ \cup (noted(w) \cap C)] \in Contents
  BY DEF TypeOK, Contents
<1> QED
  BY <1>1, <1>2, <1>3 DEF Change

-----------------------------------------------------------------------------
(* Type correctness *)

\* The initial state is well formed.
LEMMA TypeInit == Init => TypeOK
<1>1. Empty \in Contents
  BY DEF Empty, Contents
<1> QED
  BY <1>1, FilesAssumption DEF Init, TypeOK, Labels

\* Every step keeps the state well formed.
LEMMA TypeStep == TypeOK /\ [Next]_vars => TypeOK'
<1> SUFFICES ASSUME TypeOK, [Next]_vars PROVE TypeOK'
  OBVIOUS
<1> USE FilesAssumption DEF Labels, Goto, Answer, Fault, NoFault
<1>0. Empty \in Contents
  BY DEF Empty, Contents
<1>1. ASSUME NEW w \in Workers, NEW r \in Sent, Begin(w, r) PROVE TypeOK'
  <2> DEFINE now == [s \in Stores |-> content[s] \cap Concern(r, s)]
  <2>1. now \in Contents
    BY DEF TypeOK, Contents
  <2>2. always' \in [Workers -> Contents] /\ ever' \in [Workers -> Contents]
    BY <1>1, <2>1 DEF TypeOK, Begin
  <2> QED
    BY <1>1, <2>2, SMTT(60) DEF TypeOK, Begin, Authorize, outside
<1>2. ASSUME NEW w \in Workers, GetWorkspace(w) PROVE TypeOK'
  <2>1. Refusal(req[w], provisioned) \in {0, 400, 404, 500}
    BY RefusalType DEF TypeOK
  <2>2. Main(req[w]) \in Labels
    BY MainType DEF TypeOK
  <2>3. pc' \in [Workers -> Labels]
    BY <1>2, <2>2 DEF TypeOK, GetWorkspace
  <2>4. code' \in [Workers -> {0, 200, 201, 400, 403, 404, 409, 500}]
    BY <1>2, <2>1 DEF TypeOK, GetWorkspace
  <2>5. has' \in [Workers -> SUBSET Stores]
    BY <1>2 DEF TypeOK, GetWorkspace
  <2> QED
    BY <1>2, <2>3, <2>4, <2>5 DEF TypeOK, GetWorkspace, stores, outside
<1>3. ASSUME NEW w \in Workers, AssumeRole(w) PROVE TypeOK'
  <2>1. Main(req[w]) \in Labels
    BY MainType DEF TypeOK
  <2>2. Failed(req[w]) \in {404, 500}
    BY DEF Failed
  <2> QED
    BY <1>3, <2>1, <2>2, SMTT(60) DEF TypeOK, AssumeRole, stores, outside, locals
<1>4. ASSUME NEW w \in Workers, ListPage(w) PROVE TypeOK'
  <2>0. \A S \in SUBSET content["object"] :
          [seen[w] EXCEPT !["object"] = @ \cup S] \in Contents
    <3> TAKE S \in SUBSET content["object"]
    <3>1. content \in Contents /\ seen \in [Workers -> Contents]
      BY DEF TypeOK
    <3>2. seen[w] \in Contents
      BY <3>1
    <3>3. S \in SUBSET Files /\ seen[w]["object"] \in SUBSET Files
      BY <3>1, <3>2 DEF Contents, Stores
    <3> QED
      BY <3>2, <3>3 DEF Contents
  <2>1. /\ seen' \in [Workers -> Contents]
        /\ page' \in [Workers -> Nat]
    <3>1. CASE UNCHANGED <<seen, page>>
      BY <3>1 DEF TypeOK
    <3>2. CASE ~UNCHANGED <<seen, page>>
      <4>1. PICK last \in Files :
              /\ seen' = [seen EXCEPT ![w]["object"] = @ \cup PageOf(w, last)]
              /\ page' = [page EXCEPT ![w] = last]
        BY <1>4, <3>2 DEF ListPage
      <4>2. last \in Nat
        OBVIOUS
      <4>3. PageOf(w, last) \in SUBSET content["object"]
        BY DEF PageOf
      <4> QED
        BY <2>0, <4>1, <4>2, <4>3 DEF TypeOK
    <3> QED
      BY <3>1, <3>2
  <2>2. /\ pc' \in [Workers -> Labels]
        /\ code' \in [Workers -> {0, 200, 201, 400, 403, 404, 409, 500}]
        /\ faults' \in 0..MaxFaults
    BY <1>4 DEF TypeOK, ListPage, Rest, StoreFailed
  <2> QED
    BY <1>4, <2>1, <2>2 DEF TypeOK, ListPage, stores, outside
<1>5. ASSUME NEW w \in Workers, ListBlock(w) PROVE TypeOK'
  <2>0. [seen[w] EXCEPT !["block"] = content["block"]] \in Contents
    BY DEF TypeOK, Contents, Stores
  <2>1. seen' \in [Workers -> Contents]
    BY <1>5, <2>0 DEF TypeOK, ListBlock, ListDirectory
  <2>2. /\ pc' \in [Workers -> Labels]
        /\ code' \in [Workers -> {0, 200, 201, 400, 403, 404, 409, 500}]
        /\ faults' \in 0..MaxFaults
    BY <1>5 DEF TypeOK, ListBlock, ListDirectory, StoreFailed
  <2> QED
    BY <1>5, <2>1, <2>2 DEF TypeOK, ListBlock, ListDirectory, stores, outside
<1>6. ASSUME NEW w \in Workers, ReadBody(w) PROVE TypeOK'
  <2>1. req[w].names \in SUBSET (Offered \cup {Bad})
    BY RequestType DEF TypeOK
  <2> QED
    BY <1>6, <2>1, SMTT(60) DEF TypeOK, ReadBody, stores, outside
<1>7. ASSUME NEW w \in Workers, PutFile(w) PROVE TypeOK'
  <2>1. PICK s \in req[w].stores, n \in left[w] :
          LET add == Change(s, content[s] \cup {Stored(s, n)})
          IN  \/ /\ Refused(n)
                 /\ Answer(w, 500) /\ NoFault
                 /\ UNCHANGED <<stores, left>>
              \/ /\ ~Refused(n)
                 /\ add /\ NoFault
                 /\ NextFile(w, n)
              \/ /\ ~Refused(n)
                 /\ add \/ UNCHANGED stores
                 /\ PutFailed(w, n)
    BY <1>7 DEF PutFile
  <2>2. s \in Stores /\ n \in Offered \cup {Bad}
    BY RequestType DEF TypeOK
  <2>3. ~Refused(n) => content[s] \cup {Stored(s, n)} \in SUBSET Files
    <3>1. ~Refused(n) => Stored(s, n) \in Files
      BY <2>2, StoredType
    <3>2. content[s] \in SUBSET Files
      BY <2>2 DEF TypeOK, Contents
    <3> QED
      BY <3>1, <3>2
  <2>4. UNCHANGED stores \/ (~Refused(n) /\ Change(s, content[s] \cup {Stored(s, n)}))
    BY <2>1 DEF stores
  <2>5. /\ content' \in Contents
        /\ always' \in [Workers -> Contents]
        /\ ever' \in [Workers -> Contents]
    <3>1. CASE UNCHANGED stores
      BY <3>1 DEF stores, TypeOK
    <3>2. CASE ~Refused(n) /\ Change(s, content[s] \cup {Stored(s, n)})
      BY <3>2, <2>2, <2>3, ChangeType
    <3> QED
      BY <2>4, <3>1, <3>2
  <2>6. /\ left' \in [Workers -> SUBSET (Offered \cup {Bad})]
        /\ pc' \in [Workers -> Labels]
        /\ code' \in [Workers -> {0, 200, 201, 400, 403, 404, 409, 500}]
        /\ faults' \in 0..MaxFaults
    BY <2>1, SMTT(60) DEF TypeOK, NextFile, PutFailed
  <2> QED
    BY <1>7, <2>5, <2>6 DEF TypeOK, PutFile, outside
<1>8. ASSUME NEW w \in Workers, DeleteFile(w) PROVE TypeOK'
  <2>1. PICK s \in req[w].stores, n \in req[w].names :
          IF s = "object" THEN DeleteObject(w, n) ELSE DeleteBlock(w, n)
    BY <1>8 DEF DeleteFile
  <2>2. content["object"] \ {Stored("object", n)} \in SUBSET Files
    BY DEF TypeOK, Contents, Stores
  <2>3. content["block"] \ {Stored("block", n)} \in SUBSET Files
    BY DEF TypeOK, Contents, Stores
  <2>4. \/ UNCHANGED stores
        \/ Change("object", content["object"] \ {Stored("object", n)})
        \/ Change("block", content["block"] \ {Stored("block", n)})
    BY <2>1 DEF DeleteObject, DeleteBlock, stores
  <2>5. /\ content' \in Contents
        /\ always' \in [Workers -> Contents]
        /\ ever' \in [Workers -> Contents]
    <3>1. CASE UNCHANGED stores
      BY <3>1 DEF stores, TypeOK
    <3>2. CASE Change("object", content["object"] \ {Stored("object", n)})
      BY <3>2, <2>2, ChangeType DEF Stores
    <3>3. CASE Change("block", content["block"] \ {Stored("block", n)})
      BY <3>3, <2>3, ChangeType DEF Stores
    <3> QED
      BY <2>4, <3>1, <3>2, <3>3
  <2>6. /\ pc' \in [Workers -> Labels]
        /\ code' \in [Workers -> {0, 200, 201, 400, 403, 404, 409, 500}]
        /\ faults' \in 0..MaxFaults
    BY <2>1, SMTT(60) DEF TypeOK, DeleteObject, DeleteBlock, DeleteFailed
  <2> QED
    BY <1>8, <2>5, <2>6 DEF TypeOK, DeleteFile, outside, locals
<1>9. ASSUME NEW w \in Workers, ReadMetadata(w) PROVE TypeOK'
  BY <1>9, SMTT(60) DEF TypeOK, ReadMetadata, Found, stores, outside, locals
<1>10. ASSUME NEW w \in Workers, Presign(w) PROVE TypeOK'
  <2>1. req[w].names \in SUBSET (Offered \cup {Bad})
    BY RequestType DEF TypeOK
  <2>2. urls' \in SUBSET (Offered \cup {Bad})
    BY <1>10, <2>1 DEF TypeOK, Presign
  <2>3. /\ pc' \in [Workers -> Labels]
        /\ code' \in [Workers -> {0, 200, 201, 400, 403, 404, 409, 500}]
    BY <1>10 DEF TypeOK, Presign
  <2> QED
    BY <1>10, <2>2, <2>3 DEF TypeOK, Presign, stores, locals
<1>11. ASSUME NEW w \in Workers, Done(w) PROVE TypeOK'
  BY <1>0, <1>11, SMTT(60) DEF TypeOK, Done, outside
<1>12. ASSUME NEW w \in Workers, ExpireToken(w) PROVE TypeOK'
  BY <1>12, SMTT(60) DEF TypeOK, ExpireToken, stores, outside
<1>13. ASSUME NEW s \in Stores, Provision(s) PROVE TypeOK'
  BY <1>13, SMTT(60) DEF TypeOK, Provision, stores, locals
<1>14. ASSUME NEW n \in Offered, UseURL(n) PROVE TypeOK'
  <2>1. content["object"] \cup {Stored("object", n)} \in SUBSET Files
    BY KeptAssumption DEF TypeOK, Contents, Stores, Stored
  <2>2. /\ content' \in Contents
        /\ always' \in [Workers -> Contents]
        /\ ever' \in [Workers -> Contents]
    BY <1>14, <2>1, ChangeType DEF UseURL, Stores
  <2> QED
    BY <1>14, <2>2 DEF TypeOK, UseURL, outside, locals
<1>15. CASE UNCHANGED vars
  BY <1>15 DEF TypeOK, vars, stores, outside, locals
<1> QED
  BY <1>1, <1>2, <1>3, <1>4, <1>5, <1>6, <1>7, <1>8, <1>9, <1>10, <1>11, <1>12,
     <1>13, <1>14, <1>15 DEF Next, Serve, Outside

\* The state is well formed.
THEOREM TypeCorrect == Spec => []TypeOK
  BY TypeInit, TypeStep, PTL DEF Spec

-----------------------------------------------------------------------------
(* What is true of every request while it is served *)

Busy(w) == pc[w] \notin {"idle", "answer"}

\* The step a request is at is one of its own.
Matched(w) ==
    /\ Busy(w) => req[w] \in Requests
    /\ pc[w] = "page" => req[w].op = "list" /\ "object" \in req[w].stores
    /\ pc[w] = "listBlock" => req[w].op = "list"
    /\ pc[w] \in {"body", "put"} => req[w].op = "upload"
    /\ pc[w] = "file" => req[w].op \in {"delete", "metadata", "url"}
    /\ pc[w] \in {"idle", "workspace", "creds"} => page[w] = 0 /\ seen[w] = Empty

\* The histories enclose what is in the stores.
Tracked(w) ==
    Busy(w) => \A s \in Stores : /\ always[w][s] \subseteq content[s]
                                 /\ always[w][s] \subseteq Concern(req[w], s)
                                 /\ content[s] \cap Concern(req[w], s) \subseteq ever[w][s]

\* The pages that were read show what was there all along, up to the last of them.
Listed(w) ==
    /\ pc[w] = "page" => \A f \in always[w]["object"] :
                             f <= page[w] => f \in seen[w]["object"]
    /\ pc[w] \in {"page", "listBlock"} => seen[w]["object"] \subseteq ever[w]["object"]
    /\ pc[w] = "listBlock" /\ "object" \in req[w].stores =>
           always[w]["object"] \subseteq seen[w]["object"]

\* The files that are not left to store were stored.
Uploaded(w) ==
    pc[w] = "put" => \A s \in req[w].stores, n \in req[w].names \ left[w] :
                        Stored(s, n) \in ever[w][s]

\* What is answered is true.
ListingTrue(w) ==
    Answers(w, "list", 200) =>
        \A s \in req[w].stores : /\ always[w][s] \subseteq seen[w][s]
                                 /\ seen[w][s] \subseteq ever[w][s]

UploadTrue(w) ==
    Answers(w, "upload", 201) =>
        \A s \in req[w].stores, n \in req[w].names : Stored(s, n) \in ever[w][s]

FileTrue(w) ==
    \A s \in req[w].stores, n \in req[w].names :
        /\ Answers(w, "delete", 200) => Stored(s, n) \notin always[w][s]
        /\ Answers(w, "metadata", 200) => Stored(s, n) \in ever[w][s]

Good(w) == /\ Matched(w) /\ Tracked(w) /\ Listed(w) /\ Uploaded(w)
           /\ ListingTrue(w) /\ UploadTrue(w) /\ FileTrue(w)

IInv == \A w \in Workers : Good(w)

\* The requests about single files name one store, and the ones about one file one.
LEMMA RequestShape ==
    ASSUME NEW r \in Requests
    PROVE  /\ r.op = "upload" => \E s \in Stores : r.stores = {s}
           /\ r.op \in {"delete", "metadata", "url"} =>
                  \E s \in Stores, n \in Offered \cup {Bad} : r.stores = {s} /\ r.names = {n}
  BY DEF Requests, Stores

\* A change of a store, as one of the requests sees it.
LEMMA ChangeSeen ==
    ASSUME TypeOK, NEW v \in Workers, Tracked(v),
           NEW s \in Stores, NEW C \in SUBSET Files, Change(s, C)
    PROVE  /\ \A t \in Stores : /\ always'[v][t] \subseteq always[v][t]
                               /\ ever[v][t] \subseteq ever'[v][t]
           /\ pc[v] = "answer" => always'[v] = always[v] /\ ever'[v] = ever[v]
           /\ Busy(v) => \A t \in Stores :
                  /\ always'[v][t] \subseteq content'[t]
                  /\ always'[v][t] \subseteq Concern(req[v], t)
                  /\ content'[t] \cap Concern(req[v], t) \subseteq ever'[v][t]
<1> DEFINE noted == IF pc[v] = "answer" THEN {} ELSE Concern(req[v], s)
<1>1. /\ always[v] \in Contents /\ ever[v] \in Contents
      /\ content \in Contents
  BY DEF TypeOK
<1>2. /\ content' = [content EXCEPT ![s] = C]
      /\ always'[v] = [always[v] EXCEPT ![s] = @ \ (noted \ C)]
      /\ ever'[v] = [ever[v] EXCEPT ![s] = @ \cup (noted \cap C)]
  BY DEF Change
<1>3. /\ content'[s] = C
      /\ always'[v][s] = always[v][s] \ (noted \ C)
      /\ ever'[v][s] = ever[v][s] \cup (noted \cap C)
  BY <1>1, <1>2 DEF Contents
<1>4. \A t \in Stores \ {s} : /\ content'[t] = content[t]
                              /\ always'[v][t] = always[v][t]
                              /\ ever'[v][t] = ever[v][t]
  BY <1>1, <1>2 DEF Contents
<1>5. \A t \in Stores : /\ always'[v][t] \subseteq always[v][t]
                        /\ ever[v][t] \subseteq ever'[v][t]
  BY <1>3, <1>4
<1>6. ASSUME pc[v] = "answer" PROVE always'[v] = always[v] /\ ever'[v] = ever[v]
  BY <1>1, <1>2, <1>6 DEF Contents
<1>7. ASSUME Busy(v), NEW t \in Stores
      PROVE  /\ always'[v][t] \subseteq content'[t]
             /\ always'[v][t] \subseteq Concern(req[v], t)
             /\ content'[t] \cap Concern(req[v], t) \subseteq ever'[v][t]
  <2>1. noted = Concern(req[v], s)
    BY <1>7 DEF Busy
  <2>2. /\ always[v][t] \subseteq content[t]
        /\ always[v][t] \subseteq Concern(req[v], t)
        /\ content[t] \cap Concern(req[v], t) \subseteq ever[v][t]
    BY <1>7 DEF Tracked
  <2>3. CASE t = s
    BY <1>3, <2>1, <2>2, <2>3
  <2>4. CASE t # s
    BY <1>4, <2>2, <2>4
  <2> QED
    BY <2>3, <2>4
<1> QED
  BY <1>5, <1>6, <1>7

StoresChange == \E s \in Stores, C \in SUBSET Files : Change(s, C)

\* What others do leaves a request as it should be.
LEMMA Others ==
    ASSUME TypeOK, NEW v \in Workers, Good(v),
           pc'[v] = pc[v], req'[v] = req[v], left'[v] = left[v], page'[v] = page[v],
           seen'[v] = seen[v], code'[v] = code[v],
           UNCHANGED stores \/ StoresChange
    PROVE  Good(v)'
<1>1. CASE UNCHANGED stores
  BY <1>1 DEF stores, Good, Busy, Matched, Tracked, Listed, Uploaded, ListingTrue,
              UploadTrue, FileTrue, Answers
<1>2. CASE StoresChange
  <2>1. PICK s \in Stores, C \in SUBSET Files : Change(s, C)
    BY <1>2 DEF StoresChange
  <2>2. /\ \A t \in Stores : /\ always'[v][t] \subseteq always[v][t]
                            /\ ever[v][t] \subseteq ever'[v][t]
        /\ pc[v] = "answer" => always'[v] = always[v] /\ ever'[v] = ever[v]
        /\ Busy(v) => \A t \in Stores :
               /\ always'[v][t] \subseteq content'[t]
               /\ always'[v][t] \subseteq Concern(req[v], t)
               /\ content'[t] \cap Concern(req[v], t) \subseteq ever'[v][t]
    BY <2>1, ChangeSeen DEF Good
  <2>3. Matched(v)'
    BY DEF Good, Matched, Busy
  <2>4. Tracked(v)'
    BY <2>2 DEF Tracked, Busy
  <2>5. Listed(v)'
    BY <2>2 DEF Good, Listed, Stores
  <2>6. Uploaded(v)'
    <3>1. req[v].stores \in SUBSET Stores
      BY RequestType DEF TypeOK
    <3> QED
      BY <2>2, <3>1 DEF Good, Uploaded
  <2>7. ListingTrue(v)' /\ UploadTrue(v)' /\ FileTrue(v)'
    BY <2>2 DEF Good, ListingTrue, UploadTrue, FileTrue, Answers
  <2> QED
    BY <2>3, <2>4, <2>5, <2>6, <2>7 DEF Good
<1> QED
  BY <1>1, <1>2

\* The initial state satisfies the invariant.
LEMMA GoodInit == Init => IInv
  BY DEF Init, IInv, Good, Busy, Matched, Tracked, Listed, Uploaded, ListingTrue,
         UploadTrue, FileTrue, Answers, Labels, NoRequest

\* A request that is answered with an error has nothing to be true to.
LEMMA ErrorAnswer ==
    ASSUME NEW w \in Workers, pc'[w] = "answer", code'[w] \notin {200, 201}
    PROVE  Good(w)'
  BY DEF Good, Busy, Matched, Tracked, Listed, Uploaded, ListingTrue, UploadTrue,
         FileTrue, Answers

\* Every step preserves the invariant: what others do is Others, what is left is
\* the request that takes the step.
LEMMA GoodStep == TypeOK /\ IInv /\ [Next]_vars => IInv'
<1> SUFFICES ASSUME TypeOK, IInv, [Next]_vars PROVE IInv'
  OBVIOUS
<1> USE FilesAssumption
<1>1. ASSUME NEW w \in Workers, NEW r \in Sent, Begin(w, r) PROVE IInv'
  <2>1. ASSUME NEW v \in Workers, v # w PROVE Good(v)'
    <3>1. /\ always'[v] = always[v] /\ ever'[v] = ever[v] /\ content' = content
          /\ pc'[v] = pc[v] /\ req'[v] = req[v] /\ code'[v] = code[v]
          /\ UNCHANGED <<left, page, seen>>
      BY <1>1, <2>1 DEF TypeOK, Begin, Authorize, Goto, Answer
    <3> QED
      BY <3>1 DEF IInv, Good, Busy, Matched, Tracked, Listed, Uploaded, ListingTrue,
                  UploadTrue, FileTrue, Answers
  <2>2. Good(w)'
    <3>1. CASE pc'[w] = "answer"
      <4>1. code'[w] \in {403, 500}
        BY <1>1, <3>1 DEF TypeOK, Begin, Authorize, Goto, Answer
      <4> QED
        BY <3>1, <4>1, ErrorAnswer
    <3>2. CASE pc'[w] # "answer"
      <4>1. /\ pc'[w] = "workspace" /\ req'[w] = r /\ r \in Requests
            /\ content' = content /\ page'[w] = page[w] /\ seen'[w] = seen[w]
        BY <1>1, <3>2 DEF TypeOK, Begin, Authorize, Goto, Answer
      <4>2. /\ always'[w] = [s \in Stores |-> content[s] \cap Concern(r, s)]
            /\ ever'[w] = [s \in Stores |-> content[s] \cap Concern(r, s)]
        BY <1>1 DEF TypeOK, Begin
      <4>3. page[w] = 0 /\ seen[w] = Empty
        BY <1>1 DEF Begin, IInv, Good, Matched
      <4> QED
        BY <4>1, <4>2, <4>3 DEF Good, Busy, Matched, Tracked, Listed, Uploaded,
           ListingTrue, UploadTrue, FileTrue, Answers
    <3> QED
      BY <3>1, <3>2
  <2> QED
    BY <2>1, <2>2 DEF IInv
<1>2. ASSUME NEW w \in Workers, GetWorkspace(w) PROVE IInv'
  <2>1. ASSUME NEW v \in Workers, v # w PROVE Good(v)'
    BY <1>2, <2>1, Others DEF TypeOK, IInv, GetWorkspace, Goto, Answer, stores
  <2>2. Good(w)'
    <3>1. Refusal(req[w], provisioned) \in {0, 400, 404, 500}
      BY RefusalType DEF TypeOK
    <3>2. CASE pc'[w] = "answer"
      <4>1. code'[w] \in {400, 404, 500}
        BY <1>2, <3>1, <3>2, MainType DEF TypeOK, GetWorkspace, Goto, Answer
      <4> QED
        BY <3>2, <4>1, ErrorAnswer
    <3>3. CASE pc'[w] # "answer"
      <4>1. /\ pc[w] = "workspace" /\ req[w] \in Requests
            /\ pc'[w] = IF "object" \in req[w].stores THEN "creds" ELSE Main(req[w])
            /\ UNCHANGED <<stores, req, left, page, seen>>
        BY <1>2, <3>3 DEF TypeOK, GetWorkspace, Goto, Answer, IInv, Good, Matched, Busy
      <4>2. /\ page[w] = 0 /\ seen[w] = Empty
            /\ \A s \in Stores : /\ always[w][s] \subseteq content[s]
                                 /\ always[w][s] \subseteq Concern(req[w], s)
                                 /\ content[s] \cap Concern(req[w], s) \subseteq ever[w][s]
        BY <4>1 DEF IInv, Good, Matched, Tracked, Busy
      <4>3. CASE "object" \in req[w].stores
        BY <4>1, <4>2, <4>3 DEF Good, Busy, Matched, Tracked, Listed, Uploaded,
           ListingTrue, UploadTrue, FileTrue, Answers, stores
      <4>4. CASE "object" \notin req[w].stores
        <5>1. /\ pc'[w] = "listBlock" => req[w].op = "list"
              /\ pc'[w] = "body" => req[w].op = "upload"
              /\ pc'[w] = "file" => req[w].op \notin {"list", "upload"}
              /\ pc'[w] \in {"listBlock", "body", "file"}
          BY <4>1, <4>4, RequestType DEF Main
        <5>2. req[w].op \in {"list", "upload", "delete", "metadata", "url"}
          BY <4>1 DEF Requests
        <5> QED
          BY <4>1, <4>2, <4>4, <5>1, <5>2 DEF Good, Busy, Matched, Tracked, Listed,
             Uploaded, ListingTrue, UploadTrue, FileTrue, Answers, stores, Empty, Stores
      <4> QED
        BY <4>3, <4>4
    <3> QED
      BY <3>2, <3>3
  <2> QED
    BY <2>1, <2>2 DEF IInv
<1>3. ASSUME NEW w \in Workers, AssumeRole(w) PROVE IInv'
  <2>1. ASSUME NEW v \in Workers, v # w PROVE Good(v)'
    BY <1>3, <2>1, Others DEF TypeOK, IInv, AssumeRole, Goto, Answer, stores, locals
  <2>2. Good(w)'
    <3>1. CASE pc'[w] = "answer"
      <4>1. code'[w] \in {404, 500}
        BY <1>3, <3>1, MainType DEF TypeOK, AssumeRole, Goto, Answer, Failed
      <4> QED
        BY <3>1, <4>1, ErrorAnswer
    <3>2. CASE pc'[w] # "answer"
      <4>1. /\ pc[w] = "creds" /\ req[w] \in Requests
            /\ pc'[w] = Main(req[w])
            /\ UNCHANGED <<stores, req, left, page, seen>>
        BY <1>3, <3>2 DEF TypeOK, AssumeRole, Goto, Answer, IInv, Good, Matched, Busy, locals
      <4>2. /\ page[w] = 0 /\ seen[w] = Empty
            /\ \A s \in Stores : /\ always[w][s] \subseteq content[s]
                                 /\ always[w][s] \subseteq Concern(req[w], s)
                                 /\ content[s] \cap Concern(req[w], s) \subseteq ever[w][s]
        BY <4>1 DEF IInv, Good, Matched, Tracked, Busy
      <4>3. /\ pc'[w] = "page" => req[w].op = "list" /\ "object" \in req[w].stores
            /\ pc'[w] = "listBlock" => req[w].op = "list" /\ "object" \notin req[w].stores
            /\ pc'[w] = "body" => req[w].op = "upload"
            /\ pc'[w] = "file" => req[w].op \notin {"list", "upload"}
            /\ pc'[w] \in {"page", "listBlock", "body", "file"}
        BY <4>1, RequestType DEF Main
      <4>4. req[w].op \in {"list", "upload", "delete", "metadata", "url"}
        BY <4>1 DEF Requests
      <4>5. \A f \in always[w]["object"] : f \in Nat \ {0}
        BY DEF TypeOK, Contents, Stores
      <4>6. seen[w]["object"] = {}
        BY <4>2 DEF Empty, Stores
      <4> QED
        BY <4>1, <4>2, <4>3, <4>4, <4>5, <4>6 DEF Good, Busy, Matched, Tracked, Listed,
           Uploaded, ListingTrue, UploadTrue, FileTrue, Answers, stores
    <3> QED
      BY <3>1, <3>2
  <2> QED
    BY <2>1, <2>2 DEF IInv
<1>4. ASSUME NEW w \in Workers, ListPage(w) PROVE IInv'
  <2>1. ASSUME NEW v \in Workers, v # w PROVE Good(v)'
    BY <1>4, <2>1, Others DEF TypeOK, IInv, ListPage, Rest, StoreFailed, Goto, Answer, stores
  <2>2. Good(w)'
    <3>1. CASE ~UNCHANGED faults
      <4>1. pc'[w] = "answer" /\ code'[w] \in {403, 500}
        BY <1>4, <3>1 DEF TypeOK, ListPage, StoreFailed, Fault, NoFault, Answer
      <4> QED
        BY <4>1, ErrorAnswer
    <3>2. CASE UNCHANGED faults
      <4>1. PICK last \in Files :
              /\ seen' = [seen EXCEPT ![w]["object"] = @ \cup PageOf(w, last)]
              /\ page' = [page EXCEPT ![w] = last]
              /\ IF More(last) THEN Goto(w, "page") ELSE Rest(w)
        BY <1>4, <3>2 DEF TypeOK, ListPage, StoreFailed, Fault, NoFault
      <4>2. /\ pc[w] = "page" /\ req[w].op = "list" /\ "object" \in req[w].stores
            /\ req[w] \in Requests /\ req[w].stores \in SUBSET Stores
            /\ UNCHANGED <<stores, req, left>>
        BY <1>4, RequestType DEF ListPage, IInv, Good, Matched, Busy
      <4>3. /\ content["object"] \in SUBSET (Nat \ {0}) /\ page[w] \in Nat /\ last \in Nat
            /\ always[w]["object"] \subseteq content["object"]
            /\ content["object"] \subseteq ever[w]["object"]
        <5>1. content["object"] \in SUBSET Files
          BY DEF TypeOK, Contents, Stores
        <5>2. Concern(req[w], "object") = Files
          BY <4>2 DEF Concern
        <5>3. /\ always[w]["object"] \subseteq content["object"]
              /\ content["object"] \cap Files \subseteq ever[w]["object"]
          BY <4>2, <5>2 DEF IInv, Good, Tracked, Busy, Stores
        <5>4. page[w] \in Nat
          BY DEF TypeOK
        <5> QED
          BY <5>1, <5>3, <5>4
      <4>4. /\ seen'[w] = [seen[w] EXCEPT !["object"] = @ \cup PageOf(w, last)]
            /\ page'[w] = last
            /\ seen'[w]["object"] = seen[w]["object"] \cup PageOf(w, last)
        BY <4>1 DEF TypeOK, Contents, Stores
      <4>5. /\ \A f \in always[w]["object"] : f <= last => f \in seen'[w]["object"]
            /\ seen'[w]["object"] \subseteq ever[w]["object"]
        <5>1. \A f \in always[w]["object"] : f <= page[w] => f \in seen[w]["object"]
          BY <4>2 DEF IInv, Good, Listed
        <5>2. seen[w]["object"] \subseteq ever[w]["object"]
          BY <4>2 DEF IInv, Good, Listed
        <5> QED
          BY <4>3, <4>4, <5>1, <5>2 DEF PageOf
      <4>6. CASE More(last)
        BY <4>1, <4>2, <4>4, <4>5, <4>6 DEF TypeOK, IInv, Good, Busy, Matched, Tracked, Listed,
           Uploaded, ListingTrue, UploadTrue, FileTrue, Answers, Goto, stores
      <4>7. CASE ~More(last)
        <5>1. always[w]["object"] \subseteq seen'[w]["object"]
          BY <4>3, <4>5, <4>7 DEF More
        <5>2. CASE "block" \in req[w].stores
          BY <4>1, <4>2, <4>4, <4>5, <4>7, <5>1, <5>2 DEF TypeOK, IInv, Good, Busy, Matched,
             Tracked, Listed, Uploaded, ListingTrue, UploadTrue, FileTrue, Answers, Goto,
             Rest, stores
        <5>3. CASE "block" \notin req[w].stores
          <6>1. pc'[w] = "answer" /\ req'[w].stores = {"object"} /\ req'[w].op = "list"
            BY <4>1, <4>2, <4>7, <5>3 DEF TypeOK, Rest, Answer, Stores
          <6> QED
            BY <4>2, <4>5, <5>1, <6>1 DEF Good, Busy, Matched, Tracked, Listed, Uploaded,
               ListingTrue, UploadTrue, FileTrue, Answers, stores
        <5> QED
          BY <5>2, <5>3
      <4> QED
        BY <4>6, <4>7
    <3> QED
      BY <3>1, <3>2
  <2> QED
    BY <2>1, <2>2 DEF IInv
<1>5. ASSUME NEW w \in Workers, ListBlock(w) PROVE IInv'
  <2>1. ASSUME NEW v \in Workers, v # w PROVE Good(v)'
    BY <1>5, <2>1, Others DEF TypeOK, IInv, ListBlock, ListDirectory, StoreFailed, Answer, stores
  <2>2. Good(w)'
    <3>1. CASE code'[w] # 200
      <4>1. pc'[w] = "answer" /\ code'[w] \notin {200, 201}
        BY <1>5, <3>1 DEF TypeOK, ListBlock, ListDirectory, StoreFailed, Answer
      <4> QED
        BY <4>1, ErrorAnswer
    <3>2. CASE code'[w] = 200
      <4>1. /\ pc[w] = "listBlock" /\ pc'[w] = "answer" /\ req[w].op = "list"
            /\ req[w] \in Requests /\ req[w].stores \in SUBSET Stores
            /\ UNCHANGED <<stores, req, left>>
        BY <1>5, RequestType DEF TypeOK, ListBlock, ListDirectory, StoreFailed, Answer, IInv, Good,
           Matched, Busy
      <4>2. seen' = [seen EXCEPT ![w]["block"] = content["block"]]
        BY <1>5, <3>2 DEF TypeOK, ListBlock, ListDirectory, StoreFailed, Answer
      <4>3. /\ seen'[w]["block"] = content["block"]
            /\ seen'[w]["object"] = seen[w]["object"]
        BY <4>2 DEF TypeOK, Contents, Stores
      <4>4. "block" \in req[w].stores =>
              /\ always[w]["block"] \subseteq content["block"]
              /\ content["block"] \subseteq ever[w]["block"]
        BY <4>1 DEF TypeOK, Contents, Stores, IInv, Good, Tracked, Busy, Concern
      <4>5. "object" \in req[w].stores =>
              /\ always[w]["object"] \subseteq seen[w]["object"]
              /\ seen[w]["object"] \subseteq ever[w]["object"]
        BY <4>1 DEF IInv, Good, Listed
      <4>6. ListingTrue(w)'
        BY <4>1, <4>3, <4>4, <4>5 DEF ListingTrue, Stores, stores
      <4> QED
        BY <4>1, <4>6 DEF Good, Busy, Matched, Tracked, Listed, Uploaded, UploadTrue,
           FileTrue, Answers
    <3> QED
      BY <3>1, <3>2
  <2> QED
    BY <2>1, <2>2 DEF IInv
<1>6. ASSUME NEW w \in Workers, ReadBody(w) PROVE IInv'
  <2>1. ASSUME NEW v \in Workers, v # w PROVE Good(v)'
    BY <1>6, <2>1, Others DEF TypeOK, IInv, ReadBody, Goto, Answer, stores
  <2>2. Good(w)'
    <3>1. CASE pc'[w] = "answer"
      <4>1. code'[w] \in {400, 500}
        BY <1>6, <3>1 DEF TypeOK, ReadBody, Goto, Answer
      <4> QED
        BY <3>1, <4>1, ErrorAnswer
    <3>2. CASE pc'[w] # "answer"
      <4>1. /\ pc[w] = "body" /\ pc'[w] = "put" /\ left'[w] = req[w].names
            /\ UNCHANGED <<stores, req, page, seen>>
        BY <1>6, <3>2 DEF TypeOK, ReadBody, Goto, Answer
      <4> QED
        BY <4>1 DEF IInv, Good, Busy, Matched, Tracked, Listed, Uploaded, ListingTrue,
           UploadTrue, FileTrue, Answers, stores
    <3> QED
      BY <3>1, <3>2
  <2> QED
    BY <2>1, <2>2 DEF IInv
<1>7. ASSUME NEW w \in Workers, PutFile(w) PROVE IInv'
  <2>1. PICK s \in req[w].stores, n \in left[w] :
          LET add == Change(s, content[s] \cup {Stored(s, n)})
          IN  \/ /\ Refused(n)
                 /\ Answer(w, 500) /\ NoFault
                 /\ UNCHANGED <<stores, left>>
              \/ /\ ~Refused(n)
                 /\ add /\ NoFault
                 /\ NextFile(w, n)
              \/ /\ ~Refused(n)
                 /\ add \/ UNCHANGED stores
                 /\ PutFailed(w, n)
    BY <1>7 DEF PutFile
  <2> DEFINE C == content[s] \cup {Stored(s, n)}
  <2>2. s \in Stores /\ n \in Offered \cup {Bad}
    BY RequestType DEF TypeOK
  <2>3. ~Refused(n) => Stored(s, n) \in Files /\ C \in SUBSET Files
    <3>1. ~Refused(n) => Stored(s, n) \in Files
      BY <2>2, StoredType
    <3>2. content[s] \in SUBSET Files
      BY <2>2 DEF TypeOK, Contents
    <3> QED
      BY <3>1, <3>2
  <2>4. UNCHANGED stores \/ StoresChange
    BY <2>1, <2>2, <2>3 DEF StoresChange
  <2>5. ASSUME NEW v \in Workers, v # w PROVE Good(v)'
    <3>1. /\ pc'[v] = pc[v] /\ left'[v] = left[v] /\ code'[v] = code[v]
          /\ UNCHANGED <<req, page, seen>>
      BY <1>7, <2>1, <2>5 DEF TypeOK, PutFile, NextFile, PutFailed, Goto, Answer
    <3> QED
      BY <2>4, <3>1, Others DEF IInv
  <2>6. Good(w)'
    <3>1. CASE ~(~Refused(n) /\ Change(s, C) /\ NextFile(w, n))
      <4>1. pc'[w] = "answer" /\ code'[w] = 500
        BY <2>1, <3>1 DEF TypeOK, PutFailed, Answer
      <4> QED
        BY <4>1, ErrorAnswer
    <3>2. CASE ~Refused(n) /\ Change(s, C) /\ NextFile(w, n)
      <4>1. /\ pc[w] = "put" /\ req[w].op = "upload" /\ req[w] \in Requests
            /\ UNCHANGED <<req, page, seen>>
        BY <1>7 DEF PutFile, IInv, Good, Matched, Busy
      <4>2. req[w].stores = {s} /\ "upload" # "list"
        BY <4>1, RequestShape
      <4>3. /\ \A t \in Stores : ever[w][t] \subseteq ever'[w][t]
            /\ \A t \in Stores :
                 /\ always'[w][t] \subseteq content'[t]
                 /\ always'[w][t] \subseteq Concern(req[w], t)
                 /\ content'[t] \cap Concern(req[w], t) \subseteq ever'[w][t]
        BY <2>2, <2>3, <3>2, <4>1, ChangeSeen DEF IInv, Good, Busy
      <4>4. n \in req[w].names => Stored(s, n) \in ever'[w][s]
        <5>1. content'[s] = C
          BY <2>2, <3>2 DEF Change, TypeOK, Contents
        <5>2. n \in req[w].names => Stored(s, n) \in Concern(req[w], s)
          BY <2>3, <3>2, <4>1, <4>2 DEF Concern
        <5> QED
          BY <2>2, <4>3, <5>1, <5>2
      <4>5. left'[w] = left[w] \ {n}
        BY <3>2 DEF NextFile, TypeOK
      <4>6. \A m \in req[w].names \ left'[w] : Stored(s, m) \in ever'[w][s]
        <5>1. \A m \in req[w].names \ left[w] : Stored(s, m) \in ever[w][s]
          BY <4>1, <4>2 DEF IInv, Good, Uploaded
        <5> QED
          BY <2>2, <4>3, <4>4, <4>5, <5>1
      <4>7. CASE left[w] = {n}
        <5>1. pc'[w] = "answer" /\ left'[w] = {}
          BY <3>2, <4>5, <4>7 DEF NextFile, Answer, TypeOK
        <5>2. UploadTrue(w)'
          BY <4>1, <4>2, <4>6, <5>1 DEF UploadTrue
        <5> QED
          BY <4>1, <5>1, <5>2 DEF Good, Busy, Matched, Tracked, Listed, Uploaded,
             ListingTrue, FileTrue, Answers
      <4>8. CASE left[w] # {n}
        <5>1. pc'[w] = "put"
          BY <3>2, <4>8 DEF NextFile, Goto, TypeOK
        <5>2. Uploaded(w)'
          BY <4>1, <4>2, <4>6 DEF Uploaded
        <5>3. Tracked(w)'
          BY <4>1, <4>3 DEF Tracked
        <5> QED
          BY <4>1, <5>1, <5>2, <5>3 DEF Good, Busy, Matched, Listed, ListingTrue,
             UploadTrue, FileTrue, Answers
      <4> QED
        BY <4>7, <4>8
    <3> QED
      BY <3>1, <3>2
  <2> QED
    BY <2>5, <2>6 DEF IInv
<1>8. ASSUME NEW w \in Workers, DeleteFile(w) PROVE IInv'
  <2>1. PICK s \in req[w].stores, n \in req[w].names :
          IF s = "object" THEN DeleteObject(w, n) ELSE DeleteBlock(w, n)
    BY <1>8 DEF DeleteFile
  <2>2. /\ pc[w] = "file" /\ req[w].op = "delete" /\ req[w] \in Requests
        /\ UNCHANGED <<req, left, page, seen>>
    BY <1>8 DEF DeleteFile, locals, IInv, Good, Matched, Busy
  <2>3. req[w].stores = {s} /\ req[w].names = {n} /\ s \in Stores
    BY <2>2, RequestShape
  <2> DEFINE C == content[s] \ {Stored(s, n)}
  <2>4. C \in SUBSET Files
    BY <2>3 DEF TypeOK, Contents
  <2>5. s \in {"object", "block"}
    BY <2>3 DEF Stores
  <2>6. UNCHANGED stores \/ Change(s, C)
    BY <2>1, <2>5 DEF DeleteObject, DeleteBlock, stores
  <2>7. pc'[w] = "answer" /\ (code'[w] = 200 => Change(s, C)) /\ code'[w] \in {200, 409}
    <3>1. CASE s = "object"
      <4>1. \/ Change(s, C) /\ Answer(w, 200)
            \/ Answer(w, 409)
        BY <2>1, <2>5, <3>1 DEF DeleteObject, DeleteFailed
      <4> QED
        BY <4>1 DEF TypeOK, Answer
    <3>2. CASE s = "block"
      <4>1. \/ Change(s, C) /\ Answer(w, 200)
            \/ Answer(w, 409)
        BY <2>1, <3>2 DEF DeleteBlock, DeleteFailed
      <4> QED
        BY <4>1 DEF TypeOK, Answer
    <3> QED
      BY <2>5, <3>1, <3>2
  <2>8. ASSUME NEW v \in Workers, v # w PROVE Good(v)'
    <3>1. pc'[v] = pc[v] /\ code'[v] = code[v]
      BY <2>1, <2>8 DEF TypeOK, DeleteObject, DeleteBlock, DeleteFailed, Answer
    <3>2. UNCHANGED stores \/ StoresChange
      BY <2>3, <2>4, <2>6 DEF StoresChange
    <3> QED
      BY <2>2, <3>1, <3>2, Others DEF IInv
  <2>9. Good(w)'
    <3>1. CASE code'[w] = 409
      BY <2>7, <3>1, ErrorAnswer
    <3>2. CASE code'[w] = 200
      <4>1. content'[s] = C
        BY <2>3, <2>7, <3>2 DEF Change, TypeOK, Contents
      <4>2. always'[w][s] \subseteq content'[s]
        BY <2>2, <2>3, <2>4, <2>7, <3>2, ChangeSeen DEF IInv, Good, Busy
      <4>3. FileTrue(w)'
        BY <2>2, <2>3, <4>1, <4>2 DEF FileTrue, Answers
      <4> QED
        BY <2>2, <2>7, <4>3 DEF Good, Busy, Matched, Tracked, Listed, Uploaded,
           ListingTrue, UploadTrue, Answers
    <3> QED
      BY <2>7, <3>1, <3>2
  <2> QED
    BY <2>8, <2>9 DEF IInv
<1>9. ASSUME NEW w \in Workers, ReadMetadata(w) PROVE IInv'
  <2>1. ASSUME NEW v \in Workers, v # w PROVE Good(v)'
    BY <1>9, <2>1, Others DEF TypeOK, IInv, ReadMetadata, Answer, stores, locals
  <2>2. Good(w)'
    <3>1. PICK s \in req[w].stores, n \in req[w].names :
            \/ Answer(w, IF Found(s, n) THEN 200 ELSE 404)
            \/ Answer(w, 404)
      BY <1>9 DEF ReadMetadata
    <3>2. /\ pc[w] = "file" /\ req[w].op = "metadata" /\ req[w] \in Requests
          /\ UNCHANGED <<stores, req>>
      BY <1>9 DEF ReadMetadata, locals, IInv, Good, Matched, Busy
    <3>3. req[w].stores = {s} /\ req[w].names = {n} /\ s \in Stores
      BY <3>2, RequestShape
    <3>4. pc'[w] = "answer"
      BY <3>1 DEF TypeOK, Answer
    <3>5. CASE Found(s, n)
      <4>1. Stored(s, n) \in Concern(req[w], s)
        BY <3>2, <3>3, <3>5 DEF Concern, TypeOK, Contents, Found
      <4>2. Stored(s, n) \in ever[w][s]
        BY <3>2, <3>3, <3>5, <4>1 DEF Found, IInv, Good, Tracked, Busy
      <4>3. FileTrue(w)'
        BY <3>2, <3>3, <4>2 DEF FileTrue, Answers, stores
      <4> QED
        BY <3>2, <3>4, <4>3 DEF Good, Busy, Matched, Tracked, Listed, Uploaded,
           ListingTrue, UploadTrue, Answers
    <3>6. CASE ~Found(s, n)
      <4>1. code'[w] = 404
        BY <3>1, <3>6 DEF TypeOK, Answer
      <4> QED
        BY <3>4, <4>1, ErrorAnswer
    <3> QED
      BY <3>5, <3>6
  <2> QED
    BY <2>1, <2>2 DEF IInv
<1>10. ASSUME NEW w \in Workers, Presign(w) PROVE IInv'
  <2>1. ASSUME NEW v \in Workers, v # w PROVE Good(v)'
    BY <1>10, <2>1, Others DEF TypeOK, IInv, Presign, Answer, stores, locals
  <2>2. Good(w)'
    <3>1. pc'[w] = "answer" /\ req'[w].op = "url"
      BY <1>10 DEF TypeOK, Presign, Answer, locals
    <3> QED
      BY <3>1 DEF Good, Busy, Matched, Tracked, Listed, Uploaded, ListingTrue, UploadTrue,
         FileTrue, Answers
  <2> QED
    BY <2>1, <2>2 DEF IInv
<1>11. ASSUME NEW w \in Workers, Done(w) PROVE IInv'
  <2>1. ASSUME NEW v \in Workers, v # w PROVE Good(v)'
    <3>1. /\ always'[v] = always[v] /\ ever'[v] = ever[v] /\ content' = content
          /\ pc'[v] = pc[v] /\ req'[v] = req[v] /\ code'[v] = code[v]
          /\ left'[v] = left[v] /\ page'[v] = page[v] /\ seen'[v] = seen[v]
      BY <1>11, <2>1 DEF TypeOK, Done
    <3> QED
      BY <3>1 DEF IInv, Good, Busy, Matched, Tracked, Listed, Uploaded, ListingTrue,
                  UploadTrue, FileTrue, Answers
  <2>2. Good(w)'
    <3>1. pc'[w] = "idle" /\ page'[w] = 0 /\ seen'[w] = Empty
      BY <1>11 DEF TypeOK, Done
    <3> QED
      BY <3>1 DEF Good, Busy, Matched, Tracked, Listed, Uploaded, ListingTrue, UploadTrue,
         FileTrue, Answers
  <2> QED
    BY <2>1, <2>2 DEF IInv
<1>12. ASSUME NEW w \in Workers, ExpireToken(w) PROVE IInv'
  BY <1>12, Others DEF IInv, ExpireToken, stores
<1>13. ASSUME NEW s \in Stores, Provision(s) PROVE IInv'
  BY <1>13, Others DEF IInv, Provision, stores, locals
<1>14. ASSUME NEW n \in Offered, UseURL(n) PROVE IInv'
  <2>1. "object" \in Stores /\ content["object"] \cup {Stored("object", n)} \in SUBSET Files
    BY KeptAssumption DEF TypeOK, Contents, Stores, Stored
  <2>2. StoresChange
    BY <1>14, <2>1 DEF UseURL, StoresChange
  <2> QED
    BY <1>14, <2>2, Others DEF IInv, UseURL, locals
<1>15. CASE UNCHANGED vars
  BY <1>15, Others DEF IInv, vars, stores, locals
<1> QED
  BY <1>1, <1>2, <1>3, <1>4, <1>5, <1>6, <1>7, <1>8, <1>9, <1>10, <1>11, <1>12,
     <1>13, <1>14, <1>15 DEF Next, Serve, Outside

\* The invariant holds.
THEOREM GoodAlways == Spec => []IInv
  BY TypeCorrect, GoodInit, GoodStep, PTL DEF Spec

\* However its pages are cut and whatever is stored and deleted in between, a
\* listing shows what was there all along and nothing that never was.
THEOREM ListingsAreTrue == Spec => []ListingIsTrue
<1>1. IInv => ListingIsTrue
  BY DEF IInv, Good, ListingTrue, ListingIsTrue
<1> QED
  BY <1>1, GoodAlways, PTL

\* An upload answered 201 has stored every one of its files.
THEOREM UploadsAreTrue == Spec => []UploadIsTrue
<1>1. IInv => UploadIsTrue
  BY DEF IInv, Good, UploadTrue, UploadIsTrue
<1> QED
  BY <1>1, GoodAlways, PTL

\* What is answered about a single file was so at some time of the request.
THEOREM FilesAnsweredAreTrue == Spec => []FileAnswersAreTrue
<1>1. IInv => FileAnswersAreTrue
  BY DEF IInv, Good, FileTrue, FileAnswersAreTrue
<1> QED
  BY <1>1, GoodAlways, PTL

-----------------------------------------------------------------------------
(* The token of an upload *)

\* Nothing was read before the credentials were there, and files are only stored in
\* a store that is set up.
TokenInv(w) ==
    /\ pc[w] \in {"idle", "workspace", "creds", "body"} => left[w] = {}
    /\ pc[w] = "put" => req[w].stores \subseteq has[w]
    /\ Answers(w, "upload", 500) /\ left[w] # {} /\ faults = 0 =>
            \/ \E n \in left[w] : Refused(n)
            \/ ~(req[w].stores \subseteq has[w])

TInv == \A w \in Workers : TokenInv(w)

\* The initial state satisfies the invariant.
LEMMA TokenInit == Init => TInv
  BY DEF Init, TInv, TokenInv, Answers

\* A step of one request is none of another.
LEMMA TokenOthers ==
    ASSUME TypeOK, NEW v \in Workers, TokenInv(v),
           pc'[v] = pc[v], req'[v] = req[v], left'[v] = left[v], has'[v] = has[v],
           code'[v] = code[v], UNCHANGED faults \/ Fault
    PROVE  TokenInv(v)'
  BY DEF TypeOK, TokenInv, Answers, Fault

\* Every step preserves it.
LEMMA TokenStep == TypeOK /\ IInv /\ TInv /\ [Next]_vars => TInv'
<1> SUFFICES ASSUME TypeOK, IInv, TInv, [Next]_vars PROVE TInv'
  OBVIOUS
<1>1. ASSUME NEW w \in Workers, NEW r \in Sent, Begin(w, r) PROVE TInv'
  <2>1. ASSUME NEW v \in Workers, v # w PROVE TokenInv(v)'
    BY <1>1, <2>1, TokenOthers DEF TypeOK, TInv, Begin, Authorize, Goto, Answer, NoFault
  <2>2. left'[w] = {} /\ pc'[w] # "put"
    BY <1>1 DEF TypeOK, TInv, TokenInv, Begin, Authorize, Goto, Answer
  <2> QED
    BY <2>1, <2>2 DEF TInv, TokenInv
<1>2. ASSUME NEW w \in Workers, GetWorkspace(w) PROVE TInv'
  <2>1. ASSUME NEW v \in Workers, v # w PROVE TokenInv(v)'
    BY <1>2, <2>1, TokenOthers DEF TypeOK, TInv, GetWorkspace, Goto, Answer
  <2>2. left'[w] = {} /\ pc'[w] # "put"
    BY <1>2, MainType DEF TypeOK, TInv, TokenInv, GetWorkspace, Goto, Answer
  <2> QED
    BY <2>1, <2>2 DEF TInv, TokenInv
<1>3. ASSUME NEW w \in Workers, AssumeRole(w) PROVE TInv'
  <2>1. ASSUME NEW v \in Workers, v # w PROVE TokenInv(v)'
    BY <1>3, <2>1, TokenOthers DEF TypeOK, TInv, AssumeRole, Goto, Answer, NoFault, locals
  <2>2. left'[w] = {} /\ pc'[w] # "put"
    BY <1>3, MainType DEF TypeOK, TInv, TokenInv, AssumeRole, Goto, Answer, locals
  <2> QED
    BY <2>1, <2>2 DEF TInv, TokenInv
<1>4. ASSUME NEW w \in Workers, ListPage(w) PROVE TInv'
  <2>1. ASSUME NEW v \in Workers, v # w PROVE TokenInv(v)'
    BY <1>4, <2>1, TokenOthers DEF TypeOK, TInv, ListPage, Rest, StoreFailed, Goto, Answer,
       NoFault
  <2>2. pc'[w] \in {"page", "listBlock", "answer"} /\ req'[w].op = "list"
    BY <1>4 DEF TypeOK, IInv, Good, Matched, ListPage, Rest, StoreFailed, Goto, Answer
  <2> QED
    BY <2>1, <2>2 DEF TInv, TokenInv, Answers
<1>5. ASSUME NEW w \in Workers, ListBlock(w) PROVE TInv'
  <2>1. ASSUME NEW v \in Workers, v # w PROVE TokenInv(v)'
    BY <1>5, <2>1, TokenOthers DEF TypeOK, TInv, ListBlock, ListDirectory, StoreFailed, Answer, NoFault
  <2>2. pc'[w] = "answer" /\ req'[w].op = "list"
    BY <1>5 DEF TypeOK, IInv, Good, Matched, ListBlock, ListDirectory, StoreFailed, Answer
  <2> QED
    BY <2>1, <2>2 DEF TInv, TokenInv, Answers
<1>6. ASSUME NEW w \in Workers, ReadBody(w) PROVE TInv'
  <2>1. ASSUME NEW v \in Workers, v # w PROVE TokenInv(v)'
    BY <1>6, <2>1, TokenOthers DEF TypeOK, TInv, ReadBody, Goto, Answer
  <2>2. TokenInv(w)'
    <3>1. pc[w] = "body" /\ left[w] = {} /\ UNCHANGED <<req, has, faults>>
      BY <1>6 DEF ReadBody, TInv, TokenInv
    <3>2. CASE Answer(w, 400)
      BY <3>1, <3>2 DEF TypeOK, Answer, TokenInv, Answers
    <3>3. CASE ~Answer(w, 400) /\ req[w].stores \subseteq has[w]
      BY <1>6, <3>1, <3>3 DEF TypeOK, ReadBody, Goto, TokenInv, Answers
    <3>4. CASE ~Answer(w, 400) /\ ~(req[w].stores \subseteq has[w])
      BY <1>6, <3>1, <3>4 DEF TypeOK, ReadBody, Answer, TokenInv, Answers
    <3> QED
      BY <3>2, <3>3, <3>4
  <2> QED
    BY <2>1, <2>2 DEF TInv
<1>7. ASSUME NEW w \in Workers, PutFile(w) PROVE TInv'
  <2>1. PICK n \in left[w] :
          \/ Refused(n) /\ Answer(w, 500) /\ NoFault /\ UNCHANGED left
          \/ NextFile(w, n) /\ NoFault
          \/ PutFailed(w, n)
    BY <1>7 DEF PutFile
  <2>2. pc[w] = "put" /\ UNCHANGED <<req, has>>
    BY <1>7 DEF PutFile
  <2>3. ASSUME NEW v \in Workers, v # w PROVE TokenInv(v)'
    BY <2>1, <2>2, <2>3, TokenOthers DEF TypeOK, TInv, NextFile, PutFailed, Goto, Answer,
       NoFault
  <2>4. TokenInv(w)'
    <3>1. CASE Refused(n) /\ Answer(w, 500) /\ NoFault /\ UNCHANGED left
      <4>1. pc'[w] = "answer"
        BY <3>1 DEF TypeOK, Answer
      <4> QED
        BY <3>1, <4>1 DEF TokenInv, Refused
    <3>2. CASE NextFile(w, n) /\ NoFault
      BY <2>2, <3>2 DEF TypeOK, TInv, TokenInv, NextFile, Goto, Answer, Answers
    <3>3. CASE PutFailed(w, n)
      <4>1. pc'[w] = "answer" /\ faults' # 0
        BY <3>3 DEF TypeOK, PutFailed, Answer, Fault
      <4> QED
        BY <4>1 DEF TokenInv
    <3> QED
      BY <2>1, <3>1, <3>2, <3>3
  <2> QED
    BY <2>3, <2>4 DEF TInv
<1>8. ASSUME NEW w \in Workers, DeleteFile(w) PROVE TInv'
  <2>1. pc[w] = "file" /\ req[w].op = "delete" /\ UNCHANGED <<req, has, left>>
    BY <1>8 DEF DeleteFile, locals
  <2>2. /\ pc' = [pc EXCEPT ![w] = "answer"]
        /\ \E c \in {200, 409} : code' = [code EXCEPT ![w] = c]
        /\ UNCHANGED faults \/ Fault
    BY <1>8 DEF DeleteFile, DeleteObject, DeleteBlock, DeleteFailed, Answer, NoFault
  <2>3. ASSUME NEW v \in Workers, v # w PROVE TokenInv(v)'
    BY <2>1, <2>2, <2>3, TokenOthers DEF TypeOK, TInv
  <2>4. TokenInv(w)'
    BY <2>1, <2>2 DEF TypeOK, TokenInv, Answers
  <2> QED
    BY <2>3, <2>4 DEF TInv
<1>9. ASSUME NEW w \in Workers, ReadMetadata(w) PROVE TInv'
  <2>1. ASSUME NEW v \in Workers, v # w PROVE TokenInv(v)'
    BY <1>9, <2>1, TokenOthers DEF TypeOK, TInv, ReadMetadata, Answer, NoFault, locals
  <2>2. pc'[w] = "answer" /\ req'[w].op = "metadata"
    BY <1>9 DEF TypeOK, ReadMetadata, Answer, locals
  <2> QED
    BY <2>1, <2>2 DEF TInv, TokenInv, Answers
<1>10. ASSUME NEW w \in Workers, Presign(w) PROVE TInv'
  <2>1. ASSUME NEW v \in Workers, v # w PROVE TokenInv(v)'
    BY <1>10, <2>1, TokenOthers DEF TypeOK, TInv, Presign, Answer, locals
  <2>2. pc'[w] = "answer" /\ req'[w].op = "url"
    BY <1>10 DEF TypeOK, Presign, Answer, locals
  <2> QED
    BY <2>1, <2>2 DEF TInv, TokenInv, Answers
<1>11. ASSUME NEW w \in Workers, Done(w) PROVE TInv'
  <2>1. ASSUME NEW v \in Workers, v # w PROVE TokenInv(v)'
    BY <1>11, <2>1, TokenOthers DEF TypeOK, TInv, Done
  <2>2. pc'[w] = "idle" /\ left'[w] = {}
    BY <1>11 DEF TypeOK, Done
  <2> QED
    BY <2>1, <2>2 DEF TInv, TokenInv, Answers
<1>12. ASSUME NEW w \in Workers, ExpireToken(w) PROVE TInv'
  BY <1>12, TokenOthers DEF TInv, ExpireToken
<1>13. ASSUME NEW s \in Stores, Provision(s) PROVE TInv'
  BY <1>13, TokenOthers DEF TInv, Provision, locals
<1>14. ASSUME NEW n \in Offered, UseURL(n) PROVE TInv'
  BY <1>14, TokenOthers DEF TInv, UseURL, locals
<1>15. CASE UNCHANGED vars
  BY <1>15, TokenOthers DEF TInv, vars, locals
<1> QED
  BY <1>1, <1>2, <1>3, <1>4, <1>5, <1>6, <1>7, <1>8, <1>9, <1>10, <1>11, <1>12,
     <1>13, <1>14, <1>15 DEF Next, Serve, Outside

\* Once its body was read, an upload does not fail for want of a token.
THEOREM UploadsKeepTheirToken == Spec => []UploadKeepsItsToken
<1>1. TInv => UploadKeepsItsToken
  BY DEF TInv, TokenInv, UploadKeepsItsToken
<1> QED
  BY <1>1, TypeCorrect, GoodAlways, TokenInit, TokenStep, PTL DEF Spec
=============================================================================
