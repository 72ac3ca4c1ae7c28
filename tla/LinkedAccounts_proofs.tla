------------------------ MODULE LinkedAccounts_proofs ------------------------
(***************************************************************************)
(* Theorems about LinkedAccounts, for every set of providers and keys and  *)
(* any number of workers and failures.                                     *)
(***************************************************************************)
EXTENDS LinkedAccounts, TLAPS

-----------------------------------------------------------------------------
(* Type correctness *)

\* The initial state is well formed.
LEMMA TypeInit == Init => TypeOK
<1>1. Nothing \in Entries
  BY DEF Nothing, Entries
<1> SUFFICES ASSUME Init PROVE TypeOK
  OBVIOUS
<1>2. secret \in {"none", "made"}
  BY DEF Init
<1> QED
  BY <1>1, <1>2, LinkedAssumption DEF Init, TypeOK, Labels

\* A changed entry leaves a map of entries.
LEMMA EntriesChange ==
    /\ Nothing \in Entries
    /\ \A f \in Entries, p \in Providers, k \in Keys \cup {None} :
          [f EXCEPT ![p] = k] \in Entries
  BY DEF Nothing, Entries

Moved == /\ pc \in [Workers -> Labels]
         /\ answer \in [Workers -> {0, 201, 204, 500}]
         /\ faults \in 0..MaxFaults

\* A worker goes on to its next call, answers, or fails.
LEMMA MovesAreTyped ==
    ASSUME TypeOK, NEW w \in Workers
    PROVE  /\ \A l \in Labels : Continue(w, l) /\ NoFault => Moved'
           /\ \A code \in {201, 204, 500} : Reply(w, code) /\ NoFault => Moved'
           /\ \A code \in {201, 204, 500} : Reply(w, code) /\ Fault => Moved'
           /\ Fail(w) => Moved'
<1>1. Moved /\ "idle" \in Labels
  BY DEF TypeOK, Moved, Labels
<1>2. ASSUME NEW l \in Labels, Continue(w, l), NoFault
      PROVE  Moved'
  BY <1>1, <1>2 DEF Continue, Goto, NoFault, Moved
<1>3. ASSUME NEW code \in {201, 204, 500}, Reply(w, code), NoFault \/ Fault
      PROVE  Moved'
  <2>1. faults' \in 0..MaxFaults
    BY <1>1, <1>3, LinkedAssumption DEF NoFault, Fault, Moved
  <2> QED
    BY <1>1, <1>3, <2>1 DEF Reply, Goto, Moved
<1> QED
  BY <1>2, <1>3 DEF Fail

\* So every call leaves a worker at a known place.
LEMMA CallsMove ==
    ASSUME TypeOK, NEW w \in Workers, Step(w) \/ SessionStep(w)
    PROVE  Moved'
<1>1. {"getSecret", "updatePad", "putSecret", "createSecret", "getKeys", "updateKeys",
       "readSession", "updateSession"} \subseteq Labels
  BY DEF Labels, SessionLabels
<1>2. CASE CreatePad(w) \/ UpdatePad(w) \/ GetSecret(w)
  BY <1>1, <1>2, MovesAreTyped DEF CreatePad, PadFailed, UpdatePad, GetSecret
<1>3. CASE PutSecret(w) \/ CreateSecret(w)
  BY <1>1, <1>3, MovesAreTyped DEF PutSecret, PutFailed, CreateSecret
<1>4. CASE DeletePad(w) \/ GetKeys(w) \/ UpdateKeys(w)
  BY <1>1, <1>4, MovesAreTyped DEF DeletePad, GetKeys, UpdateKeys
<1>5. CASE SessionStep(w)
  BY <1>1, <1>5, MovesAreTyped
     DEF SessionStep, CreateSession, ReadSession, UpdateSession, StoreSession, SessionExists
<1> QED
  BY <1>2, <1>3, <1>4, <1>5 DEF Step

Stored == /\ pad \in Entries /\ cipher \in Entries /\ secret \in {"none", "made"}
          /\ stored \in SUBSET Keys /\ read \in [Workers -> Entries]

\* The calls about a provider store and read entries.
LEMMA StoresAreTyped ==
    ASSUME TypeOK, NEW w \in Workers, Step(w)
    PROVE  Stored' /\ UNCHANGED <<request, cosmos>>
<1> USE LinkedAssumption, EntriesChange
<1>0. /\ pad \in Entries /\ cipher \in Entries /\ secret \in {"none", "made"}
      /\ stored \in SUBSET Keys /\ read \in [Workers -> Entries]
      /\ prov[w] \in Providers /\ key[w] \in Keys /\ read[w] \in Entries
  BY DEF TypeOK
<1>1. WithEntry(w) \in Entries /\ [read[w] EXCEPT ![prov[w]] = None] \in Entries
  BY <1>0 DEF WithEntry
<1>2. CASE CreatePad(w) \/ UpdatePad(w) \/ DeletePad(w)
  BY <1>0, <1>2 DEF CreatePad, UpdatePad, DeletePad, ReplacePad, StorePad, stores, Stored
<1>3. CASE GetSecret(w) \/ GetKeys(w)
  BY <1>0, <1>3 DEF GetSecret, GetKeys, stores, Stored
<1>4. CASE PutSecret(w) \/ CreateSecret(w) \/ UpdateKeys(w)
  BY <1>0, <1>1, <1>4 DEF PutSecret, CreateSecret, UpdateKeys, Stored
<1> QED
  BY <1>2, <1>3, <1>4 DEF Step

\* Every step keeps the state well formed.
LEMMA TypeStep == TypeOK /\ [Next]_vars => TypeOK'
<1> SUFFICES ASSUME TypeOK, [Next]_vars PROVE TypeOK'
  OBVIOUS
<1>1. ASSUME NEW w \in Workers, NEW p \in Providers, NEW k \in Keys, BeginLink(w, p, k)
      PROVE  TypeOK'
  BY SMTT(60), <1>1 DEF BeginLink, Begin, Goto, Labels, NoteOverlap, stores, cosmos, TypeOK
<1>2. ASSUME NEW w \in Workers, NEW p \in Providers, BeginUnlink(w, p)
      PROVE  TypeOK'
  BY SMTT(60), <1>2 DEF BeginUnlink, Begin, Goto, Labels, NoteOverlap, stores, cosmos, TypeOK
<1>3. ASSUME NEW w \in Workers, Step(w)
      PROVE  TypeOK'
  <2>1. Moved' /\ Stored' /\ UNCHANGED <<request, cosmos>>
    BY <1>3, CallsMove, StoresAreTyped
  <2> QED
    BY <2>1 DEF Moved, Stored, request, overlap, cosmos, TypeOK
<1>4. ASSUME NEW w \in Workers, NEW k \in Keys, BeginSession(w, k)
      PROVE  TypeOK'
  BY SMTT(60), <1>4
     DEF BeginSession, Begin, Goto, Labels, SessionLabels, stores, overlap, TypeOK
<1>5. ASSUME NEW w \in Workers, SessionStep(w)
      PROVE  TypeOK'
  <2>1. Moved' /\ UNCHANGED <<stores, request, read>>
    BY <1>5, CallsMove DEF SessionStep, CreateSession, ReadSession, UpdateSession
  <2>2. session' \in Keys \cup {None} /\ seen' \in [Workers -> Keys \cup {None}]
    BY <1>5 DEF SessionStep, CreateSession, ReadSession, UpdateSession, StoreSession, TypeOK
  <2> QED
    BY <2>1, <2>2 DEF Moved, stores, request, overlap, TypeOK
<1>6. CASE UNCHANGED vars
  BY <1>6 DEF vars, stores, request, overlap, cosmos, TypeOK
<1> QED
  BY <1>1, <1>2, <1>3, <1>4, <1>5, <1>6 DEF Next

\* The state is well formed.
THEOREM TypeCorrect == Spec => []TypeOK
  BY TypeInit, TypeStep, PTL DEF Spec

\* A request about the session leaves all that those about providers rely on.
LEMMA SessionsApart ==
    ASSUME TypeOK, NEW w \in Workers, SessionStep(w) \/ \E k \in Keys : BeginSession(w, k)
    PROVE  /\ UNCHANGED <<stores, prov, overlap, read>>
           /\ ~Linking(w) /\ ~Linking(w)'
           /\ \A v \in Workers \ {w} : pc'[v] = pc[v] /\ key'[v] = key[v]
           /\ faults' \in {faults, faults + 1}
<1> USE DEF TypeOK, Linking, SessionLabels, Goto, Reply, Continue, Fail, Fault, NoFault,
        stores, request, overlap
<1>1. CASE CreateSession(w)
  BY <1>1 DEF CreateSession, StoreSession, SessionExists
<1>2. CASE ReadSession(w)
  BY <1>2 DEF ReadSession
<1>3. CASE UpdateSession(w)
  BY <1>3 DEF UpdateSession, StoreSession
<1>4. ASSUME NEW k \in Keys, BeginSession(w, k)
      PROVE  /\ UNCHANGED <<stores, prov, overlap, read>>
             /\ ~Linking(w) /\ ~Linking(w)'
             /\ \A v \in Workers \ {w} : pc'[v] = pc[v] /\ key'[v] = key[v]
             /\ faults' \in {faults, faults + 1}
  BY <1>4 DEF BeginSession, Begin
<1> QED
  BY <1>1, <1>2, <1>3, <1>4 DEF SessionStep

-----------------------------------------------------------------------------
(* Requests at the same time *)

\* What is in AWS or about to be written there has had its pad stored.
PadsStored ==
    /\ \A w \in Workers : pc[w] \in {"getSecret", "putSecret", "createSecret"} =>
                             key[w] \in stored
    /\ \A w \in Workers, p \in Providers : read[w][p] # None => read[w][p] \in stored

PInv == PadsStored /\ PadFirst

\* The initial state satisfies the invariant.
LEMMA PadInit == Init => PInv
  BY DEF Init, PInv, PadsStored, PadFirst, Nothing

\* Every step preserves it.
LEMMA PadStep == TypeOK /\ PInv /\ [Next]_vars => PInv'
<1> SUFFICES ASSUME TypeOK, PInv, [Next]_vars PROVE PInv'
  OBVIOUS
<1> USE LinkedAssumption
<1> USE DEF TypeOK, Entries, PInv, PadsStored, PadFirst, Nothing, Labels, Goto, Reply,
        Continue, Fail
<1>1. ASSUME NEW w \in Workers, NEW p \in Providers, NEW k \in Keys, BeginLink(w, p, k)
      PROVE  PInv'
  BY SMTT(60), <1>1 DEF BeginLink, Begin, NoteOverlap, stores, request, overlap, cosmos
<1>2. ASSUME NEW w \in Workers, NEW p \in Providers, BeginUnlink(w, p)
      PROVE  PInv'
  BY SMTT(60), <1>2 DEF BeginUnlink, Begin, NoteOverlap, stores, request, overlap, cosmos
<1>3. ASSUME NEW w \in Workers, CreatePad(w)
      PROVE  PInv'
  BY SMTT(60), <1>3 DEF CreatePad, StorePad, PadFailed, stores, request, overlap, cosmos
<1>4. ASSUME NEW w \in Workers, UpdatePad(w)
      PROVE  PInv'
  BY SMTT(60), <1>4 DEF UpdatePad, ReplacePad, StorePad, stores, request, overlap, cosmos
<1>5. ASSUME NEW w \in Workers, GetSecret(w)
      PROVE  PInv'
  BY SMTT(60), <1>5 DEF GetSecret, stores, request, overlap, cosmos
<1>6. ASSUME NEW w \in Workers, PutSecret(w)
      PROVE  PInv'
  BY SMTT(60), <1>6 DEF PutSecret, WithEntry, PutFailed, stores, request, overlap, cosmos
<1>7. ASSUME NEW w \in Workers, CreateSecret(w)
      PROVE  PInv'
  BY SMTT(60), <1>7 DEF CreateSecret, WithEntry, stores, request, overlap, cosmos
<1>8. ASSUME NEW w \in Workers, DeletePad(w)
      PROVE  PInv'
  BY SMTT(60), <1>8 DEF DeletePad, stores, request, overlap, cosmos
<1>9. ASSUME NEW w \in Workers, GetKeys(w)
      PROVE  PInv'
  BY SMTT(60), <1>9 DEF GetKeys, stores, request, overlap, cosmos
<1>10. ASSUME NEW w \in Workers, UpdateKeys(w)
       PROVE  PInv'
  BY SMTT(60), <1>10 DEF UpdateKeys, stores, request, overlap, cosmos
<1>11. CASE UNCHANGED vars
  BY <1>11 DEF vars, stores, request, overlap, cosmos
<1>12. ASSUME NEW w \in Workers, SessionStep(w) \/ \E k \in Keys : BeginSession(w, k)
       PROVE  PInv'
  BY <1>12, SessionsApart DEF Linking, SessionLabels, stores
<1> QED
  BY <1>1, <1>2, <1>3, <1>4, <1>5, <1>6, <1>7, <1>8, <1>9, <1>10, <1>11, <1>12
     DEF Next, Step

\* No ciphertext is in AWS before its pad was in Kubernetes.
THEOREM PadsComeFirst == Spec => []PadFirst
<1>1. PInv => PadFirst
  BY DEF PInv
<1> QED
  BY <1>1, TypeCorrect, PadInit, PadStep, PTL DEF Spec

-----------------------------------------------------------------------------
(* Requests that no other overlaps *)

\* What the worker read is still so, and the pad is where its request put it.
Fresh(w) ==
    /\ pc[w] \in {"putSecret", "createSecret", "updateKeys"} => read[w] = cipher
    /\ pc[w] \in {"getSecret", "putSecret", "createSecret"} => pad[prov[w]] = key[w]
    /\ pc[w] \in {"getKeys", "updateKeys"} => pad[prov[w]] = None
    /\ pc[w] = "createSecret" => secret = "none"

Only(w) == \A v \in Workers : Linking(v) => v = w

AloneIsFresh == \A w \in Workers : Undisturbed(w) => Only(w) /\ Fresh(w)

\* In turn every request is alone.
TurnsAreAlone == InTurn => \A w \in Workers : Linking(w) => w \in alone

\* Without a secret there are no entries, and none are updated.
NoEntries == /\ secret = "none" => cipher = Nothing
             /\ \A w \in Workers : pc[w] = "updateKeys" => secret = "made"

OInv == NoEntries /\ AloneIsFresh /\ TurnsAreAlone

\* The initial state satisfies the invariant.
LEMMA OneInit == Init => OInv
  BY DEF Init, OInv, AloneIsFresh, TurnsAreAlone, InTurn, Undisturbed, NoEntries, Linking

\* Only the beginning of a request changes who is alone.
LEMMA OverlapKept ==
    ASSUME [Next]_vars,
           ~ \E w \in Workers, p \in Providers :
                 BeginUnlink(w, p) \/ \E k \in Keys : BeginLink(w, p, k)
    PROVE  UNCHANGED overlap
  BY DEF Next, Step, CreatePad, UpdatePad, GetSecret, PutSecret, CreateSecret, DeletePad,
     GetKeys, UpdateKeys, BeginSession, SessionStep, CreateSession, ReadSession,
     UpdateSession, request, overlap, vars

\* A request that does not begin in turn is remembered.
LEMMA TurnsEnd == ASSUME [Next]_vars, InTurn' PROVE InTurn
<1>1. ASSUME NEW w \in Workers, NEW p \in Providers,
             BeginUnlink(w, p) \/ \E k \in Keys : BeginLink(w, p, k)
      PROVE  InTurn
  BY <1>1 DEF BeginUnlink, BeginLink, NoteOverlap, InTurn
<1> QED
  BY <1>1, OverlapKept DEF overlap, InTurn

\* In turn there is one request at a time, and what it read is still so.
LEMMA OneInTurn ==
    ASSUME OInv, InTurn
    PROVE  /\ \A v, w \in Workers : Linking(v) /\ Linking(w) => v = w
           /\ \A w \in Workers : Fresh(w)
<1>1. \A w \in Workers : Linking(w) => Only(w) /\ Fresh(w)
  BY DEF OInv, AloneIsFresh, TurnsAreAlone, InTurn, Undisturbed
<1>2. \A w \in Workers : ~Linking(w) => Fresh(w)
  BY DEF Fresh, Linking, SessionLabels
<1> QED
  BY <1>1, <1>2 DEF Only

\* A step of a worker leaves the others where they are.
LEMMA OthersWait ==
    ASSUME TypeOK, NEW w \in Workers, Step(w)
    PROVE  Linking(w) /\ \A v \in Workers \ {w} : pc'[v] = pc[v]
  BY DEF TypeOK, Linking, SessionLabels, Step, CreatePad, UpdatePad, GetSecret, PutSecret, CreateSecret, DeletePad,
     GetKeys, UpdateKeys, PadFailed, PutFailed, Goto, Reply, Continue, Fail

\* A request that begins alone or in turn begins when no other is at work on a
\* provider.
LEMMA AllWait ==
    ASSUME TypeOK, NEW w \in Workers, NEW p \in Providers,
           BeginUnlink(w, p) \/ \E k \in Keys : BeginLink(w, p, k)
    PROVE  \/ alone' = {} /\ ~InTurn'
           \/ /\ alone' = {w}
              /\ \A v \in Workers : ~Linking(v)
              /\ \A v \in Workers \ {w} : ~Linking(v)'
              /\ pc'[w] \in {"createPad", "deletePad"}
  BY DEF TypeOK, InTurn, BeginLink, BeginUnlink, Begin, NoteOverlap, Goto, Linking, SessionLabels

\* Every step preserves it.
LEMMA OneStep == TypeOK /\ OInv /\ [Next]_vars => OInv'
<1> SUFFICES ASSUME TypeOK, OInv, [Next]_vars PROVE OInv'
  OBVIOUS
<1>a. NoEntries'
  <2> USE DEF TypeOK, Labels, OInv, NoEntries, Goto, Reply, Continue, Fail, stores
  <2>1. ASSUME NEW w \in Workers, CreatePad(w) \/ UpdatePad(w)
        PROVE  /\ UNCHANGED <<cipher, secret>>
               /\ \A v \in Workers : pc'[v] = "updateKeys" => pc[v] = "updateKeys"
    BY <2>1 DEF CreatePad, UpdatePad, StorePad, ReplacePad, PadFailed
  <2>2. ASSUME NEW w \in Workers, PutSecret(w) \/ CreateSecret(w)
        PROVE  /\ UNCHANGED <<cipher, secret>> \/ secret' = "made"
               /\ \A v \in Workers : pc'[v] = "updateKeys" => pc[v] = "updateKeys"
    BY <2>2 DEF PutSecret, PutFailed, CreateSecret
  <2>3. ASSUME NEW w \in Workers, GetKeys(w)
        PROVE  NoEntries'
    BY <2>3 DEF GetKeys
  <2>4. ASSUME NEW w \in Workers, UpdateKeys(w)
        PROVE  NoEntries'
    BY <2>4 DEF UpdateKeys
  <2>5. ASSUME NEW w \in Workers, GetSecret(w) \/ DeletePad(w)
        PROVE  NoEntries'
    BY <2>5 DEF GetSecret, DeletePad
  <2>6. ASSUME NEW w \in Workers, NEW p \in Providers,
               BeginUnlink(w, p) \/ \E k \in Keys : BeginLink(w, p, k)
        PROVE  NoEntries'
    BY <2>6 DEF BeginUnlink, BeginLink, Begin
  <2>7. ASSUME NEW w \in Workers, SessionStep(w) \/ \E k \in Keys : BeginSession(w, k)
        PROVE  NoEntries'
    BY <2>7, SessionsApart DEF Linking, SessionLabels
  <2> QED
    BY <2>1, <2>2, <2>3, <2>4, <2>5, <2>6, <2>7 DEF Next, Step, vars
<1>b. AloneIsFresh /\ TurnsAreAlone /\ NoEntries
  BY DEF OInv
<1>f. ASSUME NEW w \in Workers, Step(w), Fresh(w)
      PROVE  Fresh(w)'
  <2>0. Fresh(w) /\ NoEntries
    BY <1>b, <1>f
  <2> USE LinkedAssumption, <2>0
  <2> USE DEF TypeOK, Entries, Fresh, Labels, Goto, Reply, Continue, Fail, stores, request, overlap
  <2>1. CASE CreatePad(w)
    BY <2>1 DEF CreatePad, StorePad, PadFailed
  <2>2. CASE UpdatePad(w)
    BY <2>2 DEF UpdatePad, ReplacePad, StorePad
  <2>3. CASE GetSecret(w)
    BY <2>3 DEF GetSecret, NoEntries
  <2>4. CASE PutSecret(w)
    BY <2>4 DEF PutSecret, PutFailed
  <2>5. CASE CreateSecret(w)
    BY <2>5 DEF CreateSecret
  <2>6. CASE DeletePad(w)
    BY <2>6 DEF DeletePad
  <2>7. CASE GetKeys(w)
    BY <2>7 DEF GetKeys
  <2>8. CASE UpdateKeys(w)
    BY <2>8 DEF UpdateKeys
  <2> QED
    BY <1>f, <2>1, <2>2, <2>3, <2>4, <2>5, <2>6, <2>7, <2>8 DEF Step
<1>g. ASSUME NEW w \in Workers, Step(w)
      PROVE  AloneIsFresh' /\ TurnsAreAlone'
  <2>1. UNCHANGED overlap
    BY <1>g DEF Step, CreatePad, UpdatePad, GetSecret, PutSecret, CreateSecret, DeletePad,
       GetKeys, UpdateKeys, request, overlap
  <2>2. Linking(w) /\ \A v \in Workers \ {w} : Linking(v)' <=> Linking(v)
    BY <1>g, OthersWait DEF Linking
  <2>3. ASSUME NEW v \in Workers, Undisturbed(v)'
        PROVE  v = w /\ Only(w)' /\ Fresh(w)'
    <3>1. v \in alone /\ Linking(v)
      BY <2>1, <2>2, <2>3 DEF Undisturbed, overlap
    <3>2. Only(v) /\ Fresh(v)
      BY <1>b, <3>1 DEF AloneIsFresh, Undisturbed
    <3>3. v = w
      BY <2>2, <3>2 DEF Only
    <3> QED
      BY <1>f, <1>g, <2>2, <3>2, <3>3 DEF Only
  <2>4. TurnsAreAlone'
    BY <1>b, <2>1, <2>2 DEF TurnsAreAlone, InTurn, overlap
  <2> QED
    BY <2>3, <2>4 DEF AloneIsFresh
<1>h. ASSUME NEW w \in Workers, NEW p \in Providers,
             BeginUnlink(w, p) \/ \E k \in Keys : BeginLink(w, p, k)
      PROVE  AloneIsFresh' /\ TurnsAreAlone'
  BY <1>h, AllWait
     DEF AloneIsFresh, TurnsAreAlone, InTurn, Undisturbed, Only, Fresh, Linking, SessionLabels
<1>i. ASSUME NEW w \in Workers, SessionStep(w) \/ \E k \in Keys : BeginSession(w, k)
      PROVE  AloneIsFresh' /\ TurnsAreAlone'
  <2>1. UNCHANGED <<overlap, stores, prov, read>>
        /\ \A v \in Workers : Linking(v)' <=> Linking(v)
    BY <1>i, SessionsApart DEF Linking
  <2>2. ASSUME NEW v \in Workers, Linking(v), Fresh(v)
        PROVE  Fresh(v)'
    <3>1. v # w /\ pc'[v] = pc[v] /\ key'[v] = key[v]
      BY <1>i, <2>2, SessionsApart
    <3> QED
      BY <2>1, <2>2, <3>1 DEF Fresh, stores
  <2> QED
    BY <1>b, <2>1, <2>2 DEF AloneIsFresh, TurnsAreAlone, InTurn, Undisturbed, Only, overlap
<1>j. ASSUME UNCHANGED vars
      PROVE  AloneIsFresh' /\ TurnsAreAlone'
  <2>1. UNCHANGED <<pad, cipher, secret, pc, prov, key, read, alone, served>>
    BY <1>j DEF vars, stores, request, overlap
  <2> QED
    BY <1>b, <2>1 DEF AloneIsFresh, TurnsAreAlone, InTurn, Undisturbed, Only, Fresh, Linking
<1> QED
  BY <1>a, <1>g, <1>h, <1>i, <1>j DEF Next, OInv

\* The answers to a request that no other overlaps are true, whatever overlapped or
\* failed before.
THEOREM AnswersAreTrue == Spec => AnswerIsTrue
<1>1. TypeOK /\ OInv /\ [Next]_vars =>
        [\A w \in Workers : Undisturbed(w) /\ pc'[w] = "idle" =>
            /\ answer'[w] = 201 => /\ pad'[prov[w]] = key[w]
                                   /\ cipher'[prov[w]] = key[w]
            /\ answer'[w] = 204 => /\ pad'[prov[w]] = None
                                   /\ cipher'[prov[w]] = None]_vars
  <2> SUFFICES ASSUME TypeOK, OInv, Next, NEW w \in Workers, Undisturbed(w),
                      pc'[w] = "idle"
               PROVE  /\ answer'[w] = 201 => pad'[prov[w]] = key[w] /\ cipher'[prov[w]] = key[w]
                      /\ answer'[w] = 204 => pad'[prov[w]] = None /\ cipher'[prov[w]] = None
    OBVIOUS
  <2>0. Linking(w) /\ Only(w) /\ Fresh(w)
    BY DEF OInv, AloneIsFresh, Undisturbed
  <2> USE DEF TypeOK, Entries, Fresh, Goto, Reply, Continue, Fail
  <2>1. ASSUME NEW v \in Workers, Step(v)
        PROVE  v = w
    BY <2>0, <2>1, OthersWait DEF Only
  <2>2. CASE PutSecret(w)
    BY <2>0, <2>2 DEF PutSecret, WithEntry, PutFailed
  <2>3. CASE CreateSecret(w)
    BY <2>0, <2>3 DEF CreateSecret, WithEntry
  <2>4. CASE UpdateKeys(w)
    BY <2>0, <2>4 DEF UpdateKeys
  <2>5. CASE CreatePad(w) \/ UpdatePad(w) \/ GetSecret(w) \/ DeletePad(w) \/ GetKeys(w)
    BY <2>5 DEF CreatePad, PadFailed, UpdatePad, GetSecret, DeletePad, GetKeys
  <2>6. ASSUME NEW v \in Workers, NEW p \in Providers,
               \/ BeginUnlink(v, p)
               \/ \E k \in Keys : BeginLink(v, p, k)
        PROVE  FALSE
    BY <2>0, <2>6 DEF BeginLink, BeginUnlink, Begin, Linking
  <2>7. ASSUME NEW v \in Workers, SessionStep(v) \/ \E k \in Keys : BeginSession(v, k)
        PROVE  FALSE
    BY <2>0, <2>7, SessionsApart DEF Linking
  <2> QED
    BY <2>1, <2>2, <2>3, <2>4, <2>5, <2>6, <2>7 DEF Next, Step
<1> QED
  BY <1>1, TypeCorrect, OneInit, OneStep, PTL DEF Spec, AnswerIsTrue

\* A request that no other overlaps touches no entry of another provider.
THEOREM NoLostUpdate == Spec => OthersAreKept
<1>1. TypeOK /\ OInv /\ [Next]_vars =>
        [\A w \in Workers : Undisturbed(w) =>
            \A p \in Providers : cipher'[p] # cipher[p] => prov[w] = p]_vars
  <2> SUFFICES ASSUME TypeOK, OInv, Next, NEW w \in Workers, Undisturbed(w),
                      NEW p \in Providers, cipher'[p] # cipher[p]
               PROVE  prov[w] = p
    OBVIOUS
  <2>0. Linking(w) /\ Only(w) /\ Fresh(w)
    BY DEF OInv, AloneIsFresh, Undisturbed
  <2> USE DEF TypeOK, Entries
  <2>1. PICK v \in Workers : PutSecret(v) \/ CreateSecret(v) \/ UpdateKeys(v)
    <3>1. ASSUME NEW v \in Workers, SessionStep(v) \/ \E k \in Keys : BeginSession(v, k)
          PROVE  FALSE
      BY <3>1, SessionsApart DEF stores
    <3> QED
      BY <3>1
         DEF Next, Step, BeginLink, BeginUnlink, CreatePad, UpdatePad, GetSecret, DeletePad,
             GetKeys, StorePad, ReplacePad, stores
  <2>2. v = w
    BY <2>0, <2>1, OthersWait DEF Only, Step
  <2>3. CASE PutSecret(w)
    BY <2>0, <2>3 DEF PutSecret, WithEntry, Fresh
  <2>4. CASE CreateSecret(w)
    BY <2>0, <2>4 DEF CreateSecret, WithEntry, Fresh
  <2>5. CASE UpdateKeys(w)
    BY <2>0, <2>5 DEF UpdateKeys, Fresh
  <2> QED
    BY <2>1, <2>2, <2>3, <2>4, <2>5
<1> QED
  BY <1>1, TypeCorrect, OneInit, OneStep, PTL DEF Spec, OthersAreKept

-----------------------------------------------------------------------------
(* Requests in turn, and nothing fails *)

Calm == InTurn /\ faults = 0

\* Only the provider of the request at work can have a pad without its ciphertext.
Match(w) ==
    /\ Linking(w) => \A p \in Providers \ {prov[w]} : pad[p] = cipher[p]
    /\ pc[w] \in {"createPad", "updatePad", "deletePad"} =>
          pad[prov[w]] = cipher[prov[w]]
    /\ pc[w] = "updatePad" => pad[prov[w]] # None
    /\ pc[w] \in {"getKeys", "updateKeys"} => secret = "made"

OthersMatch == \A w \in Workers : Match(w)

MInv == (Calm => OthersMatch) /\ PairsMatch

\* The initial state satisfies the invariant.
LEMMA MatchInit == Init => MInv
  BY DEF Init, MInv, OthersMatch, Match, PairsMatch, Linking

\* Failures are counted.
LEMMA CalmEnds == ASSUME TypeOK, [Next]_vars, Calm' PROVE Calm /\ ~Fault
<1>1. \/ faults' = faults
      \/ faults' = faults + 1
  BY SessionsApart DEF Next, Step, BeginLink, BeginUnlink, CreatePad, PadFailed, UpdatePad, GetSecret,
     PutSecret, PutFailed, CreateSecret, DeletePad, GetKeys, UpdateKeys, Fail, Fault,
     NoFault, vars
<1>2. faults \in Nat
  BY LinkedAssumption DEF TypeOK
<1> QED
  BY <1>1, <1>2, TurnsEnd DEF Calm, Fault

\* Every step preserves it.
LEMMA MatchStep == TypeOK /\ OInv /\ MInv /\ [Next]_vars => MInv'
<1> DEFINE AllIdle == \A w \in Workers : ~Linking(w)
<1> SUFFICES ASSUME TypeOK, OInv, MInv, [Next]_vars, Calm'
             PROVE  OthersMatch' /\ (AllIdle' => pad' = cipher')
  BY DEF MInv, PairsMatch, Calm
<1>a. Calm /\ ~Fault
  BY CalmEnds
<1>b. /\ OthersMatch /\ (AllIdle => pad = cipher)
      /\ \A v, w \in Workers : Linking(v) /\ Linking(w) => v = w
      /\ \A w \in Workers : Fresh(w)
      /\ NoEntries
  BY <1>a, OneInTurn DEF OInv, MInv, PairsMatch, Calm
<1>c. pad' \in Entries /\ cipher' \in Entries
  BY TypeStep DEF TypeOK
<1>d. ASSUME NEW w \in Workers, Step(w)
      PROVE  \A v \in Workers \ {w} : Match(v)'
  BY <1>b, <1>d, OthersWait DEF Match, Linking, SessionLabels
<1>e. ASSUME NEW w \in Workers, Step(w)
      PROVE  /\ Match(w)'
             /\ ~Linking(w)' => \A p \in Providers : pad'[p] = cipher'[p]
  <2>0. Fresh(w) /\ Match(w) /\ NoEntries /\ ~Fault
    BY <1>a, <1>b DEF OthersMatch
  <2> USE LinkedAssumption, <2>0
  <2> USE DEF TypeOK, Entries, Fresh, Match, Linking, SessionLabels, Labels, Goto, Reply, Continue, Fail, stores,
          request, overlap
  <2>1. CASE CreatePad(w)
    BY <2>1 DEF CreatePad, StorePad, PadFailed
  <2>2. CASE UpdatePad(w)
    <3>1. /\ pad' = [pad EXCEPT ![prov[w]] = key[w]] /\ pc'[w] = "getSecret"
          /\ UNCHANGED <<cipher, secret, prov>>
      BY <2>2 DEF UpdatePad, ReplacePad, StorePad
    <3> QED
      BY <2>2, <3>1 DEF UpdatePad
  <2>3. CASE GetSecret(w)
    BY <2>3 DEF GetSecret
  <2>4. CASE PutSecret(w)
    <3>1. /\ UNCHANGED <<pad, secret, prov>>
          /\ \/ pc'[w] = "idle" /\ cipher' = [cipher EXCEPT ![prov[w]] = key[w]]
             \/ pc'[w] = "createSecret" /\ cipher' = cipher
      BY <2>4 DEF PutSecret, PutFailed, WithEntry
    <3> QED
      BY <2>4, <3>1 DEF PutSecret
  <2>5. CASE CreateSecret(w)
    BY <2>5 DEF CreateSecret, WithEntry
  <2>6. CASE DeletePad(w)
    BY <2>6 DEF DeletePad, NoEntries, Nothing
  <2>7. CASE GetKeys(w)
    BY <2>7 DEF GetKeys
  <2>8. CASE UpdateKeys(w)
    BY <2>8 DEF UpdateKeys
  <2> QED
    BY <1>e, <2>1, <2>2, <2>3, <2>4, <2>5, <2>6, <2>7, <2>8 DEF Step
<1>f. ASSUME NEW w \in Workers, NEW p \in Providers,
             BeginUnlink(w, p) \/ \E k \in Keys : BeginLink(w, p, k)
      PROVE  OthersMatch' /\ ~AllIdle'
  <2>1. UNCHANGED <<pad, cipher>> /\ prov' \in [Workers -> Providers]
    BY <1>f DEF BeginLink, BeginUnlink, stores, TypeOK
  <2>2. /\ pad = cipher
        /\ \A v \in Workers \ {w} : ~Linking(v)'
        /\ pc'[w] \in {"createPad", "deletePad"}
    BY <1>b, <1>f, AllWait DEF Calm
  <2> QED
    BY <2>1, <2>2 DEF OthersMatch, Match, Linking, SessionLabels
<1>g. ASSUME NEW w \in Workers, Step(w)
      PROVE  OthersMatch' /\ (AllIdle' => pad' = cipher')
  <2>1. \A v \in Workers : Match(v)'
    BY <1>d, <1>e, <1>g
  <2>2. AllIdle' => \A p \in Providers : pad'[p] = cipher'[p]
    BY <1>e, <1>g
  <2> QED
    BY <1>c, <2>1, <2>2 DEF OthersMatch, Entries
<1>h. CASE UNCHANGED vars
  BY <1>b, <1>h DEF OthersMatch, Match, Linking, vars, stores, request, overlap
<1>i. ASSUME NEW w \in Workers, SessionStep(w) \/ \E k \in Keys : BeginSession(w, k)
      PROVE  OthersMatch' /\ (AllIdle' => pad' = cipher')
  BY <1>b, <1>i, SessionsApart DEF OthersMatch, Match, Linking, SessionLabels, stores
<1> QED
  BY <1>f, <1>g, <1>h, <1>i DEF Next

\* In turn and without failures the two stores agree between requests.
THEOREM StoresAgree == Spec => []PairsMatch
<1>1. MInv => PairsMatch
  BY DEF MInv
<1> QED
  BY <1>1, TypeCorrect, OneInit, OneStep, MatchInit, MatchStep, PTL DEF Spec

-----------------------------------------------------------------------------
(* The session *)

\* While there is no session, none was seen.
SInv == session = None => \A w \in Workers : seen[w] = None

\* The initial state satisfies the invariant.
LEMMA SessionInit == Init => SInv
  BY DEF Init, SInv

\* Every step preserves it.
LEMMA SessionStays == TypeOK /\ SInv /\ [Next]_vars => SInv'
<1> SUFFICES ASSUME TypeOK, SInv, [Next]_vars PROVE SInv'
  OBVIOUS
<1> USE LinkedAssumption DEF TypeOK, SInv
<1>1. ASSUME NEW w \in Workers, NEW k \in Keys, BeginSession(w, k)
      PROVE  SInv'
  BY <1>1 DEF BeginSession
<1>2. ASSUME NEW w \in Workers, SessionStep(w)
      PROVE  SInv'
  BY <1>2 DEF SessionStep, CreateSession, ReadSession, UpdateSession, StoreSession
<1>3. ASSUME ~ \E w \in Workers : SessionStep(w) \/ \E k \in Keys : BeginSession(w, k)
      PROVE  UNCHANGED cosmos
  BY <1>3 DEF Next, Step, BeginLink, BeginUnlink, CreatePad, UpdatePad, GetSecret,
     PutSecret, CreateSecret, DeletePad, GetKeys, UpdateKeys, vars
<1> QED
  BY <1>1, <1>2, <1>3 DEF cosmos

\* Overlapping requests replace the session one after the other, each the one it
\* knew of, and none is turned away but by another or a failure.
THEOREM SessionsAreKept == Spec => SessionsTakeTurns
<1>1. TypeOK /\ SInv /\ [Next]_vars =>
        [\A w \in Workers : pc[w] \in SessionLabels /\ pc'[w] = "idle" =>
            /\ answer'[w] = 201 => session = seen[w] /\ session' = key[w]
            /\ answer'[w] = 500 /\ faults' = faults => session # seen[w]]_vars
  <2> SUFFICES ASSUME TypeOK, SInv, Next, NEW w \in Workers,
                      pc[w] \in SessionLabels, pc'[w] = "idle"
               PROVE  /\ answer'[w] = 201 => session = seen[w] /\ session' = key[w]
                      /\ answer'[w] = 500 /\ faults' = faults => session # seen[w]
    OBVIOUS
  <2> USE LinkedAssumption DEF TypeOK, SessionLabels, Goto, Reply, Continue, Fail, Fault,
          NoFault
  <2>1. ASSUME NEW v \in Workers, Step(v)
        PROVE  FALSE
    BY <2>1, OthersWait DEF Linking
  <2>2. ASSUME NEW v \in Workers, NEW p \in Providers, NEW k \in Keys,
               BeginLink(v, p, k) \/ BeginUnlink(v, p) \/ BeginSession(v, k)
        PROVE  FALSE
    BY <2>2 DEF BeginLink, BeginUnlink, BeginSession, Begin
  <2>3. ASSUME NEW v \in Workers, SessionStep(v)
        PROVE  v = w
    BY <2>3, SessionsApart
  <2>4. CASE CreateSession(w)
    BY <2>4 DEF CreateSession, StoreSession, SessionExists, SInv
  <2>5. CASE ReadSession(w)
    BY <2>5 DEF ReadSession
  <2>6. CASE UpdateSession(w)
    BY <2>6 DEF UpdateSession, StoreSession, SameVersion
  <2> QED
    BY <2>1, <2>2, <2>3, <2>4, <2>5, <2>6 DEF Next, SessionStep
<1> QED
  BY <1>1, TypeCorrect, SessionInit, SessionStays, PTL DEF Spec, SessionsTakeTurns
=============================================================================
