-------------------------- MODULE Membership_proofs --------------------------
(***************************************************************************)
(* Theorems about Membership, for any number of requests at a time, users  *)
(* and uses of the name, and any failures.                                 *)
(***************************************************************************)
EXTENDS Membership, TLAPS

-----------------------------------------------------------------------------
(* Type correctness *)

\* A worker that serves a request has one, and adds or removes only users whom
\* Keycloak knew.
Serving == \A w \in Workers :
              /\ pc[w] # "idle" => req[w] \in Requests
              /\ pc[w] = "member" /\ Changes(w) => User(w) \in Registered

TInv == TypeOK /\ Serving

\* The initial state is well formed.
LEMMA TypeInit == Init => TInv
<1> SUFFICES ASSUME Init PROVE TInv
  OBVIOUS
<1>1. TokenTypeOK
  BY DEF Init, TokenInit, TokenTypeOK, Words
<1>2. leaving \in BOOLEAN /\ row \in {"absent", "live", "Unavailable"}
  BY DEF Init
<1>3. TypeOK
  BY <1>1, <1>2, MembershipAssumption DEF Init, TypeOK, Labels
<1>4. Serving
  BY DEF Init, Serving
<1> QED
  BY <1>3, <1>4 DEF TInv

\* Every step keeps it so.
LEMMA TypeStep == TInv /\ [Next]_vars => TInv'
<1> SUFFICES ASSUME TInv, [Next]_vars PROVE TInv'
  OBVIOUS
<1> USE MembershipAssumption, TokenAssumption
<1> USE DEF TInv, TypeOK, TokenTypeOK, Words, Labels, Calls, Serving, AllRequests,
        Changes, Op, Who, User, Goto, Continue, Reply, Fail, TokenLeft, token,
        database, keycloak, local
<1>1. ASSUME NEW u \in Registered, NEW o \in Registered, CreateWorkspace(u, o)
      PROVE  TInv'
  BY SMTT(60), <1>1 DEF CreateWorkspace, Moved
<1>2. ASSUME Retire
      PROVE  TInv'
  BY SMTT(60), <1>2 DEF Retire
<1>3. ASSUME RemoveGroup
      PROVE  TInv'
  BY SMTT(60), <1>3 DEF RemoveGroup
<1>4. ASSUME NEW o \in Registered, UpdateAccount(o)
      PROVE  TInv'
  BY SMTT(60), <1>4 DEF UpdateAccount, Moved
<1>5. ASSUME DeleteAccount
      PROVE  TInv'
  BY SMTT(60), <1>5 DEF DeleteAccount, Moved
<1>6. ASSUME NEW w \in Workers, NEW r \in Requests, Begin(w, r)
      PROVE  TInv'
  BY SMTT(60), <1>6 DEF Begin
<1>7. ASSUME NEW w \in Workers, FetchToken(w)
      PROVE  TInv'
  BY SMTT(60), <1>7 DEF FetchToken
<1>8. ASSUME NEW w \in Workers, StoreToken(w)
      PROVE  TInv'
  BY SMTT(60), <1>8 DEF StoreToken, AfterToken, AfterOwner, StorePointer,
     StoreLength, Holders
<1>9. ASSUME NEW w \in Workers, GetUserGroups(w)
      PROVE  TInv'
  BY SMTT(60), <1>9 DEF GetUserGroups
<1>10. ASSUME NEW w \in Workers, ReadRow(w)
       PROVE  TInv'
  BY SMTT(60), <1>10 DEF ReadRow
<1>11. ASSUME NEW w \in Workers, ReadAccount(w)
       PROVE  TInv'
  BY SMTT(60), <1>11 DEF ReadAccount, AccountGone, RequesterAllowed, TargetAllowed,
     AfterOwner
<1>12. ASSUME NEW w \in Workers, GetWorkspace(w)
       PROVE  TInv'
  BY SMTT(60), <1>12 DEF GetWorkspace
<1>13. ASSUME NEW w \in Workers, GetGroup(w)
       PROVE  TInv'
  BY SMTT(60), <1>13 DEF GetGroup
<1>14. ASSUME NEW w \in Workers, GetUser(w)
       PROVE  TInv'
  BY SMTT(60), <1>14 DEF GetUser, UserFound
<1>15. ASSUME NEW w \in Workers, GetMembers(w)
       PROVE  TInv'
  BY SMTT(60), <1>15 DEF GetMembers
<1>16. ASSUME NEW w \in Workers, ChangeMembers(w)
       PROVE  TInv'
  BY SMTT(60), <1>16 DEF ChangeMembers, Found
<1>17. CASE UNCHANGED vars
  BY <1>17 DEF vars
<1> QED
  BY <1>1, <1>2, <1>3, <1>4, <1>5, <1>6, <1>7, <1>8, <1>9, <1>10, <1>11, <1>12,
     <1>13, <1>14, <1>15, <1>16, <1>17
     DEF Next, Environment, Step, ShowMembers, EditMembers, CommonStep

\* The state is well formed: only users of Keycloak are ever members.
THEOREM TypeCorrect == Spec => []TypeOK
<1>1. TInv => TypeOK
  BY DEF TInv
<1> QED
  BY <1>1, TypeInit, TypeStep, PTL DEF Spec

-----------------------------------------------------------------------------
(* The shared token *)

\* Of the words w has stored, none is missing, and they are its own as long as no
\* other request stored one after it.
StoredPointer(w) == pointer # "none" /\ (w \notin disturbed => pointer = w)
StoredLength(w)  == length # "none" /\ (w \notin disturbed => length = w)

TokenStored ==
    \A w \in Workers :
        /\ pc[w] \in Calls \cup {"storeLength"} => StoredPointer(w)
        /\ pc[w] \in Calls \cup {"storePointer"} => StoredLength(w)

\* The initial state satisfies it.
LEMMA TokenStoredInit == Init => TokenStored
  BY DEF Init, TokenStored, Calls

\* Every step preserves it.
LEMMA TokenStoredStep == TInv /\ TokenStored /\ [Next]_vars => TokenStored'
<1> SUFFICES ASSUME TInv, TokenStored, [Next]_vars PROVE TokenStored'
  OBVIOUS
<1> USE TokenAssumption
<1> USE DEF TInv, TypeOK, TokenTypeOK, Words, Labels, Calls, TokenStored,
        StoredPointer, StoredLength, Goto, Continue, Reply, Fail, TokenLeft, token
<1>1. ASSUME NEW u \in Registered, NEW o \in Registered, CreateWorkspace(u, o)
      PROVE  TokenStored'
  BY SMTT(60), <1>1 DEF CreateWorkspace, Moved
<1>2. ASSUME Retire
      PROVE  TokenStored'
  BY SMTT(60), <1>2 DEF Retire
<1>3. ASSUME RemoveGroup
      PROVE  TokenStored'
  BY SMTT(60), <1>3 DEF RemoveGroup
<1>4. ASSUME NEW o \in Registered, UpdateAccount(o)
      PROVE  TokenStored'
  BY SMTT(60), <1>4 DEF UpdateAccount, Moved
<1>5. ASSUME DeleteAccount
      PROVE  TokenStored'
  BY SMTT(60), <1>5 DEF DeleteAccount, Moved
<1>6. ASSUME NEW w \in Workers, NEW r \in Requests, Begin(w, r)
      PROVE  TokenStored'
  BY SMTT(60), <1>6 DEF Begin
<1>7. ASSUME NEW w \in Workers, FetchToken(w)
      PROVE  TokenStored'
  BY SMTT(60), <1>7 DEF FetchToken
<1>8. ASSUME NEW w \in Workers, StoreToken(w)
      PROVE  TokenStored'
  BY SMTT(60), <1>8 DEF StoreToken, AfterToken, AfterOwner, StorePointer,
     StoreLength, Holders
<1>9. ASSUME NEW w \in Workers, GetUserGroups(w)
      PROVE  TokenStored'
  BY SMTT(60), <1>9 DEF GetUserGroups
<1>10. ASSUME NEW w \in Workers, ReadRow(w)
       PROVE  TokenStored'
  BY SMTT(60), <1>10 DEF ReadRow
<1>11. ASSUME NEW w \in Workers, ReadAccount(w)
       PROVE  TokenStored'
  BY SMTT(60), <1>11 DEF ReadAccount, AccountGone, RequesterAllowed, TargetAllowed,
     AfterOwner
<1>12. ASSUME NEW w \in Workers, GetWorkspace(w)
       PROVE  TokenStored'
  BY SMTT(60), <1>12 DEF GetWorkspace
<1>13. ASSUME NEW w \in Workers, GetGroup(w)
       PROVE  TokenStored'
  BY SMTT(60), <1>13 DEF GetGroup
<1>14. ASSUME NEW w \in Workers, GetUser(w)
       PROVE  TokenStored'
  BY SMTT(60), <1>14 DEF GetUser, UserFound
<1>15. ASSUME NEW w \in Workers, GetMembers(w)
       PROVE  TokenStored'
  BY SMTT(60), <1>15 DEF GetMembers
<1>16. ASSUME NEW w \in Workers, ChangeMembers(w)
       PROVE  TokenStored'
  BY SMTT(60), <1>16 DEF ChangeMembers, Found
<1>17. CASE UNCHANGED vars
  BY <1>17 DEF vars
<1> QED
  BY <1>1, <1>2, <1>3, <1>4, <1>5, <1>6, <1>7, <1>8, <1>9, <1>10, <1>11, <1>12,
     <1>13, <1>14, <1>15, <1>16, <1>17
     DEF Next, Environment, Step, ShowMembers, EditMembers, CommonStep

\* A call never finds the token missing, and finds its own one unless another
\* request stored its token meanwhile.
THEOREM TokensAreWhole == Spec => []TokenIsOwn
<1>1. TokenStored => TokenIsOwn
  BY DEF TokenStored, TokenIsOwn, StoredPointer, StoredLength
<1> QED
  BY <1>1, TypeInit, TypeStep, TokenStoredInit, TokenStoredStep, PTL DEF Spec

-----------------------------------------------------------------------------
(* The owner of the account *)

\* What was checked for a request holds until the account changes: the account is
\* the one read from the row, the requester may change members, and the target of
\* a removal is not the owner.
CheckedHolds ==
    \A w \in Workers \ moved :
        /\ pc[w] \in {"ownerAccount", "targetAccount"} =>
              row # "absent" /\ acct[w] = life
        /\ /\ pc[w] \in {"targetRow", "targetAccount", "workspace", "group", "user",
                         "member"}
           /\ Changes(w)
           => Who(w) \in Admins \cup {owner}
        /\ pc[w] \in {"workspace", "group", "user", "member"} /\ Op(w) = "remove" =>
              User(w) # owner

\* The initial state satisfies it.
LEMMA CheckedInit == Init => CheckedHolds
  BY DEF Init, CheckedHolds

\* Every step preserves it.
LEMMA CheckedStep == TInv /\ CheckedHolds /\ [Next]_vars => CheckedHolds'
<1> SUFFICES ASSUME TInv, CheckedHolds, [Next]_vars PROVE CheckedHolds'
  OBVIOUS
<1> USE MembershipAssumption
<1> USE DEF TInv, TypeOK, Labels, Calls, CheckedHolds, Serving, AllRequests, Changes,
        Op, Who, User, Goto, Continue, Reply, Fail, database, keycloak, local
<1>1. ASSUME NEW u \in Registered, NEW o \in Registered, CreateWorkspace(u, o)
      PROVE  CheckedHolds'
  BY SMTT(60), <1>1 DEF CreateWorkspace, Moved
<1>2. ASSUME Retire
      PROVE  CheckedHolds'
  BY SMTT(60), <1>2 DEF Retire
<1>3. ASSUME RemoveGroup
      PROVE  CheckedHolds'
  BY SMTT(60), <1>3 DEF RemoveGroup
<1>4. ASSUME NEW o \in Registered, UpdateAccount(o)
      PROVE  CheckedHolds'
  BY SMTT(60), <1>4 DEF UpdateAccount, Moved
<1>5. ASSUME DeleteAccount
      PROVE  CheckedHolds'
  BY SMTT(60), <1>5 DEF DeleteAccount, Moved
<1>6. ASSUME NEW w \in Workers, NEW r \in Requests, Begin(w, r)
      PROVE  CheckedHolds'
  BY SMTT(60), <1>6 DEF Begin
<1>7. ASSUME NEW w \in Workers, FetchToken(w)
      PROVE  CheckedHolds'
  BY SMTT(60), <1>7 DEF FetchToken
<1>8. ASSUME NEW w \in Workers, StoreToken(w)
      PROVE  CheckedHolds'
  BY SMTT(60), <1>8 DEF StoreToken, AfterToken, AfterOwner, StorePointer,
     StoreLength, Holders
<1>9. ASSUME NEW w \in Workers, GetUserGroups(w)
      PROVE  CheckedHolds'
  BY SMTT(60), <1>9 DEF GetUserGroups
<1>10. ASSUME NEW w \in Workers, ReadRow(w)
       PROVE  CheckedHolds'
  BY SMTT(60), <1>10 DEF ReadRow
<1>11. ASSUME NEW w \in Workers, ReadAccount(w)
       PROVE  CheckedHolds'
  BY SMTT(60), <1>11 DEF ReadAccount, AccountGone, RequesterAllowed, TargetAllowed,
     AfterOwner
<1>12. ASSUME NEW w \in Workers, GetWorkspace(w)
       PROVE  CheckedHolds'
  BY SMTT(60), <1>12 DEF GetWorkspace
<1>13. ASSUME NEW w \in Workers, GetGroup(w)
       PROVE  CheckedHolds'
  BY SMTT(60), <1>13 DEF GetGroup
<1>14. ASSUME NEW w \in Workers, GetUser(w)
       PROVE  CheckedHolds'
  BY SMTT(60), <1>14 DEF GetUser, UserFound
<1>15. ASSUME NEW w \in Workers, GetMembers(w)
       PROVE  CheckedHolds'
  BY SMTT(60), <1>15 DEF GetMembers
<1>16. ASSUME NEW w \in Workers, ChangeMembers(w)
       PROVE  CheckedHolds'
  BY SMTT(60), <1>16 DEF ChangeMembers, Found
<1>17. CASE UNCHANGED vars
  BY <1>17 DEF vars
<1> QED
  BY <1>1, <1>2, <1>3, <1>4, <1>5, <1>6, <1>7, <1>8, <1>9, <1>10, <1>11, <1>12,
     <1>13, <1>14, <1>15, <1>16, <1>17
     DEF Next, Environment, Step, ShowMembers, EditMembers, CommonStep
-----------------------------------------------------------------------------
(* The steps that end a request *)

\* A request ends with a step of its own.
LEMMA OwnStep == ASSUME TypeOK, [Next]_vars, NEW w \in Workers, Ends(w)
                 PROVE  Step(w)
<1>1. PICK v \in Workers : Step(v) \/ \E r \in Requests : Begin(v, r)
  <2>1. pc' # pc
    BY DEF TypeOK, Ends
  <2>2. ~Environment
    BY <2>1 DEF Environment, CreateWorkspace, Retire, RemoveGroup, UpdateAccount,
                DeleteAccount
  <2> QED
    BY <2>1, <2>2 DEF Next, vars
<1>2. PICK l \in Labels : pc' = [pc EXCEPT ![v] = l]
  <2> USE DEF Labels, Calls, Goto, Continue, Reply, Fail
  <2>1. CASE FetchToken(v) \/ StoreToken(v) \/ GetUserGroups(v) \/ ReadRow(v)
    BY <2>1 DEF FetchToken, StoreToken, AfterToken, AfterOwner, GetUserGroups, ReadRow
  <2>2. CASE ReadAccount(v) \/ GetWorkspace(v) \/ GetGroup(v) \/ GetUser(v)
    BY <2>2 DEF ReadAccount, AfterOwner, GetWorkspace, GetGroup, GetUser
  <2>3. CASE GetMembers(v) \/ ChangeMembers(v)
    BY <2>3 DEF GetMembers, ChangeMembers
  <2>4. CASE \E r \in Requests : Begin(v, r)
    BY <2>4 DEF Begin
  <2> QED
    BY <1>1, <2>1, <2>2, <2>3, <2>4 DEF Step, ShowMembers, EditMembers, CommonStep
<1>3. v = w
  BY <1>2 DEF TypeOK, Ends
<1>4. ~\E r \in Requests : Begin(w, r)
  BY DEF Ends, Begin
<1> QED
  BY <1>1, <1>3, <1>4

\* The one that ends at the last call is of one of two actions.
LEMMA LastStep == ASSUME NEW w \in Workers, Step(w), pc[w] = "member"
                  PROVE  GetMembers(w) \/ ChangeMembers(w)
  BY DEF Step, ShowMembers, EditMembers, CommonStep, FetchToken, StoreToken,
         GetUserGroups, ReadRow, ReadAccount,
         GetWorkspace, GetGroup, GetUser

\* So members change with ChangeMembers.
LEMMA ChangeStep == ASSUME TypeOK, [Next]_vars, NEW w \in Workers, ChangesNow(w)
                    PROVE  ChangeMembers(w)
  BY OwnStep, LastStep DEF ChangesNow, Ends, GetMembers, keycloak

\* The removal of a member is never that of the owner, unless the account changed
\* since the request began.
THEOREM OwnersStay == Spec => OwnerStays
<1>1. TInv /\ CheckedHolds /\ [Next]_vars =>
        [\A w \in Workers :
            ChangesNow(w) /\ w \notin moved /\ owner \in members
            => owner \in members']_vars
  <2> SUFFICES ASSUME TInv, CheckedHolds, [Next]_vars, NEW w \in Workers,
                      ChangesNow(w), w \notin moved, owner \in members
               PROVE  owner \in members'
    OBVIOUS
  <2>1. ChangeMembers(w)
    BY ChangeStep DEF TInv
  <2>2. Op(w) = "remove" => User(w) # owner
    BY DEF ChangesNow, CheckedHolds
  <2> QED
    BY <2>1, <2>2 DEF ChangeMembers, Changes
<1> QED
  BY <1>1, TypeInit, TypeStep, CheckedInit, CheckedStep, PTL DEF Spec, OwnerStays

\* Members are changed on behalf of administrators and of the present owner only,
\* unless the account changed since the request began.
THEOREM OnlyOwnersChange == Spec => OnlyOwnerChanges
<1>1. TInv /\ CheckedHolds /\ [Next]_vars =>
        [\A w \in Workers : ChangesNow(w) /\ w \notin moved =>
            Who(w) \in Admins \cup {owner}]_vars
  <2> SUFFICES ASSUME TInv, CheckedHolds, [Next]_vars, NEW w \in Workers,
                      ChangesNow(w), w \notin moved
               PROVE  Who(w) \in Admins \cup {owner}
    OBVIOUS
  <2>1. ChangeMembers(w)
    BY ChangeStep DEF TInv
  <2> QED
    BY <2>1 DEF ChangeMembers, ChangesNow, CheckedHolds
<1> QED
  BY <1>1, TypeInit, TypeStep, CheckedInit, CheckedStep, PTL
     DEF Spec, OnlyOwnerChanges

\* 204 and 200 are the truth, and a request without an answer is one whose account
\* changed.
THEOREM AnswersAreTrue == Spec => AnswerIsTrue
<1>1. TInv /\ CheckedHolds /\ [Next]_vars =>
        [\A w \in Workers : Ends(w) => Truth(w)]_vars
  <2> SUFFICES ASSUME TInv, CheckedHolds, [Next]_vars, NEW w \in Workers, Ends(w)
               PROVE  Truth(w)
    OBVIOUS
  <2>1. Step(w)
    BY OwnStep DEF TInv
  <2> USE DEF TInv, TypeOK, Reply, Fail, Panic, Ends, Truth
  <2>2. CASE FetchToken(w) \/ GetUserGroups(w) \/ ReadRow(w) \/ GetWorkspace(w)
    BY <2>2 DEF FetchToken, GetUserGroups, ReadRow, GetWorkspace, Continue, Goto
  <2>3. CASE GetGroup(w) \/ GetUser(w)
    BY <2>3 DEF GetGroup, GetUser, Continue, Goto
  <2>4. CASE StoreToken(w)
    BY <2>4 DEF StoreToken, AfterToken, AfterOwner, Goto
  <2>5. CASE ReadAccount(w)
    BY <2>5 DEF ReadAccount, AfterOwner, AccountGone, CheckedHolds, Continue, Goto
  <2>6. CASE GetMembers(w)
    BY <2>6 DEF GetMembers, Found
  <2>7. CASE ChangeMembers(w)
    BY <2>7 DEF ChangeMembers, Found, Changes
  <2> QED
    BY <2>1, <2>2, <2>3, <2>4, <2>5, <2>6, <2>7
       DEF Step, ShowMembers, EditMembers, CommonStep
<1> QED
  BY <1>1, TypeInit, TypeStep, CheckedInit, CheckedStep, PTL DEF Spec, AnswerIsTrue

-----------------------------------------------------------------------------
(* The members as a set *)

\* The account of a workspace has an owner while the row is there, and a group that
\* is not there has no members; a request asks for nothing it does not need to.
MapInv ==
    /\ row = "absent" <=> owner = None
    /\ group = 0 => members = {}
    /\ \A w \in Workers :
          /\ pc[w] = "idle" => req[w] = None
          /\ pc[w] \in {"groups", "ownerRow", "ownerAccount"} => Who(w) \notin Admins
          /\ pc[w] \in {"targetRow", "targetAccount"} => Op(w) = "remove"
          /\ pc[w] \in {"user", "member"} => gid[w] # 0

\* The initial state satisfies it.
LEMMA MapInit == Init => MapInv
  BY DEF Init, MapInv

\* Every step preserves it.
LEMMA MapStep == TInv /\ MapInv /\ [Next]_vars => MapInv'
<1> SUFFICES ASSUME TInv, MapInv, [Next]_vars PROVE MapInv'
  OBVIOUS
<1> USE MembershipAssumption
<1> USE DEF TInv, TypeOK, Labels, Calls, MapInv, Serving, AllRequests, Changes,
        Op, Who, User, Goto, Continue, Reply, Fail, database, keycloak, local
<1>1. ASSUME NEW u \in Registered, NEW o \in Registered, CreateWorkspace(u, o)
      PROVE  MapInv'
  BY SMTT(60), <1>1 DEF CreateWorkspace, Moved
<1>2. ASSUME Retire
      PROVE  MapInv'
  BY SMTT(60), <1>2 DEF Retire
<1>3. ASSUME RemoveGroup
      PROVE  MapInv'
  BY SMTT(60), <1>3 DEF RemoveGroup
<1>4. ASSUME NEW o \in Registered, UpdateAccount(o)
      PROVE  MapInv'
  BY SMTT(60), <1>4 DEF UpdateAccount, Moved
<1>5. ASSUME DeleteAccount
      PROVE  MapInv'
  BY SMTT(60), <1>5 DEF DeleteAccount, Moved
<1>6. ASSUME NEW w \in Workers, NEW r \in Requests, Begin(w, r)
      PROVE  MapInv'
  BY SMTT(60), <1>6 DEF Begin
<1>7. ASSUME NEW w \in Workers, FetchToken(w)
      PROVE  MapInv'
  BY SMTT(60), <1>7 DEF FetchToken
<1>8. ASSUME NEW w \in Workers, StoreToken(w)
      PROVE  MapInv'
  BY SMTT(60), <1>8 DEF StoreToken, AfterToken, AfterOwner, StorePointer,
     StoreLength, Holders
<1>9. ASSUME NEW w \in Workers, GetUserGroups(w)
      PROVE  MapInv'
  BY SMTT(60), <1>9 DEF GetUserGroups
<1>10. ASSUME NEW w \in Workers, ReadRow(w)
       PROVE  MapInv'
  BY SMTT(60), <1>10 DEF ReadRow
<1>11. ASSUME NEW w \in Workers, ReadAccount(w)
       PROVE  MapInv'
  BY SMTT(60), <1>11 DEF ReadAccount, AccountGone, RequesterAllowed, TargetAllowed,
     AfterOwner
<1>12. ASSUME NEW w \in Workers, GetWorkspace(w)
       PROVE  MapInv'
  BY SMTT(60), <1>12 DEF GetWorkspace
<1>13. ASSUME NEW w \in Workers, GetGroup(w)
       PROVE  MapInv'
  BY SMTT(60), <1>13 DEF GetGroup
<1>14. ASSUME NEW w \in Workers, GetUser(w)
       PROVE  MapInv'
  BY SMTT(60), <1>14 DEF GetUser, UserFound
<1>15. ASSUME NEW w \in Workers, GetMembers(w)
       PROVE  MapInv'
  BY SMTT(60), <1>15 DEF GetMembers
<1>16. ASSUME NEW w \in Workers, ChangeMembers(w)
       PROVE  MapInv'
  BY SMTT(60), <1>16 DEF ChangeMembers, Found
<1>17. CASE UNCHANGED vars
  BY <1>17 DEF vars
<1> QED
  BY <1>1, <1>2, <1>3, <1>4, <1>5, <1>6, <1>7, <1>8, <1>9, <1>10, <1>11, <1>12,
     <1>13, <1>14, <1>15, <1>16, <1>17
     DEF Next, Environment, Step, ShowMembers, EditMembers, CommonStep

\* Whether w is among those allowed, or cleared, depends on its own call and request.
IsAllowed(w) == pc[w] \in AfterTarget \cup {"targetRow", "targetAccount"} /\ Changes(w)
IsCleared(w) == pc[w] \in AfterTarget /\ Op(w) = "remove"

\* A call that does not end the request of w leaves the other ones as they were.
LEMMA GotoMaps ==
    ASSUME TInv, NEW w \in Workers, NEW l \in Labels, Goto(w, l), req' = req
    PROVE  /\ Allowed' = IF IsAllowed(w)' THEN Allowed \cup {w} ELSE Allowed \ {w}
           /\ Cleared' = IF IsCleared(w)' THEN Cleared \cup {w} ELSE Cleared \ {w}
  BY DEF TInv, TypeOK, Goto, Allowed, Cleared, IsAllowed, IsCleared, Changes, Op

\* A call after which as much is known of the request as before does not show.
LEMMA SameMaps ==
    ASSUME TInv, NEW w \in Workers, NEW l \in Labels, Goto(w, l), req' = req,
           UNCHANGED <<answer, group, owner, members>>,
           IsAllowed(w)' = IsAllowed(w), IsCleared(w)' = IsCleared(w)
    PROVE  UNCHANGED MemberSet!vars
<1>1. (w \in Allowed <=> IsAllowed(w)) /\ (w \in Cleared <=> IsCleared(w))
  BY DEF Allowed, Cleared, IsAllowed, IsCleared
<1>2. Allowed' = Allowed /\ Cleared' = Cleared
  BY <1>1, GotoMaps
<1> QED
  BY <1>2 DEF MemberSet!vars

\* The same, from the call the request was at and the one it goes on to: neither
\* comes after a check that the other comes before.
LEMMA PassMaps ==
    ASSUME TInv, NEW w \in Workers, NEW l \in Labels, Goto(w, l),
           UNCHANGED <<req, answer, group, owner, members>>,
           Changes(w) => /\ pc[w] \in AfterTarget <=> l \in AfterTarget
                         /\ pc[w] \in {"targetRow", "targetAccount"}
                               <=> l \in {"targetRow", "targetAccount"}
    PROVE  UNCHANGED MemberSet!vars
<1>1. pc'[w] = l /\ Changes(w)' = Changes(w) /\ Op(w)' = Op(w)
  BY DEF Goto, TInv, TypeOK, Changes, Op
<1>2. Op(w) = "remove" => Changes(w)
  BY DEF Changes
<1>3. IsAllowed(w)' = IsAllowed(w)
  BY <1>1 DEF IsAllowed
<1>4. IsCleared(w)' = IsCleared(w)
  BY <1>1, <1>2 DEF IsCleared
<1> QED
  BY <1>3, <1>4, SameMaps

\* The end of a request is an answer.
LEMMA ReplyMaps ==
    ASSUME TInv, NEW w \in Workers, pc[w] # "idle", NEW code,
           Reply(w, code), UNCHANGED <<group, owner>>,
           \/ code \in {204, 500} /\ MemberSet!Made(w)
           \/ code = 200 /\ MemberSet!Shown(w) /\ UNCHANGED members
           \/ code = 403 /\ MemberSet!Refused(w) /\ UNCHANGED members
           \/ code \in {404, 500, Panic} /\ UNCHANGED members
    PROVE  MemberSet!Answer(w)
<1>1. req[w] # None
  BY MembershipAssumption DEF TInv, Serving
<1>2. Allowed' = Allowed \ {w} /\ Cleared' = Cleared \ {w}
  BY DEF TInv, TypeOK, Reply, Goto, Allowed, Cleared, AfterTarget, Changes, Op
<1>3. req' = [req EXCEPT ![w] = None] /\ answer' = [answer EXCEPT ![w] = code]
  BY DEF Reply
<1>4. answer'[w] = code /\ answer' = [answer EXCEPT ![w] = answer'[w]]
  BY <1>3 DEF TInv, TypeOK
<1>5. UNCHANGED <<group # 0, owner>>
  OBVIOUS
<1> QED
  BY <1>1, <1>2, <1>3, <1>4, <1>5 DEF MemberSet!Answer

\* A call that fails is answered 404 or 500, or not at all, and changes nothing.
LEMMA FailMaps ==
    ASSUME TInv, NEW w \in Workers, pc[w] # "idle", NEW code \in {404, 500, Panic},
           Reply(w, code), UNCHANGED <<group, owner, members>>
    PROVE  MemberSet!Answer(w)
  BY ReplyMaps

\* What happens beside the requests.
LEMMA EnvironmentMaps ==
    ASSUME TInv, MapInv, Environment
    PROVE  [MemberSet!Next]_(MemberSet!vars)
<1>1. UNCHANGED <<pc, req, answer>>
  BY DEF Environment, CreateWorkspace, Retire, RemoveGroup, UpdateAccount,
     DeleteAccount, local
<1>2. Allowed' = Allowed /\ Cleared' = Cleared
  BY <1>1 DEF Allowed, Cleared, Changes, Op
<1>3. ASSUME NEW u \in Registered, NEW o \in Registered, CreateWorkspace(u, o)
      PROVE  MemberSet!Create(u, o)
  <2>1. group' # 0
    BY <1>3 DEF CreateWorkspace, TInv, TypeOK
  <2> QED
    BY <1>1, <1>2, <1>3, <2>1 DEF CreateWorkspace, MapInv, MemberSet!Create
<1>4. CASE Retire
  BY <1>1, <1>2, <1>4 DEF Retire, keycloak, MemberSet!vars
<1>5. CASE RemoveGroup
  <2>1. MemberSet!Close
    BY <1>1, <1>2, <1>5 DEF RemoveGroup, database, MemberSet!Close
  <2> QED
    BY <2>1 DEF MemberSet!Next
<1>6. ASSUME NEW o \in Registered \cup {None}, owner # None, owner' = o,
             UNCHANGED <<group, members>>
      PROVE  MemberSet!Transfer(o) \/ UNCHANGED MemberSet!vars
  BY <1>1, <1>2, <1>6 DEF MemberSet!Transfer, MemberSet!vars
<1>7. ASSUME NEW o \in Registered, UpdateAccount(o)
      PROVE  MemberSet!Transfer(o) \/ UNCHANGED MemberSet!vars
  BY <1>6, <1>7 DEF UpdateAccount, MapInv, keycloak
<1>8. CASE DeleteAccount
  <2>1. MemberSet!Transfer(None) \/ UNCHANGED MemberSet!vars
    BY <1>6, <1>8 DEF DeleteAccount, MapInv, keycloak
  <2> QED
    BY <2>1 DEF MemberSet!Next
<1> QED
  BY <1>3, <1>4, <1>5, <1>7, <1>8 DEF Environment, MemberSet!Next

\* What a step of a request does: nothing that shows, or the requester or the target
\* is looked at, or the request is answered.
Shows(w) == \/ MemberSet!Answer(w) \/ MemberSet!Allow(w) \/ MemberSet!Clear(w)
            \/ UNCHANGED MemberSet!vars

\* The token, the groups, the workspace, its group and the user.
LEMMA CommonMaps ==
    ASSUME TInv, MapInv, NEW w \in Workers, CommonStep(w)
    PROVE  Shows(w)
<1> USE DEF TInv, TypeOK, Labels, Calls, Shows
<1>1. CASE FetchToken(w)
  <2>1. CASE Fail(w, 500)
    BY <1>1, <2>1, FailMaps DEF FetchToken, Fail, database, keycloak
  <2>2. CASE Continue(w, "store")
    <3>1. pc[w] = "token" /\ "store" \in Labels
      BY <1>1 DEF FetchToken
    <3>2. Goto(w, "store") /\ UNCHANGED <<req, answer, group, owner, members>>
      BY <1>1, <2>2 DEF FetchToken, Continue, local, database, keycloak
    <3> QED
      BY <3>1, <3>2, PassMaps DEF AfterTarget
  <2> QED
    BY <1>1, <2>1, <2>2 DEF FetchToken
\* The token of an administrator is all there is to ask for.
<1>2. CASE StoreToken(w)
  <2>1. /\ UNCHANGED <<req, answer, group, owner, members>>
        /\ pc[w] \in {"store", "storeLength", "storePointer"}
    BY <1>2 DEF StoreToken, local, database, keycloak
  <2>2. PICK l \in {"storeLength", "storePointer", AfterToken(w)} : Goto(w, l)
    BY <1>2 DEF StoreToken
  <2>3. l \in Labels
    BY <2>2 DEF AfterToken, AfterOwner
  <2>4. w \notin Allowed /\ w \notin Cleared
    BY <2>1 DEF Allowed, Cleared, AfterTarget
  <2>5. CASE Changes(w) /\ Who(w) \in Admins /\ l = AfterToken(w)
    <3>1. pc'[w] = AfterOwner(w) /\ req' = req
      BY <2>1, <2>2, <2>5 DEF Goto, AfterToken
    <3>2. Allowed' = Allowed \cup {w}
      BY <2>1, <2>2, <2>3, <2>5, <3>1, GotoMaps
         DEF IsAllowed, AfterOwner, AfterTarget, Changes, Op
    <3>3. Cleared' = Cleared
      <4>1. ~IsCleared(w)'
        BY <3>1 DEF IsCleared, AfterOwner, AfterTarget, Op
      <4>2. Cleared' = Cleared \ {w}
        BY <2>1, <2>2, <2>3, <4>1, GotoMaps
      <4> QED
        BY <2>4, <4>2
    <3>4. req[w] # None
      BY <2>1, MembershipAssumption DEF Serving
    <3> QED
      BY <2>1, <2>5, <3>2, <3>3, <3>4
         DEF MemberSet!Allow, MemberSet!Entitled, Changes, Op, Who
  <2>6. CASE ~(Changes(w) /\ Who(w) \in Admins /\ l = AfterToken(w))
    <3>1. IsAllowed(w)' = IsAllowed(w)
      BY <2>1, <2>2, <2>3, <2>6
         DEF IsAllowed, AfterToken, AfterOwner, AfterTarget, Changes, Op, Goto
    <3>2. IsCleared(w)' = IsCleared(w)
      BY <2>1, <2>2, <2>3, <2>6
         DEF IsCleared, AfterToken, AfterOwner, AfterTarget, Changes, Op, Goto
    <3> QED
      BY <2>1, <2>2, <2>3, <3>1, <3>2, SameMaps
  <2> QED
    BY <2>5, <2>6
<1>3. CASE GetUserGroups(w)
  <2> USE <1>3 DEF GetUserGroups, database, keycloak
  <2>1. CASE Fail(w, 500)
    BY <2>1, FailMaps DEF Fail
  <2>2. CASE Who(w) \notin members /\ Reply(w, 403)
    BY <2>2, ReplyMaps DEF MemberSet!Refused, Who
  <2>3. CASE Continue(w, IF Changes(w) THEN "ownerRow" ELSE "workspace")
    <3>1. /\ pc[w] = "groups"
          /\ (IF Changes(w) THEN "ownerRow" ELSE "workspace") \in Labels
      OBVIOUS
    <3>2. UNCHANGED <<req, answer, group, owner, members>>
      BY <2>3 DEF Continue, local
    <3> QED
      BY <2>3, <3>1, <3>2, PassMaps DEF AfterTarget, Continue
  <2> QED
    BY <2>1, <2>2, <2>3
<1>4. CASE GetWorkspace(w)
  <2> USE <1>4 DEF GetWorkspace, database, keycloak
  <2>1. CASE Reply(w, 500)
    BY <2>1, FailMaps
  <2>2. CASE Continue(w, "group")
    <3>1. pc[w] = "workspace" /\ "group" \in Labels
      OBVIOUS
    <3>2. Goto(w, "group") /\ UNCHANGED <<req, answer, group, owner, members>>
      BY <2>2 DEF Continue, local
    <3> QED
      BY <3>1, <3>2, PassMaps DEF AfterTarget
  <2> QED
    BY <2>1, <2>2 DEF Fail
<1>5. CASE GetGroup(w)
  <2> USE <1>5 DEF GetGroup, database, keycloak
  <2>1. CASE Reply(w, 500)
    BY <2>1, FailMaps
  <2>2. CASE /\ Goto(w, IF Op(w) = "list" THEN "member" ELSE "user")
             /\ UNCHANGED <<req, answer>>
    <3>1. /\ pc[w] = "group"
          /\ (IF Op(w) = "list" THEN "member" ELSE "user") \in Labels
      OBVIOUS
    <3>2. UNCHANGED <<group, owner, members>>
      OBVIOUS
    <3> QED
      BY <2>2, <3>1, <3>2, PassMaps DEF AfterTarget
  <2> QED
    BY <2>1, <2>2 DEF Fail
<1>6. CASE GetUser(w)
  <2> USE <1>6 DEF GetUser, database, keycloak
  <2>1. CASE Reply(w, 404)
    BY <2>1, FailMaps
  <2>2. CASE Continue(w, "member")
    <3>1. pc[w] = "user" /\ "member" \in Labels
      OBVIOUS
    <3>2. Goto(w, "member") /\ UNCHANGED <<req, answer, group, owner, members>>
      BY <2>2 DEF Continue, local
    <3> QED
      BY <3>1, <3>2, PassMaps DEF AfterTarget
  <2> QED
    BY <2>1, <2>2 DEF Fail
<1> QED
  BY <1>1, <1>2, <1>3, <1>4, <1>5, <1>6 DEF CommonStep

\* The checks of ownership, the second of which only removals make.
LEMMA OwnerMaps ==
    ASSUME TInv, MapInv, NEW w \in Workers, ReadRow(w) \/ ReadAccount(w), Changes(w)
    PROVE  Shows(w)
<1> USE DEF TInv, TypeOK, Labels, Calls, Shows
<1>1. CASE ReadRow(w)
  <2> USE <1>1 DEF ReadRow, database, keycloak
  <2>1. CASE Reply(w, 500)
    BY <2>1, FailMaps
  <2>2. CASE /\ Goto(w, IF pc[w] = "ownerRow" THEN "ownerAccount" ELSE "targetAccount")
             /\ UNCHANGED <<req, answer>>
    <3>1. /\ pc[w] \in {"ownerRow", "targetRow"}
          /\ (IF pc[w] = "ownerRow" THEN "ownerAccount" ELSE "targetAccount") \in Labels
      OBVIOUS
    <3>2. UNCHANGED <<group, owner, members>>
      OBVIOUS
    <3> QED
      BY <2>2, <3>1, <3>2, PassMaps DEF AfterTarget
  <2> QED
    BY <2>1, <2>2 DEF Fail
<1>2. CASE ReadAccount(w)
  <2>1. /\ UNCHANGED <<group, owner, members>>
        /\ pc[w] \in {"ownerAccount", "targetAccount"}
    BY <1>2 DEF ReadAccount, database, keycloak
  <2>2. req[w] # None
    BY <2>1, MembershipAssumption DEF Serving
  <2>3. CASE Reply(w, 500) \/ Reply(w, Panic)
    BY <2>1, <2>3, FailMaps
  <2>4. CASE pc[w] = "ownerAccount" /\ ~RequesterAllowed(w) /\ Reply(w, 403)
    <3>1. MemberSet!Refused(w)
      BY <2>4 DEF MapInv, MemberSet!Refused, MemberSet!Entitled, RequesterAllowed, Who
    <3> QED
      BY <2>1, <2>4, <3>1, ReplyMaps
  <2>5. CASE pc[w] = "targetAccount" /\ ~TargetAllowed(w) /\ Reply(w, 403)
    <3>1. MemberSet!Refused(w)
      BY <2>5 DEF MapInv, MemberSet!Refused, MemberSet!OfOwner, TargetAllowed, User, Op
    <3> QED
      BY <2>1, <2>5, <3>1, ReplyMaps
  <2>6. CASE pc[w] = "ownerAccount" /\ RequesterAllowed(w) /\ Continue(w, AfterOwner(w))
    <3>1. /\ AfterOwner(w) \in Labels /\ Goto(w, AfterOwner(w))
          /\ req' = req /\ answer' = answer
      BY <2>6 DEF Continue, AfterOwner, local
    <3>2. w \notin Cleared /\ pc'[w] = AfterOwner(w)
      BY <2>6, <3>1 DEF Cleared, AfterTarget, Goto
    <3>3. Allowed' = Allowed \cup {w}
      BY <3>1, <3>2, GotoMaps DEF IsAllowed, AfterOwner, AfterTarget, Changes, Op
    <3>4. Cleared' = Cleared
      <4>1. ~IsCleared(w)'
        BY <3>1, <3>2 DEF IsCleared, AfterOwner, AfterTarget, Op
      <4>2. Cleared' = Cleared \ {w}
        BY <3>1, <4>1, GotoMaps
      <4> QED
        BY <3>2, <4>2
    <3> QED
      BY <2>1, <2>2, <2>6, <3>1, <3>3, <3>4
         DEF MemberSet!Allow, MemberSet!Entitled, RequesterAllowed, Changes, Op, Who
  <2>7. CASE pc[w] = "targetAccount" /\ TargetAllowed(w) /\ Continue(w, "workspace")
    <3>1. Goto(w, "workspace") /\ req' = req /\ answer' = answer /\ pc'[w] = "workspace"
      BY <2>7 DEF Continue, Goto, local
    <3>2. w \in Allowed
      BY <2>7 DEF Allowed
    <3>3. Allowed' = Allowed
      <4>1. IsAllowed(w)'
        BY <3>1 DEF IsAllowed, AfterTarget, Changes, Op
      <4>2. Allowed' = Allowed \cup {w}
        BY <3>1, <4>1, GotoMaps
      <4> QED
        BY <3>2, <4>2
    <3>4. Cleared' = Cleared \cup {w}
      BY <2>7, <3>1, GotoMaps DEF IsCleared, AfterTarget, MapInv, Op
    <3> QED
      BY <2>1, <2>7, <3>1, <3>2, <3>3, <3>4
         DEF MemberSet!Clear, MemberSet!OfOwner, TargetAllowed, User
  <2> QED
    BY <1>2, <2>3, <2>4, <2>5, <2>6, <2>7 DEF ReadAccount, Fail
<1> QED
  BY <1>1, <1>2

\* The last call reads the members or changes them, and is answered at once.
LEMMA MemberMaps ==
    ASSUME TInv, MapInv, NEW w \in Workers, GetMembers(w) \/ ChangeMembers(w)
    PROVE  Shows(w)
<1> USE DEF TInv, TypeOK, Shows, database, keycloak
<1>1. pc[w] = "member" /\ gid[w] # 0 /\ req[w] \in AllRequests
  BY MembershipAssumption DEF MapInv, GetMembers, ChangeMembers, Serving
<1>2. CASE GetMembers(w)
  <2>1. CASE Reply(w, 500)
    BY <1>1, <1>2, <2>1, FailMaps DEF GetMembers
  <2>2. CASE Found(w) /\ (Op(w) = "get" => User(w) \in members) /\ Reply(w, 200)
    <3>1. MemberSet!Shown(w)
      BY <1>1, <1>2, <2>2 DEF GetMembers, Found, MemberSet!Shown, Changes, Op, User,
         AllRequests
    <3> QED
      BY <1>1, <1>2, <2>2, <3>1, ReplyMaps DEF GetMembers
  <2> QED
    BY <1>2, <2>1, <2>2 DEF GetMembers, Fail
<1>3. CASE ChangeMembers(w)
  <2>1. CASE Reply(w, 500) /\ UNCHANGED members
    BY <1>1, <1>3, <2>1, FailMaps DEF ChangeMembers
  <2>2. CASE /\ Found(w)
             /\ members' = IF Op(w) = "add" THEN members \cup {User(w)}
                                            ELSE members \ {User(w)}
             /\ Reply(w, 204) \/ Reply(w, 500)
    <3>1. w \in Allowed /\ (Op(w) = "remove" => w \in Cleared)
      BY <1>1, <1>3 DEF ChangeMembers, Allowed, Cleared, AfterTarget
    <3>2. Op(w) \in {"add", "remove"} /\ User(w) \in Registered
      BY <1>1, <1>3 DEF ChangeMembers, Serving, Changes
    <3>3. MemberSet!Made(w)
      BY <1>1, <2>2, <3>1, <3>2 DEF MemberSet!Made, Found, Op, User
    <3> QED
      BY <1>1, <1>3, <2>2, <3>3, ReplyMaps DEF ChangeMembers
  <2> QED
    BY <1>3, <2>1, <2>2 DEF ChangeMembers, Fail
<1> QED
  BY <1>2, <1>3

\* The Membership API is a set of members, read and changed at the moment of each
\* answer, with every change allowed and every removal cleared since the request was
\* made (users.go:135-284), for any number of requests and whatever fails.
THEOREM Refinement == Spec => ImplementsMemberSet
<1>1. Init => MemberSet!Init
  BY DEF Init, MemberSet!Init, Allowed, Cleared, AfterTarget
<1>2. TInv /\ MapInv /\ [Next]_vars => [MemberSet!Next]_(MemberSet!vars)
  <2> SUFFICES ASSUME TInv, MapInv, [Next]_vars
               PROVE  [MemberSet!Next]_(MemberSet!vars)
    OBVIOUS
  <2>1. CASE Environment
    BY <2>1, EnvironmentMaps
  <2>2. ASSUME NEW w \in Workers, Step(w)
        PROVE  [MemberSet!Next]_(MemberSet!vars)
    <3>1. Shows(w)
      BY <2>2, CommonMaps, OwnerMaps, MemberMaps DEF Step, ShowMembers, EditMembers
    <3> QED
      BY <3>1 DEF Shows, MemberSet!Next
  <2>3. ASSUME NEW w \in Workers, NEW r \in Requests, Begin(w, r)
        PROVE  MemberSet!Ask(w, r)
    <3>1. Allowed' = Allowed /\ Cleared' = Cleared
      BY <2>3 DEF Begin, Goto, Allowed, Cleared, AfterTarget, Changes, Op, TInv, TypeOK
    <3> QED
      BY <2>3, <3>1 DEF Begin, MapInv, database, keycloak, MemberSet!Ask
  <2>4. CASE UNCHANGED vars
    BY <2>4 DEF vars, MemberSet!vars, Allowed, Cleared, Changes, Op
  <2> QED
    BY <2>1, <2>2, <2>3, <2>4 DEF Next, MemberSet!Next, MemberSet!Ask
<1> QED
  BY <1>1, <1>2, TypeInit, TypeStep, MapInit, MapStep, PTL
     DEF Spec, ImplementsMemberSet, MemberSet!Spec
=============================================================================
