----------------------- MODULE AccountApproval_proofs -----------------------
(***************************************************************************)
(* Theorems about AccountApproval, for every set of accounts and any       *)
(* number of handlers and failures.                                        *)
(***************************************************************************)
EXTENDS AccountApproval, TLAPS

-----------------------------------------------------------------------------
(* Clicks at the same time *)

\* How far the creation of an account has come.
CreationOrder ==
    \A a \in Accounts :
        /\ creating[a] = "account" => status[a] = "absent" /\ told[a] = None
        /\ creating[a] = "token" => status[a] \in {"Pending", "deleted"}
        /\ creating[a] \in {"account", "token"} => token[a] = "none"
        /\ a \in asked => creating[a] = "done"

\* A request decides only on an account whose creation has ended.
DecidesOnAsked == \A h \in Handlers : pc[h] # "idle" => creating[subject[h]] = "done"

TInv == TypeOK /\ CreationOrder /\ DecidesOnAsked /\ TokenMeansPending

\* The initial state satisfies the invariant.
LEMMA TypeInit == Init => TInv
  BY ApprovalAssumption
     DEF Init, TInv, TypeOK, CreationOrder, DecidesOnAsked, TokenMeansPending,
         Statuses, Decisions, Links

\* Every step preserves it.
LEMMA TypeStep == TInv /\ [Next]_vars => TInv'
<1> SUFFICES ASSUME TInv, [Next]_vars PROVE TInv'
  OBVIOUS
<1> USE ApprovalAssumption
<1> USE DEF TInv, TypeOK, CreationOrder, DecidesOnAsked, TokenMeansPending, Statuses,
        Decisions, Links, Fault, NoFault
<1>1. ASSUME NEW a \in Accounts, CreateAccount(a)
      PROVE  TInv'
  BY <1>1 DEF CreateAccount, Proceed, deciding
<1>2. ASSUME NEW a \in Accounts, CreateAccountApprovalToken(a)
      PROVE  TInv'
  BY <1>2 DEF CreateAccountApprovalToken, Proceed, deciding
<1>3. ASSUME NEW a \in Accounts, SendAccountRequestEmail(a)
      PROVE  TInv'
  BY <1>3 DEF SendAccountRequestEmail, Proceed, deciding
<1>4. ASSUME NEW h \in Handlers, NEW a \in Accounts, NEW l \in Links, Click(h, a, l)
      PROVE  TInv'
  BY <1>4 DEF Click, Goto, account
<1>5. ASSUME NEW h \in Handlers, GetAccount(h)
      PROVE  TInv'
  BY <1>5 DEF GetAccount, Goto, account
<1>6. ASSUME NEW h \in Handlers, GetUser(h)
      PROVE  TInv'
  BY <1>6 DEF GetUser, Goto, account
\* Whatever the status becomes, the token of the account is gone.
<1>7. ASSUME NEW h \in Handlers, UpdateAccountStatus(h)
      PROVE  TInv'
  BY <1>7 DEF UpdateAccountStatus, Goto, account, SetStatus, DeleteToken, StatusOf
<1>8. ASSUME NEW h \in Handlers, SendDecision(h)
      PROVE  TInv'
  BY <1>8 DEF SendDecision, MailText, StatusOf, Goto, account
<1>9. ASSUME NEW a \in Accounts, Expire(a)
      PROVE  TInv'
  BY <1>9 DEF Expire, account, deciding
<1>10. ASSUME NEW a \in Accounts, DeleteAccount(a)
       PROVE  TInv'
  BY <1>10 DEF DeleteAccount, account, deciding
<1>11. CASE UNCHANGED vars
  BY <1>11 DEF vars
<1> QED
  BY <1>1, <1>2, <1>3, <1>4, <1>5, <1>6, <1>7, <1>8, <1>9, <1>10, <1>11
     DEF Next, Create, Decide

\* The invariant always holds.
LEMMA TypeInvariant == Spec => []TInv
  BY TypeInit, TypeStep, PTL DEF Spec

\* The state is well formed.
THEOREM TypeCorrect == Spec => []TypeOK
<1>1. TInv => TypeOK
  BY DEF TInv
<1> QED
  BY <1>1, TypeInvariant, PTL

\* An account that was decided on has no token left, with any number of requests
\* that decide at a time.
THEOREM NoTokenLeft == Spec => []TokenMeansPending
<1>1. TInv => TokenMeansPending
  BY DEF TInv
<1> QED
  BY <1>1, TypeInvariant, PTL

-----------------------------------------------------------------------------
(* Clicks one after the other *)

\* Two handlers decide on an account at a time only if it was crossed.
CrossedIsKnown ==
    \A g, h \in Handlers :
        pc[g] # "idle" /\ pc[h] # "idle" /\ subject[g] = subject[h]
        => g = h \/ subject[h] \in crossed

\* What the handler goes by is still so when it acts on it.
DecidesOnPending ==
    \A h \in Handlers : subject[h] \notin crossed =>
        /\ pc[h] \in {"account", "user", "update"} =>
              status[subject[h]] \in {"Pending", "deleted"}
        /\ pc[h] = "mail" => status[subject[h]] \in {StatusOf(link[h]), "deleted"}

OInv == TInv /\ CrossedIsKnown /\ DecidesOnPending /\ ToldIsTrue

\* The initial state satisfies the invariant.
LEMMA OneInit == Init => OInv
  BY TypeInit DEF Init, OInv, CrossedIsKnown, DecidesOnPending, ToldIsTrue

\* Every step preserves it.
LEMMA OneStep == OInv /\ [Next]_vars => OInv'
<1> SUFFICES ASSUME OInv, [Next]_vars
             PROVE  CrossedIsKnown' /\ DecidesOnPending' /\ ToldIsTrue'
  BY TypeStep DEF OInv
<1> DEFINE Goal == CrossedIsKnown' /\ DecidesOnPending' /\ ToldIsTrue'
<1> USE ApprovalAssumption
<1> USE DEF OInv, TInv, TypeOK, CrossedIsKnown, DecidesOnPending, ToldIsTrue, Statuses,
        Decisions, Links, StatusOf
\* No handler decides on an account that is only being created.
<1>1. ASSUME NEW a \in Accounts, CreateAccount(a)
      PROVE  Goal
  BY <1>1 DEF CreateAccount, Proceed, deciding, CreationOrder, DecidesOnAsked
<1>2. ASSUME NEW a \in Accounts, CreateAccountApprovalToken(a)
      PROVE  Goal
  BY <1>2 DEF CreateAccountApprovalToken, deciding
<1>3. ASSUME NEW a \in Accounts, SendAccountRequestEmail(a)
      PROVE  Goal
  BY <1>3 DEF SendAccountRequestEmail, deciding
\* A valid token means that the account is pending.
<1>4. ASSUME NEW h \in Handlers, NEW a \in Accounts, NEW l \in Links, Click(h, a, l)
      PROVE  Goal
  BY <1>4 DEF Click, Goto, account, TokenMeansPending
<1>5. ASSUME NEW h \in Handlers, GetAccount(h)
      PROVE  Goal
  BY <1>5 DEF GetAccount, Goto, account
<1>6. ASSUME NEW h \in Handlers, GetUser(h)
      PROVE  Goal
  BY <1>6 DEF GetUser, Goto, account
\* The account is pending or gone, so its owner was told nothing yet.
<1>7. ASSUME NEW h \in Handlers, UpdateAccountStatus(h)
      PROVE  Goal
  BY <1>7 DEF UpdateAccountStatus, Goto, account, SetStatus
<1>8. ASSUME NEW h \in Handlers, SendDecision(h)
      PROVE  Goal
  BY <1>8 DEF SendDecision, MailText, Goto, account
<1>9. ASSUME NEW a \in Accounts, Expire(a)
      PROVE  Goal
  BY <1>9 DEF Expire, account, deciding
<1>10. ASSUME NEW a \in Accounts, DeleteAccount(a)
       PROVE  Goal
  BY <1>10 DEF DeleteAccount, account, deciding
<1>11. CASE UNCHANGED vars
  BY <1>11 DEF vars
<1> QED
  BY <1>1, <1>2, <1>3, <1>4, <1>5, <1>6, <1>7, <1>8, <1>9, <1>10, <1>11
     DEF Next, Create, Decide

\* The owner of an account is told the truth, unless the account was crossed.
THEOREM OwnerToldTruth == Spec => []ToldIsTrue
<1>1. OInv => ToldIsTrue
  BY DEF OInv
<1> QED
  BY <1>1, OneInit, OneStep, PTL DEF Spec

\* No decision is replaced, unless the account was crossed.
THEOREM OneTimeUse == Spec => DecisionStands
<1>1. OInv /\ [Next]_vars =>
        [\A a \in Accounts \ crossed : status[a] \in Decisions =>
                                          status'[a] \in {status[a], "deleted"}]_vars
  <2> SUFFICES ASSUME OInv, Next, NEW a \in Accounts \ crossed, status[a] \in Decisions
               PROVE  status'[a] \in {status[a], "deleted"}
    OBVIOUS
  <2> USE DEF OInv, TInv, TypeOK
  <2>1. ASSUME NEW h \in Handlers, UpdateAccountStatus(h)
        PROVE  status'[a] \in {status[a], "deleted"}
    BY <2>1 DEF UpdateAccountStatus, SetStatus, DecidesOnPending, Decisions
  <2>2. ASSUME NEW b \in Accounts, CreateAccount(b)
        PROVE  status'[a] \in {status[a], "deleted"}
    BY <2>2 DEF CreateAccount, CreationOrder, Decisions
  <2>3. ASSUME NEW b \in Accounts, DeleteAccount(b)
        PROVE  status'[a] \in {status[a], "deleted"}
    BY <2>3 DEF DeleteAccount
  <2> QED
    BY <2>1, <2>2, <2>3
       DEF Next, Create, Decide, CreateAccountApprovalToken, SendAccountRequestEmail,
           Click, GetAccount, GetUser, SendDecision, Expire
<1> QED
  BY <1>1, OneInit, OneStep, PTL DEF Spec, DecisionStands

-----------------------------------------------------------------------------
(* Votes *)

\* A ballot is not mistaken for none.
LEMMA BallotIsCast ==
    ASSUME TInv, NEW h \in Handlers
    PROVE  /\ Ballot(h) \in [account : Accounts, decision : Decisions]
           /\ Ballot(h) # None
           /\ pc[h] = "idle" <=> Ballots[h] = None
           /\ pc[h] # "idle" => Ballots[h] = Ballot(h)
  BY ApprovalAssumption DEF TInv, TypeOK, Ballot, Ballots, StatusOf, Links, Decisions

\* A handler that goes on with a request keeps its ballot.
LEMMA GoesOn ==
    ASSUME TInv, NEW h \in Handlers, pc[h] # "idle",
           NEW l \in {"account", "user", "update", "mail"}, Goto(h, l),
           UNCHANGED <<subject, link>>
    PROVE  /\ Ballots' = Ballots
           /\ Mailing' = IF l = "mail" THEN Mailing \cup {h} ELSE Mailing \ {h}
  BY DEF TInv, TypeOK, Goto, Ballots, Ballot, Mailing

\* One that ends has none.
LEMMA Leaves ==
    ASSUME TInv, NEW h \in Handlers, Goto(h, "idle"), UNCHANGED <<subject, link>>
    PROVE  Decision!Leave(h)
<1>1. Ballots' = [Ballots EXCEPT ![h] = None]
  BY DEF TInv, TypeOK, Goto, Ballots, Ballot
<1>2. Mailing' = Mailing \ {h}
  BY DEF TInv, TypeOK, Goto, Mailing
<1> QED
  BY <1>1, <1>2 DEF Decision!Leave

\* What is done for an account beside the votes.
LEMMA AccountMaps ==
    ASSUME TInv, NEW a \in Accounts, Create(a) \/ Expire(a) \/ DeleteAccount(a)
    PROVE  [Decision!Next]_(Decision!vars)
<1>1. UNCHANGED <<pc, subject, link, told>>
  BY DEF Create, CreateAccount, CreateAccountApprovalToken, SendAccountRequestEmail,
     Expire, DeleteAccount, deciding
<1>2. Ballots' = Ballots /\ Mailing' = Mailing
  BY <1>1 DEF Ballots, Ballot, Mailing
<1>3. CASE CreateAccount(a)
  <2>1. Decision!Request(a) \/ UNCHANGED Decision!vars
    BY <1>1, <1>2, <1>3
       DEF CreateAccount, TInv, CreationOrder, Decision!Request, Decision!vars
  <2> QED
    BY <2>1 DEF Decision!Next
<1>4. CASE DeleteAccount(a)
  <2>1. Decision!Delete(a)
    BY <1>1, <1>2, <1>4 DEF DeleteAccount, Decision!Delete
  <2> QED
    BY <2>1 DEF Decision!Next
<1>5. CASE UNCHANGED status
  BY <1>1, <1>2, <1>5 DEF Decision!vars
<1> QED
  BY <1>3, <1>4, <1>5
     DEF Create, CreateAccountApprovalToken, SendAccountRequestEmail, Expire

\* A click on a link is a vote: its token is valid, so the account is pending.
LEMMA ClickMaps ==
    ASSUME TInv, NEW h \in Handlers, NEW a \in Accounts, NEW l \in Links, Click(h, a, l)
    PROVE  Decision!Vote(h, a, StatusOf(l))
<1>1. status[a] = "Pending"
  BY DEF Click, TInv, TokenMeansPending
<1>2. Ballots[h] = None
  BY BallotIsCast DEF Click
<1>3. Ballots' = [Ballots EXCEPT ![h] = [account |-> a, decision |-> StatusOf(l)]]
  BY DEF Click, Goto, TInv, TypeOK, Ballots, Ballot
<1>4. Mailing' = Mailing
  BY DEF Click, Goto, TInv, TypeOK, Mailing
<1> QED
  BY <1>1, <1>2, <1>3, <1>4 DEF Click, Decision!Vote

\* The other steps of a request carry its vote on, count it, tell it or drop it.
LEMMA DecideMaps ==
    ASSUME TInv, NEW h \in Handlers, Decide(h)
    PROVE  \/ Decision!Abstain(h) \/ Decision!Count(h) \/ Decision!Tell(h)
           \/ UNCHANGED Decision!vars
<1>1. pc[h] # "idle" /\ UNCHANGED <<subject, link>>
  BY DEF Decide, GetAccount, GetUser, UpdateAccountStatus, SendDecision
<1>2. Ballots[h] = Ballot(h) /\ Ballots[h] # None
  BY <1>1, BallotIsCast
<1>3. (h \in Mailing) <=> (pc[h] = "mail")
  BY DEF Mailing
<1>4. ASSUME Goto(h, "idle"), UNCHANGED <<status, told>>
      PROVE  Decision!Abstain(h)
  BY <1>1, <1>2, <1>4, Leaves DEF Decision!Abstain
<1>5. ASSUME NEW l \in {"user", "update"}, Goto(h, l), UNCHANGED <<status, told>>,
             pc[h] # "mail"
      PROVE  UNCHANGED Decision!vars
  BY <1>1, <1>3, <1>5, GoesOn DEF Decision!vars
<1>6. CASE GetAccount(h) \/ GetUser(h)
  BY <1>4, <1>5, <1>6 DEF GetAccount, GetUser
<1>7. CASE UpdateAccountStatus(h)
  <2>1. pc[h] = "update" /\ UNCHANGED told
    BY <1>7 DEF UpdateAccountStatus
  <2>2. CASE SetStatus(subject[h], StatusOf(link[h])) /\ (Goto(h, "mail") \/ Goto(h, "idle"))
    <3>1. /\ subject[h] = Ballots[h].account
          /\ StatusOf(link[h]) = Ballots[h].decision
      BY <1>2 DEF Ballot
    <3>2. Decision!Leave(h) \/ (Mailing' = Mailing \cup {h} /\ UNCHANGED Ballots)
      BY <1>1, <2>2, GoesOn, Leaves
    <3> QED
      BY <1>2, <1>3, <2>1, <2>2, <3>1, <3>2 DEF SetStatus, Decision!Count
  <2>3. CASE Goto(h, "idle") /\ UNCHANGED status
    BY <1>4, <2>1, <2>3
  <2> QED
    BY <1>7, <2>2, <2>3 DEF UpdateAccountStatus
<1>8. CASE SendDecision(h)
  <2>1. pc[h] = "mail" /\ Goto(h, "idle") /\ UNCHANGED status
    BY <1>8 DEF SendDecision
  <2>2. CASE UNCHANGED told
    BY <1>4, <2>1, <2>2
  <2>3. CASE told' = [told EXCEPT ![subject[h]] = MailText(h)]
    BY <1>1, <1>2, <1>3, <2>1, <2>3, Leaves DEF Ballot, MailText, Decision!Tell
  <2> QED
    BY <1>8, <2>2, <2>3 DEF SendDecision
<1> QED
  BY <1>6, <1>7, <1>8 DEF Decide

\* However many requests decide at a time, every decision is by a link that was
\* clicked while the account was pending, deletion is final, and the owner is told
\* only what was decided (accounts.go:238-312, db/accounts.go:285-312).
THEOREM Refinement == Spec => ImplementsDecision
<1>1. Init => Decision!Init
  BY DEF Init, Decision!Init, Ballots, Mailing
<1>2. TInv /\ [Next]_vars => [Decision!Next]_(Decision!vars)
  <2> SUFFICES ASSUME TInv, [Next]_vars
               PROVE  [Decision!Next]_(Decision!vars)
    OBVIOUS
  <2>1. ASSUME NEW a \in Accounts, Create(a) \/ Expire(a) \/ DeleteAccount(a)
        PROVE  [Decision!Next]_(Decision!vars)
    BY <2>1, AccountMaps
  <2>2. ASSUME NEW h \in Handlers, NEW a \in Accounts, NEW l \in Links, Click(h, a, l)
        PROVE  [Decision!Next]_(Decision!vars)
    <3>1. StatusOf(l) \in Decisions
      BY DEF StatusOf, Decisions
    <3>2. Decision!Vote(h, a, StatusOf(l))
      BY <2>2, ClickMaps
    <3> QED
      BY <3>1, <3>2 DEF Decision!Next
  <2>3. ASSUME NEW h \in Handlers, Decide(h)
        PROVE  [Decision!Next]_(Decision!vars)
    BY <2>3, DecideMaps DEF Decision!Next
  <2>4. CASE UNCHANGED vars
    BY <2>4 DEF vars, Decision!vars, Ballots, Ballot, Mailing
  <2> QED
    BY <2>1, <2>2, <2>3, <2>4 DEF Next
<1> QED
  BY <1>1, <1>2, TypeInvariant, PTL DEF Spec, ImplementsDecision, Decision!Spec
=============================================================================
