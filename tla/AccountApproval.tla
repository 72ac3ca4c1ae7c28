--------------------------- MODULE AccountApproval ---------------------------
(***************************************************************************)
(* Billing accounts and the one-time links that approve or deny them       *)
(* (api/services/accounts.go, db/accounts.go).                             *)
(*                                                                         *)
(* Creating an account is three calls: the row, the token, the e-mail with *)
(* the two links.  A click on a link is a request that validates the token *)
(* and uses it in a later transaction.  Every call may fail, and one that  *)
(* changes something may fail after it did.  An account has one token, so  *)
(* the token goes by the name of its account.                              *)
(***************************************************************************)
EXTENDS Naturals

CONSTANTS Accounts,  \* the accounts that are requested
          Handlers,  \* the requests that can be served at a time
          None,      \* the owner was told nothing
          MaxFaults  \* bound: failures of external calls

ASSUME ApprovalAssumption ==
    /\ None \notin {"Approved", "Denied"}
    /\ None \notin [account : Accounts, decision : {"Approved", "Denied"}]
    /\ MaxFaults \in Nat

VARIABLES creating,  \* creating[a]: what CreateAccountService does next for a
          status,    \* accounts.status; "absent" and "deleted" without a row
          token,     \* the row of account_approvals: "none", "valid", "expired"
          asked,     \* the accounts whose links the helpdesk has received
          pc,        \* pc[h]: the call handler h makes next
          subject,   \* subject[h]: the account h decides on
          link,      \* link[h]: the link that was clicked
          told,      \* told[a]: the decision the owner was mailed last
          crossed,   \* history: the accounts two handlers decided on at a time
          faults

vars == <<creating, status, token, asked, pc, subject, link, told, crossed,
          faults>>

Links     == {"approve", "deny"}
Decisions == {"Approved", "Denied"}
Statuses  == {"absent", "Pending", "deleted"} \cup Decisions

\* Mutant: the last segment of the link is the status.
StatusIsLink(l) == l

\* serve.go: the link /approve/ asks for AccountStatusApproved, /deny/ for
\* AccountStatusDenied.
StatusOf(l) == IF l = "approve" THEN "Approved" ELSE "Denied"

TypeOK == /\ creating \in [Accounts -> {"account", "token", "mail", "done"}]
          /\ status \in [Accounts -> Statuses]
          /\ token \in [Accounts -> {"none", "valid", "expired"}]
          /\ asked \in SUBSET Accounts
          /\ pc \in [Handlers -> {"idle", "account", "user", "update", "mail"}]
          /\ subject \in [Handlers -> Accounts]
          /\ link \in [Handlers -> Links]
          /\ told \in [Accounts -> Decisions \cup {None}]
          /\ crossed \in SUBSET Accounts
          /\ faults \in 0..MaxFaults

Init == /\ creating = [a \in Accounts |-> "account"]
        /\ status = [a \in Accounts |-> "absent"]
        /\ token = [a \in Accounts |-> "none"]
        /\ asked = {}
        /\ pc = [h \in Handlers |-> "idle"]
        /\ subject \in [Handlers -> Accounts]
        /\ link = [h \in Handlers |-> "approve"]
        /\ told = [a \in Accounts |-> None]
        /\ crossed = {}
        /\ faults = 0

NoFault == UNCHANGED faults
Fault   == /\ faults < MaxFaults
           /\ faults' = faults + 1

-----------------------------------------------------------------------------
(* CreateAccountService *)

Proceed(a, l) == creating' = [creating EXCEPT ![a] = l]

deciding == <<pc, subject, link, told, crossed>>

\* An error ends the request and leaves what was done.
CreateAccount(a) ==
    /\ creating[a] = "account"
    /\ \/ /\ status' = [status EXCEPT ![a] = "Pending"]
          /\ \/ Proceed(a, "token") /\ NoFault
             \/ Proceed(a, "done") /\ Fault
       \/ Proceed(a, "done") /\ Fault /\ UNCHANGED status
    /\ UNCHANGED <<token, asked, deciding>>

\* The foreign key refuses the token of an account that was deleted.
CreateAccountApprovalToken(a) ==
    /\ creating[a] = "token"
    /\ \/ /\ status[a] # "deleted"
          /\ token' = [token EXCEPT ![a] = "valid"]
          /\ \/ Proceed(a, "mail") /\ NoFault
             \/ Proceed(a, "done") /\ Fault
       \/ /\ status[a] = "deleted"
          /\ Proceed(a, "done")
          /\ NoFault
          /\ UNCHANGED token
       \/ Proceed(a, "done") /\ Fault /\ UNCHANGED token
    /\ UNCHANGED <<status, asked, deciding>>

SendAccountRequestEmail(a) ==
    /\ creating[a] = "mail"
    /\ Proceed(a, "done")
    /\ \/ asked' = asked \cup {a} /\ NoFault
       \/ asked' \in {asked, asked \cup {a}} /\ Fault
    /\ UNCHANGED <<status, token, deciding>>

Create(a) == \/ CreateAccount(a) \/ CreateAccountApprovalToken(a)
             \/ SendAccountRequestEmail(a)

-----------------------------------------------------------------------------
(* AccountApprovalService *)

Goto(h, l) == pc' = [pc EXCEPT ![h] = l]

account == <<creating, asked, crossed>>

\* ValidateApprovalToken.  The request is refused unless the token is valid.
Click(h, a, l) ==
    /\ pc[h] = "idle"
    /\ a \in asked
    /\ token[a] = "valid"
    /\ Goto(h, "account")
    /\ subject' = [subject EXCEPT ![h] = a]
    /\ link' = [link EXCEPT ![h] = l]
    /\ crossed' = IF \E g \in Handlers : pc[g] # "idle" /\ subject[g] = a
                  THEN crossed \cup {a} ELSE crossed
    /\ UNCHANGED <<creating, asked, status, token, told, faults>>

\* GetAccount returns nil for an account that was deleted, and the handler
\* panics on it.
GetAccount(h) ==
    /\ pc[h] = "account"
    /\ \/ status[subject[h]] # "deleted" /\ Goto(h, "user") /\ NoFault
       \/ status[subject[h]] = "deleted" /\ Goto(h, "idle") /\ NoFault
       \/ Goto(h, "idle") /\ Fault
    /\ UNCHANGED <<account, status, token, subject, link, told>>

GetUser(h) ==
    /\ pc[h] = "user"
    /\ \/ Goto(h, "update") /\ NoFault
       \/ Goto(h, "idle") /\ Fault
    /\ UNCHANGED <<account, status, token, subject, link, told>>

\* Mutant: the UPDATE makes the row when there is none.
UpsertStatus(a, s) == status' = [status EXCEPT ![a] = s]

\* The UPDATE finds no row when the account was deleted.
SetStatus(a, s) ==
    status' = [status EXCEPT ![a] = IF @ = "deleted" THEN @ ELSE s]

\* Mutant: the token is left to expire.
KeepToken(a) == UNCHANGED token

DeleteToken(a) == token' = [token EXCEPT ![a] = "none"]

\* One transaction.  It looks neither at the token nor at the number of rows.
UpdateAccountStatus(h) ==
    /\ pc[h] = "update"
    /\ \/ /\ SetStatus(subject[h], StatusOf(link[h]))
          /\ DeleteToken(subject[h])
          /\ \/ Goto(h, "mail") /\ NoFault
             \/ Goto(h, "idle") /\ Fault
       \/ /\ Goto(h, "idle")
          /\ Fault
          /\ UNCHANGED <<status, token>>
    /\ UNCHANGED <<account, subject, link, told>>

\* Mutant: the switch has its cases the wrong way round.
MailOpposite(h) == CHOOSE s \in Decisions : s # StatusOf(link[h])

MailText(h) == StatusOf(link[h])

\* SendAccountApprovalEmail or SendAccountDenialEmail.
SendDecision(h) ==
    /\ pc[h] = "mail"
    /\ Goto(h, "idle")
    /\ LET sent == [told EXCEPT ![subject[h]] = MailText(h)]
       IN  \/ told' = sent /\ NoFault
           \/ told' \in {told, sent} /\ Fault
    /\ UNCHANGED <<account, status, token, subject, link>>

Decide(h) == GetAccount(h) \/ GetUser(h) \/ UpdateAccountStatus(h) \/ SendDecision(h)

-----------------------------------------------------------------------------
(* The rest of the system *)

\* 30 days have passed.
Expire(a) == /\ token[a] = "valid"
             /\ token' = [token EXCEPT ![a] = "expired"]
             /\ UNCHANGED <<account, status, deciding, faults>>

\* DeleteAccount takes the token with it.
DeleteAccount(a) == /\ status[a] \notin {"absent", "deleted"}
                    /\ status' = [status EXCEPT ![a] = "deleted"]
                    /\ token' = [token EXCEPT ![a] = "none"]
                    /\ UNCHANGED <<account, deciding, faults>>

Next == \/ \E a \in Accounts : Create(a) \/ Expire(a) \/ DeleteAccount(a)
        \/ \E h \in Handlers :
              \/ \E a \in Accounts, l \in Links : Click(h, a, l)
              \/ Decide(h)

Spec == Init /\ [][Next]_vars

-----------------------------------------------------------------------------
(* Properties *)

\* An account that was decided on, or is gone, has no token left, however many
\* requests decide on it at a time: the status and the token change in one
\* transaction (db/accounts.go:285-312, ON DELETE CASCADE).
TokenMeansPending == \A a \in Accounts : token[a] # "none" => status[a] = "Pending"

\* An account that no two requests decided on at a time is decided on once: its
\* decision is never replaced by another one, although nothing but the token,
\* which is gone, stands in the way (accounts.go:252-284).
DecisionStands ==
    [][\A a \in Accounts \ crossed : status[a] \in Decisions =>
                                        status'[a] \in {status[a], "deleted"}]_vars

\* What the owner of such an account was mailed is what the account says, in
\* spite of clicks on both links and of failures between the update and the
\* e-mail (accounts.go:279-308).
ToldIsTrue ==
    \A a \in Accounts \ crossed :
        told[a] # None => status[a] \in {told[a], "deleted"}

\* However many requests decide on an account at a time, each goes by a link that
\* was clicked while the account was pending, a deleted account stays deleted, and
\* the owner is told a decision only after it was made, whatever fails in between
\* (accounts.go:238-312, db/accounts.go:285-312).
Ballot(h) == [account |-> subject[h], decision |-> StatusOf(link[h])]
Ballots   == [h \in Handlers |-> IF pc[h] = "idle" THEN None ELSE Ballot(h)]
Mailing   == {h \in Handlers : pc[h] = "mail"}

Decision == INSTANCE AccountDecision WITH vote <- Ballots, counted <- Mailing

ImplementsDecision == Decision!Spec

\* db/accounts.go:300 "Remove the approval token to make it one time use": a
\* decision is never replaced by another one.
DecidedOnce ==
    [][\A a \in Accounts : status[a] \in Decisions =>
                              status'[a] \in {status[a], "deleted"}]_vars
=============================================================================
