---------------------------- MODULE AccountDecision ----------------------------
(***************************************************************************)
(* What the account API promises: an account is pending until a vote that  *)
(* was cast while it was pending decides it, or it is deleted, for good;   *)
(* its owner is told what a vote decided only after it did.  Votes cast at *)
(* the same time each decide in turn: none of them is asked again.         *)
(***************************************************************************)
CONSTANTS Accounts, Handlers, None, Decisions

VARIABLES status,   \* status[a]: "absent", "Pending", a decision or "deleted"
          vote,     \* vote[h]: the account h votes on and its decision, or None
          counted,  \* those whose vote was counted, and who are to tell the owner
          told      \* told[a]: the decision the owner was told last, or None

vars == <<status, vote, counted, told>>

Init == /\ status = [a \in Accounts |-> "absent"]
        /\ vote = [h \in Handlers |-> None]
        /\ counted = {}
        /\ told = [a \in Accounts |-> None]

Request(a) == /\ status[a] = "absent"
              /\ status' = [status EXCEPT ![a] = "Pending"]
              /\ UNCHANGED <<vote, counted, told>>

Vote(h, a, d) == /\ vote[h] = None
                 /\ status[a] = "Pending"
                 /\ vote' = [vote EXCEPT ![h] = [account |-> a, decision |-> d]]
                 /\ UNCHANGED <<status, counted, told>>

\* The request of h ends.
Leave(h) == /\ vote' = [vote EXCEPT ![h] = None]
            /\ counted' = counted \ {h}

Abstain(h) == /\ vote[h] # None
              /\ Leave(h)
              /\ UNCHANGED <<status, told>>

\* A vote on a deleted account decides nothing.
Count(h) == /\ vote[h] # None /\ h \notin counted
            /\ status' = [status EXCEPT ![vote[h].account] =
                            IF @ = "deleted" THEN @ ELSE vote[h].decision]
            /\ Leave(h) \/ (counted' = counted \cup {h} /\ UNCHANGED vote)
            /\ UNCHANGED told

Tell(h) == /\ h \in counted
           /\ told' = [told EXCEPT ![vote[h].account] = vote[h].decision]
           /\ Leave(h)
           /\ UNCHANGED status

Delete(a) == /\ status[a] \notin {"absent", "deleted"}
             /\ status' = [status EXCEPT ![a] = "deleted"]
             /\ UNCHANGED <<vote, counted, told>>

Next == \/ \E a \in Accounts : Request(a) \/ Delete(a)
        \/ \E h \in Handlers :
              \/ \E a \in Accounts, d \in Decisions : Vote(h, a, d)
              \/ Abstain(h) \/ Count(h) \/ Tell(h)

Spec == Init /\ [][Next]_vars
=============================================================================
