------------------------------ MODULE MemberSet ------------------------------
(***************************************************************************)
(* What the Membership API promises its clients: the members of a          *)
(* workspace are a set that every request reads or changes at one moment,  *)
(* when it is answered.  A change was allowed, and a removal cleared, at a *)
(* moment of its own between the request and its answer, so the owner may  *)
(* be another one by the time it is made.                                  *)
(***************************************************************************)
CONSTANTS Workers, Registered, Admins, Requests, None,
          NoAnswer    \* the request has no answer, or will never have one

VARIABLES open,       \* the workspace has a group
          owner,      \* who owns its account, None when there is no account
          members,    \* the members of the group
          asked,      \* asked[w]: the request that w is to answer, or None
          allowed,    \* those whose requester was found entitled to change members
          cleared,    \* those allowed whose target was found not to be the owner
          answer      \* answer[w]: the status code of the last answer of w

vars == <<open, owner, members, asked, allowed, cleared, answer>>

Init == /\ open = FALSE
        /\ owner = None
        /\ members = {}
        /\ asked = [w \in Workers |-> None]
        /\ allowed = {}
        /\ cleared = {}
        /\ answer = [w \in Workers |-> NoAnswer]

-----------------------------------------------------------------------------
(* The workspace *)

Create(u, o) == /\ ~open /\ owner = None
                /\ open' = TRUE
                /\ owner' = o
                /\ members' = {u}
                /\ UNCHANGED <<asked, allowed, cleared, answer>>

Transfer(o) == /\ owner \notin {None, o}
               /\ owner' = o
               /\ UNCHANGED <<open, members, asked, allowed, cleared, answer>>

Close == /\ open
         /\ open' = FALSE
         /\ members' = {}
         /\ UNCHANGED <<owner, asked, allowed, cleared, answer>>

-----------------------------------------------------------------------------
(* The requests *)

Ask(w, r) == /\ asked[w] = None
             /\ asked' = [asked EXCEPT ![w] = r]
             /\ answer' = [answer EXCEPT ![w] = NoAnswer]
             /\ UNCHANGED <<open, owner, members, allowed, cleared>>

Entitled(w) == asked[w].who \in Admins \cup {owner}
OfOwner(w)  == asked[w].op = "remove" /\ asked[w].user = owner

Allow(w) == /\ asked[w] # None
            /\ asked[w].op \in {"add", "remove"}
            /\ Entitled(w)
            /\ allowed' = allowed \cup {w}
            /\ UNCHANGED <<open, owner, members, asked, cleared, answer>>

Clear(w) == /\ w \in allowed
            /\ ~OfOwner(w)
            /\ cleared' = cleared \cup {w}
            /\ UNCHANGED <<open, owner, members, asked, allowed, answer>>

\* The request of w is made, whole.
Made(w) == /\ open
           /\ w \in allowed
           /\ asked[w].user \in Registered
           /\ \/ /\ asked[w].op = "add"
                 /\ members' = members \cup {asked[w].user}
              \/ /\ asked[w].op = "remove" /\ w \in cleared
                 /\ members' = members \ {asked[w].user}

\* What the requester is shown.
Shown(w) == /\ open
            /\ asked[w].op \in {"get", "list"}
            /\ asked[w].op = "get" => asked[w].user \in members

Refused(w) == asked[w].who \notin members \/ ~Entitled(w) \/ OfOwner(w)

\* 500 may hide a change that was made; 403 is given to those who are not members
\* or not entitled, or want the owner removed.
Answer(w) ==
    /\ asked[w] # None
    /\ asked' = [asked EXCEPT ![w] = None]
    /\ \/ answer'[w] \in {204, 500} /\ Made(w)
       \/ answer'[w] = 200 /\ Shown(w) /\ UNCHANGED members
       \/ answer'[w] = 403 /\ Refused(w) /\ UNCHANGED members
       \/ answer'[w] \in {404, 500, NoAnswer} /\ UNCHANGED members
    /\ answer' = [answer EXCEPT ![w] = answer'[w]]
    /\ allowed' = allowed \ {w}
    /\ cleared' = cleared \ {w}
    /\ UNCHANGED <<open, owner>>

Next == \/ \E w \in Workers : \/ Answer(w) \/ Allow(w) \/ Clear(w)
                              \/ asked[w] = None /\ \E r \in Requests : Ask(w, r)
        \/ \E u, o \in Registered : Create(u, o)
        \/ \E o \in Registered \cup {None} : Transfer(o)
        \/ Close

Spec == Init /\ [][Next]_vars
=============================================================================
