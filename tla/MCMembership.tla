----------------------------- MODULE MCMembership -----------------------------
(* Small instances of Membership for TLC. *)
EXTENDS Membership, TLC

Request(o, w, u) == [op |-> o, who |-> w, user |-> u]

\* u1 and u2 are users, u2 with the role hub_admin; nobody has no user.
MCUsers      == {"u1", "u2", "nobody"}
MCRegistered == {"u1", "u2"}
MCAdmins     == {"u2"}
\* Listing makes the calls of getting but one, and is left out; so is a removal by
\* the owner, who is asked for as in adding, with a target asked for as in a removal
\* by an administrator.
MCRequests   == {Request("get", "u1", "u2"), Request("add", "u1", "u2"),
                 Request("add", "u2", "nobody"), Request("remove", "u2", "u1")}

Symmetry == Permutations(Workers)
=============================================================================
