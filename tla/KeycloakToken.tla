---------------------------- MODULE KeycloakToken ----------------------------
(***************************************************************************)
(* The access token of the Keycloak client (api/services/keycloak.go), a   *)
(* field of the one client that all requests of the server share.  Every   *)
(* request asks for a token of its own and stores it there before its      *)
(* first call, and every call builds its header from what is there then.   *)
(*                                                                         *)
(* Nothing locks the field.  A Go string is two words, a pointer and a     *)
(* length, written one after the other: a call may find the pointer of     *)
(* one token with the length of another.  A word is named by the request   *)
(* whose token it belongs to.                                              *)
(***************************************************************************)

CONSTANT Workers    \* the requests that can be served at a time

ASSUME TokenAssumption == {"none", "old"} \cap Workers = {}

VARIABLES pointer,  \* the request of whose token the pointer is: "none" in a
                    \* new client, "old" when that request is over
          length,   \* the same of the length
          disturbed \* history: the requests whose token was written over,
                    \* wholly or in part, since they began to store it

token == <<pointer, length, disturbed>>

Words == Workers \cup {"none", "old"}

TokenTypeOK == /\ pointer \in Words
               /\ length \in Words
               /\ disturbed \in SUBSET Workers

TokenInit == /\ pointer = "none"
             /\ length = "none"
             /\ disturbed = {}

\* The two halves of kc.Token = tokenResponse.AccessToken; holders are the
\* requests that stored their token, or a half of it, before.
StorePointer(w, holders) == /\ pointer' = w
                            /\ disturbed' = disturbed \cup (holders \ {w})
                            /\ UNCHANGED length

StoreLength(w, holders) == /\ length' = w
                           /\ disturbed' = disturbed \cup (holders \ {w})
                           /\ UNCHANGED pointer

\* Request w is over; what it stored stays.
TokenLeft(w) == /\ pointer' = IF pointer = w THEN "old" ELSE pointer
                /\ length' = IF length = w THEN "old" ELSE length
                /\ disturbed' = disturbed \ {w}
=============================================================================
