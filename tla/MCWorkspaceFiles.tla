-------------------------- MODULE MCWorkspaceFiles ---------------------------
(* Small instances of WorkspaceFiles for TLC. *)
EXTENDS WorkspaceFiles, TLC

\* 1 is a plain name and 2 begins with a space; 3 is what a store makes of 2, the
\* object store without the space and the block store with the space escaped.
MCFiles    == 1..3
MCOffered  == {1, 2}
MCKept     == [s \in Stores |-> [n \in MCOffered |-> IF n = 2 THEN 3 ELSE n]]

\* 1 is "index.html".
MCIndex    == {1}

Request(op, s, n) == [op |-> op, stores |-> {s}, names |-> n]

\* Every listing but that of the object store alone, and for the rest requests
\* that meet in the same files.
MCSent == {r \in Requests : r.op = "list" /\ r.stores # {"object"}}
            \cup {Request("upload", "object", n) : n \in {{}, {1, 2}, {2, Bad}}}
            \cup {Request("delete", "object", {1}), Request("url", "object", {1})}
            \cup {Request(op, "block", {2}) : op \in {"upload", "delete"}}
            \cup {Request("metadata", s, {2}) : s \in Stores}
            \cup {Request(op, "object", {Bad}) : op \in {"delete", "metadata", "url"}}

Symmetry == Permutations(Workers)
=============================================================================
