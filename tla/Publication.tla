---------------------------- MODULE Publication ----------------------------
(***************************************************************************)
(* What resumable uploads promise, without rows, locks, moves or crashes:  *)
(* an upload is opened, at most once published whole under a free code, or *)
(* withdrawn; what the library serves under a code never changes while it  *)
(* is served.  VideoUploadRefinement shows that app/services/videos.py     *)
(* implements it.                                                          *)
(***************************************************************************)
CONSTANTS
    Uploads, Codes,
    Good,     \* Good[u]: the files that upload u may publish
    None

VARIABLES
    session,  \* session[u]
    library   \* library[c]: the upload and file served under c, or None

pubVars == <<session, library>>

Entries == UNION {[upload : {u}, file : Good[u]] : u \in Uploads}

Init ==
    /\ session = [u \in Uploads |-> "unborn"]
    /\ library = [c \in Codes |-> None]

Open(u) ==
    /\ session[u] = "unborn"
    /\ session' = [session EXCEPT ![u] = "open"]
    /\ UNCHANGED library

Publish(u, c, f) ==
    /\ session[u] = "open" /\ library[c] = None
    /\ session' = [session EXCEPT ![u] = "published"]
    /\ library' = [library EXCEPT ![c] = [upload |-> u, file |-> f]]

\* Sessions are retired and media removed; deleting an account does both.
Withdraw(us, cs) ==
    /\ \A u \in us : session[u] \in {"open", "published"}
    /\ session' = [u \in Uploads |-> IF u \in us THEN "gone" ELSE session[u]]
    /\ library' = [c \in Codes |-> IF c \in cs THEN None ELSE library[c]]

Next ==
    \/ \E u \in Uploads : Open(u)
    \/ \E u \in Uploads, c \in Codes : \E f \in Good[u] : Publish(u, c, f)
    \/ \E us \in SUBSET Uploads, cs \in SUBSET Codes : Withdraw(us, cs)

Spec == Init /\ [][Next]_pubVars

-----------------------------------------------------------------------------
PubTypeOK ==
    /\ session \in [Uploads -> {"unborn", "open", "published", "gone"}]
    /\ library \in [Codes -> Entries \cup {None}]

\* An entry stems from an upload that is published, or gone since.
EntriesOfPublished ==
    \A c \in Codes : library[c] # None =>
        session[library[c].upload] \in {"published", "gone"}

\* No upload is served under two codes.
ServedOnce ==
    \A c, d \in Codes :
        (library[c] # None /\ library[d] # None
         /\ library[c].upload = library[d].upload) => c = d

\* What a code serves is served unchanged until it is withdrawn.
ServedUnchanged ==
    [][\A c \in Codes : library[c] # None => library'[c] \in {library[c], None}]_pubVars
=============================================================================
