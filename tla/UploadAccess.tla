---------------------------- MODULE UploadAccess ----------------------------
(***************************************************************************)
(* What lease, gates and slots of app/services/videos.py are there for,    *)
(* without queues, counted references, threads or an event loop: one       *)
(* request at a time uses the files of an upload; no more bodies stream    *)
(* than there are slots; one request at a time writes or removes files.    *)
(***************************************************************************)
EXTENDS Naturals, FiniteSets

CONSTANTS Requests, Uploads, PartSlots

VARIABLES
    streaming,  \* streaming[r]: the upload whose part r receives, or none: {}
    working     \* working[r]: the upload whose files r works on, or none

accessVars == <<streaming, working>>

Nothing == [r \in Requests |-> {}]

Init == streaming = Nothing /\ working = Nothing

Streaming == {r \in Requests : streaming[r] # {}}
InUse(u) == \E r \in Requests : u \in streaming[r] \cup working[r]

\* The PUT has its gate and a slot.
Stream(r, u) ==
    /\ streaming[r] = {} /\ ~InUse(u)
    /\ Cardinality(Streaming) < PartSlots
    /\ streaming' = [streaming EXCEPT ![r] = {u}]
    /\ UNCHANGED working

Staged(r) ==
    /\ streaming' = [streaming EXCEPT ![r] = {}]
    /\ UNCHANGED working

\* A commit, a DELETE or a cleanup has the lease and the gate.
Work(r, u) ==
    /\ working = Nothing /\ ~InUse(u)
    /\ working' = [working EXCEPT ![r] = {u}]
    /\ UNCHANGED streaming

Done(r) ==
    /\ working' = [working EXCEPT ![r] = {}]
    /\ UNCHANGED streaming

Crash == streaming' = Nothing /\ working' = Nothing

Next ==
    \/ \E r \in Requests, u \in Uploads : Stream(r, u) \/ Work(r, u)
    \/ \E r \in Requests : Staged(r) \/ Done(r)
    \/ Crash

Spec == Init /\ [][Next]_accessVars
=============================================================================
