--------------------------- MODULE TrafficWriter ---------------------------
(***************************************************************************)
(* app/services/traffic.py: requests queue one event each; one writer      *)
(* thread takes batches from the bounded queue, resolves the identities    *)
(* they name under the library lease, adds them to traffic_daily and       *)
(* retries a batch that failed; flushes and the shutdown put a barrier and *)
(* a stop marker into the same queue.  Accounts and keys come and go       *)
(* beside it (app/api/routes/admin.py, keys.py).                           *)
(*                                                                         *)
(* A row of traffic_daily is the sum of the events merged into it, so the  *)
(* model keeps, per event, how often it was added and under which names.   *)
(***************************************************************************)
EXTENDS Naturals, Sequences, FiniteSets

CONSTANTS
    Events,      \* requests that will record one event each
    Flushes,     \* calls of flush_traffic
    Closing,     \* the flush that shutdown_traffic_recorder makes itself
    Stop,        \* _STOP
    Users, Keys,
    Holder,      \* Holder[k]: the account of API key k
    Caller, Via, \* Caller[e], Via[e]: the account and key of request e
    Nobody,      \* user_id 0, api_key_id 0 and "no control item"
    QueueLimit,  \* _QUEUE_LIMIT
    BatchLimit   \* _BATCH_LIMIT

ASSUME TrafficAssumption ==
    /\ Closing \in Flushes
    /\ Events \cap Flushes = {}
    /\ Stop \notin Events \cup Flushes
    /\ Nobody \notin Users \cup Keys \cup Flushes \cup Events \cup {Stop}
    /\ Holder \in [Keys -> Users]
    /\ Caller \in [Events -> Users \cup {Nobody}]
    /\ Via \in [Events -> Keys \cup {Nobody}]
    /\ \A e \in Events : Via[e] # Nobody => Caller[e] = Holder[Via[e]]
    /\ QueueLimit \in Nat \ {0} /\ BatchLimit \in Nat \ {0}

VARIABLES
    users, keys,  \* accounts and API keys that exist
    stage,        \* stage[e]: where request e stands
    queue,        \* _queue
    started,      \* _worker is not None
    wpc,          \* the writer thread's step
    batch,        \* its events
    item,         \* the control item it met, deferred ones included
    names,        \* the user and key it resolved for each event
    times,        \* times[e]: how often e was added to traffic_daily
    label,        \* label[e]: user_id and api_key_id of the row it went to
    erased,       \* events whose row was deleted with an account or by age
    old,          \* events older than the retention
    fpc,          \* fpc[f]: the step of flush f
    before,       \* before[f]: the events queued when f was called
    done,         \* barriers that were set
    spc           \* the step of shutdown_traffic_recorder

dbVars     == <<users, keys, times, label, erased, old>>
writerVars == <<wpc, batch, item, names>>
flushVars  == <<fpc, before, done>>
vars == <<dbVars, stage, queue, started, writerVars, flushVars, spc>>

Controls  == Flushes \cup {Stop}
Items     == Events \cup Controls
Stages    == {"idle", "running", "putting", "queued", "dropped"}
Answers   == {"true", "false"}
Anonymous == [user |-> Nobody, key |-> Nobody]
NoNames   == [e \in Events |-> Anonymous]
Labels    == [user : Users \cup {Nobody}, key : Keys \cup {Nobody}]

Init ==
    /\ users = Users /\ keys = Keys
    /\ stage = [e \in Events |-> "idle"]
    /\ queue = <<>> /\ started = FALSE
    /\ wpc = "dead" /\ batch = {} /\ item = Nobody
    /\ names = NoNames
    /\ times = [e \in Events |-> 0]
    /\ label = [e \in Events |-> Anonymous]
    /\ erased = {} /\ old = {}
    /\ fpc = [f \in Flushes |-> "idle"]
    /\ before = [f \in Flushes |-> {}] /\ done = {}
    /\ spc = "idle"

\* The writer holds the library lease while it resolves and writes.
LeaseFree == wpc # "write"

Accepted == {e \in Events : stage[e] = "queued"}

-----------------------------------------------------------------------------
(* _start_worker.  _state_lock is held by shutdown while it waits for room *)
(* for the stop marker; whoever starts the worker waits for it.            *)

StateLockFree == spc # "stopping"

StartWorker ==
    /\ StateLockFree
    /\ started' = TRUE
    /\ IF wpc = "dead"
       THEN wpc' = "get" /\ batch' = {} /\ item' = Nobody
       ELSE UNCHANGED <<wpc, batch, item>>
    /\ UNCHANGED names

-----------------------------------------------------------------------------
(* Requests *)

\* The request is authenticated: its event will carry this identity.
Authenticate(e) ==
    /\ stage[e] = "idle"
    /\ Caller[e] \in users \cup {Nobody} /\ Via[e] \in keys \cup {Nobody}
    /\ stage' = [stage EXCEPT ![e] = "running"]
    /\ UNCHANGED <<dbVars, queue, started, writerVars, flushVars, spc>>

\* record_traffic makes sure of a worker ...
Record(e) ==
    /\ stage[e] = "running"
    /\ StartWorker
    /\ stage' = [stage EXCEPT ![e] = "putting"]
    /\ UNCHANGED <<dbVars, queue, flushVars, spc>>

\* Mutant: the queue has no limit.
PutUnbounded(e) ==
    /\ stage[e] = "putting"
    /\ queue' = Append(queue, e)
    /\ stage' = [stage EXCEPT ![e] = "queued"]
    /\ UNCHANGED <<dbVars, started, writerVars, flushVars, spc>>

\* ... and queues the event without waiting.
Put(e) ==
    /\ stage[e] = "putting"
    /\ IF Len(queue) < QueueLimit
       THEN /\ queue' = Append(queue, e)
            /\ stage' = [stage EXCEPT ![e] = "queued"]
       ELSE /\ stage' = [stage EXCEPT ![e] = "dropped"]
            /\ UNCHANGED queue
    /\ UNCHANGED <<dbVars, started, writerVars, flushVars, spc>>

-----------------------------------------------------------------------------
(* The writer thread: _worker_loop, _commit_batch *)

\* Mutant: the thread takes a barrier that is queued before the events.
BarriersFirst ==
    /\ wpc = "get" /\ queue # <<>>
    /\ \E i \in 1 .. Len(queue) :
         /\ i = 1 \/ queue[i] \in Flushes
         /\ IF queue[i] \in Events
            THEN batch' = {queue[i]} /\ wpc' = "drain" /\ UNCHANGED item
            ELSE item' = queue[i] /\ wpc' = "control" /\ UNCHANGED batch
         /\ queue' = SubSeq(queue, 1, i - 1) \o SubSeq(queue, i + 1, Len(queue))
    /\ UNCHANGED <<dbVars, stage, started, names, flushVars, spc>>

Get ==
    /\ wpc = "get" /\ queue # <<>>
    /\ IF Head(queue) \in Events
       THEN batch' = {Head(queue)} /\ wpc' = "drain" /\ UNCHANGED item
       ELSE item' = Head(queue) /\ wpc' = "control" /\ UNCHANGED batch
    /\ queue' = Tail(queue)
    /\ UNCHANGED <<dbVars, stage, started, names, flushVars, spc>>

Drain ==
    /\ wpc = "drain" /\ queue # <<>> /\ Cardinality(batch) < BatchLimit
    /\ IF Head(queue) \in Events
       THEN batch' = batch \cup {Head(queue)} /\ UNCHANGED <<wpc, item>>
       ELSE item' = Head(queue) /\ wpc' = "commit" /\ UNCHANGED batch
    /\ queue' = Tail(queue)
    /\ UNCHANGED <<dbVars, stage, started, names, flushVars, spc>>

Drained ==
    /\ wpc = "drain"
    /\ queue = <<>> \/ Cardinality(batch) >= BatchLimit
    /\ wpc' = "commit"
    /\ UNCHANGED <<dbVars, stage, queue, started, batch, item, names, flushVars, spc>>

\* A key that is gone was retired, never replaced: its id is kept.
Identity(e) ==
    IF Caller[e] \in users THEN [user |-> Caller[e], key |-> Via[e]] ELSE Anonymous

\* _commit_batch_under_lease reads accounts and keys inside the lease.  It does
\* so in the transaction that also writes (BEGIN IMMEDIATE); here they are two
\* steps, so that what is shown rests on the lease alone.
Resolve ==
    /\ wpc = "commit"
    /\ names' = [e \in Events |->
                    IF e \in batch THEN Identity(e) ELSE Anonymous]
    /\ wpc' = "write"
    /\ UNCHANGED <<dbVars, stage, queue, started, batch, item, flushVars, spc>>

Written ==
    /\ wpc = "write"
    /\ times' = [e \in Events |-> IF e \in batch THEN times[e] + 1 ELSE times[e]]
    /\ label' = [e \in Events |-> IF e \in batch THEN names[e] ELSE label[e]]
    /\ names' = NoNames
    /\ wpc' = "prune"
    /\ UNCHANGED <<users, keys, erased, old, stage, queue, started, batch, item,
                   flushVars, spc>>

\* Mutant: a failed batch is given up, so its barrier answers for nothing.
WriteFailsDropping ==
    /\ wpc = "write"
    /\ names' = NoNames
    /\ wpc' = "control" /\ batch' = {}
    /\ UNCHANGED <<dbVars, stage, queue, started, item, flushVars, spc>>

\* The whole batch is kept, and the control item behind it deferred.
WriteFails ==
    /\ wpc = "write"
    /\ names' = NoNames
    /\ wpc' = "commit"
    /\ UNCHANGED <<dbVars, stage, queue, started, batch, item, flushVars, spc>>

\* Mutant: an error of the pruning counts as one of the batch.
PruneFailing ==
    /\ wpc = "prune"
    /\ \/ batch' = {} /\ wpc' = "control"
       \/ wpc' = "commit" /\ UNCHANGED batch
    /\ UNCHANGED <<dbVars, stage, queue, started, item, names, flushVars, spc>>

\* _prune_expired_traffic runs at most once a day and may fail; neither
\* fails the batch.
Prune ==
    /\ wpc = "prune"
    /\ \E S \in {{}, {e \in old : times[e] > 0}} : erased' = erased \cup S
    /\ batch' = {} /\ wpc' = "control"
    /\ UNCHANGED <<users, keys, times, label, old, stage, queue, started,
                   item, names, flushVars, spc>>

\* Mutant: the thread ends at a barrier, too.
ControlEnds ==
    /\ wpc = "control"
    /\ done' = IF item \in Flushes THEN done \cup {item} ELSE done
    /\ wpc' = IF item = Nobody THEN "get" ELSE "dead"
    /\ item' = Nobody
    /\ UNCHANGED <<dbVars, stage, queue, started, batch, names,
                   fpc, before, spc>>

Control ==
    /\ wpc = "control"
    /\ done' = IF item \in Flushes THEN done \cup {item} ELSE done
    /\ wpc' = IF item = Stop THEN "dead" ELSE "get"
    /\ item' = Nobody
    /\ UNCHANGED <<dbVars, stage, queue, started, batch, names,
                   fpc, before, spc>>

-----------------------------------------------------------------------------
(* flush_traffic *)

Call(f) ==
    /\ fpc[f] = "idle"
    /\ f = Closing => spc = "flushing"
    /\ StartWorker
    /\ fpc' = [fpc EXCEPT ![f] = "putting"]
    /\ before' = [before EXCEPT ![f] = Accepted]
    /\ UNCHANGED <<dbVars, stage, queue, done, spc>>

PutBarrier(f) ==
    /\ fpc[f] = "putting" /\ Len(queue) < QueueLimit
    /\ queue' = Append(queue, f)
    /\ fpc' = [fpc EXCEPT ![f] = "waiting"]
    /\ UNCHANGED <<dbVars, stage, started, writerVars, before, done, spc>>

\* queue.Full at the deadline
NoRoom(f) ==
    /\ fpc[f] = "putting" /\ Len(queue) >= QueueLimit
    /\ fpc' = [fpc EXCEPT ![f] = "false"]
    /\ UNCHANGED <<dbVars, stage, queue, started, writerVars, before, done, spc>>

\* barrier.done.wait
Answer(f) ==
    /\ fpc[f] = "waiting"
    /\ fpc' = [fpc EXCEPT ![f] = IF f \in done THEN "true" ELSE "false"]
    /\ UNCHANGED <<dbVars, stage, queue, started, writerVars, before, done, spc>>

-----------------------------------------------------------------------------
(* shutdown_traffic_recorder *)

Shutdown ==
    /\ spc = "idle" /\ spc' = "flushing"
    /\ UNCHANGED <<dbVars, stage, queue, started, writerVars, flushVars>>

\* With _state_lock, which is kept until the stop marker is queued.
ShutdownLocks ==
    /\ spc = "flushing" /\ fpc[Closing] \in Answers
    /\ spc' = IF started THEN "stopping" ELSE "closed"
    /\ UNCHANGED <<dbVars, stage, queue, started, writerVars, flushVars>>

ShutdownStops ==
    /\ spc = "stopping"
    /\ IF Len(queue) < QueueLimit
       THEN queue' = Append(queue, Stop) /\ spc' = "joining"
       ELSE spc' = "closed" /\ UNCHANGED queue
    /\ UNCHANGED <<dbVars, stage, started, writerVars, flushVars>>

\* join returned or timed out; a thread that is not dead stays _worker.
ShutdownJoined ==
    /\ spc = "joining"
    /\ started' = (wpc # "dead")
    /\ spc' = "closed"
    /\ UNCHANGED <<dbVars, stage, queue, writerVars, flushVars>>

-----------------------------------------------------------------------------
(* Accounts, keys and days pass. *)

\* Mutant: the deletion does not take the lease.
DeleteUserUnleased(u) ==
    /\ u \in users
    /\ users' = users \ {u}
    /\ keys' = {k \in keys : Holder[k] # u}
    /\ erased' = erased \cup
          {e \in Events : times[e] > 0 /\ label[e].user = u}
    /\ UNCHANGED <<times, label, old, stage, queue, started, writerVars,
                   flushVars, spc>>

\* delete_user's last commit, under the library lease
DeleteUser(u) ==
    /\ u \in users /\ LeaseFree
    /\ users' = users \ {u}
    /\ keys' = {k \in keys : Holder[k] # u}
    /\ erased' = erased \cup
          {e \in Events : times[e] > 0 /\ label[e].user = u}
    /\ UNCHANGED <<times, label, old, stage, queue, started, writerVars,
                   flushVars, spc>>

\* revoke_key and the old key of rotate_key, under the lease
RevokeKey(k) ==
    /\ k \in keys /\ LeaseFree
    /\ keys' = keys \ {k}
    /\ UNCHANGED <<users, times, label, erased, old, stage, queue, started,
                   writerVars, flushVars, spc>>

\* What has been recorded so far leaves the retention.
DaysPass ==
    /\ old = {} /\ Accepted # {}
    /\ old' = Accepted
    /\ UNCHANGED <<users, keys, times, label, erased, stage, queue, started,
                   writerVars, flushVars, spc>>

-----------------------------------------------------------------------------
Writer == Get \/ Drain \/ Drained \/ Resolve \/ Written \/ WriteFails
          \/ Prune \/ Control

Next ==
    \/ \E e \in Events : Authenticate(e) \/ Record(e) \/ Put(e)
    \/ Writer
    \/ \E f \in Flushes : Call(f) \/ PutBarrier(f) \/ NoRoom(f) \/ Answer(f)
    \/ Shutdown \/ ShutdownLocks \/ ShutdownStops \/ ShutdownJoined
    \/ \E u \in Users : DeleteUser(u)
    \/ \E k \in Keys : RevokeKey(k)
    \/ DaysPass

Spec == Init /\ [][Next]_vars

\* The thread is scheduled, and the database does not refuse every retry.
FairSpec == Spec /\ WF_vars(Writer) /\ SF_vars(Written)
-----------------------------------------------------------------------------
(* Properties *)

Waiting(x) == {i \in 1 .. Len(queue) : queue[i] = x}

\* What a commit that succeeds would still have to add.
Unwritten == IF wpc = "prune" THEN {} ELSE batch

\* Every variable has its type; the queue keeps its limit (_QUEUE_LIMIT).
TypeOK ==
    /\ users \subseteq Users /\ keys \subseteq Keys
    /\ stage \in [Events -> Stages]
    /\ queue \in Seq(Items) /\ Len(queue) <= QueueLimit /\ started \in BOOLEAN
    /\ wpc \in {"dead", "get", "drain", "commit", "write", "prune", "control"}
    /\ batch \subseteq Events /\ item \in Controls \cup {Nobody}
    /\ names \in [Events -> Labels]
    /\ times \in [Events -> Nat] /\ label \in [Events -> Labels]
    /\ erased \subseteq Events /\ old \subseteq Events
    /\ fpc \in [Flushes -> {"idle", "putting", "waiting"} \cup Answers]
    /\ before \in [Flushes -> SUBSET Events] /\ done \subseteq Flushes
    /\ spc \in {"idle", "flushing", "stopping", "joining", "closed"}

\* An event that entered the queue is in exactly one place: waiting there once,
\* or in the batch of a living writer, or added to the statistics once.
\* Retries, stop markers, restarts of the thread and a failing retention sweep
\* (_worker_loop, _commit_batch) neither lose nor double it.
EachEventOnce ==
    \A e \in Events :
        LET here == Cardinality(Waiting(e))
            held == IF e \in Unwritten THEN 1 ELSE 0
        IN  here + held + times[e] = IF stage[e] = "queued" THEN 1 ELSE 0

\* flush_traffic answers True only when everything queued before the call has
\* been committed, so management pages never show older numbers.
FlushSeesEarlier ==
    \A f \in Flushes : fpc[f] = "true" =>
        \A e \in before[f] : times[e] = 1

\* No row of the statistics names an account that is gone, however late its
\* requests end; a key is only named together with its account.
NoDeletedNames ==
    \A e \in Events : (times[e] > 0 /\ e \notin erased) =>
        /\ label[e].user \in users \cup {Nobody}
        /\ label[e].key # Nobody => Holder[label[e].key] = label[e].user

\* While nobody shuts the recorder down, a queued event is counted at last.
EventuallyCounted ==
    \A e \in Events :
        stage[e] = "queued" ~> (times[e] > 0 \/ spc # "idle")

Dropped == {e \in Events : stage[e] = "dropped"}

Answered == [f \in Flushes |-> CASE fpc[f] = "idle" -> "none"
                                 [] fpc[f] \in Answers -> fpc[f]
                                 [] OTHER -> "open"]

Ledger == INSTANCE TrafficLedger
            WITH accepted <- Accepted, refused <- Dropped, answer <- Answered

\* Queue, thread, batches and retries behave as the atomic ledger.
ImplementsLedger == Ledger!Spec
=============================================================================
