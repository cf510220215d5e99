------------------------------ MODULE LockOrder ------------------------------
(* What the requests of the one server process wait for: the library        *)
(* lifecycle lease, the inbound gate of an upload, the global body slots,    *)
(* the event loop and the threads of the loop's default executor             *)
(* (app/services/videos.py, library.py, images.py, main.py).                 *)
(*                                                                           *)
(* A part PUT and an image upload are coroutines of the event loop that send *)
(* their file writes, and the PUT its commit, to executor threads; a DELETE  *)
(* is a synchronous route in a thread of its own; the periodic cleanup is an *)
(* executor job.  VideoUpload takes gate, slot and lease in single steps;    *)
(* here every acquisition is a step, and nothing else is kept of the data.   *)
(* The finalization, creation and upload locks are always taken under the    *)
(* lease, so nobody ever waits for them and they are left out.               *)
EXTENDS Naturals, FiniteSets, Functions

CONSTANTS
    Puts,        \* requests storing one part
    LatePuts,    \* the PUTs that find their session expired and finalizing
    Cancels,     \* DELETE requests of a session
    Cleaners,    \* cleanup jobs that found an expired session or a directory
    Images,      \* image uploads
    Uploads,     \* the sessions
    Target,      \* the session of each request but the image uploads
    PartSlots,   \* _inbound_part_slots: bodies streamed at a time
    Threads,     \* threads of the default executor
    NoOne, NoGate

Requests == Puts \cup Cancels \cup Cleaners \cup Images

ASSUME RequestsApart ==
    /\ IsFiniteSet(Requests) /\ IsFiniteSet(Uploads)
    /\ Puts \cap (Cancels \cup Cleaners \cup Images) = {}
    /\ Cancels \cap (Cleaners \cup Images) = {} /\ Cleaners \cap Images = {}
    /\ LatePuts \subseteq Puts
    /\ Target \in [Requests \ Images -> Uploads]

ASSUME PoolsNotEmpty == PartSlots \in Nat \ {0} /\ Threads \in Nat \ {0}

VARIABLES
    pc,         \* where each request is
    lease,      \* who holds _library_lifecycle_lock
    registry,   \* _inbound_upload_gates: the current gate of each upload
    users,      \* _inbound_gate_users: requests counted on that gate
    using,      \* the gate object each request holds a reference to
    owner,      \* who has acquired each gate object
    slotted     \* the PUTs that hold one of _inbound_part_slots

vars == <<pc, lease, registry, users, using, owner, slotted>>
gates == <<registry, users, using, owner>>

\* Semaphore objects.  An object nobody refers to is gone and may be anew.
Gates == 1 .. (Cardinality(Requests) + Cardinality(Uploads))

ASSUME NobodyApart == NoOne \notin Requests /\ NoGate \notin Gates

Polling == {"polling gate", "polling slot"}
Streaming == {"receiving", "flush queued", "flushing", "staged"}
Blocking == {"leasing", "joining", "waiting gate", "working"}
Steps == {"idle", "blocking", "draining", "queued", "done"}
             \cup Polling \cup Streaming \cup Blocking

\* Requests stopped in a synchronous lock acquisition on the event loop.
LoopBlockers == {r \in Requests : pc[r] = "blocking"}
LoopFree == LoopBlockers = {}

\* Requests whose job occupies an executor thread.
Busy == {r \in Requests : \/ pc[r] = "flushing"
                          \/ r \in Puts \cup Cleaners /\ pc[r] \in Blocking}
ThreadFree == Cardinality(Busy) < Threads

Goto(r, step) == pc' = [pc EXCEPT ![r] = step]

Init ==
    /\ pc = [r \in Requests |-> "idle"]
    /\ lease = NoOne
    /\ registry = [u \in Uploads |-> NoGate]
    /\ users = [u \in Uploads |-> 0]
    /\ using = [r \in Requests |-> NoGate]
    /\ owner = [g \in Gates |-> NoOne]
    /\ slotted = {}

-----------------------------------------------------------------------------
(* The registry of gates: counted references, and the gate reclaimed with    *)
(* the last of them.                                                         *)

GateFor(u) ==
    IF registry[u] # NoGate THEN registry[u]
    ELSE CHOOSE g \in Gates : g \notin Range(registry) \cup Range(using)

LeaseGate(r) ==
    LET u == Target[r] IN
    /\ using' = [using EXCEPT ![r] = GateFor(u)]
    /\ registry' = [registry EXCEPT ![u] = GateFor(u)]
    /\ users' = [users EXCEPT ![u] = @ + 1]

\* A reclaim that does not look at the other users.
DropGateAnyway(r) ==
    LET u == Target[r] IN
    /\ using' = [using EXCEPT ![r] = NoGate]
    /\ users' = [users EXCEPT ![u] = 0]
    /\ registry' = [registry EXCEPT ![u] = NoGate]

\* A reclaim that does not store the count that remains.
DropGateUncounted(r) ==
    LET u == Target[r] IN
    /\ using' = [using EXCEPT ![r] = NoGate]
    /\ IF registry[u] # using[r] \/ users[u] > 1
       THEN UNCHANGED <<registry, users>>
       ELSE /\ users' = [users EXCEPT ![u] = 0]
            /\ registry' = [registry EXCEPT ![u] = NoGate]

\* A request of a gate already replaced leaves the newer one alone.
DropGate(r) ==
    LET u == Target[r] IN
    /\ using' = [using EXCEPT ![r] = NoGate]
    /\ IF registry[u] # using[r]
       THEN UNCHANGED <<registry, users>>
       ELSE /\ users' = [users EXCEPT ![u] = IF @ > 0 THEN @ - 1 ELSE 0]
            /\ registry' = [registry EXCEPT ![u] = IF users[u] > 1 THEN @ ELSE NoGate]

GateOpen(r) == owner[using[r]] = NoOne
Acquire(r) == GateOpen(r) /\ owner' = [owner EXCEPT ![using[r]] = r]
Release(r) == owner' = [owner EXCEPT ![using[r]] = IF @ = r THEN NoOne ELSE @]

-----------------------------------------------------------------------------
(* Coroutines: each step needs the loop.                                     *)

\* The PUT of an expired finalizing session first recovers it, on the loop and
\* under the lease; with the lease free that is done within this step.
PutArrives(p) ==
    /\ pc[p] = "idle" /\ LoopFree
    /\ p \in LatePuts => lease = NoOne
    /\ LeaseGate(p)
    /\ Goto(p, "polling gate")
    /\ UNCHANGED <<lease, owner, slotted>>

PutTakesGate(p) ==
    /\ pc[p] = "polling gate" /\ LoopFree
    /\ Acquire(p)
    /\ Goto(p, "polling slot")
    /\ UNCHANGED <<lease, registry, users, using, slotted>>

PutTakesSlot(p) ==
    /\ pc[p] = "polling slot" /\ LoopFree
    /\ Cardinality(slotted) < PartSlots
    /\ slotted' = slotted \cup {p}
    /\ Goto(p, "receiving")
    /\ UNCHANGED <<lease, gates>>

ImageArrives(i) ==
    /\ pc[i] = "idle" /\ LoopFree
    /\ Goto(i, "receiving")
    /\ UNCHANGED <<lease, gates, slotted>>

\* The body is in and its last buffer goes to a thread.  One write stands for
\* all the writes of a body.
Received(r) ==
    /\ pc[r] = "receiving" /\ LoopFree
    /\ Goto(r, "flush queued")
    /\ UNCHANGED <<lease, gates, slotted>>

FlushStarts(r) ==
    /\ pc[r] = "flush queued" /\ ThreadFree
    /\ Goto(r, "flushing")
    /\ UNCHANGED <<lease, gates, slotted>>

Flushed(r) ==
    /\ pc[r] = "flushing"
    /\ Goto(r, "staged")
    /\ UNCHANGED <<lease, gates, slotted>>

\* The staged part lets slot, gate and reference go, then submits its commit.
\* A version that keeps the gate for its commit:
PutKeepsGate(p) ==
    /\ pc[p] = "staged" /\ LoopFree
    /\ slotted' = slotted \ {p}
    /\ Goto(p, "queued")
    /\ UNCHANGED <<lease, gates>>

\* A version that forgets the slot:
PutKeepsSlot(p) ==
    /\ pc[p] = "staged" /\ LoopFree
    /\ Release(p) /\ DropGate(p)
    /\ Goto(p, "queued")
    /\ UNCHANGED <<lease, slotted>>

PutSubmits(p) ==
    /\ pc[p] = "staged" /\ LoopFree
    /\ slotted' = slotted \ {p}
    /\ Release(p) /\ DropGate(p)
    /\ Goto(p, "queued")
    /\ UNCHANGED lease

\* A version whose finally block has no case for a PUT that only waits:
PutGivesUpLate(p) ==
    /\ pc[p] \in Polling \cup Streaming /\ LoopFree
    /\ slotted' = slotted \ {p}
    /\ Release(p)
    /\ IF pc[p] = "polling gate" THEN UNCHANGED <<registry, users, using>>
                                 ELSE DropGate(p)
    /\ Goto(p, "done")
    /\ UNCHANGED lease

\* A cancelled, disconnected or refused PUT undoes what it had acquired.  One
\* cancelled while its buffer is written withdraws the job from the executor's
\* queue or, when a thread has it, closes the file after that write.
PutGivesUp(p) ==
    /\ pc[p] \in Polling \cup Streaming /\ LoopFree
    /\ slotted' = slotted \ {p}
    /\ Release(p) /\ DropGate(p)
    /\ Goto(p, "done")
    /\ UNCHANGED lease

\* A PUT cancelled before a thread takes its commit withdraws it.  A commit that
\* has begun runs to its end with nobody to answer.
PutWithdraws(p) ==
    /\ pc[p] = "queued" /\ LoopFree
    /\ Goto(p, "done")
    /\ UNCHANGED <<lease, gates, slotted>>

\* A cancelled or refused image upload, which holds nothing yet.
ImageGivesUp(i) ==
    /\ pc[i] \in Streaming /\ LoopFree
    /\ Goto(i, "done")
    /\ UNCHANGED <<lease, gates, slotted>>

\* store_upload takes the lease in the coroutine itself.  When it is free the
\* image is recorded and the lease let go before the loop runs anything else.
ImageRecorded(i) ==
    /\ pc[i] = "staged" /\ LoopFree /\ lease = NoOne
    /\ Goto(i, "done")
    /\ UNCHANGED <<lease, gates, slotted>>

\* When it is not, the loop's own thread waits for it.
LoopBlocks(r) ==
    /\ \/ r \in Images /\ pc[r] = "staged"
       \/ r \in LatePuts /\ pc[r] = "idle"
    /\ LoopFree /\ lease # NoOne
    /\ Goto(r, "blocking")
    /\ UNCHANGED <<lease, gates, slotted>>

\* An image is recorded, and an expired session is gone: 410 or 404.
LoopUnblocks(r) ==
    /\ pc[r] = "blocking" /\ lease = NoOne
    /\ Goto(r, "done")
    /\ UNCHANGED <<lease, gates, slotted>>

\* The recovery gave the session back, and the PUT goes on.
LatePutGoesOn(p) ==
    /\ pc[p] = "blocking" /\ lease = NoOne
    /\ LeaseGate(p)
    /\ Goto(p, "polling gate")
    /\ UNCHANGED <<lease, owner, slotted>>

-----------------------------------------------------------------------------
(* Threads.  A DELETE first drains the gate without the lease; the cleanup   *)
(* and the commits wait in the executor's queue for a thread.                *)

CancelArrives(c) ==
    /\ pc[c] = "idle" /\ LoopFree
    /\ LeaseGate(c)
    /\ Goto(c, "draining")
    /\ UNCHANGED <<lease, owner, slotted>>

CancelDrained(c) ==
    /\ pc[c] = "draining" /\ GateOpen(c)
    /\ DropGate(c)
    /\ Goto(c, "leasing")
    /\ UNCHANGED <<lease, owner, slotted>>

CleanerArrives(k) ==
    /\ pc[k] = "idle" /\ LoopFree
    /\ Goto(k, "queued")
    /\ UNCHANGED <<lease, gates, slotted>>

JobStarts(r) ==
    /\ pc[r] = "queued" /\ ThreadFree
    /\ Goto(r, "leasing")
    /\ UNCHANGED <<lease, gates, slotted>>

\* The canonical order of commit, DELETE and cleanup: library, then inbound.
TakeLease(r) ==
    /\ pc[r] = "leasing" /\ lease = NoOne
    /\ lease' = r
    /\ Goto(r, "joining")
    /\ UNCHANGED <<gates, slotted>>

JoinGate(r) ==
    /\ pc[r] = "joining"
    /\ LeaseGate(r)
    /\ Goto(r, "waiting gate")
    /\ UNCHANGED <<lease, owner, slotted>>

\* A version that counts on the gate having been drained:
TakeGateDrained(r) ==
    /\ pc[r] = "waiting gate"
    /\ Goto(r, "working")
    /\ UNCHANGED <<lease, gates, slotted>>

TakeGate(r) ==
    /\ pc[r] = "waiting gate"
    /\ Acquire(r)
    /\ Goto(r, "working")
    /\ UNCHANGED <<lease, registry, users, using, slotted>>

\* The work is done, or refused by the fresh checks: gate, then lease.
Finish(r) ==
    /\ pc[r] = "working"
    /\ Release(r) /\ DropGate(r)
    /\ lease' = NoOne
    /\ Goto(r, "done")
    /\ UNCHANGED slotted

-----------------------------------------------------------------------------
Arrive(r) ==
    \/ r \in Puts /\ PutArrives(r)
    \/ r \in Images /\ ImageArrives(r)
    \/ r \in Cancels /\ CancelArrives(r)
    \/ r \in Cleaners /\ CleanerArrives(r)

Proceed(r) ==
    \/ r \in Puts /\ (PutTakesGate(r) \/ PutTakesSlot(r) \/ PutSubmits(r))
    \/ r \in Puts \cup Images /\ (Received(r) \/ FlushStarts(r) \/ Flushed(r))
    \/ r \in Images /\ ImageRecorded(r)
    \/ r \in Images \cup LatePuts /\ LoopUnblocks(r)
    \/ r \in LatePuts /\ LatePutGoesOn(r)
    \/ r \in Images /\ LoopBlocks(r)
    \/ r \in Cancels /\ CancelDrained(r)
    \/ r \in Puts \cup Cleaners /\ JobStarts(r)
    \/ r \in Requests \ Images /\ (TakeLease(r) \/ JoinGate(r) \/ TakeGate(r) \/ Finish(r))

Next ==
    \/ \E r \in Requests : Arrive(r) \/ Proceed(r)
    \/ \E p \in Puts : PutGivesUp(p) \/ PutWithdraws(p)
    \/ \E i \in Images : ImageGivesUp(i)
    \/ \E p \in LatePuts : LoopBlocks(p)

Spec == Init /\ [][Next]_vars

\* The scheduler runs every thread and every ready coroutine, and a client
\* sends the rest of its body or is disconnected; requests need not arrive.
FairSpec == Spec /\ \A r \in Requests : WF_vars(Proceed(r))

-----------------------------------------------------------------------------
\* Type invariant of the requests and of the locks.
TypeOK ==
    /\ pc \in [Requests -> Steps]
    /\ lease \in Requests \cup {NoOne}
    /\ registry \in [Uploads -> Gates \cup {NoGate}]
    /\ users \in [Uploads -> 0 .. Cardinality(Requests)]
    /\ using \in [Requests -> Gates \cup {NoGate}]
    /\ owner \in [Gates -> Requests \cup {NoOne}]
    /\ slotted \in SUBSET Puts

\* The requests inside the gate of their upload, whichever object it was.
Inside == {r \in Requests \ Images :
              \/ pc[r] \in {"polling slot", "working"}
              \/ r \in Puts /\ pc[r] \in Streaming}

\* Two requests are never inside the gate of one upload at once: reclaiming
\* and recreating gate objects never splits an upload between two of them
\* (videos.py 139-159), so no body streams into a directory being removed.
GateExclusive ==
    \A r, s \in Inside : Target[r] = Target[s] => r = s

\* A body slot is only held from inside the gate of the part's upload, so
\* duplicate PUTs of one upload never fill the slots by waiting for each other
\* (the comment at videos.py 614-617).
SlotsHeldInside ==
    slotted \subseteq {p \in Puts : p \in Inside /\ owner[using[p]] = p}

\* Who may use the files of an upload, whatever it waited for before.
Access == INSTANCE UploadAccess
            WITH streaming <- [r \in Requests |-> IF r \in slotted THEN {Target[r]} ELSE {}],
                 working <- [r \in Requests |->
                                IF pc[r] = "working" THEN {Target[r]} ELSE {}]

\* Polling, draining, counted references and reclaimed gates, a slot taken after
\* the gate and a lease before it, come to this: nobody streams into a directory
\* that another request writes or removes, bodies stay within their slots, and
\* one request at a time works under the lease (videos.py 614-620, 740-742,
\* 1384-1387).
ImplementsAccess == Access!Spec

\* The requests waiting for a gate or inside it.
AtGate == Inside \cup {r \in Requests : pc[r] \in {"polling gate", "draining", "waiting gate"}}

\* The count of a gate is the number of requests waiting for it or inside it,
\* and the registry forgets the gate exactly when there are none, also after
\* cancellations and refusals (videos.py 147-159, 722-727).
GatesReclaimed ==
    \A u \in Uploads :
        /\ users[u] = Cardinality({r \in AtGate : Target[r] = u})
        /\ (registry[u] = NoGate) = (users[u] = 0)

\* The requests one of which must move before r can: the holder of the lock it
\* waits for, or, for a thread or a slot, any of those that use one up.
Holder(x) == {x} \ {NoOne}
NeedsLoop == Polling \cup {"receiving", "staged"}
WaitsFor(r) ==
    CASE pc[r] \in {"leasing", "blocking"} -> Holder(lease)
      [] pc[r] \in {"draining", "waiting gate"} -> Holder(owner[using[r]])
      [] pc[r] \in {"flush queued", "queued"} -> IF ThreadFree THEN {} ELSE Busy
      [] pc[r] \in NeedsLoop /\ ~LoopFree -> LoopBlockers
      [] pc[r] = "polling gate" /\ LoopFree -> Holder(owner[using[r]])
      [] pc[r] = "polling slot" /\ LoopFree ->
             IF Cardinality(slotted) < PartSlots THEN {} ELSE slotted
      [] OTHER -> {}

\* No set of requests waits only for itself: the lock order of videos.py
\* 1384-1385 and 1513-1515 leaves no reverse-order wait.
NoWaitCycle ==
    \A S \in (SUBSET Requests) \ {{}} :
        \E r \in S : WaitsFor(r) = {} \/ ~(WaitsFor(r) \subseteq S)

\* Every request that arrived is answered in the end.
EveryRequestEnds ==
    \A r \in Requests : pc[r] # "idle" ~> pc[r] = "done"
=============================================================================
