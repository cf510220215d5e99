------------------------ MODULE TrafficWriterProofs ------------------------
(* What TrafficWriter keeps, for any number of requests, flushes, accounts  *)
(* and keys and any limits of queue and batch.                              *)
EXTENDS TrafficWriter, FiniteSetTheorems, TLAPS

Places == 1 .. Len(queue)

\* No event waits twice, and one that waits is neither in the batch nor counted.
QueuedApart ==
    /\ \A i, j \in Places : queue[i] = queue[j] /\ queue[i] \in Events => i = j
    /\ \A i \in Places : queue[i] \in Events =>
         stage[queue[i]] = "queued" /\ queue[i] \notin batch /\ times[queue[i]] = 0

\* The batch is counted exactly when its rows have been committed.
BatchCounted ==
    /\ wpc \in {"dead", "get", "control"} => batch = {}
    /\ \A e \in batch : /\ stage[e] = "queued"
                        /\ times[e] = IF wpc = "prune" THEN 1 ELSE 0

\* An event that entered the queue is still on its way or counted.
Located(e) ==
    /\ times[e] \in {0, 1}
    /\ times[e] = 1 => stage[e] = "queued"
    /\ stage[e] = "queued" =>
         times[e] = 1 \/ e \in batch \/ \E i \in Places : queue[i] = e

NothingLost == \A e \in Events : Located(e)

\* Nothing a flush answers for is behind its barrier.
InOrder(f) ==
    /\ before[f] \subseteq Accepted
    /\ fpc[f] \in {"idle", "putting"} =>
         f # item /\ f \notin done /\ \A i \in Places : queue[i] # f
    /\ \A i, j \in Places : queue[i] = f /\ i < j => queue[j] \notin before[f]
    /\ item = f => \A j \in Places : queue[j] \notin before[f]
    /\ f \in done => \A e \in before[f] : times[e] = 1

BarriersBehind == \A f \in Flushes : InOrder(f)

\* The names resolved under the lease still stand when they are written.
ResolvedFresh ==
    wpc = "write" => \A e \in batch :
        /\ names[e].user \in users \cup {Nobody}
        /\ names[e].key # Nobody => Holder[names[e].key] = names[e].user

IInv == /\ TypeOK /\ QueuedApart /\ BatchCounted /\ NothingLost
        /\ BarriersBehind /\ FlushSeesEarlier /\ ResolvedFresh /\ NoDeletedNames

-----------------------------------------------------------------------------
(* The queue *)

LEMMA AppendPlaces ==
    ASSUME NEW q \in Seq(Items), NEW x \in Items
    PROVE  /\ Append(q, x) \in Seq(Items) /\ Len(Append(q, x)) = Len(q) + 1
           /\ Len(q) \in Nat
           /\ \A i \in 1 .. Len(q) + 1 :
                Append(q, x)[i] = IF i <= Len(q) THEN q[i] ELSE x
  OBVIOUS

LEMMA TailPlaces ==
    ASSUME NEW q \in Seq(Items), q # <<>>
    PROVE  /\ Head(q) = q[1] /\ Head(q) \in Items /\ Len(q) \in Nat \ {0}
           /\ Tail(q) \in Seq(Items) /\ Len(Tail(q)) = Len(q) - 1
           /\ \A i \in 1 .. Len(q) - 1 : Tail(q)[i] = q[i + 1]
  OBVIOUS

-----------------------------------------------------------------------------
(* Every action keeps the invariant. *)

LEMMA PutKeeps == ASSUME IInv, NEW e0 \in Events, Put(e0) PROVE IInv'
<1> USE TrafficAssumption
<1> DEFINE U == UNCHANGED <<dbVars, started, writerVars, flushVars, spc>>
<1>1. CASE Len(queue) < QueueLimit
  <2>1. /\ stage[e0] = "putting" /\ queue' = Append(queue, e0)
        /\ stage' = [stage EXCEPT ![e0] = "queued"] /\ U
    BY <1>1 DEF Put
  <2>2. /\ queue' \in Seq(Items) /\ Len(queue') = Len(queue) + 1 /\ Len(queue) \in Nat
        /\ \A i \in 1 .. Len(queue) + 1 :
             queue'[i] = IF i <= Len(queue) THEN queue[i] ELSE e0
    BY <2>1, AppendPlaces DEF IInv, TypeOK, Items
  <2>3. TypeOK'
    BY <1>1, <2>1, <2>2 DEF IInv, TypeOK, Stages, dbVars, writerVars, flushVars
  <2>4. /\ e0 \notin batch /\ times[e0] = 0 /\ \A i \in Places : queue[i] # e0
        /\ e0 \notin Accepted
    BY <2>1 DEF IInv, BatchCounted, QueuedApart, NothingLost, Located, Accepted
  <2>5. QueuedApart'
    BY <2>1, <2>2, <2>4 DEF IInv, TypeOK, QueuedApart, Places, dbVars, writerVars
  <2>6. BatchCounted'
    BY <2>1, <2>4 DEF IInv, TypeOK, BatchCounted, dbVars, writerVars
  <2>7. NothingLost'
    <3> SUFFICES ASSUME NEW e \in Events PROVE Located(e)' BY DEF NothingLost
    <3>1. CASE e = e0
      <4>1. stage'[e] = "queued" /\ times'[e] = 0
        BY <2>1, <2>4, <3>1 DEF IInv, TypeOK, dbVars
      <4>2. Len(queue) + 1 \in Places' /\ queue'[Len(queue) + 1] = e
        BY <2>2, <3>1 DEF Places
      <4> QED BY <4>1, <4>2 DEF Located
    <3>2. CASE e # e0
      BY <2>1, <2>2, <3>2 DEF IInv, TypeOK, NothingLost, Located, Places, dbVars, writerVars
    <3> QED BY <3>1, <3>2
  <2>8. BarriersBehind'
    <3> SUFFICES ASSUME NEW f \in Flushes PROVE InOrder(f)' BY DEF BarriersBehind
    <3>1. (before[f] \subseteq Accepted)'
      BY <2>1 DEF IInv, TypeOK, BarriersBehind, InOrder, Accepted, flushVars
    <3>2. e0 \notin before[f] /\ f # e0
      BY <2>4 DEF IInv, BarriersBehind, InOrder
    <3> QED
      BY <2>1, <2>2, <3>1, <3>2 DEF IInv, TypeOK, BarriersBehind, InOrder, Places, dbVars,
           writerVars, flushVars
  <2>9. FlushSeesEarlier' /\ ResolvedFresh' /\ NoDeletedNames'
    BY <2>1 DEF IInv, FlushSeesEarlier, ResolvedFresh, NoDeletedNames, dbVars, writerVars,
         flushVars
  <2> QED BY <2>3, <2>5, <2>6, <2>7, <2>8, <2>9 DEF IInv
<1>2. CASE ~ (Len(queue) < QueueLimit)
  <2>1. /\ stage[e0] = "putting" /\ UNCHANGED queue
        /\ stage' = [stage EXCEPT ![e0] = "dropped"] /\ U
    BY <1>2 DEF Put
  <2>2. TypeOK'
    BY <2>1 DEF IInv, TypeOK, Stages, dbVars, writerVars, flushVars
  <2>3. QueuedApart' /\ BatchCounted' /\ NothingLost'
    BY <2>1 DEF IInv, TypeOK, QueuedApart, BatchCounted, NothingLost, Located, Places,
         dbVars, writerVars
  <2>4. BarriersBehind'
    BY <2>1 DEF IInv, TypeOK, BarriersBehind, InOrder, Places, Accepted, dbVars,
         writerVars, flushVars
  <2>5. FlushSeesEarlier' /\ ResolvedFresh' /\ NoDeletedNames'
    BY <2>1 DEF IInv, FlushSeesEarlier, ResolvedFresh, NoDeletedNames, dbVars, writerVars,
         flushVars
  <2> QED BY <2>2, <2>3, <2>4, <2>5 DEF IInv
<1> QED BY <1>1, <1>2

LEMMA GetKeeps == ASSUME IInv, Get PROVE IInv'
<1> USE TrafficAssumption
<1>1. /\ wpc = "get" /\ batch = {} /\ queue # <<>> /\ queue' = Tail(queue)
      /\ UNCHANGED <<dbVars, stage, started, names, flushVars, spc>>
  BY DEF IInv, BatchCounted, Get
<1>2. /\ Head(queue) = queue[1] /\ Head(queue) \in Items /\ Len(queue) \in Nat \ {0}
      /\ queue' \in Seq(Items) /\ Len(queue') = Len(queue) - 1
      /\ \A i \in 1 .. Len(queue) - 1 : queue'[i] = queue[i + 1]
  BY <1>1, TailPlaces DEF IInv, TypeOK
<1>3. \/ Head(queue) \in Events /\ batch' = {Head(queue)} /\ wpc' = "drain"
         /\ UNCHANGED item
      \/ Head(queue) \in Controls /\ item' = Head(queue) /\ wpc' = "control"
         /\ UNCHANGED batch
  BY <1>2 DEF Get, Items
<1>4. TypeOK'
  BY <1>1, <1>2, <1>3 DEF IInv, TypeOK, dbVars, flushVars
<1>5. 1 \in Places /\ \A i \in Places' : i \in Places /\ i + 1 \in Places
      /\ queue'[i] = queue[i + 1]
  BY <1>2 DEF Places
<1>6. QueuedApart'
  <2>1. \A i \in Places' : queue'[i] # queue[1] \/ queue[1] \notin Events
    BY <1>2, <1>5 DEF IInv, QueuedApart, Places
  <2>2. \A i, j \in Places' : queue'[i] = queue'[j] /\ queue'[i] \in Events => i = j
    <3> TAKE i, j \in Places'
    <3>1. i \in Int /\ j \in Int
      BY <1>2 DEF Places
    <3> QED BY <1>5, <3>1 DEF IInv, QueuedApart
  <2>3. \A i \in Places' : queue'[i] \in Events =>
          stage[queue'[i]] = "queued" /\ queue'[i] \notin batch' /\ times[queue'[i]] = 0
    <3> SUFFICES ASSUME NEW i \in Places', queue'[i] \in Events
                 PROVE  stage[queue'[i]] = "queued" /\ queue'[i] \notin batch'
                        /\ times[queue'[i]] = 0
      OBVIOUS
    <3>1. stage[queue'[i]] = "queued" /\ times[queue'[i]] = 0
      BY <1>5 DEF IInv, QueuedApart
    <3>2. queue'[i] \notin batch'
      BY <1>1, <1>2, <1>3, <2>1
    <3> QED BY <3>1, <3>2
  <2> QED BY <1>1, <2>2, <2>3 DEF QueuedApart, dbVars
<1>7. BatchCounted'
  BY <1>1, <1>2, <1>3, <1>5 DEF IInv, BatchCounted, QueuedApart, dbVars, Controls
<1>8. NothingLost'
  <2> SUFFICES ASSUME NEW e \in Events PROVE Located(e)' BY DEF NothingLost
  <2>1. ASSUME NEW i \in Places, queue[i] = e
        PROVE  e \in batch' \/ \E j \in Places' : queue'[j] = e
    <3>1. CASE i = 1
      BY <1>2, <1>3, <2>1, <3>1, TrafficAssumption DEF Controls
    <3>2. CASE i # 1
      <4>1. i - 1 \in Places' /\ i - 1 + 1 = i
        BY <1>2, <3>2 DEF Places
      <4> QED BY <1>2, <1>5, <2>1, <4>1
    <3> QED BY <3>1, <3>2
  <2> QED BY <1>1, <2>1 DEF IInv, NothingLost, Located, dbVars
<1>9. BarriersBehind'
  <2> SUFFICES ASSUME NEW f \in Flushes PROVE InOrder(f)' BY DEF BarriersBehind
  <2>1. \A i \in Places' : queue[1] = f => queue'[i] \notin before[f]
    BY <1>2, <1>5 DEF IInv, BarriersBehind, InOrder, Places
  <2> QED
    BY <1>1, <1>2, <1>3, <1>5, <2>1 DEF IInv, BarriersBehind, InOrder, Places, Accepted,
         dbVars, flushVars
<1>10. FlushSeesEarlier' /\ ResolvedFresh' /\ NoDeletedNames'
  BY <1>1, <1>3 DEF IInv, FlushSeesEarlier, ResolvedFresh, NoDeletedNames, dbVars, flushVars
<1> QED BY <1>4, <1>6, <1>7, <1>8, <1>9, <1>10 DEF IInv

LEMMA ControlKeeps == ASSUME IInv, Control PROVE IInv'
<1> USE TrafficAssumption
<1>1. /\ wpc = "control" /\ batch = {} /\ item' = Nobody
      /\ done' = IF item \in Flushes THEN done \cup {item} ELSE done
      /\ wpc' \in {"dead", "get"} /\ item \in Controls \cup {Nobody}
      /\ UNCHANGED <<dbVars, stage, queue, started, batch, names, fpc, before, spc>>
  BY DEF IInv, TypeOK, BatchCounted, Control
<1>2. TypeOK'
  BY <1>1 DEF IInv, TypeOK, dbVars
<1>3. QueuedApart' /\ BatchCounted'
  BY <1>1 DEF IInv, QueuedApart, BatchCounted, Places, dbVars
<1>4. NothingLost'
  BY <1>1 DEF IInv, NothingLost, Located, Places, dbVars
<1>5. BarriersBehind'
  <2> SUFFICES ASSUME NEW f \in Flushes PROVE InOrder(f)' BY DEF BarriersBehind
  <2>1. item = f => \A e \in before[f] : times[e] = 1
    <3> SUFFICES ASSUME item = f, NEW e \in before[f] PROVE times[e] = 1
      OBVIOUS
    <3>1. e \in Events /\ stage[e] = "queued" /\ ~ \E j \in Places : queue[j] = e
      BY DEF IInv, BarriersBehind, InOrder, Accepted
    <3> QED BY <1>1, <3>1 DEF IInv, NothingLost, Located
  <2> QED
    BY <1>1, <2>1 DEF IInv, BarriersBehind, InOrder, Places, Accepted, dbVars
<1>6. FlushSeesEarlier' /\ ResolvedFresh' /\ NoDeletedNames'
  BY <1>1 DEF IInv, FlushSeesEarlier, ResolvedFresh, NoDeletedNames, dbVars
<1> QED BY <1>2, <1>3, <1>4, <1>5, <1>6 DEF IInv

LEMMA DrainKeeps == ASSUME IInv, Drain PROVE IInv'
<1> USE TrafficAssumption
<1>1. /\ wpc = "drain" /\ queue # <<>> /\ queue' = Tail(queue)
      /\ UNCHANGED <<dbVars, stage, started, names, flushVars, spc>>
  BY DEF Drain
<1>2. /\ Head(queue) = queue[1] /\ Head(queue) \in Items /\ Len(queue) \in Nat \ {0}
      /\ queue' \in Seq(Items) /\ Len(queue') = Len(queue) - 1
      /\ \A i \in 1 .. Len(queue) - 1 : queue'[i] = queue[i + 1]
  BY <1>1, TailPlaces DEF IInv, TypeOK
<1>3. \/ /\ Head(queue) \in Events /\ batch' = batch \cup {Head(queue)}
         /\ UNCHANGED <<wpc, item>>
      \/ /\ Head(queue) \in Controls /\ item' = Head(queue) /\ wpc' = "commit"
         /\ UNCHANGED batch
  BY <1>2 DEF Drain, Items
<1>4. TypeOK'
  BY <1>1, <1>2, <1>3 DEF IInv, TypeOK, dbVars, flushVars
<1>5. 1 \in Places /\ \A i \in Places' : i \in Places /\ i + 1 \in Places
      /\ queue'[i] = queue[i + 1]
  BY <1>2 DEF Places
<1>6. QueuedApart'
  <2>1. \A i \in Places' : queue'[i] # queue[1] \/ queue[1] \notin Events
    BY <1>2, <1>5 DEF IInv, QueuedApart, Places
  <2>2. \A i, j \in Places' : queue'[i] = queue'[j] /\ queue'[i] \in Events => i = j
    <3> TAKE i, j \in Places'
    <3>1. i \in Int /\ j \in Int
      BY <1>2 DEF Places
    <3> QED BY <1>5, <3>1 DEF IInv, QueuedApart
  <2>3. \A i \in Places' : queue'[i] \in Events =>
          stage[queue'[i]] = "queued" /\ queue'[i] \notin batch' /\ times[queue'[i]] = 0
    <3> SUFFICES ASSUME NEW i \in Places', queue'[i] \in Events
                 PROVE  stage[queue'[i]] = "queued" /\ queue'[i] \notin batch'
                        /\ times[queue'[i]] = 0
      OBVIOUS
    <3>1. stage[queue'[i]] = "queued" /\ times[queue'[i]] = 0 /\ queue'[i] \notin batch
      BY <1>5 DEF IInv, QueuedApart
    <3>2. queue'[i] \notin batch'
      BY <1>1, <1>2, <1>3, <2>1, <3>1
    <3> QED BY <3>1, <3>2
  <2> QED BY <1>1, <2>2, <2>3 DEF QueuedApart, dbVars
<1>7. BatchCounted'
  BY <1>1, <1>2, <1>3, <1>5 DEF IInv, BatchCounted, QueuedApart, dbVars, Controls
<1>8. NothingLost'
  <2> SUFFICES ASSUME NEW e \in Events PROVE Located(e)' BY DEF NothingLost
  <2>1. ASSUME NEW i \in Places, queue[i] = e
        PROVE  e \in batch' \/ \E j \in Places' : queue'[j] = e
    <3>1. CASE i = 1
      BY <1>2, <1>3, <2>1, <3>1 DEF Controls
    <3>2. CASE i # 1
      <4>1. i - 1 \in Places' /\ i - 1 + 1 = i
        BY <1>2, <3>2 DEF Places
      <4> QED BY <1>2, <1>5, <2>1, <4>1
    <3> QED BY <3>1, <3>2
  <2>2. batch \subseteq batch'
    BY <1>3
  <2> QED BY <1>1, <2>1, <2>2 DEF IInv, NothingLost, Located, dbVars
<1>9. BarriersBehind'
  <2> SUFFICES ASSUME NEW f \in Flushes PROVE InOrder(f)' BY DEF BarriersBehind
  <2>1. \A i \in Places' : queue[1] = f => queue'[i] \notin before[f]
    BY <1>2, <1>5 DEF IInv, BarriersBehind, InOrder, Places
  <2> QED
    BY <1>1, <1>2, <1>3, <1>5, <2>1 DEF IInv, BarriersBehind, InOrder, Places, Accepted,
         dbVars, flushVars
<1>10. FlushSeesEarlier' /\ ResolvedFresh' /\ NoDeletedNames'
  BY <1>1, <1>3 DEF IInv, FlushSeesEarlier, ResolvedFresh, NoDeletedNames, dbVars, flushVars
<1> QED BY <1>4, <1>6, <1>7, <1>8, <1>9, <1>10 DEF IInv

LEMMA ShutdownStopsKeeps == ASSUME IInv, ShutdownStops PROVE IInv'
<1> USE TrafficAssumption
<1>1. UNCHANGED <<dbVars, stage, started, writerVars, flushVars>>
  BY DEF ShutdownStops
<1>2. CASE Len(queue) < QueueLimit
  <2>1. queue' = Append(queue, Stop) /\ spc' = "joining"
    BY <1>2 DEF ShutdownStops
  <2>2. /\ queue' \in Seq(Items) /\ Len(queue') = Len(queue) + 1 /\ Len(queue) \in Nat
        /\ \A i \in 1 .. Len(queue) + 1 :
             queue'[i] = IF i <= Len(queue) THEN queue[i] ELSE Stop
    BY <2>1, AppendPlaces DEF IInv, TypeOK, Items, Controls
  <2>3. TypeOK'
    BY <1>1, <1>2, <2>1, <2>2 DEF IInv, TypeOK, dbVars, writerVars, flushVars
  <2>4. QueuedApart' /\ BatchCounted'
    BY <1>1, <2>2 DEF IInv, QueuedApart, BatchCounted, Places, dbVars, writerVars
  <2>5. NothingLost'
    BY <1>1, <2>2 DEF IInv, NothingLost, Located, Places, dbVars, writerVars
  <2>6. BarriersBehind'
    <3> SUFFICES ASSUME NEW f \in Flushes PROVE InOrder(f)' BY DEF BarriersBehind
    <3>1. Stop \notin before[f] /\ f # Stop
      BY DEF IInv, TypeOK
    <3>2. /\ \A i \in Places' : queue'[i] = f => i \in Places /\ queue[i] = f
          /\ \A i \in Places' : queue'[i] \in before[f] =>
                i \in Places /\ queue'[i] = queue[i]
      BY <2>2, <3>1 DEF Places
    <3>3. InOrder(f)
      BY DEF IInv, BarriersBehind
    <3>4. \A i, j \in Places' : queue'[i] = f /\ i < j => queue'[j] \notin before[f]
      BY <3>2, <3>3 DEF InOrder
    <3> QED
      BY <1>1, <3>2, <3>3, <3>4 DEF InOrder, Accepted, dbVars, writerVars, flushVars
  <2>7. FlushSeesEarlier' /\ ResolvedFresh' /\ NoDeletedNames'
    BY <1>1 DEF IInv, FlushSeesEarlier, ResolvedFresh, NoDeletedNames, dbVars, writerVars,
         flushVars
  <2> QED BY <2>3, <2>4, <2>5, <2>6, <2>7 DEF IInv
<1>3. CASE ~ (Len(queue) < QueueLimit)
  <2>1. queue' = queue /\ spc' = "closed"
    BY <1>3 DEF ShutdownStops
  <2>2. TypeOK' /\ QueuedApart' /\ BatchCounted' /\ NothingLost'
    BY <1>1, <2>1 DEF IInv, TypeOK, QueuedApart, BatchCounted, NothingLost, Located, Places,
       dbVars, writerVars, flushVars
  <2>3. BarriersBehind' /\ FlushSeesEarlier' /\ ResolvedFresh' /\ NoDeletedNames'
    BY <1>1, <2>1 DEF IInv, BarriersBehind, InOrder, FlushSeesEarlier, ResolvedFresh,
       NoDeletedNames, Places, Accepted, dbVars, writerVars, flushVars
  <2> QED BY <2>2, <2>3 DEF IInv
<1> QED BY <1>2, <1>3

LEMMA WrittenKeeps == ASSUME IInv, Written PROVE IInv'
<1> USE TrafficAssumption
<1>1. /\ wpc = "write" /\ wpc' = "prune" /\ names' = NoNames
      /\ times' = [e \in Events |-> IF e \in batch THEN times[e] + 1 ELSE times[e]]
      /\ label' = [e \in Events |-> IF e \in batch THEN names[e] ELSE label[e]]
      /\ UNCHANGED <<users, keys, erased, old, stage, queue, started, batch, item,
                     flushVars, spc>>
  BY DEF Written
<1>2. \A e \in batch : e \in Events /\ stage[e] = "queued" /\ times[e] = 0 /\ times'[e] = 1
  BY <1>1 DEF IInv, TypeOK, BatchCounted
<1>3. \A e \in Events : e \notin batch => times'[e] = times[e] /\ label'[e] = label[e]
  BY <1>1
<1>4. TypeOK'
  BY <1>1 DEF IInv, TypeOK, NoNames, Anonymous, Labels, flushVars
<1>5. QueuedApart' /\ BatchCounted'
  BY <1>1, <1>2, <1>3 DEF IInv, QueuedApart, BatchCounted, Places
<1>6. NothingLost'
  <2> SUFFICES ASSUME NEW e \in Events PROVE Located(e)' BY DEF NothingLost
  <2>1. CASE e \in batch
    BY <1>1, <1>2, <2>1 DEF Located
  <2>2. CASE e \notin batch
    BY <1>1, <1>3, <2>2 DEF IInv, NothingLost, Located, Places
  <2> QED BY <2>1, <2>2
<1>7. \A f \in Flushes : \A e \in before[f] : e \in Events
      /\ (times[e] = 1 => times'[e] = 1)
  BY <1>1, <1>2, <1>3 DEF IInv, TypeOK
<1>8. BarriersBehind'
  BY <1>1, <1>7 DEF IInv, BarriersBehind, InOrder, Places, Accepted, flushVars
<1>9. FlushSeesEarlier'
  BY <1>1, <1>7 DEF IInv, FlushSeesEarlier, flushVars
<1>10. ResolvedFresh'
  BY <1>1 DEF ResolvedFresh
<1>11. NoDeletedNames'
  <2> SUFFICES ASSUME NEW e \in Events, times'[e] > 0, e \notin erased
               PROVE  /\ label'[e].user \in users \cup {Nobody}
                      /\ label'[e].key # Nobody => Holder[label'[e].key] = label'[e].user
    BY <1>1 DEF NoDeletedNames
  <2>1. CASE e \in batch
    BY <1>1, <2>1 DEF IInv, ResolvedFresh
  <2>2. CASE e \notin batch
    BY <1>3, <2>2 DEF IInv, NoDeletedNames
  <2> QED BY <2>1, <2>2
<1> QED BY <1>4, <1>5, <1>6, <1>8, <1>9, <1>10, <1>11 DEF IInv

LEMMA AuthenticateKeeps == ASSUME IInv, NEW e0 \in Events, Authenticate(e0) PROVE IInv'
<1>1. TypeOK'
  BY DEF IInv, TypeOK, Stages, dbVars, writerVars, flushVars, Authenticate
<1>2. QueuedApart'
  BY DEF IInv, QueuedApart, Places, dbVars, writerVars, Authenticate
<1>3. BatchCounted'
  BY DEF IInv, BatchCounted, dbVars, writerVars, Authenticate
<1>4. NothingLost'
  BY DEF IInv, NothingLost, Located, Places, dbVars, writerVars, Authenticate
<1>5. BarriersBehind'
  BY DEF IInv, BarriersBehind, InOrder, Places, Accepted, dbVars, writerVars, flushVars,
       Authenticate
<1>6. FlushSeesEarlier'
  BY DEF IInv, FlushSeesEarlier, dbVars, flushVars, Authenticate
<1>7. ResolvedFresh'
  BY DEF IInv, ResolvedFresh, dbVars, writerVars, Authenticate
<1>8. NoDeletedNames'
  BY DEF IInv, NoDeletedNames, dbVars, Authenticate
<1> QED BY <1>1, <1>2, <1>3, <1>4, <1>5, <1>6, <1>7, <1>8 DEF IInv

LEMMA RecordKeeps == ASSUME IInv, NEW e0 \in Events, Record(e0) PROVE IInv'
<1>1. TypeOK'
  BY DEF IInv, TypeOK, Stages, dbVars, flushVars, Record, StartWorker
<1>2. QueuedApart'
  BY DEF IInv, QueuedApart, Places, Controls, dbVars, Record, StartWorker
<1>3. BatchCounted'
  BY DEF IInv, BatchCounted, dbVars, Record, StartWorker
<1>4. NothingLost'
  BY DEF IInv, NothingLost, Located, BatchCounted, Places, dbVars, Record, StartWorker
<1>5. BarriersBehind'
  BY TrafficAssumption DEF IInv, BarriersBehind, InOrder, BatchCounted, Places, Accepted,
       dbVars, flushVars, Record, StartWorker
<1>6. FlushSeesEarlier'
  BY DEF IInv, FlushSeesEarlier, dbVars, flushVars, Record
<1>7. ResolvedFresh'
  BY DEF IInv, ResolvedFresh, dbVars, Record, StartWorker
<1>8. NoDeletedNames'
  BY DEF IInv, NoDeletedNames, dbVars, Record
<1> QED BY <1>1, <1>2, <1>3, <1>4, <1>5, <1>6, <1>7, <1>8 DEF IInv

LEMMA DrainedKeeps == ASSUME IInv, Drained PROVE IInv'
<1>1. TypeOK'
  BY DEF IInv, TypeOK, dbVars, flushVars, Drained
<1>2. QueuedApart'
  BY DEF IInv, QueuedApart, Places, dbVars, Drained
<1>3. BatchCounted'
  BY DEF IInv, BatchCounted, dbVars, Drained
<1>4. NothingLost'
  BY DEF IInv, NothingLost, Located, Places, dbVars, Drained
<1>5. BarriersBehind'
  BY DEF IInv, BarriersBehind, InOrder, Places, Accepted, dbVars, flushVars, Drained
<1>6. FlushSeesEarlier'
  BY DEF IInv, FlushSeesEarlier, dbVars, flushVars, Drained
<1>7. ResolvedFresh'
  BY DEF ResolvedFresh, Drained
<1>8. NoDeletedNames'
  BY DEF IInv, NoDeletedNames, dbVars, Drained
<1> QED BY <1>1, <1>2, <1>3, <1>4, <1>5, <1>6, <1>7, <1>8 DEF IInv

LEMMA ResolveKeeps == ASSUME IInv, Resolve PROVE IInv'
<1>1. TypeOK'
  BY TrafficAssumption DEF IInv, TypeOK, Labels, Anonymous, dbVars, flushVars, Resolve,
       Identity
<1>2. QueuedApart'
  BY DEF IInv, QueuedApart, Places, dbVars, Resolve
<1>3. BatchCounted'
  BY DEF IInv, BatchCounted, dbVars, Resolve
<1>4. NothingLost'
  BY DEF IInv, NothingLost, Located, Places, dbVars, Resolve
<1>5. BarriersBehind'
  BY DEF IInv, BarriersBehind, InOrder, Places, Accepted, dbVars, flushVars, Resolve
<1>6. FlushSeesEarlier'
  BY DEF IInv, FlushSeesEarlier, dbVars, flushVars, Resolve
<1>7. ResolvedFresh'
  BY TrafficAssumption DEF IInv, TypeOK, ResolvedFresh, Anonymous, dbVars, Resolve, Identity
<1>8. NoDeletedNames'
  BY DEF IInv, NoDeletedNames, dbVars, Resolve
<1> QED BY <1>1, <1>2, <1>3, <1>4, <1>5, <1>6, <1>7, <1>8 DEF IInv

LEMMA WriteFailsKeeps == ASSUME IInv, WriteFails PROVE IInv'
<1>1. TypeOK'
  BY DEF IInv, TypeOK, Labels, Anonymous, NoNames, dbVars, flushVars, WriteFails
<1>2. QueuedApart'
  BY DEF IInv, QueuedApart, Places, dbVars, WriteFails
<1>3. BatchCounted'
  BY DEF IInv, BatchCounted, dbVars, WriteFails
<1>4. NothingLost'
  BY DEF IInv, NothingLost, Located, Places, dbVars, WriteFails
<1>5. BarriersBehind'
  BY DEF IInv, BarriersBehind, InOrder, Places, Accepted, dbVars, flushVars, WriteFails
<1>6. FlushSeesEarlier'
  BY DEF IInv, FlushSeesEarlier, dbVars, flushVars, WriteFails
<1>7. ResolvedFresh'
  BY DEF ResolvedFresh, WriteFails
<1>8. NoDeletedNames'
  BY DEF IInv, NoDeletedNames, dbVars, WriteFails
<1> QED BY <1>1, <1>2, <1>3, <1>4, <1>5, <1>6, <1>7, <1>8 DEF IInv

LEMMA PruneKeeps == ASSUME IInv, Prune PROVE IInv'
<1>1. TypeOK'
  BY DEF IInv, TypeOK, flushVars, Prune
<1>2. QueuedApart'
  BY DEF IInv, QueuedApart, Places, Prune
<1>3. BatchCounted'
  BY DEF BatchCounted, Prune
<1>4. NothingLost'
  BY DEF IInv, NothingLost, Located, BatchCounted, Places, Prune
<1>5. BarriersBehind'
  BY DEF IInv, BarriersBehind, InOrder, Places, Accepted, flushVars, Prune
<1>6. FlushSeesEarlier'
  BY DEF IInv, FlushSeesEarlier, flushVars, Prune
<1>7. ResolvedFresh'
  BY DEF ResolvedFresh, Prune
<1>8. NoDeletedNames'
  BY DEF IInv, NoDeletedNames, Prune
<1> QED BY <1>1, <1>2, <1>3, <1>4, <1>5, <1>6, <1>7, <1>8 DEF IInv

LEMMA CallKeeps == ASSUME IInv, NEW f0 \in Flushes, Call(f0) PROVE IInv'
<1>1. TypeOK'
  BY DEF IInv, TypeOK, Accepted, dbVars, Call, StartWorker
<1>2. QueuedApart'
  BY DEF IInv, QueuedApart, Places, dbVars, Call, StartWorker
<1>3. BatchCounted'
  BY DEF IInv, BatchCounted, dbVars, Call, StartWorker
<1>4. NothingLost'
  BY DEF IInv, NothingLost, Located, BatchCounted, Places, dbVars, Call, StartWorker
<1>5. BarriersBehind'
  BY TrafficAssumption DEF IInv, BarriersBehind, InOrder, Places, Accepted, dbVars, Call,
       StartWorker
<1>6. FlushSeesEarlier'
  BY DEF IInv, FlushSeesEarlier, dbVars, Call
<1>7. ResolvedFresh'
  BY DEF IInv, ResolvedFresh, dbVars, Call, StartWorker
<1>8. NoDeletedNames'
  BY DEF IInv, NoDeletedNames, dbVars, Call
<1> QED BY <1>1, <1>2, <1>3, <1>4, <1>5, <1>6, <1>7, <1>8 DEF IInv

LEMMA PutBarrierKeeps == ASSUME IInv, NEW f0 \in Flushes, PutBarrier(f0) PROVE IInv'
<1>1. TypeOK'
  BY TrafficAssumption DEF IInv, TypeOK, Items, Controls, dbVars, writerVars, PutBarrier
<1>2. QueuedApart'
  BY TrafficAssumption DEF IInv, QueuedApart, Places, dbVars, writerVars, PutBarrier
<1>3. BatchCounted'
  BY DEF IInv, BatchCounted, dbVars, writerVars, PutBarrier
<1>4. NothingLost'
  BY DEF IInv, NothingLost, Located, Places, Items, dbVars, writerVars, PutBarrier
<1>5. BarriersBehind'
  BY TrafficAssumption DEF IInv, TypeOK, BarriersBehind, InOrder, QueuedApart, Places,
       Accepted, dbVars, writerVars, PutBarrier
<1>6. FlushSeesEarlier'
  BY DEF IInv, FlushSeesEarlier, dbVars, PutBarrier
<1>7. ResolvedFresh'
  BY DEF IInv, ResolvedFresh, dbVars, writerVars, PutBarrier
<1>8. NoDeletedNames'
  BY DEF IInv, NoDeletedNames, dbVars, PutBarrier
<1> QED BY <1>1, <1>2, <1>3, <1>4, <1>5, <1>6, <1>7, <1>8 DEF IInv

LEMMA NoRoomKeeps == ASSUME IInv, NEW f0 \in Flushes, NoRoom(f0) PROVE IInv'
<1>1. TypeOK'
  BY DEF IInv, TypeOK, Answers, dbVars, writerVars, NoRoom
<1>2. QueuedApart'
  BY DEF IInv, QueuedApart, Places, dbVars, writerVars, NoRoom
<1>3. BatchCounted'
  BY DEF IInv, BatchCounted, dbVars, writerVars, NoRoom
<1>4. NothingLost'
  BY DEF IInv, NothingLost, Located, Places, dbVars, writerVars, NoRoom
<1>5. BarriersBehind'
  BY DEF IInv, BarriersBehind, InOrder, Places, Accepted, dbVars, writerVars, NoRoom
<1>6. FlushSeesEarlier'
  BY DEF IInv, FlushSeesEarlier, dbVars, NoRoom
<1>7. ResolvedFresh'
  BY DEF IInv, ResolvedFresh, dbVars, writerVars, NoRoom
<1>8. NoDeletedNames'
  BY DEF IInv, NoDeletedNames, dbVars, NoRoom
<1> QED BY <1>1, <1>2, <1>3, <1>4, <1>5, <1>6, <1>7, <1>8 DEF IInv

LEMMA AnswerKeeps == ASSUME IInv, NEW f0 \in Flushes, Answer(f0) PROVE IInv'
<1>1. TypeOK'
  BY DEF IInv, TypeOK, Answers, dbVars, writerVars, Answer
<1>2. QueuedApart'
  BY DEF IInv, QueuedApart, Places, dbVars, writerVars, Answer
<1>3. BatchCounted'
  BY DEF IInv, BatchCounted, dbVars, writerVars, Answer
<1>4. NothingLost'
  BY DEF IInv, NothingLost, Located, Places, dbVars, writerVars, Answer
<1>5. BarriersBehind'
  BY DEF IInv, BarriersBehind, InOrder, Places, Accepted, dbVars, writerVars, Answer
<1>6. FlushSeesEarlier'
  BY DEF IInv, FlushSeesEarlier, BarriersBehind, InOrder, dbVars, Answer
<1>7. ResolvedFresh'
  BY DEF IInv, ResolvedFresh, dbVars, writerVars, Answer
<1>8. NoDeletedNames'
  BY DEF IInv, NoDeletedNames, dbVars, Answer
<1> QED BY <1>1, <1>2, <1>3, <1>4, <1>5, <1>6, <1>7, <1>8 DEF IInv

LEMMA ShutdownOthersKeeps == ASSUME IInv, Shutdown \/ ShutdownLocks \/ ShutdownJoined
  PROVE IInv'
<1>1. TypeOK'
  BY DEF IInv, TypeOK, dbVars, writerVars, flushVars, Shutdown, ShutdownLocks,
       ShutdownJoined
<1>2. QueuedApart'
  BY DEF IInv, QueuedApart, Places, dbVars, writerVars, Shutdown, ShutdownLocks,
       ShutdownJoined
<1>3. BatchCounted'
  BY DEF IInv, BatchCounted, dbVars, writerVars, Shutdown, ShutdownLocks, ShutdownJoined
<1>4. NothingLost'
  BY DEF IInv, NothingLost, Located, Places, dbVars, writerVars, Shutdown, ShutdownLocks,
       ShutdownJoined
<1>5. BarriersBehind'
  BY DEF IInv, BarriersBehind, InOrder, Places, Accepted, dbVars, writerVars, flushVars,
       Shutdown, ShutdownLocks, ShutdownJoined
<1>6. FlushSeesEarlier'
  BY DEF IInv, FlushSeesEarlier, dbVars, flushVars, Shutdown, ShutdownLocks, ShutdownJoined
<1>7. ResolvedFresh'
  BY DEF IInv, ResolvedFresh, dbVars, writerVars, Shutdown, ShutdownLocks, ShutdownJoined
<1>8. NoDeletedNames'
  BY DEF IInv, NoDeletedNames, dbVars, Shutdown, ShutdownLocks, ShutdownJoined
<1> QED BY <1>1, <1>2, <1>3, <1>4, <1>5, <1>6, <1>7, <1>8 DEF IInv

LEMMA DeleteUserKeeps == ASSUME IInv, NEW u0 \in Users, DeleteUser(u0) PROVE IInv'
<1>1. TypeOK'
  BY DEF IInv, TypeOK, writerVars, flushVars, DeleteUser
<1>2. QueuedApart'
  BY DEF IInv, QueuedApart, Places, writerVars, DeleteUser
<1>3. BatchCounted'
  BY DEF IInv, BatchCounted, writerVars, DeleteUser
<1>4. NothingLost'
  BY DEF IInv, NothingLost, Located, Places, writerVars, DeleteUser
<1>5. BarriersBehind'
  BY DEF IInv, BarriersBehind, InOrder, Places, Accepted, writerVars, flushVars, DeleteUser
<1>6. FlushSeesEarlier'
  BY DEF IInv, FlushSeesEarlier, flushVars, DeleteUser
<1>7. ResolvedFresh'
  BY DEF ResolvedFresh, writerVars, DeleteUser, LeaseFree
<1>8. NoDeletedNames'
  BY DEF IInv, NoDeletedNames, DeleteUser
<1> QED BY <1>1, <1>2, <1>3, <1>4, <1>5, <1>6, <1>7, <1>8 DEF IInv

LEMMA RevokeKeyKeeps == ASSUME IInv, NEW k0 \in Keys, RevokeKey(k0) PROVE IInv'
<1>1. TypeOK'
  BY DEF IInv, TypeOK, writerVars, flushVars, RevokeKey
<1>2. QueuedApart'
  BY DEF IInv, QueuedApart, Places, writerVars, RevokeKey
<1>3. BatchCounted'
  BY DEF IInv, BatchCounted, writerVars, RevokeKey
<1>4. NothingLost'
  BY DEF IInv, NothingLost, Located, Places, writerVars, RevokeKey
<1>5. BarriersBehind'
  BY DEF IInv, BarriersBehind, InOrder, Places, Accepted, writerVars, flushVars, RevokeKey
<1>6. FlushSeesEarlier'
  BY DEF IInv, FlushSeesEarlier, flushVars, RevokeKey
<1>7. ResolvedFresh'
  BY DEF IInv, ResolvedFresh, writerVars, RevokeKey
<1>8. NoDeletedNames'
  BY DEF IInv, NoDeletedNames, RevokeKey
<1> QED BY <1>1, <1>2, <1>3, <1>4, <1>5, <1>6, <1>7, <1>8 DEF IInv

LEMMA DaysPassKeeps == ASSUME IInv, DaysPass PROVE IInv'
<1>1. TypeOK'
  BY DEF IInv, TypeOK, Accepted, writerVars, flushVars, DaysPass
<1>2. QueuedApart'
  BY DEF IInv, QueuedApart, Places, writerVars, DaysPass
<1>3. BatchCounted'
  BY DEF IInv, BatchCounted, writerVars, DaysPass
<1>4. NothingLost'
  BY DEF IInv, NothingLost, Located, Places, writerVars, DaysPass
<1>5. BarriersBehind'
  BY DEF IInv, BarriersBehind, InOrder, Places, Accepted, writerVars, flushVars, DaysPass
<1>6. FlushSeesEarlier'
  BY DEF IInv, FlushSeesEarlier, flushVars, DaysPass
<1>7. ResolvedFresh'
  BY DEF IInv, ResolvedFresh, writerVars, DaysPass
<1>8. NoDeletedNames'
  BY DEF IInv, NoDeletedNames, DaysPass
<1> QED BY <1>1, <1>2, <1>3, <1>4, <1>5, <1>6, <1>7, <1>8 DEF IInv

-----------------------------------------------------------------------------
(* The theorems *)

LEMMA InitHolds == ASSUME Init PROVE IInv
<1> USE TrafficAssumption DEF Init
<1>1. TypeOK
  <2>1. queue \in Seq(Items) /\ Len(queue) = 0
    OBVIOUS
  <2>2. stage \in [Events -> Stages] /\ times \in [Events -> Nat]
    BY DEF Stages
  <2>3. names \in [Events -> Labels] /\ label \in [Events -> Labels]
    BY DEF Labels, Anonymous, NoNames
  <2>4. /\ fpc \in [Flushes -> {"idle", "putting", "waiting"} \cup Answers]
        /\ before \in [Flushes -> SUBSET Events]
    OBVIOUS
  <2>5. Len(queue) <= QueueLimit
    BY <2>1
  <2> QED BY <2>1, <2>2, <2>3, <2>4, <2>5 DEF TypeOK
<1>2. QueuedApart /\ BatchCounted /\ NothingLost
  BY DEF QueuedApart, BatchCounted, NothingLost, Located, Places
<1>3. BarriersBehind /\ FlushSeesEarlier
  BY DEF BarriersBehind, InOrder, FlushSeesEarlier, Places
<1>4. ResolvedFresh /\ NoDeletedNames
  BY DEF ResolvedFresh, NoDeletedNames
<1> QED BY <1>1, <1>2, <1>3, <1>4 DEF IInv

LEMMA StutterKeeps == ASSUME IInv, UNCHANGED vars PROVE IInv'
<1> USE DEF vars, dbVars, writerVars, flushVars
<1>1. TypeOK' /\ QueuedApart' /\ BatchCounted'
  BY DEF IInv, TypeOK, QueuedApart, BatchCounted, Places
<1>2. NothingLost' /\ BarriersBehind'
  BY DEF IInv, NothingLost, Located, BarriersBehind, InOrder, Accepted, Places
<1>3. FlushSeesEarlier' /\ ResolvedFresh' /\ NoDeletedNames'
  BY DEF IInv, FlushSeesEarlier, ResolvedFresh, NoDeletedNames
<1> QED BY <1>1, <1>2, <1>3 DEF IInv

LEMMA InvariantKept == IInv /\ [Next]_vars => IInv'
<1> SUFFICES ASSUME IInv, Next PROVE IInv'
  BY StutterKeeps
<1>1. ASSUME NEW e \in Events, Authenticate(e) \/ Record(e) \/ Put(e) PROVE IInv'
  BY <1>1, AuthenticateKeeps, RecordKeeps, PutKeeps
<1>2. CASE Writer
  BY <1>2, GetKeeps, DrainKeeps, DrainedKeeps, ResolveKeeps, WrittenKeeps, WriteFailsKeeps,
     PruneKeeps, ControlKeeps DEF Writer
<1>3. ASSUME NEW f \in Flushes, Call(f) \/ PutBarrier(f) \/ NoRoom(f) \/ Answer(f)
      PROVE IInv'
  BY <1>3, CallKeeps, PutBarrierKeeps, NoRoomKeeps, AnswerKeeps
<1>4. CASE Shutdown \/ ShutdownLocks \/ ShutdownStops \/ ShutdownJoined
  BY <1>4, ShutdownStopsKeeps, ShutdownOthersKeeps
<1>5. ASSUME NEW u \in Users, DeleteUser(u) PROVE IInv'
  BY <1>5, DeleteUserKeeps
<1>6. ASSUME NEW k \in Keys, RevokeKey(k) PROVE IInv'
  BY <1>6, RevokeKeyKeeps
<1>7. CASE DaysPass
  BY <1>7, DaysPassKeeps
<1> QED BY <1>1, <1>2, <1>3, <1>4, <1>5, <1>6, <1>7 DEF Next

LEMMA InvariantHolds == Spec => []IInv
<1>1. Init => IInv
  BY InitHolds
<1> QED BY <1>1, InvariantKept, PTL DEF Spec

\* Every variable has its type, and the queue never exceeds _QUEUE_LIMIT.
THEOREM TypesHold == Spec => []TypeOK
<1>1. IInv => TypeOK
  BY DEF IInv
<1> QED BY <1>1, InvariantHolds, PTL

LEMMA CountedOnce == ASSUME IInv PROVE EachEventOnce
<1> SUFFICES ASSUME NEW e \in Events
             PROVE  Cardinality(Waiting(e)) + (IF e \in Unwritten THEN 1 ELSE 0) + times[e]
                      = IF stage[e] = "queued" THEN 1 ELSE 0
  BY DEF EachEventOnce
<1>1. times[e] \in {0, 1} /\ (times[e] = 1 => stage[e] = "queued")
  BY DEF IInv, NothingLost, Located
<1>2. e \in Unwritten <=> e \in batch /\ times[e] = 0
  BY DEF IInv, BatchCounted, Unwritten
<1>3. e \in batch => stage[e] = "queued"
  BY DEF IInv, BatchCounted
<1>4. CASE \E i \in Places : queue[i] = e
  <2>1. PICK i \in Places : queue[i] = e
    BY <1>4
  <2>2. Waiting(e) = {i}
    BY <2>1 DEF IInv, QueuedApart, Waiting, Places
  <2>3. Cardinality(Waiting(e)) = 1
    BY <2>2, FS_Singleton
  <2>4. stage[e] = "queued" /\ e \notin batch /\ times[e] = 0
    BY <2>1 DEF IInv, QueuedApart
  <2> QED BY <1>2, <2>3, <2>4
<1>5. CASE ~ \E i \in Places : queue[i] = e
  <2>1. Waiting(e) = {}
    BY <1>5 DEF Waiting, Places
  <2>2. Cardinality(Waiting(e)) = 0
    BY <2>1, FS_EmptySet
  <2>3. stage[e] = "queued" => times[e] = 1 \/ e \in batch
    BY <1>5 DEF IInv, NothingLost, Located
  <2> QED BY <1>1, <1>2, <1>3, <2>2, <2>3
<1> QED BY <1>4, <1>5

\* Retries, stop markers and restarts of the writer thread (_worker_loop) neither
\* lose nor double an event.
THEOREM EventsCountedOnce == Spec => []EachEventOnce
<1>1. IInv => EachEventOnce
  BY CountedOnce
<1> QED BY <1>1, InvariantHolds, PTL

\* A flush_traffic that answers True answers for everything queued before it.
THEOREM FlushesSeeEarlier == Spec => []FlushSeesEarlier
<1>1. IInv => FlushSeesEarlier
  BY DEF IInv
<1> QED BY <1>1, InvariantHolds, PTL

\* No row of traffic_daily names an account that was deleted (_commit_batch
\* under the lease against delete_user).
THEOREM RowsNameLiveAccounts == Spec => []NoDeletedNames
<1>1. IInv => NoDeletedNames
  BY DEF IInv
<1> QED BY <1>1, InvariantHolds, PTL

-----------------------------------------------------------------------------
(* The refinement *)

LEMMA AnswerShown ==
    ASSUME TypeOK, NEW f \in Flushes
    PROVE  /\ fpc[f] = "idle" => Answered[f] = "none"
           /\ fpc[f] \in {"putting", "waiting"} => Answered[f] = "open"
           /\ fpc[f] \in Answers => Answered[f] = fpc[f]
<1>1. fpc[f] \in {"idle", "putting", "waiting", "true", "false"}
  BY DEF TypeOK, Answers
<1> QED BY <1>1 DEF Answered, Answers

LEMMA AnswersKept == ASSUME UNCHANGED fpc PROVE Answered' = Answered
  BY DEF Answered

LEMMA AnswerGiven ==
    ASSUME TypeOK, TypeOK', NEW f \in Flushes, NEW s \in {"putting", "true", "false"},
           fpc' = [fpc EXCEPT ![f] = s]
    PROVE  Answered' = [Answered EXCEPT ![f] = IF s = "putting" THEN "open" ELSE s]
<1>1. \A g \in Flushes : g # f => Answered'[g] = Answered[g]
  BY DEF TypeOK, Answered
<1>2. Answered'[f] = IF s = "putting" THEN "open" ELSE s
  BY DEF TypeOK, Answered, Answers
<1>3. /\ Answered = [g \in Flushes |-> Answered[g]]
      /\ Answered' = [g \in Flushes |-> Answered'[g]]
  BY DEF Answered
<1> QED BY <1>1, <1>2, <1>3

LEMMA RequestsSimulate ==
    ASSUME IInv, NEW e \in Events, Authenticate(e) \/ Record(e) \/ Put(e)
    PROVE  Ledger!Next \/ UNCHANGED Ledger!ledgerVars
<1>1. UNCHANGED <<times, before, fpc>> /\ Answered' = Answered
  BY AnswersKept DEF Authenticate, Record, Put, dbVars, flushVars
<1>2. CASE stage' = [stage EXCEPT ![e] = "queued"] /\ stage[e] = "putting"
  <2>1. e \notin Accepted \cup Dropped /\ Accepted' = Accepted \cup {e}
        /\ Dropped' = Dropped
    BY <1>2 DEF IInv, TypeOK, Accepted, Dropped
  <2> QED BY <1>1, <2>1 DEF Ledger!Next, Ledger!Accept
<1>3. CASE stage' = [stage EXCEPT ![e] = "dropped"] /\ stage[e] = "putting"
  <2>1. e \notin Accepted \cup Dropped /\ Dropped' = Dropped \cup {e}
        /\ Accepted' = Accepted
    BY <1>3 DEF IInv, TypeOK, Accepted, Dropped
  <2> QED BY <1>1, <2>1 DEF Ledger!Next, Ledger!Refuse
<1>4. CASE /\ stage[e] \in {"idle", "running"}
           /\ stage' \in {[stage EXCEPT ![e] = "running"], [stage EXCEPT ![e] = "putting"]}
  <2>1. Accepted' = Accepted /\ Dropped' = Dropped
    BY <1>4 DEF IInv, TypeOK, Accepted, Dropped
  <2> QED BY <1>1, <2>1 DEF Ledger!ledgerVars
<1> QED BY <1>2, <1>3, <1>4 DEF Authenticate, Record, Put

LEMMA WriterSimulates ==
    ASSUME IInv, Writer
    PROVE  Ledger!Next \/ UNCHANGED Ledger!ledgerVars
<1>1. UNCHANGED <<stage, fpc, before>>
  BY DEF Writer, Get, Drain, Drained, Resolve, Written, WriteFails, Prune, Control,
       dbVars, flushVars
<1>2. Accepted' = Accepted /\ Dropped' = Dropped /\ Answered' = Answered
  BY <1>1, AnswersKept DEF Accepted, Dropped
<1>3. CASE Written
  <2>1. /\ batch \subseteq Accepted /\ \A e \in batch : times[e] = 0
        /\ batch \in SUBSET Events
    BY <1>3 DEF IInv, TypeOK, BatchCounted, Written, Accepted
  <2>2. times' = [e \in Events |-> IF e \in batch THEN 1 ELSE times[e]]
    BY <1>3, <2>1 DEF Written
  <2> QED BY <1>1, <1>2, <2>1, <2>2 DEF Ledger!Next, Ledger!Count
<1>4. CASE UNCHANGED times
  BY <1>1, <1>2, <1>4 DEF Ledger!ledgerVars
<1> QED
  BY <1>3, <1>4 DEF Writer, Get, Drain, Drained, Resolve, WriteFails, Prune, Control, dbVars

LEMMA FlushesSimulate ==
    ASSUME IInv, IInv', NEW f \in Flushes,
           Call(f) \/ PutBarrier(f) \/ NoRoom(f) \/ Answer(f)
    PROVE  Ledger!Next \/ UNCHANGED Ledger!ledgerVars
<1>1. UNCHANGED <<stage, times>>
  BY DEF Call, PutBarrier, NoRoom, Answer, dbVars
<1>2. Accepted' = Accepted /\ Dropped' = Dropped
  BY <1>1 DEF Accepted, Dropped
<1>3. CASE Call(f)
  <2>1. Answered[f] = "none" /\ before' = [before EXCEPT ![f] = Accepted]
    BY <1>3, AnswerShown DEF IInv, Call
  <2>2. Answered' = [Answered EXCEPT ![f] = "open"]
    BY <1>3, AnswerGiven DEF IInv, Call
  <2> QED BY <1>1, <1>2, <2>1, <2>2 DEF Ledger!Next, Ledger!Call
<1>4. CASE PutBarrier(f)
  <2>1. Answered' = Answered
    BY <1>4 DEF IInv, TypeOK, PutBarrier, Answered, Answers
  <2> QED BY <1>1, <1>2, <1>4, <2>1 DEF PutBarrier, Ledger!ledgerVars
<1>5. CASE NoRoom(f) \/ Answer(f)
  <2>1. PICK a \in {"true", "false"} :
          fpc' = [fpc EXCEPT ![f] = a] /\ (a = "true" => f \in done)
    BY <1>5 DEF NoRoom, Answer
  <2>2. Answered[f] = "open" /\ UNCHANGED before
    BY <1>5, AnswerShown DEF IInv, NoRoom, Answer
  <2>3. Answered' = [Answered EXCEPT ![f] = a]
    BY <2>1, AnswerGiven DEF IInv
  <2>4. a = "true" => \A e \in before[f] : times[e] = 1
    BY <2>1 DEF IInv, BarriersBehind, InOrder
  <2> QED BY <1>1, <1>2, <2>2, <2>3, <2>4 DEF Ledger!Next, Ledger!Answer
<1> QED BY <1>3, <1>4, <1>5

LEMMA OthersStutter ==
    ASSUME \/ Shutdown \/ ShutdownLocks \/ ShutdownStops \/ ShutdownJoined \/ DaysPass
           \/ (\E u \in Users : DeleteUser(u)) \/ (\E k \in Keys : RevokeKey(k))
           \/ UNCHANGED vars
    PROVE  UNCHANGED Ledger!ledgerVars
<1>1. UNCHANGED <<stage, times, before, fpc>>
  BY DEF Shutdown, ShutdownLocks, ShutdownStops, ShutdownJoined, DaysPass, DeleteUser,
       RevokeKey,
     vars, dbVars, flushVars
<1> QED BY <1>1, AnswersKept DEF Accepted, Dropped, Ledger!ledgerVars

\* Queue, writer thread, batches, retries and shutdown (app/services/traffic.py)
\* behave as TrafficLedger.
THEOREM RecorderImplementsLedger == Spec => ImplementsLedger
<1>1. Init => Ledger!Init
  <2> SUFFICES ASSUME Init PROVE Ledger!Init
    OBVIOUS
  <2>1. Answered = [f \in Flushes |-> "none"]
    <3>1. \A f \in Flushes : fpc[f] = "idle"
      BY DEF Init
    <3>2. \A f \in Flushes : Answered[f] = "none"
      BY <3>1, InitHolds, AnswerShown DEF IInv
    <3>3. Answered = [f \in Flushes |-> Answered[f]]
      BY DEF Answered
    <3> QED BY <3>2, <3>3
  <2>2. Accepted = {} /\ Dropped = {}
    BY DEF Init, Accepted, Dropped
  <2> QED BY <2>1, <2>2 DEF Init, Ledger!Init
<1>2. IInv /\ IInv' /\ [Next]_vars => [Ledger!Next]_(Ledger!ledgerVars)
  BY RequestsSimulate, WriterSimulates, FlushesSimulate, OthersStutter DEF Next
<1> QED BY <1>1, <1>2, InvariantHolds, PTL DEF Spec, ImplementsLedger, Ledger!Spec

=============================================================================
