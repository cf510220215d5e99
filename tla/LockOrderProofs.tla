-------------------------- MODULE LockOrderProofs --------------------------
(***************************************************************************)
(* Gates and slots of LockOrder, for any requests, uploads, slots and      *)
(* threads.  The registry is an invariant of its own, which every action   *)
(* changes through LeaseGate and DropGate only; where requests stand gives *)
(* the other one.                                                          *)
(***************************************************************************)
EXTENDS LockOrder, FiniteSetTheorems, TLAPS

\* The requests counted on the gate of upload u.
Counted(u) == {r \in Requests \ Images : using[r] # NoGate /\ Target[r] = u}

RegistryInv ==
    /\ registry \in [Uploads -> Gates \cup {NoGate}]
    /\ users \in [Uploads -> Nat]
    /\ using \in [Requests -> Gates \cup {NoGate}]
    /\ \A i \in Images : using[i] = NoGate
    /\ \A r \in Requests \ Images :
          using[r] # NoGate => registry[Target[r]] = using[r]
    /\ \A u, v \in Uploads : registry[u] = registry[v] /\ registry[u] # NoGate => u = v
    /\ \A u \in Uploads : /\ users[u] = Cardinality(Counted(u))
                          /\ (registry[u] = NoGate) = (users[u] = 0)

\* Each kind of request takes its own steps.
StepsOfKind ==
    /\ \A i \in Images : pc[i] \in {"idle", "blocking", "done"} \cup Streaming
    /\ \A r \in Cancels \cup Cleaners :
          pc[r] \notin Streaming \cup Polling \cup {"blocking"}

\* A request refers to a gate object while it waits for the gate or is inside,
\* and has acquired it exactly when it is inside.
GatesUsed ==
    /\ \A r \in Requests : using[r] # NoGate <=> r \in AtGate
    /\ \A r \in Inside : owner[using[r]] = r
    /\ \A g \in Gates : owner[g] # NoOne => owner[g] \in Inside /\ using[owner[g]] = g

ProcessInv ==
    /\ pc \in [Requests -> Steps]
    /\ lease \in Requests \cup {NoOne}
    /\ owner \in [Gates -> Requests \cup {NoOne}]
    /\ StepsOfKind /\ GatesUsed
    /\ \A p \in slotted : p \in Puts /\ pc[p] \in Streaming

IInv == RegistryInv /\ ProcessInv

-----------------------------------------------------------------------------
(* The registry *)

LEMMA FiniteRequests ==
    /\ IsFiniteSet(Requests) /\ IsFiniteSet(Uploads)
    /\ Cardinality(Requests) \in Nat /\ Cardinality(Uploads) \in Nat
  BY RequestsApart, FS_CardinalityType

LEMMA CountedFinite ==
    \A u : IsFiniteSet(Counted(u)) /\ Cardinality(Counted(u)) \in Nat
           /\ Cardinality(Counted(u)) <= Cardinality(Requests)
<1> SUFFICES ASSUME NEW u PROVE IsFiniteSet(Counted(u)) /\ Cardinality(Counted(u)) \in Nat
                               /\ Cardinality(Counted(u)) <= Cardinality(Requests)
  OBVIOUS
<1>1. Counted(u) \in SUBSET Requests
  BY DEF Counted
<1> QED BY <1>1, FiniteRequests, FS_Subset, FS_CardinalityType

\* There are more gate objects than uploads that could own one.
LEMMA FreeGate ==
    ASSUME RegistryInv, NEW r \in Requests
    PROVE  \E g \in Gates : g \notin Range(registry) \cup Range(using)
<1> SUFFICES ASSUME \A g \in Gates : g \in Range(registry) \cup Range(using)
             PROVE  FALSE
  OBVIOUS
<1>1. Gates \in SUBSET Range(registry)
  <2> SUFFICES ASSUME NEW g \in Gates, g \in Range(using)
               PROVE  g \in Range(registry)
    OBVIOUS
  <2>1. PICK q \in Requests : using[q] = g
    BY DEF RegistryInv, Range
  <2>2. g # NoGate
    BY NobodyApart
  <2>3. q \in Requests \ Images /\ Target[q] \in Uploads /\ registry[Target[q]] = g
    BY <2>1, <2>2, RequestsApart DEF RegistryInv
  <2> QED BY <2>3 DEF RegistryInv, Range
<1>2. registry \in Surjection(Uploads, Range(registry))
  BY DEF RegistryInv, Surjection, Range
<1>3. IsFiniteSet(Range(registry)) /\ Cardinality(Range(registry)) <= Cardinality(Uploads)
  BY <1>2, FiniteRequests, FS_Surjection
<1>4. Cardinality(Gates) <= Cardinality(Range(registry))
  BY <1>1, <1>3, FS_Subset
<1>5. Cardinality(Range(registry)) \in Nat /\ Cardinality(Gates) \in Nat
  BY <1>1, <1>3, FS_Subset, FS_CardinalityType
<1>6. Cardinality(Gates) = Cardinality(Requests) + Cardinality(Uploads)
  BY FiniteRequests, FS_Interval DEF Gates
<1>7. Cardinality(Requests) # 0
  BY FiniteRequests, FS_EmptySet
<1> QED BY <1>3, <1>4, <1>5, <1>6, <1>7, FiniteRequests

LEMMA GateForUpload ==
    ASSUME RegistryInv, NEW r \in Requests \ Images
    PROVE  /\ Target[r] \in Uploads /\ GateFor(Target[r]) \in Gates
           /\ registry[Target[r]] # NoGate => GateFor(Target[r]) = registry[Target[r]]
           /\ registry[Target[r]] = NoGate =>
                \A u \in Uploads : registry[u] # GateFor(Target[r])
<1>1. Target[r] \in Uploads
  BY RequestsApart
<1>2. PICK g \in Gates : g \notin Range(registry) \cup Range(using)
  BY FreeGate
<1>3. \A u \in Uploads : registry[u] \in Range(registry)
  BY DEF RegistryInv, Range
<1> QED BY <1>1, <1>2, <1>3 DEF GateFor, RegistryInv

\* Coming to a gate counts the request on it.
LEMMA LeaseGateKeeps ==
    ASSUME RegistryInv, NEW r \in Requests \ Images, using[r] = NoGate, LeaseGate(r)
    PROVE  /\ RegistryInv'
           /\ using'[r] # NoGate /\ \A s \in Requests \ {r} : using'[s] = using[s]
<1> DEFINE u == Target[r]
           g == GateFor(u)
<1>1. /\ u \in Uploads /\ g \in Gates /\ g # NoGate
      /\ using' = [using EXCEPT ![r] = g] /\ registry' = [registry EXCEPT ![u] = g]
      /\ users' = [users EXCEPT ![u] = @ + 1]
  BY GateForUpload, NobodyApart DEF LeaseGate
<1> HIDE DEF u, g
<1>2. Counted(u)' = Counted(u) \cup {r} /\ r \notin Counted(u)
  BY <1>1 DEF Counted, RegistryInv, u
<1>3. \A v \in Uploads \ {u} : Counted(v)' = Counted(v)
  BY <1>1 DEF Counted, RegistryInv, u
<1>4. Cardinality(Counted(u)') = Cardinality(Counted(u)) + 1
  BY <1>2, CountedFinite, FS_AddElement
<1>5. \A v \in Uploads : /\ users'[v] = Cardinality(Counted(v)')
                         /\ (registry'[v] = NoGate) = (users'[v] = 0)
  BY <1>1, <1>3, <1>4, CountedFinite DEF RegistryInv
<1>6. \A s \in Requests \ Images :
         using'[s] # NoGate => registry'[Target[s]] = using'[s]
  BY <1>1, GateForUpload, RequestsApart DEF RegistryInv, u, g
<1>7. \A v, w \in Uploads : registry'[v] = registry'[w] /\ registry'[v] # NoGate => v = w
  BY <1>1, GateForUpload DEF RegistryInv, u, g
<1> QED BY <1>1, <1>5, <1>6, <1>7 DEF RegistryInv

\* Leaving a gate takes the request off, and the last one takes the gate along.
LEMMA DropGateKeeps ==
    ASSUME RegistryInv, NEW r \in Requests \ Images, using[r] # NoGate, DropGate(r)
    PROVE  /\ RegistryInv'
           /\ using'[r] = NoGate /\ \A s \in Requests \ {r} : using'[s] = using[s]
<1> DEFINE u == Target[r]
<1>1. u \in Uploads /\ registry[u] = using[r] /\ r \in Counted(u)
  BY RequestsApart DEF RegistryInv, Counted
<1>2. /\ using' = [using EXCEPT ![r] = NoGate]
      /\ users' = [users EXCEPT ![u] = IF @ > 0 THEN @ - 1 ELSE 0]
      /\ registry' = [registry EXCEPT ![u] = IF users[u] > 1 THEN @ ELSE NoGate]
  BY <1>1 DEF DropGate
<1> HIDE DEF u
<1>3. Counted(u)' = Counted(u) \ {r}
  BY <1>2 DEF Counted, RegistryInv, u
<1>4. \A v \in Uploads \ {u} : Counted(v)' = Counted(v)
  BY <1>2 DEF Counted, RegistryInv, u
<1>5. Cardinality(Counted(u)') = Cardinality(Counted(u)) - 1
  BY <1>1, <1>3, CountedFinite, FS_RemoveElement
<1>6. users[u] = Cardinality(Counted(u)) /\ users[u] > 0
  BY <1>1, CountedFinite, FS_EmptySet DEF RegistryInv
<1>7. \A v \in Uploads : /\ users'[v] \in Nat /\ users'[v] = Cardinality(Counted(v)')
                         /\ (registry'[v] = NoGate) = (users'[v] = 0)
  BY <1>1, <1>2, <1>4, <1>5, <1>6, CountedFinite DEF RegistryInv
<1>8. users[u] = 1 => Counted(u) \ {r} = {}
  <2>1. IsFiniteSet(Counted(u) \ {r})
        /\ Cardinality(Counted(u) \ {r}) = Cardinality(Counted(u)) - 1
    BY <1>1, CountedFinite, FS_RemoveElement
  <2> QED BY <2>1, <1>6, FS_EmptySet
<1>9. \A s \in Requests \ Images :
         using'[s] # NoGate => registry'[Target[s]] = using'[s]
  <2> SUFFICES ASSUME NEW s \in Requests \ Images, using'[s] # NoGate
               PROVE  registry'[Target[s]] = using'[s]
    OBVIOUS
  <2>1. s # r /\ using'[s] = using[s] /\ registry[Target[s]] = using[s]
        /\ Target[s] \in Uploads
    BY <1>2, RequestsApart DEF RegistryInv
  <2>2. Target[s] = u => users[u] > 1
    BY <2>1, <1>6, <1>8, CountedFinite DEF Counted, RegistryInv
  <2> QED BY <1>2, <2>1, <2>2 DEF RegistryInv
<1> QED BY <1>1, <1>2, <1>7, <1>9 DEF RegistryInv

LEMMA RegistryKept ==
    ASSUME RegistryInv, UNCHANGED <<registry, users, using>> PROVE RegistryInv'
  BY DEF RegistryInv, Counted

-----------------------------------------------------------------------------
(* Every action keeps the invariant. *)

LEMMA KindsApart ==
    /\ Puts \subseteq Requests \ Images /\ Cancels \subseteq Requests \ Images
    /\ Cleaners \subseteq Requests \ Images /\ Images \subseteq Requests
    /\ LatePuts \subseteq Puts
    /\ Puts \cap (Cancels \cup Cleaners) = {}
    /\ NoOne \notin Requests
  BY RequestsApart, NobodyApart DEF Requests

LEMMA InitHolds == ASSUME Init PROVE IInv
<1>1. \A u : Counted(u) = {}
  BY DEF Init, Counted
<1>2. RegistryInv
  BY <1>1, FS_EmptySet, KindsApart DEF Init, RegistryInv
<1>3. ProcessInv
  BY KindsApart DEF Init, ProcessInv, StepsOfKind, GatesUsed, AtGate, Inside, Steps,
     Streaming, Polling
<1> QED BY <1>2, <1>3 DEF IInv

LEMMA InsideUsesGate ==
    ASSUME IInv
    PROVE  \A q \in Inside : q \in Requests /\ using[q] \in Gates /\ owner[using[q]] = q
<1> SUFFICES ASSUME NEW q \in Inside
             PROVE  q \in Requests /\ using[q] \in Gates /\ owner[using[q]] = q
  OBVIOUS
<1>1. q \in Requests /\ q \in AtGate
  BY DEF Inside, AtGate
<1>2. using[q] # NoGate /\ owner[using[q]] = q
  BY <1>1 DEF IInv, ProcessInv, GatesUsed
<1> QED BY <1>1, <1>2 DEF IInv, RegistryInv

\* A step that touches no gate, of a request that stays where it is with respect
\* to its gate.
LEMMA StepAside ==
    ASSUME IInv, NEW r \in Requests, NEW step \in Steps, Goto(r, step), UNCHANGED gates,
           slotted' \in SUBSET slotted \/ (r \in Puts /\ slotted' = slotted \cup {r}),
           lease' \in Requests \cup {NoOne},
           r \in slotted' => r \in Puts /\ step \in Streaming,
           r \in Images => step \in {"idle", "blocking", "done"} \cup Streaming,
           r \in Cancels \cup Cleaners => step \notin Streaming \cup Polling \cup {"blocking"},
           (r \in AtGate' <=> r \in AtGate), (r \in Inside' <=> r \in Inside)
    PROVE  IInv'
<1>1. RegistryInv'
  BY RegistryKept DEF IInv, gates
<1>2. pc' = [pc EXCEPT ![r] = step] /\ pc' \in [Requests -> Steps] /\ pc'[r] = step
      /\ \A q \in Requests \ {r} : pc'[q] = pc[q]
  BY DEF IInv, ProcessInv, Goto
<1>3. Inside' = Inside /\ AtGate' = AtGate
  <2>1. \A q \in Requests \ {r} : (q \in Inside' <=> q \in Inside)
        /\ (q \in AtGate' <=> q \in AtGate)
    BY <1>2 DEF Inside, AtGate
  <2>2. /\ Inside \subseteq Requests /\ AtGate \subseteq Requests
        /\ Inside' \subseteq Requests /\ AtGate' \subseteq Requests
    BY DEF Inside, AtGate
  <2> QED BY <2>1, <2>2
<1>4. GatesUsed'
  BY <1>3 DEF IInv, ProcessInv, GatesUsed, gates
<1>5. StepsOfKind'
  BY <1>2, KindsApart DEF IInv, ProcessInv, StepsOfKind
<1>6. \A p \in slotted' : p \in Puts /\ pc'[p] \in Streaming
  BY <1>2, KindsApart DEF IInv, ProcessInv
<1>7. owner' \in [Gates -> Requests \cup {NoOne}]
  BY DEF IInv, ProcessInv, gates
<1> QED BY <1>1, <1>2, <1>4, <1>5, <1>6, <1>7 DEF IInv, ProcessInv

\* Coming to a gate.
LEMMA ComesToGate ==
    ASSUME IInv, NEW r \in Requests \ Images,
           NEW step \in {"polling gate", "draining", "waiting gate"},
           r \notin AtGate, LeaseGate(r), Goto(r, step),
           UNCHANGED <<lease, owner, slotted>>,
           r \notin slotted,
           r \in Cancels \cup Cleaners => step # "polling gate"
    PROVE  IInv'
<1>1. using[r] = NoGate
  BY KindsApart DEF IInv, ProcessInv, GatesUsed
<1>2. /\ RegistryInv' /\ using'[r] # NoGate
      /\ \A s \in Requests \ {r} : using'[s] = using[s]
  BY <1>1, LeaseGateKeeps DEF IInv
<1>3. pc' \in [Requests -> Steps] /\ pc'[r] = step
      /\ \A q \in Requests \ {r} : pc'[q] = pc[q]
  BY KindsApart DEF IInv, ProcessInv, Goto, Steps, Blocking, Polling
<1>4. Inside' = Inside /\ AtGate' = AtGate \cup {r} /\ r \notin Inside
  BY <1>3, KindsApart DEF Inside, AtGate, Streaming
<1>5. GatesUsed'
  <2>1. \A q \in Requests : using'[q] # NoGate <=> q \in AtGate'
    BY <1>2, <1>4 DEF IInv, ProcessInv, GatesUsed
  <2>2. \A q \in Inside : q \in Requests \ {r}
    BY <1>4 DEF Inside
  <2>3. \A q \in Inside' : owner'[using'[q]] = q
    BY <1>2, <1>4, <2>2 DEF IInv, ProcessInv, GatesUsed
  <2>4. \A g \in Gates : owner'[g] # NoOne => owner'[g] \in Inside' /\ using'[owner'[g]] = g
    BY <1>2, <1>4, <2>2 DEF IInv, ProcessInv, GatesUsed
  <2> QED BY <2>1, <2>3, <2>4 DEF GatesUsed
<1>6. StepsOfKind'
  BY <1>3, KindsApart DEF IInv, ProcessInv, StepsOfKind, Streaming, Polling
<1>7. \A p \in slotted' : p \in Puts /\ pc'[p] \in Streaming
  BY <1>3, KindsApart DEF IInv, ProcessInv
<1> QED BY <1>2, <1>3, <1>5, <1>6, <1>7 DEF IInv, ProcessInv

\* Going inside.
LEMMA GoesInside ==
    ASSUME IInv, NEW r \in Requests \ Images, NEW step \in {"polling slot", "working"},
           pc[r] \in {"polling gate", "waiting gate"}, Acquire(r), Goto(r, step),
           UNCHANGED <<lease, registry, users, using, slotted>>,
           r \in Cancels \cup Cleaners => step # "polling slot"
    PROVE  IInv'
<1>1. RegistryInv'
  BY RegistryKept DEF IInv
<1>2. pc' \in [Requests -> Steps] /\ pc'[r] = step
      /\ \A q \in Requests \ {r} : pc'[q] = pc[q]
  BY KindsApart DEF IInv, ProcessInv, Goto, Steps, Blocking, Polling
<1>3. Inside' = Inside \cup {r} /\ AtGate' = AtGate /\ r \in AtGate /\ r \notin Inside
  BY <1>2, KindsApart DEF Inside, AtGate, Streaming
<1>4. using[r] \in Gates /\ using[r] # NoGate
  <2>1. using \in [Requests -> Gates \cup {NoGate}] /\ GatesUsed
    BY DEF IInv, ProcessInv, RegistryInv
  <2>2. r \in Requests /\ using[r] # NoGate
    BY <1>3, <2>1 DEF GatesUsed
  <2> QED BY <2>1, <2>2
<1>5. owner' = [owner EXCEPT ![using[r]] = r] /\ owner[using[r]] = NoOne
  BY DEF Acquire, GateOpen
<1>6. GatesUsed'
  <2>1. \A q \in Requests : using'[q] # NoGate <=> q \in AtGate'
    BY <1>3 DEF IInv, ProcessInv, GatesUsed
  <2>2. \A q \in Inside : using[q] \in Gates /\ owner[using[q]] = q /\ q # NoOne
    BY InsideUsesGate, KindsApart
  <2>3. \A q \in Inside' : owner'[using'[q]] = q
    BY <1>3, <1>4, <1>5, <2>2 DEF IInv, ProcessInv
  <2>4. \A g \in Gates : owner'[g] # NoOne => owner'[g] \in Inside' /\ using'[owner'[g]] = g
    BY <1>3, <1>4, <1>5 DEF IInv, ProcessInv, GatesUsed
  <2> QED BY <2>1, <2>3, <2>4 DEF GatesUsed
<1>7. StepsOfKind'
  BY <1>2, KindsApart DEF IInv, ProcessInv, StepsOfKind, Streaming, Polling
<1>8. \A p \in slotted' : p \in Puts /\ pc'[p] \in Streaming
  BY <1>2, KindsApart DEF IInv, ProcessInv, Streaming
<1>9. owner' \in [Gates -> Requests \cup {NoOne}]
  BY <1>4, <1>5 DEF IInv, ProcessInv
<1> QED BY <1>1, <1>2, <1>6, <1>7, <1>8, <1>9 DEF IInv, ProcessInv

\* Leaving the gate, from inside or from the wait for it.
LEMMA LeavesGate ==
    ASSUME IInv, NEW r \in Requests \ Images, NEW step \in {"queued", "leasing", "done"},
           r \in AtGate, DropGate(r), Goto(r, step),
           Release(r) \/ (r \notin Inside /\ owner' = owner),
           slotted' \in SUBSET (slotted \ {r}), lease' \in Requests \cup {NoOne}
    PROVE  IInv'
<1>1. using[r] # NoGate
  BY KindsApart DEF IInv, ProcessInv, GatesUsed
<1>2. /\ RegistryInv' /\ using'[r] = NoGate
      /\ \A s \in Requests \ {r} : using'[s] = using[s]
  BY <1>1, DropGateKeeps DEF IInv
<1>3. pc' \in [Requests -> Steps] /\ pc'[r] = step
      /\ \A q \in Requests \ {r} : pc'[q] = pc[q]
  BY KindsApart DEF IInv, ProcessInv, Goto, Steps, Blocking, Polling
<1>4. Inside' = Inside \ {r} /\ AtGate' = AtGate \ {r}
  BY <1>3, KindsApart DEF Inside, AtGate, Streaming
<1>5. using[r] \in Gates
  BY <1>1 DEF IInv, RegistryInv
<1>6. owner' \in [Gates -> Requests \cup {NoOne}]
      /\ \A g \in Gates : owner'[g] = IF owner[g] = r THEN NoOne ELSE owner[g]
  BY <1>5 DEF IInv, ProcessInv, GatesUsed, Release
<1>7. GatesUsed'
  <2>1. \A q \in Requests : using'[q] # NoGate <=> q \in AtGate'
    BY <1>2, <1>4 DEF IInv, ProcessInv, GatesUsed
  <2>2. \A q \in Inside : using[q] \in Gates /\ owner[using[q]] = q /\ q \in Requests
    BY InsideUsesGate, KindsApart
  <2>3. \A q \in Inside' : owner'[using'[q]] = q
    BY <1>2, <1>4, <1>6, <2>2
  <2>4. \A g \in Gates : owner'[g] # NoOne => owner'[g] \in Inside' /\ using'[owner'[g]] = g
    BY <1>2, <1>4, <1>6, <2>2 DEF IInv, ProcessInv, GatesUsed
  <2> QED BY <2>1, <2>3, <2>4 DEF GatesUsed
<1>8. StepsOfKind'
  BY <1>3, KindsApart DEF IInv, ProcessInv, StepsOfKind, Streaming, Polling
<1>9. \A p \in slotted' : p \in Puts /\ pc'[p] \in Streaming
  BY <1>3, KindsApart DEF IInv, ProcessInv
<1> QED BY <1>2, <1>3, <1>6, <1>7, <1>8, <1>9 DEF IInv, ProcessInv

-----------------------------------------------------------------------------
LEMMA ArriveKeeps ==
    ASSUME IInv, NEW r \in Requests, Arrive(r)
    PROVE  IInv'
<1>1. CASE r \in Puts /\ PutArrives(r)
  <2>1. r \notin AtGate /\ r \notin slotted
    BY <1>1 DEF PutArrives, AtGate, Inside, Streaming, IInv, ProcessInv
  <2> QED BY <1>1, <2>1, ComesToGate, KindsApart DEF PutArrives
<1>2. CASE r \in Images /\ ImageArrives(r)
  BY <1>2, StepAside, KindsApart
     DEF ImageArrives, AtGate, Inside, Streaming, Steps, IInv, ProcessInv, Goto
<1>3. CASE r \in Cancels /\ CancelArrives(r)
  <2>1. r \notin AtGate /\ r \notin slotted
    BY <1>3 DEF CancelArrives, AtGate, Inside, Streaming, IInv, ProcessInv
  <2> QED BY <1>3, <2>1, ComesToGate, KindsApart DEF CancelArrives
<1>4. CASE r \in Cleaners /\ CleanerArrives(r)
  BY <1>4, StepAside, KindsApart
     DEF CleanerArrives, AtGate, Inside, Streaming, Polling, Steps, IInv, ProcessInv, Goto
<1> QED BY <1>1, <1>2, <1>3, <1>4 DEF Arrive

\* A PUT between its arrival and its commit.
LEMMA StreamKeeps ==
    ASSUME IInv, NEW r \in Puts,
           PutTakesGate(r) \/ PutTakesSlot(r) \/ PutSubmits(r) \/ PutGivesUp(r)
    PROVE  IInv'
<1>1. CASE PutTakesGate(r)
  BY <1>1, GoesInside, KindsApart DEF PutTakesGate
<1>2. CASE PutTakesSlot(r)
  <2>1. pc' = [pc EXCEPT ![r] = "receiving"] /\ pc'[r] = "receiving"
    BY <1>2, KindsApart DEF PutTakesSlot, IInv, ProcessInv, Goto
  <2>2. (r \in AtGate' <=> r \in AtGate) /\ (r \in Inside' <=> r \in Inside)
    BY <1>2, <2>1, KindsApart DEF PutTakesSlot, AtGate, Inside, Streaming
  <2> QED BY <1>2, <2>2, StepAside, KindsApart
             DEF PutTakesSlot, Streaming, Steps, IInv, ProcessInv
<1>3. CASE PutSubmits(r)
  <2>1. r \in AtGate
    BY <1>3, KindsApart DEF PutSubmits, AtGate, Inside, Streaming
  <2> QED BY <1>3, <2>1, LeavesGate, KindsApart DEF PutSubmits, IInv, ProcessInv
<1>4. CASE PutGivesUp(r)
  <2>1. r \in AtGate
    BY <1>4, KindsApart DEF PutGivesUp, AtGate, Inside, Streaming, Polling
  <2> QED BY <1>4, <2>1, LeavesGate, KindsApart DEF PutGivesUp, IInv, ProcessInv
<1> QED BY <1>1, <1>2, <1>3, <1>4

\* Steps of a request that change nothing about gates.
LEMMA AsideKeeps ==
    ASSUME IInv, NEW r \in Requests,
           \/ r \in Puts \cup Images /\ (Received(r) \/ FlushStarts(r) \/ Flushed(r))
           \/ r \in Images /\ ImageRecorded(r)
           \/ r \in Images \cup LatePuts /\ (LoopBlocks(r) \/ LoopUnblocks(r))
           \/ r \in Puts \cup Cleaners /\ JobStarts(r)
           \/ r \in Requests \ Images /\ TakeLease(r)
           \/ r \in Puts /\ PutWithdraws(r)
           \/ r \in Images /\ ImageGivesUp(r)
    PROVE  IInv'
<1> DEFINE Aside(step) ==
       /\ Goto(r, step) /\ UNCHANGED gates /\ slotted' = slotted
       /\ lease' \in Requests \cup {NoOne}
<1>1. ASSUME r \in Puts \cup Images, Received(r) \/ FlushStarts(r) \/ Flushed(r) PROVE IInv'
  <2>1. PICK step \in {"flush queued", "flushing", "staged"} : Aside(step)
    BY <1>1 DEF Received, FlushStarts, Flushed, IInv, ProcessInv
  <2>2. pc[r] \in Streaming /\ step \in Streaming
    BY <1>1 DEF Received, FlushStarts, Flushed, Streaming
  <2>3. pc'[r] = step
    BY <2>1 DEF Goto, IInv, ProcessInv
  <2>4. (r \in AtGate' <=> r \in AtGate) /\ (r \in Inside' <=> r \in Inside)
    BY <1>1, <2>2, <2>3, KindsApart DEF AtGate, Inside, Streaming
  <2> QED BY <1>1, <2>1, <2>2, <2>4, StepAside, KindsApart DEF Steps, IInv, ProcessInv
<1>2. ASSUME r \in Images \cup LatePuts,
      LoopBlocks(r) \/ LoopUnblocks(r) \/ (r \in Images /\ ImageRecorded(r))
      PROVE IInv'
  <2>1. PICK step \in {"blocking", "done"} : Aside(step)
    BY <1>2 DEF LoopBlocks, LoopUnblocks, ImageRecorded, IInv, ProcessInv
  <2>2. pc'[r] = step
    BY <2>1 DEF Goto, IInv, ProcessInv
  <2>3. r \notin AtGate /\ r \notin Inside /\ r \notin slotted
    BY <1>2, KindsApart DEF LoopBlocks, LoopUnblocks, ImageRecorded, AtGate, Inside,
         Streaming,
       IInv, ProcessInv
  <2>4. r \notin AtGate' /\ r \notin Inside'
    BY <1>2, <2>2, KindsApart DEF AtGate, Inside, Streaming
  <2> QED BY <1>2, <2>1, <2>3, <2>4, StepAside, KindsApart DEF Steps
<1>3. ASSUME r \in Requests \ Images, JobStarts(r) \/ TakeLease(r) PROVE IInv'
  <2>1. PICK step \in {"leasing", "joining"} : Aside(step)
    BY <1>3 DEF JobStarts, TakeLease, IInv, ProcessInv
  <2>2. pc'[r] = step
    BY <2>1 DEF Goto, IInv, ProcessInv
  <2>3. r \notin AtGate /\ r \notin Inside /\ r \notin slotted
    BY <1>3 DEF JobStarts, TakeLease, AtGate, Inside, Streaming, IInv, ProcessInv
  <2>4. r \notin AtGate' /\ r \notin Inside'
    BY <2>2 DEF AtGate, Inside, Streaming
  <2> QED BY <1>3, <2>1, <2>3, <2>4, StepAside, KindsApart
             DEF Steps, Blocking, Streaming, Polling
<1>4. ASSUME (r \in Puts /\ PutWithdraws(r)) \/ (r \in Images /\ ImageGivesUp(r))
      PROVE  IInv'
  <2>1. Aside("done") /\ "done" \in Steps
    BY <1>4 DEF PutWithdraws, ImageGivesUp, Steps, IInv, ProcessInv
  <2>2. pc'[r] = "done"
    BY <2>1 DEF Goto, IInv, ProcessInv
  <2>3. r \notin AtGate /\ r \notin Inside /\ r \notin slotted
    BY <1>4, KindsApart DEF PutWithdraws, ImageGivesUp, AtGate, Inside, Streaming,
       IInv, ProcessInv
  <2>4. r \notin AtGate' /\ r \notin Inside'
    BY <2>2 DEF AtGate, Inside, Streaming
  <2> QED BY <1>4, <2>1, <2>3, <2>4, StepAside, KindsApart DEF Streaming, Polling
<1> QED BY <1>1, <1>2, <1>3, <1>4, KindsApart

\* Those that come to a gate again or leave it.
LEMMA GateKeeps ==
    ASSUME IInv, NEW r \in Requests,
           \/ r \in LatePuts /\ LatePutGoesOn(r)
           \/ r \in Cancels /\ CancelDrained(r)
           \/ r \in Requests \ Images /\ (JoinGate(r) \/ TakeGate(r) \/ Finish(r))
    PROVE  IInv'
<1>1. CASE r \in LatePuts /\ LatePutGoesOn(r)
  <2>1. r \notin AtGate /\ r \notin slotted
    BY <1>1 DEF LatePutGoesOn, AtGate, Inside, Streaming, IInv, ProcessInv
  <2> QED BY <1>1, <2>1, ComesToGate, KindsApart DEF LatePutGoesOn
<1>2. CASE r \in Cancels /\ CancelDrained(r)
  <2>1. r \in AtGate /\ r \notin Inside /\ r \notin slotted
    BY <1>2, KindsApart DEF CancelDrained, AtGate, Inside, Streaming, IInv, ProcessInv
  <2> QED BY <1>2, <2>1, LeavesGate, KindsApart DEF CancelDrained, IInv, ProcessInv
<1>3. CASE r \in Requests \ Images /\ JoinGate(r)
  <2>1. r \notin AtGate /\ r \notin slotted
    BY <1>3 DEF JoinGate, AtGate, Inside, Streaming, IInv, ProcessInv
  <2> QED BY <1>3, <2>1, ComesToGate, KindsApart DEF JoinGate
<1>4. CASE r \in Requests \ Images /\ TakeGate(r)
  BY <1>4, GoesInside, KindsApart DEF TakeGate
<1>5. CASE r \in Requests \ Images /\ Finish(r)
  <2>1. r \in AtGate /\ r \notin slotted
    BY <1>5, KindsApart DEF Finish, AtGate, Inside, Streaming, IInv, ProcessInv
  <2> QED BY <1>5, <2>1, LeavesGate DEF Finish
<1> QED BY <1>1, <1>2, <1>3, <1>4, <1>5

LEMMA StepKeeps == ASSUME IInv, [Next]_vars PROVE IInv'
<1>1. ASSUME NEW r \in Requests, Proceed(r) PROVE IInv'
  BY <1>1, StreamKeeps, AsideKeeps, GateKeeps DEF Proceed
<1>2. ASSUME NEW p \in LatePuts, LoopBlocks(p) PROVE IInv'
  BY <1>2, AsideKeeps, KindsApart
<1>3. ASSUME NEW r \in Requests,
             (r \in Puts /\ PutWithdraws(r)) \/ (r \in Images /\ ImageGivesUp(r))
      PROVE  IInv'
  BY <1>3, AsideKeeps
<1>4. ASSUME UNCHANGED vars PROVE IInv'
  <2>1. RegistryInv'
    BY <1>4, RegistryKept DEF IInv, vars
  <2>2. Inside' = Inside /\ AtGate' = AtGate
    BY <1>4 DEF Inside, AtGate, vars
  <2> QED BY <1>4, <2>1, <2>2 DEF IInv, ProcessInv, StepsOfKind, GatesUsed, vars
<1> QED BY <1>1, <1>2, <1>3, <1>4, ArriveKeeps, StreamKeeps, KindsApart DEF Next

-----------------------------------------------------------------------------
(* Theorems *)

\* Registry, gate objects and requests agree in every reachable state.
THEOREM InvariantHolds == Spec => []IInv
<1> QED BY InitHolds, StepKeeps, PTL DEF Spec

\* Every variable has its type; in particular a gate object can always be found
\* for an upload, and no count exceeds the requests there are.
THEOREM TypesHold == Spec => []TypeOK
<1>1. IInv => TypeOK
  BY CountedFinite, FiniteRequests DEF IInv, RegistryInv, ProcessInv, TypeOK
<1> QED BY <1>1, InvariantHolds, PTL

LEMMA GateAlone == ASSUME IInv PROVE GateExclusive
<1> SUFFICES ASSUME NEW r \in Inside, NEW s \in Inside, Target[r] = Target[s]
             PROVE  r = s
  BY DEF GateExclusive
<1>1. r \in Requests \ Images /\ s \in Requests \ Images /\ r \in AtGate /\ s \in AtGate
  BY DEF Inside, AtGate
<1>2. using[r] = registry[Target[r]] /\ using[s] = registry[Target[s]]
  BY <1>1 DEF IInv, RegistryInv, ProcessInv, GatesUsed
<1> QED BY <1>2 DEF IInv, ProcessInv, GatesUsed

\* One request at a time is inside the gate of an upload, although gate objects
\* are reclaimed and made anew (_lease_inbound_upload_gate and its release).
THEOREM OneInsideAGate == Spec => []GateExclusive
<1> QED BY GateAlone, InvariantHolds, PTL

\* A body slot is held from inside the gate of the part's upload only.
THEOREM SlotsStayInside == Spec => []SlotsHeldInside
<1>1. IInv => SlotsHeldInside
  BY KindsApart DEF IInv, ProcessInv, GatesUsed, SlotsHeldInside, Inside
<1> QED BY <1>1, InvariantHolds, PTL

\* The registry forgets a gate with the last request that waits for it or is
\* inside it, refused and cancelled ones included, and never before.
THEOREM GatesAreReclaimed == Spec => []GatesReclaimed
<1>1. IInv => GatesReclaimed
  <2> SUFFICES ASSUME IInv, NEW u \in Uploads
               PROVE  /\ users[u] = Cardinality({r \in AtGate : Target[r] = u})
                      /\ (registry[u] = NoGate) = (users[u] = 0)
    BY DEF GatesReclaimed
  <2>1. AtGate \subseteq Requests \ Images
    BY DEF IInv, ProcessInv, StepsOfKind, AtGate, Inside, Streaming, Requests
  <2>2. {r \in AtGate : Target[r] = u} = Counted(u)
    BY <2>1 DEF IInv, ProcessInv, GatesUsed, Counted
  <2> QED BY <2>2 DEF IInv, RegistryInv
<1> QED BY <1>1, InvariantHolds, PTL

-----------------------------------------------------------------------------
(* Wait cycles *)

\* The lease is held between a request's lease and its work only, nobody but
\* image uploads and late PUTs takes it on the event loop, and only the jobs of
\* PUTs and cleanups queue for a thread.
LeaseInv ==
    /\ lease # NoOne => pc[lease] \in {"joining", "waiting gate", "working"}
    /\ \A r \in Requests : pc[r] = "blocking" => r \in Images \cup LatePuts
    /\ \A r \in Requests : pc[r] = "queued" => r \in Puts \cup Cleaners

\* Whoever is on the way to its work under the lease is the one that holds it.
Leased(r) == pc[r] \in {"joining", "waiting gate", "working"}
LeaseOwned == \A r \in Requests : Leased(r) => lease = r

LEMMA LeaseKept == ASSUME IInv, LeaseInv, [Next]_vars PROVE LeaseInv'
<1> USE DEF IInv, ProcessInv, Goto
<1>1. ASSUME NEW r \in Requests, Arrive(r) PROVE LeaseInv'
  BY <1>1, NobodyApart DEF LeaseInv, Arrive, PutArrives, ImageArrives, CancelArrives,
     CleanerArrives
<1>2. ASSUME NEW p \in Puts, PutGivesUp(p) PROVE LeaseInv'
  BY <1>2, NobodyApart DEF LeaseInv, PutGivesUp, Polling, Streaming, Requests
<1>3. ASSUME NEW r \in Requests, PutWithdraws(r) \/ ImageGivesUp(r) PROVE LeaseInv'
  BY <1>3, NobodyApart DEF LeaseInv, PutWithdraws, ImageGivesUp, Streaming
<1>4. ASSUME NEW r \in Requests, r \in Images \cup LatePuts, LoopBlocks(r)
      PROVE  LeaseInv'
  BY <1>4, NobodyApart DEF LeaseInv, LoopBlocks
<1>5. ASSUME NEW r \in Requests, Proceed(r) PROVE LeaseInv'
  <2>1. CASE TakeLease(r) \/ JoinGate(r) \/ TakeGate(r) \/ Finish(r)
    BY <2>1, NobodyApart DEF LeaseInv, TakeLease, JoinGate, TakeGate, Finish
  <2>2. CASE \/ PutTakesGate(r) \/ PutTakesSlot(r)
             \/ Received(r) \/ FlushStarts(r) \/ Flushed(r)
    BY <2>2, NobodyApart DEF LeaseInv, PutTakesGate, PutTakesSlot, Received,
       FlushStarts, Flushed
  <2>4. CASE r \in Puts /\ PutSubmits(r)
    BY <2>4, NobodyApart DEF LeaseInv, PutSubmits
  <2>3. CASE \/ ImageRecorded(r) \/ LoopUnblocks(r) \/ LatePutGoesOn(r)
             \/ CancelDrained(r) \/ JobStarts(r)
    BY <2>3, NobodyApart DEF LeaseInv, ImageRecorded, LoopUnblocks, LatePutGoesOn,
       CancelDrained, JobStarts
  <2> QED BY <1>4, <1>5, <2>1, <2>2, <2>3, <2>4 DEF Proceed
<1>6. CASE UNCHANGED vars
  BY <1>6 DEF LeaseInv, vars
<1> QED BY <1>1, <1>2, <1>3, <1>4, <1>5, <1>6, RequestsApart DEF Next, Requests

LEMMA OwnedKept ==
    ASSUME IInv, LeaseInv, LeaseOwned, [Next]_vars
    PROVE  LeaseOwned'
<1> USE DEF IInv, ProcessInv, Goto, LeaseOwned, Leased
<1>1. ASSUME NEW r \in Requests, Arrive(r) PROVE LeaseOwned'
  BY <1>1 DEF Arrive, PutArrives, ImageArrives, CancelArrives, CleanerArrives
<1>2. ASSUME NEW p \in Puts, PutGivesUp(p) PROVE LeaseOwned'
  BY <1>2 DEF PutGivesUp, Requests
<1>3. ASSUME NEW r \in Requests, PutWithdraws(r) \/ ImageGivesUp(r) PROVE LeaseOwned'
  BY <1>3 DEF PutWithdraws, ImageGivesUp
<1>4. ASSUME NEW r \in Requests, LoopBlocks(r) PROVE LeaseOwned'
  BY <1>4 DEF LoopBlocks
<1>5. ASSUME NEW r \in Requests, Proceed(r) PROVE LeaseOwned'
  <2>1. CASE TakeLease(r)
    BY <2>1, NobodyApart DEF TakeLease
  <2>2. CASE JoinGate(r) \/ TakeGate(r)
    BY <2>2 DEF JoinGate, TakeGate
  <2>3. CASE Finish(r)
    BY <2>3 DEF Finish
  <2>4. CASE \/ PutTakesGate(r) \/ PutTakesSlot(r)
             \/ Received(r) \/ FlushStarts(r) \/ Flushed(r)
    BY <2>4 DEF PutTakesGate, PutTakesSlot, Received, FlushStarts, Flushed
  <2>5. CASE PutSubmits(r)
    BY <2>5 DEF PutSubmits
  <2>6. CASE \/ ImageRecorded(r) \/ LoopUnblocks(r) \/ LatePutGoesOn(r)
             \/ CancelDrained(r) \/ JobStarts(r)
    BY <2>6 DEF ImageRecorded, LoopUnblocks, LatePutGoesOn, CancelDrained, JobStarts
  <2> QED BY <1>4, <1>5, <2>1, <2>2, <2>3, <2>4, <2>5, <2>6 DEF Proceed
<1>6. CASE UNCHANGED vars
  BY <1>6 DEF vars
<1> QED BY <1>1, <1>2, <1>3, <1>4, <1>5, <1>6, KindsApart DEF Next

LEMMA LeasesHold == Spec => [](IInv /\ LeaseInv /\ LeaseOwned)
<1>1. Init => LeaseInv /\ LeaseOwned
  BY DEF Init, LeaseInv, LeaseOwned, Leased
<1> QED BY <1>1, LeaseKept, OwnedKept, InvariantHolds, PTL DEF Spec

LEMMA OneFewer == \A used, most, there \in Nat :
                     used <= most - 1 /\ most <= there => used < there
  OBVIOUS

\* A thread can be had by everyone that needs one, if there are as many as PUTs
\* and cleanup jobs.
LEMMA ThreadsToSpare ==
    ASSUME IInv, Images = {}, Cardinality(Puts \cup Cleaners) <= Threads,
           NEW r \in Puts \cup Cleaners, pc[r] \in {"flush queued", "queued"}
    PROVE  ThreadFree
<1> DEFINE jobs == Puts \cup Cleaners
<1>1. jobs \in SUBSET Requests
  BY DEF Requests
<1>2. IsFiniteSet(jobs) /\ Cardinality(jobs) \in Nat
  BY <1>1, FiniteRequests, FS_Subset, FS_CardinalityType
<1>3. r \in jobs /\ Cardinality(jobs) <= Threads
  OBVIOUS
<1>4. Busy \in SUBSET (jobs \ {r})
  BY <1>1 DEF Busy, Requests, IInv, ProcessInv, StepsOfKind, Streaming, Blocking
<1> HIDE DEF jobs
<1>5. IsFiniteSet(jobs \ {r}) /\ Cardinality(jobs \ {r}) = Cardinality(jobs) - 1
  BY <1>2, <1>3, FS_RemoveElement
<1>6. Cardinality(Busy) <= Cardinality(jobs \ {r}) /\ IsFiniteSet(Busy)
  BY <1>4, <1>5, FS_Subset
<1>7. Cardinality(Busy) \in Nat
  BY <1>6, FS_CardinalityType
<1>8. Threads \in Nat
  BY PoolsNotEmpty
<1>9. Cardinality(Busy) <= Cardinality(jobs) - 1
  BY <1>5, <1>6
<1>10. Cardinality(Busy) < Threads
  BY <1>2, <1>3, <1>7, <1>8, <1>9, OneFewer, Zenon
<1> QED BY <1>10 DEF ThreadFree

\* Library, inbound, slot: while no coroutine takes the lease on the event loop
\* and the executor has a thread for every job, no requests wait for each other
\* in a circle, whatever PUTs, DELETEs and cleanups there are (videos.py
\* 1384-1385, 1513-1515).
THEOREM NobodyWaitsInACircle ==
    ASSUME Images = {}, LatePuts = {}, Cardinality(Puts \cup Cleaners) <= Threads
    PROVE  Spec => []NoWaitCycle
<1>1. Init => LeaseInv
  BY DEF Init, LeaseInv
<1>2. ASSUME IInv, LeaseInv PROVE NoWaitCycle
  <2> SUFFICES ASSUME NEW S \in (SUBSET Requests) \ {{}},
                      ~(\E r \in S : WaitsFor(r) = {} \/ ~(WaitsFor(r) \subseteq S))
               PROVE  FALSE
    BY DEF NoWaitCycle
  <2>0. S # {} /\ \A r \in S : WaitsFor(r) # {} /\ WaitsFor(r) \subseteq S
    OBVIOUS
  <2>1. /\ pc \in [Requests -> Steps] /\ LoopFree
        /\ \A r \in S : r \in Requests
    BY <1>2 DEF IInv, ProcessInv, LeaseInv, LoopFree, LoopBlockers
  <2>2. \A r \in S : pc[r] \notin {"flush queued", "queued"}
    <3> SUFFICES ASSUME NEW r \in S, pc[r] \in {"flush queued", "queued"}
                 PROVE  FALSE
      OBVIOUS
    <3>1. r \in Puts \cup Cleaners
      BY <1>2, <2>1 DEF IInv, ProcessInv, StepsOfKind, LeaseInv, Streaming, Requests
    <3>2. ThreadFree
      BY <1>2, <3>1, ThreadsToSpare
    <3>3. WaitsFor(r) = {}
      BY <3>2 DEF WaitsFor, ThreadFree, NeedsLoop, Polling, LoopFree
    <3> QED BY <2>0, <3>3
  <2>3. \A r \in S : pc[r] \notin Streaming \cup {"idle", "joining", "working", "done"}
    BY <2>0, <2>1, <2>2 DEF WaitsFor, Streaming, NeedsLoop, Polling
  <2>4. \A r \in S : pc[r] # "polling slot"
    <3> SUFFICES ASSUME NEW r \in S, pc[r] = "polling slot" PROVE FALSE
      OBVIOUS
    <3>1. WaitsFor(r) \subseteq slotted
      BY <2>1 DEF WaitsFor, NeedsLoop, Polling
    <3> QED BY <1>2, <2>0, <2>3, <3>1 DEF IInv, ProcessInv
  <2>5. \A r \in S : pc[r] \notin {"draining", "waiting gate", "polling gate"}
    <3> SUFFICES ASSUME NEW r \in S, pc[r] \in {"draining", "waiting gate", "polling gate"}
                 PROVE  FALSE
      OBVIOUS
    <3>1. WaitsFor(r) = Holder(owner[using[r]])
      BY <2>1 DEF WaitsFor, NeedsLoop, Polling
    <3>2. owner[using[r]] # NoOne /\ owner[using[r]] \in S
      BY <2>0, <3>1 DEF Holder
    <3>3. r \in AtGate /\ r \in Requests
      BY <2>1 DEF AtGate
    <3>4. using[r] \in Gates
      <4>1. using[r] # NoGate
        BY <1>2, <3>3 DEF IInv, ProcessInv, GatesUsed
      <4>2. using \in [Requests -> Gates \cup {NoGate}]
        BY <1>2 DEF IInv, RegistryInv
      <4> QED BY <3>3, <4>1, <4>2
    <3>5. owner[using[r]] \in Inside
      BY <1>2, <3>2, <3>4 DEF IInv, ProcessInv, GatesUsed
    <3> QED BY <2>3, <2>4, <3>2, <3>5 DEF Inside
  <2>6. \A r \in S : pc[r] # "leasing"
    <3> SUFFICES ASSUME NEW r \in S, pc[r] = "leasing" PROVE FALSE
      OBVIOUS
    <3>1. WaitsFor(r) = Holder(lease)
      BY DEF WaitsFor, NeedsLoop, Polling
    <3>2. lease # NoOne /\ lease \in S
      BY <2>0, <3>1 DEF Holder
    <3> QED BY <1>2, <2>3, <2>5, <3>2 DEF LeaseInv
  <2>7. \A r \in S : pc[r] # "blocking"
    BY <1>2 DEF LeaseInv
  <2> QED BY <2>0, <2>1, <2>2, <2>3, <2>4, <2>5, <2>6, <2>7 DEF Steps, Polling, Blocking
<1> QED BY <1>1, <1>2, LeaseKept, InvariantHolds, PTL DEF Spec

\* A gate keeps a request waiting only for another one of the same upload.
LEMMA GateOwner ==
    ASSUME IInv, NEW r \in AtGate, r \notin Inside, owner[using[r]] # NoOne
    PROVE  /\ owner[using[r]] \in Inside /\ owner[using[r]] # r
           /\ r \in Requests \ Images /\ owner[using[r]] \in Requests \ Images
           /\ Target[owner[using[r]]] = Target[r]
<1> DEFINE q == owner[using[r]]
<1>1. r \in Requests \ Images
  BY DEF IInv, ProcessInv, StepsOfKind, AtGate, Inside, Streaming, Requests
<1>2. using[r] \in Gates
  <2>1. using[r] # NoGate
    BY <1>1 DEF IInv, ProcessInv, GatesUsed
  <2> QED BY <1>1, <2>1 DEF IInv, RegistryInv
<1>3. q \in Inside /\ using[q] = using[r]
  BY <1>2 DEF IInv, ProcessInv, GatesUsed
<1>4. q \in Requests \ Images /\ Target[q] \in Uploads /\ Target[r] \in Uploads
  BY <1>1, <1>3, RequestsApart DEF Inside
<1>5. registry[Target[q]] = registry[Target[r]] /\ registry[Target[r]] # NoGate
  BY <1>1, <1>2, <1>3, <1>4, NobodyApart DEF IInv, RegistryInv
<1>6. Target[q] = Target[r]
  BY <1>4, <1>5 DEF IInv, RegistryInv
<1> QED BY <1>1, <1>3, <1>4, <1>6

\* Both deadlocks that were found need a second request of one upload: while no
\* PUT shares its upload with another request, nobody waits in a circle, with
\* image uploads and late PUTs on the event loop and with a single executor
\* thread as well.
THEOREM NobodyWaitsWithoutSharing ==
    ASSUME \A p \in Puts, r \in Requests \ Images : Target[p] = Target[r] => p = r
    PROVE  Spec => []NoWaitCycle
<1>1. ASSUME IInv, LeaseInv, LeaseOwned PROVE NoWaitCycle
  <2> SUFFICES ASSUME NEW S \in (SUBSET Requests) \ {{}},
                      ~(\E r \in S : WaitsFor(r) = {} \/ ~(WaitsFor(r) \subseteq S))
               PROVE  FALSE
    BY DEF NoWaitCycle
  <2>1. /\ pc \in [Requests -> Steps] /\ StepsOfKind
        /\ \A r \in S : r \in Requests /\ WaitsFor(r) # {} /\ WaitsFor(r) \subseteq S
    BY <1>1 DEF IInv, ProcessInv
  <2>2. \A r \in S : pc[r] \notin {"idle", "joining", "working", "done", "flushing"}
    BY <2>1 DEF WaitsFor, NeedsLoop, Polling
  <2>3. \A r \in S : pc[r] \notin {"draining", "waiting gate"}
    <3> SUFFICES ASSUME NEW r \in S, pc[r] \in {"draining", "waiting gate"} PROVE FALSE
      OBVIOUS
    <3> DEFINE q == owner[using[r]]
    <3>1. WaitsFor(r) = Holder(q)
      BY DEF WaitsFor, NeedsLoop, Polling
    <3>2. q # NoOne /\ q \in S
      BY <2>1, <3>1 DEF Holder
    <3>3. r \in AtGate /\ r \notin Inside
      BY <2>1 DEF AtGate, Inside, Streaming
    <3>4. /\ q \in Inside /\ q # r /\ Target[q] = Target[r]
          /\ r \in Requests \ Images /\ q \in Requests \ Images
      BY <1>1, <3>2, <3>3, GateOwner
    <3>5. q \notin Puts
      BY <3>4
    <3>6. q \in Cancels \cup Cleaners
      BY <3>4, <3>5 DEF Requests
    <3>7. pc[q] = "working"
      BY <2>1, <3>4, <3>5, <3>6 DEF Inside, StepsOfKind, Polling
    <3> HIDE DEF q
    <3> QED BY <2>2, <3>2, <3>7
  <2>4. \A r \in S : pc[r] \notin {"leasing", "blocking"}
    <3> SUFFICES ASSUME NEW r \in S, pc[r] \in {"leasing", "blocking"} PROVE FALSE
      OBVIOUS
    <3>1. WaitsFor(r) = Holder(lease)
      BY DEF WaitsFor, NeedsLoop, Polling
    <3>2. lease # NoOne /\ lease \in S
      BY <2>1, <3>1 DEF Holder
    <3> QED BY <1>1, <2>2, <2>3, <3>2 DEF LeaseInv
  <2>5. \A r \in S : pc[r] \notin {"flush queued", "queued"}
    <3> SUFFICES ASSUME NEW r \in S, pc[r] \in {"flush queued", "queued"} PROVE FALSE
      OBVIOUS
    <3>1. Busy # {} /\ Busy \subseteq S
      BY <2>1 DEF WaitsFor, NeedsLoop, Polling
    <3> QED BY <2>2, <2>3, <2>4, <3>1 DEF Busy, Blocking
  <2>6. \A r \in S : pc[r] \in NeedsLoop => LoopFree
    <3> SUFFICES ASSUME NEW r \in S, pc[r] \in NeedsLoop, ~LoopFree PROVE FALSE
      OBVIOUS
    <3>1. WaitsFor(r) = LoopBlockers
      BY DEF WaitsFor, NeedsLoop, Polling
    <3> QED BY <2>1, <2>4, <3>1 DEF LoopBlockers
  <2>7. \A r \in S : pc[r] \notin {"receiving", "staged"}
    BY <2>1, <2>6 DEF WaitsFor, NeedsLoop, Polling
  <2>8. \A r \in S : pc[r] # "polling gate"
    <3> SUFFICES ASSUME NEW r \in S, pc[r] = "polling gate" PROVE FALSE
      OBVIOUS
    <3> DEFINE q == owner[using[r]]
    <3>1. WaitsFor(r) = Holder(q)
      BY <2>6 DEF WaitsFor, NeedsLoop, Polling
    <3>2. q # NoOne
      BY <2>1, <3>1 DEF Holder
    <3>3. r \in AtGate /\ r \notin Inside
      BY <2>1 DEF AtGate, Inside, Streaming
    <3>4. /\ q # r /\ Target[q] = Target[r]
          /\ r \in Requests \ Images /\ q \in Requests \ Images
      BY <1>1, <3>2, <3>3, GateOwner
    <3>5. r \in Puts
      BY <2>1, <3>4 DEF StepsOfKind, Polling, Requests
    <3> QED BY <3>4, <3>5
  <2>9. \A r \in S : pc[r] # "polling slot"
    <3> SUFFICES ASSUME NEW r \in S, pc[r] = "polling slot" PROVE FALSE
      OBVIOUS
    <3>1. slotted # {} /\ slotted \subseteq S
      BY <2>1, <2>6 DEF WaitsFor, NeedsLoop, Polling
    <3>2. \A p \in slotted : pc[p] \in Streaming
      BY <1>1 DEF IInv, ProcessInv
    <3> QED BY <2>2, <2>5, <2>7, <3>1, <3>2 DEF Streaming
  <2>10. \A r \in S : pc[r] \in Steps
    BY <2>1
  <2> QED BY <2>2, <2>3, <2>4, <2>5, <2>7, <2>8, <2>9, <2>10
          DEF Steps, Streaming, Polling, Blocking
<1> QED BY <1>1, LeasesHold, PTL

-----------------------------------------------------------------------------
(* Refinement.  A slot is a body that streams and "working" is work on files; *)
(* all else waits, and the abstract exclusion does not see it.                *)

Bodies == [r \in Requests |-> IF r \in slotted THEN {Target[r]} ELSE {}]
AtWork == [r \in Requests |-> IF pc[r] = "working" THEN {Target[r]} ELSE {}]

\* What a request uses, it uses from inside the gate of its upload.
LEMMA UsersInside ==
    ASSUME IInv, NEW q \in Requests, NEW u, u \in Bodies[q] \cup AtWork[q]
    PROVE  q \in Inside /\ Target[q] = u
<1>1. Target[q] = u /\ (q \in slotted \/ pc[q] = "working")
  BY DEF Bodies, AtWork
<1>2. q \in slotted => q \in Puts /\ pc[q] \in Streaming
  BY DEF IInv, ProcessInv
<1>3. pc[q] = "working" => q \in Requests \ Images
  BY DEF IInv, ProcessInv, StepsOfKind, Streaming
<1> QED BY <1>1, <1>2, <1>3, KindsApart DEF Inside

\* A step that gives no slot and starts no work.
LEMMA Unseen ==
    ASSUME slotted' = slotted,
           \A r \in Requests : pc'[r] = "working" <=> pc[r] = "working"
    PROVE  UNCHANGED Access!accessVars
  BY DEF Access!accessVars

LEMMA InitRefines == Init => Access!Init
<1> SUFFICES ASSUME Init PROVE Access!Init
  OBVIOUS
<1>1. slotted = {} /\ \A r \in Requests : pc[r] = "idle"
  BY DEF Init
<1> QED BY <1>1 DEF Access!Init, Access!Nothing

LEMMA StreamRefines ==
    ASSUME IInv, NEW p \in Puts, PutTakesSlot(p)
    PROVE  Access!Stream(p, Target[p])
<1>1. p \in Requests \ Images /\ pc[p] = "polling slot" /\ p \in Inside /\ p \notin slotted
  BY KindsApart DEF PutTakesSlot, Inside, IInv, ProcessInv, Streaming
<1>2. pc' = [pc EXCEPT ![p] = "receiving"] /\ pc \in [Requests -> Steps]
      /\ slotted' = slotted \cup {p}
  BY DEF PutTakesSlot, Goto, IInv, ProcessInv
<1>3. \A q \in Requests : Target[p] \notin Bodies[q] \cup AtWork[q]
  <2> SUFFICES ASSUME NEW q \in Requests, Target[p] \in Bodies[q] \cup AtWork[q]
               PROVE  FALSE
    OBVIOUS
  <2>1. q \in Inside /\ Target[q] = Target[p]
    BY UsersInside
  <2>2. q = p
    BY <1>1, <2>1, GateAlone DEF GateExclusive
  <2> QED BY <1>1, <2>2 DEF Bodies, AtWork
<1>4. {q \in Requests : Bodies[q] # {}} = slotted
  BY KindsApart DEF Bodies, IInv, ProcessInv
<1>5. Cardinality(slotted) < PartSlots
  BY DEF PutTakesSlot
<1>6. Bodies' = [Bodies EXCEPT ![p] = {Target[p]}] /\ Bodies[p] = {}
  BY <1>1, <1>2 DEF Bodies
<1>7. AtWork' = AtWork
  BY <1>1, <1>2 DEF AtWork
<1>8. ~Access!InUse(Target[p])
  BY <1>3 DEF Access!InUse, Bodies, AtWork
<1>9. Access!Streaming = slotted
  BY <1>4 DEF Access!Streaming, Bodies
<1>10. Access!Cardinality(slotted) = Cardinality(slotted)
  BY DEF Access!Cardinality, Cardinality
<1> QED BY <1>5, <1>6, <1>7, <1>8, <1>9, <1>10 DEF Access!Stream, Bodies, AtWork

\* Staged, refused or cancelled: the body, if it had a slot, is over.
LEMMA StagedRefines ==
    ASSUME IInv, NEW p \in Puts, PutSubmits(p) \/ PutGivesUp(p)
    PROVE  Access!Staged(p)
<1>1. p \in Requests /\ pc[p] # "working" /\ slotted' = slotted \ {p}
  BY KindsApart DEF PutSubmits, PutGivesUp, Polling, Streaming
<1>2. /\ pc' \in [Requests -> Steps] /\ pc'[p] # "working"
      /\ \A q \in Requests \ {p} : pc'[q] = pc[q]
  BY <1>1 DEF PutSubmits, PutGivesUp, Goto, IInv, ProcessInv, Steps
<1>3. Bodies' = [Bodies EXCEPT ![p] = {}] /\ AtWork' = AtWork
  BY <1>1, <1>2 DEF Bodies, AtWork
<1> QED BY <1>3 DEF Access!Staged, Bodies, AtWork

LEMMA WorkRefines ==
    ASSUME IInv, LeaseOwned, NEW r \in Requests \ Images, TakeGate(r)
    PROVE  Access!Work(r, Target[r])
<1>1. pc[r] = "waiting gate" /\ r \in AtGate /\ r \notin Inside
  BY DEF TakeGate, AtGate, Inside, Streaming
<1>2. /\ pc' = [pc EXCEPT ![r] = "working"] /\ pc \in [Requests -> Steps]
      /\ slotted' = slotted /\ owner[using[r]] = NoOne
  BY DEF TakeGate, Goto, Acquire, GateOpen, IInv, ProcessInv
<1>3. \A q \in Requests : AtWork[q] = {}
  BY <1>1 DEF AtWork, LeaseOwned, Leased
<1>4. \A q \in Requests : Target[r] \notin Bodies[q]
  <2> SUFFICES ASSUME NEW q \in Requests, Target[r] \in Bodies[q] PROVE FALSE
    OBVIOUS
  <2>1. q \in Inside /\ Target[q] = Target[r] /\ q \in Requests \ Images
    BY UsersInside DEF Inside
  <2>2. using[q] = registry[Target[q]] /\ using[r] = registry[Target[r]]
    BY <1>1, <2>1 DEF IInv, ProcessInv, GatesUsed, RegistryInv, AtGate
  <2>3. owner[using[q]] = q
    BY <2>1 DEF IInv, ProcessInv, GatesUsed
  <2> QED BY <1>2, <2>1, <2>2, <2>3, NobodyApart
<1>5. AtWork' = [AtWork EXCEPT ![r] = {Target[r]}] /\ Bodies' = Bodies
  BY <1>2 DEF AtWork, Bodies
<1>6. AtWork = [q \in Requests |-> {}]
  BY <1>3 DEF AtWork
<1> QED BY <1>3, <1>4, <1>5, <1>6
        DEF Access!Work, Access!InUse, Access!Nothing, Bodies, AtWork

LEMMA DoneRefines ==
    ASSUME IInv, NEW r \in Requests, Finish(r)
    PROVE  Access!Done(r)
<1>1. pc' = [pc EXCEPT ![r] = "done"] /\ pc \in [Requests -> Steps] /\ slotted' = slotted
  BY DEF Finish, Goto, IInv, ProcessInv
<1>2. AtWork' = [AtWork EXCEPT ![r] = {}] /\ Bodies' = Bodies
  BY <1>1 DEF AtWork, Bodies
<1> QED BY <1>2 DEF Access!Done, Bodies, AtWork

LEMMA StepRefines ==
    ASSUME IInv, LeaseOwned, [Next]_vars
    PROVE  [Access!Next]_(Access!accessVars)
<1>1. ASSUME NEW r \in Requests, NEW step \in Steps \ {"working"},
             pc[r] # "working", Goto(r, step), slotted' = slotted
      PROVE  UNCHANGED Access!accessVars
  <2>1. pc' = [pc EXCEPT ![r] = step] /\ pc \in [Requests -> Steps]
    BY <1>1 DEF Goto, IInv, ProcessInv
  <2>2. \A q \in Requests : pc'[q] = "working" <=> pc[q] = "working"
    BY <1>1, <2>1
  <2> QED BY <1>1, <2>2, Unseen
<1>2. ASSUME NEW r \in Requests, Arrive(r) PROVE UNCHANGED Access!accessVars
  BY <1>1, <1>2 DEF Arrive, PutArrives, ImageArrives, CancelArrives, CleanerArrives,
     Steps, Polling, Streaming
<1>3. ASSUME NEW p \in Puts, PutGivesUp(p) \/ PutSubmits(p) PROVE Access!Next
  BY <1>3, StagedRefines, KindsApart DEF Access!Next
<1>4. ASSUME NEW r \in Requests, LoopBlocks(r) PROVE UNCHANGED Access!accessVars
  <2>1. pc[r] # "working"
    BY <1>4 DEF LoopBlocks
  <2> QED BY <1>1, <1>4, <2>1 DEF LoopBlocks, Steps
<1>5. ASSUME NEW r \in Requests, PutWithdraws(r) \/ ImageGivesUp(r)
      PROVE  UNCHANGED Access!accessVars
  <2>1. pc[r] # "working"
    BY <1>5 DEF PutWithdraws, ImageGivesUp, Streaming
  <2> QED BY <1>1, <1>5, <2>1 DEF PutWithdraws, ImageGivesUp, Steps
<1>6. ASSUME NEW r \in Requests, Proceed(r)
      PROVE  [Access!Next]_(Access!accessVars)
  <2>1. CASE PutTakesGate(r) \/ Received(r) \/ FlushStarts(r) \/ Flushed(r)
    BY <1>1, <2>1 DEF PutTakesGate, Received, FlushStarts, Flushed, Steps, Polling,
       Streaming
  <2>2. CASE \/ ImageRecorded(r) \/ LoopUnblocks(r) \/ LatePutGoesOn(r)
             \/ CancelDrained(r) \/ JobStarts(r)
    BY <1>1, <2>2 DEF ImageRecorded, LoopUnblocks, LatePutGoesOn, CancelDrained,
       JobStarts, Steps, Polling, Blocking
  <2>3. CASE TakeLease(r) \/ JoinGate(r)
    BY <1>1, <2>3 DEF TakeLease, JoinGate, Steps, Blocking
  <2>4. CASE r \in Puts /\ PutTakesSlot(r)
    BY <2>4, StreamRefines, KindsApart, RequestsApart DEF Access!Next
  <2>5. CASE r \in Requests \ Images /\ TakeGate(r)
    BY <2>5, WorkRefines, RequestsApart DEF Access!Next
  <2>6. CASE Finish(r)
    BY <2>6, DoneRefines DEF Access!Next
  <2> QED BY <1>3, <1>4, <1>6, <2>1, <2>2, <2>3, <2>4, <2>5, <2>6 DEF Proceed
<1>7. CASE UNCHANGED vars
  BY <1>7, Unseen DEF vars
<1> QED BY <1>2, <1>3, <1>4, <1>5, <1>6, <1>7, KindsApart DEF Next

\* Polling, draining, counted gates and slots come to the exclusion that
\* VideoUpload takes for granted when it acquires them in one step.
THEOREM LocksImplementAccess == Spec => ImplementsAccess
<1> QED BY InitRefines, StepRefines, LeasesHold, PTL DEF Spec, ImplementsAccess, Access!Spec
=============================================================================
