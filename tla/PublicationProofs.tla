------------------------- MODULE PublicationProofs -------------------------
(* What a library that behaves as Publication says can be relied on for.   *)
EXTENDS Publication, TLAPS

\* The invariant that every step of Publication preserves.
PubInv == PubTypeOK /\ EntriesOfPublished /\ ServedOnce

\* At first nothing is served.
LEMMA InitPubInv == Init => PubInv
  BY DEF Init, PubInv, PubTypeOK, EntriesOfPublished, ServedOnce

\* Opening an upload touches no entry.
LEMMA OpenKeeps ==
    ASSUME PubInv, NEW u \in Uploads, Open(u)
    PROVE  PubInv'
<1>1. PubTypeOK'
  BY DEF PubInv, PubTypeOK, Open
<1>2. EntriesOfPublished'
  <2> SUFFICES ASSUME NEW c \in Codes, library'[c] # None
               PROVE  session'[library'[c].upload] \in {"published", "gone"}
    BY DEF EntriesOfPublished
  <2>1. library' = library /\ session[library[c].upload] \in {"published", "gone"}
    BY DEF PubInv, EntriesOfPublished, Open
  <2>2. session[library[c].upload] # session[u]
    BY <2>1 DEF Open
  <2> QED
    BY <2>1, <2>2 DEF PubInv, PubTypeOK, Open
<1>3. ServedOnce'
  BY DEF PubInv, ServedOnce, Open
<1> QED
  BY <1>1, <1>2, <1>3 DEF PubInv

\* The upload published was open, so no entry stems from it yet.
LEMMA PublishKeeps ==
    ASSUME PubInv, NEW u \in Uploads, NEW c \in Codes, NEW f \in Good[u],
           Publish(u, c, f)
    PROVE  PubInv'
<1> DEFINE entry == [upload |-> u, file |-> f]
<1>1. entry \in Entries
  <2>1. entry \in [upload : {u}, file : Good[u]]
    OBVIOUS
  <2> QED
    BY <2>1 DEF Entries
<1>2. /\ session' = [session EXCEPT ![u] = "published"]
      /\ library' = [library EXCEPT ![c] = entry]
      /\ session[u] = "open"
  BY DEF Publish
<1>3. PubTypeOK'
  BY <1>1, <1>2 DEF PubInv, PubTypeOK
<1>4. \A d \in Codes : library[d] # None => library[d].upload # u
  BY <1>2 DEF PubInv, EntriesOfPublished
<1>5. EntriesOfPublished'
  <2> SUFFICES ASSUME NEW d \in Codes, library'[d] # None
               PROVE  session'[library'[d].upload] \in {"published", "gone"}
    BY DEF EntriesOfPublished
  <2>1. CASE d = c
    BY <2>1, <1>2 DEF PubInv, PubTypeOK
  <2>2. CASE d # c
    <3>1. library'[d] = library[d]
      BY <2>2, <1>2 DEF PubInv, PubTypeOK
    <3>2. session[library[d].upload] \in {"published", "gone"}
      BY <3>1 DEF PubInv, EntriesOfPublished
    <3> QED
      BY <3>1, <3>2, <1>2, <1>4 DEF PubInv, PubTypeOK
  <2> QED
    BY <2>1, <2>2
<1>6. ServedOnce'
  <2> SUFFICES ASSUME NEW d \in Codes, NEW e \in Codes,
                      library'[d] # None, library'[e] # None,
                      library'[d].upload = library'[e].upload
               PROVE  d = e
    BY DEF ServedOnce
  <2>1. \A x \in Codes : library'[x] = IF x = c THEN entry ELSE library[x]
    BY <1>2 DEF PubInv, PubTypeOK
  <2>2. CASE d # c /\ e # c
    BY <2>1, <2>2 DEF PubInv, ServedOnce
  <2>3. CASE d = c \/ e = c
    BY <2>1, <2>3, <1>4
  <2> QED
    BY <2>2, <2>3
<1> QED
  BY <1>3, <1>5, <1>6 DEF PubInv

\* Withdrawing only removes entries, and only publication and withdrawal are
\* left behind.
LEMMA WithdrawKeeps ==
    ASSUME PubInv, NEW us \in SUBSET Uploads, NEW cs \in SUBSET Codes,
           Withdraw(us, cs)
    PROVE  PubInv'
<1>1. \A c \in Codes : library'[c] = None \/ library'[c] = library[c]
  BY DEF Withdraw
<1>2. \A u \in DOMAIN session : session[u] \in {"published", "gone"}
                                   => session'[u] \in {"published", "gone"}
  BY DEF Withdraw, PubInv, PubTypeOK
<1>3. PubTypeOK'
  BY DEF Withdraw, PubInv, PubTypeOK
<1>4. EntriesOfPublished'
  <2> SUFFICES ASSUME NEW c \in Codes, library'[c] # None
               PROVE  session'[library'[c].upload] \in {"published", "gone"}
    BY DEF EntriesOfPublished
  <2>1. library'[c] = library[c] /\ library[c] \in Entries
    BY <1>1 DEF PubInv, PubTypeOK
  <2>2. library[c].upload \in Uploads
    BY <2>1 DEF Entries
  <2> QED
    BY <1>2, <2>1, <2>2 DEF PubInv, PubTypeOK, EntriesOfPublished
<1>5. ServedOnce'
  <2> SUFFICES ASSUME NEW c \in Codes, NEW d \in Codes,
                      library'[c] # None, library'[d] # None,
                      library'[c].upload = library'[d].upload
               PROVE  c = d
    BY DEF ServedOnce
  <2> QED
    BY <1>1 DEF PubInv, ServedOnce
<1> QED
  BY <1>3, <1>4, <1>5 DEF PubInv

LEMMA StepKeepsPubInv == PubInv /\ [Next]_pubVars => PubInv'
<1> SUFFICES ASSUME PubInv, [Next]_pubVars PROVE PubInv'
  OBVIOUS
<1>1. CASE UNCHANGED pubVars
  BY <1>1 DEF pubVars, PubInv, PubTypeOK, EntriesOfPublished, ServedOnce
<1>2. CASE Next
  BY <1>2, OpenKeeps, PublishKeeps, WithdrawKeeps DEF Next
<1> QED
  BY <1>1, <1>2

\* No upload is ever served under two codes.
THEOREM OnceEach == Spec => []ServedOnce
<1>1. PubInv => ServedOnce
  BY DEF PubInv
<1> QED
  BY <1>1, InitPubInv, StepKeepsPubInv, PTL DEF Spec

\* An entry is replaced by nothing but its absence: what a code serves is the
\* same file as long as it is served.
THEOREM UnchangedWhileServed == Spec => ServedUnchanged
<1> DEFINE Kept == \A c \in Codes : library[c] # None => library'[c] \in {library[c], None}
<1>1. ASSUME PubInv, [Next]_pubVars PROVE [Kept]_pubVars
  <2> SUFFICES ASSUME ~ UNCHANGED pubVars PROVE Kept
    OBVIOUS
  <2>1. ASSUME NEW u \in Uploads, Open(u) PROVE Kept
    BY <2>1 DEF Open
  <2>2. ASSUME NEW u \in Uploads, NEW c \in Codes, NEW f \in Good[u], Publish(u, c, f)
        PROVE  Kept
    BY <2>2 DEF Publish, PubInv, PubTypeOK
  <2>3. ASSUME NEW us \in SUBSET Uploads, NEW cs \in SUBSET Codes, Withdraw(us, cs)
        PROVE  Kept
    BY <2>3 DEF Withdraw
  <2> QED
    BY <1>1, <2>1, <2>2, <2>3 DEF Next
<1> QED
  BY <1>1, InitPubInv, StepKeepsPubInv, PTL DEF Spec, ServedUnchanged
=============================================================================
