--------------------------- MODULE TrafficLedger ---------------------------
(***************************************************************************)
(* What app/services/traffic.py promises, without queue, thread, batches   *)
(* or retries: an event is accepted or dropped; an accepted event is       *)
(* counted once; a flush that answers "true" answers for every event       *)
(* accepted before it was called.                                          *)
(***************************************************************************)
EXTENDS Naturals

CONSTANTS Events, Flushes

VARIABLES
    accepted,  \* events that entered
    refused,   \* events that were dropped, and reported so
    times,     \* times[e]: how often e was added to the statistics
    before,    \* before[f]: what had been accepted when flush f was called
    answer     \* answer[f]: "none", "open", "true" or "false"

ledgerVars == <<accepted, refused, times, before, answer>>

Init ==
    /\ accepted = {} /\ refused = {}
    /\ times = [e \in Events |-> 0]
    /\ before = [f \in Flushes |-> {}]
    /\ answer = [f \in Flushes |-> "none"]

Accept(e) ==
    /\ e \notin accepted \cup refused
    /\ accepted' = accepted \cup {e}
    /\ UNCHANGED <<refused, times, before, answer>>

Refuse(e) ==
    /\ e \notin accepted \cup refused
    /\ refused' = refused \cup {e}
    /\ UNCHANGED <<accepted, times, before, answer>>

Count(S) ==
    /\ S \subseteq accepted
    /\ \A e \in S : times[e] = 0
    /\ times' = [e \in Events |-> IF e \in S THEN 1 ELSE times[e]]
    /\ UNCHANGED <<accepted, refused, before, answer>>

Call(f) ==
    /\ answer[f] = "none"
    /\ answer' = [answer EXCEPT ![f] = "open"]
    /\ before' = [before EXCEPT ![f] = accepted]
    /\ UNCHANGED <<accepted, refused, times>>

Answer(f, a) ==
    /\ answer[f] = "open"
    /\ a = "true" => \A e \in before[f] : times[e] = 1
    /\ answer' = [answer EXCEPT ![f] = a]
    /\ UNCHANGED <<accepted, refused, times, before>>

Next ==
    \/ \E e \in Events : Accept(e) \/ Refuse(e)
    \/ \E S \in SUBSET Events : Count(S)
    \/ \E f \in Flushes : Call(f) \/ \E a \in {"true", "false"} : Answer(f, a)

Spec == Init /\ [][Next]_ledgerVars
=============================================================================
