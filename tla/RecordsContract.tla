-------------------------- MODULE RecordsContract ---------------------------
(***************************************************************************)
(* How the states of Records appear to a poster of disposable pastes: the  *)
(* refinement mapping to PasteContract.  It holds as long as requests for  *)
(* the same key take turns; two readers of one key at once break it        *)
(* (AtMostN in RecordsClaims).                                             *)
(***************************************************************************)
EXTENDS Records

Reading(w, p) == op[w] = "get" /\ rec[w].body = p /\ Limited(p)

\* The worker that has p in its hands and has not written it yet.
Carries(w, p) ==
    rec[w].body = p /\ pc[w] \in {"load", "body", "requested", "generate", "prepare", "hset"}

\* A reader has subtracted its read before HSET makes the charge.
Carried(w, p) ==
    rec[w].countdown + IF Reading(w, p) /\ pc[w] \in {"prepare", "hset"} THEN 1 ELSE 0

Kept(p) == IF \E k \in Keys : IsStored(p, k)
           THEN hash[CHOOSE k \in Keys : IsStored(p, k)].countdown ELSE 0

ReadsLeft == [p \in Pastes |->
    IF \E w \in Workers : Carries(w, p)
    THEN Carried(CHOOSE w \in Workers : Carries(w, p), p) ELSE Kept(p)]

ReadsOwed == [p \in Pastes |->
    IF \E w \in Workers : Reading(w, p) /\ pc[w] \in {"arm", "expire"} THEN 1 ELSE 0]

\* No two requests deal with the same key at once.
OneAtATime ==
    \A v, w \in Workers : v # w /\ key[v] = key[w] => key[v] = NoKey

\* The code, where requests for the same key take turns.
TurnsSpec == Init /\ [][Next /\ OneAtATime']_vars

Contract == INSTANCE PasteContract WITH
    Limits <- Disposables,
    limit <- [p \in Pastes |-> terms[p].disposable],
    left <- ReadsLeft, owed <- ReadsOwed, answered <- served

\* A disposable paste is charged for a read before the read is answered, once
\* per answer, and never more often than its poster allowed, whatever is lost,
\* retried, expires or crashes between the steps of one request.
ImplementsContract == Contract!Spec

\* The consequence that a poster cares about.
PromiseKept == Contract!AtMostAsPromised
=============================================================================
