--------------------------- MODULE PasteContract ----------------------------
(***************************************************************************)
(* What the disposable parameter of a POST promises: "After number of this *)
(* getting of this key, key will be removed" (docs.go).  A disposable      *)
(* paste starts with that many reads.  A read is charged first and         *)
(* answered later; a charged read may be lost with its request, and the    *)
(* paste may disappear with the reads it has left.                         *)
(***************************************************************************)
EXTENDS Integers

CONSTANTS Pastes, Limits

VARIABLES
    limit,    \* reads the poster allowed, 0 before the POST
    left,     \* reads that can still be charged
    owed,     \* reads charged and not answered
    answered  \* reads answered with the body

contract == <<limit, left, owed, answered>>

Init ==
    /\ limit = [p \in Pastes |-> 0]
    /\ left = [p \in Pastes |-> 0]
    /\ owed = [p \in Pastes |-> 0]
    /\ answered = [p \in Pastes |-> 0]

Post(p, n) ==
    /\ limit[p] = 0
    /\ limit' = [limit EXCEPT ![p] = n]
    /\ left' = [left EXCEPT ![p] = n]
    /\ UNCHANGED <<owed, answered>>

Charge(p) ==
    /\ left[p] > 0
    /\ left' = [left EXCEPT ![p] = @ - 1]
    /\ owed' = [owed EXCEPT ![p] = @ + 1]
    /\ UNCHANGED <<limit, answered>>

\* A record that expires as it is answered takes its last reads with it.
Answer(p) ==
    /\ owed[p] > 0
    /\ owed' = [owed EXCEPT ![p] = @ - 1]
    /\ answered' = [answered EXCEPT ![p] = @ + 1]
    /\ left' \in {left, [left EXCEPT ![p] = 0]}
    /\ UNCHANGED limit

\* An eternal record is answered by the step that charges it.
ChargeAndAnswer(p) ==
    /\ left[p] > 0
    /\ left' = [left EXCEPT ![p] = @ - 1]
    /\ answered' = [answered EXCEPT ![p] = @ + 1]
    /\ UNCHANGED <<limit, owed>>

\* Requests fail, keys expire: reads are given up, never won.
Lose ==
    /\ left' \in [Pastes -> Nat] /\ \A p \in Pastes : left'[p] <= left[p]
    /\ owed' \in [Pastes -> Nat] /\ \A p \in Pastes : owed'[p] <= owed[p]
    /\ UNCHANGED <<limit, answered>>

Next ==
    \/ \E p \in Pastes : \/ \E n \in Limits : Post(p, n)
                         \/ Charge(p) \/ Answer(p) \/ ChargeAndAnswer(p)
    \/ Lose

Spec == Init /\ [][Next]_contract

-----------------------------------------------------------------------------
\* The promise: never more answers than the poster allowed.
AtMostAsPromised ==
    \A p \in Pastes : answered[p] + owed[p] + left[p] <= limit[p]
=============================================================================
