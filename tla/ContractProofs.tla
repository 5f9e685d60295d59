--------------------------- MODULE ContractProofs ---------------------------
(***************************************************************************)
(* As long as requests for the same key take turns, Records refines        *)
(* PasteContract, for every value of the constants.                        *)
(*                                                                         *)
(* The reads that are left of a paste are with the request that has its    *)
(* record in hand, if there is one, and otherwise in Redis.  The argument  *)
(* is that there is at most one such request (OneHolder), that the two     *)
(* never add up, because what is stored is no more than what is in hand    *)
(* (Covered), and that a request that ends or crashes leaves what is       *)
(* stored, so that it can only give reads up.  A second reader of the key  *)
(* would break Covered: he could put back what the first has charged.      *)
(*                                                                         *)
(* Requests for other keys go on at any point; what they do to a paste is  *)
(* what the worker that has it in hand sees of it (Views).                 *)
(***************************************************************************)
EXTENDS RecordsProofs, RecordsContract

-----------------------------------------------------------------------------
(* What is left of a paste *)

\* What is stored of a paste, without a choice of its key.
Here(p) == IF home[p] \in Keys /\ IsStored(p, home[p]) THEN hash[home[p]].countdown ELSE 0

\* What PasteContract sees of a paste that no worker but w has in hand.
Left(w, p) == IF Carries(w, p) THEN Carried(w, p) ELSE Here(p)
Owed(w, p) == IF Reading(w, p) /\ pc[w] \in {"arm", "expire"} THEN 1 ELSE 0

\* A record without a limit has nothing to count down.
Uncounted(w) == rec[w].body # NoBody /\ ~Limited(rec[w].body) => rec[w].countdown = 0

StoreUncounted ==
    \A k \in Keys : hash[k] # Absent /\ ~Limited(hash[k].body) => hash[k].countdown = 0

\* Nobody else writes the key of a request under way.
Undisturbed(w) ==
    rec[w].body # NoBody /\ pc[w] \notin {"requested", "generate"} =>
        hash[key[w]] = Absent \/ hash[key[w]].body = rec[w].body

\* What is stored of a paste is no more than what a request has in its hands.
Covered(w) == \A p \in Pastes : Carries(w, p) => Here(p) <= Carried(w, p)

Fit(w) == Uncounted(w) /\ Undisturbed(w) /\ Covered(w)

DInv == StoreUncounted /\ \A w \in Workers : Fit(w)

LEMMA KeptHere ==
    ASSUME StoredGenuine, NEW p \in Pastes
    PROVE  Kept(p) = Here(p)
<1>1. \A k \in Keys : IsStored(p, k) => home[p] = k
  BY DEF StoredGenuine, IsStored
<1>2. CASE \E k \in Keys : IsStored(p, k)
  <2>1. (CHOOSE k \in Keys : IsStored(p, k)) = home[p] /\ home[p] \in Keys
        /\ IsStored(p, home[p])
    BY <1>1, <1>2
  <2> QED  BY <1>2, <2>1 DEF Kept, Here
<1>3. CASE ~\E k \in Keys : IsStored(p, k)
  BY <1>3 DEF Kept, Here
<1> QED  BY <1>2, <1>3

LEMMA KeptHereNext ==
    ASSUME StoredGenuine', NEW p \in Pastes
    PROVE  Kept(p)' = Here(p)'
<1>1. \A k \in Keys : IsStored(p, k)' => home'[p] = k
  BY DEF StoredGenuine, IsStored
<1>2. CASE \E k \in Keys : IsStored(p, k)'
  <2>1. (CHOOSE k \in Keys : IsStored(p, k)') = home'[p] /\ home'[p] \in Keys
        /\ IsStored(p, home[p])'
    BY <1>1, <1>2 DEF IsStored
  <2> QED  BY <1>2, <2>1 DEF Kept, Here
<1>3. CASE ~\E k \in Keys : IsStored(p, k)'
  BY <1>3 DEF Kept, Here, IsStored
<1> QED  BY <1>2, <1>3

-----------------------------------------------------------------------------
(* Who has a paste in hand *)

\* Requests that take turns never have the same paste in hand: one that has its
\* key is at that key, and one that has none yet is its POST.
LEMMA OneHolder ==
    ASSUME IInv, OneAtATime, NEW v \in Workers, NEW w \in Workers,
           rec[v].body \in Pastes, rec[w].body = rec[v].body
    PROVE  v = w
<1> DEFINE Unplaced(x) == pc[x] \in {"requested", "generate"}
<1>1. rec[v].body # NoBody /\ rec[w].body # NoBody
  BY NoBodyAssumption
<1>2. ASSUME NEW x \in Workers, rec[x].body = rec[v].body
      PROVE  \/ Unplaced(x) /\ op[x] \in Posts /\ home[rec[v].body] = NoKey
             \/ ~Unplaced(x) /\ key[x] \in Keys /\ home[rec[v].body] = key[x]
  BY <1>1, <1>2, NoKeyAssumption DEF IInv, Phases, Postings, ZeroRecord
<1>3. CASE Unplaced(v)
  BY <1>2, <1>3, NoKeyAssumption DEF IInv, Postings
<1>4. CASE ~Unplaced(v)
  <2>1. key[v] = key[w] /\ key[v] # NoKey
    BY <1>2, <1>4, NoKeyAssumption
  <2> QED  BY <2>1 DEF OneAtATime
<1> QED  BY <1>3, <1>4

LEMMA OneHolderNext ==
    ASSUME IInv', OneAtATime', NEW v \in Workers, NEW w \in Workers,
           rec'[v].body \in Pastes, rec'[w].body = rec'[v].body
    PROVE  v = w
<1> DEFINE Unplaced(x) == pc'[x] \in {"requested", "generate"}
<1>1. rec'[v].body # NoBody /\ rec'[w].body # NoBody
  BY NoBodyAssumption
<1>2. ASSUME NEW x \in Workers, rec'[x].body = rec'[v].body
      PROVE  \/ Unplaced(x) /\ op'[x] \in Posts /\ home'[rec'[v].body] = NoKey
             \/ ~Unplaced(x) /\ key'[x] \in Keys /\ home'[rec'[v].body] = key'[x]
  BY <1>1, <1>2, NoKeyAssumption DEF IInv, Phases, Postings, ZeroRecord
<1>3. CASE Unplaced(v)
  BY <1>2, <1>3, NoKeyAssumption DEF IInv, Postings
<1>4. CASE ~Unplaced(v)
  <2>1. key'[v] = key'[w] /\ key'[v] # NoKey
    BY <1>2, <1>4, NoKeyAssumption
  <2> QED  BY <2>1 DEF OneAtATime
<1> QED  BY <1>3, <1>4

LEMMA Seen ==
    ASSUME StoredGenuine, NEW w \in Workers, NEW p \in Pastes,
           \A v \in Workers \ {w} : rec[v].body # p
    PROVE  ReadsLeft[p] = Left(w, p) /\ ReadsOwed[p] = Owed(w, p)
<1>1. \A v \in Workers : Carries(v, p) \/ Reading(v, p) => v = w
  BY DEF Carries, Reading
<1>2. Carries(w, p) => (CHOOSE v \in Workers : Carries(v, p)) = w
  BY <1>1
<1> QED  BY <1>1, <1>2, KeptHere DEF ReadsLeft, ReadsOwed, Left, Owed

LEMMA SeenNext ==
    ASSUME StoredGenuine', NEW w \in Workers, NEW p \in Pastes,
           \A v \in Workers \ {w} : rec'[v].body # p
    PROVE  ReadsLeft'[p] = Left(w, p)' /\ ReadsOwed'[p] = Owed(w, p)'
<1>1. \A v \in Workers : Carries(v, p)' \/ Reading(v, p)' => v = w
  BY DEF Carries, Reading
<1>2. Carries(w, p)' => (CHOOSE v \in Workers : Carries(v, p)') = w
  BY <1>1
<1> QED  BY <1>1, <1>2, KeptHereNext DEF ReadsLeft, ReadsOwed, Left, Owed

LEMMA CountsType ==
    ASSUME IInv, NEW w \in Workers, NEW p \in Pastes
    PROVE  Here(p) \in Nat /\ Carried(w, p) \in Nat /\ Left(w, p) \in Nat /\ Owed(w, p) \in Nat
BY DEF IInv, TypeOK, HashRecords, IsStored, Here, Carried, Left, Owed

LEMMA CountsTypeNext ==
    ASSUME IInv', NEW w \in Workers, NEW p \in Pastes
    PROVE  Left(w, p)' \in Nat /\ Owed(w, p)' \in Nat /\ Here(p)' \in Nat
BY DEF IInv, TypeOK, HashRecords, IsStored, Here, Carried, Left, Owed

-----------------------------------------------------------------------------
(* The steps of one worker *)

\* It is the turn of w: the other requests stay where they are, and nobody changes
\* the terms of what they have in hand.
Turn(w) ==
    /\ w \in Workers /\ IInv /\ IInv' /\ OneAtATime /\ OneAtATime'
    /\ \A v \in Workers \ {w} :
          /\ pc'[v] = pc[v] /\ op'[v] = op[v] /\ key'[v] = key[v] /\ rec'[v] = rec[v]
          /\ rec[v].body \in Pastes => terms'[rec[v].body] = terms[rec[v].body]

See(w, p) == ReadsLeft[p] = Left(w, p) /\ ReadsOwed[p] = Owed(w, p)

\* What w has in hand before or after its step, no other worker has.
LEMMA Mine ==
    ASSUME NEW w, Turn(w), NEW p \in Pastes, rec[w].body = p \/ rec'[w].body = p
    PROVE  \A v \in Workers \ {w} : rec[v].body # p /\ rec'[v].body # p
<1>1. ASSUME NEW v \in Workers \ {w} PROVE rec'[v] = rec[v]
  BY <1>1 DEF Turn
<1>2. CASE rec[w].body = p
  BY <1>1, <1>2, OneHolder DEF Turn
<1>3. CASE rec'[w].body = p
  BY <1>1, <1>3, OneHolderNext DEF Turn
<1> QED  BY <1>2, <1>3

LEMMA SeenByWorker ==
    ASSUME NEW w, Turn(w), NEW p \in Pastes, \A v \in Workers \ {w} : rec[v].body # p
    PROVE  See(w, p) /\ See(w, p)'
<1>1. \A v \in Workers \ {w} : rec'[v].body # p
  BY DEF Turn
<1>2. w \in Workers /\ StoredGenuine /\ StoredGenuine'
  BY DEF Turn, IInv
<1> QED  BY <1>1, <1>2, Seen, SeenNext DEF See

\* What another worker has in hand w sees in Redis only.
LEMMA SeenByOther ==
    ASSUME NEW w, Turn(w), NEW p \in Pastes, NEW v \in Workers \ {w}, rec[v].body = p
    PROVE  /\ See(v, p) /\ See(v, p)'
           /\ Carries(v, p)' <=> Carries(v, p)
           /\ Carried(v, p)' = Carried(v, p)
           /\ Owed(v, p)' = Owed(v, p)
           /\ Left(w, p) = Here(p) /\ Left(w, p)' = Here(p)'
<1>1. /\ pc'[v] = pc[v] /\ op'[v] = op[v] /\ rec'[v] = rec[v]
      /\ terms'[p] = terms[p] /\ w \in Workers
  BY DEF Turn
<1>2. \A x \in Workers \ {v} : rec[x].body # p /\ rec'[x].body # p
  BY <1>1, OneHolder, OneHolderNext DEF Turn
<1>3. See(v, p) /\ See(v, p)'
  BY <1>2, Seen, SeenNext DEF See, Turn, IInv
<1>4. Reading(v, p)' <=> Reading(v, p)
  BY <1>1 DEF Reading, Limited
<1>5. Carries(v, p)' <=> Carries(v, p)
  BY <1>1 DEF Carries
<1>6. Carried(v, p)' = Carried(v, p) /\ Owed(v, p)' = Owed(v, p)
  BY <1>1, <1>4 DEF Carried, Owed
<1>7. Left(w, p) = Here(p) /\ Left(w, p)' = Here(p)'
  BY <1>1, <1>2 DEF Left, Carries
<1> QED  BY <1>3, <1>5, <1>6, <1>7

Same(w, q) == Left(w, q)' = Left(w, q) /\ Owed(w, q)' = Owed(w, q)

Less(w, q) == Left(w, q)' <= Left(w, q) /\ Owed(w, q)' <= Owed(w, q)

\* The contract sees of each paste what w sees, or what its holder keeps.
LEMMA Views ==
    ASSUME NEW w, Turn(w), NEW p \in Pastes
    PROVE  /\ ReadsLeft[p] \in Nat /\ ReadsOwed[p] \in Nat
           /\ ReadsLeft'[p] \in Nat /\ ReadsOwed'[p] \in Nat
           /\ rec[w].body = p \/ rec'[w].body = p => See(w, p) /\ See(w, p)'
           /\ Same(w, p) => ReadsLeft'[p] = ReadsLeft[p] /\ ReadsOwed'[p] = ReadsOwed[p]
           /\ Less(w, p) => ReadsLeft'[p] <= ReadsLeft[p] /\ ReadsOwed'[p] <= ReadsOwed[p]
<1>0. w \in Workers /\ IInv /\ IInv'
  BY DEF Turn
<1>1. CASE \A v \in Workers \ {w} : rec[v].body # p
  <2>1. See(w, p) /\ See(w, p)'
    BY <1>1, SeenByWorker
  <2> QED  BY <1>0, <2>1, CountsType, CountsTypeNext DEF See, Same, Less
<1>2. ASSUME NEW v \in Workers \ {w}, rec[v].body = p
      PROVE  /\ ReadsLeft[p] \in Nat /\ ReadsOwed[p] \in Nat
             /\ ReadsLeft'[p] \in Nat /\ ReadsOwed'[p] \in Nat
             /\ ~(rec[w].body = p \/ rec'[w].body = p)
             /\ Same(w, p) => ReadsLeft'[p] = ReadsLeft[p] /\ ReadsOwed'[p] = ReadsOwed[p]
             /\ Less(w, p) => ReadsLeft'[p] <= ReadsLeft[p] /\ ReadsOwed'[p] <= ReadsOwed[p]
  <2>1. ~(rec[w].body = p \/ rec'[w].body = p)
    BY <1>2, Mine
  <2>2. /\ See(v, p) /\ See(v, p)'
        /\ Carries(v, p)' <=> Carries(v, p)
        /\ Carried(v, p)' = Carried(v, p)
        /\ Owed(v, p)' = Owed(v, p)
        /\ Left(w, p) = Here(p) /\ Left(w, p)' = Here(p)'
    BY <1>2, SeenByOther
  <2>3. /\ Left(v, p) \in Nat /\ Left(v, p)' \in Nat /\ Owed(v, p) \in Nat
        /\ Carried(v, p) \in Nat
    BY <1>0, CountsType, CountsTypeNext
  <2>4. /\ Left(v, p) = IF Carries(v, p) THEN Carried(v, p) ELSE Here(p)
        /\ Left(v, p)' = IF Carries(v, p) THEN Carried(v, p) ELSE Here(p)'
    BY <2>2 DEF Left
  <2> QED  BY <2>1, <2>2, <2>3, <2>4 DEF See, Same, Less
<1> QED  BY <1>1, <1>2

LEMMA MappedSteps ==
    ASSUME NEW w, Turn(w)
    PROVE  /\ ReadsLeft = [p \in Pastes |-> ReadsLeft[p]]
           /\ ReadsOwed = [p \in Pastes |-> ReadsOwed[p]]
           /\ ReadsLeft' = [p \in Pastes |-> ReadsLeft'[p]]
           /\ ReadsOwed' = [p \in Pastes |-> ReadsOwed'[p]]
           /\ \A p \in Pastes : Left(w, p) \in Nat /\ Owed(w, p) \in Nat
           /\ \A p \in Pastes : Left(w, p)' \in Nat /\ Owed(w, p)' \in Nat
<1>1. w \in Workers /\ IInv /\ IInv'
  BY DEF Turn
<1> QED  BY <1>1, CountsType, CountsTypeNext DEF ReadsLeft, ReadsOwed

-----------------------------------------------------------------------------
(* The steps of the contract *)

Losing(w) ==
    /\ UNCHANGED <<terms, served>>
    /\ \A p \in Pastes : Less(w, p)

LEMMA LosingMaps ==
    ASSUME NEW w, Turn(w), Losing(w)
    PROVE  Contract!Next
<1>1. \A p \in Pastes : /\ ReadsLeft'[p] \in Nat /\ ReadsLeft'[p] <= ReadsLeft[p]
                        /\ ReadsOwed'[p] \in Nat /\ ReadsOwed'[p] <= ReadsOwed[p]
  BY Views DEF Losing
<1>2. Contract!Lose
  BY <1>1, MappedSteps DEF Losing, Contract!Lose
<1> QED  BY <1>2 DEF Contract!Next

LEMMA ChargeMaps ==
    ASSUME NEW w, Turn(w), NEW p \in Pastes, rec[w].body = p, UNCHANGED <<terms, served>>,
           Left(w, p) > 0, Left(w, p)' = Left(w, p) - 1, Owed(w, p)' = Owed(w, p) + 1,
           \A q \in Pastes \ {p} : Same(w, q)
    PROVE  Contract!Next
<1>1. See(w, p) /\ See(w, p)'
  BY Views
<1>2. \A q \in Pastes \ {p} : ReadsLeft'[q] = ReadsLeft[q] /\ ReadsOwed'[q] = ReadsOwed[q]
  BY Views
<1>3. ReadsLeft' = [ReadsLeft EXCEPT ![p] = @ - 1] /\ ReadsLeft[p] > 0
  BY <1>1, <1>2, MappedSteps DEF See
<1>4. ReadsOwed' = [ReadsOwed EXCEPT ![p] = @ + 1]
  BY <1>1, <1>2, MappedSteps DEF See
<1>5. Contract!Charge(p)
  BY <1>3, <1>4 DEF Contract!Charge
<1> QED  BY <1>5 DEF Contract!Next

LEMMA AnswerMaps ==
    ASSUME NEW w, Turn(w), NEW p \in Pastes, rec[w].body = p, UNCHANGED terms,
           served' = [served EXCEPT ![p] = @ + 1],
           Owed(w, p) = 1, Owed(w, p)' = 0,
           Left(w, p)' \in {Left(w, p), 0},
           \A q \in Pastes \ {p} : Same(w, q)
    PROVE  Contract!Next
<1>1. See(w, p) /\ See(w, p)'
  BY Views
<1>2. \A q \in Pastes \ {p} : ReadsLeft'[q] = ReadsLeft[q] /\ ReadsOwed'[q] = ReadsOwed[q]
  BY Views
<1>3. ReadsLeft' \in {ReadsLeft, [ReadsLeft EXCEPT ![p] = 0]}
  BY <1>1, <1>2, MappedSteps DEF See
<1>4. ReadsOwed' = [ReadsOwed EXCEPT ![p] = @ - 1] /\ ReadsOwed[p] > 0
  BY <1>1, <1>2, MappedSteps DEF See
<1>5. Contract!Answer(p)
  BY <1>3, <1>4 DEF Contract!Answer
<1> QED  BY <1>5 DEF Contract!Next

LEMMA ChargeAndAnswerMaps ==
    ASSUME NEW w, Turn(w), NEW p \in Pastes, rec[w].body = p, UNCHANGED terms,
           served' = [served EXCEPT ![p] = @ + 1],
           Left(w, p) > 0, Left(w, p)' = Left(w, p) - 1, Owed(w, p)' = Owed(w, p),
           \A q \in Pastes \ {p} : Same(w, q)
    PROVE  Contract!Next
<1>1. See(w, p) /\ See(w, p)'
  BY Views
<1>2. \A q \in Pastes \ {p} : ReadsLeft'[q] = ReadsLeft[q] /\ ReadsOwed'[q] = ReadsOwed[q]
  BY Views
<1>3. ReadsLeft' = [ReadsLeft EXCEPT ![p] = @ - 1] /\ ReadsLeft[p] > 0
  BY <1>1, <1>2, MappedSteps DEF See
<1>4. ReadsOwed' = ReadsOwed
  BY <1>1, <1>2, MappedSteps DEF See
<1>5. Contract!ChargeAndAnswer(p)
  BY <1>3, <1>4 DEF Contract!ChargeAndAnswer
<1> QED  BY <1>5 DEF Contract!Next

LEMMA PostMaps ==
    ASSUME NEW w, Turn(w), NEW p \in Pastes, rec'[w].body = p,
           NEW t, NEW d \in Disposables, UNCHANGED served, ~Limited(p),
           terms' = [terms EXCEPT ![p] = [ttl |-> t, disposable |-> d]],
           Left(w, p)' = d, Owed(w, p)' = Owed(w, p),
           \A q \in Pastes \ {p} : Same(w, q)
    PROVE  Contract!Next
<1> DEFINE limit == [q \in Pastes |-> terms[q].disposable]
<1>1. See(w, p) /\ See(w, p)'
  BY Views
<1>2. \A q \in Pastes \ {p} : ReadsLeft'[q] = ReadsLeft[q] /\ ReadsOwed'[q] = ReadsOwed[q]
  BY Views
<1>3. ReadsLeft' = [ReadsLeft EXCEPT ![p] = d] /\ ReadsOwed' = ReadsOwed
  BY <1>1, <1>2, MappedSteps DEF See
<1>4. limit' = [limit EXCEPT ![p] = d] /\ limit[p] = 0
  BY DEF Limited, Turn, IInv, TypeOK
<1>5. Contract!Post(p, d)
  BY <1>3, <1>4 DEF Contract!Post
<1> QED  BY <1>5 DEF Contract!Next

-----------------------------------------------------------------------------
(* Steps that lose reads, or change nothing of what the contract sees *)

Shrinking == \A k \in Keys : hash'[k] \in {hash[k], Absent}

\* What every step owes: the invariant, and a step of the contract.
Fine == DInv' /\ Contract!Next

LEMMA HereShrinks ==
    ASSUME IInv, IInv', Shrinking, UNCHANGED home, NEW p \in Pastes
    PROVE  Here(p)' <= Here(p)
BY DEF Shrinking, Here, IsStored, IInv, TypeOK, HashRecords

LEMMA StoreStaysUncounted ==
    ASSUME DInv, Shrinking, UNCHANGED terms
    PROVE  StoreUncounted'
BY DEF DInv, StoreUncounted, Shrinking, Limited

\* A step of w leaves the others fit if it writes no key but its own and adds to
\* no paste but its own.
LEMMA Fits ==
    ASSUME NEW w, Turn(w), DInv,
           \A k \in Keys \ {key[w]} : hash'[k] \in {hash[k], Absent},
           \A q \in Pastes : q \notin {rec[w].body, rec'[w].body} => Here(q)' <= Here(q),
           StoreUncounted', Fit(w)'
    PROVE  DInv'
<1> SUFFICES ASSUME NEW v \in Workers \ {w} PROVE Fit(v)'
  BY DEF DInv
<1>0. /\ pc'[v] = pc[v] /\ op'[v] = op[v] /\ key'[v] = key[v] /\ rec'[v] = rec[v]
      /\ rec[v].body \in Pastes => terms'[rec[v].body] = terms[rec[v].body]
      /\ IInv /\ IInv' /\ OneAtATime /\ w \in Workers
  BY DEF Turn
<1>1. rec[v] \in HashRecords
  BY <1>0 DEF IInv, TypeOK
<1>2. Uncounted(v)'
  BY <1>0, <1>1 DEF DInv, Fit, Uncounted, Limited, HashRecords
<1>3. Undisturbed(v)'
  <2> SUFFICES ASSUME rec[v].body # NoBody, pc[v] \notin {"requested", "generate"}
               PROVE  hash'[key[v]] = Absent \/ hash'[key[v]].body = rec[v].body
    BY <1>0 DEF Undisturbed
  <2>1. key[v] \in Keys
    BY <1>0 DEF IInv, Phases, ZeroRecord
  <2>2. key[v] # key[w]
    BY <1>0, <2>1, NoKeyAssumption DEF OneAtATime
  <2>3. hash[key[v]] = Absent \/ hash[key[v]].body = rec[v].body
    BY DEF DInv, Fit, Undisturbed
  <2> QED  BY <2>1, <2>2, <2>3
<1>4. ASSUME NEW p \in Pastes, Carries(v, p)' PROVE Here(p)' <= Carried(v, p)'
  <2>1. rec[v].body = p
    BY <1>0, <1>4 DEF Carries
  <2>2. rec[w].body # p /\ rec'[w].body # p
    BY <2>1, Mine
  <2>3. Carries(v, p) /\ Carried(v, p)' = Carried(v, p)
    BY <1>4, <2>1, SeenByOther
  <2>4. Here(p) <= Carried(v, p)
    BY <2>3 DEF DInv, Fit, Covered
  <2>5. Here(p) \in Nat /\ Here(p)' \in Nat /\ Carried(v, p) \in Nat
    BY <1>0, CountsType, CountsTypeNext
  <2> QED  BY <2>2, <2>3, <2>4, <2>5
<1> QED  BY <1>2, <1>3, <1>4 DEF Fit, Covered

LEMMA FitsUnwritten ==
    ASSUME NEW w, Turn(w), DInv, UNCHANGED <<hash, home, terms>>, Fit(w)'
    PROVE  DInv'
<1>1. Shrinking
  BY DEF Shrinking
<1>2. StoreUncounted' /\ \A q \in Pastes : Here(q)' <= Here(q)
  BY <1>1, StoreStaysUncounted, HereShrinks DEF Turn
<1> QED  BY <1>1, <1>2, Fits DEF Shrinking

LEMMA HereIsLeft ==
    ASSUME NEW w, Turn(w), DInv, NEW p \in Pastes
    PROVE  Here(p) <= Left(w, p)
BY CountsType DEF DInv, Fit, Covered, Left, Turn

\* The request is over.
LEMMA DoneLoses ==
    ASSUME NEW w, Turn(w), DInv, Done(w), Shrinking, UNCHANGED <<home, terms>>
    PROVE  /\ DInv'
           /\ \A p \in Pastes : Left(w, p)' = Here(p)' /\ Owed(w, p)' = 0
<1>0. w \in Workers /\ IInv /\ IInv'
  BY DEF Turn
<1>1. rec'[w].body = NoBody /\ pc'[w] = "idle"
  BY <1>0 DEF Done, IInv, TypeOK, ZeroRecord
<1>2. \A p \in Pastes : ~Carries(w, p)'
  BY <1>1, NoBodyAssumption DEF Carries
<1>3. Fit(w)'
  BY <1>1, <1>2 DEF Fit, Uncounted, Covered, Undisturbed
<1>4. DInv'
  BY <1>0, <1>3, Fits, HereShrinks, StoreStaysUncounted DEF Shrinking
<1>5. \A p \in Pastes : Left(w, p)' = Here(p)' /\ Owed(w, p)' = 0
  BY <1>1, <1>2 DEF Left, Owed
<1> QED  BY <1>4, <1>5

LEMMA GivesUp ==
    ASSUME NEW w, Turn(w), DInv, Done(w), Shrinking, UNCHANGED <<home, terms, served>>
    PROVE  Fine
<1>0. w \in Workers /\ IInv /\ IInv'
  BY DEF Turn
<1>1. ASSUME NEW p \in Pastes
      PROVE  Less(w, p)
  <2>1. Here(p)' <= Here(p) /\ Here(p) <= Left(w, p) /\ Left(w, p)' = Here(p)' /\ Owed(w, p)' = 0
    BY <1>0, HereShrinks, HereIsLeft, DoneLoses
  <2> QED  BY <1>0, <2>1, CountsType, CountsTypeNext DEF Less
<1>2. Losing(w)
  BY <1>1 DEF Losing
<1> QED  BY <1>2, LosingMaps, DoneLoses DEF Fine

LEMMA RefuseFine ==
    ASSUME NEW w, Turn(w), DInv, Refuse(w), UNCHANGED redis
    PROVE  Fine
BY GivesUp DEF Refuse, Shrinking, redis

\* The request goes on with what it has, whatever is left in Redis.
LEMMA GoesOn ==
    ASSUME NEW w, Turn(w), DInv, Shrinking,
           UNCHANGED <<home, terms, served>>,
           op'[w] = op[w], key'[w] = key[w], rec'[w] = rec[w],
           pc'[w] \in {"prepare", "hset"} <=> pc[w] \in {"prepare", "hset"},
           pc'[w] \in {"arm", "expire"} => pc[w] \in {"arm", "expire"},
           pc'[w] \in {"load", "body", "requested", "generate", "prepare", "hset"}
             <=> pc[w] \in {"load", "body", "requested", "generate", "prepare", "hset"},
           pc[w] \in {"requested", "generate"} <=> pc'[w] \in {"requested", "generate"}
    PROVE  Fine
<1>0. w \in Workers /\ IInv /\ IInv'
  BY DEF Turn
<1>1. \A p \in Pastes : Reading(w, p)' <=> Reading(w, p)
  BY DEF Reading, Limited
<1>2. \A p \in Pastes : (Carries(w, p)' <=> Carries(w, p)) /\ Carried(w, p)' = Carried(w, p)
  BY <1>1 DEF Carries, Carried
<1>3. \A p \in Pastes : Here(p)' <= Here(p)
  BY <1>0, HereShrinks
<1>4. ASSUME NEW p \in Pastes
      PROVE  Less(w, p)
  <2>1. Left(w, p)' <= Left(w, p)
    BY <1>0, <1>2, <1>3, CountsType DEF Left
  <2>2. Owed(w, p)' <= Owed(w, p)
    BY <1>1 DEF Owed
  <2> QED  BY <2>1, <2>2 DEF Less
<1>5. Losing(w)
  BY <1>4 DEF Losing
<1>6. Covered(w)'
  <2> SUFFICES ASSUME NEW p \in Pastes, Carries(w, p)' PROVE Here(p)' <= Carried(w, p)'
    BY DEF Covered
  <2>1. Here(p) <= Carried(w, p)
    BY <1>0, <1>2 DEF DInv, Fit, Covered
  <2>2. Here(p) \in Nat /\ Carried(w, p) \in Nat /\ Here(p)' \in Nat
    BY <1>0, CountsType, CountsTypeNext
  <2> QED  BY <2>1, <2>2, <1>2, <1>3
<1>7. Uncounted(w)'
  BY <1>0 DEF Uncounted, DInv, Fit, Limited
<1>8. Undisturbed(w)'
  <2> SUFFICES ASSUME rec[w].body # NoBody, pc[w] \notin {"requested", "generate"}
               PROVE  hash'[key[w]] = Absent \/ hash'[key[w]].body = rec[w].body
    BY DEF Undisturbed
  <2>1. hash[key[w]] = Absent \/ hash[key[w]].body = rec[w].body
    BY <1>0 DEF DInv, Fit, Undisturbed
  <2>2. key[w] \in Keys
    BY <1>0, NoKeyAssumption DEF IInv, Phases, ZeroRecord
  <2> QED  BY <2>1, <2>2 DEF Shrinking
<1>9. DInv'
  BY <1>3, <1>6, <1>7, <1>8, Fits, StoreStaysUncounted DEF Fit, Shrinking
<1> QED  BY <1>5, <1>9, LosingMaps DEF Fine

\* The hands of all workers are empty: a crash, or there is no worker.
LEMMA EmptyFine ==
    ASSUME IInv, IInv', DInv, Shrinking, UNCHANGED <<home, terms, served>>,
           \A w \in Workers : rec'[w].body = NoBody
    PROVE  Fine
<1>1. \A w \in Workers, p \in Pastes : ~Carries(w, p)' /\ ~Reading(w, p)'
  BY NoBodyAssumption DEF Carries, Reading
<1>2. \A w \in Workers : Fit(w)'
  BY <1>1 DEF Fit, Uncounted, Covered, Undisturbed
<1>3. DInv'
  BY <1>2, StoreStaysUncounted DEF DInv
<1>4. ASSUME NEW p \in Pastes
      PROVE  /\ ReadsLeft'[p] \in Nat /\ ReadsLeft'[p] <= ReadsLeft[p]
             /\ ReadsOwed'[p] \in Nat /\ ReadsOwed'[p] <= ReadsOwed[p]
  <2>1. ReadsLeft'[p] = Here(p)' /\ ReadsOwed'[p] = 0
    BY <1>1, KeptHereNext DEF ReadsLeft, ReadsOwed, IInv
  <2>2. Here(p)' \in Nat /\ Here(p) \in Nat /\ Here(p)' <= Here(p)
    BY HereShrinks DEF IInv, TypeOK, HashRecords, Here, IsStored
  <2>3. ReadsOwed[p] \in Nat
    BY DEF ReadsOwed
  <2>4. Here(p) <= ReadsLeft[p] /\ ReadsLeft[p] \in Nat
    <3>1. CASE \E w \in Workers : Carries(w, p)
      <4>1. PICK w \in Workers : Carries(w, p) /\ w = CHOOSE v \in Workers : Carries(v, p)
        BY <3>1
      <4>2. ReadsLeft[p] = Carried(w, p)
        BY <4>1 DEF ReadsLeft
      <4> QED  BY <4>1, <4>2, CountsType DEF DInv, Fit, Covered
    <3>2. CASE ~\E w \in Workers : Carries(w, p)
      BY <2>2, <3>2, KeptHere DEF ReadsLeft, IInv
    <3> QED  BY <3>1, <3>2
  <2> QED  BY <2>1, <2>2, <2>3, <2>4
<1>5. Contract!Lose
  BY <1>4 DEF Contract!Lose, ReadsLeft, ReadsOwed
<1> QED  BY <1>3, <1>5 DEF Fine, Contract!Next

LEMMA UnchangedFine ==
    ASSUME IInv, IInv', OneAtATime, OneAtATime', DInv, Tick \/ UNCHANGED vars
    PROVE  Fine
<1>1. Shrinking /\ UNCHANGED <<pc, op, key, rec, home, terms, served>>
  BY DEF Tick, vars, redis, locals, clients, Shrinking
<1>2. CASE Workers = {}
  BY <1>1, <1>2, EmptyFine
<1>3. CASE Workers # {}
  <2>1. PICK w \in Workers : TRUE
    BY <1>3
  <2>2. Turn(w)
    BY <1>1, <2>1 DEF Turn
  <2> QED  BY <1>1, <2>2, GoesOn
<1> QED  BY <1>2, <1>3

LEMMA CrashFine ==
    ASSUME IInv, IInv', DInv, Crash
    PROVE  Fine
<1>1. \A w \in Workers : rec'[w].body = NoBody
  BY DEF Crash, ZeroRecord
<1> QED  BY <1>1, EmptyFine DEF Crash, redis, Shrinking

-----------------------------------------------------------------------------
(* GET *)
LEMMA ReadStartFine ==
    ASSUME NEW w, Turn(w), DInv, NEW o \in Ops, NEW k \in Keys, ReadStart(w, o, k)
    PROVE  Fine
<1>1. rec[w] = ZeroRecord(NoBody) /\ pc[w] = "idle" /\ pc'[w] = "exists"
      /\ rec[w].body = NoBody
  BY DEF ZeroRecord, ReadStart, Goto, Turn, IInv, Phases, TypeOK
<1>2. UNCHANGED <<hash, rec, home, terms, served>>
  BY DEF ReadStart, redis, clients
<1>3. \A p \in Pastes : Here(p)' = Here(p) /\ ~Carries(w, p) /\ ~Carries(w, p)'
  BY <1>1, <1>2 DEF Here, IsStored, Carries
<1>4. \A p \in Pastes : Left(w, p)' = Left(w, p) /\ Owed(w, p)' = Owed(w, p)
  BY <1>1, <1>3 DEF Left, Owed
<1>5. Losing(w)
  BY <1>2, <1>4, MappedSteps DEF Losing, Less
<1>6. Fit(w)'
  BY <1>1, <1>2, <1>3 DEF Fit, Covered, Undisturbed, Uncounted
<1> QED  BY <1>2, <1>5, <1>6, FitsUnwritten, LosingMaps DEF Fine

LEMMA ExistsFine ==
    ASSUME NEW w, Turn(w), DInv, Exists(w)
    PROVE  Fine
<1>1. CASE Refuse(w)
  BY <1>1, RefuseFine DEF Exists
<1>2. CASE Goto(w, "hgetall") /\ UNCHANGED <<locals, clients>>
  <2>1. pc[w] = "exists" /\ pc'[w] = "hgetall"
    BY <1>2 DEF Exists, Goto, Turn, IInv, TypeOK
  <2> QED  BY <1>2, <2>1, GoesOn DEF Exists, Shrinking, redis, locals, clients
<1> QED  BY <1>1, <1>2 DEF Exists

LEMMA LoadFine ==
    ASSUME NEW w, Turn(w), DInv, Load(w)
    PROVE  Fine
<1>1. CASE Done(w)
  BY <1>1, GivesUp DEF Load, redis, clients, Shrinking
<1>2. CASE Goto(w, "body") /\ UNCHANGED <<op, key, rec, arm>>
  <2>1. pc[w] = "load" /\ pc'[w] = "body"
    BY <1>2 DEF Load, Goto, Turn, IInv, TypeOK
  <2> QED  BY <1>2, <2>1, GoesOn DEF Load, Shrinking, redis, clients
<1> QED  BY <1>1, <1>2 DEF Load

\* A read takes from Redis what is left there, without changing it.
LEMMA HGetAllFine ==
    ASSUME NEW w, Turn(w), DInv, HGetAll(w)
    PROVE  Fine
<1>0. w \in Workers /\ IInv /\ IInv'
  BY DEF Turn
<1>1. pc[w] = "hgetall" /\ pc'[w] = "load" /\ key[w] \in Keys
      /\ rec'[w] = (IF hash[key[w]] = Absent THEN ZeroRecord(NoBody) ELSE hash[key[w]])
  BY <1>0 DEF HGetAll, Goto, IInv, TypeOK, Phases
<1>2. UNCHANGED <<hash, op, key, home, terms, served>>
  BY DEF HGetAll, redis, clients
<1>10. ZeroRecord(NoBody).body = NoBody /\ ZeroRecord(NoBody).countdown = 0
  BY DEF ZeroRecord
<1>3. \A p \in Pastes : Here(p)' = Here(p) /\ ~Carries(w, p)
  BY <1>1, <1>2 DEF Here, IsStored, Carries
<1>4. ASSUME NEW p \in Pastes, Carries(w, p)'
      PROVE  Carried(w, p)' = Here(p)
  <2>1. rec'[w].body = p
    BY <1>4 DEF Carries
  <2>2. hash[key[w]] # Absent /\ rec'[w] = hash[key[w]]
    BY <1>1, <2>1, NoBodyAssumption DEF ZeroRecord
  <2>3. home[p] = key[w]
    BY <1>0, <1>1, <2>1, <2>2 DEF IInv, StoredGenuine
  <2>4. Here(p) = rec'[w].countdown
    BY <1>1, <2>1, <2>2, <2>3 DEF Here, IsStored
  <2>5. rec'[w].countdown \in Nat
    BY <1>0 DEF IInv, TypeOK, HashRecords
  <2> QED  BY <1>1, <2>4, <2>5 DEF Carried
<1>5. \A p \in Pastes : Left(w, p)' = Left(w, p) /\ Owed(w, p)' = Owed(w, p)
  BY <1>1, <1>3, <1>4 DEF Left, Owed
<1>6. Losing(w)
  BY <1>2, <1>5, MappedSteps DEF Losing, Less
<1>7. Covered(w)'
  BY <1>0, <1>3, <1>4, CountsTypeNext DEF Covered
<1>8. Undisturbed(w)'
  BY <1>0, <1>1, <1>2, <1>10 DEF Undisturbed
<1>9. Uncounted(w)'
  BY <1>0, <1>1, <1>2, <1>10 DEF Uncounted, DInv, StoreUncounted, Limited
<1> QED  BY <1>2, <1>6, <1>7, <1>8, <1>9, FitsUnwritten, LosingMaps DEF Fit, Fine

\* A record changes hands within the request and keeps its count.
LEMMA SaveFine ==
    ASSUME NEW w, Turn(w), DInv, pc[w] \in {"body", "prepare"},
           pc'[w] \in {"prepare", "hset"},
           UNCHANGED <<hash, op, key, home, terms, served>>,
           rec'[w].body = rec[w].body,
           rec[w].body \in Pastes => Carried(w, rec[w].body)' = Carried(w, rec[w].body),
           rec[w].body # NoBody /\ ~Limited(rec[w].body) =>
               rec'[w].countdown = rec[w].countdown
    PROVE  Fine
<1>0. w \in Workers /\ IInv /\ IInv'
  BY DEF Turn
<1>1. \A p \in Pastes : Here(p)' = Here(p) /\ (Carries(w, p)' <=> Carries(w, p))
  BY DEF Here, IsStored, Carries
<1>2. \A p \in Pastes : Carries(w, p) => Carried(w, p)' = Carried(w, p)
  BY DEF Carries
<1>3. \A p \in Pastes : Left(w, p)' = Left(w, p) /\ Owed(w, p)' = Owed(w, p)
  BY <1>1, <1>2 DEF Left, Owed
<1>4. Losing(w)
  BY <1>3, MappedSteps DEF Losing, Less
<1>5. Covered(w)'
  BY <1>0, <1>1, <1>2 DEF DInv, Fit, Covered
<1>6. Undisturbed(w)'
  BY <1>0 DEF DInv, Fit, Undisturbed
<1>7. Uncounted(w)'
  BY <1>0 DEF DInv, Fit, Uncounted, Limited
<1> QED  BY <1>4, <1>5, <1>6, <1>7, FitsUnwritten, LosingMaps DEF Fit, Fine

LEMMA GetBodyFine ==
    ASSUME NEW w, Turn(w), DInv, GetBody(w)
    PROVE  Fine
<1>0. w \in Workers /\ IInv /\ IInv'
  BY DEF Turn
<1>1. CASE Refuse(w)
  BY <1>1, RefuseFine DEF GetBody
<1>2. CASE ~Refuse(w)
  <2> DEFINE b == rec[w].body
  <2>1. /\ Readable(rec[w], date[w]) /\ pc[w] = "body" /\ pc'[w] = "prepare"
        /\ rec'[w] = Touch(rec[w]) /\ op[w] = "get"
        /\ UNCHANGED <<hash, op, key, home, terms, served>>
    BY <1>0, <1>2 DEF GetBody, Goto, redis, clients, IInv, TypeOK, Phases
  <2>2. rec[w] \in HashRecords
    BY <1>0 DEF IInv, TypeOK
  <2>3. rec'[w].body = b /\ rec'[w].countdown = DecreasedCounter(rec[w])
    BY <2>1, <2>2 DEF Touch, HashRecords
  <2>4. b # NoBody => (rec[w].eternal <=> ~Limited(b))
    BY <1>0 DEF IInv, Conservation, InHandBalanced, Balanced
  <2>5. b # NoBody /\ ~Limited(b) => rec'[w].countdown = rec[w].countdown
    BY <2>3, <2>4 DEF DecreasedCounter
  <2>6. ASSUME b \in Pastes
        PROVE  Carried(w, b)' = Carried(w, b)
    <3>0. b # NoBody /\ rec[w].countdown \in Nat
      BY <2>2, <2>6, NoBodyAssumption DEF HashRecords
    <3>1. CASE Limited(b)
      <4>1. rec'[w].countdown = rec[w].countdown - 1
        BY <2>1, <2>2, <2>3, <2>4, <3>0, <3>1
           DEF Readable, CounterExhausted, DecreasedCounter, HashRecords
      <4>2. Reading(w, b)'
        BY <2>1, <2>3, <3>1 DEF Reading, Limited
      <4> QED  BY <2>1, <3>0, <4>1, <4>2 DEF Carried
    <3>2. CASE ~Limited(b)
      <4>1. ~Reading(w, b) /\ ~Reading(w, b)'
        BY <2>1, <2>3, <3>2 DEF Reading, Limited
      <4> QED  BY <2>5, <3>0, <3>2, <4>1 DEF Carried
    <3> QED  BY <3>1, <3>2
  <2> QED  BY <2>1, <2>3, <2>5, <2>6, SaveFine
<1> QED  BY <1>1, <1>2
-----------------------------------------------------------------------------
(* POST *)

LEMMA PostStartFine ==
    ASSUME NEW w, Turn(w), DInv, Unsent,
           NEW p \in Pastes, NEW o \in Ops, NEW k \in Keys \cup {NoKey},
           NEW t \in TTLs, NEW d \in Disposables, PostStart(w, p, o, k, t, d)
    PROVE  Fine
<1>0. w \in Workers /\ IInv /\ IInv' /\ d \in Nat
  BY DisposablesAssumption, ClicksWidthAssumption DEF Turn
<1>1. /\ pc[w] = "idle" /\ pc'[w] \in {"requested", "generate"} /\ op'[w] # "get"
      /\ rec[w] = ZeroRecord(NoBody) /\ rec'[w] = NewRecord(p, t, d)
      /\ UNCHANGED <<hash, home, served>>
      /\ terms' = [terms EXCEPT ![p] = [ttl |-> t, disposable |-> d]]
  BY <1>0 DEF PostStart, Goto, Posts, redis, IInv, TypeOK, Phases
<1>2. home[p] = NoKey /\ ~Limited(p)
  BY <1>0 DEF PostStart, IInv, Postings, Unsent
<1>3. \A q \in Pastes : Here(q)' = Here(q)
  BY <1>1 DEF Here, IsStored
<1>4. Here(p) = 0
  BY <1>2, NoKeyAssumption DEF Here
<1>5. rec'[w].body = p /\ rec'[w].countdown = d
  BY <1>1 DEF NewRecord
<1>6. \A q \in Pastes : (Carries(w, q)' <=> q = p) /\ ~Carries(w, q)
  BY <1>1, <1>5 DEF Carries
<1>7. Carried(w, p)' = d
  BY <1>0, <1>1, <1>5 DEF Carried
<1>8. \A q \in Pastes : Owed(w, q)' = Owed(w, q)
  BY <1>1 DEF Owed
<1>9. \A q \in Pastes \ {p} : Same(w, q)
  BY <1>3, <1>6, <1>8 DEF Same, Left
<1>10. Left(w, p)' = d
  BY <1>6, <1>7 DEF Left
<1>11. Contract!Next
  BY <1>1, <1>2, <1>5, <1>8, <1>9, <1>10, PostMaps
<1>12. Covered(w)' /\ Undisturbed(w)'
  BY <1>0, <1>1, <1>3, <1>4, <1>6, <1>7 DEF Covered, Undisturbed
<1>13. StoreUncounted' /\ Uncounted(w)'
  <2>1. \A j \in Keys : hash[j] # Absent => hash[j].body \in Pastes \ {p}
    BY <1>0, <1>2, NoKeyAssumption DEF IInv, StoredGenuine
  <2>2. \A q \in Pastes \ {p} : Limited(q)' <=> Limited(q)
    BY <1>0, <1>1 DEF Limited, IInv, TypeOK
  <2>3. Limited(p)' <=> d # 0
    BY <1>0, <1>1 DEF Limited, IInv, TypeOK
  <2>4. \A j \in Keys : hash'[j] # Absent /\ terms'[hash'[j].body].disposable = 0
           => hash'[j].countdown = 0
    BY <1>1, <2>1, <2>2 DEF DInv, StoreUncounted, Limited
  <2> QED  BY <1>0, <1>5, <2>3, <2>4 DEF StoreUncounted, Uncounted, Limited
<1>14. \A q \in Pastes : Here(q)' <= Here(q)
  BY <1>0, <1>3, CountsType
<1>15. DInv'
  BY <1>1, <1>12, <1>13, <1>14, Fits DEF Fit
<1> QED  BY <1>11, <1>15 DEF Fine

\* A POST is given a key under which nothing is stored.
LEMMA HomeFine ==
    ASSUME NEW w, Turn(w), DInv, NEW k \in Keys, hash[k] = Absent,
           pc[w] \in {"requested", "generate"}, Goto(w, "prepare"), key'[w] = k,
           home' = [home EXCEPT ![rec[w].body] = k],
           UNCHANGED <<hash, op, rec, terms, served>>
    PROVE  Fine
<1>0. w \in Workers /\ IInv /\ IInv' /\ pc'[w] = "prepare"
  BY DEF Turn, Goto, IInv, TypeOK
<1>1. rec[w].body \in Pastes /\ home[rec[w].body] = NoKey /\ op[w] # "get"
  BY <1>0 DEF IInv, Phases, Postings, Posts
<1>2. ASSUME NEW p \in Pastes
      PROVE  Here(p)' = Here(p)
  <2>1. CASE p = rec[w].body
    <3>1. home[p] = NoKey /\ home'[p] = k
      BY <1>0, <1>1, <2>1 DEF IInv, TypeOK
    <3> QED  BY <3>1, NoKeyAssumption DEF Here, IsStored
  <2>2. CASE p # rec[w].body
    <3>1. home'[p] = home[p]
      BY <1>0, <2>2 DEF IInv, TypeOK
    <3> QED  BY <3>1 DEF Here, IsStored
  <2> QED  BY <2>1, <2>2
<1>3. \A p \in Pastes : /\ Carries(w, p)' <=> Carries(w, p)
                        /\ Carried(w, p)' = Carried(w, p)
                        /\ Owed(w, p)' = Owed(w, p)
  BY <1>0, <1>1 DEF Carries, Carried, Owed, Reading
<1>4. \A p \in Pastes : Left(w, p)' = Left(w, p)
  BY <1>2, <1>3 DEF Left
<1>5. Losing(w)
  BY <1>3, <1>4, MappedSteps DEF Losing, Less
<1>6. Covered(w)'
  BY <1>0, <1>2, <1>3 DEF DInv, Fit, Covered
<1>7. Undisturbed(w)'
  BY <1>0 DEF Undisturbed
<1>8. Uncounted(w)'
  BY <1>0 DEF DInv, Fit, Uncounted, Limited
<1>9. StoreUncounted'
  BY DEF DInv, StoreUncounted, Limited
<1>10. \A q \in Pastes : Here(q)' <= Here(q)
  BY <1>0, <1>2, CountsType
<1>11. DInv'
  BY <1>6, <1>7, <1>8, <1>9, <1>10, Fits DEF Fit
<1> QED  BY <1>5, <1>11, LosingMaps DEF Fine

LEMMA RequestedFine ==
    ASSUME NEW w, Turn(w), DInv, Requested(w)
    PROVE  Fine
<1>1. CASE Refuse(w)
  BY <1>1, RefuseFine DEF Requested
<1>2. CASE ~Refuse(w)
  <2>1. key[w] \in Keys
    BY DEF Requested, Turn, IInv, Phases
  <2> QED  BY <1>2, <2>1, HomeFine DEF Requested, redis, locals
<1> QED  BY <1>1, <1>2

LEMMA GenerateFine ==
    ASSUME NEW w, Turn(w), DInv, NEW k \in Keys, Generate(w, k)
    PROVE  Fine
<1>1. key'[w] = k
  BY DEF Generate, Turn, IInv, TypeOK
<1> QED  BY <1>1, HomeFine DEF Generate, redis

LEMMA PrepareFine ==
    ASSUME NEW w, Turn(w), DInv, Prepare(w)
    PROVE  Fine
<1>1. /\ pc[w] = "prepare" /\ pc'[w] = "hset"
      /\ rec'[w] = WithTTL(rec[w], Until(date[w]))
      /\ UNCHANGED <<hash, op, key, home, terms, served>>
  BY DEF Prepare, Goto, redis, clients, Posts, Turn, IInv, TypeOK, Phases
<1>2. rec'[w].body = rec[w].body /\ rec'[w].countdown = rec[w].countdown
  BY <1>1 DEF WithTTL, Turn, IInv, TypeOK, HashRecords
<1>3. Carried(w, rec[w].body)' = Carried(w, rec[w].body)
  BY <1>1, <1>2 DEF Carried, Reading, Limited
<1> QED  BY <1>1, <1>2, <1>3, SaveFine

LEMMA QuotaVerdictFine ==
    ASSUME NEW w, Turn(w), DInv, QuotaVerdict(w)
    PROVE  Fine
<1>1. CASE Refuse(w)
  BY <1>1, RefuseFine DEF QuotaVerdict
<1>2. CASE Accept(w)
  BY <1>2, GivesUp DEF QuotaVerdict, Accept, Shrinking, redis
<1> QED  BY <1>1, <1>2 DEF QuotaVerdict

-----------------------------------------------------------------------------
(* SetByKey *)

\* What a worker writes and where, and that nobody else's record is there.
LEMMA Writing ==
    ASSUME NEW w, Turn(w), DInv, pc[w] \in {"hset", "arm", "expire"}
    PROVE  /\ rec[w].body \in Pastes /\ key[w] \in Keys /\ home[rec[w].body] = key[w]
           /\ rec[w] \in HashRecords /\ rec[w] # Absent /\ rec[w].countdown \in Nat
           /\ hash[key[w]] = Absent \/ hash[key[w]].body = rec[w].body
BY AbsentAssumption, NoBodyAssumption
   DEF Turn, IInv, TypeOK, Phases, Postings, HashRecords, DInv, Fit, Undisturbed

LEMMA SetHashHere ==
    ASSUME NEW w, Turn(w), DInv, pc[w] = "hset", SetHash(key[w], rec[w]),
           UNCHANGED <<home, terms>>
    PROVE  /\ hash'[key[w]] = rec[w]
           /\ \A q \in Pastes :
                 Here(q)' = IF q = rec[w].body THEN rec[w].countdown ELSE Here(q)
           /\ \A k \in Keys : hash'[k] # Absent /\ ~Limited(hash'[k].body) =>
                 hash'[k].countdown = 0
           /\ \A k \in Keys \ {key[w]} : hash'[k] = hash[k]
<1>0. w \in Workers /\ IInv
  BY DEF Turn
<1>1. /\ hash' = [hash EXCEPT ![key[w]] = rec[w]] /\ hash'[key[w]] = rec[w]
      /\ \A k \in Keys \ {key[w]} : hash'[k] = hash[k]
  BY <1>0, Writing DEF SetHash, IInv, TypeOK
<1>2. ASSUME NEW q \in Pastes
      PROVE  Here(q)' = IF q = rec[w].body THEN rec[w].countdown ELSE Here(q)
  <2>1. CASE q = rec[w].body
    BY <1>1, <2>1, Writing DEF Here, IsStored
  <2>2. CASE q # rec[w].body /\ home[q] = key[w]
    BY <1>1, <2>2, Writing DEF Here, IsStored
  <2>3. CASE q # rec[w].body /\ home[q] # key[w]
    BY <1>0, <1>1, <2>3 DEF Here, IsStored, IInv, TypeOK
  <2> QED  BY <2>1, <2>2, <2>3
<1>3. rec[w].body # NoBody
  BY Writing, NoBodyAssumption
<1>4. ASSUME NEW k \in Keys, hash'[k] # Absent, ~Limited(hash'[k].body)
      PROVE  hash'[k].countdown = 0
  <2>1. CASE k = key[w]
    BY <1>0, <1>1, <1>3, <1>4, <2>1 DEF DInv, Fit, Uncounted, Limited
  <2>2. CASE k # key[w]
    <3>1. hash'[k] = hash[k]
      BY <1>0, <1>1, <2>2 DEF IInv, TypeOK
    <3> QED  BY <1>4, <3>1 DEF DInv, StoreUncounted, Limited
  <2> QED  BY <2>1, <2>2
<1> QED  BY <1>1, <1>2, <1>4

\* SetExpiry touches at most the record of the worker's own paste.
LEMMA SetExpiryHere ==
    ASSUME NEW w, Turn(w), DInv, pc[w] = "expire", SetExpiry(key[w], arm[w]),
           UNCHANGED home
    PROVE  /\ Shrinking
           /\ \A q \in Pastes :
                 Here(q)' = Here(q) \/ (q = rec[w].body /\ Here(q)' = 0)
<1>0. w \in Workers /\ IInv
  BY DEF Turn
<1>1. hash' = hash \/ hash' = [hash EXCEPT ![key[w]] = Absent]
  BY DEF SetExpiry, redis
<1>2. CASE hash' = hash
  BY <1>2 DEF Shrinking, Here, IsStored
<1>3. CASE hash' = [hash EXCEPT ![key[w]] = Absent]
  <2>1. Shrinking
    BY <1>0, <1>3 DEF Shrinking, IInv, TypeOK
  <2>2. hash'[key[w]] = Absent
    BY <1>0, <1>3, Writing DEF IInv, TypeOK
  <2>3. ASSUME NEW q \in Pastes \ {rec[w].body}
        PROVE  Here(q)' = Here(q)
    <3>1. CASE home[q] = key[w]
      BY <2>2, <3>1, Writing DEF Here, IsStored
    <3>2. CASE home[q] # key[w]
      BY <1>0, <1>3, <3>2 DEF Here, IsStored, IInv, TypeOK
    <3> QED  BY <3>1, <3>2
  <2>4. \A p \in Pastes : p = rec[w].body => Here(p)' = 0
    BY <2>2, Writing DEF Here, IsStored
  <2> QED  BY <2>1, <2>3, <2>4
<1> QED  BY <1>1, <1>2, <1>3

\* HSET makes the charge of a read, and expects the answer of an eternal record
\* at once.
LEMMA HSetFine ==
    ASSUME NEW w, Turn(w), DInv, HSet(w)
    PROVE  Fine
<1>0. w \in Workers /\ IInv /\ IInv' /\ pc[w] = "hset"
  BY DEF Turn, HSet
<1>1. PICK b \in Pastes, n \in Nat : b = rec[w].body /\ n = rec[w].countdown /\ b # NoBody
  BY <1>0, Writing, NoBodyAssumption
<1>2. UNCHANGED <<home, terms>>
  BY DEF HSet, Stored, Serve, Accept, clients
<1>3. /\ hash'[key[w]] = rec[w]
      /\ \A q \in Pastes : Here(q)' = IF q = b THEN n ELSE Here(q)
      /\ \A k \in Keys : hash'[k] # Absent /\ ~Limited(hash'[k].body) => hash'[k].countdown = 0
      /\ \A k \in Keys \ {key[w]} : hash'[k] = hash[k]
  BY <1>0, <1>1, <1>2, SetHashHere DEF HSet
<1>4. /\ \A q \in Pastes : Carries(w, q) <=> q = b
      /\ \A q \in Pastes : Left(w, q) = IF q = b THEN Carried(w, b) ELSE Here(q)
      /\ \A q \in Pastes : Owed(w, q) = 0
      /\ Carried(w, b) = n + IF Reading(w, b) THEN 1 ELSE 0
  BY <1>0, <1>1 DEF Carries, Carried, Left, Owed, Reading
\* Whatever follows, the paste has no other place than Redis.
<1>5. ASSUME \A q \in Pastes : ~Carries(w, q)',
             rec'[w].body = NoBody \/ (rec'[w] = rec[w] /\ key'[w] = key[w])
      PROVE  DInv' /\ \A q \in Pastes : Left(w, q)' = Here(q)'
  <2>1. Covered(w)'
    BY <1>0, <1>5 DEF Covered
  <2>2. Undisturbed(w)'
    BY <1>0, <1>1, <1>3, <1>5 DEF Undisturbed
  <2>3. Uncounted(w)'
    BY <1>0, <1>1, <1>2, <1>3, <1>5 DEF DInv, Fit, Uncounted, Limited
  <2>4. StoreUncounted'
    BY <1>2, <1>3 DEF StoreUncounted, Limited
  <2>5. \A q \in Pastes : q # rec[w].body => Here(q)' <= Here(q)
    BY <1>0, <1>1, <1>3, CountsType
  <2>6. DInv'
    BY <1>3, <2>1, <2>2, <2>3, <2>4, <2>5, Fits DEF Fit
  <2> QED  BY <1>5, <2>6 DEF Left
<1>6. CASE Done(w)
  <2>1. rec'[w].body = NoBody /\ pc'[w] = "idle"
    BY <1>0, <1>6 DEF Done, IInv, TypeOK, ZeroRecord
  <2>2. \A q \in Pastes : ~Carries(w, q)' /\ Owed(w, q)' = 0
    BY <2>1, NoBodyAssumption DEF Carries, Owed
  <2>3. DInv' /\ \A q \in Pastes : Left(w, q)' = Here(q)'
    BY <1>5, <2>1, <2>2
  <2>4. CASE op[w] = "get" /\ Limited(b) /\ Serve(w)
    <3>1. /\ Left(w, b) > 0 /\ Left(w, b)' = Left(w, b) - 1
          /\ Owed(w, b)' = Owed(w, b)
      BY <1>1, <1>3, <1>4, <2>2, <2>3, <2>4 DEF Reading
    <3>2. \A q \in Pastes \ {b} : Same(w, q)
      BY <1>3, <1>4, <2>2, <2>3 DEF Same
    <3>3. served' = [served EXCEPT ![b] = @ + 1]
      BY <1>0, <1>1, <2>4 DEF Serve, IInv, TypeOK
    <3>4. Contract!Next
      BY <1>1, <1>2, <3>1, <3>2, <3>3, ChargeAndAnswerMaps
    <3> QED  BY <2>3, <3>4 DEF Fine
  <2>5. CASE ~(op[w] = "get" /\ Limited(b) /\ Serve(w)) /\ Stored(w)
    <3>1. UNCHANGED served
      BY <1>0, <1>1, <2>5 DEF Stored, Serve, Accept, clients, IInv, TypeOK
    <3>2. \A q \in Pastes : Left(w, q)' <= Left(w, q) /\ Owed(w, q)' <= Owed(w, q)
      BY <1>0, <1>1, <1>3, <1>4, <2>2, <2>3, MappedSteps
    <3> QED  BY <1>2, <2>3, <3>1, <3>2, LosingMaps DEF Losing, Less, Fine
  <2>6. Stored(w)
    BY <1>0, <2>1 DEF HSet, Goto, IInv, TypeOK
  <2> QED  BY <2>4, <2>5, <2>6
<1>7. CASE ~Done(w)
  <2>1. /\ UNCHANGED <<locals, clients>>
        /\ pc'[w] = "arm" \/ (pc'[w] = "quota" /\ op[w] = "anon")
    BY <1>0, <1>7 DEF HSet, Stored, Serve, Accept, Goto, IInv, TypeOK
  <2>2. \A q \in Pastes : ~Carries(w, q)' /\ (Reading(w, q)' <=> Reading(w, q))
    BY <2>1 DEF Carries, Reading, Limited, locals, clients
  <2>3. DInv' /\ \A q \in Pastes : Left(w, q)' = Here(q)'
    BY <1>5, <2>1, <2>2 DEF locals
  <2>4. \A q \in Pastes : Owed(w, q)' = IF Reading(w, q) THEN 1 ELSE 0
    BY <2>1, <2>2 DEF Owed, Reading
  <2>5. \A q \in Pastes \ {b} : Same(w, q)
    BY <1>1, <1>3, <1>4, <2>3, <2>4 DEF Same, Reading
  <2>6. CASE Reading(w, b)
    <3>1. Left(w, b) = n + 1 /\ Left(w, b)' = n /\ Owed(w, b)' = Owed(w, b) + 1
      BY <1>1, <1>3, <1>4, <2>3, <2>4, <2>6
    <3>2. Contract!Next
      BY <1>1, <2>1, <2>5, <3>1, ChargeMaps DEF clients
    <3> QED  BY <2>3, <3>2 DEF Fine
  <2>7. CASE ~Reading(w, b)
    <3>1. Left(w, b)' = Left(w, b) /\ Owed(w, b)' = Owed(w, b)
      BY <1>1, <1>3, <1>4, <2>3, <2>4, <2>7
    <3>2. Losing(w)
      BY <2>1, <2>5, <3>1, MappedSteps DEF Losing, Less, Same, clients
    <3> QED  BY <2>3, <3>2, LosingMaps DEF Fine
  <2> QED  BY <2>6, <2>7
<1> QED  BY <1>6, <1>7

LEMMA HSetUnackedFine ==
    ASSUME NEW w, Turn(w), DInv, HSetUnacked(w)
    PROVE  Fine
<1>0. w \in Workers /\ IInv /\ IInv' /\ pc[w] = "hset"
  BY DEF Turn, HSetUnacked
<1>1. UNCHANGED <<pc, op, key, rec, home, terms, served>>
  BY DEF HSetUnacked, locals, clients
<1>2. /\ hash'[key[w]] = rec[w]
      /\ \A q \in Pastes : Here(q)' = IF q = rec[w].body THEN rec[w].countdown ELSE Here(q)
      /\ \A k \in Keys : hash'[k] # Absent /\ ~Limited(hash'[k].body) => hash'[k].countdown = 0
      /\ \A k \in Keys \ {key[w]} : hash'[k] = hash[k]
  BY <1>0, <1>1, SetHashHere DEF HSetUnacked
<1>3. \A q \in Pastes : /\ Carries(w, q)' <=> Carries(w, q)
                        /\ Carries(w, q) <=> q = rec[w].body
                        /\ Carried(w, q)' = Carried(w, q)
                        /\ Owed(w, q)' = Owed(w, q)
  BY <1>0, <1>1 DEF Carries, Carried, Owed, Reading, Limited
<1>4. \A q \in Pastes : Left(w, q)' = Left(w, q)
  BY <1>2, <1>3 DEF Left
<1>5. Losing(w)
  BY <1>1, <1>3, <1>4, MappedSteps DEF Losing, Less
<1>6. Covered(w)'
  BY <1>0, <1>1, <1>2, <1>3, Writing DEF Covered, Carried
<1>7. Undisturbed(w)'
  BY <1>0, <1>1, <1>2 DEF Undisturbed
<1>8. Uncounted(w)'
  BY <1>0, <1>1, <1>2 DEF DInv, Fit, Uncounted, Limited
<1>9. StoreUncounted'
  BY <1>1, <1>2 DEF StoreUncounted, Limited
<1>10. \A q \in Pastes : q # rec[w].body => Here(q)' <= Here(q)
  BY <1>0, <1>2, CountsType
<1>11. DInv'
  BY <1>2, <1>6, <1>7, <1>8, <1>9, <1>10, Fits DEF Fit
<1> QED  BY <1>5, <1>11, LosingMaps DEF Fine

LEMMA ArmFine ==
    ASSUME NEW w, Turn(w), DInv, Arm(w)
    PROVE  Fine
<1>1. pc[w] = "arm" /\ pc'[w] = "expire"
  BY DEF Arm, Goto, Turn, IInv, TypeOK
<1> QED  BY <1>1, GoesOn DEF Arm, Shrinking, redis, clients

\* EXPIRE ends a read that was charged, and may remove the record with it.
LEMMA ExpireFine ==
    ASSUME NEW w, Turn(w), DInv, Expire(w)
    PROVE  Fine
<1>0. w \in Workers /\ IInv /\ IInv' /\ pc[w] = "expire"
  BY DEF Turn, Expire
<1>6. PICK b \in Pastes : b = rec[w].body
  BY <1>0, Writing
<1>1. UNCHANGED <<home, terms>>
  BY DEF Expire, Stored, Serve, Accept, clients
<1>2. Shrinking /\ \A q \in Pastes : Here(q)' = Here(q) \/ (q = b /\ Here(q)' = 0)
  BY <1>0, <1>1, <1>6, SetExpiryHere DEF Expire
<1>3. \A q \in Pastes : Left(w, q) = Here(q)
  BY <1>0 DEF Left, Carries
<1>4. CASE op[w] = "get" /\ Limited(b) /\ Serve(w)
  <2>1. DInv' /\ \A q \in Pastes : Left(w, q)' = Here(q)' /\ Owed(w, q)' = 0
    BY <1>1, <1>2, <1>4, DoneLoses DEF Serve
  <2>2. \A q \in Pastes : Owed(w, q) = IF q = b THEN 1 ELSE 0
    BY <1>0, <1>4, <1>6 DEF Owed, Reading
  <2>3. \A q \in Pastes \ {b} : Same(w, q)
    BY <1>2, <1>3, <2>1, <2>2 DEF Same
  <2>4. served' = [served EXCEPT ![b] = @ + 1]
    BY <1>0, <1>4, <1>6 DEF Serve, IInv, TypeOK
  <2>5. Contract!Next
    BY <1>1, <1>2, <1>3, <1>6, <2>1, <2>2, <2>3, <2>4, AnswerMaps
  <2> QED  BY <2>1, <2>5 DEF Fine
<1>5. CASE ~(op[w] = "get" /\ Limited(b) /\ Serve(w))
  <2>1. UNCHANGED served
    BY <1>0, <1>5, <1>6 DEF Expire, Stored, Serve, Accept, clients, IInv, TypeOK
  <2>2. CASE Done(w)
    BY <1>1, <1>2, <2>1, <2>2, GivesUp
  <2>3. CASE ~Done(w)
    <3>1. pc'[w] = "quota" /\ UNCHANGED locals
      BY <1>0, <2>3 DEF Expire, Stored, Serve, Accept, IInv, TypeOK
    <3> QED  BY <1>0, <1>1, <1>2, <2>1, <3>1, GoesOn DEF locals
  <2> QED  BY <2>2, <2>3
<1> QED  BY <1>4, <1>5

LEMMA FaultFine ==
    ASSUME NEW w, Turn(w), DInv, Fault(w)
    PROVE  Fine
<1>1. CASE HSetUnacked(w)
  BY <1>1, HSetUnackedFine
<1>2. CASE ExpireUnacked(w)
  <2>1. Shrinking
    BY <1>2, SetExpiryHere DEF ExpireUnacked, clients
  <2> QED  BY <1>2, <2>1, GoesOn DEF ExpireUnacked, locals, clients
<1>3. CASE Fail(w)
  BY <1>3, RefuseFine DEF Fail
<1> QED  BY <1>1, <1>2, <1>3 DEF Fault

-----------------------------------------------------------------------------
(* The theorems *)

LEMMA InitMaps ==
    ASSUME Init
    PROVE  DInv /\ Contract!Init
<1>1. \A p \in Pastes, w \in Workers : ~Carries(w, p) /\ ~Reading(w, p)
  BY NoBodyAssumption DEF Init, Carries, Reading, ZeroRecord
<1>2. \A p \in Pastes, k \in Keys : ~IsStored(p, k)
  BY DEF Init, IsStored
<1>3. DInv
  BY <1>1 DEF Init, DInv, StoreUncounted, Fit, Covered, Undisturbed, Uncounted, ZeroRecord
<1>4. \A p \in Pastes : Kept(p) = 0
  BY <1>2 DEF Kept
<1>5. ReadsLeft = [p \in Pastes |-> 0] /\ ReadsOwed = [p \in Pastes |-> 0]
  BY <1>1, <1>4 DEF ReadsLeft, ReadsOwed
<1>6. Contract!Init
  BY <1>5 DEF Contract!Init, Init
<1> QED  BY <1>3, <1>6

LEMMA ActingTurn ==
    ASSUME IInv, IInv', OneAtATime, OneAtATime',
           NEW w \in Workers, Start(w) \/ Proceed(w) \/ Fault(w)
    PROVE  Turn(w)
<1>1. ASSUME NEW v \in Workers \ {w}
      PROVE  pc'[v] = pc[v] /\ op'[v] = op[v] /\ key'[v] = key[v] /\ rec'[v] = rec[v]
  <2>1. CASE Start(w)
    BY <2>1 DEF Start, ReadStart, PostStart, Goto, IInv, TypeOK
  <2>2. CASE Exists(w) \/ HGetAll(w) \/ Load(w) \/ GetBody(w)
    BY <2>2 DEF Exists, HGetAll, Load, GetBody, Refuse, Done, Goto, locals, IInv, TypeOK
  <2>3. CASE Requested(w) \/ KeysExhausted(w) \/ Prepare(w) \/ QuotaVerdict(w)
    BY <2>3 DEF Requested, KeysExhausted, Prepare, QuotaVerdict, Refuse, Accept, Done, Goto,
                locals, IInv, TypeOK
  <2>4. CASE HSet(w) \/ Arm(w) \/ Expire(w)
    BY <2>4 DEF HSet, Arm, Expire, Stored, Serve, Accept, Done, Goto, locals, IInv, TypeOK
  <2>5. CASE \E k \in Keys : Generate(w, k)
    BY <2>5 DEF Generate, Goto, IInv, TypeOK
  <2>6. CASE Fault(w)
    BY <2>6 DEF Fault, HSetUnacked, ExpireUnacked, Fail, Refuse, Done, locals, IInv, TypeOK
  <2> QED  BY <2>1, <2>2, <2>3, <2>4, <2>5, <2>6 DEF Proceed
<1>2. ASSUME NEW v \in Workers \ {w}, rec[v].body \in Pastes
      PROVE  terms'[rec[v].body] = terms[rec[v].body]
  <2>1. CASE terms' = terms
    BY <2>1
  <2>2. ASSUME NEW p \in Pastes, NEW o \in Ops, NEW k \in Keys \cup {NoKey},
               NEW t \in TTLs, NEW d \in Disposables, PostStart(w, p, o, k, t, d)
        PROVE  terms'[rec[v].body] = terms[rec[v].body]
    <3>1. status[p] = "unsent" /\ home[p] = NoKey
      BY <2>2 DEF PostStart, IInv, Postings
    <3>2. rec[v].body # p
      BY <1>2, <3>1, NoKeyAssumption, NoBodyAssumption
         DEF IInv, Phases, Postings, ZeroRecord
    <3> QED  BY <1>2, <2>2, <3>2 DEF PostStart, IInv, TypeOK
  <2>3. CASE Start(w)
    BY <2>1, <2>2, <2>3 DEF Start, ReadStart, clients
  <2>4. CASE Proceed(w)
    <3>1. terms' = terms
      BY <2>4 DEF Proceed, Exists, HGetAll, Load, GetBody, Requested, KeysExhausted, Prepare,
                  QuotaVerdict, HSet, Arm, Expire, Generate, Stored, Serve, Accept, Refuse, clients
    <3> QED  BY <3>1
  <2>5. CASE Fault(w)
    <3>1. terms' = terms
      BY <2>5 DEF Fault, HSetUnacked, ExpireUnacked, Fail, Refuse, clients
    <3> QED  BY <3>1
  <2> QED  BY <2>3, <2>4, <2>5
<1> QED  BY <1>1, <1>2 DEF Turn

LEMMA StepMaps ==
    ASSUME IInv, IInv', OneAtATime, OneAtATime', Unsent, DInv, [Next]_vars
    PROVE  Fine
<1>1. CASE Tick \/ UNCHANGED vars
  BY <1>1, UnchangedFine
<1>2. CASE Crash
  BY <1>2, CrashFine
<1>3. ASSUME NEW w \in Workers, Start(w)
      PROVE  Fine
  BY <1>3, ActingTurn, ReadStartFine, PostStartFine DEF Start
<1>4. ASSUME NEW w \in Workers, Proceed(w)
      PROVE  Fine
  <2>0. Turn(w)
    BY <1>4, ActingTurn
  <2>1. CASE Exists(w) \/ HGetAll(w) \/ Load(w) \/ GetBody(w)
    BY <2>0, <2>1, ExistsFine, HGetAllFine, LoadFine, GetBodyFine
  <2>2. CASE Requested(w) \/ KeysExhausted(w) \/ Prepare(w) \/ QuotaVerdict(w)
    BY <2>0, <2>2, RequestedFine, PrepareFine, QuotaVerdictFine, RefuseFine DEF KeysExhausted
  <2>3. CASE HSet(w) \/ Arm(w) \/ Expire(w)
    BY <2>0, <2>3, HSetFine, ArmFine, ExpireFine
  <2>4. CASE \E k \in Keys : Generate(w, k)
    BY <2>0, <2>4, GenerateFine
  <2> QED  BY <1>4, <2>1, <2>2, <2>3, <2>4 DEF Proceed
<1>5. ASSUME NEW w \in Workers, Fault(w)
      PROVE  Fine
  BY <1>5, ActingTurn, FaultFine
<1> QED  BY <1>1, <1>2, <1>3, <1>4, <1>5 DEF Next

LEMMA Turns == TurnsSpec => Spec /\ []OneAtATime
<1>1. Init => OneAtATime
  BY DEF Init, OneAtATime
<1>2. OneAtATime /\ [Next /\ OneAtATime']_vars => OneAtATime'
  BY DEF OneAtATime, vars, locals
<1> QED  BY <1>1, <1>2, PTL DEF TurnsSpec, Spec

LEMMA DInvInvariant == TurnsSpec => []DInv
<1>1. Init => DInv
  BY InitMaps
<1>2. IInv /\ IInv' /\ OneAtATime /\ OneAtATime' /\ Unsent /\ DInv /\ [Next]_vars => DInv'
  BY StepMaps DEF Fine
<1> QED  BY <1>1, <1>2, Turns, Invariant, UnsentInvariant, PTL DEF Spec

\* As long as requests for the same key take turns, every step of the service is a
\* step of the contract or none, whatever requests for other keys do meanwhile: the
\* read of a disposable paste is charged once for each answer and never again,
\* whatever fails, is repeated, expires or crashes.
THEOREM ContractImplemented == TurnsSpec => ImplementsContract
<1>1. Init => Contract!Init
  BY InitMaps
<1>2. IInv /\ IInv' /\ OneAtATime /\ OneAtATime' /\ Unsent /\ DInv /\ [Next]_vars
         => [Contract!Next]_(Contract!contract)
  BY StepMaps DEF Fine
<1> QED  BY <1>1, <1>2, Turns, Invariant, UnsentInvariant, DInvInvariant, PTL
         DEF Spec, ImplementsContract, Contract!Spec

\* What PasteContract promises of reads is inductive with their types.
Promises ==
    /\ PromiseKept
    /\ \A p \in Pastes : ReadsLeft[p] \in Nat /\ ReadsOwed[p] \in Nat /\ served[p] \in Nat

\* Then no disposable paste is answered more often than its poster allowed.
THEOREM PromiseNeverBroken == TurnsSpec => []PromiseKept
<1> DEFINE limit == [p \in Pastes |-> terms[p].disposable]
<1>1. Init => Promises
  <2> SUFFICES ASSUME Init PROVE Promises
    OBVIOUS
  <2>1. Contract!Init
    BY InitMaps
  <2> QED  BY <2>1 DEF Contract!Init, Contract!AtMostAsPromised, PromiseKept, Promises
<1>2. Promises /\ IInv /\ IInv' /\ [Contract!Next]_(Contract!contract) => Promises'
  <2> SUFFICES ASSUME Promises, IInv, IInv', [Contract!Next]_(Contract!contract)
               PROVE  Promises'
    OBVIOUS
  <2>1. \A p \in Pastes : limit[p] \in Nat /\ limit'[p] \in Nat
    <3>1. \A d \in Disposables \cup {0} : d \in Nat
      BY DisposablesAssumption, ClicksWidthAssumption
    <3>2. \A p \in Pastes : /\ terms[p].disposable \in Disposables \cup {0}
                            /\ terms'[p].disposable \in Disposables \cup {0}
      BY DEF IInv, TypeOK
    <3> QED  BY <3>1, <3>2
  <2>2. \A p \in Pastes : served[p] + ReadsOwed[p] + ReadsLeft[p] <= limit[p]
    BY DEF Promises, PromiseKept, Contract!AtMostAsPromised
  <2>3. \A p \in Pastes : ReadsLeft[p] \in Nat /\ ReadsOwed[p] \in Nat /\ served[p] \in Nat
    BY DEF Promises
  <2>4. /\ ReadsLeft = [p \in Pastes |-> ReadsLeft[p]]
        /\ ReadsOwed = [p \in Pastes |-> ReadsOwed[p]]
        /\ served = [p \in Pastes |-> served[p]]
    BY DEF ReadsLeft, ReadsOwed, IInv, TypeOK
  <2> DEFINE Bounded(l, n, o, a) == n \in Nat /\ o \in Nat /\ a \in Nat /\ a + o + n <= l
             Kind(q) == Bounded(limit'[q], ReadsLeft'[q], ReadsOwed'[q], served'[q])
  <2>5. ASSUME Contract!Lose
        PROVE  \A q \in Pastes : Kind(q)
    <3>1. \A q \in Pastes : /\ ReadsLeft'[q] \in Nat /\ ReadsLeft'[q] <= ReadsLeft[q]
                            /\ ReadsOwed'[q] \in Nat /\ ReadsOwed'[q] <= ReadsOwed[q]
      BY <2>5 DEF Contract!Lose
    <3>2. served' = served /\ limit' = limit
      BY <2>5 DEF Contract!Lose
    <3> HIDE DEF limit
    <3> QED  BY <2>1, <2>2, <2>3, <3>1, <3>2
  <2>6. ASSUME NEW p \in Pastes, Contract!Charge(p)
        PROVE  \A q \in Pastes : Kind(q)
    <3>1. served' = served /\ limit' = limit /\ ReadsLeft[p] > 0
      BY <2>6 DEF Contract!Charge
    <3>2. /\ ReadsLeft' = [ReadsLeft EXCEPT ![p] = @ - 1]
          /\ ReadsOwed' = [ReadsOwed EXCEPT ![p] = @ + 1]
      BY <2>6 DEF Contract!Charge
    <3> HIDE DEF limit
    <3>3. ASSUME NEW q \in Pastes
          PROVE  \/ q = p /\ ReadsLeft'[q] = ReadsLeft[q] - 1 /\ ReadsOwed'[q] = ReadsOwed[q] + 1
                 \/ q # p /\ ReadsLeft'[q] = ReadsLeft[q] /\ ReadsOwed'[q] = ReadsOwed[q]
      BY <2>4, <3>2
    <3> QED  BY <2>1, <2>2, <2>3, <3>1, <3>3
  <2>7. ASSUME NEW p \in Pastes, Contract!Answer(p)
        PROVE  \A q \in Pastes : Kind(q)
    BY <2>1, <2>2, <2>3, <2>4, <2>7 DEF Contract!Answer
  <2>8. ASSUME NEW p \in Pastes, Contract!ChargeAndAnswer(p)
        PROVE  \A q \in Pastes : Kind(q)
    BY <2>1, <2>2, <2>3, <2>4, <2>8 DEF Contract!ChargeAndAnswer
  <2>9. ASSUME NEW p \in Pastes, NEW n \in Disposables, Contract!Post(p, n)
        PROVE  \A q \in Pastes : Kind(q)
    <3>1. /\ served' = served /\ ReadsOwed' = ReadsOwed /\ limit[p] = 0
          /\ limit' = [limit EXCEPT ![p] = n]
          /\ ReadsLeft' = [ReadsLeft EXCEPT ![p] = n]
      BY <2>9 DEF Contract!Post
    <3>2. limit = [q \in Pastes |-> limit[q]]
      OBVIOUS
    <3>3. n \in Nat
      BY DisposablesAssumption, ClicksWidthAssumption
    <3> HIDE DEF limit
    <3> QED  BY <2>1, <2>2, <2>3, <2>4, <3>1, <3>2, <3>3
  <2>10. ASSUME UNCHANGED Contract!contract
        PROVE  \A q \in Pastes : Kind(q)
    <3>1. /\ served' = served /\ limit' = limit
          /\ ReadsLeft' = ReadsLeft /\ ReadsOwed' = ReadsOwed
      BY <2>10 DEF Contract!contract
    <3> HIDE DEF limit
    <3> QED  BY <2>1, <2>2, <2>3, <3>1
  <2>11. \A q \in Pastes : Kind(q)
    <3> HIDE DEF Kind
    <3> QED  BY <2>5, <2>6, <2>7, <2>8, <2>9, <2>10 DEF Contract!Next
  <2> QED  BY <2>11 DEF Promises, PromiseKept, Contract!AtMostAsPromised
<1> QED  BY <1>1, <1>2, Turns, Invariant, ContractImplemented, PTL
         DEF Spec, ImplementsContract, Contract!Spec, Promises
=============================================================================
