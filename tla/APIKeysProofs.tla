--------------------------- MODULE APIKeysProofs ----------------------------
(***************************************************************************)
(* Theorems about APIKeys for every number of keys, administrators and     *)
(* requests, with failing commands and crashes.                            *)
(*                                                                         *)
(* SetByID writes whether or not the key is still there, so what protects  *)
(* the database is what an administrator has read before: a key that gen   *)
(* has made, and the flag of the command.                                  *)
(***************************************************************************)
EXTENDS APIKeys, TLAPS

AdminSteps == {"idle", "read", "write", "del"}
WorkerSteps == {"idle", "exists", "getid", "checkvalid", "privileged"}

\* Who is about to write has read a key that exists or existed, or draws it; who is
\* served has read one.
Roles ==
    /\ \A a \in Admins : pc[a] \in AdminSteps
    /\ \A w \in Workers : pc[w] \in WorkerSteps
    /\ \A a \in Actors : pc[a] # "idle" => name[a] \in Names
    /\ \A a \in Admins : pc[a] = "write" => name[a] \in generated /\ valid[a] = Flag(a)
    /\ \A w \in Workers : pc[w] = "privileged" => name[w] \in generated

KInv == TypeOK /\ OnlyGenerated /\ Roles

-----------------------------------------------------------------------------
(* The parts of a step *)

\* The database keeps its shape when the key that is written was generated.
LEMMA WriteKeeps ==
    ASSUME KInv, NEW n \in generated, NEW v \in {"valid", "invalid", Absent},
           db' = [db EXCEPT ![n] = v], generated' = generated
    PROVE  db' \in [Names -> {"valid", "invalid", Absent}] /\ OnlyGenerated'
BY DEF KInv, TypeOK, OnlyGenerated

LEMMA DeleteKeeps ==
    ASSUME KInv, NEW n \in Names, db' = [db EXCEPT ![n] = Absent], generated' = generated
    PROVE  db' \in [Names -> {"valid", "invalid", Absent}] /\ OnlyGenerated'
BY DEF KInv, TypeOK, OnlyGenerated

\* A process or a request that ends.
LEMMA DoneKeeps ==
    ASSUME KInv, NEW a \in Actors, Done(a), UNCHANGED generated,
           db' \in [Names -> {"valid", "invalid", Absent}], OnlyGenerated'
    PROVE  KInv'
<1>1. TypeOK'
  BY DEF Done, Goto, KInv, TypeOK, AllCommands
<1>2. /\ \A b \in Actors : \/ pc'[b] = pc[b] /\ name'[b] = name[b] /\ b # a
                           \/ pc'[b] = "idle"
      /\ \A b \in Admins \ {a} : cmd'[b] = cmd[b] /\ valid'[b] = valid[b]
  BY DEF Done, Goto, KInv, TypeOK
<1>3. Roles'
  BY <1>2 DEF KInv, Roles, Flag, Actors, AdminSteps, WorkerSteps
<1> QED  BY <1>1, <1>3 DEF KInv

\* A step on the way that changes neither the database nor another actor.
LEMMA GotoKeeps ==
    ASSUME KInv, NEW a \in Actors, UNCHANGED <<db, cmd, valid, generated>>,
           NEW l, Goto(a, l), l # "write",
           a \in Admins => l \in AdminSteps, a \in Workers => l \in WorkerSteps,
           NEW n \in Names, name' = [name EXCEPT ![a] = n],
           l = "privileged" => n \in generated
    PROVE  KInv'
<1>1. a \in Admins \/ a \in Workers
  BY DEF Actors
<1>2. TypeOK'
  BY <1>1 DEF Goto, KInv, TypeOK, AdminSteps, WorkerSteps
<1>3. \A b \in Actors : /\ pc'[b] = IF b = a THEN l ELSE pc[b]
                        /\ name'[b] = IF b = a THEN n ELSE name[b]
  BY DEF Goto, KInv, TypeOK
<1>4. Roles'
  BY <1>3 DEF KInv, Roles, Flag, Actors
<1>5. OnlyGenerated'
  BY DEF KInv, OnlyGenerated
<1> QED  BY <1>2, <1>4, <1>5 DEF KInv

-----------------------------------------------------------------------------
(* The command line *)

LEMMA GenerateKeeps ==
    ASSUME KInv, NEW a \in Admins, NEW n \in Names, Generate(a, n)
    PROVE  KInv'
<1>1. a \in Actors /\ a \notin Workers
  BY ActorsAssumption DEF Actors
<1>2. TypeOK'
  BY <1>1 DEF Generate, Goto, KInv, TypeOK
<1>3. OnlyGenerated'
  BY DEF Generate, KInv, OnlyGenerated
<1>4. /\ \A b \in Actors : /\ pc'[b] = IF b = a THEN "write" ELSE pc[b]
                           /\ name'[b] = IF b = a THEN n ELSE name[b]
      /\ \A b \in Admins : /\ cmd'[b] = IF b = a THEN "gen" ELSE cmd[b]
                           /\ valid'[b] = IF b = a THEN TRUE ELSE valid[b]
      /\ generated' = generated \cup {n}
  BY DEF Generate, Goto, KInv, TypeOK
<1>5. Roles'
  BY <1>1, <1>4 DEF KInv, Roles, Flag, Actors, AdminSteps
<1> QED  BY <1>2, <1>3, <1>5 DEF KInv

LEMMA CommandKeeps ==
    ASSUME KInv, NEW a \in Admins, NEW n \in Names,
           NEW c \in AdminCommands, Command(a, c, n)
    PROVE  KInv'
<1>1. TypeOK'
  BY CommandsAssumption DEF Command, Goto, KInv, TypeOK, Actors, AllCommands
<1>2. OnlyGenerated'
  BY DEF Command, KInv, OnlyGenerated
<1>3. a \in Actors /\ a \notin Workers
  BY ActorsAssumption DEF Actors
<1>4. /\ \A b \in Actors :
            /\ pc'[b] = IF b = a THEN (IF c = "rm" THEN "del" ELSE "read") ELSE pc[b]
            /\ name'[b] = IF b = a THEN n ELSE name[b]
      /\ \A b \in Admins : cmd'[b] = IF b = a THEN c ELSE cmd[b]
  BY DEF Command, Goto, KInv, TypeOK
<1>5. Roles'
  BY <1>3, <1>4 DEF Command, KInv, Roles, Flag, Actors, AdminSteps
<1> QED  BY <1>1, <1>2, <1>5 DEF KInv

LEMMA ReadKeeps ==
    ASSUME KInv, NEW a \in Admins, Read(a)
    PROVE  KInv'
<1>1. a \in Actors /\ a \notin Workers /\ name[a] \in Names
  BY ActorsAssumption DEF Read, KInv, Roles, Actors
<1>2. CASE Done(a)
  BY <1>1, <1>2, DoneKeeps DEF Read, KInv, TypeOK, OnlyGenerated
<1>3. CASE /\ db[name[a]] # Absent
           /\ valid' = [valid EXCEPT ![a] = Flag(a)]
           /\ Goto(a, "write")
           /\ UNCHANGED <<cmd, name>>
  <2>1. name[a] \in generated
    BY <1>1, <1>3 DEF KInv, OnlyGenerated
  <2>2. TypeOK'
    BY <1>1, <1>3 DEF Read, Goto, Flag, KInv, TypeOK
  <2>3. /\ \A b \in Actors : pc'[b] = IF b = a THEN "write" ELSE pc[b]
        /\ \A b \in Admins : valid'[b] = IF b = a THEN Flag(a) ELSE valid[b]
    BY <1>3 DEF Goto, KInv, TypeOK
  <2>4. Roles'
    BY <1>1, <1>3, <2>1, <2>3 DEF Read, KInv, Roles, Flag, Actors, AdminSteps
  <2> QED  BY <2>2, <2>4 DEF Read, KInv, OnlyGenerated
<1> QED  BY <1>2, <1>3 DEF Read

\* What an administrator does to the database.
LEMMA WrittenKeeps ==
    ASSUME KInv, NEW a \in Actors, HSet(a) \/ Del(a), generated' = generated
    PROVE  db' \in [Names -> {"valid", "invalid", Absent}] /\ OnlyGenerated'
<1>1. /\ a \in Admins /\ name[a] \in Names
      /\ pc[a] = "write" => name[a] \in generated
  BY DEF HSet, Del, KInv, Roles, Actors, WorkerSteps
<1> QED  BY <1>1, WriteKeeps, DeleteKeeps DEF HSet, Del

LEMMA AdminWriteKeeps ==
    ASSUME KInv, NEW a \in Admins, Write(a) \/ Delete(a)
    PROVE  KInv'
<1>1. a \in Actors
  BY DEF Actors
<1> QED  BY <1>1, WrittenKeeps, DoneKeeps DEF Write, Delete

LEMMA UnackedKeeps ==
    ASSUME KInv, NEW a \in Admins, Unacked(a)
    PROVE  KInv'
<1>1. a \in Actors
  BY DEF Actors
<1>2. db' \in [Names -> {"valid", "invalid", Absent}] /\ OnlyGenerated'
  BY <1>1, WrittenKeeps DEF Unacked
<1> QED  BY <1>2 DEF Unacked, KInv, TypeOK, Roles, Flag

-----------------------------------------------------------------------------
(* checkAPIKey, failures *)

LEMMA RequestKeeps ==
    ASSUME KInv, NEW w \in Workers, NEW n \in Names, Request(w, n)
    PROVE  KInv'
<1>1. w \in Actors /\ w \notin Admins
  BY ActorsAssumption DEF Actors
<1>2. "exists" \in WorkerSteps /\ "exists" # "write" /\ "exists" # "privileged"
  BY DEF WorkerSteps
<1> QED  BY <1>1, <1>2, GotoKeeps DEF Request

LEMMA CheckKeeps ==
    ASSUME KInv, NEW w \in Workers, Exists(w) \/ GetID(w) \/ CheckValid(w) \/ Serve(w)
    PROVE  KInv'
<1>1. /\ w \in Actors /\ w \notin Admins /\ name[w] \in Names
      /\ name = [name EXCEPT ![w] = name[w]]
  BY ActorsAssumption DEF Exists, GetID, CheckValid, Serve, KInv, TypeOK, Roles, Actors
<1>2. UNCHANGED <<db, generated>>
  BY DEF Exists, GetID, CheckValid, Serve
<1>3. CASE Done(w)
  BY <1>1, <1>2, <1>3, DoneKeeps DEF KInv, TypeOK, OnlyGenerated
<1>4. CASE /\ UNCHANGED <<cmd, name, valid>>
           /\ \/ Goto(w, "getid") \/ Goto(w, "checkvalid")
              \/ db[name[w]] # Absent /\ Goto(w, "privileged")
  <2>1. name' = [name EXCEPT ![w] = name[w]]
    BY <1>1, <1>4
  <2>2. db[name[w]] # Absent => name[w] \in generated
    BY <1>1 DEF KInv, OnlyGenerated
  <2> QED  BY <1>1, <1>2, <1>4, <2>1, <2>2, GotoKeeps DEF WorkerSteps
<1> QED  BY <1>3, <1>4, AbsentKeyAssumption DEF Exists, GetID, CheckValid, Serve

LEMMA FailKeeps ==
    ASSUME KInv, NEW a \in Actors, Fail(a)
    PROVE  KInv'
<1>1. UNCHANGED generated /\ Done(a)
  BY DEF Fail
<1>2. db' \in [Names -> {"valid", "invalid", Absent}] /\ OnlyGenerated'
  BY <1>1, WrittenKeeps DEF Fail, KInv, TypeOK, OnlyGenerated
<1> QED  BY <1>1, <1>2, DoneKeeps

LEMMA CrashKeeps ==
    ASSUME KInv, Crash
    PROVE  KInv'
<1>1. TypeOK'
  BY DEF Crash, KInv, TypeOK
<1>2. \A b \in Actors : \/ b \notin Workers /\ pc'[b] = pc[b] /\ name'[b] = name[b]
                        \/ b \in Workers /\ pc'[b] = "idle"
  BY DEF Crash
<1>3. Roles'
  BY <1>2, ActorsAssumption DEF Crash, KInv, Roles, Flag, Actors, WorkerSteps
<1> QED  BY <1>1, <1>3 DEF Crash, KInv, OnlyGenerated

-----------------------------------------------------------------------------
(* The theorems *)

LEMMA InitInv == Init => KInv
BY DEF Init, KInv, TypeOK, AllCommands, OnlyGenerated, Roles, Actors, AdminSteps, WorkerSteps

LEMMA NextInv == KInv /\ [Next]_vars => KInv'
<1> SUFFICES ASSUME KInv, [Next]_vars PROVE KInv'
  OBVIOUS
<1>1. ASSUME NEW a \in Admins, NEW n \in Names,
             \/ Generate(a, n)
             \/ \E c \in AdminCommands : Command(a, c, n)
      PROVE  KInv'
  BY <1>1, GenerateKeeps, CommandKeeps
<1>2. ASSUME NEW a \in Admins, Execute(a) \/ Unacked(a)
      PROVE  KInv'
  BY <1>2, ReadKeeps, AdminWriteKeeps, UnackedKeeps DEF Execute
<1>3. ASSUME NEW w \in Workers,
             \/ \E n \in Names : Request(w, n)
             \/ Exists(w) \/ GetID(w) \/ CheckValid(w) \/ Serve(w)
      PROVE  KInv'
  BY <1>3, RequestKeeps, CheckKeeps
<1>4. CASE Crash \/ \E a \in Actors : Fail(a)
  BY <1>4, CrashKeeps, FailKeeps
<1>5. CASE UNCHANGED vars
  BY <1>5 DEF vars, KInv, TypeOK, OnlyGenerated, Roles, Flag
<1> QED  BY <1>1, <1>2, <1>3, <1>4, <1>5 DEF Next

\* The invariant holds for every race of the command line with itself and with
\* checkAPIKey, with failing commands and crashes of the server.
THEOREM KeysInvariant == Spec => []KInv
<1> QED  BY InitInv, NextInv, PTL DEF Spec

\* No command and no race of commands makes an API key of a string that gen has
\* not made: revoke and reauthorize only write back what they have read.
THEOREM KeysGenerated == Spec => []OnlyGenerated
<1>1. KInv => OnlyGenerated
  BY DEF KInv
<1> QED  BY <1>1, KeysInvariant, PTL

\* The actors that a step of actor a leaves alone.
Others(a) == \A b \in Actors \ {a} : pc'[b] = pc[b] /\ name'[b] = name[b]

LEMMA StepsAlone ==
    ASSUME KInv, NEW a \in Actors
    PROVE  /\ Done(a) => /\ Others(a) /\ name'[a] = NoName
                         /\ \A b \in Admins \ {a} : cmd'[b] = cmd[b]
           /\ \A l : Goto(a, l) /\ UNCHANGED name => Others(a) /\ pc'[a] = l
BY DEF Done, Goto, Others, KInv, TypeOK

\* A step keeps a key gone when it does not write it, and the actor that takes
\* the step is not about to use it.
LEMMA GoneKeeps ==
    ASSUME KInv, NEW n \in Names, Gone(n), NEW a \in Actors, Others(a),
           n \in generated', db'[n] = Absent,
           name'[a] = n => pc'[a] \notin {"write", "privileged"}
    PROVE  Gone(n)'
BY DEF Gone, Others, Actors

\* Nobody writes a key that is gone.
LEMMA GoneUnwritten ==
    ASSUME KInv, NEW n \in Names, Gone(n), NEW a \in Actors, HSet(a) \/ Del(a)
    PROVE  db'[n] = Absent
<1>1. a \in Admins
  BY DEF HSet, Del, KInv, Roles, Actors, WorkerSteps
<1> QED  BY <1>1 DEF HSet, Del, Gone, KInv, TypeOK

\* A key that is removed, and that no command has read before, serves no request
\* again, however often it is revoked, reauthorized and removed.
THEOREM RemovedForGood == Spec => GoneIsFinal
<1>1. ASSUME KInv, [Next]_vars, NEW n \in Names, Gone(n)
      PROVE  Gone(n)'
  <2>1. ASSUME NEW a \in Admins, NEW m \in Names, Generate(a, m)
        PROVE  Gone(n)'
    <3>1. a \in Actors /\ Others(a) /\ name'[a] = m /\ m # n /\ UNCHANGED db
      BY <1>1, <2>1 DEF Generate, Goto, Gone, Others, KInv, TypeOK, Actors
    <3> QED  BY <1>1, <2>1, <3>1, GoneKeeps DEF Generate, Gone
  <2>2. ASSUME NEW a \in Admins, NEW m \in Names,
               NEW c \in AdminCommands, Command(a, c, m)
        PROVE  Gone(n)'
    <3>1. a \in Actors /\ Others(a) /\ pc'[a] \in {"del", "read"}
      BY <1>1, <2>2 DEF Command, Goto, Others, KInv, TypeOK, Actors
    <3> QED  BY <1>1, <2>2, <3>1, GoneKeeps DEF Command, Gone
  <2>3. ASSUME NEW a \in Admins, Read(a)
        PROVE  Gone(n)'
    <3>1. a \in Actors
      BY DEF Actors
    <3>2. CASE Done(a)
      BY <1>1, <2>3, <3>1, <3>2, StepsAlone, GoneKeeps, NoNameAssumption DEF Read, Gone
    <3>3. CASE db[name[a]] # Absent /\ Goto(a, "write") /\ UNCHANGED name
      BY <1>1, <2>3, <3>1, <3>3, StepsAlone, GoneKeeps DEF Read, Gone
    <3> QED  BY <2>3, <3>2, <3>3 DEF Read
  <2>4. ASSUME NEW a \in Admins, Write(a) \/ Delete(a)
        PROVE  Gone(n)'
    <3>1. a \in Actors /\ name'[a] = NoName /\ Others(a)
      BY <1>1, <2>4, StepsAlone DEF Write, Delete, Actors
    <3>2. db'[n] = Absent
      BY <1>1, <2>4, GoneUnwritten, <3>1 DEF Write, Delete
    <3> QED  BY <1>1, <2>4, <3>1, <3>2, GoneKeeps, NoNameAssumption
             DEF Write, Delete, Gone
  <2>5. ASSUME NEW w \in Workers, NEW m \in Names, Request(w, m)
        PROVE  Gone(n)'
    <3>1. w \in Actors /\ Others(w) /\ pc'[w] = "exists"
      BY <1>1, <2>5 DEF Request, Goto, Others, KInv, TypeOK, Actors
    <3> QED  BY <1>1, <2>5, <3>1, GoneKeeps DEF Request, Gone
  <2>6. ASSUME NEW w \in Workers, Exists(w) \/ GetID(w) \/ CheckValid(w) \/ Serve(w)
        PROVE  Gone(n)'
    <3>1. w \in Actors /\ UNCHANGED <<db, generated>>
      BY <2>6 DEF Actors, Exists, GetID, CheckValid, Serve
    <3>2. CASE Done(w)
      BY <1>1, <3>1, <3>2, StepsAlone, GoneKeeps, NoNameAssumption DEF Gone
    <3>3. CASE Goto(w, "getid") /\ UNCHANGED name
      BY <1>1, <3>1, <3>3, StepsAlone, GoneKeeps DEF Gone
    <3>4. CASE Goto(w, "checkvalid") /\ UNCHANGED name
      BY <1>1, <3>1, <3>4, StepsAlone, GoneKeeps DEF Gone
    <3>5. CASE db[name[w]] = "valid" /\ Goto(w, "privileged") /\ UNCHANGED name
      BY <1>1, <3>1, <3>5, StepsAlone, GoneKeeps, AbsentKeyAssumption DEF Gone
    <3> QED  BY <2>6, <3>2, <3>3, <3>4, <3>5 DEF Exists, GetID, CheckValid, Serve
  <2>7. ASSUME NEW a \in Actors, Fail(a)
        PROVE  Gone(n)'
    <3>1. Others(a) /\ name'[a] = NoName
      BY <1>1, <2>7, StepsAlone DEF Fail
    <3>2. db'[n] = Absent
      BY <1>1, <2>7, GoneUnwritten DEF Fail, Gone
    <3> QED  BY <1>1, <2>7, <3>1, <3>2, GoneKeeps, NoNameAssumption DEF Fail, Gone
  <2>8. CASE Crash
    BY <1>1, <2>8, NoNameAssumption, ActorsAssumption DEF Crash, Gone, Actors
  <2>9. CASE UNCHANGED vars
    BY <1>1, <2>9 DEF vars, Gone
  <2>10. ASSUME NEW a \in Admins, Unacked(a)
         PROVE  Gone(n)'
    <3>1. a \in Actors
      BY DEF Actors
    <3>2. db'[n] = Absent
      BY <1>1, <2>10, <3>1, GoneUnwritten DEF Unacked
    <3> QED  BY <1>1, <2>10, <3>2 DEF Unacked, Gone
  <2> QED  BY <1>1, <2>1, <2>2, <2>3, <2>4, <2>5, <2>6, <2>7, <2>8, <2>9, <2>10
           DEF Next, Execute
<1>2. KInv /\ [Next]_vars => [\A n \in Names : Gone(n) => Gone(n)']_vars
  BY <1>1
<1> QED  BY <1>2, KeysInvariant, PTL DEF Spec, GoneIsFinal

\* What RevokedUntilReauthorized allows a step to do to a key that is barred.
Lifted(n) ==
    \/ Barred(n)' \/ db'[n] = Absent
    \/ \E a \in Admins : name'[a] = n /\ Flag(a)'

\* A step keeps a key barred when it does not write another flag, no command but
\* its own changes, and its actor is not about to use the key or to allow it.
LEMMA BarredKeeps ==
    ASSUME KInv, NEW n \in Names, Barred(n), NEW a \in Actors, Others(a),
           db'[n] = "invalid", \A b \in Admins \ {a} : cmd'[b] = cmd[b],
           name'[a] = n => /\ a \in Workers => pc'[a] # "privileged"
                           /\ a \in Admins => pc'[a] \notin {"read", "write"} \/ ~Flag(a)'
    PROVE  Barred(n)'
BY DEF Barred, Others, Actors, Flag

\* Nobody makes a key valid that is barred.
LEMMA BarredUnlifted ==
    ASSUME KInv, NEW n \in Names, Barred(n), NEW a \in Actors, HSet(a) \/ Del(a)
    PROVE  db'[n] \in {"invalid", Absent}
<1>1. a \in Admins
  BY DEF HSet, Del, KInv, Roles, Actors, WorkerSteps
<1>2. pc[a] = "write" /\ name[a] = n => ~valid[a]
  BY <1>1 DEF Barred, KInv, Roles
<1> QED  BY <1>1, <1>2 DEF HSet, Del, Barred, KInv, TypeOK

\* A key that is revoked serves no request that comes later, until it is removed
\* or somebody asks for it to be reauthorized, whatever other commands do.
THEOREM RevokedStays == Spec => RevokedUntilReauthorized
<1>1. ASSUME KInv, [Next]_vars, NEW n \in Names, Barred(n)
      PROVE  Lifted(n)
  <2>1. ASSUME NEW a \in Admins, NEW m \in Names, Generate(a, m)
        PROVE  Lifted(n)
    <3>1. m # n
      BY <1>1, <2>1, AbsentKeyAssumption DEF Generate, Barred
    <3>2. a \in Actors /\ a \notin Workers
      BY ActorsAssumption DEF Actors
    <3>3. /\ Others(a) /\ name'[a] = m /\ UNCHANGED db
          /\ \A b \in Admins \ {a} : cmd'[b] = cmd[b]
      BY <1>1, <2>1, <3>2 DEF Generate, Goto, Others, KInv, TypeOK
    <3>4. Barred(n)'
      BY <1>1, <3>1, <3>2, <3>3, BarredKeeps DEF Barred
    <3> QED  BY <3>4 DEF Lifted
  <2>2. ASSUME NEW a \in Admins, NEW m \in Names,
               NEW c \in AdminCommands, Command(a, c, m)
        PROVE  Lifted(n)
    <3>1. a \in Actors /\ a \notin Workers
      BY ActorsAssumption DEF Actors
    <3>2. /\ Others(a) /\ name'[a] = m /\ cmd'[a] = c /\ UNCHANGED db
          /\ \A b \in Admins \ {a} : cmd'[b] = cmd[b]
      BY <1>1, <2>2, <3>1 DEF Command, Goto, Others, KInv, TypeOK
    <3>3. CASE m = n /\ c = "reauthorize"
      BY <3>2, <3>3 DEF Lifted, Flag
    <3>4. CASE ~(m = n /\ c = "reauthorize")
      <4>1. c # "gen"
        BY CommandsAssumption DEF AllCommands
      <4>2. Barred(n)'
        BY <1>1, <3>1, <3>2, <3>4, <4>1, BarredKeeps DEF Barred, Flag
      <4> QED  BY <4>2 DEF Lifted
    <3> QED  BY <3>3, <3>4
  <2>3. ASSUME NEW a \in Actors, Others(a), UNCHANGED db,
               \A b \in Admins \ {a} : cmd'[b] = cmd[b],
               name'[a] = n => UNCHANGED cmd,
               name'[a] # n \/ pc'[a] # "privileged",
               name'[a] = n => name[a] = n /\ (pc'[a] = "write" => pc[a] = "read")
                               /\ pc'[a] # "read"
        PROVE  Lifted(n)
    <3>1. Barred(n)'
      BY <1>1, <2>3, BarredKeeps DEF Barred, Flag
    <3> QED  BY <3>1 DEF Lifted
  <2>4. ASSUME NEW a \in Actors, Done(a), UNCHANGED db
        PROVE  Lifted(n)
    BY <1>1, <2>3, <2>4, StepsAlone, NoNameAssumption
  <2>5. ASSUME NEW a \in Admins, Read(a)
        PROVE  Lifted(n)
    <3>1. a \in Actors
      BY DEF Actors
    <3>2. CASE Goto(a, "write") /\ UNCHANGED <<cmd, name>>
      <4>1. Others(a) /\ pc'[a] = "write"
        BY <1>1, <3>1, <3>2, StepsAlone
      <4> QED  BY <2>3, <2>5, <3>1, <3>2, <4>1 DEF Read
    <3> QED  BY <2>4, <2>5, <3>1, <3>2 DEF Read
  <2>6. ASSUME NEW a \in Actors, Done(a), HSet(a) \/ Del(a)
        PROVE  Lifted(n)
    <3>1. /\ Others(a) /\ name'[a] = NoName
          /\ \A b \in Admins \ {a} : cmd'[b] = cmd[b]
      BY <1>1, <2>6, StepsAlone
    <3>2. db'[n] \in {"invalid", Absent}
      BY <1>1, <2>6, BarredUnlifted
    <3>3. CASE db'[n] = "invalid"
      <4>1. Barred(n)'
        BY <1>1, <2>6, <3>1, <3>3, BarredKeeps, NoNameAssumption
      <4> QED  BY <4>1 DEF Lifted
    <3> QED  BY <3>2, <3>3 DEF Lifted
  <2>7. ASSUME NEW w \in Workers, NEW m \in Names, Request(w, m)
        PROVE  Lifted(n)
    <3>1. w \in Actors /\ w \notin Admins
      BY ActorsAssumption DEF Actors
    <3>2. Others(w) /\ pc'[w] = "exists"
      BY <1>1, <2>7, <3>1 DEF Request, Goto, Others, KInv, TypeOK
    <3>3. Barred(n)'
      BY <1>1, <2>7, <3>1, <3>2, BarredKeeps DEF Request, Barred
    <3> QED  BY <3>3 DEF Lifted
  <2>8. ASSUME NEW w \in Workers, Exists(w) \/ GetID(w) \/ CheckValid(w) \/ Serve(w)
        PROVE  Lifted(n)
    <3>1. w \in Actors /\ UNCHANGED db
      BY <2>8 DEF Actors, Exists, GetID, CheckValid, Serve
    <3>2. CASE (Goto(w, "getid") \/ Goto(w, "checkvalid")) /\ UNCHANGED <<cmd, name>>
      <4>1. Others(w) /\ pc'[w] \in {"getid", "checkvalid"}
        BY <1>1, <3>1, <3>2, StepsAlone
      <4> QED  BY <2>3, <3>1, <3>2, <4>1
    <3>3. CASE db[name[w]] = "valid" /\ Goto(w, "privileged") /\ UNCHANGED <<cmd, name>>
      <4>1. Others(w) /\ pc'[w] = "privileged" /\ name'[w] # n
        BY <1>1, <3>1, <3>3, StepsAlone DEF Barred
      <4> QED  BY <2>3, <3>1, <3>3, <4>1
    <3> QED  BY <2>4, <2>8, <3>1, <3>2, <3>3 DEF Exists, GetID, CheckValid, Serve
  <2>9. ASSUME NEW a \in Actors, Fail(a)
        PROVE  Lifted(n)
    BY <2>4, <2>6, <2>9 DEF Fail
  <2>10. CASE Crash
    <3>1. Barred(n)'
      BY <1>1, <2>10, NoNameAssumption, ActorsAssumption DEF Crash, Barred, Actors, Flag
    <3> QED  BY <3>1 DEF Lifted
  <2>11. CASE UNCHANGED vars
    BY <1>1, <2>11 DEF vars, Barred, Flag, Lifted
  <2>12. ASSUME NEW a \in Admins, Write(a) \/ Delete(a)
         PROVE  Lifted(n)
    BY <2>6, <2>12 DEF Write, Delete, Actors
  <2>13. ASSUME NEW a \in Admins, Unacked(a)
         PROVE  Lifted(n)
    <3>1. db'[n] \in {"invalid", Absent}
      BY <1>1, <2>13, BarredUnlifted DEF Unacked, Actors
    <3> QED  BY <1>1, <2>13, <3>1 DEF Unacked, Barred, Flag, Lifted
  <2> QED  BY <1>1, <2>1, <2>2, <2>5, <2>7, <2>8, <2>9, <2>10, <2>11, <2>12, <2>13
           DEF Next, Execute
<1>2. KInv /\ [Next]_vars => [\A n \in Names : Barred(n) => Lifted(n)]_vars
  BY <1>1
<1>3. [\A n \in Names : Barred(n) => Lifted(n)]_vars =>
        [\A n \in Names : Barred(n) =>
            \/ Barred(n)' \/ db'[n] = Absent
            \/ \E a \in Admins : name'[a] = n /\ Flag(a)']_vars
  BY DEF Lifted
<1> QED  BY <1>2, <1>3, KeysInvariant, PTL DEF Spec, RevokedUntilReauthorized
=============================================================================
