------------------------------- MODULE APIKeys ------------------------------
(***************************************************************************)
(* API keys: the command line (paste apikeys gen, revoke, reauthorize, rm) *)
(* and the check that CacheService.Serve makes of the key of a POST.  Each *)
(* command is a process of its own that reads and writes the same Redis    *)
(* database as the server, a command at a time.                            *)
(***************************************************************************)
EXTENDS Integers

CONSTANTS
    Names,   \* strings that are or might be API keys
    Admins,  \* processes of the command line
    Workers, \* goroutines serving POST requests that carry a key
    AdminCommands,  \* what administrators run besides gen: a subset of AllCommands
    Faults,  \* what may go wrong: a subset of {"error", "retry", "crash"}
    NoName, Absent

AllCommands == {"revoke", "reauthorize", "rm"}

ASSUME CommandsAssumption == AdminCommands \subseteq AllCommands
ASSUME ActorsAssumption == Admins \cap Workers = {}
ASSUME AbsentKeyAssumption == Absent \notin {"valid", "invalid"}
ASSUME NoNameAssumption == NoName \notin Names
ASSUME KeyFaultsAssumption == Faults \subseteq {"error", "retry", "crash"}

VARIABLES
    db,         \* Redis: "valid" or "invalid" for a key, or Absent
    pc,         \* where an admin or a worker is
    cmd,        \* the command an admin runs
    name,       \* the key that an admin or a worker deals with
    valid,      \* the flag of the APIKey aggregate in an admin's hands
    generated   \* the keys that gen has drawn (for the properties only)

vars == <<db, pc, cmd, name, valid, generated>>

Actors == Admins \cup Workers

Goto(a, label) == pc' = [pc EXCEPT ![a] = label]

\* The process of a command exits, or the request is answered.
Done(a) ==
    /\ Goto(a, "idle")
    /\ name' = [name EXCEPT ![a] = NoName]
    /\ cmd' = [b \in Admins |-> IF b = a THEN "rm" ELSE cmd[b]]
    /\ valid' = [b \in Admins |-> IF b = a THEN FALSE ELSE valid[b]]

-----------------------------------------------------------------------------
(* The command line *)

\* gen draws 16 random bytes, so a string that nobody has used before; Write
\* stores the key.
Generate(a, n) ==
    /\ pc[a] = "idle"
    /\ db[n] = Absent /\ n \notin generated /\ \A b \in Actors : name[b] # n
    /\ cmd' = [cmd EXCEPT ![a] = "gen"]
    /\ name' = [name EXCEPT ![a] = n]
    /\ valid' = [valid EXCEPT ![a] = TRUE]
    /\ generated' = generated \cup {n}
    /\ Goto(a, "write")
    /\ UNCHANGED db

Command(a, c, n) ==
    /\ pc[a] = "idle"
    /\ cmd' = [cmd EXCEPT ![a] = c]
    /\ name' = [name EXCEPT ![a] = n]
    /\ Goto(a, IF c = "rm" THEN "del" ELSE "read")
    /\ UNCHANGED <<db, valid, generated>>

\* The flag a command stores: Invalidate and Reauthorize set it in what they have
\* read, gen in the key it makes.
Flag(a) == cmd[a] \in {"gen", "reauthorize"}

\* Mutant: the id of what was read is not parsed, so a missing key is no error.
ReadUnparsed(a) ==
    /\ pc[a] = "read"
    /\ valid' = [valid EXCEPT ![a] = Flag(a)]
    /\ Goto(a, "write")
    /\ UNCHANGED <<db, cmd, name, generated>>

\* GetByID: HGETALL.  A missing key scans into an empty id, which does not parse.
Read(a) ==
    /\ pc[a] = "read"
    /\ \/ /\ db[name[a]] = Absent
          /\ Done(a)
       \/ /\ db[name[a]] # Absent
          /\ valid' = [valid EXCEPT ![a] = Flag(a)]
          /\ Goto(a, "write")
          /\ UNCHANGED <<cmd, name>>
    /\ UNCHANGED <<db, generated>>

\* SetByID: HSET, whether or not the key is still there.
HSet(a) ==
    /\ pc[a] = "write"
    /\ db' = [db EXCEPT ![name[a]] = IF valid[a] THEN "valid" ELSE "invalid"]

Write(a) == HSet(a) /\ Done(a) /\ UNCHANGED generated

\* RemoveByID: DEL, which is content with a missing key.
Del(a) ==
    /\ pc[a] = "del"
    /\ db' = [db EXCEPT ![name[a]] = Absent]

Delete(a) == Del(a) /\ Done(a) /\ UNCHANGED generated

\* go-redis repeats a command whose answer was lost, although it was executed.
Unacked(a) ==
    /\ "retry" \in Faults
    /\ HSet(a) \/ Del(a)
    /\ UNCHANGED <<pc, cmd, name, valid, generated>>

Execute(a) == Read(a) \/ Write(a) \/ Delete(a)

-----------------------------------------------------------------------------
(* checkAPIKey *)

Request(w, n) ==
    /\ pc[w] = "idle"
    /\ name' = [name EXCEPT ![w] = n]
    /\ Goto(w, "exists")
    /\ UNCHANGED <<db, cmd, valid, generated>>

\* Exists: 401 when the key is missing.
Exists(w) ==
    /\ pc[w] = "exists"
    /\ \/ db[name[w]] = Absent /\ Done(w)
       \/ db[name[w]] # Absent /\ Goto(w, "getid") /\ UNCHANGED <<cmd, name, valid>>
    /\ UNCHANGED <<db, generated>>

\* GetID: by now a missing key is an error, 500.
GetID(w) ==
    /\ pc[w] = "getid"
    /\ \/ db[name[w]] = Absent /\ Done(w)
       \/ db[name[w]] # Absent /\ Goto(w, "checkvalid") /\ UNCHANGED <<cmd, name, valid>>
    /\ UNCHANGED <<db, generated>>

\* Mutant: what GetID found is taken for a key that may be used.
CheckNothing(w) ==
    /\ pc[w] = "checkvalid"
    /\ Goto(w, "privileged")
    /\ UNCHANGED <<db, cmd, name, valid, generated>>

\* CheckValid reads the key once more: 500 when it is missing, 401 when it is
\* not valid.
CheckValid(w) ==
    /\ pc[w] = "checkvalid"
    /\ \/ db[name[w]] # "valid" /\ Done(w)
       \/ db[name[w]] = "valid" /\ Goto(w, "privileged") /\ UNCHANGED <<cmd, name, valid>>
    /\ UNCHANGED <<db, generated>>

\* The rest of the request does not look at the key again.
Serve(w) ==
    /\ pc[w] = "privileged"
    /\ Done(w)
    /\ UNCHANGED <<db, generated>>

-----------------------------------------------------------------------------
\* A command to Redis fails, executed or not: the process reports it and exits,
\* the request is answered with 500.
Fail(a) ==
    /\ "error" \in Faults
    /\ pc[a] \in {"read", "write", "del", "exists", "getid", "checkvalid"}
    /\ HSet(a) \/ Del(a) \/ UNCHANGED db
    /\ Done(a)
    /\ UNCHANGED generated

\* The server dies: its requests are gone.
Crash ==
    /\ "crash" \in Faults
    /\ pc' = [a \in Actors |-> IF a \in Workers THEN "idle" ELSE pc[a]]
    /\ name' = [a \in Actors |-> IF a \in Workers THEN NoName ELSE name[a]]
    /\ UNCHANGED <<db, cmd, valid, generated>>

Init ==
    /\ db = [n \in Names |-> Absent]
    /\ pc = [a \in Actors |-> "idle"]
    /\ cmd = [a \in Admins |-> "rm"]
    /\ name = [a \in Actors |-> NoName]
    /\ valid = [a \in Admins |-> FALSE]
    /\ generated = {}

Next ==
    \/ \E a \in Admins, n \in Names :
          Generate(a, n) \/ \E c \in AdminCommands : Command(a, c, n)
    \/ \E a \in Admins : Execute(a) \/ Unacked(a)
    \/ \E w \in Workers : \/ \E n \in Names : Request(w, n)
                          \/ Exists(w) \/ GetID(w) \/ CheckValid(w) \/ Serve(w)
    \/ \E a \in Actors : Fail(a)
    \/ Crash

Spec == Init /\ [][Next]_vars

-----------------------------------------------------------------------------
(* Properties *)

\* Every variable holds a value of the shape the code gives it.
TypeOK ==
    /\ db \in [Names -> {"valid", "invalid", Absent}]
    /\ pc \in [Actors -> {"idle", "read", "write", "del",
                          "exists", "getid", "checkvalid", "privileged"}]
    /\ cmd \in [Admins -> AllCommands \cup {"gen"}]
    /\ name \in [Actors -> Names \cup {NoName}]
    /\ valid \in [Admins -> BOOLEAN]
    /\ generated \subseteq Names

\* A string becomes an API key by gen alone.  Revoking or reauthorizing a string
\* that is none, or whose key is removed meanwhile, does not make it one.
OnlyGenerated == \A n \in Names : db[n] # Absent => n \in generated

\* Key n is gone and nobody is left who had read it or is making it.
Gone(n) ==
    /\ n \in generated /\ db[n] = Absent
    /\ \A a \in Admins : name[a] = n => pc[a] # "write"
    /\ \A w \in Workers : name[w] = n => pc[w] # "privileged"

\* From there on it never comes back, and no request is served with it.
GoneIsFinal == [][\A n \in Names : Gone(n) => Gone(n)']_vars

\* Key n is revoked, and nobody is about to reauthorize it or to repeat the HSET of
\* the gen that made it.
Barred(n) ==
    /\ db[n] = "invalid"
    /\ \A a \in Admins : name[a] = n => pc[a] \notin {"read", "write"} \/ ~Flag(a)
    /\ \A w \in Workers : name[w] = n => pc[w] # "privileged"

\* From there on it takes a reauthorize to serve a request with it.
RevokedUntilReauthorized ==
    [][\A n \in Names : Barred(n) =>
          \/ Barred(n)' \/ db'[n] = Absent
          \/ \E a \in Admins : name'[a] = n /\ Flag(a)']_vars
=============================================================================
