------------------------------- MODULE Bodies -------------------------------
(***************************************************************************)
(* The bytes of the bodies: compress, decompress and the pool of buffers   *)
(* that RedisRecordRepository shares between all requests.  Both functions *)
(* put their buffer back into the pool with a deferred call and return a   *)
(* slice of it, so the caller keeps reading memory that the next caller    *)
(* of bufferPool.Get resets and writes.                                    *)
(*                                                                         *)
(* One record for each paste, no expiry and no counters: Records models    *)
(* those.  A function that takes a buffer writes it and puts it back in    *)
(* one step, so between two steps every buffer is in the pool.  A read     *)
(* that overlaps such a write sees a mix of two bodies; here it sees one   *)
(* of them.                                                                *)
(***************************************************************************)
CONSTANTS
    Workers,  \* goroutines serving requests
    Buffers,  \* the buffers that bufferPool.Get may return
    Large,    \* pastes with a body above CompressThresholdBytes
    Small,    \* pastes with a body below it that is not a gzip file
    Archives, \* pastes with a gzip file below it, also when it is unpacked
    Broken,   \* ... with the magic of one, but which does not unpack
    Bombs,    \* ... which unpacks to more than MaxBodySize
    Corrupt,  \* a text that nobody has posted
    Own, NoPaste, Absent

Gzipped == Archives \cup Broken \cup Bombs

Pastes == Large \cup Small \cup Gzipped

\* What a stretch of memory holds: a text, or the gzip stream of a text.
Contents == [text : Pastes \cup {Corrupt}, zipped : BOOLEAN]

ASSUME ClassesAssumption ==
    /\ Large \cap Small = {} /\ Large \cap Gzipped = {} /\ Small \cap Gzipped = {}
    /\ Archives \cap Broken = {} /\ Archives \cap Bombs = {} /\ Broken \cap Bombs = {}
    /\ Corrupt \notin Pastes /\ NoPaste \notin Pastes
    /\ Own \notin Buffers /\ Absent \notin Contents

VARIABLES
    stored,  \* Redis: the body field of the record of a paste, or Absent
    memory,  \* the bytes in a buffer
    pc,      \* where a worker is
    op,      \* the request it serves, "get" or "post"
    paste,   \* the paste that request is about
    own,     \* bytes that only this request refers to
    body,    \* what Record.body is a slice of: a buffer, or Own
    field    \* what the body field of HSET is a slice of

vars == <<stored, memory, pc, op, paste, own, body, field>>

\* The body that a client posts.
Posted(p) == [text |-> p, zipped |-> p \in Gzipped]

Junk == [text |-> Corrupt, zipped |-> FALSE]

\* The bytes behind a slice that worker w holds.
Bytes(w, slice) == IF slice = Own THEN own[w] ELSE memory[slice]

\* Mutant: the threshold is compared the wrong way round.
ExceedsNot(w) == paste[w] \notin Large

\* len(body) > CompressThresholdBytes; the bytes may go wrong, not their number.
Exceeds(w) == paste[w] \in Large \/ (op[w] = "get" /\ paste[w] \in Bombs)

IsCompressed(content) == content.zipped

\* io.CopyN stops at MaxBodySize: the rest is lost without an error.
Unzip(content) ==
    [text |-> IF content.text \in Bombs THEN Corrupt ELSE content.text, zipped |-> FALSE]

\* A stream that compress has not made of a body may or may not unpack, what was
\* posted as one but is none does not.
Unreadable(content) == IsCompressed(content) /\ content.text \in Broken \cup {Corrupt}

\* A stream of a stream unpacks to something that nobody has posted.
Zip(content) == [text |-> IF content.zipped THEN Corrupt ELSE content.text, zipped |-> TRUE]

-----------------------------------------------------------------------------
Goto(w, label) == pc' = [pc EXCEPT ![w] = label]

Done(w) ==
    /\ Goto(w, "idle")
    /\ op' = [op EXCEPT ![w] = "get"]
    /\ paste' = [paste EXCEPT ![w] = NoPaste]
    /\ own' = [own EXCEPT ![w] = Junk]
    /\ body' = [body EXCEPT ![w] = Own]
    /\ field' = [field EXCEPT ![w] = Own]

\* The handler of POST has read the body into memory of its own.
Post(w, p) ==
    /\ pc[w] = "idle"
    /\ stored[p] = Absent /\ \A v \in Workers : paste[v] # p
    /\ op' = [op EXCEPT ![w] = "post"]
    /\ paste' = [paste EXCEPT ![w] = p]
    /\ own' = [own EXCEPT ![w] = Posted(p)]
    /\ Goto(w, "set")
    /\ UNCHANGED <<stored, memory, body, field>>

\* GetByKey: the reply of HGETALL is in memory of its own, too.
Fetch(w, p) ==
    /\ pc[w] = "idle"
    /\ stored[p] # Absent
    /\ paste' = [paste EXCEPT ![w] = p]
    /\ own' = [own EXCEPT ![w] = stored[p]]
    /\ Goto(w, "fetched")
    /\ UNCHANGED <<stored, memory, op, body, field>>

\* decompress takes a buffer, unpacks into it, puts it back and returns it.
Decompress(w) ==
    /\ pc[w] = "fetched"
    /\ \/ /\ IsCompressed(own[w])
          /\ own[w].text \notin Broken
          /\ \E b \in Buffers :
               /\ memory' = [memory EXCEPT ![b] = Unzip(own[w])]
               /\ body' = [body EXCEPT ![w] = b]
       \/ ~IsCompressed(own[w]) /\ UNCHANGED <<memory, body>>
    /\ Goto(w, "set")
    /\ UNCHANGED <<stored, op, paste, own, field>>

\* It fails, before it takes a buffer or with part of the body in one: the reader
\* is answered with 500 and nothing is written back.
DecompressFails(w) ==
    /\ pc[w] = "fetched"
    /\ Unreadable(own[w])
    /\ \/ UNCHANGED memory
       \/ \E b \in Buffers : memory' = [memory EXCEPT ![b] = Junk]
    /\ Done(w)
    /\ UNCHANGED stored

\* SetByKey: compress takes a buffer, packs the body into it, puts it back and
\* returns it.  When it is the buffer that the body is in, the gzip header is
\* written over the beginning of the body before any of it is read.
Compress(w) ==
    /\ pc[w] = "set"
    /\ \/ /\ Exceeds(w)
          /\ \E b \in Buffers :
               /\ memory' = [memory EXCEPT ![b] =
                               Zip(IF b = body[w] THEN Junk ELSE Bytes(w, body[w]))]
               /\ field' = [field EXCEPT ![w] = b]
       \/ /\ ~Exceeds(w)
          /\ field' = [field EXCEPT ![w] = body[w]]
          /\ UNCHANGED memory
    /\ Goto(w, "hset")
    /\ UNCHANGED <<stored, op, paste, own, body>>

HSet(w) ==
    /\ pc[w] = "hset"
    /\ stored' = [stored EXCEPT ![paste[w]] = Bytes(w, field[w])]
    /\ \/ op[w] = "post" /\ Done(w)
       \/ /\ op[w] = "get"
          /\ Goto(w, "reply")
          /\ UNCHANGED <<op, paste, own, body, field>>
    /\ UNCHANGED memory

\* The handler of GET writes the body to the client.
Answer(w) == Bytes(w, body[w])

Reply(w) ==
    /\ pc[w] = "reply"
    /\ Done(w)
    /\ UNCHANGED <<stored, memory>>

Init ==
    /\ stored = [p \in Pastes |-> Absent]
    /\ memory = [b \in Buffers |-> Junk]
    /\ pc = [w \in Workers |-> "idle"]
    /\ op = [w \in Workers |-> "get"]
    /\ paste = [w \in Workers |-> NoPaste]
    /\ own = [w \in Workers |-> Junk]
    /\ body = [w \in Workers |-> Own]
    /\ field = [w \in Workers |-> Own]

Next == \E w \in Workers :
    \/ \E p \in Pastes : Post(w, p) \/ Fetch(w, p)
    \/ Decompress(w) \/ DecompressFails(w) \/ Compress(w) \/ HSet(w) \/ Reply(w)

Spec == Init /\ [][Next]_vars

-----------------------------------------------------------------------------
(* Properties *)

\* Every variable holds a value of the shape the code gives it.
TypeOK ==
    /\ stored \in [Pastes -> Contents \cup {Absent}]
    /\ memory \in [Buffers -> Contents]
    /\ pc \in [Workers -> {"idle", "fetched", "set", "hset", "reply"}]
    /\ op \in [Workers -> {"get", "post"}]
    /\ paste \in [Workers -> Pastes \cup {NoPaste}]
    /\ own \in [Workers -> Contents]
    /\ body \in [Workers -> Buffers \cup {Own}]
    /\ field \in [Workers -> Buffers \cup {Own}]

\* A body that needs no compression never meets the pool: it is stored and
\* answered byte for byte, whatever other requests do to the buffers.
SmallIntact ==
    \A p \in Small :
        /\ stored[p] \in {Absent, Posted(p)}
        /\ \A w \in Workers : paste[w] = p /\ pc[w] = "reply" => Answer(w) = Posted(p)

\* e2e_test.go:113, "retrieved body should match posted body".
RetrievedMatchesPosted ==
    \A w \in Workers : pc[w] = "reply" => Answer(w) = Posted(paste[w])
=============================================================================
