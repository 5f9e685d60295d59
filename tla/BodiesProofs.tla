---------------------------- MODULE BodiesProofs ----------------------------
(***************************************************************************)
(* Theorems about Bodies for every number of workers, buffers and pastes.  *)
(*                                                                         *)
(* The pool never touches a body that is neither compressed nor looks as   *)
(* if it were: its request holds no slice of a buffer from the first step  *)
(* to the last.                                                            *)
(***************************************************************************)
EXTENDS Bodies, TLAPS

\* A request for a small body has it in memory of its own.
KeptApart ==
    /\ \A p \in Small : stored[p] \in {Absent, Posted(p)}
    /\ \A w \in Workers : pc[w] = "idle" =>
          paste[w] = NoPaste /\ body[w] = Own /\ field[w] = Own
    /\ \A w \in Workers : paste[w] \in Small =>
          own[w] = Posted(paste[w]) /\ body[w] = Own /\ field[w] = Own

BInv == TypeOK /\ KeptApart

-----------------------------------------------------------------------------
(* Contents *)

LEMMA ContentTypes ==
    /\ Junk \in Contents
    /\ \A p \in Pastes : Posted(p) \in Contents
    /\ \A c \in Contents : Zip(c) \in Contents /\ Unzip(c) \in Contents
<1>1. Junk \in Contents
  BY DEF Junk, Contents
<1>2. ASSUME NEW p \in Pastes PROVE Posted(p) \in Contents
  <2>1. (p \in Gzipped) \in BOOLEAN
    OBVIOUS
  <2> QED  BY <2>1 DEF Posted, Contents
<1>3. ASSUME NEW c \in Contents PROVE Zip(c) \in Contents /\ Unzip(c) \in Contents
  <2>1. c.text \in Pastes \cup {Corrupt} /\ Corrupt \in Pastes \cup {Corrupt}
    BY DEF Contents
  <2>2. (IF c.zipped THEN Corrupt ELSE c.text) \in Pastes \cup {Corrupt}
    BY <2>1
  <2>3. Zip(c) \in Contents
    BY <2>2 DEF Zip, Contents
  <2>4. Unzip(c) \in Contents
    BY DEF Unzip, Contents
  <2> QED  BY <2>3, <2>4
<1> QED  BY <1>1, <1>2, <1>3

\* What a slice shows is a content, wherever it is.
LEMMA BytesType ==
    ASSUME TypeOK, NEW w \in Workers, NEW s \in Buffers \cup {Own}
    PROVE  Bytes(w, s) \in Contents
BY DEF TypeOK, Bytes

\* A small body needs no compression, and is not taken for a gzip file.
LEMMA SmallPlain ==
    ASSUME NEW p \in Small
    PROVE  /\ p \in Pastes /\ ~IsCompressed(Posted(p)) /\ Posted(p) # Absent
           /\ \A w \in Workers : paste[w] = p => ~Exceeds(w)
BY ClassesAssumption, ContentTypes DEF Pastes, Gzipped, Exceeds, IsCompressed, Posted

-----------------------------------------------------------------------------
(* The steps *)

LEMMA DoneKeeps ==
    ASSUME BInv, NEW w \in Workers, Done(w),
           stored' \in [Pastes -> Contents \cup {Absent}], memory' \in [Buffers -> Contents],
           \A p \in Small : stored'[p] \in {Absent, Posted(p)}
    PROVE  BInv'
<1>1. TypeOK'
  BY ContentTypes DEF BInv, TypeOK, Done, Goto
<1>2. /\ pc'[w] = "idle" /\ paste'[w] = NoPaste /\ body'[w] = Own /\ field'[w] = Own
      /\ \A v \in Workers \ {w} : /\ pc'[v] = pc[v] /\ paste'[v] = paste[v]
                                  /\ own'[v] = own[v] /\ body'[v] = body[v]
                                  /\ field'[v] = field[v]
  BY DEF BInv, TypeOK, Done, Goto
<1>3. NoPaste \notin Small
  BY ClassesAssumption DEF Pastes
<1>4. KeptApart'
  BY <1>2, <1>3 DEF BInv, KeptApart, Posted
<1> QED  BY <1>1, <1>4 DEF BInv

LEMMA PostKeeps ==
    ASSUME BInv, NEW w \in Workers, NEW p \in Pastes, Post(w, p)
    PROVE  BInv'
<1>1. TypeOK'
  BY ContentTypes DEF BInv, TypeOK, Post, Goto
<1>2. /\ pc'[w] = "set" /\ paste'[w] = p /\ own'[w] = Posted(p)
      /\ body'[w] = Own /\ field'[w] = Own
      /\ \A v \in Workers \ {w} : /\ pc'[v] = pc[v] /\ paste'[v] = paste[v]
                                  /\ own'[v] = own[v] /\ body'[v] = body[v]
                                  /\ field'[v] = field[v]
  BY DEF BInv, TypeOK, KeptApart, Post, Goto
<1>3. KeptApart'
  BY <1>2 DEF BInv, KeptApart, Post, Posted
<1> QED  BY <1>1, <1>3 DEF BInv

LEMMA FetchKeeps ==
    ASSUME BInv, NEW w \in Workers, NEW p \in Pastes, Fetch(w, p)
    PROVE  BInv'
<1>1. TypeOK'
  BY DEF BInv, TypeOK, Fetch, Goto
<1>2. /\ pc'[w] = "fetched" /\ paste'[w] = p /\ own'[w] = stored[p]
      /\ body'[w] = Own /\ field'[w] = Own /\ stored[p] # Absent
      /\ \A v \in Workers \ {w} : /\ pc'[v] = pc[v] /\ paste'[v] = paste[v]
                                  /\ own'[v] = own[v] /\ body'[v] = body[v]
                                  /\ field'[v] = field[v]
  BY DEF BInv, TypeOK, KeptApart, Fetch, Goto
<1>3. KeptApart'
  BY <1>2 DEF BInv, KeptApart, Fetch, Posted
<1> QED  BY <1>1, <1>3 DEF BInv

\* A step that gives worker w a slice of a buffer, or leaves its slices alone.
LEMMA SliceKeeps ==
    ASSUME BInv, NEW w \in Workers, TypeOK', UNCHANGED <<stored, op, paste, own>>,
           NEW l, pc' = [pc EXCEPT ![w] = l], l # "idle",
           \A v \in Workers \ {w} : body'[v] = body[v] /\ field'[v] = field[v],
           paste[w] \in Small => body'[w] = Own /\ field'[w] = Own
    PROVE  BInv'
<1>1. \A v \in Workers : pc'[v] = IF v = w THEN l ELSE pc[v]
  BY DEF BInv, TypeOK
<1>2. KeptApart'
  BY <1>1 DEF BInv, KeptApart, Posted
<1> QED  BY <1>2 DEF BInv

LEMMA DecompressKeeps ==
    ASSUME BInv, NEW w \in Workers, Decompress(w)
    PROVE  BInv'
<1>1. TypeOK'
  BY ContentTypes DEF BInv, TypeOK, Decompress, Goto
<1>2. \A v \in Workers \ {w} : body'[v] = body[v] /\ field'[v] = field[v]
  BY DEF BInv, TypeOK, Decompress
<1>3. ASSUME paste[w] \in Small
      PROVE  body'[w] = Own /\ field'[w] = Own
  <2>1. own[w] = Posted(paste[w]) /\ body[w] = Own /\ field[w] = Own
    BY <1>3 DEF BInv, KeptApart
  <2> QED  BY <1>3, <2>1, SmallPlain DEF Decompress
<1> QED  BY <1>1, <1>2, <1>3, SliceKeeps DEF Decompress, Goto

LEMMA DecompressFailsKeeps ==
    ASSUME BInv, NEW w \in Workers, DecompressFails(w)
    PROVE  BInv'
<1>1. memory' \in [Buffers -> Contents]
  BY ContentTypes DEF BInv, TypeOK, DecompressFails
<1> QED  BY <1>1, DoneKeeps DEF DecompressFails, BInv, TypeOK, KeptApart

LEMMA CompressKeeps ==
    ASSUME BInv, NEW w \in Workers, Compress(w)
    PROVE  BInv'
<1>1. TypeOK'
  <2>1. body[w] \in Buffers \cup {Own} /\ Bytes(w, body[w]) \in Contents
    BY BytesType DEF BInv, TypeOK
  <2>2. \A b \in Buffers :
           Zip(IF b = body[w] THEN Junk ELSE Bytes(w, body[w])) \in Contents
    BY <2>1, ContentTypes
  <2>3. memory' \in [Buffers -> Contents]
    BY <2>2 DEF BInv, TypeOK, Compress
  <2>4. field' \in [Workers -> Buffers \cup {Own}]
    BY <2>1 DEF BInv, TypeOK, Compress
  <2> QED  BY <2>3, <2>4 DEF BInv, TypeOK, Compress, Goto
<1>2. \A v \in Workers \ {w} : body'[v] = body[v] /\ field'[v] = field[v]
  BY DEF BInv, TypeOK, Compress
<1>3. ASSUME paste[w] \in Small
      PROVE  body'[w] = Own /\ field'[w] = Own
  <2>1. body[w] = Own /\ ~Exceeds(w)
    BY <1>3, SmallPlain DEF BInv, KeptApart
  <2> QED  BY <2>1 DEF BInv, TypeOK, Compress
<1> QED  BY <1>1, <1>2, <1>3, SliceKeeps DEF Compress, Goto

LEMMA HSetKeeps ==
    ASSUME BInv, NEW w \in Workers, HSet(w)
    PROVE  BInv'
<1> DEFINE c == Bytes(w, field[w])
<1>1. c \in Contents
  BY BytesType DEF BInv, TypeOK
<1>2. paste[w] \in Small => c = Posted(paste[w])
  BY DEF BInv, KeptApart, Bytes
<1>3. stored' = [stored EXCEPT ![paste[w]] = c]
  BY DEF HSet
<1> HIDE DEF c
<1>4. stored' \in [Pastes -> Contents \cup {Absent}]
  BY <1>1, <1>3 DEF BInv, TypeOK
<1>5. \A p \in Small : stored'[p] \in {Absent, Posted(p)}
  BY <1>2, <1>3, SmallPlain DEF BInv, TypeOK, KeptApart
<1>6. CASE Done(w)
  BY <1>4, <1>5, <1>6, DoneKeeps DEF HSet, BInv, TypeOK
<1>7. CASE Goto(w, "reply") /\ UNCHANGED <<op, paste, own, body, field>>
  <2>1. TypeOK'
    BY <1>4, <1>7 DEF BInv, TypeOK, HSet, Goto
  <2>2. \A v \in Workers : pc'[v] = IF v = w THEN "reply" ELSE pc[v]
    BY <1>7 DEF BInv, TypeOK, Goto
  <2>3. KeptApart'
    BY <1>5, <1>7, <2>2 DEF BInv, KeptApart, Posted
  <2> QED  BY <2>1, <2>3 DEF BInv
<1> QED  BY <1>6, <1>7 DEF HSet

LEMMA ReplyKeeps ==
    ASSUME BInv, NEW w \in Workers, Reply(w)
    PROVE  BInv'
BY DoneKeeps DEF Reply, BInv, TypeOK, KeptApart

-----------------------------------------------------------------------------
(* The theorems *)

LEMMA InitInv == Init => BInv
<1> SUFFICES ASSUME Init PROVE BInv
  OBVIOUS
<1>1. TypeOK
  BY ContentTypes DEF Init, TypeOK
<1>2. KeptApart
  BY SmallPlain, ClassesAssumption DEF Init, KeptApart, Pastes
<1> QED  BY <1>1, <1>2 DEF BInv

LEMMA NextInv == BInv /\ [Next]_vars => BInv'
<1> SUFFICES ASSUME BInv, [Next]_vars PROVE BInv'
  OBVIOUS
<1>1. ASSUME NEW w \in Workers, NEW p \in Pastes, Post(w, p) \/ Fetch(w, p)
      PROVE  BInv'
  BY <1>1, PostKeeps, FetchKeeps
<1>2. ASSUME NEW w \in Workers, \/ Decompress(w) \/ DecompressFails(w) \/ Compress(w)
                                \/ HSet(w) \/ Reply(w)
      PROVE  BInv'
  BY <1>2, DecompressKeeps, DecompressFailsKeeps, CompressKeeps, HSetKeeps, ReplyKeeps
<1>3. CASE UNCHANGED vars
  BY <1>3 DEF vars, BInv, TypeOK, KeptApart, Posted
<1> QED  BY <1>1, <1>2, <1>3 DEF Next

\* The invariant holds whichever buffers the pool hands out.
THEOREM BodiesInvariant == Spec => []BInv
<1> QED  BY InitInv, NextInv, PTL DEF Spec

\* A body of at most CompressThresholdBytes that is no gzip file is stored and
\* answered byte for byte, whatever requests for other bodies do to the pool.
THEOREM SmallStaysIntact == Spec => []SmallIntact
<1>1. BInv => SmallIntact
  BY DEF BInv, KeptApart, SmallIntact, Answer, Bytes
<1> QED  BY <1>1, BodiesInvariant, PTL
=============================================================================
