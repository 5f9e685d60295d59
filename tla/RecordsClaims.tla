---------------------------- MODULE RecordsClaims ---------------------------
(***************************************************************************)
(* What the documentation, the comments and the tests of the repository    *)
(* say about records and the code, run concurrently, does not do.          *)
(***************************************************************************)
EXTENDS Records

\* README.md:46 and docs.go:177: the ttl parameter is the lifetime of the key.
\* So no read may move the expiry past the end of it.  GetByKey dates the
\* record anew from its stored ttl, and SetByKey arms the key with that date.
ReadsNeverProlong ==
    [][\A p \in Pastes, k \in Keys :
         /\ IsStored(p, k) /\ IsStored(p, k)'
         /\ exp[k] # 0 /\ exp'[k] > exp[k]
         => exp'[k] <= life[p] + Second]_vars

\* README.md:61-66, docs.go:185: a paste with disposable=n is answered n times.
\* GetBody reads, decrements and writes in separate commands.
AtMostN ==
    \A p \in Pastes : Limited(p) => served[p] <= terms[p].disposable
=============================================================================
