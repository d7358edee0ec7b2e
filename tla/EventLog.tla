------------------------------ MODULE EventLog ------------------------------
(***************************************************************************)
(* What a session's event log promises to its readers: it is append-only,  *)
(* and a reader that remembers the position it has reached receives every  *)
(* entry once, in order.  SessionEvents implements it.                     *)
(***************************************************************************)
EXTENDS Naturals

CONSTANTS Readers, MaxSeq, MaxLives

VARIABLES
    log,    \* which life of the harness wrote each sequence number, 0 if none did
    at,     \* the last sequence number a reader has received
    got     \* what it received under each sequence number

vars == <<log, at, got>>

Seqs == 1..MaxSeq
Empty == [q \in Seqs |-> 0]
Stored(q) == log[q] # 0
TypeOK ==
    /\ log \in [Seqs -> 0..MaxLives]
    /\ at \in [Readers -> 0..MaxSeq]
    /\ got \in [Readers -> [Seqs -> 0..MaxLives]]

Init ==
    /\ log = Empty
    /\ at = [r \in Readers |-> 0]
    /\ got = [r \in Readers |-> Empty]

\* New entries come after every entry there is.
Extend(rows, life) ==
    /\ \A q \in rows, p \in Seqs : Stored(p) => p < q
    /\ log' = [q \in Seqs |-> IF q \in rows THEN life ELSE log[q]]
    /\ UNCHANGED <<at, got>>

\* A reader receives the entries after its position, up to a stored one.
CatchUp(r, top) ==
    /\ top > at[r] /\ Stored(top)
    /\ \A q \in Seqs : Stored(q) => q <= top
    /\ at' = [at EXCEPT ![r] = top]
    /\ got' = [got EXCEPT ![r] = [q \in Seqs |-> IF q > at[r] THEN log[q] ELSE @[q]]]
    /\ UNCHANGED log

Next ==
    \/ \E rows \in SUBSET Seqs, life \in 1..MaxLives : Extend(rows, life)
    \/ \E r \in Readers, top \in Seqs : CatchUp(r, top)

Spec == Init /\ [][Next]_vars

-----------------------------------------------------------------------------
\* Whatever the log holds up to a reader's position, the reader has received,
\* under the same number: no entry is ever slipped in behind a reader's back.
ReadersMissNothing ==
    \A r \in Readers, q \in Seqs : got[r][q] = IF q <= at[r] THEN log[q] ELSE 0
=============================================================================
