----------------------------- MODULE AuditChain -----------------------------
(***************************************************************************)
(* One tenant's audit hash chain: the writer (AuditRepository.create and   *)
(* create_many, db/repositories/audit.py; the hash, security/              *)
(* audit_chain.py), the retention worker that deletes old rows             *)
(* (workers/tasks.py) and the reader (scripts/verify_audit_chain.py).      *)
(*                                                                         *)
(* A writer is one request: it stamps its rows, takes the tenant's         *)
(* advisory lock, reads the chain's tip, builds its rows one by one and    *)
(* commits them all, or rolls back.  Each SQL statement and each COMMIT is *)
(* one step.  All rows have chain_format 2.                                *)
(***************************************************************************)
EXTENDS Integers, FiniteSets

CONSTANTS
    Writers,    \* requests that write to the tenant's chain
    Size,       \* Size[w]: how many rows w writes; 1 is `create`
    Stamps,     \* values of created_at
    MaxSweeps,  \* bound: retention runs
    NoWriter    \* nobody holds the lock

ASSUME AuditAssumption ==
    /\ Size \in [Writers -> Nat \ {0}]
    /\ Stamps \subseteq Int
    /\ MaxSweeps \in Nat
    /\ NoWriter \notin Writers

VARIABLES
    rows,    \* the committed rows of audit_logs
    lock,    \* holder of pg_advisory_xact_lock(hashtext(tenant)), or none
    pc,      \* pc[w]: ready, locked, building, committed, lost
    tip,     \* tip[w]: the row w chains its next row to, seq 0 for the genesis
    batch,   \* batch[w]: rows w has added to its session
    doomed,  \* rows deleted by a retention run that has not committed yet
    sweeps   \* retention runs so far

vars == <<rows, lock, pc, tip, batch, doomed, sweeps>>

\* prev_hash NULL, the empty string in the hash input.
NoHash == [seq |-> 0]

\* SHA-256 over the row's canonical fields, which include chain_seq under
\* format 2, and the previous hash; an injective function.
compute_record_hash(entry, seq, prev) == [entry |-> entry, seq |-> seq, prev |-> prev]

Entry == {e \in Writers \X Nat : e[2] \in 1..Size[e[1]]}

\* The row a writer builds on top of t.
Row(e, stamp, t) ==
    [entry |-> e, created_at |-> stamp, chain_seq |-> t.chain_seq + 1,
     prev_hash |-> t.record_hash,
     record_hash |-> compute_record_hash(e, t.chain_seq + 1, t.record_hash)]

Genesis == [chain_seq |-> 0, record_hash |-> NoHash]
Position(r) == [chain_seq |-> r.chain_seq, record_hash |-> r.record_hash]
-----------------------------------------------------------------------------
(* The writer *)

\* Mutant of Lock: the advisory lock is not taken.
Lock_Skipped(w) ==
    /\ pc[w] = "ready"
    /\ pc' = [pc EXCEPT ![w] = "locked"]
    /\ UNCHANGED <<rows, lock, tip, batch, doomed, sweeps>>

\* pg_advisory_xact_lock: waits for the tenant's lock.
Lock(w) ==
    /\ pc[w] = "ready"
    /\ lock = NoWriter
    /\ lock' = w
    /\ pc' = [pc EXCEPT ![w] = "locked"]
    /\ UNCHANGED <<rows, tip, batch, doomed, sweeps>>

\* Mutant of Tips: the tip is the latest row by created_at.
Tips_ByClock(R) == {r \in R : \A q \in R : q.created_at <= r.created_at}

\* The tip query: ORDER BY chain_seq DESC LIMIT 1.
Tips(R) == {r \in R : \A q \in R : q.chain_seq <= r.chain_seq}

\* The statement sees the rows committed when it starts, the lock held.
ReadTip(w) ==
    /\ pc[w] = "locked"
    /\ \E t \in IF rows = {} THEN {Genesis} ELSE {Position(r) : r \in Tips(rows)} :
          tip' = [tip EXCEPT ![w] = t]
    /\ pc' = [pc EXCEPT ![w] = "building"]
    /\ UNCHANGED <<rows, lock, batch, doomed, sweeps>>

\* Mutant of Build: every row of a batch chains to the committed tip.
Build_SameParent(w, stamp) ==
    /\ pc[w] = "building"
    /\ Cardinality(batch[w]) < Size[w]
    /\ LET r == Row(<<w, Cardinality(batch[w]) + 1>>, stamp, tip[w])
       IN  batch' = [batch EXCEPT ![w] = @ \cup {r}]
    /\ UNCHANGED <<rows, lock, pc, tip, doomed, sweeps>>

\* One turn of the loop over the batch.  created_at was stamped before the lock
\* was taken (create) or now (create_many), from a clock that may step back, so
\* any stamp can come after any other.
Build(w, stamp) ==
    /\ pc[w] = "building"
    /\ Cardinality(batch[w]) < Size[w]
    /\ LET r == Row(<<w, Cardinality(batch[w]) + 1>>, stamp, tip[w])
       IN  /\ batch' = [batch EXCEPT ![w] = @ \cup {r}]
           /\ tip' = [tip EXCEPT ![w] = Position(r)]
    /\ UNCHANGED <<rows, lock, pc, doomed, sweeps>>

\* Mutant of Commit: the batch may commit before it is complete.
Commit_Early(w) ==
    /\ pc[w] = "building"
    /\ batch[w] # {}
    /\ rows' = rows \cup batch[w]
    /\ batch' = [batch EXCEPT ![w] = {}]
    /\ pc' = [pc EXCEPT ![w] = "committed"]
    /\ lock' = NoWriter
    /\ UNCHANGED <<tip, doomed, sweeps>>

\* COMMIT, which releases the lock.
Commit(w) ==
    /\ pc[w] = "building"
    /\ Cardinality(batch[w]) = Size[w]
    /\ rows' = rows \cup batch[w]
    /\ batch' = [batch EXCEPT ![w] = {}]
    /\ pc' = [pc EXCEPT ![w] = "committed"]
    /\ lock' = NoWriter
    /\ UNCHANGED <<tip, doomed, sweeps>>

\* Mutant of Rollback: the lock outlives the transaction (a session lock).
Rollback_KeepsLock(w) ==
    /\ pc[w] \in {"ready", "locked", "building"}
    /\ batch' = [batch EXCEPT ![w] = {}]
    /\ pc' = [pc EXCEPT ![w] = "lost"]
    /\ UNCHANGED <<rows, lock, tip, doomed, sweeps>>

\* An error, a crash or a lost connection: the transaction is rolled back.
Rollback(w) ==
    /\ pc[w] \in {"ready", "locked", "building"}
    /\ batch' = [batch EXCEPT ![w] = {}]
    /\ pc' = [pc EXCEPT ![w] = "lost"]
    /\ lock' = IF lock = w THEN NoWriter ELSE lock
    /\ UNCHANGED <<rows, tip, doomed, sweeps>>
-----------------------------------------------------------------------------
(* _cleanup_audit_logs: the retention worker *)

\* The tenant's DELETE: committed rows older than the window, by created_at.
CleanupDelete(cutoff) ==
    /\ sweeps < MaxSweeps
    /\ sweeps' = sweeps + 1
    /\ doomed' = doomed \cup {r \in rows : r.created_at < cutoff}
    /\ UNCHANGED <<rows, lock, pc, tip, batch>>

\* The run's COMMIT, after the other tenants' deletes; or its failure.
CleanupCommit ==
    /\ doomed # {}
    /\ rows' = rows \ doomed
    /\ doomed' = {}
    /\ UNCHANGED <<lock, pc, tip, batch, sweeps>>
CleanupFails ==
    /\ doomed # {}
    /\ doomed' = {}
    /\ UNCHANGED <<rows, lock, pc, tip, batch, sweeps>>
-----------------------------------------------------------------------------
Init ==
    /\ rows = {}
    /\ lock = NoWriter
    /\ pc = [w \in Writers |-> "ready"]
    /\ tip = [w \in Writers |-> Genesis]
    /\ batch = [w \in Writers |-> {}]
    /\ doomed = {}
    /\ sweeps = 0

Write(w) ==
    \/ Lock(w) \/ ReadTip(w) \/ Commit(w) \/ Rollback(w)
    \/ \E stamp \in Stamps : Build(w, stamp)

Next ==
    \/ \E w \in Writers : Write(w)
    \/ \E cutoff \in Stamps : CleanupDelete(cutoff)
    \/ CleanupCommit \/ CleanupFails

Spec == Init /\ [][Next]_vars

\* A request runs to its end, and Postgres queues the waiters of a lock.
FairSpec == Spec /\ \A w \in Writers :
    /\ SF_vars(Lock(w))
    /\ WF_vars(ReadTip(w))
    /\ WF_vars(\E stamp \in Stamps : Build(w, stamp))
    /\ WF_vars(Commit(w))
-----------------------------------------------------------------------------
(* verify_tenant, the reader *)

\* The reader reads the rows with one statement.
content_modified(R) ==
    {r \in R : r.record_hash # compute_record_hash(r.entry, r.chain_seq, r.prev_hash)}
link_broken(R) ==
    {r \in R : \E q \in R : r.chain_seq = q.chain_seq + 1 /\ r.prev_hash # q.record_hash}
forks(R) ==
    {r \in R : \E q \in R \ {r} : r.prev_hash # NoHash /\ q.prev_hash = r.prev_hash}
gap_spans(R) ==
    {g \in R \X R : /\ g[1].chain_seq + 1 < g[2].chain_seq
                    /\ \A s \in R : s.chain_seq <= g[1].chain_seq \/ s.chain_seq >= g[2].chain_seq}
ok(R) == content_modified(R) \cup link_broken(R) \cup forks(R) = {}
-----------------------------------------------------------------------------
(* Properties *)

\* An audit_logs row, of which the chain's columns are kept.
RowOK(r) == r.chain_seq \in Nat \ {0} /\ r.created_at \in Stamps /\ r.entry \in Entry

\* The types of the variables; only a writer that is building has a batch.
TypeOK ==
    /\ \A r \in rows : RowOK(r)
    /\ DOMAIN tip = Writers /\ DOMAIN batch = Writers
    /\ \A w \in Writers : IsFiniteSet(batch[w]) /\ \A r \in batch[w] : RowOK(r)
    /\ lock \in Writers \cup {NoWriter}
    /\ pc \in [Writers -> {"ready", "locked", "building", "committed", "lost"}]
    /\ \A w \in Writers : tip[w].chain_seq \in Nat
    /\ \A w \in Writers : batch[w] # {} => pc[w] = "building"
    /\ sweeps \in Nat

\* Whatever writers interleave, roll back or are overtaken by retention, and
\* whatever the clock does, the verifier reports neither a break nor a fork.
ChainVerifies == ok(rows)

\* The rows of one request stand next to each other: no other writer gets a row
\* into the middle of one request's evidence (create_many).
EvidenceContiguous ==
    \A r, q, s \in rows :
        r.entry[1] = s.entry[1] /\ r.chain_seq <= q.chain_seq /\ q.chain_seq <= s.chain_seq
            => q.entry[1] = r.entry[1]

\* A gap the verifier reports is a row retention deleted: the row above it
\* points to no row that is still there.
GapsAreDeletions ==
    \A g \in gap_spans(rows) : \A q \in rows : q.record_hash # g[2].prev_hash

\* All rows of a request or none, until retention deletes some.
AllOrNone ==
    (sweeps = 0) =>
        \A w \in Writers : LET own == {r \in rows : r.entry[1] = w}
                           IN  own = {} \/ Cardinality(own) = Size[w]

\* A request's rows are there as a whole, and what is missing was deleted by
\* retention (create_many, _cleanup_audit_logs).
BatchesWhole == AllOrNone /\ GapsAreDeletions

\* The chain only grows at its end: a row is added above every row there is,
\* and no row that stays is changed.
AppendOnly == [][\A r \in rows' \ rows : \A q \in rows : q.chain_seq < r.chain_seq]_vars

\* Nobody waits for the lock for ever: a request that does not fail commits.
WritersFinish == \A w \in Writers : <>(pc[w] \in {"committed", "lost"})
=============================================================================
