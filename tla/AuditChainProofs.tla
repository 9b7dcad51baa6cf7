-------------------------- MODULE AuditChainProofs --------------------------
(***************************************************************************)
(* Proofs about AuditChain, for every number of writers, batch sizes,      *)
(* stamps and retention runs.                                              *)
(*                                                                         *)
(* That the verifier accepts the committed rows is not inductive: a commit *)
(* adds rows built from a tip that was read earlier, and that retention    *)
(* may have deleted since.  The invariant says the same of the committed   *)
(* rows together with the rows the lock's holder is building, and that the *)
(* tip it builds on is above all of them.                                  *)
(***************************************************************************)
EXTENDS AuditChain, FiniteSetTheorems, TLAPS

USE AuditAssumption DEF AuditAssumption

\* A set of rows that can be one chain, with holes where rows were deleted.
Chain(R) ==
    /\ \A r \in R : /\ r.chain_seq \in Nat \ {0}
                    /\ r.prev_hash.seq = r.chain_seq - 1
                    /\ r.record_hash = compute_record_hash(r.entry, r.chain_seq, r.prev_hash)
    /\ \A r, q \in R : r.chain_seq = q.chain_seq => r = q
    /\ \A r, q \in R : r.chain_seq = q.chain_seq + 1 => r.prev_hash = q.record_hash

\* Position t is the end of chain R, whether or not its row is still there.
AtEnd(R, t) ==
    /\ t.chain_seq \in Nat
    /\ t.record_hash.seq = t.chain_seq
    /\ \A q \in R : /\ q.chain_seq <= t.chain_seq
                    /\ q.chain_seq = t.chain_seq => q.record_hash = t.record_hash

Exclusive == \A w \in Writers : pc[w] \in {"locked", "building"} => lock = w
Chained == \A w \in Writers : Chain(rows \cup batch[w])
Ended == \A w \in Writers : pc[w] = "building" => AtEnd(rows \cup batch[w], tip[w])
Above == \A w \in Writers : \A b \in batch[w] : \A r \in rows : r.chain_seq < b.chain_seq
Owned == \A w \in Writers : /\ \A b \in batch[w] : b.entry[1] = w
                            /\ pc[w] # "committed" => \A r \in rows : r.entry[1] # w

Inv == TypeOK /\ Exclusive /\ Chained /\ Ended /\ Above /\ Owned /\ EvidenceContiguous
-----------------------------------------------------------------------------
(* Chains *)

LEMMA ChainSubset ==
    ASSUME NEW R, NEW S \in SUBSET R, Chain(R)
    PROVE  Chain(S)
BY DEF Chain

LEMMA AtEndSubset ==
    ASSUME NEW R, NEW S \in SUBSET R, NEW t, AtEnd(R, t)
    PROVE  AtEnd(S, t)
BY DEF AtEnd

LEMMA RowFields ==
    ASSUME NEW e, NEW stamp, NEW t, t.chain_seq \in Nat
    PROVE  LET r == Row(e, stamp, t) IN
           /\ r.entry = e /\ r.created_at = stamp /\ r.chain_seq = t.chain_seq + 1
           /\ r.prev_hash = t.record_hash
           /\ r.record_hash = compute_record_hash(r.entry, r.chain_seq, r.prev_hash)
           /\ r.record_hash.seq = r.chain_seq
BY DEF Row, compute_record_hash

\* The row a writer builds on the end of a chain extends the chain.
LEMMA ChainExtends ==
    ASSUME NEW R, NEW t, Chain(R), AtEnd(R, t), NEW e, NEW stamp
    PROVE  /\ Chain(R \cup {Row(e, stamp, t)})
           /\ AtEnd(R \cup {Row(e, stamp, t)}, Position(Row(e, stamp, t)))
           /\ \A q \in R : q.chain_seq < Row(e, stamp, t).chain_seq
<1> DEFINE r == Row(e, stamp, t)
<1>1. /\ r.entry = e /\ r.chain_seq = t.chain_seq + 1 /\ r.prev_hash = t.record_hash
      /\ r.record_hash = compute_record_hash(r.entry, r.chain_seq, r.prev_hash)
      /\ r.record_hash.seq = r.chain_seq
  BY RowFields DEF AtEnd
<1> HIDE DEF r
<1>2. t.chain_seq \in Nat /\ t.record_hash.seq = t.chain_seq
  BY DEF AtEnd
<1>3. \A q \in R : q.chain_seq \in Nat /\ q.chain_seq <= t.chain_seq
  BY DEF Chain, AtEnd
<1>4. \A q \in R : q.chain_seq < r.chain_seq
  BY <1>1, <1>2, <1>3
<1>5. /\ r.chain_seq \in Nat \ {0}
      /\ r.prev_hash.seq = r.chain_seq - 1
  BY <1>1, <1>2
<1>6. \A q \in R : r.chain_seq = q.chain_seq + 1 => r.prev_hash = q.record_hash
  BY <1>1, <1>2, <1>3 DEF AtEnd
<1>7. \A q \in R : q.chain_seq # r.chain_seq + 1 /\ q.chain_seq # r.chain_seq
  BY <1>3, <1>4, <1>5
<1>8. Chain(R \cup {r})
  BY <1>1, <1>5, <1>6, <1>7 DEF Chain
<1>9. AtEnd(R \cup {r}, Position(r))
  BY <1>1, <1>3, <1>4, <1>5 DEF AtEnd, Position
<1> QED BY <1>4, <1>8, <1>9 DEF r

\* The verifier accepts every chain, whatever rows retention has taken out.
LEMMA ChainOk ==
    ASSUME NEW R, Chain(R)
    PROVE  ok(R)
<1>1. content_modified(R) = {}
  BY DEF Chain, content_modified
<1>2. link_broken(R) = {}
  BY DEF Chain, link_broken
<1>3. ASSUME NEW r \in R, NEW q \in R, q.prev_hash = r.prev_hash PROVE q = r
  <2>1. q.chain_seq = r.chain_seq
    BY <1>3 DEF Chain
  <2> QED BY <2>1 DEF Chain
<1>4. forks(R) = {}
  BY <1>3 DEF forks
<1> QED BY <1>1, <1>2, <1>4 DEF ok

\* The end of a chain, as the tip query finds it.
LEMMA TipIsEnd ==
    ASSUME NEW R, Chain(R),
           NEW t \in IF R = {} THEN {Genesis} ELSE {Position(r) : r \in Tips(R)}
    PROVE  AtEnd(R, t)
<1>1. CASE R = {}
  BY <1>1 DEF Genesis, NoHash, AtEnd
<1>2. CASE R # {}
  <2>1. PICK r \in Tips(R) : t = Position(r)
    BY <1>2
  <2>2. r \in R /\ r.chain_seq \in Nat /\ \A q \in R : q.chain_seq <= r.chain_seq
    BY <2>1 DEF Tips, Chain
  <2>3. r.record_hash.seq = r.chain_seq
    <3>1. r.record_hash = compute_record_hash(r.entry, r.chain_seq, r.prev_hash)
      BY <2>2 DEF Chain
    <3> QED BY <3>1 DEF compute_record_hash
  <2>4. \A q \in R : q.chain_seq = r.chain_seq => q = r
    BY <2>2 DEF Chain
  <2> QED BY <2>1, <2>2, <2>3, <2>4 DEF Position, AtEnd
<1> QED BY <1>1, <1>2
-----------------------------------------------------------------------------
LEMMA InvInit == Init => Inv
<1> SUFFICES ASSUME Init PROVE Inv
  OBVIOUS
<1>1. TypeOK
  BY FS_EmptySet DEF Init, TypeOK, Genesis
<1>2. Chained
  BY DEF Init, Chained, Chain
<1> QED BY <1>1, <1>2 DEF Init, Inv, Exclusive, Ended, Above, Owned, EvidenceContiguous

LEMMA LockPreserves ==
    ASSUME Inv, NEW w \in Writers, Lock(w)
    PROVE  Inv'
<1> USE DEF Inv, Lock
<1>1. TypeOK'
  BY DEF TypeOK
<1>2. Exclusive'
  BY DEF Exclusive, TypeOK
<1>3. Ended'
  BY DEF Ended, TypeOK
<1> QED BY <1>1, <1>2, <1>3 DEF Chained, Above, Owned, EvidenceContiguous, TypeOK

LEMMA ReadTipPreserves ==
    ASSUME Inv, NEW w \in Writers, ReadTip(w)
    PROVE  Inv'
<1> USE DEF Inv
<1>1. PICK t \in IF rows = {} THEN {Genesis} ELSE {Position(r) : r \in Tips(rows)} :
         tip' = [tip EXCEPT ![w] = t]
  BY DEF ReadTip
<1>2. /\ UNCHANGED <<rows, lock, batch, sweeps>> /\ pc[w] = "locked"
      /\ pc' = [pc EXCEPT ![w] = "building"]
  BY DEF ReadTip
<1>3. batch[w] = {}
  BY <1>2 DEF TypeOK
<1>4. AtEnd(rows, t)
  <2>1. Chain(rows)
    BY <1>3 DEF Chained
  <2> QED BY <1>1, <2>1, TipIsEnd
<1>5. TypeOK'
  BY <1>1, <1>2, <1>4 DEF TypeOK, AtEnd
<1>6. Exclusive'
  BY <1>2 DEF Exclusive, TypeOK
<1>7. Ended'
  <2>1. rows \cup batch[w] = rows
    BY <1>3
  <2>2. \A u \in Writers : (rows \cup batch[u])' = rows \cup batch[u]
    BY <1>2
  <2>3. tip'[w] = t /\ \A u \in Writers : u # w => tip'[u] = tip[u] /\ pc'[u] = pc[u]
    BY <1>1, <1>2 DEF TypeOK
  <2>4. ASSUME NEW u \in Writers, pc'[u] = "building" PROVE AtEnd(rows \cup batch[u], tip'[u])
    BY <1>4, <2>1, <2>3, <2>4 DEF Ended
  <2> QED BY <2>2, <2>4 DEF Ended
<1> QED BY <1>2, <1>5, <1>6, <1>7 DEF Chained, Above, Owned, EvidenceContiguous, TypeOK

LEMMA BuildPreserves ==
    ASSUME Inv, NEW w \in Writers, NEW stamp \in Stamps, Build(w, stamp)
    PROVE  Inv'
<1> USE DEF Inv
<1> DEFINE k == Cardinality(batch[w]) + 1
           r == Row(<<w, k>>, stamp, tip[w])
           R == rows \cup batch[w]
<1>1. /\ pc[w] = "building" /\ Cardinality(batch[w]) < Size[w]
      /\ batch' = [batch EXCEPT ![w] = @ \cup {r}]
      /\ tip' = [tip EXCEPT ![w] = Position(r)]
      /\ UNCHANGED <<rows, lock, pc, sweeps>>
  BY DEF Build
<1>2. Chain(R) /\ AtEnd(R, tip[w])
  BY <1>1 DEF Chained, Ended
<1>3. /\ Chain(R \cup {r}) /\ AtEnd(R \cup {r}, Position(r))
      /\ \A q \in R : q.chain_seq < r.chain_seq
  BY <1>2, ChainExtends
<1>4. /\ r.entry = <<w, k>> /\ r.created_at = stamp /\ r.chain_seq = tip[w].chain_seq + 1
      /\ tip[w].chain_seq \in Nat
  BY <1>2, RowFields DEF AtEnd
<1>5. <<w, k>> \in Entry
  <2>1. Cardinality(batch[w]) \in Nat
    BY FS_CardinalityType DEF TypeOK
  <2> QED BY <1>1, <2>1 DEF Entry
<1> HIDE DEF r, k
<1>6. /\ batch'[w] = batch[w] \cup {r} /\ tip'[w] = Position(r)
      /\ \A u \in Writers : u # w => batch'[u] = batch[u] /\ tip'[u] = tip[u]
  BY <1>1 DEF TypeOK
<1>7. \A u \in Writers : u # w => batch[u] = {} /\ pc[u] # "building"
  BY <1>1 DEF Exclusive, TypeOK
<1>8. TypeOK'
  <2>1. RowOK(r)
    BY <1>4, <1>5 DEF RowOK
  <2>2. IsFiniteSet(batch'[w])
    BY <1>6, FS_AddElement DEF TypeOK
  <2>3. Position(r).chain_seq \in Nat
    BY <1>4 DEF Position
  <2> QED BY <1>1, <1>6, <2>1, <2>2, <2>3 DEF TypeOK
<1>9. Chained' /\ Ended'
  <2>1. (rows \cup batch[w])' = R \cup {r}
    BY <1>1, <1>6
  <2>2. \A u \in Writers : u # w => (rows \cup batch[u])' = rows \cup batch[u]
    BY <1>1, <1>6
  <2> QED BY <1>1, <1>3, <1>6, <1>7, <2>1, <2>2 DEF Chained, Ended
<1>10. Above'
  <2> SUFFICES ASSUME NEW u \in Writers, NEW b \in batch'[u], NEW q \in rows'
               PROVE  q.chain_seq < b.chain_seq
    BY DEF Above
  <2>1. q \in rows /\ q \in R
    BY <1>1
  <2>2. b \in batch[u] \/ b = r
    BY <1>6
  <2> QED BY <1>3, <2>1, <2>2 DEF Above
<1>11. Owned'
  <2>1. r.entry[1] = w
    BY <1>4
  <2> QED BY <1>1, <1>6, <2>1 DEF Owned
<1> QED BY <1>1, <1>8, <1>9, <1>10, <1>11 DEF Exclusive, EvidenceContiguous

LEMMA CommitPreserves ==
    ASSUME Inv, NEW w \in Writers, Commit(w)
    PROVE  Inv'
<1> USE DEF Inv
<1>1. /\ pc[w] = "building" /\ rows' = rows \cup batch[w] /\ lock' = NoWriter
      /\ batch' = [batch EXCEPT ![w] = {}] /\ pc' = [pc EXCEPT ![w] = "committed"]
      /\ UNCHANGED <<tip, sweeps>>
  BY DEF Commit
<1>2. \A u \in Writers : u # w => batch[u] = {} /\ pc[u] \notin {"locked", "building"}
  BY <1>1 DEF Exclusive, TypeOK
<1>3. /\ \A u \in Writers : batch'[u] = {} /\ pc'[u] \notin {"locked", "building"}
      /\ pc'[w] = "committed" /\ \A u \in Writers : u # w => pc'[u] = pc[u]
  BY <1>1, <1>2 DEF TypeOK
<1>4. TypeOK'
  BY <1>1, <1>3, FS_EmptySet DEF TypeOK
<1>5. Chained'
  <2>1. \A u \in Writers : (rows \cup batch[u])' = rows \cup batch[w]
    BY <1>1, <1>3
  <2> QED BY <2>1 DEF Chained
<1>6. Owned'
  BY <1>1, <1>3 DEF Owned
<1>7. EvidenceContiguous'
  <2>1. \A b \in batch[w] : b.entry[1] = w /\ b.chain_seq \in Nat
    BY DEF Owned, TypeOK, RowOK
  <2>2. \A r \in rows : r.entry[1] # w /\ r.chain_seq \in Nat
    BY <1>1 DEF Owned, TypeOK, RowOK
  <2>3. \A b \in batch[w] : \A r \in rows : r.chain_seq < b.chain_seq
    BY DEF Above
  <2> SUFFICES ASSUME NEW r \in rows', NEW q \in rows', NEW s \in rows',
                      r.entry[1] = s.entry[1], r.chain_seq <= q.chain_seq,
                      q.chain_seq <= s.chain_seq
               PROVE  q.entry[1] = r.entry[1]
    BY DEF EvidenceContiguous
  <2>4. CASE r \in rows
    <3>1. s \in rows
      BY <1>1, <2>1, <2>2, <2>4
    <3>2. q \in rows
      BY <1>1, <2>1, <2>2, <2>3, <3>1
    <3> QED BY <2>4, <3>1, <3>2 DEF EvidenceContiguous
  <2>5. CASE r \in batch[w]
    <3>1. q \in batch[w]
      BY <1>1, <2>1, <2>2, <2>3, <2>5
    <3> QED BY <2>1, <2>5, <3>1
  <2> QED BY <1>1, <2>4, <2>5
<1> QED BY <1>3, <1>4, <1>5, <1>6, <1>7 DEF Exclusive, Ended, Above

LEMMA RollbackPreserves ==
    ASSUME Inv, NEW w \in Writers, Rollback(w)
    PROVE  Inv'
<1> USE DEF Inv
<1>1. /\ rows' = rows /\ tip' = tip /\ sweeps' = sweeps
      /\ lock' = IF lock = w THEN NoWriter ELSE lock
      /\ batch' = [batch EXCEPT ![w] = {}] /\ pc' = [pc EXCEPT ![w] = "lost"]
      /\ pc[w] # "committed"
  BY DEF Rollback
<1>2. /\ batch'[w] = {} /\ pc'[w] = "lost"
      /\ \A u \in Writers : u # w => batch'[u] = batch[u] /\ pc'[u] = pc[u]
  BY <1>1 DEF TypeOK
<1>3. TypeOK'
  BY <1>1, <1>2, FS_EmptySet DEF TypeOK
<1>4. Exclusive'
  BY <1>1, <1>2 DEF Exclusive
<1>5. Chained' /\ Ended'
  <2>1. \A u \in Writers : (rows \cup batch[u])' \in SUBSET (rows \cup batch[u])
    BY <1>1, <1>2
  <2>2. \A u \in Writers : u # w => (rows \cup batch[u])' = rows \cup batch[u]
    BY <1>1, <1>2
  <2>3. Chained'
    BY <2>1, ChainSubset DEF Chained
  <2> QED BY <1>1, <1>2, <2>2, <2>3 DEF Ended
<1>6. Above' /\ Owned'
  BY <1>1, <1>2 DEF Above, Owned
<1> QED BY <1>1, <1>3, <1>4, <1>5, <1>6 DEF EvidenceContiguous

\* Retention, and steps that touch nothing the invariant speaks of.
LEMMA FewerRowsPreserves ==
    ASSUME Inv, rows' \in SUBSET rows, UNCHANGED <<lock, pc, tip, batch>>, sweeps' \in Nat
    PROVE  Inv'
<1> USE DEF Inv
<1>1. TypeOK'
  BY DEF TypeOK
<1>2. \A u \in Writers : (rows \cup batch[u])' \in SUBSET (rows \cup batch[u])
  OBVIOUS
<1>3. Chained' /\ Ended'
  BY <1>2, ChainSubset, AtEndSubset DEF Chained, Ended
<1> QED BY <1>1, <1>3 DEF Exclusive, Above, Owned, EvidenceContiguous

LEMMA InvNext ==
    ASSUME Inv, [Next]_vars
    PROVE  Inv'
<1>1. ASSUME NEW w \in Writers, Write(w) PROVE Inv'
  BY <1>1, LockPreserves, ReadTipPreserves, BuildPreserves, CommitPreserves, RollbackPreserves
     DEF Write
<1>2. CASE \E cutoff \in Stamps : CleanupDelete(cutoff)
  BY <1>2, FewerRowsPreserves DEF CleanupDelete, Inv, TypeOK
<1>3. CASE CleanupCommit \/ CleanupFails \/ UNCHANGED vars
  BY <1>3, FewerRowsPreserves DEF CleanupCommit, CleanupFails, vars, Inv, TypeOK
<1> QED BY <1>1, <1>2, <1>3 DEF Next
-----------------------------------------------------------------------------
\* The variables of AuditChain keep their types, its rows theirs.
THEOREM AuditTypeCorrect == Spec => []TypeOK
<1>1. Inv => TypeOK
  BY DEF Inv
<1> QED BY <1>1, InvInit, InvNext, PTL DEF Spec

LEMMA CommittedChain == ASSUME Inv PROVE Chain(rows)
<1>1. ASSUME NEW r \in rows PROVE Chain(rows)
  <2>1. PICK w \in Writers : w = r.entry[1]
    BY DEF Inv, TypeOK, RowOK, Entry
  <2>2. Chain(rows \cup batch[w])
    BY DEF Inv, Chained
  <2> QED BY <2>2, ChainSubset
<1> QED BY <1>1 DEF Chain

\* However create, create_many, rollbacks and retention interleave, verify_tenant
\* finds neither a break nor a fork.
THEOREM VerifierAccepts == Spec => []ChainVerifies
<1>1. Inv => ChainVerifies
  BY CommittedChain, ChainOk DEF ChainVerifies
<1> QED BY <1>1, InvInit, InvNext, PTL DEF Spec

\* No writer's row ever stands between two rows of another's create_many.
THEOREM EvidenceStaysTogether == Spec => []EvidenceContiguous
<1>1. Inv => EvidenceContiguous
  BY DEF Inv
<1> QED BY <1>1, InvInit, InvNext, PTL DEF Spec

\* Rows are only added above every row there is.
THEOREM ChainGrowsAtItsEnd == Spec => AppendOnly
<1> DEFINE A == \A r \in rows' \ rows : \A q \in rows : q.chain_seq < r.chain_seq
<1>1. ASSUME Inv, [Next]_vars PROVE [A]_vars
  <2>1. ASSUME NEW w \in Writers, Commit(w) PROVE A
    BY <1>1, <2>1 DEF Commit, Inv, Above
  <2>2. CASE \A w \in Writers : ~Commit(w)
    <3>1. rows' \subseteq rows
      BY <1>1, <2>2 DEF Next, Write, Lock, ReadTip, Build, Rollback, CleanupDelete,
           CleanupCommit, CleanupFails, vars
    <3> QED BY <3>1
  <2> QED BY <2>1, <2>2
<1> QED BY <1>1, InvInit, InvNext, PTL DEF Spec, AppendOnly
-----------------------------------------------------------------------------
(* All rows of a request or none.  What retention has deleted but not       *)
(* committed would be missing without a sweep having been counted.          *)

Unswept == sweeps = 0 => doomed = {}

Whole == Inv /\ Unswept /\ AllOrNone

LEMMA WholeNext == Whole /\ [Next]_vars => Whole'
<1> SUFFICES ASSUME Whole, [Next]_vars PROVE Unswept' /\ AllOrNone'
  BY InvNext DEF Whole
<1> DEFINE own(u) == {r \in rows : r.entry[1] = u}
<1>1. sweeps \in Nat
  BY DEF Whole, Inv, TypeOK
<1>2. CASE UNCHANGED <<rows, doomed, sweeps>>
  BY <1>2 DEF Whole, Unswept, AllOrNone
<1>3. ASSUME NEW w \in Writers, Commit(w) PROVE Unswept' /\ AllOrNone'
  <2>1. /\ Cardinality(batch[w]) = Size[w]
        /\ rows' = rows \cup batch[w] /\ UNCHANGED <<doomed, sweeps>>
    BY <1>3 DEF Commit
  <2>2. (\A b \in batch[w] : b.entry[1] = w) /\ \A r \in rows : r.entry[1] # w
    BY <1>3 DEF Commit, Whole, Inv, Owned
  <2>3. {r \in rows' : r.entry[1] = w} = batch[w]
    BY <2>1, <2>2
  <2>4. \A u \in Writers : u # w => {r \in rows' : r.entry[1] = u} = own(u)
    BY <2>1, <2>2
  <2>5. ASSUME sweeps = 0, NEW u \in Writers
        PROVE  LET new == {r \in rows' : r.entry[1] = u}
               IN  new = {} \/ Cardinality(new) = Size[u]
    <3>1. own(u) = {} \/ Cardinality(own(u)) = Size[u]
      BY <2>5 DEF Whole, AllOrNone
    <3> HIDE DEF own
    <3> QED BY <2>1, <2>3, <2>4, <3>1
  <2> QED BY <2>1, <2>5 DEF Whole, Unswept, AllOrNone
<1>4. ASSUME NEW w \in Writers, Write(w), ~Commit(w) PROVE UNCHANGED <<rows, doomed, sweeps>>
  BY <1>4 DEF Write, Lock, ReadTip, Build, Rollback
<1>5. CASE \E cutoff \in Stamps : CleanupDelete(cutoff)
  BY <1>1, <1>5 DEF CleanupDelete, Unswept, AllOrNone
<1>6. CASE CleanupCommit \/ CleanupFails
  BY <1>6 DEF CleanupCommit, CleanupFails, Whole, Unswept, AllOrNone
<1>7. CASE UNCHANGED vars
  BY <1>2, <1>7 DEF vars
<1> QED BY <1>2, <1>3, <1>4, <1>5, <1>6, <1>7 DEF Next

\* The row above a gap points to a row that is gone.
LEMMA GapPointsNowhere == ASSUME NEW R, Chain(R), NEW g \in gap_spans(R), NEW q \in R
                          PROVE  q.record_hash # g[2].prev_hash
<1> SUFFICES ASSUME q.record_hash = g[2].prev_hash PROVE FALSE
  OBVIOUS
<1>1. /\ g[1] \in R /\ g[2] \in R /\ g[1].chain_seq + 1 < g[2].chain_seq
      /\ q.chain_seq <= g[1].chain_seq \/ q.chain_seq >= g[2].chain_seq
  BY DEF gap_spans
<1>2. /\ q.chain_seq \in Nat /\ g[1].chain_seq \in Nat /\ g[2].chain_seq \in Nat
      /\ g[2].prev_hash.seq = g[2].chain_seq - 1
      /\ q.record_hash = compute_record_hash(q.entry, q.chain_seq, q.prev_hash)
  BY <1>1 DEF Chain
<1>3. q.record_hash.seq = q.chain_seq
  BY <1>2 DEF compute_record_hash
<1> QED BY <1>1, <1>2, <1>3

\* A request's rows are committed as a whole or not at all, whoever rolls back,
\* and every gap verify_tenant reports is a deletion of _cleanup_audit_logs.
THEOREM RequestsStayWhole == Spec => []BatchesWhole
<1>1. Init => Whole
  BY InvInit DEF Init, Whole, Unswept, AllOrNone
<1>2. Whole => BatchesWhole
  BY CommittedChain, GapPointsNowhere DEF Whole, BatchesWhole, GapsAreDeletions
<1> QED BY <1>1, <1>2, WholeNext, PTL DEF Spec
=============================================================================
