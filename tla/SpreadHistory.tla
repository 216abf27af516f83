--------------------------- MODULE SpreadHistory ---------------------------
(***************************************************************************)
(* The history of one symbol and direction (market/scanner.py): the job    *)
(* that persists the scan state adds each sample to an accumulator of its  *)
(* process and writes the accumulator into the row of its bucket, at most  *)
(* once per interval and when the next bucket begins.  The accumulator and *)
(* the time of the last write belong to the process, the rows to the       *)
(* transaction: a rollback takes only the second back, a restart only the  *)
(* first.                                                                  *)
(***************************************************************************)
EXTENDS Naturals

CONSTANTS
    MaxTime,     \* bound: the last second
    Bucket,      \* scanner.spread_bucket_seconds
    Interval,    \* scanner.spread_history_interval_seconds
    MaxSamples,  \* bound: samples taken into one bucket
    MaxFaults    \* bound: rollbacks and restarts

HistoryAssumption ==
    /\ Bucket \in Nat \ {0} /\ Interval \in Nat \ {0}
    /\ MaxTime \in Nat \ {0} /\ MaxSamples \in Nat /\ MaxFaults \in Nat

VARIABLES
    now,     \* the time of the next sample
    acc,     \* _bucket_accumulators: the bucket and its samples, none at start
    last,    \* _last_snapshot_flush; 0 stands for never
    row,     \* sample_count of each bucket's row as committed, 0 without a row
    tx,      \* the rows the open transaction writes, and whether one is open
    taken,   \* the samples taken into each bucket
    torn,    \* the buckets a rollback or a restart caught with samples unwritten
    faults

vars == <<now, acc, last, row, tx, taken, torn, faults>>

Buckets == 0..(MaxTime \div Bucket)
BucketOf(t) == t \div Bucket
NoAcc == [bucket |-> 0, count |-> 0]
NoTx == [open |-> FALSE, row |-> [b \in Buckets |-> 0]]

TypeOK ==
    /\ now \in 1..MaxTime /\ last \in 0..MaxTime
    /\ acc \in [bucket : Buckets, count : 0..MaxSamples]
    /\ row \in [Buckets -> 0..MaxSamples]
    /\ tx \in [open : BOOLEAN, row : [Buckets -> 0..MaxSamples]]
    /\ taken \in [Buckets -> 0..MaxSamples]
    /\ torn \subseteq Buckets /\ faults \in 0..MaxFaults

Init ==
    /\ now = 1 /\ acc = NoAcc /\ last = 0
    /\ row = [b \in Buckets |-> 0] /\ tx = NoTx
    /\ taken = [b \in Buckets |-> 0] /\ torn = {} /\ faults = 0

Tick ==
    /\ ~tx.open /\ now < MaxTime
    /\ now' = now + 1
    /\ UNCHANGED <<acc, last, row, tx, taken, torn, faults>>

Begins == acc.count = 0 \/ acc.bucket # BucketOf(now)
Added == IF Begins THEN [bucket |-> BucketOf(now), count |-> 1]
         ELSE [acc EXCEPT !.count = @ + 1]
Due == now - last >= Interval

\* _flush_bucket: the row of the bucket takes the accumulator's sums
Written(rows, accumulator) == [rows EXCEPT ![accumulator.bucket] = accumulator.count]

(* Bug the run must notice: the bucket that ends is left as it was last    *)
(* written.                                                                *)
LeftBucketForgotten == tx.row

\* the rows after the bucket that ends has been written
LeftBucket == IF Begins /\ acc.count > 0 THEN Written(tx.row, acc) ELSE tx.row

(* _record_spread_history_from_payload; the same snapshot may be persisted *)
(* again, and is then one more sample.                                     *)
Record ==
    /\ ~tx.open /\ taken[BucketOf(now)] < MaxSamples
    /\ acc' = Added
    /\ tx' = [open |-> TRUE,
              row |-> IF Due THEN Written(LeftBucket, Added) ELSE LeftBucket]
    /\ last' = IF Due THEN now ELSE last
    /\ taken' = [taken EXCEPT ![BucketOf(now)] = @ + 1]
    /\ UNCHANGED <<now, row, torn, faults>>

(* persist_scan_state commits all rows of a snapshot at once.              *)
Commit ==
    /\ tx.open
    /\ row' = [b \in Buckets |-> IF tx.row[b] > 0 THEN tx.row[b] ELSE row[b]]
    /\ tx' = NoTx
    /\ UNCHANGED <<now, acc, last, taken, torn, faults>>

(* Another row of the snapshot fails: the writes go, the accumulator stays.*)
Rollback ==
    /\ tx.open /\ faults < MaxFaults
    /\ torn' = torn \cup {b \in Buckets : tx.row[b] > 0 /\ b # acc.bucket}
    /\ tx' = NoTx /\ faults' = faults + 1
    /\ UNCHANGED <<now, acc, last, row, taken>>

(* The next sample of a bucket already written starts its count again.     *)
Restart ==
    /\ faults < MaxFaults
    /\ torn' = torn \cup (IF acc.count > 0 THEN {acc.bucket} ELSE {})
                    \cup {b \in Buckets : tx.row[b] > 0}
    /\ acc' = NoAcc /\ last' = 0 /\ tx' = NoTx /\ faults' = faults + 1
    /\ UNCHANGED <<now, row, taken>>

Next == Tick \/ Record \/ Commit \/ Rollback \/ Restart

Spec == Init /\ [][Next]_vars

-----------------------------------------------------------------------------
(* The row of a bucket that has been left holds every sample taken in it,  *)
(* the ones after its last timely write included; only a rollback at the   *)
(* turn of the bucket and a restart in the middle of it cost samples.  A   *)
(* row never counts a sample that was not taken.                           *)
BucketsAreWhole ==
    /\ \A b \in Buckets : row[b] <= taken[b]
    /\ \A b \in Buckets \ torn :
           ~tx.open /\ acc.count > 0 /\ b < acc.bucket => row[b] = taken[b]
=============================================================================
