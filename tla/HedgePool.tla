----------------------------- MODULE HedgePool -----------------------------
(***************************************************************************)
(* The Redis pool of hedge group snapshots beside the database, seen       *)
(* through one group.  The worker and the API put what they have committed *)
(* into it without looking at what it holds; auto_closer does so before it *)
(* commits; the reconciler loads the whole table by version (updated_at).  *)
(* auto_closer walks the pool to find the groups it may close, so that an  *)
(* open group the pool does not show is never closed by itself.            *)
(***************************************************************************)
EXTENDS Naturals

CONSTANTS
    MaxTime,     \* bound of the clock, which every write of a row advances
    Concurrent   \* a load may run while the group is being created

PoolAssumption == MaxTime \in Nat /\ Concurrent \in BOOLEAN

PoolStatuses == {"opening", "open", "closing", "manual_intervention"}
Statuses     == PoolStatuses \cup {"closed"}

VARIABLES
    now,
    row,       \* HedgeGroup: what is committed
    creating,  \* updated_at of the group while its transaction is not committed
    cached,    \* its snapshot in the pool, status "none" when there is none
    writer,    \* what the worker or the API has read back and will put into the pool
    closer,    \* the row auto_closer holds in its session
    flushed,   \* updated_at auto_closer has flushed, 0 when it has not
    load,      \* load_from_db: when it started, what it read, what it has left to do
    settled    \* history: a whole load has run since anything else wrote

vars == <<now, row, creating, cached, writer, closer, flushed, load, settled>>

Snapshot == [status : Statuses \cup {"none"}, version : 0..MaxTime]
Nothing  == [status |-> "none", version |-> 0]
Resting  == [phase |-> "rest", started |-> 0, read |-> Nothing]

TypeOK ==
    /\ now \in 0..MaxTime
    /\ row \in Snapshot /\ cached \in Snapshot /\ writer \in Snapshot /\ closer \in Snapshot
    /\ creating \in 0..MaxTime /\ flushed \in 0..MaxTime
    /\ load \in [phase : {"rest", "merge", "clean"}, started : 0..MaxTime, read : Snapshot]
    /\ settled \in BOOLEAN

Init ==
    /\ now = 0 /\ row = Nothing /\ creating = 0 /\ cached = Nothing
    /\ writer = Nothing /\ closer = Nothing /\ flushed = 0
    /\ load = Resting /\ settled = FALSE

Tick == now < MaxTime /\ now' = now + 1

(* upsert_group: the snapshot, whatever the pool holds.                    *)
Put(s) == cached' = IF s.status \in PoolStatuses THEN s ELSE Nothing

-----------------------------------------------------------------------------
(* Writers of the group.                                                   *)

(* create_open_intent flushes the group; its caller commits.               *)
CreateFlush ==
    /\ row = Nothing /\ creating = 0 /\ (Concurrent \/ load = Resting)
    /\ Tick /\ creating' = now + 1
    /\ settled' = FALSE
    /\ UNCHANGED <<row, cached, writer, closer, flushed, load>>

CreateCommit ==
    /\ creating # 0
    /\ row' = [status |-> "opening", version |-> creating]
    /\ creating' = 0
    /\ settled' = FALSE
    /\ UNCHANGED <<now, cached, writer, closer, flushed, load>>

(* What the worker and the API make of a group; closed is the end.         *)
Moves(s) ==
    CASE s = "opening" -> {"open", "manual_intervention", "closed"}
      [] s = "open" -> {"closing", "manual_intervention"}
      [] s = "closing" -> {"open", "closed", "manual_intervention"}
      [] s = "manual_intervention" -> {"closing", "closed", "open"}
      [] OTHER -> {}

(* They commit and read the row again (db.commit, db.get); auto_closer's   *)
(* flush holds a lock on the row.  A transaction that leaves the group as  *)
(* it is leaves its updated_at too.                                        *)
Commit ==
    /\ writer = Nothing /\ flushed = 0 /\ row # Nothing
    /\ \/ /\ Tick
          /\ \E s \in Moves(row.status) : row' = [status |-> s, version |-> now + 1]
       \/ UNCHANGED <<now, row>>
    /\ writer' = row'
    /\ settled' = FALSE
    /\ UNCHANGED <<creating, cached, closer, flushed, load>>

(* _refresh_hedge_pool, close_group, recover_group, void_group.            *)
Upsert ==
    /\ writer # Nothing
    /\ Put(writer)
    /\ writer' = Nothing
    /\ settled' = FALSE
    /\ UNCHANGED <<now, row, creating, closer, flushed, load>>

(* mark_manual puts first and commits then.                                *)
MarkManual ==
    /\ writer = Nothing /\ flushed = 0 /\ row.status \in {"opening", "open", "closing"}
    /\ Tick
    /\ Put([row EXCEPT !.status = "manual_intervention"])
    /\ row' = [status |-> "manual_intervention", version |-> now + 1]
    /\ settled' = FALSE
    /\ UNCHANGED <<creating, writer, closer, flushed, load>>

-----------------------------------------------------------------------------
(* run_auto_close: of what the pool shows as open it reads the row; if the *)
(* group is not to be closed it writes the profit and puts the snapshot    *)
(* before the transaction ends, with the status it read.                   *)
CloserReads ==
    /\ cached.status = "open" /\ closer = Nothing
    /\ row.status = "open"
    /\ closer' = row
    /\ UNCHANGED <<now, row, creating, cached, writer, flushed, load, settled>>

CloserFlushes ==
    /\ closer # Nothing /\ flushed = 0
    /\ Tick /\ flushed' = now + 1
    /\ Put([status |-> closer.status, version |-> now + 1])
    /\ settled' = FALSE
    /\ UNCHANGED <<row, creating, writer, closer, load>>

(* The update names only the columns that changed.  A later group of the   *)
(* loop may fail: the session is rolled back, the pool is not.             *)
CloserEnds ==
    /\ closer # Nothing
    /\ \/ flushed # 0 /\ row' = [row EXCEPT !.version = flushed]
       \/ UNCHANGED row
    /\ closer' = Nothing /\ flushed' = 0
    /\ settled' = FALSE
    /\ UNCHANGED <<now, creating, cached, writer, load>>

-----------------------------------------------------------------------------
(* load_from_db.                                                           *)

LoadReads ==
    /\ load = Resting
    /\ load' = [phase |-> "merge", started |-> now,
                read |-> IF row.status \in PoolStatuses THEN row ELSE Nothing]
    /\ settled' = TRUE
    /\ UNCHANGED <<now, row, creating, cached, writer, closer, flushed>>

(* A bug the runs must notice: the row that is read wins over nothing.     *)
MergedAbsentOnly(current, incoming) == IF current = Nothing THEN incoming ELSE current

(* _merge_database_snapshot, under WATCH.                                  *)
Merged(current, incoming) ==
    IF current # Nothing /\ current.version > incoming.version THEN current ELSE incoming

LoadMerges ==
    /\ load.phase = "merge"
    /\ cached' = IF load.read = Nothing THEN cached ELSE Merged(cached, load.read)
    /\ load' = [load EXCEPT !.phase = "clean"]
    /\ UNCHANGED <<now, row, creating, writer, closer, flushed, settled>>

(* _remove_if_not_newer, of what was not read.                             *)
LoadCleans ==
    /\ load.phase = "clean"
    /\ cached' = IF load.read = Nothing /\ cached.version <= load.started THEN Nothing ELSE cached
    /\ load' = Resting
    /\ UNCHANGED <<now, row, creating, writer, closer, flushed, settled>>

Next ==
    \/ CreateFlush \/ CreateCommit \/ Commit \/ Upsert \/ MarkManual
    \/ CloserReads \/ CloserFlushes \/ CloserEnds
    \/ LoadReads \/ LoadMerges \/ LoadCleans

Spec == Init /\ [][Next]_vars

-----------------------------------------------------------------------------
(* Properties.                                                             *)

(* However the writers raced, one load that nothing disturbed shows every  *)
(* open group to auto_closer again (_merge_database_snapshot), and shows   *)
(* no closed group, but for what a rolled back session of auto_closer left *)
(* behind with a version newer than any of the database.                   *)
LoadRepairs ==
    settled /\ load = Resting =>
        /\ row.status = "open" => cached.status = "open"
        /\ cached.version <= row.version /\ row.status # "none" =>
               cached.status = IF row.status \in PoolStatuses THEN row.status ELSE "none"

(* A snapshot newer than its row can only claim the group is open: it can  *)
(* make auto_closer look at the row once too often, never too seldom.      *)
AheadMeansOpen == cached.version > row.version => cached.status = "open" \/ row.status = "none"

(* What the comment of load_from_db says: a group created while it runs is *)
(* not taken out of the pool.                                              *)
NewGroupKept ==
    [][LoadCleans /\ cached.status = "opening" /\ row.status = "opening" => cached' = cached]_vars
=============================================================================
