------------------------------ MODULE Opening ------------------------------
(***************************************************************************)
(* From a signal of the scanner to an OPEN intent, for one symbol.  A scan *)
(* leaves its result in Redis; a second job writes it into the opportunity *)
(* rows; a third, the auto executor, opens what it finds executable; users *)
(* open rows, or the current spread, through the API.  All of them meet in *)
(* create_open_intent, whose lock covers the count of the open groups but  *)
(* not the commit of the new one.                                          *)
(*                                                                         *)
(* A group is named by the Idempotency-Key it was opened with: that of the *)
(* auto executor is the row ("auto-open:<row>"), that of a user is the     *)
(* user, who sends one request.                                            *)
(***************************************************************************)
EXTENDS Naturals, FiniteSets

CONSTANTS
    Signals,    \* the directions of the symbol
    Rows,       \* bound: ids of opportunity rows
    Users,      \* bound: requests of users
    MaxGroups   \* max_open_groups, or another limit on groups that are open

OpeningAssumption ==
    /\ MaxGroups \in Nat \ {0}
    /\ Rows \subseteq Nat \ {0} /\ Users \subseteq Nat \ {0} /\ Rows \cap Users = {}
    /\ IsFiniteSet(Users)

Keys == Rows \cup Users

VARIABLES
    row,      \* ArbitrageOpportunity rows
    persist,  \* what persist_scan_state has read: the store and the rows
    group,    \* the groups, by key
    opened,   \* the row each request was made for
    auto      \* run_auto_execute: rows still to look at, statuses as loaded, the row at hand

vars == <<row, persist, group, opened, auto>>

Found    == {"none", "candidate", "executable"}
Active   == {"candidate", "executable", "executing"}
NoRow    == 0
Status   == Active \cup {"absent", "rejected", "executed"}
OpenStatuses == {"opening", "open", "manual_intervention"}   \* ACTIVE_OPEN_STATUSES
NotBusy  == [phase |-> "rest", todo |-> {}, seen |-> [r \in Rows |-> "absent"], at |-> NoRow]
NoRead   == [found |-> [s \in Signals |-> "none"], seen |-> [r \in Rows |-> "absent"], busy |-> FALSE]

TypeOK ==
    /\ row \in [Rows -> [signal : Signals, status : Status]]
    /\ persist \in [found : [Signals -> Found], seen : [Rows -> Status], busy : BOOLEAN]
    /\ group \in [Keys -> {"none", "flushed", "over", "voided"} \cup OpenStatuses]
    /\ opened \in [Keys -> Rows \cup {NoRow}]
    /\ auto \in [phase : {"rest", "loop", "commit"}, todo : SUBSET Rows,
                 seen : [Rows -> Status], at : Rows \cup {NoRow}]

Init ==
    /\ row \in [Rows -> {[signal |-> s, status |-> "absent"] : s \in Signals}]
    /\ persist = NoRead
    /\ group = [k \in Keys |-> "none"] /\ opened = [k \in Keys |-> NoRow]
    /\ auto = NotBusy

StatusOf(r)      == row[r].status
SetStatus(R, st) == [r \in Rows |-> IF r \in R THEN [row[r] EXCEPT !.status = st] ELSE row[r]]
Committed        == {k \in Keys : group[k] # "flushed"}
OpenGroups       == {k \in Committed : group[k] \in OpenStatuses}

-----------------------------------------------------------------------------
(* The scanner and the job that persists its result.                       *)

(* Every scan replaces the whole result, so that the store may hold any.   *)
PersistReads ==
    /\ ~persist.busy
    /\ \E found \in [Signals -> Found] :
           persist' = [found |-> found, seen |-> [r \in Rows |-> StatusOf(r)], busy |-> TRUE]
    /\ UNCHANGED <<row, group, opened, auto>>

(* _persist_opportunities, with the rows as they were read: of the active  *)
(* rows of a signal the one that was read last counts; an executing row is *)
(* left alone; a row whose status does not change is not written; without  *)
(* a row one is added; what was not found is rejected.                     *)
ActiveRows(s)  == {r \in Rows : row[r].signal = s /\ persist.seen[r] \in Active}
Current(s)     == CHOOSE r \in ActiveRows(s) : \A q \in ActiveRows(s) : q <= r
Unused(s)      == {r \in Rows : row[r].signal = s /\ row[r].status = "absent"}
Wanted(s)      == IF persist.found[s] = "none" THEN "rejected" ELSE persist.found[s]
Rewritten      == {s \in Signals : /\ ActiveRows(s) # {}
                                   /\ persist.seen[Current(s)] \notin {"executing", Wanted(s)}}
Added          == {s \in Signals : ActiveRows(s) = {} /\ persist.found[s] # "none" /\ Unused(s) # {}}

PersistCommits ==
    /\ persist.busy
    /\ row' = [r \in Rows |->
          IF \E s \in Rewritten : r = Current(s)
          THEN [row[r] EXCEPT !.status = Wanted(row[r].signal)]
          ELSE IF row[r].signal \in Added /\ r = CHOOSE q \in Unused(row[r].signal) : TRUE
          THEN [row[r] EXCEPT !.status = persist.found[row[r].signal]]
          ELSE row[r]]
    /\ persist' = NoRead
    /\ UNCHANGED <<group, opened, auto>>

-----------------------------------------------------------------------------
(* create_open_intent.                                                     *)

(* A bug the runs must notice: only groups that are open count.            *)
HasCapacityOfOpen == Cardinality({k \in Committed : group[k] = "open"}) < MaxGroups

(* open_capacity_check: groups that are committed.                         *)
HasCapacity == Cardinality(OpenGroups) < MaxGroups

Refuses(status) == status \notin {"executable", "executing"} \/ ~HasCapacity

(* Under the lock, up to the flush.  The other checks (readiness, quotes,  *)
(* session, margin) may refuse at any time.                                *)
Flush(k, r) ==
    /\ group' = [group EXCEPT ![k] = "flushed"]
    /\ opened' = [opened EXCEPT ![k] = r]

Commit(k) ==
    /\ group' = [group EXCEPT ![k] = "opening"]
    /\ row' = SetStatus({opened[k]}, "executing")

-----------------------------------------------------------------------------
(* run_auto_execute.                                                       *)

AutoLists ==
    /\ auto.phase = "rest"
    /\ LET R == {r \in Rows : StatusOf(r) = "executable"} IN
       /\ R # {}
       /\ auto' = [phase |-> "loop", todo |-> R, seen |-> [r \in Rows |-> StatusOf(r)], at |-> NoRow]
    /\ UNCHANGED <<row, persist, group, opened>>

(* Not eligible, not confirmed, or the breaker is open; the reason is      *)
(* written.  A symbol that is paused is rejected.                          *)
AutoSkips(r) ==
    /\ auto.phase = "loop" /\ r \in auto.todo
    /\ row' \in {row, SetStatus({r}, "rejected")}
    /\ auto' = [auto EXCEPT !.todo = @ \ {r}]
    /\ UNCHANGED <<persist, group, opened>>

KeyUsed(k) == group[k] # "none"

(* A key that was used returns what it has made.                           *)
AutoFlushes(r) ==
    /\ auto.phase = "loop" /\ r \in auto.todo
    /\ ~KeyUsed(r) /\ ~Refuses(auto.seen[r])
    /\ Flush(r, r)
    /\ auto' = [auto EXCEPT !.todo = @ \ {r}, !.phase = "commit", !.at = r]
    /\ UNCHANGED <<row, persist>>

(* After a commit the rows of the session are read again when used.        *)
AutoCommits ==
    /\ auto.phase = "commit"
    /\ Commit(auto.at)
    /\ auto' = [auto EXCEPT !.phase = "loop", !.at = NoRow,
                            !.seen = [r \in Rows |-> row'[r].status]]
    /\ UNCHANGED <<persist, opened>>

(* Any refusal is an exception: rolled back, and the row made executable   *)
(* again, whatever it has become.                                          *)
AutoFails(r) ==
    /\ auto.phase = "loop" /\ r \in auto.todo /\ ~KeyUsed(r)
    /\ row' = SetStatus({r}, "executable")
    /\ auto' = [auto EXCEPT !.todo = @ \ {r}, !.seen = [q \in Rows |-> row'[q].status]]
    /\ UNCHANGED <<persist, group, opened>>

AutoEnds ==
    /\ auto.phase = "loop" /\ auto.todo = {}
    /\ auto' = NotBusy
    /\ UNCHANGED <<row, persist, group, opened>>

-----------------------------------------------------------------------------
(* The API.                                                                *)

(* POST /opportunities/{id}/execute.                                       *)
UserFlushes(u, r) ==
    /\ opened[u] = NoRow /\ ~Refuses(StatusOf(r))
    /\ Flush(u, r)
    /\ UNCHANGED <<row, persist, auto>>

UserCommits(u) ==
    /\ group[u] = "flushed"
    /\ Commit(u)
    /\ UNCHANGED <<persist, opened, auto>>

(* POST /markets/spreads/{symbol}/execute with force makes a row of its    *)
(* own, executable whatever the scanner says.  When the intent is refused, *)
(* record_risk_event has committed that row.                               *)
UserForces(u, s) ==
    /\ opened[u] = NoRow /\ Unused(s) # {}
    /\ LET r == CHOOSE q \in Unused(s) : TRUE IN
       /\ row' = SetStatus({r}, "executable")
       /\ IF HasCapacity THEN Flush(u, r)
          ELSE opened' = [opened EXCEPT ![u] = r] /\ UNCHANGED group
    /\ UNCHANGED <<persist, auto>>

-----------------------------------------------------------------------------
(* What becomes of the groups.                                             *)

(* A bug the runs must notice: a refused opening leaves the row as it is.  *)
FinishedLeaves(k, g) == row

(* _project_open_group_state; failed is over.                              *)
Finished(k, g) == SetStatus({opened[k]}, IF g = "open" THEN "executed" ELSE "rejected")

WorkerFinishes(k) ==
    /\ group[k] = "opening"
    /\ \E g \in {"open", "over", "manual_intervention"} :
           /\ group' = [group EXCEPT ![k] = g]
           /\ row' = Finished(k, g)
    /\ UNCHANGED <<persist, opened, auto>>

WorkerProgresses(k) ==
    /\ group[k] = "opening"
    /\ row' = SetStatus({opened[k]}, "executing") /\ row' # row
    /\ UNCHANGED <<persist, group, opened, auto>>

(* Closed, recovered, or voided when it was not opening any more.          *)
Leave(k) ==
    /\ group[k] \in {"open", "manual_intervention"}
    /\ group' = [group EXCEPT ![k] = "over"]
    /\ UNCHANGED <<row, persist, opened, auto>>

(* void_hedge_group forgets the row.                                       *)
Void(k) ==
    /\ group[k] = "opening"
    /\ group' = [group EXCEPT ![k] = "voided"]
    /\ UNCHANGED <<row, persist, opened, auto>>

Next ==
    \/ PersistReads \/ PersistCommits
    \/ AutoLists \/ AutoCommits \/ AutoEnds
    \/ \E r \in Rows : AutoSkips(r) \/ AutoFlushes(r) \/ AutoFails(r)
    \/ \E u \in Users : \/ UserCommits(u)
                        \/ \E r \in Rows : UserFlushes(u, r)
                        \/ \E s \in Signals : UserForces(u, s)
    \/ \E k \in Keys : WorkerFinishes(k) \/ WorkerProgresses(k) \/ Leave(k) \/ Void(k)

Spec == Init /\ [][Next]_vars

-----------------------------------------------------------------------------
(* Properties.                                                             *)

(* The limit on open groups can be overrun, since the groups others have   *)
(* flushed but not committed are not counted, yet never by more than there *)
(* are openers beside one: each commits what it opened before it opens     *)
(* again (open_capacity_check, OPEN_CAPACITY_LOCK).                        *)
OverrunIsBounded ==
    Cardinality({k \in Keys : group[k] \in OpenStatuses \cup {"flushed"}})
        <= MaxGroups + Cardinality(Users)

(* A row shown as executing, which nobody else may then touch, is one that *)
(* somebody will release: a group opened for it is still opening, or was   *)
(* voided while it was.                                                    *)
ExecutingIsOwned ==
    \A r \in Rows : StatusOf(r) = "executing" =>
        \E k \in Keys : opened[k] = r /\ group[k] \in {"opening", "voided"}
=============================================================================
