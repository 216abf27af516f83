----------------------------- MODULE Credentials -----------------------------
(***************************************************************************)
(* The credentials of one venue and the connectors made from them          *)
(* (exchanges/credentials.py, venues/manager.py, the exchange routes of    *)
(* api/settings_api.py).  One row holds the credentials; each process      *)
(* keeps the connectors it has made, by the environment, the fingerprint   *)
(* and the rights they were made with.  A save empties the store of the    *)
(* API process, and of no other.                                           *)
(***************************************************************************)
EXTENDS Integers, FiniteSets

CONSTANTS
  Envs,       \* the environments of a connection: "live", "testnet"
  Payloads,   \* the credentials an administrator can enter
  Powers,     \* for each: what of "fields", "signer", "read", "trade" it has
  Shown,      \* for each: what the fingerprint sees of it
  Callers,    \* the threads that ask for a connector
  ApiCallers, \* those of them in the API process
  MaxSaves,   \* bound: saves and deletions of the row
  Overlap     \* whether a save may come while a test is under way

CredentialsAssumption ==
  /\ Powers \in [Payloads -> SUBSET {"fields", "signer", "read", "trade"}]
  /\ DOMAIN Shown = Payloads
  /\ ApiCallers \subseteq Callers /\ MaxSaves \in Nat /\ Overlap \in BOOLEAN

VARIABLES
  row,      \* the row of the venue, or NoRow
  test,     \* the row as the test under way has read it, or NoRow
  dirty,    \* whether the API has a commit it has not yet invalidated for
  store,    \* for each process, the connectors it keeps
  call,     \* the call of connector_for of each thread
  saves

vars == <<row, test, dirty, store, call, saves>>

Processes == {"api", "worker"}
Process(c) == IF c \in ApiCallers THEN "api" ELSE "worker"

NoRow == [payload |-> "none", env |-> "live", readOnly |-> TRUE, enabled |-> FALSE, tested |-> "none"]
Rows == [payload : Payloads, env : Envs, readOnly : BOOLEAN, enabled : BOOLEAN,
         tested : {"untested", "ok", "warning", "failed"}]

(* A bug the run must notice: the rights are not a part of the identity.   *)
IdentityWithoutRights(r) == <<r.env, Shown[r.payload], TRUE>>

(* What connector_for finds a connector by. *)
Identity(r) == <<r.env, Shown[r.payload], r.readOnly>>

Connector(r) == [payload |-> r.payload, env |-> r.env, readOnly |-> r.readOnly]
Kept(p, id) == {k \in store[p] : k.id = id}

Idle == [step |-> "idle", row |-> NoRow, connector |-> Connector(NoRow)]

Init ==
  /\ row = NoRow /\ test = NoRow /\ dirty = FALSE
  /\ store = [p \in Processes |-> {}]
  /\ call = [c \in Callers |-> Idle]
  /\ saves = 0

-----------------------------------------------------------------------------
(* A bug the run must notice: a test survives a change of the rights.      *)
ReconnectedByPlace(r, env, readOnly, enabled) == <<r.env, r.enabled>> # <<env, enabled>>

(* Whether a save changes what the test was about. *)
Reconnected(r, env, readOnly, enabled) ==
  <<r.env, r.enabled, r.readOnly>> # <<env, enabled, readOnly>>

(* upsert_exchange_credential: a save that gives no credentials keeps      *)
(* those of the row.                                                       *)
Upserted(r, given, env, readOnly, enabled) ==
  [payload  |-> IF given = {} THEN r.payload ELSE CHOOSE p \in given : TRUE,
   env      |-> env, readOnly |-> readOnly, enabled |-> enabled,
   tested   |-> IF given # {} \/ r = NoRow \/ Reconnected(r, env, readOnly, enabled)
                  THEN "untested" ELSE r.tested]

MayChange == saves < MaxSaves /\ ~dirty /\ (Overlap \/ test = NoRow)

(* The routes that create and update the row, up to the commit.            *)
Save ==
  /\ MayChange
  /\ \E given \in {{}} \cup {{p} : p \in Payloads}, env \in Envs, readOnly, enabled \in BOOLEAN :
       /\ row # NoRow \/ given # {}
       /\ row' = Upserted(row, given, env, readOnly, enabled)
  /\ dirty' = TRUE /\ saves' = saves + 1
  /\ UNCHANGED <<test, store, call>>

Delete ==
  /\ MayChange /\ row # NoRow
  /\ row' = NoRow /\ dirty' = TRUE /\ saves' = saves + 1
  /\ UNCHANGED <<test, store, call>>

(* invalidate, after the commit. *)
Invalidate ==
  /\ dirty /\ dirty' = FALSE
  /\ store' = [store EXCEPT !["api"] = {}]
  /\ UNCHANGED <<row, test, call, saves>>

-----------------------------------------------------------------------------
Missing(p, readOnly) ==
  "fields" \notin Powers[p] \/ (~readOnly /\ "signer" \notin Powers[p])

(* validate_exchange_credential, at a venue that can be reached. *)
Verdict(r) ==
  IF Missing(r.payload, r.readOnly) \/ "read" \notin Powers[r.payload] THEN "failed"
  ELSE IF r.readOnly \/ "trade" \in Powers[r.payload] THEN "ok"
  ELSE "warning"

BeginTest ==
  /\ test = NoRow /\ row # NoRow
  /\ test' = row
  /\ UNCHANGED <<row, dirty, store, call, saves>>

(* The verdict, or a failure to reach the venue, goes over whatever the    *)
(* row says by now, unless it is what the row said when it was read; a row *)
(* that is gone fails the commit.                                          *)
EndTest ==
  /\ test # NoRow /\ test' = NoRow
  /\ \E result \in {Verdict(test), "failed"} :
       row' = IF row = NoRow \/ result = test.tested THEN row ELSE [row EXCEPT !.tested = result]
  /\ UNCHANGED <<dirty, store, call, saves>>

-----------------------------------------------------------------------------
Calls(c, step, r, connector) ==
  call' = [call EXCEPT ![c] = [step |-> step, row |-> r, connector |-> connector]]

(* connector_for in the live mode: the row is read, and a connector with   *)
(* its identity is taken if there is one.                                  *)
Ask(c) ==
  /\ call[c].step = "idle" /\ row.enabled
  /\ IF Kept(Process(c), Identity(row)) # {}
       THEN \E k \in Kept(Process(c), Identity(row)) : Calls(c, "answered", row, k.connector)
       ELSE Calls(c, "building", row, Connector(row))
  /\ UNCHANGED <<row, test, dirty, store, saves>>

(* Otherwise one is made, and kept unless another thread was faster. *)
Keep(c) ==
  LET p == Process(c)
      r == call[c].row
  IN /\ call[c].step = "building"
     /\ IF Kept(p, Identity(r)) # {}
          THEN /\ \E k \in Kept(p, Identity(r)) : Calls(c, "answered", r, k.connector)
               /\ UNCHANGED store
          ELSE /\ Calls(c, "answered", r, call[c].connector)
               /\ store' = [store EXCEPT ![p] = @ \cup {[id |-> Identity(r), connector |-> call[c].connector]}]
     /\ UNCHANGED <<row, test, dirty, saves>>

(* The caller is done with the connector. *)
Done(c) ==
  /\ call[c].step = "answered"
  /\ call' = [call EXCEPT ![c] = Idle]
  /\ UNCHANGED <<row, test, dirty, store, saves>>

Next ==
  \/ Save \/ Delete \/ Invalidate \/ BeginTest \/ EndTest
  \/ \E c \in Callers : Ask(c) \/ Keep(c) \/ Done(c)

Spec == Init /\ [][Next]_vars

-----------------------------------------------------------------------------
Connectors == [payload : Payloads, env : Envs, readOnly : BOOLEAN]

TypeOK ==
  /\ row \in Rows \cup {NoRow} /\ test \in Rows \cup {NoRow}
  /\ dirty \in BOOLEAN /\ saves \in 0 .. MaxSaves
  /\ \A p \in Processes : \A k \in store[p] : k.connector \in Connectors
  /\ \A c \in Callers : call[c] = Idle
       \/ (call[c].step \in {"building", "answered"} /\ call[c].row \in Rows /\ call[c].connector \in Connectors)

(* A thread gets a connector with the environment and the rights of the    *)
(* row it has read, whatever the row was before and whoever made it: no    *)
(* connector that may trade is handed out for a row that is read-only.     *)
RightsFollow ==
  \A c \in Callers : call[c].step = "answered" =>
     /\ call[c].connector.env = call[c].row.env
     /\ call[c].connector.readOnly = call[c].row.readOnly
     /\ Shown[call[c].connector.payload] = Shown[call[c].row.payload]

(* What _generic_live_venue_checks asks for before an opening. *)
Ready(r) == r.enabled /\ ~r.readOnly /\ r.tested = "ok"

(* A venue that is ready can trade with the credentials and the rights it  *)
(* has now, not with those of an earlier test; without Overlap.            *)
ReadyCanTrade ==
  Ready(row) => {"fields", "signer", "read", "trade"} \subseteq Powers[row.payload]
=============================================================================
