------------------------------ MODULE AISettings ------------------------------
(***************************************************************************)
(* The configuration of the AI provider: the active row of                 *)
(* ai_provider_setting and the copy that hermes-bridge keeps in memory.    *)
(* Update (internal/service/ai_setting_service.go) hands a configuration   *)
(* to the bridge first and stores it once the bridge has taken it; when it *)
(* cannot be stored the bridge is given the previous one back.  At boot    *)
(* the API hands the bridge what is stored (Rehydrate).                    *)
(*                                                                         *)
(* A configuration is named by the update that brought it; of its fields   *)
(* only the API key counts, which an update may leave as it is.            *)
(***************************************************************************)
EXTENDS Naturals

CONSTANTS
    Updates,  \* requests to change the configuration; each also names a key
    None      \* no configuration

SettingsAssumption == None \notin [by: Updates, key: Updates]

Setting == [by: Updates, key: Updates]

VARIABLES
    active,  \* the active row
    bridge,  \* what the bridge uses; None: the defaults of its environment
    update,  \* where each request stands and the configuration it found and brings
    mixed,   \* history: requests that another one has overlapped
    apart    \* history: the bridge may have lost step with the row

vars == <<active, bridge, update, mixed, apart>>

UpdateState ==
    [at: {"new", "push", "store", "commit", "rollback", "done"}, prev: Setting \cup {None},
     next: Setting \cup {None}, target: Setting \cup {None}]

-----------------------------------------------------------------------------

UnderWay(c) == update[c].at \notin {"new", "done"}
Others(c) == {d \in Updates \ {c} : UnderWay(d)}

Goes(c, at) == update' = [update EXCEPT ![c].at = at]

\* Mutant: a request without a key takes the one the bridge uses.
KeyOfBridge(c, given) == IF given THEN c ELSE IF bridge = None THEN c ELSE bridge.key

\* Mutant: a request without a key brings none.
KeyAsSent(c, given) == IF given THEN c ELSE None

\* resolveAPIKeyFrom: the key that came with the request, or the one stored.
Key(c, given) == IF given THEN c ELSE active.key

\* The request takes a snapshot of the active row.  The first configuration of
\* all needs a key.
Begin(c, given) ==
    /\ update[c].at = "new" /\ (given \/ active # None)
    /\ update' = [update EXCEPT ![c] =
                    [at |-> "push", prev |-> active, next |-> [by |-> c, key |-> Key(c, given)], target |-> None]]
    /\ IF Others(c) = {} THEN UNCHANGED <<mixed, apart>>
                         ELSE mixed' = mixed \cup {c} \cup Others(c) /\ apart' = TRUE
    /\ UNCHANGED <<active, bridge>>

\* Configure: the bridge uses the configuration from now on.
Push(c) ==
    /\ update[c].at = "push" /\ Goes(c, "store")
    /\ bridge' = update[c].next
    /\ apart' = (apart /\ c \in mixed)
    /\ UNCHANGED <<active, mixed>>

\* The bridge refuses the configuration, or is not reached.
PushRefused(c) ==
    /\ update[c].at = "push" /\ Goes(c, "done")
    /\ UNCHANGED <<active, bridge, mixed, apart>>

\* The bridge takes the configuration, but its answer is lost: the request fails.
PushUnanswered(c) ==
    /\ update[c].at = "push" /\ Goes(c, "done")
    /\ bridge' = update[c].next /\ apart' = TRUE
    /\ UNCHANGED <<active, mixed>>

\* Upsert: the transaction takes the row off that is active as it starts.
Store(c) ==
    /\ update[c].at = "store"
    /\ update' = [update EXCEPT ![c].at = "commit", ![c].target = active]
    /\ UNCHANGED <<active, bridge, mixed, apart>>

\* The row is inserted and the transaction commits; the unique index on
\* is_active refuses it if another row has become active meanwhile.
Commit(c) ==
    /\ update[c].at = "commit" /\ active = update[c].target /\ Goes(c, "done")
    /\ active' = update[c].next
    /\ UNCHANGED <<bridge, mixed, apart>>

StoreFails(c) ==
    /\ update[c].at \in {"store", "commit"} /\ Goes(c, "rollback")
    /\ UNCHANGED <<active, bridge, mixed, apart>>

\* Mutant: the bridge keeps what could not be stored.
NoRollback(c) == UNCHANGED <<bridge, apart>>

\* rollbackBridge: there may be nothing to go back to.
RollBack(c) ==
    IF update[c].prev # None THEN bridge' = update[c].prev /\ apart' = apart
                             ELSE bridge' = bridge /\ apart' = TRUE

RolledBack(c) ==
    /\ update[c].at = "rollback" /\ Goes(c, "done")
    /\ RollBack(c)
    /\ UNCHANGED <<active, mixed>>

\* The bridge is not reached, or the request, whose context the rollback uses, is
\* over.
RollbackFails(c) ==
    /\ update[c].at = "rollback" /\ Goes(c, "done")
    /\ apart' = TRUE
    /\ UNCHANGED <<active, bridge, mixed>>

-----------------------------------------------------------------------------

BridgeRestarts ==
    /\ bridge' = None /\ apart' = TRUE
    /\ UNCHANGED <<active, update, mixed>>

\* Rehydrate: the bridge is handed the active row, if there is one and the bridge
\* is reached.
Rehydrate ==
    \/ active # None /\ bridge' = active /\ apart' = FALSE
    \/ bridge' = bridge /\ apart' = TRUE

\* The API restarts: the requests under way are gone.
Boot ==
    /\ update' = [c \in Updates |-> IF UnderWay(c) THEN [update[c] EXCEPT !.at = "done"] ELSE update[c]]
    /\ Rehydrate
    /\ UNCHANGED <<active, mixed>>

-----------------------------------------------------------------------------

Init ==
    /\ active = None /\ bridge = None
    /\ update = [c \in Updates |-> [at |-> "new", prev |-> None, next |-> None, target |-> None]]
    /\ mixed = {} /\ apart = FALSE

Next ==
    \/ \E c \in Updates :
        \/ \E given \in BOOLEAN : Begin(c, given)
        \/ Push(c) \/ PushRefused(c) \/ PushUnanswered(c)
        \/ Store(c) \/ Commit(c) \/ StoreFails(c) \/ RolledBack(c) \/ RollbackFails(c)
    \/ BridgeRestarts \/ Boot

Spec == Init /\ [][Next]_vars

-----------------------------------------------------------------------------
(* Properties *)

TypeOK ==
    /\ active \in Setting \cup {None} /\ bridge \in Setting \cup {None}
    /\ update \in [Updates -> UpdateState]
    /\ mixed \subseteq Updates /\ apart \in BOOLEAN

\* With no request under way the bridge uses the active configuration, unless since
\* the last one that had the bridge to itself, or the last boot, requests have
\* overlapped, an answer or a rollback was lost, there was nothing to go back to,
\* or the bridge has restarted.
BridgeFollows == ~apart /\ (\A c \in Updates : ~UnderWay(c)) => bridge = active

\* A request that is not overlapped and brings no key leaves the key as it is.
KeyIsKept ==
    \A c \in Updates :
        active' # active /\ active'.by = c /\ active'.key # c /\ c \notin mixed => active'.key = active.key
=============================================================================
