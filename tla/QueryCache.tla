----------------------------- MODULE QueryCache -----------------------------
(***************************************************************************)
(* The query cache of the web application (@tanstack/react-query), as the  *)
(* hooks under apps/web/src/api use it: one entry per query key, with the  *)
(* value it holds, the mark of an invalidation and the fetch under way.    *)
(* The answer of a fetch is taken from the server in one step and stored   *)
(* in another, whatever has been put into the entry meanwhile.             *)
(***************************************************************************)

CONSTANT None  \* no value

Entry(V) == [val: V \cup {None}, stale: BOOLEAN,
             fetch: {"idle", "asked", "answered"}, got: V \cup {None}]

NoEntry == [val |-> None, stale |-> FALSE, fetch |-> "idle", got |-> None]
Loaded(v) == [NoEntry EXCEPT !.val = v]

Idle(e) == e.fetch = "idle" /\ ~e.stale

\* A fetch starts anew, and gives up the one under way unless that is the first.
Refetched(e) ==
    IF e.val = None /\ e.fetch # "idle" THEN e
    ELSE [e EXCEPT !.fetch = "asked", !.got = None]

\* useQuery mounts: an entry that is missing or marked is fetched, and so is one
\* that is older than the stale time.
Opened(e, old) ==
    IF e.fetch = "idle" /\ (e.val = None \/ e.stale \/ old) THEN Refetched(e) ELSE e
Mounted(e) == {Opened(e, old) : old \in BOOLEAN}

\* invalidateQueries: an entry on screen is fetched at once, another is marked.
Invalidated(e, watched) ==
    [(IF watched THEN Refetched(e) ELSE e) EXCEPT !.stale = TRUE]

\* setQueryData: the mark is taken off, a fetch under way goes on.
Patched(e, v) == [e EXCEPT !.val = v, !.stale = FALSE]

\* cancelQueries, and a fetch that fails: nobody starts it again.
Cancelled(e) == [e EXCEPT !.fetch = "idle", !.got = None]

Answered(e, v) == [e EXCEPT !.fetch = "answered", !.got = v]
Stored(e) == Loaded(e.got)
=============================================================================
