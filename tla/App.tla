---------------------------------- MODULE App ----------------------------------
(***************************************************************************)
(* The server process (server/app/app.go, cmd/server/main.go): it serves    *)
(* requests and deletes expired idempotency keys beside them, both on one   *)
(* pool of connections; a signal makes it stop accepting, wait for what it  *)
(* serves and for the cleanup, and close the pool.                         *)
(*                                                                         *)
(* What a request does is left to the modules that extend this one.        *)
(***************************************************************************)
EXTENDS Naturals, FiniteSets

CONSTANTS
    Requests,       \* requests the server can have in service
    MaxStarts       \* bound: starts of the process

ASSUME AppAssumption == MaxStarts \in Nat

VARIABLES
    phase,      \* what App.Run is doing
    serving,    \* the requests whose handlers run
    pool,       \* the pgx pool
    cleanup,    \* where runIdempotencyCleanup is
    starts      \* starts so far

appVars == <<phase, serving, pool, cleanup, starts>>

-------------------------------------------------------------------------------
AppInit ==
    /\ phase = "down"
    /\ serving = {}
    /\ pool = "closed"
    /\ cleanup = "done"
    /\ starts = 0

\* New, then Run.
Start ==
    /\ phase = "down"
    /\ starts < MaxStarts
    /\ starts' = starts + 1
    /\ phase' = "serving"
    /\ pool' = "open"
    /\ cleanup' = "waiting"
    /\ UNCHANGED serving

\* The listener is closed by Shutdown; the handlers that run go on.
Accept(r) ==
    /\ phase = "serving"
    /\ r \in Requests \ serving
    /\ serving' = serving \union {r}
    /\ UNCHANGED <<phase, pool, cleanup, starts>>

Finish(r) ==
    /\ r \in serving
    /\ serving' = serving \ {r}
    /\ UNCHANGED <<phase, pool, cleanup, starts>>

\* The select takes a tick, also one that is ready together with ctx.Done.
Tick ==
    /\ phase # "down"
    /\ cleanup = "waiting"
    /\ cleanup' = "deleting"
    /\ UNCHANGED <<phase, serving, pool, starts>>

DeleteExpired ==
    /\ cleanup = "deleting"
    /\ cleanup' = "waiting"
    /\ UNCHANGED <<phase, serving, pool, starts>>

CleanupStops ==
    /\ phase \in {"draining", "closing"}
    /\ cleanup = "waiting"
    /\ cleanup' = "done"
    /\ UNCHANGED <<phase, serving, pool, starts>>

\* SIGINT or SIGTERM cancels the context; Run calls Shutdown.
Signal ==
    /\ phase = "serving"
    /\ phase' = "draining"
    /\ UNCHANGED <<serving, pool, cleanup, starts>>

\* Shutdown returns when no handler runs.
Drained ==
    /\ phase = "draining"
    /\ serving = {}
    /\ phase' = "closing"
    /\ UNCHANGED <<serving, pool, cleanup, starts>>

\* Mutant of ClosePool: the cleanup is not waited for.
ClosePoolAtOnce ==
    /\ phase = "closing"
    /\ pool = "open"
    /\ pool' = "closed"
    /\ UNCHANGED <<phase, serving, cleanup, starts>>

\* After cleanupDone.
ClosePool ==
    /\ phase = "closing"
    /\ cleanup = "done"
    /\ pool = "open"
    /\ pool' = "closed"
    /\ UNCHANGED <<phase, serving, cleanup, starts>>

Return ==
    /\ phase = "closing"
    /\ pool = "closed"
    /\ phase' = "down"
    /\ UNCHANGED <<serving, pool, cleanup, starts>>

\* Run returns an error, and log.Fatal ends the process: the listener failed, or
\* handlers still run ten seconds after the signal.
Fatal ==
    /\ \/ phase = "serving"
       \/ phase = "draining" /\ serving # {}
    /\ phase' = "down"
    /\ serving' = {}
    /\ pool' = "closed"
    /\ cleanup' = "done"
    /\ UNCHANGED starts

\* The steps of the process that no request takes part in.
Background ==
    \/ Start \/ Tick \/ DeleteExpired \/ CleanupStops
    \/ Signal \/ Drained \/ ClosePool \/ Return

-------------------------------------------------------------------------------
AppTypeOK ==
    /\ phase \in {"down", "serving", "draining", "closing"}
    /\ serving \subseteq Requests
    /\ pool \in {"open", "closed"}
    /\ cleanup \in {"waiting", "deleting", "done"}
    /\ starts \in 0..MaxStarts

\* While the process lives the pool is closed under nobody: neither a handler nor
\* the cleanup still runs ("<-cleanupDone" before pool.Close, app.go:114-121).
PoolOutlivesUsers ==
    pool = "closed" /\ phase # "down" => serving = {} /\ cleanup = "done"
===============================================================================
