------------------------------ MODULE Lifecycle -------------------------------
(***************************************************************************)
(* The life of a server: Bootstrapper takes the context through its        *)
(* phases, run_at_with_shutdown migrates, initializes the apps, serves     *)
(* until it is told to stop, waits for the requests in flight and closes   *)
(* the database.  An error of any step ends the server where it is.        *)
(*                                                                         *)
(* A request is in flight from its arrival to its answer: before its view, *)
(* in it, or in the error handler.  External: axum and hyper, which accept *)
(* connections, drop the future of a client that goes away, and on a       *)
(* graceful shutdown accept no more and wait for what is in flight.        *)
(***************************************************************************)
EXTENDS Integers

CONSTANTS
    Client,     \* clients, each with one request at a time
    Apps        \* how many apps are registered

ASSUME AppsAssumption == Apps \in Nat

VARIABLES
    config,     \* the configuration: is there a database, does the panic hook
                \* get registered
    server,     \* where the server is, and what it has opened
    stage       \* stage[c]: where the request of client c is

Config == [database : BOOLEAN, hook : BOOLEAN]

\* initialized: the apps that were initialized; apps: are they in the context,
\* or taken out of it; hook: is the panic hook of the error pages registered.
NewServer == [at |-> "uninitialized", database |-> "none", apps |-> FALSE, initialized |-> 0, hook |-> FALSE]

Init ==
    /\ config \in Config
    /\ server = NewServer
    /\ stage = [c \in Client |-> "idle"]

Moves(from, to) ==
    /\ server.at = from
    /\ server' = [server EXCEPT !.at = to]
    /\ UNCHANGED <<config, stage>>

-----------------------------------------------------------------------------
(* Bootstrapper: one phase after the other.                                *)

WithConfig == Moves("uninitialized", "withConfig")

WithApps ==
    /\ server.at = "withConfig"
    /\ server' = [server EXCEPT !.at = "withApps", !.apps = TRUE]
    /\ UNCHANGED <<config, stage>>

WithDatabase ==
    /\ server.at = "withApps"
    /\ server' = [server EXCEPT !.at = "withDatabase",
                                !.database = IF config.database THEN "open" ELSE "none"]
    /\ UNCHANGED <<config, stage>>

WithCache == Moves("withDatabase", "withCache")

\* The middlewares, the error handler and the authentication backend.
Boot == Moves("withCache", "initialized")

\* run binds the address.
Bind == Moves("initialized", "bound")

-----------------------------------------------------------------------------
(* run_at_with_shutdown                                                    *)

\* The migrations run, where there is a database, and the apps are taken out
\* of the context, which their init may change.
Migrate ==
    /\ server.at = "bound"
    /\ server' = [server EXCEPT !.at = "migrated", !.apps = FALSE]
    /\ UNCHANGED <<config, stage>>

InitApp ==
    /\ server.at = "migrated"
    /\ server.initialized < Apps
    /\ server' = [server EXCEPT !.initialized = @ + 1]
    /\ UNCHANGED <<config, stage>>

\* Mutant: the apps are not put back.
ServeTaken ==
    /\ server.at = "migrated" /\ server.initialized = Apps
    /\ server' = [server EXCEPT !.at = "serving", !.hook = config.hook]
    /\ UNCHANGED <<config, stage>>

\* The apps are put back, the panic hook is registered, requests are served.
Serve ==
    /\ server.at = "migrated" /\ server.initialized = Apps
    /\ server' = [server EXCEPT !.at = "serving", !.apps = TRUE, !.hook = config.hook]
    /\ UNCHANGED <<config, stage>>

\* Ctrl-C or SIGTERM.
ShutdownSignal == Moves("serving", "draining")

\* The last request has been answered: serve returns, the hook is removed.
Drained ==
    /\ server.at = "draining"
    /\ \A c \in Client : stage[c] = "idle"
    /\ server' = [server EXCEPT !.at = "drained", !.hook = FALSE]
    /\ UNCHANGED <<config, stage>>

Close ==
    /\ server.at = "drained"
    /\ server' = [server EXCEPT !.at = "stopped",
                                !.database = IF config.database THEN "closed" ELSE "none"]
    /\ UNCHANGED <<config, stage>>

\* The configuration cannot be read, the database or the cache cannot be
\* reached, the address is taken, a migration or an app fails, the database
\* cannot be closed: `?` returns.
Fail ==
    /\ server.at \in {"uninitialized", "withApps", "withDatabase", "initialized", "bound",
                      "migrated", "drained"}
    /\ server' = [server EXCEPT !.at = "failed"]
    /\ UNCHANGED <<config, stage>>

-----------------------------------------------------------------------------
(* A request.                                                              *)

Enters(c, from, to) ==
    /\ stage[c] \in from
    /\ stage' = [stage EXCEPT ![c] = to]
    /\ UNCHANGED <<config, server>>

\* Mutant: the shutdown is not graceful, connections are accepted still.
ArriveDraining(c) ==
    /\ server.at \in {"serving", "draining"}
    /\ Enters(c, {"idle"}, "arrived")

\* The request, the context put into it, comes to the middlewares.
Arrive(c) ==
    /\ server.at = "serving"
    /\ Enters(c, {"idle"}, "arrived")

\* A view is called.
Handle(c) == Enters(c, {"arrived"}, "handler")

\* A middleware, a view or the router returns an error, or a view panics.
Raise(c) == Enters(c, {"arrived", "handler"}, "error")

\* The response, of whomever it is.
Answer(c) == Enters(c, {"arrived", "handler", "error"}, "idle")

\* The client goes away, or the error handler panics, which nobody catches.
Drop(c) == Enters(c, {"arrived", "handler", "error"}, "idle")

Startup ==
    \/ WithConfig \/ WithApps \/ WithDatabase \/ WithCache \/ Boot \/ Bind
    \/ Migrate \/ InitApp \/ Serve

Shutdown == ShutdownSignal \/ Drained \/ Close

\* Views and error handlers come to an end, and so does a shutdown.
Fairness ==
    /\ \A c \in Client : WF_<<config, server, stage>>(Handle(c) \/ Raise(c) \/ Answer(c))
    /\ WF_<<config, server, stage>>(Drained \/ Close)

-----------------------------------------------------------------------------
(* Properties                                                              *)

LifecycleTypeOK ==
    /\ config \in Config
    /\ server \in [at : {"uninitialized", "withConfig", "withApps", "withDatabase", "withCache",
                         "initialized", "bound", "migrated", "serving", "draining", "drained",
                         "stopped", "failed"},
                   database : {"none", "open", "closed"}, apps : BOOLEAN,
                   initialized : 0 .. Apps, hook : BOOLEAN]
    /\ stage \in [Client -> {"idle", "arrived", "handler", "error"}]

\* While a request is in flight, everything it may use is there: the apps have
\* been initialized and are in its context, the database is open, the panic
\* hook tells the error page where a panic was.
ServesWhenReady ==
    \A c \in Client : stage[c] # "idle" =>
        /\ server.at \in {"serving", "draining"}
        /\ server.apps /\ server.initialized = Apps
        /\ server.database = (IF config.database THEN "open" ELSE "none")
        /\ server.hook = config.hook

\* A server that is told to stop stops, if views and error handlers come to an
\* end: it accepts no more requests, so the last one is answered some day.
Stops == server.at = "draining" ~> server.at \in {"stopped", "failed"}

=============================================================================
