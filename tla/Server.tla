------------------------------- MODULE Server -------------------------------
(***************************************************************************)
(* The life of one server process: cmd/server's run connects the stores,   *)
(* starts the fan-out, serves until it is told to stop, waits for the      *)
(* requests it is serving, and undoes what it did in reverse order,        *)
(* whichever of its steps fails.  Meanwhile updates come from the cluster. *)
(***************************************************************************)
EXTENDS Fanout

VARIABLES
    main,     \* where run is
    stores,   \* the stores it has connections to
    indexed,  \* EnsureIndexes has succeeded
    failed,   \* run returns an error
    busy      \* a plain HTTP request is being served: it may call any store

process == <<main, stores, indexed, failed, busy>>
svars == <<fvars, process>>

SInit ==
    /\ FInit
    /\ main = "mongo"
    /\ stores = {}
    /\ indexed = FALSE /\ failed = FALSE /\ busy = FALSE

Up == main # "exited"

-----------------------------------------------------------------------------
(* run. *)

Following ==
    [mongo |-> "indexes", indexes |-> "redis", redis |-> "subscribe", subscribe |-> "confirm", confirm |-> "serve"]

\* run returns: its deferred calls close the stores it has opened, the last one
\* first, and the process exits.
Exit ==
    /\ main' = "exited"
    /\ stores' = {}

Fails == Exit /\ failed' = TRUE

\* A store that does not answer the ping is closed by the call that opened it.  No call
\* succeeds that is given a cancelled context.
ConnectStore(s) ==
    /\ main = s
    /\ \/ /\ ~cancelled
          /\ stores' = stores \cup {s}
          /\ main' = Following[s]
          /\ UNCHANGED failed
       \/ Fails
    /\ UNCHANGED <<fvars, indexed, busy>>

ConnectMongo == ConnectStore("mongo")
ConnectRedis == ConnectStore("redis")

EnsureIndexes ==
    /\ main = "indexes"
    /\ \/ /\ ~cancelled
          /\ indexed' = TRUE
          /\ main' = Following[main]
          /\ UNCHANGED <<stores, failed>>
       \/ Fails /\ UNCHANGED indexed
    /\ UNCHANGED <<fvars, busy>>

\* PSubscribe connects and asks for the pattern.
StartFanout ==
    /\ main = "subscribe"
    /\ \/ /\ ~cancelled
          /\ main' = Following[main]
          /\ UNCHANGED <<stores, failed>>
       \/ Fails
    /\ UNCHANGED <<fvars, indexed, busy>>

\* Receive reads the confirmation, or an error, or for ever: it has no deadline, and once
\* it reads it does not look at ctx.  Behind it Manager.Run starts its goroutines.
Confirm ==
    /\ main = "confirm"
    /\ \/ /\ Subscribe
          /\ main' = Following[main]
          /\ UNCHANGED <<stores, failed>>
       \/ Fails /\ UNCHANGED fvars
    /\ UNCHANGED <<indexed, busy>>

\* The listener cannot be opened, or fails later: nothing is drained.
ServeFails ==
    /\ main = "serve"
    /\ Fails
    /\ UNCHANGED <<fvars, indexed, busy>>

BeginShutdown ==
    /\ main = "serve"
    /\ cancelled
    /\ main' = "drain"
    /\ UNCHANGED <<fvars, stores, indexed, failed, busy>>

\* Mutant: Shutdown waits for nobody.
NobodyServed == FALSE

\* A request Shutdown waits for.  A hijacked connection is none of its business.
BeingServed == busy \/ \E c \in Clients : handler[c] = "upgrade"

\* Mutant: Shutdown without its context's deadline.
NoDeadline == FALSE

\* cfg.ShutdownTimeout passes.
DeadlinePasses == BeingServed

\* Server.Shutdown returns: all is served, or its time is over.
EndShutdown ==
    /\ main = "drain"
    /\ \/ ~BeingServed /\ Exit /\ UNCHANGED failed
       \/ DeadlinePasses /\ Fails
    /\ UNCHANGED <<fvars, indexed, busy>>

-----------------------------------------------------------------------------
(* The process around it. *)

\* A plain request is accepted, while the listener is open, and ends, or hangs.
BeginRequest ==
    /\ main = "serve"
    /\ ~busy
    /\ busy' = TRUE
    /\ UNCHANGED <<fvars, main, stores, indexed, failed>>

EndRequest ==
    /\ Up /\ busy
    /\ busy' = FALSE
    /\ UNCHANGED <<fvars, main, stores, indexed, failed>>

\* A WebSocket request reads its snapshot, while the listener is open, or later when it
\* is the one that was accepted before.
Connect(c) ==
    /\ HubSide(ReadSnapshot(c))
    /\ \/ main = "serve" /\ UNCHANGED busy
       \/ main = "drain" /\ busy /\ busy' = FALSE
    /\ UNCHANGED <<main, stores, indexed, failed>>

\* A step of one of the process's goroutines: there are none before the fan-out.
Goroutines ==
    /\ Up /\ subscriber # "off"
    /\ Pumps \/ HubSide(HubGoroutines)
    /\ UNCHANGED process

\* run's own steps, but for the confirmation and the listener's failure.
Run ==
    \/ ConnectMongo \/ EnsureIndexes \/ ConnectRedis \/ StartFanout
    \/ BeginShutdown \/ EndShutdown

Elsewhere ==
    /\ Up
    /\ \/ \E p \in Polls : Publish(p)
       \/ \E m \in Messages : Stray(m)
       \/ /\ Cancel \/ \E c \in Clients : PeerLeaves(c)
          /\ UNCHANGED <<strays, pipeline, history>>
    /\ UNCHANGED process

SNext ==
    \/ Run \/ Confirm \/ ServeFails \/ BeginRequest \/ EndRequest
    \/ \E c \in Clients : Connect(c)
    \/ Goroutines \/ Elsewhere

SSpec == SInit /\ [][SNext]_svars

\* While a goroutine can take a step some goroutine does, which as nothing repeats
\* itself is enough; so does run, whose calls have a deadline, all but one.  Nothing makes
\* Redis confirm the subscription, a plain request end, or the listener fail.
SFairSpec == SSpec /\ WF_svars(Run) /\ WF_svars(Goroutines)

-----------------------------------------------------------------------------
(* What a server promises. *)

\* Type invariant.
ServerOK ==
    /\ TypeOK /\ PipelineOK
    /\ main \in {"mongo", "indexes", "redis", "subscribe", "confirm", "serve", "drain", "exited"}
    /\ stores \subseteq {"mongo", "redis"}
    /\ indexed \in BOOLEAN /\ failed \in BOOLEAN /\ busy \in BOOLEAN

\* A request that is being served finds both stores open, the unique indexes that
\* keep voting and registration honest in place and the fan-out subscribed, and the
\* process waits for its end: only an error of run, the deadline of the drain among
\* them, takes the stores away under it (main.go:47-98, 132-146).
RequestsFindTheirStores ==
    busy /\ ~failed => stores = {"mongo", "redis"} /\ indexed /\ subscriber # "off"

\* A connected viewer comes to see the last update of its poll: none waits for ever in a
\* channel, though no goroutine ever waits for a slow one.  What excuses a screen is what
\* MissesAreExplained lists, and the end of the viewer or of the server.
UpdatesReachTheScreens ==
    \A c \in Clients :
        handler[c] = "returned" ~>
            \/ seen[c] = tally[Watch[c]]
            \/ tally[Watch[c]] \in {missed[Watch[c]], overtaken[c]}
            \/ Dead(c) \/ ~open[c] \/ cancelled \/ failed

\* Told to stop, a server stops, with requests that never end (main.go:139-143), and at
\* whatever step of its start but one: subscriber.go:38 waits for a Redis that keeps
\* silent as long as it does.
StopsWhenTold == cancelled ~> main \in {"exited", "confirm"}

=============================================================================
