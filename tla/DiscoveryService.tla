--------------------------- MODULE DiscoveryService ---------------------------
(***************************************************************************)
(* The discovery server inside its process, cmd/dockyards-talos/main.go:   *)
(* the goroutine that serves gRPC, the manager that runs until an          *)
(* interrupt, and the deferred GracefulStop, which refuses new calls and   *)
(* waits for those in progress.  Nothing waits for the persister, and      *)
(* Watch calls end only when their clients leave.                          *)
(***************************************************************************)
EXTENDS DiscoveryPersistence

VARIABLES
    main,     \* where main is; "failed" is os.Exit(1)
    serve     \* where the goroutine that calls grpcServer.Serve is

processVars == <<main, serve>>
serviceVars == <<allVars, processVars>>

\* The server has been created, and the goroutine that will call Serve.
ServiceInit ==
    /\ PersistInit
    /\ main = "running"
    /\ serve = "starting"

Alive == main \in {"running", "stopping"}

\* Serve called after GracefulStop returns an error.
Serve ==
    /\ Alive
    /\ serve = "starting"
    /\ IF main = "running"
       THEN serve' = "serving" /\ main' = main
       ELSE serve' = serve /\ main' = "failed"
    /\ UNCHANGED allVars

\* Serve or the manager returns an error: os.Exit runs no deferred function.
Fails ==
    /\ main = "running"
    /\ main' = "failed"
    /\ UNCHANGED <<allVars, serve>>

\* SIGINT: the manager returns and GracefulStop is called.
Interrupt ==
    /\ main = "running"
    /\ main' = "stopping"
    /\ UNCHANGED <<allVars, serve>>

Idle(p) == pc[p] \in {"idle", "returned"}

\* No call is in progress: GracefulStop returns, then main.
GracefulStopReturns ==
    /\ main = "stopping"
    /\ \A p \in Handlers \cup Streams : Idle(p)
    /\ main' = "exited"
    /\ UNCHANGED <<allVars, serve>>

\* The process has ended or is killed (any signal but the first SIGINT), and is
\* started again.
Restart ==
    /\ Crash
    /\ main' = "running"
    /\ serve' = "starting"

Accepting == main = "running" /\ serve = "serving"

NoNewCall == \A p \in Handlers \cup Streams : pc[p] = "idle" => pc'[p] = "idle"

\* A step of the server or the persister.
Works ==
    /\ Alive
    /\ PersistStep
    /\ Accepting \/ NoNewCall
    /\ UNCHANGED processVars

ServiceNext ==
    \/ Works
    \/ Serve \/ Fails \/ Interrupt \/ GracefulStopReturns
    \/ Restart

ServiceSpec == ServiceInit /\ [][ServiceNext]_serviceVars

-----------------------------------------------------------------------------
(***************************************************************************)
(* Fairness as in the modules below, as long as the process lives.         *)
(***************************************************************************)
Runs(A) == Alive /\ A /\ UNCHANGED <<persistVars, crashes, processVars>>

Persists(A) == Alive /\ A /\ UNCHANGED processVars

ServiceFairness ==
    /\ \A p \in Procs :
          /\ SF_serviceVars(Runs(LocksWatchers(p)))
          /\ WF_serviceVars(Runs(BroadcastGoesOn(p)))
          /\ WF_serviceVars(Runs(CollectGarbage(p)))
    /\ \A h \in Handlers : WF_serviceVars(Runs(HandlerStep(h)))
    /\ \A s \in Streams :
          /\ WF_serviceVars(Runs(WatchCollects(s)))
          /\ WF_serviceVars(Runs(Receive(s)))
    /\ WF_serviceVars(Runs(Tick \/ BroadcastCurrentState))
    /\ WF_serviceVars(Persists(PersistReceive \/ SaveCreate \/ SaveWrite))
    /\ WF_serviceVars(Serve)
    /\ WF_serviceVars(GracefulStopReturns)

FairServiceSpec == ServiceSpec /\ ServiceFairness

\* GracefulStop hangs for good only because a client stays connected for good or a
\* broadcast is stuck on a channel nobody reads: neither calls in progress, nor the
\* collection loop, nor the persister and its saves keep the process alive.
StopsUnlessHeld ==
    <>[](main = "stopping") =>
        <>Wedged \/ \E s \in Streams : <>[](pc[s] = "stream")

\* What --discovery-state-path promises: when the process is stopped gracefully the
\* state of every registered affiliate is in the file, ready for the next start.
StopKeepsState ==
    [][main = "stopping" /\ main' = "exited" /\ ~Detached =>
          \A k \in ClusterAffiliateID :
              clusterAffiliates[k] # Nil /\ k[2] # EmptyID => Saved(k)]_serviceVars

=============================================================================
