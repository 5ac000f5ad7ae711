------------------------ MODULE DiscoveryService_proofs ------------------------
(***************************************************************************)
(* The process around the discovery server only restricts it: interrupts,  *)
(* os.Exit, a Serve that loses the race with GracefulStop and restarts     *)
(* give the server and its persister no behaviour DiscoveryPersistence     *)
(* does not have, so what is proved there holds in the process.            *)
(***************************************************************************)
EXTENDS DiscoveryService, DiscoveryPersistence_proofs

LEMMA ServiceStep == [ServiceNext]_serviceVars => [PersistNext]_allVars
  BY DEF ServiceNext, Works, Serve, Fails, Interrupt, GracefulStopReturns, Restart,
         PersistNext, serviceVars

\* Every behaviour of the process is, seen from the server and its state file, one of
\* DiscoveryPersistence: main, GracefulStop and restarts touch the server's memory in no
\* other way than a crash does.
THEOREM ProcessImplementsPersistence == ServiceSpec => PersistSpec
  <1>1. ServiceInit => PersistInit
    BY DEF ServiceInit
  <1> QED
    BY <1>1, ServiceStep, PTL DEF ServiceSpec, PersistSpec

\* Whatever point of its life the process is stopped or killed at, the next process has
\* what the persister processed, with the exceptions of Durable: a Save was under way, the
\* last Save or the Load of the process had failed, or the next process cannot read the file.
THEOREM ProcessDurable == ServiceSpec => Durable
  BY ProcessImplementsPersistence, NothingSavedIsLost, PTL

=============================================================================
