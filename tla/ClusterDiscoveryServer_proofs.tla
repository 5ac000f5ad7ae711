-------------------- MODULE ClusterDiscoveryServer_proofs --------------------
(***************************************************************************)
(* Proofs about ClusterDiscoveryServer, for any numbers of handlers and    *)
(* streams, any channel capacity, any time-to-live.                        *)
(***************************************************************************)
EXTENDS ClusterDiscoveryServer, TLAPS

(***************************************************************************)
(* Type correctness needs to know where a handler still has a request, and *)
(* that the holder of the watchers' mutex is in broadcast.                 *)
(***************************************************************************)
HasRequest(h) ==
    \/ pc[h] \in {"collect", "prune", "handle", "reply"}
    \/ pc[h] = "broadcast" /\ ret[h] = "prune"

RequestInv == \A h \in Handlers : HasRequest(h) => req[h] \in Request

HolderInv ==
    /\ mutex # Nil => pc[mutex] = "broadcast"
    /\ \A p \in Procs : ret[p] \in {"idle", "prune"}

Typed == TypeOK /\ RequestInv /\ HolderInv

LEMMA RequestFields ==
    ASSUME NEW r \in Request
    PROVE  /\ r.op = "update" => /\ r.key \in ClusterAffiliateID
                                 /\ r.data \in Data \cup {Nil}
                                 /\ r.endpoints \in SUBSET Endpoint
                                 /\ r.ttl \in Ttls
           /\ r.op = "delete" => r.key \in ClusterAffiliateID
           /\ r.op = "list" => r.cluster \in ClusterID
  BY DEF Request

\* What AffiliateUpdate stores is a well-formed affiliate.
LEMMA UpdatedType ==
    ASSUME NEW r \in Request, r.op = "update",
           NEW old \in ClusterAffiliate \cup {Nil},
           now \in Nat
    PROVE  Updated(old, r) \in ClusterAffiliate
  <1>1. Ttl(r) \in Int
    <2>1. r.ttl \in Int
      BY RequestFields, ConstantsAssumption, Zenon
    <2>2. DefaultTtl \in Int
      BY ConstantsAssumption
    <2> QED
      BY <2>1, <2>2 DEF Ttl
  <1>2. r.key[1] \in ClusterID /\ r.key[2] \in AffiliateID
    BY RequestFields DEF ClusterAffiliateID
  <1>3. /\ r.data \in Data \cup {Nil}
        /\ r.endpoints \in SUBSET Endpoint
    BY RequestFields
  <1>4. old # Nil => /\ old.data \in Data \cup {Nil}
                     /\ old.endpoints \in SUBSET Endpoint
    BY DEF ClusterAffiliate
  <1>5. now + Ttl(r) \in Int
    BY <1>1
  <1> QED
    BY <1>2, <1>3, <1>4, <1>5 DEF Updated, ClusterAffiliate

LEMMA RegisteredType ==
    ASSUME TypeOK
    PROVE  Registered \in SUBSET ClusterAffiliate
  BY DEF TypeOK, Registered

\* What a client is told is the content of affiliates.
LEMMA ToldType ==
    ASSUME NEW v \in [AffiliateID -> Content \cup {Nil}], NEW m \in WatchResponse, NEW c
    PROVE  Told(v, m, c) \in [AffiliateID -> Content \cup {Nil}]
  <1> SUFFICES ASSUME NEW i \in AffiliateID,
                      \E a \in Forwarded(m, c) : a.id = i
               PROVE  LET a == CHOOSE b \in Forwarded(m, c) : b.id = i
                      IN  [data |-> a.data, endpoints |-> a.endpoints] \in Content
    BY DEF Told
  <1> DEFINE a == CHOOSE b \in Forwarded(m, c) : b.id = i
  <1>1. a \in ClusterAffiliate
    BY DEF Forwarded, WatchResponse
  <1> QED
    BY <1>1 DEF ClusterAffiliate, Content

LEMMA InitTyped == Init => Typed
  <1> SUFFICES ASSUME Init PROVE Typed
    OBVIOUS
  <1>1. LoadedMap({}) = [k \in ClusterAffiliateID |-> Nil]
    BY DEF LoadedMap
  <1>2. TypeOK
    BY <1>1, ConstantsAssumption DEF Init, TypeOK, NoMsg, WatchResponse, Control, Procs, Chans
  <1>3. RequestInv
    BY DEF Init, RequestInv, HasRequest, Procs
  <1>4. HolderInv
    BY DEF Init, HolderInv
  <1> QED
    BY <1>2, <1>3, <1>4 DEF Typed

LEMMA NextTyped == Typed /\ [Next]_vars => Typed'
  <1> SUFFICES ASSUME Typed, [Next]_vars PROVE Typed'
    OBVIOUS
  <1> USE ConstantsAssumption DEF Typed, TypeOK, RequestInv, HasRequest, HolderInv, Procs,
          Chans, Control, bcastVars, callVars
  <1>1. ASSUME NEW p \in Procs, BroadcastLock(p) PROVE Typed'
    BY <1>1 DEF BroadcastLock
  <1>2. ASSUME NEW p \in Procs, NEW c \in Chans, BroadcastValue(p, c) PROVE Typed'
    BY <1>2 DEF BroadcastValue
  <1>3. ASSUME NEW p \in Procs, BroadcastSend(p) PROVE Typed'
    BY <1>3 DEF BroadcastSend
  <1>4. ASSUME NEW p \in Procs, BroadcastUnlock(p) PROVE Typed'
    BY <1>4 DEF BroadcastUnlock, Goto, NoMsg, WatchResponse
  <1>5. ASSUME NEW p \in Procs, CollectGarbage(p) PROVE Typed'
    <2>1. Garbage(p) \in SUBSET ClusterAffiliate
      BY RegisteredType DEF Garbage
    <2> DEFINE m == [affiliates |-> Garbage(p), deleted |-> TRUE]
    <2>2. m \in WatchResponse
      BY <2>1 DEF WatchResponse
    <2>3. clusterAffiliates' \in [ClusterAffiliateID -> ClusterAffiliate \cup {Nil}]
      BY <1>5 DEF CollectGarbage
    <2>4. /\ pc[p] = "collect"
          /\ \/ /\ msg' = [msg EXCEPT ![p] = m]
                /\ ret' = [ret EXCEPT ![p] = "prune"]
                /\ pc' = [pc EXCEPT ![p] = "broadcast"]
             \/ pc' = [pc EXCEPT ![p] = "prune"] /\ msg' = msg /\ ret' = ret
          /\ UNCHANGED <<watchers, bcastVars, chan, reclaimed, gcNow, callVars, cluster,
                         view, now>>
      BY <1>5 DEF CollectGarbage, Broadcast, Goto
    <2> HIDE DEF m
    <2>5. TypeOK'
      <3>1. CASE msg' = [msg EXCEPT ![p] = m]
        <4>1. msg' \in [Procs -> WatchResponse]
          BY <2>2, <3>1
        <4>2. ret' \in [Procs -> Control] /\ pc' \in [Procs -> Control]
          BY <2>4
        <4> QED
          BY <2>3, <2>4, <4>1, <4>2
      <3>2. CASE msg' = msg
        BY <2>3, <2>4, <3>2
      <3> QED
        BY <2>4, <3>1, <3>2
    <2>6. RequestInv'
      BY <2>2, <2>3, <2>4
    <2>7. HolderInv'
      BY <2>2, <2>3, <2>4
    <2> QED
      BY <2>5, <2>6, <2>7
  <1>6. ASSUME NEW p \in Procs, PruneWatchers(p) PROVE Typed'
    BY <1>6 DEF PruneWatchers, Goto, AfterCollect
  <1>7. ASSUME NEW h \in Handlers, NEW r \in Request, Call(h, r) PROVE Typed'
    BY <1>7 DEF Call, StartCollect, Goto
  <1>8. ASSUME NEW h \in Handlers, AffiliateUpdate(h) PROVE Typed'
    <2> DEFINE aff == Updated(clusterAffiliates[req[h].key], req[h])
    <2>1. req[h] \in Request /\ req[h].op = "update"
      BY <1>8 DEF AffiliateUpdate
    <2>2. req[h].key \in ClusterAffiliateID
      BY <2>1, RequestFields
    <2>3. aff \in ClusterAffiliate
      BY <2>1, <2>2, UpdatedType
    <2>4. [affiliates |-> {aff}, deleted |-> FALSE] \in WatchResponse
      BY <2>3 DEF WatchResponse
    <2>5. clusterAffiliates' \in [ClusterAffiliateID -> ClusterAffiliate \cup {Nil}]
      BY <1>8, <2>3 DEF AffiliateUpdate
    <2>6. /\ pc[h] = "handle"
          /\ msg' = [msg EXCEPT ![h] = [affiliates |-> {aff}, deleted |-> FALSE]]
          /\ ret' = [ret EXCEPT ![h] = "idle"]
          /\ pc' = [pc EXCEPT ![h] = "broadcast"]
          /\ req' = [req EXCEPT ![h] = Nil]
          /\ gcNow' = [gcNow EXCEPT ![h] = 0]
          /\ UNCHANGED <<watchers, bcastVars, chan, reclaimed, resp, calls, cluster, view, now>>
      BY <1>8 DEF AffiliateUpdate, Broadcast, Goto, Return
    <2> HIDE DEF aff
    <2>7. TypeOK'
      BY <2>4, <2>5, <2>6
    <2>8. RequestInv'
      BY <2>4, <2>5, <2>6
    <2>9. HolderInv'
      BY <2>4, <2>5, <2>6
    <2> QED
      BY <2>7, <2>8, <2>9
  <1>9. ASSUME NEW h \in Handlers, AffiliateDelete(h) PROVE Typed'
    <2> DEFINE aff == clusterAffiliates[req[h].key]
    <2>1. req[h] \in Request /\ req[h].op = "delete"
      BY <1>9 DEF AffiliateDelete
    <2>2. req[h].key \in ClusterAffiliateID
      BY <2>1, RequestFields
    <2> DEFINE m == [affiliates |-> {aff}, deleted |-> TRUE]
    <2>3. aff # Nil => m \in WatchResponse
      BY <2>2 DEF WatchResponse
    <2>4. clusterAffiliates' \in [ClusterAffiliateID -> ClusterAffiliate \cup {Nil}]
      BY <1>9 DEF AffiliateDelete
    <2>5. /\ pc[h] = "handle"
          /\ \/ /\ aff # Nil
                /\ msg' = [msg EXCEPT ![h] = m]
                /\ ret' = [ret EXCEPT ![h] = "idle"]
                /\ pc' = [pc EXCEPT ![h] = "broadcast"]
             \/ pc' = [pc EXCEPT ![h] = "idle"] /\ msg' = msg /\ ret' = ret
          /\ req' = [req EXCEPT ![h] = Nil]
          /\ gcNow' = [gcNow EXCEPT ![h] = 0]
          /\ UNCHANGED <<watchers, bcastVars, chan, reclaimed, resp, calls, cluster, view, now>>
      BY <1>9 DEF AffiliateDelete, Broadcast, Goto, Return
    <2> HIDE DEF aff, m
    <2>6. TypeOK'
      <3>1. CASE /\ aff # Nil
                 /\ msg' = [msg EXCEPT ![h] = m]
                 /\ ret' = [ret EXCEPT ![h] = "idle"]
                 /\ pc' = [pc EXCEPT ![h] = "broadcast"]
        <4>1. msg' \in [Procs -> WatchResponse]
          BY <2>3, <3>1
        <4>2. ret' \in [Procs -> Control] /\ pc' \in [Procs -> Control]
          BY <3>1
        <4>3. req' \in [Handlers -> Request \cup {Nil}] /\ gcNow' \in [Procs -> Nat]
          BY <2>5
        <4>4. UNCHANGED <<watchers, bcastVars, chan, reclaimed, resp, calls, cluster, view, now>>
          BY <2>5
        <4> QED
          BY <2>4, <4>1, <4>2, <4>3, <4>4
      <3>2. CASE pc' = [pc EXCEPT ![h] = "idle"] /\ msg' = msg /\ ret' = ret
        <4>1. req' \in [Handlers -> Request \cup {Nil}] /\ gcNow' \in [Procs -> Nat]
          BY <2>5
        <4>2. UNCHANGED <<watchers, bcastVars, chan, reclaimed, resp, calls, cluster, view, now>>
          BY <2>5
        <4> QED
          BY <2>4, <3>2, <4>1, <4>2
      <3> QED
        BY <2>5, <3>1, <3>2
    <2>7. RequestInv'
      BY <2>3, <2>4, <2>5
    <2>8. HolderInv'
      BY <2>3, <2>4, <2>5
    <2> QED
      BY <2>6, <2>7, <2>8
  <1>10. ASSUME NEW h \in Handlers, List(h) PROVE Typed'
    BY <1>10 DEF List, Goto
  <1>11. ASSUME NEW h \in Handlers, ListReply(h) PROVE Typed'
    BY <1>11 DEF ListReply, Return, Goto
  <1>12. ASSUME Tick PROVE Typed'
    BY <1>12 DEF Tick, StartCollect, Goto
  <1>13. ASSUME BroadcastCurrentState PROVE Typed'
    <2> DEFINE m == [affiliates |-> Registered, deleted |-> FALSE]
    <2>1. m \in WatchResponse
      BY RegisteredType DEF WatchResponse
    <2>2. /\ pc[GC] = "snapshot"
          /\ \/ /\ msg' = [msg EXCEPT ![GC] = m]
                /\ ret' = [ret EXCEPT ![GC] = "idle"]
                /\ pc' = [pc EXCEPT ![GC] = "broadcast"]
             \/ pc' = [pc EXCEPT ![GC] = "idle"] /\ msg' = msg /\ ret' = ret
          /\ UNCHANGED <<clusterAffiliates, watchers, bcastVars, chan, reclaimed, gcNow,
                         callVars, cluster, view, now>>
      BY <1>13 DEF BroadcastCurrentState, Broadcast, Goto
    <2> HIDE DEF m
    <2>3. TypeOK'
      BY <2>1, <2>2
    <2>4. RequestInv'
      BY <2>1, <2>2
    <2>5. HolderInv'
      BY <2>1, <2>2
    <2> QED
      BY <2>3, <2>4, <2>5
  <1>14. ASSUME NEW s \in Streams, NEW c \in ClusterID, Watch(s, c) PROVE Typed'
    BY <1>14 DEF Watch, Goto
  <1>14a. ASSUME NEW s \in Streams, WatchCollects(s) PROVE Typed'
    BY <1>14a DEF WatchCollects, StartCollect, Goto
  <1>15. ASSUME NEW s \in Streams, Receive(s) PROVE Typed'
    <2>1. Head(chan[s]) \in WatchResponse /\ Tail(chan[s]) \in Seq(WatchResponse)
      BY <1>15 DEF Receive
    <2>2. Told(view[s], Head(chan[s]), cluster[s]) \in [AffiliateID -> Content \cup {Nil}]
      BY <2>1, ToldType
    <2> QED
      BY <1>15, <2>1, <2>2 DEF Receive
  <1>16. ASSUME NEW s \in Streams, SendFails(s) PROVE Typed'
    BY <1>16 DEF SendFails, Goto
  <1>17. ASSUME NEW s \in Streams, WatchEnds(s) PROVE Typed'
    BY <1>17 DEF WatchEnds, Goto
  <1>18. ASSUME PersisterReceive PROVE Typed'
    BY <1>18 DEF PersisterReceive
  <1>19. ASSUME GoGC PROVE Typed'
    BY <1>19 DEF GoGC
  <1>20. ASSUME TimePasses PROVE Typed'
    BY <1>20 DEF TimePasses
  <1>21. ASSUME UNCHANGED vars PROVE Typed'
    BY <1>21 DEF vars
  <1> QED
    BY <1>1, <1>2, <1>3, <1>4, <1>5, <1>6, <1>7, <1>8, <1>9, <1>10, <1>11, <1>12,
       <1>13, <1>14, <1>14a, <1>15, <1>16, <1>17, <1>18, <1>19, <1>20, <1>21
    DEF Next, ServerNext, BroadcastGoesOn, HandlerStep, StreamStep

\* Every variable has its type in every reachable state: among others, every message
\* in a channel and every entry of the map is a well-formed affiliate, and goroutines
\* only ever jump to control states that exist.
THEOREM TypeCorrect == Spec => []TypeOK
  <1>1. Typed => TypeOK
    BY DEF Typed
  <1> QED
    BY <1>1, InitTyped, NextTyped, PTL DEF Spec

-----------------------------------------------------------------------------
(***************************************************************************)
(* The watchers' mutex.  A broadcast is in progress only while the mutex   *)
(* is held, and a Watch gets into its loop only by taking the mutex.       *)
(***************************************************************************)
LockInv ==
    /\ mutex = Nil => todo = {} /\ target = Nil
    /\ todo \subseteq watchers
    /\ target # Nil => target \in watchers

LEMMA InitLock == Init => LockInv
  BY DEF Init, LockInv

LEMMA NextLock == Typed /\ LockInv /\ [Next]_vars => LockInv'
  <1> SUFFICES ASSUME Typed, LockInv, [Next]_vars PROVE LockInv'
    OBVIOUS
  <1> USE DEF LockInv, bcastVars, callVars
  <1>0. Nil \notin Procs /\ Nil \notin Chans
    BY ConstantsAssumption
  <1>1. ASSUME NEW p \in Procs, BroadcastLock(p) PROVE LockInv'
    BY <1>0, <1>1 DEF BroadcastLock
  <1>2. ASSUME NEW p \in Procs, NEW c \in Chans, BroadcastValue(p, c) PROVE LockInv'
    BY <1>0, <1>2 DEF BroadcastValue
  <1>3. ASSUME NEW p \in Procs, BroadcastSend(p) PROVE LockInv'
    BY <1>0, <1>3 DEF BroadcastSend
  <1>4. ASSUME NEW p \in Procs, BroadcastUnlock(p) PROVE LockInv'
    BY <1>4 DEF BroadcastUnlock
  <1>5. ASSUME NEW p \in Procs, PruneWatchers(p) PROVE LockInv'
    BY <1>5 DEF PruneWatchers
  <1>6. ASSUME NEW s \in Streams, NEW c \in ClusterID, Watch(s, c) PROVE LockInv'
    BY <1>6 DEF Watch
  <1>7. ASSUME UNCHANGED <<watchers, bcastVars>> PROVE LockInv'
    BY <1>7
  <1>8. \/ UNCHANGED <<watchers, bcastVars>>
        \/ \E p \in Procs : \/ BroadcastLock(p)
                            \/ \E c \in Chans : BroadcastValue(p, c)
                            \/ BroadcastSend(p)
                            \/ BroadcastUnlock(p)
                            \/ PruneWatchers(p)
        \/ \E s \in Streams, c \in ClusterID : Watch(s, c)
    BY DEF Next, ServerNext, BroadcastGoesOn, HandlerStep, StreamStep, CollectGarbage, Call,
           AffiliateUpdate, AffiliateDelete, List, ListReply, Tick, BroadcastCurrentState,
           WatchCollects, Receive, SendFails, WatchEnds, PersisterReceive, GoGC, TimePasses, vars
  <1> QED
    BY <1>1, <1>2, <1>3, <1>4, <1>5, <1>6, <1>7, <1>8

\* In a wedged state no step makes room in the channel or moves the stream.
LEMMA WedgeStep == Typed /\ LockInv /\ Wedged /\ [Next]_vars => Wedged'
  <1> SUFFICES ASSUME Typed, LockInv, Wedged, [Next]_vars PROVE Wedged'
    OBVIOUS
  <1> USE DEF Wedged, bcastVars, callVars
  <1>1. target \in Streams /\ target # Nil /\ mutex # Nil /\ target # Persister
        /\ target \in Procs
    BY ConstantsAssumption DEF LockInv, Procs, Chans
  <1>2. chan \in [Chans -> Seq(WatchResponse)] /\ pc \in [Procs -> Control]
    BY DEF Typed, TypeOK
  <1>3. target' = target /\ chan'[target] = chan[target] /\ pc'[target] # "stream"
        => Wedged'
    BY <1>1
  <1>4. ASSUME NEW p \in Procs, CollectGarbage(p) PROVE Wedged'
    BY <1>1, <1>2, <1>3, <1>4 DEF CollectGarbage, Broadcast, Goto
  <1>5. ASSUME NEW h \in Handlers, HandlerStep(h) PROVE Wedged'
    <2>1. h # target /\ h \in Procs
      BY <1>1, ConstantsAssumption DEF Procs
    <2> QED
      BY <1>1, <1>2, <1>3, <1>5, <2>1 DEF HandlerStep, AffiliateUpdate, AffiliateDelete, List,
         ListReply, Broadcast, Goto
  <1>6. ASSUME NEW h \in Handlers, NEW r \in Request, Call(h, r) PROVE Wedged'
    BY <1>1, <1>2, <1>3, <1>6, ConstantsAssumption DEF Call, StartCollect, Goto, Procs
  <1>7. ASSUME Tick \/ BroadcastCurrentState PROVE Wedged'
    <2>1. GC # target /\ GC \in Procs
      BY <1>1, ConstantsAssumption DEF Procs
    <2> QED
      BY <1>1, <1>2, <1>3, <1>7, <2>1 DEF Tick, BroadcastCurrentState, StartCollect, Broadcast, Goto
  <1>8a. ASSUME NEW s \in Streams, WatchCollects(s) PROVE Wedged'
    BY <1>1, <1>2, <1>3, <1>8a DEF WatchCollects, StartCollect, Goto
  <1>8. ASSUME NEW s \in Streams, StreamStep(s), ~WatchCollects(s) PROVE Wedged'
    <2>1. s # target /\ s \in Chans /\ s \in Procs
      BY <1>1, <1>8 DEF StreamStep, Receive, SendFails, WatchEnds, Chans, Procs
    <2>2. CASE Receive(s)
      BY <1>1, <1>2, <1>3, <2>1, <2>2 DEF Receive, Chans
    <2>3. CASE SendFails(s)
      <3>1. /\ chan' = [chan EXCEPT ![s] = Tail(@)]
            /\ pc' = [pc EXCEPT ![s] = "returned"]
            /\ target' = target
        BY <2>3 DEF SendFails, Goto
      <3> QED
        BY <1>1, <1>2, <1>3, <2>1, <3>1 DEF Chans
    <2>4. CASE WatchEnds(s)
      BY <1>1, <1>2, <1>3, <2>1, <2>4 DEF WatchEnds, Goto
    <2> QED
      BY <1>8, <2>2, <2>3, <2>4 DEF StreamStep
  <1>9. ASSUME PersisterReceive PROVE Wedged'
    BY <1>1, <1>2, <1>3, <1>9 DEF PersisterReceive, Chans
  <1>10. ASSUME UNCHANGED <<target, chan, pc>> PROVE Wedged'
    BY <1>3, <1>10
  <1>11. ASSUME NEW p \in Procs PROVE ~BroadcastLock(p) /\ ~PruneWatchers(p)
    BY <1>1 DEF BroadcastLock, PruneWatchers
  <1>12. ASSUME NEW p \in Procs PROVE ~BroadcastGoesOn(p)
    BY <1>1 DEF BroadcastGoesOn, BroadcastValue, BroadcastSend, BroadcastUnlock
  <1>13. ASSUME NEW s \in Streams, NEW c \in ClusterID PROVE ~Watch(s, c)
    BY <1>1 DEF Watch
  <1>14. ASSUME GoGC \/ TimePasses \/ UNCHANGED vars PROVE UNCHANGED <<target, chan, pc>>
    BY <1>14 DEF GoGC, TimePasses, vars
  <1> QED
    BY <1>4, <1>5, <1>6, <1>7, <1>8, <1>8a, <1>9, <1>10, <1>11, <1>12, <1>13, <1>14
    DEF Next, ServerNext

\* The server never recovers from a broadcast that is stuck on the channel of a stream
\* that does not read: with any number of goroutines and any channel capacity.
THEOREM WedgePermanent == Spec => WedgeIsPermanent
  <1>1. Typed /\ LockInv /\ [Next]_vars => [Wedged => Wedged']_vars
    BY WedgeStep
  <1> QED
    BY <1>1, InitTyped, NextTyped, InitLock, NextLock, PTL DEF Spec, WedgeIsPermanent

-----------------------------------------------------------------------------
(***************************************************************************)
(* Expiry.  The time collectGarbage works with is never ahead of the       *)
(* clock, and what enters the map afterwards was written no earlier.       *)
(***************************************************************************)
TimeInv == \A p \in Procs : gcNow[p] <= now

LEMMA InitTime == Init => TimeInv
  BY DEF Init, TimeInv

LEMMA NextTime == Typed /\ TimeInv /\ [Next]_vars => TimeInv'
  <1> SUFFICES ASSUME Typed, TimeInv, [Next]_vars PROVE TimeInv'
    OBVIOUS
  <1>1. now \in Nat /\ gcNow \in [Procs -> Nat]
    BY DEF Typed, TypeOK
  <1>2. \/ now' = now /\ gcNow' = gcNow
        \/ now' = now + 1 /\ gcNow' = gcNow
        \/ now' = now /\ \E p \in Procs : gcNow' = [gcNow EXCEPT ![p] = now]
        \/ now' = now /\ \E p \in Procs : gcNow' = [gcNow EXCEPT ![p] = 0]
    BY DEF Next, ServerNext, BroadcastLock, BroadcastGoesOn, BroadcastValue, BroadcastSend,
           BroadcastUnlock, CollectGarbage, PruneWatchers, HandlerStep, AffiliateUpdate,
           AffiliateDelete, List, ListReply, Return, Call, Tick, BroadcastCurrentState,
           StreamStep, WatchCollects, Receive, SendFails, WatchEnds, Watch, StartCollect, PersisterReceive,
           GoGC, TimePasses, vars, Procs
  <1> QED
    BY <1>1, <1>2 DEF TimeInv

\* Nothing that map f has had since before time t has expired at t.
FreshIn(f, t) ==
    \A k \in ClusterAffiliateID :
        f[k] # Nil /\ Expired(f[k], t) => f[k].writtenAt >= t

\* The actions that change the map.
LEMMA MapChanges ==
    [Next]_vars => \/ clusterAffiliates' = clusterAffiliates
                   \/ \E p \in Procs : CollectGarbage(p)
                   \/ \E h \in Handlers : AffiliateUpdate(h) \/ AffiliateDelete(h)
  BY DEF Next, ServerNext, BroadcastLock, BroadcastGoesOn, BroadcastValue, BroadcastSend,
         BroadcastUnlock, PruneWatchers, HandlerStep, List, ListReply, Call, Tick,
         BroadcastCurrentState, StreamStep, WatchCollects, Receive, SendFails, WatchEnds, Watch,
         PersisterReceive, GoGC, TimePasses, vars

LEMMA MapStaysFresh ==
    ASSUME Typed, [Next]_vars, NEW t \in Nat, t <= now,
           FreshIn(clusterAffiliates, t)
    PROVE  FreshIn(clusterAffiliates', t)
  <1>1. CASE clusterAffiliates' = clusterAffiliates
    BY <1>1
  <1>2. ASSUME NEW p \in Procs, CollectGarbage(p) PROVE FreshIn(clusterAffiliates', t)
    BY <1>2 DEF CollectGarbage, FreshIn
  <1>3. ASSUME NEW h \in Handlers, AffiliateUpdate(h)
        PROVE  FreshIn(clusterAffiliates', t)
    <2> DEFINE aff == Updated(clusterAffiliates[req[h].key], req[h])
    <2>1. req[h] \in Request /\ req[h].op = "update" /\ now \in Nat
      BY <1>3 DEF AffiliateUpdate, Typed, TypeOK, RequestInv, HasRequest
    <2>4. aff.writtenAt >= t
      BY <2>1 DEF Updated
    <2>5. clusterAffiliates' = [clusterAffiliates EXCEPT ![req[h].key] = aff]
      BY <1>3 DEF AffiliateUpdate
    <2>6. clusterAffiliates \in [ClusterAffiliateID -> ClusterAffiliate \cup {Nil}]
      BY DEF Typed, TypeOK
    <2> HIDE DEF aff
    <2> QED
      BY <2>4, <2>5, <2>6 DEF FreshIn
  <1>4. ASSUME NEW h \in Handlers, AffiliateDelete(h)
        PROVE  FreshIn(clusterAffiliates', t)
    BY <1>4 DEF AffiliateDelete, FreshIn, Typed, TypeOK
  <1> QED
    BY <1>1, <1>2, <1>3, <1>4, MapChanges

\* collectGarbage takes everything that has expired at its time out of the map.
LEMMA Collected ==
    ASSUME Typed, NEW p \in Procs, CollectGarbage(p)
    PROVE  FreshIn(clusterAffiliates', gcNow[p])
  <1> SUFFICES ASSUME NEW k \in ClusterAffiliateID, clusterAffiliates'[k] # Nil
               PROVE  ~Expired(clusterAffiliates'[k], gcNow[p])
    BY DEF FreshIn
  <1>1. clusterAffiliates'[k] = clusterAffiliates[k] /\ clusterAffiliates[k] \notin Garbage(p)
    BY DEF CollectGarbage
  <1>2. clusterAffiliates[k] \in Registered
    BY <1>1 DEF Registered
  <1> QED
    BY <1>1, <1>2 DEF Garbage

\* A handler that has been through collectGarbage.
Swept(h) ==
    \/ pc[h] \in {"prune", "handle"}
    \/ pc[h] = "broadcast" /\ ret[h] = "prune"

FreshInv ==
    \A h \in Handlers : Swept(h) => FreshIn(clusterAffiliates, gcNow[h])

LEMMA InitFresh == Init => FreshInv /\ ListFresh
  BY DEF Init, FreshInv, Swept, ListFresh, Procs

\* A handler gets swept by collectGarbage only; until it is done with its request it
\* keeps the time it has read.
LEMMA SweptStep ==
    ASSUME Typed, [Next]_vars, NEW h \in Handlers, Swept(h)'
    PROVE  \/ CollectGarbage(h) /\ gcNow'[h] = gcNow[h]
           \/ Swept(h) /\ gcNow'[h] = gcNow[h]
  <1> USE DEF Swept
  <1>0. /\ h \in Procs /\ h # GC /\ h \notin Streams
        /\ pc \in [Procs -> Control] /\ gcNow \in [Procs -> Nat] /\ ret \in [Procs -> Control]
    BY ConstantsAssumption DEF Procs, Typed, TypeOK
  <1>1. ASSUME NEW p \in Procs, BroadcastLock(p) \/ BroadcastSend(p) PROVE Swept(h) /\ gcNow'[h] = gcNow[h]
    BY <1>1 DEF BroadcastLock, BroadcastSend
  <1>1a. ASSUME NEW p \in Procs, NEW c \in Chans, BroadcastValue(p, c) PROVE Swept(h) /\ gcNow'[h] = gcNow[h]
    BY <1>1a DEF BroadcastValue
  <1>2. ASSUME NEW p \in Procs, BroadcastUnlock(p) PROVE Swept(h) /\ gcNow'[h] = gcNow[h]
    <2>1. p = mutex /\ mutex # Nil
      BY <1>2, ConstantsAssumption DEF BroadcastUnlock
    <2>2. pc[p] = "broadcast" /\ ret[p] \in {"idle", "prune"}
      BY <2>1 DEF Typed, HolderInv
    <2> QED
      BY <1>0, <1>2, <2>2 DEF BroadcastUnlock, Goto
  <1>3. ASSUME NEW p \in Procs, CollectGarbage(p)
        PROVE  gcNow'[h] = gcNow[h] /\ (p = h \/ Swept(h))
    <2>1. gcNow' = gcNow
      BY <1>3 DEF CollectGarbage
    <2>2. p # h => pc'[h] = pc[h] /\ ret'[h] = ret[h]
      BY <1>0, <1>3 DEF CollectGarbage, Broadcast, Goto
    <2> QED
      BY <2>1, <2>2
  <1>4. ASSUME NEW p \in Procs, PruneWatchers(p) PROVE Swept(h) /\ gcNow'[h] = gcNow[h]
    BY <1>0, <1>4 DEF PruneWatchers, Goto
  <1>5. ASSUME NEW g \in Handlers, AffiliateUpdate(g) \/ AffiliateDelete(g)
        PROVE  Swept(h) /\ gcNow'[h] = gcNow[h]
    <2>1. g \in Procs
      BY DEF Procs
    <2>2. g # h
      BY <1>0, <1>5, <2>1 DEF AffiliateUpdate, AffiliateDelete, Broadcast, Goto
    <2>3. pc'[h] = pc[h] /\ ret'[h] = ret[h] /\ gcNow'[h] = gcNow[h]
      BY <1>0, <1>5, <2>1, <2>2 DEF AffiliateUpdate, AffiliateDelete, Broadcast, Goto, Return
    <2> QED
      BY <2>3
  <1>6. ASSUME NEW g \in Handlers, List(g) \/ ListReply(g)
        PROVE  Swept(h) /\ gcNow'[h] = gcNow[h]
    BY <1>0, <1>6 DEF List, ListReply, Goto, Return, Procs
  <1>7. ASSUME NEW g \in Handlers, NEW r \in Request, Call(g, r)
        PROVE  Swept(h) /\ gcNow'[h] = gcNow[h]
    BY <1>0, <1>7 DEF Call, StartCollect, Goto, Procs
  <1>8. ASSUME Tick PROVE Swept(h) /\ gcNow'[h] = gcNow[h]
    BY <1>0, <1>8 DEF Tick, StartCollect, Goto, Procs
  <1>9. ASSUME BroadcastCurrentState PROVE Swept(h) /\ gcNow'[h] = gcNow[h]
    <2>1. pc'[h] = pc[h] /\ ret'[h] = ret[h] /\ gcNow'[h] = gcNow[h]
      BY <1>0, <1>9 DEF BroadcastCurrentState, Broadcast, Goto, Procs
    <2> QED
      BY <2>1
  <1>10. ASSUME NEW s \in Streams, StreamStep(s) \/ \E c \in ClusterID : Watch(s, c)
         PROVE  Swept(h) /\ gcNow'[h] = gcNow[h]
    <2>1. s # h /\ s \in Procs
      BY <1>0 DEF Procs
    <2>2. pc'[h] = pc[h] /\ ret'[h] = ret[h] /\ gcNow'[h] = gcNow[h]
      BY <1>0, <1>10, <2>1 DEF StreamStep, WatchCollects, Receive, SendFails, WatchEnds, Watch,
         StartCollect, Goto
    <2> QED
      BY <2>2
  <1>11. ASSUME PersisterReceive \/ GoGC \/ TimePasses \/ UNCHANGED vars
         PROVE  Swept(h) /\ gcNow'[h] = gcNow[h]
    BY <1>11 DEF PersisterReceive, GoGC, TimePasses, vars
  <1> HIDE DEF Swept
  <1>12. ASSUME NEW p \in Procs, BroadcastGoesOn(p) PROVE Swept(h) /\ gcNow'[h] = gcNow[h]
    BY <1>1, <1>1a, <1>2, <1>12 DEF BroadcastGoesOn
  <1>13. ASSUME NEW g \in Handlers, HandlerStep(g) PROVE Swept(h) /\ gcNow'[h] = gcNow[h]
    BY <1>5, <1>6, <1>13 DEF HandlerStep
  <1>14. ASSUME NEW p \in Procs, CollectGarbage(p)
         PROVE  \/ CollectGarbage(h) /\ gcNow'[h] = gcNow[h]
                \/ Swept(h) /\ gcNow'[h] = gcNow[h]
    BY <1>3, <1>14
  <1> QED
    BY <1>1, <1>4, <1>7, <1>8, <1>9, <1>10, <1>11, <1>12, <1>13, <1>14 DEF Next, ServerNext

LEMMA NextFresh == Typed /\ TimeInv /\ FreshInv /\ [Next]_vars => FreshInv'
  <1> SUFFICES ASSUME Typed, TimeInv, FreshInv, [Next]_vars,
                      NEW h \in Handlers, Swept(h)'
               PROVE  FreshIn(clusterAffiliates', gcNow'[h])
    BY DEF FreshInv
  <1>1. h \in Procs /\ gcNow[h] \in Nat /\ gcNow[h] <= now
    BY DEF Typed, TypeOK, TimeInv, Procs
  <1>2. CASE CollectGarbage(h) /\ gcNow'[h] = gcNow[h]
    BY <1>1, <1>2, Collected
  <1>3. CASE Swept(h) /\ gcNow'[h] = gcNow[h]
    BY <1>1, <1>3, MapStaysFresh DEF FreshInv
  <1> QED
    BY <1>2, <1>3, SweptStep

\* A handler that has its answer keeps it, and the time it was swept at, until it returns.
LEMMA ReplyStep ==
    ASSUME Typed, [Next]_vars, NEW h \in Handlers, pc'[h] = "reply"
    PROVE  \/ List(h)
           \/ pc[h] = "reply" /\ resp'[h] = resp[h] /\ gcNow'[h] = gcNow[h]
  <1> DEFINE Same == pc[h] = "reply" /\ resp'[h] = resp[h] /\ gcNow'[h] = gcNow[h]
  <1>0. /\ h \in Procs /\ h # GC /\ h \notin Streams
        /\ pc \in [Procs -> Control] /\ gcNow \in [Procs -> Nat]
        /\ resp \in [Handlers -> SUBSET ClusterAffiliate]
    BY ConstantsAssumption DEF Procs, Typed, TypeOK
  <1>1. ASSUME NEW p \in Procs, BroadcastLock(p) \/ BroadcastSend(p) PROVE Same
    BY <1>1 DEF BroadcastLock, BroadcastSend, callVars
  <1>1a. ASSUME NEW p \in Procs, NEW c \in Chans, BroadcastValue(p, c) PROVE Same
    BY <1>1a DEF BroadcastValue, callVars
  <1>2. ASSUME NEW p \in Procs, BroadcastUnlock(p) PROVE Same
    <2>1. p = mutex /\ mutex # Nil
      BY <1>2, ConstantsAssumption DEF BroadcastUnlock
    <2>2. ret[p] \in {"idle", "prune"}
      BY DEF Typed, HolderInv
    <2> QED
      BY <1>0, <1>2, <2>2 DEF BroadcastUnlock, Goto, callVars
  <1>3. ASSUME NEW p \in Procs, CollectGarbage(p) PROVE Same
    <2>1. pc'[p] \in {"broadcast", "prune"} /\ pc' = [pc EXCEPT ![p] = pc'[p]]
      BY <1>0, <1>3 DEF CollectGarbage, Broadcast, Goto
    <2>2. resp' = resp /\ gcNow' = gcNow
      BY <1>3 DEF CollectGarbage, callVars
    <2> QED
      BY <1>0, <2>1, <2>2
  <1>4. ASSUME NEW p \in Procs, PruneWatchers(p) PROVE Same
    <2>1. p # h
      BY <1>0, <1>4 DEF PruneWatchers, Goto, AfterCollect
    <2> QED
      BY <1>0, <1>4, <2>1 DEF PruneWatchers, Goto, callVars
  <1>5. ASSUME NEW g \in Handlers, AffiliateUpdate(g) \/ AffiliateDelete(g) PROVE Same
    <2>1. g \in Procs
      BY DEF Procs
    <2>2. g # h
      BY <1>0, <1>5, <2>1 DEF AffiliateUpdate, AffiliateDelete, Broadcast, Goto
    <2> QED
      BY <1>0, <1>5, <2>1, <2>2 DEF AffiliateUpdate, AffiliateDelete, Broadcast, Goto, Return
  <1>6. ASSUME NEW g \in Handlers, List(g) \/ ListReply(g), ~List(h) PROVE Same
    <2>1. g \in Procs
      BY DEF Procs
    <2>2. g # h
      BY <1>0, <1>6, <2>1 DEF ListReply, Goto
    <2> QED
      BY <1>0, <1>6, <2>1, <2>2 DEF List, ListReply, Goto, Return
  <1>7. ASSUME NEW g \in Handlers, NEW r \in Request, Call(g, r) PROVE Same
    BY <1>0, <1>7 DEF Call, StartCollect, Goto, Procs
  <1>8. ASSUME Tick PROVE Same
    BY <1>0, <1>8 DEF Tick, StartCollect, Goto, Procs, callVars
  <1>9. ASSUME BroadcastCurrentState PROVE Same
    BY <1>0, <1>9 DEF BroadcastCurrentState, Broadcast, Goto, Procs, callVars
  <1>10. ASSUME NEW s \in Streams, StreamStep(s) \/ \E c \in ClusterID : Watch(s, c)
         PROVE  Same
    <2>1. s # h /\ s \in Procs
      BY <1>0 DEF Procs
    <2> QED
      BY <1>0, <1>10, <2>1 DEF StreamStep, WatchCollects, Receive, SendFails, WatchEnds, Watch,
         StartCollect, Goto, callVars
  <1>11. ASSUME PersisterReceive \/ GoGC \/ TimePasses \/ UNCHANGED vars PROVE Same
    BY <1>11 DEF PersisterReceive, GoGC, TimePasses, vars, callVars
  <1> HIDE DEF Same
  <1>12. ASSUME NEW p \in Procs, BroadcastGoesOn(p) PROVE Same
    BY <1>1, <1>1a, <1>2, <1>12 DEF BroadcastGoesOn
  <1>13. ASSUME NEW g \in Handlers, HandlerStep(g) PROVE List(h) \/ Same
    BY <1>5, <1>6, <1>13 DEF HandlerStep
  <1>14. List(h) \/ Same
    BY <1>1, <1>3, <1>4, <1>7, <1>8, <1>9, <1>10, <1>11, <1>12, <1>13 DEF Next, ServerNext
  <1> QED
    BY <1>14 DEF Same

\* List reads the map of a swept handler.
LEMMA NextListFresh == Typed /\ FreshInv /\ ListFresh /\ [Next]_vars => ListFresh'
  <1> SUFFICES ASSUME Typed, FreshInv, ListFresh, [Next]_vars,
                      NEW h \in Handlers, pc'[h] = "reply",
                      NEW a \in resp'[h], Expired(a, gcNow'[h])
               PROVE  a.writtenAt >= gcNow'[h]
    BY DEF ListFresh
  <1>1. CASE List(h)
    <2>1. FreshIn(clusterAffiliates, gcNow[h]) /\ gcNow' = gcNow
      BY <1>1 DEF List, FreshInv, Swept
    <2>2. \E k \in ClusterAffiliateID : clusterAffiliates[k] # Nil /\ a = clusterAffiliates[k]
      BY <1>1 DEF List, Typed, TypeOK
    <2> QED
      BY <2>1, <2>2 DEF FreshIn
  <1>2. CASE pc[h] = "reply" /\ resp'[h] = resp[h] /\ gcNow'[h] = gcNow[h]
    BY <1>2 DEF ListFresh
  <1> QED
    BY <1>1, <1>2, ReplyStep

\* For any TTLs, negative ones included, and however many other requests change the map
\* between the collectGarbage of a List and its read: an affiliate in the answer that had
\* expired when the List arrived was only registered since.
THEOREM ListAlwaysFresh == Spec => []ListFresh
  <1> QED
    BY InitTyped, NextTyped, InitTime, NextTime, InitFresh, NextFresh, NextListFresh, PTL DEF Spec

\* A step that empties an entry of the map.
LEMMA EntryLeaves ==
    ASSUME Typed, TimeInv, [Next]_vars,
           NEW k \in ClusterAffiliateID, clusterAffiliates[k] # Nil, clusterAffiliates'[k] = Nil
    PROVE  \/ Expired(clusterAffiliates[k], now)
           \/ \E h \in Handlers : /\ pc[h] = "handle" /\ pc'[h] # "handle"
                                   /\ req[h].op = "delete" /\ req[h].key = k
  <1>0. /\ clusterAffiliates \in [ClusterAffiliateID -> ClusterAffiliate \cup {Nil}]
        /\ pc \in [Procs -> Control]
    BY DEF Typed, TypeOK
  <1>1. ASSUME NEW p \in Procs, CollectGarbage(p) PROVE Expired(clusterAffiliates[k], now)
    <2>1. clusterAffiliates[k] \in Garbage(p)
      BY <1>1 DEF CollectGarbage
    <2>2. gcNow[p] > clusterAffiliates[k].removeAfter
      BY <2>1 DEF Garbage, Expired
    <2>3. /\ gcNow[p] <= now /\ gcNow[p] \in Nat /\ now \in Nat
          /\ clusterAffiliates[k].removeAfter \in Int
      BY <1>0 DEF TimeInv, Typed, TypeOK, ClusterAffiliate
    <2> QED
      BY <2>2, <2>3 DEF Expired
  <1>2. ASSUME NEW h \in Handlers, AffiliateUpdate(h) PROVE FALSE
    <2>1. req[h] \in Request /\ req[h].op = "update" /\ now \in Nat
      BY <1>2 DEF AffiliateUpdate, Typed, TypeOK, RequestInv, HasRequest
    <2>2. clusterAffiliates[req[h].key] \in ClusterAffiliate \cup {Nil}
      BY <1>0, <2>1, RequestFields
    <2>3. Updated(clusterAffiliates[req[h].key], req[h]) # Nil
      BY <2>1, <2>2, UpdatedType, NilAssumption
    <2> QED
      BY <1>0, <1>2, <2>3 DEF AffiliateUpdate
  <1>3. ASSUME NEW h \in Handlers, AffiliateDelete(h)
        PROVE  /\ pc[h] = "handle" /\ pc'[h] # "handle"
               /\ req[h].op = "delete" /\ req[h].key = k
    <2>1. h \in Procs
      BY DEF Procs
    <2>2. pc[h] = "handle" /\ req[h].op = "delete" /\ pc'[h] \in {"broadcast", "idle"}
      BY <1>0, <1>3, <2>1 DEF AffiliateDelete, Broadcast, Goto
    <2>3. clusterAffiliates' = [clusterAffiliates EXCEPT ![req[h].key] = Nil]
      BY <1>3 DEF AffiliateDelete
    <2> QED
      BY <1>0, <2>2, <2>3
  <1> QED
    BY <1>1, <1>2, <1>3, MapChanges

\* No entry is collected before its deadline: a refresh that slips in between the moment
\* collectGarbage reads the time and the moment it takes the map is never lost.
THEOREM NothingExpiresEarly == Spec => NoEarlyExpiry
  <1> DEFINE Leaves ==
        \A k \in ClusterAffiliateID :
          clusterAffiliates[k] # Nil /\ clusterAffiliates'[k] = Nil =>
              \/ Expired(clusterAffiliates[k], now)
              \/ \E h \in Handlers :
                    /\ pc[h] = "handle" /\ pc'[h] # "handle"
                    /\ req[h].op = "delete" /\ req[h].key = k
  <1>1. Typed /\ TimeInv /\ [Next]_vars => [Leaves]_vars
    BY EntryLeaves
  <1>2. Spec => [][Leaves]_vars
    <2> HIDE DEF Leaves
    <2> QED
      BY <1>1, InitTyped, NextTyped, InitTime, NextTime, PTL DEF Spec
  <1> QED
    BY <1>2 DEF NoEarlyExpiry

=============================================================================
