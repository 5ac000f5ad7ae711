------------------------ MODULE ClusterDiscoveryServer ------------------------
(***************************************************************************)
(* The in-memory part of the Talos discovery service,                      *)
(* internal/discovery/cluster_discovery_server.go.                         *)
(*                                                                         *)
(* Goroutines: one per unary RPC (Handlers), one per Watch call (Streams), *)
(* the garbage collection loop (GC) and the state persister (Persister).   *)
(* They share two mutex-protected values: the affiliate map, whose         *)
(* critical sections never block and are one step here, and the list of    *)
(* watcher channels, whose mutex is held across blocking channel sends and *)
(* is therefore an explicit variable.                                      *)
(*                                                                         *)
(* Watchers are held through weak pointers to the variable that holds the  *)
(* channel, so the Go runtime decides when a watcher disappears (GoGC).    *)
(***************************************************************************)
EXTENDS Integers, Sequences

CONSTANTS
    ClusterID, AffiliateID,   \* identifiers clients use
    Data, Endpoint,           \* affiliate payloads
    Handlers,                 \* goroutines that serve unary RPCs
    Streams,                  \* Watch calls, each served by its own goroutine
    GC, Persister,            \* the two background goroutines
    Ttls,                     \* TTLs in requests: 0 stands for a missing one, and
                              \* negative ones are accepted
    DefaultTtl,               \* 15 minutes in the code
    ChanCap,                  \* capacity of a watcher channel, 1024 in the code
    MaxTime, MaxCalls,        \* bounds on the clock and on the unary RPCs
    Nil                       \* no affiliate, no data, no lock holder

Procs == Handlers \cup Streams \cup {GC}
Chans == Streams \cup {Persister}

ASSUME ConstantsAssumption ==
    /\ Handlers \cap Streams = {}
    /\ GC \notin Handlers \cup Streams
    /\ Persister \notin Procs
    /\ Nil \notin Procs \cup Chans \cup Data
    /\ Ttls \subseteq Int
    /\ DefaultTtl \in Nat
    /\ ChanCap \in Nat \ {0}
    /\ MaxTime \in Nat
    /\ MaxCalls \in Nat

ClusterAffiliateID == ClusterID \X AffiliateID

\* writtenAt is history: the time of the last update, which the code does not keep.
ClusterAffiliate ==
    [clusterID: ClusterID, id: AffiliateID, data: Data \cup {Nil},
     endpoints: SUBSET Endpoint, removeAfter: Int, writtenAt: Nat]

ASSUME NilAssumption == Nil \notin ClusterAffiliate

WatchResponse == [affiliates: SUBSET ClusterAffiliate, deleted: BOOLEAN]

Request ==
    [op: {"update"}, key: ClusterAffiliateID, data: Data \cup {Nil},
     endpoints: SUBSET Endpoint, ttl: Ttls]
    \cup [op: {"delete"}, key: ClusterAffiliateID]
    \cup [op: {"list"}, cluster: ClusterID]

VARIABLES
    clusterAffiliates,  \* the affiliate map, Nil where there is no entry
    watchers,           \* channels whose weak pointer is in the watcher list
    mutex,              \* holder of the watcher list's mutex while it broadcasts
    todo,               \* watchers the broadcast in progress has yet to visit
    target,             \* watcher the broadcast in progress is sending to
    chan,               \* contents of each channel
    reclaimed,          \* channels whose weak pointer has become nil
    pc,                 \* control state of each goroutine
    gcNow,              \* the time collectGarbage read before it took the map
    msg, ret,           \* message to broadcast and where to go after it
    req, resp,          \* request of each handler, last answer to a List
    cluster,            \* cluster each stream watches
    view,               \* what the client behind a stream has been told
    now, calls          \* clock; number of unary RPCs so far

vars == <<clusterAffiliates, watchers, mutex, todo, target, chan, reclaimed,
          pc, gcNow, msg, ret, req, resp, cluster, view, now, calls>>

bcastVars == <<mutex, todo, target>>
callVars  == <<req, resp, calls>>

\* Where a goroutine is between two critical sections.
Control == {"idle", "registered", "collect", "broadcast", "prune", "handle", "snapshot",
            "reply", "stream", "returned"}

NoMsg == [affiliates |-> {}, deleted |-> FALSE]

Content == [data: Data \cup {Nil}, endpoints: SUBSET Endpoint]

(***************************************************************************)
(* Type invariant.                                                         *)
(***************************************************************************)
TypeOK ==
    /\ clusterAffiliates \in [ClusterAffiliateID -> ClusterAffiliate \cup {Nil}]
    /\ watchers \in SUBSET Chans
    /\ mutex \in Procs \cup {Nil}
    /\ todo \in SUBSET Chans
    /\ target \in Chans \cup {Nil}
    /\ chan \in [Chans -> Seq(WatchResponse)]
    /\ reclaimed \in SUBSET Chans
    /\ pc \in [Procs -> Control]
    /\ gcNow \in [Procs -> Nat]
    /\ msg \in [Procs -> WatchResponse]
    /\ ret \in [Procs -> Control]
    /\ req \in [Handlers -> Request \cup {Nil}]
    /\ resp \in [Handlers -> SUBSET ClusterAffiliate]
    /\ cluster \in [Streams -> ClusterID \cup {Nil}]
    /\ view \in [Streams -> [AffiliateID -> Content \cup {Nil}]]
    /\ now \in Nat
    /\ calls \in Nat

-----------------------------------------------------------------------------
Registered == {clusterAffiliates[k] : k \in ClusterAffiliateID} \ {Nil}

KeyOf(a) == <<a.clusterID, a.id>>

\* NewClusterDiscoveryServer fills the map with what the state provider loaded.
LoadedMap(loaded) ==
    [k \in ClusterAffiliateID |->
        IF \E a \in loaded : KeyOf(a) = k
        THEN CHOOSE a \in loaded : KeyOf(a) = k
        ELSE Nil]

\* A new process with an empty state: the persister's channel is the only watcher
\* and nothing is in flight.
Init ==
    /\ clusterAffiliates = LoadedMap({})
    /\ watchers = {Persister}
    /\ mutex = Nil
    /\ todo = {}
    /\ target = Nil
    /\ chan = [c \in Chans |-> <<>>]
    /\ reclaimed = {}
    /\ pc = [p \in Procs |-> "idle"]
    /\ gcNow = [p \in Procs |-> 0]
    /\ msg = [p \in Procs |-> NoMsg]
    /\ ret = [p \in Procs |-> "idle"]
    /\ req = [h \in Handlers |-> Nil]
    /\ resp = [h \in Handlers |-> {}]
    /\ cluster = [s \in Streams |-> Nil]
    /\ view = [s \in Streams |-> [a \in AffiliateID |-> Nil]]
    /\ now = 0
    /\ calls = 0

Goto(p, label) == pc' = [pc EXCEPT ![p] = label]

\* Ask for a broadcast of m and go on at label once it is done.
Broadcast(p, m, label) ==
    /\ msg' = [msg EXCEPT ![p] = m]
    /\ ret' = [ret EXCEPT ![p] = label]
    /\ Goto(p, "broadcast")

-----------------------------------------------------------------------------
(***************************************************************************)
(* broadcast: with the watcher list locked, for every watcher, resolve the *)
(* weak pointer and, unless it is nil, send, blocking while the channel is *)
(* full.  Once resolved, the send no longer looks at the weak pointer.     *)
(***************************************************************************)
BroadcastLock(p) ==
    /\ pc[p] = "broadcast"
    /\ mutex = Nil
    /\ mutex' = p
    /\ todo' = watchers
    /\ UNCHANGED <<clusterAffiliates, watchers, target, chan, reclaimed, pc,
                   gcNow, msg, ret, callVars, cluster, view, now>>

\* Mutant: the loop ends at a weak pointer that is nil.
BroadcastValue_Stops(p, c) ==
    /\ mutex = p
    /\ target = Nil
    /\ c \in todo
    /\ todo' = IF c \in reclaimed THEN {} ELSE todo \ {c}
    /\ target' = IF c \in reclaimed THEN Nil ELSE c
    /\ UNCHANGED <<clusterAffiliates, watchers, mutex, chan, reclaimed, pc,
                   gcNow, msg, ret, callVars, cluster, view, now>>

BroadcastValue(p, c) ==
    /\ mutex = p
    /\ target = Nil
    /\ c \in todo
    /\ todo' = todo \ {c}
    /\ target' = IF c \in reclaimed THEN Nil ELSE c
    /\ UNCHANGED <<clusterAffiliates, watchers, mutex, chan, reclaimed, pc,
                   gcNow, msg, ret, callVars, cluster, view, now>>

\* Mutant: a send that gives up on a full channel, as select with default does.
BroadcastSend_Drops(p) ==
    /\ mutex = p
    /\ target # Nil
    /\ chan' = IF Len(chan[target]) < ChanCap
               THEN [chan EXCEPT ![target] = Append(@, msg[p])] ELSE chan
    /\ target' = Nil
    /\ UNCHANGED <<clusterAffiliates, watchers, mutex, todo, reclaimed, pc,
                   gcNow, msg, ret, callVars, cluster, view, now>>

\* Mutant: a blocked send that looks at the weak pointer again.
BroadcastSend_Rechecks(p) ==
    /\ mutex = p
    /\ target # Nil
    /\ Len(chan[target]) < ChanCap \/ target \in reclaimed
    /\ chan' = IF target \in reclaimed THEN chan
               ELSE [chan EXCEPT ![target] = Append(@, msg[p])]
    /\ target' = Nil
    /\ UNCHANGED <<clusterAffiliates, watchers, mutex, todo, reclaimed, pc,
                   gcNow, msg, ret, callVars, cluster, view, now>>

BroadcastSend(p) ==
    /\ mutex = p
    /\ target # Nil
    /\ Len(chan[target]) < ChanCap
    /\ chan' = [chan EXCEPT ![target] = Append(@, msg[p])]
    /\ target' = Nil
    /\ UNCHANGED <<clusterAffiliates, watchers, mutex, todo, reclaimed, pc,
                   gcNow, msg, ret, callVars, cluster, view, now>>

\* Mutant: the mutex is not released.
BroadcastUnlock_Forgets(p) ==
    /\ mutex = p
    /\ todo = {}
    /\ target = Nil
    /\ Goto(p, ret[p])
    /\ msg' = [msg EXCEPT ![p] = NoMsg]
    /\ ret' = [ret EXCEPT ![p] = "idle"]
    /\ UNCHANGED <<clusterAffiliates, watchers, bcastVars, chan, reclaimed,
                   gcNow, callVars, cluster, view, now>>

BroadcastUnlock(p) ==
    /\ mutex = p
    /\ todo = {}
    /\ target = Nil
    /\ mutex' = Nil
    /\ Goto(p, ret[p])
    /\ msg' = [msg EXCEPT ![p] = NoMsg]
    /\ ret' = [ret EXCEPT ![p] = "idle"]
    /\ UNCHANGED <<clusterAffiliates, watchers, todo, target, chan, reclaimed,
                   gcNow, callVars, cluster, view, now>>

-----------------------------------------------------------------------------
(***************************************************************************)
(* collectGarbage: the time is read first; then the expired entries leave  *)
(* the map under its lock; then their deletion is broadcast; then the      *)
(* watchers whose weak pointer is nil are dropped under the other lock.    *)
(***************************************************************************)
StartCollect(p) ==
    /\ Goto(p, "collect")
    /\ gcNow' = [gcNow EXCEPT ![p] = now]

Expired(a, t) == t > a.removeAfter

\* Mutants: entries are kept one unit too long; entries go when they reach their
\* deadline (not Before instead of After).
Garbage_Late(p) == {a \in Registered : Expired(a, gcNow[p] - 1)}
Garbage_Early(p) == {a \in Registered : gcNow[p] >= a.removeAfter}

Garbage(p) == {a \in Registered : Expired(a, gcNow[p])}

CollectGarbage(p) ==
    LET deleted == Garbage(p) IN
    /\ pc[p] = "collect"
    /\ clusterAffiliates' =
          [k \in ClusterAffiliateID |->
              IF clusterAffiliates[k] \in deleted THEN Nil
              ELSE clusterAffiliates[k]]
    /\ IF deleted # {}
       THEN Broadcast(p, [affiliates |-> deleted, deleted |-> TRUE], "prune")
       ELSE Goto(p, "prune") /\ UNCHANGED <<msg, ret>>
    /\ UNCHANGED <<watchers, bcastVars, chan, reclaimed, gcNow, callVars,
                   cluster, view, now>>

\* What follows collectGarbage in each caller.  (The time it read is kept in the
\* model for the handlers, to state what List answers; the code forgets it.)
AfterCollect(p) ==
    IF p \in Handlers THEN "handle" ELSE IF p = GC THEN "snapshot" ELSE "stream"

PruneWatchers(p) ==
    /\ pc[p] = "prune"
    /\ mutex = Nil
    /\ watchers' = watchers \ reclaimed
    /\ Goto(p, AfterCollect(p))
    /\ gcNow' = IF p \in Handlers THEN gcNow ELSE [gcNow EXCEPT ![p] = 0]
    /\ UNCHANGED <<clusterAffiliates, bcastVars, chan, reclaimed, msg, ret,
                   callVars, cluster, view, now>>

-----------------------------------------------------------------------------
(***************************************************************************)
(* The unary RPCs.  Each starts with collectGarbage.                       *)
(***************************************************************************)
Call(h, r) ==
    /\ pc[h] = "idle"
    /\ calls < MaxCalls
    /\ calls' = calls + 1
    /\ req' = [req EXCEPT ![h] = r]
    /\ StartCollect(h)
    /\ UNCHANGED <<clusterAffiliates, watchers, bcastVars, chan, reclaimed,
                   msg, ret, resp, cluster, view, now>>

Ttl(r) == IF r.ttl = 0 THEN DefaultTtl ELSE r.ttl

\* The entry after update r of an affiliate that was old: missing data keeps the
\* old data, endpoints are merged, the deadline starts from the present time, and
\* has already passed if the TTL is negative.
Updated(old, r) ==
    [clusterID |-> r.key[1],
     id |-> r.key[2],
     data |-> IF r.data # Nil THEN r.data
              ELSE IF old = Nil THEN Nil ELSE old.data,
     endpoints |-> r.endpoints \cup (IF old = Nil THEN {} ELSE old.endpoints),
     removeAfter |-> now + Ttl(r),
     writtenAt |-> now]

\* The handler returns; its locals are gone.
Return(h) ==
    /\ req' = [req EXCEPT ![h] = Nil]
    /\ gcNow' = [gcNow EXCEPT ![h] = 0]

\* Nothing of the request is used after the map's lock is released: the handler
\* only has its broadcast left.
AffiliateUpdate(h) ==
    LET r   == req[h]
        aff == Updated(clusterAffiliates[r.key], r) IN
    /\ pc[h] = "handle"
    /\ r.op = "update"
    /\ clusterAffiliates' = [clusterAffiliates EXCEPT ![r.key] = aff]
    /\ Broadcast(h, [affiliates |-> {aff}, deleted |-> FALSE], "idle")
    /\ Return(h)
    /\ UNCHANGED <<watchers, bcastVars, chan, reclaimed, resp, calls, cluster,
                   view, now>>

\* Mutant: a deletion is announced whether or not there was anything to delete.
AffiliateDelete_Announces(h) ==
    LET r == req[h] IN
    /\ pc[h] = "handle"
    /\ r.op = "delete"
    /\ clusterAffiliates' = [clusterAffiliates EXCEPT ![r.key] = Nil]
    /\ Broadcast(h, [affiliates |-> {clusterAffiliates[r.key]}, deleted |-> TRUE], "idle")
    /\ Return(h)
    /\ UNCHANGED <<watchers, bcastVars, chan, reclaimed, resp, calls, cluster,
                   view, now>>

AffiliateDelete(h) ==
    LET r   == req[h]
        aff == clusterAffiliates[r.key] IN
    /\ pc[h] = "handle"
    /\ r.op = "delete"
    /\ clusterAffiliates' = [clusterAffiliates EXCEPT ![r.key] = Nil]
    /\ IF aff # Nil
       THEN Broadcast(h, [affiliates |-> {aff}, deleted |-> TRUE], "idle")
       ELSE Goto(h, "idle") /\ UNCHANGED <<msg, ret>>
    /\ Return(h)
    /\ UNCHANGED <<watchers, bcastVars, chan, reclaimed, resp, calls, cluster,
                   view, now>>

List(h) ==
    LET r == req[h] IN
    /\ pc[h] = "handle"
    /\ r.op = "list"
    /\ resp' = [resp EXCEPT ![h] =
                  {clusterAffiliates[k] : k \in {j \in ClusterAffiliateID :
                      /\ j[1] = r.cluster
                      /\ clusterAffiliates[j] # Nil
                      /\ clusterAffiliates[j].clusterID = r.cluster}}]
    /\ Goto(h, "reply")
    /\ UNCHANGED <<clusterAffiliates, watchers, bcastVars, chan, reclaimed,
                   gcNow, msg, ret, req, calls, cluster, view, now>>

\* List returns the answer it has put together.
ListReply(h) ==
    /\ pc[h] = "reply"
    /\ Goto(h, "idle")
    /\ resp' = [resp EXCEPT ![h] = {}]
    /\ Return(h)
    /\ UNCHANGED <<clusterAffiliates, watchers, bcastVars, chan, reclaimed,
                   msg, ret, calls, cluster, view, now>>

-----------------------------------------------------------------------------
(***************************************************************************)
(* garbageCollectionLoop: every tick collects garbage and then rebroadcasts*)
(* the whole map, which it copies under the map's lock.                    *)
(***************************************************************************)
Tick ==
    /\ pc[GC] = "idle"
    /\ StartCollect(GC)
    /\ UNCHANGED <<clusterAffiliates, watchers, bcastVars, chan, reclaimed,
                   msg, ret, callVars, cluster, view, now>>

\* Mutant: the loop ends when there is nothing to broadcast.
BroadcastCurrentState_Ends ==
    /\ pc[GC] = "snapshot"
    /\ IF Registered # {}
       THEN Broadcast(GC, [affiliates |-> Registered, deleted |-> FALSE], "idle")
       ELSE Goto(GC, "returned") /\ UNCHANGED <<msg, ret>>
    /\ UNCHANGED <<clusterAffiliates, watchers, bcastVars, chan, reclaimed,
                   gcNow, callVars, cluster, view, now>>

\* Mutant: no periodic broadcast.
BroadcastCurrentState_Skips ==
    /\ pc[GC] = "snapshot"
    /\ Goto(GC, "idle")
    /\ UNCHANGED <<clusterAffiliates, watchers, bcastVars, chan, reclaimed,
                   gcNow, msg, ret, callVars, cluster, view, now>>

BroadcastCurrentState ==
    /\ pc[GC] = "snapshot"
    /\ IF Registered # {}
       THEN Broadcast(GC, [affiliates |-> Registered, deleted |-> FALSE], "idle")
       ELSE Goto(GC, "idle") /\ UNCHANGED <<msg, ret>>
    /\ UNCHANGED <<clusterAffiliates, watchers, bcastVars, chan, reclaimed,
                   gcNow, callVars, cluster, view, now>>

-----------------------------------------------------------------------------
(***************************************************************************)
(* Watch: register a channel, collect garbage, then forward what arrives   *)
(* for the watched cluster until the client goes away or a send fails.  A  *)
(* call that still waits for the watchers' mutex has done nothing yet.     *)
(***************************************************************************)
Watch(s, c) ==
    /\ pc[s] = "idle"
    /\ mutex = Nil
    /\ cluster' = [cluster EXCEPT ![s] = c]
    /\ watchers' = watchers \cup {s}
    /\ Goto(s, "registered")
    /\ UNCHANGED <<clusterAffiliates, bcastVars, chan, reclaimed, gcNow, msg, ret,
                   callVars, view, now>>

\* The time is read after the watchers' mutex has been released.
WatchCollects(s) ==
    /\ pc[s] = "registered"
    /\ StartCollect(s)
    /\ UNCHANGED <<clusterAffiliates, watchers, bcastVars, chan, reclaimed, msg, ret,
                   callVars, cluster, view, now>>

\* The affiliates of message m that a stream on cluster c forwards.
Forwarded(m, c) == {a \in m.affiliates : a.clusterID = c}

\* The client applies a response: a deletion carries only the affiliate's id.
Told(v, m, c) ==
    [i \in AffiliateID |->
        IF \E a \in Forwarded(m, c) : a.id = i
        THEN IF m.deleted THEN Nil
             ELSE LET a == CHOOSE b \in Forwarded(m, c) : b.id = i
                  IN  [data |-> a.data, endpoints |-> a.endpoints]
        ELSE v[i]]

Receive(s) ==
    /\ pc[s] = "stream"
    /\ chan[s] # <<>>
    /\ chan' = [chan EXCEPT ![s] = Tail(@)]
    /\ view' = [view EXCEPT ![s] = Told(@, Head(chan[s]), cluster[s])]
    /\ UNCHANGED <<clusterAffiliates, watchers, bcastVars, reclaimed, pc,
                   gcNow, msg, ret, callVars, cluster, now>>

\* The send to the client fails: the message is gone and Watch returns.
SendFails(s) ==
    /\ pc[s] = "stream"
    /\ chan[s] # <<>>
    /\ Forwarded(Head(chan[s]), cluster[s]) # {}
    /\ chan' = [chan EXCEPT ![s] = Tail(@)]
    /\ Goto(s, "returned")
    /\ UNCHANGED <<clusterAffiliates, watchers, bcastVars, reclaimed, gcNow,
                   msg, ret, callVars, cluster, view, now>>

\* The stream's context is done: Watch returns and leaves its channel behind.
WatchEnds(s) ==
    /\ pc[s] = "stream"
    /\ Goto(s, "returned")
    /\ UNCHANGED <<clusterAffiliates, watchers, bcastVars, chan, reclaimed,
                   gcNow, msg, ret, callVars, cluster, view, now>>

-----------------------------------------------------------------------------
\* statePersister with a provider that discards: it only drains its channel.
PersisterReceive ==
    /\ chan[Persister] # <<>>
    /\ chan' = [chan EXCEPT ![Persister] = Tail(@)]
    /\ UNCHANGED <<clusterAffiliates, watchers, bcastVars, reclaimed, pc,
                   gcNow, msg, ret, callVars, cluster, view, now>>

\* A cycle of the Go garbage collector.  The variable holding a stream's channel
\* is unreachable once Watch has returned; the one holding the persister's channel
\* is unreachable as soon as NewClusterDiscoveryServer has returned, since the
\* persister got the channel itself.  A stream that returns while the cycle is
\* marking may survive it.
GoGC ==
    /\ \E R \in SUBSET {s \in Streams : pc[s] = "returned"} :
          reclaimed' = reclaimed \cup R \cup {Persister}
    /\ reclaimed' # reclaimed
    /\ UNCHANGED <<clusterAffiliates, watchers, bcastVars, chan, pc, gcNow,
                   msg, ret, callVars, cluster, view, now>>

TimePasses ==
    /\ now < MaxTime
    /\ now' = now + 1
    /\ UNCHANGED <<clusterAffiliates, watchers, bcastVars, chan, reclaimed, pc,
                   gcNow, msg, ret, callVars, cluster, view>>

-----------------------------------------------------------------------------
\* What the holder of the watchers' mutex does next.
BroadcastGoesOn(p) ==
    \/ \E c \in Chans : BroadcastValue(p, c)
    \/ BroadcastSend(p)
    \/ BroadcastUnlock(p)

HandlerStep(h) ==
    \/ AffiliateUpdate(h)
    \/ AffiliateDelete(h)
    \/ List(h)
    \/ ListReply(h)

StreamStep(s) == WatchCollects(s) \/ Receive(s) \/ SendFails(s) \/ WatchEnds(s)

\* Everything but the persister's own step.
ServerNext ==
    \/ \E p \in Procs : \/ BroadcastLock(p) \/ BroadcastGoesOn(p)
                       \/ CollectGarbage(p) \/ PruneWatchers(p)
    \/ \E h \in Handlers : HandlerStep(h) \/ \E r \in Request : Call(h, r)
    \/ Tick
    \/ BroadcastCurrentState
    \/ \E s \in Streams : StreamStep(s) \/ \E c \in ClusterID : Watch(s, c)
    \/ GoGC
    \/ TimePasses

Next == ServerNext \/ PersisterReceive

Spec == Init /\ [][Next]_vars

-----------------------------------------------------------------------------
(***************************************************************************)
(* Safety.                                                                 *)
(***************************************************************************)

\* s is a suffix of t.  (Pointwise, so that it can be reasoned about in proofs.)
SuffixOf(s, t) ==
    /\ Len(s) <= Len(t)
    /\ \A i \in 1..Len(s) : s[i] = t[i + (Len(t) - Len(s))]

\* Contents of channel c once the broadcast in progress is through with it.
Pending(c) ==
    IF c \in todo \/ c = target THEN Append(chan[c], msg[mutex]) ELSE chan[c]

\* All live watchers see broadcasts in one order without gaps: broadcast visits
\* every watcher under the watcher mutex and never drops a message, so what two
\* watchers have still to read are suffixes of the same sequence, however late a
\* watcher registered and however slowly it reads.
TotalOrder ==
    \A c, d \in watchers \ reclaimed :
        SuffixOf(Pending(c), Pending(d)) \/ SuffixOf(Pending(d), Pending(c))

\* "garbage is collected before responding": whatever was registered before a List
\* arrived and had expired by then is not in its answer, although between its
\* collectGarbage and its read of the map other goroutines change the map.  An
\* affiliate in the answer can have expired only if it was registered that way, by
\* an update with a negative TTL that came after the List.
ListFresh ==
    \A h \in Handlers :
        pc[h] = "reply" =>
            \A a \in resp[h] : Expired(a, gcNow[h]) => a.writtenAt >= gcNow[h]

\* An entry leaves the map only because a client deletes it or because its current
\* deadline has passed: a refresh that comes between the moment collectGarbage
\* reads the time and the moment it takes the map is never lost.
NoEarlyExpiry ==
    [][\A k \in ClusterAffiliateID :
          clusterAffiliates[k] # Nil /\ clusterAffiliates'[k] = Nil =>
              \/ Expired(clusterAffiliates[k], now)
              \/ \E h \in Handlers :
                    /\ pc[h] = "handle" /\ pc'[h] # "handle"
                    /\ req[h].op = "delete" /\ req[h].key = k]_vars

\* The watcher mutex is held by a goroutine that waits for room in the channel of
\* a stream that will never read again: its Watch has returned, or has not reached
\* its loop and itself needs the mutex to get there.
Wedged ==
    /\ target \in Streams
    /\ pc[target] # "stream"
    /\ Len(chan[target]) = ChanCap

\* Once wedged the server stays wedged: no step of any goroutine, and no cycle of
\* the Go collector, makes room in that channel or releases the mutex.
WedgeIsPermanent == [][Wedged => Wedged']_vars

(***************************************************************************)
(* Liveness.  Goroutines are scheduled fairly, Go mutexes are starvation   *)
(* free (strong fairness on acquisition), the ticker fires and connected   *)
(* clients keep reading.  Clients are free to call or not, to disconnect   *)
(* or not, and nothing is assumed about the Go collector.                  *)
(***************************************************************************)
LocksWatchers(p) == BroadcastLock(p) \/ PruneWatchers(p)

ServerFairness ==
    /\ \A p \in Procs :
          /\ SF_vars(LocksWatchers(p))
          /\ WF_vars(BroadcastGoesOn(p))
          /\ WF_vars(CollectGarbage(p))
    /\ \A h \in Handlers : WF_vars(HandlerStep(h))
    /\ \A s \in Streams : WF_vars(WatchCollects(s)) /\ WF_vars(Receive(s))
    /\ WF_vars(Tick \/ BroadcastCurrentState)
    /\ WF_vars(TimePasses)

FairSpec == Spec /\ ServerFairness /\ WF_vars(PersisterReceive)

\* Every unary RPC returns, unless a broadcast is stuck on an abandoned channel.
CallsReturn ==
    \A h \in Handlers : pc[h] # "idle" ~> (pc[h] = "idle" \/ Wedged)

Overdue(k) == clusterAffiliates[k] # Nil /\ Expired(clusterAffiliates[k], now)

\* An expired affiliate is eventually collected (or refreshed), unless wedged.
ExpiredCollected ==
    \A k \in ClusterAffiliateID : Overdue(k) ~> (~Overdue(k) \/ Wedged)

\* A broadcast waits for a stream that has registered and is not in its loop yet.
StartingUp == target \in Streams /\ pc[target] \notin {"stream", "returned"}

\* What --gc-interval promises: garbage is collected at that interval, whatever
\* clients do.  (Leaving aside a channel that fills up while its stream is starting,
\* which the small capacities of the model make more likely than 1024 does.)
CollectedAlways ==
    \A k \in ClusterAffiliateID : Overdue(k) ~> (~Overdue(k) \/ StartingUp)

Knows(s, k) ==
    /\ clusterAffiliates[k] # Nil
    /\ view[s][k[2]] = [data |-> clusterAffiliates[k].data,
                        endpoints |-> clusterAffiliates[k].endpoints]

\* Watch sends no initial state, and an older content may be announced after a newer
\* one (the loop reads the map before it broadcasts); still, the periodic rebroadcast
\* brings every connected client to the current content of every affiliate of its
\* cluster that stays registered.
ClientsInformed ==
    \A s \in Streams, k \in ClusterAffiliateID :
        <>[](/\ pc[s] = "stream"
             /\ cluster[s] = k[1]
             /\ clusterAffiliates[k] # Nil)
        => []<>Knows(s, k) \/ <>Wedged

=============================================================================
