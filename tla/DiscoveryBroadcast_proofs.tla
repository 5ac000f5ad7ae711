----------------------- MODULE DiscoveryBroadcast_proofs -----------------------
(***************************************************************************)
(* Proofs that broadcast is atomic and totally ordered.  Both rest on one  *)
(* lemma, StepEffect, that says what a step of any goroutine does to the   *)
(* set of live watchers and to what each of them has still to read.        *)
(***************************************************************************)
EXTENDS DiscoveryBroadcast, ClusterDiscoveryServer_proofs

(***************************************************************************)
(* The strengthening.  A Watch call that has not registered has an empty   *)
(* channel that no broadcast and no weak pointer knows of, a stream        *)
(* broadcasts from collectGarbage only and so never gets back there, and   *)
(* the watcher being sent to is no longer among those to visit.            *)
(***************************************************************************)
StartInv ==
    \A s \in Streams :
        /\ pc[s] = "idle" => s \notin watchers /\ s \notin reclaimed /\ chan[s] = <<>>
        /\ pc[s] = "broadcast" => ret[s] = "prune"
        /\ pc[s] # "handle" /\ pc[s] # "reply" /\ pc[s] # "snapshot"

VisitInv == target # Nil => target \notin todo

QueueInv == Typed /\ LockInv /\ StartInv /\ VisitInv

-----------------------------------------------------------------------------
(***************************************************************************)
(* Suffixes.                                                               *)
(***************************************************************************)
LEMMA SuffixAppend ==
    ASSUME NEW S, NEW s \in Seq(S), NEW t \in Seq(S), NEW m \in S, SuffixOf(s, t)
    PROVE  SuffixOf(Append(s, m), Append(t, m))
  BY DEF SuffixOf

LEMMA SuffixSelf ==
    ASSUME NEW S, NEW s \in Seq(S)
    PROVE  SuffixOf(s, s)
  BY DEF SuffixOf

LEMMA SuffixEmpty ==
    ASSUME NEW S, NEW t \in Seq(S)
    PROVE  SuffixOf(<<>>, t)
  BY DEF SuffixOf

\* The shorter of two sequences loses its head.
LEMMA SuffixTailLeft ==
    ASSUME NEW S, NEW s \in Seq(S), NEW t \in Seq(S), s # <<>>, SuffixOf(s, t)
    PROVE  SuffixOf(Tail(s), t)
  BY DEF SuffixOf

\* The longer of two sequences loses its head: they are then equal but for the head of
\* the other, or the shorter one is still a suffix.
LEMMA SuffixTailRight ==
    ASSUME NEW S, NEW s \in Seq(S), NEW t \in Seq(S), t # <<>>, SuffixOf(s, t)
    PROVE  SuffixOf(s, Tail(t)) \/ SuffixOf(Tail(t), s)
  <1>1. CASE Len(s) = Len(t)
    BY <1>1 DEF SuffixOf
  <1>2. CASE Len(s) < Len(t)
    BY <1>2 DEF SuffixOf
  <1> QED
    BY <1>1, <1>2 DEF SuffixOf

-----------------------------------------------------------------------------
LEMMA InitQueue == Init => QueueInv
  BY InitTyped, InitLock, ConstantsAssumption DEF Init, QueueInv, StartInv, VisitInv, Procs, Chans

LEMMA NextVisit == QueueInv /\ [Next]_vars => VisitInv'
  <1> SUFFICES ASSUME QueueInv, [Next]_vars PROVE VisitInv'
    OBVIOUS
  <1> USE DEF QueueInv, LockInv, VisitInv
  <1>0. Nil \notin Procs /\ Nil \notin Chans
    BY ConstantsAssumption
  <1>1. ASSUME NEW p \in Procs, BroadcastLock(p) PROVE VisitInv'
    BY <1>1 DEF BroadcastLock
  <1>2. ASSUME NEW p \in Procs, NEW c \in Chans, BroadcastValue(p, c) PROVE VisitInv'
    BY <1>2 DEF BroadcastValue
  <1>3. ASSUME NEW p \in Procs, BroadcastSend(p) PROVE VisitInv'
    BY <1>3 DEF BroadcastSend
  <1>4. ASSUME UNCHANGED <<todo, target>> PROVE VisitInv'
    BY <1>4
  <1>5. \/ UNCHANGED <<todo, target>>
        \/ \E p \in Procs : \/ BroadcastLock(p)
                            \/ \E c \in Chans : BroadcastValue(p, c)
                            \/ BroadcastSend(p)
    BY DEF Next, ServerNext, BroadcastGoesOn, HandlerStep, StreamStep, CollectGarbage, Call,
           AffiliateUpdate, AffiliateDelete, List, ListReply, Tick, BroadcastCurrentState,
           WatchCollects, Receive, SendFails, WatchEnds, PersisterReceive, GoGC, TimePasses, vars,
           BroadcastUnlock, PruneWatchers, Watch, bcastVars
  <1> QED
    BY <1>1, <1>2, <1>3, <1>4, <1>5

LEMMA NextStart == QueueInv /\ [Next]_vars => StartInv'
  <1> SUFFICES ASSUME QueueInv, [Next]_vars, NEW s \in Streams
               PROVE  StartInv!(s)'
    BY DEF StartInv
  <1>0. /\ s \in Procs /\ s \in Chans /\ s # GC /\ s # Persister /\ s \notin Handlers
        /\ pc \in [Procs -> Control] /\ ret \in [Procs -> Control]
        /\ chan \in [Chans -> Seq(WatchResponse)]
        /\ mutex # Nil => pc[mutex] = "broadcast"
        /\ Nil \notin Procs
    BY ConstantsAssumption DEF Procs, Chans, QueueInv, Typed, TypeOK, HolderInv
  <1> DEFINE Same == /\ pc'[s] = pc[s] /\ ret'[s] = ret[s] /\ chan'[s] = chan[s]
                     /\ s \in watchers' => s \in watchers
                     /\ reclaimed' = reclaimed
  <1>s. Same => StartInv!(s)'
    BY DEF QueueInv, StartInv
  <1> USE DEF bcastVars, callVars
  <1>1. ASSUME NEW p \in Procs, BroadcastLock(p) PROVE Same
    BY <1>1 DEF BroadcastLock
  <1>2. ASSUME NEW p \in Procs, NEW c \in Chans, BroadcastValue(p, c) PROVE Same
    BY <1>2 DEF BroadcastValue
  <1>3. ASSUME NEW p \in Procs, BroadcastSend(p) PROVE StartInv!(s)'
    BY <1>0, <1>3 DEF BroadcastSend, QueueInv, StartInv, LockInv
  <1>4. ASSUME NEW p \in Procs, BroadcastUnlock(p) PROVE StartInv!(s)'
    BY <1>0, <1>4 DEF BroadcastUnlock, Goto, QueueInv, StartInv
  <1>5. ASSUME NEW p \in Procs, CollectGarbage(p) PROVE StartInv!(s)'
    <2>1. /\ pc[p] = "collect"
          /\ \/ ret' = [ret EXCEPT ![p] = "prune"] /\ pc' = [pc EXCEPT ![p] = "broadcast"]
             \/ pc' = [pc EXCEPT ![p] = "prune"] /\ ret' = ret
          /\ UNCHANGED <<watchers, chan, reclaimed>>
      BY <1>5 DEF CollectGarbage, Broadcast, Goto
    <2> QED
      BY <1>0, <2>1 DEF QueueInv, StartInv
  <1>6. ASSUME NEW p \in Procs, PruneWatchers(p) PROVE StartInv!(s)'
    BY <1>0, <1>6 DEF PruneWatchers, Goto, AfterCollect, QueueInv, StartInv
  <1>7. ASSUME NEW h \in Handlers, HandlerStep(h) \/ \E r \in Request : Call(h, r) PROVE Same
    <2>1. h # s /\ h \in Procs
      BY <1>0 DEF Procs
    <2> QED
      BY <1>0, <1>7, <2>1 DEF HandlerStep, AffiliateUpdate, AffiliateDelete, List, ListReply,
         Call, StartCollect, Broadcast, Goto
  <1>8. ASSUME Tick \/ BroadcastCurrentState PROVE Same
    BY <1>0, <1>8 DEF Tick, BroadcastCurrentState, StartCollect, Broadcast, Goto
  <1>9. ASSUME NEW t \in Streams, NEW c \in ClusterID, Watch(t, c) PROVE StartInv!(s)'
    <2>1. t \in Procs
      BY DEF Procs
    <2> QED
      BY <1>0, <1>9, <2>1 DEF Watch, Goto, QueueInv, StartInv
  <1>10. ASSUME NEW t \in Streams, StreamStep(t) PROVE StartInv!(s)'
    <2>1. t \in Procs /\ t \in Chans
      BY DEF Procs, Chans
    <2> QED
      BY <1>0, <1>10, <2>1 DEF StreamStep, WatchCollects, StartCollect, Receive, SendFails,
         WatchEnds, Goto, QueueInv, StartInv
  <1>11. ASSUME PersisterReceive PROVE Same
    BY <1>0, <1>11 DEF PersisterReceive
  <1>12. ASSUME GoGC PROVE StartInv!(s)'
    BY <1>0, <1>12 DEF GoGC, QueueInv, StartInv
  <1>13. ASSUME TimePasses \/ UNCHANGED vars PROVE Same
    BY <1>13 DEF TimePasses, vars
  <1> HIDE DEF Same
  <1> QED
    BY <1>s, <1>1, <1>2, <1>3, <1>4, <1>5, <1>6, <1>7, <1>8, <1>9, <1>10, <1>11, <1>12, <1>13
    DEF Next, ServerNext, BroadcastGoesOn

LEMMA NextQueue == QueueInv /\ [Next]_vars => QueueInv'
  BY NextTyped, NextLock, NextStart, NextVisit DEF QueueInv

-----------------------------------------------------------------------------
(***************************************************************************)
(* What a step can do to the live watchers and to what they have still to  *)
(* read: everybody gets the same message, one takes its first message, one *)
(* joins with nothing to read, or some leave.                              *)
(***************************************************************************)
Published ==
    /\ Live' = Live
    /\ \E m \in WatchResponse : \A c \in Live : Pending(c)' = Append(Pending(c), m)

Taken(r) ==
    /\ r \in Live
    /\ Live' = Live
    /\ Pending(r) # <<>>
    /\ Pending(r)' = Tail(Pending(r))
    /\ \A c \in Live \ {r} : Pending(c)' = Pending(c)

Joined(r) ==
    /\ r \in Chans \ Live
    /\ Live' = Live \cup {r}
    /\ Pending(r)' = <<>>
    /\ \A c \in Live : Pending(c)' = Pending(c)

SomeLeft ==
    /\ Live' \subseteq Live
    /\ \A c \in Live' : Pending(c)' = Pending(c)

LEMMA LiveType ==
    ASSUME QueueInv
    PROVE  /\ Live \subseteq Chans
           /\ \A c \in Chans : Pending(c) \in Seq(WatchResponse)
  <1>1. Live \subseteq Chans
    BY DEF QueueInv, Typed, TypeOK, Live
  <1>2. ASSUME NEW c \in Chans PROVE Pending(c) \in Seq(WatchResponse)
    <2>1. chan[c] \in Seq(WatchResponse)
      BY DEF QueueInv, Typed, TypeOK
    <2>2. CASE c \in todo \/ c = target
      <3>1. mutex \in Procs
        BY <2>2, ConstantsAssumption DEF QueueInv, LockInv, Typed, TypeOK
      <3>2. msg[mutex] \in WatchResponse
        BY <3>1 DEF QueueInv, Typed, TypeOK
      <3> QED
        BY <2>1, <2>2, <3>2 DEF Pending
    <2>3. CASE ~(c \in todo \/ c = target)
      BY <2>1, <2>3 DEF Pending
    <2> QED
      BY <2>2, <2>3
  <1> QED
    BY <1>1, <1>2

LEMMA TailAppend ==
    ASSUME NEW S, NEW s \in Seq(S), NEW m \in S, s # <<>>
    PROVE  Append(s, m) # <<>> /\ Tail(Append(s, m)) = Append(Tail(s), m)
  OBVIOUS

\* A reader takes a message out of its channel: it takes the first one of what it has
\* still to read, also when a broadcast is about to add to it.
LEMMA TakeEffect ==
    ASSUME QueueInv, NEW r \in Chans, chan[r] # <<>>,
           chan' = [chan EXCEPT ![r] = Tail(@)],
           UNCHANGED <<watchers, reclaimed, mutex, todo, target, msg>>
    PROVE  Taken(r) \/ SomeLeft
  <1>1. Live' = Live
    BY DEF Live
  <1>2. chan \in [Chans -> Seq(WatchResponse)]
    BY DEF QueueInv, Typed, TypeOK
  <1>3. \A c \in Live \ {r} : Pending(c)' = Pending(c)
    BY <1>2, LiveType DEF Pending
  <1>4. Pending(r) # <<>> /\ Pending(r)' = Tail(Pending(r))
    <2>1. chan'[r] = Tail(chan[r]) /\ chan[r] \in Seq(WatchResponse)
      BY <1>2
    <2>2. CASE r \in todo \/ r = target
      <3>1. mutex \in Procs
        BY <2>2, ConstantsAssumption DEF QueueInv, LockInv, Typed, TypeOK
      <3>2. msg[mutex] \in WatchResponse
        BY <3>1 DEF QueueInv, Typed, TypeOK
      <3>3. Pending(r) = Append(chan[r], msg[mutex])
        BY <2>2 DEF Pending
      <3>4. Pending(r)' = Append(Tail(chan[r]), msg[mutex])
        BY <2>1, <2>2 DEF Pending
      <3> QED
        BY <2>1, <3>2, <3>3, <3>4, TailAppend
    <2>3. CASE ~(r \in todo \/ r = target)
      BY <2>1, <2>3 DEF Pending
    <2> QED
      BY <2>2, <2>3
  <1>5. CASE r \in Live
    BY <1>1, <1>3, <1>4, <1>5 DEF Taken
  <1>6. CASE r \notin Live
    BY <1>1, <1>3, <1>6 DEF SomeLeft
  <1> QED
    BY <1>5, <1>6

\* Nothing happens to the watchers while the holder of the mutex keeps its message.
LEMMA QuietEffect ==
    ASSUME QueueInv, UNCHANGED <<watchers, reclaimed, mutex, todo, target, chan>>,
           mutex # Nil => msg'[mutex] = msg[mutex]
    PROVE  SomeLeft
  BY LiveType, ConstantsAssumption DEF SomeLeft, Live, Pending, QueueInv, LockInv

\* Whoever puts a message together does not hold the mutex.
LEMMA NotTheHolder ==
    ASSUME QueueInv, NEW p \in Procs, pc[p] # "broadcast", NEW m
    PROVE  mutex # Nil => [msg EXCEPT ![p] = m][mutex] = msg[mutex]
  BY DEF QueueInv, Typed, TypeOK, HolderInv

LEMMA StepEffect ==
    ASSUME QueueInv, [Next]_vars
    PROVE  Published \/ SomeLeft \/ \E r \in Chans : Taken(r) \/ Joined(r)
  <1> USE DEF bcastVars, callVars
  <1>0. /\ Nil \notin Procs /\ Nil \notin Chans
        /\ chan \in [Chans -> Seq(WatchResponse)] /\ msg \in [Procs -> WatchResponse]
        /\ Live \subseteq Chans
    BY ConstantsAssumption, LiveType DEF QueueInv, Typed, TypeOK
  <1>1. ASSUME NEW p \in Procs, BroadcastLock(p) PROVE Published
    <2>1. todo = {} /\ target = Nil /\ todo' = watchers /\ mutex' = p /\ chan' = chan /\ msg' = msg
          /\ Live' = Live
      BY <1>1 DEF BroadcastLock, QueueInv, LockInv, Live
    <2>2. \A c \in Live : Pending(c)' = Append(Pending(c), msg[p])
      BY <1>0, <2>1 DEF Pending, Live
    <2> QED
      BY <1>0, <2>1, <2>2 DEF Published
  <1>2. ASSUME NEW p \in Procs, NEW c \in Chans, BroadcastValue(p, c) PROVE SomeLeft
    BY <1>0, <1>2 DEF BroadcastValue, SomeLeft, Live, Pending
  <1>3. ASSUME NEW p \in Procs, BroadcastSend(p) PROVE SomeLeft
    BY <1>0, <1>3 DEF BroadcastSend, SomeLeft, Live, Pending, QueueInv, VisitInv
  <1>4. ASSUME NEW p \in Procs, BroadcastUnlock(p) PROVE SomeLeft
    BY <1>0, <1>4 DEF BroadcastUnlock, SomeLeft, Live, Pending
  <1>5. ASSUME NEW p \in Procs, CollectGarbage(p) PROVE SomeLeft
    <2>1. /\ pc[p] = "collect"
          /\ msg' = [msg EXCEPT ![p] = [affiliates |-> Garbage(p), deleted |-> TRUE]] \/ msg' = msg
          /\ UNCHANGED <<watchers, reclaimed, mutex, todo, target, chan>>
      BY <1>5 DEF CollectGarbage, Broadcast
    <2>2. mutex # Nil => msg'[mutex] = msg[mutex]
      BY <2>1, NotTheHolder
    <2> QED
      BY <2>1, <2>2, QuietEffect
  <1>6. ASSUME NEW p \in Procs, PruneWatchers(p) PROVE SomeLeft
    BY <1>0, <1>6 DEF PruneWatchers, SomeLeft, Live, Pending
  <1>7. ASSUME NEW h \in Handlers, HandlerStep(h) \/ \E r \in Request : Call(h, r) PROVE SomeLeft
    <2>1. h \in Procs
      BY DEF Procs
    <2>2. UNCHANGED <<watchers, reclaimed, mutex, todo, target, chan>>
      BY <1>7 DEF HandlerStep, AffiliateUpdate, AffiliateDelete, List, ListReply, Call
    <2>3. msg' = msg \/ (pc[h] = "handle" /\ \E m : msg' = [msg EXCEPT ![h] = m])
      BY <1>7 DEF HandlerStep, AffiliateUpdate, AffiliateDelete, List, ListReply, Call, Broadcast
    <2>4. mutex # Nil => msg'[mutex] = msg[mutex]
      BY <2>1, <2>3, NotTheHolder
    <2> QED
      BY <2>2, <2>4, QuietEffect
  <1>8. ASSUME BroadcastCurrentState PROVE SomeLeft
    <2>1. GC \in Procs
      BY DEF Procs
    <2>2. UNCHANGED <<watchers, reclaimed, mutex, todo, target, chan>>
      BY <1>8 DEF BroadcastCurrentState
    <2>3. msg' = msg \/ (pc[GC] = "snapshot" /\ \E m : msg' = [msg EXCEPT ![GC] = m])
      BY <1>8 DEF BroadcastCurrentState, Broadcast
    <2>4. mutex # Nil => msg'[mutex] = msg[mutex]
      BY <2>1, <2>3, NotTheHolder
    <2> QED
      BY <2>2, <2>4, QuietEffect
  <1>9. ASSUME NEW s \in Streams, NEW c \in ClusterID, Watch(s, c) PROVE Joined(s)
    <2>1. /\ s \in Chans /\ s \notin watchers /\ s \notin reclaimed /\ chan[s] = <<>>
          /\ todo = {} /\ target = Nil
      BY <1>9 DEF Watch, QueueInv, StartInv, LockInv, Chans
    <2> QED
      BY <1>0, <1>9, <2>1 DEF Watch, Joined, Live, Pending
  <1>10. ASSUME NEW s \in Streams, Receive(s) \/ SendFails(s) PROVE Taken(s) \/ SomeLeft
    <2>1. s \in Chans
      BY DEF Chans
    <2> QED
      BY <1>10, <2>1, TakeEffect DEF Receive, SendFails
  <1>11. ASSUME PersisterReceive PROVE Taken(Persister) \/ SomeLeft
    <2>1. Persister \in Chans
      BY DEF Chans
    <2> QED
      BY <1>11, <2>1, TakeEffect DEF PersisterReceive
  <1>12. ASSUME GoGC PROVE SomeLeft
    BY <1>0, <1>12 DEF GoGC, SomeLeft, Live, Pending
  <1>13. ASSUME Tick \/ TimePasses \/ UNCHANGED vars \/ \E s \in Streams : WatchCollects(s) \/ WatchEnds(s)
         PROVE  SomeLeft
    <2>1. UNCHANGED <<watchers, reclaimed, mutex, todo, target, chan, msg>>
      BY <1>13 DEF Tick, TimePasses, vars, WatchCollects, WatchEnds
    <2> QED
      BY <2>1, QuietEffect
  <1>14. Streams \subseteq Chans /\ Persister \in Chans
    BY DEF Chans
  <1> QED
    BY <1>1, <1>2, <1>3, <1>4, <1>5, <1>6, <1>7, <1>8, <1>9, <1>10, <1>11, <1>12, <1>13, <1>14
    DEF Next, ServerNext, BroadcastGoesOn, StreamStep

-----------------------------------------------------------------------------
(***************************************************************************)
(* Total order.                                                            *)
(***************************************************************************)
LEMMA InitOrder == Init => TotalOrder
  <1> SUFFICES ASSUME Init, NEW c \in watchers \ reclaimed, NEW d \in watchers \ reclaimed
               PROVE  SuffixOf(Pending(c), Pending(d))
    BY DEF TotalOrder
  <1>1. c = d /\ Pending(c) \in Seq(WatchResponse)
    BY LiveType, InitQueue DEF Init, Live
  <1> QED
    BY <1>1, SuffixSelf

LEMMA NextOrder == QueueInv /\ TotalOrder /\ [Next]_vars => TotalOrder'
  <1> SUFFICES ASSUME QueueInv, TotalOrder, [Next]_vars, NEW c \in Live', NEW d \in Live'
               PROVE  \/ SuffixOf(Pending(c)', Pending(d)')
                      \/ SuffixOf(Pending(d)', Pending(c)')
    BY DEF TotalOrder, Live
  <1>1. \A e \in Live : e \in Chans /\ Pending(e) \in Seq(WatchResponse)
    BY LiveType
  <1>2. <<>> \in Seq(WatchResponse)
    OBVIOUS
  <1>3. \A e, f \in Live : \/ SuffixOf(Pending(e), Pending(f))
                           \/ SuffixOf(Pending(f), Pending(e))
    BY DEF TotalOrder, Live
  <1>4. CASE Published
    <2>1. PICK m \in WatchResponse : \A e \in Live : Pending(e)' = Append(Pending(e), m)
      BY <1>4 DEF Published
    <2>2. c \in Live /\ d \in Live
      BY <1>4 DEF Published
    <2> QED
      BY <1>1, <1>3, <2>1, <2>2, SuffixAppend
  <1>5. CASE SomeLeft
    BY <1>3, <1>5 DEF SomeLeft
  <1>6. ASSUME NEW r \in Chans, Joined(r)
        PROVE  SuffixOf(Pending(c)', Pending(d)') \/ SuffixOf(Pending(d)', Pending(c)')
    <2>1. CASE c = r
      BY <1>1, <1>2, <1>6, <2>1, SuffixEmpty DEF Joined
    <2>2. CASE d = r
      BY <1>1, <1>2, <1>6, <2>2, SuffixEmpty DEF Joined
    <2>3. CASE c # r /\ d # r
      BY <1>3, <1>6, <2>3 DEF Joined
    <2> QED
      BY <2>1, <2>2, <2>3
  <1>7. ASSUME NEW r \in Chans, Taken(r)
        PROVE  SuffixOf(Pending(c)', Pending(d)') \/ SuffixOf(Pending(d)', Pending(c)')
    <2>1. /\ r \in Live /\ c \in Live /\ d \in Live
          /\ Pending(r) # <<>> /\ Pending(r)' = Tail(Pending(r))
          /\ c # r => Pending(c)' = Pending(c)
          /\ d # r => Pending(d)' = Pending(d)
      BY <1>7 DEF Taken
    <2>2. CASE c = r /\ d = r
      <3>1. Tail(Pending(r)) \in Seq(WatchResponse)
        BY <1>1, <2>1
      <3> QED
        BY <2>1, <2>2, <3>1, SuffixSelf
    <2>3. CASE c = r /\ d # r
      BY <1>1, <1>3, <2>1, <2>3, SuffixTailLeft, SuffixTailRight
    <2>4. CASE c # r /\ d = r
      BY <1>1, <1>3, <2>1, <2>4, SuffixTailLeft, SuffixTailRight
    <2>5. CASE c # r /\ d # r
      BY <1>3, <2>1, <2>5
    <2> QED
      BY <2>2, <2>3, <2>4, <2>5
  <1> QED
    BY <1>4, <1>5, <1>6, <1>7, StepEffect

\* All live watchers see broadcasts in one order without gaps, for any number of clients,
\* any channel capacity and whatever the Go collector does: what any two of them have
\* still to read are suffixes of the same sequence.
THEOREM BroadcastsTotallyOrdered == Spec => []TotalOrder
  <1> QED
    BY InitQueue, NextQueue, InitOrder, NextOrder, PTL DEF Spec

-----------------------------------------------------------------------------
(***************************************************************************)
(* Refinement of AtomicBroadcast.                                          *)
(***************************************************************************)
LEMMA InitAtomic == Init => Abstract!Init
  <1> SUFFICES ASSUME Init PROVE Abstract!Init
    OBVIOUS
  <1>1. Live \in SUBSET Chans
    BY LiveType, InitQueue
  <1>2. \A c \in Chans : Pending(c) = <<>>
    BY ConstantsAssumption DEF Init, Pending
  <1>3. LiveQueue = [c \in Chans |-> <<>>]
    BY <1>2 DEF LiveQueue, Pending
  <1> QED
    BY <1>1, <1>3 DEF Abstract!Init

LEMMA NextAtomic == QueueInv /\ [Next]_vars => [Abstract!Next]_Abstract!broadcastVars
  <1> SUFFICES ASSUME QueueInv, [Next]_vars
               PROVE  Abstract!Next
    OBVIOUS
  <1>1. Live \subseteq Chans /\ \A e \in Live : Pending(e) \in Seq(WatchResponse)
    BY LiveType
  <1>1a. LiveQueue = [c \in Chans |-> IF c \in Live THEN Pending(c) ELSE <<>>]
    BY DEF LiveQueue, Pending
  <1>1b. LiveQueue' = [c \in Chans |-> IF c \in Live' THEN Pending(c)' ELSE <<>>]
    BY DEF LiveQueue, Pending
  <1>2. CASE Published /\ Live # {}
    <2>1. PICK m \in WatchResponse : \A e \in Live : Pending(e)' = Append(Pending(e), m)
      BY <1>2 DEF Published
    <2>2. PICK r : r \in Live
      BY <1>2
    <2>3. LiveQueue' = [c \in Chans |-> IF c \in Live THEN Append(LiveQueue[c], m)
                                        ELSE LiveQueue[c]]
      BY <1>1a, <1>1b, <1>2, <2>1 DEF Published
    <2>4. LiveQueue'[r] = Append(Pending(r), m)
      BY <1>1, <1>1b, <1>2, <2>1, <2>2 DEF Published
    <2>5. LiveQueue'[r] # <<>> /\ LiveQueue'[r][Len(LiveQueue'[r])] = m
      BY <1>1, <2>2, <2>4
    <2>6. Abstract!PutEverywhere(m)
      BY <1>2, <2>3 DEF Abstract!PutEverywhere, Published
    <2> QED
      BY <2>2, <2>5, <2>6 DEF Abstract!Publish, Abstract!Next
  <1>3. CASE SomeLeft \/ (Published /\ Live = {})
    <2> DEFINE R == Live \ Live'
    <2>1. Live' = Live \ R /\ R \in SUBSET Chans /\ R \subseteq Live
      BY <1>1, <1>3 DEF SomeLeft, Published
    <2>2. LiveQueue' = [c \in Chans |-> IF c \in R THEN <<>> ELSE LiveQueue[c]]
      BY <1>1a, <1>1b, <1>3 DEF SomeLeft, Published
    <2>3. Abstract!Leave(R)
      BY <2>1, <2>2 DEF Abstract!Leave
    <2> QED
      BY <2>1, <2>3 DEF Abstract!Next
  <1>4. ASSUME NEW r \in Chans, Taken(r) PROVE Abstract!Next
    <2>1. LiveQueue' = [LiveQueue EXCEPT ![r] = Tail(@)]
      BY <1>1a, <1>1b, <1>4 DEF Taken
    <2>2. LiveQueue[r] # <<>>
      BY <1>1a, <1>4 DEF Taken
    <2>3. Abstract!Take(r)
      BY <1>4, <2>1, <2>2 DEF Abstract!Take, Taken
    <2> QED
      BY <2>3 DEF Abstract!Next
  <1>5. ASSUME NEW r \in Chans, Joined(r) PROVE Abstract!Next
    <2>1. LiveQueue' = LiveQueue
      BY <1>1a, <1>1b, <1>5 DEF Joined
    <2>2. Abstract!Subscribe(r)
      BY <1>5, <2>1 DEF Abstract!Subscribe, Joined
    <2> QED
      BY <2>2 DEF Abstract!Next
  <1> QED
    BY <1>2, <1>3, <1>4, <1>5, StepEffect

\* The loop of blocking sends under the watchers' mutex implements an atomic broadcast with
\* unbounded queues, for every number of handlers and streams and every capacity: each
\* step of the server is a step of AtomicBroadcast or leaves its state alone.
THEOREM ImplementsAtomicBroadcast == Spec => BroadcastIsAtomic
  <1> QED
    BY InitQueue, NextQueue, InitAtomic, NextAtomic, PTL DEF Spec, BroadcastIsAtomic, Abstract!Spec

=============================================================================
