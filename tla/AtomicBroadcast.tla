--------------------------- MODULE AtomicBroadcast ---------------------------
(***************************************************************************)
(* What broadcast and the watcher list promise, whatever their locks,      *)
(* channels and weak pointers do: a message is put at the end of the queue *)
(* of every subscriber in one step, queues are unbounded, and a subscriber *)
(* takes messages from the front of its own queue.  A subscriber that      *)
(* leaves is promised nothing more.                                        *)
(***************************************************************************)
EXTENDS Sequences

CONSTANTS Message, Reader

VARIABLES subscribed, queue

broadcastVars == <<subscribed, queue>>

Init ==
    /\ subscribed \in SUBSET Reader
    /\ queue = [r \in Reader |-> <<>>]

PutEverywhere(m) ==
    /\ m \in Message
    /\ queue' = [r \in Reader |->
                    IF r \in subscribed THEN Append(queue[r], m) ELSE queue[r]]
    /\ UNCHANGED subscribed

\* Any message may be published; it is the one that any subscriber's queue then ends
\* with.  (Without subscribers nothing happens.)
Publish ==
    \E r \in subscribed :
        /\ queue'[r] # <<>>
        /\ PutEverywhere(queue'[r][Len(queue'[r])])

Take(r) ==
    /\ r \in subscribed
    /\ queue[r] # <<>>
    /\ queue' = [queue EXCEPT ![r] = Tail(@)]
    /\ UNCHANGED subscribed

Subscribe(r) ==
    /\ r \notin subscribed
    /\ subscribed' = subscribed \cup {r}
    /\ UNCHANGED queue

Leave(R) ==
    /\ R \subseteq subscribed
    /\ subscribed' = subscribed \ R
    /\ queue' = [r \in Reader |-> IF r \in R THEN <<>> ELSE queue[r]]

Next ==
    \/ Publish
    \/ \E r \in Reader : Take(r) \/ Subscribe(r)
    \/ \E R \in SUBSET Reader : Leave(R)

Spec == Init /\ [][Next]_broadcastVars

=============================================================================
