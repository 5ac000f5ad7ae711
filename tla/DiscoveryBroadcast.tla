-------------------------- MODULE DiscoveryBroadcast --------------------------
(***************************************************************************)
(* ClusterDiscoveryServer implements AtomicBroadcast: although a broadcast *)
(* visits the watchers one by one and waits for room in their channels,    *)
(* it is as if the message reached all of them when the mutex was taken.   *)
(***************************************************************************)
EXTENDS ClusterDiscoveryServer

Live == watchers \ reclaimed

\* What each live watcher has still to read: a message of the broadcast in progress
\* counts as delivered to the watchers that have still to be visited.
LiveQueue == [c \in Chans |-> IF c \in Live THEN Pending(c) ELSE <<>>]

Abstract == INSTANCE AtomicBroadcast WITH
    Message <- WatchResponse,
    Reader <- Chans,
    subscribed <- Live,
    queue <- LiveQueue

\* Every message reaches every watcher that is registered when the broadcast starts
\* and stays, exactly once and at the same place in the order: no interleaving of
\* handlers, slow readers, registrations, prunings and cleared weak pointers shows
\* that broadcast is a loop of blocking sends.
BroadcastIsAtomic == Abstract!Spec

=============================================================================
