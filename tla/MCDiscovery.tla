---------------------------- MODULE MCDiscovery ----------------------------
\* Small instances of ClusterDiscoveryServer for TLC.
EXTENDS DiscoveryBroadcast, TLC

\* Handlers serve any request, so they are interchangeable (safety runs only).
HandlerSymmetry == Permutations(Handlers)

\* A TTL that has run out when it is set, and a missing one.
PastOrDefault == {-1, 0}

=============================================================================
