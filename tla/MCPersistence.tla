--------------------------- MODULE MCPersistence ---------------------------
\* Small instances of DiscoveryPersistence for TLC.
EXTENDS DiscoveryPersistence

=============================================================================
