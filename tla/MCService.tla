------------------------------ MODULE MCService ------------------------------
\* Small instances of DiscoveryService for TLC.
EXTENDS DiscoveryService

=============================================================================
