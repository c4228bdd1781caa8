-------------------------- MODULE MCRelayerLifecycle --------------------------
EXTENDS RelayerLifecycle
=============================================================================
