---------------------------- MODULE MCBridgeMonitor ----------------------------
\* The instances of BridgeMonitor that TLC checks.
EXTENDS BridgeMonitor

OneFailed == {1}
================================================================================
