------------------------- MODULE MCMonitorLifecycle -------------------------
EXTENDS MonitorLifecycle
=============================================================================
