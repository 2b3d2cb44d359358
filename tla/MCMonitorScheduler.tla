-------------------------- MODULE MCMonitorScheduler --------------------------
\* One monitor and up to two requests about it, in a process that starts and stops.
EXTENDS MonitorScheduler

CONSTANTS m1, r1, r2
=============================================================================
