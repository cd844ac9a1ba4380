--------------------------- MODULE MCDaemonLifecycle ------------------------
EXTENDS DaemonLifecycle

MCWorkers == {"sweep", "renew", "scan"}
=============================================================================
