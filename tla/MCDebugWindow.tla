--------------------------- MODULE MCDebugWindow ---------------------------
EXTENDS DebugWindow

AllFaults == {"store", "damage", "api", "ssh", "reload", "restart", "timer", "stop",
              "state", "host", "signal", "unsaved", "crash", "death"}

=============================================================================
