--------------------------- MODULE MCShellSessions ---------------------------
EXTENDS ShellSessions, TLC
=============================================================================
