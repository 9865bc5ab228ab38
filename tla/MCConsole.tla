----------------------------- MODULE MCConsole -----------------------------
EXTENDS ConsolePages
CONSTANTS s1, s2
=============================================================================
