---------------------------- MODULE MCShellPage -----------------------------
EXTENDS ShellPage
=============================================================================
