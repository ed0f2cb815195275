----------------------------- MODULE MCAppLogs -----------------------------
EXTENDS AppLogs
=============================================================================
