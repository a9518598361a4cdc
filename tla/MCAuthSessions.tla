---------------------------- MODULE MCAuthSessions ----------------------------
EXTENDS AuthSessions
=============================================================================
