-------------------------- MODULE MCVideoLifecycle --------------------------
EXTENDS VideoLifecycle
=============================================================================
