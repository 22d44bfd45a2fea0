------------------------------ MODULE MCBackend ------------------------------
EXTENDS Backend
=============================================================================
