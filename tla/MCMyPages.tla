------------------------------ MODULE MCMyPages ------------------------------
EXTENDS MyPages
=============================================================================
