----------------------------- MODULE MCRetrieve -----------------------------
EXTENDS Retrieve

=============================================================================
