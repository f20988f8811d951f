------------------------------ MODULE MCDeletion ------------------------------
\* One invitation, and one or two of everything that is kept of it.
EXTENDS Deletion, TLC

=============================================================================
