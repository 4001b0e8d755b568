------------------------------ MODULE MCSettings -------------------------------
EXTENDS Settings

CONSTANTS e1, e2

MCName == [e \in Entry |-> "asociado"]
=============================================================================
