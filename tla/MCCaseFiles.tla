------------------------------ MODULE MCCaseFiles ------------------------------
EXTENDS CaseFiles

CONSTANT t1

MCMatterOf == [c \in Case |-> t1]
=============================================================================
