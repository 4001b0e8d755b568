------------------------------- MODULE MCClients -------------------------------
EXTENDS Clients

CONSTANTS n1, n2

All == [name |-> Absent, status |-> Absent]
MCFilter == {All, [All EXCEPT !.name = n1], [All EXCEPT !.status = "active"]}

\* A fourth client leaves room for one change, to keep the run short.
Bounded == begun + changes <= 5
=============================================================================
