------------------------------ MODULE MCDocuments ------------------------------
EXTENDS Documents

\* Documents are interchangeable: an upload takes the first fresh one, as it could in any
\* other order.
InOrder ==
  \A m \in Member :
    call[m].phase = "reserve" /\ call'[m].phase = "put" =>
      \A d \in Doc : d < call'[m].doc => ~Fresh(d)

\* Either several members' requests are followed, or one member's requests and screen.
Either ==
  place # None =>
    /\ granted = {limit}
    /\ \A m \in Member \ {Screen} : call[m] = Idle
    /\ Stored \cup objects \subseteq {1}
=============================================================================
