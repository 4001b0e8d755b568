------------------------------- MODULE MCBrowser -------------------------------
EXTENDS Browser, TLC

CONSTANTS f, g

MCFirm == {f, g}

\* In both firms, in other roles.
MCBeginnings == {f :> "MP" @@ g :> "BM"}

\* The tabs at the list, or with something of it.
Readers == {t \in Tab : cache[t] # Unread \/ (InShell(t) /\ tab[t].open)}

\* Either no tab ever comes to the list, or one does, with one session, and nobody enrolls.
Either == Readers = {} \/ (Cardinality(Readers) = 1 /\ minted <= 1 /\ factor = "confirmed")
=============================================================================
