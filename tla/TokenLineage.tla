----------------------------- MODULE TokenLineage -----------------------------
(***************************************************************************)
(* What a refresh-token family promises, with every call atomic.           *)
(*                                                                         *)
(* A row stands for one refresh_token row and the session row minted with  *)
(* it: mintSession and rotate_refresh always insert the two together and   *)
(* nothing deletes either.  A family is named by its first row.  The       *)
(* module speaks of the rows of one identity.                              *)
(***************************************************************************)
CONSTANTS Row,     \* identities of refresh_token rows
          NoRow    \* "no parent", "not inserted yet"

ASSUME NoRowAssumption == NoRow \notin Row

VARIABLES issued,  \* rows inserted and committed
          family,  \* family[r]: the first row of r's family
          parent,  \* parent[r]: the row whose rotation inserted r
          used,    \* refresh_token.used_at IS NOT NULL
          revoked, \* refresh_token.revoked_at IS NOT NULL
          ended    \* session.revoked_at IS NOT NULL

lineageVars == <<issued, family, parent, used, revoked, ended>>

LineageType ==
  /\ issued \subseteq Row
  /\ family \in [Row -> Row \cup {NoRow}]
  /\ parent \in [Row -> Row \cup {NoRow}]
  /\ used \subseteq issued
  /\ revoked \subseteq issued
  /\ ended \subseteq issued
  /\ \A r \in issued : family[r] \in issued /\ family[family[r]] = family[r]
  /\ \A r \in Row : parent[r] \in issued \cup {NoRow}

\* The committed rows that share p's family_id.
Members(p) == {r \in issued : family[r] = family[p]}

LineageInit ==
  /\ issued = {} /\ used = {} /\ revoked = {} /\ ended = {}
  /\ family = [r \in Row |-> NoRow]
  /\ parent = [r \in Row |-> NoRow]

\* mintSession: a fresh session with the first token of a fresh family.
Mint(r) ==
  /\ r \in Row \ issued
  /\ issued' = issued \cup {r}
  /\ family' = [family EXCEPT ![r] = r]
  /\ UNCHANGED <<parent, used, revoked, ended>>

\* A token that is neither spent nor revoked is spent, and its child is born.
Rotate(p, r) ==
  /\ p \in issued \ (used \cup revoked)
  /\ r \in Row \ issued
  /\ issued' = issued \cup {r}
  /\ family' = [family EXCEPT ![r] = family[p]]
  /\ parent' = [parent EXCEPT ![r] = p]
  /\ used' = used \cup {p}
  /\ UNCHANGED <<revoked, ended>>

\* A spent token came back: the family dies as a whole, tokens and sessions.
Kill(p) ==
  /\ p \in used \ revoked
  /\ revoked' = revoked \cup Members(p)
  /\ ended' = ended \cup Members(p)
  /\ UNCHANGED <<issued, family, parent, used>>

\* Sign-out of p ends every session of the family.  Of its tokens it revokes p
\* and a downward closed part: a child committed while sign_out() waited for its
\* parent's row lock may be missed (SessionFamily says why).
Cut(p) ==
  /\ p \in issued
  /\ \E S \in SUBSET Members(p) :
       /\ p \in revoked \cup S
       /\ \A r \in S : parent[r] \in revoked \cup S \cup {NoRow}
       /\ revoked' = revoked \cup S
  /\ ended' = ended \cup Members(p)
  /\ UNCHANGED <<issued, family, parent, used>>

\* revokeAllSessionsFor: every session of the identity, no token.
EndAll ==
  /\ ended' = issued
  /\ UNCHANGED <<issued, family, parent, used, revoked>>

LineageNext ==
  \/ \E r \in Row : Mint(r)
  \/ \E p, r \in Row : Rotate(p, r)
  \/ \E p \in Row : Kill(p) \/ Cut(p)
  \/ EndAll

LineageSpec == LineageInit /\ [][LineageNext]_lineageVars
=============================================================================
