------------------------------- MODULE CachedView -------------------------------
(***************************************************************************)
(* What a screen that keeps a cached copy of the server's rows promises to *)
(* the person in front of it.  Rows change at any time, by anybody; a copy *)
(* may be behind, but it never goes back, it shows every write it is owed  *)
(* once it is fetched again, and it is fetched again, or the screen says   *)
(* that it could not be.  A screen that calls invalidateQueries after a    *)
(* write implements this module; it owes the write to the copies that have *)
(* no older fetch under way which goes on.                                 *)
(***************************************************************************)
EXTENDS Naturals

CONSTANT Viewer

VARIABLES version,  \* committed changes of the rows so far
          seen,     \* seen[v]: the version v's copy was read at
          owed,     \* owed[v]: the version of the latest acknowledged write v's copy is owed
          shown     \* shown[v]: v has its copy on the screen, and no error in its place

vars == <<version, seen, owed, shown>>

Init ==
  /\ version = 0
  /\ seen = [v \in Viewer |-> 0]
  /\ owed = [v \in Viewer |-> 0]
  /\ shown = [v \in Viewer |-> FALSE]

\* A change by one of the viewers or by anybody else.
Change ==
  /\ version' = version + 1
  /\ UNCHANGED <<seen, owed, shown>>

\* Some viewers, copies of one screen, are owed the n-th change, which was this person's.
Acknowledge ==
  /\ \E n \in 1 .. version, S \in SUBSET Viewer :
       /\ \A v \in S : n > owed[v]
       /\ owed' = [v \in Viewer |-> IF v \in S THEN n ELSE owed[v]]
  /\ UNCHANGED <<version, seen, shown>>

\* A new copy: no older than the last one, nor than what was acknowledged.
Refetch(v) ==
  /\ \E n \in seen[v] .. version : n >= owed[v] /\ seen' = [seen EXCEPT ![v] = n]
  /\ shown' = [shown EXCEPT ![v] = TRUE] \/ UNCHANGED shown
  /\ UNCHANGED <<version, owed>>

\* Copies come to the screen as they are, and leave it; an error takes the place of a copy.
Turn ==
  /\ shown' \in [Viewer -> BOOLEAN]
  /\ UNCHANGED <<version, seen, owed>>

Next == Change \/ Acknowledge \/ Turn \/ \E v \in Viewer : Refetch(v)

Behind(v) == shown[v] /\ seen[v] < owed[v]

Spec == Init /\ [][Next]_vars

\* No viewer stays behind for ever.
CaughtUp == \A v \in Viewer : []<>~Behind(v)

FairSpec == Spec /\ CaughtUp
=============================================================================
