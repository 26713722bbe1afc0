-------------------------- MODULE MCSyncController --------------------------
(***************************************************************************)
(* Instances of SyncController and SyncSummary for TLC.                    *)
(***************************************************************************)
EXTENDS SyncSummary

\* The ends of an entry: a directory that Mutagen has yet to make on the
\* manager's side, and one that is on neither side.
MissingEnd == [n \in Name |-> "missing"]
Directory  == [n \in Name |-> IF n = "bad" THEN "missing" ELSE "directory"]

\* All entries are of one container.
AllOfOne == [n \in Name |-> "c1"]

BadFirst == <<"bad", "good">>
GoodOnly == <<"good">>
=============================================================================
