---------------------------- MODULE MCMigrations ----------------------------
(* A history of releases for TLC. *)
EXTENDS Migrations, TLC

CONSTANTS old, new, again, edited, a, b

\* Release old has files 1 and 2; new adds 3, and is run twice; edited has another
\* text in file 2.
MCRelease ==
    [r \in Runs |->
        CASE r = old -> [v \in {1, 2} |-> a]
          [] r \in {new, again} -> [v \in {1, 2, 3} |-> a]
          [] r = edited -> [v \in {1, 2, 3} |-> IF v = 2 THEN b ELSE a]]
=============================================================================
