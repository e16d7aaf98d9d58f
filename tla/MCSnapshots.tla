----------------------------- MODULE MCSnapshots -----------------------------
(* A small instance of Snapshots for TLC.                                  *)
EXTENDS Snapshots

CONSTANTS r1

OneRequest == {r1}

Singles == {{d} : d \in Disturbances}
=============================================================================
