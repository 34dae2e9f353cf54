--------------------------- MODULE MCSourceFilter ---------------------------
(* Two pages, two tables and two workers: a table can gain and lose its    *)
(* first and its last subscriber while a worker is unborn, newborn, living *)
(* or dead, with up to MaxPushes pushes queued toward it.                  *)
EXTENDS SourceFilter
=============================================================================
