--------------------------- MODULE MCWorkUploads ---------------------------
(***************************************************************************)
(* WorkUploads with two jobs of two files each for one work.  They share a *)
(* file, as when a form is submitted twice.                                *)
(***************************************************************************)
EXTENDS WorkUploads

CONSTANTS j1, j2, f1, f2, f3

MCFilesOf == [j \in Jobs |-> IF j = j1 THEN {f1, f2} ELSE {f2, f3}]
=============================================================================
