------------------------------ MODULE MCPages ------------------------------
(***************************************************************************)
(* Pages with two or three of what each page lists.                        *)
(***************************************************************************)
EXTENDS Pages

CONSTANTS a, b, c, d

\* Three tabs with forms of their own, the last of them not tracked, and a
\* fourth whose form has the id of the first.
MCResetsOf == [t \in Tabs |-> IF t = d THEN {a} ELSE {t}]
=============================================================================
