--------------------------- MODULE MCPresentations ---------------------------
(* A university and one optional claim, lists of at most two texts and two  *)
(* kinds of events: the smallest instance with a partial approval, a padded *)
(* claim beside another one and a change on top of a change.                *)
EXTENDS Presentations

CONSTANTS cgpa, university

BothClaims == {university, cgpa}
OnlyCgpa == {cgpa}
=============================================================================
