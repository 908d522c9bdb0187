------------------------------ MODULE MCPaging ------------------------------
(* Small values for Paging: four rows, two to a page.                       *)
EXTENDS Paging

CONSTANTS r1, r2, r3, r4
=============================================================================
