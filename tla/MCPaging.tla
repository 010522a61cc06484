------------------------------ MODULE MCPaging ------------------------------
(* A memory map with a hole in the reserved part and one behind it, and    *)
(* the behaviours up to the first step that is not orderly.                *)
EXTENDS Paging

MCMaps == {{[base |-> 0, len |-> 1], [base |-> 3, len |-> 4], [base |-> 8, len |-> 9]}}
Orderly == orderly
=============================================================================
