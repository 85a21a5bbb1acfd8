--------------------------- MODULE MCMemoryStores ---------------------------
(* A small instance of MemoryStores for TLC. *)
EXTENDS MemoryStoresProperties

CONSTANTS c1, c2, r1, r2, k1, n1

=============================================================================
