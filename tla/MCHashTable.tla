---------------------------- MODULE MCHashTable -----------------------------
(* Keys are (home, discriminator) pairs, so every assignment of hash values *)
(* to rows occurs; homes 0 and 3 are at the ends of a table of four slots,  *)
(* 3 and 7 share a home until the table has eight.                          *)
EXTENDS HashTable

CONSTANTS Homes, Twins

MCKey == Homes \X Twins
MCHash == [k \in MCKey |-> k[1]]

=============================================================================
