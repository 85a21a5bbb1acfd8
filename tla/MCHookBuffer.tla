---------------------------- MODULE MCHookBuffer ----------------------------
(* Small instances of HookBuffer for TLC. *)
EXTENDS HookBufferLedger, HookBufferPhased, TLC

CONSTANTS e1, e2, e3, h1, h2, h3

FullSymmetry == Permutations(Handler) \cup Permutations(Entry)

=============================================================================
