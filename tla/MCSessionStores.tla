--------------------------- MODULE MCSessionStores ---------------------------
(* Two requests, two sessions.                                             *)
EXTENDS SessionStores, TLC

CONSTANT text

TextLength == (text :> 2)

Symmetric == Permutations(Client) \union Permutations(Id)

=============================================================================
