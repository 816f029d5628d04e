------------------------------ MODULE MCLobby ------------------------------
(* Small instances of Lobby for TLC. *)
EXTENDS Lobby

(* Streams are interchangeable, and so are player ids. *)
Symmetry == Permutations(Handlers) \cup Permutations(Players)

=============================================================================
