-------------------------- MODULE MCLanguageGateway --------------------------
(* LanguageGateway for TLC: sessions are interchangeable, and so are answers. *)
EXTENDS LanguageGateway, TLC

Symmetry == Permutations(Session) \cup Permutations(Answer)

=============================================================================
