-------------------------- MODULE MCTeamRetention --------------------------
EXTENDS TeamRetention, TLC

CONSTANTS h1, h2

\* Two requests in flight are interchangeable.
Symmetry == Permutations(Handlers)
=============================================================================
