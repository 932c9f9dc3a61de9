-------------------------- MODULE MCClubLicences --------------------------
EXTENDS ClubLicences, TLC

Symmetry == Permutations(Users) \cup Permutations(Licences)
=============================================================================
