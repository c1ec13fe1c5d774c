------------------------------ MODULE MCAdmission ------------------------------
EXTENDS Admission, TLC

EntrySymmetry == Permutations(Entry)
=============================================================================
