------------------------------ MODULE MCExecution ------------------------------
EXTENDS ExecutionRecovery, TLC

TokenSymmetry == Permutations(Token)
================================================================================
