------------------------- MODULE MCCommitmentOutputs --------------------------
EXTENDS CommitmentOutputs
DelaySet == {2, 3}
TimeoutSet == {0, 3}
===============================================================================
