-------------------------- MODULE MCDetachSequence --------------------------
EXTENDS DetachSequence

HeadReleases == [n \in {"node1"} |-> "head"]
=============================================================================
