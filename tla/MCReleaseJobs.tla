---------------------------- MODULE MCReleaseJobs ----------------------------
EXTENDS ReleaseJobs, TLC

\* A release without a signature asset.
ChecksumAndBundle == <<"downloading-checksum", "downloading">>

Symmetry == Permutations(Fiber)
=============================================================================
