------------------------- MODULE MCCandidatePreview -------------------------
EXTENDS CandidatePreview
=============================================================================
