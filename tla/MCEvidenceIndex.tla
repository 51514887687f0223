--------------------------- MODULE MCEvidenceIndex ---------------------------
(* Checking the safety of EvidenceIndex.  The pages are interchangeable.    *)
EXTENDS EvidenceIndex, TLC

PagesAlike == Permutations(Pages)
=============================================================================
