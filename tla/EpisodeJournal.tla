--------------------------- MODULE EpisodeJournal ---------------------------
(***************************************************************************)
(* What a checkpointed episode promises whoever resumes it: the results of *)
(* its stages, in stage order, as a journal that only ever grows at its end*)
(* until every stage has one.                                              *)
(***************************************************************************)
EXTENDS Sequences, SequencesExt

CONSTANTS Stages,   \* number of stages
          Result    \* results of a stage

VARIABLE journal

Init == journal = <<>>

\* One or more stages become durable at once: one may have been finished
\* earlier without its checkpoint being written.
Extend ==
  /\ journal' \in UNION {[1..n -> Result] : n \in Len(journal) + 1..Stages}
  /\ IsPrefix(journal, journal')

Spec == Init /\ [][Extend]_journal
FairSpec == Spec /\ WF_journal(Extend)
=============================================================================
