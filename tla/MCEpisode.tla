----------------------------- MODULE MCEpisode ------------------------------
(***************************************************************************)
(* The three things that are kept of an episode: the plan made of the      *)
(* story, the graph of revisions and the checkpoint of the pipeline.  They *)
(* share no state and are checked side by side: a behaviour takes the      *)
(* steps of one of them while the others rest.                             *)
(***************************************************************************)
EXTENDS MCStoryPlanning, MCProductionSearch, EpisodePipeline

VARIABLE part

mcvars == <<vars, svars, evars, part>>

MCInit ==
  /\ part \in {"plan", "graph", "pipeline"}
  /\ PlanningInit /\ StateInit /\ PipelineInit
  /\ part # "plan" => text = CHOOSE t \in Texts : TRUE
  /\ part # "plan" => bible = CHOOSE b \in BibleData : ValidBible(b)

MCNext ==
  /\ \/ part = "plan" /\ PlanningNext /\ UNCHANGED <<svars, evars>>
     \/ part = "graph" /\ StateNext /\ UNCHANGED <<vars, evars>>
     \/ part = "pipeline" /\ PipelineNext /\ UNCHANGED <<vars, svars>>
  /\ UNCHANGED part

\* The fairness is the pipeline's.
MCSpec == MCInit /\ [][MCNext]_mcvars /\ Fairness
=============================================================================
