-------------------------- MODULE MCResearchPipeline --------------------------
(***************************************************************************)
(* Instances of the research pipeline for TLC.                             *)
(***************************************************************************)
EXTENDS ResearchPipeline

Live  == [capture |-> FALSE, mode |-> "live", backend |-> "kalshi"]
Sim   == [capture |-> FALSE, mode |-> "live", backend |-> "paper_sim"]
Unset == [capture |-> FALSE, mode |-> None, backend |-> "kalshi"]
Capture == [capture |-> TRUE, mode |-> None, backend |-> "paper_sim"]

AllSettings == {Live, Sim, Unset, Capture}

Windows == <<0, 1>>

\* A row of the file that trade.sh and collect.sh add to the execution dataset.
Retroactive ==
  <<[row |-> [execution_source_class |-> "retroactive_synthetic"], split |-> "train"]>>

\* Two processes ask for outcomes while markets settle; one market was traded.
Labels == [settings |-> {Live}, before |-> {}, orders |-> {}, traded |-> {1},
           markets |-> {1, 2}, lines |-> 0, trains |-> 0, deaths |-> 0, lost |-> 0,
           time |-> 0, builds |-> FALSE, job |-> "backfill"]

\* A market settles while datasets are built from its quotes and models from them.
Datasets == [settings |-> {Live}, before |-> {}, orders |-> {}, traded |-> {1},
             markets |-> {1}, lines |-> 2, trains |-> 1, deaths |-> 1, lost |-> 0,
             time |-> 1, builds |-> TRUE, job |-> "backfill"]

\* One order is recorded and built into rows.
Fills == [settings |-> AllSettings, before |-> {}, orders |-> Cids, traded |-> {},
          markets |-> {}, lines |-> 0, trains |-> 0, deaths |-> 1, lost |-> 1,
          time |-> 1, builds |-> TRUE, job |-> "idle"]

\* An order an earlier run made, its market's quote and outcome, and both models.
Gate == [settings |-> {Live}, before |-> Cids, orders |-> {}, traded |-> {1},
         markets |-> {1}, lines |-> 1, trains |-> 2, deaths |-> 0, lost |-> 0,
         time |-> 1, builds |-> TRUE, job |-> "backfill"]

GateScenario == {Gate}
AllScenarios == {Labels, Datasets, Fills, Gate}
=============================================================================
