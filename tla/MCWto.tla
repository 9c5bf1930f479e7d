------------------------------- MODULE MCWto -------------------------------
(***************************************************************************)
(* Instances of Wto: every control-flow graph of four instructions in      *)
(* which an instruction has at most two successors, as the instructions of *)
(* a program do.                                                           *)
(***************************************************************************)
EXTENDS Wto

MCLabels == 0 .. 4

(* The entry leads to the first instruction; a label without children      *)
(* stands for the exit.                                                    *)
SmallGraphs ==
  {g \in [MCLabels -> {S \in SUBSET (1 .. 4) : Cardinality(S) <= 2}] :
     g[0] = {1}}
=============================================================================
