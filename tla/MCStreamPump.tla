---------------------------- MODULE MCStreamPump ----------------------------
(* Two sessions for TLC.  In the first every job belongs to generation 0,   *)
(* so the jobs are interchangeable and one cancellation makes all of them   *)
(* stale.  In the second the jobs are of two generations, or of none.       *)
EXTENDS StreamPump, TLC

\* Gibbs takes two cores for each model.
Gibbs == [algorithm |-> "Gibbs", workers |-> 2]
BothSamplers == {[algorithm |-> "Sa", workers |-> 8], Gibbs}
GibbsAlone == {Gibbs}

\* Refused numbers, numbers that fit and, on a host of two, an oversized one.
EveryToml == {-1, 0, 1, 2, 5, NotToml}
SomeTomls == {0, 1, 3}

SameGeneration == [j \in Jobs |-> 0]
Interchangeable == Permutations(Jobs)

MixedGenerations ==
  LET first == CHOOSE j \in Jobs : TRUE
      second == CHOOSE j \in Jobs \ {first} : TRUE
  IN  [j \in Jobs |-> IF j = first THEN 0 ELSE IF j = second THEN 1 ELSE NoMark]
=============================================================================
