---------------------------- MODULE MCGibbsRead ----------------------------
\* A path of seven nodes with the chord 4-6, and a node without neighbours,
\* in the classes that Coloring gives it (README).  Three workers get 2, 2, 0
\* then 1, 1, 1 then 1, 0, 0 nodes.  The draw changes with every neighbour's
\* spin, so a stale or a missed neighbour shows.
EXTENDS GibbsRead

MCNodes == 1 .. 8
MCSpins == {-1, 1}
MCNeighbors ==
  <<<<2>>, <<1, 3>>, <<2, 4>>, <<3, 5, 6>>, <<4, 6>>, <<5, 7, 4>>, <<6>>, <<>>>>
MCClasses == <<<<2, 4, 7, 8>>, <<1, 3, 6>>, <<5>>>>
MCStart == <<1, -1, -1, 1, 1, -1, 1, -1>>

MCResample(k, v, s) ==
  IF (Cardinality({i \in DOMAIN s : s[i] = 1}) + v + k) % 2 = 0 THEN 1 ELSE -1
=============================================================================
