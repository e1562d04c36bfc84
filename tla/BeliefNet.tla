------------------------------ MODULE BeliefNet ------------------------------
(***************************************************************************)
(* Drawing configurations from a tensor network (src/flatiron/sample.rs):  *)
(* belief propagation over the double layer, then one spin after the other *)
(* from its marginal, each fixed spin refreshing only its own messages.    *)
(*                                                                         *)
(* Entries are integers and a message is kept up to a factor, reduced to   *)
(* lowest terms, where the code divides by its trace.                      *)
(***************************************************************************)
EXTENDS Integers, Sequences, FiniteSets, FiniteSetsExt, Functions

CONSTANTS
  Nets,        \* the networks considered, with the weights absorbed
  MaxSweeps,   \* BP_MAX_SWEEPS
  MaxReads

VARIABLES
  net,       \* bonds, their dimensions, and one tensor per node
  base,      \* the messages at the fixed point, one per bond and sender
  msgs,      \* the messages of the read that is drawn
  spins,     \* its spins so far, as physical indices
  bp         \* where the kernel is

beliefVars == <<net, base, msgs, spins, bp>>

Sites == 0 .. net.nodes - 1
Bonds == DOMAIN net.bonds

\* The bonds of a node; the far end of one.
At(v) == {e \in Bonds : v \in {net.bonds[e][1], net.bonds[e][2]}}
Far(e, v) == IF net.bonds[e][1] = v THEN net.bonds[e][2] ELSE net.bonds[e][1]

\* A value for every bond of a set.
Indices(es) == {i \in [es -> 1 .. 2] : \A e \in es : i[e] <= net.dims[e]}

Entry(v, s, i) == net.tensor[v][s][i]

-----------------------------------------------------------------------------
Square(k) == (1 .. k) \X (1 .. k)
Identity(k) == [p \in Square(k) |-> IF p[1] = p[2] THEN 1 ELSE 0]
Trace(m) == MapThenSumSet(LAMBDA p : IF p[1] = p[2] THEN m[p] ELSE 0, DOMAIN m)

RECURSIVE Gcd(_, _)
Gcd(a, b) == IF b = 0 THEN a ELSE Gcd(b, a % b)

\* A message in lowest terms.  A trace that is not positive gives the neutral
\* message.
Lowest(m) ==
  IF Trace(m) <= 0 THEN [p \in DOMAIN m |-> IF p[1] = p[2] THEN 1 ELSE 0]
  ELSE LET Magnitude(n) == IF n < 0 THEN -n ELSE n
           d == FoldFunction(LAMBDA x, y : Gcd(Magnitude(x), y), 0, m)
       IN  [p \in DOMAIN m |-> m[p] \div d]

\* Two layers of a site, at indices i and j, with the messages of the bonds es.
Layers(v, s, i, j, es) ==
  Entry(v, s, i) * Entry(v, s, j)
    * MapThenFoldSet(LAMBDA x, y : x * y, 1,
                     LAMBDA e : msgs[<<e, Far(e, v)>>][<<i[e], j[e]>>],
                     LAMBDA S : CHOOSE e \in S : TRUE, es)

\* marginal
Marginal(v) ==
  [s \in {0, 1} |-> MapThenSumSet(LAMBDA p : Layers(v, s, p[1], p[2], At(v)),
                                  Indices(At(v)) \X Indices(At(v)))]

\* Faulty variant of Message: the message of the bond itself is not left out.
MessageBack(v, e, phys) ==
  Lowest([q \in Square(net.dims[e]) |->
    MapThenSumSet(LAMBDA p : Layers(v, p[1], p[2], p[3], At(v)),
      {p \in phys \X Indices(At(v)) \X Indices(At(v)) : <<p[2][e], p[3][e]>> = q})])

\* refresh_message: out of v along bond e, over the physical values v has.
Message(v, e, phys) ==
  Lowest([q \in Square(net.dims[e]) |->
    MapThenSumSet(LAMBDA p : Layers(v, p[1], p[2], p[3], At(v) \ {e}),
      {p \in phys \X Indices(At(v)) \X Indices(At(v)) : <<p[2][e], p[3][e]>> = q})])

\* A message on a bond of dimension 1 stays what it is.
Refreshed(v, e, phys) == IF net.dims[e] = 1 THEN msgs[<<e, v>>] ELSE Message(v, e, phys)

-----------------------------------------------------------------------------
Start == [pc |-> "bp", sweep |-> 1, bond |-> 1, end |-> 1, moved |-> FALSE, read |-> 0]

\* SamplingNet::build
BeliefInit ==
  /\ net \in Nets
  /\ base = [m \in UNION {{e} \X {net.bonds[e][1], net.bonds[e][2]} : e \in Bonds} |->
               Identity(net.dims[m[1]])]
  /\ msgs = base
  /\ spins = <<>>
  /\ bp = Start

\* One message of a sweep: low end first, bond after bond.
Propagate ==
  /\ bp.pc = "bp"
  /\ bp.bond \in Bonds
  /\ LET e == bp.bond
         v == net.bonds[e][bp.end]
     IN  /\ msgs' = [msgs EXCEPT ![<<e, v>>] = Refreshed(v, e, {0, 1})]
         /\ bp' = [bp EXCEPT !.end = 3 - @,
                             !.bond = IF bp.end = 1 THEN @ ELSE @ + 1,
                             !.moved = @ \/ msgs'[<<e, v>>] # msgs[<<e, v>>]]
  /\ UNCHANGED <<net, base, spins>>

\* The fixed point or the last sweep ends the propagation.
EndSweep ==
  /\ bp.pc = "bp"
  /\ bp.bond \notin Bonds
  /\ IF bp.moved /\ bp.sweep < MaxSweeps
     THEN bp' = [Start EXCEPT !.sweep = bp.sweep + 1] /\ base' = base
     ELSE bp' = [bp EXCEPT !.pc = "draw"] /\ base' = msgs
  /\ UNCHANGED <<net, msgs, spins>>

\* The spin is +1 with the share that +1 has of the marginal, and either when
\* there is none.
Drawable(w) ==
  IF w[0] + w[1] > 0 /\ w[0] >= 0 THEN {s \in {0, 1} : w[s] > 0} ELSE {0, 1}

\* sample_one takes the next node in order: marginal, choice and projection,
\* which refreshes the messages of that node and of no other.
Draw ==
  /\ bp.pc = "draw"
  /\ Len(spins) < net.nodes
  /\ LET v == Len(spins) IN
     \E s \in Drawable(Marginal(v)) :
       /\ spins' = Append(spins, s)
       /\ msgs' = [m \in DOMAIN msgs |->
                     IF m[2] = v THEN Refreshed(v, m[1], {s}) ELSE msgs[m]]
  /\ UNCHANGED <<net, base, bp>>

\* Every read starts from its own copy of the fixed point.
EndDraw ==
  /\ bp.pc = "draw"
  /\ Len(spins) = net.nodes
  /\ bp' = IF bp.read + 1 < MaxReads THEN [bp EXCEPT !.read = @ + 1]
                                     ELSE [bp EXCEPT !.pc = "done"]
  /\ spins' = <<>>
  /\ msgs' = base
  /\ UNCHANGED <<net, base>>

BeliefDone == bp.pc = "done" /\ UNCHANGED beliefVars

BeliefNext == Propagate \/ EndSweep \/ Draw \/ EndDraw \/ BeliefDone

-----------------------------------------------------------------------------
\* The amplitude of a configuration: the network contracted over every bond.
Amplitude(c) ==
  MapThenSumSet(
    LAMBDA i : MapThenFoldSet(LAMBDA x, y : x * y, 1,
                 LAMBDA v : Entry(v, c[v], [e \in At(v) |-> i[e]]),
                 LAMBDA S : CHOOSE v \in S : TRUE, Sites),
    Indices(Bonds))

\* The weight of value s at node v among the configurations that keep the
\* choices made so far.
Conditional(v, s) ==
  MapThenSumSet(LAMBDA c : Amplitude(c) * Amplitude(c),
    {c \in [Sites -> {0, 1}] :
       c[v] = s /\ \A u \in 0 .. Len(spins) - 1 : c[u] = spins[u + 1]})

IsConditional(v) ==
  Marginal(v)[0] * Conditional(v, 1) = Marginal(v)[1] * Conditional(v, 0)

Drawing == bp.pc = "draw" /\ Len(spins) < net.nodes

IsTree == Len(net.bonds) = net.nodes - 1

\* On a tree the propagation reaches the exact marginals of every node, in
\* every read: no read sees what an earlier one fixed (sample.rs 1-8, 125-160).
TreeMarginalsAreExact ==
  Drawing /\ IsTree /\ spins = <<>> => \A v \in Sites : IsConditional(v)
=============================================================================
