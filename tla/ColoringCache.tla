---------------------------- MODULE ColoringCache ----------------------------
(***************************************************************************)
(* The colouring that the clones of one SA sampler share                   *)
(* (src/sa_sampler.rs, cached_coloring): one slot behind a mutex, read and *)
(* replaced in two critical sections, with the comparison and the build    *)
(* between them.  An entry is named by the topology it was built from; a   *)
(* topology is a node count and a list of edges, and edges out of range    *)
(* are not in the graph, so one list means another graph for another count.*)
(***************************************************************************)
EXTENDS Integers, Sequences, FiniteSets

CONSTANTS
  Threads,      \* the workers that sample at the same time
  Topologies,   \* the node counts and edge lists of the jobs
  MaxJobs       \* how many jobs a worker takes

Empty == [nodes |-> 0, edges |-> <<>>, built |-> FALSE]

VARIABLES
  slot,      \* what the mutex guards
  worker     \* per worker: its place, its job and the entry it holds

cacheVars == <<slot, worker>>

Entry(t) == [nodes |-> t.nodes, edges |-> t.edges, built |-> TRUE]

CacheInit ==
  /\ slot = Empty
  /\ worker = [w \in Threads |->
                 [pc |-> "idle", jobs |-> 0, job |-> Empty, entry |-> Empty]]

Begin(w) ==
  /\ worker[w].pc = "idle"
  /\ worker[w].jobs < MaxJobs
  /\ \E t \in Topologies :
       worker' = [worker EXCEPT ![w] = [pc |-> "peek", jobs |-> @.jobs + 1,
                                        job |-> Entry(t), entry |-> Empty]]
  /\ UNCHANGED slot

\* The first critical section: the Arc is cloned.
Peek(w) ==
  /\ worker[w].pc = "peek"
  /\ worker' = [worker EXCEPT ![w].pc = "compare", ![w].entry = slot]
  /\ UNCHANGED slot

\* Faulty variant of Hit: the node count is not compared.
HitEdges(entry, job) == entry.built /\ entry.edges = job.edges

Hit(entry, job) == entry.built /\ entry.nodes = job.nodes /\ entry.edges = job.edges

\* Outside the lock, on the worker's own copy.
Compare(w) ==
  /\ worker[w].pc = "compare"
  /\ worker' = [worker EXCEPT ![w].pc =
                  IF Hit(worker[w].entry, worker[w].job) THEN "sample" ELSE "build"]
  /\ UNCHANGED slot

Build(w) ==
  /\ worker[w].pc = "build"
  /\ worker' = [worker EXCEPT ![w].pc = "store", ![w].entry = worker[w].job]
  /\ UNCHANGED slot

\* The second critical section: whatever is there is replaced.
Store(w) ==
  /\ worker[w].pc = "store"
  /\ slot' = worker[w].entry
  /\ worker' = [worker EXCEPT ![w].pc = "sample"]

\* The kernel has run on the entry.  A panic in the build ends the job, too,
\* and leaves the slot as it is.
EndJob(w) ==
  /\ worker[w].pc \in {"sample", "build"}
  /\ worker' = [worker EXCEPT ![w].pc = "idle", ![w].job = Empty, ![w].entry = Empty]
  /\ UNCHANGED slot

CacheStep(w) == Begin(w) \/ Peek(w) \/ Compare(w) \/ Build(w) \/ Store(w) \/ EndJob(w)

CacheNext == \E w \in Threads : CacheStep(w)

CacheSpec == CacheInit /\ [][CacheNext]_cacheVars

-----------------------------------------------------------------------------
\* Whatever the other workers store between the two critical sections, a job
\* is annealed on the colouring of its own topology: on another one it would
\* update neighbours together or index past the nodes (sa_sampler.rs 308-345).
OwnColoring ==
  \A w \in Threads : worker[w].pc = "sample" => worker[w].entry = worker[w].job
=============================================================================
