-------------------------- MODULE StreamPumpProofs --------------------------
(***************************************************************************)
(* Proofs about StreamPump for every set of jobs, every width and every    *)
(* channel capacity: where a job is, how the pump ends, what a cancelled   *)
(* generation can still cost, and that the pump implements JobLedger.      *)
(***************************************************************************)
EXTENDS StreamPump, SequenceTheorems, FiniteSetTheorems, TLAPS

-----------------------------------------------------------------------------
(* Sequences without repetition, and the sets of their elements *)

NoRepeat(s) == \A a, b \in DOMAIN s : s[a] = s[b] => a = b

\* Taking the head of a queue without repetition removes exactly that element.
LEMMA TailTakes ==
  ASSUME NEW S, NEW s \in Seq(S), s # <<>>, NoRepeat(s)
  PROVE  /\ Head(s) \in S
         /\ Head(s) \in Range(s)
         /\ Range(Tail(s)) = Range(s) \ {Head(s)}
         /\ NoRepeat(Tail(s))
<1>1. /\ Tail(s) \in Seq(S)
      /\ Len(Tail(s)) = Len(s) - 1
      /\ \A i \in 1 .. Len(Tail(s)) : Tail(s)[i] = s[i + 1]
      /\ Head(s) \in S
  BY HeadTailProperties
<1>2. /\ Len(s) \in Nat \ {0}
      /\ Head(s) = s[1]
      /\ DOMAIN s = 1 .. Len(s)
      /\ DOMAIN Tail(s) = 1 .. Len(s) - 1
  BY <1>1, EmptySeq
<1>3. Head(s) \in Range(s)
  BY <1>2 DEF Range
<1>4. ASSUME NEW x \in Range(Tail(s))
      PROVE  x \in Range(s) /\ x # Head(s)
  <2>1. PICK i \in 1 .. Len(s) - 1 : x = Tail(s)[i]
    BY <1>2 DEF Range
  <2>2. x = s[i + 1] /\ i + 1 \in 1 .. Len(s) /\ i + 1 # 1
    BY <1>1, <1>2, <2>1
  <2>. QED  BY <1>2, <2>2 DEF Range, NoRepeat
<1>5. ASSUME NEW x \in Range(s), x # Head(s)
      PROVE  x \in Range(Tail(s))
  <2>1. PICK i \in 1 .. Len(s) : x = s[i]
    BY <1>2 DEF Range
  <2>2. i # 1 /\ i - 1 \in 1 .. Len(s) - 1
    BY <1>2, <1>5, <2>1
  <2>3. Tail(s)[i - 1] = x
    BY <1>1, <1>2, <2>1, <2>2
  <2>. QED  BY <1>2, <2>2, <2>3 DEF Range
<1>6. NoRepeat(Tail(s))
  <2> SUFFICES ASSUME NEW a \in 1 .. Len(s) - 1, NEW b \in 1 .. Len(s) - 1,
                      Tail(s)[a] = Tail(s)[b]
               PROVE  a = b
    BY <1>2 DEF NoRepeat
  <2>1. s[a + 1] = s[b + 1] /\ a + 1 \in DOMAIN s /\ b + 1 \in DOMAIN s
    BY <1>1, <1>2
  <2>. QED  BY <2>1 DEF NoRepeat
<1>. QED  BY <1>1, <1>3, <1>4, <1>5, <1>6

\* Appending a new element adds exactly that element.
LEMMA AppendAdds ==
  ASSUME NEW S, NEW s \in Seq(S), NEW e \in S
  PROVE  /\ Append(s, e) \in Seq(S)
         /\ Range(Append(s, e)) = Range(s) \cup {e}
         /\ NoRepeat(s) /\ e \notin Range(s) => NoRepeat(Append(s, e))
<1>1. /\ Append(s, e) \in Seq(S)
      /\ Len(Append(s, e)) = Len(s) + 1
      /\ \A i \in 1 .. Len(s) : Append(s, e)[i] = s[i]
      /\ Append(s, e)[Len(s) + 1] = e
  BY AppendProperties
<1>2. /\ Len(s) \in Nat
      /\ DOMAIN s = 1 .. Len(s)
      /\ DOMAIN Append(s, e) = 1 .. Len(s) + 1
  BY <1>1
<1>3. Range(Append(s, e)) = Range(s) \cup {e}
  <2>1. ASSUME NEW x \in Range(Append(s, e))
        PROVE  x \in Range(s) \cup {e}
    <3>1. PICK i \in 1 .. Len(s) + 1 : x = Append(s, e)[i]
      BY <1>2 DEF Range
    <3>2. CASE i = Len(s) + 1
      BY <1>1, <3>1, <3>2
    <3>3. CASE i \in 1 .. Len(s)
      BY <1>1, <1>2, <3>1, <3>3 DEF Range
    <3>. QED  BY <1>2, <3>2, <3>3
  <2>2. ASSUME NEW x \in Range(s)
        PROVE  x \in Range(Append(s, e))
    <3>1. PICK i \in 1 .. Len(s) : x = s[i]
      BY <1>2 DEF Range
    <3>. QED  BY <1>1, <1>2, <3>1 DEF Range
  <2>3. e \in Range(Append(s, e))
    BY <1>1, <1>2 DEF Range
  <2>. QED  BY <2>1, <2>2, <2>3
<1>4. ASSUME NoRepeat(s), e \notin Range(s)
      PROVE  NoRepeat(Append(s, e))
  <2> SUFFICES ASSUME NEW a \in 1 .. Len(s) + 1, NEW b \in 1 .. Len(s) + 1,
                      Append(s, e)[a] = Append(s, e)[b]
               PROVE  a = b
    BY <1>2 DEF NoRepeat
  <2>1. \A i \in 1 .. Len(s) : s[i] \in Range(s)
    BY <1>2 DEF Range
  <2>2. CASE a \in 1 .. Len(s) /\ b \in 1 .. Len(s)
    BY <1>1, <1>2, <1>4, <2>2 DEF NoRepeat
  <2>3. CASE a = Len(s) + 1 \/ b = Len(s) + 1
    BY <1>1, <1>2, <1>4, <2>1, <2>3
  <2>. QED  BY <1>2, <2>2, <2>3
<1>. QED  BY <1>1, <1>3, <1>4

\* The jobs named by a sequence of results.
JobsOf(s) == {s[i].job : i \in DOMAIN s}
NoJobRepeat(s) == \A a, b \in DOMAIN s : s[a].job = s[b].job => a = b

LEMMA ResultTailTakes ==
  ASSUME NEW s \in Seq(Result), s # <<>>, NoJobRepeat(s)
  PROVE  /\ Head(s) \in Result
         /\ Head(s).job \in JobsOf(s)
         /\ JobsOf(Tail(s)) = JobsOf(s) \ {Head(s).job}
         /\ NoJobRepeat(Tail(s))
<1>1. /\ Tail(s) \in Seq(Result)
      /\ Len(Tail(s)) = Len(s) - 1
      /\ \A i \in 1 .. Len(Tail(s)) : Tail(s)[i] = s[i + 1]
      /\ Head(s) \in Result
  BY HeadTailProperties
<1>2. /\ Len(s) \in Nat \ {0}
      /\ Head(s) = s[1]
      /\ DOMAIN s = 1 .. Len(s)
      /\ DOMAIN Tail(s) = 1 .. Len(s) - 1
  BY <1>1, EmptySeq
<1>3. Head(s).job \in JobsOf(s)
  BY <1>2 DEF JobsOf
<1>4. ASSUME NEW x \in JobsOf(Tail(s))
      PROVE  x \in JobsOf(s) /\ x # Head(s).job
  <2>1. PICK i \in 1 .. Len(s) - 1 : x = Tail(s)[i].job
    BY <1>2 DEF JobsOf
  <2>2. x = s[i + 1].job /\ i + 1 \in 1 .. Len(s) /\ i + 1 # 1
    BY <1>1, <1>2, <2>1
  <2>. QED  BY <1>2, <2>2 DEF JobsOf, NoJobRepeat
<1>5. ASSUME NEW x \in JobsOf(s), x # Head(s).job
      PROVE  x \in JobsOf(Tail(s))
  <2>1. PICK i \in 1 .. Len(s) : x = s[i].job
    BY <1>2 DEF JobsOf
  <2>2. i # 1 /\ i - 1 \in 1 .. Len(s) - 1
    BY <1>2, <1>5, <2>1
  <2>3. Tail(s)[i - 1].job = x
    BY <1>1, <1>2, <2>1, <2>2
  <2>. QED  BY <1>2, <2>2, <2>3 DEF JobsOf
<1>6. NoJobRepeat(Tail(s))
  <2> SUFFICES ASSUME NEW a \in 1 .. Len(s) - 1, NEW b \in 1 .. Len(s) - 1,
                      Tail(s)[a].job = Tail(s)[b].job
               PROVE  a = b
    BY <1>2 DEF NoJobRepeat
  <2>1. s[a + 1].job = s[b + 1].job /\ a + 1 \in DOMAIN s /\ b + 1 \in DOMAIN s
    BY <1>1, <1>2
  <2>. QED  BY <2>1 DEF NoJobRepeat
<1>. QED  BY <1>1, <1>3, <1>4, <1>5, <1>6

LEMMA ResultAppendAdds ==
  ASSUME NEW s \in Seq(Result), NEW e \in Result
  PROVE  /\ Append(s, e) \in Seq(Result)
         /\ JobsOf(Append(s, e)) = JobsOf(s) \cup {e.job}
         /\ NoJobRepeat(s) /\ e.job \notin JobsOf(s) => NoJobRepeat(Append(s, e))
<1>1. /\ Append(s, e) \in Seq(Result)
      /\ Len(Append(s, e)) = Len(s) + 1
      /\ \A i \in 1 .. Len(s) : Append(s, e)[i] = s[i]
      /\ Append(s, e)[Len(s) + 1] = e
  BY AppendProperties
<1>2. /\ Len(s) \in Nat
      /\ DOMAIN s = 1 .. Len(s)
      /\ DOMAIN Append(s, e) = 1 .. Len(s) + 1
  BY <1>1
<1>3. JobsOf(Append(s, e)) = JobsOf(s) \cup {e.job}
  <2>1. ASSUME NEW x \in JobsOf(Append(s, e))
        PROVE  x \in JobsOf(s) \cup {e.job}
    <3>1. PICK i \in 1 .. Len(s) + 1 : x = Append(s, e)[i].job
      BY <1>2 DEF JobsOf
    <3>2. CASE i = Len(s) + 1
      BY <1>1, <3>1, <3>2
    <3>3. CASE i \in 1 .. Len(s)
      BY <1>1, <1>2, <3>1, <3>3 DEF JobsOf
    <3>. QED  BY <1>2, <3>2, <3>3
  <2>2. ASSUME NEW x \in JobsOf(s)
        PROVE  x \in JobsOf(Append(s, e))
    <3>1. PICK i \in 1 .. Len(s) : x = s[i].job
      BY <1>2 DEF JobsOf
    <3>. QED  BY <1>1, <1>2, <3>1 DEF JobsOf
  <2>3. e.job \in JobsOf(Append(s, e))
    BY <1>1, <1>2 DEF JobsOf
  <2>. QED  BY <2>1, <2>2, <2>3
<1>4. ASSUME NoJobRepeat(s), e.job \notin JobsOf(s)
      PROVE  NoJobRepeat(Append(s, e))
  <2> SUFFICES ASSUME NEW a \in 1 .. Len(s) + 1, NEW b \in 1 .. Len(s) + 1,
                      Append(s, e)[a].job = Append(s, e)[b].job
               PROVE  a = b
    BY <1>2 DEF NoJobRepeat
  <2>1. \A i \in 1 .. Len(s) : s[i].job \in JobsOf(s)
    BY <1>2 DEF JobsOf
  <2>2. CASE a \in 1 .. Len(s) /\ b \in 1 .. Len(s)
    BY <1>1, <1>2, <1>4, <2>2 DEF NoJobRepeat
  <2>3. CASE a = Len(s) + 1 \/ b = Len(s) + 1
    BY <1>1, <1>2, <1>4, <2>1, <2>3
  <2>. QED  BY <1>2, <2>2, <2>3
<1>. QED  BY <1>1, <1>3, <1>4
-----------------------------------------------------------------------------
(* The inductive invariant *)

\* The pump has a job in hand exactly at the steps that use one.
HandInv == held \in Jobs <=> pump \in {"spawn", "check", "drop", "offer"}

\* So has a worker, and an outcome to report once its kernel returned.
LoadInv ==
  \A w \in Workers :
    /\ load[w] \in Jobs <=> pc[w] \in {"run", "ran", "send"}
    /\ pc[w] \in {"ran", "send"} => reply[w] \in Outcomes

\* No worker runs before the width was read.
StartInv ==
  /\ pump \in {"first", "spawn", "exited"} => width = 0
  /\ pump \in {"recv", "check", "drop", "offer"} => width # 0
  /\ \A w \in Workers : pc[w] = "absent" <=> w > width

\* Nothing was sent before the first job was on its way.
SentInv == inbox # <<>> \/ held \in Jobs \/ width # 0 => unsent # Jobs

\* The workers joined so far ended without a panic.
JoinInv ==
  /\ \A w \in 1 .. joined : pc[w] = "exited"
  /\ pump = "done" => joined = width

\* Everything but where the jobs are.
ControlInv ==
  /\ TypeOK
  /\ HandInv
  /\ LoadInv
  /\ StartInv
  /\ SentInv
  /\ JoinInv

\* A session that still runs has stored what the operator asked for, clamped,
\* and the width was read from it.
WidthInv ==
  /\ pump # "exited" =>
       /\ asked = Absent \/ asked \in Nat \ {0}
       /\ numCpus = IF asked = Absent THEN 0 ELSE Smaller(asked, Host)
  /\ width # 0 => width = StreamWidth

IInv == ControlInv /\ WidthInv /\ OnePlacePerJob

-----------------------------------------------------------------------------
(* Jobs move between places *)

PlaceNo == 1 .. 8
Partition(P) ==
  /\ UNION Range(P) = Jobs
  /\ \A a, b \in DOMAIN P : a # b => P[a] \cap P[b] = {}

\* Moving jobs into one place, out of any others, keeps every job in exactly
\* one place.
LEMMA MoveKeepsPartition ==
  ASSUME NEW P, NEW Q, DOMAIN P = PlaceNo, DOMAIN Q = PlaceNo,
         Partition(P),
         NEW b \in PlaceNo,
         P[b] \subseteq Q[b],
         \A a \in PlaceNo \ {b} : Q[a] \subseteq P[a] /\ Q[a] \cap Q[b] = {},
         \A x \in Q[b] : x \in UNION Range(P),
         \A a \in PlaceNo \ {b} : \A x \in P[a] : x \in Q[a] \/ x \in Q[b]
  PROVE  Partition(Q)
<1>1. \A x \in Jobs : \E a \in PlaceNo : x \in P[a]
  BY DEF Partition, Range
<1>2. \A x \in Jobs : \E a \in PlaceNo : x \in Q[a]
  BY <1>1
<1>3. \A a \in PlaceNo : \A x \in Q[a] : x \in Jobs
  BY DEF Partition, Range
<1>4. UNION Range(Q) = Jobs
  BY <1>2, <1>3 DEF Range
<1>5. ASSUME NEW a \in PlaceNo, NEW c \in PlaceNo, a # c
      PROVE  Q[a] \cap Q[c] = {}
  <2>1. CASE a = b \/ c = b
    BY <1>5, <2>1
  <2>2. CASE a # b /\ c # b
    BY <1>5, <2>2 DEF Partition
  <2>. QED  BY <2>1, <2>2
<1>. QED  BY <1>4, <1>5 DEF Partition

\* No two workers hold the same job.
NoLoadTwice ==
  \A v, w \in Workers : load[v] = load[w] /\ load[v] # NoJob => v = w

\* What OnePlacePerJob says, place by place.
LEMMA OnePlaceParts ==
  /\ OnePlacePerJob <=> /\ Partition(Places)
                        /\ NoRepeat(inbox)
                        /\ NoRepeat(work)
                        /\ NoJobRepeat(out)
                        /\ NoLoadTwice
  /\ InOut = JobsOf(out)
BY DEF OnePlacePerJob, Partition, NoRepeat, NoJobRepeat, NoLoadTwice, InOut, JobsOf

LEMMA PlacesAre ==
  /\ DOMAIN Places = PlaceNo
  /\ Places[1] = unsent
  /\ Places[2] = Range(inbox)
  /\ Places[3] = InHand
  /\ Places[4] = Range(work)
  /\ Places[5] = InWorkers
  /\ Places[6] = JobsOf(out)
  /\ Places[7] = Answered
  /\ Places[8] = lost
BY OnePlaceParts DEF Places, PlaceNo

-----------------------------------------------------------------------------
(* Each action preserves the control invariant *)

\* A quotient is the number of whole shares.
LEMMA WholeShares ==
  ASSUME NEW a \in Nat, NEW c \in Nat \ {0}
  PROVE  /\ a \div c \in 0 .. a
         /\ (a \div c) * c <= a
         /\ a < (a \div c + 1) * c
<1>1. PICK q \in Int : q = a \div c
  OBVIOUS
<1>2. PICK m \in Int : m = q * c
  OBVIOUS
<1>3. q \in 0 .. a /\ m <= a /\ a < m + c
  BY <1>1, <1>2
<1>4. (q + 1) * c = m + c
  BY <1>2
<1>. QED  BY <1>1, <1>2, <1>3, <1>4

\* Whatever the operator granted, at least one worker and at most the host.
LEMMA StreamWidthFits ==
  ASSUME sampler \in Samplers, numCpus \in 0 .. Host
  PROVE  StreamWidth \in 1 .. Host
<1>1. CoreBudget \in 1 .. Host /\ Larger(sampler.workers, 1) \in Nat \ {0}
  BY HostAssumption, SamplersAssumption DEF CoreBudget, Larger
<1>2. CoreBudget \div Larger(sampler.workers, 1) \in 0 .. CoreBudget
  BY <1>1, WholeShares
<1>. QED  BY <1>1, <1>2, HostAssumption DEF StreamWidth, Larger

\* What parse_num_cpus accepts is stored clamped to the host.
LEMMA BudgetIsStored ==
  ASSUME NEW toml \in Tomls, ~Refused(toml)
  PROVE  /\ toml \in Nat \ {0} /\ toml # Absent
         /\ ResolveCoreBudget(toml) = Smaller(toml, Host)
         /\ ResolveCoreBudget(toml) \in 1 .. Host
BY HostAssumption, TomlsAssumption DEF Refused, ResolveCoreBudget, Larger, Smaller

LEMMA ControlInit == Init => ControlInv
<1> SUFFICES ASSUME Init PROVE ControlInv
  OBVIOUS
<1> USE HostAssumption, CapAssumption, NoJobAssumption DEF Init, Workers
<1>1. /\ inbox \in Seq(Jobs) /\ Len(inbox) = 0
      /\ work \in Seq(Jobs) /\ Len(work) = 0
      /\ out \in Seq(Result) /\ Len(out) = 0
  BY EmptySeq
<1>2. TypeOK
  <2>1. /\ pc \in [Workers -> {"absent"}]
        /\ load \in [Workers -> {NoJob}]
        /\ reply \in [Workers -> {"none"}]
        /\ answer \in [Jobs -> {"none"}]
    OBVIOUS
  <2>2. /\ sampler \in Samplers /\ numCpus \in 0 .. Host /\ asked \in Tomls \cup {Absent}
        /\ width \in 0 .. Host /\ joined \in 0 .. width
    OBVIOUS
  <2>3. /\ Len(inbox) <= InboxCap /\ Len(work) <= width /\ Len(out) <= OutCap
        /\ cancelled \in Nat
    BY <1>1
  <2>4. /\ pump \in {"first"}
        /\ held \in Jobs \cup {NoJob}
        /\ unsent \subseteq Jobs /\ lost \subseteq Jobs /\ stale \subseteq Jobs
        /\ jobsClosed \in BOOLEAN /\ outOpen \in BOOLEAN
    OBVIOUS
  <2> HIDE DEF Init
  <2>. QED  BY <1>1, <2>1, <2>2, <2>3, <2>4 DEF TypeOK
<1>3. HandInv /\ LoadInv
  BY DEF HandInv, LoadInv
<1>4. StartInv /\ SentInv /\ JoinInv
  BY DEF StartInv, SentInv, JoinInv
<1>. QED  BY <1>2, <1>3, <1>4 DEF ControlInv

LEMMA ControlStep == ControlInv /\ [Next]_vars => ControlInv'
<1> SUFFICES ASSUME ControlInv, [Next]_vars
             PROVE  ControlInv'
  OBVIOUS
<1> USE HostAssumption, CapAssumption, NoJobAssumption
    DEF ControlInv, TypeOK, HandInv, LoadInv, StartInv, SentInv, JoinInv,
        Workers, sessionVars, configVars, pumpVars, workerVars, endVars
<1>1. ASSUME NEW toml \in Tomls, Configure(toml)
      PROVE  ControlInv'
  <2>1. width = 0 /\ held \notin Jobs /\ pump' \in {pump, "exited"} /\ pump # "done"
    BY <1>1 DEF Configure, PumpGone
  <2>2. pump \in {"first", "join"}
    BY <1>1, <2>1 DEF PumpGone, Configure
  <2>3. numCpus' \in 0 .. Host /\ asked' \in Tomls
    BY <1>1, BudgetIsStored DEF Configure
  <2>. QED  BY <1>1, <2>1, <2>2, <2>3 DEF Configure
<1>2. ASSUME NEW j \in Jobs, Send(j)
      PROVE  ControlInv'
  <2>1. /\ inbox' \in Seq(Jobs)
        /\ Len(inbox') = Len(inbox) + 1
        /\ Len(inbox) \in Nat
    BY <1>2, AppendProperties DEF Send
  <2>. QED  BY <1>2, <2>1 DEF Send
<1>3. CASE CloseJobs
  BY <1>3 DEF CloseJobs
<1>4. ASSUME NEW j \in Jobs, Watermark[j] # NoMark, CancelThrough(Watermark[j])
      PROVE  ControlInv'
  BY <1>4, WatermarkAssumption DEF CancelThrough
<1>5. CASE Receive
  <2>1. /\ out' \in Seq(Result)
        /\ Len(out') = Len(out) - 1
        /\ Len(out) \in Nat
        /\ Head(out) \in Result
    BY <1>5, HeadTailProperties DEF Receive
  <2>. QED  BY <1>5, <2>1 DEF Receive, Result
<1>6. CASE HangUp
  <2>1. out' \in Seq(Result) /\ Len(out') = 0
    BY <1>6 DEF HangUp
  <2>2. \A i \in DOMAIN out : out[i].job \in Jobs
    <3>1. \A i \in DOMAIN out : out[i] \in Result
      BY ElementOfSeq, LenProperties
    <3>. QED  BY <3>1 DEF Result
  <2>3. lost' \subseteq Jobs
    BY <1>6, <2>2 DEF HangUp
  <2>4. TypeOK'
    <3>1. /\ outOpen' = FALSE
          /\ UNCHANGED <<sessionVars, inbox, cancelled, pumpVars, work,
                         workerVars, answer, stale>>
      BY <1>6 DEF HangUp
    <3>2. Len(out') <= OutCap
      BY <2>1
    <3>. QED  BY <2>1, <2>3, <3>1, <3>2
  <2>5. HandInv' /\ LoadInv' /\ StartInv' /\ SentInv' /\ JoinInv'
    BY <1>6 DEF HangUp
  <2>. QED  BY <2>4, <2>5
<1>7. CASE Take
  <2>1. /\ inbox' \in Seq(Jobs)
        /\ Len(inbox') = Len(inbox) - 1
        /\ Len(inbox) \in Nat
        /\ Head(inbox) \in Jobs
    BY <1>7, HeadTailProperties DEF Take
  <2>2. TypeOK'
    BY SMTT(60), <1>7, <2>1 DEF Take
  <2>3. HandInv' /\ LoadInv'
    BY <1>7, <2>1 DEF Take
  <2>4. StartInv' /\ SentInv' /\ JoinInv'
    BY <1>7, <2>1 DEF Take
  <2>. QED  BY <2>2, <2>3, <2>4
<1>8. CASE NoFirstJob
  BY <1>8 DEF NoFirstJob
<1>9. CASE Spawn
  <2>1. width = 0 /\ joined = 0 /\ width' \in 1 .. Host
    <3>1. StreamWidth \in 1 .. Host
      BY StreamWidthFits
    <3>. QED  BY <1>9, <3>1 DEF Spawn, Larger
  <2>2. \A w \in Workers : pc[w] = "absent"
    BY <2>1
  <2>3. TypeOK'
    BY <1>9, <2>1 DEF Spawn
  <2>4. HandInv' /\ LoadInv'
    BY <1>9, <2>2 DEF Spawn
  <2>5. StartInv' /\ SentInv' /\ JoinInv'
    BY <1>9, <2>1 DEF Spawn
  <2>. QED  BY <2>3, <2>4, <2>5
<1>10. CASE Check
  BY <1>10 DEF Check
<1>11. CASE DropHeld
  <2>1. [job |-> held, outcome |-> "cancelled"] \in Result
    BY <1>11 DEF DropHeld, Result, Outcomes
  <2>2. /\ out' \in Seq(Result)
        /\ Len(out') = Len(out) + 1
        /\ Len(out) \in Nat
    BY <1>11, <2>1, AppendProperties DEF DropHeld
  <2>. QED  BY <1>11, <2>2 DEF DropHeld
<1>12. CASE Offer
  <2>1. /\ work' \in Seq(Jobs)
        /\ Len(work') = Len(work) + 1
        /\ Len(work) \in Nat
    BY <1>12, AppendProperties DEF Offer
  <2>. QED  BY <1>12, <2>1 DEF Offer
<1>13. CASE LeaveWithJob
  BY <1>13 DEF LeaveWithJob
<1>14. CASE Leave
  BY <1>14 DEF Leave
<1>15. CASE Join
  BY <1>15 DEF Join
<1>16. CASE Return
  <2>1. inbox' \in Seq(Jobs) /\ Len(inbox') = 0
    BY <1>16 DEF Return
  <2>2. Range(inbox) \subseteq Jobs
    BY RangeOfSeq
  <2>. QED  BY <1>16, <2>1, <2>2 DEF Return
<1>17. ASSUME NEW w \in Workers, PickUp(w)
       PROVE  ControlInv'
  <2>1. /\ work' \in Seq(Jobs)
        /\ Len(work') = Len(work) - 1
        /\ Len(work) \in Nat
        /\ Head(work) \in Jobs
    BY <1>17, HeadTailProperties DEF PickUp
  <2>2. TypeOK'
    BY SMTT(60), <1>17, <2>1 DEF PickUp
  <2>3. HandInv' /\ LoadInv'
    BY <1>17, <2>1 DEF PickUp
  <2>4. StartInv' /\ SentInv' /\ JoinInv'
    BY <1>17, <2>1 DEF PickUp
  <2>. QED  BY <2>2, <2>3, <2>4
<1>18. ASSUME NEW w \in Workers, WorkerEnd(w)
       PROVE  ControlInv'
  BY <1>18 DEF WorkerEnd
<1>19. ASSUME NEW w \in Workers, NEW r \in {"samples", "reject", "fatal"},
              KernelReturn(w, r)
       PROVE  ControlInv'
  BY <1>19 DEF KernelReturn, Outcomes
<1>20. ASSUME NEW w \in Workers, KernelAbort(w)
       PROVE  ControlInv'
  BY <1>20 DEF KernelAbort, Outcomes
<1>21. ASSUME NEW w \in Workers, KernelPanic(w) \/ AnswerFails(w)
       PROVE  ControlInv'
  <2>1. work' \in Seq(Jobs) /\ Len(work') <= width
    <3>1. work' = <<>> \/ work' = work
      BY <1>21 DEF KernelPanic, AnswerFails, WorkAfterEnd
    <3>2. CASE work' = <<>>
      BY <3>2, EmptySeq
    <3>. QED  BY <3>1, <3>2
  <2>2. OrphanedJobs(w) \subseteq Jobs
    BY RangeOfSeq DEF OrphanedJobs
  <2>3. TypeOK'
    BY SMTT(60), <1>21, <2>1, <2>2 DEF KernelPanic, AnswerFails
  <2>4. HandInv' /\ LoadInv'
    BY SMTT(60), <1>21 DEF KernelPanic, AnswerFails
  <2>5. StartInv' /\ SentInv' /\ JoinInv'
    BY <1>21 DEF KernelPanic, AnswerFails
  <2>. QED  BY <2>3, <2>4, <2>5
<1>22. ASSUME NEW w \in Workers, PostCheck(w)
       PROVE  ControlInv'
  BY <1>22 DEF PostCheck, Outcomes
<1>23. ASSUME NEW w \in Workers, Answer(w)
       PROVE  ControlInv'
  <2>1. [job |-> load[w], outcome |-> reply[w]] \in Result
    BY <1>23 DEF Answer, Result
  <2>2. /\ out' \in Seq(Result)
        /\ Len(out') = Len(out) + 1
        /\ Len(out) \in Nat
    BY <1>23, <2>1, AppendProperties DEF Answer
  <2>. QED  BY <1>23, <2>2 DEF Answer
<1>24. CASE UNCHANGED vars
  BY <1>24 DEF vars
<1> HIDE DEF ControlInv, TypeOK, HandInv, LoadInv, StartInv, SentInv, JoinInv,
             Workers, sessionVars, configVars, pumpVars, workerVars, endVars
<1>. QED
  BY <1>1, <1>2, <1>3, <1>4, <1>5, <1>6, <1>7, <1>8, <1>9, <1>10, <1>11,
     <1>12, <1>13, <1>14, <1>15, <1>16, <1>17, <1>18, <1>19, <1>20, <1>21,
     <1>22, <1>23, <1>24
  DEF Next, SessionStep, PumpStep, WorkerStep, Finished
-----------------------------------------------------------------------------
(* Each action keeps every job in one place *)

\* A worker takes a job.
LEMMA LoadPut ==
  ASSUME TypeOK, NoLoadTwice, NEW w \in Workers, NEW j \in Jobs,
         load[w] \notin Jobs, j \notin InWorkers,
         load' = [load EXCEPT ![w] = j]
  PROVE  InWorkers' = InWorkers \cup {j} /\ NoLoadTwice'
<1> USE NoJobAssumption DEF TypeOK
<1>1. load[w] = NoJob /\ j # NoJob
  OBVIOUS
<1>2. \A v \in Workers : load'[v] = IF v = w THEN j ELSE load[v]
  OBVIOUS
<1>3. InWorkers' = InWorkers \cup {j}
  BY <1>1, <1>2 DEF InWorkers
<1>4. NoLoadTwice'
  BY <1>1, <1>2 DEF InWorkers, NoLoadTwice
<1>. QED  BY <1>3, <1>4

\* A worker lets go of its job.
LEMMA LoadClear ==
  ASSUME TypeOK, NoLoadTwice, NEW w \in Workers, load[w] \in Jobs,
         load' = [load EXCEPT ![w] = NoJob]
  PROVE  /\ load[w] \in InWorkers
         /\ InWorkers' = InWorkers \ {load[w]}
         /\ NoLoadTwice'
<1> USE NoJobAssumption DEF TypeOK
<1>1. \A v \in Workers : load'[v] = IF v = w THEN NoJob ELSE load[v]
  OBVIOUS
<1>2. load[w] \in InWorkers
  BY DEF InWorkers
<1>3. InWorkers' = InWorkers \ {load[w]}
  BY <1>1 DEF InWorkers, NoLoadTwice
<1>4. NoLoadTwice'
  BY <1>1 DEF NoLoadTwice
<1>. QED  BY <1>2, <1>3, <1>4

LEMMA PlaceInit == Init => OnePlacePerJob
<1> SUFFICES ASSUME Init PROVE OnePlacePerJob
  OBVIOUS
<1>1. /\ unsent = Jobs /\ lost = {}
      /\ Range(inbox) = {} /\ Range(work) = {} /\ JobsOf(out) = {}
      /\ InHand = {} /\ InWorkers = {} /\ Answered = {}
  BY DEF Init, Range, JobsOf, InHand, InWorkers, Answered
<1>2. Partition(Places)
  BY <1>1, PlacesAre DEF Partition, Range, PlaceNo
<1>3. NoRepeat(inbox) /\ NoRepeat(work) /\ NoJobRepeat(out) /\ NoLoadTwice
  BY DEF Init, NoRepeat, NoJobRepeat, NoLoadTwice
<1>. QED  BY <1>2, <1>3, OnePlaceParts

LEMMA PlaceStep == IInv /\ [Next]_vars => OnePlacePerJob'
<1> SUFFICES ASSUME IInv, [Next]_vars
             PROVE  OnePlacePerJob'
  OBVIOUS
<1> USE DEF sessionVars, configVars, pumpVars, workerVars, endVars
<1> DEFINE Parts == /\ Partition(Places)
                    /\ NoRepeat(inbox)
                    /\ NoRepeat(work)
                    /\ NoJobRepeat(out)
                    /\ NoLoadTwice
           MovedTo(b) ==
             /\ Places[b] \subseteq Places'[b]
             /\ \A a \in PlaceNo \ {b} :
                  /\ Places'[a] \subseteq Places[a]
                  /\ Places'[a] \cap Places'[b] = {}
                  /\ Places[a] \subseteq Places'[a] \cup Places'[b]
             /\ Places'[b] \subseteq UNION Range(Places)
<1>t. TypeOK /\ HandInv /\ LoadInv
  BY DEF IInv, ControlInv
<1>s. /\ inbox \in Seq(Jobs) /\ work \in Seq(Jobs) /\ out \in Seq(Result)
      /\ answer \in [Jobs -> Outcomes \cup {"none"}]
      /\ \A w \in Workers : load[w] \in Jobs \cup {NoJob}
  BY <1>t DEF TypeOK
<1>h. held \in Jobs => InHand = {held}
  BY NoJobAssumption DEF InHand
<1>p. Parts
  BY OnePlaceParts DEF IInv
<1>a. /\ DOMAIN Places = PlaceNo /\ PlaceNo = {1, 2, 3, 4, 5, 6, 7, 8}
      /\ Places[1] = unsent /\ Places[2] = Range(inbox) /\ Places[3] = InHand
      /\ Places[4] = Range(work) /\ Places[5] = InWorkers
      /\ Places[6] = JobsOf(out) /\ Places[7] = Answered /\ Places[8] = lost
  BY PlacesAre DEF PlaceNo
<1>b. /\ DOMAIN Places' = PlaceNo
      /\ Places'[1] = unsent' /\ Places'[2] = Range(inbox')
      /\ Places'[3] = InHand' /\ Places'[4] = Range(work')
      /\ Places'[5] = InWorkers' /\ Places'[6] = JobsOf(out')
      /\ Places'[7] = Answered' /\ Places'[8] = lost'
  BY DEF Places, PlaceNo, InOut, JobsOf
<1>f. /\ held' = held => InHand' = InHand
      /\ load' = load => InWorkers' = InWorkers /\ NoLoadTwice'
      /\ answer' = answer => Answered' = Answered
  BY <1>p DEF InHand, InWorkers, Answered, NoLoadTwice
<1>u. \A a \in PlaceNo : \A x \in Places[a] :
         x \in UNION Range(Places) /\ \A b \in PlaceNo \ {a} : x \notin Places[b]
  BY <1>a, <1>p DEF Partition, Range
<1>m. ASSUME NEW b \in PlaceNo, MovedTo(b)
      PROVE  Partition(Places')
  BY <1>a, <1>b, <1>m, <1>p, MoveKeepsPartition
<1>x. SUFFICES Parts'
  BY DEF OnePlacePerJob, Partition, NoRepeat, NoJobRepeat, NoLoadTwice, InOut
<1>0. CASE UNCHANGED <<unsent, inbox, held, work, load, out, answer, lost>>
  <2>1. UNCHANGED <<InHand, InWorkers, Answered>> /\ NoLoadTwice'
    BY <1>0, <1>f
  <2>2. Places' = Places
    BY <1>0, <2>1 DEF Places, InOut
  <2>. QED  BY <1>0, <1>p, <2>1, <2>2
<1>1. ASSUME NEW j \in Jobs, Send(j)
      PROVE  Parts'
  <2>1. /\ unsent' = unsent \ {j} /\ inbox' = Append(inbox, j)
        /\ UNCHANGED <<held, work, load, out, answer, lost>>
        /\ j \in unsent
    BY <1>1 DEF Send
  <2>2. j \notin Range(inbox)
    BY <1>a, <1>u, <2>1
  <2>3. Range(inbox') = Range(inbox) \cup {j} /\ NoRepeat(inbox')
    BY <1>p, <1>s, <2>1, <2>2, AppendAdds
  <2>4. MovedTo(2)
    BY <1>a, <1>b, <1>f, <1>u, <2>1, <2>3
  <2>5. Partition(Places')
    BY <1>a, <1>m, <2>4
  <2>. QED  BY <1>f, <1>p, <2>1, <2>3, <2>5
<1>2. CASE Receive
  <2>1. /\ out # <<>> /\ out' = Tail(out)
        /\ answer' = [answer EXCEPT ![Head(out).job] = Head(out).outcome]
        /\ UNCHANGED <<unsent, inbox, held, work, load, lost>>
    BY <1>2 DEF Receive
  <2>2. /\ Head(out) \in Result
        /\ Head(out).job \in JobsOf(out)
        /\ JobsOf(out') = JobsOf(out) \ {Head(out).job}
        /\ NoJobRepeat(out')
    BY <1>p, <1>s, <2>1, ResultTailTakes
  <2>3. Answered' = Answered \cup {Head(out).job}
    BY <1>s, <2>1, <2>2 DEF Answered, Result, Outcomes
  <2>4. MovedTo(7)
    BY <1>a, <1>b, <1>f, <1>u, <2>1, <2>2, <2>3
  <2>5. Partition(Places')
    BY <1>a, <1>m, <2>4
  <2>. QED  BY <1>f, <1>p, <2>1, <2>2, <2>5
<1>3. CASE HangUp
  <2>1. /\ out' = <<>> /\ lost' = lost \cup JobsOf(out)
        /\ UNCHANGED <<unsent, inbox, held, work, load, answer>>
    BY <1>3 DEF HangUp, JobsOf
  <2>2. JobsOf(out') = {} /\ NoJobRepeat(out')
    BY <2>1 DEF JobsOf, NoJobRepeat
  <2>3. MovedTo(8)
    BY <1>a, <1>b, <1>f, <1>u, <2>1, <2>2
  <2>4. Partition(Places')
    BY <1>a, <1>m, <2>3
  <2>. QED  BY <1>f, <1>p, <2>1, <2>2, <2>4
<1>4. CASE Take
  <2>1. /\ inbox # <<>> /\ inbox' = Tail(inbox) /\ held' = Head(inbox)
        /\ UNCHANGED <<unsent, work, load, out, answer, lost>>
        /\ held \notin Jobs
    BY <1>4, <1>t DEF Take, HandInv
  <2>2. /\ Head(inbox) \in Jobs
        /\ Head(inbox) \in Range(inbox)
        /\ Range(inbox') = Range(inbox) \ {Head(inbox)}
        /\ NoRepeat(inbox')
    BY <1>p, <1>s, <2>1, TailTakes
  <2>3. InHand = {} /\ InHand' = {Head(inbox)}
    BY <1>t, <2>1, <2>2, NoJobAssumption DEF InHand, TypeOK
  <2>4. MovedTo(3)
    BY <1>a, <1>b, <1>f, <1>u, <2>1, <2>2, <2>3
  <2>5. Partition(Places')
    BY <1>a, <1>m, <2>4
  <2>. QED  BY <1>f, <1>p, <2>1, <2>2, <2>5
<1>5. CASE DropHeld
  <2>1. /\ out' = Append(out, [job |-> held, outcome |-> "cancelled"])
        /\ held' = NoJob
        /\ UNCHANGED <<unsent, inbox, work, load, answer, lost>>
        /\ held \in Jobs
    BY <1>5, <1>t DEF DropHeld, HandInv
  <2>2. InHand = {held} /\ InHand' = {}
    BY <1>h, <2>1 DEF InHand
  <2>3. held \notin JobsOf(out)
    BY <1>a, <1>u, <2>2
  <2>4. [job |-> held, outcome |-> "cancelled"] \in Result
    BY <2>1 DEF Result, Outcomes
  <2>5. JobsOf(out') = JobsOf(out) \cup {held} /\ NoJobRepeat(out')
    BY <1>p, <1>s, <2>1, <2>3, <2>4, ResultAppendAdds
  <2>6. MovedTo(6)
    BY <1>a, <1>b, <1>f, <1>u, <2>1, <2>2, <2>5
  <2>7. Partition(Places')
    BY <1>a, <1>m, <2>6
  <2>. QED  BY <1>f, <1>p, <2>1, <2>5, <2>7
<1>6. CASE Offer
  <2>1. /\ work' = Append(work, held) /\ held' = NoJob
        /\ UNCHANGED <<unsent, inbox, load, out, answer, lost>>
        /\ held \in Jobs
    BY <1>6, <1>t DEF Offer, HandInv
  <2>2. InHand = {held} /\ InHand' = {}
    BY <1>h, <2>1 DEF InHand
  <2>3. held \notin Range(work)
    BY <1>a, <1>u, <2>2
  <2>4. Range(work') = Range(work) \cup {held} /\ NoRepeat(work')
    BY <1>p, <1>s, <2>1, <2>3, AppendAdds
  <2>5. MovedTo(4)
    BY <1>a, <1>b, <1>f, <1>u, <2>1, <2>2, <2>4
  <2>6. Partition(Places')
    BY <1>a, <1>m, <2>5
  <2>. QED  BY <1>f, <1>p, <2>1, <2>4, <2>6
<1>7. CASE LeaveWithJob
  <2>1. /\ held' = NoJob /\ lost' = lost \cup {held}
        /\ UNCHANGED <<unsent, inbox, work, load, out, answer>>
        /\ held \in Jobs
    BY <1>7, <1>t DEF LeaveWithJob, HandInv
  <2>2. InHand = {held} /\ InHand' = {}
    BY <1>h, <2>1 DEF InHand
  <2>3. MovedTo(8)
    BY <1>a, <1>b, <1>f, <1>u, <2>1, <2>2
  <2>4. Partition(Places')
    BY <1>a, <1>m, <2>3
  <2>. QED  BY <1>f, <1>p, <2>1, <2>4
<1>8. CASE Return
  <2>1. /\ inbox' = <<>> /\ lost' = lost \cup Range(inbox)
        /\ UNCHANGED <<unsent, held, work, load, out, answer>>
    BY <1>8 DEF Return
  <2>2. Range(inbox') = {} /\ NoRepeat(inbox')
    BY <2>1 DEF Range, NoRepeat
  <2>3. MovedTo(8)
    BY <1>a, <1>b, <1>f, <1>u, <2>1, <2>2
  <2>4. Partition(Places')
    BY <1>a, <1>m, <2>3
  <2>. QED  BY <1>f, <1>p, <2>1, <2>2, <2>4
<1>9. ASSUME NEW w \in Workers, PickUp(w)
      PROVE  Parts'
  <2>1. /\ work # <<>> /\ work' = Tail(work)
        /\ load' = [load EXCEPT ![w] = Head(work)]
        /\ UNCHANGED <<unsent, inbox, held, out, answer, lost>>
        /\ load[w] \notin Jobs
    BY <1>9, <1>t DEF PickUp, LoadInv
  <2>2. /\ Head(work) \in Jobs
        /\ Head(work) \in Range(work)
        /\ Range(work') = Range(work) \ {Head(work)}
        /\ NoRepeat(work')
    BY <1>p, <1>s, <2>1, TailTakes
  <2>3. Head(work) \notin InWorkers
    BY <1>a, <1>u, <2>2
  <2>4. InWorkers' = InWorkers \cup {Head(work)} /\ NoLoadTwice'
    BY <1>p, <1>t, <2>1, <2>2, <2>3, LoadPut
  <2>5. MovedTo(5)
    BY <1>a, <1>b, <1>f, <1>u, <2>1, <2>2, <2>4
  <2>6. Partition(Places')
    BY <1>a, <1>m, <2>5
  <2>. QED  BY <1>p, <2>1, <2>2, <2>4, <2>6
<1>10. ASSUME NEW w \in Workers, KernelPanic(w) \/ AnswerFails(w)
       PROVE  Parts'
  <2>1. /\ load' = [load EXCEPT ![w] = NoJob]
        /\ work' = WorkAfterEnd(w)
        /\ lost' = lost \cup {load[w]} \cup OrphanedJobs(w)
        /\ UNCHANGED <<unsent, inbox, held, out, answer>>
        /\ load[w] \in Jobs
    BY <1>10, <1>t DEF KernelPanic, AnswerFails, LoadInv
  <2>2. /\ load[w] \in InWorkers
        /\ InWorkers' = InWorkers \ {load[w]}
        /\ NoLoadTwice'
    BY <1>p, <1>t, <2>1, LoadClear
  <2>3. Range(work') = Range(work) \ OrphanedJobs(w) /\ NoRepeat(work')
    BY <1>p, <2>1 DEF WorkAfterEnd, OrphanedJobs, Range, NoRepeat
  <2>4. OrphanedJobs(w) \subseteq Range(work)
    BY DEF OrphanedJobs
  <2>5. MovedTo(8)
    BY <1>a, <1>b, <1>f, <1>u, <2>1, <2>2, <2>3, <2>4
  <2>6. Partition(Places')
    BY <1>a, <1>m, <2>5
  <2>. QED  BY <1>p, <2>1, <2>2, <2>3, <2>6
<1>11. ASSUME NEW w \in Workers, Answer(w)
       PROVE  Parts'
  <2>1. /\ out' = Append(out, [job |-> load[w], outcome |-> reply[w]])
        /\ load' = [load EXCEPT ![w] = NoJob]
        /\ UNCHANGED <<unsent, inbox, held, work, answer, lost>>
        /\ load[w] \in Jobs /\ reply[w] \in Outcomes
    BY <1>11, <1>t DEF Answer, LoadInv
  <2>2. /\ load[w] \in InWorkers
        /\ InWorkers' = InWorkers \ {load[w]}
        /\ NoLoadTwice'
    BY <1>p, <1>t, <2>1, LoadClear
  <2>3. load[w] \notin JobsOf(out)
    BY <1>a, <1>u, <2>2
  <2>4. [job |-> load[w], outcome |-> reply[w]] \in Result
    BY <2>1 DEF Result
  <2>5. JobsOf(out') = JobsOf(out) \cup {load[w]} /\ NoJobRepeat(out')
    BY <1>p, <1>s, <2>1, <2>3, <2>4, ResultAppendAdds
  <2>6. MovedTo(6)
    BY <1>a, <1>b, <1>f, <1>u, <2>1, <2>2, <2>5
  <2>7. Partition(Places')
    BY <1>a, <1>m, <2>6
  <2>. QED  BY <1>f, <1>p, <2>1, <2>2, <2>5, <2>7
<1>12. ASSUME NEW toml \in Tomls, Configure(toml)
       PROVE  Parts'
  BY <1>0, <1>12 DEF Configure
<1>13. CASE CloseJobs
  BY <1>0, <1>13 DEF CloseJobs
<1>14. ASSUME NEW j \in Jobs, CancelThrough(Watermark[j])
       PROVE  Parts'
  BY <1>0, <1>14 DEF CancelThrough
<1>15. CASE NoFirstJob \/ Spawn \/ Check \/ Leave \/ Join
  BY <1>0, <1>15 DEF NoFirstJob, Spawn, Check, Leave, Join
<1>16. ASSUME NEW w \in Workers, WorkerEnd(w) \/ KernelAbort(w) \/ PostCheck(w)
       PROVE  Parts'
  BY <1>0, <1>16 DEF WorkerEnd, KernelAbort, PostCheck
<1>17. ASSUME NEW w \in Workers, NEW r \in {"samples", "reject", "fatal"},
              KernelReturn(w, r)
       PROVE  Parts'
  BY <1>0, <1>17 DEF KernelReturn
<1>18. CASE UNCHANGED vars
  BY <1>0, <1>18 DEF vars
<1> HIDE DEF Parts, MovedTo
<1>. QED
  BY <1>1, <1>2, <1>3, <1>4, <1>5, <1>6, <1>7, <1>8, <1>9, <1>10, <1>11,
     <1>12, <1>13, <1>14, <1>15, <1>16, <1>17, <1>18
  DEF Next, SessionStep, PumpStep, WorkerStep, Finished

\* The session configures an idle pump, and does no more than store a number
\* or end the process.
LEMMA ConfigureIsEarly ==
  ASSUME IInv, NEW toml \in Tomls, Configure(toml)
  PROVE  /\ held \notin Jobs
         /\ pump \in {"first", "join"} /\ pump' \in {pump, "exited"}
         /\ UNCHANGED <<cancelled, unsent, jobsClosed, inbox, held, width, work, pc, load, reply,
                        out, outOpen, answer, lost, stale>>
<1>1. held \notin Jobs /\ width = 0
  BY DEF IInv, ControlInv, SentInv, Configure
<1>2. pump \in {"first", "join"}
  BY <1>1 DEF IInv, ControlInv, TypeOK, HandInv, StartInv, Configure, PumpGone
<1>3. pump' \in {pump, "exited"}
  BY DEF Configure
<1>. QED  BY <1>1, <1>2, <1>3 DEF Configure, workerVars, endVars

-----------------------------------------------------------------------------
(* The theorems *)

LEMMA WidthStep == ControlInv /\ WidthInv /\ [Next]_vars => WidthInv'
<1> SUFFICES ASSUME ControlInv, WidthInv, [Next]_vars
             PROVE  WidthInv'
  OBVIOUS
<1>1. ASSUME NEW toml \in Tomls, Configure(toml)
      PROVE  WidthInv'
  <2>1. width' = 0
    BY <1>1 DEF ControlInv, SentInv, TypeOK, Configure
  <2>2. CASE Refused(toml)
    BY <1>1, <2>1, <2>2 DEF Configure, WidthInv
  <2>3. CASE ~Refused(toml)
    BY <1>1, <2>1, <2>3, BudgetIsStored DEF Configure, WidthInv
  <2>. QED  BY <2>2, <2>3
<1>2. CASE Spawn
  <2>1. StreamWidth \in 1 .. Host /\ width' = Larger(StreamWidth, 1)
    BY <1>2, StreamWidthFits DEF ControlInv, TypeOK, Spawn
  <2>2. width' = StreamWidth
    BY <2>1, HostAssumption DEF Larger
  <2>3. UNCHANGED configVars /\ pump # "exited"
    BY <1>2 DEF Spawn, sessionVars
  <2>4. StreamWidth' = StreamWidth
    BY <2>3 DEF StreamWidth, CoreBudget, configVars
  <2>. QED  BY <2>2, <2>3, <2>4 DEF WidthInv, configVars
<1>3. ASSUME UNCHANGED <<configVars, width>>, pump' # "exited" => pump # "exited"
      PROVE  WidthInv'
  <2>1. StreamWidth' = StreamWidth
    BY <1>3 DEF StreamWidth, CoreBudget, configVars
  <2>. QED  BY <1>3, <2>1 DEF WidthInv, configVars
<1>4. ASSUME NEW w \in Workers, WorkerStep(w) \/ KernelPanic(w)
      PROVE  WidthInv'
  BY <1>3, <1>4 DEF WorkerStep, PickUp, WorkerEnd, KernelReturn, KernelAbort, KernelPanic,
                    PostCheck, Answer, AnswerFails, sessionVars, pumpVars
<1>5. CASE PumpStep
  BY <1>2, <1>3, <1>5 DEF PumpStep, Take, NoFirstJob, Check, DropHeld, Offer, LeaveWithJob, Leave,
                          Join, Return, sessionVars
<1>6. CASE SessionStep
  BY <1>1, <1>3, <1>6 DEF SessionStep, Send, CloseJobs, CancelThrough, Receive, HangUp,
                          sessionVars, pumpVars
<1>7. CASE UNCHANGED vars
  BY <1>3, <1>7 DEF vars, sessionVars, pumpVars
<1>. QED
  BY <1>4, <1>5, <1>6, <1>7 DEF Next, Finished

LEMMA InvariantInit == Init => IInv
<1>1. Init => WidthInv
  BY DEF Init, WidthInv
<1>. QED  BY <1>1, ControlInit, PlaceInit DEF IInv

LEMMA Invariant == Spec => []IInv
<1>1. Init => IInv
  BY InvariantInit
<1>2. IInv /\ [Next]_vars => IInv'
  BY ControlStep, WidthStep, PlaceStep DEF IInv
<1>. QED  BY <1>1, <1>2, PTL DEF Spec

\* No channel exceeds its capacity, no thread and no job is in a state that
\* run_stream_pump (lib.rs 191-289) does not know, for any number of workers.
THEOREM TypeCorrect == Spec => []TypeOK
<1>1. IInv => TypeOK
  BY DEF IInv, ControlInv
<1>. QED  BY <1>1, Invariant, PTL

\* A job is never duplicated, answered twice or forgotten between the
\* session, the pump and the workers (lib.rs 191-276): for every set of jobs,
\* every width and every channel capacity.
THEOREM JobsStayInOnePlace == Spec => []OnePlacePerJob
<1>1. IInv => OnePlacePerJob
  BY DEF IInv
<1>. QED  BY <1>1, Invariant, PTL

\* A pump that returned normally has joined a whole pool that ended without
\* a panic: the loop over the handles misses no worker (lib.rs 280-289).
THEOREM CleanReturnHolds == Spec => []CleanReturn
<1>1. IInv => CleanReturn
  <2> SUFFICES ASSUME IInv, pump = "done", NEW w \in Workers
               PROVE  pc[w] \in {"absent", "exited"}
    BY DEF CleanReturn
  <2>1. /\ joined = width /\ width \in Nat
        /\ \A v \in 1 .. joined : pc[v] = "exited"
        /\ pc[w] = "absent" <=> w > width
    BY DEF IInv, ControlInv, JoinInv, StartInv, TypeOK
  <2>. QED  BY <2>1 DEF Workers
<1>. QED  BY <1>1, Invariant, PTL

\* A pool never starts under a refused setting, and has as many workers as
\* whole models fit into the cores the operator granted, or the host has, and
\* one if none fits: for every host, sampler and setting (lib.rs 191-196,
\* 331-349, 406-436, 478-485).
THEOREM WidthHolds == Spec => []WidthFollowsConfigure
<1>1. IInv => WidthFollowsConfigure
  <2> SUFFICES ASSUME IInv, width # 0
               PROVE  /\ asked = Absent \/ (asked \in Int /\ asked > 0)
                      /\ width * CoresPerModel <= Granted \/ width = 1
                      /\ Granted < (width + 1) * CoresPerModel
                      /\ \A w \in Workers : pc[w] = "absent" <=> w > width
    BY DEF WidthFollowsConfigure
  <2>1. TypeOK /\ StartInv /\ WidthInv
    BY DEF IInv, ControlInv
  <2>2. pump # "exited" /\ width = StreamWidth
    BY <2>1 DEF StartInv, WidthInv
  <2>3. asked = Absent \/ (asked \in Int /\ asked > 0)
    BY <2>1, <2>2 DEF WidthInv
  <2>4. CoreBudget = Granted /\ Granted \in Nat \ {0}
    BY <2>1, <2>2, HostAssumption, TomlsAssumption DEF WidthInv, CoreBudget, Granted, Smaller
  <2>5. CoresPerModel \in Nat \ {0} /\ sampler.algorithm \in {"Sa", "Gibbs"}
    BY <2>1, SamplersAssumption DEF TypeOK, CoresPerModel, Larger
  <2>6. \/ width * CoresPerModel <= Granted /\ Granted < (width + 1) * CoresPerModel
        \/ width = 1 /\ Granted < (width + 1) * CoresPerModel
    <3>1. CASE sampler.algorithm = "Sa"
      BY <2>2, <2>4, <3>1 DEF StreamWidth, CoresPerModel
    <3>2. CASE sampler.algorithm = "Gibbs"
      <4>1. PICK q \in 0 .. Granted : q = Granted \div CoresPerModel
        BY <2>4, <2>5, WholeShares
      <4>2. q * CoresPerModel <= Granted /\ Granted < (q + 1) * CoresPerModel
        BY <2>4, <2>5, <4>1, WholeShares
      <4>3. width = Larger(q, 1)
        BY <2>2, <2>4, <3>2, <4>1 DEF StreamWidth, CoresPerModel
      <4>4. CASE q >= 1
        <5>1. width = q
          BY <4>3, <4>4 DEF Larger
        <5>. QED  BY <4>2, <5>1
      <4>5. CASE q = 0
        <5>1. width = 1 /\ Granted < CoresPerModel
          BY <2>5, <4>2, <4>3, <4>5 DEF Larger
        <5>2. (width + 1) * CoresPerModel = 2 * CoresPerModel
          BY <5>1
        <5>. QED  BY <2>4, <2>5, <5>1, <5>2
      <4>. QED  BY <4>4, <4>5
    <3>. QED  BY <2>5, <3>1, <3>2
  <2>8. \A w \in Workers : pc[w] = "absent" <=> w > width
    BY <2>1 DEF StartInv
  <2>. QED  BY <2>3, <2>6, <2>8
<1>. QED  BY <1>1, Invariant, PTL
-----------------------------------------------------------------------------
(* What one cancellation can cost *)

\* The jobs of generation g that may still count as stale: those that do, and
\* those a worker may yet pick up.
StaleOf(g) == {j \in stale : Watermark[j] = g}
Passed == Range(work) \cup (IF pump = "offer" THEN {held} ELSE {})
MayBeStale(g) == StaleOf(g) \cup {j \in Passed : Watermark[j] = g}

\* Nothing of a live generation is stale; once it is cancelled, nothing passes
\* the check any more.
StaleInv ==
  \A g \in Range(Watermark) \ {NoMark} :
    /\ cancelled <= g => StaleOf(g) = {}
    /\ g < cancelled => /\ IsFiniteSet(MayBeStale(g))
                        /\ Cardinality(MayBeStale(g)) <= width + 1

\* A queue names at most as many jobs as it has entries.
LEMMA QueueIsSmall ==
  ASSUME NEW S, NEW s \in Seq(S)
  PROVE  IsFiniteSet(Range(s)) /\ Cardinality(Range(s)) <= Len(s)
<1>1. Len(s) \in Nat /\ s \in [1 .. Len(s) -> S]
  BY LenProperties
<1>2. s \in Surjection(1 .. Len(s), Range(s))
  BY <1>1 DEF Surjection, Range
<1>3. IsFiniteSet(1 .. Len(s)) /\ Cardinality(1 .. Len(s)) = Len(s)
  BY <1>1, FS_Interval
<1>. QED  BY <1>2, <1>3, FS_Surjection

\* What passed the check is the queue and the job in the pump's hand.
LEMMA PassedIsSmall ==
  ASSUME TypeOK
  PROVE  IsFiniteSet(Passed) /\ Cardinality(Passed) <= width + 1
<1>1. work \in Seq(Jobs) /\ Len(work) \in Nat /\ Len(work) <= width /\ width \in Nat
  BY HostAssumption, LenProperties DEF TypeOK
<1>2. IsFiniteSet(Range(work)) /\ Cardinality(Range(work)) <= Len(work)
  BY <1>1, QueueIsSmall
<1>3. /\ IsFiniteSet(Range(work) \cup {held})
      /\ Cardinality(Range(work) \cup {held}) <= Cardinality(Range(work)) + 1
      /\ Cardinality(Range(work)) \in Nat
      /\ Cardinality(Range(work) \cup {held}) \in Nat
  <2>1. Cardinality(Range(work)) \in Nat
    BY <1>2, FS_CardinalityType
  <2>2. /\ IsFiniteSet(Range(work) \cup {held})
        /\ Cardinality(Range(work) \cup {held}) =
             IF held \in Range(work) THEN Cardinality(Range(work)) ELSE Cardinality(Range(work)) + 1
    BY <1>2, FS_AddElement
  <2>. QED  BY <2>1, <2>2
<1>4. Passed \in SUBSET (Range(work) \cup {held})
  BY DEF Passed
<1>5. IsFiniteSet(Passed) /\ Cardinality(Passed) <= Cardinality(Range(work) \cup {held})
  BY <1>3, <1>4, FS_Subset
<1>6. Cardinality(Passed) \in Nat
  BY <1>5, FS_CardinalityType
<1>. QED  BY <1>1, <1>2, <1>3, <1>5, <1>6

LEMMA GenerationsAreNumbers ==
  \A g \in Range(Watermark) \ {NoMark} : g \in Nat
BY WatermarkAssumption DEF Range

\* A step that keeps the token lets nothing more past the check for a cancelled
\* generation, and marks nothing of a live one, keeps the bound.
LEMMA StaleStays ==
  ASSUME StaleInv, TypeOK, cancelled' = cancelled,
         width' \in Nat, width <= width',
         \A j \in stale' : j \in stale \/ IsCancelled(j),
         \A j \in stale' : j \in stale \/ j \in Passed,
         \A j \in Passed' : j \in Passed \/ ~IsCancelled(j)
  PROVE  StaleInv'
<1> SUFFICES ASSUME NEW g \in Range(Watermark) \ {NoMark}
             PROVE  /\ cancelled <= g => StaleOf(g)' = {}
                    /\ g < cancelled => /\ IsFiniteSet(MayBeStale(g)')
                                        /\ Cardinality(MayBeStale(g)') <= width' + 1
  BY DEF StaleInv
<1>1. g \in Nat /\ cancelled \in Nat /\ width \in Nat
  BY GenerationsAreNumbers, HostAssumption DEF TypeOK
<1>2. ASSUME cancelled <= g
      PROVE  StaleOf(g)' = {}
  <2>1. StaleOf(g) = {}
    BY <1>2 DEF StaleInv
  <2> QED
    BY <1>1, <1>2, <2>1 DEF StaleOf, IsCancelled, CancelledAt
<1>3. ASSUME g < cancelled
      PROVE  IsFiniteSet(MayBeStale(g)') /\ Cardinality(MayBeStale(g)') <= width' + 1
  <2>1. IsFiniteSet(MayBeStale(g)) /\ Cardinality(MayBeStale(g)) <= width + 1
    BY <1>3 DEF StaleInv
  <2>2. \A j : Watermark[j] = g => IsCancelled(j)
    BY <1>1, <1>3 DEF IsCancelled, CancelledAt
  <2>3. MayBeStale(g)' \in SUBSET MayBeStale(g)
    BY <2>2 DEF MayBeStale, StaleOf
  <2>4. /\ IsFiniteSet(MayBeStale(g)')
        /\ Cardinality(MayBeStale(g)') <= Cardinality(MayBeStale(g))
        /\ Cardinality(MayBeStale(g)) \in Nat /\ Cardinality(MayBeStale(g)') \in Nat
    BY <2>1, <2>3, FS_Subset, FS_CardinalityType
  <2> QED
    BY <1>1, <2>1, <2>4
<1> QED
  BY <1>2, <1>3

\* At a cancellation nothing of its generations is stale yet, and what passed
\* the check is small.
LEMMA CancelStaysBounded ==
  ASSUME StaleInv, TypeOK, NEW h \in Nat, CancelThrough(h)
  PROVE  StaleInv'
<1> SUFFICES ASSUME NEW g \in Range(Watermark) \ {NoMark}
             PROVE  /\ cancelled' <= g => StaleOf(g) = {}
                    /\ g < cancelled' => /\ IsFiniteSet(MayBeStale(g))
                                         /\ Cardinality(MayBeStale(g)) <= width + 1
  BY DEF StaleInv, CancelThrough, StaleOf, MayBeStale, Passed, pumpVars
<1>1. /\ g \in Nat /\ cancelled \in Nat /\ width \in Nat
      /\ cancelled' \in Nat /\ cancelled < cancelled'
  BY GenerationsAreNumbers, HostAssumption DEF TypeOK, CancelThrough
<1>2. CASE g < cancelled
  BY <1>1, <1>2 DEF StaleInv
<1>3. CASE cancelled <= g
  <2>1. StaleOf(g) = {}
    BY <1>3 DEF StaleInv
  <2>2. MayBeStale(g) \in SUBSET Passed
    BY <2>1 DEF MayBeStale
  <2>3. IsFiniteSet(Passed) /\ Cardinality(Passed) <= width + 1
    BY PassedIsSmall
  <2>4. /\ IsFiniteSet(MayBeStale(g)) /\ Cardinality(MayBeStale(g)) <= Cardinality(Passed)
        /\ Cardinality(MayBeStale(g)) \in Nat /\ Cardinality(Passed) \in Nat
    BY <2>2, <2>3, FS_Subset, FS_CardinalityType
  <2> QED
    BY <1>1, <2>1, <2>3, <2>4
<1> QED
  BY <1>1, <1>2, <1>3

LEMMA StaleStep == IInv /\ StaleInv /\ [Next]_vars => StaleInv'
<1> SUFFICES ASSUME IInv, StaleInv, [Next]_vars
             PROVE  StaleInv'
  OBVIOUS
<1>1. /\ TypeOK /\ HandInv /\ StartInv
      /\ width \in Nat /\ work \in Seq(Jobs)
      /\ work # <<>> => Range(Tail(work)) \subseteq Range(work) /\ Head(work) \in Range(work)
  <2>1. TypeOK /\ HandInv /\ StartInv /\ NoRepeat(work)
    BY OnePlaceParts DEF IInv, ControlInv
  <2> QED
    BY <2>1, TailTakes, HostAssumption DEF TypeOK
<1>2. ASSUME UNCHANGED <<cancelled, width, stale>>, Passed' \subseteq Passed
      PROVE  StaleInv'
  BY <1>1, <1>2, StaleStays
<1>3. ASSUME UNCHANGED <<cancelled, pumpVars, stale>>, work' = work \/ work' = <<>>
      PROVE  StaleInv'
  <2>1. Passed' \subseteq Passed
    BY <1>3 DEF Passed, pumpVars, Range
  <2> QED
    BY <1>2, <1>3, <2>1 DEF pumpVars
<1>4. CASE SessionStep
  <2>1. ASSUME NEW h \in Nat, CancelThrough(h)
        PROVE  StaleInv'
    BY <1>1, <2>1, CancelStaysBounded
  <2>2. \A j \in Jobs : Watermark[j] # NoMark => Watermark[j] \in Nat
    BY WatermarkAssumption
  <2>3. CASE (\E j \in Jobs : Send(j)) \/ CloseJobs \/ Receive \/ HangUp
    BY <1>3, <2>3 DEF Send, CloseJobs, Receive, HangUp, pumpVars
  <2>4. ASSUME NEW toml \in Tomls, Configure(toml)
        PROVE  StaleInv'
    <3>1. /\ UNCHANGED <<cancelled, width, stale, work, held>>
          /\ pump' = "offer" => pump = "offer"
      BY <1>1, <2>4, ConfigureIsEarly
    <3>2. Passed' \subseteq Passed
      BY <3>1 DEF Passed
    <3> QED
      BY <1>2, <3>1, <3>2
  <2> QED
    BY <1>4, <2>1, <2>2, <2>3, <2>4 DEF SessionStep
<1>5. CASE PumpStep
  <2>1. CASE Spawn
    <3>1. width = 0 /\ width' \in Nat
      <4>1. width = 0 /\ StreamWidth \in 1 .. Host /\ width' = Larger(StreamWidth, 1)
        BY <1>1, <2>1, StreamWidthFits DEF Spawn, StartInv, TypeOK
      <4> QED
        BY <4>1, HostAssumption DEF Larger
    <3>2. Passed' \subseteq Passed /\ UNCHANGED <<cancelled, stale>>
      BY <2>1 DEF Spawn, Passed
    <3> QED
      BY <1>1, <3>1, <3>2, StaleStays
  <2>2. CASE Check
    <3>1. \A j \in Passed' : j \in Passed \/ ~IsCancelled(j)
      BY <2>2 DEF Check, Passed
    <3> QED
      BY <1>1, <2>2, <3>1, StaleStays DEF Check
  <2>3. CASE Offer
    <3>1. held \in Jobs
      BY <1>1, <2>3 DEF Offer, HandInv
    <3>2. Range(work') = Range(work) \cup {held}
      BY <1>1, <2>3, <3>1, AppendAdds DEF Offer
    <3>3. Passed' \subseteq Passed
      BY <2>3, <3>2 DEF Offer, Passed
    <3> QED
      BY <1>2, <2>3, <3>3 DEF Offer
  <2>4. CASE Take \/ NoFirstJob \/ DropHeld \/ LeaveWithJob \/ Leave \/ Join \/ Return
    <3>1. /\ UNCHANGED <<cancelled, width, stale, work>>
          /\ pump' # "offer" \/ UNCHANGED <<pump, held>>
      BY <2>4 DEF Take, NoFirstJob, DropHeld, LeaveWithJob, Leave, Join, Return
    <3>2. Passed' \subseteq Passed
      BY <3>1 DEF Passed
    <3> QED
      BY <1>2, <3>1, <3>2
  <2> QED
    BY <1>5, <2>1, <2>2, <2>3, <2>4 DEF PumpStep
<1>6. ASSUME NEW w \in Workers, WorkerStep(w) \/ KernelPanic(w)
      PROVE  StaleInv'
  <2>1. CASE PickUp(w)
    <3>1. /\ Passed' \subseteq Passed
          /\ \A j \in stale' : j \in stale \/ (j \in Passed /\ IsCancelled(j))
      BY <1>1, <2>1 DEF PickUp, Passed, pumpVars
    <3> QED
      BY <1>1, <2>1, <3>1, StaleStays DEF PickUp, pumpVars
  <2>2. CASE \/ WorkerEnd(w) \/ KernelAbort(w) \/ PostCheck(w) \/ Answer(w) \/ AnswerFails(w)
             \/ KernelPanic(w)
             \/ \E r \in {"samples", "reject", "fatal"} : KernelReturn(w, r)
    BY <1>3, <2>2 DEF WorkerEnd, KernelAbort, PostCheck, Answer, AnswerFails, KernelPanic,
                      KernelReturn, WorkAfterEnd
  <2> QED
    BY <1>6, <2>1, <2>2 DEF WorkerStep
<1>7. CASE UNCHANGED vars
  BY <1>3, <1>7 DEF vars, pumpVars
<1> QED
  BY <1>4, <1>5, <1>6, <1>7 DEF Next, Finished

LEMMA StaleInvariant == Spec => []StaleInv
<1>1. Init => StaleInv
  <2> SUFFICES ASSUME Init, NEW g \in Range(Watermark) \ {NoMark}
               PROVE  ~ g < cancelled /\ StaleOf(g) = {}
    BY DEF StaleInv
  <2> QED
    BY GenerationsAreNumbers DEF Init, StaleOf
<1> QED
  BY <1>1, StaleStep, Invariant, PTL DEF Spec

\* However many jobs wait and however the threads interleave, a cancelled
\* generation costs at most the bounded queue and the one job in the pump's
\* hand (lib.rs 195, 261-276).
THEOREM StaleIsBounded == Spec => []StaleBounded
<1>1. ASSUME TypeOK, StaleInv
      PROVE  StaleBounded
  <2> SUFFICES ASSUME NEW g \in Range(Watermark) \ {NoMark}
               PROVE  Cardinality(StaleOf(g)) <= width + 1
    BY DEF StaleBounded, StaleOf
  <2>1. g \in Nat /\ cancelled \in Nat /\ width \in Nat
    BY <1>1, GenerationsAreNumbers, HostAssumption DEF TypeOK
  <2>2. CASE cancelled <= g
    BY <1>1, <2>1, <2>2, FS_EmptySet DEF StaleInv
  <2>3. CASE g < cancelled
    <3>1. IsFiniteSet(MayBeStale(g)) /\ Cardinality(MayBeStale(g)) <= width + 1
      BY <1>1, <2>3 DEF StaleInv
    <3>2. StaleOf(g) \in SUBSET MayBeStale(g)
      BY DEF MayBeStale
    <3>3. /\ IsFiniteSet(StaleOf(g)) /\ Cardinality(StaleOf(g)) <= Cardinality(MayBeStale(g))
          /\ Cardinality(StaleOf(g)) \in Nat /\ Cardinality(MayBeStale(g)) \in Nat
      BY <3>1, <3>2, FS_Subset, FS_CardinalityType
    <3> QED
      BY <2>1, <3>1, <3>3
  <2> QED
    BY <2>1, <2>2, <2>3
<1> QED
  BY <1>1, TypeCorrect, StaleInvariant, PTL

-----------------------------------------------------------------------------
(* The ledger: what else always holds *)

Broken == ~outOpen \/ \E w \in Workers : pc[w] = "panicked"

\* A polling kernel gave up only on a cancelled job.
AbortInv ==
  \A w \in Workers : pc[w] = "ran" /\ reply[w] = "cancelled" => IsCancelled(load[w])

\* A worker ends before the pump leaves its loop only for want of a reader.
ExitInv ==
  (\E w \in Workers : pc[w] = "exited") => ~outOpen \/ pump \in {"join", "done", "raised", "exited"}

\* The pump leaves its loop with jobs in the channel only after a failure.
LeaveInv == pump = "join" => Broken \/ (jobsClosed /\ inbox = <<>>)

LInv == AbortInv /\ ExitInv /\ LeaveInv

\* A cancelled job stays cancelled.
LEMMA CancelledForGood ==
  ASSUME TypeOK, [Next]_vars, NEW j \in Jobs, IsCancelled(j)
  PROVE  IsCancelled(j)'
<1>1. cancelled \in Nat /\ cancelled' \in Nat /\ cancelled <= cancelled'
  <2>1. cancelled \in Nat
    BY DEF TypeOK
  <2>2. ASSUME NEW i \in Jobs, Watermark[i] # NoMark, CancelThrough(Watermark[i])
        PROVE  cancelled' \in Nat /\ cancelled <= cancelled'
    BY <2>1, <2>2, WatermarkAssumption DEF CancelThrough
  <2>3. CASE cancelled' = cancelled
    BY <2>1, <2>3
  <2>4. (\E i \in Jobs : Watermark[i] # NoMark /\ CancelThrough(Watermark[i])) \/ cancelled' = cancelled
    BY DEF Next, SessionStep, PumpStep, WorkerStep, Finished, vars, Configure, Send, CloseJobs,
           Receive, HangUp, Take, NoFirstJob, Spawn, Check, DropHeld, Offer, LeaveWithJob, Leave,
           Join, Return, PickUp, WorkerEnd, KernelReturn, KernelAbort, KernelPanic, PostCheck,
           Answer, AnswerFails, sessionVars, configVars, pumpVars, workerVars, endVars
  <2> QED
    BY <2>1, <2>2, <2>3, <2>4
<1> QED
  BY <1>1, WatermarkAssumption DEF IsCancelled, CancelledAt

\* What breaks stays broken.
LEMMA BrokenForGood ==
  ASSUME IInv, [Next]_vars, Broken
  PROVE  Broken'
<1> USE DEF sessionVars, configVars, pumpVars, workerVars, endVars
<1>1. /\ outOpen \in BOOLEAN /\ StartInv /\ HandInv
      /\ pc \in [Workers -> {"absent", "idle", "run", "ran", "send", "exited", "panicked"}]
      /\ width \in 0 .. Host
  BY DEF IInv, ControlInv, TypeOK
<1>2. ASSUME ~outOpen
      PROVE  ~outOpen'
  BY <1>2 DEF Next, SessionStep, PumpStep, WorkerStep, Finished, vars, Configure, Send, CloseJobs,
         CancelThrough, Receive, HangUp, Take, NoFirstJob, Spawn, Check, DropHeld, Offer,
         LeaveWithJob, Leave, Join, Return, PickUp, WorkerEnd, KernelReturn, KernelAbort,
         KernelPanic, PostCheck, Answer, AnswerFails
<1>3. ASSUME NEW w \in Workers, pc[w] = "panicked"
      PROVE  pc'[w] = "panicked"
  <2>1. CASE Spawn
    <3>1. pc[w] = "absent"
      BY <1>1, <2>1, HostAssumption DEF Spawn, StartInv, Workers
    <3> QED
      BY <1>3, <3>1
  <2>2. ASSUME NEW v \in Workers, WorkerStep(v) \/ KernelPanic(v)
        PROVE  pc'[w] = "panicked"
    <3>1. \E p : pc' = [pc EXCEPT ![v] = p] /\ (v = w => p = "panicked")
      BY <1>3, <2>2 DEF WorkerStep, PickUp, WorkerEnd, KernelReturn, KernelAbort, KernelPanic,
                        PostCheck, Answer, AnswerFails
    <3> QED
      BY <1>1, <1>3, <3>1
  <2>3. CASE pc' = pc
    BY <1>3, <2>3
  <2>4. Spawn \/ (\E v \in Workers : WorkerStep(v) \/ KernelPanic(v)) \/ pc' = pc
    BY DEF Next, SessionStep, PumpStep, Finished, vars, Configure, Send, CloseJobs, CancelThrough,
           Receive, HangUp, Take, NoFirstJob, Check, DropHeld, Offer, LeaveWithJob, Leave, Join,
           Return
  <2> QED
    BY <2>1, <2>2, <2>3, <2>4
<1> QED
  BY <1>2, <1>3 DEF Broken

\* With a job to offer and nobody to take it, something broke.
LEMMA NobodyLeftIsBroken ==
  ASSUME IInv, LInv, pump = "offer", \A w \in Workers : ~Alive(w)
  PROVE  Broken
<1>1. /\ width \in 1 .. Host
      /\ \A w \in Workers : pc[w] = "absent" <=> w > width
      /\ \A w \in Workers : pc[w] \in {"absent", "exited", "panicked"}
  BY DEF IInv, ControlInv, TypeOK, StartInv, Alive
<1>2. 1 \in Workers /\ pc[1] # "absent"
  BY <1>1, HostAssumption DEF Workers
<1>3. pc[1] \in {"exited", "panicked"}
  BY <1>1, <1>2
<1> QED
  BY <1>2, <1>3 DEF LInv, ExitInv, Broken

LEMMA LedgerInit == Init => LInv
BY DEF Init, LInv, AbortInv, ExitInv, LeaveInv

LEMMA LedgerStep == IInv /\ LInv /\ [Next]_vars => LInv'
<1> SUFFICES ASSUME IInv, LInv, [Next]_vars
             PROVE  LInv'
  OBVIOUS
<1> USE DEF sessionVars, configVars, pumpVars, workerVars, endVars
<1>1. /\ TypeOK /\ LoadInv /\ outOpen \in BOOLEAN /\ AbortInv /\ ExitInv /\ LeaveInv
      /\ pc \in [Workers -> {"absent", "idle", "run", "ran", "send", "exited", "panicked"}]
      /\ load \in [Workers -> Jobs \cup {NoJob}]
      /\ reply \in [Workers -> Outcomes \cup {"none"}]
  BY DEF IInv, ControlInv, TypeOK, LInv
<1>2. \A w \in Workers : pc[w] = "ran" => load[w] \in Jobs
  BY <1>1 DEF LoadInv
<1>3. ASSUME UNCHANGED <<pc, load, reply>>
      PROVE  AbortInv'
  BY <1>1, <1>2, <1>3, CancelledForGood DEF AbortInv
<1>4. ASSUME UNCHANGED pc, pump' = pump \/ pump' \in {"join", "done", "raised", "exited"} \/ \A w \in Workers : pc[w] # "exited",
             ~outOpen => ~outOpen', pump \in {"join", "done", "raised", "exited"} => pump' \in {"join", "done", "raised", "exited"}
      PROVE  ExitInv'
  BY <1>1, <1>4 DEF ExitInv
<1>5. ASSUME pump' # "join"
      PROVE  LeaveInv'
  BY <1>5 DEF LeaveInv
<1>6. ASSUME pump' = pump, jobsClosed => jobsClosed' /\ (inbox = <<>> => inbox' = <<>>)
      PROVE  LeaveInv'
  BY <1>1, <1>6, BrokenForGood DEF LeaveInv
<1>7. CASE SessionStep
  <2>1. CASE \E toml \in Tomls : Configure(toml)
    <3>1. /\ pump' \in {pump, "exited"}
          /\ UNCHANGED <<pc, load, reply, outOpen, jobsClosed, inbox>>
      BY <2>1, ConfigureIsEarly
    <3>2. LeaveInv'
      BY <1>5, <1>6, <3>1
    <3> QED
      BY <1>3, <1>4, <3>1, <3>2 DEF LInv
  <2>2. CASE ~\E toml \in Tomls : Configure(toml)
    <3>1. /\ UNCHANGED <<pc, load, reply, pump>>
          /\ ~outOpen => ~outOpen'
          /\ jobsClosed => jobsClosed' /\ (inbox = <<>> => inbox' = <<>>)
      BY <1>7, <2>2 DEF SessionStep, Send, CloseJobs, CancelThrough, Receive, HangUp
    <3> QED
      BY <1>3, <1>4, <1>6, <3>1 DEF LInv
  <2> QED
    BY <2>1, <2>2
<1>8. CASE PumpStep
  <2>1. CASE Spawn
    <3>1. /\ UNCHANGED <<load, reply, outOpen>> /\ pump' = "check"
          /\ \A w \in Workers : pc'[w] \in {"idle", "absent"}
      BY <2>1 DEF Spawn
    <3> QED
      BY <3>1 DEF LInv, AbortInv, ExitInv, LeaveInv
  <2>2. CASE Take \/ NoFirstJob
    <3>1. pump = "first" => \A w \in Workers : pc[w] = "absent"
      BY HostAssumption DEF IInv, ControlInv, StartInv, Workers
    <3>2. /\ UNCHANGED <<pc, load, reply, outOpen>>
          /\ pump \in {"first", "recv"} /\ pump' \in {"spawn", "check", "done"}
      BY <2>2 DEF Take, NoFirstJob
    <3> QED
      BY <1>1, <1>3, <1>5, <3>1, <3>2 DEF LInv, ExitInv
  <2>3. CASE Check \/ DropHeld \/ Offer
    <3>1. /\ UNCHANGED <<pc, load, reply, outOpen>>
          /\ pump \in {"check", "drop", "offer"} /\ pump' \in {"drop", "offer", "recv"}
      BY <2>3 DEF Check, DropHeld, Offer
    <3> QED
      BY <1>1, <1>3, <1>5, <3>1 DEF LInv, ExitInv
  <2>4. CASE LeaveWithJob \/ Leave
    <3>1. UNCHANGED <<pc, load, reply, outOpen, inbox, jobsClosed>> /\ pump' = "join"
      BY <2>4 DEF LeaveWithJob, Leave
    <3>2. Broken \/ (jobsClosed /\ inbox = <<>>)
      BY <2>4, NobodyLeftIsBroken DEF LeaveWithJob, Leave, Broken
    <3> QED
      BY <1>3, <3>1, <3>2, BrokenForGood DEF LInv, ExitInv, LeaveInv
  <2>5. CASE Join \/ Return
    <3>1. /\ UNCHANGED <<pc, load, reply, outOpen, jobsClosed>>
          /\ pump' \in {"join", "done", "raised", "exited"} /\ (inbox = <<>> => inbox' = <<>>)
          /\ pump = "join"
      BY <2>5 DEF Join, Return
    <3> QED
      BY <1>1, <1>3, <3>1, BrokenForGood DEF LInv, ExitInv, LeaveInv
  <2> QED
    BY <1>8, <2>1, <2>2, <2>3, <2>4, <2>5 DEF PumpStep
<1>9. ASSUME NEW w \in Workers, WorkerStep(w) \/ KernelPanic(w)
      PROVE  LInv'
  <2>1. UNCHANGED <<pump, inbox, jobsClosed, outOpen, cancelled>>
    BY <1>9 DEF WorkerStep, PickUp, WorkerEnd, KernelReturn, KernelAbort, KernelPanic, PostCheck,
                Answer, AnswerFails
  <2>2. LeaveInv'
    BY <1>6, <2>1
  <2>3. \E p : /\ pc' = [pc EXCEPT ![w] = p]
               /\ p = "exited" => ~outOpen \/ ~WorkOpen
    BY <1>9 DEF WorkerStep, PickUp, WorkerEnd, KernelReturn, KernelAbort, KernelPanic, PostCheck,
                Answer, AnswerFails
  <2>4. ExitInv'
    BY <1>1, <2>1, <2>3 DEF ExitInv, WorkOpen, PumpGone
  <2>5. ASSUME NEW p, pc' = [pc EXCEPT ![w] = p], p # "ran",
               \A v \in Workers \ {w} : load'[v] = load[v] /\ reply'[v] = reply[v]
        PROVE  AbortInv'
    BY <1>1, <2>1, <2>5 DEF AbortInv, IsCancelled, CancelledAt
  <2>6. ASSUME \/ PickUp(w) \/ WorkerEnd(w) \/ KernelPanic(w)
               \/ PostCheck(w) \/ Answer(w) \/ AnswerFails(w)
        PROVE  AbortInv'
    <3>1. PICK p : pc' = [pc EXCEPT ![w] = p] /\ p # "ran"
      BY <2>6 DEF PickUp, WorkerEnd, KernelPanic, PostCheck, Answer, AnswerFails
    <3>2. \A v \in Workers \ {w} : load'[v] = load[v] /\ reply'[v] = reply[v]
      BY <1>1, <2>6 DEF PickUp, WorkerEnd, KernelPanic, PostCheck, Answer, AnswerFails
    <3> QED
      BY <2>5, <3>1, <3>2
  <2>7. ASSUME KernelAbort(w) \/ \E r \in {"samples", "reject", "fatal"} : KernelReturn(w, r)
        PROVE  AbortInv'
    <3>1. PICK r : /\ r = "cancelled" => IsCancelled(load[w])
                   /\ pc' = [pc EXCEPT ![w] = "ran"] /\ reply' = [reply EXCEPT ![w] = r] /\ load' = load
      BY <2>7, Zenon DEF KernelAbort, KernelReturn
    <3> QED
      BY <1>1, <2>1, <3>1 DEF AbortInv, IsCancelled, CancelledAt
  <2> QED
    BY <1>9, <2>2, <2>4, <2>6, <2>7 DEF LInv, WorkerStep
<1>10. CASE UNCHANGED vars
  <2>1. UNCHANGED <<pc, load, reply, pump, outOpen, inbox, jobsClosed>>
    BY <1>10 DEF vars
  <2> QED
    BY <1>3, <1>4, <1>6, <2>1 DEF LInv
<1> QED
  BY <1>7, <1>8, <1>9, <1>10 DEF Next, Finished

LEMMA LedgerInvariant == Spec => []LInv
BY LedgerInit, LedgerStep, Invariant, PTL DEF Spec

-----------------------------------------------------------------------------
(* The ledger: where a job is tells its stage and its verdict *)

\* Still to be judged, and judged as v.
OpenAt(k) ==
  \/ k \in Range(inbox) \/ k \in Range(work)
  \/ k = held /\ pump # "drop"
  \/ \E w \in Workers : load[w] = k /\ pc[w] # "send"
JudgedAs(k, v) ==
  \/ k = held /\ pump = "drop" /\ v = "cancelled"
  \/ \E w \in Workers : load[w] = k /\ pc[w] = "send" /\ reply[w] = v
  \/ \E i \in DOMAIN out : out[i].job = k /\ out[i].outcome = v

StageFacts ==
  \A k \in Jobs :
    /\ k \in unsent => Stage(k) = "unsent" /\ Verdict(k) = "none"
    /\ OpenAt(k) => Stage(k) = "open" /\ Verdict(k) = "none"
    /\ \A v : JudgedAs(k, v) => Stage(k) = "judged" /\ Verdict(k) = v
    /\ k \in Answered => Stage(k) = "delivered" /\ Verdict(k) = answer[k]
    /\ k \in lost => Stage(k) = "lost" /\ Verdict(k) = "none"
    /\ k \in unsent \/ OpenAt(k) \/ (\E v : JudgedAs(k, v)) \/ k \in Answered \/ k \in lost

LEMMA StageOf == IInv => StageFacts
<1> SUFFICES ASSUME IInv, NEW k \in Jobs
             PROVE  /\ k \in unsent => Stage(k) = "unsent" /\ Verdict(k) = "none"
                    /\ OpenAt(k) => Stage(k) = "open" /\ Verdict(k) = "none"
                    /\ \A v : JudgedAs(k, v) => Stage(k) = "judged" /\ Verdict(k) = v
                    /\ k \in Answered => Stage(k) = "delivered" /\ Verdict(k) = answer[k]
                    /\ k \in lost => Stage(k) = "lost" /\ Verdict(k) = "none"
                    /\ k \in unsent \/ OpenAt(k) \/ (\E v : JudgedAs(k, v)) \/ k \in Answered
                       \/ k \in lost
  BY DEF StageFacts
<1> DEFINE InLoad == \E w \in Workers : load[w] = k
<1>1. /\ \/ k \in unsent \/ k \in Range(inbox) \/ k = held \/ k \in Range(work) \/ InLoad
         \/ k \in InOut \/ k \in Answered \/ k \in lost
      /\ k \in unsent => ~(k \in Range(inbox) \/ k = held \/ k \in Range(work) \/ InLoad
                           \/ k \in InOut \/ k \in Answered \/ k \in lost)
      /\ k \in lost => ~(k \in Range(inbox) \/ k = held \/ k \in Range(work) \/ InLoad
                         \/ k \in InOut \/ k \in Answered)
      /\ k \in Answered => ~(k \in Range(inbox) \/ k = held \/ k \in Range(work) \/ InLoad
                             \/ k \in InOut)
      /\ k \in InOut => ~(k \in Range(inbox) \/ k = held \/ k \in Range(work) \/ InLoad)
      /\ InLoad => ~(k \in Range(inbox) \/ k = held \/ k \in Range(work))
      /\ k = held => ~(k \in Range(inbox) \/ k \in Range(work))
      /\ k \in Range(inbox) => k \notin Range(work)
  <2>1. Partition(Places) /\ k # NoJob
    BY OnePlaceParts, NoJobAssumption DEF IInv
  <2>2. /\ \E a \in PlaceNo : k \in Places[a]
        /\ \A a, b \in PlaceNo : a # b => ~(k \in Places[a] /\ k \in Places[b])
    BY <2>1, PlacesAre DEF Partition, Range
  <2>3. /\ k \in Places[1] <=> k \in unsent
        /\ k \in Places[2] <=> k \in Range(inbox)
        /\ k \in Places[3] <=> k = held
        /\ k \in Places[4] <=> k \in Range(work)
        /\ k \in Places[5] <=> InLoad
        /\ k \in Places[6] <=> k \in InOut
        /\ k \in Places[7] <=> k \in Answered
        /\ k \in Places[8] <=> k \in lost
    BY <2>1, PlacesAre, OnePlaceParts DEF InHand, InWorkers
  <2>4. PlaceNo = {1, 2, 3, 4, 5, 6, 7, 8}
    BY DEF PlaceNo
  <2> HIDE DEF InLoad
  <2>5. /\ \A a \in {2, 3, 4, 5, 6, 7, 8} : ~(k \in Places[1] /\ k \in Places[a])
        /\ \A a \in {2, 3, 4, 5, 6, 7} : ~(k \in Places[8] /\ k \in Places[a])
        /\ \A a \in {2, 3, 4, 5, 6} : ~(k \in Places[7] /\ k \in Places[a])
        /\ \A a \in {2, 3, 4, 5} : ~(k \in Places[6] /\ k \in Places[a])
        /\ \A a \in {2, 3, 4} : ~(k \in Places[5] /\ k \in Places[a])
        /\ \A a \in {2, 4} : ~(k \in Places[3] /\ k \in Places[a])
        /\ ~(k \in Places[2] /\ k \in Places[4])
    BY <2>2, <2>4
  <2> QED
    BY <2>2, <2>3, <2>4, <2>5
<1>2. /\ NoLoadTwice /\ NoJobRepeat(out) /\ k # NoJob
  BY OnePlaceParts, NoJobAssumption DEF IInv
<1>3. /\ (\E v : JudgedAs(k, v)) <=> k \in InOut \/ Judging(k) \/ (pump = "drop" /\ held = k)
      /\ OpenAt(k) => ~ k \in InOut /\ ~ Judging(k) /\ ~(pump = "drop" /\ held = k)
  <2>1. Judging(k) => InLoad
    BY DEF Judging
  <2>2. OpenAt(k) => ~ k \in InOut /\ ~ Judging(k) /\ ~(pump = "drop" /\ held = k)
    BY <1>1, <1>2, <2>1 DEF OpenAt, Judging, NoLoadTwice
  <2>3. (\E v : JudgedAs(k, v)) <=> k \in InOut \/ Judging(k) \/ (pump = "drop" /\ held = k)
    BY DEF JudgedAs, InOut, Judging
  <2> QED
    BY <2>2, <2>3
<1>4. Judging(k) => InLoad
  BY DEF Judging
<1>5. k \in unsent => Stage(k) = "unsent" /\ Verdict(k) = "none"
  BY <1>1, <1>4 DEF Stage, Verdict
<1>6. k \in lost => Stage(k) = "lost" /\ Verdict(k) = "none"
  BY <1>1, <1>4 DEF Stage, Verdict
<1>7. k \in Answered => Stage(k) = "delivered" /\ Verdict(k) = answer[k]
  BY <1>1, <1>4 DEF Stage, Verdict
<1>8. OpenAt(k) => Stage(k) = "open" /\ Verdict(k) = "none"
  <2>1. OpenAt(k) => k \notin unsent /\ k \notin Answered /\ k \notin lost
    BY <1>1 DEF OpenAt
  <2> QED
    BY <1>3, <2>1 DEF Stage, Verdict
<1>9. ASSUME NEW v, JudgedAs(k, v)
      PROVE  Stage(k) = "judged" /\ Verdict(k) = v
  <2>1. k \notin unsent /\ k \notin Answered /\ k \notin lost
    BY <1>1, <1>3, <1>4, <1>9
  <2>2. Stage(k) = "judged"
    BY <1>3, <1>9, <2>1 DEF Stage
  <2>3. CASE k = held /\ pump = "drop" /\ v = "cancelled"
    BY <1>1, <1>4, <2>1, <2>2, <2>3 DEF Verdict
  <2>4. ASSUME NEW u \in Workers, load[u] = k, pc[u] = "send", reply[u] = v
        PROVE  Verdict(k) = v
    <3> DEFINE chosen == CHOOSE w \in Workers : load[w] = k
    <3>1. Judging(k) /\ k \notin InOut /\ k # held
      BY <1>1, <2>4 DEF Judging
    <3>2. chosen = u
      BY <1>2, <2>4 DEF NoLoadTwice
    <3>3. Verdict(k) = reply[chosen]
      BY <2>1, <3>1 DEF Verdict
    <3> HIDE DEF chosen
    <3> QED
      BY <2>4, <3>2, <3>3
  <2>5. ASSUME NEW i \in DOMAIN out, out[i].job = k, out[i].outcome = v
        PROVE  Verdict(k) = v
    <3> DEFINE chosen == CHOOSE r \in Range(out) : r.job = k
    <3>1. k \in InOut /\ ~Judging(k) /\ k # held
      BY <1>1, <1>4, <2>5 DEF InOut
    <3>2. \A r \in Range(out) : r.job = k => r = out[i]
      BY <1>2, <2>5 DEF NoJobRepeat, Range
    <3>3. out[i] \in Range(out)
      BY DEF Range
    <3>4. chosen = out[i]
      BY <2>5, <3>2, <3>3
    <3>5. Verdict(k) = chosen.outcome
      BY <2>1, <3>1 DEF Verdict
    <3> HIDE DEF chosen
    <3> QED
      BY <2>5, <3>4, <3>5
  <2> QED
    BY <1>9, <2>2, <2>3, <2>4, <2>5 DEF JudgedAs
<1>10. k \in unsent \/ OpenAt(k) \/ (\E v : JudgedAs(k, v)) \/ k \in Answered \/ k \in lost
  BY <1>1, <1>3 DEF OpenAt, Judging
<1> QED
  BY <1>5, <1>6, <1>7, <1>8, <1>9, <1>10

\* A job that keeps its kind of place keeps its stage and its verdict.
Stays(k) ==
  /\ k \in unsent => k \in unsent'
  /\ OpenAt(k) => OpenAt(k)'
  /\ \A v : JudgedAs(k, v) => JudgedAs(k, v)'
  /\ k \in Answered => k \in Answered' /\ answer'[k] = answer[k]
  /\ k \in lost => k \in lost'
Same(k) == Stage(k)' = Stage(k) /\ Verdict(k)' = Verdict(k)

LEMMA StaysIsSame ==
  ASSUME StageFacts, StageFacts', NEW k \in Jobs, Stays(k)
  PROVE  Same(k)
<1>1. /\ k \in unsent => Stage(k) = "unsent" /\ Verdict(k) = "none"
      /\ OpenAt(k) => Stage(k) = "open" /\ Verdict(k) = "none"
      /\ \A v : JudgedAs(k, v) => Stage(k) = "judged" /\ Verdict(k) = v
      /\ k \in Answered => Stage(k) = "delivered" /\ Verdict(k) = answer[k]
      /\ k \in lost => Stage(k) = "lost" /\ Verdict(k) = "none"
      /\ k \in unsent \/ OpenAt(k) \/ (\E v : JudgedAs(k, v)) \/ k \in Answered \/ k \in lost
  BY DEF StageFacts
<1>2. /\ k \in unsent' => Stage(k)' = "unsent" /\ Verdict(k)' = "none"
      /\ OpenAt(k)' => Stage(k)' = "open" /\ Verdict(k)' = "none"
      /\ \A v : JudgedAs(k, v)' => Stage(k)' = "judged" /\ Verdict(k)' = v
      /\ k \in Answered' => Stage(k)' = "delivered" /\ Verdict(k)' = answer'[k]
      /\ k \in lost' => Stage(k)' = "lost" /\ Verdict(k)' = "none"
  BY DEF StageFacts
<1>3. ASSUME NEW v, JudgedAs(k, v)
      PROVE  Same(k)
  BY <1>1, <1>2, <1>3, Zenon DEF Stays, Same
<1>4. CASE k \in unsent \/ OpenAt(k) \/ k \in Answered \/ k \in lost
  BY <1>1, <1>2, <1>4, Zenon DEF Stays, Same
<1> QED
  BY <1>1, <1>3, <1>4, Zenon

\* What a step does to the ledger, said of stages and verdicts.
LedgerStutter == (\A k \in Jobs : Same(k)) /\ cancelled' = cancelled /\ Broken' = Broken
LedgerMove(j, o, s) ==
  /\ Stage(j)' = s /\ Verdict(j)' = o
  /\ \A k \in Jobs \ {j} : Same(k)
  /\ cancelled' = cancelled /\ Broken' = Broken
LedgerLoss(S) ==
  /\ \A k \in S : /\ Stage(k) \in {"open", "judged"}
                  /\ Stage(k)' = "lost" /\ Verdict(k)' = "none"
  /\ \A k \in Jobs \ S : Same(k)
  /\ cancelled' = cancelled /\ Broken'

LEMMA StutterIsStutter == LedgerStutter => UNCHANGED Ledger!vars
BY DEF LedgerStutter, Same, Broken, Ledger!vars

LEMMA MoveIsAccept ==
  ASSUME NEW j \in Jobs, Stage(j) = "unsent", Verdict(j) = "none", LedgerMove(j, "none", "open")
  PROVE  Ledger!Accept(j)
BY DEF LedgerMove, Same, Broken, Ledger!Accept

LEMMA MoveIsDelivery ==
  ASSUME NEW j \in Jobs, Stage(j) = "judged", LedgerMove(j, Verdict(j), "delivered")
  PROVE  Ledger!Deliver(j)
BY DEF LedgerMove, Same, Broken, Ledger!Deliver

LEMMA MoveIsJudgement ==
  ASSUME NEW j \in Jobs, NEW o \in Outcomes, Stage(j) = "open", LedgerMove(j, o, "judged"),
         o = "cancelled" => IsCancelled(j), o \in {"samples", "reject"} => ~IsCancelled(j)
  PROVE  Ledger!Judge(j, o)
<1>1. Ledger!Agrees(o, j)
  BY DEF Ledger!Agrees, Ledger!CancelledAt, IsCancelled, CancelledAt, Outcomes
<1> QED
  BY <1>1 DEF LedgerMove, Same, Broken, Ledger!Judge

LEMMA LossIsFailure ==
  ASSUME NEW S \in SUBSET Jobs, LedgerLoss(S)
  PROVE  Ledger!Fail(S)
<1>1. \A k \in Jobs : /\ Stage(k)' = IF k \in S THEN "lost" ELSE Stage(k)
                      /\ Verdict(k)' = IF k \in S THEN "none" ELSE Verdict(k)
  BY DEF LedgerLoss, Same
<1> QED
  BY <1>1 DEF LedgerLoss, Broken, Ledger!Fail

LEMMA JobsInOut ==
  ASSUME IInv
  PROVE  InOut \subseteq Jobs
<1>1. out \in Seq(Result)
  BY DEF IInv, ControlInv, TypeOK
<1>2. \A i \in DOMAIN out : out[i] \in Result
  BY <1>1, ElementOfSeq, LenProperties
<1> QED
  BY <1>2 DEF InOut, Result

\* Every step of the pump, the workers and the session is a step of the ledger
\* or changes nothing it shows.
LEMMA LedgerNext ==
  ASSUME IInv, LInv, IInv', StageFacts, StageFacts', [Next]_vars
  PROVE  [Ledger!Next]_Ledger!vars
<1> USE DEF sessionVars, configVars, pumpVars, workerVars, endVars
<1>1. /\ unsent \subseteq Jobs /\ cancelled \in Nat
      /\ inbox \in Seq(Jobs) /\ work \in Seq(Jobs) /\ out \in Seq(Result)
      /\ pc \in [Workers -> {"absent", "idle", "run", "ran", "send", "exited", "panicked"}]
      /\ load \in [Workers -> Jobs \cup {NoJob}]
      /\ reply \in [Workers -> Outcomes \cup {"none"}]
      /\ answer \in [Jobs -> Outcomes \cup {"none"}]
      /\ held \in Jobs <=> pump \in {"spawn", "check", "drop", "offer"}
      /\ \A w \in Workers : load[w] \in Jobs <=> pc[w] \in {"run", "ran", "send"}
      /\ \A w \in Workers : pc[w] \in {"ran", "send"} => reply[w] \in Outcomes
      /\ NoRepeat(inbox) /\ NoRepeat(work) /\ NoJobRepeat(out) /\ NoLoadTwice
  BY OnePlaceParts DEF IInv, ControlInv, TypeOK, HandInv, LoadInv
<1>2. ASSUME \A k \in Jobs : Stays(k), cancelled' = cancelled, Broken' = Broken
      PROVE  UNCHANGED Ledger!vars
  BY <1>2, StaysIsSame, StutterIsStutter DEF LedgerStutter
<1>3. ASSUME NEW j \in Jobs, NEW o, NEW s, Stage(j)' = s, Verdict(j)' = o,
             \A k \in Jobs \ {j} : Stays(k), cancelled' = cancelled, Broken' = Broken
      PROVE  LedgerMove(j, o, s)
  BY <1>3, StaysIsSame DEF LedgerMove
<1>4. ASSUME NEW S \in SUBSET Jobs,
             \A k \in S : k \in lost' /\ (OpenAt(k) \/ \E v : JudgedAs(k, v)),
             \A k \in Jobs \ S : Stays(k), cancelled' = cancelled, Broken'
      PROVE  [Ledger!Next]_Ledger!vars
  <2>1. \A k \in S : /\ Stage(k) \in {"open", "judged"}
                     /\ Stage(k)' = "lost" /\ Verdict(k)' = "none"
    BY <1>4 DEF StageFacts
  <2>2. Ledger!Fail(S)
    BY <1>4, <2>1, StaysIsSame, LossIsFailure DEF LedgerLoss
  <2> QED
    BY <2>2 DEF Ledger!Next
<1>5. ASSUME UNCHANGED <<pc, outOpen>>
      PROVE  Broken' = Broken
  BY <1>5 DEF Broken
<1>6. ASSUME UNCHANGED <<unsent, inbox, pump, held, work, pc, load, reply, out, outOpen, answer,
                         lost>>
      PROVE  /\ \A k \in Jobs : Stays(k)
             /\ Broken' = Broken
  BY <1>6 DEF Stays, OpenAt, JudgedAs, Answered, Broken
<1>7. ASSUME NEW j \in Jobs, Send(j)
      PROVE  Ledger!Accept(j)
  <2>1. /\ j \in unsent /\ unsent' = unsent \ {j} /\ inbox' = Append(inbox, j)
        /\ UNCHANGED <<cancelled, pump, held, work, pc, load, reply, out, outOpen, answer, lost>>
    BY <1>7 DEF Send
  <2>2. Range(inbox') = Range(inbox) \cup {j}
    BY <1>1, <2>1, AppendAdds
  <2>3. Stage(j) = "unsent" /\ Verdict(j) = "none"
    BY <2>1 DEF StageFacts
  <2>4. Stage(j)' = "open" /\ Verdict(j)' = "none"
    BY <2>2 DEF StageFacts, OpenAt
  <2>5. \A k \in Jobs \ {j} : Stays(k)
    BY <2>1, <2>2 DEF Stays, OpenAt, JudgedAs, Answered
  <2>6. LedgerMove(j, "none", "open")
    BY <1>3, <1>5, <2>1, <2>4, <2>5
  <2> QED
    BY <2>3, <2>6, MoveIsAccept
<1>8. ASSUME NEW i \in Jobs, Watermark[i] # NoMark, CancelThrough(Watermark[i])
      PROVE  Ledger!Cancel
  <2>1. /\ cancelled' \in Nat /\ cancelled' > cancelled
        /\ UNCHANGED <<unsent, inbox, pump, held, work, pc, load, reply, out, outOpen, answer, lost>>
    BY <1>1, <1>8, WatermarkAssumption DEF CancelThrough
  <2>2. (\A k \in Jobs : Same(k)) /\ Broken' = Broken
    BY <1>6, <2>1, StaysIsSame
  <2> QED
    BY <2>1, <2>2 DEF Ledger!Cancel, Same, Broken
<1>9. ASSUME Receive
      PROVE  \E j \in Jobs : Ledger!Deliver(j)
  <2>0. PICK h : h = Head(out)
    OBVIOUS
  <2> DEFINE j == h.job
  <2>1. /\ out # <<>> /\ out' = Tail(out) /\ answer' = [answer EXCEPT ![j] = h.outcome]
        /\ UNCHANGED <<cancelled, unsent, inbox, pump, held, work, pc, load, reply, outOpen, lost>>
    BY <1>9, <2>0 DEF Receive
  <2>2. /\ h \in Result /\ h = out[1] /\ Len(out) \in Nat \ {0} /\ DOMAIN out = 1 .. Len(out)
        /\ DOMAIN out' = 1 .. Len(out) - 1
        /\ \A i \in 1 .. Len(out) - 1 : out'[i] = out[i + 1]
    BY <1>1, <2>0, <2>1, HeadTailProperties, EmptySeq
  <2>3. j \in Jobs /\ h.outcome \in Outcomes /\ 1 \in DOMAIN out
    BY <2>2 DEF Result
  <2>4. JudgedAs(j, h.outcome)
    BY <2>2, <2>3 DEF JudgedAs
  <2> HIDE DEF j
  <2>5. Stage(j) = "judged" /\ Verdict(j) = h.outcome
    BY <2>3, <2>4 DEF StageFacts
  <2>6. answer'[j] = h.outcome /\ \A k \in Jobs \ {j} : answer'[k] = answer[k]
    BY <1>1, <2>1, <2>3
  <2>7. Stage(j)' = "delivered" /\ Verdict(j)' = h.outcome
    <3>1. j \in Answered'
      BY <2>3, <2>6 DEF Answered, Outcomes
    <3>2. Stage(j)' = "delivered" /\ Verdict(j)' = answer'[j]
      BY <2>3, <3>1 DEF StageFacts
    <3> QED
      BY <2>6, <3>2
  <2>8. ASSUME NEW k \in Jobs \ {j}
        PROVE  Stays(k)
    <3>1. ASSUME NEW v, JudgedAs(k, v)
          PROVE  JudgedAs(k, v)'
      <4>1. ASSUME NEW i \in DOMAIN out, out[i].job = k, out[i].outcome = v
            PROVE  JudgedAs(k, v)'
        <5>1. i # 1 /\ i \in 1 .. Len(out)
          BY <2>2, <2>8, <4>1 DEF j
        <5>2. i - 1 \in 1 .. Len(out) - 1 /\ i = (i - 1) + 1
          BY <2>2, <5>1
        <5>3. i - 1 \in DOMAIN out' /\ out'[i - 1] = out[i]
          BY <2>2, <5>2
        <5> QED
          BY <4>1, <5>3 DEF JudgedAs
      <4> QED
        BY <2>1, <3>1, <4>1 DEF JudgedAs
    <3>2. k \in Answered => k \in Answered' /\ answer'[k] = answer[k]
      BY <2>6 DEF Answered
    <3> QED
      BY <2>1, <3>1, <3>2 DEF Stays, OpenAt
  <2>9. LedgerMove(j, h.outcome, "delivered")
    BY <1>3, <1>5, <2>1, <2>3, <2>7, <2>8
  <2> QED
    BY <2>3, <2>5, <2>9, MoveIsDelivery
<1>10. ASSUME HangUp
       PROVE  [Ledger!Next]_Ledger!vars
  <2>0. PICK S : S = InOut
    OBVIOUS
  <2>1. /\ outOpen' = FALSE /\ out' = <<>> /\ lost' = lost \cup InOut
        /\ UNCHANGED <<cancelled, unsent, inbox, pump, held, work, pc, load, reply, answer>>
    BY <1>10 DEF HangUp, InOut
  <2>2. S \in SUBSET Jobs
    BY <2>0, JobsInOut
  <2>3. \A k \in S : \E v : JudgedAs(k, v)
    BY <2>0 DEF InOut, JudgedAs
  <2>4. \A k \in Jobs \ S : Stays(k)
    BY <2>0, <2>1 DEF Stays, OpenAt, JudgedAs, Answered, InOut
  <2>5. Broken'
    BY <2>1 DEF Broken
  <2>6. \A k \in S : k \in lost' /\ (OpenAt(k) \/ \E v : JudgedAs(k, v))
    BY <2>0, <2>1, <2>3
  <2> QED
    BY <1>4, <2>1, <2>2, <2>4, <2>5, <2>6
<1>11. CASE SessionStep
  <2>1. CASE CloseJobs
    <3>1. UNCHANGED <<cancelled, unsent, inbox, pump, held, work, pc, load, reply, out, outOpen,
                      answer, lost>>
      BY <2>1 DEF CloseJobs
    <3> QED
      BY <1>2, <1>6, <3>1
  <2>4. ASSUME NEW toml \in Tomls, Configure(toml)
        PROVE  [Ledger!Next]_Ledger!vars
    <3>1. /\ held \notin Jobs
          /\ UNCHANGED <<cancelled, unsent, inbox, held, work, pc, load, reply, out, outOpen, answer,
                         lost>>
      BY <2>4, ConfigureIsEarly
    <3>2. \A k \in Jobs : Stays(k)
      BY <3>1 DEF Stays, OpenAt, JudgedAs, Answered
    <3> QED
      BY <1>2, <1>5, <3>1, <3>2
  <2>2. CASE HangUp
    BY <1>10, <2>2
  <2>3. CASE \/ Receive
             \/ \E j \in Jobs : Send(j)
             \/ \E j \in Jobs : Watermark[j] # NoMark /\ CancelThrough(Watermark[j])
    BY <1>7, <1>8, <1>9, <2>3, Zenon DEF Ledger!Next
  <2> QED
    BY <1>11, <2>1, <2>2, <2>3, <2>4, Zenon DEF SessionStep
<1>12. ASSUME PumpStep
       PROVE  [Ledger!Next]_Ledger!vars
  <2>1. CASE Take
    <3>1. /\ inbox # <<>> /\ held' = Head(inbox) /\ inbox' = Tail(inbox)
          /\ pump' \in {"spawn", "check"} /\ held \notin Jobs
          /\ UNCHANGED <<cancelled, unsent, work, pc, load, reply, out, outOpen, answer, lost>>
      BY <1>1, <2>1 DEF Take
    <3>2. Range(inbox') = Range(inbox) \ {held'}
      BY <1>1, <3>1, TailTakes
    <3>3. \A k \in Jobs : Stays(k)
      BY <3>1, <3>2 DEF Stays, OpenAt, JudgedAs, Answered
    <3> QED
      BY <1>2, <1>5, <3>1, <3>3
  <2>2. CASE NoFirstJob \/ Leave
    <3>1. /\ held \notin Jobs
          /\ UNCHANGED <<cancelled, unsent, inbox, held, work, pc, load, reply, out, outOpen, answer,
                         lost>>
      BY <1>1, <2>2 DEF NoFirstJob, Leave
    <3>2. \A k \in Jobs : Stays(k)
      BY <3>1 DEF Stays, OpenAt, JudgedAs, Answered
    <3> QED
      BY <1>2, <1>5, <3>1, <3>2
  <2>3. CASE Spawn
    <3>1. /\ pump = "spawn" /\ pump' = "check"
          /\ pc' = [w \in Workers |-> IF w <= width' THEN "idle" ELSE "absent"]
          /\ UNCHANGED <<cancelled, unsent, inbox, held, work, load, reply, out, outOpen, answer,
                         lost>>
      BY <2>3 DEF Spawn
    <3>2. \A w \in Workers : pc[w] = "absent"
      BY <3>1, HostAssumption DEF IInv, ControlInv, StartInv, Workers
    <3>3. \A w \in Workers : load[w] \notin Jobs
      BY <1>1, <3>2
    <3>4. \A k \in Jobs : Stays(k)
      BY <3>1, <3>3 DEF Stays, OpenAt, JudgedAs, Answered
    <3>5. Broken' = Broken
      BY <3>1, <3>2 DEF Broken
    <3> QED
      BY <1>2, <3>1, <3>4, <3>5
  <2>4. CASE Check
    <3>1. /\ held \in Jobs /\ pump = "check" /\ pump' = IF IsCancelled(held) THEN "drop" ELSE "offer"
          /\ UNCHANGED <<cancelled, unsent, inbox, held, work, pc, load, reply, out, outOpen, answer,
                         lost>>
      BY <1>1, <2>4 DEF Check
    <3>2. CASE ~IsCancelled(held)
      <4>1. \A k \in Jobs : Stays(k)
        BY <3>1, <3>2 DEF Stays, OpenAt, JudgedAs, Answered
      <4> QED
        BY <1>2, <1>5, <3>1, <4>1
    <3>3. CASE IsCancelled(held)
      <4>1. \A k \in Jobs \ {held} : Stays(k)
        BY <3>1, <3>3 DEF Stays, OpenAt, JudgedAs, Answered
      <4>2. OpenAt(held) /\ JudgedAs(held, "cancelled")'
        BY <3>1, <3>3 DEF OpenAt, JudgedAs
      <4>3. /\ Stage(held) = "open"
            /\ Stage(held)' = "judged" /\ Verdict(held)' = "cancelled"
        BY <3>1, <4>2 DEF StageFacts
      <4>4. LedgerMove(held, "cancelled", "judged")
        BY <1>3, <1>5, <3>1, <4>1, <4>3
      <4>5. Ledger!Judge(held, "cancelled") /\ "cancelled" \in Outcomes
        BY <3>1, <3>3, <4>3, <4>4, MoveIsJudgement DEF Outcomes
      <4> QED
        BY <3>1, <4>5 DEF Ledger!Next, Ledger!Outcomes, Outcomes
    <3> QED
      BY <3>2, <3>3
  <2>5. CASE DropHeld
    <3>1. /\ held \in Jobs /\ pump = "drop" /\ pump' = "recv"
          /\ out' = Append(out, [job |-> held, outcome |-> "cancelled"])
          /\ UNCHANGED <<cancelled, unsent, inbox, work, pc, load, reply, outOpen, answer, lost>>
      BY <1>1, <2>5 DEF DropHeld
    <3>2. /\ Len(out) \in Nat /\ DOMAIN out = 1 .. Len(out) /\ DOMAIN out' = 1 .. Len(out) + 1
          /\ \A i \in DOMAIN out : out'[i] = out[i]
          /\ out'[Len(out) + 1] = [job |-> held, outcome |-> "cancelled"]
      BY <1>1, <3>1, AppendProperties DEF Result, Outcomes
    <3>3. \A k \in Jobs : \A v : JudgedAs(k, v) => JudgedAs(k, v)'
      BY <3>1, <3>2 DEF JudgedAs
    <3>4. \A k \in Jobs : Stays(k)
      BY <3>1, <3>3 DEF Stays, OpenAt, Answered
    <3> QED
      BY <1>2, <1>5, <3>1, <3>4
  <2>6. CASE Offer
    <3>1. /\ held \in Jobs /\ pump = "offer" /\ work' = Append(work, held)
          /\ UNCHANGED <<cancelled, unsent, inbox, pc, load, reply, out, outOpen, answer, lost>>
      BY <1>1, <2>6 DEF Offer
    <3>2. Range(work') = Range(work) \cup {held}
      BY <1>1, <3>1, AppendAdds
    <3>3. \A k \in Jobs : Stays(k)
      BY <3>1, <3>2 DEF Stays, OpenAt, JudgedAs, Answered
    <3> QED
      BY <1>2, <1>5, <3>1, <3>3
  <2>7. CASE LeaveWithJob
    <3>1. /\ held \in Jobs /\ pump \in {"drop", "offer"} /\ lost' = lost \cup {held}
          /\ UNCHANGED <<cancelled, unsent, inbox, work, pc, load, reply, out, outOpen, answer>>
      BY <1>1, <2>7 DEF LeaveWithJob
    <3>2. Broken'
      BY <1>5, <2>7, <3>1, NobodyLeftIsBroken DEF LeaveWithJob, Broken
    <3>3. OpenAt(held) \/ \E v : JudgedAs(held, v)
      BY <3>1 DEF OpenAt, JudgedAs
    <3>4. \A k \in Jobs \ {held} : Stays(k)
      BY <3>1 DEF Stays, OpenAt, JudgedAs, Answered
    <3>5. PICK S : S = {held}
      OBVIOUS
    <3>6. /\ S \in SUBSET Jobs
          /\ \A k \in S : k \in lost' /\ (OpenAt(k) \/ \E v : JudgedAs(k, v))
          /\ \A k \in Jobs \ S : Stays(k)
      BY <3>1, <3>3, <3>4, <3>5
    <3> QED
      BY <1>4, <3>1, <3>2, <3>6
  <2>8. CASE Join
    <3>1. UNCHANGED <<cancelled, unsent, inbox, pump, held, work, pc, load, reply, out, outOpen,
                      answer, lost>>
      BY <2>8 DEF Join
    <3> QED
      BY <1>2, <1>6, <3>1
  <2>9. CASE Return
    <3>1. /\ held \notin Jobs /\ pump = "join" /\ lost' = lost \cup Range(inbox) /\ inbox' = <<>>
          /\ UNCHANGED <<cancelled, unsent, held, work, pc, load, reply, out, outOpen, answer>>
      BY <1>1, <2>9 DEF Return
    <3>2. \A k \in Jobs \ Range(inbox) : Stays(k)
      BY <3>1 DEF Stays, OpenAt, JudgedAs, Answered
    <3>3. CASE Broken
      <4>1. PICK S : S = Range(inbox)
        OBVIOUS
      <4>2. S \in SUBSET Jobs
        BY <1>1, <4>1, ElementOfSeq, LenProperties DEF Range
      <4>3. /\ \A k \in S : k \in lost' /\ (OpenAt(k) \/ \E v : JudgedAs(k, v))
            /\ \A k \in Jobs \ S : Stays(k)
        BY <3>1, <3>2, <4>1 DEF OpenAt
      <4>4. Broken'
        BY <1>5, <3>1, <3>3
      <4> QED
        BY <1>4, <3>1, <4>2, <4>3, <4>4
    <3>4. CASE ~Broken
      <4>1. Range(inbox) = {}
        BY <3>1, <3>4 DEF LInv, LeaveInv, Range
      <4> QED
        BY <1>2, <1>5, <3>1, <3>2, <4>1
    <3> QED
      BY <3>3, <3>4
  <2> QED
    BY <1>12, <2>1, <2>2, <2>3, <2>4, <2>5, <2>6, <2>7, <2>8, <2>9 DEF PumpStep
<1>13. ASSUME NEW w \in Workers, WorkerStep(w) \/ KernelPanic(w)
       PROVE  [Ledger!Next]_Ledger!vars
  <2>1. ASSUME NEW p, p # "panicked", pc[w] # "panicked", pc' = [pc EXCEPT ![w] = p], outOpen' = outOpen
        PROVE  Broken' = Broken
    BY <1>1, <2>1 DEF Broken
  <2>2. ASSUME pc[w] \in {"run", "send"}, \E p : pc' = [pc EXCEPT ![w] = p],
               load' = [load EXCEPT ![w] = NoJob], work' = WorkAfterEnd(w),
               lost' = lost \cup {load[w]} \cup OrphanedJobs(w), Broken',
               UNCHANGED <<cancelled, unsent, inbox, pump, held, reply, out, answer>>
        PROVE  [Ledger!Next]_Ledger!vars
    <3>1. load[w] \in Jobs
      BY <1>1, <2>2
    <3>0. PICK Fired : Fired = {load[w]} \cup OrphanedJobs(w)
      OBVIOUS
    <3>2. Fired \in SUBSET Jobs
      BY <1>1, <3>0, <3>1, ElementOfSeq, LenProperties DEF OrphanedJobs, Range
    <3>3. \A k \in Fired : k \in lost' /\ (OpenAt(k) \/ \E v : JudgedAs(k, v))
      BY <1>1, <2>2, <3>0 DEF OrphanedJobs, OpenAt, JudgedAs
    <3>4. \A k \in Range(work) : k \in Fired \/ k \in Range(work')
      BY <2>2, <3>0 DEF OrphanedJobs, WorkAfterEnd
    <3>5. \A v \in Workers \ {w} : pc'[v] = pc[v] /\ load'[v] = load[v]
      BY <1>1, <2>2
    <3>6. ASSUME NEW k \in Jobs \ Fired
          PROVE  Stays(k)
      <4>1. OpenAt(k) => OpenAt(k)'
        BY <2>2, <3>0, <3>4, <3>5, <3>6 DEF OpenAt
      <4>2. \A v : JudgedAs(k, v) => JudgedAs(k, v)'
        BY <2>2, <3>0, <3>5, <3>6 DEF JudgedAs
      <4> QED
        BY <2>2, <3>0, <3>6, <4>1, <4>2 DEF Stays, Answered
    <3> QED
      BY <1>4, <2>2, <3>2, <3>3, <3>6
  <2>3. CASE PickUp(w)
    <3>1. /\ pc[w] = "idle" /\ work # <<>> /\ work' = Tail(work)
          /\ load' = [load EXCEPT ![w] = Head(work)] /\ pc' = [pc EXCEPT ![w] = "run"]
          /\ UNCHANGED <<cancelled, unsent, inbox, pump, held, reply, out, outOpen, answer, lost>>
      BY <2>3 DEF PickUp
    <3>2. Range(work') = Range(work) \ {Head(work)} /\ load[w] \notin Jobs
      BY <1>1, <3>1, TailTakes
    <3>3. /\ load'[w] = Head(work) /\ pc'[w] = "run"
          /\ \A v \in Workers \ {w} : pc'[v] = pc[v] /\ load'[v] = load[v]
      BY <1>1, <3>1
    <3>4. ASSUME NEW k \in Jobs
          PROVE  Stays(k)
      <4>1. OpenAt(k) => OpenAt(k)'
        BY <3>1, <3>2, <3>3 DEF OpenAt
      <4>2. \A v : JudgedAs(k, v) => JudgedAs(k, v)'
        BY <3>1, <3>2, <3>3 DEF JudgedAs
      <4> QED
        BY <3>1, <4>1, <4>2 DEF Stays, Answered
    <3>5. Broken' = Broken
      BY <2>1, <3>1
    <3> QED
      BY <1>2, <3>1, <3>4, <3>5
  <2>4. CASE WorkerEnd(w)
    <3>1. /\ pc[w] = "idle" /\ pc' = [pc EXCEPT ![w] = "exited"]
          /\ UNCHANGED <<cancelled, unsent, inbox, pump, held, work, load, reply, out, outOpen, answer,
                         lost>>
      BY <2>4 DEF WorkerEnd
    <3>2. /\ load[w] \notin Jobs
          /\ \A v \in Workers \ {w} : pc'[v] = pc[v]
      BY <1>1, <3>1
    <3>3. ASSUME NEW k \in Jobs
          PROVE  Stays(k)
      BY <3>1, <3>2 DEF Stays, OpenAt, JudgedAs, Answered
    <3>4. Broken' = Broken
      BY <2>1, <3>1
    <3> QED
      BY <1>2, <3>1, <3>3, <3>4
  <2>5. CASE KernelAbort(w) \/ \E r \in {"samples", "reject", "fatal"} : KernelReturn(w, r)
    <3>1. /\ pc[w] = "run" /\ pc' = [pc EXCEPT ![w] = "ran"]
          /\ \E r : reply' = [reply EXCEPT ![w] = r]
          /\ UNCHANGED <<cancelled, unsent, inbox, pump, held, work, load, out, outOpen, answer, lost>>
      BY <2>5 DEF KernelAbort, KernelReturn
    <3>2. /\ pc'[w] = "ran"
          /\ \A v \in Workers \ {w} : pc'[v] = pc[v] /\ reply'[v] = reply[v]
      BY <1>1, <3>1
    <3>3. ASSUME NEW k \in Jobs
          PROVE  Stays(k)
      BY <3>1, <3>2 DEF Stays, OpenAt, JudgedAs, Answered
    <3>4. Broken' = Broken
      BY <2>1, <3>1
    <3> QED
      BY <1>2, <3>1, <3>3, <3>4
  <2>6. CASE PostCheck(w)
    <3>0. PICK j, o : j = load[w] /\ o = reply'[w]
      OBVIOUS
    <3>1. /\ pc[w] = "ran" /\ pc' = [pc EXCEPT ![w] = "send"]
          /\ reply' = IF IsCancelled(j) /\ reply[w] # "fatal" THEN [reply EXCEPT ![w] = "cancelled"]
                                                              ELSE reply
          /\ UNCHANGED <<cancelled, unsent, inbox, pump, held, work, load, out, outOpen, answer, lost>>
      BY <2>6, <3>0 DEF PostCheck
    <3>2. j \in Jobs /\ reply[w] \in Outcomes
      BY <1>1, <3>0, <3>1
    <3>3. /\ pc'[w] = "send"
          /\ o = IF IsCancelled(j) /\ reply[w] # "fatal" THEN "cancelled" ELSE reply[w]
          /\ \A v \in Workers \ {w} : pc'[v] = pc[v] /\ reply'[v] = reply[v]
      BY <1>1, <3>0, <3>1
    <3>4. /\ o \in Outcomes
          /\ o = "cancelled" => IsCancelled(j)
          /\ o \in {"samples", "reject"} => ~IsCancelled(j)
      BY <3>0, <3>1, <3>2, <3>3 DEF Outcomes, LInv, AbortInv
    <3>5. OpenAt(j) /\ JudgedAs(j, o)'
      BY <3>0, <3>1, <3>3 DEF OpenAt, JudgedAs
    <3>6. Stage(j) = "open" /\ Stage(j)' = "judged" /\ Verdict(j)' = o
      BY <3>2, <3>5 DEF StageFacts
    <3>7. ASSUME NEW k \in Jobs \ {j}
          PROVE  Stays(k)
      BY <3>0, <3>1, <3>3, <3>7 DEF Stays, OpenAt, JudgedAs, Answered
    <3>8. Broken' = Broken
      BY <2>1, <3>1
    <3>9. LedgerMove(j, o, "judged")
      BY <1>3, <3>1, <3>2, <3>6, <3>7, <3>8
    <3>10. Ledger!Judge(j, o)
      BY <3>2, <3>4, <3>6, <3>9, MoveIsJudgement
    <3> QED
      BY <3>2, <3>4, <3>10, Zenon DEF Ledger!Next, Ledger!Outcomes, Outcomes
  <2>7. CASE Answer(w)
    <3>1. /\ pc[w] = "send" /\ pc' = [pc EXCEPT ![w] = "idle"]
          /\ load' = [load EXCEPT ![w] = NoJob] /\ reply' = [reply EXCEPT ![w] = "none"]
          /\ out' = Append(out, [job |-> load[w], outcome |-> reply[w]])
          /\ UNCHANGED <<cancelled, unsent, inbox, pump, held, work, outOpen, answer, lost>>
      BY <2>7 DEF Answer
    <3>2. [job |-> load[w], outcome |-> reply[w]] \in Result
      BY <1>1, <3>1 DEF Result
    <3>3. /\ Len(out) \in Nat /\ DOMAIN out = 1 .. Len(out) /\ DOMAIN out' = 1 .. Len(out) + 1
          /\ \A i \in DOMAIN out : out'[i] = out[i]
          /\ out'[Len(out) + 1] = [job |-> load[w], outcome |-> reply[w]]
      BY <1>1, <3>1, <3>2, AppendProperties
    <3>4. \A v \in Workers \ {w} : pc'[v] = pc[v] /\ load'[v] = load[v] /\ reply'[v] = reply[v]
      BY <1>1, <3>1
    <3>5. ASSUME NEW k \in Jobs
          PROVE  Stays(k)
      <4>1. OpenAt(k) => OpenAt(k)'
        BY <3>1, <3>4 DEF OpenAt
      <4>2. ASSUME NEW v, JudgedAs(k, v)
            PROVE  JudgedAs(k, v)'
        <5>1. CASE load[w] = k /\ v = reply[w]
          <6>1. Len(out) + 1 \in DOMAIN out'
            BY <3>3
          <6> QED
            BY <3>3, <5>1, <6>1 DEF JudgedAs
        <5>2. ASSUME NEW u \in Workers, u # w, load[u] = k, pc[u] = "send", reply[u] = v
              PROVE  JudgedAs(k, v)'
          BY <3>4, <5>2 DEF JudgedAs
        <5>3. ASSUME NEW i \in DOMAIN out, out[i].job = k, out[i].outcome = v
              PROVE  JudgedAs(k, v)'
          <6>1. i \in DOMAIN out' /\ out'[i] = out[i]
            BY <3>3, <5>3
          <6> QED
            BY <5>3, <6>1 DEF JudgedAs
        <5> QED
          BY <3>1, <4>2, <5>1, <5>2, <5>3 DEF JudgedAs
      <4> QED
        BY <3>1, <4>1, <4>2 DEF Stays, Answered
    <3>6. Broken' = Broken
      BY <2>1, <3>1
    <3> QED
      BY <1>2, <3>1, <3>5, <3>6
  <2>8. CASE AnswerFails(w)
    <3>1. Broken'
      BY <2>8 DEF AnswerFails, Broken
    <3> QED
      BY <2>2, <2>8, <3>1 DEF AnswerFails
  <2>9. CASE KernelPanic(w)
    <3>1. Broken'
      BY <1>1, <2>9 DEF KernelPanic, Broken
    <3> QED
      BY <2>2, <2>9, <3>1 DEF KernelPanic
  <2> QED
    BY <1>13, <2>3, <2>4, <2>5, <2>6, <2>7, <2>8, <2>9 DEF WorkerStep
<1>14. CASE UNCHANGED vars
  <2>1. UNCHANGED <<cancelled, unsent, inbox, pump, held, work, pc, load, reply, out, outOpen,
                    answer, lost>>
    BY <1>14 DEF vars
  <2> QED
    BY <1>2, <1>6, <2>1
<1> QED
  BY <1>11, <1>12, <1>13, <1>14 DEF Next, Finished

\* Every answer the session gets is a verdict given once, in agreement with the
\* token when it was given, and a job disappears only after a panic or a hang-up
\* (lib.rs 191-289): the pump, its workers and its channels implement the ledger,
\* whatever their number, width and capacity.
THEOREM PumpIsLedger == Spec => ImplementsLedger
<1>1. Init => Ledger!Init
  <2> SUFFICES ASSUME Init
               PROVE  Ledger!Init
    OBVIOUS
  <2>1. IInv
    BY InvariantInit
  <2>2. \A k \in Jobs : Stage(k) = "unsent" /\ Verdict(k) = "none"
    BY <2>1, StageOf DEF Init, StageFacts
  <2> QED
    BY <2>2 DEF Init, Ledger!Init
<1>2. /\ IInv /\ IInv' /\ LInv /\ StageFacts /\ StageFacts' /\ [Next]_vars
      => [Ledger!Next]_Ledger!vars
  BY LedgerNext
<1>3. Spec => []StageFacts
  BY StageOf, Invariant, PTL
<1> QED
  BY <1>1, <1>2, <1>3, Invariant, LedgerInvariant, PTL DEF Spec, ImplementsLedger, Ledger!Spec
=============================================================================
