--------------------------- MODULE CompletionModel ---------------------------
(***************************************************************************)
(* internal/arb/completion_model.go: what the closed paper cycles say of   *)
(* each path of a snapshot, and how ApplyCompletionModel selects the path   *)
(* and decides whether the snapshot is a candidate for real orders.        *)
(*                                                                         *)
(* The closed cycles are a bag over a set of kinds of cycle, and grow by   *)
(* one when a cycle closes.  A snapshot s is what Evaluate made of it: the *)
(* PTB model's readiness, its first choice and per path whether it is      *)
(* eligible and its net edge (tenths of a cent).  The money of an estimate *)
(* (expected values, loss multiple) is an input of s: per path whether it  *)
(* meets the cycle EV, whether it meets the loss multiple, and the rank of *)
(* its opportunity EV.                                                     *)
(***************************************************************************)
EXTENDS Integers, FiniteSets, FiniteSetsExt, Checks

CONSTANTS Kinds,           \* of cycles: [ours, leg, edge, status, first, ms]
          Lookback,        \* bound on the closed cycles
          MinSamples,
          MinProbability,  \* MinPComplete5sLower95, in hundredths
          PaperMinEdge, TargetEdge,
          NarrowBand, WideBand, AnyEdge  \* the bands of the three scopes

CompletionLegs == {"UP", "DOWN"}

ASSUME CompletionAssumption ==
    /\ Kinds \subseteq [ours : BOOLEAN, leg : CompletionLegs, edge : Int, status : STRING,
                        first : {"none", "part", "full"}, ms : Nat]
    /\ IsFiniteSet(Kinds)
    /\ Lookback \in Nat /\ MinSamples \in Nat \ {0}
    /\ MinProbability \in 1..99
    /\ PaperMinEdge \in Int /\ TargetEdge \in Int
    /\ NarrowBand \in Nat /\ WideBand \in Nat /\ AnyEdge \in Nat
    /\ NarrowBand <= WideBand /\ WideBand <= AnyEdge
    /\ \A j, k \in Kinds : j.edge - k.edge <= AnyEdge

VARIABLE trained     \* the closed cycles, [Kinds -> Nat]

\* How many of them are of these kinds: the nth of a kind counts if there are so many.
CountOf(rows) == Cardinality({cycle \in rows \X (1..Lookback) :
                                 cycle[2] <= trained[cycle[1]]})

TrainInit == trained = [k \in Kinds |-> 0]

\* A paper cycle closes and is read back with the next snapshot.
Train(k) == /\ CountOf(Kinds) < Lookback
            /\ trained' = [trained EXCEPT ![k] = @ + 1]

TrainNext == \E k \in Kinds : Train(k)

-----------------------------------------------------------------------------
Distance2(a, b) == IF a < b THEN b - a ELSE a - b

\* filterTrainingCycles: this strategy's, of this leg, with a verdict, in band.
Training(leg, edge, band) ==
    {k \in Kinds : /\ k.ours /\ k.leg = leg
                   /\ k.status \in {"COMPLETED", "STRANDED_TIMEOUT", "EXPIRED_NO_FILL"}
                   /\ Distance2(k.edge, edge) <= band}

\* countCompletionSamples: the first leg filled, and then the second or not.
Decided(rows) == {k \in rows : k.first = "full" /\ k.status \in {"COMPLETED", "STRANDED_TIMEOUT"}}

\* The durations, in milliseconds, that Completed5s counts: a completion in the same
\* millisecond is not one of them.
FiveSeconds == 1..5000

\* Mutated form: every completion is in time.
InTimeAtLast(rows) == {k \in Decided(rows) : k.status = "COMPLETED"}

\* Completed5s.
InTime(rows) == {k \in Decided(rows) : k.status = "COMPLETED" /\ k.ms \in FiveSeconds}

Enough(rows) == CountOf(Decided(rows)) >= MinSamples /\ CountOf(rows) >= MinSamples

\* The first of the three scopes with enough samples, or the last.
ScopeOf(leg, edge) ==
    Min({AnyEdge} \cup {band \in {NarrowBand, WideBand} : Enough(Training(leg, edge, band))})

\* wilsonLower95 of s in n is at least MinProbability: the quadratic it is the
\* root of, with z squared in ten-thousandths.
WilsonPass(s, n) ==
    LET over == 100 * s - MinProbability * n
    IN  /\ over >= 0
        /\ 10000 * over * over >= 38415 * MinProbability * (100 - MinProbability) * n

\* EstimateCompletionModel, for a path of that first leg and net edge.
Evidence(leg, edge) ==
    LET rows  == Training(leg, edge, ScopeOf(leg, edge))
        ready == Enough(rows)
    IN  [ready       |-> ready,
         probability |-> ready /\ WilsonPass(CountOf(InTime(rows)), CountOf(Decided(rows)))]

\* estimatePath, with the money of s.
Estimate(s, leg) ==
    LET evidence == Evidence(leg, s.edge[leg])
    IN  [ready       |-> evidence.ready,
         probability |-> evidence.probability,
         cycle       |-> evidence.ready /\ s.money[leg].cycle,
         stranded    |-> evidence.ready /\ s.money[leg].stranded]

-----------------------------------------------------------------------------
\* A path is eligible when its completion leaves the paper edge.
EligibleLegs(s) == {leg \in CompletionLegs : s.edge[leg] >= PaperMinEdge}

\* pathLivePass, of the path with estimate e.
LivePass(s, leg, e) ==
    /\ leg \in EligibleLegs(s) /\ s.edge[leg] >= TargetEdge
    /\ e.ready /\ e.probability /\ e.cycle /\ e.stranded

\* Mutated form: the worth of a path that did not pass counts too.
BestLegOfAll(s, legs) ==
    IF s.money["DOWN"].rank > s.money["UP"].rank THEN "DOWN" ELSE "UP"

\* UP stays unless DOWN is worth more.
BestLeg(s, legs) ==
    IF "DOWN" \in legs /\ ("UP" \in legs => s.money["DOWN"].rank > s.money["UP"].rank)
    THEN "DOWN" ELSE "UP"

\* Why an unselected snapshot, of a path with estimate e, is no candidate.
LiveChecks(edge, e) ==
    << Check(edge >= PaperMinEdge, "PAIR_EDGE_BELOW_PAPER_MIN"),
       Check(e.ready, "COMPLETION_MODEL_WARMUP"),
       Check(edge >= TargetEdge, "PAPER_READY_LIVE_EDGE_BELOW_TARGET"),
       Check(e.probability, "PCOMPLETE_5S_BELOW_THRESHOLD"),
       Check(e.cycle, "CYCLE_EV_BELOW_THRESHOLD"),
       Check(e.stranded, "STRANDED_LOSS_MULTIPLE_TOO_HIGH") >>

WhyNot(edge, e) == FirstFailing(LiveChecks(edge, e), "PAPER_READY_MODEL_PATH_NOT_LIVE_SELECTED")

\* ApplyCompletionModel, given the estimates of both paths: the path the snapshot
\* is set to (its first leg, prices and edge), the path whose estimate it carries,
\* and the verdict.
ApplyCompletionModel(s, est) ==
    LET live  == {leg \in CompletionLegs : LivePass(s, leg, est[leg])}
        ready == {leg \in EligibleLegs(s) : est[leg].ready}
        Outcome(path, estimate, status, reason) ==
            [path |-> path, estimate |-> estimate, status |-> status, reason |-> reason]
        Paper(path, estimate) ==
            Outcome(path, estimate,
                    IF s.edge[path] >= PaperMinEdge THEN "PAPER_CANDIDATE" ELSE "BLOCKED",
                    WhyNot(s.edge[path], est[estimate]))
    IN  IF ~s.ptbReady \/ EligibleLegs(s) = {}
        THEN Outcome(s.first, "none", "BLOCKED", "")
        ELSE IF live # {}
        THEN Outcome(BestLeg(s, live), BestLeg(s, live), "CANDIDATE", "READY_COMPLETION_EV")
        ELSE IF ready # {}
        THEN Paper(BestLeg(s, ready), BestLeg(s, ready))
        ELSE Paper(s.first, IF s.first = "DOWN" /\ "DOWN" \in EligibleLegs(s)
                            THEN "DOWN" ELSE "UP")

-----------------------------------------------------------------------------
\* "Completion-model warmup must never turn an invalid book/PTB/path into a
\* candidate": a candidate for real orders has the PTB model, an eligible path
\* with the live edge, at least MinSamples decided cycles of its own leg, and
\* carries the estimate of that path.  A paper candidate's estimate is its own
\* path's too, and whatever is refused has a check that failed.
CandidateEarnsIt(s) ==
    \A est \in {[leg \in CompletionLegs |-> Estimate(s, leg)]} :
    \A o \in {ApplyCompletionModel(s, est)} :
        /\ o.status # "BLOCKED" =>
              /\ s.ptbReady /\ o.path \in EligibleLegs(s) /\ o.estimate = o.path
              /\ o.reason # "PAPER_READY_MODEL_PATH_NOT_LIVE_SELECTED"
        /\ o.status = "CANDIDATE" =>
              /\ s.edge[o.path] >= TargetEdge
              /\ s.money[o.path].cycle /\ s.money[o.path].stranded
              /\ CountOf({k \in Kinds : k.ours /\ k.leg = o.path /\ k.first = "full"})
                    >= MinSamples

\* What Completed5s stands for is a second leg that followed within five seconds
\* of its order; one that is stamped no later than the order has a duration of 0.
Followed(k) == k.status = "COMPLETED" /\ k.ms \in FiveSeconds
AtOnce(k) == k.status = "COMPLETED" /\ k.ms = 0
TooLate(k) == k.status = "STRANDED_TIMEOUT" \/ k.ms > 5000

\* While a path is judged by the same scope, one more cycle in which the second
\* leg followed within five seconds never loses it the probability gate, and
\* one more that stranded or took longer never wins it.  A completion at once
\* counts as a failure too, although it is the fastest there is and the docs
\* speak of a "completion within 5s".
EvidenceCounts(edges) ==
    \A leg \in CompletionLegs, edge \in edges, k \in Kinds :
        /\ trained'[k] > trained[k] /\ k.first = "full"
        /\ k.status \in {"COMPLETED", "STRANDED_TIMEOUT"}
        /\ ScopeOf(leg, edge)' = ScopeOf(leg, edge)
        /\ Evidence(leg, edge).ready
        => /\ Followed(k) =>
                (Evidence(leg, edge).probability => Evidence(leg, edge)'.probability)
           /\ TooLate(k) =>
                (Evidence(leg, edge)'.probability => Evidence(leg, edge).probability)
           /\ AtOnce(k) =>
                (Evidence(leg, edge)'.probability => Evidence(leg, edge).probability)
=============================================================================
