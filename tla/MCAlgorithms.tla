----------------------------- MODULE MCAlgorithms -----------------------------
(***************************************************************************)
(* The pure functions, on every input of small sets: the walk of a batch   *)
(* of trades, the entry and hedge gates of the directional engine on every *)
(* case, the completion model on every bag of closed cycles and, for each, *)
(* every snapshot.  `case' says which function is checked and on what.     *)
(***************************************************************************)
EXTENDS MakerFill, PaperGates, CompletionModel

VARIABLE case

walkVars == vars
algorithmVars == <<case, walkVars, trained>>

-----------------------------------------------------------------------------
(* Cases of the gates: each bound met, just met and missed by the least. *)

MCFeePerShare == [p \in 1..TopPrice |-> IF p \in 20..80 THEN 2 ELSE 1]

Level(price, size) == [price |-> price, size |-> size]
Books == {<<>>,
          <<Level(5, 9)>>,
          <<Level(28, 1)>>,
          <<Level(28, 1), Level(40, 9)>>,
          <<Level(40, 9)>>,
          <<Level(68, 9)>>,
          <<Level(98, 9)>>}

Entries ==
    [decision : {"UP", "DOWN", "NEUTRAL"}, ptbReady : BOOLEAN, ptbDecision : {"UP", "DOWN"},
     confidence : {MinConfidence - 1, MinConfidence},
     seconds : {MinSecondsToEnd - 1, MinSecondsToEnd, MaxSecondsToEnd, MaxSecondsToEnd + 1},
     fresh : BOOLEAN, mock : BOOLEAN, sameTimeframe : BOOLEAN, recorded : BOOLEAN,
     cash : {Stake - 1, Stake}, token : BOOLEAN, pAbove : {10, 90}, asks : Books]

Samples == [decision : {"UP", "DOWN"}, score : {-60, 20}]
Evidences == UNION {[1..n -> Samples] : n \in 0..HedgeWindow}

Hedges ==
    {h \in [side : {"UP", "DOWN"}, shares : {2}, hedged : BOOLEAN,
            seconds : {HedgeMinSecondsToEnd - 1, HedgeMinSecondsToEnd, HedgeMaxSecondsToEnd + 1},
            pUp : {10, 30, 70}, ptbZ : {-60, 0, 60}, evidence : Evidences, token : BOOLEAN,
            decision : {"UP", "DOWN"}, asks : Books \ {<<Level(98, 9)>>},
            sameTimeframe : BOOLEAN] :
        IF h.sameTimeframe
        THEN h.evidence # <<>> /\ h.decision = h.evidence[Len(h.evidence)].decision
        ELSE h.evidence = <<>>}

-----------------------------------------------------------------------------
(* Cycles and snapshots of the completion model. *)

Cycle(leg, edge, status, first, ms) ==
    [ours |-> TRUE, leg |-> leg, edge |-> edge, status |-> status, first |-> first, ms |-> ms]

MCKinds == {Cycle("UP", 28, "COMPLETED", "full", 900),
            Cycle("UP", 28, "STRANDED_TIMEOUT", "full", 0),
            Cycle("UP", 16, "COMPLETED", "full", 0),
            Cycle("UP", 16, "COMPLETED", "full", 5001),
            Cycle("UP", 16, "EXPIRED_NO_FILL", "none", 0),
            Cycle("DOWN", 28, "COMPLETED", "full", 900),
            Cycle("DOWN", 28, "STRANDED_TIMEOUT", "part", 0),
            [Cycle("DOWN", 28, "COMPLETED", "full", 900) EXCEPT !.ours = FALSE]}

Edges == {0, 10, 28}
Money == {[cycle |-> TRUE, stranded |-> FALSE, rank |-> 1],
          [cycle |-> FALSE, stranded |-> TRUE, rank |-> 0],
          [cycle |-> TRUE, stranded |-> TRUE, rank |-> 0],
          [cycle |-> TRUE, stranded |-> TRUE, rank |-> 1]}

\* Evaluate's own choice is an eligible path, if there is one.
Snapshots ==
    {s \in [ptbReady : BOOLEAN, first : CompletionLegs, edge : [CompletionLegs -> Edges],
            money : [CompletionLegs -> Money]] :
        EligibleLegs(s) = {} \/ s.first \in EligibleLegs(s)}

-----------------------------------------------------------------------------
MCInit ==
    /\ Init /\ TrainInit
    /\ \/ case = [of |-> "walk"]
       \/ case = [of |-> "completion"] /\ wanted = 0 /\ ahead = 0
       \/ wanted = 0 /\ ahead = 0 /\ \E e \in Entries : case = [of |-> "entry", e |-> e]
       \/ wanted = 0 /\ ahead = 0 /\ \E h \in Hedges : case = [of |-> "hedge", h |-> h]

Walks == case.of = "walk" /\ Next /\ UNCHANGED <<case, trained>>
Trains == case.of = "completion" /\ TrainNext /\ UNCHANGED <<case, walkVars>>

MCNext == Walks \/ Trains
MCSpec == MCInit /\ [][MCNext]_algorithmVars

\* The gates the panel shows are the gates the engine enters and hedges by.
ReadyMeansOpens == /\ case.of = "entry" => EntryShown(case.e)
                   /\ case.of = "hedge" => HedgeShown(case.h)

\* Whatever the closed cycles are, a candidate has earned it.
CandidatesEarnIt == case.of = "completion" => \A s \in Snapshots : CandidateEarnsIt(s)

\* More evidence of success or failure counts as that.
MoreEvidenceCounts == [][EvidenceCounts(Edges)]_trained
=============================================================================
