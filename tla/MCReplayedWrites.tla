-------------------------- MODULE MCReplayedWrites --------------------------
(* Two editions of a plan: the second raises the score of one fact and adds *)
(* another.  Damage changes a score, swaps evidence for other evidence that *)
(* means the same, or swaps in the key of another candidate.                *)
EXTENDS ReplayedWrites

Candidate(fact, score, cites, status) ==
    LET c == [fact |-> fact, score |-> score, cites |-> cites, status |-> status]
    IN [fact |-> fact, score |-> score, cites |-> cites, status |-> status,
        id |-> CandidateId(c), key |-> EffectKey(c)]

MeaningMC == [e \in {"e1", "e2", "e3"} |-> IF e = "e3" THEN "moved" ELSE "file"]
VerdictMC == [x \in {"one", "two", "three", "keyed", "plain", "broken"} |->
                CASE x = "two" -> "quarantined" [] x = "three" -> "memory_rejected" [] OTHER -> "admitted"]

First    == <<Candidate("one", 1, <<"e1">>, "eligible"), Candidate("two", 1, <<"e1", "e3">>, "held")>>
Second   == <<Candidate("one", 2, <<"e1">>, "eligible"), Candidate("two", 1, <<"e1", "e3">>, "eligible"),
              Candidate("three", 1, <<"e2">>, "eligible")>>
EditionsMC == <<First, Second>>

EditsMC ==
    [n \in {1, 2} |->
        LET p == EditionsMC[n] IN
        {[p EXCEPT ![1].score = 3], [p EXCEPT ![1].cites = <<"e2">>], [p EXCEPT ![1].key = p[2].key]}]

FilesMC == <<"keyed", "plain", "broken">>
=============================================================================
