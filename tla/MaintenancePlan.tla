-------------------------- MODULE MaintenancePlan --------------------------
(***************************************************************************)
(* What one maintenance run would do: MaintenancePlanner, the retention    *)
(* engine and the review policy it relies on, as operators over the        *)
(* records a run has read.                                                 *)
(*                                                                         *)
(* A record is its class, its content (the normalized digest, which covers *)
(* the assertion too), the fact it asserts (fact, object), the half-open   *)
(* interval it is valid over, its state, the records it links to           *)
(* (references, supersedes and conflicts_with), the instants its consent   *)
(* permits, the kinds of explicit evidence it cites, the signs admission   *)
(* found in its words, and what its words as stored come to when they are  *)
(* written again: what was masked or declared then is not now, so digest   *)
(* and signs may differ.  Record numbers follow recorded_at.               *)
(***************************************************************************)
EXTENDS Naturals, Sequences, FiniteSetsExt

CONSTANTS
    Forever,       \* valid_to of an open interval: later than every instant
    NeverArchived  \* RetentionPolicy.never_archive_classes

ASSUME ForeverAssumption == Forever \in Nat

NoFact   == "none"
Consolidating == {"DEDUPE", "REFINE"}

\* The classes that take consent and explicit evidence
Private == {"identity", "preference"}

\* Signs in a record's words: "hold" has admission hold it, "block" keeps a
\* reviewer from releasing it.  Explicit evidence: the server's, or claimed.
Signs    == {"hold", "block"}
Explicit == {"explicit", "claimed"}

\* AdmissionEngine.evaluate, of a candidate that is no duplicate
Rejects(m) == m.class \in Private /\ (m.from \notin m.consent \/ m.evidence = {})
Holds(m)   == "hold" \in m.signs \/ (m.class \in Private /\ "explicit" \notin m.evidence)
Admitted(m) ==
    CASE Rejects(m)               -> "REJECTED"
      [] ~Rejects(m) /\ Holds(m) -> "QUARANTINED"
      [] OTHER                    -> "ACTIVE"

\* action_digest: the operation and the exact set of its sources
Digest(a) == <<a.operation, a.sources>>

Action(operation, sources, supersedes, archives) ==
    [operation |-> operation, sources |-> sources, supersedes |-> supersedes,
     archives |-> archives]

Consumed(actions) == UNION {a.supersedes \cup a.archives : a \in actions}

---------------------------------------------------------------------------
\* Intervals and groups.  R maps the records read to their values.

Overlaps(R, l, r) == R[r].from < R[l].to /\ R[l].from < R[r].to

\* _assertion_key and _assertion_object
Asserting(R, E) == {r \in E : R[r].fact # NoFact /\ R[r].object # NoFact}

Groups(key) == {{r \in DOMAIN key : key[r] = k} : k \in Range(key)}

Before(R, l, r) == R[l].from < R[r].from \/ (R[l].from = R[r].from /\ l < r)

\* The record of T whose interval begins last
LastOf(R, T) == CHOOSE r \in T : \A l \in T \ {r} : Before(R, l, r)

Joined(R, clusters, r) ==
    LET hits == {i \in DOMAIN clusters : \E m \in clusters[i] : Overlaps(R, r, m)}
    IN  IF hits = {} THEN Append(clusters, {r})
        ELSE [clusters EXCEPT ![Min(hits)] = @ \cup {r}]

\* Mutant: whenever they were true
WholeGroup(R, S) == {S}

\* What _overlapping_clusters has made of the records of T once it has placed them:
\* in the order the intervals begin, each joins the first cluster it overlaps.
Placed(R, S) ==
    LET placed[T \in SUBSET S] ==
            IF T = {} THEN <<>>
            ELSE LET r == LastOf(R, T) IN Joined(R, placed[T \ {r}], r)
    IN  placed

Clusters(R, S) == Range(Placed(R, S)[S])

---------------------------------------------------------------------------
\* The operations, each over the records no earlier one consumed.

Consolidations(operation, R, groups) ==
    {Action(operation, c, c, {}) :
        c \in {d \in UNION {Clusters(R, g) : g \in groups} : Cardinality(d) > 1}}

\* _plan_dedupe: the same normalized content in the same class
PlanDedupe(R, E) ==
    Consolidations("DEDUPE", R, Groups([r \in E |-> <<R[r].class, R[r].content>>]))

\* _plan_refine: one fact in different words
PlanRefine(R, E) ==
    LET groups == Groups([r \in Asserting(R, E) |-> <<R[r].fact, R[r].object>>])
    IN  Consolidations("REFINE", R,
                       {g \in groups : Cardinality({R[r].content : r \in g}) > 1})

\* _plan_supersede: the record of a fact that begins last closes the ones that
\* began before it with another object and were not over by then
PlanSupersede(R, E) ==
    LET Latest(g) == CHOOSE r \in g : \A o \in g :
                        R[o].from < R[r].from \/ (R[o].from = R[r].from /\ o <= r)
        Closes(late, early) == /\ R[early].object # R[late].object
                               /\ R[early].from < R[late].from
                               /\ R[late].from < R[early].to
    IN  UNION {{Action("SUPERSEDE", {early, Latest(g)}, {early}, {}) :
                   early \in {e \in g : Closes(Latest(g), e)}} :
               g \in Groups([r \in Asserting(R, E) |-> R[r].fact])}

\* RetentionEngine.reference_counts, and whether a record is referred to at all
Referenced(R, S, r) == \E o \in S : r \in R[o].links

\* RetentionEngine.evaluate
RetentionDecision(R, S, r, now) ==
    CASE R[r].class \in NeverArchived \/ now < R[r].to -> "retain"
      [] now >= R[r].to /\ Referenced(R, S, r)         -> "soft-expire"
      [] OTHER                                         -> "archive"

\* _plan_archive: all of them in one action
PlanArchive(R, E, now) ==
    LET expired == {r \in E : RetentionDecision(R, E, r, now) = "archive"}
    IN  IF expired = {} THEN {} ELSE {Action("ARCHIVE", expired, {}, expired)}

\* _plan_reconcile: different objects from the same instant on, not linked yet
PlanReconcile(R, E) ==
    LET InConflict(l, r) == /\ R[l].fact = R[r].fact /\ R[l].object # R[r].object
                            /\ R[l].from = R[r].from /\ Overlaps(R, l, r)
        Linked(l, r) == r \in R[l].conflicts /\ l \in R[r].conflicts
    IN  {Action("RECONCILE", {p[1], p[2]}, {}, {}) :
            p \in {q \in Asserting(R, E) \X Asserting(R, E) : InConflict(q[1], q[2]) /\ ~Linked(q[1], q[2])}}

\* _plan_review_quarantine
PlanReview(S) == {Action("REVIEW_QUARANTINE", {r}, {}, {}) : r \in S}

\* plan: each operation sees what the earlier ones left; reconciliation and
\* review consume nothing
Planned(R, now) ==
    LET E == {r \in DOMAIN R : R[r].state = "ACTIVE"}
        dedupe    == PlanDedupe(R, E)
        refine    == UNION {dedupe \cup PlanRefine(R, left) : left \in {E \ Consumed(dedupe)}}
        supersede == UNION {refine \cup PlanSupersede(R, left) : left \in {E \ Consumed(refine)}}
        archive   == UNION {supersede \cup PlanArchive(R, left, now) : left \in {E \ Consumed(supersede)}}
    IN  PlanReview({r \in DOMAIN R : R[r].state = "QUARANTINED"})
            \cup UNION {archive \cup PlanReconcile(R, left) : left \in {E \ Consumed(archive)}}

\* An action whose digest is in the ledger is skipped.
Fresh(R, now, applied) == {a \in Planned(R, now) : Digest(a) \notin applied}

---------------------------------------------------------------------------
\* Reviews of quarantined records.

Opinions == {"release", "doubtful release", "hold", "escalate", "malformed", "outage"}

\* EvidenceBoundProviderReviewer.review: what the provider's answer is read as
ReviewVerdict(opinion) ==
    CASE opinion \in {"release", "doubtful release"} -> "RELEASE"
      [] opinion \in {"hold", "outage"}              -> "HOLD"
      [] opinion \in {"escalate", "malformed"}       -> "ESCALATE"

\* An unusable answer comes with a blocker of its own.
Blocked(record, opinion) ==
    \/ "block" \in record.signs \/ opinion = "malformed"
    \/ record.class \in Private /\ "claimed" \in record.evidence

\* apply_policy
ApplyPolicy(record, opinion) ==
    CASE Blocked(record, opinion)         -> "ESCALATE"
      [] ~Blocked(record, opinion) /\ opinion = "doubtful release" -> "HOLD"
      [] OTHER                            -> ReviewVerdict(opinion)

\* requires_human
RequiresHuman(record, opinion) ==
    ApplyPolicy(record, opinion) = "ESCALATE" \/ Blocked(record, opinion)
=============================================================================
