--------------------------- MODULE EvidenceLedger ---------------------------
(***************************************************************************)
(* The control program of a staging release (tools/phase6): an attestor    *)
(* signs evidence records for a run, commands of the operator import them  *)
(* into the run's directory and sign one event each into its ledger, and   *)
(* the decision, GO or NO_GO, is recomputed from both.                     *)
(*                                                                         *)
(* The directory has no lock and a command is no transaction: it copies    *)
(* proof files, writes the record, reads the end of the ledger and appends *)
(* to it, one after the other.  Commands may overlap, may be killed at any *)
(* point, and in the middle of a line; files may change once they are      *)
(* ledgered, and the pack may be upgraded under a run.                     *)
(*                                                                         *)
(* A digest is the thing it is a digest of, and a signature of the         *)
(* attestor is membership in attested.  The hash an event is chained to is *)
(* the number of the line that was the last when its command looked: two   *)
(* lines hash alike only if they agree on their sequence numbers, and then *)
(* one of the numbers is refused.                                          *)
(***************************************************************************)
EXTENDS Naturals, Sequences

CONSTANTS
    Checks,      \* the external checks of GO_NO_GO_POLICY.yaml
    Paths,       \* proof files of a check
    Contents,    \* what a proof file holds
    Versions,    \* of the pack: policy, schemas, collectors and programs
    ThisRun,     \* the run, and
    OtherRuns,   \* those the same attestor has signed for
    Records,     \* the records a command may be given
    Shells,      \* where commands are started
    None,
    MaxEvents,   \* bound: lines of the ledger
    MaxBatch     \* bound: records of one command

Bundles == UNION {[P -> Contents] : P \in SUBSET Paths}

\* What a decision reads of a record.  conforms: schema, evidence class,
\* scenario, source, producer and the descriptors of its proofs; passes: its
\* status, and the assertions the policy expects; trips: an immediate NO-GO.
RecordTypes ==
    [check : Checks, run : {ThisRun} \cup OtherRuns, version : Versions, proofs : Bundles,
     synthetic : BOOLEAN, conforms : BOOLEAN, passes : BOOLEAN, trips : BOOLEAN]

\* input.snapshot.json and the binding: the version of the pack the run began
\* with, and what the configuration says of the environment and the evidence
RunTypes == [version : Versions, staging : BOOLEAN, live : BOOLEAN]

\* what the constants must be
EvidenceParameters ==
    /\ Records \subseteq RecordTypes
    /\ {MaxEvents, MaxBatch} \subseteq Nat
    /\ ThisRun \notin OtherRuns
    /\ None \notin Records \cup Paths \cup Contents \cup RunTypes

VARIABLES
    run,        \* the snapshot and the binding of the run, once initialised
    version,    \* of the pack that commands are started from
    attested,   \* records that bear the attestor's signature
    rec,        \* rec[c]: evidence/records/<c>.json
    proof,      \* proof[c][p]: a file of evidence/artifacts/<c>/
    ledger,     \* the lines of events.jsonl
    decision,   \* derived-decision.json
    report,     \* GO_NO_GO_REPORT.md: the decision it was rendered from
    cmd,        \* cmd[w]: the command shell w runs
    held,       \* held[w]: the decision it has in memory
    accepted,   \* the records an add-evidence has printed PASS for
    disturbed   \* a command was left half done or overlapped another, or a
                \* file or the pack changed under the run

runVars      == <<run, attested, version>>
evidenceVars == <<run, version, attested, rec, proof, ledger, decision, report, cmd, held, accepted, disturbed>>

\* A command with nothing in hand yet
Command(op, at, queue, exit) ==
    [op |-> op, at |-> at, queue |-> queue, todo |-> {}, file |-> None, line |-> None, exit |-> exit]

NoCommand == Command("none", "done", <<>>, 0)

\* Half a line; and one that the next line written was joined to, which ended it.
Torn    == [kind |-> "torn", ended |-> FALSE]
Spliced == [kind |-> "torn", ended |-> TRUE]

---------------------------------------------------------------------------
\* The ledger.

\* A line does not read, is out of sequence, or is not chained to the one
\* before it.
BrokenLine(i) ==
    \/ ledger[i].kind = "torn"
    \/ ledger[i].seq # i
    \/ ledger[i].after # i - 1

BrokenTail == ledger # <<>> /\ ledger[Len(ledger)].kind = "torn"
TornTail   == BrokenTail /\ ~ledger[Len(ledger)].ended

\* verify_ledger
LedgerErrors ==
    IF ledger = <<>> THEN {<<"events missing">>}
    ELSE {<<"line", i>> : i \in {j \in DOMAIN ledger : BrokenLine(j)}}
         \cup {<<"first event">> : kind \in {ledger[1].kind} \ {"run_initialized"}}
         \cup {<<"control plane">> : v \in {version} \ {run.version}}

\* append_event: the line as it is made from the end of the ledger
NextSeq == IF ledger = <<>> THEN 1 ELSE ledger[Len(ledger)].seq + 1

Line(kind, check, record, proofs) ==
    [kind |-> kind, seq |-> NextSeq, after |-> Len(ledger), check |-> check, record |-> record,
     proofs |-> proofs]

---------------------------------------------------------------------------
\* Evidence.

\* verify_record: only sign_record, with the attestor's key, makes what passes it
Signed(r) == r \in attested

\* validate_record_schema, validate_record_run_binding, verify_record,
\* validate_source and validate_artifact_descriptors
Valid(c, r) ==
    /\ r.check = c
    /\ r.run = ThisRun /\ r.version = run.version
    /\ Signed(r)
    /\ r.conforms /\ DOMAIN r.proofs # {}
    /\ r.synthetic => ~run.live

\* recorded_evidence_events: the last event of a check is the one that counts
EventsOf(c) == {i \in DOMAIN ledger : ledger[i].kind = "evidence_recorded" /\ ledger[i].check = c}
Ledgered    == {c \in Checks : EventsOf(c) # {}}
Event(c)    == ledger[CHOOSE i \in EventsOf(c) : \A j \in EventsOf(c) : j <= i]

Twice(c) == \E i, j \in EventsOf(c) : i # j

\* records: the ledgered ones that are there
Found == {c \in Ledgered : rec[c] # None}

Intact(c) ==
    /\ Event(c).record = rec[c]
    /\ Valid(c, rec[c])
    /\ Event(c).proofs = rec[c].proofs
    /\ \A p \in DOMAIN rec[c].proofs : proof[c][p] = rec[c].proofs[p]

Unledgered(c) ==
    \/ c \notin Ledgered /\ rec[c] # None
    \/ \E p \in Paths : proof[c][p] # None /\ (c \in Found => p \notin DOMAIN rec[c].proofs)

\* reconcile_evidence
EvidenceErrors ==
    {<<"duplicate", c>> : c \in {d \in Checks : Twice(d)}}
    \cup {<<"missing", c>> : c \in Ledgered \ Found}
    \cup {<<"altered", c>> : c \in {d \in Found : ~Intact(d)}}
    \cup {<<"unledgered", c>> : c \in {d \in Checks : Unledgered(d)}}

IntegrityErrors == LedgerErrors \cup EvidenceErrors

Flawed(c) == \E kind \in {"duplicate", "missing", "altered", "unledgered"} : <<kind, c>> \in EvidenceErrors

\* evaluate
StatusOf(c) ==
    IF c \notin Found THEN "MISSING"
    ELSE IF rec[c].passes /\ Valid(c, rec[c]) /\ ~Flawed(c) THEN "PASS" ELSE "FAIL"

\* evaluate_immediate_no_go: every condition of the policy is about a record
Triggers == {c \in Found : rec[c].trips}

Go ==
    /\ IntegrityErrors = {} /\ Triggers = {}
    /\ run.staging
    /\ \A c \in Checks : StatusOf(c) = "PASS"

Evaluation ==
    [errors |-> IntegrityErrors, status |-> [c \in Checks |-> StatusOf(c)], triggers |-> Triggers,
     live |-> run.live, go |-> Go]

\* validate-evidence
Validates(allowSynthetic) ==
    /\ decision = Evaluation /\ report = Evaluation
    /\ Go
    /\ run.live \/ allowSynthetic

---------------------------------------------------------------------------
\* Commands.

Busy(w)  == cmd[w].at # "done"
Given(w) == Head(cmd[w].queue)

Others(w) == \E v \in Shells \ {w} : Busy(v)

EvidenceInit ==
    /\ run = None
    /\ version \in Versions
    /\ attested \in SUBSET {r \in Records : r.run # ThisRun}
    /\ rec = [c \in Checks |-> None]
    /\ proof = [c \in Checks |-> [p \in Paths |-> None]]
    /\ ledger = <<>>
    /\ decision = None /\ report = None
    /\ cmd = [w \in Shells |-> NoCommand]
    /\ held = [w \in Shells |-> None]
    /\ accepted = {}
    /\ disturbed = FALSE

\* A command is given the signing key of the run: with another it raises before
\* it touches anything.
Begin(w, op, at, queue) ==
    /\ ~Busy(w)
    /\ Len(ledger) < MaxEvents
    /\ cmd' = [cmd EXCEPT ![w] = Command(op, at, queue, 0)]
    /\ disturbed' = (disturbed \/ Others(w))

\* the command ends with exit
Ends(w, exit) == cmd' = [cmd EXCEPT ![w] = Command(cmd[w].op, "done", <<>>, exit)]

\* add-evidence-batch goes on with the next record whatever became of this one
NextRecord(w, exit) ==
    IF Len(cmd[w].queue) > 1
    THEN cmd' = [cmd EXCEPT ![w] = Command("add", "check", Tail(cmd[w].queue), exit)]
    ELSE Ends(w, exit)

\* main: an exception ends the command with 2
Raises(w) == Ends(w, 2)

\* init: the directory, the snapshot, both keys and the binding
PrepareRun(w, staging, live) ==
    /\ run = None
    /\ Begin(w, "init", "tail", <<>>)
    /\ run' = [version |-> version, staging |-> staging, live |-> live]
    /\ UNCHANGED <<version, attested, rec, proof, ledger, decision, report, held, accepted>>

StartAdd(w, queue) ==
    /\ run # None
    /\ Begin(w, "add", "check", queue)
    /\ UNCHANGED <<runVars, rec, proof, ledger, decision, report, held, accepted>>

\* derive and generate-report
StartDecision(w, op) ==
    /\ run # None
    /\ Begin(w, op, "evaluate", <<>>)
    /\ UNCHANGED <<runVars, rec, proof, ledger, decision, report, held, accepted>>

\* cmd_add_evidence, up to the import: a record is ledgered once
Acceptable(r) == LedgerErrors = {} /\ Valid(r.check, r) /\ rec[r.check] = None

CheckRecord(w) ==
    /\ cmd[w].at = "check"
    /\ IF Acceptable(Given(w))
       THEN cmd' = [cmd EXCEPT ![w] = [@ EXCEPT !.at = "import", !.todo = DOMAIN Given(w).proofs]]
       ELSE NextRecord(w, 2)
    /\ UNCHANGED <<runVars, rec, proof, ledger, decision, report, held, accepted, disturbed>>

\* import_artifacts, file by file: first it is looked whether there is one,
TestProof(w, p) ==
    /\ cmd[w].at = "import" /\ p \in cmd[w].todo
    /\ proof[Given(w).check][p] = None
    /\ cmd' = [cmd EXCEPT ![w] = [@ EXCEPT !.at = "copy", !.file = p]]
    /\ UNCHANGED <<runVars, rec, proof, ledger, decision, report, held, accepted, disturbed>>

\* then it is copied, over whatever has come there since.
CopyProof(w) ==
    /\ cmd[w].at = "copy"
    /\ proof' = [proof EXCEPT ![Given(w).check][cmd[w].file] = Given(w).proofs[cmd[w].file]]
    /\ cmd' = [cmd EXCEPT ![w] = [@ EXCEPT !.at = "import", !.todo = cmd[w].todo \ {cmd[w].file}]]
    /\ UNCHANGED <<runVars, rec, ledger, decision, report, held, accepted, disturbed>>

\* a file that is not there, differs from its descriptor or exists already;
\* what was imported before it stays
ImportFails(w) ==
    /\ cmd[w].at = "import" /\ cmd[w].todo # {}
    /\ Raises(w)
    /\ disturbed' = (disturbed \/ cmd[w].todo # DOMAIN Given(w).proofs)
    /\ UNCHANGED <<runVars, rec, proof, ledger, decision, report, held, accepted>>

\* a copy breaks off, or is not what was copied
CopyFails(w, x) ==
    /\ cmd[w].at = "copy"
    /\ proof' = [proof EXCEPT ![Given(w).check][cmd[w].file] = x]
    /\ Raises(w)
    /\ disturbed' = TRUE
    /\ UNCHANGED <<runVars, rec, ledger, decision, report, held, accepted>>

WriteRecord(w) ==
    /\ cmd[w].at = "import" /\ cmd[w].todo = {}
    /\ rec' = [rec EXCEPT ![Given(w).check] = Given(w)]
    /\ cmd' = [cmd EXCEPT ![w] = [@ EXCEPT !.at = "tail"]]
    /\ UNCHANGED <<runVars, proof, ledger, decision, report, held, accepted, disturbed>>

\* half a record
WriteFails(w, r) ==
    /\ cmd[w].at = "import" /\ cmd[w].todo = {}
    /\ rec' = [rec EXCEPT ![Given(w).check] = r]
    /\ Raises(w)
    /\ disturbed' = TRUE
    /\ UNCHANGED <<runVars, proof, ledger, decision, report, held, accepted>>

\* the decision is dumped and, by generate-report, rendered
Decide(w) ==
    /\ cmd[w].at = "evaluate"
    /\ decision' = Evaluation
    /\ cmd' = [cmd EXCEPT ![w] =
           [@ EXCEPT !.at = IF cmd[w].op = "report" THEN "render" ELSE "tail",
                     !.exit = IF Go THEN 0 ELSE 3]]
    /\ held' = [held EXCEPT ![w] = Evaluation]
    /\ UNCHANGED <<runVars, rec, proof, ledger, report, accepted, disturbed>>

Render(w) ==
    /\ cmd[w].at = "render"
    /\ report' = held[w]
    /\ cmd' = [cmd EXCEPT ![w] = [@ EXCEPT !.at = "tail"]]
    /\ UNCHANGED <<runVars, rec, proof, ledger, decision, held, accepted, disturbed>>

\* what the event says: the record is hashed as it lies in the directory
LineOf(w) ==
    CASE cmd[w].op = "init"   -> Line("run_initialized", None, None, None)
      [] cmd[w].op = "add"    -> Line("evidence_recorded", Given(w).check, rec[Given(w).check], Given(w).proofs)
      [] cmd[w].op = "derive" -> Line("decision_derived", None, None, None)
      [] cmd[w].op = "report" -> Line("report_generated", None, None, None)

Unreadable(w) == BrokenTail \/ (cmd[w].op = "add" /\ rec[Given(w).check] = None)

\* append_event: first the end of the ledger is read,
ReadTail(w) ==
    /\ cmd[w].at = "tail"
    /\ IF Unreadable(w)
       THEN Raises(w) /\ disturbed' = TRUE
       ELSE /\ cmd' = [cmd EXCEPT ![w] = [@ EXCEPT !.at = "append", !.line = LineOf(w)]]
            /\ UNCHANGED disturbed
    /\ UNCHANGED <<runVars, rec, proof, ledger, decision, report, held, accepted>>

\* then the line is written; after half a line it only ends that one.
AppendEvent(w) ==
    /\ cmd[w].at = "append"
    /\ ledger' = IF TornTail THEN [ledger EXCEPT ![Len(ledger)] = Spliced]
                          ELSE Append(ledger, cmd[w].line)
    /\ IF cmd[w].op = "add"
       THEN NextRecord(w, cmd[w].exit) /\ accepted' = accepted \cup {Given(w)}
       ELSE Ends(w, cmd[w].exit) /\ UNCHANGED accepted
    /\ UNCHANGED <<runVars, rec, proof, decision, report, held, disturbed>>

\* what a command that stops here would leave half done
HalfDone(w) ==
    \/ cmd[w].op = "init"
    \/ cmd[w].at \in {"import", "copy"} /\ cmd[w].todo # DOMAIN Given(w).proofs
    \/ cmd[w].op = "add" /\ cmd[w].at \in {"tail", "append"}

Kill(w) ==
    /\ Busy(w)
    /\ \/ UNCHANGED ledger /\ disturbed' = (disturbed \/ HalfDone(w))
       \/ /\ cmd[w].at = "append" /\ ~TornTail
          /\ ledger' = Append(ledger, Torn) /\ disturbed' = TRUE
    /\ Ends(w, 2)
    /\ UNCHANGED <<runVars, rec, proof, decision, report, held, accepted>>

Validate(w, allowSynthetic) ==
    /\ run # None /\ ~Busy(w)
    /\ cmd' = [cmd EXCEPT ![w] =
                Command("validate", "done", <<>>, IF Validates(allowSynthetic) THEN 0 ELSE 2)]
    /\ UNCHANGED <<runVars, rec, proof, ledger, decision, report, held, accepted, disturbed>>

---------------------------------------------------------------------------
\* The world around the commands.

\* build_evidence_record: the attestor signs what collectors have proved, for
\* the run whose binding it reads and the checks of the policy.
Attest(r) ==
    /\ run # None
    /\ r.run = ThisRun /\ r.version = run.version
    /\ r.conforms /\ DOMAIN r.proofs # {}
    /\ r.synthetic => ~run.live
    /\ attested' = attested \cup {r}
    /\ UNCHANGED <<run, version, rec, proof, ledger, decision, report, cmd, held, accepted, disturbed>>

\* a change of what control_plane_digest covers
Upgrade(v) ==
    /\ version' = v
    /\ disturbed' = (disturbed \/ run # None)
    /\ UNCHANGED <<run, attested, rec, proof, ledger, decision, report, cmd, held, accepted>>

\* ledgered files that are altered or lost
AlterRecord(c, r) ==
    /\ c \in Ledgered
    /\ rec' = [rec EXCEPT ![c] = r]
    /\ disturbed' = TRUE
    /\ UNCHANGED <<runVars, proof, ledger, decision, report, cmd, held, accepted>>

AlterProof(c, p, x) ==
    /\ c \in Ledgered
    /\ proof' = [proof EXCEPT ![c][p] = x]
    /\ disturbed' = TRUE
    /\ UNCHANGED <<runVars, rec, ledger, decision, report, cmd, held, accepted>>

Batches == UNION {[1..n -> Records] : n \in 1..MaxBatch}

Starts(w) ==
    \/ \E staging, live \in BOOLEAN : PrepareRun(w, staging, live)
    \/ \E queue \in Batches : StartAdd(w, queue)
    \/ \E op \in {"derive", "report"} : StartDecision(w, op)
    \/ \E allowSynthetic \in BOOLEAN : Validate(w, allowSynthetic)

Proceeds(w) ==
    \/ CheckRecord(w)
    \/ \E p \in Paths : TestProof(w, p)
    \/ CopyProof(w) \/ ImportFails(w)
    \/ \E x \in Contents \cup {None} : CopyFails(w, x)
    \/ WriteRecord(w)
    \/ \E r \in Records \cup {None} : WriteFails(w, r)
    \/ Decide(w) \/ Render(w)
    \/ ReadTail(w) \/ AppendEvent(w)

Around ==
    \/ \E r \in Records : Attest(r)
    \/ \E v \in Versions : Upgrade(v)
    \/ \E c \in Checks :
          \/ \E r \in Records \cup {None} : AlterRecord(c, r)
          \/ \E p \in Paths, x \in Contents \cup {None} : AlterProof(c, p, x)

EvidenceNext == (\E w \in Shells : Starts(w) \/ Proceeds(w) \/ Kill(w)) \/ Around

EvidenceSpec == EvidenceInit /\ [][EvidenceNext]_evidenceVars

---------------------------------------------------------------------------
\* Properties.

\* What add-evidence printed PASS for is what a GO is decided on, however
\* commands overlapped or were killed and whatever changed in between: a GO
\* finds, for every record accepted, a record of the same proofs.  (Not always
\* the same record: two commands that import the same proofs at the same time
\* may both find no file and no record, and the later record stays.)
AcceptedIsDecided == (run # None /\ Go) => \A r \in accepted : rec[r.check].proofs = r.proofs

\* The commands undo no integrity of their own: a run whose commands were
\* neither overlapped nor left half done, and whose files nobody changed, has
\* no integrity error between two commands; and the record accepted for a
\* check is the one that lies there ("records_are_append_once",
\* EVIDENCE_CONTRACT.yaml).
UndisturbedRunIsIntact ==
    (run # None /\ ~disturbed /\ \A w \in Shells : ~Busy(w)) =>
        IntegrityErrors = {} /\ \A r \in accepted : rec[r.check] = r

\* A break in the chain is for good ("start a new run after remediation
\* rather than rewriting the failed ledger", RUNBOOK.md): no command mends it,
\* and no later decision is GO.
BreaksStay == [][\A i \in DOMAIN ledger : BrokenLine(i) => (i \in DOMAIN ledger' /\ BrokenLine(i)')]_evidenceVars
=============================================================================
