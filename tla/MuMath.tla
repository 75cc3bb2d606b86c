------------------------------- MODULE MuMath -------------------------------
(***************************************************************************)
(* Commands of scripts/run_mu_math.py for one judge on one output root.    *)
(* The judge gives each row of the meta-evaluation data a verdict on a     *)
(* solution whose label is known; the verdicts go to a ledger, and the     *)
(* summary says how well they agree with the labels.                       *)
(*                                                                         *)
(* The command does not use EvaluationRunner: it has a ledger, a lock and  *)
(* a summary of its own.  Several commands may run at once, from different *)
(* versions of the program, and each may fail, be interrupted or be killed *)
(* anywhere.  All of them look for the same experiment identity, so that   *)
(* there is one directory, found or claimed as in Campaign.  Verdicts      *)
(* arrive in the order of the rows (OrderedDelivery).                      *)
(***************************************************************************)
EXTENDS Integers, Sequences, FiniteSetsExt

CONSTANTS
  Commands,     (* processes                                              *)
  Versions,     (* runner revisions: in the manifest, not in the identity *)
  Identity,     (* the fingerprint of the experiment identity             *)
  None,
  Size,         (* rows of the data                                       *)
  Label,        (* whether the solution of a row is correct               *)
  Source,       (* the model that wrote it                                *)
  Batches,      (* --batch-size; Size or more stands for "all"            *)
  MaxCommands   (* commands started (bound)                               *)

Row == 1 .. Size

ASSUME MuMathAssumption ==
  /\ None \notin Commands \cup Versions \cup {Identity} \cup Nat
  /\ Size \in Nat \ {0}
  /\ Label \in [Row -> BOOLEAN]
  /\ DOMAIN Source = Row
  /\ Batches \subseteq Nat \ {0}
  /\ MaxCommands \in Nat

VARIABLES
  manifest,  (* experiment.json                                           *)
  ledger,    (* records.jsonl and its lock                                *)
  summary,   (* what summary.json was computed from                       *)
  cmd,       (* the state of each command, see Command                    *)
  started    (* commands started so far                                   *)

vars == <<manifest, ledger, summary, cmd, started>>

(* Defect: the fingerprint is that of the whole configuration.             *)
FingerprintOfAll(v) == v

(* configuration_fingerprint(_experiment_identity(configuration)), which   *)
(* drops the revisions of the runner.                                      *)
Fingerprint(v) == Identity

Manifest == [version : Versions, fingerprint : {Fingerprint(v) : v \in Versions}]

ASSUME NoneAssumption == None \notin Manifest

Configuration(v) == [version |-> v, fingerprint |-> Fingerprint(v)]

(***************************************************************************)
(* Verdicts and metrics                                                    *)
(***************************************************************************)
Verdict == {"Yes", "No", "Inconclusive"}

Record == [row : Row, verdict : Verdict]

(* What _evaluate_row may make of a reply: a last line that is no verdict, *)
(* and a reply that did not stop of itself, are inconclusive.              *)
Scored(i) == {[row |-> i, verdict |-> v] : v \in Verdict}

(* Of the records at the positions K.                                      *)
Count(records, K, label, verdict) ==
  Cardinality({k \in K : Label[records[k].row] = label
                         /\ records[k].verdict = verdict})

(* Numbers are fractions <<numerator, denominator>>.                       *)
Ratio(n, d) == IF d = 0 THEN <<0, 1>> ELSE <<n, d>>

(* _ratio(2 * p * r, p + r)                                                *)
F1(p, r) == Ratio(2 * p[1] * r[1], p[1] * r[2] + r[1] * p[2])

Mean(a, b) == <<a[1] * b[2] + b[1] * a[2], 2 * a[2] * b[2]>>

(* Defect: rows without a verdict are left out of the rates.               *)
MetricsOfDecided(records, K) ==
  LET tp == Count(records, K, TRUE, "Yes")
      fn == Count(records, K, TRUE, "No")
      fp == Count(records, K, FALSE, "Yes")
      tn == Count(records, K, FALSE, "No")
      tpr == Ratio(tp, tp + fn)
      tnr == Ratio(tn, tn + fp)
  IN  [records |-> Cardinality(K), correct |-> tp + tn,
       inconclusive |-> Cardinality(K) - tp - fn - fp - tn,
       accuracy |-> Ratio(tp + tn, tp + fn + fp + tn),
       tpr |-> tpr, tnr |-> tnr,
       macro_f1 |-> Mean(F1(Ratio(tp, tp + fp), tpr), F1(Ratio(tn, tn + fn), tnr))]

(* Records of errors are never written, so all records are scored.         *)
Metrics(records, K) ==
  LET tp == Count(records, K, TRUE, "Yes")
      fn == Count(records, K, TRUE, "No")
      fp == Count(records, K, FALSE, "Yes")
      tn == Count(records, K, FALSE, "No")
      positive == Count(records, K, TRUE, "Inconclusive")
      negative == Count(records, K, FALSE, "Inconclusive")
      tpr == Ratio(tp, tp + fn + positive)
      tnr == Ratio(tn, tn + fp + negative)
  IN  [records |-> Cardinality(K), correct |-> tp + tn,
       inconclusive |-> positive + negative,
       accuracy |-> Ratio(tp + tn, Cardinality(K)),
       tpr |-> tpr, tnr |-> tnr,
       macro_f1 |-> Mean(F1(Ratio(tp, tp + fp), tpr), F1(Ratio(tn, tn + fn), tnr))]

(* _summarize: all records, and those of each model.                       *)
Sources(records) == {Source[records[k].row] : k \in DOMAIN records}

Summarize(records) ==
  [aggregate |-> Metrics(records, DOMAIN records),
   by_solution_model |->
     [s \in Sources(records) |->
        Metrics(records, {k \in DOMAIN records : Source[records[k].row] = s})]]

(***************************************************************************)
(* The ledger                                                              *)
(***************************************************************************)
(* file       "none": no such file; "empty": it has no line; "bare": the   *)
(*            last line lacks its newline; "broken": some line does not    *)
(*            parse                                                        *)
(* header     the fingerprint in its first line                            *)
Ledger == [file : {"none", "empty", "whole", "bare", "broken"},
           header : {Identity, None} \cup Versions, records : Seq(Record),
           lock : Commands \cup {None}]

NoLedger == [file |-> "none", header |-> None, records |-> <<>>, lock |-> None]

Rows(records) == {records[k].row : k \in DOMAIN records}

(* _read_records does not raise.  A file without a line has no header.     *)
Readable(l, fingerprint) ==
  \/ l.file = "none"
  \/ /\ l.file \in {"whole", "bare"}
     /\ l.header = fingerprint
     /\ \A j, k \in DOMAIN l.records :
          l.records[j].row = l.records[k].row => j = k

(* Read outside its lock, it may be caught in the middle of an append.     *)
MayRaise(l, fingerprint) == ~Readable(l, fingerprint) \/ l.lock # None

(* _append_record: the header first if there is none.                      *)
Appended(l, fingerprint, r) ==
  [l EXCEPT !.header = IF @ = None THEN fingerprint ELSE @,
            !.records = Append(@, r),
            !.file = IF @ \in {"bare", "broken"} THEN "broken" ELSE "whole"]

(* An append cut short: at the opening of the file, in a line, or before   *)
(* the newline of the header or of the record, or between these two.       *)
Torn(l, fingerprint, r) ==
  {[l EXCEPT !.file = "broken"]} \cup
  IF l.file \in {"bare", "broken"} THEN {}
  ELSE {[Appended(l, fingerprint, r) EXCEPT !.file = "bare"]}
       \cup IF l.file = "whole" THEN {}
            ELSE {[l EXCEPT !.file = "empty"]}
                 \cup {[l EXCEPT !.header = fingerprint, !.file = f] :
                         f \in {"whole", "bare"}}

(***************************************************************************)
(* Commands                                                                *)
(***************************************************************************)
Pc == {"idle", "finding", "reading", "asking", "ensuring", "writing",
       "locking", "running", "summing", "reporting"}

(* config     its manifest_configuration and fingerprint                   *)
(* before     completed_before, the records of its plan                    *)
(* target     the new rows of its plan                                     *)
(* todo       the rows it selected and has not recorded                    *)
(* new        the records it wrote                                         *)
(* report     the records its summary is about                             *)
(* exit       how it ended: its code, or None if it was killed or runs     *)
Command ==
  [pc : Pc, version : Versions \cup {None}, batch : Nat,
   config : Manifest \cup {None}, before : 0 .. Size, target : 0 .. Size,
   todo : SUBSET Row, new : Seq(Record), report : Seq(Record),
   exit : {0, 1, 2, 130, None}]

Idle == [pc |-> "idle", version |-> None, batch |-> 0, config |-> None,
         before |-> 0, target |-> 0, todo |-> {}, new |-> <<>>,
         report |-> <<>>, exit |-> None]

Init ==
  /\ manifest = None
  /\ ledger = NoLedger
  /\ summary = None
  /\ cmd = [p \in Commands |-> Idle]
  /\ started = 0

Lesser(m, n) == IF m < n THEN m ELSE n

At(p, label) == cmd[p].pc = label

GoTo(p, label) == cmd' = [cmd EXCEPT ![p].pc = label]

FingerprintOf(p) == cmd[p].config.fingerprint

(* Defect: the lock outlives the process.                                  *)
StillLocked(l) == l

(* The lock is a flock.                                                    *)
Unlocked(l) == [l EXCEPT !.lock = None]

(* The process ends; a lock it holds is released.                          *)
Exit(p, code) ==
  /\ cmd' = [cmd EXCEPT ![p] = [Idle EXCEPT !.exit = code]]
  /\ ledger' = IF At(p, "running") THEN Unlocked(ledger) ELSE ledger
  /\ UNCHANGED <<manifest, summary, started>>

Start(p) ==
  /\ At(p, "idle")
  /\ started < MaxCommands
  /\ started' = started + 1
  /\ \E v \in Versions, size \in Batches :
       cmd' = [cmd EXCEPT ![p] = [Idle EXCEPT !.pc = "finding", !.version = v,
                                              !.batch = size]]
  /\ UNCHANGED <<manifest, ledger, summary>>

(* _find_resume_experiment; a configuration that is found is used.         *)
Find(p) ==
  /\ At(p, "finding")
  /\ cmd' = [cmd EXCEPT ![p].pc = "reading",
                        ![p].config = IF manifest = None
                                      THEN Configuration(cmd[p].version)
                                      ELSE manifest]
  /\ UNCHANGED <<manifest, ledger, summary, started>>

Completed == Rows(ledger.records)

(* The plan.  The identity fixes the data: no completed row is unknown.    *)
ReadPlan(p) ==
  /\ At(p, "reading")
  /\ Readable(ledger, FingerprintOf(p))
  /\ LET before == Cardinality(Completed)
     IN  cmd' = [cmd EXCEPT ![p].pc = "asking", ![p].before = before,
                            ![p].target = Lesser(cmd[p].batch, Size - before)]
  /\ UNCHANGED <<manifest, ledger, summary, started>>

(* "Resume validation failed"                                              *)
ReadPlanFails(p) ==
  /\ At(p, "reading")
  /\ MayRaise(ledger, FingerprintOf(p))
  /\ Exit(p, 2)

(* --dry-run, or a plan that is not confirmed.                             *)
Decline(p) == At(p, "asking") /\ Exit(p, 0)

(* Code 0 for what the command said it would do.                           *)
Succeed(p) ==
  cmd' = [cmd EXCEPT ![p] = [Idle EXCEPT !.exit = 0, !.before = cmd[p].before,
                                         !.target = cmd[p].target]]

AlreadyComplete(p) ==
  /\ At(p, "asking")
  /\ cmd[p].target = 0
  /\ Succeed(p)
  /\ UNCHANGED <<manifest, ledger, summary, started>>

PreflightFails(p) ==
  /\ At(p, "asking")
  /\ cmd[p].target > 0
  /\ Exit(p, 2)

(* And the claim of a directory, which may be that of another command.     *)
Preflight(p) ==
  /\ At(p, "asking")
  /\ cmd[p].target > 0
  /\ GoTo(p, "ensuring")
  /\ UNCHANGED <<manifest, ledger, summary, started>>

(* ensure_experiment_manifest, as in Campaign.                             *)
ManifestEqual(p) ==
  /\ At(p, "ensuring")
  /\ manifest = cmd[p].config
  /\ GoTo(p, "locking")
  /\ UNCHANGED <<manifest, ledger, summary, started>>

ManifestDiffers(p) ==
  /\ At(p, "ensuring")
  /\ manifest \notin {None, cmd[p].config}
  /\ Exit(p, 2)

ManifestMissing(p) ==
  /\ At(p, "ensuring")
  /\ manifest = None
  /\ GoTo(p, "writing")
  /\ UNCHANGED <<manifest, ledger, summary, started>>

WriteManifest(p) ==
  /\ At(p, "writing")
  /\ manifest' = cmd[p].config
  /\ GoTo(p, "locking")
  /\ UNCHANGED <<ledger, summary, started>>

(* Defect: the batch is the one of the plan.                               *)
SelectionOfPlan(p) ==
  {i \in Row : cmd[p].before < i /\ i <= cmd[p].before + cmd[p].target}

(* The first `target' rows that are not completed now.                     *)
Selection(p) ==
  {i \in Row \ Completed :
     Cardinality({j \in Row \ Completed : j < i}) < cmd[p].target}

(* _exclusive_run, and the records read again inside it.                   *)
Lock(p) ==
  /\ At(p, "locking")
  /\ ledger.lock = None
  /\ Readable(ledger, FingerprintOf(p))
  /\ ledger' = [ledger EXCEPT !.lock = p]
  /\ cmd' = [cmd EXCEPT ![p].pc = "running", ![p].todo = Selection(p)]
  /\ UNCHANGED <<manifest, summary, started>>

(* Another process holds the lock, or the ledger is rejected.              *)
LockFails(p) ==
  /\ At(p, "locking")
  /\ ledger.lock # None \/ ~Readable(ledger, FingerprintOf(p))
  /\ Exit(p, 2)

IsNext(p, i) == i \in cmd[p].todo /\ \A j \in cmd[p].todo : i <= j

Judge(p) ==
  /\ At(p, "running")
  /\ \E i \in cmd[p].todo : \E r \in Scored(i) :
       /\ IsNext(p, i)
       /\ ledger' = Appended(ledger, FingerprintOf(p), r)
       /\ cmd' = [cmd EXCEPT ![p].todo = @ \ {i}, ![p].new = Append(@, r)]
  /\ UNCHANGED <<manifest, summary, started>>

(* Defect: the rest of the batch is left, and the command goes on.         *)
RowFailsGoOn(p) ==
  /\ At(p, "running")
  /\ cmd[p].todo # {}
  /\ ledger' = Unlocked(ledger)
  /\ GoTo(p, "summing")
  /\ UNCHANGED <<manifest, summary, started>>

(* "µ-MATH stopped at the first failed sample."                            *)
RowFails(p) ==
  /\ At(p, "running")
  /\ cmd[p].todo # {}
  /\ Exit(p, 1)

Finish(p) ==
  /\ At(p, "running")
  /\ cmd[p].todo = {}
  /\ ledger' = Unlocked(ledger)
  /\ GoTo(p, "summing")
  /\ UNCHANGED <<manifest, summary, started>>

(* Defect: the records read for the plan and the new ones are summarised.  *)
ReadOwn(p) ==
  /\ At(p, "summing")
  /\ Readable(ledger, FingerprintOf(p))
  /\ cmd' = [cmd EXCEPT ![p].pc = "reporting",
               ![p].report = SubSeq(ledger.records, 1, cmd[p].before) \o cmd[p].new]
  /\ UNCHANGED <<manifest, ledger, summary, started>>

(* Outside the lock, and outside the `try'...                              *)
ReadSummary(p) ==
  /\ At(p, "summing")
  /\ Readable(ledger, FingerprintOf(p))
  /\ cmd' = [cmd EXCEPT ![p].pc = "reporting", ![p].report = ledger.records]
  /\ UNCHANGED <<manifest, ledger, summary, started>>

(* ...so that an exception ends the interpreter, with code 1.              *)
SummaryFails(p) ==
  /\ At(p, "summing")
  /\ MayRaise(ledger, FingerprintOf(p))
  /\ Exit(p, 1)

WriteSummary(p) ==
  /\ At(p, "reporting")
  /\ summary' = [records |-> cmd[p].report, before |-> cmd[p].before,
                 new |-> cmd[p].new]
  /\ Succeed(p)
  /\ UNCHANGED <<manifest, ledger, started>>

(* Ctrl-C (130), a kill, or an error: one that a handler of main reports   *)
(* (2) or one that reaches the interpreter, perhaps from the handler's own *)
(* append to the log of fatal errors (1).                                  *)
StopCodes(p) ==
  {130, None, 1}
    \cup IF cmd[p].pc \in {"finding", "locking", "running"} THEN {2} ELSE {}

Stop(p) ==
  /\ ~At(p, "idle")
  /\ \E code \in StopCodes(p) : Exit(p, code)

(* The same in the middle of an append.                                    *)
StopInAppend(p) ==
  /\ At(p, "running")
  /\ \E i \in cmd[p].todo : \E r \in Scored(i) :
       /\ IsNext(p, i)
       /\ \E l \in Torn(ledger, FingerprintOf(p), r) : ledger' = Unlocked(l)
  /\ \E code \in StopCodes(p) :
       cmd' = [cmd EXCEPT ![p] = [Idle EXCEPT !.exit = code]]
  /\ UNCHANGED <<manifest, summary, started>>

Next ==
  \E p \in Commands :
    \/ Start(p) \/ Find(p) \/ ReadPlan(p) \/ ReadPlanFails(p)
    \/ Decline(p) \/ AlreadyComplete(p) \/ Preflight(p) \/ PreflightFails(p)
    \/ ManifestEqual(p) \/ ManifestDiffers(p) \/ ManifestMissing(p)
    \/ WriteManifest(p) \/ Lock(p) \/ LockFails(p)
    \/ Judge(p) \/ RowFails(p) \/ Finish(p)
    \/ ReadSummary(p) \/ SummaryFails(p) \/ WriteSummary(p)
    \/ Stop(p) \/ StopInAppend(p)

Spec == Init /\ [][Next]_vars

----------------------------------------------------------------------------
(* Type correctness; the command that runs, and no other, holds the lock.  *)
TypeOK ==
  /\ manifest \in Manifest \cup {None}
  /\ ledger \in Ledger
  /\ summary \in [records : Seq(Record), before : 0 .. Size, new : Seq(Record)]
                  \cup {None}
  /\ cmd \in [Commands -> Command]
  /\ started \in 0 .. MaxCommands
  /\ \A p \in Commands :
       /\ cmd[p].pc \notin {"idle", "finding"} => cmd[p].config # None
       /\ At(p, "running") <=> ledger.lock = p

(* "Completed rows are durable and will resume on the next identical       *)
(* command", as long as no write was cut short: the ledger holds the first *)
(* rows of the data, each once, although a batch is planned before the     *)
(* lock is taken, and under the fingerprint that any later command finds,  *)
(* from whatever version, although the manifest is written without a lock. *)
LedgerResumable ==
  ledger.file \in {"whole", "bare"} =>
    /\ \A k \in DOMAIN ledger.records : ledger.records[k].row = k
    /\ manifest # None /\ manifest.fingerprint = ledger.header

(* Code 0 means that at least the rows of the confirmed plan, or all rows  *)
(* if there was nothing left to do, have a verdict.                        *)
ExitZeroIsComplete ==
  \A p \in Commands : cmd[p].exit = 0 =>
    Len(ledger.records) >= cmd[p].before + cmd[p].target

(* The summary is about the first records of the ledger, also when others  *)
(* ran between the plan, the run and the summary; the new records of the   *)
(* command are among them, after as many as it counted before.             *)
SummaryTrue ==
  summary # None =>
    /\ Len(summary.records) <= Len(ledger.records)
    /\ \A k \in DOMAIN summary.records : summary.records[k] = ledger.records[k]
    /\ \A k \in DOMAIN summary.new :
         \E j \in DOMAIN summary.records :
           /\ summary.before + k <= j
           /\ summary.records[j] = summary.new[k]

AtMost(a, b) == a[1] * b[2] <= b[1] * a[2]

Equal(a, b) == AtMost(a, b) /\ AtMost(b, a)

(* The records, with a right or a wrong verdict for an inconclusive one.   *)
Decided(records, right) ==
  [k \in DOMAIN records |->
     IF records[k].verdict # "Inconclusive" THEN records[k]
     ELSE [records[k] EXCEPT !.verdict =
             IF Label[records[k].row] = right THEN "Yes" ELSE "No"]]

(* "inconclusive_treatment": "incorrect".  For accuracy and for the rates  *)
(* of both labels an inconclusive verdict counts like a wrong one; for the *)
(* macro F1 score, which has precisions in it, like something between a    *)
(* wrong and a right one, whatever denominators are zero.  No record is    *)
(* lost or counted twice in the metrics of the models.                     *)
InconclusiveIsIncorrect ==
  summary # None =>
    LET s == Summarize(summary.records)
        m == s.aggregate
        wrong == Summarize(Decided(summary.records, FALSE)).aggregate
        right == Summarize(Decided(summary.records, TRUE)).aggregate
    IN  /\ Equal(m.accuracy, wrong.accuracy)
        /\ Equal(m.tpr, wrong.tpr) /\ Equal(m.tnr, wrong.tnr)
        /\ AtMost(wrong.macro_f1, m.macro_f1) /\ AtMost(m.macro_f1, right.macro_f1)
        /\ \A f \in {"records", "correct", "inconclusive"} :
             m[f] = MapThenSumSet(LAMBDA model : s.by_solution_model[model][f],
                                  Sources(summary.records))
=============================================================================
