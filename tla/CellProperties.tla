--------------------------- MODULE CellProperties ---------------------------
(* What EvaluationCell must guarantee.                                     *)
EXTENDS EvaluationCell

(* Type correctness, and the lock is held by the runner inside             *)
(* exclusive_run and by nobody else.                                       *)
TypeOK ==
  /\ file \in Files(Experiment, Problem)
  /\ lock \in Runners \cup {None}
  /\ pc \in [Runners -> Pc]
  /\ args \in [Runners -> Args \cup {None}]
  /\ selected \in [Runners -> Seq(Problem)]
  /\ resumed \in [Runners -> 0 .. MaxItems]
  /\ recorded \in [Runners -> 0 .. MaxItems]
  /\ invoked \in 0 .. MaxInvocations
  /\ pool \in [Runners -> Pool]
  /\ \A r \in Runners : PoolOK(pool[r])
  /\ \A r \in Runners : pc[r] # "idle" => args[r] \in Args
  /\ \A r \in Runners : pc[r] \in Holding <=> lock = r

(* The ledger is in dataset order and no problem is in it twice, through   *)
(* any mixture of batches, parallel evaluations that end in any order,     *)
(* failed samples, failed writes, kills and competing processes.           *)
DatasetOrder ==
  \A i, j \in DOMAIN file.lines :
    i < j /\ SampleAt(file, i) /\ SampleAt(file, j)
      => file.lines[i].id < file.lines[j].id

(* As long as the ledger parses it has no gap either: it holds exactly the *)
(* first problems of the dataset.  A batch can therefore only be the next  *)
(* problems, and an interrupted experiment has lost nothing before its     *)
(* last record.                                                            *)
NoGap ==
  Sound(file) => CompletedIds(file) = 1 .. Cardinality(CompletedIds(file))

(* One file never mixes two experiments, although the header is checked    *)
(* when the file is read and written, if at all, when the first record is  *)
(* appended.                                                               *)
OneExperiment ==
  \A i, j \in DOMAIN file.lines :
    file.lines[i] # Invalid /\ file.lines[j] # Invalid
      => file.lines[i].of = file.lines[j].of

(* The RunSummary agrees with the ledger: what was skipped and what was    *)
(* recorded in this invocation add up to what the file holds.              *)
SummaryAccounts ==
  \A r \in Runners :
    pc[r] = "returning" /\ Sound(file)
      => resumed[r] + recorded[r] = Cardinality(CompletedIds(file))

(* A runner inside the lock never pays for a problem that is already in    *)
(* the ledger.                                                             *)
CompletedNotRerun ==
  [][\A r \in Runners : \A i \in Index :
       lock = r /\ WorkerStart(r, i) => selected[r][i] \notin CompletedIds(file)]_vars

(* A record enters the ledger only as the outcome of its own problem,      *)
(* evaluated by the holder of the lock under the same experiment, and      *)
(* never for a sample that ended in an error.                              *)
OnlySuccessRecorded ==
  [][\A p \in CompletedIds(file') \ CompletedIds(file) :
       \E r \in Runners : \E i \in Index :
         /\ lock = r
         /\ pool[r].call[i] = "evaluated"
         /\ selected[r][i] = p
         /\ \E k \in DOMAIN file'.lines :
              file'.lines[k] = Sample(args[r].experiment, p)]_vars

(* Nothing gets stuck: a process that runs, and a process that holds the   *)
(* lock, can go on by itself.  The main thread never waits for a sample    *)
(* that no thread will evaluate, and the lock is never left with a process *)
(* that is gone or that waits for another one.                             *)
CanGoOn ==
  \A r \in Runners : pc[r] # "idle" \/ lock = r =>
    ENABLED (Step(r) \/ \E i \in Index : WorkerStart(r, i) \/ WorkerEnd(r, i))

(* The cell implements the ledger's promise.                               *)
Promise == INSTANCE Ledger WITH
  Size      <- MaxItems,
  committed <- IF Sound(file) THEN Cardinality(CompletedIds(file)) ELSE 0,
  sound     <- Sound(file)

ImplementsLedger == Promise!Spec

----------------------------------------------------------------------------
(* Stated by the sources, and not true of the code: see the README.        *)

(* "Prevent concurrent runners from selecting the same unfinished          *)
(* samples" (exclusive_run): no problem is selected while another runner   *)
(* is still evaluating it.  A runner interrupted twice ("joining") is left *)
(* out: nobody could expect it to finish its work inside the lock.         *)
UnfinishedSelectedOnce ==
  \A r, s \in Runners :
    r # s /\ "joining" \notin {pc[r], pc[s]} =>
    \A i \in DOMAIN selected[r], j \in DOMAIN selected[s] :
      ~ /\ selected[r][i] = selected[s][j]
        /\ i \in InFlight(pool[r])
        /\ j \in InFlight(pool[s])

(* "Completed samples are durable and will resume on the next identical    *)
(* command": a file that only this program wrote, for this experiment,     *)
(* can be read again.                                                      *)
LedgerReadable == Sound(file)
=============================================================================
