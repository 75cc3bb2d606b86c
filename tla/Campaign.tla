------------------------------ MODULE Campaign ------------------------------
(***************************************************************************)
(* Commands of scripts/run_experiments.py on one output root.  A command   *)
(* plans its cells, then takes them in order: find the directory to resume *)
(* or claim one, ensure its manifest, run a batch on its ledger, write its *)
(* summary.  Several commands may run at once, from different versions of  *)
(* the program, and each may fail, be interrupted or be killed anywhere.   *)
(*                                                                         *)
(* All commands ask for the same cells; a cell is an experiment identity,  *)
(* which leaves the version out.  EvaluationRunner.run is represented by   *)
(* its promise (Ledger, which EvaluationCell implements): under the lock   *)
(* it commits the next samples, or leaves a file that no longer parses.    *)
(***************************************************************************)
EXTENDS Integers, Sequences

CONSTANTS
  Commands,     (* processes                                              *)
  Versions,     (* runner revisions: in the manifest, not in the identity *)
  None,         (* no command, no version, no exit code                   *)
  NumCells,     (* cells of the matrix: repeats x methods x datasets      *)
  Size,         (* problems of a dataset                                  *)
  Batches,      (* --batch-size; Size or more stands for "all"            *)
  MaxCommands   (* commands started (bound)                               *)

ASSUME CampaignAssumption ==
  /\ None \notin Commands \cup Versions
  /\ None \notin Nat
  /\ NumCells \in Nat \ {0}
  /\ Size \in Nat
  /\ Batches \subseteq Nat \ {0}
  /\ MaxCommands \in Nat

Cells == 1 .. NumCells

VARIABLES
  dirs,      (* for each cell its directories, in order of creation       *)
  cmd,       (* the state of each command, see Command                    *)
  started    (* commands started so far                                   *)

vars == <<dirs, cmd, started>>

(* manifest   experiment.json                                              *)
(* header     the version in the ledger's header                           *)
(* done       samples in the ledger                                        *)
(* file       "bare": the last line lacks its newline; "broken": some line *)
(*            does not parse                                               *)
(* lock       who holds the ledger's lock                                  *)
(* summary    the records counted by summary.json                          *)
Dir == [manifest : Versions \cup {None}, header : Versions \cup {None},
        done : 0 .. Size, file : {"whole", "bare", "broken"},
        lock : Commands \cup {None}, summary : 0 .. Size]

NewDir == [manifest |-> None, header |-> None, done |-> 0, file |-> "whole",
           lock |-> None, summary |-> 0]

(* Inside a cell, in this order; "claiming" to "writing" may be skipped.   *)
InDir == {"ensuring", "writing", "counting", "locking", "running", "summing",
          "reporting"}
InCell == {"finding", "claiming", "creating"} \cup InDir
Pc == {"idle", "planning", "preflight"} \cup InCell

(* planned    what each cell has in sample_count, shown before it starts   *)
(* cell, dir  the cell it is at and the directory it uses for it           *)
(* config     the version in its manifest_configuration                    *)
(* goal       samples the ledger will have after its batch                 *)
(* seen       samples it last counted outside the ledger's lock            *)
(* new        samples it has recorded in this cell                         *)
(* exit       how it ended: its code, or None if it was killed or runs     *)
Command ==
  [pc : Pc, version : Versions \cup {None}, batch : Nat,
   planned : [Cells -> 0 .. Size], cell : 0 .. NumCells, dir : Nat,
   config : Versions \cup {None},
   goal : 0 .. Size, seen : 0 .. Size, new : 0 .. Size,
   exit : {0, 1, 2, 130, None}]

Idle ==
  [pc |-> "idle", version |-> None, batch |-> 0,
   planned |-> [c \in Cells |-> 0], cell |-> 0, dir |-> 0, config |-> None,
   goal |-> 0, seen |-> 0, new |-> 0, exit |-> None]

Init ==
  /\ dirs = [c \in Cells |-> <<>>]
  /\ cmd = [p \in Commands |-> Idle]
  /\ started = 0

Lesser(m, n) == IF m < n THEN m ELSE n

At(p, label) == cmd[p].pc = label

(* The directory a command works in.                                       *)
Here(p) == dirs[cmd[p].cell][cmd[p].dir]

Put(p, d) == dirs' = [dirs EXCEPT ![cmd[p].cell][cmd[p].dir] = d]

(* Defect: a lock file, which outlives the process that made it.           *)
StillLocked(d) == d

(* The lock is a flock.                                                    *)
Unlocked(d) == [d EXCEPT !.lock = None]

(* The process ends; a lock it holds is released.                          *)
Exit(p, code) ==
  /\ cmd' = [cmd EXCEPT ![p] = [Idle EXCEPT !.exit = code]]
  /\ IF At(p, "running") THEN Put(p, Unlocked(Here(p))) ELSE UNCHANGED dirs
  /\ UNCHANGED started

(***************************************************************************)
(* Choosing the directory                                                  *)
(***************************************************************************)
(* Directories are found by their manifest.                                *)
Matches(c) == {k \in DOMAIN dirs[c] : dirs[c][k].manifest # None}

Sound(d) == d.file # "broken"

(* A ledger read outside its lock may be caught in the middle of an append *)
MayRaise(d) == ~Sound(d) \/ d.lock # None

(* The one with most samples; with a tie there is none.                    *)
IsBest(c, k) ==
  /\ k \in Matches(c)
  /\ \A j \in Matches(c) \ {k} : dirs[c][j].done < dirs[c][k].done

(* _find_resume_experiment returns a directory or None...                  *)
CanResume(c) ==
  /\ \A k \in Matches(c) : Sound(dirs[c][k])
  /\ Matches(c) # {} => \E k \in Matches(c) : IsBest(c, k)

(* ...or raises.                                                           *)
ResumeMayRaise(c) ==
  ~CanResume(c) \/ \E k \in Matches(c) : MayRaise(dirs[c][k])

Completed(c) ==
  IF Matches(c) = {} THEN 0 ELSE dirs[c][CHOOSE k \in Matches(c) : IsBest(c, k)].done

Target(c, size) == Lesser(size, Size - Completed(c))

(***************************************************************************)
(* Before the first cell                                                   *)
(***************************************************************************)
Start(p) ==
  /\ At(p, "idle")
  /\ started < MaxCommands
  /\ started' = started + 1
  /\ \E v \in Versions, size \in Batches :
       cmd' = [cmd EXCEPT ![p] =
                 [Idle EXCEPT !.pc = "planning", !.version = v, !.batch = size]]
  /\ UNCHANGED dirs

Plan(p) ==
  /\ At(p, "planning")
  /\ \A c \in Cells : CanResume(c)
  /\ cmd' = [cmd EXCEPT ![p].pc = "preflight",
                        ![p].planned = [c \in Cells |-> Target(c, cmd[p].batch)]]
  /\ UNCHANGED <<dirs, started>>

(* "Resume validation failed"                                              *)
PlanFails(p) ==
  /\ At(p, "planning")
  /\ \E c \in Cells : ResumeMayRaise(c)
  /\ Exit(p, 2)

(* --dry-run, or a plan that is not confirmed.                             *)
Decline(p) == At(p, "preflight") /\ Exit(p, 0)

PreflightFails(p) == At(p, "preflight") /\ Exit(p, 2)

Enter(p, c) ==
  cmd' = [cmd EXCEPT ![p].pc = "finding", ![p].cell = c, ![p].dir = 0,
                     ![p].config = None, ![p].goal = 0, ![p].seen = 0,
                     ![p].new = 0]

Preflight(p) ==
  /\ At(p, "preflight")
  /\ Enter(p, 1)
  /\ UNCHANGED <<dirs, started>>

(***************************************************************************)
(* One cell                                                                *)
(***************************************************************************)
Use(p, k, v) ==
  cmd' = [cmd EXCEPT ![p].pc = "ensuring", ![p].dir = k, ![p].config = v]

FindNone(p) ==
  /\ At(p, "finding")
  /\ Matches(cmd[p].cell) = {}
  /\ cmd' = [cmd EXCEPT ![p].pc = "claiming"]
  /\ UNCHANGED <<dirs, started>>

(* The stored configuration is used, not the one of this command.          *)
FindOne(p) ==
  /\ At(p, "finding")
  /\ CanResume(cmd[p].cell)
  /\ \E k \in Matches(cmd[p].cell) :
       /\ IsBest(cmd[p].cell, k)
       /\ Use(p, k, dirs[cmd[p].cell][k].manifest)
  /\ UNCHANGED <<dirs, started>>

FindFails(p) ==
  /\ At(p, "finding")
  /\ ResumeMayRaise(cmd[p].cell)
  /\ Exit(p, 2)

(* find_existing goes by the fingerprint in the name: a directory that has *)
(* no manifest yet is found too.                                           *)
Existing(p) == Len(dirs[cmd[p].cell])

Look(p) ==
  /\ At(p, "claiming")
  /\ Existing(p) = 0
  /\ cmd' = [cmd EXCEPT ![p].pc = "creating"]
  /\ UNCHANGED <<dirs, started>>

(* More than one would raise; OneDirectory says that there never is.      *)
UseExisting(p) ==
  /\ At(p, "claiming") \/ At(p, "creating")
  /\ Existing(p) = 1
  /\ Use(p, 1, cmd[p].version)
  /\ UNCHANGED <<dirs, started>>

(* Defect: no second look once the directory lock is held.                 *)
CreateUnseen(p) ==
  /\ At(p, "creating")
  /\ dirs' = [dirs EXCEPT ![cmd[p].cell] = Append(@, NewDir)]
  /\ Use(p, Existing(p) + 1, cmd[p].version)
  /\ UNCHANGED started

(* The second look and mkdir, both under the directory lock.               *)
Create(p) ==
  /\ At(p, "creating")
  /\ Existing(p) = 0
  /\ dirs' = [dirs EXCEPT ![cmd[p].cell] = Append(@, NewDir)]
  /\ Use(p, 1, cmd[p].version)
  /\ UNCHANGED started

GoTo(p, label) == cmd' = [cmd EXCEPT ![p].pc = label]

(* ensure_experiment_manifest: compare if it exists, else write it, in two *)
(* steps that no lock joins.                                               *)
ManifestEqual(p) ==
  /\ At(p, "ensuring")
  /\ Here(p).manifest = cmd[p].config
  /\ GoTo(p, "counting")
  /\ UNCHANGED <<dirs, started>>

ManifestDiffers(p) ==
  /\ At(p, "ensuring")
  /\ Here(p).manifest \notin {None, cmd[p].config}
  /\ Exit(p, 2)

ManifestMissing(p) ==
  /\ At(p, "ensuring")
  /\ Here(p).manifest = None
  /\ GoTo(p, "writing")
  /\ UNCHANGED <<dirs, started>>

WriteManifest(p) ==
  /\ At(p, "writing")
  /\ Put(p, [Here(p) EXCEPT !.manifest = cmd[p].config])
  /\ GoTo(p, "counting")
  /\ UNCHANGED started

(* completed_problem_ids does not raise.                                   *)
Accepts(p) == Sound(Here(p)) /\ Here(p).header \in {None, cmd[p].config}

(* completed_before, read outside the lock.                                *)
CountBefore(p) ==
  /\ At(p, "counting")
  /\ Accepts(p)
  /\ cmd' = [cmd EXCEPT ![p].pc = "locking", ![p].seen = Here(p).done]
  /\ UNCHANGED <<dirs, started>>

CountFails(p) ==
  /\ At(p, "counting")
  /\ ~Accepts(p) \/ MayRaise(Here(p))
  /\ Exit(p, 2)

(* Defect: `batch_size' is not passed on.                                  *)
LockForAll(p) ==
  /\ At(p, "locking")
  /\ Here(p).lock = None
  /\ Accepts(p)
  /\ Put(p, [Here(p) EXCEPT !.lock = p])
  /\ cmd' = [cmd EXCEPT ![p].pc = "running", ![p].goal = Size]
  /\ UNCHANGED started

(* EvaluationRunner.run: the lock, and the selection of the batch.         *)
Lock(p) ==
  /\ At(p, "locking")
  /\ Here(p).lock = None
  /\ Accepts(p)
  /\ Put(p, [Here(p) EXCEPT !.lock = p])
  /\ cmd' = [cmd EXCEPT ![p].pc = "running",
                        ![p].goal = Lesser(Here(p).done + cmd[p].batch, Size)]
  /\ UNCHANGED started

(* Another process holds the lock, or the ledger is rejected.              *)
LockFails(p) ==
  /\ At(p, "locking")
  /\ Here(p).lock # None \/ ~Accepts(p)
  /\ Exit(p, 2)

(* A sample with its newline; it breaks a line that was left without.      *)
Appended(d, v) ==
  [d EXCEPT !.done = @ + 1, !.header = v,
            !.file = IF @ = "whole" THEN "whole" ELSE "broken"]

(* An append cut short: the header alone, all but the newline, or a line   *)
(* that does not parse.                                                    *)
Torn(d, v) ==
  {[d EXCEPT !.file = "broken"]} \cup
  IF d.file # "whole" THEN {}
  ELSE {[d EXCEPT !.header = v, !.file = f] : f \in {"whole", "bare"}}
         \cup {[d EXCEPT !.header = v, !.done = @ + 1, !.file = "bare"]}

Commit(p) ==
  /\ At(p, "running")
  /\ Here(p).done < cmd[p].goal
  /\ Put(p, Appended(Here(p), cmd[p].config))
  /\ cmd' = [cmd EXCEPT ![p].new = @ + 1]
  /\ UNCHANGED started

(* Defect: a cell whose sample fails is left, and the matrix goes on.      *)
SampleFailsGoOn(p) ==
  /\ At(p, "running")
  /\ Here(p).done < cmd[p].goal
  /\ Put(p, Unlocked(Here(p)))
  /\ GoTo(p, "summing")
  /\ UNCHANGED started

(* "Experiment stopped at the first failed sample."                        *)
SampleFails(p) ==
  /\ At(p, "running")
  /\ Here(p).done < cmd[p].goal
  /\ Exit(p, 1)

Finish(p) ==
  /\ At(p, "running")
  /\ Here(p).done = cmd[p].goal
  /\ Put(p, Unlocked(Here(p)))
  /\ GoTo(p, "summing")
  /\ UNCHANGED started

(* Defect: the records counted before the run are reported.                *)
ReadBefore(p) ==
  /\ At(p, "summing")
  /\ GoTo(p, "reporting")
  /\ UNCHANGED <<dirs, started>>

(* summarize_records(store.read()), outside the lock.                      *)
ReadSummary(p) ==
  /\ At(p, "summing")
  /\ Sound(Here(p))
  /\ cmd' = [cmd EXCEPT ![p].pc = "reporting", ![p].seen = Here(p).done]
  /\ UNCHANGED <<dirs, started>>

SummaryFails(p) ==
  /\ At(p, "summing")
  /\ MayRaise(Here(p))
  /\ Exit(p, 2)

(* atomic_write_json of the summary, and on to the next cell or the end.   *)
WriteSummary(p) ==
  /\ At(p, "reporting")
  /\ Put(p, [Here(p) EXCEPT !.summary = cmd[p].seen])
  /\ IF cmd[p].cell < NumCells
     THEN Enter(p, cmd[p].cell + 1)
     ELSE cmd' = [cmd EXCEPT ![p] =
                    [Idle EXCEPT !.exit = 0, !.batch = cmd[p].batch]]
  /\ UNCHANGED started

(***************************************************************************)
(* Anything else: an error (2), Ctrl-C (130), a kill, perhaps in an append *)
(***************************************************************************)
Stop(p) ==
  /\ ~At(p, "idle")
  /\ \E code \in {2, 130, None} : Exit(p, code)

StopInAppend(p) ==
  /\ At(p, "running")
  /\ Here(p).done < cmd[p].goal
  /\ \E d \in Torn(Here(p), cmd[p].config) : Put(p, Unlocked(d))
  /\ \E code \in {2, 130, None} :
       cmd' = [cmd EXCEPT ![p] = [Idle EXCEPT !.exit = code]]
  /\ UNCHANGED started

Step(p) ==
  \/ Plan(p) \/ PlanFails(p) \/ Preflight(p) \/ PreflightFails(p)
  \/ FindNone(p) \/ FindOne(p) \/ FindFails(p)
  \/ Look(p) \/ UseExisting(p) \/ Create(p)
  \/ ManifestEqual(p) \/ ManifestDiffers(p) \/ ManifestMissing(p)
  \/ WriteManifest(p) \/ CountBefore(p) \/ CountFails(p)
  \/ Lock(p) \/ LockFails(p) \/ Commit(p) \/ SampleFails(p) \/ Finish(p)
  \/ ReadSummary(p) \/ SummaryFails(p) \/ WriteSummary(p)

Next ==
  \E p \in Commands :
    Start(p) \/ Decline(p) \/ Step(p) \/ Stop(p) \/ StopInAppend(p)

Spec == Init /\ [][Next]_vars

----------------------------------------------------------------------------
(* Type correctness; a command is in an existing directory of its cell     *)
(* from the claim on, and the ledger's lock is held by the command that    *)
(* runs on it.                                                             *)
TypeOK ==
  /\ dirs \in [Cells -> Seq(Dir)]
  /\ cmd \in [Commands -> Command]
  /\ started \in 0 .. MaxCommands
  /\ \A p \in Commands :
       /\ cmd[p].pc \in InCell => cmd[p].cell \in Cells
       /\ cmd[p].pc \in InDir => cmd[p].dir \in DOMAIN dirs[cmd[p].cell]
       /\ At(p, "running") => Here(p).lock = p
  /\ \A c \in Cells : \A k \in DOMAIN dirs[c] : \A p \in Commands :
       dirs[c][k].lock = p
         => At(p, "running") /\ cmd[p].cell = c /\ cmd[p].dir = k

(* An experiment identity has one directory, however many commands look    *)
(* for it at once, die between creating it and writing its manifest, or    *)
(* come from another version of the program: progress is never split.      *)
OneDirectory == \A c \in Cells : Len(dirs[c]) <= 1

(* Exit code 0 means what it says: every cell of the matrix has at least   *)
(* the samples of one batch, all of them for --batch-size all.  A dry run  *)
(* and a plan that was declined also end with 0, but promise nothing: they *)
(* are excluded here because they end with batch = 0.                      *)
ExitZeroIsComplete ==
  \A p \in Commands : cmd[p].exit = 0 /\ cmd[p].batch > 0 =>
    \A c \in Cells : \E k \in DOMAIN dirs[c] :
      dirs[c][k].done >= Lesser(cmd[p].batch, Size)

(* summary.json is computed outside the lock.  Still it never counts a     *)
(* record that is not in the ledger, and the one a command is about to     *)
(* write counts all the records of its own run.                            *)
SummaryBracketed ==
  /\ \A c \in Cells : \A k \in DOMAIN dirs[c] :
       dirs[c][k].summary <= dirs[c][k].done
  /\ \A p \in Commands : At(p, "reporting") =>
       cmd[p].goal <= cmd[p].seen /\ cmd[p].seen <= Here(p).done

(* "The confirmation screen reports only the maximum number of new         *)
(* samples" (docs/running_experiments.md): in no cell does a command evaluate  *)
(* more than it announced, whatever others do between its plan and then.   *)
PlanIsMaximum ==
  \A p \in Commands :
    cmd[p].pc \in InCell => cmd[p].new <= cmd[p].planned[cmd[p].cell]

----------------------------------------------------------------------------
(* Stated by docs/running_experiments.md, and not true of the code: an     *)
(* unrelated documentation commit "does not invalidate existing progress". *)
(* A ledger is accepted only under the version of its header, and resumed  *)
(* under the version of its manifest.                                      *)
ProgressResumable ==
  \A c \in Cells : \A k \in DOMAIN dirs[c] :
    Sound(dirs[c][k]) /\ dirs[c][k].header # None
      => dirs[c][k].header = dirs[c][k].manifest
=============================================================================
