---------------------------- MODULE AFlowSearch -----------------------------
(***************************************************************************)
(* Search mode of scripts/run_aflow.py on one search directory.  Round 0   *)
(* is the tracked initial workflow; each further round asks the optimizer  *)
(* for one more.  A candidate is evaluated on the validation split, in a   *)
(* ledger of its own, and the best one is frozen in workflow.json.         *)
(*                                                                         *)
(* A search keeps its candidates in memory and writes all of them to       *)
(* search_state.json after each change.  It may be killed, fail or be      *)
(* started again at any point, also while another search of the same       *)
(* directory runs: only the ledgers have locks.                            *)
(*                                                                         *)
(* The directory and its manifest are found and made as in Campaign.       *)
(***************************************************************************)
EXTENDS Integers, Sequences, FiniteSets

CONSTANTS
  Searches,     (* processes                                              *)
  Workflows,    (* workflows that pass validate_workflow                  *)
  Initial,      (* the tracked one                                        *)
  Calls,        (* maximum of workflow_call_bounds, for each workflow     *)
  Nodes,        (* how many nodes it has                                  *)
  Rounds,       (* --search-rounds                                        *)
  Size,         (* problems of the validation split                       *)
  None,
  MaxSearches   (* searches started (bound)                               *)

ASSUME AFlowAssumption ==
  /\ Initial \in Workflows
  /\ Calls \in [Workflows -> Nat]
  /\ Nodes \in [Workflows -> Nat]
  /\ Rounds \in Nat
  /\ Size \in Nat \ {0}
  /\ None \notin Workflows \cup Searches \cup Nat
  /\ MaxSearches \in Nat

VARIABLES
  saved,     (* the candidates in search_state.json; <<>>: no such file   *)
  ledgers,   (* candidates/round-*/records.jsonl, by round                *)
  frozen,    (* what workflow.json says, None if it does not exist        *)
  search,    (* the state of each search                                  *)
  started,   (* searches started so far                                   *)
  alone      (* no two searches have run at once so far (history)         *)

vars == <<saved, ledgers, frozen, search, started, alone>>

(* correct    samples scored as correct, None before its evaluation: the   *)
(*            accuracy, as every ledger ends up with Size samples          *)
Candidate == [workflow : Workflows, correct : 0 .. Size \cup {None}]

(* header     the workflow whose digest is in the experiment id            *)
(* scores     for each sample, whether it is correct                       *)
(* file       as in Campaign                                               *)
Ledger == [header : Workflows \cup {None}, scores : Seq(BOOLEAN),
           file : {"whole", "bare", "broken"}, lock : Searches \cup {None}]

Frozen == [workflow : Workflows, correct : 0 .. Size, round : 0 .. Rounds]

Pc == {"idle", "loading", "creating", "deciding", "locking", "evaluating",
       "reading", "freezing"}

(* memory     its candidates; that of round r has index r + 1              *)
Search == [pc : Pc, memory : Seq(Candidate), round : 0 .. Rounds + 1]

Idle == [pc |-> "idle", memory |-> <<>>, round |-> 0]

Unevaluated(w) == [workflow |-> w, correct |-> None]

Evaluated(c) == c.correct # None

Init ==
  /\ saved = <<>>
  /\ ledgers = [r \in 0 .. Rounds |->
                  [header |-> None, scores |-> <<>>, file |-> "whole", lock |-> None]]
  /\ frozen = None
  /\ search = [p \in Searches |-> Idle]
  /\ started = 0
  /\ alone = TRUE

At(p, label) == search[p].pc = label

Memory(p) == search[p].memory

(* The candidate and the ledger of its round.                              *)
Current(p) == Memory(p)[search[p].round + 1]
Records(p) == ledgers[search[p].round]

GoTo(p, label) == search' = [search EXCEPT ![p].pc = label]

Write(p, l) == ledgers' = [ledgers EXCEPT ![search[p].round] = l]

Begin(p) ==
  /\ At(p, "idle")
  /\ started < MaxSearches
  /\ started' = started + 1
  /\ GoTo(p, "loading")
  /\ alone' = (alone /\ \A q \in Searches : At(q, "idle"))
  /\ UNCHANGED <<saved, ledgers, frozen>>

(***************************************************************************)
(* search_state.json is read once, or made                                 *)
(***************************************************************************)
Load(p) ==
  /\ At(p, "loading")
  /\ saved # <<>>
  /\ search' = [search EXCEPT ![p].pc = "deciding", ![p].memory = saved]
  /\ UNCHANGED <<saved, ledgers, frozen, started, alone>>

LoadNothing(p) ==
  /\ At(p, "loading")
  /\ saved = <<>>
  /\ search' = [search EXCEPT ![p].pc = "creating",
                              ![p].memory = <<Unevaluated(Initial)>>]
  /\ UNCHANGED <<saved, ledgers, frozen, started, alone>>

SaveInitial(p) ==
  /\ At(p, "creating")
  /\ saved' = Memory(p)
  /\ GoTo(p, "deciding")
  /\ UNCHANGED <<ledgers, frozen, started, alone>>

(***************************************************************************)
(* One round                                                               *)
(***************************************************************************)
Deciding(p) == At(p, "deciding") /\ search[p].round <= Rounds

Skip(p) ==
  /\ Deciding(p)
  /\ search[p].round < Len(Memory(p))
  /\ Evaluated(Current(p))
  /\ search' = [search EXCEPT ![p].round = @ + 1]
  /\ UNCHANGED <<saved, ledgers, frozen, started, alone>>

Resume(p) ==
  /\ Deciding(p)
  /\ search[p].round < Len(Memory(p))
  /\ ~Evaluated(Current(p))
  /\ GoTo(p, "locking")
  /\ UNCHANGED <<saved, ledgers, frozen, started, alone>>

(* Defect: the candidate is written only with its accuracy.                *)
ProposeUnsaved(p) ==
  /\ Deciding(p)
  /\ search[p].round = Len(Memory(p))
  /\ \E w \in Workflows :
       search' = [search EXCEPT ![p].pc = "locking",
                                ![p].memory = Append(@, Unevaluated(w))]
  /\ UNCHANGED <<saved, ledgers, frozen, started, alone>>

(* The optimizer's answer, written before it is evaluated.                 *)
Propose(p) ==
  /\ Deciding(p)
  /\ search[p].round = Len(Memory(p))
  /\ \E w \in Workflows :
       LET grown == Append(Memory(p), Unevaluated(w))
       IN  /\ search' = [search EXCEPT ![p].pc = "locking", ![p].memory = grown]
           /\ saved' = grown
  /\ UNCHANGED <<ledgers, frozen, started, alone>>

(* Defect: the digest of the workflow is not in the experiment id.         *)
AcceptsAny(l, w) == l.file # "broken"

(* completed_problem_ids does not raise.                                   *)
Accepts(l, w) == l.file # "broken" /\ l.header \in {None, w}

(* EvaluationRunner.run takes the lock, or else the search fails.          *)
Lock(p) ==
  /\ At(p, "locking")
  /\ Records(p).lock = None
  /\ Accepts(Records(p), Current(p).workflow)
  /\ Write(p, [Records(p) EXCEPT !.lock = p])
  /\ GoTo(p, "evaluating")
  /\ UNCHANGED <<saved, frozen, started, alone>>

Pending(p) == At(p, "evaluating") /\ Len(Records(p).scores) < Size

Appended(l, w, score) ==
  [l EXCEPT !.header = w, !.scores = Append(@, score),
            !.file = IF @ = "whole" THEN "whole" ELSE "broken"]

Commit(p) ==
  /\ Pending(p)
  /\ \E score \in BOOLEAN : Write(p, Appended(Records(p), Current(p).workflow, score))
  /\ UNCHANGED <<saved, frozen, search, started, alone>>

(* Defect: a lock that outlives the run.                                   *)
StillLocked(l) == l
Unlocked(l) == [l EXCEPT !.lock = None]

(* Defect: --batch-size is passed on.                                      *)
FinishBatch(p) ==
  /\ At(p, "evaluating")
  /\ Records(p).scores # <<>>
  /\ Write(p, Unlocked(Records(p)))
  /\ GoTo(p, "reading")
  /\ UNCHANGED <<saved, frozen, started, alone>>

Finish(p) ==
  /\ At(p, "evaluating")
  /\ ~Pending(p)
  /\ Write(p, Unlocked(Records(p)))
  /\ GoTo(p, "reading")
  /\ UNCHANGED <<saved, frozen, started, alone>>

(* summarize_records, of a ledger that is read after its lock is released. *)
CorrectIn(l) == Cardinality({i \in DOMAIN l.scores : l.scores[i]})

Record(p) ==
  /\ At(p, "reading")
  /\ Records(p).file # "broken"
  /\ LET known == [Memory(p) EXCEPT ![search[p].round + 1].correct =
                     CorrectIn(Records(p))]
     IN  /\ search' = [search EXCEPT ![p].pc = "deciding", ![p].memory = known,
                                     ![p].round = @ + 1]
         /\ saved' = known
  /\ UNCHANGED <<ledgers, frozen, started, alone>>

(***************************************************************************)
(* The best candidate                                                      *)
(***************************************************************************)
(* Defect: equal accuracies are not told apart.                            *)
MoreCorrect(c, d) == c.correct > d.correct

(* candidate_rank, of candidates that are evaluated.                       *)
Better(c, d) ==
  \/ c.correct > d.correct
  \/ /\ c.correct = d.correct
     /\ \/ Calls[c.workflow] < Calls[d.workflow]
        \/ /\ Calls[c.workflow] = Calls[d.workflow]
           /\ Nodes[c.workflow] < Nodes[d.workflow]

(* max() takes the first of equals.                                        *)
IsBest(cs, k) ==
  /\ k \in DOMAIN cs
  /\ \A j \in DOMAIN cs : ~Better(cs[j], cs[k]) /\ (j < k => Better(cs[k], cs[j]))

(* The state is written once more before workflow.json is.                 *)
Complete(p) ==
  /\ At(p, "deciding")
  /\ search[p].round = Rounds + 1
  /\ saved' = Memory(p)
  /\ GoTo(p, "freezing")
  /\ UNCHANGED <<ledgers, frozen, started, alone>>

Freeze(p) ==
  /\ At(p, "freezing")
  /\ \E k \in DOMAIN Memory(p) :
       /\ IsBest(Memory(p), k)
       /\ frozen' = [workflow |-> Memory(p)[k].workflow,
                     correct |-> Memory(p)[k].correct, round |-> k - 1]
  /\ search' = [search EXCEPT ![p] = Idle]
  /\ UNCHANGED <<saved, ledgers, started, alone>>

(***************************************************************************)
(* A search that ends before that: an API call that fails, a proposal that *)
(* is not a workflow, a ledger that is locked or not its own, a sample     *)
(* that fails, Ctrl-C or a kill, perhaps in the middle of an append        *)
(***************************************************************************)
Stop(p) ==
  /\ ~At(p, "idle")
  /\ search' = [search EXCEPT ![p] = Idle]
  /\ IF At(p, "evaluating") THEN Write(p, Unlocked(Records(p))) ELSE UNCHANGED ledgers
  /\ UNCHANGED <<saved, frozen, started, alone>>

Torn(l, w) ==
  {[l EXCEPT !.file = "broken"]} \cup
  IF l.file # "whole" THEN {}
  ELSE {[l EXCEPT !.header = w, !.file = f] : f \in {"whole", "bare"}}
         \cup {[l EXCEPT !.header = w, !.scores = Append(@, b), !.file = "bare"] :
                 b \in BOOLEAN}

StopInAppend(p) ==
  /\ Pending(p)
  /\ \E l \in Torn(Records(p), Current(p).workflow) : Write(p, Unlocked(l))
  /\ search' = [search EXCEPT ![p] = Idle]
  /\ UNCHANGED <<saved, frozen, started, alone>>

Next ==
  \E p \in Searches :
    \/ Begin(p) \/ Load(p) \/ LoadNothing(p) \/ SaveInitial(p)
    \/ Skip(p) \/ Resume(p) \/ Propose(p)
    \/ Lock(p) \/ Commit(p) \/ Finish(p) \/ Record(p)
    \/ Complete(p) \/ Freeze(p)
    \/ Stop(p) \/ StopInAppend(p)

Spec == Init /\ [][Next]_vars

----------------------------------------------------------------------------
(* Type correctness; a search past the initial state has a candidate for   *)
(* every round before its own, all evaluated, and its ledger's lock while  *)
(* it evaluates.                                                           *)
TypeOK ==
  /\ saved \in Seq(Candidate)
  /\ ledgers \in [0 .. Rounds -> Ledger]
  /\ \A r \in 0 .. Rounds : Len(ledgers[r].scores) <= Size
  /\ frozen \in Frozen \cup {None}
  /\ search \in [Searches -> Search]
  /\ started \in 0 .. MaxSearches
  /\ alone \in BOOLEAN
  /\ \A p \in Searches :
       /\ \A k \in 1 .. search[p].round : k \in DOMAIN Memory(p) /\ Evaluated(Memory(p)[k])
       /\ search[p].pc \in {"locking", "evaluating", "reading"} =>
            search[p].round < Len(Memory(p))
       /\ \A r \in 0 .. Rounds :
            ledgers[r].lock = p <=> At(p, "evaluating") /\ search[p].round = r

Earned(cs) ==
  \A k \in DOMAIN cs : Evaluated(cs[k]) =>
    /\ ledgers[k - 1].header = cs[k].workflow
    /\ Len(ledgers[k - 1].scores) = Size
    /\ cs[k].correct = CorrectIn(ledgers[k - 1])

(* An accuracy in search_state.json, or in the memory of any search, is    *)
(* that of the candidate's own workflow over the whole validation split,   *)
(* even when searches that proposed different workflows for the same round *)
(* overwrite each other's state.                                           *)
AccuracyIsEarned == Earned(saved) /\ \A p \in Searches : Earned(Memory(p))

(* "The selected workflow maximizes validation accuracy, with fewer model  *)
(* calls and fewer nodes used as tie-breakers": over the ledgers of all    *)
(* rounds, not only over the candidates the freezing search remembered.    *)
FrozenIsBest ==
  frozen # None =>
    LET found == [k \in 1 .. Rounds + 1 |->
                    [workflow |-> ledgers[k - 1].header,
                     correct |-> CorrectIn(ledgers[k - 1])]]
        k == frozen.round + 1
    IN  /\ \A r \in 0 .. Rounds : Len(ledgers[r].scores) = Size
        /\ frozen.workflow = found[k].workflow /\ frozen.correct = found[k].correct
        /\ \A j \in DOMAIN found :
             /\ found[j].correct <= found[k].correct
             /\ found[j].correct = found[k].correct =>
                  LET calls(i) == Calls[found[i].workflow]
                      nodes(i) == Nodes[found[i].workflow]
                  IN  /\ calls(k) <= calls(j)
                      /\ calls(j) = calls(k) => nodes(k) <= nodes(j)

(* A search that ends after another one freezes the same workflow: tests   *)
(* that name workflow.json never change what they test.                    *)
FrozenStable == [][frozen # None => frozen' = frozen]_vars

(* As long as searches do not overlap, one that is killed anywhere can be  *)
(* resumed: no ledger belongs to a workflow the state does not record.     *)
ResumableAlone ==
  alone => \A r \in 0 .. Rounds : ledgers[r].header # None =>
    r < Len(saved) /\ ledgers[r].header = saved[r + 1].workflow
=============================================================================
