------------------------- MODULE AFlowSearchProofs --------------------------
(***************************************************************************)
(* Proofs about AFlowSearch, for any number of searches, rounds, problems  *)
(* and workflows.  A step is the step of one search p.  Evolves says what  *)
(* it may do to the ledgers: what is full stays as it is, and what another *)
(* search has locked is not touched.  Lemma Others shows once that this    *)
(* keeps what is known of every other search.                              *)
(*                                                                         *)
(* The parts of the invariant are operators of the ledgers ls and of the   *)
(* state m of a search, so that one lemma serves for both states of a      *)
(* step.                                                                   *)
(***************************************************************************)
EXTENDS AFlowSearch, FiniteSetTheorems, SequenceTheorems, NaturalsInduction,
        WellFoundedInduction, TLAPS

Round == 0 .. Rounds

Full(l) == Len(l.scores) = Size

(* Earned, of given ledgers.                                               *)
EarnedIn(ls, cs) ==
  \A k \in DOMAIN cs : Evaluated(cs[k]) =>
    /\ Full(ls[k - 1])
    /\ ls[k - 1].header = cs[k].workflow
    /\ cs[k].correct = CorrectIn(ls[k - 1])

Candidates(ls, cs) ==
  /\ cs \in Seq(Candidate)
  /\ Len(cs) <= Rounds + 1
  /\ EarnedIn(ls, cs)

InRound == {"locking", "evaluating", "reading"}

(* What holds of the search p in state m.  While it evaluates, the header  *)
(* of its ledger is that of its own workflow or none; when it reads, the   *)
(* ledger is full.                                                         *)
SearchOK(ls, p, m) ==
  /\ m \in Search
  /\ Candidates(ls, m.memory)
  /\ \A k \in 1 .. m.round : k \in DOMAIN m.memory /\ Evaluated(m.memory[k])
  /\ m.pc \in {"idle", "loading", "creating"} => m.round = 0
  /\ m.pc \in InRound => m.round < Len(m.memory)
  /\ m.pc = "freezing" => m.round = Rounds + 1
  /\ \A r \in Round : ls[r].lock = p <=> m.pc = "evaluating" /\ m.round = r
  /\ m.pc = "evaluating" =>
       ls[m.round].header \in {None, m.memory[m.round + 1].workflow}
  /\ m.pc = "reading" =>
       /\ Full(ls[m.round])
       /\ ls[m.round].header = m.memory[m.round + 1].workflow

LedgerOK(l) ==
  /\ l \in Ledger
  /\ Len(l.scores) <= Size
  /\ l.header = None => l.scores = <<>>

LedgersOK(ls) ==
  /\ ls \in [Round -> Ledger]
  /\ \A r \in Round : LedgerOK(ls[r])

(* What the full ledgers of all rounds say.                                *)
Found(ls) ==
  [k \in 1 .. Rounds + 1 |->
     [workflow |-> ls[k - 1].header, correct |-> CorrectIn(ls[k - 1])]]

(* The frozen workflow is the best of them; that makes it unique.          *)
FrozenOK(ls, f) ==
  /\ f \in Frozen \cup {None}
  /\ f # None =>
       /\ \A r \in Round : Full(ls[r])
       /\ IsBest(Found(ls), f.round + 1)
       /\ f.workflow = Found(ls)[f.round + 1].workflow
       /\ f.correct = Found(ls)[f.round + 1].correct

(* The ledgers belong to the workflows of cs.                              *)
Recorded(ls, cs) ==
  \A r \in Round : ls[r].header # None =>
    r < Len(cs) /\ ls[r].header = cs[r + 1].workflow

Fresh == <<Unevaluated(Initial)>>

(* While searches have not overlapped, the one that runs knows all that is *)
(* in search_state.json.                                                   *)
AloneOK(ls, s, ms) ==
  /\ Recorded(ls, s)
  /\ \A p, q \in Searches : ms[p].pc # "idle" /\ ms[q].pc # "idle" => p = q
  /\ \A p \in Searches :
       /\ ms[p].pc = "creating" => s = <<>> /\ ms[p].memory = Fresh
       /\ ms[p].pc \notin {"idle", "loading", "creating"} => ms[p].memory = s

Shared ==
  /\ LedgersOK(ledgers)
  /\ Candidates(ledgers, saved)
  /\ FrozenOK(ledgers, frozen)
  /\ started \in 0 .. MaxSearches
  /\ alone \in BOOLEAN

IInv ==
  /\ Shared
  /\ search \in [Searches -> Search]
  /\ \A p \in Searches : SearchOK(ledgers, p, search[p])
  /\ alone => AloneOK(ledgers, saved, search)

(* What a step of p does to ledgers ls, giving ks.                         *)
Evolves(ls, ks, p) ==
  \A r \in Round :
    /\ Full(ls[r]) => ks[r].scores = ls[r].scores /\ ks[r].header = ls[r].header
    /\ \A q \in Searches \ {p} :
         /\ ls[r].lock = q => ks[r] = ls[r]
         /\ ks[r].lock = q => ls[r].lock = q

----------------------------------------------------------------------------
(* The number of correct samples is an accuracy, and not None.             *)
LEMMA CorrectFacts ==
  ASSUME NEW l, LedgerOK(l)
  PROVE  CorrectIn(l) \in 0 .. Size /\ CorrectIn(l) # None
<1> USE AFlowAssumption
<1>1. l.scores \in Seq(BOOLEAN) /\ Len(l.scores) \in 0 .. Size
  BY DEF LedgerOK, Ledger
<1>2. IsFiniteSet(1 .. Len(l.scores)) /\ Cardinality(1 .. Len(l.scores)) = Len(l.scores)
  <2>1. \A n \in Nat : IsFiniteSet(1 .. n) /\ Cardinality(1 .. n) = n
    <3> TAKE n \in Nat
    <3>1. 1 \in Int /\ n \in Int
      OBVIOUS
    <3>2. /\ IsFiniteSet(1 .. n)
          /\ Cardinality(1 .. n) = IF 1 > n THEN 0 ELSE n - 1 + 1
      BY <3>1, FS_Interval, Zenon
    <3> QED
      BY <3>2
  <2> QED
    BY <1>1, <2>1
<1>3. {i \in DOMAIN l.scores : l.scores[i]} \subseteq 1 .. Len(l.scores)
  BY <1>1
<1>4. /\ IsFiniteSet({i \in DOMAIN l.scores : l.scores[i]})
      /\ CorrectIn(l) <= Len(l.scores)
  BY <1>2, <1>3, FS_Subset DEF CorrectIn
<1>5. CorrectIn(l) \in Nat
  BY <1>4, FS_CardinalityType DEF CorrectIn
<1> QED
  BY <1>1, <1>4, <1>5

(* What was earned stays earned.                                           *)
LEMMA EarnedStays ==
  ASSUME NEW ls, NEW ks, NEW p, Evolves(ls, ks, p), NEW cs, Candidates(ls, cs)
  PROVE  Candidates(ks, cs)
<1> SUFFICES ASSUME NEW k \in DOMAIN cs, Evaluated(cs[k])
             PROVE  /\ Full(ks[k - 1])
                    /\ ks[k - 1].header = cs[k].workflow
                    /\ cs[k].correct = CorrectIn(ks[k - 1])
  BY DEF Candidates, EarnedIn
<1>1. k - 1 \in Round
  BY AFlowAssumption DEF Candidates, Round
<1>2. /\ Full(ls[k - 1]) /\ ls[k - 1].header = cs[k].workflow
      /\ cs[k].correct = CorrectIn(ls[k - 1])
  BY DEF Candidates, EarnedIn
<1> QED
  BY <1>1, <1>2 DEF Evolves, Full, CorrectIn

(* A step of p keeps what is known of another search.                      *)
LEMMA Others ==
  ASSUME NEW ls, LedgersOK(ls), NEW ks, LedgersOK(ks),
         NEW p \in Searches, Evolves(ls, ks, p),
         NEW q \in Searches \ {p}, NEW m, SearchOK(ls, q, m)
  PROVE  SearchOK(ks, q, m)
<1> USE AFlowAssumption
<1>1. m \in Search /\ m.round \in 0 .. Rounds + 1 /\ Candidates(ks, m.memory)
  BY EarnedStays DEF SearchOK, Search
<1>2. \A r \in Round : ks[r].lock = q <=> ls[r].lock = q
  BY DEF Evolves
<1>3. m.pc \in InRound => m.round \in Round
  BY <1>1 DEF SearchOK, Candidates, Round
<1>4. ASSUME m.pc = "evaluating" PROVE ks[m.round] = ls[m.round]
  <2>1. m.round \in Round /\ ls[m.round].lock = q
    BY <1>3, <1>4 DEF SearchOK, InRound
  <2> QED
    BY <2>1 DEF Evolves
<1>5. ASSUME m.pc = "reading"
      PROVE  Full(ks[m.round]) /\ ks[m.round].header = ls[m.round].header
  BY <1>3, <1>5 DEF SearchOK, InRound, Evolves, Full
<1> QED
  BY <1>1, <1>2, <1>4, <1>5 DEF SearchOK

(* A frozen workflow stays the best.                                       *)
LEMMA BestStays ==
  ASSUME NEW ls, NEW ks, NEW p, Evolves(ls, ks, p), NEW f, FrozenOK(ls, f)
  PROVE  FrozenOK(ks, f)
<1> SUFFICES ASSUME f # None PROVE FrozenOK(ks, f)
  BY DEF FrozenOK
<1>1. \A r \in Round : Full(ks[r]) /\ ks[r].header = ls[r].header
                       /\ CorrectIn(ks[r]) = CorrectIn(ls[r])
  BY DEF FrozenOK, Evolves, Full, CorrectIn
<1>2. \A k \in 1 .. Rounds + 1 : k - 1 \in Round
  BY AFlowAssumption DEF Round
<1>3. Found(ks) = Found(ls)
  BY <1>1, <1>2 DEF Found
<1> QED
  BY <1>1, <1>3 DEF FrozenOK

(* Steps that leave the ledgers alone.                                     *)
LEMMA NothingEvolves == \A ls, p : Evolves(ls, ls, p)
BY DEF Evolves
----------------------------------------------------------------------------
(* The invariant, for one search.                                          *)
LEMMA SearchFacts ==
  ASSUME IInv, NEW p \in Searches
  PROVE  /\ search[p] \in Search
         /\ SearchOK(ledgers, p, search[p])
         /\ Memory(p) \in Seq(Candidate)
         /\ Len(Memory(p)) \in 0 .. Rounds + 1
         /\ search[p].round \in 0 .. Rounds + 1
         /\ search[p].pc \in Pc
         /\ LedgersOK(ledgers)
<1>1. search[p] \in Search /\ SearchOK(ledgers, p, search[p]) /\ LedgersOK(ledgers)
  BY DEF IInv, Shared
<1>2. Memory(p) \in Seq(Candidate) /\ Len(Memory(p)) <= Rounds + 1
  BY <1>1 DEF SearchOK, Candidates, Memory
<1> QED
  BY <1>1, <1>2, AFlowAssumption DEF Search

(* The candidate and the ledger of a search that is in a round.            *)
LEMMA RoundFacts ==
  ASSUME IInv, NEW p \in Searches, search[p].pc \in InRound
  PROVE  /\ search[p].round \in Round
         /\ search[p].round + 1 \in DOMAIN Memory(p)
         /\ Current(p) \in Candidate
         /\ LedgerOK(Records(p))
<1>1. search[p].round < Len(Memory(p))
  BY SearchFacts DEF SearchOK, Memory
<1>2. search[p].round \in Round /\ search[p].round + 1 \in DOMAIN Memory(p)
  BY <1>1, SearchFacts, AFlowAssumption DEF Round
<1> QED
  BY <1>2, SearchFacts DEF Current, Records, LedgersOK

(* A step of a search that runs.                                           *)
LEMMA Moves ==
  ASSUME IInv, NEW p \in Searches, search[p].pc # "idle",
         NEW m, search' = [search EXCEPT ![p] = m],
         LedgersOK(ledgers'), Evolves(ledgers, ledgers', p),
         SearchOK(ledgers', p, m),
         Candidates(ledgers', saved'), FrozenOK(ledgers', frozen'),
         UNCHANGED <<started, alone>>,
         alone => /\ Recorded(ledgers', saved')
                  /\ m.pc = "creating" => saved' = <<>> /\ m.memory = Fresh
                  /\ m.pc \notin {"idle", "loading", "creating"} => m.memory = saved'
  PROVE  IInv'
<1>1. search \in [Searches -> Search] /\ m \in Search
  BY DEF IInv, SearchOK
<1>2. search'[p] = m /\ \A q \in Searches \ {p} : search'[q] = search[q]
  BY <1>1
<1>3. search' \in [Searches -> Search]
  BY <1>1
<1>4. Shared'
  BY DEF IInv, Shared
<1>5. ASSUME NEW q \in Searches PROVE SearchOK(ledgers', q, search'[q])
  <2>1. CASE q = p
    BY <1>2, <2>1
  <2>2. CASE q # p
    <3>1. SearchOK(ledgers, q, search[q]) /\ LedgersOK(ledgers)
      BY DEF IInv, Shared
    <3> QED
      BY <1>2, <2>2, <3>1, Others
  <2> QED
    BY <2>1, <2>2
<1>6. ASSUME alone PROVE AloneOK(ledgers', saved', search')
  <2>1. \A q \in Searches \ {p} : search'[q].pc = "idle"
    BY <1>2, <1>6 DEF IInv, AloneOK
  <2> QED
    BY <1>2, <1>6, <2>1 DEF AloneOK
<1> QED
  BY <1>3, <1>4, <1>5, <1>6 DEF IInv

(* A step that leaves the ledgers and what is frozen alone.                *)
LEMMA Thinks ==
  ASSUME IInv, NEW p \in Searches, search[p].pc # "idle",
         NEW m, search' = [search EXCEPT ![p] = m],
         SearchOK(ledgers, p, m), Candidates(ledgers, saved'),
         UNCHANGED <<ledgers, frozen, started, alone>>,
         alone => /\ Recorded(ledgers, saved')
                  /\ m.pc = "creating" => saved' = <<>> /\ m.memory = Fresh
                  /\ m.pc \notin {"idle", "loading", "creating"} => m.memory = saved'
  PROVE  IInv'
<1>1. LedgersOK(ledgers') /\ FrozenOK(ledgers', frozen')
  BY DEF IInv, Shared
<1>2. Evolves(ledgers, ledgers', p)
  BY NothingEvolves
<1>3. SearchOK(ledgers', p, m) /\ Candidates(ledgers', saved')
  OBVIOUS
<1>4. alone => /\ Recorded(ledgers', saved')
               /\ m.pc = "creating" => saved' = <<>> /\ m.memory = Fresh
               /\ m.pc \notin {"idle", "loading", "creating"} => m.memory = saved'
  OBVIOUS
<1> QED
  BY <1>1, <1>2, <1>3, <1>4, Moves

(* What is known while no two searches overlap.                            *)
LEMMA AloneFacts ==
  ASSUME IInv, NEW p \in Searches, alone
  PROVE  /\ Recorded(ledgers, saved)
         /\ At(p, "creating") => saved = <<>> /\ Memory(p) = Fresh
         /\ search[p].pc \notin {"idle", "loading", "creating"} => Memory(p) = saved
BY DEF IInv, AloneOK, At, Memory

----------------------------------------------------------------------------
LEMMA BeginKeeps ==
  ASSUME IInv, NEW p \in Searches, Begin(p)
  PROVE  IInv'
<1> DEFINE m == [search[p] EXCEPT !.pc = "loading"]
<1>1. search \in [Searches -> Search] /\ search[p] \in Search /\ search[p].pc = "idle"
  BY DEF IInv, Begin, At
<1>2. search' = [search EXCEPT ![p] = m]
  BY <1>1 DEF Begin, GoTo
<1>3. /\ m \in Search /\ m.pc = "loading"
      /\ m.memory = search[p].memory /\ m.round = search[p].round
  BY <1>1 DEF Search, Pc
<1> HIDE DEF m
<1>4. /\ search' \in [Searches -> Search] /\ search'[p] = m
      /\ \A q \in Searches \ {p} : search'[q] = search[q]
  BY <1>1, <1>2, <1>3
<1>5. SearchOK(ledgers, p, m)
  BY <1>1, <1>3 DEF IInv, SearchOK, InRound
<1>6. \A q \in Searches : SearchOK(ledgers, q, search'[q])
  BY <1>4, <1>5 DEF IInv
<1>7. Shared'
  BY AFlowAssumption DEF Begin, IInv, Shared
<1>8. ASSUME alone' PROVE AloneOK(ledgers, saved, search')
  <2>1. alone /\ \A q \in Searches : search[q].pc = "idle"
    BY <1>8 DEF Begin, At
  <2> QED
    BY <1>3, <1>4, <2>1 DEF IInv, AloneOK
<1> QED
  BY <1>4, <1>6, <1>7, <1>8 DEF IInv, Begin

LEMMA LoadKeeps ==
  ASSUME IInv, NEW p \in Searches, Load(p)
  PROVE  IInv'
<1> DEFINE m == [search[p] EXCEPT !.pc = "deciding", !.memory = saved]
<1>1. /\ search \in [Searches -> Search] /\ search[p] \in Search
      /\ SearchOK(ledgers, p, search[p]) /\ search[p].pc = "loading"
      /\ Candidates(ledgers, saved)
  BY DEF IInv, Shared, Load, At
<1>2. search' = [search EXCEPT ![p] = m]
  BY <1>1 DEF Load
<1>3. m \in Search /\ m.pc = "deciding" /\ m.memory = saved /\ m.round = search[p].round
  BY <1>1 DEF Search, Pc, Candidates
<1> HIDE DEF m
<1>4. SearchOK(ledgers, p, m)
  BY <1>1, <1>3 DEF SearchOK, InRound
<1>5. alone => Recorded(ledgers, saved)
  BY AloneFacts
<1> QED
  BY <1>1, <1>2, <1>3, <1>4, <1>5, Thinks DEF Load

LEMMA LoadNothingKeeps ==
  ASSUME IInv, NEW p \in Searches, LoadNothing(p)
  PROVE  IInv'
<1> USE AFlowAssumption
<1> DEFINE m == [search[p] EXCEPT !.pc = "creating", !.memory = Fresh]
<1>1. /\ search \in [Searches -> Search] /\ search[p] \in Search
      /\ SearchOK(ledgers, p, search[p]) /\ search[p].pc = "loading"
      /\ Candidates(ledgers, saved)
  BY DEF IInv, Shared, LoadNothing, At
<1>2. search' = [search EXCEPT ![p] = m]
  BY <1>1 DEF LoadNothing, Fresh
<1>3. Unevaluated(Initial) \in Candidate /\ ~Evaluated(Unevaluated(Initial))
  BY DEF Unevaluated, Candidate, Evaluated
<1>4. Candidates(ledgers, Fresh)
  BY <1>3 DEF Candidates, EarnedIn, Fresh
<1>5. m \in Search /\ m.pc = "creating" /\ m.memory = Fresh /\ m.round = search[p].round
  BY <1>1, <1>4 DEF Search, Pc, Candidates
<1> HIDE DEF m
<1>6. SearchOK(ledgers, p, m)
  BY <1>1, <1>4, <1>5 DEF SearchOK, InRound
<1>7. alone => Recorded(ledgers, saved)
  BY AloneFacts
<1> QED
  BY <1>1, <1>2, <1>5, <1>6, <1>7, Thinks DEF LoadNothing
LEMMA SaveInitialKeeps ==
  ASSUME IInv, NEW p \in Searches, SaveInitial(p)
  PROVE  IInv'
<1> DEFINE m == [search[p] EXCEPT !.pc = "deciding"]
<1>1. /\ search \in [Searches -> Search] /\ search[p] \in Search
      /\ SearchOK(ledgers, p, search[p]) /\ search[p].pc = "creating"
      /\ Candidates(ledgers, Memory(p))
  BY DEF IInv, SaveInitial, At, SearchOK, Memory
<1>2. search' = [search EXCEPT ![p] = m]
  BY <1>1 DEF SaveInitial, GoTo
<1>3. /\ m \in Search /\ m.pc = "deciding"
      /\ m.memory = Memory(p) /\ m.round = search[p].round
  BY <1>1 DEF Search, Pc, Memory
<1> HIDE DEF m
<1>4. SearchOK(ledgers, p, m)
  BY <1>1, <1>3 DEF SearchOK, InRound, Memory
<1>5. ASSUME alone PROVE Recorded(ledgers, Memory(p))
  <2>1. Recorded(ledgers, <<>>)
    BY <1>5, AloneFacts DEF SaveInitial
  <2>2. \A r \in Round : ledgers[r].header = None
    BY <2>1, AFlowAssumption DEF Recorded, Round
  <2> QED
    BY <2>2 DEF Recorded
<1> QED
  BY <1>1, <1>2, <1>3, <1>4, <1>5, Thinks DEF SaveInitial

LEMMA SkipKeeps ==
  ASSUME IInv, NEW p \in Searches, Skip(p)
  PROVE  IInv'
<1> USE AFlowAssumption
<1> DEFINE m == [search[p] EXCEPT !.round = search[p].round + 1]
<1>1. /\ search \in [Searches -> Search] /\ search[p] \in Search
      /\ SearchOK(ledgers, p, search[p]) /\ search[p].pc = "deciding"
      /\ search[p].round \in Round /\ Candidates(ledgers, saved)
  BY SearchFacts DEF IInv, Shared, Skip, Deciding, At, Round
<1>2. search' = [search EXCEPT ![p] = m]
  BY <1>1 DEF Skip
<1>3. /\ m \in Search /\ m.pc = "deciding"
      /\ m.memory = Memory(p) /\ m.round = search[p].round + 1
  <2>1. search[p].round + 1 \in 0 .. Rounds + 1
    BY <1>1 DEF Round
  <2> QED
    BY <1>1, <2>1 DEF Search, Memory
<1> HIDE DEF m
<1>4. m.round \in DOMAIN Memory(p) /\ Evaluated(Memory(p)[m.round])
  BY <1>1, <1>3, SearchFacts DEF Skip, Current, Round
<1>5. \A k \in 1 .. m.round : k = m.round \/ k \in 1 .. search[p].round
  BY <1>1, <1>3 DEF Round
<1>6. \A k \in 1 .. m.round : k \in DOMAIN m.memory /\ Evaluated(m.memory[k])
  BY <1>1, <1>3, <1>4, <1>5 DEF SearchOK, Memory
<1>7. SearchOK(ledgers, p, m)
  BY <1>1, <1>3, <1>6 DEF SearchOK, InRound, Memory
<1>8. alone => Recorded(ledgers, saved) /\ Memory(p) = saved
  BY <1>1, AloneFacts
<1> QED
  BY <1>1, <1>2, <1>3, <1>7, <1>8, Thinks DEF Skip

LEMMA ResumeKeeps ==
  ASSUME IInv, NEW p \in Searches, Resume(p)
  PROVE  IInv'
<1> DEFINE m == [search[p] EXCEPT !.pc = "locking"]
<1>1. /\ search \in [Searches -> Search] /\ search[p] \in Search
      /\ SearchOK(ledgers, p, search[p]) /\ search[p].pc = "deciding"
      /\ search[p].round < Len(Memory(p)) /\ Candidates(ledgers, saved)
  BY DEF IInv, Shared, Resume, Deciding, At
<1>2. search' = [search EXCEPT ![p] = m]
  BY <1>1 DEF Resume, GoTo
<1>3. /\ m \in Search /\ m.pc = "locking"
      /\ m.memory = Memory(p) /\ m.round = search[p].round
  BY <1>1 DEF Search, Pc, Memory
<1> HIDE DEF m
<1>4. SearchOK(ledgers, p, m)
  BY <1>1, <1>3 DEF SearchOK, InRound, Memory
<1>5. alone => Recorded(ledgers, saved) /\ Memory(p) = saved
  BY <1>1, AloneFacts
<1> QED
  BY <1>1, <1>2, <1>3, <1>4, <1>5, Thinks DEF Resume

(* One more candidate.                                                     *)
LEMMA Grows ==
  ASSUME NEW ls, NEW cs, Candidates(ls, cs), Len(cs) <= Rounds,
         NEW w \in Workflows
  PROVE  LET grown == Append(cs, Unevaluated(w))
         IN  /\ Candidates(ls, grown)
             /\ Len(grown) = Len(cs) + 1
             /\ \A k \in DOMAIN cs : k \in DOMAIN grown /\ grown[k] = cs[k]
<1> DEFINE u == Unevaluated(w)
           grown == Append(cs, u)
<1>1. u \in Candidate /\ ~Evaluated(u)
  BY DEF Unevaluated, Candidate, Evaluated
<1> HIDE DEF u
<1>2. cs \in Seq(Candidate) /\ EarnedIn(ls, cs)
  BY DEF Candidates
<1>3. /\ grown \in Seq(Candidate) /\ Len(grown) = Len(cs) + 1
      /\ \A k \in DOMAIN cs : k \in DOMAIN grown /\ grown[k] = cs[k]
      /\ \A k \in DOMAIN grown : k \in DOMAIN cs \/ grown[k] = u
  BY <1>1, <1>2
<1>4. EarnedIn(ls, grown)
  BY <1>1, <1>2, <1>3 DEF EarnedIn
<1>5. Len(grown) <= Rounds + 1
  BY <1>2, <1>3, AFlowAssumption
<1> QED
  BY <1>3, <1>4, <1>5 DEF Candidates, u

LEMMA ProposeKeeps ==
  ASSUME IInv, NEW p \in Searches, Propose(p)
  PROVE  IInv'
<1> USE AFlowAssumption
<1>1. /\ search \in [Searches -> Search] /\ search[p] \in Search
      /\ SearchOK(ledgers, p, search[p]) /\ search[p].pc = "deciding"
      /\ search[p].round = Len(Memory(p)) /\ search[p].round <= Rounds
      /\ Candidates(ledgers, Memory(p))
  BY DEF IInv, Propose, Deciding, At, SearchOK, Memory
<1>2. PICK w \in Workflows :
        /\ search' = [search EXCEPT ![p].pc = "locking",
                                    ![p].memory = Append(Memory(p), Unevaluated(w))]
        /\ saved' = Append(Memory(p), Unevaluated(w))
  BY DEF Propose
<1> DEFINE grown == Append(Memory(p), Unevaluated(w))
           m == [search[p] EXCEPT !.pc = "locking", !.memory = grown]
<1>3. /\ Candidates(ledgers, grown) /\ Len(grown) = Len(Memory(p)) + 1
      /\ \A k \in DOMAIN Memory(p) : k \in DOMAIN grown /\ grown[k] = Memory(p)[k]
  BY <1>1, Grows
<1>4. search' = [search EXCEPT ![p] = m] /\ saved' = grown
  BY <1>1, <1>2
<1> HIDE DEF grown
<1>5. /\ m \in Search /\ m.pc = "locking" /\ m.memory = grown
      /\ m.round = search[p].round
  BY <1>1, <1>3 DEF Search, Pc, Candidates
<1> HIDE DEF m
<1>6. \A k \in 1 .. m.round : k \in DOMAIN grown /\ Evaluated(grown[k])
  BY <1>1, <1>3, <1>5 DEF SearchOK, Memory
<1>7. SearchOK(ledgers, p, m)
  BY <1>1, <1>3, <1>5, <1>6, SearchFacts DEF SearchOK, InRound, Memory
<1>8. ASSUME alone PROVE Recorded(ledgers, grown)
  <2>1. Recorded(ledgers, Memory(p))
    BY <1>1, <1>8, AloneFacts
  <2>2. \A r \in Round : r < Len(Memory(p)) => r + 1 \in DOMAIN Memory(p)
    BY SearchFacts DEF Round
  <2>3. \A r \in Round : r < Len(Memory(p)) => r < Len(grown)
    BY <1>3, SearchFacts DEF Round
  <2> QED
    BY <1>3, <2>1, <2>2, <2>3 DEF Recorded
<1> QED
  BY <1>1, <1>3, <1>4, <1>5, <1>7, <1>8, Thinks DEF Propose
----------------------------------------------------------------------------
(* A ledger that p may write, changed as an append, a lock or a release of *)
(* it may change it.                                                       *)
LEMMA Writes ==
  ASSUME LedgersOK(ledgers), NEW p \in Searches, NEW r \in Round,
         NEW l, LedgerOK(l), ledgers' \in [Round -> Ledger],
         ledgers'[r] = l, \A j \in Round \ {r} : ledgers'[j] = ledgers[j],
         Full(ledgers[r]) => l.scores = ledgers[r].scores /\ l.header = ledgers[r].header,
         ledgers[r].lock \in {None, p}, l.lock \in {None, p}
  PROVE  LedgersOK(ledgers') /\ Evolves(ledgers, ledgers', p)
<1>1. LedgersOK(ledgers')
  BY DEF LedgersOK
<1>2. \A q \in Searches \ {p} : ledgers[r].lock # q /\ l.lock # q
  BY AFlowAssumption
<1>3. Evolves(ledgers, ledgers', p)
  <2> SUFFICES ASSUME NEW j \in Round
               PROVE  /\ Full(ledgers[j]) => /\ ledgers'[j].scores = ledgers[j].scores
                                        /\ ledgers'[j].header = ledgers[j].header
                      /\ \A q \in Searches \ {p} :
                           /\ ledgers[j].lock = q => ledgers'[j] = ledgers[j]
                           /\ ledgers'[j].lock = q => ledgers[j].lock = q
    BY DEF Evolves
  <2>1. CASE j = r
    BY <1>2, <2>1
  <2>2. CASE j # r
    BY <2>2
  <2> QED
    BY <2>1, <2>2
<1> QED
  BY <1>1, <1>3

(* A search that has ended.                                                *)
LEMMA IdleOK ==
  ASSUME NEW ls, NEW p \in Searches, \A r \in Round : ls[r].lock # p
  PROVE  SearchOK(ls, p, Idle)
<1>1. Idle \in Search /\ Idle.pc = "idle" /\ Idle.memory = <<>> /\ Idle.round = 0
  BY AFlowAssumption DEF Idle, Search, Pc
<1>2. Candidates(ls, <<>>)
  BY AFlowAssumption DEF Candidates, EarnedIn
<1> QED
  BY <1>1, <1>2 DEF SearchOK, InRound

(* What a search that is in a round may do to its ledger.                  *)
LEMMA Acts ==
  ASSUME IInv, NEW p \in Searches, search[p].pc \in InRound,
         NEW l, Write(p, l), LedgerOK(l),
         Full(Records(p)) => /\ l.scores = Records(p).scores
                             /\ l.header = Records(p).header,
         Records(p).lock \in {None, p}, l.lock \in {None, p},
         l.header \in {Records(p).header, Current(p).workflow},
         NEW m, search' = [search EXCEPT ![p] = m],
         \/ m = Idle /\ l.lock = None
         \/ /\ m \in Search
            /\ m.memory = Memory(p) /\ m.round = search[p].round
            /\ \/ /\ m.pc = "evaluating" /\ l.lock = p
                  /\ l.header \in {None, Current(p).workflow}
               \/ /\ m.pc = "reading" /\ l.lock = None
                  /\ Full(l) /\ l.header = Current(p).workflow,
         UNCHANGED <<saved, frozen, started, alone>>
  PROVE  IInv'
<1> USE AFlowAssumption
<1> DEFINE r == search[p].round
<1>1. /\ r \in Round /\ r + 1 \in DOMAIN Memory(p)
      /\ ledgers[r] = Records(p) /\ LedgersOK(ledgers)
      /\ SearchOK(ledgers, p, search[p])
  BY RoundFacts, SearchFacts DEF Records
<1>2. ledgers' = [ledgers EXCEPT ![r] = l]
  BY DEF Write
<1>3. /\ LedgersOK(ledgers') /\ Evolves(ledgers, ledgers', p)
      /\ ledgers'[r] = l /\ \A j \in Round \ {r} : ledgers'[j] = ledgers[j]
  <2>1. /\ Full(ledgers[r]) => /\ l.scores = ledgers[r].scores
                              /\ l.header = ledgers[r].header
        /\ ledgers[r].lock \in {None, p}
    BY <1>1
  <2>2. r \in Round /\ LedgersOK(ledgers)
    BY <1>1
  <2>3. /\ ledgers' \in [Round -> Ledger] /\ ledgers'[r] = l
        /\ \A j \in Round \ {r} : ledgers'[j] = ledgers[j]
    BY <1>2, <2>2 DEF LedgersOK, LedgerOK
  <2> HIDE DEF r
  <2> QED
    BY <2>1, <2>2, <2>3, Writes
<1>4. \A j \in Round \ {r} : ledgers'[j].lock # p
  BY <1>1, <1>3 DEF SearchOK
<1>5. Candidates(ledgers', saved') /\ FrozenOK(ledgers', frozen')
  BY <1>3, EarnedStays, BestStays DEF IInv, Shared
<1>6. SearchOK(ledgers', p, m)
  <2>1. CASE m = Idle /\ l.lock = None
    BY <1>1, <1>3, <1>4, <2>1, IdleOK
  <2>2. CASE /\ m \in Search /\ m.memory = Memory(p) /\ m.round = r
             /\ m.pc \in {"evaluating", "reading"}
    <3>1. Candidates(ledgers', m.memory)
      BY <1>1, <1>3, <2>2, EarnedStays DEF SearchOK, Memory
    <3>2. \A k \in 1 .. m.round : k \in DOMAIN m.memory /\ Evaluated(m.memory[k])
      BY <1>1, <2>2 DEF SearchOK, Memory
    <3>3. m.round < Len(m.memory)
      BY <1>1, <2>2 DEF SearchOK, Memory
    <3>4. m.memory[m.round + 1] = Current(p) /\ ledgers'[m.round] = l
      BY <1>3, <2>2 DEF Current
    <3>5. CASE /\ m.pc = "evaluating" /\ l.lock = p
               /\ l.header \in {None, Current(p).workflow}
      BY <1>3, <1>4, <2>2, <3>1, <3>2, <3>3, <3>4, <3>5 DEF SearchOK
    <3>6. CASE /\ m.pc = "reading" /\ l.lock = None
               /\ Full(l) /\ l.header = Current(p).workflow
      BY <1>3, <1>4, <2>2, <3>1, <3>2, <3>3, <3>4, <3>6 DEF SearchOK
    <3>7. m = Idle => m.pc = "idle"
      BY DEF Idle
    <3> QED
      BY <2>2, <3>5, <3>6, <3>7
  <2> QED
    BY <2>1, <2>2
<1>7. ASSUME alone PROVE Recorded(ledgers', saved)
  <2>1. Recorded(ledgers, saved) /\ Memory(p) = saved
    BY <1>7, AloneFacts DEF InRound
  <2>2. r < Len(saved) /\ Current(p) = saved[r + 1]
    BY <1>1, <2>1 DEF SearchOK, Memory, Current
  <2> SUFFICES ASSUME NEW j \in Round, ledgers'[j].header # None
               PROVE  j < Len(saved) /\ ledgers'[j].header = saved[j + 1].workflow
    BY DEF Recorded
  <2>3. CASE j = r
    BY <1>1, <1>3, <2>1, <2>2, <2>3 DEF Recorded
  <2>4. CASE j # r
    BY <1>3, <2>1, <2>4 DEF Recorded
  <2> QED
    BY <2>3, <2>4
<1>8. m.pc = "idle" \/ /\ m.pc \in {"evaluating", "reading"} /\ m.memory = Memory(p)
  BY DEF Idle
<1>9. alone => Memory(p) = saved
  BY AloneFacts DEF InRound
<1>10. search[p].pc # "idle"
  BY DEF InRound
<1> QED
  BY <1>3, <1>5, <1>6, <1>7, <1>8, <1>9, <1>10, Moves
----------------------------------------------------------------------------
LEMMA LockKeeps ==
  ASSUME IInv, NEW p \in Searches, Lock(p)
  PROVE  IInv'
<1> USE AFlowAssumption
<1> DEFINE m == [search[p] EXCEPT !.pc = "evaluating"]
           l == [Records(p) EXCEPT !.lock = p]
<1>1. /\ search \in [Searches -> Search] /\ search[p] \in Search
      /\ search[p].pc \in InRound
  BY DEF IInv, Lock, At, InRound
<1>2. search' = [search EXCEPT ![p] = m] /\ Write(p, l)
  BY <1>1 DEF Lock, GoTo
<1>3. /\ m \in Search /\ m.pc = "evaluating"
      /\ m.memory = Memory(p) /\ m.round = search[p].round
  BY <1>1 DEF Search, Pc, Memory
<1>4. LedgerOK(Records(p)) /\ Records(p).lock = None
  BY <1>1, RoundFacts DEF Lock
<1>5. /\ LedgerOK(l) /\ l.lock = p
      /\ l.scores = Records(p).scores /\ l.header = Records(p).header
  BY <1>4 DEF LedgerOK, Ledger
<1>6. l.header \in {None, Current(p).workflow}
  BY <1>5 DEF Lock, Accepts
<1> HIDE DEF m, l
<1> QED
  BY <1>1, <1>2, <1>3, <1>4, <1>5, <1>6, Acts DEF Lock

(* A search that evaluates has the lock, and writes under its own header.  *)
LEMMA EvaluatingFacts ==
  ASSUME IInv, NEW p \in Searches, At(p, "evaluating")
  PROVE  /\ search[p].pc \in InRound
         /\ LedgerOK(Records(p))
         /\ Records(p).lock = p
         /\ Records(p).header \in {None, Current(p).workflow}
         /\ Current(p).workflow \in Workflows
         /\ Current(p).workflow # None
<1>1. search[p].pc \in InRound
  BY DEF At, InRound
<1>2. search[p].round \in Round /\ Current(p) \in Candidate /\ LedgerOK(Records(p))
  BY <1>1, RoundFacts
<1>3. /\ Records(p).lock = p
      /\ Records(p).header \in {None, Current(p).workflow}
  BY <1>2, SearchFacts DEF SearchOK, At, Records, Current, Memory
<1> QED
  BY <1>1, <1>2, <1>3, AFlowAssumption DEF Candidate

(* One more score, under a header.                                         *)
Longer(l, w, b, f) ==
  [l EXCEPT !.header = w, !.scores = Append(@, b), !.file = f]

LEMMA Scored ==
  ASSUME NEW l, LedgerOK(l), Len(l.scores) < Size, NEW w \in Workflows,
         NEW b \in BOOLEAN, NEW f \in {"whole", "bare", "broken"}
  PROVE  /\ LedgerOK(Longer(l, w, b, f))
         /\ Longer(l, w, b, f).header = w /\ Longer(l, w, b, f).lock = l.lock
<1> DEFINE k == Longer(l, w, b, f)
<1>1. l \in Ledger /\ l.scores \in Seq(BOOLEAN) /\ Len(l.scores) \in Nat
  BY DEF LedgerOK, Ledger
<1>2. Append(l.scores, b) \in Seq(BOOLEAN) /\ Len(Append(l.scores, b)) <= Size
  BY <1>1, AFlowAssumption
<1>3. k \in Ledger /\ k.header = w /\ k.lock = l.lock /\ k.scores = Append(l.scores, b)
  BY <1>1, <1>2 DEF Ledger, Longer
<1> HIDE DEF k
<1>4. LedgerOK(k)
  BY <1>2, <1>3, AFlowAssumption DEF LedgerOK
<1> QED
  BY <1>3, <1>4 DEF k

LEMMA CommitKeeps ==
  ASSUME IInv, NEW p \in Searches, Commit(p)
  PROVE  IInv'
<1> USE AFlowAssumption
<1>1. /\ search \in [Searches -> Search] /\ search[p] \in Search
      /\ At(p, "evaluating") /\ search[p].pc = "evaluating"
      /\ Len(Records(p).scores) < Size
  BY DEF IInv, Commit, Pending, At
<1>2. PICK b \in BOOLEAN : Write(p, Appended(Records(p), Current(p).workflow, b))
  BY DEF Commit
<1> DEFINE l == Appended(Records(p), Current(p).workflow, b)
<1>3. LedgerOK(l) /\ l.header = Current(p).workflow /\ l.lock = p
  <2>1. PICK f \in {"whole", "bare", "broken"} :
          l = Longer(Records(p), Current(p).workflow, b, f)
    BY DEF Appended, Longer
  <2>2. /\ LedgerOK(Records(p)) /\ Records(p).lock = p
        /\ Current(p).workflow \in Workflows
    BY <1>1, EvaluatingFacts
  <2> DEFINE w == Current(p).workflow
             h == Records(p)
  <2>3. LedgerOK(h) /\ w \in Workflows /\ Len(h.scores) < Size
    BY <1>1, <2>2
  <2> HIDE DEF l, w, h
  <2>4. /\ LedgerOK(Longer(h, w, b, f))
        /\ Longer(h, w, b, f).header = w /\ Longer(h, w, b, f).lock = h.lock
    BY <2>3, Scored
  <2> QED
    BY <2>1, <2>2, <2>4 DEF w, h
<1> HIDE DEF l
<1>4. search' = [search EXCEPT ![p] = search[p]]
  BY <1>1 DEF Commit
<1>5. ~Full(Records(p))
  BY <1>1, EvaluatingFacts DEF Full, LedgerOK, Ledger
<1>6. search[p].memory = Memory(p)
  BY DEF Memory
<1>7. Write(p, l) /\ UNCHANGED <<saved, frozen, started, alone>>
  BY <1>2 DEF Commit, l
<1> QED
  BY <1>1, <1>3, <1>4, <1>5, <1>6, <1>7, EvaluatingFacts, Acts

(* A ledger whose lock is released.                                        *)
LEMMA Released ==
  ASSUME NEW l, LedgerOK(l)
  PROVE  /\ LedgerOK(Unlocked(l)) /\ Unlocked(l).lock = None
         /\ Unlocked(l).scores = l.scores /\ Unlocked(l).header = l.header
BY DEF LedgerOK, Ledger, Unlocked

LEMMA FinishKeeps ==
  ASSUME IInv, NEW p \in Searches, Finish(p)
  PROVE  IInv'
<1> USE AFlowAssumption
<1> DEFINE m == [search[p] EXCEPT !.pc = "reading"]
           l == Unlocked(Records(p))
<1>1. /\ search \in [Searches -> Search] /\ search[p] \in Search
      /\ At(p, "evaluating")
  BY DEF IInv, Finish
<1>2. search' = [search EXCEPT ![p] = m] /\ Write(p, l)
  BY <1>1 DEF Finish, GoTo
<1>3. /\ m \in Search /\ m.pc = "reading"
      /\ m.memory = Memory(p) /\ m.round = search[p].round
  BY <1>1 DEF Search, Pc, Memory
<1>4. /\ LedgerOK(l) /\ l.lock = None
      /\ l.scores = Records(p).scores /\ l.header = Records(p).header
  BY <1>1, EvaluatingFacts, Released
<1>5. Full(Records(p)) /\ Full(l)
  BY <1>1, <1>4, EvaluatingFacts DEF Finish, Pending, Full, LedgerOK, Ledger
<1>6. l.header = Current(p).workflow
  <2>1. Len(<<>>) = 0
    OBVIOUS
  <2>2. Records(p).scores # <<>>
    BY <1>5, <2>1 DEF Full
  <2> QED
    BY <1>1, <1>4, <2>2, EvaluatingFacts DEF LedgerOK
<1> HIDE DEF m, l
<1> QED
  BY <1>1, <1>2, <1>3, <1>4, <1>5, <1>6, EvaluatingFacts, Acts DEF Finish
LEMMA RecordKeeps ==
  ASSUME IInv, NEW p \in Searches, Record(p)
  PROVE  IInv'
<1> USE AFlowAssumption
<1> DEFINE r == search[p].round
           c == CorrectIn(Records(p))
           known == [Memory(p) EXCEPT ![r + 1] = [Memory(p)[r + 1] EXCEPT !.correct = c]]
           m == [search[p] EXCEPT !.pc = "deciding", !.memory = known, !.round = r + 1]
<1>1. /\ search \in [Searches -> Search] /\ search[p] \in Search
      /\ search[p].pc = "reading" /\ search[p].pc \in InRound
      /\ SearchOK(ledgers, p, search[p])
  BY DEF IInv, Record, At, InRound
<1>2. /\ r \in Round /\ r + 1 \in DOMAIN Memory(p) /\ Current(p) = Memory(p)[r + 1]
      /\ Memory(p)[r + 1] \in Candidate /\ LedgerOK(Records(p))
      /\ Memory(p) \in Seq(Candidate) /\ Candidates(ledgers, Memory(p))
  BY <1>1, RoundFacts, SearchFacts DEF Current, SearchOK, Memory
<1>3. c \in 0 .. Size /\ c # None
  BY <1>2, CorrectFacts
<1>4. search' = [search EXCEPT ![p] = m] /\ saved' = known
  BY <1>1 DEF Record
<1>5. /\ Full(ledgers[r]) /\ ledgers[r].header = Memory(p)[r + 1].workflow
      /\ c = CorrectIn(ledgers[r])
  BY <1>1 DEF SearchOK, Memory, Records
<1> HIDE DEF c
<1> DEFINE d == [Memory(p)[r + 1] EXCEPT !.correct = c]
<1>6. /\ d \in Candidate /\ Evaluated(d) /\ d.correct = c
      /\ d.workflow = Memory(p)[r + 1].workflow
  BY <1>2, <1>3 DEF Candidate, Evaluated
<1> HIDE DEF d
<1>7. /\ known \in Seq(Candidate) /\ Len(known) = Len(Memory(p))
      /\ DOMAIN known = DOMAIN Memory(p) /\ known[r + 1] = d
      /\ \A k \in DOMAIN Memory(p) \ {r + 1} : known[k] = Memory(p)[k]
  BY <1>2, <1>6 DEF d
<1> HIDE DEF known
<1>8. EarnedIn(ledgers, known)
  <2> SUFFICES ASSUME NEW k \in DOMAIN known, Evaluated(known[k])
               PROVE  /\ Full(ledgers[k - 1])
                      /\ ledgers[k - 1].header = known[k].workflow
                      /\ known[k].correct = CorrectIn(ledgers[k - 1])
    BY DEF EarnedIn
  <2>1. CASE k = r + 1
    <3>1. k - 1 = r
      BY <1>2, <2>1 DEF Round
    <3> QED
      BY <1>5, <1>6, <1>7, <2>1, <3>1
  <2>2. CASE k # r + 1
    BY <1>2, <1>7, <2>2 DEF Candidates, EarnedIn
  <2> QED
    BY <2>1, <2>2
<1>9. Candidates(ledgers, known)
  BY <1>2, <1>7, <1>8 DEF Candidates
<1>10. /\ m \in Search /\ m.pc = "deciding" /\ m.memory = known /\ m.round = r + 1
  <2>1. r + 1 \in 0 .. Rounds + 1
    BY <1>2 DEF Round
  <2> QED
    BY <1>1, <1>7, <2>1 DEF Search, Pc
<1> HIDE DEF m
<1>11. \A k \in 1 .. m.round : k \in DOMAIN known /\ Evaluated(known[k])
  <2>1. \A k \in 1 .. m.round : k = r + 1 \/ k \in 1 .. r
    BY <1>2, <1>10 DEF Round
  <2> QED
    BY <1>1, <1>2, <1>6, <1>7, <2>1 DEF SearchOK, Memory
<1>12. SearchOK(ledgers, p, m)
  BY <1>1, <1>9, <1>10, <1>11 DEF SearchOK, InRound
<1>13. ASSUME alone PROVE Recorded(ledgers, known)
  <2>1. Recorded(ledgers, Memory(p))
    BY <1>1, <1>13, AloneFacts
  <2>2. \A j \in Round : j < Len(Memory(p)) => j + 1 \in DOMAIN Memory(p)
    BY <1>2 DEF Round
  <2>3. \A k \in DOMAIN Memory(p) : known[k].workflow = Memory(p)[k].workflow
    BY <1>6, <1>7
  <2> QED
    BY <1>7, <2>1, <2>2, <2>3 DEF Recorded
<1> QED
  BY <1>1, <1>4, <1>9, <1>10, <1>12, <1>13, Thinks DEF Record

LEMMA CompleteKeeps ==
  ASSUME IInv, NEW p \in Searches, Complete(p)
  PROVE  IInv'
<1> DEFINE m == [search[p] EXCEPT !.pc = "freezing"]
<1>1. /\ search \in [Searches -> Search] /\ search[p] \in Search
      /\ SearchOK(ledgers, p, search[p]) /\ search[p].pc = "deciding"
      /\ search[p].round = Rounds + 1 /\ Candidates(ledgers, Memory(p))
  BY DEF IInv, Complete, At, SearchOK, Memory
<1>2. search' = [search EXCEPT ![p] = m] /\ saved' = Memory(p)
  BY <1>1 DEF Complete, GoTo
<1>3. /\ m \in Search /\ m.pc = "freezing"
      /\ m.memory = Memory(p) /\ m.round = search[p].round
  BY <1>1 DEF Search, Pc, Memory
<1> HIDE DEF m
<1>4. SearchOK(ledgers, p, m)
  BY <1>1, <1>3 DEF SearchOK, InRound, Memory
<1>5. alone => Recorded(ledgers, Memory(p))
  BY <1>1, AloneFacts
<1> QED
  BY <1>1, <1>2, <1>3, <1>4, <1>5, Thinks DEF Complete

(* The memory of a search that freezes is what all ledgers say.            *)
LEMMA MemoryIsFound ==
  ASSUME IInv, NEW p \in Searches, At(p, "freezing")
  PROVE  /\ \A r \in Round : Full(ledgers[r])
         /\ Memory(p) = Found(ledgers)
<1> USE AFlowAssumption
<1>1. /\ SearchOK(ledgers, p, search[p]) /\ search[p].round = Rounds + 1
      /\ Memory(p) \in Seq(Candidate) /\ Len(Memory(p)) \in 0 .. Rounds + 1
      /\ EarnedIn(ledgers, Memory(p))
  BY SearchFacts DEF SearchOK, Candidates, Memory, At
<1>2. \A k \in 1 .. Rounds + 1 : k \in DOMAIN Memory(p) /\ Evaluated(Memory(p)[k])
  BY <1>1 DEF SearchOK, Memory
<1>3. DOMAIN Memory(p) = 1 .. Rounds + 1
  <2>1. Rounds + 1 \in DOMAIN Memory(p)
    BY <1>2
  <2>2. DOMAIN Memory(p) = 1 .. Len(Memory(p))
    BY <1>1
  <2>3. Rounds + 1 <= Len(Memory(p)) /\ Len(Memory(p)) <= Rounds + 1
    BY <1>1, <2>1, <2>2
  <2>4. Len(Memory(p)) = Rounds + 1
    BY <1>1, <2>3
  <2> QED
    BY <2>2, <2>4
<1>4. \A k \in 1 .. Rounds + 1 :
        /\ Full(ledgers[k - 1])
        /\ ledgers[k - 1].header = Memory(p)[k].workflow
        /\ Memory(p)[k].correct = CorrectIn(ledgers[k - 1])
        /\ Memory(p)[k] \in Candidate
  BY <1>1, <1>2, <1>3 DEF EarnedIn
<1>5. \A k \in 1 .. Rounds + 1 :
        Memory(p)[k] = [workflow |-> ledgers[k - 1].header,
                        correct |-> CorrectIn(ledgers[k - 1])]
  BY <1>4 DEF Candidate
<1>6. Memory(p) = [k \in 1 .. Rounds + 1 |-> Memory(p)[k]]
  BY <1>1, <1>3
<1>7. Memory(p) = Found(ledgers)
  BY <1>5, <1>6 DEF Found
<1>8. ASSUME NEW r \in Round PROVE Full(ledgers[r])
  <2>1. r + 1 \in 1 .. Rounds + 1 /\ (r + 1) - 1 = r
    BY DEF Round
  <2> QED
    BY <1>4, <2>1
<1> QED
  BY <1>7, <1>8

LEMMA FreezeKeeps ==
  ASSUME IInv, NEW p \in Searches, Freeze(p)
  PROVE  IInv'
<1> USE AFlowAssumption
<1>1. /\ search' = [search EXCEPT ![p] = Idle]
      /\ UNCHANGED <<saved, ledgers, started, alone>>
      /\ search[p].pc = "freezing" /\ SearchOK(ledgers, p, search[p])
      /\ LedgersOK(ledgers) /\ Candidates(ledgers, saved)
  BY DEF Freeze, At, IInv, Shared
<1>2. PICK k \in DOMAIN Memory(p) :
        /\ IsBest(Memory(p), k)
        /\ frozen' = [workflow |-> Memory(p)[k].workflow,
                      correct |-> Memory(p)[k].correct, round |-> k - 1]
  BY DEF Freeze
<1>3. /\ Memory(p) = Found(ledgers) /\ \A r \in Round : Full(ledgers[r])
      /\ Memory(p) \in Seq(Candidate) /\ k \in 1 .. Rounds + 1
      /\ Evaluated(Memory(p)[k])
  <2>1. DOMAIN Found(ledgers) = 1 .. Rounds + 1
    BY DEF Found
  <2> QED
    BY <1>1, <2>1, MemoryIsFound, SearchFacts DEF Freeze, SearchOK, Memory
<1>4. frozen' \in Frozen
  <2>1. Memory(p)[k] \in Candidate /\ k - 1 \in 0 .. Rounds
    BY <1>3
  <2> QED
    BY <1>2, <1>3, <2>1 DEF Candidate, Frozen, Evaluated
<1>5. FrozenOK(ledgers', frozen')
  <2>1. /\ frozen'.round + 1 = k
        /\ frozen'.workflow = Memory(p)[k].workflow
        /\ frozen'.correct = Memory(p)[k].correct
    BY <1>2, <1>3
  <2> QED
    BY <1>1, <1>2, <1>3, <1>4, <2>1 DEF FrozenOK
<1>6. SearchOK(ledgers, p, Idle)
  BY <1>1, IdleOK DEF SearchOK
<1>7. Evolves(ledgers, ledgers', p) /\ LedgersOK(ledgers') /\ Candidates(ledgers', saved')
  BY <1>1, NothingEvolves
<1>8. SearchOK(ledgers', p, Idle)
  BY <1>1, <1>6
<1>9. alone => Recorded(ledgers', saved')
  BY <1>1, AloneFacts
<1>10. Idle.pc = "idle"
  BY DEF Idle
<1> QED
  BY <1>1, <1>5, <1>7, <1>8, <1>9, <1>10, Moves
LEMMA StopKeeps ==
  ASSUME IInv, NEW p \in Searches, Stop(p)
  PROVE  IInv'
<1>1. /\ search[p].pc # "idle" /\ search' = [search EXCEPT ![p] = Idle]
      /\ UNCHANGED <<saved, frozen, started, alone>>
  BY DEF Stop, At
<1>2. CASE At(p, "evaluating")
  <2> DEFINE l == Unlocked(Records(p))
  <2>1. /\ LedgerOK(l) /\ l.lock = None
        /\ l.scores = Records(p).scores /\ l.header = Records(p).header
    BY <1>2, EvaluatingFacts, Released
  <2>2. Write(p, l)
    BY <1>2 DEF Stop
  <2> HIDE DEF l
  <2> QED
    BY <1>1, <1>2, <2>1, <2>2, EvaluatingFacts, Acts
<1>3. CASE ~At(p, "evaluating")
  <2>1. UNCHANGED ledgers
    BY <1>3 DEF Stop
  <2>2. SearchOK(ledgers, p, Idle)
    <3>1. \A r \in Round : ledgers[r].lock # p
      BY <1>3, SearchFacts DEF SearchOK, At
    <3> QED
      BY <3>1, IdleOK
  <2>3. Candidates(ledgers, saved)
    BY DEF IInv, Shared
  <2>4. alone => Recorded(ledgers, saved)
    BY AloneFacts
  <2>5. Idle.pc = "idle"
    BY DEF Idle
  <2> QED
    BY <1>1, <2>1, <2>2, <2>3, <2>4, <2>5, Thinks
<1> QED
  BY <1>2, <1>3

(* What is left of an append cut short.                                    *)
LEMMA TornFacts ==
  ASSUME NEW h, LedgerOK(h), Len(h.scores) < Size, NEW w \in Workflows,
         NEW l \in Torn(h, w)
  PROVE  LedgerOK(l) /\ l.header \in {h.header, w}
<1> USE AFlowAssumption
<1>1. CASE l = [h EXCEPT !.file = "broken"]
  BY <1>1 DEF LedgerOK, Ledger
<1>2. CASE \E f \in {"whole", "bare"} : l = [h EXCEPT !.header = w, !.file = f]
  BY <1>2 DEF LedgerOK, Ledger
<1>3. CASE \E b \in BOOLEAN : l = Longer(h, w, b, "bare")
  <2>1. PICK b \in BOOLEAN : l = Longer(h, w, b, "bare")
    BY <1>3
  <2>2. LedgerOK(Longer(h, w, b, "bare")) /\ Longer(h, w, b, "bare").header = w
    BY Scored
  <2> QED
    BY <2>1, <2>2
<1> QED
  BY <1>1, <1>2, <1>3 DEF Torn, Longer

LEMMA StopInAppendKeeps ==
  ASSUME IInv, NEW p \in Searches, StopInAppend(p)
  PROVE  IInv'
<1> USE AFlowAssumption
<1>1. /\ At(p, "evaluating") /\ Len(Records(p).scores) < Size
      /\ search' = [search EXCEPT ![p] = Idle]
      /\ UNCHANGED <<saved, frozen, started, alone>>
  BY DEF StopInAppend, Pending
<1>2. PICK t \in Torn(Records(p), Current(p).workflow) : Write(p, Unlocked(t))
  BY DEF StopInAppend
<1>3. LedgerOK(t) /\ t.header \in {Records(p).header, Current(p).workflow}
  <2> DEFINE h == Records(p)
             w == Current(p).workflow
  <2>1. LedgerOK(h) /\ w \in Workflows /\ Len(h.scores) < Size /\ t \in Torn(h, w)
    BY <1>1, EvaluatingFacts
  <2> HIDE DEF h, w
  <2>2. LedgerOK(t) /\ t.header \in {h.header, w}
    BY <2>1, TornFacts
  <2> QED
    BY <2>2 DEF h, w
<1> DEFINE l == Unlocked(t)
<1>4. LedgerOK(l) /\ l.lock = None /\ l.header = t.header
  BY <1>3, Released
<1>5. ~Full(Records(p))
  BY <1>1, EvaluatingFacts DEF Full, LedgerOK, Ledger
<1>6. Write(p, l)
  BY <1>2
<1> HIDE DEF l
<1> QED
  BY <1>1, <1>3, <1>4, <1>5, <1>6, EvaluatingFacts, Acts

----------------------------------------------------------------------------
LEMMA InitHolds == Init => IInv
<1> USE AFlowAssumption
<1> SUFFICES ASSUME Init PROVE IInv
  OBVIOUS
<1>1. /\ \A r \in Round : /\ ledgers[r].header = None /\ ledgers[r].scores = <<>>
                          /\ ledgers[r].lock = None /\ ledgers[r] \in Ledger
      /\ ledgers \in [Round -> Ledger]
  BY DEF Init, Round, Ledger
<1>2. LedgersOK(ledgers)
  BY <1>1 DEF LedgersOK, LedgerOK
<1>3. Candidates(ledgers, saved)
  BY DEF Init, Candidates, EarnedIn
<1>4. Shared
  BY <1>2, <1>3 DEF Init, Shared, FrozenOK
<1>5. \A p \in Searches : search[p] = Idle
  BY DEF Init
<1>6. ASSUME NEW p \in Searches PROVE SearchOK(ledgers, p, search[p])
  BY <1>1, <1>5, IdleOK
<1>7. Idle.pc = "idle" /\ Idle \in Search
  BY DEF Idle, Search, Pc
<1>8. AloneOK(ledgers, saved, search)
  BY <1>1, <1>5, <1>7 DEF AloneOK, Recorded
<1>9. search \in [Searches -> Search]
  BY <1>7 DEF Init
<1> QED
  BY <1>4, <1>6, <1>8, <1>9 DEF IInv

LEMMA NextKeeps == IInv /\ [Next]_vars => IInv'
<1> SUFFICES ASSUME IInv, [Next]_vars PROVE IInv'
  OBVIOUS
<1>1. CASE UNCHANGED vars
  BY <1>1 DEF vars, IInv, Shared
<1>2. ASSUME NEW p \in Searches, Begin(p) PROVE IInv'
  BY <1>2, BeginKeeps
<1>3. ASSUME NEW p \in Searches, Load(p) PROVE IInv'
  BY <1>3, LoadKeeps
<1>4. ASSUME NEW p \in Searches, LoadNothing(p) PROVE IInv'
  BY <1>4, LoadNothingKeeps
<1>5. ASSUME NEW p \in Searches, SaveInitial(p) PROVE IInv'
  BY <1>5, SaveInitialKeeps
<1>6. ASSUME NEW p \in Searches, Skip(p) PROVE IInv'
  BY <1>6, SkipKeeps
<1>7. ASSUME NEW p \in Searches, Resume(p) PROVE IInv'
  BY <1>7, ResumeKeeps
<1>8. ASSUME NEW p \in Searches, Propose(p) PROVE IInv'
  BY <1>8, ProposeKeeps
<1>9. ASSUME NEW p \in Searches, Lock(p) PROVE IInv'
  BY <1>9, LockKeeps
<1>10. ASSUME NEW p \in Searches, Commit(p) PROVE IInv'
  BY <1>10, CommitKeeps
<1>11. ASSUME NEW p \in Searches, Finish(p) PROVE IInv'
  BY <1>11, FinishKeeps
<1>12. ASSUME NEW p \in Searches, Record(p) PROVE IInv'
  BY <1>12, RecordKeeps
<1>13. ASSUME NEW p \in Searches, Complete(p) PROVE IInv'
  BY <1>13, CompleteKeeps
<1>14. ASSUME NEW p \in Searches, Freeze(p) PROVE IInv'
  BY <1>14, FreezeKeeps
<1>15. ASSUME NEW p \in Searches, Stop(p) PROVE IInv'
  BY <1>15, StopKeeps
<1>16. ASSUME NEW p \in Searches, StopInAppend(p) PROVE IInv'
  BY <1>16, StopInAppendKeeps
<1> QED
  BY <1>1, <1>2, <1>3, <1>4, <1>5, <1>6, <1>7, <1>8, <1>9, <1>10, <1>11, <1>12,
     <1>13, <1>14, <1>15, <1>16 DEF Next

(* IInv holds in every state, however searches interleave and end.         *)
THEOREM Invariant == Spec => []IInv
BY InitHolds, NextKeeps, PTL DEF Spec

(* Type correctness: a search has a candidate for every round before its   *)
(* own, all evaluated, and the lock of a ledger while it evaluates.        *)
THEOREM TypeCorrect == Spec => []TypeOK
<1>1. ASSUME IInv PROVE TypeOK
  <2>1. /\ saved \in Seq(Candidate) /\ frozen \in Frozen \cup {None}
        /\ ledgers \in [Round -> Ledger]
        /\ \A r \in Round : Len(ledgers[r].scores) <= Size
        /\ started \in 0 .. MaxSearches /\ alone \in BOOLEAN
        /\ search \in [Searches -> Search]
    BY <1>1 DEF IInv, Shared, Candidates, FrozenOK, LedgersOK, LedgerOK
  <2>2. ASSUME NEW p \in Searches
        PROVE  /\ \A k \in 1 .. search[p].round :
                    k \in DOMAIN Memory(p) /\ Evaluated(Memory(p)[k])
               /\ search[p].pc \in {"locking", "evaluating", "reading"} =>
                    search[p].round < Len(Memory(p))
               /\ \A r \in 0 .. Rounds :
                    ledgers[r].lock = p <=> At(p, "evaluating") /\ search[p].round = r
    BY <1>1, SearchFacts DEF SearchOK, Memory, At, Round, InRound
  <2> QED
    BY <2>1, <2>2 DEF TypeOK, Round
<1> QED
  BY <1>1, Invariant, PTL

(* Whatever searches overwrite of each other's state, an accuracy is that  *)
(* of the candidate's own workflow over all validation problems.           *)
THEOREM AccuraciesEarned == Spec => []AccuracyIsEarned
<1>1. ASSUME IInv PROVE AccuracyIsEarned
  <2>1. EarnedIn(ledgers, saved) /\ \A p \in Searches : EarnedIn(ledgers, Memory(p))
    BY <1>1 DEF IInv, Shared, SearchOK, Candidates, Memory
  <2> QED
    BY <2>1 DEF AccuracyIsEarned, Earned, EarnedIn, Full
<1> QED
  BY <1>1, Invariant, PTL

(* The frozen workflow is the best over the ledgers of all rounds.         *)
THEOREM BestIsFrozen == Spec => []FrozenIsBest
<1>1. ASSUME IInv PROVE FrozenIsBest
  <2> USE AFlowAssumption
  <2> SUFFICES ASSUME frozen # None PROVE FrozenIsBest
    BY DEF FrozenIsBest
  <2> DEFINE found == Found(ledgers)
             k == frozen.round + 1
  <2>1. /\ \A r \in Round : Full(ledgers[r]) /\ LedgerOK(ledgers[r])
        /\ frozen.workflow = found[k].workflow /\ frozen.correct = found[k].correct
        /\ IsBest(found, k)
    BY <1>1 DEF IInv, Shared, FrozenOK, LedgersOK
  <2>2. /\ DOMAIN found = 1 .. Rounds + 1
        /\ \A j \in DOMAIN found :
             /\ found[j].workflow = ledgers[j - 1].header
             /\ found[j].correct = CorrectIn(ledgers[j - 1])
             /\ j - 1 \in Round
    BY DEF Found, Round
  <2>3. k \in DOMAIN found
    BY <2>1 DEF IsBest
  <2>4. ASSUME NEW j \in DOMAIN found
        PROVE  /\ found[j].correct \in Int
               /\ Calls[found[j].workflow] \in Int /\ Nodes[found[j].workflow] \in Int
    <3> DEFINE l == ledgers[j - 1]
    <3>1. LedgerOK(l) /\ Full(l)
      BY <2>1, <2>2
    <3>2. CorrectIn(l) \in 0 .. Size
      BY <3>1, CorrectFacts
    <3>3. l.header \in Workflows
      <4>1. Len(<<>>) = 0
        OBVIOUS
      <4>2. l.scores # <<>>
        BY <3>1, <4>1 DEF Full
      <4> QED
        BY <3>1, <4>2 DEF LedgerOK, Ledger
    <3> HIDE DEF l
    <3>4. CorrectIn(l) \in Int /\ Calls[l.header] \in Int /\ Nodes[l.header] \in Int
      BY <3>2, <3>3
    <3> QED
      BY <2>2, <3>4 DEF l
  <2>5. ASSUME NEW j \in DOMAIN found
        PROVE  /\ found[j].correct <= found[k].correct
               /\ found[j].correct = found[k].correct =>
                    /\ Calls[found[k].workflow] <= Calls[found[j].workflow]
                    /\ Calls[found[j].workflow] = Calls[found[k].workflow] =>
                         Nodes[found[k].workflow] <= Nodes[found[j].workflow]
    <3>1. ~Better(found[j], found[k])
      BY <2>1 DEF IsBest
    <3> HIDE DEF found, k
    <3> QED
      BY <2>3, <2>4, <3>1 DEF Better
  <2>6. found = [j \in 1 .. Rounds + 1 |->
                   [workflow |-> ledgers[j - 1].header,
                    correct |-> CorrectIn(ledgers[j - 1])]]
    BY DEF Found
  <2> HIDE DEF found
  <2> QED
    BY <2>1, <2>5, <2>6 DEF FrozenIsBest, Round, Full
<1> QED
  BY <1>1, Invariant, PTL

(* No later search changes what is frozen.                                 *)
THEOREM FrozenForGood == Spec => FrozenStable
<1>1. ASSUME IInv, NEW p \in Searches, Freeze(p), frozen # None
      PROVE  frozen' = frozen
  <2> DEFINE found == Found(ledgers)
             j == frozen.round + 1
  <2>1. PICK k \in DOMAIN Memory(p) :
          /\ IsBest(Memory(p), k)
          /\ frozen' = [workflow |-> Memory(p)[k].workflow,
                        correct |-> Memory(p)[k].correct, round |-> k - 1]
    BY <1>1 DEF Freeze
  <2>2. Memory(p) = found
    BY <1>1, MemoryIsFound DEF Freeze
  <2>3. /\ IsBest(found, j) /\ frozen \in Frozen
        /\ frozen.workflow = found[j].workflow /\ frozen.correct = found[j].correct
    BY <1>1 DEF IInv, Shared, FrozenOK
  <2>4. DOMAIN found = 1 .. Rounds + 1
    BY DEF Found
  <2>5. j \in Nat /\ k \in Nat /\ j \in DOMAIN found /\ k \in DOMAIN found
    BY <2>2, <2>3, <2>4 DEF IsBest
  <2>6. j = k
    <3> HIDE DEF found, j
    <3>1. ~(j < k) /\ ~(k < j)
      BY <2>1, <2>2, <2>3, <2>5 DEF IsBest
    <3> QED
      BY <2>5, <3>1
  <2>7. frozen = [workflow |-> found[j].workflow, correct |-> found[j].correct,
                  round |-> j - 1]
    BY <2>3, AFlowAssumption DEF Frozen
  <2> QED
    BY <2>1, <2>2, <2>6, <2>7
<1>2. IInv /\ [Next]_vars => [frozen # None => frozen' = frozen]_vars
  <2> SUFFICES ASSUME IInv, Next PROVE frozen # None => frozen' = frozen
    BY DEF vars
  <2>1. PICK p \in Searches : Freeze(p) \/ UNCHANGED frozen
    BY DEF Next, Begin, Load, LoadNothing, SaveInitial, Skip, Resume, Propose, Lock,
           Commit, Finish, Record, Complete, Stop, StopInAppend
  <2> QED
    BY <1>1, <2>1
<1> QED
  BY <1>2, Invariant, PTL DEF Spec, FrozenStable

(* Searches that never overlap leave no ledger without its workflow in     *)
(* search_state.json, wherever they are killed.                            *)
THEOREM ResumedAlone == Spec => []ResumableAlone
<1>1. IInv => ResumableAlone
  BY DEF IInv, AloneOK, Recorded, ResumableAlone, Round
<1> QED
  BY <1>1, Invariant, PTL

----------------------------------------------------------------------------
(***************************************************************************)
(* The ledger of a round keeps the promise of one ledger, for one workflow *)
(* only, whatever the searches that evaluate it propose.                   *)
(***************************************************************************)
Sound(l) == l.file # "broken"

Promise(r) ==
  INSTANCE Ledger WITH
    committed <- IF Sound(ledgers[r]) THEN Len(ledgers[r].scores) ELSE 0,
    sound <- Sound(ledgers[r])

(* From l to k a score is added, or the file is damaged, if it was not     *)
(* damaged before, or nothing happens; the workflow remains.               *)
Extends(l, k) ==
  /\ l.header # None => k.header = l.header
  /\ Sound(k) => Sound(l)
  /\ Sound(l) /\ Sound(k) =>
       \/ Len(k.scores) = Len(l.scores)
       \/ Len(k.scores) = Len(l.scores) + 1 /\ Len(l.scores) < Size

(* A write changes the ledger of the round p is at, and no other.          *)
LEMMA WriteInRound ==
  ASSUME IInv, NEW p \in Searches, search[p].pc \in InRound, NEW l, Write(p, l),
         Extends(Records(p), l), NEW r \in Round
  PROVE  Extends(ledgers[r], ledgers'[r])
<1>1. ledgers \in [Round -> Ledger] /\ search[p].round \in Round
  BY RoundFacts DEF IInv, Shared, LedgersOK
<1>2. /\ ledgers'[search[p].round] = l
      /\ r # search[p].round => ledgers'[r] = ledgers[r]
  BY <1>1 DEF Write
<1>3. CASE r = search[p].round
  BY <1>2, <1>3 DEF Records
<1>4. CASE r # search[p].round
  BY <1>2, <1>4 DEF Extends
<1> QED
  BY <1>3, <1>4

LEMMA WriteSteps ==
  ASSUME IInv, NEW p \in Searches, NEW r \in Round,
         \/ Lock(p) \/ Commit(p) \/ Finish(p) \/ StopInAppend(p)
         \/ (At(p, "evaluating") /\ Write(p, Unlocked(Records(p))))
  PROVE  Extends(ledgers[r], ledgers'[r])
<1> DEFINE h == Records(p)
           w == Current(p).workflow
<1>1. search[p].pc \in InRound
  BY DEF Lock, Commit, Finish, StopInAppend, Pending, At, InRound
<1>2. /\ h \in Ledger /\ h.scores \in Seq(BOOLEAN) /\ Len(h.scores) \in Nat
      /\ h.header = None => h.scores = <<>>
  BY <1>1, RoundFacts DEF LedgerOK, Ledger
<1>3. CASE Lock(p)
  <2> DEFINE l == [h EXCEPT !.lock = p]
  <2>1. Write(p, l)
    BY <1>3 DEF Lock
  <2>2. l.file = h.file /\ l.header = h.header /\ l.scores = h.scores
    BY <1>2 DEF Ledger
  <2> HIDE DEF l, h
  <2>3. Extends(h, l)
    BY <2>2 DEF Extends, Sound
  <2> QED
    BY <1>1, <2>1, <2>3, WriteInRound DEF h
<1>4. CASE Finish(p) \/ (At(p, "evaluating") /\ Write(p, Unlocked(Records(p))))
  <2> DEFINE l == Unlocked(h)
  <2>1. Write(p, l)
    BY <1>4 DEF Finish
  <2>2. l.file = h.file /\ l.header = h.header /\ l.scores = h.scores
    BY <1>2 DEF Ledger, Unlocked
  <2> HIDE DEF l, h
  <2>3. Extends(h, l)
    BY <2>2 DEF Extends, Sound
  <2> QED
    BY <1>1, <2>1, <2>3, WriteInRound DEF h
<1>5. ASSUME At(p, "evaluating")
      PROVE  h.header \in {None, w}
  BY <1>5, EvaluatingFacts
<1>6. CASE Commit(p)
  <2>1. PICK b \in BOOLEAN : Write(p, Appended(h, w, b))
    BY <1>6 DEF Commit
  <2>2. h.header \in {None, w} /\ Len(h.scores) < Size
    BY <1>5, <1>6 DEF Commit, Pending
  <2> HIDE DEF h, w
  <2> DEFINE l == Appended(h, w, b)
             t == Append(h.scores, b)
  <2>3. /\ l.header = w /\ l.scores = t
        /\ l.file = IF h.file = "whole" THEN "whole" ELSE "broken"
    BY <1>2 DEF Appended, Ledger
  <2>4. Len(t) = Len(h.scores) + 1
    BY <1>2
  <2> HIDE DEF l, t
  <2>5. Extends(h, l)
    BY <2>2, <2>3, <2>4 DEF Extends, Sound
  <2> QED
    BY <1>1, <2>1, <2>5, WriteInRound DEF h, l
<1>7. CASE StopInAppend(p)
  <2>1. PICK d \in Torn(h, w) : Write(p, Unlocked(d))
    BY <1>7 DEF StopInAppend
  <2>2. h.header \in {None, w} /\ Len(h.scores) < Size
    BY <1>5, <1>7 DEF StopInAppend, Pending
  <2> HIDE DEF h, w
  <2>3. \/ d = [h EXCEPT !.file = "broken"]
        \/ /\ h.file = "whole"
           /\ \E f \in {"whole", "bare"} : d = [h EXCEPT !.header = w, !.file = f]
        \/ /\ h.file = "whole"
           /\ \E b \in BOOLEAN : d = Longer(h, w, b, "bare")
    BY <2>1 DEF Torn, Longer
  <2>4. \A b \in BOOLEAN : Len(Append(h.scores, b)) = Len(h.scores) + 1
    BY <1>2
  <2>5. /\ d.header \in {h.header, w}
        /\ \/ d.file = "broken"
           \/ h.file = "whole" /\ Len(d.scores) = Len(h.scores)
           \/ h.file = "whole" /\ Len(d.scores) = Len(h.scores) + 1
        /\ Unlocked(d).file = d.file /\ Unlocked(d).header = d.header
        /\ Unlocked(d).scores = d.scores
    <3>1. CASE d = [h EXCEPT !.file = "broken"]
      BY <1>2, <3>1 DEF Unlocked, Ledger
    <3>2. CASE /\ h.file = "whole"
               /\ \E f \in {"whole", "bare"} : d = [h EXCEPT !.header = w, !.file = f]
      BY <1>2, <3>2 DEF Unlocked, Ledger
    <3>3. CASE h.file = "whole" /\ \E b \in BOOLEAN : d = Longer(h, w, b, "bare")
      <4>1. PICK b \in BOOLEAN : d = Longer(h, w, b, "bare")
        BY <3>3
      <4> DEFINE t == Append(h.scores, b)
      <4>2. d = [h EXCEPT !.header = w, !.scores = t, !.file = "bare"]
        BY <4>1 DEF Longer
      <4>3. Len(t) = Len(h.scores) + 1
        BY <2>4
      <4> HIDE DEF t
      <4>4. /\ d.header = w /\ d.scores = t /\ Unlocked(d).file = d.file
            /\ Unlocked(d).header = d.header /\ Unlocked(d).scores = d.scores
        BY <1>2, <4>2 DEF Unlocked, Ledger
      <4> QED
        BY <3>3, <4>3, <4>4
    <3> QED
      BY <2>3, <3>1, <3>2, <3>3
  <2>6. Extends(h, Unlocked(d))
    BY <2>2, <2>5 DEF Extends, Sound
  <2> QED
    BY <1>1, <2>1, <2>6, WriteInRound DEF h
<1> QED
  BY <1>3, <1>4, <1>6, <1>7

LEMMA RoundStep ==
  ASSUME IInv, [Next]_vars, NEW r \in Round
  PROVE  Extends(ledgers[r], ledgers'[r])
<1>1. CASE UNCHANGED ledgers
  BY <1>1 DEF Extends
<1>2. ASSUME NEW p \in Searches,
             \/ Lock(p) \/ Commit(p) \/ Finish(p) \/ StopInAppend(p)
             \/ (At(p, "evaluating") /\ Write(p, Unlocked(Records(p))))
      PROVE  Extends(ledgers[r], ledgers'[r])
  BY <1>2, WriteSteps
<1>3. CASE Next
  <2>1. PICK p \in Searches :
          \/ Begin(p) \/ Load(p) \/ LoadNothing(p) \/ SaveInitial(p)
          \/ Skip(p) \/ Resume(p) \/ Propose(p)
          \/ Lock(p) \/ Commit(p) \/ Finish(p) \/ Record(p)
          \/ Complete(p) \/ Freeze(p)
          \/ Stop(p) \/ StopInAppend(p)
    BY <1>3 DEF Next
  <2>2. CASE \/ Begin(p) \/ Load(p) \/ LoadNothing(p) \/ SaveInitial(p)
             \/ Skip(p) \/ Resume(p) \/ Propose(p) \/ Record(p)
             \/ Complete(p) \/ Freeze(p)
    <3>1. UNCHANGED ledgers
      BY <2>2 DEF Begin, Load, LoadNothing, SaveInitial, Skip, Resume, Propose,
         Record, Complete, Freeze
    <3> QED
      BY <1>1, <3>1
  <2>3. CASE Stop(p)
    <3>1. \/ (At(p, "evaluating") /\ Write(p, Unlocked(Records(p))))
          \/ UNCHANGED ledgers
      BY <2>3 DEF Stop
    <3> QED
      BY <1>1, <1>2, <3>1
  <2> QED
    BY <1>2, <2>1, <2>2, <2>3
<1>4. CASE UNCHANGED vars
  BY <1>1, <1>4 DEF vars
<1> QED
  BY <1>3, <1>4

(* Samples of two workflows never share a ledger, although searches that   *)
(* overlap may propose different workflows for the same round: the ledger  *)
(* of a round belongs to the first workflow that is recorded in it.        *)
THEOREM OneWorkflow ==
  ASSUME NEW r \in Round
  PROVE  Spec => [][ledgers[r].header # None
                      => ledgers'[r].header = ledgers[r].header]_vars
<1>1. IInv /\ [Next]_vars =>
        [ledgers[r].header # None => ledgers'[r].header = ledgers[r].header]_vars
  BY RoundStep DEF Extends
<1> QED
  BY <1>1, Invariant, PTL DEF Spec

(* The validation samples of a round are resumed one by one, whatever      *)
(* searches run or are killed: the ledger of a round keeps the promise of  *)
(* the result store.                                                       *)
THEOREM Implementation ==
  ASSUME NEW r \in Round
  PROVE  Spec => Promise(r)!Spec
<1> DEFINE l == ledgers[r]
           held == IF Sound(l) THEN Len(l.scores) ELSE 0
<1>1. Init => Promise(r)!Init
  <2> SUFFICES ASSUME Init PROVE held = 0 /\ Sound(l) = TRUE
    BY DEF Promise!Init
  <2>1. l.scores = <<>> /\ l.file = "whole"
    BY DEF Init, Round
  <2> QED
    BY <2>1 DEF Sound
<1>2. ASSUME IInv, [Next]_vars
      PROVE  [Promise(r)!Next]_(Promise(r)!vars)
  <2>1. Extends(l, l')
    BY <1>2, RoundStep
  <2>2. Sound(l) \in BOOLEAN /\ Sound(l') \in BOOLEAN
    BY DEF Sound
  <2> HIDE DEF l
  <2>3. CASE ~Sound(l')
    <3>1. Sound(l') = FALSE /\ held' = 0
      BY <2>2, <2>3
    <3>2. CASE Sound(l)
      <4>1. Sound(l) = TRUE
        BY <2>2, <3>2
      <4> QED
        BY <3>1, <4>1 DEF Promise!Next, Promise!Damage, held, l
    <3>3. CASE ~Sound(l)
      <4>1. Sound(l) = FALSE /\ held = 0
        BY <2>2, <3>3
      <4> QED
        BY <3>1, <4>1 DEF Promise!vars, held, l
    <3> QED
      BY <3>2, <3>3
  <2>4. CASE Sound(l')
    <3>1. Sound(l) = TRUE /\ Sound(l') = TRUE
      BY <2>1, <2>2, <2>4 DEF Extends
    <3>2. held = Len(l.scores) /\ held' = Len(l'.scores)
      BY <3>1
    <3>3. held' = held \/ (held' = held + 1 /\ held < Size)
      BY <2>1, <3>1, <3>2 DEF Extends
    <3> QED
      BY <3>1, <3>3 DEF Promise!Next, Promise!Commit, Promise!vars, held, l
  <2> QED
    BY <2>3, <2>4
<1> QED
  BY <1>1, <1>2, Invariant, PTL DEF Spec, Promise!Spec

(***************************************************************************)
(* A search ends, and what may end it early                                *)
(***************************************************************************)
(* p has a step to make that is not a failure.                             *)
GoesOn(p) ==
  \/ search[p].pc \in {"loading", "creating"}
  \/ Deciding(p) /\ search[p].round <= Len(Memory(p))
  \/ At(p, "deciding") /\ search[p].round = Rounds + 1
  \/ /\ At(p, "locking")
     /\ Records(p).lock = None /\ Accepts(Records(p), Current(p).workflow)
  \/ At(p, "evaluating")
  \/ At(p, "reading") /\ Records(p).file # "broken"
  \/ At(p, "freezing") /\ \E k : IsBest(Memory(p), k)

(* The ledger of its round does not parse.                                 *)
MeetsDamage(p) ==
  search[p].pc \in {"locking", "reading"} /\ Records(p).file = "broken"

(* Another search holds that ledger, or has put another workflow there.    *)
MeetsAnother(p) ==
  /\ ~alone
  /\ At(p, "locking")
  /\ \/ Records(p).lock \in Searches \ {p}
     \/ Records(p).header \in Workflows \ {Current(p).workflow}

Unhindered ==
  \A p \in Searches : At(p, "idle") \/ GoesOn(p) \/ MeetsDamage(p) \/ MeetsAnother(p)

(* What is left to do in a round: the optimizer's answer, the lock, the    *)
(* samples, the end of the evaluation, and its accuracy.                   *)
RoundWork == Size + 4

Ahead(ls, m) ==
  CASE m.pc = "locking"    -> Size + 5
    [] m.pc = "evaluating" -> Size - Len(ls[m.round].scores) + 4
    [] OTHER               -> 3

(* What is left of a search.                                               *)
Remaining(ls, m) ==
  CASE m.pc = "idle"     -> 0
    [] m.pc = "loading"  -> (Rounds + 1) * RoundWork + 4
    [] m.pc = "creating" -> (Rounds + 1) * RoundWork + 3
    [] m.pc = "deciding" -> (Rounds + 1 - m.round) * RoundWork + 2
    [] m.pc = "freezing" -> 1
    [] OTHER -> (Rounds - m.round) * RoundWork + Ahead(ls, m)

----------------------------------------------------------------------------
LEMMA LeastOf ==
  ASSUME NEW S, S \subseteq Nat, S # {}
  PROVE  \E i \in S : \A j \in S : i <= j
<1>1. PICK i \in S : \A j \in S : <<j, i>> \notin OpToRel(<, Nat)
  BY NatLessThanWellFounded, WFMin
<1>2. \A j \in S : ~ (j < i)
  BY <1>1 DEF OpToRel
<1> QED
  BY <1>2

(* Of the indices K, one at which the measure of f is least.               *)
LEMMA LeastAt ==
  ASSUME NEW K, K # {}, NEW f, \A k \in K : f[k] \in Nat
  PROVE  \E i \in K : \A k \in K : f[i] <= f[k]
<1> DEFINE S == {f[k] : k \in K}
<1>1. S \subseteq Nat /\ S # {}
  OBVIOUS
<1>2. PICK n \in S : \A j \in S : n <= j
  BY <1>1, LeastOf
<1> QED
  BY <1>2

(* Of the indices D, k is the first in the order of three measures and of  *)
(* the index itself.                                                       *)
Leads(D, f, g, h, k) ==
  \A j \in D :
    /\ f[k] <= f[j]
    /\ f[k] = f[j] => g[k] <= g[j]
    /\ f[k] = f[j] /\ g[k] = g[j] => h[k] <= h[j]
    /\ f[k] = f[j] /\ g[k] = g[j] /\ h[k] = h[j] => k <= j

Measure(D, f) == \A k \in D : f[k] \in Nat

LEMMA FirstOf ==
  ASSUME NEW D, D \subseteq Nat, D # {},
         NEW f, Measure(D, f), NEW g, Measure(D, g), NEW h, Measure(D, h)
  PROVE  \E k \in D : Leads(D, f, g, h, k)
<1>0. \A k \in D : f[k] \in Nat /\ g[k] \in Nat /\ h[k] \in Nat
  BY DEF Measure
<1>1. PICK a \in D : \A k \in D : f[a] <= f[k]
  BY <1>0, LeastAt
<1> DEFINE A == {k \in D : f[k] = f[a]}
<1>2. PICK b \in A : \A k \in A : g[b] <= g[k]
  <2>1. A # {} /\ \A k \in A : g[k] \in Nat
    BY <1>0
  <2> HIDE DEF A
  <2> QED
    BY <2>1, LeastAt
<1> DEFINE B == {k \in A : g[k] = g[b]}
<1>3. PICK c \in B : \A k \in B : h[c] <= h[k]
  <2>1. B # {} /\ \A k \in B : h[k] \in Nat
    BY <1>0
  <2> HIDE DEF B
  <2> QED
    BY <2>1, LeastAt
<1> DEFINE C == {k \in B : h[k] = h[c]}
<1>4. PICK k \in C : \A j \in C : k <= j
  <2>1. C # {} /\ C \subseteq Nat
    OBVIOUS
  <2> HIDE DEF C
  <2> QED
    BY <2>1, LeastOf
<1>5. k \in D /\ f[k] = f[a] /\ g[k] = g[b] /\ h[k] = h[c]
  BY <1>4
<1>6. ASSUME NEW j \in D
      PROVE  /\ f[k] <= f[j]
             /\ f[k] = f[j] => g[k] <= g[j]
             /\ f[k] = f[j] /\ g[k] = g[j] => h[k] <= h[j]
             /\ f[k] = f[j] /\ g[k] = g[j] /\ h[k] = h[j] => k <= j
  BY <1>1, <1>2, <1>3, <1>4, <1>5
<1> QED
  BY <1>5, <1>6 DEF Leads

(* The order of candidate_rank has a first place, and max() finds it.      *)
LEMMA BestExists ==
  ASSUME NEW cs \in Seq(Candidate), cs # <<>>,
         \A k \in DOMAIN cs : Evaluated(cs[k])
  PROVE  \E k \in DOMAIN cs : IsBest(cs, k)
<1> USE AFlowAssumption
<1> DEFINE D == DOMAIN cs
           missed == [k \in D |-> Size - cs[k].correct]
           calls == [k \in D |-> Calls[cs[k].workflow]]
           nodes == [k \in D |-> Nodes[cs[k].workflow]]
<1>1. D # {} /\ D \subseteq Nat
  OBVIOUS
<1>2. ASSUME NEW k \in D
      PROVE  /\ cs[k].correct \in 0 .. Size
             /\ missed[k] = Size - cs[k].correct /\ missed[k] \in Nat
             /\ calls[k] = Calls[cs[k].workflow] /\ calls[k] \in Nat
             /\ nodes[k] = Nodes[cs[k].workflow] /\ nodes[k] \in Nat
  <2>1. cs[k] \in Candidate /\ Evaluated(cs[k])
    OBVIOUS
  <2>2. cs[k].correct \in 0 .. Size /\ cs[k].workflow \in Workflows
    BY <2>1 DEF Candidate, Evaluated
  <2>3. Calls[cs[k].workflow] \in Nat /\ Nodes[cs[k].workflow] \in Nat
    BY <2>2
  <2>4. Size - cs[k].correct \in Nat
    BY <2>2
  <2> QED
    BY <2>2, <2>3, <2>4
<1> HIDE DEF D, missed, calls, nodes
<1>3. PICK k \in D : Leads(D, missed, calls, nodes, k)
  <2>1. Measure(D, missed) /\ Measure(D, calls) /\ Measure(D, nodes)
    BY <1>2 DEF Measure
  <2> QED
    BY <1>1, <2>1, FirstOf
<1>4. ASSUME NEW j \in D
      PROVE  ~Better(cs[j], cs[k]) /\ (j < k => Better(cs[k], cs[j]))
  <2> DEFINE v == cs[j].correct
             u == cs[k].correct
  <2>1. /\ u \in 0 .. Size /\ v \in 0 .. Size
        /\ missed[k] = Size - u /\ missed[j] = Size - v
        /\ calls[k] = Calls[cs[k].workflow] /\ calls[k] \in Nat
        /\ calls[j] = Calls[cs[j].workflow] /\ calls[j] \in Nat
        /\ nodes[k] = Nodes[cs[k].workflow] /\ nodes[k] \in Nat
        /\ nodes[j] = Nodes[cs[j].workflow] /\ nodes[j] \in Nat
        /\ j \in Nat /\ k \in Nat
    BY <1>1, <1>2
  <2> HIDE DEF u, v
  <2>2. v <= u /\ (missed[k] = missed[j] <=> u = v)
    <3>1. Size - u <= Size - v
      BY <1>3, <2>1 DEF Leads
    <3>2. v <= u /\ (Size - u = Size - v <=> u = v)
      <4>1. u \in Nat /\ v \in Nat /\ Size \in Nat
        BY <2>1
      <4> QED
        BY <3>1, <4>1
    <3> QED
      BY <2>1, <3>2
  <2>3. /\ u = v => calls[k] <= calls[j]
        /\ u = v /\ calls[k] = calls[j] => nodes[k] <= nodes[j]
        /\ u = v /\ calls[k] = calls[j] /\ nodes[k] = nodes[j] => k <= j
    BY <1>3, <2>2 DEF Leads
  <2>4. ~ \/ v > u
          \/ /\ v = u
             /\ \/ calls[j] < calls[k]
                \/ calls[j] = calls[k] /\ nodes[j] < nodes[k]
    BY <2>1, <2>2, <2>3
  <2>5. j < k => \/ u > v
                 \/ /\ u = v
                    /\ \/ calls[k] < calls[j]
                       \/ calls[k] = calls[j] /\ nodes[k] < nodes[j]
    BY <2>1, <2>2, <2>3
  <2> QED
    BY <2>1, <2>4, <2>5 DEF Better, u, v
<1> QED
  BY <1>3, <1>4 DEF IsBest, D

(* A search always has a step to make that is not a failure, unless it     *)
(* comes upon a ledger that does not parse or, when searches have          *)
(* overlapped, upon one that another search holds or has used for another  *)
(* workflow.  A search that overlapped none can therefore be stopped from  *)
(* within only by an append that was cut short; and among the candidates   *)
(* there is always a first, so that freezing one never fails.              *)
THEOREM NeverHindered == Spec => []Unhindered
<1> USE AFlowAssumption
<1>1. ASSUME IInv, NEW p \in Searches, ~At(p, "idle")
      PROVE  GoesOn(p) \/ MeetsDamage(p) \/ MeetsAnother(p)
  <2>1. /\ search[p].pc \in Pc /\ search[p].pc # "idle"
        /\ search[p].round \in 0 .. Rounds + 1
        /\ Memory(p) \in Seq(Candidate) /\ Len(Memory(p)) \in 0 .. Rounds + 1
        /\ \A k \in 1 .. search[p].round : k \in DOMAIN Memory(p) /\ Evaluated(Memory(p)[k])
    BY <1>1, SearchFacts DEF At, SearchOK, Memory
  <2>2. CASE search[p].pc = "deciding"
    <3>1. search[p].round <= Len(Memory(p))
      <4>1. CASE search[p].round = 0
        BY <2>1, <4>1
      <4>2. CASE search[p].round # 0
        <5>1. search[p].round \in 1 .. search[p].round
          BY <2>1, <4>2
        <5>2. search[p].round \in DOMAIN Memory(p)
          BY <2>1, <5>1
        <5> QED
          BY <2>1, <5>2
      <4> QED
        BY <4>1, <4>2
    <3>2. search[p].round <= Rounds \/ search[p].round = Rounds + 1
      BY <2>1
    <3> QED
      BY <2>2, <3>1, <3>2 DEF GoesOn, Deciding, At
  <2>3. CASE search[p].pc = "locking"
    <3> DEFINE l == Records(p)
    <3>1. /\ search[p].round \in Round /\ Current(p) \in Candidate /\ l \in Ledger
          /\ l = ledgers[search[p].round]
          /\ l.lock # p
      BY <1>1, <2>3, RoundFacts, SearchFacts DEF InRound, LedgerOK, SearchOK, Records
    <3>2. ASSUME alone PROVE l.lock = None /\ l.header \in {None, Current(p).workflow}
      <4>1. ASSUME NEW q \in Searches, l.lock = q PROVE FALSE
        <5>1. search[q].pc = "evaluating"
          BY <1>1, <3>1, <4>1, SearchFacts DEF SearchOK
        <5>2. p = q
          BY <1>1, <2>1, <3>2, <5>1 DEF IInv, AloneOK
        <5> QED
          BY <2>3, <5>1, <5>2
      <4>2. l.header # None => l.header = saved[search[p].round + 1].workflow
        BY <1>1, <3>1, <3>2, AloneFacts DEF Recorded
      <4>3. Memory(p) = saved
        BY <1>1, <2>3, <3>2, AloneFacts
      <4> QED
        BY <3>1, <4>1, <4>2, <4>3 DEF Ledger, Current
    <3>3. /\ l.lock \in Searches \cup {None} /\ l.header \in Workflows \cup {None}
          /\ Current(p).workflow \in Workflows
      BY <3>1 DEF Ledger, Candidate
    <3> HIDE DEF l
    <3>4. CASE l.file = "broken"
      BY <2>3, <3>4 DEF MeetsDamage, l
    <3>5. CASE l.lock = None /\ l.header \in {None, Current(p).workflow} /\ l.file # "broken"
      BY <2>3, <3>5 DEF GoesOn, At, Accepts, l
    <3>6. CASE l.lock # None \/ l.header \notin {None, Current(p).workflow}
      <4>1. ~alone
        BY <3>2, <3>6
      <4>2. l.lock \in Searches \ {p} \/ l.header \in Workflows \ {Current(p).workflow}
        BY <3>1, <3>3, <3>6
      <4> QED
        BY <2>3, <4>1, <4>2 DEF MeetsAnother, At, l
    <3> QED
      BY <3>4, <3>5, <3>6
  <2>4. CASE search[p].pc = "reading"
    BY <2>4 DEF GoesOn, MeetsDamage, At
  <2>5. CASE search[p].pc = "freezing"
    <3>1. search[p].round = Rounds + 1
      BY <1>1, <2>5, SearchFacts DEF SearchOK
    <3>2. /\ \A k \in 1 .. Rounds + 1 : k \in DOMAIN Memory(p) /\ Evaluated(Memory(p)[k])
          /\ DOMAIN Memory(p) = 1 .. Len(Memory(p)) /\ Len(Memory(p)) <= Rounds + 1
      BY <2>1, <3>1
    <3>3. Memory(p) # <<>> /\ \A k \in DOMAIN Memory(p) : Evaluated(Memory(p)[k])
      <4>1. 1 \in 1 .. Rounds + 1
        OBVIOUS
      <4> QED
        BY <2>1, <3>2, <4>1
    <3>4. \E k : IsBest(Memory(p), k)
      BY <2>1, <3>3, BestExists
    <3> QED
      BY <2>5, <3>4 DEF GoesOn, At
  <2> QED
    BY <2>1, <2>2, <2>3, <2>4, <2>5 DEF GoesOn, At, Pc
<1>2. IInv => Unhindered
  BY <1>1 DEF Unhindered
<1> QED
  BY <1>2, Invariant, PTL

LEMMA Products ==
  ASSUME NEW k \in Nat
  PROVE  /\ \A a \in Nat : a * k \in Nat
         /\ \A b \in Nat : \A a \in 0 .. b : a * k <= b * k
         /\ \A a \in Int : (a + 1) * k = a * k + k
BY SMT

(* The work of the rounds that follow that of m.                           *)
Later(m) == (Rounds - m.round) * RoundWork

LEMMA LaterFacts ==
  ASSUME NEW m, m.round \in 0 .. Rounds
  PROVE  /\ Later(m) \in Nat
         /\ Later(m) + RoundWork <= (Rounds + 1) * RoundWork
         /\ (Rounds + 1 - m.round) * RoundWork = Later(m) + RoundWork
<1> USE AFlowAssumption
<1> DEFINE a == Rounds - m.round
           k == RoundWork
<1>1. k \in Nat /\ a \in 0 .. Rounds /\ Rounds \in Nat /\ Rounds + 1 - m.round = a + 1
      /\ a + 1 \in 0 .. (Rounds + 1) /\ Later(m) = a * k
  BY DEF RoundWork, Later
<1> HIDE DEF a, k
<1>2. a * k \in Nat /\ (a + 1) * k = a * k + k /\ (a + 1) * k <= (Rounds + 1) * k
  BY <1>1, Products
<1> QED
  BY <1>1, <1>2 DEF k

(* The ledger of a search that evaluates has room for what is left.        *)
LEMMA AheadRange ==
  ASSUME NEW ls, LedgersOK(ls), NEW m, m.round \in Round
  PROVE  /\ Ahead(ls, m) \in 1 .. (Size + 5)
         /\ Len(ls[m.round].scores) \in 0 .. Size
<1> DEFINE used == Len(ls[m.round].scores)
<1>1. used \in 0 .. Size /\ Size \in Nat
  <2>1. ls[m.round].scores \in Seq(BOOLEAN) /\ used <= Size
    BY DEF LedgersOK, LedgerOK, Ledger
  <2> QED
    BY <2>1, AFlowAssumption
<1>2. Ahead(ls, m) \in {Size - used + 4, Size + 5, 3}
  BY DEF Ahead
<1> HIDE DEF used
<1>3. Size - used + 4 \in 1 .. (Size + 5) /\ Size + 5 \in 1 .. (Size + 5)
      /\ 3 \in 1 .. (Size + 5)
  BY <1>1
<1>4. Ahead(ls, m) \in 1 .. (Size + 5)
  BY <1>2, <1>3
<1> QED
  BY <1>1, <1>4 DEF used

LEMMA RemainingRange ==
  ASSUME IInv, NEW p \in Searches
  PROVE  /\ Remaining(ledgers, search[p]) \in 0 .. ((Rounds + 1) * RoundWork + 4)
         /\ ~At(p, "idle") => Remaining(ledgers, search[p]) > 0
         /\ search[p].pc \in InRound =>
              Remaining(ledgers, search[p])
                = Later(search[p]) + Ahead(ledgers, search[p])
<1> USE AFlowAssumption
<1> DEFINE m == search[p]
           all == (Rounds + 1) * RoundWork
           r == Remaining(ledgers, m)
<1>1. m.pc \in Pc /\ m.round \in 0 .. Rounds + 1
  BY SearchFacts
<1>2. all \in Nat /\ RoundWork \in Nat
  BY Products DEF RoundWork
<1>3. CASE m.pc \in {"idle", "loading", "creating", "freezing"}
  <2>1. /\ m.pc = "idle" => r = 0
        /\ m.pc = "loading" => r = all + 4
        /\ m.pc = "creating" => r = all + 3
        /\ m.pc = "freezing" => r = 1
    BY DEF Remaining
  <2> HIDE DEF all, r
  <2>2. r \in 0 .. (all + 4) /\ (m.pc # "idle" => r > 0)
    BY <1>2, <1>3, <2>1
  <2> QED
    BY <1>3, <2>2 DEF all, r, At, InRound
<1>4. CASE m.pc = "deciding"
  <2>1. r = (Rounds + 1 - m.round) * RoundWork + 2
    BY <1>4 DEF Remaining
  <2> DEFINE n == Rounds + 1 - m.round
  <2>2. n \in 0 .. (Rounds + 1) /\ n \in Nat /\ Rounds + 1 \in Nat
    BY <1>1
  <2>3. n * RoundWork \in Nat /\ n * RoundWork <= all
    <3> HIDE DEF n
    <3> QED
      BY <1>2, <2>2, Products
  <2> DEFINE x == n * RoundWork
  <2>4. x \in Nat /\ x <= all /\ r = x + 2
    BY <2>1, <2>3
  <2> HIDE DEF x, all, r
  <2>5. r \in 0 .. (all + 4) /\ r > 0
    BY <1>2, <2>4
  <2> QED
    BY <1>4, <2>5 DEF all, r, InRound
<1>5. CASE m.pc \in InRound
  <2> DEFINE x == Later(m)
             a == Ahead(ledgers, m)
  <2>1. x \in Nat /\ x + RoundWork <= all
    BY <1>5, RoundFacts, LaterFacts DEF Round
  <2>2. a \in 1 .. (Size + 5)
    BY <1>5, RoundFacts, SearchFacts, AheadRange
  <2>3. r = x + a
    BY <1>5 DEF Remaining, Later, InRound
  <2> HIDE DEF x, a, r, all
  <2>4. r \in 0 .. (all + 4) /\ r > 0
    BY <1>2, <2>1, <2>2, <2>3 DEF RoundWork
  <2> QED
    BY <2>3, <2>4 DEF x, a, r, all
<1> QED
  BY <1>1, <1>3, <1>4, <1>5 DEF Pc, InRound

(* The bound on the steps that a search still makes.                       *)
THEOREM StepsBounded ==
  Spec => [](\A p \in Searches :
               Remaining(ledgers, search[p]) \in 0 .. ((Rounds + 1) * (Size + 4) + 4))
<1>1. IInv => \A p \in Searches :
                Remaining(ledgers, search[p]) \in 0 .. ((Rounds + 1) * (Size + 4) + 4)
  BY RemainingRange DEF RoundWork
<1> QED
  BY <1>1, Invariant, PTL

StepOf(p) ==
  \/ Begin(p) \/ Load(p) \/ LoadNothing(p) \/ SaveInitial(p)
  \/ Skip(p) \/ Resume(p) \/ Propose(p)
  \/ Lock(p) \/ Commit(p) \/ Finish(p) \/ Record(p)
  \/ Complete(p) \/ Freeze(p)
  \/ Stop(p) \/ StopInAppend(p)

(* A step of p writes at most the ledger of its round, and that one only   *)
(* when no other search has locked it.                                     *)
LEMMA WritesOwn ==
  ASSUME IInv, NEW p \in Searches, StepOf(p)
  PROVE  \/ UNCHANGED ledgers
         \/ /\ \E l : Write(p, l)
            /\ search[p].pc \in InRound
            /\ At(p, "locking") => Records(p).lock = None
            /\ search[p].pc \in {"locking", "evaluating"}
<1>1. CASE \/ Begin(p) \/ Load(p) \/ LoadNothing(p) \/ SaveInitial(p)
           \/ Skip(p) \/ Resume(p) \/ Propose(p) \/ Record(p)
           \/ Complete(p) \/ Freeze(p)
  BY <1>1 DEF Begin, Load, LoadNothing, SaveInitial, Skip, Resume, Propose,
     Record, Complete, Freeze
<1>2. CASE Lock(p)
  BY <1>2 DEF Lock, At, InRound
<1>3. CASE Commit(p) \/ Finish(p) \/ StopInAppend(p)
  BY <1>3 DEF Commit, Finish, StopInAppend, Pending, At, InRound
<1>4. CASE Stop(p)
  BY <1>4 DEF Stop, At, InRound
<1> QED
  BY <1>1, <1>2, <1>3, <1>4 DEF StepOf

(* A step of p leaves all other searches what they had.                    *)
LEMMA OthersWork ==
  ASSUME IInv, NEW p \in Searches, StepOf(p), NEW q \in Searches \ {p}
  PROVE  Remaining(ledgers', search'[q]) = Remaining(ledgers, search[q])
<1> DEFINE m == search[q]
<1>1. search'[q] = m
  <2>1. \E n : search' = [search EXCEPT ![p] = n] \/ search' = search
    BY DEF StepOf, Begin, Load, LoadNothing, SaveInitial, Skip, Resume, Propose, Lock,
       Commit, Finish, Record, Complete, Freeze, Stop, StopInAppend, GoTo
  <2> QED
    BY <2>1 DEF IInv
<1>2. ASSUME m.pc = "evaluating" PROVE ledgers'[m.round] = ledgers[m.round]
  <2>1. m.round \in Round /\ ledgers[m.round].lock = q
    BY <1>2, SearchFacts, RoundFacts DEF SearchOK, InRound
  <2>2. ASSUME NEW l, Write(p, l), search[p].pc \in InRound,
               At(p, "locking") => Records(p).lock = None,
               search[p].pc \in {"locking", "evaluating"}
        PROVE  ledgers'[m.round] = ledgers[m.round]
    <3>1. search[p].round \in Round /\ ledgers \in [Round -> Ledger]
      BY <2>2, RoundFacts DEF IInv, Shared, LedgersOK
    <3>2. search[p].round # m.round
      <4>1. SUFFICES ASSUME search[p].round = m.round PROVE FALSE
        OBVIOUS
      <4>2. Records(p).lock = q
        BY <2>1, <4>1 DEF Records
      <4>3. search[p].pc = "evaluating"
        BY <2>2, <4>2, AFlowAssumption DEF At
      <4>4. Records(p).lock = p
        BY <3>1, <4>3, SearchFacts DEF SearchOK, Records
      <4> QED
        BY <4>2, <4>4
    <3> QED
      BY <2>1, <2>2, <3>1, <3>2 DEF Write
  <2>3. UNCHANGED ledgers => ledgers'[m.round] = ledgers[m.round]
    OBVIOUS
  <2> QED
    BY <2>2, <2>3, WritesOwn
<1>3. Ahead(ledgers', m) = Ahead(ledgers, m)
  BY <1>2 DEF Ahead
<1> QED
  BY <1>1, <1>3 DEF Remaining

(* A step of p leaves it less to do.                                       *)
LEMMA OwnWork ==
  ASSUME IInv, IInv', NEW p \in Searches, StepOf(p), ~At(p, "idle")
  PROVE  Remaining(ledgers', search'[p]) < Remaining(ledgers, search[p])
<1> USE AFlowAssumption
<1> DEFINE m == search[p]
           n == search'[p]
           all == (Rounds + 1) * RoundWork
           before == Remaining(ledgers, m)
           after == Remaining(ledgers', n)
<1>1. /\ search \in [Searches -> Search] /\ m \in Search
      /\ before \in Nat /\ before > 0
      /\ m.round \in 0 .. Rounds + 1
  <2>1. before \in 0 .. (all + 4) /\ before > 0
    BY RemainingRange
  <2>2. all \in Nat
    BY Products DEF RoundWork
  <2> HIDE DEF before, all
  <2>3. before \in Nat
    BY <2>1, <2>2
  <2> QED
    BY <2>1, <2>3, SearchFacts DEF IInv
<1>3. CASE Load(p) \/ LoadNothing(p) \/ SaveInitial(p)
  <2>1. m.round = 0
    BY <1>3, SearchFacts DEF SearchOK, Load, LoadNothing, SaveInitial, At
  <2>2. /\ n.round = 0
        /\ \/ m.pc = "loading" /\ n.pc \in {"deciding", "creating"}
           \/ m.pc = "creating" /\ n.pc = "deciding"
    BY <1>1, <1>3, <2>1 DEF Load, LoadNothing, SaveInitial, GoTo, At, Search
  <2>3. (Rounds + 1 - n.round) * RoundWork = all
    BY <2>2
  <2>4. /\ m.pc = "loading" => before = all + 4
        /\ m.pc = "creating" => before = all + 3
        /\ n.pc = "creating" => after = all + 3
        /\ n.pc = "deciding" => after = all + 2
    BY <2>3 DEF Remaining
  <2>5. all \in Nat
    BY Products DEF RoundWork
  <2> HIDE DEF all, before, after
  <2>6. after < before
    BY <2>2, <2>4, <2>5
  <2> QED
    BY <2>6 DEF before, after
<1>4. CASE Stop(p) \/ StopInAppend(p) \/ Freeze(p)
  <2>1. n = Idle
    BY <1>1, <1>4 DEF Stop, StopInAppend, Freeze
  <2>2. after = 0
    BY <2>1 DEF Remaining, Idle
  <2> QED
    BY <1>1, <2>2
<1>5. CASE Skip(p)
  <2>1. /\ m.pc = "deciding" /\ n.pc = "deciding" /\ n.round = m.round + 1
        /\ m.round \in 0 .. Rounds
    BY <1>1, <1>5 DEF Skip, Deciding, At, Search
  <2>2. before = (Rounds + 1 - m.round) * RoundWork + 2
    BY <2>1 DEF Remaining
  <2>3. after = (Rounds + 1 - n.round) * RoundWork + 2
    BY <2>1 DEF Remaining
  <2>4. (Rounds + 1 - n.round) * RoundWork = Later(m)
    BY <2>1 DEF Later
  <2>5. (Rounds + 1 - m.round) * RoundWork = Later(m) + RoundWork /\ Later(m) \in Nat
    BY <2>1, LaterFacts
  <2> DEFINE x == Later(m)
  <2> HIDE DEF x
  <2>6. after = x + 2 /\ before = x + RoundWork + 2 /\ x \in Nat
    BY <2>2, <2>3, <2>4, <2>5 DEF x
  <2> HIDE DEF after, before
  <2>7. after < before
    BY <2>6 DEF RoundWork
  <2> QED
    BY <2>7 DEF after, before
<1>6. CASE Resume(p) \/ Propose(p)
  <2>1. /\ m.pc = "deciding" /\ n.pc = "locking" /\ n.round = m.round
        /\ m.round \in 0 .. Rounds
    BY <1>1, <1>6 DEF Resume, Propose, Deciding, At, Search, GoTo
  <2>2. before = (Rounds + 1 - m.round) * RoundWork + 2
    BY <2>1 DEF Remaining
  <2>3. after = Later(m) + (Size + 5)
    <3>1. Ahead(ledgers', n) = Size + 5
      BY <2>1 DEF Ahead
    <3>2. after = Later(m) + Ahead(ledgers', n)
      BY <2>1 DEF Remaining, Later
    <3> QED
      BY <3>1, <3>2
  <2>4. (Rounds + 1 - m.round) * RoundWork = Later(m) + RoundWork /\ Later(m) \in Nat
    BY <2>1, LaterFacts
  <2> DEFINE x == Later(m)
  <2> HIDE DEF x
  <2>5. after = x + (Size + 5) /\ before = x + RoundWork + 2 /\ x \in Nat
    BY <2>2, <2>3, <2>4 DEF x
  <2> HIDE DEF after, before
  <2>6. after < before
    BY <2>5 DEF RoundWork
  <2> QED
    BY <2>6 DEF after, before
<1>7. CASE Complete(p)
  <2>1. m.pc = "deciding" /\ n.pc = "freezing" /\ m.round = Rounds + 1
    BY <1>1, <1>7 DEF Complete, At, GoTo, Search
  <2>2. before = (Rounds + 1 - m.round) * RoundWork + 2 /\ after = 1
    BY <2>1 DEF Remaining
  <2>3. (Rounds + 1 - m.round) * RoundWork = 0
    BY <2>1 DEF RoundWork
  <2> QED
    BY <2>2, <2>3
<1>8. CASE Record(p)
  <2>1. /\ m.pc = "reading" /\ n.pc = "deciding" /\ n.round = m.round + 1
        /\ m.round \in 0 .. Rounds
    BY <1>1, <1>8, RoundFacts DEF Record, At, Search, InRound, Round
  <2>2. before = Later(m) + 3
    <3>1. Ahead(ledgers, m) = 3
      BY <2>1 DEF Ahead
    <3>2. before = Later(m) + Ahead(ledgers, m)
      BY <2>1 DEF Remaining, Later
    <3> QED
      BY <3>1, <3>2
  <2>3. after = (Rounds + 1 - n.round) * RoundWork + 2
    BY <2>1 DEF Remaining
  <2>4. (Rounds + 1 - n.round) * RoundWork = Later(m) /\ Later(m) \in Nat
    BY <2>1, LaterFacts DEF Later
  <2> QED
    BY <2>2, <2>3, <2>4
<1>9. ASSUME m.pc \in InRound, n.pc \in InRound, n.round = m.round,
             Ahead(ledgers', n) < Ahead(ledgers, m)
      PROVE  after < before
  <2> DEFINE x == Later(m)
             a == Ahead(ledgers, m)
             b == Ahead(ledgers', n)
  <2>1. x \in Nat
    BY <1>9, RoundFacts, LaterFacts DEF Round
  <2>2. before = x + a /\ after = x + b
    BY <1>9 DEF Remaining, Later, InRound
  <2>3. a \in Nat /\ b \in Nat
    <3>1. m.round \in Round /\ LedgersOK(ledgers) /\ LedgersOK(ledgers')
      BY <1>9, RoundFacts DEF IInv, Shared
    <3>2. a \in 1 .. (Size + 5) /\ b \in 1 .. (Size + 5)
      BY <1>9, <3>1, AheadRange
    <3> HIDE DEF a, b
    <3> QED
      BY <3>2, AFlowAssumption
  <2> HIDE DEF x, a, b, before, after
  <2>4. x + b < x + a
    BY <1>9, <2>1, <2>3 DEF a, b
  <2> QED
    BY <2>2, <2>4
<1>10. CASE Lock(p) \/ Commit(p) \/ Finish(p)
  <2> DEFINE l == Records(p)
             k == ledgers'[m.round]
  <2>1. /\ m.pc \in InRound /\ m.round \in Round /\ ledgers \in [Round -> Ledger]
        /\ l = ledgers[m.round] /\ l \in Ledger
        /\ Len(l.scores) \in 0 .. Size /\ Size \in Nat
    <3>1. m.pc \in InRound
      BY <1>10 DEF Lock, Commit, Finish, Pending, At, InRound
    <3>2. m.round \in Round /\ LedgersOK(ledgers) /\ LedgerOK(l)
      BY <3>1, RoundFacts DEF IInv, Shared
    <3> QED
      BY <3>1, <3>2, AheadRange DEF LedgersOK, LedgerOK, Records
  <2>2. CASE Lock(p)
    <3>1. m.pc = "locking" /\ n.pc = "evaluating" /\ n.round = m.round
      BY <1>1, <2>2 DEF Lock, At, GoTo, Search
    <3>2. k.scores = l.scores
      BY <2>1, <2>2 DEF Lock, Write, Ledger
    <3>3. Ahead(ledgers', n) = Size - Len(l.scores) + 4 /\ Ahead(ledgers, m) = Size + 5
      BY <3>1, <3>2 DEF Ahead
    <3> DEFINE used == Len(l.scores)
    <3>4. Ahead(ledgers', n) < Ahead(ledgers, m)
      <4>1. /\ Ahead(ledgers', n) = Size - used + 4 /\ Ahead(ledgers, m) = Size + 5
            /\ used \in 0 .. Size
        BY <2>1, <3>3
      <4> HIDE DEF used, m, n
      <4> QED
        BY <4>1
    <3> QED
      BY <1>9, <3>1, <3>4 DEF InRound
  <2>3. CASE Commit(p)
    <3>1. m.pc = "evaluating" /\ n = m
      BY <1>1, <2>3 DEF Commit, Pending, At
    <3>2. PICK b \in BOOLEAN : k = Appended(l, Current(p).workflow, b)
      BY <2>1, <2>3 DEF Commit, Write
    <3>3. Len(k.scores) = Len(l.scores) + 1
      <4>1. k.scores = Append(l.scores, b) /\ l.scores \in Seq(BOOLEAN)
        BY <2>1, <3>2 DEF Appended, Ledger
      <4> QED
        BY <4>1
    <3>4. /\ Ahead(ledgers', n) = Size - Len(k.scores) + 4
          /\ Ahead(ledgers, m) = Size - Len(l.scores) + 4
      BY <2>1, <3>1 DEF Ahead
    <3> DEFINE used == Len(l.scores)
    <3>5. /\ used \in 0 .. Size
          /\ Ahead(ledgers', n) = Size - (used + 1) + 4
          /\ Ahead(ledgers, m) = Size - used + 4
      BY <2>1, <3>3, <3>4
    <3>6. Ahead(ledgers', n) < Ahead(ledgers, m)
      <4> HIDE DEF used
      <4> QED
        BY <2>1, <3>5
    <3> QED
      BY <1>9, <3>1, <3>6 DEF InRound
  <2>4. CASE Finish(p)
    <3>1. m.pc = "evaluating" /\ n.pc = "reading" /\ n.round = m.round
      BY <1>1, <2>4 DEF Finish, At, GoTo, Search
    <3>2. Ahead(ledgers', n) = 3 /\ Ahead(ledgers, m) = Size - Len(l.scores) + 4
      BY <2>1, <3>1 DEF Ahead
    <3> DEFINE used == Len(l.scores)
    <3>3. Ahead(ledgers', n) < Ahead(ledgers, m)
      <4>1. /\ Ahead(ledgers', n) = 3 /\ Ahead(ledgers, m) = Size - used + 4
            /\ used \in 0 .. Size
        BY <2>1, <3>2
      <4> HIDE DEF used, m, n
      <4> QED
        BY <4>1
    <3> QED
      BY <1>9, <3>1, <3>3 DEF InRound
  <2> QED
    BY <1>10, <2>2, <2>3, <2>4
<1> QED
  BY <1>3, <1>4, <1>5, <1>6, <1>7, <1>8, <1>10 DEF StepOf, Begin, At

(* Every step is a step of some search.  Whichever search makes it has     *)
(* less to do afterwards, unless the step is its start, and all others     *)
(* have as much to do as before.                                           *)
LeavesLess ==
  /\ \E p \in Searches : StepOf(p)
  /\ \A p \in Searches :
       StepOf(p) =>
         /\ At(p, "idle") \/ Remaining(ledgers', search'[p]) < Remaining(ledgers, search[p])
         /\ \A q \in Searches \ {p} : Remaining(ledgers', search'[q]) = Remaining(ledgers, search[q])

(* No search runs forever, whatever others do: from its start it makes at  *)
(* most (Rounds + 1) * (Size + 4) + 4 steps of its own, and by             *)
(* NeverHindered none of them waits for another search.                    *)
THEOREM NoCircles == Spec => [][LeavesLess]_vars
<1>1. ASSUME IInv, IInv', Next PROVE LeavesLess
  <2>1. \E p \in Searches : StepOf(p)
    BY <1>1, Zenon DEF Next, StepOf
  <2>2. ASSUME NEW p \in Searches, StepOf(p)
        PROVE  \/ At(p, "idle")
               \/ Remaining(ledgers', search'[p]) < Remaining(ledgers, search[p])
    BY <1>1, <2>2, OwnWork
  <2>3. ASSUME NEW p \in Searches, StepOf(p), NEW q \in Searches \ {p}
        PROVE  Remaining(ledgers', search'[q]) = Remaining(ledgers, search[q])
    BY <1>1, <2>3, OthersWork
  <2> QED
    BY <2>1, <2>2, <2>3, Zenon DEF LeavesLess
<1>2. IInv /\ [Next]_vars => [LeavesLess]_vars
  BY <1>1, NextKeeps
<1> QED
  BY <1>2, Invariant, PTL DEF Spec
=============================================================================
