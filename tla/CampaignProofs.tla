--------------------------- MODULE CampaignProofs ---------------------------
(***************************************************************************)
(* Proofs about Campaign, for any matrix, dataset size, number of commands *)
(* and versions.  A step is always the step of one command p.  What it     *)
(* does to the directories is summed up by Evolves, and lemma Others shows *)
(* once that this keeps the invariant of every other command; each action  *)
(* then only has to keep that of p.                                        *)
(*                                                                         *)
(* The parts of the invariant are operators of the directories ds and of   *)
(* the state m of a command, so that one lemma serves for both states of a *)
(* step.                                                                   *)
(***************************************************************************)
EXTENDS Campaign, SequenceTheorems, TLAPS

Directories == [Cells -> Seq(Dir)]

Share(m) == Lesser(m.batch, Size)

(* The ledgers of the cells before cell b hold what m was asked for.       *)
Served(ds, m, b) ==
  \A c \in Cells : c < b => \E k \in DOMAIN ds[c] : Share(m) <= ds[c][k].done

(* The plan covers the work left in cell c.                                *)
Covered(ds, m, c) ==
  /\ ds[c] = <<>> => Share(m) <= m.planned[c]
  /\ \A k \in DOMAIN ds[c] : Lesser(m.batch, Size - ds[c][k].done) <= m.planned[c]

(* The plan still covers the work left in the cells from b on.             *)
Covers(ds, m, b) == \A c \in Cells : c >= b => Covered(ds, m, c)

Home(ds, m) == ds[m.cell][m.dir]

Placed(ds, p, m) ==
  /\ m.pc \in InCell => m.cell \in Cells
  /\ m.pc \in InDir => m.dir \in DOMAIN ds[m.cell]
  /\ m.pc = "running" => Home(ds, m).lock = p

Batched == {"running", "summing", "reporting"}

(* What m knows of its batch.                                              *)
OnBatch(ds, m) ==
  /\ m.pc \in Batched => Share(m) <= m.goal
  /\ m.pc = "running" =>
       /\ Home(ds, m).done <= m.goal
       /\ m.new + (m.goal - Home(ds, m).done) <= m.planned[m.cell]
  /\ m.pc = "summing" => m.goal <= Home(ds, m).done
  /\ m.pc = "reporting" => m.goal <= m.seen /\ m.seen <= Home(ds, m).done

InPlan(ds, m) ==
  /\ m.pc \in InCell =>
       /\ m.new <= m.planned[m.cell]
       /\ Covers(ds, m, m.cell + 1)
       /\ Served(ds, m, m.cell)
  /\ m.pc \in InCell \ Batched => m.new = 0 /\ Covered(ds, m, m.cell)
  /\ m.pc = "preflight" => Covers(ds, m, 1)

Ended(ds, m) ==
  m.exit = 0 /\ m.batch > 0 => m.pc = "idle" /\ Served(ds, m, NumCells + 1)

(* A command that has not ended has no exit code.                          *)
Going(m) == m.pc # "idle" => m.exit = None

CommandOK(ds, p, m) ==
  Placed(ds, p, m) /\ OnBatch(ds, m) /\ InPlan(ds, m) /\ Ended(ds, m) /\ Going(m)

(* One directory for a cell, and summaries that count existing records.    *)
Good(ds) ==
  \A c \in Cells :
    /\ Len(ds[c]) <= 1
    /\ \A k \in DOMAIN ds[c] : ds[c][k].summary <= ds[c][k].done

(* A lock that p holds is the one of the ledger it runs on.                *)
Owns(ds, p, m) ==
  \A c \in Cells : \A k \in DOMAIN ds[c] :
    ds[c][k].lock = p => m.pc = "running" /\ m.cell = c /\ m.dir = k

Typed ==
  /\ dirs \in Directories
  /\ cmd \in [Commands -> Command]
  /\ started \in 0 .. MaxCommands

IInv ==
  /\ Typed
  /\ Good(dirs)
  /\ \A p \in Commands : Owns(dirs, p, cmd[p]) /\ CommandOK(dirs, p, cmd[p])

(* What a step of p does to directories ds, giving es: records are only    *)
(* added, a directory only where there was none, and ledgers locked by     *)
(* others stay as they are.                                                *)
Evolves(ds, es, p) ==
  \A c \in Cells :
    /\ DOMAIN ds[c] \subseteq DOMAIN es[c]
    /\ ds[c] # <<>> => DOMAIN es[c] \subseteq DOMAIN ds[c]
    /\ \A k \in DOMAIN ds[c] :
         /\ ds[c][k].done <= es[c][k].done
         /\ \A q \in Commands \ {p} :
              ds[c][k].lock = q => es[c][k].lock = q /\ es[c][k].done = ds[c][k].done
    /\ \A k \in DOMAIN es[c] : \A q \in Commands \ {p} :
         es[c][k].lock = q => k \in DOMAIN ds[c] /\ ds[c][k].lock = q

----------------------------------------------------------------------------
(* The smaller of two numbers.                                             *)
LEMMA LesserFacts ==
  ASSUME NEW a \in Int, NEW b \in Int
  PROVE  /\ Lesser(a, b) \in {a, b}
         /\ Lesser(a, b) <= a
         /\ Lesser(a, b) <= b
BY DEF Lesser

(* Directories have records of a known shape.                              *)
LEMMA DirFacts ==
  ASSUME NEW ds \in Directories, NEW c \in Cells
  PROVE  /\ ds[c] \in Seq(Dir)
         /\ Len(ds[c]) \in Nat
         /\ DOMAIN ds[c] = 1 .. Len(ds[c])
         /\ \A k \in DOMAIN ds[c] : ds[c][k] \in Dir /\ ds[c][k].done \in 0 .. Size
         /\ ds[c] = <<>> <=> Len(ds[c]) = 0
<1>1. ds[c] \in Seq(Dir)
  BY DEF Directories
<1>2. \A k \in DOMAIN ds[c] : ds[c][k] \in Dir
  BY <1>1
<1>3. \A k \in DOMAIN ds[c] : ds[c][k].done \in 0 .. Size
  BY <1>2 DEF Dir
<1> QED
  BY <1>1, <1>2, <1>3, EmptySeq

(* Work that was done or covered stays so when directories evolve.         *)
LEMMA Carry ==
  ASSUME NEW ds \in Directories, NEW es \in Directories, NEW p,
         Evolves(ds, es, p), NEW m \in Command
  PROVE  /\ \A b \in Int : Served(ds, m, b) => Served(es, m, b)
         /\ \A c \in Cells : Covered(ds, m, c) => Covered(es, m, c)
         /\ \A b \in Int : Covers(ds, m, b) => Covers(es, m, b)
<1> USE CampaignAssumption
<1>0. m.batch \in Nat /\ m.planned \in [Cells -> 0 .. Size] /\ Share(m) \in Int
  BY DEF Command, Share, Lesser
<1>1. \A b \in Int : Served(ds, m, b) => Served(es, m, b)
  <2> SUFFICES ASSUME NEW b \in Int, Served(ds, m, b), NEW c \in Cells, c < b
               PROVE  \E k \in DOMAIN es[c] : Share(m) <= es[c][k].done
    BY DEF Served
  <2>1. PICK k \in DOMAIN ds[c] : Share(m) <= ds[c][k].done
    BY DEF Served
  <2>2. k \in DOMAIN es[c] /\ ds[c][k].done <= es[c][k].done
    BY DEF Evolves
  <2> QED
    BY <1>0, <2>1, <2>2, DirFacts, Share(m) <= es[c][k].done
<1>2. ASSUME NEW c \in Cells, Covered(ds, m, c) PROVE Covered(es, m, c)
  <2>1. ASSUME es[c] = <<>> PROVE Share(m) <= m.planned[c]
    <3>1. DOMAIN ds[c] \subseteq DOMAIN es[c]
      BY DEF Evolves
    <3>2. ds[c] = <<>>
      BY <2>1, <3>1, DirFacts
    <3> QED
      BY <3>2, <1>2 DEF Covered
  <2>2. ASSUME NEW k \in DOMAIN es[c]
        PROVE  Lesser(m.batch, Size - es[c][k].done) <= m.planned[c]
    <3>0. es[c][k].done \in 0 .. Size
      BY DirFacts
    <3>1. CASE ds[c] = <<>>
      BY <3>0, <3>1, <1>0, <1>2 DEF Covered, Share, Lesser
    <3>2. CASE ds[c] # <<>>
      <4>1. k \in DOMAIN ds[c] /\ ds[c][k].done <= es[c][k].done
        BY <3>2 DEF Evolves
      <4>2. ds[c][k].done \in 0 .. Size
        BY <4>1, DirFacts
      <4>3. Lesser(m.batch, Size - ds[c][k].done) <= m.planned[c]
        BY <4>1, <1>2 DEF Covered
      <4> QED
        BY <3>0, <4>1, <4>2, <4>3, <1>0 DEF Lesser
    <3> QED
      BY <3>1, <3>2
  <2> QED
    BY <2>1, <2>2 DEF Covered
<1> QED
  BY <1>1, <1>2 DEF Covers

(* A step of p keeps the invariant of every other command.                 *)
LEMMA Others ==
  ASSUME NEW ds \in Directories, NEW es \in Directories,
         NEW p \in Commands, Evolves(ds, es, p),
         NEW q \in Commands, q # p, NEW m \in Command,
         Owns(ds, q, m), CommandOK(ds, q, m)
  PROVE  Owns(es, q, m) /\ CommandOK(es, q, m)
<1> USE CampaignAssumption
<1>1. Owns(es, q, m)
  BY DEF Owns, Evolves
<1>2. Placed(es, q, m)
  <2>1. m.pc \in InDir => m.dir \in DOMAIN es[m.cell]
    BY DEF CommandOK, Placed, Evolves, InCell
  <2>2. m.pc = "running" => Home(es, m).lock = q
    BY DEF CommandOK, Placed, Evolves, InCell, InDir, Home
  <2> QED
    BY <2>1, <2>2 DEF CommandOK, Placed
<1>3. OnBatch(es, m)
  <2>1. m.pc = "running" => Home(es, m).done = Home(ds, m).done
    BY DEF CommandOK, Placed, Evolves, InCell, InDir, Home
  <2>2. ASSUME m.pc \in {"summing", "reporting"}
        PROVE  /\ Home(ds, m).done <= Home(es, m).done
               /\ Home(ds, m).done \in Int
               /\ Home(es, m).done \in Int
    <3>1. m.cell \in Cells /\ m.dir \in DOMAIN ds[m.cell]
      BY <2>2 DEF CommandOK, Placed, InCell, InDir
    <3>2. m.dir \in DOMAIN es[m.cell] /\ Home(ds, m).done <= Home(es, m).done
      BY <3>1 DEF Evolves, Home
    <3> QED
      BY <3>1, <3>2, DirFacts DEF Home
  <2>3. m.goal \in Int /\ m.seen \in Int
    BY DEF Command
  <2> QED
    BY <2>1, <2>2, <2>3 DEF CommandOK, OnBatch
<1>4. m.cell \in Int
  BY DEF Command
<1>5. InPlan(es, m)
  BY <1>4, Carry DEF CommandOK, InPlan, Placed
<1>6. Ended(es, m)
  BY Carry DEF CommandOK, Ended
<1> QED
  BY <1>1, <1>2, <1>3, <1>5, <1>6 DEF CommandOK

(* The invariant after a step of p, from what p itself must keep.          *)
LEMMA Finale ==
  ASSUME IInv, NEW p \in Commands, NEW m \in Command,
         cmd' = [cmd EXCEPT ![p] = m], started' \in 0 .. MaxCommands,
         dirs' \in Directories, Good(dirs'), Evolves(dirs, dirs', p),
         Owns(dirs', p, m), CommandOK(dirs', p, m)
  PROVE  IInv'
<1>1. Typed'
  BY DEF IInv, Typed
<1>2. ASSUME NEW q \in Commands
      PROVE  Owns(dirs', q, cmd'[q]) /\ CommandOK(dirs', q, cmd'[q])
  <2>1. CASE q = p
    BY <2>1 DEF IInv, Typed
  <2>2. CASE q # p
    <3>1. cmd'[q] = cmd[q] /\ cmd[q] \in Command
      BY <2>2 DEF IInv, Typed
    <3> QED
      BY <2>2, <3>1, Others DEF IInv, Typed
  <2> QED
    BY <2>1, <2>2
<1> QED
  BY <1>1, <1>2 DEF IInv

(* Directories that stay the same.                                         *)
LEMMA Same ==
  ASSUME NEW ds \in Directories, NEW p
  PROVE  Evolves(ds, ds, p)
BY DirFacts DEF Evolves

Replaced(ds, c, k, d) == [ds EXCEPT ![c][k] = d]

(* Directories in which the state of one of them is replaced.              *)
LEMMA Replace ==
  ASSUME NEW ds \in Directories, Good(ds), NEW p \in Commands,
         NEW c \in Cells, NEW k \in DOMAIN ds[c], NEW d \in Dir,
         NEW es, es = Replaced(ds, c, k, d),
         ds[c][k].done <= d.done, d.summary <= d.done,
         \/ ds[c][k].lock \in {p, None} /\ d.lock \in {p, None}
         \/ ds[c][k].lock = d.lock /\ ds[c][k].done = d.done
  PROVE  /\ es \in Directories
         /\ Good(es)
         /\ Evolves(ds, es, p)
         /\ es[c][k] = d
         /\ \A b \in Cells : DOMAIN es[b] = DOMAIN ds[b]
         /\ \A b \in Cells : \A j \in DOMAIN ds[b] :
              b # c \/ j # k => es[b][j] = ds[b][j]
<1> USE CampaignAssumption
<1>1. es[c] = [ds[c] EXCEPT ![k] = d] /\ \A b \in Cells \ {c} : es[b] = ds[b]
  BY DEF Directories, Replaced
<1>2. es[c] \in Seq(Dir) /\ Len(es[c]) = Len(ds[c]) /\ DOMAIN es[c] = DOMAIN ds[c]
  <2> DEFINE s == ds[c]
  <2>1. s \in Seq(Dir) /\ k \in 1 .. Len(s)
    BY DirFacts
  <2> HIDE DEF s
  <2>2. [s EXCEPT ![k] = d] \in Seq(Dir) /\ Len([s EXCEPT ![k] = d]) = Len(s)
    BY <2>1, ExceptSeq
  <2>3. DOMAIN [s EXCEPT ![k] = d] = DOMAIN s
    OBVIOUS
  <2> QED
    BY <1>1, <2>2, <2>3 DEF s
<1>3. es[c][k] = d /\ \A j \in DOMAIN ds[c] \ {k} : es[c][j] = ds[c][j]
  <2> DEFINE s == ds[c]
  <2>1. k \in DOMAIN s /\ es[c] = [s EXCEPT ![k] = d]
    BY <1>1
  <2> HIDE DEF s
  <2>2. es[c][k] = d /\ \A j \in DOMAIN s \ {k} : es[c][j] = s[j]
    BY <2>1
  <2> QED
    BY <2>2 DEF s
<1>4. es \in Directories
  BY <1>1, <1>2 DEF Directories, Replaced
<1>5. \A b \in Cells : DOMAIN es[b] = DOMAIN ds[b] /\ Len(es[b]) = Len(ds[b])
  BY <1>1, <1>2
<1>6. \A b \in Cells : \A j \in DOMAIN ds[b] : b # c \/ j # k => es[b][j] = ds[b][j]
  BY <1>1, <1>3
<1>7. Good(es)
  BY <1>3, <1>5, <1>6 DEF Good
<1>8. Evolves(ds, es, p)
  <2> SUFFICES ASSUME NEW b \in Cells, NEW j \in DOMAIN ds[b]
               PROVE  /\ ds[b][j].done <= es[b][j].done
                      /\ \A q \in Commands \ {p} :
                           /\ ds[b][j].lock = q =>
                                es[b][j].lock = q /\ es[b][j].done = ds[b][j].done
                           /\ es[b][j].lock = q => ds[b][j].lock = q
    BY <1>5 DEF Evolves
  <2>1. CASE b = c /\ j = k
    BY <2>1, <1>3
  <2>2. CASE b # c \/ j # k
    BY <2>2, <1>6, DirFacts
  <2> QED
    BY <2>1, <2>2
<1> QED
  BY <1>3, <1>4, <1>5, <1>6, <1>7, <1>8

Extended(ds, c) == [ds EXCEPT ![c] = Append(@, NewDir)]

(* Directories in which a cell gets its first one.                         *)
LEMMA First ==
  ASSUME NEW ds \in Directories, Good(ds), NEW p \in Commands,
         NEW c \in Cells, Len(ds[c]) = 0,
         NEW es, es = Extended(ds, c)
  PROVE  /\ es \in Directories
         /\ Good(es)
         /\ Evolves(ds, es, p)
         /\ DOMAIN es[c] = {1}
         /\ es[c][1] = NewDir
         /\ \A b \in Cells \ {c} : es[b] = ds[b]
<1> USE CampaignAssumption
<1>1. NewDir \in Dir /\ NewDir.lock = None /\ NewDir.summary <= NewDir.done
  BY DEF NewDir, Dir
<1>2. es[c] = Append(ds[c], NewDir) /\ \A b \in Cells \ {c} : es[b] = ds[b]
  BY DEF Directories, Extended
<1>3. ds[c] \in Seq(Dir)
  BY DirFacts
<1>4. /\ es[c] \in Seq(Dir)
      /\ Len(es[c]) = 1
      /\ DOMAIN es[c] = {1}
      /\ es[c][1] = NewDir
  BY <1>1, <1>2, <1>3
<1>5. es \in Directories
  BY <1>2, <1>4 DEF Directories, Extended
<1>6. DOMAIN ds[c] = {} /\ ds[c] = <<>>
  BY <1>3, DirFacts
<1>7. Good(es)
  BY <1>1, <1>2, <1>4 DEF Good
<1>8. Evolves(ds, es, p)
  <2> SUFFICES ASSUME NEW b \in Cells
               PROVE  /\ DOMAIN ds[b] \subseteq DOMAIN es[b]
                      /\ ds[b] # <<>> => DOMAIN es[b] \subseteq DOMAIN ds[b]
                      /\ \A k \in DOMAIN ds[b] :
                           /\ ds[b][k].done <= es[b][k].done
                           /\ \A q \in Commands \ {p} :
                                ds[b][k].lock = q =>
                                  es[b][k].lock = q /\ es[b][k].done = ds[b][k].done
                      /\ \A k \in DOMAIN es[b] : \A q \in Commands \ {p} :
                           es[b][k].lock = q =>
                             k \in DOMAIN ds[b] /\ ds[b][k].lock = q
    BY DEF Evolves
  <2>1. CASE b = c
    BY <1>1, <1>4, <1>6, <2>1
  <2>2. CASE b # c
    BY <1>2, <2>2, DirFacts
  <2> QED
    BY <2>1, <2>2
<1> QED
  BY <1>2, <1>4, <1>5, <1>7, <1>8

----------------------------------------------------------------------------
(* The invariant, for one command and its cell.                            *)
LEMMA CommandFacts ==
  ASSUME IInv, NEW p \in Commands
  PROVE  /\ dirs \in Directories /\ Good(dirs)
         /\ Owns(dirs, p, cmd[p]) /\ CommandOK(dirs, p, cmd[p])
         /\ cmd[p] \in Command
         /\ cmd[p].batch \in Nat /\ cmd[p].cell \in 0 .. NumCells
         /\ cmd[p].goal \in 0 .. Size /\ cmd[p].seen \in 0 .. Size
         /\ cmd[p].new \in 0 .. Size /\ cmd[p].planned \in [Cells -> 0 .. Size]
         /\ cmd[p].config \in Versions \cup {None}
         /\ cmd[p].version \in Versions \cup {None}
         /\ \A c \in Cells :
              Len(dirs[c]) \in {0, 1} /\ DOMAIN dirs[c] = 1 .. Len(dirs[c])
<1>1. dirs \in Directories /\ Good(dirs) /\ cmd[p] \in Command
  BY DEF IInv, Typed
<1>2. Owns(dirs, p, cmd[p]) /\ CommandOK(dirs, p, cmd[p])
  BY DEF IInv
<1>3. \A c \in Cells : Len(dirs[c]) \in {0, 1} /\ DOMAIN dirs[c] = 1 .. Len(dirs[c])
  <2> TAKE c \in Cells
  <2>1. Len(dirs[c]) \in Nat /\ DOMAIN dirs[c] = 1 .. Len(dirs[c])
    BY <1>1, DirFacts
  <2>2. Len(dirs[c]) <= 1
    BY <1>1 DEF Good
  <2>3. \A n \in Nat : n <= 1 => n \in {0, 1}
    OBVIOUS
  <2> QED
    BY <2>1, <2>2, <2>3, Zenon
<1> QED
  BY <1>1, <1>2, <1>3 DEF Command

(* The directory p works in.                                               *)
LEMMA HereFacts ==
  ASSUME IInv, NEW p \in Commands, cmd[p].pc \in InDir
  PROVE  /\ cmd[p].cell \in Cells
         /\ cmd[p].dir \in DOMAIN dirs[cmd[p].cell]
         /\ Here(p) \in Dir
         /\ Here(p).done \in 0 .. Size
         /\ Here(p).summary <= Here(p).done
         /\ At(p, "running") => Here(p).lock = p
<1>1. cmd[p].cell \in Cells /\ cmd[p].dir \in DOMAIN dirs[cmd[p].cell]
  BY CommandFacts DEF CommandOK, Placed, InCell
<1>2. Here(p) \in Dir /\ Here(p).summary <= Here(p).done
  BY <1>1, CommandFacts, DirFacts DEF Here, Good
<1> QED
  BY <1>1, <1>2, CommandFacts DEF Dir, CommandOK, Placed, Here, Home, At

(* A command that ends, whatever its code, having released its lock.       *)
LEMMA Ends ==
  ASSUME IInv, NEW p \in Commands, NEW code \in {0, 1, 2, 130, None},
         cmd' = [cmd EXCEPT ![p] = [Idle EXCEPT !.exit = code]],
         UNCHANGED started, dirs' \in Directories, Good(dirs'),
         Evolves(dirs, dirs', p),
         \A c \in Cells : \A k \in DOMAIN dirs'[c] : dirs'[c][k].lock # p
  PROVE  IInv'
<1> DEFINE m == [Idle EXCEPT !.exit = code]
<1> USE CampaignAssumption
<1>1. m \in Command
  BY DEF Idle, Command, Pc
<1>2. m.pc = "idle" /\ m.batch = 0
  BY DEF Idle
<1>3. Owns(dirs', p, m)
  BY DEF Owns
<1>4. CommandOK(dirs', p, m)
  BY <1>2 DEF CommandOK, Placed, OnBatch, InPlan, Ended, Going, InCell, InDir, Batched
<1>5. started' \in 0 .. MaxCommands
  BY DEF IInv, Typed
<1> HIDE DEF m
<1> QED
  BY <1>1, <1>3, <1>4, <1>5, Finale DEF m

----------------------------------------------------------------------------
(* A command that does not run holds no lock.                              *)
LEMMA Unowned ==
  ASSUME IInv, NEW p \in Commands, ~At(p, "running")
  PROVE  \A c \in Cells : \A k \in DOMAIN dirs[c] : dirs[c][k].lock # p
BY CommandFacts DEF Owns, At

(* What a put leaves, and what it means for the locks of p.                *)
LEMMA Putting ==
  ASSUME IInv, NEW p \in Commands, cmd[p].pc \in InDir, NEW d \in Dir, Put(p, d),
         Here(p).done <= d.done, d.summary <= d.done,
         \/ Here(p).lock \in {p, None} /\ d.lock \in {p, None}
         \/ Here(p).lock = d.lock /\ Here(p).done = d.done
  PROVE  /\ dirs' \in Directories /\ Good(dirs') /\ Evolves(dirs, dirs', p)
         /\ cmd[p].dir \in DOMAIN dirs'[cmd[p].cell]
         /\ dirs'[cmd[p].cell][cmd[p].dir] = d
         /\ d.lock # p =>
              \A c \in Cells : \A k \in DOMAIN dirs'[c] : dirs'[c][k].lock # p
         /\ \A c \in Cells : \A k \in DOMAIN dirs'[c] :
              dirs'[c][k].lock = p => c = cmd[p].cell /\ k = cmd[p].dir
<1> DEFINE b == cmd[p].cell
           j == cmd[p].dir
<1>1. b \in Cells /\ j \in DOMAIN dirs[b] /\ Here(p) = dirs[b][j]
  BY HereFacts DEF Here
<1>2. dirs \in Directories /\ Good(dirs) /\ Owns(dirs, p, cmd[p])
  BY CommandFacts
<1>3. dirs' = Replaced(dirs, b, j, d)
  BY DEF Put, Replaced
<1>0. /\ dirs[b][j].done <= d.done
      /\ \/ dirs[b][j].lock \in {p, None} /\ d.lock \in {p, None}
         \/ dirs[b][j].lock = d.lock /\ dirs[b][j].done = d.done
  BY DEF Here
<1> HIDE DEF b, j
<1>4. /\ dirs' \in Directories /\ Good(dirs') /\ Evolves(dirs, dirs', p)
      /\ dirs'[b][j] = d
      /\ \A c \in Cells : DOMAIN dirs'[c] = DOMAIN dirs[c]
      /\ \A c \in Cells : \A k \in DOMAIN dirs[c] :
           c # b \/ k # j => dirs'[c][k] = dirs[c][k]
  BY <1>0, <1>1, <1>2, <1>3, Replace
<1>5. ASSUME NEW c \in Cells, NEW k \in DOMAIN dirs'[c], dirs'[c][k].lock = p
      PROVE  c = b /\ k = j
  <2>1. SUFFICES ASSUME c # b \/ k # j PROVE FALSE
    OBVIOUS
  <2>2. k \in DOMAIN dirs[c] /\ dirs[c][k].lock = p
    BY <1>4, <1>5, <2>1
  <2> QED
    BY <1>2, <2>1, <2>2 DEF Owns, b, j
<1> QED
  BY <1>1, <1>4, <1>5 DEF b, j

(* Exit keeps the invariant.                                               *)
LEMMA Exits ==
  ASSUME IInv, NEW p \in Commands, NEW code \in {0, 1, 2, 130, None}, Exit(p, code)
  PROVE  IInv'
<1> USE CampaignAssumption
<1>1. CASE At(p, "running")
  <2>1. cmd[p].pc \in InDir /\ Here(p) \in Dir /\ Here(p).lock = p
        /\ Here(p).done \in 0 .. Size /\ Here(p).summary <= Here(p).done
    BY <1>1, HereFacts DEF At, InDir
  <2>2. /\ Unlocked(Here(p)) \in Dir /\ Unlocked(Here(p)).lock = None
        /\ Unlocked(Here(p)).done = Here(p).done
        /\ Unlocked(Here(p)).summary = Here(p).summary
    BY <2>1 DEF Unlocked, Dir
  <2>3. Put(p, Unlocked(Here(p)))
    BY <1>1 DEF Exit
  <2>4. None # p /\ Here(p).done <= Unlocked(Here(p)).done
    BY <2>1, <2>2
  <2>5. /\ dirs' \in Directories /\ Good(dirs') /\ Evolves(dirs, dirs', p)
        /\ \A c \in Cells : \A k \in DOMAIN dirs'[c] : dirs'[c][k].lock # p
    BY <2>1, <2>2, <2>3, <2>4, Putting
  <2> QED
    BY <2>5, Ends DEF Exit
<1>2. CASE ~At(p, "running")
  <2>1. dirs' = dirs
    BY <1>2 DEF Exit
  <2>2. dirs \in Directories /\ Good(dirs) /\ Evolves(dirs, dirs', p)
    BY <2>1, CommandFacts, Same
  <2>3. \A c \in Cells : \A k \in DOMAIN dirs'[c] : dirs'[c][k].lock # p
    BY <1>2, <2>1, Unowned
  <2>4. dirs' \in Directories /\ Good(dirs') /\ Evolves(dirs, dirs', p)
    BY <2>1, <2>2
  <2> QED
    BY <2>3, <2>4, Ends DEF Exit
<1> QED
  BY <1>1, <1>2

(* The plan of a command depends only on what it was asked and told.       *)
LEMMA Alike ==
  ASSUME NEW ds, NEW m, NEW n, m.batch = n.batch, m.planned = n.planned
  PROVE  /\ Share(m) = Share(n)
         /\ \A b : Served(ds, m, b) = Served(ds, n, b)
         /\ \A c : Covered(ds, m, c) = Covered(ds, n, c)
         /\ \A b : Covers(ds, m, b) = Covers(ds, n, b)
BY DEF Share, Served, Covered, Covers

(* A command with no lock that moves on in its cell, before its batch.     *)
LEMMA Advances ==
  ASSUME IInv, NEW p \in Commands, NEW m \in Command,
         cmd' = [cmd EXCEPT ![p] = m], UNCHANGED started,
         dirs' \in Directories, Good(dirs'), Evolves(dirs, dirs', p),
         \A c \in Cells : \A k \in DOMAIN dirs'[c] : dirs'[c][k].lock # p,
         cmd[p].pc \in InCell \ Batched, m.pc \in InCell \ Batched,
         m.batch = cmd[p].batch, m.planned = cmd[p].planned,
         m.cell = cmd[p].cell, m.new = cmd[p].new, m.exit = cmd[p].exit,
         m.pc \in InDir => m.dir \in DOMAIN dirs'[m.cell]
  PROVE  IInv'
<1> USE CampaignAssumption
<1> DEFINE n == cmd[p]
<1>1. /\ CommandOK(dirs, p, n) /\ dirs \in Directories /\ n \in Command
      /\ n.cell \in 0 .. NumCells
  BY CommandFacts
<1>2. m.pc # "running" /\ m.pc # "idle" /\ n.pc # "idle" /\ m.pc # "preflight"
      /\ m.pc \notin Batched
  BY DEF InCell, InDir, Batched
<1>3. Placed(dirs', p, m)
  BY <1>1, <1>2 DEF CommandOK, Placed
<1>4. OnBatch(dirs', m)
  BY <1>2 DEF OnBatch, Batched
<1>5. /\ Covered(dirs, n, n.cell) /\ Covers(dirs, n, n.cell + 1)
      /\ Served(dirs, n, n.cell) /\ n.new = 0 /\ n.new <= n.planned[n.cell]
      /\ n.cell \in Cells
  BY <1>1 DEF CommandOK, InPlan, Placed
<1>6. /\ Covered(dirs', n, n.cell) /\ Covers(dirs', n, n.cell + 1)
      /\ Served(dirs', n, n.cell)
  BY <1>1, <1>5, Carry
<1>7. InPlan(dirs', m)
  BY <1>2, <1>5, <1>6, Alike DEF InPlan
<1>8. Ended(dirs', m) /\ Going(m)
  BY <1>1, <1>2 DEF CommandOK, Ended, Going
<1>9. Owns(dirs', p, m)
  BY DEF Owns
<1>10. CommandOK(dirs', p, m) /\ started' \in 0 .. MaxCommands
  BY <1>3, <1>4, <1>7, <1>8 DEF CommandOK, IInv, Typed
<1> QED
  BY <1>9, <1>10, Finale

----------------------------------------------------------------------------
(* The same, with the directories as they are.                             *)
LEMMA Moves ==
  ASSUME IInv, NEW p \in Commands, NEW m \in Command,
         cmd' = [cmd EXCEPT ![p] = m], UNCHANGED <<dirs, started>>,
         cmd[p].pc \in InCell \ Batched, m.pc \in InCell \ Batched,
         m.batch = cmd[p].batch, m.planned = cmd[p].planned,
         m.cell = cmd[p].cell, m.new = cmd[p].new, m.exit = cmd[p].exit,
         m.pc \in InDir => m.dir \in DOMAIN dirs[m.cell]
  PROVE  IInv'
<1>1. \A c \in Cells : \A k \in DOMAIN dirs'[c] : dirs'[c][k].lock # p
  BY Unowned DEF At, Batched
<1>2. dirs' \in Directories /\ Good(dirs') /\ Evolves(dirs, dirs', p)
  BY CommandFacts, Same
<1>3. m.pc \in InDir => m.dir \in DOMAIN dirs'[m.cell]
  OBVIOUS
<1> QED
  BY <1>1, <1>2, <1>3, Advances

(* Start.                                                                  *)
LEMMA StartKeeps ==
  ASSUME IInv, NEW p \in Commands, Start(p)
  PROVE  IInv'
<1> USE CampaignAssumption
<1>1. PICK v \in Versions, size \in Batches :
        cmd' = [cmd EXCEPT ![p] =
                  [Idle EXCEPT !.pc = "planning", !.version = v, !.batch = size]]
  BY DEF Start
<1> DEFINE m == [Idle EXCEPT !.pc = "planning", !.version = v, !.batch = size]
<1>2. m \in Command /\ m.pc = "planning" /\ m.exit = None
  <2>1. Idle \in Command /\ Idle.exit = None
    BY DEF Idle, Command, Pc
  <2>2. size \in Nat /\ v \in Versions \cup {None} /\ "planning" \in Pc
    BY DEF Pc
  <2> QED
    BY <2>1, <2>2 DEF Command
<1>3. Owns(dirs, p, m)
  BY Unowned DEF Start, At, Owns
<1>4. CommandOK(dirs, p, m)
  BY <1>2 DEF CommandOK, Placed, OnBatch, InPlan, Ended, Going, InCell, InDir, Batched
<1>5. dirs \in Directories /\ Good(dirs) /\ Evolves(dirs, dirs, p) /\ dirs' = dirs
  BY CommandFacts, Same DEF Start
<1>6. started' \in 0 .. MaxCommands
  BY DEF Start, IInv, Typed
<1> HIDE DEF m
<1> QED
  BY <1>1, <1>2, <1>3, <1>4, <1>5, <1>6, Finale DEF m

(* What the plan takes as the progress of a cell.                          *)
LEMMA CompletedFacts ==
  ASSUME IInv, NEW c \in Cells
  PROVE  /\ Completed(c) \in 0 .. Size
         /\ dirs[c] = <<>> => Completed(c) = 0
         /\ \A k \in DOMAIN dirs[c] : Completed(c) <= dirs[c][k].done
<1> USE CampaignAssumption
<1>1. /\ Len(dirs[c]) \in Nat /\ DOMAIN dirs[c] = 1 .. Len(dirs[c]) /\ Len(dirs[c]) <= 1
      /\ dirs[c] = <<>> => Len(dirs[c]) = 0
      /\ \A k \in DOMAIN dirs[c] : dirs[c][k].done \in 0 .. Size
  BY DirFacts DEF IInv, Typed, Good
<1>2. \A k \in DOMAIN dirs[c] : k = 1
  BY <1>1
<1>3. CASE Matches(c) = {}
  BY <1>1, <1>3 DEF Completed
<1>4. CASE Matches(c) # {}
  <2>1. Matches(c) = {1} /\ 1 \in DOMAIN dirs[c] /\ dirs[c] # <<>>
    BY <1>1, <1>2, <1>4 DEF Matches
  <2>2. \A k \in Matches(c) : IsBest(c, k) <=> k = 1
    BY <2>1 DEF IsBest
  <2>3. (CHOOSE k \in Matches(c) : IsBest(c, k)) = 1
    BY <2>1, <2>2
  <2>4. Completed(c) = dirs[c][1].done
    BY <1>4, <2>3 DEF Completed
  <2> QED
    BY <1>1, <1>2, <2>1, <2>4
<1> QED
  BY <1>3, <1>4

LEMMA PlanKeeps ==
  ASSUME IInv, NEW p \in Commands, Plan(p)
  PROVE  IInv'
<1> USE CampaignAssumption
<1> DEFINE plan == [c \in Cells |-> Target(c, cmd[p].batch)]
           m == [cmd[p] EXCEPT !.pc = "preflight", !.planned = plan]
<1>1. cmd[p] \in Command /\ cmd[p].batch \in Nat /\ cmd[p].pc = "planning"
      /\ dirs \in Directories
  BY CommandFacts DEF Plan, At
<1>2. ASSUME NEW c \in Cells
      PROVE  /\ plan[c] \in 0 .. Size
             /\ dirs[c] = <<>> => Lesser(cmd[p].batch, Size) <= plan[c]
             /\ \A k \in DOMAIN dirs[c] :
                  Lesser(cmd[p].batch, Size - dirs[c][k].done) <= plan[c]
  <2>1. Completed(c) \in 0 .. Size /\ (dirs[c] = <<>> => Completed(c) = 0)
        /\ \A k \in DOMAIN dirs[c] :
             Completed(c) <= dirs[c][k].done /\ dirs[c][k].done \in 0 .. Size
    BY <1>1, CompletedFacts, DirFacts
  <2>2. plan[c] = Lesser(cmd[p].batch, Size - Completed(c))
    BY DEF Target
  <2> HIDE DEF plan
  <2> QED
    BY <1>1, <2>1, <2>2 DEF Lesser
<1>3. plan \in [Cells -> 0 .. Size]
  BY <1>2
<1>4. cmd' = [cmd EXCEPT ![p] = m] /\ dirs' = dirs /\ started' = started
  BY <1>1 DEF Plan, IInv, Typed
<1> HIDE DEF plan
<1>5. m \in Command /\ m.pc = "preflight" /\ m.batch = cmd[p].batch /\ m.planned = plan
      /\ m.exit = cmd[p].exit
  BY <1>1, <1>3 DEF Command, Pc
<1> HIDE DEF m
<1>6. Covers(dirs, m, 1)
  BY <1>2, <1>5 DEF Covers, Covered, Share
<1>7. m.exit # 0
  BY <1>1, <1>5, CommandFacts DEF CommandOK, Going
<1>8. CommandOK(dirs, p, m)
  BY <1>5, <1>6, <1>7, <1>1, CommandFacts
     DEF CommandOK, Placed, OnBatch, InPlan, Ended, Going, InCell, InDir, Batched
<1>9. Owns(dirs, p, m)
  BY <1>1, Unowned DEF At, Owns
<1>10. Good(dirs) /\ Evolves(dirs, dirs, p) /\ started' \in 0 .. MaxCommands
  BY <1>1, <1>4, CommandFacts, Same DEF IInv, Typed
<1> QED
  BY <1>1, <1>4, <1>5, <1>8, <1>9, <1>10, Finale

(* Leaving a cell's predecessor, or the preflight, for cell c.             *)
LEMMA Enters ==
  ASSUME IInv, NEW p \in Commands, NEW c \in Cells, Enter(p, c), UNCHANGED started,
         dirs' \in Directories, Good(dirs'), Evolves(dirs, dirs', p),
         \A b \in Cells : \A k \in DOMAIN dirs'[b] : dirs'[b][k].lock # p,
         cmd[p].pc # "idle",
         Covers(dirs', cmd[p], c), Served(dirs', cmd[p], c)
  PROVE  IInv'
<1> USE CampaignAssumption
<1> DEFINE m == [cmd[p] EXCEPT !.pc = "finding", !.cell = c, !.dir = 0,
                               !.config = None, !.goal = 0, !.seen = 0, !.new = 0]
<1>1. cmd[p] \in Command /\ CommandOK(dirs, p, cmd[p]) /\ cmd[p].planned \in [Cells -> 0 .. Size]
  BY CommandFacts
<1>2. cmd' = [cmd EXCEPT ![p] = m]
  BY DEF Enter, IInv, Typed
<1>3. m \in Command /\ m.pc = "finding" /\ m.cell = c /\ m.new = 0
      /\ m.batch = cmd[p].batch /\ m.planned = cmd[p].planned /\ m.exit = cmd[p].exit
  <2>1. c \in 0 .. NumCells /\ 0 \in 0 .. Size /\ 0 \in Nat /\ "finding" \in Pc
    BY DEF Cells, Pc, InCell
  <2> QED
    BY <1>1, <2>1 DEF Command
<1> HIDE DEF m
<1>4. Covers(dirs', m, c) /\ Served(dirs', m, c)
  BY <1>3, Alike
<1>5. Covered(dirs', m, c) /\ Covers(dirs', m, c + 1)
  BY <1>4 DEF Covers, Cells
<1>6. m.exit # 0
  BY <1>1, <1>3 DEF CommandOK, Going
<1>7. Going(m)
  BY <1>1, <1>3 DEF CommandOK, Going
<1>8. CommandOK(dirs', p, m)
  BY <1>1, <1>3, <1>4, <1>5, <1>6, <1>7
     DEF CommandOK, Placed, OnBatch, InPlan, Ended, InCell, InDir, Batched
<1>9. Owns(dirs', p, m) /\ started' \in 0 .. MaxCommands
  BY DEF Owns, IInv, Typed
<1> QED
  BY <1>2, <1>3, <1>8, <1>9, Finale

LEMMA PreflightKeeps ==
  ASSUME IInv, NEW p \in Commands, Preflight(p)
  PROVE  IInv'
<1> USE CampaignAssumption
<1>1. cmd[p].pc = "preflight" /\ Enter(p, 1) /\ dirs' = dirs /\ UNCHANGED started
  BY DEF Preflight, At
<1>2. 1 \in Cells
  BY DEF Cells
<1>3. Covers(dirs, cmd[p], 1)
  BY <1>1, CommandFacts DEF CommandOK, InPlan
<1>4. Served(dirs, cmd[p], 1)
  BY DEF Served, Cells
<1>5. dirs \in Directories /\ Good(dirs) /\ Evolves(dirs, dirs, p)
      /\ \A b \in Cells : \A k \in DOMAIN dirs[b] : dirs[b][k].lock # p
  BY <1>1, CommandFacts, Same, Unowned DEF At
<1>6. Covers(dirs', cmd[p], 1) /\ Served(dirs', cmd[p], 1)
  BY <1>1, <1>3, <1>4 DEF Covers, Covered, Served
<1> QED
  BY <1>1, <1>2, <1>5, <1>6, Enters

(* The steps that only look, or that change nothing but the label.         *)
LEMMA RelabelKeeps ==
  ASSUME IInv, NEW p \in Commands, NEW label \in InCell \ Batched, GoTo(p, label),
         UNCHANGED <<dirs, started>>, cmd[p].pc \in InCell \ Batched,
         label \in InDir => cmd[p].pc \in InDir
  PROVE  IInv'
<1> DEFINE m == [cmd[p] EXCEPT !.pc = label]
<1>1. cmd[p] \in Command /\ CommandOK(dirs, p, cmd[p])
  BY CommandFacts
<1>2. m \in Command /\ cmd' = [cmd EXCEPT ![p] = m]
  <2>1. label \in Pc
    BY DEF Pc
  <2> QED
    BY <1>1, <2>1 DEF Command, GoTo, IInv, Typed
<1>3. /\ m.pc = label /\ m.batch = cmd[p].batch /\ m.planned = cmd[p].planned
      /\ m.cell = cmd[p].cell /\ m.dir = cmd[p].dir
      /\ m.new = cmd[p].new /\ m.exit = cmd[p].exit
  BY <1>1 DEF Command
<1>4. label \in InDir => m.dir \in DOMAIN dirs[m.cell]
  BY <1>1, <1>3 DEF CommandOK, Placed
<1> HIDE DEF m
<1> QED
  BY <1>2, <1>3, <1>4, Moves

LEMMA LabelSteps ==
  ASSUME IInv, NEW p \in Commands,
         FindNone(p) \/ Look(p) \/ ManifestEqual(p) \/ ManifestMissing(p)
  PROVE  IInv'
<1>1. CASE FindNone(p)
  <2>1. GoTo(p, "claiming") /\ UNCHANGED <<dirs, started>> /\ cmd[p].pc = "finding"
    BY <1>1 DEF FindNone, GoTo, At
  <2> QED
    BY <2>1, RelabelKeeps DEF InCell, InDir, Batched
<1>2. CASE Look(p)
  <2>1. GoTo(p, "creating") /\ UNCHANGED <<dirs, started>> /\ cmd[p].pc = "claiming"
    BY <1>2 DEF Look, GoTo, At
  <2> QED
    BY <2>1, RelabelKeeps DEF InCell, InDir, Batched
<1>3. CASE ManifestEqual(p)
  <2>1. GoTo(p, "counting") /\ UNCHANGED <<dirs, started>> /\ cmd[p].pc = "ensuring"
    BY <1>3 DEF ManifestEqual, At
  <2> QED
    BY <2>1, RelabelKeeps DEF InCell, InDir, Batched
<1>4. CASE ManifestMissing(p)
  <2>1. GoTo(p, "writing") /\ UNCHANGED <<dirs, started>> /\ cmd[p].pc = "ensuring"
    BY <1>4 DEF ManifestMissing, At
  <2> QED
    BY <2>1, RelabelKeeps DEF InCell, InDir, Batched
<1> QED
  BY <1>1, <1>2, <1>3, <1>4

(* Taking a directory that exists, or the one just made.                   *)
LEMMA UseFacts ==
  ASSUME IInv, NEW p \in Commands, NEW k \in Nat, NEW v \in Versions \cup {None},
         Use(p, k, v), cmd[p].pc \in InCell \ Batched
  PROVE  \E m \in Command :
           /\ cmd' = [cmd EXCEPT ![p] = m] /\ m.pc \in InCell \ Batched
           /\ m.batch = cmd[p].batch /\ m.planned = cmd[p].planned
           /\ m.cell = cmd[p].cell /\ m.new = cmd[p].new /\ m.exit = cmd[p].exit
           /\ m.dir = k
<1> DEFINE m == [cmd[p] EXCEPT !.pc = "ensuring", !.dir = k, !.config = v]
<1>1. cmd[p] \in Command
  BY CommandFacts
<1>2. cmd' = [cmd EXCEPT ![p] = m]
  BY DEF Use, IInv, Typed
<1>3. m \in Command
  <2>1. "ensuring" \in Pc
    BY DEF Pc, InCell, InDir
  <2> QED
    BY <1>1, <2>1 DEF Command
<1>4. m.pc \in InCell \ Batched
  BY <1>1 DEF Command, InCell, InDir, Batched
<1>5. /\ m.batch = cmd[p].batch /\ m.planned = cmd[p].planned
      /\ m.cell = cmd[p].cell /\ m.new = cmd[p].new /\ m.exit = cmd[p].exit
      /\ m.dir = k
  BY <1>1 DEF Command
<1> HIDE DEF m
<1> QED
  BY <1>2, <1>3, <1>4, <1>5

LEMMA UsedKeeps ==
  ASSUME IInv, NEW p \in Commands, NEW k, NEW v \in Versions \cup {None},
         Use(p, k, v), UNCHANGED <<dirs, started>>, cmd[p].pc \in InCell \ Batched,
         k \in DOMAIN dirs[cmd[p].cell]
  PROVE  IInv'
<1>1. cmd[p].cell \in Cells
  BY CommandFacts DEF CommandOK, Placed
<1>2. k \in Nat
  BY <1>1, CommandFacts
<1>3. PICK m \in Command :
        /\ cmd' = [cmd EXCEPT ![p] = m] /\ m.pc \in InCell \ Batched
        /\ m.batch = cmd[p].batch /\ m.planned = cmd[p].planned
        /\ m.cell = cmd[p].cell /\ m.new = cmd[p].new /\ m.exit = cmd[p].exit
        /\ m.dir = k
  BY <1>2, UseFacts
<1> QED
  BY <1>3, Moves

LEMMA UseSteps ==
  ASSUME IInv, NEW p \in Commands, FindOne(p) \/ UseExisting(p)
  PROVE  IInv'
<1>1. CASE FindOne(p)
  <2>1. PICK k \in Matches(cmd[p].cell) : Use(p, k, dirs[cmd[p].cell][k].manifest)
    BY <1>1 DEF FindOne
  <2>2. cmd[p].pc \in InCell \ Batched /\ UNCHANGED <<dirs, started>>
    BY <1>1 DEF FindOne, At, InCell, Batched
  <2>3. cmd[p].cell \in Cells /\ k \in DOMAIN dirs[cmd[p].cell]
    BY <2>2, CommandFacts DEF CommandOK, Placed, Matches
  <2>4. dirs[cmd[p].cell][k].manifest \in Versions \cup {None}
    BY <2>3, CommandFacts, DirFacts DEF Dir
  <2> QED
    BY <2>1, <2>2, <2>3, <2>4, UsedKeeps
<1>2. CASE UseExisting(p)
  <2>1. Use(p, 1, cmd[p].version) /\ UNCHANGED <<dirs, started>>
        /\ Len(dirs[cmd[p].cell]) = 1
    BY <1>2 DEF UseExisting, Existing
  <2>2. cmd[p].pc \in InCell \ Batched
    BY <1>2 DEF UseExisting, At, InCell, Batched
  <2>3. cmd[p].cell \in Cells
    BY <2>2, CommandFacts DEF CommandOK, Placed
  <2>4. 1 \in DOMAIN dirs[cmd[p].cell] /\ cmd[p].version \in Versions \cup {None}
    BY <2>1, <2>3, CommandFacts
  <2> QED
    BY <2>1, <2>2, <2>4, UsedKeeps
<1> QED
  BY <1>1, <1>2

LEMMA CreateKeeps ==
  ASSUME IInv, NEW p \in Commands, Create(p)
  PROVE  IInv'
<1> DEFINE b == cmd[p].cell
<1>1. cmd[p].pc = "creating" /\ cmd[p].pc \in InCell \ Batched
      /\ dirs' = Extended(dirs, b)
      /\ Use(p, 1, cmd[p].version) /\ UNCHANGED started /\ Len(dirs[b]) = 0
  BY DEF Create, Existing, At, InCell, Batched, Extended
<1>2. b \in Cells /\ dirs \in Directories /\ Good(dirs)
      /\ cmd[p].version \in Versions \cup {None}
  BY <1>1, CommandFacts DEF CommandOK, Placed
<1> HIDE DEF b
<1>3. /\ dirs' \in Directories /\ Good(dirs') /\ Evolves(dirs, dirs', p)
      /\ DOMAIN dirs'[b] = {1} /\ dirs'[b][1] = NewDir
      /\ \A c \in Cells \ {b} : dirs'[c] = dirs[c]
  BY <1>1, <1>2, First
<1>4. NewDir.lock # p
  BY CampaignAssumption DEF NewDir
<1>5. \A c \in Cells : \A k \in DOMAIN dirs'[c] : dirs'[c][k].lock # p
  <2> TAKE c \in Cells
  <2>1. CASE c = b
    BY <2>1, <1>3, <1>4
  <2>2. CASE c # b
    BY <2>2, <1>3, <1>1, Unowned DEF At
  <2> QED
    BY <2>1, <2>2
<1>6. PICK m \in Command :
        /\ cmd' = [cmd EXCEPT ![p] = m] /\ m.pc \in InCell \ Batched
        /\ m.batch = cmd[p].batch /\ m.planned = cmd[p].planned
        /\ m.cell = cmd[p].cell /\ m.new = cmd[p].new /\ m.exit = cmd[p].exit
        /\ m.dir = 1
  BY <1>1, <1>2, UseFacts
<1>7. m.dir \in DOMAIN dirs'[m.cell]
  BY <1>3, <1>6 DEF b
<1> QED
  BY <1>1, <1>3, <1>5, <1>6, <1>7, Advances

LEMMA WriteManifestKeeps ==
  ASSUME IInv, NEW p \in Commands, WriteManifest(p)
  PROVE  IInv'
<1> USE CampaignAssumption
<1> DEFINE d == [Here(p) EXCEPT !.manifest = cmd[p].config]
           m == [cmd[p] EXCEPT !.pc = "counting"]
<1>1. cmd[p].pc = "writing" /\ cmd[p].pc \in InDir
  BY DEF WriteManifest, At, InDir
<1>2. /\ Here(p) \in Dir /\ Here(p).summary <= Here(p).done /\ Here(p).done \in 0 .. Size
      /\ cmd[p].config \in Versions \cup {None} /\ cmd[p] \in Command
      /\ CommandOK(dirs, p, cmd[p])
  BY <1>1, HereFacts, CommandFacts
<1>3. d \in Dir /\ d.done = Here(p).done /\ d.summary = Here(p).summary
      /\ d.lock = Here(p).lock
  BY <1>2 DEF Dir
<1>4. Put(p, d) /\ cmd' = [cmd EXCEPT ![p] = m] /\ UNCHANGED started
  BY DEF WriteManifest, GoTo, IInv, Typed
<1>5. m \in Command /\ m.pc = "counting"
      /\ m.batch = cmd[p].batch /\ m.planned = cmd[p].planned
      /\ m.cell = cmd[p].cell /\ m.new = cmd[p].new /\ m.exit = cmd[p].exit
      /\ m.dir = cmd[p].dir
  <2>1. "counting" \in Pc
    BY DEF Pc, InCell, InDir
  <2> QED
    BY <1>2, <2>1 DEF Command
<1> HIDE DEF d, m
<1>6. Here(p).lock # p
  BY <1>1, HereFacts, Unowned DEF At, Here
<1>7. Here(p).done <= d.done /\ d.summary <= d.done
      /\ Here(p).lock = d.lock /\ Here(p).done = d.done
  BY <1>2, <1>3
<1>8. /\ dirs' \in Directories /\ Good(dirs') /\ Evolves(dirs, dirs', p)
      /\ cmd[p].dir \in DOMAIN dirs'[cmd[p].cell]
      /\ d.lock # p => \A c \in Cells : \A k \in DOMAIN dirs'[c] : dirs'[c][k].lock # p
  BY <1>1, <1>3, <1>4, <1>7, Putting
<1>9. m.pc \in InCell \ Batched /\ cmd[p].pc \in InCell \ Batched
  BY <1>1, <1>5 DEF InCell, InDir, Batched
<1> QED
  BY <1>3, <1>4, <1>5, <1>6, <1>8, <1>9, Advances

LEMMA CountBeforeKeeps ==
  ASSUME IInv, NEW p \in Commands, CountBefore(p)
  PROVE  IInv'
<1> DEFINE m == [cmd[p] EXCEPT !.pc = "locking", !.seen = Here(p).done]
<1>1. cmd[p].pc = "counting" /\ cmd[p].pc \in InDir
  BY DEF CountBefore, At, InDir
<1>2. Here(p).done \in 0 .. Size /\ cmd[p] \in Command /\ CommandOK(dirs, p, cmd[p])
  BY <1>1, HereFacts, CommandFacts
<1>3. cmd' = [cmd EXCEPT ![p] = m] /\ UNCHANGED <<dirs, started>>
  BY DEF CountBefore, IInv, Typed
<1>4. m \in Command /\ m.pc = "locking"
      /\ m.batch = cmd[p].batch /\ m.planned = cmd[p].planned
      /\ m.cell = cmd[p].cell /\ m.new = cmd[p].new /\ m.exit = cmd[p].exit
      /\ m.dir = cmd[p].dir
  <2>1. "locking" \in Pc
    BY DEF Pc, InCell, InDir
  <2> QED
    BY <1>2, <2>1 DEF Command
<1> HIDE DEF m
<1>5. m.pc \in InCell \ Batched /\ cmd[p].pc \in InCell \ Batched
      /\ m.dir \in DOMAIN dirs[m.cell]
  BY <1>1, <1>2, <1>4 DEF InCell, InDir, Batched, CommandOK, Placed
<1> QED
  BY <1>3, <1>4, <1>5, Moves

(* The end of a step in a batch: p gets the state m, which keeps its plan, *)
(* and has directory d, which it may have changed.                         *)
Becomes(p, m) == cmd' = [cmd EXCEPT ![p] = m] /\ UNCHANGED started

Keeps(n, m) ==
  /\ m.pc \in Batched
  /\ m.batch = n.batch /\ m.planned = n.planned
  /\ m.cell = n.cell /\ m.dir = n.dir /\ m.exit = n.exit

Holds(ds, p, m, d) ==
  /\ m.dir \in DOMAIN ds[m.cell] /\ ds[m.cell][m.dir] = d
  /\ d.lock = p <=> m.pc = "running"
  /\ \A c \in Cells : \A k \in DOMAIN ds[c] :
       ds[c][k].lock = p => c = m.cell /\ k = m.dir

Fits(m, d) ==
  /\ Share(m) <= m.goal /\ m.new <= m.planned[m.cell]
  /\ m.pc = "running" =>
       /\ d.done <= m.goal
       /\ m.new + (m.goal - d.done) <= m.planned[m.cell]
  /\ m.pc = "summing" => m.goal <= d.done
  /\ m.pc = "reporting" => m.goal <= m.seen /\ m.seen <= d.done

LEMMA InBatch ==
  ASSUME IInv, NEW p \in Commands, NEW m \in Command, NEW d \in Dir,
         cmd[p].pc \in InDir, Becomes(p, m), Keeps(cmd[p], m),
         dirs' \in Directories, Good(dirs'), Evolves(dirs, dirs', p),
         Holds(dirs', p, m, d), Fits(m, d)
  PROVE  IInv'
<1> USE CampaignAssumption
<1> USE DEF Becomes, Keeps, Holds, Fits
<1> DEFINE n == cmd[p]
<1>1. /\ CommandOK(dirs, p, n) /\ dirs \in Directories /\ n \in Command
      /\ n.cell \in 0 .. NumCells
  BY CommandFacts
<1>2. n.pc \in InCell /\ n.pc # "idle" /\ m.pc \in InCell /\ m.pc # "idle"
      /\ m.pc # "preflight"
  BY DEF InCell, InDir, Batched
<1>3. m.cell \in Cells /\ Home(dirs', m) = d
  BY <1>1, <1>2 DEF CommandOK, Placed, Home
<1>4. Placed(dirs', p, m)
  BY <1>3 DEF Placed
<1>5. OnBatch(dirs', m)
  BY <1>3 DEF OnBatch
<1>6. Covers(dirs, n, n.cell + 1) /\ Served(dirs, n, n.cell)
  BY <1>1, <1>2 DEF CommandOK, InPlan
<1>7. Covers(dirs', n, n.cell + 1) /\ Served(dirs', n, n.cell)
  BY <1>1, <1>6, Carry
<1>8. InPlan(dirs', m)
  BY <1>2, <1>7, Alike DEF InPlan
<1>9. Ended(dirs', m) /\ Going(m)
  BY <1>1, <1>2 DEF CommandOK, Ended, Going
<1>10. Owns(dirs', p, m)
  <2> SUFFICES ASSUME NEW c \in Cells, NEW k \in DOMAIN dirs'[c], dirs'[c][k].lock = p
               PROVE  m.pc = "running" /\ m.cell = c /\ m.dir = k
    BY DEF Owns
  <2>1. c = m.cell /\ k = m.dir
    OBVIOUS
  <2> QED
    BY <2>1
<1>11. CommandOK(dirs', p, m) /\ started' \in 0 .. MaxCommands
  BY <1>4, <1>5, <1>8, <1>9 DEF CommandOK, IInv, Typed
<1> QED
  BY <1>10, <1>11, Finale

LEMMA LockKeeps ==
  ASSUME IInv, NEW p \in Commands, Lock(p)
  PROVE  IInv'
<1> USE CampaignAssumption
<1> DEFINE goal == Lesser(Here(p).done + cmd[p].batch, Size)
           d == [Here(p) EXCEPT !.lock = p]
           m == [cmd[p] EXCEPT !.pc = "running", !.goal = goal]
<1>1. cmd[p].pc = "locking" /\ cmd[p].pc \in InDir /\ Here(p).lock = None
      /\ cmd[p].pc \in InCell \ Batched
  BY DEF Lock, At, InDir, InCell, Batched
<1>2. /\ Here(p) \in Dir /\ Here(p).summary <= Here(p).done /\ Here(p).done \in 0 .. Size
      /\ cmd[p].batch \in Nat /\ cmd[p] \in Command /\ CommandOK(dirs, p, cmd[p])
      /\ cmd[p].cell \in Cells /\ cmd[p].dir \in DOMAIN dirs[cmd[p].cell]
      /\ cmd[p].planned \in [Cells -> 0 .. Size]
  BY <1>1, HereFacts, CommandFacts
<1>3. d \in Dir /\ d.done = Here(p).done /\ d.summary = Here(p).summary /\ d.lock = p
  BY <1>2 DEF Dir
<1>4. Put(p, d) /\ cmd' = [cmd EXCEPT ![p] = m] /\ UNCHANGED started
  BY DEF Lock, IInv, Typed
<1>5. goal \in 0 .. Size /\ Share(cmd[p]) <= goal /\ Here(p).done <= goal
      /\ goal - Here(p).done = Lesser(cmd[p].batch, Size - Here(p).done)
  BY <1>2 DEF Lesser, Share
<1> HIDE DEF goal
<1>6. m \in Command /\ m.pc = "running" /\ m.goal = goal
      /\ m.batch = cmd[p].batch /\ m.planned = cmd[p].planned
      /\ m.cell = cmd[p].cell /\ m.new = cmd[p].new /\ m.exit = cmd[p].exit
      /\ m.dir = cmd[p].dir
  <2>1. "running" \in Pc
    BY DEF Pc, InCell, InDir
  <2> QED
    BY <1>2, <1>5, <2>1 DEF Command
<1> HIDE DEF d, m
<1>7. Here(p).done <= d.done /\ d.summary <= d.done
      /\ Here(p).lock \in {p, None} /\ d.lock \in {p, None}
  BY <1>1, <1>2, <1>3
<1>8. /\ dirs' \in Directories /\ Good(dirs') /\ Evolves(dirs, dirs', p)
      /\ cmd[p].dir \in DOMAIN dirs'[cmd[p].cell]
      /\ dirs'[cmd[p].cell][cmd[p].dir] = d
      /\ \A c \in Cells : \A k \in DOMAIN dirs'[c] :
           dirs'[c][k].lock = p => c = cmd[p].cell /\ k = cmd[p].dir
  BY <1>1, <1>3, <1>4, <1>7, Putting
<1>9. /\ cmd[p].new = 0
      /\ Lesser(cmd[p].batch, Size - Here(p).done) <= cmd[p].planned[cmd[p].cell]
  BY <1>1, <1>2 DEF CommandOK, InPlan, Covered, Here
<1>10. Share(m) <= m.goal
  BY <1>5, <1>6, Alike
<1>11. /\ d.done <= m.goal /\ m.new <= m.planned[m.cell]
       /\ m.new + (m.goal - d.done) <= m.planned[m.cell]
  BY <1>2, <1>3, <1>5, <1>6, <1>9
<1>12. m.pc \in Batched /\ (d.lock = p <=> m.pc = "running")
       /\ m.pc # "summing" /\ m.pc # "reporting"
  BY <1>3, <1>6 DEF Batched
<1>13. Holds(dirs', p, m, d)
  BY <1>6, <1>8, <1>12 DEF Holds
<1>14. Fits(m, d)
  BY <1>10, <1>11, <1>12 DEF Fits
<1>15. Keeps(cmd[p], m) /\ Becomes(p, m)
  BY <1>4, <1>6, <1>12 DEF Keeps, Becomes
<1> QED
  BY <1>1, <1>3, <1>6, <1>8, <1>13, <1>14, <1>15, InBatch

LEMMA CommitKeeps ==
  ASSUME IInv, NEW p \in Commands, Commit(p)
  PROVE  IInv'
<1> USE CampaignAssumption
<1> DEFINE d == Appended(Here(p), cmd[p].config)
           m == [cmd[p] EXCEPT !.new = cmd[p].new + 1]
<1>1. cmd[p].pc = "running" /\ cmd[p].pc \in InDir /\ Here(p).done < cmd[p].goal
  BY DEF Commit, At, InDir
<1>2. /\ Here(p) \in Dir /\ Here(p).summary <= Here(p).done /\ Here(p).done \in 0 .. Size
      /\ cmd[p].goal \in 0 .. Size /\ cmd[p].new \in 0 .. Size
      /\ cmd[p].config \in Versions \cup {None} /\ cmd[p] \in Command
      /\ CommandOK(dirs, p, cmd[p]) /\ Here(p).lock = p
      /\ cmd[p].cell \in Cells /\ cmd[p].planned \in [Cells -> 0 .. Size]
  BY <1>1, HereFacts, CommandFacts DEF At
<1>3. d \in Dir /\ d.done = Here(p).done + 1 /\ d.summary = Here(p).summary /\ d.lock = p
  <2>1. Here(p).done + 1 \in 0 .. Size
    BY <1>1, <1>2
  <2> QED
    BY <1>2, <2>1 DEF Dir, Appended
<1>4. Put(p, d) /\ cmd' = [cmd EXCEPT ![p] = m] /\ UNCHANGED started
  BY DEF Commit, IInv, Typed
<1>5. /\ Share(cmd[p]) <= cmd[p].goal
      /\ cmd[p].new + (cmd[p].goal - Here(p).done) <= cmd[p].planned[cmd[p].cell]
  BY <1>1, <1>2 DEF CommandOK, OnBatch, Home, Here, Batched
<1>6. cmd[p].planned[cmd[p].cell] \in 0 .. Size
  BY <1>2
<1>7. m \in Command /\ m.pc = "running" /\ m.goal = cmd[p].goal
      /\ m.batch = cmd[p].batch /\ m.planned = cmd[p].planned
      /\ m.cell = cmd[p].cell /\ m.new = cmd[p].new + 1 /\ m.exit = cmd[p].exit
      /\ m.dir = cmd[p].dir
  <2>1. cmd[p].new + 1 \in 0 .. Size
    BY <1>1, <1>2, <1>5, <1>6
  <2> QED
    BY <1>1, <1>2, <2>1 DEF Command
<1> HIDE DEF d, m
<1>8. Here(p).done <= d.done /\ d.summary <= d.done
      /\ Here(p).lock \in {p, None} /\ d.lock \in {p, None}
  BY <1>2, <1>3, HereFacts DEF Dir
<1>9. /\ dirs' \in Directories /\ Good(dirs') /\ Evolves(dirs, dirs', p)
      /\ cmd[p].dir \in DOMAIN dirs'[cmd[p].cell]
      /\ dirs'[cmd[p].cell][cmd[p].dir] = d
      /\ \A c \in Cells : \A k \in DOMAIN dirs'[c] :
           dirs'[c][k].lock = p => c = cmd[p].cell /\ k = cmd[p].dir
  BY <1>1, <1>3, <1>4, <1>8, Putting
<1>10. Share(m) <= m.goal
  BY <1>5, <1>7, Alike
<1>11. /\ d.done <= m.goal /\ m.new <= m.planned[m.cell]
       /\ m.new + (m.goal - d.done) <= m.planned[m.cell]
  BY <1>1, <1>2, <1>3, <1>5, <1>6, <1>7
<1>12. m.pc \in Batched /\ (d.lock = p <=> m.pc = "running")
       /\ m.pc # "summing" /\ m.pc # "reporting"
  BY <1>3, <1>7 DEF Batched
<1>13. Holds(dirs', p, m, d)
  BY <1>7, <1>9, <1>12 DEF Holds
<1>14. Fits(m, d)
  BY <1>10, <1>11, <1>12 DEF Fits
<1>15. Keeps(cmd[p], m) /\ Becomes(p, m)
  BY <1>4, <1>7, <1>12 DEF Keeps, Becomes
<1> QED
  BY <1>1, <1>3, <1>7, <1>9, <1>13, <1>14, <1>15, InBatch

LEMMA FinishKeeps ==
  ASSUME IInv, NEW p \in Commands, Finish(p)
  PROVE  IInv'
<1> USE CampaignAssumption
<1> DEFINE d == Unlocked(Here(p))
           m == [cmd[p] EXCEPT !.pc = "summing"]
<1>1. cmd[p].pc = "running" /\ cmd[p].pc \in InDir /\ Here(p).done = cmd[p].goal
      /\ cmd[p].pc \in InCell
  BY DEF Finish, At, InDir, InCell
<1>2. /\ Here(p) \in Dir /\ Here(p).summary <= Here(p).done /\ Here(p).done \in 0 .. Size
      /\ cmd[p] \in Command /\ CommandOK(dirs, p, cmd[p]) /\ Here(p).lock = p
  BY <1>1, HereFacts, CommandFacts DEF At
<1>3. d \in Dir /\ d.done = Here(p).done /\ d.summary = Here(p).summary /\ d.lock = None
  BY <1>2 DEF Dir, Unlocked
<1>4. Put(p, d) /\ cmd' = [cmd EXCEPT ![p] = m] /\ UNCHANGED started
  BY DEF Finish, GoTo, IInv, Typed
<1>5. Share(cmd[p]) <= cmd[p].goal /\ cmd[p].new <= cmd[p].planned[cmd[p].cell]
  BY <1>1, <1>2 DEF CommandOK, OnBatch, InPlan, Batched
<1>6. m \in Command /\ m.pc = "summing" /\ m.goal = cmd[p].goal
      /\ m.batch = cmd[p].batch /\ m.planned = cmd[p].planned
      /\ m.cell = cmd[p].cell /\ m.new = cmd[p].new /\ m.exit = cmd[p].exit
      /\ m.dir = cmd[p].dir
  <2>1. "summing" \in Pc
    BY DEF Pc, InCell, InDir
  <2> QED
    BY <1>2, <2>1 DEF Command
<1> HIDE DEF d, m
<1>7. Here(p).done <= d.done /\ d.summary <= d.done
      /\ Here(p).lock \in {p, None} /\ d.lock \in {p, None}
  BY <1>2, <1>3
<1>8. /\ dirs' \in Directories /\ Good(dirs') /\ Evolves(dirs, dirs', p)
      /\ cmd[p].dir \in DOMAIN dirs'[cmd[p].cell]
      /\ dirs'[cmd[p].cell][cmd[p].dir] = d
      /\ \A c \in Cells : \A k \in DOMAIN dirs'[c] :
           dirs'[c][k].lock = p => c = cmd[p].cell /\ k = cmd[p].dir
  BY <1>1, <1>3, <1>4, <1>7, Putting
<1>9. Share(m) <= m.goal /\ m.new <= m.planned[m.cell]
  BY <1>5, <1>6, Alike
<1>10. m.goal <= d.done
  BY <1>1, <1>2, <1>3, <1>6
<1>11. m.pc \in Batched /\ (d.lock = p <=> m.pc = "running")
       /\ m.pc # "running" /\ m.pc # "reporting"
  BY <1>3, <1>6 DEF Batched
<1>12. Holds(dirs', p, m, d)
  BY <1>6, <1>8, <1>11 DEF Holds
<1>13. Fits(m, d)
  BY <1>9, <1>10, <1>11 DEF Fits
<1>14. Keeps(cmd[p], m) /\ Becomes(p, m)
  BY <1>4, <1>6, <1>11 DEF Keeps, Becomes
<1> QED
  BY <1>1, <1>3, <1>6, <1>8, <1>12, <1>13, <1>14, InBatch

LEMMA ReadSummaryKeeps ==
  ASSUME IInv, NEW p \in Commands, ReadSummary(p)
  PROVE  IInv'
<1> USE CampaignAssumption
<1> DEFINE d == Here(p)
           m == [cmd[p] EXCEPT !.pc = "reporting", !.seen = Here(p).done]
<1>1. cmd[p].pc = "summing" /\ cmd[p].pc \in InDir /\ cmd[p].pc \in InCell
  BY DEF ReadSummary, At, InDir, InCell
<1>2. /\ d \in Dir /\ d.done \in 0 .. Size /\ cmd[p] \in Command
      /\ CommandOK(dirs, p, cmd[p])
      /\ cmd[p].cell \in Cells /\ cmd[p].dir \in DOMAIN dirs[cmd[p].cell]
  BY <1>1, HereFacts, CommandFacts
<1>3. cmd' = [cmd EXCEPT ![p] = m] /\ UNCHANGED <<dirs, started>>
  BY DEF ReadSummary, IInv, Typed
<1>4. /\ Share(cmd[p]) <= cmd[p].goal /\ cmd[p].new <= cmd[p].planned[cmd[p].cell]
      /\ cmd[p].goal <= d.done
  BY <1>1, <1>2 DEF CommandOK, OnBatch, InPlan, Batched, Home, Here
<1>5. m \in Command /\ m.pc = "reporting" /\ m.goal = cmd[p].goal
      /\ m.batch = cmd[p].batch /\ m.planned = cmd[p].planned
      /\ m.cell = cmd[p].cell /\ m.new = cmd[p].new /\ m.exit = cmd[p].exit
      /\ m.dir = cmd[p].dir /\ m.seen = d.done
  <2>1. "reporting" \in Pc
    BY DEF Pc, InCell, InDir
  <2> QED
    BY <1>2, <2>1 DEF Command
<1>6. d = dirs'[m.cell][m.dir]
  BY <1>3, <1>5 DEF Here
<1>7. dirs' \in Directories /\ Good(dirs') /\ Evolves(dirs, dirs', p)
      /\ m.dir \in DOMAIN dirs'[m.cell]
  BY <1>2, <1>3, <1>5, CommandFacts, Same
<1>8. \A c \in Cells : \A k \in DOMAIN dirs'[c] : dirs'[c][k].lock # p
  BY <1>1, <1>3, Unowned DEF At
<1> HIDE DEF d, m
<1>9. d.lock # p
  BY <1>2, <1>5, <1>6, <1>7, <1>8
<1>10. Share(m) <= m.goal /\ m.new <= m.planned[m.cell]
  BY <1>4, <1>5, Alike
<1>11. m.goal <= m.seen /\ m.seen <= d.done
  BY <1>2, <1>4, <1>5
<1>12. m.pc \in Batched /\ m.pc # "running" /\ m.pc # "summing"
  BY <1>5 DEF Batched
<1>13. Holds(dirs', p, m, d)
  BY <1>5, <1>6, <1>7, <1>8, <1>9, <1>12 DEF Holds
<1>14. Fits(m, d)
  BY <1>10, <1>11, <1>12 DEF Fits
<1>15. Keeps(cmd[p], m) /\ Becomes(p, m)
  BY <1>3, <1>5, <1>12 DEF Keeps, Becomes
<1> QED
  BY <1>1, <1>2, <1>5, <1>7, <1>13, <1>14, <1>15, InBatch

LEMMA WriteSummaryKeeps ==
  ASSUME IInv, NEW p \in Commands, WriteSummary(p)
  PROVE  IInv'
<1> USE CampaignAssumption
<1> DEFINE d == [Here(p) EXCEPT !.summary = cmd[p].seen]
           n == cmd[p]
<1>1. n.pc = "reporting" /\ n.pc \in InDir /\ n.pc \in InCell /\ n.pc # "idle"
  BY DEF WriteSummary, At, InDir, InCell
<1>2. /\ Here(p) \in Dir /\ Here(p).done \in 0 .. Size /\ n \in Command
      /\ n.seen \in 0 .. Size /\ n.goal \in 0 .. Size /\ n.batch \in Nat
      /\ CommandOK(dirs, p, n) /\ n.cell \in Cells /\ n.dir \in DOMAIN dirs[n.cell]
      /\ dirs \in Directories
  BY <1>1, HereFacts, CommandFacts
<1>3. /\ Share(n) <= n.goal /\ n.goal <= n.seen /\ n.seen <= Here(p).done
  BY <1>1, <1>2 DEF CommandOK, OnBatch, Batched, Home, Here
<1>4. d \in Dir /\ d.done = Here(p).done /\ d.summary = n.seen /\ d.lock = Here(p).lock
  BY <1>2 DEF Dir
<1>5. Put(p, d) /\ UNCHANGED started
  BY DEF WriteSummary
<1>6. Here(p).lock # p
  BY <1>1, <1>2, Unowned DEF At, Here
<1> HIDE DEF d
<1>7. Here(p).done <= d.done /\ d.summary <= d.done
      /\ Here(p).lock = d.lock /\ Here(p).done = d.done
  BY <1>2, <1>3, <1>4
<1>8. /\ dirs' \in Directories /\ Good(dirs') /\ Evolves(dirs, dirs', p)
      /\ n.dir \in DOMAIN dirs'[n.cell] /\ dirs'[n.cell][n.dir] = d
      /\ \A c \in Cells : \A k \in DOMAIN dirs'[c] : dirs'[c][k].lock # p
  BY <1>1, <1>4, <1>5, <1>6, <1>7, Putting
<1>9. Covers(dirs', n, n.cell + 1) /\ Served(dirs', n, n.cell)
  <2>1. n.cell \in Int
    BY <1>2 DEF Cells
  <2>2. Covers(dirs, n, n.cell + 1) /\ Served(dirs, n, n.cell)
    BY <1>1, <1>2 DEF CommandOK, InPlan
  <2> QED
    BY <1>2, <1>8, <2>1, <2>2, Carry
<1>10. Share(n) <= d.done
  <2>1. Share(n) \in Int
    BY <1>2 DEF Share, Lesser
  <2> QED
    BY <1>2, <1>3, <1>4, <2>1
<1>11. Served(dirs', n, n.cell + 1)
  <2> SUFFICES ASSUME NEW c \in Cells, c < n.cell + 1
               PROVE  \E k \in DOMAIN dirs'[c] : Share(n) <= dirs'[c][k].done
    BY DEF Served
  <2>1. CASE c = n.cell
    BY <1>8, <1>10, <2>1
  <2>2. CASE c < n.cell
    BY <1>9, <2>2 DEF Served
  <2> QED
    BY <1>2, <2>1, <2>2 DEF Cells
<1>12. CASE n.cell < NumCells
  <2>1. n.cell + 1 \in Cells /\ Enter(p, n.cell + 1)
    BY <1>2, <1>12 DEF WriteSummary, Cells
  <2> QED
    BY <1>1, <1>5, <1>8, <1>9, <1>11, <2>1, Enters
<1>13. CASE ~(n.cell < NumCells)
  <2> DEFINE m == [Idle EXCEPT !.exit = 0, !.batch = n.batch]
  <2>1. cmd' = [cmd EXCEPT ![p] = m] /\ n.cell = NumCells
    BY <1>2, <1>13 DEF WriteSummary, Cells
  <2>2. m \in Command /\ m.pc = "idle" /\ m.batch = n.batch
    <3>1. Idle \in Command /\ Idle.pc = "idle"
      BY DEF Idle, Command, Pc
    <3> QED
      BY <1>2, <3>1 DEF Command
  <2> HIDE DEF m
  <2>3. Served(dirs', m, NumCells + 1)
    BY <1>11, <2>1, <2>2 DEF Served, Share
  <2>4. CommandOK(dirs', p, m)
    BY <2>2, <2>3
       DEF CommandOK, Placed, OnBatch, InPlan, Ended, Going, InCell, InDir, Batched
  <2>5. Owns(dirs', p, m) /\ started' \in 0 .. MaxCommands
    BY <1>5, <1>8 DEF Owns, IInv, Typed
  <2> QED
    BY <1>8, <2>1, <2>2, <2>4, <2>5, Finale
<1> QED
  BY <1>12, <1>13

LEMMA StopInAppendKeeps ==
  ASSUME IInv, NEW p \in Commands, StopInAppend(p)
  PROVE  IInv'
<1> USE CampaignAssumption
<1>1. cmd[p].pc = "running" /\ cmd[p].pc \in InDir /\ Here(p).done < cmd[p].goal
      /\ UNCHANGED started
  BY DEF StopInAppend, At, InDir
<1>2. /\ Here(p) \in Dir /\ Here(p).summary <= Here(p).done /\ Here(p).done \in 0 .. Size
      /\ Here(p).lock = p /\ cmd[p].goal \in 0 .. Size
      /\ cmd[p].config \in Versions \cup {None}
  BY <1>1, HereFacts, CommandFacts DEF At
<1>3. PICK d \in Torn(Here(p), cmd[p].config) : Put(p, Unlocked(d))
  BY DEF StopInAppend
<1>4. PICK code \in {2, 130, None} : cmd' = [cmd EXCEPT ![p] = [Idle EXCEPT !.exit = code]]
  BY DEF StopInAppend
<1>5. d \in Dir /\ d.done \in {Here(p).done, Here(p).done + 1}
      /\ d.summary = Here(p).summary
  <2>1. Here(p).done + 1 \in 0 .. Size
    BY <1>1, <1>2
  <2> QED
    <3> DEFINE h == Here(p)
               v == cmd[p].config
    <3>1. CASE d = [h EXCEPT !.file = "broken"]
      BY <1>2, <3>1 DEF Dir
    <3>2. CASE \E f \in {"whole", "bare"} : d = [h EXCEPT !.header = v, !.file = f]
      <4>1. PICK f \in {"whole", "bare"} : d = [h EXCEPT !.header = v, !.file = f]
        BY <3>2
      <4> QED
        BY <1>2, <4>1 DEF Dir
    <3>3. CASE d = [h EXCEPT !.header = v, !.done = h.done + 1, !.file = "bare"]
      BY <1>2, <2>1, <3>3 DEF Dir
    <3>4. \/ d = [h EXCEPT !.file = "broken"]
          \/ \E f \in {"whole", "bare"} : d = [h EXCEPT !.header = v, !.file = f]
          \/ d = [h EXCEPT !.header = v, !.done = h.done + 1, !.file = "bare"]
      BY <1>3 DEF Torn
    <3> QED
      BY <3>1, <3>2, <3>3, <3>4
<1> DEFINE e == Unlocked(d)
<1>6. e \in Dir /\ e.lock = None /\ e.done = d.done /\ e.summary = Here(p).summary
  BY <1>5 DEF Unlocked, Dir
<1> HIDE DEF e
<1>7. Here(p).done <= e.done /\ e.summary <= e.done /\ e.lock # p
      /\ Here(p).lock \in {p, None} /\ e.lock \in {p, None}
  BY <1>2, <1>5, <1>6 DEF Dir
<1>8. Put(p, e)
  BY <1>3 DEF e
<1>9. /\ dirs' \in Directories /\ Good(dirs') /\ Evolves(dirs, dirs', p)
      /\ \A c \in Cells : \A k \in DOMAIN dirs'[c] : dirs'[c][k].lock # p
  BY <1>1, <1>6, <1>7, <1>8, Putting
<1> QED
  BY <1>1, <1>4, <1>9, Ends

----------------------------------------------------------------------------
LEMMA InitHolds == Init => IInv
<1> USE CampaignAssumption
<1> SUFFICES ASSUME Init PROVE IInv
  OBVIOUS
<1>1. Idle \in Command /\ Idle.pc = "idle" /\ Idle.exit = None
  BY DEF Idle, Command, Pc
<1>2. Typed
  BY <1>1 DEF Init, Typed, Directories
<1>3. \A c \in Cells : dirs[c] = <<>> /\ Len(dirs[c]) = 0 /\ DOMAIN dirs[c] = {}
  BY DEF Init
<1>4. Good(dirs)
  BY <1>3 DEF Good
<1>5. \A p \in Commands : Owns(dirs, p, cmd[p])
  BY <1>3 DEF Owns
<1>6. ASSUME NEW p \in Commands PROVE CommandOK(dirs, p, cmd[p])
  <2>1. cmd[p] = Idle
    BY DEF Init
  <2> QED
    BY <1>1, <2>1
       DEF CommandOK, Placed, OnBatch, InPlan, Ended, Going, InCell, InDir, Batched
<1> QED
  BY <1>2, <1>4, <1>5, <1>6 DEF IInv

(* Every way to end is an Exit.                                            *)
LEMMA ExitSteps ==
  ASSUME IInv, NEW p \in Commands,
         \/ PlanFails(p) \/ Decline(p) \/ PreflightFails(p) \/ FindFails(p)
         \/ ManifestDiffers(p) \/ CountFails(p) \/ LockFails(p)
         \/ SampleFails(p) \/ SummaryFails(p) \/ Stop(p)
  PROVE  IInv'
<1>1. \E code \in {0, 1, 2, 130, None} : Exit(p, code)
  BY DEF PlanFails, Decline, PreflightFails, FindFails, ManifestDiffers,
         CountFails, LockFails, SampleFails, SummaryFails, Stop
<1> QED
  BY <1>1, Exits

LEMMA NextKeeps == IInv /\ [Next]_vars => IInv'
<1> SUFFICES ASSUME IInv, [Next]_vars PROVE IInv'
  OBVIOUS
<1>1. CASE UNCHANGED vars
  BY <1>1 DEF vars, IInv, Typed
<1>2. CASE Next
  <2> SUFFICES ASSUME NEW p \in Commands,
                      Start(p) \/ Decline(p) \/ Step(p) \/ Stop(p) \/ StopInAppend(p)
               PROVE  IInv'
    BY <1>2 DEF Next
  <2>1. CASE Start(p)
    BY <2>1, StartKeeps
  <2>2. CASE Decline(p) \/ Stop(p)
    BY <2>2, ExitSteps
  <2>3. CASE StopInAppend(p)
    BY <2>3, StopInAppendKeeps
  <2>4. CASE Step(p)
    <3>1. CASE \/ PlanFails(p) \/ PreflightFails(p) \/ FindFails(p)
               \/ ManifestDiffers(p) \/ CountFails(p) \/ LockFails(p)
               \/ SampleFails(p) \/ SummaryFails(p)
      BY <3>1, ExitSteps
    <3>2. CASE Plan(p)
      BY <3>2, PlanKeeps
    <3>3. CASE Preflight(p)
      BY <3>3, PreflightKeeps
    <3>4. CASE FindNone(p) \/ Look(p) \/ ManifestEqual(p) \/ ManifestMissing(p)
      BY <3>4, LabelSteps
    <3>5. CASE FindOne(p) \/ UseExisting(p)
      BY <3>5, UseSteps
    <3>6. CASE Create(p)
      BY <3>6, CreateKeeps
    <3>7. CASE WriteManifest(p)
      BY <3>7, WriteManifestKeeps
    <3>8. CASE CountBefore(p)
      BY <3>8, CountBeforeKeeps
    <3>9. CASE Lock(p)
      BY <3>9, LockKeeps
    <3>10. CASE Commit(p)
      BY <3>10, CommitKeeps
    <3>11. CASE Finish(p)
      BY <3>11, FinishKeeps
    <3>12. CASE ReadSummary(p)
      BY <3>12, ReadSummaryKeeps
    <3>13. CASE WriteSummary(p)
      BY <3>13, WriteSummaryKeeps
    <3> QED
      BY <2>4, <3>1, <3>2, <3>3, <3>4, <3>5, <3>6, <3>7, <3>8, <3>9, <3>10, <3>11,
         <3>12, <3>13 DEF Step
  <2> QED
    BY <2>1, <2>2, <2>3, <2>4
<1> QED
  BY <1>1, <1>2

(* IInv holds in every state, however commands interleave and end.         *)
THEOREM Invariant == Spec => []IInv
BY InitHolds, NextKeeps, PTL DEF Spec

(* Type correctness: the lock of a ledger is held exactly by the command   *)
(* that is in a run on it, and a command past the claim is in an existing  *)
(* directory of its cell.                                                  *)
THEOREM TypeCorrect == Spec => []TypeOK
<1>1. ASSUME IInv PROVE TypeOK
  <2>1. \A p \in Commands :
          /\ cmd[p].pc \in InCell => cmd[p].cell \in Cells
          /\ cmd[p].pc \in InDir => cmd[p].dir \in DOMAIN dirs[cmd[p].cell]
          /\ At(p, "running") => Here(p).lock = p
    BY <1>1 DEF IInv, CommandOK, Placed, At, Home, Here
  <2>2. \A c \in Cells : \A k \in DOMAIN dirs[c] : \A p \in Commands :
          dirs[c][k].lock = p
            => At(p, "running") /\ cmd[p].cell = c /\ cmd[p].dir = k
    BY <1>1 DEF IInv, Owns, At
  <2> QED
    BY <1>1, <2>1, <2>2 DEF TypeOK, IInv, Typed, Directories
<1> QED
  BY <1>1, Invariant, PTL

(* However many commands look for an experiment identity at once, die or   *)
(* come from other versions, it never has two directories.                 *)
THEOREM NeverTwoDirectories == Spec => []OneDirectory
<1>1. IInv => OneDirectory
  BY DEF IInv, Good, OneDirectory
<1> QED
  BY <1>1, Invariant, PTL

(* A command that ends with 0 leaves every cell of its matrix with the     *)
(* samples of a batch at least.                                            *)
THEOREM ZeroMeansComplete == Spec => []ExitZeroIsComplete
<1>1. ASSUME IInv PROVE ExitZeroIsComplete
  <2> SUFFICES ASSUME NEW p \in Commands, cmd[p].exit = 0, cmd[p].batch > 0,
                      NEW c \in Cells
               PROVE  \E k \in DOMAIN dirs[c] : dirs[c][k].done >= Lesser(cmd[p].batch, Size)
    BY DEF ExitZeroIsComplete
  <2>1. Served(dirs, cmd[p], NumCells + 1)
    BY <1>1 DEF IInv, CommandOK, Ended
  <2>2. c < NumCells + 1
    BY CampaignAssumption DEF Cells
  <2>3. PICK k \in DOMAIN dirs[c] : Share(cmd[p]) <= dirs[c][k].done
    BY <2>1, <2>2 DEF Served
  <2> QED
    BY <2>3 DEF Share
<1> QED
  BY <1>1, Invariant, PTL

(* A summary counts only records of the ledger, and all those of the run   *)
(* it is written for.                                                      *)
THEOREM SummariesBracketed == Spec => []SummaryBracketed
<1>1. ASSUME IInv PROVE SummaryBracketed
  BY <1>1 DEF IInv, Good, CommandOK, OnBatch, SummaryBracketed, At, Home, Here
<1> QED
  BY <1>1, Invariant, PTL

(* No command evaluates more samples in a cell than its plan announced.    *)
THEOREM PlanIsKept == Spec => []PlanIsMaximum
<1>1. ASSUME IInv PROVE PlanIsMaximum
  BY <1>1 DEF IInv, CommandOK, InPlan, PlanIsMaximum
<1> QED
  BY <1>1, Invariant, PTL

----------------------------------------------------------------------------
(***************************************************************************)
(* A cell of the matrix keeps the promise of one ledger.                   *)
(***************************************************************************)
(* The directory of a cell; a cell without one is like a new one.          *)
OfCell(ds, c) == IF Len(ds[c]) = 0 THEN NewDir ELSE ds[c][1]

Promise(c) ==
  INSTANCE Ledger WITH
    committed <- IF Sound(OfCell(dirs, c)) THEN OfCell(dirs, c).done ELSE 0,
    sound <- Sound(OfCell(dirs, c))

(* From d to e the next sample is added, or the file is damaged, if it was *)
(* not damaged before, or nothing happens.                                 *)
Extends(d, e) ==
  /\ Sound(e) => Sound(d)
  /\ Sound(d) /\ Sound(e) =>
       \/ e.done = d.done
       \/ e.done = d.done + 1 /\ d.done < Size

(* A put changes the directory of the cell p is at, and no other.          *)
LEMMA PutInCell ==
  ASSUME IInv, NEW p \in Commands, cmd[p].pc \in InDir, NEW d, Put(p, d),
         Extends(Here(p), d), NEW c \in Cells
  PROVE  Extends(OfCell(dirs, c), OfCell(dirs', c))
<1> DEFINE b == cmd[p].cell
           s == dirs[b]
<1>1. /\ dirs \in Directories /\ b \in Cells /\ cmd[p].dir \in DOMAIN dirs[b]
      /\ Len(dirs[b]) <= 1
  BY CommandFacts, HereFacts DEF Good
<1>2. s \in Seq(Dir) /\ Len(s) = 1 /\ cmd[p].dir = 1
  <2>1. /\ cmd[p].dir \in 1 .. Len(s) /\ Len(s) \in Nat /\ s \in Seq(Dir)
        /\ Len(s) <= 1
    BY <1>1, DirFacts
  <2> DEFINE n == Len(s)
             j == cmd[p].dir
  <2>2. n = 1 /\ j = 1
    <3>1. j \in 1 .. n /\ n \in Nat /\ n <= 1
      BY <2>1
    <3> HIDE DEF n, j
    <3> QED
      BY <3>1
  <2> QED
    BY <2>1, <2>2
<1>3. dirs' = [dirs EXCEPT ![b] = [s EXCEPT ![1] = d]]
  BY <1>2 DEF Put
<1> HIDE DEF s, b
<1>4. /\ dirs'[b] = [s EXCEPT ![1] = d]
      /\ c # b => dirs'[c] = dirs[c]
  BY <1>1, <1>3 DEF Directories
<1>5. CASE c = b
  <2> DEFINE t == [s EXCEPT ![1] = d]
  <2>1. Len(t) = 1 /\ t[1] = d
    BY <1>2
  <2>2. dirs'[c] = t
    BY <1>4, <1>5
  <2> HIDE DEF t
  <2>3. OfCell(dirs', c) = d
    BY <2>1, <2>2 DEF OfCell
  <2>4. OfCell(dirs, c) = s[1] /\ Here(p) = s[1]
    BY <1>2, <1>5 DEF OfCell, Here, s, b
  <2> QED
    BY <2>3, <2>4
<1>6. CASE c # b
  BY <1>4, <1>6 DEF OfCell, Extends
<1> QED
  BY <1>5, <1>6

(* Nothing happens to a cell in which nothing happens.                     *)
LEMMA StaysInCell ==
  ASSUME UNCHANGED dirs, NEW c
  PROVE  Extends(OfCell(dirs, c), OfCell(dirs', c))
BY DEF Extends, OfCell

(* The first directory of a cell has no sample.                            *)
LEMMA CreateInCell ==
  ASSUME IInv, NEW p \in Commands, Create(p), NEW c \in Cells
  PROVE  Extends(OfCell(dirs, c), OfCell(dirs', c))
<1> DEFINE b == cmd[p].cell
<1>1. dirs \in Directories /\ b \in Cells /\ Len(dirs[b]) = 0
  BY CommandFacts DEF Create, Existing, CommandOK, Placed, InCell, At
<1>2. dirs[b] = <<>>
  BY <1>1, DirFacts
<1>3. dirs' = [dirs EXCEPT ![b] = <<NewDir>>]
  BY <1>2 DEF Create
<1> HIDE DEF b
<1>4. dirs'[b] = <<NewDir>> /\ (c # b => dirs'[c] = dirs[c])
  BY <1>1, <1>3 DEF Directories
<1>5. OfCell(dirs', c) = OfCell(dirs, c)
  BY <1>1, <1>4 DEF OfCell
<1> QED
  BY <1>5 DEF Extends

LEMMA PutSteps ==
  ASSUME IInv, NEW p \in Commands, NEW c \in Cells,
         \/ WriteManifest(p) \/ Lock(p) \/ Finish(p) \/ WriteSummary(p)
         \/ Commit(p) \/ StopInAppend(p)
         \/ (At(p, "running") /\ Put(p, Unlocked(Here(p))))
  PROVE  Extends(OfCell(dirs, c), OfCell(dirs', c))
<1> USE CampaignAssumption
<1>1. cmd[p].pc \in InDir
  BY DEF WriteManifest, Lock, Finish, WriteSummary, Commit, StopInAppend, At, InDir
<1>2. Here(p) \in Dir /\ Here(p).done \in 0 .. Size /\ cmd[p].goal \in 0 .. Size
  BY <1>1, HereFacts, CommandFacts
<1>3. CASE \E d : Put(p, d) /\ d.done = Here(p).done /\ d.file = Here(p).file
  <2>1. PICK d : Put(p, d) /\ d.done = Here(p).done /\ d.file = Here(p).file
    BY <1>3
  <2>2. Extends(Here(p), d)
    BY <2>1 DEF Extends, Sound
  <2> QED
    BY <1>1, <2>1, <2>2, PutInCell
<1>4. CASE WriteManifest(p) \/ Lock(p) \/ WriteSummary(p)
  <2>1. \E d : Put(p, d) /\ d.done = Here(p).done /\ d.file = Here(p).file
    <3>1. CASE WriteManifest(p)
      BY <1>2, <3>1 DEF WriteManifest, Dir
    <3>2. CASE Lock(p)
      BY <1>2, <3>2 DEF Lock, Dir
    <3>3. CASE WriteSummary(p)
      BY <1>2, <3>3 DEF WriteSummary, Dir
    <3> QED
      BY <1>4, <3>1, <3>2, <3>3
  <2> QED
    BY <1>3, <2>1
<1>5. CASE Finish(p) \/ (At(p, "running") /\ Put(p, Unlocked(Here(p))))
  <2>1. Put(p, Unlocked(Here(p)))
    BY <1>5 DEF Finish
  <2>2. Unlocked(Here(p)).done = Here(p).done /\ Unlocked(Here(p)).file = Here(p).file
    BY <1>2 DEF Unlocked, Dir
  <2> QED
    BY <1>3, <2>1, <2>2
<1>6. CASE Commit(p)
  <2> DEFINE d == Appended(Here(p), cmd[p].config)
  <2>1. Put(p, d) /\ Here(p).done < Size
    BY <1>2, <1>6 DEF Commit
  <2>2. /\ d.done = Here(p).done + 1
        /\ d.file = IF Here(p).file = "whole" THEN "whole" ELSE "broken"
    BY <1>2 DEF Appended, Dir
  <2> HIDE DEF d
  <2>3. Extends(Here(p), d)
    BY <2>1, <2>2 DEF Extends, Sound
  <2> QED
    BY <1>1, <2>1, <2>3, PutInCell
<1>7. CASE StopInAppend(p)
  <2> DEFINE h == Here(p)
             v == cmd[p].config
  <2>1. PICK d \in Torn(h, v) : Put(p, Unlocked(d))
    BY <1>7 DEF StopInAppend
  <2>2. h.done < Size
    BY <1>2, <1>7 DEF StopInAppend
  <2>3. h \in Dir
    BY <1>2
  <2> HIDE DEF h, v
  <2>4. \/ d = [h EXCEPT !.file = "broken"]
        \/ /\ h.file = "whole"
           /\ \E f \in {"whole", "bare"} : d = [h EXCEPT !.header = v, !.file = f]
        \/ /\ h.file = "whole"
           /\ d = [h EXCEPT !.header = v, !.done = h.done + 1, !.file = "bare"]
    BY <2>1 DEF Torn
  <2>5. \/ Unlocked(d).file = "broken"
        \/ h.file = "whole" /\ Unlocked(d).done = h.done
        \/ h.file = "whole" /\ Unlocked(d).done = h.done + 1
    BY <2>3, <2>4 DEF Unlocked, Dir
  <2>6. Extends(h, Unlocked(d))
    BY <2>2, <2>5 DEF Extends, Sound
  <2> QED
    BY <1>1, <2>1, <2>6, PutInCell DEF h
<1> QED
  BY <1>4, <1>5, <1>6, <1>7

LEMMA CellStep ==
  ASSUME IInv, [Next]_vars, NEW c \in Cells
  PROVE  Extends(OfCell(dirs, c), OfCell(dirs', c))
<1>1. CASE UNCHANGED vars
  BY <1>1, StaysInCell DEF vars
<1>2. ASSUME NEW p \in Commands,
             Start(p) \/ Decline(p) \/ Step(p) \/ Stop(p) \/ StopInAppend(p)
      PROVE  Extends(OfCell(dirs, c), OfCell(dirs', c))
  <2>1. CASE \/ Start(p) \/ Plan(p) \/ Preflight(p) \/ FindNone(p) \/ FindOne(p)
             \/ Look(p) \/ UseExisting(p) \/ ManifestEqual(p) \/ ManifestMissing(p)
             \/ CountBefore(p) \/ ReadSummary(p)
    <3>1. UNCHANGED dirs
      BY <2>1 DEF Start, Plan, Preflight, FindNone, FindOne, Look, UseExisting,
         ManifestEqual, ManifestMissing, CountBefore, ReadSummary
    <3> QED
      BY <3>1, StaysInCell
  <2>2. CASE \/ PlanFails(p) \/ Decline(p) \/ PreflightFails(p) \/ FindFails(p)
             \/ ManifestDiffers(p) \/ CountFails(p) \/ LockFails(p)
             \/ SampleFails(p) \/ SummaryFails(p) \/ Stop(p)
    <3>1. \E code \in {0, 1, 2, 130, None} : Exit(p, code)
      BY <2>2 DEF PlanFails, Decline, PreflightFails, FindFails, ManifestDiffers,
         CountFails, LockFails, SampleFails, SummaryFails, Stop
    <3>2. \/ (At(p, "running") /\ Put(p, Unlocked(Here(p))))
          \/ UNCHANGED dirs
      BY <3>1 DEF Exit
    <3> QED
      BY <1>2, <3>2, PutSteps, StaysInCell
  <2>3. CASE Create(p)
    BY <2>3, CreateInCell
  <2>4. CASE \/ WriteManifest(p) \/ Lock(p) \/ Finish(p) \/ WriteSummary(p)
             \/ Commit(p) \/ StopInAppend(p)
    BY <2>4, PutSteps
  <2> QED
    BY <1>2, <2>1, <2>2, <2>3, <2>4 DEF Step
<1> QED
  BY <1>1, <1>2 DEF Next

(* Whatever commands run on an output root, and from whatever versions,    *)
(* each cell of the matrix behaves as one ledger: while it is sound, its   *)
(* samples are those of the first problems, and the next one is added.     *)
THEOREM Implementation ==
  ASSUME NEW c \in Cells
  PROVE  Spec => Promise(c)!Spec
<1> DEFINE d == OfCell(dirs, c)
           held == IF Sound(d) THEN d.done ELSE 0
<1>1. Init => Promise(c)!Init
  <2> SUFFICES ASSUME Init PROVE held = 0 /\ Sound(d) = TRUE
    BY DEF Promise!Init
  <2>1. d = NewDir
    BY DEF Init, OfCell
  <2> QED
    BY <2>1 DEF NewDir, Sound
<1>2. ASSUME IInv, [Next]_vars
      PROVE  [Promise(c)!Next]_(Promise(c)!vars)
  <2>1. Extends(d, d')
    BY <1>2, CellStep
  <2>2. Sound(d) \in BOOLEAN /\ Sound(d') \in BOOLEAN
    BY DEF Sound
  <2> HIDE DEF d
  <2>3. CASE ~Sound(d')
    <3>1. Sound(d') = FALSE /\ held' = 0
      BY <2>2, <2>3
    <3>2. CASE Sound(d)
      <4>1. Sound(d) = TRUE
        BY <2>2, <3>2
      <4> QED
        BY <3>1, <4>1 DEF Promise!Next, Promise!Damage, held, d
    <3>3. CASE ~Sound(d)
      <4>1. Sound(d) = FALSE /\ held = 0
        BY <2>2, <3>3
      <4> QED
        BY <3>1, <4>1 DEF Promise!vars, held, d
    <3> QED
      BY <3>2, <3>3
  <2>4. CASE Sound(d')
    <3>1. Sound(d) = TRUE /\ Sound(d') = TRUE
      BY <2>1, <2>2, <2>4 DEF Extends
    <3>2. held = d.done /\ held' = d'.done
      BY <3>1
    <3>3. held' = held \/ (held' = held + 1 /\ held < Size)
      BY <2>1, <3>1, <3>2 DEF Extends
    <3> QED
      BY <3>1, <3>3 DEF Promise!Next, Promise!Commit, Promise!vars, held, d
  <2> QED
    BY <2>3, <2>4
<1> QED
  BY <1>1, <1>2, Invariant, PTL DEF Spec, Promise!Spec

----------------------------------------------------------------------------
(***************************************************************************)
(* What a step may do to a ledger                                          *)
(***************************************************************************)
(* A step of p turns the directory h it is in into d: a manifest is only   *)
(* changed by writing one, and a ledger only under its lock, by a sample   *)
(* or a header that names the version in the configuration of p.           *)
Effect(p, h, d) ==
  /\ d.manifest # h.manifest => At(p, "writing") /\ d.manifest = cmd[p].config
  /\ d.header # h.header => At(p, "running") /\ d.header = cmd[p].config
  /\ d.done # h.done => At(p, "running") /\ d.header = cmd[p].config

StepOf(p) == Start(p) \/ Decline(p) \/ Step(p) \/ Stop(p) \/ StopInAppend(p)

(* The steps that touch a directory touch the one that p is in.            *)
LEMMA StepEffect ==
  ASSUME IInv, NEW p \in Commands, StepOf(p)
  PROVE  \/ UNCHANGED dirs
         \/ Create(p)
         \/ cmd[p].pc \in InDir /\ \E d : Put(p, d) /\ Effect(p, Here(p), d)
<1>1. ASSUME cmd[p].pc \in InDir PROVE Here(p) \in Dir
  BY <1>1, HereFacts
<1>2. ASSUME NEW code, Exit(p, code)
      PROVE  \/ UNCHANGED dirs
             \/ cmd[p].pc \in InDir /\ \E d : Put(p, d) /\ Effect(p, Here(p), d)
  <2>1. CASE At(p, "running")
    <3> DEFINE d == Unlocked(Here(p))
    <3>1. cmd[p].pc \in InDir /\ Here(p) \in Dir
      BY <1>1, <2>1 DEF At, InDir
    <3>2. d.manifest = Here(p).manifest /\ d.header = Here(p).header /\ d.done = Here(p).done
      BY <3>1 DEF Unlocked, Dir
    <3>3. Put(p, d)
      BY <1>2, <2>1 DEF Exit
    <3> HIDE DEF d
    <3> QED
      BY <3>1, <3>2, <3>3 DEF Effect
  <2>2. CASE ~At(p, "running")
    BY <1>2, <2>2 DEF Exit
  <2> QED
    BY <2>1, <2>2
<1>3. CASE \/ PlanFails(p) \/ Decline(p) \/ PreflightFails(p) \/ FindFails(p)
           \/ ManifestDiffers(p) \/ CountFails(p) \/ LockFails(p)
           \/ SampleFails(p) \/ SummaryFails(p) \/ Stop(p)
  <2>1. \E code \in {0, 1, 2, 130, None} : Exit(p, code)
    BY <1>3 DEF PlanFails, Decline, PreflightFails, FindFails, ManifestDiffers,
       CountFails, LockFails, SampleFails, SummaryFails, Stop
  <2> QED
    BY <1>2, <2>1
<1>4. CASE \/ Start(p) \/ Plan(p) \/ Preflight(p) \/ FindNone(p) \/ FindOne(p)
           \/ Look(p) \/ UseExisting(p) \/ ManifestEqual(p) \/ ManifestMissing(p)
           \/ CountBefore(p) \/ ReadSummary(p)
  BY <1>4 DEF Start, Plan, Preflight, FindNone, FindOne, Look, UseExisting,
     ManifestEqual, ManifestMissing, CountBefore, ReadSummary
<1>5. CASE WriteManifest(p) \/ Lock(p) \/ WriteSummary(p)
  <2>1. cmd[p].pc \in InDir /\ Here(p) \in Dir
    BY <1>1, <1>5 DEF WriteManifest, Lock, WriteSummary, At, InDir
  <2>2. CASE WriteManifest(p)
    <3> DEFINE d == [Here(p) EXCEPT !.manifest = cmd[p].config]
    <3>1. /\ d.manifest = cmd[p].config /\ d.header = Here(p).header
          /\ d.done = Here(p).done /\ Put(p, d) /\ At(p, "writing")
      BY <2>1, <2>2 DEF WriteManifest, Dir
    <3> HIDE DEF d
    <3> QED
      BY <2>1, <3>1 DEF Effect
  <2>3. CASE Lock(p)
    <3> DEFINE d == [Here(p) EXCEPT !.lock = p]
    <3>1. /\ d.manifest = Here(p).manifest /\ d.header = Here(p).header
          /\ d.done = Here(p).done /\ Put(p, d)
      BY <2>1, <2>3 DEF Lock, Dir
    <3> HIDE DEF d
    <3> QED
      BY <2>1, <3>1 DEF Effect
  <2>4. CASE WriteSummary(p)
    <3> DEFINE d == [Here(p) EXCEPT !.summary = cmd[p].seen]
    <3>1. /\ d.manifest = Here(p).manifest /\ d.header = Here(p).header
          /\ d.done = Here(p).done /\ Put(p, d)
      BY <2>1, <2>4 DEF WriteSummary, Dir
    <3> HIDE DEF d
    <3> QED
      BY <2>1, <3>1 DEF Effect
  <2> QED
    BY <1>5, <2>2, <2>3, <2>4
<1>6. CASE Finish(p) \/ Commit(p) \/ StopInAppend(p)
  <2> DEFINE h == Here(p)
             v == cmd[p].config
  <2>1. cmd[p].pc \in InDir /\ h \in Dir /\ At(p, "running")
    BY <1>1, <1>6 DEF Finish, Commit, StopInAppend, At, InDir
  <2>2. CASE Finish(p)
    <3> DEFINE d == Unlocked(Here(p))
    <3>1. /\ d.manifest = h.manifest /\ d.header = h.header /\ d.done = h.done
          /\ Put(p, d)
      BY <2>1, <2>2 DEF Finish, Unlocked, Dir
    <3> HIDE DEF d
    <3> QED
      BY <2>1, <3>1 DEF Effect
  <2>3. CASE Commit(p)
    <3> DEFINE d == Appended(Here(p), cmd[p].config)
    <3>1. d.manifest = h.manifest /\ d.header = v /\ Put(p, d)
      BY <2>1, <2>3 DEF Commit, Appended, Dir
    <3> HIDE DEF d
    <3> QED
      BY <2>1, <3>1 DEF Effect
  <2>4. CASE StopInAppend(p)
    <3>1. PICK d \in Torn(h, v) : Put(p, Unlocked(d))
      BY <2>4 DEF StopInAppend
    <3> HIDE DEF h, v
    <3>2. \/ d = [h EXCEPT !.file = "broken"]
          \/ \E f \in {"whole", "bare"} : d = [h EXCEPT !.header = v, !.file = f]
          \/ d = [h EXCEPT !.header = v, !.done = h.done + 1, !.file = "bare"]
      BY <3>1 DEF Torn
    <3>3. /\ Unlocked(d).manifest = h.manifest
          /\ \/ Unlocked(d).header = h.header /\ Unlocked(d).done = h.done
             \/ Unlocked(d).header = v
      BY <2>1, <3>2 DEF Unlocked, Dir
    <3>4. Effect(p, h, Unlocked(d))
      BY <2>1, <3>3 DEF Effect, v
    <3> QED
      BY <2>1, <3>1, <3>4 DEF h
  <2> QED
    BY <1>6, <2>2, <2>3, <2>4
<1> QED
  BY <1>3, <1>4, <1>5, <1>6 DEF StepOf, Step

(* A put changes one directory and no other.                               *)
LEMMA PutElsewhere ==
  ASSUME IInv, NEW p \in Commands, cmd[p].pc \in InDir, NEW d, Put(p, d),
         NEW c \in Cells
  PROVE  /\ DOMAIN dirs'[c] = DOMAIN dirs[c]
         /\ \A k \in DOMAIN dirs[c] :
              dirs'[c][k] = IF c = cmd[p].cell /\ k = cmd[p].dir THEN d ELSE dirs[c][k]
         /\ dirs'[cmd[p].cell][cmd[p].dir] = d
<1> DEFINE b == cmd[p].cell
           j == cmd[p].dir
           s == dirs[b]
<1>1. b \in Cells /\ j \in DOMAIN s /\ dirs \in Directories
  BY HereFacts, CommandFacts
<1>2. dirs' = [dirs EXCEPT ![b] = [s EXCEPT ![j] = d]]
  BY DEF Put
<1> HIDE DEF b, j, s
<1>3. dirs'[b] = [s EXCEPT ![j] = d] /\ (c # b => dirs'[c] = dirs[c]) /\ s = dirs[b]
  BY <1>1, <1>2 DEF Directories, s
<1>4. dirs'[b][j] = d /\ \A k \in DOMAIN s : k # j => dirs'[b][k] = s[k]
  BY <1>1, <1>3
<1>5. DOMAIN dirs'[b] = DOMAIN s
  BY <1>3
<1>6. CASE c = b
  BY <1>3, <1>4, <1>5, <1>6 DEF b, j
<1>7. CASE c # b
  BY <1>3, <1>4, <1>7 DEF b, j
<1> QED
  BY <1>6, <1>7

(* The first directory of a cell is new.                                   *)
LEMMA CreateElsewhere ==
  ASSUME IInv, NEW p \in Commands, Create(p), NEW c \in Cells
  PROVE  /\ DOMAIN dirs[c] # {} => dirs'[c] = dirs[c]
         /\ c # cmd[p].cell => dirs'[c] = dirs[c]
         /\ dirs'[cmd[p].cell] = <<NewDir>>
<1> DEFINE b == cmd[p].cell
<1>1. dirs \in Directories /\ b \in Cells /\ Len(dirs[b]) = 0
  BY CommandFacts DEF Create, Existing, CommandOK, Placed, InCell, At
<1>2. dirs[b] = <<>> /\ DOMAIN dirs[b] = {}
  BY <1>1, DirFacts
<1>3. dirs' = [dirs EXCEPT ![b] = <<NewDir>>]
  BY <1>2 DEF Create
<1> HIDE DEF b
<1>4. dirs'[b] = <<NewDir>> /\ (c # b => dirs'[c] = dirs[c])
  BY <1>1, <1>3 DEF Directories
<1> QED
  BY <1>2, <1>4 DEF b

----------------------------------------------------------------------------
(***************************************************************************)
(* Versions: the one in a manifest and the one in a ledger's header        *)
(***************************************************************************)
(* Inside a directory, from the comparison with its manifest on.           *)
Ensured == {"counting", "locking"} \cup Batched

(* What a command knows of versions.                                       *)
Origin(ds, m) ==
  /\ m.pc # "idle" => m.version \in Versions
  /\ m.pc \in InDir => m.config \in Versions
  /\ m.pc \in Ensured => Home(ds, m).manifest \in Versions
  /\ m.pc = "running" => Home(ds, m).header \in {None, m.config}

(* A ledger with records names a version, and stands beside a manifest.    *)
Attributed(d) ==
  /\ d.header # None => d.manifest # None
  /\ d.done > 0 => d.header # None

Origins ==
  /\ \A p \in Commands : Origin(dirs, cmd[p])
  /\ \A c \in Cells : \A k \in DOMAIN dirs[c] : Attributed(dirs[c][k])

(* What a step may do to the header and the manifest of a directory.       *)
LEMMA HeaderStep ==
  ASSUME IInv, Origins, NEW p \in Commands, StepOf(p),
         NEW c \in Cells, NEW k \in DOMAIN dirs[c]
  PROVE  /\ k \in DOMAIN dirs'[c]
         /\ dirs[c][k].manifest \in Versions => dirs'[c][k].manifest \in Versions
         /\ dirs'[c][k].header # dirs[c][k].header =>
              /\ At(p, "running") /\ cmd[p].cell = c /\ cmd[p].dir = k
              /\ dirs[c][k].header = None /\ dirs'[c][k].header \in Versions
         /\ Attributed(dirs'[c][k])
<1> USE CampaignAssumption
<1>1. Attributed(dirs[c][k])
  BY DEF Origins
<1>2. CASE UNCHANGED dirs
  BY <1>1, <1>2
<1>3. CASE Create(p)
  BY <1>1, <1>3, CreateElsewhere
<1>4. CASE cmd[p].pc \in InDir /\ \E d : Put(p, d) /\ Effect(p, Here(p), d)
  <2>1. PICK d : Put(p, d) /\ Effect(p, Here(p), d)
    BY <1>4
  <2>2. /\ DOMAIN dirs'[c] = DOMAIN dirs[c]
        /\ dirs'[c][k] = IF c = cmd[p].cell /\ k = cmd[p].dir THEN d ELSE dirs[c][k]
    BY <1>4, <2>1, PutElsewhere
  <2>3. CASE ~(c = cmd[p].cell /\ k = cmd[p].dir)
    BY <1>1, <2>2, <2>3
  <2>4. CASE c = cmd[p].cell /\ k = cmd[p].dir
    <3> DEFINE h == Here(p)
               v == cmd[p].config
    <3>1. h = dirs[c][k] /\ dirs'[c][k] = d /\ h = Home(dirs, cmd[p])
      BY <2>2, <2>4 DEF Here, Home
    <3>2. /\ v \in Versions /\ v # None
          /\ At(p, "running") => h.manifest \in Versions /\ h.header \in {None, v}
      BY <1>4, <3>1 DEF Origins, Origin, Ensured, Batched, At
    <3>3. /\ d.manifest # h.manifest => d.manifest = v /\ At(p, "writing")
          /\ d.header # h.header => At(p, "running") /\ d.header = v
          /\ d.done # h.done => At(p, "running") /\ d.header = v
      BY <2>1 DEF Effect
    <3>4. ~(At(p, "writing") /\ At(p, "running"))
      BY DEF At
    <3>5. Attributed(d)
      BY <1>1, <3>1, <3>2, <3>3, <3>4 DEF Attributed
    <3> HIDE DEF h, v
    <3> QED
      BY <2>2, <2>4, <3>1, <3>2, <3>3, <3>4, <3>5
  <2> QED
    BY <2>3, <2>4
<1> QED
  BY <1>2, <1>3, <1>4, StepEffect

(* Another command's knowledge stays true.                                 *)
LEMMA OriginOthers ==
  ASSUME IInv, Origins, NEW p \in Commands, StepOf(p), NEW q \in Commands,
         cmd'[q] = cmd[q], q # p
  PROVE  Origin(dirs', cmd'[q])
<1> DEFINE n == cmd[q]
           c == n.cell
           k == n.dir
<1>1. Origin(dirs, n)
  BY DEF Origins
<1>2. CASE n.pc \notin InDir
  BY <1>1, <1>2 DEF Origin, Ensured, Batched, InDir
<1>3. CASE n.pc \in InDir
  <2>1. c \in Cells /\ k \in DOMAIN dirs[c] /\ Home(dirs, n) = dirs[c][k]
        /\ Home(dirs', n) = dirs'[c][k]
    BY <1>3, HereFacts DEF Home
  <2>2. /\ dirs[c][k].manifest \in Versions => dirs'[c][k].manifest \in Versions
        /\ dirs'[c][k].header # dirs[c][k].header =>
             At(p, "running") /\ cmd[p].cell = c /\ cmd[p].dir = k
    BY <2>1, HeaderStep
  <2>3. n.pc = "running" =>
          ~(At(p, "running") /\ cmd[p].cell = c /\ cmd[p].dir = k)
    <3>1. At(p, "running") => Here(p).lock = p
      BY HereFacts DEF At, InDir
    <3>2. n.pc = "running" => dirs[c][k].lock = q
      BY HereFacts DEF At, InDir, Here
    <3> QED
      BY <3>1, <3>2 DEF Here
  <2> QED
    BY <1>1, <2>1, <2>2, <2>3 DEF Origin
<1> QED
  BY <1>2, <1>3

(* What a step makes of the command itself.                                *)
LEMMA OriginOwn ==
  ASSUME IInv, Origins, NEW p \in Commands, StepOf(p)
  PROVE  Origin(dirs', cmd'[p])
<1> USE CampaignAssumption
<1> DEFINE n == cmd[p]
           m == cmd'[p]
<1>0. /\ cmd \in [Commands -> Command] /\ Origin(dirs, n) /\ n \in Command
      /\ n.pc # "idle" => n.version \in Versions
  BY CommandFacts DEF IInv, Typed, Origins, Origin
<1>1. CASE \/ PlanFails(p) \/ Decline(p) \/ PreflightFails(p) \/ FindFails(p)
           \/ ManifestDiffers(p) \/ CountFails(p) \/ LockFails(p)
           \/ SampleFails(p) \/ SummaryFails(p) \/ Stop(p) \/ StopInAppend(p)
  <2>1. \E code \in {0, 1, 2, 130, None} :
          cmd' = [cmd EXCEPT ![p] = [Idle EXCEPT !.exit = code]]
    BY <1>1 DEF PlanFails, Decline, PreflightFails, FindFails, ManifestDiffers,
       CountFails, LockFails, SampleFails, SummaryFails, Stop, StopInAppend, Exit
  <2>2. m.pc = "idle"
    BY <1>0, <2>1 DEF Idle
  <2> QED
    BY <2>2 DEF Origin, InDir, Ensured, Batched
<1>2. CASE Start(p) \/ Plan(p) \/ Preflight(p) \/ FindNone(p) \/ Look(p)
  <2>1. m.pc \notin InDir \cup {"idle"} /\ m.version \in Versions
    <3>1. CASE Start(p)
      BY <1>0, <3>1 DEF Start, Idle, InDir
    <3>2. CASE Plan(p)
      BY <1>0, <3>2 DEF Plan, At, Command, InDir
    <3>3. CASE Preflight(p)
      BY <1>0, <3>3 DEF Preflight, Enter, At, Command, InDir
    <3>4. CASE FindNone(p) \/ Look(p)
      BY <1>0, <3>4 DEF FindNone, Look, At, Command, InDir
    <3> QED
      BY <1>2, <3>1, <3>2, <3>3, <3>4
  <2> QED
    BY <2>1 DEF Origin, InDir, Ensured, Batched
<1>3. CASE FindOne(p) \/ UseExisting(p) \/ Create(p)
  <2>1. m.pc = "ensuring" /\ m.version = n.version /\ n.pc # "idle"
        /\ m.config \in Versions
    <3>1. CASE FindOne(p)
      <4>1. /\ cmd[p].cell \in Cells /\ dirs \in Directories /\ n.pc = "finding"
        BY <3>1, CommandFacts DEF FindOne, CommandOK, Placed, InCell, At
      <4>2. PICK k \in Matches(n.cell) : Use(p, k, dirs[n.cell][k].manifest)
        BY <3>1 DEF FindOne
      <4>3. dirs[n.cell][k].manifest \in Versions
        BY <4>1, <4>2, DirFacts DEF Matches, Dir
      <4> QED
        BY <1>0, <4>1, <4>2, <4>3 DEF Use, Command
    <3>2. CASE UseExisting(p)
      BY <1>0, <3>2 DEF UseExisting, Use, Command, At
    <3>3. CASE Create(p)
      BY <1>0, <3>3 DEF Create, Use, Command, At
    <3> QED
      BY <1>3, <3>1, <3>2, <3>3
  <2> QED
    BY <1>0, <2>1 DEF Origin, Ensured, Batched
<1>4. ASSUME n.pc \in InDir, m.pc \in InDir, m.version = n.version, m.config = n.config,
             m.cell = n.cell, m.dir = n.dir,
             m.pc \in Ensured => Home(dirs', n).manifest \in Versions,
             m.pc = "running" => Home(dirs', n).header \in {None, n.config}
      PROVE  Origin(dirs', m)
  <2>1. Home(dirs', m) = Home(dirs', n) /\ n.pc # "idle"
    BY <1>4 DEF Home, InDir
  <2> QED
    BY <1>0, <1>4, <2>1 DEF Origin
<1>5. ASSUME n.pc \in Ensured
      PROVE  /\ n.pc \in InDir /\ Home(dirs', n).manifest \in Versions
             /\ n.config \in Versions
  <2>1. n.pc \in InDir /\ Home(dirs, n).manifest \in Versions
    BY <1>0, <1>5 DEF Origin, Ensured, Batched, InDir
  <2>2. n.cell \in Cells /\ n.dir \in DOMAIN dirs[n.cell]
    BY <2>1, HereFacts
  <2> QED
    BY <1>0, <2>1, <2>2, HeaderStep DEF Home, Origin
<1>6. CASE ManifestEqual(p) \/ ManifestMissing(p)
  <2>1. /\ n.pc = "ensuring" /\ m = [n EXCEPT !.pc = m.pc] /\ m.pc \in {"counting", "writing"}
        /\ m.pc = "counting" => Here(p).manifest = n.config
        /\ UNCHANGED dirs
    BY <1>0, <1>6 DEF ManifestEqual, ManifestMissing, GoTo, At, Command
  <2>2. Home(dirs', n) = Here(p) /\ n.config \in Versions
    BY <1>0, <2>1 DEF Home, Here, Origin, InDir
  <2> QED
    BY <1>0, <1>4, <2>1, <2>2 DEF InDir, Ensured, Batched, Command
<1>7. CASE WriteManifest(p)
  <2>1. /\ n.pc = "writing" /\ m = [n EXCEPT !.pc = "counting"]
        /\ Put(p, [Here(p) EXCEPT !.manifest = n.config])
    BY <1>0, <1>7 DEF WriteManifest, GoTo, At
  <2>2. n.pc \in InDir /\ n.config \in Versions /\ Here(p) \in Dir /\ n.cell \in Cells
    BY <1>0, <2>1, HereFacts DEF Origin, InDir
  <2>3. Home(dirs', n) = [Here(p) EXCEPT !.manifest = n.config]
    BY <2>1, <2>2, PutElsewhere DEF Home
  <2>4. Home(dirs', n).manifest \in Versions
    BY <2>2, <2>3 DEF Dir
  <2> QED
    BY <1>0, <1>4, <2>1, <2>2, <2>4 DEF InDir, Command
<1>8. CASE CountBefore(p) \/ ReadSummary(p) \/ Finish(p)
  <2>1. /\ n.pc \in Ensured /\ m.pc \in InDir /\ m.pc # "running"
        /\ m.version = n.version /\ m.config = n.config
        /\ m.cell = n.cell /\ m.dir = n.dir
    BY <1>0, <1>8 DEF CountBefore, ReadSummary, Finish, GoTo, At, Command, InDir,
                      Ensured, Batched
  <2> QED
    BY <1>4, <1>5, <2>1
<1>9. CASE Lock(p)
  <2>1. /\ n.pc = "locking" /\ m.pc = "running"
        /\ m.version = n.version /\ m.config = n.config
        /\ m.cell = n.cell /\ m.dir = n.dir
        /\ Here(p).header \in {None, n.config}
        /\ Put(p, [Here(p) EXCEPT !.lock = p])
    BY <1>0, <1>9 DEF Lock, Accepts, At, Command
  <2>2. n.pc \in InDir /\ Here(p) \in Dir /\ n.cell \in Cells /\ n.pc \in Ensured
    BY <2>1, HereFacts DEF InDir, Ensured
  <2>3. Home(dirs', n) = [Here(p) EXCEPT !.lock = p]
    BY <2>1, <2>2, PutElsewhere DEF Home
  <2>4. Home(dirs', n).header \in {None, n.config}
    BY <2>1, <2>2, <2>3 DEF Dir
  <2> QED
    BY <1>4, <1>5, <2>1, <2>2, <2>4 DEF InDir
<1>10. CASE Commit(p)
  <2>1. /\ n.pc = "running" /\ m.pc = "running"
        /\ m.version = n.version /\ m.config = n.config
        /\ m.cell = n.cell /\ m.dir = n.dir
        /\ Put(p, Appended(Here(p), n.config))
    BY <1>0, <1>10 DEF Commit, At, Command
  <2>2. n.pc \in InDir /\ Here(p) \in Dir /\ n.cell \in Cells /\ n.pc \in Ensured
    BY <2>1, HereFacts DEF InDir, Ensured, Batched
  <2>3. Home(dirs', n) = Appended(Here(p), n.config)
    BY <2>1, <2>2, PutElsewhere DEF Home
  <2>4. Home(dirs', n).header = n.config
    BY <2>2, <2>3 DEF Dir, Appended
  <2> QED
    BY <1>4, <1>5, <2>1, <2>2, <2>4 DEF InDir
<1>11. CASE WriteSummary(p)
  <2>1. m.pc \in {"finding", "idle"} /\ (m.pc = "finding" => m.version = n.version)
        /\ n.pc # "idle"
    <3>1. CASE cmd[p].cell < NumCells
      BY <1>0, <1>11, <3>1 DEF WriteSummary, Enter, At, Command
    <3>2. CASE ~(cmd[p].cell < NumCells)
      <4>1. n.pc = "reporting" /\ m = [Idle EXCEPT !.exit = 0, !.batch = n.batch]
        BY <1>0, <1>11, <3>2 DEF WriteSummary, At
      <4>2. m.pc = "idle"
        BY <4>1 DEF Idle
      <4> QED
        BY <4>1, <4>2
    <3> QED
      BY <3>1, <3>2
  <2> QED
    BY <1>0, <2>1 DEF Origin, InDir, Ensured, Batched
<1> QED
  BY <1>1, <1>2, <1>3, <1>6, <1>7, <1>8, <1>9, <1>10, <1>11 DEF StepOf, Step

LEMMA StepsLeaveOthers ==
  ASSUME NEW p \in Commands, StepOf(p), NEW q \in Commands, q # p,
         cmd \in [Commands -> Command]
  PROVE  cmd'[q] = cmd[q]
BY DEF StepOf, Step, Start, Decline, Stop, StopInAppend, Plan, PlanFails, Preflight,
   PreflightFails, FindNone, FindOne, FindFails, Look, UseExisting, Create, ManifestEqual,
   ManifestDiffers, ManifestMissing, WriteManifest, CountBefore, CountFails, Lock,
   LockFails, Commit, SampleFails, Finish, ReadSummary, SummaryFails, WriteSummary,
   Enter, Use, GoTo, Exit

LEMMA OriginsKept == Spec => []Origins
<1>1. Init => Origins
  <2> SUFFICES ASSUME Init PROVE Origins
    OBVIOUS
  <2>1. \A c \in Cells : dirs[c] = <<>> /\ DOMAIN dirs[c] = {}
    BY DEF Init
  <2>2. \A p \in Commands : cmd[p].pc = "idle"
    BY DEF Init, Idle
  <2> QED
    BY <2>1, <2>2 DEF Origins, Origin, InDir, Ensured, Batched
<1>2. ASSUME IInv, IInv', Origins, [Next]_vars PROVE Origins'
  <2>1. CASE UNCHANGED vars
    BY <1>2, <2>1 DEF vars, Origins, Origin, Home
  <2>2. ASSUME NEW p \in Commands, StepOf(p) PROVE Origins'
    <3>1. ASSUME NEW q \in Commands PROVE Origin(dirs', cmd'[q])
      <4>1. CASE q = p
        BY <1>2, <2>2, <4>1, OriginOwn
      <4>2. CASE q # p
        BY <1>2, <2>2, <4>2, StepsLeaveOthers, OriginOthers DEF IInv, Typed
      <4> QED
        BY <4>1, <4>2
    <3>2. ASSUME NEW c \in Cells, NEW k \in DOMAIN dirs'[c] PROVE Attributed(dirs'[c][k])
      <4>1. CASE k \in DOMAIN dirs[c]
        BY <1>2, <2>2, <4>1, HeaderStep
      <4>2. CASE k \notin DOMAIN dirs[c]
        <5>1. Create(p)
          BY <1>2, <2>2, <3>2, <4>2, StepEffect, PutElsewhere
        <5>2. dirs'[c] = <<NewDir>>
          BY <1>2, <3>2, <4>2, <5>1, CreateElsewhere
        <5>3. dirs'[c][k] = NewDir
          BY <3>2, <5>2
        <5> QED
          BY <5>3 DEF NewDir, Attributed
      <4> QED
        BY <4>1, <4>2
    <3> QED
      BY <3>1, <3>2 DEF Origins
  <2> QED
    BY <1>2, <2>1, <2>2 DEF Next, StepOf
<1>3. IInv /\ Origins /\ [Next]_vars => Origins'
  BY <1>2, NextKeeps
<1> QED
  BY <1>1, <1>3, Invariant, PTL DEF Spec

(* The version in a header stays, and who appends under it has it in its   *)
(* configuration.                                                          *)
VersionKept ==
  \A c \in Cells : \A k \in DOMAIN dirs[c] :
    dirs[c][k].header # None =>
      /\ k \in DOMAIN dirs'[c]
      /\ dirs'[c][k].header = dirs[c][k].header
      /\ dirs'[c][k].done # dirs[c][k].done =>
           \E p \in Commands : At(p, "running") /\ cmd[p].config = dirs[c][k].header

(* The records of one ledger come from one version of the program.  The    *)
(* manifest beside it may be replaced by another version's, when two       *)
(* commands find none (ensure_experiment_manifest), but no command appends *)
(* to a ledger under another version than the first one did.               *)
THEOREM OneVersionPerLedger == Spec => [][VersionKept]_vars
<1>1. ASSUME IInv, Origins, NEW p \in Commands, StepOf(p),
             NEW c \in Cells, NEW k \in DOMAIN dirs[c], dirs[c][k].header # None
      PROVE  /\ k \in DOMAIN dirs'[c]
             /\ dirs'[c][k].header = dirs[c][k].header
             /\ dirs'[c][k].done # dirs[c][k].done =>
                  At(p, "running") /\ cmd[p].config = dirs[c][k].header
  <2>1. k \in DOMAIN dirs'[c] /\ dirs'[c][k].header = dirs[c][k].header
    BY <1>1, HeaderStep
  <2>2. ASSUME dirs'[c][k].done # dirs[c][k].done
        PROVE  At(p, "running") /\ cmd[p].config = dirs[c][k].header
    <3>1. ~ UNCHANGED dirs /\ ~ Create(p)
      BY <1>1, <2>2, CreateElsewhere
    <3>2. PICK d : cmd[p].pc \in InDir /\ Put(p, d) /\ Effect(p, Here(p), d)
      BY <1>1, <3>1, StepEffect
    <3>3. dirs'[c][k] = IF c = cmd[p].cell /\ k = cmd[p].dir THEN d ELSE dirs[c][k]
      BY <1>1, <3>2, PutElsewhere
    <3>4. c = cmd[p].cell /\ k = cmd[p].dir /\ dirs'[c][k] = d /\ Here(p) = dirs[c][k]
      BY <2>2, <3>3 DEF Here
    <3> QED
      BY <2>1, <2>2, <3>2, <3>4 DEF Effect
  <2> QED
    BY <2>1, <2>2
<1>2. ASSUME IInv, Origins, Next PROVE VersionKept
  <2>1. PICK p \in Commands : StepOf(p)
    BY <1>2 DEF Next, StepOf
  <2> QED
    BY <1>1, <1>2, <2>1 DEF VersionKept
<1>3. IInv /\ Origins /\ [Next]_vars => [VersionKept]_vars
  BY <1>2
<1> QED
  BY <1>3, Invariant, OriginsKept, PTL DEF Spec

(* What docs/running_experiments.md says of resuming holds while one       *)
(* version of the program runs on an output root: the run in which it is   *)
(* violated needs two.                                                     *)
THEOREM OneVersionResumes ==
  ASSUME NEW v, Versions = {v}
  PROVE  Spec => []ProgressResumable
<1>1. ASSUME IInv, Origins PROVE ProgressResumable
  <2> SUFFICES ASSUME NEW c \in Cells, NEW k \in DOMAIN dirs[c], dirs[c][k].header # None
               PROVE  dirs[c][k].header = dirs[c][k].manifest
    BY DEF ProgressResumable
  <2>1. dirs[c][k].manifest # None
    BY <1>1 DEF Origins, Attributed
  <2>2. dirs[c][k] \in Dir
    BY <1>1, DirFacts DEF IInv, Typed
  <2>3. dirs[c][k].header \in {v, None} /\ dirs[c][k].manifest \in {v, None}
    BY <2>2 DEF Dir
  <2> QED
    BY <2>1, <2>3
<1>2. IInv /\ Origins => ProgressResumable
  BY <1>1
<1> QED
  BY <1>2, Invariant, OriginsKept, PTL

----------------------------------------------------------------------------
(***************************************************************************)
(* A command of a matrix ends, and what may end it early                   *)
(***************************************************************************)
(* p has a step to make that is not a failure.                             *)
GoesOn(p) ==
  \/ At(p, "planning") /\ \A c \in Cells : CanResume(c)
  \/ At(p, "preflight")
  \/ At(p, "finding") /\ CanResume(cmd[p].cell)
  \/ At(p, "claiming") /\ Existing(p) \in {0, 1}
  \/ At(p, "creating") /\ Existing(p) \in {0, 1}
  \/ At(p, "ensuring") /\ Here(p).manifest \in {None, cmd[p].config}
  \/ At(p, "counting") /\ Accepts(p)
  \/ At(p, "locking") /\ Here(p).lock = None /\ Accepts(p)
  \/ At(p, "running") /\ Here(p).done < cmd[p].goal
  \/ At(p, "running") /\ Here(p).done = cmd[p].goal
  \/ At(p, "summing") /\ Sound(Here(p))
  \/ cmd[p].pc \in {"writing", "reporting"}

(* An append was cut short in a ledger that p reads.                       *)
MeetsDamage(p) ==
  \/ /\ At(p, "planning")
     /\ \E c \in Cells : \E k \in DOMAIN dirs[c] : dirs[c][k].file = "broken"
  \/ /\ At(p, "finding")
     /\ \E k \in DOMAIN dirs[cmd[p].cell] : dirs[cmd[p].cell][k].file = "broken"
  \/ /\ cmd[p].pc \in {"counting", "locking", "summing"}
     /\ Here(p).file = "broken"

(* Another command works on the cell.                                      *)
MeetsLock(p) == At(p, "locking") /\ Here(p).lock \in Commands \ {p}

(* The directory is of another version than the one p looked for.          *)
MeetsVersion(p) ==
  /\ cmd[p].pc \in {"ensuring", "counting", "locking"}
  /\ {Here(p).manifest, Here(p).header} \cap (Versions \ {cmd[p].config}) # {}

Unhindered ==
  \A p \in Commands :
    At(p, "idle") \/ GoesOn(p) \/ MeetsDamage(p) \/ MeetsLock(p) \/ MeetsVersion(p)

(* A command never waits for another one, and always has a step to make    *)
(* that is not a failure unless it comes upon a ledger in which an append  *)
(* was cut short, one that is locked, or a directory of another version.   *)
(* In particular no search for a directory ever fails for a tie, and no    *)
(* claim for a second directory.                                           *)
THEOREM NeverHindered == Spec => []Unhindered
<1> USE CampaignAssumption
<1>1. ASSUME IInv, NEW p \in Commands, ~At(p, "idle")
      PROVE  GoesOn(p) \/ MeetsDamage(p) \/ MeetsLock(p) \/ MeetsVersion(p)
  <2>1. /\ cmd[p].pc \in Pc /\ cmd[p].config \in Versions \cup {None}
        /\ \A c \in Cells : Len(dirs[c]) \in {0, 1} /\ DOMAIN dirs[c] = 1 .. Len(dirs[c])
    BY <1>1, CommandFacts DEF Command
  <2>2. ASSUME NEW c \in Cells, \A k \in DOMAIN dirs[c] : dirs[c][k].file # "broken"
        PROVE  CanResume(c)
    <3>1. \A j, k \in Matches(c) : j = k
      BY <2>1 DEF Matches
    <3>2. \A k \in Matches(c) : IsBest(c, k)
      BY <3>1 DEF IsBest
    <3> QED
      BY <2>2, <3>2 DEF CanResume, Matches, Sound
  <2>3. CASE cmd[p].pc = "planning"
    BY <2>2, <2>3 DEF GoesOn, MeetsDamage, At
  <2>4. CASE cmd[p].pc \in {"finding", "claiming", "creating"}
    <3>1. cmd[p].cell \in Cells
      BY <1>1, <2>4, CommandFacts DEF CommandOK, Placed, InCell
    <3> QED
      BY <2>1, <2>2, <2>4, <3>1 DEF GoesOn, MeetsDamage, At, Existing
  <2>5. CASE cmd[p].pc = "running"
    <3>1. /\ Here(p).done \in 0 .. Size /\ cmd[p].goal \in 0 .. Size
          /\ Here(p).done <= cmd[p].goal
      BY <1>1, <2>5, CommandFacts, HereFacts DEF CommandOK, OnBatch, Home, Here, InDir
    <3>2. Here(p).done < cmd[p].goal \/ Here(p).done = cmd[p].goal
      BY <3>1
    <3> QED
      BY <2>5, <3>2 DEF GoesOn, At
  <2>6. CASE cmd[p].pc \in {"ensuring", "counting", "locking"}
    <3>1. /\ Here(p).manifest \in Versions \cup {None}
          /\ Here(p).header \in Versions \cup {None}
          /\ Here(p).lock \in Commands \cup {None}
      BY <1>1, <2>6, HereFacts DEF InDir, Dir
    <3>2. CASE Here(p).manifest \in Versions \ {cmd[p].config}
      BY <2>6, <3>2 DEF MeetsVersion
    <3>3. CASE Here(p).header \in Versions \ {cmd[p].config}
      BY <2>6, <3>3 DEF MeetsVersion
    <3>4. CASE Here(p).file = "broken" /\ cmd[p].pc # "ensuring"
      BY <2>6, <3>4 DEF MeetsDamage
    <3>5. CASE /\ Here(p).manifest \in {None, cmd[p].config}
               /\ Here(p).header \in {None, cmd[p].config}
               /\ cmd[p].pc # "ensuring" => Sound(Here(p))
      <4>1. CASE cmd[p].pc \in {"ensuring", "counting"}
        BY <3>5, <4>1 DEF GoesOn, At, Accepts
      <4>2. CASE cmd[p].pc = "locking"
        <5>1. Here(p).lock # p
          BY <1>1, <2>6, <4>2, CommandFacts, HereFacts DEF Owns, Here, InDir
        <5> QED
          BY <3>1, <3>5, <4>2, <5>1 DEF GoesOn, MeetsLock, At, Accepts
      <4> QED
        BY <2>6, <4>1, <4>2
    <3> QED
      BY <3>1, <3>2, <3>3, <3>4, <3>5 DEF Sound
  <2>7. CASE cmd[p].pc = "summing"
    BY <2>7 DEF GoesOn, MeetsDamage, At, Sound
  <2>8. CASE cmd[p].pc \in {"preflight", "writing", "reporting"}
    BY <2>8 DEF GoesOn, At
  <2> QED
    BY <1>1, <2>1, <2>3, <2>4, <2>5, <2>6, <2>7, <2>8 DEF At, Pc, InCell, InDir
<1>2. IInv => Unhindered
  BY <1>1 DEF Unhindered
<1> QED
  BY <1>2, Invariant, PTL

(* What is left of a cell: the steps before and after the batch, and the   *)
(* samples of the batch.                                                   *)
Rank(label) ==
  CASE label = "finding"   -> 10
    [] label = "claiming"  -> 9
    [] label = "creating"  -> 8
    [] label = "ensuring"  -> 7
    [] label = "writing"   -> 6
    [] label = "counting"  -> 5
    [] label = "locking"   -> 4
    [] label = "running"   -> 3
    [] label = "summing"   -> 2
    [] label = "reporting" -> 1

Samples(ds, m) ==
  CASE m.pc = "running"                  -> m.goal - Home(ds, m).done
    [] m.pc \in {"summing", "reporting"} -> 0
    [] OTHER                             -> Size

CellWork == Size + 10

(* What is left of a command.                                              *)
Remaining(ds, m) ==
  CASE m.pc = "idle"      -> 0
    [] m.pc = "planning"  -> NumCells * CellWork + 2
    [] m.pc = "preflight" -> NumCells * CellWork + 1
    [] OTHER -> (NumCells - m.cell) * CellWork + Samples(ds, m) + Rank(m.pc)

LEMMA Products ==
  ASSUME NEW a \in Nat, NEW k \in Nat
  PROVE  /\ a * k \in Nat
         /\ \A b \in 0 .. a : (a - b) * k \in Nat /\ (a - b) * k <= a * k
         /\ \A b \in Int : (a - b) * k = (a - (b + 1)) * k + k
BY SMT

(* The work left in a cell, and its range.                                 *)
LEMMA RemainingInCell ==
  ASSUME NEW ds \in Directories, NEW p, NEW m \in Command, CommandOK(ds, p, m),
         m.pc \in InCell
  PROVE  /\ m.cell \in 1 .. NumCells
         /\ Samples(ds, m) \in 0 .. Size
         /\ Rank(m.pc) \in 1 .. 10
         /\ Remaining(ds, m) = (NumCells - m.cell) * CellWork + Samples(ds, m) + Rank(m.pc)
         /\ Remaining(ds, m) \in Nat
         /\ Remaining(ds, m) > (NumCells - m.cell) * CellWork
<1> USE CampaignAssumption
<1>1. m.cell \in 1 .. NumCells
  BY DEF CommandOK, Placed, Cells
<1>2. Samples(ds, m) \in 0 .. Size
  <2>1. CASE m.pc = "running"
    <3>1. m.dir \in DOMAIN ds[m.cell] /\ m.cell \in Cells
      BY <1>1, <2>1 DEF CommandOK, Placed, InDir, Cells
    <3>2. Home(ds, m).done \in 0 .. Size /\ m.goal \in 0 .. Size /\ Home(ds, m).done <= m.goal
      BY <2>1, <3>1, DirFacts DEF Home, CommandOK, OnBatch, Command
    <3> QED
      BY <2>1, <3>2 DEF Samples
  <2>2. CASE m.pc # "running"
    BY <2>2 DEF Samples
  <2> QED
    BY <2>1, <2>2
<1>3. Rank(m.pc) \in 1 .. 10
  BY DEF Rank, InCell, InDir
<1>4. Remaining(ds, m) = (NumCells - m.cell) * CellWork + Samples(ds, m) + Rank(m.pc)
  BY DEF Remaining, InCell, InDir
<1>5. (NumCells - m.cell) * CellWork \in Nat
  BY <1>1, Products DEF CellWork
<1> QED
  <2> DEFINE x == (NumCells - m.cell) * CellWork
             s == Samples(ds, m)
             r == Rank(m.pc)
  <2>1. x \in Nat /\ s \in 0 .. Size /\ r \in 1 .. 10 /\ Remaining(ds, m) = x + s + r
    BY <1>2, <1>3, <1>4, <1>5
  <2> HIDE DEF x, s, r
  <2>2. Remaining(ds, m) \in Nat /\ Remaining(ds, m) > x
    BY <2>1
  <2> QED
    BY <1>1, <1>2, <1>3, <1>4, <2>2 DEF x

(* In every state there is a bound.                                        *)
LEMMA RemainingRange ==
  ASSUME NEW ds \in Directories, NEW p, NEW m \in Command, CommandOK(ds, p, m)
  PROVE  /\ Remaining(ds, m) \in 0 .. (NumCells * CellWork + 2)
         /\ m.pc # "idle" => Remaining(ds, m) > 0
<1> USE CampaignAssumption
<1>1. CellWork \in Nat /\ NumCells * CellWork \in Nat
  BY Products DEF CellWork
<1>2. CASE m.pc \notin InCell
  <2> DEFINE x == NumCells * CellWork
  <2>1. x \in Nat /\ m.pc \in {"idle", "planning", "preflight"}
    BY <1>1, <1>2 DEF Command, Pc
  <2>2. Remaining(ds, m) \in {0, x + 1, x + 2} /\ (m.pc # "idle" => Remaining(ds, m) # 0)
    <3>1. m.pc = "idle" => Remaining(ds, m) = 0
      BY DEF Remaining
    <3>2. m.pc = "planning" => Remaining(ds, m) = x + 2
      BY DEF Remaining
    <3>3. m.pc = "preflight" => Remaining(ds, m) = x + 1
      BY DEF Remaining
    <3> HIDE DEF x
    <3> QED
      BY <2>1, <3>1, <3>2, <3>3
  <2> HIDE DEF x
  <2>3. Remaining(ds, m) \in 0 .. (x + 2) /\ (m.pc # "idle" => Remaining(ds, m) > 0)
    BY <2>1, <2>2
  <2> QED
    BY <2>3 DEF x
<1>3. CASE m.pc \in InCell
  <2> DEFINE x == NumCells * CellWork
             y == (NumCells - m.cell) * CellWork
             z == (NumCells - 1) * CellWork
  <2>1. /\ m.cell \in 1 .. NumCells /\ Samples(ds, m) \in 0 .. Size
        /\ Rank(m.pc) \in 1 .. 10 /\ Remaining(ds, m) = y + Samples(ds, m) + Rank(m.pc)
    BY <1>3, RemainingInCell
  <2>2. x = z + CellWork
    BY <1>1, Products
  <2>3. y \in Nat /\ y <= z
    <3>1. NumCells - 1 \in Nat /\ m.cell - 1 \in 0 .. (NumCells - 1)
      BY <2>1
    <3>2. ((NumCells - 1) - (m.cell - 1)) * CellWork \in Nat
          /\ ((NumCells - 1) - (m.cell - 1)) * CellWork <= z
      BY <1>1, <3>1, Products
    <3>3. (NumCells - 1) - (m.cell - 1) = NumCells - m.cell
      BY <2>1
    <3> QED
      BY <3>2, <3>3
  <2> DEFINE s == Samples(ds, m)
             r == Rank(m.pc)
  <2>4. /\ s \in 0 .. Size /\ r \in 1 .. 10 /\ Remaining(ds, m) = y + s + r
        /\ z \in Nat /\ x = z + Size + 10
    BY <1>1, <2>1, <2>2, Products DEF CellWork
  <2> HIDE DEF s, r, x, y, z
  <2>5. Remaining(ds, m) \in 0 .. (x + 2) /\ Remaining(ds, m) > 0
    BY <2>3, <2>4
  <2> QED
    BY <2>5 DEF x
<1> QED
  BY <1>2, <1>3

(* A step inside a cell.                                                   *)
LEMMA InOneCell ==
  ASSUME NEW ds \in Directories, NEW es \in Directories, NEW p,
         NEW n \in Command, NEW m \in Command,
         CommandOK(ds, p, n), CommandOK(es, p, m), n.pc \in InCell, m.pc \in InCell,
         m.cell = n.cell,
         \/ Samples(es, m) <= Samples(ds, n) /\ Rank(m.pc) < Rank(n.pc)
         \/ Samples(es, m) < Samples(ds, n) /\ Rank(m.pc) = Rank(n.pc)
  PROVE  Remaining(es, m) < Remaining(ds, n)
<1> DEFINE x == (NumCells - n.cell) * CellWork
           a == Samples(ds, n)
           b == Samples(es, m)
           r == Rank(n.pc)
           s == Rank(m.pc)
<1>1. /\ n.cell \in 1 .. NumCells
      /\ a \in Nat /\ b \in Nat /\ r \in Nat /\ s \in Nat
      /\ Remaining(ds, n) = x + a + r /\ Remaining(es, m) = x + b + s
      /\ \/ b <= a /\ s < r
         \/ b < a /\ s = r
  BY RemainingInCell, CampaignAssumption
<1>2. x \in Nat
  BY <1>1, Products, CampaignAssumption DEF CellWork
<1> HIDE DEF x, a, b, r, s
<1>3. x + b + s < x + a + r
  BY <1>1, <1>2
<1> QED
  BY <1>1, <1>3

(* A step into the next cell.                                              *)
LEMMA NextCell ==
  ASSUME NEW ds \in Directories, NEW es \in Directories, NEW p,
         NEW n \in Command, NEW m \in Command,
         CommandOK(ds, p, n), CommandOK(es, p, m), m.pc = "finding",
         \/ n.pc = "preflight" /\ m.cell = 1
         \/ n.pc = "reporting" /\ m.cell = n.cell + 1
  PROVE  Remaining(es, m) < Remaining(ds, n)
<1> USE CampaignAssumption
<1> DEFINE x == (NumCells - m.cell) * CellWork
<1>1. m.cell \in 1 .. NumCells /\ Remaining(es, m) = x + Size + 10 /\ x \in Nat
  <2>1. m.pc \in InCell /\ Samples(es, m) = Size /\ Rank(m.pc) = 10
    BY DEF InCell, Samples, Rank
  <2>2. /\ m.cell \in 1 .. NumCells
        /\ Remaining(es, m) = x + Size + 10
    BY <2>1, RemainingInCell
  <2>3. x \in Nat
    BY <2>2, Products DEF CellWork
  <2> QED
    BY <2>2, <2>3
<1>2. CellWork \in Nat /\ CellWork = Size + 10
  BY DEF CellWork
<1>3. CASE n.pc = "preflight" /\ m.cell = 1
  <2> DEFINE y == NumCells * CellWork
  <2>1. Remaining(ds, n) = y + 1
    BY <1>3 DEF Remaining
  <2>2. y = x + CellWork
    BY <1>2, <1>3, Products
  <2> HIDE DEF x, y
  <2> QED
    BY <1>1, <1>2, <2>1, <2>2
<1>4. CASE n.pc = "reporting" /\ m.cell = n.cell + 1
  <2> DEFINE y == (NumCells - n.cell) * CellWork
  <2>1. n.cell \in Int /\ n.pc \in InCell
    BY <1>4 DEF InCell, InDir, Command
  <2>2. y = x + CellWork
    BY <1>2, <1>4, <2>1, Products
  <2>3. Remaining(ds, n) > y /\ Remaining(ds, n) \in Nat
    BY <2>1, RemainingInCell
  <2> HIDE DEF x, y
  <2> QED
    BY <1>1, <1>2, <2>2, <2>3
<1> QED
  BY <1>3, <1>4

(* Every step of a command leaves it less to do.                           *)
LEMMA OwnWork ==
  ASSUME IInv, IInv', NEW p \in Commands, StepOf(p), ~At(p, "idle")
  PROVE  Remaining(dirs', cmd'[p]) < Remaining(dirs, cmd[p])
<1> USE CampaignAssumption
<1> DEFINE n == cmd[p]
           m == cmd'[p]
<1>0. /\ cmd \in [Commands -> Command] /\ n \in Command /\ m \in Command
      /\ dirs \in Directories /\ dirs' \in Directories
      /\ CommandOK(dirs, p, n) /\ CommandOK(dirs', p, m) /\ n.pc # "idle"
  BY DEF IInv, Typed, At
<1>1. CASE \/ PlanFails(p) \/ Decline(p) \/ PreflightFails(p) \/ FindFails(p)
           \/ ManifestDiffers(p) \/ CountFails(p) \/ LockFails(p)
           \/ SampleFails(p) \/ SummaryFails(p) \/ Stop(p) \/ StopInAppend(p)
           \/ WriteSummary(p) /\ ~(n.cell < NumCells)
  <2>1. m.pc = "idle"
    <3>1. CASE WriteSummary(p) /\ ~(n.cell < NumCells)
      <4>1. m = [Idle EXCEPT !.exit = 0, !.batch = n.batch]
        BY <1>0, <3>1 DEF WriteSummary
      <4> QED
        BY <4>1 DEF Idle
    <3>2. CASE ~(WriteSummary(p) /\ ~(n.cell < NumCells))
      <4>1. \E code \in {0, 1, 2, 130, None} :
              cmd' = [cmd EXCEPT ![p] = [Idle EXCEPT !.exit = code]]
        BY <1>1, <3>2 DEF PlanFails, Decline, PreflightFails, FindFails, ManifestDiffers,
           CountFails, LockFails, SampleFails, SummaryFails, Stop, StopInAppend, Exit
      <4> QED
        BY <1>0, <4>1 DEF Idle
    <3> QED
      BY <3>1, <3>2
  <2>2. Remaining(dirs', m) = 0
    BY <2>1 DEF Remaining
  <2> QED
    BY <1>0, <2>2, RemainingRange
<1>2. CASE Plan(p)
  <2>1. n.pc = "planning" /\ m.pc = "preflight"
    BY <1>0, <1>2 DEF Plan, At, Command
  <2>2. NumCells * CellWork \in Nat
    BY Products DEF CellWork
  <2> DEFINE x == NumCells * CellWork
  <2>3. Remaining(dirs, n) = x + 2 /\ Remaining(dirs', m) = x + 1
    BY <2>1 DEF Remaining
  <2>4. x + 1 < x + 2
    <3> HIDE DEF x
    <3> QED
      BY <2>2 DEF x
  <2> QED
    BY <2>3, <2>4
<1>3. CASE Preflight(p) \/ (WriteSummary(p) /\ n.cell < NumCells)
  <2>1. /\ m.pc = "finding"
        /\ \/ n.pc = "preflight" /\ m.cell = 1
           \/ n.pc = "reporting" /\ m.cell = n.cell + 1
    BY <1>0, <1>3 DEF Preflight, WriteSummary, Enter, At, Command
  <2> QED
    BY <1>0, <2>1, NextCell
<1>4. CASE \/ FindNone(p) \/ FindOne(p) \/ Look(p) \/ UseExisting(p) \/ Create(p)
           \/ ManifestEqual(p) \/ ManifestMissing(p) \/ WriteManifest(p)
           \/ CountBefore(p) \/ ReadSummary(p)
  <2>1. /\ m.cell = n.cell
        /\ \/ n.pc = "finding" /\ m.pc \in {"claiming", "ensuring"}
           \/ n.pc = "claiming" /\ m.pc \in {"creating", "ensuring"}
           \/ n.pc = "creating" /\ m.pc = "ensuring"
           \/ n.pc = "ensuring" /\ m.pc \in {"writing", "counting"}
           \/ n.pc = "writing" /\ m.pc = "counting"
           \/ n.pc = "counting" /\ m.pc = "locking"
           \/ n.pc = "summing" /\ m.pc = "reporting"
    <3>1. CASE FindNone(p) \/ Look(p)
      BY <1>0, <3>1 DEF FindNone, Look, At, Command
    <3>2. CASE FindOne(p)
      BY <1>0, <3>2 DEF FindOne, Use, At, Command
    <3>3. CASE UseExisting(p)
      BY <1>0, <3>3 DEF UseExisting, Use, At, Command
    <3>4. CASE Create(p)
      BY <1>0, <3>4 DEF Create, Use, At, Command
    <3>5. CASE ManifestEqual(p) \/ ManifestMissing(p)
      BY <1>0, <3>5 DEF ManifestEqual, ManifestMissing, GoTo, At, Command
    <3>6. CASE WriteManifest(p)
      BY <1>0, <3>6 DEF WriteManifest, GoTo, At, Command
    <3>7. CASE CountBefore(p) \/ ReadSummary(p)
      BY <1>0, <3>7 DEF CountBefore, ReadSummary, At, Command
    <3> QED
      BY <1>4, <3>1, <3>2, <3>3, <3>4, <3>5, <3>6, <3>7
  <2>3. Rank(m.pc) < Rank(n.pc) /\ n.pc \in InCell /\ m.pc \in InCell
    BY <2>1 DEF Rank, InCell, InDir
  <2>4. Samples(dirs', m) <= Samples(dirs, n)
    BY <2>1 DEF Samples
  <2> QED
    BY <1>0, <2>1, <2>3, <2>4, InOneCell
<1>5. CASE Lock(p)
  <2>1. m.cell = n.cell /\ n.pc = "locking" /\ m.pc = "running"
    BY <1>0, <1>5 DEF Lock, At, Command
  <2>2. Rank(m.pc) < Rank(n.pc) /\ n.pc \in InCell /\ m.pc \in InCell
    BY <2>1 DEF Rank, InCell, InDir
  <2>3. Samples(dirs, n) = Size /\ Samples(dirs', m) \in 0 .. Size
    <3>1. Samples(dirs, n) = Size
      BY <2>1 DEF Samples
    <3>2. Samples(dirs', m) \in 0 .. Size
      BY <1>0, <2>2, RemainingInCell
    <3> QED
      BY <3>1, <3>2
  <2>4. Samples(dirs', m) <= Samples(dirs, n)
    BY <2>3
  <2> QED
    BY <1>0, <2>1, <2>2, <2>4, InOneCell
<1>6. CASE Finish(p)
  <2>1. m.cell = n.cell /\ n.pc = "running" /\ m.pc = "summing"
    BY <1>0, <1>6 DEF Finish, GoTo, At, Command
  <2>2. Rank(m.pc) < Rank(n.pc) /\ n.pc \in InCell /\ m.pc \in InCell
    BY <2>1 DEF Rank, InCell, InDir
  <2>3. Samples(dirs, n) \in 0 .. Size
    BY <1>0, <2>2, RemainingInCell
  <2>4. Samples(dirs', m) = 0
    BY <2>1 DEF Samples
  <2>5. Samples(dirs', m) <= Samples(dirs, n)
    BY <2>3, <2>4
  <2> QED
    BY <1>0, <2>1, <2>2, <2>5, InOneCell
<1>7. CASE Commit(p)
  <2>1. /\ m.cell = n.cell /\ m.dir = n.dir /\ m.goal = n.goal
        /\ n.pc = "running" /\ m.pc = "running"
    BY <1>0, <1>7 DEF Commit, At, Command
  <2>2. n.pc \in InDir /\ Here(p) \in Dir /\ n.cell \in Cells /\ Here(p).done \in 0 .. Size
    BY <2>1, HereFacts DEF InDir
  <2>3. Home(dirs', m) = Appended(Here(p), n.config)
    BY <1>7, <2>1, <2>2, PutElsewhere DEF Commit, Home
  <2>4. Home(dirs', m).done = Here(p).done + 1
    BY <2>2, <2>3 DEF Dir, Appended
  <2>5. Samples(dirs, n) = n.goal - Here(p).done
    BY <2>1 DEF Samples, Home, Here
  <2>6. Samples(dirs', m) = n.goal - (Here(p).done + 1)
    BY <2>1, <2>4 DEF Samples
  <2>7. Samples(dirs', m) < Samples(dirs, n)
    BY <1>0, <2>2, <2>5, <2>6 DEF Command
  <2>8. Rank(m.pc) = Rank(n.pc) /\ n.pc \in InCell /\ m.pc \in InCell
    BY <2>1 DEF InCell, InDir
  <2> QED
    BY <1>0, <2>1, <2>7, <2>8, InOneCell
<1>8. ~Start(p)
  BY <1>0 DEF Start, At
<1> QED
  BY <1>1, <1>2, <1>3, <1>4, <1>5, <1>6, <1>7, <1>8 DEF StepOf, Step

(* The steps of others leave a command as much to do as it had.            *)
LEMMA OthersWork ==
  ASSUME IInv, NEW p \in Commands, StepOf(p), NEW q \in Commands, q # p
  PROVE  Remaining(dirs', cmd'[q]) = Remaining(dirs, cmd[q])
<1> DEFINE n == cmd[q]
<1>1. cmd'[q] = n
  BY StepsLeaveOthers DEF IInv, Typed
<1>2. CASE n.pc # "running"
  BY <1>1, <1>2 DEF Remaining, Samples
<1>3. CASE n.pc = "running"
  <2>1. n.cell \in Cells /\ n.dir \in DOMAIN dirs[n.cell] /\ Home(dirs, n).lock = q
    BY <1>3, HereFacts DEF InDir, At, Here, Home
  <2>2. Home(dirs', n).done = Home(dirs, n).done
    <3>1. CASE UNCHANGED dirs
      BY <3>1
    <3>2. CASE Create(p)
      BY <2>1, <3>2, CreateElsewhere DEF Home
    <3>3. CASE cmd[p].pc \in InDir /\ \E d : Put(p, d) /\ Effect(p, Here(p), d)
      <4>1. PICK d : Put(p, d) /\ Effect(p, Here(p), d)
        BY <3>3
      <4>2. Home(dirs', n) = IF n.cell = cmd[p].cell /\ n.dir = cmd[p].dir
                             THEN d ELSE Home(dirs, n)
        BY <2>1, <3>3, <4>1, PutElsewhere DEF Home
      <4>3. CASE n.cell = cmd[p].cell /\ n.dir = cmd[p].dir
        <5>1. Here(p) = Home(dirs, n) /\ Here(p).lock = q /\ q # p
          BY <2>1, <4>3 DEF Here, Home
        <5>2. ~At(p, "running")
          BY <3>3, <5>1, HereFacts
        <5> QED
          BY <4>1, <4>2, <4>3, <5>1, <5>2 DEF Effect
      <4>4. CASE ~(n.cell = cmd[p].cell /\ n.dir = cmd[p].dir)
        BY <4>2, <4>4
      <4> QED
        BY <4>3, <4>4
    <3> QED
      BY <3>1, <3>2, <3>3, StepEffect
  <2>3. Samples(dirs', n) = Samples(dirs, n)
    BY <2>2 DEF Samples
  <2> QED
    BY <1>1, <2>3 DEF Remaining
<1> QED
  BY <1>2, <1>3

(* Every step is a step of some command.  Whichever command makes it has   *)
(* less to do afterwards, unless the step is its start, and all others     *)
(* have as much to do as before.                                           *)
LeavesLess ==
  /\ \E p \in Commands : StepOf(p)
  /\ \A p \in Commands :
       StepOf(p) =>
         /\ At(p, "idle") \/ Remaining(dirs', cmd'[p]) < Remaining(dirs, cmd[p])
         /\ \A q \in Commands \ {p} : Remaining(dirs', cmd'[q]) = Remaining(dirs, cmd[q])

(* No command of a matrix runs forever, whatever others do: from its start *)
(* it makes at most NumCells * (Size + 10) + 2 steps of its own, and by    *)
(* NeverHindered none of them waits for another command.                   *)
THEOREM NoCircles == Spec => [][LeavesLess]_vars
<1>1. ASSUME IInv, IInv', Next PROVE LeavesLess
  <2>1. \E p \in Commands : StepOf(p)
    BY <1>1 DEF Next, StepOf
  <2>2. ASSUME NEW p \in Commands, StepOf(p)
        PROVE  At(p, "idle") \/ Remaining(dirs', cmd'[p]) < Remaining(dirs, cmd[p])
    BY <1>1, <2>2, OwnWork
  <2>3. ASSUME NEW p \in Commands, StepOf(p), NEW q \in Commands \ {p}
        PROVE  Remaining(dirs', cmd'[q]) = Remaining(dirs, cmd[q])
    BY <1>1, <2>3, OthersWork
  <2> QED
    BY <2>1, <2>2, <2>3, Zenon DEF LeavesLess
<1>2. IInv /\ [Next]_vars => [LeavesLess]_vars
  BY <1>1, NextKeeps
<1> QED
  BY <1>2, Invariant, PTL DEF Spec

(* The bound on the steps that a command still makes.                      *)
THEOREM StepsBounded ==
  Spec => [](\A p \in Commands :
               Remaining(dirs, cmd[p]) \in 0 .. (NumCells * (Size + 10) + 2))
<1>1. ASSUME IInv, NEW p \in Commands
      PROVE  Remaining(dirs, cmd[p]) \in 0 .. (NumCells * (Size + 10) + 2)
  BY <1>1, CommandFacts, RemainingRange DEF CellWork
<1>2. IInv => \A p \in Commands :
                Remaining(dirs, cmd[p]) \in 0 .. (NumCells * (Size + 10) + 2)
  BY <1>1
<1> QED
  BY <1>2, Invariant, PTL
=============================================================================
