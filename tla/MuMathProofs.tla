---------------------------- MODULE MuMathProofs ----------------------------
(***************************************************************************)
(* Proofs about MuMath, for any number of rows, commands and versions, any *)
(* labels and batch sizes.  A step is the step of one command p; only the  *)
(* command that holds the lock writes to the ledger, and it only adds      *)
(* records.  Lemma Others shows once that this keeps what is known of      *)
(* every other command.                                                    *)
(*                                                                         *)
(* The parts of the invariant are operators of the manifest mf, the ledger *)
(* l and the state m of a command, so that one lemma serves for both       *)
(* states of a step.                                                       *)
(***************************************************************************)
EXTENDS MuMath, FiniteSetTheorems, SequenceTheorems, WellFoundedInduction, TLAPS

(* The records are those of the first rows, in their order.                *)
LedgerOK(l) ==
  /\ l \in Ledger
  /\ \A k \in DOMAIN l.records : l.records[k].row = k
  /\ l.header \in {None, Identity}
  /\ l.file \in {"whole", "bare"} => l.header # None

Prefix(a, b) == Len(a) <= Len(b) /\ \A k \in DOMAIN a : a[k] = b[k]

(* The new records of m are among rs, after those it counted.              *)
Written(rs, m) ==
  \A k \in DOMAIN m.new : \E j \in DOMAIN rs : m.before + k <= j /\ rs[j] = m.new[k]

(* The rows from n + 1 to g.                                               *)
Between(n, g) == {i \in Row : n < i /\ i <= g}

Served(l, m) == m.before + m.target <= Len(l.records)

Planned == {"asking", "ensuring", "writing", "locking", "running"}

(* A running command has selected the rows that follow those recorded, at  *)
(* least as far as its plan.                                               *)
RunningOK(l, m) ==
  /\ \E g \in 0 .. Size : m.before + m.target <= g
                          /\ m.todo = Between(Len(l.records), g)
  /\ m.before + Len(m.new) <= Len(l.records)
  /\ Written(l.records, m)

CommandOK(mf, l, p, m) ==
  /\ m \in Command
  /\ m.pc # "idle" => m.version \in Versions /\ m.exit = None
  /\ m.pc \notin {"idle", "finding"} => m.config # None
  /\ m.pc = "running" <=> l.lock = p
  /\ m.pc \in {"locking", "running", "summing", "reporting"} => mf # None
  /\ m.pc \in Planned => m.before <= Len(l.records) /\ m.before + m.target <= Size
  /\ m.pc \notin {"running", "summing", "reporting"} => m.new = <<>>
  /\ m.pc = "running" => RunningOK(l, m)
  /\ m.pc = "summing" => Served(l, m) /\ Written(l.records, m)
  /\ m.pc = "reporting" =>
       Served(l, m) /\ Prefix(m.report, l.records) /\ Written(m.report, m)
  /\ m.exit = 0 => m.pc = "idle" /\ Served(l, m)

SummaryOK(l, s) ==
  /\ s \in [records : Seq(Record), before : 0 .. Size, new : Seq(Record)] \cup {None}
  /\ s # None => Prefix(s.records, l.records) /\ Written(s.records, s)

Shared ==
  /\ manifest \in Manifest \cup {None}
  /\ LedgerOK(ledger)
  /\ ledger.header # None => manifest # None
  /\ SummaryOK(ledger, summary)
  /\ started \in 0 .. MaxCommands

IInv ==
  /\ Shared
  /\ cmd \in [Commands -> Command]
  /\ \A p \in Commands : CommandOK(manifest, ledger, p, cmd[p])

(* What a step of p does to the ledger l, giving k.                        *)
Evolves(l, k, p) ==
  /\ Prefix(l.records, k.records)
  /\ \A q \in Commands \ {p} :
       /\ l.lock = q => k.records = l.records
       /\ k.lock = q <=> l.lock = q

----------------------------------------------------------------------------
(* A ledger that the program has written.                                  *)
LEMMA LedgerFacts ==
  ASSUME NEW l, LedgerOK(l)
  PROVE  /\ l.records \in Seq(Record)
         /\ Len(l.records) \in 0 .. Size
         /\ DOMAIN l.records = 1 .. Len(l.records)
         /\ Rows(l.records) = 1 .. Len(l.records)
<1> USE MuMathAssumption
<1>1. l.records \in Seq(Record)
  BY DEF LedgerOK, Ledger
<1>2. Len(l.records) \in Nat /\ DOMAIN l.records = 1 .. Len(l.records)
  BY <1>1
<1>3. Len(l.records) <= Size
  <2>1. CASE Len(l.records) = 0
    BY <2>1
  <2>2. CASE Len(l.records) # 0
    <3>1. Len(l.records) \in DOMAIN l.records
      BY <1>2, <2>2
    <3>2. l.records[Len(l.records)] \in Record
      BY <1>1, <3>1
    <3> QED
      BY <3>1, <3>2 DEF LedgerOK, Record, Row
  <2> QED
    BY <2>1, <2>2
<1>4. Rows(l.records) = 1 .. Len(l.records)
  BY <1>2 DEF Rows, LedgerOK
<1> QED
  BY <1>1, <1>2, <1>3, <1>4

(* How many rows there are up to a row, from another.                      *)
LEMMA IntervalSize ==
  ASSUME NEW a \in Nat, NEW b \in Nat
  PROVE  Cardinality(a + 1 .. b) = IF a < b THEN b - a ELSE 0
<1>1. a + 1 \in Int /\ b \in Int
  OBVIOUS
<1>2. Cardinality(a + 1 .. b) = IF a + 1 > b THEN 0 ELSE b - (a + 1) + 1
  BY <1>1, FS_Interval, Zenon
<1> QED
  BY <1>2

(* A batch is the next rows.                                               *)
LEMMA Selected ==
  ASSUME LedgerOK(ledger), NEW p \in Commands, cmd[p].target \in Nat
  PROVE  Selection(p) = Between(Len(ledger.records), Len(ledger.records) + cmd[p].target)
<1> USE MuMathAssumption
<1> DEFINE n == Len(ledger.records)
           t == cmd[p].target
<1>1. n \in Nat /\ n <= Size /\ Completed = 1 .. n /\ t \in Nat
  BY LedgerFacts DEF Completed
<1> HIDE DEF n, t
<1>2. ASSUME NEW i \in Row
      PROVE  i \in Row \ Completed <=> n < i
  BY <1>1, <1>2 DEF Row
<1>3. ASSUME NEW i \in Row, n < i
      PROVE  Cardinality({j \in Row \ Completed : j < i}) = i - 1 - n
  <2>1. i - 1 \in Nat /\ n <= i - 1
    BY <1>1, <1>3 DEF Row
  <2>2. {j \in Row \ Completed : j < i} = n + 1 .. i - 1
    BY <1>1, <1>2, <1>3 DEF Row
  <2>3. Cardinality(n + 1 .. i - 1) = i - 1 - n
    BY <1>1, <2>1, IntervalSize
  <2> QED
    BY <2>2, <2>3
<1>4. ASSUME NEW i \in Row, n < i
      PROVE  Cardinality({j \in Row \ Completed : j < i}) < t <=> i <= n + t
  BY <1>1, <1>3, <1>4 DEF Row
<1> QED
  BY <1>2, <1>4 DEF Selection, Between, n, t

(* A prefix of a prefix, and what is in one.                               *)
LEMMA Prefixes ==
  ASSUME NEW a \in Seq(Record), NEW b \in Seq(Record), NEW c \in Seq(Record),
         Prefix(b, c)
  PROVE  /\ Prefix(b, b)
         /\ Prefix(a, b) => Prefix(a, c)
         /\ \A m : Written(b, m) => Written(c, m)
BY DEF Prefix, Written

(* A step of p keeps what is known of another command.                     *)
LEMMA Others ==
  ASSUME NEW l, LedgerOK(l), NEW k, LedgerOK(k), NEW p, Evolves(l, k, p),
         NEW mf, NEW mg, mf # None => mg # None,
         NEW q \in Commands \ {p}, NEW m, CommandOK(mf, l, q, m)
  PROVE  CommandOK(mg, k, q, m)
<1> USE MuMathAssumption
<1>1. /\ l.records \in Seq(Record) /\ k.records \in Seq(Record)
      /\ Len(l.records) \in Nat /\ Len(k.records) \in Nat
      /\ Len(l.records) <= Len(k.records)
  BY LedgerFacts DEF Evolves, Prefix
<1>2. /\ m \in Command /\ m.before \in Nat /\ m.target \in Nat /\ m.report \in Seq(Record)
  BY DEF CommandOK, Command
<1>3. Served(l, m) => Served(k, m)
  BY <1>1, <1>2 DEF Served
<1>4. /\ Written(l.records, m) => Written(k.records, m)
      /\ Prefix(m.report, l.records) => Prefix(m.report, k.records)
  BY <1>1, <1>2, Prefixes DEF Evolves
<1>5. m.before <= Len(l.records) => m.before <= Len(k.records)
  BY <1>1, <1>2
<1>6. m.pc = "running" <=> k.lock = q
  BY DEF CommandOK, Evolves
<1>7. m.pc = "running" => RunningOK(k, m)
  <2>1. m.pc = "running" => k.records = l.records
    BY DEF CommandOK, Evolves
  <2> QED
    BY <2>1 DEF CommandOK, RunningOK
<1> QED
  BY <1>2, <1>3, <1>4, <1>5, <1>6, <1>7 DEF CommandOK
----------------------------------------------------------------------------
(* The invariant, for one command.                                         *)
LEMMA CommandFacts ==
  ASSUME IInv, NEW p \in Commands
  PROVE  /\ cmd \in [Commands -> Command] /\ cmd[p] \in Command
         /\ CommandOK(manifest, ledger, p, cmd[p])
         /\ LedgerOK(ledger)
         /\ cmd[p].before \in Nat /\ cmd[p].target \in Nat
         /\ cmd[p].new \in Seq(Record) /\ cmd[p].report \in Seq(Record)
         /\ ledger.records \in Seq(Record) /\ Len(ledger.records) \in 0 .. Size
         /\ manifest \in Manifest \cup {None}
<1>1. cmd \in [Commands -> Command] /\ CommandOK(manifest, ledger, p, cmd[p]) /\ Shared
  BY DEF IInv
<1>2. cmd[p] \in Command /\ LedgerOK(ledger) /\ manifest \in Manifest \cup {None}
  BY <1>1 DEF Shared
<1> QED
  BY <1>1, <1>2, LedgerFacts DEF Command

(* All versions look for the same fingerprint.                             *)
LEMMA OneFingerprint ==
  ASSUME IInv, NEW p \in Commands, cmd[p].pc \notin {"idle", "finding"}
  PROVE  cmd[p].config \in Manifest /\ FingerprintOf(p) = Identity
BY CommandFacts DEF CommandOK, Command, Manifest, Fingerprint, FingerprintOf

(* A step of a command.                                                    *)
LEMMA Moves ==
  ASSUME IInv, NEW p \in Commands, NEW m, cmd' = [cmd EXCEPT ![p] = m],
         LedgerOK(ledger'), Evolves(ledger, ledger', p),
         manifest' \in Manifest \cup {None}, manifest # None => manifest' # None,
         ledger'.header # None => manifest' # None,
         SummaryOK(ledger', summary'), started' \in 0 .. MaxCommands,
         CommandOK(manifest', ledger', p, m)
  PROVE  IInv'
<1>1. cmd \in [Commands -> Command] /\ m \in Command
  BY DEF IInv, CommandOK
<1>2. /\ cmd' \in [Commands -> Command] /\ cmd'[p] = m
      /\ \A q \in Commands \ {p} : cmd'[q] = cmd[q]
  BY <1>1
<1>3. Shared'
  BY DEF Shared
<1>4. ASSUME NEW q \in Commands PROVE CommandOK(manifest', ledger', q, cmd'[q])
  <2>1. CASE q = p
    BY <1>2, <2>1
  <2>2. CASE q # p
    <3>1. CommandOK(manifest, ledger, q, cmd[q]) /\ LedgerOK(ledger)
      BY DEF IInv, Shared
    <3>2. CommandOK(manifest', ledger', q, cmd[q])
      BY <2>2, <3>1, Others
    <3> QED
      BY <1>2, <2>2, <3>2
  <2> QED
    BY <2>1, <2>2
<1> QED
  BY <1>2, <1>3, <1>4 DEF IInv

(* A ledger that is left alone.                                            *)
LEMMA Same ==
  ASSUME NEW l, LedgerOK(l), NEW p
  PROVE  Evolves(l, l, p)
BY LedgerFacts DEF Evolves, Prefix

(* A summary remains true when records are added.                          *)
LEMMA SummaryStays ==
  ASSUME NEW l, LedgerOK(l), NEW k, LedgerOK(k), NEW p, Evolves(l, k, p),
         NEW s, SummaryOK(l, s)
  PROVE  SummaryOK(k, s)
<1>1. l.records \in Seq(Record) /\ k.records \in Seq(Record) /\ Prefix(l.records, k.records)
  BY LedgerFacts DEF Evolves
<1>2. s # None => s.records \in Seq(Record)
  BY DEF SummaryOK
<1> QED
  BY <1>1, <1>2, Prefixes DEF SummaryOK

(* A step that leaves all files alone.                                     *)
LEMMA Thinks ==
  ASSUME IInv, NEW p \in Commands, NEW m, cmd' = [cmd EXCEPT ![p] = m],
         UNCHANGED <<manifest, ledger, summary>>, started' \in 0 .. MaxCommands,
         CommandOK(manifest, ledger, p, m)
  PROVE  IInv'
<1>1. /\ LedgerOK(ledger) /\ manifest \in Manifest \cup {None}
      /\ ledger.header # None => manifest # None
      /\ SummaryOK(ledger, summary)
  BY DEF IInv, Shared
<1>2. Evolves(ledger, ledger', p)
  BY <1>1, Same
<1>3. /\ LedgerOK(ledger') /\ manifest' \in Manifest \cup {None}
      /\ manifest # None => manifest' # None
      /\ ledger'.header # None => manifest' # None
      /\ SummaryOK(ledger', summary') /\ CommandOK(manifest', ledger', p, m)
  BY <1>1
<1> QED
  BY <1>2, <1>3, Moves

Ended(code) == [Idle EXCEPT !.exit = code]

(* A command that has ended otherwise than well.                           *)
LEMMA EndedOK ==
  ASSUME NEW mf, NEW l, LedgerOK(l), NEW p \in Commands, l.lock # p,
         NEW code \in {0, 1, 2, 130, None}
  PROVE  CommandOK(mf, l, p, Ended(code))
<1> USE MuMathAssumption
<1>1. /\ Ended(code) \in Command /\ Ended(code).pc = "idle" /\ Ended(code).new = <<>>
      /\ Ended(code).before = 0 /\ Ended(code).target = 0
  <2>1. <<>> \in Seq(Record) /\ {} \in SUBSET Row /\ 0 \in 0 .. Size
    OBVIOUS
  <2>2. Idle \in Command
    BY <2>1 DEF Idle, Command, Pc
  <2> QED
    BY <2>2 DEF Ended, Idle, Command
<1>2. Served(l, Ended(code))
  BY <1>1, LedgerFacts DEF Served
<1> HIDE DEF Ended
<1> QED
  BY <1>1, <1>2 DEF CommandOK, Planned

(* A ledger whose lock is released by its holder.                          *)
LEMMA Releases ==
  ASSUME LedgerOK(ledger), NEW p \in Commands, NEW l, LedgerOK(l),
         Prefix(ledger.records, l.records), ledger.lock = p,
         ledger' = Unlocked(l)
  PROVE  /\ LedgerOK(ledger') /\ Evolves(ledger, ledger', p)
         /\ ledger'.lock = None /\ ledger'.records = l.records
         /\ ledger'.header = l.header
<1> USE MuMathAssumption
<1>1. /\ ledger' \in Ledger /\ ledger'.lock = None /\ ledger'.records = l.records
      /\ ledger'.header = l.header /\ ledger'.file = l.file
  BY DEF Unlocked, LedgerOK, Ledger
<1>2. LedgerOK(ledger')
  BY <1>1 DEF LedgerOK
<1>3. \A q \in Commands \ {p} : ledger.lock # q /\ ledger'.lock # q
  BY <1>1
<1> QED
  BY <1>1, <1>2, <1>3 DEF Evolves

LEMMA ExitKeeps ==
  ASSUME IInv, NEW p \in Commands, NEW code \in {0, 1, 2, 130, None}, Exit(p, code)
  PROVE  IInv'
<1> USE MuMathAssumption
<1>1. /\ cmd' = [cmd EXCEPT ![p] = Ended(code)]
      /\ UNCHANGED <<manifest, summary, started>>
  BY DEF Exit, Ended
<1>2. /\ LedgerOK(ledger) /\ CommandOK(manifest, ledger, p, cmd[p])
      /\ manifest \in Manifest \cup {None}
      /\ ledger.header # None => manifest # None
      /\ SummaryOK(ledger, summary) /\ started \in 0 .. MaxCommands
  BY DEF IInv, Shared
<1>3. /\ LedgerOK(ledger') /\ Evolves(ledger, ledger', p)
      /\ ledger'.lock # p /\ ledger'.header = ledger.header
  <2>1. CASE At(p, "running")
    <3>1. ledger.lock = p /\ ledger' = Unlocked(ledger)
      BY <1>2, <2>1 DEF CommandOK, At, Exit
    <3>2. Prefix(ledger.records, ledger.records)
      BY <1>2, LedgerFacts DEF Prefix
    <3>3. p # None
      OBVIOUS
    <3> QED
      BY <1>2, <3>1, <3>2, <3>3, Releases
  <2>2. CASE ~At(p, "running")
    <3>1. ledger' = ledger /\ ledger.lock # p
      BY <1>2, <2>2 DEF CommandOK, At, Exit
    <3> QED
      BY <1>2, <3>1, Same
  <2> QED
    BY <2>1, <2>2
<1>4. SummaryOK(ledger', summary')
  BY <1>1, <1>2, <1>3, SummaryStays
<1>5. CommandOK(manifest', ledger', p, Ended(code))
  BY <1>3, EndedOK
<1>6. /\ manifest' \in Manifest \cup {None}
      /\ manifest # None => manifest' # None
      /\ ledger'.header # None => manifest' # None
      /\ started' \in 0 .. MaxCommands
  BY <1>1, <1>2, <1>3
<1> QED
  BY <1>1, <1>3, <1>4, <1>5, <1>6, Moves

(* Every way to end without success is an Exit.                            *)
LEMMA ExitSteps ==
  ASSUME IInv, NEW p \in Commands,
         \/ ReadPlanFails(p) \/ Decline(p) \/ PreflightFails(p)
         \/ ManifestDiffers(p) \/ LockFails(p) \/ RowFails(p)
         \/ SummaryFails(p) \/ Stop(p)
  PROVE  IInv'
<1>1. \E code \in {0, 1, 2, 130, None} : Exit(p, code)
  BY DEF ReadPlanFails, Decline, PreflightFails, ManifestDiffers, LockFails,
         RowFails, SummaryFails, Stop, StopCodes
<1> QED
  BY <1>1, ExitKeeps
----------------------------------------------------------------------------
LEMMA StartKeeps ==
  ASSUME IInv, NEW p \in Commands, Start(p)
  PROVE  IInv'
<1> USE MuMathAssumption
<1>1. PICK v \in Versions, size \in Batches :
        cmd' = [cmd EXCEPT ![p] = [Idle EXCEPT !.pc = "finding", !.version = v,
                                               !.batch = size]]
  BY DEF Start
<1> DEFINE m == [Idle EXCEPT !.pc = "finding", !.version = v, !.batch = size]
<1>2. /\ m \in Command /\ m.pc = "finding" /\ m.version \in Versions
      /\ m.exit = None /\ m.new = <<>>
  <2>1. <<>> \in Seq(Record) /\ {} \in SUBSET Row /\ 0 \in 0 .. Size /\ size \in Nat
    OBVIOUS
  <2> QED
    BY <2>1 DEF Idle, Command, Pc
<1> HIDE DEF m
<1>3. ledger.lock # p
  BY CommandFacts DEF CommandOK, Start, At
<1>4. CommandOK(manifest, ledger, p, m)
  BY <1>2, <1>3 DEF CommandOK, Planned
<1>5. /\ UNCHANGED <<manifest, ledger, summary>>
      /\ started' \in 0 .. MaxCommands
  BY DEF Start, IInv, Shared
<1> QED
  BY <1>1, <1>4, <1>5, Thinks DEF m

LEMMA FindKeeps ==
  ASSUME IInv, NEW p \in Commands, Find(p)
  PROVE  IInv'
<1> USE MuMathAssumption
<1> DEFINE c == IF manifest = None THEN Configuration(cmd[p].version) ELSE manifest
           m == [cmd[p] EXCEPT !.pc = "reading", !.config = c]
<1>1. /\ cmd \in [Commands -> Command] /\ cmd[p] \in Command
      /\ CommandOK(manifest, ledger, p, cmd[p]) /\ cmd[p].pc = "finding"
      /\ manifest \in Manifest \cup {None}
  BY CommandFacts DEF Find, At
<1>2. cmd[p].version \in Versions
  BY <1>1 DEF CommandOK
<1>3. c \in Manifest /\ c # None
  BY <1>1, <1>2, NoneAssumption DEF Manifest, Configuration
<1>4. cmd' = [cmd EXCEPT ![p] = m]
  BY <1>1 DEF Find
<1> HIDE DEF c
<1>5. /\ m \in Command /\ m.pc = "reading" /\ m.config = c
      /\ m.version = cmd[p].version /\ m.new = cmd[p].new /\ m.exit = cmd[p].exit
  BY <1>1, <1>3 DEF Command, Pc
<1> HIDE DEF m
<1>6. CommandOK(manifest, ledger, p, m)
  BY <1>1, <1>3, <1>5 DEF CommandOK, Planned
<1>7. UNCHANGED <<manifest, ledger, summary>> /\ started' \in 0 .. MaxCommands
  BY DEF Find, IInv, Shared
<1> QED
  BY <1>4, <1>6, <1>7, Thinks

(* The smaller of two numbers.                                             *)
LEMMA LesserFacts ==
  ASSUME NEW a \in Int, NEW b \in Int
  PROVE  /\ Lesser(a, b) \in {a, b}
         /\ Lesser(a, b) <= a
         /\ Lesser(a, b) <= b
BY DEF Lesser

LEMMA ReadPlanKeeps ==
  ASSUME IInv, NEW p \in Commands, ReadPlan(p)
  PROVE  IInv'
<1> USE MuMathAssumption
<1> DEFINE n == Len(ledger.records)
           t == Lesser(cmd[p].batch, Size - n)
           m == [cmd[p] EXCEPT !.pc = "asking", !.before = n, !.target = t]
<1>1. /\ cmd \in [Commands -> Command] /\ cmd[p] \in Command
      /\ CommandOK(manifest, ledger, p, cmd[p]) /\ cmd[p].pc = "reading"
      /\ n \in 0 .. Size /\ LedgerOK(ledger)
  BY CommandFacts DEF ReadPlan, At
<1>2. Cardinality(Completed) = n
  <2>1. Completed = 1 .. n
    BY <1>1, LedgerFacts DEF Completed
  <2>2. Cardinality(0 + 1 .. n) = n
    <3> HIDE DEF n
    <3>1. n \in Nat /\ 0 \in Nat
      BY <1>1
    <3>2. Cardinality(0 + 1 .. n) = IF 0 < n THEN n - 0 ELSE 0
      BY <3>1, IntervalSize
    <3> QED
      BY <3>1, <3>2
  <2>3. 0 + 1 = 1
    OBVIOUS
  <2> QED
    BY <2>1, <2>2, <2>3, Zenon
<1>3. cmd' = [cmd EXCEPT ![p] = m]
  BY <1>1, <1>2 DEF ReadPlan
<1>4. t \in 0 .. Size /\ n + t <= Size
  <2> HIDE DEF n
  <2>1. cmd[p].batch \in Nat /\ Size - n \in Nat
    BY <1>1 DEF Command
  <2> QED
    BY <1>1, <2>1, LesserFacts
<1> HIDE DEF t
<1>5. /\ m \in Command /\ m.pc = "asking" /\ m.before = n /\ m.target = t
      /\ m.version = cmd[p].version /\ m.config = cmd[p].config
      /\ m.new = cmd[p].new /\ m.exit = cmd[p].exit
  BY <1>1, <1>4 DEF Command, Pc
<1> HIDE DEF m
<1>6. CommandOK(manifest, ledger, p, m)
  BY <1>1, <1>4, <1>5 DEF CommandOK, Planned
<1>7. UNCHANGED <<manifest, ledger, summary>> /\ started' \in 0 .. MaxCommands
  BY DEF ReadPlan, IInv, Shared
<1> QED
  BY <1>3, <1>6, <1>7, Thinks

(* A command that ends with code 0 keeps its counters.                     *)
LEMMA SucceedOK ==
  ASSUME IInv, NEW p \in Commands, Succeed(p), Served(ledger, cmd[p]),
         ledger.lock # p
  PROVE  \E m : /\ cmd' = [cmd EXCEPT ![p] = m]
               /\ CommandOK(manifest, ledger, p, m)
<1> USE MuMathAssumption
<1> DEFINE m == [Idle EXCEPT !.exit = 0, !.before = cmd[p].before,
                             !.target = cmd[p].target]
<1>1. cmd[p] \in Command
  BY CommandFacts
<1>2. /\ m \in Command /\ m.pc = "idle" /\ m.new = <<>>
      /\ m.before = cmd[p].before /\ m.target = cmd[p].target
  <2>1. <<>> \in Seq(Record) /\ {} \in SUBSET Row /\ 0 \in 0 .. Size
    OBVIOUS
  <2> QED
    BY <1>1, <2>1 DEF Idle, Command, Pc
<1>3. cmd' = [cmd EXCEPT ![p] = m]
  BY DEF Succeed
<1> HIDE DEF m
<1>4. CommandOK(manifest, ledger, p, m)
  BY <1>2 DEF CommandOK, Planned, Served
<1> QED
  BY <1>3, <1>4

LEMMA AlreadyCompleteKeeps ==
  ASSUME IInv, NEW p \in Commands, AlreadyComplete(p)
  PROVE  IInv'
<1>1. /\ CommandOK(manifest, ledger, p, cmd[p]) /\ cmd[p].pc = "asking"
      /\ cmd[p].target = 0 /\ cmd[p].before \in Nat /\ Succeed(p)
  BY CommandFacts DEF AlreadyComplete, At
<1>2. Served(ledger, cmd[p]) /\ ledger.lock # p
  BY <1>1 DEF CommandOK, Planned, Served
<1>3. PICK m : /\ cmd' = [cmd EXCEPT ![p] = m]
               /\ CommandOK(manifest, ledger, p, m)
  BY <1>1, <1>2, SucceedOK
<1>4. UNCHANGED <<manifest, ledger, summary>> /\ started' \in 0 .. MaxCommands
  BY DEF AlreadyComplete, IInv, Shared
<1> QED
  BY <1>3, <1>4, Thinks

(* A command with another label.                                           *)
LEMMA Relabelled ==
  ASSUME NEW c \in Command, NEW to \in Pc, NEW m, m = [c EXCEPT !.pc = to]
  PROVE  /\ m \in Command /\ m.pc = to
         /\ m.version = c.version /\ m.config = c.config
         /\ m.before = c.before /\ m.target = c.target
         /\ m.new = c.new /\ m.report = c.report /\ m.exit = c.exit
BY DEF Command

(* Steps between the confirmation and the lock only move on.               *)
LEMMA LabelSteps ==
  ASSUME IInv, NEW p \in Commands,
         Preflight(p) \/ ManifestEqual(p) \/ ManifestMissing(p)
  PROVE  IInv'
<1> USE MuMathAssumption
<1>1. PICK to \in {"ensuring", "locking", "writing"} :
        /\ GoTo(p, to)
        /\ to = "locking" => manifest # None
  <2>1. cmd[p].pc \in {"asking", "ensuring"}
    BY DEF Preflight, ManifestEqual, ManifestMissing, At
  <2>2. cmd[p].config # None
    BY <2>1, CommandFacts DEF CommandOK
  <2> QED
    BY <2>2 DEF Preflight, ManifestEqual, ManifestMissing
<1> DEFINE m == [cmd[p] EXCEPT !.pc = to]
<1>2. /\ cmd \in [Commands -> Command] /\ cmd[p] \in Command
      /\ CommandOK(manifest, ledger, p, cmd[p]) /\ cmd[p].pc \in {"asking", "ensuring"}
  <2>1. cmd[p].pc \in {"asking", "ensuring"}
    BY DEF Preflight, ManifestEqual, ManifestMissing, At
  <2> QED
    BY <2>1, CommandFacts
<1>3. cmd' = [cmd EXCEPT ![p] = m]
  BY <1>1, <1>2 DEF GoTo
<1>4. /\ m \in Command /\ m.pc = to /\ m.before = cmd[p].before
      /\ m.target = cmd[p].target /\ m.version = cmd[p].version
      /\ m.config = cmd[p].config /\ m.new = cmd[p].new /\ m.exit = cmd[p].exit
  <2>1. to \in Pc
    BY DEF Pc
  <2>2. m = [cmd[p] EXCEPT !.pc = to]
    OBVIOUS
  <2> HIDE DEF m
  <2> QED
    BY <1>2, <2>1, <2>2, Relabelled
<1> HIDE DEF m
<1>5. CommandOK(manifest, ledger, p, m)
  BY <1>1, <1>2, <1>4 DEF CommandOK, Planned
<1>6. UNCHANGED <<manifest, ledger, summary>> /\ started' \in 0 .. MaxCommands
  BY DEF Preflight, ManifestEqual, ManifestMissing, IInv, Shared
<1> QED
  BY <1>3, <1>5, <1>6, Thinks

LEMMA WriteManifestKeeps ==
  ASSUME IInv, NEW p \in Commands, WriteManifest(p)
  PROVE  IInv'
<1> USE MuMathAssumption
<1> DEFINE m == [cmd[p] EXCEPT !.pc = "locking"]
<1>1. /\ cmd \in [Commands -> Command] /\ cmd[p] \in Command
      /\ CommandOK(manifest, ledger, p, cmd[p]) /\ cmd[p].pc = "writing"
      /\ LedgerOK(ledger)
  BY CommandFacts DEF WriteManifest, At
<1>2. manifest' \in Manifest /\ manifest' # None
  BY <1>1, OneFingerprint DEF WriteManifest, CommandOK
<1>3. cmd' = [cmd EXCEPT ![p] = m]
  BY <1>1 DEF WriteManifest, GoTo
<1>4. /\ m \in Command /\ m.pc = "locking" /\ m.before = cmd[p].before
      /\ m.target = cmd[p].target /\ m.version = cmd[p].version
      /\ m.config = cmd[p].config /\ m.new = cmd[p].new /\ m.exit = cmd[p].exit
  <2>1. "locking" \in Pc /\ m = [cmd[p] EXCEPT !.pc = "locking"]
    BY DEF Pc
  <2> HIDE DEF m
  <2> QED
    BY <1>1, <2>1, Relabelled
<1> HIDE DEF m
<1>5. CommandOK(manifest', ledger, p, m)
  BY <1>1, <1>2, <1>4 DEF CommandOK, Planned
<1>6. UNCHANGED <<ledger, summary, started>>
  BY DEF WriteManifest
<1>7. /\ SummaryOK(ledger', summary') /\ started' \in 0 .. MaxCommands
      /\ LedgerOK(ledger') /\ Evolves(ledger, ledger', p)
      /\ CommandOK(manifest', ledger', p, m)
  BY <1>1, <1>5, <1>6, Same DEF IInv, Shared
<1> QED
  BY <1>2, <1>3, <1>7, Moves

(* A command with a batch.                                                 *)
WithBatch(c, S) == [c EXCEPT !.pc = "running", !.todo = S]

LEMMA BatchKept ==
  ASSUME NEW c \in Command, NEW S \in SUBSET Row
  PROVE  /\ WithBatch(c, S) \in Command
         /\ WithBatch(c, S).pc = "running" /\ WithBatch(c, S).todo = S
         /\ WithBatch(c, S).version = c.version
         /\ WithBatch(c, S).config = c.config
         /\ WithBatch(c, S).before = c.before
         /\ WithBatch(c, S).target = c.target
         /\ WithBatch(c, S).new = c.new /\ WithBatch(c, S).exit = c.exit
<1>1. "running" \in Pc
  BY DEF Pc
<1> QED
  BY <1>1 DEF Command, WithBatch

(* The batch is selected inside the lock, from the records found there.    *)
LEMMA LockKeeps ==
  ASSUME IInv, NEW p \in Commands, Lock(p)
  PROVE  IInv'
<1> USE MuMathAssumption
<1> DEFINE n == Len(ledger.records)
           S == Selection(p)
           m == WithBatch(cmd[p], S)
<1>1. /\ cmd \in [Commands -> Command] /\ cmd[p] \in Command
      /\ CommandOK(manifest, ledger, p, cmd[p]) /\ cmd[p].pc = "locking"
      /\ LedgerOK(ledger) /\ ledger.lock = None
      /\ n \in 0 .. Size /\ ledger.records \in Seq(Record)
      /\ cmd[p].before \in 0 .. Size /\ cmd[p].target \in 0 .. Size
  BY CommandFacts DEF Lock, At, Command
<1>2. /\ cmd[p].before <= n /\ cmd[p].before + cmd[p].target <= Size
      /\ cmd[p].new = <<>> /\ manifest # None
  BY <1>1 DEF CommandOK, Planned
<1>3. S = Between(n, n + cmd[p].target)
  BY <1>1, Selected
<1>4. /\ ledger' \in Ledger /\ ledger'.lock = p /\ ledger'.records = ledger.records
      /\ ledger'.header = ledger.header /\ ledger'.file = ledger.file
  BY <1>1 DEF Lock, LedgerOK, Ledger
<1>5. LedgerOK(ledger') /\ Evolves(ledger, ledger', p)
  <2>1. LedgerOK(ledger')
    BY <1>1, <1>4 DEF LedgerOK
  <2>2. \A q \in Commands \ {p} : ledger.lock # q /\ ledger'.lock # q
    BY <1>1, <1>4
  <2> QED
    BY <1>1, <1>4, <2>1, <2>2 DEF Evolves, Prefix
<1>6. cmd' = [cmd EXCEPT ![p] = m]
  BY <1>1 DEF Lock, WithBatch
<1>7. S \subseteq Row
  BY <1>3 DEF Between
<1> HIDE DEF S
<1>8. /\ m \in Command /\ m.pc = "running" /\ m.before = cmd[p].before
      /\ m.target = cmd[p].target /\ m.version = cmd[p].version /\ m.todo = S
      /\ m.config = cmd[p].config /\ m.new = <<>> /\ m.exit = cmd[p].exit
  BY <1>1, <1>2, <1>7, BatchKept
<1> HIDE DEF m
<1>9. RunningOK(ledger', m)
  <2>1. \E g \in 0 .. Size : m.before + m.target <= g /\ m.todo = Between(n, g)
    <3> DEFINE g == Lesser(n + cmd[p].target, Size)
    <3>1. g \in 0 .. Size /\ cmd[p].before + cmd[p].target <= g
      <4> HIDE DEF n
      <4> QED
        BY <1>1, <1>2 DEF Lesser
    <3>2. Between(n, n + cmd[p].target) = Between(n, g)
      <4> HIDE DEF n
      <4> QED
        BY <1>1 DEF Lesser, Between, Row
    <3> HIDE DEF g, n
    <3> QED
      BY <1>3, <1>8, <3>1, <3>2
  <2>2. m.before + Len(m.new) <= n
    BY <1>1, <1>2, <1>8
  <2> QED
    BY <1>4, <1>8, <2>1, <2>2 DEF RunningOK, Written
<1>10. CommandOK(manifest', ledger', p, m)
  BY <1>1, <1>2, <1>4, <1>8, <1>9 DEF CommandOK, Planned, Lock
<1>11. /\ SummaryOK(ledger', summary') /\ started' \in 0 .. MaxCommands
       /\ manifest' \in Manifest \cup {None}
       /\ manifest # None => manifest' # None
       /\ ledger'.header # None => manifest' # None
  BY <1>4, <1>5, SummaryStays DEF Lock, IInv, Shared
<1> QED
  BY <1>5, <1>6, <1>10, <1>11, Moves

(* The ledger with one more record, the one of the next row.               *)
LEMMA Adds ==
  ASSUME NEW l, LedgerOK(l), NEW r \in Record, r.row = Len(l.records) + 1,
         NEW k, k = Appended(l, Identity, r)
  PROVE  /\ LedgerOK(k) /\ Prefix(l.records, k.records) /\ k.lock = l.lock
         /\ k.records = Append(l.records, r) /\ k.header = Identity
<1> USE MuMathAssumption
<1>1. /\ l \in Ledger /\ l.records \in Seq(Record) /\ Len(l.records) \in Nat
      /\ DOMAIN l.records = 1 .. Len(l.records) /\ l.header \in {None, Identity}
      /\ \A j \in DOMAIN l.records : l.records[j].row = j
  BY LedgerFacts DEF LedgerOK
<1>2. /\ k \in Ledger /\ k.records = Append(l.records, r) /\ k.header = Identity
      /\ k.lock = l.lock
  <2> DEFINE h == IF l.header = None THEN Identity ELSE l.header
             a == Append(l.records, r)
             f == IF l.file \in {"bare", "broken"} THEN "broken" ELSE "whole"
  <2>1. k = [l EXCEPT !.header = h, !.records = a, !.file = f]
    BY DEF Appended
  <2>2. h = Identity /\ a \in Seq(Record) /\ f \in {"whole", "broken"}
    BY <1>1
  <2>3. a = Append(l.records, r)
    OBVIOUS
  <2> HIDE DEF h, a, f
  <2>4. /\ k \in Ledger /\ k.records = a /\ k.header = h /\ k.lock = l.lock
    BY <1>1, <2>1, <2>2 DEF Ledger
  <2> QED
    BY <2>2, <2>3, <2>4
<1>3. /\ Len(k.records) = Len(l.records) + 1 /\ k.records[Len(l.records) + 1] = r
      /\ \A j \in 1 .. Len(l.records) : k.records[j] = l.records[j]
      /\ DOMAIN k.records = 1 .. Len(l.records) + 1
  BY <1>1, <1>2
<1>4. \A j \in DOMAIN k.records : k.records[j].row = j
  BY <1>1, <1>3
<1>5. LedgerOK(k)
  BY <1>2, <1>4 DEF LedgerOK
<1>6. Prefix(l.records, k.records)
  BY <1>1, <1>3 DEF Prefix
<1> QED
  BY <1>2, <1>5, <1>6

(* The fields of a reply to the next row of the batch.                     *)
LEMMA NextRow ==
  ASSUME IInv, NEW p \in Commands, At(p, "running"),
         NEW i \in cmd[p].todo, IsNext(p, i), NEW r \in Scored(i)
  PROVE  /\ r \in Record /\ r.row = i
         /\ i = Len(ledger.records) + 1
         /\ \A g \in 0 .. Size :
              cmd[p].todo = Between(Len(ledger.records), g) =>
                cmd[p].todo \ {i} = Between(Len(ledger.records) + 1, g)
<1> USE MuMathAssumption
<1> DEFINE n == Len(ledger.records)
<1>1. /\ CommandOK(manifest, ledger, p, cmd[p]) /\ cmd[p].pc = "running"
      /\ cmd[p] \in Command /\ n \in 0 .. Size
  BY CommandFacts DEF At
<1>2. PICK g \in 0 .. Size : cmd[p].todo = Between(n, g)
  BY <1>1 DEF CommandOK, RunningOK
<1>3. i \in Row /\ i \in Nat
  BY <1>2 DEF Between, Row
<1>4. r \in Record /\ r.row = i
  BY <1>3 DEF Scored, Record
<1> HIDE DEF n
<1>5. i = n + 1
  <2>1. i > n /\ i <= g
    BY <1>2 DEF Between
  <2>2. n + 1 \in cmd[p].todo
    BY <1>1, <1>2, <1>3, <2>1 DEF Between, Row
  <2>3. i <= n + 1
    BY <2>2 DEF IsNext
  <2> QED
    BY <1>1, <1>3, <2>1, <2>3
<1>6. ASSUME NEW h \in 0 .. Size, cmd[p].todo = Between(n, h)
      PROVE  cmd[p].todo \ {i} = Between(n + 1, h)
  <2>1. \A j \in Row : n < j /\ j # i <=> n + 1 < j
    BY <1>1, <1>5 DEF Row
  <2> QED
    BY <1>6, <2>1 DEF Between
<1> QED
  BY <1>4, <1>5, <1>6 DEF n

(* A command that has recorded one more row.                               *)
Judged(c, i, r) == [c EXCEPT !.todo = @ \ {i}, !.new = Append(@, r)]

LEMMA JudgedKept ==
  ASSUME NEW c \in Command, NEW i \in Row, NEW r \in Record
  PROVE  /\ Judged(c, i, r) \in Command /\ Judged(c, i, r).pc = c.pc
         /\ Judged(c, i, r).version = c.version
         /\ Judged(c, i, r).config = c.config
         /\ Judged(c, i, r).before = c.before
         /\ Judged(c, i, r).target = c.target
         /\ Judged(c, i, r).todo = c.todo \ {i}
         /\ Judged(c, i, r).new = Append(c.new, r)
         /\ Judged(c, i, r).exit = c.exit
<1> DEFINE t == c.todo \ {i}
           a == Append(c.new, r)
<1>1. Judged(c, i, r) = [c EXCEPT !.todo = t, !.new = a]
  BY DEF Judged
<1>2. t \in SUBSET Row /\ a \in Seq(Record)
  BY DEF Command
<1>3. t = c.todo \ {i} /\ a = Append(c.new, r)
  OBVIOUS
<1> HIDE DEF t, a
<1>4. /\ Judged(c, i, r) \in Command /\ Judged(c, i, r).pc = c.pc
      /\ Judged(c, i, r).version = c.version /\ Judged(c, i, r).config = c.config
      /\ Judged(c, i, r).before = c.before /\ Judged(c, i, r).target = c.target
      /\ Judged(c, i, r).todo = t /\ Judged(c, i, r).new = a
      /\ Judged(c, i, r).exit = c.exit
  BY <1>1, <1>2 DEF Command
<1> QED
  BY <1>3, <1>4

LEMMA JudgeKeeps ==
  ASSUME IInv, NEW p \in Commands, Judge(p)
  PROVE  IInv'
<1> USE MuMathAssumption
<1>1. PICK i \in cmd[p].todo : \E r \in Scored(i) :
        /\ IsNext(p, i)
        /\ ledger' = Appended(ledger, FingerprintOf(p), r)
        /\ cmd' = [cmd EXCEPT ![p].todo = @ \ {i}, ![p].new = Append(@, r)]
  BY DEF Judge
<1>2. PICK r \in Scored(i) :
        /\ IsNext(p, i)
        /\ ledger' = Appended(ledger, FingerprintOf(p), r)
        /\ cmd' = [cmd EXCEPT ![p].todo = @ \ {i}, ![p].new = Append(@, r)]
  BY <1>1
<1> DEFINE n == Len(ledger.records)
           m == Judged(cmd[p], i, r)
<1>3. /\ cmd \in [Commands -> Command] /\ cmd[p] \in Command
      /\ CommandOK(manifest, ledger, p, cmd[p]) /\ cmd[p].pc = "running"
      /\ LedgerOK(ledger) /\ n \in 0 .. Size /\ ledger.records \in Seq(Record)
      /\ cmd[p].before \in Nat /\ cmd[p].target \in Nat
      /\ cmd[p].new \in Seq(Record)
  BY CommandFacts DEF Judge, At
<1>4. ledger' = Appended(ledger, Identity, r)
  BY <1>2, <1>3, OneFingerprint
<1>5. /\ r \in Record /\ r.row = i /\ i = n + 1
      /\ \A g \in 0 .. Size :
           cmd[p].todo = Between(n, g) => cmd[p].todo \ {i} = Between(n + 1, g)
  BY <1>2, NextRow DEF Judge
<1>6. /\ LedgerOK(ledger') /\ Prefix(ledger.records, ledger'.records)
      /\ ledger'.lock = ledger.lock
      /\ ledger'.records = Append(ledger.records, r) /\ ledger'.header = Identity
  BY <1>3, <1>4, <1>5, Adds
<1>7. /\ ledger.lock = p /\ manifest # None /\ RunningOK(ledger, cmd[p])
      /\ cmd[p].version \in Versions /\ cmd[p].exit = None /\ cmd[p].config # None
      /\ cmd[p].before + cmd[p].target <= Size /\ cmd[p].before <= n
  BY <1>3 DEF CommandOK, Planned
<1>8. Evolves(ledger, ledger', p)
  BY <1>6, <1>7 DEF Evolves
<1>9. cmd' = [cmd EXCEPT ![p] = m]
  BY <1>2, <1>3 DEF Judged
<1>10. /\ m \in Command /\ m.pc = "running" /\ m.version = cmd[p].version
       /\ m.config = cmd[p].config /\ m.before = cmd[p].before
       /\ m.target = cmd[p].target /\ m.todo = cmd[p].todo \ {i}
       /\ m.new = Append(cmd[p].new, r) /\ m.exit = cmd[p].exit
  BY <1>3, <1>5, JudgedKept DEF Record
<1> HIDE DEF m
<1>11. /\ Len(ledger'.records) = n + 1 /\ ledger'.records[n + 1] = r
       /\ \A j \in 1 .. n : ledger'.records[j] = ledger.records[j]
       /\ DOMAIN ledger'.records = 1 .. n + 1 /\ DOMAIN ledger.records = 1 .. n
  BY <1>3, <1>5, <1>6
<1>12. /\ Len(m.new) = Len(cmd[p].new) + 1 /\ Len(cmd[p].new) \in Nat
       /\ DOMAIN m.new = 1 .. Len(cmd[p].new) + 1
       /\ m.new[Len(cmd[p].new) + 1] = r
       /\ \A j \in 1 .. Len(cmd[p].new) : m.new[j] = cmd[p].new[j]
       /\ DOMAIN cmd[p].new = 1 .. Len(cmd[p].new)
  BY <1>3, <1>5, <1>10
<1> HIDE DEF n
<1>13. RunningOK(ledger', m)
  <2>1. PICK g \in 0 .. Size : /\ cmd[p].before + cmd[p].target <= g
                               /\ cmd[p].todo = Between(n, g)
    BY <1>7 DEF RunningOK, n
  <2>2. m.before + m.target <= g /\ m.todo = Between(Len(ledger'.records), g)
    BY <1>5, <1>10, <1>11, <2>1
  <2>3. cmd[p].before + Len(cmd[p].new) <= n /\ Written(ledger.records, cmd[p])
    BY <1>7 DEF RunningOK, n
  <2>4. m.before + Len(m.new) <= Len(ledger'.records)
    BY <1>3, <1>10, <1>11, <1>12, <2>3
  <2>5. ASSUME NEW k \in DOMAIN m.new
        PROVE  \E j \in DOMAIN ledger'.records :
                 m.before + k <= j /\ ledger'.records[j] = m.new[k]
    <3>1. CASE k = Len(cmd[p].new) + 1
      <4>1. n + 1 \in DOMAIN ledger'.records /\ m.before + k <= n + 1
        BY <1>3, <1>10, <1>11, <2>3, <3>1, <1>12
      <4> QED
        BY <1>11, <1>12, <3>1, <4>1
    <3>2. CASE k # Len(cmd[p].new) + 1
      <4>1. k \in DOMAIN cmd[p].new /\ m.new[k] = cmd[p].new[k]
        BY <1>12, <2>5, <3>2
      <4>2. PICK j \in DOMAIN ledger.records :
              cmd[p].before + k <= j /\ ledger.records[j] = cmd[p].new[k]
        BY <2>3, <4>1 DEF Written
      <4>3. j \in DOMAIN ledger'.records /\ ledger'.records[j] = ledger.records[j]
        BY <1>3, <1>11
      <4> QED
        BY <1>10, <4>1, <4>2, <4>3
    <3> QED
      BY <3>1, <3>2
  <2> QED
    BY <2>2, <2>4, <2>5 DEF RunningOK, Written
<1>14. CommandOK(manifest, ledger', p, m)
  <2>1. m.before <= Len(ledger'.records)
    BY <1>3, <1>7, <1>10, <1>11
  <2> QED
    BY <1>6, <1>7, <1>10, <1>13, <2>1 DEF CommandOK, Planned
<1>15. UNCHANGED <<manifest, summary, started>>
  BY DEF Judge
<1>16. /\ SummaryOK(ledger', summary') /\ started' \in 0 .. MaxCommands
       /\ manifest' \in Manifest \cup {None}
  BY <1>6, <1>8, <1>15, SummaryStays DEF IInv, Shared
<1>17. CommandOK(manifest', ledger', p, m) /\ manifest' # None
  BY <1>7, <1>14, <1>15
<1> QED
  BY <1>6, <1>8, <1>9, <1>16, <1>17, Moves

(* A finished batch reaches as far as the plan.                            *)
LEMMA FinishKeeps ==
  ASSUME IInv, NEW p \in Commands, Finish(p)
  PROVE  IInv'
<1> USE MuMathAssumption
<1> DEFINE n == Len(ledger.records)
           m == [cmd[p] EXCEPT !.pc = "summing"]
<1>1. /\ cmd \in [Commands -> Command] /\ cmd[p] \in Command
      /\ CommandOK(manifest, ledger, p, cmd[p]) /\ cmd[p].pc = "running"
      /\ LedgerOK(ledger) /\ n \in 0 .. Size /\ ledger.records \in Seq(Record)
      /\ cmd[p].before \in Nat /\ cmd[p].target \in Nat /\ cmd[p].todo = {}
  BY CommandFacts DEF Finish, At
<1>2. /\ ledger.lock = p /\ manifest # None /\ RunningOK(ledger, cmd[p])
      /\ cmd[p].version \in Versions /\ cmd[p].exit = None /\ cmd[p].config # None
  BY <1>1 DEF CommandOK
<1>3. Prefix(ledger.records, ledger.records) /\ p # None
  BY <1>1 DEF Prefix
<1>4. /\ LedgerOK(ledger') /\ Evolves(ledger, ledger', p)
      /\ ledger'.lock = None /\ ledger'.records = ledger.records
      /\ ledger'.header = ledger.header
  BY <1>1, <1>2, <1>3, Releases DEF Finish
<1>5. cmd' = [cmd EXCEPT ![p] = m]
  BY <1>1 DEF Finish, GoTo
<1>6. /\ m \in Command /\ m.pc = "summing" /\ m.before = cmd[p].before
      /\ m.target = cmd[p].target /\ m.version = cmd[p].version
      /\ m.config = cmd[p].config /\ m.new = cmd[p].new /\ m.exit = cmd[p].exit
  <2>1. "summing" \in Pc /\ m = [cmd[p] EXCEPT !.pc = "summing"]
    BY DEF Pc
  <2> HIDE DEF m
  <2> QED
    BY <1>1, <2>1, Relabelled
<1> HIDE DEF m
<1>7. Served(ledger', m)
  <2>1. PICK g \in 0 .. Size : /\ cmd[p].before + cmd[p].target <= g
                               /\ Between(n, g) = {}
    BY <1>1, <1>2 DEF RunningOK
  <2> HIDE DEF n
  <2>2. g <= n
    <3>1. g = 0 \/ g \in Row
      BY DEF Row
    <3> QED
      BY <1>1, <2>1, <3>1 DEF Between
  <2>3. m.before + m.target <= n
    BY <1>1, <1>6, <2>1, <2>2
  <2> QED
    BY <1>4, <2>3 DEF Served, n
<1>8. Written(ledger'.records, m)
  BY <1>2, <1>4, <1>6 DEF RunningOK, Written
<1>9. CommandOK(manifest, ledger', p, m)
  BY <1>2, <1>3, <1>4, <1>6, <1>7, <1>8 DEF CommandOK, Planned
<1>10. UNCHANGED <<manifest, summary, started>>
  BY DEF Finish
<1>11. /\ SummaryOK(ledger', summary') /\ started' \in 0 .. MaxCommands
       /\ manifest' \in Manifest \cup {None}
  BY <1>1, <1>4, <1>10, SummaryStays DEF IInv, Shared
<1>12. CommandOK(manifest', ledger', p, m) /\ manifest' # None
  BY <1>2, <1>9, <1>10
<1> QED
  BY <1>4, <1>5, <1>11, <1>12, Moves

(* A command that has read the ledger for its summary.                     *)
Reporting(c, rs) == [c EXCEPT !.pc = "reporting", !.report = rs]

LEMMA ReportingKept ==
  ASSUME NEW c \in Command, NEW rs \in Seq(Record)
  PROVE  /\ Reporting(c, rs) \in Command /\ Reporting(c, rs).pc = "reporting"
         /\ Reporting(c, rs).version = c.version
         /\ Reporting(c, rs).config = c.config
         /\ Reporting(c, rs).before = c.before
         /\ Reporting(c, rs).target = c.target
         /\ Reporting(c, rs).new = c.new /\ Reporting(c, rs).report = rs
         /\ Reporting(c, rs).exit = c.exit
<1>1. "reporting" \in Pc
  BY DEF Pc
<1> QED
  BY <1>1 DEF Command, Reporting

LEMMA ReadSummaryKeeps ==
  ASSUME IInv, NEW p \in Commands, ReadSummary(p)
  PROVE  IInv'
<1> USE MuMathAssumption
<1> DEFINE m == Reporting(cmd[p], ledger.records)
<1>1. /\ cmd \in [Commands -> Command] /\ cmd[p] \in Command
      /\ CommandOK(manifest, ledger, p, cmd[p]) /\ cmd[p].pc = "summing"
      /\ LedgerOK(ledger) /\ ledger.records \in Seq(Record)
  BY CommandFacts DEF ReadSummary, At
<1>2. /\ manifest # None /\ ledger.lock # p
      /\ Served(ledger, cmd[p]) /\ Written(ledger.records, cmd[p])
      /\ cmd[p].version \in Versions /\ cmd[p].exit = None /\ cmd[p].config # None
  BY <1>1 DEF CommandOK
<1>3. cmd' = [cmd EXCEPT ![p] = m]
  BY <1>1 DEF ReadSummary, Reporting
<1>4. /\ m \in Command /\ m.pc = "reporting" /\ m.before = cmd[p].before
      /\ m.target = cmd[p].target /\ m.version = cmd[p].version
      /\ m.config = cmd[p].config /\ m.new = cmd[p].new
      /\ m.report = ledger.records /\ m.exit = cmd[p].exit
  BY <1>1, ReportingKept
<1> HIDE DEF m
<1>5. Prefix(m.report, ledger.records) /\ Written(m.report, m) /\ Served(ledger, m)
  BY <1>1, <1>2, <1>4 DEF Prefix, Written, Served
<1>6. CommandOK(manifest, ledger, p, m)
  BY <1>2, <1>4, <1>5 DEF CommandOK, Planned
<1>7. UNCHANGED <<manifest, ledger, summary>> /\ started' \in 0 .. MaxCommands
  BY DEF ReadSummary, IInv, Shared
<1> QED
  BY <1>3, <1>6, <1>7, Thinks

LEMMA WriteSummaryKeeps ==
  ASSUME IInv, NEW p \in Commands, WriteSummary(p)
  PROVE  IInv'
<1> USE MuMathAssumption
<1>1. /\ cmd[p] \in Command /\ CommandOK(manifest, ledger, p, cmd[p])
      /\ cmd[p].pc = "reporting" /\ LedgerOK(ledger)
      /\ cmd[p].new \in Seq(Record) /\ cmd[p].report \in Seq(Record)
      /\ cmd[p].before \in 0 .. Size
  BY CommandFacts DEF WriteSummary, At, Command
<1>2. /\ ledger.lock # p /\ Served(ledger, cmd[p])
      /\ Prefix(cmd[p].report, ledger.records) /\ Written(cmd[p].report, cmd[p])
  BY <1>1 DEF CommandOK
<1>3. PICK m : /\ cmd' = [cmd EXCEPT ![p] = m]
               /\ CommandOK(manifest, ledger, p, m)
  BY <1>2, SucceedOK DEF WriteSummary
<1>4. SummaryOK(ledger, summary')
  <2>1. summary' = [records |-> cmd[p].report, before |-> cmd[p].before,
                    new |-> cmd[p].new]
    BY DEF WriteSummary
  <2>2. /\ summary' \in [records : Seq(Record), before : 0 .. Size, new : Seq(Record)]
        /\ summary'.records = cmd[p].report /\ summary'.before = cmd[p].before
        /\ summary'.new = cmd[p].new
    BY <1>1, <2>1
  <2> QED
    BY <1>2, <2>2 DEF SummaryOK, Written
<1>5. UNCHANGED <<manifest, ledger, started>>
  BY DEF WriteSummary
<1>6. /\ LedgerOK(ledger') /\ Evolves(ledger, ledger', p)
      /\ SummaryOK(ledger', summary') /\ CommandOK(manifest', ledger', p, m)
  BY <1>1, <1>3, <1>4, <1>5, Same
<1>7. /\ started' \in 0 .. MaxCommands /\ manifest' \in Manifest \cup {None}
      /\ manifest # None => manifest' # None
      /\ ledger'.header # None => manifest' # None
  BY <1>5 DEF IInv, Shared
<1> QED
  BY <1>3, <1>6, <1>7, Moves

(* An append cut short adds one record or none.                            *)
LEMMA TornKeeps ==
  ASSUME NEW l, LedgerOK(l), NEW r \in Record, r.row = Len(l.records) + 1,
         NEW k \in Torn(l, Identity, r)
  PROVE  LedgerOK(k) /\ Prefix(l.records, k.records)
<1> USE MuMathAssumption
<1>1. /\ l \in Ledger /\ l.header \in {None, Identity}
      /\ \A j \in DOMAIN l.records : l.records[j].row = j
      /\ Prefix(l.records, l.records)
  BY LedgerFacts DEF LedgerOK, Prefix
<1>2. CASE k = [Appended(l, Identity, r) EXCEPT !.file = "bare"]
  <2> DEFINE a == Appended(l, Identity, r)
  <2>1. LedgerOK(a) /\ Prefix(l.records, a.records) /\ a.header = Identity
    BY Adds
  <2>2. k = [a EXCEPT !.file = "bare"]
    BY <1>2
  <2> HIDE DEF a
  <2>3. /\ k \in Ledger /\ k.records = a.records /\ k.header = Identity
    BY <2>1, <2>2 DEF LedgerOK, Ledger
  <2> QED
    BY <2>1, <2>3 DEF LedgerOK
<1>3. CASE \E f \in {"broken", "empty"} : k = [l EXCEPT !.file = f]
  <2>1. /\ k \in Ledger /\ k.records = l.records /\ k.header = l.header
        /\ k.file \in {"broken", "empty"}
    BY <1>1, <1>3 DEF Ledger
  <2> QED
    BY <1>1, <2>1 DEF LedgerOK
<1>4. CASE \E f \in {"whole", "bare"} : k = [l EXCEPT !.header = Identity, !.file = f]
  <2>1. /\ k \in Ledger /\ k.records = l.records /\ k.header = Identity
    BY <1>1, <1>4 DEF Ledger
  <2> QED
    BY <1>1, <2>1 DEF LedgerOK
<1> QED
  BY <1>2, <1>3, <1>4 DEF Torn

LEMMA StopInAppendKeeps ==
  ASSUME IInv, NEW p \in Commands, StopInAppend(p)
  PROVE  IInv'
<1> USE MuMathAssumption
<1>1. PICK i \in cmd[p].todo : \E r \in Scored(i) :
        /\ IsNext(p, i)
        /\ \E l \in Torn(ledger, FingerprintOf(p), r) : ledger' = Unlocked(l)
  BY DEF StopInAppend
<1>2. PICK r \in Scored(i) :
        /\ IsNext(p, i)
        /\ \E l \in Torn(ledger, FingerprintOf(p), r) : ledger' = Unlocked(l)
  BY <1>1
<1>3. PICK code \in {1, 2, 130, None} : cmd' = [cmd EXCEPT ![p] = Ended(code)]
  BY DEF StopInAppend, StopCodes, Ended
<1>4. /\ CommandOK(manifest, ledger, p, cmd[p]) /\ cmd[p].pc = "running"
      /\ LedgerOK(ledger)
  BY CommandFacts DEF StopInAppend, At
<1>5. PICK l \in Torn(ledger, Identity, r) : ledger' = Unlocked(l)
  BY <1>2, <1>4, OneFingerprint
<1>6. ledger.lock = p /\ manifest # None /\ p # None
  BY <1>4 DEF CommandOK
<1>7. r \in Record /\ r.row = Len(ledger.records) + 1
  BY <1>2, NextRow DEF StopInAppend
<1>8. LedgerOK(l) /\ Prefix(ledger.records, l.records)
  BY <1>4, <1>7, TornKeeps
<1>9. LedgerOK(ledger') /\ Evolves(ledger, ledger', p) /\ ledger'.lock = None
  BY <1>4, <1>5, <1>6, <1>8, Releases
<1>10. CommandOK(manifest', ledger', p, Ended(code))
  BY <1>6, <1>9, EndedOK
<1>11. UNCHANGED <<manifest, summary, started>>
  BY DEF StopInAppend
<1>12. /\ SummaryOK(ledger', summary') /\ started' \in 0 .. MaxCommands
       /\ manifest' \in Manifest \cup {None} /\ manifest' # None
  BY <1>4, <1>6, <1>9, <1>11, SummaryStays DEF IInv, Shared
<1> QED
  BY <1>3, <1>9, <1>10, <1>12, Moves
----------------------------------------------------------------------------
LEMMA InitHolds ==
  ASSUME Init
  PROVE  IInv
<1> USE MuMathAssumption
<1>1. ledger = NoLedger /\ manifest = None /\ summary = None /\ started = 0
  BY DEF Init
<1>2. /\ ledger \in Ledger /\ ledger.records = <<>> /\ ledger.header = None
      /\ ledger.file = "none" /\ ledger.lock = None
  BY <1>1 DEF NoLedger, Ledger
<1>3. LedgerOK(ledger)
  BY <1>2 DEF LedgerOK
<1>4. Shared
  BY <1>1, <1>2, <1>3 DEF Shared, SummaryOK
<1>5. \A p \in Commands : cmd[p] = Idle
  BY DEF Init
<1>6. Idle = Ended(None)
  <2>1. Idle.exit = None /\ Idle \in Command
    <3>1. <<>> \in Seq(Record) /\ {} \in SUBSET Row /\ 0 \in 0 .. Size
      OBVIOUS
    <3> QED
      BY <3>1 DEF Idle, Command, Pc
  <2>2. \A c \in Command : [c EXCEPT !.exit = c.exit] = c
    BY DEF Command
  <2> QED
    BY <2>1, <2>2 DEF Ended
<1>7. \A p \in Commands : p # None
  OBVIOUS
<1>8. \A p \in Commands : CommandOK(manifest, ledger, p, cmd[p])
  <2> SUFFICES ASSUME NEW p \in Commands PROVE CommandOK(manifest, ledger, p, Idle)
    BY <1>5
  <2> QED
    BY <1>2, <1>3, <1>6, <1>7, EndedOK
<1>9. cmd \in [Commands -> Command]
  <2>1. \A p \in Commands : cmd[p] \in Command
    BY <1>8 DEF CommandOK
  <2> QED
    BY <2>1 DEF Init
<1> QED
  BY <1>4, <1>8, <1>9 DEF IInv

LEMMA NextKeeps ==
  ASSUME IInv, [Next]_vars
  PROVE  IInv'
<1>1. CASE UNCHANGED vars
  BY <1>1 DEF vars, IInv, Shared
<1>2. ASSUME NEW p \in Commands,
             \/ ReadPlanFails(p) \/ Decline(p) \/ PreflightFails(p)
             \/ ManifestDiffers(p) \/ LockFails(p) \/ RowFails(p)
             \/ SummaryFails(p) \/ Stop(p)
      PROVE  IInv'
  BY <1>2, ExitSteps
<1>3. ASSUME NEW p \in Commands,
             Preflight(p) \/ ManifestEqual(p) \/ ManifestMissing(p)
      PROVE  IInv'
  BY <1>3, LabelSteps
<1>4. ASSUME NEW p \in Commands,
             \/ Start(p) \/ Find(p) \/ ReadPlan(p) \/ AlreadyComplete(p)
             \/ WriteManifest(p) \/ Lock(p)
      PROVE  IInv'
  BY <1>4, StartKeeps, FindKeeps, ReadPlanKeeps, AlreadyCompleteKeeps,
     WriteManifestKeeps, LockKeeps
<1>5. ASSUME NEW p \in Commands,
             \/ Judge(p) \/ Finish(p) \/ ReadSummary(p) \/ WriteSummary(p)
             \/ StopInAppend(p)
      PROVE  IInv'
  BY <1>5, JudgeKeeps, FinishKeeps, ReadSummaryKeeps, WriteSummaryKeeps,
     StopInAppendKeeps
<1> QED
  BY <1>1, <1>2, <1>3, <1>4, <1>5 DEF Next

(* The invariant holds of every state of every run of the commands of      *)
(* run_mu_math.py, whatever their number, versions and batch sizes.        *)
THEOREM Invariant == Spec => []IInv
<1>1. Init => IInv
  BY InitHolds
<1>2. IInv /\ [Next]_vars => IInv'
  BY NextKeeps
<1> QED
  BY <1>1, <1>2, PTL DEF Spec

(* The state keeps its types, a command past the search for a directory    *)
(* has a configuration, and the lock is held by the command that runs.     *)
THEOREM TypeCorrect == Spec => []TypeOK
<1>1. IInv => TypeOK
  BY DEF IInv, Shared, CommandOK, SummaryOK, LedgerOK, TypeOK, At
<1> QED
  BY <1>1, Invariant, PTL

(* A ledger that no write has torn holds the first rows of the data, each  *)
(* once, under the fingerprint of the manifest: any later command resumes  *)
(* from it.                                                                *)
THEOREM StaysResumable == Spec => []LedgerResumable
<1> USE MuMathAssumption
<1>1. ASSUME IInv PROVE LedgerResumable
  <2>1. LedgerOK(ledger) /\ manifest \in Manifest \cup {None}
        /\ (ledger.header # None => manifest # None)
    BY <1>1 DEF IInv, Shared
  <2>2. manifest # None => manifest.fingerprint = Identity
    BY <2>1 DEF Manifest, Fingerprint
  <2> QED
    BY <2>1, <2>2 DEF LedgerOK, LedgerResumable
<1> QED
  BY <1>1, Invariant, PTL

(* A command that ends with code 0 leaves at least as many verdicts as its *)
(* confirmed plan announced, whoever wrote them.                           *)
THEOREM ZeroIsComplete == Spec => []ExitZeroIsComplete
<1>1. ASSUME IInv, NEW p \in Commands, cmd[p].exit = 0
      PROVE  Len(ledger.records) >= cmd[p].before + cmd[p].target
  BY <1>1, CommandFacts DEF CommandOK, Served
<1>2. IInv => ExitZeroIsComplete
  BY <1>1 DEF ExitZeroIsComplete
<1> QED
  BY <1>2, Invariant, PTL

(* The summary is about a prefix of the ledger that holds all the new      *)
(* records of its command, although it is read after the lock is released. *)
THEOREM SummaryIsTrue == Spec => []SummaryTrue
<1>1. IInv => SummaryTrue
  BY DEF IInv, Shared, SummaryOK, SummaryTrue, Prefix, Written
<1> QED
  BY <1>1, Invariant, PTL

----------------------------------------------------------------------------
(***************************************************************************)
(* The metrics of a summary.  Its numbers are counts of records, so that   *)
(* the proofs are about cardinalities; the sum over the models is a fold,  *)
(* which has to be computed by well-founded induction on the subsets left. *)
(***************************************************************************)
(* A product grows with its factor.                                        *)
LEMMA Times ==
  ASSUME NEW a \in Int, NEW b \in Int, NEW c \in Nat, a <= b
  PROVE  a * c <= b * c
OBVIOUS

(* And is no greater than another only if its factor is not.               *)
LEMMA Cancel ==
  ASSUME NEW a \in Int, NEW b \in Int, NEW c \in Nat \ {0}, a * c <= b * c
  PROVE  a <= b
OBVIOUS

(* The number 2 t / (2 t + a + b), up to a common factor; 0 if t is.       *)
IsScore(f, t, a, b) ==
  /\ f[1] \in Nat /\ f[2] \in Nat \ {0}
  /\ t = 0 => f[1] = 0
  /\ f[1] * (2 * t + a + b) = 2 * t * f[2]

(* The F1 score of a precision t / (t + a) and a recall t / (t + b).       *)
Score(t, a, b) == F1(Ratio(t, t + a), Ratio(t, t + b))

(* Whatever denominators are zero.                                         *)
LEMMA F1Value ==
  ASSUME NEW t \in Nat, NEW a \in Nat, NEW b \in Nat
  PROVE  IsScore(Score(t, a, b), t, a, b)
<1> DEFINE f == Score(t, a, b)
<1>1. CASE t = 0
  <2>1. f[1] = 0 /\ f[2] = 1
    BY <1>1 DEF Score, F1, Ratio
  <2> HIDE DEF f
  <2>2. IsScore(f, t, a, b)
    BY <1>1, <2>1 DEF IsScore
  <2> QED
    BY <2>2 DEF f
<1>2. CASE t > 0
  <2> DEFINE d == t * (t + b) + t * (t + a)
  <2>1. t * (t + b) \in Nat /\ t * (t + a) \in Nat /\ t * t \in Nat
    OBVIOUS
  <2>2. t * (t + b) > 0
    BY <1>2
  <2>3. d \in Nat \ {0}
    BY <2>1, <2>2
  <2>4. f = <<2 * t * t, d>>
    BY <1>2, <2>3 DEF Score, F1, Ratio
  <2>5. 2 * t * t * (2 * t + a + b) = 2 * t * d
    OBVIOUS
  <2> HIDE DEF f, d
  <2>6. IsScore(f, t, a, b)
    BY <1>2, <2>1, <2>3, <2>4, <2>5 DEF IsScore
  <2> QED
    BY <2>6 DEF f
<1> QED
  BY <1>1, <1>2

(* A score with more true and less false verdicts is no worse.             *)
LEMMA F1Grows ==
  ASSUME NEW t \in Nat, NEW a \in Nat, NEW b \in Nat,
         NEW u \in Nat, NEW c \in Nat, NEW d \in Nat,
         t <= u, t * (c + d) <= u * (a + b)
  PROVE  AtMost(Score(t, a, b), Score(u, c, d))
<1> DEFINE f == Score(t, a, b)
           g == Score(u, c, d)
           x == 2 * t + a + b
           y == 2 * u + c + d
<1>1. IsScore(f, t, a, b) /\ IsScore(g, u, c, d)
  BY F1Value
<1> HIDE DEF f, g
<1>2. /\ f[1] \in Nat /\ f[2] \in Nat \ {0}
      /\ t = 0 => f[1] = 0
      /\ f[1] * x = 2 * t * f[2]
      /\ g[1] \in Nat /\ g[2] \in Nat \ {0}
      /\ g[1] * y = 2 * u * g[2]
  BY <1>1 DEF IsScore
<1>3. (2 * t) * y <= (2 * u) * x
  OBVIOUS
<1>4. x \in Nat /\ y \in Nat /\ (t # 0 => x # 0 /\ y # 0)
  OBVIOUS
<1> HIDE DEF x, y
<1> SUFFICES f[1] * g[2] <= g[1] * f[2]
  BY DEF AtMost, f, g
<1>5. CASE t = 0
  BY <1>2, <1>5
<1>6. CASE t # 0
  <2> DEFINE f1 == f[1] f2 == f[2] g1 == g[1] g2 == g[2]
             n == f2 * g2
  <2>1. /\ f1 \in Nat /\ f2 \in Nat /\ g1 \in Nat /\ g2 \in Nat
        /\ n \in Nat /\ x * y \in Nat \ {0}
        /\ f1 * g2 \in Nat /\ g1 * f2 \in Nat
    BY <1>2, <1>4, <1>6
  <2>2. f1 * x = 2 * t * f2 /\ g1 * y = 2 * u * g2
    BY <1>2
  <2> HIDE DEF f1, f2, g1, g2
  <2>3. (f1 * g2) * (x * y) = (f1 * x) * (g2 * y)
    BY <1>4, <2>1
  <2>4. (g1 * f2) * (x * y) = (g1 * y) * (f2 * x)
    BY <1>4, <2>1
  <2>5. (2 * t * f2) * (g2 * y) = ((2 * t) * y) * n
    BY <1>4, <2>1
  <2>6. (2 * u * g2) * (f2 * x) = ((2 * u) * x) * n
    BY <1>4, <2>1
  <2>7. ((2 * t) * y) * n <= ((2 * u) * x) * n
    <3>1. (2 * t) * y \in Int /\ (2 * u) * x \in Int
      BY <1>4
    <3> HIDE DEF n
    <3> QED
      BY <1>3, <2>1, <3>1, Times
  <2>8. (f1 * g2) * (x * y) <= (g1 * f2) * (x * y)
    BY <2>2, <2>3, <2>4, <2>5, <2>6, <2>7
  <2>9. f1 * g2 <= g1 * f2
    BY <2>1, <2>8, Cancel
  <2> QED
    BY <2>9 DEF f1, f2, g1, g2
<1> QED
  BY <1>5, <1>6

(* The mean of greater numbers is greater.                                 *)
LEMMA MeanGrows ==
  ASSUME NEW a, NEW b, NEW c, NEW d,
         \A f \in {a, b, c, d} : f[1] \in Nat /\ f[2] \in Nat \ {0},
         AtMost(a, c), AtMost(b, d)
  PROVE  AtMost(Mean(a, b), Mean(c, d))
<1> DEFINE a1 == a[1] a2 == a[2] b1 == b[1] b2 == b[2]
           c1 == c[1] c2 == c[2] d1 == d[1] d2 == d[2]
<1>1. /\ a1 \in Nat /\ a2 \in Nat /\ b1 \in Nat /\ b2 \in Nat
      /\ c1 \in Nat /\ c2 \in Nat /\ d1 \in Nat /\ d2 \in Nat
  OBVIOUS
<1>2. a1 * c2 <= c1 * a2 /\ b1 * d2 <= d1 * b2
  BY DEF AtMost
<1>3. /\ Mean(a, b) = <<a1 * b2 + b1 * a2, 2 * a2 * b2>>
      /\ Mean(c, d) = <<c1 * d2 + d1 * c2, 2 * c2 * d2>>
  BY DEF Mean
<1> HIDE DEF a1, a2, b1, b2, c1, c2, d1, d2
<1> DEFINE m == 2 * b2 * d2
           n == 2 * a2 * c2
<1>4. m \in Nat /\ n \in Nat
  BY <1>1
<1>5. (a1 * c2) * m <= (c1 * a2) * m
  <2>1. a1 * c2 \in Int /\ c1 * a2 \in Int
    BY <1>1
  <2> HIDE DEF m
  <2> QED
    BY <1>2, <1>4, <2>1, Times
<1>6. (b1 * d2) * n <= (d1 * b2) * n
  <2>1. b1 * d2 \in Int /\ d1 * b2 \in Int
    BY <1>1
  <2> HIDE DEF n
  <2> QED
    BY <1>2, <1>4, <2>1, Times
<1>7. (a1 * b2 + b1 * a2) * (2 * c2 * d2) = (a1 * c2) * m + (b1 * d2) * n
  BY <1>1
<1>8. (c1 * d2 + d1 * c2) * (2 * a2 * b2) = (c1 * a2) * m + (d1 * b2) * n
  BY <1>1
<1>9. /\ (a1 * c2) * m \in Int /\ (c1 * a2) * m \in Int
      /\ (b1 * d2) * n \in Int /\ (d1 * b2) * n \in Int
  BY <1>1
<1> HIDE DEF m, n
<1> QED
  BY <1>3, <1>5, <1>6, <1>7, <1>8, <1>9 DEF AtMost

(* Two parts of a set have as many elements as it has.                     *)
LEMMA Parts ==
  ASSUME NEW A, NEW B, IsFiniteSet(A), IsFiniteSet(B), A \cap B = {}
  PROVE  /\ IsFiniteSet(A \cup B)
         /\ Cardinality(A) \in Nat /\ Cardinality(B) \in Nat
         /\ Cardinality(A \cup B) = Cardinality(A) + Cardinality(B)
<1>1. Cardinality(A) \in Nat /\ Cardinality(B) \in Nat
  BY FS_CardinalityType
<1>2. Cardinality(A \cap B) = 0
  BY FS_EmptySet
<1>3. /\ IsFiniteSet(A \cup B)
      /\ Cardinality(A \cup B) = Cardinality(A) + Cardinality(B) - Cardinality(A \cap B)
  BY FS_Union, Zenon
<1> QED
  BY <1>1, <1>2, <1>3

(* The equation of the fold that MapThenSumSet is defined by.              *)
IsTotal(h, S, b, f) ==
  h = [s \in SUBSET S |->
         IF s = {} THEN 0
         ELSE b[CHOOSE x \in s : TRUE][f] + h[s \ {CHOOSE x \in s : TRUE}]]

(* It has one solution at most.                                            *)
LEMMA OneTotal ==
  ASSUME NEW S, IsFiniteSet(S), NEW b, NEW f, NEW g, NEW h, IsTotal(g, S, b, f), IsTotal(h, S, b, f)
  PROVE  g[S] = h[S]
<1> DEFINE T == {s \in SUBSET S : g[s] # h[s]}
<1>1. \A s \in SUBSET S :
        /\ g[s] = IF s = {} THEN 0
                  ELSE b[CHOOSE x \in s : TRUE][f] + g[s \ {CHOOSE x \in s : TRUE}]
        /\ h[s] = IF s = {} THEN 0
                  ELSE b[CHOOSE x \in s : TRUE][f] + h[s \ {CHOOSE x \in s : TRUE}]
  BY Zenon DEF IsTotal
<1> SUFFICES ASSUME T # {} PROVE FALSE
  OBVIOUS
<1>2. IsWellFoundedOn(StrictSubsetOrdering(S), FiniteSubsetsOf(S))
  BY FS_StrictSubsetOrderingWellFounded
<1>3. FiniteSubsetsOf(S) = SUBSET S
  BY FS_FiniteSubsetsOfFinite
<1>4. T \subseteq SUBSET S
  OBVIOUS
<1> HIDE DEF T
<1>5. PICK s \in T : \A u \in T : ~ (<<u, s>> \in StrictSubsetOrdering(S))
  BY <1>2, <1>3, <1>4, WFMin
<1>6. s \in SUBSET S /\ g[s] # h[s]
  BY DEF T
<1>7. s # {}
  BY <1>1, <1>6, Zenon
<1> DEFINE x == CHOOSE y \in s : TRUE
<1>8. x \in s
  BY <1>7
<1>9. g[s] = b[x][f] + g[s \ {x}] /\ h[s] = b[x][f] + h[s \ {x}]
  BY <1>1, <1>6, <1>7, Zenon
<1> HIDE DEF x
<1>10. g[s \ {x}] # h[s \ {x}]
  BY <1>6, <1>9, Zenon
<1>11. s \ {x} \in T
  BY <1>6, <1>10, Zenon DEF T
<1>12. <<s \ {x}, s>> \in StrictSubsetOrdering(S)
  BY <1>6, <1>8 DEF StrictSubsetOrdering
<1> QED
  BY <1>5, <1>11, <1>12

(* b[x][f] is the number of elements of A that src sends to x of S.        *)
Groups(S, A, src, b, f) ==
  /\ IsFiniteSet(S) /\ IsFiniteSet(A)
  /\ \A k \in A : src[k] \in S
  /\ \A x \in S : b[x][f] = Cardinality({k \in A : src[k] = x})

(* Added up, these are all elements of A.                                  *)
LEMMA GroupsTotal ==
  ASSUME NEW S, NEW A, NEW src, NEW b, NEW f, Groups(S, A, src, b, f)
  PROVE  \E h : IsTotal(h, S, b, f) /\ h[S] = Cardinality(A)
<1> USE DEF Groups
<1> DEFINE h == [s \in SUBSET S |-> Cardinality({k \in A : src[k] \in s})]
<1>1. ASSUME NEW s \in SUBSET S, s # {}, NEW x \in s
      PROVE  h[s] = b[x][f] + h[s \ {x}]
  <2> DEFINE B == {k \in A : src[k] = x}
             C == {k \in A : src[k] \in s \ {x}}
  <2>1. IsFiniteSet(B) /\ IsFiniteSet(C)
    BY FS_Subset
  <2>2. B \cap C = {} /\ B \cup C = {k \in A : src[k] \in s}
    OBVIOUS
  <2>3. b[x][f] = Cardinality(B)
    OBVIOUS
  <2>4. h[s] = Cardinality(B \cup C) /\ h[s \ {x}] = Cardinality(C)
    BY <2>2
  <2> HIDE DEF B, C, h
  <2> QED
    BY <2>1, <2>2, <2>3, <2>4, Parts
<1>2. h[{}] = 0
  BY FS_EmptySet
<1>3. IsTotal(h, S, b, f)
  <2> DEFINE c(s) == CHOOSE x \in s : TRUE
  <2>1. \A s \in SUBSET S : h[s] = IF s = {} THEN 0 ELSE b[c(s)][f] + h[s \ {c(s)}]
    BY <1>1, <1>2
  <2>2. h = [s \in SUBSET S |-> h[s]]
    OBVIOUS
  <2> HIDE DEF h
  <2> QED
    BY <2>1, <2>2, Zenon DEF IsTotal
<1>4. h[S] = Cardinality(A)
  <2>1. {k \in A : src[k] \in S} = A
    OBVIOUS
  <2> QED
    BY <2>1
<1> HIDE DEF h
<1> QED
  BY <1>3, <1>4

(* The function that MapThenSumSet is defined by.                          *)
Total(S, b, f) == CHOOSE h : IsTotal(h, S, b, f)

LEMMA SumOfGroups ==
  ASSUME NEW S, NEW A, NEW src, NEW b, NEW f, Groups(S, A, src, b, f)
  PROVE  Total(S, b, f)[S] = Cardinality(A)
<1>1. PICK h : IsTotal(h, S, b, f) /\ h[S] = Cardinality(A)
  BY GroupsTotal, Zenon
<1>2. IsTotal(Total(S, b, f), S, b, f)
  BY <1>1, Zenon DEF Total
<1>3. IsFiniteSet(S) /\ IsTotal(h, S, b, f)
  BY <1>1 DEF Groups
<1>4. Total(S, b, f)[S] = h[S]
  BY <1>2, <1>3, OneTotal
<1> QED
  BY <1>1, <1>4, Zenon

(* Counting the verdicts of records: those that are right, wrong or none.  *)
With(rs, K, label, verdict) ==
  {k \in K : Label[rs[k].row] = label /\ rs[k].verdict = verdict}

Right(rs, K) == With(rs, K, TRUE, "Yes") \cup With(rs, K, FALSE, "No")

Undecided(rs, K) == With(rs, K, TRUE, "Inconclusive") \cup With(rs, K, FALSE, "Inconclusive")

Positions(rs, K) == rs \in Seq(Record) /\ K \subseteq DOMAIN rs

(* Positions are finitely many, of records with a label and a verdict.     *)
LEMMA PositionFacts ==
  ASSUME NEW rs, NEW K, Positions(rs, K)
  PROVE  /\ IsFiniteSet(K) /\ Cardinality(K) \in Nat
         /\ \A k \in K : Label[rs[k].row] \in BOOLEAN /\ rs[k].verdict \in Verdict
<1> USE MuMathAssumption
<1>1. Len(rs) \in Nat /\ DOMAIN rs = 1 .. Len(rs)
  BY DEF Positions
<1>2. IsFiniteSet(1 .. Len(rs))
  BY <1>1, FS_Interval
<1>3. IsFiniteSet(K)
  BY <1>1, <1>2, FS_Subset DEF Positions
<1>4. \A k \in K : rs[k] \in Record
  BY DEF Positions
<1> QED
  BY <1>3, <1>4, FS_CardinalityType DEF Record

(* Count counts.                                                           *)
LEMMA Counts ==
  ASSUME NEW rs, NEW K, Positions(rs, K), NEW label, NEW verdict
  PROVE  /\ IsFiniteSet(With(rs, K, label, verdict))
         /\ Count(rs, K, label, verdict) = Cardinality(With(rs, K, label, verdict))
         /\ Count(rs, K, label, verdict) \in Nat
<1>1. IsFiniteSet(K) /\ With(rs, K, label, verdict) \in SUBSET K
  BY PositionFacts DEF With
<1>2. IsFiniteSet(With(rs, K, label, verdict))
  BY <1>1, FS_Subset
<1>3. Cardinality(With(rs, K, label, verdict)) \in Nat
  BY <1>2, FS_CardinalityType
<1> QED
  BY <1>2, <1>3 DEF Count, With

(* Every record is counted once.                                           *)
LEMMA AllCounted ==
  ASSUME NEW rs, NEW K, Positions(rs, K)
  PROVE  /\ Cardinality(Right(rs, K)) =
              Count(rs, K, TRUE, "Yes") + Count(rs, K, FALSE, "No")
         /\ Cardinality(Undecided(rs, K)) =
              Count(rs, K, TRUE, "Inconclusive") + Count(rs, K, FALSE, "Inconclusive")
         /\ IsFiniteSet(Right(rs, K)) /\ IsFiniteSet(Undecided(rs, K))
<1> DEFINE W(label, verdict) == With(rs, K, label, verdict)
<1>1. /\ W(TRUE, "Yes") \cap W(FALSE, "No") = {}
      /\ W(TRUE, "Inconclusive") \cap W(FALSE, "Inconclusive") = {}
  BY DEF With
<1>2. \A l, v : /\ IsFiniteSet(W(l, v)) /\ Count(rs, K, l, v) = Cardinality(W(l, v))
  BY Counts
<1>3. /\ Right(rs, K) = W(TRUE, "Yes") \cup W(FALSE, "No")
      /\ Undecided(rs, K) = W(TRUE, "Inconclusive") \cup W(FALSE, "Inconclusive")
  BY DEF Right, Undecided
<1> HIDE DEF W
<1>4. /\ IsFiniteSet(W(TRUE, "Yes") \cup W(FALSE, "No"))
      /\ Cardinality(W(TRUE, "Yes") \cup W(FALSE, "No")) =
           Cardinality(W(TRUE, "Yes")) + Cardinality(W(FALSE, "No"))
  BY <1>1, <1>2, Parts
<1>5. /\ IsFiniteSet(W(TRUE, "Inconclusive") \cup W(FALSE, "Inconclusive"))
      /\ Cardinality(W(TRUE, "Inconclusive") \cup W(FALSE, "Inconclusive")) =
           Cardinality(W(TRUE, "Inconclusive")) + Cardinality(W(FALSE, "Inconclusive"))
  BY <1>1, <1>2, Parts
<1> QED
  BY <1>2, <1>3, <1>4, <1>5

(* Deciding an inconclusive verdict moves a record from one count to       *)
(* another of the same label.                                              *)
LEMMA DecidedFacts ==
  ASSUME NEW rs, Positions(rs, DOMAIN rs), NEW right \in BOOLEAN
  PROVE  /\ DOMAIN Decided(rs, right) = DOMAIN rs
         /\ \A k \in DOMAIN rs :
              /\ Decided(rs, right)[k].row = rs[k].row
              /\ Decided(rs, right)[k].verdict =
                   IF rs[k].verdict # "Inconclusive" THEN rs[k].verdict
                   ELSE IF Label[rs[k].row] = right THEN "Yes" ELSE "No"
         /\ Positions(Decided(rs, right), DOMAIN rs)
<1> DEFINE d == Decided(rs, right)
<1>1. rs \in Seq(Record) /\ Len(rs) \in Nat /\ DOMAIN rs = 1 .. Len(rs)
  BY DEF Positions
<1>2. DOMAIN d = DOMAIN rs
  BY DEF Decided
<1>3. ASSUME NEW k \in DOMAIN rs
      PROVE  /\ d[k].row = rs[k].row
             /\ d[k].verdict =
                  IF rs[k].verdict # "Inconclusive" THEN rs[k].verdict
                  ELSE IF Label[rs[k].row] = right THEN "Yes" ELSE "No"
             /\ d[k] \in Record
  <2>1. rs[k] \in Record
    BY <1>1
  <2>2. d[k] = IF rs[k].verdict # "Inconclusive" THEN rs[k]
               ELSE [rs[k] EXCEPT !.verdict =
                       IF Label[rs[k].row] = right THEN "Yes" ELSE "No"]
    BY DEF Decided
  <2> HIDE DEF d
  <2> QED
    BY <2>1, <2>2 DEF Record, Verdict
<1>4. d \in Seq(Record)
  <2>1. d = [k \in 1 .. Len(rs) |-> d[k]]
    BY <1>1 DEF Decided
  <2> HIDE DEF d
  <2>2. \A k \in 1 .. Len(rs) : d[k] \in Record
    BY <1>1, <1>3
  <2> QED
    BY <1>1, <2>1, <2>2
<1> HIDE DEF d
<1>5. Positions(d, DOMAIN rs)
  BY <1>2, <1>4 DEF Positions
<1> QED
  BY <1>2, <1>3, <1>5 DEF d

(* The inconclusive verdicts of a label join the right or the wrong ones.  *)
DecidedAs(rs, right, label) ==
  LET K == DOMAIN rs
      d == Decided(rs, right)
  IN  /\ Count(d, K, label, "Inconclusive") = 0
      /\ IF label = right
         THEN /\ Count(d, K, label, "Yes") =
                    Count(rs, K, label, "Yes") + Count(rs, K, label, "Inconclusive")
              /\ Count(d, K, label, "No") = Count(rs, K, label, "No")
         ELSE /\ Count(d, K, label, "Yes") = Count(rs, K, label, "Yes")
              /\ Count(d, K, label, "No") =
                   Count(rs, K, label, "No") + Count(rs, K, label, "Inconclusive")

LEMMA DecidedCounts ==
  ASSUME NEW rs, Positions(rs, DOMAIN rs), NEW right \in BOOLEAN, NEW label \in BOOLEAN
  PROVE  DecidedAs(rs, right, label)
<1> DEFINE K == DOMAIN rs
           d == Decided(rs, right)
           W(verdict) == With(rs, K, label, verdict)
<1>1. /\ Positions(d, K)
      /\ \A k \in K :
           /\ d[k].row = rs[k].row
           /\ d[k].verdict = IF rs[k].verdict # "Inconclusive" THEN rs[k].verdict
                             ELSE IF Label[rs[k].row] = right THEN "Yes" ELSE "No"
  BY DecidedFacts
<1>2. /\ \A k \in K : Label[rs[k].row] \in BOOLEAN /\ rs[k].verdict \in Verdict
  BY PositionFacts
<1> HIDE DEF d, K
<1>3. With(d, K, label, "Inconclusive") = {}
  BY <1>1 DEF With
<1>4. With(d, K, label, "Yes") =
        IF label = right THEN W("Yes") \cup W("Inconclusive") ELSE W("Yes")
  BY <1>1, <1>2 DEF With
<1>5. With(d, K, label, "No") =
        IF label = right THEN W("No") ELSE W("No") \cup W("Inconclusive")
  BY <1>1, <1>2 DEF With
<1>6. W("Yes") \cap W("Inconclusive") = {} /\ W("No") \cap W("Inconclusive") = {}
  BY DEF With
<1>7. \A v : /\ IsFiniteSet(W(v)) /\ Count(rs, K, label, v) = Cardinality(W(v))
             /\ Count(rs, K, label, v) \in Nat
             /\ Count(d, K, label, v) = Cardinality(With(d, K, label, v))
  BY <1>1, Counts DEF K
<1> HIDE DEF W
<1>8. /\ Cardinality(W("Yes") \cup W("Inconclusive")) =
           Cardinality(W("Yes")) + Cardinality(W("Inconclusive"))
      /\ Cardinality(W("No") \cup W("Inconclusive")) =
           Cardinality(W("No")) + Cardinality(W("Inconclusive"))
  BY <1>6, <1>7, Parts
<1>9. Cardinality({}) = 0
  BY FS_EmptySet
<1>10. Count(d, K, label, "Inconclusive") = 0
  BY <1>3, <1>7, <1>9
<1>11. CASE label = right
  BY <1>4, <1>5, <1>7, <1>8, <1>10, <1>11 DEF d, K, DecidedAs
<1>12. CASE label # right
  BY <1>4, <1>5, <1>7, <1>8, <1>10, <1>12 DEF d, K, DecidedAs
<1> QED
  BY <1>11, <1>12

(* The macro F1 score of six counts.                                       *)
MacroF1(tp, fn, fp, tn, positive, negative) ==
  Mean(Score(tp, fp, fn + positive), Score(tn, fn, fp + negative))

(* An inconclusive verdict is worth no less than a wrong one and no more   *)
(* than a right one.                                                       *)
LEMMA MacroGrows ==
  ASSUME NEW tp \in Nat, NEW fn \in Nat, NEW fp \in Nat, NEW tn \in Nat,
         NEW po \in Nat, NEW ne \in Nat
  PROVE  /\ AtMost(MacroF1(tp, fn + po, fp + ne, tn, 0, 0), MacroF1(tp, fn, fp, tn, po, ne))
         /\ AtMost(MacroF1(tp, fn, fp, tn, po, ne), MacroF1(tp + po, fn, fp, tn + ne, 0, 0))
<1>1. ASSUME NEW t \in Nat, NEW a \in Nat, NEW b \in Nat
      PROVE  Score(t, a, b)[1] \in Nat /\ Score(t, a, b)[2] \in Nat \ {0}
  BY F1Value, Zenon DEF IsScore
<1>2. ASSUME NEW t \in Nat, NEW a \in Nat, NEW b \in Nat, NEW x \in Nat
      PROVE  /\ AtMost(Score(t, a + x, b), Score(t, a, b))
             /\ AtMost(Score(t, a, b + x), Score(t, a, b))
             /\ AtMost(Score(t, a, b + x), Score(t + x, a, b))
  <2>1. t * (a + b) <= t * ((a + x) + b) /\ t * (a + b) <= t * (a + (b + x))
    OBVIOUS
  <2>2. t * (a + b) <= (t + x) * (a + (b + x))
    OBVIOUS
  <2>3. t <= t /\ t <= t + x /\ t + x \in Nat /\ a + x \in Nat /\ b + x \in Nat
    OBVIOUS
  <2>4. /\ AtMost(Score(t, a + x, b), Score(t, a, b))
        /\ AtMost(Score(t, a, b + x), Score(t, a, b))
    BY <2>1, <2>3, F1Grows, Zenon
  <2>5. AtMost(Score(t, a, b + x), Score(t + x, a, b))
    BY <2>2, <2>3, F1Grows, Zenon
  <2> QED
    BY <2>4, <2>5
<1>3. /\ MacroF1(tp, fn + po, fp + ne, tn, 0, 0) =
           Mean(Score(tp, fp + ne, fn + po), Score(tn, fn + po, fp + ne))
      /\ MacroF1(tp, fn, fp, tn, po, ne) =
           Mean(Score(tp, fp, fn + po), Score(tn, fn, fp + ne))
      /\ MacroF1(tp + po, fn, fp, tn + ne, 0, 0) =
           Mean(Score(tp + po, fp, fn), Score(tn + ne, fn, fp))
  <2>1. fn + po + 0 = fn + po /\ fp + ne + 0 = fp + ne /\ fn + 0 = fn /\ fp + 0 = fp
    OBVIOUS
  <2> QED
    BY <2>1, Zenon DEF MacroF1
<1>4. /\ fn + po \in Nat /\ fp + ne \in Nat /\ tp + po \in Nat /\ tn + ne \in Nat
  OBVIOUS
<1>5. AtMost(Mean(Score(tp, fp + ne, fn + po), Score(tn, fn + po, fp + ne)),
             Mean(Score(tp, fp, fn + po), Score(tn, fn, fp + ne)))
  BY <1>1, <1>2, <1>4, MeanGrows
<1>6. AtMost(Mean(Score(tp, fp, fn + po), Score(tn, fn, fp + ne)),
             Mean(Score(tp + po, fp, fn), Score(tn + ne, fn, fp)))
  BY <1>1, <1>2, <1>4, MeanGrows
<1> QED
  BY <1>3, <1>5, <1>6

(* The counts of the records at the positions K.                           *)
Tally(rs, K, tp, fn, fp, tn, positive, negative) ==
  /\ Count(rs, K, TRUE, "Yes") = tp /\ Count(rs, K, TRUE, "No") = fn
  /\ Count(rs, K, FALSE, "Yes") = fp /\ Count(rs, K, FALSE, "No") = tn
  /\ Count(rs, K, TRUE, "Inconclusive") = positive
  /\ Count(rs, K, FALSE, "Inconclusive") = negative

(* The metrics that follow from them.                                      *)
Rated(rs, K, tp, fn, fp, tn, positive, negative) ==
  /\ Metrics(rs, K).accuracy = Ratio(tp + tn, Cardinality(K))
  /\ Metrics(rs, K).tpr = Ratio(tp, tp + (fn + positive))
  /\ Metrics(rs, K).tnr = Ratio(tn, tn + (fp + negative))
  /\ Metrics(rs, K).macro_f1 = MacroF1(tp, fn, fp, tn, positive, negative)

(* Metrics computes them from the counts.                                  *)
LEMMA MetricsFields ==
  ASSUME NEW rs, NEW K, NEW tp \in Nat, NEW fn \in Nat, NEW fp \in Nat,
         NEW tn \in Nat, NEW po \in Nat, NEW ne \in Nat,
         Tally(rs, K, tp, fn, fp, tn, po, ne)
  PROVE  Rated(rs, K, tp, fn, fp, tn, po, ne)
<1>1. tp + fn + po = tp + (fn + po) /\ tn + fp + ne = tn + (fp + ne)
  OBVIOUS
<1> QED
  BY <1>1 DEF Tally, Rated, Metrics, MacroF1, Score

(* A rate equals itself, as its denominator is a number.                   *)
LEMMA SameRatio ==
  ASSUME NEW n \in Nat, NEW d \in Nat
  PROVE  Equal(Ratio(n, d), Ratio(n, d))
BY DEF Equal, AtMost, Ratio

(* What InconclusiveIsIncorrect says of the aggregate.                     *)
LEMMA AggregateFair ==
  ASSUME NEW rs, Positions(rs, DOMAIN rs)
  PROVE  LET m == Metrics(rs, DOMAIN rs)
             wrong == Metrics(Decided(rs, FALSE), DOMAIN rs)
             right == Metrics(Decided(rs, TRUE), DOMAIN rs)
         IN  /\ Equal(m.accuracy, wrong.accuracy)
             /\ Equal(m.tpr, wrong.tpr) /\ Equal(m.tnr, wrong.tnr)
             /\ AtMost(wrong.macro_f1, m.macro_f1) /\ AtMost(m.macro_f1, right.macro_f1)
<1> DEFINE D == DOMAIN rs
           tp == Count(rs, D, TRUE, "Yes")
           fn == Count(rs, D, TRUE, "No")
           fp == Count(rs, D, FALSE, "Yes")
           tn == Count(rs, D, FALSE, "No")
           po == Count(rs, D, TRUE, "Inconclusive")
           ne == Count(rs, D, FALSE, "Inconclusive")
           m == Metrics(rs, D)
           wrong == Metrics(Decided(rs, FALSE), D)
           right == Metrics(Decided(rs, TRUE), D)
<1>1. /\ tp \in Nat /\ fn \in Nat /\ fp \in Nat /\ tn \in Nat
      /\ po \in Nat /\ ne \in Nat /\ Cardinality(D) \in Nat
  BY Counts, PositionFacts
<1>2. Tally(rs, D, tp, fn, fp, tn, po, ne)
  BY DEF Tally
<1>3. \A r, l \in BOOLEAN : DecidedAs(rs, r, l)
  BY DecidedCounts
<1>4. /\ DecidedAs(rs, FALSE, TRUE) /\ DecidedAs(rs, FALSE, FALSE)
      /\ DecidedAs(rs, TRUE, TRUE) /\ DecidedAs(rs, TRUE, FALSE)
  BY <1>3
<1>5. Tally(Decided(rs, FALSE), D, tp, fn + po, fp + ne, tn, 0, 0)
  BY <1>4 DEF DecidedAs, Tally
<1>6. Tally(Decided(rs, TRUE), D, tp + po, fn, fp, tn + ne, 0, 0)
  BY <1>4 DEF DecidedAs, Tally
<1> HIDE DEF D
<1> HIDE DEF tp, fn, fp, tn, po, ne
<1>7. /\ fn + po \in Nat /\ fp + ne \in Nat /\ tp + po \in Nat /\ tn + ne \in Nat
      /\ 0 \in Nat
  BY <1>1
<1>8. /\ Rated(rs, D, tp, fn, fp, tn, po, ne)
      /\ Rated(Decided(rs, FALSE), D, tp, fn + po, fp + ne, tn, 0, 0)
      /\ Rated(Decided(rs, TRUE), D, tp + po, fn, fp, tn + ne, 0, 0)
  BY <1>1, <1>2, <1>5, <1>6, <1>7, MetricsFields, Zenon
<1>11. /\ m.accuracy = Ratio(tp + tn, Cardinality(D))
       /\ m.tpr = Ratio(tp, tp + (fn + po))
       /\ m.tnr = Ratio(tn, tn + (fp + ne))
       /\ m.macro_f1 = MacroF1(tp, fn, fp, tn, po, ne)
  BY <1>8, Zenon DEF Rated
<1>12. /\ wrong.accuracy = Ratio(tp + tn, Cardinality(D))
       /\ wrong.tpr = Ratio(tp, tp + ((fn + po) + 0))
       /\ wrong.tnr = Ratio(tn, tn + ((fp + ne) + 0))
       /\ wrong.macro_f1 = MacroF1(tp, fn + po, fp + ne, tn, 0, 0)
  BY <1>8, Zenon DEF Rated
<1>13. right.macro_f1 = MacroF1(tp + po, fn, fp, tn + ne, 0, 0)
  BY <1>8, Zenon DEF Rated
<1> HIDE DEF m, wrong, right
<1>14. Equal(m.accuracy, wrong.accuracy)
  <2>1. tp + tn \in Nat
    BY <1>1
  <2> QED
    BY <1>1, <1>11, <1>12, <2>1, SameRatio
<1>15. Equal(m.tpr, wrong.tpr) /\ Equal(m.tnr, wrong.tnr)
  <2>1. /\ (fn + po) + 0 = fn + po /\ (fp + ne) + 0 = fp + ne
        /\ tp + (fn + po) \in Nat /\ tn + (fp + ne) \in Nat
    BY <1>1
  <2> QED
    BY <1>1, <1>11, <1>12, <2>1, SameRatio
<1>16. AtMost(wrong.macro_f1, m.macro_f1) /\ AtMost(m.macro_f1, right.macro_f1)
  <2>1. /\ AtMost(MacroF1(tp, fn + po, fp + ne, tn, 0, 0), MacroF1(tp, fn, fp, tn, po, ne))
        /\ AtMost(MacroF1(tp, fn, fp, tn, po, ne), MacroF1(tp + po, fn, fp, tn + ne, 0, 0))
    BY <1>1, MacroGrows, Zenon
  <2> QED
    BY <1>11, <1>12, <1>13, <2>1
<1> QED
  BY <1>14, <1>15, <1>16 DEF m, wrong, right, D

(* The positions of the records on solutions of the model s.               *)
Group(rs, s) == {k \in DOMAIN rs : Source[rs[k].row] = s}

(* What is counted of the groups adds up to what is counted of all.        *)
LEMMA MetricsAdd ==
  ASSUME NEW rs, Positions(rs, DOMAIN rs), NEW f \in {"records", "correct", "inconclusive"},
         NEW b, b = [s \in Sources(rs) |-> Metrics(rs, Group(rs, s))]
  PROVE  Metrics(rs, DOMAIN rs)[f] = Total(Sources(rs), b, f)[Sources(rs)]
<1> DEFINE D == DOMAIN rs
           S == Sources(rs)
           src == [k \in D |-> Source[rs[k].row]]
           Of(K) == CASE f = "records" -> K
                     [] f = "correct" -> Right(rs, K)
                     [] f = "inconclusive" -> Undecided(rs, K)
<1>1. ASSUME NEW K \in SUBSET D
      PROVE  Metrics(rs, K)[f] = Cardinality(Of(K)) /\ IsFiniteSet(Of(K))
  <2>1. Positions(rs, K)
    BY DEF Positions
  <2>2. /\ Metrics(rs, K).records = Cardinality(K)
        /\ Metrics(rs, K).correct = Count(rs, K, TRUE, "Yes") + Count(rs, K, FALSE, "No")
        /\ Metrics(rs, K).inconclusive =
             Count(rs, K, TRUE, "Inconclusive") + Count(rs, K, FALSE, "Inconclusive")
    BY DEF Metrics
  <2> QED
    BY <2>1, <2>2, AllCounted, PositionFacts
<1>2. ASSUME NEW s PROVE Of(Group(rs, s)) = {k \in Of(D) : src[k] = s}
  BY DEF Group, Right, Undecided, With
<1>3. Of(D) \subseteq D
  BY DEF Right, Undecided, With
<1>4. \A k \in D : src[k] \in Sources(rs)
  BY DEF Sources
<1>5. IsFiniteSet(Sources(rs))
  <2>1. IsFiniteSet(D)
    BY PositionFacts
  <2>2. Sources(rs) = {src[k] : k \in D}
    BY DEF Sources
  <2> HIDE DEF src, D
  <2>3. src \in Surjection(D, {src[k] : k \in D})
    BY DEF Surjection, src
  <2> QED
    BY <2>1, <2>2, <2>3, FS_Surjection
<1>6. \A s \in Sources(rs) : b[s][f] = Cardinality({k \in Of(D) : src[k] = s})
  <2>1. \A s : Group(rs, s) \in SUBSET D
    BY DEF Group
  <2> HIDE DEF Of, src
  <2> QED
    BY <1>1, <1>2, <2>1
<1>7. Metrics(rs, D)[f] = Cardinality(Of(D)) /\ IsFiniteSet(Of(D))
  BY <1>1
<1> HIDE DEF Of, src
<1>8. Groups(S, Of(D), src, b, f)
  BY <1>3, <1>4, <1>5, <1>6, <1>7 DEF Groups
<1> HIDE DEF S, D
<1>9. Total(S, b, f)[S] = Cardinality(Of(D))
  <2> DEFINE E == Of(D)
  <2> HIDE DEF E
  <2>1. Groups(S, E, src, b, f)
    BY <1>8 DEF E
  <2>2. Total(S, b, f)[S] = Cardinality(E)
    BY <2>1, SumOfGroups
  <2> QED
    BY <2>2 DEF E
<1> QED
  BY <1>7, <1>9 DEF S, D

(* What a summary reports.                                                 *)
LEMMA FairlyScored ==
  ASSUME SummaryOK(ledger, summary)
  PROVE  InconclusiveIsIncorrect
<1> SUFFICES ASSUME summary # None PROVE InconclusiveIsIncorrect
  BY DEF InconclusiveIsIncorrect
<1> DEFINE rs == summary.records
           b == [s \in Sources(rs) |-> Metrics(rs, Group(rs, s))]
           m == Metrics(rs, DOMAIN rs)
           wrong == Metrics(Decided(rs, FALSE), DOMAIN rs)
           right == Metrics(Decided(rs, TRUE), DOMAIN rs)
<1>1. Positions(rs, DOMAIN rs)
  BY DEF SummaryOK, Positions
<1>2. DOMAIN Decided(rs, FALSE) = DOMAIN rs /\ DOMAIN Decided(rs, TRUE) = DOMAIN rs
  BY DEF Decided
<1>3. Summarize(rs).aggregate = m /\ Summarize(rs).by_solution_model = b
  BY DEF Summarize, Group
<1>4. /\ Summarize(Decided(rs, FALSE)).aggregate = wrong
      /\ Summarize(Decided(rs, TRUE)).aggregate = right
  BY <1>2 DEF Summarize
<1>5. /\ Equal(m.accuracy, wrong.accuracy)
      /\ Equal(m.tpr, wrong.tpr) /\ Equal(m.tnr, wrong.tnr)
      /\ AtMost(wrong.macro_f1, m.macro_f1) /\ AtMost(m.macro_f1, right.macro_f1)
  BY <1>1, AggregateFair, Zenon
<1>6. ASSUME NEW f \in {"records", "correct", "inconclusive"}
      PROVE  Summarize(rs).aggregate[f] =
               MapThenSumSet(LAMBDA model : Summarize(rs).by_solution_model[model][f],
                             Sources(rs))
  <2> DEFINE S == Sources(rs)
             c == Summarize(rs).by_solution_model
             iter[s \in SUBSET S] ==
               IF s = {} THEN 0
               ELSE c[CHOOSE x \in s : TRUE][f] + iter[s \ {CHOOSE x \in s : TRUE}]
  <2>1. MapThenSumSet(LAMBDA model : Summarize(rs).by_solution_model[model][f], S) = iter[S]
    BY DEF MapThenSumSet, MapThenFoldSet
  <2>2. iter = Total(S, c, f)
    BY Zenon DEF Total, IsTotal
  <2> HIDE DEF iter, c
  <2>3. c = b
    BY <1>3 DEF c
  <2>4. m[f] = Total(S, b, f)[S]
    BY <1>1, MetricsAdd
  <2> HIDE DEF S, m, b
  <2>5. m[f] = iter[S]
    BY <2>2, <2>3, <2>4
  <2> QED
    BY <1>3, <2>1, <2>5, Zenon DEF S
<1> HIDE DEF m, wrong, right, b
<1>7. /\ Equal(Summarize(rs).aggregate.accuracy, wrong.accuracy)
      /\ Equal(Summarize(rs).aggregate.tpr, wrong.tpr)
      /\ Equal(Summarize(rs).aggregate.tnr, wrong.tnr)
      /\ AtMost(wrong.macro_f1, Summarize(rs).aggregate.macro_f1)
      /\ AtMost(Summarize(rs).aggregate.macro_f1, right.macro_f1)
  BY <1>3, <1>5
<1> QED
  BY <1>4, <1>6, <1>7, Zenon DEF InconclusiveIsIncorrect

(* InconclusiveIsIncorrect of every summary.json that is written: in the   *)
(* metrics of _summarize an inconclusive verdict is not left out, and is   *)
(* never worth less than a wrong verdict nor more than a right one; the    *)
(* metrics of the models add up to those of all records.                   *)
THEOREM InconclusiveCounts == Spec => []InconclusiveIsIncorrect
<1>1. IInv => InconclusiveIsIncorrect
  BY FairlyScored DEF IInv, Shared
<1> QED
  BY <1>1, Invariant, PTL

----------------------------------------------------------------------------
(***************************************************************************)
(* The ledger of the meta-evaluation keeps the promise of the result       *)
(* store (module Ledger), although it shares no code with it.              *)
(***************************************************************************)
(* A file that was opened and got no line has no header: it is refused by  *)
(* every later command, like one with a line that does not parse.          *)
Parses(l) == l.file \notin {"empty", "broken"}

Promise ==
  INSTANCE Ledger WITH
    committed <- IF Parses(ledger) THEN Len(ledger.records) ELSE 0,
    sound <- Parses(ledger)

(* Who holds the lock has read the file, or is the first to write to it.   *)
HeldHasLines == ledger.lock # None => ledger.file # "empty"

(* Only an append changes what is in the file.                             *)
LEMMA FileKept ==
  ASSUME IInv, [Next]_vars,
         ~ \E p \in Commands : Judge(p) \/ StopInAppend(p)
  PROVE  /\ ledger'.file = ledger.file /\ ledger'.records = ledger.records
         /\ \/ ledger'.lock \in {ledger.lock, None}
            \/ ledger.file # "empty"
<1>1. ledger \in Ledger
  BY DEF IInv, Shared, LedgerOK
<1>2. CASE ledger' = ledger
  BY <1>2
<1>3. CASE ledger' = Unlocked(ledger)
  BY <1>1, <1>3 DEF Unlocked, Ledger
<1>4. ASSUME NEW p \in Commands, Lock(p)
      PROVE  /\ ledger'.file = ledger.file /\ ledger'.records = ledger.records
             /\ ledger.file # "empty"
  BY <1>1, <1>4 DEF Lock, Ledger, Readable
<1>5. ASSUME NEW p \in Commands,
             \/ ReadPlanFails(p) \/ Decline(p) \/ PreflightFails(p)
             \/ ManifestDiffers(p) \/ LockFails(p) \/ RowFails(p)
             \/ SummaryFails(p) \/ Stop(p) \/ Finish(p)
      PROVE  ledger' = ledger \/ ledger' = Unlocked(ledger)
  BY <1>5 DEF ReadPlanFails, Decline, PreflightFails, ManifestDiffers, LockFails,
     RowFails, SummaryFails, Stop, Finish, Exit
<1>6. ASSUME NEW p \in Commands,
             \/ Start(p) \/ Find(p) \/ ReadPlan(p) \/ AlreadyComplete(p)
             \/ Preflight(p) \/ ManifestEqual(p) \/ ManifestMissing(p)
             \/ WriteManifest(p) \/ ReadSummary(p) \/ WriteSummary(p)
      PROVE  ledger' = ledger
  BY <1>6 DEF Start, Find, ReadPlan, AlreadyComplete, Preflight, ManifestEqual,
     ManifestMissing, WriteManifest, ReadSummary, WriteSummary
<1>7. CASE UNCHANGED vars
  BY <1>2, <1>7 DEF vars
<1>8. CASE Next
  <2>1. PICK p \in Commands :
          \/ Start(p) \/ Find(p) \/ ReadPlan(p) \/ ReadPlanFails(p)
          \/ Decline(p) \/ AlreadyComplete(p) \/ Preflight(p) \/ PreflightFails(p)
          \/ ManifestEqual(p) \/ ManifestDiffers(p) \/ ManifestMissing(p)
          \/ WriteManifest(p) \/ Lock(p) \/ LockFails(p)
          \/ RowFails(p) \/ Finish(p)
          \/ ReadSummary(p) \/ SummaryFails(p) \/ WriteSummary(p)
          \/ Stop(p)
    BY <1>8, Zenon DEF Next
  <2>2. ledger' = ledger \/ ledger' = Unlocked(ledger) \/ Lock(p)
    BY <1>5, <1>6, <2>1
  <2> QED
    BY <1>2, <1>3, <1>4, <2>2
<1> QED
  BY <1>7, <1>8

(* What an append does to a ledger.  The next record is added, or the file *)
(* is damaged, or it gets a header, or it was damaged already.             *)
Extends(l, k) ==
  \/ Parses(l) /\ Parses(k) /\ k.records = l.records
  \/ /\ Parses(l) /\ Parses(k)
     /\ Len(k.records) = Len(l.records) + 1 /\ Len(l.records) < Size
  \/ ~Parses(k)

LEMMA AppendExtends ==
  ASSUME NEW l, LedgerOK(l), l.file # "empty", NEW r \in Record,
         r.row = Len(l.records) + 1,
         NEW k, k = Appended(l, Identity, r) \/ k \in Torn(l, Identity, r)
  PROVE  /\ Extends(l, k) /\ (~Parses(l) => ~Parses(k))
         /\ k = Appended(l, Identity, r) => k.file # "empty"
<1> USE MuMathAssumption
<1>1. /\ l \in Ledger /\ l.records \in Seq(Record) /\ Len(l.records) \in Nat
      /\ Len(l.records) < Size
  <2>1. Len(l.records) \in Nat /\ l.records \in Seq(Record) /\ l \in Ledger
    BY LedgerFacts DEF LedgerOK
  <2>2. r.row \in 1 .. Size
    BY DEF Record, Row
  <2> QED
    BY <2>1, <2>2
<1> DEFINE a == Appended(l, Identity, r)
<1>2. /\ LedgerOK(a) /\ a.records = Append(l.records, r)
      /\ Len(a.records) = Len(l.records) + 1
  BY <1>1, Adds
<1>3. /\ a.file = IF l.file \in {"bare", "broken"} THEN "broken" ELSE "whole"
  BY <1>1 DEF Appended, Ledger
<1>4. a = Appended(l, Identity, r)
  OBVIOUS
<1> HIDE DEF a
<1>5. a \in Ledger
  BY <1>2 DEF LedgerOK
<1>6. CASE k = a
  BY <1>1, <1>2, <1>3, <1>6 DEF Extends, Parses
<1>7. ASSUME k \in Torn(l, Identity, r)
      PROVE  Extends(l, k) /\ (~Parses(l) => ~Parses(k))
  <2>1. CASE \E f \in {"broken", "empty"} : k = [l EXCEPT !.file = f]
    <3>1. k.file \in {"broken", "empty"}
      BY <1>1, <2>1 DEF Ledger
    <3> QED
      BY <3>1 DEF Extends, Parses
  <2>2. CASE k = [a EXCEPT !.file = "bare"] /\ l.file \notin {"bare", "broken"}
    <3>1. k.file = "bare" /\ k.records = a.records
      BY <1>5, <2>2 DEF Ledger
    <3> QED
      BY <1>1, <1>2, <2>2, <3>1 DEF Extends, Parses
  <2>3. CASE /\ \E f \in {"whole", "bare"} :
                  k = [l EXCEPT !.header = Identity, !.file = f]
             /\ l.file \notin {"bare", "broken"}
    <3>1. k.file \in {"whole", "bare"} /\ k.records = l.records
      BY <1>1, <2>3 DEF Ledger
    <3> QED
      BY <2>3, <3>1 DEF Extends, Parses
  <2> QED
    BY <1>4, <1>7, <2>1, <2>2, <2>3 DEF Torn
<1>8. k = a => k.file # "empty"
  BY <1>3
<1> QED
  BY <1>4, <1>6, <1>7, <1>8

(* The append of a command: ledger' is k, or k with the lock released.     *)
LEMMA StepExtends ==
  ASSUME IInv, HeldHasLines, NEW p \in Commands, Judge(p) \/ StopInAppend(p)
  PROVE  Extends(ledger, ledger') /\ (~Parses(ledger) => ~Parses(ledger'))
         /\ HeldHasLines'
<1>1. /\ cmd[p].pc = "running" /\ CommandOK(manifest, ledger, p, cmd[p])
      /\ LedgerOK(ledger)
  BY CommandFacts DEF Judge, StopInAppend, At
<1>2. ledger.lock = p /\ p # None /\ FingerprintOf(p) = Identity
  BY <1>1, OneFingerprint, MuMathAssumption DEF CommandOK
<1>3. ledger.file # "empty"
  BY <1>2 DEF HeldHasLines
<1>4. CASE Judge(p)
  <2>1. PICK i \in cmd[p].todo : \E r \in Scored(i) :
          IsNext(p, i) /\ ledger' = Appended(ledger, Identity, r)
    BY <1>2, <1>4 DEF Judge
  <2>2. PICK r \in Scored(i) :
          IsNext(p, i) /\ ledger' = Appended(ledger, Identity, r)
    BY <2>1
  <2>3. r \in Record /\ r.row = Len(ledger.records) + 1
    BY <1>4, <2>2, NextRow DEF Judge
  <2> QED
    BY <1>1, <1>3, <2>2, <2>3, AppendExtends DEF HeldHasLines
<1>5. CASE StopInAppend(p)
  <2>1. PICK i \in cmd[p].todo : \E r \in Scored(i) :
          /\ IsNext(p, i)
          /\ \E k \in Torn(ledger, Identity, r) : ledger' = Unlocked(k)
    BY <1>2, <1>5 DEF StopInAppend
  <2>2. PICK r \in Scored(i) :
          /\ IsNext(p, i)
          /\ \E k \in Torn(ledger, Identity, r) : ledger' = Unlocked(k)
    BY <2>1
  <2>3. PICK k \in Torn(ledger, Identity, r) : ledger' = Unlocked(k)
    BY <2>2
  <2>4. r \in Record /\ r.row = Len(ledger.records) + 1
    BY <1>5, <2>2, NextRow DEF StopInAppend
  <2>5. Extends(ledger, k) /\ (~Parses(ledger) => ~Parses(k)) /\ k \in Ledger
    BY <1>1, <1>3, <2>4, AppendExtends, TornKeeps DEF LedgerOK
  <2>6. ledger'.file = k.file /\ ledger'.records = k.records /\ ledger'.lock = None
    BY <2>3, <2>5 DEF Unlocked, Ledger
  <2> QED
    BY <2>5, <2>6 DEF Extends, Parses, HeldHasLines
<1> QED
  BY <1>4, <1>5

LEMMA HeldKept ==
  ASSUME IInv, HeldHasLines, [Next]_vars
  PROVE  HeldHasLines'
<1>1. CASE \E p \in Commands : Judge(p) \/ StopInAppend(p)
  BY <1>1, StepExtends
<1>2. CASE ~ \E p \in Commands : Judge(p) \/ StopInAppend(p)
  BY <1>2, FileKept DEF HeldHasLines
<1> QED
  BY <1>1, <1>2

(* The verdicts of the meta-evaluation are resumed record by record, like  *)
(* the samples of a cell: a step of any command, of whatever version,      *)
(* commits the next row, or damages the file for good, or does neither.    *)
THEOREM Implementation == Spec => Promise!Spec
<1> DEFINE held == IF Parses(ledger) THEN Len(ledger.records) ELSE 0
<1>1. Init => Promise!Init
  <2> SUFFICES ASSUME Init PROVE held = 0 /\ Parses(ledger) = TRUE
    BY DEF Promise!Init
  <2>1. ledger.file = "none" /\ ledger.records = <<>>
    BY DEF Init, NoLedger
  <2> QED
    BY <2>1 DEF Parses
<1>2. Init => HeldHasLines
  BY DEF Init, NoLedger, HeldHasLines
<1>3. ASSUME IInv, HeldHasLines, [Next]_vars
      PROVE  [Promise!Next]_Promise!vars
  <2>1. CASE ~ \E p \in Commands : Judge(p) \/ StopInAppend(p)
    <3>1. ledger'.file = ledger.file /\ ledger'.records = ledger.records
      BY <1>3, <2>1, FileKept
    <3> QED
      BY <3>1 DEF Promise!vars, Parses
  <2>2. CASE \E p \in Commands : Judge(p) \/ StopInAppend(p)
    <3>1. Extends(ledger, ledger') /\ (~Parses(ledger) => ~Parses(ledger'))
      BY <1>3, <2>2, StepExtends
    <3>2. Parses(ledger) \in BOOLEAN /\ Parses(ledger') \in BOOLEAN
      BY DEF Parses
    <3>3. CASE ~Parses(ledger')
      <4>1. Parses(ledger') = FALSE /\ held' = 0
        BY <3>2, <3>3
      <4>2. CASE Parses(ledger)
        <5>1. Parses(ledger) = TRUE
          BY <3>2, <4>2
        <5> QED
          BY <4>1, <5>1 DEF Promise!Next, Promise!Damage, held
      <4>3. CASE ~Parses(ledger)
        <5>1. Parses(ledger) = FALSE /\ held = 0
          BY <3>2, <4>3
        <5> QED
          BY <4>1, <5>1 DEF Promise!vars, held
      <4> QED
        BY <4>2, <4>3
    <3>4. CASE Parses(ledger')
      <4>1. Parses(ledger) = TRUE /\ Parses(ledger') = TRUE
        BY <3>1, <3>2, <3>4
      <4>2. held = Len(ledger.records) /\ held' = Len(ledger'.records)
        BY <4>1
      <4>3. held' = held \/ (held' = held + 1 /\ held < Size)
        BY <3>1, <3>4, <4>2 DEF Extends
      <4> QED
        BY <4>1, <4>3 DEF Promise!Next, Promise!Commit, Promise!vars, held
    <3> QED
      BY <3>3, <3>4
  <2> QED
    BY <2>1, <2>2
<1>4. IInv /\ HeldHasLines /\ [Next]_vars => HeldHasLines'
  BY HeldKept
<1> QED
  BY <1>1, <1>2, <1>3, <1>4, Invariant, PTL DEF Spec, Promise!Spec

(***************************************************************************)
(* A command ends, and what may end it early                               *)
(***************************************************************************)
(* p has a step to make that is not a failure.                             *)
GoesOn(p) ==
  \/ cmd[p].pc \in {"finding", "asking", "writing", "reporting"}
  \/ cmd[p].pc \in {"reading", "summing"} /\ Readable(ledger, FingerprintOf(p))
  \/ At(p, "ensuring") /\ manifest \in {None, cmd[p].config}
  \/ At(p, "locking") /\ ledger.lock = None /\ Readable(ledger, FingerprintOf(p))
  \/ At(p, "running") /\ (cmd[p].todo = {} \/ \E i \in Row : IsNext(p, i))

(* An append was cut short in the ledger.                                  *)
MeetsDamage(p) ==
  /\ cmd[p].pc \in {"reading", "locking", "summing"}
  /\ ledger.file \in {"empty", "broken"}

(* Another command runs.                                                   *)
MeetsLock(p) == At(p, "locking") /\ ledger.lock \in Commands \ {p}

(* Another version has written the manifest since p looked for one.        *)
MeetsManifest(p) ==
  /\ At(p, "ensuring")
  /\ manifest # None
  /\ manifest.version # cmd[p].config.version

Unhindered ==
  \A p \in Commands :
    At(p, "idle") \/ GoesOn(p) \/ MeetsDamage(p) \/ MeetsLock(p) \/ MeetsManifest(p)

(* The rows that a command has judged and has still to judge are no more   *)
(* than those of the plan that was confirmed.                              *)
Within(m) ==
  m.pc \in {"running", "summing", "reporting"} =>
    Len(m.new) + Cardinality(m.todo) <= m.target

PlanKept == \A p \in Commands : Within(cmd[p])

(* What is left of a command.                                              *)
Remaining(m) ==
  CASE m.pc = "finding"   -> Size + 9
    [] m.pc = "reading"   -> Size + 8
    [] m.pc = "asking"    -> m.target + 7
    [] m.pc = "ensuring"  -> m.target + 6
    [] m.pc = "writing"   -> m.target + 5
    [] m.pc = "locking"   -> m.target + 4
    [] m.pc = "running"   -> Cardinality(m.todo) + 3
    [] m.pc = "summing"   -> 2
    [] m.pc = "reporting" -> 1
    [] OTHER              -> 0

----------------------------------------------------------------------------
(* A command always has a step to make that is not a failure, unless an    *)
(* append to the ledger was cut short, or another command runs, or one of  *)
(* another version claimed the directory in the meantime.  In particular   *)
(* no ledger is refused for its header, or for a row that occurs twice.    *)
THEOREM NeverHindered == Spec => []Unhindered
<1> USE MuMathAssumption
<1>1. ASSUME IInv, NEW p \in Commands, ~At(p, "idle")
      PROVE  GoesOn(p) \/ MeetsDamage(p) \/ MeetsLock(p) \/ MeetsManifest(p)
  <2> DEFINE m == cmd[p]
  <2>1. m.pc \in Pc \ {"idle"} /\ CommandOK(manifest, ledger, p, m) /\ LedgerOK(ledger)
    BY <1>1, CommandFacts DEF Command, At
  <2>2. ASSUME m.pc # "finding", ledger.file \notin {"empty", "broken"}
        PROVE  Readable(ledger, FingerprintOf(p))
    <3>1. FingerprintOf(p) = Identity
      BY <1>1, <2>2, OneFingerprint DEF At
    <3>2. /\ ledger.file \in {"none", "whole", "bare"}
          /\ ledger.file # "none" => ledger.header = Identity
          /\ \A j, k \in DOMAIN ledger.records :
               ledger.records[j].row = ledger.records[k].row => j = k
      BY <2>1, <2>2 DEF LedgerOK, Ledger
    <3> QED
      BY <3>1, <3>2 DEF Readable
  <2>3. CASE m.pc \in {"reading", "summing"}
    BY <2>2, <2>3 DEF GoesOn, MeetsDamage, At
  <2>4. CASE m.pc = "locking"
    <3>1. ledger.lock \in Commands \cup {None} /\ ledger.lock # p
      BY <2>1, <2>4 DEF LedgerOK, Ledger, CommandOK
    <3> QED
      BY <2>2, <2>4, <3>1 DEF GoesOn, MeetsDamage, MeetsLock, At
  <2>5. CASE m.pc = "ensuring"
    <3>1. /\ manifest \in Manifest \cup {None} /\ m.config \in Manifest
      BY <1>1, <2>5, OneFingerprint, CommandFacts
    <3>2. ASSUME manifest # None, manifest.version = m.config.version
          PROVE  manifest = m.config
      BY <3>1, <3>2 DEF Manifest, Fingerprint
    <3> QED
      BY <2>5, <3>2 DEF GoesOn, MeetsManifest, At
  <2>6. CASE m.pc = "running"
    <3> DEFINE n == Len(ledger.records)
    <3>1. PICK g \in 0 .. Size : m.todo = Between(n, g)
      BY <2>1, <2>6 DEF CommandOK, RunningOK
    <3>2. n \in 0 .. Size
      BY <2>1, LedgerFacts
    <3> HIDE DEF n
    <3>3. ASSUME NEW i \in m.todo PROVE IsNext(p, n + 1) /\ n + 1 \in Row
      <4>1. i \in Row /\ n < i /\ i <= g
        BY <3>1 DEF Between
      <4>2. n + 1 \in Row /\ n < n + 1 /\ n + 1 <= g
        BY <3>2, <4>1 DEF Row
      <4>3. n + 1 \in m.todo /\ \A j \in m.todo : n + 1 <= j
        BY <3>1, <3>2, <4>2 DEF Between, Row
      <4> QED
        BY <4>2, <4>3 DEF IsNext
    <3> QED
      BY <2>6, <3>3 DEF GoesOn, At
  <2> QED
    BY <2>1, <2>3, <2>4, <2>5, <2>6 DEF Pc, GoesOn
<1>2. IInv => Unhindered
  BY <1>1 DEF Unhindered
<1> QED
  BY <1>2, Invariant, PTL

StepOf(p) ==
  \/ Start(p) \/ Find(p) \/ ReadPlan(p) \/ ReadPlanFails(p)
  \/ Decline(p) \/ AlreadyComplete(p) \/ Preflight(p) \/ PreflightFails(p)
  \/ ManifestEqual(p) \/ ManifestDiffers(p) \/ ManifestMissing(p)
  \/ WriteManifest(p) \/ Lock(p) \/ LockFails(p)
  \/ Judge(p) \/ RowFails(p) \/ Finish(p)
  \/ ReadSummary(p) \/ SummaryFails(p) \/ WriteSummary(p)
  \/ Stop(p) \/ StopInAppend(p)

Planning == {<<"asking", "ensuring">>, <<"ensuring", "writing">>,
             <<"ensuring", "locking">>, <<"writing", "locking">>}

(* From m to n, as far as work is concerned.                               *)
Moved(m, n) ==
  \/ m.pc = "idle" /\ n.pc = "finding"
  \/ m.pc # "idle" /\ n.pc = "idle"
  \/ m.pc = "finding" /\ n.pc = "reading"
  \/ m.pc = "reading" /\ n.pc = "asking" /\ n.target \in 0 .. Size
  \/ <<m.pc, n.pc>> \in Planning /\ n.target = m.target
  \/ /\ m.pc = "locking" /\ n.pc = "running" /\ n.target = m.target
     /\ n.new = <<>> /\ Cardinality(n.todo) \in 0 .. m.target
  \/ /\ m.pc = "running" /\ n.pc = "running" /\ n.target = m.target
     /\ Len(n.new) = Len(m.new) + 1
     /\ Cardinality(m.todo) = Cardinality(n.todo) + 1
     /\ Cardinality(n.todo) \in Nat
  \/ /\ <<m.pc, n.pc>> \in {<<"running", "summing">>, <<"summing", "reporting">>}
     /\ n.target = m.target /\ n.new = m.new /\ n.todo = m.todo

LEMMA SelectedAtMost ==
  ASSUME IInv, NEW p \in Commands
  PROVE  Cardinality(Selection(p)) \in 0 .. cmd[p].target
<1> DEFINE n == Len(ledger.records)
           t == cmd[p].target
           I == n + 1 .. n + t
<1>1. n \in Nat /\ t \in Nat /\ Selection(p) = Between(n, n + t)
  BY MuMathAssumption, CommandFacts, Selected
<1> HIDE DEF n, t
<1>2. IsFiniteSet(I) /\ Cardinality(I) = t
  <2>1. n + 1 \in Int /\ n + t \in Int
    BY <1>1
  <2>2. IsFiniteSet(n + 1 .. n + t)
    BY <2>1, FS_Interval, Zenon
  <2>3. Cardinality(n + 1 .. n + t) = t
    <3>1. n + t \in Nat
      BY <1>1
    <3>2. Cardinality(n + 1 .. n + t) = IF n < n + t THEN n + t - n ELSE 0
      BY <1>1, <3>1, IntervalSize
    <3> QED
      BY <1>1, <3>2
  <2> QED
    BY <1>1, <2>2, <2>3
<1>3. Selection(p) \subseteq I
  BY <1>1 DEF Between, Row
<1>4. /\ IsFiniteSet(Selection(p)) /\ Cardinality(Selection(p)) <= Cardinality(I)
  BY <1>2, <1>3, FS_Subset
<1>5. Cardinality(Selection(p)) \in Nat
  BY <1>4, FS_CardinalityType
<1> QED
  BY <1>1, <1>2, <1>4, <1>5 DEF t

LEMMA StepMoves ==
  ASSUME IInv, NEW p \in Commands, StepOf(p)
  PROVE  /\ Moved(cmd[p], cmd'[p])
         /\ \A q \in Commands \ {p} : cmd'[q] = cmd[q]
<1> USE MuMathAssumption
<1> DEFINE m == cmd[p]
           n == cmd'[p]
<1>1. /\ cmd \in [Commands -> Command] /\ m \in Command
      /\ m.target \in 0 .. Size /\ m.new \in Seq(Record) /\ m.todo \in SUBSET Row
  BY CommandFacts DEF Command
<1>2. \A q \in Commands \ {p} : cmd'[q] = cmd[q]
  <2>1. \E c : cmd' = [cmd EXCEPT ![p] = c]
    BY DEF StepOf, Start, Find, ReadPlan, ReadPlanFails, Decline, AlreadyComplete, Preflight,
       PreflightFails, ManifestEqual, ManifestDiffers, ManifestMissing, WriteManifest, Lock,
       LockFails, Judge, RowFails, Finish, ReadSummary, SummaryFails, WriteSummary, Stop,
       StopInAppend, GoTo, Exit, Succeed
  <2> QED
    BY <1>1, <2>1
<1>3. CASE Start(p)
  BY <1>1, <1>2, <1>3 DEF Start, At, Moved, Idle
<1>4. CASE \/ ReadPlanFails(p) \/ Decline(p) \/ PreflightFails(p) \/ ManifestDiffers(p)
           \/ LockFails(p) \/ RowFails(p) \/ SummaryFails(p) \/ Stop(p) \/ StopInAppend(p)
           \/ AlreadyComplete(p) \/ WriteSummary(p)
  <2>1. m.pc # "idle"
    BY <1>4 DEF ReadPlanFails, Decline, PreflightFails, ManifestDiffers, LockFails, RowFails,
       SummaryFails, Stop, StopInAppend, AlreadyComplete, WriteSummary, At
  <2>2. n.pc = "idle"
    <3>1. \A code : [Idle EXCEPT !.exit = code].pc = "idle"
      BY DEF Idle
    <3>2. ASSUME Succeed(p) PROVE n.pc = "idle"
      BY <1>1, <3>2 DEF Succeed, Idle
    <3>3. ASSUME NEW code, cmd' = [cmd EXCEPT ![p] = [Idle EXCEPT !.exit = code]]
          PROVE  n.pc = "idle"
      BY <1>1, <3>1, <3>3
    <3>4. \/ Succeed(p)
          \/ \E code : cmd' = [cmd EXCEPT ![p] = [Idle EXCEPT !.exit = code]]
      BY <1>4, Zenon
         DEF ReadPlanFails, Decline, PreflightFails, ManifestDiffers, LockFails, RowFails,
         SummaryFails, Stop, StopInAppend, AlreadyComplete, WriteSummary, Exit
    <3> QED
      BY <3>2, <3>3, <3>4
  <2> QED
    BY <1>2, <2>1, <2>2 DEF Moved
<1>5. CASE Find(p)
  BY <1>1, <1>2, <1>5 DEF Find, At, Moved, Command
<1>6. CASE ReadPlan(p)
  <2> DEFINE b == Cardinality(Completed)
             t == Lesser(m.batch, Size - b)
  <2>1. m.pc = "reading" /\ n.pc = "asking" /\ n.target = t
    BY <1>1, <1>6 DEF ReadPlan, At, Command
  <2>2. t \in 0 .. Size
    <3>1. Completed = 1 .. Len(ledger.records) /\ Len(ledger.records) \in 0 .. Size
      BY CommandFacts, LedgerFacts DEF Completed
    <3>2. b \in 0 .. Size
      <4>1. Cardinality(0 + 1 .. Len(ledger.records)) = Len(ledger.records)
        BY <3>1, IntervalSize
      <4> QED
        BY <3>1, <4>1
    <3>3. m.batch \in Nat
      BY <1>1 DEF Command
    <3> HIDE DEF b
    <3> QED
      BY <3>2, <3>3 DEF Lesser
  <2> QED
    BY <1>2, <2>1, <2>2 DEF Moved
<1>7. CASE \/ Preflight(p) \/ ManifestEqual(p) \/ ManifestMissing(p) \/ WriteManifest(p)
  <2>1. <<m.pc, n.pc>> \in Planning /\ n.target = m.target
    BY <1>1, <1>7
       DEF Preflight, ManifestEqual, ManifestMissing, WriteManifest, At, GoTo, Planning, Command
  <2> QED
    BY <1>2, <2>1 DEF Moved
<1>8. CASE Lock(p)
  <2>1. /\ m.pc = "locking" /\ n.pc = "running" /\ n.target = m.target
        /\ n.new = m.new /\ n.todo = Selection(p)
    BY <1>1, <1>8 DEF Lock, At, Command
  <2>2. m.new = <<>>
    BY <2>1, CommandFacts DEF CommandOK
  <2> QED
    BY <1>2, <2>1, <2>2, SelectedAtMost DEF Moved
<1>9. CASE Judge(p)
  <2>1. PICK i \in m.todo : \E r \in Scored(i) :
          cmd' = [cmd EXCEPT ![p].todo = @ \ {i}, ![p].new = Append(@, r)]
    BY <1>9 DEF Judge
  <2>2. PICK r \in Scored(i) : n = Judged(m, i, r)
    BY <1>1, <2>1 DEF Judged
  <2>3. i \in Row /\ r \in Record
    BY <1>1 DEF Scored, Record
  <2>4. /\ n.pc = m.pc /\ n.target = m.target /\ n.todo = m.todo \ {i}
        /\ n.new = Append(m.new, r) /\ m.pc = "running"
    <3>1. m.pc = "running"
      BY <1>9 DEF Judge, At
    <3> QED
      BY <1>1, <2>2, <2>3, <3>1, JudgedKept
  <2>5. /\ Cardinality(m.todo) = Cardinality(n.todo) + 1 /\ Cardinality(n.todo) \in Nat
    <3>1. IsFiniteSet(Row)
      BY FS_Interval DEF Row
    <3>2. IsFiniteSet(m.todo)
      BY <1>1, <3>1, FS_Subset
    <3>3. Cardinality(m.todo \ {i}) = Cardinality(m.todo) - 1 /\ IsFiniteSet(m.todo \ {i})
      BY <3>2, FS_RemoveElement
    <3> QED
      BY <2>4, <3>2, <3>3, FS_CardinalityType
  <2>6. Len(n.new) = Len(m.new) + 1
    BY <1>1, <2>3, <2>4
  <2> QED
    BY <1>2, <2>4, <2>5, <2>6 DEF Moved
<1>10. CASE Finish(p) \/ ReadSummary(p)
  <2>1. /\ <<m.pc, n.pc>> \in {<<"running", "summing">>, <<"summing", "reporting">>}
        /\ n.target = m.target /\ n.new = m.new /\ n.todo = m.todo
    BY <1>1, <1>10 DEF Finish, ReadSummary, At, GoTo, Command
  <2> QED
    BY <1>2, <2>1 DEF Moved
<1>11. Moved(m, n)
  BY <1>3, <1>4, <1>5, <1>6, <1>7, <1>8, <1>9, <1>10 DEF StepOf
<1> QED
  BY <1>2, <1>11

LEMMA MovedWithin ==
  ASSUME NEW m \in Command, NEW n, Moved(m, n), Within(m)
  PROVE  Within(n)
<1>1. Len(m.new) \in Nat /\ m.target \in Nat
  BY MuMathAssumption DEF Command
<1>2. CASE m.pc = "locking" /\ n.pc = "running"
  BY <1>1, <1>2 DEF Moved, Within, Planning
<1>3. CASE m.pc = "running" /\ n.pc = "running"
  BY <1>1, <1>3 DEF Moved, Within, Planning
<1>4. CASE n.pc \in {"summing", "reporting"}
  BY <1>1, <1>4 DEF Moved, Within, Planning
<1>5. CASE n.pc \notin {"running", "summing", "reporting"}
  BY <1>5 DEF Within
<1> QED
  BY <1>2, <1>3, <1>4, <1>5 DEF Moved, Planning

(* No command judges, or pays for, more rows than the plan that its user   *)
(* confirmed, although it selects its rows only when it has the lock, from *)
(* a ledger to which others may have added in the meantime.                *)
THEOREM NoMoreThanConfirmed == Spec => []PlanKept
<1>1. Init => PlanKept
  BY DEF Init, PlanKept, Within, Idle
<1>2. IInv /\ PlanKept /\ [Next]_vars => PlanKept'
  <2> SUFFICES ASSUME IInv, PlanKept, [Next]_vars, NEW q \in Commands
               PROVE  Within(cmd'[q])
    BY DEF PlanKept
  <2>1. Within(cmd[q]) /\ cmd[q] \in Command
    BY CommandFacts DEF PlanKept
  <2>2. CASE UNCHANGED vars
    BY <2>1, <2>2 DEF vars
  <2>3. CASE Next
    <3>1. PICK p \in Commands : StepOf(p)
      BY <2>3, Zenon DEF Next, StepOf
    <3> QED
      BY <2>1, <3>1, StepMoves, MovedWithin
  <2> QED
    BY <2>2, <2>3
<1> QED
  BY <1>1, <1>2, Invariant, PTL DEF Spec

LEMMA MovedLess ==
  ASSUME NEW m \in Command, NEW n, Moved(m, n), m.pc # "idle"
  PROVE  Remaining(n) < Remaining(m)
<1>1. Size \in Nat /\ m.target \in 0 .. Size /\ m.pc \in Pc
  BY MuMathAssumption DEF Command
<1>2. IsFiniteSet(m.todo) /\ Cardinality(m.todo) \in Nat
  <2>1. IsFiniteSet(Row) /\ m.todo \subseteq Row
    BY MuMathAssumption, FS_Interval DEF Row, Command
  <2> QED
    BY <2>1, FS_Subset, FS_CardinalityType
<1>3. CASE n.pc = "idle"
  <2>1. Remaining(n) = 0
    BY <1>3 DEF Remaining
  <2>2. Remaining(m) > 0
    BY <1>1, <1>2 DEF Remaining, Pc
  <2> QED
    BY <2>1, <2>2
<1>4. CASE m.pc = "finding" /\ n.pc = "reading"
  BY <1>1, <1>4 DEF Remaining
<1>5. CASE m.pc = "reading" /\ n.pc = "asking" /\ n.target \in 0 .. Size
  BY <1>1, <1>5 DEF Remaining
<1>6. CASE <<m.pc, n.pc>> \in Planning /\ n.target = m.target
  BY <1>1, <1>6 DEF Remaining, Planning
<1>7. CASE /\ m.pc = "locking" /\ n.pc = "running"
           /\ Cardinality(n.todo) \in 0 .. m.target
  BY <1>1, <1>7 DEF Remaining
<1>8. CASE /\ m.pc = "running" /\ n.pc = "running"
           /\ Cardinality(m.todo) = Cardinality(n.todo) + 1
           /\ Cardinality(n.todo) \in Nat
  BY <1>8 DEF Remaining
<1>9. CASE <<m.pc, n.pc>> \in {<<"running", "summing">>, <<"summing", "reporting">>}
  BY <1>2, <1>9 DEF Remaining
<1> QED
  BY <1>3, <1>4, <1>5, <1>6, <1>7, <1>8, <1>9 DEF Moved

(* Every step is a step of some command.  Whichever command makes it has   *)
(* less to do afterwards, unless the step is its start, and all others     *)
(* have as much to do as before.                                           *)
LeavesLess ==
  /\ \E p \in Commands : StepOf(p)
  /\ \A p \in Commands :
       StepOf(p) =>
         /\ At(p, "idle") \/ Remaining(cmd'[p]) < Remaining(cmd[p])
         /\ \A q \in Commands \ {p} : Remaining(cmd'[q]) = Remaining(cmd[q])

(* No command runs forever, whatever others do: from its start it makes at *)
(* most Size + 9 steps of its own, and by NeverHindered none of them waits *)
(* for another command.                                                    *)
THEOREM NoCircles == Spec => [][LeavesLess]_vars
<1>1. ASSUME IInv, Next PROVE LeavesLess
  <2>1. \E p \in Commands : StepOf(p)
    BY <1>1, Zenon DEF Next, StepOf
  <2>2. ASSUME NEW p \in Commands, StepOf(p)
        PROVE  /\ At(p, "idle") \/ Remaining(cmd'[p]) < Remaining(cmd[p])
               /\ \A q \in Commands \ {p} : Remaining(cmd'[q]) = Remaining(cmd[q])
    <3>1. cmd[p] \in Command /\ Moved(cmd[p], cmd'[p])
          /\ \A q \in Commands \ {p} : cmd'[q] = cmd[q]
      BY <1>1, <2>2, StepMoves, CommandFacts
    <3> QED
      BY <3>1, MovedLess DEF At
  <2> QED
    BY <2>1, <2>2, Zenon DEF LeavesLess
<1>2. IInv /\ [Next]_vars => [LeavesLess]_vars
  BY <1>1
<1> QED
  BY <1>2, Invariant, PTL DEF Spec

(* The bound on the steps that a command still makes.                      *)
THEOREM StepsBounded ==
  Spec => [](\A p \in Commands : Remaining(cmd[p]) \in 0 .. (Size + 9))
<1>1. ASSUME NEW m \in Command PROVE Remaining(m) \in 0 .. (Size + 9)
  <2>1. Size \in Nat /\ m.target \in 0 .. Size /\ m.pc \in Pc
    BY MuMathAssumption DEF Command
  <2>2. Cardinality(m.todo) \in 0 .. Size
    <3>1. /\ IsFiniteSet(Row) /\ m.todo \subseteq Row
          /\ Cardinality(Row) = Size
      <4>1. /\ IsFiniteSet(1 .. Size)
            /\ Cardinality(1 .. Size) = IF 1 > Size THEN 0 ELSE Size - 1 + 1
        BY <2>1, FS_Interval
      <4> QED
        BY <2>1, <4>1, MuMathAssumption DEF Row, Command
    <3>2. IsFiniteSet(m.todo) /\ Cardinality(m.todo) <= Size
      BY <3>1, FS_Subset
    <3> QED
      BY <2>1, <3>2, FS_CardinalityType
  <2> QED
    BY <2>1, <2>2 DEF Remaining, Pc
<1>2. IInv => \A p \in Commands : Remaining(cmd[p]) \in 0 .. (Size + 9)
  BY <1>1, CommandFacts
<1> QED
  BY <1>2, Invariant, PTL
=============================================================================
