----------------------------- MODULE CellProofs -----------------------------
(***************************************************************************)
(* The ledger of a cell stays in dataset order, without gaps and of one    *)
(* experiment, for any number of processes, problems, batch sizes and      *)
(* values of --concurrency, and through any failures.                      *)
(***************************************************************************)
EXTENDS CellProperties, OrderedPoolProofs

(***************************************************************************)
(* What one append, finished or not, can make of records.jsonl, for any    *)
(* file, experiment and problem                                            *)
(***************************************************************************)
(* Only a file with lines can lack its last newline.                       *)
WellEnded(f, E, P) ==
  /\ f \in Files(E, P)
  /\ f.end = "bare" => f.lines # <<>>

(* Writing at the end of a file whose last line has its newline is to      *)
(* append; otherwise the first line lands on the last and spoils it.       *)
LEMMA WriteFirst ==
  ASSUME NEW f, f.lines = <<>>, f.end # "bare", NEW a
  PROVE  WriteAtEnd(f, <<a>>) = <<a>>
BY DEF WriteAtEnd, Open

LEMMA WriteFirstTwo ==
  ASSUME NEW f, f.lines = <<>>, f.end # "bare", NEW a, NEW b
  PROVE  WriteAtEnd(f, <<a, b>>) = <<a, b>>
BY DEF WriteAtEnd, Open

LEMMA WriteNext ==
  ASSUME NEW f, NEW S, f.lines \in Seq(S), f.end # "bare", NEW a
  PROVE  WriteAtEnd(f, <<a>>) = Append(f.lines, a)
BY DEF WriteAtEnd, Open

LEMMA WriteGlued ==
  ASSUME NEW f, NEW S, f.lines \in Seq(S), f.end = "bare", f.lines # <<>>, NEW a
  PROVE  WriteAtEnd(f, <<a>>) = Glued(f)
<1>1. Glued(f) \in Seq(S \cup {Invalid})
  BY DEF Glued
<1>2. Tail(<<a>>) = <<>> /\ <<a>> # <<>>
  OBVIOUS
<1>3. Glued(f) \o <<>> = Glued(f)
  BY <1>1
<1>4. QED BY <1>2, <1>3 DEF WriteAtEnd, Open

LEMMA AppendedLines ==
  ASSUME NEW E, NEW P, NEW f, WellEnded(f, E, P), NEW e, NEW p, NEW g, g = Appended(f, e, p)
  PROVE  /\ g = [lines |-> g.lines, end |-> "newline"]
         /\ f.lines = <<>> => g.lines = <<Header(e), Sample(e, p)>>
         /\ f.lines # <<>> /\ f.end = "bare" =>
              g.lines = Glued(f)
         /\ f.lines # <<>> /\ f.end # "bare" =>
              g.lines = Append(f.lines, Sample(e, p))
<1>1. /\ g = [lines |-> g.lines, end |-> "newline"]
      /\ g.lines = WriteAtEnd(f, Chunk(f, e, p))
  BY DEF Appended
<1>2. ASSUME f.lines = <<>>
      PROVE  g.lines = <<Header(e), Sample(e, p)>>
  <2>1. Chunk(f, e, p) = <<Header(e), Sample(e, p)>>
    BY <1>2 DEF Chunk
  <2>2. WriteAtEnd(f, <<Header(e), Sample(e, p)>>) = <<Header(e), Sample(e, p)>>
    BY <1>2, WriteFirstTwo DEF WellEnded, Files
  <2>3. QED BY <1>1, <2>1, <2>2
<1>3. ASSUME f.lines # <<>>
      PROVE  g.lines = WriteAtEnd(f, <<Sample(e, p)>>)
  <2>1. Chunk(f, e, p) = <<Sample(e, p)>>
    BY <1>3 DEF Chunk
  <2>2. QED BY <1>1, <2>1
<1>4. f.lines \in Seq(Lines(E, P))
  BY DEF WellEnded, Files
<1>5. QED BY <1>1, <1>2, <1>3, <1>4, WriteNext, WriteGlued

LEMMA AppendOutcomes ==
  ASSUME NEW E, NEW P, NEW f, WellEnded(f, E, P), NEW e, NEW p,
         NEW g \in TornAppends(f, e, p) \cup {Appended(f, e, p)}
  PROVE  \/ g = f
         \/ /\ g = [lines |-> g.lines, end |-> g.end]
            /\ g.end \in {"newline", "bare"}
            /\ \/ /\ f.lines = <<>>
                  /\ g.lines \in {<<Header(e)>>, <<Header(e), Sample(e, p)>>,
                                  <<Invalid>>, <<Header(e), Invalid>>}
               \/ /\ f.lines # <<>>
                  /\ g.lines \in {Glued(f),
                                  Append(f.lines, Sample(e, p)),
                                  Append(f.lines, Invalid)}
<1>0. /\ f.lines \in Seq(Lines(E, P)) /\ f.end \in {"newline", "bare"}
      /\ f.end = "bare" => f.lines # <<>>
  BY DEF WellEnded, Files
<1>1. CASE g = f
  BY <1>1
<1>2. CASE g = Appended(f, e, p)
  <2>1. /\ g = [lines |-> g.lines, end |-> "newline"]
        /\ f.lines = <<>> => g.lines = <<Header(e), Sample(e, p)>>
        /\ f.lines # <<>> /\ f.end = "bare" =>
             g.lines = Glued(f)
        /\ f.lines # <<>> /\ f.end # "bare" =>
             g.lines = Append(f.lines, Sample(e, p))
    BY <1>2, AppendedLines
  <2>2. g = [lines |-> g.lines, end |-> g.end] /\ g.end \in {"newline", "bare"}
    BY <2>1
  <2>3. QED BY <2>1, <2>2, <1>0
<1>3. ASSUME NEW part \in Fragments(f, e, p), NEW h,
             h = [lines |-> WriteAtEnd(f, part.lines), end |-> part.end]
      PROVE  /\ h = [lines |-> h.lines, end |-> h.end]
             /\ h.end \in {"newline", "bare"}
             /\ \/ /\ f.lines = <<>>
                   /\ h.lines \in {<<Header(e)>>, <<Header(e), Sample(e, p)>>,
                                  <<Invalid>>, <<Header(e), Invalid>>}
                \/ /\ f.lines # <<>>
                   /\ h.lines \in {Glued(f),
                                  Append(f.lines, Sample(e, p)),
                                  Append(f.lines, Invalid)}
  <2>1. /\ h.lines = WriteAtEnd(f, part.lines) /\ h.end = part.end
        /\ h = [lines |-> h.lines, end |-> h.end]
    BY <1>3
  <2>2. CASE f.lines = <<>>
    <3>1. /\ part.end \in {"newline", "bare"}
          /\ \/ part.lines = <<Invalid>>
             \/ part.lines = <<Header(e)>>
             \/ part.lines = <<Header(e), Invalid>>
             \/ part.lines = <<Header(e), Sample(e, p)>>
      <4>1. \/ part = [lines |-> <<Invalid>>, end |-> "bare"]
            \/ part = [lines |-> <<Header(e)>>, end |-> "bare"]
            \/ part = [lines |-> <<Header(e)>>, end |-> "newline"]
            \/ part = [lines |-> <<Header(e), Invalid>>, end |-> "bare"]
            \/ part = [lines |-> <<Header(e), Sample(e, p)>>, end |-> "bare"]
        BY <2>2, Zenon DEF Fragments
      <4>2. QED BY <4>1
    <3>2. WriteAtEnd(f, part.lines) = part.lines
      BY <2>2, <3>1, <1>0, WriteFirst, WriteFirstTwo
    <3>3. QED BY <2>1, <2>2, <3>1, <3>2
  <2>3. CASE f.lines # <<>>
    <3>1. /\ part.end \in {"newline", "bare"}
          /\ part.lines = <<Invalid>> \/ part.lines = <<Sample(e, p)>>
      <4>1. \/ part = [lines |-> <<Invalid>>, end |-> "bare"]
            \/ part = [lines |-> <<Sample(e, p)>>, end |-> "bare"]
        BY <2>3, Zenon DEF Fragments
      <4>2. QED BY <4>1
    <3>2. WriteAtEnd(f, part.lines)
            \in {Glued(f),
                 Append(f.lines, Sample(e, p)), Append(f.lines, Invalid)}
      BY <3>1, <2>3, <1>0, WriteNext, WriteGlued
    <3>3. QED BY <2>1, <2>3, <3>1, <3>2
  <2>4. QED BY <2>2, <2>3
<1>4. g \in TornAppends(f, e, p) =>
        \/ g = f
        \/ \E part \in Fragments(f, e, p) :
             g = [lines |-> WriteAtEnd(f, part.lines), end |-> part.end]
  BY DEF TornAppends
<1>5. QED BY <1>1, <1>2, <1>3, <1>4

----------------------------------------------------------------------------
(* How many records a file holds that parses.                              *)
Records(f) == IF f.lines = <<>> THEN 0 ELSE Len(f.lines) - 1

(* A file that parses is a header and then the samples of problems 1, 2, 3 *)
(* and so on, all of the header's experiment.                              *)
Regular(f, E) ==
  Sound(f) /\ f.lines # <<>> =>
    \E e \in E : /\ f.lines[1] = Header(e)
                /\ \A i \in 2 .. Len(f.lines) : f.lines[i] = Sample(e, i - 1)

Ordered(f) ==
  \A i, j \in DOMAIN f.lines :
    i < j /\ SampleAt(f, i) /\ SampleAt(f, j) => f.lines[i].id < f.lines[j].id

SameExperiment(f) ==
  \A i, j \in DOMAIN f.lines :
    f.lines[i] # Invalid /\ f.lines[j] # Invalid
      => f.lines[i].of = f.lines[j].of

GoodFile(f, E, P) ==
  /\ P \subseteq Nat \ {0}
  /\ WellEnded(f, E, P)
  /\ Regular(f, E)
  /\ Ordered(f)
  /\ SameExperiment(f)

(* What whoever is about to append the record of problem n knows: all the  *)
(* records are of smaller problems and of its experiment and, as long as   *)
(* the file parses, none is missing.                                       *)
Ready(f, e, n) ==
  /\ \A i \in DOMAIN f.lines : SampleAt(f, i) => f.lines[i].id < n
  /\ \A i \in DOMAIN f.lines : f.lines[i] # Invalid => f.lines[i].of = e
  /\ Sound(f) => Records(f) = n - 1

(* Every line of g was in f, or was added by the append.                   *)
AddsOnly(f, g, e, n) ==
  \A i \in DOMAIN g.lines :
    \/ g.lines[i] = Invalid
    \/ i \in DOMAIN f.lines /\ g.lines[i] = f.lines[i]
    \/ g.lines[i] = Header(e)
    \/ g.lines[i] = Sample(e, n) /\ i = Len(g.lines) /\ i > Len(f.lines)

LEMMA LineKinds ==
  ASSUME NEW E, NEW P, NEW l \in Lines(E, P)
  PROVE  \/ l = Invalid
         \/ \E e \in E : l = Header(e)
         \/ \E e \in E, p \in P : l = Sample(e, p)
BY DEF Lines

LEMMA KindFields ==
  ASSUME NEW e, NEW p
  PROVE  /\ Header(e).type = "experiment" /\ Header(e).of = e
         /\ Sample(e, p).type = "sample" /\ Sample(e, p).of = e
         /\ Sample(e, p).id = p
         /\ Invalid.type = "invalid"
         /\ Header(e) # Invalid /\ Sample(e, p) # Invalid
BY DEF Header, Sample, Invalid

LEMMA SampleIds ==
  ASSUME NEW E, NEW P, NEW f, f.lines \in Seq(Lines(E, P)),
         NEW i \in DOMAIN f.lines, SampleAt(f, i)
  PROVE  f.lines[i].id \in P /\ f.lines[i] # Invalid
<1>1. f.lines[i] \in Lines(E, P)
  OBVIOUS
<1>2. QED BY <1>1, LineKinds, KindFields DEF SampleAt

(* Whatever becomes of an append, it changes nothing but the file's end.   *)
LEMMA AppendAddsOnly ==
  ASSUME NEW E, NEW P, NEW f, WellEnded(f, E, P), NEW e \in E, NEW n \in P,
         NEW g \in TornAppends(f, e, n) \cup {Appended(f, e, n)}
  PROVE  WellEnded(g, E, P) /\ AddsOnly(f, g, e, n)
<1>1. f.lines \in Seq(Lines(E, P)) /\ Len(f.lines) \in Nat
  BY DEF WellEnded, Files
<1>2. /\ Header(e) \in Lines(E, P) /\ Sample(e, n) \in Lines(E, P)
      /\ Invalid \in Lines(E, P)
  BY DEF Lines
<1>3. CASE g = f
  BY <1>3 DEF AddsOnly
<1>4. CASE g # f
  <2>1. /\ g = [lines |-> g.lines, end |-> g.end]
        /\ g.end \in {"newline", "bare"}
        /\ \/ /\ f.lines = <<>>
              /\ g.lines \in {<<Header(e)>>, <<Header(e), Sample(e, n)>>,
                              <<Invalid>>, <<Header(e), Invalid>>}
           \/ /\ f.lines # <<>>
              /\ g.lines \in {Glued(f), Append(f.lines, Sample(e, n)),
                              Append(f.lines, Invalid)}
    BY <1>4, AppendOutcomes
  <2>2. SUFFICES g.lines \in Seq(Lines(E, P)) /\ g.lines # <<>> /\ AddsOnly(f, g, e, n)
    BY <2>1 DEF WellEnded, Files
  <2>3. CASE f.lines = <<>>
    <3>0. CASE g.lines = <<Header(e)>>
      BY <3>0, <1>2 DEF AddsOnly
    <3>1. CASE g.lines = <<Invalid>>
      BY <3>1, <1>2 DEF AddsOnly
    <3>2. CASE g.lines = <<Header(e), Sample(e, n)>>
      BY <3>2, <2>3, <1>2 DEF AddsOnly
    <3>3. CASE g.lines = <<Header(e), Invalid>>
      BY <3>3, <1>2 DEF AddsOnly
    <3>4. QED BY <3>0, <3>1, <3>2, <3>3, <2>1, <2>3
  <2>4. CASE f.lines # <<>> /\ g.lines = Glued(f)
    BY <2>4, <1>1, <1>2 DEF AddsOnly, Glued
  <2>5. ASSUME NEW l \in {Sample(e, n), Invalid}, f.lines # <<>>,
               g.lines = Append(f.lines, l)
        PROVE  g.lines \in Seq(Lines(E, P)) /\ g.lines # <<>> /\ AddsOnly(f, g, e, n)
    <3>1. /\ g.lines \in Seq(Lines(E, P)) /\ Len(g.lines) = Len(f.lines) + 1
          /\ DOMAIN g.lines = 1 .. Len(f.lines) + 1
          /\ g.lines[Len(f.lines) + 1] = l
          /\ \A i \in 1 .. Len(f.lines) : g.lines[i] = f.lines[i]
      BY <2>5, <1>1, <1>2
    <3>2. QED BY <3>1, <1>1 DEF AddsOnly
  <2>6. QED BY <2>1, <2>3, <2>4, <2>5
<1>5. QED BY <1>3, <1>4

LEMMA SampleAdded ==
  ASSUME NEW f, NEW g, NEW e, NEW n, AddsOnly(f, g, e, n),
         NEW i \in DOMAIN g.lines, SampleAt(g, i)
  PROVE  \/ i \in DOMAIN f.lines /\ g.lines[i] = f.lines[i] /\ SampleAt(f, i)
         \/ g.lines[i] = Sample(e, n) /\ i = Len(g.lines) /\ g.lines[i].id = n
BY KindFields DEF AddsOnly, SampleAt

(* An append made in turn, finished or not, keeps the file in order and    *)
(* free of a second experiment; it adds at most the one record.            *)
LEMMA AppendKeepsOrder ==
  ASSUME NEW E, NEW P, NEW f, GoodFile(f, E, P),
         NEW e \in E, NEW n \in P, Ready(f, e, n),
         NEW g, WellEnded(g, E, P), AddsOnly(f, g, e, n)
  PROVE  /\ Ordered(g) /\ SameExperiment(g)
         /\ CompletedIds(g) \subseteq CompletedIds(f) \cup {n}
         /\ \A i \in DOMAIN g.lines : SampleAt(g, i) => g.lines[i].id < n + 1
         /\ \A i \in DOMAIN g.lines : g.lines[i] # Invalid => g.lines[i].of = e
<1>1. /\ f.lines \in Seq(Lines(E, P)) /\ g.lines \in Seq(Lines(E, P))
      /\ DOMAIN g.lines = 1 .. Len(g.lines) /\ Len(g.lines) \in Nat
      /\ n \in Nat /\ P \subseteq Nat
  BY DEF GoodFile, WellEnded, Files
<1>2. \A i \in DOMAIN g.lines : SampleAt(g, i) =>
        \/ i \in DOMAIN f.lines /\ g.lines[i] = f.lines[i] /\ SampleAt(f, i)
        \/ i = Len(g.lines) /\ g.lines[i].id = n
  BY SampleAdded
<1>3. \A i \in DOMAIN f.lines : SampleAt(f, i) =>
        f.lines[i].id \in Nat /\ f.lines[i].id < n
  BY <1>1, SampleIds DEF Ready
<1>4. Ordered(g)
  <2> SUFFICES ASSUME NEW i \in DOMAIN g.lines, NEW j \in DOMAIN g.lines,
                      i < j, SampleAt(g, i), SampleAt(g, j)
               PROVE  g.lines[i].id < g.lines[j].id
    BY DEF Ordered
  <2>1. i \in DOMAIN f.lines /\ g.lines[i] = f.lines[i] /\ SampleAt(f, i)
    BY <1>1, <1>2
  <2>2. CASE j \in DOMAIN f.lines /\ g.lines[j] = f.lines[j] /\ SampleAt(f, j)
    BY <2>1, <2>2 DEF GoodFile, Ordered
  <2>3. CASE g.lines[j].id = n
    BY <2>1, <2>3, <1>3
  <2>4. QED BY <1>2, <2>2, <2>3
<1>5. \A i \in DOMAIN g.lines : g.lines[i] # Invalid => g.lines[i].of = e
  BY KindFields DEF AddsOnly, Ready
<1>6. SameExperiment(g)
  BY <1>5 DEF SameExperiment
<1>7. CompletedIds(g) \subseteq CompletedIds(f) \cup {n}
  BY <1>2 DEF CompletedIds
<1>8. \A i \in DOMAIN g.lines : SampleAt(g, i) => g.lines[i].id < n + 1
  BY <1>1, <1>2, <1>3
<1>9. QED BY <1>4, <1>5, <1>6, <1>7, <1>8

(* If the file parses afterwards, it has no gap, and it has gained the one *)
(* record or none; a finished append to a file that parses and ends in a   *)
(* newline has gained it.                                                  *)
LEMMA AppendKeepsRegular ==
  ASSUME NEW E, NEW P, NEW f, GoodFile(f, E, P),
         NEW e \in E, NEW n \in P, Ready(f, e, n),
         NEW g \in TornAppends(f, e, n) \cup {Appended(f, e, n)}
  PROVE  /\ Regular(g, E)
         /\ Sound(g) => Sound(f) /\ Records(g) \in {Records(f), Records(f) + 1}
         /\ Sound(g) /\ g = Appended(f, e, n) => Records(g) = n
<1>1. /\ WellEnded(f, E, P) /\ Regular(f, E)
      /\ f.lines \in Seq(Lines(E, P)) /\ Len(f.lines) \in Nat
      /\ DOMAIN f.lines = 1 .. Len(f.lines)
      /\ f.end \in {"newline", "bare"} /\ n \in Nat \ {0}
      /\ f.lines # <<>> => Len(f.lines) >= 1
  <2>1. n \in Nat \ {0} /\ WellEnded(f, E, P) /\ Regular(f, E)
    BY DEF GoodFile
  <2>2. f.lines \in Seq(Lines(E, P)) /\ f.end \in {"newline", "bare"}
    BY <2>1 DEF WellEnded, Files
  <2>3. QED BY <2>1, <2>2
<1>2. CASE f.lines = <<>>
  <2>1. \/ g.lines = <<>>
        \/ g.lines = <<Header(e)>>
        \/ g.lines = <<Header(e), Sample(e, n)>>
        \/ g.lines = <<Invalid>>
        \/ g.lines = <<Header(e), Invalid>>
    BY <1>1, <1>2, AppendOutcomes
  <2>2. Sound(f) /\ Records(f) = 0 /\ n = 1
    BY <1>1, <1>2 DEF Sound, Records, Ready
  <2>3. g = Appended(f, e, n) => g.lines = <<Header(e), Sample(e, n)>>
    BY <1>1, <1>2, AppendedLines
  <2>4. CASE g.lines = <<>>
    BY <2>2, <2>3, <2>4 DEF Regular, Records
  <2>5. CASE g.lines = <<Header(e)>>
    BY <2>2, <2>3, <2>5 DEF Regular, Records
  <2>6. CASE g.lines = <<Header(e), Sample(e, n)>>
    BY <2>2, <2>6 DEF Regular, Records
  <2>7. CASE g.lines = <<Invalid>> \/ g.lines = <<Header(e), Invalid>>
    <3>1. ~ Sound(g)
      BY <2>7 DEF Sound
    <3>2. QED BY <3>1 DEF Regular
  <2>8. QED BY <2>1, <2>4, <2>5, <2>6, <2>7
<1>3. CASE f.lines # <<>> /\ (g.lines = Glued(f) \/ g.lines = Append(f.lines, Invalid))
  <2>1. \E i \in DOMAIN g.lines : g.lines[i] = Invalid
    BY <1>1, <1>3 DEF Glued
  <2>2. ~ Sound(g)
    BY <2>1 DEF Sound
  <2>3. QED BY <2>2 DEF Regular
<1>4. CASE f.lines # <<>> /\ g.lines = Append(f.lines, Sample(e, n))
  <2>1. /\ Len(g.lines) = Len(f.lines) + 1
        /\ DOMAIN g.lines = 1 .. Len(f.lines) + 1
        /\ g.lines[Len(f.lines) + 1] = Sample(e, n)
        /\ \A i \in 1 .. Len(f.lines) : g.lines[i] = f.lines[i]
        /\ g.lines # <<>>
    BY <1>1, <1>4
  <2>2. SUFFICES ASSUME Sound(g)
                 PROVE  /\ Regular(g, E) /\ Sound(f)
                        /\ Records(g) = Records(f) + 1 /\ Records(g) = n
    BY DEF Regular
  <2>3. Sound(f)
    BY <1>1, <2>1, <2>2 DEF Sound
  <2>4. /\ Records(f) = Len(f.lines) - 1 /\ Records(g) = Len(f.lines)
        /\ Len(f.lines) = n
    BY <1>1, <1>4, <2>1, <2>3 DEF Records, Ready
  <2>5. PICK h \in E :
          /\ f.lines[1] = Header(h)
          /\ \A i \in 2 .. Len(f.lines) : f.lines[i] = Sample(h, i - 1)
    BY <1>1, <1>4, <2>3 DEF Regular
  <2>6. h = e
    <3>1. f.lines[1] # Invalid /\ f.lines[1].of = h /\ 1 \in DOMAIN f.lines
      BY <2>5, <1>1, <1>4, KindFields
    <3>2. QED BY <3>1 DEF Ready
  <2>7. Regular(g, E)
    <3>1. g.lines[1] = Header(e)
      BY <2>1, <2>5, <2>6, <1>1, <1>4
    <3>2. \A i \in 2 .. Len(g.lines) : g.lines[i] = Sample(e, i - 1)
      <4> SUFFICES ASSUME NEW i \in 2 .. Len(f.lines) + 1
                   PROVE  g.lines[i] = Sample(e, i - 1)
        BY <2>1
      <4>1. CASE i = Len(f.lines) + 1
        BY <4>1, <2>1, <2>4, <1>1
      <4>2. CASE i # Len(f.lines) + 1
        BY <4>2, <2>1, <2>5, <2>6, <1>1
      <4>3. QED BY <4>1, <4>2
    <3>3. QED BY <3>1, <3>2 DEF Regular
  <2>8. QED BY <2>3, <2>4, <2>7, <1>1
<1>5. CASE g.lines = f.lines
  <2>1. Sound(g) = Sound(f) /\ Records(g) = Records(f) /\ Regular(g, E)
    BY <1>1, <1>5 DEF Sound, Records, Regular
  <2>2. Sound(f) => g # Appended(f, e, n)
    <3> SUFFICES ASSUME Sound(f), g = Appended(f, e, n) PROVE FALSE
      OBVIOUS
    <3>1. CASE f.lines = <<>>
      <4>1. g.lines = <<Header(e), Sample(e, n)>>
        BY <1>1, <3>1, AppendedLines
      <4>2. QED BY <4>1, <3>1, <1>5
    <3>2. CASE f.lines # <<>> /\ f.end = "bare"
      <4>1. f.lines = Glued(f)
        BY <1>1, <1>5, <3>2, AppendedLines
      <4>2. Glued(f)[Len(f.lines)] = Invalid
        BY <1>1, <3>2 DEF Glued
      <4>3. QED BY <4>1, <4>2, <1>1, <3>2 DEF Sound
    <3>3. CASE f.lines # <<>> /\ f.end # "bare"
      <4>1. f.lines = Append(f.lines, Sample(e, n))
        BY <1>1, <1>5, <3>3, AppendedLines
      <4>2. Len(Append(f.lines, Sample(e, n))) = Len(f.lines) + 1
        BY <1>1
      <4>3. QED BY <4>1, <4>2, <1>1
    <3>4. QED BY <3>1, <3>2, <3>3
  <2>3. QED BY <2>1, <2>2
<1>6. \/ g = f \/ f.lines = <<>>
      \/ f.lines # <<>> /\ g.lines \in {Glued(f), Append(f.lines, Sample(e, n)),
                                       Append(f.lines, Invalid)}
  BY <1>1, AppendOutcomes
<1>7. QED BY <1>2, <1>3, <1>4, <1>5, <1>6

LEMMA AppendKeepsGood ==
  ASSUME NEW E, NEW P, NEW f, GoodFile(f, E, P),
         NEW e \in E, NEW n \in P, Ready(f, e, n),
         NEW g \in TornAppends(f, e, n) \cup {Appended(f, e, n)}
  PROVE  /\ GoodFile(g, E, P)
         /\ g = Appended(f, e, n) => Ready(g, e, n + 1)
         /\ CompletedIds(g) \subseteq CompletedIds(f) \cup {n}
         /\ Sound(g) => Sound(f) /\ Records(g) \in {Records(f), Records(f) + 1}
<1>1. WellEnded(g, E, P) /\ AddsOnly(f, g, e, n)
  BY AppendAddsOnly DEF GoodFile
<1>2. /\ Ordered(g) /\ SameExperiment(g)
      /\ CompletedIds(g) \subseteq CompletedIds(f) \cup {n}
      /\ \A i \in DOMAIN g.lines : SampleAt(g, i) => g.lines[i].id < n + 1
      /\ \A i \in DOMAIN g.lines : g.lines[i] # Invalid => g.lines[i].of = e
  BY <1>1, AppendKeepsOrder
<1>3. /\ Regular(g, E)
      /\ Sound(g) => Sound(f) /\ Records(g) \in {Records(f), Records(f) + 1}
      /\ Sound(g) /\ g = Appended(f, e, n) => Records(g) = n
  BY AppendKeepsRegular
<1>4. GoodFile(g, E, P)
  BY <1>1, <1>2, <1>3 DEF GoodFile
<1>5. g = Appended(f, e, n) => Ready(g, e, n + 1)
  <2>1. n \in Nat
    BY DEF GoodFile
  <2>2. QED BY <2>1, <1>2, <1>3 DEF Ready
<1>6. QED BY <1>2, <1>3, <1>4, <1>5

(***************************************************************************)
(* The runners                                                             *)
(***************************************************************************)
(* A batch is a run of consecutive problems; the runner that holds the     *)
(* lock is ready to append the record of the next one, and its counters    *)
(* agree with its place in the batch; the calls not yet started are of     *)
(* problems it has still to record.                                        *)
RunnerFacts(f, where, a, batch, p, skipped, done) ==
  /\ p.size = Len(batch)
  /\ \A k \in 1 .. Len(batch) : batch[k] = skipped + k
  /\ where \in {"running", "recording", "draining"} =>
       /\ p.current # 0
       /\ Ready(f, a.experiment, skipped + p.current)
       /\ \A i \in Queued(p) : p.current <= i
  /\ where \in {"idle", "locked"} => done = 0
  /\ where = "running" => done = p.current - 1
  /\ where = "recording" =>
       /\ done = p.current
       /\ p.call[p.current] = "evaluated"
  /\ where = "returning" => (Sound(f) => Records(f) = skipped + done)
  /\ where \in {"idle", "locked", "returning"} => Queued(p) = {}

RunnerOK(r) ==
  RunnerFacts(file, pc[r], args[r], selected[r], pool[r], resumed[r],
              recorded[r])

IInv ==
  /\ TypeOK
  /\ GoodFile(file, Experiment, Problem)
  /\ \A r \in Runners : RunnerOK(r)

----------------------------------------------------------------------------
(* The selection                                                           *)

LEMMA Interval ==
  ASSUME NEW a \in Nat, NEW b \in Nat, a <= b
  PROVE  IsFiniteSet((a + 1) .. b) /\ Cardinality((a + 1) .. b) = b - a
<1>1. /\ IsFiniteSet((a + 1) .. b)
      /\ Cardinality((a + 1) .. b) = IF a + 1 > b THEN 0 ELSE b - (a + 1) + 1
  BY FS_Interval
<1>2. QED BY <1>1

(* Enumerating an interval.                                                *)
LEMMA InOrderInterval ==
  ASSUME NEW a \in Nat, NEW b \in Nat, a <= b
  PROVE  InOrder((a + 1) .. b) = [k \in 1 .. (b - a) |-> a + k]
<1> DEFINE S == (a + 1) .. b
<1>1. Cardinality(S) = b - a
  BY Interval
<1>2. ASSUME NEW k \in 1 .. (b - a)
      PROVE  (CHOOSE p \in S : Cardinality({q \in S : q <= p}) = k) = a + k
  <2>1. \A p \in S : {q \in S : q <= p} = (a + 1) .. p
    OBVIOUS
  <2>2. \A p \in S : Cardinality((a + 1) .. p) = p - a
    <3> SUFFICES ASSUME NEW p \in S PROVE Cardinality((a + 1) .. p) = p - a
      OBVIOUS
    <3>1. p \in Nat /\ a <= p
      OBVIOUS
    <3>2. QED BY <3>1, Interval
  <2>3. \A p \in S : Cardinality({q \in S : q <= p}) = p - a
    BY <2>1, <2>2
  <2>4. a + k \in S /\ Cardinality({q \in S : q <= a + k}) = k
    BY <2>3
  <2> DEFINE c == CHOOSE p \in S : Cardinality({q \in S : q <= p}) = k
  <2>5. c \in S /\ Cardinality({q \in S : q <= c}) = k
    BY <2>4
  <2> HIDE DEF c
  <2>6. c - a = k
    BY <2>3, <2>5
  <2>7. c \in Nat /\ c = a + k
    BY <2>5, <2>6
  <2>8. QED BY <2>7 DEF c
<1>3. InOrder(S) = [k \in 1 .. Cardinality(S) |->
                      CHOOSE p \in S : Cardinality({q \in S : q <= p}) = k]
  BY DEF InOrder
<1> HIDE DEF S
<1>4. QED BY <1>1, <1>2, <1>3 DEF S

(* When the first m problems are completed, the batch is what follows them. *)
LEMMA SelectionAfter ==
  ASSUME NEW m \in 0 .. MaxItems, NEW batch \in Nat \ {0}, NEW last,
         last = IF m + batch < MaxItems THEN m + batch ELSE MaxItems
  PROVE  /\ Selection(1 .. m, batch) = [k \in 1 .. (last - m) |-> m + k]
         /\ last \in m .. MaxItems
         /\ ResumedCount(1 .. m, batch) = m
<1>1. m \in Nat /\ MaxItems \in Nat /\ m <= MaxItems /\ last \in Nat /\ m <= last
      /\ last <= MaxItems
  BY MaxItemsAssumption
<1>2. ASSUME NEW p \in Problem \ (1 .. m)
      PROVE  Cardinality(UnfinishedBefore(1 .. m, p)) = p - 1 - m
  <2>1. p \in Nat /\ m <= p - 1 /\ p - 1 \in Nat /\ p <= MaxItems
    BY <1>1 DEF Problem, Index
  <2>2. UnfinishedBefore(1 .. m, p) = (m + 1) .. (p - 1)
    BY <2>1, <1>1 DEF UnfinishedBefore, Problem, Index
  <2>3. QED BY <2>1, <2>2, <1>1, Interval
<1>3. {p \in Problem \ (1 .. m) :
         Cardinality(UnfinishedBefore(1 .. m, p)) < batch} = (m + 1) .. last
  <2>1. {p \in Problem \ (1 .. m) :
           Cardinality(UnfinishedBefore(1 .. m, p)) < batch}
          = {p \in Problem \ (1 .. m) : p - 1 - m < batch}
    BY <1>2
  <2>2. {p \in Problem \ (1 .. m) : p - 1 - m < batch} = (m + 1) .. last
    BY <1>1 DEF Problem, Index
  <2>3. QED BY <2>1, <2>2
<1>4. Selection(1 .. m, batch) = [k \in 1 .. (last - m) |-> m + k]
  BY <1>1, <1>3, InOrderInterval DEF Selection
<1>5. \A p \in 1 .. m : Cardinality(UnfinishedBefore(1 .. m, p)) = 0
  <2> SUFFICES ASSUME NEW p \in 1 .. m
               PROVE  Cardinality(UnfinishedBefore(1 .. m, p)) = 0
    OBVIOUS
  <2>1. UnfinishedBefore(1 .. m, p) = {}
    BY <1>1 DEF UnfinishedBefore, Problem, Index
  <2>2. QED BY <2>1, FS_EmptySet
<1>6. {p \in 1 .. m : Cardinality(UnfinishedBefore(1 .. m, p)) <= batch} = 1 .. m
  BY <1>5
<1>7. ResumedCount(1 .. m, batch) = Cardinality(1 .. m)
  BY <1>6 DEF ResumedCount
<1>8. Cardinality(1 .. m) = m
  <2>1. Cardinality((0 + 1) .. m) = m - 0
    BY <1>1, Interval
  <2>2. QED BY <2>1, <1>1
<1>9. last \in m .. MaxItems
  BY <1>1
<1>10. QED BY <1>4, <1>7, <1>8, <1>9

(* A file that parses holds the records of the first problems.             *)
LEMMA RegularIds ==
  ASSUME NEW f, NEW E, GoodFile(f, E, Problem), Sound(f)
  PROVE  /\ CompletedIds(f) = 1 .. Records(f)
         /\ Records(f) \in 0 .. MaxItems
         /\ Cardinality(CompletedIds(f)) = Records(f)
<1>1. /\ f.lines \in Seq(Lines(E, Problem)) /\ Len(f.lines) \in Nat
      /\ DOMAIN f.lines = 1 .. Len(f.lines) /\ Regular(f, E)
  BY DEF GoodFile, WellEnded, Files
<1>2. CASE f.lines = <<>>
  <2>1. CompletedIds(f) = {} /\ Records(f) = 0
    BY <1>2 DEF CompletedIds, Records
  <2>2. QED BY <2>1, FS_EmptySet, MaxItemsAssumption
<1>3. CASE f.lines # <<>>
  <2>1. PICK e \in E : /\ f.lines[1] = Header(e)
                       /\ \A i \in 2 .. Len(f.lines) : f.lines[i] = Sample(e, i - 1)
    BY <1>1, <1>3 DEF Regular
  <2>2. Records(f) = Len(f.lines) - 1 /\ Len(f.lines) >= 1 /\ Records(f) \in Nat
    BY <1>1, <1>3 DEF Records
  <2>3. \A i \in 2 .. Len(f.lines) : SampleAt(f, i) /\ f.lines[i].id = i - 1
    BY <2>1, KindFields DEF SampleAt
  <2>4. ~SampleAt(f, 1)
    BY <2>1, KindFields DEF SampleAt
  <2>5. {j \in DOMAIN f.lines : SampleAt(f, j)} = 2 .. Len(f.lines)
    BY <1>1, <2>2, <2>3, <2>4
  <2>6. CompletedIds(f) = {f.lines[i].id : i \in 2 .. Len(f.lines)}
    BY <2>5 DEF CompletedIds
  <2>7. CompletedIds(f) = 1 .. Records(f)
    <3>1. \A i \in 2 .. Len(f.lines) : f.lines[i].id \in 1 .. Records(f)
      BY <2>2, <2>3, <1>1
    <3>2. \A p \in 1 .. Records(f) : p + 1 \in 2 .. Len(f.lines)
                                   /\ f.lines[p + 1].id = p
      BY <2>2, <2>3, <1>1
    <3>3. QED BY <2>6, <3>1, <3>2
  <2>8. Records(f) <= MaxItems
    <3>1. CASE Records(f) = 0
      BY <3>1, MaxItemsAssumption
    <3>2. CASE Records(f) # 0
      <4> DEFINE i == Len(f.lines)
      <4>0. i \in Nat /\ i >= 2
        <5>1. i \in Nat
          BY <1>1
        <5>2. i - 1 # 0 /\ i >= 1
          BY <2>2, <3>2
        <5> HIDE DEF i
        <5>3. QED BY <5>1, <5>2
      <4>1. i \in 2 .. Len(f.lines) /\ i \in DOMAIN f.lines
        <5>1. i \in 2 .. i /\ i \in 1 .. i
          BY <4>0
        <5>2. QED BY <5>1, <1>1
      <4>2. SampleAt(f, i) /\ f.lines[i].id = Records(f)
        BY <4>1, <2>2, <2>3
      <4> HIDE DEF i
      <4>3. Records(f) \in Problem
        BY <4>1, <4>2, <1>1, SampleIds
      <4>4. QED BY <4>3, MaxItemsAssumption DEF Problem, Index
    <3>3. QED BY <3>1, <3>2
  <2>9. Cardinality((0 + 1) .. Records(f)) = Records(f) - 0
    BY <2>2, Interval
  <2>10. QED BY <2>2, <2>7, <2>8, <2>9
<1>4. QED BY <1>2, <1>3

----------------------------------------------------------------------------
(* What a step of one runner must establish                                *)

(* The types of the variables other than the file, and the parts of TypeOK *)
(* about one runner.                                                       *)
Shape ==
  /\ lock \in Runners \cup {None}
  /\ pc \in [Runners -> Pc]
  /\ args \in [Runners -> Args \cup {None}]
  /\ selected \in [Runners -> Seq(Problem)]
  /\ resumed \in [Runners -> 0 .. MaxItems]
  /\ recorded \in [Runners -> 0 .. MaxItems]
  /\ invoked \in 0 .. MaxInvocations
  /\ pool \in [Runners -> Pool]

Alone(r) ==
  /\ PoolOK(pool[r])
  /\ pc[r] # "idle" => args[r] \in Args
  /\ pc[r] \in Holding <=> lock = r

Others(r) ==
  \A s \in Runners \ {r} :
    /\ pc'[s] = pc[s]
    /\ args'[s] = args[s]
    /\ selected'[s] = selected[s]
    /\ pool'[s] = pool[s]
    /\ resumed'[s] = resumed[s]
    /\ recorded'[s] = recorded[s]

(* Without the lock nothing is known of the file.                          *)
LEMMA OutsideTheLock ==
  ASSUME NEW f, NEW g, NEW where, where \notin Holding, NEW a, NEW batch,
         NEW p, NEW skipped, NEW done,
         RunnerFacts(f, where, a, batch, p, skipped, done)
  PROVE  RunnerFacts(g, where, a, batch, p, skipped, done)
BY DEF RunnerFacts, Holding, Looping

(* A step of r that takes the lock only when it is free, and writes only   *)
(* while it holds it, leaves what is known of the others intact.           *)
LEMMA StepOfOne ==
  ASSUME IInv, NEW r \in Runners,
         Shape', Others(r), Alone(r)', RunnerOK(r)',
         lock' = lock \/ (lock \in {r, None} /\ lock' \in {r, None}),
         \/ UNCHANGED file
         \/ lock = r /\ GoodFile(file', Experiment, Problem)
  PROVE  IInv'
<1>1. GoodFile(file, Experiment, Problem)'
  BY DEF IInv
<1>2. file' \in Files(Experiment, Problem)
  BY <1>1 DEF GoodFile, WellEnded
<1>3. None \notin Runners
  BY CellAssumption
<1>4. ASSUME NEW s \in Runners, s # r
      PROVE  Alone(s)' /\ RunnerOK(s)'
  <2>1. /\ pc'[s] = pc[s] /\ args'[s] = args[s] /\ selected'[s] = selected[s]
        /\ pool'[s] = pool[s] /\ resumed'[s] = resumed[s]
        /\ recorded'[s] = recorded[s]
    BY <1>4 DEF Others
  <2>2. (lock' = s) <=> (lock = s)
    BY <1>3, <1>4
  <2>3. Alone(s)'
    BY <2>1, <2>2 DEF IInv, TypeOK, Alone
  <2>4. RunnerOK(s)
    BY DEF IInv
  <2>5. CASE UNCHANGED file
    BY <2>1, <2>3, <2>4, <2>5 DEF RunnerOK
  <2>6. CASE lock = r
    <3>1. pc[s] \notin Holding
      BY <2>6, <1>4 DEF IInv, TypeOK
    <3>2. RunnerFacts(file', pc[s], args[s], selected[s], pool[s], resumed[s],
                      recorded[s])
      BY <2>4, <3>1, OutsideTheLock DEF RunnerOK
    <3>3. QED BY <2>1, <2>3, <3>2 DEF RunnerOK
  <2>7. QED BY <2>3, <2>5, <2>6
<1>5. \A s \in Runners : Alone(s)' /\ RunnerOK(s)'
  BY <1>4
<1>6. TypeOK'
  BY <1>2, <1>5 DEF TypeOK, Shape, Alone
<1>7. QED BY <1>1, <1>5, <1>6 DEF IInv

(* What IInv says of one runner.                                           *)
LEMMA AtRunner ==
  ASSUME IInv, NEW r \in Runners
  PROVE  /\ Shape /\ Alone(r) /\ RunnerOK(r)
         /\ GoodFile(file, Experiment, Problem)
         /\ pool[r] \in Pool
         /\ r # None
BY CellAssumption DEF IInv, TypeOK, Shape, Alone

(* A process that exits leaves nothing behind but the file.                *)
LEMMA ExitPreserves ==
  ASSUME IInv, NEW r \in Runners, Exit(r), UNCHANGED invoked,
         Release(r) \/ (pc[r] \notin Holding /\ UNCHANGED lock),
         UNCHANGED file \/ (lock = r /\ GoodFile(file', Experiment, Problem))
  PROVE  IInv'
<1>1. Shape /\ Alone(r) /\ r # None
  BY AtRunner
<1>2. /\ PoolOK(EmptyPool) /\ EmptyPool.taken = 0 /\ EmptyPool.size = 0
      /\ EmptyPool.current = 0
  <2>1. 1 \in Nat \ {0} /\ 0 \in 0 .. MaxItems
    BY MaxItemsAssumption
  <2>2. QED BY <2>1, NewPoolOK DEF EmptyPool
<1>3. EmptyPool \in Pool /\ Queued(EmptyPool) = {}
  BY <1>2 DEF PoolOK, PoolShape, Queued, Index
<1> HIDE DEF EmptyPool
<1>4. Shape' /\ Others(r)
  BY <1>1, <1>3, MaxItemsAssumption DEF Shape, Others, Exit, Release, Pc
<1>5. /\ pc'[r] = "idle" /\ selected'[r] = <<>> /\ pool'[r] = EmptyPool
      /\ recorded'[r] = 0
  BY <1>1 DEF Shape, Exit
<1>6. lock' # r /\ (lock' = lock \/ (lock \in {r, None} /\ lock' \in {r, None}))
  BY <1>1 DEF Release, Alone
<1>7. Alone(r)'
  BY <1>2, <1>5, <1>6 DEF Alone, Holding, Looping
<1>8. RunnerOK(r)'
  BY <1>2, <1>3, <1>5 DEF RunnerOK, RunnerFacts
<1>9. QED BY <1>4, <1>6, <1>7, <1>8, StepOfOne

(* The runner goes to a place outside its loop, with its pool as it was or *)
(* with its generator left; the lock may be given back.                    *)
LEMMA LeavePreserves ==
  ASSUME IInv, NEW r \in Runners, pc[r] # "idle",
         NEW label \in {"unwinding", "draining", "joining"}, GoTo(r, label),
         label = "draining" => pc[r] = "running" /\ UNCHANGED file,
         \/ Release(r) /\ label # "draining"
         \/ UNCHANGED lock /\ (pc[r] \in Holding <=> label = "draining"),
         NEW q, pool' = [pool EXCEPT ![r] = q],
         q = Dropped(pool[r]) \/ q = pool[r],
         UNCHANGED <<args, selected, resumed, recorded, invoked>>,
         UNCHANGED file \/ (lock = r /\ GoodFile(file', Experiment, Problem))
  PROVE  IInv'
<1>1. /\ Shape /\ Alone(r) /\ RunnerOK(r) /\ r # None
  BY AtRunner
<1>2. /\ PoolOK(q) /\ q.size = pool[r].size /\ q.current = pool[r].current
      /\ Queued(q) \subseteq Queued(pool[r])
  BY <1>1, DroppedOK DEF Alone
<1>3. q \in Pool
  BY <1>2 DEF PoolOK, PoolShape
<1>4. Shape' /\ Others(r)
  BY <1>1, <1>3 DEF Shape, Others, GoTo, Release, Pc
<1>5. pc'[r] = label /\ pool'[r] = q
  BY <1>1 DEF Shape, GoTo
<1>6. /\ lock' = lock \/ (lock \in {r, None} /\ lock' \in {r, None})
      /\ (label = "draining") <=> (lock' = r)
  BY <1>1 DEF Release, Alone
<1>7. Alone(r)'
  BY <1>1, <1>2, <1>5, <1>6 DEF Alone, Holding, Looping
<1>8. RunnerOK(r)'
  <2>1. CASE label = "draining"
    BY <1>1, <1>2, <1>5, <2>1 DEF RunnerOK, RunnerFacts
  <2>2. CASE label # "draining"
    BY <1>1, <1>2, <1>5, <2>2 DEF RunnerOK, RunnerFacts
  <2>3. QED BY <2>1, <2>2
<1>9. QED BY <1>4, <1>6, <1>7, <1>8, StepOfOne

----------------------------------------------------------------------------
(* The steps                                                               *)

(* What a runner that is about to append knows.                            *)
LEMMA AboutToAppend ==
  ASSUME IInv, NEW r \in Runners, pc[r] = "recording"
  PROVE  /\ lock = r
         /\ pool[r].current \in 1 .. Len(selected[r])
         /\ pool[r].current \in Index
         /\ selected[r][pool[r].current] = resumed[r] + pool[r].current
         /\ resumed[r] + pool[r].current \in Problem
         /\ args[r].experiment \in Experiment
         /\ Ready(file, args[r].experiment, resumed[r] + pool[r].current)
         /\ pool[r].call[pool[r].current] = "evaluated"
<1>1. /\ Shape /\ Alone(r) /\ RunnerOK(r) /\ pool[r] \in Pool
  BY AtRunner
<1>2. /\ pool[r].current # 0
      /\ pool[r].size = Len(selected[r])
      /\ \A k \in 1 .. Len(selected[r]) : selected[r][k] = resumed[r] + k
      /\ Ready(file, args[r].experiment, resumed[r] + pool[r].current)
      /\ pool[r].call[pool[r].current] = "evaluated"
  BY <1>1 DEF RunnerOK, RunnerFacts
<1>3. /\ pool[r].current \in Nat /\ pool[r].size \in Nat /\ pool[r].taken \in Nat
      /\ pool[r].current <= pool[r].taken /\ pool[r].taken <= pool[r].size
      /\ pool[r].size <= MaxItems
  BY <1>1, MaxItemsAssumption DEF Alone, PoolOK, PoolShape, PopCount, Pool
<1>4. pool[r].current \in 1 .. Len(selected[r]) /\ pool[r].current \in Index
  BY <1>2, <1>3, MaxItemsAssumption DEF Index
<1>5. selected[r] \in Seq(Problem)
  BY <1>1 DEF Shape
<1>6. selected[r][pool[r].current] = resumed[r] + pool[r].current
  BY <1>2, <1>4
<1>7. resumed[r] + pool[r].current \in Problem
  BY <1>4, <1>5, <1>6
<1>8. args[r].experiment \in Experiment
  BY <1>1 DEF Alone, Args
<1>9. lock = r
  BY <1>1 DEF Alone, Holding, Looping
<1>10. QED BY <1>2, <1>4, <1>6, <1>7, <1>8, <1>9

(* An append in turn keeps the file good, whether or not it finishes.      *)
LEMMA AppendInTurn ==
  ASSUME IInv, NEW r \in Runners, pc[r] = "recording",
         NEW e, e = args[r].experiment,
         NEW n, n = selected[r][pool[r].current],
         NEW g \in TornAppends(file, e, n) \cup {Appended(file, e, n)}
  PROVE  /\ lock = r /\ e \in Experiment /\ n \in Problem
         /\ n = resumed[r] + pool[r].current
         /\ GoodFile(g, Experiment, Problem)
         /\ g = Appended(file, e, n) => Ready(g, e, n + 1)
         /\ CompletedIds(g) \subseteq CompletedIds(file) \cup {n}
         /\ Sound(g) =>
              Sound(file) /\ Records(g) \in {Records(file), Records(file) + 1}
<1>1. /\ lock = r /\ e \in Experiment /\ n \in Problem
      /\ n = resumed[r] + pool[r].current /\ Ready(file, e, n)
  BY AboutToAppend
<1>2. GoodFile(file, Experiment, Problem)
  BY AtRunner
<1>3. QED BY <1>1, <1>2, AppendKeepsGood

LEMMA LockPreserves ==
  ASSUME IInv, NEW r \in Runners, Lock(r)
  PROVE  IInv'
<1>1. Shape /\ Alone(r) /\ RunnerOK(r) /\ r # None
  BY AtRunner
<1>2. PICK a \in Args : args' = [args EXCEPT ![r] = a]
  BY DEF Lock
<1>3. invoked' \in 0 .. MaxInvocations
  BY <1>1, CellAssumption DEF Lock, Shape
<1>4. Shape' /\ Others(r)
  BY <1>1, <1>2, <1>3 DEF Shape, Others, Lock, GoTo, Pc
<1>5. /\ pc[r] = "idle" /\ pc'[r] = "locked" /\ args'[r] = a
      /\ lock = None /\ lock' = r
      /\ UNCHANGED <<file, selected, pool, resumed, recorded>>
  BY <1>1, <1>2 DEF Shape, Lock, GoTo
<1>6. Alone(r)'
  BY <1>1, <1>5 DEF Alone, Holding, Looping
<1>7. RunnerOK(r)'
  BY <1>1, <1>5 DEF RunnerOK, RunnerFacts
<1>8. QED BY <1>4, <1>5, <1>6, <1>7, StepOfOne

LEMMA LockConflictPreserves ==
  ASSUME IInv, NEW r \in Runners, LockConflict(r)
  PROVE  IInv'
<1>1. Shape /\ Alone(r) /\ RunnerOK(r)
  BY AtRunner
<1>2. invoked' \in 0 .. MaxInvocations
  BY <1>1, CellAssumption DEF LockConflict, Shape
<1>3. UNCHANGED <<file, lock, pc, args, selected, pool, resumed, recorded>>
  BY DEF LockConflict
<1>4. Shape' /\ Others(r)
  BY <1>1, <1>2, <1>3 DEF Shape, Others
<1>5. Alone(r)' /\ RunnerOK(r)'
  BY <1>1, <1>3 DEF Alone, RunnerOK
<1>6. QED BY <1>3, <1>4, <1>5, StepOfOne

(* Reading a file that is accepted: it parses, and is of this experiment.  *)
LEMMA AcceptedFile ==
  ASSUME NEW f, NEW E, GoodFile(f, E, Problem), NEW e, Accepts(f, e)
  PROVE  /\ Sound(f)
         /\ Ready(f, e, Records(f) + 1)
<1>1. /\ f.lines \in Seq(Lines(E, Problem)) /\ SameExperiment(f)
      /\ DOMAIN f.lines = 1 .. Len(f.lines) /\ Len(f.lines) \in Nat
  BY DEF GoodFile, WellEnded, Files
<1>2. Sound(f)
  BY DEF Accepts, Sound
<1>3. /\ CompletedIds(f) = 1 .. Records(f) /\ Records(f) \in Nat
  BY <1>2, RegularIds, MaxItemsAssumption
<1>4. \A i \in DOMAIN f.lines : SampleAt(f, i) => f.lines[i].id < Records(f) + 1
  <2> SUFFICES ASSUME NEW i \in DOMAIN f.lines, SampleAt(f, i)
               PROVE  f.lines[i].id < Records(f) + 1
    OBVIOUS
  <2>1. f.lines[i].id \in CompletedIds(f)
    BY DEF CompletedIds
  <2>2. QED BY <2>1, <1>3
<1>5. \A i \in DOMAIN f.lines : f.lines[i] # Invalid => f.lines[i].of = e
  <2> SUFFICES ASSUME NEW i \in DOMAIN f.lines, f.lines[i] # Invalid
               PROVE  f.lines[i].of = e
    OBVIOUS
  <2>1. CASE f.lines[i].type = "experiment"
    BY <2>1 DEF Accepts
  <2>2. CASE SampleAt(f, i)
    <3>1. PICK j \in 1 .. (i - 1) : f.lines[j].type = "experiment"
      BY <2>2 DEF Accepts
    <3>2. j \in DOMAIN f.lines
      BY <1>1
    <3>3. f.lines[j] # Invalid /\ f.lines[j].of = e
      BY <3>1, <3>2 DEF Accepts
    <3>4. QED BY <3>2, <3>3, <1>1 DEF SameExperiment
  <2>3. f.lines[i] \in Lines(E, Problem)
    BY <1>1
  <2>4. f.lines[i].type = "experiment" \/ SampleAt(f, i)
    BY <2>3, LineKinds, KindFields DEF SampleAt
  <2>5. QED BY <2>1, <2>2, <2>4
<1>6. Sound(f) => Records(f) = (Records(f) + 1) - 1
  BY <1>3
<1>7. QED BY <1>2, <1>4, <1>5, <1>6 DEF Ready

(* Nothing is queued beyond the items taken.                               *)
LEMMA QueuedTaken ==
  ASSUME NEW p, PoolOK(p)
  PROVE  \A i \in Queued(p) : i \in Index /\ i <= p.taken /\ i <= p.size
BY MaxItemsAssumption DEF PoolOK, PoolShape, Queued, Pool, Index

(* Going on to the next item queues nothing before it.                     *)
LEMMA RefillQueued ==
  ASSUME NEW p, PoolOK(p), p.current # 0, p.call[p.current] = "evaluated",
         \A i \in Queued(p) : p.current <= i,
         NEW q, q = Refill(p)
  PROVE  \A i \in Queued(q) : p.current < i
<1>1. p \in Pool /\ p.current \in Nat /\ p.taken \in Nat /\ p.current <= p.taken
  BY MaxItemsAssumption DEF PoolOK, PoolShape, PopCount, Pool
<1> SUFFICES ASSUME NEW i \in Queued(q) PROVE p.current < i
  OBVIOUS
<1>2. i \in Index /\ i \in Nat /\ q.call[i] = "queued"
  BY DEF Queued, Index
<1>3. CASE p.call[i] = "idle"
  BY <1>1, <1>2, <1>3 DEF PoolOK, PoolShape
<1>4. CASE p.call[i] # "idle"
  <2>1. p.call[i] = "queued"
    BY <1>2, <1>4, RefillOK
  <2>2. p.current <= i /\ p.current # i
    BY <1>2, <2>1 DEF Queued
  <2>3. QED BY <2>2, <1>1, <1>2
<1>5. QED BY <1>3, <1>4

LEMMA SelectPreserves ==
  ASSUME IInv, NEW r \in Runners, Select(r)
  PROVE  IInv'
<1>1. /\ Shape /\ Alone(r) /\ RunnerOK(r) /\ r # None
      /\ GoodFile(file, Experiment, Problem)
  BY AtRunner
<1> DEFINE e == args[r].experiment
           m == Records(file)
           most == args[r].batch
           last == IF m + most < MaxItems THEN m + most ELSE MaxItems
           batch == [k \in 1 .. (last - m) |-> m + k]
           start == NewPool(args[r].width, Len(batch))
           p == Prime(start)
<1>2. Sound(file) /\ Ready(file, e, m + 1)
  BY <1>1, AcceptedFile DEF Select
<1>3. CompletedIds(file) = 1 .. m /\ m \in 0 .. MaxItems
  BY <1>1, <1>2, RegularIds
<1>4. pc[r] = "locked" /\ args[r] \in Args
  BY <1>1 DEF Select, Alone
<1>5. most \in Nat \ {0} /\ args[r].width \in Nat \ {0}
  BY <1>4, CellAssumption DEF Args
<1>6. /\ Selection(1 .. m, most) = batch /\ last \in m .. MaxItems
      /\ ResumedCount(1 .. m, most) = m
  BY <1>3, <1>5, SelectionAfter
<1>7. /\ selected' = [selected EXCEPT ![r] = batch]
      /\ resumed' = [resumed EXCEPT ![r] = m]
      /\ Advance(r, p)
      /\ UNCHANGED <<file, lock, args, recorded, invoked>>
  BY <1>3, <1>6 DEF Select
<1>8. /\ batch \in Seq(Problem) /\ Len(batch) = last - m /\ Len(batch) \in 0 .. MaxItems
      /\ \A k \in 1 .. Len(batch) : batch[k] = m + k
  <2>1. m \in Nat /\ last \in Nat /\ last - m \in Nat /\ last <= MaxItems
        /\ last - m <= MaxItems
    BY <1>3, <1>6, MaxItemsAssumption
  <2>2. batch \in [1 .. (last - m) -> Problem]
    BY <2>1, MaxItemsAssumption DEF Problem, Index
  <2>3. batch \in Seq(Problem) /\ Len(batch) = last - m
    BY <2>1, <2>2
  <2>4. QED BY <2>1, <2>3
<1> HIDE DEF batch, last, m, most
<1>9. /\ PoolOK(start) /\ start.taken = 0 /\ start.size = Len(batch)
  BY <1>5, <1>8, NewPoolOK
<1> HIDE DEF start
<1>10. /\ PoolOK(p) /\ p.size = Len(batch)
       /\ (p.current = 0 /\ p.size = 0) \/ p.current = 1
  BY <1>9, PrimeOK
<1> HIDE DEF p
<1>11. \A i \in Queued(p) : i \in Index /\ i <= p.size /\ 1 <= i
  BY <1>10, QueuedTaken DEF Index
<1>12. p \in Pool
  BY <1>10 DEF PoolOK, PoolShape
<1>13. Shape' /\ Others(r)
  BY <1>1, <1>3, <1>7, <1>8, <1>12 DEF Shape, Others, Advance, GoTo, Pc
<1>14. /\ pc'[r] = IF p.current = 0 THEN "returning" ELSE "running"
       /\ pool'[r] = p /\ selected'[r] = batch /\ resumed'[r] = m
       /\ args' = args /\ file' = file /\ lock' = lock /\ recorded' = recorded
  BY <1>1, <1>7 DEF Shape, Advance, GoTo
<1>15. Alone(r)'
  BY <1>1, <1>4, <1>10, <1>14 DEF Alone, Holding, Looping
<1>16. recorded[r] = 0
  BY <1>1, <1>4 DEF RunnerOK, RunnerFacts
<1>17. RunnerOK(r)'
  <2>1. CASE p.current = 0
    <3>1. Queued(p) = {}
      BY <1>10, <1>11, <2>1, MaxItemsAssumption DEF Index
    <3>2. m = resumed'[r] + recorded'[r]
      BY <1>3, <1>14, <1>16, MaxItemsAssumption
    <3>3. Records(file') = resumed'[r] + recorded'[r]
      BY <1>14, <3>2 DEF m
    <3>4. QED
      BY <1>8, <1>10, <1>14, <1>16, <2>1, <3>1, <3>3 DEF RunnerOK, RunnerFacts
  <2>2. CASE p.current # 0
    <3>1. p.current = 1
      BY <1>10, <2>2
    <3>2. QED
      BY <1>2, <1>8, <1>10, <1>11, <1>14, <1>16, <3>1 DEF RunnerOK, RunnerFacts
  <2>3. QED BY <2>1, <2>2
<1>18. QED BY <1>13, <1>14, <1>15, <1>17, StepOfOne

LEMMA ReceivePreserves ==
  ASSUME IInv, NEW r \in Runners, Receive(r)
  PROVE  IInv'
<1>1. /\ Shape /\ Alone(r) /\ RunnerOK(r) /\ r # None
  BY AtRunner
<1>2. /\ pc[r] = "running" /\ pool[r].call[pool[r].current] = "evaluated"
      /\ recorded' = [recorded EXCEPT ![r] = @ + 1] /\ GoTo(r, "recording")
      /\ UNCHANGED <<file, lock, args, selected, pool, resumed, invoked>>
  BY DEF Receive, CurrentOutcome
<1>3. recorded[r] = pool[r].current - 1 /\ pool[r].current # 0
  BY <1>1, <1>2 DEF RunnerOK, RunnerFacts
<1>4. pool[r].current \in 0 .. MaxItems
  BY <1>1 DEF Alone, PoolOK, PoolShape, Pool
<1>5. recorded[r] + 1 = pool[r].current
  BY <1>3, <1>4, MaxItemsAssumption
<1>6. Shape' /\ Others(r)
  BY <1>1, <1>2, <1>4, <1>5 DEF Shape, Others, GoTo, Pc
<1>7. pc'[r] = "recording" /\ recorded'[r] = pool[r].current
  BY <1>1, <1>2, <1>5 DEF Shape, GoTo
<1>8. Alone(r)'
  BY <1>1, <1>2, <1>7 DEF Alone, Holding, Looping
<1>9. RunnerOK(r)'
  BY <1>1, <1>2, <1>7 DEF RunnerOK, RunnerFacts
<1>10. QED BY <1>2, <1>6, <1>8, <1>9, StepOfOne

LEMMA RecordPreserves ==
  ASSUME IInv, NEW r \in Runners, Record(r)
  PROVE  IInv'
<1> DEFINE e == args[r].experiment
           n == selected[r][pool[r].current]
           p == pool[r]
           q == Refill(p)
<1>1. /\ Shape /\ Alone(r) /\ RunnerOK(r) /\ r # None
  BY AtRunner
<1>2. /\ pc[r] = "recording" /\ file' = Appended(file, e, n) /\ Advance(r, q)
      /\ UNCHANGED <<lock, args, selected, resumed, recorded, invoked>>
  BY DEF Record
<1>3. /\ lock = r /\ e \in Experiment
      /\ n = resumed[r] + p.current
      /\ GoodFile(file', Experiment, Problem) /\ Ready(file', e, n + 1)
  BY <1>2, AppendInTurn
<1>4. /\ PoolOK(p) /\ p.size = Len(selected[r]) /\ p.current # 0
      /\ p.call[p.current] = "evaluated" /\ recorded[r] = p.current
      /\ \A i \in Queued(p) : p.current <= i
      /\ \A k \in 1 .. Len(selected[r]) : selected[r][k] = resumed[r] + k
  BY <1>1, <1>2 DEF Alone, RunnerOK, RunnerFacts
<1>5. /\ p.current \in Nat /\ resumed[r] \in Nat /\ recorded[r] \in Nat
  BY <1>1, <1>4, MaxItemsAssumption DEF PoolOK, PoolShape, Pool, Shape
<1> HIDE DEF e, n, p
<1>6. /\ PoolOK(q) /\ q.size = p.size
      /\ (q.current = 0 /\ p.current = p.size) \/ q.current = p.current + 1
  BY <1>4, RefillOK
<1>7. \A i \in Queued(q) : i \in Index /\ i <= q.size /\ p.current < i
  BY <1>4, <1>6, RefillQueued, QueuedTaken
<1> HIDE DEF q
<1>8. q \in Pool
  BY <1>6 DEF PoolOK, PoolShape
<1>9. Shape' /\ Others(r)
  BY <1>1, <1>2, <1>8 DEF Shape, Others, Advance, GoTo, Pc
<1>10. /\ pc'[r] = IF q.current = 0 THEN "returning" ELSE "running"
       /\ pool'[r] = q /\ args' = args /\ lock' = lock
       /\ UNCHANGED <<selected, resumed, recorded>>
  BY <1>1, <1>2 DEF Shape, Advance, GoTo
<1>11. Alone(r)'
  BY <1>1, <1>2, <1>6, <1>10 DEF Alone, Holding, Looping
<1>12. RunnerOK(r)'
  <2>1. CASE q.current = 0
    <3>1. Queued(q) = {}
      BY <1>5, <1>6, <1>7, <2>1 DEF Index
    <3>2. Sound(file') => Records(file') = resumed[r] + recorded[r]
      BY <1>3, <1>4, <1>5 DEF Ready
    <3>3. QED
      BY <1>4, <1>6, <1>10, <2>1, <3>1, <3>2 DEF RunnerOK, RunnerFacts
  <2>2. CASE q.current # 0
    <3>1. q.current = p.current + 1
      BY <1>6, <2>2
    <3>2. n + 1 = resumed[r] + q.current /\ recorded[r] = q.current - 1
      BY <1>3, <1>4, <1>5, <3>1
    <3>3. Ready(file', args'[r].experiment, resumed[r] + q.current)
      BY <1>3, <1>10, <3>2 DEF e
    <3>4. \A i \in Queued(q) : q.current <= i
      BY <1>5, <1>7, <3>1 DEF Index
    <3>5. QED
      BY <1>4, <1>6, <1>10, <2>2, <3>2, <3>3, <3>4 DEF RunnerOK, RunnerFacts
  <2>3. QED BY <2>1, <2>2
<1>13. QED BY <1>3, <1>9, <1>10, <1>11, <1>12, StepOfOne

(* A call that is taken, ended or cancelled changes nothing the runner     *)
(* knows.                                                                  *)
LEMMA CallPreserves ==
  ASSUME IInv, NEW r \in Runners,
         \/ \E i \in Index : WorkerStart(r, i) \/ WorkerEnd(r, i)
         \/ Cancel(r)
  PROVE  IInv'
<1>1. /\ Shape /\ Alone(r) /\ RunnerOK(r) /\ r # None /\ PoolOK(pool[r])
  BY AtRunner DEF Alone
<1> DEFINE p == pool[r]
           q == pool'[r]
<1>2. UNCHANGED <<file, lock, pc, args, selected, resumed, recorded, invoked>>
  BY DEF WorkerStart, WorkerEnd, Cancel
<1> DEFINE Kept == /\ PoolOK(q) /\ q.size = p.size /\ q.current = p.current
                   /\ Queued(q) \subseteq Queued(p)
                   /\ pool' = [pool EXCEPT ![r] = q]
                   /\ \A j \in Index : p.call[j] = "evaluated" => q.call[j] = p.call[j]
<1>3. Kept
  <2>1. ASSUME NEW i \in Index, WorkerStart(r, i)
        PROVE  Kept
    <3>1. i \in Queued(p) /\ p.call[i] = "queued"
      BY <2>1 DEF WorkerStart, CanStart, Queued
    <3>2. pool' = [pool EXCEPT ![r] = StartCall(p, i)] /\ q = StartCall(p, i)
      BY <1>1, <2>1 DEF WorkerStart, Shape
    <3> HIDE DEF p, q
    <3>3. QED BY <1>1, <3>1, <3>2, StartOK DEF p
  <2>2. ASSUME NEW i \in Index, WorkerEnd(r, i)
        PROVE  Kept
    <3>1. i \in Running(p) /\ p.call[i] = "running"
      BY <2>2 DEF WorkerEnd, Running
    <3>2. PICK o \in Outcome : /\ pool' = [pool EXCEPT ![r] = EndCall(p, i, o)]
                               /\ q = EndCall(p, i, o)
      BY <1>1, <2>2 DEF WorkerEnd, Shape
    <3> HIDE DEF p, q
    <3>3. QED BY <1>1, <3>1, <3>2, EndOK DEF p
  <2>3. CASE Cancel(r)
    <3>1. PICK i \in Index : /\ i \in Queued(p)
                             /\ pool' = [pool EXCEPT ![r] = CancelCall(p, i)]
      BY <2>3 DEF Cancel, CanCancel
    <3>2. q = CancelCall(p, i) /\ p.call[i] = "queued"
      BY <1>1, <3>1 DEF Shape, Queued
    <3> HIDE DEF p, q
    <3>3. QED BY <1>1, <3>1, <3>2, CancelOK DEF p
  <2>4. QED BY <2>1, <2>2, <2>3
<1> HIDE DEF p, q
<1>4. q \in Pool
  BY <1>3 DEF PoolOK, PoolShape
<1>5. Shape' /\ Others(r)
  BY <1>1, <1>2, <1>3, <1>4 DEF Shape, Others
<1>6. Alone(r)'
  BY <1>1, <1>2, <1>3 DEF Alone, q
<1>7. pc[r] = "recording" => p.current \in Index /\ p.call[p.current] = "evaluated"
  BY AboutToAppend DEF p
<1>8. RunnerFacts(file, pc[r], args[r], selected[r], q, resumed[r], recorded[r])
  <2>1. RunnerFacts(file, pc[r], args[r], selected[r], p, resumed[r], recorded[r])
    BY <1>1 DEF RunnerOK, p
  <2>2. QED BY <1>3, <1>7, <2>1 DEF RunnerFacts
<1>9. RunnerOK(r)'
  BY <1>2, <1>8 DEF RunnerOK, q
<1>10. QED BY <1>2, <1>5, <1>6, <1>9, StepOfOne

----------------------------------------------------------------------------
(* The invariant                                                           *)

LEMMA InitIInv == Init => IInv
<1> SUFFICES ASSUME Init PROVE IInv
  OBVIOUS
<1>1. /\ PoolOK(EmptyPool) /\ EmptyPool.taken = 0 /\ EmptyPool.size = 0
      /\ EmptyPool.current = 0
  <2>1. 1 \in Nat \ {0} /\ 0 \in 0 .. MaxItems
    BY MaxItemsAssumption
  <2>2. QED BY <2>1, NewPoolOK DEF EmptyPool
<1>2. EmptyPool \in Pool /\ Queued(EmptyPool) = {}
  BY <1>1 DEF PoolOK, PoolShape, Queued, Index
<1> HIDE DEF EmptyPool
<1>3. /\ NoFile.lines = <<>> /\ NoFile.end = "newline"
      /\ NoFile \in Files(Experiment, Problem)
  <2>1. <<>> \in Seq(Lines(Experiment, Problem))
    OBVIOUS
  <2>2. QED BY <2>1 DEF NoFile, Files
<1>4. GoodFile(file, Experiment, Problem)
  <2>1. Problem \subseteq Nat \ {0}
    BY MaxItemsAssumption DEF Problem, Index
  <2>2. QED
    BY <1>3, <2>1
       DEF Init, GoodFile, WellEnded, Regular, Ordered, SameExperiment
<1>5. Shape
  BY <1>2, MaxItemsAssumption, CellAssumption DEF Init, Shape, Pc
<1>6. ASSUME NEW r \in Runners
      PROVE  Alone(r) /\ RunnerOK(r)
  <2>1. /\ pc[r] = "idle" /\ pool[r] = EmptyPool /\ selected[r] = <<>>
        /\ resumed[r] = 0 /\ recorded[r] = 0 /\ lock # r
    BY CellAssumption DEF Init
  <2>2. Alone(r)
    BY <1>1, <2>1 DEF Alone, Holding, Looping
  <2>3. RunnerOK(r)
    BY <1>1, <1>2, <2>1 DEF RunnerOK, RunnerFacts
  <2>4. QED BY <2>2, <2>3
<1>7. TypeOK
  BY <1>3, <1>5, <1>6 DEF Init, TypeOK, Shape, Alone
<1>8. QED BY <1>4, <1>6, <1>7 DEF IInv

LEMMA RunnerStepIInv ==
  ASSUME IInv, NEW r \in Runners,
         \/ Lock(r) \/ LockConflict(r) \/ Step(r)
         \/ RecordThenRaise(r) \/ AppendFails(r) \/ InterruptWait(r)
         \/ InterruptDrain(r) \/ Crash(r)
  PROVE  IInv'
<1>1. /\ Alone(r) /\ RunnerOK(r) /\ GoodFile(file, Experiment, Problem)
  BY AtRunner
<1>2. CASE Lock(r)
  BY <1>2, LockPreserves
<1>3. CASE LockConflict(r)
  BY <1>3, LockConflictPreserves
<1>4. CASE Select(r)
  BY <1>4, SelectPreserves
<1>5. CASE Receive(r)
  BY <1>5, ReceivePreserves
<1>6. CASE Record(r)
  BY <1>6, RecordPreserves
<1>7. CASE Reject(r) \/ Return(r) \/ Drained(r)
  BY <1>7, ExitPreserves DEF Reject, Return, Drained
<1>8. CASE Joined(r)
  BY <1>8, ExitPreserves DEF Joined, Holding, Looping
<1>9. CASE Crash(r)
  <2>1. UNCHANGED file \/ (lock = r /\ GoodFile(file', Experiment, Problem))
    BY <1>9, AppendInTurn DEF Crash
  <2>2. QED BY <1>9, <2>1, ExitPreserves DEF Crash
<1>10. CASE StopAtError(r)
  <2>1. /\ pc[r] = "running" /\ GoTo(r, "unwinding") /\ Release(r)
        /\ UNCHANGED <<file, args, selected, pool, resumed, recorded, invoked>>
    BY <1>10 DEF StopAtError, Raise
  <2>2. pool' = [pool EXCEPT ![r] = pool[r]]
    BY <2>1, AtRunner DEF Shape
  <2>3. QED BY <2>1, <2>2, LeavePreserves
<1>11. CASE RecordThenRaise(r) \/ AppendFails(r)
  <2>1. /\ pc[r] = "recording" /\ GoTo(r, "unwinding") /\ Release(r)
        /\ UNCHANGED <<args, selected, pool, resumed, recorded, invoked>>
    BY <1>11 DEF RecordThenRaise, AppendFails, Raise
  <2>2. lock = r /\ GoodFile(file', Experiment, Problem)
    BY <1>11, <2>1, AppendInTurn DEF RecordThenRaise, AppendFails
  <2>3. pool' = [pool EXCEPT ![r] = pool[r]]
    BY <2>1, AtRunner DEF Shape
  <2>4. QED BY <2>1, <2>2, <2>3, LeavePreserves
<1>12. CASE ResultRaises(r) \/ InterruptWait(r)
  <2>1. /\ pc[r] = "running" /\ GoTo(r, "draining")
        /\ pool' = [pool EXCEPT ![r] = Dropped(pool[r])]
        /\ UNCHANGED <<file, lock, args, selected, resumed, recorded, invoked>>
    BY <1>12 DEF ResultRaises, InterruptWait, CutWait
  <2>2. pc[r] \in Holding
    BY <2>1 DEF Holding, Looping
  <2>3. QED BY <2>1, <2>2, LeavePreserves
<1>13. CASE InterruptDrain(r)
  <2>1. /\ pc[r] = "draining" /\ GoTo(r, "joining") /\ Release(r)
        /\ UNCHANGED <<file, args, selected, pool, resumed, recorded, invoked>>
    BY <1>13 DEF InterruptDrain
  <2>2. pool' = [pool EXCEPT ![r] = pool[r]]
    BY <2>1, AtRunner DEF Shape
  <2>3. QED BY <2>1, <2>2, LeavePreserves
<1>14. CASE FreeGenerator(r)
  <2>1. /\ pc[r] = "unwinding" /\ GoTo(r, "joining")
        /\ pool' = [pool EXCEPT ![r] = Dropped(pool[r])]
        /\ UNCHANGED <<file, lock, args, selected, resumed, recorded, invoked>>
    BY <1>14 DEF FreeGenerator
  <2>2. pc[r] \notin Holding
    BY <2>1 DEF Holding, Looping
  <2>3. QED BY <2>1, <2>2, LeavePreserves
<1>15. CASE Cancel(r)
  BY <1>15, CallPreserves
<1>16. QED
  BY <1>2, <1>3, <1>4, <1>5, <1>6, <1>7, <1>8, <1>9, <1>10, <1>11, <1>12, <1>13,
     <1>14, <1>15 DEF Step

LEMMA StepIInv == IInv /\ [Next]_vars => IInv'
<1> SUFFICES ASSUME IInv, [Next]_vars PROVE IInv'
  OBVIOUS
<1>1. CASE Next
  BY <1>1, RunnerStepIInv, CallPreserves DEF Next
<1>2. CASE UNCHANGED vars
  BY <1>2 DEF vars, IInv, TypeOK, RunnerOK
<1>3. QED BY <1>1, <1>2

LEMMA Invariant == Spec => []IInv
BY InitIInv, StepIInv, PTL DEF Spec

----------------------------------------------------------------------------
(* What follows                                                            *)

(* What the ledger holds.                                                  *)
LEMMA AtLedger ==
  ASSUME IInv
  PROVE  /\ Sound(file) => /\ CompletedIds(file) = 1 .. Records(file)
                          /\ Cardinality(CompletedIds(file)) = Records(file)
                          /\ Records(file) \in 0 .. MaxItems
         /\ CompletedIds(file) \subseteq Problem
<1>1. GoodFile(file, Experiment, Problem)
  BY DEF IInv
<1>2. file.lines \in Seq(Lines(Experiment, Problem))
  BY <1>1 DEF GoodFile, WellEnded, Files
<1>3. CompletedIds(file) \subseteq Problem
  BY <1>2, SampleIds DEF CompletedIds
<1>4. QED BY <1>1, <1>3, RegularIds

(* The variables stay in their types, and whoever is inside exclusive_run  *)
(* holds the lock alone.                                                   *)
THEOREM TypeCorrect == Spec => []TypeOK
<1>1. IInv => TypeOK
  BY DEF IInv
<1>2. QED BY <1>1, Invariant, PTL

(* The records are in dataset order and no problem is recorded twice.      *)
THEOREM LedgerInOrder == Spec => []DatasetOrder
<1>1. IInv => DatasetOrder
  BY DEF IInv, GoodFile, Ordered, DatasetOrder
<1>2. QED BY <1>1, Invariant, PTL

(* A ledger that parses holds exactly the first problems of the dataset.   *)
THEOREM LedgerWithoutGaps == Spec => []NoGap
<1>1. IInv => NoGap
  BY AtLedger DEF NoGap
<1>2. QED BY <1>1, Invariant, PTL

(* The ledger never mixes two experiments.                                 *)
THEOREM LedgerOfOneExperiment == Spec => []OneExperiment
<1>1. IInv => OneExperiment
  BY DEF IInv, GoodFile, SameExperiment, OneExperiment
<1>2. QED BY <1>1, Invariant, PTL

(* The RunSummary an invocation returns adds up to the ledger.             *)
THEOREM SummaryCorrect == Spec => []SummaryAccounts
<1>1. ASSUME IInv, Sound(file), NEW r \in Runners, pc[r] = "returning"
      PROVE  resumed[r] + recorded[r] = Cardinality(CompletedIds(file))
  BY <1>1, AtLedger DEF IInv, RunnerOK, RunnerFacts
<1>2. IInv => SummaryAccounts
  BY <1>1 DEF SummaryAccounts
<1>3. QED BY <1>2, Invariant, PTL

(* No runner inside the lock starts a problem that is in the ledger.       *)
THEOREM NoneRunAgain == Spec => CompletedNotRerun
<1>1. ASSUME IInv, NEW r \in Runners, NEW i \in Index, lock = r, WorkerStart(r, i)
      PROVE  selected[r][i] \notin CompletedIds(file)
  <2>1. Shape /\ Alone(r) /\ RunnerOK(r) /\ PoolOK(pool[r])
    BY <1>1, AtRunner DEF Alone
  <2>2. i \in Queued(pool[r]) /\ pc[r] \in Holding
    BY <1>1, <2>1 DEF WorkerStart, CanStart, Alone
  <2>3. pc[r] \in {"running", "recording", "draining"}
    BY <2>1, <2>2 DEF RunnerOK, RunnerFacts, Holding, Looping
  <2>4. /\ pool[r].size = Len(selected[r])
        /\ \A k \in 1 .. Len(selected[r]) : selected[r][k] = resumed[r] + k
        /\ Ready(file, args[r].experiment, resumed[r] + pool[r].current)
        /\ pool[r].current <= i
    BY <2>1, <2>2, <2>3 DEF RunnerOK, RunnerFacts
  <2>5. i \in Nat /\ i \in 1 .. pool[r].size /\ pool[r].size \in Nat
    <3>1. i \in 1 .. MaxItems /\ i <= pool[r].size
      BY <2>1, <2>2, QueuedTaken DEF Index
    <3>2. pool[r].size \in Nat
      BY <2>1, MaxItemsAssumption DEF PoolOK, PoolShape, Pool
    <3>3. QED BY <3>1, <3>2, MaxItemsAssumption
  <2>6. selected[r][i] = resumed[r] + i
    BY <2>4, <2>5
  <2>7. /\ resumed[r] \in Nat /\ pool[r].current \in Nat
    BY <2>1, MaxItemsAssumption DEF Shape, PoolOK, PoolShape, Pool
  <2>8. \A p \in CompletedIds(file) :
          p \in Problem /\ p < resumed[r] + pool[r].current
    <3>1. \A k \in DOMAIN file.lines : SampleAt(file, k) =>
            file.lines[k].id < resumed[r] + pool[r].current
      BY <2>4 DEF Ready
    <3>2. QED BY <1>1, <3>1, AtLedger DEF CompletedIds
  <2>9. \A p \in CompletedIds(file) : p \in Nat /\ p < resumed[r] + i
    BY <2>4, <2>5, <2>7, <2>8, MaxItemsAssumption DEF Problem, Index
  <2>10. resumed[r] + i \in Nat
    BY <2>5, <2>7
  <2>11. QED BY <2>6, <2>9, <2>10
<1>2. IInv /\ [Next]_vars =>
        [\A r \in Runners : \A i \in Index :
           lock = r /\ WorkerStart(r, i) => selected[r][i] \notin CompletedIds(file)]_vars
  BY <1>1
<1>3. QED BY <1>2, Invariant, PTL DEF Spec, CompletedNotRerun

(* Only a runner about to append changes the file.                         *)
LEMMA FileStep ==
  ASSUME [Next]_vars, file' # file
  PROVE  \E r \in Runners :
           /\ pc[r] = "recording"
           /\ file' \in TornAppends(file, args[r].experiment,
                                    selected[r][pool[r].current])
                        \cup {Appended(file, args[r].experiment,
                                       selected[r][pool[r].current])}
<1>1. Next
  BY DEF vars
<1>2. PICK r \in Runners :
        \/ Lock(r) \/ LockConflict(r) \/ Step(r)
        \/ RecordThenRaise(r) \/ AppendFails(r) \/ InterruptWait(r)
        \/ InterruptDrain(r) \/ Crash(r)
        \/ \E i \in Index : WorkerStart(r, i) \/ WorkerEnd(r, i)
  BY <1>1, Zenon DEF Next
<1>3. Record(r) \/ RecordThenRaise(r) \/ AppendFails(r) \/ Crash(r)
  BY <1>2, Zenon
     DEF Lock, LockConflict, Step, Select, Reject, Receive, StopAtError,
         ResultRaises, InterruptWait, CutWait, Return, Cancel, Drained, InterruptDrain,
         FreeGenerator, Joined, WorkerStart, WorkerEnd
<1>4. QED BY <1>3 DEF Record, RecordThenRaise, AppendFails, Crash

(* Every record that enters the ledger is of a problem that the holder of  *)
(* the lock has evaluated.                                                 *)
THEOREM RecordsAreEarned == Spec => OnlySuccessRecorded
<1>1. ASSUME IInv, [Next]_vars, NEW p \in CompletedIds(file') \ CompletedIds(file)
      PROVE  \E r \in Runners : \E i \in Index :
               /\ lock = r
               /\ pool[r].call[i] = "evaluated"
               /\ selected[r][i] = p
               /\ \E k \in DOMAIN file'.lines :
                    file'.lines[k] = Sample(args[r].experiment, p)
  <2>1. file' # file
    BY <1>1
  <2>2. PICK r \in Runners :
          /\ pc[r] = "recording"
          /\ file' \in TornAppends(file, args[r].experiment,
                                   selected[r][pool[r].current])
                       \cup {Appended(file, args[r].experiment,
                                      selected[r][pool[r].current])}
    BY <1>1, <2>1, FileStep
  <2> DEFINE e == args[r].experiment
             i == pool[r].current
             n == selected[r][i]
  <2>3. /\ lock = r /\ e \in Experiment /\ n \in Problem
        /\ CompletedIds(file') \subseteq CompletedIds(file) \cup {n}
    BY <1>1, <2>2, AppendInTurn
  <2>4. i \in Index /\ pool[r].call[i] = "evaluated"
    BY <1>1, <2>2, AboutToAppend
  <2>5. WellEnded(file, Experiment, Problem)
    BY <1>1, AtRunner DEF GoodFile
  <2>6. AddsOnly(file, file', e, n)
    BY <2>2, <2>3, <2>5, AppendAddsOnly
  <2>7. p = n
    BY <1>1, <2>3
  <2>8. PICK k \in DOMAIN file'.lines : SampleAt(file', k) /\ file'.lines[k].id = p
    BY <1>1 DEF CompletedIds
  <2>9. ~ \E j \in DOMAIN file.lines : SampleAt(file, j) /\ file.lines[j].id = p
    BY <1>1 DEF CompletedIds
  <2> HIDE DEF e, n, i
  <2>10. file'.lines[k] = Sample(e, n)
    BY <2>6, <2>8, <2>9, SampleAdded
  <2>11. QED BY <2>3, <2>4, <2>7, <2>8, <2>10 DEF e, n, i
<1>2. IInv /\ [Next]_vars =>
        [\A p \in CompletedIds(file') \ CompletedIds(file) :
           \E r \in Runners : \E i \in Index :
             /\ lock = r
             /\ pool[r].call[i] = "evaluated"
             /\ selected[r][i] = p
             /\ \E k \in DOMAIN file'.lines :
                  file'.lines[k] = Sample(args[r].experiment, p)]_vars
  BY <1>1
<1>3. QED BY <1>2, Invariant, PTL DEF Spec, OnlySuccessRecorded

(* The cell implements the ledger: while the file parses, what happens to  *)
(* it is that the next problem is committed or that it is damaged.         *)
THEOREM Implementation == Spec => ImplementsLedger
<1> DEFINE held == IF Sound(file) THEN Cardinality(CompletedIds(file)) ELSE 0
<1>1. Init => Promise!Init
  <2> SUFFICES ASSUME Init PROVE held = 0 /\ Sound(file) = TRUE
    BY DEF Promise!Init
  <2>1. IInv /\ file.lines = <<>>
    BY InitIInv DEF Init, NoFile
  <2>2. Sound(file) /\ Records(file) = 0
    BY <2>1 DEF Sound, Records
  <2>3. QED BY <2>1, <2>2, AtLedger
<1>2. ASSUME IInv, [Next]_vars
      PROVE  [Promise!Next]_Promise!vars
  <2>1. CASE file' = file
    BY <2>1 DEF Promise!vars
  <2>2. CASE file' # file
    <3>1. PICK r \in Runners :
            /\ pc[r] = "recording"
            /\ file' \in TornAppends(file, args[r].experiment,
                                     selected[r][pool[r].current])
                         \cup {Appended(file, args[r].experiment,
                                        selected[r][pool[r].current])}
      BY <1>2, <2>2, FileStep
    <3>2. Sound(file') =>
            Sound(file) /\ Records(file') \in {Records(file), Records(file) + 1}
      BY <1>2, <3>1, AppendInTurn
    <3>3. /\ Sound(file) => held = Records(file)
          /\ ~Sound(file) => held = 0
          /\ Sound(file) => Records(file) \in 0 .. MaxItems
      BY <1>2, AtLedger
    <3>4. IInv'
      BY <1>2, StepIInv
    <3>5. /\ Sound(file') => held' = Records(file')
          /\ ~Sound(file') => held' = 0
          /\ Sound(file') => Records(file') \in 0 .. MaxItems
      <4>1. GoodFile(file', Experiment, Problem)
        BY <3>4 DEF IInv
      <4>2. QED BY <4>1, RegularIds
    <3> HIDE DEF held
    <3>6. CASE Sound(file')
      <4>1. Sound(file) = TRUE /\ Sound(file') = TRUE
        BY <3>2, <3>6
      <4>2. held' = held \/ (held < MaxItems /\ held' = held + 1)
        BY <3>2, <3>3, <3>5, <3>6, MaxItemsAssumption
      <4>3. QED
        BY <4>1, <4>2 DEF held, Promise!Next, Promise!Commit, Promise!vars
    <3>7. CASE ~Sound(file') /\ Sound(file)
      <4>1. Sound(file) = TRUE /\ Sound(file') = FALSE /\ held' = 0
        BY <3>5, <3>7
      <4>2. QED
        BY <4>1 DEF held, Promise!Next, Promise!Damage
    <3>8. CASE ~Sound(file') /\ ~Sound(file)
      <4>1. Sound(file) = FALSE /\ Sound(file') = FALSE /\ held' = 0 /\ held = 0
        BY <3>3, <3>5, <3>8
      <4>2. QED
        BY <4>1 DEF held, Promise!vars
    <3>9. QED BY <3>6, <3>7, <3>8
  <2>3. QED BY <2>1, <2>2
<1>3. QED
  BY <1>1, <1>2, Invariant, PTL DEF Spec, Promise!Spec, ImplementsLedger

----------------------------------------------------------------------------
(* Progress, without fairness                                              *)

(* What a step can be to a process that runs.                              *)
Moves(r) ==
  LET p == pool[r]
      q == pool'[r]
  IN \/ pc'[r] = pc[r] /\ q = p
     \/ /\ pc'[r] = pc[r]
        /\ \E i \in Index : \/ i \in Queued(p) /\ q = StartCall(p, i)
                            \/ i \in Running(p) /\ \E o \in Outcome : q = EndCall(p, i, o)
     \/ /\ pc'[r] = pc[r] /\ pc[r] \in {"draining", "joining"}
        /\ \E i \in Queued(p) : q = CancelCall(p, i)
     \/ pc'[r] = "idle" /\ q = EmptyPool
     \/ /\ pc[r] = "locked"
        /\ \E n \in 0 .. MaxItems : q = Prime(NewPool(args[r].width, n))
        /\ pc'[r] = IF q.current = 0 THEN "returning" ELSE "running"
     \/ pc[r] = "running" /\ pc'[r] = "recording" /\ q = p
     \/ /\ pc[r] = "recording" /\ q = Refill(p)
        /\ pc'[r] = IF q.current = 0 THEN "returning" ELSE "running"
     \/ pc[r] \in {"running", "recording"} /\ pc'[r] = "unwinding" /\ q = p
     \/ pc[r] = "running" /\ pc'[r] = "draining" /\ q = Dropped(p)
     \/ pc[r] = "draining" /\ pc'[r] = "joining" /\ q = p
     \/ pc[r] = "unwinding" /\ pc'[r] = "joining" /\ q = Dropped(p)

LEMMA WorkerMoves ==
  ASSUME IInv, NEW r \in Runners, NEW i \in Index,
         WorkerStart(r, i) \/ WorkerEnd(r, i)
  PROVE  Moves(r) /\ \A s \in Runners \ {r} : UNCHANGED <<pc[s], pool[s]>>
<1>1. pool \in [Runners -> Pool] /\ pc' = pc
  BY AtRunner DEF Shape, WorkerStart, WorkerEnd
<1>2. CASE WorkerStart(r, i)
  <2>1. i \in Queued(pool[r]) /\ pool' = [pool EXCEPT ![r] = StartCall(pool[r], i)]
    BY <1>2 DEF WorkerStart, CanStart
  <2>2. QED BY <1>1, <2>1 DEF Moves
<1>3. CASE WorkerEnd(r, i)
  <2>1. PICK o \in Outcome : /\ i \in Running(pool[r])
                             /\ pool' = [pool EXCEPT ![r] = EndCall(pool[r], i, o)]
    BY <1>3 DEF WorkerEnd
  <2>2. QED BY <1>1, <2>1 DEF Moves
<1>4. QED BY <1>2, <1>3

LEMMA SelectMoves ==
  ASSUME IInv, NEW r \in Runners, Select(r)
  PROVE  /\ pc[r] = "locked"
         /\ \E n \in 0 .. MaxItems : Advance(r, Prime(NewPool(args[r].width, n)))
<1> DEFINE m == Records(file)
           most == args[r].batch
           last == IF m + most < MaxItems THEN m + most ELSE MaxItems
           batch == [k \in 1 .. (last - m) |-> m + k]
<1>1. /\ Alone(r) /\ GoodFile(file, Experiment, Problem) /\ pc[r] = "locked"
  BY AtRunner DEF Select
<1>2. Sound(file)
  BY <1>1, AcceptedFile DEF Select
<1>3. CompletedIds(file) = 1 .. m /\ m \in 0 .. MaxItems
  BY <1>1, <1>2, RegularIds
<1>4. most \in Nat \ {0}
  BY <1>1, CellAssumption DEF Args, Alone
<1>5. Selection(1 .. m, most) = batch /\ last \in m .. MaxItems
  BY <1>3, <1>4, SelectionAfter
<1>6. Len(batch) \in 0 .. MaxItems
  <2>1. last - m \in 0 .. MaxItems
    BY <1>3, <1>5, MaxItemsAssumption
  <2> HIDE DEF last, m
  <2>2. QED BY <2>1
<1>7. Advance(r, Prime(NewPool(args[r].width, Len(batch))))
  BY <1>3, <1>5 DEF Select
<1>8. QED BY <1>1, <1>6, <1>7

LEMMA RunnerMoves ==
  ASSUME IInv, NEW r \in Runners,
         \/ Lock(r) \/ LockConflict(r) \/ Step(r)
         \/ RecordThenRaise(r) \/ AppendFails(r) \/ InterruptWait(r)
         \/ InterruptDrain(r) \/ Crash(r)
  PROVE  /\ \/ Moves(r)
            \/ pc[r] = "idle" /\ pc'[r] = "locked" /\ pool'[r] = pool[r]
         /\ \A s \in Runners \ {r} : UNCHANGED <<pc[s], pool[s]>>
<1>1. pool \in [Runners -> Pool] /\ pc \in [Runners -> Pc]
  BY AtRunner DEF Shape
<1>2. CASE Lock(r)
  BY <1>1, <1>2 DEF Lock, GoTo
<1>3. CASE LockConflict(r)
  BY <1>3 DEF LockConflict, Moves
<1>4. CASE Select(r)
  <2>1. PICK n \in 0 .. MaxItems : Advance(r, Prime(NewPool(args[r].width, n)))
    BY <1>4, SelectMoves
  <2>2. pc[r] = "locked"
    BY <1>4, SelectMoves
  <2>3. QED BY <1>1, <2>1, <2>2 DEF Advance, GoTo, Moves
<1>5. CASE Receive(r)
  BY <1>1, <1>5 DEF Receive, GoTo, Moves
<1>6. CASE Record(r)
  BY <1>1, <1>6 DEF Record, Advance, GoTo, Moves
<1>7. CASE Reject(r) \/ Return(r) \/ Drained(r) \/ Joined(r) \/ Crash(r)
  <2>1. Exit(r)
    BY <1>7 DEF Reject, Return, Drained, Joined, Crash
  <2>2. QED BY <1>1, <2>1 DEF Exit, Moves
<1>8. CASE StopAtError(r) \/ RecordThenRaise(r) \/ AppendFails(r)
  BY <1>1, <1>8 DEF StopAtError, RecordThenRaise, AppendFails, Raise, GoTo, Moves
<1>9. CASE ResultRaises(r) \/ InterruptWait(r)
  BY <1>1, <1>9 DEF ResultRaises, InterruptWait, CutWait, GoTo, Moves
<1>10. CASE InterruptDrain(r)
  BY <1>1, <1>10 DEF InterruptDrain, GoTo, Moves
<1>11. CASE FreeGenerator(r)
  BY <1>1, <1>11 DEF FreeGenerator, GoTo, Moves
<1>12. CASE Cancel(r)
  <2>1. PICK i \in Index : /\ i \in Queued(pool[r])
                           /\ pool' = [pool EXCEPT ![r] = CancelCall(pool[r], i)]
    BY <1>12 DEF Cancel, CanCancel
  <2>2. pc' = pc /\ pc[r] \in {"draining", "joining"}
    BY <1>12 DEF Cancel
  <2>3. QED BY <1>1, <2>1, <2>2 DEF Moves
<1>13. QED
  BY <1>2, <1>3, <1>4, <1>5, <1>6, <1>7, <1>8, <1>9, <1>10, <1>11, <1>12 DEF Step

(* Every step is a move of every process that runs.                        *)
LEMMA AllMove ==
  ASSUME IInv, [Next]_vars, NEW s \in Runners
  PROVE  \/ Moves(s)
         \/ pc[s] = "idle" /\ pc'[s] = "locked" /\ pool'[s] = pool[s]
<1>1. UNCHANGED <<pc[s], pool[s]>> => Moves(s)
  BY DEF Moves
<1>2. CASE UNCHANGED vars
  BY <1>1, <1>2 DEF vars
<1>3. CASE Next
  BY <1>1, <1>3, RunnerMoves, WorkerMoves DEF Next
<1>4. QED BY <1>2, <1>3

(* What progress rests on besides IInv: nothing was cancelled that the     *)
(* loop may wait for, and a process that has not read the file has no pool. *)
Clean(r) ==
  /\ pc[r] \in {"running", "recording"} => NoneCancelled(pool[r])
  /\ pc[r] \in {"idle", "locked"} => pool[r] = EmptyPool

LEMMA MovesClean ==
  ASSUME IInv, NEW r \in Runners, Clean(r), Moves(r)
  PROVE  Clean(r)'
<1> DEFINE p == pool[r]
           q == pool'[r]
<1>1. PoolOK(p) /\ (pc[r] # "idle" => args[r] \in Args) /\ RunnerOK(r)
  BY AtRunner DEF Alone
<1>2. CASE pc'[r] = pc[r] /\ q = p
  BY <1>2 DEF Clean
<1>3. ASSUME pc'[r] = pc[r], NEW i \in Index,
             \/ i \in Queued(p) /\ q = StartCall(p, i)
             \/ i \in Running(p) /\ \E o \in Outcome : q = EndCall(p, i, o)
      PROVE  Clean(r)'
  <2>1. p # EmptyPool
    BY <1>3 DEF Queued, Running, EmptyPool, NewPool
  <2>2. NoneCancelled(p) => NoneCancelled(q)
    <3> HIDE DEF p, q
    <3>1. QED BY <1>1, <1>3, CallNoneCancelled
  <2>3. QED BY <1>3, <2>1, <2>2 DEF Clean
<1>4. CASE pc'[r] = "idle" /\ q = EmptyPool
  BY <1>4 DEF Clean
<1>5. ASSUME pc[r] = "locked", NEW n \in 0 .. MaxItems,
             q = Prime(NewPool(args[r].width, n)), pc'[r] \in {"returning", "running"}
      PROVE  Clean(r)'
  <2> DEFINE w == args[r].width
             b == NewPool(w, n)
  <2>1. w \in Nat \ {0}
    BY <1>1, <1>5, CellAssumption DEF Args
  <2>2. PoolShape(b) /\ b.width = w
    BY <2>1, <1>5, NewPoolOK DEF PoolOK
  <2>3. NoneCancelled(b)
    BY NewNoneCancelled
  <2>4. q = PopLeft(Submit(b, w))
    BY <1>5, <2>2 DEF Prime
  <2>5. NoneCancelled(q)
    <3> HIDE DEF b, w, q
    <3>1. QED BY <2>1, <2>2, <2>3, <2>4, SubmitNoneCancelled
  <2>6. QED BY <1>5, <2>5 DEF Clean
<1>6. CASE pc[r] = "running" /\ pc'[r] = "recording" /\ q = p
  BY <1>6 DEF Clean
<1>7. CASE pc[r] = "recording" /\ q = Refill(p) /\ pc'[r] \in {"returning", "running"}
  <2>1. q = PopLeft(Submit(p, 1)) /\ PoolShape(p) /\ NoneCancelled(p)
    BY <1>1, <1>7 DEF Refill, PoolOK, Clean
  <2>2. NoneCancelled(q)
    <3> HIDE DEF p, q
    <3>1. QED BY <2>1, SubmitNoneCancelled
  <2>3. QED BY <1>7, <2>2 DEF Clean
<1>8. CASE pc'[r] \in {"unwinding", "draining", "joining"}
  BY <1>8 DEF Clean
<1>9. QED
  BY <1>2, <1>3, <1>4, <1>5, <1>6, <1>7, <1>8 DEF Moves

LEMMA CleanKept ==
  Spec => [](\A r \in Runners : Clean(r))
<1>1. Init => \A r \in Runners : Clean(r)
  BY DEF Init, Clean
<1>2. IInv /\ (\A r \in Runners : Clean(r)) /\ [Next]_vars => (\A r \in Runners : Clean(r))'
  <2> SUFFICES ASSUME IInv, \A r \in Runners : Clean(r), [Next]_vars, NEW r \in Runners
               PROVE  Clean(r)'
    OBVIOUS
  <2>1. CASE pc[r] = "idle" /\ pc'[r] = "locked" /\ pool'[r] = pool[r]
    BY <2>1 DEF Clean
  <2>2. QED BY <2>1, AllMove, MovesClean
<1>3. QED BY <1>1, <1>2, Invariant, PTL DEF Spec

(* The guards of Step and of the workers' actions: some step of r's own is *)
(* possible.                                                               *)
HasStep(r) ==
  \/ pc[r] \in {"locked", "recording", "returning", "unwinding"}
  \/ pc[r] = "running" /\ CurrentOutcome(r) \in {"evaluated", "error", "raised"}
  \/ pc[r] \in {"draining", "joining"} /\ InFlight(pool[r]) = {}
  \/ PoolMoves(pool[r])

Unstuck == \A r \in Runners : pc[r] # "idle" \/ lock = r => HasStep(r)

(* Nothing gets stuck: a process that runs, and one that holds the lock,   *)
(* has a step of its own or of its workers, whatever the others do; the    *)
(* main thread never waits for a sample that no thread will evaluate.      *)
(* This is CanGoOn with the guards written out for ENABLED.                *)
THEOREM NeverStuck == Spec => []Unstuck
<1>1. ASSUME IInv, NEW r \in Runners, Clean(r), pc[r] # "idle" \/ lock = r
      PROVE  HasStep(r)
  <2>1. PoolOK(pool[r]) /\ (pc[r] \in Holding <=> lock = r) /\ pc[r] \in Pc /\ RunnerOK(r)
    BY <1>1, AtRunner DEF Alone, Shape
  <2>2. pc[r] # "idle"
    BY <1>1, <2>1 DEF Holding, Looping
  <2>3. CASE pc[r] = "running"
    <3>1. pool[r].current # 0 /\ NoneCancelled(pool[r])
      BY <1>1, <2>1, <2>3 DEF RunnerOK, RunnerFacts, Clean
    <3>2. pool[r].call[pool[r].current] \in Outcome \/ PoolMoves(pool[r])
      BY <2>1, <3>1, ResultOnItsWay
    <3>3. QED BY <2>3, <3>2, CellAssumption DEF HasStep, CurrentOutcome
  <2>4. CASE pc[r] \in {"draining", "joining"}
    <3>1. CASE Running(pool[r]) # {}
      BY <3>1 DEF HasStep, PoolMoves, Running
    <3>2. CASE Running(pool[r]) = {} /\ Queued(pool[r]) # {}
      BY <2>1, <3>2, QueuedMoves DEF HasStep, PoolOK, PoolShape
    <3>3. QED BY <2>4, <3>1, <3>2 DEF HasStep, InFlight
  <2>5. QED BY <2>1, <2>2, <2>3, <2>4 DEF HasStep, Pc
<1>2. IInv /\ (\A r \in Runners : Clean(r)) => Unstuck
  BY <1>1 DEF Unstuck
<1>3. QED BY <1>2, Invariant, CleanKept, PTL

(* How many steps, at most, a process has still to make: those of its      *)
(* samples, and two for each result that the main thread has to consume.   *)
Ahead(where, p) ==
  CASE where = "locked"    -> 2 * MaxItems + 4
    [] where = "running"   -> 2 * (MaxItems - p.current) + 4
    [] where = "recording" -> 2 * (MaxItems - p.current) + 3
    [] where \in {"unwinding", "draining"} -> 2
    [] OTHER -> 1

Remaining(r) ==
  IF pc[r] = "idle" THEN 0 ELSE Work(pool[r]) + Ahead(pc[r], pool[r])

MaxRemaining == 5 * MaxItems + 4

LEMMA AheadRange ==
  ASSUME NEW where \in Pc, NEW p, p.current \in 0 .. MaxItems,
         where \in {"running", "recording"} => p.current # 0
  PROVE  Ahead(where, p) \in 1 .. (2 * MaxItems + 4)
<1> DEFINE c == p.current
<1>1. c \in Nat /\ MaxItems \in Nat /\ c <= MaxItems
  BY MaxItemsAssumption
<1>2. /\ 2 * (MaxItems - c) + 4 \in 1 .. (2 * MaxItems + 4)
      /\ 2 * (MaxItems - c) + 3 \in 1 .. (2 * MaxItems + 4)
      /\ 2 * MaxItems + 4 \in 1 .. (2 * MaxItems + 4)
      /\ 1 \in 1 .. (2 * MaxItems + 4) /\ 2 \in 1 .. (2 * MaxItems + 4)
  <2> HIDE DEF c
  <2>1. QED BY <1>1
<1>3. CASE where = "locked"
  BY <1>2, <1>3 DEF Ahead
<1>4. CASE where = "running"
  BY <1>2, <1>4 DEF Ahead
<1>5. CASE where = "recording"
  BY <1>2, <1>5 DEF Ahead
<1>6. CASE where \in {"unwinding", "draining"}
  BY <1>2, <1>6 DEF Ahead
<1>7. CASE where \in {"idle", "returning", "joining"}
  BY <1>2, <1>7 DEF Ahead
<1>8. QED BY <1>3, <1>4, <1>5, <1>6, <1>7 DEF Pc

(* A step that leaves no more work and brings the main thread closer, or   *)
(* leaves less work and keeps the main thread where it is, is progress.    *)
LEMMA LessRemaining ==
  ASSUME NEW r, pc[r] # "idle",
         Ahead(pc[r], pool[r]) \in Nat, Ahead(pc'[r], pool'[r]) \in Nat,
         \/ /\ Work(pool'[r]) <= Work(pool[r])
            /\ Ahead(pc'[r], pool'[r]) < Ahead(pc[r], pool[r])
         \/ /\ Work(pool'[r]) < Work(pool[r])
            /\ Ahead(pc'[r], pool'[r]) = Ahead(pc[r], pool[r])
  PROVE  Remaining(r)' < Remaining(r)
<1> DEFINE a == Ahead(pc[r], pool[r])
           b == Ahead(pc'[r], pool'[r])
           v == Work(pool[r])
           w == Work(pool'[r])
<1>1. a \in Nat /\ b \in Nat /\ v \in Nat /\ w \in Nat
  BY WorkLeft
<1>2. Remaining(r) = v + a
  BY DEF Remaining
<1>3. b < a => a > 0
  BY <1>1
<1>4. Remaining(r)' = 0 \/ Remaining(r)' = w + b
  BY DEF Remaining
<1>5. CASE w <= v /\ b < a
  <2> HIDE DEF a, b, v, w
  <2>1. QED BY <1>1, <1>2, <1>4, <1>5
<1>6. CASE w < v /\ b = a
  <2> HIDE DEF a, b, v, w
  <2>1. QED BY <1>1, <1>2, <1>4, <1>6
<1>7. QED BY <1>5, <1>6

(* The position of the main thread is one that Ahead has a number for.     *)
LEMMA AtAhead ==
  ASSUME IInv, NEW r \in Runners
  PROVE  Ahead(pc[r], pool[r]) \in 1 .. (2 * MaxItems + 4)
<1>1. /\ PoolOK(pool[r]) /\ pc[r] \in Pc
      /\ pc[r] \in {"running", "recording"} => pool[r].current # 0
  BY AtRunner DEF Alone, Shape, RunnerOK, RunnerFacts
<1>2. pool[r].current \in 0 .. MaxItems
  BY <1>1 DEF PoolOK, PoolShape, Pool
<1>3. QED BY <1>1, <1>2, AheadRange

LEMMA AtAheadNext ==
  ASSUME IInv', NEW r \in Runners
  PROVE  Ahead(pc'[r], pool'[r]) \in 1 .. (2 * MaxItems + 4)
<1>1. /\ PoolOK(pool'[r]) /\ pc'[r] \in Pc
      /\ pc'[r] \in {"running", "recording"} => pool'[r].current # 0
  BY DEF IInv, TypeOK, RunnerOK, RunnerFacts
<1>2. pool'[r].current \in 0 .. MaxItems
  BY <1>1 DEF PoolOK, PoolShape, Pool
<1>3. QED BY <1>1, <1>2, AheadRange

LEMMA StartShrinks ==
  ASSUME IInv, IInv', NEW r \in Runners, Clean(r),
         pc[r] = "locked", NEW n \in 0 .. MaxItems,
         pool'[r] = Prime(NewPool(args[r].width, n)),
         pc'[r] = IF pool'[r].current = 0 THEN "returning" ELSE "running"
  PROVE  Remaining(r)' < Remaining(r)
<1> DEFINE w == args[r].width
           b == NewPool(w, n)
           p == pool[r]
           q == pool'[r]
<1>1. w \in Nat \ {0}
  BY AtRunner, CellAssumption DEF Args, Alone
<1>2. PoolOK(b) /\ b.taken = 0 /\ b.width = w
  BY <1>1, NewPoolOK
<1>3. q = PopLeft(Submit(b, w)) /\ q = Prime(b)
  BY <1>2 DEF Prime
<1>4. Forward(b, q) /\ q.current \in {0, 1}
  <2> HIDE DEF b, w, q
  <2>1. QED BY <1>1, <1>2, <1>3, SubmitForward, PrimeOK DEF PoolOK
<1>5. Forward(p, q)
  <2>1. p.call = b.call
    BY DEF Clean, EmptyPool, NewPool
  <2> HIDE DEF p, b, q
  <2>2. QED BY <1>4, <2>1 DEF Forward, NotTaken, NotStarted, NotEnded
<1>6. Work(q) <= Work(p)
  <2> HIDE DEF p, q
  <2>1. QED BY <1>5, ForwardWork
<1>7. Ahead(pc'[r], q) < Ahead(pc[r], p)
  <2>1. Ahead(pc[r], p) = 2 * MaxItems + 4
    BY DEF Ahead
  <2>2. CASE q.current = 0
    <3>1. Ahead(pc'[r], q) = 1
      BY <2>2 DEF Ahead
    <3>2. QED BY <2>1, <3>1, MaxItemsAssumption
  <2>3. CASE q.current = 1
    <3>1. Ahead(pc'[r], q) = 2 * (MaxItems - 1) + 4
      BY <2>3 DEF Ahead
    <3>2. QED BY <2>1, <3>1, MaxItemsAssumption
  <2>4. QED BY <1>4, <2>2, <2>3
<1>8. Ahead(pc[r], p) \in Nat /\ Ahead(pc'[r], q) \in Nat
  BY AtAhead, AtAheadNext, MaxItemsAssumption
<1>9. QED BY <1>6, <1>7, <1>8, LessRemaining

LEMMA NextShrinks ==
  ASSUME IInv, IInv', NEW r \in Runners,
         pc[r] = "recording", pool'[r] = Refill(pool[r]),
         pc'[r] = IF pool'[r].current = 0 THEN "returning" ELSE "running"
  PROVE  Remaining(r)' < Remaining(r)
<1> DEFINE p == pool[r]
           q == pool'[r]
           c == p.current
           M == MaxItems
<1>1. PoolOK(p) /\ c # 0 /\ c \in 0 .. M /\ M \in Nat
  BY AtRunner, MaxItemsAssumption
     DEF Alone, RunnerOK, RunnerFacts, PoolOK, PoolShape, Pool
<1>2. q = PopLeft(Submit(p, 1)) /\ q = Refill(p)
  BY DEF Refill
<1>3. Forward(p, q) /\ q.current \in {0, c + 1}
  <2>1. PoolShape(p)
    BY <1>1 DEF PoolOK
  <2> HIDE DEF p, q
  <2>2. QED BY <1>1, <1>2, <2>1, SubmitForward, RefillOK
<1>4. Work(q) <= Work(p)
  <2> HIDE DEF p, q
  <2>1. QED BY <1>3, ForwardWork
<1>5. Ahead(pc'[r], q) < Ahead(pc[r], p)
  <2>1. Ahead(pc[r], p) = 2 * (M - c) + 3
    BY DEF Ahead
  <2>2. CASE q.current = 0
    <3>1. Ahead(pc'[r], q) = 1
      BY <2>2 DEF Ahead
    <3> HIDE DEF c, M
    <3>2. QED BY <2>1, <3>1, <1>1
  <2>3. CASE q.current = c + 1 /\ q.current # 0
    <3>1. Ahead(pc'[r], q) = 2 * (M - (c + 1)) + 4
      BY <2>3 DEF Ahead
    <3> HIDE DEF c, M
    <3>2. QED BY <2>1, <3>1, <1>1
  <2>4. QED BY <1>3, <2>2, <2>3
<1>6. Ahead(pc[r], p) \in Nat /\ Ahead(pc'[r], q) \in Nat
  BY AtAhead, AtAheadNext, MaxItemsAssumption
<1>7. QED BY <1>4, <1>5, <1>6, LessRemaining

LEMMA MovesShrink ==
  ASSUME IInv, IInv', NEW r \in Runners, Clean(r), Moves(r), pc[r] # "idle",
         pc'[r] # pc[r] \/ pool'[r] # pool[r]
  PROVE  Remaining(r)' < Remaining(r)
<1> DEFINE p == pool[r]
           q == pool'[r]
           a == Ahead(pc[r], p)
           b == Ahead(pc'[r], q)
<1>1. PoolOK(p) /\ p.current \in 0 .. MaxItems /\ MaxItems \in Nat
  BY AtRunner, MaxItemsAssumption DEF Alone, PoolOK, PoolShape, Pool
<1>2. a \in Nat /\ b \in Nat /\ a >= 1 /\ b >= 1
  BY AtAhead, AtAheadNext, MaxItemsAssumption
<1>3. Work(p) \in Nat
  BY WorkLeft
<1>4. ASSUME pc'[r] = pc[r], NEW i \in Index,
             \/ i \in Queued(p) /\ q = StartCall(p, i)
             \/ i \in Running(p) /\ \E o \in Outcome : q = EndCall(p, i, o)
      PROVE  Remaining(r)' < Remaining(r)
  <2>1. Work(q) < Work(p)
    <3> HIDE DEF p, q
    <3>1. QED BY <1>1, <1>4, CallWork
  <2>2. q.current = p.current
    <3> HIDE DEF p, q
    <3>1. QED BY <1>1, <1>4, StartOK, EndOK
  <2>3. a = b
    BY <1>4, <2>2 DEF Ahead
  <2>4. QED BY <1>2, <2>1, <2>3, LessRemaining
<1>5. CASE pc'[r] = "idle"
  <2>1. Remaining(r) = Work(p) + a /\ Remaining(r)' = 0
    BY <1>5 DEF Remaining
  <2> HIDE DEF a, p
  <2>2. QED BY <1>2, <1>3, <2>1
<1>6. ASSUME q = p, \/ pc[r] = "running" /\ pc'[r] = "recording"
                    \/ pc[r] \in {"running", "recording"} /\ pc'[r] = "unwinding"
                    \/ pc[r] = "draining" /\ pc'[r] = "joining"
      PROVE  Remaining(r)' < Remaining(r)
  <2>1. Work(q) <= Work(p)
    BY <1>3, <1>6
  <2>2. b < a
    <3> DEFINE c == p.current
    <3>1. 2 * (MaxItems - c) + 3 < 2 * (MaxItems - c) + 4 /\ 2 * (MaxItems - c) + 3 > 2
      <4>1. c \in 0 .. MaxItems /\ MaxItems \in Nat
        BY <1>1
      <4> HIDE DEF c
      <4>2. QED BY <4>1
    <3>2. CASE pc[r] = "running" /\ pc'[r] = "recording"
      <4>1. a = 2 * (MaxItems - c) + 4 /\ b = 2 * (MaxItems - c) + 3
        BY <1>6, <3>2 DEF Ahead
      <4>2. QED BY <4>1, <3>1
    <3>3. CASE pc[r] \in {"running", "recording"} /\ pc'[r] = "unwinding"
      <4>1. a \in {2 * (MaxItems - c) + 4, 2 * (MaxItems - c) + 3} /\ b = 2
        BY <3>3 DEF Ahead
      <4>2. c \in Nat /\ c <= MaxItems /\ MaxItems \in Nat
        BY <1>1
      <4> HIDE DEF c, a, b
      <4>3. QED BY <4>1, <4>2, <3>1
    <3>4. CASE pc[r] = "draining" /\ pc'[r] = "joining"
      <4>1. a = 2 /\ b = 1
        BY <3>4 DEF Ahead
      <4>2. QED BY <4>1
    <3>5. QED BY <1>6, <3>2, <3>3, <3>4
  <2>3. QED BY <1>2, <2>1, <2>2, LessRemaining
<1>7. ASSUME q = Dropped(p), \/ pc[r] = "running" /\ pc'[r] = "draining"
                             \/ pc[r] = "unwinding" /\ pc'[r] = "joining"
      PROVE  Remaining(r)' < Remaining(r)
  <2>1. Work(q) <= Work(p)
    <3> HIDE DEF p, q
    <3>1. QED BY <1>1, <1>7, DroppedForward, ForwardWork
  <2>2. b < a
    <3> DEFINE c == p.current
    <3>1. CASE pc[r] = "running" /\ pc'[r] = "draining"
      <4>1. a = 2 * (MaxItems - c) + 4 /\ b = 2
        BY <3>1 DEF Ahead
      <4>2. c \in 0 .. MaxItems /\ MaxItems \in Nat
        BY <1>1
      <4> HIDE DEF c, a, b
      <4>3. QED BY <4>1, <4>2
    <3>2. CASE pc[r] = "unwinding" /\ pc'[r] = "joining"
      <4>1. a = 2 /\ b = 1
        BY <3>2 DEF Ahead
      <4>2. QED BY <4>1
    <3>3. QED BY <1>7, <3>1, <3>2
  <2>3. QED BY <1>2, <2>1, <2>2, LessRemaining
<1>8. ASSUME pc'[r] = pc[r], NEW i \in Queued(p), q = CancelCall(p, i)
      PROVE  Remaining(r)' < Remaining(r)
  <2>1. Work(q) < Work(p) /\ q.current = p.current
    <3> HIDE DEF p, q
    <3>1. QED BY <1>1, <1>8, CancelWork, CancelOK
  <2>2. a = b
    BY <1>8, <2>1 DEF Ahead
  <2>3. QED BY <1>2, <2>1, <2>2, LessRemaining
<1>9. QED
  BY <1>4, <1>5, <1>6, <1>7, <1>8, StartShrinks, NextShrinks DEF Moves

(* No process goes round in circles: whatever it does, and whatever its    *)
(* workers do, brings it nearer to its end, and nothing that the others do *)
(* sends it back.                                                          *)
THEOREM NoCircles ==
  Spec => [][\A r \in Runners :
               pc[r] # "idle" /\ (pc'[r] # pc[r] \/ pool'[r] # pool[r])
                 => Remaining(r)' < Remaining(r)]_vars
<1>1. ASSUME IInv, \A r \in Runners : Clean(r), [Next]_vars
      PROVE  [\A r \in Runners :
                pc[r] # "idle" /\ (pc'[r] # pc[r] \/ pool'[r] # pool[r])
                  => Remaining(r)' < Remaining(r)]_vars
  <2>1. IInv'
    BY <1>1, StepIInv
  <2>2. QED BY <1>1, <2>1, AllMove, MovesShrink
<1>2. QED BY <1>1, Invariant, CleanKept, PTL DEF Spec

(* A process makes no more than MaxRemaining steps, its workers' included. *)
THEOREM StepsBounded ==
  Spec => [](\A r \in Runners : Remaining(r) \in 0 .. MaxRemaining)
<1>1. ASSUME IInv, NEW r \in Runners
      PROVE  Remaining(r) \in 0 .. MaxRemaining
  <2> DEFINE a == Ahead(pc[r], pool[r])
             w == Work(pool[r])
  <2>1. a \in 1 .. (2 * MaxItems + 4)
    BY <1>1, AtAhead
  <2>2. w \in 0 .. (3 * MaxItems)
    BY WorkRange
  <2>3. Remaining(r) \in {0, w + a}
    BY DEF Remaining
  <2> HIDE DEF a, w
  <2>4. QED BY <2>1, <2>2, <2>3, MaxItemsAssumption DEF MaxRemaining
<1>2. IInv => \A r \in Runners : Remaining(r) \in 0 .. MaxRemaining
  BY <1>1
<1>3. QED BY <1>2, Invariant, PTL

(***************************************************************************)
(* What holds in place of the two claims of the sources that are not true  *)
(* of the code                                                             *)
(***************************************************************************)
(* Who may evaluate samples without the lock: a process on its way out,    *)
(* until the `finally' of its generator has cancelled its samples and has   *)
(* waited for those that a worker had taken.                               *)
WorkUnderLock ==
  \A r \in Runners :
    lock # r /\ InFlight(pool[r]) # {} => pc[r] \in {"unwinding", "joining"}

(* Two processes that evaluate at once.                                    *)
OneAtWork ==
  \A r, s \in Runners :
    r # s /\ InFlight(pool[r]) # {} /\ InFlight(pool[s]) # {}
      => {pc[r], pc[s]} \cap {"unwinding", "joining"} # {}

(* No append was cut short, and no append was made that is not.            *)
Uncut ==
  file' # file =>
    \E r \in Runners :
      /\ pc[r] = "recording"
      /\ file' = Appended(file, args[r].experiment,
                          selected[r][pool[r].current])

(* The file can be read by the next command of its own experiment.         *)
Resumable ==
  /\ LedgerReadable
  /\ file.end = "newline"
  /\ \A e \in Experiment :
       file.lines # <<>> /\ file.lines[1] = Header(e) => Accepts(file, e)

NothingLost == [][CompletedIds(file) \subseteq CompletedIds(file')]_vars

(* "Prevent concurrent runners from selecting the same unfinished samples" *)
(* is not true of exclusive_run (UnfinishedSelectedOnce is violated), but  *)
(* the overlap has one cause: of any two processes that evaluate samples   *)
(* at once, one has raised inside the loop and is on its way out.          *)
THEOREM OverlapOnlyOnTheWayOut == Spec => [](WorkUnderLock /\ OneAtWork)
<1>1. ASSUME IInv, NEW r \in Runners, Clean(r), lock # r, InFlight(pool[r]) # {}
      PROVE  pc[r] \in {"unwinding", "joining"}
  <2>1. pc[r] \in Pc /\ pc[r] \notin Holding
    BY <1>1, AtRunner DEF Alone, Shape
  <2>2. pc[r] \in {"idle", "unwinding", "joining"}
    BY <2>1 DEF Pc, Holding, Looping
  <2>3. pc[r] # "idle"
    BY <1>1 DEF Clean, EmptyPool, NewPool, InFlight, Running, Queued
  <2>4. QED BY <2>2, <2>3
<1>2. IInv /\ (\A r \in Runners : Clean(r)) => WorkUnderLock
  BY <1>1 DEF WorkUnderLock
<1>3. WorkUnderLock => OneAtWork
  BY DEF WorkUnderLock, OneAtWork
<1>4. QED BY <1>2, <1>3, Invariant, CleanKept, PTL

(* A file that ends where a record ends, every line of it a JSON object.   *)
Whole(f) == f.end = "newline" /\ Sound(f)

LEMMA AppendedWhole ==
  ASSUME NEW E, NEW P, NEW f, WellEnded(f, E, P), Whole(f), NEW e, NEW p,
         NEW g, g = Appended(f, e, p)
  PROVE  Whole(g) /\ CompletedIds(f) \subseteq CompletedIds(g)
<1>1. /\ f.lines \in Seq(Lines(E, P)) /\ Len(f.lines) \in Nat
      /\ DOMAIN f.lines = 1 .. Len(f.lines)
      /\ \A i \in 1 .. Len(f.lines) : f.lines[i] # Invalid
  BY DEF WellEnded, Files, Whole, Sound
<1>2. /\ g.end = "newline"
      /\ f.lines = <<>> => g.lines = <<Header(e), Sample(e, p)>>
      /\ f.lines # <<>> => g.lines = Append(f.lines, Sample(e, p))
  <2>1. g = [lines |-> g.lines, end |-> "newline"]
    BY AppendedLines
  <2>2. g.end = "newline"
    BY <2>1
  <2>3. QED BY <2>2, AppendedLines DEF Whole
<1>3. CASE f.lines = <<>>
  <2>1. Sound(g)
    BY <1>2, <1>3, KindFields DEF Sound
  <2>2. CompletedIds(f) = {}
    BY <1>3 DEF CompletedIds
  <2>3. QED BY <1>2, <2>1, <2>2 DEF Whole
<1>4. CASE f.lines # <<>>
  <2>1. /\ DOMAIN g.lines = 1 .. Len(f.lines) + 1
        /\ g.lines[Len(f.lines) + 1] = Sample(e, p)
        /\ \A i \in 1 .. Len(f.lines) : g.lines[i] = f.lines[i]
    BY <1>1, <1>2, <1>4
  <2>2. Sound(g)
    <3> SUFFICES ASSUME NEW i \in 1 .. Len(f.lines) + 1
                 PROVE  g.lines[i] # Invalid
      BY <2>1 DEF Sound
    <3>1. CASE i = Len(f.lines) + 1
      BY <3>1, <2>1, KindFields
    <3>2. CASE i # Len(f.lines) + 1
      BY <3>2, <2>1, <1>1
    <3>3. QED BY <3>1, <3>2
  <2>3. \A i \in DOMAIN f.lines : SampleAt(f, i) =>
          i \in DOMAIN g.lines /\ SampleAt(g, i) /\ g.lines[i].id = f.lines[i].id
    BY <1>1, <2>1 DEF SampleAt
  <2>4. CompletedIds(f) \subseteq CompletedIds(g)
    BY <2>3 DEF CompletedIds
  <2>5. QED BY <1>2, <2>2, <2>4 DEF Whole
<1>5. QED BY <1>3, <1>4

LEMMA RegularAccepted ==
  ASSUME NEW E, NEW P, NEW f, WellEnded(f, E, P), Regular(f, E), Sound(f),
         f.lines # <<>>, NEW e \in E, f.lines[1] = Header(e)
  PROVE  Accepts(f, e)
<1>1. /\ f.lines \in Seq(Lines(E, P)) /\ Len(f.lines) \in Nat
      /\ DOMAIN f.lines = 1 .. Len(f.lines)
      /\ \A i \in 1 .. Len(f.lines) : f.lines[i] # Invalid
  BY DEF WellEnded, Files, Sound
<1>2. PICK h \in E :
        /\ f.lines[1] = Header(h)
        /\ \A i \in 2 .. Len(f.lines) : f.lines[i] = Sample(h, i - 1)
  BY DEF Regular
<1>3. ASSUME NEW i \in 1 .. Len(f.lines)
      PROVE  /\ f.lines[i] # Invalid
             /\ f.lines[i].type = "experiment" => f.lines[i].of = e
             /\ SampleAt(f, i) =>
                  \E j \in 1 .. (i - 1) : f.lines[j].type = "experiment"
  <2>1. CASE i = 1
    BY <2>1, KindFields DEF SampleAt
  <2>2. CASE i # 1
    <3>1. i \in 2 .. Len(f.lines) /\ 1 \in 1 .. (i - 1)
      BY <2>2, <1>1
    <3>2. f.lines[i].type = "sample" /\ f.lines[i] # Invalid
      BY <1>2, <3>1, KindFields
    <3>3. f.lines[1].type = "experiment"
      BY KindFields
    <3>4. QED BY <3>1, <3>2, <3>3
  <2>3. QED BY <2>1, <2>2
<1>4. QED BY <1>1, <1>3 DEF Accepts

(* "Completed samples are durable and will resume on the next identical    *)
(* command" is not true of the code (LedgerReadable is violated), but one  *)
(* thing breaks it: an append that did not finish.  As long as none was    *)
(* cut short, whatever else failed, was interrupted or killed and whoever  *)
(* competed, no record is ever lost and the file is accepted by the next   *)
(* command of the experiment that it belongs to.                           *)
THEOREM DurableUnlessCut ==
  Spec /\ [][Uncut]_vars => []Resumable /\ NothingLost
<1>1. Init => Whole(file)
  BY DEF Init, NoFile, Whole, Sound
<1>2. ASSUME IInv, Whole(file), [Next]_vars, [Uncut]_vars
      PROVE  Whole(file') /\ CompletedIds(file) \subseteq CompletedIds(file')
  <2>1. CASE file' = file
    BY <1>2, <2>1
  <2>2. CASE file' # file
    <3>1. PICK r \in Runners :
            file' = Appended(file, args[r].experiment,
                             selected[r][pool[r].current])
      BY <1>2, <2>2 DEF Uncut, vars
    <3>2. WellEnded(file, Experiment, Problem)
      BY <1>2 DEF IInv, GoodFile
    <3>3. QED BY <1>2, <3>1, <3>2, AppendedWhole
  <2>3. QED BY <2>1, <2>2
<1>3. ASSUME IInv, Whole(file)
      PROVE  Resumable
  <2>1. WellEnded(file, Experiment, Problem) /\ Regular(file, Experiment)
    BY <1>3 DEF IInv, GoodFile
  <2>2. QED BY <1>3, <2>1, RegularAccepted DEF Resumable, LedgerReadable, Whole
<1>4. IInv /\ Whole(file) /\ [Next]_vars /\ [Uncut]_vars => Whole(file)'
  BY <1>2
<1>5. IInv /\ Whole(file) /\ [Next]_vars /\ [Uncut]_vars =>
        [CompletedIds(file) \subseteq CompletedIds(file')]_vars
  BY <1>2
<1>6. Spec /\ [][Uncut]_vars => [](IInv /\ Whole(file))
  BY <1>1, <1>4, Invariant, PTL DEF Spec
<1>7. IInv /\ Whole(file) => Resumable
  BY <1>3
<1>8. QED BY <1>5, <1>6, <1>7, PTL DEF Spec, NothingLost
=============================================================================
