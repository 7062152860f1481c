---------------------------- MODULE CorpusProofs ----------------------------
(***************************************************************************)
(* Proofs of the state properties of Corpus: redaction, working time, the  *)
(* verdict and the import, for any number of sessions, transcripts and     *)
(* characters, and for behaviours of any length.                           *)
(*                                                                         *)
(* The parts, in this order: numbers and finite sets; the import; the      *)
(* verdict; the redaction of a text; the walk over the rows of a session   *)
(* and what it adds up; the rows that recovery makes of segments; the      *)
(* invariant of what is recorded, step by step; and the composition.       *)
(***************************************************************************)
EXTENDS Corpus, FiniteSetTheorems, SequenceTheorems, WellFoundedInduction, TLAPS

(***************************************************************************)
(* Numbers, finite sets and their orders.                                  *)
(***************************************************************************)
\* A set of naturals that is not empty has a least element.
LEMMA Least ==
  ASSUME NEW T \in SUBSET Nat, T # {} PROVE \E m \in T : \A k \in T : m <= k
<1>1. PICK x \in T : \A y \in T : ~(<<y, x>> \in OpToRel(<, Nat))
  BY NatLessThanWellFounded, WFMin
<1>2. \A y \in T : ~(y < x)
  BY <1>1 DEF OpToRel
<1> QED
  BY <1>2

\* Induction, of which the property is the membership in a set.
LEMMA Induction ==
  ASSUME NEW T, 0 \in T, \A n \in Nat : n \in T => n + 1 \in T
  PROVE  Nat \subseteq T
<1> SUFFICES ASSUME Nat \ T # {} PROVE FALSE
  OBVIOUS
<1>1. PICK m \in Nat \ T : \A k \in Nat \ T : m <= k
  BY Least
<1>2. m # 0 /\ m - 1 \in Nat /\ m - 1 \in T
  BY <1>1
<1> QED
  BY <1>1, <1>2

\* If of every two elements one is below the other with all that is below it,
\* the numbers of elements below are those from zero, each once.
LEMMA Ranks ==
  ASSUME NEW T, IsFiniteSet(T), NEW below \in [T -> SUBSET T],
         \A x \in T : x \notin below[x],
         \A x, y \in T : x # y =>
           \/ x \in below[y] /\ below[x] \subseteq below[y]
           \/ y \in below[x] /\ below[y] \subseteq below[x]
  PROVE  /\ \A x \in T : Cardinality(below[x]) \in 0 .. Cardinality(T) - 1
         /\ \A x, y \in T : Cardinality(below[x]) = Cardinality(below[y]) => x = y
         /\ \A k \in 1 .. Cardinality(T) : \E x \in T : Cardinality(below[x]) = k - 1
<1>1. Cardinality(T) \in Nat
  BY FS_CardinalityType
<1>2. ASSUME NEW x \in T PROVE /\ IsFiniteSet(below[x])
                              /\ Cardinality(below[x]) \in 0 .. Cardinality(T) - 1
  <2>1. below[x] \in SUBSET (T \ {x})
    OBVIOUS
  <2>2. IsFiniteSet(T \ {x}) /\ Cardinality(T \ {x}) = Cardinality(T) - 1
    BY FS_RemoveElement
  <2>3. IsFiniteSet(below[x]) /\ Cardinality(below[x]) <= Cardinality(T) - 1
    BY <2>1, <2>2, FS_Subset
  <2> QED
    BY <1>1, <2>3, FS_CardinalityType
<1>3. ASSUME NEW x \in T, NEW y \in T, x \in below[y], below[x] \subseteq below[y]
      PROVE  Cardinality(below[x]) # Cardinality(below[y])
  BY <1>2, <1>3, FS_Subset
<1>4. \A x, y \in T : Cardinality(below[x]) = Cardinality(below[y]) => x = y
  BY <1>3
<1> DEFINE rank == [x \in T |-> Cardinality(below[x]) + 1]
<1>5. rank \in Injection(T, 1 .. Cardinality(T))
  <2>1. rank \in [T -> 1 .. Cardinality(T)]
    BY <1>1, <1>2
  <2>2. \A x, y \in T : rank[x] = rank[y] => x = y
    BY <1>2, <1>4
  <2> QED
    BY <2>1, <2>2 DEF Injection, IsInjective
<1>6. /\ IsFiniteSet(1 .. Cardinality(T))
      /\ Cardinality(1 .. Cardinality(T)) = Cardinality(T)
  BY <1>1, FS_Interval
<1>7. rank \in Surjection(T, 1 .. Cardinality(T))
  BY <1>5, <1>6, FS_Injection
<1>8. ASSUME NEW k \in 1 .. Cardinality(T)
      PROVE  \E x \in T : Cardinality(below[x]) = k - 1
  <2>1. PICK x \in T : rank[x] = k
    BY <1>7 DEF Surjection
  <2>2. Cardinality(below[x]) + 1 = k
    BY <2>1
  <2>3. Cardinality(below[x]) \in Int /\ k \in Int
    BY <1>1, <1>2
  <2> QED
    BY <2>2, <2>3
<1> QED
  BY <1>2, <1>4, <1>8

\* Sets without a common element have together as many as both.
LEMMA DisjointUnion ==
  ASSUME NEW A, NEW B, IsFiniteSet(A), IsFiniteSet(B), A \cap B = {}
  PROVE  /\ IsFiniteSet(A \cup B)
         /\ Cardinality(A \cup B) = Cardinality(A) + Cardinality(B)
<1>1. /\ IsFiniteSet(A \cup B)
      /\ Cardinality(A \cup B) = Cardinality(A) + Cardinality(B) - Cardinality(A \cap B)
  BY FS_Union
<1>2. Cardinality(A \cap B) = 0
  BY FS_EmptySet
<1>3. Cardinality(A) \in Nat /\ Cardinality(B) \in Nat
  BY FS_CardinalityType
<1> QED
  BY <1>1, <1>2, <1>3

-----------------------------------------------------------------------------
(***************************************************************************)
(* The import: a scan against transcripts that grow.                       *)
(***************************************************************************)
\* The files that a scan reads: subagents are refused by their path.
Listed == Transcript \ Subagents

\* What a reading keeps of the lines it has read; only files that are not
\* subagents are read.
Gathering ==
  [path : Listed, digest : Nat \X BOOLEAN, line : Nat,
   versions : SUBSET {r.version : r \in Records}, ids : SUBSET {r.id : r \in Records},
   cwds : SUBSET {r.cwd : r \in Records}, turns : Nat, prompts : Nat]

\* What has been gathered is what the lines that have been read say.
Gathered(g) ==
  /\ g \in Gathering
  /\ g.line <= Len(file[g.path])
  /\ g.digest[1] <= Len(file[g.path])
  /\ IsFiniteSet(g.versions) /\ IsFiniteSet(g.ids)
  /\ \A i \in 1 .. g.line :
       LET r == file[g.path][i]
       IN  /\ r.version \in {""} \cup g.versions
           /\ r.id \in {""} \cup g.ids
           /\ r.cwd \in {""} \cup g.cwds
           /\ ~r.sidechain
  /\ g.turns > 0 => \E i \in 1 .. g.line : file[g.path][i].type = "assistant"

\* What is known of an accepted session.
Sound(a) ==
  /\ a.path \in Listed
  /\ a.lines \in 0 .. Len(file[a.path])
  /\ a.digest[1] <= a.lines
  /\ \A i \in 1 .. a.lines :
       LET r == file[a.path][i]
       IN  /\ r.version \in {"", a.version}
           /\ r.id \in {"", a.session}
           /\ r.cwd # "elsewhere"
           /\ ~r.sidechain
  /\ a.version \in Supported
  /\ \E i \in 1 .. a.lines : file[a.path][i].type = "assistant"

\* A file is still to be read, being read, accepted or rejected.
Apart ==
  /\ \A m, n \in DOMAIN todo : todo[m] = todo[n] => m = n
  /\ \A m \in DOMAIN todo : \A x \in accepted \cup rejected : x.path # todo[m]
  /\ reading # Idle =>
       /\ \A m \in DOMAIN todo : todo[m] # reading.path
       /\ \A x \in accepted \cup rejected : x.path # reading.path
  /\ \A a \in accepted, r \in rejected : r.path # a.path

\* The invariant of the import.
ImportInv ==
  /\ file \in [Transcript -> Seq(Records)]
  /\ half \in [Transcript -> BOOLEAN]
  /\ todo \in Seq(Listed)
  /\ reading # Idle => Gathered(reading)
  /\ \A a \in accepted : Sound(a)
  /\ \A r \in rejected : r.path \in Transcript
  /\ Apart

-----------------------------------------------------------------------------
\* The parts of what has been gathered.
LEMMA GatheredParts ==
  ASSUME NEW g, Gathered(g)
  PROVE  /\ g \in Gathering
         /\ g.path \in Listed /\ g.path \in Transcript
         /\ g.line \in Nat /\ g.turns \in Nat
         /\ g.line <= Len(file[g.path])
         /\ g.digest[1] <= Len(file[g.path])
         /\ IsFiniteSet(g.versions) /\ IsFiniteSet(g.ids)
         /\ \A i \in 1 .. g.line :
              /\ file[g.path][i].version \in {""} \cup g.versions
              /\ file[g.path][i].id \in {""} \cup g.ids
              /\ file[g.path][i].cwd \in {""} \cup g.cwds
              /\ ~file[g.path][i].sidechain
         /\ g.turns > 0 => \E i \in 1 .. g.line : file[g.path][i].type = "assistant"
<1>1. g \in Gathering
  BY DEF Gathered
<1>2. /\ g.path \in Listed /\ g.path \in Transcript
      /\ g.line \in Nat /\ g.turns \in Nat
  BY <1>1 DEF Gathering, Listed
<1> QED
  BY <1>1, <1>2 DEF Gathered

-----------------------------------------------------------------------------
\* The files in the order of their paths, each once.
LEMMA PathOrderLists ==
  ASSUME NEW files \in SUBSET Transcript, NEW q, q = InPathOrder(files)
  PROVE  /\ q \in Seq(files)
         /\ \A m, n \in DOMAIN q : q[m] = q[n] => m = n
<1> DEFINE below == [f \in files |-> {g \in files : PathOrder[g] < PathOrder[f]}]
<1>1. IsFiniteSet(files) /\ Cardinality(files) \in Nat
  BY HistoryAssumption, FS_Subset, FS_CardinalityType
<1>2. /\ \A f \in Transcript : PathOrder[f] \in Nat
      /\ \A f, g \in Transcript : PathOrder[f] = PathOrder[g] => f = g
  BY HistoryAssumption
<1>3. below \in [files -> SUBSET files] /\ \A f \in files : f \notin below[f]
  BY <1>2
<1>4. \A f, g \in files : f # g =>
        \/ f \in below[g] /\ below[f] \subseteq below[g]
        \/ g \in below[f] /\ below[g] \subseteq below[f]
  <2> SUFFICES ASSUME NEW f \in files, NEW g \in files, f # g
               PROVE  \/ f \in below[g] /\ below[f] \subseteq below[g]
                      \/ g \in below[f] /\ below[g] \subseteq below[f]
    OBVIOUS
  <2>1. PathOrder[f] < PathOrder[g] \/ PathOrder[g] < PathOrder[f]
    <3>1. f \in Transcript /\ g \in Transcript
      OBVIOUS
    <3>2. PathOrder[f] \in Nat /\ PathOrder[g] \in Nat /\ PathOrder[f] # PathOrder[g]
      BY <1>2, <3>1
    <3> QED
      BY <3>2
  <2>2. ASSUME NEW h \in files, NEW i \in files, PathOrder[h] < PathOrder[i]
        PROVE  h \in below[i] /\ below[h] \subseteq below[i]
    <3>1. below[h] = {j \in files : PathOrder[j] < PathOrder[h]}
          /\ below[i] = {j \in files : PathOrder[j] < PathOrder[i]}
      OBVIOUS
    <3>2. \A j \in files : PathOrder[j] < PathOrder[h] => PathOrder[j] < PathOrder[i]
      BY <1>2, <2>2
    <3> HIDE DEF below
    <3> QED
      BY <2>2, <3>1, <3>2
  <2> HIDE DEF below
  <2> QED
    BY <2>1, <2>2
<1>5. \A k \in 1 .. Cardinality(files) : \E f \in files : Cardinality(below[f]) = k - 1
  <2> HIDE DEF below
  <2> QED
    BY <1>1, <1>3, <1>4, Ranks
<1> DEFINE rank(f) == Cardinality({g \in files : PathOrder[g] < PathOrder[f]})
           at(k) == CHOOSE f \in files : rank(f) = k - 1
<1>6. q = [k \in 1 .. Cardinality(files) |-> at(k)]
  BY DEF InPathOrder
<1>7. ASSUME NEW k \in 1 .. Cardinality(files)
      PROVE  /\ at(k) \in files
             /\ rank(at(k)) = k - 1
  <2>1. \E f \in files : rank(f) = k - 1
    BY <1>5
  <2> HIDE DEF rank
  <2> QED
    BY <2>1
<1> HIDE DEF at, rank
<1>8. q \in Seq(files)
  BY <1>1, <1>6, <1>7
<1>9. ASSUME NEW m \in 1 .. Cardinality(files), NEW n \in 1 .. Cardinality(files),
             at(m) = at(n)
      PROVE  m = n
  <2>1. m - 1 = n - 1
    BY <1>7, <1>9
  <2> QED
    BY <2>1
<1> QED
  BY <1>6, <1>8, <1>9

-----------------------------------------------------------------------------
\* Nothing has been read yet.
LEMMA ImportInit == HistoryInit => ImportInv
BY DEF HistoryInit, ImportInv, Apart, Listed

\* What a transcript says stays, and more may follow.
LEMMA TranscriptsGrow ==
  ASSUME ImportInv, NEW f \in Transcript, NEW r \in Records, WriteRest(f, r)
  PROVE  ImportInv'
<1>1. /\ file \in [Transcript -> Seq(Records)]
      /\ file' = [file EXCEPT ![f] = Append(@, r)]
      /\ half' \in [Transcript -> BOOLEAN]
      /\ UNCHANGED <<todo, reading, accepted, rejected>>
  BY DEF ImportInv, WriteRest
<1>2. file' \in [Transcript -> Seq(Records)]
  BY <1>1
<1>3. ASSUME NEW g \in Transcript
      PROVE  /\ Len(file[g]) \in Nat /\ Len(file'[g]) \in Nat
             /\ Len(file[g]) <= Len(file'[g])
             /\ \A i \in 1 .. Len(file[g]) : file'[g][i] = file[g][i]
  BY <1>1
<1>4. ASSUME NEW g, Gathered(g) PROVE Gathered(g)'
  <2>1. /\ g.path \in Transcript /\ g.line \in Nat /\ g.digest[1] \in Nat
        /\ g.line <= Len(file[g.path]) /\ g.digest[1] <= Len(file[g.path])
    BY <1>4 DEF Gathered, Gathering, Listed
  <2> /\ Len(file[g.path]) \in Nat /\ Len(file'[g.path]) \in Nat
      /\ Len(file[g.path]) <= Len(file'[g.path])
      /\ \A i \in 1 .. Len(file[g.path]) : file'[g.path][i] = file[g.path][i]
    BY <1>3, <2>1
  <2>2. \A i \in 1 .. g.line : file'[g.path][i] = file[g.path][i]
    BY <2>1
  <2>3. g.line <= Len(file'[g.path]) /\ g.digest[1] <= Len(file'[g.path])
    BY <2>1
  <2> QED
    BY <1>4, <2>2, <2>3 DEF Gathered
<1>5. ASSUME NEW a, Sound(a) PROVE Sound(a)'
  <2>1. a.path \in Transcript /\ a.lines \in 0 .. Len(file[a.path])
    BY <1>5 DEF Sound, Listed
  <2> /\ Len(file[a.path]) \in Nat /\ Len(file'[a.path]) \in Nat
      /\ Len(file[a.path]) <= Len(file'[a.path])
      /\ \A i \in 1 .. Len(file[a.path]) : file'[a.path][i] = file[a.path][i]
    BY <1>3, <2>1
  <2>2. \A i \in 1 .. a.lines : file'[a.path][i] = file[a.path][i]
    BY <2>1
  <2>3. a.lines \in 0 .. Len(file'[a.path])
    BY <2>1
  <2> QED
    BY <1>5, <2>2, <2>3 DEF Sound
<1> QED
  BY <1>1, <1>2, <1>4, <1>5 DEF ImportInv, Apart

\* A scan begins with nothing but the files of subagents decided.
LEMMA ScanBegins ==
  ASSUME ImportInv, ScanBegin
  PROVE  ImportInv'
<1>1. /\ todo' = InPathOrder(Listed) /\ accepted' = {}
      /\ rejected' = {[path |-> f, reason |-> "subagent_transcript"] : f \in Subagents}
      /\ UNCHANGED <<file, half, reading>> /\ reading = Idle
  BY DEF ScanBegin, Listed
<1>2. /\ todo' \in Seq(Listed)
      /\ \A m, n \in DOMAIN todo' : todo'[m] = todo'[n] => m = n
  BY <1>1, PathOrderLists DEF Listed
<1>3. \A x \in rejected' : x.path \in Subagents
  BY <1>1
<1>4. \A m \in DOMAIN todo' : todo'[m] \in Listed
  BY <1>2
<1> QED
  BY <1>1, <1>2, <1>3, <1>4, HistoryAssumption DEF ImportInv, Apart, Listed

\* What a step that leaves the files alone, and adds no accepted session,
\* needs: the file that is rejected is the one that was read or next.
LEMMA FileRejected ==
  ASSUME ImportInv, UNCHANGED <<file, half, accepted>>, reading' = Idle,
         NEW f, NEW reason, rejected' = rejected \cup {[path |-> f, reason |-> reason]},
         \/ reading # Idle /\ f = reading.path /\ UNCHANGED todo
         \/ reading = Idle /\ todo # <<>> /\ f = Head(todo) /\ todo' = Tail(todo)
  PROVE  ImportInv'
<1> USE DEF ImportInv
<1>1. \A x \in rejected' : x \in rejected \/ x.path = f
  OBVIOUS
<1>2. \A a \in accepted : Sound(a)'
  BY DEF Sound
<1>3. CASE reading # Idle /\ f = reading.path /\ UNCHANGED todo
  <2>1. f \in Transcript
    BY <1>3 DEF Gathered, Gathering, Listed
  <2> QED
    BY <1>1, <1>2, <1>3, <2>1 DEF Apart
<1>4. CASE reading = Idle /\ todo # <<>> /\ f = Head(todo) /\ todo' = Tail(todo)
  <2>1. /\ todo' \in Seq(Listed) /\ 1 \in DOMAIN todo /\ f = todo[1] /\ f \in Listed
        /\ \A m \in DOMAIN todo' :
             m + 1 \in DOMAIN todo /\ m + 1 # 1 /\ todo'[m] = todo[m + 1]
    BY <1>4
  <2>2. \A m, n \in DOMAIN todo' : todo'[m] = todo'[n] => m = n
    BY <2>1 DEF Apart
  <2>3. \A m \in DOMAIN todo' : todo'[m] # f
    BY <2>1 DEF Apart
  <2> QED
    BY <1>1, <1>2, <1>4, <2>1, <2>2, <2>3 DEF Apart, Listed
<1> QED
  BY <1>3, <1>4

\* The first reading takes the digest of what there is.
LEMMA FileDigested ==
  ASSUME ImportInv, Digest
  PROVE  ImportInv'
<1> DEFINE f == Head(todo)
<1>1. /\ reading = Idle /\ todo # <<>> /\ todo' = Tail(todo) /\ UNCHANGED <<file, half>>
  BY DEF Digest
<1>2. CASE Len(file[f]) > MaxLines
  BY <1>1, <1>2, FileRejected DEF Digest, RejectPath
<1>3. CASE ~(Len(file[f]) > MaxLines)
  <2>1. /\ reading' = [path |-> f, digest |-> Covered(f), line |-> 0, versions |-> {},
                       ids |-> {}, cwds |-> {}, turns |-> 0, prompts |-> 0]
        /\ UNCHANGED <<accepted, rejected>>
    BY <1>3 DEF Digest
  <2>2. /\ todo' \in Seq(Listed) /\ 1 \in DOMAIN todo /\ f = todo[1] /\ f \in Listed
        /\ \A m \in DOMAIN todo' :
             m + 1 \in DOMAIN todo /\ m + 1 # 1 /\ todo'[m] = todo[m + 1]
    BY <1>1 DEF ImportInv
  <2>3. /\ \A m, n \in DOMAIN todo' : todo'[m] = todo'[n] => m = n
        /\ \A m \in DOMAIN todo' : todo'[m] # f
    BY <2>2 DEF Apart, ImportInv
  <2>4. Gathered(reading)'
    <3>1. Len(file[f]) \in Nat /\ half[f] \in BOOLEAN
      BY <2>2 DEF ImportInv, Listed
    <3>2. reading' \in Gathering
      BY <2>1, <2>2, <3>1 DEF Gathering, Covered
    <3> QED
      BY <1>1, <2>1, <3>1, <3>2, FS_EmptySet DEF Gathered, Covered
  <2>5. \A a \in accepted : Sound(a)'
    BY <1>1 DEF Sound, ImportInv
  <2> HIDE DEF f
  <2>6. reading'.path = f
    BY <2>1
  <2> QED
    BY <1>1, <2>1, <2>2, <2>3, <2>4, <2>5, <2>6 DEF ImportInv, Apart
<1> QED
  BY <1>2, <1>3

\* A line is gathered, or speaks against the file.
LEMMA LineRead ==
  ASSUME ImportInv, ReadLine
  PROVE  ImportInv'
<1> DEFINE f == reading.path
           r == file[f][reading.line + 1]
<1>1. /\ reading # Idle /\ reading.line < Len(file[f])
      /\ UNCHANGED <<file, half, scans, todo>>
  BY DEF ReadLine
<1>2. /\ reading \in Gathering
      /\ f \in Listed /\ f \in Transcript /\ reading.line \in Nat /\ reading.turns \in Nat
      /\ reading.digest[1] <= Len(file[f])
      /\ IsFiniteSet(reading.versions) /\ IsFiniteSet(reading.ids)
  BY <1>1, GatheredParts DEF ImportInv
<1>7. /\ \A i \in 1 .. reading.line :
           /\ file[f][i].version \in {""} \cup reading.versions
           /\ file[f][i].id \in {""} \cup reading.ids
           /\ file[f][i].cwd \in {""} \cup reading.cwds
           /\ ~file[f][i].sidechain
      /\ reading.turns > 0 => \E i \in 1 .. reading.line : file[f][i].type = "assistant"
  BY <1>1, GatheredParts DEF ImportInv
<1>3. file[f] \in Seq(Records) /\ Len(file[f]) \in Nat
  BY <1>2 DEF ImportInv
<1>4. r \in Records
  BY <1>1, <1>2, <1>3
<1>5. CASE r.form \in {"long", "garbage"} \/ r.sidechain
  <2>1. PICK reason : /\ reading' = Idle /\ UNCHANGED accepted
                      /\ rejected' = rejected \cup {[path |-> f, reason |-> reason]}
    BY <1>5 DEF ReadLine, RejectPath
  <2> QED
    BY <1>1, <2>1, FileRejected
<1>6. CASE ~(r.form \in {"long", "garbage"} \/ r.sidechain)
  <2>1. reading' = Observe(reading, r) /\ UNCHANGED <<accepted, rejected>>
    BY <1>6 DEF ReadLine
  <2> HIDE DEF r
  <2>2. /\ Stated(r.version) \subseteq {x.version : x \in Records}
        /\ Stated(r.id) \subseteq {x.id : x \in Records}
        /\ Stated(r.cwd) \subseteq {x.cwd : x \in Records}
    BY <1>4 DEF Stated
  <2>3. /\ reading'.path = f /\ reading'.line = reading.line + 1
        /\ reading'.digest = reading.digest
        /\ reading'.versions = reading.versions \cup Stated(r.version)
        /\ reading'.ids = reading.ids \cup Stated(r.id)
        /\ reading'.cwds = reading.cwds \cup Stated(r.cwd)
        /\ reading'.turns = reading.turns + (IF r.type = "assistant" THEN 1 ELSE 0)
        /\ reading'.prompts = reading.prompts + (IF r.type = "user" THEN 1 ELSE 0)
        /\ DOMAIN reading' = DOMAIN reading
        /\ reading' = [path |-> reading'.path, digest |-> reading'.digest,
                       line |-> reading'.line, versions |-> reading'.versions,
                       ids |-> reading'.ids, cwds |-> reading'.cwds,
                       turns |-> reading'.turns, prompts |-> reading'.prompts]
    BY <1>2, <2>1 DEF Observe, Gathering
  <2>4. reading' \in Gathering
    <3>1. /\ reading'.path \in Listed /\ reading'.digest \in Nat \X BOOLEAN
          /\ reading'.line \in Nat /\ reading'.turns \in Nat /\ reading'.prompts \in Nat
      BY <1>2, <2>3 DEF Gathering
    <3>2. /\ reading'.versions \in SUBSET {x.version : x \in Records}
          /\ reading'.ids \in SUBSET {x.id : x \in Records}
          /\ reading'.cwds \in SUBSET {x.cwd : x \in Records}
      BY <1>2, <2>2, <2>3 DEF Gathering
    <3> QED
      BY <2>3, <3>1, <3>2 DEF Gathering
  <2>5. IsFiniteSet(reading'.versions) /\ IsFiniteSet(reading'.ids)
    <3>1. \A x : IsFiniteSet(Stated(x))
      BY FS_Singleton, FS_Difference DEF Stated
    <3> QED
      <4>1. /\ IsFiniteSet(reading.versions) /\ IsFiniteSet(Stated(r.version))
            /\ IsFiniteSet(reading.ids) /\ IsFiniteSet(Stated(r.id))
        BY <1>2, <3>1
      <4>2. /\ IsFiniteSet(reading.versions \cup Stated(r.version))
            /\ IsFiniteSet(reading.ids \cup Stated(r.id))
        BY <4>1, FS_Union
      <4> QED
        BY <2>3, <4>2
  <2>6. ASSUME NEW i \in 1 .. reading'.line
        PROVE  LET x == file[f][i]
               IN  /\ x.version \in {""} \cup reading'.versions
                   /\ x.id \in {""} \cup reading'.ids
                   /\ x.cwd \in {""} \cup reading'.cwds
                   /\ ~x.sidechain
    <3>1. CASE i \in 1 .. reading.line
      BY <1>7, <2>3, <3>1
    <3>2. CASE i = reading.line + 1
      BY <1>6, <2>3, <3>2 DEF Stated, r
    <3>3. i \in 1 .. reading.line \/ i = reading.line + 1
      BY <1>2, <2>3
    <3> QED
      BY <3>1, <3>2, <3>3
  <2>7. reading'.turns > 0 => \E i \in 1 .. reading'.line : file[f][i].type = "assistant"
    <3>1. CASE r.type = "assistant"
      <4>1. reading'.line \in 1 .. reading'.line
        BY <1>2, <2>3
      <4> QED
        BY <2>3, <3>1, <4>1 DEF r
    <3>2. CASE r.type # "assistant"
      <4>1. reading'.turns = reading.turns
        BY <1>2, <2>3, <3>2
      <4>2. 1 .. reading.line \subseteq 1 .. reading'.line
        BY <1>2, <2>3
      <4> QED
        BY <1>7, <4>1, <4>2
    <3> QED
      BY <3>1, <3>2
  <2>8. Gathered(reading)'
    <3>1. reading'.line <= Len(file[f]) /\ reading'.digest[1] <= Len(file[f])
      BY <1>1, <1>2, <1>3, <2>3
    <3> QED
      BY <1>1, <2>3, <2>4, <2>5, <2>6, <2>7, <3>1 DEF Gathered
  <2>9. \A a \in accepted : Sound(a)'
    BY <1>1 DEF Sound, ImportInv
  <2> QED
    BY <1>1, <2>1, <2>3, <2>8, <2>9 DEF ImportInv, Apart
<1> QED
  BY <1>5, <1>6

\* Nothing speaks against the file: its session is accepted.
LEMMA FileFinished ==
  ASSUME ImportInv, ReadEnd
  PROVE  ImportInv'
<1> DEFINE f == reading.path
           reason == IF half[f] THEN "malformed_record" ELSE Refusal(reading)
           a == [path |-> f, digest |-> reading.digest, lines |-> reading.line,
                 version |-> CHOOSE v \in reading.versions : TRUE,
                 session |-> CHOOSE i \in reading.ids : TRUE,
                 turns |-> reading.turns]
<1>1. /\ reading # Idle /\ reading.line = Len(file[f]) /\ reading' = Idle
      /\ UNCHANGED <<file, half, scans, todo>>
  BY DEF ReadEnd
<1>2. CASE reason # "none"
  BY <1>1, <1>2, FileRejected DEF ReadEnd, RejectPath
<1>3. CASE reason = "none"
  <2>1. accepted' = accepted \cup {a} /\ UNCHANGED rejected
    BY <1>3 DEF ReadEnd
  <2>2. /\ f \in Listed /\ reading.line \in Nat /\ reading.turns \in Nat
        /\ reading.digest[1] <= Len(file[f])
        /\ IsFiniteSet(reading.versions) /\ IsFiniteSet(reading.ids)
    BY <1>1, GatheredParts DEF ImportInv
  <2>10. \A i \in 1 .. reading.line :
             /\ file[f][i].version \in {""} \cup reading.versions
             /\ file[f][i].id \in {""} \cup reading.ids
             /\ file[f][i].cwd \in {""} \cup reading.cwds
             /\ ~file[f][i].sidechain
    BY <1>1, GatheredParts DEF ImportInv
  <2>11. reading.turns > 0 => \E i \in 1 .. reading.line : file[f][i].type = "assistant"
    BY <1>1, GatheredParts DEF ImportInv
  <2>3. /\ reading.versions # {} /\ ~(Cardinality(reading.versions) > 1)
        /\ reading.versions \subseteq Supported
        /\ reading.ids # {} /\ ~(Cardinality(reading.ids) > 1)
        /\ reading.cwds = {"inside"} /\ reading.turns # 0
    BY <1>3 DEF Refusal
  <2>4. ASSUME NEW T, IsFiniteSet(T), T # {}, ~(Cardinality(T) > 1)
        PROVE  T = {CHOOSE x \in T : TRUE}
    <3>1. Cardinality(T) = 1
      BY <2>4, FS_CardinalityType, FS_EmptySet
    <3> QED
      BY <2>4, <3>1, FS_Singleton
  <2>5. reading.versions = {a.version} /\ reading.ids = {a.session}
    BY <2>2, <2>3, <2>4
  <2>6. /\ a.path = f /\ a.lines = reading.line /\ a.digest = reading.digest
    OBVIOUS
  <2> HIDE DEF a, reason
  <2>7. Sound(a)
    <3>1. a.version \in Supported
      BY <2>3, <2>5
    <3>2. \E i \in 1 .. a.lines : file[a.path][i].type = "assistant"
      <4>1. reading.turns > 0
        BY <2>2, <2>3
      <4>2. \E i \in 1 .. reading.line : file[f][i].type = "assistant"
        BY <2>11, <4>1
      <4> HIDE DEF f
      <4> QED
        BY <2>6, <4>2
    <3>3. \A i \in 1 .. a.lines :
             LET r == file[a.path][i]
             IN  /\ r.version \in {"", a.version}
                 /\ r.id \in {"", a.session}
                 /\ r.cwd # "elsewhere"
                 /\ ~r.sidechain
      <4> SUFFICES ASSUME NEW i \in 1 .. a.lines
                   PROVE  /\ file[a.path][i].version \in {"", a.version}
                          /\ file[a.path][i].id \in {"", a.session}
                          /\ file[a.path][i].cwd # "elsewhere"
                          /\ ~file[a.path][i].sidechain
        OBVIOUS
      <4>1. /\ file[f][i].version \in {""} \cup {a.version}
            /\ file[f][i].id \in {""} \cup {a.session}
            /\ file[f][i].cwd \in {""} \cup {"inside"}
            /\ ~file[f][i].sidechain
        BY <2>10, <2>3, <2>5, <2>6
      <4> HIDE DEF f
      <4> QED
        BY <2>6, <4>1
    <3>4. a.lines \in 0 .. Len(file[a.path]) /\ a.digest[1] <= a.lines
      BY <1>1, <2>2, <2>6
    <3> QED
      BY <2>2, <2>6, <3>1, <3>2, <3>3, <3>4 DEF Sound
  <2>8. \A x \in accepted' : Sound(x)'
    BY <1>1, <2>1, <2>7 DEF Sound, ImportInv
  <2>9. Apart'
    BY <1>1, <2>1, <2>2, <2>6 DEF Apart, ImportInv
  <2> QED
    BY <1>1, <2>1, <2>8, <2>9 DEF ImportInv
<1> QED
  BY <1>2, <1>3

\* A file cannot be read.
LEMMA FileUnreadable ==
  ASSUME ImportInv, Unreadable
  PROVE  ImportInv'
BY FileRejected DEF Unreadable, RejectPath

\* The import keeps its invariant.
LEMMA ImportKept ==
  ASSUME ImportInv
  PROVE  /\ UNCHANGED importVars => ImportInv'
         /\ \A f \in Transcript : WriteHalf(f) => ImportInv'
         /\ \A f \in Transcript, r \in Records : WriteRest(f, r) => ImportInv'
         /\ ScanBegin \/ Digest \/ ReadLine \/ ReadEnd \/ Unreadable => ImportInv'
<1>1. ASSUME UNCHANGED <<file, scans, todo, reading, accepted, rejected>>,
             half' \in [Transcript -> BOOLEAN]
      PROVE  ImportInv'
  <2>1. \A x : (Gathered(x) => Gathered(x)') /\ (Sound(x) => Sound(x)')
    BY <1>1 DEF Gathered, Sound
  <2> QED
    BY <1>1, <2>1 DEF ImportInv, Apart
<1>2. UNCHANGED importVars => ImportInv'
  BY <1>1 DEF importVars, ImportInv
<1>3. \A f \in Transcript : WriteHalf(f) => ImportInv'
  BY <1>1 DEF WriteHalf, ImportInv
<1> QED
  BY <1>2, <1>3, TranscriptsGrow, ScanBegins, FileDigested, LineRead, FileFinished,
     FileUnreadable

\* What is accepted is what the first lines of the file say, unambiguously.
LEMMA AcceptedSound == ImportInv => ImportUnambiguous
<1> SUFFICES ASSUME ImportInv, NEW a \in accepted
             PROVE  LET read == SubSeq(file[a.path], 1, a.lines)
                    IN  /\ a.digest[1] <= a.lines
                        /\ a.lines <= Len(file[a.path])
                        /\ \A i \in DOMAIN read :
                             /\ read[i].version \in {"", a.version}
                             /\ read[i].id \in {"", a.session}
                             /\ read[i].cwd # "elsewhere"
                             /\ ~read[i].sidechain
                        /\ a.version \in Supported
                        /\ \E i \in DOMAIN read : read[i].type = "assistant"
                        /\ \A r \in rejected : r.path # a.path
  BY Zenon DEF ImportUnambiguous
<1> DEFINE read == SubSeq(file[a.path], 1, a.lines)
<1>1. Sound(a) /\ \A r \in rejected : r.path # a.path
  BY DEF ImportInv, Apart
<1>2. file[a.path] \in Seq(Records) /\ a.lines \in 0 .. Len(file[a.path])
      /\ a.digest[1] <= a.lines /\ a.version \in Supported
  BY <1>1 DEF ImportInv, Sound, Listed
<1>3. DOMAIN read = 1 .. a.lines /\ \A i \in 1 .. a.lines : read[i] = file[a.path][i]
  BY <1>2
<1> HIDE DEF read
<1>4. /\ \A i \in DOMAIN read :
           /\ read[i].version \in {"", a.version}
           /\ read[i].id \in {"", a.session}
           /\ read[i].cwd # "elsewhere"
           /\ ~read[i].sidechain
      /\ \E i \in DOMAIN read : read[i].type = "assistant"
  BY <1>1, <1>3 DEF Sound
<1>5. a.digest[1] <= a.lines /\ a.lines <= Len(file[a.path]) /\ a.version \in Supported
  BY <1>2
<1> QED
  BY <1>1, <1>4, <1>5 DEF read

\* The types of the import.
LEMMA ImportTyped == ImportInv => HistoryTypeOK
<1> SUFFICES ASSUME ImportInv PROVE HistoryTypeOK
  OBVIOUS
<1>1. \A f \in Transcript : Range(file[f]) \subseteq Records
  BY DEF ImportInv, Range
<1>2. ToSet(todo) \subseteq Transcript \ Subagents
  BY DEF ImportInv, ToSet, Listed
<1>3. reading # Idle => reading.line \in 0 .. Len(file[reading.path])
  <2> SUFFICES ASSUME reading # Idle PROVE reading.line \in 0 .. Len(file[reading.path])
    OBVIOUS
  <2>1. Gathered(reading) /\ file \in [Transcript -> Seq(Records)]
    BY DEF ImportInv
  <2>2. /\ reading.path \in Transcript /\ reading.line \in Nat
        /\ reading.line <= Len(file[reading.path])
    BY <2>1, GatheredParts
  <2> QED
    BY <2>1, <2>2
<1>4. \A r \in rejected : r.path \in Transcript
  BY DEF ImportInv
<1>5. \A a \in accepted : a.path \in Transcript \ Subagents
  BY DEF ImportInv, Sound, Listed
<1> QED
  BY <1>1, <1>2, <1>3, <1>4, <1>5 DEF HistoryTypeOK

-----------------------------------------------------------------------------
(***************************************************************************)
(* The verdict of the qualification, of any snapshot of the rows.          *)
(***************************************************************************)
\* The sum of a function over a set.
Total(E, R) == MapThenSumSet(LAMBDA r : E[r], R)

\* The sizes of disjoint sets add up to that of their union.
LEMMA SumOfSizes ==
  ASSUME NEW R, IsFiniteSet(R), NEW U, IsFiniteSet(U), NEW X \in [R -> SUBSET U],
         \A q, r \in R : q # r => X[q] \cap X[r] = {},
         NEW E, \A r \in R : E[r] = Cardinality(X[r])
  PROVE  Total(E, R) = Cardinality(UNION {X[r] : r \in R})
<1> DEFINE All(T) == UNION {X[r] : r \in T}
           total == [T \in SUBSET R |-> Cardinality(All(T))]
           Sums(g) == g = [T \in SUBSET R |->
                             IF T = {} THEN 0
                             ELSE E[CHOOSE x \in T : TRUE] + g[T \ {CHOOSE x \in T : TRUE}]]
           sum == CHOOSE g : Sums(g)
<1>1. ASSUME NEW T \in SUBSET R
      PROVE  IsFiniteSet(All(T)) /\ total[T] = Cardinality(All(T)) /\ total[T] \in Nat
  <2>1. All(T) \in SUBSET U
    OBVIOUS
  <2> QED
    BY <2>1, FS_Subset, FS_CardinalityType
<1>2. ASSUME NEW T \in SUBSET R, NEW x \in T
      PROVE  total[T] = E[x] + total[T \ {x}]
  <2>1. All(T) = X[x] \cup All(T \ {x}) /\ X[x] \cap All(T \ {x}) = {}
    OBVIOUS
  <2>2. /\ IsFiniteSet(X[x]) /\ IsFiniteSet(All(T \ {x}))
        /\ Cardinality(X[x]) \in Nat /\ Cardinality(All(T \ {x})) \in Nat
    <3>1. X[x] \in SUBSET U /\ T \ {x} \in SUBSET R
      OBVIOUS
    <3> QED
      BY <1>1, <3>1, FS_Subset, FS_CardinalityType
  <2> HIDE DEF All
  <2>3. Cardinality(All(T)) = Cardinality(X[x]) + Cardinality(All(T \ {x}))
    BY <2>1, <2>2, DisjointUnion
  <2>4. total[T] = Cardinality(All(T)) /\ total[T \ {x}] = Cardinality(All(T \ {x}))
    <3>1. T \ {x} \in SUBSET R
      OBVIOUS
    <3> QED
      BY <3>1
  <2> QED
    BY <2>2, <2>3, <2>4
<1>3. total[{}] = 0
  <2>1. All({}) = {}
    OBVIOUS
  <2> QED
    BY <2>1, FS_EmptySet
<1> HIDE DEF All
<1>4. Sums(total)
  <2> DEFINE right == [T \in SUBSET R |->
                             IF T = {} THEN 0
                             ELSE E[CHOOSE x \in T : TRUE] + total[T \ {CHOOSE x \in T : TRUE}]]
  <2>1. ASSUME NEW T \in SUBSET R PROVE total[T] = right[T]
    <3>1. CASE T = {}
      BY <1>3, <3>1
    <3>2. CASE T # {}
      <4> DEFINE x == CHOOSE x \in T : TRUE
      <4>1. x \in T
        BY <3>2
      <4>2. right[T] = E[x] + total[T \ {x}]
        BY <3>2
      <4> HIDE DEF x, total, right
      <4> QED
        BY <1>2, <4>1, <4>2
    <3> QED
      BY <3>1, <3>2
  <2> QED
    BY <2>1
<1>5. Sums(sum)
  <2> HIDE DEF Sums, total
  <2> QED
    BY <1>4, Zenon
<1>6. ASSUME NEW T \in SUBSET R
      PROVE  /\ T = {} => sum[T] = 0
             /\ T # {} => \E x \in T : sum[T] = E[x] + sum[T \ {x}]
  <2> HIDE DEF sum
  <2>1. sum[T] = IF T = {} THEN 0
                 ELSE E[CHOOSE x \in T : TRUE] + sum[T \ {CHOOSE x \in T : TRUE}]
    BY <1>5
  <2> QED
    BY <2>1
<1> HIDE DEF sum, total, Sums
<1> DEFINE agreed == {n \in Nat : \A T \in SUBSET R : Cardinality(T) = n => sum[T] = total[T]}
<1>7. \A T \in SUBSET R : IsFiniteSet(T) /\ Cardinality(T) \in Nat
  BY FS_Subset, FS_CardinalityType
<1>8. 0 \in agreed
  <2>1. \A T \in SUBSET R : Cardinality(T) = 0 => T = {}
    BY <1>7, FS_EmptySet
  <2> SUFFICES ASSUME NEW T \in SUBSET R, T = {} PROVE sum[T] = total[T]
    BY <2>1
  <2>2. sum[T] = 0
    BY <1>6
  <2> QED
    BY <1>3, <2>2
<1>9. ASSUME NEW n \in Nat, n \in agreed PROVE n + 1 \in agreed
  <2> SUFFICES ASSUME NEW T \in SUBSET R, Cardinality(T) = n + 1 PROVE sum[T] = total[T]
    OBVIOUS
  <2>1. T # {}
    <3> SUFFICES ASSUME T = {} PROVE FALSE
      OBVIOUS
    <3>1. Cardinality(T) = 0
      BY FS_EmptySet
    <3> QED
      BY <3>1
  <2>2. PICK x \in T : sum[T] = E[x] + sum[T \ {x}]
    BY <1>6, <2>1
  <2>3. Cardinality(T \ {x}) = n
    BY <1>7, FS_RemoveElement
  <2>4. sum[T \ {x}] = total[T \ {x}]
    BY <1>9, <2>3
  <2> QED
    BY <1>2, <2>2, <2>4
<1>10. Nat \subseteq agreed
  <2> HIDE DEF agreed
  <2> QED
    BY <1>8, <1>9, Induction
<1>11. sum[R] = total[R]
  BY <1>7, <1>10
<1>12. Total(E, R) = sum[R]
  BY Zenon DEF Total, MapThenSumSet, MapThenFoldSet, sum, Sums
<1> QED
  BY <1>1, <1>11, <1>12 DEF All

-----------------------------------------------------------------------------
\* Every distinct content among the pending trajectories counts once: it has
\* one representative, that whose identifier is the least.
LEMMA DistinctCounted ==
  ASSUME NEW d
  PROVE  Cardinality(Verdict(d).qualifying)
           = Cardinality({ContentKey(d, s) : s \in Pending(d)})
<1> DEFINE firsts == {s \in Pending(d) : ~Duplicate(d, s)}
           keys == {ContentKey(d, s) : s \in Pending(d)}
           key == [s \in firsts |-> ContentKey(d, s)]
<1>1. Pending(d) \subseteq Session /\ Pending(d) \subseteq Recorded(d)
  BY DEF Pending, Recorded
<1>2. /\ \A s \in Session : Order[s] \in Nat
      /\ \A s, t \in Session : Order[s] = Order[t] => s = t
  BY QualifyAssumption
<1>3. Verdict(d).qualifying = firsts
  <2>1. \A s \in Recorded(d) : Exclusion(d, s) = "none" <=> s \in firsts
    BY DEF Exclusion, Pending
  <2> HIDE DEF firsts
  <2>2. Verdict(d).qualifying = {s \in Recorded(d) : Exclusion(d, s) = "none"}
    BY DEF Verdict
  <2>3. firsts \subseteq Recorded(d)
    BY <1>1 DEF firsts
  <2> QED
    BY <2>1, <2>2, <2>3
<1>4. IsFiniteSet(firsts)
  BY <1>1, QualifyAssumption, FS_Subset
<1>5. key \in Injection(firsts, keys)
  <2>1. key \in [firsts -> keys]
    OBVIOUS
  <2>2. ASSUME NEW s \in firsts, NEW t \in firsts, key[s] = key[t] PROVE s = t
    <3>1. ~(Order[s] < Order[t]) /\ ~(Order[t] < Order[s])
      BY <2>2 DEF Duplicate
    <3>2. s \in Session /\ t \in Session
      BY <1>1
    <3>3. Order[s] = Order[t]
      BY <1>2, <3>1, <3>2
    <3> QED
      BY <1>2, <3>2, <3>3
  <2> HIDE DEF key, firsts, keys
  <2> QED
    BY <2>1, <2>2 DEF Injection, IsInjective
<1>6. ASSUME NEW k \in keys PROVE \E s \in firsts : key[s] = k
  <2> DEFINE alike == {s \in Pending(d) : ContentKey(d, s) = k}
             places == {Order[s] : s \in alike}
  <2>1. places \in SUBSET Nat /\ places # {}
    BY <1>1, <1>2
  <2>2. PICK m \in places : \A n \in places : m <= n
    BY <2>1, Least
  <2>3. PICK s \in alike : Order[s] = m
    OBVIOUS
  <2>4. \A t \in alike : ~(Order[t] < Order[s])
    <3>1. \A t \in alike : m <= Order[t] /\ Order[t] \in Nat
      BY <1>1, <1>2, <2>2
    <3> QED
      BY <2>1, <2>3, <3>1
  <2>5. ~Duplicate(d, s)
    BY <2>4 DEF Duplicate
  <2>6. s \in firsts
    BY <2>5
  <2> QED
    BY <2>6
<1>7. key \in Surjection(firsts, keys)
  <2> HIDE DEF firsts, keys, key
  <2> QED
    BY <1>5, <1>6 DEF Injection, Surjection
<1>8. Cardinality(keys) = Cardinality(firsts)
  <2> HIDE DEF firsts, keys, key
  <2> QED
    BY <1>4, <1>5, <1>7, FS_Surjection
<1> QED
  BY <1>3, <1>8

\* A verdict speaks of every trajectory once.
Accounted(verdict) ==
  verdict.recorded
    = Cardinality(verdict.qualifying)
        + MapThenSumSet(LAMBDA reason : verdict.exclusions[reason], Reasons)

\* Every recorded trajectory qualifies or is in one exclusion.
LEMMA EveryOneCounted ==
  ASSUME NEW d, NEW verdict, verdict = Verdict(d) PROVE Accounted(verdict)
<1> DEFINE recorded == Recorded(d)
           excluded == [reason \in Reasons |-> {s \in recorded : Exclusion(d, s) = reason}]
           out == UNION {excluded[reason] : reason \in Reasons}
           counts == verdict.exclusions
<1>1. IsFiniteSet(recorded)
  BY QualifyAssumption, FS_Subset DEF Recorded
<1>2. IsFiniteSet(Reasons)
  <2>1. Reasons = {"missing_session"} \cup {"incomplete"} \cup {"provenance"}
                    \cup {"missing_metrics"} \cup {"recorder_loss"}
                    \cup {"missing_annotation"} \cup {"outcome_unknown"}
                    \cup {"duplicate_content"}
    BY DEF Reasons
  <2> QED
    BY <2>1, FS_Singleton, FS_Union
<1>3. \A s \in recorded : Exclusion(d, s) \in Reasons \cup {"none"}
  BY DEF Exclusion, Classify, Reasons
<1>4. /\ verdict.recorded = Cardinality(recorded)
      /\ verdict.qualifying = {s \in recorded : Exclusion(d, s) = "none"}
      /\ \A reason \in Reasons : counts[reason] = Cardinality(excluded[reason])
  BY DEF Verdict
<1>5. MapThenSumSet(LAMBDA reason : counts[reason], Reasons) = Cardinality(out)
  <2>1. excluded \in [Reasons -> SUBSET recorded]
    OBVIOUS
  <2>2. \A q, r \in Reasons : q # r => excluded[q] \cap excluded[r] = {}
    OBVIOUS
  <2>3. \A reason \in Reasons : counts[reason] = Cardinality(excluded[reason])
    BY <1>4
  <2> HIDE DEF excluded, recorded, counts
  <2>4. Total(counts, Reasons) = Cardinality(out)
    BY <1>1, <1>2, <2>1, <2>2, <2>3, SumOfSizes
  <2> HIDE DEF out
  <2> QED
    BY <2>4, Zenon DEF Total
<1>6. recorded = verdict.qualifying \cup out /\ verdict.qualifying \cap out = {}
  <2>1. "none" \notin Reasons
    BY DEF Reasons
  <2> QED
    BY <1>3, <1>4, <2>1
<1>7. IsFiniteSet(verdict.qualifying) /\ IsFiniteSet(out)
  BY <1>1, <1>6, FS_Subset
<1> HIDE DEF out, recorded
<1>8. Cardinality(recorded) = Cardinality(verdict.qualifying) + Cardinality(out)
  BY <1>6, <1>7, DisjointUnion
<1>9. verdict.recorded
        = Cardinality(verdict.qualifying)
            + MapThenSumSet(LAMBDA reason : counts[reason], Reasons)
  BY <1>4, <1>5, <1>8
<1> QED
  BY <1>9, Zenon DEF Accounted

-----------------------------------------------------------------------------
(***************************************************************************)
(* The redaction of a text.                                                *)
(***************************************************************************)
\* The first n characters of a text.
Begins(text, n) == SubSeq(text, 1, n)

\* A beginning of a text is a text, and a longer one has more bytes.
LEMMA BytesOfBeginnings ==
  ASSUME NEW X, NEW text \in Seq(X)
  PROVE  /\ \A n \in 0 .. Len(text) :
              /\ Begins(text, n) \in Seq(X) /\ Len(Begins(text, n)) = n
              /\ \A k \in 1 .. n : Begins(text, n)[k] = text[k]
              /\ Bytes(Begins(text, n))
                   = n + Cardinality({k \in 1 .. n : text[k] = Wide})
              /\ Bytes(Begins(text, n)) \in Nat
         /\ \A m, n \in 0 .. Len(text) :
              m < n => Bytes(Begins(text, m)) < Bytes(Begins(text, n))
         /\ Begins(text, Len(text)) = text
         /\ Bytes(Begins(text, 0)) = 0
<1> DEFINE wide(n) == {k \in 1 .. n : text[k] = Wide}
<1>1. ASSUME NEW n \in 0 .. Len(text)
      PROVE  /\ Begins(text, n) \in Seq(X) /\ Len(Begins(text, n)) = n
             /\ DOMAIN Begins(text, n) = 1 .. n
             /\ \A k \in 1 .. n : Begins(text, n)[k] = text[k]
  BY DEF Begins
<1>2. ASSUME NEW n \in 0 .. Len(text)
      PROVE  IsFiniteSet(wide(n)) /\ Cardinality(wide(n)) \in Nat
  <2>1. IsFiniteSet(1 .. n) /\ wide(n) \in SUBSET (1 .. n)
    BY FS_Interval
  <2> QED
    BY <2>1, FS_Subset, FS_CardinalityType
<1>3. ASSUME NEW n \in 0 .. Len(text)
      PROVE  Bytes(Begins(text, n)) = n + Cardinality(wide(n))
  <2>1. {k \in DOMAIN Begins(text, n) : Begins(text, n)[k] = Wide} = wide(n)
    BY <1>1
  <2> HIDE DEF wide
  <2> QED
    BY <1>1, <2>1 DEF Bytes
<1>4. ASSUME NEW m \in 0 .. Len(text), NEW n \in 0 .. Len(text), m < n
      PROVE  Bytes(Begins(text, m)) < Bytes(Begins(text, n))
  <2>1. wide(m) \in SUBSET wide(n)
    BY <1>4
  <2>2. Cardinality(wide(m)) <= Cardinality(wide(n))
    BY <1>2, <2>1, FS_Subset
  <2> HIDE DEF wide
  <2> QED
    BY <1>2, <1>3, <1>4, <2>2
<1>5. Begins(text, Len(text)) = text
  BY DEF Begins
<1>6. Bytes(Begins(text, 0)) = 0
  <2>1. wide(0) = {}
    OBVIOUS
  <2>2. Cardinality(wide(0)) = 0
    BY <2>1, FS_EmptySet
  <2>3. Bytes(Begins(text, 0)) = 0 + Cardinality(wide(0))
    <3>1. 0 \in 0 .. Len(text)
      OBVIOUS
    <3> HIDE DEF wide
    <3> QED
      BY <1>3, <3>1
  <2> QED
    BY <2>2, <2>3
<1>7. \A n \in 0 .. Len(text) : Bytes(Begins(text, n)) \in Nat
  <2> HIDE DEF wide
  <2> QED
    BY <1>2, <1>3
<1> QED
  BY <1>1, <1>3, <1>4, <1>5, <1>6, <1>7

\* The floor of a text is its longest beginning within the limit.
LEMMA FloorIsLongest ==
  ASSUME NEW X, NEW text \in Seq(X), NEW limit \in Nat
  PROVE  \E n \in 0 .. Len(text) :
           /\ Floor(text, limit) = Begins(text, n)
           /\ Bytes(Begins(text, n)) <= limit
           /\ \A m \in 0 .. Len(text) : Bytes(Begins(text, m)) <= limit => m <= n
<1> DEFINE fits == {n \in 0 .. Len(text) : Bytes(Begins(text, n)) <= limit}
           rests == {Len(text) - n : n \in fits}
<1>1. Len(text) \in Nat
  OBVIOUS
<1>2. rests \in SUBSET Nat /\ rests # {}
  <2>1. 0 \in fits
    BY BytesOfBeginnings
  <2> QED
    BY <1>1, <2>1
<1>3. PICK n \in fits : \A m \in fits : Len(text) - n <= Len(text) - m
  <2>1. PICK r \in rests : \A q \in rests : r <= q
    BY <1>2, Least
  <2>2. PICK n \in fits : r = Len(text) - n
    OBVIOUS
  <2> QED
    BY <2>1, <2>2
<1>4. \A m \in fits : m <= n
  BY <1>1, <1>3
<1> DEFINE Fit(p) == /\ Bytes(p) <= limit
                     /\ \A q \in Prefixes(text) : Bytes(q) <= limit => Len(q) <= Len(p)
<1>5. Prefixes(text) = {Begins(text, m) : m \in 0 .. Len(text)}
  BY DEF Prefixes, Begins
<1>6. \A m \in 0 .. Len(text) : Len(Begins(text, m)) = m
  BY BytesOfBeginnings
<1>7. Begins(text, n) \in Prefixes(text) /\ Fit(Begins(text, n))
  BY <1>3, <1>4, <1>5, <1>6
<1>8. Floor(text, limit) \in Prefixes(text) /\ Fit(Floor(text, limit))
  <2>1. Floor(text, limit) = CHOOSE p \in Prefixes(text) : Fit(p)
    BY DEF Floor
  <2> HIDE DEF Fit
  <2> QED
    BY <1>7, <2>1
<1>9. PICK k \in 0 .. Len(text) : Floor(text, limit) = Begins(text, k)
  BY <1>5, <1>8
<1>10. /\ Bytes(Begins(text, k)) <= limit
       /\ \A m \in 0 .. Len(text) : Bytes(Begins(text, m)) <= limit => m <= k
  BY <1>5, <1>6, <1>8, <1>9
<1> QED
  BY <1>9, <1>10

\* A text within the limit is its own floor.
LEMMA FloorOfShort ==
  ASSUME NEW X, NEW text \in Seq(X), NEW limit \in Nat
  PROVE  /\ Bytes(Floor(text, limit)) <= limit
         /\ Bytes(text) <= limit => Floor(text, limit) = text
         /\ Bytes(text) <= Bytes(Floor(text, limit)) => Floor(text, limit) = text
<1>1. PICK n \in 0 .. Len(text) :
        /\ Floor(text, limit) = Begins(text, n)
        /\ Bytes(Begins(text, n)) <= limit
        /\ \A m \in 0 .. Len(text) : Bytes(Begins(text, m)) <= limit => m <= n
  BY FloorIsLongest
<1>2. Len(text) \in 0 .. Len(text) /\ Begins(text, Len(text)) = text
  BY BytesOfBeginnings
<1>3. ASSUME Bytes(text) <= limit PROVE n = Len(text)
  BY <1>1, <1>2, <1>3
<1>4. ASSUME n # Len(text) PROVE ~(Bytes(text) <= Bytes(Begins(text, n)))
  <2>1. Bytes(Begins(text, n)) < Bytes(Begins(text, Len(text)))
    BY <1>2, <1>4, BytesOfBeginnings
  <2>2. Bytes(Begins(text, n)) \in Nat /\ Bytes(Begins(text, Len(text))) \in Nat
    BY <1>2, BytesOfBeginnings
  <2> QED
    BY <1>2, <2>1, <2>2
<1> QED
  BY <1>1, <1>2, <1>3, <1>4

-----------------------------------------------------------------------------
\* Texts one after the other are a text.
LEMMA Flattened ==
  ASSUME NEW X, NEW texts \in Seq(Seq(X))
  PROVE  FlattenSeq(texts) \in Seq(X)
<1> DEFINE n == Len(texts)
           Joins(g, m) == g = [i \in 1 .. m |->
                                 IF i = 1 THEN texts[i] ELSE g[i - 1] \o texts[i]]
           flatten == CHOOSE g : Joins(g, n)
<1>1. n \in Nat /\ \A i \in 1 .. n : texts[i] \in Seq(X)
  OBVIOUS
<1>2. CASE n = 0
  <2>1. texts = <<>> /\ FlattenSeq(texts) = texts
    BY <1>2 DEF FlattenSeq
  <2>2. <<>> \in Seq(X)
    OBVIOUS
  <2> QED
    BY <2>1, <2>2
<1>3. CASE n # 0
  <2> DEFINE joined == {m \in Nat : m <= n => \E g : Joins(g, m)}
  <2>1. 0 \in joined
    <3> DEFINE g == [i \in 1 .. 0 |-> texts[i]]
    <3>1. g = [i \in 1 .. 0 |-> IF i = 1 THEN texts[i] ELSE g[i - 1] \o texts[i]]
      <4>1. \A i \in 1 .. 0 : FALSE
        OBVIOUS
      <4> QED
        BY <4>1
    <3>2. Joins(g, 0)
      BY <3>1
    <3> HIDE DEF Joins
    <3> QED
      BY <3>2
  <2>2. ASSUME NEW m \in Nat, m \in joined PROVE m + 1 \in joined
    <3> HIDE DEF Joins
    <3> SUFFICES ASSUME m + 1 <= n PROVE \E g : Joins(g, m + 1)
      OBVIOUS
    <3>1. PICK g : Joins(g, m)
      BY <1>1, <2>2
    <3> DEFINE h == [i \in 1 .. m + 1 |->
                       IF i = 1 THEN texts[i] ELSE g[i - 1] \o texts[i]]
    <3>2. \A i \in 1 .. m : h[i] = g[i]
      <4>1. g = [i \in 1 .. m |-> IF i = 1 THEN texts[i] ELSE g[i - 1] \o texts[i]]
        BY <3>1 DEF Joins
      <4>2. \A i \in 1 .. m : g[i] = IF i = 1 THEN texts[i] ELSE g[i - 1] \o texts[i]
        BY <4>1
      <4>3. \A i \in 1 .. m + 1 : h[i] = IF i = 1 THEN texts[i] ELSE g[i - 1] \o texts[i]
        OBVIOUS
      <4> HIDE DEF h
      <4> QED
        BY <4>2, <4>3
    <3>3. \A i \in 1 .. m + 1 : i # 1 => h[i - 1] = g[i - 1]
      <4> HIDE DEF h
      <4>1. \A i \in 1 .. m + 1 : i # 1 => i - 1 \in 1 .. m
        OBVIOUS
      <4> QED
        BY <3>2, <4>1
    <3>4. h = [i \in 1 .. m + 1 |-> IF i = 1 THEN texts[i] ELSE h[i - 1] \o texts[i]]
      <4>1. \A i \in 1 .. m + 1 :
              h[i] = IF i = 1 THEN texts[i] ELSE g[i - 1] \o texts[i]
        OBVIOUS
      <4>2. h = [i \in 1 .. m + 1 |-> h[i]]
        OBVIOUS
      <4> HIDE DEF h
      <4>3. \A i \in 1 .. m + 1 :
              h[i] = IF i = 1 THEN texts[i] ELSE h[i - 1] \o texts[i]
        BY <3>3, <4>1
      <4> QED
        BY <4>2, <4>3
    <3>5. Joins(h, m + 1)
      <4> HIDE DEF h
      <4> QED
        BY <3>4 DEF Joins
    <3> QED
      BY <3>5
  <2>3. \E g : Joins(g, n)
    <3> HIDE DEF Joins
    <3>1. Nat \subseteq joined
      BY <2>1, <2>2, Induction
    <3> QED
      BY <1>1, <3>1
  <2>4. Joins(flatten, n)
    <3> HIDE DEF Joins
    <3> QED
      BY <2>3, Zenon
  <2>5. FlattenSeq(texts) = flatten[n]
    BY <1>3, Zenon DEF FlattenSeq
  <2> HIDE DEF flatten
  <2> DEFINE whole == {m \in Nat : m + 1 <= n => flatten[m + 1] \in Seq(X)}
  <2>6. 0 \in whole
    BY <1>1, <2>4
  <2>7. ASSUME NEW m \in Nat, m \in whole PROVE m + 1 \in whole
    <3> SUFFICES ASSUME m + 2 <= n PROVE flatten[m + 2] \in Seq(X)
      OBVIOUS
    <3>1. flatten[m + 1] \in Seq(X) /\ texts[m + 2] \in Seq(X)
      BY <1>1, <2>7
    <3>2. flatten[m + 2] = flatten[m + 1] \o texts[m + 2]
      <4>1. m + 2 \in 1 .. n /\ m + 2 # 1 /\ (m + 2) - 1 = m + 1
        BY <1>1
      <4> QED
        BY <2>4, <4>1
    <3> QED
      BY <3>1, <3>2
  <2>8. Nat \subseteq whole
    <3> HIDE DEF whole
    <3> QED
      BY <2>6, <2>7, Induction
  <2>9. n - 1 \in Nat /\ (n - 1) + 1 = n
    BY <1>1, <1>3
  <2> QED
    BY <2>5, <2>8, <2>9
<1> QED
  BY <1>2, <1>3

\* What a text is rewritten with.
Kept == Character \cup {"#", "~"}

\* A replacement of matches is a text; it depends on the matches and on the
\* characters outside of them.
LEMMA ReplaceOutside ==
  ASSUME NEW text \in Seq(Kept), NEW matches, NEW replacement \in Seq(Kept)
  PROVE  /\ Replace(text, matches, replacement) \in Seq(Kept)
         /\ \A other \in Seq(Kept) :
              (/\ Len(other) = Len(text)
               /\ \A k \in 1 .. Len(text) :
                    (\E m \in matches : k \in m[1] .. m[2]) \/ other[k] = text[k])
              => Replace(other, matches, replacement) = Replace(text, matches, replacement)
<1> DEFINE Piece(t, k) ==
             IF \E m \in matches : k = m[1] THEN replacement
             ELSE IF \E m \in matches : k \in m[1] .. m[2] THEN <<>>
             ELSE <<t[k]>>
           pieces(t) == [k \in DOMAIN t |-> Piece(t, k)]
<1>1. \A t : Replace(t, matches, replacement) = FlattenSeq(pieces(t))
  BY DEF Replace
<1>2. pieces(text) \in Seq(Seq(Kept))
  <2>1. \A k \in 1 .. Len(text) : <<text[k]>> \in Seq(Kept)
    OBVIOUS
  <2>2. \A k \in 1 .. Len(text) : Piece(text, k) \in Seq(Kept)
    BY <2>1
  <2>3. DOMAIN text = 1 .. Len(text) /\ Len(text) \in Nat
    OBVIOUS
  <2> HIDE DEF Piece
  <2> QED
    BY <2>2, <2>3
<1>3. ASSUME NEW other \in Seq(Kept), Len(other) = Len(text),
             \A k \in 1 .. Len(text) :
               (\E m \in matches : k \in m[1] .. m[2]) \/ other[k] = text[k]
      PROVE  pieces(other) = pieces(text)
  <2>1. DOMAIN other = DOMAIN text /\ DOMAIN text = 1 .. Len(text)
    BY <1>3
  <2>2. \A k \in 1 .. Len(text) : Piece(other, k) = Piece(text, k)
    BY <1>3
  <2> HIDE DEF Piece
  <2> QED
    BY <2>1, <2>2
<1> HIDE DEF pieces
<1> QED
  BY <1>1, <1>2, <1>3, Flattened

\* What replaces a secret or the home directory is kept by every rewriting.
LEMMA ReplacementsKept == /\ Marker \in Seq(Kept) /\ Alias \in Seq(Kept)
                          /\ Seq(Character) \subseteq Seq(Kept)
<1>1. /\ Marker \in Seq({"#"}) /\ Alias \in Seq({"~"})
      /\ {"#"} \subseteq Kept /\ {"~"} \subseteq Kept /\ Character \subseteq Kept
  BY RedactionAssumption DEF Kept
<1> QED
  BY <1>1, SeqMonotonic

\* A text stays one when it is rewritten.
LEMMA RewriteKept ==
  ASSUME NEW text \in Seq(Kept)
  PROVE  Rewrite(text) \in Seq(Kept)
<1> DEFINE unblocked == Replace(text, Matches(text, IsBlock), Marker)
           untokened == Replace(unblocked, Matches(unblocked, IsToken), Marker)
<1>1. unblocked \in Seq(Kept)
  BY ReplaceOutside, ReplacementsKept
<1>2. untokened \in Seq(Kept)
  <2> HIDE DEF unblocked
  <2> QED
    BY <1>1, ReplaceOutside, ReplacementsKept
<1>3. Rewrite(text) = Replace(untokened, HomeAt(untokened), Alias)
  BY DEF Rewrite
<1> HIDE DEF untokened
<1> QED
  BY <1>2, <1>3, ReplaceOutside, ReplacementsKept

\* Blocks are where their delimiters are.
LEMMA BlocksByDelimiters ==
  ASSUME NEW text \in Seq(Kept), NEW other \in Seq(Kept), Len(other) = Len(text),
         \A k \in 1 .. Len(text) : /\ other[k] = Open <=> text[k] = Open
                                   /\ other[k] = Close <=> text[k] = Close
  PROVE  Matches(other, IsBlock) = Matches(text, IsBlock)
<1>1. DOMAIN other = 1 .. Len(text) /\ DOMAIN text = 1 .. Len(text) /\ Len(text) \in Nat
  OBVIOUS
<1>2. ASSUME NEW i \in 1 .. Len(text), NEW j \in 1 .. Len(text)
      PROVE  IsBlock(other, i, j) <=> IsBlock(text, i, j)
  <2>1. \A k \in (i + 1)..(j - 1) : k \in 1 .. Len(text)
    BY <1>1
  <2> QED
    BY <2>1 DEF IsBlock
<1> DEFINE found(t) == {m \in (DOMAIN t) \X (DOMAIN t) : IsBlock(t, m[1], m[2])}
<1>3. found(other) = found(text)
  BY <1>1, <1>2
<1>4. \A t : Matches(t, IsBlock)
               = {m \in found(t) : \A n \in found(t) : n[1] < m[1] => n[2] < m[1]}
  BY DEF Matches
<1> HIDE DEF found
<1> QED
  BY <1>3, <1>4

-----------------------------------------------------------------------------
\* What a secret says makes no difference: the disguised text has the same
\* window but for the insides of blocks, which are replaced.
LEMMA DisguisedAlike ==
  ASSUME NEW text \in Seq(Character), NEW d, d = Disguised(text)
  PROVE  /\ Bytes(d) = Bytes(text)
         /\ Bytes(Window(d)) = Bytes(Window(text))
         /\ Rewrite(Window(d)) = Rewrite(Window(text))
         /\ Redactions(Window(d)) = Redactions(Window(text))
<1> DEFINE blocks == Matches(Window(text), IsBlock)
           inside(k) == \E m \in blocks : k \in m[1]..m[2]
<1>1. d = [k \in DOMAIN text |->
             IF text[k] = "a" /\ inside(k) THEN "b" ELSE text[k]]
  BY DEF Disguised
<1>2. /\ Len(text) \in Nat /\ DOMAIN text = 1 .. Len(text)
      /\ \A k \in 1 .. Len(text) : text[k] \in Character
  OBVIOUS
<1> HIDE DEF blocks, inside
<1>3. /\ d \in Seq(Character) /\ Len(d) = Len(text)
      /\ \A k \in 1 .. Len(text) :
           /\ inside(k) \/ d[k] = text[k]
           /\ d[k] # text[k] => d[k] \in Plain /\ text[k] \in Plain
  <2>1. \A k \in 1 .. Len(text) :
          /\ d[k] \in Character
          /\ inside(k) \/ d[k] = text[k]
          /\ d[k] # text[k] => d[k] \in Plain /\ text[k] \in Plain
    BY <1>1, <1>2 DEF Character, Plain
  <2>2. d = [k \in 1 .. Len(text) |-> d[k]]
    BY <1>1, <1>2
  <2> QED
    BY <1>2, <2>1, <2>2
<1>4. \A k \in 1 .. Len(text) : /\ d[k] = Wide <=> text[k] = Wide
                                /\ d[k] = Open <=> text[k] = Open
                                /\ d[k] = Close <=> text[k] = Close
  BY <1>3 DEF Plain, Wide, Open, Close
<1>5. \A n \in 0 .. Len(text) : Bytes(Begins(d, n)) = Bytes(Begins(text, n))
  <2> SUFFICES ASSUME NEW n \in 0 .. Len(text)
               PROVE  Bytes(Begins(d, n)) = Bytes(Begins(text, n))
    OBVIOUS
  <2>1. {k \in 1 .. n : d[k] = Wide} = {k \in 1 .. n : text[k] = Wide}
    BY <1>2, <1>4
  <2>2. Bytes(Begins(d, n)) = n + Cardinality({k \in 1 .. n : d[k] = Wide})
    BY <1>3, BytesOfBeginnings
  <2>3. Bytes(Begins(text, n)) = n + Cardinality({k \in 1 .. n : text[k] = Wide})
    BY BytesOfBeginnings
  <2> QED
    BY <2>1, <2>2, <2>3
<1>6. Bytes(d) = Bytes(text)
  <2>1. Begins(d, Len(text)) = d /\ Begins(text, Len(text)) = text
    BY <1>3, BytesOfBeginnings
  <2> QED
    BY <1>2, <1>5, <2>1
<1>7. PICK n \in 0 .. Len(text) : Window(text) = Begins(text, n) /\ Window(d) = Begins(d, n)
  <2>1. 2 * MaxFieldBytes \in Nat
    BY RedactionAssumption
  <2>2. PICK n \in 0 .. Len(text) :
          /\ Window(text) = Begins(text, n)
          /\ Bytes(Begins(text, n)) <= 2 * MaxFieldBytes
          /\ \A m \in 0 .. Len(text) : Bytes(Begins(text, m)) <= 2 * MaxFieldBytes => m <= n
    BY <2>1, FloorIsLongest DEF Window
  <2>3. PICK k \in 0 .. Len(text) :
          /\ Window(d) = Begins(d, k)
          /\ Bytes(Begins(d, k)) <= 2 * MaxFieldBytes
          /\ \A m \in 0 .. Len(text) : Bytes(Begins(d, m)) <= 2 * MaxFieldBytes => m <= k
    <3>1. \E k \in 0 .. Len(d) :
            /\ Window(d) = Begins(d, k)
            /\ Bytes(Begins(d, k)) <= 2 * MaxFieldBytes
            /\ \A m \in 0 .. Len(d) : Bytes(Begins(d, m)) <= 2 * MaxFieldBytes => m <= k
      <4>1. d \in Seq(Character)
        BY <1>3
      <4>2. \E k \in 0 .. Len(d) :
              /\ Floor(d, 2 * MaxFieldBytes) = Begins(d, k)
              /\ Bytes(Begins(d, k)) <= 2 * MaxFieldBytes
              /\ \A m \in 0 .. Len(d) : Bytes(Begins(d, m)) <= 2 * MaxFieldBytes => m <= k
        <5> DEFINE limit == 2 * MaxFieldBytes
        <5>1. limit \in Nat
          BY <2>1
        <5> HIDE DEF limit
        <5>2. \E k \in 0 .. Len(d) :
              /\ Floor(d, limit) = Begins(d, k)
              /\ Bytes(Begins(d, k)) <= limit
              /\ \A m \in 0 .. Len(d) : Bytes(Begins(d, m)) <= limit => m <= k
          BY <4>1, <5>1, FloorIsLongest
        <5> QED
          BY <5>2 DEF limit
      <4> QED
        BY <4>2 DEF Window
    <3> QED
      BY <1>3, <3>1
  <2>4. k <= n /\ n <= k
    BY <1>5, <2>2, <2>3
  <2>5. k = n
    BY <2>4
  <2> QED
    BY <2>2, <2>3, <2>5
<1> DEFINE w == Begins(text, n)
           v == Begins(d, n)
<1>8. /\ w \in Seq(Kept) /\ v \in Seq(Kept) /\ Len(w) = n /\ Len(v) = n
      /\ \A k \in 1 .. n : w[k] = text[k] /\ v[k] = d[k] /\ k \in 1 .. Len(text)
  <2>1. /\ w \in Seq(Character) /\ v \in Seq(Character)
    <3>1. n \in 0 .. Len(d)
      BY <1>3
    <3> QED
      BY <1>3, <3>1, BytesOfBeginnings
  <2>2. /\ Len(w) = n /\ Len(v) = n
        /\ \A k \in 1 .. n : w[k] = text[k] /\ v[k] = d[k] /\ k \in 1 .. Len(text)
    <3>1. n \in 0 .. Len(d)
      BY <1>3
    <3>2. /\ Len(v) = n
          /\ \A k \in 1 .. n : v[k] = d[k]
      BY <1>3, <3>1, BytesOfBeginnings
    <3>3. /\ Len(w) = n
          /\ \A k \in 1 .. n : w[k] = text[k]
      BY BytesOfBeginnings
    <3> QED
      BY <1>2, <3>2, <3>3
  <2> QED
    BY <2>1, <2>2, ReplacementsKept
<1> HIDE DEF w, v
<1>9. Matches(v, IsBlock) = Matches(w, IsBlock)
  BY <1>4, <1>8, BlocksByDelimiters
<1>10. blocks = Matches(w, IsBlock)
  BY <1>7 DEF blocks, w
<1>11. Replace(v, Matches(v, IsBlock), Marker) = Replace(w, Matches(w, IsBlock), Marker)
  <2>1. \A k \in 1 .. n : (\E m \in blocks : k \in m[1] .. m[2]) \/ v[k] = w[k]
    BY <1>3, <1>8 DEF inside
  <2>2. Replace(v, blocks, Marker) = Replace(w, blocks, Marker)
    <3>1. /\ w \in Seq(Kept) /\ v \in Seq(Kept) /\ Len(v) = Len(w)
          /\ \A k \in 1 .. Len(w) : (\E m \in blocks : k \in m[1] .. m[2]) \/ v[k] = w[k]
      BY <1>8, <2>1
    <3>2. \A other \in Seq(Kept) :
            (/\ Len(other) = Len(w)
             /\ \A k \in 1 .. Len(w) :
                  (\E m \in blocks : k \in m[1] .. m[2]) \/ other[k] = w[k])
            => Replace(other, blocks, Marker) = Replace(w, blocks, Marker)
      BY <3>1, ReplaceOutside, ReplacementsKept
    <3> QED
      BY <3>1, <3>2
  <2> QED
    BY <1>9, <1>10, <2>2
<1>12. Rewrite(v) = Rewrite(w)
  BY <1>11 DEF Rewrite
<1>13. Redactions(v) = Redactions(w)
  BY <1>9, <1>11 DEF Redactions
<1> QED
  BY <1>5, <1>6, <1>7, <1>12, <1>13 DEF w, v

\* A field within its cap, whole unless it says otherwise, that no secret shows in.
LEMMA FieldSound == captured \in Seq(Character) => RedactionSound
<1> SUFFICES ASSUME captured \in Seq(Character) PROVE RedactionSound
  OBVIOUS
<1> DEFINE field == Field(captured)
           rewritten == Rewrite(Window(captured))
<1>1. /\ field.value = Floor(rewritten, MaxFieldBytes)
      /\ field.truncated = \/ Bytes(rewritten) > MaxFieldBytes
                           \/ Bytes(captured) > Bytes(Window(captured))
  BY DEF Field
<1>2. MaxFieldBytes \in Nat /\ 2 * MaxFieldBytes \in Nat
  BY RedactionAssumption
<1>3. PICK n \in 0 .. Len(captured) : Window(captured) = Begins(captured, n)
  BY <1>2, FloorIsLongest DEF Window
<1>4. /\ Window(captured) \in Seq(Kept) /\ Bytes(Window(captured)) \in Nat
      /\ captured \in Seq(Kept)
  <2>1. /\ Begins(captured, n) \in Seq(Character)
        /\ Bytes(Begins(captured, n)) \in Nat
    BY BytesOfBeginnings
  <2> QED
    BY <1>3, <2>1, ReplacementsKept
<1>5. Bytes(captured) \in Nat
  <2>1. Len(captured) \in 0 .. Len(captured) /\ Begins(captured, Len(captured)) = captured
    BY BytesOfBeginnings
  <2> QED
    BY <2>1, BytesOfBeginnings
<1>6. rewritten \in Seq(Kept)
  BY <1>4, RewriteKept
<1>7. Bytes(rewritten) \in Nat
  <2> HIDE DEF rewritten
  <2>1. Len(rewritten) \in 0 .. Len(rewritten) /\ Begins(rewritten, Len(rewritten)) = rewritten
    BY <1>6, BytesOfBeginnings
  <2> QED
    BY <1>6, <2>1, BytesOfBeginnings
<1>8. Bytes(field.value) <= MaxFieldBytes
  <2> HIDE DEF rewritten, field
  <2> QED
    BY <1>1, <1>2, <1>6, FloorOfShort
<1>9. ~field.truncated => field.value = Rewrite(captured)
  <2> SUFFICES ASSUME ~field.truncated PROVE field.value = Rewrite(captured)
    OBVIOUS
  <2>1. Bytes(rewritten) <= MaxFieldBytes /\ Bytes(captured) <= Bytes(Window(captured))
    <3> HIDE DEF rewritten, field
    <3> QED
      BY <1>1, <1>2, <1>4, <1>5, <1>7
  <2>2. Window(captured) = captured
    BY <1>2, <2>1, FloorOfShort DEF Window
  <2>3. Floor(rewritten, MaxFieldBytes) = rewritten
    <3> HIDE DEF rewritten
    <3> QED
      BY <1>2, <1>6, <2>1, FloorOfShort
  <2> QED
    BY <1>1, <2>2, <2>3
<1>10. Field(captured) = Field(Disguised(captured))
  BY DisguisedAlike DEF Field
<1> QED
  BY <1>8, <1>9, <1>10 DEF RedactionSound

-----------------------------------------------------------------------------
(***************************************************************************)
(* The turns of a session.                                                 *)
(***************************************************************************)
\* The greatest of some numbers up to n is one of them, and none is greater.
LEMMA MaxOf ==
  ASSUME NEW n \in Nat, NEW T \in SUBSET (1 .. n), T # {}
  PROVE  Max(T) \in T /\ \A y \in T : y <= Max(T)
<1> DEFINE rests == {n - x : x \in T}
<1>1. \A x \in T : x \in Nat /\ n - x \in Nat
  OBVIOUS
<1>2. rests \in SUBSET Nat
  BY <1>1
<1>3. rests # {}
  OBVIOUS
<1>4. PICK r \in rests : \A q \in rests : r <= q
  <2> HIDE DEF rests
  <2> QED
    BY <1>2, <1>3, Least
<1>5. PICK x \in T : r = n - x
  OBVIOUS
<1>6. ASSUME NEW y \in T PROVE x >= y
  <2>1. n - x <= n - y
    BY <1>4, <1>5
  <2> QED
    BY <1>1, <2>1
<1> DEFINE Greatest(g) == g \in T /\ \A y \in T : g >= y
<1>7. Max(T) = CHOOSE g : Greatest(g)
  BY Zenon DEF Max
<1>8. Greatest(x)
  BY <1>6
<1>9. Greatest(Max(T))
  <2> HIDE DEF Greatest
  <2> QED
    BY <1>7, <1>8, Zenon
<1> QED
  BY <1>1, <1>9

\* The first numbers without the last of them.
LEMMA MaxOfFirst ==
  ASSUME NEW i \in Nat \ {0}
  PROVE  Max(1 .. i) = i /\ (1 .. i) \ {Max(1 .. i)} = 1 .. (i - 1)
<1>1. 1 .. i \in SUBSET (1 .. i) /\ i \in 1 .. i
  OBVIOUS
<1>2. Max(1 .. i) \in 1 .. i /\ i <= Max(1 .. i)
  BY <1>1, MaxOf
<1>3. Max(1 .. i) = i
  BY <1>2
<1> QED
  BY <1>3

\* The fold over the rows takes them one by one.
LEMMA CountWalk ==
  ASSUME NEW X, NEW rows \in Seq(X), NEW start
  PROVE  \E w : /\ w[0] = start
                /\ \A i \in 1 .. Len(rows) : w[i] = CountTurn(w[i - 1], rows[i])
                /\ FoldLeft(CountTurn, start, rows) = w[Len(rows)]
<1> DEFINE n == Len(rows)
           value(g, T) == IF T = {} THEN start
                          ELSE CountTurn(g[T \ {Max(T)}], rows[Max(T)])
           Folds(g, m) == g = [T \in SUBSET (1 .. m) |-> value(g, T)]
           fold == CHOOSE g : Folds(g, n)
           folded == {m \in Nat : m <= n => \E g : Folds(g, m)}
<1>1. n \in Nat /\ DOMAIN rows = 1 .. n
  OBVIOUS
<1>2. ASSUME NEW m \in Nat, NEW T \in SUBSET (1 .. m + 1), T # {}
      PROVE  T \ {Max(T)} \in SUBSET (1 .. m)
  <2> HIDE DEF value, Folds, fold, folded
  <2>1. m + 1 \in Nat
    OBVIOUS
  <2>2. Max(T) \in T /\ \A y \in T : y <= Max(T)
    BY <1>2, <2>1, MaxOf
  <2>3. ASSUME NEW y \in T, y # Max(T) PROVE y \in 1 .. m
    <3>1. y \in 1 .. m + 1 /\ Max(T) \in 1 .. m + 1 /\ y <= Max(T)
      BY <2>2
    <3> QED
      BY <2>3, <3>1
  <2> QED
    BY <2>3
<1>3. 0 \in folded
  <2> DEFINE g == [T \in SUBSET (1 .. 0) |-> start]
  <2>1. \A T \in SUBSET (1 .. 0) : T = {}
    OBVIOUS
  <2>2. \A T \in SUBSET (1 .. 0) : g[T] = value(g, T)
    BY <2>1
  <2>3. g = [T \in SUBSET (1 .. 0) |-> g[T]]
    OBVIOUS
  <2> HIDE DEF g
  <2>4. Folds(g, 0)
    BY <2>2, <2>3
  <2> HIDE DEF Folds
  <2> QED
    BY <2>4
<1>4. ASSUME NEW m \in Nat, m \in folded PROVE m + 1 \in folded
  <2> HIDE DEF Folds
  <2> SUFFICES ASSUME m + 1 <= n PROVE \E g : Folds(g, m + 1)
    OBVIOUS
  <2>1. PICK g : Folds(g, m)
    BY <1>1, <1>4
  <2> DEFINE h == [T \in SUBSET (1 .. m + 1) |-> value(g, T)]
  <2>2. \A T \in SUBSET (1 .. m) : g[T] = value(g, T)
    <3> HIDE DEF value
    <3> QED
      BY <2>1 DEF Folds
  <2>3. /\ \A T \in SUBSET (1 .. m + 1) : h[T] = value(g, T)
        /\ h = [T \in SUBSET (1 .. m + 1) |-> h[T]]
    <3> HIDE DEF value
    <3> QED
      OBVIOUS
  <2> HIDE DEF h
  <2>4. \A T \in SUBSET (1 .. m) : T \in SUBSET (1 .. m + 1) /\ h[T] = g[T]
    <3>1. \A T \in SUBSET (1 .. m) : T \in SUBSET (1 .. m + 1)
      OBVIOUS
    <3> HIDE DEF value
    <3> QED
      BY <2>2, <2>3, <3>1
  <2>5. ASSUME NEW T \in SUBSET (1 .. m + 1) PROVE h[T] = value(h, T)
    <3>1. CASE T = {}
      BY <2>3, <3>1
    <3>2. CASE T # {}
      <4>1. h[T \ {Max(T)}] = g[T \ {Max(T)}]
        BY <1>2, <2>4, <3>2
      <4> QED
        BY <2>3, <3>2, <4>1
    <3> QED
      BY <3>1, <3>2
  <2>6. Folds(h, m + 1)
    <3> HIDE DEF value
    <3> QED
      BY <2>3, <2>5 DEF Folds
  <2> QED
    BY <2>6
<1> HIDE DEF Folds
<1>5. Folds(fold, n)
  <2>1. Nat \subseteq folded
    <3> HIDE DEF folded
    <3> QED
      BY <1>3, <1>4, Induction
  <2>2. \E g : Folds(g, n)
    BY <1>1, <2>1
  <2> QED
    BY <2>2, Zenon
<1>6. FoldLeft(CountTurn, start, rows) = fold[1 .. n]
  <2>1. FoldLeft(CountTurn, start, rows) = (CHOOSE g : g = [T \in SUBSET DOMAIN rows |-> value(g, T)])[DOMAIN rows]
    BY Zenon DEF FoldLeft, MapThenFoldSet
  <2> QED
    BY <1>1, <2>1, Zenon DEF Folds
<1> HIDE DEF fold
<1>7. \A T \in SUBSET (1 .. n) : fold[T] = value(fold, T)
  <2> HIDE DEF value
  <2> QED
    BY <1>5 DEF Folds
<1> DEFINE w == [i \in 0 .. n |-> fold[1 .. i]]
<1>8. w[0] = start
  <2>1. 1 .. 0 = {} /\ 1 .. 0 \in SUBSET (1 .. n) /\ 0 \in 0 .. n
    BY <1>1
  <2> QED
    BY <1>7, <2>1
<1>9. ASSUME NEW i \in 1 .. n PROVE w[i] = CountTurn(w[i - 1], rows[i])
  <2>1. Max(1 .. i) = i /\ (1 .. i) \ {Max(1 .. i)} = 1 .. (i - 1)
    BY MaxOfFirst
  <2>2. 1 .. i \in SUBSET (1 .. n) /\ 1 .. i # {}
    <3>1. i \in Nat /\ n \in Nat /\ 1 <= i /\ i <= n
      BY <1>1
    <3>2. 1 .. i \in SUBSET (1 .. n) /\ i \in 1 .. i
      BY <3>1
    <3> QED
      BY <3>2
  <2>3. fold[1 .. i] = CountTurn(fold[1 .. (i - 1)], rows[i])
    BY <1>7, <2>1, <2>2
  <2>4. i \in 0 .. n /\ i - 1 \in 0 .. n
    BY <1>1
  <2> QED
    BY <2>3, <2>4
<1>10. FoldLeft(CountTurn, start, rows) = w[n]
  BY <1>1, <1>6
<1> HIDE DEF w
<1> QED
  BY <1>8, <1>9, <1>10

\* The fold over the segments takes them one by one.
LEMMA AddWalk ==
  ASSUME NEW X, NEW rows \in Seq(X), NEW start
  PROVE  \E w : /\ w[0] = start
                /\ \A i \in 1 .. Len(rows) : w[i] = AddTurn(w[i - 1], rows[i])
                /\ FoldLeft(AddTurn, start, rows) = w[Len(rows)]
<1> DEFINE n == Len(rows)
           value(g, T) == IF T = {} THEN start
                          ELSE AddTurn(g[T \ {Max(T)}], rows[Max(T)])
           Folds(g, m) == g = [T \in SUBSET (1 .. m) |-> value(g, T)]
           fold == CHOOSE g : Folds(g, n)
           folded == {m \in Nat : m <= n => \E g : Folds(g, m)}
<1>1. n \in Nat /\ DOMAIN rows = 1 .. n
  OBVIOUS
<1>2. ASSUME NEW m \in Nat, NEW T \in SUBSET (1 .. m + 1), T # {}
      PROVE  T \ {Max(T)} \in SUBSET (1 .. m)
  <2> HIDE DEF value, Folds, fold, folded
  <2>1. m + 1 \in Nat
    OBVIOUS
  <2>2. Max(T) \in T /\ \A y \in T : y <= Max(T)
    BY <1>2, <2>1, MaxOf
  <2>3. ASSUME NEW y \in T, y # Max(T) PROVE y \in 1 .. m
    <3>1. y \in 1 .. m + 1 /\ Max(T) \in 1 .. m + 1 /\ y <= Max(T)
      BY <2>2
    <3> QED
      BY <2>3, <3>1
  <2> QED
    BY <2>3
<1>3. 0 \in folded
  <2> DEFINE g == [T \in SUBSET (1 .. 0) |-> start]
  <2>1. \A T \in SUBSET (1 .. 0) : T = {}
    OBVIOUS
  <2>2. \A T \in SUBSET (1 .. 0) : g[T] = value(g, T)
    BY <2>1
  <2>3. g = [T \in SUBSET (1 .. 0) |-> g[T]]
    OBVIOUS
  <2> HIDE DEF g
  <2>4. Folds(g, 0)
    BY <2>2, <2>3
  <2> HIDE DEF Folds
  <2> QED
    BY <2>4
<1>4. ASSUME NEW m \in Nat, m \in folded PROVE m + 1 \in folded
  <2> HIDE DEF Folds
  <2> SUFFICES ASSUME m + 1 <= n PROVE \E g : Folds(g, m + 1)
    OBVIOUS
  <2>1. PICK g : Folds(g, m)
    BY <1>1, <1>4
  <2> DEFINE h == [T \in SUBSET (1 .. m + 1) |-> value(g, T)]
  <2>2. \A T \in SUBSET (1 .. m) : g[T] = value(g, T)
    <3> HIDE DEF value
    <3> QED
      BY <2>1 DEF Folds
  <2>3. /\ \A T \in SUBSET (1 .. m + 1) : h[T] = value(g, T)
        /\ h = [T \in SUBSET (1 .. m + 1) |-> h[T]]
    <3> HIDE DEF value
    <3> QED
      OBVIOUS
  <2> HIDE DEF h
  <2>4. \A T \in SUBSET (1 .. m) : T \in SUBSET (1 .. m + 1) /\ h[T] = g[T]
    <3>1. \A T \in SUBSET (1 .. m) : T \in SUBSET (1 .. m + 1)
      OBVIOUS
    <3> HIDE DEF value
    <3> QED
      BY <2>2, <2>3, <3>1
  <2>5. ASSUME NEW T \in SUBSET (1 .. m + 1) PROVE h[T] = value(h, T)
    <3>1. CASE T = {}
      BY <2>3, <3>1
    <3>2. CASE T # {}
      <4>1. h[T \ {Max(T)}] = g[T \ {Max(T)}]
        BY <1>2, <2>4, <3>2
      <4> QED
        BY <2>3, <3>2, <4>1
    <3> QED
      BY <3>1, <3>2
  <2>6. Folds(h, m + 1)
    <3> HIDE DEF value
    <3> QED
      BY <2>3, <2>5 DEF Folds
  <2> QED
    BY <2>6
<1> HIDE DEF Folds
<1>5. Folds(fold, n)
  <2>1. Nat \subseteq folded
    <3> HIDE DEF folded
    <3> QED
      BY <1>3, <1>4, Induction
  <2>2. \E g : Folds(g, n)
    BY <1>1, <2>1
  <2> QED
    BY <2>2, Zenon
<1>6. FoldLeft(AddTurn, start, rows) = fold[1 .. n]
  <2>1. FoldLeft(AddTurn, start, rows) = (CHOOSE g : g = [T \in SUBSET DOMAIN rows |-> value(g, T)])[DOMAIN rows]
    BY Zenon DEF FoldLeft, MapThenFoldSet
  <2> QED
    BY <1>1, <2>1, Zenon DEF Folds
<1> HIDE DEF fold
<1>7. \A T \in SUBSET (1 .. n) : fold[T] = value(fold, T)
  <2> HIDE DEF value
  <2> QED
    BY <1>5 DEF Folds
<1> DEFINE w == [i \in 0 .. n |-> fold[1 .. i]]
<1>8. w[0] = start
  <2>1. 1 .. 0 = {} /\ 1 .. 0 \in SUBSET (1 .. n) /\ 0 \in 0 .. n
    BY <1>1
  <2> QED
    BY <1>7, <2>1
<1>9. ASSUME NEW i \in 1 .. n PROVE w[i] = AddTurn(w[i - 1], rows[i])
  <2>1. Max(1 .. i) = i /\ (1 .. i) \ {Max(1 .. i)} = 1 .. (i - 1)
    BY MaxOfFirst
  <2>2. 1 .. i \in SUBSET (1 .. n) /\ 1 .. i # {}
    <3>1. i \in Nat /\ n \in Nat /\ 1 <= i /\ i <= n
      BY <1>1
    <3>2. 1 .. i \in SUBSET (1 .. n) /\ i \in 1 .. i
      BY <3>1
    <3> QED
      BY <3>2
  <2>3. fold[1 .. i] = AddTurn(fold[1 .. (i - 1)], rows[i])
    BY <1>7, <2>1, <2>2
  <2>4. i \in 0 .. n /\ i - 1 \in 0 .. n
    BY <1>1
  <2> QED
    BY <2>3, <2>4
<1>10. FoldLeft(AddTurn, start, rows) = w[n]
  BY <1>1, <1>6
<1> HIDE DEF w
<1> QED
  BY <1>8, <1>9, <1>10

\* The times that are worked up to an event: after a prompt and before the next
\* stop.
WorkedUpTo(at, prompts, stops, m) ==
  {t \in Nat : \E i \in prompts : \E k \in stops :
                 /\ i < k
                 /\ k <= m
                 /\ \A j \in stops : ~(i < j /\ j < k)
                 /\ at[i] <= t
                 /\ t < at[k]}

\* What is known of the turns after m events: the sum is the number of the
\* times that are worked, and the turn that is open, if one is, was opened by
\* the first prompt after the last stop.
TurnsAfter(at, prompts, stops, m, total, opened) ==
  /\ IsFiniteSet(WorkedUpTo(at, prompts, stops, m))
  /\ total = Cardinality(WorkedUpTo(at, prompts, stops, m))
  /\ opened = Closed => \A i \in prompts : i <= m => \E k \in stops : i < k /\ k <= m
  /\ opened # Closed => \E i \in prompts :
       /\ i <= m
       /\ opened = at[i]
       /\ \A k \in stops : k <= m => k < i
       /\ \A j \in prompts : j < i => \E k \in stops : j < k /\ k < i

\* An event that is no stop adds no time.
LEMMA NoTimeBefore ==
  ASSUME NEW n \in Nat, NEW at \in [1 .. n -> Nat],
         NEW prompts \in SUBSET (1 .. n), NEW stops \in SUBSET (1 .. n),
         NEW m \in Nat, m + 1 \notin stops
  PROVE  WorkedUpTo(at, prompts, stops, m + 1) = WorkedUpTo(at, prompts, stops, m)
<1>1. \A k \in stops : k <= m + 1 <=> k <= m
  OBVIOUS
<1> QED
  BY <1>1 DEF WorkedUpTo

\* A stop closes the turn that is open, or finds none.
LEMMA StopTaken ==
  ASSUME NEW n \in Nat, NEW at \in [1 .. n -> Nat],
         NEW prompts \in SUBSET (1 .. n), NEW stops \in SUBSET (1 .. n),
         \A i, k \in 1 .. n : i <= k => at[i] <= at[k],
         NEW m \in Nat, m + 1 \in stops, m + 1 \notin prompts,
         NEW total, NEW opened,
         TurnsAfter(at, prompts, stops, m, total, opened)
  PROVE  /\ opened = Closed =>
              TurnsAfter(at, prompts, stops, m + 1, total, Closed)
         /\ opened # Closed =>
              TurnsAfter(at, prompts, stops, m + 1, total + (at[m + 1] - opened), Closed)
<1> DEFINE before == WorkedUpTo(at, prompts, stops, m)
           after == WorkedUpTo(at, prompts, stops, m + 1)
<1>1. /\ m + 1 \in 1 .. n
      /\ \A k \in stops : k \in Nat /\ k \in 1 .. n /\ (k <= m + 1 <=> k <= m \/ k = m + 1)
      /\ \A i \in prompts : i \in Nat /\ i \in 1 .. n /\ (i <= m + 1 <=> i <= m)
      /\ \A i \in 1 .. n : at[i] \in Nat
  OBVIOUS
<1>2. \A i \in prompts : i <= m + 1 => \E k \in stops : i < k /\ k <= m + 1
  BY <1>1
<1>3. before \subseteq after
  BY <1>1 DEF WorkedUpTo
<1>4. ASSUME opened = Closed PROVE after = before
  <2>1. \A i \in prompts : i <= m => \E k \in stops : i < k /\ k <= m
    BY <1>4 DEF TurnsAfter
  <2>2. ASSUME NEW t \in after PROVE t \in before
    <3>1. PICK i \in prompts : \E k \in stops :
                /\ i < k
                /\ k <= m + 1
                /\ \A j \in stops : ~(i < j /\ j < k)
                /\ at[i] <= t
                /\ t < at[k]
      BY <2>2 DEF WorkedUpTo
    <3>2. PICK k \in stops :
                /\ i < k
                /\ k <= m + 1
                /\ \A j \in stops : ~(i < j /\ j < k)
                /\ at[i] <= t
                /\ t < at[k]
      BY <3>1
    <3>3. k # m + 1
      <4> SUFFICES ASSUME k = m + 1 PROVE FALSE
        OBVIOUS
      <4>1. i <= m
        BY <1>1, <3>2
      <4>2. PICK j \in stops : i < j /\ j <= m
        BY <2>1, <4>1
      <4> QED
        BY <1>1, <3>2, <4>2
    <3>4. k <= m
      BY <1>1, <3>2, <3>3
    <3> QED
      BY <2>2, <3>2, <3>4 DEF WorkedUpTo
  <2> QED
    BY <1>3, <2>2
<1>5. ASSUME opened # Closed
      PROVE  /\ IsFiniteSet(after)
             /\ Cardinality(after) = Cardinality(before) + (at[m + 1] - opened)
  <2>1. PICK i \in prompts :
          /\ i <= m
          /\ opened = at[i]
          /\ \A k \in stops : k <= m => k < i
          /\ \A j \in prompts : j < i => \E k \in stops : j < k /\ k < i
    BY <1>5 DEF TurnsAfter
  <2> DEFINE turn == at[i] .. (at[m + 1] - 1)
  <2>2. at[i] \in Nat /\ at[m + 1] \in Nat /\ at[i] <= at[m + 1]
    BY <1>1, <2>1
  <2>3. before \cap turn = {}
    <3> SUFFICES ASSUME NEW t \in before, t \in turn PROVE FALSE
      OBVIOUS
    <3>1. PICK k \in stops : k <= m /\ t < at[k]
      BY DEF WorkedUpTo
    <3>2. k <= i
      BY <1>1, <2>1, <3>1
    <3>3. at[k] <= at[i] /\ at[k] \in Nat
      BY <1>1, <3>2
    <3>4. t \in Nat
      BY DEF WorkedUpTo
    <3> QED
      BY <2>2, <3>1, <3>3, <3>4
  <2>4. turn \subseteq after
    <3>1. ASSUME NEW j \in stops, i < j, j < m + 1 PROVE FALSE
      BY <1>1, <2>1, <3>1
    <3>2. i < m + 1
      BY <1>1, <2>1
    <3>3. \A t \in turn : t \in Nat /\ at[i] <= t /\ t < at[m + 1]
      BY <2>2
    <3>4. m + 1 <= m + 1
      OBVIOUS
    <3> HIDE DEF turn
    <3> QED
      BY <3>1, <3>2, <3>3, <3>4 DEF WorkedUpTo
  <2>5. ASSUME NEW t \in after PROVE t \in before \cup turn
    <3>1. PICK p \in prompts : \E k \in stops :
                /\ p < k
                /\ k <= m + 1
                /\ \A j \in stops : ~(p < j /\ j < k)
                /\ at[p] <= t
                /\ t < at[k]
      BY <2>5 DEF WorkedUpTo
    <3>2. PICK k \in stops :
                /\ p < k
                /\ k <= m + 1
                /\ \A j \in stops : ~(p < j /\ j < k)
                /\ at[p] <= t
                /\ t < at[k]
      BY <3>1
    <3>3. t \in Nat
      BY <2>5 DEF WorkedUpTo
    <3>4. CASE k = m + 1
      <4>1. ~(p < i)
        <5> SUFFICES ASSUME p < i PROVE FALSE
          OBVIOUS
        <5>1. PICK j \in stops : p < j /\ j < i
          BY <2>1
        <5>2. j < k
          BY <1>1, <2>1, <3>4, <5>1
        <5> QED
          BY <3>2, <5>1, <5>2
      <4>2. at[i] <= at[p] /\ at[p] \in Nat
        BY <1>1, <4>1
      <4> QED
        BY <2>2, <3>2, <3>3, <3>4, <4>2
    <3>5. CASE k # m + 1
      <4>1. k <= m
        BY <1>1, <3>2, <3>5
      <4>2. t \in before
        BY <3>2, <3>3, <4>1 DEF WorkedUpTo
      <4> QED
        BY <4>2
    <3> QED
      BY <3>4, <3>5
  <2>6. after = before \cup turn
    BY <1>3, <2>4, <2>5
  <2>7. IsFiniteSet(turn) /\ Cardinality(turn) = at[m + 1] - at[i]
    <3> HIDE DEF before, after
    <3>1. PICK a, b \in Int : a = at[i] /\ b = at[m + 1] - 1
      BY <2>2
    <3>2. /\ IsFiniteSet(a .. b)
          /\ Cardinality(a .. b) = IF a > b THEN 0 ELSE b - a + 1
      BY FS_Interval
    <3> QED
      BY <2>2, <3>1, <3>2
  <2>8. IsFiniteSet(before)
    BY DEF TurnsAfter
  <2> HIDE DEF before, after, turn
  <2> QED
    BY <2>1, <2>3, <2>6, <2>7, <2>8, DisjointUnion
<1>6. ASSUME NEW sum, IsFiniteSet(after), sum = Cardinality(after)
      PROVE  TurnsAfter(at, prompts, stops, m + 1, sum, Closed)
  BY <1>2, <1>6 DEF TurnsAfter
<1>7. IsFiniteSet(before) /\ total = Cardinality(before)
  BY DEF TurnsAfter
<1> HIDE DEF before, after
<1> QED
  BY <1>4, <1>5, <1>6, <1>7

\* A prompt opens a turn, if none is open.
LEMMA PromptTaken ==
  ASSUME NEW n \in Nat, NEW at \in [1 .. n -> Nat],
         NEW prompts \in SUBSET (1 .. n), NEW stops \in SUBSET (1 .. n),
         NEW m \in Nat, m + 1 \notin stops, m + 1 \in prompts,
         NEW total, NEW opened,
         TurnsAfter(at, prompts, stops, m, total, opened)
  PROVE  TurnsAfter(at, prompts, stops, m + 1, total,
                    IF opened = Closed THEN at[m + 1] ELSE opened)
<1>1. /\ m + 1 \in 1 .. n
      /\ \A k \in stops : k \in Nat /\ (k <= m + 1 <=> k <= m)
      /\ \A i \in prompts : i \in Nat /\ (i <= m => i <= m + 1) /\ (i < m + 1 => i <= m)
  OBVIOUS
<1>2. at[m + 1] \in Nat /\ at[m + 1] # Closed
  BY <1>1 DEF Closed
<1>3. WorkedUpTo(at, prompts, stops, m + 1) = WorkedUpTo(at, prompts, stops, m)
  BY NoTimeBefore
<1>4. CASE opened = Closed
  <2>1. \A i \in prompts : i <= m => \E k \in stops : i < k /\ k <= m
    BY <1>4 DEF TurnsAfter
  <2>2. \A k \in stops : k <= m + 1 => k < m + 1
    BY <1>1
  <2>3. \A j \in prompts : j < m + 1 => \E k \in stops : j < k /\ k < m + 1
    BY <1>1, <2>1
  <2>4. m + 1 <= m + 1
    OBVIOUS
  <2> QED
    BY <1>2, <1>3, <1>4, <2>2, <2>3, <2>4 DEF TurnsAfter
<1>5. CASE opened # Closed
  <2>1. PICK i \in prompts :
          /\ i <= m
          /\ opened = at[i]
          /\ \A k \in stops : k <= m => k < i
          /\ \A j \in prompts : j < i => \E k \in stops : j < k /\ k < i
    BY <1>5 DEF TurnsAfter
  <2>2. i <= m + 1 /\ \A k \in stops : k <= m + 1 => k < i
    BY <1>1, <2>1
  <2> QED
    BY <1>3, <1>5, <2>1, <2>2 DEF TurnsAfter
<1> QED
  BY <1>4, <1>5

\* Another event changes nothing.
LEMMA OtherTaken ==
  ASSUME NEW n \in Nat, NEW at \in [1 .. n -> Nat],
         NEW prompts \in SUBSET (1 .. n), NEW stops \in SUBSET (1 .. n),
         NEW m \in Nat, m + 1 \notin stops, m + 1 \notin prompts,
         NEW total, NEW opened,
         TurnsAfter(at, prompts, stops, m, total, opened)
  PROVE  TurnsAfter(at, prompts, stops, m + 1, total, opened)
<1>1. /\ \A k \in stops : k <= m + 1 <=> k <= m
      /\ \A i \in prompts : i <= m + 1 <=> i <= m
  OBVIOUS
<1>2. WorkedUpTo(at, prompts, stops, m + 1) = WorkedUpTo(at, prompts, stops, m)
  BY NoTimeBefore
<1>3. CASE opened = Closed
  BY <1>1, <1>2, <1>3 DEF TurnsAfter
<1>4. CASE opened # Closed
  <2>1. PICK i \in prompts :
          /\ i <= m
          /\ opened = at[i]
          /\ \A k \in stops : k <= m => k < i
          /\ \A j \in prompts : j < i => \E k \in stops : j < k /\ k < i
    BY <1>4 DEF TurnsAfter
  <2>2. i <= m + 1 /\ \A k \in stops : k <= m + 1 => k < i
    BY <1>1, <2>1
  <2> QED
    BY <1>2, <1>4, <2>1, <2>2 DEF TurnsAfter
<1> QED
  BY <1>3, <1>4

\* Before the first event nothing is worked and nothing is open.
LEMMA NothingTaken ==
  ASSUME NEW n \in Nat, NEW at \in [1 .. n -> Nat],
         NEW prompts \in SUBSET (1 .. n), NEW stops \in SUBSET (1 .. n)
  PROVE  TurnsAfter(at, prompts, stops, 0, 0, Closed)
<1>1. \A i \in prompts : ~(i <= 0)
  OBVIOUS
<1>2. \A k \in stops : ~(k <= 0)
  OBVIOUS
<1>3. WorkedUpTo(at, prompts, stops, 0) = {}
  BY <1>2 DEF WorkedUpTo
<1> QED
  BY <1>1, <1>3, FS_EmptySet DEF TurnsAfter

\* A turn that is open was opened at the time of an event before.
LEMMA OpenedBefore ==
  ASSUME NEW n \in Nat, NEW at \in [1 .. n -> Nat],
         NEW prompts \in SUBSET (1 .. n), NEW stops \in SUBSET (1 .. n),
         \A i, k \in 1 .. n : i <= k => at[i] <= at[k],
         NEW m \in Nat, m + 1 \in 1 .. n,
         NEW total, NEW opened,
         TurnsAfter(at, prompts, stops, m, total, opened), opened # Closed
  PROVE  opened \in Nat /\ opened <= at[m + 1]
<1>1. PICK i \in prompts : i <= m /\ opened = at[i]
  BY DEF TurnsAfter
<1>2. i \in 1 .. n /\ i <= m + 1
  BY <1>1
<1> QED
  BY <1>1, <1>2

\* The times, the prompts and the stops of rows.
TimesOf(rows)   == [i \in 1 .. Len(rows) |-> rows[i].at]
PromptsOf(rows) == {i \in 1 .. Len(rows) : rows[i].kind = "user_prompt"}
StopsOf(rows)   == {i \in 1 .. Len(rows) : rows[i].kind = "stop"}

\* What of rows and their turns the lemmas on turns ask for.
LEMMA RowsAreTimed ==
  ASSUME NEW rows \in Seq(EventRow)
  PROVE  /\ Len(rows) \in Nat
         /\ DOMAIN rows = 1 .. Len(rows)
         /\ \A i \in 1 .. Len(rows) : rows[i] \in EventRow
         /\ TimesOf(rows) \in [1 .. Len(rows) -> Nat]
         /\ \A i \in 1 .. Len(rows) : TimesOf(rows)[i] = rows[i].at
         /\ PromptsOf(rows) \in SUBSET (1 .. Len(rows))
         /\ StopsOf(rows) \in SUBSET (1 .. Len(rows))
         /\ \A i \in PromptsOf(rows) : i \notin StopsOf(rows)
         /\ InTimeOrder(rows) => \A i, k \in 1 .. Len(rows) :
              i <= k => TimesOf(rows)[i] <= TimesOf(rows)[k]
<1>1. /\ Len(rows) \in Nat
      /\ DOMAIN rows = 1 .. Len(rows)
      /\ \A i \in 1 .. Len(rows) : rows[i] \in EventRow
  OBVIOUS
<1>2. \A i \in 1 .. Len(rows) : rows[i].at \in Nat
  BY <1>1 DEF EventRow
<1>3. TimesOf(rows) \in [1 .. Len(rows) -> Nat]
  BY <1>2 DEF TimesOf
<1>4. \A i \in 1 .. Len(rows) : TimesOf(rows)[i] = rows[i].at
  BY DEF TimesOf
<1>5. PromptsOf(rows) \in SUBSET (1 .. Len(rows)) /\ StopsOf(rows) \in SUBSET (1 .. Len(rows))
  BY DEF PromptsOf, StopsOf
<1>6. \A i \in PromptsOf(rows) : i \notin StopsOf(rows)
  BY DEF PromptsOf, StopsOf
<1>7. ASSUME InTimeOrder(rows), NEW i \in 1 .. Len(rows), NEW k \in 1 .. Len(rows), i <= k
      PROVE  TimesOf(rows)[i] <= TimesOf(rows)[k]
  <2>1. CASE i = k
    BY <1>2, <1>4, <2>1
  <2>2. CASE i < k
    BY <1>1, <1>4, <1>7, <2>2 DEF InTimeOrder
  <2> QED
    BY <1>7, <2>1, <2>2
<1> QED
  BY <1>1, <1>3, <1>4, <1>5, <1>6, <1>7

\* The working time of rows in order is that of all their turns, and is within
\* the session.
LEMMA WorkingIsWorked ==
  ASSUME NEW rows \in Seq(EventRow), rows # <<>>, InTimeOrder(rows)
  PROVE  /\ Working(rows) = WorkedUpTo(TimesOf(rows), PromptsOf(rows), StopsOf(rows), Len(rows))
         /\ Head(rows).at \in Nat
         /\ Last(rows).at \in Nat
         /\ Head(rows).at <= Last(rows).at
         /\ Cardinality(Working(rows)) \in Nat
         /\ Cardinality(Working(rows)) <= Last(rows).at - Head(rows).at
<1> DEFINE n == Len(rows)
           at == TimesOf(rows)
           prompts == PromptsOf(rows)
           stops == StopsOf(rows)
<1>1. /\ n \in Nat
      /\ DOMAIN rows = 1 .. n
      /\ at \in [1 .. n -> Nat]
      /\ \A i \in 1 .. n : at[i] = rows[i].at
      /\ prompts \in SUBSET (1 .. n) /\ stops \in SUBSET (1 .. n)
      /\ \A i, k \in 1 .. n : i <= k => at[i] <= at[k]
  BY RowsAreTimed
<1>2. n \in 1 .. n /\ 1 \in 1 .. n /\ Head(rows) = rows[1] /\ Last(rows) = rows[n]
  BY DEF Last
<1>3. /\ Head(rows).at = at[1] /\ Last(rows).at = at[n]
      /\ at[1] \in Nat /\ at[n] \in Nat /\ at[1] <= at[n]
  BY <1>1, <1>2
<1>4. \A i \in 1 .. n : at[1] <= at[i] /\ at[i] <= at[n] /\ at[i] \in Nat
  BY <1>1, <1>2
<1>5. ASSUME NEW t \in Working(rows)
      PROVE  t \in WorkedUpTo(at, prompts, stops, n)
  <2>1. t \in at[1] .. (at[n] - 1)
    BY <1>3 DEF Working
  <2>2. PICK i, k \in DOMAIN rows :
          /\ i < k
          /\ rows[i].kind = "user_prompt"
          /\ rows[k].kind = "stop"
          /\ \A j \in (i + 1) .. (k - 1) : rows[j].kind # "stop"
          /\ rows[i].at <= t
          /\ t < rows[k].at
    BY DEF Working
  <2>3. t \in Nat /\ i \in prompts /\ k \in stops /\ k <= n /\ at[i] <= t /\ t < at[k]
    BY <1>1, <1>3, <2>1, <2>2 DEF PromptsOf, StopsOf
  <2>4. ASSUME NEW j \in stops, i < j, j < k PROVE FALSE
    <3>1. j \in (i + 1) .. (k - 1)
      BY <1>1, <2>2, <2>4
    <3>2. rows[j].kind = "stop"
      BY DEF StopsOf
    <3> QED
      BY <2>2, <3>1, <3>2
  <2> QED
    BY <2>2, <2>3, <2>4 DEF WorkedUpTo
<1>6. ASSUME NEW t \in WorkedUpTo(at, prompts, stops, n)
      PROVE  t \in Working(rows)
  <2>1. PICK i \in prompts : \E k \in stops :
              /\ i < k
              /\ k <= n
              /\ \A j \in stops : ~(i < j /\ j < k)
              /\ at[i] <= t
              /\ t < at[k]
    BY DEF WorkedUpTo
  <2>2. PICK k \in stops :
              /\ i < k
              /\ k <= n
              /\ \A j \in stops : ~(i < j /\ j < k)
              /\ at[i] <= t
              /\ t < at[k]
    BY <2>1
  <2>3. t \in Nat
    BY DEF WorkedUpTo
  <2>4. i \in 1 .. n /\ k \in 1 .. n
    BY <1>1
  <2>5. rows[i].kind = "user_prompt" /\ rows[k].kind = "stop"
    BY DEF PromptsOf, StopsOf
  <2>6. rows[i].at <= t /\ t < rows[k].at
    BY <1>1, <2>2, <2>4
  <2>7. ASSUME NEW j \in (i + 1) .. (k - 1) PROVE rows[j].kind # "stop"
    <3>1. j \in 1 .. n /\ i < j /\ j < k
      BY <1>1, <2>4
    <3>2. j \notin stops
      BY <2>2, <3>1
    <3> QED
      BY <3>1, <3>2 DEF StopsOf
  <2>8. t \in Head(rows).at .. (Last(rows).at - 1)
    <3>1. at[1] <= at[i] /\ at[i] \in Nat /\ at[k] <= at[n] /\ at[k] \in Nat
      BY <1>4, <2>4
    <3> QED
      BY <1>3, <2>2, <2>3, <3>1
  <2> QED
    BY <1>1, <2>2, <2>4, <2>5, <2>6, <2>7, <2>8 DEF Working
<1>7. /\ Working(rows) \subseteq at[1] .. (at[n] - 1)
  BY <1>3 DEF Working
<1>8. PICK a, b \in Int : a = at[1] /\ b = at[n] - 1
  BY <1>3
<1>9. /\ IsFiniteSet(a .. b)
      /\ Cardinality(a .. b) = IF a > b THEN 0 ELSE b - a + 1
  BY FS_Interval
<1>10. Working(rows) \in SUBSET (a .. b)
  BY <1>7, <1>8
<1>11. IsFiniteSet(Working(rows)) /\ Cardinality(Working(rows)) <= Cardinality(a .. b)
  BY <1>9, <1>10, FS_Subset
<1>12. Cardinality(a .. b) = at[n] - at[1]
  BY <1>3, <1>8, <1>9
<1>13. Cardinality(Working(rows)) \in Nat
  BY <1>11, FS_CardinalityType
<1>14. Cardinality(Working(rows)) <= Last(rows).at - Head(rows).at
  BY <1>3, <1>11, <1>12
<1> HIDE DEF at, prompts, stops
<1>15. Working(rows) = WorkedUpTo(at, prompts, stops, n)
  BY <1>5, <1>6
<1> QED
  BY <1>3, <1>13, <1>14, <1>15 DEF at, prompts, stops

\* The states of the two walks, of which none has met a turn that ends before
\* it began.
Counting == [total : Nat, opened : Int, stopped : BOOLEAN, backwards : {FALSE}]
Adding   == [total : Nat, opened : Int]

\* What an event does to the turns that compute_trace_metrics counts.
LEMMA CountTaken ==
  ASSUME NEW turns \in Counting, NEW e \in EventRow,
         turns.opened # Closed => turns.opened \in Nat /\ turns.opened <= e.at
  PROVE  /\ CountTurn(turns, e) \in Counting
         /\ e.kind = "user_prompt" =>
              /\ CountTurn(turns, e).total = turns.total
              /\ CountTurn(turns, e).opened
                   = IF turns.opened = Closed THEN e.at ELSE turns.opened
         /\ e.kind = "stop" /\ turns.opened = Closed =>
              /\ CountTurn(turns, e).total = turns.total
              /\ CountTurn(turns, e).opened = Closed
         /\ e.kind = "stop" /\ turns.opened # Closed =>
              /\ CountTurn(turns, e).total = turns.total + (e.at - turns.opened)
              /\ CountTurn(turns, e).opened = Closed
         /\ e.kind \notin {"user_prompt", "stop"} =>
              /\ CountTurn(turns, e).total = turns.total
              /\ CountTurn(turns, e).opened = turns.opened
<1>1. turns.total \in Nat /\ turns.opened \in Int
  BY DEF Counting
<1>2. turns.backwards = FALSE
  BY DEF Counting
<1>3. e.at \in Nat
  BY DEF EventRow
<1>4. Closed \in Int
  BY DEF Closed
<1>5. CASE e.kind = "user_prompt"
  <2>1. CountTurn(turns, e)
          = [turns EXCEPT !.opened = IF turns.opened = Closed THEN e.at ELSE turns.opened]
    BY <1>2, <1>5 DEF CountTurn
  <2> DEFINE opened == IF turns.opened = Closed THEN e.at ELSE turns.opened
  <2>2. opened \in Int
    BY <1>1, <1>3
  <2>3. CountTurn(turns, e) = [turns EXCEPT !.opened = opened]
    BY <2>1
  <2> HIDE DEF opened
  <2>4. /\ CountTurn(turns, e) \in Counting
        /\ CountTurn(turns, e).total = turns.total
        /\ CountTurn(turns, e).opened = opened
    BY <2>2, <2>3 DEF Counting
  <2> QED
    BY <1>5, <2>4 DEF opened
<1>6. CASE e.kind = "stop" /\ turns.opened # Closed
  <2>1. ~(e.at < turns.opened)
    BY <1>3, <1>6
  <2>2. CountTurn(turns, e)
          = [turns EXCEPT !.total = turns.total + (e.at - turns.opened),
                          !.opened = Closed, !.stopped = TRUE]
    <3>1. e.kind # "user_prompt"
      BY <1>6
    <3>2. CountTurn(turns, e)
            = [turns EXCEPT !.total = @ + (e.at - turns.opened),
                            !.opened = Closed, !.stopped = TRUE]
      BY <1>2, <1>6, <2>1, <3>1, Zenon DEF CountTurn
    <3> QED
      BY <3>2, Zenon
  <2>3. turns.total + (e.at - turns.opened) \in Nat
    BY <1>1, <1>3, <1>6
  <2>4. CountTurn(turns, e) \in Counting
    BY <1>4, <2>2, <2>3 DEF Counting
  <2>5. /\ CountTurn(turns, e).total = turns.total + (e.at - turns.opened)
        /\ CountTurn(turns, e).opened = Closed
    BY <2>2 DEF Counting
  <2> QED
    BY <1>6, <2>4, <2>5
<1>7. CASE e.kind # "user_prompt" /\ ~(e.kind = "stop" /\ turns.opened # Closed)
  <2>1. CountTurn(turns, e) = turns
    BY <1>2, <1>7 DEF CountTurn
  <2> QED
    BY <1>7, <2>1
<1> QED
  BY <1>5, <1>6, <1>7

\* What an event does to the turns that aggregate_segments adds up.
LEMMA AddTaken ==
  ASSUME NEW turns \in Adding, NEW e, e.at \in Nat,
         turns.opened # Closed => turns.opened \in Nat /\ turns.opened <= e.at
  PROVE  /\ AddTurn(turns, e) \in Adding
         /\ e.kind = "user-prompt-submit" =>
              /\ AddTurn(turns, e).total = turns.total
              /\ AddTurn(turns, e).opened
                   = IF turns.opened = Closed THEN e.at ELSE turns.opened
         /\ e.kind = "stop" /\ turns.opened = Closed =>
              /\ AddTurn(turns, e).total = turns.total
              /\ AddTurn(turns, e).opened = Closed
         /\ e.kind = "stop" /\ turns.opened # Closed =>
              /\ AddTurn(turns, e).total = turns.total + (e.at - turns.opened)
              /\ AddTurn(turns, e).opened = Closed
         /\ e.kind \notin {"user-prompt-submit", "stop"} =>
              /\ AddTurn(turns, e).total = turns.total
              /\ AddTurn(turns, e).opened = turns.opened
<1>1. turns.total \in Nat /\ turns.opened \in Int
  BY DEF Adding
<1>2. Closed \in Int
  BY DEF Closed
<1>3. CASE e.kind = "user-prompt-submit"
  <2>1. AddTurn(turns, e)
          = [turns EXCEPT !.opened = IF turns.opened = Closed THEN e.at ELSE turns.opened]
    BY <1>3 DEF AddTurn
  <2>2. AddTurn(turns, e) \in Adding
    BY <1>1, <2>1 DEF Adding
  <2> QED
    BY <1>3, <2>1, <2>2 DEF Adding
<1>4. CASE e.kind = "stop" /\ turns.opened # Closed
  <2>1. AddTurn(turns, e)
          = [total |-> turns.total + (e.at - turns.opened), opened |-> Closed]
    BY <1>4 DEF AddTurn
  <2>2. turns.total + (e.at - turns.opened) \in Nat
    BY <1>1, <1>4
  <2>3. AddTurn(turns, e) \in Adding
    BY <1>2, <2>1, <2>2 DEF Adding
  <2> QED
    BY <1>4, <2>1, <2>3
<1>5. CASE e.kind # "user-prompt-submit" /\ ~(e.kind = "stop" /\ turns.opened # Closed)
  <2>1. AddTurn(turns, e) = turns
    BY <1>5 DEF AddTurn
  <2> QED
    BY <1>5, <2>1
<1> QED
  BY <1>3, <1>4, <1>5

\* The metrics of rows in the order of their times: an active duration, if
\* there is one, is the number of the milliseconds of work.
LEMMA MeasuredActive ==
  ASSUME NEW rows \in Seq(EventRow), rows # <<>>, InTimeOrder(rows),
         HasValue(ActiveDuration(rows))
  PROVE  ActiveDuration(rows).value = Cardinality(Working(rows))
<1> DEFINE n == Len(rows)
           at == TimesOf(rows)
           prompts == PromptsOf(rows)
           stops == StopsOf(rows)
           none == [total |-> 0, opened |-> Closed, stopped |-> FALSE, backwards |-> FALSE]
<1>1. /\ n \in Nat
      /\ \A i \in 1 .. n : rows[i] \in EventRow
      /\ at \in [1 .. n -> Nat]
      /\ \A i \in 1 .. n : at[i] = rows[i].at
      /\ prompts \in SUBSET (1 .. n)
      /\ stops \in SUBSET (1 .. n)
      /\ \A i \in prompts : i \notin stops
      /\ \A i, k \in 1 .. n : i <= k => at[i] <= at[k]
  BY RowsAreTimed
<1>2. PICK w : /\ w[0] = none
               /\ \A i \in 1 .. n : w[i] = CountTurn(w[i - 1], rows[i])
               /\ FoldLeft(CountTurn, none, rows) = w[n]
  <2> HIDE DEF none
  <2> QED
    BY CountWalk
<1> DEFINE walked == {m \in Nat : m <= n =>
                        /\ w[m] \in Counting
                        /\ TurnsAfter(at, prompts, stops, m, w[m].total, w[m].opened)}
<1>3. 0 \in walked
  <2>1. none \in Counting
    BY DEF Counting, Closed
  <2>2. none.total = 0 /\ none.opened = Closed
    OBVIOUS
  <2> HIDE DEF none, at, prompts, stops
  <2>3. TurnsAfter(at, prompts, stops, 0, 0, Closed)
    BY <1>1, NothingTaken
  <2> QED
    BY <1>2, <2>1, <2>2, <2>3
<1>4. ASSUME NEW m \in Nat, m \in walked PROVE m + 1 \in walked
  <2> SUFFICES ASSUME m + 1 <= n
               PROVE  /\ w[m + 1] \in Counting
                      /\ TurnsAfter(at, prompts, stops, m + 1, w[m + 1].total,
                                    w[m + 1].opened)
    OBVIOUS
  <2> DEFINE turns == w[m]
             e == rows[m + 1]
             next == CountTurn(turns, e)
  <2>1. m <= n /\ m + 1 \in 1 .. n /\ (m + 1) - 1 = m /\ m + 1 \in Nat
    BY <1>1
  <2>2. /\ turns \in Counting
        /\ TurnsAfter(at, prompts, stops, m, turns.total, turns.opened)
    BY <1>4, <2>1
  <2>3. w[m + 1] = next
    BY <1>2, <2>1
  <2>4. e \in EventRow /\ e.at = at[m + 1]
    BY <1>1, <2>1
  <2>5. /\ m + 1 \in prompts <=> e.kind = "user_prompt"
        /\ m + 1 \in stops <=> e.kind = "stop"
    BY <2>1 DEF PromptsOf, StopsOf
  <2> HIDE DEF none, at, prompts, stops, turns, e, walked, next
  <2>6. turns.opened # Closed => turns.opened \in Nat /\ turns.opened <= e.at
    BY <1>1, <2>1, <2>2, <2>4, OpenedBefore
  <2>7. /\ next \in Counting
        /\ e.kind = "user_prompt" =>
             /\ next.total = turns.total
             /\ next.opened = IF turns.opened = Closed THEN e.at ELSE turns.opened
        /\ e.kind = "stop" /\ turns.opened = Closed =>
             /\ next.total = turns.total
             /\ next.opened = Closed
        /\ e.kind = "stop" /\ turns.opened # Closed =>
             /\ next.total = turns.total + (e.at - turns.opened)
             /\ next.opened = Closed
        /\ e.kind \notin {"user_prompt", "stop"} =>
             /\ next.total = turns.total
             /\ next.opened = turns.opened
    BY <2>2, <2>4, <2>6, CountTaken DEF next
  <2>8. CASE e.kind = "user_prompt"
    <3>1. m + 1 \in prompts /\ m + 1 \notin stops
      BY <1>1, <2>5, <2>8
    <3>2. TurnsAfter(at, prompts, stops, m + 1, turns.total,
                     IF turns.opened = Closed THEN at[m + 1] ELSE turns.opened)
      BY <1>1, <2>2, <3>1, PromptTaken
    <3> QED
      BY <2>3, <2>4, <2>7, <2>8, <3>2
  <2>9. CASE e.kind = "stop"
    <3>1. m + 1 \in stops /\ m + 1 \notin prompts
      BY <1>1, <2>5, <2>9
    <3>2. /\ turns.opened = Closed =>
               TurnsAfter(at, prompts, stops, m + 1, turns.total, Closed)
          /\ turns.opened # Closed =>
               TurnsAfter(at, prompts, stops, m + 1,
                          turns.total + (at[m + 1] - turns.opened), Closed)
      BY <1>1, <2>2, <3>1, StopTaken
    <3> QED
      BY <2>3, <2>4, <2>7, <2>9, <3>2
  <2>10. CASE e.kind \notin {"user_prompt", "stop"}
    <3>1. m + 1 \notin stops /\ m + 1 \notin prompts
      BY <2>5, <2>10
    <3>2. TurnsAfter(at, prompts, stops, m + 1, turns.total, turns.opened)
      BY <1>1, <2>2, <3>1, OtherTaken
    <3> QED
      BY <2>3, <2>7, <2>10, <3>2
  <2> QED
    BY <2>8, <2>9, <2>10
<1>5. w[n] \in Counting /\ TurnsAfter(at, prompts, stops, n, w[n].total, w[n].opened)
  <2>1. Nat \subseteq walked
    <3> HIDE DEF walked
    <3> QED
      BY <1>3, <1>4, Induction
  <2>2. n \in walked
    BY <1>1, <2>1
  <2> QED
    BY <1>1, <2>2
<1>6. w[n].total = Cardinality(WorkedUpTo(at, prompts, stops, n))
  BY <1>5 DEF TurnsAfter
<1>7. WorkedUpTo(at, prompts, stops, n) = Working(rows)
  BY WorkingIsWorked
<1>8. w[n].backwards = FALSE
  BY <1>5 DEF Counting
<1>9. ActiveDuration(rows) = IF ~w[n].stopped THEN Unknown("no_stop_observed")
                             ELSE Exact(w[n].total, "stored_events")
  BY <1>2, <1>8 DEF ActiveDuration
<1>10. w[n].stopped \in BOOLEAN
  BY <1>5 DEF Counting
<1>11. CASE w[n].stopped = TRUE
  <2>1. ActiveDuration(rows) = Exact(w[n].total, "stored_events")
    BY <1>9, <1>11
  <2>2. ActiveDuration(rows).value = w[n].total
    BY <2>1 DEF Exact
  <2> QED
    BY <1>6, <1>7, <2>2
<1>12. CASE w[n].stopped = FALSE
  <2>1. ActiveDuration(rows) = Unknown("no_stop_observed")
    BY <1>9, <1>12
  <2> QED
    BY <2>1 DEF Unknown, HasValue
<1> QED
  BY <1>10, <1>11, <1>12

-----------------------------------------------------------------------------
\* The prompts that no stop follows, and the time since the first of them.
OpenPrompts(rows) ==
  {i \in DOMAIN rows :
     /\ rows[i].kind = "user_prompt"
     /\ \A j \in DOMAIN rows : j > i => rows[j].kind # "stop"}

OpenTime(rows) ==
  IF OpenPrompts(rows) = {} THEN 0 ELSE Last(rows).at - rows[Min(OpenPrompts(rows))].at

\* The least number of a set is the one below which there is none.
LEMMA MinIs ==
  ASSUME NEW T \in SUBSET Nat, NEW i \in T, \A y \in T : i <= y
  PROVE  Min(T) = i
<1> DEFINE Smallest(g) == g \in T /\ \A y \in T : g =< y
<1>1. Min(T) = CHOOSE g : Smallest(g)
  BY Zenon DEF Min
<1>2. Smallest(i)
  OBVIOUS
<1>3. Smallest(Min(T))
  <2> HIDE DEF Smallest
  <2> QED
    BY <1>1, <1>2, Zenon
<1>4. Min(T) \in Nat /\ i \in Nat /\ Min(T) <= i /\ i <= Min(T)
  BY <1>3
<1> QED
  BY <1>4

\* The turns that are open after the last event are those of the open prompts.
LEMMA OpenAtTheEnd ==
  ASSUME NEW rows \in Seq(EventRow), rows # <<>>, InTimeOrder(rows), NEW total, NEW opened,
         TurnsAfter(TimesOf(rows), PromptsOf(rows), StopsOf(rows), Len(rows), total, opened)
  PROVE  /\ opened = Closed => OpenTime(rows) = 0
         /\ opened # Closed => /\ opened \in Nat
                               /\ opened <= Last(rows).at
                               /\ OpenTime(rows) = Last(rows).at - opened
<1> DEFINE n == Len(rows)
           at == TimesOf(rows)
           prompts == PromptsOf(rows)
           stops == StopsOf(rows)
           open == OpenPrompts(rows)
<1>1. /\ n \in Nat
      /\ DOMAIN rows = 1 .. n
      /\ at \in [1 .. n -> Nat]
      /\ \A i \in 1 .. n : at[i] = rows[i].at
      /\ prompts \in SUBSET (1 .. n)
      /\ stops \in SUBSET (1 .. n)
      /\ \A i, k \in 1 .. n : i <= k => at[i] <= at[k]
  BY RowsAreTimed
<1>2. n \in 1 .. n /\ Last(rows) = rows[n]
  BY <1>1 DEF Last
<1>3. \A i \in 1 .. n : /\ i \in prompts <=> rows[i].kind = "user_prompt"
                        /\ i \in stops <=> rows[i].kind = "stop"
  BY DEF PromptsOf, StopsOf
<1>4. open = {i \in prompts : \A j \in stops : ~(j > i)}
  <2>1. ASSUME NEW i \in open PROVE i \in prompts /\ \A j \in stops : ~(j > i)
    BY <1>1, <1>3 DEF OpenPrompts
  <2>2. ASSUME NEW i \in prompts, \A j \in stops : ~(j > i) PROVE i \in open
    BY <1>1, <1>3, <2>2 DEF OpenPrompts
  <2> HIDE DEF open, prompts, stops
  <2> QED
    BY <2>1, <2>2
<1>5. ASSUME opened = Closed PROVE open = {}
  <2>1. \A i \in prompts : i <= n => \E k \in stops : i < k /\ k <= n
    BY <1>5 DEF TurnsAfter
  <2> SUFFICES ASSUME NEW i \in open PROVE FALSE
    OBVIOUS
  <2>2. i \in prompts /\ i \in 1 .. n /\ \A j \in stops : ~(j > i)
    BY <1>1, <1>4
  <2>3. PICK k \in stops : i < k
    BY <1>1, <2>1, <2>2
  <2>4. k \in 1 .. n
    BY <1>1
  <2> QED
    BY <2>2, <2>3, <2>4
<1>6. ASSUME opened # Closed
      PROVE  \E i \in open : opened = at[i] /\ \A y \in open : i <= y
  <2>1. PICK i \in prompts :
          /\ i <= n
          /\ opened = at[i]
          /\ \A k \in stops : k <= n => k < i
          /\ \A j \in prompts : j < i => \E k \in stops : j < k /\ k < i
    BY <1>6 DEF TurnsAfter
  <2>2. i \in 1 .. n
    BY <1>1
  <2>3. \A j \in stops : j \in 1 .. n /\ ~(j > i)
    BY <1>1, <2>1, <2>2
  <2>4. i \in open
    BY <1>4, <2>3
  <2>5. ASSUME NEW y \in open PROVE i <= y
    <3>1. y \in prompts /\ y \in 1 .. n /\ \A j \in stops : ~(j > y)
      BY <1>1, <1>4
    <3>2. ASSUME y < i PROVE FALSE
      <4>1. PICK k \in stops : y < k
        BY <2>1, <3>1, <3>2
      <4>2. k \in 1 .. n
        BY <1>1
      <4> QED
        BY <3>1, <4>1, <4>2
    <3> QED
      BY <2>2, <3>1, <3>2
  <2> HIDE DEF open, prompts, stops, at
  <2> QED
    BY <2>1, <2>4, <2>5
<1>7. ASSUME opened # Closed
      PROVE  /\ opened \in Nat
             /\ opened <= Last(rows).at
             /\ OpenTime(rows) = Last(rows).at - opened
  <2>1. PICK i \in open : opened = at[i] /\ \A y \in open : i <= y
    <3> HIDE DEF open, at
    <3> QED
      BY <1>6, <1>7
  <2>2. open \in SUBSET Nat /\ i \in 1 .. n
    BY <1>1, <1>4
  <2>3. Min(open) = i
    <3> HIDE DEF open
    <3> QED
      BY <2>1, <2>2, MinIs
  <2>4. opened = rows[i].at /\ opened \in Nat /\ opened <= Last(rows).at
    BY <1>1, <1>2, <2>1, <2>2
  <2>5. OpenTime(rows) = Last(rows).at - rows[i].at
    BY <2>3 DEF OpenTime
  <2> QED
    BY <2>4, <2>5
<1> QED
  BY <1>5, <1>7 DEF OpenTime

\* Segments and the rows that are written of them.
SameTurns(segments, rows) ==
  /\ Len(segments) = Len(rows)
  /\ \A i \in 1 .. Len(rows) :
       /\ segments[i].at = rows[i].at
       /\ (segments[i].kind = "user-prompt-submit") = (rows[i].kind = "user_prompt")
       /\ (segments[i].kind = "stop") = (rows[i].kind = "stop")

\* What the recorder adds up for segments in the order of their times is the
\* time of work of their rows, and that of a turn that was still open.
LEMMA AggregateMeasured ==
  ASSUME NEW rows \in Seq(EventRow), rows # <<>>, InTimeOrder(rows),
         NEW X, NEW segments \in Seq(X), SameTurns(segments, rows)
  PROVE  /\ AggregateActive(segments) = Cardinality(Working(rows)) + OpenTime(rows)
         /\ AggregateActive(segments) \in Nat
<1> DEFINE n == Len(rows)
           at == TimesOf(rows)
           prompts == PromptsOf(rows)
           stops == StopsOf(rows)
           none == [total |-> 0, opened |-> Closed]
<1>1. /\ n \in Nat
      /\ \A i \in 1 .. n : rows[i] \in EventRow
      /\ at \in [1 .. n -> Nat]
      /\ \A i \in 1 .. n : at[i] = rows[i].at
      /\ prompts \in SUBSET (1 .. n)
      /\ stops \in SUBSET (1 .. n)
      /\ \A i \in prompts : i \notin stops
      /\ \A i, k \in 1 .. n : i <= k => at[i] <= at[k]
  BY RowsAreTimed
<1>2. PICK w : /\ w[0] = none
               /\ \A i \in 1 .. n : w[i] = AddTurn(w[i - 1], segments[i])
               /\ FoldLeft(AddTurn, none, segments) = w[n]
  <2>1. ASSUME NEW start
        PROVE  \E w : /\ w[0] = start
                      /\ \A i \in 1 .. Len(segments) : w[i] = AddTurn(w[i - 1], segments[i])
                      /\ FoldLeft(AddTurn, start, segments) = w[Len(segments)]
    BY AddWalk
  <2> HIDE DEF none, n
  <2>2. n = Len(segments)
    BY DEF n, SameTurns
  <2> QED
    BY <2>1, <2>2
<1> DEFINE walked == {m \in Nat : m <= n =>
                        /\ w[m] \in Adding
                        /\ TurnsAfter(at, prompts, stops, m, w[m].total, w[m].opened)}
<1>3. 0 \in walked
  <2>1. none \in Adding
    BY DEF Adding, Closed
  <2>2. none.total = 0 /\ none.opened = Closed
    OBVIOUS
  <2> HIDE DEF none, at, prompts, stops
  <2>3. TurnsAfter(at, prompts, stops, 0, 0, Closed)
    BY <1>1, NothingTaken
  <2> QED
    BY <1>2, <2>1, <2>2, <2>3
<1>4. ASSUME NEW m \in Nat, m \in walked PROVE m + 1 \in walked
  <2> SUFFICES ASSUME m + 1 <= n
               PROVE  /\ w[m + 1] \in Adding
                      /\ TurnsAfter(at, prompts, stops, m + 1, w[m + 1].total,
                                    w[m + 1].opened)
    OBVIOUS
  <2> DEFINE turns == w[m]
             e == segments[m + 1]
             next == AddTurn(turns, e)
  <2>1. m <= n /\ m + 1 \in 1 .. n /\ (m + 1) - 1 = m /\ m + 1 \in Nat
    BY <1>1
  <2>2. /\ turns \in Adding
        /\ TurnsAfter(at, prompts, stops, m, turns.total, turns.opened)
    BY <1>4, <2>1
  <2>3. w[m + 1] = next
    BY <1>2, <2>1
  <2>4. e.at \in Nat /\ e.at = at[m + 1]
    BY <1>1, <2>1 DEF SameTurns
  <2>5. /\ m + 1 \in prompts <=> e.kind = "user-prompt-submit"
        /\ m + 1 \in stops <=> e.kind = "stop"
    BY <2>1 DEF PromptsOf, StopsOf, SameTurns
  <2> HIDE DEF none, at, prompts, stops, turns, e, walked, next
  <2>6. turns.opened # Closed => turns.opened \in Nat /\ turns.opened <= e.at
    BY <1>1, <2>1, <2>2, <2>4, OpenedBefore
  <2>7. /\ next \in Adding
        /\ e.kind = "user-prompt-submit" =>
             /\ next.total = turns.total
             /\ next.opened = IF turns.opened = Closed THEN e.at ELSE turns.opened
        /\ e.kind = "stop" /\ turns.opened = Closed =>
             /\ next.total = turns.total
             /\ next.opened = Closed
        /\ e.kind = "stop" /\ turns.opened # Closed =>
             /\ next.total = turns.total + (e.at - turns.opened)
             /\ next.opened = Closed
        /\ e.kind \notin {"user-prompt-submit", "stop"} =>
             /\ next.total = turns.total
             /\ next.opened = turns.opened
    BY <2>2, <2>4, <2>6, AddTaken DEF next
  <2>8. CASE e.kind = "user-prompt-submit"
    <3>1. m + 1 \in prompts /\ m + 1 \notin stops
      BY <1>1, <2>5, <2>8
    <3>2. TurnsAfter(at, prompts, stops, m + 1, turns.total,
                     IF turns.opened = Closed THEN at[m + 1] ELSE turns.opened)
      BY <1>1, <2>2, <3>1, PromptTaken
    <3> QED
      BY <2>3, <2>4, <2>7, <2>8, <3>2
  <2>9. CASE e.kind = "stop"
    <3>1. m + 1 \in stops /\ m + 1 \notin prompts
      BY <1>1, <2>5, <2>9
    <3>2. /\ turns.opened = Closed =>
               TurnsAfter(at, prompts, stops, m + 1, turns.total, Closed)
          /\ turns.opened # Closed =>
               TurnsAfter(at, prompts, stops, m + 1,
                          turns.total + (at[m + 1] - turns.opened), Closed)
      BY <1>1, <2>2, <3>1, StopTaken
    <3> QED
      BY <2>3, <2>4, <2>7, <2>9, <3>2
  <2>10. CASE e.kind \notin {"user-prompt-submit", "stop"}
    <3>1. m + 1 \notin stops /\ m + 1 \notin prompts
      BY <2>5, <2>10
    <3>2. TurnsAfter(at, prompts, stops, m + 1, turns.total, turns.opened)
      BY <1>1, <2>2, <3>1, OtherTaken
    <3> QED
      BY <2>3, <2>7, <2>10, <3>2
  <2> QED
    BY <2>8, <2>9, <2>10
<1>5. w[n] \in Adding /\ TurnsAfter(at, prompts, stops, n, w[n].total, w[n].opened)
  <2>1. Nat \subseteq walked
    <3> HIDE DEF walked
    <3> QED
      BY <1>3, <1>4, Induction
  <2>2. n \in walked
    BY <1>1, <2>1
  <2> QED
    BY <1>1, <2>2
<1>6. w[n].total = Cardinality(WorkedUpTo(at, prompts, stops, n))
  BY <1>5 DEF TurnsAfter
<1>7. WorkedUpTo(at, prompts, stops, n) = Working(rows)
  BY WorkingIsWorked
<1>8. /\ w[n].opened = Closed => OpenTime(rows) = 0
      /\ w[n].opened # Closed => /\ w[n].opened \in Nat
                                 /\ w[n].opened <= Last(rows).at
                                 /\ OpenTime(rows) = Last(rows).at - w[n].opened
  BY <1>5, OpenAtTheEnd
<1>9. Last(segments).at = Last(rows).at /\ Last(rows).at \in Nat
  <2>1. n \in 1 .. n
    BY <1>1
  <2>2. segments[n].at = rows[n].at /\ Len(segments) = n
    BY <2>1 DEF SameTurns
  <2> QED
    BY <1>1, <2>1, <2>2 DEF Last
<1>10. w[n].total \in Nat
  BY <1>5 DEF Adding
<1>11. AggregateActive(segments) = IF w[n].opened = Closed THEN w[n].total
                                   ELSE w[n].total + (Last(segments).at - w[n].opened)
  BY <1>2 DEF AggregateActive
<1> HIDE DEF at, prompts, stops, none
<1>12. CASE w[n].opened = Closed
  BY <1>6, <1>7, <1>8, <1>10, <1>11, <1>12
<1>13. CASE w[n].opened # Closed
  BY <1>6, <1>7, <1>8, <1>9, <1>10, <1>11, <1>13
<1> QED
  BY <1>12, <1>13

\* The segments that recovery accepts, one after the other in the order of
\* their times.
LEMMA OrderedSegments ==
  ASSUME NEW segments \in SUBSET S!Segment, IsFiniteSet(segments)
  PROVE  /\ Cardinality(S!Accepted(segments)) \in Nat
         /\ Ordered(segments) \in Seq(segments)
         /\ Len(Ordered(segments)) = Cardinality(S!Accepted(segments))
         /\ \A j, k \in 1 .. Len(Ordered(segments)) :
              j <= k => Ordered(segments)[j].at <= Ordered(segments)[k].at
<1> DEFINE A == S!Accepted(segments)
           below == [x \in A |-> {y \in A : S!Before(y, x)}]
           At(k) == CHOOSE x \in A : S!Position(A, x) = k - 1
<1>1. A \in SUBSET segments /\ IsFiniteSet(A)
  <2>1. A \in SUBSET segments
    BY DEF S!Accepted
  <2> QED
    BY <2>1, FS_Subset
<1>2. Cardinality(A) \in Nat
  BY <1>1, FS_CardinalityType
<1>3. \A x \in A : x.at \in Nat /\ x.payload \in Nat /\ x = [at |-> x.at, payload |-> x.payload]
  <2>1. InputIndex \subseteq Nat
    BY EvidenceAssumption
  <2> QED
    BY <1>1, <2>1 DEF S!Segment
<1>4. \A x, y \in A :
        S!Before(x, y) <=> (x.at < y.at \/ (x.at = y.at /\ x.payload < y.payload))
  <2>1. \A x \in A : InputDigest[x.payload] = x.payload
    BY <1>1 DEF S!Segment, InputDigest
  <2> HIDE DEF A
  <2> QED
    BY <2>1 DEF S!Before
<1>5. \A x \in A : x \notin below[x]
  BY <1>3, <1>4
<1>6. ASSUME NEW x \in A, NEW y \in A, S!Before(x, y)
      PROVE  x \in below[y] /\ below[x] \subseteq below[y] /\ x.at <= y.at
  <2>1. x \in below[y]
    BY <1>6
  <2>2. ASSUME NEW z \in A, S!Before(z, x) PROVE S!Before(z, y)
    BY <1>3, <1>4, <1>6, <2>2
  <2>3. below[x] \subseteq below[y]
    BY <2>2
  <2>4. x.at <= y.at
    BY <1>3, <1>4, <1>6
  <2> QED
    BY <2>1, <2>3, <2>4
<1>7. ASSUME NEW x \in A, NEW y \in A, x # y PROVE S!Before(x, y) \/ S!Before(y, x)
  <2>1. x.at # y.at \/ x.payload # y.payload
    BY <1>3, <1>7
  <2> HIDE DEF A
  <2> QED
    BY <1>3, <1>4, <2>1
<1>8. below \in [A -> SUBSET A]
  OBVIOUS
<1> HIDE DEF A
<1>9. \A x \in A : S!Position(A, x) = Cardinality(below[x])
  <2>1. ASSUME NEW x \in A
        PROVE  S!Position(A, x) = Cardinality({y \in A : S!Before(y, x)})
    BY Zenon DEF S!Position, S!Cardinality, Cardinality
  <2>2. \A x \in A : below[x] = {y \in A : S!Before(y, x)}
    OBVIOUS
  <2> HIDE DEF below
  <2> QED
    BY <2>1, <2>2
<1> HIDE DEF below
<1>10. \A x, y \in A : x # y =>
         \/ x \in below[y] /\ below[x] \subseteq below[y]
         \/ y \in below[x] /\ below[y] \subseteq below[x]
  BY <1>6, <1>7
<1>11. /\ \A x \in A : Cardinality(below[x]) \in 0 .. Cardinality(A) - 1
       /\ \A x, y \in A : Cardinality(below[x]) = Cardinality(below[y]) => x = y
       /\ \A k \in 1 .. Cardinality(A) : \E x \in A : Cardinality(below[x]) = k - 1
  BY <1>1, <1>5, <1>8, <1>10, Ranks
<1>12. ASSUME NEW k \in 1 .. Cardinality(A)
       PROVE  At(k) \in A /\ Cardinality(below[At(k)]) = k - 1
  <2>1. \E x \in A : S!Position(A, x) = k - 1
    BY <1>9, <1>11
  <2>2. At(k) \in A /\ S!Position(A, At(k)) = k - 1
    BY <2>1
  <2> QED
    BY <1>9, <2>2
<1>13. Ordered(segments) = [k \in 1 .. Cardinality(A) |-> At(k)]
  BY DEF Ordered, A
<1> HIDE DEF At
<1>14. Ordered(segments) \in Seq(segments) /\ Len(Ordered(segments)) = Cardinality(A)
  <2>1. \A k \in 1 .. Cardinality(A) : At(k) \in segments
    BY <1>1, <1>12
  <2>2. Ordered(segments) \in [1 .. Cardinality(A) -> segments]
    BY <1>13, <2>1
  <2> QED
    BY <1>2, <2>2, <1>13
<1>15. ASSUME NEW j \in 1 .. Cardinality(A), NEW k \in 1 .. Cardinality(A), j <= k
       PROVE  At(j).at <= At(k).at
  <2>1. At(j) \in A /\ At(k) \in A
    BY <1>12
  <2>2. CASE At(j) = At(k)
    BY <1>3, <2>1, <2>2
  <2>3. CASE S!Before(At(j), At(k))
    BY <1>6, <2>1, <2>3
  <2>4. CASE S!Before(At(k), At(j)) /\ At(j) # At(k)
    <3>1. below[At(k)] \in SUBSET below[At(j)]
      BY <1>6, <2>1, <2>4
    <3>2. IsFiniteSet(below[At(j)])
      <4>1. below[At(j)] \in SUBSET A
        BY <1>8, <2>1
      <4> QED
        BY <1>1, <4>1, FS_Subset
    <3>3. Cardinality(below[At(k)]) <= Cardinality(below[At(j)])
      BY <3>1, <3>2, FS_Subset
    <3>4. Cardinality(below[At(k)]) = k - 1 /\ Cardinality(below[At(j)]) = j - 1
      BY <1>12
    <3>5. k = j
      BY <1>15, <3>3, <3>4
    <3> QED
      BY <2>4, <3>5
  <2> QED
    BY <1>7, <2>1, <2>2, <2>3, <2>4
<1> QED
  BY <1>2, <1>13, <1>14, <1>15 DEF A

\* The members that a contract demands of every event, before those of its kind.
Leading(adapter, kind) ==
  <<Text(NameMember(adapter)),
    [member |-> NameMember(adapter), demand |-> EventName(adapter, kind)],
    Text("session_id"), Text(CwdMember(adapter))>>
    \o (IF adapter = "claude" THEN <<Optional("transcript_path")>> ELSE <<>>)

\* What a kind of event demands is demanded of it.
LEMMA PayloadDemanded ==
  ASSUME NEW adapter, NEW kind, NEW p \in DOMAIN PayloadDemands(kind)
  PROVE  /\ DOMAIN Demands(adapter, kind) \subseteq Nat
         /\ \E q \in DOMAIN Demands(adapter, kind) :
              Demands(adapter, kind)[q] = PayloadDemands(kind)[p]
<1> DEFINE named == [member |-> NameMember(adapter), demand |-> EventName(adapter, kind)]
           Demand == {Text(NameMember(adapter)), named, Text(CwdMember(adapter)),
                      Text("session_id"), Text("prompt"), Text("tool_name"),
                      Optional("transcript_path"), Optional("source"),
                      Optional("reason"), Optional("error"),
                      Given("tool_input"), Given("tool_response")}
           front == Leading(adapter, kind)
           payload == PayloadDemands(kind)
<1>1. front \in Seq(Demand)
  <2>1. <<Text(NameMember(adapter)), named, Text("session_id"), Text(CwdMember(adapter))>>
          \in Seq(Demand)
    OBVIOUS
  <2>2. (IF adapter = "claude" THEN <<Optional("transcript_path")>> ELSE <<>>) \in Seq(Demand)
    <3>1. <<Optional("transcript_path")>> \in Seq(Demand)
      OBVIOUS
    <3>2. <<>> \in Seq(Demand)
      OBVIOUS
    <3> HIDE DEF Demand
    <3> QED
      BY <3>1, <3>2
  <2> HIDE DEF Demand
  <2> QED
    BY <2>1, <2>2 DEF Leading
<1>2. payload \in Seq(Demand)
  <2>1. /\ <<Optional("source")>> \in Seq(Demand)
        /\ <<Text("prompt")>> \in Seq(Demand)
        /\ <<Optional("reason")>> \in Seq(Demand)
    OBVIOUS
  <2>2. <<Text("tool_name"), Given("tool_input")>> \in Seq(Demand)
    OBVIOUS
  <2>3. <<Text("tool_name"), Given("tool_input"), Given("tool_response"),
          Optional("error")>> \in Seq(Demand)
    OBVIOUS
  <2>4. << >> \in Seq(Demand)
    OBVIOUS
  <2> HIDE DEF Demand
  <2> QED
    BY <2>1, <2>2, <2>3, <2>4 DEF PayloadDemands
<1>3. Demands(adapter, kind) = front \o payload
  BY DEF Demands, Leading
<1> HIDE DEF Demand, front
<1>5. /\ front \o payload \in Seq(Demand)
      /\ Len(front) \in Nat
      /\ Len(front \o payload) = Len(front) + Len(payload)
      /\ \A k \in 1 .. Len(payload) : (front \o payload)[Len(front) + k] = payload[k]
  BY <1>1, <1>2
<1>6. p \in 1 .. Len(payload) /\ Len(payload) \in Nat
  BY <1>2
<1>7. DOMAIN (front \o payload) = 1 .. (Len(front) + Len(payload))
  BY <1>5
<1>8. Len(front) + p \in DOMAIN (front \o payload)
  BY <1>5, <1>6, <1>7
<1>9. (front \o payload)[Len(front) + p] = payload[p]
  BY <1>5, <1>6
<1>10. DOMAIN (front \o payload) \subseteq Nat
  BY <1>7
<1> QED
  BY <1>3, <1>8, <1>9, <1>10

\* The name of the tool in the row of a hook's event is a text: one that is
\* given for what contract demands, and none where it demands none.
LEMMA ToolIsText ==
  ASSUME NEW i \in Spooled PROVE Hooked[i].tool \in Texts
<1> DEFINE adapter == Inputs[i].adapter
           kind == Inputs[i].kind
           document == Inputs[i].input.document
           demands == Demands(adapter, kind)
           failed == {k \in DOMAIN demands : FaultOf(document, demands[k]) # "none"}
           tool == Text("tool_name")
<1>1. i \in InputIndex /\ Fault(adapter, kind, Inputs[i].input) = "none"
  BY DEF Spooled
<1>2. Hooked[i].tool = IF \E p \in DOMAIN PayloadDemands(kind) : PayloadDemands(kind)[p] = tool
                       THEN document["tool_name"] ELSE "none"
  BY DEF Hooked, Normalized
<1>3. ASSUME NEW p \in DOMAIN PayloadDemands(kind), PayloadDemands(kind)[p] = tool
      PROVE  document["tool_name"] \in Texts
  <2>1. /\ DOMAIN demands \subseteq Nat
        /\ \E q \in DOMAIN demands : demands[q] = tool
    BY <1>3, PayloadDemanded
  <2>2. failed = {}
    <3> SUFFICES ASSUME failed # {} PROVE FALSE
      OBVIOUS
    <3>1. failed \in SUBSET Nat
      BY <2>1
    <3>2. PICK m \in failed : \A k \in failed : m <= k
      <4> HIDE DEF failed
      <4> QED
        BY <3>1, Least
    <3>3. Min(failed) = m
      <4> HIDE DEF failed
      <4> QED
        BY <3>1, <3>2, MinIs
    <3>4. FaultOf(document, demands[Min(failed)]) # "none"
      BY <3>3
    <3>5. \/ Fault(adapter, kind, Inputs[i].input) = "hook_malformed_json"
          \/ Fault(adapter, kind, Inputs[i].input) = FaultOf(document, demands[Min(failed)])
      BY Zenon DEF Fault
    <3> QED
      BY <1>1, <3>4, <3>5
  <2>3. FaultOf(document, tool) = "none"
    BY <2>1, <2>2
  <2>4. tool.demand = "text" /\ tool.member = "tool_name"
    BY DEF Text
  <2>5. Member(document, "tool_name") # NullValue
    <3> HIDE DEF tool, document
    <3> QED
      BY <2>3, <2>4 DEF FaultOf
  <2>6. "tool_name" \in DOMAIN document
    <3> HIDE DEF document
    <3> QED
      BY <2>5 DEF Member
  <2>7. document["tool_name"] \in Range(document)
    <3> HIDE DEF document
    <3> QED
      BY <2>6, Zenon DEF Range
  <2>8. Range(document) \subseteq Texts
    BY <1>1 DEF Texts
  <2> QED
    BY <2>7, <2>8
<1>4. "none" \in Texts
  BY DEF Texts
<1> HIDE DEF document, kind, tool
<1> QED
  BY <1>2, <1>3, <1>4

\* A segment, its row and what the aggregate knows of it.
LEMMA RowOfSegment ==
  ASSUME NEW x \in S!Segment, x.payload \in Spooled
  PROVE  /\ Row(x) \in EventRow
         /\ Row(x).at = x.at
         /\ Observed(x).at = x.at
         /\ Observed(x).prompt \in Texts
         /\ (Observed(x).kind = "user-prompt-submit") = (Row(x).kind = "user_prompt")
         /\ (Observed(x).kind = "stop") = (Row(x).kind = "stop")
<1> DEFINE i == x.payload
           kind == Inputs[i].kind
<1>1. i \in InputIndex /\ x.at \in Nat
  BY DEF S!Segment
<1>2. kind \in HookEventKind /\ Inputs[i].size \in Nat
  BY <1>1, EvidenceAssumption
<1>3. Hooked[i].tool \in Texts
  BY ToolIsText
<1>4. Inputs[i].prompt \in Texts
  BY <1>1 DEF Texts
<1>5. /\ Describe(kind) \in {"user_prompt", "tool_call", "tool_result", "session_start",
                             "stop", "session_end"}
      /\ kind = "user-prompt-submit" <=> Describe(kind) = "user_prompt"
      /\ kind = "stop" <=> Describe(kind) = "stop"
  <2> HIDE DEF kind
  <2> QED
    BY <1>2 DEF Describe, HookEventKind
<1>6. Row(x) = [kind |-> Describe(kind), at |-> x.at, bytes |-> Inputs[i].size,
                tool |-> Hooked[i].tool]
  BY DEF Row
<1>7. Observed(x) = [kind |-> kind, at |-> x.at, prompt |-> Inputs[i].prompt,
                     failed |-> Hooked[i].failed]
  BY DEF Observed
<1> HIDE DEF i, kind
<1>8. Row(x) \in EventRow
  BY <1>1, <1>2, <1>3, <1>5, <1>6 DEF EventRow
<1> QED
  BY <1>4, <1>5, <1>6, <1>7, <1>8

\* What recovery makes of the segments of a session that is complete: rows in
\* the order of their times, and an aggregate that measures the same work.
LEMMA RecoveredRows ==
  ASSUME NEW segments \in SUBSET S!Segment, IsFiniteSet(segments),
         \A x \in segments : x.payload \in Spooled,
         S!Complete(S!Accepted(segments))
  PROVE  /\ Rows(segments) \in Seq(EventRow)
         /\ Rows(segments) # <<>>
         /\ InTimeOrder(Rows(segments))
         /\ SessionAggregate(segments).started \in Nat
         /\ SessionAggregate(segments).ended \in Nat
         /\ SessionAggregate(segments).intent \in Texts
         /\ SessionAggregate(segments).active \in Nat
         /\ SessionAggregate(segments).active
              = Cardinality(Working(Rows(segments))) + OpenTime(Rows(segments))
<1> DEFINE ordered == Ordered(segments)
           rows == Rows(segments)
           n == Len(ordered)
           seen == [k \in DOMAIN ordered |-> Observed(ordered[k])]
           aggregate == SessionAggregate(segments)
<1>1. /\ ordered \in Seq(segments)
      /\ \A j, k \in 1 .. n : j <= k => ordered[j].at <= ordered[k].at
      /\ n = Cardinality(S!Accepted(segments))
  BY OrderedSegments
<1>2. n \in Nat /\ DOMAIN ordered = 1 .. n /\ \A k \in 1 .. n : ordered[k] \in segments
  BY <1>1
<1>3. n # 0
  <2> SUFFICES ASSUME n = 0 PROVE FALSE
    OBVIOUS
  <2>1. S!Accepted(segments) \in SUBSET segments
    BY DEF S!Accepted
  <2>2. IsFiniteSet(S!Accepted(segments))
    BY <2>1, FS_Subset
  <2>3. S!Accepted(segments) = {}
    BY <1>1, <2>2, FS_EmptySet
  <2> QED
    BY <2>3 DEF S!Complete
<1>4. rows = [k \in 1 .. n |-> Row(ordered[k])]
  BY <1>2 DEF Rows
<1>5. seen = [k \in 1 .. n |-> Observed(ordered[k])]
  BY <1>2
<1>6. ASSUME NEW k \in 1 .. n
      PROVE  /\ Row(ordered[k]) \in EventRow
             /\ Row(ordered[k]).at = ordered[k].at
             /\ Observed(ordered[k]).at = ordered[k].at
             /\ Observed(ordered[k]).prompt \in Texts
             /\ (Observed(ordered[k]).kind = "user-prompt-submit")
                  = (Row(ordered[k]).kind = "user_prompt")
             /\ (Observed(ordered[k]).kind = "stop") = (Row(ordered[k]).kind = "stop")
  <2>1. ordered[k] \in S!Segment /\ ordered[k].payload \in Spooled
    BY <1>2
  <2> QED
    BY <2>1, RowOfSegment
<1>7. aggregate = Aggregate(seen)
  BY DEF SessionAggregate
<1> HIDE DEF ordered, rows, n, seen, aggregate
<1>8. \A k \in 1 .. n : rows[k] = Row(ordered[k]) /\ seen[k] = Observed(ordered[k])
  BY <1>4, <1>5
<1>9. rows \in Seq(EventRow) /\ Len(rows) = n /\ DOMAIN rows = 1 .. n
  <2>1. rows \in [1 .. n -> EventRow]
    BY <1>4, <1>6
  <2> QED
    BY <1>2, <2>1
<1> DEFINE X == {Observed(ordered[k]) : k \in 1 .. n}
<1>10. seen \in Seq(X) /\ Len(seen) = n /\ DOMAIN seen = 1 .. n
  <2>1. seen \in [1 .. n -> X]
    BY <1>5
  <2> HIDE DEF X
  <2> QED
    BY <1>2, <2>1
<1> HIDE DEF X
<1>11. rows # <<>>
  <2>1. 1 \in DOMAIN rows
    BY <1>2, <1>3, <1>9
  <2> QED
    BY <2>1
<1>12. InTimeOrder(rows)
  <2>1. ASSUME NEW i \in 1 .. n, NEW k \in 1 .. n, i < k PROVE rows[i].at <= rows[k].at
    <3>1. i <= k
      BY <1>2, <2>1
    <3>2. ordered[i].at <= ordered[k].at
      BY <1>1, <3>1
    <3> QED
      BY <1>6, <1>8, <3>2
  <2> QED
    BY <1>9, <2>1 DEF InTimeOrder
<1>13. SameTurns(seen, rows)
  <2>1. ASSUME NEW i \in 1 .. n
        PROVE  /\ seen[i].at = rows[i].at
               /\ (seen[i].kind = "user-prompt-submit") = (rows[i].kind = "user_prompt")
               /\ (seen[i].kind = "stop") = (rows[i].kind = "stop")
    BY <1>6, <1>8
  <2> QED
    BY <1>9, <1>10, <2>1 DEF SameTurns
<1>14. /\ AggregateActive(seen) = Cardinality(Working(rows)) + OpenTime(rows)
       /\ AggregateActive(seen) \in Nat
  BY <1>9, <1>10, <1>11, <1>12, <1>13, AggregateMeasured
<1> DEFINE stated == {k \in DOMAIN seen : /\ seen[k].kind = "user-prompt-submit"
                                         /\ seen[k].prompt # ""}
           intent == IF stated = {} THEN "" ELSE seen[Min(stated)].prompt
<1>15. /\ aggregate.started = Head(seen).at
       /\ aggregate.ended = Last(seen).at
       /\ aggregate.active = AggregateActive(seen)
       /\ aggregate.intent = intent
  BY <1>7, Zenon DEF Aggregate
<1>16. Head(seen).at \in Nat /\ Last(seen).at \in Nat
  <2>1. 1 \in 1 .. n /\ n \in 1 .. n
    BY <1>2, <1>3
  <2>2. seen[1].at \in Nat /\ seen[n].at \in Nat
    BY <1>6, <1>8, <2>1 DEF EventRow
  <2>3. Head(seen) = seen[1] /\ Last(seen) = seen[n]
    BY <1>10, <2>1 DEF Last
  <2> QED
    BY <2>2, <2>3
<1>17. intent \in Texts
  <2>1. CASE stated = {}
    BY <2>1 DEF Texts
  <2>2. CASE stated # {}
    <3>1. stated \in SUBSET Nat
      <4>1. \A k \in DOMAIN seen : k \in Nat
        BY <1>2, <1>10
      <4> QED
        BY <4>1
    <3>2. PICK m \in stated : \A k \in stated : m <= k
      <4> HIDE DEF stated
      <4> QED
        BY <2>2, <3>1, Least
    <3>3. Min(stated) = m
      <4> HIDE DEF stated
      <4> QED
        BY <3>1, <3>2, MinIs
    <3>4. m \in 1 .. n
      BY <1>10, Zenon
    <3>5. seen[m].prompt \in Texts
      BY <1>6, <1>8, <3>4
    <3> HIDE DEF stated
    <3> QED
      BY <2>2, <3>3, <3>5
  <2> QED
    BY <2>1, <2>2
<1> HIDE DEF intent, stated
<1> QED
  BY <1>9, <1>11, <1>12, <1>14, <1>15, <1>16, <1>17 DEF rows, aggregate

-----------------------------------------------------------------------------
(***************************************************************************)
(* The invariant of what is recorded.                                      *)
(***************************************************************************)
\* What a run of recovery holds of a session.
RunState ==
  [head : Nat, segments : SUBSET S!Segment, quarantined : Nat, duplicates : Int,
   stored : BOOLEAN]

\* Clocks and counters.
Counted ==
  /\ scenario \in Scenario
  /\ now \in Nat
  /\ hooks \in Nat
  /\ faults \in Nat
  /\ head \in Nat
  /\ damages \in Nat
  /\ deaths \in Nat

\* The types of what is kept of each session.
Shaped ==
  /\ spool \in [Session -> SUBSET S!Segment]
  /\ session \in [Session -> SessionRow \cup {Nothing}]
  /\ events \in [Session -> Seq(EventRow)]
  /\ trajectory \in [Session -> TrajectoryRow \cup {Nothing}]
  /\ metrics = [s \in Session |-> metrics[s]]
  /\ annotation = [s \in Session |-> annotation[s]]
  /\ run = [s \in Session |-> run[s]]

\* Segments that recovery can make rows of.
Recoverable(segments) ==
  /\ segments \in SUBSET S!Segment
  /\ IsFiniteSet(segments)
  /\ \A x \in segments : x.payload \in Spooled

\* What is in the spool can be recovered.
SpoolSound(s) == Recoverable(spool[s])

\* A run knows whether there is a trajectory, because no other run is under way.
RunSound(s) ==
  run[s] # Nothing =>
    /\ run[s] \in RunState
    /\ run[s].head <= head
    /\ Recoverable(run[s].segments)
    /\ S!Complete(S!Accepted(run[s].segments))
    /\ run[s].stored = (trajectory[s] # Nothing)

\* A trajectory comes with all rows, and if no run died they are those of the
\* segments that it measured.
RowsSound(s) ==
  /\ session[s] # Nothing => session[s].head <= head
  /\ trajectory[s] # Nothing =>
       /\ session[s] # Nothing
       /\ events[s] # <<>>
       /\ trajectory[s].head <= head
  /\ deaths = 0 /\ trajectory[s] = Nothing => events[s] = <<>>
  /\ deaths = 0 /\ trajectory[s] # Nothing =>
       trajectory[s].duration = Cardinality(Working(events[s])) + OpenTime(events[s])

\* Metrics and annotations are of a trajectory, and metrics are of its rows.
MetricsSound(s) ==
  /\ metrics[s] # Nothing =>
       /\ trajectory[s] # Nothing
       /\ metrics[s].head \in Nat
       /\ metrics[s].head <= head
       /\ metrics[s].count = Len(events[s])
       /\ metrics[s].active = ActiveDuration(events[s])
       /\ metrics[s].wall = WallDuration(events[s])
  /\ annotation[s] # Nothing => trajectory[s] # Nothing

\* A session is sound in all four respects.
SessionSound(s) == SpoolSound(s) /\ RunSound(s) /\ RowsSound(s) /\ MetricsSound(s)

\* The invariant of what is recorded.
EvidenceInv == Counted /\ Shaped /\ \A s \in Session : SessionSound(s)

-----------------------------------------------------------------------------
\* A session stays sound when nothing of it changes, commits or not.
LEMMA SessionKept ==
  ASSUME Counted, NEW t, SessionSound(t),
         spool'[t] = spool[t], run'[t] = run[t], session'[t] = session[t],
         events'[t] = events[t], trajectory'[t] = trajectory[t],
         metrics'[t] = metrics[t], annotation'[t] = annotation[t],
         head' \in Nat, head <= head', deaths' = 0 => deaths = 0,
         Shaped, t \in Session
  PROVE  SessionSound(t)'
<1>1. SpoolSound(t)'
  BY DEF SessionSound, SpoolSound
<1>2. ASSUME NEW h, h \in Nat, h <= head PROVE h <= head'
  BY <1>2 DEF Counted
<1>3. RunSound(t)'
  <2> SUFFICES ASSUME run[t] # Nothing
               PROVE  /\ run[t] \in RunState
                      /\ run[t].head <= head'
                      /\ Recoverable(run[t].segments)
                      /\ S!Complete(S!Accepted(run[t].segments))
                      /\ run[t].stored = (trajectory[t] # Nothing)
    BY DEF RunSound
  <2>1. /\ run[t] \in RunState
        /\ run[t].head <= head
        /\ Recoverable(run[t].segments)
        /\ S!Complete(S!Accepted(run[t].segments))
        /\ run[t].stored = (trajectory[t] # Nothing)
    BY DEF SessionSound, RunSound
  <2>2. run[t].head \in Nat
    BY <2>1 DEF RunState
  <2> QED
    BY <1>2, <2>1, <2>2
<1>4. RowsSound(t)'
  <2>1. session[t] # Nothing => session[t].head <= head'
    <3>1. session[t] # Nothing => session[t].head \in Nat
      BY DEF Shaped, SessionRow
    <3> QED
      BY <1>2, <3>1 DEF SessionSound, RowsSound
  <2>2. trajectory[t] # Nothing => trajectory[t].head <= head'
    <3>1. trajectory[t] # Nothing => trajectory[t].head \in Nat
      BY DEF Shaped, TrajectoryRow
    <3> QED
      BY <1>2, <3>1 DEF SessionSound, RowsSound
  <2> QED
    BY <2>1, <2>2 DEF SessionSound, RowsSound
<1>5. MetricsSound(t)'
  <2>1. metrics[t] # Nothing => metrics[t].head <= head'
    BY <1>2 DEF SessionSound, MetricsSound
  <2> QED
    BY <2>1 DEF SessionSound, MetricsSound
<1> QED
  BY <1>1, <1>3, <1>4, <1>5 DEF SessionSound

\* At the start there are no segments, rows or runs.
LEMMA EvidenceStart == EvidenceInit => EvidenceInv
<1> SUFFICES ASSUME EvidenceInit PROVE EvidenceInv
  OBVIOUS
<1>1. Counted
  BY DEF EvidenceInit, Counted
<1>2. Shaped
  BY DEF EvidenceInit, Shaped
<1>3. ASSUME NEW s \in Session PROVE SessionSound(s)
  <2>1. SpoolSound(s)
    <3>1. spool[s] = {}
      BY DEF EvidenceInit
    <3> QED
      BY <3>1, FS_EmptySet DEF SpoolSound, Recoverable
  <2> QED
    BY <2>1 DEF EvidenceInit, SessionSound, RunSound, RowsSound, MetricsSound
<1> QED
  BY <1>1, <1>2, <1>3 DEF EvidenceInv

\* Whatever of the recording stays, its invariant stays.
LEMMA EvidenceStays == EvidenceInv /\ UNCHANGED evidenceVars => EvidenceInv'
<1> SUFFICES ASSUME EvidenceInv, UNCHANGED evidenceVars PROVE EvidenceInv'
  OBVIOUS
<1> USE DEF evidenceVars, captureVars, rowVars
<1>1. Counted' /\ Shaped'
  BY DEF EvidenceInv, Counted, Shaped
<1>2. ASSUME NEW s \in Session PROVE SessionSound(s)'
  <2>1. head' \in Nat /\ head <= head'
    BY DEF EvidenceInv, Counted
  <2> QED
    BY <2>1, SessionKept DEF EvidenceInv
<1> QED
  BY <1>1, <1>2 DEF EvidenceInv

\* A hook spools a segment that can be made a row of, or a fault.
LEMMA HookKept ==
  ASSUME EvidenceInv, NEW s \in Session, NEW i \in InputIndex,
         NEW elapsed \in scenario.elapsed, Hook(s, i, elapsed)
  PROVE  EvidenceInv'
<1> USE DEF rowVars
<1>1. Counted /\ Shaped /\ \A t \in Session : SessionSound(t)
  BY DEF EvidenceInv
<1>2. /\ hooks' = hooks + 1
      /\ now' = now + elapsed
      /\ now + elapsed >= 0
      /\ UNCHANGED <<scenario, head, damages, deaths, rowVars, metrics, annotation, run>>
  BY DEF Hook
<1>3. now' \in Nat
  <2>1. scenario.elapsed \subseteq Int
    BY <1>1, EvidenceAssumption DEF Counted
  <2> QED
    BY <1>1, <1>2, <2>1 DEF Counted
<1>4. \/ spool' = spool /\ faults' = faults + 1
      \/ /\ i \in Spooled
         /\ spool' = [spool EXCEPT ![s] = @ \cup {[at |-> now', payload |-> i]}]
         /\ faults' = faults
  BY DEF Hook
<1>5. Counted'
  BY <1>1, <1>2, <1>3, <1>4 DEF Counted
<1> DEFINE x == [at |-> now', payload |-> i]
<1>6. x \in S!Segment /\ x.payload = i
  BY <1>3 DEF S!Segment
<1>7. spool[s] \in SUBSET S!Segment
  BY <1>1 DEF Shaped
<1>8. Shaped'
  <2>1. spool' \in [Session -> SUBSET S!Segment]
    <3>1. spool \in [Session -> SUBSET S!Segment]
      BY <1>1 DEF Shaped
    <3> HIDE DEF x
    <3>2. CASE spool' = [spool EXCEPT ![s] = @ \cup {x}]
      BY <1>6, <1>7, <3>1, <3>2
    <3> QED
      BY <1>4, <3>1, <3>2 DEF x
  <2> QED
    BY <1>1, <1>2, <2>1 DEF Shaped
<1>9. ASSUME NEW t \in Session PROVE SessionSound(t)'
  <2>1. head' \in Nat /\ head <= head' /\ deaths' = deaths
    BY <1>1, <1>2 DEF Counted
  <2>2. CASE spool'[t] = spool[t]
    BY <1>1, <1>2, <2>1, <2>2, SessionKept
  <2>3. CASE t = s /\ i \in Spooled /\ spool'[s] = spool[s] \cup {x}
    <3>1. Recoverable(spool[s])
      BY <1>1 DEF SessionSound, SpoolSound
    <3>2. Recoverable(spool[s] \cup {x})
      <4> HIDE DEF x
      <4>1. IsFiniteSet(spool[s] \cup {x})
        BY <3>1, FS_AddElement DEF Recoverable
      <4> QED
        BY <1>6, <2>3, <3>1, <4>1 DEF Recoverable
    <3>3. SpoolSound(t)'
      BY <2>3, <3>2 DEF SpoolSound
    <3>4. RunSound(t)' /\ RowsSound(t)' /\ MetricsSound(t)'
      BY <1>1, <1>2, <2>1 DEF SessionSound, RunSound, RowsSound, MetricsSound
    <3> QED
      BY <3>3, <3>4 DEF SessionSound
  <2>4. \/ spool'[t] = spool[t]
        \/ t = s /\ i \in Spooled /\ spool'[s] = spool[s] \cup {x}
    <3>1. spool \in [Session -> SUBSET S!Segment]
      BY <1>1 DEF Shaped
    <3> HIDE DEF x
    <3>2. CASE i \in Spooled /\ spool' = [spool EXCEPT ![s] = @ \cup {x}]
      BY <3>1, <3>2
    <3> QED
      BY <1>4, <3>2 DEF x
  <2> QED
    BY <2>2, <2>3, <2>4
<1> QED
  BY <1>5, <1>8, <1>9 DEF EvidenceInv

\* A commit only moves the checkout on.
LEMMA CommitKept ==
  ASSUME EvidenceInv, Commit PROVE EvidenceInv'
<1> USE DEF rowVars
<1>1. Counted /\ Shaped /\ \A t \in Session : SessionSound(t)
  BY DEF EvidenceInv
<1>2. /\ head' = head + 1
      /\ UNCHANGED <<scenario, now, hooks, faults, spool, damages, deaths, rowVars, metrics,
                     annotation, run>>
  BY DEF Commit
<1>3. head' \in Nat /\ head <= head'
  BY <1>1, <1>2 DEF Counted
<1>4. Counted' /\ Shaped'
  BY <1>1, <1>2, <1>3 DEF Counted, Shaped
<1>5. ASSUME NEW t \in Session PROVE SessionSound(t)'
  BY <1>1, <1>2, <1>3, SessionKept
<1> QED
  BY <1>4, <1>5 DEF EvidenceInv

\* Recovery reads a session that is complete, with what passed verification.
LEMMA RecoverSessionKept ==
  ASSUME EvidenceInv, NEW s \in Session, NEW lost \in SUBSET spool[s],
         RecoverSession(s, lost)
  PROVE  EvidenceInv'
<1> USE DEF rowVars, captureVars
<1> DEFINE kept == spool[s] \ lost
           entered == [head        |-> head,
                       segments    |-> kept,
                       quarantined |-> Cardinality(lost),
                       duplicates  |-> S!Duplicates(kept),
                       stored      |-> trajectory[s] # Nothing]
<1>1. Counted /\ Shaped /\ \A t \in Session : SessionSound(t)
  BY DEF EvidenceInv
<1>2. /\ damages' = damages + Cardinality(lost)
      /\ spool' = [spool EXCEPT ![s] = kept]
      /\ \/ run' = run
         \/ S!Complete(S!Accepted(kept)) /\ run' = [run EXCEPT ![s] = entered]
      /\ UNCHANGED <<scenario, captureVars, deaths, rowVars, metrics, annotation>>
  BY DEF RecoverSession
<1>3. Recoverable(spool[s])
  BY <1>1 DEF SessionSound, SpoolSound
<1>4. Recoverable(kept)
  <2>1. kept \in SUBSET spool[s]
    OBVIOUS
  <2>2. IsFiniteSet(kept)
    BY <1>3, <2>1, FS_Subset DEF Recoverable
  <2> QED
    BY <1>3, <2>1, <2>2 DEF Recoverable
<1>5. Cardinality(lost) \in Nat
  <2>1. IsFiniteSet(lost)
    BY <1>3, FS_Subset DEF Recoverable
  <2> QED
    BY <2>1, FS_CardinalityType
<1>6. S!Duplicates(kept) \in Int
  <2>1. S!Accepted(kept) \in SUBSET kept
    BY DEF S!Accepted
  <2>2. IsFiniteSet(kept) /\ IsFiniteSet(S!Accepted(kept))
    BY <1>4, <2>1, FS_Subset DEF Recoverable
  <2>3. Cardinality(kept) \in Nat /\ Cardinality(S!Accepted(kept)) \in Nat
    BY <2>2, FS_CardinalityType
  <2> HIDE DEF kept
  <2>4. /\ S!Cardinality(kept) = Cardinality(kept)
        /\ S!Cardinality(S!Accepted(kept)) = Cardinality(S!Accepted(kept))
    BY Zenon DEF S!Cardinality, Cardinality
  <2>5. S!Duplicates(kept) = S!Cardinality(kept) - S!Cardinality(S!Accepted(kept))
    BY Zenon DEF S!Duplicates
  <2> QED
    BY <2>3, <2>4, <2>5
<1>7. entered \in RunState
  <2>1. kept \in SUBSET S!Segment
    BY <1>4 DEF Recoverable
  <2>2. head \in Nat
    BY <1>1 DEF Counted
  <2>3. (trajectory[s] # Nothing) \in BOOLEAN
    OBVIOUS
  <2> HIDE DEF kept
  <2> QED
    BY <1>5, <1>6, <2>1, <2>2, <2>3 DEF RunState
<1>8. /\ entered.head = head
      /\ entered.segments = kept
      /\ entered.stored = (trajectory[s] # Nothing)
  OBVIOUS
<1> HIDE DEF kept, entered
<1>9. Counted'
  BY <1>1, <1>2, <1>5 DEF Counted
<1>10. Shaped'
  <2>1. kept \in SUBSET S!Segment
    BY <1>4 DEF Recoverable
  <2>2. spool' \in [Session -> SUBSET S!Segment]
    BY <1>1, <1>2, <2>1 DEF Shaped
  <2>3. run = [t \in Session |-> run[t]]
    BY <1>1 DEF Shaped
  <2>4. run' = [t \in Session |-> run'[t]]
    BY <1>2, <2>3
  <2> QED
    BY <1>1, <1>2, <2>2, <2>4 DEF Shaped
<1>11. ASSUME NEW t \in Session PROVE SessionSound(t)'
  <2>1. head' \in Nat /\ head <= head' /\ deaths' = deaths /\ head' = head
    BY <1>1, <1>2 DEF Counted
  <2>2. CASE t # s
    <3>1. spool'[t] = spool[t] /\ run'[t] = run[t]
      BY <1>1, <1>2, <2>2 DEF Shaped
    <3> QED
      BY <1>1, <1>2, <2>1, <3>1, SessionKept
  <2>3. CASE t = s
    <3>1. spool'[s] = kept
      BY <1>1, <1>2 DEF Shaped
    <3>2. SpoolSound(t)'
      BY <1>4, <2>3, <3>1 DEF SpoolSound
    <3>3. CASE run' = run
      BY <1>1, <1>2, <2>1, <3>2, <3>3 DEF SessionSound, RunSound, RowsSound, MetricsSound
    <3>4. CASE S!Complete(S!Accepted(kept)) /\ run' = [run EXCEPT ![s] = entered]
      <4>1. run'[s] = entered
        <5>1. run = [u \in Session |-> run[u]]
          BY <1>1 DEF Shaped
        <5> QED
          BY <3>4, <5>1
      <4>2. head <= head
        BY <1>1 DEF Counted
      <4>3. RunSound(t)'
        BY <1>2, <1>4, <1>7, <1>8, <2>1, <2>3, <3>4, <4>1, <4>2 DEF RunSound
      <4>4. RowsSound(t)' /\ MetricsSound(t)'
        BY <1>1, <1>2, <2>1 DEF SessionSound, RowsSound, MetricsSound
      <4> QED
        BY <3>2, <4>3, <4>4 DEF SessionSound
    <3> QED
      BY <1>2, <3>3, <3>4
  <2> QED
    BY <2>2, <2>3
<1> QED
  BY <1>9, <1>10, <1>11 DEF EvidenceInv

\* An annotation is of a trajectory that was found.
LEMMA AnnotateKept ==
  ASSUME EvidenceInv, NEW s \in Session, NEW status, Annotate(s, status)
  PROVE  EvidenceInv'
<1> USE DEF rowVars, captureVars
<1>1. Counted /\ Shaped /\ \A t \in Session : SessionSound(t)
  BY DEF EvidenceInv
<1>2. /\ trajectory[s] # Nothing
      /\ annotation' = [annotation EXCEPT ![s] = status]
      /\ UNCHANGED <<scenario, captureVars, spool, damages, deaths, rowVars, metrics, run>>
  BY DEF Annotate
<1>3. Counted'
  BY <1>1, <1>2 DEF Counted
<1>4. annotation = [t \in Session |-> annotation[t]]
  BY <1>1 DEF Shaped
<1>5. annotation' = [t \in Session |-> annotation'[t]]
  BY <1>2, <1>4
<1>6. Shaped'
  BY <1>1, <1>2, <1>5 DEF Shaped
<1>7. ASSUME NEW t \in Session PROVE SessionSound(t)'
  <2>1. head' \in Nat /\ head <= head' /\ deaths' = deaths /\ head' = head
    BY <1>1, <1>2 DEF Counted
  <2>2. annotation'[t] # Nothing => trajectory[t] # Nothing
    <3>1. t # s => annotation'[t] = annotation[t]
      BY <1>2, <1>4
    <3> QED
      BY <1>1, <1>2, <3>1 DEF SessionSound, MetricsSound
  <2> QED
    BY <1>1, <1>2, <2>1, <2>2 DEF SessionSound, SpoolSound, RunSound, RowsSound, MetricsSound
<1> QED
  BY <1>3, <1>6, <1>7 DEF EvidenceInv

\* What is measured of rows.
LEMMA MeasuredRows ==
  ASSUME NEW rows, NEW h, NEW q, NEW d
  PROVE  /\ TraceMetrics(rows, h, q, d).head = h
         /\ TraceMetrics(rows, h, q, d).count = Len(rows)
         /\ TraceMetrics(rows, h, q, d).active = ActiveDuration(rows)
         /\ TraceMetrics(rows, h, q, d).wall = WallDuration(rows)
BY Zenon DEF TraceMetrics

\* A run ends, with or without the metrics, and the spool is cleared or not.
LEMMA RunEnds ==
  ASSUME EvidenceInv, NEW s \in Session, run[s] # Nothing,
         run' = [run EXCEPT ![s] = Nothing],
         \/ metrics' = metrics
         \/ /\ run[s].stored
            /\ metrics' = [metrics EXCEPT ![s] =
                             TraceMetrics(events[s], run[s].head, run[s].quarantined,
                                          run[s].duplicates)],
         \/ spool' = spool
         \/ spool' = [spool EXCEPT ![s] = {}],
         deaths' \in {deaths, deaths + 1},
         UNCHANGED <<scenario, captureVars, damages, rowVars, annotation>>
  PROVE  EvidenceInv'
<1> USE DEF rowVars, captureVars
<1> DEFINE measured == TraceMetrics(events[s], run[s].head, run[s].quarantined,
                                    run[s].duplicates)
<1>1. Counted /\ Shaped /\ \A t \in Session : SessionSound(t)
  BY DEF EvidenceInv
<1>2. /\ measured.head = run[s].head
      /\ measured.count = Len(events[s])
      /\ measured.active = ActiveDuration(events[s])
      /\ measured.wall = WallDuration(events[s])
  BY MeasuredRows
<1>3. \/ metrics' = metrics
      \/ run[s].stored /\ metrics' = [metrics EXCEPT ![s] = measured]
  OBVIOUS
<1> HIDE DEF measured
<1>4. deaths \in Nat /\ deaths' \in Nat /\ (deaths' = 0 => deaths = 0)
  BY <1>1 DEF Counted
<1>5. Counted'
  BY <1>1, <1>4 DEF Counted
<1>6. /\ run = [t \in Session |-> run[t]]
      /\ metrics = [t \in Session |-> metrics[t]]
      /\ spool \in [Session -> SUBSET S!Segment]
  BY <1>1 DEF Shaped
<1>7. Shaped'
  <2>1. run' = [t \in Session |-> run'[t]]
    BY <1>6
  <2>2. metrics' = [t \in Session |-> metrics'[t]]
    BY <1>3, <1>6
  <2>3. spool' \in [Session -> SUBSET S!Segment]
    BY <1>6
  <2> QED
    BY <1>1, <2>1, <2>2, <2>3 DEF Shaped
<1>8. ASSUME NEW t \in Session PROVE SessionSound(t)'
  <2>1. head' \in Nat /\ head <= head' /\ head' = head
    BY <1>1 DEF Counted
  <2>2. CASE t # s
    <3>1. spool'[t] = spool[t] /\ run'[t] = run[t] /\ metrics'[t] = metrics[t]
      BY <1>3, <1>6, <2>2
    <3> QED
      BY <1>1, <1>4, <2>1, <3>1, SessionKept
  <2>3. CASE t = s
    <3>1. run'[s] = Nothing
      BY <1>6
    <3>2. spool'[s] = spool[s] \/ spool'[s] = {}
      BY <1>6
    <3>3. SpoolSound(t)'
      BY <1>1, <2>3, <3>2, FS_EmptySet DEF SessionSound, SpoolSound, Recoverable
    <3>4. RunSound(t)'
      BY <2>3, <3>1 DEF RunSound
    <3>5. RowsSound(t)'
      BY <1>1, <1>4, <2>1 DEF SessionSound, RowsSound
    <3>6. CASE metrics' = metrics
      <4>1. MetricsSound(t)'
        BY <1>1, <2>1, <3>6 DEF SessionSound, MetricsSound
      <4> QED
        BY <3>3, <3>4, <3>5, <4>1 DEF SessionSound
    <3>7. CASE run[s].stored /\ metrics' = [metrics EXCEPT ![s] = measured]
      <4>1. metrics'[s] = measured
        BY <1>6, <3>7
      <4>2. /\ run[s] \in RunState
            /\ run[s].head <= head
            /\ run[s].stored = (trajectory[s] # Nothing)
        BY <1>1 DEF SessionSound, RunSound
      <4>3. run[s].head \in Nat
        BY <4>2 DEF RunState
      <4>4. trajectory[s] # Nothing
        BY <3>7, <4>2
      <4>5. MetricsSound(t)'
        BY <1>1, <1>2, <2>1, <2>3, <4>1, <4>2, <4>3, <4>4 DEF SessionSound, MetricsSound
      <4> QED
        BY <3>3, <3>4, <3>5, <4>5 DEF SessionSound
    <3> QED
      BY <1>3, <3>6, <3>7
  <2> QED
    BY <2>2, <2>3
<1> QED
  BY <1>5, <1>7, <1>8 DEF EvidenceInv

\* The metrics of a session that is stored, and the end of its run.
LEMMA StoreMetricsKept ==
  ASSUME EvidenceInv, NEW s \in Session, StoreMetrics(s) PROVE EvidenceInv'
<1>1. /\ run[s] # Nothing
      /\ run[s].stored
      /\ metrics' = [metrics EXCEPT ![s] =
                       TraceMetrics(events[s], run[s].head, run[s].quarantined,
                                    run[s].duplicates)]
      /\ spool' = [spool EXCEPT ![s] = {}]
      /\ run' = [run EXCEPT ![s] = Nothing]
      /\ UNCHANGED <<scenario, captureVars, damages, deaths, rowVars, annotation>>
  BY DEF StoreMetrics
<1>2. deaths' \in {deaths, deaths + 1}
  BY <1>1
<1>3. UNCHANGED <<scenario, captureVars, damages, rowVars, annotation>>
  BY <1>1
<1> QED
  BY <1>1, <1>2, <1>3, RunEnds

\* A run that dies leaves the metrics as they were, or new.
LEMMA RecoverDiesKept ==
  ASSUME EvidenceInv, NEW s \in Session, RecoverDies(s) PROVE EvidenceInv'
<1>1. /\ run[s] # Nothing
      /\ deaths' = deaths + 1
      /\ run' = [run EXCEPT ![s] = Nothing]
      /\ \/ metrics' = metrics
         \/ /\ run[s].stored
            /\ metrics' = [metrics EXCEPT ![s] =
                             TraceMetrics(events[s], run[s].head, run[s].quarantined,
                                          run[s].duplicates)]
      /\ spool' = spool
      /\ UNCHANGED <<scenario, captureVars, damages, rowVars, annotation>>
  BY DEF RecoverDies
<1>2. deaths' \in {deaths, deaths + 1}
  BY <1>1
<1> QED
  BY <1>1, <1>2, RunEnds

\* The rows that are added to those that are there.
LEMMA RowsAdded ==
  ASSUME NEW s, events[s] \in Seq(EventRow), NEW rows \in Seq(EventRow),
         NEW n \in 0 .. Len(rows)
  PROVE  /\ Written(s, rows, n) \in Seq(EventRow)
         /\ rows # <<>> => Written(s, rows, Len(rows)) # <<>>
         /\ events[s] = <<>> => Written(s, rows, Len(rows)) = rows
<1> DEFINE old == events[s]
<1>1. Len(old) \in Nat /\ Len(rows) \in Nat /\ DOMAIN rows = 1 .. Len(rows)
  OBVIOUS
<1>2. ASSUME NEW m \in 0 .. Len(rows)
      PROVE  /\ SubSeq(rows, Len(old) + 1, m) \in Seq(EventRow)
             /\ Len(SubSeq(rows, Len(old) + 1, m))
                  = IF Len(old) + 1 <= m THEN m - Len(old) ELSE 0
  <2>1. Len(old) + 1 \in 1 .. Len(rows) + 1 \/ Len(old) + 1 > m
    BY <1>1
  <2> HIDE DEF old
  <2>2. m \in Nat /\ Len(old) + 1 \in Nat /\ Len(old) + 1 >= 1
    BY <1>1
  <2>3. \A k \in Len(old) + 1 .. m : rows[k] \in EventRow
    BY <1>1, <2>2
  <2> QED
    BY <1>1, <2>2, <2>3, SubSeqProperties
<1>3. Written(s, rows, n) \in Seq(EventRow)
  BY <1>2 DEF Written
<1>4. ASSUME rows # <<>> PROVE Written(s, rows, Len(rows)) # <<>>
  <2> DEFINE more == SubSeq(rows, Len(old) + 1, Len(rows))
  <2>1. Len(rows) # 0 /\ Len(rows) \in 0 .. Len(rows)
    BY <1>1, <1>4
  <2>2. /\ more \in Seq(EventRow)
        /\ Len(more) = IF Len(old) + 1 <= Len(rows) THEN Len(rows) - Len(old) ELSE 0
    BY <1>2, <2>1
  <2> HIDE DEF more, old
  <2>3. Len(old \o more) = Len(old) + Len(more)
    <3>1. old \in Seq(EventRow) /\ more \in Seq(EventRow)
      BY <2>2 DEF old
    <3> QED
      BY <3>1, Zenon, ConcatProperties
  <2>4. Len(old) + Len(more) # 0
    <3>1. PICK a \in Nat, b \in Nat : a = Len(old) /\ b = Len(rows)
      BY <1>1
    <3>2. Len(more) = IF a + 1 <= b THEN b - a ELSE 0
      BY <2>2, <3>1
    <3>3. b # 0
      BY <2>1, <3>1
    <3> QED
      BY <3>1, <3>2, <3>3
  <2>5. Written(s, rows, Len(rows)) = old \o more
    BY DEF Written, more, old
  <2>6. Len(<<>>) = 0
    OBVIOUS
  <2> QED
    BY <2>3, <2>4, <2>5, <2>6
<1>5. ASSUME old = <<>> PROVE Written(s, rows, Len(rows)) = rows
  <2>1. Written(s, rows, Len(rows)) = <<>> \o SubSeq(rows, 1, Len(rows))
    BY <1>5 DEF Written
  <2>2. SubSeq(rows, 1, Len(rows)) = rows
    BY SubSeqFull
  <2>3. <<>> \o rows = rows
    OBVIOUS
  <2> QED
    BY <2>1, <2>2, <2>3
<1> QED
  BY <1>3, <1>4, <1>5

\* The row of a session is that of the first run that got to it.
LEMMA SessionStored ==
  ASSUME EvidenceInv, NEW s \in Session, run[s] # Nothing,
         StoreSession(s, SessionAggregate(run[s].segments))
  PROVE  /\ session' \in [Session -> SessionRow \cup {Nothing}]
         /\ \A t \in Session : t # s => session'[t] = session[t]
         /\ session'[s] # Nothing
         /\ session'[s].head <= head
<1> DEFINE aggregate == SessionAggregate(run[s].segments)
           row == [head |-> run[s].head, source |-> "recorded",
                   started |-> aggregate.started, ended |-> aggregate.ended]
<1>1. Shaped /\ RunSound(s) /\ RowsSound(s)
  BY DEF EvidenceInv, SessionSound
<1>2. /\ run[s] \in RunState
      /\ run[s].head <= head
      /\ Recoverable(run[s].segments)
      /\ S!Complete(S!Accepted(run[s].segments))
  BY <1>1 DEF RunSound
<1>3. run[s].head \in Nat
  BY <1>2 DEF RunState
<1>4. aggregate.started \in Nat /\ aggregate.ended \in Nat
  BY <1>2, RecoveredRows DEF Recoverable
<1>5. session' = [session EXCEPT ![s] = IF session[s] # Nothing THEN session[s] ELSE row]
  BY DEF StoreSession
<1> HIDE DEF aggregate
<1>6. row \in SessionRow /\ row.head = run[s].head
  BY <1>3, <1>4 DEF SessionRow
<1>7. row # Nothing
  BY <1>6, EvidenceAssumption
<1> HIDE DEF row
<1>8. session \in [Session -> SessionRow \cup {Nothing}]
  BY <1>1 DEF Shaped
<1>9. session'[s] = IF session[s] # Nothing THEN session[s] ELSE row
  BY <1>5, <1>8
<1>10. session' \in [Session -> SessionRow \cup {Nothing}]
  <2>1. (IF session[s] # Nothing THEN session[s] ELSE row) \in SessionRow \cup {Nothing}
    BY <1>6, <1>8
  <2> QED
    BY <1>5, <1>8, <2>1
<1>11. \A t \in Session : t # s => session'[t] = session[t]
  BY <1>5, <1>8
<1>12. session'[s] # Nothing /\ session'[s].head <= head
  <2>1. CASE session[s] # Nothing
    BY <1>1, <1>9, <2>1 DEF RowsSound
  <2>2. CASE session[s] = Nothing
    BY <1>2, <1>6, <1>7, <1>9, <2>2
  <2> QED
    BY <2>1, <2>2
<1> QED
  BY <1>10, <1>11, <1>12

\* All rows are written and the trajectory with them.
LEMMA StoreRowsKept ==
  ASSUME EvidenceInv, NEW s \in Session, StoreRows(s) PROVE EvidenceInv'
<1> USE DEF captureVars
<1> DEFINE segments == run[s].segments
           aggregate == SessionAggregate(segments)
           rows == Rows(segments)
           written == Written(s, rows, Len(rows))
           row == [head |-> run[s].head, source |-> "recorded",
                   intent |-> aggregate.intent, duration |-> aggregate.active,
                   length |-> Len(rows)]
<1>1. Counted /\ Shaped /\ \A t \in Session : SessionSound(t)
  BY DEF EvidenceInv
<1>2. /\ run[s] # Nothing
      /\ ~run[s].stored
      /\ StoreSession(s, aggregate)
      /\ events' = [events EXCEPT ![s] = written]
      /\ trajectory' = [trajectory EXCEPT ![s] = row]
      /\ run' = [run EXCEPT ![s].stored = TRUE]
      /\ UNCHANGED <<scenario, captureVars, spool, damages, deaths, metrics, annotation>>
  BY DEF StoreRows
<1>3. /\ run[s] \in RunState
      /\ run[s].head <= head
      /\ Recoverable(segments)
      /\ S!Complete(S!Accepted(segments))
      /\ run[s].stored = (trajectory[s] # Nothing)
  BY <1>1, <1>2 DEF SessionSound, RunSound
<1>4. trajectory[s] = Nothing
  <2>1. ~run[s].stored
    BY <1>2
  <2>2. run[s].stored = (trajectory[s] # Nothing)
    BY <1>3
  <2> QED
    BY <2>1, <2>2
<1>5. /\ rows \in Seq(EventRow)
      /\ rows # <<>>
      /\ aggregate.intent \in Texts
      /\ aggregate.active \in Nat
      /\ aggregate.active = Cardinality(Working(rows)) + OpenTime(rows)
  BY <1>3, RecoveredRows DEF Recoverable
<1>6. run[s].head \in Nat
  BY <1>3 DEF RunState
<1>7. /\ session' \in [Session -> SessionRow \cup {Nothing}]
      /\ \A t \in Session : t # s => session'[t] = session[t]
      /\ session'[s] # Nothing
      /\ session'[s].head <= head
  BY <1>2, SessionStored
<1> HIDE DEF aggregate, rows
<1>8. Len(rows) \in Nat
  BY <1>5
<1>9. row \in TrajectoryRow /\ row.head = run[s].head /\ row.duration = aggregate.active
  BY <1>5, <1>6, <1>8 DEF TrajectoryRow
<1>10. row # Nothing
  BY <1>9, EvidenceAssumption
<1> HIDE DEF row
<1>11. events[s] \in Seq(EventRow)
  BY <1>1 DEF Shaped
<1>12. /\ written \in Seq(EventRow)
       /\ written # <<>>
       /\ events[s] = <<>> => written = rows
  <2>1. Len(rows) \in 0 .. Len(rows)
    BY <1>8
  <2> QED
    BY <1>5, <1>11, <2>1, RowsAdded
<1> HIDE DEF written
<1> DEFINE entered == [run[s] EXCEPT !.stored = TRUE]
<1>13. run = [t \in Session |-> run[t]]
  BY <1>1 DEF Shaped
<1>14. run' = [run EXCEPT ![s] = entered]
  BY <1>2, <1>13
<1>15. /\ entered \in RunState
       /\ entered.head = run[s].head
       /\ entered.segments = segments
       /\ entered.stored = TRUE
  BY <1>3 DEF RunState
<1> HIDE DEF entered, segments
<1>16. /\ events \in [Session -> Seq(EventRow)]
       /\ trajectory \in [Session -> TrajectoryRow \cup {Nothing}]
  BY <1>1 DEF Shaped
<1>17. /\ events'[s] = written
       /\ trajectory'[s] = row
       /\ run'[s] = entered
       /\ \A t \in Session : t # s => /\ events'[t] = events[t]
                                      /\ trajectory'[t] = trajectory[t]
                                      /\ run'[t] = run[t]
  BY <1>2, <1>13, <1>14, <1>16
<1>18. Counted'
  BY <1>1, <1>2 DEF Counted
<1>19. Shaped'
  <2>1. events' \in [Session -> Seq(EventRow)]
    BY <1>2, <1>12, <1>16
  <2>2. trajectory' \in [Session -> TrajectoryRow \cup {Nothing}]
    BY <1>2, <1>9, <1>16
  <2>3. run' = [t \in Session |-> run'[t]]
    BY <1>13, <1>14
  <2> QED
    BY <1>1, <1>2, <1>7, <2>1, <2>2, <2>3 DEF Shaped
<1>20. head' = head /\ head' \in Nat /\ head <= head' /\ deaths' = deaths
  BY <1>1, <1>2 DEF Counted
<1>21. ASSUME NEW t \in Session, t # s PROVE SessionSound(t)'
  <2>1. /\ run'[t] = run[t]
        /\ session'[t] = session[t]
        /\ events'[t] = events[t]
        /\ trajectory'[t] = trajectory[t]
    BY <1>7, <1>17, <1>21
  <2> QED
    BY <1>1, <1>2, <1>20, <2>1, SessionKept
<1>22. SpoolSound(s)'
  BY <1>1, <1>2 DEF SessionSound, SpoolSound
<1>23. RunSound(s)'
  <2>1. entered.stored = (row # Nothing)
    BY <1>10, <1>15
  <2>2. trajectory'[s] = row /\ run'[s] = entered
    BY <1>17
  <2>3. run'[s].stored = (trajectory'[s] # Nothing)
    BY <2>1, <2>2
  <2>4. /\ run'[s] \in RunState
        /\ run'[s].head <= head'
        /\ Recoverable(run'[s].segments)
        /\ S!Complete(S!Accepted(run'[s].segments))
    BY <1>3, <1>15, <1>17, <1>20
  <2> QED
    BY <2>3, <2>4 DEF RunSound
<1>24. RowsSound(s)'
  <2>1. ASSUME deaths' = 0
        PROVE  trajectory'[s].duration
                 = Cardinality(Working(events'[s])) + OpenTime(events'[s])
    <3>1. events[s] = <<>>
      BY <1>1, <1>4, <1>20, <2>1 DEF SessionSound, RowsSound
    <3>2. events'[s] = rows
      BY <1>12, <1>17, <3>1
    <3> QED
      BY <1>5, <1>9, <1>17, <3>2
  <2>2. /\ session'[s] # Nothing
        /\ session'[s].head <= head'
        /\ events'[s] # <<>>
        /\ trajectory'[s] # Nothing
        /\ trajectory'[s].head <= head'
    BY <1>3, <1>7, <1>9, <1>10, <1>12, <1>17, <1>20
  <2> QED
    BY <2>1, <2>2 DEF RowsSound
<1>25. MetricsSound(s)'
  <2>1. metrics[s] = Nothing /\ annotation[s] = Nothing
    BY <1>1, <1>4 DEF SessionSound, MetricsSound
  <2>2. metrics'[s] = metrics[s] /\ annotation'[s] = annotation[s]
    BY <1>2
  <2> QED
    BY <2>1, <2>2 DEF MetricsSound
<1>26. SessionSound(s)'
  BY <1>22, <1>23, <1>24, <1>25 DEF SessionSound
<1> QED
  BY <1>18, <1>19, <1>21, <1>26 DEF EvidenceInv

\* Some rows are written, and the process dies.
LEMMA StoreRowsDiesKept ==
  ASSUME EvidenceInv, NEW s \in Session, NEW n, StoreRowsDies(s, n) PROVE EvidenceInv'
<1> USE DEF captureVars
<1> DEFINE segments == run[s].segments
           rows == Rows(segments)
           written == Written(s, rows, n)
<1>1. Counted /\ Shaped /\ \A t \in Session : SessionSound(t)
  BY DEF EvidenceInv
<1>2. /\ run[s] # Nothing
      /\ ~run[s].stored
      /\ n \in Len(events[s]) .. Len(rows)
      /\ StoreSession(s, SessionAggregate(segments))
      /\ events' = [events EXCEPT ![s] = written]
      /\ deaths' = deaths + 1
      /\ run' = [run EXCEPT ![s] = Nothing]
      /\ UNCHANGED <<scenario, captureVars, spool, damages, trajectory, metrics, annotation>>
  BY DEF StoreRowsDies
<1>3. /\ Recoverable(segments)
      /\ S!Complete(S!Accepted(segments))
      /\ run[s].stored = (trajectory[s] # Nothing)
  BY <1>1, <1>2 DEF SessionSound, RunSound
<1>4. trajectory[s] = Nothing
  <2>1. ~run[s].stored
    BY <1>2
  <2>2. run[s].stored = (trajectory[s] # Nothing)
    BY <1>3
  <2> QED
    BY <2>1, <2>2
<1>5. rows \in Seq(EventRow)
  BY <1>3, RecoveredRows DEF Recoverable
<1>6. /\ session' \in [Session -> SessionRow \cup {Nothing}]
      /\ \A t \in Session : t # s => session'[t] = session[t]
      /\ session'[s] # Nothing
      /\ session'[s].head <= head
  BY <1>2, SessionStored
<1> HIDE DEF segments, rows
<1>7. events \in [Session -> Seq(EventRow)] /\ run = [t \in Session |-> run[t]]
  BY <1>1 DEF Shaped
<1>8. written \in Seq(EventRow)
  <2>1. events[s] \in Seq(EventRow)
    BY <1>7
  <2>2. n \in 0 .. Len(rows)
    BY <1>2, <1>5, <2>1
  <2> QED
    BY <1>5, <2>1, <2>2, RowsAdded
<1> HIDE DEF written
<1>9. /\ run'[s] = Nothing
      /\ \A t \in Session : t # s => events'[t] = events[t] /\ run'[t] = run[t]
  BY <1>2, <1>7
<1>10. /\ head' = head /\ head' \in Nat /\ head <= head'
       /\ deaths' \in Nat /\ deaths' # 0
  BY <1>1, <1>2 DEF Counted
<1>11. Counted'
  BY <1>1, <1>2, <1>10 DEF Counted
<1>12. Shaped'
  <2>1. events' \in [Session -> Seq(EventRow)]
    BY <1>2, <1>7, <1>8
  <2>2. run' = [t \in Session |-> run'[t]]
    BY <1>2, <1>7
  <2> QED
    BY <1>1, <1>2, <1>6, <2>1, <2>2 DEF Shaped
<1>13. ASSUME NEW t \in Session, t # s PROVE SessionSound(t)'
  <2>1. /\ run'[t] = run[t]
        /\ session'[t] = session[t]
        /\ events'[t] = events[t]
    BY <1>6, <1>9, <1>13
  <2> QED
    BY <1>1, <1>2, <1>10, <2>1, SessionKept
<1>14. SpoolSound(s)' /\ RunSound(s)'
  BY <1>1, <1>2, <1>9 DEF SessionSound, SpoolSound, RunSound
<1>15. RowsSound(s)'
  BY <1>2, <1>4, <1>6, <1>10 DEF RowsSound
<1>16. MetricsSound(s)'
  <2>1. metrics[s] = Nothing /\ annotation[s] = Nothing
    BY <1>1, <1>4 DEF SessionSound, MetricsSound
  <2>2. metrics'[s] = metrics[s] /\ annotation'[s] = annotation[s]
    BY <1>2
  <2> QED
    BY <2>1, <2>2 DEF MetricsSound
<1>17. SessionSound(s)'
  BY <1>14, <1>15, <1>16 DEF SessionSound
<1> QED
  BY <1>11, <1>12, <1>13, <1>17 DEF EvidenceInv

-----------------------------------------------------------------------------
(***************************************************************************)
(* The whole corpus.                                                       *)
(***************************************************************************)
\* The inductive invariant of the corpus.
CorpusInv == EvidenceInv /\ ImportInv /\ captured \in Seq(Character)

\* Nothing is recorded, imported or typed at the start.
LEMMA CorpusStart == Init => CorpusInv
BY EvidenceStart, ImportInit DEF Init, CorpusInv

\* A step of the recorder leaves the importer and the text alone, and the
\* importer and the text leave the recorder alone.
LEMMA CorpusKept == CorpusInv /\ [Next]_vars => CorpusInv'
<1> SUFFICES ASSUME CorpusInv, [Next]_vars PROVE CorpusInv'
  OBVIOUS
<1>1. EvidenceInv /\ ImportInv /\ captured \in Seq(Character)
  BY DEF CorpusInv
<1>2. ASSUME UNCHANGED importVars PROVE ImportInv'
  BY <1>1, <1>2, ImportKept
<1>3. ASSUME UNCHANGED evidenceVars PROVE EvidenceInv'
  BY <1>1, <1>3, EvidenceStays
<1>4. ASSUME EvidenceInv', Recording PROVE CorpusInv'
  BY <1>1, <1>2, <1>4 DEF CorpusInv, Recording
<1>5. ASSUME ImportInv', Importing PROVE CorpusInv'
  BY <1>1, <1>3, <1>5 DEF CorpusInv, Importing
<1>6. ASSUME NEW s \in Session, NEW i \in InputIndex, NEW elapsed \in scenario.elapsed,
             Hook(s, i, elapsed), Recording
      PROVE  CorpusInv'
  BY <1>1, <1>4, <1>6, HookKept
<1>7. ASSUME Commit, Recording PROVE CorpusInv'
  BY <1>1, <1>4, <1>7, CommitKept
<1>8. ASSUME NEW s \in Session, NEW lost \in SUBSET spool[s], RecoverSession(s, lost),
             Recording
      PROVE  CorpusInv'
  BY <1>1, <1>4, <1>8, RecoverSessionKept
<1>9. ASSUME NEW s \in Session, StoreRows(s), Recording PROVE CorpusInv'
  BY <1>1, <1>4, <1>9, StoreRowsKept
<1>10. ASSUME NEW s \in Session, NEW n \in 0 .. scenario.hooks, StoreRowsDies(s, n), Recording
       PROVE  CorpusInv'
  BY <1>1, <1>4, <1>10, StoreRowsDiesKept
<1>11. ASSUME NEW s \in Session, StoreMetrics(s), Recording PROVE CorpusInv'
  BY <1>1, <1>4, <1>11, StoreMetricsKept
<1>12. ASSUME NEW s \in Session, RecoverDies(s), Recording PROVE CorpusInv'
  BY <1>1, <1>4, <1>12, RecoverDiesKept
<1>13. ASSUME NEW s \in Session, NEW status \in scenario.statuses, Annotate(s, status), Recording
       PROVE  CorpusInv'
  BY <1>1, <1>4, <1>13, AnnotateKept
<1>14. ASSUME Importing, NEW f \in Transcript, WriteHalf(f) PROVE CorpusInv'
  BY <1>1, <1>5, <1>14, ImportKept
<1>15. ASSUME Importing, NEW f \in Transcript, NEW r \in Records, WriteRest(f, r)
       PROVE  CorpusInv'
  BY <1>1, <1>5, <1>15, ImportKept
<1>16. ASSUME Importing, ScanBegin \/ Digest \/ ReadLine \/ ReadEnd \/ Unreadable
       PROVE  CorpusInv'
  BY <1>1, <1>5, <1>16, ImportKept
<1>17. ASSUME NEW c \in Character, Capture(c) PROVE CorpusInv'
  <2>1. captured' = Append(captured, c) /\ UNCHANGED evidenceVars /\ UNCHANGED importVars
    BY <1>17 DEF Capture
  <2>2. captured' \in Seq(Character)
    BY <1>1, <2>1
  <2> QED
    BY <1>2, <1>3, <2>1, <2>2 DEF CorpusInv
<1>18. ASSUME UNCHANGED vars PROVE CorpusInv'
  <2>1. UNCHANGED evidenceVars /\ UNCHANGED importVars /\ captured' = captured
    BY <1>18 DEF vars
  <2> QED
    BY <1>1, <1>2, <1>3, <2>1 DEF CorpusInv
<1> QED
  BY <1>6, <1>7, <1>8, <1>9, <1>10, <1>11, <1>12, <1>13, <1>14, <1>15, <1>16, <1>17,
     <1>18, Zenon DEF Next

\* The invariants of the recorder and of the import hold together in every
\* state, whatever is fired, committed, damaged, killed, written or read.
THEOREM CorpusInvariant == Spec => []CorpusInv
BY CorpusStart, CorpusKept, PTL DEF Spec

\* Sound sessions have the types of their rows.
LEMMA EvidenceTyped == EvidenceInv => EvidenceTypeOK
<1> SUFFICES ASSUME EvidenceInv PROVE EvidenceTypeOK
  OBVIOUS
<1>1. Counted /\ Shaped /\ \A s \in Session : SessionSound(s)
  BY DEF EvidenceInv
<1>2. ASSUME NEW s \in Session
      PROVE  /\ \A x \in spool[s] : x.at \in Nat /\ x.payload \in InputIndex
             /\ Range(events[s]) \subseteq EventRow
             /\ trajectory[s] # Nothing => session[s] # Nothing
             /\ metrics[s] # Nothing =>
                  trajectory[s] # Nothing /\ metrics[s].count <= Len(events[s])
             /\ annotation[s] # Nothing => trajectory[s] # Nothing
  <2>1. spool[s] \in SUBSET S!Segment /\ events[s] \in Seq(EventRow)
    BY <1>1 DEF Shaped
  <2>2. \A x \in spool[s] : x.at \in Nat /\ x.payload \in InputIndex
    BY <2>1 DEF S!Segment
  <2>3. Range(events[s]) \subseteq EventRow
    BY <2>1 DEF Range
  <2>4. trajectory[s] # Nothing => session[s] # Nothing
    BY <1>1 DEF SessionSound, RowsSound
  <2>5. metrics[s] # Nothing =>
          trajectory[s] # Nothing /\ metrics[s].count <= Len(events[s])
    <3>1. Len(events[s]) <= Len(events[s])
      BY <2>1
    <3> QED
      BY <1>1, <3>1 DEF SessionSound, MetricsSound
  <2>6. annotation[s] # Nothing => trajectory[s] # Nothing
    BY <1>1 DEF SessionSound, MetricsSound
  <2> QED
    BY <2>2, <2>3, <2>4, <2>5, <2>6
<1> QED
  BY <1>1, <1>2 DEF EvidenceTypeOK, Counted, Shaped

\* The metrics of sound sessions are those of the work.
LEMMA ActiveSound == EvidenceInv => ActiveIsWorkingTime
<1> SUFFICES ASSUME EvidenceInv, NEW s \in Session,
                    metrics[s] # Nothing, InTimeOrder(events[s])
             PROVE  /\ HasValue(metrics[s].active) =>
                         /\ metrics[s].active.value = Cardinality(Working(events[s]))
                         /\ metrics[s].active.value <= metrics[s].wall.value
                    /\ deaths = 0 => trajectory[s].duration
                                       = Cardinality(Working(events[s])) + OpenTime(events[s])
  BY Zenon DEF ActiveIsWorkingTime, OpenTime, OpenPrompts
<1> DEFINE rows == events[s]
<1>1. rows \in Seq(EventRow)
  BY DEF EvidenceInv, Shaped
<1>2. /\ trajectory[s] # Nothing
      /\ metrics[s].active = ActiveDuration(rows)
      /\ metrics[s].wall = WallDuration(rows)
  BY DEF EvidenceInv, SessionSound, MetricsSound
<1>3. rows # <<>>
  BY <1>2 DEF EvidenceInv, SessionSound, RowsSound
<1>4. deaths = 0 => trajectory[s].duration = Cardinality(Working(rows)) + OpenTime(rows)
  BY <1>2 DEF EvidenceInv, SessionSound, RowsSound
<1> HIDE DEF rows
<1>5. InTimeOrder(rows)
  BY DEF rows
<1>6. /\ Head(rows).at \in Nat
      /\ Last(rows).at \in Nat
      /\ Head(rows).at <= Last(rows).at
      /\ Cardinality(Working(rows)) <= Last(rows).at - Head(rows).at
  BY <1>1, <1>3, <1>5, WorkingIsWorked
<1>7. WallDuration(rows).value = Last(rows).at - Head(rows).at
  <2> DEFINE span == Last(rows).at - Head(rows).at
  <2>1. ~(span < 0)
    BY <1>6
  <2>2. WallDuration(rows) = IF span < 0 THEN Unknown("backwards_timestamp")
                             ELSE Exact(span, "stored_events")
    BY Zenon DEF WallDuration
  <2> HIDE DEF span
  <2>3. WallDuration(rows) = Exact(span, "stored_events")
    BY <2>1, <2>2
  <2>4. WallDuration(rows).value = span
    BY <2>3 DEF Exact
  <2> QED
    BY <2>4 DEF span
<1>8. HasValue(ActiveDuration(rows)) => ActiveDuration(rows).value = Cardinality(Working(rows))
  BY <1>1, <1>3, <1>5, MeasuredActive
<1> QED
  BY <1>2, <1>4, <1>6, <1>7, <1>8 DEF rows

\* Sound sessions are counted once by content, and the snapshot is refused only
\* if a commit came between.
LEMMA QualifyingSound == EvidenceInv => QualifyingDistinct
<1> SUFFICES ASSUME EvidenceInv PROVE QualifyingDistinct
  OBVIOUS
<1> DEFINE verdict == Verdict(db)
<1>1. Cardinality(verdict.qualifying) = Cardinality({ContentKey(db, s) : s \in Pending(db)})
  BY DistinctCounted
<1>2. Accounted(verdict)
  <2> HIDE DEF verdict
  <2>1. verdict = Verdict(db)
    BY DEF verdict
  <2> QED
    BY <2>1, EveryOneCounted
<1>3. ASSUME SnapshotRefused(db) PROVE head > 0
  <2>1. PICK s \in Session :
          /\ trajectory[s] # Nothing
          /\ metrics[s] # Nothing
          /\ \/ metrics[s].head # trajectory[s].head
             \/ metrics[s].head # session[s].head
    BY <1>3 DEF SnapshotRefused, Recorded, db
  <2>2. /\ session[s] # Nothing
        /\ session[s].head <= head
        /\ trajectory[s].head <= head
    BY <2>1 DEF EvidenceInv, SessionSound, RowsSound
  <2>3. metrics[s].head \in Nat /\ metrics[s].head <= head
    BY <2>1 DEF EvidenceInv, SessionSound, MetricsSound
  <2>4. session[s].head \in Nat
    BY <2>2 DEF EvidenceInv, Shaped, SessionRow
  <2>5. trajectory[s].head \in Nat
    BY <2>1 DEF EvidenceInv, Shaped, TrajectoryRow
  <2>6. head \in Nat
    BY DEF EvidenceInv, Counted
  <2> QED
    BY <2>1, <2>2, <2>3, <2>4, <2>5, <2>6
<1> QED
  BY <1>1, <1>2, <1>3, Zenon DEF QualifyingDistinct, Accounted

\* The state keeps its types: a row has a known kind and a time, metrics and
\* annotations are only of a stored trajectory.
THEOREM CorpusTypeCorrect == Spec => []TypeOK
<1>1. CorpusInv => TypeOK
  BY EvidenceTyped, ImportTyped DEF CorpusInv, TypeOK
<1> QED
  BY <1>1, CorpusInvariant, PTL

\* A captured field is within its cap, says when it is cut, and does not depend
\* on what a block that lies whole in the window says (Redactor::field, redaction.rs:259).
THEOREM FieldsRedacted == Spec => []RedactionSound
<1>1. CorpusInv => RedactionSound
  BY FieldSound DEF CorpusInv
<1> QED
  BY <1>1, CorpusInvariant, PTL

\* The active duration of rows in time order is the number of milliseconds of
\* work, and so is the duration of the trajectory with the turn still open.
THEOREM WorkMeasured == Spec => []ActiveIsWorkingTime
<1>1. CorpusInv => ActiveIsWorkingTime
  BY ActiveSound DEF CorpusInv
<1> QED
  BY <1>1, CorpusInvariant, PTL

\* A verdict counts each distinct content once and every other trajectory in one
\* exclusion; a snapshot is refused only after a commit.
THEOREM ContentsCountedOnce == Spec => []QualifyingDistinct
<1>1. CorpusInv => QualifyingDistinct
  BY QualifyingSound DEF CorpusInv
<1> QED
  BY <1>1, CorpusInvariant, PTL

\* An accepted transcript contradicts itself nowhere in what was read, which is
\* no shorter than what was digested, and is not also rejected.
THEOREM ImportsUnambiguous == Spec => []ImportUnambiguous
<1>1. CorpusInv => ImportUnambiguous
  BY AcceptedSound DEF CorpusInv
<1> QED
  BY <1>1, CorpusInvariant, PTL
=============================================================================
