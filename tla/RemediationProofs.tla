------------------------- MODULE RemediationProofs -------------------------
(***************************************************************************)
(* Proofs about Remediation, for every program, any number of request      *)
(* threads, handlers, failed commits and restarts.                         *)
(***************************************************************************)
EXTENDS Remediation, SequenceTheorems, TLAPS

N == Len(Program)
Done == {"applied", "verified", "still_present"}

(* The program's statements in order, below k inserted imports. *)
Aligned(src, k) ==
  /\ Len(src) = N + k /\ (k = 1 => src[1] = Import)
  /\ \A s \in Stmts : src[s + k].stmt = s
WellFormed(src) == \E k \in {0, 1} : Aligned(src, k)

(* A proposal that adds the import was made for a file without one, where   *)
(* a statement's line is its number.                                        *)
Sound(p) ==
  /\ p.fix => p.before.stmt \in Stmts
  /\ p.import => p.fix /\ p.line = p.before.stmt

FileInv ==
  /\ WellFormed(file) /\ WellFormed(model)
  /\ \A t \in Workers : /\ pc[t] \in {"write", "model"} => WellFormed(loc[t].src)
                        /\ Sound(loc[t].rec.proposal)
  /\ \A f \in Ids : Sound(rec[f].proposal) /\ Sound(recRow[f].proposal)

BasicInv == TypeOK /\ FileInv

(* A record that says the fix is done is right about src. *)
Told(r, src) == r.status \in Done => Fixed(src, r.proposal.before.stmt)

(* While handlers do not overlap: one is under way at most, the records and *)
(* the one about to be written are right, and so is the source about to be  *)
(* written, which keeps the fixes of the one it replaces.                   *)
SerialBody ==
  /\ \A t, u \in Workers : pc[t] # "idle" /\ pc[u] # "idle" => t = u
  /\ \A f \in Ids : Told(rec[f], file) /\ Told(recRow[f], file)
  /\ \A t \in Workers :
       /\ pc[t] \in {"recMem", "recRow"} => Told(loc[t].rec, file)
       /\ pc[t] = "scan" => Fixed(file, loc[t].rec.proposal.before.stmt)
       /\ pc[t] = "write" => /\ Fixed(loc[t].src, loc[t].rec.proposal.before.stmt)
                             /\ \A s \in Stmts : Fixed(file, s) => Fixed(loc[t].src, s)
SerialInv == ~ overlap => SerialBody

----------------------------------------------------------------------------
(* Source files and patches.                                                *)

LEMMA SizeIsNat == N \in Nat /\ Stmts = 1..N
BY RemediationConstants DEF N, Stmts

(* A statement has one line. *)
LEMMA OneLine ==
  ASSUME NEW src \in Seq(Line), NEW k \in {0, 1}, Aligned(src, k),
         NEW i \in DOMAIN src, src[i].stmt \in Stmts
  PROVE  i = src[i].stmt + k
<1>1. i \in 1..(N + k)
  BY SizeIsNat DEF Aligned
<1>2. CASE i > k
  <2>1. i - k \in Stmts /\ (i - k) + k = i
    BY <1>1, <1>2, SizeIsNat
  <2>2. src[(i - k) + k].stmt = i - k
    BY <2>1 DEF Aligned
  <2> QED BY <2>1, <2>2
<1>3. CASE ~ (i > k)
  <2>1. k = 1 /\ i = 1
    BY <1>1, <1>3, SizeIsNat
  <2>2. src[i].stmt = 0
    BY <2>1 DEF Aligned, Import
  <2> QED BY <2>2, SizeIsNat
<1> QED BY <1>1, <1>2, <1>3, SizeIsNat

LEMMA LinesAreInOrder ==
  ASSUME NEW src \in Seq(Line), WellFormed(src)
  PROVE  InOrder(src)
<1>0. PICK k \in {0, 1} : Aligned(src, k)
  BY DEF WellFormed
<1>1. \A s \in Stmts : s + k \in DOMAIN src /\ src[s + k].stmt = s
  BY <1>0, SizeIsNat DEF Aligned
<1>2. \A i \in DOMAIN src : src[i].stmt = 0 \/ src[i].stmt \in Stmts
  <2>1. \A i \in DOMAIN src : src[i] \in Line
    OBVIOUS
  <2> QED BY <2>1 DEF Line
<1>3. ASSUME NEW i \in DOMAIN src, NEW j \in DOMAIN src,
             i < j, 0 \notin {src[i].stmt, src[j].stmt}
      PROVE  src[i].stmt < src[j].stmt
  <2>1. src[i].stmt \in Stmts /\ src[j].stmt \in Stmts
    BY <1>2, <1>3
  <2>2. i = src[i].stmt + k /\ j = src[j].stmt + k
    BY <1>0, <2>1, OneLine
  <2> QED BY <1>3, <2>1, <2>2, SizeIsNat
<1> QED BY <1>1, <1>3 DEF InOrder

(* The text apply_proposal writes, line by line. *)
LEMMA PatchedLines ==
  ASSUME NEW src \in Seq(Line), NEW p \in Proposal, Applicable(p, src)
  PROVE  LET k == IF p.import THEN 1 ELSE 0
             z == Patched(p, src)
         IN /\ z \in Seq(Line) /\ Len(z) = Len(src) + k
            /\ k = 1 => z[1] = Import
            /\ \A i \in DOMAIN src :
                 z[i + k] = IF i = p.line THEN [stmt |-> p.before.stmt, fixed |-> TRUE]
                            ELSE src[i]
<1> DEFINE new == [p.before EXCEPT !.fixed = TRUE]
           patched == [src EXCEPT ![p.line] = new]
<1>1. PICK b \in Line : b = p.before
  BY DEF Proposal
<1>2. new = [stmt |-> p.before.stmt, fixed |-> TRUE] /\ new \in Line
  <2>1. [b EXCEPT !.fixed = TRUE] = [stmt |-> b.stmt, fixed |-> TRUE]
    <3> DEFINE e == [b EXCEPT !.fixed = TRUE]
    <3>1. e \in Line
      BY DEF Line
    <3>2. e.stmt = b.stmt /\ e.fixed = TRUE
      BY DEF Line
    <3> HIDE DEF e
    <3>3. e = [stmt |-> e.stmt, fixed |-> e.fixed]
      BY <3>1 DEF Line
    <3>4. e = [stmt |-> b.stmt, fixed |-> TRUE]
      BY <3>2, <3>3
    <3> QED BY <3>4 DEF e
  <2>2. [stmt |-> b.stmt, fixed |-> TRUE] \in Line
    BY DEF Line
  <2> QED BY <1>1, <2>1, <2>2
<1>3. patched \in Seq(Line) /\ Len(patched) = Len(src)
  <2> HIDE DEF new
  <2>1. p.line \in 1..Len(src)
    BY DEF Applicable
  <2> QED BY <1>2, <2>1, ExceptSeq
<1>4. \A i \in DOMAIN src : patched[i] = IF i = p.line THEN new ELSE src[i]
  OBVIOUS
<1>5. Import \in Line
  BY DEF Import, Line
<1>6. CASE ~ p.import
  <2>1. Patched(p, src) = patched
    BY <1>6 DEF Patched
  <2> HIDE DEF patched
  <2>2. \A i \in DOMAIN src : i + 0 = i
    OBVIOUS
  <2>3. Len(src) + 0 = Len(src)
    OBVIOUS
  <2>4. \A i \in DOMAIN src :
          patched[i + 0] = IF i = p.line THEN [stmt |-> p.before.stmt, fixed |-> TRUE]
                           ELSE src[i]
    BY <1>2, <1>4, <2>2
  <2> DEFINE k == IF p.import THEN 1 ELSE 0
             z == Patched(p, src)
  <2>5. k = 0
    BY <1>6
  <2> HIDE DEF new, k
  <2>6. z \in Seq(Line) /\ Len(z) = Len(src) + k
    BY <1>3, <2>1, <2>3, <2>5
  <2>7. k # 1
    BY <2>5
  <2>8. \A i \in DOMAIN src :
          z[i + k] = IF i = p.line THEN [stmt |-> p.before.stmt, fixed |-> TRUE]
                     ELSE src[i]
    BY <2>1, <2>4, <2>5
  <2> QED BY <2>6, <2>7, <2>8 DEF k
<1>7. CASE p.import
  <2>1. Patched(p, src) = <<Import>> \o patched
    BY <1>7 DEF Patched
  <2> HIDE DEF patched
  <2>2. DOMAIN src = 1..Len(src) /\ Len(src) \in Nat
    OBVIOUS
  <2>3. /\ <<Import>> \o patched \in Seq(Line)
        /\ Len(<<Import>> \o patched) = Len(src) + 1
        /\ (<<Import>> \o patched)[1] = Import
    BY <1>3, <1>5, <2>2
  <2>4. \A i \in DOMAIN src : (<<Import>> \o patched)[i + 1] = patched[i]
    BY <1>3, <1>5, <2>2
  <2> QED BY <1>2, <1>4, <1>7, <2>1, <2>3, <2>4
<1> QED BY <1>6, <1>7

(* A patch keeps every statement in its place, fixes the one it is for and  *)
(* undoes no other fix.                                                     *)
LEMMA PatchIsSound ==
  ASSUME NEW src \in Seq(Line), WellFormed(src),
         NEW p \in Proposal, Sound(p), Applicable(p, src)
  PROVE  /\ Patched(p, src) \in Seq(Line) /\ WellFormed(Patched(p, src))
         /\ Fixed(Patched(p, src), p.before.stmt)
         /\ \A s \in Stmts : Fixed(src, s) => Fixed(Patched(p, src), s)
<1>0. PICK z : z = Patched(p, src)
  OBVIOUS
<1>1. PICK k : k = IF p.import THEN 1 ELSE 0
  OBVIOUS
<1>2. /\ z \in Seq(Line) /\ Len(z) = Len(src) + k
      /\ k = 1 => z[1] = Import
      /\ \A i \in DOMAIN src :
           z[i + k] = IF i = p.line THEN [stmt |-> p.before.stmt, fixed |-> TRUE]
                      ELSE src[i]
  BY <1>0, <1>1, PatchedLines
<1>3. p.line \in DOMAIN src /\ src[p.line].stmt = p.before.stmt /\ p.before.stmt \in Stmts
  BY DEF Applicable, Sound
<1>4. PICK j \in {0, 1} : Aligned(src, j)
  BY DEF WellFormed
<1>5. p.line = p.before.stmt + j
  BY <1>3, <1>4, OneLine
<1>6. k = 1 => j = 0
  BY <1>1, <1>3, <1>5, SizeIsNat DEF Sound
<1>7. k \in {0, 1} /\ j + k \in {0, 1} /\ (j + k = 1 => j = 1 \/ k = 1)
  BY <1>1, <1>6
<1>8. \A i \in DOMAIN src : i + k \in DOMAIN z /\ z[i + k].stmt = src[i].stmt
  <2>1. \A i \in DOMAIN src : i + k \in DOMAIN z
    BY <1>2, <1>7
  <2>2. \A i \in DOMAIN src : z[i + k].stmt = src[i].stmt
    BY <1>2, <1>3
  <2> QED BY <2>1, <2>2
<1>9. Aligned(z, j + k)
  <2>1. Len(src) = N + j /\ \A s \in Stmts : s + j \in DOMAIN src /\ src[s + j].stmt = s
    BY <1>4, SizeIsNat DEF Aligned
  <2>2. Len(z) = N + (j + k)
    BY <1>2, <1>7, <2>1, SizeIsNat
  <2>3. ASSUME j + k = 1 PROVE z[1] = Import
    <3>1. CASE k = 1
      BY <1>2, <3>1
    <3>2. CASE k = 0 /\ j = 1
      <4>1. 1 \in DOMAIN src /\ src[1] = Import
        BY <1>4, <2>1, <3>2, SizeIsNat DEF Aligned
      <4>2. p.line # 1
        BY <1>3, <1>5, <3>2, SizeIsNat
      <4>3. z[1 + k] = src[1]
        BY <1>2, <4>1, <4>2
      <4>4. 1 + k = 1
        BY <3>2
      <4> QED BY <4>1, <4>3, <4>4
    <3> QED BY <1>7, <2>3, <3>1, <3>2
  <2>4. ASSUME NEW s \in Stmts PROVE z[s + (j + k)].stmt = s
    <3>1. (s + j) + k = s + (j + k)
      BY <1>7, SizeIsNat
    <3> QED BY <1>8, <2>1, <3>1
  <2> QED BY <2>2, <2>3, <2>4 DEF Aligned
<1>10. Fixed(z, p.before.stmt)
  <2>1. p.line + k \in DOMAIN z
        /\ z[p.line + k] = [stmt |-> p.before.stmt, fixed |-> TRUE]
    BY <1>2, <1>3, <1>8
  <2> QED BY <2>1 DEF Fixed
<1>11. ASSUME NEW s \in Stmts, Fixed(src, s) PROVE Fixed(z, s)
  <2>1. PICK i \in DOMAIN src : src[i] = [stmt |-> s, fixed |-> TRUE]
    BY <1>11 DEF Fixed
  <2>2. i + k \in DOMAIN z
    BY <1>8
  <2>3. CASE i = p.line
    <3>1. s = p.before.stmt
      BY <1>3, <2>1, <2>3
    <3> QED BY <1>10, <3>1
  <2>4. CASE i # p.line
    <3>1. z[i + k] = [stmt |-> s, fixed |-> TRUE]
      BY <1>2, <2>1, <2>4
    <3> QED BY <2>2, <3>1 DEF Fixed
  <2> QED BY <2>3, <2>4
<1> QED BY <1>0, <1>2, <1>7, <1>9, <1>10, <1>11 DEF WellFormed

(* A proposal built from a source is sound. *)
LEMMA BuiltProposalIsSound ==
  ASSUME NEW src \in Seq(Line), WellFormed(src), NEW f \in Ids, f.line \in DOMAIN src
  PROVE  BuildProposal(f, src) \in Proposal /\ Sound(BuildProposal(f, src))
<1>1. src[f.line] \in Line /\ f.line \in Nat
  BY RemediationConstants DEF Ids
<1>2. ASSUME Rewritable(f, src) PROVE src[f.line].stmt \in Stmts
  <2>1. f.kind \in {"cmd", "sql"}
    BY DEF Ids
  <2>2. src[f.line].stmt # 0
    BY <1>2, <2>1 DEF Rewritable, KindOf
  <2> QED BY <1>1, <2>2 DEF Line
<1>3. ASSUME \A i \in DOMAIN src : src[i] # Import, src[f.line].stmt \in Stmts
      PROVE  f.line = src[f.line].stmt
  <2>1. PICK k \in {0, 1} : Aligned(src, k)
    BY DEF WellFormed
  <2>2. k # 1
    <3>1. k = 1 => 1 \in DOMAIN src /\ src[1] = Import
      BY <2>1, SizeIsNat DEF Aligned
    <3> QED BY <1>3, <3>1
  <2>3. f.line = src[f.line].stmt + k
    BY <1>3, <2>1, OneLine
  <2> QED BY <1>3, <2>2, <2>3, SizeIsNat
<1>4. Rewritable(f, src) \in BOOLEAN
  BY DEF Rewritable
<1>5. SqlProposal(f, src) \in Proposal /\ Sound(SqlProposal(f, src))
  BY <1>1, <1>2, <1>4 DEF SqlProposal, Proposal, Sound
<1>6. CmdProposal(f, src) \in Proposal /\ Sound(CmdProposal(f, src))
  <2>1. CmdProposal(f, src) \in Proposal
    BY <1>1, <1>4 DEF CmdProposal, Proposal
  <2>2. /\ CmdProposal(f, src).fix <=> Rewritable(f, src)
        /\ CmdProposal(f, src).before = src[f.line]
        /\ CmdProposal(f, src).line = f.line
        /\ CmdProposal(f, src).import =>
             Rewritable(f, src) /\ \A i \in DOMAIN src : src[i] # Import
    BY DEF CmdProposal
  <2> QED BY <1>2, <1>3, <2>1, <2>2 DEF Sound
<1> QED BY <1>5, <1>6 DEF BuildProposal

(* An inserted import is not a fix. *)
LEMMA FixesAreOfStatements ==
  ASSUME NEW src \in Seq(Line), WellFormed(src), NEW s, Fixed(src, s)
  PROVE  s \in Stmts
<1>1. PICK k \in {0, 1} : Aligned(src, k)
  BY DEF WellFormed
<1>2. PICK i \in DOMAIN src : src[i] = [stmt |-> s, fixed |-> TRUE]
  BY DEF Fixed
<1>3. i \in 1..(N + k)
  BY <1>1, SizeIsNat DEF Aligned
<1>4. CASE i > k
  <2>1. i - k \in Stmts /\ (i - k) + k = i
    BY <1>3, <1>4, SizeIsNat
  <2>2. src[(i - k) + k].stmt = i - k
    BY <1>1, <2>1 DEF Aligned
  <2> QED BY <1>2, <2>1, <2>2
<1>5. CASE ~ (i > k)
  <2>1. k = 1 /\ i = 1
    BY <1>3, <1>5, SizeIsNat
  <2>2. src[i] = Import
    BY <1>1, <2>1 DEF Aligned
  <2> QED BY <1>2, <2>2 DEF Import
<1> QED BY <1>3, <1>4, <1>5, SizeIsNat

----------------------------------------------------------------------------
(* Threads.                                                                 *)

(* A thread's locals, and the same with another status. *)
LEMMA LocalsParts ==
  ASSUME NEW l \in Locals
  PROVE  /\ l.rec \in Record /\ l.rec.proposal \in Proposal
         /\ l.rec.status \in Statuses /\ l.src \in Seq(Line) /\ l.f \in Ids \cup {NoId}
<1>1. l.rec \in Record /\ l.src \in Seq(Line) /\ l.f \in Ids \cup {NoId}
  BY DEF Locals
<1> QED BY <1>1 DEF Record

LEMMA LocalsStatus ==
  ASSUME NEW l \in Locals, NEW st \in Statuses,
         NEW m, m = [l EXCEPT !.rec.status = st]
  PROVE  /\ m \in Locals /\ m.f = l.f /\ m.src = l.src
         /\ m.rec.status = st /\ m.rec.proposal = l.rec.proposal
<1>1. PICK q \in Record : q = l.rec
  BY LocalsParts
<1>2. PICK r : r = [q EXCEPT !.status = st]
  OBVIOUS
<1>3. r \in Record /\ r.status = st /\ r.proposal = q.proposal
  BY <1>2 DEF Record
<1>4. m = [l EXCEPT !.rec = r]
  BY <1>1, <1>2
<1>5. m \in Locals /\ m.f = l.f /\ m.src = l.src /\ m.rec = r
  BY <1>3, <1>4 DEF Locals
<1> QED BY <1>1, <1>3, <1>5

LEMMA IdleIsFit ==
  /\ IdleLocals \in Locals /\ NoRecord \in Record /\ Sound(NoProposal)
  /\ IdleLocals.rec = NoRecord /\ NoRecord.proposal = NoProposal
  /\ NoRecord.status = "none"
<1>1. Import \in Line
  BY DEF Import, Line
<1>2. NoProposal \in Proposal /\ Sound(NoProposal)
  BY <1>1 DEF NoProposal, Proposal, Sound
<1>3. NoRecord \in Record
  BY <1>2 DEF NoRecord, Record, Statuses
<1> QED BY <1>2, <1>3 DEF NoRecord, IdleLocals, Locals

(* A thread enters or moves through its handler. *)
Turn(t, s, l) ==
  /\ pc' \in [Workers -> Steps] /\ loc' \in [Workers -> Locals]
  /\ pc'[t] = s /\ loc'[t] = l
  /\ \A u \in Workers : u # t => pc'[u] = pc[u] /\ loc'[u] = loc[u]

LEMMA Turned ==
  ASSUME TypeOK, NEW t \in Workers, NEW s \in Steps, NEW l \in Locals,
         pc' = [pc EXCEPT ![t] = s], loc' = [loc EXCEPT ![t] = l]
  PROVE  Turn(t, s, l)
BY DEF TypeOK, Turn

LEMMA Started ==
  ASSUME TypeOK, NEW t \in Workers, NEW s \in Steps, NEW l \in Locals, Start(t, s, l)
  PROVE  /\ Turn(t, s, l) /\ pc[t] = "idle"
         /\ handlers' \in Nat /\ dbErrors' \in Nat /\ crashes' \in Nat
         /\ overlap' \in BOOLEAN
         /\ ~ overlap' => ~ overlap /\ \A u \in Workers : pc[u] = "idle"
<1>1. Turn(t, s, l)
  BY Turned DEF Start
<1>2. handlers' \in Nat /\ dbErrors' \in Nat /\ crashes' \in Nat
  BY DEF Start, TypeOK
<1>3. overlap' \in BOOLEAN /\ (~ overlap' => ~ overlap /\ \A u \in Workers : pc[u] = "idle")
  BY DEF Start, TypeOK
<1> QED BY <1>1, <1>2, <1>3 DEF Start

LEMMA Moved ==
  ASSUME TypeOK, NEW t \in Workers, NEW from, NEW s \in Steps, NEW l \in Locals,
         Goto(t, from, s, l)
  PROVE  /\ Turn(t, s, l) /\ pc[t] = from
         /\ handlers' \in Nat /\ dbErrors' \in Nat /\ crashes' \in Nat
         /\ overlap' \in BOOLEAN /\ overlap' = overlap
<1>1. Turn(t, s, l)
  BY Turned DEF Goto
<1> QED BY <1>1 DEF Goto, TypeOK, counters

LEMMA StepNames ==
  /\ {"idle", "source", "write", "scan", "recMem", "recRow", "model"} \subseteq Steps
  /\ {"proposed", "no_fix_available", "error"} \cup Done \subseteq Statuses
  /\ {"proposed", "no_fix_available", "error", "none"} \cap Done = {}
BY DEF Steps, Statuses, Done

(* The record of a proposal. *)
LEMMA ProposedRecord ==
  ASSUME TypeOK, FileInv, NEW f \in Ids, f.line \in DOMAIN file,
         NEW l, l = [f |-> f, src |-> <<>>,
                     rec |-> [status |-> IF BuildProposal(f, file).fix THEN "proposed"
                                         ELSE "no_fix_available",
                              proposal |-> BuildProposal(f, file)]]
  PROVE  l \in Locals /\ Sound(l.rec.proposal) /\ l.rec.status \notin Done
<1>1. PICK p : p = BuildProposal(f, file)
  OBVIOUS
<1>2. p \in Proposal /\ Sound(p)
  BY <1>1, BuiltProposalIsSound DEF FileInv, TypeOK
<1>3. PICK st : st = IF p.fix THEN "proposed" ELSE "no_fix_available"
  OBVIOUS
<1>4. st \in Statuses /\ st \notin Done
  BY <1>3 DEF Statuses, Done
<1>5. l = [f |-> f, src |-> <<>>, rec |-> [status |-> st, proposal |-> p]]
  BY <1>1, <1>3
<1>6. [status |-> st, proposal |-> p] \in Record
  BY <1>2, <1>4 DEF Record
<1>7. l \in Locals
  BY <1>5, <1>6 DEF Locals
<1> QED BY <1>2, <1>4, <1>5, <1>7

(* The locals of a handler that takes up a stored record. *)
LEMMA TakenUpRecord ==
  ASSUME TypeOK, NEW f \in Ids, NEW l, l = [f |-> f, rec |-> rec[f], src |-> <<>>]
  PROVE  l \in Locals /\ l.rec = rec[f] /\ l.f = f
<1>1. rec[f] \in Record
  BY DEF TypeOK
<1> QED BY <1>1 DEF Locals

----------------------------------------------------------------------------
(* Types and source files.                                                  *)

LEMMA FileTurn ==
  ASSUME FileInv, NEW t \in Workers, NEW s, NEW l, Turn(t, s, l),
         WellFormed(file'), WellFormed(model'),
         s \in {"write", "model"} => WellFormed(l.src), Sound(l.rec.proposal),
         \A f \in Ids : Sound(rec'[f].proposal) /\ Sound(recRow'[f].proposal)
  PROVE  FileInv'
<1>1. ASSUME NEW u \in Workers
      PROVE  /\ pc'[u] \in {"write", "model"} => WellFormed(loc'[u].src)
             /\ Sound(loc'[u].rec.proposal)
  <2>1. CASE u = t
    BY <2>1 DEF Turn
  <2>2. CASE u # t
    <3>1. pc'[u] = pc[u] /\ loc'[u] = loc[u]
      BY <2>2 DEF Turn
    <3> QED BY <3>1 DEF FileInv
  <2> QED BY <2>1, <2>2
<1> QED BY <1>1 DEF FileInv

LEMMA BasicInit == Init => BasicInv
<1> SUFFICES ASSUME Init PROVE BasicInv
  OBVIOUS
<1>1. Original \in Seq(Line) /\ Len(Original) = N
      /\ \A s \in Stmts : Original[s] = [stmt |-> s, fixed |-> FALSE]
  <2>1. \A s \in Stmts : [stmt |-> s, fixed |-> FALSE] \in Line
    BY DEF Line
  <2>2. Original \in [1..N -> Line]
    BY <2>1, SizeIsNat DEF Original
  <2> QED BY <2>2, SizeIsNat DEF Original
<1>2. WellFormed(Original)
  <2>1. \A s \in Stmts : s + 0 = s
    BY SizeIsNat
  <2>2. Aligned(Original, 0)
    BY <1>1, <2>1, SizeIsNat DEF Aligned
  <2> QED BY <2>2 DEF WellFormed
<1>3. TypeOK
  <2>1. rec \in [Ids -> Record] /\ recRow \in [Ids -> Record]
    BY IdleIsFit DEF Init
  <2>2. pc \in [Workers -> Steps] /\ loc \in [Workers -> Locals]
    BY IdleIsFit, StepNames DEF Init
  <2>3. meant \in [Ids -> SUBSET Stmts]
    BY DEF Init
  <2> QED BY <1>1, <2>1, <2>2, <2>3 DEF Init, TypeOK
<1>4. FileInv
  BY <1>2, IdleIsFit DEF Init, FileInv
<1> QED BY <1>3, <1>4 DEF BasicInv

LEMMA ProposeBasic ==
  ASSUME BasicInv, NEW t \in Workers, NEW f \in Ids, Propose(t, f)
  PROVE  BasicInv'
<1>1. PICK l : l = [f |-> f, src |-> <<>>,
                    rec |-> [status |-> IF BuildProposal(f, file).fix THEN "proposed"
                                        ELSE "no_fix_available",
                             proposal |-> BuildProposal(f, file)]]
  OBVIOUS
<1>2. l \in Locals /\ Sound(l.rec.proposal)
  BY <1>1, ProposedRecord DEF BasicInv, Propose
<1>3. Start(t, "recMem", l)
  BY <1>1 DEF Propose
<1>4. /\ Turn(t, "recMem", l) /\ handlers' \in Nat /\ dbErrors' \in Nat
      /\ crashes' \in Nat /\ overlap' \in BOOLEAN
  BY <1>2, <1>3, StepNames, Started DEF BasicInv
<1>5. UNCHANGED <<file, model, known, meant, approved, rec, recRow>>
  BY DEF Propose, files, findings, records
<1>6. TypeOK'
  BY <1>4, <1>5 DEF TypeOK, BasicInv, Turn
<1>7. FileInv'
  <2>1. WellFormed(file') /\ WellFormed(model')
    BY <1>5 DEF FileInv, BasicInv
  <2>2. \A g \in Ids : Sound(rec'[g].proposal) /\ Sound(recRow'[g].proposal)
    BY <1>5 DEF FileInv, BasicInv
  <2> QED BY <1>2, <1>4, <2>1, <2>2, FileTurn DEF BasicInv
<1> QED BY <1>6, <1>7 DEF BasicInv

(* The handlers that take up a stored record: apply and verify. *)
LEMMA TakeUpBasic ==
  ASSUME BasicInv, NEW t \in Workers, NEW f \in Ids, NEW s \in {"source", "scan"},
         Start(t, s, [f |-> f, rec |-> rec[f], src |-> <<>>]),
         UNCHANGED <<files, findings, records>>
  PROVE  BasicInv'
<1>1. PICK l : l = [f |-> f, rec |-> rec[f], src |-> <<>>]
  OBVIOUS
<1>2. l \in Locals /\ Sound(l.rec.proposal)
  BY <1>1, TakenUpRecord DEF BasicInv, FileInv
<1>3. Start(t, s, l)
  BY <1>1
<1>4. /\ Turn(t, s, l) /\ handlers' \in Nat /\ dbErrors' \in Nat
      /\ crashes' \in Nat /\ overlap' \in BOOLEAN
  BY <1>2, <1>3, StepNames, Started DEF BasicInv
<1>5. UNCHANGED <<file, model, known, meant, approved, rec, recRow>>
  BY DEF files, findings, records
<1>6. TypeOK'
  BY <1>4, <1>5 DEF TypeOK, BasicInv, Turn
<1>7. FileInv'
  <2>1. WellFormed(file') /\ WellFormed(model')
    BY <1>5 DEF FileInv, BasicInv
  <2>2. \A g \in Ids : Sound(rec'[g].proposal) /\ Sound(recRow'[g].proposal)
    BY <1>5 DEF FileInv, BasicInv
  <2> QED BY <1>2, <1>4, <2>1, <2>2, FileTurn DEF BasicInv
<1> QED BY <1>6, <1>7 DEF BasicInv

LEMMA ReprepareBasic ==
  ASSUME BasicInv, NEW t \in Workers, Reprepare(t)
  PROVE  BasicInv'
<1>1. PICK src : src = file
  OBVIOUS
<1>2. src \in Seq(Line) /\ WellFormed(src)
  BY <1>1 DEF BasicInv, TypeOK, FileInv
<1>3. PICK l : l = [IdleLocals EXCEPT !.src = src]
  OBVIOUS
<1>4. l \in Locals /\ l.rec = NoRecord /\ l.src = src
  BY <1>2, <1>3, IdleIsFit DEF Locals
<1>5. Start(t, "model", l)
  BY <1>1, <1>3 DEF Reprepare
<1>6. /\ Turn(t, "model", l) /\ handlers' \in Nat /\ dbErrors' \in Nat
      /\ crashes' \in Nat /\ overlap' \in BOOLEAN
  BY <1>4, <1>5, StepNames, Started DEF BasicInv
<1>7. UNCHANGED <<file, model, known, meant, approved, rec, recRow>>
  BY DEF Reprepare, files, findings, records
<1>8. TypeOK'
  BY <1>6, <1>7 DEF TypeOK, BasicInv, Turn
<1>9. FileInv'
  <2>1. WellFormed(file') /\ WellFormed(model') /\ Sound(l.rec.proposal)
    BY <1>4, <1>7, IdleIsFit DEF FileInv, BasicInv
  <2>2. \A g \in Ids : Sound(rec'[g].proposal) /\ Sound(recRow'[g].proposal)
    BY <1>7 DEF FileInv, BasicInv
  <2> QED BY <1>2, <1>4, <1>6, <2>1, <2>2, FileTurn DEF BasicInv
<1> QED BY <1>8, <1>9 DEF BasicInv

(* A thread moves on and leaves files and records alone. *)
LEMMA MoveBasic ==
  ASSUME BasicInv, NEW t \in Workers, NEW from, NEW s \in Steps, NEW l \in Locals,
         Goto(t, from, s, l), UNCHANGED <<files, findings, records>>,
         Sound(l.rec.proposal), s \in {"write", "model"} => WellFormed(l.src)
  PROVE  BasicInv'
<1>1. /\ Turn(t, s, l) /\ handlers' \in Nat /\ dbErrors' \in Nat
      /\ crashes' \in Nat /\ overlap' \in BOOLEAN
  BY Moved DEF BasicInv
<1>2. UNCHANGED <<file, model, known, meant, approved, rec, recRow>>
  BY DEF files, findings, records
<1>3. TypeOK'
  BY <1>1, <1>2 DEF TypeOK, BasicInv, Turn
<1>4. FileInv'
  <2>1. WellFormed(file') /\ WellFormed(model')
    BY <1>2 DEF FileInv, BasicInv
  <2>2. \A g \in Ids : Sound(rec'[g].proposal) /\ Sound(recRow'[g].proposal)
    BY <1>2 DEF FileInv, BasicInv
  <2> QED BY <1>1, <2>1, <2>2, FileTurn DEF BasicInv
<1> QED BY <1>3, <1>4 DEF BasicInv

(* What apply is about to write. *)
LEMMA ApplyPatchOutcome ==
  ASSUME BasicInv, NEW t \in Workers, ApplyPatch(t)
  PROVE  /\ UNCHANGED <<files, findings, records>>
         /\ \/ \E l \in Locals :
                 /\ Goto(t, "source", "write", l)
                 /\ l.f = loc[t].f /\ l.rec = loc[t].rec
                 /\ Applicable(l.rec.proposal, file)
                 /\ l.src = Patched(l.rec.proposal, file)
                 /\ Sound(l.rec.proposal) /\ WellFormed(l.src)
                 /\ Fixed(l.src, l.rec.proposal.before.stmt)
                 /\ \A s \in Stmts : Fixed(file, s) => Fixed(l.src, s)
            \/ \E l \in Locals :
                 /\ Goto(t, "source", "recMem", l)
                 /\ l.f = loc[t].f /\ l.rec.proposal = loc[t].rec.proposal
                 /\ Sound(l.rec.proposal) /\ l.rec.status = "error"
<1>0. PICK q \in Locals : q = loc[t]
  BY DEF BasicInv, TypeOK
<1>1. PICK p : p = q.rec.proposal
  OBVIOUS
<1>2. p \in Proposal /\ Sound(p)
  BY <1>0, <1>1, LocalsParts DEF BasicInv, FileInv
<1>3. file \in Seq(Line) /\ WellFormed(file)
  BY DEF BasicInv, TypeOK, FileInv
<1>4. CASE /\ Applicable(p, file)
           /\ Goto(t, "source", "write", [loc[t] EXCEPT !.src = Patched(p, file)])
  <2>1. PICK z : z = Patched(p, file)
    OBVIOUS
  <2>2. /\ z \in Seq(Line) /\ WellFormed(z) /\ Fixed(z, p.before.stmt)
        /\ \A s \in Stmts : Fixed(file, s) => Fixed(z, s)
    BY <1>2, <1>3, <1>4, <2>1, PatchIsSound
  <2>3. PICK l : l = [q EXCEPT !.src = z]
    OBVIOUS
  <2>4. l \in Locals /\ l.rec = q.rec /\ l.src = z /\ l.f = q.f
    BY <2>2, <2>3 DEF Locals
  <2>5. Goto(t, "source", "write", l)
    BY <1>0, <1>4, <2>1, <2>3
  <2> QED BY <1>0, <1>1, <1>2, <1>4, <2>1, <2>2, <2>4, <2>5 DEF ApplyPatch
<1>5. CASE Goto(t, "source", "recMem", [loc[t] EXCEPT !.rec.status = "error"])
  <2>1. PICK l : l = [q EXCEPT !.rec.status = "error"]
    OBVIOUS
  <2>2. l \in Locals /\ l.rec.status = "error" /\ l.rec.proposal = p /\ l.f = q.f
    BY <1>1, <2>1, StepNames, LocalsStatus
  <2>3. Goto(t, "source", "recMem", l)
    BY <1>0, <1>5, <2>1
  <2> QED BY <1>0, <1>1, <1>2, <2>2, <2>3 DEF ApplyPatch
<1> QED BY <1>0, <1>1, <1>4, <1>5 DEF ApplyPatch

LEMMA ApplyPatchBasic ==
  ASSUME BasicInv, NEW t \in Workers, ApplyPatch(t)
  PROVE  BasicInv'
<1>1. UNCHANGED <<files, findings, records>>
  BY ApplyPatchOutcome
<1>2. CASE \E l \in Locals : /\ Goto(t, "source", "write", l)
                             /\ Sound(l.rec.proposal) /\ WellFormed(l.src)
  <2>1. PICK l \in Locals : /\ Goto(t, "source", "write", l)
                            /\ Sound(l.rec.proposal) /\ WellFormed(l.src)
    BY <1>2
  <2> QED BY <1>1, <2>1, StepNames, MoveBasic
<1>3. CASE \E l \in Locals : Goto(t, "source", "recMem", l) /\ Sound(l.rec.proposal)
  <2>1. PICK l \in Locals : Goto(t, "source", "recMem", l) /\ Sound(l.rec.proposal)
    BY <1>3
  <2> QED BY <1>1, <2>1, StepNames, MoveBasic
<1> QED BY <1>2, <1>3, ApplyPatchOutcome

LEMMA VerifyScanOutcome ==
  ASSUME BasicInv, NEW t \in Workers, VerifyScan(t)
  PROVE  /\ UNCHANGED <<files, findings, records>>
         /\ \E l \in Locals : /\ Goto(t, "scan", "recMem", l)
                              /\ l.f = loc[t].f /\ l.rec.status \in Done
                              /\ Sound(l.rec.proposal)
                              /\ l.rec.proposal = loc[t].rec.proposal
<1>0. PICK q \in Locals : q = loc[t]
  BY DEF BasicInv, TypeOK
<1>1. PICK st : st = IF loc[t].f \in Scan(model) THEN "still_present" ELSE "verified"
  OBVIOUS
<1>2. st \in Statuses /\ st \in Done
  BY <1>1 DEF Statuses, Done
<1>3. PICK l : l = [q EXCEPT !.rec.status = st]
  OBVIOUS
<1>4. /\ l \in Locals /\ l.rec.proposal = q.rec.proposal
      /\ l.f = q.f /\ l.rec.status = st
  <2>0. st \in Statuses
    BY <1>2
  <2>1. l \in Locals /\ l.rec.proposal = q.rec.proposal
    BY <1>3, <2>0, LocalsStatus
  <2>2. l.f = q.f
    BY <1>3, <2>0, LocalsStatus
  <2>3. l.rec.status = st
    BY <1>3, <2>0, LocalsStatus
  <2> QED BY <2>1, <2>2, <2>3
<1>5. Goto(t, "scan", "recMem", l)
  BY <1>0, <1>1, <1>3 DEF VerifyScan
<1>6. Sound(q.rec.proposal)
  BY <1>0 DEF BasicInv, FileInv
<1> QED BY <1>0, <1>2, <1>4, <1>5, <1>6 DEF VerifyScan

LEMMA VerifyScanBasic ==
  ASSUME BasicInv, NEW t \in Workers, VerifyScan(t)
  PROVE  BasicInv'
<1>1. PICK l \in Locals : Goto(t, "scan", "recMem", l) /\ Sound(l.rec.proposal)
  BY VerifyScanOutcome
<1> QED BY <1>1, StepNames, MoveBasic, VerifyScanOutcome

LEMMA ApplyWriteOutcome ==
  ASSUME BasicInv, NEW t \in Workers, ApplyWrite(t)
  PROVE  \E l \in Locals : /\ Goto(t, "write", "recMem", l)
                           /\ l.f = loc[t].f /\ l.rec.status = "applied"
                           /\ Sound(l.rec.proposal)
                           /\ l.rec.proposal = loc[t].rec.proposal
<1>0. PICK q \in Locals : q = loc[t]
  BY DEF BasicInv, TypeOK
<1>1. PICK l : l = [q EXCEPT !.rec.status = "applied", !.src = <<>>]
  OBVIOUS
<1>2. <<>> \in Seq(Line) /\ "applied" \in Statuses
  BY DEF Statuses
<1>3. /\ l \in Locals /\ l.rec.proposal = q.rec.proposal
      /\ l.f = q.f /\ l.rec.status = "applied"
  <2>1. PICK c \in Record : c = q.rec
    BY LocalsParts
  <2>2. PICK r : r = [c EXCEPT !.status = "applied"]
    OBVIOUS
  <2>3. r \in Record /\ r.proposal = c.proposal /\ r.status = "applied"
    BY <1>2, <2>2 DEF Record
  <2>4. l = [q EXCEPT !.rec = r, !.src = <<>>]
    BY <1>1, <2>1, <2>2 DEF Locals
  <2>5. l \in Locals /\ l.rec = r /\ l.f = q.f
    BY <1>2, <2>3, <2>4 DEF Locals
  <2> QED BY <2>1, <2>3, <2>5
<1>4. Goto(t, "write", "recMem", l)
  BY <1>0, <1>1 DEF ApplyWrite
<1>5. Sound(q.rec.proposal)
  BY <1>0 DEF BasicInv, FileInv
<1> QED BY <1>0, <1>3, <1>4, <1>5

LEMMA ApplyWriteBasic ==
  ASSUME BasicInv, NEW t \in Workers, ApplyWrite(t)
  PROVE  BasicInv'
<1>0. PICK l \in Locals : Goto(t, "write", "recMem", l) /\ Sound(l.rec.proposal)
  BY ApplyWriteOutcome
<1>1. /\ Turn(t, "recMem", l) /\ pc[t] = "write" /\ handlers' \in Nat /\ dbErrors' \in Nat
      /\ crashes' \in Nat /\ overlap' \in BOOLEAN
  BY <1>0, StepNames, Moved DEF BasicInv
<1>2. UNCHANGED <<model, known, meant, approved, rec, recRow>>
  BY DEF ApplyWrite, findings, records
<1>3. file' \in Seq(Line) /\ WellFormed(file')
  <2>1. PICK q \in Locals : q = loc[t]
    BY DEF BasicInv, TypeOK
  <2>2. q.src \in Seq(Line) /\ WellFormed(q.src)
    BY <1>1, <2>1 DEF BasicInv, FileInv, Locals
  <2> QED BY <2>1, <2>2 DEF ApplyWrite
<1>4. TypeOK'
  BY <1>1, <1>2, <1>3 DEF TypeOK, BasicInv, Turn
<1>5. FileInv'
  <2>1. WellFormed(model')
    BY <1>2 DEF FileInv, BasicInv
  <2>2. \A g \in Ids : Sound(rec'[g].proposal) /\ Sound(recRow'[g].proposal)
    BY <1>2 DEF FileInv, BasicInv
  <2> QED BY <1>0, <1>1, <1>3, <2>1, <2>2, FileTurn DEF BasicInv
<1> QED BY <1>4, <1>5 DEF BasicInv

(* RecMem and RecRow write under the finding the thread works on; NoId has  *)
(* no record, and writing under it changes nothing.                         *)
LEMMA RecMemBasic ==
  ASSUME BasicInv, NEW t \in Workers, RecMem(t)
  PROVE  BasicInv'
<1>0. PICK l \in Locals : l = loc[t]
  BY DEF BasicInv, TypeOK
<1>1. /\ Turn(t, "recRow", l) /\ handlers' \in Nat /\ dbErrors' \in Nat
      /\ crashes' \in Nat /\ overlap' \in BOOLEAN
  <2>1. Goto(t, "recMem", "recRow", l)
    BY <1>0 DEF RecMem
  <2> QED BY <2>1, StepNames, Moved DEF BasicInv
<1>2. UNCHANGED <<file, model, known, meant, approved, recRow>>
  BY DEF RecMem, files, findings
<1>3. l.rec \in Record /\ Sound(l.rec.proposal)
  BY <1>0, LocalsParts DEF BasicInv, FileInv
<1>4. rec' = [rec EXCEPT ![l.f] = l.rec] /\ rec \in [Ids -> Record]
  BY <1>0 DEF RecMem, BasicInv, TypeOK
<1>5. rec' \in [Ids -> Record]
  BY <1>3, <1>4
<1>6. TypeOK'
  BY <1>1, <1>2, <1>5 DEF TypeOK, BasicInv, Turn
<1>7. FileInv'
  <2>1. WellFormed(file') /\ WellFormed(model')
    BY <1>2 DEF FileInv, BasicInv
  <2>2. \A g \in Ids : rec'[g] \in {rec[g], l.rec}
    BY <1>4
  <2>3. \A g \in Ids : Sound(rec'[g].proposal) /\ Sound(recRow'[g].proposal)
    BY <1>2, <1>3, <2>2 DEF FileInv, BasicInv
  <2> QED BY <1>1, <1>3, <2>1, <2>3, FileTurn DEF BasicInv
<1> QED BY <1>6, <1>7 DEF BasicInv

LEMMA RecRowBasic ==
  ASSUME BasicInv, NEW t \in Workers, RecRow(t)
  PROVE  BasicInv'
<1>0. PICK l \in Locals : l = loc[t]
  BY DEF BasicInv, TypeOK
<1>1. /\ Turn(t, "idle", IdleLocals) /\ handlers' \in Nat /\ dbErrors' \in Nat
      /\ crashes' \in Nat /\ overlap' \in BOOLEAN
  <2>1. Goto(t, "recRow", "idle", IdleLocals)
    BY DEF RecRow
  <2> QED BY <2>1, StepNames, Moved, IdleIsFit DEF BasicInv
<1>2. UNCHANGED <<file, model, known, meant, approved, rec>>
  BY DEF RecRow, files, findings
<1>3. l.rec \in Record /\ Sound(l.rec.proposal)
  BY <1>0, LocalsParts DEF BasicInv, FileInv
<1>4. recRow' = [recRow EXCEPT ![l.f] = l.rec] /\ recRow \in [Ids -> Record]
  BY <1>0 DEF RecRow, BasicInv, TypeOK
<1>5. recRow' \in [Ids -> Record]
  BY <1>3, <1>4
<1>6. TypeOK'
  BY <1>1, <1>2, <1>5 DEF TypeOK, BasicInv, Turn
<1>7. FileInv'
  <2>1. WellFormed(file') /\ WellFormed(model')
    BY <1>2 DEF FileInv, BasicInv
  <2>2. \A g \in Ids : recRow'[g] \in {recRow[g], l.rec}
    BY <1>4
  <2>3. \A g \in Ids : Sound(rec'[g].proposal) /\ Sound(recRow'[g].proposal)
    BY <1>2, <1>3, <2>2 DEF FileInv, BasicInv
  <2> QED BY <1>1, <2>1, <2>3, IdleIsFit, FileTurn DEF BasicInv
<1> QED BY <1>6, <1>7 DEF BasicInv

LEMMA WriteModelBasic ==
  ASSUME BasicInv, NEW t \in Workers, WriteModel(t)
  PROVE  BasicInv'
<1>0. PICK l \in Locals : l = loc[t]
  BY DEF BasicInv, TypeOK
<1>1. /\ Turn(t, "idle", IdleLocals) /\ pc[t] = "model"
      /\ handlers' \in Nat /\ dbErrors' \in Nat
      /\ crashes' \in Nat /\ overlap' \in BOOLEAN
  <2>1. Goto(t, "model", "idle", IdleLocals)
    BY DEF WriteModel
  <2> QED BY <2>1, StepNames, Moved, IdleIsFit DEF BasicInv
<1>2. UNCHANGED <<file, known, meant, approved, rec, recRow>>
  BY DEF WriteModel, findings, records
<1>3. l.src \in Seq(Line) /\ WellFormed(l.src)
  BY <1>0, <1>1, LocalsParts DEF BasicInv, FileInv
<1>4. model' \in Seq(Line) /\ WellFormed(model')
  BY <1>0, <1>3 DEF WriteModel
<1>5. TypeOK'
  BY <1>1, <1>2, <1>4 DEF TypeOK, BasicInv, Turn
<1>6. FileInv'
  <2>1. WellFormed(file')
    BY <1>2 DEF FileInv, BasicInv
  <2>2. \A g \in Ids : Sound(rec'[g].proposal) /\ Sound(recRow'[g].proposal)
    BY <1>2 DEF FileInv, BasicInv
  <2> QED BY <1>1, <1>4, <2>1, <2>2, IdleIsFit, FileTurn DEF BasicInv
<1> QED BY <1>5, <1>6 DEF BasicInv

LEMMA DbErrorBasic ==
  ASSUME BasicInv, NEW t \in Workers, DbError(t)
  PROVE  BasicInv'
<1>1. Turn(t, "idle", IdleLocals)
  BY StepNames, Turned, IdleIsFit DEF BasicInv, DbError
<1>2. /\ UNCHANGED <<file, model, known, meant, approved, rec, recRow>>
      /\ handlers' \in Nat /\ dbErrors' \in Nat /\ crashes' \in Nat /\ overlap' \in BOOLEAN
  BY DEF DbError, files, findings, records, BasicInv, TypeOK
<1>3. TypeOK'
  BY <1>1, <1>2 DEF TypeOK, BasicInv, Turn
<1>4. FileInv'
  <2>1. WellFormed(file') /\ WellFormed(model')
    BY <1>2 DEF FileInv, BasicInv
  <2>2. \A g \in Ids : Sound(rec'[g].proposal) /\ Sound(recRow'[g].proposal)
    BY <1>2 DEF FileInv, BasicInv
  <2> QED BY <1>1, <2>1, <2>2, IdleIsFit, FileTurn DEF BasicInv
<1> QED BY <1>3, <1>4 DEF BasicInv

LEMMA RestartBasic ==
  ASSUME BasicInv, Restart
  PROVE  BasicInv'
<1>1. /\ UNCHANGED <<file, model, known, meant, approved, recRow>> /\ rec' = recRow
      /\ handlers' \in Nat /\ dbErrors' \in Nat /\ crashes' \in Nat /\ overlap' \in BOOLEAN
  BY DEF Restart, files, findings, BasicInv, TypeOK
<1>2. /\ pc' \in [Workers -> Steps] /\ loc' \in [Workers -> Locals]
      /\ \A t \in Workers : pc'[t] = "idle" /\ loc'[t] = IdleLocals
  BY StepNames, IdleIsFit DEF Restart
<1>3. TypeOK'
  BY <1>1, <1>2 DEF TypeOK, BasicInv
<1>4. FileInv'
  BY <1>1, <1>2, IdleIsFit DEF FileInv, BasicInv
<1> QED BY <1>3, <1>4 DEF BasicInv

(* What a scan or the approval workflow does is not looked at here. *)
LEMMA OutsideBasic ==
  ASSUME BasicInv,
         \/ ScanProject
         \/ \E f \in Ids : Approve(f) \/ Withdraw(f)
         \/ UNCHANGED vars
  PROVE  BasicInv'
<1>1. UNCHANGED <<file, model, rec, recRow, pc, loc, handlers, dbErrors, crashes, overlap>>
  BY DEF ScanProject, Approve, Withdraw, files, records, counters, vars
<1>2. known' \subseteq Ids /\ approved' \subseteq Ids /\ meant' \in [Ids -> SUBSET Stmts]
  <2>1. CASE ScanProject
    <3>1. known' \subseteq Ids /\ approved' \subseteq Ids
      BY <2>1 DEF ScanProject, Scan, BasicInv, TypeOK
    <3>2. ASSUME NEW f \in Scan(model)
          PROVE  model[f.line].stmt \in Stmts
      <4>1. model[f.line] \in Line /\ f \in Ids /\ KindOf(model[f.line]) = f.kind
        BY <3>2 DEF Scan, BasicInv, TypeOK
      <4>2. model[f.line].stmt # 0
        BY <4>1 DEF KindOf, Ids
      <4> QED BY <4>1, <4>2 DEF Line
    <3>3. \A f \in Ids : (IF f \in Scan(model) THEN meant[f] \cup {model[f.line].stmt}
                          ELSE meant[f]) \in SUBSET Stmts
      BY <3>2 DEF BasicInv, TypeOK
    <3>4. meant' = [f \in Ids |-> IF f \in Scan(model) THEN meant[f] \cup {model[f.line].stmt}
                                  ELSE meant[f]]
      BY <2>1 DEF ScanProject
    <3> QED BY <3>1, <3>3, <3>4
  <2>2. CASE \E f \in Ids : Approve(f) \/ Withdraw(f)
    BY <2>2 DEF Approve, Withdraw, BasicInv, TypeOK
  <2>3. CASE UNCHANGED vars
    BY <2>3 DEF vars, findings, BasicInv, TypeOK
  <2> QED BY <2>1, <2>2, <2>3
<1>3. TypeOK'
  BY <1>1, <1>2 DEF TypeOK, BasicInv
<1>4. FileInv'
  BY <1>1 DEF FileInv, BasicInv
<1> QED BY <1>3, <1>4 DEF BasicInv

LEMMA BasicStep == BasicInv /\ [Next]_vars => BasicInv'
<1> SUFFICES ASSUME BasicInv, [Next]_vars PROVE BasicInv'
  OBVIOUS
<1>1. CASE \/ ScanProject \/ UNCHANGED vars
           \/ \E f \in Ids : Approve(f) \/ Withdraw(f)
  BY <1>1, OutsideBasic
<1>2. CASE Restart
  BY <1>2, RestartBasic
<1>3. ASSUME NEW t \in Workers, Handle(t) PROVE BasicInv'
  <2>1. CASE Reprepare(t)
    BY <2>1, ReprepareBasic
  <2>2. ASSUME NEW f \in Ids, Propose(t, f) PROVE BasicInv'
    BY <2>2, ProposeBasic
  <2>3. ASSUME NEW f \in Ids, Apply(t, f) PROVE BasicInv'
    BY <2>3, TakeUpBasic DEF Apply
  <2>4. ASSUME NEW f \in Ids, Verify(t, f) PROVE BasicInv'
    BY <2>4, TakeUpBasic DEF Verify
  <2> QED BY <1>3, <2>1, <2>2, <2>3, <2>4 DEF Handle
<1>4. ASSUME NEW t \in Workers, Continue(t) PROVE BasicInv'
  BY <1>4, ApplyPatchBasic, ApplyWriteBasic, VerifyScanBasic, RecMemBasic, RecRowBasic,
     WriteModelBasic DEF Continue
<1>5. ASSUME NEW t \in Workers, DbError(t) PROVE BasicInv'
  BY <1>5, DbErrorBasic
<1> QED BY <1>1, <1>2, <1>3, <1>4, <1>5 DEF Next

(* Every variable keeps its type: the stored records, the approvals and the *)
(* findings are of the program's lines, in every interleaving.              *)
THEOREM RemediationTypes == Spec => []TypeOK
<1>1. BasicInv => TypeOK
  BY DEF BasicInv
<1> QED BY <1>1, BasicInit, BasicStep, PTL DEF Spec

(* Patches change sinks and nothing else, also when applies overlap: a      *)
(* stale proposal is refused because its line no longer reads as it did.    *)
THEOREM ProgramSurvives == Spec => []ProgramPreserved
<1>1. BasicInv => ProgramPreserved
  BY LinesAreInOrder DEF BasicInv, TypeOK, FileInv, ProgramPreserved
<1> QED BY <1>1, BasicInit, BasicStep, PTL DEF Spec

----------------------------------------------------------------------------
(* Handlers that do not overlap.                                            *)

LEMMA SerialTurn ==
  ASSUME NEW t \in Workers, NEW s \in Steps, NEW l \in Locals, Turn(t, s, l),
         \A u \in Workers : u # t => pc[u] = "idle",
         \A f \in Ids : Told(rec'[f], file') /\ Told(recRow'[f], file'),
         s \in {"recMem", "recRow"} => Told(l.rec, file'),
         s = "scan" => Fixed(file', l.rec.proposal.before.stmt),
         s = "write" => /\ Fixed(l.src, l.rec.proposal.before.stmt)
                        /\ \A c \in Stmts : Fixed(file', c) => Fixed(l.src, c)
  PROVE  SerialBody'
<1>1. pc'[t] = s /\ loc'[t] = l /\ \A u \in Workers : u # t => pc'[u] = "idle"
  BY DEF Turn
<1>2. \A u, v \in Workers : pc'[u] # "idle" /\ pc'[v] # "idle" => u = v
  BY <1>1
<1>3. ASSUME NEW u \in Workers
      PROVE  /\ pc'[u] \in {"recMem", "recRow"} => Told(loc'[u].rec, file')
             /\ pc'[u] = "scan" => Fixed(file', loc'[u].rec.proposal.before.stmt)
             /\ pc'[u] = "write" =>
                  /\ Fixed(loc'[u].src, loc'[u].rec.proposal.before.stmt)
                  /\ \A c \in Stmts : Fixed(file', c) => Fixed(loc'[u].src, c)
  <2>1. CASE u = t
    BY <1>1, <2>1
  <2>2. CASE u # t
    BY <1>1, <2>2
  <2> QED BY <2>1, <2>2
<1> QED BY <1>2, <1>3 DEF SerialBody

LEMMA OthersIdle ==
  ASSUME SerialBody, NEW t \in Workers, pc[t] # "idle"
  PROVE  \A u \in Workers : u # t => pc[u] = "idle"
BY DEF SerialBody

(* The records are right while file and records stay as they are. *)
LEMMA RecordsStayTold ==
  ASSUME SerialBody, UNCHANGED <<file, rec, recRow>>
  PROVE  \A f \in Ids : Told(rec'[f], file') /\ Told(recRow'[f], file')
BY DEF SerialBody

LEMMA ProposeSerial ==
  ASSUME BasicInv, SerialInv, ~ overlap', NEW t \in Workers, NEW f \in Ids, Propose(t, f)
  PROVE  SerialBody'
<1>1. PICK l : l = [f |-> f, src |-> <<>>,
                    rec |-> [status |-> IF BuildProposal(f, file).fix THEN "proposed"
                                        ELSE "no_fix_available",
                             proposal |-> BuildProposal(f, file)]]
  OBVIOUS
<1>2. l \in Locals /\ l.rec.status \notin Done
  BY <1>1, ProposedRecord DEF BasicInv, Propose
<1>3. Start(t, "recMem", l)
  BY <1>1 DEF Propose
<1>4. Turn(t, "recMem", l) /\ ~ overlap /\ \A u \in Workers : pc[u] = "idle"
  BY <1>2, <1>3, StepNames, Started DEF BasicInv
<1>5. UNCHANGED <<file, rec, recRow>> /\ SerialBody
  BY <1>4 DEF Propose, files, records, SerialInv
<1>6. Told(l.rec, file')
  BY <1>2 DEF Told
<1>7. "recMem" \in Steps
  BY StepNames
<1> QED BY <1>2, <1>4, <1>5, <1>6, <1>7, RecordsStayTold, SerialTurn

LEMMA ApplySerial ==
  ASSUME BasicInv, SerialInv, ~ overlap', NEW t \in Workers, NEW f \in Ids, Apply(t, f)
  PROVE  SerialBody'
<1>1. PICK l : l = [f |-> f, rec |-> rec[f], src |-> <<>>]
  OBVIOUS
<1>2. l \in Locals
  BY <1>1, TakenUpRecord DEF BasicInv
<1>3. Start(t, "source", l)
  BY <1>1 DEF Apply
<1>4. Turn(t, "source", l) /\ ~ overlap /\ \A u \in Workers : pc[u] = "idle"
  BY <1>2, <1>3, StepNames, Started DEF BasicInv
<1>5. UNCHANGED <<file, rec, recRow>> /\ SerialBody
  BY <1>4 DEF Apply, files, records, SerialInv
<1>6. "source" \in Steps
  BY StepNames
<1> QED BY <1>2, <1>4, <1>5, <1>6, RecordsStayTold, SerialTurn

LEMMA VerifySerial ==
  ASSUME BasicInv, SerialInv, ~ overlap', NEW t \in Workers, NEW f \in Ids, Verify(t, f)
  PROVE  SerialBody'
<1>1. PICK l : l = [f |-> f, rec |-> rec[f], src |-> <<>>]
  OBVIOUS
<1>2. l \in Locals /\ l.rec = rec[f]
  BY <1>1, TakenUpRecord DEF BasicInv
<1>3. Start(t, "scan", l)
  BY <1>1 DEF Verify
<1>4. Turn(t, "scan", l) /\ ~ overlap /\ \A u \in Workers : pc[u] = "idle"
  BY <1>2, <1>3, StepNames, Started DEF BasicInv
<1>5. UNCHANGED <<file, rec, recRow>> /\ SerialBody
  BY <1>4 DEF Verify, files, records, SerialInv
<1>6. Fixed(file', l.rec.proposal.before.stmt)
  BY <1>2, <1>5 DEF Verify, SerialBody, Told, Done
<1>7. "scan" \in Steps
  BY StepNames
<1> QED BY <1>2, <1>4, <1>5, <1>6, <1>7, RecordsStayTold, SerialTurn

LEMMA ReprepareSerial ==
  ASSUME BasicInv, SerialInv, ~ overlap', NEW t \in Workers, Reprepare(t)
  PROVE  SerialBody'
<1>1. PICK src \in Seq(Line) : src = file
  BY DEF BasicInv, TypeOK
<1>2. PICK l \in Locals : l = [IdleLocals EXCEPT !.src = src]
  BY <1>1, IdleIsFit DEF Locals
<1>3. Start(t, "model", l)
  BY <1>1, <1>2 DEF Reprepare
<1>4. Turn(t, "model", l) /\ ~ overlap /\ \A u \in Workers : pc[u] = "idle"
  BY <1>3, StepNames, Started DEF BasicInv
<1>5. UNCHANGED <<file, rec, recRow>> /\ SerialBody
  BY <1>4 DEF Reprepare, files, records, SerialInv
<1>6. "model" \in Steps
  BY StepNames
<1> QED BY <1>4, <1>5, <1>6, RecordsStayTold, SerialTurn

LEMMA ApplyPatchSerial ==
  ASSUME BasicInv, SerialInv, ~ overlap', NEW t \in Workers, ApplyPatch(t)
  PROVE  SerialBody'
<1>1. UNCHANGED <<file, rec, recRow>>
  BY ApplyPatchOutcome DEF files, records
<1>2. CASE \E l \in Locals :
             /\ Goto(t, "source", "write", l)
             /\ Fixed(l.src, l.rec.proposal.before.stmt)
             /\ \A s \in Stmts : Fixed(file, s) => Fixed(l.src, s)
  <2>1. PICK l \in Locals :
             /\ Goto(t, "source", "write", l)
             /\ Fixed(l.src, l.rec.proposal.before.stmt)
             /\ \A s \in Stmts : Fixed(file, s) => Fixed(l.src, s)
    BY <1>2
  <2>2. Turn(t, "write", l) /\ pc[t] = "source" /\ overlap' = overlap /\ "write" \in Steps
    BY <2>1, StepNames, Moved DEF BasicInv
  <2>3. SerialBody /\ \A u \in Workers : u # t => pc[u] = "idle"
    BY <2>2, OthersIdle DEF SerialInv
  <2> QED BY <1>1, <2>1, <2>2, <2>3, RecordsStayTold, SerialTurn
<1>3. CASE \E l \in Locals : Goto(t, "source", "recMem", l) /\ l.rec.status = "error"
  <2>1. PICK l \in Locals : Goto(t, "source", "recMem", l) /\ l.rec.status = "error"
    BY <1>3
  <2>2. Turn(t, "recMem", l) /\ pc[t] = "source" /\ overlap' = overlap /\ "recMem" \in Steps
    BY <2>1, StepNames, Moved DEF BasicInv
  <2>3. SerialBody /\ \A u \in Workers : u # t => pc[u] = "idle"
    BY <2>2, OthersIdle DEF SerialInv
  <2>4. Told(l.rec, file')
    BY <2>1 DEF Told, Done
  <2> QED BY <1>1, <2>2, <2>3, <2>4, RecordsStayTold, SerialTurn
<1> QED BY <1>2, <1>3, ApplyPatchOutcome

(* The write puts its own fix into the file and takes no other out. *)
LEMMA ApplyWriteSerial ==
  ASSUME BasicInv, SerialInv, ~ overlap', NEW t \in Workers, ApplyWrite(t)
  PROVE  SerialBody' /\ \A s \in Stmts : Fixed(file, s) => Fixed(file', s)
<1>1. PICK l \in Locals : /\ Goto(t, "write", "recMem", l) /\ Sound(l.rec.proposal)
                          /\ l.rec.proposal = loc[t].rec.proposal
  BY ApplyWriteOutcome
<1>2. Turn(t, "recMem", l) /\ pc[t] = "write" /\ overlap' = overlap /\ "recMem" \in Steps
  BY <1>1, StepNames, Moved DEF BasicInv
<1>3. SerialBody /\ \A u \in Workers : u # t => pc[u] = "idle"
  BY <1>2, OthersIdle DEF SerialInv
<1>4. file' = loc[t].src /\ UNCHANGED <<rec, recRow>>
  BY DEF ApplyWrite, records
<1>5. /\ Fixed(file', l.rec.proposal.before.stmt)
      /\ \A s \in Stmts : Fixed(file, s) => Fixed(file', s)
  BY <1>1, <1>2, <1>3, <1>4 DEF SerialBody
<1>6. ASSUME NEW r, Told(r, file) PROVE Told(r, file')
  <2>1. Fixed(file, r.proposal.before.stmt) => r.proposal.before.stmt \in Stmts
    BY FixesAreOfStatements DEF BasicInv, TypeOK, FileInv
  <2> QED BY <1>5, <1>6, <2>1 DEF Told
<1>7. \A f \in Ids : Told(rec[f], file) /\ Told(recRow[f], file)
  BY <1>3 DEF SerialBody
<1>8. \A f \in Ids : Told(rec'[f], file') /\ Told(recRow'[f], file')
  BY <1>4, <1>6, <1>7
<1>9. Told(l.rec, file')
  BY <1>5 DEF Told
<1> QED BY <1>2, <1>3, <1>5, <1>8, <1>9, SerialTurn

LEMMA VerifyScanSerial ==
  ASSUME BasicInv, SerialInv, ~ overlap', NEW t \in Workers, VerifyScan(t)
  PROVE  SerialBody'
<1>1. PICK l \in Locals : /\ Goto(t, "scan", "recMem", l)
                          /\ l.rec.proposal = loc[t].rec.proposal
  BY VerifyScanOutcome
<1>2. Turn(t, "recMem", l) /\ pc[t] = "scan" /\ overlap' = overlap /\ "recMem" \in Steps
  BY <1>1, StepNames, Moved DEF BasicInv
<1>3. SerialBody /\ \A u \in Workers : u # t => pc[u] = "idle"
  BY <1>2, OthersIdle DEF SerialInv
<1>4. UNCHANGED <<file, rec, recRow>>
  BY VerifyScanOutcome DEF files, records
<1>5. Told(l.rec, file')
  BY <1>1, <1>2, <1>3, <1>4 DEF SerialBody, Told
<1> QED BY <1>2, <1>3, <1>4, <1>5, RecordsStayTold, SerialTurn

LEMMA RecMemSerial ==
  ASSUME BasicInv, SerialInv, ~ overlap', NEW t \in Workers, RecMem(t)
  PROVE  SerialBody'
<1>1. PICK l \in Locals : l = loc[t]
  BY DEF BasicInv, TypeOK
<1>2. Goto(t, "recMem", "recRow", l)
  BY <1>1 DEF RecMem
<1>3. Turn(t, "recRow", l) /\ pc[t] = "recMem" /\ overlap' = overlap /\ "recRow" \in Steps
  BY <1>2, StepNames, Moved DEF BasicInv
<1>4. SerialBody /\ \A u \in Workers : u # t => pc[u] = "idle"
  BY <1>3, OthersIdle DEF SerialInv
<1>5. UNCHANGED <<file, recRow>> /\ rec' = [rec EXCEPT ![l.f] = l.rec]
  BY <1>1 DEF RecMem, files
<1>6. Told(l.rec, file')
  BY <1>1, <1>3, <1>4, <1>5 DEF SerialBody
<1>7. \A f \in Ids : rec'[f] \in {rec[f], l.rec}
  BY <1>5 DEF BasicInv, TypeOK
<1>8. \A f \in Ids : Told(rec[f], file') /\ Told(recRow[f], file')
  BY <1>4, <1>5 DEF SerialBody
<1>9. \A f \in Ids : Told(rec'[f], file') /\ Told(recRow'[f], file')
  BY <1>5, <1>6, <1>7, <1>8
<1> QED BY <1>3, <1>4, <1>6, <1>9, SerialTurn

LEMMA RecRowSerial ==
  ASSUME BasicInv, SerialInv, ~ overlap', NEW t \in Workers, RecRow(t)
  PROVE  SerialBody'
<1>1. PICK l \in Locals : l = loc[t]
  BY DEF BasicInv, TypeOK
<1>2. Goto(t, "recRow", "idle", IdleLocals)
  BY DEF RecRow
<1>3. /\ Turn(t, "idle", IdleLocals) /\ pc[t] = "recRow" /\ overlap' = overlap
      /\ "idle" \in Steps /\ IdleLocals \in Locals
  BY <1>2, StepNames, Moved, IdleIsFit DEF BasicInv
<1>4. SerialBody /\ \A u \in Workers : u # t => pc[u] = "idle"
  BY <1>3, OthersIdle DEF SerialInv
<1>5. UNCHANGED <<file, rec>> /\ recRow' = [recRow EXCEPT ![l.f] = l.rec]
  BY <1>1 DEF RecRow, files
<1>6. Told(l.rec, file')
  BY <1>1, <1>3, <1>4, <1>5 DEF SerialBody
<1>7. \A f \in Ids : recRow'[f] \in {recRow[f], l.rec}
  BY <1>5 DEF BasicInv, TypeOK
<1>8. \A f \in Ids : Told(rec[f], file') /\ Told(recRow[f], file')
  BY <1>4, <1>5 DEF SerialBody
<1>9. \A f \in Ids : Told(rec'[f], file') /\ Told(recRow'[f], file')
  BY <1>5, <1>6, <1>7, <1>8
<1> QED BY <1>3, <1>4, <1>9, SerialTurn

LEMMA WriteModelSerial ==
  ASSUME BasicInv, SerialInv, ~ overlap', NEW t \in Workers, WriteModel(t)
  PROVE  SerialBody'
<1>1. Goto(t, "model", "idle", IdleLocals)
  BY DEF WriteModel
<1>2. /\ Turn(t, "idle", IdleLocals) /\ pc[t] = "model" /\ overlap' = overlap
      /\ "idle" \in Steps /\ IdleLocals \in Locals
  BY <1>1, StepNames, Moved, IdleIsFit DEF BasicInv
<1>3. SerialBody /\ \A u \in Workers : u # t => pc[u] = "idle"
  BY <1>2, OthersIdle DEF SerialInv
<1>4. UNCHANGED <<file, rec, recRow>>
  BY DEF WriteModel, records
<1> QED BY <1>2, <1>3, <1>4, RecordsStayTold, SerialTurn

LEMMA DbErrorSerial ==
  ASSUME BasicInv, SerialInv, ~ overlap', NEW t \in Workers, DbError(t)
  PROVE  SerialBody'
<1>1. /\ Turn(t, "idle", IdleLocals) /\ pc[t] = "recRow" /\ overlap' = overlap
      /\ "idle" \in Steps /\ IdleLocals \in Locals
  BY StepNames, Turned, IdleIsFit DEF BasicInv, DbError
<1>2. SerialBody /\ \A u \in Workers : u # t => pc[u] = "idle"
  BY <1>1, OthersIdle DEF SerialInv
<1>3. UNCHANGED <<file, rec, recRow>>
  BY DEF DbError, files, records
<1> QED BY <1>1, <1>2, <1>3, RecordsStayTold, SerialTurn

(* A restart forgets what memory has and the rows do not; both were right. *)
LEMMA RestartSerial ==
  ASSUME SerialInv, ~ overlap', Restart
  PROVE  SerialBody'
<1>1. ~ overlap /\ UNCHANGED <<file, recRow>> /\ rec' = recRow
  BY DEF Restart, files
<1>2. \A t \in Workers : pc'[t] = "idle"
  BY DEF Restart
<1>3. \A f \in Ids : Told(recRow[f], file)
  BY <1>1 DEF SerialInv, SerialBody
<1>4. \A f \in Ids : Told(rec'[f], file') /\ Told(recRow'[f], file')
  BY <1>1, <1>3
<1> QED BY <1>2, <1>4 DEF SerialBody

LEMMA OutsideSerial ==
  ASSUME SerialInv,
         \/ ScanProject
         \/ \E f \in Ids : Approve(f) \/ Withdraw(f)
         \/ UNCHANGED vars
  PROVE  SerialInv' /\ UNCHANGED file
<1>1. UNCHANGED <<file, rec, recRow, pc, loc, overlap>>
  BY DEF ScanProject, Approve, Withdraw, files, records, counters, vars
<1> QED BY <1>1 DEF SerialInv, SerialBody

LEMMA SerialStep ==
  ASSUME BasicInv, SerialInv, [Next]_vars
  PROVE  /\ SerialInv'
         /\ \A s \in Stmts : Fixed(file, s) /\ ~ overlap' => Fixed(file', s)
<1>1. CASE \/ ScanProject \/ UNCHANGED vars
           \/ \E f \in Ids : Approve(f) \/ Withdraw(f)
  BY <1>1, OutsideSerial
<1>2. CASE Restart
  BY <1>2, RestartSerial DEF Restart, files, SerialInv
<1>3. ASSUME NEW t \in Workers, Handle(t) PROVE SerialInv' /\ UNCHANGED file
  <2>1. UNCHANGED file
    BY <1>3 DEF Handle, Propose, Apply, Verify, Reprepare, files
  <2>2. ~ overlap' => SerialBody'
    BY <1>3, ProposeSerial, ApplySerial, VerifySerial, ReprepareSerial DEF Handle
  <2> QED BY <2>1, <2>2 DEF SerialInv
<1>4. ASSUME NEW t \in Workers, ApplyWrite(t)
      PROVE  /\ SerialInv'
             /\ \A s \in Stmts : Fixed(file, s) /\ ~ overlap' => Fixed(file', s)
  BY <1>4, ApplyWriteSerial DEF SerialInv
<1>5. ASSUME NEW t \in Workers,
             \/ ApplyPatch(t) \/ VerifyScan(t) \/ RecMem(t) \/ RecRow(t)
             \/ WriteModel(t) \/ DbError(t)
      PROVE  SerialInv' /\ UNCHANGED file
  <2>1. UNCHANGED file
    BY <1>5 DEF ApplyPatch, VerifyScan, RecMem, RecRow, WriteModel, DbError, files
  <2>2. ~ overlap' => SerialBody'
    BY <1>5, ApplyPatchSerial, VerifyScanSerial, RecMemSerial, RecRowSerial,
       WriteModelSerial, DbErrorSerial
  <2> QED BY <2>1, <2>2 DEF SerialInv
<1> QED BY <1>1, <1>2, <1>3, <1>4, <1>5 DEF Next, Continue

LEMMA SerialInit == Init => SerialInv
BY IdleIsFit DEF Init, SerialInv, SerialBody, Told, Done

LEMMA RemediationInvariant == Spec => [](BasicInv /\ SerialInv)
<1>1. BasicInv /\ SerialInv /\ [Next]_vars => (BasicInv /\ SerialInv)'
  BY BasicStep, SerialStep
<1> QED BY <1>1, BasicInit, SerialInit, PTL DEF Spec

(* A remediation whose record says applied, verified or still present is in *)
(* the file, after any failed commits, crashes and patches of other         *)
(* findings, while handlers do not overlap.                                 *)
THEOREM AppliedIsInFile == Spec => []AppliedFixIsInFile
<1>1. SerialInv => AppliedFixIsInFile
  BY DEF SerialInv, SerialBody, Told, Done, AppliedFixIsInFile
<1> QED BY <1>1, RemediationInvariant, PTL

(* No apply takes a fix out of the file again while handlers do not         *)
(* overlap: what it writes back keeps every fix of the file it replaces.    *)
THEOREM FixesSurvive == Spec => FixesAreKept
<1>1. BasicInv /\ SerialInv /\ [Next]_vars =>
        [\A s \in Stmts : Fixed(file, s) /\ ~ overlap' => Fixed(file', s)]_vars
  BY SerialStep
<1> QED BY <1>1, RemediationInvariant, PTL DEF Spec, FixesAreKept
----------------------------------------------------------------------------
(* Proposals fit their findings.                                            *)

Handling == {"source", "write", "scan", "recMem", "recRow"}

(* The fix proposed under f's id is for an unfixed statement of f's kind,   *)
(* and a record that got beyond the proposal has one.                       *)
Fit(f, r) ==
  /\ r.proposal.fix => /\ r.proposal.before.stmt \in Stmts
                       /\ Program[r.proposal.before.stmt] = f.kind
                       /\ r.proposal.before.fixed = FALSE
  /\ r.status \notin {"none", "no_fix_available"} => r.proposal.fix

FitInv ==
  /\ \A f \in Ids : Fit(f, rec[f]) /\ Fit(f, recRow[f])
  /\ \A t \in Workers :
       pc[t] \in Handling =>
         /\ loc[t].f \in Ids /\ Fit(loc[t].f, loc[t].rec)
         /\ pc[t] \in {"source", "write", "scan"} => loc[t].rec.proposal.fix

LEMMA BuiltProposalFits ==
  ASSUME NEW src \in Seq(Line), NEW f \in Ids, f.line \in DOMAIN src,
         BuildProposal(f, src).fix
  PROVE  /\ BuildProposal(f, src).before.stmt \in Stmts
         /\ Program[BuildProposal(f, src).before.stmt] = f.kind
         /\ BuildProposal(f, src).before.fixed = FALSE
<1>1. PICK b \in Line : b = src[f.line]
  OBVIOUS
<1>2. BuildProposal(f, src).before = b /\ Rewritable(f, src)
  BY <1>1 DEF BuildProposal, SqlProposal, CmdProposal
<1>3. KindOf(b) = f.kind /\ b.fixed = FALSE
  BY <1>1, <1>2 DEF Rewritable, Line
<1>4. b.stmt # 0
  BY <1>3 DEF KindOf, Ids
<1> QED BY <1>2, <1>3, <1>4 DEF KindOf, Line

LEMMA FitTurn ==
  ASSUME FitInv, NEW t \in Workers, NEW s, NEW l, Turn(t, s, l),
         s \in Handling => l.f \in Ids /\ Fit(l.f, l.rec),
         s \in {"source", "write", "scan"} => l.rec.proposal.fix,
         \A f \in Ids : Fit(f, rec'[f]) /\ Fit(f, recRow'[f])
  PROVE  FitInv'
<1>1. ASSUME NEW u \in Workers, pc'[u] \in Handling
      PROVE  /\ loc'[u].f \in Ids /\ Fit(loc'[u].f, loc'[u].rec)
             /\ pc'[u] \in {"source", "write", "scan"} => loc'[u].rec.proposal.fix
  <2>1. CASE u = t
    BY <1>1, <2>1 DEF Turn
  <2>2. CASE u # t
    <3>1. pc'[u] = pc[u] /\ loc'[u] = loc[u]
      BY <2>2 DEF Turn
    <3> QED BY <1>1, <3>1 DEF FitInv
  <2> QED BY <2>1, <2>2
<1> QED BY <1>1 DEF FitInv

LEMMA RecordsStayFit ==
  ASSUME FitInv, UNCHANGED <<rec, recRow>>
  PROVE  \A f \in Ids : Fit(f, rec'[f]) /\ Fit(f, recRow'[f])
BY DEF FitInv

LEMMA ProposeFit ==
  ASSUME BasicInv, FitInv, NEW t \in Workers, NEW f \in Ids, Propose(t, f)
  PROVE  FitInv'
<1>1. PICK p : p = BuildProposal(f, file)
  OBVIOUS
<1>2. PICK l : l = [f |-> f, src |-> <<>>,
                    rec |-> [status |-> IF p.fix THEN "proposed" ELSE "no_fix_available",
                             proposal |-> p]]
  OBVIOUS
<1>3. l \in Locals
  BY <1>1, <1>2, ProposedRecord DEF BasicInv, Propose
<1>4. Start(t, "recMem", l) /\ UNCHANGED <<rec, recRow>>
  BY <1>1, <1>2 DEF Propose, records
<1>5. Turn(t, "recMem", l)
  BY <1>3, <1>4, StepNames, Started DEF BasicInv
<1>6. p.fix => /\ p.before.stmt \in Stmts /\ Program[p.before.stmt] = f.kind
               /\ p.before.fixed = FALSE
  BY <1>1, BuiltProposalFits DEF Propose, BasicInv, TypeOK
<1>7. l.f = f /\ Fit(f, l.rec)
  BY <1>2, <1>6 DEF Fit
<1> QED BY <1>4, <1>5, <1>7, RecordsStayFit, FitTurn

(* Apply and verify take up a record that got beyond the proposal. *)
LEMMA TakeUpFit ==
  ASSUME BasicInv, FitInv, NEW t \in Workers, NEW f \in Ids, NEW s \in {"source", "scan"},
         Start(t, s, [f |-> f, rec |-> rec[f], src |-> <<>>]),
         rec[f].status \notin {"none", "no_fix_available"},
         UNCHANGED records
  PROVE  FitInv'
<1>1. PICK l : l = [f |-> f, rec |-> rec[f], src |-> <<>>]
  OBVIOUS
<1>2. l \in Locals /\ l.f = f /\ l.rec = rec[f]
  BY <1>1, TakenUpRecord DEF BasicInv
<1>3. Turn(t, s, l)
  <2>1. Start(t, s, l)
    BY <1>1
  <2> QED BY <1>2, <2>1, StepNames, Started DEF BasicInv
<1>4. Fit(f, l.rec) /\ l.rec.proposal.fix
  BY <1>2 DEF FitInv, Fit
<1> QED BY <1>2, <1>3, <1>4, RecordsStayFit, FitTurn DEF records

(* Within a handler, the finding and its proposal stay. *)
LEMMA MoveFit ==
  ASSUME BasicInv, FitInv, NEW t \in Workers, pc[t] \in {"source", "write", "scan"},
         NEW s \in {"write", "recMem"}, NEW l, Turn(t, s, l),
         l.f = loc[t].f, l.rec.proposal = loc[t].rec.proposal,
         UNCHANGED <<rec, recRow>>
  PROVE  FitInv'
<1>1. /\ loc[t].f \in Ids /\ Fit(loc[t].f, loc[t].rec) /\ loc[t].rec.proposal.fix
  BY DEF FitInv, Handling
<1>2. l.f \in Ids /\ Fit(l.f, l.rec) /\ l.rec.proposal.fix
  BY <1>1 DEF Fit
<1> QED BY <1>2, RecordsStayFit, FitTurn

LEMMA ContinueFit ==
  ASSUME BasicInv, FitInv, NEW t \in Workers, Continue(t)
  PROVE  FitInv'
<1>1. CASE ApplyPatch(t)
  <2>1. PICK l \in Locals, s \in {"write", "recMem"} :
          /\ Goto(t, "source", s, l) /\ l.f = loc[t].f
          /\ l.rec.proposal = loc[t].rec.proposal
    BY <1>1, ApplyPatchOutcome
  <2>2. Turn(t, s, l) /\ pc[t] = "source"
    BY <2>1, StepNames, Moved DEF BasicInv
  <2>3. UNCHANGED <<rec, recRow>>
    BY <1>1 DEF ApplyPatch, records
  <2> QED BY <2>1, <2>2, <2>3, MoveFit
<1>2. CASE ApplyWrite(t)
  <2>1. PICK l \in Locals : /\ Goto(t, "write", "recMem", l) /\ l.f = loc[t].f
                            /\ l.rec.proposal = loc[t].rec.proposal
    BY <1>2, ApplyWriteOutcome
  <2>2. Turn(t, "recMem", l) /\ pc[t] = "write"
    BY <2>1, StepNames, Moved DEF BasicInv
  <2>3. UNCHANGED <<rec, recRow>>
    BY <1>2 DEF ApplyWrite, records
  <2> QED BY <2>1, <2>2, <2>3, MoveFit
<1>3. CASE VerifyScan(t)
  <2>1. PICK l \in Locals : /\ Goto(t, "scan", "recMem", l) /\ l.f = loc[t].f
                            /\ l.rec.proposal = loc[t].rec.proposal
    BY <1>3, VerifyScanOutcome
  <2>2. Turn(t, "recMem", l) /\ pc[t] = "scan"
    BY <2>1, StepNames, Moved DEF BasicInv
  <2>3. UNCHANGED <<rec, recRow>>
    BY <1>3 DEF VerifyScan, records
  <2> QED BY <2>1, <2>2, <2>3, MoveFit
<1>4. CASE RecMem(t)
  <2>1. PICK l \in Locals : l = loc[t]
    BY DEF BasicInv, TypeOK
  <2>2. Turn(t, "recRow", l) /\ pc[t] = "recMem"
    <3>1. Goto(t, "recMem", "recRow", l)
      BY <1>4, <2>1 DEF RecMem
    <3> QED BY <3>1, StepNames, Moved DEF BasicInv
  <2>3. l.f \in Ids /\ Fit(l.f, l.rec)
    BY <2>1, <2>2 DEF FitInv, Handling
  <2>4. UNCHANGED recRow /\ rec' = [rec EXCEPT ![l.f] = l.rec]
    BY <1>4, <2>1 DEF RecMem
  <2>5. \A f \in Ids : rec'[f] = IF f = l.f THEN l.rec ELSE rec[f]
    BY <2>4 DEF BasicInv, TypeOK
  <2>6. \A f \in Ids : Fit(f, rec'[f]) /\ Fit(f, recRow'[f])
    BY <2>3, <2>4, <2>5 DEF FitInv
  <2> QED BY <2>2, <2>3, <2>6, FitTurn
<1>5. CASE RecRow(t)
  <2>1. PICK l \in Locals : l = loc[t]
    BY DEF BasicInv, TypeOK
  <2>2. Turn(t, "idle", IdleLocals) /\ pc[t] = "recRow"
    <3>1. Goto(t, "recRow", "idle", IdleLocals)
      BY <1>5 DEF RecRow
    <3> QED BY <3>1, StepNames, Moved, IdleIsFit DEF BasicInv
  <2>3. l.f \in Ids /\ Fit(l.f, l.rec)
    BY <2>1, <2>2 DEF FitInv, Handling
  <2>4. UNCHANGED rec /\ recRow' = [recRow EXCEPT ![l.f] = l.rec]
    BY <1>5, <2>1 DEF RecRow
  <2>5. \A f \in Ids : recRow'[f] = IF f = l.f THEN l.rec ELSE recRow[f]
    BY <2>4 DEF BasicInv, TypeOK
  <2>6. \A f \in Ids : Fit(f, rec'[f]) /\ Fit(f, recRow'[f])
    BY <2>3, <2>4, <2>5 DEF FitInv
  <2> QED BY <2>2, <2>6, FitTurn DEF Handling
<1>6. CASE WriteModel(t)
  <2>1. Turn(t, "idle", IdleLocals)
    <3>1. Goto(t, "model", "idle", IdleLocals)
      BY <1>6 DEF WriteModel
    <3> QED BY <3>1, StepNames, Moved, IdleIsFit DEF BasicInv
  <2>2. UNCHANGED <<rec, recRow>>
    BY <1>6 DEF WriteModel, records
  <2> QED BY <2>1, <2>2, RecordsStayFit, FitTurn DEF Handling
<1> QED BY <1>1, <1>2, <1>3, <1>4, <1>5, <1>6 DEF Continue

LEMMA FitStep == BasicInv /\ FitInv /\ [Next]_vars => FitInv'
<1> SUFFICES ASSUME BasicInv, FitInv, [Next]_vars PROVE FitInv'
  OBVIOUS
<1>1. CASE \/ ScanProject \/ UNCHANGED vars
           \/ \E f \in Ids : Approve(f) \/ Withdraw(f)
  <2>1. UNCHANGED <<rec, recRow, pc, loc>>
    BY <1>1 DEF ScanProject, Approve, Withdraw, records, vars
  <2> QED BY <2>1 DEF FitInv
<1>2. CASE Restart
  <2>1. /\ rec' = recRow /\ recRow' = recRow
        /\ \A t \in Workers : pc'[t] = "idle"
    BY <1>2 DEF Restart
  <2> QED BY <2>1 DEF FitInv, Handling
<1>3. ASSUME NEW t \in Workers, Handle(t) PROVE FitInv'
  <2>1. CASE Reprepare(t)
    <3>1. PICK src \in Seq(Line) : src = file
      BY DEF BasicInv, TypeOK
    <3>2. PICK l \in Locals : l = [IdleLocals EXCEPT !.src = src]
      BY <3>1, IdleIsFit DEF Locals
    <3>3. Start(t, "model", l) /\ UNCHANGED <<rec, recRow>>
      BY <2>1, <3>1, <3>2 DEF Reprepare, records
    <3>4. Turn(t, "model", l)
      BY <3>3, StepNames, Started DEF BasicInv
    <3> QED BY <3>3, <3>4, RecordsStayFit, FitTurn DEF Handling
  <2>2. ASSUME NEW f \in Ids, Propose(t, f) PROVE FitInv'
    BY <2>2, ProposeFit
  <2>3. ASSUME NEW f \in Ids, Apply(t, f) PROVE FitInv'
    BY <2>3, TakeUpFit DEF Apply
  <2>4. ASSUME NEW f \in Ids, Verify(t, f) PROVE FitInv'
    BY <2>4, TakeUpFit DEF Verify
  <2> QED BY <1>3, <2>1, <2>2, <2>3, <2>4 DEF Handle
<1>4. ASSUME NEW t \in Workers, Continue(t) PROVE FitInv'
  BY <1>4, ContinueFit
<1>5. ASSUME NEW t \in Workers, DbError(t) PROVE FitInv'
  <2>1. Turn(t, "idle", IdleLocals)
    BY <1>5, StepNames, Turned, IdleIsFit DEF BasicInv, DbError
  <2>2. UNCHANGED <<rec, recRow>>
    BY <1>5 DEF DbError, records
  <2> QED BY <2>1, <2>2, RecordsStayFit, FitTurn DEF Handling
<1> QED BY <1>1, <1>2, <1>3, <1>4, <1>5 DEF Next

LEMMA FitInit == Init => FitInv
BY IdleIsFit DEF Init, FitInv, Fit, NoProposal, Handling
----------------------------------------------------------------------------
(* Refinement of FixLifecycle.                                              *)

(* A patch fixes the statement it is for, which was not fixed, and no other. *)
LEMMA PatchFixesOne ==
  ASSUME NEW src \in Seq(Line), WellFormed(src), NEW p \in Proposal, Sound(p),
         Applicable(p, src), p.before.fixed = FALSE
  PROVE  /\ FixedIn(Patched(p, src)) = FixedIn(src) \cup {p.before.stmt}
         /\ p.before.stmt \notin FixedIn(src)
<1>0. PICK z : z = Patched(p, src)
  OBVIOUS
<1>1. PICK k : k = IF p.import THEN 1 ELSE 0
  OBVIOUS
<1>2. /\ z \in Seq(Line) /\ Len(z) = Len(src) + k
      /\ k = 1 => z[1] = Import
      /\ \A i \in DOMAIN src :
           z[i + k] = IF i = p.line THEN [stmt |-> p.before.stmt, fixed |-> TRUE]
                      ELSE src[i]
  BY <1>0, <1>1, PatchedLines
<1>3. k \in {0, 1} /\ p.before.stmt \in Stmts
  BY <1>1 DEF Applicable, Sound
<1>4. ASSUME NEW s \in Stmts, Fixed(z, s) PROVE s = p.before.stmt \/ Fixed(src, s)
  <2>1. PICK j \in DOMAIN z : z[j] = [stmt |-> s, fixed |-> TRUE]
    BY <1>4 DEF Fixed
  <2>2. j \in 1..(Len(src) + k) /\ Len(src) \in Nat
    BY <1>2
  <2>3. CASE j > k
    <3>1. j - k \in DOMAIN src /\ (j - k) + k = j
      BY <1>3, <2>2, <2>3
    <3>2. z[j] = IF j - k = p.line THEN [stmt |-> p.before.stmt, fixed |-> TRUE]
                 ELSE src[j - k]
      BY <1>2, <3>1
    <3> QED BY <2>1, <3>1, <3>2 DEF Fixed
  <2>4. CASE ~ (j > k)
    <3>1. k = 1 /\ j = 1
      BY <1>3, <2>2, <2>4
    <3>2. s = 0
      BY <1>2, <2>1, <3>1 DEF Import
    <3> QED BY <3>2, SizeIsNat
  <2> QED BY <2>2, <1>3, <2>3, <2>4
<1>5. Fixed(z, p.before.stmt) /\ \A s \in Stmts : Fixed(src, s) => Fixed(z, s)
  BY <1>0, PatchIsSound
<1>6. ~ Fixed(src, p.before.stmt)
  <2>1. SUFFICES ASSUME NEW i \in DOMAIN src,
                        src[i] = [stmt |-> p.before.stmt, fixed |-> TRUE]
                 PROVE  FALSE
    BY DEF Fixed
  <2>2. PICK k0 \in {0, 1} : Aligned(src, k0)
    BY DEF WellFormed
  <2>3. p.line \in DOMAIN src /\ src[p.line] = p.before
    BY DEF Applicable
  <2>4. i = p.before.stmt + k0 /\ p.line = p.before.stmt + k0
    BY <1>3, <2>1, <2>2, <2>3, OneLine
  <2> QED BY <2>1, <2>3, <2>4
<1> QED BY <1>0, <1>3, <1>4, <1>5, <1>6 DEF FixedIn

(* What a thread does next, in FixLifecycle's terms. *)
Jobs == [t \in Workers |-> JobOf(pc[t], loc[t])]

LEMMA JobNames ==
  ASSUME NEW l
  PROVE  /\ \A s \in {"idle", "scan", "recMem", "recRow"} : JobOf(s, l) = Fixes!NoJob
         /\ JobOf("source", l) = Fixes!Admitted(l.f, l.rec.proposal.before.stmt)
         /\ JobOf("write", l) = Fixes!Writing(FixedIn(l.src))
         /\ JobOf("model", l) = Fixes!Copying(FixedIn(l.src))
BY DEF JobOf, Fixes!NoJob, Fixes!Admitted, Fixes!Writing, Fixes!Copying

LEMMA JobTurn ==
  ASSUME TypeOK, NEW t \in Workers, NEW s, NEW l, Turn(t, s, l)
  PROVE  /\ Fixes!Become(t, JobOf(pc[t], loc[t]), JobOf(s, l))
         /\ Jobs' = [Jobs EXCEPT ![t] = JobOf(s, l)]
<1>1. Jobs' = [Jobs EXCEPT ![t] = JobOf(s, l)]
  BY DEF Turn, Jobs
<1> QED BY <1>1 DEF Fixes!Become, Jobs

(* Steps before the gates, after the write or on the way out. *)
LEMMA AbandonTurn ==
  ASSUME TypeOK, NEW t \in Workers, NEW s \in {"idle", "scan", "recMem", "recRow"}, NEW l,
         Turn(t, s, l), UNCHANGED <<file, model, approved>>
  PROVE  Fixes!Abandon(t)
<1>1. Jobs' = [Jobs EXCEPT ![t] = Fixes!NoJob]
  BY JobTurn, JobNames
<1> QED BY <1>1 DEF Fixes!Abandon, Jobs

LEMMA AdmitRefines ==
  ASSUME BasicInv, FitInv, NEW t \in Workers, NEW f \in Ids, Apply(t, f)
  PROVE  \E s \in Stmts : Fixes!Admit(t, f, s)
<1>1. PICK l : l = [f |-> f, rec |-> rec[f], src |-> <<>>]
  OBVIOUS
<1>2. l \in Locals /\ l.f = f /\ l.rec = rec[f]
  BY <1>1, TakenUpRecord DEF BasicInv
<1>3. Turn(t, "source", l) /\ pc[t] = "idle"
  <2>1. Start(t, "source", l)
    BY <1>1 DEF Apply
  <2> QED BY <1>2, <2>1, StepNames, Started DEF BasicInv
<1>4. PICK s : s = l.rec.proposal.before.stmt
  OBVIOUS
<1>5. s \in Stmts /\ Program[s] = f.kind
  BY <1>2, <1>4 DEF Apply, FitInv, Fit
<1>6. Fixes!Become(t, Fixes!NoJob, Fixes!Admitted(f, s))
  BY <1>2, <1>3, <1>4, JobTurn, JobNames DEF BasicInv
<1>7. UNCHANGED <<file, model, approved>> /\ f \in approved
  BY DEF Apply, files, findings
<1>8. <<f, s>> \in {x \in Ids \X Stmts : Program[x[2]] = x[1].kind}
  BY <1>5
<1> QED BY <1>5, <1>6, <1>7, <1>8 DEF Fixes!Admit

LEMMA ReadRefines ==
  ASSUME BasicInv, FitInv, NEW t \in Workers, ApplyPatch(t)
  PROVE  \/ Fixes!Abandon(t)
         \/ \E f \in Ids, s \in Stmts : Fixes!Read(t, f, s)
<1>1. UNCHANGED <<file, model, approved>>
  BY DEF ApplyPatch, files, findings
<1>2. ASSUME NEW l \in Locals, Goto(t, "source", "recMem", l)
      PROVE  Fixes!Abandon(t)
  <2>1. Turn(t, "recMem", l)
    BY <1>2, StepNames, Moved DEF BasicInv
  <2> QED BY <1>1, <2>1, AbandonTurn DEF BasicInv
<1>3. ASSUME NEW l \in Locals, Goto(t, "source", "write", l),
             l.f = loc[t].f, l.rec = loc[t].rec,
             Applicable(l.rec.proposal, file), l.src = Patched(l.rec.proposal, file)
      PROVE  \E f \in Ids, s \in Stmts : Fixes!Read(t, f, s)
  <2>1. Turn(t, "write", l) /\ pc[t] = "source"
    BY <1>3, StepNames, Moved DEF BasicInv
  <2>2. l.f \in Ids /\ Fit(l.f, l.rec) /\ l.rec.proposal.fix
    BY <1>3, <2>1 DEF FitInv, Handling
  <2>3. PICK p \in Proposal : p = l.rec.proposal
    BY LocalsParts
  <2>4. Sound(p) /\ p.before.fixed = FALSE /\ p.before.stmt \in Stmts
    BY <1>3, <2>2, <2>3 DEF BasicInv, FileInv, Fit
  <2>5. /\ FixedIn(l.src) = FixedIn(file) \cup {p.before.stmt}
        /\ p.before.stmt \notin FixedIn(file)
    BY <1>3, <2>3, <2>4, PatchFixesOne DEF BasicInv, TypeOK, FileInv
  <2>6. Fixes!Become(t, JobOf(pc[t], loc[t]), JobOf("write", l))
    BY <2>1, JobTurn DEF BasicInv
  <2>7. JobOf(pc[t], loc[t]) = Fixes!Admitted(l.f, p.before.stmt)
    BY <1>3, <2>1, <2>3, JobNames
  <2>8. JobOf("write", l) = Fixes!Writing(FixedIn(file) \cup {p.before.stmt})
    BY <2>5, JobNames
  <2>9. Fixes!Read(t, l.f, p.before.stmt)
    BY <1>1, <2>5, <2>6, <2>7, <2>8 DEF Fixes!Read
  <2> QED BY <2>2, <2>4, <2>9
<1> QED BY <1>2, <1>3, ApplyPatchOutcome

LEMMA WriteRefines ==
  ASSUME BasicInv, NEW t \in Workers, ApplyWrite(t)
  PROVE  \E text \in SUBSET Stmts : Fixes!Write(t, text)
<1>1. PICK l \in Locals : Goto(t, "write", "recMem", l)
  BY ApplyWriteOutcome
<1>2. Turn(t, "recMem", l) /\ pc[t] = "write"
  BY <1>1, StepNames, Moved DEF BasicInv
<1>3. PICK text : text = FixedIn(loc[t].src)
  OBVIOUS
<1>4. text \in SUBSET Stmts
  BY <1>3 DEF FixedIn
<1>5. Fixes!Become(t, Fixes!Writing(text), Fixes!NoJob)
  BY <1>2, <1>3, JobTurn, JobNames DEF BasicInv
<1>6. file' = loc[t].src /\ UNCHANGED <<model, approved>>
  BY DEF ApplyWrite, findings
<1>7. Fixes!Write(t, text)
  BY <1>3, <1>5, <1>6 DEF Fixes!Write
<1> QED BY <1>4, <1>7

LEMMA CopyRefines ==
  ASSUME BasicInv, NEW t \in Workers, Reprepare(t)
  PROVE  Fixes!Copy(t)
<1>1. PICK src \in Seq(Line) : src = file
  BY DEF BasicInv, TypeOK
<1>2. PICK l : l = [IdleLocals EXCEPT !.src = src]
  OBVIOUS
<1>3. l \in Locals /\ l.src = src
  BY <1>1, <1>2, IdleIsFit DEF Locals
<1>4. Turn(t, "model", l) /\ pc[t] = "idle"
  <2>1. Start(t, "model", l)
    BY <1>1, <1>2 DEF Reprepare
  <2> QED BY <1>3, <2>1, StepNames, Started DEF BasicInv
<1>5. Fixes!Become(t, Fixes!NoJob, Fixes!Copying(FixedIn(file)))
  <2>1. Fixes!Become(t, JobOf(pc[t], loc[t]), JobOf("model", l))
    BY <1>4, JobTurn DEF BasicInv
  <2>2. JobOf(pc[t], loc[t]) = Fixes!NoJob
    BY <1>4, JobNames
  <2>3. JobOf("model", l) = Fixes!Copying(FixedIn(file))
    BY <1>1, <1>3, JobNames
  <2> QED BY <2>1, <2>2, <2>3
<1>6. UNCHANGED <<file, model, approved>>
  BY DEF Reprepare, files, findings
<1> QED BY <1>5, <1>6 DEF Fixes!Copy

LEMMA PrepareRefines ==
  ASSUME BasicInv, NEW t \in Workers, WriteModel(t)
  PROVE  \E text \in SUBSET Stmts : Fixes!Prepare(t, text)
<1>1. Turn(t, "idle", IdleLocals) /\ pc[t] = "model"
  <2>1. Goto(t, "model", "idle", IdleLocals)
    BY DEF WriteModel
  <2> QED BY <2>1, StepNames, Moved, IdleIsFit DEF BasicInv
<1>2. PICK text : text = FixedIn(loc[t].src)
  OBVIOUS
<1>3. text \in SUBSET Stmts
  BY <1>2 DEF FixedIn
<1>4. Fixes!Become(t, Fixes!Copying(text), Fixes!NoJob)
  BY <1>1, <1>2, JobTurn, JobNames DEF BasicInv
<1>5. model' = loc[t].src /\ UNCHANGED <<file, approved>>
  BY DEF WriteModel, findings
<1>6. Fixes!Prepare(t, text)
  BY <1>2, <1>4, <1>5 DEF Fixes!Prepare
<1> QED BY <1>3, <1>6

(* Everything else a handler does is outside the promise. *)
LEMMA RestRefines ==
  ASSUME BasicInv, NEW t \in Workers,
         \/ \E f \in Ids : Propose(t, f) \/ Verify(t, f)
         \/ VerifyScan(t) \/ RecMem(t) \/ RecRow(t) \/ DbError(t)
  PROVE  Fixes!Abandon(t)
<1>1. UNCHANGED <<file, model, approved>>
  BY DEF Propose, Verify, VerifyScan, RecMem, RecRow, DbError, files, findings
<1>2. SUFFICES \E s \in {"idle", "scan", "recMem", "recRow"}, l \in Locals : Turn(t, s, l)
  BY <1>1, AbandonTurn DEF BasicInv
<1>3. ASSUME NEW f \in Ids, Propose(t, f) PROVE \E l \in Locals : Turn(t, "recMem", l)
  <2>1. PICK l : l = [f |-> f, src |-> <<>>,
                      rec |-> [status |-> IF BuildProposal(f, file).fix THEN "proposed"
                                          ELSE "no_fix_available",
                               proposal |-> BuildProposal(f, file)]]
    OBVIOUS
  <2>2. l \in Locals
    BY <1>3, <2>1, ProposedRecord DEF BasicInv, Propose
  <2>3. Start(t, "recMem", l)
    BY <1>3, <2>1 DEF Propose
  <2> QED BY <2>2, <2>3, StepNames, Started DEF BasicInv
<1>4. ASSUME NEW f \in Ids, Verify(t, f) PROVE \E l \in Locals : Turn(t, "scan", l)
  <2>1. PICK l : l = [f |-> f, rec |-> rec[f], src |-> <<>>]
    OBVIOUS
  <2>2. l \in Locals
    BY <2>1, TakenUpRecord DEF BasicInv
  <2>3. Start(t, "scan", l)
    BY <1>4, <2>1 DEF Verify
  <2> QED BY <2>2, <2>3, StepNames, Started DEF BasicInv
<1>5. CASE VerifyScan(t)
  <2>1. PICK l \in Locals : Goto(t, "scan", "recMem", l)
    BY <1>5, VerifyScanOutcome
  <2> QED BY <2>1, StepNames, Moved DEF BasicInv
<1>6. CASE RecMem(t)
  <2>1. PICK l \in Locals : l = loc[t]
    BY DEF BasicInv, TypeOK
  <2>2. Goto(t, "recMem", "recRow", l)
    BY <1>6, <2>1 DEF RecMem
  <2> QED BY <2>2, StepNames, Moved DEF BasicInv
<1>7. CASE RecRow(t)
  <2>1. Goto(t, "recRow", "idle", IdleLocals)
    BY <1>7 DEF RecRow
  <2> QED BY <2>1, StepNames, IdleIsFit, Moved DEF BasicInv
<1>8. CASE DbError(t)
  <2>1. Turn(t, "idle", IdleLocals)
    BY <1>8, StepNames, Turned, IdleIsFit DEF BasicInv, DbError
  <2> QED BY <2>1, IdleIsFit
<1> QED BY <1>3, <1>4, <1>5, <1>6, <1>7, <1>8

LEMMA FixesStep ==
  BasicInv /\ FitInv /\ [Next]_vars => [Fixes!Next]_(Fixes!absVars)
<1> SUFFICES ASSUME BasicInv, FitInv, [Next]_vars
             PROVE  [Fixes!Next]_(Fixes!absVars)
  OBVIOUS
<1>1. CASE ScanProject \/ UNCHANGED vars
  <2>1. UNCHANGED <<file, model, approved, pc, loc>>
    BY <1>1 DEF ScanProject, vars, files, findings
  <2> QED BY <2>1 DEF Fixes!absVars
<1>2. ASSUME NEW f \in Ids, Approve(f) \/ Withdraw(f) PROVE Fixes!Next
  <2>1. UNCHANGED <<file, model, pc, loc>>
    BY <1>2 DEF Approve, Withdraw, files
  <2>2. CASE Approve(f)
    <3>1. Fixes!Grant(f)
      BY <2>1, <2>2 DEF Approve, Fixes!Grant
    <3> QED BY <3>1 DEF Fixes!Next
  <2>3. CASE Withdraw(f)
    <3>1. Fixes!Revoke(f)
      BY <2>1, <2>3 DEF Withdraw, Fixes!Revoke
    <3> QED BY <3>1 DEF Fixes!Next
  <2> QED BY <1>2, <2>2, <2>3
<1>3. CASE Restart
  <2>1. /\ UNCHANGED <<file, model, approved>>
        /\ \A t \in Workers : pc'[t] = "idle" /\ loc'[t] = IdleLocals
    BY <1>3 DEF Restart, files, findings
  <2>2. Jobs' = [t \in Workers |-> Fixes!NoJob]
    BY <2>1, JobNames DEF Jobs
  <2>3. Fixes!Crash
    BY <2>1, <2>2 DEF Fixes!Crash, Jobs
  <2> QED BY <2>3 DEF Fixes!Next
<1>4. ASSUME NEW t \in Workers, Handle(t) PROVE Fixes!Next
  <2>1. CASE \E f \in Ids : Propose(t, f) \/ Verify(t, f)
    <3>1. Fixes!Abandon(t)
      BY <2>1, RestRefines
    <3> QED BY <3>1 DEF Fixes!Next
  <2>2. ASSUME NEW f \in Ids, Apply(t, f) PROVE Fixes!Next
    <3>1. PICK s \in Stmts : Fixes!Admit(t, f, s)
      BY <2>2, AdmitRefines
    <3> QED BY <3>1 DEF Fixes!Next
  <2>3. CASE Reprepare(t)
    <3>1. Fixes!Copy(t)
      BY <2>3, CopyRefines
    <3> QED BY <3>1 DEF Fixes!Next
  <2> QED BY <1>4, <2>1, <2>2, <2>3 DEF Handle
<1>5. ASSUME NEW t \in Workers, Continue(t) \/ DbError(t) PROVE Fixes!Next
  <2>1. CASE VerifyScan(t) \/ RecMem(t) \/ RecRow(t) \/ DbError(t)
    <3>1. Fixes!Abandon(t)
      BY <2>1, RestRefines
    <3> QED BY <3>1 DEF Fixes!Next
  <2>2. CASE ApplyPatch(t)
    <3>1. \/ Fixes!Abandon(t)
          \/ \E f \in Ids, s \in Stmts : Fixes!Read(t, f, s)
      BY <2>2, ReadRefines
    <3> QED BY <3>1 DEF Fixes!Next
  <2>3. CASE ApplyWrite(t)
    <3>1. PICK text \in SUBSET Stmts : Fixes!Write(t, text)
      BY <2>3, WriteRefines
    <3> QED BY <3>1 DEF Fixes!Next
  <2>4. CASE WriteModel(t)
    <3>1. PICK text \in SUBSET Stmts : Fixes!Prepare(t, text)
      BY <2>4, PrepareRefines
    <3> QED BY <3>1 DEF Fixes!Next
  <2> QED BY <1>5, <2>1, <2>2, <2>3, <2>4 DEF Continue
<1> QED BY <1>1, <1>2, <1>3, <1>4, <1>5 DEF Next

LEMMA FixesInit == Init => Fixes!Init
<1> SUFFICES ASSUME Init PROVE Fixes!Init
  OBVIOUS
<1>1. FixedIn(Original) = {}
  BY DEF FixedIn, Fixed, Original
<1>2. \A t \in Workers : JobOf(pc[t], loc[t]) = Fixes!NoJob
  BY JobNames DEF Init
<1> QED BY <1>1, <1>2 DEF Init, Fixes!Init

(* Every interleaving of proposals, applies, verifications, re-prepares,    *)
(* failed commits and restarts is a behaviour of FixLifecycle: what reaches *)
(* the source is the source an approved job read, with the one statement it *)
(* was admitted for fixed, and what is prepared is a copy of the source.    *)
THEOREM RemediationImplementsFixes == Spec => RemediationRefinesFixes
<1>1. BasicInv /\ FitInv /\ [Next]_vars => (BasicInv /\ FitInv)'
  BY BasicStep, FitStep
<1>2. BasicInv /\ FitInv /\ [Next]_vars => [Fixes!Next]_(Fixes!absVars)
  BY FixesStep
<1> QED BY <1>1, <1>2, BasicInit, FitInit, FixesInit, PTL
        DEF Spec, RemediationRefinesFixes, Fixes!Spec
----------------------------------------------------------------------------
(* Until an import is inserted, an id keeps naming one statement.           *)

NoImport(src) == \A i \in DOMAIN src : src[i] # Import

(* What is proposed under f's id is for the statement f's line names.       *)
Aims(f, p) == p.before.stmt = f.line
Own(f, r) == r.status # "none" => Aims(f, r.proposal)

(* Nothing has moved: not in the code model or a copy of the file under     *)
(* way, nor in what was reported or proposed.                               *)
UnmovedBody ==
  /\ NoImport(model)
  /\ \A f \in Ids : meant[f] \subseteq {f.line} /\ Own(f, rec[f]) /\ Own(f, recRow[f])
  /\ \A t \in Workers : /\ pc[t] \in Handling => Aims(loc[t].f, loc[t].rec.proposal)
                        /\ pc[t] = "model" => NoImport(loc[t].src)

(* A patch about to be written keeps the import, so that once there it stays. *)
UnmovedInv ==
  ~ overlap => /\ \A t \in Workers :
                    pc[t] = "write" => (NoImport(loc[t].src) => NoImport(file))
               /\ NoImport(file) => UnmovedBody

(* In a file without an inserted import the lines are the statements. *)
LEMMA UnmovedLine ==
  ASSUME NEW src \in Seq(Line), WellFormed(src), NoImport(src), NEW i \in DOMAIN src
  PROVE  src[i].stmt = i
<1>1. PICK k \in {0, 1} : Aligned(src, k)
  BY DEF WellFormed
<1>2. k = 0
  <2>1. k = 1 => 1 \in DOMAIN src /\ src[1] = Import
    BY <1>1, SizeIsNat DEF Aligned
  <2> QED BY <2>1 DEF NoImport
<1>3. i \in Stmts /\ i + 0 = i
  BY <1>1, <1>2, SizeIsNat DEF Aligned
<1> QED BY <1>1, <1>2, <1>3 DEF Aligned

LEMMA PatchKeepsImport ==
  ASSUME NEW src \in Seq(Line), NEW p \in Proposal, Sound(p), Applicable(p, src),
         NoImport(Patched(p, src))
  PROVE  NoImport(src)
<1>0. PICK z : z = Patched(p, src)
  OBVIOUS
<1>1. PICK k : k = IF p.import THEN 1 ELSE 0
  OBVIOUS
<1>2. /\ z \in Seq(Line) /\ Len(z) = Len(src) + k
      /\ \A i \in DOMAIN src :
           z[i + k] = IF i = p.line THEN [stmt |-> p.before.stmt, fixed |-> TRUE]
                      ELSE src[i]
  BY <1>0, <1>1, PatchedLines
<1>3. SUFFICES ASSUME NEW i \in DOMAIN src, src[i] = Import PROVE FALSE
  BY DEF NoImport
<1>4. i # p.line
  <2>1. src[p.line].stmt \in Stmts
    BY DEF Applicable, Sound
  <2>2. src[i].stmt = 0
    BY <1>3 DEF Import
  <2> QED BY <2>1, <2>2, SizeIsNat
<1>5. z[i + k] = Import
  BY <1>2, <1>3, <1>4
<1>6. i + k \in DOMAIN z
  BY <1>1, <1>2
<1> QED BY <1>0, <1>5, <1>6 DEF NoImport

LEMMA UnmovedTurn ==
  ASSUME NEW t \in Workers, NEW s \in Steps, NEW l, Turn(t, s, l),
         \A u \in Workers : u # t => pc[u] = "idle",
         s = "write" => (NoImport(l.src) => NoImport(file')),
         NoImport(file') =>
           /\ NoImport(model')
           /\ \A f \in Ids : /\ meant'[f] \subseteq {f.line}
                             /\ Own(f, rec'[f]) /\ Own(f, recRow'[f])
           /\ s \in Handling => Aims(l.f, l.rec.proposal)
           /\ s = "model" => NoImport(l.src)
  PROVE  UnmovedInv'
<1>1. pc'[t] = s /\ loc'[t] = l /\ \A u \in Workers : u # t => pc'[u] = "idle"
  BY DEF Turn
<1>2. \A u \in Workers :
        pc'[u] = "write" => (NoImport(loc'[u].src) => NoImport(file'))
  BY <1>1
<1>3. ASSUME NoImport(file') PROVE UnmovedBody'
  <2>1. ASSUME NEW u \in Workers
        PROVE  /\ pc'[u] \in Handling => Aims(loc'[u].f, loc'[u].rec.proposal)
               /\ pc'[u] = "model" => NoImport(loc'[u].src)
    <3>1. CASE u = t
      BY <1>1, <1>3, <3>1
    <3>2. CASE u # t
      BY <1>1, <3>2 DEF Handling
    <3> QED BY <3>1, <3>2
  <2> QED BY <1>3, <2>1 DEF UnmovedBody
<1> QED BY <1>2, <1>3 DEF UnmovedInv

(* A thread moves and leaves files, findings and records alone. *)
LEMMA UnmovedMove ==
  ASSUME UnmovedInv, ~ overlap, NEW t \in Workers, NEW s \in Steps, NEW l, Turn(t, s, l),
         \A u \in Workers : u # t => pc[u] = "idle",
         UNCHANGED <<files, findings, records>>,
         s = "write" => (NoImport(l.src) => NoImport(file)),
         NoImport(file) /\ UnmovedBody =>
           /\ s \in Handling => Aims(l.f, l.rec.proposal)
           /\ s = "model" => NoImport(l.src)
  PROVE  UnmovedInv'
<1>1. UNCHANGED <<file, model, meant, rec, recRow>>
  BY DEF files, findings, records
<1>2. NoImport(file) => UnmovedBody
  BY DEF UnmovedInv
<1>3. NoImport(file') =>
           /\ NoImport(model')
           /\ \A f \in Ids : /\ meant'[f] \subseteq {f.line}
                             /\ Own(f, rec'[f]) /\ Own(f, recRow'[f])
           /\ s \in Handling => Aims(l.f, l.rec.proposal)
           /\ s = "model" => NoImport(l.src)
  BY <1>1, <1>2 DEF UnmovedBody
<1> QED BY <1>1, <1>3, UnmovedTurn

LEMMA HandleUnmoved ==
  ASSUME BasicInv, UnmovedInv, ~ overlap', NEW t \in Workers, Handle(t)
  PROVE  UnmovedInv'
<1>1. ASSUME NEW s \in {"source", "scan", "recMem", "model"}, NEW l \in Locals,
             Start(t, s, l), UNCHANGED <<files, findings, records>>,
             NoImport(file) /\ UnmovedBody => (s \in Handling => Aims(l.f, l.rec.proposal)),
             s = "model" => l.src = file
      PROVE  UnmovedInv'
  <2>1. Turn(t, s, l) /\ ~ overlap /\ \A u \in Workers : pc[u] = "idle"
    BY <1>1, StepNames, Started DEF BasicInv
  <2> QED BY <1>1, <2>1, StepNames, UnmovedMove
<1>2. ASSUME NEW f \in Ids, Propose(t, f) PROVE UnmovedInv'
  <2>1. PICK p : p = BuildProposal(f, file)
    OBVIOUS
  <2>2. PICK l : l = [f |-> f, src |-> <<>>,
                      rec |-> [status |-> IF p.fix THEN "proposed" ELSE "no_fix_available",
                               proposal |-> p]]
    OBVIOUS
  <2>3. l \in Locals
    BY <1>2, <2>1, <2>2, ProposedRecord DEF BasicInv, Propose
  <2>4. Start(t, "recMem", l) /\ UNCHANGED <<files, findings, records>>
    BY <1>2, <2>1, <2>2 DEF Propose
  <2>5. ASSUME NoImport(file) PROVE Aims(l.f, l.rec.proposal)
    <3>1. p.before = file[f.line]
      BY <2>1 DEF BuildProposal, SqlProposal, CmdProposal
    <3>2. file[f.line].stmt = f.line
      BY <1>2, <2>5, UnmovedLine DEF Propose, BasicInv, TypeOK, FileInv
    <3> QED BY <2>2, <3>1, <3>2 DEF Aims
  <2> QED BY <1>1, <2>3, <2>4, <2>5
<1>3. ASSUME NEW f \in Ids, NEW s \in {"source", "scan"},
             Start(t, s, [f |-> f, rec |-> rec[f], src |-> <<>>]),
             rec[f].status # "none", UNCHANGED <<files, findings, records>>
      PROVE  UnmovedInv'
  <2>1. PICK l : l = [f |-> f, rec |-> rec[f], src |-> <<>>]
    OBVIOUS
  <2>2. l \in Locals /\ l.f = f /\ l.rec = rec[f]
    BY <2>1, TakenUpRecord DEF BasicInv
  <2>3. Start(t, s, l)
    BY <1>3, <2>1
  <2>4. UnmovedBody => Aims(l.f, l.rec.proposal)
    BY <1>3, <2>2 DEF UnmovedBody, Own
  <2> QED BY <1>1, <1>3, <2>2, <2>3, <2>4
<1>4. CASE Reprepare(t)
  <2>1. PICK src \in Seq(Line) : src = file
    BY DEF BasicInv, TypeOK
  <2>2. PICK l : l = [IdleLocals EXCEPT !.src = src]
    OBVIOUS
  <2>3. l \in Locals /\ l.src = file
    BY <2>1, <2>2, IdleIsFit DEF Locals
  <2>4. Start(t, "model", l) /\ UNCHANGED <<files, findings, records>>
    BY <1>4, <2>1, <2>2 DEF Reprepare
  <2>5. "model" \notin Handling
    BY DEF Handling
  <2> QED BY <1>1, <2>3, <2>4, <2>5
<1>5. ASSUME NEW f \in Ids, Apply(t, f) PROVE UnmovedInv'
  BY <1>3, <1>5 DEF Apply
<1>6. ASSUME NEW f \in Ids, Verify(t, f) PROVE UnmovedInv'
  BY <1>3, <1>6 DEF Verify
<1> QED BY <1>2, <1>4, <1>5, <1>6 DEF Handle

LEMMA ContinueUnmoved ==
  ASSUME BasicInv, SerialInv, UnmovedInv, ~ overlap', NEW t \in Workers, Continue(t)
  PROVE  UnmovedInv'
<1>0. ~ overlap /\ SerialBody
  BY DEF Continue, ApplyPatch, ApplyWrite, VerifyScan, RecMem, RecRow, WriteModel, Goto,
         counters, SerialInv
<1> DEFINE Alone == \A u \in Workers : u # t => pc[u] = "idle"
<1>1. CASE ApplyPatch(t)
  <2>0. UNCHANGED <<files, findings, records>>
    BY <1>1, ApplyPatchOutcome
  <2>1. ASSUME NEW l \in Locals, Goto(t, "source", "write", l),
               l.f = loc[t].f, l.rec = loc[t].rec, Sound(l.rec.proposal),
               Applicable(l.rec.proposal, file), l.src = Patched(l.rec.proposal, file)
        PROVE  UnmovedInv'
    <3>1. Turn(t, "write", l) /\ pc[t] = "source" /\ Alone
      BY <1>0, <2>1, StepNames, Moved, OthersIdle DEF BasicInv
    <3>2. NoImport(l.src) => NoImport(file)
      BY <2>1, LocalsParts, PatchKeepsImport DEF BasicInv, TypeOK
    <3>3. UnmovedBody => Aims(l.f, l.rec.proposal)
      BY <2>1, <3>1 DEF UnmovedBody, Handling
    <3> QED BY <1>0, <2>0, <3>1, <3>2, <3>3, StepNames, UnmovedMove
  <2>2. ASSUME NEW l \in Locals, Goto(t, "source", "recMem", l),
               l.f = loc[t].f, l.rec.proposal = loc[t].rec.proposal
        PROVE  UnmovedInv'
    <3>1. Turn(t, "recMem", l) /\ pc[t] = "source" /\ Alone
      BY <1>0, <2>2, StepNames, Moved, OthersIdle DEF BasicInv
    <3>2. UnmovedBody => Aims(l.f, l.rec.proposal)
      BY <2>2, <3>1 DEF UnmovedBody, Handling
    <3> QED BY <1>0, <2>0, <3>1, <3>2, StepNames, UnmovedMove
  <2> QED BY <1>1, <2>1, <2>2, ApplyPatchOutcome
<1>2. CASE VerifyScan(t)
  <2>1. PICK l \in Locals : /\ Goto(t, "scan", "recMem", l) /\ l.f = loc[t].f
                            /\ l.rec.proposal = loc[t].rec.proposal
    BY <1>2, VerifyScanOutcome
  <2>2. Turn(t, "recMem", l) /\ pc[t] = "scan" /\ Alone
    BY <1>0, <2>1, StepNames, Moved, OthersIdle DEF BasicInv
  <2>3. UnmovedBody => Aims(l.f, l.rec.proposal)
    BY <2>1, <2>2 DEF UnmovedBody, Handling
  <2>4. UNCHANGED <<files, findings, records>>
    BY <1>2, VerifyScanOutcome
  <2> QED BY <1>0, <2>2, <2>3, <2>4, StepNames, UnmovedMove
<1>3. CASE ApplyWrite(t)
  <2>1. PICK l \in Locals : /\ Goto(t, "write", "recMem", l) /\ l.f = loc[t].f
                            /\ l.rec.proposal = loc[t].rec.proposal
    BY <1>3, ApplyWriteOutcome
  <2>2. Turn(t, "recMem", l) /\ pc[t] = "write" /\ Alone
    BY <1>0, <2>1, StepNames, Moved, OthersIdle DEF BasicInv
  <2>3. file' = loc[t].src /\ UNCHANGED <<model, meant, rec, recRow>>
    BY <1>3 DEF ApplyWrite, findings, records
  <2>4. NoImport(file') => UnmovedBody
    BY <1>0, <2>2, <2>3 DEF UnmovedInv
  <2>5. NoImport(file') =>
          /\ NoImport(model')
          /\ \A f \in Ids : /\ meant'[f] \subseteq {f.line}
                            /\ Own(f, rec'[f]) /\ Own(f, recRow'[f])
          /\ Aims(l.f, l.rec.proposal)
    BY <2>1, <2>2, <2>3, <2>4 DEF UnmovedBody, Handling
  <2> QED BY <2>2, <2>5, StepNames, UnmovedTurn
<1>4. CASE RecMem(t)
  <2>1. PICK l \in Locals : l = loc[t]
    BY DEF BasicInv, TypeOK
  <2>2. Goto(t, "recMem", "recRow", l)
    BY <1>4, <2>1 DEF RecMem
  <2>3. Turn(t, "recRow", l) /\ pc[t] = "recMem" /\ Alone
    BY <1>0, <2>2, StepNames, Moved, OthersIdle DEF BasicInv
  <2>4. UNCHANGED <<file, model, meant, recRow>> /\ rec' = [rec EXCEPT ![l.f] = l.rec]
    BY <1>4, <2>1 DEF RecMem, files, findings
  <2>5. \A f \in Ids : rec'[f] = IF f = l.f THEN l.rec ELSE rec[f]
    BY <2>4 DEF BasicInv, TypeOK
  <2>6. NoImport(file') => UnmovedBody
    BY <1>0, <2>4 DEF UnmovedInv
  <2>7. NoImport(file') => Aims(l.f, l.rec.proposal)
    BY <2>1, <2>3, <2>6 DEF UnmovedBody, Handling
  <2>8. NoImport(file') =>
          /\ NoImport(model')
          /\ \A f \in Ids : /\ meant'[f] \subseteq {f.line}
                            /\ Own(f, rec'[f]) /\ Own(f, recRow'[f])
    BY <2>4, <2>5, <2>6, <2>7 DEF UnmovedBody, Own
  <2> QED BY <2>3, <2>7, <2>8, StepNames, UnmovedTurn
<1>5. CASE RecRow(t)
  <2>1. PICK l \in Locals : l = loc[t]
    BY DEF BasicInv, TypeOK
  <2>2. Goto(t, "recRow", "idle", IdleLocals)
    BY <1>5 DEF RecRow
  <2>3. Turn(t, "idle", IdleLocals) /\ pc[t] = "recRow" /\ Alone
    BY <1>0, <2>2, StepNames, IdleIsFit, Moved, OthersIdle DEF BasicInv
  <2>4. UNCHANGED <<file, model, meant, rec>> /\ recRow' = [recRow EXCEPT ![l.f] = l.rec]
    BY <1>5, <2>1 DEF RecRow, files, findings
  <2>5. \A f \in Ids : recRow'[f] = IF f = l.f THEN l.rec ELSE recRow[f]
    BY <2>4 DEF BasicInv, TypeOK
  <2>6. NoImport(file') => UnmovedBody
    BY <1>0, <2>4 DEF UnmovedInv
  <2>7. NoImport(file') => Aims(l.f, l.rec.proposal)
    BY <2>1, <2>3, <2>6 DEF UnmovedBody, Handling
  <2>8. NoImport(file') =>
          /\ NoImport(model')
          /\ \A f \in Ids : /\ meant'[f] \subseteq {f.line}
                            /\ Own(f, rec'[f]) /\ Own(f, recRow'[f])
    BY <2>4, <2>5, <2>6, <2>7 DEF UnmovedBody, Own
  <2>9. "idle" \notin Handling
    BY DEF Handling
  <2> QED BY <2>3, <2>8, <2>9, StepNames, UnmovedTurn
<1>6. CASE WriteModel(t)
  <2>1. Goto(t, "model", "idle", IdleLocals)
    BY <1>6 DEF WriteModel
  <2>2. Turn(t, "idle", IdleLocals) /\ pc[t] = "model" /\ Alone
    BY <1>0, <2>1, StepNames, IdleIsFit, Moved, OthersIdle DEF BasicInv
  <2>3. UNCHANGED <<file, meant, rec, recRow>> /\ model' = loc[t].src
    BY <1>6 DEF WriteModel, findings, records
  <2>4. NoImport(file') => UnmovedBody
    BY <1>0, <2>3 DEF UnmovedInv
  <2>5. NoImport(file') =>
          /\ NoImport(model')
          /\ \A f \in Ids : /\ meant'[f] \subseteq {f.line}
                            /\ Own(f, rec'[f]) /\ Own(f, recRow'[f])
    BY <2>2, <2>3, <2>4 DEF UnmovedBody
  <2>6. "idle" \notin Handling
    BY DEF Handling
  <2> QED BY <2>2, <2>5, <2>6, StepNames, UnmovedTurn
<1> QED BY <1>1, <1>2, <1>3, <1>4, <1>5, <1>6 DEF Continue

(* A scan reports under each id the statement on its line. *)
LEMMA ScanUnmoved ==
  ASSUME BasicInv, UnmovedInv, ScanProject
  PROVE  UnmovedInv'
<1>1. UNCHANGED <<file, model, rec, recRow, pc, loc, overlap>>
  BY DEF ScanProject, files, records, counters
<1>2. ASSUME NoImport(file), UnmovedBody, NEW f \in Ids
      PROVE  meant'[f] \subseteq {f.line}
  <2>1. f \in Scan(model) => model[f.line].stmt = f.line
    BY <1>2, UnmovedLine DEF Scan, UnmovedBody, BasicInv, TypeOK, FileInv
  <2>2. meant'[f] = IF f \in Scan(model) THEN meant[f] \cup {model[f.line].stmt} ELSE meant[f]
    BY DEF ScanProject
  <2>3. meant[f] \subseteq {f.line}
    BY <1>2 DEF UnmovedBody
  <2> QED BY <2>1, <2>2, <2>3
<1> QED BY <1>1, <1>2 DEF UnmovedInv, UnmovedBody

LEMMA RestartUnmoved ==
  ASSUME UnmovedInv, Restart
  PROVE  UnmovedInv'
<1>1. UNCHANGED <<file, model, meant, recRow, overlap>> /\ rec' = recRow
  BY DEF Restart, files, findings
<1>2. \A t \in Workers : pc'[t] = "idle"
  BY DEF Restart
<1> QED BY <1>1, <1>2 DEF UnmovedInv, UnmovedBody, Handling

LEMMA UnmovedStep == BasicInv /\ SerialInv /\ UnmovedInv /\ [Next]_vars => UnmovedInv'
<1> SUFFICES ASSUME BasicInv, SerialInv, UnmovedInv, [Next]_vars PROVE UnmovedInv'
  OBVIOUS
<1>1. CASE UNCHANGED vars \/ \E f \in Ids : Approve(f) \/ Withdraw(f)
  <2>1. UNCHANGED <<file, model, meant, rec, recRow, pc, loc, overlap>>
    BY <1>1 DEF Approve, Withdraw, files, records, counters, vars, findings
  <2> QED BY <2>1 DEF UnmovedInv, UnmovedBody
<1>2. CASE ScanProject
  BY <1>2, ScanUnmoved
<1>3. CASE Restart
  BY <1>3, RestartUnmoved
<1>4. ASSUME NEW t \in Workers, Handle(t) \/ Continue(t) PROVE UnmovedInv'
  <2>1. CASE ~ overlap'
    BY <1>4, <2>1, HandleUnmoved, ContinueUnmoved
  <2>2. CASE overlap'
    BY <2>2 DEF UnmovedInv
  <2> QED BY <2>1, <2>2
<1>5. ASSUME NEW t \in Workers, DbError(t) PROVE UnmovedInv'
  <2>1. Turn(t, "idle", IdleLocals) /\ pc[t] = "recRow" /\ overlap' = overlap
    BY <1>5, StepNames, Turned, IdleIsFit DEF BasicInv, DbError
  <2>2. UNCHANGED <<files, findings, records>>
    BY <1>5 DEF DbError
  <2>3. CASE ~ overlap
    <3>1. \A u \in Workers : u # t => pc[u] = "idle"
      BY <2>1, <2>3, OthersIdle DEF SerialInv
    <3>2. "idle" \notin Handling
      BY DEF Handling
    <3> QED BY <2>1, <2>2, <2>3, <3>1, <3>2, StepNames, UnmovedMove
  <2>4. CASE overlap
    BY <2>1, <2>4 DEF UnmovedInv
  <2> QED BY <2>3, <2>4
<1> QED BY <1>1, <1>2, <1>3, <1>4, <1>5 DEF Next

LEMMA UnmovedInit == Init => UnmovedInv
<1> SUFFICES ASSUME Init PROVE UnmovedInv
  OBVIOUS
<1>1. NoImport(model)
  BY SizeIsNat DEF Init, NoImport, Original, Import
<1> QED BY <1>1, IdleIsFit DEF Init, UnmovedInv, UnmovedBody, Own, Handling

(* Until a patch has inserted an import, and while handlers do not overlap, *)
(* a remediation recorded as applied, verified or still present has fixed   *)
(* every statement ever reported under its finding's id: inserted imports   *)
(* are the only reason for the verdicts of VerifiedMeansFixed to be wrong.  *)
THEOREM FixFixesItsFinding == Spec => []FixIsOfTheFinding
<1>1. BasicInv /\ SerialInv /\ UnmovedInv => FixIsOfTheFinding
  <2> SUFFICES ASSUME BasicInv, SerialInv, UnmovedInv, ~ overlap, NoImport(file),
                      NEW f \in Ids, rec[f].status \in Done, NEW s \in meant[f]
               PROVE  Fixed(file, s)
    BY DEF FixIsOfTheFinding, Done, NoImport
  <2>1. s = f.line
    BY DEF UnmovedInv, UnmovedBody
  <2>2. rec[f].proposal.before.stmt = f.line
    BY DEF UnmovedInv, UnmovedBody, Own, Aims, Done
  <2>3. Fixed(file, rec[f].proposal.before.stmt)
    BY DEF SerialInv, SerialBody, Told
  <2> QED BY <2>1, <2>2, <2>3
<1>2. BasicInv /\ SerialInv /\ UnmovedInv /\ [Next]_vars => UnmovedInv'
  BY UnmovedStep
<1> QED BY <1>1, <1>2, UnmovedInit, RemediationInvariant, PTL DEF Spec
=============================================================================
