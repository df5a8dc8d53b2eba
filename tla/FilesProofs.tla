----------------------------- MODULE FilesProofs -----------------------------
(***************************************************************************)
(* TLAPS proofs about Files: the sed range of write_hosts for every hosts  *)
(* file, and the invariants of the file scripts, for any set of plans, any *)
(* number of scripts at once and any bounds.                               *)
(***************************************************************************)
EXTENDS Files, SequenceTheorems, FiniteSetTheorems, WellFoundedInduction, TLAPS
-----------------------------------------------------------------------------
(* What sed keeps.                                                         *)

\* Induction over the natural numbers, said of a set of numbers.
LEMMA Induction ==
  ASSUME NEW T \in SUBSET Nat, 0 \in T, \A n \in T : n + 1 \in T
  PROVE  T = Nat
<1> DEFINE Rest == Nat \ T
           Less == OpToRel(<, Nat)
<1>1. SUFFICES ASSUME Rest # {} PROVE FALSE
  OBVIOUS
<1>2. PICK m \in Rest : \A n \in Rest : <<n, m>> \notin Less
  <2> HIDE DEF Less
  <2>1. IsWellFoundedOn(Less, Nat)
    BY NatLessThanWellFounded DEF Less
  <2>2. QED
    BY <1>1, <2>1, WFMin
<1>3. m - 1 \in Nat /\ m - 1 < m /\ (m - 1) + 1 = m
  OBVIOUS
<1>4. m - 1 \in T
  BY <1>2, <1>3 DEF OpToRel
<1>5. QED
  BY <1>3, <1>4

\* f[i] is what is kept of the first i lines, for i up to n.
Keeps(ls, n, f) ==
  f = [i \in 0 .. n |->
         IF i = 0 THEN <<>>
         ELSE IF Deleted(ls, i) THEN f[i - 1] ELSE Append(f[i - 1], ls[i])]

\* ... said line by line.
KeepsEach(ls, n, f) ==
  /\ f[0] = <<>>
  /\ \A i \in 1 .. n : f[i] = IF Deleted(ls, i) THEN f[i - 1] ELSE Append(f[i - 1], ls[i])

\* There is one such function.
LEMMA KeepsUnique ==
  ASSUME NEW ls, NEW n \in Nat, NEW f, NEW g, KeepsEach(ls, n, f), KeepsEach(ls, n, g)
  PROVE  \A i \in 0 .. n : f[i] = g[i]
<1> DEFINE T == {i \in Nat : i <= n => f[i] = g[i]}
<1>1. 0 \in T
  BY DEF KeepsEach
<1>2. ASSUME NEW i \in T PROVE i + 1 \in T
  <2>1. SUFFICES ASSUME i + 1 <= n PROVE f[i + 1] = g[i + 1]
    OBVIOUS
  <2>2. i + 1 \in 1 .. n /\ (i + 1) - 1 = i /\ f[i] = g[i]
    BY <2>1
  <2>3. QED
    BY <2>2 DEF KeepsEach
<1>3. T = Nat
  <2> HIDE DEF T
  <2>1. T \subseteq Nat
    BY DEF T
  <2>2. QED
    BY <1>1, <1>2, <2>1, Induction
<1>4. QED
  BY <1>3

\* There is one, and it yields sequences of the same texts.
LEMMA KeepsExists ==
  ASSUME NEW S, NEW ls \in Seq(S)
  PROVE  \E f \in [0 .. Len(ls) -> Seq(S)] : Keeps(ls, Len(ls), f)
<1> DEFINE T == {n \in Nat : n <= Len(ls) =>
                   \E f \in [0 .. n -> Seq(S)] : Keeps(ls, n, f)}
<1>1. 0 \in T
  <2> DEFINE f == [i \in 0 .. 0 |-> <<>>]
  <2>1. f \in [0 .. 0 -> Seq(S)]
    OBVIOUS
  <2>2. Keeps(ls, 0, f)
    BY DEF Keeps
  <2>3. QED
    BY <2>1, <2>2
<1>2. ASSUME NEW n \in T PROVE n + 1 \in T
  <2>1. SUFFICES ASSUME n + 1 <= Len(ls)
                 PROVE  \E f \in [0 .. n + 1 -> Seq(S)] : Keeps(ls, n + 1, f)
    OBVIOUS
  <2>2. PICK f \in [0 .. n -> Seq(S)] : Keeps(ls, n, f)
    BY <2>1
  <2> DEFINE next == IF Deleted(ls, n + 1) THEN f[n] ELSE Append(f[n], ls[n + 1])
             g    == [i \in 0 .. n + 1 |-> IF i = n + 1 THEN next ELSE f[i]]
  <2>3. next \in Seq(S)
    <3>1. f[n] \in Seq(S) /\ ls[n + 1] \in S
      BY <2>1
    <3>2. QED
      BY <3>1
  <2> HIDE DEF next
  <2>4. g \in [0 .. n + 1 -> Seq(S)]
    BY <2>3
  <2>5. ASSUME NEW i \in 0 .. n + 1
        PROVE  g[i] = IF i = 0 THEN <<>>
                      ELSE IF Deleted(ls, i) THEN g[i - 1] ELSE Append(g[i - 1], ls[i])
    <3>1. CASE i = n + 1
      BY <3>1 DEF next
    <3>2. CASE i \in 0 .. n
      <4>1. f[i] = IF i = 0 THEN <<>>
                   ELSE IF Deleted(ls, i) THEN f[i - 1] ELSE Append(f[i - 1], ls[i])
        BY <2>2, <3>2 DEF Keeps
      <4>2. g[i] = f[i] /\ (i # 0 => g[i - 1] = f[i - 1])
        BY <3>2
      <4>3. QED
        BY <4>1, <4>2
    <3>3. QED
      BY <3>1, <3>2
  <2>6. Keeps(ls, n + 1, g)
    <3> HIDE DEF g
    <3>1. g = [i \in 0 .. n + 1 |-> g[i]]
      BY <2>4
    <3>2. QED
      BY <2>5, <3>1 DEF Keeps
  <2>7. QED
    BY <2>4, <2>6
<1>3. T = Nat
  <2> HIDE DEF T
  <2>1. T \subseteq Nat
    BY DEF T
  <2>2. QED
    BY <1>1, <1>2, <2>1, Induction
<1>4. Len(ls) \in T /\ Len(ls) <= Len(ls)
  <2>1. Len(ls) \in Nat
    OBVIOUS
  <2>2. QED
    BY <1>3, <2>1
<1>5. QED
  BY <1>4

\* Whatever satisfies the equations says what sed keeps.
LEMMA KeptIs ==
  ASSUME NEW S, NEW ls \in Seq(S), NEW f, KeepsEach(ls, Len(ls), f)
  PROVE  Kept(ls) = f[Len(ls)] /\ Kept(ls) \in Seq(S)
<1> DEFINE n == Len(ls)
           keep == CHOOSE g : Keeps(ls, n, g)
<1>1. n \in Nat
  OBVIOUS
<1>2. PICK g \in [0 .. n -> Seq(S)] : Keeps(ls, n, g)
  BY KeepsExists
<1>3. Kept(ls) = keep[n]
  BY DEF Kept, Keeps
<1>4. Keeps(ls, n, keep)
  BY <1>2
<1> HIDE DEF keep, n
<1>5. ASSUME NEW h, Keeps(ls, n, h) PROVE KeepsEach(ls, n, h)
  <2>1. h[0] = <<>>
    BY <1>1, <1>5 DEF Keeps
  <2>2. ASSUME NEW i \in 1 .. n
        PROVE  h[i] = IF Deleted(ls, i) THEN h[i - 1] ELSE Append(h[i - 1], ls[i])
    <3>1. i \in 0 .. n /\ i # 0
      BY <1>1
    <3>2. QED
      BY <1>5, <3>1 DEF Keeps
  <2>3. QED
    BY <2>1, <2>2 DEF KeepsEach
<1>6. KeepsEach(ls, n, f)
  BY DEF n
<1>7. keep[n] = f[n] /\ keep[n] = g[n]
  <2>1. n \in 0 .. n
    BY <1>1
  <2>2. \A i \in 0 .. n : keep[i] = f[i]
    BY <1>1, <1>4, <1>5, <1>6, KeepsUnique
  <2>3. \A i \in 0 .. n : keep[i] = g[i]
    BY <1>1, <1>2, <1>4, <1>5, KeepsUnique
  <2>4. QED
    BY <2>1, <2>2, <2>3
<1>8. n \in 0 .. n
  BY <1>1
<1>9. QED
  BY <1>2, <1>3, <1>7, <1>8 DEF n

\* sed yields lines, whatever it reads.
LEMMA KeptType ==
  ASSUME NEW S, NEW ls \in Seq(S)
  PROVE  Kept(ls) \in Seq(S)
<1>1. PICK f \in [0 .. Len(ls) -> Seq(S)] : Keeps(ls, Len(ls), f)
  BY KeepsExists
<1>2. Len(ls) \in Nat
  OBVIOUS
<1>3. KeepsEach(ls, Len(ls), f)
  <2>1. f[0] = <<>>
    BY <1>1, <1>2 DEF Keeps
  <2>2. ASSUME NEW i \in 1 .. Len(ls)
        PROVE  f[i] = IF Deleted(ls, i) THEN f[i - 1] ELSE Append(f[i - 1], ls[i])
    <3>1. i \in 0 .. Len(ls) /\ i # 0
      BY <1>2
    <3>2. QED
      BY <1>1, <3>1 DEF Keeps
  <2>3. QED
    BY <2>1, <2>2 DEF KeepsEach
<1>4. QED
  BY <1>3, KeptIs

\* Without a begin marker sed keeps everything.
LEMMA NoBlockKept ==
  ASSUME NEW S, NEW ls \in Seq(S), \A i \in 1 .. Len(ls) : ls[i] # "begin"
  PROVE  Kept(ls) = ls
<1> DEFINE f == [i \in 0 .. Len(ls) |-> SubSeq(ls, 1, i)]
<1>1. \A i \in 1 .. Len(ls) : ~Deleted(ls, i)
  BY DEF Deleted
<1>2. f[0] = <<>>
  BY EmptySeq
<1>3. ASSUME NEW i \in 1 .. Len(ls) PROVE f[i] = Append(f[i - 1], ls[i])
  <2>1. SubSeq(ls, 1, i) = Append(SubSeq(ls, 1, i - 1), ls[i])
    BY SMT
  <2>2. QED
    BY <2>1
<1>4. KeepsEach(ls, Len(ls), f)
  <2> HIDE DEF f
  <2>1. QED
    BY <1>1, <1>2, <1>3 DEF KeepsEach
<1>5. f[Len(ls)] = ls
  BY SMT
<1>6. QED
  BY <1>4, <1>5, KeptIs

\* One complete block goes, and what is around it stays.
LEMMA BlockGoes ==
  ASSUME NEW S, NEW P \in Seq(S), NEW Q \in Seq(S), NEW e \in S,
         "begin" \in S, "end" \in S, e # "begin", e # "end",
         \A i \in 1 .. Len(P) : P[i] # "begin",
         \A i \in 1 .. Len(Q) : Q[i] # "begin"
  PROVE  Kept((P \o <<"begin", e, "end">>) \o Q) = P \o Q
<1> DEFINE ls == (P \o <<"begin", e, "end">>) \o Q
           p  == Len(P)
<1>1. /\ ls \in Seq(S) /\ p \in Nat /\ Len(Q) \in Nat
      /\ Len(ls) = p + 3 + Len(Q)
      /\ \A i \in 1 .. p : ls[i] = P[i]
      /\ ls[p + 1] = "begin" /\ ls[p + 2] = e /\ ls[p + 3] = "end"
      /\ \A i \in p + 4 .. Len(ls) : ls[i] = Q[i - p - 3]
  OBVIOUS
<1> HIDE DEF ls
<1>2. \A i \in 1 .. Len(ls) : ls[i] = "begin" => i = p + 1
  <2>1. TAKE i \in 1 .. Len(ls)
  <2>2. CASE i \in 1 .. p
    BY <1>1, <2>2
  <2>3. CASE i \in p + 1 .. p + 3
    <3>1. p \in Nat
      OBVIOUS
    <3>2. i = p + 1 \/ i = p + 2 \/ i = p + 3
      BY <2>3, <3>1
    <3>3. QED
      BY <1>1, <3>2
  <2>4. CASE i \in p + 4 .. Len(ls)
    <3>1. i - p - 3 \in 1 .. Len(Q)
      BY <1>1, <2>4
    <3>2. QED
      BY <1>1, <2>4, <3>1
  <2>5. QED
    BY <1>1, <2>2, <2>3, <2>4
<1>3. \A i \in 1 .. Len(ls) : Deleted(ls, i) <=> i \in p + 1 .. p + 3
  <2>1. ASSUME NEW i \in p + 1 .. p + 3 PROVE Deleted(ls, i)
    <3>1. p + 1 \in 1 .. i
      BY <1>1
    <3>2. ASSUME NEW k \in (p + 1) + 1 .. i - 1 PROVE ls[k] # "end"
      <4>1. k = p + 2
        BY <1>1
      <4>2. QED
        BY <1>1, <4>1
    <3>3. ls[p + 1] = "begin"
      BY <1>1
    <3>4. QED
      BY <3>1, <3>2, <3>3 DEF Deleted
  <2>2. ASSUME NEW i \in 1 .. Len(ls), Deleted(ls, i) PROVE i \in p + 1 .. p + 3
    <3>1. PICK b \in 1 .. i : ls[b] = "begin" /\ \A k \in b + 1 .. i - 1 : ls[k] # "end"
      BY <2>2 DEF Deleted
    <3>2. b = p + 1
      BY <1>1, <1>2, <3>1
    <3>3. ~(p + 3 < i)
      BY <1>1, <3>1, <3>2
    <3>4. QED
      BY <1>1, <3>2, <3>3
  <2>3. QED
    BY <2>1, <2>2
<1> DEFINE f == [i \in 0 .. Len(ls) |->
                   IF i <= p THEN SubSeq(P, 1, i)
                   ELSE IF i <= p + 3 THEN P ELSE P \o SubSeq(Q, 1, i - p - 3)]
<1>4. f[0] = <<>>
  BY <1>1, SMT
<1>5. ASSUME NEW i \in 1 .. Len(ls)
      PROVE  f[i] = IF Deleted(ls, i) THEN f[i - 1] ELSE Append(f[i - 1], ls[i])
  <2>1. CASE i \in 1 .. p
    <3>1. f[i] = SubSeq(P, 1, i) /\ f[i - 1] = SubSeq(P, 1, i - 1) /\ ls[i] = P[i]
      BY <1>1, <2>1
    <3>2. SubSeq(P, 1, i) = Append(SubSeq(P, 1, i - 1), P[i])
      BY <2>1, SMT
    <3>3. ~Deleted(ls, i)
      BY <1>1, <1>3, <2>1
    <3>4. QED
      BY <3>1, <3>2, <3>3
  <2>2. CASE i \in p + 1 .. p + 3
    <3>1. f[i] = P
      BY <1>1, <2>2
    <3>2. f[i - 1] = P
      <4>1. CASE i = p + 1
        <5>1. f[i - 1] = SubSeq(P, 1, p)
          BY <1>1, <4>1
        <5>2. SubSeq(P, 1, p) = P
          BY SMT
        <5>3. QED
          BY <5>1, <5>2
      <4>2. CASE i # p + 1
        BY <1>1, <2>2, <4>2
      <4>3. QED
        BY <4>1, <4>2
    <3>3. QED
      BY <1>3, <2>2, <3>1, <3>2
  <2>3. CASE i \in p + 4 .. Len(ls)
    <3> DEFINE j == i - p - 3
    <3>1. j \in 1 .. Len(Q) /\ ls[i] = Q[j] /\ i - 1 = (j - 1) + p + 3
      BY <1>1, <2>3
    <3>2. f[i] = P \o SubSeq(Q, 1, j)
      <4>1. i \in 0 .. Len(ls) /\ ~(i <= p) /\ ~(i <= p + 3)
        BY <1>1, <2>3
      <4>2. QED
        BY <4>1
    <3>3. f[i - 1] = P \o SubSeq(Q, 1, j - 1)
      <4>1. CASE j = 1
        <5>1. f[i - 1] = P
          BY <1>1, <2>3, <4>1
        <5>2. P \o SubSeq(Q, 1, 0) = P
          BY SMT
        <5>3. QED
          BY <4>1, <5>1, <5>2
      <4>2. CASE j # 1
        <5>1. /\ i - 1 \in 0 .. Len(ls) /\ ~(i - 1 <= p) /\ ~(i - 1 <= p + 3)
              /\ (i - 1) - p - 3 = j - 1
          BY <1>1, <2>3, <4>2
        <5>2. QED
          BY <5>1
      <4>3. QED
        BY <4>1, <4>2
    <3>4. P \o SubSeq(Q, 1, j) = Append(P \o SubSeq(Q, 1, j - 1), Q[j])
      <4> HIDE DEF j
      <4>1. QED
        BY <3>1, SMT
    <3>5. ~Deleted(ls, i)
      BY <1>1, <1>3, <2>3
    <3>6. QED
      BY <3>1, <3>2, <3>3, <3>4, <3>5
  <2>4. QED
    BY <1>1, <2>1, <2>2, <2>3
<1>6. KeepsEach(ls, Len(ls), f)
  <2> HIDE DEF f
  <2>1. QED
    BY <1>4, <1>5 DEF KeepsEach
<1>7. f[Len(ls)] = P \o Q
  <2>1. CASE Len(Q) = 0
    <3>1. f[Len(ls)] = P
      BY <1>1, <2>1
    <3>2. P \o Q = P
      BY <2>1, SMT
    <3>3. QED
      BY <3>1, <3>2
  <2>2. CASE Len(Q) # 0
    <3>1. f[Len(ls)] = P \o SubSeq(Q, 1, Len(Q))
      BY <1>1, <2>2
    <3>2. SubSeq(Q, 1, Len(Q)) = Q
      BY SMT
    <3>3. QED
      BY <3>1, <3>2
  <2>3. QED
    BY <2>1, <2>2
<1>8. Kept(ls) = f[Len(ls)]
  BY <1>1, <1>6, KeptIs
<1>9. QED
  BY <1>7, <1>8 DEF ls
-----------------------------------------------------------------------------
(* The inductive invariant.                                                *)

Paths    == {"hosts", "path", "key", "cert"}
Names    == Reads \cup Writes \cup {"write_hosts", "make_cert"}
Contents == [lines : Seq(Text), open : BOOLEAN]
Labels   == Names \cup {"idle"}
Values   == Text \cup {""}
Runs     == [cmd : Labels, arg : Values, pc : Nat,
             buf : Contents, content : Contents, digest : Contents,
             alone : BOOLEAN, failed : BOOLEAN]

\* A slot is idle, or runs a delivered command and stands inside its script or
\* right behind it.
Within(r) ==
  \/ r = Idle
  \/ /\ r.cmd \in Names
     /\ r.pc \in 1 .. Len(Script(r.cmd)) + 1
     /\ r.failed => r.pc = Len(Script(r.cmd)) + 1
     /\ (r.cmd = "make_cert" /\ r.arg \in Pairs) \/ <<r.cmd, r.arg>> \in plan

Types ==
  /\ plan \in Plans /\ file \in [Paths -> Contents] /\ run \in [Slots -> Runs]
  /\ \A s \in Slots : Within(run[s])
  /\ start["hosts"] \in HostsFiles
  /\ overlapped \in 0 .. MaxOverlaps /\ torn \in 0 .. MaxTears
  /\ \A h \in {handed, refused, unspawned} : h \subseteq DOMAIN SizeOf

\* One relayed file is passed on only if file.write takes it.
Fits(c) == \A x \in DOMAIN SizeOf : c = Content(<<x>>) => B64(SizeOf[x]) <= RelayCapB64

Has(c, text) == \E i \in DOMAIN c.lines : c.lines[i] = text

\* What a run carries with it, whatever the others do.
Carries(r) ==
  ~r.failed =>
    /\ r.cmd \in Writes \cup {"make_cert"} => r.buf = Content(<<r.arg>>)
    /\ r.cmd \in Writes => Fits(r.buf)
    /\ r.cmd = "write_hosts" /\ r.pc > 1 => Has(r.buf, r.arg) /\ ~r.buf.open
    /\ r.cmd = "file.read" /\ r.pc = 2 => Fits(file["path"])
    /\ r.cmd = "file.read" /\ r.pc > 2 => Fits(r.content)
    /\ r.cmd = "windows.read" /\ r.pc > 1 => r.digest = r.content /\ Fits(r.content)
    /\ r.cmd = "windows.write" /\ r.pc > 1 => r.digest = r.buf

\* What the files hold while only this run is there.
Undisturbed(r) ==
  r.alone /\ ~r.failed =>
    /\ r.cmd = "write_hosts" =>
         /\ r.pc = 3 => file["hosts"] = Empty
         /\ r.pc > 3 => file["hosts"] = r.buf
    /\ r.cmd = "file.write" =>
         /\ r.pc = 2 => file["path"] = Empty
         /\ r.pc > 2 => file["path"] = r.buf
         /\ r.pc > 3 => r.digest = r.buf
    /\ r.cmd = "windows.write" /\ r.pc > 1 => file["path"] = r.buf
    /\ r.cmd = "file.read" =>
         /\ r.pc > 2 => file["path"] = r.content
         /\ r.pc > 3 => r.digest = r.content
    /\ r.cmd = "make_cert" =>
         /\ r.pc = 2 => file["key"] = Empty
         /\ r.pc > 2 => file["key"] = r.buf
         /\ r.pc = 4 => file["cert"] = Empty
         /\ r.pc > 4 => file["cert"] = r.buf
         /\ r.pc > 5 => r.content = r.buf
         /\ r.pc > 6 => r.digest = r.buf

RunInv == \A s \in Slots : Carries(run[s]) /\ Undisturbed(run[s])

\* Who is said to be alone is alone, and the last run was if nothing began
\* since.
AloneInv ==
  /\ \A s, t \in Slots : run[s] # Idle /\ run[t] # Idle /\ run[s].alone => s = t
  /\ last # Idle /\ last.alone => \A s \in Slots : run[s] = Idle
  /\ overlapped = 0 => \A s \in Slots : run[s].alone

RelayInv == /\ \A x \in handed : B64(SizeOf[x]) <= RelayCapB64
            /\ \A x \in refused : B64(SizeOf[x]) > RelayCapB64

\* The operator's lines.
Own == IF start["hosts"].lines = <<"own", "begin", "e1", "end", "own">>
         THEN <<"own", "own">> ELSE <<"own">>

\* What sequential runs of write_hosts make of a hosts file: as it was, with a
\* block at the end, or (if there was no newline at the end) with what is left
\* of a first block whose begin marker was lost, and perhaps a block behind it.
Form(c) ==
  \/ c = start["hosts"]
  \/ \E e \in Entries : c = Content(Own \o <<"begin", e, "end">>)
  \/ /\ start["hosts"].open
     /\ \/ \E e \in Entries : c = Content(Own \o <<e, "end">>)
        \/ \E d, e \in Entries : c = Content((Own \o <<d, "end">>) \o <<"begin", e, "end">>)

HostsInv ==
  overlapped = 0 /\ torn = 0 =>
    /\ (\A s \in Slots : ~(run[s].cmd = "write_hosts" /\ run[s].pc = 3))
         => Form(file["hosts"])
    /\ \A s \in Slots : run[s].cmd = "write_hosts" /\ run[s].pc \in 2 .. 3
                          => Form(run[s].buf)

IInv == /\ Types /\ RunInv /\ AloneInv /\ RelayInv /\ HostsInv
        /\ DigestMatches /\ WrittenIsThere
-----------------------------------------------------------------------------
(* Contents.                                                               *)

\* The sizes are numbers.
LEMMA Sizes == \A x \in DOMAIN SizeOf : SizeOf[x] \in Nat
  BY DEF SizeOf

\* The size of a content is a number.
LEMMA SizeIsNat == \A c : Size(c) \in Nat /\ RelayCapBytes \in Nat
  BY Sizes DEF Size, RelayCapBytes

\* What is within the cap before base64 is within it behind.
LEMMA CapIsEnough ==
  ASSUME NEW n \in Nat, n <= RelayCapBytes PROVE B64(n) <= RelayCapB64
  BY DEF RelayCapBytes, RelayCapB64, B64

\* What a read lets through fits.
LEMMA SmallFits ==
  ASSUME NEW c, Size(c) <= RelayCapBytes PROVE Fits(c)
<1>1. SUFFICES ASSUME NEW x \in DOMAIN SizeOf, c = Content(<<x>>)
               PROVE  B64(SizeOf[x]) <= RelayCapB64
  BY DEF Fits
<1>2. c.lines # <<>> /\ c.lines[1] = x
  BY <1>1 DEF Content
<1>3. Size(c) = SizeOf[x]
  BY <1>1, <1>2 DEF Size
<1>4. QED
  BY <1>1, <1>3, Sizes, CapIsEnough

\* A file that was emptied, and one with a single line.
LEMMA SimpleContents ==
  /\ Empty \in Contents /\ Fits(Empty)
  /\ \A t \in Text : Content(<<t>>) \in Contents
<1>1. <<>> \in Seq(Text)
  OBVIOUS
<1>2. Empty \in Contents
  BY <1>1 DEF Empty, Content, Contents
<1>3. \A x : Empty # Content(<<x>>)
  <2>1. \A x : <<>> # <<x>>
    OBVIOUS
  <2>2. QED
    BY <2>1 DEF Empty, Content
<1>4. ASSUME NEW t \in Text PROVE Content(<<t>>) \in Contents
  <2>1. <<t>> \in Seq(Text)
    OBVIOUS
  <2>2. QED
    BY <2>1 DEF Content, Contents
<1>5. QED
  BY <1>2, <1>3, <1>4 DEF Fits

\* "junk" is a text.
LEMMA JunkIsText == {"own", "begin", "end", "junk"} \subseteq Text /\ Entries \subseteq Text
  BY DEF Text

\* A write where another one wrote leaves a content, and none that a read
\* would hand out but the written one.
LEMMA OverFine ==
  ASSUME NEW new \in Contents, NEW old \in Contents, NEW c \in Over(new, old)
  PROVE  c \in Contents /\ (Fits(new) => Fits(c))
<1>1. CASE c = new
  BY <1>1
<1>2. CASE c # new
  <2>1. PICK k \in 2 .. Len(old.lines) :
          c = [lines |-> Append(new.lines, "junk") \o SubSeq(old.lines, k, Len(old.lines)),
               open |-> old.open]
    BY <1>2 DEF Over
  <2>2. new.lines \in Seq(Text) /\ old.lines \in Seq(Text) /\ old.open \in BOOLEAN
    BY DEF Contents
  <2> DEFINE tail == SubSeq(old.lines, k, Len(old.lines))
             head == Append(new.lines, "junk")
  <2>3. tail \in Seq(Text) /\ Len(tail) = Len(old.lines) - k + 1
    BY <2>1, <2>2
  <2>4. head \in Seq(Text) /\ Len(head) = Len(new.lines) + 1
    BY <2>2, JunkIsText
  <2> HIDE DEF tail, head
  <2>5. head \o tail \in Seq(Text) /\ Len(head \o tail) = Len(head) + Len(tail)
    BY <2>3, <2>4, ConcatProperties
  <2>6. Len(head \o tail) > 1
    <3>1. Len(new.lines) \in Nat /\ Len(old.lines) \in Nat
      BY <2>2
    <3>2. Len(tail) > 0
      BY <2>3, <3>1
    <3>3. Len(head) > 0
      BY <2>4, <3>1
    <3>4. Len(head) \in Nat /\ Len(tail) \in Nat
      BY <2>3, <2>4
    <3>5. QED
      BY <2>5, <3>2, <3>3, <3>4
  <2>7. \A x : head \o tail # <<x>>
    BY <2>6
  <2>8. c = [lines |-> head \o tail, open |-> old.open]
    BY <2>1 DEF head, tail
  <2>9. QED
    BY <2>2, <2>5, <2>7, <2>8 DEF Contents, Fits, Content
<1>3. QED
  BY <1>1, <1>2

\* On an emptied file a write leaves what it writes.
LEMMA OverEmpty ==
  ASSUME NEW new, NEW c \in Over(new, Empty) PROVE c = new
  BY DEF Over, Empty, Content

\* A write that is broken off leaves a content ...
LEMMA PartsType ==
  ASSUME NEW new \in Contents, NEW c \in Parts(new)
  PROVE  c \in Contents
<1>1. new.lines \in Seq(Text)
  BY DEF Contents
<1>2. CASE \E k \in 0 .. Len(new.lines) : c = Content(SubSeq(new.lines, 1, k))
  <2>1. PICK k \in 0 .. Len(new.lines) : c = Content(SubSeq(new.lines, 1, k))
    BY <1>2
  <2>2. SubSeq(new.lines, 1, k) \in Seq(Text)
    BY <1>1, <2>1
  <2>3. QED
    BY <2>1, <2>2 DEF Content, Contents
<1>3. CASE \E k \in 1 .. Len(new.lines) : \E x \in {"junk", new.lines[k]} :
              c = [lines |-> Append(SubSeq(new.lines, 1, k - 1), x), open |-> TRUE]
  <2>1. PICK k \in 1 .. Len(new.lines) : \E x \in {"junk", new.lines[k]} :
          c = [lines |-> Append(SubSeq(new.lines, 1, k - 1), x), open |-> TRUE]
    BY <1>3
  <2> PICK x \in {"junk", new.lines[k]} :
          c = [lines |-> Append(SubSeq(new.lines, 1, k - 1), x), open |-> TRUE]
    BY <2>1
  <2>2. x \in Text /\ SubSeq(new.lines, 1, k - 1) \in Seq(Text)
    BY <1>1, <2>1, JunkIsText
  <2>3. Append(SubSeq(new.lines, 1, k - 1), x) \in Seq(Text)
    BY <2>2
  <2>4. QED
    BY <2>1, <2>3 DEF Contents
<1>4. QED
  BY <1>2, <1>3 DEF Parts

\* ... and, of a relayed file, no other one.
LEMMA PartsFit ==
  ASSUME NEW a, Fits(Content(<<a>>)), NEW c \in Parts(Content(<<a>>))
  PROVE  Fits(c)
<1> DEFINE new == Content(<<a>>)
<1>1. new.lines = <<a>> /\ Len(new.lines) = 1
  BY DEF Content
<1>2. CASE \E k \in 0 .. Len(new.lines) : c = Content(SubSeq(new.lines, 1, k))
  <2>1. PICK k \in 0 .. 1 : c = Content(SubSeq(<<a>>, 1, k))
    BY <1>1, <1>2
  <2>2. CASE k = 0
    <3>1. SubSeq(<<a>>, 1, 0) = <<>>
      BY SMT
    <3>2. QED
      BY <2>1, <2>2, <3>1, SimpleContents DEF Empty
  <2>3. CASE k = 1
    <3>1. <<a>> \in Seq({a}) /\ Len(<<a>>) = 1
      OBVIOUS
    <3>2. \A ls \in Seq({a}) : SubSeq(ls, 1, Len(ls)) = ls
      BY SMT
    <3>3. SubSeq(<<a>>, 1, 1) = <<a>>
      BY <3>1, <3>2
    <3>4. QED
      BY <2>1, <2>3, <3>3
  <2>4. QED
    BY <2>2, <2>3
<1>3. CASE c.open = TRUE
  BY <1>3 DEF Fits, Content
<1>4. \/ c.open = TRUE
      \/ \E k \in 0 .. Len(new.lines) : c = Content(SubSeq(new.lines, 1, k))
  <2> HIDE DEF new
  <2>1. c \in Parts(new)
    BY DEF new
  <2>2. QED
    BY <2>1 DEF Parts
<1>5. QED
  BY <1>2, <1>3, <1>4

\* What write_hosts is about to write is a file with its own entry, and ends
\* in a newline.
LEMMA RewrittenFine ==
  ASSUME NEW c \in Contents, NEW e \in Entries
  PROVE  Rewritten(c, e) \in Contents /\ Has(Rewritten(c, e), e) /\ ~Rewritten(c, e).open
<1> DEFINE s == Sed(c)
           n == Len(s.lines)
           glued == [s.lines EXCEPT ![n] = IF @ \in {"begin", "end"} THEN "junk" ELSE @]
           tail  == IF s.open THEN <<e, "end">> ELSE <<"begin", e, "end">>
           front == IF s.open THEN glued ELSE s.lines
<1>1. s.lines \in Seq(Text)
  <2>1. s.lines = Kept(c.lines) /\ c.lines \in Seq(Text)
    BY DEF Sed, Contents
  <2>2. QED
    BY <2>1, KeptType
<1>2. Rewritten(c, e) = Content(front \o tail)
  BY DEF Rewritten
<1> HIDE DEF s
<1>3. front \in Seq(Text)
  <2>1. glued \in Seq(Text)
    <3>1. n \in Nat /\ DOMAIN s.lines = 1 .. n /\ s.lines \in [1 .. n -> Text]
      BY <1>1
    <3> DEFINE line == IF s.lines[n] \in {"begin", "end"} THEN "junk" ELSE s.lines[n]
    <3>2. n \in 1 .. n => line \in Text
      BY <3>1, JunkIsText
    <3>3. glued = [s.lines EXCEPT ![n] = line]
      OBVIOUS
    <3> HIDE DEF line, glued, n
    <3>4. glued \in [1 .. n -> Text]
      BY <3>1, <3>2, <3>3
    <3>5. QED
      BY <3>1, <3>4
  <2>2. QED
    BY <1>1, <2>1
<1>4. /\ tail \in Seq(Text) /\ Len(tail) \in 2 .. 3
      /\ tail[Len(tail) - 1] = e
  <2>1. {e, "begin", "end"} \subseteq Text
    BY JunkIsText
  <2>2. QED
    BY <2>1
<1> HIDE DEF front, tail
<1>5. /\ front \o tail \in Seq(Text) /\ Len(front \o tail) = Len(front) + Len(tail)
      /\ (front \o tail)[Len(front) + (Len(tail) - 1)] = e
  <2>1. \A i \in 1 .. Len(front) + Len(tail) :
          (front \o tail)[i] = IF i <= Len(front) THEN front[i] ELSE tail[i - Len(front)]
    BY <1>3, <1>4, ConcatProperties
  <2>2. front \o tail \in Seq(Text) /\ Len(front \o tail) = Len(front) + Len(tail)
    BY <1>3, <1>4, ConcatProperties
  <2> DEFINE p == Len(front)
             q == Len(tail)
  <2>3. p \in Nat /\ q \in 2 .. 3
    BY <1>3, <1>4
  <2> HIDE DEF p, q
  <2>4. p + (q - 1) \in 1 .. p + q /\ ~(p + (q - 1) <= p) /\ (p + (q - 1)) - p = q - 1
    BY <2>3
  <2>5. (front \o tail)[p + (q - 1)] = tail[q - 1]
    BY <2>1, <2>4 DEF p, q
  <2>6. QED
    BY <1>4, <2>2, <2>5 DEF p, q
<1>6. Len(front) + (Len(tail) - 1) \in DOMAIN (front \o tail)
  <2>1. DOMAIN (front \o tail) = 1 .. Len(front) + Len(tail)
    BY <1>5
  <2>2. Len(front) \in Nat /\ Len(tail) \in 2 .. 3
    BY <1>3, <1>4
  <2>3. QED
    BY <2>1, <2>2
<1>7. \A ls \in Seq(Text) : \A i \in DOMAIN ls :
        /\ Content(ls) \in Contents /\ ~Content(ls).open
        /\ ls[i] = e => Has(Content(ls), e)
  BY DEF Has, Content, Contents
<1>8. QED
  BY <1>2, <1>5, <1>6, <1>7
-----------------------------------------------------------------------------
(* Hosts files without overlap and deaths.                                 *)

\* The operator's lines come out of sed, whatever block is around them.
LEMMA OwnLines ==
  ASSUME start["hosts"] \in HostsFiles
  PROVE  /\ Own \in {<<"own">>, <<"own", "own">>}
         /\ Kept(start["hosts"].lines) = Own
         /\ ~Deleted(start["hosts"].lines, Len(start["hosts"].lines))
         /\ start["hosts"].lines # <<>>
<1> DEFINE S == {"own", "begin", "end", "e1"}
           ls == start["hosts"].lines
<1>1. ls \in {<<"own">>, <<"begin", "e1", "end", "own">>,
              <<"own", "begin", "e1", "end", "own">>}
  BY DEF HostsFiles
<1> HIDE DEF ls
<1>2. <<"own">> \in Seq(S) /\ <<>> \in Seq(S) /\ <<"own", "own">> \in Seq(S)
  OBVIOUS
<1>3. CASE ls = <<"own">>
  <2>1. Kept(ls) = <<"own">>
    <3>1. \A i \in 1 .. Len(<<"own">>) : <<"own">>[i] # "begin"
      OBVIOUS
    <3>2. QED
      BY <1>2, <1>3, <3>1, NoBlockKept
  <2>2. ~Deleted(ls, Len(ls))
    BY <1>3 DEF Deleted
  <2>3. QED
    BY <1>3, <2>1, <2>2 DEF Own, ls
<1>4. CASE ls = <<"begin", "e1", "end", "own">>
  <2>1. ls = (<<>> \o <<"begin", "e1", "end">>) \o <<"own">>
    BY <1>4
  <2>2. Kept(ls) = <<>> \o <<"own">>
    <3>1. /\ \A i \in 1 .. Len(<<"own">>) : <<"own">>[i] # "begin"
          /\ \A i \in 1 .. Len(<<>>) : <<>>[i] # "begin"
      OBVIOUS
    <3>2. {"begin", "end", "e1"} \subseteq S
      OBVIOUS
    <3> HIDE DEF S
    <3>3. QED
      BY <1>2, <2>1, <3>1, <3>2, BlockGoes
  <2>3. <<>> \o <<"own">> = <<"own">>
    OBVIOUS
  <2>4. ~Deleted(ls, Len(ls))
    BY <1>4 DEF Deleted
  <2>5. Own = <<"own">>
    BY <1>4 DEF Own, ls
  <2>6. QED
    BY <1>4, <2>2, <2>3, <2>4, <2>5 DEF ls
<1>5. CASE ls = <<"own", "begin", "e1", "end", "own">>
  <2>1. ls = (<<"own">> \o <<"begin", "e1", "end">>) \o <<"own">>
    BY <1>5
  <2>2. Kept(ls) = <<"own">> \o <<"own">>
    <3>1. \A i \in 1 .. Len(<<"own">>) : <<"own">>[i] # "begin"
      OBVIOUS
    <3>2. {"begin", "end", "e1"} \subseteq S
      OBVIOUS
    <3> HIDE DEF S
    <3>3. QED
      BY <1>2, <2>1, <3>1, <3>2, BlockGoes
  <2>3. <<"own">> \o <<"own">> = <<"own", "own">>
    <3> DEFINE twice == <<"own">> \o <<"own">>
    <3>1. \A i \in 1 .. Len(<<"own">>) + Len(<<"own">>) :
            twice[i] = IF i <= Len(<<"own">>) THEN <<"own">>[i]
                                              ELSE <<"own">>[i - Len(<<"own">>)]
      BY <1>2, ConcatProperties
    <3>2. twice \in Seq(S) /\ Len(twice) = Len(<<"own">>) + Len(<<"own">>)
      BY <1>2, ConcatProperties
    <3> HIDE DEF twice
    <3>3. twice \in Seq(S) /\ Len(twice) = 2 /\ twice[1] = "own" /\ twice[2] = "own"
      BY <3>1, <3>2
    <3>4. twice = <<"own", "own">>
      BY <3>3
    <3>5. QED
      BY <3>4 DEF twice
  <2>4. ~Deleted(ls, Len(ls))
    BY <1>5 DEF Deleted
  <2>5. Own = <<"own", "own">>
    BY <1>5 DEF Own, ls
  <2>6. QED
    BY <1>5, <2>2, <2>3, <2>4, <2>5 DEF ls
<1>6. QED
  BY <1>1, <1>3, <1>4, <1>5

\* The lines that no block of write_hosts covers.
LEMMA OwnFacts ==
  ASSUME start["hosts"] \in HostsFiles, NEW d \in Entries
  PROVE  /\ Own \in Seq(Text) /\ Len(Own) \in 1 .. 2
         /\ \A i \in 1 .. Len(Own) : Own[i] = "own"
         /\ Own \o <<d, "end">> \in Seq(Text)
         /\ \A i \in 1 .. Len(Own \o <<d, "end">>) : (Own \o <<d, "end">>)[i] # "begin"
<1> HIDE DEF Text
<1>1. {"own", "begin", "end"} \subseteq Text /\ d \in Text /\ d # "begin"
  BY JunkIsText DEF Entries
<1>2. Own = <<"own">> \/ Own = <<"own", "own">>
  BY OwnLines
<1>3. /\ Own \in Seq(Text) /\ Len(Own) \in 1 .. 2
      /\ \A i \in 1 .. Len(Own) : Own[i] = "own"
  <2>1. CASE Own = <<"own">>
    BY <1>1, <2>1
  <2>2. CASE Own = <<"own", "own">>
    BY <1>1, <2>2
  <2>3. QED
    BY <1>2, <2>1, <2>2
<1>4. <<d, "end">> \in Seq(Text) /\ \A i \in 1 .. Len(<<d, "end">>) : <<d, "end">>[i] # "begin"
  BY <1>1
<1> DEFINE more == Own \o <<d, "end">>
<1>5. /\ more \in Seq(Text) /\ Len(more) = Len(Own) + Len(<<d, "end">>)
      /\ \A i \in 1 .. Len(Own) + Len(<<d, "end">>) :
           more[i] = IF i <= Len(Own) THEN Own[i] ELSE <<d, "end">>[i - Len(Own)]
  BY <1>3, <1>4, ConcatProperties
<1> HIDE DEF more
<1>6. \A i \in 1 .. Len(more) : more[i] # "begin"
  <2>1. SUFFICES ASSUME NEW i \in 1 .. Len(more) PROVE more[i] # "begin"
    OBVIOUS
  <2>2. Len(<<d, "end">>) = 2
    OBVIOUS
  <2>3. CASE i <= Len(Own)
    <3>1. i \in 1 .. Len(Own) /\ more[i] = Own[i]
      BY <1>3, <1>5, <2>2, <2>3
    <3>2. QED
      BY <1>3, <3>1
  <2>4. CASE ~(i <= Len(Own))
    <3>1. i - Len(Own) \in 1 .. 2 /\ more[i] = <<d, "end">>[i - Len(Own)]
      BY <1>3, <1>5, <2>2, <2>4
    <3>2. QED
      BY <1>4, <2>2, <3>1
  <2>5. QED
    BY <2>3, <2>4
<1>7. QED
  BY <1>3, <1>5, <1>6 DEF more

\* write_hosts makes one of these forms out of another.
LEMMA RewrittenForm ==
  ASSUME start["hosts"] \in HostsFiles, NEW c, Form(c), NEW e \in Entries
  PROVE  Form(Rewritten(c, e))
<1> DEFINE Block(d) == <<"begin", d, "end">>
<1>1. ASSUME ~Sed(c).open PROVE Rewritten(c, e) = Content(Kept(c.lines) \o Block(e))
  <2>1. Sed(c).lines = Kept(c.lines)
    BY DEF Sed
  <2>2. QED
    BY <1>1, <2>1 DEF Rewritten
<1>2. \A P \in Seq(Text), d \in Entries :
        (\A i \in 1 .. Len(P) : P[i] # "begin") => Kept(P \o Block(d)) = P
  <2>1. TAKE P \in Seq(Text), d \in Entries
  <2>2. HAVE \A i \in 1 .. Len(P) : P[i] # "begin"
  <2>3. /\ d \in Text /\ {"begin", "end"} \subseteq Text /\ d # "begin" /\ d # "end"
        /\ <<>> \in Seq(Text) /\ \A i \in 1 .. Len(<<>>) : <<>>[i] # "begin"
    BY JunkIsText DEF Entries
  <2>4. Block(d) \in Seq(Text)
    BY <2>3
  <2> HIDE DEF Text
  <2>5. Kept((P \o Block(d)) \o <<>>) = P \o <<>>
    BY <2>2, <2>3, BlockGoes
  <2>6. P \o Block(d) \in Seq(Text)
    BY <2>4, ConcatProperties
  <2>7. QED
    BY <2>5, <2>6, ConcatEmptySeq
<1>3. CASE c = start["hosts"]
  <2>1. Sed(c).lines = Own /\ (Sed(c).open <=> c.open)
    <3>1. /\ c.open \in BOOLEAN
          /\ c.lines \in {<<"own">>, <<"begin", "e1", "end", "own">>,
                          <<"own", "begin", "e1", "end", "own">>}
      BY <1>3 DEF HostsFiles
    <3>2. Len(c.lines) > 0
      <4>1. /\ Len(<<"own">>) = 1 /\ Len(<<"begin", "e1", "end", "own">>) = 4
            /\ Len(<<"own", "begin", "e1", "end", "own">>) = 5
        OBVIOUS
      <4>2. Len(c.lines) = 1 \/ Len(c.lines) = 4 \/ Len(c.lines) = 5
        BY <3>1, <4>1, Zenon
      <4> DEFINE n == Len(c.lines)
      <4> HIDE DEF n
      <4>3. n = 1 \/ n = 4 \/ n = 5
        BY <4>2 DEF n
      <4>4. n > 0
        BY <4>3
      <4>5. QED
        BY <4>4 DEF n
    <3>3. QED
      BY <1>3, <3>1, <3>2, OwnLines DEF Sed
  <2>2. CASE c.open
    <3> DEFINE n == Len(Own)
               line == IF Own[n] \in {"begin", "end"} THEN "junk" ELSE Own[n]
    <3>1. Rewritten(c, e) = Content([Own EXCEPT ![n] = line] \o <<e, "end">>)
      BY <2>1, <2>2 DEF Rewritten
    <3>2. n \in 1 .. 2 /\ Own \in Seq(Text) /\ \A i \in 1 .. n : Own[i] = "own"
      BY OwnFacts
    <3>3. line = Own[n]
      BY <3>2
    <3>4. [Own EXCEPT ![n] = line] = Own
      <4> HIDE DEF n, line
      <4>1. Own = [i \in DOMAIN Own |-> Own[i]]
        BY <3>2
      <4>2. QED
        BY <3>3, <4>1
    <3>5. Rewritten(c, e) = Content(Own \o <<e, "end">>)
      BY <3>1, <3>4
    <3>6. QED
      BY <1>3, <2>2, <3>5 DEF Form
  <2>3. CASE ~c.open
    <3>1. Rewritten(c, e) = Content(Own \o Block(e))
      BY <1>1, <2>1, <2>3 DEF Sed
    <3>2. QED
      BY <3>1 DEF Form
  <2>4. QED
    BY <2>2, <2>3
<1>4. CASE \E d \in Entries : c = Content(Own \o Block(d))
  <2>1. PICK d \in Entries : c = Content(Own \o Block(d))
    BY <1>4
  <2>2. c.lines = Own \o Block(d) /\ ~Sed(c).open
    BY <2>1 DEF Content, Sed
  <2>3. \A i \in 1 .. Len(Own) : Own[i] # "begin"
    BY OwnFacts
  <2>4. Kept(c.lines) = Own
    BY <1>2, <2>2, <2>3, OwnFacts
  <2>5. Rewritten(c, e) = Content(Own \o Block(e))
    BY <1>1, <2>2, <2>4
  <2>6. QED
    BY <2>5 DEF Form
<1>5. CASE start["hosts"].open /\ \E d \in Entries : c = Content(Own \o <<d, "end">>)
  <2>1. PICK d \in Entries : c = Content(Own \o <<d, "end">>)
    BY <1>5
  <2>2. c.lines = Own \o <<d, "end">> /\ ~Sed(c).open
    BY <2>1 DEF Content, Sed
  <2>3. Kept(c.lines) = Own \o <<d, "end">>
    BY <2>2, OwnFacts, NoBlockKept
  <2>4. Rewritten(c, e) = Content((Own \o <<d, "end">>) \o Block(e))
    BY <1>1, <2>2, <2>3
  <2>5. QED
    BY <1>5, <2>4 DEF Form
<1>6. CASE /\ start["hosts"].open
           /\ \E d, f \in Entries : c = Content((Own \o <<d, "end">>) \o Block(f))
  <2>1. PICK d \in Entries, f \in Entries : c = Content((Own \o <<d, "end">>) \o Block(f))
    BY <1>6
  <2>2. c.lines = (Own \o <<d, "end">>) \o Block(f) /\ ~Sed(c).open
    BY <2>1 DEF Content, Sed
  <2>3. Kept(c.lines) = Own \o <<d, "end">>
    BY <1>2, <2>2, OwnFacts
  <2>4. Rewritten(c, e) = Content((Own \o <<d, "end">>) \o Block(e))
    BY <1>1, <2>2, <2>3
  <2>5. QED
    BY <1>6, <2>4 DEF Form
<1>7. QED
  BY <1>3, <1>4, <1>5, <1>6 DEF Form

\* A set whose elements are all the same has at most one.
LEMMA AtMostOne ==
  ASSUME NEW T, \A i, j \in T : i = j
  PROVE  IsFiniteSet(T) /\ Cardinality(T) <= 1
<1>1. CASE T = {}
  BY <1>1, FS_EmptySet
<1>2. CASE T # {}
  <2>1. PICK x \in T : T = {x}
    BY <1>2
  <2>2. IsFiniteSet({x}) /\ Cardinality({x}) = 1
    BY FS_Singleton
  <2>3. QED
    BY <2>1, <2>2
<1>3. QED
  BY <1>1, <1>2

\* What is put behind a file and holds none of the texts does not count.
LEMMA CountFront ==
  ASSUME NEW S, NEW P \in Seq(S), NEW Q \in Seq(S), NEW texts,
         \A i \in 1 .. Len(Q) : Q[i] \notin texts
  PROVE  Count(P \o Q, texts) = Count(P, texts)
<1> DEFINE ls == P \o Q
<1>1. /\ ls \in Seq(S) /\ Len(ls) = Len(P) + Len(Q)
      /\ \A i \in 1 .. Len(P) + Len(Q) : ls[i] = IF i <= Len(P) THEN P[i] ELSE Q[i - Len(P)]
  BY ConcatProperties
<1>2. Len(P) \in Nat /\ Len(Q) \in Nat /\ DOMAIN P = 1 .. Len(P)
  OBVIOUS
<1> HIDE DEF ls
<1>3. DOMAIN ls = 1 .. Len(P) + Len(Q)
  BY <1>1
<1>4. ASSUME NEW i \in DOMAIN ls, ls[i] \in texts PROVE i \in DOMAIN P /\ P[i] \in texts
  <2>1. CASE i <= Len(P)
    BY <1>1, <1>2, <1>3, <1>4, <2>1
  <2>2. CASE ~(i <= Len(P))
    <3>1. i - Len(P) \in 1 .. Len(Q) /\ ls[i] = Q[i - Len(P)]
      BY <1>1, <1>2, <1>3, <2>2
    <3>2. QED
      BY <1>4, <3>1
  <2>3. QED
    BY <2>1, <2>2
<1>5. ASSUME NEW i \in DOMAIN P, P[i] \in texts PROVE i \in DOMAIN ls /\ ls[i] \in texts
  BY <1>1, <1>2, <1>3, <1>5
<1>6. {i \in DOMAIN ls : ls[i] \in texts} = {i \in DOMAIN P : P[i] \in texts}
  BY <1>4, <1>5
<1>7. QED
  BY <1>6 DEF Count, ls

\* In every form the operator's lines are as many as they were, and behind a
\* newline there is at most one entry.
LEMMA FormCounts ==
  ASSUME start["hosts"] \in HostsFiles, NEW c, Form(c)
  PROVE  /\ Count(c.lines, {"own"}) = Count(start["hosts"].lines, {"own"})
         /\ ~start["hosts"].open => Count(c.lines, Entries) <= 1
<1> DEFINE ls == start["hosts"].lines
           Block(d) == <<"begin", d, "end">>
<1>1. ls \in {<<"own">>, <<"begin", "e1", "end", "own">>,
              <<"own", "begin", "e1", "end", "own">>}
  BY DEF HostsFiles
<1> HIDE DEF ls
<1>2. Count(Own, {"own"}) = Count(ls, {"own"})
  <2> DEFINE Where(q) == {i \in DOMAIN q : q[i] \in {"own"}}
  <2>1. CASE ls = <<"own">>
    BY <2>1 DEF Own, ls
  <2>2. CASE ls = <<"begin", "e1", "end", "own">>
    <3>1. Own = <<"own">>
      BY <2>2 DEF Own, ls
    <3>2. Where(<<"own">>) = {1} /\ Where(<<"begin", "e1", "end", "own">>) = {4}
      OBVIOUS
    <3>3. Cardinality({1}) = 1 /\ Cardinality({4}) = 1
      BY FS_Singleton
    <3>4. QED
      BY <2>2, <3>1, <3>2, <3>3 DEF Count
  <2>3. CASE ls = <<"own", "begin", "e1", "end", "own">>
    <3>1. Own = <<"own", "own">>
      BY <2>3 DEF Own, ls
    <3>2. /\ Where(<<"own", "own">>) = {1} \cup {2}
          /\ Where(<<"own", "begin", "e1", "end", "own">>) = {1} \cup {5}
      OBVIOUS
    <3>3. Cardinality({1} \cup {2}) = 2 /\ Cardinality({1} \cup {5}) = 2
      <4>1. IsFiniteSet({1}) /\ Cardinality({1}) = 1
        BY FS_Singleton
      <4>2. Cardinality({1} \cup {2}) = 1 + 1 /\ Cardinality({1} \cup {5}) = 1 + 1
        BY <4>1, FS_AddElement
      <4>3. QED
        BY <4>2
    <3>4. QED
      BY <2>3, <3>1, <3>2, <3>3 DEF Count
  <2>4. QED
    BY <1>1, <2>1, <2>2, <2>3
<1>3. /\ {"own", "begin", "end"} \subseteq Text
      /\ \A d \in Entries : d \in Text /\ d # "own"
      /\ \A d \in Entries : Block(d) \in Seq(Text) /\ <<d, "end">> \in Seq(Text)
  BY JunkIsText DEF Entries
<1> HIDE DEF Text
<1>4. Own \in Seq(Text) /\ \A d \in Entries : Own \o <<d, "end">> \in Seq(Text)
  <2>1. "e1" \in Entries
    BY DEF Entries
  <2>2. QED
    BY <2>1, OwnFacts
<1>5. ASSUME NEW d \in Entries
      PROVE  /\ Count(Own \o <<d, "end">>, {"own"}) = Count(Own, {"own"})
             /\ \A P \in Seq(Text) : Count(P \o Block(d), {"own"}) = Count(P, {"own"})
  <2>1. /\ \A i \in 1 .. Len(Block(d)) : Block(d)[i] \notin {"own"}
        /\ \A i \in 1 .. Len(<<d, "end">>) : <<d, "end">>[i] \notin {"own"}
    BY <1>3
  <2>2. Block(d) \in Seq(Text) /\ <<d, "end">> \in Seq(Text)
    BY <1>3
  <2>3. Count(Own \o <<d, "end">>, {"own"}) = Count(Own, {"own"})
    BY <1>4, <2>1, <2>2, CountFront
  <2>4. ASSUME NEW P \in Seq(Text) PROVE Count(P \o Block(d), {"own"}) = Count(P, {"own"})
    <3> HIDE DEF Block
    <3>1. QED
      BY <2>1, <2>2, CountFront
  <2>5. QED
    BY <2>3, <2>4
<1>6. CASE c = start["hosts"]
  <2>1. Count(ls, Entries) <= 1
    <3> DEFINE T == {i \in DOMAIN ls : ls[i] \in Entries}
    <3>1. \A i, j \in T : i = j
      <4>1. CASE ls = <<"own">>
        BY <4>1 DEF Entries
      <4>2. CASE ls = <<"begin", "e1", "end", "own">>
        BY <4>2 DEF Entries
      <4>3. CASE ls = <<"own", "begin", "e1", "end", "own">>
        BY <4>3 DEF Entries
      <4>4. QED
        BY <1>1, <4>1, <4>2, <4>3
    <3> HIDE DEF T
    <3>2. Cardinality(T) <= 1
      BY <3>1, AtMostOne
    <3>3. QED
      BY <3>2 DEF T, Count
  <2>2. QED
    BY <1>6, <2>1 DEF ls
<1>7. CASE \E d \in Entries : c = Content(Own \o Block(d))
  <2>1. PICK d \in Entries : c = Content(Own \o Block(d))
    BY <1>7
  <2>2. c.lines = Own \o Block(d)
    BY <2>1 DEF Content
  <2>3. Count(c.lines, {"own"}) = Count(Own, {"own"})
    <3>1. Count(Own \o Block(d), {"own"}) = Count(Own, {"own"})
      BY <1>4, <1>5
    <3>2. QED
      BY <2>2, <3>1
  <2>4. Count(c.lines, Entries) <= 1
    <3> DEFINE n == Len(Own)
               T == {i \in DOMAIN c.lines : c.lines[i] \in Entries}
    <3>1. /\ c.lines \in Seq(Text) /\ Len(c.lines) = n + Len(Block(d))
          /\ \A i \in 1 .. n + Len(Block(d)) :
               c.lines[i] = IF i <= n THEN Own[i] ELSE Block(d)[i - n]
      BY <1>3, <1>4, <2>2, ConcatProperties
    <3>2. n \in 1 .. 2 /\ \A i \in 1 .. n : Own[i] = "own"
      BY OwnFacts
    <3>3. Len(Block(d)) = 3 /\ Block(d)[1] = "begin" /\ Block(d)[3] = "end"
      OBVIOUS
    <3>4. ASSUME NEW i \in T PROVE i = n + 2
      <4>1. i \in 1 .. n + 3 /\ c.lines[i] \in Entries
        BY <3>1, <3>3
      <4>2. i <= n => c.lines[i] = "own"
        BY <3>1, <3>2, <3>3, <4>1
      <4>3. i = n + 1 => c.lines[i] = "begin"
        BY <3>1, <3>2, <3>3, <4>1
      <4>4. i = n + 3 => c.lines[i] = "end"
        BY <3>1, <3>2, <3>3, <4>1
      <4>5. i \in 1 .. n \/ i = n + 1 \/ i = n + 2 \/ i = n + 3
        BY <3>2, <4>1
      <4>6. QED
        BY <4>1, <4>2, <4>3, <4>4, <4>5 DEF Entries
    <3> HIDE DEF T
    <3>5. \A i, j \in T : i = j
      BY <3>4
    <3>6. Cardinality(T) <= 1
      BY <3>5, AtMostOne
    <3>7. QED
      BY <3>6 DEF T, Count
  <2>5. QED
    BY <1>2, <2>3, <2>4 DEF ls
<1>8. CASE start["hosts"].open /\ \E d \in Entries : c = Content(Own \o <<d, "end">>)
  <2>1. PICK d \in Entries : c = Content(Own \o <<d, "end">>)
    BY <1>8
  <2>2. c.lines = Own \o <<d, "end">>
    BY <2>1 DEF Content
  <2>3. Count(c.lines, {"own"}) = Count(Own, {"own"})
    <3>1. Count(Own \o <<d, "end">>, {"own"}) = Count(Own, {"own"})
      BY <1>5
    <3>2. QED
      BY <2>2, <3>1
  <2>4. QED
    BY <1>2, <1>8, <2>3 DEF ls
<1>9. CASE /\ start["hosts"].open
           /\ \E d, f \in Entries : c = Content((Own \o <<d, "end">>) \o Block(f))
  <2>1. PICK d \in Entries, f \in Entries : c = Content((Own \o <<d, "end">>) \o Block(f))
    BY <1>9
  <2>2. c.lines = (Own \o <<d, "end">>) \o Block(f)
    BY <2>1 DEF Content
  <2>3. Count(c.lines, {"own"}) = Count(Own \o <<d, "end">>, {"own"})
    BY <1>4, <1>5, <2>2
  <2>4. Count(Own \o <<d, "end">>, {"own"}) = Count(Own, {"own"})
    BY <1>5
  <2>5. QED
    BY <1>2, <1>9, <2>3, <2>4 DEF ls
<1>10. QED
  BY <1>6, <1>7, <1>8, <1>9 DEF Form
-----------------------------------------------------------------------------
(* The scripts.                                                            *)

\* The six scripts, by name.
LEMMA Scripts ==
  /\ Script("write_hosts") = WriteHosts /\ Len(WriteHosts) = 3
  /\ Script("make_cert") = MakeCert /\ Len(MakeCert) = 6
  /\ Script("file.read") = FileRead /\ Len(FileRead) = 3
  /\ Script("file.write") = FileWrite /\ Len(FileWrite) = 3
  /\ Script("windows.read") = WindowsRead /\ Len(WindowsRead) = 1
  /\ Script("windows.write") = WindowsWrite /\ Len(WindowsWrite) = 1
<1>1. /\ Len(WriteHosts) = 3 /\ Len(MakeCert) = 6 /\ Len(FileRead) = 3
      /\ Len(FileWrite) = 3 /\ Len(WindowsRead) = 1 /\ Len(WindowsWrite) = 1
  BY DEF WriteHosts, MakeCert, FileRead, FileWrite, WindowsRead, WindowsWrite
<1>2. QED
  BY <1>1 DEF Script

\* Where they end.
LEMMA Ends ==
  ASSUME NEW c, NEW n, n = Len(Script(c)) + 1
  PROVE  /\ c = "write_hosts" => n = 4
         /\ c = "make_cert" => n = 7
         /\ c \in {"file.read", "file.write"} => n = 4
         /\ c \in {"windows.read", "windows.write"} => n = 2
<1>1. ASSUME c = "write_hosts" PROVE n = 4
  <2>1. Len(Script(c)) = 3
    BY <1>1, Scripts
  <2>2. QED
    BY <2>1
<1>2. ASSUME c = "make_cert" PROVE n = 7
  <2>1. Len(Script(c)) = 6
    BY <1>2, Scripts
  <2>2. QED
    BY <2>1
<1>3. ASSUME c \in {"file.read", "file.write"} PROVE n = 4
  <2>1. Len(Script(c)) = 3
    BY <1>3, Scripts
  <2>2. QED
    BY <2>1
<1>4. ASSUME c \in {"windows.read", "windows.write"} PROVE n = 2
  <2>1. Len(Script(c)) = 1
    BY <1>4, Scripts
  <2>2. QED
    BY <2>1
<1>5. QED
  BY <1>1, <1>2, <1>3, <1>4

\* The steps at which each operation stands.
Steps ==
  {<<"edit", "write_hosts", 1, "hosts">>, <<"truncate", "write_hosts", 2, "hosts">>,
   <<"write", "write_hosts", 3, "hosts">>,
   <<"truncate", "make_cert", 1, "key">>, <<"write", "make_cert", 2, "key">>,
   <<"truncate", "make_cert", 3, "cert">>, <<"write", "make_cert", 4, "cert">>,
   <<"encode", "make_cert", 5, "cert">>, <<"digest", "make_cert", 6, "cert">>,
   <<"size", "file.read", 1, "path">>, <<"encode", "file.read", 2, "path">>,
   <<"digest", "file.read", 3, "path">>,
   <<"truncate", "file.write", 1, "path">>, <<"write", "file.write", 2, "path">>,
   <<"digest", "file.write", 3, "path">>,
   <<"take", "windows.read", 1, "path">>, <<"swap", "windows.write", 1, "path">>}

\* There are no others.
LEMMA EveryStep ==
  ASSUME NEW c \in Names, NEW n \in 1 .. Len(Script(c))
  PROVE  <<Script(c)[n].op, c, n, Script(c)[n].path>> \in Steps
<1> USE DEF Step
<1>1. CASE c = "write_hosts"
  <2>1. n \in 1 .. 3 /\ Script(c) = WriteHosts
    BY <1>1, Scripts
  <2>2. QED
    BY <1>1, <2>1 DEF WriteHosts, Steps
<1>2. CASE c = "make_cert"
  <2>1. n \in 1 .. 6 /\ Script(c) = MakeCert
    BY <1>2, Scripts
  <2>2. QED
    BY <1>2, <2>1 DEF MakeCert, Steps
<1>3. CASE c = "file.read"
  <2>1. n \in 1 .. 3 /\ Script(c) = FileRead
    BY <1>3, Scripts
  <2>2. QED
    BY <1>3, <2>1 DEF FileRead, Steps
<1>4. CASE c = "file.write"
  <2>1. n \in 1 .. 3 /\ Script(c) = FileWrite
    BY <1>4, Scripts
  <2>2. QED
    BY <1>4, <2>1 DEF FileWrite, Steps
<1>5. CASE c = "windows.read"
  <2>1. n \in 1 .. 1 /\ Script(c) = WindowsRead
    BY <1>5, Scripts
  <2>2. QED
    BY <1>5, <2>1 DEF WindowsRead, Steps
<1>6. CASE c = "windows.write"
  <2>1. n \in 1 .. 1 /\ Script(c) = WindowsWrite
    BY <1>6, Scripts
  <2>2. QED
    BY <1>6, <2>1 DEF WindowsWrite, Steps
<1>7. QED
  BY <1>1, <1>2, <1>3, <1>4, <1>5, <1>6 DEF Names, Reads, Writes

\* The script of a slot that is at one of ops, and the step it is at.
LEMMA Where ==
  ASSUME Types, NEW s \in Slots, NEW ops, At(s, ops)
  PROVE  /\ run[s] \in Runs /\ run[s] # Idle /\ run[s].cmd \in Names /\ ~run[s].failed
         /\ run[s].pc \in 1 .. Len(Script(run[s].cmd))
         /\ Len(Script(run[s].cmd)) \in Nat
         /\ Current(s).op \in ops
         /\ <<Current(s).op, run[s].cmd, run[s].pc, Current(s).path>> \in Steps
         /\ Current(s).path \in Paths
<1>1. run[s] \in Runs /\ run[s] # Idle /\ run[s].cmd \in Names
  BY DEF Types, Within, At
<1>2. Len(Script(run[s].cmd)) \in Nat
  BY <1>1, Scripts DEF Names, Reads, Writes
<1>3. run[s].pc \in 1 .. Len(Script(run[s].cmd)) /\ ~run[s].failed
  <2>1. /\ run[s].pc \in 1 .. Len(Script(run[s].cmd)) + 1
        /\ run[s].failed => run[s].pc = Len(Script(run[s].cmd)) + 1
    BY <1>1 DEF Types, Within
  <2>2. run[s].pc <= Len(Script(run[s].cmd))
    BY DEF At
  <2> DEFINE n == Len(Script(run[s].cmd))
  <2> HIDE DEF n
  <2>3. QED
    BY <1>2, <2>1, <2>2 DEF n
<1>4. Current(s).op \in ops
  BY DEF At
<1>5. <<Current(s).op, run[s].cmd, run[s].pc, Current(s).path>> \in Steps
  BY <1>1, <1>3, EveryStep DEF Current
<1>6. Current(s).path \in Paths
  BY <1>5 DEF Steps, Paths
<1>7. QED
  BY <1>1, <1>2, <1>3, <1>4, <1>5, <1>6
-----------------------------------------------------------------------------
(* What every step keeps.                                                  *)

\* An idle slot.
LEMMA IdleFacts ==
  /\ Idle \in Runs /\ Idle.cmd = "idle" /\ Idle.alone /\ ~Idle.failed
  /\ "idle" \notin Names
<1>1. Idle.buf \in Contents
  BY SimpleContents DEF Idle
<1>2. QED
  BY <1>1, SimpleContents DEF Idle, Runs, Labels, Values, Names, Reads, Writes

\* What a run is given.
LEMMA Arguments ==
  ASSUME Types, NEW s \in Slots, run[s] # Idle
  PROVE  /\ run[s].cmd = "write_hosts" => run[s].arg \in Entries
         /\ run[s].cmd \in Writes => run[s].arg \in DOMAIN SizeOf
<1>1. /\ run[s].cmd \in Names
      /\ (run[s].cmd = "make_cert" /\ run[s].arg \in Pairs) \/ <<run[s].cmd, run[s].arg>> \in plan
  BY DEF Types, Within
<1>2. plan \subseteq Commands
  BY FilesAssumption DEF Types
<1>3. QED
  BY <1>1, <1>2 DEF Commands, Names, Reads, Writes

\* A step of the run in slot s that ends as r.
Change(s, r) ==
  /\ run' = [run EXCEPT ![s] = r]
  /\ r.cmd = run[s].cmd /\ r.arg = run[s].arg /\ r.alone = run[s].alone
  /\ r.pc \in 1 .. Len(Script(r.cmd)) + 1
  /\ r.failed => r.pc = Len(Script(r.cmd)) + 1
  /\ UNCHANGED <<plan, last, history>>
  /\ file' \in [Paths -> Contents]
  /\ Fits(file["path"]) => Fits(file'["path"])

\* Nobody else is disturbed: a run that is alone has no one to disturb, and
\* what fits goes on to fit.
LEMMA Keeping ==
  ASSUME IInv, NEW s \in Slots, run[s] # Idle, NEW r \in Runs, Change(s, r),
         Carries(r)', Undisturbed(r)', HostsInv'
  PROVE  IInv'
<1>1. /\ run \in [Slots -> Runs] /\ run[s] \in Runs /\ run[s].cmd \in Names
      /\ r.cmd \in Names /\ r # Idle
  BY IdleFacts DEF IInv, Types, Within, Change
<1>2. /\ run'[s] = r /\ run' \in [Slots -> Runs]
      /\ \A t \in Slots : t # s => run'[t] = run[t]
  BY <1>1 DEF Change
<1>3. Types'
  <2>1. plan' = plan /\ start' = start /\ overlapped' = overlapped /\ torn' = torn
        /\ handed' = handed /\ refused' = refused /\ unspawned' = unspawned
    BY DEF Change, history
  <2>2. \A t \in Slots : Within(run[t])'
    <3>1. TAKE t \in Slots
    <3>2. CASE t = s
      <4>1. (r.cmd = "make_cert" /\ r.arg \in Pairs) \/ <<r.cmd, r.arg>> \in plan
        BY DEF IInv, Types, Within, Change
      <4>2. QED
        BY <1>1, <1>2, <2>1, <3>2, <4>1 DEF Within, Change
    <3>3. CASE t # s
      BY <1>2, <2>1, <3>3 DEF Within, IInv, Types
    <3>4. QED
      BY <3>2, <3>3
  <2>3. QED
    BY <1>2, <2>1, <2>2 DEF IInv, Types, Change
<1>4. RunInv'
  <2>1. SUFFICES ASSUME NEW t \in Slots PROVE Carries(run[t])' /\ Undisturbed(run[t])'
    BY DEF RunInv
  <2>2. CASE t = s
    BY <1>2, <2>2 DEF Carries, Undisturbed
  <2>3. CASE t # s
    <3>1. run'[t] = run[t] /\ Carries(run[t]) /\ Undisturbed(run[t])
      BY <1>2, <2>3 DEF IInv, RunInv
    <3>2. Carries(run[t])'
      BY <1>2, <2>3, <3>1 DEF Carries, Fits, Change
    <3>3. run[t] = Idle \/ ~run[t].alone
      BY <2>3 DEF IInv, AloneInv
    <3>4. Undisturbed(run[t])'
      BY <3>1, <3>3, IdleFacts DEF Undisturbed, Names, Reads, Writes
    <3>5. QED
      BY <3>2, <3>4
  <2>4. QED
    BY <2>2, <2>3
<1>5. AloneInv'
  <2>1. last = Idle \/ ~last.alone
    BY DEF IInv, AloneInv
  <2>2. \A t \in Slots : run'[t].alone = run[t].alone /\ (run'[t] # Idle <=> run[t] # Idle)
    BY <1>1, <1>2 DEF Change
  <2>3. last' = last /\ overlapped' = overlapped
    BY DEF Change, history
  <2>4. QED
    BY <2>1, <2>2, <2>3 DEF IInv, AloneInv
<1>6. RelayInv'
  BY DEF IInv, RelayInv, Change, history
<1>7. DigestMatches' /\ WrittenIsThere'
  <2>1. last' = last /\ (last = Idle \/ ~last.alone)
    BY DEF IInv, AloneInv, Change
  <2>2. QED
    BY <2>1 DEF IInv, DigestMatches, WrittenIsThere, Sound
<1>8. QED
  BY <1>3, <1>4, <1>5, <1>6, <1>7 DEF IInv

\* A step of another script than write_hosts leaves the hosts file alone.
LEMMA HostsApart ==
  ASSUME IInv, NEW s \in Slots, NEW r \in Runs, Change(s, r),
         run[s].cmd # "write_hosts", file'["hosts"] = file["hosts"]
  PROVE  HostsInv'
<1>1. /\ run \in [Slots -> Runs] /\ r.cmd # "write_hosts"
      /\ overlapped' = overlapped /\ torn' = torn /\ start' = start
  BY DEF IInv, Types, Change, history
<1>2. \A t \in Slots : \/ run'[t] = run[t]
                       \/ run[t].cmd # "write_hosts" /\ run'[t].cmd # "write_hosts"
  BY <1>1 DEF Change
<1>3. SUFFICES ASSUME overlapped = 0, torn = 0
               PROVE  /\ (\A t \in Slots : ~(run'[t].cmd = "write_hosts" /\ run'[t].pc = 3))
                           => Form(file["hosts"])'
                      /\ \A t \in Slots : run'[t].cmd = "write_hosts" /\ run'[t].pc \in 2 .. 3
                                            => Form(run[t].buf)'
  BY <1>1 DEF HostsInv
<1>4. /\ (\A t \in Slots : ~(run[t].cmd = "write_hosts" /\ run[t].pc = 3))
           => Form(file["hosts"])
      /\ \A t \in Slots : run[t].cmd = "write_hosts" /\ run[t].pc \in 2 .. 3
                            => Form(run[t].buf)
  BY <1>3 DEF IInv, HostsInv
<1>5. ASSUME \A t \in Slots : ~(run'[t].cmd = "write_hosts" /\ run'[t].pc = 3)
      PROVE  Form(file["hosts"])'
  <2>1. Form(file["hosts"])
    BY <1>2, <1>4, <1>5
  <2>2. QED
    BY <1>1, <2>1 DEF Form, Own
<1>6. ASSUME NEW t \in Slots, run'[t].cmd = "write_hosts", run'[t].pc \in 2 .. 3
      PROVE  Form(run[t].buf)'
  <2>1. run'[t] = run[t] /\ Form(run[t].buf)
    BY <1>2, <1>4, <1>6
  <2>2. QED
    BY <1>1, <2>1 DEF Form, Own
<1>7. QED
  BY <1>5, <1>6

\* The run q at its n-th step, with what it has in memory by then.
Onward(q, n, b, c, d) ==
  [cmd |-> q.cmd, arg |-> q.arg, pc |-> n, buf |-> b, content |-> c,
   digest |-> d, alone |-> q.alone, failed |-> q.failed]

\* What the steps write into a run, said field by field.
LEMMA OnwardIs ==
  ASSUME NEW q \in Runs, NEW b \in Contents, NEW c \in Contents, NEW d \in Contents
  PROVE  /\ q.pc + 1 \in Nat
         /\ [q EXCEPT !.pc = @ + 1] = Onward(q, q.pc + 1, q.buf, q.content, q.digest)
         /\ [[q EXCEPT !.buf = b] EXCEPT !.pc = @ + 1]
              = Onward(q, q.pc + 1, b, q.content, q.digest)
         /\ [[q EXCEPT !.content = c] EXCEPT !.pc = @ + 1]
              = Onward(q, q.pc + 1, q.buf, c, q.digest)
         /\ [[q EXCEPT !.digest = d] EXCEPT !.pc = @ + 1]
              = Onward(q, q.pc + 1, q.buf, q.content, d)
<1>1. ASSUME NEW r \in Runs, r.pc = q.pc
      PROVE  [r EXCEPT !.pc = @ + 1] = Onward(r, q.pc + 1, r.buf, r.content, r.digest)
  <2> DEFINE n == q.pc + 1
  <2>1. [r EXCEPT !.pc = @ + 1] = [r EXCEPT !.pc = n]
    BY <1>1
  <2> HIDE DEF n
  <2>2. [r EXCEPT !.pc = n] = Onward(r, n, r.buf, r.content, r.digest)
    BY DEF Runs, Onward
  <2>3. QED
    BY <2>1, <2>2 DEF n
<1>2. q.pc + 1 \in Nat
  BY DEF Runs
<1> DEFINE qb  == [q EXCEPT !.buf = b]
           qc  == [q EXCEPT !.content = c]
           qd  == [q EXCEPT !.digest = d]
<1>3. /\ qb \in Runs /\ qb.pc = q.pc
      /\ \A n : Onward(qb, n, qb.buf, qb.content, qb.digest) = Onward(q, n, b, q.content, q.digest)
  BY DEF Runs, Onward
<1>4. /\ qc \in Runs /\ qc.pc = q.pc
      /\ \A n : Onward(qc, n, qc.buf, qc.content, qc.digest) = Onward(q, n, q.buf, c, q.digest)
  BY DEF Runs, Onward
<1>5. /\ qd \in Runs /\ qd.pc = q.pc
      /\ \A n : Onward(qd, n, qd.buf, qd.content, qd.digest) = Onward(q, n, q.buf, q.content, d)
  BY DEF Runs, Onward
<1> HIDE DEF qb, qc, qd
<1>6. /\ [q EXCEPT !.pc = @ + 1] = Onward(q, q.pc + 1, q.buf, q.content, q.digest)
      /\ [qb EXCEPT !.pc = @ + 1] = Onward(q, q.pc + 1, b, q.content, q.digest)
      /\ [qc EXCEPT !.pc = @ + 1] = Onward(q, q.pc + 1, q.buf, c, q.digest)
      /\ [qd EXCEPT !.pc = @ + 1] = Onward(q, q.pc + 1, q.buf, q.content, d)
  BY <1>1, <1>3, <1>4, <1>5
<1>7. QED
  BY <1>2, <1>6 DEF qb, qc, qd

\* Slot s goes on to its next step.
GoesOn(s, r, b, c, d) ==
  /\ b \in Contents /\ c \in Contents /\ d \in Contents
  /\ r = Onward(run[s], run[s].pc + 1, b, c, d)
  /\ run' = [run EXCEPT ![s] = r]
  /\ UNCHANGED <<plan, last, history>>
  /\ file' \in [Paths -> Contents]
  /\ Fits(file["path"]) => Fits(file'["path"])

\* Which is a change of the slot.
LEMMA Forward ==
  ASSUME IInv, NEW s \in Slots, NEW ops, At(s, ops),
         NEW r, NEW b, NEW c, NEW d, GoesOn(s, r, b, c, d)
  PROVE  /\ r \in Runs /\ Change(s, r)
         /\ r.cmd = run[s].cmd /\ r.arg = run[s].arg /\ r.alone = run[s].alone
         /\ r.pc = run[s].pc + 1 /\ r.buf = b /\ r.content = c /\ r.digest = d /\ ~r.failed
<1>1. /\ run[s] \in Runs /\ ~run[s].failed
      /\ run[s].pc \in 1 .. Len(Script(run[s].cmd)) /\ Len(Script(run[s].cmd)) \in Nat
  BY Where DEF IInv
<1>2. run[s].pc + 1 \in Nat
  BY <1>1, OnwardIs DEF GoesOn
<1>3. /\ r \in Runs
      /\ r.cmd = run[s].cmd /\ r.arg = run[s].arg /\ r.alone = run[s].alone
      /\ r.pc = run[s].pc + 1 /\ r.buf = b /\ r.content = c /\ r.digest = d
      /\ r.failed = run[s].failed
  <2> PICK q, n : q = run[s] /\ n = run[s].pc + 1
    OBVIOUS
  <2>1. q \in Runs /\ n \in Nat /\ r = Onward(q, n, b, c, d)
    BY <1>1, <1>2 DEF GoesOn
  <2>2. /\ r \in Runs
        /\ r.cmd = q.cmd /\ r.arg = q.arg /\ r.alone = q.alone /\ r.failed = q.failed
        /\ r.pc = n /\ r.buf = b /\ r.content = c /\ r.digest = d
    BY <2>1 DEF Onward, Runs, GoesOn
  <2>3. QED
    BY <2>2
<1>4. r.pc \in 1 .. Len(Script(r.cmd)) + 1
  <2> DEFINE n == Len(Script(run[s].cmd))
             m == run[s].pc
  <2>1. n \in Nat /\ m \in 1 .. n
    BY <1>1
  <2> HIDE DEF n, m
  <2>2. m + 1 \in 1 .. n + 1
    BY <2>1
  <2>3. QED
    BY <1>3, <2>2 DEF n, m
<1>5. QED
  BY <1>1, <1>3, <1>4 DEF Change, GoesOn

\* So is one that gives up.
LEMMA GivesUp ==
  ASSUME IInv, NEW s \in Slots, NEW ops, At(s, ops), Fail(s),
         UNCHANGED <<file, plan, last, history>>
  PROVE  \E r \in Runs : /\ Change(s, r) /\ r.failed /\ r.cmd = run[s].cmd
                         /\ r.pc = Len(Script(r.cmd)) + 1
<1>1. run[s] \in Runs /\ Len(Script(run[s].cmd)) \in Nat
  BY Where DEF IInv
<1> DEFINE n == Len(Script(run[s].cmd)) + 1
<1>2. n \in Nat /\ n \in 1 .. n
  BY <1>1
<1> HIDE DEF n
<1>3. PICK r : r = [run[s] EXCEPT !.failed = TRUE, !.pc = n]
  OBVIOUS
<1>4. /\ r \in Runs /\ r.cmd = run[s].cmd /\ r.arg = run[s].arg /\ r.alone = run[s].alone
      /\ r.pc = n /\ r.failed
  BY <1>1, <1>2, <1>3 DEF Runs
<1>5. run' = [run EXCEPT ![s] = r]
  BY <1>1, <1>3 DEF Fail, n, IInv, Types
<1>6. r.pc = Len(Script(r.cmd)) + 1
  BY <1>4 DEF n
<1>7. Change(s, r)
  BY <1>2, <1>4, <1>5, <1>6 DEF Change, IInv, Types, n
<1>8. QED
  BY <1>4, <1>6, <1>7
-----------------------------------------------------------------------------
(* The steps, one lemma each.                                              *)

\* The only busy slot of a machine where nothing overlapped.
LEMMA OnlyOne ==
  ASSUME IInv, overlapped = 0, NEW s \in Slots, run[s] # Idle
  PROVE  run[s].alone /\ \A t \in Slots : t # s => run[t] = Idle
  BY DEF IInv, AloneInv

\* A step of write_hosts on a machine where nothing overlapped.
LEMMA HostsAlone ==
  ASSUME IInv, NEW s \in Slots, run[s] # Idle, run[s].cmd = "write_hosts",
         NEW r \in Runs, Change(s, r),
         overlapped = 0 /\ torn = 0 => /\ r.pc # 3 => Form(file'["hosts"])
                                       /\ r.pc \in 2 .. 3 => Form(r.buf)
  PROVE  HostsInv'
<1>1. /\ run' \in [Slots -> Runs] /\ run'[s] = r /\ r.cmd = "write_hosts"
      /\ \A t \in Slots : t # s => run'[t] = run[t]
      /\ overlapped' = overlapped /\ torn' = torn /\ start' = start
  BY DEF IInv, Types, Change, history
<1>2. SUFFICES ASSUME overlapped = 0, torn = 0
               PROVE  /\ r.pc # 3 => Form(file["hosts"])'
                      /\ r.pc \in 2 .. 3 => Form(r.buf)'
                      /\ \A t \in Slots : t # s => run'[t] = Idle
  BY <1>1, IdleFacts DEF HostsInv, Names
<1>3. \A t \in Slots : t # s => run'[t] = Idle
  BY <1>1, <1>2, OnlyOne
<1>4. QED
  BY <1>1, <1>2, <1>3 DEF Form, Own

\* write_hosts computes the new file from what it reads.
LEMMA EditStep ==
  ASSUME IInv, NEW s \in Slots, Edit(s)
  PROVE  IInv'
<1>1. At(s, {"edit"}) /\ Types
  BY DEF Edit, IInv
<1>2. /\ run[s] \in Runs /\ run[s] # Idle
      /\ run[s].cmd = "write_hosts" /\ run[s].pc = 1 /\ Current(s).path = "hosts"
  BY <1>1, Where DEF Steps
<1>3. run[s].arg \in Entries /\ file["hosts"] \in Contents
  BY <1>1, <1>2, Arguments DEF Types, Paths
<1> DEFINE new == Rewritten(file["hosts"], run[s].arg)
<1>4. new \in Contents /\ Has(new, run[s].arg) /\ ~new.open
  BY <1>3, RewrittenFine
<1>5. run[s].content \in Contents /\ run[s].digest \in Contents
  BY <1>2 DEF Runs
<1>6. PICK r : r = Onward(run[s], run[s].pc + 1, new, run[s].content, run[s].digest)
  OBVIOUS
<1>7. /\ run' = [run EXCEPT ![s] = r] /\ file' = file
      /\ UNCHANGED <<plan, last, history>>
  <2>1. Here(s) = file["hosts"]
    BY <1>2 DEF Here
  <2>2. run' = [run EXCEPT ![s] = [[run[s] EXCEPT !.buf = new] EXCEPT !.pc = @ + 1]]
    BY <2>1 DEF Edit, Move
  <2> HIDE DEF new
  <2>3. [[run[s] EXCEPT !.buf = new] EXCEPT !.pc = @ + 1] = r
    BY <1>2, <1>4, <1>5, <1>6, OnwardIs
  <2>4. QED
    BY <2>2, <2>3 DEF Edit, NoHistory
<1> HIDE DEF new
<1>8. /\ r \in Runs /\ Change(s, r) /\ r.cmd = "write_hosts" /\ r.arg = run[s].arg
      /\ r.pc = 2 /\ r.buf = new
  <2>1. /\ file' \in [Paths -> Contents]
        /\ Fits(file["path"]) => Fits(file'["path"])
    BY <1>1, <1>7 DEF Types
  <2>2. /\ r \in Runs /\ Change(s, r) /\ r.cmd = run[s].cmd /\ r.arg = run[s].arg
        /\ r.pc = run[s].pc + 1 /\ r.buf = new
    <3>1. GoesOn(s, r, new, run[s].content, run[s].digest)
      BY <1>4, <1>5, <1>6, <1>7, <2>1 DEF GoesOn
    <3>2. QED
      BY <1>1, <3>1, Forward
  <2>3. QED
    BY <1>2, <2>2
<1>9. Carries(r)' /\ Undisturbed(r)'
  BY <1>4, <1>8 DEF Carries, Undisturbed, Has, Writes
<1>10. HostsInv'
  <2>1. SUFFICES ASSUME overlapped = 0, torn = 0
                 PROVE  Form(file["hosts"]) /\ Form(new)
    BY <1>2, <1>7, <1>8, HostsAlone
  <2>2. \A t \in Slots : ~(run[t].cmd = "write_hosts" /\ run[t].pc = 3)
    BY <1>2, <2>1, OnlyOne, IdleFacts DEF Names
  <2>3. Form(file["hosts"])
    BY <2>1, <2>2 DEF IInv, HostsInv
  <2>4. Form(new)
    BY <1>1, <1>3, <2>3, RewrittenForm DEF Types, new
  <2>5. QED
    BY <2>3, <2>4
<1>11. QED
  BY <1>2, <1>8, <1>9, <1>10, Keeping

\* A shell empties the file that it is about to write.
LEMMA TruncateStep ==
  ASSUME IInv, NEW s \in Slots, Truncate(s)
  PROVE  IInv'
<1> DEFINE p == Current(s).path
<1>1. At(s, {"truncate"}) /\ Types
  BY DEF Truncate, IInv
<1>2. /\ run[s] \in Runs /\ run[s] # Idle /\ ~run[s].failed /\ p \in Paths
      /\ \/ run[s].cmd = "write_hosts" /\ run[s].pc = 2 /\ p = "hosts"
         \/ run[s].cmd = "make_cert" /\ run[s].pc = 1 /\ p = "key"
         \/ run[s].cmd = "make_cert" /\ run[s].pc = 3 /\ p = "cert"
         \/ run[s].cmd = "file.write" /\ run[s].pc = 1 /\ p = "path"
  BY <1>1, Where DEF Steps
<1>3. file' = [file EXCEPT ![p] = Empty]
  BY DEF Truncate
<1> HIDE DEF p
<1>4. PICK r : r = Onward(run[s], run[s].pc + 1, run[s].buf, run[s].content, run[s].digest)
  OBVIOUS
<1>5. run[s].buf \in Contents /\ run[s].content \in Contents /\ run[s].digest \in Contents
  BY <1>2 DEF Runs
<1>6. run' = [run EXCEPT ![s] = r] /\ UNCHANGED <<plan, last, history>>
  BY <1>2, <1>4, <1>5, OnwardIs DEF Truncate, Move, NoHistory
<1>7. /\ file' \in [Paths -> Contents] /\ file'[p] = Empty
      /\ \A q \in Paths : q # p => file'[q] = file[q]
  BY <1>1, <1>2, <1>3, SimpleContents DEF Types
<1>8. Fits(file["path"]) => Fits(file'["path"])
  BY <1>7, SimpleContents DEF Paths
<1>9. /\ r \in Runs /\ Change(s, r) /\ r.cmd = run[s].cmd /\ r.arg = run[s].arg
      /\ r.pc = run[s].pc + 1 /\ r.alone = run[s].alone /\ r.buf = run[s].buf
      /\ r.content = run[s].content /\ r.digest = run[s].digest
  <2>1. GoesOn(s, r, run[s].buf, run[s].content, run[s].digest)
    BY <1>4, <1>5, <1>6, <1>7, <1>8 DEF GoesOn
  <2>2. QED
    BY <1>1, <2>1, Forward
<1>10. Carries(run[s]) /\ Undisturbed(run[s])
  BY DEF IInv, RunInv
<1>11. Carries(r)'
  BY <1>2, <1>9, <1>10 DEF Carries, Has, Fits, Writes
<1>12. Undisturbed(r)'
  BY <1>2, <1>7, <1>9, <1>10 DEF Undisturbed, Paths
<1>13. HostsInv'
  <2>1. CASE run[s].cmd # "write_hosts"
    <3>1. file'["hosts"] = file["hosts"]
      BY <1>2, <1>7, <2>1 DEF Paths
    <3>2. QED
      BY <1>9, <2>1, <3>1, HostsApart
  <2>2. CASE run[s].cmd = "write_hosts"
    <3>1. run[s].pc = 2 /\ r.pc = 3
      BY <1>2, <1>9, <2>2
    <3>2. overlapped = 0 /\ torn = 0 => Form(run[s].buf)
      BY <2>2, <3>1 DEF IInv, HostsInv
    <3>3. QED
      BY <1>2, <1>9, <2>2, <3>1, <3>2, HostsAlone
  <2>3. QED
    BY <2>1, <2>2
<1>14. QED
  BY <1>2, <1>9, <1>11, <1>12, <1>13, Keeping

\* What a write leaves is what the run has in memory, if the run is alone.
LEMMA WriteStep ==
  ASSUME IInv, NEW s \in Slots, Write(s)
  PROVE  IInv'
<1> DEFINE p == Current(s).path
<1>1. At(s, {"write"}) /\ Types
  BY DEF Write, IInv
<1>2. /\ run[s] \in Runs /\ run[s] # Idle /\ ~run[s].failed /\ p \in Paths
      /\ \/ run[s].cmd = "write_hosts" /\ run[s].pc = 3 /\ p = "hosts"
         \/ run[s].cmd = "make_cert" /\ run[s].pc = 2 /\ p = "key"
         \/ run[s].cmd = "make_cert" /\ run[s].pc = 4 /\ p = "cert"
         \/ run[s].cmd = "file.write" /\ run[s].pc = 2 /\ p = "path"
  BY <1>1, Where DEF Steps
<1>3. PICK c \in Over(run[s].buf, file[p]) : file' = [file EXCEPT ![p] = c]
  BY DEF Write, Here
<1> HIDE DEF p
<1>4. PICK r : r = Onward(run[s], run[s].pc + 1, run[s].buf, run[s].content, run[s].digest)
  OBVIOUS
<1>5. /\ run[s].buf \in Contents /\ run[s].content \in Contents /\ run[s].digest \in Contents
      /\ file[p] \in Contents
  BY <1>1, <1>2 DEF Runs, Types
<1>6. run' = [run EXCEPT ![s] = r] /\ UNCHANGED <<plan, last, history>>
  BY <1>2, <1>4, <1>5, OnwardIs DEF Write, Move, NoHistory
<1>7. c \in Contents /\ (Fits(run[s].buf) => Fits(c))
  BY <1>5, OverFine
<1>8. /\ file' \in [Paths -> Contents] /\ file'[p] = c
      /\ \A q \in Paths : q # p => file'[q] = file[q]
  BY <1>1, <1>2, <1>3, <1>7 DEF Types
<1>9. Carries(run[s]) /\ Undisturbed(run[s])
  BY DEF IInv, RunInv
<1>10. Fits(file["path"]) => Fits(file'["path"])
  BY <1>2, <1>7, <1>8, <1>9 DEF Paths, Carries, Writes
<1>11. /\ r \in Runs /\ Change(s, r) /\ r.cmd = run[s].cmd /\ r.arg = run[s].arg
       /\ r.pc = run[s].pc + 1 /\ r.alone = run[s].alone /\ r.buf = run[s].buf
       /\ r.content = run[s].content /\ r.digest = run[s].digest
  <2>1. GoesOn(s, r, run[s].buf, run[s].content, run[s].digest)
    BY <1>4, <1>5, <1>6, <1>8, <1>10 DEF GoesOn
  <2>2. QED
    BY <1>1, <2>1, Forward
<1>12. run[s].alone => c = run[s].buf
  <2>1. run[s].alone => file[p] = Empty
    BY <1>2, <1>9 DEF Undisturbed
  <2>2. QED
    BY <2>1, OverEmpty
<1>13. Carries(r)'
  BY <1>2, <1>9, <1>11 DEF Carries, Has, Fits, Writes
<1>14. Undisturbed(r)'
  BY <1>2, <1>8, <1>9, <1>11, <1>12 DEF Undisturbed, Paths
<1>15. HostsInv'
  <2>1. CASE run[s].cmd # "write_hosts"
    <3>1. file'["hosts"] = file["hosts"]
      BY <1>2, <1>8, <2>1 DEF Paths
    <3>2. QED
      BY <1>11, <2>1, <3>1, HostsApart
  <2>2. CASE run[s].cmd = "write_hosts"
    <3>1. run[s].pc = 3 /\ r.pc = 4 /\ p = "hosts"
      BY <1>2, <1>11, <2>2
    <3>2. overlapped = 0 /\ torn = 0 => Form(file'["hosts"])
      <4>1. SUFFICES ASSUME overlapped = 0, torn = 0 PROVE Form(file'["hosts"])
        OBVIOUS
      <4>2. file'["hosts"] = run[s].buf
        BY <1>2, <1>8, <1>12, <3>1, <4>1, OnlyOne
      <4>3. Form(run[s].buf)
        BY <2>2, <3>1, <4>1 DEF IInv, HostsInv
      <4>4. QED
        BY <4>2, <4>3
    <3>3. QED
      BY <1>2, <1>11, <2>2, <3>1, <3>2, HostsAlone
  <2>3. QED
    BY <2>1, <2>2
<1>16. QED
  BY <1>2, <1>11, <1>13, <1>14, <1>15, Keeping

\* A step that gives up keeps nothing but what the others have.
LEMMA FailStep ==
  ASSUME IInv, NEW s \in Slots, At(s, {"size", "take", "swap"}), Fail(s),
         UNCHANGED <<file, plan, last, history>>
  PROVE  IInv'
<1>1. run[s] \in Runs /\ run[s] # Idle /\ run[s].cmd # "write_hosts"
  BY Where DEF Steps, IInv
<1>2. PICK r \in Runs : Change(s, r) /\ r.failed /\ r.cmd = run[s].cmd
  BY GivesUp
<1>3. Carries(r)' /\ Undisturbed(r)'
  BY <1>2 DEF Carries, Undisturbed
<1>4. HostsInv'
  BY <1>1, <1>2, HostsApart
<1>5. QED
  BY <1>1, <1>2, <1>3, <1>4, Keeping

\* A step that only reads.
LEMMA ReadingStep ==
  ASSUME IInv, NEW s \in Slots, NEW ops, At(s, ops), run[s].cmd # "write_hosts",
         NEW r, NEW c, NEW d, GoesOn(s, r, run[s].buf, c, d), UNCHANGED file,
         Carries(r)', Undisturbed(r)'
  PROVE  IInv'
<1>1. r \in Runs /\ Change(s, r)
  BY Forward
<1>2. HostsInv'
  BY <1>1, HostsApart
<1>3. run[s] # Idle
  BY DEF At
<1>4. QED
  BY <1>1, <1>2, <1>3, Keeping

\* file.read looks at the size first.
LEMMA SizeCheckStep ==
  ASSUME IInv, NEW s \in Slots, SizeCheck(s)
  PROVE  IInv'
<1>1. At(s, {"size"}) /\ Types
  BY DEF SizeCheck, IInv
<1>2. /\ run[s] \in Runs /\ ~run[s].failed
      /\ run[s].cmd = "file.read" /\ run[s].pc = 1 /\ Current(s).path = "path"
  BY <1>1, Where DEF Steps
<1>3. UNCHANGED <<file, plan, last, history>> /\ Here(s) = file["path"]
  BY <1>2 DEF SizeCheck, NoHistory, Here
<1>4. CASE Size(file["path"]) > RelayCapBytes
  <2>1. Fail(s) /\ At(s, {"size", "take", "swap"})
    BY <1>1, <1>3, <1>4 DEF SizeCheck, At
  <2>2. QED
    BY <1>3, <2>1, FailStep
<1>5. CASE ~(Size(file["path"]) > RelayCapBytes)
  <2>1. PICK r : r = Onward(run[s], run[s].pc + 1, run[s].buf, run[s].content, run[s].digest)
    OBVIOUS
  <2>2. run[s].buf \in Contents /\ run[s].content \in Contents /\ run[s].digest \in Contents
    BY <1>2 DEF Runs
  <2>3. run' = [run EXCEPT ![s] = r]
    BY <1>2, <1>3, <1>5, <2>1, <2>2, OnwardIs DEF SizeCheck, Move
  <2>4. GoesOn(s, r, run[s].buf, run[s].content, run[s].digest)
    BY <1>1, <1>3, <2>1, <2>2, <2>3 DEF GoesOn, Types
  <2>5. r.cmd = "file.read" /\ r.pc = 2
    BY <1>1, <1>2, <2>4, Forward
  <2>6. Fits(file["path"])
    BY <1>5, SizeIsNat, SmallFits
  <2>7. Carries(r)' /\ Undisturbed(r)'
    BY <1>3, <2>5, <2>6 DEF Carries, Undisturbed, Fits, Writes
  <2>8. QED
    BY <1>1, <1>2, <1>3, <2>4, <2>7, ReadingStep
<1>6. QED
  BY <1>4, <1>5

\* What base64 and openssl see of a file.
LEMMA Seen ==
  ASSUME Types, NEW s \in Slots, At(s, {"encode", "digest"})
  PROVE  /\ Readable(s) \in Contents
         /\ run[s].cmd # "make_cert" => Readable(s) = file["path"]
         /\ run[s].cmd = "make_cert" /\ (\E a : file["cert"] = Content(<<a>>))
              => Readable(s) = file["cert"]
<1>1. /\ Current(s).path \in Paths
      /\ run[s].cmd = "make_cert" => Current(s).path = "cert"
      /\ run[s].cmd # "make_cert" => Current(s).path = "path"
  BY Where DEF Steps
<1>2. Readable(s) \in Contents
  BY <1>1, SimpleContents DEF Readable, Here, Types
<1>3. \A a : Len(<<a>>) = 1
  OBVIOUS
<1>4. ASSUME run[s].cmd = "make_cert", NEW a, file["cert"] = Content(<<a>>)
      PROVE  Readable(s) = file["cert"]
  <2>1. ~file["cert"].open /\ file["cert"].lines = <<a>>
    BY <1>4 DEF Content
  <2>2. Here(s) = file["cert"]
    BY <1>1, <1>4 DEF Here
  <2>3. QED
    BY <1>3, <2>1, <2>2 DEF Readable
<1>5. QED
  BY <1>1, <1>2, <1>4 DEF Readable, Here

\* The content that is handed out ...
LEMMA EncodeStep ==
  ASSUME IInv, NEW s \in Slots, Encode(s)
  PROVE  IInv'
<1>1. At(s, {"encode"}) /\ At(s, {"encode", "digest"}) /\ Types
  BY DEF Encode, IInv, At
<1>2. /\ run[s] \in Runs /\ ~run[s].failed
      /\ \/ run[s].cmd = "make_cert" /\ run[s].pc = 5
         \/ run[s].cmd = "file.read" /\ run[s].pc = 2
  BY <1>1, Where DEF Steps
<1>3. PICK c : c = Readable(s)
  OBVIOUS
<1>4. PICK r : r = Onward(run[s], run[s].pc + 1, run[s].buf, c, run[s].digest)
  OBVIOUS
<1>5. /\ run[s].buf \in Contents /\ c \in Contents /\ run[s].digest \in Contents
      /\ UNCHANGED <<file, plan, last, history>>
  BY <1>1, <1>2, <1>3, Seen DEF Runs, Encode, NoHistory
<1>6. run' = [run EXCEPT ![s] = r]
  <2>1. run' = [run EXCEPT ![s] = [[run[s] EXCEPT !.content = c] EXCEPT !.pc = @ + 1]]
    BY <1>3 DEF Encode, Move
  <2>2. [[run[s] EXCEPT !.content = c] EXCEPT !.pc = @ + 1]
          = Onward(run[s], run[s].pc + 1, run[s].buf, c, run[s].digest)
    BY <1>2, <1>5, OnwardIs
  <2>3. QED
    BY <1>4, <2>1, <2>2
<1>7. GoesOn(s, r, run[s].buf, c, run[s].digest)
  BY <1>1, <1>4, <1>5, <1>6 DEF GoesOn, Types
<1>8. /\ r.cmd = run[s].cmd /\ r.arg = run[s].arg /\ r.alone = run[s].alone
      /\ r.pc = run[s].pc + 1 /\ r.buf = run[s].buf /\ r.content = c
  BY <1>1, <1>7, Forward
<1>9. Carries(run[s]) /\ Undisturbed(run[s])
  BY DEF IInv, RunInv
<1>10. /\ run[s].cmd = "file.read" => c = file["path"] /\ Fits(c)
       /\ run[s].cmd = "make_cert" /\ run[s].alone => c = run[s].buf
  <2>1. run[s].cmd = "file.read" => c = file["path"] /\ Fits(c)
    BY <1>1, <1>2, <1>3, <1>9, Seen DEF Carries
  <2>2. ASSUME run[s].cmd = "make_cert", run[s].alone PROVE c = run[s].buf
    <3>1. run[s].buf = Content(<<run[s].arg>>) /\ file["cert"] = run[s].buf
      BY <1>2, <1>9, <2>2 DEF Carries, Undisturbed
    <3>2. QED
      BY <1>1, <1>3, <2>2, <3>1, Seen
  <2>3. QED
    BY <2>1, <2>2
<1>11. Carries(r)'
  BY <1>2, <1>5, <1>8, <1>9, <1>10 DEF Carries, Fits, Writes
<1>12. Undisturbed(r)'
  BY <1>2, <1>5, <1>8, <1>9, <1>10 DEF Undisturbed
<1>13. QED
  BY <1>1, <1>2, <1>5, <1>7, <1>11, <1>12, ReadingStep

\* ... and its digest, of what the file holds by then.
LEMMA DigestStep ==
  ASSUME IInv, NEW s \in Slots, Digest(s)
  PROVE  IInv'
<1>1. At(s, {"digest"}) /\ At(s, {"encode", "digest"}) /\ Types
  BY DEF Digest, IInv, At
<1>2. /\ run[s] \in Runs /\ ~run[s].failed
      /\ \/ run[s].cmd = "make_cert" /\ run[s].pc = 6
         \/ run[s].cmd = "file.read" /\ run[s].pc = 3
         \/ run[s].cmd = "file.write" /\ run[s].pc = 3
  BY <1>1, Where DEF Steps
<1>3. PICK d : d = Readable(s)
  OBVIOUS
<1>4. PICK r : r = Onward(run[s], run[s].pc + 1, run[s].buf, run[s].content, d)
  OBVIOUS
<1>5. /\ run[s].buf \in Contents /\ run[s].content \in Contents /\ d \in Contents
      /\ UNCHANGED <<file, plan, last, history>>
  BY <1>1, <1>2, <1>3, Seen DEF Runs, Digest, NoHistory
<1>6. run' = [run EXCEPT ![s] = r]
  <2>1. run' = [run EXCEPT ![s] = [[run[s] EXCEPT !.digest = d] EXCEPT !.pc = @ + 1]]
    BY <1>3 DEF Digest, Move
  <2>2. [[run[s] EXCEPT !.digest = d] EXCEPT !.pc = @ + 1] = r
    BY <1>2, <1>4, <1>5, OnwardIs
  <2>3. QED
    BY <2>1, <2>2
<1>7. GoesOn(s, r, run[s].buf, run[s].content, d)
  BY <1>1, <1>4, <1>5, <1>6 DEF GoesOn, Types
<1>8. /\ r.cmd = run[s].cmd /\ r.arg = run[s].arg /\ r.alone = run[s].alone
      /\ r.pc = run[s].pc + 1 /\ r.buf = run[s].buf /\ r.content = run[s].content
      /\ r.digest = d
  BY <1>1, <1>7, Forward
<1>9. Carries(run[s]) /\ Undisturbed(run[s])
  BY DEF IInv, RunInv
<1>10. /\ run[s].cmd # "make_cert" => d = file["path"]
       /\ run[s].cmd = "make_cert" /\ run[s].alone => d = run[s].buf
  <2>1. run[s].cmd # "make_cert" => d = file["path"]
    BY <1>1, <1>3, Seen
  <2>2. ASSUME run[s].cmd = "make_cert", run[s].alone PROVE d = run[s].buf
    <3>1. run[s].buf = Content(<<run[s].arg>>) /\ file["cert"] = run[s].buf
      BY <1>2, <1>9, <2>2 DEF Carries, Undisturbed
    <3>2. QED
      BY <1>1, <1>3, <2>2, <3>1, Seen
  <2>3. QED
    BY <2>1, <2>2
<1>11. Carries(r)'
  BY <1>2, <1>5, <1>8, <1>9, <1>10 DEF Carries, Fits, Writes
<1>12. Undisturbed(r)'
  BY <1>2, <1>5, <1>8, <1>9, <1>10 DEF Undisturbed
<1>13. QED
  BY <1>1, <1>2, <1>5, <1>7, <1>11, <1>12, ReadingStep

\* Windows reads the file at once.
LEMMA TakeStep ==
  ASSUME IInv, NEW s \in Slots, Take(s)
  PROVE  IInv'
<1>1. At(s, {"take"}) /\ Types
  BY DEF Take, IInv
<1>2. /\ run[s] \in Runs /\ ~run[s].failed
      /\ run[s].cmd = "windows.read" /\ run[s].pc = 1 /\ Current(s).path = "path"
  BY <1>1, Where DEF Steps
<1>3. UNCHANGED <<file, plan, last, history>> /\ Here(s) = file["path"]
  BY <1>2 DEF Take, NoHistory, Here
<1>4. CASE Size(file["path"]) > RelayCapBytes
  <2>1. Fail(s) /\ At(s, {"size", "take", "swap"})
    BY <1>1, <1>3, <1>4 DEF Take, At
  <2>2. QED
    BY <1>3, <2>1, FailStep
<1>5. CASE ~(Size(file["path"]) > RelayCapBytes)
  <2>1. PICK c : c = file["path"]
    OBVIOUS
  <2>2. PICK r : r = Onward(run[s], run[s].pc + 1, run[s].buf, c, c)
    OBVIOUS
  <2>3. run[s].buf \in Contents /\ c \in Contents
    BY <1>1, <1>2, <2>1 DEF Runs, Types, Paths
  <2>4. run' = [run EXCEPT ![s] = r]
    <3>1. run' = [run EXCEPT ![s] =
                    [[run[s] EXCEPT !.content = c, !.digest = c] EXCEPT !.pc = @ + 1]]
      BY <1>3, <1>5, <2>1 DEF Take, Move
    <3>2. [[run[s] EXCEPT !.content = c, !.digest = c] EXCEPT !.pc = @ + 1]
            = Onward(run[s], run[s].pc + 1, run[s].buf, c, c)
      <4>1. PICK q \in Runs : q = run[s]
        BY <1>2
      <4>2. [[q EXCEPT !.content = c, !.digest = c] EXCEPT !.pc = @ + 1]
              = Onward(q, q.pc + 1, q.buf, c, c)
        <5>1. PICK e : e = [q EXCEPT !.content = c, !.digest = c]
          OBVIOUS
        <5>2. /\ e \in Runs /\ e.pc = q.pc
              /\ Onward(e, e.pc + 1, e.buf, e.content, e.digest)
                   = Onward(q, q.pc + 1, q.buf, c, c)
          BY <2>3, <5>1 DEF Runs, Onward
        <5>3. [e EXCEPT !.pc = @ + 1] = Onward(e, e.pc + 1, e.buf, e.content, e.digest)
          BY <2>3, <5>2, OnwardIs
        <5>4. QED
          BY <5>1, <5>2, <5>3
      <4>3. QED
        BY <4>1, <4>2
    <3>3. QED
      BY <2>2, <3>1, <3>2
  <2>5. GoesOn(s, r, run[s].buf, c, c)
    BY <1>1, <1>3, <2>2, <2>3, <2>4 DEF GoesOn, Types
  <2>6. r.cmd = "windows.read" /\ r.pc = 2 /\ r.content = c /\ r.digest = c
    BY <1>1, <1>2, <2>5, Forward
  <2>7. Fits(c)
    BY <1>5, <2>1, SizeIsNat, SmallFits
  <2>8. Carries(r)' /\ Undisturbed(r)'
    BY <2>6, <2>7 DEF Carries, Undisturbed, Fits, Writes
  <2>9. QED
    BY <1>1, <1>2, <1>3, <2>5, <2>8, ReadingStep
<1>6. QED
  BY <1>4, <1>5

\* Windows writes it at once.
LEMMA SwapStep ==
  ASSUME IInv, NEW s \in Slots, Swap(s)
  PROVE  IInv'
<1>1. At(s, {"swap"}) /\ Types
  BY DEF Swap, IInv
<1>2. /\ run[s] \in Runs /\ run[s] # Idle /\ ~run[s].failed
      /\ run[s].cmd = "windows.write" /\ run[s].pc = 1 /\ Current(s).path = "path"
  BY <1>1, Where DEF Steps
<1>3. run[s].buf \in Contents /\ run[s].content \in Contents
  BY <1>2 DEF Runs
<1>4. /\ file' \in [Paths -> Contents] /\ file'["path"] = run[s].buf
      /\ \A q \in Paths : q # "path" => file'[q] = file[q]
  BY <1>1, <1>2, <1>3 DEF Swap, Types, Paths
<1>5. PICK r : r = Onward(run[s], run[s].pc + 1, run[s].buf, run[s].content, run[s].buf)
  OBVIOUS
<1>6. run' = [run EXCEPT ![s] = r] /\ UNCHANGED <<plan, last, history>>
  BY <1>2, <1>3, <1>5, OnwardIs DEF Swap, Move, NoHistory
<1>7. Carries(run[s])
  BY DEF IInv, RunInv
<1>8. GoesOn(s, r, run[s].buf, run[s].content, run[s].buf)
  BY <1>2, <1>3, <1>4, <1>5, <1>6, <1>7 DEF GoesOn, Carries, Writes
<1>9. /\ r \in Runs /\ Change(s, r) /\ r.cmd = run[s].cmd /\ r.arg = run[s].arg
      /\ r.pc = 2 /\ r.buf = run[s].buf /\ r.digest = run[s].buf
  BY <1>1, <1>2, <1>8, Forward
<1>10. Carries(r)'
  BY <1>2, <1>7, <1>9 DEF Carries, Fits, Writes
<1>11. Undisturbed(r)'
  BY <1>2, <1>4, <1>9 DEF Undisturbed
<1>12. HostsInv'
  BY <1>2, <1>4, <1>9, HostsApart DEF Paths
<1>13. QED
  BY <1>2, <1>9, <1>10, <1>11, <1>12, Keeping

\* Unless another process has it open.
LEMMA SwapRefusedStep ==
  ASSUME IInv, NEW s \in Slots, SwapRefused(s)
  PROVE  IInv'
  BY FailStep DEF SwapRefused, NoHistory, At
-----------------------------------------------------------------------------
(* The end of a run.                                                       *)

\* The run in slot s is over, and last what it leaves.
Leaves(s) ==
  /\ run' = [run EXCEPT ![s] = Idle]
  /\ last'.alone = run[s].alone
  /\ UNCHANGED <<plan, overlapped, start, refused, unspawned>>
  /\ file' \in [Paths -> Contents]
  /\ Fits(file["path"]) => Fits(file'["path"])
  /\ torn' \in 0 .. MaxTears
  /\ \A x \in handed' : x \in DOMAIN SizeOf /\ B64(SizeOf[x]) <= RelayCapB64

\* The others go on as before.
LEMMA Leaving ==
  ASSUME IInv, NEW s \in Slots, run[s] # Idle, Leaves(s)
  PROVE  /\ Types' /\ RunInv' /\ AloneInv' /\ RelayInv'
         /\ run' \in [Slots -> Runs] /\ run'[s] = Idle
         /\ \A t \in Slots : t # s => run'[t] = run[t]
<1>1. run \in [Slots -> Runs]
  BY DEF IInv, Types
<1>2. /\ run'[s] = Idle /\ run' \in [Slots -> Runs]
      /\ \A t \in Slots : t # s => run'[t] = run[t]
  BY <1>1, IdleFacts DEF Leaves
<1>3. Types'
  <2>1. \A t \in Slots : Within(run[t])'
    BY <1>2 DEF Within, IInv, Types, Leaves
  <2>2. handed' \subseteq DOMAIN SizeOf
    BY DEF Leaves
  <2>3. QED
    BY <1>2, <2>1, <2>2 DEF IInv, Types, Leaves
<1>4. RunInv'
  <2>1. SUFFICES ASSUME NEW t \in Slots PROVE Carries(run[t])' /\ Undisturbed(run[t])'
    BY DEF RunInv
  <2>2. CASE t = s
    BY <1>2, <2>2, IdleFacts DEF Carries, Undisturbed, Names, Reads, Writes
  <2>3. CASE t # s
    <3>1. run'[t] = run[t] /\ Carries(run[t])
      BY <1>2, <2>3 DEF IInv, RunInv
    <3>2. Carries(run[t])'
      BY <3>1 DEF Carries, Fits, Leaves
    <3>3. run[t] = Idle \/ ~run[t].alone
      BY <2>3 DEF IInv, AloneInv
    <3>4. Undisturbed(run[t])'
      BY <3>1, <3>3, IdleFacts DEF Undisturbed, Names, Reads, Writes
    <3>5. QED
      BY <3>2, <3>4
  <2>4. QED
    BY <2>2, <2>3
<1>5. AloneInv'
  <2>1. \A t \in Slots : run'[t] = run[t] \/ run'[t] = Idle
    BY <1>2
  <2>2. \A t, u \in Slots : run'[t] # Idle /\ run'[u] # Idle /\ run'[t].alone => t = u
    BY <2>1 DEF IInv, AloneInv
  <2>3. last'.alone => \A t \in Slots : run'[t] = Idle
    <3>1. SUFFICES ASSUME run[s].alone, NEW t \in Slots PROVE run'[t] = Idle
      BY DEF Leaves
    <3>2. QED
      BY <1>2, <3>1 DEF IInv, AloneInv
  <2>4. overlapped' = 0 => \A t \in Slots : run'[t].alone
    BY <2>1, IdleFacts DEF IInv, AloneInv, Leaves
  <2>5. QED
    BY <2>2, <2>3, <2>4 DEF AloneInv
<1>6. RelayInv'
  BY DEF IInv, RelayInv, Leaves
<1>7. QED
  BY <1>2, <1>3, <1>4, <1>5, <1>6

\* What the handler reports.
LEMMA Reported ==
  ASSUME NEW r \in Runs
  PROVE  /\ Report(r) \in Runs
         /\ Report(r).cmd = r.cmd /\ Report(r).arg = r.arg /\ Report(r).alone = r.alone
         /\ Report(r).failed = r.failed /\ Report(r).digest = r.digest
         /\ Report(r).content = IF r.cmd \in Writes \cup {"write_hosts"} THEN r.buf ELSE r.content
<1>1. CASE r.cmd \in Writes \cup {"write_hosts"}
  <2>1. Report(r) = [r EXCEPT !.content = r.buf]
    BY <1>1 DEF Report
  <2>2. QED
    BY <1>1, <2>1 DEF Runs
<1>2. CASE r.cmd \notin Writes \cup {"write_hosts"}
  BY <1>2 DEF Report
<1>3. QED
  BY <1>1, <1>2

\* A text that is there counts.
LEMMA HasCounts ==
  ASSUME NEW c \in Contents, NEW text, Has(c, text)
  PROVE  Count(c.lines, {text}) > 0
<1> DEFINE T == {i \in DOMAIN c.lines : c.lines[i] \in {text}}
<1>1. c.lines \in Seq(Text)
  BY DEF Contents
<1>2. DOMAIN c.lines = 1 .. Len(c.lines) /\ Len(c.lines) \in Nat
  BY <1>1
<1>3. IsFiniteSet(T)
  <2>1. IsFiniteSet(1 .. Len(c.lines))
    BY <1>2, FS_Interval
  <2>2. T \subseteq 1 .. Len(c.lines)
    BY <1>2
  <2>3. QED
    BY <2>1, <2>2, FS_Subset
<1>4. T # {}
  BY DEF Has
<1> HIDE DEF T
<1>5. Cardinality(T) \in Nat /\ Cardinality(T) # 0
  BY <1>3, <1>4, FS_CardinalityType, FS_EmptySet
<1>6. Cardinality(T) > 0
  BY <1>5
<1>7. QED
  BY <1>6 DEF T, Count

\* A script that is through its steps has done what it reports.
LEMMA EndStep ==
  ASSUME IInv, NEW s \in Slots, End(s)
  PROVE  IInv'
<1>1. /\ Types /\ run[s] \in Runs /\ run[s] # Idle /\ run[s].cmd \in Names
      /\ run[s].pc = Len(Script(run[s].cmd)) + 1
  BY DEF IInv, Types, Within, End
<1>2. /\ run[s].cmd = "write_hosts" => run[s].pc = 4
      /\ run[s].cmd = "make_cert" => run[s].pc = 7
      /\ run[s].cmd \in {"file.read", "file.write"} => run[s].pc = 4
      /\ run[s].cmd \in {"windows.read", "windows.write"} => run[s].pc = 2
  BY <1>1, Ends
<1>3. /\ last' = Report(run[s]) /\ last'.cmd = run[s].cmd /\ last'.arg = run[s].arg
      /\ last'.alone = run[s].alone /\ last'.failed = run[s].failed
      /\ last'.digest = run[s].digest
      /\ last'.content = IF run[s].cmd \in Writes \cup {"write_hosts"}
                           THEN run[s].buf ELSE run[s].content
  BY <1>1, Reported DEF End
<1>4. Carries(run[s]) /\ Undisturbed(run[s])
  BY DEF IInv, RunInv
<1>5. Leaves(s)
  <2>1. UNCHANGED <<plan, file, overlapped, torn, start, refused, unspawned>>
        /\ run' = [run EXCEPT ![s] = Idle]
    BY DEF End
  <2>2. ASSUME NEW x \in handed' PROVE x \in DOMAIN SizeOf /\ B64(SizeOf[x]) <= RelayCapB64
    <3>1. CASE x \in handed
      BY <1>1, <3>1 DEF Types, IInv, RelayInv
    <3>2. CASE x \notin handed
      <4>1. /\ run[s].cmd \in Reads /\ ~run[s].failed
            /\ x \in DOMAIN SizeOf /\ run[s].content = Content(<<x>>)
        BY <3>2 DEF End
      <4>2. Fits(run[s].content)
        BY <1>2, <1>4, <4>1 DEF Carries, Reads
      <4>3. QED
        BY <4>1, <4>2 DEF Fits
    <3>3. QED
      BY <3>1, <3>2
  <2>3. QED
    BY <1>1, <1>3, <2>1, <2>2 DEF Leaves, Types
<1>6. /\ Types' /\ RunInv' /\ AloneInv' /\ RelayInv'
      /\ run' \in [Slots -> Runs] /\ run'[s] = Idle
      /\ \A t \in Slots : t # s => run'[t] = run[t]
  BY <1>1, <1>5, Leaving
<1>7. DigestMatches'
  <2>1. SUFFICES ASSUME ~run[s].failed, run[s].cmd # "write_hosts",
                        run[s].alone \/ run[s].cmd \in {"windows.read", "windows.write"}
                 PROVE  last'.digest = last'.content
    BY <1>3 DEF DigestMatches, Sound
  <2>2. CASE run[s].cmd = "file.read"
    BY <1>2, <1>3, <1>4, <2>1, <2>2 DEF Undisturbed, Writes
  <2>3. CASE run[s].cmd = "file.write"
    BY <1>2, <1>3, <1>4, <2>1, <2>3 DEF Undisturbed, Writes
  <2>4. CASE run[s].cmd = "make_cert"
    BY <1>2, <1>3, <1>4, <2>1, <2>4 DEF Undisturbed, Writes
  <2>5. CASE run[s].cmd = "windows.read"
    BY <1>2, <1>3, <1>4, <2>1, <2>5 DEF Carries, Writes
  <2>6. CASE run[s].cmd = "windows.write"
    BY <1>2, <1>3, <1>4, <2>1, <2>6 DEF Carries, Writes
  <2>7. QED
    BY <1>1, <2>1, <2>2, <2>3, <2>4, <2>5, <2>6 DEF Names, Reads, Writes
<1>8. WrittenIsThere'
  <2>1. file' = file
    BY DEF End
  <2>2. SUFFICES ASSUME ~run[s].failed, run[s].alone
                 PROVE  /\ run[s].cmd \in Writes => file["path"] = last'.content
                        /\ run[s].cmd = "make_cert" =>
                             /\ file["cert"] = Content(<<run[s].arg>>)
                             /\ file["key"] = file["cert"]
                             /\ last'.content = file["cert"]
                        /\ run[s].cmd = "write_hosts" =>
                             /\ Count(file["hosts"].lines, {run[s].arg}) > 0
                             /\ ~file["hosts"].open
    BY <1>3, <2>1 DEF WrittenIsThere, Sound
  <2>3. run[s].cmd \in Writes => file["path"] = last'.content
    BY <1>2, <1>3, <1>4, <2>2 DEF Undisturbed, Writes
  <2>4. ASSUME run[s].cmd = "make_cert"
        PROVE  /\ file["cert"] = Content(<<run[s].arg>>)
               /\ file["key"] = file["cert"]
               /\ last'.content = file["cert"]
    <3>1. run[s].buf = Content(<<run[s].arg>>)
      BY <1>4, <2>2, <2>4 DEF Carries
    <3>2. file["cert"] = run[s].buf /\ file["key"] = run[s].buf /\ run[s].content = run[s].buf
      BY <1>2, <1>4, <2>2, <2>4 DEF Undisturbed
    <3>3. QED
      BY <1>3, <2>4, <3>1, <3>2 DEF Writes
  <2>5. ASSUME run[s].cmd = "write_hosts"
        PROVE  Count(file["hosts"].lines, {run[s].arg}) > 0 /\ ~file["hosts"].open
    <3>1. Has(run[s].buf, run[s].arg) /\ ~run[s].buf.open
      BY <1>2, <1>4, <2>2, <2>5 DEF Carries
    <3>2. file["hosts"] = run[s].buf /\ run[s].buf \in Contents
      BY <1>1, <1>2, <1>4, <2>2, <2>5 DEF Undisturbed, Runs
    <3>3. QED
      BY <3>1, <3>2, HasCounts
  <2>6. QED
    BY <2>3, <2>4, <2>5
<1>9. HostsInv'
  <2>1. overlapped' = overlapped /\ torn' = torn /\ start' = start /\ file' = file
    BY DEF End
  <2>2. SUFFICES ASSUME overlapped = 0, torn = 0
                 PROVE  /\ Form(file["hosts"])'
                        /\ \A t \in Slots : run'[t].cmd # "write_hosts"
    BY <2>1 DEF HostsInv
  <2>3. \A t \in Slots : t # s => run[t] = Idle
    BY <1>1, <2>2, OnlyOne
  <2>4. \A t \in Slots : run'[t].cmd # "write_hosts"
    BY <1>6, <2>3, IdleFacts DEF Names
  <2>5. Form(file["hosts"])
    <3>1. \A t \in Slots : ~(run[t].cmd = "write_hosts" /\ run[t].pc = 3)
      BY <1>2, <2>3, IdleFacts DEF Names
    <3>2. QED
      BY <2>2, <3>1 DEF IInv, HostsInv
  <2>6. QED
    BY <2>1, <2>4, <2>5 DEF Form, Own
<1>10. QED
  BY <1>6, <1>7, <1>8, <1>9 DEF IInv

\* A script that dies reports nothing, and may leave a part of what it wrote.
LEMMA DieStep ==
  ASSUME IInv, NEW s \in Slots, Die(s)
  PROVE  IInv'
<1>1. /\ Types /\ run[s] \in Runs /\ run[s] # Idle
  BY DEF IInv, Types, Die
<1>2. last' = [Report(run[s]) EXCEPT !.failed = TRUE]
  BY DEF Die
<1>3. last'.alone = run[s].alone /\ last'.failed
  BY <1>1, <1>2, Reported DEF Runs
<1>4. torn' \in 1 .. MaxTears
  BY <1>1, FilesAssumption DEF Types, Die
<1>5. /\ file' \in [Paths -> Contents]
      /\ Fits(file["path"]) => Fits(file'["path"])
  <2>1. CASE At(s, {"write", "swap"})
    <3> DEFINE p == Current(s).path
    <3>1. PICK c \in Parts(run[s].buf) \cup {file[p]} : file' = [file EXCEPT ![p] = c]
      BY <2>1 DEF Die, Here
    <3>2. /\ p \in Paths /\ ~run[s].failed
          /\ p = "path" => run[s].cmd \in Writes
      BY <1>1, <2>1, Where DEF Steps, Writes
    <3> HIDE DEF p
    <3>3. run[s].buf \in Contents /\ file[p] \in Contents
      BY <1>1, <3>2 DEF Runs, Types
    <3>4. c \in Contents
      BY <3>1, <3>3, PartsType
    <3>5. /\ file' \in [Paths -> Contents] /\ file'[p] = c
          /\ \A q \in Paths : q # p => file'[q] = file[q]
      BY <1>1, <3>1, <3>2, <3>4 DEF Types
    <3>6. CASE p = "path"
      <4>1. run[s].buf = Content(<<run[s].arg>>) /\ Fits(run[s].buf)
        BY <3>2, <3>6 DEF IInv, RunInv, Carries
      <4>2. c \in Parts(run[s].buf) => Fits(c)
        BY <4>1, PartsFit
      <4>3. QED
        BY <3>1, <3>5, <3>6, <4>2
    <3>7. CASE p # "path"
      BY <3>5, <3>7 DEF Paths
    <3>8. QED
      BY <3>5, <3>6, <3>7
  <2>2. CASE ~At(s, {"write", "swap"})
    BY <1>1, <2>2 DEF Die, Types
  <2>3. QED
    BY <2>1, <2>2
<1>6. Leaves(s)
  <2>1. \A x \in handed' : x \in DOMAIN SizeOf /\ B64(SizeOf[x]) <= RelayCapB64
    BY <1>1 DEF Die, Types, IInv, RelayInv
  <2>2. torn' \in 0 .. MaxTears
    BY <1>4
  <2>3. QED
    BY <1>3, <1>5, <2>1, <2>2 DEF Leaves, Die
<1>7. Types' /\ RunInv' /\ AloneInv' /\ RelayInv'
  BY <1>1, <1>6, Leaving
<1>8. HostsInv'
  BY <1>4 DEF HostsInv
<1>9. DigestMatches' /\ WrittenIsThere'
  BY <1>3 DEF DigestMatches, WrittenIsThere, Sound
<1>10. QED
  BY <1>7, <1>8, <1>9 DEF IInv
-----------------------------------------------------------------------------
(* Deliveries.                                                             *)

\* What is delivered.
LEMMA Delivered ==
  ASSUME Types, NEW c \in plan
  PROVE  /\ c = <<c[1], c[2]>> /\ c[1] \in Names
         /\ c[1] = "write_hosts" => c[2] \in Entries
         /\ c[1] \in Writes => c[2] \in DOMAIN SizeOf
         /\ c[1] \in Reads => c[2] = ""
<1>1. c \in Commands
  BY FilesAssumption DEF Types
<1>2. CASE c \in {"write_hosts"} \X Entries
  <2>1. c = <<c[1], c[2]>> /\ c[1] = "write_hosts" /\ c[2] \in Entries
    BY <1>2
  <2>2. QED
    BY <2>1 DEF Names, Reads, Writes
<1>3. CASE c \in Writes \X DOMAIN SizeOf
  <2>1. c = <<c[1], c[2]>> /\ c[1] \in Writes /\ c[2] \in DOMAIN SizeOf
    BY <1>3
  <2>2. QED
    BY <2>1 DEF Names, Reads, Writes
<1>4. CASE c \in (Reads \cup {"make_cert"}) \X {""}
  <2> DEFINE R == Reads \cup {"make_cert"}
             E == {""}
  <2> HIDE DEF R, E
  <2>1. c = <<c[1], c[2]>> /\ c[1] \in R /\ c[2] \in E
    <3>1. c \in R \X E
      BY <1>4 DEF R, E
    <3>2. QED
      BY <3>1
  <2>2. QED
    BY <2>1 DEF R, E, Names, Reads, Writes
<1>5. QED
  BY <1>1, <1>2, <1>3, <1>4 DEF Commands

\* What a run gets to write.
LEMMA Given ==
  ASSUME Types, NEW c \in plan, c[1] = "make_cert" => ~(Pairs \subseteq InUse)
  PROVE  /\ c[1] = "make_cert" => Argument(c) \in Pairs
         /\ c[1] # "make_cert" => Argument(c) = c[2]
         /\ Argument(c) \in Values
         /\ c[1] \notin Reads => Argument(c) \in Text
<1>1. ASSUME c[1] = "make_cert" PROVE Argument(c) \in Pairs
  <2>1. \E p \in Pairs : p \notin InUse
    BY <1>1
  <2>2. QED
    BY <1>1, <2>1 DEF Argument
<1>2. c[1] # "make_cert" => Argument(c) = c[2]
  BY DEF Argument
<1>3. c[1] \notin Reads => Argument(c) \in Text
  BY <1>1, <1>2, Delivered DEF Text, Names
<1>4. Argument(c) \in Values
  BY <1>2, <1>3, Delivered DEF Values, Reads
<1>5. QED
  BY <1>1, <1>2, <1>3, <1>4

\* What a delivery writes into an idle slot ...
Started(n, a, b, alone) ==
  [Idle EXCEPT !.cmd = n, !.arg = a, !.pc = 1, !.buf = b, !.alone = alone]

\* ... said field by field.
LEMMA Begun ==
  ASSUME NEW n \in Labels, NEW a \in Values, NEW b \in Contents, NEW alone \in BOOLEAN,
         NEW r, r = Started(n, a, b, alone)
  PROVE  /\ r \in Runs /\ r.cmd = n /\ r.arg = a /\ r.pc = 1 /\ r.buf = b
         /\ r.alone = alone /\ ~r.failed
  BY IdleFacts DEF Runs, Started

\* What the run of c has in memory at first.
First(c) == IF c[1] \in Reads THEN Empty ELSE Content(<<Argument(c)>>)

\* A run as it starts keeps what the invariant says of it.
LEMMA StartedFits ==
  ASSUME Types, NEW c \in plan, c[1] = "make_cert" => ~(Pairs \subseteq InUse), ~TooLong(c),
         NEW b \in BOOLEAN, NEW r,
         r = Started(c[1], Argument(c), First(c), b)
  PROVE  /\ r \in Runs /\ r # Idle /\ r.cmd \in Names /\ r.pc = 1 /\ r.alone = b
         /\ Within(r) /\ Carries(r) /\ Undisturbed(r)
<1> PICK a : a = Argument(c)
  OBVIOUS
<1>1. /\ c = <<c[1], c[2]>> /\ c[1] \in Names
      /\ c[1] \in Writes => c[2] \in DOMAIN SizeOf
  BY Delivered
<1>2. /\ c[1] = "make_cert" => a \in Pairs
      /\ c[1] # "make_cert" => a = c[2]
      /\ a \in Values
      /\ c[1] \notin Reads => a \in Text
  BY Given
<1>3. First(c) \in Contents
  BY <1>2, SimpleContents DEF First
<1>4. /\ r \in Runs
      /\ r.cmd = c[1] /\ r.arg = a /\ r.pc = 1 /\ r.alone = b /\ ~r.failed
      /\ r.buf = IF c[1] \in Reads THEN Empty ELSE Content(<<a>>)
  <2>1. c[1] \in Labels
    BY <1>1 DEF Labels
  <2>2. /\ r \in Runs /\ r.cmd = c[1] /\ r.arg = a /\ r.pc = 1 /\ r.alone = b /\ ~r.failed
        /\ r.buf = First(c)
    BY <1>2, <1>3, <2>1, Begun
  <2>3. QED
    BY <2>2 DEF First
<1>5. r # Idle
  BY <1>1, <1>4, IdleFacts
<1>6. Within(r)
  <2>1. Len(Script(c[1])) \in Nat
    BY <1>1, Scripts DEF Names, Reads, Writes
  <2>2. 1 \in 1 .. Len(Script(c[1])) + 1
    <3> DEFINE n == Len(Script(c[1]))
    <3> HIDE DEF n
    <3>1. n \in Nat
      BY <2>1 DEF n
    <3>2. 1 \in 1 .. n + 1
      BY <3>1
    <3>3. QED
      BY <3>2 DEF n
  <2>3. (r.cmd = "make_cert" /\ r.arg \in Pairs) \/ <<r.cmd, r.arg>> \in plan
    BY <1>1, <1>2, <1>4
  <2>4. QED
    BY <1>1, <1>4, <2>2, <2>3 DEF Within
<1>7. Carries(r)
  <2>1. c[1] \in Writes => Fits(Content(<<a>>))
    <3>1. SUFFICES ASSUME c[1] \in Writes, NEW x \in DOMAIN SizeOf,
                          Content(<<a>>) = Content(<<x>>)
                   PROVE  B64(SizeOf[x]) <= RelayCapB64
      BY DEF Fits
    <3>2. <<a>> = <<x>>
      BY <3>1 DEF Content
    <3>3. x = c[2]
      BY <1>2, <3>1, <3>2 DEF Writes
    <3>4. ~(B64(SizeOf[x]) > RelayCapB64)
      BY <3>1, <3>3 DEF TooLong
    <3>5. SizeOf[x] \in Nat
      BY Sizes
    <3>6. QED
      BY <3>4, <3>5 DEF B64, RelayCapB64, RelayCapBytes
  <2>2. r.cmd \in Writes \cup {"make_cert"} => r.buf = Content(<<a>>)
    BY <1>4 DEF Reads, Writes
  <2>3. QED
    BY <1>4, <2>1, <2>2 DEF Carries
<1>8. Undisturbed(r)
  BY <1>4 DEF Undisturbed
<1>9. QED
  BY <1>1, <1>4, <1>5, <1>6, <1>7, <1>8

\* A run that is joined by another one.
LEMMA Joined ==
  ASSUME NEW q \in Runs, NEW r, r = [q EXCEPT !.alone = FALSE]
  PROVE  /\ r \in Runs /\ ~r.alone
         /\ r.cmd = q.cmd /\ r.arg = q.arg /\ r.pc = q.pc /\ r.buf = q.buf
         /\ r.content = q.content /\ r.digest = q.digest /\ r.failed = q.failed
  BY DEF Runs

\* A delivery starts one run, and takes from the others that they are alone.
LEMMA DeliverStep ==
  ASSUME IInv, NEW c \in plan, NEW s \in Slots, Deliver(s, c)
  PROVE  IInv'
<1> DEFINE only == Busy = {}
<1>1. /\ Types /\ run \in [Slots -> Runs] /\ run[s] = Idle /\ ~TooLong(c)
      /\ c[1] = "make_cert" => ~(Pairs \subseteq InUse)
      /\ only \in BOOLEAN
      /\ UNCHANGED <<plan, file, torn, start, handed, refused, unspawned>> /\ last' = Idle
  BY DEF IInv, Types, Deliver
<1>2. PICK r : r = Started(c[1], Argument(c), First(c), only)
  OBVIOUS
<1>3. /\ r \in Runs /\ r # Idle /\ r.cmd \in Names /\ r.pc = 1 /\ r.alone = only
      /\ Within(r) /\ Carries(r) /\ Undisturbed(r)
  BY <1>1, <1>2, StartedFits
<1>4. /\ \A t \in Slots : t # s /\ run[t] = Idle => run'[t] = run[t]
      /\ \A t \in Slots : t # s /\ run[t] # Idle => run'[t] = [run[t] EXCEPT !.alone = FALSE]
      /\ run'[s] = r /\ run' \in [Slots -> Runs]
  <2>2. run' = [t \in Slots |->
                  IF t = s THEN r
                  ELSE IF t \in Busy THEN [run[t] EXCEPT !.alone = FALSE] ELSE run[t]]
    BY <1>2 DEF Deliver, Started, First
  <2>3. \A t \in Slots : run'[t] \in Runs
    <3>1. TAKE t \in Slots
    <3>2. run[t] \in Runs
      BY <1>1
    <3>3. [run[t] EXCEPT !.alone = FALSE] \in Runs
      BY <3>2, Joined
    <3>4. QED
      BY <1>3, <2>2, <3>2, <3>3
  <2>4. QED
    BY <2>2, <2>3 DEF Busy
<1>5. ASSUME NEW t \in Slots, t # s, run[t] # Idle
      PROVE  /\ run'[t] \in Runs /\ ~run'[t].alone /\ run'[t] # Idle
             /\ run'[t].cmd = run[t].cmd /\ run'[t].arg = run[t].arg
             /\ run'[t].pc = run[t].pc /\ run'[t].buf = run[t].buf
             /\ run'[t].content = run[t].content /\ run'[t].digest = run[t].digest
             /\ run'[t].failed = run[t].failed
  <2>1. run[t] \in Runs /\ run'[t] = [run[t] EXCEPT !.alone = FALSE]
    BY <1>1, <1>4, <1>5
  <2>2. QED
    BY <2>1, Joined, IdleFacts
<1>6. Types'
  <2>1. \A t \in Slots : Within(run[t])'
    <3>1. TAKE t \in Slots
    <3>2. CASE t = s
      BY <1>1, <1>3, <1>4, <3>2 DEF Within
    <3>3. CASE t # s /\ run[t] = Idle
      BY <1>4, <3>3 DEF Within
    <3>4. CASE t # s /\ run[t] # Idle
      <4>1. Within(run[t])
        BY <1>1 DEF Types
      <4>2. QED
        BY <1>1, <1>5, <3>4, <4>1 DEF Within
    <3>5. QED
      BY <3>2, <3>3, <3>4
  <2>2. overlapped' \in 0 .. MaxOverlaps
    <3>1. only \/ overlapped < MaxOverlaps
      BY DEF Deliver
    <3>2. overlapped' = IF only THEN overlapped ELSE overlapped + 1
      BY DEF Deliver
    <3>3. overlapped \in 0 .. MaxOverlaps /\ MaxOverlaps \in Nat
      BY <1>1, FilesAssumption DEF Types
    <3> HIDE DEF only
    <3>4. QED
      BY <3>1, <3>2, <3>3
  <2>3. QED
    BY <1>1, <1>4, <2>1, <2>2 DEF Types
<1>7. RunInv'
  <2>1. SUFFICES ASSUME NEW t \in Slots PROVE Carries(run[t])' /\ Undisturbed(run[t])'
    BY DEF RunInv
  <2>2. Carries(run[t]) /\ Undisturbed(run[t]) /\ file' = file
    BY <1>1 DEF IInv, RunInv
  <2>3. CASE t = s
    <3>1. run'[t] = r
      BY <1>4, <2>3
    <3>2. QED
      BY <1>3, <2>2, <3>1 DEF Carries, Undisturbed, Fits
  <2>4. CASE t # s /\ run[t] = Idle
    BY <1>4, <2>2, <2>4 DEF Carries, Undisturbed, Fits
  <2>5. CASE t # s /\ run[t] # Idle
    <3>1. Carries(run[t])'
      BY <1>5, <2>2, <2>5 DEF Carries, Fits
    <3>2. Undisturbed(run[t])'
      BY <1>5, <2>5 DEF Undisturbed
    <3>3. QED
      BY <3>1, <3>2
  <2>6. QED
    BY <2>3, <2>4, <2>5
<1>8. only => \A t \in Slots : run[t] = Idle
  BY DEF Busy
<1>9. overlapped' = 0 => only /\ overlapped = 0
  <2>1. overlapped' = IF only THEN overlapped ELSE overlapped + 1
    BY DEF Deliver
  <2>2. overlapped \in Nat
    BY <1>1, FilesAssumption DEF Types
  <2> HIDE DEF only
  <2>3. QED
    BY <2>1, <2>2
<1>10. AloneInv'
  <2>1. ASSUME NEW t \in Slots, NEW u \in Slots, run'[t] # Idle, run'[u] # Idle, run'[t].alone
        PROVE  t = u
    <3>1. t = s
      BY <1>4, <1>5, <2>1
    <3>2. \A v \in Slots : v # s => run'[v] = Idle
      BY <1>3, <1>4, <1>8, <2>1, <3>1
    <3>3. QED
      BY <2>1, <3>1, <3>2
  <2>2. ASSUME overlapped' = 0, NEW t \in Slots PROVE run'[t].alone
    BY <1>3, <1>4, <1>8, <1>9, <2>2, IdleFacts
  <2>3. QED
    BY <1>1, <2>1, <2>2 DEF AloneInv
<1>11. RelayInv'
  BY <1>1 DEF IInv, RelayInv
<1>12. HostsInv'
  <2>1. SUFFICES ASSUME overlapped' = 0, torn = 0
                 PROVE  /\ Form(file["hosts"])'
                        /\ \A t \in Slots : ~(run'[t].cmd = "write_hosts" /\ run'[t].pc \in 2 .. 3)
    BY <1>1 DEF HostsInv
  <2>2. \A t \in Slots : run[t] = Idle
    BY <1>8, <1>9, <2>1
  <2>3. \A t \in Slots : ~(run'[t].cmd = "write_hosts" /\ run'[t].pc \in 2 .. 3)
    BY <1>3, <1>4, <2>2, IdleFacts DEF Names
  <2>4. Form(file["hosts"])
    BY <1>9, <2>1, <2>2, IdleFacts DEF IInv, HostsInv, Names
  <2>5. QED
    BY <1>1, <2>3, <2>4 DEF Form, Own
<1>13. DigestMatches' /\ WrittenIsThere'
  BY <1>1 DEF DigestMatches, WrittenIsThere, Sound
<1>14. QED
  BY <1>6, <1>7, <1>10, <1>11, <1>12, <1>13 DEF IInv

\* The parts of the invariant that only speak of files, runs and deliveries
\* see nothing of what is refused.
LEMMA Unseen ==
  ASSUME IInv, UNCHANGED <<plan, file, run, last, overlapped, torn, start, handed>>,
         \A x \in refused' : x \in DOMAIN SizeOf /\ B64(SizeOf[x]) > RelayCapB64,
         unspawned' \subseteq DOMAIN SizeOf
  PROVE  IInv'
<1>1. Types'
  <2>1. \A s \in Slots : Within(run[s])'
    BY DEF IInv, Types, Within
  <2>2. refused' \subseteq DOMAIN SizeOf
    OBVIOUS
  <2>3. QED
    BY <2>1, <2>2 DEF IInv, Types
<1>2. RunInv' /\ AloneInv'
  BY DEF IInv, RunInv, Carries, Undisturbed, Fits, AloneInv
<1>3. RelayInv'
  BY DEF IInv, RelayInv
<1>4. HostsInv'
  BY DEF IInv, HostsInv, Form, Own
<1>5. DigestMatches' /\ WrittenIsThere'
  BY DEF IInv, DigestMatches, WrittenIsThere, Sound, Busy
<1>6. QED
  BY <1>1, <1>2, <1>3, <1>4, <1>5 DEF IInv

\* What file.write refuses is beyond the cap.
LEMMA RefuseStep ==
  ASSUME IInv, NEW c \in plan, Refuse(c)
  PROVE  IInv'
<1>1. Types /\ c[1] \in Writes /\ B64(SizeOf[c[2]]) > RelayCapB64
  BY DEF IInv, Refuse, TooLong
<1>2. c[2] \in DOMAIN SizeOf
  BY <1>1, Delivered
<1>3. \A x \in refused' : x \in DOMAIN SizeOf /\ B64(SizeOf[x]) > RelayCapB64
  BY <1>1, <1>2 DEF Refuse, IInv, RelayInv, Types
<1>4. unspawned' \subseteq DOMAIN SizeOf
  BY <1>1 DEF Refuse, Types
<1>5. QED
  BY <1>3, <1>4, Unseen DEF Refuse

\* A script that cannot be started leaves no trace but the error.
LEMMA SpawnFailsStep ==
  ASSUME IInv, NEW c \in plan, SpawnFails(c)
  PROVE  IInv'
<1>1. Types /\ c[1] \in Writes
  BY DEF IInv, SpawnFails, Unspawnable
<1>2. c[2] \in DOMAIN SizeOf
  BY <1>1, Delivered
<1>3. \A x \in refused' : x \in DOMAIN SizeOf /\ B64(SizeOf[x]) > RelayCapB64
  BY <1>1 DEF SpawnFails, IInv, RelayInv, Types
<1>4. unspawned' \subseteq DOMAIN SizeOf
  BY <1>1, <1>2 DEF SpawnFails, Types
<1>5. QED
  BY <1>3, <1>4, Unseen DEF SpawnFails
-----------------------------------------------------------------------------
(* The invariant holds.                                                    *)

\* Nothing is delivered yet.
LEMMA InitHolds ==
  ASSUME Init PROVE IInv
<1>1. PICK h \in HostsFiles, x \in DOMAIN SizeOf :
        file = [p \in Paths |-> CASE p = "hosts" -> h [] p = "path" -> Content(<<x>>)
                                  [] OTHER -> Empty]
  BY DEF Init, Paths
<1>2. h \in Contents
  <2>1. /\ h.open \in BOOLEAN /\ h = [lines |-> h.lines, open |-> h.open]
        /\ h.lines \in {<<"own">>, <<"begin", "e1", "end", "own">>,
                        <<"own", "begin", "e1", "end", "own">>}
    BY DEF HostsFiles
  <2>2. "own" \in Text /\ "begin" \in Text /\ "end" \in Text /\ "e1" \in Text
    BY DEF Text, Entries
  <2> HIDE DEF Text
  <2>3. /\ <<"own">> \in Seq(Text) /\ <<"begin", "e1", "end", "own">> \in Seq(Text)
        /\ <<"own", "begin", "e1", "end", "own">> \in Seq(Text)
    BY <2>2
  <2>4. h.lines \in Seq(Text)
    BY <2>1, <2>3
  <2>5. QED
    BY <2>1, <2>4 DEF Contents
<1>3. Content(<<x>>) \in Contents /\ Empty \in Contents
  BY SimpleContents DEF Text
<1>4. /\ file \in [Paths -> Contents] /\ file["hosts"] = h
  BY <1>1, <1>2, <1>3 DEF Paths
<1>5. run \in [Slots -> Runs] /\ \A s \in Slots : run[s] = Idle
  BY IdleFacts DEF Init
<1>6. /\ plan \in Plans /\ last = Idle /\ overlapped = 0 /\ torn = 0 /\ start = file
      /\ handed = {} /\ refused = {} /\ unspawned = {}
  BY DEF Init
<1>7. Types
  <2>1. 0 \in 0 .. MaxOverlaps /\ 0 \in 0 .. MaxTears
    BY FilesAssumption
  <2>2. QED
    BY <1>4, <1>5, <1>6, <2>1 DEF Types, Within
<1>8. RunInv
  BY <1>5, IdleFacts DEF RunInv, Carries, Undisturbed, Names, Reads, Writes
<1>9. AloneInv /\ RelayInv
  BY <1>5, <1>6, IdleFacts DEF AloneInv, RelayInv
<1>10. HostsInv
  BY <1>5, <1>6, IdleFacts DEF HostsInv, Form, Names
<1>11. DigestMatches /\ WrittenIsThere
  BY <1>6 DEF DigestMatches, WrittenIsThere, Sound
<1>12. QED
  BY <1>7, <1>8, <1>9, <1>10, <1>11 DEF IInv

\* Every step keeps it.
LEMMA NextHolds ==
  ASSUME IInv, [Next]_vars PROVE IInv'
<1>1. CASE UNCHANGED vars
  <2>1. \A x \in refused' : x \in DOMAIN SizeOf /\ B64(SizeOf[x]) > RelayCapB64
    BY <1>1 DEF vars, history, IInv, Types, RelayInv
  <2>2. unspawned' \subseteq DOMAIN SizeOf
    BY <1>1 DEF vars, history, IInv, Types
  <2>3. QED
    BY <1>1, <2>1, <2>2, Unseen DEF vars, history
<1>2. CASE \E s \in Slots, c \in plan : Deliver(s, c)
  BY <1>2, DeliverStep
<1>3. CASE \E c \in plan : Refuse(c) \/ SpawnFails(c)
  BY <1>3, RefuseStep, SpawnFailsStep
<1>4. ASSUME NEW s \in Slots,
             \/ Edit(s) \/ Truncate(s) \/ Write(s) \/ SizeCheck(s) \/ Encode(s) \/ Digest(s)
             \/ Take(s) \/ Swap(s) \/ SwapRefused(s) \/ End(s) \/ Die(s)
      PROVE  IInv'
  BY <1>4, EditStep, TruncateStep, WriteStep, SizeCheckStep, EncodeStep, DigestStep, TakeStep,
     SwapStep, SwapRefusedStep, EndStep, DieStep
<1>5. QED
  BY <1>1, <1>2, <1>3, <1>4 DEF Next

\* So it holds.
LEMMA InvariantHolds == Spec => []IInv
<1>1. Init => IInv
  BY InitHolds
<1>2. IInv /\ [Next]_vars => IInv'
  BY NextHolds
<1>3. QED
  BY <1>1, <1>2, PTL DEF Spec
-----------------------------------------------------------------------------
(* The properties.                                                         *)

\* Contents stay contents, runs are of delivered commands, and the histories
\* within their bounds.
THEOREM FilesTypeCorrect == Spec => []TypeOK
<1>1. ASSUME IInv PROVE TypeOK
  <2>1. \A c \in Contents : IsContent(c)
    BY DEF Contents, IsContent
  <2>2. file \in [Paths -> Contents] /\ run \in [Slots -> Runs]
    BY <1>1 DEF IInv, Types
  <2>3. \A p \in DOMAIN file : IsContent(file[p])
    BY <2>1, <2>2
  <2>4. ASSUME NEW s \in Slots
        PROVE  /\ run[s] = Idle \/ <<run[s].cmd, run[s].arg>> \in plan
                                \/ run[s].cmd = "make_cert"
               /\ IsContent(run[s].buf) /\ IsContent(run[s].content)
               /\ IsContent(run[s].digest)
    <3>1. run[s].buf \in Contents /\ run[s].content \in Contents /\ run[s].digest \in Contents
      BY <2>2 DEF Runs
    <3>2. Within(run[s])
      BY <1>1 DEF IInv, Types
    <3>3. QED
      BY <2>1, <3>1, <3>2 DEF Within
  <2>5. QED
    BY <1>1, <2>3, <2>4 DEF TypeOK, IInv, Types
<1>2. QED
  BY <1>1, InvariantHolds, PTL

\* file.read, file.write and make_cert report the digest of the content that
\* they report: on Windows always, on Linux if no other script ran meanwhile.
THEOREM DigestIsOfContent == Spec => []DigestMatches
<1>1. IInv => DigestMatches
  BY DEF IInv
<1>2. QED
  BY <1>1, InvariantHolds, PTL

\* What file.write, make_cert or write_hosts reported as written is in the file
\* when the script that wrote it was alone, whatever died before it.
THEOREM WhatIsReportedIsThere == Spec => []WrittenIsThere
<1>1. IInv => WrittenIsThere
  BY DEF IInv
<1>2. QED
  BY <1>1, InvariantHolds, PTL

\* Between runs of which none overlapped and none died, the hosts file has one
\* of its forms.
LEMMA FormBetween ==
  ASSUME IInv, overlapped = 0, torn = 0, Busy = {}
  PROVE  Form(file["hosts"]) /\ start["hosts"] \in HostsFiles
<1>1. \A s \in Slots : run[s] = Idle
  BY DEF Busy
<1>2. QED
  BY <1>1, IdleFacts DEF IInv, HostsInv, Types, Names

\* write_hosts (certsecure.rs) keeps the operator's lines of /etc/hosts over any
\* number of runs, as long as none overlaps another or dies.
THEOREM OperatorsLinesStay == Spec => []OwnLinesKept
<1>1. IInv => OwnLinesKept
  BY FormBetween, FormCounts DEF OwnLinesKept
<1>2. QED
  BY <1>1, InvariantHolds, PTL

\* ... and holds one block after each of them, if the file ended in a newline.
THEOREM BlocksDoNotPileUp == Spec => []OneBlock
<1>1. IInv => OneBlock
  BY FormBetween, FormCounts DEF OneBlock
<1>2. QED
  BY <1>1, InvariantHolds, PTL

\* file.write does not refuse what file.read handed out: the cap before base64
\* and the cap behind it agree, padding included.
THEOREM ReadCanBeWritten == Spec => []RelayAccepts
<1>1. ASSUME IInv PROVE RelayAccepts
  <2>1. SUFFICES ASSUME NEW x \in handed, x \in refused PROVE FALSE
    BY DEF RelayAccepts
  <2>2. /\ B64(SizeOf[x]) <= RelayCapB64 /\ B64(SizeOf[x]) > RelayCapB64
        /\ SizeOf[x] \in Nat
    BY <1>1, <2>1, Sizes DEF IInv, RelayInv, Types
  <2>3. B64(SizeOf[x]) \in Int /\ RelayCapB64 \in Int
    BY <2>2 DEF B64, RelayCapB64, RelayCapBytes
  <2>4. QED
    BY <2>2, <2>3
<1>2. QED
  BY <1>1, InvariantHolds, PTL

==============================================================================
