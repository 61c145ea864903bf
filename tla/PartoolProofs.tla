---------------------------- MODULE PartoolProofs ----------------------------
(***************************************************************************)
(* partool for any processes, names, values, sizes and faults: what the    *)
(* lock file guarantees although every command unlinks it; that no name    *)
(* gets two lines of the partition, whatever overlaps or fails; and, for   *)
(* commands one after the other in a partition that is large enough, that  *)
(* the answers are true and the partition is a store of variables.         *)
(***************************************************************************)
EXTENDS Partool, FiniteSetTheorems, SequenceTheorems, WellFoundedInduction, TLAPS

Places == Held \cup {"idle", "copied", "opened", "unlocked", "done"}

\* Two processes between part_lock and part_unlock have different files open
\* (0 is a command that goes on although the lock failed).
FileExclusive ==
    \A p, q \in Procs :
        p # q /\ pc[p] \in Held /\ pc[q] \in Held /\ file[p] # 0 => file[p] # file[q]

\* Unless locking can fail, a process holds the lock on a file.
HoldsFile ==
    "lock" \notin Faults => \A p \in Procs : pc[p] \in Held \cup {"opened"} => file[p] # 0

\* The inductive invariant.
LockInv ==
    /\ pc \in [Procs -> Places]
    /\ file \in [Procs -> Nat]
    /\ path \in Nat
    /\ FileExclusive
    /\ HoldsFile

-----------------------------------------------------------------------------
\* open(O_CREAT) finds a new inode: the processes have fewer files open than
\* there are inodes.
LEMMA NewFileExists ==
    ASSUME LockInv
    PROVE  newFile \in Nat \ {0}
<1> DEFINE opened == {file[q] : q \in Procs}
           n == Cardinality(Procs)
<1>1. IsFiniteSet(Procs) /\ n \in Nat
  BY ProcsAssumption, FS_CardinalityType
<1>2. file \in Surjection(Procs, opened)
  BY DEF LockInv, Surjection
<1>3. IsFiniteSet(opened) /\ Cardinality(opened) <= n
  BY <1>1, <1>2, FS_Surjection
<1>4. Cardinality(opened) \in Nat
  BY <1>3, FS_CardinalityType
<1> HIDE DEF opened, n
<1>5. /\ IsFiniteSet(opened \cup {path})
      /\ Cardinality(opened \cup {path}) \in Nat
      /\ Cardinality(opened \cup {path}) <= n + 1
  <2>1. /\ IsFiniteSet(opened \cup {path})
        /\ Cardinality(opened \cup {path}) \in {Cardinality(opened), Cardinality(opened) + 1}
    BY <1>3, FS_AddElement
  <2> QED BY <1>1, <1>3, <1>4, <2>1
<1>6. IsFiniteSet(1..(n + 2)) /\ Cardinality(1..(n + 2)) = n + 2
  BY <1>1, FS_Interval
<1>7. ~(1..(n + 2) \subseteq opened \cup {path})
  <2> SUFFICES ASSUME 1..(n + 2) \subseteq opened \cup {path} PROVE FALSE
    OBVIOUS
  <2>1. Cardinality(1..(n + 2)) <= Cardinality(opened \cup {path})
    BY <1>5, FS_Subset
  <2> QED BY <1>1, <1>5, <1>6, <2>1
<1>8. \E f \in 1..(n + 2) : f \notin {path} \cup opened
  BY <1>7
<1>9. newFile \in 1..(n + 2)
  BY <1>8 DEF newFile, opened, n
<1> QED BY <1>1, <1>9

\* A step of one process that keeps its file keeps the invariant, if it
\* enters the locked part only through Flock.
LEMMA MoveKeepsInv ==
    ASSUME LockInv, NEW p \in Procs, NEW place \in Places,
           pc' = [pc EXCEPT ![p] = place],
           file' = file, path' \in Nat,
           place \in Held \cup {"opened"} => pc[p] \in Held \cup {"opened"},
           place \in Held /\ pc[p] \notin Held =>
               \A q \in Procs \ {p} : pc[q] \in Held => file[q] # file[p]
    PROVE  LockInv'
<1>1. /\ pc' \in [Procs -> Places] /\ pc'[p] = place
      /\ \A q \in Procs \ {p} : pc'[q] = pc[q]
  BY DEF LockInv
<1>2. FileExclusive'
  BY <1>1 DEF LockInv, FileExclusive
<1>3. HoldsFile'
  BY <1>1 DEF LockInv, HoldsFile
<1> QED BY <1>1, <1>2, <1>3 DEF LockInv

\* Every step of a command keeps the invariant.
LEMMA StepKeepsInv ==
    ASSUME LockInv, NEW p \in Procs, Step(p)
    PROVE  LockInv'
<1>1. CASE Open(p)
  <2>1. /\ path' \in Nat \ {0} /\ file' = [file EXCEPT ![p] = path']
        /\ pc' = [pc EXCEPT ![p] = "opened"]
    BY <1>1, NewFileExists DEF Open, LockInv
  <2>2. /\ pc' \in [Procs -> Places] /\ file' \in [Procs -> Nat]
        /\ pc'[p] = "opened" /\ file'[p] # 0
        /\ \A q \in Procs \ {p} : pc'[q] = pc[q] /\ file'[q] = file[q]
    BY <2>1 DEF LockInv, Places
  <2>3. FileExclusive' /\ HoldsFile'
    BY <2>2 DEF LockInv, FileExclusive, HoldsFile, Held
  <2> QED BY <2>1, <2>2, <2>3 DEF LockInv
<1>2. CASE Flock(p)
  <2>1. /\ pc[p] = "opened" /\ pc' = [pc EXCEPT ![p] = "inside"] /\ file' = file /\ path' = path
        /\ \A q \in Procs \ {p} : pc[q] \in Held => file[q] # file[p]
    BY <1>2 DEF Flock
  <2> QED BY <2>1, MoveKeepsInv DEF Places, Held, LockInv
<1>3. CASE LockFails(p)
  <2>1. /\ "lock" \in Faults /\ file' = [file EXCEPT ![p] = 0]
        /\ pc' = [pc EXCEPT ![p] = "inside"] /\ path' = path
    BY <1>3 DEF LockFails
  <2>2. /\ pc' \in [Procs -> Places] /\ file' \in [Procs -> Nat] /\ file'[p] = 0
        /\ \A q \in Procs \ {p} : pc'[q] = pc[q] /\ file'[q] = file[q]
    BY <2>1 DEF LockInv, Places, Held
  <2>3. FileExclusive'
    BY <2>2 DEF LockInv, FileExclusive
  <2> QED BY <2>1, <2>2, <2>3 DEF LockInv, HoldsFile
<1>4. CASE Apply(p)
  <2>1. PICK place \in {"flush", "flushed"} : pc' = [pc EXCEPT ![p] = place]
    BY <1>4 DEF Apply
  <2>2. pc[p] = "inside" /\ file' = file /\ path' = path
    BY <1>4 DEF Apply
  <2> QED BY <2>1, <2>2, MoveKeepsInv DEF Places, Held, LockInv
<1>5. CASE WriteBegin(p)
  BY <1>5, MoveKeepsInv DEF WriteBegin, Places, Held, LockInv
<1>6. CASE WriteEnd(p)
  BY <1>6, MoveKeepsInv DEF WriteEnd, Places, Held, LockInv
<1>7. CASE WriteFails(p)
  BY <1>7, MoveKeepsInv DEF WriteFails, Places, Held, LockInv
<1>8. CASE Unlock(p)
  <2>1. /\ file' = [file EXCEPT ![p] = 0]
        /\ pc' = [pc EXCEPT ![p] = "unlocked"] /\ path' = path
    BY <1>8 DEF Unlock
  <2>2. /\ pc' \in [Procs -> Places] /\ file' \in [Procs -> Nat]
        /\ pc'[p] = "unlocked"
        /\ \A q \in Procs \ {p} : pc'[q] = pc[q] /\ file'[q] = file[q]
    BY <2>1 DEF LockInv, Places
  <2>3. FileExclusive' /\ HoldsFile'
    BY <2>2 DEF LockInv, FileExclusive, HoldsFile, Held
  <2> QED BY <2>1, <2>2, <2>3 DEF LockInv
<1>9. CASE Unlink(p)
  BY <1>9, MoveKeepsInv DEF Unlink, Places, Held, LockInv
<1> QED BY <1>1, <1>2, <1>3, <1>4, <1>5, <1>6, <1>7, <1>8, <1>9 DEF Step

\* The inductive invariant holds for every set of processes, commands and
\* faults.
THEOREM LocksCorrect == Spec => []LockInv
<1>1. Init => LockInv
  BY DEF Init, LockInv, Places, Held, FileExclusive, HoldsFile
<1>2. LockInv /\ [Next]_vars => LockInv'
  <2> SUFFICES ASSUME LockInv, [Next]_vars PROVE LockInv'
    OBVIOUS
  <2>1. ASSUME NEW p \in Procs, NEW c \in Command, mtd_2_tmp(p, c) PROVE LockInv'
    BY <2>1, MoveKeepsInv DEF mtd_2_tmp, Places, Held, LockInv
  <2>2. ASSUME NEW p \in Procs, NEW c \in Command, CopyFails(p, c) PROVE LockInv'
    BY <2>2, MoveKeepsInv DEF CopyFails, Places, Held, LockInv
  <2>3. ASSUME NEW p \in Procs, Step(p) PROVE LockInv'
    BY <2>3, StepKeepsInv
  <2>4. CASE PowerLoss
    BY <2>4 DEF PowerLoss, LockInv, Places, Held, FileExclusive, HoldsFile
  <2>5. CASE UNCHANGED vars
    BY <2>5 DEF vars, LockInv, FileExclusive, HoldsFile
  <2> QED BY <2>1, <2>2, <2>3, <2>4, <2>5 DEF Next
<1> QED BY <1>1, <1>2, PTL DEF Spec

\* Where locking does not fail, two commands are between part_lock and
\* part_unlock together only if one of them holds a lock file that was
\* unlinked under it (part_unlock unlinks whatever the name stands for).
THEOREM LocksPerFile == "lock" \notin Faults => (Spec => []LockPerFile)
<1> SUFFICES ASSUME "lock" \notin Faults PROVE Spec => []LockPerFile
  OBVIOUS
<1>1. LockInv => LockPerFile
  BY DEF LockInv, FileExclusive, HoldsFile, LockPerFile
<1> QED BY <1>1, LocksCorrect, PTL

-----------------------------------------------------------------------------
(***************************************************************************)
(* Induction over the positions of a list.  The library's theorems on      *)
(* well-founded relations take sets, so it is stated for the set of the    *)
(* numbers that have the property.                                         *)
(***************************************************************************)

Below == {ss \in Nat \X Nat : ss[1] < ss[2]}

\* The natural numbers are well founded.
LEMMA BelowWellFounded == IsWellFoundedOn(Below, Nat)
<1>1. Below = OpToRel(<, Nat)  BY Zenon DEF Below, OpToRel
<1>2. QED  BY <1>1, NatLessThanWellFounded, Zenon

\* A non-empty set of natural numbers has a least element.
LEMMA Least ==
    ASSUME NEW S, S \subseteq Nat, S # {}
    PROVE  \E m \in S : \A k \in S : m <= k
<1>1. PICK m \in S : \A k \in S : ~ (<<k, m>> \in Below)
  BY WFMin, BelowWellFounded
<1>2. ASSUME NEW k \in S  PROVE m <= k
  <2>1. <<k, m>> \notin Below  BY <1>1
  <2>2. QED  BY <2>1 DEF Below
<1>3. QED  BY <1>2

\* Induction up to a bound.
LEMMA Induction ==
    ASSUME NEW S, NEW N \in Nat, 0 \in S,
           \A n \in 0..(N - 1) : n \in S => n + 1 \in S
    PROVE  \A n \in 0..N : n \in S
<1> DEFINE Bad == {n \in 0..N : n \notin S}
<1>1. SUFFICES ASSUME Bad # {}  PROVE FALSE
  OBVIOUS
<1>2. PICK m \in Bad : \A k \in Bad : m <= k
  <2>1. Bad \subseteq Nat  OBVIOUS
  <2> HIDE DEF Bad
  <2>2. QED  BY <1>1, <2>1, Least
<1>3. m # 0 /\ m - 1 \in 0..(N - 1)  BY <1>2
<1>4. m - 1 \in S  BY <1>2, <1>3
<1>5. m \in S  BY <1>3, <1>4
<1>6. QED  BY <1>2, <1>5

\* A non-empty set of natural numbers below a bound has a greatest element.
LEMMA Greatest ==
    ASSUME NEW N \in Nat, NEW S, S \subseteq 0..N, S # {}
    PROVE  \E m \in S : \A k \in S : m >= k
<1> DEFINE Up == {u \in 0..N : \A k \in S : k <= u}
<1>1. N \in Up  OBVIOUS
<1>2. PICK m \in Up : \A k \in Up : m <= k
  <2>1. Up \subseteq Nat  OBVIOUS
  <2> HIDE DEF Up
  <2>2. QED  BY <1>1, <2>1, Least
<1>3. m \in S
  <2>1. SUFFICES ASSUME m \notin S  PROVE FALSE
    OBVIOUS
  <2>2. \A k \in S : k <= m - 1  BY <1>2, <2>1
  <2>3. m # 0
    <3>1. PICK k \in S : TRUE  OBVIOUS
    <3>2. k \in Nat /\ m \in Nat /\ k <= m - 1  BY <2>2, <3>1
    <3>3. QED  BY <3>2
  <2>4. m - 1 \in Up  BY <1>2, <2>2, <2>3
  <2>5. QED  BY <1>2, <2>4
<1>4. QED  BY <1>2, <1>3

-----------------------------------------------------------------------------
(***************************************************************************)
(* Functions defined by recursion over an initial segment of the natural   *)
(* numbers exist.  The step is a function, not an operator.                *)
(***************************************************************************)

\* The steps of N rounds on D, and their iterates from a on.
Steps(D, N) == [0..(N - 1) -> [D -> D]]
Iterate(g, D, N, a, f) ==
    /\ g \in [0..N -> D] /\ g[0] = a
    /\ \A i \in 0..(N - 1) : g[i + 1] = f[i][g[i]]

\* For every start and every step there is the sequence of iterates.
LEMMA Iterates ==
    ASSUME NEW D, NEW N \in Nat, NEW a \in D, NEW f \in Steps(D, N)
    PROVE  \E g : Iterate(g, D, N, a, f)
<1> DEFINE Run(g, n) == g[0] = a /\ \A i \in 0..(n - 1) : g[i + 1] = f[i][g[i]]
           S == {n \in 0..N : \E g \in [0..n -> D] : Run(g, n)}
<1>1. 0 \in S
  <2> DEFINE g0 == [i \in 0..0 |-> a]
  <2>1. g0 \in [0..0 -> D] /\ Run(g0, 0)  OBVIOUS
  <2> HIDE DEF g0, Run
  <2>2. QED  BY <2>1
<1>2. ASSUME NEW n \in 0..(N - 1), n \in S  PROVE n + 1 \in S
  <2>1. PICK g \in [0..n -> D] : Run(g, n)  BY <1>2
  <2> DEFINE h == [i \in 0..(n + 1) |-> IF i = n + 1 THEN f[n][g[n]] ELSE g[i]]
  <2>2. f[n][g[n]] \in D  BY DEF Steps
  <2>3. h \in [0..(n + 1) -> D]  BY <2>2
  <2>4. Run(h, n + 1)
    <3>1. h[0] = a  BY <2>1
    <3>2. ASSUME NEW i \in 0..n  PROVE h[i + 1] = f[i][h[i]]
      <4>1. CASE i = n  BY <4>1
      <4>2. CASE i < n  BY <4>2, <2>1
      <4>3. QED  BY <4>1, <4>2
    <3>3. (n + 1) - 1 = n  OBVIOUS
    <3> HIDE DEF h
    <3>4. QED  BY <3>1, <3>2, <3>3
  <2>5. n + 1 \in 0..N  OBVIOUS
  <2> HIDE DEF h, Run
  <2>6. QED  BY <2>3, <2>4, <2>5
<1>3. N \in S
  <2> HIDE DEF S
  <2>1. \A n \in 0..N : n \in S  BY <1>1, <1>2, Induction
  <2>2. QED  BY <2>1
<1>4. QED  BY <1>3 DEF Iterate

-----------------------------------------------------------------------------
(***************************************************************************)
(* Lists of lines.                                                         *)
(***************************************************************************)

\* No name is on two lines.
Unique(s) == \A i, j \in DOMAIN s : s[i].k = s[j].k => i = j

\* The lines of a list.
Lines(s) == {s[i] : i \in DOMAIN s}

\* s without the lines that are not in S, in the order of s.
IsKept(t, s, S) ==
    /\ t \in Seq(Line)
    /\ Lines(t) = {x \in Lines(s) : x \in S}
    /\ Unique(s) => Unique(t)
    /\ Lines(s) \subseteq S => t = s

\* Appending one line to a list.
LEMMA AppendLine ==
    ASSUME NEW s \in Seq(Line), NEW x \in Line
    PROVE  /\ Append(s, x) \in Seq(Line)
           /\ Lines(Append(s, x)) = Lines(s) \cup {x}
           /\ Unique(s) /\ (\A y \in Lines(s) : y.k # x.k) => Unique(Append(s, x))
<1>1. /\ Append(s, x) \in Seq(Line) /\ Len(s) \in Nat
      /\ DOMAIN s = 1..Len(s) /\ DOMAIN Append(s, x) = 1..(Len(s) + 1)
      /\ \A i \in 1..Len(s) : Append(s, x)[i] = s[i]
      /\ Append(s, x)[Len(s) + 1] = x
  BY AppendProperties, LenProperties
<1>2. Lines(Append(s, x)) = Lines(s) \cup {x}
  <2>1. Lines(Append(s, x)) \subseteq Lines(s) \cup {x}  BY <1>1 DEF Lines
  <2>2. Lines(s) \subseteq Lines(Append(s, x))  BY <1>1 DEF Lines
  <2>3. x \in Lines(Append(s, x))  BY <1>1 DEF Lines
  <2>4. QED  BY <2>1, <2>2, <2>3
<1>3. ASSUME Unique(s), \A y \in Lines(s) : y.k # x.k  PROVE Unique(Append(s, x))
  <2>1. \A i \in 1..Len(s) : s[i].k # x.k  BY <1>1, <1>3 DEF Lines
  <2>2. QED  BY <1>1, <1>3, <2>1 DEF Unique
<1>4. QED  BY <1>1, <1>2, <1>3

\* The first n lines of a list.
LEMMA FirstLines ==
    ASSUME NEW s \in Seq(Line), NEW n \in 0..Len(s)
    PROVE  /\ SubSeq(s, 1, n) \in Seq(Line)
           /\ Len(SubSeq(s, 1, n)) = n
           /\ \A i \in 1..n : SubSeq(s, 1, n)[i] = s[i]
           /\ Lines(SubSeq(s, 1, n)) \subseteq Lines(s)
           /\ Unique(s) => Unique(SubSeq(s, 1, n))
<1>1. Len(s) \in Nat /\ DOMAIN s = 1..Len(s) /\ \A i \in 1..n : s[i] \in Line
  BY LenProperties
<1>2. /\ SubSeq(s, 1, n) \in Seq(Line) /\ Len(SubSeq(s, 1, n)) = n
      /\ \A i \in 1..n : SubSeq(s, 1, n)[i] = s[i]
  BY <1>1, SubSeqProperties
<1>3. DOMAIN SubSeq(s, 1, n) = 1..n  BY <1>2, LenProperties
<1>4. Lines(SubSeq(s, 1, n)) \subseteq Lines(s)  BY <1>1, <1>2, <1>3 DEF Lines
<1>5. Unique(s) => Unique(SubSeq(s, 1, n))  BY <1>1, <1>2, <1>3 DEF Unique
<1>6. QED  BY <1>2, <1>4, <1>5

\* The loop keeps exactly the lines in S.
LEMMA KeptIs ==
    ASSUME NEW s \in Seq(Line), NEW S
    PROVE  IsKept(kept(s, S), s, S)
<1> DEFINE N == Len(s)
           step(n, t) == IF s[n] \in S THEN Append(t, s[n]) ELSE t
           f == [n \in 0..(N - 1) |-> [t \in Seq(Line) |-> step(n + 1, t)]]
           Rec(h) == h = [n \in 0..N |-> IF n = 0 THEN <<>> ELSE
                                         IF s[n] \in S THEN Append(h[n - 1], s[n])
                                         ELSE h[n - 1]]
<1>1. N \in Nat /\ DOMAIN s = 1..N /\ \A n \in 1..N : s[n] \in Line
  BY LenProperties
<1>2. f \in Steps(Seq(Line), N)
  <2>1. ASSUME NEW n \in 0..(N - 1), NEW t \in Seq(Line)  PROVE step(n + 1, t) \in Seq(Line)
    <3>1. s[n + 1] \in Line  BY <1>1
    <3>2. QED  BY <3>1, AppendLine
  <2> HIDE DEF step
  <2>2. QED  BY <2>1 DEF Steps
<1>3. PICK g : Iterate(g, Seq(Line), N, <<>>, f)
  <2>1. <<>> \in Seq(Line)  BY EmptySeq
  <2> HIDE DEF f, N
  <2>2. QED  BY <1>1, <1>2, <2>1, Iterates
<1>4. g \in [0..N -> Seq(Line)] /\ g[0] = <<>>
  BY <1>3 DEF Iterate
<1>5. \A n \in 0..(N - 1) : g[n + 1] = step(n + 1, g[n])
  <2>1. ASSUME NEW n \in 0..(N - 1)  PROVE g[n + 1] = step(n + 1, g[n])
    <3>1. g[n + 1] = f[n][g[n]]  BY <1>3 DEF Iterate
    <3>2. g[n] \in Seq(Line)  BY <1>1, <1>4
    <3> HIDE DEF step
    <3>3. QED  BY <3>1, <3>2
  <2>2. QED  BY <2>1
<1>6. Rec(g)
  <2>1. ASSUME NEW n \in 0..N
        PROVE  g[n] = IF n = 0 THEN <<>> ELSE step(n, g[n - 1])
    <3>1. CASE n = 0  BY <1>4, <3>1
    <3>2. CASE n # 0
      <4>1. n - 1 \in 0..(N - 1) /\ (n - 1) + 1 = n  BY <1>1, <3>2
      <4> HIDE DEF step
      <4>2. QED  BY <1>5, <3>2, <4>1
    <3>3. QED  BY <3>1, <3>2
  <2>2. QED  BY <1>4, <2>1
<1> DEFINE h == CHOOSE x : Rec(x)
<1>7. Rec(h)  BY <1>6
<1>8. kept(s, S) = h[N]  BY DEF kept
<1> HIDE DEF h
<1>9. h[0] = <<>>  BY <1>1, <1>7
<1>10. ASSUME NEW n \in 0..(N - 1)  PROVE h[n + 1] = step(n + 1, h[n])
  <2>1. n + 1 \in 0..N /\ n + 1 # 0 /\ (n + 1) - 1 = n  BY <1>1
  <2>2. QED  BY <1>7, <2>1
<1> DEFINE Ok(n) == /\ h[n] \in Seq(Line)
                    /\ Lines(h[n]) = {x \in Lines(SubSeq(s, 1, n)) : x \in S}
                    /\ Unique(s) => Unique(h[n])
                    /\ Lines(s) \subseteq S => h[n] = SubSeq(s, 1, n)
           G == {n \in 0..N : Ok(n)}
<1>11. 0 \in G
  <2>1. SubSeq(s, 1, 0) = <<>>  BY SubSeqEmpty
  <2>2. <<>> \in Seq(Line) /\ DOMAIN <<>> = {}  BY EmptySeq
  <2>3. Lines(<<>>) = {} /\ Unique(<<>>)  BY <2>2 DEF Lines, Unique
  <2>4. Lines(h[0]) = {x \in Lines(SubSeq(s, 1, 0)) : x \in S}  BY <1>9, <2>1, <2>3
  <2>5. h[0] \in Seq(Line) /\ Unique(h[0]) /\ h[0] = SubSeq(s, 1, 0)
    BY <1>9, <2>1, <2>2, <2>3
  <2>6. Ok(0)  BY <2>4, <2>5
  <2> HIDE DEF Ok
  <2>7. QED  BY <1>1, <2>6
<1>12. ASSUME NEW n \in 0..(N - 1), n \in G  PROVE n + 1 \in G
  <2> DEFINE t == SubSeq(s, 1, n)
             x == s[n + 1]
  <2>0. n \in 0..N /\ n + 1 \in 0..N /\ Ok(n)  BY <1>1, <1>12
  <2>1. x \in Line /\ x \in Lines(s)  BY <1>1 DEF Lines
  <2>2. t \in Seq(Line) /\ Lines(t) \subseteq Lines(s) /\ Len(t) = n /\ DOMAIN t = 1..n
    BY <2>0, FirstLines, LenProperties
  <2>3. SubSeq(s, 1, n + 1) = Append(t, x)
    <3>1. /\ SubSeq(s, 1, n + 1) \in Seq(Line) /\ Len(SubSeq(s, 1, n + 1)) = n + 1
          /\ \A i \in 1..(n + 1) : SubSeq(s, 1, n + 1)[i] = s[i]
      BY <2>0, FirstLines
    <3>2. \A i \in 1..n : t[i] = s[i]  BY <2>0, FirstLines
    <3>3. /\ Append(t, x) \in Seq(Line) /\ Len(Append(t, x)) = n + 1
          /\ \A i \in 1..n : Append(t, x)[i] = t[i]
          /\ Append(t, x)[n + 1] = x
      BY <2>1, <2>2, AppendProperties
    <3> HIDE DEF t
    <3>4. \A i \in 1..(n + 1) : SubSeq(s, 1, n + 1)[i] = Append(t, x)[i]
      BY <3>1, <3>2, <3>3
    <3>5. QED  BY <3>1, <3>3, <3>4, SeqEqual
  <2>4. Lines(SubSeq(s, 1, n + 1)) = Lines(t) \cup {x}  BY <2>1, <2>2, <2>3, AppendLine
  <2>5. Unique(s) => \A y \in Lines(t) : y.k # x.k
    <3>1. ASSUME Unique(s), NEW y \in Lines(t)  PROVE y.k # x.k
      <4>1. PICK i \in 1..n : y = t[i]  BY <2>2, <3>1 DEF Lines
      <4>2. y = s[i]  BY <2>0, <4>1, FirstLines
      <4>3. i \in DOMAIN s /\ n + 1 \in DOMAIN s /\ i # n + 1  BY <1>1
      <4>4. QED  BY <3>1, <4>2, <4>3 DEF Unique
    <3>2. QED  BY <3>1
  <2> HIDE DEF t, x
  <2>6. CASE x \in S
    <3>1. h[n + 1] = Append(h[n], x)  BY <1>10, <2>6 DEF x
    <3>2. /\ h[n] \in Seq(Line) /\ Lines(h[n]) = {y \in Lines(t) : y \in S}
          /\ Unique(s) => Unique(h[n])
          /\ Lines(s) \subseteq S => h[n] = t
      BY <2>0 DEF t
    <3>3. h[n + 1] \in Seq(Line) /\ Lines(h[n + 1]) = Lines(h[n]) \cup {x}
      BY <2>1, <3>1, <3>2, AppendLine
    <3>4. Lines(h[n + 1]) = {y \in Lines(SubSeq(s, 1, n + 1)) : y \in S}
      BY <2>4, <2>6, <3>2, <3>3
    <3>5. Unique(s) => Unique(h[n + 1])  BY <2>1, <2>5, <3>1, <3>2, AppendLine
    <3>6. Lines(s) \subseteq S => h[n + 1] = SubSeq(s, 1, n + 1)  BY <2>3, <3>1, <3>2
    <3>7. QED  BY <2>0, <3>3, <3>4, <3>5, <3>6
  <2>7. CASE x \notin S
    <3>1. h[n + 1] = h[n]  BY <1>10, <2>7 DEF x
    <3>2. Lines(h[n + 1]) = {y \in Lines(SubSeq(s, 1, n + 1)) : y \in S}
      BY <2>0, <2>4, <2>7, <3>1 DEF t
    <3>3. ~(Lines(s) \subseteq S)  BY <2>1, <2>7
    <3>4. QED  BY <2>0, <3>1, <3>2, <3>3
  <2>8. QED  BY <2>6, <2>7
<1>13. \A n \in 0..N : n \in G
  <2> HIDE DEF G, N
  <2>1. QED  BY <1>1, <1>11, <1>12, Induction
<1>14. Ok(N)  BY <1>1, <1>13
<1>15. SubSeq(s, 1, N) = s  BY SubSeqFull
<1>16. QED  BY <1>8, <1>14, <1>15 DEF IsKept

\* What is read is a list of lines of the image, without a name twice.
LEMMA ReadIs ==
    ASSUME NEW image \in Seq(Line)
    PROVE  /\ part_line_read(image) \in Seq(Line)
           /\ Lines(part_line_read(image)) \subseteq Lines(image)
           /\ Unique(image) => Unique(part_line_read(image))
<1> DEFINE short == {n \in 0..Len(image) : \A i \in 1..n : length(image[i]) < MaxLine}
           read == Max(short)
           S == [k : Names \ Comments, v : Values \ {0}]
<1>1. Len(image) \in Nat  BY LenProperties
<1>2. read \in 0..Len(image)
  <2>1. 0 \in short /\ short \subseteq 0..Len(image)  BY <1>1
  <2> HIDE DEF short
  <2>2. \E m \in short : \A k \in short : m >= k  BY <1>1, <2>1, Greatest
  <2>3. read \in short  BY <2>2 DEF Max
  <2>4. QED  BY <2>1, <2>3
<1> HIDE DEF read
<1>3. /\ SubSeq(image, 1, read) \in Seq(Line)
      /\ Lines(SubSeq(image, 1, read)) \subseteq Lines(image)
      /\ Unique(image) => Unique(SubSeq(image, 1, read))
  BY <1>2, FirstLines
<1>4. part_line_read(image) = kept(SubSeq(image, 1, read), S)
  BY DEF part_line_read, read
<1>5. IsKept(kept(SubSeq(image, 1, read), S), SubSeq(image, 1, read), S)
  <2> HIDE DEF S
  <2>1. QED  BY <1>3, KeptIs
<1>6. QED  BY <1>3, <1>4, <1>5 DEF IsKept

\* What is written is the list up to some line.
LEMMA WriteIs ==
    ASSUME NEW lines \in Seq(Line)
    PROVE  /\ part_line_wirte(lines) \in Seq(Line)
           /\ Unique(lines) => Unique(part_line_wirte(lines))
<1> DEFINE fit == {n \in 0..Len(lines) : n = 0 \/ room(SubSeq(lines, 1, n)) + 1 <= Space}
<1>1. Len(lines) \in Nat  BY LenProperties
<1>2. Max(fit) \in 0..Len(lines)
  <2>1. 0 \in fit /\ fit \subseteq 0..Len(lines)  BY <1>1
  <2> HIDE DEF fit
  <2>2. \E m \in fit : \A k \in fit : m >= k  BY <1>1, <2>1, Greatest
  <2>3. Max(fit) \in fit  BY <2>2 DEF Max
  <2>4. QED  BY <2>1, <2>3
<1>3. part_line_wirte(lines) = SubSeq(lines, 1, Max(fit))  BY DEF part_line_wirte
<1> HIDE DEF fit
<1>4. QED  BY <1>2, <1>3, FirstLines

\* The position found is one of the name; if there is none, 0.
LEMMA FindIs ==
    ASSUME NEW s \in Seq(Line), NEW k
    PROVE  \/ part_var_find(s, k) = 0 /\ \A x \in Lines(s) : x.k # k
           \/ part_var_find(s, k) \in DOMAIN s /\ s[part_var_find(s, k)].k = k
<1> DEFINE I == {i \in 1..Len(s) : s[i].k = k}
<1>1. Len(s) \in Nat /\ DOMAIN s = 1..Len(s)  BY LenProperties
<1>2. part_var_find(s, k) = IF I # {} THEN Min(I) ELSE 0
  BY DEF part_var_find, SelectInSeq
<1>3. CASE I = {}
  <2>1. \A x \in Lines(s) : x.k # k  BY <1>1, <1>3 DEF Lines
  <2>2. QED  BY <1>2, <1>3, <2>1
<1>4. CASE I # {}
  <2>1. I \subseteq Nat  OBVIOUS
  <2>2. \E m \in I : \A n \in I : m <= n
    <3> HIDE DEF I
    <3>1. QED  BY <1>4, <2>1, Least
  <2>3. Min(I) \in I
    <3> HIDE DEF I
    <3>1. QED  BY <2>2 DEF Min
  <2>4. QED  BY <1>1, <1>2, <1>4, <2>3
<1>5. QED  BY <1>3, <1>4

\* A list without the line at one position.
LEMMA RemoveLine ==
    ASSUME NEW s \in Seq(Line), NEW i \in DOMAIN s
    PROVE  /\ RemoveAt(s, i) \in Seq(Line)
           /\ Unique(s) => Unique(RemoveAt(s, i))
           /\ Unique(s) => Lines(RemoveAt(s, i)) = {x \in Lines(s) : x.k # s[i].k}
<1> DEFINE N == Len(s)
           a == SubSeq(s, 1, i - 1)
           b == SubSeq(s, i + 1, N)
           t == RemoveAt(s, i)
<1>1. N \in Nat /\ DOMAIN s = 1..N /\ i \in 1..N /\ \A n \in 1..N : s[n] \in Line
  BY LenProperties
<1>2. a \in Seq(Line) /\ Len(a) = i - 1 /\ \A n \in 1..(i - 1) : a[n] = s[n]
  <2>1. \A n \in 1..(i - 1) : s[n] \in Line  BY <1>1
  <2>2. QED  BY <1>1, <2>1, SubSeqProperties
<1>3. b \in Seq(Line) /\ Len(b) = N - i /\ \A n \in 1..(N - i) : b[n] = s[n + i]
  <2>1. \A n \in (i + 1)..N : s[n] \in Line  BY <1>1
  <2>2. /\ b \in Seq(Line) /\ Len(b) = IF i + 1 <= N THEN N - (i + 1) + 1 ELSE 0
        /\ \A n \in 1..(N - (i + 1) + 1) : b[n] = s[(i + 1) + n - 1]
    BY <1>1, <2>1, SubSeqProperties
  <2>3. \A n \in 1..(N - i) : (i + 1) + n - 1 = n + i  BY <1>1
  <2>4. N - (i + 1) + 1 = N - i  BY <1>1
  <2> HIDE DEF b
  <2>5. QED  BY <1>1, <2>2, <2>3, <2>4
<1>4. t = a \o b  BY DEF RemoveAt
<1> HIDE DEF t, a, b
<1>5. /\ t \in Seq(Line) /\ Len(t) = N - 1
      /\ \A n \in 1..(N - 1) : t[n] = IF n < i THEN s[n] ELSE s[n + 1]
  <2>1. /\ t \in Seq(Line) /\ Len(t) = Len(a) + Len(b)
        /\ \A n \in 1..(Len(a) + Len(b)) :
             t[n] = IF n <= Len(a) THEN a[n] ELSE b[n - Len(a)]
    BY <1>2, <1>3, <1>4, ConcatProperties
  <2>2. Len(a) + Len(b) = N - 1  BY <1>1, <1>2, <1>3
  <2>3. ASSUME NEW n \in 1..(N - 1)  PROVE t[n] = IF n < i THEN s[n] ELSE s[n + 1]
    <3>1. CASE n < i  BY <1>1, <1>2, <2>1, <2>2, <3>1
    <3>2. CASE ~(n < i)
      <4>1. n - (i - 1) \in 1..(N - i) /\ (n - (i - 1)) + i = n + 1  BY <1>1, <3>2
      <4>2. b[n - (i - 1)] = s[n + 1]  BY <1>3, <4>1
      <4>3. n \in 1..(Len(a) + Len(b)) /\ ~(n <= Len(a))  BY <1>1, <1>2, <2>2, <3>2
      <4>4. t[n] = b[n - Len(a)]  BY <2>1, <4>3
      <4>5. QED  BY <1>2, <3>2, <4>2, <4>4
    <3>3. QED  BY <3>1, <3>2
  <2>4. QED  BY <2>1, <2>2, <2>3
<1>6. DOMAIN t = 1..(N - 1)  BY <1>5, LenProperties
<1>7. ASSUME Unique(s)  PROVE Unique(t)
  <2>1. ASSUME NEW m \in 1..(N - 1), NEW n \in 1..(N - 1), t[m].k = t[n].k  PROVE m = n
    <3> DEFINE at(x) == IF x < i THEN x ELSE x + 1
    <3>1. at(m) \in 1..N /\ at(n) \in 1..N /\ t[m] = s[at(m)] /\ t[n] = s[at(n)]
      BY <1>1, <1>5
    <3>2. at(m) = at(n)
      <4> HIDE DEF at
      <4>1. QED  BY <1>1, <1>7, <2>1, <3>1 DEF Unique
    <3>3. QED  BY <1>1, <3>2
  <2>2. QED  BY <1>6, <2>1 DEF Unique
<1>8. ASSUME Unique(s)  PROVE Lines(t) = {x \in Lines(s) : x.k # s[i].k}
  <2>1. ASSUME NEW n \in 1..(N - 1)  PROVE t[n] \in Lines(s) /\ t[n].k # s[i].k
    <3>1. PICK m \in 1..N : m # i /\ t[n] = s[m]
      <4>1. CASE n < i  BY <1>1, <1>5, <4>1
      <4>2. CASE ~(n < i)  BY <1>1, <1>5, <4>2
      <4>3. QED  BY <4>1, <4>2
    <3>2. QED  BY <1>1, <1>8, <3>1 DEF Unique, Lines
  <2>2. ASSUME NEW m \in 1..N, s[m].k # s[i].k  PROVE s[m] \in Lines(t)
    <3>1. PICK n \in 1..(N - 1) : t[n] = s[m]
      <4>1. CASE m < i  BY <1>1, <1>5, <4>1
      <4>2. CASE m > i
        <5>1. m - 1 \in 1..(N - 1) /\ ~(m - 1 < i) /\ (m - 1) + 1 = m  BY <1>1, <4>2
        <5>2. QED  BY <1>5, <5>1
      <4>3. QED  BY <1>1, <2>2, <4>1, <4>2
    <3>2. QED  BY <1>6, <3>1 DEF Lines
  <2>3. Lines(t) \subseteq {x \in Lines(s) : x.k # s[i].k}
    BY <1>6, <2>1 DEF Lines
  <2>4. {x \in Lines(s) : x.k # s[i].k} \subseteq Lines(t)
    BY <1>1, <2>2 DEF Lines
  <2>5. QED  BY <2>3, <2>4
<1>9. QED  BY <1>5, <1>7, <1>8 DEF t

\* A list with the line at one position replaced by one of the same name.
LEMMA ChangeLine ==
    ASSUME NEW s \in Seq(Line), NEW i \in DOMAIN s, NEW y \in Line, y.k = s[i].k
    PROVE  /\ [s EXCEPT ![i] = y] \in Seq(Line)
           /\ Unique(s) => Unique([s EXCEPT ![i] = y])
           /\ Unique(s) => Lines([s EXCEPT ![i] = y]) = {x \in Lines(s) : x.k # s[i].k} \cup {y}
<1> DEFINE t == [s EXCEPT ![i] = y]
<1>1. Len(s) \in Nat /\ DOMAIN s = 1..Len(s) /\ \A n \in DOMAIN s : s[n] \in Line
  BY LenProperties, ElementOfSeq
<1>5. t \in Seq(Line) /\ DOMAIN t = DOMAIN s  BY <1>1, ExceptSeq
<1>6. t[i] = y /\ \A n \in DOMAIN s : n # i => t[n] = s[n]  BY <1>1
<1> HIDE DEF t
<1>7. \A n \in DOMAIN s : t[n].k = s[n].k  BY <1>6
<1>8. Unique(s) => Unique(t)  BY <1>5, <1>7 DEF Unique
<1>9. ASSUME Unique(s)  PROVE Lines(t) = {x \in Lines(s) : x.k # s[i].k} \cup {y}
  <2>1. ASSUME NEW n \in DOMAIN s  PROVE t[n] \in {x \in Lines(s) : x.k # s[i].k} \cup {y}
    <3>1. CASE n = i  BY <1>6, <3>1
    <3>2. CASE n # i
      <4>1. s[n].k # s[i].k  BY <1>9, <3>2 DEF Unique
      <4>2. QED  BY <1>6, <3>2, <4>1 DEF Lines
    <3>3. QED  BY <3>1, <3>2
  <2>2. ASSUME NEW n \in DOMAIN s, s[n].k # s[i].k  PROVE s[n] \in Lines(t)
    <3>1. n # i  BY <2>2
    <3>2. QED  BY <1>5, <1>6, <3>1 DEF Lines
  <2>3. y \in Lines(t)  BY <1>5, <1>6 DEF Lines
  <2>4. Lines(t) \subseteq {x \in Lines(s) : x.k # s[i].k} \cup {y}  BY <1>5, <2>1 DEF Lines
  <2>5. {x \in Lines(s) : x.k # s[i].k} \subseteq Lines(t)  BY <2>2 DEF Lines
  <2>6. QED  BY <2>3, <2>4, <2>5
<1>10. QED  BY <1>5, <1>8, <1>9 DEF t

-----------------------------------------------------------------------------
(***************************************************************************)
(* The commands.                                                           *)
(***************************************************************************)

\* What every command's function returns.
Replies == {"ok", "error", "exist", "noexist", "badcrc"}
Outcome == [list : Seq(Line), dirty : BOOLEAN, ret : Replies]

\* The lines of other names than those in K.
Except(s, K) == {x \in Lines(s) : x.k \notin K}

\* The outcome r sets the variable in s, or says truly why not.
Created(r, s, k, v) ==
    /\ r \in Outcome /\ Unique(r.list)
    /\ r.dirty => r.ret = "ok" /\ Lines(r.list) = Except(s, {k}) \cup {[k |-> k, v |-> v]}
    /\ ~r.dirty => \/ r.ret = "exist" /\ \E x \in Lines(s) : x.k = k
                   \/ r.ret = "noexist" /\ \A x \in Lines(s) : x.k # k
    /\ ~r.dirty => r.list = s

\* __part_var_create sets the variable, or says truly why not.
LEMMA CreateIs ==
    ASSUME NEW s \in Seq(Line), Unique(s), NEW k \in Names, NEW v \in Values,
           NEW create \in BOOLEAN, NEW update \in BOOLEAN, NEW r,
           r = __part_var_create(s, k, v, create, update)
    PROVE  Created(r, s, k, v)
<1> DEFINE i == part_var_find(s, k)
           x0 == [k |-> k, v |-> v]
<1>0. x0 \in Line  BY DEF Line
<1>1. \/ i = 0 /\ \A x \in Lines(s) : x.k # k
      \/ i \in DOMAIN s /\ s[i].k = k
  BY FindIs
<1>2. i \in DOMAIN s => i # 0  BY LenProperties
<1>3. r = IF i # 0
          THEN IF update THEN result([s EXCEPT ![i].v = v], TRUE, "ok")
                         ELSE result(s, FALSE, "exist")
          ELSE IF create THEN result(Append(s, x0), TRUE, "ok")
                         ELSE result(s, FALSE, "noexist")
  BY DEF __part_var_create
<1> HIDE DEF i
<1>4. CASE i # 0 /\ update
  <2> DEFINE t == [s EXCEPT ![i].v = v]
  <2>1. i \in DOMAIN s /\ s[i].k = k  BY <1>1, <1>4
  <2>2. t \in Seq(Line) /\ Unique(t) /\ Lines(t) = {x \in Lines(s) : x.k # k} \cup {x0}
    <3>1. s[i] \in Line  BY <2>1, ElementOfSeq
    <3>2. [s[i] EXCEPT !.v = v] = x0  BY <2>1, <3>1 DEF Line
    <3>3. t = [s EXCEPT ![i] = x0] /\ x0.k = s[i].k  BY <2>1, <3>2
    <3> HIDE DEF t, x0
    <3>4. /\ t \in Seq(Line) /\ Unique(t)
          /\ Lines(t) = {x \in Lines(s) : x.k # s[i].k} \cup {x0}
      <4>1. i \in DOMAIN s /\ x0 \in Line /\ x0.k = s[i].k  BY <1>0, <2>1, <3>3 DEF x0
      <4>2. /\ [s EXCEPT ![i] = x0] \in Seq(Line)
            /\ Unique([s EXCEPT ![i] = x0])
            /\ Lines([s EXCEPT ![i] = x0]) = {x \in Lines(s) : x.k # s[i].k} \cup {x0}
        BY <4>1, ChangeLine
      <4>3. QED  BY <3>3, <4>2
    <3>5. QED  BY <2>1, <3>4
  <2>3. r = result(t, TRUE, "ok")  BY <1>3, <1>4
  <2> HIDE DEF t
  <2>4. Except(s, {k}) = {x \in Lines(s) : x.k # k}  BY DEF Except
  <2>5. r \in Outcome /\ r.list = t /\ r.dirty = TRUE /\ r.ret = "ok"
    BY <2>2, <2>3 DEF result, Outcome, Replies
  <2>6. QED  BY <2>2, <2>4, <2>5 DEF Created
<1>5. CASE i # 0 /\ ~update
  <2>1. i \in DOMAIN s /\ s[i].k = k  BY <1>1, <1>5
  <2>2. \E x \in Lines(s) : x.k = k  BY <2>1 DEF Lines
  <2>3. r = result(s, FALSE, "exist")  BY <1>3, <1>5
  <2>4. r \in Outcome /\ r.list = s /\ r.dirty = FALSE /\ r.ret = "exist"
    BY <2>3 DEF result, Outcome, Replies
  <2>5. QED  BY <2>2, <2>4 DEF Created
<1>6. CASE i = 0 /\ create
  <2> DEFINE t == Append(s, x0)
  <2>1. \A x \in Lines(s) : x.k # k  BY <1>1, <1>2, <1>6
  <2>2. t \in Seq(Line) /\ Unique(t) /\ Lines(t) = Lines(s) \cup {x0}
    <3>1. x0.k = k  OBVIOUS
    <3> HIDE DEF x0
    <3>2. QED  BY <1>0, <2>1, <3>1, AppendLine
  <2>3. r = result(t, TRUE, "ok")  BY <1>3, <1>6
  <2>4. Except(s, {k}) = Lines(s)  BY <2>1 DEF Except
  <2> HIDE DEF t
  <2>5. r \in Outcome /\ r.list = t /\ r.dirty = TRUE /\ r.ret = "ok"
    BY <2>2, <2>3 DEF result, Outcome, Replies
  <2>6. QED  BY <2>2, <2>4, <2>5 DEF Created
<1>7. CASE i = 0 /\ ~create
  <2>1. \A x \in Lines(s) : x.k # k  BY <1>1, <1>2, <1>7
  <2>2. r = result(s, FALSE, "noexist")  BY <1>3, <1>7
  <2>3. r \in Outcome /\ r.list = s /\ r.dirty = FALSE /\ r.ret = "noexist"
    BY <2>2 DEF result, Outcome, Replies
  <2>4. QED  BY <2>1, <2>3 DEF Created
<1>8. QED  BY <1>4, <1>5, <1>6, <1>7

\* part_var_delete removes the variable, or there is none.
LEMMA DeleteIs ==
    ASSUME NEW s \in Seq(Line), Unique(s), NEW k \in Names, NEW r,
           r = part_var_delete(s, k)
    PROVE  /\ r \in Outcome /\ Unique(r.list)
           /\ r.dirty => r.ret = "ok" /\ Lines(r.list) = Except(s, {k})
           /\ ~r.dirty => r.ret = "noexist" /\ \A x \in Lines(s) : x.k # k
           /\ ~r.dirty => r.list = s
<1> DEFINE i == part_var_find(s, k)
<1>1. \/ i = 0 /\ \A x \in Lines(s) : x.k # k
      \/ i \in DOMAIN s /\ s[i].k = k
  BY FindIs
<1>2. i \in DOMAIN s => i # 0  BY LenProperties
<1>3. r = IF i = 0 THEN result(s, FALSE, "noexist")
                   ELSE result(RemoveAt(s, i), TRUE, "ok")
  BY DEF part_var_delete
<1> HIDE DEF i
<1>4. CASE i = 0
  <2>1. r = result(s, FALSE, "noexist") /\ \A x \in Lines(s) : x.k # k  BY <1>1, <1>2, <1>3, <1>4
  <2>2. r \in Outcome /\ r.list = s /\ r.dirty = FALSE /\ r.ret = "noexist"
    BY <2>1 DEF result, Outcome, Replies
  <2>3. QED  BY <2>1, <2>2
<1>5. CASE i # 0
  <2>1. i \in DOMAIN s /\ s[i].k = k  BY <1>1, <1>5
  <2>2. /\ RemoveAt(s, i) \in Seq(Line) /\ Unique(RemoveAt(s, i))
        /\ Lines(RemoveAt(s, i)) = {x \in Lines(s) : x.k # k}
    BY <2>1, RemoveLine
  <2>3. Except(s, {k}) = {x \in Lines(s) : x.k # k}  BY DEF Except
  <2>4. r = result(RemoveAt(s, i), TRUE, "ok")  BY <1>3, <1>5
  <2>5. r \in Outcome /\ r.list = RemoveAt(s, i) /\ r.dirty = TRUE /\ r.ret = "ok"
    BY <2>2, <2>4 DEF result, Outcome, Replies
  <2>6. QED  BY <2>2, <2>3, <2>5
<1>6. QED  BY <1>4, <1>5

\* part_var_delete_byname_prefix removes all the variables of the prefix.
LEMMA DeletePrefixIs ==
    ASSUME NEW s \in Seq(Line), Unique(s), NEW n \in Names, NEW r,
           r = part_var_delete_byname_prefix(s, n)
    PROVE  /\ r \in Outcome /\ Unique(r.list) /\ r.ret = "ok"
           /\ Lines(r.list) = Except(s, Prefixed[n])
           /\ ~r.dirty => r.list = s
<1> DEFINE S == [k : Names \ Prefixed[n], v : Values]
           t == kept(s, S)
<1>1. Lines(s) \subseteq Line  BY ElementOfSeq DEF Lines
<1>2. {x \in Lines(s) : x \in S} = Except(s, Prefixed[n])  BY <1>1 DEF Line, Except
<1>3. IsKept(t, s, S)
  <2> HIDE DEF S
  <2>1. QED  BY KeptIs
<1>4. r = result(t, t # s, "ok")  BY DEF part_var_delete_byname_prefix
<1>5. t \in Seq(Line) /\ Unique(t) /\ Lines(t) = Except(s, Prefixed[n])
  BY <1>2, <1>3 DEF IsKept
<1> HIDE DEF t
<1>6. (t # s) \in BOOLEAN  OBVIOUS
<1>7. r \in Outcome /\ r.list = t /\ r.dirty = (t # s) /\ r.ret = "ok"
    BY <1>4, <1>5, <1>6 DEF result, Outcome, Replies
<1>8. QED  BY <1>5, <1>7

\* part_var_show answers whether there is the variable.
LEMMA ShowIs ==
    ASSUME NEW s \in Seq(Line), NEW k \in Names, NEW r, r = part_var_show(s, k)
    PROVE  /\ r \in Outcome /\ r.list = s /\ ~r.dirty
           /\ \/ r.ret = "ok" /\ \E x \in Lines(s) : x.k = k
              \/ r.ret = "noexist" /\ \A x \in Lines(s) : x.k # k
<1> DEFINE i == part_var_find(s, k)
<1>1. \/ i = 0 /\ \A x \in Lines(s) : x.k # k
      \/ i \in DOMAIN s /\ s[i].k = k
  BY FindIs
<1>2. i \in DOMAIN s => i # 0  BY LenProperties
<1>3. r = result(s, FALSE, IF i = 0 THEN "noexist" ELSE "ok")  BY DEF part_var_show
<1> HIDE DEF i
<1>4. CASE i = 0
  <2>1. r = result(s, FALSE, "noexist") /\ \A x \in Lines(s) : x.k # k  BY <1>1, <1>2, <1>3, <1>4
  <2>2. r \in Outcome /\ r.list = s /\ r.dirty = FALSE /\ r.ret = "noexist"
    BY <2>1 DEF result, Outcome, Replies
  <2>3. QED  BY <2>1, <2>2
<1>5. CASE i # 0
  <2>1. \E x \in Lines(s) : x.k = k  BY <1>1, <1>5 DEF Lines
  <2>2. r = result(s, FALSE, "ok")  BY <1>3, <1>5
  <2>3. r \in Outcome /\ r.list = s /\ r.dirty = FALSE /\ r.ret = "ok"
    BY <2>2 DEF result, Outcome, Replies
  <2>4. QED  BY <2>1, <2>3
<1>6. QED  BY <1>4, <1>5

\* The arguments of a command.
LEMMA CommandIs ==
    ASSUME NEW c \in Command
    PROVE  /\ c.op \in AllOps
           /\ c.op \notin {"crc", "empty"} => c.k \in Names
           /\ c.op \in {"new", "create", "update", "load"} => c.v \in Values
BY OpsAssumption DEF Command

\* The answer r of a command that read the list s, and the list it leaves.
Told(c, r, s) ==
    /\ r.ret \in {"ok", "exist", "noexist"}
    /\ r.ret = "exist" => ~r.dirty /\ \E x \in Lines(s) : x.k = c.k
    /\ r.ret = "noexist" => ~r.dirty /\ \A x \in Lines(s) : x.k # c.k
    /\ r.ret = "ok" /\ c.op \in {"new", "create", "update"} =>
         r.dirty /\ Lines(r.list) = Except(s, {c.k}) \cup {[k |-> c.k, v |-> c.v]}
    /\ r.ret = "ok" /\ c.op = "delete" => r.dirty /\ Lines(r.list) = Except(s, {c.k})
    /\ r.ret = "ok" /\ c.op = "delprefix" => Lines(r.list) = Except(s, Prefixed[c.k])
    /\ r.ret = "ok" /\ c.op = "show" => ~r.dirty /\ \E x \in Lines(s) : x.k = c.k

\* A command's own function does what its answer tells.
LEMMA PerformIs ==
    ASSUME NEW c \in Command, c.op \notin {"crc", "empty", "load"},
           NEW s \in Seq(Line), Unique(s), NEW r, r = perform(c, s)
    PROVE  /\ r \in Outcome /\ Unique(r.list)
           /\ ~r.dirty => r.list = s
           /\ Told(c, r, s)
<1>1. c.op \in AllOps /\ c.k \in Names /\ (c.op \in {"new", "create", "update"} => c.v \in Values)
  BY CommandIs
<1> DEFINE Good == /\ r \in Outcome /\ Unique(r.list)
                   /\ ~r.dirty => r.list = s
                   /\ Told(c, r, s)
<1>2. ASSUME NEW create \in BOOLEAN, NEW update \in BOOLEAN,
             c.op \in {"new", "create", "update"},
             r = __part_var_create(s, c.k, c.v, create, update)
      PROVE  Good
  <2>0. c.k \in Names /\ c.v \in Values  BY <1>1, <1>2
  <2>1. /\ r \in Outcome /\ Unique(r.list)
        /\ r.dirty => r.ret = "ok" /\ Lines(r.list) = Except(s, {c.k}) \cup {[k |-> c.k, v |-> c.v]}
        /\ ~r.dirty => \/ r.ret = "exist" /\ \E x \in Lines(s) : x.k = c.k
                       \/ r.ret = "noexist" /\ \A x \in Lines(s) : x.k # c.k
        /\ ~r.dirty => r.list = s
    <3>1. Created(r, s, c.k, c.v)  BY <1>2, <2>0, CreateIs, Zenon
    <3>2. QED  BY <3>1 DEF Created
  <2>2. r.dirty \in BOOLEAN  BY <2>1 DEF Outcome
  <2>3. CASE r.dirty
    <3>1. Told(c, r, s)  BY <1>2, <2>1, <2>3 DEF Told
    <3>2. QED  BY <2>1, <2>3, <3>1
  <2>4. CASE ~r.dirty
    <3>1. Told(c, r, s)  BY <1>2, <2>1, <2>4 DEF Told
    <3>2. QED  BY <2>1, <2>4, <3>1
  <2>5. QED  BY <2>2, <2>3, <2>4
<1>3. CASE c.op = "new"
  <2>1. r = __part_var_create(s, c.k, c.v, TRUE, TRUE)  BY <1>3 DEF perform
  <2>2. QED  BY <1>2, <1>3, <2>1
<1>4. CASE c.op = "create"
  <2>1. r = __part_var_create(s, c.k, c.v, TRUE, FALSE)  BY <1>4 DEF perform
  <2>2. QED  BY <1>2, <1>4, <2>1
<1>5. CASE c.op = "update"
  <2>1. r = __part_var_create(s, c.k, c.v, FALSE, TRUE)  BY <1>5 DEF perform
  <2>2. QED  BY <1>2, <1>5, <2>1
<1>6. CASE c.op = "delete"
  <2>1. r = part_var_delete(s, c.k)  BY <1>6 DEF perform
  <2>2. /\ r \in Outcome /\ Unique(r.list)
        /\ r.dirty => r.ret = "ok" /\ Lines(r.list) = Except(s, {c.k})
        /\ ~r.dirty => r.ret = "noexist" /\ \A x \in Lines(s) : x.k # c.k
        /\ ~r.dirty => r.list = s
    BY <1>1, <2>1, DeleteIs
  <2>3. CASE r.dirty
    <3>1. Told(c, r, s)  BY <1>6, <2>2, <2>3 DEF Told
    <3>2. QED  BY <2>2, <2>3, <3>1
  <2>4. CASE ~r.dirty
    <3>1. Told(c, r, s)  BY <1>6, <2>2, <2>4 DEF Told
    <3>2. QED  BY <2>2, <2>4, <3>1
  <2>5. QED  BY <2>3, <2>4
<1>7. CASE c.op = "delprefix"
  <2>1. r = part_var_delete_byname_prefix(s, c.k)  BY <1>7 DEF perform
  <2>2. /\ r \in Outcome /\ Unique(r.list) /\ r.ret = "ok"
        /\ Lines(r.list) = Except(s, Prefixed[c.k])
        /\ ~r.dirty => r.list = s
    BY <1>1, <2>1, DeletePrefixIs
  <2>3. Told(c, r, s)  BY <1>7, <2>2 DEF Told
  <2>4. QED  BY <2>2, <2>3
<1>8. CASE c.op = "show"
  <2>1. r = part_var_show(s, c.k)  BY <1>8 DEF perform
  <2>2. /\ r \in Outcome /\ r.list = s /\ ~r.dirty
        /\ \/ r.ret = "ok" /\ \E x \in Lines(s) : x.k = c.k
           \/ r.ret = "noexist" /\ \A x \in Lines(s) : x.k # c.k
    BY <1>1, <2>1, ShowIs
  <2>3. Told(c, r, s)  BY <1>8, <2>2 DEF Told
  <2>4. QED  BY <2>2, <2>3
<1>9. QED  BY <1>1, <1>3, <1>4, <1>5, <1>6, <1>7, <1>8 DEF AllOps

\* No name is twice in an image, if it is complete.
Clean(image) == image # Torn => Unique(image)

\* Every command leaves a list of lines without a name twice.
LEMMA ExecuteIs ==
    ASSUME NEW c \in Command, NEW image \in Image, Clean(image), NEW r,
           r = execute(c, image)
    PROVE  r \in Outcome /\ Unique(r.list)
<1>1. <<>> \in Seq(Line) /\ Unique(<<>>)  BY EmptySeq DEF Unique
<1>2. CASE c.op \in {"crc", "empty", "load"} \/ image = Torn
  <2>1. PICK d \in BOOLEAN, a \in Replies : r = result(<<>>, d, a)
    <3>1. "ok" \in Replies /\ "badcrc" \in Replies  BY DEF Replies
    <3>2. QED  BY <1>2, <3>1 DEF execute
  <2>2. r \in Outcome /\ r.list = <<>>  BY <1>1, <2>1 DEF result, Outcome
  <2>3. QED  BY <1>1, <2>2
<1>3. CASE ~(c.op \in {"crc", "empty", "load"} \/ image = Torn)
  <2>1. r = perform(c, part_line_read(image))  BY <1>3 DEF execute
  <2>2. image \in Seq(Line) /\ Unique(image)  BY <1>3 DEF Image, Clean
  <2>3. part_line_read(image) \in Seq(Line) /\ Unique(part_line_read(image))  BY <2>2, ReadIs
  <2>4. QED  BY <1>3, <2>1, <2>3, PerformIs
<1>4. QED  BY <1>2, <1>3

\* What a reader finds in a complete image: the value of each name, which is
\* None exactly if no line that is read has the name.
LEMMA ContentIs ==
    ASSUME NEW image \in Seq(Line), Unique(image)
    PROVE  /\ Content(image) \in [Names -> Values \cup {None}]
           /\ \A x \in Lines(part_line_read(image)) : Content(image)[x.k] = x.v
           /\ \A k \in Names : (\A x \in Lines(part_line_read(image)) : x.k # k)
                               => Content(image)[k] = None
<1> DEFINE s == part_line_read(image)
           find(k) == part_var_find(s, k)
           val(k) == IF find(k) = 0 THEN None ELSE s[find(k)].v
<1>1. s \in Seq(Line) /\ Unique(s)  BY ReadIs
<1>2. image # Torn  BY TornAssumption
<1>3. Content(image) = [k \in Names |-> val(k)]  BY <1>2 DEF Content
<1> HIDE DEF s
<1>4. \A n \in DOMAIN s : n # 0 /\ s[n] \in Line  BY <1>1, LenProperties, ElementOfSeq
<1>5. ASSUME NEW k \in Names
      PROVE  \/ find(k) = 0 /\ \A x \in Lines(s) : x.k # k
             \/ find(k) \in DOMAIN s /\ s[find(k)].k = k
  BY <1>1, FindIs
<1> HIDE DEF find
<1>6. ASSUME NEW k \in Names  PROVE val(k) \in Values \cup {None}
  <2>1. CASE find(k) = 0  BY <2>1
  <2>2. CASE find(k) # 0
    <3>1. find(k) \in DOMAIN s  BY <1>5, <2>2
    <3>2. s[find(k)].v \in Values  BY <1>4, <3>1 DEF Line
    <3>3. QED  BY <2>2, <3>2
  <2>3. QED  BY <2>1, <2>2
<1>7. ASSUME NEW x \in Lines(s)  PROVE x.k \in Names /\ val(x.k) = x.v
  <2>1. PICK n \in DOMAIN s : x = s[n]  BY DEF Lines
  <2>2. x.k \in Names  BY <1>4, <2>1 DEF Line
  <2>3. find(x.k) \in DOMAIN s /\ s[find(x.k)].k = x.k  BY <1>5, <2>2
  <2>4. find(x.k) = n  BY <1>1, <2>1, <2>3 DEF Unique
  <2>5. QED  BY <1>4, <2>1, <2>2, <2>4
<1>8. ASSUME NEW k \in Names, \A x \in Lines(s) : x.k # k  PROVE val(k) = None
  <2>1. ~(find(k) \in DOMAIN s /\ s[find(k)].k = k)  BY <1>8 DEF Lines
  <2>2. QED  BY <1>5, <2>1
<1> HIDE DEF val
<1>9. QED  BY <1>3, <1>6, <1>7, <1>8 DEF s

-----------------------------------------------------------------------------
(***************************************************************************)
(* Types, and names that are unique.                                       *)
(***************************************************************************)

\* What a process works on: the copy and the list have no name twice, and a
\* process that has started has a command.
WorkOK(p) ==
    /\ Clean(tmp[p])
    /\ Unique(list[p])
    /\ pc[p] # "idle" => cmd[p] \in Command

\* The inductive invariant.  That names are unique in the partition needs
\* them to be unique in every copy and every list, since a list is written
\* back whatever the partition has become.
DataInv ==
    /\ flash \in Image /\ Clean(flash)
    /\ cmd \in [Procs -> Command \cup {NoCommand}]
    /\ tmp \in [Procs -> Image]
    /\ list \in [Procs -> Seq(Line)]
    /\ overlap \in [Procs -> BOOLEAN]
    /\ ret \in [Procs -> Replies]
    /\ out \in [Procs -> Values \cup {None}]
    /\ \A p \in Procs : WorkOK(p)

\* Nothing is on an empty list.
LEMMA EmptyClean == <<>> \in Image /\ <<>> \in Seq(Line) /\ Clean(<<>>) /\ Unique(<<>>)
BY EmptySeq DEF Image, Clean, Unique

\* The command's function leaves good lists and answers.
LEMMA ApplyKeepsData ==
    ASSUME LockInv, DataInv, NEW p \in Procs, Apply(p)
    PROVE  DataInv'
<1> DEFINE r == execute(cmd[p], tmp[p])
           found == IF cmd[p].op = "show" /\ r.ret = "ok"
                    THEN Content(tmp[p])[cmd[p].k] ELSE None
<1>1. pc[p] = "inside" /\ cmd[p] \in Command /\ tmp[p] \in Image /\ Clean(tmp[p])
  BY DEF Apply, DataInv, WorkOK
<1>2. r \in Outcome /\ Unique(r.list)
  <2> HIDE DEF r
  <2>1. QED  BY <1>1, ExecuteIs DEF r
<1>3. r.list \in Seq(Line) /\ r.ret \in Replies  BY <1>2 DEF Outcome
<1>4. found \in Values \cup {None}
  <2>1. CASE cmd[p].op = "show" /\ r.ret = "ok"
    <3>1. tmp[p] # Torn
      <4>1. ASSUME tmp[p] = Torn  PROVE r.ret = "badcrc"
        BY <2>1, <4>1 DEF execute, result
      <4>2. QED  BY <2>1, <4>1
    <3>2. tmp[p] \in Seq(Line) /\ Unique(tmp[p])  BY <1>1, <3>1 DEF Image, Clean
    <3>3. cmd[p].k \in Names  BY <1>1, <2>1, CommandIs
    <3>4. Content(tmp[p]) \in [Names -> Values \cup {None}]  BY <3>2, ContentIs
    <3>5. QED  BY <2>1, <3>3, <3>4
  <2>2. QED  BY <2>1
<1>5. /\ list' = [list EXCEPT ![p] = r.list]
      /\ ret' = [ret EXCEPT ![p] = r.ret]
      /\ out' = [out EXCEPT ![p] = found]
      /\ UNCHANGED <<flash, cmd, tmp, overlap>>
  BY DEF Apply
<1>6. \A q \in Procs : pc'[q] # "idle" => pc[q] # "idle"
  <2>1. PICK place \in {"flush", "flushed"} : pc' = [pc EXCEPT ![p] = place]  BY DEF Apply
  <2>2. QED  BY <1>1, <2>1 DEF LockInv
<1> HIDE DEF r, found
<1>7. /\ list' \in [Procs -> Seq(Line)] /\ ret' \in [Procs -> Replies]
      /\ out' \in [Procs -> Values \cup {None}]
  BY <1>3, <1>4, <1>5 DEF DataInv
<1>8. ASSUME NEW q \in Procs  PROVE WorkOK(q)'
  <2>1. Unique(list'[q])
    <3>1. CASE q = p  BY <1>2, <1>5, <3>1 DEF DataInv
    <3>2. CASE q # p  BY <1>5, <3>2 DEF DataInv, WorkOK
    <3>3. QED  BY <3>1, <3>2
  <2>2. QED  BY <1>5, <1>6, <2>1 DEF DataInv, WorkOK
<1>9. QED  BY <1>5, <1>7, <1>8 DEF DataInv

\* Every step of a command keeps the invariant.
LEMMA StepKeepsData ==
    ASSUME LockInv, DataInv, NEW p \in Procs, Step(p)
    PROVE  DataInv'
<1>1. CASE Apply(p)  BY <1>1, ApplyKeepsData
<1>2. ASSUME UNCHANGED <<flash, cmd, tmp, list, overlap, ret, out>>,
             \A q \in Procs : pc'[q] # "idle" => pc[q] # "idle"
      PROVE  DataInv'
  BY <1>2 DEF DataInv, WorkOK
<1>3. CASE Open(p)
  <2>1. \A q \in Procs : pc'[q] # "idle" => pc[q] # "idle"  BY <1>3 DEF Open, LockInv
  <2>2. QED  BY <1>2, <1>3, <2>1 DEF Open
<1>4. CASE Flock(p)
  <2>1. \A q \in Procs : pc'[q] # "idle" => pc[q] # "idle"  BY <1>4 DEF Flock, LockInv
  <2>2. QED  BY <1>2, <1>4, <2>1 DEF Flock
<1>5. CASE LockFails(p)
  <2>1. \A q \in Procs : pc'[q] # "idle" => pc[q] # "idle"  BY <1>5 DEF LockFails, LockInv
  <2>2. QED  BY <1>2, <1>5, <2>1 DEF LockFails
<1>6. CASE WriteBegin(p)
  <2>1. \A q \in Procs : pc'[q] # "idle" => pc[q] # "idle"  BY <1>6 DEF WriteBegin, LockInv
  <2>2. flash' \in Image /\ Clean(flash')  BY <1>6 DEF WriteBegin, Image, Clean
  <2>3. overlap' \in [Procs -> BOOLEAN]  BY <1>6 DEF WriteBegin, DataInv
  <2>4. UNCHANGED <<cmd, tmp, list, ret, out>>  BY <1>6 DEF WriteBegin
  <2>5. QED  BY <2>1, <2>2, <2>3, <2>4 DEF DataInv, WorkOK
<1>7. CASE WriteEnd(p)
  <2>1. \A q \in Procs : pc'[q] # "idle" => pc[q] # "idle"  BY <1>7 DEF WriteEnd, LockInv
  <2>2. flash' \in Image /\ Clean(flash')
    <3>1. list[p] \in Seq(Line) /\ Unique(list[p])  BY DEF DataInv, WorkOK
    <3>2. part_line_wirte(list[p]) \in Seq(Line) /\ Unique(part_line_wirte(list[p]))
      BY <3>1, WriteIs
    <3>3. flash' = part_line_wirte(list[p]) \/ flash' = Torn  BY <1>7 DEF WriteEnd
    <3>4. QED  BY <3>2, <3>3 DEF Image, Clean
  <2>3. overlap' \in [Procs -> BOOLEAN]  BY <1>7 DEF WriteEnd, DataInv
  <2>4. UNCHANGED <<cmd, tmp, list, ret, out>>  BY <1>7 DEF WriteEnd
  <2>5. QED  BY <2>1, <2>2, <2>3, <2>4 DEF DataInv, WorkOK
<1>8. CASE WriteFails(p)
  <2>1. \A q \in Procs : pc'[q] # "idle" => pc[q] # "idle"  BY <1>8 DEF WriteFails, LockInv
  <2>2. flash' \in Image /\ Clean(flash')  BY <1>8 DEF WriteFails, DataInv, Image, Clean
  <2>3. UNCHANGED <<cmd, tmp, list, overlap, ret, out>>  BY <1>8 DEF WriteFails
  <2>4. QED  BY <2>1, <2>2, <2>3 DEF DataInv, WorkOK
<1>9. CASE Unlock(p)
  <2>1. \A q \in Procs : pc'[q] # "idle" => pc[q] # "idle"  BY <1>9 DEF Unlock, LockInv
  <2>2. list' = [list EXCEPT ![p] = <<>>] /\ UNCHANGED <<flash, cmd, tmp, overlap, ret, out>>
    BY <1>9 DEF Unlock
  <2>3. list' \in [Procs -> Seq(Line)] /\ \A q \in Procs : Unique(list'[q])
    BY <2>2, EmptyClean DEF DataInv, WorkOK
  <2>4. QED  BY <2>1, <2>2, <2>3 DEF DataInv, WorkOK
<1>10. CASE Unlink(p)
  <2>1. \A q \in Procs : pc'[q] # "idle" => pc[q] # "idle"  BY <1>10 DEF Unlink, LockInv
  <2>2. tmp' = [tmp EXCEPT ![p] = <<>>] /\ UNCHANGED <<flash, cmd, list, overlap, ret, out>>
    BY <1>10 DEF Unlink
  <2>3. tmp' \in [Procs -> Image] /\ \A q \in Procs : Clean(tmp'[q])
    BY <2>2, EmptyClean DEF DataInv, WorkOK
  <2>4. QED  BY <2>1, <2>2, <2>3 DEF DataInv, WorkOK
<1>11. QED  BY <1>1, <1>3, <1>4, <1>5, <1>6, <1>7, <1>8, <1>9, <1>10 DEF Step

\* The start and the failure of a command keep the invariant.
LEMMA StartKeepsData ==
    ASSUME LockInv, DataInv, NEW p \in Procs, NEW c \in Command,
           mtd_2_tmp(p, c) \/ CopyFails(p, c)
    PROVE  DataInv'
<1>1. /\ cmd' = [cmd EXCEPT ![p] = c]
      /\ tmp' = [tmp EXCEPT ![p] = flash] \/ tmp' = tmp
      /\ out' = [out EXCEPT ![p] = None]
      /\ UNCHANGED <<flash, list, overlap>>
  BY DEF mtd_2_tmp, CopyFails
<1>2. \A q \in Procs \ {p} : pc'[q] = pc[q]  BY DEF mtd_2_tmp, CopyFails, LockInv
<1>3. cmd' \in [Procs -> Command \cup {NoCommand}] /\ out' \in [Procs -> Values \cup {None}]
  BY <1>1 DEF DataInv
<1>4. ret' \in [Procs -> Replies]  BY DEF mtd_2_tmp, CopyFails, DataInv, Replies
<1>5. tmp' \in [Procs -> Image] /\ \A q \in Procs : Clean(tmp'[q])
  BY <1>1 DEF DataInv, WorkOK
<1>6. ASSUME NEW q \in Procs  PROVE pc'[q] # "idle" => cmd'[q] \in Command
  BY <1>1, <1>2 DEF DataInv, WorkOK
<1>7. QED  BY <1>1, <1>3, <1>4, <1>5, <1>6 DEF DataInv, WorkOK

\* The inductive invariant holds for any processes and commands, any faults
\* and any size of the partition.
THEOREM DataCorrect == Spec => []DataInv
<1>1. Init => DataInv
  <2> SUFFICES ASSUME Init  PROVE DataInv
    OBVIOUS
  <2>1. /\ cmd \in [Procs -> Command \cup {NoCommand}]
        /\ overlap \in [Procs -> BOOLEAN] /\ ret \in [Procs -> Replies]
        /\ out \in [Procs -> Values \cup {None}]
    BY DEF Init, Replies
  <2>2. flash \in Image /\ Clean(flash) /\ tmp \in [Procs -> Image] /\ list \in [Procs -> Seq(Line)]
    BY EmptyClean DEF Init
  <2>3. ASSUME NEW p \in Procs  PROVE WorkOK(p)
    BY EmptyClean DEF Init, WorkOK
  <2>4. QED  BY <2>1, <2>2, <2>3 DEF DataInv
<1>2. LockInv /\ DataInv /\ [Next]_vars => DataInv'
  <2> SUFFICES ASSUME LockInv, DataInv, [Next]_vars  PROVE DataInv'
    OBVIOUS
  <2>1. ASSUME NEW p \in Procs, NEW c \in Command, mtd_2_tmp(p, c) \/ CopyFails(p, c)  PROVE DataInv'
    BY <2>1, StartKeepsData
  <2>2. ASSUME NEW p \in Procs, Step(p)  PROVE DataInv'
    BY <2>2, StepKeepsData
  <2>3. CASE PowerLoss
    <3>1. /\ cmd' \in [Procs -> Command \cup {NoCommand}]
          /\ overlap' \in [Procs -> BOOLEAN] /\ ret' \in [Procs -> Replies]
          /\ out' \in [Procs -> Values \cup {None}] /\ flash' = flash
      BY <2>3 DEF PowerLoss, Replies
    <3>2. tmp' \in [Procs -> Image] /\ list' \in [Procs -> Seq(Line)]
      BY <2>3, EmptyClean DEF PowerLoss
    <3>3. ASSUME NEW p \in Procs  PROVE WorkOK(p)'
      BY <2>3, EmptyClean DEF PowerLoss, WorkOK
    <3>4. QED  BY <3>1, <3>2, <3>3 DEF DataInv
  <2>4. CASE UNCHANGED vars
    BY <2>4 DEF vars, DataInv, WorkOK
  <2>5. QED  BY <2>1, <2>2, <2>3, <2>4 DEF Next
<1>3. QED  BY <1>1, <1>2, LocksCorrect, PTL DEF Spec

\* The types of the state, for any constants.
THEOREM TypeCorrect == Spec => []TypeOK
<1>1. LockInv /\ DataInv => TypeOK
  BY DEF LockInv, DataInv, TypeOK, Places, Replies
<1>2. QED  BY <1>1, LocksCorrect, DataCorrect, PTL

\* No name is ever on two lines of the partition, however commands overlap,
\* locks and writes fail, and power is lost.
THEOREM NamesCorrect == Spec => []NamesUnique
<1>1. DataInv => NamesUnique  BY DEF DataInv, NamesUnique, Clean, Unique
<1>2. QED  BY <1>1, DataCorrect, PTL

-----------------------------------------------------------------------------
(***************************************************************************)
(* Commands that do not overlap, in a partition that is large enough.      *)
(***************************************************************************)

\* Every value is read back: no name makes its line a comment, no value is
\* empty or makes it too long, and there is room for all the variables.
Ample ==
    /\ Comments = {}
    /\ MaxLine \in Nat /\ Space \in Nat
    /\ \A v \in Values : v # 0 /\ 1 + 1 + v < MaxLine
    /\ IsFiniteSet(Names)
    /\ Cardinality(Names) * MaxLine < Space

\* Lines of less than MaxLine bytes take at most MaxLine with their newline.
LEMMA RoomIs ==
    ASSUME Ample, NEW s \in Seq(Line)
    PROVE  room(s) \in Nat /\ room(s) <= Len(s) * MaxLine
<1> DEFINE N == Len(s)
           f == [n \in 0..(N - 1) |-> [t \in Nat |-> t + length(s[n + 1]) + 1]]
           Rec(h) == h = [n \in 0..N |-> IF n = 0 THEN 0 ELSE h[n - 1] + length(s[n]) + 1]
<1>1. N \in Nat /\ \A n \in 1..N : s[n] \in Line  BY LenProperties
<1>2. ASSUME NEW n \in 1..N  PROVE length(s[n]) \in Nat /\ length(s[n]) < MaxLine
  <2>1. s[n].v \in Values  BY <1>1 DEF Line
  <2>2. s[n].v \in Nat /\ 1 + 1 + s[n].v < MaxLine  BY <2>1, ValuesAssumption DEF Ample
  <2>3. QED  BY <2>2 DEF length
<1>3. f \in Steps(Nat, N)
  <2>1. \A n \in 0..(N - 1) : length(s[n + 1]) \in Nat  BY <1>1, <1>2
  <2>2. QED  BY <2>1 DEF Steps
<1>4. PICK g : Iterate(g, Nat, N, 0, f)
  <2> HIDE DEF f, N
  <2>1. QED  BY <1>1, <1>3, Iterates
<1>5. g \in [0..N -> Nat] /\ g[0] = 0  BY <1>4 DEF Iterate
<1>6. ASSUME NEW n \in 0..(N - 1)  PROVE g[n + 1] = g[n] + length(s[n + 1]) + 1
  <2>1. g[n + 1] = f[n][g[n]]  BY <1>4 DEF Iterate
  <2>2. g[n] \in Nat  BY <1>1, <1>5
  <2>3. QED  BY <2>1, <2>2
<1>7. Rec(g)
  <2>1. ASSUME NEW n \in 0..N
        PROVE  g[n] = IF n = 0 THEN 0 ELSE g[n - 1] + length(s[n]) + 1
    <3>1. CASE n = 0  BY <1>5, <3>1
    <3>2. CASE n # 0
      <4>1. n - 1 \in 0..(N - 1) /\ (n - 1) + 1 = n  BY <1>1, <3>2
      <4>2. QED  BY <1>6, <3>2, <4>1
    <3>3. QED  BY <3>1, <3>2
  <2>2. QED  BY <1>5, <2>1
<1> DEFINE h == CHOOSE x : Rec(x)
<1>8. Rec(h)  BY <1>7
<1>9. room(s) = h[N]  BY DEF room
<1> HIDE DEF h
<1>10. h[0] = 0  BY <1>1, <1>8
<1>11. ASSUME NEW n \in 0..(N - 1)  PROVE h[n + 1] = h[n] + length(s[n + 1]) + 1
  <2>1. n + 1 \in 0..N /\ n + 1 # 0 /\ (n + 1) - 1 = n  BY <1>1
  <2>2. QED  BY <1>8, <2>1
<1> DEFINE S == {n \in 0..N : h[n] \in Nat /\ h[n] <= n * MaxLine}
<1>12. 0 \in S  BY <1>1, <1>10 DEF Ample
<1>13. ASSUME NEW n \in 0..(N - 1), n \in S  PROVE n + 1 \in S
  <2>1. length(s[n + 1]) \in Nat /\ length(s[n + 1]) < MaxLine  BY <1>1, <1>2
  <2>2. h[n] \in Nat /\ h[n] <= n * MaxLine  BY <1>13
  <2>3. MaxLine \in Nat /\ n \in Nat  BY DEF Ample
  <2>4. (n + 1) * MaxLine = n * MaxLine + MaxLine /\ n * MaxLine \in Nat  BY <2>3
  <2> DEFINE l == length(s[n + 1])
             z == n * MaxLine
             y == h[n]
  <2>5. y + l + 1 <= z + MaxLine
    <3>1. l \in Nat /\ z \in Nat /\ y \in Nat /\ y <= z /\ l < MaxLine  BY <2>1, <2>2, <2>4
    <3> HIDE DEF l, z, y
    <3>2. QED  BY <2>3, <3>1
  <2>6. h[n + 1] = y + l + 1  BY <1>11
  <2>7. h[n + 1] \in Nat /\ h[n + 1] <= (n + 1) * MaxLine
    BY <2>1, <2>2, <2>4, <2>5, <2>6
  <2>8. QED  BY <1>1, <2>7
<1>14. \A n \in 0..N : n \in S
  <2> HIDE DEF S, N
  <2>1. QED  BY <1>1, <1>12, <1>13, Induction
<1>15. QED  BY <1>1, <1>9, <1>14

\* There are not more lines than names.
LEMMA UniqueShort ==
    ASSUME IsFiniteSet(Names), NEW s \in Seq(Line), Unique(s)
    PROVE  Len(s) <= Cardinality(Names) /\ Cardinality(Names) \in Nat
<1> DEFINE f == [i \in 1..Len(s) |-> s[i].k]
<1>1. Len(s) \in Nat /\ DOMAIN s = 1..Len(s) /\ \A i \in 1..Len(s) : s[i] \in Line
  BY LenProperties
<1>2. f \in [1..Len(s) -> Names]  BY <1>1 DEF Line
<1>3. \A i, j \in 1..Len(s) : f[i] = f[j] => i = j  BY <1>1 DEF Unique
<1>4. f \in Injection(1..Len(s), Names)  BY <1>2, <1>3 DEF Injection, IsInjective
<1> HIDE DEF f
<1>5. Cardinality(1..Len(s)) <= Cardinality(Names)  BY <1>4, FS_Injection
<1>6. Cardinality(1..Len(s)) = Len(s)
  <2>1. Cardinality(1..Len(s)) = IF 1 > Len(s) THEN 0 ELSE Len(s) - 1 + 1
    BY <1>1, FS_Interval
  <2>2. QED  BY <1>1, <2>1
<1>7. QED  BY <1>5, <1>6, FS_CardinalityType

\* The whole list is written.
LEMMA WriteAll ==
    ASSUME Ample, NEW s \in Seq(Line), Unique(s)
    PROVE  part_line_wirte(s) = s
<1> DEFINE fit == {n \in 0..Len(s) : n = 0 \/ room(SubSeq(s, 1, n)) + 1 <= Space}
<1>1. Len(s) \in Nat  BY LenProperties
<1>2. SubSeq(s, 1, Len(s)) = s  BY SubSeqFull
<1>3. room(s) + 1 <= Space
  <2>1. room(s) \in Nat /\ room(s) <= Len(s) * MaxLine  BY RoomIs
  <2>2. Len(s) <= Cardinality(Names) /\ Cardinality(Names) \in Nat
    BY UniqueShort DEF Ample
  <2>3. Len(s) * MaxLine <= Cardinality(Names) * MaxLine
    BY <1>1, <2>2 DEF Ample
  <2>4. Len(s) * MaxLine \in Nat /\ Cardinality(Names) * MaxLine \in Nat
    BY <1>1, <2>2 DEF Ample
  <2>5. QED  BY <2>1, <2>3, <2>4 DEF Ample
<1>4. Len(s) \in fit /\ fit \subseteq 0..Len(s)
  <2>1. room(SubSeq(s, 1, Len(s))) + 1 <= Space  BY <1>2, <1>3
  <2>2. QED  BY <1>1, <2>1
<1>5. Max(fit) = Len(s)
  <2> HIDE DEF fit
  <2>1. \A k \in fit : Len(s) >= k  BY <1>1, <1>4
  <2>2. Max(fit) \in fit /\ \A k \in fit : Max(fit) >= k  BY <1>4, <2>1 DEF Max
  <2>3. Max(fit) \in 0..Len(s) /\ Max(fit) >= Len(s)  BY <1>4, <2>2
  <2>4. QED  BY <1>1, <2>3
<1>6. part_line_wirte(s) = SubSeq(s, 1, Max(fit))  BY DEF part_line_wirte
<1>7. QED  BY <1>2, <1>5, <1>6

\* The whole image is read.
LEMMA ReadAll ==
    ASSUME Ample, NEW s \in Seq(Line)
    PROVE  part_line_read(s) = s
<1> DEFINE short == {n \in 0..Len(s) : \A i \in 1..n : length(s[i]) < MaxLine}
           S == [k : Names \ Comments, v : Values \ {0}]
<1>1. Len(s) \in Nat /\ DOMAIN s = 1..Len(s) /\ \A i \in 1..Len(s) : s[i] \in Line
  BY LenProperties
<1>2. \A i \in 1..Len(s) : length(s[i]) < MaxLine /\ s[i] \in S
  <2>1. \A i \in 1..Len(s) : s[i].v \in Values  BY <1>1 DEF Line
  <2>2. \A i \in 1..Len(s) : length(s[i]) < MaxLine  BY <2>1 DEF Ample, length
  <2>3. \A i \in 1..Len(s) : s[i].v # 0  BY <2>1 DEF Ample
  <2>4. \A i \in 1..Len(s) : s[i].k \in Names \ Comments  BY <1>1 DEF Line, Ample
  <2>5. QED  BY <1>1, <2>2, <2>3, <2>4 DEF Line
<1>3. Len(s) \in short /\ short \subseteq 0..Len(s)  BY <1>1, <1>2
<1>4. Max(short) = Len(s)
  <2> HIDE DEF short
  <2>1. \A k \in short : Len(s) >= k  BY <1>1, <1>3
  <2>2. Max(short) \in short /\ \A k \in short : Max(short) >= k  BY <1>3, <2>1 DEF Max
  <2>3. Max(short) \in 0..Len(s) /\ Max(short) >= Len(s)  BY <1>3, <2>2
  <2>4. QED  BY <1>1, <2>3
<1>5. part_line_read(s) = kept(SubSeq(s, 1, Max(short)), S)  BY DEF part_line_read
<1>6. Lines(s) \subseteq S  BY <1>1, <1>2 DEF Lines
<1>7. SubSeq(s, 1, Len(s)) = s  BY SubSeqFull
<1> HIDE DEF S, short
<1>8. IsKept(kept(s, S), s, S)  BY KeptIs
<1>9. QED  BY <1>4, <1>5, <1>6, <1>7, <1>8 DEF IsKept

\* What a reader finds in a complete image of an ample partition.
LEMMA ContentAll ==
    ASSUME Ample, NEW s \in Seq(Line), Unique(s)
    PROVE  /\ Content(s) \in [Names -> Values \cup {None}] /\ Content(s) # Torn
           /\ \A x \in Lines(s) : x.k \in Names /\ Content(s)[x.k] = x.v /\ x.v # None
           /\ \A k \in Names : (\A x \in Lines(s) : x.k # k) => Content(s)[k] = None
<1>1. part_line_read(s) = s  BY ReadAll
<1>2. \A x \in Lines(s) : x.k \in Names /\ x.v # None
  <2>1. \A x \in Lines(s) : x \in Line  BY ElementOfSeq DEF Lines
  <2>2. QED  BY <2>1, NoneAssumption DEF Line
<1>3. QED  BY <1>1, <1>2, ContentIs, TornAssumption

\* The answer a to the command c, with the value o shown, is true of image.
Right(c, a, o, image) ==
    a \notin {"error", "badcrc"} /\ c.op # "crc" =>
        LET now == Content(image)
        IN  /\ now # Torn
            /\ a = "exist" => now[c.k] # None
            /\ a = "noexist" => now[c.k] = None
            /\ a = "ok" =>
                 CASE c.op \in {"new", "create", "update"} -> now[c.k] = c.v
                   [] c.op = "delete" -> now[c.k] = None
                   [] c.op = "delprefix" -> \A k \in Prefixed[c.k] : now[k] = None
                   [] c.op \in {"empty", "load"} -> \A k \in Names : now[k] = None
                   [] c.op = "show" -> now[c.k] = o /\ o # None

\* A command that changes nothing answers truly about what it read.
LEMMA CleanRight ==
    ASSUME Ample, NEW c \in Command, NEW image \in Image, Clean(image), NEW r, NEW o,
           r = execute(c, image), ~r.dirty,
           o = IF c.op = "show" /\ r.ret = "ok" THEN Content(image)[c.k] ELSE None
    PROVE  Right(c, r.ret, o, image)
<1>1. CASE c.op = "crc"  BY <1>1 DEF Right
<1>2. CASE c.op \in {"empty", "load"}
  <2>1. r.dirty = TRUE  BY <1>2 DEF execute, result
  <2>2. QED  BY <2>1
<1>3. CASE c.op \notin {"crc", "empty", "load"} /\ image = Torn
  <2>1. r.ret = "badcrc"  BY <1>3 DEF execute, result
  <2>2. QED  BY <2>1 DEF Right
<1>4. CASE c.op \notin {"crc", "empty", "load"} /\ image # Torn
  <2>1. image \in Seq(Line) /\ Unique(image)  BY <1>4 DEF Image, Clean
  <2>2. part_line_read(image) = image  BY <2>1, ReadAll
  <2>3. r = perform(c, image)  BY <1>4, <2>2 DEF execute
  <2>4. r.list = image /\ Told(c, r, image)
    <3>1. /\ ~r.dirty => r.list = image
          /\ Told(c, r, image)
      BY <1>4, <2>1, <2>3, PerformIs
    <3>2. QED  BY <3>1
  <2>5. c.k \in Names /\ c.op \in AllOps  BY <1>4, CommandIs
  <2> DEFINE now == Content(image)
  <2>6. /\ now # Torn
        /\ \A x \in Lines(image) : now[x.k] = x.v /\ x.v # None
        /\ \A k \in Names : (\A x \in Lines(image) : x.k # k) => now[k] = None
    BY <2>1, ContentAll
  <2> HIDE DEF now
  <2>7. r.ret = "exist" => now[c.k] # None  BY <2>4, <2>6 DEF Told
  <2>8. r.ret = "noexist" => now[c.k] = None  BY <2>4, <2>5, <2>6 DEF Told
  <2>9. r.ret = "ok" => c.op \notin {"new", "create", "update", "delete"}
    BY <2>4 DEF Told
  <2>10. r.ret = "ok" /\ c.op = "show" => now[c.k] = o /\ o # None
    BY <2>4, <2>6 DEF Told, now
  <2>11. ASSUME r.ret = "ok", c.op = "delprefix", NEW k \in Prefixed[c.k]  PROVE now[k] = None
    <3>1. Lines(image) = Except(image, Prefixed[c.k])  BY <2>4, <2>11 DEF Told
    <3>2. \A x \in Lines(image) : x.k # k  BY <2>11, <3>1 DEF Except
    <3>3. k \in Names  BY <2>5, <2>11, PrefixAssumption
    <3>4. QED  BY <2>6, <3>2, <3>3
  <2>12. QED  BY <1>4, <2>5, <2>6, <2>7, <2>8, <2>9, <2>10, <2>11 DEF Right, now, AllOps
<1>5. QED  BY <1>1, <1>2, <1>3, <1>4

\* A command that changes the list answers truly about what it writes.
LEMMA DirtyRight ==
    ASSUME Ample, NEW c \in Command, NEW image \in Image, Clean(image), NEW r, NEW o,
           r = execute(c, image), r.dirty
    PROVE  Right(c, r.ret, o, part_line_wirte(r.list))
<1>0. r.list \in Seq(Line) /\ Unique(r.list)
  BY ExecuteIs DEF Outcome
<1>1. part_line_wirte(r.list) = r.list  BY <1>0, WriteAll
<1> DEFINE now == Content(r.list)
<1>2. /\ now # Torn
      /\ \A x \in Lines(r.list) : now[x.k] = x.v /\ x.v # None
      /\ \A k \in Names : (\A x \in Lines(r.list) : x.k # k) => now[k] = None
  BY <1>0, ContentAll
<1> HIDE DEF now
<1>4. CASE c.op = "crc"  BY <1>4 DEF Right
<1>5. CASE c.op \in {"empty", "load"}
  <2>1. r.list = <<>> /\ r.ret = "ok"  BY <1>5 DEF execute, result
  <2>2. Lines(r.list) = {}
    <3>1. DOMAIN <<>> = {}  OBVIOUS
    <3>2. QED  BY <2>1, <3>1 DEF Lines
  <2>3. \A k \in Names : now[k] = None  BY <1>2, <2>2
  <2>4. QED  BY <1>1, <1>2, <1>5, <2>1, <2>3 DEF Right, now
<1>6. CASE c.op \notin {"crc", "empty", "load"} /\ image = Torn
  <2>1. r.ret = "badcrc"  BY <1>6 DEF execute, result
  <2>2. QED  BY <2>1 DEF Right
<1>7. CASE c.op \notin {"crc", "empty", "load"} /\ image # Torn
  <2>1. image \in Seq(Line) /\ Unique(image)  BY <1>7 DEF Image, Clean
  <2>2. part_line_read(image) = image  BY <2>1, ReadAll
  <2>3. r = perform(c, image)  BY <1>7, <2>2 DEF execute
  <2>4. Told(c, r, image)  BY <1>7, <2>1, <2>3, PerformIs
  <2>5. c.k \in Names /\ c.op \in AllOps  BY <1>7, CommandIs
  <2>6. r.ret = "ok"  BY <2>4 DEF Told
  <2>7. ASSUME c.op \in {"new", "create", "update"}  PROVE now[c.k] = c.v
    <3>1. [k |-> c.k, v |-> c.v] \in Lines(r.list)  BY <2>4, <2>6, <2>7 DEF Told
    <3>2. QED  BY <1>2, <3>1
  <2>8. ASSUME c.op = "delete"  PROVE now[c.k] = None
    <3>1. Lines(r.list) = Except(image, {c.k})  BY <2>4, <2>6, <2>8 DEF Told
    <3>2. \A x \in Lines(r.list) : x.k # c.k  BY <3>1 DEF Except
    <3>3. QED  BY <1>2, <2>5, <3>2
  <2>9. ASSUME c.op = "delprefix", NEW k \in Prefixed[c.k]  PROVE now[k] = None
    <3>1. Lines(r.list) = Except(image, Prefixed[c.k])  BY <2>4, <2>6, <2>9 DEF Told
    <3>2. \A x \in Lines(r.list) : x.k # k  BY <2>9, <3>1 DEF Except
    <3>3. k \in Names  BY <2>5, <2>9, PrefixAssumption
    <3>4. QED  BY <1>2, <3>2, <3>3
  <2>10. c.op # "show"  BY <2>4, <2>6 DEF Told
  <2>11. QED  BY <1>1, <1>2, <1>7, <2>5, <2>6, <2>7, <2>8, <2>9, <2>10 DEF Right, now, AllOps
<1>8. QED  BY <1>4, <1>5, <1>6, <1>7

\* Commands do not overlap: there is at most one process at a time.
Alone == \A p, q \in Procs : p = q

\* The list and the answer of p are those of its command on its copy.
Planned(p) ==
    /\ execute(cmd[p], tmp[p]).dirty
    /\ list[p] = execute(cmd[p], tmp[p]).list
    /\ ret[p] = execute(cmd[p], tmp[p]).ret

\* The inductive invariant of commands that do not overlap: the copy is the
\* partition until it is written; what is written is the command's outcome.
AloneOK(p) ==
    /\ pc[p] \in {"copied", "opened", "inside", "flush"} => tmp[p] = flash
    /\ pc[p] \in {"flush", "writing"} => Planned(p)
    /\ pc[p] = "writing" => flash = Torn /\ ~overlap[p]
AloneInv == \A p \in Procs : AloneOK(p)

\* After the write the answer is true of the partition.
Answered(p) ==
    pc[p] \in {"flushed", "unlocked", "done"} => Right(cmd[p], ret[p], out[p], flash)

\* Every step of the only process keeps AloneInv.
LEMMA AloneStep ==
    ASSUME Alone, LockInv, DataInv, AloneInv, [Next]_vars
    PROVE  AloneInv'
<1> SUFFICES ASSUME NEW p \in Procs  PROVE AloneOK(p)'
  BY DEF AloneInv
<1>0. AloneOK(p) /\ \A q \in Procs : q = p
  BY DEF AloneInv, Alone
<1>1. /\ pc \in [Procs -> Places] /\ tmp \in [Procs -> Image] /\ list \in [Procs -> Seq(Line)]
      /\ ret \in [Procs -> Replies] /\ overlap \in [Procs -> BOOLEAN]
  BY DEF LockInv, DataInv
<1>2. ASSUME NEW c \in Command, mtd_2_tmp(p, c)  PROVE AloneOK(p)'
  <2>1. pc'[p] = "copied" /\ tmp'[p] = flash /\ flash' = flash  BY <1>1, <1>2 DEF mtd_2_tmp
  <2>2. QED  BY <2>1 DEF AloneOK
<1>3. ASSUME NEW c \in Command, CopyFails(p, c)  PROVE AloneOK(p)'
  <2>1. pc'[p] = "done"  BY <1>1, <1>3 DEF CopyFails
  <2>2. QED  BY <2>1 DEF AloneOK
<1>4. CASE Open(p)
  <2>1. pc[p] = "copied" /\ pc'[p] = "opened" /\ tmp' = tmp /\ flash' = flash
    BY <1>1, <1>4 DEF Open
  <2>2. QED  BY <1>0, <2>1 DEF AloneOK
<1>5. CASE Flock(p)
  <2>1. pc[p] = "opened" /\ pc'[p] = "inside" /\ tmp' = tmp /\ flash' = flash
    BY <1>1, <1>5 DEF Flock
  <2>2. QED  BY <1>0, <2>1 DEF AloneOK
<1>6. CASE LockFails(p)
  <2>1. pc[p] \in {"copied", "opened"} /\ pc'[p] = "inside" /\ tmp' = tmp /\ flash' = flash
    BY <1>1, <1>6 DEF LockFails
  <2>2. QED  BY <1>0, <2>1 DEF AloneOK
<1>7. CASE Apply(p)
  <2> DEFINE r == execute(cmd[p], tmp[p])
  <2>1. /\ pc[p] = "inside" /\ tmp' = tmp /\ flash' = flash /\ cmd' = cmd
        /\ list'[p] = r.list /\ ret'[p] = r.ret
    BY <1>1, <1>7 DEF Apply
  <2>2. pc'[p] = IF r.dirty THEN "flush" ELSE "flushed"  BY <1>1, <1>7 DEF Apply
  <2>3. pc'[p] = "flush" => r.dirty  BY <2>2
  <2>4. pc'[p] \in {"flush", "flushed"}  BY <2>2
  <2>5. r = execute(cmd'[p], tmp'[p])  BY <2>1
  <2> HIDE DEF r
  <2>6. tmp'[p] = flash'  BY <1>0, <2>1 DEF AloneOK
  <2>7. pc'[p] = "flush" => Planned(p)'  BY <2>1, <2>3, <2>5 DEF Planned
  <2>8. QED  BY <2>4, <2>6, <2>7 DEF AloneOK
<1>8. CASE WriteBegin(p)
  <2>1. /\ pc[p] = "flush" /\ pc'[p] = "writing" /\ flash' = Torn
        /\ UNCHANGED <<cmd, tmp, list, ret>>
    BY <1>1, <1>8 DEF WriteBegin
  <2>2. {q \in Procs : pc[q] = "writing"} = {}  BY <1>0, <2>1
  <2>3. ~overlap'[p]  BY <1>8, <2>2 DEF WriteBegin
  <2>4. Planned(p)'  BY <1>0, <2>1 DEF AloneOK, Planned
  <2>5. QED  BY <2>1, <2>3, <2>4 DEF AloneOK
<1>9. CASE WriteEnd(p)
  <2>1. pc'[p] = "flushed"  BY <1>1, <1>9 DEF WriteEnd
  <2>2. QED  BY <2>1 DEF AloneOK
<1>10. CASE WriteFails(p)
  <2>1. pc'[p] = "flushed"  BY <1>1, <1>10 DEF WriteFails
  <2>2. QED  BY <2>1 DEF AloneOK
<1>11. CASE Unlock(p)
  <2>1. pc'[p] = "unlocked"  BY <1>1, <1>11 DEF Unlock
  <2>2. QED  BY <2>1 DEF AloneOK
<1>12. CASE Unlink(p)
  <2>1. pc'[p] = "done"  BY <1>1, <1>12 DEF Unlink
  <2>2. QED  BY <2>1 DEF AloneOK
<1>13. CASE PowerLoss
  <2>1. pc'[p] = "idle"  BY <1>13 DEF PowerLoss
  <2>2. QED  BY <2>1 DEF AloneOK
<1>14. CASE UNCHANGED vars
  BY <1>0, <1>14 DEF vars, AloneOK, Planned
<1>15. QED
  BY <1>0, <1>2, <1>3, <1>4, <1>5, <1>6, <1>7, <1>8, <1>9, <1>10, <1>11, <1>12, <1>13, <1>14
  DEF Next, Step

\* Every step of the only process leaves true answers, if no write fails.
LEMMA AnsweredStep ==
    ASSUME Alone, Ample, "write" \notin Faults, LockInv, DataInv, AloneInv,
           \A p \in Procs : Answered(p), [Next]_vars, NEW p \in Procs
    PROVE  Answered(p)'
<1>0. AloneOK(p) /\ Answered(p) /\ \A q \in Procs : q = p
  BY DEF AloneInv, Alone
<1>1. /\ pc \in [Procs -> Places] /\ ret \in [Procs -> Replies]
      /\ out \in [Procs -> Values \cup {None}]
      /\ tmp[p] \in Image /\ Clean(tmp[p]) /\ (pc[p] # "idle" => cmd[p] \in Command)
  BY DEF LockInv, DataInv, WorkOK
<1>2. ASSUME NEW c \in Command, mtd_2_tmp(p, c)  PROVE Answered(p)'
  <2>1. pc'[p] = "copied"  BY <1>1, <1>2 DEF mtd_2_tmp
  <2>2. QED  BY <2>1 DEF Answered
<1>3. ASSUME NEW c \in Command, CopyFails(p, c)  PROVE Answered(p)'
  <2>1. ret'[p] = "error"  BY <1>1, <1>3 DEF CopyFails
  <2>2. QED  BY <2>1 DEF Answered, Right
<1>4. CASE Open(p)
  <2>1. pc'[p] = "opened"  BY <1>1, <1>4 DEF Open
  <2>2. QED  BY <2>1 DEF Answered
<1>5. CASE Flock(p)
  <2>1. pc'[p] = "inside"  BY <1>1, <1>5 DEF Flock
  <2>2. QED  BY <2>1 DEF Answered
<1>6. CASE LockFails(p)
  <2>1. pc'[p] = "inside"  BY <1>1, <1>6 DEF LockFails
  <2>2. QED  BY <2>1 DEF Answered
<1>7. CASE Apply(p)
  <2> DEFINE r == execute(cmd[p], tmp[p])
             o == IF cmd[p].op = "show" /\ r.ret = "ok" THEN Content(tmp[p])[cmd[p].k] ELSE None
  <2>1. /\ pc[p] = "inside" /\ flash' = flash /\ cmd' = cmd
        /\ ret'[p] = r.ret /\ out'[p] = o
    BY <1>1, <1>7 DEF Apply
  <2>2. pc'[p] = IF r.dirty THEN "flush" ELSE "flushed"  BY <1>1, <1>7 DEF Apply
  <2>3. tmp[p] = flash /\ cmd[p] \in Command  BY <1>0, <1>1, <2>1 DEF AloneOK
  <2>4. CASE r.dirty
    <3>1. pc'[p] = "flush"  BY <2>2, <2>4
    <3>2. QED  BY <3>1 DEF Answered
  <2>5. CASE ~r.dirty
    <3>1. Right(cmd[p], r.ret, o, tmp[p])  BY <1>1, <2>3, <2>5, CleanRight
    <3> HIDE DEF r, o
    <3>2. QED  BY <2>1, <2>3, <3>1 DEF Answered
  <2>6. QED  BY <2>4, <2>5
<1>8. CASE WriteBegin(p)
  <2>1. pc'[p] = "writing"  BY <1>1, <1>8 DEF WriteBegin
  <2>2. QED  BY <2>1 DEF Answered
<1>9. CASE WriteEnd(p)
  <2> DEFINE r == execute(cmd[p], tmp[p])
  <2>1. /\ pc[p] = "writing" /\ UNCHANGED <<cmd, ret, out>>
    BY <1>9 DEF WriteEnd
  <2>2. cmd[p] \in Command /\ Planned(p) /\ ~overlap[p]  BY <1>0, <1>1, <2>1 DEF AloneOK
  <2>3. flash' = part_line_wirte(list[p])  BY <1>9, <2>2 DEF WriteEnd
  <2>4. r.dirty /\ list[p] = r.list /\ ret[p] = r.ret  BY <2>2 DEF Planned
  <2>5. Right(cmd[p], r.ret, out[p], part_line_wirte(r.list))
    BY <1>1, <2>2, <2>4, DirtyRight
  <2> HIDE DEF r
  <2>6. QED  BY <2>1, <2>3, <2>4, <2>5 DEF Answered
<1>10. CASE WriteFails(p)  BY <1>10 DEF WriteFails
<1>11. CASE Unlock(p)
  <2>1. pc[p] = "flushed" /\ UNCHANGED <<cmd, ret, out, flash>>  BY <1>11 DEF Unlock
  <2>2. QED  BY <1>0, <2>1 DEF Answered
<1>12. CASE Unlink(p)
  <2>1. pc[p] = "unlocked" /\ UNCHANGED <<cmd, ret, out, flash>>  BY <1>12 DEF Unlink
  <2>2. QED  BY <1>0, <2>1 DEF Answered
<1>13. CASE PowerLoss
  <2>1. pc'[p] = "idle"  BY <1>13 DEF PowerLoss
  <2>2. QED  BY <2>1 DEF Answered
<1>14. CASE UNCHANGED vars
  BY <1>0, <1>14 DEF vars, Answered
<1>15. QED
  BY <1>0, <1>2, <1>3, <1>4, <1>5, <1>6, <1>7, <1>8, <1>9, <1>10, <1>11, <1>12, <1>13, <1>14
  DEF Next, Step

\* Commands that do not overlap work on the partition as it is.
THEOREM AloneCorrect == ASSUME Alone PROVE Spec => []AloneInv
<1>1. Init => AloneInv  BY DEF Init, AloneInv, AloneOK
<1>2. LockInv /\ DataInv /\ AloneInv /\ [Next]_vars => AloneInv'  BY AloneStep
<1>3. QED  BY <1>1, <1>2, LocksCorrect, DataCorrect, PTL DEF Spec

\* A command that does not overlap another answers the truth: after "ok" the
\* variable has its value or is gone, "exist" and "not exist" are right, and
\* what is shown is stored; -load is no exception only because AnswerIsTrue
\* says of it what the code does, that nothing is left, and not what its
\* help promises.  It takes names that are no comments, values that are not
\* empty, lines shorter than PART_MAX_LINE, a partition with room for all names, and
\* writes that do not fail: without any one of them the answer can be wrong.
THEOREM AnswersCorrect ==
    ASSUME Alone, Ample, "write" \notin Faults PROVE Spec => []AnswerIsTrue
<1> DEFINE Inv == \A p \in Procs : Answered(p)
<1>1. Init => Inv  BY DEF Init, Answered
<1>2. LockInv /\ DataInv /\ AloneInv /\ Inv /\ [Next]_vars => Inv'  BY AnsweredStep
<1>3. Inv => AnswerIsTrue
  <2> SUFFICES ASSUME Inv, NEW p \in Procs, pc[p] = "done",
                      ret[p] \notin {"error", "badcrc"}, cmd[p].op # "crc"
               PROVE  LET c == cmd[p]
                          now == Content(flash)
                      IN  /\ now # Torn
                          /\ ret[p] = "exist" => now[c.k] # None
                          /\ ret[p] = "noexist" => now[c.k] = None
                          /\ ret[p] = "ok" =>
                               CASE c.op \in {"new", "create", "update"} -> now[c.k] = c.v
                                 [] c.op = "delete" -> now[c.k] = None
                                 [] c.op = "delprefix" -> \A k \in Prefixed[c.k] : now[k] = None
                                 [] c.op \in {"empty", "load"} -> \A k \in Names : now[k] = None
                                 [] c.op = "show" -> now[c.k] = out[p] /\ out[p] # None
    BY DEF AnswerIsTrue
  <2>1. Right(cmd[p], ret[p], out[p], flash)  BY DEF Answered
  <2>2. QED  BY <2>1 DEF Right
<1>4. QED  BY <1>1, <1>2, <1>3, LocksCorrect, DataCorrect, AloneCorrect, PTL DEF Spec

-----------------------------------------------------------------------------
(***************************************************************************)
(* The store of variables.                                                 *)
(***************************************************************************)

\* A damaged partition has no content, an empty one no variable.
LEMMA ContentEnds ==
    Content(Torn) = Torn /\ (Ample => Content(<<>>) = [k \in Names |-> None])
<1>1. Content(Torn) = Torn  BY DEF Content
<1>2. ASSUME Ample  PROVE Content(<<>>) = [k \in Names |-> None]
  <2>1. Lines(<<>>) = {}
    <3>1. DOMAIN <<>> = {}  OBVIOUS
    <3>2. QED  BY <3>1 DEF Lines
  <2>2. /\ Content(<<>>) \in [Names -> Values \cup {None}]
        /\ \A k \in Names : (\A x \in Lines(<<>>) : x.k # k) => Content(<<>>)[k] = None
    BY <1>2, EmptyClean, ContentAll
  <2>3. QED  BY <2>1, <2>2
<1>3. QED  BY <1>1, <1>2

\* What the outcome of a command is to the store.
Effect(before, after) ==
    \/ before # Torn /\ \E k \in Names, v \in Values : after = [before EXCEPT ![k] = v]
    \/ before # Torn /\ \E k \in Names : after = [before EXCEPT ![k] = None]
    \/ /\ before # Torn
       /\ \E n \in Names :
            after = [k \in Names |-> IF k \in Prefixed[n] THEN None ELSE before[k]]
    \/ after = [k \in Names |-> None]

\* Two contents are the same if they give every name the same value.
LEMMA SameContent ==
    ASSUME NEW f \in [Names -> Values \cup {None}], NEW g \in [Names -> Values \cup {None}],
           \A k \in Names : f[k] = g[k]
    PROVE  f = g
OBVIOUS

\* A command that changes the list has one of the store's effects.
LEMMA DirtyEffect ==
    ASSUME Ample, NEW c \in Command, NEW image \in Image, Clean(image), NEW r,
           r = execute(c, image), r.dirty
    PROVE  Effect(Content(image), Content(part_line_wirte(r.list)))
<1>0. r.list \in Seq(Line) /\ Unique(r.list)
  BY ExecuteIs DEF Outcome
<1>1. part_line_wirte(r.list) = r.list  BY <1>0, WriteAll
<1> DEFINE now == Content(r.list)
           old == Content(image)
<1>2. /\ now \in [Names -> Values \cup {None}]
      /\ \A x \in Lines(r.list) : now[x.k] = x.v
      /\ \A k \in Names : (\A x \in Lines(r.list) : x.k # k) => now[k] = None
  BY <1>0, ContentAll
<1>3. CASE c.op = "crc"
  <2>1. r.dirty = FALSE  BY <1>3 DEF execute, result
  <2>2. QED  BY <2>1
<1>4. CASE c.op \in {"empty", "load"}
  <2>1. r.list = <<>>  BY <1>4 DEF execute, result
  <2>2. QED  BY <1>1, <2>1, ContentEnds DEF Effect
<1>5. CASE c.op \notin {"crc", "empty", "load"} /\ image = Torn
  <2>1. r.dirty = FALSE  BY <1>5 DEF execute, result
  <2>2. QED  BY <2>1
<1>6. CASE c.op \notin {"crc", "empty", "load"} /\ image # Torn
  <2>1. image \in Seq(Line) /\ Unique(image)  BY <1>6 DEF Image, Clean
  <2>2. part_line_read(image) = image  BY <2>1, ReadAll
  <2>3. r = perform(c, image)  BY <1>6, <2>2 DEF execute
  <2>4. Told(c, r, image)  BY <1>6, <2>1, <2>3, PerformIs
  <2>5. c.k \in Names /\ c.op \in AllOps /\ (c.op \in {"new", "create", "update"} => c.v \in Values)
    BY <1>6, CommandIs
  <2>6. r.ret = "ok"  BY <2>4 DEF Told
  <2>7. /\ old \in [Names -> Values \cup {None}] /\ old # Torn
        /\ \A x \in Lines(image) : old[x.k] = x.v
        /\ \A k \in Names : (\A x \in Lines(image) : x.k # k) => old[k] = None
    BY <2>1, ContentAll
  <2> HIDE DEF now, old
  <2>8. ASSUME NEW K, NEW k \in Names, k \notin K, NEW X, \A x \in X : x.k \in K,
               Lines(r.list) = Except(image, K) \cup X
        PROVE  now[k] = old[k]
    <3>1. CASE \E x \in Lines(image) : x.k = k
      <4>1. PICK x \in Lines(image) : x.k = k  BY <3>1
      <4>2. x \in Lines(r.list)  BY <2>8, <4>1 DEF Except
      <4>3. QED  BY <1>2, <2>7, <4>1, <4>2
    <3>2. CASE \A x \in Lines(image) : x.k # k
      <4>1. \A x \in Lines(r.list) : x.k # k  BY <2>8, <3>2 DEF Except
      <4>2. QED  BY <1>2, <2>7, <3>2, <4>1
    <3>3. QED  BY <3>1, <3>2
  <2>9. CASE c.op \in {"new", "create", "update"}
    <3> DEFINE X == {[k |-> c.k, v |-> c.v]}
               new == [old EXCEPT ![c.k] = c.v]
    <3>1. Lines(r.list) = Except(image, {c.k}) \cup X  BY <2>4, <2>6, <2>9 DEF Told
    <3>2. \A x \in X : x.k \in {c.k}  OBVIOUS
    <3>3. now[c.k] = c.v
      <4>1. [k |-> c.k, v |-> c.v] \in Lines(r.list)  BY <3>1
      <4>2. QED  BY <1>2, <4>1
    <3> HIDE DEF X
    <3>4. \A k \in Names : k # c.k => now[k] = old[k]  BY <2>8, <3>1, <3>2
    <3>5. new \in [Names -> Values \cup {None}] /\ \A k \in Names : now[k] = new[k]
      BY <2>5, <2>7, <2>9, <3>3, <3>4
    <3>6. now = new
      <4> HIDE DEF new
      <4>1. QED  BY <1>2, <3>5, SameContent
    <3>7. c.v \in Values  BY <2>5, <2>9
    <3>8. Effect(old, now)  BY <2>5, <2>7, <3>6, <3>7 DEF Effect
    <3>9. QED  BY <1>1, <3>8 DEF now, old
  <2>10. CASE c.op = "delete"
    <3> DEFINE new == [old EXCEPT ![c.k] = None]
    <3>1. Lines(r.list) = Except(image, {c.k})  BY <2>4, <2>6, <2>10 DEF Told
    <3>2. now[c.k] = None
      <4>1. \A x \in Lines(r.list) : x.k # c.k  BY <3>1 DEF Except
      <4>2. QED  BY <1>2, <2>5, <4>1
    <3>3. ASSUME NEW k \in Names, k # c.k  PROVE now[k] = old[k]
      <4> DEFINE X == {}
      <4>1. Lines(r.list) = Except(image, {c.k}) \cup X /\ \A x \in X : x.k \in {c.k}  BY <3>1
      <4> HIDE DEF X
      <4>2. QED  BY <2>8, <3>3, <4>1
    <3>4. new \in [Names -> Values \cup {None}] /\ \A k \in Names : now[k] = new[k]
      BY <2>5, <2>7, <3>2, <3>3
    <3>5. now = new
      <4> HIDE DEF new
      <4>1. QED  BY <1>2, <3>4, SameContent
    <3>6. QED  BY <1>1, <2>5, <2>7, <3>5 DEF Effect, now, old
  <2>11. CASE c.op = "delprefix"
    <3> DEFINE new == [k \in Names |-> IF k \in Prefixed[c.k] THEN None ELSE old[k]]
    <3>1. Lines(r.list) = Except(image, Prefixed[c.k])  BY <2>4, <2>6, <2>11 DEF Told
    <3>2. ASSUME NEW k \in Names, k \in Prefixed[c.k]  PROVE now[k] = None
      <4>1. \A x \in Lines(r.list) : x.k # k  BY <3>1, <3>2 DEF Except
      <4>2. QED  BY <1>2, <4>1
    <3>3. ASSUME NEW k \in Names, k \notin Prefixed[c.k]  PROVE now[k] = old[k]
      <4> DEFINE X == {}
      <4>1. Lines(r.list) = Except(image, Prefixed[c.k]) \cup X /\ \A x \in X : x.k \in Prefixed[c.k]
        BY <3>1
      <4> HIDE DEF X
      <4>2. QED  BY <2>8, <3>3, <4>1
    <3>4. new \in [Names -> Values \cup {None}] /\ \A k \in Names : now[k] = new[k]
      BY <2>7, <3>2, <3>3
    <3>5. now = new
      <4> HIDE DEF new
      <4>1. QED  BY <1>2, <3>4, SameContent
    <3>6. QED  BY <1>1, <2>5, <2>7, <3>5 DEF Effect, now, old
  <2>12. c.op # "show"  BY <2>4, <2>6 DEF Told
  <2>13. QED  BY <1>6, <2>5, <2>9, <2>10, <2>11, <2>12 DEF AllOps
<1>7. QED  BY <1>3, <1>4, <1>5, <1>6

\* The store of the only process: its copy while it writes, else the partition.
LEMMA StoreIs ==
    ASSUME Alone, NEW p \in Procs
    PROVE  StoreNow = IF pc[p] = "writing" THEN Content(tmp[p]) ELSE Content(flash)
<1>1. \A q \in Procs : q = p  BY DEF Alone
<1>2. CASE pc[p] = "writing"
  <2>1. (CHOOSE q \in Procs : pc[q] = "writing") = p  BY <1>1, <1>2
  <2>2. QED  BY <1>2, <2>1 DEF StoreNow
<1>3. CASE pc[p] # "writing"
  <2>1. ~ \E q \in Procs : pc[q] = "writing"  BY <1>1, <1>3
  <2>2. QED  BY <1>3, <2>1 DEF StoreNow
<1>4. QED  BY <1>2, <1>3

\* The same in the next state.
LEMMA StoreIsNext ==
    ASSUME Alone, NEW p \in Procs
    PROVE  StoreNow' = IF pc'[p] = "writing" THEN Content(tmp'[p]) ELSE Content(flash')
<1>1. \A q \in Procs : q = p  BY DEF Alone
<1>2. CASE pc'[p] = "writing"
  <2>1. (CHOOSE q \in Procs : pc'[q] = "writing") = p  BY <1>1, <1>2
  <2>2. QED  BY <1>2, <2>1 DEF StoreNow, Content
<1>3. CASE pc'[p] # "writing"
  <2>1. ~ \E q \in Procs : pc'[q] = "writing"  BY <1>1, <1>3
  <2>2. QED  BY <1>3, <2>1 DEF StoreNow, Content
<1>4. QED  BY <1>2, <1>3

\* Whether a command is about to write is a matter of the only process.
LEMMA ChangingIs ==
    ASSUME Alone, NEW p \in Procs
    PROVE  /\ Changing <=> pc[p] \in {"flush", "writing"}
           /\ Changing' <=> pc'[p] \in {"flush", "writing"}
<1>1. \A q \in Procs : q = p  BY DEF Alone
<1>2. Changing <=> pc[p] \in {"flush", "writing"}  BY <1>1 DEF Changing
<1>3. Changing' <=> pc'[p] \in {"flush", "writing"}  BY <1>1 DEF Changing
<1>4. QED  BY <1>2, <1>3

\* What a step is to the store.
Still == StoreNow' = StoreNow /\ (Changing' <=> Changing)
Begins == ~Changing /\ Changing' /\ StoreNow' = StoreNow
Ends ==
    /\ Changing /\ ~Changing'
    /\ Effect(StoreNow, StoreNow') \/ StoreNow' = Torn \/ StoreNow' = StoreNow

\* A step of the only process begins a change, ends it, or leaves the store
\* alone.
LEMMA StoreStep ==
    ASSUME Alone, Ample, LockInv, DataInv, AloneInv, [Next]_vars
    PROVE  Still \/ Begins \/ Ends
<1>1. ASSUME NEW p \in Procs
      PROVE  /\ StoreNow = IF pc[p] = "writing" THEN Content(tmp[p]) ELSE Content(flash)
             /\ StoreNow' = IF pc'[p] = "writing" THEN Content(tmp'[p]) ELSE Content(flash')
             /\ AloneOK(p) /\ pc \in [Procs -> Places]
             /\ Changing <=> pc[p] \in {"flush", "writing"}
             /\ Changing' <=> pc'[p] \in {"flush", "writing"}
  BY StoreIs, StoreIsNext, ChangingIs DEF AloneInv, LockInv
<1>2. ASSUME NEW p \in Procs, pc[p] \notin {"flush", "writing"},
             pc'[p] \notin {"flush", "writing"}, flash' = flash
      PROVE  Still
  BY <1>1, <1>2 DEF Still
<1>3. ASSUME NEW p \in Procs, NEW c \in Command, mtd_2_tmp(p, c) \/ CopyFails(p, c)
      PROVE  Still
  <2>1. /\ pc[p] \notin {"flush", "writing"} /\ pc'[p] \notin {"flush", "writing"}
        /\ flash' = flash
    BY <1>1, <1>3 DEF mtd_2_tmp, CopyFails
  <2>2. QED  BY <1>2, <2>1
<1>4. ASSUME NEW p \in Procs, Open(p) \/ Flock(p) \/ LockFails(p) \/ Unlock(p) \/ Unlink(p)
      PROVE  Still
  <2>1. /\ pc[p] \notin {"flush", "writing"} /\ pc'[p] \notin {"flush", "writing"}
        /\ flash' = flash
    BY <1>1, <1>4 DEF Open, Flock, LockFails, Unlock, Unlink
  <2>2. QED  BY <1>2, <2>1
<1>5. ASSUME NEW p \in Procs, Apply(p)  PROVE Still \/ Begins
  <2>1. PICK place \in {"flush", "flushed"} : pc' = [pc EXCEPT ![p] = place]  BY <1>5 DEF Apply
  <2>2. pc[p] = "inside" /\ pc'[p] = place /\ flash' = flash  BY <1>1, <1>5, <2>1 DEF Apply
  <2>3. CASE place = "flushed"  BY <1>2, <2>2, <2>3
  <2>4. CASE place = "flush"
    <3>1. StoreNow' = StoreNow  BY <1>1, <2>2, <2>4
    <3>2. ~Changing /\ Changing'  BY <1>1, <2>2, <2>4
    <3>3. QED  BY <3>1, <3>2 DEF Begins
  <2>5. QED  BY <2>3, <2>4
<1>6. ASSUME NEW p \in Procs, WriteBegin(p)  PROVE Still
  <2>1. pc[p] = "flush" /\ pc'[p] = "writing" /\ tmp' = tmp  BY <1>1, <1>6 DEF WriteBegin
  <2>2. tmp[p] = flash  BY <1>1, <2>1 DEF AloneOK
  <2>3. StoreNow' = StoreNow  BY <1>1, <2>1, <2>2
  <2>4. Changing /\ Changing'  BY <1>1, <2>1
  <2>5. QED  BY <2>3, <2>4 DEF Still
<1>7. ASSUME NEW p \in Procs, WriteEnd(p)  PROVE Ends
  <2> DEFINE r == execute(cmd[p], tmp[p])
  <2>1. pc[p] = "writing" /\ pc'[p] = "flushed"  BY <1>1, <1>7 DEF WriteEnd
  <2>2. Planned(p) /\ ~overlap[p]  BY <1>1, <2>1 DEF AloneOK
  <2>3. flash' = part_line_wirte(list[p])  BY <1>7, <2>2 DEF WriteEnd
  <2>4. r.dirty /\ list[p] = r.list  BY <2>2 DEF Planned
  <2>5. cmd[p] \in Command /\ tmp[p] \in Image /\ Clean(tmp[p])  BY <2>1 DEF DataInv, WorkOK
  <2>6. Effect(Content(tmp[p]), Content(part_line_wirte(r.list)))  BY <2>4, <2>5, DirtyEffect
  <2> HIDE DEF r
  <2>7. StoreNow = Content(tmp[p]) /\ StoreNow' = Content(part_line_wirte(r.list))
    BY <1>1, <2>1, <2>3, <2>4
  <2>8. Changing /\ ~Changing'  BY <1>1, <2>1
  <2>9. QED  BY <2>6, <2>7, <2>8 DEF Ends
<1>8. ASSUME NEW p \in Procs, WriteFails(p)  PROVE Ends
  <2>1. pc[p] = "flush" /\ pc'[p] = "flushed" /\ flash' \in {flash, Torn}
    BY <1>1, <1>8 DEF WriteFails
  <2>2. Changing /\ ~Changing'  BY <1>1, <2>1
  <2>3. CASE flash' = flash
    <3>1. StoreNow' = StoreNow  BY <1>1, <2>1, <2>3
    <3>2. QED  BY <2>2, <3>1 DEF Ends
  <2>4. CASE flash' = Torn
    <3>1. StoreNow' = Torn  BY <1>1, <2>1, <2>4, ContentEnds
    <3>2. QED  BY <2>2, <3>1 DEF Ends
  <2>5. QED  BY <2>1, <2>3, <2>4
<1>9. ASSUME PowerLoss, NEW p \in Procs  PROVE Still \/ Ends
  <2>1. pc'[p] = "idle" /\ flash' = flash  BY <1>9 DEF PowerLoss
  <2>2. CASE pc[p] = "writing"
    <3>1. flash = Torn  BY <1>1, <2>2 DEF AloneOK
    <3>2. StoreNow' = Torn  BY <1>1, <2>1, <3>1, ContentEnds
    <3>3. Changing /\ ~Changing'  BY <1>1, <2>1, <2>2
    <3>4. QED  BY <3>2, <3>3 DEF Ends
  <2>3. CASE pc[p] = "flush"
    <3>1. StoreNow' = StoreNow  BY <1>1, <2>1, <2>3
    <3>2. Changing /\ ~Changing'  BY <1>1, <2>1, <2>3
    <3>3. QED  BY <3>1, <3>2 DEF Ends
  <2>4. CASE pc[p] \notin {"flush", "writing"}  BY <1>2, <2>1, <2>4
  <2>5. QED  BY <2>2, <2>3, <2>4
<1>10. CASE PowerLoss
  <2>1. CASE Procs = {}
    <3>1. StoreNow = Content(flash)  BY <2>1 DEF StoreNow
    <3>2. StoreNow' = Content(flash')  BY <2>1 DEF StoreNow, Content
    <3>3. flash' = flash /\ ~Changing /\ ~Changing'  BY <1>10, <2>1 DEF PowerLoss, Changing
    <3>4. QED  BY <3>1, <3>2, <3>3 DEF Still
  <2>2. CASE Procs # {}
    <3>1. PICK p \in Procs : TRUE  BY <2>2
    <3>2. QED  BY <1>9, <1>10, <3>1
  <2>3. QED  BY <2>1, <2>2
<1>11. CASE UNCHANGED vars
  <2>1. StoreNow' = StoreNow  BY <1>11 DEF vars, StoreNow, Content
  <2>2. Changing' <=> Changing  BY <1>11 DEF vars, Changing
  <2>3. QED  BY <2>1, <2>2 DEF Still
<1>12. QED
  BY <1>3, <1>4, <1>5, <1>6, <1>7, <1>8, <1>10, <1>11 DEF Next, Step

\* Commands that do not overlap implement the store of variables: every
\* command takes effect at once or not at all, whatever step the power fails
\* at and whatever copy, lock or write fails; only a write that is cut short
\* damages the partition, and nothing but a write changes it.
THEOREM PartitionIsStore == ASSUME Alone, Ample PROVE Spec => IsStore
<1>1. Init => kv!KvInit
  <2> SUFFICES ASSUME Init  PROVE StoreNow = [k \in Names |-> None] /\ Changing = FALSE
    BY DEF kv!KvInit, kv!Unset
  <2>1. ~ \E p \in Procs : pc[p] = "writing"  BY DEF Init
  <2>2. StoreNow = Content(<<>>)  BY <2>1 DEF StoreNow, Init
  <2>3. Changing = FALSE  BY DEF Init, Changing
  <2>4. QED  BY <2>2, <2>3, ContentEnds
<1>2. LockInv /\ DataInv /\ AloneInv /\ [Next]_vars => [kv!KvNext]_(kv!kvVars)
  <2> SUFFICES ASSUME LockInv, DataInv, AloneInv, [Next]_vars
               PROVE  kv!KvNext \/ (StoreNow' = StoreNow /\ Changing' = Changing)
    BY DEF kv!kvVars
  <2>1. Still \/ Begins \/ Ends  BY StoreStep
  <2>2. CASE Still
    <3>1. Changing' = Changing  BY <2>2 DEF Still, Changing
    <3>2. QED  BY <2>2, <3>1 DEF Still
  <2>3. CASE Begins
    <3>1. Changing' = TRUE  BY <2>3 DEF Begins, Changing
    <3>2. QED  BY <2>3, <3>1 DEF Begins, kv!KvNext, kv!Begin
  <2>4. CASE Ends
    <3>1. Changing' = FALSE  BY <2>4 DEF Ends, Changing
    <3>2. kv!Set \/ kv!Delete \/ kv!DeletePrefix \/ kv!Empty \/ kv!Damage \/ kv!GiveUp
      BY <2>4 DEF Ends, Effect, kv!Set, kv!Delete, kv!DeletePrefix, kv!Empty, kv!Damage,
                  kv!GiveUp, kv!Unset
    <3>3. QED  BY <2>4, <3>1, <3>2 DEF Ends, kv!KvNext, kv!End
  <2>5. QED  BY <2>1, <2>2, <2>3, <2>4
<1>3. QED  BY <1>1, <1>2, LocksCorrect, DataCorrect, AloneCorrect, PTL DEF Spec, IsStore, kv!KvSpec
=============================================================================
