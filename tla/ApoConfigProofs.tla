-------------------------- MODULE ApoConfigProofs --------------------------
(***************************************************************************)
(* config.txt after any sequence of writes: proofs about ApoConfig, for files *)
(* of every length, nesting and number of filters and plug-in rows.          *)
(*                                                                          *)
(* The argument.  Layout reads a file the way a person does: nesting, stage  *)
(* in force, blocks of the old Setup.  In a file laid out well it agrees with *)
(* what has_capture_scoped_echonull tracks and with what Equalizer APO does   *)
(* (WellLaidOut), so a file the code accepts is safe.  Alike compares two     *)
(* files by what they run; one row more on both sides, a Stage row more on one *)
(* side, a rewritten Stage row and a replaced block all keep it.  Following   *)
(* the code loop by loop (CollapseIs, LoopIs, RemoveIs, UnwrapIs) gives what  *)
(* an installation (InstallIs) and a removal (RemoveIs) write, and FileInv is *)
(* the invariant that lets the next write start from there.                  *)
(*                                                                          *)
(* Each loop of the code is a recursive function over the rows; the facts     *)
(* named ...Fold say that the function exists and takes one step per row.    *)
(* Induction over rows is UpTo: it is about a set of indices, from the least  *)
(* element of its complement.                                               *)
(***************************************************************************)
EXTENDS ApoConfig, SequenceTheorems, WellFoundedInduction, TLAPS

\* The layout of a file: how its rows are nested and which stage is in force.
\* depth counts the open conditions, now is the Stage row written last and base
\* the one before the outermost open condition; mark is the row of the old
\* Setup's block that was read last (0: outside), plain says there was no marker
\* at all.  ok: every block is whole, and no Stage row in a branch outlives it.
LayoutStart == [depth |-> 0, now |-> Mixed, base |-> Mixed, mark |-> 0,
                plain |-> TRUE, ok |-> TRUE]
\* The place in the block after a row, and the rows that may stand there.
MarkAfter(mark, row) ==
  CASE mark = 0 -> IF row = BeginMarker THEN 1 ELSE 0
    [] mark = 1 -> 2
    [] mark = 2 -> 3
    [] mark = 3 -> 4
    [] mark = 4 -> 0
MarkFits(mark, row) ==
  CASE mark = 0 -> row # EndMarker
    [] mark = 1 -> row = IfCapture
    [] mark = 2 -> IsPlugin(row)
    [] mark = 3 -> row = EndIf
    [] mark = 4 -> row = EndMarker
LayoutStep(g, row) ==
  [depth |-> CASE row \in {IfCapture, IfOther} -> g.depth + 1
               [] row = EndIf /\ g.depth > 0 -> g.depth - 1
               [] OTHER -> g.depth,
   now |-> IF row \in Stages THEN row ELSE g.now,
   base |-> IF row \in {IfCapture, IfOther} /\ g.depth = 0 THEN g.now ELSE g.base,
   mark |-> MarkAfter(g.mark, row),
   plain |-> g.plain /\ row \notin {BeginMarker, EndMarker},
   ok |-> /\ g.ok /\ MarkFits(g.mark, row)
          /\ row \in {IfCapture, IfOther} => g.depth = 0 \/ g.now = g.base
          /\ row \in {Else, EndIf} => g.depth > 0 /\ g.now = g.base]
Layout(rows) == Scan(LayoutStep, LayoutStart, rows)

\* A set of naturals that has an element has a least one.
LEMMA LeastElement ==
  ASSUME NEW T, T \subseteq Nat, T # {}
  PROVE  \E x \in T : \A y \in T : x <= y
<1>1. PICK x \in T : \A y \in T : <<y, x>> \notin OpToRel(<, Nat)
  BY NatLessThanWellFounded, WFMin
<1>2. \A y \in T : ~(y < x)
  BY <1>1 DEF OpToRel
<1>3. \A y \in T : y \in Nat
  OBVIOUS
<1>4. \A y \in T : x <= y
  BY <1>2, <1>3
<1>. QED
  BY <1>4

\* What holds of 0 and passes from i - 1 to i holds up to n.  This is the induction
\* of the whole module: over a set of indices, never over a predicate.
LEMMA UpTo ==
  ASSUME NEW n \in Nat, NEW T, 0 \in T,
         \A i \in 1..n : i - 1 \in T => i \in T
  PROVE  \A i \in 0..n : i \in T
<1> DEFINE U == (0..n) \ T
<1>1. SUFFICES ASSUME U # {} PROVE FALSE
  OBVIOUS
<1>2. U \subseteq Nat
  OBVIOUS
<1> HIDE DEF U
<1>3. PICK x \in U : \A y \in U : x <= y
  BY <1>1, <1>2, LeastElement
<1>4. x \in 1..n /\ x - 1 \in 0..n /\ x - 1 \notin U
  BY <1>3 DEF U
<1>. QED
  BY <1>3, <1>4 DEF U

\* f is the run of length n from a under the steps step[1], step[2], ...
IsSteps(step, n, S) == step \in [1..n -> [S -> S]]
IsIteration(f, step, a, n, S) ==
  /\ f \in [0..n -> S] /\ f[0] = a
  /\ \A i \in 1..n : f[i] = step[i][f[i - 1]]

\* Steps that stay in S can be taken n times.
LEMMA Iterate ==
  ASSUME NEW n \in Nat, NEW S, NEW a \in S, NEW step, IsSteps(step, n, S)
  PROVE  \E f : IsIteration(f, step, a, n, S)
<1> DEFINE T == {k \in 0..n : \E f : IsIteration(f, step, a, k, S)}
<1>1. 0 \in T
  <2> DEFINE f == [i \in 0..0 |-> a]
  <2>1. f \in [0..0 -> S] /\ f[0] = a
    OBVIOUS
  <2> HIDE DEF f
  <2>2. IsIteration(f, step, a, 0, S)
    BY <2>1 DEF IsIteration
  <2>. QED
    BY <2>2
<1>2. ASSUME NEW i \in 1..n, i - 1 \in T PROVE i \in T
  <2>1. PICK f : IsIteration(f, step, a, i - 1, S)
    BY <1>2
  <2>2. /\ f \in [0..(i - 1) -> S] /\ f[0] = a
        /\ \A j \in 1..(i - 1) : f[j] = step[j][f[j - 1]]
    BY <2>1 DEF IsIteration
  <2> DEFINE v == step[i][f[i - 1]]
             g == [j \in 0..i |-> IF j = i THEN v ELSE f[j]]
  <2>3. f[i - 1] \in S
    BY <2>2
  <2>4. v \in S
    BY <2>3 DEF IsSteps
  <2> HIDE DEF v
  <2>5. g \in [0..i -> S]
    BY <2>2, <2>4
  <2>6. g[0] = a
    BY <2>2
  <2>7. g[i] = v /\ g[i - 1] = f[i - 1]
    OBVIOUS
  <2>8. ASSUME NEW j \in 1..(i - 1) PROVE g[j] = step[j][g[j - 1]]
    <3>1. g[j] = f[j] /\ g[j - 1] = f[j - 1]
      OBVIOUS
    <3>. QED
      BY <2>2, <3>1
  <2> HIDE DEF g
  <2>9. \A j \in 1..i : g[j] = step[j][g[j - 1]]
    <3>1. \A j \in 1..i : j = i \/ j \in 1..(i - 1)
      OBVIOUS
    <3>. QED
      BY <2>7, <2>8, <3>1 DEF v
  <2>10. IsIteration(g, step, a, i, S)
    BY <2>5, <2>6, <2>9 DEF IsIteration
  <2>. QED
    BY <2>10
<1>3. n \in T
  <2> HIDE DEF T
  <2>1. \A i \in 0..n : i \in T
    BY <1>1, <1>2, UpTo
  <2>. QED
    BY <2>1
<1>. QED
  BY <1>3

\* A step takes a state and a row to the next state; the run over the first n
\* rows of q is unique.
\* The first n elements of q are in R.
AreRows(q, n, R) == \A i \in 1..n : q[i] \in R
IsStep(step, S, R) == step \in [S -> [R -> S]]
IsRun(f, step, a, q, n, S) ==
  /\ f \in [0..n -> S] /\ f[0] = a
  /\ \A i \in 1..n : f[i] = step[f[i - 1]][q[i]]
Path(step, a, q, n) ==
  CHOOSE f : f = [i \in 0..n |-> IF i = 0 THEN a ELSE step[f[i - 1]][q[i]]]

\* The function a scan defines by recursion exists, and follows its steps.
LEMMA PathIs ==
  ASSUME NEW R, NEW S, NEW a \in S, NEW step, IsStep(step, S, R),
         NEW n \in Nat, NEW q, AreRows(q, n, R)
  PROVE  IsRun(Path(step, a, q, n), step, a, q, n, S)
<1> DEFINE st == [i \in 1..n |-> [s \in S |-> step[s][q[i]]]]
<1>1. IsSteps(st, n, S)
  BY DEF IsStep, IsSteps, AreRows
<1>2. \A i \in 1..n, s \in S : st[i][s] = step[s][q[i]]
  OBVIOUS
<1> HIDE DEF st
<1>3. PICK f : IsIteration(f, st, a, n, S)
  BY <1>1, Iterate
<1>4. ASSUME NEW i \in 1..n PROVE f[i] = step[f[i - 1]][q[i]]
  <2>1. f[i - 1] \in S /\ f[i] = st[i][f[i - 1]]
    BY <1>3 DEF IsIteration
  <2>. QED
    BY <1>2, <2>1
<1>5. f = [i \in 0..n |-> IF i = 0 THEN a ELSE step[f[i - 1]][q[i]]]
  <2>1. \A i \in 0..n : i = 0 \/ i \in 1..n
    OBVIOUS
  <2>2. \A i \in 0..n : f[i] = IF i = 0 THEN a ELSE step[f[i - 1]][q[i]]
    BY <1>3, <1>4, <2>1 DEF IsIteration
  <2>. QED
    BY <1>3, <2>2 DEF IsIteration
<1> DEFINE g == Path(step, a, q, n)
<1>6. g = [i \in 0..n |-> IF i = 0 THEN a ELSE step[g[i - 1]][q[i]]]
  BY <1>5 DEF Path
<1> HIDE DEF g
<1>7. g[0] = a
  <2>1. 0 \in 0..n
    OBVIOUS
  <2>. QED
    BY <1>6, <2>1
<1>8. ASSUME NEW i \in 1..n PROVE g[i] = step[g[i - 1]][q[i]]
  <2>1. i \in 0..n /\ i # 0
    OBVIOUS
  <2>. QED
    BY <1>6, <2>1
<1> DEFINE T == {i \in 0..n : g[i] \in S}
<1>9. 0 \in T
  BY <1>7
<1>10. ASSUME NEW i \in 1..n, i - 1 \in T PROVE i \in T
  <2>1. i \in 0..n /\ g[i - 1] \in S /\ q[i] \in R
    BY <1>10 DEF AreRows
  <2>2. step[g[i - 1]][q[i]] \in S
    BY <2>1 DEF IsStep
  <2>. QED
    BY <2>1, <2>2, <1>8
<1>11. \A i \in 0..n : i \in T
  <2> HIDE DEF T
  <2>. QED
    BY <1>9, <1>10, UpTo
<1>12. g \in [0..n -> S]
  <2>1. \A i \in 0..n : g[i] \in S
    BY <1>11
  <2>. QED
    BY <2>1, <1>6
<1>. QED
  BY <1>7, <1>8, <1>12 DEF g, IsRun

Follows(f, step, a, q, n, S) ==
  /\ f[0] = a
  /\ \A i \in 1..n : f[i - 1] \in S => f[i] = step[f[i - 1]][q[i]]

\* Whatever starts the same and takes the same steps ends the same.
LEMMA PathUnique ==
  ASSUME NEW R, NEW S, NEW a \in S, NEW step, IsStep(step, S, R),
         NEW n \in Nat, NEW q, AreRows(q, n, R),
         NEW f, Follows(f, step, a, q, n, S)
  PROVE  f[n] = Path(step, a, q, n)[n]
<1> DEFINE g == Path(step, a, q, n)
           T == {i \in 0..n : f[i] = g[i]}
<1>1. IsRun(g, step, a, q, n, S)
  BY PathIs
<1> HIDE DEF g
<1>2. 0 \in T
  BY <1>1 DEF IsRun, Follows
<1>3. ASSUME NEW i \in 1..n, i - 1 \in T PROVE i \in T
  <2>1. g[i - 1] \in S /\ f[i - 1] = g[i - 1] /\ i \in 0..n
    BY <1>1, <1>3 DEF IsRun
  <2>2. f[i] = step[f[i - 1]][q[i]] /\ g[i] = step[g[i - 1]][q[i]]
    BY <2>1, <1>1 DEF IsRun, Follows
  <2>. QED
    BY <2>1, <2>2
<1>4. \A i \in 0..n : i \in T
  <2> HIDE DEF T
  <2>. QED
    BY <1>2, <1>3, UpTo
<1>5. n \in T
  <2> HIDE DEF T
  <2>. QED
    BY <1>4
<1>. QED
  BY <1>5 DEF g

\* The state after the last row.
Final(step, a, q) == Path(step, a, q, Len(q))[Len(q)]

\* What a fold over rows is, from the end.
LEMMA FinalStep ==
  ASSUME NEW R, NEW S, NEW a \in S, NEW step, IsStep(step, S, R)
  PROVE  /\ Final(step, a, <<>>) = a
         /\ \A q \in Seq(R) : Final(step, a, q) \in S
         /\ \A q \in Seq(R), r \in R :
              Final(step, a, Append(q, r)) = step[Final(step, a, q)][r]
<1>1. Final(step, a, <<>>) = a
  <2>1. Len(<<>>) = 0 /\ AreRows(<<>>, 0, R)
    BY EmptySeq DEF AreRows
  <2>2. IsRun(Path(step, a, <<>>, 0), step, a, <<>>, 0, S)
    BY <2>1, PathIs
  <2>. QED
    BY <2>1, <2>2 DEF Final, IsRun
<1>2. ASSUME NEW q \in Seq(R) PROVE Final(step, a, q) \in S
  <2>1. PICK n \in Nat : n = Len(q) /\ AreRows(q, n, R)
    BY LenProperties, ElementOfSeq DEF AreRows
  <2>2. IsRun(Path(step, a, q, n), step, a, q, n, S)
    BY <2>1, PathIs
  <2>3. Path(step, a, q, n)[n] \in S
    BY <2>2 DEF IsRun
  <2>. QED
    BY <2>1, <2>3 DEF Final
<1>3. ASSUME NEW q \in Seq(R), NEW r \in R
      PROVE  Final(step, a, Append(q, r)) = step[Final(step, a, q)][r]
  <2>1. PICK n \in Nat : n = Len(q) /\ AreRows(q, n, R)
    BY LenProperties, ElementOfSeq DEF AreRows
  <2> DEFINE p == Append(q, r)
  <2>2. Len(p) = n + 1 /\ p[n + 1] = r /\ \A i \in 1..n : p[i] = q[i]
    BY <2>1, AppendProperties
  <2> HIDE DEF p
  <2>3. AreRows(p, n + 1, R)
    <3>1. \A i \in 1..(n + 1) : i = n + 1 \/ i \in 1..n
      OBVIOUS
    <3>. QED
      BY <2>1, <2>2, <3>1 DEF AreRows
  <2> DEFINE f == Path(step, a, p, n + 1)
  <2>4. IsRun(f, step, a, p, n + 1, S)
    BY <2>3, PathIs
  <2> HIDE DEF f
  <2>5. f[0] = a /\ \A i \in 1..(n + 1) : f[i] = step[f[i - 1]][p[i]]
    BY <2>4 DEF IsRun
  <2>6. Follows(f, step, a, q, n, S)
    BY <2>2, <2>5 DEF Follows
  <2>8. f[n] = Path(step, a, q, n)[n]
    BY <2>1, <2>6, PathUnique
  <2>9. f[n + 1] = step[f[n]][r]
    <3>1. n + 1 \in 1..(n + 1) /\ (n + 1) - 1 = n
      OBVIOUS
    <3>. QED
      BY <2>2, <2>5, <3>1
  <2>10. Final(step, a, p) = f[n + 1]
    BY <2>2 DEF Final, f
  <2>11. Final(step, a, q) = Path(step, a, q, n)[n]
    BY <2>1 DEF Final
  <2>. QED
    BY <2>8, <2>9, <2>10, <2>11 DEF p
<1>. QED
  BY <1>1, <1>2, <1>3

\* Induction over the rows: what holds of the empty file and is kept by one more
\* row holds of every file.
LEMMA SeqInduction ==
  ASSUME NEW R, NEW T, <<>> \in T,
         \A q \in Seq(R), r \in R : q \in T => Append(q, r) \in T
  PROVE  \A q \in Seq(R) : q \in T
<1> SUFFICES ASSUME NEW q \in Seq(R) PROVE q \in T
  OBVIOUS
<1>1. PICK n \in Nat : n = Len(q) /\ \A i \in 1..n : q[i] \in R
  BY LenProperties, ElementOfSeq
<1> DEFINE p(i) == SubSeq(q, 1, i)
           K == {i \in 0..n : p(i) \in T}
<1>2. ASSUME NEW i \in 0..n PROVE p(i) \in Seq(R)
  <2>1. \A j \in 1..i : q[j] \in R
    BY <1>1
  <2>. QED
    BY <2>1, SubSeqProperties
<1>3. p(0) = <<>>
  BY SubSeqEmpty
<1>4. ASSUME NEW i \in 1..n PROVE p(i) = Append(p(i - 1), q[i])
  <2>1. p(i) = p(i - 1) \o <<q[i]>>
    <3>1. 1 \in 1..Len(q) /\ i \in 1..Len(q)
      BY <1>1
    <3>. QED
      BY <3>1, SubSeqRecursiveSecond
  <2>2. p(i - 1) \in Seq(R) /\ q[i] \in R
    BY <1>1, <1>2
  <2> HIDE DEF p
  <2>. QED
    BY <2>1, <2>2, AppendIsConcat
<1>5. p(n) = q
  BY <1>1, SubSeqFull
<1> HIDE DEF p
<1>6. 0 \in K
  BY <1>3
<1>7. ASSUME NEW i \in 1..n, i - 1 \in K PROVE i \in K
  <2>1. p(i - 1) \in T /\ p(i - 1) \in Seq(R) /\ q[i] \in R /\ i \in 0..n
    BY <1>1, <1>2, <1>7
  <2>2. p(i) \in T
    BY <2>1, <1>4
  <2>. QED
    BY <2>1, <2>2
<1>8. \A i \in 0..n : i \in K
  <2> HIDE DEF K
  <2>. QED
    BY <1>6, <1>7, UpTo
<1>9. n \in K
  <2> HIDE DEF K
  <2>. QED
    BY <1>8
<1>. QED
  BY <1>5, <1>9

-----------------------------------------------------------------------------
(* Types.                                                                   *)

Layouts == [depth : Nat, now : Stages, base : Stages, mark : 0..4,
            plain : BOOLEAN, ok : BOOLEAN]
Frames == Seq([capture : BOOLEAN, active : BOOLEAN])
Scopes == [stage : BOOLEAN, found : BOOLEAN, ok : BOOLEAN, frames : Frames]
Loops == [out : Seq(Rows), frames : Frames, reusable : Nat, original : Stages,
          restore : Stages \union {NoRow}, captureOnly : BOOLEAN, found : BOOLEAN]
Removals == [out : Seq(Rows), owned : BOOLEAN]
NoRows == <<>>
ApoStages == {"capture", "post-mix"}
RunStates == [open : Seq(BOOLEAN), stages : SUBSET ApoStages, out : Seq(Rows)]

\* A row is of one kind.
LEMMA RowKinds ==
  ASSUME NEW r \in Rows
  PROVE  /\ r \in Comments => r \notin Stages /\ r \notin Plugins /\ r \notin Filters
                              /\ r \notin {IfCapture, IfOther, Else, EndIf}
         /\ r \in Stages => r \notin Plugins /\ r \notin Filters
                            /\ r \notin {IfCapture, IfOther, Else, EndIf}
         /\ r \in Plugins => r \notin Filters
                             /\ r \notin {IfCapture, IfOther, Else, EndIf}
         /\ r \in Filters => r \notin {IfCapture, IfOther, Else, EndIf}
         /\ r \in {IfCapture, IfOther, Else, EndIf} \/ r \in Comments
              \/ r \in Stages \/ r \in Plugins \/ r \in Filters
<1> DEFINE Conditions == {IfCapture, IfOther, Else, EndIf}
<1>a. \A x \in Plugins : x[1] = "plugin"
  BY DEF Plugins
<1>b. \A x \in Filters : x[1] = "filter"
  BY DEF Filters
<1>c. \A x \in Comments :
        x[1] \in {"#", "# EchoNull setup begin", "# EchoNull setup end"}
  <2>1. /\ Comment[1] = "#" /\ BeginMarker[1] = "# EchoNull setup begin"
        /\ EndMarker[1] = "# EchoNull setup end"
    BY DEF Row, Comment, BeginMarker, EndMarker
  <2>. QED
    BY <2>1 DEF Comments
<1>d. \A x \in Stages :
        x[1] \in {"Stage: capture", "Stage: post-mix capture", "Stage: post-mix"}
  <2>1. /\ Capture[1] = "Stage: capture" /\ PostMix[1] = "Stage: post-mix"
        /\ Mixed[1] = "Stage: post-mix capture"
    BY DEF Row, Capture, Mixed, PostMix
  <2>. QED
    BY <2>1 DEF Stages
<1>e. \A x \in Conditions :
        x[1] \in {"If: stage == capture", "If: other", "Else:", "EndIf:"}
  <2>1. /\ IfCapture[1] = "If: stage == capture" /\ IfOther[1] = "If: other"
        /\ Else[1] = "Else:" /\ EndIf[1] = "EndIf:"
    BY DEF Row, IfCapture, IfOther, Else, EndIf
  <2>. QED
    BY <2>1
<1> HIDE DEF Conditions
<1>1. \A x \in Comments : x \notin Stages /\ x \notin Plugins /\ x \notin Filters
                          /\ x \notin Conditions
  BY <1>a, <1>b, <1>c, <1>d, <1>e
<1>2. \A x \in Stages : x \notin Plugins /\ x \notin Filters /\ x \notin Conditions
  BY <1>a, <1>b, <1>d, <1>e
<1>3. \A x \in Conditions : x \notin Plugins /\ x \notin Filters
  BY <1>a, <1>b, <1>e
<1>4. \A x \in Plugins : x \notin Filters
  BY <1>a, <1>b
<1>5. r \in {IfCapture, IfOther, Else, EndIf} \/ r \in Comments
        \/ r \in Stages \/ r \in Plugins \/ r \in Filters
  BY DEF Rows
<1>. QED
  BY <1>1, <1>2, <1>3, <1>4, <1>5 DEF Conditions

\* The rows that are compared are different.
LEMMA RowsDiffer ==
  /\ IfCapture # IfOther /\ IfCapture # Else /\ IfCapture # EndIf
  /\ IfOther # Else /\ IfOther # EndIf /\ Else # EndIf
  /\ BeginMarker # EndMarker /\ Comment # BeginMarker /\ Comment # EndMarker
  /\ Capture # Mixed /\ Capture # PostMix /\ Mixed # PostMix
  /\ NoRow \notin Rows
BY DEF Rows, Row, Comments, Stages, Plugins, Filters, IfCapture, IfOther, Else,
       EndIf, Comment, BeginMarker, EndMarker, Capture, Mixed, PostMix, NoRow

\* The named rows are rows, of their kinds.
LEMMA RowsAre ==
  /\ Comments \subseteq Rows /\ Stages \subseteq Rows /\ Plugins \subseteq Rows
  /\ Filters \subseteq Rows
  /\ IfCapture \in Rows /\ IfOther \in Rows /\ Else \in Rows /\ EndIf \in Rows
  /\ Comment \in Comments /\ BeginMarker \in Comments /\ EndMarker \in Comments
  /\ Capture \in Stages /\ Mixed \in Stages /\ PostMix \in Stages
  /\ \A r \in Comments : r \in {Comment, BeginMarker, EndMarker}
BY DEF Rows, Comments, Stages

\* A function on 1..n is a sequence of length n.
LEMMA SeqIs ==
  ASSUME NEW S, NEW n \in Nat, NEW t \in [1..n -> S]
  PROVE  t \in Seq(S) /\ Len(t) = n
OBVIOUS

\* All but the last element.
LEMMA FrontIs ==
  ASSUME NEW S, NEW s \in Seq(S), s # <<>>
  PROVE  /\ Front(s) \in Seq(S) /\ Len(Front(s)) = Len(s) - 1
         /\ \A k \in 1..(Len(s) - 1) : Front(s)[k] = s[k]
         /\ Last(s) = s[Len(s)] /\ Last(s) \in S /\ Len(s) \in Nat \ {0}
<1>1. Len(s) \in Nat \ {0}
  BY EmptySeq
<1>2. \A i \in 1..(Len(s) - 1) : s[i] \in S
  BY <1>1, ElementOfSeq
<1> DEFINE m == Len(s) - 1
           f == SubSeq(s, 1, m)
<1>a. m \in Int /\ m \in Nat /\ \A i \in 1..m : s[i] \in S
  BY <1>1, <1>2
<1> HIDE DEF m
<1>b. /\ f \in Seq(S) /\ Len(f) = IF 1 <= m THEN m - 1 + 1 ELSE 0
      /\ \A i \in 1..(m - 1 + 1) : f[i] = s[1 + i - 1]
  BY <1>a, SubSeqProperties
<1>c. f = Front(s)
  BY DEF Front, m
<1> HIDE DEF f
<1>3. Front(s) \in Seq(S) /\ Len(Front(s)) = Len(s) - 1
  BY <1>a, <1>b, <1>c DEF m
<1>4. \A k \in 1..(Len(s) - 1) : Front(s)[k] = s[k]
  BY <1>a, <1>b, <1>c DEF m
<1>5. Last(s) = s[Len(s)] /\ Last(s) \in S
  BY <1>1, ElementOfSeq DEF Last
<1>. QED
  BY <1>1, <1>3, <1>4, <1>5

\* Front takes back what Append added.
LEMMA FrontAppend ==
  ASSUME NEW S, NEW s \in Seq(S), NEW e \in S
  PROVE  Append(s, e) # <<>> /\ Front(Append(s, e)) = s
<1> DEFINE a == Append(s, e)
<1>1. /\ a \in Seq(S) /\ a # <<>> /\ Len(a) = Len(s) + 1 /\ Len(s) \in Nat
      /\ \A k \in 1..Len(s) : a[k] = s[k]
  BY AppendProperties, LenProperties
<1> HIDE DEF a
<1>2. /\ Front(a) \in Seq(S) /\ Len(Front(a)) = Len(a) - 1
      /\ \A k \in 1..(Len(a) - 1) : Front(a)[k] = a[k]
  BY <1>1, FrontIs
<1>3. Len(Front(a)) = Len(s)
  BY <1>1, <1>2
<1>4. \A k \in 1..Len(s) : Front(a)[k] = s[k]
  BY <1>1, <1>2
<1>5. Front(a) = s
  BY <1>2, <1>3, <1>4, SeqEqual
<1>. QED
  BY <1>1, <1>5 DEF a

\* What a row makes of the conditions around it: t is what it makes of f,
Tracked(f, t, r) ==
  /\ t \in Frames
  /\ r \in {IfCapture, IfOther} =>
       \E w \in [capture : BOOLEAN, active : BOOLEAN] :
         t = Append(f, w) /\ (w.capture => r = IfCapture)
  /\ r = Else =>
       /\ Len(t) = Len(f)
       /\ \A k \in 1..Len(f) : /\ k # Len(f) => t[k] = f[k]
                               /\ k = Len(f) => ~(t[k].capture /\ t[k].active)
  /\ r = EndIf /\ f # <<>> => t = Front(f)
  /\ r \notin {IfCapture, IfOther, Else, EndIf} => t = f

\* and b what it makes of open.
Branched(open, b, r, stage, condition) ==
  /\ b \in Seq(BOOLEAN)
  /\ r \in {IfCapture, IfOther} =>
       \E v \in BOOLEAN :
         b = Append(open, v) /\ (r = IfCapture /\ stage = "post-mix" => ~v)
  /\ r = Else =>
       /\ Len(b) = Len(open)
       /\ \A k \in 1..Len(open) : k # Len(open) => b[k] = open[k]
  /\ r = EndIf /\ open # <<>> => b = Front(open)
  /\ r \notin {IfCapture, IfOther, Else, EndIf} => b = open

\* Track keeps its frames a sequence of frames and does what Tracked says.
LEMMA TrackIs ==
  ASSUME NEW f \in Frames, NEW r \in Rows
  PROVE  Tracked(f, Track(f, r), r)
<1> DEFINE Frame == [capture : BOOLEAN, active : BOOLEAN]
           new == [capture |-> r = IfCapture, active |-> r = IfCapture]
<1>0. f \in Seq(Frame)
  BY DEF Frames
<1>1. CASE r \in {IfCapture, IfOther}
  <2>1. Track(f, r) = Append(f, new)
    BY <1>1, RowsDiffer DEF Track
  <2>2. new \in Frame /\ (new.capture => r = IfCapture)
    OBVIOUS
  <2> HIDE DEF new
  <2>3. Append(f, new) \in Seq(Frame)
    BY <1>0, <2>2, AppendProperties
  <2>. QED
    BY <1>1, <2>1, <2>2, <2>3, RowsDiffer DEF Frames, Tracked
<1>2. CASE r = Else
  <2>1. CASE f # <<>> /\ Last(f).capture
    <3>0. Len(f) \in Nat /\ Len(f) > 0 /\ f \in [1..Len(f) -> Frame]
      <4>1. f # <<>>
        BY <2>1
      <4>2. Len(f) \in Nat \ {0}
        BY <1>0, <4>1, EmptySeq
      <4>3. f \in [1..Len(f) -> Frame]
        BY <1>0, LenProperties
      <4>. QED
        BY <4>2, <4>3
    <3>1. PICK n \in Nat : n = Len(f) /\ n > 0 /\ f \in [1..n -> Frame]
      BY <3>0
    <3> DEFINE w == [f[n] EXCEPT !.active = FALSE]
               t == [k \in 1..n |-> IF k = n THEN w ELSE f[k]]
    <3>2. Track(f, r) = [f EXCEPT ![n].active = FALSE]
      BY <1>2, <2>1, <3>1, RowsDiffer DEF Track
    <3>3. [f EXCEPT ![n].active = FALSE] = t
      BY <3>1
    <3>4. w \in Frame
      <4>1. f[n] \in Frame
        BY <3>1
      <4>. QED
        BY <4>1
    <3>4a. t \in [1..n -> Frame]
      BY <3>1, <3>4
    <3>5. t \in Seq(Frame) /\ Len(t) = n
      <4> HIDE DEF t
      <4>. QED
        BY <3>4a, SeqIs
    <3>6. \A k \in 1..n : /\ k # n => t[k] = f[k]
                          /\ k = n => t[k].active = FALSE
      BY <3>1
    <3> HIDE DEF t
    <3>. QED
      BY <1>2, <3>1, <3>2, <3>3, <3>5, <3>6, RowsDiffer DEF Frames, Tracked
  <2>2. CASE ~(f # <<>> /\ Last(f).capture)
    <3>1. Track(f, r) = f
      BY <1>2, <2>2, RowsDiffer DEF Track
    <3>2. f # <<>> => ~f[Len(f)].capture
      BY <1>0, <2>2, FrontIs
    <3>3. ASSUME NEW k \in 1..Len(f), k = Len(f) PROVE ~f[k].capture
      <4>1. f # <<>>
        BY <1>0, <3>3, EmptySeq
      <4>. QED
        BY <3>2, <3>3, <4>1
    <3>. QED
      BY <1>2, <3>1, <3>3, RowsDiffer DEF Tracked
  <2>. QED
    BY <2>1, <2>2
<1>3. CASE r = EndIf
  <2>1. f # <<>> => Front(f) \in Seq(Frame)
    BY <1>0, FrontIs
  <2>2. Track(f, r) = IF f # <<>> THEN Front(f) ELSE f
    BY <1>3, RowsDiffer DEF Track
  <2>. QED
    BY <1>0, <1>3, <2>1, <2>2, RowsDiffer DEF Frames, Tracked
<1>4. CASE r \notin {IfCapture, IfOther, Else, EndIf}
  <2>1. Track(f, r) = f
    BY <1>4 DEF Track
  <2>. QED
    BY <1>4, <2>1 DEF Tracked
<1>. QED
  BY <1>1, <1>2, <1>3, <1>4

\* Branch does what Branched says: in post-mix no capture condition is open.
LEMMA BranchIs ==
  ASSUME NEW open \in Seq(BOOLEAN), NEW r \in Rows,
         NEW stage \in ApoStages, NEW condition \in BOOLEAN
  PROVE  Branched(open, Branch(open, r, stage, condition), r, stage, condition)
<1> DEFINE b == Branch(open, r, stage, condition)
<1>1. CASE r = IfCapture
  <2>1. b = Append(open, stage = "capture")
    BY <1>1, RowsDiffer DEF Branch
  <2>2. b \in Seq(BOOLEAN)
    BY <2>1, AppendProperties
  <2>3. stage = "post-mix" => ~(stage = "capture")
    OBVIOUS
  <2>. QED
    BY <1>1, <2>1, <2>2, <2>3, RowsDiffer DEF Branched
<1>2. CASE r = IfOther
  <2>1. b = Append(open, condition)
    BY <1>2, RowsDiffer DEF Branch
  <2>2. b \in Seq(BOOLEAN)
    BY <2>1, AppendProperties
  <2>. QED
    BY <1>2, <2>1, <2>2, RowsDiffer DEF Branched
<1>3. CASE r = Else
  <2>1. PICK n \in Nat : n = Len(open) /\ open \in [1..n -> BOOLEAN]
    BY LenProperties
  <2> DEFINE t == [k \in 1..n |-> IF k = n THEN ~open[n] ELSE open[k]]
  <2>2. b = [open EXCEPT ![n] = ~@]
    BY <1>3, <2>1, RowsDiffer DEF Branch
  <2>3. [open EXCEPT ![n] = ~@] = t
    BY <2>1
  <2>3a. t \in [1..n -> BOOLEAN]
    BY <2>1
  <2>4. t \in Seq(BOOLEAN) /\ Len(t) = n
    <3> HIDE DEF t
    <3>. QED
      BY <2>3a, SeqIs
  <2>5. \A k \in 1..n : k # n => t[k] = open[k]
    BY <2>1
  <2> HIDE DEF t, b
  <2>6. b = t
    BY <2>2, <2>3
  <2>7. /\ b \in Seq(BOOLEAN) /\ Len(b) = Len(open)
        /\ \A k \in 1..Len(open) : k # Len(open) => b[k] = open[k]
    BY <2>1, <2>4, <2>5, <2>6
  <2>. QED
    BY <1>3, <2>7, RowsDiffer DEF Branched, b
<1>4. CASE r = EndIf
  <2>1. b = IF open = <<>> THEN open ELSE Front(open)
    BY <1>4, RowsDiffer DEF Branch
  <2>2. b \in Seq(BOOLEAN)
    BY <2>1, FrontIs
  <2>. QED
    BY <1>4, <2>1, <2>2, RowsDiffer DEF Branched
<1>5. CASE r \notin {IfCapture, IfOther, Else, EndIf}
  <2>1. b = open
    BY <1>5 DEF Branch
  <2>. QED
    BY <1>5, <2>1 DEF Branched
<1>. QED
  BY <1>1, <1>2, <1>3, <1>4, <1>5

\* A step of the main loop keeps the types of its variables.
LEMMA LoopType ==
  ASSUME NEW s \in Loops, NEW r \in Rows
  PROVE  LoopStep(s, r) \in Loops
<1>0. /\ s.out \in Seq(Rows) /\ s.frames \in Frames /\ s.reusable \in Nat
      /\ s.original \in Stages /\ s.restore \in Stages \union {NoRow}
      /\ s.captureOnly \in BOOLEAN /\ s.found \in BOOLEAN /\ Len(s.out) \in Nat
  BY LenProperties DEF Loops
<1>1. PICK o \in Seq(Rows) : o = Append(s.out, r)
  BY <1>0, AppendProperties
<1>2. CASE r \in Comments
  <2>1. LoopStep(s, r) = [s EXCEPT !.out = o]
    BY <1>1, <1>2, RowKinds DEF LoopStep, IsPlugin
  <2>. QED
    BY <2>1 DEF Loops
<1>3. CASE r \in Stages
  <2> DEFINE b == r = Capture
  <2>1. LoopStep(s, r) = OnStage(s, r)
    BY <1>3, RowKinds DEF LoopStep, IsPlugin
  <2>2. PICK n \in Nat : n = Len(s.out) + 1
    BY <1>0
  <2>3. OnStage(s, r)
          = [s EXCEPT !.restore = NoRow, !.original = r, !.captureOnly = b,
                      !.reusable = n, !.out = o]
    BY <1>1, <2>2 DEF OnStage
  <2>4. b \in BOOLEAN
    OBVIOUS
  <2> HIDE DEF b
  <2>. QED
    BY ZenonT(30), <1>3, <2>1, <2>3, <2>4 DEF Loops
<1>4. CASE r \in Plugins
  <2>1. LoopStep(s, r) = OnPlugin(s, r)
    BY <1>4, RowKinds DEF LoopStep, IsPlugin
  <2> DEFINE staged == IF s.reusable # 0 THEN [s.out EXCEPT ![s.reusable] = Capture]
                       ELSE Append(s.out, Capture)
  <2>2. Capture \in Rows
    BY RowsAre
  <2>3. [s.out EXCEPT ![s.reusable] = Capture] \in Seq(Rows)
    <3>1. PICK n \in Nat : n = Len(s.out) /\ s.out \in [1..n -> Rows]
      BY <1>0, LenProperties
    <3>2. [s.out EXCEPT ![s.reusable] = Capture] \in [1..n -> Rows]
      BY <3>1, <2>2
    <3>. QED
      BY <3>2, SeqIs
  <2>4. staged \in Seq(Rows)
    BY <1>0, <2>2, <2>3, AppendProperties
  <2>5. PICK p \in Seq(Rows) : p = Append(staged, r)
    BY <2>4, AppendProperties
  <2>6. \/ OnPlugin(s, r) = [s EXCEPT !.found = TRUE, !.reusable = 0, !.out = o]
        \/ OnPlugin(s, r) = [s EXCEPT !.found = TRUE, !.reusable = 0,
                                      !.captureOnly = TRUE, !.restore = s.original,
                                      !.out = p]
    BY <1>1, <2>5 DEF OnPlugin
  <2> HIDE DEF staged
  <2>7. ASSUME NEW t, t = [s EXCEPT !.found = TRUE, !.reusable = 0, !.out = o]
        PROVE  t \in Loops
    BY <2>7 DEF Loops
  <2>8. ASSUME NEW t, NEW w \in Stages, w = s.original,
               t = [s EXCEPT !.found = TRUE, !.reusable = 0, !.captureOnly = TRUE,
                             !.restore = w, !.out = p]
        PROVE  t \in Loops
    BY <2>8 DEF Loops
  <2>. QED
    BY <1>0, <2>1, <2>6, <2>7, <2>8
<1>5. CASE r \notin Comments /\ r \notin Stages /\ r \notin Plugins
  <2>1. LoopStep(s, r) = OnOther(s, r)
    BY <1>5 DEF LoopStep, IsPlugin
  <2>2. PICK f \in Frames : f = Track(s.frames, r)
    BY <1>0, TrackIs DEF Tracked
  <2>3. CASE s.restore = NoRow
    <3>1. OnOther(s, r) = [s EXCEPT !.reusable = 0, !.frames = f, !.out = o]
      BY <1>1, <2>2, <2>3 DEF OnOther
    <3>2. ASSUME NEW t, t = [s EXCEPT !.reusable = 0, !.frames = f, !.out = o]
          PROVE  t \in Loops
      BY <3>2 DEF Loops
    <3>. QED
      BY <2>1, <3>1, <3>2
  <2>4. CASE s.restore # NoRow
    <3>1. s.restore \in Rows
      BY <1>0, <2>4, RowsAre
    <3>2. Append(s.out, s.restore) \in Seq(Rows)
      BY <1>0, <3>1, AppendProperties
    <3>3. PICK p \in Seq(Rows) : p = Append(Append(s.out, s.restore), r)
      BY <3>2, AppendProperties
    <3>4. OnOther(s, r)
            = [s EXCEPT !.restore = NoRow, !.captureOnly = FALSE, !.reusable = 0,
                        !.frames = f, !.out = p]
      BY <2>2, <2>4, <3>3 DEF OnOther, Loops
    <3>5. ASSUME NEW t, t = [s EXCEPT !.restore = NoRow, !.captureOnly = FALSE,
                                      !.reusable = 0, !.frames = f, !.out = p]
          PROVE  t \in Loops
      BY <3>5 DEF Loops
    <3>. QED
      BY <2>1, <3>4, <3>5
  <2>. QED
    BY <2>3, <2>4
<1>. QED
  BY <1>2, <1>3, <1>4, <1>5

\* A row leaves Equalizer APO in a state of the model.
LEMMA RunType ==
  ASSUME NEW stage \in ApoStages, NEW condition \in BOOLEAN,
         NEW s \in RunStates, NEW r \in Rows
  PROVE  RunStep(s, r, stage, condition) \in RunStates
<1>1. s.open \in Seq(BOOLEAN) /\ s.stages \in SUBSET ApoStages /\ s.out \in Seq(Rows)
  BY DEF RunStates
<1>2. Branch(s.open, r, stage, condition) \in Seq(BOOLEAN)
  BY <1>1, BranchIs DEF Branched
<1>3. StagesOf(r) \in SUBSET ApoStages
  BY DEF StagesOf, ApoStages
<1>4. Append(s.out, r) \in Seq(Rows)
  BY <1>1, AppendProperties
<1>. QED
  BY <1>1, <1>2, <1>3, <1>4 DEF RunStep, RunStates

-----------------------------------------------------------------------------
(* Every scan follows its steps.                                            *)


\* The layout of a file and one more row.
LEMMA LayoutFold ==
  /\ Layout(<<>>) = LayoutStart
  /\ \A q \in Seq(Rows) : Layout(q) \in Layouts
  /\ \A q \in Seq(Rows), r \in Rows :
       Layout(Append(q, r)) = LayoutStep(Layout(q), r)

<1> DEFINE step == [s \in Layouts |-> [r \in Rows |-> LayoutStep(s, r)]]
<1>1. LayoutStart \in Layouts
  BY DEF LayoutStart, Layouts, Stages
<1>2. ASSUME NEW s \in Layouts, NEW r \in Rows
      PROVE  LayoutStep(s, r) \in Layouts
  BY DEF LayoutStep, Layouts, MarkAfter, MarkFits
<1>3. IsStep(step, Layouts, Rows)
  BY <1>2 DEF IsStep
<1>4. \A s \in Layouts, r \in Rows : step[s][r] = LayoutStep(s, r)
  OBVIOUS
<1> HIDE DEF step
<1>5. ASSUME NEW q \in Seq(Rows) PROVE Layout(q) = Final(step, LayoutStart, q)
  <2>1. PICK n \in Nat : n = Len(q) /\ AreRows(q, n, Rows)
    BY LenProperties, ElementOfSeq DEF AreRows
  <2> DEFINE p == Path(step, LayoutStart, q, n)
             h == CHOOSE f : f = [i \in 0..n |->
                    IF i = 0 THEN LayoutStart ELSE LayoutStep(f[i - 1], q[i])]
  <2>2. IsRun(p, step, LayoutStart, q, n, Layouts)
    BY <1>1, <1>3, <2>1, PathIs
  <2> HIDE DEF p
  <2>3. p = [i \in 0..n |-> IF i = 0 THEN LayoutStart ELSE LayoutStep(p[i - 1], q[i])]
    <3>1. ASSUME NEW i \in 1..n PROVE p[i] = LayoutStep(p[i - 1], q[i])
      <4>1. i - 1 \in 0..n
        OBVIOUS
      <4>2. p[i - 1] \in Layouts /\ q[i] \in Rows /\ p[i] = step[p[i - 1]][q[i]]
        BY <2>1, <2>2, <4>1 DEF IsRun, AreRows
      <4>. QED
        BY <1>4, <4>2
    <3>2. \A i \in 0..n : i = 0 \/ i \in 1..n
      OBVIOUS
    <3>. QED
      BY <3>1, <3>2, <2>2 DEF IsRun
  <2>4. h = [i \in 0..n |-> IF i = 0 THEN LayoutStart ELSE LayoutStep(h[i - 1], q[i])]
    BY <2>3
  <2>5. Layout(q) = h[n]
    BY <2>1 DEF Layout, Scan
  <2> HIDE DEF h
  <2>6. Follows(h, step, LayoutStart, q, n, Layouts)
    BY <1>4, <2>1, <2>4 DEF Follows, AreRows
  <2>7. h[n] = p[n]
    BY <1>1, <1>3, <2>1, <2>6, PathUnique DEF p
  <2>. QED
    BY <2>1, <2>5, <2>7 DEF Final, p
<1>6. <<>> \in Seq(Rows) /\ \A q \in Seq(Rows), r \in Rows : Append(q, r) \in Seq(Rows)
  BY EmptySeq, AppendProperties
<1>7. /\ Final(step, LayoutStart, <<>>) = LayoutStart
      /\ \A q \in Seq(Rows) : Final(step, LayoutStart, q) \in Layouts
      /\ \A q \in Seq(Rows), r \in Rows :
           Final(step, LayoutStart, Append(q, r)) = step[Final(step, LayoutStart, q)][r]
  BY <1>1, <1>3, FinalStep
<1>8. Layout(<<>>) = LayoutStart /\ \A q \in Seq(Rows) : Layout(q) \in Layouts
  BY <1>5, <1>6, <1>7
<1>9. ASSUME NEW q \in Seq(Rows), NEW r \in Rows
      PROVE  Layout(Append(q, r)) = LayoutStep(Layout(q), r)
  <2>1. Layout(Append(q, r)) = step[Layout(q)][r]
    BY <1>5, <1>6, <1>7
  <2>. QED
    BY <1>4, <1>8, <2>1
<1>. QED
  BY <1>8, <1>9

\* has_capture_scoped_echonull, one row further.
LEMMA ScopeFold ==
  /\ CaptureScope(<<>>) = ScopeStart
  /\ \A q \in Seq(Rows) : CaptureScope(q) \in Scopes
  /\ \A q \in Seq(Rows), r \in Rows :
       CaptureScope(Append(q, r)) = ScopeStep(CaptureScope(q), r)

<1> DEFINE step == [s \in Scopes |-> [r \in Rows |-> ScopeStep(s, r)]]
<1>1. ScopeStart \in Scopes
  BY EmptySeq DEF ScopeStart, Scopes, Frames, NoFrames
<1>2. ASSUME NEW s \in Scopes, NEW r \in Rows
      PROVE  ScopeStep(s, r) \in Scopes
  BY TrackIs DEF ScopeStep, Scopes, CaptureConditionActive, Tracked
<1>3. IsStep(step, Scopes, Rows)
  BY <1>2 DEF IsStep
<1>4. \A s \in Scopes, r \in Rows : step[s][r] = ScopeStep(s, r)
  OBVIOUS
<1> HIDE DEF step
<1>5. ASSUME NEW q \in Seq(Rows) PROVE CaptureScope(q) = Final(step, ScopeStart, q)
  <2>1. PICK n \in Nat : n = Len(q) /\ AreRows(q, n, Rows)
    BY LenProperties, ElementOfSeq DEF AreRows
  <2> DEFINE p == Path(step, ScopeStart, q, n)
             h == CHOOSE f : f = [i \in 0..n |->
                    IF i = 0 THEN ScopeStart ELSE ScopeStep(f[i - 1], q[i])]
  <2>2. IsRun(p, step, ScopeStart, q, n, Scopes)
    BY <1>1, <1>3, <2>1, PathIs
  <2> HIDE DEF p
  <2>3. p = [i \in 0..n |-> IF i = 0 THEN ScopeStart ELSE ScopeStep(p[i - 1], q[i])]
    <3>1. ASSUME NEW i \in 1..n PROVE p[i] = ScopeStep(p[i - 1], q[i])
      <4>1. i - 1 \in 0..n
        OBVIOUS
      <4>2. p[i - 1] \in Scopes /\ q[i] \in Rows /\ p[i] = step[p[i - 1]][q[i]]
        BY <2>1, <2>2, <4>1 DEF IsRun, AreRows
      <4>. QED
        BY <1>4, <4>2
    <3>2. \A i \in 0..n : i = 0 \/ i \in 1..n
      OBVIOUS
    <3>. QED
      BY <3>1, <3>2, <2>2 DEF IsRun
  <2>4. h = [i \in 0..n |-> IF i = 0 THEN ScopeStart ELSE ScopeStep(h[i - 1], q[i])]
    BY <2>3
  <2>5. CaptureScope(q) = h[n]
    BY <2>1 DEF CaptureScope, Scan
  <2> HIDE DEF h
  <2>6. Follows(h, step, ScopeStart, q, n, Scopes)
    BY <1>4, <2>1, <2>4 DEF Follows, AreRows
  <2>7. h[n] = p[n]
    BY <1>1, <1>3, <2>1, <2>6, PathUnique DEF p
  <2>. QED
    BY <2>1, <2>5, <2>7 DEF Final, p
<1>6. <<>> \in Seq(Rows) /\ \A q \in Seq(Rows), r \in Rows : Append(q, r) \in Seq(Rows)
  BY EmptySeq, AppendProperties
<1>7. /\ Final(step, ScopeStart, <<>>) = ScopeStart
      /\ \A q \in Seq(Rows) : Final(step, ScopeStart, q) \in Scopes
      /\ \A q \in Seq(Rows), r \in Rows :
           Final(step, ScopeStart, Append(q, r)) = step[Final(step, ScopeStart, q)][r]
  BY <1>1, <1>3, FinalStep
<1>8. CaptureScope(<<>>) = ScopeStart /\ \A q \in Seq(Rows) : CaptureScope(q) \in Scopes
  BY <1>5, <1>6, <1>7
<1>9. ASSUME NEW q \in Seq(Rows), NEW r \in Rows
      PROVE  CaptureScope(Append(q, r)) = ScopeStep(CaptureScope(q), r)
  <2>1. CaptureScope(Append(q, r)) = step[CaptureScope(q)][r]
    BY <1>5, <1>6, <1>7
  <2>. QED
    BY <1>4, <1>8, <2>1
<1>. QED
  BY <1>8, <1>9

\* The main loop of install_echonull_capture_scope, one row further.
LEMMA LoopFold ==
  /\ Loop(<<>>) = LoopStart
  /\ \A q \in Seq(Rows) : Loop(q) \in Loops
  /\ \A q \in Seq(Rows), r \in Rows :
       Loop(Append(q, r)) = LoopStep(Loop(q), r)

<1> DEFINE step == [s \in Loops |-> [r \in Rows |-> LoopStep(s, r)]]
<1>1. LoopStart \in Loops
  BY EmptySeq DEF LoopStart, Loops, Frames, NoFrames, Stages
<1>2. ASSUME NEW s \in Loops, NEW r \in Rows
      PROVE  LoopStep(s, r) \in Loops
  BY LoopType
<1>3. IsStep(step, Loops, Rows)
  BY <1>2 DEF IsStep
<1>4. \A s \in Loops, r \in Rows : step[s][r] = LoopStep(s, r)
  OBVIOUS
<1> HIDE DEF step
<1>5. ASSUME NEW q \in Seq(Rows) PROVE Loop(q) = Final(step, LoopStart, q)
  <2>1. PICK n \in Nat : n = Len(q) /\ AreRows(q, n, Rows)
    BY LenProperties, ElementOfSeq DEF AreRows
  <2> DEFINE p == Path(step, LoopStart, q, n)
             h == CHOOSE f : f = [i \in 0..n |->
                    IF i = 0 THEN LoopStart ELSE LoopStep(f[i - 1], q[i])]
  <2>2. IsRun(p, step, LoopStart, q, n, Loops)
    BY <1>1, <1>3, <2>1, PathIs
  <2> HIDE DEF p
  <2>3. p = [i \in 0..n |-> IF i = 0 THEN LoopStart ELSE LoopStep(p[i - 1], q[i])]
    <3>1. ASSUME NEW i \in 1..n PROVE p[i] = LoopStep(p[i - 1], q[i])
      <4>1. i - 1 \in 0..n
        OBVIOUS
      <4>2. p[i - 1] \in Loops /\ q[i] \in Rows /\ p[i] = step[p[i - 1]][q[i]]
        BY <2>1, <2>2, <4>1 DEF IsRun, AreRows
      <4>. QED
        BY <1>4, <4>2
    <3>2. \A i \in 0..n : i = 0 \/ i \in 1..n
      OBVIOUS
    <3>. QED
      BY <3>1, <3>2, <2>2 DEF IsRun
  <2>4. h = [i \in 0..n |-> IF i = 0 THEN LoopStart ELSE LoopStep(h[i - 1], q[i])]
    BY <2>3
  <2>5. Loop(q) = h[n]
    BY <2>1 DEF Loop, Scan
  <2> HIDE DEF h
  <2>6. Follows(h, step, LoopStart, q, n, Loops)
    BY <1>4, <2>1, <2>4 DEF Follows, AreRows
  <2>7. h[n] = p[n]
    BY <1>1, <1>3, <2>1, <2>6, PathUnique DEF p
  <2>. QED
    BY <2>1, <2>5, <2>7 DEF Final, p
<1>6. <<>> \in Seq(Rows) /\ \A q \in Seq(Rows), r \in Rows : Append(q, r) \in Seq(Rows)
  BY EmptySeq, AppendProperties
<1>7. /\ Final(step, LoopStart, <<>>) = LoopStart
      /\ \A q \in Seq(Rows) : Final(step, LoopStart, q) \in Loops
      /\ \A q \in Seq(Rows), r \in Rows :
           Final(step, LoopStart, Append(q, r)) = step[Final(step, LoopStart, q)][r]
  BY <1>1, <1>3, FinalStep
<1>8. Loop(<<>>) = LoopStart /\ \A q \in Seq(Rows) : Loop(q) \in Loops
  BY <1>5, <1>6, <1>7
<1>9. ASSUME NEW q \in Seq(Rows), NEW r \in Rows
      PROVE  Loop(Append(q, r)) = LoopStep(Loop(q), r)
  <2>1. Loop(Append(q, r)) = step[Loop(q)][r]
    BY <1>5, <1>6, <1>7
  <2>. QED
    BY <1>4, <1>8, <2>1
<1>. QED
  BY <1>8, <1>9

\* remove_echonull_capture_scope, one row further.
LEMMA RemovalFold ==
  /\ Removal(<<>>) = RemoveStart
  /\ \A q \in Seq(Rows) : Removal(q) \in Removals
  /\ \A q \in Seq(Rows), r \in Rows :
       Removal(Append(q, r)) = RemoveStep(Removal(q), r)

<1> DEFINE step == [s \in Removals |-> [r \in Rows |-> RemoveStep(s, r)]]
<1>1. RemoveStart \in Removals
  BY EmptySeq DEF RemoveStart, Removals
<1>2. ASSUME NEW s \in Removals, NEW r \in Rows
      PROVE  RemoveStep(s, r) \in Removals
  BY AppendProperties DEF RemoveStep, Removals
<1>3. IsStep(step, Removals, Rows)
  BY <1>2 DEF IsStep
<1>4. \A s \in Removals, r \in Rows : step[s][r] = RemoveStep(s, r)
  OBVIOUS
<1> HIDE DEF step
<1>5. ASSUME NEW q \in Seq(Rows) PROVE Removal(q) = Final(step, RemoveStart, q)
  <2>1. PICK n \in Nat : n = Len(q) /\ AreRows(q, n, Rows)
    BY LenProperties, ElementOfSeq DEF AreRows
  <2> DEFINE p == Path(step, RemoveStart, q, n)
             h == CHOOSE f : f = [i \in 0..n |->
                    IF i = 0 THEN RemoveStart ELSE RemoveStep(f[i - 1], q[i])]
  <2>2. IsRun(p, step, RemoveStart, q, n, Removals)
    BY <1>1, <1>3, <2>1, PathIs
  <2> HIDE DEF p
  <2>3. p = [i \in 0..n |-> IF i = 0 THEN RemoveStart ELSE RemoveStep(p[i - 1], q[i])]
    <3>1. ASSUME NEW i \in 1..n PROVE p[i] = RemoveStep(p[i - 1], q[i])
      <4>1. i - 1 \in 0..n
        OBVIOUS
      <4>2. p[i - 1] \in Removals /\ q[i] \in Rows /\ p[i] = step[p[i - 1]][q[i]]
        BY <2>1, <2>2, <4>1 DEF IsRun, AreRows
      <4>. QED
        BY <1>4, <4>2
    <3>2. \A i \in 0..n : i = 0 \/ i \in 1..n
      OBVIOUS
    <3>. QED
      BY <3>1, <3>2, <2>2 DEF IsRun
  <2>4. h = [i \in 0..n |-> IF i = 0 THEN RemoveStart ELSE RemoveStep(h[i - 1], q[i])]
    BY <2>3
  <2>5. Removal(q) = h[n]
    BY <2>1 DEF Removal, Scan
  <2> HIDE DEF h
  <2>6. Follows(h, step, RemoveStart, q, n, Removals)
    BY <1>4, <2>1, <2>4 DEF Follows, AreRows
  <2>7. h[n] = p[n]
    BY <1>1, <1>3, <2>1, <2>6, PathUnique DEF p
  <2>. QED
    BY <2>1, <2>5, <2>7 DEF Final, p
<1>6. <<>> \in Seq(Rows) /\ \A q \in Seq(Rows), r \in Rows : Append(q, r) \in Seq(Rows)
  BY EmptySeq, AppendProperties
<1>7. /\ Final(step, RemoveStart, <<>>) = RemoveStart
      /\ \A q \in Seq(Rows) : Final(step, RemoveStart, q) \in Removals
      /\ \A q \in Seq(Rows), r \in Rows :
           Final(step, RemoveStart, Append(q, r)) = step[Final(step, RemoveStart, q)][r]
  BY <1>1, <1>3, FinalStep
<1>8. Removal(<<>>) = RemoveStart /\ \A q \in Seq(Rows) : Removal(q) \in Removals
  BY <1>5, <1>6, <1>7
<1>9. ASSUME NEW q \in Seq(Rows), NEW r \in Rows
      PROVE  Removal(Append(q, r)) = RemoveStep(Removal(q), r)
  <2>1. Removal(Append(q, r)) = step[Removal(q)][r]
    BY <1>5, <1>6, <1>7
  <2>. QED
    BY <1>4, <1>8, <2>1
<1>. QED
  BY <1>8, <1>9

\* The joining of adjacent capture rows, one row further.
LEMMA CollapseFold ==
  /\ Collapse(<<>>) = NoRows
  /\ \A q \in Seq(Rows) : Collapse(q) \in Seq(Rows)
  /\ \A q \in Seq(Rows), r \in Rows :
       Collapse(Append(q, r)) = CollapseStep(Collapse(q), r)

<1> DEFINE step == [s \in Seq(Rows) |-> [r \in Rows |-> CollapseStep(s, r)]]
<1>1. NoRows \in Seq(Rows)
  BY EmptySeq DEF NoRows
<1>2. ASSUME NEW s \in Seq(Rows), NEW r \in Rows
      PROVE  CollapseStep(s, r) \in Seq(Rows)
  BY AppendProperties DEF CollapseStep
<1>3. IsStep(step, Seq(Rows), Rows)
  BY <1>2 DEF IsStep
<1>4. \A s \in Seq(Rows), r \in Rows : step[s][r] = CollapseStep(s, r)
  OBVIOUS
<1> HIDE DEF step
<1>5. ASSUME NEW q \in Seq(Rows) PROVE Collapse(q) = Final(step, NoRows, q)
  <2>1. PICK n \in Nat : n = Len(q) /\ AreRows(q, n, Rows)
    BY LenProperties, ElementOfSeq DEF AreRows
  <2> DEFINE p == Path(step, NoRows, q, n)
             h == CHOOSE f : f = [i \in 0..n |->
                    IF i = 0 THEN NoRows ELSE CollapseStep(f[i - 1], q[i])]
  <2>2. IsRun(p, step, NoRows, q, n, Seq(Rows))
    BY <1>1, <1>3, <2>1, PathIs
  <2> HIDE DEF p
  <2>3. p = [i \in 0..n |-> IF i = 0 THEN NoRows ELSE CollapseStep(p[i - 1], q[i])]
    <3>1. ASSUME NEW i \in 1..n PROVE p[i] = CollapseStep(p[i - 1], q[i])
      <4>1. i - 1 \in 0..n
        OBVIOUS
      <4>2. p[i - 1] \in Seq(Rows) /\ q[i] \in Rows /\ p[i] = step[p[i - 1]][q[i]]
        BY <2>1, <2>2, <4>1 DEF IsRun, AreRows
      <4>. QED
        BY <1>4, <4>2
    <3>2. \A i \in 0..n : i = 0 \/ i \in 1..n
      OBVIOUS
    <3>. QED
      BY <3>1, <3>2, <2>2 DEF IsRun
  <2>4. h = [i \in 0..n |-> IF i = 0 THEN NoRows ELSE CollapseStep(h[i - 1], q[i])]
    BY <2>3
  <2>5. Collapse(q) = h[n]
    BY <2>1 DEF Collapse, Scan, NoRows
  <2> HIDE DEF h
  <2>6. Follows(h, step, NoRows, q, n, Seq(Rows))
    BY <1>4, <2>1, <2>4 DEF Follows, AreRows
  <2>7. h[n] = p[n]
    BY <1>1, <1>3, <2>1, <2>6, PathUnique DEF p
  <2>. QED
    BY <2>1, <2>5, <2>7 DEF Final, p
<1>6. <<>> \in Seq(Rows) /\ \A q \in Seq(Rows), r \in Rows : Append(q, r) \in Seq(Rows)
  BY EmptySeq, AppendProperties
<1>7. /\ Final(step, NoRows, <<>>) = NoRows
      /\ \A q \in Seq(Rows) : Final(step, NoRows, q) \in Seq(Rows)
      /\ \A q \in Seq(Rows), r \in Rows :
           Final(step, NoRows, Append(q, r)) = step[Final(step, NoRows, q)][r]
  BY <1>1, <1>3, FinalStep
<1>8. Collapse(<<>>) = NoRows /\ \A q \in Seq(Rows) : Collapse(q) \in Seq(Rows)
  BY <1>5, <1>6, <1>7
<1>9. ASSUME NEW q \in Seq(Rows), NEW r \in Rows
      PROVE  Collapse(Append(q, r)) = CollapseStep(Collapse(q), r)
  <2>1. Collapse(Append(q, r)) = step[Collapse(q)][r]
    BY <1>5, <1>6, <1>7
  <2>. QED
    BY <1>4, <1>8, <2>1
<1>. QED
  BY <1>8, <1>9

\* Equalizer APO, one row further.
LEMMA RunFold ==
  ASSUME NEW stage \in ApoStages, NEW condition \in BOOLEAN
  PROVE  /\ Run(<<>>, stage, condition) = RunStart
         /\ \A q \in Seq(Rows) : Run(q, stage, condition) \in RunStates
         /\ \A q \in Seq(Rows), r \in Rows :
              Run(Append(q, r), stage, condition) = RunStep(Run(q, stage, condition), r, stage, condition)

<1> DEFINE step == [s \in RunStates |-> [r \in Rows |-> RunStep(s, r, stage, condition)]]
<1>1. RunStart \in RunStates
  BY EmptySeq DEF RunStart, RunStates, StagesOf, ApoStages
<1>2. ASSUME NEW s \in RunStates, NEW r \in Rows
      PROVE  RunStep(s, r, stage, condition) \in RunStates
  BY RunType
<1>3. IsStep(step, RunStates, Rows)
  BY <1>2 DEF IsStep
<1>4. \A s \in RunStates, r \in Rows : step[s][r] = RunStep(s, r, stage, condition)
  OBVIOUS
<1> HIDE DEF step
<1>5. ASSUME NEW q \in Seq(Rows) PROVE Run(q, stage, condition) = Final(step, RunStart, q)
  <2>1. PICK n \in Nat : n = Len(q) /\ AreRows(q, n, Rows)
    BY LenProperties, ElementOfSeq DEF AreRows
  <2> DEFINE p == Path(step, RunStart, q, n)
             h == CHOOSE f : f = [i \in 0..n |->
                    IF i = 0 THEN RunStart ELSE RunStep(f[i - 1], q[i], stage, condition)]
  <2>2. IsRun(p, step, RunStart, q, n, RunStates)
    BY <1>1, <1>3, <2>1, PathIs
  <2> HIDE DEF p
  <2>3. p = [i \in 0..n |-> IF i = 0 THEN RunStart ELSE RunStep(p[i - 1], q[i], stage, condition)]
    <3>1. ASSUME NEW i \in 1..n PROVE p[i] = RunStep(p[i - 1], q[i], stage, condition)
      <4>1. i - 1 \in 0..n
        OBVIOUS
      <4>2. p[i - 1] \in RunStates /\ q[i] \in Rows /\ p[i] = step[p[i - 1]][q[i]]
        BY <2>1, <2>2, <4>1 DEF IsRun, AreRows
      <4>. QED
        BY <1>4, <4>2
    <3>2. \A i \in 0..n : i = 0 \/ i \in 1..n
      OBVIOUS
    <3>. QED
      BY <3>1, <3>2, <2>2 DEF IsRun
  <2>4. h = [i \in 0..n |-> IF i = 0 THEN RunStart ELSE RunStep(h[i - 1], q[i], stage, condition)]
    BY <2>3
  <2>5. Run(q, stage, condition) = h[n]
    BY <2>1 DEF Run, Scan
  <2> HIDE DEF h
  <2>6. Follows(h, step, RunStart, q, n, RunStates)
    BY <1>4, <2>1, <2>4 DEF Follows, AreRows
  <2>7. h[n] = p[n]
    BY <1>1, <1>3, <2>1, <2>6, PathUnique DEF p
  <2>. QED
    BY <2>1, <2>5, <2>7 DEF Final, p
<1>6. <<>> \in Seq(Rows) /\ \A q \in Seq(Rows), r \in Rows : Append(q, r) \in Seq(Rows)
  BY EmptySeq, AppendProperties
<1>7. /\ Final(step, RunStart, <<>>) = RunStart
      /\ \A q \in Seq(Rows) : Final(step, RunStart, q) \in RunStates
      /\ \A q \in Seq(Rows), r \in Rows :
           Final(step, RunStart, Append(q, r)) = step[Final(step, RunStart, q)][r]
  BY <1>1, <1>3, FinalStep
<1>8. Run(<<>>, stage, condition) = RunStart /\ \A q \in Seq(Rows) : Run(q, stage, condition) \in RunStates
  BY <1>5, <1>6, <1>7
<1>9. ASSUME NEW q \in Seq(Rows), NEW r \in Rows
      PROVE  Run(Append(q, r), stage, condition) = RunStep(Run(q, stage, condition), r, stage, condition)
  <2>1. Run(Append(q, r), stage, condition) = step[Run(q, stage, condition)][r]
    BY <1>5, <1>6, <1>7
  <2>. QED
    BY <1>4, <1>8, <2>1
<1>. QED
  BY <1>8, <1>9

\* The rows of a set, one row further.
LEMMA OnlyFold ==
  ASSUME NEW set
  PROVE  /\ Only(<<>>, set) = NoRows
         /\ \A q \in Seq(Rows) : Only(q, set) \in Seq(Rows)
         /\ \A q \in Seq(Rows), r \in Rows :
              Only(Append(q, r), set) = Keep(Only(q, set), r, set)

<1> DEFINE step == [s \in Seq(Rows) |-> [r \in Rows |-> Keep(s, r, set)]]
<1>1. NoRows \in Seq(Rows)
  BY EmptySeq DEF NoRows
<1>2. ASSUME NEW s \in Seq(Rows), NEW r \in Rows
      PROVE  Keep(s, r, set) \in Seq(Rows)
  BY AppendProperties DEF Keep
<1>3. IsStep(step, Seq(Rows), Rows)
  BY <1>2 DEF IsStep
<1>4. \A s \in Seq(Rows), r \in Rows : step[s][r] = Keep(s, r, set)
  OBVIOUS
<1> HIDE DEF step
<1>5. ASSUME NEW q \in Seq(Rows) PROVE Only(q, set) = Final(step, NoRows, q)
  <2>1. PICK n \in Nat : n = Len(q) /\ AreRows(q, n, Rows)
    BY LenProperties, ElementOfSeq DEF AreRows
  <2> DEFINE p == Path(step, NoRows, q, n)
             h == CHOOSE f : f = [i \in 0..n |->
                    IF i = 0 THEN NoRows ELSE Keep(f[i - 1], q[i], set)]
  <2>2. IsRun(p, step, NoRows, q, n, Seq(Rows))
    BY <1>1, <1>3, <2>1, PathIs
  <2> HIDE DEF p
  <2>3. p = [i \in 0..n |-> IF i = 0 THEN NoRows ELSE Keep(p[i - 1], q[i], set)]
    <3>1. ASSUME NEW i \in 1..n PROVE p[i] = Keep(p[i - 1], q[i], set)
      <4>1. i - 1 \in 0..n
        OBVIOUS
      <4>2. p[i - 1] \in Seq(Rows) /\ q[i] \in Rows /\ p[i] = step[p[i - 1]][q[i]]
        BY <2>1, <2>2, <4>1 DEF IsRun, AreRows
      <4>. QED
        BY <1>4, <4>2
    <3>2. \A i \in 0..n : i = 0 \/ i \in 1..n
      OBVIOUS
    <3>. QED
      BY <3>1, <3>2, <2>2 DEF IsRun
  <2>4. h = [i \in 0..n |-> IF i = 0 THEN NoRows ELSE Keep(h[i - 1], q[i], set)]
    BY <2>3
  <2>5. Only(q, set) = h[n]
    BY <2>1 DEF Only, Scan, NoRows
  <2> HIDE DEF h
  <2>6. Follows(h, step, NoRows, q, n, Seq(Rows))
    BY <1>4, <2>1, <2>4 DEF Follows, AreRows
  <2>7. h[n] = p[n]
    BY <1>1, <1>3, <2>1, <2>6, PathUnique DEF p
  <2>. QED
    BY <2>1, <2>5, <2>7 DEF Final, p
<1>6. <<>> \in Seq(Rows) /\ \A q \in Seq(Rows), r \in Rows : Append(q, r) \in Seq(Rows)
  BY EmptySeq, AppendProperties
<1>7. /\ Final(step, NoRows, <<>>) = NoRows
      /\ \A q \in Seq(Rows) : Final(step, NoRows, q) \in Seq(Rows)
      /\ \A q \in Seq(Rows), r \in Rows :
           Final(step, NoRows, Append(q, r)) = step[Final(step, NoRows, q)][r]
  BY <1>1, <1>3, FinalStep
<1>8. Only(<<>>, set) = NoRows /\ \A q \in Seq(Rows) : Only(q, set) \in Seq(Rows)
  BY <1>5, <1>6, <1>7
<1>9. ASSUME NEW q \in Seq(Rows), NEW r \in Rows
      PROVE  Only(Append(q, r), set) = Keep(Only(q, set), r, set)
  <2>1. Only(Append(q, r), set) = step[Only(q, set)][r]
    BY <1>5, <1>6, <1>7
  <2>. QED
    BY <1>4, <1>8, <2>1
<1>. QED
  BY <1>8, <1>9


-----------------------------------------------------------------------------
(* What a file's layout says of what Equalizer APO runs.                    *)

\* One more open condition lets a row through if it holds and the others did.
LEMMA ThroughAppend ==
  ASSUME NEW open \in Seq(BOOLEAN), NEW b \in BOOLEAN
  PROVE  LetThrough(Append(open, b)) <=> LetThrough(open) /\ b
<1>1. PICK n \in Nat : n = Len(open) /\ open \in [1..n -> BOOLEAN]
  BY LenProperties
<1> DEFINE p == Append(open, b)
<1>2. Len(p) = n + 1 /\ p[n + 1] = b /\ \A k \in 1..n : p[k] = open[k]
  BY <1>1, AppendProperties
<1>3. \A k \in 1..(n + 1) : k = n + 1 \/ k \in 1..n
  BY <1>1
<1>4. n + 1 \in 1..(n + 1) /\ 1..n \subseteq 1..(n + 1)
  BY <1>1
<1> HIDE DEF p
<1>5. ASSUME LetThrough(p) PROVE LetThrough(open) /\ b
  BY <1>1, <1>2, <1>4, <1>5 DEF LetThrough
<1>6. ASSUME LetThrough(open), b PROVE LetThrough(p)
  BY <1>1, <1>2, <1>3, <1>6 DEF LetThrough
<1>. QED
  BY <1>5, <1>6 DEF p

\* Where all conditions let a row through, all but the innermost do.
LEMMA ThroughFront ==
  ASSUME NEW open \in Seq(BOOLEAN), open # <<>>, LetThrough(open)
  PROVE  LetThrough(Front(open))
BY FrontIs DEF LetThrough

\* g, s and x are the layout of a file, the scan for scoped rows, and the run of
\* it, as far as they have come.  Where the conditions let a row through,
\* Equalizer APO is in the stage written last; where they do not, it still is in
\* the stage of the outermost condition.  A plug-in row of a scoped file does
\* not run in post-mix.
Sound(g, s, x, stage) ==
  /\ Len(x.open) = g.depth /\ Len(s.frames) = g.depth
  /\ s.stage <=> g.now = Capture
  /\ LetThrough(x.open) => x.stages = StagesOf(g.now)
  /\ ~LetThrough(x.open) => x.stages = StagesOf(g.base)
  /\ stage = "post-mix" =>
       /\ \A k \in 1..g.depth :
            s.frames[k].capture /\ s.frames[k].active => ~x.open[k]
       /\ s.ok => \A i \in 1..Len(x.out) : x.out[i] \notin Plugins

\* One more row that fits the layout keeps the three readings together.
LEMMA SoundStep ==
  ASSUME NEW stage \in ApoStages, NEW condition \in BOOLEAN, NEW r \in Rows,
         NEW g \in Layouts, NEW s \in Scopes, NEW x \in RunStates,
         Sound(g, s, x, stage), LayoutStep(g, r).ok
  PROVE  Sound(LayoutStep(g, r), ScopeStep(s, r),
               RunStep(x, r, stage, condition), stage)
<1> DEFINE g2 == LayoutStep(g, r)
           s2 == ScopeStep(s, r)
           x2 == RunStep(x, r, stage, condition)
<1>1. /\ x.open \in Seq(BOOLEAN) /\ x.out \in Seq(Rows) /\ s.frames \in Frames
      /\ Len(x.open) = g.depth /\ Len(s.frames) = g.depth /\ g.depth \in Nat
  BY DEF Sound, Layouts, Scopes, RunStates
<1>2. /\ r \in {IfCapture, IfOther} => g.depth = 0 \/ g.now = g.base
      /\ r \in {Else, EndIf} => g.depth > 0 /\ g.now = g.base
  BY DEF LayoutStep
<1>3. /\ x2.open = Branch(x.open, r, stage, condition)
      /\ x2.stages = IF r \in Stages /\ LetThrough(x.open) THEN StagesOf(r)
                     ELSE x.stages
      /\ s2.frames = Track(s.frames, r)
      /\ g2.now = IF r \in Stages THEN r ELSE g.now
      /\ g2.base = IF r \in {IfCapture, IfOther} /\ g.depth = 0 THEN g.now ELSE g.base
      /\ s2.stage = IF r \in Stages THEN r = Capture ELSE s.stage
  BY DEF RunStep, ScopeStep, LayoutStep
<1>4. /\ r \in {IfCapture, IfOther} => g2.depth = g.depth + 1
      /\ r = EndIf => g2.depth = g.depth - 1
      /\ r \notin {IfCapture, IfOther, EndIf} => g2.depth = g.depth
  BY <1>2, RowsDiffer DEF LayoutStep
<1>b. Branched(x.open, x2.open, r, stage, condition)
  BY <1>1, <1>3, BranchIs
<1>t. Tracked(s.frames, s2.frames, r)
  BY <1>1, <1>3, TrackIs
<1> DEFINE Kept == /\ x2.open = x.open /\ s2.frames = s.frames /\ g2.depth = g.depth
                   /\ g2.base = g.base
<1>5. r \notin {IfCapture, IfOther, Else, EndIf} => Kept
  BY <1>b, <1>t, <1>3, <1>4 DEF Branched, Tracked
<1> HIDE DEF g2, s2, x2
<1>6. Len(x2.open) = g2.depth /\ Len(s2.frames) = g2.depth
  <2>1. CASE r \in {IfCapture, IfOther}
    <3>1. PICK b \in BOOLEAN : x2.open = Append(x.open, b)
      BY <1>b, <2>1 DEF Branched
    <3>2. Len(x2.open) = Len(x.open) + 1
      BY <1>1, <3>1, AppendProperties
    <3>3. PICK w \in [capture : BOOLEAN, active : BOOLEAN] :
             s2.frames = Append(s.frames, w)
      BY <1>t, <2>1 DEF Tracked
    <3>4. Len(s2.frames) = Len(s.frames) + 1
      BY <1>1, <3>3, AppendProperties DEF Frames
    <3>. QED
      BY <1>1, <1>4, <2>1, <3>2, <3>4
  <2>2. CASE r = Else
    BY <1>1, <1>b, <1>t, <1>4, <2>2, RowsDiffer DEF Branched, Tracked
  <2>3. CASE r = EndIf
    <3>1. x.open # <<>> /\ s.frames # <<>>
      BY <1>1, <1>2, <2>3, EmptySeq
    <3>2. x2.open = Front(x.open) /\ s2.frames = Front(s.frames)
      BY <1>b, <1>t, <2>3, <3>1 DEF Branched, Tracked
    <3>3. Len(x2.open) = Len(x.open) - 1
      BY <1>1, <3>1, <3>2, FrontIs
    <3>4. Len(s2.frames) = Len(s.frames) - 1
      BY <1>1, <3>1, <3>2, FrontIs DEF Frames
    <3>. QED
      BY <1>1, <1>2, <1>4, <2>3, <3>3, <3>4, RowsDiffer
  <2>. QED
    BY <1>1, <1>5, <2>1, <2>2, <2>3
<1>7. s2.stage <=> g2.now = Capture
  BY <1>3 DEF Sound
<1>8. /\ LetThrough(x2.open) => x2.stages = StagesOf(g2.now)
      /\ ~LetThrough(x2.open) => x2.stages = StagesOf(g2.base)
  <2>0. /\ LetThrough(x.open) => x.stages = StagesOf(g.now)
        /\ ~LetThrough(x.open) => x.stages = StagesOf(g.base)
    BY DEF Sound
  <2>1. CASE r \in {IfCapture, IfOther}
    <3>1. PICK b \in BOOLEAN : x2.open = Append(x.open, b)
      BY <1>b, <2>1 DEF Branched
    <3>2. LetThrough(x2.open) => LetThrough(x.open)
      BY <1>1, <3>1, ThroughAppend
    <3>3. ~LetThrough(x.open) => g.depth # 0
      BY <1>1 DEF LetThrough
    <3>4. x2.stages = x.stages /\ g2.now = g.now
      BY <1>3, <2>1, RowKinds
    <3>. QED
      BY <1>2, <1>3, <2>0, <2>1, <3>2, <3>3, <3>4
  <2>2. CASE r = Else
    BY <1>2, <1>3, <2>0, <2>2, RowKinds, RowsDiffer
  <2>3. CASE r = EndIf
    BY <1>2, <1>3, <2>0, <2>3, RowKinds, RowsDiffer
  <2>4. CASE r \notin {IfCapture, IfOther, Else, EndIf}
    BY <1>3, <1>5, <2>0, <2>4
  <2>. QED
    BY <2>1, <2>2, <2>3, <2>4
<1>9. ASSUME stage = "post-mix", NEW k \in 1..g2.depth,
             s2.frames[k].capture, s2.frames[k].active
      PROVE  ~x2.open[k]
  <2>0. \A j \in 1..g.depth : s.frames[j].capture /\ s.frames[j].active => ~x.open[j]
    BY <1>9 DEF Sound
  <2>1. CASE r \in {IfCapture, IfOther}
    <3>1. g2.depth = g.depth + 1
      BY <1>4, <2>1
    <3>2. PICK b \in BOOLEAN : x2.open = Append(x.open, b) /\ (r = IfCapture => ~b)
      BY <1>b, <1>9, <2>1 DEF Branched
    <3>3. PICK new \in [capture : BOOLEAN, active : BOOLEAN] :
             s2.frames = Append(s.frames, new) /\ (new.capture => r = IfCapture)
      BY <1>t, <2>1 DEF Tracked
    <3>4. /\ \A j \in 1..g.depth : s2.frames[j] = s.frames[j]
          /\ s2.frames[g.depth + 1] = new
      BY <1>1, <3>3, AppendProperties DEF Frames
    <3>5. (\A j \in 1..g.depth : x2.open[j] = x.open[j]) /\ x2.open[g.depth + 1] = b
      BY <1>1, <3>2, AppendProperties
    <3>6. k = g.depth + 1 \/ k \in 1..g.depth
      BY <1>1, <3>1
    <3>. QED
      BY <1>9, <2>0, <3>2, <3>3, <3>4, <3>5, <3>6
  <2>2. CASE r = Else
    <3>1. g2.depth = g.depth
      BY <1>1, <1>4, <2>2, RowsDiffer
    <3>2. k # g.depth
      BY <1>1, <1>t, <1>9, <2>2, <3>1 DEF Tracked
    <3>3. s2.frames[k] = s.frames[k] /\ x2.open[k] = x.open[k]
      BY <1>1, <1>b, <1>t, <2>2, <3>1, <3>2 DEF Tracked, Branched
    <3>. QED
      BY <1>9, <2>0, <3>1, <3>3
  <2>3. CASE r = EndIf
    <3>1. x.open # <<>> /\ s.frames # <<>>
      BY <1>1, <1>2, <2>3, EmptySeq
    <3>2. x2.open = Front(x.open) /\ s2.frames = Front(s.frames)
      BY <1>b, <1>t, <2>3, <3>1 DEF Branched, Tracked
    <3>3. g2.depth = g.depth - 1
      BY <1>1, <1>2, <1>4, <2>3, RowsDiffer
    <3>0. k \in 1..(Len(x.open) - 1) /\ k \in 1..(Len(s.frames) - 1)
      BY <1>1, <3>3
    <3>a. \A j \in 1..(Len(x.open) - 1) : Front(x.open)[j] = x.open[j]
      BY <1>1, <3>1, FrontIs
    <3>b. \A j \in 1..(Len(s.frames) - 1) : Front(s.frames)[j] = s.frames[j]
      BY ZenonT(30), <1>1, <3>1, FrontIs DEF Frames
    <3>4. x2.open[k] = x.open[k]
      BY <3>0, <3>2, <3>a
    <3>5. s2.frames[k] = s.frames[k]
      BY <3>0, <3>2, <3>b
    <3>6. k \in 1..g.depth
      BY <1>1, <3>3
    <3>. QED
      BY <1>9, <2>0, <3>4, <3>5, <3>6
  <2>. QED
    BY <1>5, <1>9, <2>0, <2>1, <2>2, <2>3
<1>10. ASSUME stage = "post-mix", s2.ok, NEW i \in 1..Len(x2.out)
       PROVE  x2.out[i] \notin Plugins
  <2>1. s.ok /\ (r \in Plugins => s.stage \/ CaptureConditionActive(s.frames))
    BY <1>10 DEF s2, ScopeStep, IsPlugin
  <2>2. \A j \in 1..Len(x.out) : x.out[j] \notin Plugins
    BY <1>10, <2>1 DEF Sound
  <2>3. x2.out = IF /\ r \in Filters \union Plugins /\ LetThrough(x.open)
                    /\ stage \in x.stages
                 THEN Append(x.out, r) ELSE x.out
    BY DEF x2, RunStep
  <2>4. ASSUME r \in Plugins, LetThrough(x.open) PROVE stage \notin x.stages
    <3>1. ~CaptureConditionActive(s.frames)
      BY <1>1, <1>10, <2>4 DEF Sound, CaptureConditionActive, LetThrough
    <3>2. x.stages = StagesOf(Capture)
      BY <2>1, <2>4, <3>1 DEF Sound
    <3>. QED
      <4>1. StagesOf(Capture) = {"capture"}
        BY RowsDiffer DEF StagesOf
      <4>. QED
        BY <1>10, <3>2, <4>1
  <2>5. CASE x2.out = x.out
    BY <1>10, <2>2, <2>5
  <2>6. CASE x2.out # x.out
    <3>1. x2.out = Append(x.out, r) /\ r \notin Plugins
      BY <2>3, <2>4, <2>6
    <3>2. /\ Len(x2.out) = Len(x.out) + 1 /\ x2.out[Len(x.out) + 1] = r
          /\ \A j \in 1..Len(x.out) : x2.out[j] = x.out[j]
      BY <1>1, <3>1, AppendProperties
    <3>3. i = Len(x.out) + 1 \/ i \in 1..Len(x.out)
      BY <1>1, <1>10, <3>2, LenProperties
    <3>. QED
      BY <2>2, <3>1, <3>2, <3>3
  <2>. QED
    BY <2>5, <2>6
<1>. QED
  BY <1>6, <1>7, <1>8, <1>9, <1>10 DEF Sound, g2, s2, x2

\* In every file that is laid out well the three readings agree; so a file the
\* scan accepts runs no plug-in row in post-mix.
LEMMA WellLaidOut ==
  ASSUME NEW stage \in ApoStages, NEW condition \in BOOLEAN,
         NEW q \in Seq(Rows), Layout(q).ok
  PROVE  Sound(Layout(q), CaptureScope(q), Run(q, stage, condition), stage)
<1> DEFINE T == {p \in Seq(Rows) : Layout(p).ok =>
                   Sound(Layout(p), CaptureScope(p), Run(p, stage, condition), stage)}
<1>1. <<>> \in T
  <2>1. /\ Layout(<<>>) = LayoutStart /\ CaptureScope(<<>>) = ScopeStart
        /\ Run(<<>>, stage, condition) = RunStart /\ <<>> \in Seq(Rows)
    BY LayoutFold, ScopeFold, RunFold, EmptySeq
  <2>2. Mixed # Capture
    BY RowsDiffer
  <2>3. Sound(LayoutStart, ScopeStart, RunStart, stage)
    BY <2>2, EmptySeq
       DEF Sound, LayoutStart, ScopeStart, RunStart, LetThrough, NoFrames
  <2>. QED
    BY <2>1, <2>3
<1>2. ASSUME NEW p \in Seq(Rows), NEW r \in Rows, p \in T PROVE Append(p, r) \in T
  <2>1. /\ Layout(Append(p, r)) = LayoutStep(Layout(p), r)
        /\ CaptureScope(Append(p, r)) = ScopeStep(CaptureScope(p), r)
        /\ Run(Append(p, r), stage, condition)
             = RunStep(Run(p, stage, condition), r, stage, condition)
        /\ Append(p, r) \in Seq(Rows)
    BY LayoutFold, ScopeFold, RunFold, AppendProperties
  <2>2. /\ Layout(p) \in Layouts /\ CaptureScope(p) \in Scopes
        /\ Run(p, stage, condition) \in RunStates
    BY LayoutFold, ScopeFold, RunFold
  <2>3. LayoutStep(Layout(p), r).ok => Layout(p).ok
    BY DEF LayoutStep
  <2>4. LayoutStep(Layout(p), r).ok =>
          Sound(LayoutStep(Layout(p), r), ScopeStep(CaptureScope(p), r),
                RunStep(Run(p, stage, condition), r, stage, condition), stage)
    BY <1>2, <2>2, <2>3, SoundStep
  <2>. QED
    BY <2>1, <2>4
<1>3. \A p \in Seq(Rows) : p \in T
  <2> HIDE DEF T
  <2>. QED
    BY <1>1, <1>2, SeqInduction
<1>. QED
  BY <1>3


-----------------------------------------------------------------------------
(* What one more row does to the reading of a file.                         *)

\* The readings of a file with one more row.
LEMMA OneMore ==
  ASSUME NEW stage \in ApoStages, NEW condition \in BOOLEAN,
         NEW q \in Seq(Rows), NEW r \in Rows
  PROVE  /\ Append(q, r) \in Seq(Rows)
         /\ Layout(q) \in Layouts /\ Run(q, stage, condition) \in RunStates
         /\ Layout(Append(q, r)) = LayoutStep(Layout(q), r)
         /\ Run(Append(q, r), stage, condition)
              = RunStep(Run(q, stage, condition), r, stage, condition)
         /\ FiltersRun(Append(q, r), stage, condition)
              = IF /\ r \in Filters /\ LetThrough(Run(q, stage, condition).open)
                   /\ stage \in Run(q, stage, condition).stages
                THEN Append(FiltersRun(q, stage, condition), r)
                ELSE FiltersRun(q, stage, condition)
<1> DEFINE x == Run(q, stage, condition)
           y == Run(Append(q, r), stage, condition)
           through == /\ LetThrough(x.open) /\ stage \in x.stages
<1>1. /\ Append(q, r) \in Seq(Rows)
      /\ Layout(q) \in Layouts /\ x \in RunStates
      /\ Layout(Append(q, r)) = LayoutStep(Layout(q), r)
      /\ y = RunStep(x, r, stage, condition)
  BY LayoutFold, RunFold, AppendProperties
<1>2. /\ FiltersRun(q, stage, condition) = Only(x.out, Filters)
      /\ FiltersRun(Append(q, r), stage, condition) = Only(y.out, Filters)
  BY DEF FiltersRun, Runs
<1>3. y.out = IF r \in Filters \union Plugins /\ through THEN Append(x.out, r)
              ELSE x.out
  BY <1>1 DEF RunStep
<1> HIDE DEF x, y
<1>4. x.out \in Seq(Rows)
  BY <1>1 DEF RunStates
<1>5. Only(Append(x.out, r), Filters) = Keep(Only(x.out, Filters), r, Filters)
  BY <1>4, OnlyFold
<1>6. Only(y.out, Filters) = IF r \in Filters /\ through
                             THEN Append(Only(x.out, Filters), r)
                             ELSE Only(x.out, Filters)
  BY <1>3, <1>5 DEF Keep
<1>. QED
  BY <1>1, <1>2, <1>6 DEF x, y

\* Outside the old markers, a row that is neither a filter nor a condition
\* changes the stage at most.
LEMMA Neutral ==
  ASSUME NEW stage \in ApoStages, NEW condition \in BOOLEAN,
         NEW q \in Seq(Rows), NEW r \in Stages \union Plugins \union {Comment},
         Layout(q).mark = 0
  PROVE  /\ r \in Rows /\ Append(q, r) \in Seq(Rows)
         /\ Layout(Append(q, r))
              = [Layout(q) EXCEPT !.now = IF r \in Stages THEN r ELSE @]
         /\ Run(Append(q, r), stage, condition).open = Run(q, stage, condition).open
         /\ FiltersRun(Append(q, r), stage, condition)
              = FiltersRun(q, stage, condition)
<1>1. r \in Rows
  BY RowsAre
<1>2. /\ r \notin {IfCapture, IfOther, Else, EndIf} /\ r \notin Filters
      /\ r \notin {BeginMarker, EndMarker}
  BY <1>1, RowKinds, RowsDiffer, RowsAre
<1> DEFINE g == Layout(q)
           h == Layout(Append(q, r))
           n == IF r \in Stages THEN r ELSE g.now
<1>3. g \in Layouts /\ h = LayoutStep(g, r) /\ g.mark = 0
  BY <1>1, OneMore
<1> HIDE DEF g, h
<1>4. /\ h.depth = g.depth /\ h.base = g.base /\ h.now = n /\ h.mark = g.mark
      /\ h.plain = g.plain /\ h.ok = g.ok
  <2>1. h.mark = MarkAfter(0, r) /\ MarkAfter(0, r) = 0
    BY <1>2, <1>3 DEF LayoutStep, MarkAfter
  <2>2. MarkFits(0, r)
    BY <1>2 DEF MarkFits
  <2>3. /\ h.depth = g.depth /\ h.base = g.base /\ h.now = n
    BY <1>2, <1>3 DEF LayoutStep
  <2>4. h.plain <=> g.plain
    BY <1>2, <1>3 DEF LayoutStep
  <2>5. h.ok <=> g.ok
    BY <1>2, <1>3, <2>2 DEF LayoutStep
  <2>6. h.plain \in BOOLEAN /\ g.plain \in BOOLEAN /\ h.ok \in BOOLEAN /\ g.ok \in BOOLEAN
    BY <1>3 DEF LayoutStep, Layouts
  <2>. QED
    BY <1>3, <2>1, <2>3, <2>4, <2>5, <2>6
<1>5. h = [depth |-> h.depth, now |-> h.now, base |-> h.base, mark |-> h.mark,
           plain |-> h.plain, ok |-> h.ok]
  BY <1>3 DEF LayoutStep
<1>6. h = [g EXCEPT !.now = n]
  BY <1>3, <1>4, <1>5 DEF Layouts
<1>7. Run(Append(q, r), stage, condition).open = Run(q, stage, condition).open
  <2>1. Branch(Run(q, stage, condition).open, r, stage, condition)
          = Run(q, stage, condition).open
    BY <1>2 DEF Branch
  <2>. QED
    BY <1>1, <2>1, OneMore DEF RunStep
<1>. QED
  BY <1>1, <1>2, <1>6, <1>7, OneMore DEF g, h

\* Without markers no block is open.
LEMMA PlainMark ==
  ASSUME NEW q \in Seq(Rows), Layout(q).plain
  PROVE  Layout(q).mark = 0
<1> DEFINE T == {p \in Seq(Rows) : Layout(p).plain => Layout(p).mark = 0}
<1>1. <<>> \in T
  BY LayoutFold, EmptySeq DEF LayoutStart
<1>2. ASSUME NEW p \in Seq(Rows), NEW r \in Rows, p \in T PROVE Append(p, r) \in T
  <2>1. Append(p, r) \in Seq(Rows) /\ Layout(Append(p, r)) = LayoutStep(Layout(p), r)
    BY LayoutFold, AppendProperties
  <2>2. r # BeginMarker => MarkAfter(0, r) = 0
    BY DEF MarkAfter
  <2>3. /\ LayoutStep(Layout(p), r).plain => Layout(p).plain /\ r # BeginMarker
        /\ LayoutStep(Layout(p), r).mark = MarkAfter(Layout(p).mark, r)
    BY DEF LayoutStep
  <2>. QED
    BY <1>2, <2>1, <2>2, <2>3
<1>3. \A p \in Seq(Rows) : p \in T
  <2> HIDE DEF T
  <2>. QED
    BY <1>1, <1>2, SeqInduction
<1>. QED
  BY <1>3

\* The conditions the model counts are those of the layout.
LEMMA DepthIs ==
  ASSUME NEW q \in Seq(Rows), Layout(q).ok
  PROVE  Depth(q) = Layout(q).depth
<1> DEFINE Ifs == {IfCapture, IfOther}
           T == {p \in Seq(Rows) : Layout(p).ok =>
                   Len(Only(p, Ifs)) = Len(Only(p, {EndIf})) + Layout(p).depth}
<1>1. <<>> \in T
  BY LayoutFold, OnlyFold, EmptySeq DEF LayoutStart, NoRows
<1>2. ASSUME NEW p \in Seq(Rows), NEW r \in Rows, p \in T PROVE Append(p, r) \in T
  <2> DEFINE a == Only(p, Ifs)
             b == Only(p, {EndIf})
             g == Layout(p)
  <2>1. /\ Append(p, r) \in Seq(Rows) /\ Layout(Append(p, r)) = LayoutStep(g, r)
        /\ Only(Append(p, r), Ifs) = Keep(a, r, Ifs)
        /\ Only(Append(p, r), {EndIf}) = Keep(b, r, {EndIf})
        /\ a \in Seq(Rows) /\ b \in Seq(Rows) /\ g \in Layouts
    BY LayoutFold, OnlyFold, AppendProperties
  <2>2. g.ok => Len(a) = Len(b) + g.depth
    BY <1>2
  <2> HIDE DEF a, b, g, Ifs
  <2>3. /\ Len(Append(a, r)) = Len(a) + 1 /\ Len(Append(b, r)) = Len(b) + 1
        /\ Len(a) \in Nat /\ Len(b) \in Nat /\ g.depth \in Nat
    BY <2>1, AppendProperties, LenProperties DEF Layouts
  <2>4. /\ Len(Keep(a, r, Ifs)) = Len(a) + IF r \in Ifs THEN 1 ELSE 0
        /\ Len(Keep(b, r, {EndIf})) = Len(b) + IF r = EndIf THEN 1 ELSE 0
    BY <2>3 DEF Keep
  <2>5. LayoutStep(g, r).ok =>
          /\ g.ok
          /\ LayoutStep(g, r).depth = g.depth + (IF r \in Ifs THEN 1 ELSE 0)
                                              - (IF r = EndIf THEN 1 ELSE 0)
    BY <2>3, RowsDiffer DEF LayoutStep, Ifs
  <2>6. LayoutStep(g, r).ok =>
          Len(Keep(a, r, Ifs)) = Len(Keep(b, r, {EndIf})) + LayoutStep(g, r).depth
    <3> DEFINE i == IF r \in Ifs THEN 1 ELSE 0
               j == IF r = EndIf THEN 1 ELSE 0
    <3>1. i \in Nat /\ j \in Nat
      OBVIOUS
    <3> HIDE DEF i, j
    <3>2. Len(Keep(a, r, Ifs)) = Len(a) + i /\ Len(Keep(b, r, {EndIf})) = Len(b) + j
      BY <2>4 DEF i, j
    <3>3. LayoutStep(g, r).ok => g.ok /\ LayoutStep(g, r).depth = g.depth + i - j
      BY <2>5 DEF i, j
    <3>4. ASSUME LayoutStep(g, r).ok
          PROVE  Len(Keep(a, r, Ifs)) = Len(Keep(b, r, {EndIf})) + LayoutStep(g, r).depth
      <4>1. Len(a) = Len(b) + g.depth /\ LayoutStep(g, r).depth = g.depth + i - j
        BY <2>2, <3>3, <3>4
      <4>2. \A u, v, d, k, l \in Nat : u = v + d => u + k = v + l + (d + k - l)
        OBVIOUS
      <4>3. Len(a) + i = Len(b) + j + (g.depth + i - j)
        BY <2>3, <3>1, <4>1, <4>2
      <4>. QED
        BY <3>2, <4>1, <4>3
    <3>. QED
      BY <3>4
  <2>. QED
    BY <2>1, <2>6
<1>3. \A p \in Seq(Rows) : p \in T
  <2> HIDE DEF T
  <2>. QED
    BY <1>1, <1>2, SeqInduction
<1>4. Len(Only(q, Ifs)) \in Nat /\ Len(Only(q, {EndIf})) \in Nat /\ Layout(q).depth \in Nat
  BY OnlyFold, LayoutFold, LenProperties DEF Layouts
<1>5. Len(Only(q, Ifs)) = Len(Only(q, {EndIf})) + Layout(q).depth
  BY <1>3
<1>. QED
  BY <1>4, <1>5 DEF Depth

\* The stage in force is the last one written.
LEMMA LastStageIs ==
  ASSUME NEW q \in Seq(Rows)
  PROVE  LastStage(q, Mixed) = Layout(q).now
<1> DEFINE T == {p \in Seq(Rows) :
                   Layout(p).now = IF Only(p, Stages) = <<>> THEN Mixed
                                   ELSE Last(Only(p, Stages))}
<1>1. <<>> \in T
  BY LayoutFold, OnlyFold, EmptySeq DEF LayoutStart, NoRows
<1>2. ASSUME NEW p \in Seq(Rows), NEW r \in Rows, p \in T PROVE Append(p, r) \in T
  <2> DEFINE a == Only(p, Stages)
             b == Only(Append(p, r), Stages)
  <2>1. /\ Append(p, r) \in Seq(Rows) /\ a \in Seq(Rows)
        /\ Layout(Append(p, r)) = LayoutStep(Layout(p), r)
        /\ b = Keep(a, r, Stages)
    BY LayoutFold, OnlyFold, AppendProperties
  <2>1a. Layout(Append(p, r)).now = IF r \in Stages THEN r ELSE Layout(p).now
    BY <2>1 DEF LayoutStep
  <2> HIDE DEF a, b
  <2>2. ASSUME r \in Stages PROVE b # <<>> /\ Last(b) = r
    <3>1. b = Append(a, r)
      BY <2>1, <2>2 DEF Keep
    <3>2. Len(b) = Len(a) + 1 /\ b[Len(a) + 1] = r /\ b \in Seq(Rows)
      BY <2>1, <3>1, AppendProperties
    <3>3. b # <<>>
      BY <2>1, <3>2, EmptySeq, LenProperties
    <3>. QED
      BY <3>2, <3>3 DEF Last
  <2>3. r \notin Stages => b = a
    BY <2>1 DEF Keep
  <2>. QED
    BY <1>2, <2>1, <2>1a, <2>2, <2>3 DEF a, b
<1>3. \A p \in Seq(Rows) : p \in T
  <2> HIDE DEF T
  <2>. QED
    BY <1>1, <1>2, SeqInduction
<1>. QED
  BY <1>3 DEF LastStage

\* The scan has found a plug-in row once it has seen one.
LEMMA ScopeFound ==
  ASSUME NEW s, NEW r, s.found \in BOOLEAN
  PROVE  ScopeStep(s, r).found <=> s.found \/ r \in Plugins
BY DEF ScopeStep, IsPlugin

\* has_capture_scoped_echonull finds a plug-in row where there is one.
LEMMA FoundIs ==
  ASSUME NEW q \in Seq(Rows)
  PROVE  CaptureScope(q).found <=> Only(q, Plugins) # <<>>
<1> DEFINE T == {p \in Seq(Rows) : CaptureScope(p).found <=> Only(p, Plugins) # <<>>}
<1>1. <<>> \in T
  BY ScopeFold, OnlyFold, EmptySeq DEF ScopeStart, NoRows
<1>2. ASSUME NEW p \in Seq(Rows), NEW r \in Rows, p \in T PROVE Append(p, r) \in T
  <2>1. /\ Append(p, r) \in Seq(Rows) /\ Only(p, Plugins) \in Seq(Rows)
        /\ CaptureScope(Append(p, r)) = ScopeStep(CaptureScope(p), r)
        /\ Only(Append(p, r), Plugins) = Keep(Only(p, Plugins), r, Plugins)
    BY ScopeFold, OnlyFold, AppendProperties
  <2>1a. CaptureScope(Append(p, r)).found <=> CaptureScope(p).found \/ r \in Plugins
    BY <2>1, ScopeFold, ScopeFound DEF Scopes
  <2>2. Append(Only(p, Plugins), r) # <<>>
    BY <2>1, AppendProperties
  <2>. QED
    BY <1>2, <2>1, <2>1a, <2>2 DEF Keep
<1>3. \A p \in Seq(Rows) : p \in T
  <2> HIDE DEF T
  <2>. QED
    BY <1>1, <1>2, SeqInduction
<1>. QED
  BY <1>3

\* Where the scan for scoped rows is outside conditions it is in the capture
\* stage exactly when the layout is.
LEMMA StageIs ==
  ASSUME NEW q \in Seq(Rows)
  PROVE  CaptureScope(q).stage <=> Layout(q).now = Capture
<1> DEFINE T == {p \in Seq(Rows) : CaptureScope(p).stage <=> Layout(p).now = Capture}
<1>1. <<>> \in T
  BY ScopeFold, LayoutFold, EmptySeq, RowsDiffer DEF ScopeStart, LayoutStart
<1>2. ASSUME NEW p \in Seq(Rows), NEW r \in Rows, p \in T PROVE Append(p, r) \in T
  <2>1. /\ Append(p, r) \in Seq(Rows)
        /\ CaptureScope(Append(p, r)).stage
             = IF r \in Stages THEN r = Capture ELSE CaptureScope(p).stage
        /\ Layout(Append(p, r)).now = IF r \in Stages THEN r ELSE Layout(p).now
    BY ScopeFold, LayoutFold, AppendProperties DEF ScopeStep, LayoutStep
  <2>. QED
    BY <1>2, <2>1
<1>3. \A p \in Seq(Rows) : p \in T
  <2> HIDE DEF T
  <2>. QED
    BY <1>1, <1>2, SeqInduction
<1>. QED
  BY <1>3


-----------------------------------------------------------------------------
(* Two files that do the same to the filters.                               *)

\* The fields of the layout after a row, one by one.
LEMMA LayoutFields ==
  ASSUME NEW g \in Layouts, NEW r \in Rows
  PROVE  /\ r \in {IfCapture, IfOther} => LayoutStep(g, r).depth = g.depth + 1
         /\ r = EndIf /\ g.depth > 0 => LayoutStep(g, r).depth = g.depth - 1
         /\ r \notin {IfCapture, IfOther, EndIf} => LayoutStep(g, r).depth = g.depth
         /\ LayoutStep(g, r).now = IF r \in Stages THEN r ELSE g.now
         /\ LayoutStep(g, r).base
              = IF r \in {IfCapture, IfOther} /\ g.depth = 0 THEN g.now ELSE g.base
         /\ LayoutStep(g, r).mark = MarkAfter(g.mark, r)
         /\ LayoutStep(g, r).plain <=> g.plain /\ r \notin {BeginMarker, EndMarker}
         /\ LayoutStep(g, r).ok <=>
              /\ g.ok /\ MarkFits(g.mark, r)
              /\ r \in {IfCapture, IfOther} => g.depth = 0 \/ g.now = g.base
              /\ r \in {Else, EndIf} => g.depth > 0 /\ g.now = g.base
<1>1. /\ r \in {IfCapture, IfOther} => LayoutStep(g, r).depth = g.depth + 1
      /\ r = EndIf /\ g.depth > 0 => LayoutStep(g, r).depth = g.depth - 1
      /\ r \notin {IfCapture, IfOther, EndIf} => LayoutStep(g, r).depth = g.depth
  BY RowsDiffer DEF LayoutStep
<1>2. /\ LayoutStep(g, r).now = IF r \in Stages THEN r ELSE g.now
      /\ LayoutStep(g, r).base
           = IF r \in {IfCapture, IfOther} /\ g.depth = 0 THEN g.now ELSE g.base
      /\ LayoutStep(g, r).mark = MarkAfter(g.mark, r)
  BY DEF LayoutStep
<1>3. LayoutStep(g, r).plain <=> g.plain /\ r \notin {BeginMarker, EndMarker}
  BY DEF LayoutStep
<1>4. LayoutStep(g, r).ok <=>
        /\ g.ok /\ MarkFits(g.mark, r)
        /\ r \in {IfCapture, IfOther} => g.depth = 0 \/ g.now = g.base
        /\ r \in {Else, EndIf} => g.depth > 0 /\ g.now = g.base
  BY DEF LayoutStep
<1>. QED
  BY <1>1, <1>2, <1>3, <1>4

\* The file o, written for q, is laid out well and without markers, has the same
\* conditions open and runs the same filters in the same order.  The stage in
\* force after it is left free: that is what the code adds rows for.
Alike(q, o, stage, condition) ==
  /\ Layout(o).ok /\ Layout(o).plain
  /\ Layout(o).depth = Layout(q).depth
  /\ Layout(q).depth > 0 => Layout(o).base = Layout(q).base
  /\ Run(o, stage, condition).open = Run(q, stage, condition).open
  /\ FiltersRun(o, stage, condition) = FiltersRun(q, stage, condition)

\* A Stage, plug-in or comment row more in the written file changes its stage only.
LEMMA AlikeExtra ==
  ASSUME NEW stage \in ApoStages, NEW condition \in BOOLEAN,
         NEW q \in Seq(Rows), NEW o \in Seq(Rows), Alike(q, o, stage, condition),
         NEW r \in Stages \union Plugins \union {Comment}
  PROVE  /\ r \in Rows /\ Append(o, r) \in Seq(Rows)
         /\ Alike(q, Append(o, r), stage, condition)
         /\ Layout(Append(o, r)).now = IF r \in Stages THEN r ELSE Layout(o).now
<1> DEFINE n == IF r \in Stages THEN r ELSE Layout(o).now
<1>1. Layout(o).mark = 0 /\ Layout(o) \in Layouts
  BY PlainMark, LayoutFold DEF Alike
<1>2. Layout(Append(o, r)) = [Layout(o) EXCEPT !.now = n]
  BY <1>1, Neutral
<1> HIDE DEF n
<1>3. /\ Layout(Append(o, r)).ok = Layout(o).ok
      /\ Layout(Append(o, r)).plain = Layout(o).plain
      /\ Layout(Append(o, r)).depth = Layout(o).depth
      /\ Layout(Append(o, r)).base = Layout(o).base
      /\ Layout(Append(o, r)).now = n
  BY <1>1, <1>2 DEF Layouts
<1>. QED
  BY <1>1, <1>3, Neutral DEF Alike, n

\* The same for such a row of the source that is not written.
LEMMA AlikeSkip ==
  ASSUME NEW stage \in ApoStages, NEW condition \in BOOLEAN,
         NEW q \in Seq(Rows), NEW o \in Seq(Rows), Alike(q, o, stage, condition),
         NEW r \in Stages \union Plugins \union {Comment}, Layout(q).mark = 0
  PROVE  /\ r \in Rows /\ Append(q, r) \in Seq(Rows)
         /\ Alike(Append(q, r), o, stage, condition)
         /\ Layout(Append(q, r)).now = IF r \in Stages THEN r ELSE Layout(q).now
         /\ Layout(Append(q, r)).ok <=> Layout(q).ok
<1> DEFINE n == IF r \in Stages THEN r ELSE Layout(q).now
<1>1. Layout(q) \in Layouts
  BY LayoutFold
<1>2. Layout(Append(q, r)) = [Layout(q) EXCEPT !.now = n]
  BY Neutral
<1> HIDE DEF n
<1>3. /\ Layout(Append(q, r)).ok = Layout(q).ok
      /\ Layout(Append(q, r)).depth = Layout(q).depth
      /\ Layout(Append(q, r)).base = Layout(q).base
      /\ Layout(Append(q, r)).now = n
  BY <1>1, <1>2 DEF Layouts
<1>. QED
  BY <1>1, <1>3, Neutral DEF Alike, n

\* Where the stage in force is the same, every row does the same in both.
LEMMA AlikeStep ==
  ASSUME NEW stage \in ApoStages, NEW condition \in BOOLEAN,
         NEW q \in Seq(Rows), NEW o \in Seq(Rows), Alike(q, o, stage, condition),
         NEW r \in Rows, Layout(q).mark = 0, Layout(Append(q, r)).ok,
         r \notin {BeginMarker, EndMarker},
         r \in Stages \union Plugins \union {Comment} \/ Layout(o).now = Layout(q).now
  PROVE  /\ Append(q, r) \in Seq(Rows) /\ Append(o, r) \in Seq(Rows)
         /\ Alike(Append(q, r), Append(o, r), stage, condition)
         /\ Layout(Append(o, r)).now = IF r \in Stages THEN r ELSE Layout(o).now
         /\ Layout(Append(q, r)).now = IF r \in Stages THEN r ELSE Layout(q).now
         /\ Layout(Append(q, r)).mark = 0 /\ Layout(q).ok
<1> DEFINE g == Layout(q)
           h == Layout(o)
           x == Run(q, stage, condition)
           y == Run(o, stage, condition)
<1>1. /\ Append(q, r) \in Seq(Rows) /\ Append(o, r) \in Seq(Rows)
      /\ Layout(Append(q, r)) = LayoutStep(g, r) /\ Layout(Append(o, r)) = LayoutStep(h, r)
      /\ g \in Layouts /\ h \in Layouts
  BY OneMore
<1>2. /\ Layout(Append(o, r)).now = IF r \in Stages THEN r ELSE Layout(o).now
      /\ Layout(Append(q, r)).now = IF r \in Stages THEN r ELSE Layout(q).now
  BY <1>1, LayoutFields
<1>3. MarkAfter(0, r) = 0 /\ MarkFits(0, r)
  BY DEF MarkAfter, MarkFits
<1>4. Layout(Append(q, r)).mark = 0 /\ g.ok
  BY <1>1, <1>3, LayoutFields
<1>5. h.mark = 0 /\ h.ok /\ h.plain
  BY PlainMark DEF Alike
<1>6. ASSUME r \in Stages \union Plugins \union {Comment}
      PROVE  Alike(Append(q, r), Append(o, r), stage, condition)
  <2>1. Alike(q, Append(o, r), stage, condition)
    BY <1>6, AlikeExtra
  <2>. QED
    BY <1>1, <1>6, <2>1, AlikeSkip
<1>7. ASSUME h.now = g.now
      PROVE  Alike(Append(q, r), Append(o, r), stage, condition)
  <2>1. h.depth = g.depth /\ (g.depth > 0 => h.base = g.base)
    BY DEF Alike
  <2> HIDE DEF g, h
  <2>2. /\ r \in {IfCapture, IfOther} => g.depth = 0 \/ g.now = g.base
        /\ r \in {Else, EndIf} => g.depth > 0 /\ g.now = g.base
    BY <1>1, LayoutFields
  <2>3. LayoutStep(h, r).ok /\ LayoutStep(h, r).plain
    <3>1. /\ r \in {IfCapture, IfOther} => h.depth = 0 \/ h.now = h.base
          /\ r \in {Else, EndIf} => h.depth > 0 /\ h.now = h.base
      BY <1>1, <1>7, <2>1, <2>2 DEF Layouts
    <3>. QED
      BY <1>1, <1>3, <1>5, <3>1, LayoutFields
  <2>4. LayoutStep(h, r).depth = LayoutStep(g, r).depth
    <3>1. r \in {IfCapture, IfOther} \/ (r = EndIf /\ g.depth > 0)
            \/ r \notin {IfCapture, IfOther, EndIf}
      BY <2>2
    <3>. QED
      BY <1>1, <2>1, <3>1, LayoutFields
  <2>5. LayoutStep(g, r).depth > 0 => LayoutStep(h, r).base = LayoutStep(g, r).base
    <3>1. LayoutStep(g, r).depth > 0 =>
            g.depth > 0 \/ (g.depth = 0 /\ r \in {IfCapture, IfOther})
      <4>1. g.depth \in Nat
        BY <1>1 DEF Layouts
      <4>2. r = EndIf => g.depth > 0
        BY <2>2
      <4>. QED
        BY <1>1, <4>1, <4>2, LayoutFields
    <3>2. LayoutStep(g, r).base
            = IF r \in {IfCapture, IfOther} /\ g.depth = 0 THEN g.now ELSE g.base
      BY <1>1, LayoutFields
    <3>3. LayoutStep(h, r).base
            = IF r \in {IfCapture, IfOther} /\ h.depth = 0 THEN h.now ELSE h.base
      BY <1>1, LayoutFields
    <3>. QED
      BY <1>7, <2>1, <3>1, <3>2, <3>3
  <2>6. Run(Append(o, r), stage, condition).open = Run(Append(q, r), stage, condition).open
    <3>1. /\ Run(Append(o, r), stage, condition) = RunStep(y, r, stage, condition)
          /\ Run(Append(q, r), stage, condition) = RunStep(x, r, stage, condition)
      BY OneMore
    <3>2. y.open = x.open
      BY DEF Alike
    <3> HIDE DEF x, y
    <3>. QED
      BY <3>1, <3>2 DEF RunStep
  <2>7. FiltersRun(Append(o, r), stage, condition) = FiltersRun(Append(q, r), stage, condition)
    <3>1. /\ FiltersRun(o, stage, condition) = FiltersRun(q, stage, condition)
          /\ y.open = x.open
      BY DEF Alike
    <3>2. LetThrough(x.open) => x.stages = StagesOf(g.now)
      BY <1>4, WellLaidOut DEF Sound, g
    <3>3. LetThrough(y.open) => y.stages = StagesOf(h.now)
      BY <1>5, WellLaidOut DEF Sound, h
    <3>4. LetThrough(x.open) /\ stage \in x.stages <=> LetThrough(y.open) /\ stage \in y.stages
      BY <1>7, <3>1, <3>2, <3>3
    <3>5. FiltersRun(Append(q, r), stage, condition)
            = IF r \in Filters /\ LetThrough(x.open) /\ stage \in x.stages
              THEN Append(FiltersRun(q, stage, condition), r)
              ELSE FiltersRun(q, stage, condition)
      BY OneMore
    <3>6. FiltersRun(Append(o, r), stage, condition)
            = IF r \in Filters /\ LetThrough(y.open) /\ stage \in y.stages
              THEN Append(FiltersRun(o, stage, condition), r)
              ELSE FiltersRun(o, stage, condition)
      BY OneMore
    <3> HIDE DEF x, y
    <3>. QED
      BY <3>1, <3>4, <3>5, <3>6
  <2>. QED
    BY <1>1, <2>3, <2>4, <2>5, <2>6, <2>7 DEF Alike
<1>. QED
  BY <1>1, <1>2, <1>4, <1>6, <1>7

\* The empty file does what the empty file does.
LEMMA AlikeEmpty ==
  ASSUME NEW stage \in ApoStages, NEW condition \in BOOLEAN
  PROVE  Alike(<<>>, <<>>, stage, condition) /\ <<>> \in Seq(Rows)
BY LayoutFold, EmptySeq DEF Alike, LayoutStart


-----------------------------------------------------------------------------
(* Adjacent capture rows become one.                                        *)

\* The EchoNull rows of a file.
PluginRows(q) == Only(q, Plugins)

\* The plug-in rows of a file with one more row.
LEMMA PluginStep ==
  ASSUME NEW q \in Seq(Rows), NEW r \in Rows
  PROVE  /\ PluginRows(q) \in Seq(Rows)
         /\ r \in Plugins => PluginRows(Append(q, r)) = Append(PluginRows(q), r)
         /\ r \notin Plugins => PluginRows(Append(q, r)) = PluginRows(q)
BY OnlyFold DEF PluginRows, Keep

\* A file without markers had none before its last row.
LEMMA PlainStep ==
  ASSUME NEW q \in Seq(Rows), NEW r \in Rows,
         Layout(Append(q, r)).ok, Layout(Append(q, r)).plain
  PROVE  /\ Layout(q).ok /\ Layout(q).plain /\ Layout(q).mark = 0
         /\ r \notin {BeginMarker, EndMarker} /\ Append(q, r) \in Seq(Rows)
<1>1. /\ Append(q, r) \in Seq(Rows) /\ Layout(q) \in Layouts
      /\ Layout(Append(q, r)) = LayoutStep(Layout(q), r)
  BY LayoutFold, AppendProperties
<1>2. Layout(q).ok /\ Layout(q).plain /\ r \notin {BeginMarker, EndMarker}
  BY <1>1, LayoutFields
<1>. QED
  BY <1>1, <1>2, PlainMark

\* A Stage row at the end is the stage in force.
LEMMA LastStageRow ==
  ASSUME NEW q \in Seq(Rows), q # <<>>, Last(q) \in Stages
  PROVE  Layout(q).now = Last(q)
<1> DEFINE T == {p \in Seq(Rows) : p # <<>> /\ Last(p) \in Stages => Layout(p).now = Last(p)}
<1>1. <<>> \in T
  BY EmptySeq
<1>2. ASSUME NEW p \in Seq(Rows), NEW r \in Rows, p \in T PROVE Append(p, r) \in T
  <2>1. Append(p, r) \in Seq(Rows) /\ Last(Append(p, r)) = r
    <3>1. /\ Append(p, r) \in Seq(Rows) /\ Len(Append(p, r)) = Len(p) + 1
          /\ Append(p, r)[Len(p) + 1] = r
      BY AppendProperties
    <3>. QED
      BY <3>1 DEF Last
  <2>2. Layout(Append(p, r)).now = IF r \in Stages THEN r ELSE Layout(p).now
    BY LayoutFold, LayoutFields
  <2>. QED
    BY <2>1, <2>2
<1>3. \A p \in Seq(Rows) : p \in T
  <2> HIDE DEF T
  <2>. QED
    BY <1>1, <1>2, SeqInduction
<1>. QED
  BY <1>3

\* Joining adjacent capture rows changes neither what runs nor the stage in force.
Collapsed(q, stage, condition) ==
  /\ Collapse(q) \in Seq(Rows)
  /\ Alike(q, Collapse(q), stage, condition)
  /\ Layout(Collapse(q)).now = Layout(q).now
  /\ PluginRows(Collapse(q)) = PluginRows(q)

\* That holds of every file without markers.
LEMMA CollapseIs ==
  ASSUME NEW stage \in ApoStages, NEW condition \in BOOLEAN,
         NEW q \in Seq(Rows), Layout(q).ok, Layout(q).plain
  PROVE  Collapsed(q, stage, condition)
<1> DEFINE T == {p \in Seq(Rows) : Layout(p).ok /\ Layout(p).plain =>
                   Collapsed(p, stage, condition)}
<1>1. <<>> \in T
  BY CollapseFold, AlikeEmpty DEF Collapsed, NoRows
<1>2. ASSUME NEW p \in Seq(Rows), NEW r \in Rows, p \in T PROVE Append(p, r) \in T
  <2> DEFINE o == Collapse(p)
             n == Append(p, r)
  <2>1. n \in Seq(Rows) /\ Collapse(n) = CollapseStep(o, r) /\ o \in Seq(Rows)
    BY CollapseFold, AppendProperties
  <2>2. SUFFICES ASSUME Layout(n).ok, Layout(n).plain
                 PROVE  Collapsed(n, stage, condition)
    BY <2>1
  <2>3. Layout(p).ok /\ Layout(p).plain /\ Layout(p).mark = 0 /\ r \notin {BeginMarker, EndMarker}
    BY <2>2, PlainStep
  <2>4. /\ Alike(p, o, stage, condition) /\ Layout(o).now = Layout(p).now
        /\ PluginRows(o) = PluginRows(p)
    BY <1>2, <2>3 DEF Collapsed
  <2> HIDE DEF o, T
  <2>5. CASE r = Capture /\ o # <<>> /\ Last(o) = Capture
    <3>1. Collapse(n) = o
      BY <2>1, <2>5 DEF CollapseStep
    <3>2. r \in Stages
      BY <2>5, RowsAre
    <3>3. Alike(n, o, stage, condition) /\ Layout(n).now = r
      BY <2>1, <2>3, <2>4, <3>2, AlikeSkip
    <3>4. Layout(o).now = Capture
      BY <2>1, <2>5, <3>2, LastStageRow
    <3>5. PluginRows(n) = PluginRows(p)
      BY <3>2, PluginStep, RowKinds
    <3>. QED
      BY <2>1, <2>4, <2>5, <3>1, <3>3, <3>4, <3>5 DEF Collapsed
  <2>6. CASE ~(r = Capture /\ o # <<>> /\ Last(o) = Capture)
    <3>1. Collapse(n) = Append(o, r)
      BY <2>1, <2>6 DEF CollapseStep
    <3>2. /\ Append(o, r) \in Seq(Rows)
          /\ Alike(n, Append(o, r), stage, condition)
          /\ Layout(Append(o, r)).now = IF r \in Stages THEN r ELSE Layout(o).now
          /\ Layout(n).now = IF r \in Stages THEN r ELSE Layout(p).now
      BY <2>1, <2>2, <2>3, <2>4, AlikeStep
    <3>3. PluginRows(Append(o, r)) = PluginRows(n)
      <4>1. /\ r \in Plugins => PluginRows(Append(o, r)) = Append(PluginRows(o), r)
            /\ r \notin Plugins => PluginRows(Append(o, r)) = PluginRows(o)
        BY <2>1, PluginStep
      <4>2. /\ r \in Plugins => PluginRows(n) = Append(PluginRows(p), r)
            /\ r \notin Plugins => PluginRows(n) = PluginRows(p)
        BY PluginStep
      <4>. QED
        BY <2>4, <4>1, <4>2
    <3> HIDE DEF n
    <3>. QED
      BY <2>4, <3>1, <3>2, <3>3 DEF Collapsed
  <2>. QED
    BY <2>5, <2>6
<1>3. \A p \in Seq(Rows) : p \in T
  <2> HIDE DEF T
  <2>. QED
    BY <1>1, <1>2, SeqInduction
<1>. QED
  BY <1>3

-----------------------------------------------------------------------------
(* A Stage row that applies to nothing yet may be rewritten.                *)

\* The fields of the scan after a row, one by one.
LEMMA ScopeFields ==
  ASSUME NEW s \in Scopes, NEW r \in Rows
  PROVE  /\ ScopeStep(s, r).frames = Track(s.frames, r)
         /\ ScopeStep(s, r).ok <=>
              s.ok /\ (r \in Plugins => s.stage \/ CaptureConditionActive(s.frames))
         /\ r \notin {IfCapture, IfOther, Else, EndIf} => Track(s.frames, r) = s.frames
<1>1. ScopeStep(s, r).frames = Track(s.frames, r)
  BY DEF ScopeStep
<1>2. ScopeStep(s, r).ok <=>
        s.ok /\ (r \in Plugins => s.stage \/ CaptureConditionActive(s.frames))
  BY DEF ScopeStep, IsPlugin
<1>3. r \notin {IfCapture, IfOther, Else, EndIf} => Track(s.frames, r) = s.frames
  BY DEF Track
<1>. QED
  BY <1>1, <1>2, <1>3

\* v differs from o in the stage in force alone.
SameBut(o, v, stage, condition) ==
  /\ Layout(v).ok = Layout(o).ok /\ Layout(v).plain = Layout(o).plain
  /\ Layout(v).depth = Layout(o).depth /\ Layout(v).base = Layout(o).base
  /\ Layout(v).mark = Layout(o).mark
  /\ Run(v, stage, condition).open = Run(o, stage, condition).open
  /\ FiltersRun(v, stage, condition) = FiltersRun(o, stage, condition)
  /\ PluginRows(v) = PluginRows(o)
  /\ CaptureScope(v).ok = CaptureScope(o).ok
  /\ CaptureScope(v).frames = CaptureScope(o).frames

\* A Stage row or a comment at the end changes the stage in force alone.
LEMMA SameButStage ==
  ASSUME NEW stage \in ApoStages, NEW condition \in BOOLEAN,
         NEW u \in Seq(Rows), Layout(u).mark = 0, NEW r \in Stages \union {Comment}
  PROVE  /\ SameBut(u, Append(u, r), stage, condition)
         /\ Layout(Append(u, r)).now = IF r \in Stages THEN r ELSE Layout(u).now
         /\ Append(u, r) \in Seq(Rows)
<1>1. /\ r \in Rows /\ Append(u, r) \in Seq(Rows)
      /\ Layout(Append(u, r)) = [Layout(u) EXCEPT !.now = IF r \in Stages THEN r ELSE @]
      /\ Run(Append(u, r), stage, condition).open = Run(u, stage, condition).open
      /\ FiltersRun(Append(u, r), stage, condition) = FiltersRun(u, stage, condition)
  BY Neutral
<1> DEFINE n == IF r \in Stages THEN r ELSE Layout(u).now
<1>2. Layout(u) \in Layouts /\ Layout(Append(u, r)) = [Layout(u) EXCEPT !.now = n]
  BY <1>1, LayoutFold
<1> HIDE DEF n
<1>3. /\ Layout(Append(u, r)).ok = Layout(u).ok
      /\ Layout(Append(u, r)).plain = Layout(u).plain
      /\ Layout(Append(u, r)).depth = Layout(u).depth
      /\ Layout(Append(u, r)).base = Layout(u).base
      /\ Layout(Append(u, r)).mark = Layout(u).mark
      /\ Layout(Append(u, r)).now = n
  BY <1>2 DEF Layouts
<1>4. r \notin Plugins /\ r \notin {IfCapture, IfOther, Else, EndIf}
  BY <1>1, RowKinds, RowsAre
<1>5. PluginRows(Append(u, r)) = PluginRows(u)
  BY <1>1, <1>4, PluginStep
<1>6. CaptureScope(Append(u, r)) = ScopeStep(CaptureScope(u), r)
      /\ CaptureScope(u) \in Scopes /\ CaptureScope(Append(u, r)) \in Scopes
  BY <1>1, ScopeFold
<1>7. CaptureScope(Append(u, r)).frames = CaptureScope(u).frames
  BY <1>1, <1>4, <1>6, ScopeFields
<1>8. CaptureScope(Append(u, r)).ok = CaptureScope(u).ok
  <2>1. CaptureScope(Append(u, r)).ok <=> CaptureScope(u).ok
    BY <1>1, <1>4, <1>6, ScopeFields
  <2>. QED
    BY <1>6, <2>1 DEF Scopes
<1>. QED
  BY <1>1, <1>3, <1>5, <1>7, <1>8 DEF SameBut, n

\* Append reaches through a concatenation.
LEMMA ConcatAppend ==
  ASSUME NEW S, NEW s \in Seq(S), NEW t \in Seq(S), NEW e \in S
  PROVE  s \o Append(t, e) = Append(s \o t, e)
<1>1. /\ Append(t, e) = t \o <<e>> /\ <<e>> \in Seq(S) /\ s \o t \in Seq(S)
  BY AppendIsConcat, ConcatProperties
<1>2. Append(s \o t, e) = (s \o t) \o <<e>>
  BY <1>1, AppendIsConcat
<1>3. (s \o t) \o <<e>> = s \o (t \o <<e>>)
  BY <1>1, ConcatAssociative
<1>. QED
  BY <1>1, <1>2, <1>3

\* Comments at the end change nothing.
LEMMA CommentTail ==
  ASSUME NEW stage \in ApoStages, NEW condition \in BOOLEAN,
         NEW u \in Seq(Rows), Layout(u).mark = 0, NEW c \in Seq({Comment})
  PROVE  /\ SameBut(u, u \o c, stage, condition)
         /\ Layout(u \o c).now = Layout(u).now /\ u \o c \in Seq(Rows)
<1> DEFINE T == {d \in Seq({Comment}) :
                   /\ SameBut(u, u \o d, stage, condition)
                   /\ Layout(u \o d).now = Layout(u).now /\ u \o d \in Seq(Rows)}
<1>1. <<>> \in T
  <2>1. u \o <<>> = u /\ <<>> \in Seq({Comment})
    BY ConcatEmptySeq, EmptySeq
  <2>. QED
    BY <2>1 DEF SameBut
<1>2. ASSUME NEW d \in Seq({Comment}), NEW r \in {Comment}, d \in T PROVE Append(d, r) \in T
  <2>0. Comment \notin Stages /\ Comment \in Rows
    BY RowsAre, RowKinds
  <2>1. Append(d, r) \in Seq({Comment}) /\ u \o Append(d, r) = Append(u \o d, r)
    <3>1. d \in Seq(Rows) /\ r \in Rows
      BY <2>0
    <3>2. u \o Append(d, r) = Append(u \o d, r)
      BY <3>1, ConcatAppend
    <3>. QED
      BY <3>2, AppendProperties
  <2>2. /\ SameBut(u, u \o d, stage, condition)
        /\ Layout(u \o d).now = Layout(u).now /\ u \o d \in Seq(Rows)
    BY <1>2
  <2> DEFINE v == u \o d
  <2> HIDE DEF v, T
  <2>3. SameBut(u, v, stage, condition) /\ Layout(v).now = Layout(u).now /\ v \in Seq(Rows)
    BY <2>2 DEF v
  <2>4. Layout(v).mark = 0
    BY <2>3 DEF SameBut
  <2>5. /\ SameBut(v, Append(v, r), stage, condition)
        /\ Layout(Append(v, r)).now = Layout(v).now /\ Append(v, r) \in Seq(Rows)
    BY <2>0, <2>3, <2>4, SameButStage
  <2>6. /\ SameBut(u, Append(v, r), stage, condition)
        /\ Layout(Append(v, r)).now = Layout(u).now /\ Append(v, r) \in Seq(Rows)
    BY <2>3, <2>5 DEF SameBut
  <2>. QED
    BY <2>1, <2>6 DEF T, v
<1>3. \A d \in Seq({Comment}) : d \in T
  <2> HIDE DEF T
  <2>. QED
    BY <1>1, <1>2, SeqInduction
<1>. QED
  BY <1>3

\* Row n is a Stage row with nothing after it but comments.
Reusable(o, n, original) ==
  \E u \in Seq(Rows), c \in Seq({Comment}) :
    /\ Layout(u).mark = 0 /\ Len(u) + 1 = n
    /\ o = Append(u, original) \o c

\* A reusable Stage row may be rewritten to capture: the stage in force changes
\* and nothing else, since no row has been read under it.
LEMMA Reuse ==
  ASSUME NEW stage \in ApoStages, NEW condition \in BOOLEAN,
         NEW o \in Seq(Rows), NEW n, NEW original \in Stages,
         Reusable(o, n, original)
  PROVE  /\ [o EXCEPT ![n] = Capture] \in Seq(Rows)
         /\ SameBut(o, [o EXCEPT ![n] = Capture], stage, condition)
         /\ Layout([o EXCEPT ![n] = Capture]).now = Capture
<1>1. PICK u \in Seq(Rows), c \in Seq({Comment}) :
        /\ Layout(u).mark = 0 /\ Len(u) + 1 = n
        /\ o = Append(u, original) \o c
  BY DEF Reusable
<1> DEFINE p == Append(u, original)
           w == Append(u, Capture)
           v == w \o c
<1>2. Capture \in Stages /\ Capture \in Rows /\ original \in Rows /\ Comment \in Rows
  BY RowsAre
<1>3. SameBut(u, p, stage, condition) /\ p \in Seq(Rows)
  BY <1>1, SameButStage
<1>4. SameBut(u, w, stage, condition) /\ w \in Seq(Rows) /\ Layout(w).now = Capture
  BY <1>1, <1>2, SameButStage
<1>5. SameBut(p, p \o c, stage, condition) /\ p \o c \in Seq(Rows)
  <2>1. Layout(p).mark = 0
    BY <1>1, <1>3 DEF SameBut
  <2> HIDE DEF p
  <2>. QED
    BY <1>3, <2>1, CommentTail
<1>6. SameBut(w, v, stage, condition) /\ v \in Seq(Rows) /\ Layout(v).now = Layout(w).now
  <2>1. Layout(w).mark = 0
    BY <1>1, <1>4 DEF SameBut
  <2> HIDE DEF w
  <2>. QED
    BY <1>4, <2>1, CommentTail
<1>7. [o EXCEPT ![n] = Capture] = v
  <2>1. PICK k \in Nat : k = Len(u) /\ n = k + 1
    BY <1>1, LenProperties
  <2>2. /\ Len(p) = k + 1 /\ Len(w) = k + 1 /\ p[k + 1] = original /\ w[k + 1] = Capture
        /\ \A i \in 1..k : p[i] = w[i]
    BY <1>1, <1>2, <2>1, AppendProperties
  <2>2a. c \in Seq(Rows)
    BY <1>2
  <2>3. /\ Len(p \o c) = Len(p) + Len(c) /\ Len(v) = Len(w) + Len(c) /\ Len(c) \in Nat
        /\ \A i \in 1..(Len(p) + Len(c)) :
             (p \o c)[i] = IF i <= Len(p) THEN p[i] ELSE c[i - Len(p)]
        /\ \A i \in 1..(Len(w) + Len(c)) :
             v[i] = IF i <= Len(w) THEN w[i] ELSE c[i - Len(w)]
    BY <1>3, <1>4, <2>2a, ConcatProperties, LenProperties
  <2> DEFINE m == k + 1 + Len(c)
  <2> HIDE DEF p, w, v
  <2>4. m \in Nat /\ n \in 1..m /\ Len(o) = m /\ Len(v) = m
    BY <1>1, <2>1, <2>2, <2>3 DEF p
  <2>5. ASSUME NEW i \in 1..m, i # n PROVE o[i] = v[i]
    <3>1. o[i] = IF i <= k + 1 THEN p[i] ELSE c[i - (k + 1)]
      BY <1>1, <2>2, <2>3 DEF p, m
    <3>2. v[i] = IF i <= k + 1 THEN w[i] ELSE c[i - (k + 1)]
      BY <2>2, <2>3 DEF m
    <3>. QED
      BY <2>1, <2>2, <2>5, <3>1, <3>2
  <2>6. v[n] = Capture
    BY <2>1, <2>2, <2>3, <2>4 DEF m
  <2> HIDE DEF m
  <2>7. o \in [1..m -> Rows] /\ v \in [1..m -> Rows]
    BY <1>6, <2>4, LenProperties
  <2>8. v = [i \in 1..m |-> v[i]]
    BY <2>7
  <2>9. [o EXCEPT ![n] = Capture] = [i \in 1..m |-> IF i = n THEN Capture ELSE o[i]]
    BY <2>4, <2>7
  <2>. QED
    BY <2>5, <2>6, <2>8, <2>9
<1>8. SameBut(o, v, stage, condition)
  BY <1>1, <1>3, <1>4, <1>5, <1>6 DEF SameBut
<1>. QED
  BY <1>4, <1>6, <1>7, <1>8


-----------------------------------------------------------------------------
(* The main loop of install_echonull_capture_scope.                         *)

\* s is the loop over the rows of q, stopped after the last of them.
Looped(q, s, stage, condition) ==
  /\ Alike(q, s.out, stage, condition)
  /\ PluginRows(s.out) = PluginRows(q)
  /\ CaptureScope(s.out).frames = s.frames /\ CaptureScope(s.out).ok
  /\ s.original = Layout(q).now
  /\ s.captureOnly <=> Layout(s.out).now = Capture
  /\ s.restore # NoRow => s.restore = Layout(q).now /\ s.captureOnly
  /\ s.restore # Capture
  /\ s.restore = NoRow => Layout(s.out).now = Layout(q).now
  /\ s.found <=> PluginRows(q) # <<>>
  /\ s.reusable # 0 => Reusable(s.out, s.reusable, s.original)

\* What each branch of the loop body writes.
LEMMA LoopComment ==
  ASSUME NEW s \in Loops, NEW r \in Comments, NEW t, t = LoopStep(s, r)
  PROVE  /\ t.out = Append(s.out, r) /\ t.frames = s.frames
         /\ t.reusable = s.reusable /\ t.original = s.original
         /\ t.restore = s.restore /\ t.captureOnly = s.captureOnly
         /\ t.found = s.found
<1>1. t = [s EXCEPT !.out = Append(@, r)]
  BY RowsAre, RowKinds DEF LoopStep, IsPlugin
<1>. QED
  BY <1>1 DEF Loops

\* The branch for a Stage row.
LEMMA LoopStage ==
  ASSUME NEW s \in Loops, NEW r \in Stages, NEW t, t = LoopStep(s, r)
  PROVE  /\ t.out = Append(s.out, r) /\ t.frames = s.frames
         /\ t.reusable = Len(s.out) + 1 /\ t.original = r
         /\ t.restore = NoRow /\ t.captureOnly = (r = Capture)
         /\ t.found = s.found
<1>1. r \notin Comments /\ r \notin Plugins
  BY RowsAre, RowKinds
<1>2. t = OnStage(s, r)
  BY <1>1 DEF LoopStep, IsPlugin
<1> DEFINE b == r = Capture
           o == Append(s.out, r)
           n == Len(s.out) + 1
<1>3. t = [s EXCEPT !.restore = NoRow, !.original = r, !.captureOnly = b,
                    !.reusable = n, !.out = o]
  BY <1>2 DEF OnStage
<1> HIDE DEF b, o, n
<1>4. /\ t.out = o /\ t.frames = s.frames /\ t.reusable = n /\ t.original = r
      /\ t.restore = NoRow /\ t.captureOnly = b /\ t.found = s.found
  BY <1>3 DEF Loops
<1>. QED
  BY <1>4 DEF b, o, n

\* The branch for a plug-in row: scoped already, or a capture row put before it.
LEMMA LoopPlugin ==
  ASSUME NEW s \in Loops, NEW r \in Plugins, NEW t, t = LoopStep(s, r)
  PROVE  /\ t.frames = s.frames /\ t.reusable = 0 /\ t.original = s.original
         /\ t.found
         /\ s.captureOnly \/ CaptureConditionActive(s.frames) =>
              /\ t.out = Append(s.out, r) /\ t.restore = s.restore
              /\ t.captureOnly = s.captureOnly
         /\ ~(s.captureOnly \/ CaptureConditionActive(s.frames)) =>
              /\ t.out = Append(IF s.reusable # 0
                                THEN [s.out EXCEPT ![s.reusable] = Capture]
                                ELSE Append(s.out, Capture), r)
              /\ t.restore = s.original /\ t.captureOnly
<1>1. r \notin Comments /\ r \notin Stages
  BY RowsAre, RowKinds DEF Rows
<1>2. t = OnPlugin(s, r)
  BY <1>1 DEF LoopStep, IsPlugin
<1> DEFINE o == Append(s.out, r)
           w == IF s.reusable # 0 THEN [s.out EXCEPT ![s.reusable] = Capture]
                ELSE Append(s.out, Capture)
           v == Append(w, r)
<1>3. s.captureOnly \/ CaptureConditionActive(s.frames) =>
        t = [s EXCEPT !.found = TRUE, !.reusable = 0, !.out = o]
  BY <1>2 DEF OnPlugin
<1>4. ~(s.captureOnly \/ CaptureConditionActive(s.frames)) =>
        t = [s EXCEPT !.found = TRUE, !.reusable = 0, !.captureOnly = TRUE,
                      !.restore = s.original, !.out = v]
  BY <1>2 DEF OnPlugin
<1> HIDE DEF o, w, v
<1>5. ASSUME s.captureOnly \/ CaptureConditionActive(s.frames)
      PROVE  /\ t.frames = s.frames /\ t.reusable = 0 /\ t.original = s.original
             /\ t.found /\ t.out = o /\ t.restore = s.restore
             /\ t.captureOnly = s.captureOnly
  <2>1. t = [s EXCEPT !.found = TRUE, !.reusable = 0, !.out = o]
    BY <1>3, <1>5
  <2>. QED
    BY <2>1 DEF Loops
<1>6. ASSUME ~(s.captureOnly \/ CaptureConditionActive(s.frames))
      PROVE  /\ t.frames = s.frames /\ t.reusable = 0 /\ t.original = s.original
             /\ t.found /\ t.out = v /\ t.restore = s.original /\ t.captureOnly
  <2>1. t = [s EXCEPT !.found = TRUE, !.reusable = 0, !.captureOnly = TRUE,
                      !.restore = s.original, !.out = v]
    BY <1>4, <1>6
  <2>. QED
    BY <2>1 DEF Loops
<1>. QED
  BY <1>5, <1>6 DEF o, w, v

\* The branch for every other row: the former stage is put back first.
LEMMA LoopOther ==
  ASSUME NEW s \in Loops, NEW r \in Rows, r \notin Comments, r \notin Stages,
         r \notin Plugins, NEW t, t = LoopStep(s, r)
  PROVE  /\ t.frames = Track(s.frames, r) /\ t.reusable = 0 /\ t.original = s.original
         /\ t.found = s.found /\ t.restore = NoRow
         /\ s.restore = NoRow => /\ t.out = Append(s.out, r)
                                 /\ t.captureOnly = s.captureOnly
         /\ s.restore # NoRow => /\ t.out = Append(Append(s.out, s.restore), r)
                                 /\ ~t.captureOnly
<1>1. t = OnOther(s, r)
  BY DEF LoopStep, IsPlugin
<1> DEFINE o == Append(s.out, r)
           v == Append(Append(s.out, s.restore), r)
           f == Track(s.frames, r)
<1>2. s.restore = NoRow => t = [s EXCEPT !.reusable = 0, !.frames = f, !.out = o]
  BY <1>1 DEF OnOther
<1>3. s.restore # NoRow =>
        t = [s EXCEPT !.restore = NoRow, !.captureOnly = FALSE, !.reusable = 0,
                      !.frames = f, !.out = v]
  BY <1>1 DEF OnOther, Loops
<1> HIDE DEF o, v, f
<1>4. ASSUME s.restore = NoRow
      PROVE  /\ t.frames = f /\ t.reusable = 0 /\ t.original = s.original
             /\ t.found = s.found /\ t.restore = NoRow /\ t.out = o
             /\ t.captureOnly = s.captureOnly
  <2>1. t = [s EXCEPT !.reusable = 0, !.frames = f, !.out = o]
    BY <1>2, <1>4
  <2>. QED
    BY <1>4, <2>1 DEF Loops
<1>5. ASSUME s.restore # NoRow
      PROVE  /\ t.frames = f /\ t.reusable = 0 /\ t.original = s.original
             /\ t.found = s.found /\ t.restore = NoRow /\ t.out = v
             /\ ~t.captureOnly
  <2>1. t = [s EXCEPT !.restore = NoRow, !.captureOnly = FALSE, !.reusable = 0,
                      !.frames = f, !.out = v]
    BY <1>3, <1>5
  <2>. QED
    BY <1>5, <2>1 DEF Loops
<1>. QED
  BY <1>4, <1>5 DEF o, v, f

\* A file that does the same, in the same stage, with every plug-in row scoped.
Scoped(q, w, stage, condition) ==
  /\ w \in Seq(Rows) /\ Alike(q, w, stage, condition)
  /\ PluginRows(w) = PluginRows(q) /\ CaptureScope(w).ok

\* A plug-in row written in the capture stage or under a capture condition is scoped.
LEMMA ScopedPlugin ==
  ASSUME NEW stage \in ApoStages, NEW condition \in BOOLEAN,
         NEW q \in Seq(Rows), NEW r \in Plugins, Layout(q).mark = 0,
         Layout(Append(q, r)).ok, NEW w, Scoped(q, w, stage, condition),
         Layout(w).now = Capture \/ CaptureConditionActive(CaptureScope(w).frames)
  PROVE  /\ Scoped(Append(q, r), Append(w, r), stage, condition)
         /\ PluginRows(Append(q, r)) # <<>>
         /\ CaptureScope(Append(w, r)).frames = CaptureScope(w).frames
         /\ Layout(Append(w, r)).now = Layout(w).now
         /\ Layout(Append(q, r)).now = Layout(q).now
<1>1. r \in Rows /\ r \notin Stages /\ r \notin {BeginMarker, EndMarker}
      /\ r \notin {IfCapture, IfOther, Else, EndIf}
  BY RowsAre, RowKinds
<1>2. /\ w \in Seq(Rows) /\ Alike(q, w, stage, condition)
      /\ PluginRows(w) = PluginRows(q) /\ CaptureScope(w).ok
  BY DEF Scoped
<1>3. /\ Append(q, r) \in Seq(Rows) /\ Append(w, r) \in Seq(Rows)
      /\ Alike(Append(q, r), Append(w, r), stage, condition)
      /\ Layout(Append(w, r)).now = Layout(w).now
      /\ Layout(Append(q, r)).now = Layout(q).now
  BY <1>1, <1>2, AlikeStep
<1>4. /\ PluginRows(Append(q, r)) = Append(PluginRows(q), r)
      /\ PluginRows(Append(w, r)) = Append(PluginRows(w), r)
      /\ PluginRows(q) \in Seq(Rows)
  BY <1>1, <1>2, PluginStep
<1>5. Append(PluginRows(q), r) # <<>>
  BY <1>1, <1>4, AppendProperties
<1>6. /\ CaptureScope(w) \in Scopes /\ CaptureScope(Append(w, r)) = ScopeStep(CaptureScope(w), r)
      /\ CaptureScope(w).stage <=> Layout(w).now = Capture
  BY <1>1, <1>2, ScopeFold, StageIs
<1>7. CaptureScope(Append(w, r)).frames = CaptureScope(w).frames
  BY <1>1, <1>6, ScopeFields
<1>8. CaptureScope(Append(w, r)).ok
  BY <1>1, <1>2, <1>6, ScopeFields
<1>. QED
  BY <1>2, <1>3, <1>4, <1>5, <1>7, <1>8 DEF Scoped

\* Any other row, written where the stage in force is the one of the source.
LEMMA ScopedOther ==
  ASSUME NEW stage \in ApoStages, NEW condition \in BOOLEAN,
         NEW q \in Seq(Rows), NEW r \in Rows, r \notin Plugins,
         r \notin {BeginMarker, EndMarker}, Layout(q).mark = 0,
         Layout(Append(q, r)).ok, NEW w, Scoped(q, w, stage, condition),
         Layout(w).now = Layout(q).now \/ r \in Stages \union {Comment}
  PROVE  /\ Scoped(Append(q, r), Append(w, r), stage, condition)
         /\ PluginRows(Append(q, r)) = PluginRows(q)
         /\ CaptureScope(Append(w, r)).frames = Track(CaptureScope(w).frames, r)
         /\ Layout(Append(w, r)).now = IF r \in Stages THEN r ELSE Layout(w).now
         /\ Layout(Append(q, r)).now = IF r \in Stages THEN r ELSE Layout(q).now
<1>2. /\ w \in Seq(Rows) /\ Alike(q, w, stage, condition)
      /\ PluginRows(w) = PluginRows(q) /\ CaptureScope(w).ok
  BY DEF Scoped
<1>3. /\ Append(q, r) \in Seq(Rows) /\ Append(w, r) \in Seq(Rows)
      /\ Alike(Append(q, r), Append(w, r), stage, condition)
      /\ Layout(Append(w, r)).now = IF r \in Stages THEN r ELSE Layout(w).now
      /\ Layout(Append(q, r)).now = IF r \in Stages THEN r ELSE Layout(q).now
  BY <1>2, AlikeStep
<1>4. PluginRows(Append(q, r)) = PluginRows(q) /\ PluginRows(Append(w, r)) = PluginRows(w)
  BY <1>2, PluginStep
<1>6. CaptureScope(w) \in Scopes /\ CaptureScope(Append(w, r)) = ScopeStep(CaptureScope(w), r)
  BY <1>2, ScopeFold
<1>7. CaptureScope(Append(w, r)).frames = Track(CaptureScope(w).frames, r)
  BY <1>6, ScopeFields
<1>8. CaptureScope(Append(w, r)).ok
  BY <1>2, <1>6, ScopeFields
<1>. QED
  BY <1>2, <1>3, <1>4, <1>7, <1>8 DEF Scoped

\* A Stage row put after the rows, or written over a reusable one.
LEMMA ScopedStage ==
  ASSUME NEW stage \in ApoStages, NEW condition \in BOOLEAN,
         NEW q \in Seq(Rows), NEW r \in Stages, NEW w, Scoped(q, w, stage, condition)
  PROVE  /\ Scoped(q, Append(w, r), stage, condition)
         /\ CaptureScope(Append(w, r)).frames = CaptureScope(w).frames
         /\ Layout(Append(w, r)).now = r
<1>1. /\ w \in Seq(Rows) /\ Alike(q, w, stage, condition)
      /\ PluginRows(w) = PluginRows(q) /\ CaptureScope(w).ok
  BY DEF Scoped
<1>2. Layout(w).mark = 0
  BY <1>1, PlainMark DEF Alike
<1>3. /\ SameBut(w, Append(w, r), stage, condition)
      /\ Layout(Append(w, r)).now = r /\ Append(w, r) \in Seq(Rows)
  BY <1>1, <1>2, SameButStage
<1>4. Alike(q, Append(w, r), stage, condition)
  BY <1>1, AlikeExtra
<1>. QED
  BY <1>1, <1>3, <1>4 DEF SameBut, Scoped

\* A comment after a reusable row leaves it reusable.
LEMMA ReusableComment ==
  ASSUME NEW o, NEW n, NEW original \in Stages, Reusable(o, n, original)
  PROVE  Reusable(Append(o, Comment), n, original)
<1>1. PICK u \in Seq(Rows), c \in Seq({Comment}) :
        /\ Layout(u).mark = 0 /\ Len(u) + 1 = n
        /\ o = Append(u, original) \o c
  BY DEF Reusable
<1>2. Comment \in Rows /\ original \in Rows
  BY RowsAre
<1>3. Append(u, original) \in Seq(Rows) /\ c \in Seq(Rows)
      /\ Append(c, Comment) \in Seq({Comment})
  BY <1>2, AppendProperties
<1>4. Append(u, original) \o Append(c, Comment) = Append(o, Comment)
  BY <1>1, <1>2, <1>3, ConcatAppend
<1>. QED
  BY <1>1, <1>3, <1>4 DEF Reusable

\* Every branch of the loop body keeps the loop invariant.
LEMMA LoopedStep ==
  ASSUME NEW stage \in ApoStages, NEW condition \in BOOLEAN,
         NEW q \in Seq(Rows), NEW r \in Rows, NEW s \in Loops,
         Looped(q, s, stage, condition),
         Layout(Append(q, r)).ok, Layout(Append(q, r)).plain
  PROVE  Looped(Append(q, r), LoopStep(s, r), stage, condition)
<1> DEFINE o == s.out
           n == Append(q, r)
           f == s.frames
<1>1. PICK t \in Loops : t = LoopStep(s, r)
  BY LoopType
<1>2. /\ o \in Seq(Rows) /\ s.original \in Stages /\ s.captureOnly \in BOOLEAN
      /\ s.found \in BOOLEAN /\ s.reusable \in Nat
      /\ s.restore \in Stages \union {NoRow}
  BY DEF Loops
<1>3. /\ Layout(q).ok /\ Layout(q).mark = 0 /\ r \notin {BeginMarker, EndMarker}
      /\ n \in Seq(Rows)
  BY PlainStep
<1>4. /\ Alike(q, o, stage, condition) /\ PluginRows(o) = PluginRows(q)
      /\ CaptureScope(o).frames = f /\ CaptureScope(o).ok
      /\ s.original = Layout(q).now
      /\ s.captureOnly <=> Layout(o).now = Capture
      /\ s.restore # NoRow => s.restore = Layout(q).now /\ s.captureOnly
      /\ s.restore # Capture
      /\ s.restore = NoRow => Layout(o).now = Layout(q).now
      /\ s.found <=> PluginRows(q) # <<>>
      /\ s.reusable # 0 => Reusable(o, s.reusable, s.original)
  BY DEF Looped
<1>5. Scoped(q, o, stage, condition) /\ Layout(o).mark = 0
  BY <1>2, <1>4, PlainMark DEF Scoped, Alike
<1> HIDE DEF o, n, f
<1>6. CASE r \in Comments
  <2>1. r = Comment
    BY <1>3, <1>6, RowsAre
  <2>2. r \notin Stages /\ r \notin Plugins /\ r \notin {IfCapture, IfOther, Else, EndIf}
    BY <1>6, RowKinds
  <2>3. /\ t.out = Append(o, r) /\ t.frames = f
        /\ t.reusable = s.reusable /\ t.original = s.original
        /\ t.restore = s.restore /\ t.captureOnly = s.captureOnly
        /\ t.found = s.found
    BY <1>1, <1>6, LoopComment DEF o, f
  <2>4. /\ Scoped(n, t.out, stage, condition) /\ PluginRows(n) = PluginRows(q)
        /\ CaptureScope(t.out).frames = Track(f, r)
        /\ Layout(t.out).now = Layout(o).now /\ Layout(n).now = Layout(q).now
    BY <1>3, <1>4, <1>5, <2>1, <2>2, <2>3, ScopedOther DEF n
  <2>5. Track(f, r) = f
    BY <2>2 DEF Track
  <2>6. s.reusable # 0 => Reusable(t.out, s.reusable, s.original)
    BY <1>2, <1>4, <2>1, <2>3, ReusableComment
  <2>7. Looped(n, t, stage, condition)
    BY <1>4, <2>3, <2>4, <2>5, <2>6 DEF Looped, Scoped
  <2>. QED
    BY <1>1, <2>7 DEF n
<1>7. CASE r \in Stages
  <2>2. r \notin Plugins /\ r \notin {IfCapture, IfOther, Else, EndIf} /\ r \in Rows
    BY <1>7, RowKinds
  <2>3. /\ t.out = Append(o, r) /\ t.frames = f
        /\ t.reusable = Len(o) + 1 /\ t.original = r
        /\ t.restore = NoRow /\ t.captureOnly = (r = Capture)
        /\ t.found = s.found
    BY <1>1, <1>7, LoopStage DEF o, f
  <2>4. /\ Scoped(n, t.out, stage, condition) /\ PluginRows(n) = PluginRows(q)
        /\ CaptureScope(t.out).frames = Track(f, r)
        /\ Layout(t.out).now = r /\ Layout(n).now = r
    BY <1>3, <1>4, <1>5, <1>7, <2>2, <2>3, ScopedOther DEF n
  <2>5. Track(f, r) = f
    BY <2>2 DEF Track
  <2>6. Reusable(t.out, t.reusable, r)
    <3>1. Append(o, r) \in Seq(Rows) /\ <<>> \in Seq({Comment})
      BY <1>2, <2>2, AppendProperties, EmptySeq
    <3>2. Append(o, r) \o <<>> = Append(o, r)
      BY <3>1, ConcatEmptySeq
    <3>. QED
      BY <1>2, <1>5, <2>3, <3>1, <3>2 DEF Reusable
  <2>7. t.captureOnly <=> r = Capture
    BY <2>3
  <2>8. Looped(n, t, stage, condition)
    BY <1>4, <2>3, <2>4, <2>5, <2>6, <2>7, RowsAre, RowsDiffer DEF Looped, Scoped
  <2>. QED
    BY <1>1, <2>8 DEF n
<1>8. CASE r \in Plugins
  <2>1. /\ t.frames = f /\ t.reusable = 0 /\ t.original = s.original /\ t.found
        /\ s.captureOnly \/ CaptureConditionActive(f) =>
              /\ t.out = Append(o, r) /\ t.restore = s.restore
              /\ t.captureOnly = s.captureOnly
        /\ ~(s.captureOnly \/ CaptureConditionActive(f)) =>
              /\ t.out = Append(IF s.reusable # 0 THEN [o EXCEPT ![s.reusable] = Capture]
                                ELSE Append(o, Capture), r)
              /\ t.restore = s.original /\ t.captureOnly
    BY <1>1, <1>8, LoopPlugin DEF o, f
  <2>2. CASE s.captureOnly \/ CaptureConditionActive(f)
    <3>0. t.out = Append(o, r) /\ t.restore = s.restore /\ t.captureOnly = s.captureOnly
      BY <2>1, <2>2
    <3>1. Layout(o).now = Capture \/ CaptureConditionActive(CaptureScope(o).frames)
      BY <1>4, <2>2
    <3>2. /\ Scoped(n, t.out, stage, condition) /\ PluginRows(n) # <<>>
          /\ CaptureScope(t.out).frames = f
          /\ Layout(t.out).now = Layout(o).now /\ Layout(n).now = Layout(q).now
      BY <1>3, <1>4, <1>5, <1>8, <3>0, <3>1, ScopedPlugin DEF n
    <3>3. Looped(n, t, stage, condition)
      BY <1>4, <2>1, <3>0, <3>2 DEF Looped, Scoped
    <3>. QED
      BY <1>1, <3>3 DEF n
  <2>3. CASE ~(s.captureOnly \/ CaptureConditionActive(f))
    <3> DEFINE w == IF s.reusable # 0 THEN [o EXCEPT ![s.reusable] = Capture]
                    ELSE Append(o, Capture)
    <3>1. /\ Scoped(q, w, stage, condition) /\ CaptureScope(w).frames = f
          /\ Layout(w).now = Capture
      <4>1. CASE s.reusable # 0
        <5>1. /\ w \in Seq(Rows) /\ SameBut(o, w, stage, condition)
              /\ Layout(w).now = Capture
          BY <1>2, <1>4, <4>1, Reuse
        <5> HIDE DEF w
        <5>. QED
          BY <1>4, <5>1 DEF SameBut, Scoped, Alike
      <4>2. CASE s.reusable = 0
        <5>1. w = Append(o, Capture) /\ Capture \in Stages
          BY <4>2, RowsAre
        <5>. QED
          BY <1>4, <1>5, <5>1, ScopedStage
      <4>. QED
        BY <4>1, <4>2
    <3>2. t.out = Append(w, r)
      BY <2>1, <2>3
    <3> HIDE DEF w
    <3>3. /\ Scoped(n, t.out, stage, condition) /\ PluginRows(n) # <<>>
          /\ CaptureScope(t.out).frames = f
          /\ Layout(t.out).now = Capture /\ Layout(n).now = Layout(q).now
      BY <1>3, <1>8, <3>1, <3>2, ScopedPlugin DEF n
    <3>4. t.restore = s.original /\ t.captureOnly /\ t.restore # NoRow
      BY <1>2, <2>1, <2>3, RowsDiffer, RowsAre
    <3>5. Looped(n, t, stage, condition)
      BY <1>4, <2>1, <3>3, <3>4 DEF Looped, Scoped
    <3>. QED
      BY <1>1, <3>5 DEF n
  <2>. QED
    BY <2>2, <2>3
<1>9. CASE r \notin Comments /\ r \notin Stages /\ r \notin Plugins
  <2>1. /\ t.frames = Track(f, r) /\ t.reusable = 0 /\ t.original = s.original
        /\ t.found = s.found /\ t.restore = NoRow
        /\ s.restore = NoRow => t.out = Append(o, r) /\ t.captureOnly = s.captureOnly
        /\ s.restore # NoRow => /\ t.out = Append(Append(o, s.restore), r)
                                /\ ~t.captureOnly
    <3>1. /\ t.frames = Track(s.frames, r) /\ t.reusable = 0
          /\ t.original = s.original /\ t.found = s.found /\ t.restore = NoRow
          /\ s.restore = NoRow => /\ t.out = Append(s.out, r)
                                  /\ t.captureOnly = s.captureOnly
          /\ s.restore # NoRow => /\ t.out = Append(Append(s.out, s.restore), r)
                                  /\ ~t.captureOnly
      BY <1>1, <1>9, LoopOther
    <3>. QED
      BY <3>1 DEF o, f
  <2>2. CASE s.restore = NoRow
    <3>0. t.out = Append(o, r) /\ t.captureOnly = s.captureOnly /\ Layout(o).now = Layout(q).now
      BY <1>4, <2>1, <2>2
    <3>1. /\ Scoped(n, t.out, stage, condition) /\ PluginRows(n) = PluginRows(q)
          /\ CaptureScope(t.out).frames = Track(f, r)
          /\ Layout(t.out).now = Layout(o).now /\ Layout(n).now = Layout(q).now
      BY <1>3, <1>4, <1>5, <1>9, <3>0, ScopedOther DEF n
    <3>2. Looped(n, t, stage, condition)
      BY <1>4, <2>1, <2>2, <3>0, <3>1, RowsAre, RowsDiffer DEF Looped, Scoped
    <3>. QED
      BY <1>1, <3>2 DEF n
  <2>3. CASE s.restore # NoRow
    <3> DEFINE w == Append(o, s.restore)
    <3>1. s.restore \in Stages /\ s.restore = Layout(q).now
      BY <1>2, <1>4, <2>3
    <3>2. /\ Scoped(q, w, stage, condition) /\ CaptureScope(w).frames = f
          /\ Layout(w).now = Layout(q).now
      BY <1>4, <1>5, <3>1, ScopedStage
    <3>3. t.out = Append(w, r) /\ ~t.captureOnly
      BY <2>1, <2>3
    <3> HIDE DEF w
    <3>4. /\ Scoped(n, t.out, stage, condition) /\ PluginRows(n) = PluginRows(q)
          /\ CaptureScope(t.out).frames = Track(f, r)
          /\ Layout(t.out).now = Layout(w).now /\ Layout(n).now = Layout(q).now
      BY <1>3, <1>9, <3>2, <3>3, ScopedOther DEF n
    <3>5. Looped(n, t, stage, condition)
      <4>1. Layout(t.out).now # Capture
        BY <1>4, <3>1, <3>2, <3>4
      <4>2. NoRow # Capture
        BY RowsAre, RowsDiffer
      <4>. QED
        BY <1>4, <2>1, <3>2, <3>3, <3>4, <4>1, <4>2 DEF Looped, Scoped
    <3>. QED
      BY <1>1, <3>5 DEF n
  <2>. QED
    BY <2>2, <2>3
<1>. QED
  BY <1>6, <1>7, <1>8, <1>9


\* The loop invariant holds after every file without markers.
LEMMA LoopIs ==
  ASSUME NEW stage \in ApoStages, NEW condition \in BOOLEAN,
         NEW q \in Seq(Rows), Layout(q).ok, Layout(q).plain
  PROVE  Looped(q, Loop(q), stage, condition)
<1> DEFINE T == {p \in Seq(Rows) : Layout(p).ok /\ Layout(p).plain =>
                   Looped(p, Loop(p), stage, condition)}
<1>1. <<>> \in T
  <2>1. Loop(<<>>) = LoopStart /\ CaptureScope(<<>>) = ScopeStart /\ <<>> \in Seq(Rows)
        /\ Layout(<<>>) = LayoutStart /\ PluginRows(<<>>) = <<>>
    BY LoopFold, ScopeFold, LayoutFold, OnlyFold, EmptySeq DEF PluginRows, NoRows
  <2>2. LoopStart.out = <<>> /\ Mixed # Capture /\ NoRow # Capture
    BY RowsDiffer, RowsAre DEF LoopStart
  <2>3. Looped(<<>>, LoopStart, stage, condition)
    BY <2>1, <2>2, AlikeEmpty DEF Looped, LoopStart, ScopeStart, LayoutStart
  <2>. QED
    BY <2>1, <2>3
<1>2. ASSUME NEW p \in Seq(Rows), NEW r \in Rows, p \in T PROVE Append(p, r) \in T
  <2>1. /\ Append(p, r) \in Seq(Rows) /\ Loop(p) \in Loops
        /\ Loop(Append(p, r)) = LoopStep(Loop(p), r)
    BY LoopFold, AppendProperties
  <2>2. ASSUME Layout(Append(p, r)).ok, Layout(Append(p, r)).plain
        PROVE  Looped(Append(p, r), Loop(Append(p, r)), stage, condition)
    <3>1. Layout(p).ok /\ Layout(p).plain
      BY <2>2, PlainStep
    <3>2. Looped(p, Loop(p), stage, condition)
      BY <1>2, <3>1
    <3>3. Looped(Append(p, r), LoopStep(Loop(p), r), stage, condition)
      BY <2>1, <2>2, <3>2, LoopedStep
    <3>. QED
      BY <2>1, <3>3
  <2>. QED
    BY <2>1, <2>2
<1>3. \A p \in Seq(Rows) : p \in T
  <2> HIDE DEF T
  <2>. QED
    BY <1>1, <1>2, SeqInduction
<1>. QED
  BY <1>3

\* p has the plug-in rows of q, or the default row where q had none.
Updated(q, p) ==
  PluginRows(p) = IF PluginRows(q) = <<>> THEN <<Plugin(0)>> ELSE PluginRows(q)

\* Installation on a file without markers: the result runs the same filters, has
\* the same plug-in rows or the default one, and every one of them is scoped.
LEMMA InstallOnceIs ==
  ASSUME NEW stage \in ApoStages, NEW condition \in BOOLEAN,
         NEW q \in Seq(Rows), Layout(q).ok, Layout(q).plain
  PROVE  /\ InstallOnce(q) \in Seq(Rows) /\ Alike(q, InstallOnce(q), stage, condition)
         /\ HasCaptureScoped(InstallOnce(q)) /\ Updated(q, InstallOnce(q))
<1> DEFINE s == Loop(q)
           p == InstallOnce(q)
<1>1. Looped(q, s, stage, condition) /\ s \in Loops
  BY LoopIs, LoopFold
<1>2. s.out \in Seq(Rows) /\ s.captureOnly \in BOOLEAN /\ s.found \in BOOLEAN
  BY <1>1 DEF Loops
<1>3. /\ Scoped(q, s.out, stage, condition)
      /\ s.captureOnly <=> Layout(s.out).now = Capture
      /\ s.found <=> PluginRows(q) # <<>>
  BY <1>1, <1>2 DEF Looped, Scoped
<1>4. CASE HasCaptureScoped(q)
  <2>1. p = q
    BY <1>4 DEF InstallOnce
  <2>2. PluginRows(q) # <<>>
    BY <1>4, FoundIs DEF HasCaptureScoped, PluginRows
  <2>3. Alike(q, q, stage, condition)
    BY DEF Alike
  <2>. QED
    BY <1>4, <2>1, <2>2, <2>3 DEF Updated
<1>5. CASE ~HasCaptureScoped(q) /\ s.found
  <2>1. p = s.out
    BY <1>5 DEF InstallOnce, Rescoped
  <2> HIDE DEF p, s
  <2>2. PluginRows(p) = PluginRows(q) /\ PluginRows(q) # <<>> /\ p \in Seq(Rows)
        /\ Alike(q, p, stage, condition) /\ CaptureScope(p).ok
    BY <1>2, <1>3, <1>5, <2>1 DEF Scoped
  <2>3. CaptureScope(p).found
    BY <2>2, FoundIs DEF PluginRows
  <2>. QED
    BY <2>2, <2>3 DEF Updated, HasCaptureScoped, p
<1>6. CASE ~HasCaptureScoped(q) /\ ~s.found
  <2> DEFINE w == IF s.captureOnly THEN s.out ELSE Append(s.out, Capture)
             d == Plugin(0)
  <2>1. p = s.out \o (IF s.captureOnly THEN <<>> ELSE <<Capture>>) \o <<d>>
    BY <1>6 DEF InstallOnce, Rescoped
  <2> HIDE DEF p, s
  <2>2. Capture \in Stages /\ Capture \in Rows /\ d \in Plugins /\ d \in Rows
    BY RowsAre DEF Plugins, Plugin
  <2> HIDE DEF d
  <2>3. Scoped(q, w, stage, condition) /\ Layout(w).now = Capture
    BY <1>3, <2>2, ScopedStage
  <2>4. w = s.out \o (IF s.captureOnly THEN <<>> ELSE <<Capture>>)
    BY <1>2, <2>2, ConcatEmptySeq, AppendIsConcat
  <2> HIDE DEF w
  <2>5. w \in Seq(Rows) /\ Alike(q, w, stage, condition) /\ PluginRows(w) = <<>>
        /\ CaptureScope(w).ok
    BY <1>3, <1>6, <2>3 DEF Scoped
  <2>6. p = Append(w, d)
    BY <2>1, <2>2, <2>4, <2>5, AppendIsConcat
  <2>7. p \in Seq(Rows) /\ Alike(q, p, stage, condition)
    BY <2>2, <2>5, <2>6, AlikeExtra
  <2>8. PluginRows(p) = <<d>>
    <3>1. PluginRows(p) = Append(<<>>, d)
      BY <2>2, <2>5, <2>6, PluginStep
    <3>2. Append(<<>>, d) = <<d>>
      OBVIOUS
    <3>. QED
      BY <3>1, <3>2
  <2>9. CaptureScope(p).ok
    <3>1. CaptureScope(w).stage <=> Layout(w).now = Capture
      BY <2>5, StageIs
    <3>2. CaptureScope(w) \in Scopes /\ CaptureScope(p) = ScopeStep(CaptureScope(w), d)
      BY <2>2, <2>5, <2>6, ScopeFold
    <3>. QED
      BY <2>2, <2>3, <2>5, <3>1, <3>2, ScopeFields
  <2>10. CaptureScope(p).found
    <3>1. PluginRows(p) # <<>>
      BY <2>8
    <3>. QED
      BY <2>7, <3>1, FoundIs DEF PluginRows
  <2>. QED
    BY <1>3, <1>6, <2>7, <2>8, <2>9, <2>10 DEF Updated, HasCaptureScoped, p, d
<1>. QED
  BY <1>4, <1>5, <1>6

\* A file written for a file written for a file.
LEMMA AlikeTransitive ==
  ASSUME NEW stage, NEW condition, NEW a, NEW b, NEW c,
         Alike(a, b, stage, condition), Alike(b, c, stage, condition)
  PROVE  Alike(a, c, stage, condition)
BY DEF Alike

-----------------------------------------------------------------------------
(* The blocks of the old Setup, by index.                                   *)

\* The first i rows, and the place in the old block after them.
Prefix(q, i) == SubSeq(q, 1, i)
MarkAt(q, i) == Layout(Prefix(q, i)).mark

\* The prefixes of a file grow row by row, from none to all.
LEMMA PrefixIs ==
  ASSUME NEW q \in Seq(Rows)
  PROVE  /\ Prefix(q, 0) = <<>> /\ Prefix(q, Len(q)) = q
         /\ \A i \in 0..Len(q) : Prefix(q, i) \in Seq(Rows)
         /\ \A i \in 1..Len(q) : /\ q[i] \in Rows
                                 /\ Prefix(q, i) = Append(Prefix(q, i - 1), q[i])
<1>1. Prefix(q, 0) = <<>> /\ Prefix(q, Len(q)) = q
  BY SubSeqEmpty, SubSeqFull DEF Prefix
<1>2. PICK n \in Nat : n = Len(q) /\ \A i \in 1..n : q[i] \in Rows
  BY LenProperties, ElementOfSeq
<1>3. ASSUME NEW i \in 0..n PROVE Prefix(q, i) \in Seq(Rows)
  <2>1. \A j \in 1..i : q[j] \in Rows
    BY <1>2
  <2>. QED
    BY <2>1, SubSeqProperties DEF Prefix
<1>4. ASSUME NEW i \in 1..n PROVE Prefix(q, i) = Append(Prefix(q, i - 1), q[i])
  <2>1. Prefix(q, i) = Prefix(q, i - 1) \o <<q[i]>>
    <3>1. 1 \in 1..Len(q) /\ i \in 1..Len(q)
      BY <1>2
    <3>. QED
      BY <3>1, SubSeqRecursiveSecond DEF Prefix
  <2>2. Prefix(q, i - 1) \in Seq(Rows) /\ q[i] \in Rows
    BY <1>2, <1>3
  <2>. QED
    BY <2>1, <2>2, AppendIsConcat
<1>. QED
  BY <1>1, <1>2, <1>3, <1>4

\* Every row fits the block it is in.
Fits(q) ==
  /\ \A i \in 0..Len(q) : Layout(Prefix(q, i)).ok /\ MarkAt(q, i) \in 0..4
  /\ \A i \in 1..Len(q) : /\ MarkAt(q, i) = MarkAfter(MarkAt(q, i - 1), q[i])
                          /\ MarkFits(MarkAt(q, i - 1), q[i])
  /\ MarkAt(q, Len(q)) = 0 /\ MarkAt(q, 0) = 0

\* In a file that is laid out well, with no block open at its end, every row fits.
LEMMA FitsIs ==
  ASSUME NEW q \in Seq(Rows), Layout(q).ok, Layout(q).mark = 0
  PROVE  Fits(q)
<1>1. PICK n \in Nat : n = Len(q)
  BY LenProperties
<1>2. ASSUME NEW i \in 1..n
      PROVE  /\ Layout(Prefix(q, i)) = LayoutStep(Layout(Prefix(q, i - 1)), q[i])
             /\ Layout(Prefix(q, i - 1)) \in Layouts /\ q[i] \in Rows
  <2>1. Prefix(q, i - 1) \in Seq(Rows) /\ q[i] \in Rows
        /\ Prefix(q, i) = Append(Prefix(q, i - 1), q[i])
    BY <1>1, PrefixIs
  <2>. QED
    BY <2>1, LayoutFold
<1> DEFINE T == {j \in 0..n : Layout(Prefix(q, n - j)).ok}
<1>3. 0 \in T
  BY <1>1, PrefixIs
<1>4. ASSUME NEW j \in 1..n, j - 1 \in T PROVE j \in T
  <2>1. PICK k \in 1..n : n - (j - 1) = k /\ k - 1 = n - j
    OBVIOUS
  <2>2. Layout(Prefix(q, k)).ok
    BY <1>4, <2>1
  <2>3. Layout(Prefix(q, k - 1)).ok
    BY <1>2, <2>2, LayoutFields
  <2>. QED
    BY <2>1, <2>3
<1>5. \A j \in 0..n : j \in T
  <2> HIDE DEF T
  <2>. QED
    BY <1>3, <1>4, UpTo
<1>6. ASSUME NEW i \in 0..n PROVE Layout(Prefix(q, i)).ok /\ MarkAt(q, i) \in 0..4
  <2>1. n - i \in 0..n /\ n - (n - i) = i
    OBVIOUS
  <2>2. Layout(Prefix(q, i)).ok
    BY <1>5, <2>1
  <2>3. Layout(Prefix(q, i)) \in Layouts
    BY <1>1, PrefixIs, LayoutFold
  <2>. QED
    BY <2>2, <2>3 DEF MarkAt, Layouts
<1>7. ASSUME NEW i \in 1..n
      PROVE  /\ MarkAt(q, i) = MarkAfter(MarkAt(q, i - 1), q[i])
             /\ MarkFits(MarkAt(q, i - 1), q[i])
  <2>1. Layout(Prefix(q, i)).ok
    BY <1>6
  <2>. QED
    BY <1>2, <2>1, LayoutFields DEF MarkAt
<1>8. MarkAt(q, Len(q)) = 0 /\ MarkAt(q, 0) = 0
  BY PrefixIs, LayoutFold DEF MarkAt, LayoutStart
<1>. QED
  BY <1>1, <1>6, <1>7, <1>8 DEF Fits

\* The rows of a block, place by place.
LEMMA MarkCases ==
  ASSUME NEW m \in 0..4, NEW r \in Rows, MarkFits(m, r)
  PROVE  /\ m = 0 => r # EndMarker /\ MarkAfter(m, r) = IF r = BeginMarker THEN 1 ELSE 0
         /\ m = 1 => r = IfCapture /\ MarkAfter(m, r) = 2
         /\ m = 2 => r \in Plugins /\ MarkAfter(m, r) = 3
         /\ m = 3 => r = EndIf /\ MarkAfter(m, r) = 4
         /\ m = 4 => r = EndMarker /\ MarkAfter(m, r) = 0
         /\ r = BeginMarker => m = 0
<1>1. CASE m = 0
  BY <1>1 DEF MarkFits, MarkAfter
<1>2. CASE m = 1
  BY <1>2, RowKinds, RowsAre DEF MarkFits, MarkAfter
<1>3. CASE m = 2
  BY <1>3, RowKinds, RowsAre DEF MarkFits, MarkAfter, IsPlugin
<1>4. CASE m = 3
  BY <1>4, RowKinds, RowsAre DEF MarkFits, MarkAfter
<1>5. CASE m = 4
  BY <1>5, RowsDiffer DEF MarkFits, MarkAfter
<1>. QED
  BY <1>1, <1>2, <1>3, <1>4, <1>5

\* A begin marker starts a whole wrapper: the exact rows the code looks for.
LEMMA BlockIs ==
  ASSUME NEW q \in Seq(Rows), Fits(q), NEW i \in 1..Len(q), q[i] = BeginMarker
  PROVE  /\ MarkAt(q, i - 1) = 0 /\ i + 4 <= Len(q)
         /\ MarkAt(q, i) = 1 /\ MarkAt(q, i + 1) = 2 /\ MarkAt(q, i + 2) = 3
         /\ MarkAt(q, i + 3) = 4 /\ MarkAt(q, i + 4) = 0
         /\ WrapperAt(q, i)
<1>1. PICK n \in Nat : n = Len(q)
  BY LenProperties
<1>2. /\ \A j \in 0..n : MarkAt(q, j) \in 0..4
      /\ \A j \in 1..n : /\ MarkAt(q, j) = MarkAfter(MarkAt(q, j - 1), q[j])
                         /\ MarkFits(MarkAt(q, j - 1), q[j]) /\ q[j] \in Rows
      /\ MarkAt(q, n) = 0
  BY <1>1, PrefixIs DEF Fits
<1>3. ASSUME NEW j \in 1..n
      PROVE  /\ MarkAt(q, j - 1) = 0 => MarkAt(q, j) = IF q[j] = BeginMarker THEN 1 ELSE 0
             /\ MarkAt(q, j - 1) = 1 => q[j] = IfCapture /\ MarkAt(q, j) = 2
             /\ MarkAt(q, j - 1) = 2 => q[j] \in Plugins /\ MarkAt(q, j) = 3
             /\ MarkAt(q, j - 1) = 3 => q[j] = EndIf /\ MarkAt(q, j) = 4
             /\ MarkAt(q, j - 1) = 4 => q[j] = EndMarker /\ MarkAt(q, j) = 0
             /\ q[j] = BeginMarker => MarkAt(q, j - 1) = 0
  <2>1. MarkAt(q, j - 1) \in 0..4
    BY <1>2
  <2>. QED
    BY SMTT(20), <1>2, <2>1, MarkCases
<1>4. i \in 1..n /\ MarkAt(q, i - 1) = 0 /\ MarkAt(q, i) = 1
  BY <1>1, <1>3
<1>5. i + 1 \in 1..n /\ q[i + 1] = IfCapture /\ MarkAt(q, i + 1) = 2
  <2>1. i # n
    BY <1>2, <1>4
  <2>2. i + 1 \in 1..n /\ (i + 1) - 1 = i
    BY <1>4, <2>1
  <2>. QED
    BY <1>3, <1>4, <2>2
<1>6. i + 2 \in 1..n /\ q[i + 2] \in Plugins /\ MarkAt(q, i + 2) = 3
  <2>1. i + 1 # n
    BY <1>2, <1>5
  <2>2. i + 2 \in 1..n /\ (i + 2) - 1 = i + 1
    BY <1>5, <2>1
  <2>. QED
    BY <1>3, <1>5, <2>2
<1>7. i + 3 \in 1..n /\ q[i + 3] = EndIf /\ MarkAt(q, i + 3) = 4
  <2>1. i + 2 # n
    BY <1>2, <1>6
  <2>2. i + 3 \in 1..n /\ (i + 3) - 1 = i + 2
    BY <1>6, <2>1
  <2>. QED
    BY <1>3, <1>6, <2>2
<1>8. i + 4 \in 1..n /\ q[i + 4] = EndMarker /\ MarkAt(q, i + 4) = 0
  <2>1. i + 3 # n
    BY <1>2, <1>7
  <2>2. i + 4 \in 1..n /\ (i + 4) - 1 = i + 3
    BY <1>7, <2>1
  <2>. QED
    BY <1>3, <1>7, <2>2
<1>. QED
  BY <1>1, <1>4, <1>5, <1>6, <1>7, <1>8 DEF WrapperAt, IsPlugin

\* No row at i belongs to a block.
Free(q, i) == \A w \in Wrappers(q) : ~(w <= i /\ i <= w + 4)

\* T is kept by a row outside the blocks, and by a block.
RowKept(q, T) ==
  \A i \in 1..Len(q) :
    /\ i - 1 \in T /\ MarkAt(q, i - 1) = 0 /\ MarkAt(q, i) = 0
    /\ q[i] \notin {BeginMarker, EndMarker} /\ Free(q, i)
    => i \in T
BlockKept(q, T) ==
  \A i \in 1..Len(q) :
    i - 1 \in T /\ MarkAt(q, i - 1) = 0 /\ WrapperAt(q, i) => i + 4 \in T

\* Induction over rows and blocks: what a row outside the blocks and a whole block
\* keep holds at the end.
LEMMA BlockInduction ==
  ASSUME NEW q \in Seq(Rows), Fits(q), NEW T, 0 \in T, RowKept(q, T), BlockKept(q, T)
  PROVE  Len(q) \in T
<1>1. PICK n \in Nat : n = Len(q)
  BY LenProperties
<1> DEFINE K == {i \in 0..n : \A j \in 0..i : MarkAt(q, j) = 0 => j \in T}
<1>2. /\ \A j \in 0..n : MarkAt(q, j) \in 0..4
      /\ \A j \in 1..n : /\ MarkAt(q, j) = MarkAfter(MarkAt(q, j - 1), q[j])
                         /\ MarkFits(MarkAt(q, j - 1), q[j]) /\ q[j] \in Rows
      /\ MarkAt(q, n) = 0 /\ MarkAt(q, 0) = 0
  BY <1>1, PrefixIs DEF Fits
<1>3. ASSUME NEW j \in 1..n
      PROVE  /\ MarkAt(q, j - 1) = 0 => /\ MarkAt(q, j) = IF q[j] = BeginMarker THEN 1 ELSE 0
                                        /\ q[j] # EndMarker
             /\ MarkAt(q, j - 1) = 1 => q[j] = IfCapture /\ MarkAt(q, j) = 2
             /\ MarkAt(q, j - 1) = 2 => q[j] \in Plugins /\ MarkAt(q, j) = 3
             /\ MarkAt(q, j - 1) = 3 => q[j] = EndIf /\ MarkAt(q, j) = 4
             /\ MarkAt(q, j - 1) = 4 => q[j] = EndMarker /\ MarkAt(q, j) = 0
             /\ MarkAt(q, j - 1) \in 0..4
  <2>1. MarkAt(q, j - 1) \in 0..4
    BY <1>2
  <2>. QED
    BY <1>2, <2>1, MarkCases
<1>4. 0 \in K
  OBVIOUS
<1>5. ASSUME NEW i \in 1..n, i - 1 \in K, MarkAt(q, i) = 0 PROVE i \in T
  <2>0. \A j \in 0..(i - 1) : MarkAt(q, j) = 0 => j \in T
    BY <1>5
  <2>1. CASE MarkAt(q, i - 1) = 0
    <3>1. q[i] \notin {BeginMarker, EndMarker}
      BY <1>3, <1>5, <2>1
    <3>2. Free(q, i)
      <4>1. SUFFICES ASSUME NEW w \in Wrappers(q), w <= i, i <= w + 4 PROVE FALSE
        BY DEF Free
      <4>2. w \in 1..Len(q) /\ q[w] = BeginMarker /\ w \in Nat
        BY <1>1 DEF Wrappers, WrapperAt
      <4>3. /\ MarkAt(q, w) = 1 /\ MarkAt(q, w + 1) = 2 /\ MarkAt(q, w + 2) = 3
            /\ MarkAt(q, w + 3) = 4
        BY <4>2, BlockIs
      <4>4. i = w \/ i - 1 = w \/ i - 1 = w + 1 \/ i - 1 = w + 2 \/ i - 1 = w + 3
        BY <4>1, <4>2
      <4>. QED
        BY <1>5, <2>1, <4>3, <4>4
    <3>3. i - 1 \in T
      BY <2>0, <2>1
    <3>. QED
      BY <1>1, <1>5, <2>1, <3>1, <3>2, <3>3 DEF RowKept
  <2>2. CASE MarkAt(q, i - 1) # 0
    <3>1. MarkAt(q, i - 1) = 4
      BY <1>3, <1>5, <2>2
    <3>2. i - 1 \in 1..n /\ MarkAt(q, i - 2) = 3
      <4>1. i - 1 # 0
        BY <1>2, <3>1
      <4>2. i - 1 \in 1..n /\ (i - 1) - 1 = i - 2
        BY <4>1
      <4>. QED
        BY <1>3, <3>1, <4>2
    <3>3. i - 2 \in 1..n /\ MarkAt(q, i - 3) = 2
      <4>1. i - 2 # 0
        BY <1>2, <3>2
      <4>2. i - 2 \in 1..n /\ (i - 2) - 1 = i - 3
        BY <3>2, <4>1
      <4>. QED
        BY <1>3, <3>2, <4>2
    <3>4. i - 3 \in 1..n /\ MarkAt(q, i - 4) = 1
      <4>1. i - 3 # 0
        BY <1>2, <3>3
      <4>2. i - 3 \in 1..n /\ (i - 3) - 1 = i - 4
        BY <3>3, <4>1
      <4>. QED
        BY <1>3, <3>3, <4>2
    <3>5. i - 4 \in 1..n /\ MarkAt(q, i - 5) = 0 /\ q[i - 4] = BeginMarker
      <4>1. i - 4 # 0
        BY <1>2, <3>4
      <4>2. i - 4 \in 1..n /\ (i - 4) - 1 = i - 5
        BY <3>4, <4>1
      <4>3. MarkAt(q, i - 5) = 0
        BY <1>3, <3>4, <4>2
      <4>4. q[i - 4] = BeginMarker
        BY <1>3, <3>4, <4>2, <4>3
      <4>. QED
        BY <4>2, <4>3, <4>4
    <3>6. WrapperAt(q, i - 4)
      BY <1>1, <3>5, BlockIs
    <3>7. i - 5 \in 0..(i - 1) /\ (i - 4) - 1 = i - 5 /\ (i - 4) + 4 = i
      BY <3>5
    <3>8. i - 5 \in T
      BY <2>0, <3>5, <3>7
    <3>. QED
      BY <1>1, <3>5, <3>6, <3>7, <3>8 DEF BlockKept
  <2>. QED
    BY <2>1, <2>2
<1>6. ASSUME NEW i \in 1..n, i - 1 \in K PROVE i \in K
  <2>1. \A j \in 0..i : j = i \/ j \in 0..(i - 1)
    OBVIOUS
  <2>. QED
    BY <1>5, <1>6, <2>1
<1>7. \A i \in 0..n : i \in K
  <2> HIDE DEF K
  <2>. QED
    BY <1>4, <1>6, UpTo
<1>. QED
  BY <1>1, <1>2, <1>7


\* A whole block in a file leaves the conditions, the stage and the filters that
\* run as they were and adds one plug-in row.
LEMMA OverBlock ==
  ASSUME NEW stage \in ApoStages, NEW condition \in BOOLEAN,
         NEW u \in Seq(Rows), NEW p \in Plugins
  PROVE  LET v == Append(Append(Append(Append(Append(u, BeginMarker), IfCapture), p),
                                EndIf), EndMarker)
         IN  /\ v \in Seq(Rows) /\ Layout(v).depth = Layout(u).depth
             /\ Layout(v).now = Layout(u).now
             /\ Layout(u).depth > 0 => Layout(v).base = Layout(u).base
             /\ Run(v, stage, condition).open = Run(u, stage, condition).open
             /\ FiltersRun(v, stage, condition) = FiltersRun(u, stage, condition)
             /\ PluginRows(v) = Append(PluginRows(u), p)
<1> DEFINE u1 == Append(u, BeginMarker)
           u2 == Append(u1, IfCapture)
           u3 == Append(u2, p)
           u4 == Append(u3, EndIf)
           u5 == Append(u4, EndMarker)
<1>0. /\ u1 = Append(u, BeginMarker) /\ u2 = Append(u1, IfCapture) /\ u3 = Append(u2, p)
      /\ u4 = Append(u3, EndIf) /\ u5 = Append(u4, EndMarker)
  OBVIOUS
<1> HIDE DEF u1, u2, u3, u4, u5
<1>1. /\ BeginMarker \in Rows /\ IfCapture \in Rows /\ p \in Rows /\ EndIf \in Rows
      /\ EndMarker \in Rows
      /\ BeginMarker \in Comments /\ EndMarker \in Comments
  BY RowsAre
<1>2. /\ u1 \in Seq(Rows) /\ u2 \in Seq(Rows) /\ u3 \in Seq(Rows) /\ u4 \in Seq(Rows)
      /\ u5 \in Seq(Rows)
  BY <1>0, <1>1, AppendProperties
<1>3. /\ BeginMarker \notin Stages /\ IfCapture \notin Stages /\ p \notin Stages
      /\ EndIf \notin Stages /\ EndMarker \notin Stages
  BY <1>1, RowKinds
<1>4. /\ BeginMarker \notin Filters /\ IfCapture \notin Filters /\ p \notin Filters
      /\ EndIf \notin Filters /\ EndMarker \notin Filters
  BY <1>1, RowKinds
<1>5. /\ BeginMarker \notin Plugins /\ IfCapture \notin Plugins
      /\ EndIf \notin Plugins /\ EndMarker \notin Plugins
  BY <1>1, RowKinds
<1>6. /\ BeginMarker \notin {IfCapture, IfOther, Else, EndIf}
      /\ EndMarker \notin {IfCapture, IfOther, Else, EndIf}
      /\ p \notin {IfCapture, IfOther, Else, EndIf}
  BY <1>1, RowKinds
<1>7. /\ Layout(u) \in Layouts
      /\ Layout(u1) = LayoutStep(Layout(u), BeginMarker) /\ Layout(u1) \in Layouts
      /\ Layout(u2) = LayoutStep(Layout(u1), IfCapture) /\ Layout(u2) \in Layouts
      /\ Layout(u3) = LayoutStep(Layout(u2), p) /\ Layout(u3) \in Layouts
      /\ Layout(u4) = LayoutStep(Layout(u3), EndIf) /\ Layout(u4) \in Layouts
      /\ Layout(u5) = LayoutStep(Layout(u4), EndMarker)
  BY <1>0, <1>1, <1>2, LayoutFold
<1>8. /\ Layout(u1).depth = Layout(u).depth /\ Layout(u1).now = Layout(u).now
      /\ Layout(u1).base = Layout(u).base
  BY <1>1, <1>3, <1>6, <1>7, LayoutFields
<1>9. /\ Layout(u2).depth = Layout(u1).depth + 1 /\ Layout(u2).now = Layout(u1).now
      /\ Layout(u1).depth # 0 => Layout(u2).base = Layout(u1).base
  BY <1>1, <1>3, <1>7, LayoutFields
<1>10. /\ Layout(u3).depth = Layout(u2).depth /\ Layout(u3).now = Layout(u2).now
       /\ Layout(u3).base = Layout(u2).base
  BY <1>1, <1>3, <1>6, <1>7, LayoutFields
<1>11. /\ Layout(u3).depth > 0 => Layout(u4).depth = Layout(u3).depth - 1
       /\ Layout(u4).now = Layout(u3).now /\ Layout(u4).base = Layout(u3).base
  BY <1>1, <1>3, <1>7, LayoutFields, RowsDiffer
<1>12. /\ Layout(u5).depth = Layout(u4).depth /\ Layout(u5).now = Layout(u4).now
       /\ Layout(u5).base = Layout(u4).base
  BY <1>1, <1>3, <1>6, <1>7, LayoutFields
<1>13. /\ Layout(u5).depth = Layout(u).depth /\ Layout(u5).now = Layout(u).now
       /\ Layout(u).depth > 0 => Layout(u5).base = Layout(u).base
  <2>1. Layout(u).depth \in Nat
    BY <1>7 DEF Layouts
  <2>2. Layout(u3).depth = Layout(u).depth + 1
    BY <1>8, <1>9, <1>10
  <2>3. Layout(u4).depth = Layout(u).depth
    BY <1>11, <2>1, <2>2
  <2>. QED
    BY <1>8, <1>9, <1>10, <1>11, <1>12, <2>1, <2>3
<1> DEFINE x(v) == Run(v, stage, condition).open
<1>14. /\ x(u) \in Seq(BOOLEAN)
       /\ x(u1) = Branch(x(u), BeginMarker, stage, condition)
       /\ x(u2) = Branch(x(u1), IfCapture, stage, condition)
       /\ x(u3) = Branch(x(u2), p, stage, condition)
       /\ x(u4) = Branch(x(u3), EndIf, stage, condition)
       /\ x(u5) = Branch(x(u4), EndMarker, stage, condition)
  <2>0. ASSUME NEW v \in Seq(Rows), NEW r \in Rows
        PROVE  x(v) \in Seq(BOOLEAN) /\ x(Append(v, r)) = Branch(x(v), r, stage, condition)
    BY OneMore DEF RunStep, RunStates
  <2> HIDE DEF x
  <2>. QED
    BY <1>0, <1>1, <1>2, <2>0
<1>15. x(u5) = x(u)
  <2> HIDE DEF x
  <2>1. x(u1) = x(u)
    BY <1>6, <1>14 DEF Branch
  <2> DEFINE b == stage = "capture"
  <2>2. x(u2) = Append(x(u1), b) /\ b \in BOOLEAN
    BY <1>14, RowsDiffer DEF Branch
  <2> HIDE DEF b
  <2>3. x(u3) = x(u2)
    BY <1>6, <1>14 DEF Branch
  <2>4. x(u4) = IF x(u3) = <<>> THEN x(u3) ELSE Front(x(u3))
    BY <1>14, RowsDiffer DEF Branch
  <2>5. x(u5) = x(u4)
    BY <1>6, <1>14 DEF Branch
  <2>6. Append(x(u), b) # <<>> /\ Front(Append(x(u), b)) = x(u)
    BY <1>14, <2>2, FrontAppend
  <2>. QED
    BY <2>1, <2>2, <2>3, <2>4, <2>5, <2>6
<1>16. FiltersRun(u5, stage, condition) = FiltersRun(u, stage, condition)
  <2>0. ASSUME NEW v \in Seq(Rows), NEW r \in Rows, r \notin Filters
        PROVE  FiltersRun(Append(v, r), stage, condition) = FiltersRun(v, stage, condition)
    BY <2>0, OneMore
  <2> DEFINE F(v) == FiltersRun(v, stage, condition)
  <2>1. F(u1) = F(u) /\ F(u2) = F(u1) /\ F(u3) = F(u2) /\ F(u4) = F(u3) /\ F(u5) = F(u4)
    BY <1>0, <1>1, <1>2, <1>4, <2>0
  <2>. QED
    BY <2>1
<1>17. PluginRows(u5) = Append(PluginRows(u), p)
  <2>1. PluginRows(u1) = PluginRows(u) /\ PluginRows(u2) = PluginRows(u1)
    BY <1>0, <1>1, <1>2, <1>5, PluginStep
  <2>2. PluginRows(u3) = Append(PluginRows(u2), p)
    BY ZenonT(30), <1>0, <1>1, <1>2, PluginStep
  <2>3. PluginRows(u4) = PluginRows(u3) /\ PluginRows(u5) = PluginRows(u4)
    BY ZenonT(30), <1>0, <1>1, <1>2, <1>5, PluginStep
  <2>. QED
    BY <2>1, <2>2, <2>3
<1>. QED
  BY <1>2, <1>13, <1>15, <1>16, <1>17 DEF u1, u2, u3, u4, u5

\* The same of a block by its index.
LEMMA BlockReads ==
  ASSUME NEW stage \in ApoStages, NEW condition \in BOOLEAN,
         NEW q \in Seq(Rows), NEW i \in 1..Len(q), WrapperAt(q, i),
         NEW o, Alike(Prefix(q, i - 1), o, stage, condition)
  PROVE  /\ Alike(Prefix(q, i + 4), o, stage, condition)
         /\ Layout(Prefix(q, i + 4)).now = Layout(Prefix(q, i - 1)).now
         /\ q[i + 2] \in Plugins
         /\ PluginRows(Prefix(q, i + 4)) = Append(PluginRows(Prefix(q, i - 1)), q[i + 2])
<1>1. PICK n \in Nat : n = Len(q) /\ i \in 1..n /\ i + 4 <= n
  BY LenProperties DEF WrapperAt
<1>2. /\ q[i] = BeginMarker /\ q[i + 1] = IfCapture /\ q[i + 2] \in Plugins
      /\ q[i + 3] = EndIf /\ q[i + 4] = EndMarker
  BY DEF WrapperAt, IsPlugin
<1>3. \A j \in 1..n : Prefix(q, j) = Append(Prefix(q, j - 1), q[j])
  BY <1>1, PrefixIs
<1>4. Prefix(q, i - 1) \in Seq(Rows)
  BY <1>1, PrefixIs
<1>5. Prefix(q, i) = Append(Prefix(q, i - 1), BeginMarker)
  BY <1>1, <1>2, <1>3
<1>6. Prefix(q, i + 1) = Append(Prefix(q, i), IfCapture)
  <2>1. i + 1 \in 1..n /\ (i + 1) - 1 = i
    BY <1>1
  <2>. QED
    BY <1>2, <1>3, <2>1
<1>7. Prefix(q, i + 2) = Append(Prefix(q, i + 1), q[i + 2])
  <2>1. i + 2 \in 1..n /\ (i + 2) - 1 = i + 1
    BY <1>1
  <2>. QED
    BY <1>3, <2>1
<1>8. Prefix(q, i + 3) = Append(Prefix(q, i + 2), EndIf)
  <2>1. i + 3 \in 1..n /\ (i + 3) - 1 = i + 2
    BY <1>1
  <2>. QED
    BY <1>2, <1>3, <2>1
<1>9. Prefix(q, i + 4) = Append(Prefix(q, i + 3), EndMarker)
  <2>1. i + 4 \in 1..n /\ (i + 4) - 1 = i + 3
    BY <1>1
  <2>. QED
    BY <1>2, <1>3, <2>1
<1> DEFINE u == Prefix(q, i - 1)
           v == Prefix(q, i + 4)
           p == q[i + 2]
<1>a. /\ u \in Seq(Rows) /\ p \in Plugins
      /\ v = Append(Append(Append(Append(Append(u, BeginMarker), IfCapture), p),
                           EndIf), EndMarker)
  BY <1>2, <1>4, <1>5, <1>6, <1>7, <1>8, <1>9
<1> HIDE DEF u, v, p
<1>10. /\ Layout(v).depth = Layout(u).depth /\ Layout(v).now = Layout(u).now
       /\ Layout(u).depth > 0 => Layout(v).base = Layout(u).base
       /\ Run(v, stage, condition).open = Run(u, stage, condition).open
       /\ FiltersRun(v, stage, condition) = FiltersRun(u, stage, condition)
       /\ PluginRows(v) = Append(PluginRows(u), p)
  BY <1>a, OverBlock
<1>11. Alike(u, o, stage, condition)
  BY DEF u
<1>12. Alike(v, o, stage, condition)
  BY <1>10, <1>11 DEF Alike
<1>. QED
  BY <1>2, <1>10, <1>12 DEF u, v, p

-----------------------------------------------------------------------------
(* remove_echonull_capture_scope.                                           *)

\* What removal has written for the first i rows, outside the blocks.
Removed(q, i, stage, condition) ==
  LET s == Removal(Prefix(q, i))
  IN  /\ s.owned = FALSE /\ s.out \in Seq(Rows)
      /\ Alike(Prefix(q, i), s.out, stage, condition)
      /\ Layout(s.out).now = Layout(Prefix(q, i)).now
      /\ PluginRows(s.out) = <<>>

\* Removal leaves the filters that run as they were, and the stage in force.
LEMMA RemoveIs ==
  ASSUME NEW stage \in ApoStages, NEW condition \in BOOLEAN,
         NEW q \in Seq(Rows), Layout(q).ok, Layout(q).mark = 0
  PROVE  /\ RemoveScope(q) \in Seq(Rows) /\ Alike(q, RemoveScope(q), stage, condition)
         /\ Layout(RemoveScope(q)).now = Layout(q).now
<1> DEFINE T == {i \in 0..Len(q) : Removed(q, i, stage, condition)}
<1>0. PICK n \in Nat : n = Len(q)
  BY LenProperties
<1>f. Fits(q)
  BY FitsIs
<1>r. \A j \in 1..n : /\ q[j] \in Rows /\ Prefix(q, j - 1) \in Seq(Rows)
                      /\ Prefix(q, j) = Append(Prefix(q, j - 1), q[j])
  BY <1>0, PrefixIs
<1>s. \A j \in 1..n : /\ Removal(Prefix(q, j)) = RemoveStep(Removal(Prefix(q, j - 1)), q[j])
                      /\ Removal(Prefix(q, j - 1)) \in Removals
                      /\ Layout(Prefix(q, j)).ok
  <2>1. ASSUME NEW j \in 1..n
        PROVE  /\ Removal(Prefix(q, j)) = RemoveStep(Removal(Prefix(q, j - 1)), q[j])
               /\ Removal(Prefix(q, j - 1)) \in Removals
    BY <1>r, RemovalFold
  <2>2. \A j \in 1..n : Layout(Prefix(q, j)).ok
    BY <1>0, <1>f DEF Fits
  <2>. QED
    BY <2>1, <2>2
<1>1. 0 \in T
  <2>1. Prefix(q, 0) = <<>> /\ Removal(<<>>) = RemoveStart
        /\ PluginRows(<<>>) = <<>>
    BY PrefixIs, RemovalFold, OnlyFold DEF PluginRows, NoRows
  <2>1a. RemoveStart.owned = FALSE /\ RemoveStart.out = <<>>
    BY DEF RemoveStart
  <2>1b. Alike(<<>>, <<>>, stage, condition) /\ <<>> \in Seq(Rows)
    BY AlikeEmpty
  <2>2. Removed(q, 0, stage, condition)
    BY <2>1, <2>1a, <2>1b DEF Removed
  <2>. QED
    BY <1>0, <2>2
<1>2. ASSUME NEW i \in 1..n, i - 1 \in T, MarkAt(q, i - 1) = 0, MarkAt(q, i) = 0,
             q[i] \notin {BeginMarker, EndMarker}
      PROVE  i \in T
  <2> DEFINE u == Prefix(q, i - 1)
             s == Removal(u)
             t == Removal(Prefix(q, i))
             r == q[i]
  <2>1. /\ s.owned = FALSE /\ s.out \in Seq(Rows) /\ Alike(u, s.out, stage, condition)
        /\ Layout(s.out).now = Layout(u).now /\ PluginRows(s.out) = <<>>
    BY <1>2 DEF Removed
  <2>2. /\ r \in Rows /\ u \in Seq(Rows) /\ Prefix(q, i) = Append(u, r)
        /\ t = RemoveStep(s, r) /\ s \in Removals /\ Layout(Append(u, r)).ok
        /\ Layout(u).mark = 0 /\ r \notin {BeginMarker, EndMarker}
    BY <1>2, <1>r, <1>s DEF MarkAt
  <2> HIDE DEF u, s, t, r
  <2>3. CASE r \in Plugins
    <3>1. t = s
      BY <2>1, <2>2, <2>3 DEF RemoveStep, IsPlugin
    <3>2. r \notin Stages
      BY <2>2, <2>3, RowKinds
    <3>3. Alike(Append(u, r), s.out, stage, condition) /\ Layout(Append(u, r)).now = Layout(u).now
      BY <2>1, <2>2, <2>3, <3>2, AlikeSkip
    <3>4. Removed(q, i, stage, condition)
      BY <2>1, <2>2, <3>1, <3>3 DEF Removed, t
    <3>. QED
      BY <1>0, <3>4
  <2>4. CASE r \notin Plugins
    <3>1. t = [s EXCEPT !.out = Append(@, r)]
      BY <2>1, <2>2, <2>4 DEF RemoveStep, IsPlugin
    <3>2. t.out = Append(s.out, r) /\ t.owned = s.owned
      BY <2>2, <3>1 DEF Removals
    <3>3. /\ Append(s.out, r) \in Seq(Rows)
          /\ Alike(Append(u, r), Append(s.out, r), stage, condition)
          /\ Layout(Append(s.out, r)).now = IF r \in Stages THEN r ELSE Layout(s.out).now
          /\ Layout(Append(u, r)).now = IF r \in Stages THEN r ELSE Layout(u).now
      BY <2>1, <2>2, AlikeStep
    <3>4. PluginRows(Append(s.out, r)) = <<>>
      BY <2>1, <2>2, <2>4, PluginStep
    <3>5. Removed(q, i, stage, condition)
      BY <2>1, <2>2, <3>2, <3>3, <3>4 DEF Removed, t
    <3>. QED
      BY <1>0, <3>5
  <2>. QED
    BY <2>3, <2>4
<1>3. ASSUME NEW i \in 1..n, i - 1 \in T, MarkAt(q, i - 1) = 0, WrapperAt(q, i)
      PROVE  i + 4 \in T
  <2> DEFINE s(j) == Removal(Prefix(q, j))
  <2>1. /\ s(i - 1).owned = FALSE /\ s(i - 1).out \in Seq(Rows)
        /\ Alike(Prefix(q, i - 1), s(i - 1).out, stage, condition)
        /\ Layout(s(i - 1).out).now = Layout(Prefix(q, i - 1)).now
        /\ PluginRows(s(i - 1).out) = <<>>
    BY <1>3 DEF Removed
  <2>2. /\ q[i] = BeginMarker /\ q[i + 1] = IfCapture /\ q[i + 2] \in Plugins
        /\ q[i + 3] = EndIf /\ q[i + 4] = EndMarker /\ i + 4 \in 1..n
    BY <1>0, <1>3 DEF WrapperAt, IsPlugin
  <2>3. /\ IfCapture # EndMarker /\ EndIf # EndMarker /\ q[i + 2] # EndMarker
        /\ IfCapture # BeginMarker /\ EndIf # BeginMarker /\ q[i + 2] # BeginMarker
    BY <2>2, RowKinds, RowsAre
  <2>4. \A j \in 1..n : s(j) = RemoveStep(s(j - 1), q[j]) /\ s(j - 1) \in Removals
    BY <1>s
  <2> HIDE DEF s
  <2>5. s(i).owned = TRUE /\ s(i).out = s(i - 1).out
    <3>1. s(i) = [s(i - 1) EXCEPT !.owned = TRUE]
      BY <2>2, <2>4 DEF RemoveStep
    <3>. QED
      BY <2>4, <3>1 DEF Removals
  <2>6. ASSUME NEW j \in 1..n, s(j - 1).owned = TRUE, q[j] # BeginMarker
        PROVE  /\ s(j).out = s(j - 1).out
               /\ q[j] # EndMarker => s(j).owned = TRUE
               /\ q[j] = EndMarker => s(j).owned = FALSE
    <3> DEFINE b == q[j] # EndMarker
    <3>1. s(j) = [s(j - 1) EXCEPT !.owned = b]
      BY <2>4, <2>6 DEF RemoveStep
    <3> HIDE DEF b
    <3>2. s(j).out = s(j - 1).out /\ s(j).owned = b
      BY <2>4, <3>1 DEF Removals
    <3>. QED
      BY <3>2 DEF b
  <2>7. s(i + 1).owned = TRUE /\ s(i + 1).out = s(i).out
    <3>1. i + 1 \in 1..n /\ (i + 1) - 1 = i
      BY <2>2
    <3>. QED
      BY <2>2, <2>3, <2>5, <2>6, <3>1
  <2>8. s(i + 2).owned = TRUE /\ s(i + 2).out = s(i + 1).out
    <3>1. i + 2 \in 1..n /\ (i + 2) - 1 = i + 1
      BY <2>2
    <3>. QED
      BY <2>2, <2>3, <2>7, <2>6, <3>1
  <2>9. s(i + 3).owned = TRUE /\ s(i + 3).out = s(i + 2).out
    <3>1. i + 3 \in 1..n /\ (i + 3) - 1 = i + 2
      BY <2>2
    <3>. QED
      BY <2>2, <2>3, <2>8, <2>6, <3>1
  <2>10. s(i + 4).owned = FALSE /\ s(i + 4).out = s(i + 3).out
    <3>1. i + 4 \in 1..n /\ (i + 4) - 1 = i + 3
      BY <2>2
    <3>. QED
      BY <2>2, <2>3, <2>9, <2>6, <3>1, RowsDiffer
  <2>11. s(i + 4).out = s(i - 1).out
    BY <2>5, <2>7, <2>8, <2>9, <2>10
  <2>12. /\ Alike(Prefix(q, i + 4), s(i - 1).out, stage, condition)
         /\ Layout(Prefix(q, i + 4)).now = Layout(Prefix(q, i - 1)).now
    BY <1>0, <1>3, <2>1, BlockReads
  <2>13. Removed(q, i + 4, stage, condition)
    BY <2>1, <2>10, <2>11, <2>12 DEF Removed, s
  <2>. QED
    BY <1>0, <2>2, <2>13
<1> HIDE DEF T
<1>4. Len(q) \in T
  BY <1>0, <1>1, <1>2, <1>3, <1>f, BlockInduction DEF RowKept, BlockKept
<1>5. Removed(q, Len(q), stage, condition) /\ Prefix(q, Len(q)) = q
  BY <1>4, PrefixIs DEF T
<1>. QED
  BY <1>5 DEF Removed, RemoveScope


-----------------------------------------------------------------------------
(* The old Setup's blocks, replaced.                                        *)

\* Min of a set of naturals is its least element.
LEMMA LeastIs ==
  ASSUME NEW T, T \subseteq Nat, T # {}
  PROVE  Min(T) \in T /\ \A y \in T : Min(T) <= y
<1>1. \E x \in T : \A y \in T : x <= y
  BY LeastElement
<1>. QED
  BY <1>1 DEF Min

\* The first row after i that is no comment, if there is one, is a Stage row.
Pending(q, i) ==
  LET rest == {j \in i + 1..Len(q) : q[j] \notin Comments}
  IN  rest # {} => q[Min(rest)] \in Stages

\* The row after a pending stage is a comment or the Stage row.
LEMMA PendingStep ==
  ASSUME NEW q \in Seq(Rows), NEW i \in 1..Len(q), Pending(q, i - 1)
  PROVE  /\ q[i] \in Comments => Pending(q, i)
         /\ q[i] \notin Comments => q[i] \in Stages
<1>1. PICK n \in Nat : n = Len(q) /\ i \in 1..n
  BY LenProperties
<1> DEFINE rest(k) == {j \in k + 1..Len(q) : q[j] \notin Comments}
<1>2. \A k \in 0..n : rest(k) \subseteq Nat
  BY <1>1
<1>3. rest(i - 1) # {} => q[Min(rest(i - 1))] \in Stages
  BY DEF Pending
<1>4. ASSUME q[i] \in Comments PROVE rest(i - 1) = rest(i)
  BY <1>1, <1>4
<1>5. ASSUME q[i] \notin Comments PROVE i \in rest(i - 1)
  BY <1>1, <1>5
<1>6. \A j \in rest(i - 1) : i <= j
  BY <1>1
<1>7. ASSUME q[i] \in Comments PROVE Pending(q, i)
  BY <1>3, <1>4, <1>7 DEF Pending
<1>8. ASSUME q[i] \notin Comments PROVE q[i] \in Stages
  <2> HIDE DEF rest
  <2>1. rest(i - 1) # {} /\ i \in rest(i - 1) /\ rest(i - 1) \subseteq Nat
    BY <1>1, <1>2, <1>5, <1>8
  <2>2. Min(rest(i - 1)) \in rest(i - 1) /\ Min(rest(i - 1)) <= i
    BY <2>1, LeastIs
  <2>3. i <= Min(rest(i - 1)) /\ Min(rest(i - 1)) \in Nat
    BY <1>6, <2>1, <2>2
  <2>4. Min(rest(i - 1)) = i
    BY <1>1, <2>2, <2>3
  <2>. QED
    BY <1>3, <2>1, <2>4
<1>. QED
  BY <1>7, <1>8

\* The stage that was in force where the block stands.
Former(q, i) == Layout(Prefix(q, i - 1)).now

\* Three rows, one by one.
LEMMA ThreeRows ==
  ASSUME NEW S, NEW a \in S, NEW b \in S, NEW c \in S
  PROVE  Append(<<a, b>>, c) = <<a, b, c>>
<1> DEFINE s == <<a, b>>
           t == <<a, b, c>>
<1>1. /\ s \in Seq(S) /\ Len(s) = 2 /\ s[1] = a /\ s[2] = b
      /\ t \in Seq(S) /\ Len(t) = 3 /\ t[1] = a /\ t[2] = b /\ t[3] = c
  OBVIOUS
<1> HIDE DEF s, t
<1>2. /\ Append(s, c) \in Seq(S) /\ Len(Append(s, c)) = 3 /\ Append(s, c)[3] = c
      /\ Append(s, c)[1] = a /\ Append(s, c)[2] = b
  <2>1. /\ Append(s, c) \in Seq(S) /\ Len(Append(s, c)) = Len(s) + 1
        /\ \A i \in 1..Len(s) : Append(s, c)[i] = s[i]
        /\ Append(s, c)[Len(s) + 1] = c
    <3>1. s \in Seq(S)
      BY <1>1
    <3>. QED
      BY <3>1, AppendProperties
  <2>2. Len(Append(s, c)) = 3 /\ Append(s, c)[3] = c
    BY <1>1, <2>1
  <2>3. 1 \in 1..Len(s) /\ 2 \in 1..Len(s)
    BY <1>1
  <2>. QED
    BY <1>1, <2>1, <2>2, <2>3
<1>3. \A i \in 1..3 : Append(s, c)[i] = t[i]
  BY <1>1, <1>2
<1>4. Append(s, c) = t
  BY <1>1, <1>2, <1>3, SeqEqual
<1>. QED
  BY <1>4 DEF s, t

\* What takes a wrapper's place ends with the former stage, unless a Stage row
\* comes next or the former stage was capture.
LEMMA UnwrappedIs ==
  ASSUME NEW q \in Seq(Rows), NEW i \in 1..Len(q), WrapperAt(q, i)
  PROVE  /\ Former(q, i) \in Stages /\ q[i + 2] \in Plugins
         /\ \/ Unwrapped(q, i) = <<Capture, q[i + 2], Former(q, i)>>
            \/ /\ Unwrapped(q, i) = <<Capture, q[i + 2]>>
               /\ Pending(q, i + 4) \/ Former(q, i) = Capture
         /\ Unwrapped(q, i) \in Seq(Rows)
<1> DEFINE rest == {j \in i + 5..Len(q) : q[j] \notin Comments}
           former == LastStage(SubSeq(q, 1, i - 1), Mixed)
           p == q[i + 2]
<1>1. PICK n \in Nat : n = Len(q) /\ i \in 1..n /\ i + 4 <= n
  BY LenProperties DEF WrapperAt
<1>2. Prefix(q, i - 1) \in Seq(Rows)
  BY <1>1, PrefixIs
<1>3. former = Former(q, i) /\ Former(q, i) \in Stages
  <2>1. former = Layout(Prefix(q, i - 1)).now
    BY <1>2, LastStageIs DEF Prefix
  <2>2. Layout(Prefix(q, i - 1)) \in Layouts
    BY <1>2, LayoutFold
  <2>. QED
    BY <2>1, <2>2 DEF Former, Layouts
<1>4. p \in Plugins
  BY DEF WrapperAt, IsPlugin
<1>5. Unwrapped(q, i)
        = <<Capture, p>> \o (IF rest # {} /\ q[Min(rest)] \notin Stages /\ former # Capture
                             THEN <<former>> ELSE <<>>)
  BY DEF Unwrapped
<1>6. rest = {j \in (i + 4) + 1..Len(q) : q[j] \notin Comments}
  <2>1. (i + 4) + 1 = i + 5
    BY <1>1
  <2>. QED
    BY <2>1
<1> HIDE DEF rest, former, p
<1>7. Capture \in Rows /\ p \in Rows /\ former \in Rows
  BY <1>3, <1>4, RowsAre
<1>8. CASE rest # {} /\ q[Min(rest)] \notin Stages /\ former # Capture
  <2>0. <<Capture, p>> \o <<former>> = <<Capture, p, former>>
    <3>1. <<Capture, p>> \in Seq(Rows)
      BY <1>7
    <3>2. Append(<<Capture, p>>, former) = <<Capture, p, former>>
      BY <1>7, ThreeRows
    <3>3. Append(<<Capture, p>>, former) = <<Capture, p>> \o <<former>>
      BY <1>7, <3>1, AppendIsConcat
    <3>. QED
      BY <3>2, <3>3
  <2>1. Unwrapped(q, i) = <<Capture, p, former>>
    BY <1>5, <1>8, <2>0
  <2>. QED
    BY <1>3, <1>4, <1>7, <2>1 DEF p
<1>9. CASE ~(rest # {} /\ q[Min(rest)] \notin Stages /\ former # Capture)
  <2>1. Unwrapped(q, i) = <<Capture, p>> \o <<>>
    BY <1>5, <1>9
  <2>2. <<Capture, p>> \o <<>> = <<Capture, p>>
    OBVIOUS
  <2>3. Pending(q, i + 4) \/ former = Capture
    BY <1>6, <1>9 DEF Pending
  <2>4. <<Capture, p>> \in Seq(Rows)
    BY <1>7
  <2>5. Unwrapped(q, i) = <<Capture, p>>
    BY <2>1, <2>2
  <2>. QED
    BY <1>3, <1>4, <2>3, <2>4, <2>5 DEF p
<1>. QED
  BY <1>8, <1>9

\* One step of UnwrapAll, and the function it recurses by.
UnwrapStep(q, i, out) ==
  IF WrapperAt(q, i) THEN out \o Unwrapped(q, i)
  ELSE IF \E w \in Wrappers(q) : w < i /\ i <= w + 4 THEN out
  ELSE Append(out, q[i])

IsUnwrapping(f, q) ==
  /\ f \in [0..Len(q) -> Seq(Rows)] /\ f[0] = <<>>
  /\ \A i \in 1..Len(q) : f[i] = UnwrapStep(q, i, f[i - 1])
  /\ UnwrapAll(q) = f[Len(q)]

\* UnwrapAll follows its steps.
LEMMA UnwrapFold ==
  ASSUME NEW q \in Seq(Rows)
  PROVE  \E f : IsUnwrapping(f, q)
<1>1. PICK n \in Nat : n = Len(q)
  BY LenProperties
<1> DEFINE S == Seq(Rows)
           st == [i \in 1..n |-> [out \in S |-> UnwrapStep(q, i, out)]]
<1>2. ASSUME NEW i \in 1..n, NEW out \in S PROVE UnwrapStep(q, i, out) \in S
  <2>1. q[i] \in Rows
    BY <1>1, PrefixIs
  <2>2. Append(out, q[i]) \in S
    BY <2>1, AppendProperties
  <2>3. WrapperAt(q, i) => out \o Unwrapped(q, i) \in S
    BY <1>1, UnwrappedIs, ConcatProperties
  <2>. QED
    BY <2>2, <2>3 DEF UnwrapStep
<1>3. IsSteps(st, n, S)
  BY <1>2 DEF IsSteps
<1>4. \A i \in 1..n, out \in S : st[i][out] = UnwrapStep(q, i, out)
  OBVIOUS
<1> HIDE DEF st
<1>5. <<>> \in S
  BY EmptySeq
<1>6. PICK f : IsIteration(f, st, <<>>, n, S)
  BY <1>3, <1>5, Iterate
<1>7. f \in [0..n -> S] /\ f[0] = <<>>
  BY <1>6 DEF IsIteration
<1>8. ASSUME NEW i \in 1..n PROVE f[i] = UnwrapStep(q, i, f[i - 1])
  <2>1. f[i] = st[i][f[i - 1]] /\ f[i - 1] \in S
    BY <1>6 DEF IsIteration
  <2>. QED
    BY <1>4, <2>1
<1> DEFINE body(g, i) == IF i = 0 THEN <<>> ELSE UnwrapStep(q, i, g[i - 1])
           h == CHOOSE g : g = [i \in 0..n |->
                  IF i = 0 THEN <<>>
                  ELSE IF WrapperAt(q, i) THEN g[i - 1] \o Unwrapped(q, i)
                  ELSE IF \E w \in Wrappers(q) : w < i /\ i <= w + 4 THEN g[i - 1]
                  ELSE Append(g[i - 1], q[i])]
<1>9. UnwrapAll(q) = h[n]
  BY <1>1 DEF UnwrapAll
<1>10. f = [i \in 0..n |-> body(f, i)]
  <2>1. ASSUME NEW i \in 0..n PROVE f[i] = body(f, i)
    <3>1. i = 0 \/ i \in 1..n
      OBVIOUS
    <3>. QED
      BY <1>7, <1>8, <3>1
  <2> HIDE DEF body
  <2>. QED
    BY <1>7, <2>1
<1>11. f = [i \in 0..n |->
                  IF i = 0 THEN <<>>
                  ELSE IF WrapperAt(q, i) THEN f[i - 1] \o Unwrapped(q, i)
                  ELSE IF \E w \in Wrappers(q) : w < i /\ i <= w + 4 THEN f[i - 1]
                  ELSE Append(f[i - 1], q[i])]
  BY <1>10 DEF UnwrapStep
<1>12. h = [i \in 0..n |->
                  IF i = 0 THEN <<>>
                  ELSE IF WrapperAt(q, i) THEN h[i - 1] \o Unwrapped(q, i)
                  ELSE IF \E w \in Wrappers(q) : w < i /\ i <= w + 4 THEN h[i - 1]
                  ELSE Append(h[i - 1], q[i])]
  BY <1>11
<1> HIDE DEF h, body
<1>13. h = [i \in 0..n |-> IF i = 0 THEN <<>> ELSE UnwrapStep(q, i, h[i - 1])]
  BY <1>12 DEF UnwrapStep
<1> DEFINE T == {i \in 0..n : h[i] = f[i]}
<1>14. 0 \in T
  BY <1>7, <1>13
<1>15. ASSUME NEW i \in 1..n, i - 1 \in T PROVE i \in T
  <2>1. h[i] = UnwrapStep(q, i, h[i - 1]) /\ h[i - 1] = f[i - 1]
    BY <1>13, <1>15
  <2>. QED
    BY <1>8, <2>1
<1>16. \A i \in 0..n : i \in T
  <2> HIDE DEF T
  <2>. QED
    BY <1>14, <1>15, UpTo
<1>17. UnwrapAll(q) = f[n]
  BY <1>9, <1>16
<1>. QED
  BY <1>1, <1>7, <1>8, <1>17 DEF IsUnwrapping

\* What has been written before row i + 1.
Replaced(q, i, o, stage, condition) ==
  /\ o \in Seq(Rows) /\ Alike(Prefix(q, i), o, stage, condition)
  /\ PluginRows(o) = PluginRows(Prefix(q, i))
  /\ Layout(o).now = Layout(Prefix(q, i)).now \/ Pending(q, i)

\* A row outside the blocks is copied: it runs as before, whether the stage in
\* force is the former one or a Stage row is to come.
LEMMA ReplacedRow ==
  ASSUME NEW stage \in ApoStages, NEW condition \in BOOLEAN,
         NEW q \in Seq(Rows), NEW i \in 1..Len(q), NEW o,
         Replaced(q, i - 1, o, stage, condition), MarkAt(q, i - 1) = 0,
         q[i] \notin {BeginMarker, EndMarker}, Layout(Prefix(q, i)).ok
  PROVE  Replaced(q, i, Append(o, q[i]), stage, condition)
<1> DEFINE u == Prefix(q, i - 1)
           r == q[i]
           v == Append(o, r)
<1>1. /\ o \in Seq(Rows) /\ Alike(u, o, stage, condition)
      /\ PluginRows(o) = PluginRows(u)
      /\ Layout(o).now = Layout(u).now \/ Pending(q, i - 1)
      /\ Layout(u).mark = 0
  BY DEF Replaced, MarkAt
<1>2. /\ r \in Rows /\ u \in Seq(Rows) /\ Prefix(q, i) = Append(u, r)
  <2>1. PICK n \in Nat : n = Len(q) /\ i \in 1..n
    BY LenProperties
  <2>. QED
    BY <2>1, PrefixIs
<1>3. Pending(q, i - 1) => (r \in Comments => Pending(q, i)) /\ (r \notin Comments => r \in Stages)
  BY PendingStep
<1>4. r \notin {BeginMarker, EndMarker} /\ Layout(Append(u, r)).ok
  BY <1>2
<1> HIDE DEF u, r, v
<1>5. r \in Comments => r = Comment
  BY <1>4, RowsAre
<1>6. r \in Stages \union Plugins \union {Comment} \/ Layout(o).now = Layout(u).now
  BY <1>1, <1>3, <1>5
<1>7. /\ v \in Seq(Rows) /\ Alike(Append(u, r), v, stage, condition)
      /\ Layout(v).now = IF r \in Stages THEN r ELSE Layout(o).now
      /\ Layout(Append(u, r)).now = IF r \in Stages THEN r ELSE Layout(u).now
  BY <1>1, <1>2, <1>4, <1>6, AlikeStep DEF v
<1>8. PluginRows(v) = PluginRows(Append(u, r))
  <2>1. /\ r \in Plugins => PluginRows(v) = Append(PluginRows(o), r)
        /\ r \notin Plugins => PluginRows(v) = PluginRows(o)
    BY <1>1, <1>2, PluginStep DEF v
  <2>2. /\ r \in Plugins => PluginRows(Append(u, r)) = Append(PluginRows(u), r)
        /\ r \notin Plugins => PluginRows(Append(u, r)) = PluginRows(u)
    BY <1>2, PluginStep
  <2>. QED
    BY <1>1, <2>1, <2>2
<1>9. Layout(v).now = Layout(Append(u, r)).now \/ Pending(q, i)
  BY <1>1, <1>3, <1>7
<1>10. Replaced(q, i, v, stage, condition)
  BY <1>2, <1>7, <1>8, <1>9 DEF Replaced
<1>. QED
  BY <1>10 DEF v, r

\* A block and what takes its place do the same to the filters.
LEMMA ReplacedBlock ==
  ASSUME NEW stage \in ApoStages, NEW condition \in BOOLEAN,
         NEW q \in Seq(Rows), NEW i \in 1..Len(q), NEW o,
         Replaced(q, i - 1, o, stage, condition), WrapperAt(q, i)
  PROVE  Replaced(q, i + 4, o \o Unwrapped(q, i), stage, condition)
<1> DEFINE u == Prefix(q, i - 1)
           v == Prefix(q, i + 4)
           p == q[i + 2]
           k == Former(q, i)
<1>1. /\ o \in Seq(Rows) /\ Alike(u, o, stage, condition)
      /\ PluginRows(o) = PluginRows(u)
  BY DEF Replaced
<1>2. /\ Alike(v, o, stage, condition) /\ Layout(v).now = k
      /\ p \in Plugins /\ PluginRows(v) = Append(PluginRows(u), p)
  BY <1>1, BlockReads DEF Former
<1>3. /\ k \in Stages
      /\ \/ Unwrapped(q, i) = <<Capture, p, k>>
         \/ /\ Unwrapped(q, i) = <<Capture, p>>
            /\ Pending(q, i + 4) \/ k = Capture
  BY UnwrappedIs
<1> HIDE DEF u, v, p, k
<1> DEFINE o1 == Append(o, Capture)
           o2 == Append(o1, p)
           o3 == Append(o2, k)
<1>4. Capture \in Stages /\ Capture \in Rows /\ p \in Rows /\ k \in Rows /\ p \notin Stages
  BY <1>2, <1>3, RowsAre, RowKinds
<1>4a. k \notin Plugins /\ Capture \notin Plugins
  BY <1>3, <1>4, RowKinds
<1>5. o1 \in Seq(Rows) /\ Alike(v, o1, stage, condition) /\ Layout(o1).now = Capture
      /\ PluginRows(o1) = PluginRows(u)
  <2>0. v \in Seq(Rows)
    <3>1. PICK n \in Nat : n = Len(q) /\ i \in 1..n /\ i + 4 <= n
      BY LenProperties DEF WrapperAt
    <3>. QED
      BY <3>1, PrefixIs DEF v
  <2>. QED
    BY <1>1, <1>2, <1>4, <1>4a, <2>0, AlikeExtra, PluginStep
<1>6. v \in Seq(Rows)
  <2>1. PICK n \in Nat : n = Len(q) /\ i \in 1..n /\ i + 4 <= n
    BY LenProperties DEF WrapperAt
  <2>. QED
    BY <2>1, PrefixIs DEF v
<1> HIDE DEF o1
<1>7. o2 \in Seq(Rows) /\ Alike(v, o2, stage, condition) /\ Layout(o2).now = Capture
      /\ PluginRows(o2) = PluginRows(v)
  <2>1. o2 \in Seq(Rows) /\ Alike(v, o2, stage, condition) /\ Layout(o2).now = Capture
    BY <1>2, <1>4, <1>5, <1>6, AlikeExtra
  <2>2. PluginRows(o2) = Append(PluginRows(o1), p)
    BY <1>2, <1>4, <1>5, PluginStep
  <2>. QED
    BY <1>2, <1>5, <2>1, <2>2
<1> HIDE DEF o2
<1>8. o3 \in Seq(Rows) /\ Alike(v, o3, stage, condition) /\ Layout(o3).now = k
      /\ PluginRows(o3) = PluginRows(v)
  <2>1. o3 \in Seq(Rows) /\ Alike(v, o3, stage, condition) /\ Layout(o3).now = k
    BY <1>3, <1>4, <1>6, <1>7, AlikeExtra
  <2>2. PluginRows(o3) = PluginRows(o2)
    BY <1>4, <1>4a, <1>7, PluginStep
  <2>. QED
    BY <1>7, <2>1, <2>2
<1> HIDE DEF o3
<1>9. o \o <<Capture, p>> = o2
  <2>1. <<Capture, p>> = Append(<<Capture>>, p) /\ <<Capture>> \in Seq(Rows)
    BY <1>4
  <2>2. o \o Append(<<Capture>>, p) = Append(o \o <<Capture>>, p)
    BY <1>1, <1>4, <2>1, ConcatAppend
  <2>3. o \o <<Capture>> = o1
    BY <1>1, <1>4, AppendIsConcat DEF o1
  <2>. QED
    BY <2>1, <2>2, <2>3 DEF o2
<1>10. o \o <<Capture, p, k>> = o3
  <2>1. <<Capture, p, k>> = Append(<<Capture, p>>, k) /\ <<Capture, p>> \in Seq(Rows)
    BY <1>4
  <2>2. o \o Append(<<Capture, p>>, k) = Append(o \o <<Capture, p>>, k)
    BY <1>1, <1>4, <2>1, ConcatAppend
  <2>. QED
    BY <1>9, <2>1, <2>2 DEF o3
<1> DEFINE w == o \o Unwrapped(q, i)
<1>11. w = o3 \/ (w = o2 /\ (Pending(q, i + 4) \/ k = Capture))
  BY <1>3, <1>9, <1>10
<1> HIDE DEF w
<1>12. /\ w \in Seq(Rows) /\ Alike(v, w, stage, condition) /\ PluginRows(w) = PluginRows(v)
       /\ Layout(w).now = Layout(v).now \/ Pending(q, i + 4)
  BY <1>2, <1>7, <1>8, <1>11
<1>. QED
  BY <1>12 DEF Replaced, v, w

\* Replacing the old Setup's blocks changes neither the filters that run nor the
\* plug-in rows, and leaves no marker.
LEMMA UnwrapIs ==
  ASSUME NEW stage \in ApoStages, NEW condition \in BOOLEAN,
         NEW q \in Seq(Rows), Layout(q).ok, Layout(q).mark = 0
  PROVE  /\ UnwrapAll(q) \in Seq(Rows) /\ Alike(q, UnwrapAll(q), stage, condition)
         /\ PluginRows(UnwrapAll(q)) = PluginRows(q)
<1>0. PICK n \in Nat : n = Len(q)
  BY LenProperties
<1>1. PICK f : IsUnwrapping(f, q)
  BY UnwrapFold
<1>2. /\ f \in [0..n -> Seq(Rows)] /\ f[0] = <<>>
      /\ \A i \in 1..n : f[i] = UnwrapStep(q, i, f[i - 1])
      /\ UnwrapAll(q) = f[n]
  BY <1>0, <1>1 DEF IsUnwrapping
<1>f. Fits(q)
  BY FitsIs
<1> DEFINE T == {i \in 0..Len(q) : Replaced(q, i, f[i], stage, condition)}
<1>3. 0 \in T
  <2>1. Prefix(q, 0) = <<>> /\ Alike(<<>>, <<>>, stage, condition) /\ <<>> \in Seq(Rows)
    BY PrefixIs, AlikeEmpty
  <2>2. Replaced(q, 0, f[0], stage, condition)
    BY <1>2, <2>1 DEF Replaced
  <2>. QED
    BY <1>0, <2>2
<1>4. ASSUME NEW i \in 1..n, i - 1 \in T, MarkAt(q, i - 1) = 0,
             q[i] \notin {BeginMarker, EndMarker}, Free(q, i)
      PROVE  i \in T
  <2>1. ~WrapperAt(q, i)
    BY <1>4 DEF WrapperAt
  <2>2. ~\E w \in Wrappers(q) : w < i /\ i <= w + 4
    <3>1. \A w \in Wrappers(q) : w \in Nat
      BY <1>0 DEF Wrappers
    <3>. QED
      BY <1>4, <3>1 DEF Free
  <2>3. f[i] = Append(f[i - 1], q[i])
    BY <1>2, <2>1, <2>2 DEF UnwrapStep
  <2>4. Layout(Prefix(q, i)).ok
    BY <1>0, <1>f DEF Fits
  <2>5. Replaced(q, i, Append(f[i - 1], q[i]), stage, condition)
    BY <1>0, <1>4, <2>4, ReplacedRow
  <2>6. Replaced(q, i, f[i], stage, condition)
    BY <2>3, <2>5
  <2>. QED
    BY <1>0, <2>6
<1>5. ASSUME NEW i \in 1..n, i - 1 \in T, MarkAt(q, i - 1) = 0, WrapperAt(q, i)
      PROVE  i + 4 \in T
  <2>1. i + 4 \in 1..n /\ q[i] = BeginMarker
    BY <1>0, <1>5 DEF WrapperAt
  <2>2. f[i] = f[i - 1] \o Unwrapped(q, i)
    BY <1>2, <1>5 DEF UnwrapStep
  <2>3. ASSUME NEW j \in (i + 1)..(i + 4) PROVE f[j] = f[j - 1]
    <3>1. /\ MarkAt(q, i) = 1 /\ MarkAt(q, i + 1) = 2 /\ MarkAt(q, i + 2) = 3
          /\ MarkAt(q, i + 3) = 4
      BY <1>0, <1>f, <2>1, BlockIs
    <3>2. j \in 1..n /\ (j - 1 = i \/ j - 1 = i + 1 \/ j - 1 = i + 2 \/ j - 1 = i + 3)
      BY <2>1
    <3>3. q[j] # BeginMarker
      BY SMTT(20), <1>0, <1>f, <3>1, <3>2, BlockIs
    <3>4. ~WrapperAt(q, j)
      BY <3>3 DEF WrapperAt
    <3>5. i \in Wrappers(q) /\ i < j /\ j <= i + 4
      BY <1>0, <1>5 DEF Wrappers
    <3>. QED
      BY <1>2, <3>2, <3>4, <3>5 DEF UnwrapStep
  <2>4. f[i + 4] = f[i]
    <3>1. i + 1 \in (i + 1)..(i + 4) /\ (i + 1) - 1 = i
      OBVIOUS
    <3>2. i + 2 \in (i + 1)..(i + 4) /\ (i + 2) - 1 = i + 1
      OBVIOUS
    <3>3. i + 3 \in (i + 1)..(i + 4) /\ (i + 3) - 1 = i + 2
      OBVIOUS
    <3>4. i + 4 \in (i + 1)..(i + 4) /\ (i + 4) - 1 = i + 3
      OBVIOUS
    <3>5. f[i + 1] = f[i] /\ f[i + 2] = f[i + 1] /\ f[i + 3] = f[i + 2] /\ f[i + 4] = f[i + 3]
      BY <2>3, <3>1, <3>2, <3>3, <3>4
    <3>. QED
      BY <3>5
  <2>5. Replaced(q, i + 4, f[i - 1] \o Unwrapped(q, i), stage, condition)
    BY <1>0, <1>5, ReplacedBlock
  <2>6. Replaced(q, i + 4, f[i + 4], stage, condition)
    BY <2>2, <2>4, <2>5
  <2>. QED
    BY <1>0, <2>1, <2>6
<1> HIDE DEF T
<1>6. Len(q) \in T
  BY <1>0, <1>3, <1>4, <1>5, <1>f, BlockInduction DEF RowKept, BlockKept
<1>7. Replaced(q, n, f[n], stage, condition) /\ Prefix(q, n) = q
  BY <1>0, <1>6, PrefixIs DEF T
<1>. QED
  BY <1>2, <1>7 DEF Replaced


-----------------------------------------------------------------------------
(* install_echonull_capture_scope.                                          *)

\* A file laid out well that has no wrapper has no marker.
LEMMA WrapperFree ==
  ASSUME NEW q \in Seq(Rows), Layout(q).ok, Layout(q).mark = 0, Wrappers(q) = {}
  PROVE  Layout(q).plain
<1>1. PICK n \in Nat : n = Len(q)
  BY LenProperties
<1>2. Fits(q)
  BY FitsIs
<1>3. ASSUME NEW i \in 1..n PROVE q[i] # BeginMarker
  <2>1. q[i] = BeginMarker => WrapperAt(q, i)
    BY <1>1, <1>2, BlockIs
  <2>. QED
    BY <1>1, <2>1 DEF Wrappers
<1> DEFINE T == {i \in 0..n : MarkAt(q, i) = 0 /\ Layout(Prefix(q, i)).plain}
<1>4. 0 \in T
  BY <1>2, PrefixIs, LayoutFold DEF Fits, LayoutStart
<1>5. ASSUME NEW i \in 1..n, i - 1 \in T PROVE i \in T
  <2>1. /\ q[i] \in Rows /\ Prefix(q, i - 1) \in Seq(Rows)
        /\ Prefix(q, i) = Append(Prefix(q, i - 1), q[i])
    BY <1>1, PrefixIs
  <2>2. /\ MarkAt(q, i - 1) = 0 /\ Layout(Prefix(q, i - 1)).plain
        /\ MarkFits(0, q[i]) /\ MarkAt(q, i) = MarkAfter(0, q[i])
    BY <1>1, <1>2, <1>5 DEF Fits
  <2>3. q[i] \notin {BeginMarker, EndMarker} /\ MarkAt(q, i) = 0
    BY <1>3, <2>1, <2>2, MarkCases
  <2>4. Layout(Prefix(q, i)) = LayoutStep(Layout(Prefix(q, i - 1)), q[i])
        /\ Layout(Prefix(q, i - 1)) \in Layouts
    BY <2>1, LayoutFold
  <2>5. Layout(Prefix(q, i)).plain
    BY <2>1, <2>2, <2>3, <2>4, LayoutFields
  <2>. QED
    BY <2>3, <2>5
<1>6. \A i \in 0..n : i \in T
  <2> HIDE DEF T
  <2>. QED
    BY <1>4, <1>5, UpTo
<1>. QED
  BY <1>1, <1>6, PrefixIs

\* A file without markers has no wrapper.
LEMMA PlainWrappers ==
  ASSUME NEW q \in Seq(Rows), Layout(q).ok, Layout(q).plain
  PROVE  Wrappers(q) = {}
<1>1. PICK n \in Nat : n = Len(q)
  BY LenProperties
<1> DEFINE T == {j \in 0..n : Layout(Prefix(q, n - j)).plain}
<1>2. 0 \in T
  BY <1>1, PrefixIs
<1>3. ASSUME NEW k \in 1..n, Layout(Prefix(q, k)).plain
      PROVE  Layout(Prefix(q, k - 1)).plain /\ q[k] # BeginMarker
  <2>1. /\ q[k] \in Rows /\ Prefix(q, k - 1) \in Seq(Rows)
        /\ Prefix(q, k) = Append(Prefix(q, k - 1), q[k])
    BY <1>1, PrefixIs
  <2>2. Layout(Prefix(q, k)) = LayoutStep(Layout(Prefix(q, k - 1)), q[k])
        /\ Layout(Prefix(q, k - 1)) \in Layouts
    BY <2>1, LayoutFold
  <2>. QED
    BY <1>3, <2>1, <2>2, LayoutFields
<1>4. ASSUME NEW j \in 1..n, j - 1 \in T PROVE j \in T
  <2>1. PICK k \in 1..n : n - (j - 1) = k /\ k - 1 = n - j
    OBVIOUS
  <2>. QED
    BY <1>3, <1>4, <2>1
<1>5. \A j \in 0..n : j \in T
  <2> HIDE DEF T
  <2>. QED
    BY <1>2, <1>4, UpTo
<1>6. ASSUME NEW i \in 1..n PROVE q[i] # BeginMarker
  <2>1. n - i \in 0..n /\ n - (n - i) = i
    OBVIOUS
  <2>2. Layout(Prefix(q, i)).plain
    BY <1>5, <2>1
  <2>. QED
    BY <1>3, <2>2
<1>. QED
  BY <1>1, <1>6 DEF Wrappers, WrapperAt

\* install_echonull_capture_scope on every file laid out well: the result runs the
\* same filters, keeps the plug-in rows and has every one of them scoped.
LEMMA InstallIs ==
  ASSUME NEW stage \in ApoStages, NEW condition \in BOOLEAN,
         NEW q \in Seq(Rows), Layout(q).ok, Layout(q).mark = 0
  PROVE  /\ InstallScope(q) \in Seq(Rows) /\ Alike(q, InstallScope(q), stage, condition)
         /\ HasCaptureScoped(InstallScope(q)) /\ Updated(q, InstallScope(q))
<1>1. CASE Wrappers(q) = {}
  <2>1. InstallScope(q) = InstallOnce(q)
    BY <1>1 DEF InstallScope
  <2>2. Layout(q).plain
    BY <1>1, WrapperFree
  <2>. QED
    BY <2>1, <2>2, InstallOnceIs
<1>2. CASE Wrappers(q) # {}
  <2> DEFINE u == UnwrapAll(q)
             c == Collapse(u)
             p == InstallOnce(c)
  <2>1. InstallScope(q) = p
    BY <1>2 DEF InstallScope
  <2>2. /\ u \in Seq(Rows) /\ Alike(q, u, stage, condition)
        /\ PluginRows(u) = PluginRows(q)
    BY UnwrapIs
  <2> HIDE DEF u
  <2>3. Layout(u).ok /\ Layout(u).plain
    BY <2>2 DEF Alike
  <2>4. /\ c \in Seq(Rows) /\ Alike(u, c, stage, condition)
        /\ PluginRows(c) = PluginRows(u)
    BY <2>2, <2>3, CollapseIs DEF Collapsed
  <2> HIDE DEF c
  <2>5. Layout(c).ok /\ Layout(c).plain
    BY <2>4 DEF Alike
  <2>6. /\ p \in Seq(Rows) /\ Alike(c, p, stage, condition)
        /\ HasCaptureScoped(p) /\ Updated(c, p)
    BY <2>4, <2>5, InstallOnceIs
  <2> HIDE DEF p
  <2>7. Alike(q, p, stage, condition)
    BY <2>2, <2>4, <2>6, AlikeTransitive
  <2>8. Updated(q, p)
    BY <2>2, <2>4, <2>6 DEF Updated
  <2>. QED
    BY <2>1, <2>6, <2>7, <2>8
<1>. QED
  BY <1>1, <1>2

\* A second run on the result changes nothing.
LEMMA InstallAgain ==
  ASSUME NEW q \in Seq(Rows), Layout(q).ok, Layout(q).plain, HasCaptureScoped(q)
  PROVE  InstallScope(q) = q
BY PlainWrappers DEF InstallScope, InstallOnce

-----------------------------------------------------------------------------
(* The file.                                                                *)

\* The user of the theorems keeps Stage rows outside conditions and leaves the old
\* markers to Setup.  With Stage rows in conditions TLC refutes EffectOnlyInCapture,
\* with rows of the user's between the markers FiltersAreKept (see README.md).
OrdinaryUse == StageInCondition = FALSE /\ Markers = FALSE

\* The inductive invariant: the file is laid out well between two writes, a Stage
\* row inside a condition never stays in force after it, and an installed file is
\* one that has_capture_scoped_echonull accepts.
FileInv ==
  /\ TypeOK
  /\ Layout(config).ok /\ Layout(config).mark = 0
  /\ Layout(config).depth > 0 => Layout(config).now = Layout(config).base
  /\ event = "install" => HasCaptureScoped(config) /\ Layout(config).plain

\* A row of the user keeps the layout.
LEMMA UserWritesKeeps ==
  ASSUME OrdinaryUse, FileInv, UserWrites
  PROVE  FileInv'
<1>1. PICK row \in UserRows : config' = Append(config, row)
  BY DEF UserWrites
<1> DEFINE g == Layout(config)
           h == LayoutStep(g, row)
<1>2. config \in Seq(Rows) /\ event' = "user" /\ g \in Layouts /\ g.ok /\ g.mark = 0
      /\ (g.depth > 0 => g.now = g.base) /\ Depth(config) = g.depth
  BY DepthIs, LayoutFold DEF FileInv, TypeOK, UserWrites
<1>3. /\ row \in Rows
      /\ row \in Stages => g.depth = 0
      /\ row \in {Else, EndIf} => g.depth > 0
      /\ row \notin {BeginMarker, EndMarker}
  <2>1. \/ row = Comment \/ row = Filter(NextNumber(config, Filters))
        \/ row = Plugin(NextNumber(config, Plugins))
        \/ row \in Stages /\ Depth(config) = 0
        \/ row \in {IfCapture, IfOther}
        \/ row \in {EndIf, Else} /\ Depth(config) > 0
    BY DEF UserRows, OrdinaryUse
  <2>2. NextNumber(config, Filters) \in Nat /\ NextNumber(config, Plugins) \in Nat
    BY <1>2, OnlyFold, LenProperties DEF NextNumber
  <2>3. Filter(NextNumber(config, Filters)) \in Filters
        /\ Plugin(NextNumber(config, Plugins)) \in Plugins
    BY <2>2 DEF Filter, Plugin, Filters, Plugins
  <2>4. /\ row \in Comments \/ row \in Filters \/ row \in Plugins \/ row \in Stages
           \/ row \in {IfCapture, IfOther} \/ row \in {EndIf, Else}
        /\ row \in Comments => row = Comment
        /\ row \in Stages => Depth(config) = 0
        /\ row \in {EndIf, Else} => Depth(config) > 0
    <3>1. row \in Rows
      BY <2>1, <2>3, RowsAre
    <3>. QED
      BY <2>1, <2>3, <3>1, RowKinds, RowsAre, RowsDiffer
  <2>. QED
    BY <1>2, <2>4, RowsAre, RowsDiffer
<1>4. Layout(config') = h /\ config' \in Seq(Rows)
  BY <1>1, <1>2, <1>3, LayoutFold, AppendProperties
<1> HIDE DEF g, h
<1>5. MarkAfter(0, row) = 0 /\ MarkFits(0, row)
  BY <1>3 DEF MarkAfter, MarkFits
<1>6. h.ok /\ h.mark = 0
  <2>1. /\ row \in {IfCapture, IfOther} => g.depth = 0 \/ g.now = g.base
        /\ row \in {Else, EndIf} => g.depth > 0 /\ g.now = g.base
    BY <1>2, <1>3 DEF Layouts
  <2>. QED
    BY <1>2, <1>3, <1>5, <2>1, LayoutFields DEF h
<1>7. h.depth > 0 => h.now = h.base
  <2>1. h.now = IF row \in Stages THEN row ELSE g.now
    BY <1>2, <1>3, LayoutFields DEF h
  <2>2. h.base = IF row \in {IfCapture, IfOther} /\ g.depth = 0 THEN g.now ELSE g.base
    BY <1>2, <1>3, LayoutFields DEF h
  <2>3. /\ row \notin {IfCapture, IfOther, EndIf} => h.depth = g.depth
        /\ row = EndIf => g.depth > 0
        /\ g.depth \in Nat
    BY <1>2, <1>3, LayoutFields DEF h, Layouts
  <2>4. row \in Stages => row \notin {IfCapture, IfOther, EndIf}
    BY <1>3, RowKinds
  <2>. QED
    BY <1>2, <1>3, <2>1, <2>2, <2>3, <2>4
<1>. QED
  BY <1>2, <1>4, <1>6, <1>7 DEF FileInv, TypeOK

\* The old Setup's block keeps the layout: it is whole.
LEMMA OldSetupWritesKeeps ==
  ASSUME FileInv, OldSetupWrites
  PROVE  FileInv'
<1> DEFINE p == Plugin(1)
           u1 == Append(config, BeginMarker)
           u2 == Append(u1, IfCapture)
           u3 == Append(u2, p)
           u4 == Append(u3, EndIf)
           u5 == Append(u4, EndMarker)
<1>0. /\ u1 = Append(config, BeginMarker) /\ u2 = Append(u1, IfCapture) /\ u3 = Append(u2, p)
      /\ u4 = Append(u3, EndIf) /\ u5 = Append(u4, EndMarker)
  OBVIOUS
<1>1. config \in Seq(Rows) /\ event = "user" /\ event' = event
  BY DEF FileInv, TypeOK, OldSetupWrites
<1>2. p \in Plugins
  BY DEF Plugin, Plugins
<1>3. config' = u5
  BY <1>1 DEF OldSetupWrites
<1> HIDE DEF p, u1, u2, u3, u4, u5
<1>4. /\ BeginMarker \in Rows /\ IfCapture \in Rows /\ p \in Rows /\ EndIf \in Rows
      /\ EndMarker \in Rows /\ p \notin {IfCapture, IfOther, Else, EndIf}
      /\ BeginMarker \notin {IfCapture, IfOther, Else, EndIf}
      /\ EndMarker \notin {IfCapture, IfOther, Else, EndIf}
      /\ BeginMarker \notin Stages /\ IfCapture \notin Stages /\ p \notin Stages
      /\ EndIf \notin Stages
  BY <1>2, RowsAre, RowKinds
<1>5. /\ u1 \in Seq(Rows) /\ u2 \in Seq(Rows) /\ u3 \in Seq(Rows) /\ u4 \in Seq(Rows)
      /\ u5 \in Seq(Rows)
  BY <1>0, <1>1, <1>4, AppendProperties
<1>6. /\ Layout(config) \in Layouts
      /\ Layout(u1) = LayoutStep(Layout(config), BeginMarker) /\ Layout(u1) \in Layouts
      /\ Layout(u2) = LayoutStep(Layout(u1), IfCapture) /\ Layout(u2) \in Layouts
      /\ Layout(u3) = LayoutStep(Layout(u2), p) /\ Layout(u3) \in Layouts
      /\ Layout(u4) = LayoutStep(Layout(u3), EndIf) /\ Layout(u4) \in Layouts
      /\ Layout(u5) = LayoutStep(Layout(u4), EndMarker)
  BY <1>0, <1>1, <1>4, <1>5, LayoutFold
<1>7. /\ Layout(config).ok /\ Layout(config).mark = 0 /\ Layout(config).depth \in Nat
      /\ Layout(config).depth > 0 => Layout(config).now = Layout(config).base
  BY <1>6 DEF FileInv, Layouts
<1>8. /\ MarkFits(0, BeginMarker) /\ MarkAfter(0, BeginMarker) = 1
      /\ MarkFits(1, IfCapture) /\ MarkAfter(1, IfCapture) = 2
      /\ MarkFits(2, p) /\ MarkAfter(2, p) = 3
      /\ MarkFits(3, EndIf) /\ MarkAfter(3, EndIf) = 4
      /\ MarkFits(4, EndMarker) /\ MarkAfter(4, EndMarker) = 0
  <2>1. MarkFits(0, BeginMarker) /\ MarkAfter(0, BeginMarker) = 1
    BY RowsDiffer DEF MarkFits, MarkAfter
  <2>2. MarkFits(1, IfCapture) /\ MarkAfter(1, IfCapture) = 2
    BY DEF MarkFits, MarkAfter
  <2>3. MarkFits(2, p) /\ MarkAfter(2, p) = 3
    BY <1>2 DEF MarkFits, MarkAfter, IsPlugin
  <2>4. MarkFits(3, EndIf) /\ MarkAfter(3, EndIf) = 4
    BY DEF MarkFits, MarkAfter
  <2>5. MarkFits(4, EndMarker) /\ MarkAfter(4, EndMarker) = 0
    BY DEF MarkFits, MarkAfter
  <2>. QED
    BY <2>1, <2>2, <2>3, <2>4, <2>5
<1>9. /\ Layout(u1).ok /\ Layout(u1).mark = 1 /\ Layout(u1).depth = Layout(config).depth
      /\ Layout(u1).now = Layout(config).now /\ Layout(u1).base = Layout(config).base
  BY <1>4, <1>6, <1>7, <1>8, LayoutFields
<1>10. /\ Layout(u2).ok /\ Layout(u2).mark = 2 /\ Layout(u2).depth = Layout(config).depth + 1
       /\ Layout(u2).now = Layout(config).now
       /\ Layout(u2).now = Layout(u2).base
  <2>1. Layout(u1).depth = 0 \/ Layout(u1).now = Layout(u1).base
    BY <1>7, <1>9
  <2>2. Layout(u2).ok
    BY <1>4, <1>6, <1>8, <1>9, <2>1, LayoutFields, RowsDiffer
  <2>3. /\ Layout(u2).mark = 2 /\ Layout(u2).depth = Layout(config).depth + 1
        /\ Layout(u2).now = Layout(config).now
        /\ Layout(u2).base = IF Layout(u1).depth = 0 THEN Layout(u1).now ELSE Layout(u1).base
    BY <1>4, <1>6, <1>8, <1>9, LayoutFields
  <2>. QED
    BY <1>9, <2>1, <2>2, <2>3
<1>11. /\ Layout(u3).ok /\ Layout(u3).mark = 3 /\ Layout(u3).depth = Layout(config).depth + 1
       /\ Layout(u3).now = Layout(config).now /\ Layout(u3).now = Layout(u3).base
  BY <1>4, <1>6, <1>8, <1>10, LayoutFields
<1>12. /\ Layout(u4).ok /\ Layout(u4).mark = 4 /\ Layout(u4).now = Layout(u4).base
  <2>1. Layout(u3).depth > 0
    BY <1>7, <1>11
  <2>2. Layout(u4).ok
    BY <1>4, <1>6, <1>8, <1>11, <2>1, LayoutFields, RowsDiffer
  <2>3. /\ Layout(u4).mark = 4 /\ Layout(u4).now = Layout(u3).now
        /\ Layout(u4).base = Layout(u3).base
    BY <1>4, <1>6, <1>8, <1>11, LayoutFields, RowsDiffer
  <2>. QED
    BY <1>11, <2>2, <2>3
<1>13. /\ Layout(u5).ok /\ Layout(u5).mark = 0 /\ Layout(u5).now = Layout(u5).base
  <2>1. EndMarker \notin Stages
    BY RowsAre, RowKinds
  <2>. QED
    BY <1>4, <1>6, <1>8, <1>12, <2>1, LayoutFields
<1>. QED
  BY <1>1, <1>3, <1>5, <1>13 DEF FileInv, TypeOK

\* Installation and removal write a file laid out as well as the one they read.
LEMMA SetupKeeps ==
  ASSUME FileInv, Depth(config) = 0, InstallConfiguration \/ RemoveConfiguration
  PROVE  FileInv'
<1> DEFINE stage == "capture"
<1>1. stage \in ApoStages /\ TRUE \in BOOLEAN
  BY DEF ApoStages
<1>2. /\ config \in Seq(Rows) /\ Layout(config).ok /\ Layout(config).mark = 0
      /\ Layout(config).depth = 0
  BY DepthIs DEF FileInv, TypeOK
<1>3. ASSUME config' \in Seq(Rows), Alike(config, config', stage, TRUE),
             event' = "remove" \/ (event' = "install" /\ HasCaptureScoped(config'))
      PROVE  FileInv'
  <2>1. /\ Layout(config').ok /\ Layout(config').plain
        /\ Layout(config').depth = Layout(config).depth
    BY <1>3 DEF Alike
  <2>2. Layout(config').mark = 0
    BY <1>3, <2>1, PlainMark
  <2>. QED
    BY <1>2, <1>3, <2>1, <2>2 DEF FileInv, TypeOK
<1> HIDE DEF stage
<1>4. CASE InstallConfiguration
  <2>1. config' = InstallScope(config) /\ event' = "install"
    BY <1>4 DEF InstallConfiguration
  <2>2. /\ InstallScope(config) \in Seq(Rows)
        /\ Alike(config, InstallScope(config), stage, TRUE)
        /\ HasCaptureScoped(InstallScope(config))
    BY <1>1, <1>2, InstallIs
  <2>. QED
    BY <1>3, <2>1, <2>2
<1>5. CASE RemoveConfiguration
  <2>1. config' = RemoveScope(config) /\ event' = "remove"
    BY <1>5 DEF RemoveConfiguration
  <2>2. /\ RemoveScope(config) \in Seq(Rows)
        /\ Alike(config, RemoveScope(config), stage, TRUE)
    BY <1>1, <1>2, RemoveIs
  <2>. QED
    BY <1>3, <2>1, <2>2
<1>. QED
  BY <1>4, <1>5

\* FileInv holds at first and is kept by every step.
LEMMA FileInductive ==
  ASSUME OrdinaryUse
  PROVE  /\ Init => FileInv
         /\ FileInv /\ [Next]_vars => FileInv'
<1>1. ASSUME Init PROVE FileInv
  <2>1. config = <<>> /\ event = "user" /\ <<>> \in Seq(Rows)
    BY <1>1, EmptySeq DEF Init
  <2>2. Layout(<<>>) = LayoutStart
    BY LayoutFold
  <2>. QED
    BY <2>1, <2>2 DEF FileInv, TypeOK, LayoutStart
<1>2. ASSUME FileInv, [Next]_vars PROVE FileInv'
  <2>1. CASE UserWrites
    BY <1>2, <2>1, UserWritesKeeps
  <2>2. CASE OldSetupWrites
    BY <1>2, <2>2, OldSetupWritesKeeps
  <2>3. CASE Depth(config) = 0 /\ (InstallConfiguration \/ RemoveConfiguration)
    BY <1>2, <2>3, SetupKeeps
  <2>4. CASE UNCHANGED vars
    BY <1>2, <2>4 DEF vars, FileInv, TypeOK
  <2>. QED
    BY <1>2, <2>1, <2>2, <2>3, <2>4 DEF Next
<1>. QED
  BY <1>1, <1>2

\* Whatever the user, the old Setup, installations and removals write in turn, of
\* any length and nesting: config.txt stays laid out well, and an installed file
\* is accepted by has_capture_scoped_echonull.
THEOREM FileLaidOut ==
  ASSUME OrdinaryUse
  PROVE  Spec => []FileInv
<1>1. Init => FileInv
  BY FileInductive
<1>2. FileInv /\ [Next]_vars => FileInv'
  BY FileInductive
<1>. QED
  BY <1>1, <1>2, PTL DEF Spec

\* Every row of config.txt stays one that install_echonull_capture_scope knows.
THEOREM ApoTypeCorrect ==
  ASSUME OrdinaryUse
  PROVE  Spec => []TypeOK
<1>1. FileInv => TypeOK
  BY DEF FileInv
<1>. QED
  BY <1>1, FileLaidOut, PTL

\* After install_echonull_capture_scope no EchoNull row of the file, however long,
\* runs on the speaker output, whatever the conditions of the user evaluate to.
THEOREM CaptureOnly ==
  ASSUME OrdinaryUse
  PROVE  Spec => []EffectOnlyInCapture
<1>1. ASSUME FileInv PROVE EffectOnlyInCapture
  <2>1. SUFFICES ASSUME event = "install", NEW condition \in BOOLEAN,
                        NEW i \in 1..Len(Runs(config, "post-mix", condition))
                 PROVE  ~IsPlugin(Runs(config, "post-mix", condition)[i])
    BY DEF EffectOnlyInCapture
  <2>2. config \in Seq(Rows) /\ Layout(config).ok /\ CaptureScope(config).ok
    BY <1>1, <2>1 DEF FileInv, TypeOK, HasCaptureScoped
  <2>3. "post-mix" \in ApoStages
    BY DEF ApoStages
  <2> DEFINE stage == "post-mix"
  <2>4. Sound(Layout(config), CaptureScope(config), Run(config, stage, condition), stage)
    BY <2>2, <2>3, WellLaidOut
  <2>. QED
    BY <2>1, <2>2, <2>4 DEF Sound, Runs, IsPlugin
<1>. QED
  BY <1>1, FileLaidOut, PTL

\* A write of Setup leaves what runs as it was: install and remove are alike to
\* the file before.
LEMMA SetupAlike ==
  ASSUME FileInv, event' \in {"install", "remove"}, [Next]_vars, config' # config \/ event' # event,
         NEW stage \in ApoStages, NEW condition \in BOOLEAN
  PROVE  Alike(config, config', stage, condition)
<1>1. config \in Seq(Rows) /\ Layout(config).ok /\ Layout(config).mark = 0
  BY DEF FileInv, TypeOK
<1>2. InstallConfiguration \/ RemoveConfiguration
  BY DEF Next, vars, UserWrites, OldSetupWrites
<1>3. InstallConfiguration => config' = InstallScope(config)
  BY DEF InstallConfiguration
<1>4. RemoveConfiguration => config' = RemoveScope(config)
  BY DEF RemoveConfiguration
<1>5. Alike(config, InstallScope(config), stage, condition)
  BY <1>1, InstallIs
<1>6. Alike(config, RemoveScope(config), stage, condition)
  BY <1>1, RemoveIs
<1>. QED
  BY <1>2, <1>3, <1>4, <1>5, <1>6

\* "Other filters keep their former stage": every installation, update and removal
\* leaves the filters that run, and their order, as they were, in both stages and
\* for both values of the conditions of the user.
THEOREM FiltersStay ==
  ASSUME OrdinaryUse
  PROVE  Spec => FiltersAreKept
<1> DEFINE Keeps == event' \in {"install", "remove"} =>
          \A stage \in {"capture", "post-mix"}, condition \in BOOLEAN :
              FiltersRun(config', stage, condition)
                  = FiltersRun(config, stage, condition)
<1>1. ASSUME FileInv, [Next]_vars PROVE [Keeps]_vars
  <2>1. SUFFICES ASSUME event' \in {"install", "remove"},
                        config' # config \/ event' # event,
                        NEW stage \in {"capture", "post-mix"}, NEW condition \in BOOLEAN
                 PROVE  FiltersRun(config', stage, condition)
                          = FiltersRun(config, stage, condition)
    BY DEF vars
  <2>2. stage \in ApoStages
    BY DEF ApoStages
  <2>3. Alike(config, config', stage, condition)
    BY <1>1, <2>1, <2>2, SetupAlike
  <2>. QED
    BY <2>3 DEF Alike
<1> HIDE DEF Keeps
<1>2. Spec => [][Keeps]_vars
  BY <1>1, FileLaidOut, PTL DEF Spec
<1>. QED
  BY <1>2 DEF Keeps, FiltersAreKept

\* "Updates must leave them exactly as they are": an installation keeps every
\* EchoNull row in its order, adds the default one only where there was none, and
\* installing again on the result changes nothing.
THEOREM UpdateIsSafe ==
  ASSUME OrdinaryUse
  PROVE  Spec => UpdateKeepsRows
<1> DEFINE Keeps == event' = "install" =>
          LET before == Only(config, Plugins)
          IN  /\ Only(config', Plugins)
                   = IF before = <<>> THEN <<Plugin(0)>> ELSE before
              /\ InstallScope(config') = config'
<1>1. ASSUME FileInv, FileInv', [Next]_vars PROVE [Keeps]_vars
  <2>1. SUFFICES ASSUME event' = "install", config' # config \/ event' # event
                 PROVE  /\ Only(config', Plugins)
                             = IF Only(config, Plugins) = <<>> THEN <<Plugin(0)>>
                               ELSE Only(config, Plugins)
                        /\ InstallScope(config') = config'
    BY DEF vars
  <2>2. config \in Seq(Rows) /\ Layout(config).ok /\ Layout(config).mark = 0
    BY <1>1 DEF FileInv, TypeOK
  <2>3. config' = InstallScope(config)
    BY <1>1, <2>1 DEF Next, vars, UserWrites, OldSetupWrites, InstallConfiguration,
                      RemoveConfiguration
  <2>4. "capture" \in ApoStages /\ TRUE \in BOOLEAN
    BY DEF ApoStages
  <2>5. Updated(config, InstallScope(config))
    BY <2>2, <2>4, InstallIs
  <2>6. InstallScope(config') = config'
    <3>1. config' \in Seq(Rows) /\ Layout(config').ok /\ Layout(config').plain
          /\ HasCaptureScoped(config')
      BY <1>1, <2>1 DEF FileInv, TypeOK
    <3>. QED
      BY <3>1, InstallAgain
  <2>. QED
    BY <2>3, <2>5, <2>6 DEF Updated, PluginRows
<1> HIDE DEF Keeps
<1>2. Spec => [][Keeps]_vars
  BY <1>1, FileLaidOut, PTL DEF Spec
<1>. QED
  BY <1>2 DEF Keeps, UpdateKeepsRows

=============================================================================
