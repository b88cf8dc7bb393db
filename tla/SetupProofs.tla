---------------------------- MODULE SetupProofs ----------------------------
(***************************************************************************)
(* Proofs about what Setup does to the machine: CaptureHook, for every set  *)
(* of microphones and every number of runs, failing writes and kills, and   *)
(* ServiceGuard, for every graph of services and every interleaving with    *)
(* the service control manager.                                             *)
(*                                                                          *)
(* CaptureHook.  The writes of one endpoint are a plan: the write that is   *)
(* due when k of them remain.  The inductive invariant says what the plan   *)
(* is, and what the registration looks like with k writes to do, in terms   *)
(* of the registration the run found; at rest only a summary of that is     *)
(* left, which says what a later run may rely on.                           *)
(***************************************************************************)
EXTENDS CaptureHook, ServiceGuard, SequenceTheorems, TLAPS

\* The writes of a plan when the first k are still to do, in their order.
Countdown(plan, k) == [i \in 1..k |-> plan[k + 1 - i]]

\* 1 if the legacy effect is Equalizer APO's and has to be replaced as well.
Legacy(b) == IF b.lfx = "pre" THEN 1 ELSE 0
InstallPlan(b) ==
    [j \in 1..(10 + Legacy(b)) |->
       CASE j = 1 -> WriteOf("active", "Active", TRUE)
         [] j = 2 -> WriteOf("registration", "efx", "pre")
         [] j = 3 -> WriteOf("registration", "modes", "raw")
         [] j = 4 -> WriteOf("registration", "child", "empty")
         [] j = 5 /\ b.lfx = "pre" ->
              WriteOf("registration", "lfx", NoMarker(b.metaLfx))
         [] j = 5 + Legacy(b) -> WriteOf("registration", "sfx", OriginalSfx(b))
         [] j = 6 + Legacy(b) -> WriteOf("saved", "child", b.child)
         [] j = 7 + Legacy(b) -> WriteOf("saved", "modes", b.modes)
         [] j = 8 + Legacy(b) -> WriteOf("saved", "efx", b.efx)
         [] j = 9 + Legacy(b) -> WriteOf("saved", "sfx", b.sfx)
         [] j = 10 + Legacy(b) -> WriteOf("saved", "lfx", b.lfx)]
RollbackPlan(b) ==
    [j \in 1..5 |->
       CASE j = 1 -> WriteOf("registration", "child", b.child)
         [] j = 2 -> WriteOf("registration", "modes", b.modes)
         [] j = 3 -> WriteOf("registration", "efx", b.efx)
         [] j = 4 -> WriteOf("registration", "sfx", b.sfx)
         [] j = 5 -> WriteOf("registration", "lfx", b.lfx)]
RestorePlan(s) ==
    [j \in 1..6 |->
       CASE j = 1 -> WriteOf("active", "Active", FALSE)
         [] j = 2 -> WriteOf("registration", "child", s.child)
         [] j = 3 -> WriteOf("registration", "sfx", s.sfx)
         [] j = 4 -> WriteOf("registration", "lfx", s.lfx)
         [] j = 5 -> WriteOf("registration", "modes", s.modes)
         [] j = 6 -> WriteOf("registration", "efx", s.efx)]

\* What no write of Setup touches.
SameNotes(r, b) ==
    /\ r.metadata = b.metadata /\ r.multi = b.multi
    /\ r.metaLfx = b.metaLfx /\ r.metaSfx = b.metaSfx

\* r is what an installation that found b has made of it, with k writes to do,
Converted(r, b, k) ==
    /\ SameNotes(r, b)
    /\ IF b.lfx = "pre" /\ k <= 4 THEN r.lfx = NoMarker(b.metaLfx)
                                  ELSE r.lfx = b.lfx
    /\ IF k <= 4 \/ (b.lfx = "pre" /\ k = 5) THEN r.sfx = OriginalSfx(b)
                                            ELSE r.sfx = b.sfx
    /\ IF k <= 1 THEN r.efx = "pre" ELSE r.efx = b.efx
    /\ IF k <= 2 THEN r.modes = "raw" ELSE r.modes = b.modes
    /\ IF k <= 3 THEN r.child = "empty" ELSE r.child = b.child

\* what a removal that found b and the values s saved has made of it,
Restored(r, b, s, k) ==
    /\ SameNotes(r, b)
    /\ IF k <= 3 THEN r.lfx = s.lfx ELSE r.lfx = b.lfx
    /\ IF k <= 2 THEN r.sfx = s.sfx ELSE r.sfx = b.sfx
    /\ IF k <= 5 THEN r.efx = s.efx ELSE r.efx = b.efx
    /\ IF k <= 4 THEN r.modes = s.modes ELSE r.modes = b.modes
    /\ IF k <= 1 THEN r.child = s.child ELSE r.child = b.child

\* and what the catch block of an installation that found b has.
RolledBack(r, b, k) ==
    /\ SameNotes(r, b)
    /\ k <= 4 => r.lfx = b.lfx
    /\ k <= 3 => r.sfx = b.sfx
    /\ r.efx \in {b.efx, "pre"} /\ (k <= 2 => r.efx = b.efx)
    /\ k <= 1 => r.modes = b.modes
    /\ k <= 0 => r.child = b.child

\* The values of b that s keeps when k writes of the installation are to do.
Keeps(s, b, k) ==
    /\ k <= 9 + Legacy(b) => s.lfx = b.lfx
    /\ k <= 8 + Legacy(b) => s.sfx = b.sfx
    /\ k <= 7 + Legacy(b) => s.efx = b.efx
    /\ k <= 6 + Legacy(b) => s.modes = b.modes
    /\ k <= 5 + Legacy(b) => s.child = b.child

\* The writes under way: an installation, its catch block, or a removal.
Installing ==
    LET b == before[current]  k == Len(todo) IN
    /\ k \in 1..(10 + Legacy(b)) /\ todo = Countdown(InstallPlan(b), k)
    /\ undo = RollbackWrites(b)
    /\ Installable(b) /\ ~active[current]
    /\ Converted(registration[current], b, k)
    /\ Keeps(saved[current], b, k)
RollingBack ==
    LET b == before[current]  k == Len(todo) IN
    /\ k \in 1..5 /\ todo = Countdown(RollbackPlan(b), k)
    /\ undo = <<>>
    /\ Installable(b) /\ ~active[current]
    /\ RolledBack(registration[current], b, k)
Removing ==
    LET b == before[current]  k == Len(todo) IN
    /\ k \in 1..6 /\ todo = Countdown(RestorePlan(saved[current]), k)
    /\ undo = <<>>
    /\ b.efx = "pre" /\ active[current]
    /\ Restored(registration[current], b, saved[current], k)
Writing ==
    current # "none" =>
      /\ call = "install" /\ ~throwing => Installing
      /\ throwing => RollingBack
      /\ call = "remove" => Removing

\* Equalizer APO at the endpoint effect is in no other stage, but for a local
\* effect recorded as its own original, and chains nothing.
Sound(r) ==
    r.efx = "pre" =>
      /\ r.sfx # "pre" /\ r.child = "empty"
      /\ r.lfx = "pre" => Recursive(r)

\* The values v put Equalizer APO into the local effect, or the driver's effect
\* into its chain, only where the Device Selector has.
Inherits(v, o) ==
    /\ v.lfx = "pre" => o.lfx = "pre"
    /\ v.child = "vendor" => o.child = "vendor"

\* A hook that is in place can be taken back with the values saved in s.
Reversible(s, o) == IsEmpty(s.efx) /\ Inherits(s, o)

\* The registration of an endpoint, as the run found it if it is at work on it.
Found(e) == IF e = current THEN before[e] ELSE registration[e]

Rest ==
    \A e \in Endpoints \ halfway :
        /\ Sound(Found(e)) /\ Inherits(Found(e), original[e])
        /\ active[e] /\ Found(e).efx = "pre" => Reversible(saved[e], original[e])

\* What an installation does to an endpoint it has done with.
Outcome(e) ==
    \/ registration[e] = before[e]
    \/ /\ active[e] /\ registration[e].efx = "pre"
       /\ UsesApo(registration[e]) => Recursive(before[e])
       /\ Keeps(saved[e], before[e], 0)
Outcomes ==
    call = "install" \/ (Idle /\ result.run = "install" /\ result.end # "killed")
      => \A e \in Endpoints \ halfway : e # current => Outcome(e)

\* The loop: what is left is as the run found it, and removal leaves no hook
\* behind that it has visited.
Loop ==
    /\ current \notin left
    /\ \A e \in left : registration[e] = before[e]
    /\ call = "remove" => \A e \in Endpoints \ left : e # current => ~active[e]
    /\ Idle /\ result = [run |-> "remove", end |-> "done"]
         => \A e \in Endpoints : ~active[e]

\* What was there before EchoNull is there, or saved.
Promise ==
    faults = 0 =>
      \A e \in Endpoints :
        /\ ~active[e] => Found(e) = original[e]
        /\ active[e] /\ Found(e).efx = "pre"
             => Restored(original[e], Found(e), saved[e], 0)
        /\ active[e] /\ Found(e).efx # "pre" => Found(e) = original[e]

HookInv ==
    HookTypeOK /\ Writing /\ Rest /\ Outcomes /\ Loop /\ Promise

-----------------------------------------------------------------------------
(* Plans.                                                                   *)

\* The first write of a countdown is the one that is due, and the rest is the
\* countdown from one less.
LEMMA CountdownStep ==
  ASSUME NEW plan, NEW k \in Nat
  PROVE  LET todoLeft == Countdown(plan, k) IN
         /\ Len(todoLeft) = k
         /\ k = 0 <=> todoLeft = <<>>
         /\ k > 0 => /\ Head(todoLeft) = plan[k]
                     /\ Tail(todoLeft) = Countdown(plan, k - 1)
<1> DEFINE t == Countdown(plan, k)
           S == {plan[j] : j \in 1..k}
<1>1. t \in Seq(S) /\ Len(t) = k
  <2>1. \A i \in 1..k : plan[k + 1 - i] \in S
    OBVIOUS
  <2>2. t \in [1..k -> S]
    BY <2>1 DEF Countdown
  <2> QED
    BY <2>2, IsASeq, LenProperties DEF Countdown
<1>2. ASSUME k > 0 PROVE Head(t) = plan[k] /\ Tail(t) = Countdown(plan, k - 1)
  <2>1. t # <<>>
    BY <1>1, <1>2
  <2>2. Head(t) = t[1]
    BY <1>1, <2>1, HeadTailProperties
  <2>3. Head(t) = plan[k]
    BY <2>2, <1>2 DEF Countdown
  <2>4. /\ Tail(t) \in Seq(S) /\ Len(Tail(t)) = k - 1
        /\ \A i \in 1..(k - 1) : Tail(t)[i] = t[i + 1]
    BY <1>1, <2>1, HeadTailProperties
  <2>5. Tail(t) = [i \in 1..(k - 1) |-> Tail(t)[i]]
    BY <2>4, LenProperties
  <2>6. \A i \in 1..(k - 1) : Tail(t)[i] = plan[(k - 1) + 1 - i]
    BY <2>4 DEF Countdown
  <2> QED
    BY <2>3, <2>5, <2>6 DEF Countdown
<1> QED
  BY <1>1, <1>2

\* How two sequences are joined, index by index.
LEMMA Joined ==
  ASSUME NEW S, NEW s \in Seq(S), NEW t \in Seq(S),
         NEW m \in Nat, NEW n \in Nat, Len(s) = m, Len(t) = n
  PROVE  s \o t = [i \in 1..(m + n) |-> IF i <= m THEN s[i] ELSE t[i - m]]
<1>1. s \o t \in Seq(S) /\ Len(s \o t) = m + n
  BY ConcatProperties
<1>2. \A i \in 1..(m + n) : (s \o t)[i] = IF i <= m THEN s[i] ELSE t[i - m]
  BY ConcatProperties
<1>3. s \o t = [i \in 1..Len(s \o t) |-> (s \o t)[i]]
  BY <1>1, LenProperties
<1> QED
  BY <1>1, <1>2, <1>3

LEMMA Appended ==
  ASSUME NEW s, s = [i \in 1..5 |-> s[i]], NEW x
  PROVE  Append(s, x) = [i \in 1..6 |-> IF i = 6 THEN x ELSE s[i]]
<1> DEFINE S == {s[i] : i \in 1..5} \cup {x}
           t == Append(s, x)
<1>1. s \in Seq(S) /\ x \in S /\ Len(s) = 5
  BY IsASeq, LenProperties
<1> HIDE DEF S
<1>2. t \in Seq(S) /\ Len(t) = Len(s) + 1
  BY <1>1, AppendProperties
<1>3. \A i \in 1..Len(s) : t[i] = s[i]
  BY <1>1, AppendProperties
<1>4. t[Len(s) + 1] = x
  BY <1>1, AppendProperties
<1> HIDE DEF t
<1>5. t = [i \in 1..Len(t) |-> t[i]]
  BY <1>2, LenProperties
<1> QED
  BY <1>1, <1>2, <1>3, <1>4, <1>5 DEF t

\* The writes that follow the saves, with and without the legacy effect.
LEMMA JoinedSix ==
  ASSUME NEW a, NEW b, NEW c, NEW d, NEW e, NEW f
  PROVE  <<a>> \o <<b>> \o <<c, d, e, f>> = <<a, b, c, d, e, f>>
<1> DEFINE S == {a, b, c, d, e, f}
<1>1. /\ <<a>> \in Seq(S) /\ <<b>> \in Seq(S) /\ <<c, d, e, f>> \in Seq(S)
      /\ <<a, b>> \in Seq(S)
      /\ Len(<<a>>) = 1 /\ Len(<<b>>) = 1 /\ Len(<<a, b>>) = 2
      /\ Len(<<c, d, e, f>>) = 4
  OBVIOUS
<1>2. <<a>> \o <<b>>
        = [i \in 1..(1 + 1) |-> IF i <= 1 THEN <<a>>[i] ELSE <<b>>[i - 1]]
  BY ONLY <1>1, Joined
<1>3. [i \in 1..(1 + 1) |-> IF i <= 1 THEN <<a>>[i] ELSE <<b>>[i - 1]] = <<a, b>>
  OBVIOUS
<1>4. <<a, b>> \o <<c, d, e, f>>
        = [i \in 1..(2 + 4) |->
              IF i <= 2 THEN <<a, b>>[i] ELSE <<c, d, e, f>>[i - 2]]
  BY ONLY <1>1, Joined
<1>5. [i \in 1..(2 + 4) |->
          IF i <= 2 THEN <<a, b>>[i] ELSE <<c, d, e, f>>[i - 2]]
        = <<a, b, c, d, e, f>>
  OBVIOUS
<1> QED
  BY ONLY <1>2, <1>3, <1>4, <1>5

LEMMA JoinedFive ==
  ASSUME NEW a, NEW c, NEW d, NEW e, NEW f
  PROVE  <<a>> \o <<>> \o <<c, d, e, f>> = <<a, c, d, e, f>>
<1> DEFINE S == {a, c, d, e, f}
<1>1. /\ <<a>> \in Seq(S) /\ <<c, d, e, f>> \in Seq(S)
      /\ Len(<<a>>) = 1 /\ Len(<<c, d, e, f>>) = 4
  OBVIOUS
<1>2. <<a>> \o <<>> = <<a>>
  BY <1>1, ConcatEmptySeq
<1>3. <<a>> \o <<c, d, e, f>>
        = [i \in 1..(1 + 4) |->
              IF i <= 1 THEN <<a>>[i] ELSE <<c, d, e, f>>[i - 1]]
  BY ONLY <1>1, Joined
<1>4. [i \in 1..(1 + 4) |-> IF i <= 1 THEN <<a>>[i] ELSE <<c, d, e, f>>[i - 1]]
        = <<a, c, d, e, f>>
  OBVIOUS
<1> QED
  BY ONLY <1>2, <1>3, <1>4

\* The saves and those writes.
LEMMA JoinedTen ==
  ASSUME NEW a, NEW b, NEW c, NEW d, NEW e, NEW f, NEW g, NEW h, NEW m, NEW j
  PROVE  <<a, b, c, d, e>> \o <<f, g, h, m, j>>
           = <<a, b, c, d, e, f, g, h, m, j>>
<1> DEFINE S == {a, b, c, d, e, f, g, h, m, j}
<1>1. /\ <<a, b, c, d, e>> \in Seq(S) /\ <<f, g, h, m, j>> \in Seq(S)
      /\ Len(<<a, b, c, d, e>>) = 5 /\ Len(<<f, g, h, m, j>>) = 5
  OBVIOUS
<1>2. <<a, b, c, d, e>> \o <<f, g, h, m, j>>
        = [i \in 1..(5 + 5) |->
              IF i <= 5 THEN <<a, b, c, d, e>>[i] ELSE <<f, g, h, m, j>>[i - 5]]
  BY ONLY <1>1, Joined
<1>3. [i \in 1..(5 + 5) |->
          IF i <= 5 THEN <<a, b, c, d, e>>[i] ELSE <<f, g, h, m, j>>[i - 5]]
        = <<a, b, c, d, e, f, g, h, m, j>>
  OBVIOUS
<1> QED
  BY ONLY <1>2, <1>3

LEMMA JoinedEleven ==
  ASSUME NEW a, NEW b, NEW c, NEW d, NEW e, NEW f, NEW g, NEW h, NEW m, NEW n, NEW q
  PROVE  <<a, b, c, d, e>> \o <<f, g, h, m, n, q>>
           = <<a, b, c, d, e, f, g, h, m, n, q>>
<1> DEFINE S == {a, b, c, d, e, f, g, h, m, n, q}
<1>1. /\ <<a, b, c, d, e>> \in Seq(S) /\ <<f, g, h, m, n, q>> \in Seq(S)
      /\ Len(<<a, b, c, d, e>>) = 5 /\ Len(<<f, g, h, m, n, q>>) = 6
  OBVIOUS
<1>2. <<a, b, c, d, e>> \o <<f, g, h, m, n, q>>
        = [i \in 1..(5 + 6) |->
              IF i <= 5 THEN <<a, b, c, d, e>>[i] ELSE <<f, g, h, m, n, q>>[i - 5]]
  BY ONLY <1>1, Joined
<1>3. [i \in 1..(5 + 6) |->
          IF i <= 5 THEN <<a, b, c, d, e>>[i] ELSE <<f, g, h, m, n, q>>[i - 5]]
        = <<a, b, c, d, e, f, g, h, m, n, q>>
  OBVIOUS
<1> QED
  BY ONLY <1>2, <1>3

\* The writes of an installation are the countdown of its plan.
LEMMA InstallIsPlanned ==
  ASSUME NEW b \in RegistrationType
  PROVE  Saves(b) \o InstallWrites(b)
           = Countdown(InstallPlan(b), 10 + Legacy(b))
<1> DEFINE s1 == WriteOf("saved", "lfx", b.lfx)
           s2 == WriteOf("saved", "sfx", b.sfx)
           s3 == WriteOf("saved", "efx", b.efx)
           s4 == WriteOf("saved", "modes", b.modes)
           s5 == WriteOf("saved", "child", b.child)
           first == WriteOf("registration", "sfx", OriginalSfx(b))
           legacy == WriteOf("registration", "lfx", NoMarker(b.metaLfx))
           child == WriteOf("registration", "child", "empty")
           modes == WriteOf("registration", "modes", "raw")
           efx == WriteOf("registration", "efx", "pre")
           mark == WriteOf("active", "Active", TRUE)
           plan == InstallPlan(b)
<1>1. Saves(b) = <<s1, s2, s3, s4, s5>>
  <2>1. Len(Changed) = 5
    BY DEF Changed
  <2> QED
    BY <2>1 DEF Saves, Changed
<1>2. InstallWrites(b)
        = <<first>> \o (IF b.lfx = "pre" THEN <<legacy>> ELSE <<>>)
                   \o <<child, modes, efx, mark>>
  BY DEF InstallWrites
<1>3. CASE b.lfx = "pre"
  <2>1. /\ plan[11] = s1 /\ plan[10] = s2 /\ plan[9] = s3 /\ plan[8] = s4
        /\ plan[7] = s5 /\ plan[6] = first /\ plan[5] = legacy
        /\ plan[4] = child /\ plan[3] = modes /\ plan[2] = efx /\ plan[1] = mark
    BY <1>3 DEF InstallPlan, Legacy
  <2>2. Legacy(b) = 1
    BY <1>3 DEF Legacy
  <2> HIDE DEF s1, s2, s3, s4, s5, first, legacy, child, modes, efx, mark, plan
  <2>3. Countdown(plan, 11)
          = <<s1, s2, s3, s4, s5, first, legacy, child, modes, efx, mark>>
    BY ONLY <2>1 DEF Countdown
  <2>4. InstallWrites(b) = <<first, legacy, child, modes, efx, mark>>
    <3>1. InstallWrites(b) = <<first>> \o <<legacy>> \o <<child, modes, efx, mark>>
      BY ONLY <1>2, <1>3
    <3>2. <<first>> \o <<legacy>> \o <<child, modes, efx, mark>>
            = <<first, legacy, child, modes, efx, mark>>
      BY ONLY JoinedSix
    <3> QED
      BY ONLY <3>1, <3>2
  <2>5. <<s1, s2, s3, s4, s5>> \o <<first, legacy, child, modes, efx, mark>>
          = <<s1, s2, s3, s4, s5, first, legacy, child, modes, efx, mark>>
    BY ONLY JoinedEleven
  <2> QED
    BY ONLY <1>1, <2>2, <2>3, <2>4, <2>5 DEF plan
<1>4. CASE b.lfx # "pre"
  <2>1. /\ plan[10] = s1 /\ plan[9] = s2 /\ plan[8] = s3 /\ plan[7] = s4
        /\ plan[6] = s5 /\ plan[5] = first
        /\ plan[4] = child /\ plan[3] = modes /\ plan[2] = efx /\ plan[1] = mark
    BY <1>4 DEF InstallPlan, Legacy
  <2>2. Legacy(b) = 0
    BY <1>4 DEF Legacy
  <2> HIDE DEF s1, s2, s3, s4, s5, first, legacy, child, modes, efx, mark, plan
  <2>3. Countdown(plan, 10) = <<s1, s2, s3, s4, s5, first, child, modes, efx, mark>>
    BY ONLY <2>1 DEF Countdown
  <2>4. InstallWrites(b) = <<first, child, modes, efx, mark>>
    BY ONLY <1>2, <1>4, JoinedFive
  <2>5. <<s1, s2, s3, s4, s5>> \o <<first, child, modes, efx, mark>>
          = <<s1, s2, s3, s4, s5, first, child, modes, efx, mark>>
    BY ONLY JoinedTen
  <2> QED
    BY ONLY <1>1, <2>2, <2>3, <2>4, <2>5 DEF plan
<1> QED
  BY <1>3, <1>4

\* So are those of the catch block,
LEMMA RollbackIsPlanned ==
  ASSUME NEW b \in RegistrationType
  PROVE  RollbackWrites(b) = Countdown(RollbackPlan(b), 5)
<1> DEFINE order == <<"lfx", "sfx", "efx", "modes", "child">>
<1>1. Len(order) = 5
  OBVIOUS
<1>2. RollbackWrites(b)
        = [i \in 1..5 |-> WriteOf("registration", order[i], b[order[i]])]
  BY <1>1 DEF RollbackWrites
<1> QED
  BY <1>2 DEF Countdown, RollbackPlan

\* and those of a removal.
LEMMA RestoreIsPlanned ==
  ASSUME NEW s \in SavedType
  PROVE  RestoreWrites(s) = Countdown(RestorePlan(s), 6)
<1> DEFINE order == <<"efx", "modes", "lfx", "sfx", "child">>
           five == [i \in 1..5 |-> WriteOf("registration", order[i], s[order[i]])]
           last == WriteOf("active", "Active", FALSE)
<1>1. Len(order) = 5
  OBVIOUS
<1>2. RestoreWrites(s) = Append(five, last)
  BY <1>1 DEF RestoreWrites
<1>3. five = [i \in 1..5 |-> five[i]]
  OBVIOUS
<1>4. Append(five, last) = [i \in 1..6 |-> IF i = 6 THEN last ELSE five[i]]
  <2> HIDE DEF five, last
  <2> QED
    BY ONLY <1>3, Appended
<1>5. [i \in 1..6 |-> IF i = 6 THEN last ELSE five[i]]
        = Countdown(RestorePlan(s), 6)
  BY DEF Countdown, RestorePlan
<1> QED
  BY <1>2, <1>4, <1>5

-----------------------------------------------------------------------------
(* What one write of a plan does to the registration and to what is saved.  *)

Values == {"lfx", "sfx", "efx", "modes", "child"}
ValueType(name) ==
    CASE name \in {"lfx", "sfx"} -> StageValues
      [] name = "efx" -> EndpointValues
      [] name = "modes" -> ModeValues
      [] name = "child" -> ChildValues

\* r with one of its values replaced.
Put(r, name, value) == [r EXCEPT ![name] = value]

\* What a write changes in a registration, and what it leaves.
LEMMA PutValue ==
  ASSUME NEW r \in RegistrationType, NEW name \in Values, NEW v \in ValueType(name)
  PROVE  /\ Put(r, name, v) \in RegistrationType
         /\ SameNotes(Put(r, name, v), r)
         /\ Put(r, name, v).lfx = IF name = "lfx" THEN v ELSE r.lfx
         /\ Put(r, name, v).sfx = IF name = "sfx" THEN v ELSE r.sfx
         /\ Put(r, name, v).efx = IF name = "efx" THEN v ELSE r.efx
         /\ Put(r, name, v).modes = IF name = "modes" THEN v ELSE r.modes
         /\ Put(r, name, v).child = IF name = "child" THEN v ELSE r.child
<1>1. CASE name = "lfx"
  BY <1>1 DEF Put, RegistrationType, SameNotes, ValueType
<1>2. CASE name = "sfx"
  BY <1>2 DEF Put, RegistrationType, SameNotes, ValueType
<1>3. CASE name = "efx"
  BY <1>3 DEF Put, RegistrationType, SameNotes, ValueType
<1>4. CASE name = "modes"
  BY <1>4 DEF Put, RegistrationType, SameNotes, ValueType
<1>5. CASE name = "child"
  BY <1>5 DEF Put, RegistrationType, SameNotes, ValueType
<1> QED
  BY <1>1, <1>2, <1>3, <1>4, <1>5 DEF Values

\* The same for what is saved.
LEMMA PutSaved ==
  ASSUME NEW s \in SavedType, NEW name \in Values, NEW v \in ValueType(name)
  PROVE  /\ Put(s, name, v) \in SavedType
         /\ Put(s, name, v).lfx = IF name = "lfx" THEN v ELSE s.lfx
         /\ Put(s, name, v).sfx = IF name = "sfx" THEN v ELSE s.sfx
         /\ Put(s, name, v).efx = IF name = "efx" THEN v ELSE s.efx
         /\ Put(s, name, v).modes = IF name = "modes" THEN v ELSE s.modes
         /\ Put(s, name, v).child = IF name = "child" THEN v ELSE s.child
<1>1. CASE name = "lfx"
  BY <1>1 DEF Put, SavedType, ValueType
<1>2. CASE name = "sfx"
  BY <1>2 DEF Put, SavedType, ValueType
<1>3. CASE name = "efx"
  BY <1>3 DEF Put, SavedType, ValueType
<1>4. CASE name = "modes"
  BY <1>4 DEF Put, SavedType, ValueType
<1>5. CASE name = "child"
  BY <1>5 DEF Put, SavedType, ValueType
<1> QED
  BY <1>1, <1>2, <1>3, <1>4, <1>5 DEF Values

\* Registrations with equal values are equal.
LEMMA SameRegistration ==
  ASSUME NEW r \in RegistrationType, NEW b \in RegistrationType, SameNotes(r, b),
         r.lfx = b.lfx, r.sfx = b.sfx, r.efx = b.efx, r.modes = b.modes,
         r.child = b.child
  PROVE  r = b
BY DEF SameNotes, RegistrationType

\* The types of the values of a registration, and of those the plans write.
LEMMA ValueTypes ==
  ASSUME NEW b \in RegistrationType
  PROVE  /\ b.lfx \in StageValues /\ b.sfx \in StageValues
         /\ b.efx \in EndpointValues /\ b.modes \in ModeValues
         /\ b.child \in ChildValues
         /\ Legacy(b) \in {0, 1}
         /\ NoMarker(b.metaLfx) \in StageValues
         /\ NoMarker(b.metaLfx) = "pre" <=> b.metaLfx = "pre"
         /\ OriginalSfx(b) \in StageValues
<1>1. /\ b.lfx \in StageValues /\ b.sfx \in StageValues
      /\ b.efx \in EndpointValues /\ b.modes \in ModeValues
      /\ b.child \in ChildValues
      /\ b.metaLfx \in Notes /\ b.metaSfx \in Notes
  BY DEF RegistrationType
<1> QED
  BY <1>1 DEF Legacy, NoMarker, OriginalSfx, IsEmpty, Notes, StageValues, ChildValues

\* The plan of an installation, by the number of writes to do.
LEMMA InstallPlanIs ==
  ASSUME NEW b \in RegistrationType
  PROVE  LET plan == InstallPlan(b)  l == Legacy(b) IN
         /\ plan[1] = WriteOf("active", "Active", TRUE)
         /\ plan[2] = WriteOf("registration", "efx", "pre")
         /\ plan[3] = WriteOf("registration", "modes", "raw")
         /\ plan[4] = WriteOf("registration", "child", "empty")
         /\ l = 1 => plan[5] = WriteOf("registration", "lfx", NoMarker(b.metaLfx))
         /\ plan[5 + l] = WriteOf("registration", "sfx", OriginalSfx(b))
         /\ plan[6 + l] = WriteOf("saved", "child", b.child)
         /\ plan[7 + l] = WriteOf("saved", "modes", b.modes)
         /\ plan[8 + l] = WriteOf("saved", "efx", b.efx)
         /\ plan[9 + l] = WriteOf("saved", "sfx", b.sfx)
         /\ plan[10 + l] = WriteOf("saved", "lfx", b.lfx)
<1>1. CASE b.lfx = "pre"
  <2>1. Legacy(b) = 1
    BY <1>1 DEF Legacy
  <2> QED
    BY <1>1, <2>1 DEF InstallPlan
<1>2. CASE b.lfx # "pre"
  <2>1. Legacy(b) = 0
    BY <1>2 DEF Legacy
  <2> QED
    BY <1>2, <2>1 DEF InstallPlan
<1> QED
  BY <1>1, <1>2

\* A save: one value more is kept.
LEMMA SaveWrite ==
  ASSUME NEW b \in RegistrationType, NEW s \in SavedType,
         NEW k \in (6 + Legacy(b))..(10 + Legacy(b)), Keeps(s, b, k)
  PROVE  LET w == InstallPlan(b)[k] IN
         /\ w.store = "saved"
         /\ Put(s, w.name, w.value) \in SavedType
         /\ Keeps(Put(s, w.name, w.value), b, k - 1)
<1> DEFINE l == Legacy(b)
<1>1. l \in {0, 1} /\ k \in {6 + l, 7 + l, 8 + l, 9 + l, 10 + l}
  BY ValueTypes
<1>2. CASE k = 6 + l
  <2>1. InstallPlan(b)[k] = WriteOf("saved", "child", b.child)
    BY <1>2, InstallPlanIs
  <2>2. "child" \in Values /\ b.child \in ValueType("child")
    BY ValueTypes DEF Values, ValueType
  <2> QED
    BY <1>1, <1>2, <2>1, <2>2, PutSaved DEF WriteOf, Keeps
<1>3. CASE k = 7 + l
  <2>1. InstallPlan(b)[k] = WriteOf("saved", "modes", b.modes)
    BY <1>3, InstallPlanIs
  <2>2. "modes" \in Values /\ b.modes \in ValueType("modes")
    BY ValueTypes DEF Values, ValueType
  <2> QED
    BY <1>1, <1>3, <2>1, <2>2, PutSaved DEF WriteOf, Keeps
<1>4. CASE k = 8 + l
  <2>1. InstallPlan(b)[k] = WriteOf("saved", "efx", b.efx)
    BY <1>4, InstallPlanIs
  <2>2. "efx" \in Values /\ b.efx \in ValueType("efx")
    BY ValueTypes DEF Values, ValueType
  <2> QED
    BY <1>1, <1>4, <2>1, <2>2, PutSaved DEF WriteOf, Keeps
<1>5. CASE k = 9 + l
  <2>1. InstallPlan(b)[k] = WriteOf("saved", "sfx", b.sfx)
    BY <1>5, InstallPlanIs
  <2>2. "sfx" \in Values /\ b.sfx \in ValueType("sfx")
    BY ValueTypes DEF Values, ValueType
  <2> QED
    BY <1>1, <1>5, <2>1, <2>2, PutSaved DEF WriteOf, Keeps
<1>6. CASE k = 10 + l
  <2>1. InstallPlan(b)[k] = WriteOf("saved", "lfx", b.lfx)
    BY <1>6, InstallPlanIs
  <2>2. "lfx" \in Values /\ b.lfx \in ValueType("lfx")
    BY ValueTypes DEF Values, ValueType
  <2> QED
    BY <1>1, <1>6, <2>1, <2>2, PutSaved DEF WriteOf, Keeps
<1> QED
  BY <1>1, <1>2, <1>3, <1>4, <1>5, <1>6

\* A change: what is kept stays, and the registration is one write further.
LEMMA ChangeWrite ==
  ASSUME NEW b \in RegistrationType, NEW r \in RegistrationType,
         NEW k \in 2..(5 + Legacy(b)), Converted(r, b, k)
  PROVE  LET w == InstallPlan(b)[k] IN
         /\ w.store = "registration"
         /\ Put(r, w.name, w.value) \in RegistrationType
         /\ Converted(Put(r, w.name, w.value), b, k - 1)
<1> DEFINE l == Legacy(b)
<1>1. l \in {0, 1} /\ (l = 1 <=> b.lfx = "pre")
  BY DEF Legacy
<1>2. CASE k = 2
  <2>1. InstallPlan(b)[k] = WriteOf("registration", "efx", "pre")
    BY <1>2, InstallPlanIs
  <2>2. "efx" \in Values /\ "pre" \in ValueType("efx")
    BY DEF Values, ValueType, EndpointValues
  <2> QED
    BY <1>1, <1>2, <2>1, <2>2, PutValue DEF WriteOf, Converted, SameNotes
<1>3. CASE k = 3
  <2>1. InstallPlan(b)[k] = WriteOf("registration", "modes", "raw")
    BY <1>3, InstallPlanIs
  <2>2. "modes" \in Values /\ "raw" \in ValueType("modes")
    BY DEF Values, ValueType, ModeValues
  <2> QED
    BY <1>1, <1>3, <2>1, <2>2, PutValue DEF WriteOf, Converted, SameNotes
<1>4. CASE k = 4
  <2>1. InstallPlan(b)[k] = WriteOf("registration", "child", "empty")
    BY <1>4, InstallPlanIs
  <2>2. "child" \in Values /\ "empty" \in ValueType("child")
    BY DEF Values, ValueType, ChildValues
  <2> QED
    BY <1>1, <1>4, <2>1, <2>2, PutValue DEF WriteOf, Converted, SameNotes
<1>5. CASE k = 5 /\ l = 1
  <2>1. InstallPlan(b)[k] = WriteOf("registration", "lfx", NoMarker(b.metaLfx))
    BY <1>5, InstallPlanIs
  <2>2. "lfx" \in Values /\ NoMarker(b.metaLfx) \in ValueType("lfx")
    BY ValueTypes DEF Values, ValueType, StageValues
  <2> QED
    BY <1>1, <1>5, <2>1, <2>2, PutValue DEF WriteOf, Converted, SameNotes
<1>6. CASE k = 5 + l
  <2>1. InstallPlan(b)[k] = WriteOf("registration", "sfx", OriginalSfx(b))
    BY <1>6, InstallPlanIs
  <2>2. "sfx" \in Values /\ OriginalSfx(b) \in ValueType("sfx")
    BY ValueTypes DEF Values, ValueType
  <2> QED
    BY <1>1, <1>6, <2>1, <2>2, PutValue DEF WriteOf, Converted, SameNotes
<1> QED
  BY <1>1, <1>2, <1>3, <1>4, <1>5, <1>6

\* A write of the catch block brings one value back.
LEMMA RollbackWrite ==
  ASSUME NEW b \in RegistrationType, NEW r \in RegistrationType,
         NEW k \in 1..5, RolledBack(r, b, k)
  PROVE  LET w == RollbackPlan(b)[k] IN
         /\ w.store = "registration"
         /\ Put(r, w.name, w.value) \in RegistrationType
         /\ RolledBack(Put(r, w.name, w.value), b, k - 1)
<1>1. CASE k = 1
  <2>1. RollbackPlan(b)[k] = WriteOf("registration", "child", b.child)
    BY <1>1 DEF RollbackPlan
  <2>2. "child" \in Values /\ b.child \in ValueType("child")
    BY ValueTypes DEF Values, ValueType
  <2> QED
    BY <1>1, <2>1, <2>2, PutValue DEF WriteOf, RolledBack, SameNotes
<1>2. CASE k = 2
  <2>1. RollbackPlan(b)[k] = WriteOf("registration", "modes", b.modes)
    BY <1>2 DEF RollbackPlan
  <2>2. "modes" \in Values /\ b.modes \in ValueType("modes")
    BY ValueTypes DEF Values, ValueType
  <2> QED
    BY <1>2, <2>1, <2>2, PutValue DEF WriteOf, RolledBack, SameNotes
<1>3. CASE k = 3
  <2>1. RollbackPlan(b)[k] = WriteOf("registration", "efx", b.efx)
    BY <1>3 DEF RollbackPlan
  <2>2. "efx" \in Values /\ b.efx \in ValueType("efx")
    BY ValueTypes DEF Values, ValueType
  <2> QED
    BY <1>3, <2>1, <2>2, PutValue DEF WriteOf, RolledBack, SameNotes
<1>4. CASE k = 4
  <2>1. RollbackPlan(b)[k] = WriteOf("registration", "sfx", b.sfx)
    BY <1>4 DEF RollbackPlan
  <2>2. "sfx" \in Values /\ b.sfx \in ValueType("sfx")
    BY ValueTypes DEF Values, ValueType
  <2> QED
    BY <1>4, <2>1, <2>2, PutValue DEF WriteOf, RolledBack, SameNotes
<1>5. CASE k = 5
  <2>1. RollbackPlan(b)[k] = WriteOf("registration", "lfx", b.lfx)
    BY <1>5 DEF RollbackPlan
  <2>2. "lfx" \in Values /\ b.lfx \in ValueType("lfx")
    BY ValueTypes DEF Values, ValueType
  <2> QED
    BY <1>5, <2>1, <2>2, PutValue DEF WriteOf, RolledBack, SameNotes
<1> QED
  BY <1>1, <1>2, <1>3, <1>4, <1>5

\* A write of a removal, but for the last one, restores one value.
LEMMA RestoreWrite ==
  ASSUME NEW b \in RegistrationType, NEW r \in RegistrationType, NEW s \in SavedType,
         NEW k \in 2..6, Restored(r, b, s, k)
  PROVE  LET w == RestorePlan(s)[k] IN
         /\ w.store = "registration"
         /\ Put(r, w.name, w.value) \in RegistrationType
         /\ Restored(Put(r, w.name, w.value), b, s, k - 1)
<1> USE DEF SavedType
<1>1. CASE k = 2
  <2>1. RestorePlan(s)[k] = WriteOf("registration", "child", s.child)
    BY <1>1 DEF RestorePlan
  <2>2. "child" \in Values /\ s.child \in ValueType("child")
    BY DEF Values, ValueType
  <2> HIDE DEF SavedType
  <2> QED
    BY <1>1, <2>1, <2>2, PutValue DEF WriteOf, Restored, SameNotes
<1>2. CASE k = 3
  <2>1. RestorePlan(s)[k] = WriteOf("registration", "sfx", s.sfx)
    BY <1>2 DEF RestorePlan
  <2>2. "sfx" \in Values /\ s.sfx \in ValueType("sfx")
    BY DEF Values, ValueType
  <2> HIDE DEF SavedType
  <2> QED
    BY <1>2, <2>1, <2>2, PutValue DEF WriteOf, Restored, SameNotes
<1>3. CASE k = 4
  <2>1. RestorePlan(s)[k] = WriteOf("registration", "lfx", s.lfx)
    BY <1>3 DEF RestorePlan
  <2>2. "lfx" \in Values /\ s.lfx \in ValueType("lfx")
    BY DEF Values, ValueType
  <2> HIDE DEF SavedType
  <2> QED
    BY <1>3, <2>1, <2>2, PutValue DEF WriteOf, Restored, SameNotes
<1>4. CASE k = 5
  <2>1. RestorePlan(s)[k] = WriteOf("registration", "modes", s.modes)
    BY <1>4 DEF RestorePlan
  <2>2. "modes" \in Values /\ s.modes \in ValueType("modes")
    BY DEF Values, ValueType
  <2> HIDE DEF SavedType
  <2> QED
    BY <1>4, <2>1, <2>2, PutValue DEF WriteOf, Restored, SameNotes
<1>5. CASE k = 6
  <2>1. RestorePlan(s)[k] = WriteOf("registration", "efx", s.efx)
    BY <1>5 DEF RestorePlan
  <2>2. "efx" \in Values /\ s.efx \in ValueType("efx")
    BY DEF Values, ValueType
  <2> HIDE DEF SavedType
  <2> QED
    BY <1>5, <2>1, <2>2, PutValue DEF WriteOf, Restored, SameNotes
<1> QED
  BY <1>1, <1>2, <1>3, <1>4, <1>5

\* Where the writes begin and end.
LEMMA ConvertedEnds ==
  ASSUME NEW b \in RegistrationType, NEW r \in RegistrationType, NEW k \in Nat,
         Converted(r, b, k)
  PROVE  /\ k > 4 + Legacy(b) => r = b \/ k = 5 + Legacy(b)
         /\ k > 5 + Legacy(b) => r = b
         /\ RolledBack(r, b, 5)
         /\ k = 1 => Converted(r, b, 0)
         /\ r.efx \in {b.efx, "pre"}
<1>1. Legacy(b) \in {0, 1}
  BY ValueTypes
<1>2. k > 4 + Legacy(b) => r = b
  BY <1>1, SameRegistration DEF Converted, Legacy
<1>3. RolledBack(r, b, 5)
  BY DEF Converted, RolledBack
<1>4. k = 1 => Converted(r, b, 0)
  BY DEF Converted
<1>5. r.efx \in {b.efx, "pre"}
  BY DEF Converted
<1> QED
  BY <1>1, <1>2, <1>3, <1>4, <1>5

LEMMA ConvertedStarts ==
  ASSUME NEW b \in RegistrationType, NEW s, NEW k \in Nat, k >= 5 + Legacy(b)
  PROVE  /\ Converted(b, b, k) /\ Keeps(s, b, 10 + Legacy(b))
         /\ \A r : RolledBack(r, b, 0) /\ r \in RegistrationType => r = b
<1>1. Legacy(b) \in {0, 1} /\ (Legacy(b) = 1 <=> b.lfx = "pre")
  BY ValueTypes DEF Legacy
<1>2. Converted(b, b, k) /\ Keeps(s, b, 10 + Legacy(b))
  BY <1>1 DEF Converted, SameNotes, Keeps
<1>3. \A r : RolledBack(r, b, 0) /\ r \in RegistrationType => r = b
  BY SameRegistration DEF RolledBack
<1> QED
  BY <1>2, <1>3

LEMMA KeepsOn ==
  ASSUME NEW b \in RegistrationType, NEW s, NEW k \in 1..(5 + Legacy(b)), Keeps(s, b, k)
  PROVE  Keeps(s, b, k - 1)
<1>1. Legacy(b) \in {0, 1}
  BY ValueTypes
<1> QED
  BY <1>1 DEF Keeps

LEMMA RestoredEnds ==
  ASSUME NEW b, NEW r, NEW s, NEW o
  PROVE  /\ Restored(b, b, s, 6)
         /\ Restored(r, b, s, 1) => Restored(r, b, s, 0)
         /\ b \in RegistrationType /\ o \in RegistrationType
              /\ Restored(r, b, s, 0) /\ r \in RegistrationType
              /\ Restored(o, b, s, 0) => r = o
<1>1. Restored(b, b, s, 6) /\ (Restored(r, b, s, 1) => Restored(r, b, s, 0))
  BY DEF Restored, SameNotes
<1>2. ASSUME o \in RegistrationType, Restored(r, b, s, 0), r \in RegistrationType,
             Restored(o, b, s, 0)
      PROVE  r = o
  BY <1>2, SameRegistration DEF Restored, SameNotes
<1> QED
  BY <1>1, <1>2

-----------------------------------------------------------------------------
(* Registrations between two writes.                                        *)

\* An installation that is complete is in place, and the way back is open.
LEMMA InstallIsHooked ==
  ASSUME NEW b \in RegistrationType, Installable(b), NEW r, Converted(r, b, 0),
         NEW s, Keeps(s, b, 0)
  PROVE  /\ r.efx = "pre" /\ (UsesApo(r) => Recursive(b))
         /\ Restored(b, r, s, 0)
<1>1. /\ NoMarker(b.metaLfx) = "pre" <=> b.metaLfx = "pre"
      /\ OriginalSfx(b) # "pre" /\ Legacy(b) \in {0, 1}
  BY ValueTypes DEF Installable
<1>2. r.efx = "pre" /\ (UsesApo(r) => Recursive(b))
  BY <1>1 DEF Converted, UsesApo, Recursive
<1>3. /\ s.lfx = b.lfx /\ s.sfx = b.sfx /\ s.efx = b.efx
      /\ s.modes = b.modes /\ s.child = b.child
  BY <1>1 DEF Keeps
<1>4. Restored(b, r, s, 0)
  BY <1>3 DEF Restored, Converted, SameNotes
<1> QED
  BY <1>2, <1>4

\* No effect is doubled at any point of an installation that may begin, and it
\* puts nothing into a chain that was not in one.
LEMMA InstallIsSound ==
  ASSUME NEW b \in RegistrationType, Installable(b), NEW o, Inherits(b, o),
         NEW k \in Nat, NEW r, Converted(r, b, k)
  PROVE  /\ Sound(r) /\ Inherits(r, o)
         /\ \A s : Keeps(s, b, 0) => Reversible(s, o)
<1>1. /\ NoMarker(b.metaLfx) = "pre" <=> b.metaLfx = "pre"
      /\ OriginalSfx(b) # "pre" /\ Legacy(b) \in {0, 1}
  BY ValueTypes DEF Installable
<1>2. b.efx \in {"none", "empty"}
  BY DEF Installable, IsEmpty
<1>3. Sound(r)
  BY <1>1, <1>2 DEF Sound, Converted, SameNotes, Recursive
<1>4. Inherits(r, o)
  BY DEF Inherits, Converted
<1>5. ASSUME NEW s, Keeps(s, b, 0)
      PROVE  Reversible(s, o)
  <2>1. s.lfx = b.lfx /\ s.efx = b.efx /\ s.child = b.child
    BY <1>1, <1>5 DEF Keeps
  <2> QED
    BY <2>1, <1>2 DEF Reversible, Inherits, IsEmpty
<1> QED
  BY <1>3, <1>4, <1>5

\* Nor is one at any point of a removal that may begin.
LEMMA RestoreIsSound ==
  ASSUME NEW b, NEW s, NEW o, b.efx = "pre", Sound(b), Inherits(b, o),
         Reversible(s, o), NEW k \in Nat, NEW r, Restored(r, b, s, k)
  PROVE  Sound(r) /\ Inherits(r, o)
<1>1. k <= 5 => r.efx # "pre"
  BY DEF Reversible, Restored, IsEmpty
<1>2. Sound(r)
  BY <1>1 DEF Sound, Recursive, Restored, SameNotes
<1>3. Inherits(r, o)
  BY DEF Inherits, Reversible, Restored
<1> QED
  BY <1>2, <1>3

\* What the Device Selector leaves is sound.
LEMMA SelectorIsSound ==
  ASSUME NEW r \in Registrations
  PROVE  r \in RegistrationType /\ Sound(r) /\ Inherits(r, r) /\ r.efx # "pre"
<1>1. r \in AllRegistrations
  BY RegistrationsAssumption
<1> QED
  BY <1>1 DEF AllRegistrations, RegistrationType, Sound, Inherits, StageValues,
              EndpointValues, ModeValues, ChildValues, Notes

-----------------------------------------------------------------------------
(* The steps of CaptureHook.                                                *)

\* Before the first run nothing is hooked, and everything is as found.
LEMMA InitHook == HookInit => HookInv
<1> SUFFICES ASSUME HookInit PROVE HookInv
  OBVIOUS
<1> USE DEF HookInit
<1>1. \A e \in Endpoints :
        /\ registration[e] \in RegistrationType /\ Sound(registration[e])
        /\ Inherits(registration[e], registration[e])
  BY SelectorIsSound
<1>2. saved \in [Endpoints -> SavedType]
  <2>1. Len(Changed) = 5
    BY DEF Changed
  <2>2. {Changed[i] : i \in 1..5} = {"lfx", "sfx", "efx", "modes", "child"}
    BY DEF Changed
  <2>3. [n \in {"lfx", "sfx", "efx", "modes", "child"} |-> "none"] \in SavedType
    BY DEF SavedType, StageValues, EndpointValues, ModeValues, ChildValues
  <2> QED
    BY <2>1, <2>2, <2>3
<1>3. HookTypeOK
  BY <1>1, <1>2 DEF HookTypeOK, NoResult, Idle
<1>4. Rest
  BY <1>1, RegistrationsAssumption DEF Rest, Found
<1>5. Writing /\ Outcomes /\ Loop /\ Promise
  BY RegistrationsAssumption
     DEF Writing, Outcomes, Loop, Promise, Found, NoResult, Idle
<1> QED
  BY <1>3, <1>4, <1>5 DEF HookInv

\* What a step between two runs changes.
LEMMA IdleStep ==
  ASSUME HookInv,
         \/ Begin("install") \/ Begin("remove")
         \/ \E e \in Endpoints : DeviceSelector(e) \/ DeviceChange(e)
  PROVE  HookInv'
<1> USE RegistrationsAssumption DEF HookInv
<1>1. ASSUME NEW kind \in {"install", "remove"}, Begin(kind) PROVE HookInv'
  <2> USE <1>1 DEF Begin, Idle
  <2>1. HookTypeOK'
    BY DEF HookTypeOK, registry
  <2>2. Rest' /\ Promise'
    BY DEF HookTypeOK, Rest, Promise, Found, registry
  <2>3. Writing' /\ Outcomes' /\ Loop'
    BY DEF HookTypeOK, Writing, Outcomes, Outcome, Loop, registry
  <2> QED
    BY <2>1, <2>2, <2>3
<1>2. ASSUME NEW e \in Endpoints, DeviceSelector(e) PROVE HookInv'
  <2> USE <1>2 DEF DeviceSelector, Idle, NoResult
  <2>1. PICK r \in Registrations :
          /\ registration' = [registration EXCEPT ![e] = r]
          /\ original' = [original EXCEPT ![e] = r]
    OBVIOUS
  <2>2. r \in RegistrationType /\ Sound(r) /\ Inherits(r, r) /\ r.efx # "pre"
    BY SelectorIsSound
  <2>3. HookTypeOK'
    BY <2>1, <2>2 DEF HookTypeOK, setup
  <2>4. Rest' /\ Promise'
    BY <2>1, <2>2 DEF HookTypeOK, Rest, Promise, Found, setup
  <2>5. Writing' /\ Outcomes' /\ Loop'
    BY <2>1 DEF HookTypeOK, Writing, Outcomes, Outcome, Loop, setup
  <2> QED
    BY <2>3, <2>4, <2>5
<1>3. ASSUME NEW e \in Endpoints, DeviceChange(e) PROVE HookInv'
  <2> USE <1>3 DEF DeviceChange, Idle, NoResult
  <2>1. HookTypeOK'
    BY DEF HookTypeOK, setup
  <2>2. Rest' /\ Promise'
    BY DEF HookTypeOK, Rest, Promise, Found, setup
  <2>3. Writing' /\ Outcomes' /\ Loop'
    BY DEF HookTypeOK, Writing, Outcomes, Outcome, Loop, setup
  <2> QED
    BY <2>1, <2>2, <2>3
<1> QED
  BY <1>1, <1>2, <1>3

\* Wherever a run is cut off outside a catch block, the endpoint it is at work
\* on is sound as well.
LEMMA Midway ==
  ASSUME HookInv, current # "none", ~throwing, current \notin halfway
  PROVE  /\ Sound(registration[current])
         /\ Inherits(registration[current], original[current])
         /\ active[current] /\ registration[current].efx = "pre"
              => Reversible(saved[current], original[current])
<1> DEFINE b == before[current]
           r == registration[current]
           s == saved[current]
           o == original[current]
           k == Len(todo)
<1>1. /\ current \in Endpoints /\ b \in RegistrationType /\ r \in RegistrationType
      /\ s \in SavedType /\ call \in {"install", "remove"}
  BY DEF HookInv, HookTypeOK, Idle
<1>2. /\ Sound(b) /\ Inherits(b, o)
      /\ active[current] /\ b.efx = "pre" => Reversible(s, o)
  BY <1>1 DEF HookInv, Rest, Found
<1>3. CASE call = "install"
  <2>1. k \in Nat /\ Installable(b) /\ ~active[current] /\ Converted(r, b, k)
    BY <1>1, <1>3, ValueTypes DEF HookInv, Writing, Installing
  <2> HIDE DEF b, r, s, o, k
  <2>2. Sound(r) /\ Inherits(r, o)
    BY <1>1, <1>2, <2>1, InstallIsSound
  <2> QED
    BY <2>1, <2>2 DEF r, o
<1>4. CASE call = "remove"
  <2>1. k \in 1..6 /\ b.efx = "pre" /\ active[current] /\ Restored(r, b, s, k)
    BY <1>4 DEF HookInv, Writing, Removing
  <2> HIDE DEF b, r, s, o, k
  <2>2. Sound(r) /\ Inherits(r, o)
    BY <1>2, <2>1, RestoreIsSound
  <2> QED
    BY <1>2, <2>1, <2>2 DEF r, s, o
<1> QED
  BY <1>1, <1>3, <1>4

\* The end of a run, by itself, by an exception or by a kill.
LEMMA EndStep ==
  ASSUME HookInv, ~Idle, NEW how \in {"done", "error", "killed"}, End(how),
         UNCHANGED registry, CutShort,
         faults' \in Nat, faults' = 0 => faults = 0 /\ current = "none",
         how # "killed" /\ call = "install" /\ current # "none" /\ ~throwing
           => registration[current] = before[current],
         how = "done" => left = {} /\ current = "none"
  PROVE  HookInv'
<1> USE RegistrationsAssumption DEF HookInv, Idle, End, CutShort, registry
<1>1. HookTypeOK'
  BY DEF HookTypeOK
<1>2. Rest'
  <2> SUFFICES ASSUME NEW e \in Endpoints, e \notin halfway'
               PROVE  /\ Sound(registration[e])
                      /\ Inherits(registration[e], original[e])
                      /\ active[e] /\ registration[e].efx = "pre"
                           => Reversible(saved[e], original[e])
    BY DEF Rest, Found
  <2>1. CASE e = current
    BY <2>1, Midway DEF HookTypeOK
  <2>2. CASE e # current
    BY <2>2 DEF Rest, Found
  <2> QED
    BY <2>1, <2>2
<1>3. Outcomes'
  BY DEF HookTypeOK, Outcomes, Outcome
<1>4. Loop' /\ Writing'
  BY DEF HookTypeOK, Loop, Writing
<1>5. Promise'
  BY DEF HookTypeOK, Promise, Found
<1> QED
  BY <1>1, <1>2, <1>3, <1>4, <1>5

\* An endpoint that needs nothing.
LEMMA SkipStep ==
  ASSUME HookInv, Looping, NEW e \in left, NEW there, Skip(e, there),
         call = "remove" => ~active[e]
  PROVE  HookInv'
<1> USE RegistrationsAssumption
    DEF HookInv, Idle, Looping, Skip, registry, history, bounds
<1>1. HookTypeOK'
  BY DEF HookTypeOK
<1>2. Rest' /\ Promise'
  BY DEF HookTypeOK, Rest, Promise, Found
<1>3. Outcomes' /\ Loop' /\ Writing'
  BY DEF HookTypeOK, Outcomes, Outcome, Loop, Writing
<1> QED
  BY <1>1, <1>2, <1>3

\* An exception before the first write.
LEMMA ThrowStep ==
  ASSUME HookInv, Looping, Throw
  PROVE  HookInv'
<1>1. ~throwing /\ faults \in Nat
  BY DEF HookInv, HookTypeOK, Looping
<1>2. CutShort /\ ~Idle /\ current = "none"
  BY <1>1 DEF Throw, CutShort, Looping
<1> QED
  BY <1>1, <1>2, EndStep DEF Throw

\* The first endpoint that needs an installation, and the first hook to undo.
LEMMA StartStep ==
  ASSUME HookInv, Looping, NEW e \in left
  PROVE  /\ LET r == registration[e] IN
              call = "install" /\ ~active[e] /\ Installable(r)
                /\ Start(e, Saves(r) \o InstallWrites(r), RollbackWrites(r))
              => HookInv'
         /\ call = "remove" /\ active[e] /\ registration[e].efx = "pre"
                /\ Start(e, RestoreWrites(saved[e]), <<>>)
              => HookInv'
<1> DEFINE r == registration[e]
<1>1. /\ e \in Endpoints /\ r \in RegistrationType /\ r = before[e]
      /\ saved[e] \in SavedType /\ e # "none" /\ ~throwing /\ current = "none"
  BY RegistrationsAssumption DEF HookInv, HookTypeOK, Loop, Looping
<1>2. ASSUME NEW writes, NEW rollback, Start(e, writes, rollback), writes # <<>>,
             Writing'
      PROVE  HookInv'
  <2> USE <1>1, <1>2, RegistrationsAssumption
      DEF HookInv, Idle, Looping, Start, registry, history, bounds
  <2>1. HookTypeOK'
    BY DEF HookTypeOK
  <2>2. Rest' /\ Promise'
    BY DEF HookTypeOK, Rest, Promise, Found
  <2>3. Outcomes' /\ Loop'
    BY DEF HookTypeOK, Outcomes, Outcome, Loop
  <2> QED
    BY <2>1, <2>2, <2>3
<1>3. ASSUME call = "install", ~active[e], Installable(r),
             Start(e, Saves(r) \o InstallWrites(r), RollbackWrites(r))
      PROVE  HookInv'
  <2> DEFINE n == 10 + Legacy(r)
  <2>1. n \in Nat /\ n > 0 /\ n >= 5 + Legacy(r)
    BY <1>1, ValueTypes
  <2>2. Saves(r) \o InstallWrites(r) = Countdown(InstallPlan(r), n)
    BY <1>1, InstallIsPlanned
  <2>3. /\ Len(Countdown(InstallPlan(r), n)) = n
        /\ Countdown(InstallPlan(r), n) # <<>>
    BY <2>1, CountdownStep
  <2>4. Converted(r, r, n) /\ Keeps(saved[e], r, n)
    BY <1>1, <2>1, ConvertedStarts
  <2>5. /\ current' = e /\ todo' = Countdown(InstallPlan(r), n)
        /\ undo' = RollbackWrites(r) /\ before' = before /\ call' = call
        /\ throwing' = throwing /\ registration' = registration
        /\ saved' = saved /\ active' = active
    BY <1>3, <2>2 DEF Start, registry, history, bounds
  <2> HIDE DEF n
  <2>6. n \in 1..(10 + Legacy(r))
    BY <2>1 DEF n
  <2>7. Writing'
    BY <1>1, <1>3, <2>3, <2>4, <2>5, <2>6 DEF Writing, Installing
  <2> QED
    BY <1>2, <1>3, <2>2, <2>3, <2>7
<1>4. ASSUME call = "remove", active[e], r.efx = "pre",
             Start(e, RestoreWrites(saved[e]), <<>>)
      PROVE  HookInv'
  <2>1. RestoreWrites(saved[e]) = Countdown(RestorePlan(saved[e]), 6)
    BY <1>1, RestoreIsPlanned
  <2> DEFINE n == 6
             plan == RestorePlan(saved[e])
  <2>2. n \in Nat /\ n > 0 /\ n \in 1..6
    OBVIOUS
  <2>3. Restored(r, r, saved[e], n)
    BY RestoredEnds
  <2>4. /\ current' = e /\ todo' = Countdown(plan, n)
        /\ undo' = <<>> /\ before' = before /\ call' = call
        /\ throwing' = throwing /\ registration' = registration
        /\ saved' = saved /\ active' = active
    BY <1>4, <2>1 DEF Start, registry, history, bounds
  <2> HIDE DEF n, plan
  <2>5. Len(Countdown(plan, n)) = n /\ Countdown(plan, n) # <<>>
    BY <2>2, CountdownStep
  <2>6. RestoreWrites(saved[e]) # <<>>
    BY <2>1, <2>5 DEF n, plan
  <2>7. Writing'
    <3>1. todo' = Countdown(RestorePlan(saved'[e]), n)
      BY <2>4 DEF plan
    <3> QED
      BY <1>1, <1>4, <2>2, <2>3, <2>4, <2>5, <3>1 DEF Writing, Removing
  <2> QED
    BY <1>2, <1>4, <2>6, <2>7
<1> QED
  BY <1>3, <1>4

\* The loop over the endpoints.
LEMMA LoopStep ==
  ASSUME HookInv,
         Finish \/ \E e \in Endpoints : InstallEndpoint(e) \/ RestoreEndpoint(e)
  PROVE  HookInv'
<1>1. CASE Finish
  <2>1. ~throwing /\ faults \in Nat /\ Looping /\ left = {}
    BY <1>1 DEF HookInv, HookTypeOK, Finish, Looping
  <2>2. CutShort /\ ~Idle /\ current = "none"
    BY <1>1, <2>1 DEF Finish, CutShort, Looping
  <2>3. PICK how \in {"done", "error"} : End(how)
    BY <1>1 DEF Finish
  <2> QED
    BY <1>1, <2>1, <2>2, <2>3, EndStep DEF Finish
<1>2. ASSUME NEW e \in Endpoints, InstallEndpoint(e) PROVE HookInv'
  <2>1. Looping /\ e \in left /\ call = "install"
    BY <1>2 DEF InstallEndpoint
  <2>2. \/ Skip(e, FALSE) \/ Skip(e, TRUE) \/ Throw
        \/ /\ ~active[e] /\ Installable(registration[e])
           /\ Start(e, Saves(registration[e]) \o InstallWrites(registration[e]),
                    RollbackWrites(registration[e]))
    BY <1>2 DEF InstallEndpoint, Installable
  <2> QED
    BY <2>1, <2>2, SkipStep, ThrowStep, StartStep
<1>3. ASSUME NEW e \in Endpoints, RestoreEndpoint(e) PROVE HookInv'
  <2>1. Looping /\ e \in left /\ call = "remove"
    BY <1>3 DEF RestoreEndpoint
  <2>2. \/ ~active[e] /\ Skip(e, FALSE)
        \/ Throw
        \/ /\ active[e] /\ registration[e].efx = "pre"
           /\ Start(e, RestoreWrites(saved[e]), <<>>)
    BY <1>3 DEF RestoreEndpoint
  <2> QED
    BY <2>1, <2>2, SkipStep, ThrowStep, StartStep
<1> QED
  BY <1>1, <1>2, <1>3

\* What is known of the endpoint Setup is at work on.
LEMMA AtWork ==
  ASSUME HookInv, todo # <<>>
  PROVE  /\ current \in Endpoints /\ current # "none" /\ current \notin left /\ ~Idle
         /\ call \in {"install", "remove"}
         /\ before[current] \in RegistrationType
         /\ registration[current] \in RegistrationType
         /\ saved[current] \in SavedType
         /\ throwing => call = "install"
         /\ faults \in Nat
         /\ current \notin halfway =>
              Sound(before[current]) /\ Inherits(before[current], original[current])
BY RegistrationsAssumption DEF HookInv, HookTypeOK, Idle, Loop, Rest, Found

\* The endpoints Setup is not at work on are not disturbed by a write, nor by
\* its end, if it is not the end of the run.
LEMMA OthersStay ==
  ASSUME HookInv, todo # <<>>, NEW next, current' \in {current, "none"},
         /\ \A e \in Endpoints \ {current} :
              /\ registration'[e] = registration[e]
              /\ saved'[e] = saved[e] /\ active'[e] = active[e],
         registration' \in [Endpoints -> RegistrationType],
         saved' \in [Endpoints -> SavedType], active' \in [Endpoints -> BOOLEAN],
         (todo' # <<>>) = (current' # "none"),
         UNCHANGED <<device, call, left, result, halfway, before, original, faults>>,
         throwing' => throwing /\ current' = current,
         Writing',
         current' = current => active' = active /\ (~active[current] \/ saved' = saved),
         current' = "none" =>
           /\ current \notin halfway =>
                /\ Sound(registration'[current])
                /\ Inherits(registration'[current], original[current])
                /\ active'[current] /\ registration'[current].efx = "pre"
                     => Reversible(saved'[current], original[current])
                /\ call = "install" =>
                     \A e \in Endpoints : e = current => Outcome(e)'
           /\ call = "remove" => ~active'[current]
           /\ faults = 0 =>
                /\ ~active'[current] => registration'[current] = original[current]
                /\ active'[current] /\ registration'[current].efx = "pre"
                     => Restored(original[current], registration'[current],
                                 saved'[current], 0)
                /\ active'[current] /\ registration'[current].efx # "pre"
                     => registration'[current] = original[current]
  PROVE  HookInv'
<1>1. HookTypeOK'
  BY AtWork DEF HookInv, HookTypeOK, Idle
<1>3. Rest'
  <2> SUFFICES ASSUME NEW e \in Endpoints, e \notin halfway
               PROVE  /\ Sound(Found(e)') /\ Inherits(Found(e)', original[e])
                      /\ active'[e] /\ Found(e)'.efx = "pre"
                           => Reversible(saved'[e], original[e])
    BY DEF Rest, Found
  <2>1. CASE e = current /\ current' = current
    BY <2>1 DEF HookInv, Rest, Found
  <2>2. CASE e = current /\ current' = "none"
    BY <2>2, AtWork DEF Found
  <2>3. CASE e # current
    BY <2>3, AtWork, RegistrationsAssumption DEF HookInv, Rest, Found
  <2> QED
    BY <2>1, <2>2, <2>3
<1>4. Outcomes'
  <2> SUFFICES ASSUME call = "install", NEW e \in Endpoints, e \notin halfway,
                      e # current'
               PROVE  Outcome(e)'
    BY AtWork DEF Outcomes, Idle
  <2>1. CASE e = current
    BY <2>1, AtWork
  <2>2. CASE e # current
    BY <2>2 DEF HookInv, Outcomes, Outcome
  <2> QED
    BY <2>1, <2>2
<1>5. Loop'
  BY AtWork, RegistrationsAssumption DEF HookInv, HookTypeOK, Loop, Idle
<1>6. Promise'
  <2> SUFFICES ASSUME faults = 0, NEW e \in Endpoints
               PROVE  /\ ~active'[e] => Found(e)' = original[e]
                      /\ active'[e] /\ Found(e)'.efx = "pre"
                           => Restored(original[e], Found(e)', saved'[e], 0)
                      /\ active'[e] /\ Found(e)'.efx # "pre"
                           => Found(e)' = original[e]
    BY DEF Promise, Found
  <2>1. CASE e = current /\ current' = current
    BY <2>1 DEF HookInv, Promise, Found
  <2>2. CASE e = current /\ current' = "none"
    BY <2>2, AtWork DEF Found
  <2>3. CASE e # current
    BY <2>3, AtWork, RegistrationsAssumption DEF HookInv, Promise, Found
  <2> QED
    BY <2>1, <2>2, <2>3
<1> QED
  BY <1>1, <1>3, <1>4, <1>5, <1>6 DEF HookInv

\* What a write changes, by the store it goes to.
LEMMA WriteEffect ==
  ASSUME HookInv, Write
  PROVE  LET w == Head(todo) IN
         /\ w.store = "registration" =>
              /\ registration' = [registration EXCEPT ![current] =
                                    Put(registration[current], w.name, w.value)]
              /\ UNCHANGED <<saved, active>>
         /\ w.store = "saved" =>
              /\ saved' = [saved EXCEPT ![current] =
                              Put(saved[current], w.name, w.value)]
              /\ UNCHANGED <<registration, active>>
         /\ w.store = "active" =>
              /\ active' = [active EXCEPT ![current] = w.value]
              /\ UNCHANGED <<registration, saved>>
BY DEF Write, Put

\* A write of an installation outside its catch block.
LEMMA InstallingStep ==
  ASSUME HookInv, Write, call = "install", ~throwing
  PROVE  HookInv'
<1> DEFINE b == before[current]
           k == Len(todo)
           w == InstallPlan(b)[k]
<1>1. todo # <<>> /\ Installing
  BY AtWork DEF Write, HookInv, Writing
<1>2. /\ Legacy(b) \in {0, 1} /\ k \in 1..(10 + Legacy(b)) /\ k \in Nat
      /\ todo = Countdown(InstallPlan(b), k)
      /\ undo = RollbackWrites(b) /\ Installable(b) /\ ~active[current]
      /\ Converted(registration[current], b, k) /\ Keeps(saved[current], b, k)
  BY <1>1, AtWork, ValueTypes DEF Installing
<1>3. /\ Head(todo) = w /\ Tail(todo) = Countdown(InstallPlan(b), k - 1)
      /\ Len(Tail(todo)) = k - 1 /\ (k = 1 <=> Tail(todo) = <<>>)
  <2> DEFINE plan == InstallPlan(b)
  <2> HIDE DEF k, plan
  <2>1. /\ k \in Nat /\ k > 0 /\ k - 1 \in Nat /\ (k = 1 <=> k - 1 = 0)
        /\ todo = Countdown(plan, k)
    BY <1>2 DEF plan
  <2>2. Head(todo) = plan[k] /\ Tail(todo) = Countdown(plan, k - 1)
    BY <2>1, CountdownStep
  <2>3. Len(Tail(todo)) = k - 1 /\ (k - 1 = 0 <=> Tail(todo) = <<>>)
    BY <2>1, <2>2, CountdownStep
  <2> QED
    BY <2>1, <2>2, <2>3 DEF plan
<1>4. /\ device' = device /\ call' = call /\ left' = left /\ result' = result
      /\ halfway' = halfway /\ before' = before /\ original' = original
      /\ faults' = faults /\ throwing' = throwing /\ todo' = Tail(todo)
      /\ k = 1 => current' = "none" /\ undo' = <<>>
      /\ k # 1 => current' = current /\ undo' = undo
  BY DEF Write
<1>5. /\ registration \in [Endpoints -> RegistrationType]
      /\ saved \in [Endpoints -> SavedType] /\ active \in [Endpoints -> BOOLEAN]
  BY DEF HookInv, HookTypeOK
<1>6. CASE k >= 6 + Legacy(b)
  <2>1. /\ w.store = "saved" /\ Put(saved[current], w.name, w.value) \in SavedType
        /\ Keeps(Put(saved[current], w.name, w.value), b, k - 1)
    BY <1>2, <1>6, AtWork, <1>1, SaveWrite
  <2>2. /\ saved' = [saved EXCEPT ![current] = Put(saved[current], w.name, w.value)]
        /\ registration' = registration /\ active' = active
    BY <2>1, <1>3, WriteEffect
  <2>3. Converted(registration[current], b, k - 1)
    <3>1. registration[current] = b
      BY <1>1, <1>2, <1>6, AtWork, ConvertedEnds
    <3>2. k - 1 \in Nat /\ k - 1 >= 5 + Legacy(b) /\ b \in RegistrationType
      BY <1>1, <1>2, <1>6, AtWork
    <3> HIDE DEF b, k
    <3> QED
      BY <3>1, <3>2, ConvertedStarts
  <2> HIDE DEF b, k, w
  <2>4. Installing'
    <3>1. before'[current'] = b /\ Len(todo') = k - 1 /\ k - 1 \in 1..(10 + Legacy(b))
          /\ current' = current
      BY <1>2, <1>3, <1>4, <1>6 DEF b
    <3>2. saved'[current] = Put(saved[current], w.name, w.value)
      BY <2>2, <1>1, <1>5, AtWork
    <3> QED
      BY <1>2, <1>3, <1>4, <2>1, <2>2, <2>3, <3>1, <3>2 DEF Installing
  <2>5. Writing'
    BY <2>4, <1>4 DEF Writing
  <2>6. /\ saved' \in [Endpoints -> SavedType] /\ current' = current
        /\ \A e \in Endpoints \ {current} : saved'[e] = saved[e]
    BY <1>1, <1>2, <1>4, <1>5, <1>6, <2>1, <2>2, AtWork
  <2> QED
    BY <1>1, <1>2, <1>3, <1>4, <1>5, <1>6, <2>2, <2>5, <2>6, AtWork, OthersStay
<1>7. CASE k \in 2..(5 + Legacy(b))
  <2>1. /\ w.store = "registration"
        /\ Put(registration[current], w.name, w.value) \in RegistrationType
        /\ Converted(Put(registration[current], w.name, w.value), b, k - 1)
    BY <1>1, <1>2, <1>7, AtWork, ChangeWrite
  <2>2. /\ registration' = [registration EXCEPT ![current] =
                               Put(registration[current], w.name, w.value)]
        /\ saved' = saved /\ active' = active
    BY <2>1, <1>3, WriteEffect
  <2>3. Keeps(saved[current], b, k - 1)
    BY <1>1, <1>2, <1>7, AtWork, KeepsOn
  <2> HIDE DEF b, k, w
  <2>4. Installing'
    <3>1. before'[current'] = b /\ Len(todo') = k - 1 /\ k - 1 \in 1..(10 + Legacy(b))
          /\ current' = current
      BY <1>2, <1>3, <1>4, <1>7 DEF b
    <3>2. registration'[current] = Put(registration[current], w.name, w.value)
      BY <2>2, <1>1, <1>5, AtWork
    <3> QED
      BY <1>2, <1>3, <1>4, <2>1, <2>2, <2>3, <3>1, <3>2 DEF Installing
  <2>5. Writing'
    BY <2>4, <1>4 DEF Writing
  <2>6. /\ registration' \in [Endpoints -> RegistrationType] /\ current' = current
        /\ \A e \in Endpoints \ {current} : registration'[e] = registration[e]
    BY <1>1, <1>2, <1>4, <1>5, <1>7, <2>1, <2>2, AtWork
  <2> QED
    BY <1>1, <1>2, <1>3, <1>4, <1>5, <1>7, <2>2, <2>5, <2>6, AtWork, OthersStay
<1>8. CASE k = 1
  <2>1. w = WriteOf("active", "Active", TRUE)
    BY <1>1, <1>8, AtWork, InstallPlanIs
  <2>2. /\ active' = [active EXCEPT ![current] = TRUE]
        /\ registration' = registration /\ saved' = saved
    BY <2>1, <1>3, WriteEffect DEF WriteOf
  <2>3. Converted(registration[current], b, 0) /\ Keeps(saved[current], b, 0)
    BY <1>1, <1>2, <1>8, AtWork, ConvertedEnds, KeepsOn
  <2> HIDE DEF b, k, w
  <2>4. /\ b \in RegistrationType /\ current \in Endpoints
        /\ current \notin halfway => Inherits(b, original[current])
    BY <1>1, AtWork DEF b
  <2>5. /\ registration[current].efx = "pre"
        /\ UsesApo(registration[current]) => Recursive(b)
        /\ Restored(b, registration[current], saved[current], 0)
    BY <1>2, <2>3, <2>4, InstallIsHooked
  <2>6. current \notin halfway =>
          /\ Sound(registration[current])
          /\ Inherits(registration[current], original[current])
          /\ Reversible(saved[current], original[current])
    BY <1>2, <2>3, <2>4, InstallIsSound
  <2>7. faults = 0 => b = original[current]
    BY <1>2, <2>4 DEF HookInv, Promise, Found, b
  <2>8. \A e \in Endpoints : e = current => Outcome(e)'
    BY <1>4, <2>2, <2>3, <2>4, <2>5, <1>5 DEF Outcome, b
  <2>9. /\ Writing' /\ current' = "none" /\ active' \in [Endpoints -> BOOLEAN]
        /\ active'[current]
        /\ \A e \in Endpoints \ {current} : active'[e] = active[e]
    BY <1>4, <1>5, <1>8, <2>2, <2>4 DEF Writing
  <2> QED
    BY <1>1, <1>2, <1>3, <1>4, <1>5, <1>8, <2>2, <2>5, <2>6, <2>7, <2>8, <2>9, AtWork,
       OthersStay
<1>9. k >= 6 + Legacy(b) \/ k \in 2..(5 + Legacy(b)) \/ k = 1
  <2> HIDE DEF b, k
  <2> QED
    BY <1>2
<1> QED
  BY <1>6, <1>7, <1>8, <1>9

\* A write of the catch block; the last one ends the run with the exception.
LEMMA RollingBackStep ==
  ASSUME HookInv, Write, throwing
  PROVE  HookInv'
<1> DEFINE b == before[current]
           k == Len(todo)
           w == RollbackPlan(b)[k]
           after == Put(registration[current], w.name, w.value)
<1>1. todo # <<>> /\ RollingBack /\ call = "install"
  BY AtWork DEF Write, HookInv, Writing
<1>2. /\ k \in 1..5 /\ todo = Countdown(RollbackPlan(b), k)
      /\ undo = <<>> /\ Installable(b) /\ ~active[current]
      /\ RolledBack(registration[current], b, k)
  BY <1>1 DEF RollingBack
<1>3. /\ Head(todo) = w /\ Tail(todo) = Countdown(RollbackPlan(b), k - 1)
      /\ Len(Tail(todo)) = k - 1 /\ (k = 1 <=> Tail(todo) = <<>>)
  <2> DEFINE plan == RollbackPlan(b)
  <2> HIDE DEF k, plan
  <2>1. /\ k \in Nat /\ k > 0 /\ k - 1 \in Nat /\ (k = 1 <=> k - 1 = 0)
        /\ todo = Countdown(plan, k)
    BY <1>2 DEF plan
  <2>2. Head(todo) = plan[k] /\ Tail(todo) = Countdown(plan, k - 1)
    BY <2>1, CountdownStep
  <2>3. Len(Tail(todo)) = k - 1 /\ (k - 1 = 0 <=> Tail(todo) = <<>>)
    BY <2>1, <2>2, CountdownStep
  <2> QED
    BY <2>1, <2>2, <2>3 DEF plan
<1>4. /\ w.store = "registration" /\ after \in RegistrationType
      /\ RolledBack(after, b, k - 1)
  BY <1>1, <1>2, AtWork, RollbackWrite
<1>5. /\ registration' = [registration EXCEPT ![current] = after]
      /\ saved' = saved /\ active' = active
  BY <1>3, <1>4, WriteEffect
<1>6. /\ registration \in [Endpoints -> RegistrationType]
      /\ saved \in [Endpoints -> SavedType] /\ active \in [Endpoints -> BOOLEAN]
  BY DEF HookInv, HookTypeOK
<1>7. /\ device' = device /\ halfway' = halfway /\ faults' = faults
      /\ before' = before /\ original' = original
      /\ k = 1 => End("error")
      /\ k # 1 => /\ call' = call /\ left' = left /\ result' = result
                  /\ throwing' = throwing /\ todo' = Tail(todo)
                  /\ current' = current /\ undo' = undo
  BY DEF Write, End
<1> HIDE DEF b, k, w, after
<1>8. /\ registration' \in [Endpoints -> RegistrationType]
      /\ registration'[current] = after
      /\ \A e \in Endpoints \ {current} : registration'[e] = registration[e]
  BY <1>1, <1>4, <1>5, <1>6, AtWork
<1>9. CASE k # 1
  <2>1. RollingBack'
    <3>1. before'[current] = b /\ Len(todo') = k - 1 /\ k - 1 \in 1..5
      BY <1>2, <1>3, <1>7, <1>9 DEF b
    <3> QED
      BY <1>2, <1>3, <1>4, <1>5, <1>7, <1>8, <1>9, <3>1 DEF RollingBack
  <2>2. Writing'
    BY <1>1, <1>7, <1>9, <2>1 DEF Writing
  <2> QED
    BY <1>1, <1>2, <1>3, <1>5, <1>6, <1>7, <1>8, <1>9, <2>2, AtWork, OthersStay
<1>10. CASE k = 1
  <2>1. after = b
    <3>1. /\ RolledBack(after, b, 0) /\ after \in RegistrationType
          /\ b \in RegistrationType /\ Legacy(b) \in {0, 1}
      BY <1>1, <1>4, <1>10, AtWork, ValueTypes DEF b
    <3>2. 6 \in Nat /\ 6 >= 5 + Legacy(b)
      BY <3>1
    <3> QED
      BY <3>1, <3>2, ConvertedStarts
  <2> USE RegistrationsAssumption DEF HookInv, Idle, End
  <2>2. /\ current \in Endpoints /\ current # "none" /\ b = before[current]
        /\ current \notin halfway => Sound(b) /\ Inherits(b, original[current])
        /\ End("error")
    BY <1>1, <1>7, <1>10, AtWork DEF b
  <2>3. HookTypeOK'
    BY <1>1, <1>5, <1>7, <1>8, <2>2 DEF HookTypeOK
  <2>4. Rest'
    BY <1>2, <1>5, <1>7, <1>8, <2>1, <2>2 DEF HookTypeOK, Rest, Found
  <2>5. Outcomes'
    BY <1>1, <1>5, <1>7, <1>8, <2>1, <2>2 DEF Outcomes, Outcome
  <2>6. Loop' /\ Writing'
    BY <1>1, <1>5, <1>7, <1>8, <2>2 DEF HookTypeOK, Loop, Writing
  <2>7. Promise'
    BY <1>2, <1>5, <1>7, <1>8, <2>1, <2>2 DEF HookTypeOK, Promise, Found
  <2> QED
    BY <2>3, <2>4, <2>5, <2>6, <2>7
<1> QED
  BY <1>9, <1>10

\* A write of a removal.
LEMMA RemovingStep ==
  ASSUME HookInv, Write, call = "remove"
  PROVE  HookInv'
<1> DEFINE b == before[current]
           k == Len(todo)
           s == saved[current]
           w == RestorePlan(s)[k]
           after == Put(registration[current], w.name, w.value)
<1>1. todo # <<>> /\ Removing /\ ~throwing
  BY AtWork DEF Write, HookInv, Writing
<1>2. /\ k \in 1..6 /\ todo = Countdown(RestorePlan(s), k)
      /\ undo = <<>> /\ b.efx = "pre" /\ active[current]
      /\ Restored(registration[current], b, s, k)
  BY <1>1 DEF Removing
<1>3. /\ Head(todo) = w /\ Tail(todo) = Countdown(RestorePlan(s), k - 1)
      /\ Len(Tail(todo)) = k - 1 /\ (k = 1 <=> Tail(todo) = <<>>)
  <2> DEFINE plan == RestorePlan(s)
  <2> HIDE DEF k, plan
  <2>1. /\ k \in Nat /\ k > 0 /\ k - 1 \in Nat /\ (k = 1 <=> k - 1 = 0)
        /\ todo = Countdown(plan, k)
    BY <1>2 DEF plan
  <2>2. Head(todo) = plan[k] /\ Tail(todo) = Countdown(plan, k - 1)
    BY <2>1, CountdownStep
  <2>3. Len(Tail(todo)) = k - 1 /\ (k - 1 = 0 <=> Tail(todo) = <<>>)
    BY <2>1, <2>2, CountdownStep
  <2> QED
    BY <2>1, <2>2, <2>3 DEF plan
<1>4. /\ registration \in [Endpoints -> RegistrationType]
      /\ saved \in [Endpoints -> SavedType] /\ active \in [Endpoints -> BOOLEAN]
  BY DEF HookInv, HookTypeOK
<1>5. /\ device' = device /\ call' = call /\ left' = left /\ result' = result
      /\ halfway' = halfway /\ before' = before /\ original' = original
      /\ faults' = faults /\ throwing' = throwing /\ todo' = Tail(todo)
      /\ k = 1 => current' = "none" /\ undo' = <<>>
      /\ k # 1 => current' = current /\ undo' = undo
  BY <1>1 DEF Write
<1>6. CASE k \in 2..6
  <2>1. /\ w.store = "registration" /\ after \in RegistrationType
        /\ Restored(after, b, s, k - 1)
    BY <1>1, <1>2, <1>6, AtWork, RestoreWrite
  <2>2. /\ registration' = [registration EXCEPT ![current] = after]
        /\ saved' = saved /\ active' = active
    BY <2>1, <1>3, WriteEffect
  <2> HIDE DEF b, k, w, after, s
  <2>3. /\ registration' \in [Endpoints -> RegistrationType]
        /\ registration'[current] = after /\ current' = current
        /\ \A e \in Endpoints \ {current} : registration'[e] = registration[e]
    BY <1>1, <1>4, <1>5, <1>6, <2>1, <2>2, AtWork
  <2>4. Removing'
    <3>1. /\ before'[current] = b /\ Len(todo') = k - 1 /\ k - 1 \in 1..6
          /\ saved'[current] = s
      BY <1>2, <1>3, <1>5, <1>6, <2>2 DEF b, s
    <3> QED
      BY <1>2, <1>3, <1>5, <1>6, <2>1, <2>2, <2>3, <3>1 DEF Removing
  <2>5. Writing'
    BY <1>1, <1>5, <2>4 DEF Writing
  <2> QED
    BY <1>1, <1>2, <1>3, <1>4, <1>5, <1>6, <2>2, <2>3, <2>5, AtWork, OthersStay
<1>7. CASE k = 1
  <2>1. w = WriteOf("active", "Active", FALSE)
    BY <1>7 DEF RestorePlan
  <2>2. /\ active' = [active EXCEPT ![current] = FALSE]
        /\ registration' = registration /\ saved' = saved
    BY <2>1, <1>3, WriteEffect DEF WriteOf
  <2>3. Restored(registration[current], b, s, 1)
    BY <1>2, <1>7
  <2> HIDE DEF b, k, w, after, s
  <2>4. Restored(registration[current], b, s, 0)
    BY <2>3, RestoredEnds
  <2>5. current \notin halfway =>
          /\ Sound(registration[current])
          /\ Inherits(registration[current], original[current])
    BY <1>1, AtWork, Midway
  <2>6. faults = 0 => registration[current] = original[current]
    <3>1. faults = 0 => Restored(original[current], b, s, 0)
      BY <1>1, <1>2, AtWork DEF HookInv, Promise, Found, b, s
    <3>2. original[current] \in RegistrationType
      BY <1>1, AtWork, SelectorIsSound DEF HookInv, HookTypeOK
    <3> QED
      BY <3>1, <3>2, <2>4, <1>1, AtWork, RestoredEnds DEF b
  <2>7. /\ Writing' /\ current' = "none" /\ active' \in [Endpoints -> BOOLEAN]
        /\ ~active'[current]
        /\ \A e \in Endpoints \ {current} : active'[e] = active[e]
    BY <1>1, <1>4, <1>5, <1>7, <2>2, AtWork DEF Writing
  <2> QED
    BY <1>1, <1>2, <1>3, <1>4, <1>5, <1>7, <2>2, <2>5, <2>6, <2>7, AtWork, OthersStay
<1> QED
  BY <1>2, <1>6, <1>7

\* A write that fails, and a kill.
LEMMA FaultStep ==
  ASSUME HookInv, WriteFails \/ Killed
  PROVE  HookInv'
<1>1. faults \in Nat
  BY DEF HookInv, HookTypeOK
<1>2. CASE Killed
  <2>1. ~Idle /\ End("killed") /\ CutShort /\ faults' = faults + 1 /\ UNCHANGED registry
    BY <1>2 DEF Killed
  <2> QED
    BY <1>1, <2>1, EndStep
<1>3. CASE WriteFails
  <2> DEFINE b == before[current]
             k == Len(todo)
  <2>1. /\ todo # <<>> /\ faults' = faults + 1 /\ CutShort /\ UNCHANGED registry
        /\ current # "none" /\ ~Idle /\ b \in RegistrationType
        /\ call \in {"install", "remove"} /\ (throwing => call = "install")
    BY <1>3, AtWork DEF WriteFails
  <2>2. CASE undo = <<>> \/ Head(todo).store = "saved"
    <3>1. End("error")
      BY <1>3, <2>2 DEF WriteFails
    <3>2. ASSUME call = "install", ~throwing
          PROVE  registration[current] = before[current]
      <4>1. Installing
        BY <2>1, <3>2 DEF HookInv, Writing
      <4>2. /\ k \in Nat /\ k \in 1..(10 + Legacy(b)) /\ Legacy(b) \in {0, 1}
            /\ todo = Countdown(InstallPlan(b), k) /\ undo = RollbackWrites(b)
            /\ Converted(registration[current], b, k)
        BY <4>1, <2>1, ValueTypes DEF Installing
      <4>3. undo # <<>>
        <5>1. RollbackWrites(b) = Countdown(RollbackPlan(b), 5)
          BY <2>1, RollbackIsPlanned
        <5> DEFINE n == 5
        <5>2. n \in Nat /\ n # 0 /\ RollbackWrites(b) = Countdown(RollbackPlan(b), n)
          BY <5>1
        <5> HIDE DEF n
        <5> QED
          BY <5>2, <4>2, CountdownStep
      <4>4. Head(todo) = InstallPlan(b)[k]
        <5> HIDE DEF k
        <5>1. k > 0
          BY <4>2
        <5> QED
          BY <4>2, <5>1, CountdownStep
      <4>5. k > 5 + Legacy(b)
        <5>1. InstallPlan(b)[k].store = "saved"
          BY <4>3, <4>4, <2>2
        <5>2. ASSUME k = 1 PROVE InstallPlan(b)[k].store = "active"
          <6>1. InstallPlan(b)[1] = WriteOf("active", "Active", TRUE)
            BY <2>1, InstallPlanIs
          <6> HIDE DEF b, k
          <6> QED
            BY <5>2, <6>1 DEF WriteOf
        <5>3. ASSUME k \in 2..(5 + Legacy(b))
              PROVE  InstallPlan(b)[k].store = "registration"
          BY <2>1, <4>2, <5>3, AtWork, ChangeWrite
        <5> HIDE DEF b, k
        <5> QED
          BY <4>2, <5>1, <5>2, <5>3
      <4>6. registration[current] \in RegistrationType
        BY <2>1, AtWork
      <4> QED
        BY <2>1, <4>2, <4>5, <4>6, ConvertedEnds
    <3> QED
      BY <1>1, <2>1, <3>1, <3>2, EndStep
  <2>3. CASE undo # <<>> /\ Head(todo).store # "saved"
    <3>1. /\ todo' = undo /\ undo' = <<>> /\ throwing' = TRUE
          /\ call' = call /\ left' = left /\ current' = current /\ result' = result
          /\ before' = before /\ original' = original
      BY <1>3, <2>3 DEF WriteFails
    <3>2. call = "install" /\ ~throwing /\ Installing
      BY <2>1, <2>3 DEF HookInv, Writing, RollingBack, Removing
    <3>3. /\ k \in Nat /\ undo = RollbackWrites(b) /\ Installable(b)
          /\ ~active[current] /\ Converted(registration[current], b, k)
      BY <3>2, <2>1, ValueTypes DEF Installing
    <3>4. RolledBack(registration[current], b, 5)
      BY <2>1, <3>3, AtWork, ConvertedEnds
    <3> DEFINE n == 5
    <3>5. n \in Nat /\ n # 0 /\ n \in 1..5 /\ todo' = Countdown(RollbackPlan(b), n)
          /\ RolledBack(registration[current], b, n)
      BY <2>1, <3>1, <3>3, <3>4, RollbackIsPlanned
    <3> HIDE DEF n
    <3>6. Len(todo') = n /\ todo' # <<>>
      BY <3>5, CountdownStep
    <3>7. Writing'
      BY <2>1, <3>1, <3>2, <3>3, <3>5, <3>6 DEF Writing, RollingBack, registry
    <3>8. halfway' = halfway
      BY <2>1, <3>2 DEF CutShort
    <3> USE RegistrationsAssumption DEF HookInv, registry
    <3>9. HookTypeOK'
      BY <1>1, <2>1, <3>1, <3>2, <3>6, <3>8 DEF HookTypeOK, Idle
    <3>10. Rest'
      BY <2>1, <3>1, <3>8 DEF Rest, Found
    <3>11. Outcomes' /\ Loop'
      BY <2>1, <3>1, <3>2, <3>8 DEF Outcomes, Outcome, Loop, Idle
    <3>12. Promise'
      BY <1>1, <2>1 DEF Promise
    <3> QED
      BY <3>7, <3>9, <3>10, <3>11, <3>12
  <2> QED
    BY <2>2, <2>3
<1> QED
  BY <1>2, <1>3

\* Every step of CaptureHook preserves the invariant.
LEMMA HookStep ==
  ASSUME HookInv, [HookNext]_hookVars
  PROVE  HookInv'
<1>1. CASE HookNext
  <2>1. ASSUME Write PROVE HookInv'
    <3>1. todo # <<>>
      BY <2>1 DEF Write
    <3> QED
      BY <2>1, <3>1, AtWork, InstallingStep, RollingBackStep, RemovingStep
  <2> QED
    BY <1>1, <2>1, IdleStep, LoopStep, FaultStep DEF HookNext
<1>2. CASE UNCHANGED hookVars
  BY <1>2 DEF hookVars, registry, setup, history, bounds, HookInv, HookTypeOK, Writing,
       Installing, RollingBack, Removing, Rest, Found, Outcomes, Outcome, Loop, Promise,
       Idle
<1> QED
  BY <1>1, <1>2

\* The invariant holds in every state.
LEMMA HookInvariant == HookSpec => []HookInv
BY InitHook, HookStep, PTL DEF HookSpec

\* The registrations, what is saved and the state of a run keep their types.
THEOREM HookTypeCorrect == HookSpec => []HookTypeOK
<1>1. HookInv => HookTypeOK
  BY DEF HookInv
<1> QED
  BY <1>1, HookInvariant, PTL

\* However many writes fail and however often Setup is killed, Equalizer APO at
\* the endpoint effect is nowhere else, but for a local effect recorded as its
\* own original, and Setup has not doubled the driver's effect, but for a fault
\* in the conversion of a local effect that chains it.  All that outside
\* endpoints whose catch block was cut short.
THEOREM EffectsOnce == HookSpec => []EachEffectOnce
<1>1. ASSUME HookInv PROVE EachEffectOnce
  <2> SUFFICES ASSUME Idle, NEW e \in Endpoints, e \notin halfway
               PROVE  LET r == registration[e]
                          o == original[e]
                      IN
                      /\ r.efx = "pre" =>
                            /\ r.sfx # "pre" /\ r.child # "pre"
                            /\ r.lfx = "pre" => Recursive(r)
                      /\ Doubled(r) => ChainsAtLocal(o) /\ (Doubled(o) \/ faults > 0)
    BY DEF EachEffectOnce
  <2>1. /\ current = "none" /\ e # "none" /\ faults \in Nat
        /\ active[e] \in BOOLEAN /\ Found(e) = registration[e]
    BY <1>1, RegistrationsAssumption DEF HookInv, HookTypeOK, Found
  <2> DEFINE r == registration[e]
             o == original[e]
  <2>2. Sound(r) /\ Inherits(r, o)
    BY <1>1, <2>1 DEF HookInv, Rest
  <2>3. faults = 0 /\ r.efx # "pre" => r = o
    BY <1>1, <2>1 DEF HookInv, Promise
  <2>4. ASSUME Doubled(r) PROVE ChainsAtLocal(o) /\ (Doubled(o) \/ faults > 0)
    <3>1. r.efx # "pre" /\ r.lfx = "pre" /\ r.child = "vendor"
      BY <2>2, <2>4 DEF Sound, Doubled, UsesApo
    <3> QED
      BY <2>1, <2>2, <2>3, <2>4, <3>1 DEF Inherits, ChainsAtLocal
  <2> QED
    BY <2>2, <2>4 DEF Sound
<1> QED
  BY <1>1, HookInvariant, PTL

\* However many writes fail, an installation that is not killed leaves every
\* endpoint whose catch block was not cut short as it found it, or at the
\* endpoint effect with the old registration saved.
THEOREM AllOrNothing == HookSpec => []InstallIsAllOrNothing
<1>1. ASSUME HookInv PROVE InstallIsAllOrNothing
  <2> SUFFICES ASSUME Idle, result.run = "install", result.end # "killed",
                      NEW e \in Endpoints, e \notin halfway
               PROVE  \/ registration[e] = before[e]
                      \/ /\ active[e] /\ registration[e].efx = "pre"
                         /\ UsesApo(registration[e]) => Recursive(before[e])
                         /\ \A i \in 1..Len(Changed) :
                              saved[e][Changed[i]] = before[e][Changed[i]]
    BY DEF InstallIsAllOrNothing
  <2>1. /\ current = "none" /\ e # "none" /\ before[e] \in RegistrationType
    BY <1>1, RegistrationsAssumption DEF HookInv, HookTypeOK
  <2>2. Outcome(e)
    BY <1>1, <2>1 DEF HookInv, Outcomes
  <2>3. ASSUME Keeps(saved[e], before[e], 0)
        PROVE  \A i \in 1..Len(Changed) :
                 saved[e][Changed[i]] = before[e][Changed[i]]
    <3>1. Len(Changed) = 5
      BY DEF Changed
    <3>2. /\ saved[e].lfx = before[e].lfx /\ saved[e].sfx = before[e].sfx
          /\ saved[e].efx = before[e].efx /\ saved[e].modes = before[e].modes
          /\ saved[e].child = before[e].child
      BY <2>1, <2>3, ValueTypes DEF Keeps
    <3> QED
      BY <3>1, <3>2 DEF Changed
  <2> QED
    BY <2>2, <2>3 DEF Outcome
<1> QED
  BY <1>1, HookInvariant, PTL

\* A removal that reports success has brought back on every endpoint what the
\* Device Selector left there, if nothing failed.
THEOREM RemovalRestoresAll == HookSpec => []RemovalRestores
<1>1. ASSUME HookInv PROVE RemovalRestores
  <2> SUFFICES ASSUME Idle, result = [run |-> "remove", end |-> "done"], faults = 0,
                      NEW e \in Endpoints
               PROVE  registration[e] = original[e]
    BY DEF RemovalRestores
  <2>1. current = "none" /\ e # "none"
    BY <1>1, RegistrationsAssumption DEF HookInv, HookTypeOK
  <2>2. ~active[e]
    BY <1>1 DEF HookInv, Loop
  <2> QED
    BY <1>1, <2>1, <2>2 DEF HookInv, Promise, Found
<1> QED
  BY <1>1, HookInvariant, PTL

\* No run of Setup, whatever fails in it, replaces the endpoint effect another
\* product registered.
THEOREM ForeignEffectsKept == HookSpec => ForeignEffectIsKept
<1>1. ASSUME HookInv, [HookNext]_hookVars
      PROVE  [\A e \in Endpoints :
                registration[e].efx = "foreign" /\ ~Idle
                  => registration'[e].efx = "foreign"]_hookVars
  <2> SUFFICES ASSUME HookNext, ~Idle, NEW e \in Endpoints,
                      registration[e].efx = "foreign",
                      registration' # registration
               PROVE  registration'[e].efx = "foreign"
    BY <1>1
  <2>1. Write
    BY DEF HookNext, Begin, Finish, WriteFails, Killed, InstallEndpoint, RestoreEndpoint,
         Skip, Throw, Start, DeviceSelector, DeviceChange, registry
  <2>2. todo # <<>> /\ Head(todo).store = "registration"
    BY <2>1 DEF Write
  <2>3. CASE e # current
    BY <2>1, <2>2, <2>3, WriteEffect, AtWork, <1>1 DEF HookInv, HookTypeOK
  <2>4. CASE e = current
    <3> DEFINE b == before[e]
               k == Len(todo)
               s == saved[e]
    <3>1. registration'[e] = Put(registration[e], Head(todo).name, Head(todo).value)
      BY <2>1, <2>2, <2>4, WriteEffect, AtWork, <1>1 DEF HookInv, HookTypeOK
    <3>2. /\ b \in RegistrationType /\ registration[e] \in RegistrationType
          /\ s \in SavedType /\ call \in {"install", "remove"} /\ current # "none"
      BY <1>1, <2>2, <2>4, AtWork
    <3>3. CASE call = "install"
      <4>1. Installable(b) /\ registration[e].efx \in {b.efx, "pre"}
        <5>1. CASE throwing
          BY <1>1, <2>4, <3>2, <5>1 DEF HookInv, Writing, RollingBack, RolledBack
        <5>2. CASE ~throwing
          <6>1. Installable(b) /\ k \in Nat /\ Converted(registration[e], b, k)
            BY <1>1, <2>4, <3>2, <3>3, <5>2, ValueTypes DEF HookInv, Writing, Installing
          <6> QED
            BY <3>2, <6>1, ConvertedEnds
        <5> QED
          BY <5>1, <5>2
      <4>2. b.efx \in {"none", "empty"}
        BY <4>1 DEF Installable, IsEmpty
      <4> QED
        BY <4>1, <4>2
    <3>4. CASE call = "remove"
      <4>1. /\ k \in 1..6 /\ todo = Countdown(RestorePlan(s), k) /\ b.efx = "pre"
            /\ Restored(registration[e], b, s, k)
        BY <1>1, <2>4, <3>2, <3>4 DEF HookInv, Writing, Removing
      <4>2. Head(todo) = RestorePlan(s)[k]
        <5> HIDE DEF k, s
        <5>1. k \in Nat /\ k > 0
          BY <4>1
        <5> QED
          BY <4>1, <5>1, CountdownStep
      <4>3. k # 1
        <5>1. k = 1 => RestorePlan(s)[k].store = "active"
          BY DEF RestorePlan, WriteOf
        <5> QED
          BY <2>2, <4>2, <5>1
      <4> HIDE DEF b, k, s
      <4>4. k # 6
        <5>1. ASSUME k = 6 PROVE registration[e].efx = b.efx
          BY <4>1, <5>1 DEF Restored
        <5>2. registration[e].efx = "foreign"
          OBVIOUS
        <5> QED
          BY <4>1, <5>1, <5>2
      <4>5. Restored(registration'[e], b, s, k - 1)
        <5>1. k \in 2..6
          BY <4>1, <4>3
        <5> QED
          BY <3>1, <3>2, <4>1, <4>2, <5>1, RestoreWrite
      <4> QED
        BY <4>1, <4>3, <4>4, <4>5 DEF Restored
    <3> QED
      BY <3>2, <3>3, <3>4
  <2> QED
    BY <2>3, <2>4
<1> QED
  BY <1>1, HookInvariant, PTL DEF HookSpec, ForeignEffectIsKept

-----------------------------------------------------------------------------
(* ServiceGuard.                                                            *)

Frame == [service : Services, names : SUBSET Services]

\* The outermost call is the one for Windows Audio, and a call is open as long
\* as the constructor stops services; a service is restarted from a list.
Calls ==
    /\ frames # <<>> => frames[1].service = Audio
    /\ pc \in {"stopping", "waiting"} => frames # <<>>
    /\ pc \in {"settling", "starting"} => restarts # <<>>

\* Why the constructor may trust Windows Audio alone: the service control
\* manager keeps every state consistent, so when Windows Audio is stopped
\* nothing that needs it is up.
GuardInv == GuardTypeOK /\ Consistent(state) /\ Calls

\* What a service needs includes what the services it needs need, and nothing
\* else but what it depends on directly.
LEMMA NeedsAreClosed ==
  ASSUME NEW s \in Services
  PROVE  /\ DependsOn[s] \subseteq Needs(s) /\ Needs(s) \subseteq Services
         /\ \A e \in Needs(s) : Needs(e) \subseteq Needs(s)
         /\ \A d \in Needs(s) : d \in DependsOn[s]
              \/ \E e \in DependsOn[s] : d \in Needs(e)
<1>1. /\ \A t \in Services : DependsOn[t] \subseteq Services
      /\ \A t \in Services : DependsOn[t] \subseteq Needs(t)
      /\ \A t \in Services : Needs(t) \subseteq Services
  BY DependenceAssumption DEF Needs
<1>2. \A t \in Services : \A e \in Needs(t) : DependsOn[e] \subseteq Needs(t)
  BY <1>1 DEF Needs
<1>3. ASSUME NEW e \in Needs(s), NEW d \in Needs(e) PROVE d \in Needs(s)
  <2>1. /\ Needs(s) \in SUBSET Services /\ DependsOn[e] \subseteq Needs(s)
        /\ \A f \in Needs(s) : DependsOn[f] \subseteq Needs(s)
    BY <1>1, <1>2
  <2> QED
    BY <2>1 DEF Needs
<1>4. ASSUME NEW d \in Needs(s)
      PROVE  d \in DependsOn[s] \/ \E e \in DependsOn[s] : d \in Needs(e)
  <2> DEFINE near == {x \in Services :
                        x \in DependsOn[s] \/ \E e \in DependsOn[s] : x \in Needs(e)}
  <2>1. near \in SUBSET Services /\ DependsOn[s] \subseteq near
    BY <1>1
  <2>2. \A x \in near : DependsOn[x] \subseteq near
    BY <1>1, <1>2
  <2>3. d \in near
    <3> HIDE DEF near
    <3> QED
      BY <2>1, <2>2 DEF Needs
  <2> QED
    BY <2>3
<1> QED
  BY <1>1, <1>3, <1>4

\* Nothing needs itself.
LEMMA NoCycle == \A s \in Services : s \notin Needs(s)
<1>1. Needs(Audio) = {}
  BY NeedsAreClosed, DependenceAssumption DEF Services
<1> QED
  BY <1>1, DependenceAssumption DEF Services

\* The steps of the service control manager keep its states consistent: a stop
\* that is asked for or finished, and a start that begins or is finished.
LEMMA StatesStayConsistent ==
  ASSUME NEW s \in Services, Consistent(state),
         state \in [Services -> {"stopped", "starting", "running", "stopping"}]
  PROVE  /\ FinishStop(s) \/ FinishStart(s) \/ StopControl(s)
              \/ (CanStart(s) /\ state' = Started(s))
              => Consistent(state')
         /\ Started(s) \in [Services -> {"stopped", "starting", "running", "stopping"}]
<1>1. ASSUME FinishStop(s) PROVE Consistent(state')
  BY <1>1, NoCycle, NeedsAreClosed DEF FinishStop, Consistent
<1>2. ASSUME FinishStart(s) PROVE Consistent(state')
  <2>1. /\ state[s] = "starting" /\ state' = [state EXCEPT ![s] = "running"]
        /\ \A d \in DependsOn[s] : state[d] = "running"
    BY <1>2 DEF FinishStart
  <2>2. \A d \in Needs(s) : d \in Services /\ state[d] = "running"
    <3>1. DependsOn[s] \subseteq Services
      BY DependenceAssumption
    <3> QED
      BY <2>1, <3>1, NeedsAreClosed DEF Consistent
  <2> QED
    BY <2>1, <2>2, NeedsAreClosed DEF Consistent
<1>3. ASSUME StopControl(s) PROVE Consistent(state')
  <2>1. CASE state' = state
    BY <2>1
  <2>2. CASE /\ state[s] = "running" /\ ActiveDependents(s) = {}
             /\ state' = [state EXCEPT ![s] = "stopping"]
    <3>1. \A t \in Services : s \in Needs(t) => state[t] = "stopped"
      BY <2>2 DEF ActiveDependents, NeededBy, Active
    <3> QED
      BY <2>2, <3>1, NoCycle, NeedsAreClosed DEF Consistent
  <2> QED
    BY <1>3, <2>1, <2>2 DEF StopControl
<1>4. ASSUME CanStart(s) /\ state' = Started(s) PROVE Consistent(state')
  <2>1. \A e \in Needs(s) : Needs(e) \subseteq Needs(s) /\ e \in Services
    BY NeedsAreClosed
  <2>2. \A t \in Services : state'[t] =
           IF t \in Needs(s) \union {s} /\ state[t] = "stopped" THEN "starting"
           ELSE state[t]
    BY <1>4 DEF Started
  <2>3. \A d \in Needs(s) : state[d] # "stopping"
    BY <1>4 DEF CanStart
  <2> SUFFICES ASSUME NEW t \in Services, NEW d \in Needs(t)
               PROVE  /\ state'[t] = "running" => state'[d] = "running"
                      /\ state'[t] = "starting" => state'[d] \in {"running", "starting"}
                      /\ state'[t] = "stopping" => state'[d] = "running"
    BY DEF Consistent
  <2>4. d \in Services
    BY NeedsAreClosed
  <2>5. t \in Needs(s) \union {s} => d \in Needs(s)
    BY <2>1
  <2>6. /\ state[t] = "running" => state[d] = "running"
        /\ state[t] = "starting" => state[d] \in {"running", "starting"}
        /\ state[t] = "stopping" => state[d] = "running"
    BY DEF Consistent
  <2>7. state[d] \in {"stopped", "starting", "running", "stopping"}
    BY <2>4
  <2> QED
    BY <2>2, <2>3, <2>4, <2>5, <2>6, <2>7
<1>5. Started(s) \in [Services -> {"stopped", "starting", "running", "stopping"}]
  BY DEF Started
<1> QED
  BY <1>1, <1>2, <1>3, <1>4, <1>5

\* The innermost call is closed, or one is opened in it: the outermost stays.
LEMMA CallsNest ==
  ASSUME NEW fs \in Seq(Frame), fs # <<>>
  PROVE  /\ Last(fs) \in Frame /\ (Len(fs) = 1 => Last(fs) = fs[1])
         /\ Front(fs) \in Seq(Frame)
         /\ Len(fs) # 1 => Front(fs) # <<>> /\ Front(fs)[1] = fs[1]
         /\ \A f, g \in Frame :
              /\ Append(Front(fs) \o <<f>>, g) \in Seq(Frame)
              /\ Append(Front(fs) \o <<f>>, g) # <<>>
              /\ f.service = Last(fs).service
                   => Append(Front(fs) \o <<f>>, g)[1].service = fs[1].service
<1> DEFINE n == Len(fs)
           front == Front(fs)
<1>1. n \in Nat /\ n # 0 /\ \A i \in 1..n : fs[i] \in Frame
  BY EmptySeq
<1>2. Last(fs) \in Frame /\ (n = 1 => Last(fs) = fs[1])
  BY <1>1 DEF Last
<1>3. /\ front \in Seq(Frame) /\ Len(front) = n - 1
      /\ n # 1 => front # <<>> /\ front[1] = fs[1]
  <2>1. n - 1 \in Int /\ 1 \in Int /\ \A i \in 1..(n - 1) : fs[i] \in Frame
    BY <1>1
  <2>2. /\ SubSeq(fs, 1, n - 1) \in Seq(Frame)
        /\ Len(SubSeq(fs, 1, n - 1)) = IF 1 <= n - 1 THEN (n - 1) - 1 + 1 ELSE 0
        /\ \A i \in 1..((n - 1) - 1 + 1) : SubSeq(fs, 1, n - 1)[i] = fs[1 + i - 1]
    BY <2>1, SubSeqProperties
  <2>3. /\ front \in Seq(Frame) /\ Len(front) = IF 1 <= n - 1 THEN n - 1 ELSE 0
        /\ \A i \in 1..(n - 1) : front[i] = fs[i]
    BY <1>1, <2>2 DEF Front
  <2> HIDE DEF n, front
  <2>4. n = 1 \/ 1 \in 1..(n - 1)
    BY <1>1
  <2>5. Len(front) = n - 1
    BY <1>1, <2>3
  <2>6. n # 1 => front # <<>> /\ front[1] = fs[1]
    BY <1>1, <2>3, <2>4, <2>5, EmptySeq
  <2> QED
    BY <2>3, <2>5, <2>6
<1>4. ASSUME NEW f \in Frame, NEW g \in Frame
      PROVE  /\ Append(front \o <<f>>, g) \in Seq(Frame)
             /\ Append(front \o <<f>>, g) # <<>>
             /\ f.service = Last(fs).service
                  => Append(front \o <<f>>, g)[1].service = fs[1].service
  <2> HIDE DEF front, n
  <2>1. <<f>> \in Seq(Frame) /\ Len(<<f>>) = 1 /\ <<f>>[1] = f
    OBVIOUS
  <2>2. /\ front \o <<f>> \in Seq(Frame)
        /\ Len(front \o <<f>>) = Len(front) + 1
        /\ \A i \in 1..(Len(front) + 1) : (front \o <<f>>)[i] =
              IF i <= Len(front) THEN front[i] ELSE <<f>>[i - Len(front)]
    BY <1>3, <2>1, ConcatProperties
  <2>3. /\ Append(front \o <<f>>, g) \in Seq(Frame)
        /\ Append(front \o <<f>>, g) # <<>>
        /\ Append(front \o <<f>>, g)[1] = (front \o <<f>>)[1]
    <3> DEFINE fg == front \o <<f>>
    <3>1. fg \in Seq(Frame) /\ Len(fg) \in Nat /\ 1 \in 1..Len(fg)
      BY <1>1, <1>3, <2>2
    <3> HIDE DEF fg
    <3>2. /\ Append(fg, g) \in Seq(Frame) /\ Append(fg, g) # <<>>
          /\ \A i \in 1..Len(fg) : Append(fg, g)[i] = fg[i]
      BY <3>1, AppendProperties
    <3>3. Append(fg, g)[1] = fg[1]
      BY <3>1, <3>2
    <3> QED
      BY <3>2, <3>3 DEF fg
  <2>4. CASE n = 1
    BY <1>1, <1>2, <1>3, <2>1, <2>2, <2>3, <2>4 DEF n
  <2>5. CASE n # 1
    BY <1>1, <1>3, <2>2, <2>3, <2>5
  <2> QED
    BY <2>3, <2>4, <2>5
<1> QED
  BY <1>2, <1>3, <1>4

LEMMA InitGuard == GuardInit => GuardInv
<1> SUFFICES ASSUME GuardInit PROVE GuardInv
  OBVIOUS
<1>1. /\ frames = <<>> /\ stopped = <<>> /\ restarts = <<>>
      /\ pc = "open" /\ wasRunning = FALSE /\ stopPending = FALSE
      /\ state \in [Services -> {"stopped", "starting", "running", "stopping"}]
      /\ Consistent(state)
  BY DEF GuardInit
<1>2. /\ frames \in Seq([service : Services, names : SUBSET Services])
      /\ stopped \in Seq(Dependents) /\ restarts \in Seq(Services)
  BY <1>1, EmptySeq
<1> QED
  BY <1>1, <1>2 DEF GuardInv, GuardTypeOK, Calls

\* What is restarted are services: Windows Audio, and what was stopped.
LEMMA RestartsAreServices ==
  ASSUME NEW list \in Seq(Dependents)
  PROVE  /\ Reverse(list) \in Seq(Services)
         /\ <<Audio>> \o Reverse(list) \in Seq(Services)
         /\ <<>> \o Reverse(list) \in Seq(Services)
<1>1. Reverse(list) \in Seq(Services)
  BY DEF Reverse, Services
<1>2. <<Audio>> \in Seq(Services) /\ <<>> \in Seq(Services)
  BY DEF Services
<1> QED
  BY <1>1, <1>2, ConcatProperties

\* A service that other programs or the guard start, and the states the service
\* control manager goes through.
LEMMA ScmStep ==
  ASSUME GuardInv, Scm \/ Outside
  PROVE  GuardInv' /\ pc' = pc
<1>1. /\ Consistent(state) /\ GuardTypeOK /\ Calls
      /\ state \in [Services -> {"stopped", "starting", "running", "stopping"}]
  BY DEF GuardInv, GuardTypeOK
<1>2. ASSUME NEW s \in Services, FinishStop(s) \/ FinishStart(s) \/ StartOutside(s)
      PROVE  /\ Consistent(state')
             /\ state' \in [Services -> {"stopped", "starting", "running", "stopping"}]
             /\ UNCHANGED guard
  <2>1. Consistent(state')
    BY <1>1, <1>2, StatesStayConsistent DEF StartOutside
  <2>2. state' \in [Services -> {"stopped", "starting", "running", "stopping"}]
    BY <1>1, <1>2, StatesStayConsistent DEF FinishStop, FinishStart, StartOutside
  <2>3. UNCHANGED guard
    BY <1>2 DEF FinishStop, FinishStart, StartOutside, guard
  <2> QED
    BY <2>1, <2>2, <2>3
<1>3. /\ Consistent(state') /\ UNCHANGED guard
      /\ state' \in [Services -> {"stopped", "starting", "running", "stopping"}]
  BY <1>2 DEF Scm, Outside
<1> QED
  BY <1>1, <1>3 DEF GuardInv, GuardTypeOK, Calls, guard

\* restore_services, from a constructor that throws or from the destructor.
LEMMA RestoreStep ==
  ASSUME GuardInv, Restore
  PROVE  GuardInv' /\ pc' = "restoring"
<1>1. restarts' \in Seq(Services)
  BY RestartsAreServices DEF GuardInv, GuardTypeOK, Restore
<1> QED
  BY <1>1 DEF GuardInv, GuardTypeOK, Calls, Restore

\* A step of the constructor, which returns only with every service stopped.
LEMMA ConstructorStep ==
  ASSUME GuardInv, Constructor
  PROVE  /\ GuardInv'
         /\ pc' = "holding" => \A s \in Services : state'[s] = "stopped"
<1> USE DEF GuardInv, GuardTypeOK, Calls
<1>1. /\ frames \in Seq(Frame) /\ Audio \in Services
      /\ \A s \in Services : FrameOf(s) \in Frame /\ FrameOf(s).service = s
      /\ \A list \in Seq(Dependents), d \in Dependents : Append(list, d) \in Seq(Dependents)
  BY AppendProperties DEF Frame, Services, FrameOf, ActiveDependents, NeededBy
<1>2. ASSUME state[Audio] = "stopped"
      PROVE  \A s \in Services : state[s] = "stopped"
  BY <1>2, DependenceAssumption DEF Consistent, Services
<1>3. CASE Open
  <2>1. CASE Active(Audio)
    <3>1. frames' = <<FrameOf(Audio)>> /\ pc' = "stopping"
      BY <1>3, <2>1 DEF Open
    <3>2. frames' \in Seq(Frame) /\ frames' # <<>> /\ frames'[1].service = Audio
      BY <1>1, <3>1
    <3> QED
      BY <1>3, <3>1, <3>2 DEF Open, Active, Frame
  <2>2. CASE ~Active(Audio)
    BY <1>2, <1>3, <2>2 DEF Open, Active
  <2> QED
    BY <2>1, <2>2
<1>4. CASE OpenDependent
  <2>1. PICK d \in Top.names :
          frames' = Append(Front(frames) \o <<[Top EXCEPT !.names = @ \ {d}]>>, FrameOf(d))
    BY <1>4 DEF OpenDependent
  <2> DEFINE f == [Top EXCEPT !.names = @ \ {d}]
  <2>2. Top \in Frame /\ frames # <<>>
    BY <1>1, <1>4, CallsNest DEF OpenDependent, Top
  <2>3. f \in Frame /\ f.service = Top.service /\ FrameOf(d) \in Frame
    BY <1>1, <2>2 DEF Frame
  <2>4. /\ frames' \in Seq(Frame) /\ frames' # <<>>
        /\ frames'[1].service = frames[1].service
    <3>1. frames' = Append(Front(frames) \o <<f>>, FrameOf(d))
      BY <2>1
    <3> HIDE DEF f
    <3>2. frames \in Seq(Frame) /\ frames # <<>> /\ f.service = Last(frames).service
      BY <1>1, <2>2, <2>3 DEF Top
    <3>3. \A h, g \in Frame :
            /\ Append(Front(frames) \o <<h>>, g) \in Seq(Frame)
            /\ Append(Front(frames) \o <<h>>, g) # <<>>
            /\ h.service = Last(frames).service
                 => Append(Front(frames) \o <<h>>, g)[1].service = frames[1].service
      BY <3>2, CallsNest
    <3> QED
      BY <2>3, <3>1, <3>2, <3>3
  <2>5. /\ pc' = "stopping" /\ pc = "stopping"
        /\ UNCHANGED <<state, wasRunning, stopPending, stopped, restarts>>
    BY <1>4 DEF OpenDependent
  <2> QED
    BY <2>2, <2>4, <2>5 DEF Frame
<1>5. CASE LeaveStopped
  <2>1. Len(frames) # 1
    BY <1>1, <1>5, CallsNest DEF LeaveStopped, Top
  <2>2. Front(frames) \in Seq(Frame) /\ Front(frames) # <<>> /\ Front(frames)[1] = frames[1]
    BY <1>1, <1>5, <2>1, CallsNest DEF LeaveStopped
  <2> QED
    BY <1>5, <2>2 DEF LeaveStopped, Frame
<1>6. CASE StopService
  <2>1. Top.service \in Services
    BY <1>1, <1>6, CallsNest DEF StopService, Top, Frame
  <2>2. Consistent(state')
    BY <1>6, <2>1, StatesStayConsistent DEF StopService
  <2>3. stopped' \in Seq(Dependents)
    BY <1>1, <1>6, <2>1 DEF StopService, Services
  <2>4. state' \in [Services -> {"stopped", "starting", "running", "stopping"}]
    BY <1>6, <2>1 DEF StopService, StopControl
  <2> QED
    BY <1>6, <2>2, <2>3, <2>4 DEF StopService
<1>7. CASE StopRefused
  <2>1. Top.service \in Services
    BY <1>1, <1>7, CallsNest DEF StopRefused, Top, Frame
  <2>2. stopped' \in Seq(Dependents)
    BY <1>1, <1>7, <2>1 DEF StopRefused, Services
  <2>3. restarts' \in Seq(Services)
    BY <1>7, <2>2, RestartsAreServices DEF StopRefused
  <2> QED
    BY <1>7, <2>2, <2>3 DEF StopRefused
<1>8. CASE SeeStopped
  <2>1. frames # <<>> /\ (Len(frames) = 1 => Top = frames[1])
    BY <1>1, <1>8, CallsNest DEF SeeStopped, Top
  <2>2. CASE Len(frames) = 1
    BY <1>1, <1>2, <1>8, <2>1, <2>2 DEF SeeStopped
  <2>3. CASE Len(frames) # 1
    <3>1. Front(frames) \in Seq(Frame) /\ Front(frames) # <<>> /\ Front(frames)[1] = frames[1]
      BY <1>1, <2>1, <2>3, CallsNest
    <3> QED
      BY <1>8, <2>3, <3>1 DEF SeeStopped, Frame
  <2> QED
    BY <2>2, <2>3
<1>9. CASE StopTimesOut \/ CallFails
  BY <1>9, RestoreStep DEF StopTimesOut, CallFails
<1> QED
  BY <1>3, <1>4, <1>5, <1>6, <1>7, <1>8, <1>9 DEF Constructor

\* A step of the destructor.
LEMMA DestructorStep ==
  ASSUME GuardInv, Destructor
  PROVE  GuardInv' /\ pc' # "holding"
<1> DEFINE s == Head(restarts)
<1>1. /\ state \in [Services -> {"stopped", "starting", "running", "stopping"}]
      /\ Consistent(state) /\ restarts \in Seq(Services)
  BY DEF GuardInv, GuardTypeOK
<1>2. restarts # <<>> => s \in Services /\ Tail(restarts) \in Seq(Services)
  BY <1>1, HeadTailProperties
<1>3. pc \in {"settling", "starting"} => restarts # <<>>
  BY DEF GuardInv, Calls
<1>4. ASSUME restarts # <<>>, state' = state \/ (CanStart(s) /\ state' = Started(s))
      PROVE  /\ Consistent(state')
             /\ state' \in [Services -> {"stopped", "starting", "running", "stopping"}]
  <2> HIDE DEF s
  <2> QED
    BY <1>1, <1>2, <1>4, StatesStayConsistent
<1>5. CASE Release
  BY <1>5, RestoreStep DEF Release, ThrowAndRestore
<1>6. CASE Restart \/ Settle \/ SeeRunning
  <2>1. restarts # <<>> /\ (state' = state \/ (CanStart(s) /\ state' = Started(s)))
    BY <1>3, <1>6 DEF Restart, Settle, SeeRunning
  <2>2. /\ restarts' = restarts \/ (restarts' = Tail(restarts) /\ pc' = "restoring")
        /\ pc' \in {"restoring", "settling", "starting"}
    BY <1>6 DEF Restart, Settle, SeeRunning, Following
  <2>3. UNCHANGED <<frames, wasRunning, stopPending, stopped>>
    BY <1>6 DEF Restart, Settle, SeeRunning
  <2> HIDE DEF s
  <2> QED
    BY <1>2, <1>4, <2>1, <2>2, <2>3 DEF GuardInv, GuardTypeOK, Calls
<1>7. CASE EndGuard
  BY <1>7 DEF EndGuard, GuardInv, GuardTypeOK, Calls
<1> QED
  BY <1>5, <1>6, <1>7 DEF Destructor

LEMMA GuardStep ==
  ASSUME GuardInv, [GuardNext]_guardVars
  PROVE  /\ GuardInv'
         /\ pc # "holding" /\ pc' = "holding"
              => \A s \in Services : state'[s] = "stopped"
<1>1. CASE UNCHANGED guardVars
  BY <1>1 DEF guardVars, guard, GuardInv, GuardTypeOK, Calls
<1> QED
  BY <1>1, ScmStep, ConstructorStep, DestructorStep DEF GuardNext, Done

\* The guard's data keeps its types, at any depth of stop_active_dependents: its
\* calls are for services, and what it has stopped are dependents.
THEOREM GuardTypeCorrect == GuardSpec => []GuardTypeOK
<1>1. GuardInv => GuardTypeOK
  BY DEF GuardInv
<1> QED
  BY <1>1, InitGuard, GuardStep, PTL DEF GuardSpec

\* When the constructor of the guard returns, nothing that uses the audio
\* engine is up, although it has looked at Windows Audio alone since the
\* dependents were listed, and other programs started services in between.
THEOREM FilesAreFree == GuardSpec => StoppedWhenHeld
<1>1. ASSUME GuardInv, [GuardNext]_guardVars
      PROVE  [pc # "holding" /\ pc' = "holding" =>
                \A s \in Services : state'[s] = "stopped"]_guardVars
  BY <1>1, GuardStep
<1>2. ASSUME GuardInv, [GuardNext]_guardVars PROVE GuardInv'
  BY <1>2, GuardStep
<1> QED
  BY <1>1, <1>2, InitGuard, PTL DEF GuardSpec, StoppedWhenHeld

-----------------------------------------------------------------------------
(* ServiceGuard: what restore_services still has to start.                  *)
(*                                                                          *)
(* The guard's list is what it has recorded, while it stops services, and   *)
(* what is left of that, while it restores.  A service that was up and is   *)
(* down is on the list at every moment.  A service is taken off the list    *)
(* when it runs or its wait is over, so the reason why it could be started  *)
(* matters: nothing it needs was being stopped.  A service that is being    *)
(* stopped was so before the guard began, and nothing on the list needs it; *)
(* or the constructor waits for it; or the guard has given up that wait,    *)
(* its only one, comes to this service next and waits for the rest of the   *)
(* stop.                                                                    *)

\* restore_services leaves nothing down that was up when the guard began, if the
\* guard gave up at most one wait for a service that was on its way: with two, the
\* stop that was given up first can still be under way when its service is asked
\* to start.  Starting counts as up: the last wait may end before the start does.
Up == {"starting", "running"}
UpAgainWhenDone ==
    pc = "done" /\ timeouts <= 1 =>
        \A s \in Services : initial[s] \in Up => state[s] \in Up

\* At no moment, however many waits are given up, does the guard bring up what was
\* stopped when it began: not Windows Audio, when was_running_ is false, and not
\* what the service control manager starts along with a service it restarts.
DownStaysDown ==
    \A s \in Services :
        initial[s] = "stopped" /\ s \notin startedOutside => state[s] = "stopped"

\* Where the guard is when its list is the one restore_services goes through.
Restoring == {"restoring", "settling", "starting", "done"}

\* What restore_services will restart, or has still to restart.
Listed ==
    IF pc \in Restoring THEN Range(restarts)
    ELSE Range(stopped) \union (IF wasRunning THEN {Audio} ELSE {})

\* The service whose stop the constructor waits for.
Awaited(d) == pc = "waiting" /\ Top.service = d

\* The service restore_services comes to next, Windows Audio aside.
IsNext(d) ==
    \/ /\ pc = "restoring" /\ restarts # <<>>
       /\ Head(restarts) = d
            \/ /\ Head(restarts) = Audio
               /\ Tail(restarts) # <<>> /\ Head(Tail(restarts)) = d
    \/ pc = "settling" /\ Head(restarts) = d

\* What the constructor has written down when it stops a service; at the end of
\* the guard all of it has been gone through.
WrittenDown ==
    /\ timeouts \in Nat
    /\ pc = "open" => ~wasRunning
    /\ pc = "done" => restarts = <<>>
    /\ pc \in {"stopping", "waiting"} => wasRunning
    /\ pc = "waiting" =>
         Top.service = Audio \/ (stopped # <<>> /\ Last(stopped) = Top.service)

\* A service that was up and is no longer is on the list.
DownIsListed ==
    \A s \in Services : initial[s] \in Up /\ state[s] \notin Up => s \in Listed

\* A service that is being stopped, and not waited for, either was so from the
\* start, and nothing that needs it is on the list, or the wait for it was given
\* up, and it is the next to be restarted.
Straggles(d) ==
    \/ initial[d] = "stopping" /\ \A s \in Listed : d \notin Needs(s)
    \/ timeouts = 1 /\ IsNext(d)
Stragglers ==
    \A d \in Services : state[d] = "stopping" /\ ~Awaited(d) => Straggles(d)

\* A service the guard waits for to run is on its way.
OnItsWay ==
    pc = "starting" /\ initial[Head(restarts)] \in Up => state[Head(restarts)] \in Up

RecoveryInv ==
    /\ WrittenDown
    /\ timeouts <= 1 => DownIsListed /\ Stragglers /\ OnItsWay

\* What is in a list that is joined, extended, shortened or turned round.
LEMMA ListRanges ==
  ASSUME NEW S, NEW list \in Seq(S), NEW e \in S
  PROVE  /\ Range(<<>>) = {} /\ Range(list) \subseteq S
         /\ Range(Reverse(list)) = Range(list)
         /\ Range(Append(list, e)) = Range(list) \union {e}
         /\ Last(Append(list, e)) = e /\ Append(list, e) # <<>>
         /\ list # <<>> => /\ Head(list) \in Range(list) /\ Tail(list) \in Seq(S)
                           /\ Range(list) = {Head(list)} \union Range(Tail(list))
                           /\ Reverse(list) # <<>> /\ Head(Reverse(list)) = Last(list)
<1> DEFINE n == Len(list)
<1>1. /\ n \in Nat /\ list \in [1..n -> S] /\ DOMAIN list = 1..n
      /\ Range(list) = {list[i] : i \in 1..n}
  BY LenProperties, RangeEquality
<1>2. Range(<<>>) = {} /\ Range(list) \subseteq S
  BY <1>1 DEF Range
<1>3. Range(Reverse(list)) = Range(list)
  <2> DEFINE r == Reverse(list)
  <2>1. DOMAIN r = 1..n /\ \A i \in 1..n : r[i] = list[(n - i) + 1]
    BY DEF Reverse
  <2>2. \A i \in 1..n : (n - i) + 1 \in 1..n /\ (n - ((n - i) + 1)) + 1 = i
    BY <1>1
  <2> HIDE DEF r, n
  <2>3. Range(r) = {r[i] : i \in 1..n}
    BY <2>1 DEF Range
  <2>4. \A i \in 1..n : list[i] = r[(n - i) + 1]
    BY <2>1, <2>2
  <2>5. \A x : x \in Range(r) => x \in Range(list)
    BY <1>1, <2>1, <2>2, <2>3
  <2>6. \A x : x \in Range(list) => x \in Range(r)
    BY <1>1, <2>2, <2>3, <2>4
  <2> QED
    BY <2>5, <2>6 DEF r
<1>4. /\ Range(Append(list, e)) = Range(list) \union {e}
      /\ Last(Append(list, e)) = e /\ Append(list, e) # <<>>
  <2> DEFINE a == Append(list, e)
  <2>1. /\ a \in Seq(S) /\ Len(a) = n + 1 /\ a[n + 1] = e
        /\ \A i \in 1..n : a[i] = list[i]
    BY AppendProperties
  <2> HIDE DEF a, n
  <2>2. DOMAIN a = 1..(n + 1)
    BY <2>1, LenProperties
  <2>3. Range(a) = {a[i] : i \in 1..(n + 1)}
    BY <2>2 DEF Range
  <2>4. \A i \in 1..(n + 1) : i \in 1..n \/ i = n + 1
    BY <1>1
  <2>5. \A x : x \in Range(a) <=> x \in Range(list) \/ x = e
    BY <1>1, <2>1, <2>3, <2>4
  <2>6. Last(a) = e /\ a # <<>>
    BY <1>1, <2>1, EmptySeq DEF Last
  <2> QED
    BY <2>5, <2>6 DEF a
<1>5. ASSUME list # <<>>
      PROVE  /\ Head(list) \in Range(list) /\ Tail(list) \in Seq(S)
             /\ Range(list) = {Head(list)} \union Range(Tail(list))
             /\ Reverse(list) # <<>> /\ Head(Reverse(list)) = Last(list)
  <2>1. /\ Tail(list) \in Seq(S) /\ Len(Tail(list)) = n - 1 /\ n # 0
        /\ \A i \in 1..(n - 1) : Tail(list)[i] = list[i + 1]
        /\ Head(list) = list[1]
    BY <1>5, HeadTailProperties, EmptySeq
  <2> DEFINE t == Tail(list)
  <2> HIDE DEF n, t
  <2>2. Range(t) = {t[i] : i \in 1..(n - 1)}
    BY <2>1, RangeEquality DEF t
  <2>3. \A i \in 1..n : i = 1 \/ (i - 1 \in 1..(n - 1) /\ (i - 1) + 1 = i)
    BY <1>1
  <2>4. \A i \in 1..(n - 1) : i + 1 \in 1..n
    BY <1>1
  <2>5. \A x : x \in Range(list) => x = list[1] \/ x \in Range(t)
    <3>1. ASSUME NEW i \in 1..n, i # 1 PROVE list[i] \in Range(t)
      <4>1. i - 1 \in 1..(n - 1) /\ t[i - 1] = list[(i - 1) + 1] /\ (i - 1) + 1 = i
        BY <2>1, <2>3, <3>1 DEF t
      <4> QED
        BY <2>2, <4>1
    <3> QED
      BY <1>1, <3>1
  <2>6. \A x : x = list[1] \/ x \in Range(t) => x \in Range(list)
    <3>1. 1 \in 1..n
      BY <1>1, <2>1
    <3> QED
      BY <1>1, <2>1, <2>2, <2>4, <3>1 DEF t
  <2>7. Reverse(list) # <<>> /\ Head(Reverse(list)) = Last(list)
    <3>1. Len(Reverse(list)) = n /\ Reverse(list)[1] = list[(n - 1) + 1]
      BY <1>1, <2>1 DEF Reverse, n
    <3>2. Head(Reverse(list)) = Reverse(list)[1] /\ Last(list) = list[n]
      BY DEF Last, n
    <3>3. (n - 1) + 1 = n
      BY <1>1
    <3> QED
      BY <2>1, <3>1, <3>2, <3>3, EmptySeq
  <2> QED
    BY <2>1, <2>5, <2>6, <2>7 DEF t
<1> QED
  BY <1>2, <1>3, <1>4, <1>5

\* What restore_services goes through: Windows Audio, then the dependents.
LEMMA RestartList ==
  ASSUME NEW list \in Seq(Dependents)
  PROVE  /\ Range(Reverse(list)) = Range(list)
         /\ Range(<<>> \o Reverse(list)) = Range(list)
         /\ <<Audio>> \o Reverse(list) # <<>>
         /\ Range(<<Audio>> \o Reverse(list)) = {Audio} \union Range(list)
         /\ Head(<<Audio>> \o Reverse(list)) = Audio
         /\ Tail(<<Audio>> \o Reverse(list)) = Reverse(list)
         /\ list # <<>> => /\ Reverse(list) # <<>>
                           /\ Head(Reverse(list)) = Last(list)
<1> DEFINE r == Reverse(list)
<1>1. r \in Seq(Dependents)
  BY DEF Reverse
<1>2. /\ Range(r) = Range(list)
      /\ list # <<>> => r # <<>> /\ Head(r) = Last(list)
  <2>1. CASE list = <<>>
    <3>1. r = <<>>
      BY <2>1 DEF Reverse
    <3> QED
      BY <2>1, <3>1
  <2>2. CASE list # <<>>
    <3>1. list[1] \in Dependents
      BY <2>2, EmptySeq, ElementOfSeq
    <3> QED
      BY <2>2, <3>1, ListRanges
  <2> QED
    BY <2>1, <2>2
<1> HIDE DEF r
<1>3. r \in Seq(Services) /\ <<Audio>> \in Seq(Services) /\ <<>> \in Seq(Services)
  BY <1>1 DEF Services
<1>4. Range(<<Audio>>) = {Audio} /\ Range(<<>>) = {}
  BY DEF Range
<1>5. /\ Range(<<Audio>> \o r) = {Audio} \union Range(r)
      /\ Range(<<>> \o r) = Range(r)
  <2>1. ASSUME NEW first \in Seq(Services)
        PROVE  Range(first \o r) = Range(first) \union Range(r)
    BY <1>3, RangeConcatenation
  <2>2. Range(<<Audio>> \o r) = Range(<<Audio>>) \union Range(r)
    BY <1>3, <2>1
  <2>3. Range(<<>> \o r) = Range(<<>>) \union Range(r)
    BY <1>3, <2>1
  <2> QED
    BY <1>4, <2>2, <2>3
<1>6. <<Audio>> \o r # <<>> /\ Head(<<Audio>> \o r) = Audio /\ Tail(<<Audio>> \o r) = r
  <2> DEFINE l == <<Audio>> \o r
  <2>1. Len(<<Audio>>) = 1 /\ <<Audio>>[1] = Audio
    OBVIOUS
  <2>2. PICK k \in Nat : k = Len(r)
    BY <1>3, LenProperties
  <2>3. /\ l \in Seq(Services) /\ Len(l) = 1 + k
        /\ \A i \in 1..(1 + k) : l[i] = IF i <= 1 THEN <<Audio>>[i] ELSE r[i - 1]
    BY <1>3, <2>1, <2>2, ConcatProperties
  <2> HIDE DEF l
  <2>4. l # <<>> /\ l[1] = Audio /\ Head(l) = l[1]
    BY <2>1, <2>2, <2>3, EmptySeq
  <2>5. /\ Tail(l) \in Seq(Services) /\ Len(Tail(l)) = (1 + k) - 1
        /\ \A i \in 1..Len(Tail(l)) : Tail(l)[i] = l[i + 1]
    BY <2>3, <2>4, HeadTailProperties
  <2>6. \A i \in 1..k : Tail(l)[i] = r[i]
    <3>1. ASSUME NEW i \in 1..k PROVE Tail(l)[i] = r[i]
      <4>1. i + 1 \in 1..(1 + k) /\ ~(i + 1 <= 1) /\ (i + 1) - 1 = i /\ Len(Tail(l)) = k
        BY <2>2, <2>5
      <4> QED
        BY <2>3, <2>5, <4>1
    <3> QED
      BY <3>1
  <2>7. Len(Tail(l)) = k
    BY <2>2, <2>5
  <2>8. Tail(l) = r
    BY <1>3, <2>2, <2>5, <2>6, <2>7, SeqEqual
  <2> QED
    BY <2>4, <2>8 DEF l
<1> QED
  BY <1>2, <1>5, <1>6 DEF r

\* The services that may be up: those that were not stopped when the guard
\* began, and those other programs started.
Known == {s \in Services : initial[s] # "stopped"} \union startedOutside

\* What a known service needs is known, and the guard lists and finds active no
\* other services; Windows Audio is stopped only if it was active.
KnownInv ==
    /\ initial \in [Services -> {"stopped", "starting", "running", "stopping"}]
    /\ startedOutside \subseteq Services
    /\ \A s \in Known : Needs(s) \subseteq Known
    /\ \A s \in Services : state[s] # "stopped" => s \in Known
    /\ Range(stopped) \union Range(restarts) \subseteq Known
    /\ wasRunning => Audio \in Known
    /\ pc \in {"stopping", "waiting"} => wasRunning

\* The states when the guard begins are consistent: what is up has what it needs.
LEMMA InitKnown == GuardInit => KnownInv
<1> SUFFICES ASSUME GuardInit PROVE KnownInv
  OBVIOUS
<1>1. \A s \in Known : Needs(s) \subseteq Known
  BY NeedsAreClosed DEF GuardInit, Known, Consistent
<1>2. Range(stopped) = {} /\ Range(restarts) = {}
  BY DEF GuardInit, Range
<1>3. \A s \in Services : state[s] # "stopped" => s \in Known
  BY DEF GuardInit, Known
<1> QED
  BY <1>1, <1>2, <1>3 DEF GuardInit, KnownInv

\* Other programs make known what they start, with all it needs.
LEMMA OutsideKnown ==
  ASSUME GuardInv, KnownInv, NEW s \in Services, StartOutside(s)
  PROVE  KnownInv'
<1> DEFINE new == {d \in Services : state'[d] # state[d]}
<1>1. /\ Known' = Known \union new /\ startedOutside' \subseteq Services
      /\ initial' = initial /\ UNCHANGED guard
  BY DEF StartOutside, KnownInv, Known
<1>2. \A d \in Services : state'[d] = IF d \in Needs(s) \union {s} /\ state[d] = "stopped"
                                      THEN "starting" ELSE state[d]
  BY DEF StartOutside, Started
<1>3. /\ \A d \in new : d \in Needs(s) \union {s}
      /\ \A d \in Needs(s) \union {s} : d \in Known \union new
  BY <1>2, NeedsAreClosed DEF KnownInv
<1>4. \A d \in Known' : Needs(d) \subseteq Known'
  <2>1. ASSUME NEW d \in new PROVE Needs(d) \subseteq Known \union new
    BY <1>3, <2>1, NeedsAreClosed
  <2> HIDE DEF new
  <2> QED
    BY <1>1, <2>1 DEF KnownInv
<1>5. \A d \in Services : state'[d] # "stopped" => d \in Known'
  BY <1>1 DEF KnownInv
<1> HIDE DEF new
<1> QED
  BY <1>1, <1>4, <1>5 DEF KnownInv, guard

\* What is restored is known.
LEMMA RestoreKnown ==
  ASSUME NEW list \in Seq(Dependents), Range(list) \subseteq Known,
         wasRunning => Audio \in Known
  PROVE  /\ Range((IF wasRunning THEN <<Audio>> ELSE <<>>) \o Reverse(list)) \subseteq Known
         /\ wasRunning => Range(<<Audio>> \o Reverse(list)) \subseteq Known
<1>1. CASE wasRunning
  BY <1>1, RestartList
<1>2. CASE ~wasRunning
  BY <1>2, RestartList
<1> QED
  BY <1>1, <1>2

\* The guard records and restarts known services only.
LEMMA KnownStep ==
  ASSUME GuardInv, KnownInv, [GuardNext]_guardVars
  PROVE  KnownInv'
<1>1. /\ stopped \in Seq(Dependents) /\ restarts \in Seq(Services)
      /\ frames \in Seq(Frame) /\ Audio \in Services
      /\ state \in [Services -> {"stopped", "starting", "running", "stopping"}]
  BY DEF GuardInv, GuardTypeOK, Frame, Services
<1>2. ASSUME UNCHANGED <<initial, startedOutside>>
      PROVE  Known' = Known
  BY <1>2 DEF Known
<1>3. ASSUME NEW d \in Dependents, state[d] # "stopped"
      PROVE  /\ Append(stopped, d) \in Seq(Dependents)
             /\ Range(Append(stopped, d)) \subseteq Known
  <2>1. d \in Known /\ Range(stopped) \subseteq Known
    BY <1>3 DEF KnownInv, Services
  <2> QED
    BY <1>1, <2>1, ListRanges, AppendProperties
<1>4. ASSUME pc \in {"stopping", "waiting"} PROVE Top.service \in Services
  BY <1>1, <1>4, CallsNest DEF GuardInv, Calls, Top, Frame
<1>5. CASE Scm
  BY <1>1, <1>2, <1>5 DEF Scm, FinishStop, FinishStart, KnownInv, guard, guardHistory
<1>6. CASE Outside
  BY <1>6, OutsideKnown DEF Outside
<1>7. CASE Restore
  BY <1>1, <1>2, <1>7, RestoreKnown DEF Restore, KnownInv, guardHistory
<1>8. CASE Open \/ OpenDependent \/ LeaveStopped \/ SeeStopped \/ EndGuard
  <2>1. Range(<<>>) = {}
    BY DEF Range
  <2>2. CASE Open
    BY <1>1, <1>2, <2>2 DEF Open, Active, KnownInv, guardHistory
  <2>3. CASE OpenDependent \/ LeaveStopped \/ SeeStopped
    BY <1>2, <2>3 DEF OpenDependent, LeaveStopped, SeeStopped, KnownInv, guardHistory
  <2>4. CASE EndGuard
    BY <1>2, <2>1, <2>4 DEF EndGuard, KnownInv, guardHistory
  <2> QED
    BY <1>8, <2>2, <2>3, <2>4
<1>9. CASE StopService
  <2> DEFINE s == Top.service
  <2>1. s \in Services
    BY <1>4, <1>9 DEF StopService
  <2>2. /\ UNCHANGED <<restarts, wasRunning, initial, startedOutside>> /\ wasRunning
        /\ pc' = "waiting"
    BY <1>9 DEF StopService, KnownInv, guardHistory
  <2>3. Range(stopped') \subseteq Known
    BY <1>3, <1>9, <2>1 DEF StopService, Services, KnownInv
  <2>4. \A d \in Services : state'[d] # "stopped" => state[d] # "stopped"
    BY <1>1, <1>9, <2>1 DEF StopService, StopControl
  <2> HIDE DEF s
  <2> QED
    BY <1>2, <2>2, <2>3, <2>4 DEF KnownInv
<1>10. CASE StopRefused
  <2> DEFINE s == Top.service
             recorded == IF s = Audio THEN stopped ELSE Append(stopped, s)
  <2>1. s \in Services /\ state[s] # "stopped"
    BY <1>4, <1>10 DEF StopRefused, Refuses
  <2>2. recorded \in Seq(Dependents) /\ Range(recorded) \subseteq Known
    BY <1>1, <1>3, <2>1 DEF Services, KnownInv
  <2>3. /\ stopped' = recorded /\ restarts' = <<Audio>> \o Reverse(recorded)
        /\ UNCHANGED <<state, wasRunning, initial, startedOutside>> /\ wasRunning
        /\ pc' = "restoring"
    BY <1>10 DEF StopRefused, KnownInv, guardHistory
  <2> HIDE DEF recorded
  <2>4. Range(restarts') \subseteq Known
    BY <2>2, <2>3, RestoreKnown DEF KnownInv
  <2> QED
    BY <1>2, <2>2, <2>3, <2>4 DEF KnownInv
<1>11. CASE Restart \/ Settle \/ SeeRunning
  <2> DEFINE s == Head(restarts)
  <2>1. restarts # <<>> /\ (state' = state \/ (CanStart(s) /\ state' = Started(s)))
    BY <1>11 DEF Restart, Settle, SeeRunning, GuardInv, Calls
  <2>2. /\ restarts' = restarts \/ restarts' = Tail(restarts)
        /\ pc' \in {"restoring", "settling", "starting"}
        /\ UNCHANGED <<wasRunning, stopped, initial, startedOutside>>
    BY <1>11 DEF Restart, Settle, SeeRunning, Following, guardHistory
  <2>3. s \in Services /\ s \in Known /\ Range(Tail(restarts)) \subseteq Range(restarts)
    BY <1>1, <2>1, ListRanges DEF KnownInv
  <2> HIDE DEF s
  <2>4. \A d \in Services : state'[d] # "stopped" => d \in Known
    BY <1>1, <2>1, <2>3 DEF Started, KnownInv
  <2> QED
    BY <1>2, <2>2, <2>3, <2>4 DEF KnownInv
<1>12. CASE UNCHANGED guardVars
  BY <1>2, <1>12 DEF guardVars, guard, guardHistory, KnownInv
<1> QED
  BY <1>5, <1>6, <1>7, <1>8, <1>9, <1>10, <1>11, <1>12
     DEF GuardNext, Constructor, Destructor, Done, StopTimesOut, CallFails,
         Release, ThrowAndRestore

\* The guard brings nothing up that was stopped when it began, whatever it
\* starts along with the services it restarts.
THEOREM StaysDown == GuardSpec => []DownStaysDown
<1>1. KnownInv => DownStaysDown
  BY DEF KnownInv, Known, DownStaysDown
<1>2. GuardInit => GuardInv /\ KnownInv
  BY InitGuard, InitKnown
<1>3. GuardInv /\ KnownInv /\ [GuardNext]_guardVars => (GuardInv /\ KnownInv)'
  BY GuardStep, KnownStep
<1> QED
  BY <1>1, <1>2, <1>3, PTL DEF GuardSpec

\* When the guard begins nothing has changed, and nothing is on its list.
LEMMA InitRecovery == GuardInit => RecoveryInv
<1> SUFFICES ASSUME GuardInit PROVE RecoveryInv
  OBVIOUS
<1>1. /\ pc = "open" /\ stopped = <<>> /\ wasRunning = FALSE /\ timeouts = 0
      /\ initial = state
  BY DEF GuardInit
<1>2. Listed = {}
  BY <1>1 DEF Listed, Restoring, Range
<1> QED
  BY <1>1, <1>2 DEF RecoveryInv, WrittenDown, DownIsListed, Stragglers, Straggles,
                    OnItsWay, Up

\* The service control manager finishes stops and starts, and other programs
\* start services; neither stops anything.
LEMMA CalmStep ==
  ASSUME GuardInv, RecoveryInv, Scm \/ Outside \/ UNCHANGED guardVars
  PROVE  RecoveryInv'
<1>1. state \in [Services -> {"stopped", "starting", "running", "stopping"}]
  BY DEF GuardInv, GuardTypeOK
<1>2. UNCHANGED <<guard, timeouts, initial>>
  BY DEF Scm, Outside, FinishStop, FinishStart, StartOutside, guardVars, guardBounds,
         guardHistory
<1>3. ASSUME NEW d \in Services
      PROVE  /\ state[d] \in Up => state'[d] \in Up
             /\ state'[d] = "stopping" => state[d] = "stopping"
  <2>1. CASE Scm
    BY <1>1, <2>1 DEF Scm, FinishStop, FinishStart, Up
  <2>2. CASE Outside
    BY <1>1, <2>2 DEF Outside, StartOutside, Started, Up
  <2>3. CASE UNCHANGED guardVars
    BY <2>3 DEF guardVars
  <2> QED
    BY <2>1, <2>2, <2>3
<1>4. /\ Listed' = Listed /\ \A d : Awaited(d)' = Awaited(d) /\ IsNext(d)' = IsNext(d)
      /\ WrittenDown' = WrittenDown
  BY <1>2 DEF guard, Listed, Awaited, Top, IsNext, WrittenDown
<1>5. timeouts \in Nat /\ WrittenDown
  BY DEF RecoveryInv, WrittenDown
<1>6. ASSUME timeouts <= 1 PROVE DownIsListed' /\ Stragglers'
  BY <1>2, <1>3, <1>4, <1>6 DEF RecoveryInv, DownIsListed, Stragglers, Straggles
<1>7. ASSUME timeouts <= 1 PROVE OnItsWay'
  <2>1. restarts # <<>> /\ pc = "starting" => Head(restarts) \in Services
    BY HeadTailProperties DEF GuardInv, GuardTypeOK
  <2>2. pc = "starting" => restarts # <<>>
    BY DEF GuardInv, Calls
  <2> QED
    BY <1>2, <1>3, <1>7, <2>1, <2>2 DEF RecoveryInv, OnItsWay, guard
<1> QED
  BY <1>2, <1>4, <1>5, <1>6, <1>7 DEF RecoveryInv

\* A step of the constructor that asks nothing to stop: the list grows at most by
\* services that need nothing that is being stopped, and a service that is no
\* longer waited for has stopped, or is the next to be restarted.
LEMMA QuietStep ==
  ASSUME GuardInv, RecoveryInv, WrittenDown', UNCHANGED <<state, initial>>,
         pc \notin Restoring, pc' \notin {"waiting", "starting"}, timeouts <= timeouts',
         Listed \subseteq Listed',
         \A s \in Listed' \ Listed : \A d \in Needs(s) : state[d] # "stopping",
         \A d : Awaited(d) /\ state[d] = "stopping" /\ timeouts' <= 1
                  => timeouts' = 1 /\ IsNext(d)'
  PROVE  RecoveryInv'
<1>1. timeouts \in Nat /\ timeouts' \in Nat
  BY DEF RecoveryInv, WrittenDown
<1>2. ASSUME timeouts' <= 1 PROVE DownIsListed' /\ Stragglers' /\ OnItsWay'
  <2>1. DownIsListed /\ Stragglers
    BY <1>1, <1>2 DEF RecoveryInv
  <2>2. DownIsListed' /\ OnItsWay'
    BY <2>1 DEF DownIsListed, OnItsWay
  <2>3. ASSUME NEW d \in Services, state[d] = "stopping" PROVE Straggles(d)'
    <3>1. CASE Awaited(d)
      BY <1>2, <2>3, <3>1 DEF Straggles
    <3>2. CASE ~Awaited(d)
      <4>1. ~IsNext(d)
        BY DEF IsNext, Restoring
      <4>2. initial[d] = "stopping" /\ \A s \in Listed : d \notin Needs(s)
        BY <2>1, <2>3, <3>2, <4>1 DEF Stragglers, Straggles
      <4> QED
        BY <2>3, <4>2 DEF Straggles
    <3> QED
      BY <3>1, <3>2
  <2> QED
    BY <2>2, <2>3 DEF Stragglers
<1> QED
  BY <1>2 DEF RecoveryInv

\* A service that is up or being stopped needs nothing that is being stopped.
LEMMA NeedsNoStopping ==
  ASSUME GuardInv, NEW s \in Services, state[s] # "stopped" \/ s = Audio
  PROVE  \A d \in Needs(s) : state[d] # "stopping"
<1>1. Needs(Audio) = {} /\ Needs(s) \subseteq Services /\ Consistent(state)
  BY NeedsAreClosed, DependenceAssumption DEF Services, GuardInv
<1>2. state[s] \in {"stopped", "starting", "running", "stopping"}
  BY DEF GuardInv, GuardTypeOK
<1> QED
  BY <1>1, <1>2 DEF Consistent

\* restore_services is entered: the list is what it was, and Windows Audio or the
\* service recorded last comes first on it.
LEMMA RestoreList ==
  ASSUME GuardInv, WrittenDown, Restore, pc \notin Restoring, timeouts' \in Nat
  PROVE  /\ Listed' = Listed /\ WrittenDown'
         /\ \A d : Awaited(d) => IsNext(d)'
<1>1. /\ stopped \in Seq(Dependents) /\ pc' = "restoring"
      /\ restarts' = (IF wasRunning THEN <<Audio>> ELSE <<>>) \o Reverse(stopped)
  BY DEF GuardInv, GuardTypeOK, Restore
<1>2. Listed' = Range(restarts')
  BY <1>1 DEF Listed, Restoring
<1>3. Listed = Range(stopped) \union (IF wasRunning THEN {Audio} ELSE {})
  BY DEF Listed
<1>4. Listed' = Listed
  <2>1. CASE wasRunning
    BY <1>1, <1>2, <1>3, <2>1, RestartList
  <2>2. CASE ~wasRunning
    BY <1>1, <1>2, <1>3, <2>2, RestartList
  <2> QED
    BY <2>1, <2>2
<1>5. ASSUME NEW d, Awaited(d) PROVE IsNext(d)'
  <2>1. pc = "waiting" /\ Top.service = d /\ wasRunning
    BY <1>5 DEF Awaited, WrittenDown
  <2>2. restarts' = <<Audio>> \o Reverse(stopped)
    BY <1>1, <2>1
  <2>3. restarts' # <<>> /\ Head(restarts') = Audio /\ Tail(restarts') = Reverse(stopped)
    BY <1>1, <2>2, RestartList
  <2>4. CASE d = Audio
    BY <1>1, <2>3, <2>4 DEF IsNext
  <2>5. CASE d # Audio
    <3>1. stopped # <<>> /\ Last(stopped) = d
      BY <2>1, <2>5 DEF WrittenDown
    <3>2. Reverse(stopped) # <<>> /\ Head(Reverse(stopped)) = d
      BY <1>1, <3>1, RestartList
    <3> QED
      BY <1>1, <2>3, <3>2 DEF IsNext
  <2> QED
    BY <2>4, <2>5
<1>6. WrittenDown'
  BY <1>1 DEF WrittenDown
<1> QED
  BY <1>4, <1>5, <1>6

\* A step of the constructor.
LEMMA ConstructorRecords ==
  ASSUME GuardInv, RecoveryInv, Constructor \/ Release
  PROVE  RecoveryInv'
<1>1. /\ stopped \in Seq(Dependents) /\ frames \in Seq(Frame) /\ Audio \in Services
      /\ state \in [Services -> {"stopped", "starting", "running", "stopping"}]
  BY DEF GuardInv, GuardTypeOK, Frame, Services
<1>2. timeouts \in Nat /\ WrittenDown
  BY DEF RecoveryInv, WrittenDown
<1>3. ASSUME pc \in {"stopping", "waiting"} PROVE Top.service \in Services
  BY <1>1, <1>3, CallsNest DEF GuardInv, Calls, Top, Frame
<1>4. CASE Open
  <2>1. /\ pc = "open" /\ pc' \in {"stopping", "holding"} /\ ~wasRunning
        /\ wasRunning' = Active(Audio) /\ (pc' = "stopping" => wasRunning')
        /\ UNCHANGED <<state, initial, stopped, timeouts>>
    BY <1>2, <1>4 DEF Open, WrittenDown, guardBounds, guardHistory
  <2>2. /\ Listed \subseteq Listed' /\ Listed' \ Listed \subseteq {Audio}
    BY <2>1 DEF Listed, Restoring
  <2>3. \A s \in Listed' \ Listed : \A d \in Needs(s) : state[d] # "stopping"
    BY <1>1, <2>2, NeedsNoStopping
  <2>4. WrittenDown'
    BY <1>2, <2>1 DEF WrittenDown
  <2> QED
    BY <1>2, <2>1, <2>2, <2>3, <2>4, QuietStep DEF Restoring, Awaited
<1>5. CASE OpenDependent \/ LeaveStopped
  <2>1. /\ pc = "stopping" /\ pc' = "stopping"
        /\ UNCHANGED <<state, initial, stopped, timeouts, wasRunning>>
    BY <1>5 DEF OpenDependent, LeaveStopped, guardBounds, guardHistory
  <2>2. Listed' = Listed /\ WrittenDown'
    BY <1>2, <2>1 DEF Listed, Restoring, WrittenDown
  <2> QED
    BY <1>2, <2>1, <2>2, QuietStep DEF Restoring, Awaited
<1>6. CASE SeeStopped
  <2>1. /\ pc = "waiting" /\ pc' \in {"holding", "stopping"} /\ state[Top.service] = "stopped"
        /\ UNCHANGED <<state, initial, stopped, timeouts, wasRunning>>
    BY <1>6 DEF SeeStopped, guardBounds, guardHistory
  <2>2. Listed' = Listed /\ WrittenDown'
    BY <1>2, <2>1 DEF Listed, Restoring, WrittenDown
  <2>3. \A d : Awaited(d) => state[d] # "stopping"
    BY <2>1 DEF Awaited
  <2> QED
    BY <1>2, <2>1, <2>2, <2>3, QuietStep DEF Restoring
<1>7. CASE StopTimesOut
  <2>1. /\ pc = "waiting" /\ pc' = "restoring" /\ Restore
        /\ GivesUp(Top.service, "stopping")
        /\ UNCHANGED <<state, initial>>
    BY <1>7 DEF StopTimesOut, Restore, guardHistory
  <2>2. /\ timeouts' \in Nat /\ timeouts <= timeouts'
        /\ state[Top.service] = "stopping" => timeouts' = timeouts + 1
    BY <1>2, <2>1 DEF GivesUp
  <2>3. /\ Listed' = Listed /\ WrittenDown'
        /\ \A d : Awaited(d) => IsNext(d)'
    BY <1>2, <2>1, <2>2, RestoreList DEF Restoring
  <2>4. \A d : Awaited(d) /\ state[d] = "stopping" /\ timeouts' <= 1
                 => timeouts' = 1 /\ IsNext(d)'
    BY <1>2, <2>2, <2>3 DEF Awaited
  <2> QED
    BY <2>1, <2>2, <2>3, <2>4, QuietStep DEF Restoring
<1>8. CASE CallFails \/ Release
  <2>1. /\ pc \in {"open", "stopping", "holding"} /\ pc' = "restoring" /\ Restore
        /\ UNCHANGED <<state, initial, timeouts>>
    BY <1>8 DEF CallFails, Release, ThrowAndRestore, Restore, guardHistory, guardBounds
  <2>2. Listed' = Listed /\ WrittenDown'
    BY <1>2, <2>1, RestoreList DEF Restoring
  <2> QED
    BY <1>2, <2>1, <2>2, QuietStep DEF Restoring, Awaited
<1>9. CASE StopRefused
  <2> DEFINE s == Top.service
             recorded == IF s = Audio THEN stopped ELSE Append(stopped, s)
  <2>1. /\ pc = "stopping" /\ pc' = "restoring" /\ wasRunning /\ state[s] # "stopped"
        /\ restarts' = <<Audio>> \o Reverse(recorded)
        /\ UNCHANGED <<state, initial, timeouts>>
    BY <1>2, <1>9 DEF StopRefused, Refuses, WrittenDown, guardHistory, guardBounds
  <2>2. s \in Services
    BY <1>3, <2>1
  <2>3. /\ recorded \in Seq(Dependents)
        /\ Range(recorded) = Range(stopped) \union (IF s = Audio THEN {} ELSE {s})
    <3>1. CASE s = Audio
      BY <1>1, <3>1
    <3>2. CASE s # Audio
      <4>1. s \in Dependents
        BY <2>2, <3>2 DEF Services
      <4> HIDE DEF s
      <4> QED
        BY <1>1, <3>2, <4>1, ListRanges, AppendProperties
    <3> QED
      BY <3>1, <3>2
  <2> HIDE DEF recorded, s
  <2>4. Listed' = {Audio} \union Range(recorded)
    BY <2>1, <2>3, RestartList DEF Listed, Restoring
  <2>5. Listed = {Audio} \union Range(stopped)
    BY <2>1 DEF Listed, Restoring
  <2>6. Listed \subseteq Listed' /\ Listed' \ Listed \subseteq {s}
    BY <2>3, <2>4, <2>5
  <2>7. \A t \in Listed' \ Listed : \A d \in Needs(t) : state[d] # "stopping"
    BY <2>1, <2>2, <2>6, NeedsNoStopping
  <2>8. WrittenDown'
    BY <1>2, <2>1 DEF WrittenDown
  <2> QED
    BY <1>2, <2>1, <2>6, <2>7, <2>8, QuietStep DEF Restoring, Awaited
<1>10. CASE StopService
  <2> DEFINE s == Top.service
  <2>1. /\ pc = "stopping" /\ pc' = "waiting" /\ wasRunning /\ Top' = Top
        /\ UNCHANGED <<initial, timeouts, wasRunning>>
    BY <1>2, <1>10 DEF StopService, WrittenDown, guardHistory, guardBounds, Top
  <2>2. s \in Services
    BY <1>3, <2>1
  <2>3. \A d \in Services : d # s => state'[d] = state[d]
    BY <1>1, <1>10, <2>2 DEF StopService, StopControl
  <2>4. /\ s # Audio => stopped' # <<>> /\ Last(stopped') = s
        /\ Range(stopped') = Range(stopped) \union (IF s = Audio THEN {} ELSE {s})
        /\ s = Audio \/ state[s] # "stopped"
    <3>1. CASE s = Audio
      BY <1>10, <3>1 DEF StopService
    <3>2. CASE s # Audio
      <4>1. s \in Dependents
        BY <2>2, <3>2 DEF Services
      <4>2. stopped' = Append(stopped, s) /\ state[s] # "stopped"
        BY <1>10, <3>2 DEF StopService
      <4> HIDE DEF s
      <4> QED
        BY <1>1, <3>2, <4>1, <4>2, ListRanges
    <3> QED
      BY <3>1, <3>2
  <2>5. WrittenDown'
    BY <1>2, <2>1, <2>4 DEF WrittenDown
  <2> HIDE DEF s
  <2>6. Listed' = Listed \union {s} /\ s \in Listed'
    BY <2>1, <2>4 DEF Listed, Restoring
  <2>7. ASSUME timeouts <= 1 PROVE DownIsListed'
    BY <2>1, <2>3, <2>6, <2>7 DEF RecoveryInv, DownIsListed
  <2>8. ASSUME timeouts <= 1 PROVE Stragglers'
    <3>1. SUFFICES ASSUME NEW d \in Services, state'[d] = "stopping", ~Awaited(d)'
                   PROVE  Straggles(d)'
      BY DEF Stragglers
    <3>2. d # s
      BY <2>1, <3>1 DEF Awaited, s
    <3>3. state[d] = "stopping" /\ ~Awaited(d) /\ ~IsNext(d)
      BY <2>1, <2>3, <3>1, <3>2 DEF Awaited, IsNext
    <3>4. initial[d] = "stopping" /\ \A t \in Listed : d \notin Needs(t)
      BY <2>8, <3>3 DEF RecoveryInv, Stragglers, Straggles
    <3>5. d \notin Needs(s)
      BY <2>2, <2>4, <3>3, NeedsNoStopping
    <3> QED
      BY <2>1, <2>6, <3>4, <3>5 DEF Straggles
  <2>9. OnItsWay'
    BY <2>1 DEF OnItsWay
  <2> QED
    BY <2>1, <2>5, <2>7, <2>8, <2>9 DEF RecoveryInv
<1> QED
  BY <1>4, <1>5, <1>6, <1>7, <1>8, <1>9, <1>10 DEF Constructor

\* Where restore_services restarts a service, nothing keeps it from starting, and
\* of what is being stopped nothing is needed by a service on the list, but for
\* the service whose wait was given up.
LEMMA NothingBlocks ==
  ASSUME GuardInv, RecoveryInv, timeouts <= 1, pc \in {"restoring", "settling"},
         restarts # <<>>
  PROVE  /\ state[Head(restarts)] = "stopped" => CanStart(Head(restarts))
         /\ \A d \in Services : state[d] = "stopping" =>
              \/ initial[d] = "stopping" /\ \A s \in Listed : d \notin Needs(s)
              \/ timeouts = 1 /\ d = Head(restarts)
              \/ /\ timeouts = 1 /\ pc = "restoring" /\ Head(restarts) = Audio
                 /\ state[Audio] = "running"
                 /\ Tail(restarts) # <<>> /\ Head(Tail(restarts)) = d
<1> DEFINE s == Head(restarts)
<1>1. /\ restarts \in Seq(Services) /\ s \in Services /\ s \in Range(restarts)
      /\ Consistent(state) /\ Stragglers /\ Audio \in Services
  BY ListRanges, HeadTailProperties DEF GuardInv, GuardTypeOK, RecoveryInv, Services
<1>2. s \in Listed
  BY <1>1 DEF Listed, Restoring
<1> HIDE DEF s
<1>3. ASSUME NEW d \in Services, state[d] = "stopping"
      PROVE  \/ initial[d] = "stopping" /\ \A t \in Listed : d \notin Needs(t)
             \/ timeouts = 1 /\ d = s
             \/ /\ timeouts = 1 /\ pc = "restoring" /\ s = Audio
                /\ state[Audio] = "running"
                /\ Tail(restarts) # <<>> /\ Head(Tail(restarts)) = d
  <2>1. Straggles(d)
    BY <1>1, <1>3 DEF Stragglers, Awaited
  <2>2. d # Audio => state[Audio] = "running"
    BY <1>1, <1>3, DependenceAssumption DEF Consistent, Services
  <2> QED
    BY <2>1, <2>2 DEF Straggles, IsNext, s
<1>4. ASSUME state[s] = "stopped" PROVE CanStart(s)
  <2>1. ASSUME NEW d \in Needs(s), state[d] = "stopping" PROVE FALSE
    <3>1. d \in Services /\ d # s /\ s # Audio
      BY <1>1, <2>1, NeedsAreClosed, NoCycle, DependenceAssumption
    <3> QED
      BY <1>2, <1>3, <2>1, <3>1
  <2> QED
    BY <1>4, <2>1 DEF CanStart
<1> QED
  BY <1>3, <1>4 DEF s

\* A step of restore_services.
LEMMA DestructorRecovers ==
  ASSUME GuardInv, RecoveryInv, Restart \/ Settle \/ SeeRunning \/ EndGuard
  PROVE  RecoveryInv'
<1> DEFINE s == Head(restarts)
<1>1. /\ state \in [Services -> {"stopped", "starting", "running", "stopping"}]
      /\ restarts \in Seq(Services) /\ timeouts \in Nat /\ WrittenDown
      /\ pc \in {"settling", "starting"} => restarts # <<>>
  BY DEF GuardInv, GuardTypeOK, Calls, RecoveryInv, WrittenDown
<1>2. /\ pc \in {"restoring", "settling", "starting"}
      /\ pc' \in {"restoring", "settling", "starting", "done"}
      /\ initial' = initial /\ timeouts <= timeouts' /\ timeouts' \in Nat
  BY <1>1 DEF Restart, Settle, SeeRunning, EndGuard, Following, GivesUp, guardHistory,
              guardBounds
<1>3. Listed = Range(restarts) /\ Listed' = Range(restarts') /\ WrittenDown'
  <2>1. pc' = "done" => restarts' = <<>>
    BY DEF Restart, Settle, SeeRunning, EndGuard, Following
  <2> QED
    BY <1>1, <1>2, <2>1 DEF Listed, Restoring, WrittenDown
<1>4. \A d : ~Awaited(d) /\ ~Awaited(d)'
  BY <1>2 DEF Awaited
<1>5. ASSUME restarts # <<>>
      PROVE  /\ s \in Services /\ Tail(restarts) \in Seq(Services)
             /\ Listed = {s} \union Range(Tail(restarts))
  BY <1>1, <1>3, <1>5, ListRanges, HeadTailProperties
<1>6. SUFFICES ASSUME timeouts' <= 1 PROVE DownIsListed' /\ Stragglers' /\ OnItsWay'
  BY <1>3 DEF RecoveryInv
<1>7. timeouts <= 1 /\ DownIsListed /\ Stragglers /\ OnItsWay
  BY <1>1, <1>2, <1>6 DEF RecoveryInv
<1> HIDE DEF s
\* The next service is come to, the one before it is up or was not.
<1>8. ASSUME restarts # <<>>, Following, state' = state,
             initial[s] \in Up => state[s] \in Up,
             \A d \in Services : state[d] = "stopping" =>
               \/ initial[d] = "stopping" /\ \A t \in Listed : d \notin Needs(t)
               \/ timeouts' = 1 /\ Tail(restarts) # <<>> /\ Head(Tail(restarts)) = d
      PROVE  DownIsListed' /\ Stragglers' /\ OnItsWay'
  <2>1. restarts' = Tail(restarts) /\ pc' = "restoring"
    BY <1>8 DEF Following
  <2>2. Listed' \subseteq Listed /\ \A d \in Listed : d = s \/ d \in Listed'
    BY <1>3, <1>5, <1>8, <2>1
  <2>3. DownIsListed'
    BY <1>2, <1>7, <1>8, <2>2 DEF DownIsListed
  <2>4. Stragglers'
    BY <1>2, <1>8, <2>1, <2>2 DEF Stragglers, Straggles, IsNext
  <2> QED
    BY <2>1, <2>3, <2>4 DEF OnItsWay
\* The service is started, or is on its way already.
<1>9. ASSUME restarts # <<>>, pc' = "starting", restarts' = restarts,
             state' = state \/ (CanStart(s) /\ state' = Started(s)),
             initial[s] \in Up => state'[s] \in Up,
             \A d \in Services : state[d] = "stopping" =>
               initial[d] = "stopping" /\ \A t \in Listed : d \notin Needs(t)
      PROVE  DownIsListed' /\ Stragglers' /\ OnItsWay'
  <2>1. Listed' = Listed
    BY <1>3, <1>9
  <2>2. \A d \in Services : /\ state[d] \in Up => state'[d] \in Up
                            /\ state'[d] = "stopping" => state[d] = "stopping"
    BY <1>1, <1>9 DEF Started, Up
  <2>3. DownIsListed'
    BY <1>2, <1>7, <2>1, <2>2 DEF DownIsListed
  <2>4. Stragglers'
    BY <1>2, <1>9, <2>1, <2>2 DEF Stragglers, Straggles
  <2>5. OnItsWay'
    BY <1>2, <1>9 DEF OnItsWay, s
  <2> QED
    BY <2>3, <2>4, <2>5
<1>10. CASE Restart
  <2>1. /\ pc = "restoring" /\ restarts # <<>> /\ timeouts' = timeouts
    BY <1>10 DEF Restart, guardBounds
  <2>2. /\ state[s] = "stopped" => CanStart(s)
        /\ \A d \in Services : state[d] = "stopping" =>
              \/ initial[d] = "stopping" /\ \A t \in Listed : d \notin Needs(t)
              \/ timeouts = 1 /\ d = s
              \/ /\ timeouts = 1 /\ s = Audio
                 /\ state[Audio] = "running"
                 /\ Tail(restarts) # <<>> /\ Head(Tail(restarts)) = d
    BY <1>7, <2>1, NothingBlocks DEF s
  <2>3. CASE state[s] = "running" /\ Following /\ UNCHANGED state
    BY <1>8, <2>1, <2>2, <2>3 DEF Up
  <2>4. CASE state[s] = "stopping" /\ pc' = "settling" /\ UNCHANGED <<state, restarts>>
    <3>1. \A d \in Services : state[d] = "stopping" => Straggles(d)'
      BY <1>2, <1>3, <2>1, <2>2, <2>4 DEF Straggles, IsNext, s
    <3>2. Stragglers' /\ OnItsWay'
      BY <2>4, <3>1 DEF Stragglers, OnItsWay
    <3>3. DownIsListed'
      BY <1>2, <1>3, <1>7, <2>4 DEF DownIsListed
    <3> QED
      BY <3>2, <3>3
  <2>5. CASE /\ CanStart(s)
             /\ state' = Started(s) /\ pc' = "starting" /\ UNCHANGED restarts
    <3>1. state[s] = "stopped" /\ state'[s] = "starting"
      BY <1>5, <2>1, <2>5 DEF CanStart, Started
    <3>2. \A d \in Services : state[d] = "stopping" =>
            initial[d] = "stopping" /\ \A t \in Listed : d \notin Needs(t)
      BY <2>2, <3>1
    <3> QED
      BY <1>9, <2>1, <2>5, <3>1, <3>2 DEF Up
  <2>6. CASE state[s] = "starting" /\ pc' = "starting" /\ UNCHANGED <<state, restarts>>
    BY <1>9, <2>1, <2>2, <2>6 DEF Up
  <2>7. CASE state[s] = "stopped" /\ ~CanStart(s)
    BY <2>2, <2>7
  <2> QED
    BY <1>10, <2>3, <2>4, <2>5, <2>6, <2>7 DEF Restart, s
<1>11. CASE Settle
  <2>1. /\ pc = "settling" /\ restarts # <<>>
        /\ \/ state[s] = "stopped" /\ UNCHANGED timeouts
           \/ state[s] # "stopped" /\ GivesUp(s, "stopping")
        /\ IF state[s] = "stopped" /\ ~CanStart(s) THEN Following /\ UNCHANGED state
           ELSE /\ pc' = "starting" /\ UNCHANGED restarts
                /\ IF CanStart(s) THEN state' = Started(s) ELSE UNCHANGED state
    BY <1>1, <1>11 DEF Settle, s
  <2>2. /\ state[s] = "stopped" => CanStart(s)
        /\ \A d \in Services : state[d] = "stopping" =>
              \/ initial[d] = "stopping" /\ \A t \in Listed : d \notin Needs(t)
              \/ timeouts = 1 /\ d = s
    BY <1>7, <2>1, NothingBlocks DEF s
  <2>3. CASE state[s] = "stopped"
    <3>1. CanStart(s) /\ state' = Started(s) /\ state'[s] = "starting"
      BY <1>5, <2>1, <2>2, <2>3 DEF Started
    <3> QED
      BY <1>9, <2>1, <2>2, <2>3, <3>1 DEF Up
  <2>4. CASE state[s] # "stopped"
    <3>1. ~CanStart(s) /\ state' = state /\ pc' = "starting" /\ restarts' = restarts
      BY <2>1, <2>4 DEF CanStart
    <3>2. CASE state[s] = "stopping"
      <4>1. timeouts = 0
        BY <1>1, <1>6, <2>1, <3>2 DEF GivesUp
      <4>2. initial[s] = "stopping"
        BY <1>5, <2>1, <2>2, <3>2, <4>1
      <4> QED
        BY <1>9, <2>1, <2>2, <3>1, <4>1, <4>2 DEF Up
    <3>3. CASE state[s] # "stopping"
      <4>1. state[s] \in Up
        BY <1>1, <1>5, <2>1, <2>4, <3>3 DEF Up
      <4> QED
        BY <1>9, <2>1, <2>2, <3>1, <3>3, <4>1
    <3> QED
      BY <3>2, <3>3
  <2> QED
    BY <2>3, <2>4
<1>12. CASE SeeRunning
  <2>1. pc = "starting" /\ restarts # <<>> /\ Following /\ state' = state
    BY <1>1, <1>12 DEF SeeRunning
  <2>2. initial[s] \in Up => state[s] \in Up
    BY <1>7, <2>1 DEF OnItsWay, s
  <2>3. \A d \in Services : state[d] = "stopping" =>
          initial[d] = "stopping" /\ \A t \in Listed : d \notin Needs(t)
    BY <1>4, <1>7, <2>1 DEF Stragglers, Straggles, IsNext
  <2> QED
    BY <1>8, <2>1, <2>2, <2>3
<1>13. CASE EndGuard
  <2>1. pc = "restoring" /\ restarts = <<>> /\ pc' = "done"
        /\ UNCHANGED <<state, restarts, timeouts>>
    BY <1>13 DEF EndGuard, guardBounds
  <2>2. Listed' = Listed
    BY <1>3, <2>1
  <2>3. \A d \in Services : state[d] = "stopping" => Straggles(d)'
    BY <1>2, <1>4, <1>7, <2>1, <2>2 DEF Stragglers, Straggles, IsNext
  <2> QED
    BY <1>2, <1>7, <2>1, <2>2, <2>3 DEF DownIsListed, Stragglers, OnItsWay
<1> QED
  BY <1>10, <1>11, <1>12, <1>13

\* Whoever takes the next step, what is down can still be started again.
LEMMA RecoveryStep ==
  ASSUME GuardInv, RecoveryInv, [GuardNext]_guardVars
  PROVE  RecoveryInv'
BY CalmStep, ConstructorRecords, DestructorRecovers
   DEF GuardNext, Constructor, Destructor, Done

\* With at most one wait given up, every service that was up when the guard began
\* is running or starting again when it ends, however the dependents hang on one
\* another, wherever the constructor failed, and whatever other programs start.
THEOREM ComesBack == GuardSpec => []UpAgainWhenDone
<1>1. ASSUME GuardInv, RecoveryInv PROVE UpAgainWhenDone
  <2> SUFFICES ASSUME pc = "done", timeouts <= 1
               PROVE  \A s \in Services : initial[s] \in Up => state[s] \in Up
    BY DEF UpAgainWhenDone
  <2>1. DownIsListed /\ restarts = <<>>
    BY <1>1 DEF RecoveryInv, WrittenDown
  <2>2. Listed = {}
    BY <1>1, <2>1 DEF Listed, Restoring, Range
  <2> QED
    BY <1>1, <2>1, <2>2 DEF DownIsListed
<1> QED
  BY <1>1, InitGuard, InitRecovery, GuardStep, RecoveryStep, PTL DEF GuardSpec
=============================================================================
