----------------------------- MODULE ApoConfig -----------------------------
(***************************************************************************)
(* How EchoNull Setup edits Equalizer APO's config.txt:                     *)
(* src/infrastructure/equalizer_apo_config.cpp.  The file is the user's; the *)
(* plug-in's row must run for microphones only, every other row as before.  *)
(*                                                                          *)
(* The three functions of that file are operators here, translated line by  *)
(* line; the state machine is the file between the user and Setup.  What a   *)
(* configuration does is given by Runs, a model of Equalizer APO as the      *)
(* code relies on it: a Stage row sets the stages for the rows after it, an  *)
(* If row lets its branch through or not.                                   *)
(*                                                                          *)
(* A row is a pair of a kind and a number that tells filters and plug-in     *)
(* rows apart.  Blank rows and comments other than Setup's markers do the    *)
(* same and are one kind; letter case, spaces and newlines are left out, and *)
(* ElseIf, which the code treats like Else, with them.                       *)
(***************************************************************************)
EXTENDS Naturals, Sequences, SequencesExt

CONSTANTS
    MaxLines,         \* bound: rows the user (and the old Setup) wrote
    MaxDepth,         \* bound: nesting of conditions
    StageInCondition, \* whether the user puts Stage rows inside conditions
    Markers           \* whether the user writes between the old markers

VARIABLES
    config,           \* config.txt, a sequence of rows
    event             \* who wrote it last: "user", "install" or "remove"

vars == <<config, event>>

ASSUME BoundsAssumption == MaxLines \in Nat /\ MaxDepth \in Nat

-----------------------------------------------------------------------------
(* Rows.                                                                    *)

Row(kind) == <<kind, 0>>

Capture == Row("Stage: capture")
Mixed == Row("Stage: post-mix capture")
PostMix == Row("Stage: post-mix")
IfCapture == Row("If: stage == capture")
IfOther == Row("If: other")
Else == Row("Else:")
EndIf == Row("EndIf:")
Comment == Row("#")
BeginMarker == Row("# EchoNull setup begin")
EndMarker == Row("# EchoNull setup end")
Plugin(n) == <<"plugin", n>>
Filter(n) == <<"filter", n>>

Stages == {Capture, Mixed, PostMix}
Comments == {Comment, BeginMarker, EndMarker}
Plugins == {"plugin"} \X Nat
Filters == {"filter"} \X Nat
IsPlugin(row) == row \in Plugins

\* The state after the last row, one step for each row (FoldLeft, as a function).
Scan(Step(_, _), start, rows) ==
    LET scan[i \in 0..Len(rows)] ==
          IF i = 0 THEN start ELSE Step(scan[i - 1], rows[i])
    IN  scan[Len(rows)]

\* The rows of a set, in their order: SelectSeq, as such a scan.
Keep(out, row, set) == IF row \in set THEN Append(out, row) ELSE out
Only(rows, set) == Scan(LAMBDA out, row : Keep(out, row, set), <<>>, rows)

\* The conditions around a row, as both functions track them.
NoFrames == <<>>
\* Mutant: an Else row is not seen.
Track_NoElse(frames, row) ==
    CASE row \in {IfCapture, IfOther} ->
           Append(frames, [capture |-> row = IfCapture, active |-> row = IfCapture])
      [] row = EndIf -> IF frames # <<>> THEN Front(frames) ELSE frames
      [] OTHER -> frames

Track(frames, row) ==
    CASE row \in {IfCapture, IfOther} ->
           Append(frames, [capture |-> row = IfCapture, active |-> row = IfCapture])
      [] row = Else ->
           IF frames # <<>> /\ Last(frames).capture
           THEN [frames EXCEPT ![Len(frames)].active = FALSE] ELSE frames
      [] row = EndIf -> IF frames # <<>> THEN Front(frames) ELSE frames
      [] OTHER -> frames

CaptureConditionActive(frames) ==
    \E i \in 1..Len(frames) : frames[i].capture /\ frames[i].active

-----------------------------------------------------------------------------
(* has_capture_scoped_echonull                                              *)

ScopeStart == [stage |-> FALSE, found |-> FALSE, ok |-> TRUE, frames |-> NoFrames]

ScopeStep(s, row) ==
    [stage |-> IF row \in Stages THEN row = Capture ELSE s.stage,
     found |-> s.found \/ IsPlugin(row),
     ok |-> /\ s.ok
            /\ IsPlugin(row) => s.stage \/ CaptureConditionActive(s.frames),
     frames |-> Track(s.frames, row)]

CaptureScope(rows) == Scan(ScopeStep, ScopeStart, rows)

HasCaptureScoped(rows) == CaptureScope(rows).found /\ CaptureScope(rows).ok

-----------------------------------------------------------------------------
(* install_echonull_capture_scope                                           *)

\* The exact wrapper an older Setup wrote, at rows i to i + 4.
WrapperAt(rows, i) ==
    /\ i + 4 <= Len(rows)
    /\ rows[i] = BeginMarker /\ rows[i + 1] = IfCapture
    /\ IsPlugin(rows[i + 2])
    /\ rows[i + 3] = EndIf /\ rows[i + 4] = EndMarker

LastStage(rows, otherwise) ==
    LET stages == Only(rows, Stages)
    IN  IF stages = <<>> THEN otherwise ELSE Last(stages)

\* Mutant: the rows after the wrapper fall under the new Stage row.
Unwrapped_NoRestore(rows, i) == <<Capture, rows[i + 2]>>

\* What takes the wrapper's place: a Stage row, the plug-in, and the former
\* stage for the rows after it unless a Stage row comes first.
Unwrapped(rows, i) ==
    LET rest == {j \in i + 5..Len(rows) : rows[j] \notin Comments}
        former == LastStage(SubSeq(rows, 1, i - 1), Mixed)
    IN  <<Capture, rows[i + 2]>>
          \o (IF rest # {} /\ rows[Min(rest)] \notin Stages /\ former # Capture
              THEN <<former>> ELSE <<>>)

Wrappers(rows) == {i \in 1..Len(rows) : WrapperAt(rows, i)}

\* The rows with every wrapper replaced.  Two wrappers cannot overlap.
UnwrapAll(rows) ==
    LET out[i \in 0..Len(rows)] ==
          IF i = 0 THEN <<>>
          ELSE IF WrapperAt(rows, i) THEN out[i - 1] \o Unwrapped(rows, i)
          ELSE IF \E w \in Wrappers(rows) : w < i /\ i <= w + 4 THEN out[i - 1]
          ELSE Append(out[i - 1], rows[i])
    IN  out[Len(rows)]

\* Adjacent capture rows become one.
CollapseStep(out, row) ==
    IF row = Capture /\ out # <<>> /\ Last(out) = Capture THEN out
    ELSE Append(out, row)

Collapse(rows) == Scan(CollapseStep, <<>>, rows)

\* The main loop.  reusable is the index of a Stage row that applies to nothing
\* yet and may be rewritten (0: none), original the stage in force for the
\* user's rows, restore the stage row to put back before the next of them.
NoRow == Row("none")
LoopStart ==
    [out |-> <<>>, frames |-> NoFrames, reusable |-> 0, original |-> Mixed,
     restore |-> NoRow, captureOnly |-> FALSE, found |-> FALSE]

OnStage(s, row) ==
    [s EXCEPT !.restore = NoRow, !.original = row,
              !.captureOnly = (row = Capture),
              !.reusable = Len(s.out) + 1, !.out = Append(@, row)]

OnPlugin(s, row) ==
    LET scoped == s.captureOnly \/ CaptureConditionActive(s.frames)
        staged == IF s.reusable # 0 THEN [s.out EXCEPT ![s.reusable] = Capture]
                  ELSE Append(s.out, Capture)
    IN  IF scoped
        THEN [s EXCEPT !.found = TRUE, !.reusable = 0, !.out = Append(@, row)]
        ELSE [s EXCEPT !.found = TRUE, !.reusable = 0, !.captureOnly = TRUE,
                       !.restore = s.original, !.out = Append(staged, row)]

OnOther(s, row) ==
    LET restored == IF s.restore = NoRow THEN s
                    ELSE [s EXCEPT !.out = Append(@, s.restore),
                                   !.restore = NoRow, !.captureOnly = FALSE]
    IN  [restored EXCEPT !.reusable = 0, !.frames = Track(@, row),
                         !.out = Append(@, row)]

LoopStep(s, row) ==
    CASE row \in Comments -> [s EXCEPT !.out = Append(@, row)]
      [] row \in Stages -> OnStage(s, row)
      [] IsPlugin(row) -> OnPlugin(s, row)
      [] OTHER -> OnOther(s, row)

Loop(rows) == Scan(LoopStep, LoopStart, rows)

\* Mutant: the default row is added to the user's.
Rescoped_AlwaysAdds(rows) ==
    LET s == Loop(rows)
    IN  s.out \o (IF s.captureOnly THEN <<>> ELSE <<Capture>>) \o <<Plugin(0)>>

\* Without a plug-in row the default one is appended (number 0).
Rescoped(rows) ==
    LET s == Loop(rows)
    IN  IF s.found THEN s.out
        ELSE s.out \o (IF s.captureOnly THEN <<>> ELSE <<Capture>>) \o <<Plugin(0)>>

InstallOnce(rows) ==
    IF HasCaptureScoped(rows) THEN rows ELSE Rescoped(rows)

\* The function calls itself on the unwrapped rows; what takes a wrapper's
\* place completes no other wrapper, so the second call finds none.
InstallScope(rows) ==
    IF Wrappers(rows) = {} THEN InstallOnce(rows)
    ELSE InstallOnce(Collapse(UnwrapAll(rows)))

-----------------------------------------------------------------------------
(* remove_echonull_capture_scope                                            *)

RemoveStart == [out |-> <<>>, owned |-> FALSE]

RemoveStep(s, row) ==
    IF row = BeginMarker THEN [s EXCEPT !.owned = TRUE]
    ELSE IF s.owned THEN [s EXCEPT !.owned = (row # EndMarker)]
    ELSE IF IsPlugin(row) THEN s
    ELSE [s EXCEPT !.out = Append(@, row)]

Removal(rows) == Scan(RemoveStep, RemoveStart, rows)

RemoveScope(rows) == Removal(rows).out

-----------------------------------------------------------------------------
(* What Equalizer APO runs: the filters and plug-in rows that apply, in      *)
(* order, when it processes the given stage and the user's conditions have   *)
(* the given value.                                                          *)

StagesOf(row) ==
    CASE row = Capture -> {"capture"}
      [] row = PostMix -> {"post-mix"}
      [] OTHER -> {"capture", "post-mix"}

\* The value of every open condition, after this row.
Branch(open, row, stage, condition) ==
    CASE row = IfCapture -> Append(open, stage = "capture")
      [] row = IfOther -> Append(open, condition)
      [] row = Else -> [open EXCEPT ![Len(open)] = ~@]
      [] row = EndIf -> IF open = <<>> THEN open ELSE Front(open)
      [] OTHER -> open

RunStart == [open |-> <<>>, stages |-> StagesOf(Mixed), out |-> <<>>]

LetThrough(open) == \A k \in 1..Len(open) : open[k]

RunStep(s, row, stage, condition) ==
    [open |-> Branch(s.open, row, stage, condition),
     stages |-> IF row \in Stages /\ LetThrough(s.open)
                THEN StagesOf(row) ELSE s.stages,
     out |-> IF row \in Filters \union Plugins /\ LetThrough(s.open) /\ stage \in s.stages
             THEN Append(s.out, row) ELSE s.out]

Run(rows, stage, condition) ==
    Scan(LAMBDA s, row : RunStep(s, row, stage, condition), RunStart, rows)

Runs(rows, stage, condition) == Run(rows, stage, condition).out

FiltersRun(rows, stage, condition) ==
    Only(Runs(rows, stage, condition), Filters)

-----------------------------------------------------------------------------
(* The file.                                                                *)

Depth(rows) ==
    Len(Only(rows, {IfCapture, IfOther})) - Len(Only(rows, {EndIf}))

\* The branch the next row would be in: the innermost open condition has had
\* its Else row.
ElseStep(branches, row) ==
    CASE row \in {IfCapture, IfOther} -> Append(branches, FALSE)
      [] row = Else -> Append(Front(branches), TRUE)
      [] row = EndIf -> Front(branches)
      [] OTHER -> branches

InElse(rows) == Last(Scan(ElseStep, <<>>, rows))

NextNumber(rows, set) == 1 + Len(Only(rows, set))

\* The bound counts the old block as one row.
Size(rows) == Len(rows) - 4 * Cardinality(Wrappers(rows))

\* The rows the user may add next: Equalizer APO's editor keeps conditions
\* nested, and outside the old wrapper Setup's markers are not used.
UserRows ==
    {Comment, Filter(NextNumber(config, Filters)), Plugin(NextNumber(config, Plugins))}
      \union (IF StageInCondition \/ Depth(config) = 0 THEN Stages ELSE {})
      \union (IF Depth(config) < MaxDepth THEN {IfCapture, IfOther} ELSE {})
      \union (IF Depth(config) > 0 THEN {EndIf} ELSE {})
      \union (IF Depth(config) > 0 /\ ~InElse(config) THEN {Else} ELSE {})
      \union (IF Markers THEN {BeginMarker, EndMarker} ELSE {})

UserWrites ==
    /\ \E row \in UserRows :
         /\ Size(config) < MaxLines \/ row = EndIf
         /\ config' = Append(config, row)
    /\ event' = "user"

\* An older Setup wrote its block.
OldSetupWrites ==
    /\ event = "user" /\ Size(config) < MaxLines
    /\ \A i \in 1..Len(config) : ~IsPlugin(config[i])
    /\ config' = config \o <<BeginMarker, IfCapture, Plugin(1), EndIf, EndMarker>>
    /\ UNCHANGED event

\* install_configuration and remove_configuration: the file is replaced whole.
InstallConfiguration == config' = InstallScope(config) /\ event' = "install"
RemoveConfiguration == config' = RemoveScope(config) /\ event' = "remove"

Init == config = <<>> /\ event = "user"

Next ==
    \/ UserWrites \/ OldSetupWrites
    \/ Depth(config) = 0 /\ (InstallConfiguration \/ RemoveConfiguration)

Spec == Init /\ [][Next]_vars

-----------------------------------------------------------------------------
(* Properties.                                                              *)

Rows == Stages \union Comments \union {IfCapture, IfOther, Else, EndIf}
          \union Plugins \union Filters

\* The type invariant.
TypeOK == config \in Seq(Rows) /\ event \in {"user", "install", "remove"}

\* After an installation no EchoNull row runs outside capture, whatever the
\* user's conditions evaluate to: it would process the speaker output.
EffectOnlyInCapture ==
    event = "install" =>
        \A condition \in BOOLEAN :
            \A i \in 1..Len(Runs(config, "post-mix", condition)) :
                ~IsPlugin(Runs(config, "post-mix", condition)[i])

\* "Other filters keep their former stage": installing, updating and removing
\* leave the filters that run, and their order, as they were, in every stage
\* and for every value of the user's conditions.
FiltersAreKept ==
    [][event' \in {"install", "remove"} =>
          \A stage \in {"capture", "post-mix"}, condition \in BOOLEAN :
              FiltersRun(config', stage, condition)
                  = FiltersRun(config, stage, condition)]_vars

\* "Updates must leave them exactly as they are": an installation keeps every
\* EchoNull row, with the state saved in it and in its order, adds one only where
\* there was none, and changes nothing when it is run again on its own result.
UpdateKeepsRows ==
    [][event' = "install" =>
          LET before == Only(config, Plugins)
          IN  /\ Only(config', Plugins)
                   = IF before = <<>> THEN <<Plugin(0)>> ELSE before
              /\ InstallScope(config') = config']_vars

=============================================================================
