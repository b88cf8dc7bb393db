---------------------------- MODULE CaptureHook ----------------------------
(***************************************************************************)
(* How EchoNull Setup moves Equalizer APO from the stream effect of a       *)
(* microphone endpoint to its endpoint effect, and how it takes that back:  *)
(* src/infrastructure/windows/capture_endpoint_hook.cpp.                    *)
(*                                                                          *)
(* The registration of an endpoint is a handful of registry values, some    *)
(* under the endpoint's key and some under the metadata key Equalizer APO   *)
(* keeps for it.  Setup saves the values it is about to change under a key  *)
(* of its own, changes them one by one and then marks that key active;      *)
(* removal writes the saved values back one by one and clears the mark.     *)
(* Each write is a step here: it may fail, which is an exception, and Setup *)
(* may be killed before it.  Between two runs of Setup the user may change  *)
(* the registration with Equalizer APO's Device Selector, and endpoints     *)
(* come and go.  Nobody else writes the keys while Setup runs (assumed).    *)
(***************************************************************************)
EXTENDS Naturals, Sequences, SequencesExt

CONSTANTS
    Endpoints,       \* the microphone endpoints (subkeys of kCapture)
    Registrations,   \* the registrations the Device Selector may leave
    MaxCalls,        \* bound: runs of Setup
    MaxFaults,       \* bound: failing writes and kills of Setup
    MaxOutside       \* bound: changes made between runs of Setup

VARIABLES
    device,          \* endpoint -> DeviceState, or "gone" when the key is deleted
    registration,    \* endpoint -> its FxProperties and metadata values
    saved,           \* endpoint -> the values kept under kOwnership
    active,          \* endpoint -> value Active of kOwnership is "1"
    call,            \* the run of Setup that is under way
    left,            \* endpoints its loop has not visited
    current,         \* the endpoint whose writes are under way
    todo,            \* the writes still to do for it
    undo,            \* the writes of the catch block around them
    throwing,        \* the writes under way are those of a catch block
    installed,       \* install_capture_endpoint_hooks: installed != 0
    result,          \* which run of Setup was the last thing to happen, and its end
    clean,           \* no write failed in the last run and nobody killed it
    halfway,         \* endpoints whose catch block was cut short
    before,          \* the registrations when the last run began
    original,        \* what the Device Selector left last: what removal promises
    calls, faults, outside

registry == <<device, registration, saved, active>>
setup == <<call, left, current, todo, undo, throwing, installed>>
history == <<result, clean, halfway, before, original>>
bounds == <<calls, faults, outside>>
hookVars == <<registry, setup, history, bounds>>

-----------------------------------------------------------------------------
(* Values.  "none" is a value that is not there, "empty" an empty string or the *)
(* null GUID, "pre" Equalizer APO's class (kPre), "vendor" the effect the   *)
(* driver came with, "foreign" another product's, and "marker" Equalizer    *)
(* APO's note that there was no original ("!VALUE" or "!KEY").              *)

\* The values Setup changes, in the order it saves them.
Changed == <<"lfx", "sfx", "efx", "modes", "child">>

IsEmpty(value) == value \in {"none", "empty"}

\* The registrations an installation may meet: metadata says whether Equalizer
\* APO's key for the endpoint exists, metaLfx and metaSfx are the originals it
\* recorded there, child (PreMixChild) the effect it chains.  Any combination
\* may be there, since nothing in the code rules one out; only Equalizer APO in
\* the endpoint effect is left to Setup (assumed: the Device Selector registers
\* it in the stream effect, SFX, or the legacy local effect, LFX).
AllRegistrations ==
    {r \in [metadata : BOOLEAN,
            lfx : {"none", "pre", "vendor"}, sfx : {"none", "pre", "vendor"},
            efx : {"none", "empty", "foreign"}, multi : BOOLEAN,
            modes : {"none", "own"}, child : {"none", "empty", "vendor", "pre"},
            metaLfx : {"none", "marker", "vendor", "pre"},
            metaSfx : {"none", "marker", "vendor", "pre"}] :
        ~r.metadata => r.child = "none" /\ r.metaLfx = "none" /\ r.metaSfx = "none"}

ASSUME RegistrationsAssumption ==
    /\ Registrations \subseteq AllRegistrations
    /\ "none" \notin Endpoints

\* Enough registrations for two endpoints.  The columns are lfx, sfx, metaLfx,
\* metaSfx and child: Equalizer APO in the stream effect, where the original is
\* recorded, only chained while another product has the endpoint effect, or
\* Equalizer APO itself; in the local effect, where it is recorded as its own
\* original and the stream effect is empty, or chains the effect that is there.
\* The first may have a multiple-effect list; the last is not selected.
SomeRegistrations ==
    {r \in AllRegistrations :
        LET stages == <<r.lfx, r.sfx, r.metaLfx, r.metaSfx, r.child>> IN
        /\ r.modes = "own"
        /\ \/ /\ r.metadata /\ r.efx = "none"
              /\ stages = <<"none", "pre", "marker", "vendor", "vendor">>
           \/ /\ r.metadata /\ ~r.multi /\ r.efx = "foreign"
              /\ stages = <<"none", "pre", "marker", "marker", "vendor">>
           \/ /\ r.metadata /\ ~r.multi /\ r.efx = "none"
              /\ stages \in {<<"none", "pre", "marker", "pre", "none">>,
                             <<"pre", "none", "pre", "marker", "vendor">>,
                             <<"pre", "vendor", "vendor", "vendor", "vendor">>}
           \/ /\ ~r.metadata /\ ~r.multi /\ r.efx = "none"
              /\ stages = <<"none", "vendor", "none", "none", "none">>}

-----------------------------------------------------------------------------
(* What install_capture_endpoint_hook and restore_capture_endpoint_hook     *)
(* write, in order.                                                         *)

WriteOf(store, name, value) == [store |-> store, name |-> name, value |-> value]

NoMarker(value) == IF value = "marker" THEN "none" ELSE value

\* The vendor's stream effect: what Equalizer APO recorded, or what it chains.
OriginalSfx(r) ==
    IF NoMarker(r.metaSfx) = "none" /\ ~IsEmpty(r.child)
    THEN r.child ELSE NoMarker(r.metaSfx)

Saves(r) ==
    [i \in 1..Len(Changed) |-> WriteOf("saved", Changed[i], r[Changed[i]])]

\* Mutant: Equalizer APO goes on chaining the vendor's effect.
InstallWrites_KeepsChild(r) ==
    <<WriteOf("registration", "sfx", OriginalSfx(r))>>
      \o (IF r.lfx = "pre"
          THEN <<WriteOf("registration", "lfx", NoMarker(r.metaLfx))>>
          ELSE <<>>)
      \o <<WriteOf("registration", "modes", "raw"),
           WriteOf("registration", "efx", "pre"),
           WriteOf("active", "Active", TRUE)>>

InstallWrites(r) ==
    <<WriteOf("registration", "sfx", OriginalSfx(r))>>
      \o (IF r.lfx = "pre"
          THEN <<WriteOf("registration", "lfx", NoMarker(r.metaLfx))>>
          ELSE <<>>)
      \o <<WriteOf("registration", "child", "empty"),
           WriteOf("registration", "modes", "raw"),
           WriteOf("registration", "efx", "pre"),
           WriteOf("active", "Active", TRUE)>>

\* Mutant: the catch block forgets the metadata key.
RollbackWrites_OnlyFx(r) ==
    LET order == <<"lfx", "sfx", "efx", "modes">>
    IN  [i \in 1..Len(order) |->
            WriteOf("registration", order[i], r[order[i]])]

\* The catch block of the installation.
RollbackWrites(r) ==
    LET order == <<"lfx", "sfx", "efx", "modes", "child">>
    IN  [i \in 1..Len(order) |->
            WriteOf("registration", order[i], r[order[i]])]

\* Mutant: the processing modes stay as the installation wrote them.
RestoreWrites_KeepsModes(s) ==
    LET order == <<"efx", "lfx", "sfx", "child">>
    IN  Append([i \in 1..Len(order) |->
                   WriteOf("registration", order[i], s[order[i]])],
               WriteOf("active", "Active", FALSE))

RestoreWrites(s) ==
    LET order == <<"efx", "modes", "lfx", "sfx", "child">>
    IN  Append([i \in 1..Len(order) |->
                   WriteOf("registration", order[i], s[order[i]])],
               WriteOf("active", "Active", FALSE))

-----------------------------------------------------------------------------
(* A run of Setup.                                                          *)

Idle == call = "none"
NoResult == [run |-> "none", end |-> "none"]

\* wWinMain with "Install", "Repair / Update" or "Remove": the loop over the
\* endpoints begins.
Begin(kind) ==
    /\ Idle /\ calls < MaxCalls
    /\ call' = kind /\ calls' = calls + 1
    /\ left' = {e \in Endpoints : kind = "remove" \/ device[e] = "active"}
    /\ installed' = FALSE /\ clean' = TRUE /\ before' = registration
    /\ UNCHANGED <<registry, current, todo, undo, throwing, result, halfway,
                   original, faults, outside>>

\* The run is over: by its own end, by an exception, or killed.
End(how) ==
    /\ call' = "none" /\ result' = [run |-> call, end |-> how]
    /\ left' = {} /\ current' = "none" /\ todo' = <<>> /\ undo' = <<>>
    /\ throwing' = FALSE /\ installed' = FALSE
    /\ UNCHANGED <<before, original, calls, outside>>

Looping == ~Idle /\ current = "none"

\* The loop is through.  Without a single hook an installation is an error.
Finish ==
    /\ Looping /\ left = {}
    /\ End(IF call = "install" /\ ~installed THEN "error" ELSE "done")
    /\ UNCHANGED <<registry, clean, halfway, faults>>

\* An exception before anything was written for this endpoint.
Throw == End("error") /\ UNCHANGED <<registry, clean, halfway, faults>>

\* The endpoint needs nothing; there says whether it counts as installed.
Skip(e, there) ==
    /\ left' = left \ {e} /\ installed' = (installed \/ there)
    /\ UNCHANGED <<registry, call, current, todo, undo, throwing, history, bounds>>

Start(e, writes, rollback) ==
    /\ left' = left \ {e} /\ current' = e /\ todo' = writes /\ undo' = rollback
    /\ UNCHANGED <<registry, call, throwing, installed, history, bounds>>

UsesApo(r) == r.sfx = "pre" \/ r.lfx = "pre"

\* install_capture_endpoint_hook, up to its first write.
InstallEndpoint(e) ==
    LET r == registration[e] IN
    /\ Looping /\ call = "install" /\ e \in left
    /\ \/ ~r.metadata /\ Skip(e, FALSE)
       \/ /\ r.metadata /\ active[e]
          /\ IF r.efx # "pre" \/ UsesApo(r) THEN Throw ELSE Skip(e, TRUE)
       \/ /\ r.metadata /\ ~active[e]
          /\ \/ ~UsesApo(r) /\ Skip(e, FALSE)
             \/ /\ UsesApo(r)
                /\ IF ~IsEmpty(r.efx) \/ r.multi \/ OriginalSfx(r) = "pre"
                   THEN Throw
                   ELSE Start(e, Saves(r) \o InstallWrites(r), RollbackWrites(r))

\* Mutant: removal does not look whether the endpoint effect is still its own.
RestoreEndpoint_Overwrites(e) ==
    LET r == registration[e] IN
    /\ Looping /\ call = "remove" /\ e \in left
    /\ \/ ~active[e] /\ Skip(e, FALSE)
       \/ /\ active[e]
          /\ IF device[e] = "gone" \/ ~r.metadata
             THEN Throw
             ELSE Start(e, RestoreWrites(saved[e]), <<>>)

\* restore_capture_endpoint_hook, up to its first write.
RestoreEndpoint(e) ==
    LET r == registration[e] IN
    /\ Looping /\ call = "remove" /\ e \in left
    /\ \/ ~active[e] /\ Skip(e, FALSE)
       \/ /\ active[e]
          /\ IF device[e] = "gone" \/ ~r.metadata \/ r.efx # "pre"
             THEN Throw
             ELSE Start(e, RestoreWrites(saved[e]), <<>>)

\* One registry write succeeds.  After the last one of the catch block the
\* exception goes on; after any other last one the loop does.
Write ==
    LET w == Head(todo) IN
    /\ todo # <<>>
    /\ IF w.store = "registration"
       THEN registration' = [registration EXCEPT ![current][w.name] = w.value]
       ELSE UNCHANGED registration
    /\ IF w.store = "saved"
       THEN saved' = [saved EXCEPT ![current][w.name] = w.value]
       ELSE UNCHANGED saved
    /\ IF w.store = "active"
       THEN active' = [active EXCEPT ![current] = w.value]
       ELSE UNCHANGED active
    /\ IF Len(todo) = 1 /\ throwing
       THEN End("error")
       ELSE /\ todo' = Tail(todo)
            /\ IF Len(todo) = 1
               THEN /\ current' = "none" /\ undo' = <<>>
                    /\ installed' = (installed \/ call = "install")
               ELSE UNCHANGED <<current, undo, installed>>
            /\ UNCHANGED <<call, left, throwing, result, before, original,
                           calls, outside>>
    /\ UNCHANGED <<device, clean, halfway, faults>>

CutShort ==
    halfway' = IF throwing THEN halfway \union {current} ELSE halfway

\* One registry write fails.  The saves precede the try block, removal has
\* none, and a write of the catch block has no second one around it.
WriteFails ==
    /\ todo # <<>> /\ faults < MaxFaults
    /\ faults' = faults + 1 /\ clean' = FALSE
    /\ CutShort
    /\ IF undo = <<>> \/ Head(todo).store = "saved"
       THEN End("error")
       ELSE /\ todo' = undo /\ undo' = <<>> /\ throwing' = TRUE
            /\ UNCHANGED <<call, left, current, installed, result, before,
                           original, calls, outside>>
    /\ UNCHANGED registry

\* Setup is killed, or the machine loses power.
Killed ==
    /\ ~Idle /\ faults < MaxFaults
    /\ faults' = faults + 1 /\ clean' = FALSE
    /\ CutShort
    /\ End("killed")
    /\ UNCHANGED registry

-----------------------------------------------------------------------------
(* Between two runs of Setup.                                               *)

\* The user changes the endpoint in Equalizer APO's Device Selector.
DeviceSelector(e) ==
    /\ Idle /\ outside < MaxOutside /\ device[e] # "gone"
    /\ outside' = outside + 1
    /\ \E r \in Registrations :
         /\ registration' = [registration EXCEPT ![e] = r]
         /\ original' = [original EXCEPT ![e] = r]
    /\ result' = NoResult /\ halfway' = halfway \ {e}
    /\ UNCHANGED <<device, saved, active, setup, clean, before, calls, faults>>

\* A microphone is plugged in, taken out, or its driver removed for good.
DeviceChange(e) ==
    /\ Idle /\ outside < MaxOutside /\ device[e] # "gone"
    /\ outside' = outside + 1
    /\ \E state \in {"active", "unplugged", "gone"} \ {device[e]} :
         device' = [device EXCEPT ![e] = state]
    /\ result' = NoResult
    /\ UNCHANGED <<registration, saved, active, setup, clean, halfway, before,
                   original, calls, faults>>

-----------------------------------------------------------------------------
HookInit ==
    /\ device = [e \in Endpoints |-> "active"]
    /\ registration \in [Endpoints -> Registrations]
    /\ saved = [e \in Endpoints |->
                  [n \in {Changed[i] : i \in 1..Len(Changed)} |-> "none"]]
    /\ active = [e \in Endpoints |-> FALSE]
    /\ call = "none" /\ left = {} /\ current = "none"
    /\ todo = <<>> /\ undo = <<>> /\ throwing = FALSE /\ installed = FALSE
    /\ result = NoResult /\ clean = TRUE /\ halfway = {}
    /\ before = registration /\ original = registration
    /\ calls = 0 /\ faults = 0 /\ outside = 0

HookNext ==
    \/ Begin("install") \/ Begin("remove")
    \/ Finish \/ Write \/ WriteFails \/ Killed
    \/ \E e \in Endpoints :
         \/ InstallEndpoint(e) \/ RestoreEndpoint(e)
         \/ DeviceSelector(e) \/ DeviceChange(e)

HookSpec == HookInit /\ [][HookNext]_hookVars

-----------------------------------------------------------------------------
(* Properties.                                                              *)

\* The registrations that Setup may leave.
StageValues == {"none", "pre", "vendor"}
EndpointValues == {"none", "empty", "pre", "foreign"}
ModeValues == {"none", "own", "raw"}
ChildValues == {"none", "empty", "vendor", "pre"}
Notes == {"none", "marker", "vendor", "pre"}
RegistrationType ==
    [metadata : BOOLEAN, multi : BOOLEAN,
     lfx : StageValues, sfx : StageValues, efx : EndpointValues,
     modes : ModeValues, child : ChildValues,
     metaLfx : Notes, metaSfx : Notes]
SavedType ==
    [lfx : StageValues, sfx : StageValues, efx : EndpointValues,
     modes : ModeValues, child : ChildValues]

\* The type invariant.
HookTypeOK ==
    /\ device \in [Endpoints -> {"active", "unplugged", "gone"}]
    /\ registration \in [Endpoints -> RegistrationType]
    /\ before \in [Endpoints -> RegistrationType]
    /\ original \in [Endpoints -> Registrations]
    /\ saved \in [Endpoints -> SavedType]
    /\ active \in [Endpoints -> BOOLEAN]
    /\ call \in {"none", "install", "remove"}
    /\ left \subseteq Endpoints /\ current \in Endpoints \union {"none"}
    /\ (todo # <<>>) = (current # "none")
    /\ Idle => current = "none" /\ left = {}
    /\ throwing => call = "install" /\ current # "none"
    /\ halfway \subseteq Endpoints
    /\ faults \in Nat
    /\ result \in [run : {"none", "install", "remove"},
                   end : {"none", "done", "error", "killed"}]

\* Neither installation nor removal, whatever fails in them and however often
\* they are run, changes the endpoint effect another product registered.
ForeignEffectIsKept ==
    [][\A e \in Endpoints :
          registration[e].efx = "foreign" /\ ~Idle
              => registration'[e].efx = "foreign"]_hookVars

\* Equalizer APO recorded itself as the original of the local effect, which the
\* installation checks for the stream effect only.
Recursive(r) == r.lfx = "pre" /\ r.metaLfx = "pre"

\* Equalizer APO chains the driver's effect from the local effect.
ChainsAtLocal(r) == r.lfx = "pre" /\ r.child = "vendor"

\* The driver's effect runs in the stream effect and as Equalizer APO's child.
Doubled(r) ==
    (UsesApo(r) \/ r.efx = "pre") /\ r.sfx = "vendor" /\ r.child = "vendor"

\* At rest Setup has put no effect into an endpoint's chain twice.  With
\* Equalizer APO at the endpoint effect it is in no other stage and not its own
\* child; the local effect is the exception if it was recorded as its own
\* original there.  And the driver's effect is not both in the stream effect
\* and Equalizer APO's child, unless the Device Selector left it so, or a fault
\* struck an installation where Equalizer APO chained it from the local effect:
\* only that conversion goes through such a state.  All of it holds wherever
\* writes fail and Setup is killed, but for an endpoint whose catch block was
\* itself cut short.
EachEffectOnce ==
    Idle => \A e \in Endpoints \ halfway :
        LET r == registration[e]
            o == original[e]
        IN
        /\ r.efx = "pre" =>
              /\ r.sfx # "pre" /\ r.child # "pre"
              /\ r.lfx = "pre" => Recursive(r)
        /\ Doubled(r) => ChainsAtLocal(o) /\ (Doubled(o) \/ faults > 0)

\* An installation that is not killed leaves every endpoint as it found it, or
\* hooked with the registration it found saved: a failing write is rolled back,
\* if the catch block is not cut short as well, and updating an installed hook
\* does not overwrite what was saved.  A local effect recorded as its own
\* original is converted but stays Equalizer APO.
InstallIsAllOrNothing ==
    Idle /\ result.run = "install" /\ result.end # "killed" =>
        \A e \in Endpoints \ halfway :
            \/ registration[e] = before[e]
            \/ /\ active[e] /\ registration[e].efx = "pre"
               /\ UsesApo(registration[e]) => Recursive(before[e])
               /\ \A i \in 1..Len(Changed) :
                    saved[e][Changed[i]] = before[e][Changed[i]]

\* A removal that reports success has brought back the registration the Device
\* Selector left last, on every endpoint that still exists ("Removing EchoNull
\* restores the original registration"), if no write failed and nobody was
\* killed in this run or an earlier one.
RemovalRestores ==
    Idle /\ result = [run |-> "remove", end |-> "done"] /\ faults = 0 =>
        \A e \in Endpoints :
            device[e] # "gone" => registration[e] = original[e]

\* An installation is possible on this registration: Equalizer APO is selected
\* and the endpoint effect is free.
Installable(r) ==
    /\ r.metadata /\ UsesApo(r) /\ IsEmpty(r.efx) /\ ~r.multi
    /\ OriginalSfx(r) # "pre"

FreeRegistrations == {r \in SomeRegistrations : Installable(r)}

\* "Reconfiguring the device in Equalizer APO Device Selector can replace this
\* hook; rerun EchoNull Setup": after a run in which nothing failed, the hook
\* is there on every endpoint that is plugged in and free for it.
RerunRestoresHook ==
    Idle /\ result.run = "install" /\ clean =>
        \A e \in Endpoints :
            device[e] = "active" /\ Installable(before[e])
                => registration[e].efx = "pre"
=============================================================================
