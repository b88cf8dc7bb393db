------------------------------ MODULE GpuSession ------------------------------
(***************************************************************************)
(* What a plug-in instance takes from the system to run its effects, and   *)
(* gives back: the runtime files it unpacks into a cache all processes     *)
(* share (packaged_runtime.cpp), the NvAFX functions and the GPU priority  *)
(* class its process has once for all instances (nvafx_api.cpp,            *)
(* gpu_priority.cpp), its worker's CUDA context (cuda_audio_context.cpp),  *)
(* and the two effects created in it (nvafx_aec.cpp, nvafx_denoiser.cpp).  *)
(*                                                                         *)
(* While start() runs, the host's thread waits for the worker, so an       *)
(* instance is a single sequence of steps; what runs concurrently are      *)
(* instances, in one process or in two, and whoever else touches the cache *)
(* or the priority class.  One file stands for the files of the bundle,    *)
(* and one step for all the calls that try one model of an effect; an      *)
(* effect without a model is one whose models all fail.                    *)
(***************************************************************************)
EXTENDS Integers, FiniteSets

CONSTANTS
  Instances, Processes,
  Models,        \* number of models of an effect in the bundle
  MaxStarts,     \* bound: calls of start(), all together
  MaxFaults      \* bound: files lost, closes that fail, processes killed,
                 \* priority classes changed by others, all together

Effects == {"aec", "noise"}
Cache == "cache"                 \* the extracted file, as opposed to a
Names == Instances \cup {Cache}  \* temporary file, named by who writes it

\* A temporary file is not taken for the extracted one.
ASSUME SessionAssumption ==
  /\ Models \in Nat /\ MaxStarts \in Nat /\ MaxFaults \in Nat
  /\ Cache \notin Instances

High == 4                        \* kHighGpuPriority

\* What others may choose: normal or realtime.  A class of exactly High that
\* somebody else has set is not told from the plug-in's own, and is left out.
Classes == {2, 5}

VARIABLES
  process,        \* where an instance lives
  pc,             \* what an instance is doing
  context,        \* its worker's CUDA context
  left,           \* models of an effect it has not tried yet
  handle,         \* its pointer to an effect is not null
  live,           \* effects it has created and not destroyed
  lock,           \* a process's extraction mutex is taken
  complete,       \* the bundle's library exports every function
  library, api,   \* it has the library loaded; has imported "none" of the
                  \* functions, only the first ("part"), or "all"
  users, changed, original,  \* GpuPriority: workers, and what they replaced
  class,          \* its priority class
  file,           \* the content of a file: "absent", "cut" or "whole"
  starts, faults, \* bound them
  spoiled,        \* history: a cut file reached the cache during prepare
  wanted,         \* history: the class somebody else set last
  raised          \* history: it was raised here after that

effectVars   == <<left, handle, live>>
libraryVars  == <<library, api>>
priorityVars == <<users, changed, original, class, wanted, raised>>
processVars  == <<lock, libraryVars, priorityVars>>
boundVars    == <<process, complete, starts, faults>>
vars == <<pc, context, effectVars, processVars, file, spoiled, boundVars>>

Init ==
  /\ process \in [Instances -> Processes]
  /\ complete \in BOOLEAN
  /\ pc = [i \in Instances |-> "off"]
  /\ context = [i \in Instances |-> "none"]
  /\ left = [i \in Instances |-> [e \in Effects |-> 0]]
  /\ handle = [i \in Instances |-> [e \in Effects |-> FALSE]]
  /\ live = [i \in Instances |-> [e \in Effects |-> 0]]
  /\ spoiled = [i \in Instances |-> FALSE]
  /\ lock = [p \in Processes |-> FALSE]
  /\ library = [p \in Processes |-> FALSE]
  /\ api = [p \in Processes |-> "none"]
  /\ class \in [Processes -> Classes]
  /\ users = [p \in Processes |-> 0]
  /\ changed = [p \in Processes |-> FALSE]
  /\ original = class /\ wanted = class
  /\ raised = [p \in Processes |-> FALSE]
  /\ file \in [Names -> {"absent", "cut", "whole"}]
  /\ \A i \in Instances : file[i] = "absent"
  /\ starts = 0 /\ faults = 0

Goes(i, from, to) == pc[i] = from /\ pc' = [pc EXCEPT ![i] = to]
Fault == faults < MaxFaults /\ faults' = faults + 1
              /\ UNCHANGED <<process, complete, starts>>

Preparing == {"check", "open", "write", "close", "rename", "load"}

-----------------------------------------------------------------------------
(* PackagedRuntime::prepare, under the process's g_extract_mutex.          *)

\* start() creates its threadless parts and calls prepare.
Start(i) ==
  /\ Goes(i, "off", "lock")
  /\ starts < MaxStarts
  /\ starts' = starts + 1
  /\ UNCHANGED <<context, effectVars, processVars, file, spoiled, process,
                 complete, faults>>

Lock(i) ==
  /\ Goes(i, "lock", "check")
  /\ ~lock[process[i]]
  /\ lock' = [lock EXCEPT ![process[i]] = TRUE]
  /\ UNCHANGED <<context, effectVars, libraryVars, priorityVars, file, spoiled,
                 boundVars>>

\* A step of prepare that changes a file.
Extracting(i, from, to) ==
  /\ Goes(i, from, to)
  /\ UNCHANGED <<context, effectVars, processVars>>

\* Mutation of CorrectSize: a file that exists is taken as it is.
CorrectSize_Exists == file[Cache] # "absent"

CorrectSize == file[Cache] = "whole"

\* extract_asset has nothing to do if the file has the size of the asset.
Check(i) ==
  /\ Extracting(i, "check", IF CorrectSize THEN "load" ELSE "open")
  /\ UNCHANGED <<file, spoiled, boundVars>>

\* The file's name has the process's and the thread's number in it.
Temporary(i) == i

Open(i) ==
  /\ Extracting(i, "open", "write")
  /\ file' = [file EXCEPT ![Temporary(i)] = "cut"]
  /\ UNCHANGED <<spoiled, boundVars>>

Write(i) ==
  /\ Extracting(i, "write", "close")
  /\ file' = [file EXCEPT ![Temporary(i)] = "whole"]
  /\ UNCHANGED <<spoiled, boundVars>>

\* Closing writes what is still buffered; its result is not looked at.
Close(i) ==
  /\ Extracting(i, "close", "rename")
  /\ \/ UNCHANGED <<file, boundVars>>
     \/ Fault /\ file' = [file EXCEPT ![Temporary(i)] = "cut"]
  /\ UNCHANGED spoiled

InUse == \E p \in Processes : library[p]

\* MoveFileEx replaces what is in the cache, unless a process has it loaded.
Rename(i) ==
  /\ Extracting(i, "rename", "load")
  /\ ~InUse
  /\ file' = [n \in Names |-> IF n = Cache THEN file[Temporary(i)]
                              ELSE IF n = Temporary(i) THEN "absent" ELSE file[n]]
  /\ spoiled' = [j \in Instances |->
       spoiled[j] \/ (file[Temporary(i)] = "cut" /\ pc[j] \in Preparing)]
  /\ UNCHANGED boundVars

\* Another process may have been faster: its file is as good.
RenameFails(i) ==
  /\ Extracting(i, "rename", "load")
  /\ CorrectSize
  /\ file' = [file EXCEPT ![Temporary(i)] = "absent"]
  /\ UNCHANGED <<spoiled, boundVars>>

\* Mutation of Loaded: by the library of an attempt that may have failed.
Loaded_ByLibrary(p) == library[p]

\* NvafxApi::load returns at once if it has imported the first function.
Loaded(p) == api[p] # "none"

\* How far NvafxApi::load came when prepare throws.  It loads the libraries and
\* imports the functions one by one: it may end with a library loaded, or with
\* the first function imported, if a later one is missing.
Reached(i) ==
  {"nothing"} \cup
  {step \in {"library", "function"} :
     /\ pc[i] = "load" /\ ~Loaded(process[i]) /\ file[Cache] # "absent"
     /\ step = "function" => ~complete}

\* prepare throws: without a model of the echo canceller, or because the
\* bundle, a file, a library or a function cannot be read, written, loaded or
\* found.  A file being written is deleted, the mutex released, and the
\* instance goes on without models.
Unprepared(i) ==
  /\ pc[i] \in Preparing
  /\ Goes(i, pc[i], "priority")
  /\ file' = IF pc[i] \in {"write", "rename"}
             THEN [file EXCEPT ![Temporary(i)] = "absent"] ELSE file
  /\ lock' = [lock EXCEPT ![process[i]] = FALSE]
  /\ \E step \in Reached(i) :
       /\ library' = [library EXCEPT ![process[i]] = @ \/ step # "nothing"]
       /\ api' = [api EXCEPT ![process[i]] = IF step = "function" THEN "part" ELSE @]
  /\ UNCHANGED <<context, effectVars, priorityVars, spoiled, boundVars>>

\* prepare returns the models it found.  A process loads the library and
\* imports its functions once.
Load(i) ==
  /\ Goes(i, "load", "priority")
  /\ ~Loaded(process[i]) => complete /\ file[Cache] # "absent"
  /\ lock' = [lock EXCEPT ![process[i]] = FALSE]
  /\ library' = [library EXCEPT ![process[i]] = TRUE]
  /\ api' = [api EXCEPT ![process[i]] = IF Loaded(process[i]) THEN @ ELSE "all"]
  /\ left' = [left EXCEPT ![i] = [e \in Effects |-> Models]]
  /\ UNCHANGED <<context, handle, live, priorityVars, file, spoiled, boundVars>>

-----------------------------------------------------------------------------
(* The worker: priority class, context, effects.                           *)

\* A step of an instance that leaves its process and the files alone.
Working(i, from, to) ==
  /\ Goes(i, from, to)
  /\ UNCHANGED <<processVars, file, spoiled, boundVars>>

\* The first worker of a process raises the class, if it is lower and the
\* driver allows it.
AcquirePriority(i) ==
  /\ Goes(i, "priority", "context")
  /\ users' = [users EXCEPT ![process[i]] = @ + 1]
  /\ IF users[process[i]] = 0
     THEN \E allowed \in BOOLEAN :
            LET raises == allowed /\ class[process[i]] < High
            IN  /\ original' = [original EXCEPT ![process[i]] = class[process[i]]]
                /\ changed' = [changed EXCEPT ![process[i]] = raises]
                /\ raised' = [raised EXCEPT ![process[i]] = raises]
                /\ class' = [class EXCEPT ![process[i]] = IF raises THEN High ELSE @]
     ELSE UNCHANGED <<original, changed, raised, class>>
  /\ UNCHANGED <<context, effectVars, lock, libraryVars, wanted, file, spoiled,
                 boundVars>>

\* An older driver gives no context; the effects then use one of the SDK's.
CreateContext(i) ==
  /\ Working(i, "context", "aec")
  /\ \E c \in {"none", "live"} : context' = [context EXCEPT ![i] = c]
  /\ UNCHANGED effectVars

\* initialize ends: with the first model that works, or with none left.
\* Whether the effect is ready, or fails later, does not change what it holds.
Initialize(i, e, to) ==
  /\ Working(i, e, to)
  /\ \/ /\ left[i][e] > 0
        /\ left' = [left EXCEPT ![i][e] = 0]
        /\ handle' = [handle EXCEPT ![i][e] = TRUE]
        /\ live' = [live EXCEPT ![i][e] = @ + 1]
     \/ left[i][e] = 0 /\ UNCHANGED effectVars
  /\ UNCHANGED context

\* A model that cannot be created, configured or loaded: what was created for
\* it is destroyed again, and it is the next one's turn.
ModelFails(i, e) ==
  /\ Working(i, e, e)
  /\ left[i][e] > 0
  /\ left' = [left EXCEPT ![i][e] = @ - 1]
  /\ UNCHANGED <<context, handle, live>>

-----------------------------------------------------------------------------
(* stop(), and start() when it fails after the worker was created.         *)

Stop(i) ==
  /\ Working(i, "running", "leave")
  /\ UNCHANGED <<context, effectVars>>

\* NvafxAec::reset and NvafxDenoiser::reset.
Reset(i, e) ==
  /\ IF handle[i][e] THEN live' = [live EXCEPT ![i][e] = @ - 1]
                     ELSE UNCHANGED live
  /\ handle' = [handle EXCEPT ![i][e] = FALSE]
  /\ UNCHANGED <<left, context>>

\* Mutation of ResetAec: left to stop(), which runs on the host's thread.
ResetAec_ByHost(i) ==
  /\ Working(i, "leave", "reset noise")
  /\ UNCHANGED <<context, effectVars>>

\* The worker makes its context current, or goes on when it cannot.
ResetAec(i) ==
  /\ Working(i, "leave", "reset noise")
  /\ Reset(i, "aec")

ResetNoise(i) ==
  /\ Working(i, "reset noise", "destroy context")
  /\ Reset(i, "noise")

\* The worker's locals are destroyed, the context before the priority.
DestroyContext(i) ==
  /\ Working(i, "destroy context", "release")
  /\ context' = [context EXCEPT ![i] = IF @ = "live" THEN "destroyed" ELSE @]
  /\ UNCHANGED effectVars

\* Mutation of Restored: whoever set the class.
Restored_Always(p) ==
  IF users[p] = 1 /\ changed[p] THEN original[p] ELSE class[p]

\* The last worker restores the class, unless somebody else changed it.
Restored(p) ==
  IF users[p] = 1 /\ changed[p] /\ class[p] = High THEN original[p] ELSE class[p]

ReleasePriority(i) ==
  /\ Goes(i, "release", "join")
  /\ users' = [users EXCEPT ![process[i]] = @ - 1]
  /\ class' = [class EXCEPT ![process[i]] = Restored(process[i])]
  /\ raised' = [raised EXCEPT ![process[i]] = @ /\ users[process[i]] > 1]
  /\ UNCHANGED <<context, effectVars, lock, libraryVars, changed, original,
                 wanted, file, spoiled, boundVars>>

\* stop() has joined the worker: it resets the effects again, on its own
\* thread, and deletes them.
Join(i) ==
  /\ Goes(i, "join", "off")
  /\ context' = [context EXCEPT ![i] = "none"]
  /\ left' = [left EXCEPT ![i] = [e \in Effects |-> 0]]
  /\ live' = [live EXCEPT ![i] =
                [e \in Effects |-> @[e] - (IF handle[i][e] THEN 1 ELSE 0)]]
  /\ handle' = [handle EXCEPT ![i] = [e \in Effects |-> FALSE]]
  /\ spoiled' = [spoiled EXCEPT ![i] = FALSE]
  /\ UNCHANGED <<processVars, file, boundVars>>

-----------------------------------------------------------------------------
(* The others.                                                             *)

\* The cache lies in a temporary directory: somebody cleans it up.
LoseFile ==
  /\ Fault
  /\ ~InUse
  /\ file' = [file EXCEPT ![Cache] = "absent"]
  /\ UNCHANGED <<pc, context, effectVars, processVars, spoiled>>

\* Another part of the process, or another program, sets its class.
SetClass(p, c) ==
  /\ Fault
  /\ class' = [class EXCEPT ![p] = c]
  /\ wanted' = [wanted EXCEPT ![p] = c]
  /\ raised' = [raised EXCEPT ![p] = FALSE]
  /\ UNCHANGED <<pc, context, effectVars, lock, libraryVars, users, changed,
                 original, file, spoiled>>

\* Every instance of process p gets the value v.
Lost(f, p, v) == [i \in Instances |-> IF process[i] = p THEN v ELSE f[i]]

\* Windows ends the audio engine and starts a new one, with class c.
Kill(p, c) ==
  /\ Fault
  /\ pc' = Lost(pc, p, "off")
  /\ context' = Lost(context, p, "none")
  /\ left' = Lost(left, p, [e \in Effects |-> 0])
  /\ handle' = Lost(handle, p, [e \in Effects |-> FALSE])
  /\ live' = Lost(live, p, [e \in Effects |-> 0])
  /\ spoiled' = Lost(spoiled, p, FALSE)
  /\ lock' = [lock EXCEPT ![p] = FALSE]
  /\ library' = [library EXCEPT ![p] = FALSE]
  /\ api' = [api EXCEPT ![p] = "none"]
  /\ users' = [users EXCEPT ![p] = 0]
  /\ changed' = [changed EXCEPT ![p] = FALSE]
  /\ raised' = [raised EXCEPT ![p] = FALSE]
  /\ original' = [original EXCEPT ![p] = c]
  /\ class' = [class EXCEPT ![p] = c]
  /\ wanted' = [wanted EXCEPT ![p] = c]
  /\ UNCHANGED file

StepOf(i) ==
  \/ Lock(i) \/ Check(i) \/ Open(i) \/ Write(i) \/ Close(i) \/ Rename(i)
  \/ RenameFails(i) \/ Unprepared(i) \/ Load(i)
  \/ AcquirePriority(i) \/ CreateContext(i)
  \/ Initialize(i, "aec", "noise") \/ Initialize(i, "noise", "running")
  \/ \E e \in Effects : ModelFails(i, e)
  \/ ResetAec(i) \/ ResetNoise(i) \/ DestroyContext(i) \/ ReleasePriority(i)
  \/ Join(i)

Next ==
  \/ \E i \in Instances : Start(i) \/ StepOf(i) \/ Stop(i)
  \/ LoseFile
  \/ \E p \in Processes, c \in Classes : Kill(p, c) \/ SetClass(p, c)

Spec == Init /\ [][Next]_vars

-----------------------------------------------------------------------------
(* Properties.                                                             *)

\* What prepare is about to use is whole or gone, whatever other instances
\* and processes write at the same time and wherever an earlier start was cut
\* off, unless a close that failed put a cut file there meanwhile.
PreparedIsWhole ==
  \A i \in Instances :
    pc[i] = "load" /\ ~spoiled[i] => file[Cache] # "cut"

\* With a library that exports every function, an effect is only created
\* through functions that were all imported: a load that failed at a library,
\* in this instance or another one of the process, does not count as done.
\* (With one that misses an export it does; that is why complete is asked for.)
EffectsHaveApi ==
  complete =>
    \A i \in Instances :
      (\E e \in Effects : live[i][e] > 0) => api[process[i]] = "all"

\* The effects of a worker's context are destroyed by the worker and before
\* the context (the comment before the worker's end), and an instance that is
\* off has left nothing behind in the process, whichever models failed.
HandlesDieFirst ==
  \A i \in Instances :
    context[i] = "destroyed" \/ pc[i] = "off" =>
      \A e \in Effects : live[i][e] = 0

\* The process's priority class is raised from its first worker's start to
\* its last worker's end, and is then what somebody else set last, even if
\* that was while workers ran.
PriorityIsRestored ==
  \A p \in Processes :
    class[p] = IF raised[p] THEN High ELSE wanted[p]
===============================================================================
