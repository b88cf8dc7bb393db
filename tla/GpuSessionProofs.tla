---------------------------- MODULE GpuSessionProofs ----------------------------
(***************************************************************************)
(* Proofs about GpuSession: for every number of instances, processes and   *)
(* models, and whatever fails, the cache a start uses is whole, effects    *)
(* are created through imported functions and destroyed before their       *)
(* context, and the priority class is given back.                          *)
(*                                                                         *)
(* The inductive invariant has a part for each of the four properties, and *)
(* each part has its own lemma of preservation: a step disturbs at most    *)
(* the parts whose variables it changes.                                   *)
(***************************************************************************)
EXTENDS GpuSession, TLAPS

Places ==
  {"off", "lock", "priority", "context", "aec", "noise", "running", "leave",
   "reset noise", "destroy context", "release", "join"} \cup Preparing

TypeOK ==
  /\ process \in [Instances -> Processes] /\ complete \in BOOLEAN
  /\ pc \in [Instances -> Places]
  /\ context \in [Instances -> {"none", "live", "destroyed"}]
  /\ left \in [Instances -> [Effects -> Nat]]
  /\ handle \in [Instances -> [Effects -> BOOLEAN]]
  /\ live \in [Instances -> [Effects -> Int]]
  /\ spoiled \in [Instances -> BOOLEAN]
  /\ lock \in [Processes -> BOOLEAN]
  /\ library \in [Processes -> BOOLEAN]
  /\ api \in [Processes -> {"none", "part", "all"}]
  /\ users \in [Processes -> Int]
  /\ changed \in [Processes -> BOOLEAN]
  /\ original \in [Processes -> Classes \cup {High}]
  /\ class \in [Processes -> Classes \cup {High}]
  /\ wanted \in [Processes -> Classes]
  /\ raised \in [Processes -> BOOLEAN]
  /\ file \in [Names -> {"absent", "cut", "whole"}]

\* An effect exists if and only if its pointer is set, and only between its
\* creation and its reset; the context is destroyed after both resets.
OrderlyAt(i) ==
  /\ handle[i]["aec"] => pc[i] \in {"noise", "running", "leave"}
  /\ handle[i]["noise"] => pc[i] \in {"running", "leave", "reset noise"}
  /\ \A e \in Effects :
       /\ handle[i][e] => live[i][e] = 1
       /\ ~handle[i][e] => live[i][e] = 0
  /\ context[i] = "destroyed" => pc[i] \in {"release", "join"}

EffectsAreOrderly == \A i \in Instances : OrderlyAt(i)

\* Models are tried, and effects exist, only with functions imported: all of
\* them, if the library has all.
EffectsAreLicensed ==
  /\ \A i \in Instances, e \in Effects :
       left[i][e] > 0 \/ handle[i][e] => Loaded(process[i])
  /\ complete => \A p \in Processes : api[p] # "part"

\* The class is High while raised and can be restored then; it is not raised
\* without a worker.
ClassIsBalanced ==
  \A p \in Processes :
    /\ IF raised[p]
       THEN changed[p] /\ original[p] = wanted[p] /\ class[p] = High
       ELSE class[p] = wanted[p]
    /\ users[p] <= 0 => ~raised[p]

IInv ==
  /\ TypeOK
  /\ EffectsAreOrderly
  /\ EffectsAreLicensed
  /\ ClassIsBalanced
  /\ PreparedIsWhole

\* The steps by what they change.
Extraction(i) ==
  \/ Start(i) \/ Lock(i) \/ Check(i) \/ Open(i) \/ Write(i) \/ Close(i)
  \/ Rename(i) \/ RenameFails(i) \/ Unprepared(i) \/ Load(i)

Creation(i) ==
  \/ CreateContext(i)
  \/ Initialize(i, "aec", "noise") \/ Initialize(i, "noise", "running")
  \/ \E e \in Effects : ModelFails(i, e)

Destruction(i) ==
  Stop(i) \/ ResetAec(i) \/ ResetNoise(i) \/ DestroyContext(i) \/ Join(i)

\* Next, regrouped.
LEMMA NextSteps ==
  ASSUME Next
  PROVE  \/ \E i \in Instances :
              \/ Extraction(i) \/ Creation(i) \/ Destruction(i)
              \/ AcquirePriority(i) \/ ReleasePriority(i)
         \/ LoseFile
         \/ \E p \in Processes, c \in Classes : Kill(p, c) \/ SetClass(p, c)
  BY DEF Next, StepOf, Extraction, Creation, Destruction

-----------------------------------------------------------------------------
\* The invariant holds at first: no instance has been started.
LEMMA InitInv == Init => IInv
<1> SUFFICES ASSUME Init PROVE IInv
  OBVIOUS
<1>1. TypeOK
  BY DEF Init, TypeOK, Places, Classes
<1>2. EffectsAreOrderly /\ EffectsAreLicensed
  BY DEF Init, EffectsAreOrderly, OrderlyAt, EffectsAreLicensed, Loaded, Effects
<1>3. ClassIsBalanced
  BY DEF Init, ClassIsBalanced
<1>4. PreparedIsWhole
  BY DEF Init, PreparedIsWhole
<1> QED
  BY <1>1, <1>2, <1>3, <1>4 DEF IInv

-----------------------------------------------------------------------------
\* A step to another place than "load" that leaves the files alone.
LEMMA WholeElsewhere ==
  ASSUME pc \in [Instances -> Places], PreparedIsWhole, NEW i \in Instances,
         NEW from, NEW to, Goes(i, from, to), to # "load",
         UNCHANGED <<file, spoiled>>
  PROVE  PreparedIsWhole'
  BY DEF PreparedIsWhole, Goes

\* Only Rename writes what is in the cache, and it spoils the preparation of
\* everybody who might use a cut file; all others lose the file at worst.
LEMMA WholeStep ==
  ASSUME IInv, Next
  PROVE  PreparedIsWhole'
<1> USE DEF PreparedIsWhole, Goes
<1>a. TypeOK /\ PreparedIsWhole /\ Cache \in Names /\ Cache \notin Instances
  BY SessionAssumption DEF IInv, Names
<1> USE <1>a DEF TypeOK
<1>1. ASSUME NEW i \in Instances, Extraction(i) PROVE PreparedIsWhole'
  <2>1. CASE Start(i) \/ Lock(i) \/ Load(i)
    BY <2>1, SMTT(30) DEF Start, Lock, Load
  <2>2. CASE Check(i) \/ RenameFails(i)
    BY <2>2 DEF Check, RenameFails, Extracting, CorrectSize, Temporary
  <2>3. CASE Open(i) \/ Write(i) \/ Close(i)
    BY <2>3 DEF Open, Write, Close, Extracting, Temporary
  <2>4. CASE Rename(i)
    BY <2>4 DEF Rename, Extracting, Preparing, Temporary
  <2>5. CASE Unprepared(i)
    <3>1. pc' = [pc EXCEPT ![i] = "priority"] /\ file'[Cache] = file[Cache]
      BY <2>5 DEF Unprepared, Temporary
    <3>2. UNCHANGED <<spoiled, process>>
      BY <2>5 DEF Unprepared, boundVars
    <3> QED
      BY <3>1, <3>2
  <2> QED
    BY <1>1, <2>1, <2>2, <2>3, <2>4, <2>5 DEF Extraction
<1>2. ASSUME NEW i \in Instances, Creation(i) PROVE PreparedIsWhole'
  BY <1>2 DEF Creation, CreateContext, Initialize, ModelFails, Working, Effects
<1>3. ASSUME NEW i \in Instances, Destruction(i) PROVE PreparedIsWhole'
  <2> HIDE DEF TypeOK, PreparedIsWhole, Goes
  <2>a. pc \in [Instances -> Places]
    BY DEF TypeOK
  <2>1. CASE Stop(i)
    BY <2>a, <2>1, WholeElsewhere DEF Stop, Working
  <2>2. CASE ResetAec(i)
    BY <2>a, <2>2, WholeElsewhere DEF ResetAec, Working
  <2>3. CASE ResetNoise(i)
    BY <2>a, <2>3, WholeElsewhere DEF ResetNoise, Working
  <2>4. CASE DestroyContext(i)
    BY <2>a, <2>4, WholeElsewhere DEF DestroyContext, Working
  <2>5. CASE Join(i)
    <3>1. /\ pc' = [pc EXCEPT ![i] = "off"] /\ file' = file
          /\ spoiled' = [spoiled EXCEPT ![i] = FALSE]
      BY <2>5 DEF Join, Goes
    <3> QED
      BY <2>a, <3>1 DEF PreparedIsWhole, Goes
  <2> QED
    BY <1>3, <2>1, <2>2, <2>3, <2>4, <2>5 DEF Destruction
<1>4. ASSUME NEW i \in Instances, AcquirePriority(i) \/ ReleasePriority(i)
      PROVE PreparedIsWhole'
  BY <1>4 DEF AcquirePriority, ReleasePriority
<1>5. ASSUME LoseFile PROVE PreparedIsWhole'
  BY <1>5 DEF LoseFile
<1>6. ASSUME NEW p \in Processes, NEW c \in Classes, Kill(p, c) \/ SetClass(p, c)
      PROVE PreparedIsWhole'
  <2>1. CASE Kill(p, c)
    BY <2>1 DEF Kill, Lost
  <2>2. CASE SetClass(p, c)
    BY <2>2 DEF SetClass
  <2> QED
    BY <1>6, <2>1, <2>2
<1> QED
  BY <1>1, <1>2, <1>3, <1>4, <1>5, <1>6, NextSteps

\* The class is raised by the first worker and restored by the last, and what
\* others set is not touched.
LEMMA ClassStep ==
  ASSUME IInv, Next
  PROVE  ClassIsBalanced'
<1>a. TypeOK /\ ClassIsBalanced
  BY DEF IInv
<1> USE DEF ClassIsBalanced, priorityVars
<1>1. ASSUME NEW i \in Instances, AcquirePriority(i) PROVE ClassIsBalanced'
  BY <1>a, <1>1 DEF AcquirePriority, TypeOK, Classes, High
<1>2. ASSUME NEW i \in Instances, ReleasePriority(i) PROVE ClassIsBalanced'
  <2> DEFINE q == process[i]
  <2>1. q \in Processes
    BY <1>a DEF TypeOK
  <2>2. /\ users'[q] = users[q] - 1
        /\ class'[q] = Restored(q)
        /\ raised'[q] = (raised[q] /\ users[q] > 1)
    BY <1>a, <1>2, <2>1 DEF ReleasePriority, TypeOK
  <2>3. \A p \in Processes \ {q} :
          users'[p] = users[p] /\ class'[p] = class[p] /\ raised'[p] = raised[p]
    BY <1>a, <1>2 DEF ReleasePriority, TypeOK
  <2>4. UNCHANGED <<changed, original, wanted>>
    BY <1>2 DEF ReleasePriority
  <2>5. High \notin Classes /\ users[q] \in Int /\ wanted[q] \in Classes
    BY <1>a, <2>1 DEF TypeOK, Classes, High
  <2>6. /\ IF raised'[q]
            THEN changed[q] /\ original[q] = wanted[q] /\ class'[q] = High
            ELSE class'[q] = wanted[q]
        /\ users'[q] <= 0 => ~raised'[q]
    <3>1. CASE users[q] > 1
      <4>1. users[q] # 1 /\ ~(users'[q] <= 0)
        BY <2>2, <2>5, <3>1
      <4>2. class'[q] = class[q] /\ raised'[q] = raised[q]
        BY <1>a, <2>1, <2>2, <3>1, <4>1 DEF Restored, TypeOK
      <4> QED
        BY <1>a, <2>1, <4>1, <4>2
    <3>2. CASE ~(users[q] > 1)
      <4>1. ~raised'[q]
        BY <2>2, <3>2
      <4>2. CASE raised[q]
        <5>1. users[q] = 1
          BY <1>a, <2>1, <2>5, <3>2, <4>2
        <5> QED
          BY <1>a, <2>1, <2>2, <4>1, <4>2, <5>1 DEF Restored
      <4>3. CASE ~raised[q]
        BY <1>a, <2>1, <2>2, <2>5, <4>1, <4>3 DEF Restored
      <4> QED
        BY <4>2, <4>3
    <3> QED
      BY <3>1, <3>2
  <2> QED
    BY <1>a, <2>3, <2>4, <2>6
<1>3. ASSUME NEW p \in Processes, NEW c \in Classes, Kill(p, c) \/ SetClass(p, c)
      PROVE ClassIsBalanced'
  <2>1. CASE Kill(p, c)
    BY <1>a, <2>1 DEF Kill, TypeOK
  <2>2. CASE SetClass(p, c)
    BY <1>a, <2>2 DEF SetClass, TypeOK
  <2> QED
    BY <1>3, <2>1, <2>2
<1>4. ASSUME UNCHANGED priorityVars PROVE ClassIsBalanced'
  BY <1>a, <1>4
<1>5. ASSUME NEW i \in Instances, Extraction(i) \/ Creation(i) \/ Destruction(i)
      PROVE UNCHANGED priorityVars
  BY <1>5 DEF Extraction, Start, Lock, Check, Open, Write, Close, Rename,
     RenameFails, Unprepared, Load, Extracting, Creation, CreateContext,
     Initialize, ModelFails, Destruction, Stop, ResetAec, ResetNoise,
     DestroyContext, Join, Working, processVars
<1>6. LoseFile => UNCHANGED priorityVars
  BY DEF LoseFile, processVars
<1> QED
  BY <1>1, <1>2, <1>3, <1>4, <1>5, <1>6, NextSteps

-----------------------------------------------------------------------------
\* A step of instance i leaves the others as they were.
OthersStay(i) ==
  \A j \in Instances \ {i} :
    /\ pc'[j] = pc[j] /\ context'[j] = context[j]
    /\ handle'[j] = handle[j] /\ live'[j] = live[j]

\* What a reset does to the effect and to the other one.
LEMMA ResetFacts ==
  ASSUME TypeOK, NEW i \in Instances, NEW e \in Effects, Reset(i, e)
  PROVE  /\ ~handle'[i][e]
         /\ handle[i][e] => live'[i][e] = live[i][e] - 1
         /\ ~handle[i][e] => live'[i][e] = live[i][e]
         /\ \A d \in Effects \ {e} :
              handle'[i][d] = handle[i][d] /\ live'[i][d] = live[i][d]
<1>a. /\ handle \in [Instances -> [Effects -> BOOLEAN]]
      /\ live \in [Instances -> [Effects -> Int]]
  BY DEF TypeOK
<1>1. handle' = [handle EXCEPT ![i][e] = FALSE]
  BY DEF Reset
<1>2. ~handle'[i][e] /\ \A d \in Effects \ {e} : handle'[i][d] = handle[i][d]
  BY <1>a, <1>1
<1>3. CASE handle[i][e]
  <2>1. live' = [live EXCEPT ![i][e] = @ - 1]
    BY <1>3 DEF Reset
  <2>2. /\ live'[i][e] = live[i][e] - 1
        /\ \A d \in Effects \ {e} : live'[i][d] = live[i][d]
    BY <1>a, <2>1
  <2> QED
    BY <1>2, <1>3, <2>2
<1>4. CASE ~handle[i][e]
  <2>1. live' = live
    BY <1>4 DEF Reset
  <2> QED
    BY <1>2, <1>4, <2>1
<1> QED
  BY <1>3, <1>4

\* Effects are created and destroyed together with their pointers, in the
\* order of the places a worker passes.
LEMMA OrderStep ==
  ASSUME IInv, Next
  PROVE  EffectsAreOrderly'
<1>a. TypeOK /\ EffectsAreOrderly
  BY DEF IInv
<1>o. ASSUME NEW i \in Instances, OthersStay(i), OrderlyAt(i)'
      PROVE  EffectsAreOrderly'
  <2>1. ASSUME NEW j \in Instances \ {i} PROVE OrderlyAt(j)'
    <3>1. OrderlyAt(j)
      BY <1>a DEF EffectsAreOrderly
    <3>2. /\ pc'[j] = pc[j] /\ context'[j] = context[j]
          /\ handle'[j] = handle[j] /\ live'[j] = live[j]
      BY <1>o DEF OthersStay
    <3> QED
      BY <3>1, <3>2 DEF OrderlyAt
  <2> QED
    BY <1>o, <2>1 DEF EffectsAreOrderly
<1>1. ASSUME NEW i \in Instances, Creation(i) PROVE EffectsAreOrderly'
  <2>a. OrderlyAt(i)
    BY <1>a DEF EffectsAreOrderly
  <2>b. OthersStay(i)
    BY <1>a, <1>1 DEF OthersStay, Creation, CreateContext, Initialize,
       ModelFails, Working, Goes, effectVars, TypeOK
  <2>1. ASSUME CreateContext(i) PROVE OrderlyAt(i)'
    <3>1. pc[i] = "context" /\ pc'[i] = "aec" /\ context'[i] # "destroyed"
      BY <1>a, <2>1 DEF CreateContext, Working, Goes, TypeOK
    <3> QED
      BY <2>a, <2>1, <3>1 DEF CreateContext, OrderlyAt, effectVars, Effects
  <2>2. ASSUME Initialize(i, "aec", "noise") PROVE OrderlyAt(i)'
    <3>1. pc[i] = "aec" /\ pc'[i] = "noise" /\ context' = context
      BY <1>a, <2>2 DEF Initialize, Working, Goes, TypeOK
    <3>2. /\ handle'[i]["noise"] = handle[i]["noise"]
          /\ live'[i]["noise"] = live[i]["noise"]
      BY <1>a, <2>2 DEF Initialize, effectVars, TypeOK, Effects
    <3>3. \/ handle'[i]["aec"] /\ live'[i]["aec"] = live[i]["aec"] + 1
          \/ UNCHANGED <<handle, live>>
      BY <1>a, <2>2 DEF Initialize, effectVars, TypeOK, Effects
    <3> QED
      BY <2>a, <3>1, <3>2, <3>3 DEF OrderlyAt, Effects
  <2>3. ASSUME Initialize(i, "noise", "running") PROVE OrderlyAt(i)'
    <3>1. pc[i] = "noise" /\ pc'[i] = "running" /\ context' = context
      BY <1>a, <2>3 DEF Initialize, Working, Goes, TypeOK
    <3>2. /\ handle'[i]["aec"] = handle[i]["aec"]
          /\ live'[i]["aec"] = live[i]["aec"]
      BY <1>a, <2>3 DEF Initialize, effectVars, TypeOK, Effects
    <3>3. \/ handle'[i]["noise"] /\ live'[i]["noise"] = live[i]["noise"] + 1
          \/ UNCHANGED <<handle, live>>
      BY <1>a, <2>3 DEF Initialize, effectVars, TypeOK, Effects
    <3> QED
      BY <2>a, <3>1, <3>2, <3>3 DEF OrderlyAt, Effects
  <2>4. ASSUME NEW e \in Effects, ModelFails(i, e) PROVE OrderlyAt(i)'
    <3>1. pc'[i] = pc[i] /\ UNCHANGED <<context, handle, live>>
      BY <1>a, <2>4 DEF ModelFails, Working, Goes, TypeOK
    <3> QED
      BY <2>a, <3>1 DEF OrderlyAt, Effects
  <2> QED
    BY <1>1, <1>o, <2>b, <2>1, <2>2, <2>3, <2>4 DEF Creation
<1>2. ASSUME NEW i \in Instances, Destruction(i) PROVE EffectsAreOrderly'
  <2>a. OrderlyAt(i)
    BY <1>a DEF EffectsAreOrderly
  <2>b. OthersStay(i)
    <3>1. CASE Stop(i) \/ DestroyContext(i) \/ Join(i)
      BY <1>a, <3>1 DEF OthersStay, Stop, DestroyContext, Join, Working, Goes,
         effectVars, TypeOK
    <3>2. CASE ResetAec(i)
      BY <1>a, <3>2 DEF OthersStay, ResetAec, Reset, Working, Goes, TypeOK
    <3>3. CASE ResetNoise(i)
      BY <1>a, <3>3 DEF OthersStay, ResetNoise, Reset, Working, Goes, TypeOK
    <3> QED
      BY <1>2, <3>1, <3>2, <3>3 DEF Destruction
  <2>1. ASSUME Stop(i) PROVE OrderlyAt(i)'
    <3>1. pc[i] = "running" /\ pc'[i] = "leave"
      BY <1>a, <2>1 DEF Stop, Working, Goes, TypeOK
    <3> QED
      BY <2>a, <2>1, <3>1 DEF Stop, OrderlyAt, effectVars, Effects
  <2>2. ASSUME ResetAec(i) PROVE OrderlyAt(i)'
    <3>1. pc[i] = "leave" /\ pc'[i] = "reset noise" /\ context' = context
      BY <1>a, <2>2 DEF ResetAec, Reset, Working, Goes, TypeOK
    <3>2. Reset(i, "aec") /\ "aec" \in Effects /\ "noise" \in Effects \ {"aec"}
      BY <2>2 DEF ResetAec, Effects
    <3>3. /\ handle'[i]["noise"] = handle[i]["noise"] /\ ~handle'[i]["aec"]
          /\ live'[i]["noise"] = live[i]["noise"]
          /\ handle[i]["aec"] => live'[i]["aec"] = live[i]["aec"] - 1
          /\ ~handle[i]["aec"] => live'[i]["aec"] = live[i]["aec"]
      BY <1>a, <3>2, ResetFacts
    <3>4. live'[i]["aec"] = 0
      <4>1. /\ handle[i]["aec"] => live[i]["aec"] = 1
            /\ ~handle[i]["aec"] => live[i]["aec"] = 0
        BY <2>a DEF OrderlyAt, Effects
      <4> QED
        BY <3>3, <4>1
    <3>5. /\ handle'[i]["noise"] => live'[i]["noise"] = 1
          /\ ~handle'[i]["noise"] => live'[i]["noise"] = 0
      BY <2>a, <3>3 DEF OrderlyAt, Effects
    <3> QED
      BY <2>a, <3>1, <3>3, <3>4, <3>5 DEF OrderlyAt, Effects
  <2>3. ASSUME ResetNoise(i) PROVE OrderlyAt(i)'
    <3>1. pc[i] = "reset noise" /\ pc'[i] = "destroy context" /\ context' = context
      BY <1>a, <2>3 DEF ResetNoise, Reset, Working, Goes, TypeOK
    <3>2. Reset(i, "noise") /\ "noise" \in Effects /\ "aec" \in Effects \ {"noise"}
      BY <2>3 DEF ResetNoise, Effects
    <3>3. /\ handle'[i]["aec"] = handle[i]["aec"] /\ ~handle'[i]["noise"]
          /\ live'[i]["aec"] = live[i]["aec"]
          /\ handle[i]["noise"] => live'[i]["noise"] = live[i]["noise"] - 1
          /\ ~handle[i]["noise"] => live'[i]["noise"] = live[i]["noise"]
      BY <1>a, <3>2, ResetFacts
    <3>4. live'[i]["noise"] = 0
      <4>1. /\ handle[i]["noise"] => live[i]["noise"] = 1
            /\ ~handle[i]["noise"] => live[i]["noise"] = 0
        BY <2>a DEF OrderlyAt, Effects
      <4> QED
        BY <3>3, <4>1
    <3>5. /\ handle'[i]["aec"] => live'[i]["aec"] = 1
          /\ ~handle'[i]["aec"] => live'[i]["aec"] = 0
      BY <2>a, <3>3 DEF OrderlyAt, Effects
    <3> QED
      BY <2>a, <3>1, <3>3, <3>4, <3>5 DEF OrderlyAt, Effects
  <2>4. ASSUME DestroyContext(i) PROVE OrderlyAt(i)'
    <3>1. pc[i] = "destroy context" /\ pc'[i] = "release"
      BY <1>a, <2>4 DEF DestroyContext, Working, Goes, TypeOK
    <3> QED
      BY <2>a, <2>4, <3>1 DEF DestroyContext, OrderlyAt, effectVars, Effects
  <2>5. ASSUME Join(i) PROVE OrderlyAt(i)'
    <3>1. pc[i] = "join" /\ pc'[i] = "off" /\ context'[i] = "none"
      BY <1>a, <2>5 DEF Join, Goes, TypeOK
    <3>2. \A e \in Effects :
            /\ ~handle'[i][e]
            /\ handle[i][e] => live'[i][e] = live[i][e] - 1
            /\ ~handle[i][e] => live'[i][e] = live[i][e] - 0
      BY <1>a, <2>5 DEF Join, TypeOK
    <3> QED
      BY <2>a, <3>1, <3>2 DEF OrderlyAt, Effects
  <2> QED
    BY <1>2, <1>o, <2>b, <2>1, <2>2, <2>3, <2>4, <2>5 DEF Destruction
<1>3. ASSUME NEW i \in Instances,
             Extraction(i) \/ AcquirePriority(i) \/ ReleasePriority(i)
      PROVE  EffectsAreOrderly'
  <2>1. UNCHANGED <<context, handle, live>>
    BY <1>3 DEF Extraction, Start, Lock, Check, Open, Write, Close, Rename,
       RenameFails, Unprepared, Load, Extracting, AcquirePriority,
       ReleasePriority, effectVars
  <2>2. /\ pc[i] \notin {"noise", "running", "leave", "reset noise"}
        /\ pc[i] \in {"release", "join"} => pc'[i] \in {"release", "join"}
        /\ \A j \in Instances \ {i} : pc'[j] = pc[j]
    BY <1>a, <1>3 DEF Extraction, Start, Lock, Check, Open, Write, Close, Rename,
       RenameFails, Unprepared, Load, Extracting, AcquirePriority,
       ReleasePriority, Preparing, Goes, TypeOK
  <2>3. OthersStay(i)
    BY <2>1, <2>2 DEF OthersStay
  <2>4. OrderlyAt(i)'
    BY <1>a, <2>1, <2>2 DEF EffectsAreOrderly, OrderlyAt, Effects
  <2> QED
    BY <1>o, <2>3, <2>4
<1>4. ASSUME UNCHANGED <<pc, context, handle, live>> PROVE EffectsAreOrderly'
  BY <1>a, <1>4 DEF EffectsAreOrderly, OrderlyAt, Effects
<1>5. ASSUME NEW p \in Processes, NEW c \in Classes, Kill(p, c)
      PROVE  EffectsAreOrderly'
  <2> SUFFICES ASSUME NEW i \in Instances PROVE OrderlyAt(i)'
    BY DEF EffectsAreOrderly
  <2>1. CASE process[i] = p
    <3>1. /\ pc'[i] = "off" /\ context'[i] = "none"
          /\ \A e \in Effects : ~handle'[i][e] /\ live'[i][e] = 0
      BY <1>5, <2>1 DEF Kill, Lost
    <3> QED
      BY <3>1 DEF OrderlyAt, Effects
  <2>2. CASE process[i] # p
    <3>1. /\ pc'[i] = pc[i] /\ context'[i] = context[i]
          /\ handle'[i] = handle[i] /\ live'[i] = live[i]
      BY <1>5, <2>2 DEF Kill, Lost
    <3> QED
      BY <1>a, <3>1 DEF EffectsAreOrderly, OrderlyAt, Effects
  <2> QED
    BY <2>1, <2>2
<1>6. LoseFile => UNCHANGED <<pc, context, handle, live>>
  BY DEF LoseFile, effectVars
<1>7. ASSUME NEW p \in Processes, NEW c \in Classes, SetClass(p, c)
      PROVE  UNCHANGED <<pc, context, handle, live>>
  BY <1>7 DEF SetClass, effectVars
<1> QED
  BY <1>1, <1>2, <1>3, <1>4, <1>5, <1>6, <1>7, NextSteps

\* Models are there after an import only, effects are made of them, a process
\* that loses its functions loses its instances with them, and only a library
\* that misses an export leaves an import half done.
LEMMA LicenseStep ==
  ASSUME IInv, Next
  PROVE  EffectsAreLicensed'
<1>a. TypeOK /\ EffectsAreLicensed
  BY DEF IInv
<1> USE <1>a DEF EffectsAreLicensed, Loaded, TypeOK, Effects
<1>1. ASSUME NEW i \in Instances, Load(i) PROVE EffectsAreLicensed'
  BY <1>1 DEF Load, boundVars
<1>2. ASSUME NEW i \in Instances, Unprepared(i) PROVE EffectsAreLicensed'
  <2>1. UNCHANGED <<left, handle, process, complete>>
    BY <1>2 DEF Unprepared, effectVars, boundVars
  <2>2. PICK step \in Reached(i) :
          api' = [api EXCEPT ![process[i]] = IF step = "function" THEN "part" ELSE @]
    BY <1>2 DEF Unprepared
  <2>3. \A p \in Processes :
          /\ api[p] # "none" => api'[p] = api[p]
          /\ complete => api'[p] = api[p]
    BY <2>2 DEF Reached
  <2> QED
    BY <2>1, <2>3
<1>3. ASSUME NEW i \in Instances, Creation(i) PROVE EffectsAreLicensed'
  <2>1. CASE CreateContext(i)
    BY <2>1 DEF CreateContext, Working, effectVars, processVars, libraryVars, boundVars
  <2>2. CASE Initialize(i, "aec", "noise")
    BY <2>2 DEF Initialize, Working, effectVars, processVars, libraryVars, boundVars
  <2>3. CASE Initialize(i, "noise", "running")
    BY <2>3 DEF Initialize, Working, effectVars, processVars, libraryVars, boundVars
  <2>4. CASE \E e \in Effects : ModelFails(i, e)
    BY <2>4 DEF ModelFails, Working, processVars, libraryVars, boundVars
  <2> QED
    BY <1>3, <2>1, <2>2, <2>3, <2>4 DEF Creation
<1>4. ASSUME NEW i \in Instances, Destruction(i) PROVE EffectsAreLicensed'
  <2>1. UNCHANGED <<api, process, complete>>
    BY <1>4 DEF Destruction, Stop, ResetAec, ResetNoise, DestroyContext, Join,
       Working, processVars, libraryVars, boundVars
  <2>2. \A j \in Instances, e \in Effects :
          left'[j][e] > 0 \/ handle'[j][e] => left[j][e] > 0 \/ handle[j][e]
    <3>1. CASE Stop(i) \/ DestroyContext(i)
      BY <3>1 DEF Stop, DestroyContext, effectVars
    <3>2. ASSUME NEW e \in Effects, Reset(i, e) PROVE <2>2!:
      BY <3>2 DEF Reset
    <3>3. CASE Join(i)
      BY <3>3 DEF Join
    <3> QED
      BY <1>4, <3>1, <3>2, <3>3 DEF Destruction, ResetAec, ResetNoise
  <2> QED
    BY <2>1, <2>2
<1>5. ASSUME NEW p \in Processes, NEW c \in Classes, Kill(p, c)
      PROVE EffectsAreLicensed'
  BY <1>5 DEF Kill, Lost, Fault
<1>6. ASSUME UNCHANGED <<left, handle, api, process, complete>>
      PROVE  EffectsAreLicensed'
  BY <1>6
<1>7. ASSUME NEW i \in Instances,
             \/ Extraction(i) /\ ~Load(i) /\ ~Unprepared(i)
             \/ AcquirePriority(i) \/ ReleasePriority(i)
      PROVE  UNCHANGED <<left, handle, api, process, complete>>
  BY <1>7 DEF Extraction, Start, Lock, Check, Open, Write, Close, Rename,
     RenameFails, Extracting, AcquirePriority, ReleasePriority,
     effectVars, processVars, libraryVars, boundVars, Fault
<1>8. ASSUME NEW p \in Processes, NEW c \in Classes, SetClass(p, c)
      PROVE  UNCHANGED <<left, handle, api, process, complete>>
  BY <1>8 DEF SetClass, effectVars, processVars, libraryVars, Fault
<1>9. LoseFile => UNCHANGED <<left, handle, api, process, complete>>
  BY DEF LoseFile, effectVars, processVars, libraryVars, Fault
<1> QED
  BY <1>1, <1>2, <1>3, <1>4, <1>5, <1>6, <1>7, <1>8, <1>9, NextSteps

-----------------------------------------------------------------------------
\* An effect's value replaced in a table of values of a set S.
LEMMA TableUpdate ==
  ASSUME NEW S, NEW f \in [Instances -> [Effects -> S]],
         NEW i \in Instances, NEW e \in Effects, NEW v \in S
  PROVE  [f EXCEPT ![i][e] = v] \in [Instances -> [Effects -> S]]
  OBVIOUS

\* A row of such a table replaced.
LEMMA RowUpdate ==
  ASSUME NEW S, NEW f \in [Instances -> [Effects -> S]],
         NEW i \in Instances, NEW r \in [Effects -> S]
  PROVE  [f EXCEPT ![i] = r] \in [Instances -> [Effects -> S]]
  OBVIOUS

\* A reset keeps the types of the effects.
LEMMA ResetTypes ==
  ASSUME handle \in [Instances -> [Effects -> BOOLEAN]],
         live \in [Instances -> [Effects -> Int]],
         NEW i \in Instances, NEW e \in Effects, Reset(i, e)
  PROVE  /\ handle' \in [Instances -> [Effects -> BOOLEAN]]
         /\ live' \in [Instances -> [Effects -> Int]]
<1>1. handle' = [handle EXCEPT ![i][e] = FALSE]
  BY DEF Reset
<1>2. handle' \in [Instances -> [Effects -> BOOLEAN]]
  BY <1>1, TableUpdate
<1>3. live[i][e] - 1 \in Int
  OBVIOUS
<1>4. live' \in [Instances -> [Effects -> Int]]
  <2>1. CASE handle[i][e]
    <3>1. live' = [live EXCEPT ![i][e] = live[i][e] - 1]
      BY <2>1 DEF Reset
    <3> QED
      BY <1>3, <3>1, TableUpdate
  <2>2. CASE ~handle[i][e]
    BY <2>2 DEF Reset
  <2> QED
    BY <2>1, <2>2
<1> QED
  BY <1>2, <1>4

\* Initialisation keeps them too.
LEMMA InitializeTypes ==
  ASSUME left \in [Instances -> [Effects -> Nat]],
         handle \in [Instances -> [Effects -> BOOLEAN]],
         live \in [Instances -> [Effects -> Int]],
         NEW i \in Instances, NEW e \in Effects, NEW to, Initialize(i, e, to)
  PROVE  /\ left' \in [Instances -> [Effects -> Nat]]
         /\ handle' \in [Instances -> [Effects -> BOOLEAN]]
         /\ live' \in [Instances -> [Effects -> Int]]
<1>1. CASE left[i][e] = 0 /\ UNCHANGED effectVars
  BY <1>1 DEF effectVars
<1>2. CASE /\ left' = [left EXCEPT ![i][e] = 0]
           /\ handle' = [handle EXCEPT ![i][e] = TRUE]
           /\ live' = [live EXCEPT ![i][e] = live[i][e] + 1]
  <2>1. live[i][e] + 1 \in Int
    OBVIOUS
  <2>2. live' \in [Instances -> [Effects -> Int]]
    BY <1>2, <2>1, TableUpdate
  <2>3. handle' \in [Instances -> [Effects -> BOOLEAN]]
    BY <1>2, TableUpdate
  <2>4. 0 \in Nat
    OBVIOUS
  <2>5. left' \in [Instances -> [Effects -> Nat]]
    BY <1>2, <2>4, TableUpdate
  <2> QED
    BY <2>2, <2>3, <2>5
<1> QED
  BY <1>1, <1>2 DEF Initialize

\* Every step keeps the types.
LEMMA TypeStep ==
  ASSUME IInv, Next
  PROVE  TypeOK'
<1>a. TypeOK /\ SessionAssumption
  BY SessionAssumption DEF IInv
<1> USE <1>a DEF TypeOK, Goes, effectVars, processVars, libraryVars, priorityVars,
            boundVars, Places, Preparing, Effects
<1>1. ASSUME NEW i \in Instances, Extraction(i) PROVE TypeOK'
  <2>1. CASE Start(i)
    BY <2>1 DEF Start
  <2>2. CASE Lock(i)
    BY <2>2 DEF Lock
  <2>3. CASE Check(i)
    BY <2>3 DEF Check, Extracting, Temporary, Names, Fault
  <2>4. CASE Open(i)
    BY <2>4 DEF Open, Extracting, Temporary, Names, Fault
  <2>5. CASE Write(i)
    BY <2>5 DEF Write, Extracting, Temporary, Names, Fault
  <2>6. CASE Close(i)
    BY <2>6 DEF Close, Extracting, Temporary, Names, Fault
  <2>7. CASE Rename(i)
    BY <2>7 DEF Rename, Extracting, Temporary, Names, Fault
  <2>8. CASE RenameFails(i)
    BY <2>8 DEF RenameFails, Extracting, Temporary, Names, Fault
  <2>9. CASE Unprepared(i)
    <3>1. PICK step \in Reached(i) :
            /\ library' = [library EXCEPT ![process[i]] = @ \/ step # "nothing"]
            /\ api' = [api EXCEPT ![process[i]] =
                          IF step = "function" THEN "part" ELSE @]
      BY <2>9 DEF Unprepared
    <3>2. /\ library' \in [Processes -> BOOLEAN]
          /\ api' \in [Processes -> {"none", "part", "all"}]
      BY <3>1
    <3>3. /\ lock' \in [Processes -> BOOLEAN]
          /\ file' \in [Names -> {"absent", "cut", "whole"}]
      BY <2>9 DEF Unprepared
    <3>4. pc' \in [Instances -> Places]
      BY <2>9 DEF Unprepared
    <3>5. UNCHANGED <<context, effectVars, priorityVars, spoiled, process, complete>>
      BY <2>9 DEF Unprepared, boundVars
    <3>6. /\ context' = context /\ left' = left /\ handle' = handle
          /\ live' = live /\ spoiled' = spoiled /\ process' = process
          /\ complete' = complete /\ users' = users /\ changed' = changed
          /\ original' = original /\ class' = class /\ wanted' = wanted
          /\ raised' = raised
      BY <3>5
    <3> QED
      BY <3>2, <3>3, <3>4, <3>6
  <2>10. CASE Load(i)
    BY <2>10 DEF Load, Temporary, Names, Loaded, SessionAssumption
  <2> QED
    BY <1>1, <2>1, <2>2, <2>3, <2>4, <2>5, <2>6, <2>7, <2>8, <2>9, <2>10 DEF Extraction
<1>2. ASSUME NEW i \in Instances, Creation(i) PROVE TypeOK'
  <2>1. CASE CreateContext(i)
    <3>1. pc' \in [Instances -> Places]
      BY <2>1 DEF CreateContext, Working
    <3>2. PICK c \in {"none", "live"} : context' = [context EXCEPT ![i] = c]
      BY <2>1 DEF CreateContext
    <3>3. context' \in [Instances -> {"none", "live", "destroyed"}]
      BY <3>2
    <3> QED
      BY <2>1, <3>1, <3>3 DEF CreateContext, Working
  <2>2. CASE Initialize(i, "aec", "noise")
    <3>1. pc' \in [Instances -> Places]
      BY <2>2 DEF Initialize, Working
    <3>2. /\ left' \in [Instances -> [Effects -> Nat]]
          /\ handle' \in [Instances -> [Effects -> BOOLEAN]]
          /\ live' \in [Instances -> [Effects -> Int]]
      <4> HIDE DEF TypeOK, Goes, effectVars, Effects
      <4>1. "aec" \in Effects
        BY DEF Effects
      <4> QED
        BY <1>a, <2>2, <4>1, InitializeTypes DEF TypeOK
    <3> QED
      BY <2>2, <3>1, <3>2 DEF Initialize, Working
  <2>3. CASE Initialize(i, "noise", "running")
    <3>1. pc' \in [Instances -> Places]
      BY <2>3 DEF Initialize, Working
    <3>2. /\ left' \in [Instances -> [Effects -> Nat]]
          /\ handle' \in [Instances -> [Effects -> BOOLEAN]]
          /\ live' \in [Instances -> [Effects -> Int]]
      <4> HIDE DEF TypeOK, Goes, effectVars, Effects
      <4>1. "noise" \in Effects
        BY DEF Effects
      <4> QED
        BY <1>a, <2>3, <4>1, InitializeTypes DEF TypeOK
    <3> QED
      BY <2>3, <3>1, <3>2 DEF Initialize, Working
  <2>4. ASSUME NEW e \in Effects, ModelFails(i, e) PROVE TypeOK'
    <3>1. left' \in [Instances -> [Effects -> Nat]]
      <4> HIDE DEF TypeOK, Goes, effectVars, Effects, Places
      <4>1. left \in [Instances -> [Effects -> Nat]]
        BY <1>a DEF TypeOK
      <4>2. left[i][e] > 0 /\ left' = [left EXCEPT ![i][e] = left[i][e] - 1]
        BY <2>4 DEF ModelFails
      <4>3. left[i][e] \in Nat
        BY <4>1
      <4>4. left[i][e] - 1 \in Nat
        BY <4>2, <4>3
      <4> QED
        BY <4>1, <4>2, <4>4, TableUpdate
    <3>3. pc' \in [Instances -> Places]
      BY <2>4 DEF ModelFails, Working
    <3> QED
      BY <2>4, <3>1, <3>3 DEF ModelFails, Working
  <2> QED
    BY <1>2, <2>1, <2>2, <2>3, <2>4 DEF Creation
<1>3. ASSUME NEW i \in Instances, Destruction(i) PROVE TypeOK'
  <2>1. CASE Stop(i)
    BY <2>1 DEF Stop, Working
  <2>2. CASE ResetAec(i)
    <3>1. pc' \in [Instances -> Places]
      BY <2>2 DEF ResetAec, Working
    <3>2. /\ handle' \in [Instances -> [Effects -> BOOLEAN]]
          /\ live' \in [Instances -> [Effects -> Int]]
      <4> HIDE DEF TypeOK, Goes, effectVars, Effects
      <4>1. "aec" \in Effects /\ Reset(i, "aec")
        BY <2>2 DEF Effects, ResetAec
      <4> QED
        BY <1>a, <4>1, ResetTypes DEF TypeOK
    <3> QED
      BY <2>2, <3>1, <3>2 DEF ResetAec, Working, Reset
  <2>3. CASE ResetNoise(i)
    <3>1. pc' \in [Instances -> Places]
      BY <2>3 DEF ResetNoise, Working
    <3>2. /\ handle' \in [Instances -> [Effects -> BOOLEAN]]
          /\ live' \in [Instances -> [Effects -> Int]]
      <4> HIDE DEF TypeOK, Goes, effectVars, Effects
      <4>1. "noise" \in Effects /\ Reset(i, "noise")
        BY <2>3 DEF Effects, ResetNoise
      <4> QED
        BY <1>a, <4>1, ResetTypes DEF TypeOK
    <3> QED
      BY <2>3, <3>1, <3>2 DEF ResetNoise, Working, Reset
  <2>4. CASE DestroyContext(i)
    BY <2>4 DEF DestroyContext, Working
  <2>5. CASE Join(i)
    <3>1. pc' \in [Instances -> Places]
      BY <2>5 DEF Join
    <3>2. context' \in [Instances -> {"none", "live", "destroyed"}]
      BY <2>5 DEF Join
    <3>3. left' \in [Instances -> [Effects -> Nat]]
      BY <2>5 DEF Join
    <3>4. handle' \in [Instances -> [Effects -> BOOLEAN]]
      BY <2>5 DEF Join
    <3>5. live' \in [Instances -> [Effects -> Int]]
      <4> HIDE DEF TypeOK, Goes, effectVars, Effects, Places
      <4>1. live \in [Instances -> [Effects -> Int]]
        BY <1>a DEF TypeOK
      <4> DEFINE row == [e \in Effects |-> live[i][e] - (IF handle[i][e] THEN 1 ELSE 0)]
      <4>2. row \in [Effects -> Int]
        BY <4>1
      <4>3. live' = [live EXCEPT ![i] = row]
        BY <2>5 DEF Join
      <4> HIDE DEF row
      <4> QED
        BY <4>1, <4>2, <4>3, RowUpdate
    <3>6. spoiled' \in [Instances -> BOOLEAN]
      BY <2>5 DEF Join
    <3> QED
      BY <2>5, <3>1, <3>2, <3>3, <3>4, <3>5, <3>6 DEF Join
  <2> QED
    BY <1>3, <2>1, <2>2, <2>3, <2>4, <2>5 DEF Destruction
<1>4. ASSUME NEW i \in Instances, AcquirePriority(i) PROVE TypeOK'
  <2>1. process[i] \in Processes /\ class[process[i]] \in Classes \cup {High}
    OBVIOUS
  <2>2. pc' \in [Instances -> Places] /\ users' \in [Processes -> Int]
    <3>1. pc' \in [Instances -> Places]
      BY <1>4 DEF AcquirePriority
    <3>2. users' \in [Processes -> Int]
      <4> HIDE DEF TypeOK, Goes, effectVars, Effects, Places
      <4>1. users \in [Processes -> Int] /\ process[i] \in Processes
        BY <1>a DEF TypeOK
      <4>2. users' = [users EXCEPT ![process[i]] = users[process[i]] + 1]
        BY <1>4 DEF AcquirePriority
      <4> QED
        BY <4>1, <4>2
    <3> QED
      BY <3>1, <3>2
  <2>3. UNCHANGED <<context, effectVars, lock, libraryVars, wanted, file,
                    spoiled, boundVars>>
    BY <1>4 DEF AcquirePriority
  <2>4. CASE users[process[i]] = 0
    <3>1. PICK raises \in BOOLEAN :
            /\ original' = [original EXCEPT ![process[i]] = class[process[i]]]
            /\ changed' = [changed EXCEPT ![process[i]] = raises]
            /\ raised' = [raised EXCEPT ![process[i]] = raises]
            /\ class' = [class EXCEPT ![process[i]] = IF raises THEN High ELSE @]
      BY <1>4, <2>4 DEF AcquirePriority
    <3>2. /\ original' \in [Processes -> Classes \cup {High}]
          /\ changed' \in [Processes -> BOOLEAN]
          /\ raised' \in [Processes -> BOOLEAN]
      BY <2>1, <3>1
    <3>3. class' \in [Processes -> Classes \cup {High}]
      BY <2>1, <3>1
    <3> QED
      BY <2>2, <2>3, <3>2, <3>3
  <2>5. CASE users[process[i]] # 0
    <3>1. UNCHANGED <<original, changed, raised, class>>
      BY <1>4, <2>5 DEF AcquirePriority
    <3> QED
      BY <2>2, <2>3, <3>1
  <2> QED
    BY <2>4, <2>5
<1>5. ASSUME NEW i \in Instances, ReleasePriority(i) PROVE TypeOK'
  <2>1. pc' \in [Instances -> Places] /\ users' \in [Processes -> Int]
    <3>1. pc' \in [Instances -> Places]
      BY <1>5 DEF ReleasePriority
    <3>2. users' \in [Processes -> Int]
      <4> HIDE DEF TypeOK, Goes, effectVars, Effects, Places
      <4>1. users \in [Processes -> Int] /\ process[i] \in Processes
        BY <1>a DEF TypeOK
      <4>2. users' = [users EXCEPT ![process[i]] = users[process[i]] - 1]
        BY <1>5 DEF ReleasePriority
      <4> QED
        BY <4>1, <4>2
    <3> QED
      BY <3>1, <3>2
  <2>2. Restored(process[i]) \in Classes \cup {High}
    BY DEF Restored
  <2>3. class' \in [Processes -> Classes \cup {High}]
    BY <1>5, <2>2 DEF ReleasePriority
  <2>4. raised' \in [Processes -> BOOLEAN]
    BY <1>5 DEF ReleasePriority
  <2> QED
    BY <1>5, <2>1, <2>3, <2>4 DEF ReleasePriority
<1>6. ASSUME LoseFile PROVE TypeOK'
  BY <1>6 DEF LoseFile, Fault, Names
<1>7. ASSUME NEW p \in Processes, NEW c \in Classes, Kill(p, c) PROVE TypeOK'
  <2>1. /\ pc' \in [Instances -> Places]
        /\ context' \in [Instances -> {"none", "live", "destroyed"}]
        /\ spoiled' \in [Instances -> BOOLEAN]
    BY <1>7 DEF Kill, Lost
  <2>2. left' \in [Instances -> [Effects -> Nat]]
    BY <1>7 DEF Kill, Lost
  <2>3. handle' \in [Instances -> [Effects -> BOOLEAN]]
    BY <1>7 DEF Kill, Lost
  <2>4. live' \in [Instances -> [Effects -> Int]]
    <3> HIDE DEF TypeOK, Goes, effectVars, Effects, Places
    <3>1. live \in [Instances -> [Effects -> Int]]
      BY <1>a DEF TypeOK
    <3>2. [e \in Effects |-> 0] \in [Effects -> Int]
      OBVIOUS
    <3>3. live' = [j \in Instances |-> IF process[j] = p THEN [e \in Effects |-> 0]
                                       ELSE live[j]]
      BY <1>7 DEF Kill, Lost
    <3> QED
      BY <3>1, <3>2, <3>3
  <2>5. /\ lock' \in [Processes -> BOOLEAN] /\ library' \in [Processes -> BOOLEAN]
        /\ api' \in [Processes -> {"none", "part", "all"}]
        /\ changed' \in [Processes -> BOOLEAN]
        /\ raised' \in [Processes -> BOOLEAN]
    BY <1>7 DEF Kill
  <2>6. users' \in [Processes -> Int]
    <3> HIDE DEF TypeOK, Goes, effectVars, Effects, Places
    <3>1. users \in [Processes -> Int] /\ users' = [users EXCEPT ![p] = 0]
      BY <1>a, <1>7 DEF TypeOK, Kill
    <3> QED
      BY <3>1
  <2>7. /\ original' \in [Processes -> Classes \cup {High}]
        /\ class' \in [Processes -> Classes \cup {High}]
        /\ wanted' \in [Processes -> Classes]
    BY <1>7 DEF Kill
  <2>8. UNCHANGED <<file, process, complete>>
    BY <1>7 DEF Kill, Fault
  <2> QED
    BY <2>1, <2>2, <2>3, <2>4, <2>5, <2>6, <2>7, <2>8
<1>8. ASSUME NEW p \in Processes, NEW c \in Classes, SetClass(p, c) PROVE TypeOK'
  BY <1>8 DEF SetClass, Fault
<1> QED
  BY <1>1, <1>2, <1>3, <1>4, <1>5, <1>6, <1>7, <1>8, NextSteps

-----------------------------------------------------------------------------
\* The invariant is inductive.
LEMMA IInvStep ==
  ASSUME IInv, [Next]_vars
  PROVE  IInv'
<1>1. CASE Next
  BY <1>1, TypeStep, OrderStep, LicenseStep, ClassStep, WholeStep DEF IInv
<1>2. CASE UNCHANGED vars
  <2>1. UNCHANGED <<pc, context, left, handle, live, file, spoiled, process,
                  complete>>
    BY <1>2 DEF vars, effectVars, boundVars
  <2>2. UNCHANGED <<lock, library, api, users, changed, original, class, wanted, raised>>
    BY <1>2 DEF vars, processVars, libraryVars, priorityVars
  <2>3. TypeOK' = TypeOK
    BY <2>1, <2>2 DEF TypeOK
  <2>4. PreparedIsWhole' = PreparedIsWhole
    BY <2>1 DEF PreparedIsWhole
  <2>5. EffectsAreOrderly'
    BY <2>1 DEF IInv, EffectsAreOrderly, OrderlyAt
  <2>6. EffectsAreLicensed'
    BY <2>1, <2>2 DEF IInv, EffectsAreLicensed, Loaded
  <2>7. ClassIsBalanced'
    BY <2>2 DEF IInv, ClassIsBalanced
  <2> QED
    BY <2>3, <2>4, <2>5, <2>6, <2>7 DEF IInv
<1> QED
  BY <1>1, <1>2

\* Every reachable state satisfies the invariant: however many instances
\* start, fail, stop and are killed in however many processes.
THEOREM Invariance == Spec => []IInv
<1>1. IInv /\ [Next]_vars => IInv'
  BY IInvStep
<1> QED
  BY InitInv, <1>1, PTL DEF Spec

\* What PackagedRuntime::prepare is about to load is whole or gone: the file
\* written by one instance is not seen by another before it is complete.
THEOREM PreparedWhole == Spec => []PreparedIsWhole
<1>1. IInv => PreparedIsWhole
  BY DEF IInv
<1> QED
  BY Invariance, <1>1, PTL

\* If the bundle's library exports every function, an effect exists only in a
\* process that has imported them all.
THEOREM LicensedEffects == Spec => []EffectsHaveApi
<1>1. IInv => EffectsHaveApi
  <2> SUFFICES ASSUME IInv, complete, NEW i \in Instances, NEW e \in Effects,
                      live[i][e] > 0
               PROVE  api[process[i]] = "all"
    BY DEF EffectsHaveApi
  <2>1. ~handle[i][e] => live[i][e] = 0
    BY DEF IInv, EffectsAreOrderly, OrderlyAt
  <2>2. handle[i][e]
    BY <2>1
  <2>3. process[i] \in Processes /\ api[process[i]] \in {"none", "part", "all"}
    BY DEF IInv, TypeOK
  <2> QED
    BY <2>2, <2>3 DEF IInv, EffectsAreLicensed, Loaded
<1> QED
  BY Invariance, <1>1, PTL

\* The effects are destroyed before their context, and none is left behind by
\* a stop: each pointer stands for one effect, whatever models failed.
THEOREM HandlesFirst == Spec => []HandlesDieFirst
<1>1. IInv => HandlesDieFirst
  <2> SUFFICES ASSUME IInv, NEW i \in Instances, NEW e \in Effects,
                      context[i] = "destroyed" \/ pc[i] = "off"
               PROVE  live[i][e] = 0
    BY DEF HandlesDieFirst
  <2>1. OrderlyAt(i)
    BY DEF IInv, EffectsAreOrderly
  <2>2. ~handle[i][e]
    BY <2>1 DEF OrderlyAt, Effects
  <2> QED
    BY <2>1, <2>2 DEF OrderlyAt
<1> QED
  BY Invariance, <1>1, PTL

\* The priority class of a process is raised exactly while the plug-in's own
\* change stands, and is otherwise what others last made it.
THEOREM PriorityRestored == Spec => []PriorityIsRestored
<1>1. IInv => PriorityIsRestored
  BY DEF IInv, ClassIsBalanced, PriorityIsRestored
<1> QED
  BY Invariance, <1>1, PTL
===============================================================================
