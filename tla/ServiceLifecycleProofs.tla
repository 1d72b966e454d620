------------------------ MODULE ServiceLifecycleProofs ------------------------
(* Proofs about ServiceLifecycle, for any number of profiles, configs and  *)
(* saved states and any set of taking-part tasks.                          *)
EXTENDS ServiceLifecycle, TLAPS

USE DEF platformVars, noteVars, history

-----------------------------------------------------------------------------
(* Types. *)

(* The absence of a path is not a path. *)
LEMMA NoPathIsNone == NoPath \notin Paths
  BY ConstantsAssumption DEF NoPath, Paths

(* Building a profile of a saved state gives a path of that profile, or    *)
(* NoPath; without a profile it gives NoPath.                              *)
LEMMA BuildType ==
  ASSUME NEW s \in States, NEW id \in Ids
  PROVE  /\ Build(s, id) \in Paths \cup {NoPath}
         /\ Build(s, id) # NoPath => Build(s, id) \in Paths /\ Build(s, id).id = id
         /\ id = NoId => Build(s, id) = NoPath
  BY ConstantsAssumption DEF Build, States, Paths, NoPath, Ids

(* The OS proxy outcomes of a mode are OS proxy values. *)
LEMMA OsProxyType ==
  ASSUME NEW mode
  PROVE  OsProxyFor(mode) \subseteq {"off", "system", "pac"}
  BY DEF OsProxyFor

TypeInv == TypeOK /\ InHand

(* A refresh that is called is well-formed and has nothing in hand yet. *)
LEMMA RefreshCalled ==
  ASSUME TypeInv, NEW r \in Refreshers, NEW a \in Ids,
         refresh' = [refresh EXCEPT ![r] =
                       [IdleRefresh EXCEPT !.pc = "clone", !.active = a]]
  PROVE  /\ refresh' \in [Refreshers -> RefreshCalls]
         /\ \A q \in Refreshers :
              /\ refresh'[q].pc \in {"build", "apply", "mode"}
                   => refresh'[q].base \in Paths /\ refresh'[q].active \in Profiles
              /\ refresh'[q].pc \in {"apply", "mode"} => refresh'[q].next \in Paths
  <1> DEFINE new == [IdleRefresh EXCEPT !.pc = "clone", !.active = a]
  <1>1. new \in RefreshCalls /\ new.pc = "clone"
    BY DEF IdleRefresh, RefreshCalls
  <1>2. refresh' = [refresh EXCEPT ![r] = new]
    OBVIOUS
  <1> HIDE DEF new
  <1> QED
    BY <1>1, <1>2 DEF TypeInv, TypeOK, InHand

(* Every task of the service keeps the shared state well-formed: the       *)
(* requests that take a lock or start a probe.                             *)
LEMMA TypeRequests ==
  ASSUME TypeInv, Requests
  PROVE  TypeInv'
  <1> USE ConstantsAssumption DEF TypeInv, TypeOK, InHand
  <1>1. ASSUME NEW id \in Ids, UserStart(id) PROVE TypeInv'
    BY <1>1 DEF UserStart, ChainSteps
  <1>2. CASE UserStop
    BY <1>2 DEF UserStop, ChainSteps
  <1>a. ASSUME BeginRestart PROVE TypeInv'
    BY <1>a DEF BeginRestart, ChainSteps, Ids
  <1>3. CASE UserReload
    BY <1>3, <1>a DEF UserReload
  <1>4. CASE UserProbe
    <2> DEFINE new == [IdleProbe EXCEPT !.pc = "profile", !.current = TRUE]
    <2>1. new \in ProbeCalls
      BY DEF IdleProbe, ProbeCalls, Ids, Results
    <2>2. ProbeStep("user", new) /\ UNCHANGED <<verdict, dog>>
      BY <1>4 DEF UserProbe, ProbeBegin
    <2> HIDE DEF new
    <2>3. probe' \in [Probers -> ProbeCalls]
      BY <2>1, <2>2 DEF ProbeStep
    <2>4. InHand'
      BY <2>2 DEF ProbeStep
    <2> QED
      BY <2>2, <2>3, <2>4 DEF ProbeStep
  <1>5. ASSUME NEW s \in AppStates, EditSave(s) PROVE TypeInv'
    <2>1. s \in States /\ s.active \in Ids
      BY DEF States, Ids
    <2>2. "edit" \in Refreshers
      BY DEF Refreshers
    <2>3. refresh' \in [Refreshers -> RefreshCalls] /\ InHand'
      BY <1>5, <2>1, <2>2, RefreshCalled DEF EditSave
    <2> QED
      BY <1>5, <2>1, <2>3 DEF EditSave
  <1>b. ASSUME MaybeAutoStart, chain = "idle" PROVE TypeInv'
    <2>1. \/ chain' = "stop" /\ want' = NoId /\ wanted' = TRUE
          \/ UNCHANGED <<chain, want, wanted>>
      BY <1>b DEF MaybeAutoStart
    <2>2. chain' \in ChainSteps /\ want' \in Ids /\ wanted' \in BOOLEAN
      BY <1>b, <2>1 DEF ChainSteps, Ids
    <2>3. InHand'
      BY <1>b, <2>1 DEF MaybeAutoStart
    <2> QED
      BY <1>b, <2>2, <2>3 DEF MaybeAutoStart
  <1>6. CASE BootAutoStart
    BY <1>6, <1>b DEF BootAutoStart
  <1>7. CASE NetworkChange
    BY <1>7, <1>a, <1>b DEF NetworkChange
  <1>8. CASE SystemResume
    BY <1>8, <1>a DEF SystemResume
  <1>9. CASE AssetChanged
    BY <1>9 DEF AssetChanged, EngineUp
  <1>10. ASSUME NEW s \in AppStates, NEW affected \in BOOLEAN,
                SubApply(s, affected)
         PROVE  TypeInv'
    <2>1. s \in States /\ s.active \in Ids
      BY DEF States, Ids
    <2>2. CASE affected /\ EngineUp /\ (s.active = NoId \/ ConfigChanged(saved, s))
      BY <1>10, <2>1, <2>2 DEF SubApply, ChainSteps
    <2>3. CASE ~(affected /\ EngineUp /\ (s.active = NoId \/ ConfigChanged(saved, s)))
      <3>1. "sub" \in Refreshers
        BY DEF Refreshers
      <3>2. refresh' \in [Refreshers -> RefreshCalls] /\ InHand'
        BY <1>10, <2>1, <2>3, <3>1, RefreshCalled DEF SubApply
      <3> QED
        BY <1>10, <2>1, <2>3, <3>2 DEF SubApply, ChainSteps
    <2> QED
      BY <2>2, <2>3
  <1>11. CASE DogSample
    BY <1>11 DEF DogSample, DogOnly, EngineUp, Claims, UpOrComing, Dogs
  <1> QED
    BY <1>1, <1>2, <1>3, <1>4, <1>5, <1>6, <1>7, <1>8, <1>9, <1>10, <1>11
    DEF Requests

(* reset_connectivity and note_data_path_stopped leave well-formed values. *)
LEMMA TypeNote ==
  ASSUME TypeInv
  PROVE  /\ ResetConnectivity =>
              verdict' \in Verdicts /\ probe' \in [Probers -> ProbeCalls]
         /\ NoteStopped =>
              /\ verdict' \in Verdicts /\ probe' \in [Probers -> ProbeCalls]
              /\ baseline' \in Paths \cup {NoPath} /\ pending' \in BOOLEAN
  <1>1. NoVerdict \in Verdicts
    BY DEF NoVerdict, Verdicts, Ids, Results
  <1>2. \A p \in Probers : [probe[p] EXCEPT !.current = FALSE] \in ProbeCalls
    BY DEF TypeInv, TypeOK, ProbeCalls
  <1>3. ResetConnectivity =>
          verdict' \in Verdicts /\ probe' \in [Probers -> ProbeCalls]
    BY <1>1, <1>2 DEF ResetConnectivity
  <1> QED
    BY <1>3 DEF NoteStopped

(* The steps of a chain keep the shared state well-formed. *)
LEMMA TypeChain ==
  ASSUME TypeInv, ChainStep
  PROVE  TypeInv'
  <1> USE ConstantsAssumption DEF TypeInv, TypeOK, InHand
  <1>a. ASSUME NEW keep \in BOOLEAN, StopOk(keep) \/ StopErr(keep)
        PROVE  /\ link' \in BOOLEAN /\ helper' \in BOOLEAN
               /\ core' \in Paths \cup {NoPath}
               /\ doc' \in {"stopped", "connecting", "failed"}
    BY <1>a DEF StopOk, StopErr, StopDone
  <1>1. CASE StopOld
    <2>1. chain' \in {"note", "idle"} /\ want' \in Ids
      BY <1>1 DEF StopOld, Ids
    <2>2. /\ link' \in BOOLEAN /\ helper' \in BOOLEAN
          /\ core' \in Paths \cup {NoPath}
          /\ doc' \in {"stopped", "connecting", "failed"}
      BY <1>1, <1>a DEF StopOld
    <2>3. InHand'
      BY <1>1, <2>1 DEF StopOld
    <2> QED
      BY <1>1, <2>1, <2>2, <2>3 DEF StopOld, ChainSteps
  <1>2. CASE NoteOldStopped
    <2>1. chain' \in ChainSteps /\ InHand'
      BY <1>2 DEF NoteOldStopped, ChainSteps
    <2> QED
      BY <1>2, <2>1, TypeNote DEF NoteOldStopped
  <1>3. CASE Resolve
    <2> DEFINE id == IF want # NoId THEN want ELSE saved.active
    <2>1. saved.active \in Ids
      BY DEF States, Ids
    <2>2. Build(saved, id) # NoPath => Build(saved, id) \in Paths
      BY <2>1, BuildType
    <2>3. \/ built' \in Paths /\ chain' = "record"
          \/ built' = built /\ chain' = "idle"
      BY <1>3, <2>2 DEF Resolve
    <2>4. InHand'
      BY <1>3, <2>3 DEF Resolve
    <2>5. built' \in Paths \cup {NoPath} /\ chain' \in ChainSteps /\ want' \in Ids
      BY <1>3, <2>3 DEF Resolve, ChainSteps, Ids
    <2> QED
      BY <1>3, <2>4, <2>5 DEF Resolve
  <1>4. CASE RecordConnecting
    BY <1>4 DEF RecordConnecting, ChainSteps
  <1>5. CASE SpawnCore
    <2>1. built \in Paths /\ built.id \in Profiles
      BY <1>5 DEF SpawnCore, Paths
    <2>2. verdict' \in Verdicts
      BY <1>5 DEF SpawnCore, Verdicts
    <2>3. \A p \in Probers : [probe[p] EXCEPT !.latest = FALSE] \in ProbeCalls
      BY DEF ProbeCalls
    <2>4. probe' \in [Probers -> ProbeCalls]
      BY <1>5, <2>3 DEF SpawnCore
    <2>5. InHand'
      BY <1>5 DEF SpawnCore
    <2> QED
      BY <1>5, <2>1, <2>2, <2>4, <2>5 DEF SpawnCore, ChainSteps
  <1>6. CASE BringUp
    BY <1>6 DEF BringUp, ChainSteps
  <1>7. CASE StartFails
    <2>1. /\ link' \in BOOLEAN /\ helper' \in BOOLEAN
          /\ core' \in Paths \cup {NoPath}
          /\ doc' \in {"stopped", "connecting", "failed"}
      BY <1>7 DEF StartFails
    <2>2. chain' \in ChainSteps /\ InHand'
      BY <1>7 DEF StartFails, ChainSteps
    <2> QED
      BY <1>7, <2>1, <2>2 DEF StartFails
  <1>8. CASE CleanUpFailed
    <2>1. chain' \in ChainSteps /\ InHand'
      BY <1>8 DEF CleanUpFailed, ChainSteps
    <2> QED
      BY <1>8, <2>1, TypeNote DEF CleanUpFailed
  <1>9. CASE NoteStarted
    <2>1. osProxy' \in {"off", "system", "pac"}
      BY <1>9, OsProxyType DEF NoteStarted
    <2> QED
      BY <1>9, <2>1 DEF NoteStarted, ChainSteps
  <1>10. CASE ClearForStop
    <2>1. chain' \in ChainSteps /\ InHand'
      BY <1>10 DEF ClearForStop, ChainSteps
    <2> QED
      BY <1>10, <2>1, TypeNote DEF ClearForStop
  <1>11. CASE Halt
    <2>1. /\ link' \in BOOLEAN /\ helper' \in BOOLEAN
          /\ core' \in Paths \cup {NoPath}
          /\ doc' \in {"stopped", "connecting", "failed"}
      BY <1>11, <1>a DEF Halt
    <2>2. assetsStale' \in BOOLEAN /\ wanted' \in BOOLEAN
      BY <1>11 DEF Halt
    <2>3. chain' \in ChainSteps /\ InHand'
      BY <1>11 DEF Halt, ChainSteps
    <2> QED
      BY <1>11, <2>1, <2>2, <2>3 DEF Halt
  <1>12. CASE DogReap
    <2>1. /\ link' \in BOOLEAN /\ helper' \in BOOLEAN
          /\ core' \in Paths \cup {NoPath}
          /\ doc' \in {"stopped", "connecting", "failed"}
      BY <1>12, <1>a DEF DogReap
    <2>2. wanted' \in BOOLEAN
      BY <1>12 DEF DogReap
    <2>3. chain' \in ChainSteps /\ InHand'
      BY <1>12 DEF DogReap, ChainSteps
    <2> QED
      BY <1>12, <2>1, <2>2, <2>3 DEF DogReap
  <1>13. CASE DogReaped
    <2>1. chain' \in ChainSteps /\ InHand'
      BY <1>13 DEF DogReaped, ChainSteps
    <2>2. dog' \in Dogs
      BY <1>13 DEF DogReaped, IdleDog, Dogs
    <2> QED
      BY <1>13, <2>1, <2>2, TypeNote DEF DogReaped
  <1> QED
    BY <1>1, <1>2, <1>3, <1>4, <1>5, <1>6, <1>7, <1>8, <1>9, <1>10, <1>11,
       <1>12, <1>13
    DEF ChainStep

(* A refresh hands its caller well-formed values at every step. *)
LEMMA TypeRefresh ==
  ASSUME TypeInv, NEW r \in Refreshers, RefreshStep(r)
  PROVE  TypeInv'
  <1> USE ConstantsAssumption DEF TypeInv
  <1>0. refresh[r] \in RefreshCalls /\ refresh \in [Refreshers -> RefreshCalls]
    BY DEF TypeOK
  <1>a. ASSUME RefreshDone(r), built' = built
        PROVE  /\ refresh' \in [Refreshers -> RefreshCalls]
               /\ stateWrite' \in {"free", "edit", "settle"}
               /\ chain' \in ChainSteps
               /\ InHand'
    <2>1. IdleRefresh \in RefreshCalls /\ IdleRefresh.pc = "idle"
      BY DEF IdleRefresh, RefreshCalls, Ids
    <2>2. refresh' \in [Refreshers -> RefreshCalls]
      BY <1>a, <1>0, <2>1 DEF RefreshDone
    <2>3. stateWrite' \in {"free", "edit", "settle"} /\ chain' \in ChainSteps
      BY <1>a DEF RefreshDone, TypeOK, ChainSteps
    <2>4. chain' \in {"record", "spawn", "bringup", "up"} => built' \in Paths
      BY <1>a DEF RefreshDone, InHand
    <2>5. \A q \in Refreshers : refresh'[q] = IdleRefresh \/ refresh'[q] = refresh[q]
      BY <1>a, <1>0 DEF RefreshDone
    <2> QED
      BY <2>1, <2>2, <2>3, <2>4, <2>5 DEF InHand
  <1>b. ASSUME NEW pc \in {"build", "apply", "mode"}, NEW base \in Paths,
               NEW next \in Paths \cup {NoPath},
               pc # "build" => next \in Paths, refresh[r].active \in Profiles,
               RefreshGoes(r, pc, base, next), built' = built
        PROVE  /\ refresh' \in [Refreshers -> RefreshCalls]
               /\ stateWrite' \in {"free", "edit", "settle"}
               /\ chain' \in ChainSteps
               /\ InHand'
    <2> DEFINE new == [refresh[r] EXCEPT !.pc = pc, !.base = base, !.next = next]
    <2>1. /\ new \in RefreshCalls /\ new.pc = pc /\ new.base = base
          /\ new.next = next /\ new.active = refresh[r].active
      BY <1>0, <1>b DEF RefreshCalls
    <2>2. refresh' = [refresh EXCEPT ![r] = new]
      BY <1>0, <1>b DEF RefreshGoes
    <2> HIDE DEF new
    <2>3. refresh' \in [Refreshers -> RefreshCalls]
      BY <1>0, <2>1, <2>2
    <2>4. \A q \in Refreshers : refresh'[q] = IF q = r THEN new ELSE refresh[q]
      BY <1>0, <2>2
    <2>5. InHand'
      BY <1>b, <2>1, <2>4 DEF InHand, RefreshGoes
    <2> QED
      BY <1>b, <2>3, <2>5 DEF RefreshGoes, TypeOK
  <1>1. CASE RefreshClone(r)
    <2>1. /\ refresh' \in [Refreshers -> RefreshCalls]
          /\ stateWrite' \in {"free", "edit", "settle"}
          /\ chain' \in ChainSteps
          /\ InHand'
      <3>1. CASE baseline = NoPath \/ refresh[r].active = NoId
        BY <1>1, <1>a, <3>1 DEF RefreshClone
      <3>2. CASE ~(baseline = NoPath \/ refresh[r].active = NoId)
        <4>1. baseline \in Paths /\ refresh[r].active \in Profiles
          BY <1>0, <3>2 DEF TypeOK, RefreshCalls, Ids
        <4> QED
          BY <1>1, <1>b, <3>2, <4>1 DEF RefreshClone
      <3> QED
        BY <3>1, <3>2
    <2> QED
      BY <1>1, <2>1 DEF RefreshClone, TypeOK
  <1>2. CASE RefreshBuild(r)
    <2> DEFINE next == Build(saved, refresh[r].active)
    <2>1. refresh[r].base \in Paths /\ refresh[r].active \in Profiles
      BY <1>2 DEF RefreshBuild, InHand
    <2>2. next # NoPath => next \in Paths
      BY <2>1, BuildType DEF TypeOK, Ids
    <2>3. /\ refresh' \in [Refreshers -> RefreshCalls]
          /\ stateWrite' \in {"free", "edit", "settle"}
          /\ chain' \in ChainSteps
          /\ InHand'
      <3>1. CASE next = NoPath
        BY <1>2, <1>a, <3>1 DEF RefreshBuild
      <3>2. CASE next # NoPath
        BY <1>2, <1>b, <2>1, <2>2, <3>2 DEF RefreshBuild
      <3> QED
        BY <3>1, <3>2
    <2> QED
      BY <1>2, <2>3 DEF RefreshBuild, TypeOK
  <1>3. CASE RefreshApply(r)
    <2> DEFINE base == refresh[r].base
               next == refresh[r].next
               effect == MutationEffect(base, next)
    <2>1. base \in Paths /\ next \in Paths /\ refresh[r].active \in Profiles
      BY <1>3 DEF RefreshApply, InHand
    <2>2. ASSUME Adopt(base.id, refresh[r].active)
          PROVE  /\ baseline' \in Paths \cup {NoPath}
                 /\ verdict' \in Verdicts
      <3>1. base.id \in Profiles
        BY <2>1 DEF Paths
      <3>2. baseline' \in Paths \cup {NoPath}
        <4>1. baseline.id = base.id => baseline \in Paths
          BY <3>1 DEF TypeOK, NoPath
        <4>2. ASSUME baseline \in Paths
              PROVE  [baseline EXCEPT !.id = refresh[r].active] \in Paths
          BY <2>1, <4>2 DEF Paths
        <4> QED
          BY <2>2, <4>1, <4>2 DEF Adopt, TypeOK
      <3>3. verdict' \in Verdicts
        BY <2>1, <2>2 DEF Adopt, TypeOK, Verdicts, Ids
      <3> QED
        BY <3>2, <3>3
    <2>3. /\ baseline' \in Paths \cup {NoPath}
          /\ verdict' \in Verdicts
      BY <1>3, <2>2 DEF RefreshApply, TypeOK
    <2>4. /\ refresh' \in [Refreshers -> RefreshCalls]
          /\ stateWrite' \in {"free", "edit", "settle"}
          /\ chain' \in ChainSteps
          /\ InHand'
      <3>1. CASE effect = "live"
        <4>1. RefreshGoes(r, "mode", base, next) /\ built' = built
          BY <1>3, <3>1 DEF RefreshApply
        <4> QED
          BY <1>b, <2>1, <4>1
      <3>2. CASE effect # "live"
        <4>1. RefreshDone(r) /\ built' = built
          BY <1>3, <3>2 DEF RefreshApply
        <4> QED
          BY <1>a, <4>1
      <3> QED
        BY <3>1, <3>2
    <2>5. osProxy' \in {"off", "system", "pac"} /\ pending' \in BOOLEAN
      <3>1. CASE effect = "live"
        BY <1>3, <3>1, OsProxyType DEF RefreshApply, TypeOK
      <3>2. CASE effect # "live"
        BY <1>3, <3>2 DEF RefreshApply, TypeOK
      <3> QED
        BY <3>1, <3>2
    <2> QED
      BY <1>3, <2>3, <2>4, <2>5 DEF RefreshApply, TypeOK
  <1>4. CASE RefreshMode(r)
    <2>1. refresh[r].next \in Paths
      BY <1>4 DEF RefreshMode, InHand
    <2>2. baseline' \in Paths \cup {NoPath}
      <3>1. ASSUME baseline \in Paths
            PROVE  [baseline EXCEPT !.mode = refresh[r].next.mode] \in Paths
        BY <2>1, <3>1 DEF Paths
      <3> QED
        BY <1>4, <3>1 DEF RefreshMode, TypeOK
    <2>3. /\ refresh' \in [Refreshers -> RefreshCalls]
          /\ stateWrite' \in {"free", "edit", "settle"}
          /\ chain' \in ChainSteps
          /\ InHand'
      BY <1>4, <1>a DEF RefreshMode
    <2> QED
      BY <1>4, <2>2, <2>3 DEF RefreshMode, TypeOK
  <1> QED
    BY <1>1, <1>2, <1>3, <1>4 DEF RefreshStep

(* A probe keeps its call and the verdict well-formed. *)
LEMMA TypeProbe ==
  ASSUME TypeInv, NEW p \in Probers, ProbeRuns(p)
  PROVE  TypeInv'
  <1> USE ConstantsAssumption DEF TypeInv
  <1>0. probe[p] \in ProbeCalls /\ probe \in [Probers -> ProbeCalls]
    BY DEF TypeOK
  <1>a. ASSUME NEW new \in ProbeCalls, ProbeStep(p, new),
               verdict' \in Verdicts, dog' \in Dogs
        PROVE  TypeInv'
    <2>1. probe' \in [Probers -> ProbeCalls]
      BY <1>0, <1>a DEF ProbeStep
    <2>2. InHand'
      BY <1>a DEF ProbeStep, InHand
    <2> QED
      BY <1>a, <2>1, <2>2 DEF ProbeStep, TypeOK
  <1>b. verdict \in Verdicts /\ dog \in Dogs
    BY DEF TypeOK
  <1>1. CASE ProbeProfile(p)
    <2> DEFINE id == IF baseline # NoPath THEN baseline.id ELSE saved.active
               new == [probe[p] EXCEPT !.pc = "status", !.id = id]
    <2>1. id \in Ids
      BY DEF TypeOK, Paths, States, Ids
    <2> HIDE DEF id
    <2>2. new \in ProbeCalls
      BY <1>0, <2>1 DEF ProbeCalls
    <2>3. ProbeStep(p, new) /\ UNCHANGED <<verdict, dog>>
      BY <1>1 DEF ProbeProfile, id
    <2> HIDE DEF new
    <2> QED
      BY <1>a, <1>b, <2>2, <2>3
  <1>2. CASE ProbeStatus(p)
    <2> DEFINE new == [probe[p] EXCEPT !.pc = IF EngineUp THEN "fetch" ELSE "store"]
    <2>1. new \in ProbeCalls
      BY <1>0 DEF ProbeCalls
    <2>2. ProbeStep(p, new) /\ UNCHANGED <<verdict, dog>>
      BY <1>2 DEF ProbeStatus
    <2> HIDE DEF new
    <2> QED
      BY <1>a, <1>b, <2>1, <2>2
  <1>3. CASE ProbeFetch(p)
    <2>1. PICK result \in {"reachable", "unreachable"} :
            ProbeStep(p, [probe[p] EXCEPT !.pc = "store", !.result = result,
                                          !.latest = TRUE])
      BY <1>3 DEF ProbeFetch
    <2> DEFINE new == [probe[p] EXCEPT !.pc = "store", !.result = result,
                                       !.latest = TRUE]
    <2>2. new \in ProbeCalls
      BY <1>0 DEF ProbeCalls, Results
    <2>3. ProbeStep(p, new) /\ UNCHANGED <<verdict, dog>>
      BY <1>3, <2>1 DEF ProbeFetch
    <2> HIDE DEF new
    <2> QED
      BY <1>a, <1>b, <2>2, <2>3
  <1>4. CASE ProbeStore(p)
    <2>1. IdleProbe \in ProbeCalls /\ IdleDog \in Dogs
      BY DEF IdleProbe, IdleDog, ProbeCalls, Dogs, Ids, Results
    <2>2. [id |-> probe[p].id, result |-> probe[p].result,
           latest |-> probe[p].latest] \in Verdicts
      BY <1>0 DEF ProbeCalls, Verdicts
    <2>3. verdict' \in Verdicts /\ dog' \in Dogs /\ ProbeStep(p, IdleProbe)
      BY <1>4, <1>b, <2>1, <2>2 DEF ProbeStore
    <2> QED
      BY <1>a, <2>1, <2>3
  <1> QED
    BY <1>1, <1>2, <1>3, <1>4 DEF ProbeRuns

(* So do the watchdog's own steps, the settle and the failures. *)
LEMMA TypeRest ==
  ASSUME TypeInv, SettleBegin \/ DogCheck \/ DogLock \/ DogTail \/ Failures
  PROVE  TypeInv'
  <1> USE ConstantsAssumption DEF TypeInv
  <1>1. CASE SettleBegin
    <2>1. saved.active \in Ids /\ "settle" \in Refreshers
      BY DEF TypeOK, States, Ids, Refreshers
    <2>2. /\ refresh' \in [Refreshers -> RefreshCalls]
          /\ \A q \in Refreshers :
               /\ refresh'[q].pc \in {"build", "apply", "mode"}
                    => refresh'[q].base \in Paths /\ refresh'[q].active \in Profiles
               /\ refresh'[q].pc \in {"apply", "mode"} => refresh'[q].next \in Paths
      BY <1>1, <2>1, RefreshCalled DEF SettleBegin
    <2>3. InHand' /\ chain' \in ChainSteps
      BY <1>1, <2>2 DEF SettleBegin, InHand, ChainSteps
    <2> QED
      BY <1>1, <2>2, <2>3 DEF SettleBegin, TypeOK
  <1>2. CASE DogCheck
    <2>1. dog' \in Dogs
      BY <1>2 DEF DogCheck, Dogs, TypeOK
    <2>2. InHand'
      BY <1>2 DEF DogCheck, DogOnly, InHand
    <2> QED
      BY <1>2, <2>1, <2>2 DEF DogCheck, DogOnly, TypeOK
  <1>3. CASE DogLock
    <2>1. dog' \in Dogs
      BY <1>3 DEF DogLock, Dogs, IdleDog, TypeOK
    <2>2. chain' \in ChainSteps /\ InHand'
      BY <1>3 DEF DogLock, InHand, ChainSteps
    <2> QED
      BY <1>3, <2>1, <2>2 DEF DogLock, TypeOK
  <1>4. CASE DogTail
    <2>0. IdleDog \in Dogs /\ [IdleDog EXCEPT !.pc = "probing"] \in Dogs
      BY DEF IdleDog, Dogs
    <2>1. CASE dog' = IdleDog /\ DogOnly
      <3>1. InHand'
        BY <2>1 DEF DogOnly, InHand
      <3> QED
        BY <2>0, <2>1, <3>1 DEF DogOnly, TypeOK
    <2>2. CASE /\ ResetConnectivity
               /\ dog' = IdleDog
               /\ UNCHANGED <<saved, platformVars, chain, want, built, stateWrite,
                              refresh, baseline, pending, assetsStale, autoStarted,
                              history>>
      <3>1. InHand'
        BY <2>2 DEF InHand
      <3> QED
        BY <2>0, <2>2, <3>1, TypeNote DEF TypeOK
    <2>3. CASE ProbeBegin("watchdog") /\ dog' = [IdleDog EXCEPT !.pc = "probing"]
      <3> DEFINE new == [IdleProbe EXCEPT !.pc = "profile", !.current = TRUE]
      <3>1. new \in ProbeCalls
        BY DEF IdleProbe, ProbeCalls, Ids, Results
      <3>2. ProbeStep("watchdog", new) /\ UNCHANGED verdict /\ dog' \in Dogs
        BY <2>0, <2>3 DEF ProbeBegin
      <3> HIDE DEF new
      <3>3. probe' \in [Probers -> ProbeCalls]
        BY <3>1, <3>2 DEF ProbeStep, TypeOK
      <3>4. InHand'
        BY <3>2 DEF ProbeStep, InHand
      <3> QED
        BY <3>2, <3>3, <3>4 DEF ProbeStep, TypeOK
    <2> QED
      BY <1>4, <2>1, <2>2, <2>3 DEF DogTail
  <1>5. CASE Failures
    <2>1. InHand'
      BY <1>5 DEF Failures, CoreDies, HelperDies, LinkBreaks, InHand
    <2>2. CASE CoreDies
      BY <2>1, <2>2 DEF CoreDies, TypeOK
    <2>3. CASE HelperDies
      <3>1. /\ helper' \in BOOLEAN
            /\ UNCHANGED <<saved, link, core, doc, osProxy, chain, want, built,
                  stateWrite, refresh, noteVars, assetsStale, autoStarted, dog,
                  history>>
        BY <2>3 DEF HelperDies
      <3> QED
        BY <2>1, <3>1 DEF TypeOK
    <2>4. CASE LinkBreaks
      <3>1. /\ link' \in BOOLEAN
            /\ UNCHANGED <<saved, core, helper, doc, osProxy, chain, want, built,
                  stateWrite, refresh, noteVars, assetsStale, autoStarted, dog,
                  history>>
        BY <2>4 DEF LinkBreaks
      <3> QED
        BY <2>1, <3>1 DEF TypeOK
    <2> QED
      BY <1>5, <2>2, <2>3, <2>4 DEF Failures
  <1> QED
    BY <1>1, <1>2, <1>3, <1>4, <1>5

(* The first state is well-formed. *)
LEMMA TypeInit ==
  ASSUME Init
  PROVE  TypeInv
  <1> USE ConstantsAssumption
  <1>1. /\ IdleRefresh \in RefreshCalls /\ IdleRefresh.pc = "idle"
        /\ IdleProbe \in ProbeCalls /\ IdleDog \in Dogs /\ NoVerdict \in Verdicts
    BY DEF IdleRefresh, RefreshCalls, IdleProbe, ProbeCalls, IdleDog, Dogs,
           NoVerdict, Verdicts, Ids, Results
  <1>2. refresh \in [Refreshers -> RefreshCalls] /\ probe \in [Probers -> ProbeCalls]
    BY <1>1 DEF Init
  <1>3. InHand
    BY <1>1 DEF Init, InHand
  <1> QED
    BY <1>1, <1>2, <1>3 DEF Init, TypeInv, TypeOK, ChainSteps, Ids

(* Every step of the service keeps its shared state well-formed. *)
LEMMA TypeStep ==
  ASSUME TypeInv, [Next]_vars
  PROVE  TypeInv'
  <1>1. CASE UNCHANGED vars
    <2>1. InHand'
      BY <1>1 DEF vars, InHand, TypeInv
    <2> QED
      BY <1>1, <2>1 DEF vars, TypeInv, TypeOK
  <1>2. CASE Next
    BY <1>2, TypeRequests, TypeChain, TypeRefresh, TypeProbe, TypeRest DEF Next
  <1> QED
    BY <1>1, <1>2

(* The shared state of the service is well-formed for ever: no             *)
(* interleaving of its tasks puts a path, a verdict or a lock into a value *)
(* the code could not hold.                                                *)
THEOREM TypeCorrect == Spec => []TypeOK
  <1>1. Init => TypeInv
    BY TypeInit
  <1>2. TypeInv /\ [Next]_vars => TypeInv'
    BY TypeStep
  <1>3. TypeInv => TypeOK
    BY DEF TypeInv
  <1> QED
    BY <1>1, <1>2, <1>3, PTL DEF Spec

-----------------------------------------------------------------------------
(* Verdicts. *)

VerdictInv == VerdictMeasuresLatest /\ BetweenCores

(* What a probe in flight may have in hand for VerdictInv to hold. *)
ProbeFits(call, c) ==
  /\ c \in {"resolve", "record", "spawn"} /\ call.current =>
       call.pc # "fetch" /\ call.result = "unknown"
  /\ call.current /\ call.result # "unknown" => call.latest

(* VerdictInv restated call by call. *)
LEMMA VerdictInvByCall ==
  /\ VerdictInv <=>
       /\ verdict.result # "unknown" =>
            verdict.latest /\ chain \notin {"resolve", "record", "spawn"}
       /\ chain \in {"note", "resolve", "record", "spawn"} => core = NoPath
       /\ \A p \in Probers : ProbeFits(probe[p], chain)
  /\ VerdictInv' <=>
       /\ verdict'.result # "unknown" =>
            verdict'.latest /\ chain' \notin {"resolve", "record", "spawn"}
       /\ chain' \in {"note", "resolve", "record", "spawn"} => core' = NoPath
       /\ \A p \in Probers : ProbeFits(probe'[p], chain')
  BY DEF VerdictInv, VerdictMeasuresLatest, BetweenCores, ProbeFits

(* A reset of the verdict suits every chain step. *)
LEMMA ResetFits ==
  ASSUME TypeInv, ResetConnectivity, NEW c
  PROVE  /\ verdict'.result = "unknown"
         /\ \A p \in Probers : ProbeFits(probe'[p], c)
  <1>1. \A p \in Probers : probe'[p].current = FALSE
    BY DEF ResetConnectivity, TypeInv, TypeOK, ProbeCalls
  <1>2. verdict'.result = "unknown"
    BY DEF ResetConnectivity, NoVerdict
  <1> QED
    BY <1>1, <1>2 DEF ProbeFits

(* The chain's steps keep VerdictInv. *)
LEMMA VerdictChain ==
  ASSUME TypeInv, VerdictInv, ChainStep
  PROVE  VerdictInv'
  <1> USE VerdictInvByCall
  <1>1. CASE StopOld
    BY <1>1 DEF StopOld, StopOk, StopErr, StopDone, ProbeFits
  <1>2. CASE NoteOldStopped
    <2>1. core' = NoPath
      BY <1>2 DEF NoteOldStopped
    <2> QED
      BY <1>2, <2>1, ResetFits DEF NoteOldStopped, NoteStopped
  <1>3. CASE Resolve
    BY <1>3 DEF Resolve, ProbeFits
  <1>4. CASE RecordConnecting
    BY <1>4 DEF RecordConnecting, ProbeFits
  <1>5. CASE SpawnCore
    <2>1. verdict'.result = "unknown"
      BY <1>5 DEF SpawnCore, TypeInv, TypeOK, Verdicts
    <2>2. \A p \in Probers : /\ probe'[p].current = probe[p].current
                             /\ probe'[p].result = probe[p].result
      BY <1>5 DEF SpawnCore, TypeInv, TypeOK, ProbeCalls
    <2>3. \A p \in Probers : ProbeFits(probe'[p], "bringup")
      BY <1>5, <2>2 DEF SpawnCore, ProbeFits
    <2> QED
      BY <1>5, <2>1, <2>3 DEF SpawnCore
  <1>6. CASE BringUp
    BY <1>6 DEF BringUp, ProbeFits
  <1>7. CASE StartFails
    BY <1>7 DEF StartFails, ProbeFits
  <1>8. CASE CleanUpFailed
    BY <1>8, ResetFits DEF CleanUpFailed, NoteStopped
  <1>9. CASE NoteStarted
    BY <1>9 DEF NoteStarted, ProbeFits
  <1>10. CASE ClearForStop
    BY <1>10, ResetFits DEF ClearForStop, NoteStopped
  <1>11. CASE Halt
    BY <1>11 DEF Halt, ProbeFits
  <1>12. CASE DogReap
    BY <1>12 DEF DogReap, ProbeFits
  <1>13. CASE DogReaped
    BY <1>13, ResetFits DEF DogReaped, NoteStopped
  <1> QED
    BY <1>1, <1>2, <1>3, <1>4, <1>5, <1>6, <1>7, <1>8, <1>9, <1>10, <1>11,
       <1>12, <1>13
    DEF ChainStep

(* So do the probes themselves: between two cores a probe that still       *)
(* counts finds no engine to fetch through.                                *)
LEMMA VerdictProbe ==
  ASSUME TypeInv, VerdictInv, NEW p \in Probers, ProbeRuns(p)
  PROVE  VerdictInv'
  <1> USE VerdictInvByCall
  <1>0. probe[p] \in ProbeCalls /\ probe \in [Probers -> ProbeCalls]
    BY DEF TypeInv, TypeOK
  <1>a. ASSUME NEW new, ProbeStep(p, new), ProbeFits(new, chain),
               verdict'.result # "unknown" =>
                 verdict'.latest /\ chain \notin {"resolve", "record", "spawn"}
        PROVE  VerdictInv'
    <2>1. UNCHANGED <<chain, core>>
      BY <1>a DEF ProbeStep
    <2>2. \A q \in Probers : probe'[q] = IF q = p THEN new ELSE probe[q]
      BY <1>0, <1>a DEF ProbeStep
    <2> QED
      BY <1>a, <2>1, <2>2
  <1>1. CASE ProbeProfile(p)
    <2> DEFINE new == [probe[p] EXCEPT !.pc = "status",
                 !.id = IF baseline # NoPath THEN baseline.id ELSE saved.active]
    <2>1. ProbeFits(new, chain)
      BY <1>0, <1>1 DEF ProbeCalls, ProbeFits
    <2>2. ProbeStep(p, new) /\ UNCHANGED verdict
      BY <1>1 DEF ProbeProfile
    <2> HIDE DEF new
    <2> QED
      BY <1>a, <2>1, <2>2
  <1>2. CASE ProbeStatus(p)
    <2> DEFINE new == [probe[p] EXCEPT !.pc = IF EngineUp THEN "fetch" ELSE "store"]
    <2>1. chain \in {"resolve", "record", "spawn"} => ~EngineUp
      BY DEF EngineUp
    <2>2. ProbeFits(new, chain)
      BY <1>0, <1>2, <2>1 DEF ProbeCalls, ProbeFits
    <2>3. ProbeStep(p, new) /\ UNCHANGED verdict
      BY <1>2 DEF ProbeStatus
    <2> HIDE DEF new
    <2> QED
      BY <1>a, <2>2, <2>3
  <1>3. CASE ProbeFetch(p)
    <2>1. PICK result :
            ProbeStep(p, [probe[p] EXCEPT !.pc = "store", !.result = result,
                                          !.latest = TRUE])
      BY <1>3 DEF ProbeFetch
    <2> DEFINE new == [probe[p] EXCEPT !.pc = "store", !.result = result,
                                       !.latest = TRUE]
    <2>2. ProbeFits(new, chain)
      BY <1>0, <1>3 DEF ProbeFetch, ProbeCalls, ProbeFits
    <2>3. ProbeStep(p, new) /\ UNCHANGED verdict
      BY <1>3, <2>1 DEF ProbeFetch
    <2> HIDE DEF new
    <2> QED
      BY <1>a, <2>2, <2>3
  <1>4. CASE ProbeStore(p)
    <2>1. ProbeFits(IdleProbe, chain)
      BY DEF IdleProbe, ProbeFits
    <2>2. ProbeFits(probe[p], chain)
      OBVIOUS
    <2>3. verdict' = verdict \/ /\ probe[p].current
                                /\ verdict'.result = probe[p].result
                                /\ verdict'.latest = probe[p].latest
      BY <1>4 DEF ProbeStore
    <2>4. verdict'.result # "unknown" =>
            verdict'.latest /\ chain \notin {"resolve", "record", "spawn"}
      BY <2>2, <2>3 DEF ProbeFits
    <2> QED
      BY <1>4, <1>a, <2>1, <2>4 DEF ProbeStore
  <1> QED
    BY <1>1, <1>2, <1>3, <1>4 DEF ProbeRuns

(* And a new probe, whatever the chain is doing. *)
LEMMA VerdictBegin ==
  ASSUME TypeInv, VerdictInv, NEW p \in Probers, ProbeBegin(p)
  PROVE  VerdictInv'
  <1> DEFINE new == [IdleProbe EXCEPT !.pc = "profile", !.current = TRUE]
  <1>1. ProbeFits(new, chain)
    BY DEF IdleProbe, ProbeFits
  <1>2. ProbeStep(p, new) /\ UNCHANGED verdict
    BY DEF ProbeBegin
  <1> HIDE DEF new
  <1>3. UNCHANGED <<chain, core, verdict>>
    BY <1>2 DEF ProbeStep
  <1>4. \A q \in Probers : probe'[q] = IF q = p THEN new ELSE probe[q]
    BY <1>2 DEF ProbeStep, TypeInv, TypeOK
  <1> QED
    BY <1>1, <1>3, <1>4, VerdictInvByCall

(* The generation counter does its work: a stored verdict is always about  *)
(* the latest core, for any number of restarts while probes are in flight. *)
THEOREM VerdictsAreCurrent == Spec => []VerdictMeasuresLatest
  <1>1. Init => VerdictInv
    <2> SUFFICES ASSUME Init PROVE VerdictInv
      OBVIOUS
    <2>1. ProbeFits(IdleProbe, chain) /\ NoVerdict.result = "unknown"
      BY DEF IdleProbe, NoVerdict, ProbeFits
    <2>2. \A p \in Probers : probe[p] = IdleProbe
      BY DEF Init
    <2> QED
      BY <2>1, <2>2, VerdictInvByCall DEF Init
  <1>2. TypeInv /\ VerdictInv /\ [Next]_vars => VerdictInv'
    <2> SUFFICES ASSUME TypeInv, VerdictInv, [Next]_vars PROVE VerdictInv'
      OBVIOUS
    <2>0. ASSUME UNCHANGED <<verdict, probe>>,
                 core' = core \/ core' = NoPath,
                 chain' = chain \/ chain' \notin {"note", "resolve", "record", "spawn"}
          PROVE  VerdictInv'
      BY <2>0, VerdictInvByCall DEF ProbeFits
    <2>1. CASE Requests
      <3>1. CASE UserProbe
        BY <3>1, VerdictBegin DEF UserProbe, Probers
      <3>2. CASE ~UserProbe
        BY <2>0, <2>1, <3>2
        DEF Requests, UserStart, UserStop, UserReload, BeginRestart, EditSave,
            BootAutoStart, NetworkChange, MaybeAutoStart, SystemResume,
            AssetChanged, SubApply, DogSample, DogOnly
      <3> QED
        BY <3>1, <3>2
    <2>2. CASE ChainStep
      BY <2>2, VerdictChain
    <2>3. CASE SettleBegin
      BY <2>0, <2>3 DEF SettleBegin
    <2>4. ASSUME NEW r \in Refreshers, RefreshStep(r) PROVE VerdictInv'
      <3>1. /\ UNCHANGED <<core, probe>>
            /\ chain' = chain \/ chain' = "idle"
        BY <2>4 DEF RefreshStep, RefreshClone, RefreshBuild, RefreshApply,
                    RefreshMode, RefreshDone, RefreshGoes
      <3>2. verdict' = verdict \/ \E to : verdict' = [verdict EXCEPT !.id = to]
        BY <2>4 DEF RefreshStep, RefreshClone, RefreshBuild, RefreshApply,
                    RefreshMode, Adopt
      <3>3. verdict'.result = verdict.result /\ verdict'.latest = verdict.latest
        BY <3>2 DEF TypeInv, TypeOK, Verdicts
      <3> QED
        BY <3>1, <3>3, VerdictInvByCall DEF ProbeFits
    <2>5. ASSUME NEW p \in Probers, ProbeRuns(p) PROVE VerdictInv'
      BY <2>5, VerdictProbe
    <2>6. CASE DogCheck \/ DogLock
      BY <2>0, <2>6 DEF DogCheck, DogLock, DogOnly
    <2>7. CASE DogTail
      <3>1. CASE ResetConnectivity /\ UNCHANGED <<chain, core>>
        BY <3>1, ResetFits, VerdictInvByCall
      <3>2. CASE DogOnly
        BY <2>0, <3>2 DEF DogOnly
      <3>3. CASE ProbeBegin("watchdog")
        BY <3>3, VerdictBegin DEF Probers
      <3> QED
        BY <2>7, <3>1, <3>2, <3>3 DEF DogTail
    <2>8. CASE Failures
      BY <2>0, <2>8 DEF Failures, CoreDies, HelperDies, LinkBreaks
    <2>9. CASE UNCHANGED vars
      BY <2>0, <2>9 DEF vars
    <2> QED
      BY <2>1, <2>2, <2>3, <2>4, <2>5, <2>6, <2>7, <2>8, <2>9 DEF Next
  <1>3. Init => TypeInv
    BY TypeInit
  <1>4. TypeInv /\ [Next]_vars => TypeInv'
    BY TypeStep
  <1>5. VerdictInv => VerdictMeasuresLatest
    BY DEF VerdictInv
  <1> QED
    BY <1>1, <1>2, <1>3, <1>4, <1>5, PTL DEF Spec

-----------------------------------------------------------------------------
(* Stops. *)

StopInv == StoppedStaysStopped /\ NothingWanted /\ RefreshHoldsLock

(* A refresh that is called or returns keeps RefreshHoldsLock. *)
LEMMA HoldsLockKept ==
  ASSUME TypeInv, RefreshHoldsLock, [Next]_vars
  PROVE  RefreshHoldsLock'
  <1> USE DEF RefreshHoldsLock
  <1>0. /\ refresh \in [Refreshers -> RefreshCalls]
        /\ "settle" \in Refreshers /\ "sub" \in Refreshers /\ "edit" \in Refreshers
    BY DEF TypeInv, TypeOK, Refreshers
  <1>a. ASSUME UNCHANGED refresh,
               chain' = chain \/ chain \notin {"settling", "saved"}
        PROVE  RefreshHoldsLock'
    BY <1>a
  <1>1. CASE Requests
    <2>1. CASE \E s \in AppStates : EditSave(s)
      BY <1>0, <2>1 DEF EditSave
    <2>2. CASE \E s \in AppStates, affected \in BOOLEAN : SubApply(s, affected)
      <3>1. PICK s \in AppStates, affected \in BOOLEAN : SubApply(s, affected)
        BY <2>2
      <3>2. chain = "idle" /\ (UNCHANGED refresh \/
              /\ chain' = "saved"
              /\ refresh' = [refresh EXCEPT !["sub"] =
                   [IdleRefresh EXCEPT !.pc = "clone", !.active = s.active]])
        BY <3>1 DEF SubApply
      <3> QED
        BY <1>0, <1>a, <3>2
    <2>3. CASE UserProbe \/ DogSample
      BY <1>a, <2>3 DEF UserProbe, ProbeBegin, ProbeStep, DogSample, DogOnly
    <2>4. CASE AssetChanged
      BY <1>a, <2>4 DEF AssetChanged
    <2> QED
      BY <1>1, <1>a, <2>1, <2>2, <2>3, <2>4
      DEF Requests, UserStart, UserStop, UserReload, BeginRestart,
          BootAutoStart, NetworkChange, MaybeAutoStart, SystemResume
  <1>2. CASE ChainStep
    BY <1>2, <1>a
    DEF ChainStep, StopOld, NoteOldStopped, Resolve, RecordConnecting,
        SpawnCore, BringUp, StartFails, CleanUpFailed, NoteStarted,
        ClearForStop, Halt, DogReap, DogReaped
  <1>3. CASE SettleBegin
    BY <1>0, <1>3 DEF SettleBegin
  <1>4. ASSUME NEW r \in Refreshers, RefreshStep(r) PROVE RefreshHoldsLock'
    <2>0. refresh[r].pc # "idle"
      BY <1>4 DEF RefreshStep, RefreshClone, RefreshBuild, RefreshApply, RefreshMode
    <2>1. CASE RefreshDone(r)
      <3>1. refresh'[r].pc = "idle" /\ \A q \in Refreshers \ {r} : refresh'[q] = refresh[q]
        BY <1>0, <2>1 DEF RefreshDone, IdleRefresh
      <3>2. CASE r = "edit"
        BY <1>0, <2>1, <3>1, <3>2 DEF RefreshDone
      <3>3. CASE r = "settle"
        BY <1>0, <2>0, <2>1, <3>1, <3>3 DEF RefreshDone
      <3>4. CASE r = "sub"
        BY <1>0, <2>0, <2>1, <3>1, <3>4 DEF RefreshDone
      <3> QED
        BY <3>2, <3>3, <3>4 DEF Refreshers
    <2>2. ASSUME NEW pc, NEW base, NEW next, RefreshGoes(r, pc, base, next)
          PROVE  RefreshHoldsLock'
      <3>1. chain' = chain /\ \A q \in Refreshers \ {r} : refresh'[q] = refresh[q]
        BY <1>0, <2>2 DEF RefreshGoes
      <3> QED
        BY <1>0, <2>0, <3>1 DEF Refreshers
    <2> QED
      BY <1>4, <2>1, <2>2
      DEF RefreshStep, RefreshClone, RefreshBuild, RefreshApply, RefreshMode
  <1>5. ASSUME NEW p \in Probers, ProbeRuns(p) PROVE RefreshHoldsLock'
    BY <1>5, <1>a DEF ProbeRuns, ProbeProfile, ProbeStatus, ProbeFetch,
                      ProbeStore, ProbeStep
  <1>6. CASE DogCheck \/ DogLock \/ DogTail
    BY <1>6, <1>a DEF DogCheck, DogLock, DogTail, DogOnly, ProbeBegin, ProbeStep
  <1>7. CASE Failures
    BY <1>7, <1>a DEF Failures, CoreDies, HelperDies, LinkBreaks
  <1>8. CASE UNCHANGED vars
    BY <1>8, <1>a DEF vars
  <1> QED
    BY <1>1, <1>2, <1>3, <1>4, <1>5, <1>6, <1>7, <1>8 DEF Next

(* A refresh never gives a baseline to a path that has none. *)
LEMMA RefreshKeepsNoBaseline ==
  ASSUME TypeInv, NEW r \in Refreshers, RefreshStep(r), baseline = NoPath
  PROVE  baseline' = NoPath
  <1>1. CASE RefreshApply(r)
    <2>1. refresh[r].base.id \in Profiles
      BY <1>1 DEF RefreshApply, TypeInv, InHand, Paths
    <2>2. baseline.id # refresh[r].base.id
      BY <2>1, ConstantsAssumption DEF NoPath
    <2> QED
      BY <1>1, <2>2 DEF RefreshApply, Adopt
  <1> QED
    BY <1>1 DEF RefreshStep, RefreshClone, RefreshBuild, RefreshMode

(* Nothing resurrects a stopped data path: after a completed stop or       *)
(* teardown only a requested start, a client's or the boot auto-start's,   *)
(* brings a core up, whatever watchers, updaters and reloads do meanwhile. *)
THEOREM StopsAreFinal == Spec => []StoppedStaysStopped
  <1>1. Init => StopInv
    <2> SUFFICES ASSUME Init PROVE StopInv
      OBVIOUS
    <2>1. refresh["settle"].pc = "idle" /\ refresh["sub"].pc = "idle"
      BY DEF Init, IdleRefresh, Refreshers
    <2> QED
      BY <2>1 DEF Init, StopInv, StoppedStaysStopped, NothingWanted, RefreshHoldsLock
  <1>2. TypeInv /\ StopInv /\ [Next]_vars => StopInv'
    <2> SUFFICES ASSUME TypeInv, StopInv, [Next]_vars PROVE StopInv'
      OBVIOUS
    <2> DEFINE Stops == StoppedStaysStopped /\ NothingWanted
    <2> USE DEF StoppedStaysStopped, NothingWanted
    <2>0. RefreshHoldsLock'
      BY HoldsLockKept DEF StopInv
    <2>s. Stops
      BY DEF StopInv
    <2>g. SUFFICES Stops'
      BY <2>0, <2>g DEF StopInv
    <2>w. wanted \in BOOLEAN /\ helper \in BOOLEAN
      BY DEF TypeInv, TypeOK
    <2>a. ASSUME UNCHANGED <<wanted, doc, baseline, chain>>,
                 core' = core \/ core' = NoPath
          PROVE  Stops'
      BY <2>a, <2>s
    <2>1. CASE Requests
      <3>1. CASE BootAutoStart \/ NetworkChange
        <4>1. CASE MaybeAutoStart /\ chain = "idle"
          <5>1. UNCHANGED <<core, doc, baseline>>
            BY <4>1 DEF MaybeAutoStart
          <5>2. \/ chain' = "stop" /\ wanted' = TRUE
                \/ UNCHANGED <<chain, wanted>>
            BY <4>1 DEF MaybeAutoStart
          <5> QED
            BY <2>s, <5>1, <5>2
        <4>2. CASE UpOrComing /\ BeginRestart /\ chain = "idle"
          BY <2>s, <2>w, <4>2 DEF UpOrComing, BeginRestart
        <4> QED
          BY <3>1, <4>1, <4>2 DEF BootAutoStart, NetworkChange
      <3>2. CASE UserReload \/ SystemResume
        BY <2>s, <2>w, <3>2
        DEF UserReload, SystemResume, BeginRestart, UpOrComing, EngineUp
      <3>3. CASE \E s \in AppStates, affected \in BOOLEAN : SubApply(s, affected)
        BY <2>s, <2>w, <3>3 DEF SubApply, EngineUp
      <3>4. CASE \E id \in Ids : UserStart(id)
        BY <2>s, <3>4 DEF UserStart
      <3>5. CASE UserStop
        BY <2>s, <3>5 DEF UserStop
      <3> QED
        BY <2>1, <2>a, <3>1, <3>2, <3>3, <3>4, <3>5
        DEF Requests, UserProbe, ProbeBegin, ProbeStep, EditSave, AssetChanged,
            DogSample, DogOnly
    <2>2. CASE ChainStep
      <3>1. CASE StopOld
        BY <2>s, <2>w, <3>1 DEF StopOld, StopOk, StopErr, StopDone
      <3>2. CASE NoteOldStopped \/ Resolve \/ RecordConnecting \/ SpawnCore \/ BringUp
        BY <2>s, <2>w, <3>2
        DEF NoteOldStopped, Resolve, RecordConnecting, SpawnCore, BringUp, NoteStopped
      <3>3. CASE StartFails \/ CleanUpFailed \/ NoteStarted
        BY <2>s, <2>w, <3>3 DEF StartFails, CleanUpFailed, NoteStarted, NoteStopped
      <3>4. CASE ClearForStop
        BY <2>s, <2>w, <3>4 DEF ClearForStop, NoteStopped
      <3>5. CASE Halt
        BY <2>s, <2>w, <3>5 DEF Halt, StopOk, StopErr, StopDone
      <3>6. CASE DogReap
        BY <2>s, <2>w, <3>6 DEF DogReap, StopOk, StopErr, StopDone
      <3>7. CASE DogReaped
        BY <2>s, <2>w, <3>7 DEF DogReaped, NoteStopped
      <3> QED
        BY <2>2, <3>1, <3>2, <3>3, <3>4, <3>5, <3>6, <3>7 DEF ChainStep
    <2>3. CASE SettleBegin
      BY <2>s, <2>w, <2>3 DEF SettleBegin
    <2>4. ASSUME NEW r \in Refreshers, RefreshStep(r) PROVE Stops'
      <3>1. UNCHANGED <<core, doc, wanted>>
        BY <2>4 DEF RefreshStep, RefreshClone, RefreshBuild, RefreshApply, RefreshMode
      <3>2. baseline = NoPath => baseline' = NoPath
        BY <2>4, RefreshKeepsNoBaseline
      <3>3. chain' = chain \/ (chain' = "idle" /\ r # "edit")
        BY <2>4 DEF RefreshStep, RefreshClone, RefreshBuild, RefreshApply,
                    RefreshMode, RefreshDone, RefreshGoes
      <3>4. r # "edit" => chain \in {"settling", "saved"}
        BY <2>4 DEF StopInv, RefreshHoldsLock, Refreshers, RefreshStep,
                    RefreshClone, RefreshBuild, RefreshApply, RefreshMode
      <3> QED
        BY <2>s, <2>w, <3>1, <3>2, <3>3, <3>4
    <2>5. ASSUME NEW p \in Probers, ProbeRuns(p) PROVE Stops'
      BY <2>5, <2>a DEF ProbeRuns, ProbeProfile, ProbeStatus, ProbeFetch,
                        ProbeStore, ProbeStep
    <2>6. CASE DogCheck \/ DogTail
      BY <2>6, <2>a DEF DogCheck, DogTail, DogOnly, ProbeBegin, ProbeStep
    <2>7. CASE DogLock
      BY <2>s, <2>w, <2>7 DEF DogLock
    <2>8. CASE Failures
      BY <2>8, <2>a DEF Failures, CoreDies, HelperDies, LinkBreaks
    <2>9. CASE UNCHANGED vars
      BY <2>9, <2>a DEF vars
    <2> QED
      BY <2>1, <2>2, <2>3, <2>4, <2>5, <2>6, <2>7, <2>8, <2>9 DEF Next
  <1>3. Init => TypeInv
    BY TypeInit
  <1>4. TypeInv /\ [Next]_vars => TypeInv'
    BY TypeStep
  <1>5. StopInv => StoppedStaysStopped
    BY DEF StopInv
  <1> QED
    BY <1>1, <1>2, <1>3, <1>4, <1>5, PTL DEF Spec

-----------------------------------------------------------------------------
(* Geo data and the watchdog. *)

StaleInv == StaleCoreIsFlagged /\ FreshStart

(* A core that runs on replaced geo data is always reported as needing a   *)
(* restart while it can be seen, through failed stops and teardowns too.   *)
THEOREM StaleCoresAreFlagged == Spec => []StaleCoreIsFlagged
  <1>1. Init => StaleInv
    BY DEF Init, StaleInv, StaleCoreIsFlagged, FreshStart
  <1>2. TypeInv /\ StaleInv /\ [Next]_vars => StaleInv'
    <2> SUFFICES ASSUME TypeInv, StaleInv, [Next]_vars PROVE StaleInv'
      OBVIOUS
    <2> USE DEF StaleInv, StaleCoreIsFlagged, FreshStart
    <2>w. /\ link \in BOOLEAN /\ geoChanged \in BOOLEAN /\ assetsStale \in BOOLEAN
          /\ helper \in BOOLEAN
      BY DEF TypeInv, TypeOK
    <2>a. ASSUME UNCHANGED <<assetsStale, geoChanged>>,
                 UNCHANGED link \/ link' = FALSE,
                 core' = core \/ core' = NoPath,
                 chain' = chain \/ chain' \notin {"bringup", "up"}
          PROVE  StaleInv'
      BY <2>w, <2>a
    <2>1. CASE Requests
      <3>1. CASE AssetChanged
        BY <2>w, <3>1 DEF AssetChanged, EngineUp
      <3> QED
        BY <2>1, <2>a, <3>1
        DEF Requests, UserStart, UserStop, UserReload, BeginRestart, UserProbe,
            ProbeBegin, ProbeStep, EditSave, BootAutoStart, NetworkChange,
            MaybeAutoStart, SystemResume, SubApply, DogSample, DogOnly
    <2>2. CASE ChainStep
      <3>1. CASE SpawnCore
        BY <2>w, <3>1 DEF SpawnCore
      <3>2. CASE BringUp
        BY <2>w, <3>2 DEF BringUp
      <3>3. CASE NoteStarted
        BY <2>w, <3>3 DEF NoteStarted
      <3>4. CASE Halt
        BY <2>w, <3>4 DEF Halt, StopOk, StopErr, StopDone
      <3>5. CASE StopOld \/ DogReap
        BY <2>a, <3>5 DEF StopOld, DogReap, StopOk, StopErr, StopDone
      <3>6. CASE StartFails
        BY <2>a, <3>6 DEF StartFails
      <3> QED
        BY <2>2, <2>a, <3>1, <3>2, <3>3, <3>4, <3>5, <3>6
        DEF ChainStep, NoteOldStopped, Resolve, RecordConnecting,
            CleanUpFailed, ClearForStop, DogReaped
    <2>3. CASE SettleBegin
      BY <2>a, <2>3 DEF SettleBegin
    <2>4. ASSUME NEW r \in Refreshers, RefreshStep(r) PROVE StaleInv'
      <3>1. UNCHANGED <<link, core, assetsStale, geoChanged>>
        BY <2>4 DEF RefreshStep, RefreshClone, RefreshBuild, RefreshApply, RefreshMode
      <3>2. chain' = chain \/ chain' = "idle"
        BY <2>4 DEF RefreshStep, RefreshClone, RefreshBuild, RefreshApply,
                    RefreshMode, RefreshDone, RefreshGoes
      <3> QED
        BY <2>a, <3>1, <3>2
    <2>5. ASSUME NEW p \in Probers, ProbeRuns(p) PROVE StaleInv'
      BY <2>5, <2>a DEF ProbeRuns, ProbeProfile, ProbeStatus, ProbeFetch,
                        ProbeStore, ProbeStep
    <2>6. CASE DogCheck \/ DogLock \/ DogTail
      BY <2>6, <2>a DEF DogCheck, DogLock, DogTail, DogOnly, ProbeBegin, ProbeStep
    <2>7. CASE Failures
      BY <2>7, <2>a DEF Failures, CoreDies, HelperDies, LinkBreaks
    <2>8. CASE UNCHANGED vars
      BY <2>8, <2>a DEF vars
    <2> QED
      BY <2>1, <2>2, <2>3, <2>4, <2>5, <2>6, <2>7, <2>8 DEF Next
  <1>3. Init => TypeInv
    BY TypeInit
  <1>4. TypeInv /\ [Next]_vars => TypeInv'
    BY TypeStep
  <1>5. StaleInv => StaleCoreIsFlagged
    BY DEF StaleInv
  <1> QED
    BY <1>1, <1>2, <1>3, <1>4, <1>5, PTL DEF Spec

(* The watchdog never tears down a healthy data path, however old the      *)
(* sample that made it take the lock.                                      *)
THEOREM WatchdogSparesHealthy == Spec => ReapSparesHealthy
  <1>1. Init => ReapsDead
    BY DEF Init, ReapsDead
  <1>2. TypeInv /\ ReapsDead /\ [Next]_vars => ReapsDead'
    <2> SUFFICES ASSUME TypeInv, ReapsDead, [Next]_vars, chain' = "reap"
                 PROVE  ~Healthy'
      BY DEF ReapsDead
    <2>a. ASSUME UNCHANGED chain,
                 UNCHANGED link \/ link' = FALSE,
                 UNCHANGED core \/ core' = NoPath,
                 UNCHANGED helper \/ helper' = FALSE
          PROVE  ~Healthy'
      BY <2>a DEF ReapsDead, Healthy, EngineUp
    <2>1. CASE Requests
      BY <2>1, <2>a
      DEF Requests, UserStart, UserStop, UserReload, BeginRestart, UserProbe,
          ProbeBegin, ProbeStep, EditSave, BootAutoStart, NetworkChange,
          MaybeAutoStart, SystemResume, AssetChanged, SubApply, DogSample, DogOnly
    <2>2. ~ChainStep
      BY DEF ChainStep, StopOld, NoteOldStopped, Resolve, RecordConnecting,
             SpawnCore, BringUp, StartFails, CleanUpFailed, NoteStarted,
             ClearForStop, Halt, DogReap, DogReaped
    <2>3. CASE SettleBegin
      BY <2>3 DEF SettleBegin
    <2>4. ASSUME NEW r \in Refreshers, RefreshStep(r) PROVE ~Healthy'
      <3>1. UNCHANGED <<link, core, helper>>
        BY <2>4 DEF RefreshStep, RefreshClone, RefreshBuild, RefreshApply, RefreshMode
      <3>2. chain' = chain
        BY <2>4 DEF RefreshStep, RefreshClone, RefreshBuild, RefreshApply,
                    RefreshMode, RefreshDone, RefreshGoes
      <3> QED
        BY <2>a, <3>1, <3>2
    <2>5. ASSUME NEW p \in Probers, ProbeRuns(p) PROVE ~Healthy'
      BY <2>5, <2>a DEF ProbeRuns, ProbeProfile, ProbeStatus, ProbeFetch,
                        ProbeStore, ProbeStep
    <2>6. CASE DogLock
      BY <2>6 DEF DogLock, Healthy, EngineUp
    <2>7. CASE DogCheck \/ DogTail
      BY <2>7, <2>a DEF DogCheck, DogTail, DogOnly, ProbeBegin, ProbeStep
    <2>8. CASE Failures
      BY <2>8, <2>a DEF Failures, CoreDies, HelperDies, LinkBreaks
    <2>9. CASE UNCHANGED vars
      BY <2>9, <2>a DEF vars
    <2> QED
      BY <2>1, <2>2, <2>3, <2>4, <2>5, <2>6, <2>7, <2>8, <2>9 DEF Next
  <1>3. Init => TypeInv
    BY TypeInit
  <1>4. TypeInv /\ [Next]_vars => TypeInv'
    BY TypeStep
  <1>5. ReapsDead => [chain = "reap" /\ chain' = "reapNote" => ~Healthy]_vars
    BY DEF ReapsDead
  <1> QED
    BY <1>1, <1>2, <1>3, <1>4, <1>5, PTL DEF Spec, ReapSparesHealthy

-----------------------------------------------------------------------------
(* Edits. *)

MissInv == RefreshInFlight /\ NoneMissed

(* What a refresh in flight may have in hand for MissInv to hold. *)
CallFits(call, ch, base, path) ==
  /\ call.pc \in {"build", "apply"} =>
       ch = "settle" \/ base = NoPath \/ base = call.base
  /\ call.pc = "mode" =>
       ch = "settle" \/ base = NoPath \/ base.cfg = call.next.cfg
  /\ call.pc \in {"apply", "mode"} => call.next = path

(* RefreshInFlight restated call by call. *)
LEMMA InFlightByCall ==
  ASSUME TypeInv
  PROVE  RefreshInFlight <=>
    /\ \A r \in Refreshers : refresh[r].pc # "idle" =>
         /\ stateWrite = r
         /\ refresh[r].active = saved.active
         /\ CallFits(refresh[r], chain, baseline, SavedPath)
    /\ stateWrite = "settle" <=> chain = "settling"
    /\ stateWrite # "free" => refresh[stateWrite].pc # "idle"
  BY DEF RefreshInFlight, CallFits

(* Renaming a path does not change what a refresh thinks of it. *)
LEMMA EffectIgnoresId ==
  ASSUME NEW path \in Paths, NEW next, NEW id
  PROVE  MutationEffect([path EXCEPT !.id = id], next) = MutationEffect(path, next)
  BY DEF MutationEffect, Paths

(* A step of a refresh keeps MissInv: when it returns, the flag says what  *)
(* the comparison of the live baseline with the saved state says.          *)
LEMMA MissRefresh ==
  ASSUME TypeInv, MissInv, NEW r \in Refreshers, RefreshStep(r), TypeInv'
  PROVE  MissInv'
  <1>0. /\ refresh \in [Refreshers -> RefreshCalls]
        /\ refresh[r].pc # "idle"
        /\ saved' = saved /\ SavedPath' = SavedPath
    BY DEF TypeInv, TypeOK, RefreshStep, RefreshClone, RefreshBuild,
           RefreshApply, RefreshMode, SavedPath
  <1>1. /\ stateWrite = r /\ refresh[r].active = saved.active
        /\ CallFits(refresh[r], chain, baseline, SavedPath)
        /\ \A q \in Refreshers \ {r} : refresh[q].pc = "idle"
        /\ r = "settle" <=> chain = "settling"
        /\ r \in {"edit", "settle"}
    <2>1. r \in {"edit", "settle"} <=> r # "sub"
      BY DEF Refreshers
    <2> QED
      BY <1>0, <2>1, InFlightByCall DEF MissInv, TypeInv, TypeOK
  <1>a. ASSUME RefreshDone(r),
               chain # "settle" /\ baseline' # NoPath /\ SavedPath # NoPath
                 /\ MutationEffect(baseline', SavedPath) = "pending" => pending'
        PROVE  MissInv'
    <2>1. \A q \in Refreshers : refresh'[q].pc = "idle"
      BY <1>0, <1>1, <1>a DEF RefreshDone, IdleRefresh
    <2>2. stateWrite' = "free" /\ chain' # "settling"
          /\ (chain' # "settle" => chain # "settle")
      BY <1>1, <1>a DEF RefreshDone
    <2>3. RefreshInFlight'
      BY <2>1, <2>2 DEF RefreshInFlight
    <2>4. NoneMissed'
      BY <1>0, <1>a, <2>2 DEF NoneMissed
    <2> QED
      BY <2>3, <2>4 DEF MissInv
  <1>b. ASSUME NEW pc \in {"build", "apply", "mode"}, NEW base, NEW next,
               RefreshGoes(r, pc, base, next),
               pc \in {"build", "apply"} =>
                 chain = "settle" \/ baseline' = NoPath \/ baseline' = base,
               pc = "mode" =>
                 chain = "settle" \/ baseline' = NoPath \/ baseline'.cfg = next.cfg,
               pc \in {"apply", "mode"} => next = SavedPath
        PROVE  MissInv'
    <2>1. /\ refresh'[r].pc = pc /\ refresh'[r].base = base
          /\ refresh'[r].next = next /\ refresh'[r].active = refresh[r].active
      BY <1>0, <1>b DEF RefreshGoes, RefreshCalls
    <2>2. \A q \in Refreshers \ {r} : refresh'[q].pc = "idle"
      BY <1>0, <1>1, <1>b DEF RefreshGoes
    <2>3. UNCHANGED <<stateWrite, chain>>
      BY <1>b DEF RefreshGoes
    <2>4. RefreshInFlight'
      BY <1>0, <1>1, <1>b, <2>1, <2>2, <2>3 DEF RefreshInFlight
    <2>5. NoneMissed'
      BY <1>1, <2>3, <1>0 DEF NoneMissed, Refreshers
    <2> QED
      BY <2>4, <2>5 DEF MissInv
  <1>2. CASE RefreshClone(r)
    <2>1. UNCHANGED baseline
      BY <1>2 DEF RefreshClone
    <2>2. CASE baseline = NoPath \/ refresh[r].active = NoId
      <3>1. refresh[r].active = NoId => SavedPath = NoPath
        BY <1>1 DEF SavedPath, Build
      <3> QED
        BY <1>2, <1>a, <2>1, <2>2, <3>1 DEF RefreshClone
    <2>3. CASE ~(baseline = NoPath \/ refresh[r].active = NoId)
      BY <1>2, <1>b, <2>1, <2>3 DEF RefreshClone
    <2> QED
      BY <2>2, <2>3
  <1>3. CASE RefreshBuild(r)
    <2>1. UNCHANGED baseline /\ Build(saved, refresh[r].active) = SavedPath
      BY <1>1, <1>3 DEF RefreshBuild, SavedPath
    <2>2. CASE SavedPath = NoPath
      BY <1>3, <1>a, <2>1, <2>2 DEF RefreshBuild
    <2>3. CASE SavedPath # NoPath
      <3>1. RefreshGoes(r, "apply", refresh[r].base, SavedPath)
        BY <1>3, <2>1, <2>3 DEF RefreshBuild
      <3>2. chain = "settle" \/ baseline' = NoPath \/ baseline' = refresh[r].base
        BY <1>1, <1>3, <2>1 DEF RefreshBuild, CallFits
      <3> QED
        BY <1>b, <3>1, <3>2
    <2> QED
      BY <2>2, <2>3
  <1>4. CASE RefreshApply(r)
    <2> DEFINE base == refresh[r].base
               effect == MutationEffect(base, SavedPath)
    <2>1. /\ refresh[r].next = SavedPath
          /\ chain = "settle" \/ baseline = NoPath \/ baseline = base
          /\ base \in Paths
      BY <1>1, <1>4 DEF RefreshApply, CallFits, TypeInv, InHand
    <2>2. \/ baseline' = baseline
          \/ effect # "pending" /\ baseline.id = base.id
             /\ baseline' = [baseline EXCEPT !.id = refresh[r].active]
      BY <1>4, <2>1 DEF RefreshApply, Adopt
    <2>3. base.id # NoId /\ NoPath.id = NoId
      BY <2>1, ConstantsAssumption DEF NoPath, Paths
    <2>4. baseline = NoPath => baseline' = NoPath
      BY <2>2, <2>3
    <2>5. baseline = base =>
            MutationEffect(baseline', SavedPath) = effect /\ baseline'.cfg = base.cfg
      <3>1. baseline = base =>
              MutationEffect([baseline EXCEPT !.id = refresh[r].active], SavedPath)
                = MutationEffect(baseline, SavedPath)
        BY <2>1, EffectIgnoresId
      <3>2. baseline = base => [baseline EXCEPT !.id = refresh[r].active].cfg = base.cfg
        BY <2>1 DEF Paths
      <3> QED
        BY <2>2, <3>1, <3>2
    <2>6. CASE effect = "live"
      <3>1. RefreshGoes(r, "mode", base, SavedPath)
        BY <1>4, <2>1, <2>6 DEF RefreshApply
      <3>2. base.cfg = SavedPath.cfg
        BY <2>6 DEF MutationEffect
      <3> QED
        BY <1>b, <2>1, <2>4, <2>5, <3>1, <3>2
    <2>7. CASE effect # "live"
      <3>1. pending' = (effect = "pending") /\ RefreshDone(r)
        BY <1>4, <2>1, <2>7 DEF RefreshApply
      <3> QED
        BY <1>a, <2>1, <2>4, <2>5, <3>1
    <2> QED
      BY <2>6, <2>7
  <1>5. CASE RefreshMode(r)
    <2>1. /\ refresh[r].next = SavedPath
          /\ chain = "settle" \/ baseline = NoPath \/ baseline.cfg = SavedPath.cfg
      BY <1>1, <1>5 DEF RefreshMode, CallFits
    <2>2. baseline # NoPath => baseline \in Paths
      BY DEF TypeInv, TypeOK
    <2>3. baseline # NoPath => /\ baseline'.mode = SavedPath.mode
                               /\ baseline'.cfg = baseline.cfg
      BY <1>5, <2>1, <2>2 DEF RefreshMode, Paths
    <2>4. baseline = NoPath => baseline' = NoPath
      BY <1>5 DEF RefreshMode
    <2>5. baseline # NoPath /\ chain # "settle"
            => MutationEffect(baseline', SavedPath) # "pending"
      BY <2>1, <2>3 DEF MutationEffect
    <2> QED
      BY <1>5, <1>a, <2>4, <2>5 DEF RefreshMode
  <1> QED
    BY <1>2, <1>3, <1>4, <1>5 DEF RefreshStep

(* Without the subscription updater MissInv holds throughout. *)
LEMMA MissHolds ==
  ASSUME "sub" \notin Actors
  PROVE  Spec => [](TypeInv /\ MissInv)
  <1>1. Init => MissInv
    <2> SUFFICES ASSUME Init PROVE MissInv
      OBVIOUS
    <2>1. \A r \in Refreshers : refresh[r].pc = "idle"
      BY DEF Init, IdleRefresh
    <2> QED
      BY <2>1 DEF Init, MissInv, RefreshInFlight, NoneMissed
  <1>2. TypeInv /\ MissInv /\ [Next]_vars => MissInv'
    <2> SUFFICES ASSUME TypeInv, MissInv, [Next]_vars PROVE MissInv'
      OBVIOUS
    <2>t. TypeInv'
      BY TypeStep
    <2>r. refresh \in [Refreshers -> RefreshCalls] /\ stateWrite \in {"free", "edit", "settle"}
      BY DEF TypeInv, TypeOK
    <2>a. ASSUME UNCHANGED <<saved, stateWrite, refresh, pending>>,
                 UNCHANGED baseline \/ baseline' = NoPath,
                 \/ UNCHANGED chain
                 \/ {chain, chain'} \cap {"settle", "settling"} = {}
          PROVE  MissInv'
      <3>1. SavedPath' = SavedPath
        BY <2>a DEF SavedPath
      <3>2. RefreshInFlight'
        BY <2>a, <3>1 DEF MissInv, RefreshInFlight
      <3>3. NoneMissed'
        BY <2>a, <3>1 DEF MissInv, NoneMissed
      <3> QED
        BY <3>2, <3>3 DEF MissInv
    <2>b. ASSUME UNCHANGED <<saved, stateWrite, refresh>>, baseline' = NoPath,
                 {chain, chain'} \cap {"settle", "settling"} = {}
          PROVE  MissInv'
      <3>1. SavedPath' = SavedPath
        BY <2>b DEF SavedPath
      <3>2. RefreshInFlight'
        BY <2>b, <3>1 DEF MissInv, RefreshInFlight
      <3>3. NoneMissed'
        BY <2>b, <3>1 DEF NoneMissed
      <3> QED
        BY <3>2, <3>3 DEF MissInv
    <2>1. CASE Requests
      <3>1. ASSUME NEW s \in AppStates, EditSave(s) PROVE MissInv'
        <4>1. stateWrite = "free" /\ stateWrite' = "edit" /\ chain' = chain
              /\ chain # "settling"
          BY <3>1 DEF EditSave, MissInv, RefreshInFlight
        <4>2. \A q \in Refreshers : refresh[q].pc = "idle"
          BY <4>1 DEF MissInv, RefreshInFlight, Refreshers
        <4>3. refresh'["edit"].pc = "clone" /\ refresh'["edit"].active = saved'.active
          BY <2>r, <3>1 DEF EditSave, IdleRefresh, Refreshers
        <4>4. \A q \in Refreshers : q # "edit" => refresh'[q].pc = "idle"
          BY <2>r, <3>1, <4>2 DEF EditSave
        <4>5. RefreshInFlight'
          BY <4>1, <4>3, <4>4 DEF RefreshInFlight
        <4> QED
          BY <4>1, <4>5 DEF MissInv, NoneMissed
      <3>2. CASE UserProbe \/ DogSample \/ AssetChanged
        BY <2>a, <3>2 DEF UserProbe, ProbeBegin, ProbeStep, DogSample, DogOnly, AssetChanged
      <3>3. CASE BootAutoStart \/ NetworkChange
        BY <2>a, <3>3 DEF BootAutoStart, NetworkChange, MaybeAutoStart, BeginRestart
      <3>4. CASE \E id \in Ids : UserStart(id)
        BY <2>a, <3>4 DEF UserStart
      <3>5. CASE UserStop \/ UserReload \/ SystemResume
        BY <2>a, <3>5 DEF UserStop, UserReload, SystemResume, BeginRestart
      <3> QED
        BY <2>1, <3>1, <3>2, <3>3, <3>4, <3>5 DEF Requests, SubApply
    <2>2. CASE ChainStep
      <3>1. CASE NoteOldStopped \/ CleanUpFailed \/ ClearForStop \/ DogReaped
        BY <2>b, <3>1
        DEF NoteOldStopped, CleanUpFailed, ClearForStop, DogReaped, NoteStopped
      <3>2. CASE NoteStarted
        <4>1. /\ UNCHANGED <<saved, stateWrite, refresh>>
              /\ chain = "up" /\ chain' = "settle" /\ SavedPath' = SavedPath
          BY <3>2 DEF NoteStarted, SavedPath
        <4>2. RefreshInFlight'
          BY <4>1 DEF MissInv, RefreshInFlight
        <4> QED
          BY <4>1, <4>2 DEF MissInv, NoneMissed
      <3>3. CASE StopOld \/ Resolve \/ RecordConnecting \/ SpawnCore
        BY <2>a, <3>3 DEF StopOld, Resolve, RecordConnecting, SpawnCore
      <3>4. CASE BringUp \/ StartFails \/ Halt \/ DogReap
        BY <2>a, <3>4 DEF BringUp, StartFails, Halt, DogReap
      <3> QED
        BY <2>2, <3>1, <3>2, <3>3, <3>4 DEF ChainStep
    <2>3. CASE SettleBegin
      <3>1. /\ stateWrite = "free" /\ stateWrite' = "settle" /\ chain' = "settling"
            /\ saved' = saved
        BY <2>3 DEF SettleBegin
      <3>2. \A q \in Refreshers : refresh[q].pc = "idle"
        BY <3>1 DEF MissInv, RefreshInFlight, Refreshers
      <3>3. refresh'["settle"].pc = "clone" /\ refresh'["settle"].active = saved.active
        BY <2>r, <2>3 DEF SettleBegin, IdleRefresh, Refreshers
      <3>4. \A q \in Refreshers : q # "settle" => refresh'[q].pc = "idle"
        BY <2>r, <2>3, <3>2 DEF SettleBegin
      <3>5. RefreshInFlight'
        BY <3>1, <3>3, <3>4 DEF RefreshInFlight
      <3> QED
        BY <3>1, <3>5 DEF MissInv, NoneMissed
    <2>4. ASSUME NEW r \in Refreshers, RefreshStep(r) PROVE MissInv'
      BY <2>4, <2>t, MissRefresh
    <2>5. ASSUME NEW p \in Probers, ProbeRuns(p) PROVE MissInv'
      BY <2>5, <2>a DEF ProbeRuns, ProbeProfile, ProbeStatus, ProbeFetch,
                        ProbeStore, ProbeStep
    <2>6. CASE DogCheck \/ DogLock \/ DogTail
      BY <2>6, <2>a DEF DogCheck, DogLock, DogTail, DogOnly, ProbeBegin, ProbeStep
    <2>7. CASE Failures
      BY <2>7, <2>a DEF Failures, CoreDies, HelperDies, LinkBreaks
    <2>8. CASE UNCHANGED vars
      BY <2>8, <2>a DEF vars
    <2> QED
      BY <2>1, <2>2, <2>3, <2>4, <2>5, <2>6, <2>7, <2>8 DEF Next
  <1>3. Init => TypeInv
    BY TypeInit
  <1>4. TypeInv /\ [Next]_vars => TypeInv'
    BY TypeStep
  <1> QED
    BY <1>1, <1>2, <1>3, <1>4, PTL DEF Spec

(* A saved edit is never silently left unapplied, however it interleaves   *)
(* with starts, stops, teardowns and other edits, as long as the           *)
(* subscription updater, which refreshes outside state_write, is not       *)
(* among the tasks.                                                        *)
THEOREM EditsAreNeverMissed ==
  ASSUME "sub" \notin Actors
  PROVE  Spec => []NoMissedRestart
  <1>1. Spec => [](TypeInv /\ MissInv)
    BY MissHolds
  <1>2. MissInv => NoMissedRestart
    BY DEF MissInv, NoneMissed, NoMissedRestart, Settled
  <1> QED
    BY <1>1, <1>2, PTL
-----------------------------------------------------------------------------
(* The OS proxy follows the mode of the running path. *)

Starting == {"record", "spawn", "bringup", "up"}

(* A refresh that is past its clone works for the saved mode. *)
LEMMA RefreshAimsAtSaved ==
  ASSUME TypeInv, MissInv, NEW r \in Refreshers, refresh[r].pc \in {"apply", "mode"}
  PROVE  refresh[r].next.mode = saved.mode
  <1>1. refresh[r].next = SavedPath /\ refresh[r].next \in Paths
    BY DEF TypeInv, InHand, MissInv, RefreshInFlight
  <1>2. SavedPath # NoPath
    BY <1>1, NoPathIsNone
  <1> QED
    BY <1>1, <1>2 DEF SavedPath, Build

(* Only one refresh is ever in flight. *)
LEMMA OneRefresh ==
  ASSUME MissInv, NEW r \in Refreshers, refresh[r].pc # "idle"
  PROVE  \A q \in Refreshers : q # r => refresh[q].pc = "idle"
  BY DEF MissInv, RefreshInFlight

(* A step of a refresh keeps ProxyFits: it adopts an id, or points the OS  *)
(* where the saved mode says and then gives the baseline that mode.        *)
LEMMA ProxyRefresh ==
  ASSUME TypeInv, MissInv, ProxyFits, NEW r \in Refreshers, RefreshStep(r)
  PROVE  ProxyFits'
  <1>0. /\ refresh \in [Refreshers -> RefreshCalls]
        /\ refresh[r].pc # "idle"
        /\ baseline # NoPath => baseline \in Paths
        /\ UNCHANGED <<saved, built>>
    BY DEF TypeInv, TypeOK, RefreshStep, RefreshClone, RefreshBuild,
           RefreshApply, RefreshMode
  <1>1. \A q \in Refreshers : q # r => refresh[q].pc = "idle"
    BY <1>0, OneRefresh
  <1>a. ASSUME RefreshDone(r), baseline = NoPath => baseline' = NoPath,
               baseline' # NoPath => osProxy' \in OsProxyFor(baseline'.mode)
        PROVE  ProxyFits'
    <2>1. \A q \in Refreshers : refresh'[q].pc = "idle"
      BY <1>0, <1>1, <1>a DEF RefreshDone, IdleRefresh
    <2>2. chain' \in {chain, "idle"}
      BY <1>a DEF RefreshDone
    <2> QED
      BY <1>a, <2>1, <2>2 DEF ProxyFits
  <1>b. ASSUME NEW pc \in {"build", "apply"}, NEW base, NEW next,
               RefreshGoes(r, pc, base, next), UNCHANGED <<baseline, osProxy>>,
               refresh[r].pc # "mode",
               refresh[r].pc = "clone" => baseline # NoPath
        PROVE  ProxyFits'
    <2>1. /\ refresh'[r].pc = pc /\ UNCHANGED chain
          /\ \A q \in Refreshers : q # r => refresh'[q].pc = "idle"
      BY <1>0, <1>1, <1>b DEF RefreshGoes
    <2>2. refresh[r].pc \in {"clone", "build", "apply"}
      BY <1>0, <1>b DEF RefreshCalls
    <2>3. chain \in Starting => built.mode = saved.mode
      BY <1>b, <2>2 DEF ProxyFits, Starting
    <2>4. \A q \in Refreshers : refresh[q].pc # "mode"
      BY <1>1, <2>2
    <2> QED
      BY <1>0, <1>b, <2>1, <2>3, <2>4 DEF ProxyFits, Starting
  <1>2. CASE RefreshClone(r)
    <2>1. UNCHANGED <<baseline, osProxy>> /\ refresh[r].pc = "clone"
      BY <1>2 DEF RefreshClone, noteVars, platformVars
    <2>2. CASE baseline = NoPath \/ refresh[r].active = NoId
      <3>1. baseline # NoPath => osProxy \in OsProxyFor(baseline.mode)
        BY <1>1, <2>1 DEF ProxyFits
      <3> QED
        BY <1>2, <1>a, <2>1, <2>2, <3>1 DEF RefreshClone
    <2>3. CASE ~(baseline = NoPath \/ refresh[r].active = NoId)
      BY <1>2, <1>b, <2>1, <2>3 DEF RefreshClone
    <2> QED
      BY <2>2, <2>3
  <1>3. CASE RefreshBuild(r)
    <2>1. UNCHANGED <<baseline, osProxy>> /\ refresh[r].pc = "build"
      BY <1>3 DEF RefreshBuild, noteVars, platformVars
    <2>2. baseline # NoPath => osProxy \in OsProxyFor(baseline.mode)
      BY <1>1, <2>1 DEF ProxyFits
    <2>3. \/ RefreshDone(r)
          \/ \E next : RefreshGoes(r, "apply", refresh[r].base, next)
      BY <1>3 DEF RefreshBuild
    <2> QED
      BY <1>a, <1>b, <2>1, <2>2, <2>3
  <1>4. CASE RefreshApply(r)
    <2> DEFINE base == refresh[r].base
               next == refresh[r].next
               effect == MutationEffect(base, next)
    <2>1. refresh[r].pc = "apply" /\ next.mode = saved.mode /\ base.id # NoId
      <3>1. refresh[r].pc = "apply"
        BY <1>4 DEF RefreshApply
      <3>2. base \in Paths
        BY <3>1 DEF TypeInv, InHand
      <3> QED
        BY <3>1, <3>2, RefreshAimsAtSaved, ConstantsAssumption DEF Paths
    <2>2. \/ baseline' = baseline
          \/ baseline.id = base.id /\ baseline' = [baseline EXCEPT !.id = refresh[r].active]
      BY <1>4 DEF RefreshApply, Adopt
    <2>3. /\ baseline = NoPath => baseline' = NoPath
          /\ baseline # NoPath => baseline'.mode = baseline.mode
      BY <1>0, <2>1, <2>2 DEF NoPath, Paths
    <2>4. \A q \in Refreshers : refresh[q].pc # "mode"
      BY <1>1, <2>1
    <2>5. CASE effect = "live"
      <3>1. /\ RefreshGoes(r, "mode", base, next)
            /\ osProxy' \in OsProxyFor(saved.mode)
        BY <1>4, <2>1, <2>5 DEF RefreshApply
      <3>2. /\ refresh'[r].pc = "mode" /\ UNCHANGED chain
            /\ \A q \in Refreshers : q # r => refresh'[q].pc = "idle"
        BY <1>0, <1>1, <3>1 DEF RefreshGoes
      <3>3. chain \in Starting => built.mode = saved.mode
        BY <2>1 DEF ProxyFits, Starting
      <3> QED
        BY <1>0, <2>3, <3>1, <3>2, <3>3 DEF ProxyFits, Starting
    <2>6. CASE effect # "live"
      <3>1. RefreshDone(r) /\ UNCHANGED osProxy
        BY <1>4, <2>6 DEF RefreshApply
      <3>2. baseline' # NoPath => osProxy' \in OsProxyFor(baseline'.mode)
        BY <2>3, <2>4, <3>1 DEF ProxyFits
      <3> QED
        BY <1>a, <2>3, <3>1, <3>2
    <2> QED
      BY <2>5, <2>6
  <1>5. CASE RefreshMode(r)
    <2>1. /\ refresh[r].pc = "mode" /\ RefreshDone(r) /\ UNCHANGED osProxy
          /\ baseline' = IF baseline = NoPath THEN baseline
                         ELSE [baseline EXCEPT !.mode = refresh[r].next.mode]
      BY <1>5 DEF RefreshMode, platformVars
    <2>2. refresh[r].next.mode = saved.mode
      BY <2>1, RefreshAimsAtSaved
    <2>3. baseline # NoPath => osProxy \in OsProxyFor(saved.mode)
      BY <2>1 DEF ProxyFits
    <2>4. baseline # NoPath => baseline'.mode = saved.mode
      BY <1>0, <2>1, <2>2 DEF Paths
    <2> QED
      BY <1>a, <2>1, <2>3, <2>4
  <1> QED
    BY <1>2, <1>3, <1>4, <1>5 DEF RefreshStep

(* While a path runs, the OS proxy is what its mode asks for, however      *)
(* starts, stops, teardowns and live mode switches overlap, as long as the *)
(* subscription updater, which refreshes outside state_write, is not among *)
(* the tasks.                                                              *)
THEOREM ProxyFollowsMode ==
  ASSUME "sub" \notin Actors
  PROVE  Spec => []OsProxyFollowsMode
  <1>1. Init => ProxyFits
    BY DEF Init, ProxyFits, IdleRefresh
  <1>2. TypeInv /\ MissInv /\ ProxyFits /\ [Next]_vars => ProxyFits'
    <2> SUFFICES ASSUME TypeInv, MissInv, ProxyFits, [Next]_vars PROVE ProxyFits'
      OBVIOUS
    <2>a. ASSUME UNCHANGED <<saved, refresh, baseline, osProxy, built>>,
                 \/ chain' \in {chain, "idle", "stop", "note", "clear", "reap"}
                 \/ chain \in Starting /\ chain' \in Starting \cup {"failed"}
          PROVE  ProxyFits'
      BY <2>a DEF ProxyFits, Starting
    <2>b. ASSUME UNCHANGED <<saved, refresh>>, baseline' = NoPath, chain' \notin Starting
          PROVE  ProxyFits'
      BY <2>b DEF ProxyFits, Starting
    <2>1. CASE Requests
      <3>1. ASSUME NEW s \in AppStates, EditSave(s) PROVE ProxyFits'
        <4>1. \A q \in Refreshers : refresh[q].pc = "idle"
          BY <3>1 DEF EditSave, MissInv, RefreshInFlight, Refreshers
        <4>2. \A q \in Refreshers : refresh'[q].pc \in {"idle", "clone"}
          BY <3>1, <4>1 DEF EditSave, IdleRefresh, TypeInv, TypeOK
        <4>3. UNCHANGED <<chain, baseline, osProxy>>
          BY <3>1 DEF EditSave, noteVars, platformVars
        <4> QED
          BY <4>1, <4>2, <4>3 DEF ProxyFits
      <3>2. CASE UserProbe \/ DogSample \/ AssetChanged
        BY <2>a, <3>2 DEF UserProbe, ProbeBegin, ProbeStep, DogSample, DogOnly,
                          AssetChanged, noteVars, platformVars
      <3>3. CASE BootAutoStart \/ NetworkChange
        BY <2>a, <3>3 DEF BootAutoStart, NetworkChange, MaybeAutoStart,
                          BeginRestart, noteVars, platformVars
      <3>4. CASE \E id \in Ids : UserStart(id)
        BY <2>a, <3>4 DEF UserStart, noteVars, platformVars
      <3>5. CASE UserStop \/ UserReload \/ SystemResume
        BY <2>a, <3>5 DEF UserStop, UserReload, SystemResume, BeginRestart,
                          noteVars, platformVars
      <3> QED
        BY <2>1, <3>1, <3>2, <3>3, <3>4, <3>5 DEF Requests, SubApply
    <2>2. CASE ChainStep
      <3>1. CASE NoteOldStopped \/ CleanUpFailed \/ ClearForStop \/ DogReaped
        BY <2>b, <3>1 DEF NoteOldStopped, CleanUpFailed, ClearForStop,
                          DogReaped, NoteStopped, Starting
      <3>2. CASE NoteStarted
        <4>1. /\ chain = "up" /\ chain' = "settle" /\ baseline' = built
              /\ osProxy' \in OsProxyFor(built.mode)
              /\ UNCHANGED <<saved, refresh>>
          BY <3>2 DEF NoteStarted
        <4>2. ASSUME NEW r \in Refreshers, refresh[r].pc = "mode"
              PROVE  built.mode = saved.mode
          BY <4>1, <4>2 DEF ProxyFits
        <4> QED
          BY <4>1, <4>2 DEF ProxyFits
      <3>3. CASE Resolve
        <4>1. baseline = NoPath /\ UNCHANGED <<saved, refresh, baseline, osProxy>>
          BY <3>3 DEF Resolve, ProxyFits, noteVars, platformVars
        <4>2. \/ chain' = "idle"
              \/ \E id : built' = Build(saved, id) /\ Build(saved, id) # NoPath
          BY <3>3 DEF Resolve
        <4>3. chain' = "idle" \/ built'.mode = saved.mode
          BY <4>2 DEF Build
        <4> QED
          BY <4>1, <4>3 DEF ProxyFits
      <3>4. CASE StopOld \/ RecordConnecting \/ SpawnCore \/ BringUp
        BY <2>a, <3>4 DEF StopOld, RecordConnecting, SpawnCore, BringUp,
                          Starting, noteVars
      <3>5. CASE StartFails
        <4>1. /\ chain' = "failed"
              /\ UNCHANGED <<saved, refresh, baseline, osProxy>>
          BY <3>5 DEF StartFails, noteVars
        <4> QED
          BY <4>1 DEF ProxyFits
      <3>6. CASE Halt \/ DogReap
        <4>1. /\ chain' \in {"idle", "reapNote"}
              /\ UNCHANGED <<saved, refresh, baseline, osProxy>>
          BY <3>6 DEF Halt, DogReap, noteVars
        <4> QED
          BY <4>1 DEF ProxyFits
      <3> QED
        BY <2>2, <3>1, <3>2, <3>3, <3>4, <3>5, <3>6 DEF ChainStep
    <2>3. CASE SettleBegin
      <3>1. /\ chain' = "settling" /\ stateWrite = "free"
            /\ UNCHANGED <<saved, baseline, osProxy>>
        BY <2>3 DEF SettleBegin, noteVars, platformVars
      <3>2. \A q \in Refreshers : refresh[q].pc = "idle"
        BY <3>1 DEF MissInv, RefreshInFlight, Refreshers
      <3>3. \A q \in Refreshers : refresh'[q].pc \in {"idle", "clone"}
        BY <2>3, <3>2 DEF SettleBegin, IdleRefresh, TypeInv, TypeOK
      <3> QED
        BY <3>1, <3>2, <3>3 DEF ProxyFits
    <2>4. ASSUME NEW r \in Refreshers, RefreshStep(r) PROVE ProxyFits'
      BY <2>4, ProxyRefresh
    <2>5. ASSUME NEW p \in Probers, ProbeRuns(p) PROVE ProxyFits'
      BY <2>5, <2>a DEF ProbeRuns, ProbeProfile, ProbeStatus, ProbeFetch,
                        ProbeStore, ProbeStep, platformVars
    <2>6. CASE DogCheck \/ DogLock \/ DogTail
      BY <2>6, <2>a DEF DogCheck, DogLock, DogTail, DogOnly, ProbeBegin,
                        ProbeStep, noteVars, platformVars
    <2>7. CASE Failures
      BY <2>7, <2>a DEF Failures, CoreDies, HelperDies, LinkBreaks, noteVars
    <2>8. CASE UNCHANGED vars
      BY <2>8, <2>a DEF vars, noteVars, platformVars
    <2> QED
      BY <2>1, <2>2, <2>3, <2>4, <2>5, <2>6, <2>7, <2>8 DEF Next
  <1>3. TypeInv /\ MissInv /\ ProxyFits => OsProxyFollowsMode
    BY DEF MissInv, RefreshInFlight, ProxyFits, OsProxyFollowsMode, Settled, Refreshers
  <1>4. Spec => [](TypeInv /\ MissInv)
    BY MissHolds
  <1> QED
    BY <1>1, <1>2, <1>3, <1>4, PTL DEF Spec
=============================================================================
