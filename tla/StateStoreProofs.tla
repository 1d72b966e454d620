--------------------------- MODULE StateStoreProofs ---------------------------
(* Proofs about StateStore, for any set of profiles and any bound. *)
EXTENDS StateStore, TLAPS

-----------------------------------------------------------------------------
(* Types. *)

(* app-state.json is the file written last. *)
LEMMA LastIsShell == LastFile = "shell" /\ FirstFile = "profiles"
  BY DEF LastFile, FirstFile, Files

(* The blank values are well-formed. *)
LEMMA Blanks ==
  /\ DefaultAppState \in AppStates
  /\ Absent \in Contents /\ Empty \in Contents /\ Torn \in Contents
  /\ Absent.kind = "absent" /\ Empty.kind = "empty" /\ Torn.kind = "torn"
  /\ IdleWork \in Works /\ IdleWork.pc = "idle"
  /\ IdleReader \in Readers /\ IdleReader.pc = "idle" /\ ~IdleReader.dangling
  <1>1. DefaultAppState \in AppStates
    BY DEF DefaultAppState, AppStates
  <1> QED
    BY <1>1 DEF Absent, Empty, Torn, Contents, IdleWork, Works, Files,
                IdleReader, Readers

(* A part of a state is a state, and a full file is a file. *)
LEMMA PartType ==
  ASSUME NEW f \in Files, NEW s \in AppStates
  PROVE  /\ Part(f, s) \in AppStates
         /\ Full(s) \in Contents /\ Full(s).kind = "full" /\ Full(s).data = s
         /\ Part("profiles", s).profiles = s.profiles
         /\ Part("shell", s).active = s.active
         /\ Part("shell", s).count = s.count
  BY DEF Part, AppStates, Full, Contents, DefaultAppState

(* The fixed-up state differs from the given one in its active id, which   *)
(* is one of its profiles or none.                                         *)
LEMMA CanonicalType ==
  ASSUME NEW s \in AppStates
  PROVE  /\ Canonical(s) \in AppStates
         /\ Canonical(s).profiles = s.profiles
         /\ Canonical(s).count = s.count
         /\ Canonical(s).active \in s.profiles \cup {NoId}
  BY DEF Canonical, AppStates

(* Writing over a file leaves a file. *)
LEMMA OverlayType ==
  ASSUME NEW content, NEW s \in AppStates
  PROVE  /\ Overlay(content, s) \subseteq Contents
         /\ content = Empty => Overlay(content, s) = {Full(s)}
  BY Blanks DEF Overlay, Full, Contents

(* What a writer makes of the state it read. *)
LEMMA NextState ==
  ASSUME NEW s \in AppStates, NEW w \in AllWriters,
         NEW ps \in SUBSET Profiles, NEW a \in Profiles \cup {NoId}
  PROVE  LET next == Canonical([s EXCEPT !.profiles = ps, !.active = a,
                                         !.count[w] = @ + 1])
         IN /\ next \in AppStates
            /\ next.active \in next.profiles \cup {NoId}
            /\ next.count[w] = s.count[w] + 1
  <1> DEFINE raw == [s EXCEPT !.profiles = ps, !.active = a, !.count[w] = @ + 1]
             cnt == [s.count EXCEPT ![w] = @ + 1]
  <1>0. s.count \in [AllWriters -> Nat] /\ cnt \in [AllWriters -> Nat]
        /\ cnt[w] = s.count[w] + 1
    BY DEF AppStates
  <1>e. raw = [s EXCEPT !.profiles = ps, !.active = a, !.count = cnt]
    BY DEF AppStates
  <1> HIDE DEF cnt
  <1>1. raw \in AppStates /\ raw.count[w] = s.count[w] + 1
    BY <1>0, <1>e DEF AppStates
  <1> HIDE DEF raw
  <1>2. /\ Canonical(raw) \in AppStates
        /\ Canonical(raw).active \in Canonical(raw).profiles \cup {NoId}
        /\ Canonical(raw).count[w] = s.count[w] + 1
    BY <1>1, CanonicalType
  <1> QED
    BY <1>2 DEF raw

(* The first state is well-formed. *)
LEMMA StoreTypeInit ==
  ASSUME Init
  PROVE  TypeOK
  <1>1. disk \in [Files -> Contents]
    <2>1. CASE disk = [f \in Files |-> Absent]
      BY <2>1, Blanks
    <2>2. ASSUME NEW ps \in SUBSET Profiles, NEW a \in Profiles \cup {NoId},
                 disk = [f \in Files |-> Full(Part(f,
                   Canonical([DefaultAppState EXCEPT !.profiles = ps, !.active = a])))]
          PROVE  disk \in [Files -> Contents]
      <3> DEFINE raw == [DefaultAppState EXCEPT !.profiles = ps, !.active = a]
      <3>1. raw \in AppStates
        BY Blanks DEF AppStates
      <3> HIDE DEF raw
      <3>2. \A f \in Files : Full(Part(f, Canonical(raw))) \in Contents
        BY <3>1, CanonicalType, PartType
      <3>3. disk = [f \in Files |-> Full(Part(f, Canonical(raw)))]
        BY <2>2 DEF raw
      <3> QED
        BY <3>2, <3>3
    <2> QED
      BY <2>1, <2>2 DEF Init
  <1> QED
    BY <1>1, Blanks DEF Init, TypeOK

(* Every step keeps the store well-formed. *)
LEMMA StoreTypeStep ==
  ASSUME TypeOK, [Next]_vars
  PROVE  TypeOK'
  <1> USE Blanks
  <1>1. ASSUME NEW w \in AllWriters, WriterStep(w) PROVE TypeOK'
    <2>0. /\ work \in [AllWriters -> Works] /\ work[w] \in Works
          /\ work[w].file \in Files /\ work[w].state \in AppStates
          /\ disk \in [Files -> Contents] /\ temp \in [Files -> Contents]
          /\ fd \in [AllWriters -> {"closed", "temp", "target", "orphan"}]
      BY DEF TypeOK, Works
    <2>a. ASSUME NEW pc \in {"idle", "merge", "open", "write", "rename"},
                 NEW f \in Files
          PROVE  [work[w] EXCEPT !.pc = pc] \in Works
                 /\ [work[w] EXCEPT !.pc = pc, !.file = f] \in Works
      BY <2>0 DEF Works
    <2>1. CASE Begin(w)
      <3>1. disk["shell"].data \in AppStates
        BY <2>0 DEF Contents, Files
      <3>2. [IdleWork EXCEPT !.pc = "merge", !.state = disk["shell"].data] \in Works
        BY <3>1 DEF Works, IdleWork, Files
      <3>3. work' \in [AllWriters -> Works]
        BY <2>0, <2>1, <3>2 DEF Begin
      <3> QED
        BY <2>1, <3>3 DEF Begin, TypeOK
    <2>2. CASE Merge(w)
      <3>1. PICK ps \in SUBSET Profiles, a \in Profiles \cup {NoId} :
              work' = [work EXCEPT ![w] =
                [pc |-> "open", file |-> FirstFile,
                 state |-> Canonical([work[w].state EXCEPT !.profiles = ps,
                                      !.active = a, !.count[w] = @ + 1])]]
        BY <2>2 DEF Merge
      <3> DEFINE next == Canonical([work[w].state EXCEPT !.profiles = ps,
                                      !.active = a, !.count[w] = @ + 1])
      <3>2. next \in AppStates
        BY <2>0, NextState
      <3> HIDE DEF next
      <3>3. [pc |-> "open", file |-> FirstFile, state |-> next] \in Works
        BY <3>2, LastIsShell DEF Works, Files
      <3>4. work' = [work EXCEPT ![w] = [pc |-> "open", file |-> FirstFile, state |-> next]]
        BY <3>1 DEF next
      <3>5. work' \in [AllWriters -> Works]
        BY <2>0, <3>3, <3>4
      <3> QED
        BY <2>2, <3>5 DEF Merge, TypeOK
    <2>3. CASE GiveUp(w)
      <3>1. work' \in [AllWriters -> Works]
        BY <2>0, <2>3 DEF GiveUp
      <3> QED
        BY <2>3, <3>1 DEF GiveUp, TypeOK
    <2>4. CASE Open(w)
      <3>1. work' \in [AllWriters -> Works]
        BY <2>0, <2>4, <2>a DEF Open
      <3>2. temp' \in [Files -> Contents]
        BY <2>0, <2>4 DEF Open
      <3> QED
        BY <2>4, <3>1, <3>2 DEF Open, TypeOK
    <2>5. CASE WriteData(w)
      <3>1. work' \in [AllWriters -> Works]
        BY <2>0, <2>5, <2>a DEF WriteData
      <3>2. PICK c \in Contents :
              /\ temp' = [temp EXCEPT ![work[w].file] = IF fd[w] = "temp" THEN c ELSE @]
              /\ disk' = [disk EXCEPT ![work[w].file] = IF fd[w] = "target" THEN c ELSE @]
        BY <2>0, <2>5, OverlayType, PartType DEF WriteData
      <3>3. temp' \in [Files -> Contents] /\ disk' \in [Files -> Contents]
        BY <2>0, <3>2
      <3> QED
        BY <2>0, <2>5, <3>1, <3>3 DEF WriteData, TypeOK
    <2>6. CASE Rename(w)
      <3>1. work' \in [AllWriters -> Works]
        BY <2>0, <2>6, <2>a, LastIsShell DEF Rename, Files
      <3>2. disk' \in [Files -> Contents] /\ temp' \in [Files -> Contents]
        BY <2>0, <2>6 DEF Rename
      <3>3. fd' \in [AllWriters -> {"closed", "temp", "target", "orphan"}]
        BY <2>0, <2>6 DEF Rename
      <3>4. acked' \in [AllWriters -> Nat]
        <4>1. work[w].state.count[w] \in Nat
          BY <2>0 DEF AppStates
        <4> QED
          BY <2>6, <4>1 DEF Rename, TypeOK
      <3>5. gone' \subseteq Profiles
        <4>1. ProfilesOnDisk \subseteq Profiles
          BY <2>0 DEF ProfilesOnDisk, Files, Contents, AppStates
        <4> QED
          BY <2>6, <4>1 DEF Rename, TypeOK
      <3> QED
        BY <2>6, <3>1, <3>2, <3>3, <3>4, <3>5 DEF Rename, TypeOK
    <2>7. CASE WriteFails(w)
      <3>1. work' \in [AllWriters -> Works]
        BY <2>0, <2>7 DEF WriteFails
      <3>2. disk' \in [Files -> Contents] /\ temp' \in [Files -> Contents]
        BY <2>0, <2>7 DEF WriteFails
      <3> QED
        BY <2>0, <2>7, <3>1, <3>2 DEF WriteFails, TypeOK
    <2> QED
      BY <1>1, <2>1, <2>2, <2>3, <2>4, <2>5, <2>6, <2>7 DEF WriterStep
  <1>2. CASE ReadShell
    <2>1. disk["shell"].data.active \in Profiles \cup {NoId}
      BY DEF TypeOK, Contents, AppStates, Files
    <2>2. reader' \in Readers
      BY <1>2, <2>1 DEF ReadShell, Readers, IdleReader
    <2> QED
      BY <1>2, <2>2 DEF ReadShell, TypeOK
  <1>3. CASE ReadProfiles
    <2>1. reader' \in Readers
      BY <1>3 DEF ReadProfiles, Readers, TypeOK
    <2> QED
      BY <1>3, <2>1 DEF ReadProfiles, TypeOK
  <1>4. CASE Crash
    <2>1. disk' \in [Files -> Contents]
      BY <1>4 DEF Crash, TypeOK
    <2> QED
      BY <1>4, <2>1 DEF Crash, TypeOK
  <1>5. CASE UNCHANGED vars
    BY <1>5 DEF vars, TypeOK
  <1> QED
    BY <1>1, <1>2, <1>3, <1>4, <1>5 DEF Next

(* Whatever writers, failures and crashes do, the files, temp files and    *)
(* the work in hand stay well-formed.                                      *)
THEOREM StoreTypeCorrect == Spec => []TypeOK
  <1>1. Init => TypeOK
    BY StoreTypeInit
  <1>2. TypeOK /\ [Next]_vars => TypeOK'
    BY StoreTypeStep
  <1> QED
    BY <1>1, <1>2, PTL DEF Spec

-----------------------------------------------------------------------------
(* One kind of writer. *)

StoreInv == Alone /\ BuildsOnAcked /\ ActiveKnown

(* With one kind of writer the invariant holds at first. *)
LEMMA StoreInit ==
  ASSUME Init
  PROVE  StoreInv
  <1>0. TypeOK
    BY StoreTypeInit
  <1>1. NeverTorn
    <2>1. CASE disk = [f \in Files |-> Absent]
      BY <2>1, Blanks DEF NeverTorn
    <2>2. CASE disk # [f \in Files |-> Absent]
      <3>1. PICK ps \in SUBSET Profiles, a \in Profiles \cup {NoId} :
              disk = [f \in Files |-> Full(Part(f,
                Canonical([DefaultAppState EXCEPT !.profiles = ps, !.active = a])))]
        BY <2>2 DEF Init
      <3>2. ASSUME NEW f \in Files
            PROVE  disk[f].kind = "full"
        <4> DEFINE t == Part(f,
                     Canonical([DefaultAppState EXCEPT !.profiles = ps, !.active = a]))
        <4>1. disk[f] = Full(t)
          BY <3>1
        <4> HIDE DEF t
        <4> QED
          BY <4>1 DEF Full
      <3> QED
        BY <3>2 DEF NeverTorn
    <2> QED
      BY <2>1, <2>2
  <1>2. \A w \in AllWriters : work[w] = IdleWork /\ fd[w] = "closed" /\ acked[w] = 0
    BY DEF Init
  <1>3. Alone
    BY <1>1, <1>2, Blanks DEF Alone, TempIsOwn
  <1>4. BuildsOnAcked
    BY <1>2, Blanks DEF BuildsOnAcked, Survives
  <1>5. Readable(disk["shell"]) => Known(disk["shell"].data.active)
    <2>1. CASE disk = [f \in Files |-> Absent]
      BY <2>1, Blanks DEF Readable, Files
    <2>2. ASSUME NEW ps \in SUBSET Profiles, NEW a \in Profiles \cup {NoId},
                 disk = [f \in Files |-> Full(Part(f,
                   Canonical([DefaultAppState EXCEPT !.profiles = ps, !.active = a])))]
          PROVE  Known(disk["shell"].data.active)
      <3> DEFINE raw == [DefaultAppState EXCEPT !.profiles = ps, !.active = a]
      <3>1. raw \in AppStates /\ raw.profiles = ps
        BY Blanks DEF AppStates
      <3> HIDE DEF raw
      <3>2. /\ Canonical(raw) \in AppStates /\ Canonical(raw).profiles = ps
            /\ Canonical(raw).active \in ps \cup {NoId}
        BY <3>1, CanonicalType
      <3>3. /\ disk["shell"].data = Part("shell", Canonical(raw))
            /\ disk["profiles"] = Full(Part("profiles", Canonical(raw)))
        BY <2>2 DEF raw, Full, Files
      <3>4. /\ disk["shell"].data.active = Canonical(raw).active
            /\ disk["profiles"].kind = "full"
            /\ disk["profiles"].data.profiles = ps
        BY <3>2, <3>3, PartType DEF Files
      <3> QED
        BY <3>2, <3>4 DEF Known, ProfilesOnDisk, Readable
    <2> QED
      BY <2>1, <2>2 DEF Init
  <1>6. ActiveKnown
    BY <1>2, <1>5, Blanks DEF ActiveKnown, Init, ReaderFindsActive
  <1> QED
    BY <1>3, <1>4, <1>6 DEF StoreInv

(* A writer's step keeps the invariant when it is the only one. *)
LEMMA StoreWriter ==
  ASSUME NEW w \in AllWriters, Writers \subseteq {w}, TypeOK, StoreInv, WriterStep(w)
  PROVE  StoreInv'
  <1> DEFINE f == work[w].file
  <1>0. /\ work \in [AllWriters -> Works] /\ work[w] \in Works
        /\ f \in Files /\ work[w].state \in AppStates
        /\ disk \in [Files -> Contents] /\ temp \in [Files -> Contents]
        /\ fd \in [AllWriters -> {"closed", "temp", "target", "orphan"}]
        /\ acked \in [AllWriters -> Nat]
        /\ \A v \in AllWriters : acked[v] \in Nat
        /\ work[w].state.count \in [AllWriters -> Nat]
        /\ "shell" \in Files /\ "profiles" \in Files
    BY DEF TypeOK, Works, AppStates, Files
  <1>s. \A v \in AllWriters \ {w} :
          work[v] = IdleWork /\ fd[v] = "closed" /\ acked[v] = 0
    BY Blanks DEF StoreInv, Alone
  <1>i. IdleWork.pc = "idle" /\ Empty.kind = "empty" /\ Absent.kind = "absent"
    BY Blanks
  <1>f. FirstFile = "profiles" /\ LastFile = "shell"
    BY LastIsShell
  <1>a. ASSUME (* a step of w that leaves disk, the others and the reader alone *)
               UNCHANGED <<disk, reader, acked, gone>>,
               work' \in [AllWriters -> Works],
               \A v \in AllWriters \ {w} : work'[v] = work[v] /\ fd'[v] = fd[v],
               fd'[w] = IF work'[w].pc = "write" THEN "temp" ELSE "closed",
               work'[w].pc = "write" => temp'[work'[w].file] = Empty,
               work'[w].pc = "rename" =>
                 temp'[work'[w].file] = Full(Part(work'[w].file, work'[w].state)),
               w \notin Writers => work'[w] = IdleWork,
               work'[w].pc # "idle" => work'[w].state.count[w] >= acked[w],
               work'[w].pc \in {"open", "write", "rename"} =>
                 /\ work'[w].state.active \in work'[w].state.profiles \cup {NoId}
                 /\ work'[w].file = "shell" => Known(work'[w].state.active)
        PROVE  StoreInv'
    <2>1. NeverTorn' /\ TempIsOwn'
      BY <1>a, <1>s, <1>i DEF StoreInv, Alone, NeverTorn, TempIsOwn
    <2>2. Alone'
      BY <1>a, <1>s, <1>i, <2>1 DEF StoreInv, Alone
    <2>3. BuildsOnAcked'
      BY <1>a, <1>s, <1>i DEF StoreInv, BuildsOnAcked, Survives
    <2>4. \A x : Known(x)' <=> Known(x)
      BY <1>a DEF Known, ProfilesOnDisk
    <2>5. ActiveKnown'
      BY <1>a, <1>s, <1>i, <2>4 DEF StoreInv, ActiveKnown, ReaderFindsActive, Readable, Known,
         ProfilesOnDisk
    <2> QED
      BY <2>2, <2>3, <2>5 DEF StoreInv
  <1>1. CASE Begin(w)
    <2>1. /\ work'[w].pc = "merge" /\ work'[w].state = disk["shell"].data
          /\ fd' = fd /\ work[w].pc = "idle" /\ w \in Writers
          /\ \A v \in AllWriters \ {w} : work'[v] = work[v]
      BY <1>0, <1>1 DEF Begin, IdleWork
    <2>2. work' \in [AllWriters -> Works]
      BY <1>1, StoreTypeStep DEF Next, WriterStep, TypeOK
    <2>3. disk["shell"].data.count[w] >= acked[w]
      <3>1. disk["shell"].data.count[w] \in Nat
        BY <1>0 DEF Contents, AppStates
      <3>2. acked[w] > 0 => disk["shell"].data.count[w] >= acked[w]
        BY DEF StoreInv, BuildsOnAcked, Survives
      <3> QED
        BY <1>0, <3>1, <3>2
    <2>4. fd[w] = "closed"
      BY <2>1 DEF StoreInv, Alone
    <2> QED
      BY <1>1, <1>a, <2>1, <2>2, <2>3, <2>4 DEF Begin
  <1>2. CASE Merge(w)
    <2>1. PICK ps \in SUBSET Profiles, a \in Profiles \cup {NoId} :
            work' = [work EXCEPT ![w] =
              [pc |-> "open", file |-> FirstFile,
               state |-> Canonical([work[w].state EXCEPT !.profiles = ps,
                                    !.active = a, !.count[w] = @ + 1])]]
      BY <1>2 DEF Merge
    <2> DEFINE next == Canonical([work[w].state EXCEPT !.profiles = ps,
                                    !.active = a, !.count[w] = @ + 1])
    <2>2. /\ next \in AppStates /\ next.active \in next.profiles \cup {NoId}
          /\ next.count[w] = work[w].state.count[w] + 1
      <3> DEFINE old == work[w].state
      <3>1. old \in AppStates
        BY <1>0
      <3> HIDE DEF old
      <3>2. LET n == Canonical([old EXCEPT !.profiles = ps, !.active = a,
                                           !.count[w] = @ + 1])
            IN /\ n \in AppStates
               /\ n.active \in n.profiles \cup {NoId}
               /\ n.count[w] = old.count[w] + 1
        BY <3>1, NextState
      <3> QED
        BY <3>2 DEF old
    <2>3. work' = [work EXCEPT ![w] = [pc |-> "open", file |-> FirstFile, state |-> next]]
      BY <2>1
    <2> HIDE DEF next
    <2>4. /\ work'[w].pc = "open" /\ work'[w].state = next /\ work'[w].file = "profiles"
          /\ \A v \in AllWriters \ {w} : work'[v] = work[v]
      BY <1>0, <1>f, <2>3
    <2>5. work' \in [AllWriters -> Works]
      BY <1>2, StoreTypeStep DEF Next, WriterStep, TypeOK
    <2>6. work[w].state.count[w] >= acked[w] /\ fd[w] = "closed" /\ w \in Writers
      BY <1>2, <1>i DEF Merge, StoreInv, BuildsOnAcked, Alone
    <2>7. next.count[w] >= acked[w]
      BY <1>0, <2>2, <2>6
    <2> QED
      BY <1>2, <1>a, <2>2, <2>4, <2>5, <2>6, <2>7 DEF Merge
  <1>3. CASE GiveUp(w)
    <2>1. work'[w] = IdleWork /\ \A v \in AllWriters \ {w} : work'[v] = work[v]
      BY <1>0, <1>3 DEF GiveUp
    <2>2. work' \in [AllWriters -> Works]
      BY <1>3, StoreTypeStep DEF Next, WriterStep, TypeOK
    <2>3. fd[w] = "closed"
      BY <1>3 DEF GiveUp, StoreInv, Alone
    <2> QED
      BY <1>3, <1>a, <1>i, <2>1, <2>2, <2>3 DEF GiveUp
  <1>4. CASE Open(w)
    <2>1. /\ work'[w].pc = "write" /\ work'[w].file = f /\ work'[w].state = work[w].state
          /\ fd'[w] = "temp" /\ temp'[f] = Empty
          /\ \A v \in AllWriters \ {w} : work'[v] = work[v] /\ fd'[v] = fd[v]
      BY <1>0, <1>4 DEF Open, Works
    <2>2. work' \in [AllWriters -> Works]
      BY <1>4, StoreTypeStep DEF Next, WriterStep, TypeOK
    <2>3. /\ work[w].state.count[w] >= acked[w] /\ w \in Writers
          /\ work[w].state.active \in work[w].state.profiles \cup {NoId}
          /\ f = "shell" => Known(work[w].state.active)
      BY <1>4, <1>i DEF Open, StoreInv, BuildsOnAcked, Alone, ActiveKnown
    <2> QED
      BY <1>4, <1>a, <2>1, <2>2, <2>3 DEF Open
  <1>5. CASE WriteData(w)
    <2>0. fd[w] = "temp" /\ temp[f] = Empty
      BY <1>5 DEF WriteData, StoreInv, Alone
    <2>1. temp' = [temp EXCEPT ![f] = Full(Part(f, work[w].state))] /\ disk' = disk
      <3>1. Part(f, work[w].state) \in AppStates
        BY <1>0, PartType
      <3>2. Overlay(Empty, Part(f, work[w].state)) = {Full(Part(f, work[w].state))}
        BY <3>1, OverlayType
      <3>3. PICK c \in Overlay(temp[f], Part(f, work[w].state)) :
              /\ temp' = [temp EXCEPT ![f] = IF fd[w] = "temp" THEN c ELSE @]
              /\ disk' = [disk EXCEPT ![f] = IF fd[w] = "target" THEN c ELSE @]
        BY <1>5, <2>0 DEF WriteData
      <3> QED
        BY <1>0, <2>0, <3>2, <3>3
    <2>2. /\ work'[w].pc = "rename" /\ work'[w].file = f /\ work'[w].state = work[w].state
          /\ fd'[w] = "closed"
          /\ \A v \in AllWriters \ {w} : work'[v] = work[v] /\ fd'[v] = fd[v]
      BY <1>0, <1>5 DEF WriteData, Works
    <2>3. work' \in [AllWriters -> Works]
      BY <1>5, StoreTypeStep DEF Next, WriterStep, TypeOK
    <2>4. /\ work[w].state.count[w] >= acked[w] /\ w \in Writers
          /\ work[w].state.active \in work[w].state.profiles \cup {NoId}
          /\ f = "shell" => Known(work[w].state.active)
      BY <1>5, <1>i DEF WriteData, StoreInv, BuildsOnAcked, Alone, ActiveKnown
    <2>5. temp'[f] = Full(Part(f, work[w].state))
      BY <1>0, <2>1
    <2>6. UNCHANGED <<reader, acked, gone>>
      BY <1>5 DEF WriteData
    <2> QED
      BY <1>a, <2>1, <2>2, <2>3, <2>4, <2>5, <2>6
  <1>6. CASE Rename(w)
    <2> DEFINE s == work[w].state
    <2>1. /\ temp[f] = Full(Part(f, s)) /\ fd[w] = "closed" /\ w \in Writers
          /\ s.count[w] >= acked[w] /\ s.active \in s.profiles \cup {NoId}
          /\ f = "shell" => Known(s.active)
      BY <1>6, <1>i DEF Rename, StoreInv, Alone, TempIsOwn, BuildsOnAcked, ActiveKnown
    <2>2. /\ disk'[f] = Full(Part(f, s)) /\ \A g \in Files \ {f} : disk'[g] = disk[g]
          /\ disk'[f].kind = "full" /\ disk'[f].data = Part(f, s)
      BY <1>0, <1>6, <2>1, PartType DEF Rename, Full
    <2>3. \A v \in AllWriters : fd'[v] = "closed"
      BY <1>6, <1>s, <2>1 DEF Rename
    <2>4. /\ \A v \in AllWriters \ {w} : work'[v] = work[v] /\ acked'[v] = acked[v]
          /\ f = "profiles" =>
               /\ work'[w].pc = "open" /\ work'[w].file = "shell"
               /\ work'[w].state = s /\ acked' = acked
          /\ f = "shell" => work'[w] = IdleWork /\ acked'[w] = s.count[w]
      BY <1>0, <1>6, <1>f DEF Rename, Works
    <2>5. f = "profiles" \/ f = "shell"
      BY <1>0 DEF Files
    <2>6. Alone'
      <3>1. NeverTorn'
        BY <2>2 DEF NeverTorn, StoreInv, Alone
      <3>2. \A v \in AllWriters : work'[v].pc \notin {"write", "rename"}
        BY <1>i, <1>s, <2>4, <2>5
      <3> QED
        BY <1>s, <2>1, <2>3, <2>4, <3>1, <3>2 DEF Alone, TempIsOwn
    <2>7. BuildsOnAcked'
      <3>1. CASE f = "profiles"
        <4>1. disk'["shell"] = disk["shell"]
          BY <1>0, <2>2, <3>1
        <4> QED
          BY <1>i, <1>s, <2>1, <2>4, <3>1, <4>1 DEF StoreInv, BuildsOnAcked, Survives
      <3>2. CASE f = "shell"
        <4>1. disk'["shell"].kind = "full" /\ disk'["shell"].data.count = s.count
          BY <1>0, <2>2, <3>2, PartType
        <4>2. Survives(w)'
          BY <1>0, <2>4, <3>2, <4>1 DEF Survives
        <4>3. ASSUME NEW v \in AllWriters \ {w} PROVE Survives(v)'
          <5>1. acked[v] = 0
            BY <4>3 DEF StoreInv, Alone
          <5> QED
            BY <2>4, <5>1 DEF Survives
        <4> QED
          BY <1>i, <1>s, <2>4, <3>2, <4>2, <4>3 DEF BuildsOnAcked
      <3> QED
        BY <2>5, <3>1, <3>2
    <2>8. ActiveKnown'
      <3>1. CASE f = "profiles"
        <4>1. /\ disk'["shell"] = disk["shell"] /\ ProfilesOnDisk' = s.profiles
              /\ gone' = gone \cup (ProfilesOnDisk \ s.profiles)
          <5>1. temp[f].data.profiles = s.profiles
            <6>1. temp[f] = Full(Part("profiles", s))
              BY <2>1, <3>1
            <6>2. temp[f].data = Part("profiles", s)
              BY <6>1 DEF Full
            <6> QED
              BY <1>0, <6>2, PartType
          <5>2. disk'["profiles"].kind = "full" /\ disk'["profiles"].data.profiles = s.profiles
            BY <1>0, <2>2, <3>1, PartType
          <5> QED
            BY <1>0, <1>6, <2>2, <3>1, <5>1, <5>2 DEF Rename, ProfilesOnDisk, Readable
        <4>2. \A x : Known(x) => Known(x)'
          BY <4>1 DEF Known
        <4>3. Known(s.active)'
          BY <2>1, <2>4, <3>1, <4>1 DEF Known
        <4>4. reader' = reader
          BY <1>6 DEF Rename
        <4>5. Readable(disk["shell"])' => Known(disk["shell"].data.active)'
          BY <4>1, <4>2 DEF StoreInv, ActiveKnown, Readable, Known
        <4>6. reader'.pc = "merge" => Known(reader.active)'
          BY <4>2, <4>4 DEF StoreInv, ActiveKnown, Known
        <4>7. ReaderFindsActive'
          BY <4>1, <4>4 DEF StoreInv, ActiveKnown, ReaderFindsActive
        <4>8. \A v \in AllWriters : work'[v].pc \in {"open", "write", "rename"} =>
                /\ work'[v].state.active \in work'[v].state.profiles \cup {NoId}
                /\ work'[v].file = "shell" => Known(work[v].state.active)'
          BY <1>i, <1>s, <2>1, <2>4, <3>1, <4>3 DEF Known
        <4> QED
          BY <4>5, <4>6, <4>7, <4>8 DEF ActiveKnown
      <3>2. CASE f = "shell"
        <4>1. /\ disk'["shell"].data.active = s.active
              /\ ProfilesOnDisk' = ProfilesOnDisk /\ gone' = gone /\ reader' = reader
          BY <1>0, <1>6, <2>2, <3>2, PartType DEF Rename, ProfilesOnDisk, Readable
        <4>2. \A v \in AllWriters : work'[v].pc = "idle"
          BY <1>i, <1>s, <2>4, <3>2
        <4> QED
          BY <2>1, <3>2, <4>1, <4>2
          DEF StoreInv, ActiveKnown, ReaderFindsActive, Known
      <3> QED
        BY <2>5, <3>1, <3>2
    <2> QED
      BY <2>6, <2>7, <2>8 DEF StoreInv
  <1>7. CASE WriteFails(w)
    <2>1. fd[w] \in {"closed", "temp"}
      BY DEF StoreInv, Alone
    <2>2. disk' = disk
      BY <1>0, <1>7, <2>1 DEF WriteFails
    <2>3. /\ work'[w] = IdleWork /\ fd'[w] = "closed"
          /\ \A v \in AllWriters \ {w} : work'[v] = work[v] /\ fd'[v] = fd[v]
      BY <1>0, <1>7 DEF WriteFails
    <2>4. work' \in [AllWriters -> Works]
      BY <1>7, StoreTypeStep DEF Next, WriterStep, TypeOK
    <2>5. UNCHANGED <<reader, acked, gone>>
      BY <1>7 DEF WriteFails
    <2> QED
      BY <1>a, <1>i, <2>2, <2>3, <2>4, <2>5
  <1> QED
    BY <1>1, <1>2, <1>3, <1>4, <1>5, <1>6, <1>7 DEF WriterStep

(* Every step keeps the invariant when only one kind of writer takes part. *)
LEMMA StoreStep ==
  ASSUME NEW me \in AllWriters, Writers \subseteq {me}, TypeOK, StoreInv, [Next]_vars
  PROVE  StoreInv'
  <1>1. ASSUME NEW w \in AllWriters, WriterStep(w) PROVE StoreInv'
    <2>1. w \notin Writers => work[w].pc = "idle"
      BY Blanks DEF StoreInv, Alone
    <2>2. w = me
      BY <1>1, <2>1 DEF WriterStep, Begin, Merge, GiveUp, Open, WriteData, Rename,
                        WriteFails
    <2> QED
      BY <1>1, <2>2, StoreWriter
  <1>a. ASSUME UNCHANGED <<disk, temp, fd, work, acked, gone>>,
               reader'.pc = "merge" => Known(reader'.active),
               reader'.dangling => reader'.active \in gone
        PROVE  StoreInv'
    <2>1. Alone'
      BY <1>a DEF StoreInv, Alone, TempIsOwn, NeverTorn
    <2>2. BuildsOnAcked'
      BY <1>a DEF StoreInv, BuildsOnAcked, Survives
    <2>3. ActiveKnown'
      BY <1>a DEF StoreInv, ActiveKnown, ReaderFindsActive, Known, ProfilesOnDisk, Readable
    <2> QED
      BY <2>1, <2>2, <2>3 DEF StoreInv
  <1>2. CASE ReadShell
    <2>1. /\ reader'.active = disk["shell"].data.active /\ ~reader'.dangling
      BY <1>2 DEF ReadShell, IdleReader
    <2> QED
      BY <1>2, <1>a, <2>1 DEF ReadShell, StoreInv, ActiveKnown
  <1>3. CASE ReadProfiles
    <2>1. Known(reader.active)
      BY <1>3 DEF ReadProfiles, StoreInv, ActiveKnown
    <2>2. /\ reader'.pc = "done" /\ reader'.active = reader.active
          /\ reader'.dangling <=> reader.active # NoId /\ reader.active \notin ProfilesOnDisk
      BY <1>3 DEF ReadProfiles, TypeOK, Readers
    <2> QED
      BY <1>3, <1>a, <2>1, <2>2 DEF ReadProfiles, Known
  <1>4. CASE Crash
    <2>1. disk' = disk
      <3>1. \A w \in AllWriters : fd[w] # "target"
        BY DEF StoreInv, Alone
      <3> QED
        BY <1>4, <3>1 DEF Crash, TypeOK
    <2>2. \A w \in AllWriters : work'[w] = IdleWork /\ fd'[w] = "closed"
      BY <1>4 DEF Crash
    <2>3. reader' = IdleReader /\ UNCHANGED <<acked, gone>>
      BY <1>4 DEF Crash
    <2>4. Alone'
      BY <2>1, <2>2, <2>3, Blanks DEF StoreInv, Alone, TempIsOwn, NeverTorn
    <2>5. BuildsOnAcked'
      BY <2>1, <2>2, <2>3, Blanks DEF StoreInv, BuildsOnAcked, Survives
    <2>6. ActiveKnown'
      BY <2>1, <2>2, <2>3, Blanks
      DEF StoreInv, ActiveKnown, ReaderFindsActive, Known, ProfilesOnDisk, Readable
    <2> QED
      BY <2>4, <2>5, <2>6 DEF StoreInv
  <1>5. CASE UNCHANGED vars
    BY <1>5, <1>a DEF vars, StoreInv, ActiveKnown, ReaderFindsActive
  <1> QED
    BY <1>1, <1>2, <1>3, <1>4, <1>5 DEF Next

(* With one kind of writer, no crash or failed write breaks a file, takes  *)
(* back an acknowledged write, or makes a reader drop a profile that       *)
(* nobody removed.                                                         *)
THEOREM OneWriterIsSafe ==
  ASSUME NEW me \in AllWriters, Writers \subseteq {me}
  PROVE  Spec => []StoreIsSafe
  <1>1. Init => TypeOK /\ StoreInv
    BY StoreTypeInit, StoreInit
  <1>2. TypeOK /\ StoreInv /\ [Next]_vars => TypeOK' /\ StoreInv'
    BY StoreTypeStep, StoreStep
  <1>3. StoreInv => NeverTorn /\ NoLostWrite /\ ReaderFindsActive
    BY DEF StoreInv, Alone, BuildsOnAcked, NoLostWrite, ActiveKnown
  <1>4. StoreInv => StoreIsSafe
    BY <1>3 DEF StoreIsSafe
  <1> QED
    BY <1>1, <1>2, <1>4, PTL DEF Spec
=============================================================================
