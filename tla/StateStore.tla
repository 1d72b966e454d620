------------------------------ MODULE StateStore ------------------------------
(***************************************************************************)
(* The saved settings on disk: profiles.json and app-state.json, written   *)
(* by read-modify-write and read by anybody without a lock                 *)
(* (crates/kasumi-backend/src/state.rs, fsjson.rs, commands.rs).           *)
(*                                                                         *)
(* Two kinds of writer exist.  "mutate" is whoever holds the state_write   *)
(* lock: a client's edit or a backup import.  "update" is whoever holds    *)
(* the lifecycle lock: a subscription apply, a recorded fetch error, an    *)
(* asset stamp.  Each kind is serial; the two locks say nothing about each *)
(* other.                                                                  *)
(*                                                                         *)
(* A file is replaced by writing a temp file and renaming it over.  The    *)
(* temp name is made of the path and the process id, so the two kinds of   *)
(* writer use the same one.  `fd` follows an open temp file through the    *)
(* renames of the other writer.                                            *)
(***************************************************************************)
EXTENDS Naturals

CONSTANTS
  Profiles,   \* profile ids
  NoId,       \* no active profile
  Writers,    \* the kinds of writer that take part
  MaxWrites   \* bound: writes begun per kind

AllWriters == {"mutate", "update"}
Files == {"profiles", "shell"}

ASSUME StoreAssumption ==
  /\ NoId \notin Profiles
  /\ Writers \subseteq AllWriters
  /\ MaxWrites \in Nat

VARIABLES
  disk,    \* what the two paths hold
  temp,    \* what the two temp paths hold
  fd,      \* where a writer's open temp file is by now
  work,    \* the read-modify-write each writer is in
  reader,  \* a read_app_state without any lock
  (* history, read by no guard *)
  acked,   \* writes reported as done, by writer
  gone     \* profiles some write removed from profiles.json

vars == <<disk, temp, fd, work, reader, acked, gone>>

(* An AppState, as far as the store tells states apart: the profiles, the  *)
(* active id, and how many writes of each kind it contains.                *)
AppStates == [profiles: SUBSET Profiles, active: Profiles \cup {NoId},
              count: [AllWriters -> Nat]]
DefaultAppState == [profiles |-> {}, active |-> NoId,
                    count |-> [w \in AllWriters |-> 0]]

(* A file: missing, truncated, complete, or a mixture of two writes. *)
Contents == [kind: {"absent", "empty", "full", "torn"}, data: AppStates]
Absent == [kind |-> "absent", data |-> DefaultAppState]
Empty == [kind |-> "empty", data |-> DefaultAppState]
Torn == [kind |-> "torn", data |-> DefaultAppState]
Full(s) == [kind |-> "full", data |-> s]

Works == [pc: {"idle", "merge", "open", "write", "rename"}, file: Files,
          state: AppStates]
IdleWork == [pc |-> "idle", file |-> "profiles", state |-> DefaultAppState]

Readers == [pc: {"idle", "merge", "done"}, active: Profiles \cup {NoId},
            dangling: BOOLEAN]
IdleReader == [pc |-> "idle", active |-> NoId, dangling |-> FALSE]

TypeOK ==
  /\ disk \in [Files -> Contents]
  /\ temp \in [Files -> Contents]
  /\ fd \in [AllWriters -> {"closed", "temp", "target", "orphan"}]
  /\ work \in [AllWriters -> Works]
  /\ reader \in Readers
  /\ acked \in [AllWriters -> Nat]
  /\ gone \subseteq Profiles

-----------------------------------------------------------------------------
(* read_json: a file that is missing or does not parse reads as nothing. *)
Readable(content) == content.kind = "full"

(* The profiles of the merged state; the shell itself carries none. *)
ProfilesOnDisk == IF Readable(disk["profiles"]) THEN disk["profiles"].data.profiles ELSE {}

(* fixup_active_id, on load (normalize_app_state) and on save (the chain). *)
Canonical(s) == [s EXCEPT !.active = IF s.active \in s.profiles THEN s.active ELSE NoId]

(* write_app_state splits the state: the profiles into one file, the rest, *)
(* the shell, into the other.                                              *)
Part(f, s) ==
  IF f = "profiles" THEN [DefaultAppState EXCEPT !.profiles = s.profiles]
                    ELSE [s EXCEPT !.profiles = {}]

(* Slip: the shell goes first. *)
FirstFile_Shell == "shell"

(* The order of write_app_state. *)
FirstFile == "profiles"
LastFile == CHOOSE f \in Files : f # FirstFile

-----------------------------------------------------------------------------
Init ==
  /\ \/ disk = [f \in Files |-> Absent]
     \/ \E ps \in SUBSET Profiles, a \in Profiles \cup {NoId} :
          disk = [f \in Files |-> Full(Part(f,
            Canonical([DefaultAppState EXCEPT !.profiles = ps, !.active = a])))]
  /\ temp = [f \in Files |-> Absent]
  /\ fd = [w \in AllWriters |-> "closed"]
  /\ work = [w \in AllWriters |-> IdleWork]
  /\ reader = IdleReader
  /\ acked = [w \in AllWriters |-> 0]
  /\ gone = {}

(* The read half, part one: app-state.json.  Unreadable is a fresh install *)
(* to an edit, and the end of the job to an updater.                       *)
Begin(w) ==
  /\ w \in Writers
  /\ work[w].pc = "idle"
  /\ disk["shell"].data.count[w] < MaxWrites
  /\ \/ Readable(disk["shell"])
     \/ w = "mutate"
  /\ work' = [work EXCEPT ![w] =
       [IdleWork EXCEPT !.pc = "merge", !.state = disk["shell"].data]]
  /\ UNCHANGED <<disk, temp, fd, reader, acked, gone>>

(* Part two: profiles.json, then the change itself: the profiles and the   *)
(* active id in any way, and a write counted.  The chain runs over it.     *)
Merge(w) ==
  /\ work[w].pc = "merge"
  /\ \E ps \in SUBSET Profiles, a \in Profiles \cup {NoId} :
       LET read == work[w].state
           next == Canonical([read EXCEPT !.profiles = ps, !.active = a,
                                          !.count[w] = @ + 1])
       IN work' = [work EXCEPT ![w] =
            [pc |-> "open", file |-> FirstFile, state |-> next]]
  /\ UNCHANGED <<disk, temp, fd, reader, acked, gone>>

(* A rejected edit (port clash), a subscription or asset that is gone by   *)
(* now: nothing is written.                                                *)
GiveUp(w) ==
  /\ work[w].pc = "merge"
  /\ work' = [work EXCEPT ![w] = IdleWork]
  /\ UNCHANGED <<disk, temp, fd, reader, acked, gone>>

-----------------------------------------------------------------------------
(* write_bytes_atomic: fs::write on the temp path, then rename. *)

(* Create or truncate the temp file. *)
Open(w) ==
  /\ work[w].pc = "open"
  /\ temp' = [temp EXCEPT ![work[w].file] = Empty]
  /\ fd' = [fd EXCEPT ![w] = "temp"]
  /\ work' = [work EXCEPT ![w].pc = "write"]
  /\ UNCHANGED <<disk, reader, acked, gone>>

(* Writing from the start of a file another writer has filled meanwhile    *)
(* leaves the other's tail behind when it was the longer one.              *)
Overlay(content, s) ==
  IF content.kind = "empty" THEN {Full(s)} ELSE {Full(s), Torn}

(* Write the data through the open file, wherever it is named by now, and  *)
(* close it.                                                               *)
WriteData(w) ==
  LET f == work[w].file
      s == Part(f, work[w].state)
      old == IF fd[w] = "target" THEN disk[f] ELSE temp[f]
  IN /\ work[w].pc = "write"
     /\ \E c \in Overlay(old, s) :
          /\ temp' = [temp EXCEPT ![f] = IF fd[w] = "temp" THEN c ELSE @]
          /\ disk' = [disk EXCEPT ![f] = IF fd[w] = "target" THEN c ELSE @]
     /\ fd' = [fd EXCEPT ![w] = "closed"]
     /\ work' = [work EXCEPT ![w].pc = "rename"]
     /\ UNCHANGED <<reader, acked, gone>>

(* The temp file takes the path over, with whatever it holds; a file still *)
(* open under either name moves along.  The second rename ends the write.  *)
Rename(w) ==
  LET f == work[w].file
  IN /\ work[w].pc = "rename"
     /\ temp[f].kind # "absent"
     /\ disk' = [disk EXCEPT ![f] = temp[f]]
     /\ temp' = [temp EXCEPT ![f] = Absent]
     /\ fd' = [v \in AllWriters |->
          CASE work[v].file = f /\ fd[v] = "temp" -> "target"
            [] work[v].file = f /\ fd[v] = "target" -> "orphan"
            [] OTHER -> fd[v]]
     /\ IF f = FirstFile
          THEN /\ work' = [work EXCEPT ![w].pc = "open", ![w].file = LastFile]
               /\ UNCHANGED acked
          ELSE /\ work' = [work EXCEPT ![w] = IdleWork]
               /\ acked' = [acked EXCEPT ![w] = work[w].state.count[w]]
     /\ gone' = IF f = "profiles"
                  THEN gone \cup (ProfilesOnDisk \ temp[f].data.profiles)
                  ELSE gone
     /\ UNCHANGED reader

(* Opening, writing or renaming fails (a full disk, the temp file renamed  *)
(* away): the caller gets the error, what is on disk stays, and a half     *)
(* written file stays half written.                                        *)
WriteFails(w) ==
  /\ work[w].pc \in {"open", "write", "rename"}
  /\ temp' = [temp EXCEPT ![work[w].file] =
                IF work[w].pc = "write" /\ fd[w] = "temp" THEN Torn ELSE @]
  /\ disk' = [disk EXCEPT ![work[w].file] =
                IF work[w].pc = "write" /\ fd[w] = "target" THEN Torn ELSE @]
  /\ fd' = [fd EXCEPT ![w] = "closed"]
  /\ work' = [work EXCEPT ![w] = IdleWork]
  /\ UNCHANGED <<reader, acked, gone>>

-----------------------------------------------------------------------------
(* read_app_state of a status frame, an auto-start, a probe: no lock. *)
ReadShell ==
  /\ reader.pc # "merge"
  /\ Readable(disk["shell"])
  /\ reader' = [IdleReader EXCEPT !.pc = "merge", !.active = disk["shell"].data.active]
  /\ UNCHANGED <<disk, temp, fd, work, acked, gone>>

(* An active id that profiles.json does not know is dropped. *)
ReadProfiles ==
  /\ reader.pc = "merge"
  /\ reader' = [reader EXCEPT !.pc = "done",
       !.dangling = reader.active # NoId /\ reader.active \notin ProfilesOnDisk]
  /\ UNCHANGED <<disk, temp, fd, work, acked, gone>>

(* The process dies and comes back under another process id. *)
Crash ==
  /\ temp' = [f \in Files |-> Absent]
  /\ fd' = [w \in AllWriters |-> "closed"]
  /\ work' = [w \in AllWriters |-> IdleWork]
  /\ reader' = IdleReader
  /\ disk' = [f \in Files |->
       IF \E w \in AllWriters : work[w].file = f /\ fd[w] = "target" THEN Torn ELSE disk[f]]
  /\ UNCHANGED <<acked, gone>>

-----------------------------------------------------------------------------
WriterStep(w) ==
  \/ Begin(w)
  \/ Merge(w)
  \/ GiveUp(w)
  \/ Open(w)
  \/ WriteData(w)
  \/ Rename(w)
  \/ WriteFails(w)

Next ==
  \/ \E w \in AllWriters : WriterStep(w)
  \/ ReadShell
  \/ ReadProfiles
  \/ Crash

Spec == Init /\ [][Next]_vars

-----------------------------------------------------------------------------
(* Properties. *)

(* Neither file is ever found truncated or mixed, through failed writes    *)
(* and crashes, so a reader never takes a broken file for a fresh install  *)
(* (write_bytes_atomic, read_json).                                        *)
NeverTorn == \A f \in Files : disk[f].kind \in {"absent", "full"}

Survives(w) ==
  acked[w] > 0 =>
    disk["shell"].kind = "full" /\ disk["shell"].data.count[w] >= acked[w]

(* What a write reported as done has put into app-state.json is still      *)
(* there: no crash, failed write or other write takes it back              *)
(* (run_mutation, persist_with_chain).                                     *)
NoLostWrite == \A w \in AllWriters : Survives(w)

(* A reader without a lock never drops an active profile that nobody       *)
(* removed: profiles.json is written first and read last                   *)
(* (write_app_state, read_app_state).                                      *)
ReaderFindsActive == reader.dangling => reader.active \in gone

(* The files survive crashes, failed writes and readers without a lock.    *)
StoreIsSafe == NeverTorn /\ NoLostWrite /\ ReaderFindsActive

(* Who renames a temp file over renames what it wrote: "The temp name      *)
(* carries the pid so concurrent writers to the same path don't clobber    *)
(* each other's temp file" (fsjson.rs).                                    *)
TempIsOwn ==
  \A w \in AllWriters : work[w].pc = "rename" =>
    temp[work[w].file] = Full(Part(work[w].file, work[w].state))

(* An acknowledged edit stays in: "Hold the state-write lock across the    *)
(* whole read-modify-write so concurrent edits serialize into one          *)
(* consistent result" (Service::dispatch).                                 *)
EditSurvives == Survives("mutate")

-----------------------------------------------------------------------------
(* The strengthenings that make the invariants above inductive when only   *)
(* one kind of writer takes part.                                          *)

(* Nobody but the one writer has a file open, and its temp file is its own.*)
Alone ==
  /\ \A w \in AllWriters :
       /\ w \notin Writers => work[w] = IdleWork /\ acked[w] = 0
       /\ fd[w] = IF work[w].pc = "write" THEN "temp" ELSE "closed"
       /\ work[w].pc = "write" => temp[work[w].file] = Empty
  /\ TempIsOwn
  /\ NeverTorn

(* A write under way contains every acknowledged one. *)
BuildsOnAcked ==
  \A w \in AllWriters :
    /\ work[w].pc # "idle" => work[w].state.count[w] >= acked[w]
    /\ Survives(w)

(* An active id held by the shell, by a write that has replaced the        *)
(* profiles already, or by a reader, is a profile's unless it was removed. *)
Known(a) == a = NoId \/ a \in ProfilesOnDisk \/ a \in gone
ActiveKnown ==
  /\ Readable(disk["shell"]) => Known(disk["shell"].data.active)
  /\ \A w \in AllWriters :
       work[w].pc \in {"open", "write", "rename"} =>
         /\ work[w].state.active \in work[w].state.profiles \cup {NoId}
         /\ work[w].file = "shell" => Known(work[w].state.active)
  /\ reader.pc = "merge" => Known(reader.active)
  /\ ReaderFindsActive
=============================================================================
