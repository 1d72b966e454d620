---------------------------- MODULE TestJobsProofs ----------------------------
(* Proofs about TestJobs: for any number of tests, rows and changes of the *)
(* limit, tests neither measure each other, nor leak, nor overwrite each   *)
(* other's reasons, nor wait for each other in a circle.                   *)
EXTENDS TestJobs, FiniteSetTheorems, WellFoundedInduction, TLAPS

Permitted == {"waiting", "scanned", "leased", "spawned", "listening", "answered", "silent", "dead"}
Leasing == {"leased", "spawned", "listening", "answered", "silent", "dead"}
Semaphores == 1..MaxLimitChanges + 1

JobTypes ==
    /\ JobTypeOK
    /\ known \subseteq Rows /\ limit \in Limits
    /\ size \in [Semaphores -> Nat]
    /\ used \in [Tests -> SUBSET Ports] /\ lingering \subseteq Ports
    /\ lastTest \in [Rows -> (Tests \cup {NoTest}) \X BOOLEAN]

(* A test has a slot while it is asked for, the slot of its row in the map,*)
(* and one test of a row holds it: no newcomer prunes a slot in use.       *)
SlotInv ==
    /\ \A t \in Tests : slot[t] # NoTest <=> at[t] \notin {"new", "over"}
    /\ \A t \in Tests : slot[t] # NoTest => locks[RowOf[t]] = slot[t]
    /\ \A r \in Rows : locks[r] # NoTest => RowOf[locks[r]] = r
    /\ \A t, u \in Tests : at[t] \in Holding /\ at[u] \in Holding /\ RowOf[t] = RowOf[u] => t = u

(* A permit is had from the queue at the semaphore to the end of the       *)
(* attempt, and each semaphore made has at least one.                      *)
PermitInv ==
    /\ \A t \in Tests : permit[t] # 0 <=> at[t] \in Permitted
    /\ \A t \in Tests : permit[t] <= limiter
    /\ limiter <= MaxLimitChanges \/ size[limiter] = limit
    /\ \A s \in 1..limiter : size[s] \in Limits
    /\ \A s \in Semaphores : Cardinality(HoldersOf(s)) <= size[s]

(* Leases are of different ports, and who listens on a port leased it.     *)
PortInv ==
    /\ \A t \in Tests : port[t] # NoPort <=> at[t] \in Leasing
    /\ \A t, u \in Tests : port[t] # NoPort /\ port[t] = port[u] => t = u
    /\ leased = {port[t] : t \in Tests} \ {NoPort}
    /\ \A p \in Ports : bound[p] # NoTest => Running(bound[p]) /\ port[bound[p]] = p
    /\ ProbesItsCore

(* Each test takes at most one port for good, so one is left for the next. *)
Past == {t \in Tests : at[t] \notin {"new", "queued", "waiting", "scanned"}}
Listened == lingering \cup {p \in Ports : bound[p] # NoTest}
RoomInv ==
    /\ \A t \in Tests : used[t] \subseteq Listened
    /\ Cardinality(lingering \cup leased) <= Cardinality(Past)

(* What a row's log tells while a test of it is under way, and after it.   *)
LogOf(t) == IF at[t] \in {"silent", "dead"} THEN {t}
            ELSE IF at[t] = "failed" THEN {NoTest, t} ELSE {NoTest}
LogInv ==
    /\ LogTellsLast
    /\ \A t \in Tests : at[t] \in Holding /\ RowOf[t] \in known => log[RowOf[t]] \in LogOf(t)

JobInv == JobTypes /\ SlotInv /\ PermitInv /\ PortInv /\ RoomInv /\ LogInv

-----------------------------------------------------------------------------
(* Ports and counts                                                        *)

LEMMA LeastExists ==
  ASSUME NEW S, S \subseteq Nat, S # {}
  PROVE  \E x \in S : \A y \in S : x <= y
  <1> DEFINE R == OpToRel(<, Nat)
  <1>1. IsWellFoundedOn(R, Nat)
    BY NatLessThanWellFounded
  <1>2. PICK x \in S : \A y \in S : ~ (<<y, x>> \in R)
    BY <1>1, WFMin
  <1>3. ASSUME NEW y \in S, ~ (x <= y) PROVE FALSE
    <2>1. y < x /\ <<y, x>> \in Nat \X Nat
      BY <1>3
    <2>2. <<y, x>> \in R
      BY <2>1 DEF OpToRel
    <2> QED
      BY <1>2, <1>3, <2>2
  <1> QED
    BY <1>3

LEMMA CountsAreFinite ==
  /\ \A s : IsFiniteSet(HoldersOf(s)) /\ Cardinality(HoldersOf(s)) \in Nat
  /\ IsFiniteSet(Past) /\ Cardinality(Past) \in Nat
  /\ IsFiniteSet(Ports) /\ Cardinality(Ports) = LastPort
  <1>1. \A s : HoldersOf(s) \in SUBSET Tests
    BY DEF HoldersOf
  <1>2. Past \in SUBSET Tests
    BY DEF Past
  <1>3. IsFiniteSet(Ports) /\ Cardinality(Ports) = LastPort
    BY JobConstants, FS_Interval DEF Ports
  <1> QED
    BY <1>1, <1>2, <1>3, JobConstants, FS_Subset, FS_CardinalityType

(* A set that loses elements, or gains none, is not larger.                *)
LEMMA NotLarger ==
  ASSUME NEW S, NEW T, IsFiniteSet(S), T \subseteq S
  PROVE  IsFiniteSet(T) /\ Cardinality(T) <= Cardinality(S)
  BY FS_Subset

(* Who listens leased its port.                                            *)
LEMMA BoundIsLeased ==
  ASSUME JobInv, NEW p \in Ports, bound[p] # NoTest
  PROVE  p \in leased /\ bound[p] \in Tests /\ port[bound[p]] = p
  <1>1. bound[p] \in Tests /\ port[bound[p]] = p
    BY DEF JobInv, PortInv, JobTypes, JobTypeOK
  <1>2. p # NoPort
    BY DEF Ports, NoPort
  <1> QED
    BY <1>1, <1>2 DEF JobInv, PortInv

(* A test that comes to its lease finds a port of its own.                 *)
LEMMA PortIsFree ==
  ASSUME JobInv, NEW t \in Tests, at[t] = "scanned"
  PROVE  ReservedPort(t) \in FreePorts(t)
  <1>1. Cardinality(Past) < Cardinality(Tests)
    <2>1. t \notin Past /\ Past \in SUBSET Tests
      BY DEF Past
    <2> QED
      BY <2>1, JobConstants, FS_Subset, FS_CardinalityType, CountsAreFinite
  <1>2. used[t] \cup leased \subseteq lingering \cup leased
    BY BoundIsLeased DEF JobInv, RoomInv, Listened
  <1>3. lingering \cup leased # Ports
    <2> SUFFICES ASSUME lingering \cup leased = Ports PROVE FALSE
      OBVIOUS
    <2>1. Cardinality(lingering \cup leased) = LastPort /\ LastPort \in Nat /\ Cardinality(Tests) \in Nat
      BY CountsAreFinite, JobConstants, FS_CardinalityType
    <2>2. Cardinality(lingering \cup leased) <= Cardinality(Past) /\ Cardinality(Past) \in Nat
      BY CountsAreFinite DEF JobInv, RoomInv
    <2> QED
      BY <1>1, <2>1, <2>2, JobConstants
  <1>4. lingering \cup leased \subseteq Ports /\ used[t] \subseteq Ports
    BY DEF JobInv, JobTypes, JobTypeOK
  <1>5. FreePorts(t) # {} /\ FreePorts(t) \subseteq Nat
    <2>1. PICK p \in Ports : p \notin lingering \cup leased
      BY <1>3, <1>4 DEF JobInv, JobTypes, JobTypeOK
    <2>2. p \in FreePorts(t)
      BY <1>2, <2>1 DEF FreePorts
    <2>3. FreePorts(t) \subseteq Ports /\ Ports \subseteq Nat
      BY DEF FreePorts, Ports
    <2> QED
      BY <2>2, <2>3
  <1>6. \E p \in FreePorts(t) : \A q \in FreePorts(t) : p <= q
    BY <1>5, LeastExists
  <1> QED
    BY <1>5, <1>6 DEF ReservedPort

-----------------------------------------------------------------------------
(* What a step leaves alone                                                *)

LEMMA SlotsKept ==
  ASSUME JobInv, NEW t \in Tests, NEW w \in Holding, at[t] \in Holding,
         at' = [at EXCEPT ![t] = w], UNCHANGED <<slot, locks>>
  PROVE  SlotInv'
  <1>1. \A u \in Tests : /\ at'[u] \in Holding <=> at[u] \in Holding
                         /\ at'[u] \in {"new", "over"} <=> at[u] \in {"new", "over"}
    BY DEF JobInv, JobTypes, JobTypeOK, Holding
  <1> QED
    BY <1>1 DEF JobInv, SlotInv

LEMMA PermitsKept ==
  ASSUME JobInv, UNCHANGED <<limit, limiter, size>>,
         \A t \in Tests : \/ /\ permit'[t] = permit[t]
                             /\ at'[t] \in Permitted <=> at[t] \in Permitted
                             /\ at[t] # "waiting" \/ at'[t] = "waiting"
                          \/ permit'[t] = 0 /\ at'[t] \notin Permitted
  PROVE  PermitInv'
  <1>1. ASSUME NEW s \in Semaphores
        PROVE  Cardinality(HoldersOf(s))' <= size'[s]
    <2>1. HoldersOf(s)' \subseteq HoldersOf(s)
      BY DEF HoldersOf, Semaphores
    <2>2. Cardinality(HoldersOf(s)') <= Cardinality(HoldersOf(s)) /\ IsFiniteSet(HoldersOf(s)')
      BY <2>1, CountsAreFinite, NotLarger
    <2>3. Cardinality(HoldersOf(s)') \in Nat /\ Cardinality(HoldersOf(s)) \in Nat /\ size[s] \in Nat
      BY <2>2, CountsAreFinite, FS_CardinalityType DEF JobInv, JobTypes
    <2> QED
      BY <2>2, <2>3 DEF JobInv, PermitInv
  <1>2. limiter \in Nat \ {0}
    BY JobConstants DEF JobInv, JobTypes, JobTypeOK
  <1>3. \A t \in Tests : permit'[t] <= limiter'
    BY <1>2 DEF JobInv, PermitInv
  <1>4. \A t \in Tests : permit'[t] # 0 <=> at'[t] \in Permitted
    BY DEF JobInv, PermitInv
  <1> QED
    BY <1>1, <1>3, <1>4 DEF JobInv, PermitInv

LEMMA PortsKept ==
  ASSUME JobInv, UNCHANGED <<port, leased, bound>>,
         \A t \in Tests : at'[t] \in Leasing <=> at[t] \in Leasing,
         \A t \in Tests : Running(t) => Running(t)',
         \A t \in Tests : at'[t] \in {"listening", "answered", "silent"} =>
                              at[t] \in {"listening", "answered", "silent"} \/ bound[port[t]] = t
  PROVE  PortInv'
  <1>1. \A p \in Ports : bound'[p] # NoTest => Running(bound[p])' /\ port'[bound'[p]] = p
    BY BoundIsLeased DEF JobInv, PortInv, Running
  <1>2. ProbesItsCore'
    BY DEF JobInv, PortInv, ProbesItsCore
  <1> QED
    BY <1>1, <1>2 DEF JobInv, PortInv

LEMMA RoomKept ==
  ASSUME JobInv, UNCHANGED <<used, lingering, leased, bound>>, Past \subseteq Past',
         Past' \subseteq Tests
  PROVE  RoomInv'
  <1>1. IsFiniteSet(Past') /\ Cardinality(Past') \in Nat
    <2>1. IsFiniteSet(Past')
      BY JobConstants, FS_Subset
    <2> QED
      BY <2>1, FS_CardinalityType
  <1>2. Cardinality(Past) <= Cardinality(Past')
    BY <1>1, NotLarger
  <1>3. IsFiniteSet(lingering \cup leased)
    <2>1. lingering \cup leased \in SUBSET Ports
      BY DEF JobInv, JobTypes, JobTypeOK
    <2> QED
      BY <2>1, CountsAreFinite, FS_Subset
  <1>4. Cardinality(lingering \cup leased) \in Nat
    BY <1>3, FS_CardinalityType
  <1> QED
    BY <1>1, <1>2, <1>4, CountsAreFinite DEF JobInv, RoomInv, Listened

(* A row's log while a test of it goes on: the other rows' are as before.  *)
LEMMA LogWhileHeld ==
  ASSUME JobInv, SlotInv', NEW t \in Tests, NEW w \in Holding, NEW v \in Tests \cup {NoTest},
         at' = [at EXCEPT ![t] = w], UNCHANGED known,
         \A q \in Rows \ {RowOf[t]} : lastTest'[q] = lastTest[q],
         log' = [log EXCEPT ![RowOf[t]] = v],
         RowOf[t] \in known => v \in LogOf(t)'
  PROVE  LogInv'
  <1>1. at \in [Tests -> Holding \cup {"new", "queued", "over"}] /\ log \in [Rows -> Tests \cup {NoTest}]
    BY DEF JobInv, JobTypes, JobTypeOK
  <1>2. at'[t] \in Holding /\ RowOf[t] \in Rows /\ known \subseteq Rows
    BY <1>1, JobConstants DEF JobInv, JobTypes
  <1>3. LogTellsLast'
    <2> SUFFICES ASSUME NEW r \in known, \A u \in Tests : RowOf[u] = r => at'[u] \notin Holding
                 PROVE  log'[r] = IF lastTest'[r][2] THEN NoTest ELSE lastTest'[r][1]
      BY DEF LogTellsLast
    <2>1. r # RowOf[t] /\ r \in Rows
      BY <1>2
    <2>2. log'[r] = log[r] /\ lastTest'[r] = lastTest[r] /\ \A u \in Tests : RowOf[u] = r => at[u] \notin Holding
      BY <1>1, <1>2, <2>1
    <2> QED
      BY <2>2 DEF JobInv, LogInv, LogTellsLast
  <1>4. ASSUME NEW u \in Tests, at'[u] \in Holding, RowOf[u] \in known
        PROVE  log'[RowOf[u]] \in LogOf(u)'
    <2>1. CASE u = t
      BY <1>1, <1>2, <1>4, <2>1
    <2>2. CASE u # t
      <3>1. RowOf[u] # RowOf[t]
        BY <1>2, <1>4, <2>2 DEF SlotInv
      <3>2. log'[RowOf[u]] = log[RowOf[u]] /\ at'[u] = at[u]
        BY <1>1, <1>2, <1>4, <2>2, <3>1
      <3> QED
        BY <1>4, <3>2 DEF JobInv, LogInv, LogOf
    <2> QED
      BY <2>1, <2>2
  <1> QED
    BY <1>3, <1>4 DEF LogInv

-----------------------------------------------------------------------------
LEMMA InitInv == JobInit => JobInv
  <1> SUFFICES ASSUME JobInit PROVE JobInv
    OBVIOUS
  <1> USE DEF JobInit
  <1>1. JobTypes
    <2>1. JobTypeOK
      BY JobConstants DEF JobTypeOK, Ports
    <2>2. size \in [Semaphores -> Nat]
      BY JobConstants DEF Semaphores
    <2>3. lastTest \in [Rows -> (Tests \cup {NoTest}) \X BOOLEAN]
      OBVIOUS
    <2> QED
      BY <2>1, <2>2, <2>3 DEF JobTypes
  <1>2. SlotInv /\ LogInv
    BY DEF SlotInv, LogInv, LogTellsLast, Holding
  <1>3. PermitInv
    <2>1. \A s \in Semaphores : HoldersOf(s) = {}
      BY DEF HoldersOf, Semaphores
    <2>2. \A s \in Semaphores : Cardinality(HoldersOf(s)) = 0 /\ size[s] \in Nat
      BY <2>1, FS_EmptySet, JobConstants DEF Semaphores
    <2> QED
      BY <2>2, JobConstants DEF PermitInv, Permitted, Semaphores
  <1>4. PortInv
    BY DEF PortInv, ProbesItsCore, Leasing, NoPort
  <1>5. RoomInv
    <2>1. lingering \cup leased = {} /\ Past = {}
      BY DEF Past
    <2> QED
      BY <2>1, FS_EmptySet DEF RoomInv
  <1> QED
    BY <1>1, <1>2, <1>3, <1>4, <1>5 DEF JobInv

(* A newcomer finds its row's slot in the map as long as a test holds it or *)
(* waits for it, and else puts one there.                                  *)
LEMMA AskForStep ==
  ASSUME JobInv, NEW t \in Tests, AskFor(t)
  PROVE  JobInv'
  <1> DEFINE r == RowOf[t]
  <1>0. /\ at[t] = "new" /\ at' = [at EXCEPT ![t] = "queued"]
        /\ UNCHANGED <<known, limit, limiter, size, permit, used, leased, port, bound, lingering, log, lastTest>>
    BY DEF AskFor
  <1>1. r \in Rows /\ t # NoTest /\ slot[t] = NoTest
    BY <1>0, JobConstants DEF JobInv, SlotInv
  <1>2. /\ locks' = [Pruned(locks) EXCEPT ![r] = IF Pruned(locks)[r] = NoTest THEN t ELSE Pruned(locks)[r]]
        /\ slot' = [slot EXCEPT ![t] = locks'[r]]
    BY DEF AskFor, AttemptLock
  <1>3. \A q \in Rows : Pruned(locks)[q] \in {NoTest, locks[q]}
    BY DEF Pruned
  <1>4. \A u \in Tests : slot[u] # NoTest => Pruned(locks)[RowOf[u]] = slot[u]
    BY JobConstants DEF JobInv, SlotInv, Pruned, Referenced
  <1>5. Pruned(locks) \in [Rows -> Tests \cup {NoTest}]
    BY DEF Pruned, JobInv, JobTypes, JobTypeOK
  <1>6. locks'[r] # NoTest /\ locks' \in [Rows -> Tests \cup {NoTest}]
    BY <1>1, <1>2, <1>5
  <1>7. JobTypes'
    <2>1. slot' \in [Tests -> Tests \cup {NoTest}]
      BY <1>1, <1>2, <1>6 DEF JobInv, JobTypes, JobTypeOK
    <2> QED
      BY <1>0, <1>6, <2>1 DEF JobInv, JobTypes, JobTypeOK
  <1>8. SlotInv'
    <2>1. \A u \in Tests : slot'[u] # NoTest <=> at'[u] \notin {"new", "over"}
      BY <1>0, <1>1, <1>2, <1>6 DEF JobInv, SlotInv, JobTypes, JobTypeOK
    <2>2. \A u \in Tests : slot'[u] # NoTest => locks'[RowOf[u]] = slot'[u]
      <3> SUFFICES ASSUME NEW u \in Tests, slot'[u] # NoTest PROVE locks'[RowOf[u]] = slot'[u]
        OBVIOUS
      <3>1. CASE u = t
        BY <1>2, <3>1 DEF JobInv, JobTypes, JobTypeOK
      <3>2. CASE u # t
        <4>1. slot'[u] = slot[u] /\ RowOf[u] \in Rows
          BY <1>2, <3>2, JobConstants DEF JobInv, JobTypes, JobTypeOK
        <4>2. Pruned(locks)[RowOf[u]] = slot[u] /\ slot[u] # NoTest
          BY <1>4, <4>1
        <4>3. locks'[RowOf[u]] = Pruned(locks)[RowOf[u]]
          BY <1>2, <1>5, <4>1, <4>2
        <4> QED
          BY <4>1, <4>2, <4>3
      <3> QED
        BY <3>1, <3>2
    <2>3. \A q \in Rows : locks'[q] # NoTest => RowOf[locks'[q]] = q
      <3> SUFFICES ASSUME NEW q \in Rows, locks'[q] # NoTest PROVE RowOf[locks'[q]] = q
        OBVIOUS
      <3>1. locks'[q] = locks[q] \/ (q = r /\ locks'[q] = t)
        BY <1>2, <1>3, <1>5
      <3> QED
        BY <3>1 DEF JobInv, SlotInv
    <2>4. \A u \in Tests : at'[u] \in Holding => at[u] \in Holding
      BY <1>0 DEF JobInv, JobTypes, JobTypeOK, Holding
    <2> QED
      BY <2>1, <2>2, <2>3, <2>4 DEF JobInv, SlotInv
  <1>9. \A u \in Tests : /\ at'[u] \in Permitted <=> at[u] \in Permitted
                         /\ at'[u] \in Leasing <=> at[u] \in Leasing
                         /\ at'[u] \in Holding <=> at[u] \in Holding
                         /\ at[u] \in Holding \/ at'[u] \in Holding => at'[u] = at[u]
    BY <1>0 DEF JobInv, JobTypes, JobTypeOK, Permitted, Leasing, Holding
  <1>10. PermitInv'
    <2>1. \A u \in Tests : permit'[u] = permit[u] /\ (at[u] # "waiting" \/ at'[u] = "waiting")
      BY <1>0, <1>9 DEF Holding
    <2> QED
      BY <1>0, <1>9, <2>1, PermitsKept
  <1>11. PortInv'
    <2>1. \A u \in Tests : Running(u) => Running(u)'
      BY <1>9 DEF Running, Holding
    <2>2. \A u \in Tests : at'[u] \in {"listening", "answered", "silent"} => at'[u] = at[u]
      BY <1>9 DEF Holding
    <2> QED
      BY <1>0, <1>9, <2>1, <2>2, PortsKept
  <1>12. RoomInv'
    BY <1>0, RoomKept DEF Past, JobInv, JobTypes, JobTypeOK
  <1>13. LogInv'
    <2>1. \A u \in Tests : at[u] \in Holding => LogOf(u)' = LogOf(u)
      BY <1>9 DEF LogOf
    <2>2. LogTellsLast'
      BY <1>0, <1>9 DEF JobInv, LogInv, LogTellsLast
    <2> QED
      BY <1>0, <1>9, <2>1, <2>2 DEF JobInv, LogInv
  <1> QED
    BY <1>7, <1>8, <1>10, <1>11, <1>12, <1>13 DEF JobInv

(* The slot goes to one test of its row, and its log is cleared; a changed *)
(* limit makes the next semaphore, which nobody has a permit of.           *)
LEMMA TakeSlotStep ==
  ASSUME JobInv, NEW t \in Tests, TakeSlot(t)
  PROVE  JobInv'
  <1> DEFINE r == RowOf[t]
  <1>1. /\ at[t] = "queued" /\ r \in Rows /\ slot[t] # NoTest /\ permit[t] = 0
        /\ UNCHANGED <<known, limit, locks, slot, used, leased, port, bound, lingering, lastTest>>
        /\ log' = [log EXCEPT ![r] = NoTest]
    BY JobConstants DEF TakeSlot, JobInv, SlotInv, PermitInv, Permitted
  <1>2. PICK w \in {"failed", "waiting"} : at' = [at EXCEPT ![t] = w]
    BY DEF TakeSlot, LoadProfile
  <1>3. \A u \in Tests : RowOf[u] = r => at[u] \notin Holding
    <2> SUFFICES ASSUME NEW u \in Tests, RowOf[u] = r, at[u] \in Holding PROVE FALSE
      OBVIOUS
    <2>1. slot[u] # NoTest
      BY DEF JobInv, SlotInv, Holding
    <2>2. slot[u] = slot[t]
      BY <1>1, <2>1 DEF JobInv, SlotInv
    <2> QED
      BY <2>2 DEF TakeSlot, SlotFree
  <1>4. at \in [Tests -> Holding \cup {"new", "queued", "over"}]
    BY DEF JobInv, JobTypes, JobTypeOK
  <1>5. \A u \in Tests \ {t} : at'[u] = at[u]
    BY <1>2, <1>4
  <1>6. at'[t] = w /\ w \in Holding /\ w \notin {"new", "over"}
    BY <1>2, <1>4 DEF Holding
  <1>7. SlotInv'
    <2>1. \A u, v \in Tests : at'[u] \in Holding /\ at'[v] \in Holding /\ RowOf[u] = RowOf[v] => u = v
      BY <1>3, <1>5 DEF JobInv, SlotInv
    <2>2. \A u \in Tests : slot'[u] # NoTest <=> at'[u] \notin {"new", "over"}
      BY <1>1, <1>5, <1>6 DEF JobInv, SlotInv
    <2> QED
      BY <1>1, <2>1, <2>2 DEF JobInv, SlotInv
  <1>8. LogInv'
    <2>1. NoTest \in LogOf(t)'
      BY <1>6 DEF LogOf
    <2> QED
      BY <1>1, <1>2, <1>6, <1>7, <2>1, LogWhileHeld
  <1>9. PortInv'
    <2>1. \A u \in Tests : at'[u] \in Leasing <=> at[u] \in Leasing
      BY <1>1, <1>2, <1>5, <1>6 DEF Leasing
    <2>2. \A u \in Tests : Running(u) => Running(u)'
      BY <1>1, <1>5 DEF Running
    <2>3. \A u \in Tests : at'[u] \in {"listening", "answered", "silent"} => at'[u] = at[u]
      BY <1>2, <1>5, <1>6
    <2> QED
      BY <1>1, <2>1, <2>2, <2>3, PortsKept
  <1>10. RoomInv'
    BY <1>1, <1>5, RoomKept DEF Past
  <1>11. CASE UNCHANGED <<size, limiter, permit>> /\ w = "failed"
    <2>1. PermitInv'
      BY <1>1, <1>5, <1>6, <1>11, PermitsKept DEF Permitted
    <2>2. JobTypes'
      BY <1>1, <1>2, <1>6, <1>11 DEF JobInv, JobTypes, JobTypeOK
    <2> QED
      BY <1>7, <1>8, <1>9, <1>10, <2>1, <2>2 DEF JobInv
  <1>12. CASE /\ size' = IF Rebuilt THEN [size EXCEPT ![limiter + 1] = limit] ELSE size
              /\ limiter' = IF Rebuilt THEN limiter + 1 ELSE limiter
              /\ permit' = [permit EXCEPT ![t] = limiter'] /\ w = "waiting"
    <2>1. /\ limiter \in Semaphores /\ limiter' \in Semaphores /\ limiter <= limiter'
          /\ limiter' \in Nat \ {0} /\ limiter \in Nat
      BY <1>12, JobConstants DEF JobInv, PermitInv, Rebuilt, JobTypes, JobTypeOK, Semaphores
    <2>2. limit \in Nat \ {0} /\ size \in [Semaphores -> Nat] /\ permit \in [Tests -> 0..MaxLimitChanges + 1]
      BY JobConstants DEF JobInv, JobTypes, JobTypeOK
    <2>3. size' \in [Semaphores -> Nat] /\ permit' \in [Tests -> 0..MaxLimitChanges + 1]
      BY <1>12, <2>1, <2>2, JobConstants DEF Semaphores
    <2>4. JobTypes'
      BY <1>1, <1>2, <1>6, <2>1, <2>3, JobConstants DEF JobInv, JobTypes, JobTypeOK, Semaphores
    <2>5. PermitInv'
      <3>1. \A u \in Tests : permit'[u] # 0 <=> at'[u] \in Permitted
        BY <1>5, <1>6, <1>12, <2>1, <2>2 DEF JobInv, PermitInv, Permitted
      <3>2. \A u \in Tests : permit[u] \in Nat /\ permit[u] <= limiter
        BY <2>2, JobConstants DEF JobInv, PermitInv
      <3>3. \A u \in Tests : permit'[u] <= limiter'
        BY <1>12, <2>1, <2>2, <3>2
      <3>4. size'[limiter'] = limit
        BY <1>12, <2>1, <2>2 DEF Rebuilt
      <3>5. \A s \in 1..limiter' : size'[s] \in Limits
        <4> SUFFICES ASSUME NEW s \in 1..limiter', s # limiter' PROVE size'[s] \in Limits
          BY <3>4 DEF JobInv, JobTypes
        <4>1. s \in 1..limiter /\ s # limiter + 1
          BY <1>12, <2>1
        <4>2. size'[s] = size[s]
          BY <1>12, <2>1, <2>2, <4>1 DEF Semaphores
        <4> QED
          BY <4>1, <4>2 DEF JobInv, PermitInv
      <3>6. ASSUME NEW s \in Semaphores
            PROVE  Cardinality(HoldersOf(s))' <= size'[s]
        <4>1. HoldersOf(s)' = HoldersOf(s)
          BY <1>1, <1>5, <1>6, <1>12, <2>2 DEF HoldersOf, Semaphores
        <4>2. CASE s = limiter + 1
          <5>1. HoldersOf(s) = {}
            BY <2>1, <3>2, <4>2 DEF HoldersOf
          <5>2. Cardinality(HoldersOf(s)') = 0 /\ size'[s] \in Nat
            BY <2>3, <4>1, <5>1, FS_EmptySet
          <5> QED
            BY <5>2
        <4>3. CASE s # limiter + 1
          <5>1. size'[s] = size[s]
            BY <1>12, <2>2, <4>3
          <5> QED
            BY <4>1, <5>1 DEF JobInv, PermitInv
        <4> QED
          BY <4>2, <4>3
      <3> QED
        BY <1>1, <3>1, <3>3, <3>4, <3>5, <3>6 DEF PermitInv
    <2> QED
      BY <1>7, <1>8, <1>9, <1>10, <2>4, <2>5 DEF JobInv
  <1> QED
    <2>1. w = at'[t]
      BY <1>6
    <2> QED
      BY <1>4, <1>11, <1>12, <2>1 DEF TakeSlot, LoadProfile

LEMMA AcquireStep ==
  ASSUME JobInv, NEW t \in Tests, Acquire(t)
  PROVE  JobInv'
  <1>1. /\ at[t] = "waiting" /\ at' = [at EXCEPT ![t] = "scanned"]
        /\ used' = [used EXCEPT ![t] = UsedPorts]
        /\ UNCHANGED <<known, limit, locks, slot, limiter, size, permit, leased, port, bound, lingering, log, lastTest>>
        /\ Cardinality(HoldersOf(permit[t])) < size[permit[t]]
    BY DEF Acquire, PermitFree
  <1>2. at \in [Tests -> Holding \cup {"new", "queued", "over"}] /\ log \in [Rows -> Tests \cup {NoTest}]
    BY DEF JobInv, JobTypes, JobTypeOK
  <1>3. /\ at'[t] = "scanned" /\ "scanned" \in Holding /\ at[t] \in Holding
        /\ \A u \in Tests \ {t} : at'[u] = at[u]
    BY <1>1, <1>2 DEF Holding
  <1>4. UsedPorts = Listened /\ UsedPorts \subseteq Ports
    BY DEF UsedPorts, Listened, JobInv, JobTypes
  <1>5. JobTypes'
    <2>1. used' \in [Tests -> SUBSET Ports]
      BY <1>1, <1>4 DEF JobInv, JobTypes
    <2> QED
      BY <1>1, <1>3, <2>1 DEF JobInv, JobTypes, JobTypeOK
  <1>6. SlotInv'
    BY <1>1, <1>3, SlotsKept
  <1>7. PermitInv'
    <2>1. permit[t] \in Semaphores /\ size[permit[t]] \in Nat
      BY <1>1, JobConstants DEF JobInv, JobTypes, JobTypeOK, PermitInv, Permitted, Semaphores
    <2>2. ASSUME NEW s \in Semaphores
          PROVE  Cardinality(HoldersOf(s))' <= size'[s]
      <3>1. CASE s = permit[t]
        <4>1. HoldersOf(s)' = HoldersOf(s) \cup {t} /\ t \notin HoldersOf(s)
          BY <1>1, <1>3, <3>1 DEF HoldersOf
        <4>2. Cardinality(HoldersOf(s)') = Cardinality(HoldersOf(s)) + 1 /\ Cardinality(HoldersOf(s)) \in Nat
          BY <4>1, CountsAreFinite, FS_AddElement
        <4> QED
          BY <1>1, <2>1, <3>1, <4>2
      <3>2. CASE s # permit[t]
        <4>1. HoldersOf(s)' = HoldersOf(s)
          BY <1>1, <1>3, <3>2 DEF HoldersOf
        <4> QED
          BY <1>1, <4>1 DEF JobInv, PermitInv
      <3> QED
        BY <3>1, <3>2
    <2>3. \A u \in Tests : permit'[u] # 0 <=> at'[u] \in Permitted
      BY <1>1, <1>3 DEF JobInv, PermitInv, Permitted
    <2> QED
      BY <1>1, <2>2, <2>3 DEF JobInv, PermitInv
  <1>8. PortInv'
    <2>1. \A u \in Tests : at'[u] \in Leasing <=> at[u] \in Leasing
      BY <1>1, <1>3 DEF Leasing
    <2>2. \A u \in Tests : Running(u) => Running(u)'
      BY <1>1, <1>3 DEF Running
    <2>3. \A u \in Tests : at'[u] \in {"listening", "answered", "silent"} => at'[u] = at[u]
      BY <1>3
    <2> QED
      BY <1>1, <2>1, <2>2, <2>3, PortsKept
  <1>9. RoomInv'
    <2>1. Past' = Past
      BY <1>1, <1>3 DEF Past
    <2>2. \A u \in Tests : used'[u] \subseteq Listened
      BY <1>1, <1>4 DEF JobInv, RoomInv, JobTypes
    <2> QED
      BY <1>1, <2>1, <2>2 DEF JobInv, RoomInv, Listened
  <1>10. LogInv'
    <2>1. /\ log' = [log EXCEPT ![RowOf[t]] = log[RowOf[t]]] /\ log[RowOf[t]] \in Tests \cup {NoTest}
      BY <1>1, <1>2, JobConstants
    <2>2. RowOf[t] \in known => log[RowOf[t]] \in LogOf(t)'
      BY <1>1, <1>3 DEF JobInv, LogInv, LogOf
    <2> QED
      BY <1>1, <1>3, <1>6, <2>1, <2>2, LogWhileHeld
  <1> QED
    BY <1>5, <1>6, <1>7, <1>8, <1>9, <1>10 DEF JobInv

(* A step within the attempt that neither takes nor gives back a port.     *)
LEMMA AttemptStep ==
  ASSUME JobInv, NEW t \in Tests, SpawnTestCore(t) \/ WaitPortUp(t) \/ \E answered \in BOOLEAN : Measure(t, answered)
  PROVE  JobInv'
  <1>1. PICK w \in {"spawned", "listening", "dead", "answered", "silent"}, v \in Tests \cup {NoTest} :
           /\ at' = [at EXCEPT ![t] = w] /\ at[t] \in {"leased", "spawned", "listening"}
           /\ log' = [log EXCEPT ![RowOf[t]] = v]
           /\ RowOf[t] \in known => v \in (IF w \in {"silent", "dead"} THEN {t} ELSE {NoTest})
           /\ \/ w \in {"spawned", "dead"}
              \/ w = "listening" /\ bound[port[t]] # NoTest
              \/ w \in {"answered", "silent"} /\ at[t] = "listening"
    <2>1. log \in [Rows -> Tests \cup {NoTest}] /\ RowOf[t] \in Rows
      BY JobConstants DEF JobInv, JobTypes, JobTypeOK
    <2>2. CASE \/ SpawnTestCore(t)
               \/ WaitPortUp(t) /\ UNCHANGED log
      <3>1. at[t] \in {"leased", "spawned"}
        BY <2>2 DEF SpawnTestCore, WaitPortUp
      <3>2. log' = [log EXCEPT ![RowOf[t]] = log[RowOf[t]]] /\ log[RowOf[t]] \in Tests \cup {NoTest}
        BY <2>1, <2>2 DEF SpawnTestCore
      <3>3. RowOf[t] \in known => log[RowOf[t]] = NoTest
        BY <3>1 DEF JobInv, LogInv, LogOf, Holding
      <3>4. CASE at' = [at EXCEPT ![t] = "spawned"]
        BY <3>1, <3>2, <3>3, <3>4
      <3>5. CASE at' = [at EXCEPT ![t] = "listening"] /\ bound[port[t]] # NoTest
        BY <3>1, <3>2, <3>3, <3>5
      <3>6. CASE WaitPortUp(t) /\ at' = [at EXCEPT ![t] = "dead"] /\ log' = [log EXCEPT ![RowOf[t]] = t]
        BY <3>1, <3>6
      <3> QED
        BY <2>2, <3>4, <3>5, <3>6 DEF SpawnTestCore, WaitPortUp
    <2>3. CASE WaitPortUp(t) /\ at' = [at EXCEPT ![t] = "dead"] /\ log' = [log EXCEPT ![RowOf[t]] = t]
      BY <2>3 DEF WaitPortUp
    <2>4. ASSUME NEW answered \in BOOLEAN, Measure(t, answered)
          PROVE  /\ at[t] = "listening"
                 /\ at' = [at EXCEPT ![t] = IF answered THEN "answered" ELSE "silent"]
                 /\ log' = [log EXCEPT ![RowOf[t]] = IF answered THEN NoTest ELSE t]
      BY <2>4 DEF Measure
    <2>5. CASE \E answered \in BOOLEAN : Measure(t, answered)
      <3>1. PICK answered \in BOOLEAN : Measure(t, answered)
        BY <2>5
      <3>2. CASE answered
        BY <2>4, <3>1, <3>2
      <3>3. CASE ~answered
        BY <2>4, <3>1, <3>3
      <3> QED
        BY <3>2, <3>3
    <2> QED
      BY <2>2, <2>3, <2>5 DEF WaitPortUp
  <1>2. UNCHANGED <<known, limit, locks, slot, limiter, size, permit, used, leased, port, bound, lingering, lastTest>>
    BY DEF SpawnTestCore, WaitPortUp, Measure
  <1>3. at \in [Tests -> Holding \cup {"new", "queued", "over"}] /\ log \in [Rows -> Tests \cup {NoTest}]
    BY DEF JobInv, JobTypes, JobTypeOK
  <1>4. /\ at'[t] = w /\ w \in Holding /\ at[t] \in Holding /\ w # "failed"
        /\ \A u \in Tests \ {t} : at'[u] = at[u]
    BY <1>1, <1>3 DEF Holding
  <1>5. JobTypes'
    BY <1>1, <1>2, <1>3, <1>4, JobConstants DEF JobInv, JobTypes, JobTypeOK
  <1>6. SlotInv'
    BY <1>1, <1>2, <1>4, SlotsKept
  <1>7. PermitInv'
    <2>1. \A u \in Tests : /\ permit'[u] = permit[u]
                           /\ at'[u] \in Permitted <=> at[u] \in Permitted
                           /\ at[u] # "waiting" \/ at'[u] = "waiting"
      BY <1>1, <1>2, <1>4 DEF Permitted
    <2> QED
      BY <1>2, <2>1, PermitsKept
  <1>8. PortInv'
    <2>1. \A u \in Tests : at'[u] \in Leasing <=> at[u] \in Leasing
      BY <1>1, <1>4 DEF Leasing
    <2>2. \A u \in Tests : Running(u) => Running(u)'
      BY <1>1, <1>4 DEF Running
    <2>3. bound[port[t]] # NoTest => bound[port[t]] = t
      <3>1. port[t] \in Ports
        BY <1>1 DEF JobInv, JobTypes, JobTypeOK, PortInv, Leasing
      <3> QED
        BY <3>1, BoundIsLeased DEF JobInv, PortInv, NoPort, Ports
    <2>4. \A u \in Tests : at'[u] \in {"listening", "answered", "silent"} =>
                            at[u] \in {"listening", "answered", "silent"} \/ bound[port[u]] = u
      BY <1>1, <1>4, <2>3
    <2> QED
      BY <1>2, <2>1, <2>2, <2>4, PortsKept
  <1>9. RoomInv'
    <2>1. Past \subseteq Past' /\ Past' \subseteq Tests
      BY <1>1, <1>4 DEF Past
    <2> QED
      BY <1>2, <2>1, RoomKept
  <1>10. LogInv'
    <2>1. RowOf[t] \in known => v \in LogOf(t)'
      BY <1>1, <1>4 DEF LogOf
    <2> QED
      BY <1>1, <1>2, <1>4, <1>6, <2>1, LogWhileHeld
  <1> QED
    BY <1>5, <1>6, <1>7, <1>8, <1>9, <1>10 DEF JobInv

(* The lease is of a port nobody has, and the test counts for it.          *)
LEMMA ReserveStep ==
  ASSUME JobInv, NEW t \in Tests, Reserve(t)
  PROVE  JobInv'
  <1> DEFINE p == ReservedPort(t)
  <1>1. /\ at[t] = "scanned" /\ at' = [at EXCEPT ![t] = "leased"]
        /\ port' = [port EXCEPT ![t] = p] /\ leased' = leased \cup {p}
        /\ used' = [used EXCEPT ![t] = {}]
        /\ UNCHANGED <<known, limit, locks, slot, limiter, size, permit, bound, lingering, log, lastTest>>
    BY DEF Reserve
  <1>2. /\ at \in [Tests -> Holding \cup {"new", "queued", "over"}] /\ log \in [Rows -> Tests \cup {NoTest}]
        /\ port \in [Tests -> Ports \cup {NoPort}] /\ bound \in [Ports -> Tests \cup {NoTest}]
    BY DEF JobInv, JobTypes, JobTypeOK
  <1>3. /\ at'[t] = "leased" /\ "leased" \in Holding /\ at[t] \in Holding
        /\ \A u \in Tests \ {t} : at'[u] = at[u]
    BY <1>1, <1>2 DEF Holding
  <1>4. p \in Ports /\ p \notin leased /\ p # NoPort
    BY <1>1, PortIsFree DEF FreePorts, Ports, NoPort
  <1>5. port'[t] = p /\ (\A u \in Tests \ {t} : port'[u] = port[u]) /\ port[t] = NoPort
    BY <1>1, <1>2 DEF JobInv, PortInv, Leasing
  <1>6. JobTypes'
    <2>1. used' \in [Tests -> SUBSET Ports] /\ port' \in [Tests -> Ports \cup {NoPort}] /\ leased' \subseteq Ports
      BY <1>1, <1>2, <1>4 DEF JobInv, JobTypes, JobTypeOK
    <2> QED
      BY <1>1, <1>3, <2>1 DEF JobInv, JobTypes, JobTypeOK
  <1>7. SlotInv'
    BY <1>1, <1>3, SlotsKept
  <1>8. PermitInv'
    <2>1. \A u \in Tests : /\ permit'[u] = permit[u]
                           /\ at'[u] \in Permitted <=> at[u] \in Permitted
                           /\ at[u] # "waiting" \/ at'[u] = "waiting"
      BY <1>1, <1>3 DEF Permitted
    <2> QED
      BY <1>1, <2>1, PermitsKept
  <1>9. \A u \in Tests : port[u] # p
    BY <1>4 DEF JobInv, PortInv
  <1>10. PortInv'
    <2>1. \A u \in Tests : port'[u] # NoPort <=> at'[u] \in Leasing
      BY <1>3, <1>4, <1>5 DEF JobInv, PortInv, Leasing
    <2>2. \A u, v \in Tests : port'[u] # NoPort /\ port'[u] = port'[v] => u = v
      BY <1>5, <1>9 DEF JobInv, PortInv
    <2>3. leased' = {port'[u] : u \in Tests} \ {NoPort}
      BY <1>1, <1>4, <1>5 DEF JobInv, PortInv
    <2>4. \A q \in Ports : bound[q] # NoTest => bound[q] # t /\ bound[q] \in Tests
      BY <1>1, <1>2 DEF JobInv, PortInv, Running
    <2>5. \A q \in Ports : bound'[q] # NoTest => Running(bound[q])' /\ port'[bound'[q]] = q
      BY <1>1, <1>3, <1>5, <2>4 DEF JobInv, PortInv, Running
    <2>6. ProbesItsCore'
      BY <1>1, <1>3, <1>5 DEF JobInv, PortInv, ProbesItsCore
    <2> QED
      BY <2>1, <2>2, <2>3, <2>5, <2>6 DEF PortInv
  <1>11. RoomInv'
    <2>1. Past' = Past \cup {t} /\ t \notin Past
      BY <1>1, <1>3 DEF Past
    <2>2. Cardinality(Past') = Cardinality(Past) + 1
      BY <2>1, CountsAreFinite, FS_AddElement
    <2>3. IsFiniteSet(lingering \cup leased) /\ Cardinality(lingering \cup leased) \in Nat
      <3>1. lingering \cup leased \in SUBSET Ports
        BY DEF JobInv, JobTypes, JobTypeOK
      <3>2. IsFiniteSet(lingering \cup leased)
        BY <3>1, CountsAreFinite, FS_Subset
      <3> QED
        BY <3>2, FS_CardinalityType
    <2>4. lingering' \cup leased' = (lingering \cup leased) \cup {p}
      BY <1>1
    <2>5. /\ Cardinality(lingering' \cup leased') <= Cardinality(lingering \cup leased) + 1
          /\ Cardinality(lingering' \cup leased') \in Nat
      BY <2>3, <2>4, FS_AddElement
    <2>6. Cardinality(lingering' \cup leased') <= Cardinality(Past')
      BY <2>2, <2>3, <2>5, CountsAreFinite DEF JobInv, RoomInv
    <2>7. \A u \in Tests : used'[u] \subseteq Listened'
      BY <1>1 DEF JobInv, RoomInv, JobTypes, Listened
    <2> QED
      BY <2>6, <2>7 DEF RoomInv
  <1>12. LogInv'
    <2>1. log' = [log EXCEPT ![RowOf[t]] = log[RowOf[t]]] /\ log[RowOf[t]] \in Tests \cup {NoTest}
      BY <1>1, <1>2, JobConstants
    <2>2. RowOf[t] \in known => log[RowOf[t]] \in LogOf(t)'
      BY <1>1, <1>3 DEF JobInv, LogInv, LogOf
    <2> QED
      BY <1>1, <1>3, <1>7, <2>1, <2>2, LogWhileHeld
  <1> QED
    BY <1>6, <1>7, <1>8, <1>10, <1>11, <1>12 DEF JobInv

LEMMA BindsStep ==
  ASSUME JobInv, NEW t \in Tests, Binds(t)
  PROVE  JobInv'
  <1> DEFINE p == port[t]
  <1>1. /\ at[t] \in {"spawned", "dead"} /\ bound[p] = NoTest
        /\ bound' = [bound EXCEPT ![p] = t] /\ lingering' = lingering \ {p}
        /\ UNCHANGED <<at, known, limit, locks, slot, limiter, size, permit, used, leased, port, log, lastTest>>
    BY DEF Binds
  <1>2. p \in Ports /\ p \in leased /\ t # NoTest /\ bound \in [Ports -> Tests \cup {NoTest}]
    BY <1>1, JobConstants DEF JobInv, JobTypes, JobTypeOK, PortInv, Leasing
  <1>3. bound'[p] = t /\ \A q \in Ports \ {p} : bound'[q] = bound[q]
    BY <1>1, <1>2
  <1>4. JobTypes'
    BY <1>1, <1>2 DEF JobInv, JobTypes, JobTypeOK
  <1>5. SlotInv' /\ LogInv'
    BY <1>1 DEF JobInv, SlotInv, LogInv, LogTellsLast, LogOf
  <1>6. PermitInv'
    BY <1>1, PermitsKept
  <1>7. PortInv'
    <2>1. \A q \in Ports : bound'[q] # NoTest => Running(bound[q])' /\ port'[bound'[q]] = q
      <3> SUFFICES ASSUME NEW q \in Ports, bound'[q] # NoTest
                   PROVE  Running(bound[q])' /\ port'[bound'[q]] = q
        OBVIOUS
      <3>1. CASE q = p
        BY <1>1, <1>3, <3>1 DEF Running
      <3>2. CASE q # p
        BY <1>1, <1>3, <3>2 DEF Running, JobInv, PortInv
      <3> QED
        BY <3>1, <3>2
    <2>2. ProbesItsCore'
      <3> SUFFICES ASSUME NEW u \in Tests, at[u] \in {"listening", "answered", "silent"}
                   PROVE  bound'[port[u]] = u
        BY <1>1 DEF ProbesItsCore
      <3>1. bound[port[u]] = u /\ port[u] \in Ports /\ u # NoTest
        BY JobConstants DEF JobInv, PortInv, ProbesItsCore, JobTypes, JobTypeOK, Leasing
      <3> QED
        BY <1>1, <1>3, <3>1
    <2> QED
      BY <1>1, <2>1, <2>2 DEF JobInv, PortInv
  <1>8. RoomInv'
    <2>1. lingering' \cup leased' = lingering \cup leased
      BY <1>1, <1>2
    <2>2. Past' = Past
      BY <1>1 DEF Past
    <2>3. Listened \subseteq Listened'
      BY <1>1, <1>2, <1>3 DEF Listened
    <2> QED
      BY <1>1, <2>1, <2>2, <2>3 DEF JobInv, RoomInv
  <1> QED
    BY <1>4, <1>5, <1>6, <1>7, <1>8 DEF JobInv

-----------------------------------------------------------------------------
(* The end of an attempt                                                   *)

LEMMA SlotLetGo ==
  ASSUME JobInv, NEW t \in Tests, at[t] \in Holding, at' = [at EXCEPT ![t] = "over"],
         slot' = [slot EXCEPT ![t] = NoTest], UNCHANGED locks
  PROVE  SlotInv'
  <1>1. /\ at'[t] = "over" /\ slot'[t] = NoTest /\ "over" \notin Holding
        /\ \A u \in Tests \ {t} : at'[u] = at[u] /\ slot'[u] = slot[u]
    BY DEF JobInv, JobTypes, JobTypeOK, Holding
  <1> QED
    BY <1>1 DEF JobInv, SlotInv

LEMMA LogAfter ==
  ASSUME JobInv, NEW t \in Tests, at[t] \in Holding, at' = [at EXCEPT ![t] = "over"], UNCHANGED known,
         NEW ok \in BOOLEAN, lastTest' = [lastTest EXCEPT ![RowOf[t]] = <<t, ok>>],
         NEW v, log' = [log EXCEPT ![RowOf[t]] = v],
         RowOf[t] \in known => v = IF ok THEN NoTest ELSE t
  PROVE  LogInv'
  <1> DEFINE q == RowOf[t]
  <1>1. /\ q \in Rows /\ log'[q] = v /\ lastTest'[q] = <<t, ok>>
        /\ \A r \in Rows \ {q} : log'[r] = log[r] /\ lastTest'[r] = lastTest[r]
    BY JobConstants DEF JobInv, JobTypes, JobTypeOK
  <1>2. at'[t] \notin Holding /\ \A u \in Tests \ {t} : at'[u] = at[u]
    BY DEF JobInv, JobTypes, JobTypeOK, Holding
  <1>3. \A u \in Tests : at'[u] \in Holding => RowOf[u] # q /\ RowOf[u] \in Rows
    BY <1>2, JobConstants DEF JobInv, SlotInv
  <1>4. LogTellsLast'
    <2> SUFFICES ASSUME NEW r \in known, \A u \in Tests : RowOf[u] = r => at'[u] \notin Holding
                 PROVE  log'[r] = IF lastTest'[r][2] THEN NoTest ELSE lastTest'[r][1]
      BY DEF LogTellsLast
    <2>1. CASE r = q
      BY <1>1, <2>1
    <2>2. CASE r # q
      <3>1. r \in Rows /\ log'[r] = log[r] /\ lastTest'[r] = lastTest[r]
        BY <1>1, <2>2 DEF JobInv, JobTypes
      <3>2. \A u \in Tests : RowOf[u] = r => at[u] \notin Holding
        BY <1>2, <2>2
      <3> QED
        BY <3>1, <3>2 DEF JobInv, LogInv, LogTellsLast
    <2> QED
      BY <2>1, <2>2
  <1>5. ASSUME NEW u \in Tests, at'[u] \in Holding, RowOf[u] \in known
        PROVE  log'[RowOf[u]] \in LogOf(u)'
    <2>1. at'[u] = at[u] /\ log'[RowOf[u]] = log[RowOf[u]]
      BY <1>1, <1>2, <1>3, <1>5
    <2> QED
      BY <1>5, <2>1 DEF JobInv, LogInv, LogOf
  <1> QED
    BY <1>4, <1>5 DEF LogInv

(* The port and the permit of an attempt that ends are given back, and its *)
(* core no longer listens.                                                 *)
LEMMA EndKeepsPorts ==
  ASSUME JobInv, NEW t \in Tests, NEW w \in {"failed", "over"}, at[t] \in Leasing,
         at' = [at EXCEPT ![t] = w], GivenBack(t), UNCHANGED <<limit, limiter, size, used>>,
         bound' = [p \in Ports |-> IF bound[p] = t THEN NoTest ELSE bound[p]],
         lingering' = lingering \cup {p \in Ports : bound[p] = t}
  PROVE  PermitInv' /\ PortInv' /\ RoomInv'
  <1>1. /\ at'[t] = w /\ (\A u \in Tests \ {t} : at'[u] = at[u]) /\ w \notin Leasing /\ w \notin Permitted
        /\ port'[t] = NoPort /\ (\A u \in Tests \ {t} : port'[u] = port[u])
        /\ permit'[t] = 0 /\ (\A u \in Tests \ {t} : permit'[u] = permit[u])
        /\ leased' = leased \ {port[t]}
    BY DEF GivenBack, JobInv, JobTypes, JobTypeOK, Leasing, Permitted
  <1>2. t # NoTest /\ port[t] # NoPort
    BY JobConstants DEF JobInv, PortInv
  <1>3. PermitInv'
    <2>1. \A u \in Tests : \/ /\ permit'[u] = permit[u]
                              /\ at'[u] \in Permitted <=> at[u] \in Permitted
                              /\ at[u] # "waiting" \/ at'[u] = "waiting"
                           \/ permit'[u] = 0 /\ at'[u] \notin Permitted
      BY <1>1
    <2> QED
      BY <2>1, PermitsKept
  <1>4. PortInv'
    <2>1. \A u \in Tests : port'[u] # NoPort <=> at'[u] \in Leasing
      BY <1>1 DEF JobInv, PortInv
    <2>2. \A u, v \in Tests : port'[u] # NoPort /\ port'[u] = port'[v] => u = v
      BY <1>1 DEF JobInv, PortInv
    <2>3. leased' = {port'[u] : u \in Tests} \ {NoPort}
      BY <1>1, <1>2 DEF JobInv, PortInv
    <2>4. \A p \in Ports : bound'[p] # NoTest => Running(bound[p])' /\ port'[bound'[p]] = p
      <3> SUFFICES ASSUME NEW p \in Ports, bound'[p] # NoTest
                   PROVE  Running(bound[p])' /\ port'[bound'[p]] = p
        OBVIOUS
      <3>1. bound'[p] = bound[p] /\ bound[p] # t /\ bound[p] # NoTest
        OBVIOUS
      <3>2. bound[p] \in Tests /\ Running(bound[p]) /\ port[bound[p]] = p
        BY <3>1, BoundIsLeased DEF JobInv, PortInv
      <3> QED
        BY <1>1, <3>1, <3>2 DEF Running
    <2>5. ProbesItsCore'
      <3> SUFFICES ASSUME NEW u \in Tests, at'[u] \in {"listening", "answered", "silent"}
                   PROVE  bound'[port'[u]] = u
        BY DEF ProbesItsCore
      <3>1. u # t /\ at[u] = at'[u] /\ port'[u] = port[u]
        BY <1>1
      <3>2. port[u] \in Ports /\ bound[port[u]] = u
        BY <3>1 DEF JobInv, PortInv, ProbesItsCore, JobTypes, JobTypeOK, Leasing
      <3> QED
        BY <3>1, <3>2
    <2> QED
      BY <2>1, <2>2, <2>3, <2>4, <2>5 DEF PortInv
  <1>5. RoomInv'
    <2>1. lingering' \cup leased' \subseteq lingering \cup leased
      <3>1. {q \in Ports : bound[q] = t} \subseteq leased
        BY <1>2, BoundIsLeased
      <3> QED
        BY <1>1, <3>1
    <2>2. Past \subseteq Past' /\ Past' \subseteq Tests
      <3>1. t \in Past' /\ \A u \in Past \ {t} : u \in Past'
        BY <1>1 DEF Past
      <3> QED
        BY <3>1 DEF Past
    <2>3. Listened \subseteq Listened'
      BY DEF Listened
    <2>4. IsFiniteSet(lingering \cup leased) /\ IsFiniteSet(Past')
      <3>1. lingering \cup leased \in SUBSET Ports
        BY DEF JobInv, JobTypes, JobTypeOK
      <3> QED
        BY <2>2, <3>1, CountsAreFinite, JobConstants, FS_Subset
    <2>5. /\ Cardinality(lingering' \cup leased') <= Cardinality(lingering \cup leased)
          /\ IsFiniteSet(lingering' \cup leased')
      BY <2>1, <2>4, NotLarger
    <2>6. Cardinality(Past) <= Cardinality(Past')
      BY <2>2, <2>4, NotLarger
    <2>7. Cardinality(lingering' \cup leased') <= Cardinality(Past')
      <3>1. /\ Cardinality(lingering' \cup leased') \in Nat /\ Cardinality(lingering \cup leased) \in Nat
            /\ Cardinality(Past) \in Nat /\ Cardinality(Past') \in Nat
        BY <2>4, <2>5, CountsAreFinite, FS_CardinalityType
      <3> QED
        BY <2>5, <2>6, <3>1 DEF JobInv, RoomInv
    <2> QED
      BY <2>3, <2>7 DEF JobInv, RoomInv
  <1> QED
    BY <1>3, <1>4, <1>5

LEMMA CannotRunStep ==
  ASSUME JobInv, NEW t \in Tests, CannotRun(t)
  PROVE  JobInv'
  <1>1. /\ at[t] = "leased" /\ at' = [at EXCEPT ![t] = "failed"] /\ GivenBack(t)
        /\ UNCHANGED <<known, limit, locks, slot, limiter, size, used, bound, lingering, log, lastTest>>
    BY DEF CannotRun
  <1>2. /\ at[t] \in Leasing /\ at[t] \in Holding /\ "failed" \in Holding
        /\ at'[t] = "failed" /\ \A u \in Tests \ {t} : at'[u] = at[u]
    BY <1>1 DEF JobInv, JobTypes, JobTypeOK, Leasing, Holding
  <1>3. \A p \in Ports : bound[p] # t
    BY <1>1, JobConstants DEF JobInv, PortInv, Running
  <1>4. /\ bound' = [p \in Ports |-> IF bound[p] = t THEN NoTest ELSE bound[p]]
        /\ lingering' = lingering \cup {p \in Ports : bound[p] = t}
    BY <1>1, <1>3 DEF JobInv, JobTypes, JobTypeOK
  <1>5. PermitInv' /\ PortInv' /\ RoomInv'
    BY <1>1, <1>2, <1>4, EndKeepsPorts
  <1>6. SlotInv'
    BY <1>1, <1>2, SlotsKept
  <1>7. LogInv'
    <2>1. /\ log' = [log EXCEPT ![RowOf[t]] = log[RowOf[t]]] /\ log[RowOf[t]] \in Tests \cup {NoTest}
      BY <1>1, JobConstants DEF JobInv, JobTypes, JobTypeOK
    <2>2. RowOf[t] \in known => log[RowOf[t]] \in LogOf(t)'
      BY <1>1, <1>2 DEF JobInv, LogInv, LogOf
    <2> QED
      BY <1>1, <1>2, <1>6, <2>1, <2>2, LogWhileHeld
  <1>8. JobTypes'
    BY <1>1, <1>2, JobConstants DEF JobInv, JobTypes, JobTypeOK, GivenBack
  <1> QED
    BY <1>5, <1>6, <1>7, <1>8 DEF JobInv

LEMMA KillCoreStep ==
  ASSUME JobInv, NEW t \in Tests, KillCore(t)
  PROVE  JobInv'
  <1> DEFINE ok == at[t] = "answered"
  <1>1. /\ at[t] \in {"answered", "silent", "dead"} /\ GivenBack(t)
        /\ at' = [at EXCEPT ![t] = IF at[t] = "dead" THEN "failed" ELSE "over"]
        /\ slot' = [slot EXCEPT ![t] = IF at[t] = "dead" THEN slot[t] ELSE NoTest]
        /\ bound' = [p \in Ports |-> IF bound[p] = t THEN NoTest ELSE bound[p]]
        /\ lingering' = lingering \cup {p \in Ports : bound[p] = t}
        /\ lastTest' = [lastTest EXCEPT ![RowOf[t]] = <<t, ok>>]
        /\ UNCHANGED <<known, limit, locks, limiter, size, used, log>>
    BY DEF KillCore
  <1>2. at[t] \in Leasing /\ at[t] \in Holding /\ RowOf[t] \in Rows
    BY <1>1, JobConstants DEF Leasing, Holding
  <1>3. PermitInv' /\ PortInv' /\ RoomInv'
    BY <1>1, <1>2, EndKeepsPorts
  <1>4. /\ log' = [log EXCEPT ![RowOf[t]] = log[RowOf[t]]] /\ log[RowOf[t]] \in Tests \cup {NoTest}
        /\ RowOf[t] \in known => log[RowOf[t]] \in LogOf(t)
    BY <1>1, <1>2 DEF JobInv, JobTypes, JobTypeOK, LogInv
  <1>5. JobTypes'
    <2>1. lastTest' \in [Rows -> (Tests \cup {NoTest}) \X BOOLEAN]
      BY <1>1, <1>2 DEF JobInv, JobTypes
    <2>2. /\ at' \in [Tests -> Holding \cup {"new", "queued", "over"}] /\ slot' \in [Tests -> Tests \cup {NoTest}]
          /\ bound' \in [Ports -> Tests \cup {NoTest}] /\ lingering' \subseteq Ports
      BY <1>1 DEF JobInv, JobTypes, JobTypeOK, Holding
    <2>3. /\ permit' \in [Tests -> 0..MaxLimitChanges + 1] /\ leased' \subseteq Ports
          /\ port' \in [Tests -> Ports \cup {NoPort}]
      BY <1>1, JobConstants DEF JobInv, JobTypes, JobTypeOK, GivenBack
    <2> QED
      BY <1>1, <2>1, <2>2, <2>3 DEF JobInv, JobTypes, JobTypeOK
  <1>6. CASE at[t] = "dead"
    <2>1. at' = [at EXCEPT ![t] = "failed"] /\ slot' = slot /\ "failed" \in Holding /\ at'[t] = "failed"
      BY <1>1, <1>6 DEF Holding, JobInv, JobTypes, JobTypeOK
    <2>2. SlotInv'
      BY <1>1, <1>2, <2>1, SlotsKept
    <2>3. RowOf[t] \in known => log[RowOf[t]] \in LogOf(t)'
      BY <1>4, <1>6, <2>1 DEF LogOf
    <2>4. \A q \in Rows \ {RowOf[t]} : lastTest'[q] = lastTest[q]
      BY <1>1 DEF JobInv, JobTypes
    <2>5. LogInv'
      BY <1>1, <1>2, <1>4, <2>1, <2>2, <2>3, <2>4, LogWhileHeld
    <2> QED
      BY <1>3, <1>5, <2>2, <2>5 DEF JobInv
  <1>7. CASE at[t] # "dead"
    <2>1. at' = [at EXCEPT ![t] = "over"] /\ slot' = [slot EXCEPT ![t] = NoTest]
      BY <1>1, <1>7
    <2>2. SlotInv'
      BY <1>1, <1>2, <2>1, SlotLetGo
    <2>3. ASSUME at[t] = "answered" PROVE LogInv'
      <3>1. lastTest' = [lastTest EXCEPT ![RowOf[t]] = <<t, TRUE>>]
        BY <1>1, <2>3
      <3>2. RowOf[t] \in known => log[RowOf[t]] = NoTest
        BY <1>4, <2>3 DEF LogOf
      <3>3. RowOf[t] \in known => log[RowOf[t]] = IF TRUE THEN NoTest ELSE t
        BY <3>2
      <3>4. UNCHANGED known /\ TRUE \in BOOLEAN
        BY <1>1
      <3> QED
        BY <1>2, <1>4, <2>1, <3>1, <3>3, <3>4, LogAfter
    <2>4. ASSUME at[t] = "silent" PROVE LogInv'
      <3>1. lastTest' = [lastTest EXCEPT ![RowOf[t]] = <<t, FALSE>>]
        BY <1>1, <2>4
      <3>2. RowOf[t] \in known => log[RowOf[t]] = t
        BY <1>4, <2>4 DEF LogOf
      <3>3. RowOf[t] \in known => log[RowOf[t]] = IF FALSE THEN NoTest ELSE t
        BY <3>2
      <3>4. UNCHANGED known /\ FALSE \in BOOLEAN
        BY <1>1
      <3> QED
        BY <1>2, <1>4, <2>1, <3>1, <3>3, <3>4, LogAfter
    <2>5. LogInv'
      BY <1>1, <1>7, <2>3, <2>4
    <2> QED
      BY <1>3, <1>5, <2>2, <2>5 DEF JobInv
  <1> QED
    BY <1>6, <1>7

LEMMA NoteFailureStep ==
  ASSUME JobInv, NEW t \in Tests, NoteFailure(t)
  PROVE  JobInv'
  <1> DEFINE v == IF log[RowOf[t]] = NoTest THEN t ELSE log[RowOf[t]]
  <1>1. /\ at[t] = "failed" /\ at' = [at EXCEPT ![t] = "over"] /\ slot' = [slot EXCEPT ![t] = NoTest]
        /\ log' = [log EXCEPT ![RowOf[t]] = v] /\ lastTest' = [lastTest EXCEPT ![RowOf[t]] = <<t, FALSE>>]
        /\ UNCHANGED <<known, limit, locks, limiter, size, permit, used, leased, port, bound, lingering>>
    BY DEF NoteFailure
  <1>2. /\ at[t] \in Holding /\ RowOf[t] \in Rows /\ at'[t] = "over"
        /\ \A u \in Tests \ {t} : at'[u] = at[u]
    BY <1>1, JobConstants DEF Holding, JobInv, JobTypes, JobTypeOK
  <1>3. v \in Tests \cup {NoTest} /\ (RowOf[t] \in known => v = t)
    BY <1>1, <1>2 DEF JobInv, JobTypes, JobTypeOK, LogInv, LogOf
  <1>4. JobTypes'
    <2>1. lastTest' \in [Rows -> (Tests \cup {NoTest}) \X BOOLEAN]
      BY <1>1, <1>2 DEF JobInv, JobTypes
    <2> QED
      BY <1>1, <1>2, <1>3, <2>1 DEF JobInv, JobTypes, JobTypeOK
  <1>5. SlotInv'
    BY <1>1, <1>2, SlotLetGo
  <1>6. LogInv'
    <2>1. RowOf[t] \in known => v = IF FALSE THEN NoTest ELSE t
      BY <1>3
    <2> QED
      BY <1>1, <1>2, <2>1, LogAfter
  <1>7. PermitInv'
    <2>1. \A u \in Tests : /\ permit'[u] = permit[u]
                           /\ at'[u] \in Permitted <=> at[u] \in Permitted
                           /\ at[u] # "waiting" \/ at'[u] = "waiting"
      BY <1>1, <1>2 DEF Permitted
    <2> QED
      BY <1>1, <2>1, PermitsKept
  <1>8. PortInv'
    <2>1. \A u \in Tests : at'[u] \in Leasing <=> at[u] \in Leasing
      BY <1>1, <1>2 DEF Leasing
    <2>2. \A u \in Tests : Running(u) => Running(u)'
      BY <1>1, <1>2 DEF Running
    <2>3. \A u \in Tests : at'[u] \in {"listening", "answered", "silent"} => at'[u] = at[u]
      BY <1>2
    <2> QED
      BY <1>1, <2>1, <2>2, <2>3, PortsKept
  <1>9. RoomInv'
    <2>1. Past \subseteq Past' /\ Past' \subseteq Tests
      BY <1>1, <1>2 DEF Past
    <2> QED
      BY <1>1, <2>1, RoomKept
  <1> QED
    BY <1>4, <1>5, <1>6, <1>7, <1>8, <1>9 DEF JobInv

LEMMA MeanwhileStep ==
  ASSUME JobInv, (\E n \in Limits : ChangeLimit(n)) \/ (\E r \in Rows : DeleteProfile(r))
  PROVE  JobInv'
  <1>1. UNCHANGED <<at, locks, slot, limiter, size, permit, used, leased, port, bound, lingering, lastTest>>
    BY DEF ChangeLimit, DeleteProfile
  <1>2. SlotInv' /\ RoomInv'
    BY <1>1 DEF JobInv, SlotInv, RoomInv, Past, Listened
  <1>3. PortInv'
    BY <1>1 DEF JobInv, PortInv, ProbesItsCore, Running
  <1>4. PermitInv'
    <2>1. limiter' <= MaxLimitChanges \/ size'[limiter'] = limit'
      BY DEF ChangeLimit, DeleteProfile, JobInv, PermitInv
    <2>2. \A s \in Semaphores : Cardinality(HoldersOf(s))' = Cardinality(HoldersOf(s))
      BY <1>1 DEF HoldersOf
    <2> QED
      BY <1>1, <2>1, <2>2 DEF JobInv, PermitInv
  <1>5. CASE \E n \in Limits : ChangeLimit(n)
    <2>1. UNCHANGED <<known, log>> /\ limit' \in Limits
      BY <1>5 DEF ChangeLimit
    <2>2. LogInv' /\ JobTypes'
      BY <1>1, <2>1 DEF JobInv, LogInv, LogTellsLast, LogOf, JobTypes, JobTypeOK
    <2> QED
      BY <1>2, <1>3, <1>4, <2>2 DEF JobInv
  <1>6. CASE \E r \in Rows : DeleteProfile(r)
    <2>1. PICK r \in known : known' = known \ {r} /\ log' = [log EXCEPT ![r] = NoTest] /\ limit' = limit
      BY <1>6 DEF DeleteProfile
    <2>2. \A q \in known' : log'[q] = log[q] /\ q \in known
      BY <2>1 DEF JobInv, JobTypes, JobTypeOK
    <2>3. LogInv'
      BY <1>1, <2>2 DEF JobInv, LogInv, LogTellsLast, LogOf
    <2>4. JobTypes'
      BY <1>1, <2>1 DEF JobInv, JobTypes, JobTypeOK
    <2> QED
      BY <1>2, <1>3, <1>4, <2>3, <2>4 DEF JobInv
  <1> QED
    BY <1>5, <1>6

-----------------------------------------------------------------------------
LEMMA NextInv == JobInv /\ [JobNext]_jobVars => JobInv'
  <1> SUFFICES ASSUME JobInv, [JobNext]_jobVars PROVE JobInv'
    OBVIOUS
  <1>1. CASE UNCHANGED jobVars
    <2> USE <1>1 DEF jobVars
    <2>1. JobTypes' /\ SlotInv'
      BY DEF JobInv, JobTypes, JobTypeOK, SlotInv
    <2>2. PermitInv'
      BY PermitsKept
    <2>3. PortInv'
      BY DEF JobInv, PortInv, Running, ProbesItsCore
    <2>4. RoomInv'
      BY DEF JobInv, RoomInv, Past, Listened
    <2>5. LogInv'
      BY DEF JobInv, LogInv, LogTellsLast, LogOf
    <2> QED
      BY <2>1, <2>2, <2>3, <2>4, <2>5 DEF JobInv
  <1>2. ASSUME NEW t \in Tests, AskFor(t) \/ TestStep(t) \/ Binds(t) PROVE JobInv'
    BY <1>2, AskForStep, TakeSlotStep, AcquireStep, ReserveStep, CannotRunStep, AttemptStep, KillCoreStep,
       NoteFailureStep, BindsStep DEF TestStep
  <1> QED
    BY <1>1, <1>2, MeanwhileStep DEF JobNext

(* Who waits for a slot waits for a test that can go on, or that waits for *)
(* a permit; who waits for a permit waits for tests that can go on.        *)
LEMMA SomeoneGoesOn == JobInv => NeverStuck
  <1> SUFFICES ASSUME JobInv, NEW t \in Tests, at[t] \notin {"new", "over"}
               PROVE  \E u \in Tests : CanGoOn(u)
    BY DEF NeverStuck
  <1>1. ASSUME NEW u \in Tests, at[u] = "waiting" PROVE \E v \in Tests : CanGoOn(v)
    <2> DEFINE s == permit[u]
    <2>1. s # 0 /\ s \in 1..limiter /\ s \in Semaphores
      BY <1>1, JobConstants DEF JobInv, PermitInv, Permitted, JobTypes, JobTypeOK, Semaphores
    <2>2. size[s] \in Nat \ {0}
      BY <2>1, JobConstants DEF JobInv, PermitInv
    <2>3. CASE HoldersOf(s) = {}
      <3>1. PermitFree(u)
        BY <2>2, <2>3, FS_EmptySet DEF PermitFree
      <3> QED
        BY <1>1, <3>1 DEF CanGoOn
    <2>4. CASE HoldersOf(s) # {}
      <3>1. PICK v \in Tests : permit[v] = s /\ at[v] # "waiting"
        BY <2>4 DEF HoldersOf
      <3>2. at[v] \in Permitted
        BY <2>1, <3>1 DEF JobInv, PermitInv
      <3> QED
        BY <3>1, <3>2 DEF CanGoOn, Permitted
    <2> QED
      BY <2>3, <2>4
  <1>2. ASSUME NEW u \in Tests, at[u] \in Holding PROVE \E v \in Tests : CanGoOn(v)
    <2>1. CASE at[u] = "waiting"
      BY <1>1, <2>1
    <2>2. CASE at[u] # "waiting"
      BY <1>2, <2>2 DEF CanGoOn, Holding
    <2> QED
      BY <2>1, <2>2
  <1>3. CASE at[t] = "queued"
    <2>1. CASE SlotFree(t)
      BY <1>3, <2>1 DEF CanGoOn
    <2>2. CASE ~SlotFree(t)
      BY <1>2, <2>2 DEF SlotFree
    <2> QED
      BY <2>1, <2>2
  <1>4. CASE at[t] # "queued"
    <2>1. at[t] \in Holding
      BY <1>4 DEF JobInv, JobTypes, JobTypeOK
    <2> QED
      BY <1>2, <2>1
  <1> QED
    BY <1>3, <1>4

(* However many tests run, of whatever rows, with the limit changed and    *)
(* profiles deleted meanwhile: a test measures its own core, ports and     *)
(* permits come back on every way out, a row's log is its last attempt's,  *)
(* and some unfinished test can always go on.                              *)
THEOREM TestsStaySound == JobSpec => []TestsAreSound
  <1>1. JobInv => NothingLeaks
    <2> SUFFICES ASSUME JobInv PROVE NothingLeaks
      OBVIOUS
    <2>1. \A s \in DOMAIN size : Cardinality(HoldersOf(s)) <= size[s]
      BY DEF JobInv, PermitInv, JobTypes
    <2> QED
      BY <2>1 DEF JobInv, PortInv, NothingLeaks
  <1>2. JobInv => TestsAreSound
    BY <1>1, SomeoneGoesOn DEF JobInv, JobTypes, PortInv, LogInv, TestsAreSound
  <1> QED
    BY <1>2, InitInv, NextInv, PTL DEF JobSpec
=============================================================================
