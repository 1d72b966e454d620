------------------------------ MODULE TestJobs ------------------------------
(* Real-ping and speed tests, each a throwaway core on a port of its own.   *)
(* A test owns its row's log slot, waits for a permit of the limiter,       *)
(* leases ports, spawns its core, measures through it, and gives all of it  *)
(* back. Tests run concurrently, one per command. The tests are of one      *)
(* kind: real pings and speed tests have a limiter each.                    *)
EXTENDS Integers, FiniteSets

CONSTANTS
    Tests,        \* the test runs, each asked for once
    Rows,         \* the profiles: each has one retained log of this kind of test
    RowOf,        \* the row a test is for
    Limits,       \* values of the user's concurrency setting
    LastPort,     \* the highest port tried; 1 is TEST_PORT_BASE
    MaxLimitChanges    \* bound on changes of the setting

NoTest == 0
NoPort == 0

(* No more tests than ports: with all ports taken a lease falls back to the *)
(* first one, whoever has it.                                               *)
ASSUME JobConstants ==
    /\ IsFiniteSet(Tests) /\ NoTest \notin Tests
    /\ RowOf \in [Tests -> Rows]
    /\ Limits \subseteq Nat \ {0} /\ MaxLimitChanges \in Nat
    /\ LastPort \in Nat /\ Cardinality(Tests) <= LastPort

VARIABLES
    at,        \* where each test is
    known,     \* the rows whose profile is still saved
    limit,     \* the saved concurrency setting
    locks,     \* the LOCKS map: the slot of each row, named after its maker
    slot,      \* the slot each test holds a reference to
    limiter,   \* the limiter's present semaphore
    size,      \* the permits of every semaphore made
    permit,    \* the semaphore each test waits at or holds a permit of
    used,      \* the ports a test saw in /proc/net/tcp
    leased,    \* leased_ports()
    port,      \* the port of each test's lease
    bound,     \* the core that listens on a port
    lingering, \* ports of killed cores /proc still lists (for longer than a run of the model)
    log,       \* whose failure each row's retained log tells
    lastTest       \* the last test of each row and whether it found an answer

jobVars == <<at, known, limit, locks, slot, limiter, size, permit, used, leased, port,
             bound, lingering, log, lastTest>>

Ports == 1..LastPort
Holding == {"waiting", "scanned", "leased", "spawned", "listening", "answered", "silent",
            "dead", "failed"}
Running(t) == at[t] \in {"spawned", "listening", "answered", "silent", "dead"}

-----------------------------------------------------------------------------
(* The slot of a row's log.                                                 *)

Referenced(s) == \E t \in Tests : slot[t] = s

(* Slots nobody holds or waits for leave the map.                           *)
Pruned(m) == [r \in Rows |-> IF m[r] # NoTest /\ Referenced(m[r]) THEN m[r] ELSE NoTest]

AttemptLock(t) ==
    /\ locks' = [Pruned(locks) EXCEPT ![RowOf[t]] = IF @ = NoTest THEN t ELSE @]
    /\ slot' = [slot EXCEPT ![t] = locks'[RowOf[t]]]

AskFor(t) ==
    /\ at[t] = "new"
    /\ AttemptLock(t)
    /\ at' = [at EXCEPT ![t] = "queued"]
    /\ UNCHANGED <<known, limit, limiter, size, permit, used, leased, port, bound, lingering, log, lastTest>>

(* The slot taken, an earlier failure's log goes and the state is read.     *)
SlotFree(t) == \A u \in Tests : slot[u] = slot[t] => at[u] \notin Holding

(* The limiter: a changed setting makes a new semaphore.                    *)
Rebuilt == size[limiter] # limit

(* The row's profile is gone, or no core takes it: an error. Else the test  *)
(* queues at the limiter's present semaphore.                               *)
LoadProfile(t) ==
    \/ at' = [at EXCEPT ![t] = "failed"] /\ UNCHANGED <<size, limiter, permit>>
    \/ /\ RowOf[t] \in known
       /\ size' = IF Rebuilt THEN [size EXCEPT ![limiter + 1] = limit] ELSE size
       /\ limiter' = IF Rebuilt THEN limiter + 1 ELSE limiter
       /\ permit' = [permit EXCEPT ![t] = limiter']
       /\ at' = [at EXCEPT ![t] = "waiting"]

TakeSlot(t) ==
    /\ at[t] = "queued"
    /\ SlotFree(t)
    /\ log' = [log EXCEPT ![RowOf[t]] = NoTest]
    /\ LoadProfile(t)
    /\ UNCHANGED <<known, limit, locks, slot, used, leased, port, bound, lingering, lastTest>>

HoldersOf(s) == {t \in Tests : permit[t] = s /\ at[t] # "waiting"}

-----------------------------------------------------------------------------
(* The permit, then the lease: the table of sockets is read before the      *)
(* leases are locked.                                                       *)

PermitFree(t) == Cardinality(HoldersOf(permit[t])) < size[permit[t]]

UsedPorts == {p \in Ports : bound[p] # NoTest} \cup lingering

Acquire(t) ==
    /\ at[t] = "waiting"
    /\ PermitFree(t)
    /\ used' = [used EXCEPT ![t] = UsedPorts]
    /\ at' = [at EXCEPT ![t] = "scanned"]
    /\ UNCHANGED <<known, limit, locks, slot, limiter, size, permit, leased, port, bound, lingering, log, lastTest>>

(* The first port neither used nor leased; the first one when none is.      *)
FreePorts(t) == {p \in Ports : p \notin used[t] /\ p \notin leased}
(* Mutant: only the socket table is asked, not the leases.                  *)
ReservedPort_UsedOnly(t) ==
    LET free == {p \in Ports : p \notin used[t]}
    IN  IF free = {} THEN 1 ELSE CHOOSE p \in free : \A q \in free : p <= q

ReservedPort(t) ==
    IF FreePorts(t) = {} THEN 1 ELSE CHOOSE p \in FreePorts(t) : \A q \in FreePorts(t) : p <= q

Reserve(t) ==
    /\ at[t] = "scanned"
    /\ port' = [port EXCEPT ![t] = ReservedPort(t)]
    /\ leased' = leased \cup {ReservedPort(t)}
    /\ used' = [used EXCEPT ![t] = {}]
    /\ at' = [at EXCEPT ![t] = "leased"]
    /\ UNCHANGED <<known, limit, locks, slot, limiter, size, permit, bound, lingering, log, lastTest>>

-----------------------------------------------------------------------------
(* The core.                                                                *)

(* The lease and the permit go when the attempt returns.                    *)
GivenBack(t) ==
    /\ leased' = leased \ {port[t]}
    /\ port' = [port EXCEPT ![t] = NoPort]
    /\ permit' = [permit EXCEPT ![t] = 0]

(* The config does not build, the core is missing, its config cannot be     *)
(* written, or the spawn fails: an error before anything runs.              *)
CannotRun(t) ==
    /\ at[t] = "leased"
    /\ GivenBack(t)
    /\ at' = [at EXCEPT ![t] = "failed"]
    /\ UNCHANGED <<known, limit, locks, slot, limiter, size, used, bound, lingering, log, lastTest>>

SpawnTestCore(t) ==
    /\ at[t] = "leased"
    /\ at' = [at EXCEPT ![t] = "spawned"]
    /\ UNCHANGED <<known, limit, locks, slot, limiter, size, permit, used, leased, port, bound, lingering, log, lastTest>>

(* The core binds its port, unless another has it.                          *)
Binds(t) ==
    /\ at[t] \in {"spawned", "dead"}
    /\ bound[port[t]] = NoTest
    /\ bound' = [bound EXCEPT ![port[t]] = t]
    /\ lingering' = lingering \ {port[t]}
    /\ UNCHANGED <<at, known, limit, locks, slot, limiter, size, permit, used, leased, port, log, lastTest>>

(* Whoever answers on the port ends the wait; else it times out and the     *)
(* core's log is kept.                                                      *)
WaitPortUp(t) ==
    /\ at[t] = "spawned"
    /\ \/ /\ bound[port[t]] # NoTest
          /\ at' = [at EXCEPT ![t] = "listening"]
          /\ UNCHANGED log
       \/ /\ bound[port[t]] = NoTest
          /\ at' = [at EXCEPT ![t] = "dead"]
          /\ log' = [log EXCEPT ![RowOf[t]] = t]
    /\ UNCHANGED <<known, limit, locks, slot, limiter, size, permit, used, leased, port, bound, lingering, lastTest>>

(* The probe answers within its cap or it does not. The log of the attempt  *)
(* is dropped on an answer, and kept otherwise.                             *)
Measure(t, answered) ==
    /\ at[t] = "listening"
    /\ log' = [log EXCEPT ![RowOf[t]] = IF answered THEN NoTest ELSE t]
    /\ at' = [at EXCEPT ![t] = IF answered THEN "answered" ELSE "silent"]
    /\ UNCHANGED <<known, limit, locks, slot, limiter, size, permit, used, leased, port, bound, lingering, lastTest>>

(* The core is killed and its files go; then the lease and the permit.      *)
KillCore(t) ==
    /\ at[t] \in {"answered", "silent", "dead"}
    /\ bound' = [p \in Ports |-> IF bound[p] = t THEN NoTest ELSE bound[p]]
    /\ lingering' = lingering \cup {p \in Ports : bound[p] = t}
    /\ GivenBack(t)
    /\ lastTest' = [lastTest EXCEPT ![RowOf[t]] = <<t, at[t] = "answered">>]
    /\ at' = [at EXCEPT ![t] = IF at[t] = "dead" THEN "failed" ELSE "over"]
    /\ slot' = [slot EXCEPT ![t] = IF at[t] = "dead" THEN @ ELSE NoTest]
    /\ UNCHANGED <<known, limit, locks, limiter, size, used, log>>

(* note_test_failure: an error without a log of its own explains itself;    *)
(* then the slot is let go.                                                 *)
NoteFailure(t) ==
    /\ at[t] = "failed"
    /\ log' = [log EXCEPT ![RowOf[t]] = IF @ = NoTest THEN t ELSE @]
    /\ lastTest' = [lastTest EXCEPT ![RowOf[t]] = <<t, FALSE>>]
    /\ at' = [at EXCEPT ![t] = "over"]
    /\ slot' = [slot EXCEPT ![t] = NoTest]
    /\ UNCHANGED <<known, limit, locks, limiter, size, permit, used, leased, port, bound, lingering>>

-----------------------------------------------------------------------------
(* Meanwhile.                                                               *)

ChangeLimit(n) ==
    /\ n # limit
    /\ limiter <= MaxLimitChanges
    /\ size[limiter] = limit
    /\ limit' = n
    /\ UNCHANGED <<at, known, locks, slot, limiter, size, permit, used, leased, port, bound, lingering, log, lastTest>>

(* A deleted profile takes its logs with it.                                *)
DeleteProfile(r) ==
    /\ r \in known
    /\ known' = known \ {r}
    /\ log' = [log EXCEPT ![r] = NoTest]
    /\ UNCHANGED <<at, limit, locks, slot, limiter, size, permit, used, leased, port, bound, lingering, lastTest>>

-----------------------------------------------------------------------------
JobInit ==
    /\ at = [t \in Tests |-> "new"]
    /\ known = Rows
    /\ limit \in Limits
    /\ locks = [r \in Rows |-> NoTest]
    /\ slot = [t \in Tests |-> NoTest]
    /\ limiter = 1
    /\ size = [s \in 1..MaxLimitChanges + 1 |-> IF s = 1 THEN limit ELSE 0]
    /\ permit = [t \in Tests |-> 0]
    /\ used = [t \in Tests |-> {}]
    /\ leased = {}
    /\ port = [t \in Tests |-> NoPort]
    /\ bound = [p \in Ports |-> NoTest]
    /\ lingering = {}
    /\ log = [r \in Rows |-> NoTest]
    /\ lastTest = [r \in Rows |-> <<NoTest, TRUE>>]

TestStep(t) ==
    \/ TakeSlot(t)
    \/ Acquire(t)
    \/ Reserve(t)
    \/ CannotRun(t)
    \/ SpawnTestCore(t)
    \/ WaitPortUp(t)
    \/ \E answered \in BOOLEAN : Measure(t, answered)
    \/ KillCore(t)
    \/ NoteFailure(t)

JobNext ==
    \/ \E t \in Tests : AskFor(t) \/ TestStep(t) \/ Binds(t)
    \/ \E n \in Limits : ChangeLimit(n)
    \/ \E r \in Rows : DeleteProfile(r)

JobSpec == JobInit /\ [][JobNext]_jobVars

-----------------------------------------------------------------------------
(* Every part of a test is of its type.                                     *)
JobTypeOK ==
    /\ at \in [Tests -> Holding \cup {"new", "queued", "over"}]
    /\ locks \in [Rows -> Tests \cup {NoTest}] /\ slot \in [Tests -> Tests \cup {NoTest}]
    /\ permit \in [Tests -> 0..MaxLimitChanges + 1] /\ limiter \in 1..MaxLimitChanges + 1
    /\ port \in [Tests -> Ports \cup {NoPort}] /\ leased \subseteq Ports
    /\ bound \in [Ports -> Tests \cup {NoTest}] /\ log \in [Rows -> Tests \cup {NoTest}]

(* A test measures its own core: wait_port_up takes whoever listens, so two *)
(* tests must never be given the same port, although each reads the socket  *)
(* table before it locks the leases.                                        *)
ProbesItsCore == \A t \in Tests : at[t] \in {"listening", "answered", "silent"} => bound[port[t]] = t

(* At any time the tests past the limiter fit the semaphores they hold      *)
(* permits of, and the ports still leased are exactly theirs: nothing leaks *)
(* on an error path.                                                        *)
NothingLeaks ==
    /\ leased = {port[t] : t \in Tests} \ {NoPort}
    /\ \A s \in DOMAIN size : Cardinality(HoldersOf(s)) <= size[s]
    /\ \A p \in Ports : bound[p] # NoTest => Running(bound[p])

(* Between two attempts on a row its log tells how the last one ended: that *)
(* one's failure, or nothing after an answer. Attempts that overlap take    *)
(* the slot in turn, though the map of slots is pruned by each newcomer.    *)
LogTellsLast ==
    \A r \in known :
        (\A t \in Tests : RowOf[t] = r => at[t] \notin Holding) =>
            log[r] = IF lastTest[r][2] THEN NoTest ELSE lastTest[r][1]

(* The tests under way never outnumber the concurrency the user has asked   *)
(* for, before or after changing it.                                        *)
WithinLimit == \E n \in Limits : Cardinality({t \in Tests : permit[t] # 0 /\ at[t] # "waiting"}) <= n

(* While a test is unfinished some test can go on: those that wait for a    *)
(* row's slot hold no permit, and a permit comes back on every way out, so  *)
(* slots and permits never wait for each other.                             *)
CanGoOn(t) == /\ at[t] \notin {"new", "over"}
              /\ at[t] = "queued" => SlotFree(t)
              /\ at[t] = "waiting" => PermitFree(t)
NeverStuck == (\E t \in Tests : at[t] \notin {"new", "over"}) => \E t \in Tests : CanGoOn(t)

(* Concurrent tests neither measure each other, nor leak, nor overwrite     *)
(* each other's reasons, nor wait for each other in a circle.               *)
TestsAreSound == JobTypeOK /\ ProbesItsCore /\ NothingLeaks /\ LogTellsLast /\ NeverStuck
=============================================================================
