------------------------------ MODULE PrivHelper ------------------------------
(***************************************************************************)
(* The calls of the unprivileged GUI into the privileged helper            *)
(* (src-tauri/src/desktop/privhelper: client, remote, server, proto and    *)
(* the Linux helper's entry). One connection, shared by every task of the  *)
(* GUI behind a mutex, carries one line per request and one per reply with *)
(* no identifier in either; a tcp-ping takes a connection of its own. The  *)
(* helper answers the requests of a connection in order and runs the test  *)
(* cores, each with a sweep behind it.                                     *)
(***************************************************************************)
EXTENDS Naturals, Sequences, FiniteSets

CONSTANTS Testers,     \* tasks that run a test core through the helper
          MaxCores,    \* bound: test cores spawned in a behaviour
          MaxCalls,    \* bound: calls of the lifecycle and of the status task
          None         \* nobody

ASSUME HelperConstants == /\ MaxCores \in Nat \ {0} /\ MaxCalls \in Nat
                          /\ {"life", "probe", "pinger"} \cap Testers = {}
                          /\ None \notin Testers \cup {"life", "probe", "pinger"}

Handles == 1..MaxCores
Callers == Testers \cup {"life", "probe", "pinger"}

(* client.rs keeps one held connection; call_oneshot opens one per call, used
   only by the pinger. A connection is named by the task that owns it. *)
Conns == {"held", "oneshot"}
ConnOf(c) == IF c = "pinger" THEN "oneshot" ELSE "held"

(* PrivRequest: what each task sends. Arguments that only travel are left out. *)
OpsOf == [life |-> {"boot", "start", "stop"}, probe |-> {"state", "healthy"}, pinger |-> {"ping"}]
RequestsOf(c) == IF c \in Testers
                 THEN [op : {"spawn"}, handle : {0}] \cup [op : {"kill"}, handle : Handles]
                 ELSE [op : OpsOf[c], handle : {0}]
Requests == UNION {RequestsOf(c) : c \in Callers}
Reply(op, ok, h) == [to |-> op, ok |-> ok, handle |-> h]
Replies == [to : {r.op : r \in Requests}, ok : BOOLEAN, handle : Handles \cup {0}]

VARIABLES gui,       \* the GUI process: "up" or "gone"
          helper,    \* the helper process: "up", "stopping" or "gone"
          lock,      \* who holds the client's connection mutex
          pc,        \* per caller: "idle", "waiting" or "sent"
          ask,       \* per caller: the request of its call
          held,      \* per tester: the handle of the test core it owns, 0 for none
          inbox,     \* per connection: request lines the helper has not read
          busy,      \* per connection: the request being dispatched, if any
          outbox,    \* per connection: reply lines the GUI has not read
          path,      \* the data path: "down", "partial" (being built) or "up"
          registry,  \* Server::test_cores: the handles registered
          running,   \* test cores whose process runs
          next,      \* Server::next_handle
          rootFiles, \* files a request left owned by root
          calls      \* calls made so far by the lifecycle, status and ping tasks

vars == <<gui, helper, lock, pc, ask, held, inbox, busy, outbox, path,
          registry, running, next, rootFiles, calls>>
client == <<lock, pc, ask, held, calls>>
wire == <<inbox, busy, outbox>>
server == <<path, registry, running, next, rootFiles>>

NoReq == [op |-> "none", handle |-> 0]

Init == /\ gui = "up" /\ helper = "up" /\ lock = None
        /\ pc = [c \in Callers |-> "idle"]
        /\ ask = [c \in Callers |-> NoReq]
        /\ held = [t \in Testers |-> 0]
        /\ inbox = [k \in Conns |-> <<>>]
        /\ busy = [k \in Conns |-> NoReq]
        /\ outbox = [k \in Conns |-> <<>>]
        /\ path = "down" /\ registry = {} /\ running = {} /\ next = 1
        /\ rootFiles = {} /\ calls = 0

-----------------------------------------------------------------------------
(* The GUI side *)

(* RemotePlatform::boot_init, start_data_path, stop_data_path, service_state and
   data_path_healthy; with_test_core, which spawns a core, measures and always
   kills it (a spawn names no core, 0); tcp_ping. The service's own locks keep one
   lifecycle call and one status call at a time, which the caller's pc stands for. *)
MayAsk(c, r) == IF c \in Testers THEN held[c] = r.handle ELSE calls < MaxCalls

Call(c) == /\ gui = "up" /\ pc[c] = "idle"
           /\ \E r \in RequestsOf(c) :
                /\ MayAsk(c, r)
                /\ ask' = [ask EXCEPT ![c] = r]
           /\ pc' = [pc EXCEPT ![c] = "waiting"]
           /\ calls' = IF c \in Testers THEN calls ELSE calls + 1
           /\ UNCHANGED <<gui, helper, lock, held, wire, server>>

(* Mutant: a call is written without waiting for the one in flight. *)
Write_NoLock(c) == /\ gui = "up" /\ helper # "gone" /\ pc[c] = "waiting"
                   /\ inbox' = [inbox EXCEPT ![ConnOf(c)] = Append(@, ask[c])]
                   /\ pc' = [pc EXCEPT ![c] = "sent"]
                   /\ UNCHANGED <<gui, helper, lock, ask, held, calls, busy, outbox, server>>

(* call_raw up to the flush: the mutex, then one line. call_oneshot connects
   first, and shares nothing. *)
Write(c) == /\ gui = "up" /\ helper # "gone" /\ pc[c] = "waiting"
            /\ ConnOf(c) = "held" => lock = None
            /\ lock' = IF ConnOf(c) = "held" THEN c ELSE lock
            /\ inbox' = [inbox EXCEPT ![ConnOf(c)] = Append(@, ask[c])]
            /\ pc' = [pc EXCEPT ![c] = "sent"]
            /\ UNCHANGED <<gui, helper, ask, held, calls, busy, outbox, server>>

(* RemoteTestCore: spawn_test_core keeps the handle of a spawn that went well;
   kill marks the core as killed before it calls, so it is given up whatever
   the answer is. *)
HandleAfter(t, reply) == IF reply.to = "spawn" /\ reply.ok THEN reply.handle ELSE 0

(* Mutant: the mutex stays taken after a call. *)
Released_Never(c) == lock
Released(c) == IF lock = c THEN None ELSE lock

(* call_raw from the read on: the next line of the connection is taken for the
   reply, and the mutex is released. *)
Receive(c) ==
    /\ gui = "up" /\ pc[c] = "sent" /\ outbox[ConnOf(c)] # <<>>
    /\ \E reply \in {Head(outbox[ConnOf(c)])} :
         held' = [t \in Testers |-> IF t = c THEN HandleAfter(t, reply) ELSE held[t]]
    /\ outbox' = [outbox EXCEPT ![ConnOf(c)] = Tail(@)]
    /\ pc' = [pc EXCEPT ![c] = "idle"]
    /\ ask' = [ask EXCEPT ![c] = NoReq]
    /\ lock' = Released(c)
    /\ UNCHANGED <<gui, helper, calls, inbox, busy, server>>

(* The write fails or the stream ends: the call is an error. A status call then
   reads as unhealthy, a ping falls back to a plain connect of the GUI, a tester
   has no core. *)
Fail(c) ==
    /\ gui = "up" /\ pc[c] \in {"waiting", "sent"} /\ helper = "gone"
    /\ pc[c] = "sent" => outbox[ConnOf(c)] = <<>>
    /\ pc[c] = "waiting" /\ ConnOf(c) = "held" => lock = None
    /\ held' = [t \in Testers |-> IF t = c THEN 0 ELSE held[t]]
    /\ pc' = [pc EXCEPT ![c] = "idle"]
    /\ ask' = [ask EXCEPT ![c] = NoReq]
    /\ lock' = Released(c)
    /\ UNCHANGED <<gui, helper, calls, wire, server>>

(* The GUI exits or crashes: its tasks and both ends of its connections go. What
   the helper is dispatching it finishes. *)
GuiGone == /\ gui = "up"
           /\ gui' = "gone" /\ lock' = None
           /\ pc' = [c \in Callers |-> "idle"]
           /\ ask' = [c \in Callers |-> NoReq]
           /\ held' = [t \in Testers |-> 0]
           /\ inbox' = [k \in Conns |-> <<>>]
           /\ outbox' = [k \in Conns |-> <<>>]
           /\ UNCHANGED <<helper, calls, busy, server>>

-----------------------------------------------------------------------------
(* The helper side *)

(* serve_conn reads the next line of a connection once the last one is
   answered; starting the data path is under way from here. *)
Read(k) == /\ helper \in {"up", "stopping"} /\ busy[k] = NoReq /\ inbox[k] # <<>>
           /\ busy' = [busy EXCEPT ![k] = Head(inbox[k])]
           /\ inbox' = [inbox EXCEPT ![k] = Tail(@)]
           /\ path' = IF Head(inbox[k]).op = "start" THEN "partial" ELSE path
           /\ UNCHANGED <<gui, helper, client, outbox, registry, running, next, rootFiles>>

(* Handoff::for_request and hand_files_to_owner: what a request leaves owned by
   root is given to the GUI's user before the reply is written. *)
LeavesFiles(op) == IF op \in {"start", "stop"} THEN {"runtime"}
                   ELSE IF op = "spawn" THEN {"log"} ELSE {}
HandFilesToOwner(op) == rootFiles \ LeavesFiles(op)

(* serve_conn writes the reply, which goes nowhere once the GUI has left. *)
Answer(k, reply) == /\ busy' = [busy EXCEPT ![k] = NoReq]
                    /\ outbox' = IF gui = "gone" THEN outbox
                                 ELSE [outbox EXCEPT ![k] = Append(@, reply)]

(* Server::dispatch, one action per kind of request. *)
DispatchPath(k) ==
    /\ helper \in {"up", "stopping"} /\ busy[k].op \in {"boot", "start", "stop"}
    /\ \E ok \in BOOLEAN :
         /\ Answer(k, Reply(busy[k].op, ok, 0))
         /\ path' = [boot |-> path, start |-> IF ok THEN "up" ELSE "partial", stop |-> "down"][busy[k].op]
    /\ rootFiles' = HandFilesToOwner(busy[k].op)
    /\ UNCHANGED <<gui, helper, client, inbox, registry, running, next>>

DispatchQuery(k) ==
    /\ helper \in {"up", "stopping"} /\ busy[k].op \in {"state", "healthy", "ping"}
    /\ \E ok \in BOOLEAN : Answer(k, Reply(busy[k].op, ok, 0))
    /\ UNCHANGED <<gui, helper, client, inbox, server>>

Free(k) == CHOOSE h \in Handles : h \notin registry /\ \A g \in Handles : g < h => g \in registry

(* Mutant: a handle whose core is gone is given out again. *)
DispatchSpawn_Reuses(k) ==
    /\ helper \in {"up", "stopping"} /\ busy[k].op = "spawn" /\ registry # Handles
    /\ Answer(k, Reply("spawn", TRUE, Free(k)))
    /\ registry' = registry \cup {Free(k)}
    /\ running' = running \cup {Free(k)}
    /\ next' = next
    /\ rootFiles' = HandFilesToOwner("spawn")
    /\ UNCHANGED <<gui, helper, client, inbox, path>>

(* SpawnTestCore: a spawn that works registers the core under a fresh handle and
   starts its sweep. *)
DispatchSpawn(k) ==
    /\ helper \in {"up", "stopping"} /\ busy[k].op = "spawn"
    /\ \/ /\ next <= MaxCores
          /\ Answer(k, Reply("spawn", TRUE, next))
          /\ registry' = registry \cup {next}
          /\ running' = running \cup {next}
          /\ next' = next + 1
       \/ /\ Answer(k, Reply("spawn", FALSE, 0))
          /\ UNCHANGED <<registry, running, next>>
    /\ rootFiles' = HandFilesToOwner("spawn")
    /\ UNCHANGED <<gui, helper, client, inbox, path>>

(* KillTestCore: whoever removes the handle kills the core; one that the sweep
   took is answered all the same. *)
DispatchKill(k) ==
    /\ helper \in {"up", "stopping"} /\ busy[k].op = "kill"
    /\ Answer(k, Reply("kill", TRUE, 0))
    /\ registry' = registry \ {busy[k].handle}
    /\ running' = running \ (registry \cap {busy[k].handle})
    /\ UNCHANGED <<gui, helper, client, inbox, path, next, rootFiles>>

(* The sweep spawned with a core, TEST_CORE_MAX_LIFETIME later. It may find the
   core of a test still waiting for the shared connection. *)
SweepCore(h) == /\ helper # "gone" /\ h \in registry
                /\ registry' = registry \ {h}
                /\ running' = running \ {h}
                /\ UNCHANGED <<gui, helper, client, wire, path, next, rootFiles>>

(* A request writes its files as root while it is being carried out. *)
WriteFiles(k) == /\ helper # "gone" /\ LeavesFiles(busy[k].op) \ rootFiles # {}
                 /\ rootFiles' = rootFiles \cup LeavesFiles(busy[k].op)
                 /\ UNCHANGED <<gui, helper, client, wire, path, registry, running, next>>

(* watch_gui: the GUI's pid is gone, so the data path is stopped... *)
WatchGui == /\ helper = "up" /\ gui = "gone"
            /\ helper' = "stopping" /\ path' = "down"
            /\ UNCHANGED <<gui, client, wire, registry, running, next, rootFiles>>

(* ...and the process exits, or it dies at any moment. Every core it spawned dies
   with it (die_with_parent, kill-on-close job); routes stay as they are. *)
Exit == /\ helper' = "gone" /\ running' = {} /\ registry' = {}
        /\ busy' = [k \in Conns |-> NoReq]
        /\ inbox' = [k \in Conns |-> <<>>]
        /\ UNCHANGED <<gui, client, outbox, path, next, rootFiles>>
WatchGuiExit == helper = "stopping" /\ Exit
HelperDies == helper = "up" /\ gui = "up" /\ Exit

-----------------------------------------------------------------------------
Dispatch(k) == \/ Read(k) \/ WriteFiles(k)
               \/ DispatchPath(k) \/ DispatchQuery(k) \/ DispatchSpawn(k) \/ DispatchKill(k)

Next == \/ \E c \in Callers : Call(c) \/ Write(c) \/ Receive(c) \/ Fail(c)
        \/ \E k \in Conns : Dispatch(k)
        \/ \E h \in Handles : SweepCore(h)
        \/ GuiGone \/ WatchGui \/ WatchGuiExit \/ HelperDies

(* The runtime polls every task that can move, the mutex is FIFO, timers fire and
   a test kills its core when its measurement is over. Nothing makes a GUI leave
   or a helper crash. *)
Fairness == /\ \A c \in Callers : /\ WF_vars(Receive(c)) /\ WF_vars(Fail(c)) /\ SF_vars(Write(c))
            /\ \A t \in Testers : WF_vars(held[t] # 0 /\ Call(t))
            /\ \A k \in Conns : WF_vars(Dispatch(k))
            /\ \A h \in Handles : WF_vars(SweepCore(h))
            /\ WF_vars(WatchGui) /\ WF_vars(WatchGuiExit)

Spec == Init /\ [][Next]_vars
LiveSpec == Spec /\ Fairness

-----------------------------------------------------------------------------
(* Properties *)

TypeOK == /\ gui \in {"up", "gone"} /\ helper \in {"up", "stopping", "gone"}
          /\ lock \in Callers \cup {None}
          /\ pc \in [Callers -> {"idle", "waiting", "sent"}]
          /\ ask \in [Callers -> Requests \cup {NoReq}]
          /\ held \in [Testers -> Handles \cup {0}]
          /\ inbox \in [Conns -> Seq(Requests)]
          /\ busy \in [Conns -> Requests \cup {NoReq}]
          /\ outbox \in [Conns -> Seq(Replies)]
          /\ path \in {"down", "partial", "up"}
          /\ registry \subseteq Handles /\ running \subseteq Handles
          /\ next \in 1..(MaxCores + 1)
          /\ rootFiles \subseteq {"runtime", "log"} /\ calls \in 0..MaxCalls

(* Neither a request nor a reply names its call: the reply a caller takes is the
   one to its own request only because the mutex is held from the write to the
   read. Seen by its callers, then, the connection is HelperCall: a request is
   carried out at most once and in one step, and nobody gets another's reply. *)
AbsCall(c) == IF pc[c] = "idle" THEN [st |-> "idle"]
              ELSE IF pc[c] = "sent" /\ outbox[ConnOf(c)] # <<>>
              THEN [st |-> "served", req |-> ask[c], rep |-> Head(outbox[ConnOf(c)])]
              ELSE [st |-> "asked", req |-> ask[c]]
Abs == INSTANCE HelperCall WITH
         call <- [c \in Callers |-> AbsCall(c)],
         live <- running,
         issued <- 1..(next - 1),
         left <- IF gui = "up" THEN {} ELSE {busy[k] : k \in Conns} \ {NoReq}
ImplementsCall == Abs!Spec

(* Two tests never own one core: a handle is never given out twice, across kills,
   sweeps and lost replies, so a kill reaches the killer's own core. *)
HandleHasOneOwner == \A t, u \in Testers : held[t] # 0 /\ held[t] = held[u] => t = u

(* Files written as root are back with the GUI's user before the reply that tells
   of them is: between requests the helper leaves none behind. *)
FilesComeBack == helper = "up" /\ busy["held"] = NoReq => rootFiles = {}

(* Every call ends, whatever happens to the helper and whoever holds the shared
   connection. *)
CallsReturn == \A c \in Callers : pc[c] # "idle" ~> pc[c] = "idle"

(* No test core outlives its test for good: not with its reply lost, its GUI gone
   or its helper dead. *)
TestCoresEnd == \A h \in Handles : h \in running ~> h \notin running

(* Nothing the helper makes goes astray: a test core has one owner, and what root
   wrote is the user's again. *)
NothingStrays == TypeOK /\ HandleHasOneOwner /\ FilesComeBack

(* Under the scheduler of the two processes, calls and test cores end. *)
CallsAndCoresEnd == CallsReturn /\ TestCoresEnd
=============================================================================
