------------------------------ MODULE HelperCall ------------------------------
(***************************************************************************)
(* What the GUI side of the privileged helper promises its callers, with   *)
(* no connection, no lock and no wire: a call is made, the helper carries  *)
(* the request out at most once and in one step, and the caller gets the   *)
(* reply to its own request or learns that the helper is lost.             *)
(***************************************************************************)
CONSTANTS Callers,     \* tasks of the GUI that call the helper
          Requests,    \* everything they may ask
          Handles      \* names of test cores

VARIABLES call,        \* per caller: what it asked and how far the call is
          live,        \* test cores running in the helper
          issued,      \* handles ever given out
          left         \* requests under way whose caller has gone

vars == <<call, live, issued, left>>

Idle == [st |-> "idle"]

Init == /\ call = [c \in Callers |-> Idle]
        /\ live = {}
        /\ issued = {}
        /\ left = {}

Ask(c, r) == /\ call[c].st = "idle"
             /\ call' = [call EXCEPT ![c] = [st |-> "asked", req |-> r]]
             /\ UNCHANGED <<live, issued, left>>

(* A request is carried out. A spawn that works answers a handle never used
   before, a kill ends the core it names. *)
Begun(req, reply) == IF req.op = "spawn" /\ reply.ok THEN {reply.handle} ELSE {}
Ended(req) == IF req.op = "kill" THEN {req.handle} ELSE {}
CarryOut(req, reply) ==
    /\ reply.to = req.op
    /\ Begun(req, reply) \cap issued = {}
    /\ issued' = issued \cup Begun(req, reply)
    /\ live' = (live \cup Begun(req, reply)) \ Ended(req)

Answers(req) == [to : {req.op}, ok : BOOLEAN,
                 handle : IF req.op = "spawn" THEN Handles \cup {0} ELSE {0}]

Serve(c) ==
    /\ call[c].st = "asked"
    /\ \E reply \in Answers(call[c].req) :
         /\ call' = [call EXCEPT ![c] = [st |-> "served", req |-> @.req, rep |-> reply]]
         /\ CarryOut(call[c].req, reply)
    /\ UNCHANGED left

(* A request already with the helper is finished even if nobody waits for it. *)
ServeLeft ==
    /\ \E r \in left : /\ left' = left \ {r}
                       /\ \E reply \in Answers(r) : CarryOut(r, reply)
    /\ UNCHANGED call

Return(c) == /\ call[c].st = "served"
             /\ call' = [call EXCEPT ![c] = Idle]
             /\ UNCHANGED <<live, issued, left>>

(* The helper is gone: the call ends without a reply, served or not. *)
Lose(c) == /\ call[c].st # "idle"
           /\ call' = [call EXCEPT ![c] = Idle]
           /\ UNCHANGED <<live, issued, left>>

(* A core nobody killed is swept, one by one or with the helper itself; with
   the GUI every call of it ends. *)
Sweep == /\ \E gone \in SUBSET live : gone # {} /\ live' = live \ gone
         /\ left' \in {left, {}}
         /\ UNCHANGED <<call, issued>>
CallersGone == /\ call' = [c \in Callers |-> Idle]
               /\ left' \in SUBSET {call[c].req : c \in {d \in Callers : call[d].st = "asked"}}
               /\ UNCHANGED <<live, issued>>
HelperGone == /\ left' = {}
              /\ UNCHANGED <<call, live, issued>>

Next == \/ \E c \in Callers : \/ \E r \in Requests : Ask(c, r)
                              \/ Serve(c) \/ Return(c) \/ Lose(c)
        \/ ServeLeft \/ Sweep \/ CallersGone \/ HelperGone

Spec == Init /\ [][Next]_vars
=============================================================================
