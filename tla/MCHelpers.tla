------------------------------ MODULE MCHelpers ------------------------------
(* The calls to a helper and the session of a helper and a GUI share no state: a behaviour
   is one or the other, and the part at rest stays in its initial state. *)
EXTENDS PrivHelper, HelperSession
VARIABLE part
mcVars == <<vars, sessionVars, part>>

(* Two users share the machine; the first GUI may be of the build before an update. *)
MCGuis == 1..3
MCSessionOf == <<11, 12, 11>>

MCInit == /\ Init /\ SessionInit
          /\ part \in {"calls", "session"}
          /\ part # "session" => os = "linux" /\ service = "absent"
MCNext == \/ part = "calls" /\ Next /\ UNCHANGED <<sessionVars, part>>
          \/ part = "session" /\ SessionNext /\ UNCHANGED <<vars, part>>
(* No fair action is enabled in an initial state, so a part at rest satisfies its fairness. *)
MCSpec == MCInit /\ [][MCNext]_mcVars /\ Fairness /\ SessionFairness
=============================================================================
