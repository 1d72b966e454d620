----------------------------- MODULE MCLoops -----------------------------
(* The two background loops: the updater of a subscription and the tethering watcher. They
   share no state: a behaviour is one of the two, the other rests in an initial state. *)
EXTENDS SubFetch, Tethering
VARIABLE part
mcVars == <<fetchVars, tetherVars, part>>

R(body, keys, tagged) == [body |-> body, keys |-> keys, tagged |-> tagged]
MCReplies ==
    {R("mixed", {"interval"}, FALSE), R("xray", {}, FALSE),
     R("sealed", {}, TRUE), R("page", {}, FALSE)}
WithNaive == MCReplies \cup {R("naive", {}, FALSE)}
(* A filter that lets every name through, and one that suits no name of a full config. *)
MCPasses == [all |-> ProfileKinds, servers |-> {"plain", "naive"}]
MCFragment == [l \in Links |-> IF l = "a" THEN {"note"} ELSE {}]

Quiet == sub = NewSub("a", "direct", "all", TRUE, FALSE, FALSE) /\ proxyUp = FALSE /\ edits = 0
Busy == \E mode \in Modes \ {"direct"} : sub = NewSub("a", mode, "all", TRUE, TRUE, TRUE) /\ proxyUp = TRUE /\ edits = MaxEdits
Flawed == \E link \in Links, filter \in Filters :
            /\ sub = NewSub(link, "auto", filter, TRUE, FALSE, FALSE)
            /\ link # "a" \/ filter # "all"
            /\ proxyUp = FALSE /\ edits = (IF filter = "servers" /\ link = "a" THEN MaxEdits - 1 ELSE MaxEdits)
(* No tick is due, or fairness of the updater would rule the tethering behaviours out. *)
Resting == sub = NewSub("a", "direct", "all", FALSE, FALSE, FALSE) /\ proxyUp = FALSE /\ edits = 0

MCInit ==
    /\ part \in {"updater", "tethering"}
    /\ IF part = "updater" THEN Quiet \/ Busy \/ Flawed ELSE Resting
    /\ entry = NoEntry
    /\ age = Horizon
    /\ tried = Horizon
    /\ fetch = [f \in Fetchers |-> Idle]
    /\ faults = 0
    /\ TetherInit
    /\ part = "updater" => phone = CHOOSE p \in [user : UserValues, pinnable : BOOLEAN] : TRUE
MCNext ==
    /\ UNCHANGED part
    /\ \/ part = "updater" /\ FetchNext /\ UNCHANGED tetherVars
       \/ part = "tethering" /\ TetherNext /\ UNCHANGED fetchVars
MCSpec == MCInit /\ [][MCNext]_mcVars /\ FetchFairness /\ TetherFairness
=============================================================================
