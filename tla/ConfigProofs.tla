---------------------------- MODULE ConfigProofs ----------------------------
(* Proofs about RouteConfig and Egress: for any list of rules the user may  *)
(* write, any settings, connections, ports and apps, and any graph of       *)
(* outbounds.                                                               *)
EXTENDS Egress, RouteConfig, FiniteSetTheorems, WellFoundedInduction, TLAPS

-----------------------------------------------------------------------------
(* Egress.                                                                  *)

(* What preparing the config wrote for an outbound.                         *)
Prepares(t) ==
    LET o == outs[t]
        e == CASE core = "xray" -> EscapeXray(o)
               [] core = "sing-box" /\ tunMode = "bind" -> BindSingbox(o)
               [] core = "sing-box" /\ tunMode = "mark" -> MarkSingbox(o)
               [] OTHER -> Untouched
    IN  [e EXCEPT !.families = IF core = "sing-box" THEN PreserveLoopback(o) ELSE {},
                  !.strategy = IF core = "xray" THEN PinStrategy(o) ELSE o.own]

(* And the families pinned for a name.                                      *)
PinsOf(h) ==
    IF core = "xray" /\ h \notin mine /\ \E t \in OutTags : h \in PinnedOf(outs[t])
    THEN PinFamilies(h) ELSE {}

Modes ==
    /\ core \in {"xray", "sing-box"}
    /\ tunMode \in {"bind", "mark", "native"}
    /\ tunMode = "native" => core = "sing-box"
    /\ core = "sing-box" => \A t \in OutTags : outs[t].leg = "none" /\ outs[t].relay = NoTag

EgressInv ==
    /\ outs \in [OutTags -> OutShapes]
    /\ Modes
    /\ resolved \in [Names -> SUBSET {4, 6}]
    /\ Prepared => /\ \A t \in OutTags : escape[t] = Prepares(t)
                   /\ \A h \in Names : pins[h] = PinsOf(h)

LEMMA LoopbackHasFamilies ==
    ASSUME NEW o \in OutShapes, DialsOnlyLoopback(o)
    PROVE  LoopbackFamilies(o) # {}
<1>1. PICK s \in o.servers : s \in Loopback
  BY DEF DialsOnlyLoopback
<1> DEFINE F(x) == CASE x = "loop4" -> {4} [] x = "loop6" -> {6} [] x = "localhost" -> {4, 6} [] OTHER -> {}
<1>2. F(s) # {}
  BY <1>1 DEF Loopback
<1>3. F(s) \subseteq LoopbackFamilies(o)
  BY <1>1 DEF LoopbackFamilies
<1> QED
  BY <1>2, <1>3

LEMMA PreparedFields ==
    ASSUME EgressInv, Prepared, NEW t \in OutTags
    PROVE  /\ outs[t] \in OutShapes
           /\ core = "xray" => /\ escape[t].main = EscapeXray(outs[t]).main
                               /\ escape[t].leg = EscapeXray(outs[t]).leg
                               /\ escape[t].families = {}
           /\ (core = "sing-box" /\ tunMode = "bind") => escape[t].main = BindSingbox(outs[t]).main
           /\ (core = "sing-box" /\ tunMode = "mark") => escape[t].main = "marked"
           /\ tunMode = "native" => escape[t].main = "none"
           /\ core = "sing-box" => escape[t].families = PreserveLoopback(outs[t])
           /\ core = "xray" => escape[t].strategy = PinStrategy(outs[t])
<1>1. escape[t] = Prepares(t) /\ outs[t] \in OutShapes /\ Modes
  BY DEF EgressInv
<1>2. CASE core = "xray"
  <2>1. CASE OpensNoSocket(outs[t]) \/ DialsOnlyLoopback(outs[t])
    BY <1>1, <1>2, <2>1 DEF Prepares, EscapeXray, Untouched, Modes
  <2>2. CASE ~(OpensNoSocket(outs[t]) \/ DialsOnlyLoopback(outs[t]))
    BY <1>1, <1>2, <2>2 DEF Prepares, EscapeXray, Untouched, Modes
  <2> QED
    BY <2>1, <2>2
<1>3. CASE core = "sing-box" /\ tunMode = "bind"
  BY <1>1, <1>3 DEF Prepares, BindSingbox, Untouched
<1>4. CASE core = "sing-box" /\ tunMode = "mark"
  BY <1>1, <1>4 DEF Prepares, MarkSingbox, Untouched
<1>5. CASE core = "sing-box" /\ tunMode = "native"
  BY <1>1, <1>5 DEF Prepares, Untouched
<1> QED
  BY <1>1, <1>2, <1>3, <1>4, <1>5 DEF Modes

(* What was written is a function of the config and of what resolved.       *)
LEMMA PreparesStays ==
    ASSUME outs' = outs, core' = core, tunMode' = tunMode, resolved' = resolved
    PROVE  \A t \in OutTags : Prepares(t)' = Prepares(t)
<1>1. \A t \in OutTags : PinStrategy(outs[t])' = PinStrategy(outs[t])
  BY DEF PinStrategy, PinnedOf, Names
<1> HIDE DEF PinStrategy
<1> QED
  BY <1>1 DEF Prepares, EscapeXray, BindSingbox, MarkSingbox, PreserveLoopback, OpensNoSocket, DialsThrough, Way

LEMMA PinsStay ==
    ASSUME outs' = outs, core' = core, resolved' = resolved, mine' = mine
    PROVE  \A h \in Names : PinsOf(h)' = PinsOf(h)
  BY DEF PinsOf, PinnedOf, PinFamilies, Names

LEMMA EgressInvariant == EgressSpec => []EgressInv
<1>1. EgressInit => EgressInv
  BY DEF EgressInit, EgressInv, Modes, Prepared, Names
<1>2. EgressInv /\ [EgressNext]_egressVars => EgressInv'
  <2> SUFFICES ASSUME EgressInv, [EgressNext]_egressVars PROVE EgressInv'
    OBVIOUS
  <2>1. CASE EgressNext
    <3>1. outs' = outs /\ core' = core /\ tunMode' = tunMode /\ resolved' = resolved /\ mine' = mine
      BY <2>1 DEF EgressNext, Prepare
    <3>2. \A t \in OutTags : escape'[t] = Prepares(t)
      BY ONLY <2>1 DEF EgressNext, Prepare, Prepares
    <3>3. \A h \in Names : pins'[h] = PinsOf(h)
      BY ONLY <2>1 DEF EgressNext, Prepare, PinsOf
    <3>4. \A t \in OutTags : Prepares(t)' = Prepares(t)
      BY <3>1, PreparesStays
    <3>5. \A h \in Names : PinsOf(h)' = PinsOf(h)
      BY <3>1, PinsStay
    <3> QED
      BY <3>1, <3>2, <3>3, <3>4, <3>5 DEF EgressInv, Modes, Names
  <2>2. CASE UNCHANGED egressVars
    <3>1. /\ outs' = outs /\ core' = core /\ tunMode' = tunMode /\ resolved' = resolved /\ mine' = mine
          /\ escape' = escape /\ pins' = pins
      BY <2>2 DEF egressVars
    <3>2. \A t \in OutTags : Prepares(t)' = Prepares(t)
      BY <3>1, PreparesStays
    <3>3. \A h \in Names : PinsOf(h)' = PinsOf(h)
      BY <3>1, PinsStay
    <3> QED
      BY <3>1, <3>2, <3>3 DEF EgressInv, Modes, Prepared, Names
  <2> QED
    BY <2>1, <2>2
<1> QED
  BY <1>1, <1>2, PTL DEF EgressSpec

LEMMA SocketsLeave ==
    ASSUME EgressInv PROVE NothingLoops
<1> SUFFICES ASSUME Prepared, NEW t \in OutTags, DialsRemote(outs[t])
             PROVE  /\ \/ DialsThrough(outs[t]) \/ escape[t].main # "none"
                       \/ tunMode = "native" /\ OnDevice(t)
                    /\ outs[t].leg = "remote" => escape[t].leg # "none"
  BY DEF NothingLoops
<1>1. CASE core = "xray"
  BY <1>1, PreparedFields DEF EscapeXray, Untouched, Way, DialsRemote
<1>2. CASE core = "sing-box"
  <2>1. outs[t].leg # "remote"
    BY <1>2 DEF EgressInv, Modes
  <2>2. CASE tunMode = "bind"
    BY <1>2, <2>1, <2>2, PreparedFields DEF BindSingbox, Untouched, DialsRemote
  <2>3. CASE tunMode = "mark"
    BY <1>2, <2>1, <2>3, PreparedFields
  <2>4. CASE tunMode = "native"
    BY <1>2, <2>1, <2>4, PreparedFields DEF OnDevice, PreserveLoopback, DialsRemote
  <2> QED
    BY <2>2, <2>3, <2>4 DEF EgressInv, Modes
<1> QED
  BY <1>1, <1>2 DEF EgressInv, Modes

LEMMA RelaysStayReachable ==
    ASSUME EgressInv PROVE LocalRelayReachable
<1> SUFFICES ASSUME Prepared, NEW t \in OutTags, DialsOnlyLoopback(outs[t]),
                    ~DialsThrough(outs[t]), ~OpensNoSocket(outs[t])
             PROVE  /\ escape[t].main # "bound"
                    /\ core = "sing-box" => /\ escape[t].families = LoopbackFamilies(outs[t])
                                            /\ escape[t].families # {}
  BY DEF LocalRelayReachable
<1>1. CASE core = "xray"
  BY <1>1, PreparedFields DEF EscapeXray, Untouched
<1>2. CASE core = "sing-box"
  <2>1. escape[t].families = LoopbackFamilies(outs[t])
    BY <1>2, PreparedFields DEF PreserveLoopback
  <2>2. escape[t].families # {}
    BY <2>1, PreparedFields, LoopbackHasFamilies
  <2>3. escape[t].main # "bound"
    BY <1>2, PreparedFields DEF BindSingbox, Untouched, EgressInv, Modes
  <2> QED
    BY <2>1, <2>2, <2>3
<1> QED
  BY <1>1, <1>2 DEF EgressInv, Modes

(* An outbound asks for a family of each of its pins, also when its servers *)
(* resolved to different ones.                                              *)
LEMMA StrategyFitsPins ==
    ASSUME EgressInv, NEW o \in OutShapes, o.own = "none", NEW h \in PinnedOf(o)
    PROVE  Asks(PinStrategy(o)) \cap PinFamilies(h) # {}
<1>1. h \in Names /\ resolved[h] # {} /\ resolved[h] \subseteq {4, 6}
  BY DEF PinnedOf, EgressInv
<1>2. PinnedOf(o) # {}
  OBVIOUS
<1>3. CASE \A k \in PinnedOf(o) : 4 \in resolved[k]
  <2>1. PinStrategy(o) = "UseIPv4" /\ PinFamilies(h) = {4}
    BY <1>2, <1>3 DEF PinStrategy, PinFamilies
  <2> QED
    BY <2>1 DEF Asks
<1>4. CASE \A k \in PinnedOf(o) : 4 \notin resolved[k]
  <2>1. PinStrategy(o) = "UseIPv6"
    BY <1>2, <1>4 DEF PinStrategy
  <2>2. 6 \in PinFamilies(h)
    BY <1>1, <1>4 DEF PinFamilies
  <2> QED
    BY <2>1, <2>2 DEF Asks
<1>5. CASE ~(\A k \in PinnedOf(o) : 4 \in resolved[k]) /\ ~(\A k \in PinnedOf(o) : 4 \notin resolved[k])
  <2>1. PinStrategy(o) = "UseIP"
    BY <1>2, <1>5 DEF PinStrategy
  <2>2. 4 \in PinFamilies(h) \/ 6 \in PinFamilies(h)
    BY <1>1 DEF PinFamilies
  <2> QED
    BY <2>1, <2>2 DEF Asks
<1> QED
  BY <1>3, <1>4, <1>5

LEMMA DomainsPinned ==
    ASSUME EgressInv PROVE DomainServersArePinned
<1> SUFFICES ASSUME Prepared, core = "xray", NEW t \in OutTags, NEW h \in outs[t].servers \cap Names,
                    outs[t].own = "none", h \notin mine
             PROVE  AnsweredByPin(t, h) <=> (resolved[h] # {} /\ outs[t].at \in {"vnext", "servers"})
  BY DEF DomainServersArePinned
<1>1. outs[t] \in OutShapes /\ escape[t].strategy = PinStrategy(outs[t]) /\ pins[h] = PinsOf(h)
  BY PreparedFields DEF EgressInv
<1>2. h \in PinnedOf(outs[t]) <=> (resolved[h] # {} /\ outs[t].at \in {"vnext", "servers"})
  BY DEF PinnedOf
<1>3. CASE h \in PinnedOf(outs[t])
  <2>1. pins[h] = PinFamilies(h)
    BY <1>1, <1>3 DEF PinsOf
  <2> QED
    BY <1>1, <1>2, <1>3, <2>1, StrategyFitsPins DEF AnsweredByPin
<1>4. CASE h \notin PinnedOf(outs[t])
  <2>1. CASE resolved[h] = {}
    <3>1. pins[h] = {}
      BY <1>1, <2>1 DEF PinsOf, PinnedOf
    <3> QED
      BY <1>2, <1>4, <3>1 DEF AnsweredByPin
  <2>2. CASE resolved[h] # {}
    <3>1. PinnedOf(outs[t]) = {}
      BY <1>2, <1>4, <2>2 DEF PinnedOf
    <3>2. escape[t].strategy = "none"
      <4>1. PinStrategy(outs[t]) = outs[t].own
        BY <3>1 DEF PinStrategy
      <4> QED
        BY <1>1, <4>1
    <3>3. Asks(escape[t].strategy) = {}
      BY <3>2 DEF Asks
    <3> QED
      BY <1>2, <1>4, <3>3 DEF AnsweredByPin
  <2> QED
    BY <2>1, <2>2
<1> QED
  BY <1>3, <1>4

(* A core's own sockets pass the tun by: whatever the graph of outbounds,   *)
(* what dials the network is bound, marked or on the detected device,       *)
(* relays on this machine stay reachable, and the name of an Xray server is *)
(* answered by a pin of a family its outbound asks for exactly when it      *)
(* resolved and stands under `vnext` or `servers`.                          *)
THEOREM SocketsPassTun == EgressSpec => []EgressPassesTun
<1>1. EgressInv => EgressPassesTun
  BY SocketsLeave, RelaysStayReachable, DomainsPinned DEF EgressPassesTun
<1> QED
  BY <1>1, EgressInvariant, PTL

-----------------------------------------------------------------------------
(* RouteConfig: the first entry of a kind in a list of lists.               *)

(* A nonempty set of positions has a first; by the well-foundedness of the  *)
(* subset order, as no theorem of induction can be applied.                 *)
LEMMA LeastOf ==
  ASSUME NEW n \in Nat, NEW A \in SUBSET (1 .. n), A # {}
  PROVE  \E k \in A : \A j \in A : k <= j
  <1> DEFINE T == {1 .. k : k \in A}
             S == SUBSET (1 .. n)
  <1>1. IsWellFoundedOn(StrictSubsetOrdering(1 .. n), S)
    <2>1. IsFiniteSet(1 .. n)
      BY FS_Interval
    <2>2. FiniteSubsetsOf(1 .. n) = S
      BY <2>1, FS_Subset DEF FiniteSubsetsOf
    <2> QED
      BY <2>2, FS_StrictSubsetOrderingWellFounded
  <1>2. T \subseteq S /\ T # {}
    <2>1. \A k \in A : k \in Nat /\ k <= n
      OBVIOUS
    <2>2. \A k \in A : 1 .. k \in S
      BY <2>1
    <2>3. PICK k \in A : TRUE
      OBVIOUS
    <2> QED
      BY <2>2, <2>3
  <1>3. PICK m \in T : \A y \in T : <<y, m>> \notin StrictSubsetOrdering(1 .. n)
    <2> HIDE DEF T, S
    <2> QED
      BY <1>1, <1>2, WFMin
  <1>4. PICK k \in A : m = 1 .. k
    BY <1>3
  <1>5. ASSUME NEW j \in A, j < k
        PROVE FALSE
    <2>1. 1 .. j \in T
      OBVIOUS
    <2>2. (1 .. j) \subseteq (1 .. k) /\ 1 .. j # 1 .. k
      BY <1>5
    <2>3. <<1 .. j, 1 .. k>> \in StrictSubsetOrdering(1 .. n)
      BY <2>2, <1>5 DEF StrictSubsetOrdering
    <2> QED
      BY <1>3, <1>4, <2>1, <2>3
  <1> QED
    BY <1>5

LEMMA FirstIsLeast ==
  ASSUME NEW n \in Nat, NEW hits \in SUBSET (1 .. n), hits # {}
  PROVE  First(hits) \in hits /\ \A j \in hits : First(hits) <= j
<1>1. \E k \in hits : \A j \in hits : k <= j
  BY LeastOf
<1> QED
  BY <1>1 DEF First

LEMMA FirstIs ==
  ASSUME NEW hits \in SUBSET Nat, NEW k \in hits, \A j \in hits : k <= j
  PROVE  First(hits) = k
<1>1. First(hits) \in hits /\ \A j \in hits : First(hits) <= j
  BY DEF First
<1>2. First(hits) \in Nat /\ k \in Nat /\ First(hits) <= k /\ k <= First(hits)
  BY <1>1
<1> QED
  BY <1>2

(* The joined prefixes of a list of lists.                                  *)
Prefixes(parts, T, f) ==
    /\ f \in [0..Len(parts) -> Seq(T)]
    /\ f[0] = <<>>
    /\ \A n \in 1..Len(parts) : f[n] = f[n - 1] \o parts[n]

LEMMA PrefixesExist ==
  ASSUME NEW T, NEW parts \in Seq(Seq(T))
  PROVE  \E f : Prefixes(parts, T, f) /\ Concat(parts) = f[Len(parts)]
<1> DEFINE N == Len(parts)
           Step(f, n) == f = [k \in 0..n |-> IF k = 0 THEN <<>> ELSE f[k - 1] \o parts[k]]
           Bad == {n \in 1..N : ~\E f : Step(f, n)}
<1>0. N \in Nat /\ \A k \in 1..N : parts[k] \in Seq(T)
  OBVIOUS
<1>a. Bad \subseteq 1..N /\ \A n \in 1..N : n \in Bad <=> ~\E f : Step(f, n)
  OBVIOUS
<1> HIDE DEF N, Bad
<1>1. \E f : Step(f, 0)
  <2>1. Step([k \in 0..0 |-> <<>>], 0)
    OBVIOUS
  <2> QED
    BY <2>1
<1>2. Bad = {}
  <2> SUFFICES ASSUME Bad # {} PROVE FALSE
    OBVIOUS
  <2>1. PICK m \in Bad : \A j \in Bad : m <= j
    BY <1>0, <1>a, LeastOf
  <2>2. m \in 1..N /\ m - 1 \in 0..N /\ m - 1 \notin Bad
    BY <1>0, <1>a, <2>1
  <2>3. PICK f : Step(f, m - 1)
    <3>1. CASE m = 1
      BY <1>1, <3>1
    <3>2. CASE m # 1
      <4>1. m - 1 \in 1..N
        BY <1>0, <2>2, <3>2
      <4> HIDE DEF Step
      <4> QED
        BY <1>a, <2>2, <4>1
    <3> QED
      BY <3>1, <3>2
  <2> DEFINE g == [k \in 0..m |-> IF k = m THEN f[m - 1] \o parts[m] ELSE f[k]]
  <2>4. \A k \in 0..m : g[k] = IF k = 0 THEN <<>> ELSE g[k - 1] \o parts[k]
    <3> SUFFICES ASSUME NEW k \in 0..m PROVE g[k] = IF k = 0 THEN <<>> ELSE g[k - 1] \o parts[k]
      OBVIOUS
    <3>0. m \in Nat /\ m # 0 /\ k \in Nat
      BY <1>0, <2>2
    <3>1. CASE k = m
      <4>1. g[k] = f[m - 1] \o parts[m]
        BY <3>0, <3>1
      <4>2. g[k - 1] = f[m - 1] /\ k # 0
        BY <3>0, <3>1
      <4> QED
        BY <3>1, <4>1, <4>2
    <3>2. CASE k # m
      <4>1. k \in 0..(m - 1)
        BY <3>0, <3>2
      <4>2. f[k] = IF k = 0 THEN <<>> ELSE f[k - 1] \o parts[k]
        BY <2>3, <4>1
      <4>3. g[k] = f[k] /\ (k # 0 => g[k - 1] = f[k - 1])
        BY <3>0, <3>2, <4>1
      <4> QED
        BY <4>2, <4>3
    <3> QED
      BY <3>1, <3>2
  <2>5. Step(g, m)
    BY <2>4
  <2> QED
    BY <1>a, <2>2, <2>1, <2>5
<1>3. \E f : Step(f, N)
  <2>1. CASE N = 0
    BY <1>1, <2>1
  <2>2. CASE N # 0
    <3>1. N \in 1..N
      BY <1>0, <2>2
    <3> HIDE DEF Step
    <3> QED
      BY <1>a, <1>2, <3>1
  <2> QED
    BY <2>1, <2>2
<1> DEFINE F == CHOOSE f : Step(f, N)
<1>4. Step(F, N)
  BY <1>3
<1>5. Concat(parts) = F[N]
  BY DEF Concat, N
<1> HIDE DEF F
<1>6. F[0] = <<>> /\ \A n \in 1..N : F[n] = F[n - 1] \o parts[n]
  <2>1. \A n \in 0..N : F[n] = IF n = 0 THEN <<>> ELSE F[n - 1] \o parts[n]
    BY <1>4
  <2>2. 0 \in 0..N /\ \A n \in 1..N : n \in 0..N /\ n # 0
    BY <1>0
  <2> QED
    BY ONLY <2>1, <2>2
<1>7. \A n \in 0..N : F[n] \in Seq(T)
  <2> DEFINE Wrong == {n \in 1..N : F[n] \notin Seq(T)}
  <2>0. Wrong \subseteq 1..N /\ \A n \in 1..N : n \in Wrong <=> F[n] \notin Seq(T)
    OBVIOUS
  <2>a. F[0] \in Seq(T)
    BY <1>6
  <2> HIDE DEF Wrong
  <2>1. ASSUME Wrong # {} PROVE FALSE
    <3>1. PICK m \in Wrong : \A j \in Wrong : m <= j
      BY <1>0, <2>0, <2>1, LeastOf
    <3>2. m \in 1..N /\ m - 1 \in 0..N /\ m - 1 \notin Wrong
      BY <1>0, <2>0, <3>1
    <3>3. F[m - 1] \in Seq(T)
      BY <1>0, <2>0, <2>a, <3>2
    <3>4. F[m] = F[m - 1] \o parts[m] /\ parts[m] \in Seq(T)
      BY <1>0, <1>6, <3>2
    <3>5. F[m] \in Seq(T)
      BY ONLY <3>3, <3>4
    <3> QED
      BY <2>0, <3>2, <3>5, <3>1
  <2> QED
    BY <1>0, <2>0, <2>a, <2>1
<1>8. F \in [0..N -> Seq(T)]
  <2>1. F = [k \in 0..N |-> IF k = 0 THEN <<>> ELSE F[k - 1] \o parts[k]]
    BY <1>4
  <2> QED
    BY <1>7, <2>1
<1>9. Prefixes(parts, T, F)
  BY <1>6, <1>8 DEF Prefixes, N
<1> QED
  BY <1>5, <1>9 DEF N

(* The first entry of a kind in a list of lists is in the first list that   *)
(* holds one.                                                               *)
Entries(s, M) == {k \in 1..Len(s) : s[k] \in M}
FirstEntry(s, M) == s[First(Entries(s, M))]
RowsTo(parts, n, M) == {r \in 1..n : Entries(parts[r], M) # {}}

(* Positions of a list of two parts.                                        *)
Shifted(m, n, A, B, H) ==
    /\ m \in Nat /\ n \in Nat /\ A \in SUBSET (1..m) /\ B \in SUBSET (1..n) /\ H \subseteq 1..(m + n)
    /\ \A k \in 1..m : k \in H <=> k \in A
    /\ \A k \in 1..n : m + k \in H <=> k \in B

LEMMA FirstOfShifted ==
  ASSUME NEW m, NEW n, NEW A, NEW B, NEW H, Shifted(m, n, A, B, H)
  PROVE  /\ H = {} <=> A = {} /\ B = {}
         /\ A # {} => First(H) = First(A) /\ First(A) \in A
         /\ (A = {} /\ B # {}) => First(H) = m + First(B) /\ First(B) \in B
<1>0. /\ m \in Nat /\ n \in Nat /\ A \in SUBSET (1..m) /\ B \in SUBSET (1..n) /\ H \subseteq 1..(m + n)
      /\ \A k \in 1..m : k \in H <=> k \in A
      /\ \A k \in 1..n : m + k \in H <=> k \in B
  BY DEF Shifted
<1>1. \A k \in H : k \in 1..m \/ (k - m \in 1..n /\ k = m + (k - m))
  BY <1>0
<1>2. H = {} <=> A = {} /\ B = {}
  BY <1>0, <1>1
<1>3. ASSUME A # {} PROVE First(H) = First(A) /\ First(A) \in A
  <2>1. PICK e \in A : e = First(A) /\ \A j \in A : e <= j
    BY <1>0, <1>3, FirstIsLeast
  <2>2. e \in H /\ e \in 1..m
    BY <1>0, <2>1
  <2>3. ASSUME NEW j \in H PROVE e <= j
    <3>1. CASE j \in 1..m
      BY <1>0, <2>1, <3>1
    <3>2. CASE j \notin 1..m
      <4>1. j \in Nat /\ j > m
        BY <1>0, <3>2
      <4> QED
        BY <1>0, <2>2, <4>1
    <3> QED
      BY <1>0, <3>1, <3>2
  <2>4. H \in SUBSET Nat
    BY <1>0
  <2> QED
    BY <1>0, <2>1, <2>2, <2>3, <2>4, FirstIs
<1>4. ASSUME A = {}, B # {} PROVE First(H) = m + First(B) /\ First(B) \in B
  <2>1. PICK e \in B : e = First(B) /\ \A j \in B : e <= j
    BY <1>0, <1>4, FirstIsLeast
  <2>2. m + e \in H /\ e \in Nat
    BY <1>0, <2>1
  <2>3. ASSUME NEW j \in H PROVE m + e <= j
    <3>1. j - m \in 1..n /\ j = m + (j - m)
      BY <1>0, <1>1, <1>4
    <3>2. j - m \in B
      BY <1>0, <3>1
    <3>3. e <= j - m
      BY <1>0, <2>1, <3>2
    <3> QED
      BY <1>0, <2>2, <3>1, <3>3
  <2>4. H \in SUBSET Nat
    BY <1>0
  <2> QED
    BY <1>0, <2>1, <2>2, <2>3, <2>4, FirstIs
<1> QED
  BY <1>0, <1>2, <1>3, <1>4

LEMMA FirstOfJoined ==
  ASSUME NEW T, NEW a \in Seq(T), NEW b \in Seq(T), NEW M
  PROVE  /\ Entries(a \o b, M) = {} <=> Entries(a, M) = {} /\ Entries(b, M) = {}
         /\ Entries(a, M) # {} => FirstEntry(a \o b, M) = FirstEntry(a, M)
         /\ (Entries(a, M) = {} /\ Entries(b, M) # {}) => FirstEntry(a \o b, M) = FirstEntry(b, M)
<1> DEFINE m == Len(a)
           n == Len(b)
           ab == a \o b
<1>1. /\ m \in Nat /\ n \in Nat /\ Len(ab) = m + n
      /\ \A k \in 1..m : k \in 1..(m + n) /\ ab[k] = a[k]
      /\ \A k \in 1..n : m + k \in 1..(m + n) /\ ab[m + k] = b[k]
  OBVIOUS
<1> HIDE DEF m, n, ab
<1> DEFINE A == Entries(a, M)
           B == Entries(b, M)
           H == Entries(ab, M)
<1>2. H \subseteq 1..(m + n) /\ A \in SUBSET (1..m) /\ B \in SUBSET (1..n)
  BY <1>1 DEF Entries, m, n
<1>3. /\ \A k \in 1..m : k \in H <=> k \in A
      /\ \A k \in 1..n : m + k \in H <=> k \in B
  BY <1>1 DEF Entries, m, n
<1> HIDE DEF A, B, H
<1>4. /\ H = {} <=> A = {} /\ B = {}
      /\ A # {} => First(H) = First(A) /\ First(A) \in A
      /\ (A = {} /\ B # {}) => First(H) = m + First(B) /\ First(B) \in B
  BY <1>1, <1>2, <1>3, FirstOfShifted DEF Shifted
<1>5. /\ FirstEntry(ab, M) = ab[First(H)]
      /\ FirstEntry(a, M) = a[First(A)]
      /\ FirstEntry(b, M) = b[First(B)]
  BY DEF FirstEntry, A, B, H
<1>6. /\ A # {} => FirstEntry(ab, M) = FirstEntry(a, M)
      /\ (A = {} /\ B # {}) => FirstEntry(ab, M) = FirstEntry(b, M)
  BY <1>1, <1>2, <1>4, <1>5
<1> QED
  BY <1>4, <1>6 DEF ab, A, B, H

LEMMA FirstOfConcat ==
  ASSUME NEW T, NEW parts \in Seq(Seq(T)), NEW M
  PROVE  LET rows == RowsTo(parts, Len(parts), M)
         IN  /\ Concat(parts) \in Seq(T)
             /\ Entries(Concat(parts), M) = {} <=> rows = {}
             /\ rows # {} => FirstEntry(Concat(parts), M) = FirstEntry(parts[First(rows)], M)
<1> DEFINE N == Len(parts)
<1>0. N \in Nat /\ \A k \in 1..N : parts[k] \in Seq(T)
  OBVIOUS
<1>1. PICK f : Prefixes(parts, T, f) /\ Concat(parts) = f[N]
  BY PrefixesExist
<1>2. /\ \A n \in 0..N : f[n] \in Seq(T)
      /\ f[0] = <<>>
      /\ \A n \in 1..N : f[n] = f[n - 1] \o parts[n]
  BY <1>1 DEF Prefixes
<1> DEFINE R(n) == RowsTo(parts, n, M)
           Good(n) == /\ Entries(f[n], M) = {} <=> R(n) = {}
                      /\ R(n) # {} => FirstEntry(f[n], M) = FirstEntry(parts[First(R(n))], M)
           Bad == {n \in 1..N : ~Good(n)}
<1>a. Bad \subseteq 1..N /\ \A n \in 1..N : n \in Bad <=> ~Good(n)
  OBVIOUS
<1> HIDE DEF N, Bad
<1>3. Good(0)
  BY <1>2 DEF Entries, RowsTo
<1>4. ASSUME NEW n \in 1..N, Good(n - 1) PROVE Good(n)
  <2>0. n \in Nat /\ n # 0 /\ n - 1 \in 0..N /\ n \in 0..N
    BY <1>0
  <2>1. /\ f[n - 1] \in Seq(T) /\ parts[n] \in Seq(T)
        /\ f[n] = f[n - 1] \o parts[n]
    BY <1>0, <1>2, <2>0
  <2>2. /\ Entries(f[n], M) = {} <=> Entries(f[n - 1], M) = {} /\ Entries(parts[n], M) = {}
        /\ Entries(f[n - 1], M) # {} => FirstEntry(f[n], M) = FirstEntry(f[n - 1], M)
        /\ (Entries(f[n - 1], M) = {} /\ Entries(parts[n], M) # {}) =>
               FirstEntry(f[n], M) = FirstEntry(parts[n], M)
    <3> DEFINE a == f[n - 1]
               b == parts[n]
    <3>1. a \in Seq(T) /\ b \in Seq(T) /\ f[n] = a \o b
      BY <2>1
    <3> HIDE DEF a, b
    <3>2. /\ Entries(a \o b, M) = {} <=> Entries(a, M) = {} /\ Entries(b, M) = {}
          /\ Entries(a, M) # {} => FirstEntry(a \o b, M) = FirstEntry(a, M)
          /\ (Entries(a, M) = {} /\ Entries(b, M) # {}) => FirstEntry(a \o b, M) = FirstEntry(b, M)
      BY <3>1, FirstOfJoined
    <3> QED
      BY <3>1, <3>2 DEF a, b
  <2>3. R(n) = R(n - 1) \cup (IF Entries(parts[n], M) = {} THEN {} ELSE {n})
    BY <2>0 DEF RowsTo
  <2>4. R(n - 1) \subseteq 1..(n - 1)
    BY DEF RowsTo
  <2>5. CASE R(n - 1) # {}
    <3>0. n - 1 \in Nat
      BY <2>0
    <3> HIDE DEF R
    <3>1. First(R(n - 1)) \in R(n - 1) /\ \A j \in R(n - 1) : First(R(n - 1)) <= j
      BY <3>0, <2>4, <2>5, FirstIsLeast
    <3>2. R(n) \subseteq Nat /\ First(R(n - 1)) \in R(n) /\ \A j \in R(n) : First(R(n - 1)) <= j
      BY <2>0, <2>3, <2>4, <3>1
    <3>3. First(R(n)) = First(R(n - 1))
      BY <3>2, FirstIs
    <3> QED
      BY <1>4, <2>2, <2>3, <2>5, <3>3
  <2>6. CASE R(n - 1) = {}
    <3>1. CASE Entries(parts[n], M) = {}
      BY <1>4, <2>2, <2>3, <2>6, <3>1
    <3>2. CASE Entries(parts[n], M) # {}
      <4>1. R(n) = {n}
        BY <2>3, <2>6, <3>2
      <4>2. First(R(n)) = n
        BY <4>1, <2>0, FirstIs
      <4> HIDE DEF R
      <4> QED
        BY <1>4, <2>2, <4>1, <4>2, <2>6, <3>2
    <3> QED
      BY <3>1, <3>2
  <2> QED
    BY <2>5, <2>6
<1>5. Good(N)
  <2> HIDE DEF Good
  <2>1. ASSUME Bad # {} PROVE FALSE
    <3>1. PICK m \in Bad : \A j \in Bad : m <= j
      BY <1>0, <1>a, <2>1, LeastOf
    <3>2. m \in 1..N /\ (m = 1 \/ m - 1 \in 1..N) /\ m - 1 \notin Bad
      BY <1>0, <1>a, <3>1
    <3>3. Good(m - 1)
      <4>1. CASE m = 1
        BY <1>3, <4>1
      <4>2. CASE m # 1
        BY <1>a, <3>2, <4>2
      <4> QED
        BY <4>1, <4>2
    <3>4. Good(m)
      BY <1>4, <3>2, <3>3
    <3> QED
      BY <1>a, <3>1, <3>4
  <2> QED
    BY <1>0, <1>3, <1>a, <2>1
<1>6. N \in 0..N
  BY <1>0
<1> QED
  BY <1>1, <1>2, <1>5, <1>6 DEF N

LEMMA FirstPart ==
  ASSUME NEW T, NEW parts \in Seq(Seq(T)), NEW M
  PROVE  LET rows == RowsTo(parts, Len(parts), M)
         IN  /\ Concat(parts) \in Seq(T)
             /\ Entries(Concat(parts), M) = {} <=> rows = {}
             /\ rows # {} => /\ First(rows) \in rows
                            /\ \E j \in 1..Len(parts[First(rows)]) :
                                   FirstEntry(Concat(parts), M) = parts[First(rows)][j]
<1> DEFINE N == Len(parts)
           rows == RowsTo(parts, N, M)
<1>1. N \in Nat /\ \A k \in 1..N : parts[k] \in Seq(T)
  OBVIOUS
<1>2. rows \in SUBSET (1..N)
  BY DEF RowsTo
<1>3. ASSUME rows # {}
      PROVE  First(rows) \in rows /\ \E j \in 1..Len(parts[First(rows)]) :
                FirstEntry(parts[First(rows)], M) = parts[First(rows)][j]
  <2>1. First(rows) \in rows
    <3> HIDE DEF rows, N
    <3> QED
      BY <1>1, <1>2, <1>3, FirstIsLeast
  <2>2. PICK p : p = parts[First(rows)] /\ p \in Seq(T) /\ Entries(p, M) # {}
    BY <1>1, <1>2, <2>1 DEF RowsTo
  <2>3. Entries(p, M) \in SUBSET (1..Len(p)) /\ Len(p) \in Nat
    BY <2>2 DEF Entries
  <2>4. First(Entries(p, M)) \in 1..Len(p)
    BY <2>2, <2>3, FirstIsLeast
  <2> QED
    BY <2>1, <2>2, <2>4 DEF FirstEntry
<1> QED
  BY <1>3, FirstOfConcat

(* What sing-box says of a connection on a part of its route, by whether    *)
(* the address is known ("yes") where the part begins.                      *)
Heard(s, c, known) ==
    {k \in 1..Len(s) :
        /\ s[k].act # "resolve"
        /\ SbMatches(s[k], c, known = "yes" \/ \E j \in 1..(k - 1) : s[j].act = "resolve")}
HeardAct(s, c, known) == s[First(Heard(s, c, known))].act
Silent(s, c, known) == Heard(s, c, known) = {}
Resolves(s) == \E j \in 1..Len(s) : s[j].act = "resolve"

LEMMA MatchNeedsKnown ==
  ASSUME NEW r, NEW c, NEW p, NEW q, p <=> q
  PROVE  SbMatches(r, c, p) <=> SbMatches(r, c, q)
BY DEF SbMatches

LEMMA HeardJoined ==
  ASSUME NEW T, NEW a \in Seq(T), NEW b \in Seq(T), NEW c, NEW known, NEW later,
         later = "yes" <=> known = "yes" \/ Resolves(a)
  PROVE  /\ Resolves(a \o b) <=> Resolves(a) \/ Resolves(b)
         /\ Silent(a \o b, c, known) <=> Silent(a, c, known) /\ Silent(b, c, later)
         /\ ~Silent(a, c, known) => HeardAct(a \o b, c, known) = HeardAct(a, c, known)
         /\ (Silent(a, c, known) /\ ~Silent(b, c, later)) =>
                HeardAct(a \o b, c, known) = HeardAct(b, c, later)
<1> DEFINE m == Len(a)
           n == Len(b)
           ab == a \o b
<1>1. /\ m \in Nat /\ n \in Nat /\ Len(ab) = m + n
      /\ \A k \in 1..m : k \in 1..(m + n) /\ ab[k] = a[k]
      /\ \A k \in 1..n : m + k \in 1..(m + n) /\ ab[m + k] = b[k]
  OBVIOUS
<1> HIDE DEF m, n, ab
<1> DEFINE A == Heard(a, c, known)
           B == Heard(b, c, later)
           H == Heard(ab, c, known)
<1>2. H \subseteq 1..(m + n) /\ A \in SUBSET (1..m) /\ B \in SUBSET (1..n)
  BY <1>1 DEF Heard, m, n
<1>a. Resolves(ab) <=> Resolves(a) \/ Resolves(b)
  <2>1. \A k \in 1..(m + n) : k \in 1..m \/ (k - m \in 1..n /\ k = m + (k - m))
    BY <1>1
  <2>2. /\ Resolves(ab) <=> \E k \in 1..(m + n) : ab[k].act = "resolve"
        /\ Resolves(a) <=> \E k \in 1..m : a[k].act = "resolve"
        /\ Resolves(b) <=> \E k \in 1..n : b[k].act = "resolve"
    BY <1>1 DEF Resolves, m, n
  <2>3. ASSUME NEW k \in 1..(m + n), ab[k].act = "resolve"
        PROVE  Resolves(a) \/ Resolves(b)
    <3>1. CASE k \in 1..m
      BY <1>1, <2>2, <2>3, <3>1
    <3>2. CASE k \notin 1..m
      <4>1. k - m \in 1..n /\ ab[k] = b[k - m]
        BY <1>1, <2>1, <3>2
      <4> QED
        BY <2>2, <2>3, <4>1
    <3> QED
      BY <3>1, <3>2
  <2>4. Resolves(a) \/ Resolves(b) => Resolves(ab)
    BY <1>1, <2>2
  <2> QED
    BY <2>2, <2>3, <2>4
<1>3. ASSUME NEW k \in 1..m PROVE k \in H <=> k \in A
  <2>1. \A j \in 1..(k - 1) : ab[j] = a[j]
    BY <1>1
  <2>2. (known = "yes" \/ \E j \in 1..(k - 1) : ab[j].act = "resolve") <=> (known = "yes" \/ \E j \in 1..(k - 1) : a[j].act = "resolve")
    BY <2>1
  <2> DEFINE p == known = "yes" \/ \E j \in 1..(k - 1) : ab[j].act = "resolve"
             q == known = "yes" \/ \E j \in 1..(k - 1) : a[j].act = "resolve"
  <2>3. SbMatches(a[k], c, p) <=> SbMatches(a[k], c, q)
    <3>1. p <=> q
      BY <2>2
    <3> HIDE DEF p, q
    <3> QED
      BY <3>1, MatchNeedsKnown
  <2>4. k \in H <=> a[k].act # "resolve" /\ SbMatches(a[k], c, p)
    BY <1>1 DEF Heard
  <2>5. k \in A <=> a[k].act # "resolve" /\ SbMatches(a[k], c, q)
    BY <1>1 DEF Heard, m
  <2> QED
    BY <2>3, <2>4, <2>5
<1>4. ASSUME NEW k \in 1..n PROVE m + k \in H <=> k \in B
  <2> DEFINE p == known = "yes" \/ \E j \in 1..(m + k - 1) : ab[j].act = "resolve"
             q == later = "yes" \/ \E j \in 1..(k - 1) : b[j].act = "resolve"
  <2>1. p <=> q
    <3>1. \A j \in 1..(m + k - 1) : (j \in 1..m /\ ab[j] = a[j]) \/ (j - m \in 1..(k - 1) /\ ab[j] = b[j - m])
      <4> SUFFICES ASSUME NEW j \in 1..(m + k - 1), j \notin 1..m
                   PROVE  j - m \in 1..(k - 1) /\ ab[j] = b[j - m]
        BY <1>1
      <4>1. j - m \in 1..(k - 1) /\ j - m \in 1..n /\ m + (j - m) = j
        BY <1>1
      <4> QED
        BY <1>1, <4>1
    <3>2. \A j \in 1..m : j \in 1..(m + k - 1) /\ ab[j] = a[j]
      BY <1>1
    <3>3. \A j \in 1..(k - 1) : m + j \in 1..(m + k - 1) /\ ab[m + j] = b[j]
      BY <1>1
    <3>4. Resolves(a) <=> \E j \in 1..m : a[j].act = "resolve"
      BY DEF Resolves, m
    <3>5. ASSUME NEW j \in 1..(m + k - 1), ab[j].act = "resolve" PROVE q
      BY <3>1, <3>4, <3>5
    <3>6. ASSUME NEW j \in 1..m, a[j].act = "resolve" PROVE p
      BY <3>2, <3>6
    <3>7. ASSUME NEW j \in 1..(k - 1), b[j].act = "resolve" PROVE p
      BY <3>3, <3>7
    <3> QED
      BY <3>4, <3>5, <3>6, <3>7
  <2>2. SbMatches(b[k], c, p) <=> SbMatches(b[k], c, q)
    <3> HIDE DEF p, q
    <3> QED
      BY <2>1, MatchNeedsKnown
  <2>3. m + k \in H <=> b[k].act # "resolve" /\ SbMatches(b[k], c, p)
    BY <1>1 DEF Heard
  <2>4. k \in B <=> b[k].act # "resolve" /\ SbMatches(b[k], c, q)
    BY <1>1 DEF Heard, n
  <2> QED
    BY <2>2, <2>3, <2>4
<1> HIDE DEF A, B, H
<1>5. /\ H = {} <=> A = {} /\ B = {}
      /\ A # {} => First(H) = First(A) /\ First(A) \in A
      /\ (A = {} /\ B # {}) => First(H) = m + First(B) /\ First(B) \in B
  BY <1>1, <1>2, <1>3, <1>4, FirstOfShifted DEF Shifted
<1>6. /\ HeardAct(ab, c, known) = ab[First(H)].act
      /\ HeardAct(a, c, known) = a[First(A)].act
      /\ HeardAct(b, c, later) = b[First(B)].act
  BY DEF HeardAct, A, B, H
<1>7. /\ A # {} => HeardAct(ab, c, known) = HeardAct(a, c, known)
      /\ (A = {} /\ B # {}) => HeardAct(ab, c, known) = HeardAct(b, c, later)
  BY <1>1, <1>2, <1>5, <1>6
<1> QED
  BY <1>a, <1>5, <1>7 DEF ab, A, B, H, Silent

(* The sing-box rules of a user's rule.                                     *)
SbRules ==
    [act : {"direct", "proxy", "reject"}, inb : {AnyInb}, dom : SUBSET {"d1", "d2"},
     ip : SUBSET Regions, inv : BOOLEAN, bare : BOOLEAN, ports : SUBSET (Ports \X Ports),
     net : SUBSET AnyNet, app : SUBSET Apps]

LEMMA ShapeFields ==
  ASSUME NEW r \in RuleShapes
  PROVE  /\ r.out \in {"direct", "proxy", "block"}
         /\ r.dom \subseteq {"d1", "d2", "#", "ext"}
         /\ r.ip \subseteq Regions \cup {"!cn", "ext"}
         /\ r.ports \subseteq Ports \X Ports /\ r.net \subseteq {"tcp", "udp"} /\ r.app \subseteq {"app"}
BY RulesAssumption

LEMMA BaseFields ==
  ASSUME NEW r \in RuleShapes
  PROVE  LET b == BaseRule(r)
         IN  /\ b \in SbRules
             /\ b.act = Verdict(r) /\ b.dom = {} /\ b.ip = {} /\ b.inv = FALSE /\ b.inb = AnyInb
             /\ b.bare <=> r.ports = {} /\ r.net = {} /\ r.app = {}
             /\ b.ports = IF r.ports = {} THEN AnyPort ELSE r.ports
             /\ b.net = IF r.net = {} THEN AnyNet ELSE r.net
             /\ b.app = IF r.app = {} THEN Apps ELSE r.app
<1>1. AnyPort \subseteq Ports \X Ports
  BY ConnsAssumption DEF AnyPort, Ports
<1>2. Verdict(r) \in {"direct", "proxy", "reject"}
  BY ShapeFields DEF Verdict
<1> DEFINE bare == r.ports = {} /\ r.net = {} /\ r.app = {}
           ports == IF r.ports = {} THEN AnyPort ELSE r.ports
           net == IF r.net = {} THEN AnyNet ELSE r.net
           app == IF r.app = {} THEN Apps ELSE r.app
           b == SbBare(Verdict(r))
           e == [b EXCEPT !.ports = ports, !.net = net, !.app = app, !.bare = bare]
<1>3. BaseRule(r) = e
  BY DEF BaseRule, Verdict
<1>4. bare \in BOOLEAN /\ ports \subseteq Ports \X Ports /\ net \subseteq AnyNet /\ app \subseteq Apps
  BY <1>1, ShapeFields DEF AnyNet, Apps
<1>5. b \in SbRules /\ b.act = Verdict(r) /\ b.dom = {} /\ b.ip = {} /\ b.inv = FALSE /\ b.inb = AnyInb
  BY <1>1, <1>2 DEF SbBare, SbRules, AnyNet, Apps
<1>6. /\ e \in SbRules
      /\ e.act = Verdict(r) /\ e.dom = {} /\ e.ip = {} /\ e.inv = FALSE /\ e.inb = AnyInb
      /\ e.bare <=> bare
      /\ e.ports = ports /\ e.net = net /\ e.app = app
  <2> HIDE DEF b, bare, ports, net, app
  <2> QED
    BY <1>4, <1>5 DEF SbRules
<1> QED
  BY <1>3, <1>6

LEMMA ParsedEntries ==
  ASSUME NEW r \in RuleShapes
  PROVE  /\ ParseDomains(r.dom) \subseteq {"d1", "d2"}
         /\ ParseIps(r.ip) \subseteq Regions
         /\ ParseDomains({}) = {} /\ ParseIps({}) = {}
BY ShapeFields DEF ParseDomains, ParseIps, Regions

LEMMA DomainRuleFields ==
  ASSUME NEW r \in RuleShapes, ParseDomains(r.dom) # {}
  PROVE  \E d \in SbRules :
            /\ DomainRule(r) = <<d>> /\ d.act = Verdict(r) /\ d.inb = AnyInb /\ ~d.inv
            /\ d.dom = ParseDomains(r.dom) /\ d.ip = {}
            /\ d.ports = BaseRule(r).ports /\ d.net = BaseRule(r).net /\ d.app = BaseRule(r).app
<1> DEFINE d == [BaseRule(r) EXCEPT !.dom = ParseDomains(r.dom), !.bare = FALSE]
<1>1. /\ d \in SbRules /\ d.act = Verdict(r) /\ d.inb = AnyInb /\ ~d.inv
      /\ d.dom = ParseDomains(r.dom) /\ d.ip = {}
      /\ d.ports = BaseRule(r).ports /\ d.net = BaseRule(r).net /\ d.app = BaseRule(r).app
  <2> DEFINE b == BaseRule(r)
             p == ParseDomains(r.dom)
  <2>1. b \in SbRules /\ b.act = Verdict(r) /\ b.inb = AnyInb /\ b.inv = FALSE /\ b.ip = {}
    BY BaseFields
  <2>2. p \subseteq {"d1", "d2"}
    BY ParsedEntries
  <2> HIDE DEF b, p
  <2>3. LET e == [b EXCEPT !.dom = p, !.bare = FALSE]
        IN  /\ e \in SbRules /\ e.act = Verdict(r) /\ e.inb = AnyInb /\ ~e.inv /\ e.dom = p /\ e.ip = {}
            /\ e.ports = b.ports /\ e.net = b.net /\ e.app = b.app
    BY <2>1, <2>2 DEF SbRules
  <2> QED
    BY <2>3 DEF b, p
<1> QED
  BY <1>1 DEF DomainRule

LEMMA IpRuleFields ==
  ASSUME NEW r \in RuleShapes, ParseIps(r.ip) # {}
  PROVE  \E d \in SbRules :
            /\ IpRule(r) = <<d>> /\ d.act = Verdict(r) /\ d.inb = AnyInb /\ (d.inv <=> "!cn" \in r.ip)
            /\ d.dom = {} /\ d.ip = ParseIps(r.ip)
            /\ d.ports = BaseRule(r).ports /\ d.net = BaseRule(r).net /\ d.app = BaseRule(r).app
<1> DEFINE d == [BaseRule(r) EXCEPT !.ip = ParseIps(r.ip), !.inv = "!cn" \in r.ip, !.bare = FALSE]
<1>1. /\ d \in SbRules /\ d.act = Verdict(r) /\ d.inb = AnyInb /\ (d.inv <=> "!cn" \in r.ip)
      /\ d.dom = {} /\ d.ip = ParseIps(r.ip)
      /\ d.ports = BaseRule(r).ports /\ d.net = BaseRule(r).net /\ d.app = BaseRule(r).app
  <2> DEFINE b == BaseRule(r)
             p == ParseIps(r.ip)
             v == "!cn" \in r.ip
  <2>1. b \in SbRules /\ b.act = Verdict(r) /\ b.inb = AnyInb /\ b.dom = {}
    BY BaseFields
  <2>2. p \subseteq Regions /\ v \in BOOLEAN
    BY ParsedEntries
  <2> HIDE DEF b, p, v
  <2>3. LET e == [b EXCEPT !.ip = p, !.inv = v, !.bare = FALSE]
        IN  /\ e \in SbRules /\ e.act = Verdict(r) /\ e.inb = AnyInb /\ (e.inv <=> v) /\ e.dom = {} /\ e.ip = p
            /\ e.ports = b.ports /\ e.net = b.net /\ e.app = b.app
    BY <2>1, <2>2 DEF SbRules
  <2> QED
    BY <2>3 DEF b, p, v
<1> QED
  BY <1>1 DEF IpRule

(* Everything but the destinations.                                         *)
BaseHolds(r, c) ==
    /\ r.ports = {} \/ PortIn(r.ports, c.port)
    /\ r.net = {} \/ c.net \in r.net
    /\ r.app = {} \/ c.app \in r.app

LEMMA ConnFields ==
  ASSUME NEW c \in AllConns
  PROVE  /\ c.inb \in AnyInb /\ c.dom \in Domains /\ c.ip \in Regions /\ c.port \in 1..MaxPort
         /\ c.net \in AnyNet /\ c.app \in Apps
BY ConnsAssumption DEF AllConns, AnyInb, AnyNet, Ports

LEMMA BaseMatches ==
  ASSUME NEW r \in RuleShapes, NEW c \in AllConns
  PROVE  LET b == BaseRule(r)
         IN  BaseHolds(r, c) <=> PortIn(b.ports, c.port) /\ c.net \in b.net /\ c.app \in b.app
<1>1. PortIn(AnyPort, c.port)
  BY ConnFields, ConnsAssumption DEF PortIn, AnyPort
<1> QED
  BY <1>1, BaseFields, ConnFields DEF BaseHolds

(* What the two rules of a user's rule match.                               *)
LEMMA DomainRuleMatches ==
  ASSUME NEW r \in RuleShapes, NEW c \in AllConns, NEW known \in BOOLEAN
  PROVE  /\ DomainRule(r) \in Seq(SbRules)
         /\ \A k \in 1..Len(DomainRule(r)) :
               /\ DomainRule(r)[k].act = Verdict(r)
               /\ SbMatches(DomainRule(r)[k], c, known) <=> BaseHolds(r, c) /\ c.dom \in r.dom
         /\ DomainRule(r) = <<>> => c.dom \notin r.dom
<1>1. c.dom \in ParseDomains(r.dom) <=> c.dom \in r.dom
  BY ConnFields DEF ParseDomains, Domains
<1>2. CASE ParseDomains(r.dom) = {}
  <2>1. DomainRule(r) = <<>>
    BY <1>2 DEF DomainRule
  <2> QED
    BY <1>1, <1>2, <2>1
<1>3. CASE ParseDomains(r.dom) # {}
  <2>1. PICK d \in SbRules :
            /\ DomainRule(r) = <<d>> /\ d.act = Verdict(r) /\ d.inb = AnyInb /\ ~d.inv
            /\ d.dom = ParseDomains(r.dom) /\ d.ip = {}
            /\ d.ports = BaseRule(r).ports /\ d.net = BaseRule(r).net /\ d.app = BaseRule(r).app
    BY <1>3, DomainRuleFields
  <2>2. d.inv = FALSE
    BY <2>1 DEF SbRules
  <2>4. SbMatches(d, c, known) <=> BaseHolds(r, c) /\ c.dom \in r.dom
    BY <1>1, <1>3, <2>1, <2>2, BaseMatches, ConnFields DEF SbMatches
  <2>3. DomainRule(r) \in Seq(SbRules) /\ Len(DomainRule(r)) = 1 /\ DomainRule(r)[1] = d
        /\ DomainRule(r) # <<>>
    BY <2>1
  <2> QED
    BY <2>1, <2>4, <2>3
<1> QED
  BY <1>2, <1>3

LEMMA IpRuleMatches ==
  ASSUME NEW r \in RuleShapes, NEW c \in AllConns, NEW known \in BOOLEAN, "!cn" \notin r.ip
  PROVE  /\ IpRule(r) \in Seq(SbRules)
         /\ \A k \in 1..Len(IpRule(r)) :
               /\ IpRule(r)[k].act = Verdict(r)
               /\ SbMatches(IpRule(r)[k], c, known) <=> BaseHolds(r, c) /\ known /\ c.ip \in r.ip
         /\ IpRule(r) = <<>> => c.ip \notin r.ip
<1>1. c.ip \in ParseIps(r.ip) <=> c.ip \in r.ip
  BY ConnFields, ShapeFields DEF ParseIps, Regions
<1>2. CASE ParseIps(r.ip) = {}
  <2>1. IpRule(r) = <<>>
    BY <1>2 DEF IpRule
  <2> QED
    BY <1>1, <1>2, <2>1
<1>3. CASE ParseIps(r.ip) # {}
  <2>1. PICK d \in SbRules :
            /\ IpRule(r) = <<d>> /\ d.act = Verdict(r) /\ d.inb = AnyInb /\ (d.inv <=> "!cn" \in r.ip)
            /\ d.dom = {} /\ d.ip = ParseIps(r.ip)
            /\ d.ports = BaseRule(r).ports /\ d.net = BaseRule(r).net /\ d.app = BaseRule(r).app
    BY <1>3, IpRuleFields
  <2>2. d.inv = FALSE
    BY <2>1 DEF SbRules
  <2>3. SbMatches(d, c, known) <=> BaseHolds(r, c) /\ known /\ c.ip \in r.ip
    BY <1>1, <1>3, <2>1, <2>2, BaseMatches, ConnFields DEF SbMatches
  <2>4. IpRule(r) \in Seq(SbRules) /\ Len(IpRule(r)) = 1 /\ IpRule(r)[1] = d /\ IpRule(r) # <<>>
    BY <2>1
  <2> QED
    BY <2>1, <2>3, <2>4
<1> QED
  BY <1>2, <1>3

LEMMA PartMatches ==
  ASSUME NEW r \in RuleShapes, NEW c \in AllConns, NEW known \in BOOLEAN, "!cn" \notin r.ip
  PROVE  /\ StructuredRule(r) \in Seq(SbRules)
         /\ \A k \in 1..Len(StructuredRule(r)) :
               /\ StructuredRule(r)[k].act = Verdict(r)
               /\ SbMatches(StructuredRule(r)[k], c, known) => Catches(r, c, known)
         /\ Catches(r, c, known) =>
               \E k \in 1..Len(StructuredRule(r)) : SbMatches(StructuredRule(r)[k], c, known)
<1>1. CASE r.dom = {} /\ r.ip = {}
  <2>1. CASE BaseRule(r).bare
    <3>1. StructuredRule(r) = <<>>
      BY <1>1, <2>1 DEF StructuredRule
    <3>2. ~Catches(r, c, known)
      BY <1>1, <2>1, BaseFields DEF Catches
    <3> QED
      BY <3>1, <3>2
  <2>2. CASE ~BaseRule(r).bare
    <3> DEFINE b == BaseRule(r)
    <3>1. /\ StructuredRule(r) = <<b>>
      BY <1>1, <2>2 DEF StructuredRule
    <3>2. /\ b \in SbRules /\ b.act = Verdict(r) /\ b.dom = {} /\ b.ip = {} /\ b.inv = FALSE /\ b.inb = AnyInb
      BY BaseFields
    <3>3. SbMatches(b, c, known) <=> BaseHolds(r, c)
      BY <3>2, BaseMatches, ConnFields DEF SbMatches
    <3>4. Catches(r, c, known) <=> BaseHolds(r, c)
      BY <1>1, <2>2, BaseFields DEF Catches, BaseHolds
    <3> HIDE DEF b
    <3>5. StructuredRule(r) \in Seq(SbRules) /\ Len(StructuredRule(r)) = 1 /\ StructuredRule(r)[1] = b
      BY <3>1, <3>2
    <3> QED
      BY <3>2, <3>3, <3>4, <3>5
  <2> QED
    BY <2>1, <2>2
<1>2. CASE ~(r.dom = {} /\ r.ip = {})
  <2> DEFINE d == DomainRule(r)
             i == IpRule(r)
             s == d \o i
  <2>1. StructuredRule(r) = s
    BY <1>2 DEF StructuredRule
  <2>2. Catches(r, c, known) <=> BaseHolds(r, c) /\ (c.dom \in r.dom \/ (known /\ c.ip \in r.ip))
    BY <1>2 DEF Catches, BaseHolds
  <2>3. /\ d \in Seq(SbRules)
        /\ \A k \in 1..Len(d) : d[k].act = Verdict(r)
                               /\ (SbMatches(d[k], c, known) <=> BaseHolds(r, c) /\ c.dom \in r.dom)
        /\ d = <<>> => c.dom \notin r.dom
    BY DomainRuleMatches
  <2>4. /\ i \in Seq(SbRules)
        /\ \A k \in 1..Len(i) : i[k].act = Verdict(r)
                               /\ (SbMatches(i[k], c, known) <=> BaseHolds(r, c) /\ known /\ c.ip \in r.ip)
        /\ i = <<>> => c.ip \notin r.ip
    BY IpRuleMatches
  <2> HIDE DEF d, i
  <2>5. /\ Len(d) \in Nat /\ Len(i) \in Nat /\ Len(s) = Len(d) + Len(i) /\ s \in Seq(SbRules)
        /\ \A k \in 1..Len(d) : s[k] = d[k]
        /\ \A k \in 1..Len(i) : s[Len(d) + k] = i[k]
        /\ d # <<>> => Len(d) # 0
        /\ i # <<>> => Len(i) # 0
    BY <2>3, <2>4
  <2>6. \A k \in 1..Len(s) : \/ k \in 1..Len(d)
                             \/ k - Len(d) \in 1..Len(i) /\ s[k] = i[k - Len(d)]
    <3> SUFFICES ASSUME NEW k \in 1..Len(s), k \notin 1..Len(d)
                 PROVE  k - Len(d) \in 1..Len(i) /\ s[k] = i[k - Len(d)]
      OBVIOUS
    <3>1. k - Len(d) \in 1..Len(i) /\ Len(d) + (k - Len(d)) = k
      BY <2>5
    <3> QED
      BY <2>5, <3>1
  <2> HIDE DEF s
  <2>7. ASSUME NEW k \in 1..Len(s)
        PROVE  s[k].act = Verdict(r) /\ (SbMatches(s[k], c, known) => Catches(r, c, known))
    <3>1. CASE k \in 1..Len(d)
      BY <2>2, <2>3, <2>5, <3>1
    <3>2. CASE k - Len(d) \in 1..Len(i) /\ s[k] = i[k - Len(d)]
      BY <2>2, <2>4, <3>2
    <3> QED
      BY <2>6, <3>1, <3>2
  <2>8. ASSUME Catches(r, c, known) PROVE \E k \in 1..Len(s) : SbMatches(s[k], c, known)
    <3>1. CASE BaseHolds(r, c) /\ c.dom \in r.dom
      <4>1. 1 \in 1..Len(d) /\ 1 \in 1..Len(s)
        BY <2>3, <2>5, <3>1
      <4> QED
        BY <2>3, <2>5, <3>1, <4>1
    <3>2. CASE BaseHolds(r, c) /\ known /\ c.ip \in r.ip
      <4>1. 1 \in 1..Len(i) /\ Len(d) + 1 \in 1..Len(s)
        BY <2>4, <2>5, <3>2
      <4>2. s[Len(d) + 1] = i[1] /\ SbMatches(i[1], c, known)
        BY <2>4, <2>5, <3>2, <4>1
      <4> QED
        BY <4>1, <4>2
    <3> QED
      BY <2>2, <2>8, <3>1, <3>2
  <2> QED
    BY <2>1, <2>5, <2>7, <2>8
<1> QED
  BY <1>1, <1>2

(* A part of a route without a resolve step is heard rule by rule.          *)
LEMMA HeardIsEntries ==
  ASSUME NEW s \in Seq(SbRules), NEW c, NEW from, NEW known \in BOOLEAN, known <=> from = "yes"
  PROVE  LET M == {b \in SbRules : SbMatches(b, c, known)}
         IN  ~Resolves(s) /\ Heard(s, c, from) = Entries(s, M)
<1>1. \A k \in 1..Len(s) : s[k] \in SbRules /\ s[k].act # "resolve"
  <2>1. \A b \in SbRules : b.act # "resolve"
    BY DEF SbRules
  <2>2. \A k \in 1..Len(s) : s[k] \in SbRules
    OBVIOUS
  <2> QED
    BY <2>1, <2>2
<1>2. ASSUME NEW k \in 1..Len(s)
      PROVE  SbMatches(s[k], c, from = "yes" \/ \E j \in 1..(k - 1) : s[j].act = "resolve") <=> SbMatches(s[k], c, known)
  <2> DEFINE p == from = "yes" \/ \E j \in 1..(k - 1) : s[j].act = "resolve"
  <2>1. p <=> known
    <3>1. \A j \in 1..(k - 1) : j \in 1..Len(s)
      OBVIOUS
    <3> QED
      BY <1>1, <3>1
  <2> HIDE DEF p
  <2>2. SbMatches(s[k], c, p) <=> SbMatches(s[k], c, known)
    BY <2>1, MatchNeedsKnown
  <2> QED
    BY <2>2 DEF p
<1>3. ~Resolves(s)
  BY <1>1 DEF Resolves
<1> QED
  BY <1>1, <1>2, <1>3 DEF Heard, Entries

(* The first of the user's rules that catches a connection decides on it,   *)
(* as one of the parts it became is the first to match.                     *)
LEMMA StructuredSays ==
  ASSUME NEW rs \in Seq(RuleShapes), \A k \in 1..Len(rs) : "!cn" \notin rs[k].ip,
         NEW c \in AllConns, NEW from, NEW known \in BOOLEAN, known <=> from = "yes"
  PROVE  LET S == Structured(rs)
             caught == Caught(rs, c, known)
         IN  /\ S \in Seq(SbRules) /\ ~Resolves(S)
             /\ Heard(S, c, from) = {} <=> caught = {}
             /\ caught # {} => /\ HeardAct(S, c, from) = Verdict(rs[First(caught)])
                               /\ First(caught) \in 1..Len(rs)
<1> DEFINE parts == [k \in DOMAIN rs |-> StructuredRule(rs[k])]
           M == {b \in SbRules : SbMatches(b, c, known)}
           S == Structured(rs)
           caught == Caught(rs, c, known)
           rows == RowsTo(parts, Len(parts), M)
<1>1. Len(rs) \in Nat /\ DOMAIN rs = 1..Len(rs) /\ \A k \in 1..Len(rs) : rs[k] \in RuleShapes
  OBVIOUS
<1>2. \A k \in 1..Len(rs) :
         /\ StructuredRule(rs[k]) \in Seq(SbRules)
         /\ \A j \in 1..Len(StructuredRule(rs[k])) : StructuredRule(rs[k])[j].act = Verdict(rs[k])
         /\ Entries(StructuredRule(rs[k]), M) # {} <=> Catches(rs[k], c, known)
  <2> SUFFICES ASSUME NEW r \in RuleShapes, "!cn" \notin r.ip
               PROVE  /\ StructuredRule(r) \in Seq(SbRules)
                      /\ \A j \in 1..Len(StructuredRule(r)) : StructuredRule(r)[j].act = Verdict(r)
                      /\ Entries(StructuredRule(r), M) # {} <=> Catches(r, c, known)
    BY <1>1
  <2> DEFINE p == StructuredRule(r)
  <2>1. /\ p \in Seq(SbRules)
        /\ \A k \in 1..Len(p) : p[k].act = Verdict(r) /\ (SbMatches(p[k], c, known) => Catches(r, c, known))
        /\ Catches(r, c, known) => \E k \in 1..Len(p) : SbMatches(p[k], c, known)
    BY PartMatches
  <2> HIDE DEF p
  <2>2. \A k \in 1..Len(p) : p[k] \in M <=> SbMatches(p[k], c, known)
    BY <2>1
  <2>3. Entries(p, M) # {} <=> Catches(r, c, known)
    <3> HIDE DEF M
    <3> QED
      BY <2>1, <2>2 DEF Entries
  <2> QED
    BY <2>1, <2>3 DEF p
<1>3. parts \in Seq(Seq(SbRules)) /\ Len(parts) = Len(rs)
      /\ \A k \in 1..Len(rs) : parts[k] = StructuredRule(rs[k])
  BY <1>1, <1>2
<1> HIDE DEF M, parts
<1>4. rows = caught
  BY <1>1, <1>2, <1>3 DEF RowsTo, Caught
<1>5. S \in Seq(SbRules) /\ (Entries(S, M) = {} <=> rows = {})
      /\ (rows # {} => First(rows) \in rows /\ \E j \in 1..Len(parts[First(rows)]) :
                          FirstEntry(S, M) = parts[First(rows)][j])
  BY <1>3, FirstPart DEF Structured, parts
<1>6. ~Resolves(S) /\ Heard(S, c, from) = Entries(S, M)
  BY <1>5, HeardIsEntries DEF M
<1>7. ASSUME caught # {}
      PROVE  HeardAct(S, c, from) = Verdict(rs[First(caught)]) /\ First(caught) \in 1..Len(rs)
  <2>1. First(caught) \in 1..Len(rs)
    BY <1>4, <1>5, <1>7 DEF Caught
  <2>2. HeardAct(S, c, from) = FirstEntry(S, M).act
    BY <1>6 DEF HeardAct, FirstEntry
  <2> QED
    BY <1>2, <1>3, <1>4, <1>5, <1>7, <2>1, <2>2
<1> QED
  BY <1>4, <1>5, <1>6, <1>7

(* The address rules after the resolve step say what the first rule with a  *)
(* matching address says.                                                   *)
IpCaught(rs, c) == {k \in DOMAIN rs : BaseHolds(rs[k], c) /\ c.ip \in rs[k].ip}

LEMMA IpRulesSay ==
  ASSUME NEW rs \in Seq(RuleShapes), \A k \in 1..Len(rs) : "!cn" \notin rs[k].ip, NEW c \in AllConns
  PROVE  LET S == IpRules(rs)
             caught == IpCaught(rs, c)
         IN  /\ S \in Seq(SbRules) /\ ~Resolves(S)
             /\ Heard(S, c, "yes") = {} <=> caught = {}
             /\ caught # {} => /\ HeardAct(S, c, "yes") = Verdict(rs[First(caught)])
                               /\ First(caught) \in 1..Len(rs)
<1> DEFINE parts == [k \in DOMAIN rs |-> IpRule(rs[k])]
           M == {b \in SbRules : SbMatches(b, c, TRUE)}
           S == IpRules(rs)
           caught == IpCaught(rs, c)
           rows == RowsTo(parts, Len(parts), M)
<1>1. Len(rs) \in Nat /\ DOMAIN rs = 1..Len(rs) /\ \A k \in 1..Len(rs) : rs[k] \in RuleShapes
  OBVIOUS
<1>2. \A k \in 1..Len(rs) :
         /\ IpRule(rs[k]) \in Seq(SbRules)
         /\ \A j \in 1..Len(IpRule(rs[k])) : IpRule(rs[k])[j].act = Verdict(rs[k])
         /\ Entries(IpRule(rs[k]), M) # {} <=> BaseHolds(rs[k], c) /\ c.ip \in rs[k].ip
  <2> SUFFICES ASSUME NEW r \in RuleShapes, "!cn" \notin r.ip
               PROVE  /\ IpRule(r) \in Seq(SbRules)
                      /\ \A j \in 1..Len(IpRule(r)) : IpRule(r)[j].act = Verdict(r)
                      /\ Entries(IpRule(r), M) # {} <=> BaseHolds(r, c) /\ c.ip \in r.ip
    BY <1>1
  <2> DEFINE p == IpRule(r)
  <2>1. /\ p \in Seq(SbRules)
        /\ \A k \in 1..Len(p) : p[k].act = Verdict(r)
                               /\ (SbMatches(p[k], c, TRUE) <=> BaseHolds(r, c) /\ c.ip \in r.ip)
        /\ p = <<>> => c.ip \notin r.ip
    BY IpRuleMatches
  <2> HIDE DEF p
  <2>2. \A k \in 1..Len(p) : p[k] \in M <=> SbMatches(p[k], c, TRUE)
    <3>1. \A k \in 1..Len(p) : p[k] \in SbRules
      BY <2>1
    <3> QED
      BY ONLY <3>1
  <2>3. Entries(p, M) # {} <=> BaseHolds(r, c) /\ c.ip \in r.ip
    <3> HIDE DEF M
    <3>1. c.ip \in r.ip => 1 \in 1..Len(p)
      BY <2>1
    <3> QED
      BY <2>1, <2>2, <3>1 DEF Entries
  <2> QED
    BY <2>1, <2>3 DEF p
<1>3. parts \in Seq(Seq(SbRules)) /\ Len(parts) = Len(rs)
      /\ \A k \in 1..Len(rs) : parts[k] = IpRule(rs[k])
  <2>1. \A k \in 1..Len(rs) : IpRule(rs[k]) \in Seq(SbRules)
    BY <1>2
  <2> QED
    BY ONLY <1>1, <2>1
<1> HIDE DEF M, parts
<1>4. rows = caught
  BY <1>1, <1>2, <1>3 DEF RowsTo, IpCaught
<1>5. S \in Seq(SbRules) /\ (Entries(S, M) = {} <=> rows = {})
      /\ (rows # {} => First(rows) \in rows /\ \E j \in 1..Len(parts[First(rows)]) :
                          FirstEntry(S, M) = parts[First(rows)][j])
  BY <1>3, FirstPart DEF IpRules, parts
<1>6. ~Resolves(S) /\ Heard(S, c, "yes") = Entries(S, M)
  BY <1>5, HeardIsEntries DEF M
<1>7. ASSUME caught # {}
      PROVE  HeardAct(S, c, "yes") = Verdict(rs[First(caught)]) /\ First(caught) \in 1..Len(rs)
  <2>1. First(caught) \in 1..Len(rs)
    BY <1>4, <1>5, <1>7 DEF IpCaught
  <2>2. HeardAct(S, c, "yes") = FirstEntry(S, M).act
    BY <1>6 DEF HeardAct, FirstEntry
  <2> QED
    BY <1>2, <1>3, <1>4, <1>5, <1>7, <2>1, <2>2
<1> QED
  BY <1>4, <1>5, <1>6, <1>7

(* The rules sing-box's route has besides the user's.                       *)
Extras == {HijackDns, ForceRule("tun-force"), ForceRule("force-in"), Resolve, PrivateRule}

Opening ==
       (IF opt.sniff THEN <<HijackDns>> ELSE <<>>)
    \o (IF HasForce THEN <<ForceRule("tun-force")>> ELSE <<>>)
    \o <<ForceRule("force-in")>>
    \o (IF opt.strategy = "IPOnDemand" THEN <<Resolve>> ELSE <<>>)
    \o <<PrivateRule>>

LEMMA ExtraFields ==
  /\ HijackDns.act = "hijack-dns" /\ Resolve.act = "resolve" /\ PrivateRule.act = "direct"
  /\ \A x : ForceRule(x).act = "proxy"
  /\ HijackDns.inv = FALSE /\ PrivateRule.inv = FALSE /\ \A x : ForceRule(x).inv = FALSE
  /\ HijackDns.ports = {<<DnsPort, DnsPort>>}
  /\ PrivateRule.dom = {} /\ PrivateRule.ip = {"private"}
  /\ \A x : ForceRule(x).inb = {x} /\ ForceRule(x).dom = {} /\ ForceRule(x).ip = {}
           /\ ForceRule(x).ports = AnyPort /\ ForceRule(x).net = AnyNet /\ ForceRule(x).app = Apps
BY DEF HijackDns, Resolve, PrivateRule, ForceRule, SbBare

LEMMA OpeningResolves ==
  Opening \in Seq(Extras) /\ (Resolves(Opening) <=> opt.strategy = "IPOnDemand")
<1> DEFINE hij == IF opt.sniff THEN <<HijackDns>> ELSE <<>>
           tf == IF HasForce THEN <<ForceRule("tun-force")>> ELSE <<>>
           ff == <<ForceRule("force-in")>>
           res == IF opt.strategy = "IPOnDemand" THEN <<Resolve>> ELSE <<>>
           prv == <<PrivateRule>>
<1>1. /\ hij \in Seq(Extras) /\ tf \in Seq(Extras) /\ ff \in Seq(Extras) /\ res \in Seq(Extras)
      /\ prv \in Seq(Extras)
  <2>1. /\ HijackDns \in Extras /\ ForceRule("tun-force") \in Extras /\ ForceRule("force-in") \in Extras
        /\ Resolve \in Extras /\ PrivateRule \in Extras
    BY DEF Extras
  <2> QED
    BY ONLY <2>1
<1>2. ~Resolves(<<>>)
  BY DEF Resolves
<1>3. \A r : Resolves(<<r>>) <=> r.act = "resolve"
  BY DEF Resolves
<1>4. ~Resolves(hij) /\ ~Resolves(tf) /\ ~Resolves(ff) /\ ~Resolves(prv)
  BY <1>2, <1>3, ExtraFields
<1>5. Resolves(res) <=> opt.strategy = "IPOnDemand"
  BY <1>2, <1>3, ExtraFields
<1> HIDE DEF hij, tf, ff, res, prv
<1>6. \A a, b \in Seq(Extras) : a \o b \in Seq(Extras) /\ (Resolves(a \o b) <=> Resolves(a) \/ Resolves(b))
  <2> TAKE a \in Seq(Extras), b \in Seq(Extras)
  <2>1. a \o b \in Seq(Extras)
    OBVIOUS
  <2>2. "yes" = "yes" <=> "yes" = "yes" \/ Resolves(a)
    OBVIOUS
  <2>3. Resolves(a \o b) <=> Resolves(a) \/ Resolves(b)
    BY <2>2, HeardJoined
  <2> QED
    BY <2>1, <2>3
<1>7. hij \o tf \in Seq(Extras) /\ ~Resolves(hij \o tf)
  BY ONLY <1>1, <1>4, <1>6
<1>8. hij \o tf \o ff \in Seq(Extras) /\ ~Resolves(hij \o tf \o ff)
  BY ONLY <1>1, <1>4, <1>6, <1>7
<1>9. /\ hij \o tf \o ff \o res \in Seq(Extras)
      /\ Resolves(hij \o tf \o ff \o res) <=> opt.strategy = "IPOnDemand"
  BY ONLY <1>1, <1>5, <1>6, <1>8
<1>10. /\ hij \o tf \o ff \o res \o prv \in Seq(Extras)
       /\ Resolves(hij \o tf \o ff \o res \o prv) <=> opt.strategy = "IPOnDemand"
  BY ONLY <1>1, <1>4, <1>6, <1>9
<1> QED
  BY <1>10 DEF Opening, hij, tf, ff, res, prv

(* Nothing of it but the hijack of DNS takes a connection of the local      *)
(* inbounds to a public address.                                            *)
Quiet(r, c) == r.act = "resolve" \/ \A known \in BOOLEAN : ~SbMatches(r, c, known)

LEMMA QuietPart ==
  ASSUME NEW T, NEW s \in Seq(T), NEW c, NEW known, \A k \in 1..Len(s) : Quiet(s[k], c)
  PROVE  Heard(s, c, known) = {}
<1> SUFFICES ASSUME NEW k \in Heard(s, c, known) PROVE FALSE
  OBVIOUS
<1> DEFINE p == known = "yes" \/ \E j \in 1..(k - 1) : s[j].act = "resolve"
<1>1. k \in 1..Len(s) /\ s[k].act # "resolve" /\ SbMatches(s[k], c, p)
  BY DEF Heard
<1>2. PICK q \in BOOLEAN : q <=> p
  OBVIOUS
<1> HIDE DEF p
<1>3. SbMatches(s[k], c, q)
  BY <1>1, <1>2, MatchNeedsKnown
<1> QED
  BY <1>1, <1>3 DEF Quiet

LEMMA OpeningIsQuiet ==
  ASSUME NEW c \in AllConns, c.inb = "socks-in", c.ip # "private", ~(opt.sniff /\ c.port = DnsPort), NEW known
  PROVE  Heard(Opening, c, known) = {}
<1> DEFINE Q == {r \in Extras : Quiet(r, c)}
<1>1. Resolve \in Q /\ PrivateRule \in Q
  <2>1. \A k \in BOOLEAN : ~SbMatches(PrivateRule, c, k)
    <3>1. c.dom \notin PrivateRule.dom /\ c.ip \notin PrivateRule.ip /\ PrivateRule.ip # {}
          /\ PrivateRule.inv = FALSE
      BY ExtraFields
    <3> QED
      BY <3>1 DEF SbMatches
  <2> QED
    BY <2>1, ExtraFields DEF Quiet, Extras
<1>2. \A x \in {"tun-force", "force-in"} : ForceRule(x) \in Q
  <2> SUFFICES ASSUME NEW x \in {"tun-force", "force-in"} PROVE ForceRule(x) \in Q
    OBVIOUS
  <2>1. c.inb \notin ForceRule(x).inb /\ ForceRule(x).inv = FALSE
    BY ExtraFields
  <2> QED
    BY <2>1 DEF Quiet, Extras, SbMatches
<1>3. opt.sniff => HijackDns \in Q
  <2> SUFFICES ASSUME c.port # DnsPort PROVE HijackDns \in Q
    OBVIOUS
  <2>1. ~PortIn({<<DnsPort, DnsPort>>}, c.port)
    BY ConnFields DEF PortIn, DnsPort
  <2>2. ~PortIn(HijackDns.ports, c.port) /\ HijackDns.inv = FALSE
    BY <2>1, ExtraFields
  <2> QED
    BY <2>2 DEF Quiet, Extras, SbMatches
<1> DEFINE hij == IF opt.sniff THEN <<HijackDns>> ELSE <<>>
           tf == IF HasForce THEN <<ForceRule("tun-force")>> ELSE <<>>
           ff == <<ForceRule("force-in")>>
           res == IF opt.strategy = "IPOnDemand" THEN <<Resolve>> ELSE <<>>
           prv == <<PrivateRule>>
<1>4. Opening = hij \o tf \o ff \o res \o prv
  BY DEF Opening
<1>5. hij \in Seq(Q) /\ tf \in Seq(Q) /\ ff \in Seq(Q) /\ res \in Seq(Q) /\ prv \in Seq(Q)
  <2> HIDE DEF Q
  <2> QED
    BY <1>1, <1>2, <1>3
<1>6. Opening \in Seq(Q)
  <2> HIDE DEF Q, hij, tf, ff, res, prv
  <2> QED
    BY ONLY <1>4, <1>5
<1>7. \A k \in 1..Len(Opening) : Quiet(Opening[k], c)
  <2>1. \A k \in 1..Len(Opening) : Opening[k] \in Q
    <3> HIDE DEF Q
    <3> QED
      BY ONLY <1>6
  <2> QED
    BY <2>1
<1> HIDE DEF Q
<1> QED
  BY <1>6, <1>7, QuietPart

LEMMA RouteParts ==
  SingboxRoute(rules) =
      Opening \o Structured(rules)
      \o (IF opt.strategy = "IPIfNonMatch" THEN <<Resolve, PrivateRule>> \o IpRules(rules) ELSE <<>>)
BY DEF SingboxRoute, Opening

LEMMA VerdictIsHeard ==
  ASSUME NEW T, NEW s \in Seq(T), NEW c, NEW lit, lit = "yes" <=> Literal(c)
  PROVE  SbVerdict(s, c) = IF Heard(s, c, lit) = {} THEN "proxy" ELSE HeardAct(s, c, lit)
<1>1. DOMAIN s = 1..Len(s)
  OBVIOUS
<1>2. ASSUME NEW k \in 1..Len(s)
      PROVE  SbMatches(s[k], c, Resolved(s, k, c)) <=>
             SbMatches(s[k], c, lit = "yes" \/ \E j \in 1..(k - 1) : s[j].act = "resolve")
  <2> DEFINE p == Resolved(s, k, c)
             q == lit = "yes" \/ \E j \in 1..(k - 1) : s[j].act = "resolve"
  <2>1. p <=> q
    BY DEF Resolved
  <2> HIDE DEF p, q
  <2>2. SbMatches(s[k], c, p) <=> SbMatches(s[k], c, q)
    BY <2>1, MatchNeedsKnown
  <2> QED
    BY <2>2 DEF p, q
<1>3. SbHits(s, c) = Heard(s, c, lit)
  <2>1. ASSUME NEW k PROVE k \in SbHits(s, c) <=> k \in Heard(s, c, lit)
    <3>1. k \in SbHits(s, c) <=> k \in 1..Len(s) /\ s[k].act # "resolve" /\ SbMatches(s[k], c, Resolved(s, k, c))
      BY <1>1 DEF SbHits
    <3>2. k \in Heard(s, c, lit) <=>
             /\ k \in 1..Len(s) /\ s[k].act # "resolve"
             /\ SbMatches(s[k], c, lit = "yes" \/ \E j \in 1..(k - 1) : s[j].act = "resolve")
      BY DEF Heard
    <3> QED
      BY <1>2, <3>1, <3>2
  <2> QED
    BY <2>1
<1> QED
  BY <1>3 DEF SbVerdict, HeardAct

LEMMA CaughtNeedsKnown ==
  ASSUME NEW rs, NEW c, NEW p, NEW q, p <=> q
  PROVE  Caught(rs, c, p) = Caught(rs, c, q)
BY DEF Caught, Catches

(* A list that is two parts of sing-box's rules, one after the other.       *)
Joined(s, a, b) == a \in Seq(SbRules \cup Extras) /\ b \in Seq(SbRules \cup Extras) /\ s = a \o b

LEMMA JoinedSays ==
  ASSUME NEW s, NEW a, NEW b, Joined(s, a, b), NEW c, NEW known, NEW later,
         later = "yes" <=> known = "yes" \/ Resolves(a)
  PROVE  /\ Resolves(s) <=> Resolves(a) \/ Resolves(b)
         /\ Silent(s, c, known) <=> Silent(a, c, known) /\ Silent(b, c, later)
         /\ ~Silent(a, c, known) => HeardAct(s, c, known) = HeardAct(a, c, known)
         /\ (Silent(a, c, known) /\ ~Silent(b, c, later)) => HeardAct(s, c, known) = HeardAct(b, c, later)
<1>1. PICK T : a \in Seq(T) /\ b \in Seq(T) /\ s = a \o b
  BY DEF Joined
<1>2. /\ Resolves(a \o b) <=> Resolves(a) \/ Resolves(b)
      /\ Silent(a \o b, c, known) <=> Silent(a, c, known) /\ Silent(b, c, later)
      /\ ~Silent(a, c, known) => HeardAct(a \o b, c, known) = HeardAct(a, c, known)
      /\ (Silent(a, c, known) /\ ~Silent(b, c, later)) => HeardAct(a \o b, c, known) = HeardAct(b, c, later)
  BY <1>1, HeardJoined
<1> QED
  BY <1>1, <1>2

(* The rules that say something once nothing matched are those whose        *)
(* addresses match.                                                         *)
LEMMA RetryCaught ==
  ASSUME NEW rs \in Seq(RuleShapes), NEW c \in AllConns, NEW known \in BOOLEAN, Caught(rs, c, known) = {}
  PROVE  {k \in Caught(rs, c, TRUE) : rs[k].ip # {}} = IpCaught(rs, c)
<1> SUFFICES ASSUME NEW k \in DOMAIN rs
             PROVE  Catches(rs[k], c, TRUE) /\ rs[k].ip # {} <=> BaseHolds(rs[k], c) /\ c.ip \in rs[k].ip
  BY DEF Caught, IpCaught
<1>1. ~Catches(rs[k], c, known)
  BY DEF Caught
<1> QED
  BY <1>1 DEF Catches, BaseHolds

(* A word for a fact.                                                       *)
LEMMA SomeWord ==
  ASSUME NEW p \in BOOLEAN
  PROVE  \E word : word = "yes" <=> p
<1>1. CASE p
  BY <1>1
<1>2. CASE ~p
  <2>1. "no" = "yes" <=> p
    BY <1>2
  <2> QED
    BY <2>1
<1> QED
  BY <1>1, <1>2

LEMMA SingboxSays ==
  ASSUME rules \in Seq(RuleShapes), \A k \in 1..Len(rules) : "!cn" \notin rules[k].ip,
         NEW c \in AllConns, c.inb = "socks-in", c.ip # "private", ~(opt.sniff /\ c.port = DnsPort)
  PROVE  SbVerdict(SingboxRoute(rules), c) = AsWritten(rules, c, opt.strategy)
<1>1a. PICK known \in BOOLEAN : known <=> Literal(c) \/ opt.strategy = "IPOnDemand"
  OBVIOUS
<1>1b. PICK lit : lit = "yes" <=> Literal(c)
  <2>1. PICK p \in BOOLEAN : p <=> Literal(c)
    OBVIOUS
  <2>2. PICK x : x = "yes" <=> p
    BY SomeWord
  <2> QED
    BY <2>1, <2>2
<1>1c. PICK k0 : k0 = "yes" <=> known
  BY <1>1a, SomeWord
<1>0. /\ lit = "yes" <=> Literal(c)
      /\ k0 = "yes" <=> known
      /\ known <=> Literal(c) \/ opt.strategy = "IPOnDemand"
  BY <1>1a, <1>1b, <1>1c
<1> DEFINE S == Structured(rules)
           I == IpRules(rules)
           turn == <<Resolve, PrivateRule>>
           Q == IF opt.strategy = "IPIfNonMatch" THEN turn \o I ELSE <<>>
           T == SbRules \cup Extras
           caught == Caught(rules, c, known)
           again == IpCaught(rules, c)
<1>1. /\ S \in Seq(SbRules) /\ ~Resolves(S)
      /\ Silent(S, c, k0) <=> caught = {}
      /\ caught # {} => HeardAct(S, c, k0) = Verdict(rules[First(caught)]) /\ First(caught) \in 1..Len(rules)
  BY <1>0, StructuredSays DEF Silent
<1>2. /\ I \in Seq(SbRules) /\ ~Resolves(I)
      /\ Silent(I, c, "yes") <=> again = {}
      /\ again # {} => HeardAct(I, c, "yes") = Verdict(rules[First(again)]) /\ First(again) \in 1..Len(rules)
  BY IpRulesSay DEF Silent
<1>3. Opening \in Seq(Extras) /\ (Resolves(Opening) <=> opt.strategy = "IPOnDemand") /\ Silent(Opening, c, lit)
  BY OpeningResolves, OpeningIsQuiet DEF Silent
<1>4. turn \in Seq(Extras) /\ Resolves(turn) /\ \A k : Silent(turn, c, k)
  <2>1. Resolve \in Extras /\ PrivateRule \in Extras
    BY DEF Extras
  <2>2. turn \in Seq(Extras) /\ Len(turn) = 2 /\ turn[1] = Resolve /\ turn[2] = PrivateRule
    BY <2>1
  <2>3. Quiet(PrivateRule, c)
    <3>1. c.dom \notin PrivateRule.dom /\ c.ip \notin PrivateRule.ip /\ PrivateRule.ip # {}
          /\ PrivateRule.inv = FALSE
      BY ExtraFields
    <3> QED
      BY <3>1 DEF SbMatches, Quiet
  <2>4. Quiet(Resolve, c) /\ Resolve.act = "resolve"
    BY ExtraFields DEF Quiet
  <2> HIDE DEF turn
  <2>5. \A k \in 1..Len(turn) : Quiet(turn[k], c)
    BY <2>2, <2>3, <2>4
  <2> QED
    BY <2>2, <2>4, <2>5, QuietPart DEF Resolves, Silent
<1>5. \A k \in 1..Len(rules) : Verdict(rules[k]) # "none"
  BY ShapeFields DEF Verdict
<1>6. caught = {} => {k \in Caught(rules, c, TRUE) : rules[k].ip # {}} = again
  BY RetryCaught
<1>7. SingboxRoute(rules) = Opening \o S \o Q
  BY RouteParts
<1> DEFINE first == Says(rules, caught)
           retry == IF opt.strategy = "IPIfNonMatch"
                    THEN Says(rules, {k \in Caught(rules, c, TRUE) : rules[k].ip # {}}) ELSE "none"
<1>8. AsWritten(rules, c, opt.strategy) =
         CASE first # "none" -> first [] first = "none" /\ retry # "none" -> retry [] OTHER -> "proxy"
  <2>1. caught = Caught(rules, c, Literal(c) \/ opt.strategy = "IPOnDemand")
    BY <1>0, CaughtNeedsKnown
  <2> HIDE DEF caught
  <2> QED
    BY <2>1 DEF AsWritten
<1>9. /\ caught # {} => first = Verdict(rules[First(caught)]) /\ first # "none"
      /\ caught = {} => first = "none"
      /\ (caught = {} /\ opt.strategy = "IPIfNonMatch" /\ again # {}) =>
             retry = Verdict(rules[First(again)]) /\ retry # "none"
      /\ (caught = {} /\ (opt.strategy # "IPIfNonMatch" \/ again = {})) => retry = "none"
  <2> HIDE DEF caught, again
  <2> QED
    BY <1>1, <1>2, <1>5, <1>6 DEF Says
<1>10. /\ Silent(S, c, k0) <=> first = "none"
       /\ first # "none" => HeardAct(S, c, k0) = first
       /\ (first = "none" /\ opt.strategy = "IPIfNonMatch") =>
              /\ Silent(I, c, "yes") <=> retry = "none"
              /\ retry # "none" => HeardAct(I, c, "yes") = retry
       /\ opt.strategy # "IPIfNonMatch" => retry = "none"
  <2> HIDE DEF caught, again, S, I, first
  <2>1. CASE caught # {}
    BY <1>1, <1>9, <2>1
  <2>2. CASE caught = {}
    <3> HIDE DEF retry
    <3> QED
      BY <1>1, <1>2, <1>9, <2>2
  <2> QED
    BY <2>1, <2>2
<1>11. k0 = "yes" <=> lit = "yes" \/ Resolves(Opening)
  BY <1>0, <1>3
<1> HIDE DEF S, I, turn, T, caught, again, first, retry
<1>12. \A s : s \in Seq(SbRules) \/ s \in Seq(Extras) => s \in Seq(T)
  BY DEF T
<1>a. Opening \in Seq(T) /\ S \in Seq(T) /\ turn \in Seq(T) /\ I \in Seq(T)
  BY <1>1, <1>2, <1>3, <1>4, <1>12
<1>b. PICK P : P = Opening \o S
  OBVIOUS
<1>13. /\ P \in Seq(T) /\ Joined(P, Opening, S)
  BY ONLY <1>a, <1>b DEF Joined, T
<1>14. /\ Resolves(P) <=> Resolves(Opening)
       /\ Silent(P, c, lit) <=> first = "none"
       /\ first # "none" => HeardAct(P, c, lit) = first
  BY <1>1, <1>3, <1>10, <1>11, <1>13, JoinedSays
<1>15. /\ Q \in Seq(T)
       /\ first = "none" => /\ Silent(Q, c, k0) <=> retry = "none"
                            /\ retry # "none" => HeardAct(Q, c, k0) = retry
  <2>1. CASE opt.strategy = "IPIfNonMatch"
    <3>1. "yes" = "yes" <=> k0 = "yes" \/ Resolves(turn)
      BY <1>4
    <3>2. Q = turn \o I
      BY <2>1
    <3>3. Q \in Seq(T) /\ Joined(Q, turn, I)
      BY ONLY <1>a, <3>2 DEF Joined, T
    <3> HIDE DEF Q
    <3>4. /\ Silent(Q, c, k0) <=> Silent(turn, c, k0) /\ Silent(I, c, "yes")
          /\ (Silent(turn, c, k0) /\ ~Silent(I, c, "yes")) => HeardAct(Q, c, k0) = HeardAct(I, c, "yes")
      BY ONLY <3>1, <3>3, JoinedSays
    <3>5. Silent(turn, c, k0)
      BY <1>4
    <3> QED
      BY <1>10, <2>1, <3>3, <3>4, <3>5 DEF Joined, T
  <2>2. CASE opt.strategy # "IPIfNonMatch"
    <3>1. Q = <<>>
      BY <2>2
    <3>2. Silent(<<>>, c, k0)
      BY DEF Heard, Silent
    <3>3. <<>> \in Seq(T)
      OBVIOUS
    <3>4. Q \in Seq(T)
      BY <3>1, <3>3
    <3> QED
      BY <1>10, <2>2, <3>1, <3>2, <3>4
  <2> QED
    BY <2>1, <2>2
<1> HIDE DEF Q
<1>c. PICK R : R = P \o Q
  OBVIOUS
<1>16. R \in Seq(T) /\ Joined(R, P, Q) /\ R = SingboxRoute(rules)
  BY ONLY <1>7, <1>13, <1>15, <1>b, <1>c DEF Joined, T
<1>17. /\ Silent(R, c, lit) <=> Silent(P, c, lit) /\ Silent(Q, c, k0)
       /\ ~Silent(P, c, lit) => HeardAct(R, c, lit) = HeardAct(P, c, lit)
       /\ (Silent(P, c, lit) /\ ~Silent(Q, c, k0)) => HeardAct(R, c, lit) = HeardAct(Q, c, k0)
  <2>1. k0 = "yes" <=> lit = "yes" \/ Resolves(P)
    BY <1>11, <1>14
  <2>2. Joined(R, P, Q)
    BY <1>16
  <2> QED
    BY ONLY <2>1, <2>2, JoinedSays
<1>18. SbVerdict(R, c) = IF Silent(R, c, lit) THEN "proxy" ELSE HeardAct(R, c, lit)
  BY <1>0, <1>16, VerdictIsHeard DEF Silent
<1>19. SbVerdict(R, c) = AsWritten(rules, c, opt.strategy)
  BY <1>8, <1>14, <1>15, <1>17, <1>18
<1> QED
  BY <1>16, <1>19

LEMMA SingboxAsWritten ==
  ASSUME rules \in Seq(RuleShapes)
  PROVE  SingboxRoutesAsWritten
<1> SUFFICES ASSUME \A k \in DOMAIN rules : Plain(rules[k]),
                    NEW c \in Conns, c.inb = "socks-in", c.ip # "private", ~(opt.sniff /\ c.port = DnsPort)
             PROVE  SbVerdict(SingboxRoute(rules), c) = AsWritten(rules, c, opt.strategy)
  BY DEF SingboxRoutesAsWritten
<1>1. c \in AllConns
  BY ConnsAssumption
<1>2. \A k \in 1..Len(rules) : "!cn" \notin rules[k].ip
  BY DEF Plain
<1> QED
  BY <1>1, <1>2, SingboxSays

(* Xray's rules for a user's rule.                                          *)
XrOf(r) ==
    [XrBare(r.out) EXCEPT
        !.dom = r.dom \ {"#"}, !.anyDom = (r.dom \ {"#"}) = {}, !.ip = r.ip \ {"#"},
        !.anyIp = (r.ip \ {"#"}) = {},
        !.ports = IF r.ports = {} THEN AnyPort ELSE r.ports,
        !.net = IF r.net = {} THEN AnyNet ELSE r.net]

XrLeftOut(r) ==
    \/ r.dom # {} /\ r.dom \ {"#"} = {}
    \/ r.app # {}
    \/ r.dom = {} /\ r.ip = {} /\ r.ports = {} /\ r.net = {}

LEMMA XrRuleIs ==
  ASSUME NEW r \in RuleShapes
  PROVE  XrRule(r) = IF XrLeftOut(r) THEN <<>> ELSE <<XrOf(r)>>
<1>1. r.ip \ {"#"} = r.ip
  BY ShapeFields DEF Regions
<1> QED
  BY <1>1 DEF XrRule, XrLeftOut, XrOf

LEMMA XrFields ==
  ASSUME NEW r \in RuleShapes
  PROVE  LET x == XrOf(r)
         IN  /\ x.out = r.out /\ x.inb = AnyInb
             /\ x.dom = r.dom \ {"#"} /\ (x.anyDom <=> r.dom \ {"#"} = {})
             /\ x.ip = r.ip /\ (x.anyIp <=> r.ip = {})
             /\ x.ports = IF r.ports = {} THEN AnyPort ELSE r.ports
             /\ x.net = IF r.net = {} THEN AnyNet ELSE r.net
<1>1. r.ip \ {"#"} = r.ip
  BY ShapeFields DEF Regions
<1> DEFINE dom == r.dom \ {"#"}
           ip == r.ip \ {"#"}
           anyDom == dom = {}
           anyIp == ip = {}
           ports == IF r.ports = {} THEN AnyPort ELSE r.ports
           net == IF r.net = {} THEN AnyNet ELSE r.net
           x == [XrBare(r.out) EXCEPT !.dom = dom, !.anyDom = anyDom, !.ip = ip, !.anyIp = anyIp,
                                      !.ports = ports, !.net = net]
<1>2. XrOf(r) = x
  BY DEF XrOf
<1> HIDE DEF dom, ip, anyDom, anyIp, ports, net
<1>3. x.out = r.out /\ x.inb = AnyInb /\ x.dom = dom /\ x.anyDom = anyDom /\ x.ip = ip /\ x.anyIp = anyIp
      /\ x.ports = ports /\ x.net = net
  BY DEF XrBare
<1> QED
  BY <1>1, <1>2, <1>3 DEF dom, ip, anyDom, anyIp, ports, net

(* Whether one catches a connection: as its rule says, but for the need of  *)
(* both a domain and an address where the rule has both.                    *)
LEMMA XrOfMatches ==
  ASSUME NEW r \in RuleShapes, NEW c \in AllConns, "!cn" \notin r.ip, NEW strategy, NEW known \in BOOLEAN,
         known <=> Literal(c) \/ strategy = "IPOnDemand"
  PROVE  /\ ~XrLeftOut(r) /\ XrMatches(XrOf(r), c, strategy) => Catches(r, c, known)
         /\ (r.app = {} /\ {} \in {r.dom, r.ip}) =>
               (Catches(r, c, known) <=> ~XrLeftOut(r) /\ XrMatches(XrOf(r), c, strategy))
<1> DEFINE x == XrOf(r)
<1>1. /\ x.inb = AnyInb
      /\ x.dom = r.dom \ {"#"} /\ (x.anyDom <=> r.dom \ {"#"} = {})
      /\ x.ip = r.ip /\ (x.anyIp <=> r.ip = {})
      /\ x.ports = IF r.ports = {} THEN AnyPort ELSE r.ports
      /\ x.net = IF r.net = {} THEN AnyNet ELSE r.net
  BY XrFields
<1>2. c.inb \in AnyInb /\ c.net \in AnyNet /\ PortIn(AnyPort, c.port)
  BY ConnFields, ConnsAssumption DEF PortIn, AnyPort
<1>3. c.dom \in r.dom \ {"#"} <=> c.dom \in r.dom
  BY ConnFields DEF Domains
<1> HIDE DEF x
<1>4. XrMatches(x, c, strategy) <=>
         /\ r.ports = {} \/ PortIn(r.ports, c.port)
         /\ r.net = {} \/ c.net \in r.net
         /\ r.dom \ {"#"} = {} \/ c.dom \in r.dom
         /\ r.ip = {} \/ (known /\ c.ip \in r.ip)
  BY <1>1, <1>2, <1>3 DEF XrMatches
<1>5. ASSUME ~XrLeftOut(r), XrMatches(x, c, strategy) PROVE Catches(r, c, known)
  BY <1>3, <1>4, <1>5 DEF Catches, XrLeftOut
<1>6. ASSUME r.app = {}, {} \in {r.dom, r.ip}, Catches(r, c, known)
      PROVE  ~XrLeftOut(r) /\ XrMatches(x, c, strategy)
  BY <1>3, <1>4, <1>6 DEF Catches, XrLeftOut
<1> QED
  BY <1>5, <1>6 DEF x

XrForced == [XrBare("proxy") EXCEPT !.inb = {"force-in", "tun-force"}]
XrDns == [XrBare(DnsOutTag) EXCEPT !.inb = UserInb, !.ports = {<<DnsPort, DnsPort>>}]
XrRest == [XrBare("proxy") EXCEPT !.inb = UserInb]
XrUser(rs) == Concat([k \in DOMAIN rs |-> XrRule(rs[k])])
XrRules == {XrOf(r) : r \in RuleShapes} \cup {XrForced, XrDns, XrRest}

LEMMA XrExtraFields ==
  /\ XrForced.out = "proxy" /\ XrForced.inb = {"force-in", "tun-force"} /\ XrForced.ports = AnyPort
  /\ XrForced.net = AnyNet /\ XrForced.anyDom = TRUE /\ XrForced.anyIp = TRUE
  /\ XrDns.out = DnsOutTag /\ XrDns.inb = UserInb /\ XrDns.ports = {<<DnsPort, DnsPort>>}
  /\ XrDns.net = AnyNet /\ XrDns.anyDom = TRUE /\ XrDns.anyIp = TRUE
  /\ XrRest.out = "proxy" /\ XrRest.inb = UserInb /\ XrRest.ports = AnyPort
  /\ XrRest.net = AnyNet /\ XrRest.anyDom = TRUE /\ XrRest.anyIp = TRUE
BY DEF XrForced, XrDns, XrRest, XrBare

LEMMA XrUserRules ==
  ASSUME NEW rs \in Seq(RuleShapes)
  PROVE  XrUser(rs) \in Seq(XrRules)
<1> DEFINE parts == [k \in DOMAIN rs |-> XrRule(rs[k])]
<1>1. \A k \in DOMAIN rs : XrRule(rs[k]) \in Seq(XrRules)
  <2> SUFFICES ASSUME NEW r \in RuleShapes PROVE XrRule(r) \in Seq(XrRules)
    OBVIOUS
  <2>1. PICK x : x = XrOf(r)
    OBVIOUS
  <2>2. x \in XrRules
    BY <2>1 DEF XrRules
  <2>3. <<>> \in Seq(XrRules) /\ <<x>> \in Seq(XrRules)
    BY ONLY <2>2
  <2> QED
    BY <2>1, <2>3, XrRuleIs
<1>2. parts \in Seq(Seq(XrRules))
  <2>1. DOMAIN rs = 1..Len(rs) /\ Len(rs) \in Nat
    OBVIOUS
  <2> QED
    BY ONLY <1>1, <2>1
<1> HIDE DEF parts
<1>3. Concat(parts) \in Seq(XrRules)
  BY <1>2, FirstPart
<1> QED
  BY <1>3 DEF XrUser, parts

(* The list Xray gets.                                                      *)
LEMMA XrayParts ==
  ASSUME NEW rs \in Seq(RuleShapes)
  PROVE  /\ XrayRouting(rs) = <<XrForced, XrDns>> \o XrUser(rs) \o <<XrRest>>
         /\ XrayRouting(rs) \in Seq(XrRules)
         /\ Len(XrayRouting(rs)) >= 3
         /\ XrayRouting(rs)[1] = XrForced /\ XrayRouting(rs)[2] = XrDns
<1>1. XrayRouting(rs) = <<XrForced, XrDns>> \o XrUser(rs) \o <<XrRest>>
  BY DEF XrayRouting, XrForced, XrDns, XrRest, XrUser
<1>2. XrUser(rs) \in Seq(XrRules)
  BY XrUserRules
<1>3. XrForced \in XrRules /\ XrDns \in XrRules /\ XrRest \in XrRules
  BY DEF XrRules
<1>4. PICK u : u = XrUser(rs) /\ u \in Seq(XrRules)
  BY <1>2
<1>5. PICK a, b, z : a = XrForced /\ b = XrDns /\ z = XrRest
  OBVIOUS
<1>6. PICK s : s = <<a, b>> \o u \o <<z>>
  OBVIOUS
<1>7. s \in Seq(XrRules) /\ Len(s) >= 3 /\ s[1] = a /\ s[2] = b
  BY ONLY <1>3, <1>4, <1>5, <1>6
<1> QED
  BY ONLY <1>1, <1>4, <1>5, <1>6, <1>7

LEMMA XrVerdictIsFirst ==
  ASSUME NEW s \in Seq(XrRules), NEW c, NEW strategy
  PROVE  LET M == {x \in XrRules : XrMatches(x, c, strategy)}
         IN  XrVerdict(s, c, strategy) = IF Entries(s, M) = {} THEN "none" ELSE FirstEntry(s, M).out
<1> DEFINE M == {x \in XrRules : XrMatches(x, c, strategy)}
<1>1. DOMAIN s = 1..Len(s) /\ \A k \in 1..Len(s) : s[k] \in XrRules
  OBVIOUS
<1>2. XrHits(s, c, strategy) = Entries(s, M)
  BY <1>1 DEF XrHits, Entries
<1> QED
  BY <1>2 DEF XrVerdict, FirstEntry

(* Of a connection of the local inbounds, DNS aside, Xray's list says what  *)
(* the user's rules say, and proxy in the end.                              *)
LEMMA XraySays ==
  ASSUME NEW rs \in Seq(RuleShapes),
         \A k \in 1..Len(rs) : "!cn" \notin rs[k].ip /\ rs[k].app = {} /\ {} \in {rs[k].dom, rs[k].ip},
         NEW c \in AllConns, c.inb = "socks-in", c.port # DnsPort,
         NEW strategy, NEW known \in BOOLEAN, known <=> Literal(c) \/ strategy = "IPOnDemand"
  PROVE  LET caught == Caught(rs, c, known)
         IN  XrVerdict(XrayRouting(rs), c, strategy) =
                IF caught = {} THEN "proxy" ELSE rs[First(caught)].out
<1> DEFINE parts == [k \in DOMAIN rs |-> XrRule(rs[k])]
           M == {x \in XrRules : XrMatches(x, c, strategy)}
           caught == Caught(rs, c, known)
           rows == RowsTo(parts, Len(parts), M)
           U == XrUser(rs)
           lead == <<XrForced, XrDns>>
           end == <<XrRest>>
<1>1. Len(rs) \in Nat /\ DOMAIN rs = 1..Len(rs) /\ \A k \in 1..Len(rs) : rs[k] \in RuleShapes
  OBVIOUS
<1>2. \A k \in 1..Len(rs) :
         /\ XrRule(rs[k]) \in Seq(XrRules)
         /\ \A j \in 1..Len(XrRule(rs[k])) : XrRule(rs[k])[j].out = rs[k].out
         /\ Entries(XrRule(rs[k]), M) # {} <=> Catches(rs[k], c, known)
  <2> SUFFICES ASSUME NEW r \in RuleShapes, "!cn" \notin r.ip, r.app = {}, {} \in {r.dom, r.ip}
               PROVE  /\ XrRule(r) \in Seq(XrRules)
                      /\ \A j \in 1..Len(XrRule(r)) : XrRule(r)[j].out = r.out
                      /\ Entries(XrRule(r), M) # {} <=> Catches(r, c, known)
    BY <1>1
  <2>1. XrOf(r) \in XrRules /\ XrOf(r).out = r.out
    BY XrFields DEF XrRules
  <2>2. Catches(r, c, known) <=> ~XrLeftOut(r) /\ XrMatches(XrOf(r), c, strategy)
    BY XrOfMatches
  <2>3. CASE XrLeftOut(r)
    <3>1. XrRule(r) = <<>>
      BY <2>3, XrRuleIs
    <3>2. Len(XrRule(r)) = 0 /\ XrRule(r) \in Seq(XrRules)
      BY <3>1
    <3>3. Entries(XrRule(r), M) = {}
      BY <3>2 DEF Entries
    <3>4. \A j \in 1..Len(XrRule(r)) : XrRule(r)[j].out = r.out
      <4>1. 1..0 = {}
        OBVIOUS
      <4> QED
        BY ONLY <3>2, <4>1
    <3>5. ~Catches(r, c, known)
      BY <2>2, <2>3
    <3> QED
      BY ONLY <3>2, <3>3, <3>4, <3>5
  <2>4. CASE ~XrLeftOut(r)
    <3>1. PICK x : x = XrOf(r)
      OBVIOUS
    <3>2. XrRule(r) = <<x>>
      BY <2>4, <3>1, XrRuleIs
    <3>3. Len(XrRule(r)) = 1 /\ XrRule(r)[1] = x /\ XrRule(r) \in Seq(XrRules)
      BY <2>1, <3>1, <3>2
    <3>4. Entries(XrRule(r), M) # {} <=> x \in M
      BY <3>3 DEF Entries
    <3>5. x \in M <=> Catches(r, c, known)
      BY <2>1, <2>2, <2>4, <3>1
    <3>6. \A j \in 1..Len(XrRule(r)) : XrRule(r)[j].out = r.out
      <4>1. \A j \in 1..1 : j = 1
        OBVIOUS
      <4> QED
        BY ONLY <2>1, <3>1, <3>3, <4>1
    <3> QED
      BY ONLY <3>3, <3>4, <3>5, <3>6
  <2> QED
    BY <2>3, <2>4
<1>3. parts \in Seq(Seq(XrRules)) /\ Len(parts) = Len(rs)
      /\ \A k \in 1..Len(rs) : parts[k] = XrRule(rs[k])
  <2>1. \A k \in 1..Len(rs) : XrRule(rs[k]) \in Seq(XrRules)
    BY <1>2
  <2> QED
    BY ONLY <1>1, <2>1
<1>a. ~XrMatches(XrForced, c, strategy) /\ ~XrMatches(XrDns, c, strategy) /\ XrMatches(XrRest, c, strategy)
  <2>1. c.inb \notin {"force-in", "tun-force"} /\ c.inb \in UserInb /\ c.net \in AnyNet
    BY ConnFields DEF UserInb
  <2>2. PortIn(AnyPort, c.port) /\ ~PortIn({<<DnsPort, DnsPort>>}, c.port)
    BY ConnFields, ConnsAssumption DEF PortIn, AnyPort, DnsPort
  <2> QED
    BY <2>1, <2>2, XrExtraFields DEF XrMatches
<1>b. XrForced \in XrRules /\ XrDns \in XrRules /\ XrRest \in XrRules
  BY DEF XrRules
<1>c. XrForced \notin M /\ XrDns \notin M /\ XrRest \in M
  BY <1>a, <1>b
<1> HIDE DEF M, parts
<1>4. rows = caught
  BY <1>1, <1>2, <1>3 DEF RowsTo, Caught
<1>5. U \in Seq(XrRules) /\ (Entries(U, M) = {} <=> rows = {})
      /\ (rows # {} => First(rows) \in rows /\ \E j \in 1..Len(parts[First(rows)]) :
                          FirstEntry(U, M) = parts[First(rows)][j])
  BY <1>3, FirstPart DEF XrUser, parts
<1>6. lead \in Seq(XrRules) /\ Entries(lead, M) = {}
  <2>1. \A a, b : a \notin M /\ b \notin M => Entries(<<a, b>>, M) = {}
    BY DEF Entries
  <2> QED
    BY <1>b, <1>c, <2>1
<1>7. end \in Seq(XrRules) /\ Entries(end, M) # {} /\ FirstEntry(end, M) = XrRest
  <2>1. ASSUME NEW a, a \in M PROVE Entries(<<a>>, M) = {1}
    BY <2>1 DEF Entries
  <2>2. Entries(end, M) = {1}
    BY <1>c, <2>1
  <2>3. First({1}) = 1
    BY FirstIs
  <2>4. end[1] = XrRest /\ end \in Seq(XrRules)
    BY <1>b
  <2>5. FirstEntry(end, M) = end[First(Entries(end, M))]
    BY DEF FirstEntry
  <2> HIDE DEF end
  <2> QED
    BY ONLY <2>2, <2>3, <2>4, <2>5
<1>8. XrayRouting(rs) = lead \o U \o end /\ XrayRouting(rs) \in Seq(XrRules)
  BY XrayParts
<1> HIDE DEF lead, end, U, rows, caught
<1>9. PICK P : P = lead \o U
  OBVIOUS
<1>10. /\ P \in Seq(XrRules)
       /\ Entries(P, M) = {} <=> Entries(U, M) = {}
       /\ Entries(U, M) # {} => FirstEntry(P, M) = FirstEntry(U, M)
  <2>1. P \in Seq(XrRules)
    BY ONLY <1>5, <1>6, <1>9
  <2>2. /\ Entries(lead \o U, M) = {} <=> Entries(lead, M) = {} /\ Entries(U, M) = {}
        /\ (Entries(lead, M) = {} /\ Entries(U, M) # {}) => FirstEntry(lead \o U, M) = FirstEntry(U, M)
    BY ONLY <1>5, <1>6, FirstOfJoined
  <2> QED
    BY ONLY <1>6, <1>9, <2>1, <2>2
<1>11. /\ Entries(P \o end, M) # {}
       /\ FirstEntry(P \o end, M) = IF Entries(U, M) = {} THEN XrRest ELSE FirstEntry(U, M)
  <2>1. /\ Entries(P \o end, M) = {} <=> Entries(P, M) = {} /\ Entries(end, M) = {}
        /\ Entries(P, M) # {} => FirstEntry(P \o end, M) = FirstEntry(P, M)
        /\ (Entries(P, M) = {} /\ Entries(end, M) # {}) => FirstEntry(P \o end, M) = FirstEntry(end, M)
    BY ONLY <1>7, <1>10, FirstOfJoined
  <2> QED
    BY ONLY <1>7, <1>10, <2>1
<1>12. XrVerdict(XrayRouting(rs), c, strategy) = FirstEntry(P \o end, M).out
  <2>1. PICK s : s = P \o end
    OBVIOUS
  <2>2. s \in Seq(XrRules) /\ s = XrayRouting(rs)
    BY ONLY <1>8, <1>9, <2>1
  <2>3. XrVerdict(s, c, strategy) = IF Entries(s, M) = {} THEN "none" ELSE FirstEntry(s, M).out
    BY <2>2, XrVerdictIsFirst DEF M
  <2> QED
    BY ONLY <1>11, <2>1, <2>2, <2>3
<1>13. caught # {} => FirstEntry(U, M).out = rs[First(caught)].out
  <2> SUFFICES ASSUME caught # {} PROVE FirstEntry(U, M).out = rs[First(caught)].out
    OBVIOUS
  <2>1. First(caught) \in 1..Len(rs)
    BY <1>4, <1>5 DEF Caught, caught
  <2> QED
    BY <1>2, <1>3, <1>4, <1>5, <2>1
<1> QED
  BY <1>4, <1>5, <1>11, <1>12, <1>13, XrExtraFields DEF caught

LEMMA XrayAsWritten ==
  ASSUME rules \in Seq(RuleShapes)
  PROVE  XrayRoutesAsWritten
<1> SUFFICES ASSUME opt.strategy # "IPIfNonMatch",
                    \A k \in DOMAIN rules : Plain(rules[k]) /\ rules[k].app = {} /\ {} \in {rules[k].dom, rules[k].ip},
                    NEW c \in Conns, c.inb = "socks-in", c.port # DnsPort
             PROVE  /\ (XrVerdict(XrayRouting(rules), c, opt.strategy) = "block") =
                           (AsWritten(rules, c, opt.strategy) = "reject")
                    /\ XrVerdict(XrayRouting(rules), c, opt.strategy) \in
                           {"block", AsWritten(rules, c, opt.strategy)}
  BY DEF XrayRoutesAsWritten
<1>1. c \in AllConns
  BY ConnsAssumption
<1>2. PICK known \in BOOLEAN : known <=> Literal(c) \/ opt.strategy = "IPOnDemand"
  OBVIOUS
<1> DEFINE caught == Caught(rules, c, known)
           first == Says(rules, caught)
<1>3. XrVerdict(XrayRouting(rules), c, opt.strategy) =
         IF caught = {} THEN "proxy" ELSE rules[First(caught)].out
  <2>1. \A k \in 1..Len(rules) : "!cn" \notin rules[k].ip /\ rules[k].app = {} /\ {} \in {rules[k].dom, rules[k].ip}
    BY DEF Plain
  <2> QED
    BY <1>1, <1>2, <2>1, XraySays
<1>4. AsWritten(rules, c, opt.strategy) = IF first # "none" THEN first ELSE "proxy"
  <2>1. caught = Caught(rules, c, Literal(c) \/ opt.strategy = "IPOnDemand")
    BY <1>2, CaughtNeedsKnown
  <2> HIDE DEF caught
  <2> QED
    BY <2>1 DEF AsWritten
<1>5. caught # {} => rules[First(caught)] \in RuleShapes
  <2> SUFFICES ASSUME caught # {} PROVE rules[First(caught)] \in RuleShapes
    OBVIOUS
  <2>1. caught \in SUBSET (1..Len(rules)) /\ Len(rules) \in Nat
    BY DEF Caught
  <2> HIDE DEF caught
  <2>2. First(caught) \in 1..Len(rules)
    BY <2>1, FirstIsLeast
  <2> QED
    BY <2>2
<1> HIDE DEF caught
<1> QED
  BY <1>3, <1>4, <1>5, ShapeFields DEF Says, Verdict

(* No part of a rule matches what the rule does not name.                   *)
LEMMA NothingWidened ==
  ASSUME rules \in Seq(RuleShapes)
  PROVE  NeverWidened
<1> SUFFICES ASSUME NEW r \in RuleShapes, "!cn" \notin r.ip, NEW c \in Conns
             PROVE  /\ \A b \in Range(StructuredRule(r)) : SbMatches(b, c, TRUE) => Catches(r, c, TRUE)
                    /\ \A b \in Range(XrRule(r)) : XrMatches(b, c, "IPOnDemand") => Catches(r, c, TRUE)
  <2>1. \A k \in DOMAIN rules : rules[k] \in RuleShapes
    OBVIOUS
  <2> QED
    BY <2>1 DEF NeverWidened
<1>1. c \in AllConns
  BY ConnsAssumption
<1>2. ASSUME NEW b \in Range(StructuredRule(r)), SbMatches(b, c, TRUE) PROVE Catches(r, c, TRUE)
  <2>1. PICK s : s = StructuredRule(r)
    OBVIOUS
  <2>2. s \in Seq(SbRules) /\ \A k \in 1..Len(s) : SbMatches(s[k], c, TRUE) => Catches(r, c, TRUE)
    BY <1>1, <2>1, PartMatches
  <2>3. PICK k \in 1..Len(s) : b = s[k]
    BY <2>1, <2>2 DEF Range
  <2> QED
    BY <1>2, <2>2, <2>3
<1>3. ASSUME NEW b \in Range(XrRule(r)), XrMatches(b, c, "IPOnDemand") PROVE Catches(r, c, TRUE)
  <2>1. PICK x : x = XrOf(r)
    OBVIOUS
  <2>2. ~XrLeftOut(r) /\ b = x
    <3>1. Range(<<>>) = {} /\ Range(<<x>>) = {x}
      BY DEF Range
    <3> QED
      BY <2>1, <3>1, XrRuleIs
  <2> QED
    BY <1>1, <1>3, <2>1, <2>2, XrOfMatches
<1> QED
  BY <1>2, <1>3

(* A part that says proxy of a connection, whether its address is known or  *)
(* not.                                                                     *)
Proxied(s, c) ==
    /\ s \in Seq(SbRules \cup Extras)
    /\ \A known : ~Silent(s, c, known) /\ HeardAct(s, c, known) = "proxy"

LEMMA ProxiedStays ==
  ASSUME NEW a, NEW b, NEW s, Joined(s, a, b), NEW c, Proxied(a, c) \/ ((\A k : Silent(a, c, k)) /\ Proxied(b, c))
  PROVE  Proxied(s, c)
<1>1. ASSUME NEW known, NEW later, later = "yes" <=> known = "yes" \/ Resolves(a)
      PROVE  ~Silent(s, c, known) /\ HeardAct(s, c, known) = "proxy"
  <2>1. /\ Resolves(s) <=> Resolves(a) \/ Resolves(b)
        /\ Silent(s, c, known) <=> Silent(a, c, known) /\ Silent(b, c, later)
        /\ ~Silent(a, c, known) => HeardAct(s, c, known) = HeardAct(a, c, known)
        /\ (Silent(a, c, known) /\ ~Silent(b, c, later)) => HeardAct(s, c, known) = HeardAct(b, c, later)
    BY <1>1, JoinedSays
  <2> QED
    BY <2>1 DEF Proxied
<1>2. ASSUME NEW known PROVE \E later : later = "yes" <=> known = "yes" \/ Resolves(a)
  <2>1. PICK p \in BOOLEAN : p <=> known = "yes" \/ Resolves(a)
    OBVIOUS
  <2>2. PICK later : later = "yes" <=> p
    BY SomeWord
  <2> QED
    BY <2>1, <2>2
<1>3. s \in Seq(SbRules \cup Extras)
  BY DEF Joined
<1> QED
  BY <1>1, <1>2, <1>3 DEF Proxied

LEMMA SingleMatch ==
  ASSUME NEW r \in SbRules \cup Extras, NEW c, r.act = "proxy", \A known \in BOOLEAN : SbMatches(r, c, known)
  PROVE  Proxied(<<r>>, c)
<1>1. PICK s : s = <<r>>
  OBVIOUS
<1>2. s \in Seq(SbRules \cup Extras) /\ Len(s) = 1 /\ s[1] = r
  BY <1>1
<1>3. ASSUME NEW known PROVE Heard(s, c, known) = {1}
  <2>1. PICK p \in BOOLEAN : p <=> known = "yes" \/ \E j \in 1..(1 - 1) : s[j].act = "resolve"
    OBVIOUS
  <2>2. SbMatches(s[1], c, known = "yes" \/ \E j \in 1..(1 - 1) : s[j].act = "resolve")
    <3> DEFINE q == known = "yes" \/ \E j \in 1..(1 - 1) : s[j].act = "resolve"
    <3>1. SbMatches(s[1], c, p) /\ (p <=> q)
      BY <1>2, <2>1
    <3> HIDE DEF q
    <3>2. SbMatches(s[1], c, q)
      BY <3>1, MatchNeedsKnown
    <3> QED
      BY <3>2 DEF q
  <2> QED
    BY <1>2, <2>2 DEF Heard
<1>4. First({1}) = 1
  BY FirstIs
<1>5. ASSUME NEW known PROVE ~Silent(s, c, known) /\ HeardAct(s, c, known) = "proxy"
  BY <1>2, <1>3, <1>4 DEF Silent, HeardAct
<1> QED
  BY <1>1, <1>2, <1>5 DEF Proxied

(* Every list of the user's rules is one of sing-box's, negated regions     *)
(* included.                                                                *)
LEMMA RuleLists ==
  ASSUME NEW rs \in Seq(RuleShapes)
  PROVE  Structured(rs) \in Seq(SbRules \cup Extras) /\ IpRules(rs) \in Seq(SbRules \cup Extras)
<1> DEFINE T == SbRules \cup Extras
           parts == [k \in DOMAIN rs |-> StructuredRule(rs[k])]
           ips == [k \in DOMAIN rs |-> IpRule(rs[k])]
<1>1. Len(rs) \in Nat /\ DOMAIN rs = 1..Len(rs) /\ \A k \in 1..Len(rs) : rs[k] \in RuleShapes
  OBVIOUS
<1>2. ASSUME NEW r \in RuleShapes
      PROVE  IpRule(r) \in Seq(T) /\ StructuredRule(r) \in Seq(T)
  <2>0. <<>> \in Seq(T) /\ \A e \in T : <<e>> \in Seq(T)
    <3> HIDE DEF T
    <3> QED
      OBVIOUS
  <2>1. PICK i : i = IpRule(r) /\ i \in Seq(T)
    <3>1. CASE ParseIps(r.ip) = {}
      <4>1. IpRule(r) = <<>>
        BY <3>1 DEF IpRule
      <4> QED
        BY <2>0, <4>1
    <3>2. CASE ParseIps(r.ip) # {}
      <4>1. PICK e \in SbRules : IpRule(r) = <<e>>
        BY <3>2, IpRuleFields
      <4>2. e \in T
        OBVIOUS
      <4> QED
        BY <2>0, <4>1, <4>2
    <3> QED
      BY <3>1, <3>2
  <2>2. PICK d : d = DomainRule(r) /\ d \in Seq(T)
    <3>1. CASE ParseDomains(r.dom) = {}
      <4>1. DomainRule(r) = <<>>
        BY <3>1 DEF DomainRule
      <4> QED
        BY <2>0, <4>1
    <3>2. CASE ParseDomains(r.dom) # {}
      <4>1. PICK e \in SbRules : DomainRule(r) = <<e>>
        BY <3>2, DomainRuleFields
      <4>2. e \in T
        OBVIOUS
      <4> QED
        BY <2>0, <4>1, <4>2
    <3> QED
      BY <3>1, <3>2
  <2>3. PICK b : b = BaseRule(r) /\ b \in T
    BY BaseFields
  <2> HIDE DEF T
  <2>4. <<>> \in Seq(T) /\ <<b>> \in Seq(T) /\ d \o i \in Seq(T)
    BY ONLY <2>1, <2>2, <2>3
  <2> QED
    BY <2>1, <2>2, <2>3, <2>4 DEF StructuredRule
<1> HIDE DEF T
<1>3. parts \in Seq(Seq(T)) /\ ips \in Seq(Seq(T))
  <2>1. \A k \in 1..Len(rs) : StructuredRule(rs[k]) \in Seq(T) /\ IpRule(rs[k]) \in Seq(T)
    BY <1>1, <1>2
  <2> QED
    BY ONLY <1>1, <2>1
<1> HIDE DEF parts, ips
<1>4. Concat(parts) \in Seq(T) /\ Concat(ips) \in Seq(T)
  BY <1>3, FirstPart
<1> QED
  BY <1>4 DEF Structured, IpRules, parts, ips, T

(* The force inbounds come before anything that could send them elsewhere.  *)
LEMMA OpeningForces ==
  ASSUME NEW c \in AllConns, c.inb = "force-in" \/ (c.inb = "tun-force" /\ HasForce),
         ~(opt.sniff /\ c.port = DnsPort)
  PROVE  Proxied(Opening, c)
<1> DEFINE T == SbRules \cup Extras
           hij == IF opt.sniff THEN <<HijackDns>> ELSE <<>>
           tf == IF HasForce THEN <<ForceRule("tun-force")>> ELSE <<>>
           ff == <<ForceRule("force-in")>>
           res == IF opt.strategy = "IPOnDemand" THEN <<Resolve>> ELSE <<>>
           prv == <<PrivateRule>>
<1>1. hij \in Seq(T) /\ tf \in Seq(T) /\ ff \in Seq(T) /\ res \in Seq(T) /\ prv \in Seq(T)
  <2>1. /\ HijackDns \in T /\ ForceRule("tun-force") \in T /\ ForceRule("force-in") \in T
        /\ Resolve \in T /\ PrivateRule \in T
    BY DEF Extras
  <2> HIDE DEF T
  <2> QED
    BY ONLY <2>1
<1>2. \A known : Silent(<<>>, c, known)
  BY DEF Silent, Heard
<1>3. \A r : (\A known \in BOOLEAN : ~SbMatches(r, c, known)) => \A known : Silent(<<r>>, c, known)
  <2> SUFFICES ASSUME NEW r, \A known \in BOOLEAN : ~SbMatches(r, c, known), NEW known
               PROVE  Silent(<<r>>, c, known)
    OBVIOUS
  <2>1. PICK s : s = <<r>>
    OBVIOUS
  <2>2. s \in Seq({r}) /\ \A k \in 1..Len(s) : Quiet(s[k], c)
    BY <2>1 DEF Quiet
  <2>3. Heard(s, c, known) = {}
    BY <2>2, QuietPart
  <2> QED
    BY <2>1, <2>3 DEF Silent
<1>4. \A x : c.inb = x => Proxied(<<ForceRule(x)>>, c) \/ ForceRule(x) \notin Extras
  <2> SUFFICES ASSUME NEW x, c.inb = x, ForceRule(x) \in Extras PROVE Proxied(<<ForceRule(x)>>, c)
    OBVIOUS
  <2>1. PortIn(AnyPort, c.port) /\ c.net \in AnyNet /\ c.app \in Apps
    BY ConnFields, ConnsAssumption DEF PortIn, AnyPort
  <2>2. PICK r : r = ForceRule(x)
    OBVIOUS
  <2>3. r.act = "proxy" /\ \A known \in BOOLEAN : SbMatches(r, c, known)
    <3>1. /\ r.act = "proxy" /\ r.inv = FALSE /\ r.inb = {x} /\ r.dom = {} /\ r.ip = {}
          /\ r.ports = AnyPort /\ r.net = AnyNet /\ r.app = Apps
      BY <2>2, ExtraFields
    <3> QED
      BY <2>1, <3>1 DEF SbMatches
  <2>4. r \in SbRules \cup Extras
    BY <2>2
  <2> QED
    BY <2>2, <2>3, <2>4, SingleMatch
<1>5. \A x : c.inb # x => \A known : Silent(<<ForceRule(x)>>, c, known)
  <2> SUFFICES ASSUME NEW x, c.inb # x PROVE \A known \in BOOLEAN : ~SbMatches(ForceRule(x), c, known)
    BY <1>3
  <2>1. c.inb \notin ForceRule(x).inb /\ ForceRule(x).inv = FALSE
    BY ExtraFields
  <2> QED
    BY <2>1 DEF SbMatches
<1>6. \A known : Silent(hij, c, known)
  <2>1. CASE ~opt.sniff
    BY <1>2, <2>1
  <2>2. CASE opt.sniff
    <3>1. ~PortIn({<<DnsPort, DnsPort>>}, c.port)
      BY <2>2, ConnFields DEF PortIn, DnsPort
    <3>2. \A known \in BOOLEAN : ~SbMatches(HijackDns, c, known)
      <4>1. ~PortIn(HijackDns.ports, c.port) /\ HijackDns.inv = FALSE
        BY <3>1, ExtraFields
      <4> QED
        BY <4>1 DEF SbMatches
    <3> QED
      BY <1>3, <2>2, <3>2
  <2> QED
    BY <2>1, <2>2
<1>7. /\ HasForce /\ c.inb = "tun-force" => Proxied(tf, c)
      /\ c.inb = "force-in" => (\A known : Silent(tf, c, known)) /\ Proxied(ff, c)
  <2>1. ForceRule("tun-force") \in Extras /\ ForceRule("force-in") \in Extras
    BY DEF Extras
  <2> QED
    BY <1>2, <1>4, <1>5, <2>1
<1> HIDE DEF hij, tf, ff, res, prv
<1>8. PICK p1, p2, p3, p4 : p1 = hij \o tf /\ p2 = p1 \o ff /\ p3 = p2 \o res /\ p4 = p3 \o prv
  OBVIOUS
<1>9. Joined(p1, hij, tf) /\ Joined(p2, p1, ff) /\ Joined(p3, p2, res) /\ Joined(p4, p3, prv)
  BY <1>1, <1>8 DEF Joined
<1>10. Proxied(p2, c)
  <2>1. CASE HasForce /\ c.inb = "tun-force"
    <3>1. Proxied(p1, c)
      BY <1>6, <1>7, <1>9, <2>1, ProxiedStays
    <3> QED
      BY <1>9, <3>1, ProxiedStays
  <2>2. CASE c.inb = "force-in"
    <3>1. \A known : Silent(p1, c, known)
      <4> SUFFICES ASSUME NEW known PROVE Silent(p1, c, known)
        OBVIOUS
      <4>1. PICK p \in BOOLEAN : p <=> known = "yes" \/ Resolves(hij)
        OBVIOUS
      <4>2. PICK later : later = "yes" <=> p
        BY SomeWord
      <4>3. later = "yes" <=> known = "yes" \/ Resolves(hij)
        BY <4>1, <4>2
      <4>4. Silent(p1, c, known) <=> Silent(hij, c, known) /\ Silent(tf, c, later)
        BY <1>9, <4>3, JoinedSays
      <4> QED
        BY <1>6, <1>7, <2>2, <4>4
    <3> QED
      BY <1>7, <1>9, <2>2, <3>1, ProxiedStays
  <2> QED
    BY <2>1, <2>2
<1>11. Proxied(p3, c)
  BY <1>9, <1>10, ProxiedStays
<1>12. Proxied(p4, c)
  BY <1>9, <1>11, ProxiedStays
<1> QED
  BY <1>8, <1>12 DEF Opening, hij, tf, ff, res, prv

LEMMA ForcedIsProxied ==
  ASSUME rules \in Seq(RuleShapes)
  PROVE  ForcedReachesProxy
<1> SUFFICES ASSUME NEW c \in AllConns, c.inb = "force-in" \/ (c.inb = "tun-force" /\ HasForce)
             PROVE  /\ SbVerdict(SingboxRoute(rules), c) = "proxy" \/ (opt.sniff /\ c.port = DnsPort)
                    /\ XrVerdict(XrayRouting(rules), c, opt.strategy) = "proxy"
  BY ConnsAssumption DEF ForcedReachesProxy
<1>1. ASSUME ~(opt.sniff /\ c.port = DnsPort) PROVE SbVerdict(SingboxRoute(rules), c) = "proxy"
  <2>1. Proxied(Opening, c)
    BY <1>1, OpeningForces
  <2> DEFINE T == SbRules \cup Extras
             end == IF opt.strategy = "IPIfNonMatch" THEN <<Resolve, PrivateRule>> \o IpRules(rules) ELSE <<>>
  <2>2. Structured(rules) \in Seq(T) /\ IpRules(rules) \in Seq(T)
    BY RuleLists
  <2>3. end \in Seq(T)
    <3>1. Resolve \in T /\ PrivateRule \in T
      BY DEF Extras
    <3>2. PICK i, a, b : i = IpRules(rules) /\ a = Resolve /\ b = PrivateRule
      OBVIOUS
    <3> HIDE DEF T
    <3>3. <<a, b>> \o i \in Seq(T) /\ <<>> \in Seq(T)
      BY ONLY <2>2, <3>1, <3>2
    <3> QED
      BY <3>2, <3>3
  <2>4. PICK p, q : p = Opening \o Structured(rules) /\ q = p \o end
    OBVIOUS
  <2>5. Joined(p, Opening, Structured(rules))
    BY <2>1, <2>2, <2>4 DEF Joined, Proxied
  <2>6. Proxied(p, c)
    BY <2>1, <2>5, ProxiedStays
  <2>7. Joined(q, p, end)
    BY <2>3, <2>4, <2>6 DEF Joined, Proxied
  <2>8. Proxied(q, c)
    BY <2>6, <2>7, ProxiedStays
  <2>9. PICK p0 \in BOOLEAN : p0 <=> Literal(c)
    OBVIOUS
  <2>10. PICK lit : lit = "yes" <=> p0
    BY SomeWord
  <2>11. SbVerdict(q, c) = IF Heard(q, c, lit) = {} THEN "proxy" ELSE HeardAct(q, c, lit)
    <3>1. lit = "yes" <=> Literal(c)
      BY <2>9, <2>10
    <3> QED
      BY <2>8, <3>1, VerdictIsHeard DEF Proxied
  <2>12. SbVerdict(q, c) = "proxy"
    BY <2>8, <2>11 DEF Proxied, Silent
  <2> QED
    BY <2>4, <2>12, RouteParts
<1>2. XrVerdict(XrayRouting(rules), c, opt.strategy) = "proxy"
  <2>1. PICK s : s = XrayRouting(rules)
    OBVIOUS
  <2>2. s \in Seq(XrRules) /\ Len(s) >= 3 /\ s[1] = XrForced
    BY <2>1, XrayParts
  <2>3. XrMatches(XrForced, c, opt.strategy)
    <3>1. PortIn(AnyPort, c.port) /\ c.net \in AnyNet
      BY ConnFields, ConnsAssumption DEF PortIn, AnyPort
    <3> QED
      BY <3>1, XrExtraFields DEF XrMatches
  <2>4. 1 \in XrHits(s, c, opt.strategy) /\ XrHits(s, c, opt.strategy) \subseteq 1..Len(s) /\ Len(s) \in Nat
    BY <2>2, <2>3 DEF XrHits
  <2>5. First(XrHits(s, c, opt.strategy)) = 1
    BY <2>4, FirstIs
  <2> QED
    BY <2>1, <2>2, <2>4, <2>5, XrExtraFields DEF XrVerdict
<1> QED
  BY <1>1, <1>2

(* Walking the ranges in order of their first ports finds a gap if there    *)
(* is one.                                                                  *)
LEMMA CoversIsEveryPort ==
  ASSUME NEW ranges \in SUBSET (Ports \X Ports)
  PROVE  CoversEveryPort(ranges) <=> \A p \in 1..MaxPort : PortIn(ranges, p)
<1>0. MaxPort \in Nat /\ MaxPort >= 1 /\ \A q \in ranges : q[1] \in 0..MaxPort /\ q[2] \in 0..MaxPort
  BY ConnsAssumption DEF Ports, DnsPort
<1>1. ASSUME CoversEveryPort(ranges), NEW p \in 1..MaxPort, ~PortIn(ranges, p) PROVE FALSE
  <2>1. PICK q \in ranges : q[2] >= MaxPort /\ \A x \in ranges : x[1] <= q[1] => NoGapBefore(ranges, x)
    BY <1>1 DEF CoversEveryPort
  <2> DEFINE above == {lo \in 1..MaxPort : lo > p /\ lo <= q[1] /\ \E x \in ranges : x[1] = lo}
  <2>2. q[1] \in above
    BY <1>0, <1>1, <2>1 DEF PortIn
  <2>3. above \in SUBSET (1..MaxPort) /\ above # {}
    BY <2>2
  <2>a. \A lo \in 1..MaxPort : lo \in above <=> lo > p /\ lo <= q[1] /\ \E x \in ranges : x[1] = lo
    OBVIOUS
  <2> HIDE DEF above
  <2>4. PICK lo \in above : \A j \in above : lo <= j
    BY <1>0, <2>3, LeastOf
  <2>5. PICK x \in ranges : x[1] = lo
    BY <2>3, <2>4, <2>a
  <2>6. lo \in 1..MaxPort /\ lo > p /\ lo <= q[1]
    BY <2>3, <2>4, <2>a
  <2>7. NoGapBefore(ranges, x)
    BY <2>1, <2>5, <2>6
  <2>8. PICK z \in ranges : z[1] < lo /\ lo <= z[2] + 1
    BY <1>0, <2>5, <2>6, <2>7 DEF NoGapBefore
  <2>9. z[1] <= p
    <3> SUFFICES ASSUME z[1] > p PROVE FALSE
      BY <1>0, <2>8
    <3>1. z[1] \in 1..MaxPort /\ z[1] <= q[1]
      BY <1>0, <2>6, <2>8
    <3>2. z[1] \in above
      BY <2>8, <2>a, <3>1
    <3> QED
      BY <1>0, <2>4, <2>6, <2>8, <3>1, <3>2
  <2>10. p <= z[2]
    BY <1>0, <2>6, <2>8
  <2> QED
    BY <1>1, <2>8, <2>9, <2>10 DEF PortIn
<1>2. ASSUME \A p \in 1..MaxPort : PortIn(ranges, p) PROVE CoversEveryPort(ranges)
  <2>1. PICK q \in ranges : q[1] <= MaxPort /\ MaxPort <= q[2]
    BY <1>0, <1>2 DEF PortIn
  <2>2. ASSUME NEW x \in ranges, x[1] <= q[1] PROVE NoGapBefore(ranges, x)
    <3>1. CASE x[1] <= 1
      BY <3>1 DEF NoGapBefore
    <3>2. CASE ~(x[1] <= 1)
      <4>1. x[1] - 1 \in 1..MaxPort
        BY <1>0, <3>2
      <4>2. PICK z \in ranges : z[1] <= x[1] - 1 /\ x[1] - 1 <= z[2]
        BY <1>2, <4>1 DEF PortIn
      <4>3. z[1] < x[1] /\ x[1] <= z[2] + 1
        BY <1>0, <4>2
      <4> QED
        BY <4>3 DEF NoGapBefore
    <3> QED
      BY <3>1, <3>2
  <2> QED
    BY <1>0, <2>1, <2>2 DEF CoversEveryPort
<1> QED
  BY <1>1, <1>2

(* Where every connection goes by a rule, it is a rule without destinations.*)
LEMMA CatchAllIs ==
  ASSUME NEW r \in RuleShapes, "!cn" \notin r.ip
  PROVE  MatchesEveryConnection(r) <=>
            /\ StructuredRule(r) # <<>>
            /\ \A c \in Conns : \E b \in Range(StructuredRule(r)) : SbMatches(b, c, FALSE)
<1> DEFINE b == BaseRule(r)
           s == StructuredRule(r)
<1>1. /\ b.dom = {} /\ b.ip = {} /\ b.inv = FALSE /\ b.inb = AnyInb
      /\ b.ports \subseteq Ports \X Ports /\ b.net \subseteq AnyNet /\ b.app \subseteq Apps
  <2>1. b \in SbRules /\ b.dom = {} /\ b.ip = {} /\ b.inv = FALSE /\ b.inb = AnyInb
    BY BaseFields
  <2> HIDE DEF b
  <2> QED
    BY <2>1 DEF SbRules
<1>2. Conns \subseteq AllConns
  BY ConnsAssumption
<1> HIDE DEF b, s
<1>3. CASE s = <<b>>
  <2>1. Range(s) = {b} /\ Len(s) = 1 /\ s[1] = b /\ s # <<>>
    BY <1>3 DEF Range
  <2>2. MatchesEveryConnection(r) <=> b.app = Apps /\ b.net = AnyNet /\ CoversEveryPort(b.ports)
    <3>1. MatchesEveryConnection(r) <=>
             Len(s) = 1 /\ s[1].dom = {} /\ s[1].ip = {} /\ ~s[1].inv /\ s[1].app = Apps /\ s[1].net = AnyNet
             /\ CoversEveryPort(s[1].ports)
      BY DEF MatchesEveryConnection, s
    <3> QED
      BY <1>1, <2>1, <3>1
  <2>3. \A c \in Conns : SbMatches(b, c, FALSE) <=> PortIn(b.ports, c.port) /\ c.net \in b.net /\ c.app \in b.app
    BY <1>1, <1>2, ConnFields DEF SbMatches
  <2>4. ASSUME MatchesEveryConnection(r), NEW c \in Conns PROVE SbMatches(b, c, FALSE)
    <3>1. c.port \in 1..MaxPort /\ c.net \in AnyNet /\ c.app \in Apps
      BY <1>2, ConnFields
    <3>2. PortIn(b.ports, c.port)
      BY <1>1, <2>2, <2>4, <3>1, CoversIsEveryPort
    <3> QED
      BY <2>2, <2>3, <2>4, <3>1, <3>2
  <2>5. ASSUME \A c \in Conns : SbMatches(b, c, FALSE) PROVE MatchesEveryConnection(r)
    <3>1. Apps \subseteq b.app
      BY <2>3, <2>5, ConnKindsAssumption
    <3>2. AnyNet \subseteq b.net
      BY <2>3, <2>5, ConnKindsAssumption DEF AnyNet
    <3>3. \A p \in 1..MaxPort : PortIn(b.ports, p)
      <4>1. \A p \in 1..MaxPort : p \in Ports \ {0}
        BY ConnsAssumption DEF Ports
      <4> TAKE p \in 1..MaxPort
      <4>2. PICK c \in Conns : c.port = p
        BY <4>1, ConnKindsAssumption
      <4> QED
        BY <2>3, <2>5, <4>2
    <3>4. CoversEveryPort(b.ports)
      BY <1>1, <3>3, CoversIsEveryPort
    <3> QED
      BY <1>1, <2>2, <3>1, <3>2, <3>4
  <2> QED
    BY <2>1, <2>4, <2>5 DEF s
<1>4. CASE s # <<b>>
  <2>1. PICK c \in Conns : Literal(c)
    BY ConnKindsAssumption
  <2>2. c \in AllConns /\ c.dom = ""
    BY <1>2, <2>1 DEF Literal
  <2>3. s \in Seq(SbRules) /\ \A x \in Range(s) : x.inv = FALSE /\ (x.dom # {} \/ x.ip # {})
    <3>1. ~(r.dom = {} /\ r.ip = {}) \/ s = <<>>
      BY <1>4 DEF StructuredRule, s, b
    <3>2. CASE s = <<>>
      <4>1. Range(<<>>) = {} /\ <<>> \in Seq(SbRules)
        BY DEF Range
      <4> QED
        BY <3>2, <4>1
    <3>3. CASE ~(r.dom = {} /\ r.ip = {})
      <4>1. s = DomainRule(r) \o IpRule(r)
        BY <3>3 DEF StructuredRule, s
      <4> DEFINE K == {x \in SbRules : x.inv = FALSE /\ (x.dom # {} \/ x.ip # {})}
      <4>2. DomainRule(r) \in Seq(K)
        <5>1. CASE ParseDomains(r.dom) = {}
          BY <5>1 DEF DomainRule
        <5>2. CASE ParseDomains(r.dom) # {}
          <6>1. PICK d \in SbRules : DomainRule(r) = <<d>> /\ ~d.inv /\ d.dom = ParseDomains(r.dom)
            BY <5>2, DomainRuleFields
          <6>2. d \in K
            BY <5>2, <6>1 DEF SbRules
          <6> HIDE DEF K
          <6> QED
            BY <6>1, <6>2
        <5> QED
          BY <5>1, <5>2
      <4>3. IpRule(r) \in Seq(K)
        <5>1. CASE ParseIps(r.ip) = {}
          BY <5>1 DEF IpRule
        <5>2. CASE ParseIps(r.ip) # {}
          <6>1. PICK d \in SbRules : IpRule(r) = <<d>> /\ (d.inv <=> "!cn" \in r.ip) /\ d.ip = ParseIps(r.ip)
            BY <5>2, IpRuleFields
          <6>2. d \in K
            BY <5>2, <6>1 DEF SbRules
          <6> HIDE DEF K
          <6> QED
            BY <6>1, <6>2
        <5> QED
          BY <5>1, <5>2
      <4>4. s \in Seq(K)
        <5> HIDE DEF K
        <5> QED
          BY <4>1, <4>2, <4>3
      <4>5. Range(s) \subseteq K
        <5> HIDE DEF K
        <5> QED
          BY <4>4 DEF Range
      <4>6. Seq(K) \subseteq Seq(SbRules)
        OBVIOUS
      <4> QED
        BY <4>4, <4>5, <4>6
    <3> QED
      BY <3>1, <3>2, <3>3
  <2>4. \A x \in Range(s) : x \in SbRules
    BY <2>3 DEF Range
  <2>5. \A x \in Range(s) : ~SbMatches(x, c, FALSE)
    <3> SUFFICES ASSUME NEW x \in Range(s) PROVE ~SbMatches(x, c, FALSE)
      OBVIOUS
    <3>1. c.dom \notin x.dom
      <4>1. x.dom \subseteq {"d1", "d2"}
        BY <2>4 DEF SbRules
      <4>2. "d1" # c.dom /\ "d2" # c.dom
        BY <2>2
      <4> QED
        BY <4>1, <4>2
    <3> QED
      BY <2>3, <3>1 DEF SbMatches
  <2>6. ~MatchesEveryConnection(r)
    <3> SUFFICES ASSUME Len(s) = 1, s[1].dom = {}, s[1].ip = {} PROVE FALSE
      BY DEF MatchesEveryConnection, s
    <3>1. s[1] \in Range(s)
      BY <2>3 DEF Range
    <3> QED
      BY <2>3, <3>1
  <2> QED
    BY <2>5, <2>6 DEF s
<1> QED
  BY <1>3, <1>4

LEMMA CatchAllSeen ==
  ASSUME rules \in Seq(RuleShapes)
  PROVE  CatchAllIsSeen
<1>1. \A k \in DOMAIN rules : rules[k] \in RuleShapes
  OBVIOUS
<1> QED
  BY <1>1, CatchAllIs DEF CatchAllIsSeen

LEMMA AppsHavePaths ==
  ASSUME filter \in [Uids -> {"none", "bypass", "force"}]
  PROVE  EveryAppHasItsPath
<1>1. /\ MainTun.tag = "tun-in" /\ MainTun.table = 2022 /\ MainTun.include = {}
      /\ MainTun.exclude = BypassUids \cup ForceUids
      /\ ForceTun.tag = "tun-force" /\ ForceTun.table = 2023 /\ ForceTun.include = ForceUids
  BY DEF MainTun, ForceTun
<1>2. ASSUME NEW u \in Uids
      PROVE  {t.tag : t \in {t \in TunInbounds : Captures(t, u)}} =
                CASE filter[u] = "bypass" -> {} [] filter[u] = "force" -> {"tun-force"} [] OTHER -> {"tun-in"}
  <2>1. filter[u] \in {"none", "bypass", "force"}
    OBVIOUS
  <2>2. Captures(MainTun, u) <=> filter[u] = "none"
    BY <1>1, <2>1 DEF Captures, BypassUids, ForceUids
  <2>3. ForceUids # {} => (Captures(ForceTun, u) <=> filter[u] = "force")
    BY <1>1 DEF Captures, ForceUids
  <2>4. filter[u] = "force" => ForceUids # {}
    BY DEF ForceUids
  <2> QED
    BY <1>1, <2>1, <2>2, <2>3, <2>4 DEF TunInbounds
<1>3. \A t, q \in TunInbounds : t # q => t.table # q.table
  BY <1>1 DEF TunInbounds
<1> QED
  BY <1>2, <1>3 DEF EveryAppHasItsPath

(* Lookups: the DNS rules answer as the traffic goes.                       *)
DnsRecs ==
    [server : {"local", "remote"}, dom : SUBSET {"d1", "d2"}, app : SUBSET Apps]

(* A connection to a name.                                                  *)
Web(dom, app) ==
    [inb |-> "socks-in", dom |-> dom, ip |-> "us", port |-> MaxPort, net |-> "tcp", app |-> app]

LEMMA WebFields ==
  ASSUME NEW dom \in {"d1", "d2"}, NEW app \in Apps
  PROVE  LET c == Web(dom, app)
         IN  c \in AllConns /\ c.dom = dom /\ c.app = app /\ c.ip = "us" /\ ~Literal(c)
<1>1. MaxPort \in Ports \ {0}
  BY ConnsAssumption DEF Ports, DnsPort
<1>2. dom # "" /\ {"d1", "d2"} \subseteq Domains
  BY DEF Domains
<1>3. PICK d : d = dom /\ d \in Domains
  BY <1>2
<1>4. Web(d, app) \in AllConns
  <2> HIDE DEF Domains
  <2> QED
    BY <1>1, <1>3 DEF Web, AllConns, Regions
<1>5. ~Literal(Web(dom, app))
  BY <1>2 DEF Literal, Web
<1> QED
  BY <1>3, <1>4, <1>5 DEF Web

NamesOnly(rs) ==
    \A k \in DOMAIN rs : /\ "!cn" \notin rs[k].ip /\ rs[k].ip = {} /\ rs[k].dom # {}
                         /\ rs[k].ports = {} /\ rs[k].net = {}
                         /\ rs[k].out \in {"direct", "proxy"}

LEMMA DnsRuleMatches ==
  ASSUME NEW r \in RuleShapes, r.ip = {}, r.dom # {}, r.ports = {}, r.net = {}, r.out \in {"direct", "proxy"},
         NEW dom \in {"d1", "d2"}, NEW app \in Apps
  PROVE  LET M == {x \in DnsRecs : dom \in x.dom /\ app \in x.app}
         IN  /\ DnsRule(r) \in Seq(DnsRecs)
             /\ \A j \in 1..Len(DnsRule(r)) :
                   DnsRule(r)[j].server = IF r.out = "direct" THEN "local" ELSE "remote"
             /\ Entries(DnsRule(r), M) # {} <=> Catches(r, Web(dom, app), FALSE)
<1> DEFINE M == {x \in DnsRecs : dom \in x.dom /\ app \in x.app}
<1>1. Catches(r, Web(dom, app), FALSE) <=> dom \in ParseDomains(r.dom) /\ (r.app = {} \/ app \in r.app)
  BY WebFields DEF Catches, ParseDomains
<1>2. CASE ParseDomains(r.dom) = {}
  <2>1. DnsRule(r) = <<>>
    BY <1>2 DEF DnsRule
  <2>2. PICK p : p = DnsRule(r)
    OBVIOUS
  <2>3. Len(p) = 0 /\ p \in Seq(DnsRecs) /\ 1..0 = {}
    BY ONLY <2>1, <2>2
  <2>4. Entries(p, M) = {}
    BY <2>3 DEF Entries
  <2>5. ~Catches(r, Web(dom, app), FALSE)
    BY <1>1, <1>2
  <2>6. \A j \in 1..Len(p) : p[j].server = IF r.out = "direct" THEN "local" ELSE "remote"
    BY <2>3
  <2> HIDE DEF M
  <2> QED
    BY ONLY <2>2, <2>3, <2>4, <2>5, <2>6 DEF M
<1>3. CASE ParseDomains(r.dom) # {}
  <2>1. PICK x : x = [server |-> IF r.out = "direct" THEN "local" ELSE "remote",
                      dom |-> ParseDomains(r.dom), app |-> IF r.app = {} THEN Apps ELSE r.app]
    OBVIOUS
  <2>2. DnsRule(r) = <<x>>
    BY <1>3, <2>1 DEF DnsRule
  <2>3. /\ x \in DnsRecs /\ x.server = IF r.out = "direct" THEN "local" ELSE "remote"
        /\ x.dom = ParseDomains(r.dom) /\ x.app = IF r.app = {} THEN Apps ELSE r.app
    <3>1. ParseDomains(r.dom) \subseteq {"d1", "d2"} /\ {"app"} \subseteq Apps
      BY ParsedEntries DEF Apps
    <3>2. (IF r.app = {} THEN Apps ELSE r.app) \in SUBSET Apps
      BY <3>1, ShapeFields
    <3> QED
      BY <2>1, <3>1, <3>2 DEF DnsRecs
  <2>4. x \in M <=> Catches(r, Web(dom, app), FALSE)
    BY <1>1, <2>3
  <2>a. PICK p : p = DnsRule(r)
    OBVIOUS
  <2>5. Len(p) = 1 /\ p[1] = x /\ p \in Seq(DnsRecs)
    <3>1. x \in DnsRecs
      BY <2>3
    <3> QED
      BY ONLY <2>2, <2>a, <3>1
  <2> HIDE DEF M
  <2>6. Entries(p, M) # {} <=> x \in M
    BY <2>5 DEF Entries
  <2>7. \A j \in 1..Len(p) : p[j].server = IF r.out = "direct" THEN "local" ELSE "remote"
    <3>1. \A j \in 1..1 : j = 1
      OBVIOUS
    <3> QED
      BY ONLY <2>3, <2>5, <3>1
  <2> QED
    BY ONLY <2>a, <2>4, <2>5, <2>6, <2>7 DEF M
<1> QED
  BY <1>2, <1>3

LEMMA LookupSays ==
  ASSUME rules \in Seq(RuleShapes), NamesOnly(rules), NEW dom \in {"d1", "d2"}, NEW app \in Apps
  PROVE  (AskedServer(rules, dom, app) = "local") <=> (SbVerdict(Structured(rules), Web(dom, app)) = "direct")
<1>0. PICK c : c = Web(dom, app)
  OBVIOUS
<1> DEFINE parts == [k \in DOMAIN rules |-> DnsRule(rules[k])]
           M == {x \in DnsRecs : dom \in x.dom /\ app \in x.app}
           caught == Caught(rules, c, FALSE)
           rows == RowsTo(parts, Len(parts), M)
           S == Structured(rules)
           D == DnsRules(rules)
<1>1. /\ Len(rules) \in Nat /\ DOMAIN rules = 1..Len(rules)
      /\ \A k \in 1..Len(rules) : rules[k] \in RuleShapes
  OBVIOUS
<1>2. c \in AllConns /\ ~Literal(c)
  BY <1>0, WebFields
<1>3. \A k \in 1..Len(rules) :
         /\ DnsRule(rules[k]) \in Seq(DnsRecs)
         /\ \A j \in 1..Len(DnsRule(rules[k])) :
               DnsRule(rules[k])[j].server = IF rules[k].out = "direct" THEN "local" ELSE "remote"
         /\ Entries(DnsRule(rules[k]), M) # {} <=> Catches(rules[k], c, FALSE)
  BY <1>0, <1>1, DnsRuleMatches DEF NamesOnly
<1>4. parts \in Seq(Seq(DnsRecs)) /\ Len(parts) = Len(rules)
      /\ \A k \in 1..Len(rules) : parts[k] = DnsRule(rules[k])
  <2>1. \A k \in 1..Len(rules) : DnsRule(rules[k]) \in Seq(DnsRecs)
    BY <1>3
  <2> QED
    BY ONLY <1>1, <2>1
<1>5. \A x \in DnsRecs : x \in M <=> dom \in x.dom /\ app \in x.app
  OBVIOUS
<1> HIDE DEF M, parts
<1>6. rows = caught
  BY <1>1, <1>3, <1>4 DEF RowsTo, Caught
<1>7. D \in Seq(DnsRecs) /\ (Entries(D, M) = {} <=> rows = {})
      /\ (rows # {} => First(rows) \in rows /\ \E j \in 1..Len(parts[First(rows)]) :
                          FirstEntry(D, M) = parts[First(rows)][j])
  BY <1>4, FirstPart DEF DnsRules, parts
<1>8. DnsHits(D, dom, app) = Entries(D, M)
  <2>1. DOMAIN D = 1..Len(D) /\ \A k \in 1..Len(D) : D[k] \in DnsRecs
    BY <1>7
  <2> QED
    BY <1>5, <2>1 DEF DnsHits, Entries
<1>9. AskedServer(rules, dom, app) = IF Entries(D, M) = {} THEN "remote" ELSE FirstEntry(D, M).server
  BY <1>8 DEF AskedServer, FirstEntry
<1>10. SbVerdict(S, c) = IF caught = {} THEN "proxy" ELSE Verdict(rules[First(caught)])
  <2>1. "no" = "yes" <=> Literal(c)
    BY <1>2
  <2>2. \A k \in 1..Len(rules) : "!cn" \notin rules[k].ip
    BY DEF NamesOnly
  <2>3. /\ S \in Seq(SbRules)
        /\ Heard(S, c, "no") = {} <=> caught = {}
        /\ caught # {} => HeardAct(S, c, "no") = Verdict(rules[First(caught)])
    <3>1. FALSE \in BOOLEAN /\ (FALSE <=> "no" = "yes")
      OBVIOUS
    <3> QED
      BY <1>2, <2>2, <3>1, StructuredSays
  <2> HIDE DEF S, caught
  <2>4. SbVerdict(S, c) = IF Heard(S, c, "no") = {} THEN "proxy" ELSE HeardAct(S, c, "no")
    BY <2>1, <2>3, VerdictIsHeard
  <2> QED
    BY <2>3, <2>4
<1>11. caught # {} => First(caught) \in 1..Len(rules)
  <2>1. caught \subseteq 1..Len(rules)
    BY <1>1 DEF Caught
  <2> HIDE DEF caught, rows
  <2> QED
    BY <1>6, <1>7, <2>1
<1> HIDE DEF caught, rows, D, S
<1>12. CASE caught = {}
  BY <1>0, <1>6, <1>7, <1>9, <1>10, <1>12 DEF S
<1>13. CASE caught # {}
  <2>1. PICK k \in 1..Len(rules) : k = First(caught)
    BY <1>11, <1>13
  <2>2. FirstEntry(D, M).server = IF rules[k].out = "direct" THEN "local" ELSE "remote"
    BY <1>3, <1>4, <1>6, <1>7, <1>13, <2>1
  <2>3. SbVerdict(S, c) = Verdict(rules[k]) /\ AskedServer(rules, dom, app) = FirstEntry(D, M).server
    BY <1>6, <1>7, <1>9, <1>10, <1>13, <2>1
  <2>4. rules[k].out \in {"direct", "proxy"}
    BY <1>1 DEF NamesOnly
  <2> QED
    BY <1>0, <2>2, <2>3, <2>4 DEF Verdict, S
<1> QED
  BY <1>12, <1>13

LEMMA LookupsFollowTraffic ==
  ASSUME rules \in Seq(RuleShapes)
  PROVE  LookupFollowsTraffic
<1>1. \A dom \in Domains \ {""} : dom \in {"d1", "d2"}
  BY DEF Domains
<1>2. ASSUME NamesOnly(rules), NEW dom \in Domains \ {""}, NEW app \in Apps
      PROVE  (AskedServer(rules, dom, app) = "local") = (SbVerdict(Structured(rules), Web(dom, app)) = "direct")
  <2>1. PICK d \in {"d1", "d2"} : d = dom
    BY <1>1
  <2>2. (AskedServer(rules, d, app) = "local") <=> (SbVerdict(Structured(rules), Web(d, app)) = "direct")
    BY <1>2, LookupSays
  <2> QED
    BY ONLY <2>1, <2>2
<1> QED
  BY <1>2 DEF LookupFollowsTraffic, NamesOnly, Web, Plain

(* The settings an edit leaves.                                             *)
OptOK ==
    /\ opt.dnsViaProxy \in BOOLEAN /\ opt.sniff \in BOOLEAN /\ opt.strategy \in Strategies
    /\ opt.remote \in DnsAddrs /\ opt.domestic \in DnsAddrs /\ opt.hosts \subseteq DnsHosts

LEMMA BootstrapAvoids ==
  ASSUME OptOK
  PROVE  BootstrapAvoidsProxy
<1> DEFINE remote == DnsServer("remote", opt.remote, IF opt.dnsViaProxy THEN "proxy" ELSE "none")
           local == DnsServer("local", opt.domestic, "none")
           hosts == DnsServer("hosts", "ip", "none")
<1>1. "ip" \notin DnsHosts
  BY DnsAssumption
<1>2. /\ remote.tag = "remote" /\ remote.resolver \in {"hosts", "local", "none"}
      /\ remote.resolver = "hosts" => opt.hosts # {}
      /\ remote.addr \in DnsHosts => remote.resolver # "none"
  BY DEF DnsServer
<1>3. /\ local.tag = "local" /\ local.detour = "none" /\ local.addr = opt.domestic
      /\ local.resolver \in {"hosts", "none"} /\ (local.resolver = "hosts" => opt.hosts # {})
      /\ opt.domestic \in DnsHosts => (local.resolver = "none" <=> DomesticUnresolved)
  BY DEF DnsServer, OptOK, DomesticUnresolved
<1>4. hosts.tag = "hosts" /\ hosts.detour = "none" /\ hosts.addr = "ip" /\ hosts.resolver = "none"
  BY <1>1 DEF DnsServer, OptOK
<1>5. SingboxDns = {remote, local} \cup (IF opt.hosts = {} THEN {} ELSE {hosts})
  BY DEF SingboxDns
<1> HIDE DEF remote, local, hosts
<1>6. \A s \in SingboxDns : s.resolver # "none" => s.resolver # s.tag /\ \E q \in SingboxDns : q.tag = s.resolver
  BY <1>2, <1>3, <1>4, <1>5
<1>7. ASSUME NEW s \in SingboxDns, s.tag = "local" \/ \E q \in SingboxDns : q.resolver = s.tag
      PROVE  s.detour = "none"
  BY <1>2, <1>3, <1>4, <1>5, <1>7
<1>8. ASSUME NEW s \in SingboxDns
      PROVE  (s.addr \in DnsHosts /\ s.resolver = "none") <=> (s.tag = "local" /\ DomesticUnresolved)
  <2>1. DomesticUnresolved => opt.domestic \in DnsHosts
    BY DEF DomesticUnresolved
  <2> QED
    BY <1>1, <1>2, <1>3, <1>4, <1>5, <2>1
<1> QED
  BY <1>6, <1>7, <1>8 DEF BootstrapAvoidsProxy

(* The list Xray gets once the tun's DNS is sent into it.                   *)
XrModule == [XrBare(DnsOutTag) EXCEPT !.inb = {"dns-module"}]

LEMMA XrModuleFields ==
  /\ XrModule.out = DnsOutTag /\ XrModule.inb = {"dns-module"} /\ XrModule.ports = AnyPort
  /\ XrModule.net = AnyNet /\ XrModule.anyDom = TRUE /\ XrModule.anyIp = TRUE
  /\ ~IsDnsRule(XrModule) /\ ~IsDnsRule(XrForced) /\ IsDnsRule(XrDns)
<1>1. /\ XrModule.out = DnsOutTag /\ XrModule.inb = {"dns-module"} /\ XrModule.ports = AnyPort
      /\ XrModule.net = AnyNet /\ XrModule.anyDom = TRUE /\ XrModule.anyIp = TRUE
  BY DEF XrModule, XrBare
<1>2. AnyPort # {<<DnsPort, DnsPort>>}
  <2>1. <<0, MaxPort>> # <<1, 1>>
    OBVIOUS
  <2> QED
    BY <2>1 DEF AnyPort, DnsPort
<1>3. UserInb # AnyInb /\ "socks-in" \in UserInb
  BY DEF UserInb, AnyInb
<1> QED
  BY <1>1, <1>2, <1>3, XrExtraFields DEF IsDnsRule

LEMMA HijackedParts ==
  ASSUME NEW before \in Seq(XrRules), Len(before) >= 3, before[1] = XrForced, before[2] = XrDns, opt.dnsViaProxy \in BOOLEAN
  PROVE  LET after == HijackInboundDns(before)
         IN  /\ \E T : after \in Seq(T)
             /\ Len(after) = Len(before) + 1 /\ after[1] = XrModule
             /\ \A k \in 1..Len(before) :
                   after[k + 1] = IF k = 2 THEN [XrDns EXCEPT !.out = "dns-out"] ELSE before[k]
<1> DEFINE at == {k \in DOMAIN before : IsDnsRule(before[k])}
           b2 == [before EXCEPT ![2].out = "dns-out"]
<1>1. DOMAIN before = 1..Len(before) /\ Len(before) \in Nat
  OBVIOUS
<1>2. First(at) = 2 /\ at # {}
  <2>1. 2 \in at /\ at \subseteq Nat
    BY <1>1, XrModuleFields
  <2>2. \A j \in at : 2 <= j
    <3> SUFFICES ASSUME NEW j \in at, j = 1 PROVE FALSE
      BY <1>1
    <3> QED
      BY XrModuleFields
  <2> HIDE DEF at
  <2> QED
    BY <2>1, <2>2, FirstIs
<1>3. XrDns.out = DnsOutTag /\ DnsOutTag # "dns-out"
  BY XrExtraFields DEF DnsOutTag
<1>4. HijackInboundDns(before) = <<XrModule>> \o b2
  <2>1. before[First(at)].out = DnsOutTag
    BY <1>2, <1>3
  <2>2. HijackInboundDns(before) =
          IF at = {} \/ before[First(at)].out = "dns-out" THEN before
          ELSE <<[XrBare(before[First(at)].out) EXCEPT !.inb = {"dns-module"}]>>
               \o [before EXCEPT ![First(at)].out = "dns-out"]
    BY DEF HijackInboundDns
  <2> HIDE DEF at
  <2> QED
    BY <1>2, <1>3, <2>1, <2>2 DEF XrModule
<1> DEFINE dns == [XrDns EXCEPT !.out = "dns-out"]
           T == XrRules \cup {dns, XrModule}
<1>5. b2 \in Seq(T) /\ Len(b2) = Len(before)
      /\ \A k \in 1..Len(before) : b2[k] = IF k = 2 THEN dns ELSE before[k]
  <2>1. b2 = [k \in 1..Len(before) |-> IF k = 2 THEN dns ELSE before[k]]
    BY <1>1
  <2>2. \A k \in 1..Len(before) : before[k] \in T
    OBVIOUS
  <2>3. dns \in T
    OBVIOUS
  <2> HIDE DEF dns, T, b2
  <2> QED
    BY <1>1, <2>1, <2>2, <2>3
<1>6. XrModule \in T
  OBVIOUS
<1>7. PICK m, a : m = XrModule /\ a = <<m>> \o b2
  OBVIOUS
<1> HIDE DEF dns, T, b2, at
<1>8. a \in Seq(T) /\ Len(a) = Len(before) + 1 /\ a[1] = m
      /\ \A k \in 1..Len(before) : a[k + 1] = b2[k]
  BY ONLY <1>1, <1>5, <1>6, <1>7
<1>9. HijackInboundDns(before) = a
  BY <1>4, <1>7
<1>10. \A k \in 1..Len(before) : a[k + 1] = IF k = 2 THEN dns ELSE before[k]
  BY <1>5, <1>8
<1> QED
  BY <1>7, <1>8, <1>9, <1>10 DEF dns

XrAnswer == [XrDns EXCEPT !.out = "dns-out"]

LEMMA XrAnswerFields ==
  /\ XrAnswer.out = "dns-out" /\ XrAnswer.inb = UserInb /\ XrAnswer.ports = {<<DnsPort, DnsPort>>}
  /\ XrAnswer.net = AnyNet /\ XrAnswer.anyDom = TRUE /\ XrAnswer.anyIp = TRUE /\ IsDnsRule(XrAnswer)
<1>1. /\ XrAnswer.out = "dns-out" /\ XrAnswer.inb = UserInb /\ XrAnswer.ports = {<<DnsPort, DnsPort>>}
      /\ XrAnswer.net = AnyNet /\ XrAnswer.anyDom = TRUE /\ XrAnswer.anyIp = TRUE
  BY DEF XrAnswer, XrDns, XrBare
<1>2. UserInb # AnyInb /\ "socks-in" \in UserInb
  BY DEF UserInb, AnyInb
<1> QED
  BY <1>1, <1>2 DEF IsDnsRule

LEMMA HijackClean ==
  ASSUME rules \in Seq(RuleShapes), opt.dnsViaProxy \in BOOLEAN
  PROVE  DnsHijackIsClean
<1>1. PICK before : before = XrayRouting(rules)
  OBVIOUS
<1>2. before \in Seq(XrRules) /\ Len(before) >= 3 /\ before[1] = XrForced /\ before[2] = XrDns
  BY <1>1, XrayParts
<1>3. PICK after : after = HijackInboundDns(before)
  OBVIOUS
<1> DEFINE n == Len(before)
<1>4. /\ n \in Nat /\ n >= 3 /\ DOMAIN before = 1..n
      /\ Len(after) = n + 1 /\ DOMAIN after = 1..(n + 1)
      /\ after[1] = XrModule /\ after[2] = XrForced /\ after[3] = XrAnswer
      /\ \A k \in 1..n : k # 2 => after[k + 1] = before[k]
  <2>1. PICK T : after \in Seq(T)
    BY <1>2, <1>3, HijackedParts
  <2>2. /\ Len(after) = n + 1 /\ after[1] = XrModule
        /\ \A k \in 1..n : after[k + 1] = IF k = 2 THEN XrAnswer ELSE before[k]
    BY <1>2, <1>3, HijackedParts DEF XrAnswer
  <2>3. n \in Nat /\ n >= 3 /\ DOMAIN before = 1..n /\ DOMAIN after = 1..(n + 1)
    BY <1>2, <2>1, <2>2
  <2>4. 1 \in 1..n /\ 2 \in 1..n
    BY <2>3
  <2>5. after[1 + 1] = XrForced /\ after[2 + 1] = XrAnswer
    BY <1>2, <2>2, <2>4
  <2> HIDE DEF n
  <2> QED
    BY <2>2, <2>3, <2>5
<1> HIDE DEF n
<1>5. HijackInboundDns(after) = after
  <2> DEFINE at == {k \in DOMAIN after : IsDnsRule(after[k])}
  <2>1. 3 \in at /\ at \subseteq Nat
    BY <1>4, XrAnswerFields
  <2>2. \A j \in at : 3 <= j
    <3> SUFFICES ASSUME NEW j \in at, j = 1 \/ j = 2 PROVE FALSE
      BY <1>4
    <3> QED
      BY <1>4, XrModuleFields
  <2>3. First(at) = 3
    <3> HIDE DEF at
    <3> QED
      BY <2>1, <2>2, FirstIs
  <2> QED
    BY <1>4, <2>3, XrAnswerFields DEF HijackInboundDns
<1>6. ASSUME NEW c \in AllConns, NEW strategy, NEW d, d = [c EXCEPT !.inb = "dns-module"]
      PROVE  XrVerdict(after, d, strategy) = DnsOutTag
  <2>1. d.inb = "dns-module" /\ d.port = c.port /\ d.net = c.net
    BY <1>6 DEF AllConns
  <2>2. PortIn(AnyPort, d.port) /\ d.net \in AnyNet
    BY <2>1, ConnFields, ConnsAssumption DEF PortIn, AnyPort
  <2>3. XrMatches(XrModule, d, strategy)
    BY <2>1, <2>2, XrModuleFields DEF XrMatches
  <2>4. 1 \in XrHits(after, d, strategy) /\ XrHits(after, d, strategy) \subseteq 1..(n + 1)
    BY <1>4, <2>3 DEF XrHits
  <2>5. First(XrHits(after, d, strategy)) = 1
    BY <1>4, <2>4, FirstIs
  <2> QED
    BY <1>4, <2>4, <2>5, XrModuleFields DEF XrVerdict
<1>7. ASSUME NEW c \in AllConns, NEW strategy
      PROVE  ~XrMatches(XrModule, c, strategy)
  BY ConnFields, XrModuleFields DEF XrMatches, AnyInb
<1>8. ASSUME NEW c \in AllConns, NEW strategy, c.inb = "socks-in", c.port = DnsPort
      PROVE  XrVerdict(after, c, strategy) = "dns-out"
  <2>1. c.net \in AnyNet /\ c.inb \in UserInb /\ PortIn({<<DnsPort, DnsPort>>}, c.port)
    BY <1>8, ConnFields DEF UserInb, PortIn, DnsPort
  <2>2. XrMatches(XrAnswer, c, strategy)
    BY <2>1, XrAnswerFields DEF XrMatches
  <2>3. ~XrMatches(XrForced, c, strategy)
    BY <1>8, XrExtraFields DEF XrMatches
  <2> DEFINE hits == XrHits(after, c, strategy)
  <2>4. 3 \in hits /\ hits \subseteq 1..(n + 1) /\ 1 \notin hits /\ 2 \notin hits
    BY <1>4, <1>7, <2>2, <2>3 DEF XrHits
  <2> HIDE DEF hits
  <2>5. First(hits) = 3
    <3>1. \A j \in hits : 3 <= j
      BY <1>4, <2>4
    <3> QED
      BY <1>4, <2>4, <3>1, FirstIs
  <2> QED
    BY <1>4, <2>4, <2>5, XrAnswerFields DEF XrVerdict, hits
<1>9. ASSUME NEW c \in AllConns, NEW strategy, ~(c.inb = "socks-in" /\ c.port = DnsPort)
      PROVE  XrVerdict(after, c, strategy) = XrVerdict(before, c, strategy)
  <2>1. ~XrMatches(XrDns, c, strategy) /\ ~XrMatches(XrAnswer, c, strategy)
    <3>1. c.inb \notin UserInb \/ ~PortIn({<<DnsPort, DnsPort>>}, c.port)
      BY <1>9, ConnFields DEF UserInb, PortIn, DnsPort
    <3> QED
      BY <3>1, XrExtraFields, XrAnswerFields DEF XrMatches
  <2> DEFINE B == XrHits(before, c, strategy)
             H == XrHits(after, c, strategy)
  <2>2. B \in SUBSET (1..n) /\ H \subseteq 1..(1 + n) /\ 2 \notin B
    BY <1>2, <1>4, <2>1 DEF XrHits
  <2>3. \A k \in 1..1 : k \in H <=> k \in {}
    BY <1>4, <1>7 DEF XrHits
  <2>4. ASSUME NEW k \in 1..n PROVE 1 + k \in H <=> k \in B
    <3>1. 1 + k \in 1..(n + 1) /\ 1 + k = k + 1
      BY <1>4
    <3>2. CASE k = 2
      <4>1. 1 + k = 3 /\ 3 \notin H
        BY <1>4, <2>1, <3>2 DEF XrHits
      <4> QED
        BY <2>2, <3>2, <4>1
    <3>3. CASE k # 2
      BY <1>4, <3>1, <3>3 DEF XrHits
    <3> QED
      BY <3>2, <3>3
  <2> HIDE DEF B, H
  <2>5. /\ H = {} <=> B = {}
        /\ B # {} => First(H) = 1 + First(B) /\ First(B) \in B
    <3>1. PICK none, m : none = {} /\ m = 1
      OBVIOUS
    <3>2. Shifted(m, n, none, B, H)
      BY <1>4, <2>2, <2>3, <2>4, <3>1 DEF Shifted
    <3>3. /\ H = {} <=> none = {} /\ B = {}
          /\ none # {} => First(H) = First(none) /\ First(none) \in none
          /\ (none = {} /\ B # {}) => First(H) = m + First(B) /\ First(B) \in B
      BY ONLY <3>2, FirstOfShifted
    <3> QED
      BY <3>1, <3>3
  <2>6. B # {} => after[First(H)] = before[First(B)]
    <3> SUFFICES ASSUME B # {} PROVE after[First(H)] = before[First(B)]
      OBVIOUS
    <3>1. PICK k \in B : k = First(B) /\ First(H) = 1 + k
      BY <2>5
    <3>2. k \in 1..n /\ k # 2 /\ 1 + k = k + 1
      BY <1>4, <2>2
    <3> QED
      BY <1>4, <3>1, <3>2
  <2> QED
    BY <2>5, <2>6 DEF XrVerdict, B, H
<1>10. ASSUME NEW c \in Conns
       PROVE  /\ XrVerdict(after, [c EXCEPT !.inb = "dns-module"], opt.strategy) = DnsOutTag
              /\ (c.inb = "socks-in" /\ c.port = DnsPort) => XrVerdict(after, c, opt.strategy) = "dns-out"
              /\ ~(c.inb = "socks-in" /\ c.port = DnsPort) =>
                     XrVerdict(after, c, opt.strategy) = XrVerdict(before, c, opt.strategy)
  <2>1. c \in AllConns
    BY ConnsAssumption
  <2>2. PICK strategy, d : strategy = opt.strategy /\ d = [c EXCEPT !.inb = "dns-module"]
    OBVIOUS
  <2>3. XrVerdict(after, d, strategy) = DnsOutTag
    BY <1>6, <2>1, <2>2
  <2> QED
    BY <1>8, <1>9, <2>1, <2>2, <2>3
<1> QED
  BY <1>1, <1>3, <1>5, <1>10 DEF DnsHijackIsClean

(* The rules stay rules the user may write and the settings what the edits  *)
(* allow.                                                                   *)
RouteInv == rules \in Seq(RuleShapes) /\ OptOK /\ filter \in [Uids -> {"none", "bypass", "force"}]

LEMMA RouteInvariant == RouteSpec => []RouteInv
<1>1. RouteInit => RouteInv
  <2>1. "ip" \notin DnsHosts
    BY DnsAssumption
  <2>2. RouteInit => rules \in Seq(RuleShapes) /\ filter \in [Uids -> {"none", "bypass", "force"}]
    BY DEF RouteInit
  <2>3. RouteInit => OptOK
    BY <2>1 DEF RouteInit, OptOK, Strategies, DnsAddrs
  <2> QED
    BY <2>2, <2>3 DEF RouteInv
<1>2. RouteInv /\ [RouteNext]_routeVars => RouteInv'
  <2> SUFFICES ASSUME RouteInv, [RouteNext]_routeVars PROVE RouteInv'
    OBVIOUS
  <2>1. ASSUME NEW r \in RuleShapes, AddRule(r) PROVE RouteInv'
    BY <2>1 DEF AddRule, RouteInv, OptOK
  <2>2. CASE ChangeSettings
    BY <2>2 DEF ChangeSettings, RouteInv, OptOK
  <2>3. CASE ChangeDns
    BY <2>3 DEF ChangeDns, RouteInv, OptOK
  <2>4. CASE ChangeFilter
    BY <2>4 DEF ChangeFilter, RouteInv, OptOK
  <2>5. CASE UNCHANGED routeVars
    BY <2>5 DEF routeVars, RouteInv, OptOK
  <2> QED
    BY <2>1, <2>2, <2>3, <2>4, <2>5 DEF RouteNext
<1> QED
  BY <1>1, <1>2, PTL DEF RouteSpec

(* For any list of rules, settings, ports and apps both cores send a        *)
(* connection where the first rule that catches it says, no rule catches    *)
(* more than it names and the catch-all warning is exact (build_routing,    *)
(* build_singbox_route, matches_every_connection, the tun inbounds).        *)
THEOREM RulesDecide == RouteSpec => []RulesAsWritten
<1>1. RouteInv => RulesAsWritten
  BY SingboxAsWritten, XrayAsWritten, NothingWidened, ForcedIsProxied, CatchAllSeen, AppsHavePaths
     DEF RouteInv, RulesAsWritten
<1> QED
  BY <1>1, RouteInvariant, PTL

(* For any rules over names and any DNS settings, the domestic server's     *)
(* host mapped or not: a name is looked up where its traffic goes, the      *)
(* resolvers the proxy itself needs go neither through it nor in a circle,  *)
(* and the server left without a resolver, a config that sing-box refuses   *)
(* (singbox_config.rs:774-795), is exactly a domestic one that is named by  *)
(* a domain no static host maps. Sending the tun's DNS into Xray changes    *)
(* nothing else and is idempotent (build_singbox_dns, hijack_inbound_dns).  *)
THEOREM LookupsGoWithTraffic == RouteSpec => []LookupsFollowRules
<1>1. RouteInv => LookupsFollowRules
  BY LookupsFollowTraffic, BootstrapAvoids, HijackClean DEF RouteInv, OptOK, LookupsFollowRules
<1> QED
  BY <1>1, RouteInvariant, PTL
=============================================================================
